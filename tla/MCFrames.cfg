SPECIFICATION Spec
CONSTANTS
  Bodies <- MCBodies
  PROLOG_SCAN_LIMIT = 12
  IMM_LIMIT = 2
  I64_MAX = 6
  U32_MAX = 6
  MAX_FRAME = 3
INVARIANTS
  FrameCoversPrologue
  NeverSaturates
  VarsNeedFramePointer
PROPERTY FrameOnlyGrows
