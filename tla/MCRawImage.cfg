SPECIFICATION Spec
CONSTANTS
  Files <- MCFiles
  Rewrites <- MCRewrites
  Regs = {"r1", "r2"}
  NoReg = NoReg
  SAMPLE_MAX = 40
  SCORE_MIN = 16
  SCORE_MAX = 32
  SCAN_MAX = 40
  ACCEPT_SCORE = 75
  ALIAS_BASE = 64
  BADADDR = 115
  MAX_EDITS = 1
INVARIANTS
  VerdictExact
  NeverTakesOthers
  EvidenceLoaded
  NoEntryWithoutCode
