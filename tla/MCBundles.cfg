SPECIFICATION RowSpec
CONSTANTS
  Opcodes <- MCOpcodes
  Operands <- MCOperands
  NO_MEM_OP = 255
  SP_REG = 54
  LR_REG = 55
  FP_REG = 29
  NUM_GPRS = 64
  Raws <- MCRaws
  Pcs <- MCPcs
INVARIANTS
  RoundTrip
  SlotsApart
  OnlyAliasesTie
  RolesShared
  RowsTile
  StopHides
  FlagsMatchCflow
  RefsExact
  AccessesExact
  PrologueByTables
  FillerWhole
CHECK_DEADLOCK FALSE
