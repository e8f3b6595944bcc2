SPECIFICATION Spec
CONSTANTS
  Opcodes <- MCOpcodes
  Operands <- MCOperands
  NO_MEM_OP = 255
  SP_REG = 54
  LR_REG = 55
  FP_REG = 29
  NUM_GPRS = 64
  Raws <- MCRaws
  Pcs <- MCPcs
PROPERTY DecodesByBestMatch
CHECK_DEADLOCK FALSE
