SPECIFICATION Spec
CONSTANTS
    zero = zero
    lr = lr
    r1 = r1
    W = 2
    H = 1
    Q = 1
    Reg <- RegDef
    ZERO <- zero
    LR <- lr
    Word <- WordDef
    Inputs <- InputsDef
    Imm <- ImmDef
    ImmOps <- ImmOpsDef
    RegOps <- RegOpsDef
    Alu <- AluDef
    Mapped <- MappedDef
    Clobbered <- ClobberedDef
INVARIANT TypeOK
INVARIANT Sound
INVARIANT ReportsTrue
PROPERTY ForgetsOnlyWritten
