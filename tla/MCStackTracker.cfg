SPECIFICATION Spec
CONSTANTS
    zero = zero
    sp = sp
    lr = lr
    Entry = 3
    Reg <- RegDef
    ZERO <- zero
    SP <- sp
    LR <- lr
    Word <- WordDef
    Inputs <- InputsDef
    Imm <- ImmDef
    Plus <- PlusDef
    Narrow <- NarrowDef
    Clobbered <- ClobberedDef
INVARIANT TypeOK
INVARIANT OffsetsTrue
INVARIANT ShownTrue
PROPERTY AliasesKept
