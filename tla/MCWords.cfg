SPECIFICATION Spec
CONSTANTS
    W = 6
    H = 3
    Q = 2
INVARIANT AluIsBitExact
CHECK_DEADLOCK FALSE
