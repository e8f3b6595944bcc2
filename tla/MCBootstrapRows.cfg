SPECIFICATION Spec
CONSTANTS
    None = None
    SegStart = 0
    SegEnd = 14
    ScanLimit = 12
    STRING_MAX_BYTES = 4
    MIN_LENGTH = 2
    MIN_LETTERS = 1
    COMMON_PERCENT = 70
    Contents <- CodeContents
    OldItems <- NewFile
CHECK_DEADLOCK FALSE
INVARIANT CodeRowsCreated
