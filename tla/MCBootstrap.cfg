SPECIFICATION FairSpec
CONSTANTS
    None = None
    SegStart = 0
    SegEnd = 14
    ScanLimit = 12
    STRING_MAX_BYTES = 4
    MIN_LENGTH = 2
    MIN_LETTERS = 1
    COMMON_PERCENT = 70
    Contents <- MCContents
    OldItems <- MCOldItems
INVARIANT TypeOK
INVARIANT ItemsWellFormed
INVARIANT EachAddressOnce
INVARIANT ReachedIsNotFill
INVARIANT StringsFound
PROPERTY Terminates
CHECK_DEADLOCK FALSE
