SPECIFICATION FairSpec
CONSTANTS
    Terminals <- MCOne
    KEYBOARD_BUF_SIZE = 2
    NewlineCode = 1
    Letters = {"a"}
    ReadSizes <- MCLong
    TypeAhead = TRUE
    DeadKeys = TRUE
    Completions <- MCSuffix
    LongCompletions = TRUE
    MaxRows = 2
INVARIANTS
    IndexKept
PROPERTIES
    ReadReturns
CHECK_DEADLOCK FALSE
