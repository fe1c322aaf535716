SPECIFICATION FairSpec
CONSTANTS
    Terminals <- MCTwo
    KEYBOARD_BUF_SIZE = 3
    NewlineCode = 1
    Letters = {"a"}
    ReadSizes <- MCShort
    TypeAhead = FALSE
    DeadKeys = FALSE
    Completions <- MCSuffix
    LongCompletions = FALSE
    MaxRows = 2
INVARIANTS
    EnterNotLost
PROPERTIES
    ReadReturns
    LinesDelivered
