SPECIFICATION Spec
CONSTANTS
    Terminals <- MCOne
    KEYBOARD_BUF_SIZE = 4
    NewlineCode = 1
    Letters = {"a"}
    ReadSizes <- MCShort
    TypeAhead = TRUE
    DeadKeys = FALSE
    Completions <- MCNone
    LongCompletions = FALSE
    MaxRows = 2
INVARIANTS
    EnterNotLost
CHECK_DEADLOCK FALSE
