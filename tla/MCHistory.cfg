SPECIFICATION Spec
CONSTANTS
    HISTORY_ROWS = 3
    SEARCH_ROWS = 6
    KEYBOARD_BUF_SIZE = 10
    Typed <- MCTyped
    Directories <- MCDirectories
    BufferSizes = {0, 2, 8}
INVARIANTS
    ArgumentsDelivered
    NoGapInHistory
    CompletesToCommonPrefix
PROPERTIES
    PendingComesBack
