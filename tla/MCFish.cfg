SPECIFICATION FairFishSpec
CHECK_DEADLOCK FALSE
CONSTANTS
    Procs = {1, 2}
    Frequencies <- MCFrequencies
    SLOTS = 3
    CELLS = 5
    WORD = 6
    CHARS = {"nul", " ", "newline", "a", "b", "d", "e", "I", "M", "x", "y"}
    FISH = 1
    FramePairs <- MCFramePairs
    FOREIGN = {"x"}
    MISSING = MISSING
    COLS = 2
    OFFSET = 2
    WAIT = 2
    FRAME_LENGTH = 2
    EXTRA <- MCExtra
    AnyBlinks <- MCBlinks
    AnyLocations <- MCLocations
INVARIANTS
    SyncedTogether
    FramesAdded
PROPERTIES
    TableImplemented
    ReturnsAfterInterrupt
    EveryReadReturns
    FishEnds
