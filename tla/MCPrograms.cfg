SPECIFICATION ProgSpec
CONSTANTS
    BLOCK_SIZE = 8
    NUM_DATA_BLOCKS = 5
    FILENAME_LEN = 2
    direntries <- MCDirectory
    inodes <- MCInodes
    Procs = {1, 2}
    FDA_SIZE = 4
    OpenNames <- MCNames
    ReadSizes = {12}
    Orderly = TRUE
    RUNNER = 1
    Arguments <- MCArguments
    CAT_SIZE = 12
    GrepSizes = {12, 7}
    Selections = {0, 5, 9}
    WrongNames <- MCWrongNames
INVARIANTS
    PiecesMakeTheFile
    ProgramsDoTheirWork
PROPERTIES
    ZeroMeansEnd
    ListingIsComplete
