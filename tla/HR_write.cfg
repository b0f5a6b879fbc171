CONSTANTS
    WRITE_BUFFER_SIZE = 14
    Size <- PieceSize
    FileSizes = {0, 4}
    SNDBUF = 7
    Missable = TRUE
    MaxReplies = 2
    MaxCutoffs = 1
SPECIFICATION FairSpec
INVARIANT Delivered
INVARIANT Complete
INVARIANT Released
PROPERTY Finished
CHECK_DEADLOCK FALSE
