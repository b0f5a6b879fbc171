CONSTANTS
    Streams <- SomeStreams
    Files <- SomeFiles
    READ_BUFFER_SIZE = 18
    Missable = TRUE
SPECIFICATION FairSpec
INVARIANT EveryLine
INVARIANT Remembered
INVARIANT Earned
INVARIANT RoundsBounded
PROPERTY Returns
CHECK_DEADLOCK FALSE
