CONSTANTS
    Streams <- OneGet
    Files <- SomeFiles
    READ_BUFFER_SIZE = 18
    Missable = FALSE
SPECIFICATION Spec
INVARIANT GetAnswered
CHECK_DEADLOCK FALSE
