SPECIFICATION Spec
CONSTANTS
    Streams <- Chunked1
    Pipelined = FALSE
    MaxRecv = 6
    DefaultMax = 4
    MaxBody = 2
INVARIANT ChunkedAnswered
CHECK_DEADLOCK FALSE
