SPECIFICATION FairSpec
CONSTANTS
    Streams <- Pairs
    Pipelined = TRUE
    MaxRecv = 6
    DefaultMax = 4
    MaxBody = 2
INVARIANT InSync
PROPERTIES ImplementsExchange AllAnswered
CHECK_DEADLOCK FALSE
