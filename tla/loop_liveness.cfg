SPECIFICATION FairSpec
CONSTANTS
    Fd = {f1, f2}
    Watched = {f1}
    NListeners = 1
    MaxClients = 2
    MaxSends = 1
    Timeout = 1
    Scale = 1
PROPERTIES SlowRequestEnds AnswerEnds QuietRemoved InterruptStops
CHECK_DEADLOCK FALSE
