SPECIFICATION Spec
CONSTANTS
    Calls <- AllCalls
    PipeSize = 2
    Timeout = 1
INVARIANT FailureAnswered
CHECK_DEADLOCK FALSE
