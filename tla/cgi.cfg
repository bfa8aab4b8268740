SPECIFICATION FairSpec
CONSTANTS
    Calls <- AllCalls
    PipeSize = 2
    Timeout = 1
INVARIANTS TypeOK NothingLeft WholeAnswer
PROPERTY Returns
CHECK_DEADLOCK FALSE
