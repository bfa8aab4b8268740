SPECIFICATION Spec
CONSTANTS
    Statements <- Every
    Layouts <- Usual
    Slips <- Typos
    MaxWritten = 6
    MaxSimple = 2
    MaxSlipped = 1
INVARIANTS
    ReadAsWritten
    NothingSkipped
CHECK_DEADLOCK FALSE
