SPECIFICATION Spec
CHECK_DEADLOCK FALSE
CONSTANTS
    RequestLines <- Asking
    FieldLines <- Sending
    Slips <- Erring
    HexDigits = {0, 1, 2, 8}
    MaxFields = 2
    MaxSlipped = 1
    ArenaSize = 600
    RequestSizes = {416}
    NodeSizes = {0, 8, 64, 72, 88, 112}
    MaxLines = 2
    MaxOptions = 3
    IntMax = 31
    SizeMax = 255
    Limits = {9, 17, 40}
    MaxWritten = 52
INVARIANTS ReadAsWritten FramedAsWritten TakenOff ArenaSuffices LimitKept
