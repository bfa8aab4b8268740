SPECIFICATION Spec
CONSTANTS
    Fd = {f1, f2, f3}
    Watched = {f1}
    NListeners = 2
    MaxClients = 2
    MaxSends = 2
    Timeout = 0
    Scale = 1
SYMMETRY Symmetry
INVARIANTS VectorsAligned CapacityKept PolledAreOpen OwnBytes InputOnlyWhenIdle TimeoutsEarned
PROPERTIES ResponsesWhole
CHECK_DEADLOCK FALSE
