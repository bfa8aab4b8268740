SPECIFICATION Spec
CHECK_DEADLOCK FALSE
CONSTANTS
    Config <- File
    Descriptors = {3, 4, 5, 6, 7}
    MaxInfos = 2
    Requests <- Asked
    Clients = {c1, c2, c3}
    DefaultRoot <- Html
    DefaultIndex <- IndexHtml
    Capacity = 4
INVARIANTS TypeOK NothingLost ListensForAll
PROPERTY ImplementsQuery
