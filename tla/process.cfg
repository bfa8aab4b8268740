SPECIFICATION FairSpec
CONSTANTS
    a = a
    b = b
    Clients = {a, b}
    Wants <- WhatTheyWant
    ReaderErrors = {400, 408}
    Files <- AllFiles
    Changes <- SomeChanges
    Scripts = {"x.py", "y.py"}
    Extended <- WithTxt
    Stamps <- StampNames
    StackLimit = 3
    Nobody = Nobody
    Nothing = Nothing
INVARIANT Framed
PROPERTIES StoredWhereSaid DeletedOnce Answered
CHECK_DEADLOCK FALSE
