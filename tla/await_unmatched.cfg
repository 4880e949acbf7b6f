SPECIFICATION FairSpec
CONSTANTS
    c1 = c1
    c2 = c2
    d1 = d1
    d2 = d2
    Clients = {c1, c2}
    Ids = {d1}
    Writes <- OnlyTheFirst
    Foreign = {}
    Faults <- NoFaults
    FreshCallers = FALSE
    MaxWrites = 3
    NoClient = NoClient
PROPERTY
    UnmatchedCallsReturn
CHECK_DEADLOCK FALSE
