SPECIFICATION Spec
CONSTANTS
    c1 = c1
    c2 = c2
    d1 = d1
    d2 = d2
    Clients = {c1, c2}
    Ids = {d1}
    Writes <- BothTheSame
    Foreign = {}
    Faults <- NoFaults
    FreshCallers = TRUE
    MaxWrites = 3
    NoClient = NoClient
INVARIANT
    ReadYourWrite
CHECK_DEADLOCK FALSE
