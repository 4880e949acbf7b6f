SPECIFICATION FairSpec
CONSTANTS
    c1 = c1
    c2 = c2
    d1 = d1
    d2 = d2
    Clients = {c1, c2}
    Ids = {d1}
    Writes <- BothTheSame
    Foreign = {}
    Faults <- Outages
    FreshCallers = TRUE
    MaxWrites = 4
    NoClient = NoClient
PROPERTY
    FailedCallsReturn
CHECK_DEADLOCK FALSE
