SPECIFICATION FairSpec
CONSTANTS
    c1 = c1
    c2 = c2
    d1 = d1
    d2 = d2
    Clients = {c1, c2}
    Ids = {d1, d2}
    Writes <- EachItsOwn
    Foreign = {}
    Faults <- Outages
    FreshCallers = TRUE
    MaxWrites = 5
    NoClient = NoClient
INVARIANTS
    ReadYourWrite
    NotWedged
PROPERTIES
    CallsReturn
    ProjectionSpec
CHECK_DEADLOCK FALSE
