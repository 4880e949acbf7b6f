SPECIFICATION Spec
CONSTANTS
    c1 = c1
    c2 = c2
    d1 = d1
    d2 = d2
    Clients = {c1, c2}
    Ids = {d1, d2}
    Writes <- Overlapping
    Foreign = {d2}
    Faults <- AnyFault
    FreshCallers = FALSE
    MaxWrites = 4
    NoClient = NoClient
INVARIANTS
    TypeOK
    NoSendOnClosed
    NoMissedNotification
    Inv
PROPERTIES
    ProjectionSafety
CHECK_DEADLOCK FALSE
