SPECIFICATION Spec
CONSTANTS
    a = a
    b = b
    c1 = c1
    c2 = c2
    d1 = d1
    Clients = {c1, c2}
    Ids = {d1}
    Values = {a, b}
    Nil = Nil
    NoDoc = NoDoc
    Fields <- TwoFields
    Plain = {}
    Nested = {}
    Elements <- NoSlices
    Contents <- NameOptional
    Overwrites <- NewEmail
    MaxWrites = 3
SYMMETRY Interchangeable
INVARIANTS
    TypeOK
    NoLostUpdate
    WrittenAsEdited
PROPERTIES
    CacheIsProjection
CHECK_DEADLOCK FALSE
