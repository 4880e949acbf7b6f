SPECIFICATION StartupSpec
CONSTANTS
    a = a
    b = b
    d1 = d1
    d2 = d2
    Ids = {d1, d2}
    Values = {a, b}
    Nil = Nil
    NoDoc = NoDoc
    Fields <- ThreeFields
    Plain = {}
    Nested = {}
    Elements <- NoSlices
    InverseFrom <- ByParent
    UniqueFrom <- ByEmail
    SortedFrom <- ByTitle
    SuffixFrom <- ByTitle
    To = Nil
    Spelling <- Letters
    Lower <- LowerCase
    Marks = {5}
    Inserts <- Created
    Updates <- Changes
    MaxWrites = 3
    MaxLag = 3
    Warm <- WithParent
    Order <- AnyOrder
INVARIANTS
    StartupTypeOK
    Converged
    NothingInvented
    ListedAfterStartup
    UniqueAfterStartup
    FoundAfterStartup
    BlockedByReplay
PROPERTIES
    CatchesUp
CHECK_DEADLOCK FALSE
