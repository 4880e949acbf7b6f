SPECIFICATION Spec
CONSTANTS
    a = a
    b = b
    d1 = d1
    d2 = d2
    Ids = {d1, d2}
    Values = {a, b}
    Nil = Nil
    NoDoc = NoDoc
    Fields <- FourFields
    Plain = {}
    Nested = {}
    Elements <- NoSlices
    InverseFrom <- ByParent
    UniqueFrom <- ByEmail
    SortedFrom <- ByTitle
    SuffixFrom <- ByTitle
    To = Nil
    Spelling <- Letters
    Lower <- LowerCase
    Marks = {5}
    Inserts <- Documents4
    Updates <- PartialUpdates
    MaxWrites = 4
    MaxLag = 1
INVARIANTS
    TypeOK
    InverseExact
    InverseComplete
    UniqueExact
    SortedExact
    SuffixFinds
    NumbersAgree
    QueryExact
    SearchedBefore
PROPERTIES
    CacheIsProjection
CHECK_DEADLOCK FALSE
