SPECIFICATION Spec
CONSTANTS
    a = a
    b = b
    id = id
    Types <- AllTypes
    Created <- Sample
    Scalars = {a, b}
    Zero = Zero
    Nil = Nil
    Null = Null
    NoDoc = NoDoc
    MaxEdits = 3
INVARIANTS
    TypeOK
    FoundById
    HandedInOrShown
    ViewsAgree
    ShownOrZero
PROPERTIES
    EditsAreLocal
CHECK_DEADLOCK FALSE
