SPECIFICATION Spec
CONSTANTS
    a = a
    b = b
    id = id
    Types <- ImageOnly
    Created <- Sample
    Scalars = {a, b}
    Zero = Zero
    Nil = Nil
    Null = Null
    NoDoc = NoDoc
    MaxEdits = 2
PROPERTY
    OnlyChangedFields
CHECK_DEADLOCK FALSE
