SPECIFICATION Spec
CONSTANTS
    Stream = Stream
    App = {r1}
    None = None
INVARIANTS
    TypeOK
    RacesKnown
PROPERTIES
    LookupsReturn
CHECK_DEADLOCK FALSE
