\* Four records over two keys and no key; two slots, four places.
CONSTANTS
    Keys = {k1, k2}
    NoKey = NoKey
    InFlight = 2
    Backlog = 4
    MaxRecords = 4
SPECIFICATION Spec
SYMMETRY Symmetry
INVARIANTS
    LanesInv
    KeyOrder
    PermitsConserved
CHECK_DEADLOCK FALSE
