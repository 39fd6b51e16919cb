SPECIFICATION Spec
CONSTANTS
    Checkouts = {c1, c2}
    Orders = {o1, o2}
    Handlers = {h1, h2}
    Kinds <- BothKinds
    MaxId = 3
    MaxDeletes = 1
    None = None
SYMMETRY Symmetry
CONSTRAINT OneCheckoutEach
INVARIANTS
    TypeOK
    AckedReachesOrder
    MessagesTruthful
    RowsDoNotMix
PROPERTIES
    SucceededStays
CHECK_DEADLOCK FALSE
