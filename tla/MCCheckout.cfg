SPECIFICATION Spec
CONSTANTS
    Checkouts = {c1, c2}
    Orders = {o1, o2}
    Kinds <- BothKinds
    Handlers = {h1}
    MaxId = 3
    MaxDeletes = 0
    Admins = {}
    Requested = {}
    None = None
SYMMETRY Symmetry
INVARIANTS
    PaidOnBothSides
    PaymentOfOrder
PROPERTIES
    OrdersSpec
CHECK_DEADLOCK FALSE
