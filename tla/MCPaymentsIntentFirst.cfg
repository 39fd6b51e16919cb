SPECIFICATION FairSpec
CONSTANTS
    Checkouts = {c1}
    Orders = {o1}
    Handlers = {h1, h2}
    Kinds <- BothKinds
    MaxId = 4
    MaxDeletes = 0
    None = None
PROPERTIES
    PaidReachesOrder
CHECK_DEADLOCK FALSE
