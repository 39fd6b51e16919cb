SPECIFICATION FairSpec
CONSTANTS
    Checkouts = {c1}
    Orders = {o1}
    Kinds <- SessionKind
    Handlers = {h1}
    MaxId = 3
    MaxDeletes = 1
    Admins = {a1}
    Requested = {"paid", "cancelled"}
    None = None
PROPERTIES
    Settles
CHECK_DEADLOCK FALSE
