SPECIFICATION Spec
CONSTANTS
    Products = {p1, p2}
    Requests = {r1, r2}
    Ops <- AllOps
    Quantities = {0, 1, 2}
    MaxQuantity = 3
    MaxLines = 3
    MaxAdded = 2
    MaxOrders = 2
    None = None
SYMMETRY Symmetry
INVARIANTS
    TypeOK
    UnitsAddUp
    OrdersWereCarted
