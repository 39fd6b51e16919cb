SPECIFICATION Spec
CONSTANTS
    Products = {p1}
    Requests = {r1, r2}
    Ops = {"add", "checkout"}
    Quantities = {1, 2}
    MaxQuantity = 3
    MaxLines = 4
    MaxAdded = 4
    MaxOrders = 2
    None = None
SYMMETRY Symmetry
PROPERTIES
    CheckoutLosesNothing
