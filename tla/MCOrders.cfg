SPECIFICATION Spec
CONSTANTS
    o1 = o1
    OrderIds <- OneOrder
    Admins = {a1, a2}
    Requested <- AskThree
    PaymentIds = {p1, p2}
    Message <- Messages
    None = None
SYMMETRY Symmetry
INVARIANTS
    TypeOK
    AckedIsRecorded
    ToldHad
    PaymentInfoStays
PROPERTIES
    NoResurrection
CHECK_DEADLOCK FALSE
