SPECIFICATION Spec
CONSTANTS
    p1 = p1
    u1 = u1
    w1 = w1
    w2 = w2
    s1 = s1
    Payments = {p1}
    Updates = {u1}
    ReceiptWorkers = {w1, w2}
    StatusWorkers = {s1}
    Message <- Messages
    Scenarios <- SlowScenario
    None = None
INVARIANTS
    EveryAckedWasMailed
CHECK_DEADLOCK FALSE
