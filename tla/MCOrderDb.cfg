SPECIFICATION Spec
CONSTANTS
    i1 = i1
    p1 = p1
    p2 = p2
    Info = {i1}
    Product = {p1, p2}
    InfoOf <- MCInfoOf
    Order = {o1, o2}
    Price <- MCPrice
    Txn = {t1, t2}
    Event = {e1, e2}
    None = None
    HoldTime <- MCHoldTime
    MaxTime = 2
SYMMETRY Symmetry
INVARIANTS InventoryOwnership PendingCanSettle LifecycleCoherence PaymentLedger EpayDeadline IInv
PROPERTIES NeverExpiredEarly SettledIsFinal Lifecycle
