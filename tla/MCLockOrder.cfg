SPECIFICATION TransactionsSpec
CONSTANTS
    i1 = i1
    e1 = e1
    e2 = e2
    t1 = t1
    t2 = t2
    Info = {i1}
    Product = {p1, p2}
    InfoOf <- MCInfoOf
    Order = {o1}
    Price <- MCOnePrice
    Txn = {t1, t2}
    Event = {e1, e2}
    None = None
    HoldTime <- MCHoldTime
    MaxTime = 1
    Session = {s1, s2, s3}
    Incoming <- MCOnePayment
SYMMETRY Symmetry
INVARIANTS NoDeadlock
PROPERTIES Atomic
