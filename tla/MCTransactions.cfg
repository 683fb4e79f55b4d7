SPECIFICATION TransactionsSpec
CONSTANTS
    i1 = i1
    e1 = e1
    e2 = e2
    t1 = t1
    t2 = t2
    Info = {i1}
    Product = {p1}
    InfoOf <- MCInfoOf
    Order = {o1, o2}
    Price <- MCPrice
    Txn = {t1, t2}
    Event = {e1, e2}
    None = None
    HoldTime <- MCHoldTime
    MaxTime = 2
    Session = {s1, s2}
    Incoming <- MCIncoming
SYMMETRY Symmetry
INVARIANTS TransactionsInv NoDeadlock
PROPERTIES Atomic
