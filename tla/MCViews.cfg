SPECIFICATION ViewsSpec
CONSTANTS
    i1 = i1
    Info = {i1}
    Product = {p1, p2}
    InfoOf <- MCInfoOf
    Order = {o1, o2}
    Price <- MCPrice
    Txn = {t1}
    Event = {e1}
    None = None
    HoldTime <- MCHoldTime
    MaxTime = 1
    Client = {c1}
SYMMETRY Symmetry
INVARIANTS ViewsInv ContentShownOnce
PROPERTIES SoldNotOffered
