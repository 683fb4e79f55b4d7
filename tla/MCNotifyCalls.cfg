SPECIFICATION FairNotifySpec
CONSTANTS
    i1 = i1
    p1 = p1
    o1 = o1
    t1 = t1
    e1 = e1
    Info = {i1}
    Product = {p1}
    InfoOf <- MCInfoOf
    Order = {o1}
    Price <- MCPrice
    Txn = {t1}
    Event = {e1}
    None = None
    HoldTime <- MCHoldTime
    MaxTime = 2
    MaxMoney = 9999
    Call = {k1, k2}
    TxnOf <- MCTxnOf
    EventOf <- MCEventOf
    Notation <- MCNotation
INVARIANTS
    NotifyInv
    BookedIsFullPayment
PROPERTIES
    FullPaymentIsAcked
CHECK_DEADLOCK FALSE
