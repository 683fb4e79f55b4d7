SPECIFICATION CheckoutSpec
CONSTANTS
    i1 = i1
    p1 = p1
    p2 = p2
    Info = {i1}
    Product = {p1, p2}
    InfoOf <- MCInfoOf
    Order = {o1, o2}
    Price <- MCPrice
    Txn <- MCTxn
    Event <- MCEvent
    None = None
    HoldTime <- MCHoldTime
    MaxTime = 2
    TxnOf <- MCTxnOf
    NotifyId <- MCNotifyId
    QueryId <- MCQueryId
    MaxCrash = 1
    MaxLag = 1
SYMMETRY Symmetry
CHECK_DEADLOCK FALSE
INVARIANTS WechatPaidNeverExpired OpenEntryIsBacked NotifiedAtMostOnce CheckoutInv
PROPERTIES OnlyTransactions
