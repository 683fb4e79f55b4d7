SPECIFICATION FairCheckoutSpec
CONSTANTS
    i1 = i1
    p1 = p1
    p2 = p2
    Info = {i1}
    Product = {p1}
    InfoOf <- MCInfoOf
    Order = {o1, o2}
    Price <- MCPrice
    Txn <- MCTxn
    Event <- MCEvent
    None = None
    HoldTime <- MCHoldTime
    MaxTime = 2
    TxnOf <- MCTxnOf
    NotifyId <- MCNotifyId
    QueryId <- MCQueryId
    MaxCrash = 1
    MaxLag = 0
CHECK_DEADLOCK FALSE
PROPERTIES ReservationEnds WechatPaidIsDelivered EpayPaidIsBooked
