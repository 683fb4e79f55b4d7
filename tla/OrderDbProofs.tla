--------------------------- MODULE OrderDbProofs ---------------------------
(***************************************************************************)
(* Proofs about OrderDb, for any set of definitions, units, orders,        *)
(* prices, transaction numbers and event ids.  The first part says, field  *)
(* by field, what each transaction does to the rows it touches; the second *)
(* shows IInv inductive, one lemma per conjunct that a step can disturb;   *)
(* the third draws the theorems from it.                                   *)
(***************************************************************************)
EXTENDS OrderDb, TLAPS

LEMMA NoneFresh ==
    /\ None \notin Order /\ None \notin Product /\ None \notin Txn
    /\ None \notin Info /\ None \notin Provider /\ None \notin Nat
  BY NoneAssumption

LEMMA ConfirmationFields ==
    ASSUME NEW c \in Confirmation
    PROVE  /\ c.provider \in Provider /\ c.id \in Event /\ c.trade \in Order
           /\ c.txn \in Txn /\ c.txn # None
           /\ c.amount \in Nat /\ c.paidAt \in Nat /\ c.paidAt # None
<1>1. /\ c.provider \in Provider /\ c.id \in Event /\ c.trade \in Order
      /\ c.txn \in Txn /\ c.amount \in Price /\ c.paidAt \in 0 .. MaxTime
  BY DEF Confirmation
<1>2. c.amount \in Nat
  BY <1>1, PriceAssumption
<1>3. c.paidAt \in Nat
  BY <1>1, TimeAssumption
<1>4. c.txn # None /\ c.paidAt # None
  BY <1>1, <1>3, NoneFresh
<1> QED BY <1>1, <1>2, <1>3, <1>4

LEMMA Rows ==
    ASSUME TypeOK, NEW o \in Order
    PROVE  order[o] \in OrderRow /\ attempt[o] \in AttemptRow
  BY DEF TypeOK

-----------------------------------------------------------------------------
(* What the transactions do to the rows                                    *)

\* The administrator touches no order and no unit that an order holds.
LEMMA AdminEffect ==
    ASSUME TypeOK, AdminNext
    PROVE  /\ UNCHANGED <<now, order, attempt, event>>
           /\ info' \in [Info -> InfoRow]
           /\ product' \in [Product -> ProductStatus]
           /\ \A p \in Product :
                 \/ product'[p] = product[p]
                 \/ /\ product[p] \notin {"reserved", "delivered"}
                    /\ product'[p] \notin {"reserved", "delivered"}
<1> USE DEF TypeOK, InfoRow, ProductStatus
<1>1. ASSUME NEW i \in Info, NEW price \in Price, NEW active \in BOOLEAN,
             CreateProductInfo(i, price, active)
      PROVE  /\ info' \in [Info -> InfoRow]
             /\ UNCHANGED <<now, product, order, attempt, event>>
  BY <1>1, PriceAssumption DEF CreateProductInfo
<1>2. ASSUME NEW i \in Info, NEW price \in Price, UpdateProductInfo(i, price)
      PROVE  /\ info' \in [Info -> InfoRow]
             /\ UNCHANGED <<now, product, order, attempt, event>>
  BY <1>2, PriceAssumption DEF UpdateProductInfo
<1>3. ASSUME NEW i \in Info, NEW active \in BOOLEAN,
             UpdateProductInfoActive(i, active)
      PROVE  /\ info' \in [Info -> InfoRow]
             /\ UNCHANGED <<now, product, order, attempt, event>>
  BY <1>3 DEF UpdateProductInfoActive
<1>4. ASSUME NEW i \in Info, NEW batch \in SUBSET Product, CreateProduct(i, batch)
      PROVE  /\ product' \in [Product -> ProductStatus]
             /\ \A p \in Product : \/ product'[p] = product[p]
                                   \/ product[p] = "absent" /\ product'[p] = "available"
             /\ UNCHANGED <<now, info, order, attempt, event>>
  BY <1>4 DEF CreateProduct
<1>5. ASSUME NEW batch \in SUBSET Product, NEW target \in {"available", "disabled"},
             UpdateProductStatus(batch, target)
      PROVE  /\ product' \in [Product -> ProductStatus]
             /\ \A p \in Product :
                   \/ product'[p] = product[p]
                   \/ /\ product[p] \in {"available", "disabled"}
                      /\ product'[p] \in {"available", "disabled"}
             /\ UNCHANGED <<now, info, order, attempt, event>>
  BY <1>5 DEF UpdateProductStatus, SourceStatus
<1> QED BY <1>1, <1>2, <1>3, <1>4, <1>5 DEF AdminNext

\* A unit leaves the shelf with the new order, whose attempt is blank.
LEMMA CreateEffect ==
    ASSUME TypeOK, NEW o \in Order, NEW p \in Product, NEW provider \in Provider,
           NEW at \in 0 .. now, CreateOrder(o, p, provider, at)
    PROVE  /\ order[o].status = "absent"
           /\ product[p] = "available"
           /\ product' \in [Product -> ProductStatus]
           /\ product'[p] = "reserved"
           /\ \A r \in Product : r # p => product'[r] = product[r]
           /\ order' \in [Order -> OrderRow]
           /\ order'[o].status = "pending" /\ order'[o].product = p
           /\ order'[o].info = InfoOf[p]
           /\ \A q \in Order : q # o => order'[q] = order[q]
           /\ attempt' \in [Order -> AttemptRow]
           /\ attempt'[o].state = "created" /\ attempt'[o].provider = provider
           /\ attempt'[o].txn = None /\ attempt'[o].amount = order'[o].amount
           /\ \A q \in Order : q # o => attempt'[q] = attempt[q]
           /\ UNCHANGED <<now, info, event>>
<1> DEFINE i == InfoOf[p]
<1> DEFINE row == [status |-> "pending", product |-> p, info |-> i,
                   amount |-> info[i].price, expires |-> at + HoldTime[provider]]
<1> DEFINE pay == [state |-> "created", provider |-> provider,
                   amount |-> info[i].price, txn |-> None, paidAt |-> None]
<1>1. i \in Info /\ info[i].price \in Nat /\ at + HoldTime[provider] \in Nat
  BY InfoOfAssumption, TimeAssumption DEF TypeOK, InfoRow
<1>2. row \in OrderRow /\ pay \in AttemptRow
  BY <1>1 DEF OrderRow, AttemptRow
<1>3. /\ order' = [order EXCEPT ![o] = row]
      /\ attempt' = [attempt EXCEPT ![o] = pay]
      /\ product' = [product EXCEPT ![p] = "reserved"]
      /\ UNCHANGED <<now, info, event>>
      /\ order[o].status = "absent" /\ product[p] = "available"
  BY DEF CreateOrder
<1>4. order'[o] = row /\ attempt'[o] = pay
  BY <1>3 DEF TypeOK
<1>5. /\ order' \in [Order -> OrderRow]
      /\ \A q \in Order : q # o => order'[q] = order[q]
  BY <1>2, <1>3 DEF TypeOK
<1>6. /\ attempt' \in [Order -> AttemptRow]
      /\ \A q \in Order : q # o => attempt'[q] = attempt[q]
  BY <1>2, <1>3 DEF TypeOK
<1>7. /\ product' \in [Product -> ProductStatus]
      /\ product'[p] = "reserved"
      /\ \A r \in Product : r # p => product'[r] = product[r]
  BY <1>3 DEF TypeOK, ProductStatus
<1> QED BY <1>3, <1>4, <1>5, <1>6, <1>7

\* Moving an attempt to another state touches nothing else of it.
LEMMA AttemptStateEffect ==
    ASSUME TypeOK, NEW o \in Order, NEW s \in {"ready", "failed", "closed"},
           attempt' = [attempt EXCEPT ![o].state = s]
    PROVE  /\ attempt' \in [Order -> AttemptRow]
           /\ attempt'[o].state = s
           /\ attempt'[o].provider = attempt[o].provider
           /\ attempt'[o].amount = attempt[o].amount
           /\ attempt'[o].txn = attempt[o].txn
           /\ \A q \in Order : q # o => attempt'[q] = attempt[q]
<1>1. attempt \in [Order -> AttemptRow] /\ attempt[o] \in AttemptRow
  BY Rows DEF TypeOK
<1>2. attempt'[o] = [attempt[o] EXCEPT !.state = s]
  BY <1>1
<1>3. /\ attempt'[o] \in AttemptRow
      /\ attempt'[o].state = s
      /\ attempt'[o].provider = attempt[o].provider
      /\ attempt'[o].amount = attempt[o].amount
      /\ attempt'[o].txn = attempt[o].txn
  BY <1>1, <1>2 DEF AttemptRow
<1> QED BY <1>1, <1>3

\* Booking a payment.
LEMMA SucceedEffect ==
    ASSUME TypeOK, NEW c \in Confirmation, MarkSucceeded(c)
    PROVE  LET o == c.trade IN
           /\ attempt' \in [Order -> AttemptRow]
           /\ attempt'[o].state = "succeeded"
           /\ attempt'[o].provider = attempt[o].provider
           /\ attempt'[o].amount = attempt[o].amount
           /\ attempt'[o].txn = c.txn
           /\ attempt'[o].paidAt = c.paidAt
           /\ \A q \in Order : q # o => attempt'[q] = attempt[q]
<1> DEFINE o == c.trade
<1>1. /\ o \in Order /\ c.txn \in Txn /\ c.paidAt \in Nat
      /\ attempt \in [Order -> AttemptRow] /\ attempt[o] \in AttemptRow
  BY ConfirmationFields, Rows DEF TypeOK
<1>2. attempt' = [attempt EXCEPT ![o].state = "succeeded", ![o].txn = c.txn,
                                 ![o].paidAt = c.paidAt]
  BY DEF MarkSucceeded
<1>3. attempt'[o] = [attempt[o] EXCEPT !.state = "succeeded", !.txn = c.txn,
                                       !.paidAt = c.paidAt]
  BY <1>1, <1>2
<1>4. /\ attempt'[o] \in AttemptRow
      /\ attempt'[o].state = "succeeded"
      /\ attempt'[o].provider = attempt[o].provider
      /\ attempt'[o].amount = attempt[o].amount
      /\ attempt'[o].txn = c.txn
      /\ attempt'[o].paidAt = c.paidAt
  BY <1>1, <1>3 DEF AttemptRow
<1> QED BY <1>1, <1>2, <1>4

\* The unit goes back on the shelf and the order lets go of it.
LEMMA ReleaseEffect ==
    ASSUME TypeOK, NEW o \in Order, ReleaseInventory(o)
    PROVE  /\ order[o].product \in Product
           /\ product[order[o].product] = "reserved"
           /\ order' \in [Order -> OrderRow]
           /\ order'[o].status = "expired"
           /\ order'[o].product = None
           /\ order'[o].info = order[o].info
           /\ order'[o].amount = order[o].amount
           /\ order'[o].expires = order[o].expires
           /\ \A q \in Order : q # o => order'[q] = order[q]
           /\ product' \in [Product -> ProductStatus]
           /\ product'[order[o].product] = "available"
           /\ \A p \in Product : p # order[o].product => product'[p] = product[p]
<1>1. /\ order[o] \in OrderRow
      /\ product \in [Product -> ProductStatus] /\ order \in [Order -> OrderRow]
  BY DEF TypeOK
<1>2. order[o].product \in Product /\ product[order[o].product] = "reserved"
  BY <1>1 DEF ReleaseInventory, HoldsReserved, OrderRow
<1>3. order' = [order EXCEPT ![o].status = "expired", ![o].product = None]
  BY DEF ReleaseInventory
<1>4. order'[o] = [order[o] EXCEPT !.status = "expired", !.product = None]
  BY <1>1, <1>3
<1>5. /\ order'[o] \in OrderRow
      /\ order'[o].status = "expired"
      /\ order'[o].product = None
      /\ order'[o].info = order[o].info
      /\ order'[o].amount = order[o].amount
      /\ order'[o].expires = order[o].expires
  BY <1>1, <1>4 DEF OrderRow
<1>6. /\ order' \in [Order -> OrderRow]
      /\ \A q \in Order : q # o => order'[q] = order[q]
  BY <1>1, <1>3, <1>5
<1>7. product' = [product EXCEPT ![order[o].product] = "available"]
  BY DEF ReleaseInventory
<1>8. /\ product' \in [Product -> ProductStatus]
      /\ product'[order[o].product] = "available"
      /\ \A p \in Product : p # order[o].product => product'[p] = product[p]
  BY <1>1, <1>2, <1>7 DEF ProductStatus
<1> QED BY <1>2, <1>5, <1>6, <1>8

\* The unit is handed over and stays with the order.
LEMMA DeliverEffect ==
    ASSUME TypeOK, NEW o \in Order, DeliverInventory(o)
    PROVE  /\ order[o].product \in Product
           /\ product[order[o].product] = "reserved"
           /\ order' \in [Order -> OrderRow]
           /\ order'[o].status = "delivered"
           /\ order'[o].product = order[o].product
           /\ order'[o].info = order[o].info
           /\ order'[o].amount = order[o].amount
           /\ order'[o].expires = order[o].expires
           /\ \A q \in Order : q # o => order'[q] = order[q]
           /\ product' \in [Product -> ProductStatus]
           /\ product'[order[o].product] = "delivered"
           /\ \A p \in Product : p # order[o].product => product'[p] = product[p]
<1>1. /\ order[o] \in OrderRow
      /\ product \in [Product -> ProductStatus] /\ order \in [Order -> OrderRow]
  BY DEF TypeOK
<1>2. order[o].product \in Product /\ product[order[o].product] = "reserved"
  BY <1>1 DEF DeliverInventory, HoldsReserved, OrderRow
<1>3. order' = [order EXCEPT ![o].status = "delivered"]
  BY DEF DeliverInventory
<1>4. order'[o] = [order[o] EXCEPT !.status = "delivered"]
  BY <1>1, <1>3
<1>5. /\ order'[o] \in OrderRow
      /\ order'[o].status = "delivered"
      /\ order'[o].product = order[o].product
      /\ order'[o].info = order[o].info
      /\ order'[o].amount = order[o].amount
      /\ order'[o].expires = order[o].expires
  BY <1>1, <1>4 DEF OrderRow
<1>6. /\ order' \in [Order -> OrderRow]
      /\ \A q \in Order : q # o => order'[q] = order[q]
  BY <1>1, <1>3, <1>5
<1>7. product' = [product EXCEPT ![order[o].product] = "delivered"]
  BY DEF DeliverInventory
<1>8. /\ product' \in [Product -> ProductStatus]
      /\ product'[order[o].product] = "delivered"
      /\ \A p \in Product : p # order[o].product => product'[p] = product[p]
  BY <1>1, <1>2, <1>7 DEF ProductStatus
<1> QED BY <1>2, <1>5, <1>6, <1>8

\* The three ways a confirmation changes rows, with the facts its guards give.
LEMMA RepeatEffect ==
    ASSUME TypeOK, NEW c \in Confirmation, RepeatPayment(c)
    PROVE  /\ attempt[c.trade].state = "succeeded"
           /\ attempt[c.trade].provider = c.provider
           /\ UNCHANGED <<now, info, product, order, attempt>>
           /\ EventRows(c) = {} /\ InsertEvent(c)
  BY DEF RepeatPayment, Acceptable, AttemptFound

LEMMA RecordEffect ==
    ASSUME TypeOK, NEW c \in Confirmation, RecordAfterExpiry(c)
    PROVE  /\ attempt[c.trade].state # "succeeded"
           /\ attempt[c.trade].provider = c.provider
           /\ order[c.trade].status = "expired" \/ Late(c)
           /\ \/ order[c.trade].status = "pending" /\ ReleaseInventory(c.trade)
              \/ order[c.trade].status # "pending" /\ UNCHANGED <<product, order>>
           /\ MarkSucceeded(c)
           /\ EventRows(c) = {} /\ InsertEvent(c)
           /\ UNCHANGED <<now, info>>
  BY DEF RecordAfterExpiry, Acceptable, AttemptFound

LEMMA ApplyEffect ==
    ASSUME TypeOK, NEW c \in Confirmation, ApplyPayment(c)
    PROVE  /\ attempt[c.trade].state # "succeeded"
           /\ attempt[c.trade].provider = c.provider
           /\ order[c.trade].status = "pending"
           /\ ~Late(c)
           /\ DeliverInventory(c.trade)
           /\ MarkSucceeded(c)
           /\ EventRows(c) = {} /\ InsertEvent(c)
           /\ UNCHANGED <<now, info>>
  BY DEF ApplyPayment, Acceptable, AttemptFound

\* Money that is booked without delivery belongs to a pending or expired order.
LEMMA PayableOrder ==
    ASSUME TypeOK, UnknownIsAbsent, LifecycleCoherence,
           NEW c \in Confirmation, RecordAfterExpiry(c)
    PROVE  order[c.trade].status \in {"pending", "expired"}
<1> DEFINE o == c.trade
<1>1. o \in Order /\ c.provider # None
  BY ConfirmationFields, NoneFresh
<1>2. attempt[o].state # "succeeded" /\ attempt[o].provider = c.provider
  BY RecordEffect
<1>3. attempt[o].state # "absent"
  BY <1>1, <1>2 DEF UnknownIsAbsent
<1>4. order[o].status \in {"absent", "pending", "delivered", "expired"}
  BY <1>1, Rows DEF OrderRow
<1> QED BY <1>1, <1>2, <1>3, <1>4 DEF LifecycleCoherence

-----------------------------------------------------------------------------
(* The inductive step, conjunct by conjunct                                *)

LEMMA TypeStep ==
    ASSUME TypeOK, [Next]_dbvars
    PROVE  TypeOK'
<1> USE DEF TypeOK, CheckConstraints
<1>1. CASE UNCHANGED dbvars
  BY <1>1 DEF dbvars
<1>2. CASE Tick
  BY <1>2, TimeAssumption DEF Tick
<1>3. CASE AdminNext
  BY <1>3, AdminEffect
<1>4. ASSUME NEW o \in Order, NEW p \in Product, NEW provider \in Provider,
             NEW at \in 0 .. now, CreateOrder(o, p, provider, at)
      PROVE  TypeOK'
  <2>1. /\ order' \in [Order -> OrderRow] /\ attempt' \in [Order -> AttemptRow]
        /\ product' \in [Product -> ProductStatus]
        /\ UNCHANGED <<now, info, event>>
    BY <1>4, CreateEffect
  <2>2. \A q \in Order :
          /\ order'[q].status \in {"pending", "delivered"} =>
                order'[q].product # None
          /\ order'[q].status = "expired" => order'[q].product = None
    BY <1>4, CreateEffect, NoneFresh
  <2>3. \A q \in Order : attempt'[q].state = "succeeded" =>
          attempt'[q].txn # None /\ attempt'[q].paidAt # None
    BY <1>4, CreateEffect
  <2> QED BY <2>1, <2>2, <2>3
<1>5. ASSUME NEW o \in Order, NEW at \in 0 .. now,
             PublishReady(o, at)
      PROVE  TypeOK'
  BY <1>5, AttemptStateEffect DEF PublishReady
<1>6. ASSUME NEW o \in Order, MarkFailed(o)
      PROVE  TypeOK'
  BY <1>6, AttemptStateEffect DEF MarkFailed
<1>7. ASSUME NEW o \in Order, ExpireReserved(o)
      PROVE  TypeOK'
  <2>1. ReleaseInventory(o) /\ UNCHANGED <<now, info, event>>
        /\ attempt' = [attempt EXCEPT ![o].state = "closed"]
    BY <1>7 DEF ExpireReserved
  <2>2. /\ attempt' \in [Order -> AttemptRow]
        /\ \A q \in Order : attempt'[q].state = "succeeded" =>
              attempt'[q] = attempt[q]
    BY <2>1, AttemptStateEffect
  <2>3. /\ order' \in [Order -> OrderRow]
        /\ product' \in [Product -> ProductStatus]
        /\ \A q \in Order :
              /\ order'[q].status \in {"pending", "delivered"} =>
                    order'[q].product # None
              /\ order'[q].status = "expired" => order'[q].product = None
    BY <2>1, ReleaseEffect
  <2> QED BY <2>1, <2>2, <2>3
<1>8. ASSUME NEW c \in Confirmation, ConfirmPayment(c)
      PROVE  TypeOK'
  <2> DEFINE o == c.trade
  <2>1. o \in Order /\ c.txn # None /\ c.paidAt # None
    BY ConfirmationFields
  <2>2. InsertEvent(c) => event' \in SUBSET EventRow
    BY ConfirmationFields DEF InsertEvent, EventRow
  <2>3. CASE RepeatPayment(c)
    BY <2>2, <2>3, RepeatEffect
  <2>4. CASE RecordAfterExpiry(c)
    <3>1. /\ order' \in [Order -> OrderRow]
          /\ product' \in [Product -> ProductStatus]
          /\ \A q \in Order :
                /\ order'[q].status \in {"pending", "delivered"} =>
                      order'[q].product # None
                /\ order'[q].status = "expired" => order'[q].product = None
      BY <2>1, <2>4, RecordEffect, ReleaseEffect
    <3>2. /\ attempt' \in [Order -> AttemptRow]
          /\ \A q \in Order : attempt'[q].state = "succeeded" =>
                attempt'[q].txn # None /\ attempt'[q].paidAt # None
      BY <2>1, <2>4, RecordEffect, SucceedEffect
    <3> QED BY <2>2, <2>4, <3>1, <3>2, RecordEffect
  <2>5. CASE ApplyPayment(c)
    <3>1. /\ order' \in [Order -> OrderRow]
          /\ product' \in [Product -> ProductStatus]
          /\ \A q \in Order :
                /\ order'[q].status \in {"pending", "delivered"} =>
                      order'[q].product # None
                /\ order'[q].status = "expired" => order'[q].product = None
      BY <2>1, <2>5, ApplyEffect, DeliverEffect, NoneFresh
    <3>2. /\ attempt' \in [Order -> AttemptRow]
          /\ \A q \in Order : attempt'[q].state = "succeeded" =>
                attempt'[q].txn # None /\ attempt'[q].paidAt # None
      BY <2>1, <2>5, ApplyEffect, SucceedEffect
    <3> QED BY <2>2, <2>5, <3>1, <3>2, ApplyEffect
  <2> QED BY <1>8, <2>3, <2>4, <2>5 DEF ConfirmPayment
<1> QED
  BY <1>1, <1>2, <1>3, <1>4, <1>5, <1>6, <1>7, <1>8
  DEF Next, OrderNext, PaymentNext

\* Giving a unit back, or handing it over, keeps the holders apart.
LEMMA ReleaseKeepsHolding ==
    ASSUME TypeOK, Holding, HeldOnce, NoOrphan,
           NEW o \in Order, ReleaseInventory(o)
    PROVE  Holding' /\ HeldOnce' /\ NoOrphan'
<1>1. Holding'
  BY ReleaseEffect, NoneFresh, Rows DEF Holding, HeldOnce, OrderRow
<1>2. HeldOnce'
  BY ReleaseEffect DEF HeldOnce
<1>3. NoOrphan'
  <2> SUFFICES ASSUME NEW p \in Product, product'[p] \in {"reserved", "delivered"}
               PROVE  \E q \in Order : order'[q].product = p
    BY DEF NoOrphan
  <2>1. p # order[o].product /\ product'[p] = product[p]
    BY ReleaseEffect
  <2>2. PICK q \in Order : order[q].product = p
    BY <2>1 DEF NoOrphan
  <2> QED BY <2>1, <2>2, ReleaseEffect
<1> QED BY <1>1, <1>2, <1>3

LEMMA DeliverKeepsHolding ==
    ASSUME TypeOK, Holding, HeldOnce, NoOrphan,
           NEW o \in Order, DeliverInventory(o)
    PROVE  Holding' /\ HeldOnce' /\ NoOrphan'
<1>1. Holding'
  BY DeliverEffect, NoneFresh, Rows DEF Holding, HeldOnce, OrderRow
<1>2. HeldOnce'
  BY DeliverEffect DEF HeldOnce
<1>3. NoOrphan'
  BY DeliverEffect DEF NoOrphan
<1> QED BY <1>1, <1>2, <1>3

LEMMA HoldingStep ==
    ASSUME TypeOK, Holding, HeldOnce, NoOrphan, [Next]_dbvars
    PROVE  Holding' /\ HeldOnce' /\ NoOrphan'
<1>1. ASSUME UNCHANGED <<order, product>>
      PROVE  Holding' /\ HeldOnce' /\ NoOrphan'
  BY <1>1 DEF Holding, HeldOnce, NoOrphan
<1>2. CASE UNCHANGED dbvars \/ Tick
  BY <1>1, <1>2 DEF dbvars, Tick
<1>3. CASE AdminNext
  <2>1. \A o \in Order : order'[o] = order[o]
    BY <1>3, AdminEffect
  <2>2. \A p \in Product :
          \/ product'[p] = product[p]
          \/ /\ product[p] \notin {"reserved", "delivered"}
             /\ product'[p] \notin {"reserved", "delivered"}
    BY <1>3, AdminEffect
  <2>3. Holding'
    BY <2>1, <2>2, Rows DEF Holding, OrderRow
  <2>4. HeldOnce' /\ NoOrphan'
    BY <2>1, <2>2 DEF HeldOnce, NoOrphan
  <2> QED BY <2>3, <2>4
<1>4. ASSUME NEW o \in Order, NEW p \in Product, NEW provider \in Provider,
             NEW at \in 0 .. now, CreateOrder(o, p, provider, at)
      PROVE  Holding' /\ HeldOnce' /\ NoOrphan'
  <2>1. \A q \in Order : order[q].product # p
    BY <1>4, CreateEffect, NoneFresh DEF Holding
  <2>2. Holding'
    BY <1>4, <2>1, CreateEffect, Rows DEF Holding, OrderRow
  <2>3. HeldOnce'
    BY <1>4, <2>1, CreateEffect DEF HeldOnce
  <2>4. NoOrphan'
    <3> SUFFICES ASSUME NEW r \in Product, product'[r] \in {"reserved", "delivered"}
                 PROVE  \E q \in Order : order'[q].product = r
      BY DEF NoOrphan
    <3>1. CASE r = p
      BY <1>4, <3>1, CreateEffect
    <3>2. CASE r # p
      <4>1. PICK q \in Order : order[q].product = r
        BY <1>4, <3>2, CreateEffect DEF NoOrphan
      <4>2. q # o
        BY <1>4, <4>1, CreateEffect, NoneFresh DEF Holding
      <4> QED BY <1>4, <4>1, <4>2, CreateEffect
    <3> QED BY <3>1, <3>2
  <2> QED BY <2>2, <2>3, <2>4
<1>5. ASSUME NEW o \in Order,
             (\E at \in 0 .. now : PublishReady(o, at)) \/ MarkFailed(o)
      PROVE  Holding' /\ HeldOnce' /\ NoOrphan'
  BY <1>1, <1>5 DEF PublishReady, MarkFailed
<1>6. ASSUME NEW o \in Order, ExpireReserved(o)
      PROVE  Holding' /\ HeldOnce' /\ NoOrphan'
  BY <1>6, ReleaseKeepsHolding DEF ExpireReserved
<1>7. ASSUME NEW c \in Confirmation, ConfirmPayment(c)
      PROVE  Holding' /\ HeldOnce' /\ NoOrphan'
  <2>1. CASE RepeatPayment(c)
    BY <1>1, <2>1, RepeatEffect
  <2>2. CASE RecordAfterExpiry(c)
    BY <1>1, <2>2, RecordEffect, ReleaseKeepsHolding, ConfirmationFields
  <2>3. CASE ApplyPayment(c)
    BY <2>3, ApplyEffect, DeliverKeepsHolding, ConfirmationFields
  <2> QED BY <1>7, <2>1, <2>2, <2>3 DEF ConfirmPayment
<1> QED
  BY <1>2, <1>3, <1>4, <1>5, <1>6, <1>7 DEF Next, OrderNext, PaymentNext

LEMMA CoherenceStep ==
    ASSUME TypeOK, ProviderKnown, UnknownIsAbsent, LifecycleCoherence,
           [Next]_dbvars
    PROVE  ProviderKnown' /\ UnknownIsAbsent' /\ LifecycleCoherence'
<1> DEFINE Goal == ProviderKnown' /\ UnknownIsAbsent' /\ LifecycleCoherence'
<1> USE DEF ProviderKnown, UnknownIsAbsent, LifecycleCoherence
<1>1. CASE UNCHANGED <<order, attempt>>
  BY <1>1
<1>2. CASE UNCHANGED dbvars \/ Tick \/ AdminNext
  BY <1>1, <1>2, AdminEffect DEF dbvars, Tick
<1>3. ASSUME NEW o \in Order, NEW p \in Product, NEW provider \in Provider,
             NEW at \in 0 .. now, CreateOrder(o, p, provider, at)
      PROVE  Goal
  BY <1>3, CreateEffect
<1>4. ASSUME NEW o \in Order, NEW at \in 0 .. now,
             PublishReady(o, at)
      PROVE  Goal
  BY <1>4, AttemptStateEffect DEF PublishReady, CanPublish
<1>5. ASSUME NEW o \in Order, MarkFailed(o)
      PROVE  Goal
  BY <1>5, AttemptStateEffect DEF MarkFailed
<1>6. ASSUME NEW o \in Order, ExpireReserved(o)
      PROVE  Goal
  <2>1. /\ order[o].status = "pending" /\ ReleaseInventory(o)
        /\ attempt' = [attempt EXCEPT ![o].state = "closed"]
    BY <1>6 DEF ExpireReserved, Expirable
  <2>2. /\ attempt'[o].state = "closed"
        /\ attempt'[o].provider = attempt[o].provider
        /\ attempt'[o].amount = attempt[o].amount
        /\ \A q \in Order : q # o => attempt'[q] = attempt[q]
    BY <2>1, AttemptStateEffect
  <2>3. /\ order'[o].status = "expired"
        /\ order'[o].amount = order[o].amount
        /\ \A q \in Order : q # o => order'[q] = order[q]
    BY <2>1, ReleaseEffect
  <2> QED BY <2>1, <2>2, <2>3
<1>7. ASSUME NEW c \in Confirmation, ConfirmPayment(c)
      PROVE  Goal
  <2> DEFINE o == c.trade
  <2>1. o \in Order /\ c.provider \in Provider /\ c.provider # None
    BY ConfirmationFields, NoneFresh
  <2>2. CASE RepeatPayment(c)
    BY <1>1, <2>2, RepeatEffect
  <2>3. CASE RecordAfterExpiry(c)
    <3>1. attempt[o].state # "absent" /\ attempt[o].state # "succeeded"
      BY <2>1, <2>3, RecordEffect
    <3>2. order[o].status \in {"pending", "expired"}
      BY <2>3, PayableOrder
    <3>3. /\ order'[o].status = "expired"
          /\ order'[o].amount = order[o].amount
          /\ \A q \in Order : q # o => order'[q] = order[q]
      BY <2>1, <2>3, <3>2, RecordEffect, ReleaseEffect
    <3>4. /\ attempt'[o].state = "succeeded"
          /\ attempt'[o].provider = attempt[o].provider
          /\ attempt'[o].amount = attempt[o].amount
          /\ \A q \in Order : q # o => attempt'[q] = attempt[q]
      BY <2>3, RecordEffect, SucceedEffect
    <3> QED BY <2>1, <3>1, <3>2, <3>3, <3>4
  <2>4. CASE ApplyPayment(c)
    <3>1. attempt[o].state # "absent"
      BY <2>1, <2>4, ApplyEffect
    <3>2. /\ order'[o].status = "delivered"
          /\ order'[o].amount = order[o].amount
          /\ \A q \in Order : q # o => order'[q] = order[q]
      BY <2>1, <2>4, ApplyEffect, DeliverEffect
    <3>3. /\ attempt'[o].state = "succeeded"
          /\ attempt'[o].provider = attempt[o].provider
          /\ attempt'[o].amount = attempt[o].amount
          /\ \A q \in Order : q # o => attempt'[q] = attempt[q]
      BY <2>4, ApplyEffect, SucceedEffect
    <3> QED BY <2>1, <3>1, <3>2, <3>3
  <2> QED BY <1>7, <2>2, <2>3, <2>4 DEF ConfirmPayment
<1> QED
  BY <1>2, <1>3, <1>4, <1>5, <1>6, <1>7 DEF Next, OrderNext, PaymentNext

\* Booking a payment together with its event keeps the ledger.
LEMMA BookingKeepsLedger ==
    ASSUME TypeOK, PaymentLedger, NEW c \in Confirmation,
           attempt[c.trade].state # "succeeded",
           attempt[c.trade].provider = c.provider,
           MarkSucceeded(c), EventRows(c) = {}, InsertEvent(c)
    PROVE  PaymentLedger'
<1> DEFINE o == c.trade
           new == [provider |-> c.provider, id |-> c.id, order |-> o]
<1>1. /\ o \in Order /\ c.txn # None
      /\ attempt'[o].state = "succeeded"
      /\ attempt'[o].provider = attempt[o].provider
      /\ attempt'[o].txn = c.txn
      /\ \A q \in Order : q # o => attempt'[q] = attempt[q]
  BY SucceedEffect, ConfirmationFields
<1>2. event' = event \cup {new}
  BY DEF InsertEvent
<1>3. \A q \in Order : q # o /\ attempt[q].provider = c.provider =>
         attempt[q].txn # c.txn
  BY DEF MarkSucceeded, TxnFree
<1>4. \A e \in event : e.order \in Order /\ e.order # o
  BY DEF PaymentLedger, TypeOK, EventRow
<1>5. \A e \in event : ~(e.provider = c.provider /\ e.id = c.id)
  BY DEF EventRows
<1>6. \A q \in Order :
         /\ attempt'[q].state = "succeeded" <=> attempt'[q].txn # None
         /\ attempt'[q].state = "succeeded" => \E e \in event' : e.order = q
  <2> SUFFICES ASSUME NEW q \in Order
               PROVE  /\ attempt'[q].state = "succeeded" <=> attempt'[q].txn # None
                      /\ attempt'[q].state = "succeeded" =>
                            \E e \in event' : e.order = q
    OBVIOUS
  <2>1. CASE q = o
    <3>1. new \in event' /\ new.order = o
      BY <1>2
    <3> QED BY <1>1, <2>1, <3>1
  <2>2. CASE q # o
    BY <1>1, <1>2, <2>2 DEF PaymentLedger
  <2> QED BY <2>1, <2>2
<1>7. \A q, r \in Order :
         /\ attempt'[q].provider = attempt'[r].provider
         /\ attempt'[q].txn = attempt'[r].txn
         /\ attempt'[q].txn # None
         => q = r
  BY <1>1, <1>3 DEF PaymentLedger
<1>8. \A e \in event' : /\ attempt'[e.order].state = "succeeded"
                        /\ attempt'[e.order].provider = e.provider
  BY <1>1, <1>2, <1>4 DEF PaymentLedger
<1>9. \A e, f \in event' : e.provider = f.provider /\ e.id = f.id => e = f
  BY <1>2, <1>5 DEF PaymentLedger
<1> QED BY <1>6, <1>7, <1>8, <1>9 DEF PaymentLedger

LEMMA LedgerStep ==
    ASSUME TypeOK, UnknownIsAbsent, LifecycleCoherence, PaymentLedger,
           [Next]_dbvars
    PROVE  PaymentLedger'
<1>1. CASE UNCHANGED <<attempt, event>>
  BY <1>1 DEF PaymentLedger
<1>2. CASE UNCHANGED dbvars \/ Tick \/ AdminNext
  BY <1>1, <1>2, AdminEffect DEF dbvars, Tick
<1>3. \A e \in event : e.order \in Order
  BY DEF TypeOK, EventRow
<1>4. ASSUME NEW o \in Order, NEW p \in Product, NEW provider \in Provider,
             NEW at \in 0 .. now, CreateOrder(o, p, provider, at)
      PROVE  PaymentLedger'
  <2>1. attempt[o].state # "succeeded" /\ \A e \in event : e.order # o
    BY <1>4, CreateEffect DEF LifecycleCoherence, PaymentLedger
  <2>2. /\ event' = event
        /\ attempt'[o].state # "succeeded" /\ attempt'[o].txn = None
        /\ \A q \in Order : q # o => attempt'[q] = attempt[q]
    BY <1>4, CreateEffect
  <2> QED BY <1>3, <2>1, <2>2 DEF PaymentLedger
<1>5. ASSUME NEW o \in Order, NEW s \in {"ready", "failed", "closed"},
             attempt[o].state # "succeeded", event' = event,
             attempt' = [attempt EXCEPT ![o].state = s]
      PROVE  PaymentLedger'
  <2>1. \A e \in event : e.order # o
    BY <1>5 DEF PaymentLedger
  <2>2. /\ attempt'[o].state # "succeeded"
        /\ attempt'[o].provider = attempt[o].provider
        /\ attempt'[o].txn = attempt[o].txn
        /\ \A q \in Order : q # o => attempt'[q] = attempt[q]
    BY <1>5, AttemptStateEffect
  <2> QED BY <1>3, <1>5, <2>1, <2>2 DEF PaymentLedger
<1>6. ASSUME NEW o \in Order,
             (\E at \in 0 .. now : PublishReady(o, at)) \/ MarkFailed(o) \/ ExpireReserved(o)
      PROVE  PaymentLedger'
  BY <1>5, <1>6
  DEF PublishReady, CanPublish, MarkFailed, ExpireReserved, Expirable
<1>7. ASSUME NEW c \in Confirmation, ConfirmPayment(c)
      PROVE  PaymentLedger'
  <2>1. CASE RepeatPayment(c)
    <3> DEFINE new == [provider |-> c.provider, id |-> c.id, order |-> c.trade]
    <3>1. /\ attempt' = attempt /\ event' = event \cup {new}
          /\ c.trade \in Order
          /\ attempt[c.trade].state = "succeeded"
          /\ attempt[c.trade].provider = c.provider
      BY <2>1, RepeatEffect, ConfirmationFields DEF InsertEvent
    <3>2. \A e \in event : ~(e.provider = c.provider /\ e.id = c.id)
      BY <2>1, RepeatEffect DEF EventRows
    <3> QED BY <3>1, <3>2 DEF PaymentLedger
  <2>2. CASE RecordAfterExpiry(c)
    BY <2>2, RecordEffect, BookingKeepsLedger
  <2>3. CASE ApplyPayment(c)
    BY <2>3, ApplyEffect, BookingKeepsLedger
  <2> QED BY <1>7, <2>1, <2>2, <2>3 DEF ConfirmPayment
<1> QED
  BY <1>2, <1>4, <1>6, <1>7 DEF Next, OrderNext, PaymentNext

LEMMA DeadlineStep ==
    ASSUME TypeOK, UnknownIsAbsent, LifecycleCoherence, ExpiredPast,
           EpayDeadline, [Next]_dbvars
    PROVE  ExpiredPast' /\ EpayDeadline'
<1> DEFINE Goal == ExpiredPast' /\ EpayDeadline'
<1> USE DEF ExpiredPast, EpayDeadline
<1>0. /\ now \in Nat
      /\ \A q \in Order : order[q].expires \in Nat
  BY Rows DEF TypeOK, OrderRow
<1>1. CASE UNCHANGED <<now, order, attempt>>
  BY <1>1
<1>2. CASE UNCHANGED dbvars \/ AdminNext
  BY <1>1, <1>2, AdminEffect DEF dbvars
<1>3. CASE Tick
  BY <1>0, <1>3 DEF Tick
<1>4. ASSUME NEW o \in Order, NEW p \in Product, NEW provider \in Provider,
             NEW at \in 0 .. now, CreateOrder(o, p, provider, at)
      PROVE  Goal
  BY <1>4, CreateEffect
<1>5. ASSUME NEW o \in Order, NEW s \in {"ready", "failed"},
             UNCHANGED <<now, order>>,
             attempt' = [attempt EXCEPT ![o].state = s]
      PROVE  Goal
  BY <1>5, AttemptStateEffect
<1>6. ASSUME NEW o \in Order,
             (\E at \in 0 .. now : PublishReady(o, at)) \/ MarkFailed(o)
      PROVE  Goal
  BY <1>5, <1>6 DEF PublishReady, MarkFailed
<1>7. ASSUME NEW o \in Order, ExpireReserved(o)
      PROVE  Goal
  <2>1. /\ order[o].expires <= now /\ now' = now /\ ReleaseInventory(o)
        /\ attempt' = [attempt EXCEPT ![o].state = "closed"]
    BY <1>7 DEF ExpireReserved, Expirable
  <2>2. /\ attempt'[o].state = "closed"
        /\ \A q \in Order : q # o => attempt'[q] = attempt[q]
    BY <2>1, AttemptStateEffect
  <2>3. /\ order'[o].status = "expired"
        /\ order'[o].expires = order[o].expires
        /\ \A q \in Order : q # o => order'[q] = order[q]
    BY <2>1, ReleaseEffect
  <2> QED BY <2>1, <2>2, <2>3
<1>8. ASSUME NEW c \in Confirmation, Genuine(c), ConfirmPayment(c)
      PROVE  Goal
  <2> DEFINE o == c.trade
  <2>1. o \in Order /\ c.paidAt \in Nat
    BY ConfirmationFields
  <2>2. CASE RepeatPayment(c)
    BY <1>1, <2>2, RepeatEffect
  <2>3. CASE RecordAfterExpiry(c)
    <3>1. /\ attempt'[o].state = "succeeded"
          /\ attempt'[o].provider = c.provider
          /\ attempt'[o].paidAt = c.paidAt
          /\ \A q \in Order : q # o => attempt'[q] = attempt[q]
      BY <2>3, RecordEffect, SucceedEffect
    <3>2. order[o].status \in {"pending", "expired"}
      BY <2>1, <2>3, PayableOrder
    <3>3. /\ order'[o].status = "expired"
          /\ order'[o].expires = order[o].expires
          /\ \A q \in Order : q # o => order'[q] = order[q]
      BY <2>1, <2>3, <3>2, RecordEffect, ReleaseEffect
    <3>4. now' = now
      BY <2>3, RecordEffect
    <3>5. order[o].expires <= now
      <4>1. CASE order[o].status = "expired"
        BY <2>1, <4>1
      <4>2. CASE c.paidAt > order[o].expires
        <5>1. c.paidAt <= now
          BY <1>8 DEF Genuine
        <5> QED BY <1>0, <2>1, <4>2, <5>1
      <4> QED BY <2>3, <4>1, <4>2, RecordEffect DEF Late
    <3> QED BY <1>0, <2>1, <3>1, <3>3, <3>4, <3>5
  <2>4. CASE ApplyPayment(c)
    <3>1. /\ attempt'[o].state = "succeeded"
          /\ attempt'[o].provider = c.provider
          /\ attempt'[o].paidAt = c.paidAt
          /\ \A q \in Order : q # o => attempt'[q] = attempt[q]
      BY <2>4, ApplyEffect, SucceedEffect
    <3>2. /\ order'[o].status = "delivered" /\ now' = now
          /\ order'[o].expires = order[o].expires
          /\ \A q \in Order : q # o => order'[q] = order[q]
      BY <2>1, <2>4, ApplyEffect, DeliverEffect
    <3>3. c.provider = "epay" => c.paidAt <= order[o].expires
      BY <1>0, <2>1, <2>4, ApplyEffect DEF Late
    <3> QED BY <2>1, <3>1, <3>2, <3>3
  <2> QED BY <1>8, <2>2, <2>3, <2>4 DEF ConfirmPayment
<1> QED
  BY <1>2, <1>3, <1>4, <1>6, <1>7, <1>8 DEF Next, OrderNext, PaymentNext

LEMMA InitInvariant == Init => IInv
<1> SUFFICES ASSUME Init PROVE IInv
  OBVIOUS
<1>1. /\ now = 0 /\ event = {}
      /\ info = [i \in Info |-> [state |-> "absent", price |-> 0]]
      /\ product = [p \in Product |-> "absent"]
      /\ order = [o \in Order |-> AbsentOrder]
      /\ attempt = [o \in Order |-> AbsentAttempt]
  BY DEF Init
<1>2. /\ now \in 0 .. MaxTime /\ event \in SUBSET EventRow
      /\ info \in [Info -> InfoRow] /\ product \in [Product -> ProductStatus]
  BY <1>1, TimeAssumption DEF InfoRow, ProductStatus
<1>3. AbsentOrder \in OrderRow /\ AbsentAttempt \in AttemptRow
  BY DEF AbsentOrder, AbsentAttempt, OrderRow, AttemptRow
<1>4. order \in [Order -> OrderRow] /\ attempt \in [Order -> AttemptRow]
  BY <1>1, <1>3
<1>5. \A o \in Order :
        /\ order[o].status = "absent" /\ order[o].product = None
        /\ order[o].amount = 0
        /\ attempt[o].state = "absent" /\ attempt[o].provider = None
        /\ attempt[o].amount = 0 /\ attempt[o].txn = None
  BY <1>1 DEF AbsentOrder, AbsentAttempt
<1>6. TypeOK
  BY <1>2, <1>4, <1>5 DEF TypeOK, CheckConstraints
<1>7. Holding /\ HeldOnce /\ NoOrphan
  BY <1>1, <1>5 DEF Holding, HeldOnce, NoOrphan
<1>8. ProviderKnown /\ UnknownIsAbsent /\ LifecycleCoherence
  BY <1>5 DEF ProviderKnown, UnknownIsAbsent, LifecycleCoherence
<1>9. PaymentLedger
  BY <1>1, <1>5 DEF PaymentLedger
<1>10. ExpiredPast /\ EpayDeadline
  BY <1>5 DEF ExpiredPast, EpayDeadline
<1> QED BY <1>6, <1>7, <1>8, <1>9, <1>10 DEF IInv

LEMMA StepInvariant == IInv /\ [Next]_dbvars => IInv'
  BY TypeStep, HoldingStep, CoherenceStep, LedgerStep, DeadlineStep DEF IInv

-----------------------------------------------------------------------------
(* The theorems                                                            *)

\* Every transaction, in any order and with any confirmations, keeps the
\* inductive invariant of the tables.
THEOREM Invariance == Spec => []IInv
<1>1. Init => IInv
  BY InitInvariant
<1>2. IInv /\ [Next]_dbvars => IInv'
  BY StepInvariant
<1> QED BY <1>1, <1>2, PTL DEF Spec

\* The columns keep their types and no transaction ever meets a CHECK
\* constraint (up.sql:71-74,108-111).
THEOREM TypeCorrect == Spec => []TypeOK
<1>1. IInv => TypeOK
  BY DEF IInv
<1> QED BY <1>1, Invariance, PTL

\* A unit of stock is held by one order as long as it is reserved or
\* delivered, and by none otherwise (public.rs:497-519, service.rs:361-407).
THEOREM InventoryOwned == Spec => []InventoryOwnership
<1>1. ASSUME IInv PROVE InventoryOwnership
  <2> USE DEF IInv
  <2> SUFFICES ASSUME NEW p \in Product
               PROVE  /\ product[p] = "reserved" =>
                            \E o \in Order : /\ Holders(p) = {o}
                                             /\ order[o].status = "pending"
                      /\ product[p] = "delivered" =>
                            \E o \in Order : /\ Holders(p) = {o}
                                             /\ order[o].status = "delivered"
                      /\ product[p] \notin {"reserved", "delivered"} =>
                            Holders(p) = {}
    BY <1>1 DEF InventoryOwnership
  <2>1. CASE product[p] \in {"reserved", "delivered"}
    <3>1. PICK o \in Order : order[o].product = p
      BY <1>1, <2>1 DEF NoOrphan
    <3>2. p # None
      BY NoneFresh
    <3>3. Holders(p) = {o}
      BY <1>1, <3>1, <3>2 DEF HeldOnce, Holders
    <3>4. \/ order[o].status = "pending" /\ product[p] = "reserved"
          \/ order[o].status = "delivered" /\ product[p] = "delivered"
      BY <1>1, <3>1, <3>2 DEF Holding
    <3> QED BY <3>3, <3>4
  <2>2. CASE product[p] \notin {"reserved", "delivered"}
    BY <1>1, <2>2, NoneFresh DEF Holders, Holding
  <2> QED BY <2>1, <2>2
<1> QED BY <1>1, Invariance, PTL

\* A pending order can always be delivered or expired: the rollback branches
\* on its inventory are dead (service.rs:297-303,374-387,
\* expiration.rs:375-388).
THEOREM PendingSettles == Spec => []PendingCanSettle
<1>1. ASSUME IInv PROVE PendingCanSettle
  <2> SUFFICES ASSUME NEW o \in Order, order[o].status = "pending"
               PROVE  HoldsReserved(o)
    BY DEF PendingCanSettle
  <2>1. order[o].product # None
    BY <1>1 DEF IInv, TypeOK, CheckConstraints
  <2> QED BY <1>1, <2>1 DEF IInv, Holding, HoldsReserved
<1> QED BY <1>1, Invariance, PTL

\* The order's status and the payment attempt's state agree.
THEOREM LifecyclesCohere == Spec => []LifecycleCoherence
<1>1. IInv => LifecycleCoherence
  BY DEF IInv
<1> QED BY <1>1, Invariance, PTL

\* Money is booked once, for one order, together with its event.
THEOREM LedgerSound == Spec => []PaymentLedger
<1>1. IInv => PaymentLedger
  BY DEF IInv
<1> QED BY <1>1, Invariance, PTL

\* Late ePay money is never met by a delivery (service.rs:168-201).
THEOREM DeadlineDecides == Spec => []EpayDeadline
<1>1. IInv => EpayDeadline
  BY DEF IInv
<1> QED BY <1>1, Invariance, PTL

\* No step takes a reservation away before its deadline.
LEMMA NotEarlyStep ==
    ASSUME IInv, [Next]_dbvars, NEW o \in Order,
           order[o].status = "pending", order'[o].status = "expired"
    PROVE  now >= order[o].expires
<1>0. TypeOK
  BY DEF IInv
<1>1. now \in Nat /\ order[o].expires \in Nat
  BY <1>0, Rows DEF TypeOK, OrderRow
<1>2. CASE UNCHANGED order
  BY <1>2
<1>3. CASE UNCHANGED dbvars \/ Tick \/ AdminNext
  BY <1>0, <1>2, <1>3, AdminEffect DEF dbvars, Tick
<1>4. ASSUME NEW q \in Order, NEW p \in Product, NEW provider \in Provider,
             NEW at \in 0 .. now, CreateOrder(q, p, provider, at)
      PROVE  now >= order[o].expires
  <2>1. order'[q].status = "pending" /\ (o # q => order'[o] = order[o])
    BY <1>0, <1>4, CreateEffect
  <2> QED BY <2>1
<1>5. ASSUME NEW q \in Order,
             (\E at \in 0 .. now : PublishReady(q, at)) \/ MarkFailed(q)
      PROVE  now >= order[o].expires
  BY <1>2, <1>5 DEF PublishReady, MarkFailed
<1>6. ASSUME NEW q \in Order, ExpireReserved(q)
      PROVE  now >= order[o].expires
  <2>1. order[q].expires <= now /\ ReleaseInventory(q)
    BY <1>6 DEF ExpireReserved, Expirable
  <2>2. o = q
    BY <1>0, <2>1, ReleaseEffect
  <2> QED BY <1>1, <2>1, <2>2
<1>7. ASSUME NEW c \in Confirmation, Genuine(c), ConfirmPayment(c)
      PROVE  now >= order[o].expires
  <2>1. c.trade \in Order
    BY ConfirmationFields
  <2>2. CASE RepeatPayment(c)
    BY <1>2, <2>2 DEF RepeatPayment
  <2>3. CASE RecordAfterExpiry(c)
    <3>1. o = c.trade
      BY <1>0, <2>1, <2>3, RecordEffect, ReleaseEffect
    <3>2. c.paidAt \in Nat /\ c.paidAt > order[o].expires
      BY <1>0, <2>3, <3>1, RecordEffect, ConfirmationFields DEF Late
    <3>3. c.paidAt <= now
      BY <1>7 DEF Genuine
    <3> QED BY <1>1, <3>2, <3>3
  <2>4. CASE ApplyPayment(c)
    <3>1. /\ order'[c.trade].status = "delivered"
          /\ o # c.trade => order'[o] = order[o]
      BY <1>0, <2>1, <2>4, ApplyEffect, DeliverEffect
    <3> QED BY <3>1
  <2> QED BY <1>7, <2>2, <2>3, <2>4 DEF ConfirmPayment
<1> QED
  BY <1>3, <1>4, <1>5, <1>6, <1>7 DEF Next, OrderNext, PaymentNext

\* The customer's reservation lasts until its deadline, whoever expires it:
\* the scan or a late payment (expiration.rs:350-362, service.rs:168-201).
THEOREM ReservationKept == Spec => NeverExpiredEarly
<1>1. ASSUME IInv, [Next]_dbvars
      PROVE  [\A o \in Order :
                 order[o].status = "pending" /\ order'[o].status = "expired" =>
                     now >= order[o].expires]_dbvars
  BY <1>1, NotEarlyStep
<1> QED BY <1>1, Invariance, PTL DEF Spec, NeverExpiredEarly

\* No step changes what is settled.
LEMMA SettledStep ==
    ASSUME IInv, [Next]_dbvars
    PROVE  /\ \A o \in Order :
                 /\ order[o].status \in {"delivered", "expired"} =>
                       order'[o] = order[o]
                 /\ attempt[o].state = "succeeded" => attempt'[o] = attempt[o]
                 /\ attempt[o].state = "closed" =>
                       attempt'[o].state \in {"closed", "succeeded"}
           /\ \A p \in Product :
                 product[p] = "delivered" => product'[p] = "delivered"
<1> DEFINE Goal ==
        /\ \A o \in Order :
              /\ order[o].status \in {"delivered", "expired"} =>
                    order'[o] = order[o]
              /\ attempt[o].state = "succeeded" => attempt'[o] = attempt[o]
              /\ attempt[o].state = "closed" =>
                    attempt'[o].state \in {"closed", "succeeded"}
        /\ \A p \in Product :
              product[p] = "delivered" => product'[p] = "delivered"
<1>0. TypeOK /\ UnknownIsAbsent /\ LifecycleCoherence
  BY DEF IInv
<1>1. CASE UNCHANGED <<product, order, attempt>>
  BY <1>1
<1>2. CASE UNCHANGED dbvars \/ Tick
  BY <1>1, <1>2 DEF dbvars, Tick
<1>3. CASE AdminNext
  BY <1>0, <1>3, AdminEffect
<1>4. ASSUME NEW o \in Order, NEW p \in Product, NEW provider \in Provider,
             NEW at \in 0 .. now, CreateOrder(o, p, provider, at)
      PROVE  Goal
  <2>1. attempt[o].state = "absent" /\ order[o].status = "absent"
    BY <1>0, <1>4, CreateEffect DEF LifecycleCoherence
  <2>2. /\ \A q \in Order : q # o => order'[q] = order[q] /\ attempt'[q] = attempt[q]
        /\ product[p] = "available"
        /\ \A r \in Product : r # p => product'[r] = product[r]
    BY <1>0, <1>4, CreateEffect
  <2> QED BY <2>1, <2>2
<1>5. ASSUME NEW o \in Order,
             (\E at \in 0 .. now : PublishReady(o, at)) \/ MarkFailed(o)
      PROVE  Goal
  <2>1. /\ UNCHANGED <<product, order>>
        /\ attempt[o].state = "created"
        /\ \E s \in {"ready", "failed"} : attempt' = [attempt EXCEPT ![o].state = s]
    BY <1>5 DEF PublishReady, CanPublish, MarkFailed
  <2>2. \A q \in Order : q # o => attempt'[q] = attempt[q]
    BY <1>0, <2>1, AttemptStateEffect
  <2> QED BY <2>1, <2>2
<1>6. ASSUME NEW o \in Order, ExpireReserved(o)
      PROVE  Goal
  <2>1. /\ order[o].status = "pending" /\ attempt[o].state # "succeeded"
        /\ ReleaseInventory(o)
        /\ attempt' = [attempt EXCEPT ![o].state = "closed"]
    BY <1>6 DEF ExpireReserved, Expirable
  <2>2. /\ attempt'[o].state = "closed"
        /\ \A q \in Order : q # o => attempt'[q] = attempt[q]
    BY <1>0, <2>1, AttemptStateEffect
  <2>3. /\ product[order[o].product] = "reserved"
        /\ \A p \in Product : p # order[o].product => product'[p] = product[p]
        /\ \A q \in Order : q # o => order'[q] = order[q]
    BY <1>0, <2>1, ReleaseEffect
  <2> QED BY <2>1, <2>2, <2>3
<1>7. ASSUME NEW c \in Confirmation, ConfirmPayment(c)
      PROVE  Goal
  <2> DEFINE o == c.trade
  <2>1. o \in Order
    BY ConfirmationFields
  <2>2. CASE RepeatPayment(c)
    BY <1>1, <2>2 DEF RepeatPayment
  <2>3. CASE RecordAfterExpiry(c) \/ ApplyPayment(c)
    <3>1. /\ attempt[o].state # "succeeded" /\ attempt'[o].state = "succeeded"
          /\ \A q \in Order : q # o => attempt'[q] = attempt[q]
      BY <1>0, <2>3, RecordEffect, ApplyEffect, SucceedEffect
    <3>2. \/ UNCHANGED <<product, order>>
          \/ order[o].status = "pending" /\ (ReleaseInventory(o) \/ DeliverInventory(o))
      BY <1>0, <2>3, RecordEffect, ApplyEffect
    <3>3. CASE UNCHANGED <<product, order>>
      BY <3>1, <3>3
    <3>4. CASE order[o].status = "pending" /\ (ReleaseInventory(o) \/ DeliverInventory(o))
      <4>1. /\ product[order[o].product] = "reserved"
            /\ \A p \in Product : p # order[o].product => product'[p] = product[p]
            /\ \A q \in Order : q # o => order'[q] = order[q]
        BY <1>0, <2>1, <3>4, ReleaseEffect, DeliverEffect
      <4> QED BY <3>1, <3>4, <4>1
    <3> QED BY <3>2, <3>3, <3>4
  <2> QED BY <1>7, <2>2, <2>3 DEF ConfirmPayment
<1> QED
  BY <1>2, <1>3, <1>4, <1>5, <1>6, <1>7 DEF Next, OrderNext, PaymentNext

\* Settled orders, booked payments, delivered units and closed attempts stay
\* as they are, whatever arrives or is retried afterwards.
THEOREM SettledStays == Spec => SettledIsFinal
<1>1. ASSUME IInv, [Next]_dbvars
      PROVE  [/\ \A o \in Order :
                    /\ order[o].status \in {"delivered", "expired"} =>
                          order'[o] = order[o]
                    /\ attempt[o].state = "succeeded" => attempt'[o] = attempt[o]
                    /\ attempt[o].state = "closed" =>
                          attempt'[o].state \in {"closed", "succeeded"}
              /\ \A p \in Product :
                    product[p] = "delivered" => product'[p] = "delivered"]_dbvars
  BY <1>1, SettledStep
<1> QED BY <1>1, Invariance, PTL DEF Spec, SettledIsFinal

-----------------------------------------------------------------------------
(* The refinement                                                          *)

\* An order's row read as a sale, when the row does not change.
LEMMA SameSale ==
    ASSUME \A q \in Order : order'[q] = order[q] /\ attempt'[q].state = attempt[q].state
    PROVE  UNCHANGED S!svars
  BY DEF S!svars

\* A row that alone changes changes its sale alone.
LEMMA OneSale ==
    ASSUME NEW o \in Order,
           \A q \in Order : q # o => order'[q] = order[q] /\ attempt'[q] = attempt[q]
    PROVE  /\ [q \in Order |-> order'[q].product] =
                 [[q \in Order |-> order[q].product] EXCEPT ![o] = order'[o].product]
           /\ [q \in Order |-> SaleOf(order'[q].status)] =
                 [[q \in Order |-> SaleOf(order[q].status)]
                     EXCEPT ![o] = SaleOf(order'[o].status)]
           /\ [q \in Order |-> attempt'[q].state = "succeeded"] =
                 [[q \in Order |-> attempt[q].state = "succeeded"]
                     EXCEPT ![o] = attempt'[o].state = "succeeded"]
<1>1. [q \in Order |-> order'[q].product] =
         [[q \in Order |-> order[q].product] EXCEPT ![o] = order'[o].product]
  OBVIOUS
<1>2. [q \in Order |-> SaleOf(order'[q].status)] =
         [[q \in Order |-> SaleOf(order[q].status)]
             EXCEPT ![o] = SaleOf(order'[o].status)]
  OBVIOUS
<1>3. [q \in Order |-> attempt'[q].state = "succeeded"] =
         [[q \in Order |-> attempt[q].state = "succeeded"]
             EXCEPT ![o] = attempt'[o].state = "succeeded"]
  OBVIOUS
<1> QED BY <1>1, <1>2, <1>3

\* Every transaction is a step of the sale or leaves it as it is.
LEMMA SaleStep ==
    ASSUME IInv, [Next]_dbvars
    PROVE  [S!SaleNext]_(S!svars)
<1> DEFINE itemNow == [q \in Order |-> order[q].product]
           saleNow == [q \in Order |-> SaleOf(order[q].status)]
           paidNow == [q \in Order |-> attempt[q].state = "succeeded"]
<1>0. TypeOK /\ Holding /\ UnknownIsAbsent /\ LifecycleCoherence
  BY DEF IInv
<1>1. CASE UNCHANGED <<order, attempt>>
  BY <1>1, SameSale
<1>2. CASE UNCHANGED dbvars \/ Tick \/ AdminNext
  BY <1>0, <1>1, <1>2, AdminEffect DEF dbvars, Tick
<1>3. ASSUME NEW o \in Order,
             (\E at \in 0 .. now : PublishReady(o, at)) \/ MarkFailed(o)
      PROVE  UNCHANGED S!svars
  <2>1. /\ order' = order /\ attempt[o].state = "created"
        /\ \E s \in {"ready", "failed"} : attempt' = [attempt EXCEPT ![o].state = s]
    BY <1>3 DEF PublishReady, CanPublish, MarkFailed
  <2>2. /\ attempt'[o].state \in {"ready", "failed"}
        /\ \A q \in Order : q # o => attempt'[q] = attempt[q]
    BY <1>0, <2>1, AttemptStateEffect
  <2>3. \A q \in Order : (attempt'[q].state = "succeeded") = (attempt[q].state = "succeeded")
    BY <2>1, <2>2
  <2> QED BY <2>1, <2>3 DEF S!svars
<1>4. ASSUME NEW o \in Order, NEW p \in Product, NEW provider \in Provider,
             NEW at \in 0 .. now, CreateOrder(o, p, provider, at)
      PROVE  S!SaleNext
  <2>1. /\ order[o].status = "absent" /\ product[p] = "available"
        /\ attempt[o].state = "absent"
        /\ order'[o].status = "pending" /\ order'[o].product = p
        /\ attempt'[o].state = "created"
        /\ \A q \in Order : q # o => order'[q] = order[q] /\ attempt'[q] = attempt[q]
    BY <1>0, <1>4, CreateEffect DEF LifecycleCoherence
  <2>2. \A q \in Order : order[q].product # p
    BY <1>0, <2>1, NoneFresh DEF Holding
  <2>3. itemNow' = [itemNow EXCEPT ![o] = p]
    BY <2>1, OneSale
  <2>4. saleNow' = [saleNow EXCEPT ![o] = "open"]
    BY <2>1, OneSale DEF SaleOf
  <2>5. paidNow' = paidNow
    BY <2>1
  <2>6. S!Open(o, p)
    BY <2>1, <2>2, <2>3, <2>4, <2>5 DEF S!Open, SaleOf
  <2> QED BY <2>6 DEF S!SaleNext
<1>5. ASSUME NEW o \in Order, order[o].status = "pending", ReleaseInventory(o),
             attempt'[o].state \in {"closed", "succeeded"},
             \A q \in Order : q # o => attempt'[q] = attempt[q]
      PROVE  S!SaleNext
  <2>1. /\ order'[o].status = "expired" /\ order'[o].product = None
        /\ \A q \in Order : q # o => order'[q] = order[q]
    BY <1>0, <1>5, ReleaseEffect
  <2>2. attempt[o].state # "succeeded"
    BY <1>0, <1>5 DEF LifecycleCoherence
  <2>3. itemNow' = [itemNow EXCEPT ![o] = None]
    BY <1>5, <2>1, OneSale
  <2>4. saleNow' = [saleNow EXCEPT ![o] = "lapsed"]
    BY <1>5, <2>1, OneSale DEF SaleOf
  <2>5. CASE attempt'[o].state = "closed"
    <3>1. paidNow' = paidNow
      BY <1>5, <2>2, <2>5
    <3>2. S!Lapse(o)
      BY <1>5, <2>3, <2>4, <3>1 DEF S!Lapse, SaleOf
    <3> QED BY <3>2 DEF S!SaleNext
  <2>6. CASE attempt'[o].state = "succeeded"
    <3>1. paidNow' = [paidNow EXCEPT ![o] = TRUE]
      BY <1>5, <2>1, <2>6, OneSale
    <3>2. S!Lapse(o)
      BY <1>5, <2>3, <2>4, <3>1 DEF S!Lapse, SaleOf
    <3> QED BY <3>2 DEF S!SaleNext
  <2> QED BY <1>5, <2>5, <2>6
<1>6. ASSUME NEW o \in Order, ExpireReserved(o)
      PROVE  S!SaleNext
  <2>1. /\ order[o].status = "pending" /\ ReleaseInventory(o)
        /\ attempt' = [attempt EXCEPT ![o].state = "closed"]
    BY <1>6 DEF ExpireReserved, Expirable
  <2>2. /\ attempt'[o].state = "closed"
        /\ \A q \in Order : q # o => attempt'[q] = attempt[q]
    BY <1>0, <2>1, AttemptStateEffect
  <2> QED BY <1>5, <2>1, <2>2
<1>7. ASSUME NEW c \in Confirmation, RecordAfterExpiry(c)
      PROVE  S!SaleNext
  <2> DEFINE o == c.trade
  <2>1. o \in Order
    BY ConfirmationFields
  <2>2. /\ attempt[o].state # "succeeded" /\ attempt'[o].state = "succeeded"
        /\ \A q \in Order : q # o => attempt'[q] = attempt[q]
    BY <1>0, <1>7, RecordEffect, SucceedEffect
  <2>3. CASE order[o].status = "pending"
    BY <1>0, <1>5, <1>7, <2>1, <2>2, <2>3, RecordEffect
  <2>4. CASE order[o].status # "pending"
    <3>1. order[o].status = "expired" /\ order' = order
      BY <1>0, <1>7, <2>4, PayableOrder, RecordEffect
    <3>2. paidNow' = [paidNow EXCEPT ![o] = TRUE]
      BY <2>1, <2>2, <3>1, OneSale
    <3>3. UNCHANGED <<itemNow, saleNow>>
      BY <3>1
    <3>4. S!PayTooLate(o)
      BY <2>1, <2>2, <3>1, <3>2, <3>3 DEF S!PayTooLate, SaleOf
    <3> QED BY <2>1, <3>4 DEF S!SaleNext
  <2> QED BY <2>3, <2>4
<1>8. ASSUME NEW c \in Confirmation, ApplyPayment(c)
      PROVE  S!SaleNext
  <2> DEFINE o == c.trade
  <2>1. o \in Order
    BY ConfirmationFields
  <2>2. /\ order[o].status = "pending" /\ order'[o].status = "delivered"
        /\ order'[o].product = order[o].product
        /\ attempt'[o].state = "succeeded"
        /\ \A q \in Order : q # o => order'[q] = order[q] /\ attempt'[q] = attempt[q]
    BY <1>0, <1>8, <2>1, ApplyEffect, DeliverEffect, SucceedEffect
  <2>3. itemNow' = itemNow
    BY <2>2
  <2>4. saleNow' = [saleNow EXCEPT ![o] = "sold"]
    BY <2>1, <2>2, OneSale DEF SaleOf
  <2>5. paidNow' = [paidNow EXCEPT ![o] = TRUE]
    BY <2>1, <2>2, OneSale
  <2>6. S!Sell(o)
    BY <2>1, <2>2, <2>3, <2>4, <2>5 DEF S!Sell, SaleOf
  <2> QED BY <2>1, <2>6 DEF S!SaleNext
<1>9. ASSUME NEW c \in Confirmation, RepeatPayment(c)
      PROVE  UNCHANGED S!svars
  BY <1>1, <1>9, SameSale DEF RepeatPayment
<1> QED
  BY <1>2, <1>3, <1>4, <1>6, <1>7, <1>8, <1>9
  DEF Next, OrderNext, PaymentNext, ConfirmPayment

\* The tables implement the sale a customer and the shop agree on: an order
\* opens on a unit nobody holds, is sold in the step that books its money,
\* and late money buys nothing (README.md:24-30).
THEOREM Implements == Spec => Lifecycle
<1>1. Init => S!SaleInit
  <2> SUFFICES ASSUME Init PROVE S!SaleInit
    OBVIOUS
  <2>1. \A o \in Order : /\ order[o].status = "absent" /\ order[o].product = None
                         /\ (attempt[o].state = "succeeded") = FALSE
    BY DEF Init, AbsentOrder, AbsentAttempt
  <2>2. \A o \in Order : SaleOf(order[o].status) = "none"
    BY <2>1 DEF SaleOf
  <2> QED BY <2>1, <2>2 DEF S!SaleInit
<1>2. IInv /\ [Next]_dbvars => [S!SaleNext]_(S!svars)
  BY SaleStep
<1> QED BY <1>1, <1>2, Invariance, PTL DEF Spec, Lifecycle, S!SaleSpec
=============================================================================
