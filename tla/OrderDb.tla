------------------------------ MODULE OrderDb ------------------------------
(***************************************************************************)
(* The shop's PostgreSQL state (product_info, products, orders,            *)
(* payment_attempts, payment_events) and every transaction that changes    *)
(* it: checkout, publication of the payment entry, payment confirmation,   *)
(* expiration and the administrator's stock and price edits.               *)
(*                                                                         *)
(* One action is one committed transaction.  A transaction the code rolls  *)
(* back, or that finds nothing to do, changes no row and is no step here.  *)
(* Who calls the transactions, and when, is left open: any trusted         *)
(* confirmation may arrive at any moment, any number of times.             *)
(***************************************************************************)
EXTENDS Integers, FiniteSets

CONSTANTS
    Info,      \* product definitions (rows of product_info)
    Product,   \* units of stock: (definition, content) pairs
    InfoOf,    \* the definition a unit belongs to
    Order,     \* orders; an order and its only payment attempt share the name
    Price,     \* prices an administrator sets, in cents
    Txn,       \* provider transaction numbers
    Event,     \* provider event ids
    None,      \* SQL NULL
    HoldTime,  \* reservation length per provider
    MaxTime    \* bound of the clock

Provider == {"epay", "wechatpay"}

ASSUME NoneAssumption ==
    None \notin Order \cup Product \cup Txn \cup Info \cup Provider \cup Nat
ASSUME InfoOfAssumption == InfoOf \in [Product -> Info]
ASSUME PriceAssumption == Price \subseteq Nat
ASSUME TimeAssumption == /\ HoldTime \in [Provider -> Nat \ {0}]
                         /\ MaxTime \in Nat

VARIABLES
    now,      \* the database server's and the backend's common clock
    info,     \* product_info: state (absent/active/inactive) and price
    product,  \* products: status of each unit
    order,    \* orders
    attempt,  \* payment_attempts
    event     \* payment_events

dbvars == <<now, info, product, order, attempt, event>>

-----------------------------------------------------------------------------
(* Rows.  "absent" stands for a row that has not been inserted.            *)

AbsentOrder == [status |-> "absent", product |-> None, info |-> None,
                amount |-> 0, expires |-> 0]

AbsentAttempt == [state |-> "absent", provider |-> None, amount |-> 0,
                  txn |-> None, paidAt |-> None]

InfoRow == [state : {"absent", "active", "inactive"}, price : Nat]

ProductStatus == {"absent", "available", "reserved", "delivered", "disabled"}

OrderRow == [status : {"absent", "pending", "delivered", "expired"},
             product : Product \cup {None}, info : Info \cup {None},
             amount : Nat, expires : Nat]

AttemptRow == [state : {"absent", "created", "ready", "succeeded", "failed",
                        "closed"},
               provider : Provider \cup {None}, amount : Nat,
               txn : Txn \cup {None}, paidAt : Nat \cup {None}]

EventRow == [provider : Provider, id : Event, order : Order]

\* A confirmation as a notification handler or the expiration worker builds
\* it.  "expected" is the order id the provider echoed, when it echoed one.
Confirmation == [provider : Provider, id : Event, trade : Order, txn : Txn,
                 expected : Order \cup {None}, amount : Price,
                 paidAt : 0 .. MaxTime]

\* The CHECK constraints of up.sql:71-74 and 108-111: PostgreSQL aborts a
\* transaction that breaks one, so that code which can do so is stuck.
CheckConstraints ==
    \A o \in Order :
        /\ order[o].status \in {"pending", "delivered"} => order[o].product # None
        /\ order[o].status = "expired" => order[o].product = None
        /\ attempt[o].state = "succeeded" =>
              attempt[o].txn # None /\ attempt[o].paidAt # None

\* Every column has its type and no transaction meets a CHECK constraint
\* (up.sql:15-135).
TypeOK ==
    /\ now \in 0 .. MaxTime
    /\ info \in [Info -> InfoRow]
    /\ product \in [Product -> ProductStatus]
    /\ order \in [Order -> OrderRow]
    /\ attempt \in [Order -> AttemptRow]
    /\ event \in SUBSET EventRow
    /\ CheckConstraints

Init ==
    /\ now = 0
    /\ info = [i \in Info |-> [state |-> "absent", price |-> 0]]
    /\ product = [p \in Product |-> "absent"]
    /\ order = [o \in Order |-> AbsentOrder]
    /\ attempt = [o \in Order |-> AbsentAttempt]
    /\ event = {}

-----------------------------------------------------------------------------
(* Time and the administrator                                              *)

Tick ==
    /\ now < MaxTime
    /\ now' = now + 1
    /\ UNCHANGED <<info, product, order, attempt, event>>

CreateProductInfo(i, price, active) ==
    /\ info[i].state = "absent"
    /\ info' = [info EXCEPT ![i] =
                   [state |-> IF active THEN "active" ELSE "inactive",
                    price |-> price]]
    /\ UNCHANGED <<now, product, order, attempt, event>>

UpdateProductInfo(i, price) ==
    /\ info[i].state # "absent"
    /\ info' = [info EXCEPT ![i].price = price]
    /\ UNCHANGED <<now, product, order, attempt, event>>

UpdateProductInfoActive(i, active) ==
    /\ info[i].state # "absent"
    /\ info' = [info EXCEPT ![i].state =
                   IF active THEN "active" ELSE "inactive"]
    /\ UNCHANGED <<now, product, order, attempt, event>>

\* Mutant: ON CONFLICT DO UPDATE puts a unit already there on sale again.
CreateProductUpsert(i, batch) ==
    /\ info[i].state # "absent"
    /\ batch # {}
    /\ \A p \in batch : InfoOf[p] = i
    /\ product' = [p \in Product |->
                      IF p \in batch THEN "available" ELSE product[p]]
    /\ UNCHANGED <<now, info, order, attempt, event>>

\* A batch of contents for one definition.  A unit that is already there
\* meets ON CONFLICT DO NOTHING: it keeps its row, whatever its status.
CreateProduct(i, batch) ==
    /\ info[i].state # "absent"
    /\ batch # {}
    /\ \A p \in batch : InfoOf[p] = i
    /\ product' = [p \in Product |->
                      IF p \in batch /\ product[p] = "absent"
                      THEN "available" ELSE product[p]]
    /\ UNCHANGED <<now, info, order, attempt, event>>

SourceStatus(target) == IF target = "available" THEN "disabled" ELSE "available"

\* Mutant: the UPDATE trusts the statuses the admin page showed.
UpdateProductStatusUnfiltered(batch, target) ==
    /\ target \in {"available", "disabled"}
    /\ batch # {}
    /\ product' = [p \in Product |-> IF p \in batch THEN target ELSE product[p]]
    /\ UNCHANGED <<now, info, order, attempt, event>>

\* The UPDATE filters on the only legal source status, so units that are
\* reserved or delivered by the time it runs are left alone.
UpdateProductStatus(batch, target) ==
    /\ target \in {"available", "disabled"}
    /\ batch # {}
    /\ product' = [p \in Product |->
                      IF p \in batch /\ product[p] = SourceStatus(target)
                      THEN target ELSE product[p]]
    /\ UNCHANGED <<now, info, order, attempt, event>>

-----------------------------------------------------------------------------
(* Checkout                                                                *)

\* Mutant: the SELECT forgets the status filter.
CreateOrderAnyUnit(o, p, provider, at) ==
    LET i == InfoOf[p] IN
    /\ order[o].status = "absent"
    /\ info[i].state = "active"
    /\ product[p] # "absent"
    /\ product' = [product EXCEPT ![p] = "reserved"]
    /\ order' = [order EXCEPT ![o] =
                    [status |-> "pending", product |-> p, info |-> i,
                     amount |-> info[i].price,
                     expires |-> at + HoldTime[provider]]]
    /\ attempt' = [attempt EXCEPT ![o] =
                      [state |-> "created", provider |-> provider,
                       amount |-> info[i].price,
                       txn |-> None, paidAt |-> None]]
    /\ UNCHANGED <<now, info, event>>

\* The order transaction: an active definition, one available unit of it
\* (whichever FOR UPDATE SKIP LOCKED returns), the order with the price it
\* read, and the single payment attempt.  "at" is the clock as the transaction
\* read it, some time before it committed.
CreateOrder(o, p, provider, at) ==
    LET i == InfoOf[p] IN
    /\ order[o].status = "absent"
    /\ info[i].state = "active"
    /\ product[p] = "available"
    /\ product' = [product EXCEPT ![p] = "reserved"]
    /\ order' = [order EXCEPT ![o] =
                    [status |-> "pending", product |-> p, info |-> i,
                     amount |-> info[i].price,
                     expires |-> at + HoldTime[provider]]]
    /\ attempt' = [attempt EXCEPT ![o] =
                      [state |-> "created", provider |-> provider,
                       amount |-> info[i].price,
                       txn |-> None, paidAt |-> None]]
    /\ UNCHANGED <<now, info, event>>

\* publish_payment_attempt_ready when it answers Ready.  The deadline is
\* compared with the clock read at "at"; the commit may come after it.
CanPublish(o, at) ==
    /\ attempt[o].state = "created"
    /\ order[o].status = "pending"
    /\ order[o].expires > at

PublishReady(o, at) ==
    /\ CanPublish(o, at)
    /\ attempt' = [attempt EXCEPT ![o].state = "ready"]
    /\ UNCHANGED <<now, info, product, order, event>>

\* Mutant: the UPDATE forgets the filter on state = created.
MarkFailedAlways(o) ==
    /\ attempt[o].provider = "wechatpay"
    /\ attempt' = [attempt EXCEPT ![o].state = "failed"]
    /\ UNCHANGED <<now, info, product, order, event>>

\* Only the WeChat branch of create_order reports a failed preparation.
MarkFailed(o) ==
    /\ attempt[o].provider = "wechatpay"
    /\ attempt[o].state = "created"
    /\ attempt' = [attempt EXCEPT ![o].state = "failed"]
    /\ UNCHANGED <<now, info, product, order, event>>

-----------------------------------------------------------------------------
(* Payment confirmation: the checks of confirm_payment, in its order       *)

AttemptFound(c) == attempt[c.trade].provider = c.provider

OrderExpected(c) == c.expected \in {None, c.trade}

EventRows(c) == {e \in event : e.provider = c.provider /\ e.id = c.id}

\* Mutant: only the order's status tells late payments.
LateNever(c) == FALSE

Late(c) == c.provider = "epay" /\ c.paidAt > order[c.trade].expires

\* UNIQUE (provider, provider_transaction_id)
TxnFree(c) ==
    \A q \in Order \ {c.trade} :
        attempt[q].provider = c.provider => attempt[q].txn # c.txn

\* Everything that must hold before the handler looks at the attempt's state.
Acceptable(c) ==
    /\ AttemptFound(c)
    /\ OrderExpected(c)
    /\ EventRows(c) = {}
    /\ attempt[c.trade].amount = c.amount

\* The unit an order holds can change hands only while its row says reserved
\* and belongs to the order's definition.
HoldsReserved(o) ==
    /\ order[o].product # None
    /\ InfoOf[order[o].product] = order[o].info
    /\ product[order[o].product] = "reserved"

\* Mutant: the released unit stays on the expired order.
ReleaseInventoryKeepsProduct(o) ==
    /\ HoldsReserved(o)
    /\ product' = [product EXCEPT ![order[o].product] = "available"]
    /\ order' = [order EXCEPT ![o].status = "expired"]

ReleaseInventory(o) ==
    /\ HoldsReserved(o)
    /\ product' = [product EXCEPT ![order[o].product] = "available"]
    /\ order' = [order EXCEPT ![o].status = "expired", ![o].product = None]

DeliverInventory(o) ==
    /\ HoldsReserved(o)
    /\ product' = [product EXCEPT ![order[o].product] = "delivered"]
    /\ order' = [order EXCEPT ![o].status = "delivered"]

\* Mutant: no unique key on the provider's transaction number.
MarkSucceededAnyTxn(c) ==
    attempt' = [attempt EXCEPT ![c.trade].state = "succeeded",
                               ![c.trade].txn = c.txn,
                               ![c.trade].paidAt = c.paidAt]

MarkSucceeded(c) ==
    /\ TxnFree(c)
    /\ attempt' = [attempt EXCEPT ![c.trade].state = "succeeded",
                                  ![c.trade].txn = c.txn,
                                  ![c.trade].paidAt = c.paidAt]

InsertEvent(c) ==
    event' = event \cup {[provider |-> c.provider, id |-> c.id,
                          order |-> c.trade]}

\* The attempt has been paid with this very transaction: another event of it.
RepeatPayment(c) ==
    /\ Acceptable(c)
    /\ attempt[c.trade].state = "succeeded"
    /\ attempt[c.trade].txn = c.txn
    /\ InsertEvent(c)
    /\ UNCHANGED <<now, info, product, order, attempt>>

\* Outcome RecordedAfterExpiry: the money is booked and nothing delivered.  A
\* late ePay payment that overtakes the scan releases the unit itself.
RecordAfterExpiry(c) ==
    LET o == c.trade IN
    /\ Acceptable(c)
    /\ attempt[o].state # "succeeded"
    /\ order[o].amount = c.amount
    /\ order[o].status = "expired" \/ Late(c)
    /\ \/ order[o].status = "pending" /\ ReleaseInventory(o)
       \/ order[o].status # "pending" /\ UNCHANGED <<product, order>>
    /\ MarkSucceeded(c)
    /\ InsertEvent(c)
    /\ UNCHANGED <<now, info>>

\* Outcome Applied.
ApplyPayment(c) ==
    LET o == c.trade IN
    /\ Acceptable(c)
    /\ attempt[o].state # "succeeded"
    /\ order[o].amount = c.amount
    /\ order[o].status = "pending"
    /\ ~Late(c)
    /\ DeliverInventory(o)
    /\ MarkSucceeded(c)
    /\ InsertEvent(c)
    /\ UNCHANGED <<now, info>>

ConfirmPayment(c) == RepeatPayment(c) \/ RecordAfterExpiry(c) \/ ApplyPayment(c)

\* What the callers pass.  ePay's paid_at is the time the handler read before
\* it waited for a connection and the locks, WeChat's is the success_time the
\* platform signed: both may be past by the time the transaction commits.
\* Only ePay may omit the order id.
Genuine(c) ==
    /\ c.paidAt <= now
    /\ c.provider = "wechatpay" => c.expected # None

-----------------------------------------------------------------------------
(* Expiration                                                              *)

\* Under the locks: not paid meanwhile, still pending, past its deadline.
Expirable(o) ==
    /\ attempt[o].state # "succeeded"
    /\ order[o].status = "pending"
    /\ order[o].expires <= now

\* Mutant: the order is expired and the attempt left as it was.
ExpireReservedOpenAttempt(o) ==
    /\ Expirable(o)
    /\ ReleaseInventory(o)
    /\ UNCHANGED <<now, info, attempt, event>>

\* Mutant: the candidate of the scan is not rechecked under the lock.
ExpireReservedUnchecked(o) ==
    /\ attempt[o].state # "succeeded"
    /\ order[o].status = "pending"
    /\ ReleaseInventory(o)
    /\ attempt' = [attempt EXCEPT ![o].state = "closed"]
    /\ UNCHANGED <<now, info, event>>

ExpireReserved(o) ==
    /\ Expirable(o)
    /\ ReleaseInventory(o)
    /\ attempt' = [attempt EXCEPT ![o].state = "closed"]
    /\ UNCHANGED <<now, info, event>>

-----------------------------------------------------------------------------

AdminNext ==
    \/ \E i \in Info, price \in Price, active \in BOOLEAN :
          CreateProductInfo(i, price, active)
    \/ \E i \in Info, price \in Price : UpdateProductInfo(i, price)
    \/ \E i \in Info, active \in BOOLEAN : UpdateProductInfoActive(i, active)
    \/ \E i \in Info, batch \in SUBSET Product : CreateProduct(i, batch)
    \/ \E batch \in SUBSET Product, target \in {"available", "disabled"} :
          UpdateProductStatus(batch, target)

OrderNext ==
    \E o \in Order :
        \/ \E p \in Product, provider \in Provider, at \in 0 .. now :
              CreateOrder(o, p, provider, at)
        \/ \E at \in 0 .. now : PublishReady(o, at)
        \/ MarkFailed(o)
        \/ ExpireReserved(o)

PaymentNext == \E c \in Confirmation : Genuine(c) /\ ConfirmPayment(c)

Next == Tick \/ AdminNext \/ OrderNext \/ PaymentNext

Spec == Init /\ [][Next]_dbvars

-----------------------------------------------------------------------------
(* Properties                                                              *)

\* A unit of stock is reserved exactly while one pending order holds it,
\* delivered exactly when one delivered order holds it, and otherwise held by
\* nobody: the same card is never promised or handed out twice, and none is
\* lost in "reserved" (public.rs:497-519, service.rs:361-407,
\* expiration.rs:364-393).
Holders(p) == {o \in Order : order[o].product = p}

InventoryOwnership ==
    \A p \in Product :
        /\ product[p] = "reserved" =>
              \E o \in Order : Holders(p) = {o} /\ order[o].status = "pending"
        /\ product[p] = "delivered" =>
              \E o \in Order : Holders(p) = {o} /\ order[o].status = "delivered"
        /\ product[p] \notin {"reserved", "delivered"} => Holders(p) = {}

\* The rollback branches "reserved inventory could not be released" and
\* "reserved inventory is not in reserved state" (service.rs:297-303,374-387,
\* expiration.rs:375-388) are dead: every pending order can still be released
\* or delivered, whatever the administrator did meanwhile.
PendingCanSettle ==
    \A o \in Order : order[o].status = "pending" => HoldsReserved(o)

\* Order and payment attempt agree: a delivered order was paid, an expired one
\* has a closed or (late) paid attempt, a pending one neither; a failed
\* preparation exists only for WeChat; and both carry the same amount.
LifecycleCoherence ==
    \A o \in Order :
        /\ order[o].status = "absent" <=> attempt[o].state = "absent"
        /\ order[o].status = "pending" =>
              attempt[o].state \in {"created", "ready", "failed"}
        /\ order[o].status = "delivered" => attempt[o].state = "succeeded"
        /\ order[o].status = "expired" =>
              attempt[o].state \in {"closed", "succeeded"}
        /\ attempt[o].state = "failed" => attempt[o].provider = "wechatpay"
        /\ order[o].amount = attempt[o].amount

\* The ledger: a provider transaction pays for one order only, a payment is
\* booked together with its event, an event id is booked once, and no event
\* exists for an order whose money was not taken.
PaymentLedger ==
    /\ \A o \in Order :
          /\ attempt[o].state = "succeeded" <=> attempt[o].txn # None
          /\ attempt[o].state = "succeeded" => \E e \in event : e.order = o
    /\ \A o, q \in Order :
          /\ attempt[o].provider = attempt[q].provider
          /\ attempt[o].txn = attempt[q].txn
          /\ attempt[o].txn # None
          => o = q
    /\ \A e \in event : /\ attempt[e.order].state = "succeeded"
                        /\ attempt[e.order].provider = e.provider
    /\ \A e, f \in event : e.provider = f.provider /\ e.id = f.id => e = f

\* Late ePay money never buys anything, whether the callback or the scan comes
\* first, and however often the callback is repeated (service.rs:168-201).
EpayDeadline ==
    \A o \in Order :
        attempt[o].provider = "epay" /\ order[o].status = "delivered" =>
            attempt[o].paidAt <= order[o].expires

\* The documentation says that expired + succeeded means money that came after
\* the deadline (README.md:26, service.rs:37).  The code refutes it: a callback
\* reads its paid_at in time, waits for a connection or a lock, and finds the
\* order expired (epay.rs:346, service.rs:50-66,177).
RecordedAfterExpiryIsLate ==
    \A o \in Order :
        /\ attempt[o].provider = "epay"
        /\ attempt[o].state = "succeeded"
        /\ order[o].status = "expired"
        => attempt[o].paidAt >= order[o].expires

\* Nobody takes the customer's reservation away before its deadline.
NeverExpiredEarly ==
    [][\A o \in Order :
          order[o].status = "pending" /\ order'[o].status = "expired" =>
              now >= order[o].expires]_dbvars

\* A settled order and a booked payment never change again, a delivered unit
\* stays delivered, and an attempt the expiration closed is never revived: at
\* most late money is booked on it (the comments at public.rs:699-701 and
\* 775-776).
SettledIsFinal ==
    [][/\ \A o \in Order :
             /\ order[o].status \in {"delivered", "expired"} =>
                   order'[o] = order[o]
             /\ attempt[o].state = "succeeded" => attempt'[o] = attempt[o]
             /\ attempt[o].state = "closed" =>
                   attempt'[o].state \in {"closed", "succeeded"}
       /\ \A p \in Product :
             product[p] = "delivered" => product'[p] = "delivered"]_dbvars

\* What the transactions rely on and keep, and no single property above says:
\* an order's unit is in the status of the order and belongs to its
\* definition, two orders never hold one unit, a unit out of stock has its
\* order, an attempt has a provider as soon as it exists, and an expired
\* order's deadline is past (service.rs:271-407, expiration.rs:364-403).
Holding ==
    \A o \in Order : order[o].product # None =>
        /\ InfoOf[order[o].product] = order[o].info
        /\ \/ /\ order[o].status = "pending"
              /\ product[order[o].product] = "reserved"
           \/ /\ order[o].status = "delivered"
              /\ product[order[o].product] = "delivered"

HeldOnce ==
    \A o, q \in Order :
        order[o].product # None /\ order[o].product = order[q].product => o = q

NoOrphan ==
    \A p \in Product : product[p] \in {"reserved", "delivered"} =>
        \E o \in Order : order[o].product = p

ProviderKnown ==
    \A o \in Order : attempt[o].state # "absent" => attempt[o].provider \in Provider

UnknownIsAbsent ==
    \A o \in Order : attempt[o].state = "absent" => attempt[o].provider = None

ExpiredPast ==
    \A o \in Order : order[o].status = "expired" => order[o].expires <= now

\* The inductive invariant behind the proofs of OrderDbProofs.
IInv ==
    /\ TypeOK
    /\ Holding /\ HeldOnce /\ NoOrphan
    /\ ProviderKnown /\ UnknownIsAbsent
    /\ LifecycleCoherence
    /\ PaymentLedger
    /\ ExpiredPast /\ EpayDeadline

\* Seen from outside, the tables are the sale of Sale.tla.
SaleOf(status) == CASE status = "absent"    -> "none"
                    [] status = "pending"   -> "open"
                    [] status = "delivered" -> "sold"
                    [] status = "expired"   -> "lapsed"

S == INSTANCE Sale WITH
        item <- [o \in Order |-> order[o].product],
        sale <- [o \in Order |-> SaleOf(order[o].status)],
        paid <- [o \in Order |-> attempt[o].state = "succeeded"]

\* The database implements the abstract sale: in particular an order opens on
\* a unit nobody holds, is sold only when paid, and late money buys nothing.
Lifecycle == S!SaleSpec
=============================================================================
