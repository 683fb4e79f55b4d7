------------------------------ MODULE Checkout ------------------------------
(***************************************************************************)
(* OrderDb's transactions together with the processes that call them: the  *)
(* create_order handler, which prepares the payment outside the order      *)
(* transaction; the two payment providers and their notifications; the two *)
(* expiration workers, which act on batches read earlier and ask WeChat    *)
(* before they release anything; and the Telegram notification after the   *)
(* commit.  Requests may be dropped at any await, the process may restart, *)
(* and every answer of a provider may be lost.                             *)
(*                                                                         *)
(* The catalogue is stocked and the administrator idle; OrderDb interleaves*)
(* the administrator's transactions with these.                            *)
(***************************************************************************)
EXTENDS OrderDb

CONSTANTS
    TxnOf,      \* the transaction number the provider gives an order's payment
    NotifyId,   \* event id of the notification of that payment
    QueryId,    \* event id of the worker's own query, "expiration-query:<txn>"
    MaxCrash,   \* bound on restarts of the backend
    MaxLag      \* bound on the time between reading the clock and committing

ASSUME IdAssumption ==
    /\ TxnOf \in [Order -> Txn]
    /\ NotifyId \in [Order -> Event]
    /\ QueryId \in [Order -> Event]
ASSUME CrashAssumption == MaxCrash \in Nat
ASSUME LagAssumption == MaxLag \in Nat

VARIABLES
    pc,       \* where the create_order request of each order stands
    entry,    \* entry[o]: the customer was given the redirect or the QR code
    remote,   \* the provider's order: state and time of payment
    work,     \* what the expiration worker is doing with each order
    owed,     \* orders whose notification task is committed and not spawned
    told,     \* payment notifications spawned per order
    crashes

pvars == <<pc, entry, remote, work, owed, told, crashes>>
vars == <<dbvars, pvars>>

-----------------------------------------------------------------------------

\* The stations of a create_order request.
Requests == {"idle", "publish", "prepay", "prepaid", "publishing",
             "prepayfailed", "unavailable", "done"}

\* "sent": the prepay request is on its way and WeChat has not seen it.  ePay
\* learns of an order only when the customer pays it.  "refunded" is WeChat's
\* REFUND: the owner gave the money back on WeChat's own site.
RemoteStates == {"none", "sent", "notpay", "paid", "closed", "refunded"}

\* The next thing the worker does with an order of its batch.
Jobs == {"idle", "query", "close", "apply", "expire"}

\* Types, and what belongs to which provider: only WeChat's orders exist
\* remotely before they are paid, and only they are queried and closed
\* (expiration.rs:42-53, public.rs:578-682).
CheckoutTypeOK ==
    /\ TypeOK
    /\ pc \in [Order -> Requests]
    /\ entry \in [Order -> BOOLEAN]
    /\ remote \in [Order -> [state : RemoteStates, at : Nat]]
    /\ work \in [Order -> Jobs]
    /\ owed \in SUBSET Order
    /\ told \in [Order -> Nat]
    /\ crashes \in 0 .. MaxCrash
    /\ \A o \in Order : attempt[o].provider = "epay" =>
          /\ remote[o].state \in {"none", "paid"}
          /\ work[o] \in {"idle", "expire"}

CheckoutInit ==
    /\ now = 0
    /\ info \in [Info -> [state : {"active"}, price : Price]]
    /\ product = [p \in Product |-> "available"]
    /\ order = [o \in Order |-> AbsentOrder]
    /\ attempt = [o \in Order |-> AbsentAttempt]
    /\ event = {}
    /\ pc = [o \in Order |-> "idle"]
    /\ entry = [o \in Order |-> FALSE]
    /\ remote = [o \in Order |-> [state |-> "none", at |-> 0]]
    /\ work = [o \in Order |-> "idle"]
    /\ owed = {}
    /\ told = [o \in Order |-> 0]
    /\ crashes = 0

ByWechat(o) == attempt[o].provider = "wechatpay"

\* The publishing transaction holds FOR UPDATE locks on its attempt and its
\* order, which every other transaction about that order must have first.
Locked(o) == pc[o] = "publishing"

\* WeChat's order moves to another state; the time of payment stays.
RemoteBecomes(o, state) == remote' = [remote EXCEPT ![o].state = state]

-----------------------------------------------------------------------------
(* The create_order handler                                                *)

\* Up to the commit of the order transaction, which may be long after it read
\* the clock.  An order is placed only if its deadline lies within the bounded
\* clock.
PlaceOrder(o, p, provider) ==
    /\ pc[o] = "idle"
    /\ \E at \in 0 .. now : /\ now - at <= MaxLag
                            /\ at + HoldTime[provider] <= MaxTime
                            /\ CreateOrder(o, p, provider, at)
    /\ pc' = [pc EXCEPT ![o] = IF provider = "epay" THEN "publish" ELSE "prepay"]
    /\ remote' = IF provider = "epay"
                 THEN remote ELSE [remote EXCEPT ![o].state = "sent"]
    /\ UNCHANGED <<entry, work, owed, told, crashes>>

\* The answer to native_prepay arrives.
PrepayAnswered(o) ==
    /\ pc[o] = "prepay"
    /\ remote[o].state \in {"notpay", "closed"}
    /\ pc' = [pc EXCEPT ![o] = "prepaid"]
    /\ UNCHANGED <<dbvars, entry, remote, work, owed, told, crashes>>

\* It does not, or cannot be trusted; WeChat may have registered the order or
\* may still do so.
PrepayFails(o) ==
    /\ pc[o] = "prepay"
    /\ pc' = [pc EXCEPT ![o] = "prepayfailed"]
    /\ UNCHANGED <<dbvars, entry, remote, work, owed, told, crashes>>

\* Mutant: the recheck forgets the deadline, which the scan may have met.
RecheckStatesOnly(o) ==
    /\ pc[o] \in {"publish", "prepaid"}
    /\ attempt[o].state = "created"
    /\ order[o].status = "pending"
    /\ pc' = [pc EXCEPT ![o] = "publishing"]
    /\ UNCHANGED <<dbvars, entry, remote, work, owed, told, crashes>>

\* publish_payment_attempt_ready, the second transaction of the handler, in two
\* steps: under its locks it compares the rows with the clock ...
Recheck(o) ==
    /\ pc[o] \in {"publish", "prepaid"}
    /\ CanPublish(o, now)
    /\ pc' = [pc EXCEPT ![o] = "publishing"]
    /\ UNCHANGED <<dbvars, entry, remote, work, owed, told, crashes>>

\* ... and updates and commits, however late.
Publish(o) ==
    /\ Locked(o)
    /\ \E at \in 0 .. now : PublishReady(o, at)
    /\ pc' = [pc EXCEPT ![o] = "done"]
    /\ entry' = [entry EXCEPT ![o] = TRUE]
    /\ UNCHANGED <<remote, work, owed, told, crashes>>

PaymentDone(o) ==
    attempt[o].state = "succeeded" \/ order[o].status = "delivered"

\* The same transaction when it answers AlreadyDelivered or Unavailable: no
\* entry for the customer, and WeChat's order is to be closed if it is open.
PublishRefused(o) ==
    /\ pc[o] \in {"publish", "prepaid"}
    /\ ~CanPublish(o, now)
    /\ pc' = [pc EXCEPT ![o] = IF ByWechat(o) /\ ~PaymentDone(o)
                               THEN "unavailable" ELSE "done"]
    /\ UNCHANGED <<dbvars, entry, remote, work, owed, told, crashes>>

\* An order that is not payable any more is closed at once; whether the call
\* succeeds or not, the handler answers.
CloseUnpublished(o) ==
    /\ pc[o] = "unavailable"
    /\ pc' = [pc EXCEPT ![o] = "done"]
    /\ \/ remote[o].state = "notpay" /\ RemoteBecomes(o, "closed")
       \/ UNCHANGED remote
    /\ UNCHANGED <<dbvars, entry, work, owed, told, crashes>>

RecordPrepayFailure(o) ==
    /\ pc[o] = "prepayfailed"
    /\ pc' = [pc EXCEPT ![o] = "done"]
    /\ IF attempt[o].state = "created" THEN MarkFailed(o) ELSE UNCHANGED dbvars
    /\ UNCHANGED <<entry, remote, work, owed, told, crashes>>

\* axum drops the handler when the client disconnects, and "?" leaves it when
\* no connection comes free or a transaction fails: what was committed stays,
\* an open transaction is rolled back, the rest never runs.
RequestDropped(o) ==
    /\ pc[o] \notin {"idle", "done"}
    /\ pc' = [pc EXCEPT ![o] = "done"]
    /\ UNCHANGED <<dbvars, entry, remote, work, owed, told, crashes>>

-----------------------------------------------------------------------------
(* The providers and the customer                                          *)

\* The prepay request reaches WeChat, however late.
RemoteRegisters(o) ==
    /\ remote[o].state = "sent"
    /\ RemoteBecomes(o, "notpay")
    /\ UNCHANGED <<dbvars, pc, entry, work, owed, told, crashes>>

\* The customer pays through the entry shown.  Neither provider is assumed to
\* know the deadline: ePay has none, and WeChat's time_expire runs on
\* WeChat's clock.
CustomerPays(o) ==
    /\ entry[o]
    /\ remote[o].state = IF ByWechat(o) THEN "notpay" ELSE "none"
    /\ remote' = [remote EXCEPT ![o] = [state |-> "paid", at |-> now]]
    /\ UNCHANGED <<dbvars, pc, entry, work, owed, told, crashes>>

\* The owner refunds on WeChat's site a payment the shop has not booked: the
\* shop has no such operation and is not told.  (After the delivery a refund
\* changes nothing here.)
OwnerRefunds(o) ==
    /\ ByWechat(o)
    /\ order[o].status = "pending"
    /\ remote[o].state = "paid"
    /\ RemoteBecomes(o, "refunded")
    /\ UNCHANGED <<dbvars, pc, entry, work, owed, told, crashes>>

\* What a handler passes to confirm_payment about order o's payment.
PaymentOf(o, id, paidAt) ==
    [provider |-> attempt[o].provider, id |-> id, trade |-> o,
     txn |-> TxnOf[o], expected |-> o, amount |-> attempt[o].amount,
     paidAt |-> paidAt]

\* WeChat signs the time of payment.  ePay's is the handler's own clock, read
\* before it waits for a connection and the row locks.
PaidAt(o) == IF ByWechat(o) THEN {remote[o].at} ELSE remote[o].at .. now

\* Mutant: money for an order that is no longer pending is turned away.
ConfirmWhilePending(c) ==
    /\ order[c.trade].status = "pending"
    /\ RecordAfterExpiry(c) \/ ApplyPayment(c)
    /\ owed' = owed \cup {c.trade}

\* Mutant: a repeated payment notifies once more.
ConfirmAndOweAlways(c) ==
    /\ ConfirmPayment(c)
    /\ owed' = owed \cup {c.trade}

\* confirm_payment and, once it is committed, the notification it owes.
ConfirmAndOwe(c) ==
    \/ RepeatPayment(c) /\ UNCHANGED owed
    \/ (RecordAfterExpiry(c) \/ ApplyPayment(c)) /\ owed' = owed \cup {c.trade}

\* A notification of the payment is processed.  Providers repeat it until the
\* handler answers success, so it may come late, again, or (with the worker's
\* query in between) out of order; a repetition finds the event and changes
\* nothing.
Notified(o) ==
    /\ ~Locked(o)
    /\ remote[o].state \in {"paid", "refunded"}
    /\ \E t \in PaidAt(o) : ConfirmAndOwe(PaymentOf(o, NotifyId[o], t))
    /\ UNCHANGED <<pc, entry, remote, work, told, crashes>>

\* spawn_notification; the task sends once.
SpawnNotification(o) ==
    /\ o \in owed
    /\ owed' = owed \ {o}
    /\ told' = [told EXCEPT ![o] = @ + 1]
    /\ UNCHANGED <<dbvars, pc, entry, remote, work, crashes>>

-----------------------------------------------------------------------------
(* The expiration workers                                                  *)

Candidates(provider, states) ==
    {o \in Order : /\ attempt[o].provider = provider
                   /\ attempt[o].state \in states
                   /\ order[o].status = "pending"
                   /\ order[o].expires <= now}

\* Each worker starts a batch when the one before it is finished.
BatchDone(provider) ==
    \A o \in Order : attempt[o].provider = provider => work[o] = "idle"

Scan(provider, states, job) ==
    LET batch == Candidates(provider, states) IN
    /\ BatchDone(provider)
    /\ batch # {}
    /\ work' = [o \in Order |-> IF o \in batch THEN job ELSE work[o]]
    /\ UNCHANGED <<dbvars, pc, entry, remote, owed, told, crashes>>

EpayScan == Scan("epay", {"created", "ready"}, "expire")

\* Mutant: a failed preparation is nobody's business any more.
WechatScanSkipsFailed == Scan("wechatpay", {"created", "ready"}, "query")

WechatScan == Scan("wechatpay", {"created", "ready", "failed"}, "query")

NextJob(o, job) ==
    /\ work' = [work EXCEPT ![o] = job]
    /\ UNCHANGED <<pc, entry, told, crashes>>

\* Mutant: the unpaid order is released on the answer of the query alone.
AfterQueryNoClose(state) == CASE state \in {"none", "sent"} -> "expire"
                              [] state = "closed" -> "expire"
                              [] state = "paid"   -> "apply"
                              [] state \in {"notpay", "refunded"} -> "expire"

\* Mutant: SUCCESS is not told from the other states.
AfterQueryBlind(state) == CASE state \in {"none", "sent"} -> "expire"
                            [] state = "closed" -> "expire"
                            [] state \in {"paid", "notpay", "refunded"} -> "close"

\* ORDER_NOT_EXIST and CLOSED release, SUCCESS is booked, anything else
\* (NOTPAY, and REFUND too) must first be closed.
AfterQuery(state) == CASE state \in {"none", "sent"} -> "expire"
                       [] state = "closed" -> "expire"
                       [] state = "paid"   -> "apply"
                       [] state \in {"notpay", "refunded"} -> "close"

QueryAnswered(o) ==
    /\ work[o] = "query"
    /\ NextJob(o, AfterQuery(remote[o].state))
    /\ UNCHANGED <<dbvars, remote, owed>>

\* WeChat closes an order nobody paid, and refuses to close a paid or refunded
\* one.
CloseSucceeds(o) ==
    /\ work[o] = "close"
    /\ remote[o].state \in {"notpay", "closed"}
    /\ RemoteBecomes(o, "closed")
    /\ NextJob(o, "expire")
    /\ UNCHANGED <<dbvars, owed>>

\* Mutant: the answer to the close is not looked at.
RemoteCallFailsUnnoticed(o) ==
    /\ work[o] \in {"query", "close"}
    /\ NextJob(o, IF work[o] = "close" THEN "expire" ELSE "idle")
    /\ UNCHANGED <<dbvars, remote, owed>>

\* No usable answer to a query or a close; the close may have taken effect.
\* The attempt goes to the end of the queue and waits for a later batch.
RemoteCallFails(o) ==
    /\ work[o] \in {"query", "close"}
    /\ NextJob(o, "idle")
    /\ \/ UNCHANGED remote
       \/ work[o] = "close" /\ remote[o].state = "notpay"
          /\ RemoteBecomes(o, "closed")
    /\ UNCHANGED <<dbvars, owed>>

\* The worker books the payment it found, unless its event is booked already.
ApplySuccess(o) ==
    LET c == PaymentOf(o, QueryId[o], remote[o].at) IN
    /\ work[o] = "apply"
    /\ ~Locked(o)
    /\ \/ ConfirmAndOwe(c)
       \/ EventRows(c) # {} /\ UNCHANGED <<dbvars, owed>>
    /\ NextJob(o, "idle")
    /\ UNCHANGED remote

\* Mutant: the worker trusts the batch it read and expires without a recheck.
ExpireStale(o) ==
    /\ work[o] = "expire"
    /\ product' = [p \in Product |->
                      IF p = order[o].product THEN "available" ELSE product[p]]
    /\ order' = [order EXCEPT ![o].status = "expired", ![o].product = None]
    /\ attempt' = [attempt EXCEPT ![o].state = "closed"]
    /\ NextJob(o, "idle")
    /\ UNCHANGED <<now, info, event, remote, owed>>

\* expire_reserved_attempt: under the locks the candidate is examined again,
\* and left alone if the order is no longer pending.
Expire(o) ==
    /\ work[o] = "expire"
    /\ ~Locked(o)
    /\ \/ ExpireReserved(o)
       \/ ~Expirable(o) /\ UNCHANGED dbvars
    /\ NextJob(o, "idle")
    /\ UNCHANGED <<remote, owed>>

\* The worker's transaction gets no connection or is rolled back: logged, and
\* the order waits for a later batch.
TransactionFails(o) ==
    /\ work[o] \in {"apply", "expire"}
    /\ NextJob(o, "idle")
    /\ UNCHANGED <<dbvars, remote, owed>>

-----------------------------------------------------------------------------

\* The backend stops and starts again: requests, batches and notification
\* tasks are gone, the database and the providers are not.
Restart ==
    /\ crashes < MaxCrash
    /\ crashes' = crashes + 1
    /\ pc' = [o \in Order |-> IF pc[o] = "idle" THEN "idle" ELSE "done"]
    /\ work' = [o \in Order |-> "idle"]
    /\ owed' = {}
    /\ UNCHANGED <<dbvars, entry, remote, told>>

Clock == Tick /\ UNCHANGED pvars

Handler(o) ==
    \/ \E p \in Product, provider \in Provider : PlaceOrder(o, p, provider)
    \/ PrepayAnswered(o)
    \/ PrepayFails(o)
    \/ Recheck(o)
    \/ Publish(o)
    \/ PublishRefused(o)
    \/ CloseUnpublished(o)
    \/ RecordPrepayFailure(o)
    \/ RequestDropped(o)

Outside(o) == RemoteRegisters(o) \/ CustomerPays(o) \/ OwnerRefunds(o)

Worker(o) ==
    \/ QueryAnswered(o)
    \/ CloseSucceeds(o)
    \/ RemoteCallFails(o)
    \/ ApplySuccess(o)
    \/ Expire(o)
    \/ TransactionFails(o)

CheckoutNext ==
    \/ Clock
    \/ Restart
    \/ EpayScan
    \/ WechatScan
    \/ \E o \in Order :
          Handler(o) \/ Outside(o) \/ Worker(o) \/ Notified(o)
          \/ SpawnNotification(o)

CheckoutSpec == CheckoutInit /\ [][CheckoutNext]_vars

\* Time passes; the interval timers fire and their batches are worked off;
\* ePay repeats its notification until the handler says success; and WeChat,
\* asked again and again, and the database, tried again and again, answer
\* some time.  A transaction that holds locks ends.  Nothing else is assumed of
\* the handlers, and nothing of the customer or of WeChat's notifications.
Fairness ==
    /\ WF_vars(Clock)
    /\ WF_vars(EpayScan)
    /\ WF_vars(WechatScan)
    /\ \A o \in Order :
          /\ WF_vars(Worker(o))
          /\ SF_vars(QueryAnswered(o))
          /\ SF_vars(CloseSucceeds(o))
          /\ SF_vars(ApplySuccess(o) \/ Expire(o))
          /\ WF_vars(~ByWechat(o) /\ Notified(o))
          /\ WF_vars(Locked(o) /\ (Publish(o) \/ RequestDropped(o)))

FairCheckoutSpec == CheckoutSpec /\ Fairness

-----------------------------------------------------------------------------
(* Properties                                                              *)

\* Money a customer paid to WeChat is never met by an expired order, not even
\* after a refund: the worker releases a unit only when WeChat can no longer
\* take the payment, whatever the order of query, payment, close, late prepay
\* and restart (expiration.rs:24-28 and 167-227, public.rs:647-663).
WechatPaidNeverExpired ==
    \A o \in Order :
        ByWechat(o) /\ remote[o].state \in {"paid", "refunded"} =>
            order[o].status # "expired"

\* The handler's recheck: as long as an entry is in the customer's hands and
\* WeChat's order is open, the unit is still reserved for that customer or
\* already delivered; a request that lost the race against the worker shows
\* nothing payable (public.rs:699-773).
OpenEntryIsBacked ==
    \A o \in Order :
        entry[o] /\ ByWechat(o) /\ remote[o].state = "notpay" =>
            order[o].status = "pending" /\ HoldsReserved(o)

\* The shop owner hears of a payment at most once, and never of one that is
\* not booked (service.rs:249-259, notifications/mod.rs:99-118).
NotifiedAtMostOnce ==
    \A o \in Order :
        LET all == told[o] + (IF o \in owed THEN 1 ELSE 0) IN
        /\ all <= 1
        /\ all = 1 => attempt[o].state = "succeeded"

\* What the handler and the worker know of one order when they act, from which
\* the three properties above follow.  The deadline orders them: an entry is
\* approved before it only, the worker has business with the order after it
\* only; so once the worker is about to release, WeChat's order is closed or
\* nobody can pay it, even while an approved entry waits for its commit
\* (public.rs:578-773, expiration.rs:167-227).
Agreed(o) ==
    /\ pc[o] = "publish" => ~ByWechat(o)
    /\ pc[o] \in {"prepay", "prepaid", "prepayfailed", "unavailable"} => ByWechat(o)
    /\ pc[o] = "prepaid" => remote[o].state \notin {"none", "sent"}
    /\ Locked(o) => /\ order[o].status = "pending"
                    /\ ByWechat(o) => remote[o].state \notin {"none", "sent"}
    /\ attempt[o].state = "absent" =>
          pc[o] = "idle" /\ ~entry[o] /\ remote[o].state = "none" /\ work[o] = "idle"
    /\ attempt[o].state # "absent" => attempt[o].amount \in Price
    /\ remote[o].at <= now
    /\ remote[o].state \in {"paid", "refunded"} => entry[o]
    /\ ByWechat(o) /\ entry[o] => remote[o].state \notin {"none", "sent"}
    /\ work[o] # "idle" => order[o].expires <= now
    /\ work[o] = "apply" => remote[o].state \in {"paid", "refunded"}
    /\ ByWechat(o) /\ work[o] = "expire" =>
          remote[o].state = "closed" \/ (~entry[o] /\ ~Locked(o))

\* The inductive invariant behind the proofs of CheckoutProofs.
CheckoutInv ==
    /\ CheckoutTypeOK
    /\ IInv
    /\ \A i \in Info : info[i].price \in Price
    /\ \A o \in Order : Agreed(o)
    /\ WechatPaidNeverExpired
    /\ OpenEntryIsBacked
    /\ NotifiedAtMostOnce

\* Whatever batches, retries and dropped requests do, the tables change only
\* by the transactions of OrderDb: what is proved of those holds here
\* (in particular expire_reserved_attempt never acts on a stale candidate,
\* expiration.rs:324-414).
OnlyTransactions == [][Next]_dbvars

\* No unit stays reserved for ever: every pending order is delivered or
\* expires, also when its request died half way or its preparation failed.
\* The exception is real: an order refunded on WeChat's site before the shop
\* booked its payment can be neither closed nor delivered
\* (expiration.rs:167-227), and nothing else ends it.
ReservationEnds ==
    \A o \in Order : order[o].status = "pending"
                        ~> (order[o].status # "pending"
                            \/ remote[o].state = "refunded")

\* Money paid to WeChat ends in a delivery even if every notification is
\* lost, unless the owner gives it back first.
WechatPaidIsDelivered ==
    \A o \in Order : (ByWechat(o) /\ remote[o].state = "paid")
                        ~> (order[o].status = "delivered"
                            \/ remote[o].state = "refunded")

\* Money paid to ePay is booked some time, delivered or not.
EpayPaidIsBooked ==
    \A o \in Order : (~ByWechat(o) /\ remote[o].state = "paid")
                        ~> (attempt[o].state = "succeeded")
=============================================================================
