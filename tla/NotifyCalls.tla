----------------------------- MODULE NotifyCalls -----------------------------
(***************************************************************************)
(* The notification handlers of both providers (http/routes/epay.rs and    *)
(* http/routes/wechatpay.rs), step by step, on the tables of OrderDb: check*)
(* the message, read its amount, confirm the payment, write the log row,   *)
(* answer.  A call may be dropped between any two steps, the answer may be *)
(* lost, and a provider repeats a message it has no success for, so that   *)
(* several calls may work on the same message.                             *)
(*                                                                         *)
(* The shop has stock on sale; publication and expiration interleave, the  *)
(* rest of the system is idle.                                             *)
(***************************************************************************)
EXTENDS OrderDb, Money

CONSTANTS Call,      \* slots for concurrent calls of the handlers
          TxnOf,     \* the transaction number of an order's payment
          EventOf,   \* ePay: "notify:<trade_no>", WeChat: the notification's id
          Notation   \* the ways in which ePay may write an amount

ASSUME NotifyAssumption ==
    /\ TxnOf \in [Order -> Txn] /\ EventOf \in [Order -> Event]
    /\ Notation \subseteq Text

\* The gateway writes what was paid as a number without signs, and none beyond
\* i64 (92 * 10^15 yuan).  What is read of other texts: NotifyProofs.ReadExactly.
ASSUME NotationAssumption ==
    \A t \in Notation :
        ~t.minus /\ t.mark = "none" /\ t.whole * 100 + 99 <= MaxMoney

VARIABLES shown,   \* orders whose payment entry the customer has
          bill,    \* what was paid for an order: the amount's text and the time
          call,    \* the calls of the handlers
          logged,  \* messages with a log row that says success
          acked    \* messages whose provider has got the success answer

nvars == <<shown, bill, call, logged, acked>>
vars == <<dbvars, nvars>>

-----------------------------------------------------------------------------
NotPaid == [text |-> None, at |-> None]

Paid(o) == bill[o] # NotPaid

\* ePay also reports trades that are not paid yet.
Message == [order : Order, status : {"success", "other"}]

Idle == [at |-> "idle", message |-> None, paidAt |-> None]

ByEpay(o) == attempt[o].provider = "epay"

BillRow == [text : Notation \cup {None}, at : Nat \cup {None}]

CallRow == [at : {"idle", "received", "valid", "accepted", "refused",
                  "succeeding", "failing"},
            message : Message \cup {None}, paidAt : Nat \cup {None}]

Sent(m) ==
    IF m.status = "success" THEN Paid(m.order)
    ELSE m.order \in shown /\ ByEpay(m.order) /\ ~Paid(m.order)

\* The amount a handler reads: ePay's from its text, WeChat's as cents, which
\* the customer cannot change.
AmountOf(o) == IF ByEpay(o) THEN MoneyToCents(bill[o].text) ELSE attempt[o].amount

Readable(o) == ByEpay(o) => Parses(bill[o].text)

\* Mutant: the shop's own amount is confirmed, not the one reported.
ConfirmationOfOwnAmount(o, paidAt, expected) ==
    [provider |-> attempt[o].provider, id |-> EventOf[o], trade |-> o,
     txn |-> TxnOf[o], expected |-> expected, amount |-> attempt[o].amount,
     paidAt |-> paidAt]

\* What the handler passes to confirm_payment.  ePay may or may not echo the
\* order id.
ConfirmationOf(o, paidAt, expected) ==
    [provider |-> attempt[o].provider, id |-> EventOf[o], trade |-> o,
     txn |-> TxnOf[o], expected |-> expected, amount |-> AmountOf(o),
     paidAt |-> paidAt]

Step(k, at) == call' = [call EXCEPT ![k].at = at, ![k].paidAt = None]
KeepDb == UNCHANGED dbvars

-----------------------------------------------------------------------------
NotifyInit ==
    /\ now = 0
    /\ info \in [Info -> [state : {"active"}, price : Price]]
    /\ product = [p \in Product |-> "available"]
    /\ order = [o \in Order |-> AbsentOrder]
    /\ attempt = [o \in Order |-> AbsentAttempt]
    /\ event = {}
    /\ shown = {}
    /\ bill = [o \in Order |-> NotPaid]
    /\ call = [k \in Call |-> Idle]
    /\ logged = {} /\ acked = {}

\* The shop's side: an order, its publication, its expiration.  An order is
\* placed only if its deadline can pass within the bounded clock.  The WeChat
\* worker asks before it expires, and closes (Checkout.tla).
Place(o) ==
    /\ \E p \in Product, provider \in Provider :
          /\ now + HoldTime[provider] < MaxTime
          /\ CreateOrder(o, p, provider, now)
    /\ UNCHANGED nvars

Show(o) ==
    /\ PublishReady(o, now)
    /\ shown' = shown \cup {o}
    /\ UNCHANGED <<bill, call, logged, acked>>

LapseOrder(o) ==
    /\ ExpireReserved(o)
    /\ ByEpay(o) \/ ~Paid(o)
    /\ UNCHANGED nvars

\* The customer pays what the entry says or, with ePay, whatever the gateway
\* took; a WeChat order that was closed cannot be paid.
Pay(o) ==
    /\ o \in shown /\ ~Paid(o)
    /\ ByEpay(o) \/ attempt[o].state # "closed"
    /\ \E t \in Notation :
          /\ ByEpay(o) \/ t = FormatMoney(attempt[o].amount)
          /\ bill' = [bill EXCEPT ![o] = [text |-> t, at |-> now]]
    /\ UNCHANGED <<dbvars, shown, call, logged, acked>>

-----------------------------------------------------------------------------
(* The handlers                                                            *)

\* A message arrives, for the first time or again.
Receive(k, m) ==
    /\ call[k] = Idle
    /\ Sent(m)
    /\ call' = [call EXCEPT ![k] = [at |-> "received", message |-> m, paidAt |-> None]]
    /\ KeepDb /\ UNCHANGED <<shown, bill, logged, acked>>

\* Signature, merchant and (WeChat) time window are right.  A success goes on
\* to be booked, with ePay's paid_at read from the handler's clock; another
\* trade status is accepted as it is.
Validate(k, m) ==
    /\ call[k].at = "received" /\ call[k].message = m
    /\ IF m.status = "success"
       THEN /\ Readable(m.order)
            /\ call' = [call EXCEPT ![k].at = "valid",
                           ![k].paidAt = IF ByEpay(m.order) THEN now ELSE bill[m.order].at]
       ELSE Step(k, "accepted")
    /\ KeepDb /\ UNCHANGED <<shown, bill, logged, acked>>

\* They are not (a key has changed, the message is older than five minutes, the
\* amount cannot be read).
Reject(k) ==
    /\ call[k].at = "received"
    /\ Step(k, "refused")
    /\ KeepDb /\ UNCHANGED <<shown, bill, logged, acked>>

\* Mutant: confirm_payment does not look for the event.
BookFreshOnly(k, m) ==
    /\ call[k].at = "valid" /\ call[k].message = m
    /\ \E e \in {None, m.order} :
          /\ ByEpay(m.order) \/ e # None
          /\ ConfirmPayment(ConfirmationOf(m.order, call[k].paidAt, e))
    /\ Step(k, "accepted")
    /\ UNCHANGED <<shown, bill, logged, acked>>

\* Mutant: a refusal of confirm_payment is answered with success.
BookAnyway(k, m) ==
    /\ call[k].at = "valid" /\ call[k].message = m
    /\ KeepDb
    /\ Step(k, "accepted")
    /\ UNCHANGED <<shown, bill, logged, acked>>

\* confirm_payment commits, or finds the event booked by an earlier call.
Book(k, m) ==
    /\ call[k].at = "valid" /\ call[k].message = m
    /\ \E e \in {None, m.order} :
          LET c == ConfirmationOf(m.order, call[k].paidAt, e) IN
          /\ ByEpay(m.order) \/ e # None
          /\ \/ ConfirmPayment(c)
             \/ (\E row \in EventRows(c) : row.order = m.order) /\ KeepDb
    /\ Step(k, "accepted")
    /\ UNCHANGED <<shown, bill, logged, acked>>

\* It refuses, or has no connection, or rolls back.
BookFails(k) ==
    /\ call[k].at = "valid"
    /\ Step(k, "refused")
    /\ KeepDb /\ UNCHANGED <<shown, bill, logged, acked>>

\* The log row, with the outcome; that it fails changes nothing.
Record(k, m) ==
    /\ call[k].at \in {"accepted", "refused"} /\ call[k].message = m
    /\ \/ logged' = IF call[k].at = "accepted" THEN logged \cup {m} ELSE logged
       \/ UNCHANGED logged
    /\ Step(k, IF call[k].at = "accepted" THEN "succeeding" ELSE "failing")
    /\ KeepDb /\ UNCHANGED <<shown, bill, acked>>

\* The provider gets the answer.
Answer(k, m) ==
    /\ call[k].at \in {"succeeding", "failing"} /\ call[k].message = m
    /\ acked' = IF call[k].at = "succeeding" THEN acked \cup {m} ELSE acked
    /\ call' = [call EXCEPT ![k] = Idle]
    /\ KeepDb /\ UNCHANGED <<shown, bill, logged>>

\* The connection breaks or the server restarts: the handler is dropped where
\* it waits, or its answer is lost.
Dropped(k) ==
    /\ call[k] # Idle
    /\ call' = [call EXCEPT ![k] = Idle]
    /\ KeepDb /\ UNCHANGED <<shown, bill, logged, acked>>

HandlerNext(k, m) ==
    \/ Receive(k, m) \/ Validate(k, m) \/ Book(k, m) \/ Record(k, m) \/ Answer(k, m)

NotifyNext ==
    \/ Tick /\ UNCHANGED nvars
    \/ \E o \in Order : Place(o) \/ Show(o) \/ LapseOrder(o) \/ Pay(o)
    \/ \E k \in Call : Reject(k) \/ BookFails(k) \/ Dropped(k)
    \/ \E k \in Call, m \in Message : HandlerNext(k, m)

NotifySpec == NotifyInit /\ [][NotifyNext]_vars

\* The provider repeats a message until it has the success answer, the things
\* that may fail do not fail every time (strong fairness of each step for a
\* success message, in whichever call), and a call that has nothing to book ends.
Unacked(k, m) == m \notin acked /\ Receive(k, m)

RecordedSuccess(k, m) == Record(k, m) /\ call[k].at = "accepted"
Reported(k, m) == Answer(k, m) /\ call[k].at = "succeeding"
Finishing(k) ==
    \E m \in Message :
        Record(k, m) \/ Answer(k, m) \/ (m.status = "other" /\ Validate(k, m))

NotifyFairness ==
    /\ \A m \in {n \in Message : n.status = "success"} :
          /\ SF_vars(\E k \in Call : Unacked(k, m))
          /\ SF_vars(\E k \in Call : Validate(k, m))
          /\ SF_vars(\E k \in Call : Book(k, m))
          /\ SF_vars(\E k \in Call : RecordedSuccess(k, m))
          /\ SF_vars(\E k \in Call : Reported(k, m))
    /\ \A k \in Call : WF_vars(Finishing(k))

FairNotifySpec == NotifySpec /\ NotifyFairness

-----------------------------------------------------------------------------
(* Properties                                                              *)

\* The variables keep their types.
NotifyTypeOK ==
    /\ shown \subseteq Order
    /\ bill \in [Order -> BillRow]
    /\ call \in [Call -> CallRow]
    /\ logged \subseteq Message /\ acked \subseteq Message

\* A payment the provider need not report again is in the books: success is
\* answered, and logged, only when the attempt is paid with that transaction
\* and its event is there, however the calls for it overlap
\* (epay.rs:159-207, wechatpay.rs:57-61).
Booked(o) ==
    /\ attempt[o].state = "succeeded" /\ attempt[o].txn = TxnOf[o]
    /\ \E row \in event : row.id = EventOf[o] /\ row.order = o

AckedIsBooked ==
    \A m \in acked \cup logged : m.status = "success" => Booked(m.order)

\* No order is paid with another amount than its price, with however many digits
\* the gateway writes it (epay.rs:331, 408-424, service.rs:107-119).
BookedIsFullPayment ==
    \A o \in Order :
        attempt[o].state = "succeeded" => Denotes(bill[o].text, order[o].amount)

\* Why that is so.  What handlers read at one step they use at later ones:
\* a bill does not change once it is paid, a call that may confirm has a
\* message of a paid order with a readable amount and a time that is past, and
\* a call that will answer with success finds its payment in the tables, which
\* never lose it (epay.rs:118-240, wechatpay.rs:37-155).
OwnBookings ==
    /\ \A i \in Info : info[i].price \in Price
    /\ \A o \in Order :
          /\ attempt[o].state # "absent" => attempt[o].amount \in Price
          /\ attempt[o].txn \in {None, TxnOf[o]}
    /\ \A row \in event : row.id = EventOf[row.order]

BillStands(o) ==
    /\ o \in shown /\ bill[o].text \in Notation /\ bill[o].at \in 0 .. now
    /\ ByEpay(o) \/ bill[o].text = FormatMoney(attempt[o].amount)

BillsStand ==
    /\ \A o \in shown : attempt[o].state # "absent"
    /\ \A o \in Order : Paid(o) => BillStands(o)

CallStands(k) ==
    LET m == call[k].message IN
    /\ m \in Message
    /\ m.status = "success" => Paid(m.order)
    /\ call[k].at = "valid" =>
          m.status = "success" /\ Readable(m.order) /\ call[k].paidAt \in 0 .. now
    /\ call[k].at \in {"accepted", "succeeding"} /\ m.status = "success" =>
          Booked(m.order)

CallsStand == \A k \in Call : call[k] = Idle \/ CallStands(k)

\* A booked payment was made.
BookedIsPaid == \A o \in Order : attempt[o].state = "succeeded" => Paid(o)

\* The inductive invariant: success is never answered for a payment that is
\* not in the books, at whatever step its calls are cut off and however the
\* message is repeated (epay.rs:159-207, wechatpay.rs:57-61).
NotifyInv ==
    /\ NotifyTypeOK /\ IInv
    /\ OwnBookings /\ BillsStand /\ CallsStand
    /\ AckedIsBooked /\ BookedIsPaid

FullyPaid(o) ==
    Paid(o) /\ Parses(bill[o].text) /\ Denotes(bill[o].text, order[o].amount)

\* A payment of the price is booked and its message acknowledged in the end,
\* also when the answer to the call that booked it was lost: the repetition
\* finds the event and is accepted (service.rs:80-105).  Only a text with more
\* than two digits after the point is never read.
FullPaymentIsAcked ==
    \A o \in Order : FullyPaid(o) ~> ([order |-> o, status |-> "success"] \in acked)

=============================================================================
