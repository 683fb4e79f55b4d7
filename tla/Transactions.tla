---------------------------- MODULE Transactions ----------------------------
(***************************************************************************)
(* OrderDb's transactions statement by statement, as PostgreSQL runs them  *)
(* at READ COMMITTED: rows are locked by FOR UPDATE and by the writing     *)
(* statements, locks are held to the end, writes are seen at the commit,   *)
(* and a unique key written by a running transaction makes the next writer *)
(* of the same key wait.  The variables of OrderDb are the committed       *)
(* tables; that they change as OrderDb says is the property Atomic.        *)
(*                                                                         *)
(* A step takes one lock and does what the statement does with it; the     *)
(* statements that need no other lock belong to the step before them.      *)
(***************************************************************************)
EXTENDS OrderDb

CONSTANTS
    Session,    \* database sessions, each running one transaction at a time
    Incoming    \* the confirmations that arrive

ASSUME IncomingAssumption == Incoming \subseteq Confirmation

VARIABLES
    txn,    \* the transaction of each session: what it does, its next step
    held    \* the rows and unique keys each session has locked

tvars == <<dbvars, txn, held>>

-----------------------------------------------------------------------------
(* Sessions and locks                                                      *)

Idle == [kind |-> "idle", step |-> "none"]

\* Lockable things: rows by their key, and keys of unique indexes.
InfoLock(i) == <<"info", i>>
UnitLock(p) == <<"product", p>>
OrderLock(o) == <<"order", o>>
AttemptLock(o) == <<"attempt", o>>
ContentLock(p) == <<"content", p>>
EventLock(c) == <<"event", c.provider, c.id>>
TxnLock(c) == <<"txn", c.provider, c.txn>>

Free(s, row) == \A t \in Session \ {s} : row \notin held[t]

At(s, kind, step) == txn[s].kind = kind /\ txn[s].step = step

\* The statement gets its lock and the transaction goes on with "next".
Lock(s, row, next) ==
    /\ Free(s, row)
    /\ held' = [held EXCEPT ![s] = @ \cup {row}]
    /\ txn' = [txn EXCEPT ![s] = next]
    /\ UNCHANGED dbvars

Goto(s, step) == [txn[s] EXCEPT !.step = step]

\* COMMIT or ROLLBACK releases everything.
Done(s) ==
    /\ txn' = [txn EXCEPT ![s] = Idle]
    /\ held' = [held EXCEPT ![s] = {}]

Rollback(s) == Done(s) /\ UNCHANGED dbvars

Begin(s, job) ==
    /\ txn[s] = Idle
    /\ txn' = [txn EXCEPT ![s] = job]
    /\ UNCHANGED <<dbvars, held>>

-----------------------------------------------------------------------------
(* create_order                                                            *)

BeginCheckout(s, o, i, provider) ==
    /\ order[o].status = "absent"
    /\ \A t \in Session : txn[t].kind = "checkout" => txn[t].o # o
    /\ Begin(s, [kind |-> "checkout", step |-> "info", o |-> o, i |-> i,
                 provider |-> provider, p |-> None, price |-> 0, at |-> 0])

\* Mutant: the definition is read without FOR UPDATE.
CheckoutInfoUnlocked(s) ==
    LET i == txn[s].i IN
    /\ At(s, "checkout", "info")
    /\ info[i].state = "active"
    /\ txn' = [txn EXCEPT ![s] = [Goto(s, "unit") EXCEPT !.price = info[i].price]]
    /\ UNCHANGED <<dbvars, held>>

\* The active definition, locked against edits until the order exists.
CheckoutInfo(s) ==
    LET i == txn[s].i IN
    /\ At(s, "checkout", "info")
    /\ \/ /\ info[i].state = "active"
          /\ Lock(s, InfoLock(i), [Goto(s, "unit") EXCEPT !.price = info[i].price])
       \/ info[i].state # "active" /\ Rollback(s)

\* FOR UPDATE SKIP LOCKED never waits: what others have locked is not there.
Takeable(s) == {p \in Product : /\ InfoOf[p] = txn[s].i
                                /\ product[p] = "available"
                                /\ Free(s, UnitLock(p))}

CheckoutUnit(s) ==
    /\ At(s, "checkout", "unit")
    /\ \/ \E p \in Takeable(s) :
             Lock(s, UnitLock(p), [Goto(s, "commit") EXCEPT !.p = p, !.at = now])
       \/ Takeable(s) = {} /\ Rollback(s)

CheckoutCommit(s) ==
    LET t == txn[s] IN
    /\ At(s, "checkout", "commit")
    /\ product' = [product EXCEPT ![t.p] = "reserved"]
    /\ order' = [order EXCEPT ![t.o] =
                    [status |-> "pending", product |-> t.p, info |-> t.i,
                     amount |-> t.price, expires |-> t.at + HoldTime[t.provider]]]
    /\ attempt' = [attempt EXCEPT ![t.o] =
                      [state |-> "created", provider |-> t.provider,
                       amount |-> t.price, txn |-> None, paidAt |-> None]]
    /\ UNCHANGED <<now, info, event>>
    /\ Done(s)

-----------------------------------------------------------------------------
(* publish_payment_attempt_ready and expire_reserved_attempt               *)

Exists(o) == attempt[o].state # "absent"

BeginPublish(s, o) ==
    Exists(o) /\ Begin(s, [kind |-> "publish", step |-> "attempt", o |-> o])

\* Mutant: the order is locked before the attempt.
PublishLocksReversed(o) == <<OrderLock(o), AttemptLock(o)>>

PublishLocks(o) == <<AttemptLock(o), OrderLock(o)>>

PublishAttempt(s) ==
    /\ At(s, "publish", "attempt")
    /\ Lock(s, PublishLocks(txn[s].o)[1], Goto(s, "order"))

PublishOrder(s) ==
    LET o == txn[s].o
        row == PublishLocks(o)[2] IN
    /\ At(s, "publish", "order")
    /\ \/ CanPublish(o, now) /\ Lock(s, row, Goto(s, "commit"))
       \/ ~CanPublish(o, now) /\ Free(s, row) /\ Rollback(s)

PublishCommit(s) ==
    /\ At(s, "publish", "commit")
    /\ attempt' = [attempt EXCEPT ![txn[s].o].state = "ready"]
    /\ UNCHANGED <<now, info, product, order, event>>
    /\ Done(s)

BeginExpire(s, o) ==
    Exists(o) /\ Begin(s, [kind |-> "expire", step |-> "attempt", o |-> o])

ExpireAttempt(s) ==
    LET o == txn[s].o IN
    /\ At(s, "expire", "attempt")
    /\ \/ attempt[o].state # "succeeded" /\ Lock(s, AttemptLock(o), Goto(s, "order"))
       \/ attempt[o].state = "succeeded" /\ Free(s, AttemptLock(o)) /\ Rollback(s)

ExpireOrder(s) ==
    LET o == txn[s].o IN
    /\ At(s, "expire", "order")
    /\ \/ Expirable(o) /\ Lock(s, OrderLock(o), Goto(s, "unit"))
       \/ ~Expirable(o) /\ Free(s, OrderLock(o)) /\ Rollback(s)

\* A filtered UPDATE of the order's unit: rolled back unless it hits its row.
UnitStep(s, o, next) ==
    \/ HoldsReserved(o) /\ Lock(s, UnitLock(order[o].product), next)
    \/ ~HoldsReserved(o) /\ Rollback(s)

ExpireUnit(s) ==
    /\ At(s, "expire", "unit")
    /\ UnitStep(s, txn[s].o, Goto(s, "commit"))

ReleaseUnit(o) ==
    /\ product' = [product EXCEPT ![order[o].product] = "available"]
    /\ order' = [order EXCEPT ![o].status = "expired", ![o].product = None]

ExpireCommit(s) ==
    LET o == txn[s].o IN
    /\ At(s, "expire", "commit")
    /\ ReleaseUnit(o)
    /\ attempt' = [attempt EXCEPT ![o].state = "closed"]
    /\ UNCHANGED <<now, info, event>>
    /\ Done(s)

-----------------------------------------------------------------------------
(* confirm_payment                                                         *)

BeginConfirm(s, c) ==
    /\ Genuine(c)
    /\ Begin(s, [kind |-> "confirm", step |-> "attempt", c |-> c, outcome |-> "none"])

Outcome(s, step, outcome) == [txn[s] EXCEPT !.step = step, !.outcome = outcome]

\* Mutant: the attempt is read without FOR UPDATE.
ConfirmAttemptUnlocked(s) ==
    LET c == txn[s].c IN
    /\ At(s, "confirm", "attempt")
    /\ Acceptable(c)
    /\ attempt[c.trade].state # "succeeded"
    /\ txn' = [txn EXCEPT ![s] = Goto(s, "order")]
    /\ UNCHANGED <<dbvars, held>>

\* The attempt is found and locked, and everything is checked that needs no
\* other lock.  A paid attempt goes on to its event only.
ConfirmAttempt(s) ==
    LET c == txn[s].c
        a == attempt[c.trade] IN
    /\ At(s, "confirm", "attempt")
    /\ \/ /\ Acceptable(c) /\ a.state # "succeeded"
          /\ Lock(s, AttemptLock(c.trade), Goto(s, "order"))
       \/ /\ Acceptable(c) /\ a.state = "succeeded" /\ a.txn = c.txn
          /\ Lock(s, AttemptLock(c.trade), Outcome(s, "event", "repeat"))
       \/ /\ ~Acceptable(c) \/ (a.state = "succeeded" /\ a.txn # c.txn)
          /\ AttemptFound(c) => Free(s, AttemptLock(c.trade))
          /\ Rollback(s)

\* Which branch, by the order's status and the deadline.
ConfirmOrder(s) ==
    LET c == txn[s].c
        row == OrderLock(c.trade)
        status == order[c.trade].status
        agreed == order[c.trade].amount = c.amount IN
    /\ At(s, "confirm", "order")
    /\ \/ /\ agreed /\ status = "pending" /\ Late(c)
          /\ Lock(s, row, Outcome(s, "unit", "release"))
       \/ /\ agreed /\ (status = "expired" \/ (Late(c) /\ status # "pending"))
          /\ Lock(s, row, Outcome(s, "txn", "record"))
       \/ /\ agreed /\ status = "pending" /\ ~Late(c)
          /\ Lock(s, row, Outcome(s, "unit", "apply"))
       \/ /\ ~agreed \/ (status = "delivered" /\ ~Late(c))
          /\ Free(s, row) /\ Rollback(s)

ConfirmUnit(s) ==
    /\ At(s, "confirm", "unit")
    /\ UnitStep(s, txn[s].c.trade, Goto(s, "txn"))

\* mark_attempt_succeeded meets UNIQUE (provider, provider_transaction_id).
ConfirmTxn(s) ==
    LET c == txn[s].c IN
    /\ At(s, "confirm", "txn")
    /\ \/ TxnFree(c) /\ Lock(s, TxnLock(c), Goto(s, "event"))
       \/ ~TxnFree(c) /\ Free(s, TxnLock(c)) /\ Rollback(s)

\* insert_payment_event meets UNIQUE (provider, provider_event_id).
ConfirmEvent(s) ==
    LET c == txn[s].c IN
    /\ At(s, "confirm", "event")
    /\ \/ EventRows(c) = {} /\ Lock(s, EventLock(c), Goto(s, "commit"))
       \/ EventRows(c) # {} /\ Free(s, EventLock(c)) /\ Rollback(s)

ConfirmCommit(s) ==
    LET c == txn[s].c
        o == c.trade
        outcome == txn[s].outcome IN
    /\ At(s, "confirm", "commit")
    /\ \/ outcome = "release" /\ ReleaseUnit(o)
       \/ /\ outcome = "apply"
          /\ product' = [product EXCEPT ![order[o].product] = "delivered"]
          /\ order' = [order EXCEPT ![o].status = "delivered"]
       \/ outcome \in {"repeat", "record"} /\ UNCHANGED <<product, order>>
    /\ attempt' = IF outcome = "repeat" THEN attempt
                  ELSE [attempt EXCEPT ![o].state = "succeeded",
                                       ![o].txn = c.txn, ![o].paidAt = c.paidAt]
    /\ InsertEvent(c)
    /\ UNCHANGED <<now, info>>
    /\ Done(s)

-----------------------------------------------------------------------------
(* The administrator's transactions and single statements                  *)

\* A bulk statement treats the rows of its batch one by one, in an order that
\* depends on the request (INSERT) or on the planner (UPDATE).
Visited(t, done) ==
    LET todo == t.todo \ {t.next} IN
    {[t EXCEPT !.next = p, !.todo = todo, !.done = done,
               !.step = IF todo = {} THEN "commit" ELSE "row"] :
        p \in IF todo = {} THEN {t.next} ELSE todo}

BeginBulk(s, kind, batch, target) ==
    /\ batch # {}
    /\ \E p \in batch :
          Begin(s, [kind |-> kind, step |-> "row", target |-> target,
                    next |-> p, todo |-> batch, done |-> {}])

\* create_product: the definition is read without a lock, then the contents
\* are inserted.
BeginStock(s, i, batch) ==
    /\ info[i].state # "absent"
    /\ \A p \in batch : InfoOf[p] = i
    /\ BeginBulk(s, "stock", batch, "available")

\* A content somebody else is inserting is waited for; one that is there
\* already is skipped (ON CONFLICT DO NOTHING).
StockRow(s) ==
    LET t == txn[s]
        p == t.next IN
    /\ At(s, "stock", "row")
    /\ \/ /\ product[p] = "absent"
          /\ \E next \in Visited(t, t.done \cup {p}) : Lock(s, ContentLock(p), next)
       \/ /\ product[p] # "absent"
          /\ \E next \in Visited(t, t.done) : txn' = [txn EXCEPT ![s] = next]
          /\ UNCHANGED <<dbvars, held>>

\* update_product_status: one UPDATE.  It visits the rows that match when it
\* starts and looks again at each one it waited for, locked by then either way.
BeginStatus(s, batch, target) ==
    BeginBulk(s, "status", {p \in batch : product[p] = SourceStatus(target)}, target)

\* Mutant: a row is not looked at again after the wait.
StatusRowUnchecked(s) ==
    LET t == txn[s] IN
    /\ At(s, "status", "row")
    /\ \E next \in Visited(t, t.done \cup {t.next}) : Lock(s, UnitLock(t.next), next)

StatusRow(s) ==
    LET t == txn[s]
        hit == IF product[t.next] = SourceStatus(t.target) THEN {t.next} ELSE {} IN
    /\ At(s, "status", "row")
    /\ \E next \in Visited(t, t.done \cup hit) : Lock(s, UnitLock(t.next), next)

BulkCommit(s) ==
    /\ txn[s].kind \in {"stock", "status"}
    /\ txn[s].step = "commit"
    /\ product' = [p \in Product |->
                      IF p \in txn[s].done THEN txn[s].target ELSE product[p]]
    /\ UNCHANGED <<now, info, order, attempt, event>>
    /\ Done(s)

\* Statements that are a transaction of their own and write one row: they wait
\* for its lock and hold it for no time.
Unlocked(row) == \A s \in Session : row \notin held[s]

SingleStatement ==
    /\ \/ \E i \in Info, price \in Price, active \in BOOLEAN :
             CreateProductInfo(i, price, active)
       \/ \E i \in Info, price \in Price :
             Unlocked(InfoLock(i)) /\ UpdateProductInfo(i, price)
       \/ \E i \in Info, active \in BOOLEAN :
             Unlocked(InfoLock(i)) /\ UpdateProductInfoActive(i, active)
       \/ \E o \in Order : Unlocked(AttemptLock(o)) /\ MarkFailed(o)
    /\ UNCHANGED <<txn, held>>

-----------------------------------------------------------------------------

\* The request is dropped, the connection lost, or the transaction is the
\* victim PostgreSQL chose to break a deadlock.
Abort(s) == txn[s] # Idle /\ Rollback(s)

Start(s) ==
    \/ \E o \in Order, i \in Info, provider \in Provider :
          BeginCheckout(s, o, i, provider)
    \/ \E o \in Order : BeginPublish(s, o) \/ BeginExpire(s, o)
    \/ \E c \in Incoming : BeginConfirm(s, c)
    \/ \E i \in Info, batch \in SUBSET Product : BeginStock(s, i, batch)
    \/ \E batch \in SUBSET Product, target \in {"available", "disabled"} :
          BeginStatus(s, batch, target)

Statement(s) ==
    \/ CheckoutInfo(s) \/ CheckoutUnit(s) \/ CheckoutCommit(s)
    \/ PublishAttempt(s) \/ PublishOrder(s) \/ PublishCommit(s)
    \/ ExpireAttempt(s) \/ ExpireOrder(s) \/ ExpireUnit(s) \/ ExpireCommit(s)
    \/ ConfirmAttempt(s) \/ ConfirmOrder(s) \/ ConfirmUnit(s)
    \/ ConfirmTxn(s) \/ ConfirmEvent(s) \/ ConfirmCommit(s)
    \/ StockRow(s) \/ StatusRow(s) \/ BulkCommit(s)

TransactionsInit ==
    /\ Init
    /\ txn = [s \in Session |-> Idle]
    /\ held = [s \in Session |-> {}]

TransactionsNext ==
    \/ Tick /\ UNCHANGED <<txn, held>>
    \/ SingleStatement
    \/ \E s \in Session : Start(s) \/ Statement(s) \/ Abort(s)

TransactionsSpec == TransactionsInit /\ [][TransactionsNext]_tvars

-----------------------------------------------------------------------------
(* Properties                                                              *)

\* The lock the next statement of a session asks for; SKIP LOCKED asks for none.
Wants(s) ==
    LET t == txn[s] IN
    CASE t.kind = "checkout" /\ t.step = "info" -> {InfoLock(t.i)}
      [] t.kind = "publish" /\ t.step = "attempt" -> {PublishLocks(t.o)[1]}
      [] t.kind = "publish" /\ t.step = "order" -> {PublishLocks(t.o)[2]}
      [] t.kind = "expire" /\ t.step = "attempt" -> {AttemptLock(t.o)}
      [] t.kind = "expire" /\ t.step = "order" -> {OrderLock(t.o)}
      [] t.kind = "expire" /\ t.step = "unit" -> {UnitLock(order[t.o].product)}
      [] t.kind = "confirm" /\ t.step = "attempt" -> {AttemptLock(t.c.trade)}
      [] t.kind = "confirm" /\ t.step = "order" -> {OrderLock(t.c.trade)}
      [] t.kind = "confirm" /\ t.step = "unit" -> {UnitLock(order[t.c.trade].product)}
      [] t.kind = "confirm" /\ t.step = "txn" -> {TxnLock(t.c)}
      [] t.kind = "confirm" /\ t.step = "event" -> {EventLock(t.c)}
      [] t.kind = "stock" /\ t.step = "row" -> {ContentLock(t.next)}
      [] t.kind = "status" /\ t.step = "row" -> {UnitLock(t.next)}
      [] OTHER -> {}

Blocks(t, s) == t # s /\ Wants(s) \cap held[t] # {}

\* Everybody in the set waits for somebody in it.
Deadlocked(set) == set # {} /\ \A s \in set : \E t \in set : Blocks(t, s)

Lockable ==
    {InfoLock(i) : i \in Info} \cup {UnitLock(p) : p \in Product}
    \cup {OrderLock(o) : o \in Order} \cup {AttemptLock(o) : o \in Order}
    \cup {ContentLock(p) : p \in Product}
    \cup {EventLock(c) : c \in Incoming} \cup {TxnLock(c) : c \in Incoming}

\* Nothing is locked twice, and only a running transaction holds locks.
LocksOK ==
    /\ \A s \in Session : txn[s] = Idle => held[s] = {}
    /\ \A s, t \in Session : s # t => held[s] \cap held[t] = {}

\* What a session may be doing.
CheckoutTxn == [kind : {"checkout"}, step : {"info", "unit", "commit"},
                o : Order, i : Info, provider : Provider,
                p : Product \cup {None}, price : Nat, at : Nat]

AttemptTxn == [kind : {"publish"}, step : {"attempt", "order", "commit"}, o : Order]
              \cup [kind : {"expire"}, step : {"attempt", "order", "unit", "commit"},
                    o : Order]

PaymentTxn == [kind : {"confirm"}, c : Incoming,
               step : {"attempt", "order", "unit", "txn", "event", "commit"},
               outcome : {"none", "release", "record", "apply", "repeat"}]

BulkTxn == [kind : {"stock", "status"}, step : {"row", "commit"},
            target : {"available", "disabled"}, next : Product,
            todo : SUBSET Product, done : SUBSET Product]

\* The variables keep their types.
TransactionsTypeOK ==
    /\ txn \in [Session -> {Idle} \cup CheckoutTxn \cup AttemptTxn \cup PaymentTxn
                             \cup BulkTxn]
    /\ held \in [Session -> SUBSET Lockable]

Holds(s, rows) == rows \subseteq held[s]

CheckoutHolds(s) ==
    LET t == txn[s] IN
    /\ order[t.o].status = "absent"
    /\ t.step # "info" =>
          /\ Holds(s, {InfoLock(t.i)})
          /\ info[t.i] = [state |-> "active", price |-> t.price]
    /\ t.step = "commit" =>
          /\ Holds(s, {UnitLock(t.p)})
          /\ t.p \in Product /\ InfoOf[t.p] = t.i
          /\ product[t.p] = "available" /\ t.at <= now

PublishHolds(s) ==
    LET o == txn[s].o IN
    /\ Exists(o)
    /\ txn[s].step = "order" => Holds(s, {AttemptLock(o)})
    /\ txn[s].step = "commit" =>
          /\ Holds(s, {AttemptLock(o), OrderLock(o)})
          /\ \E at \in 0 .. now : CanPublish(o, at)

ExpireHolds(s) ==
    LET o == txn[s].o IN
    /\ Exists(o)
    /\ txn[s].step # "attempt" =>
          Holds(s, {AttemptLock(o)}) /\ attempt[o].state # "succeeded"
    /\ txn[s].step \in {"unit", "commit"} => Holds(s, {OrderLock(o)}) /\ Expirable(o)
    /\ txn[s].step = "commit" =>
          Holds(s, {UnitLock(order[o].product)}) /\ HoldsReserved(o)

\* The keys a confirmation has written, and that nobody else has by then.
KeysHold(s) ==
    LET c == txn[s].c IN
    /\ txn[s].step = "commit" => Holds(s, {EventLock(c)}) /\ EventRows(c) = {}
    /\ txn[s].step \in {"event", "commit"} /\ txn[s].outcome # "repeat" =>
          Holds(s, {TxnLock(c)}) /\ TxnFree(c)

ConfirmHolds(s) ==
    LET c == txn[s].c
        o == c.trade
        outcome == txn[s].outcome IN
    /\ Genuine(c)
    /\ txn[s].step # "attempt" =>
          /\ Holds(s, {AttemptLock(o)})
          /\ attempt[o].amount = c.amount /\ AttemptFound(c) /\ OrderExpected(c)
          /\ IF outcome = "repeat"
             THEN attempt[o].state = "succeeded" /\ attempt[o].txn = c.txn
             ELSE attempt[o].state # "succeeded"
    /\ outcome = "none" <=> txn[s].step \in {"attempt", "order"}
    /\ outcome \in {"release", "apply", "record"} =>
          Holds(s, {OrderLock(o)}) /\ order[o].amount = c.amount
    /\ outcome \in {"release", "apply"} =>
          order[o].status = "pending" /\ (outcome = "release" <=> Late(c))
    /\ outcome \in {"release", "apply"} /\ txn[s].step # "unit" =>
          Holds(s, {UnitLock(order[o].product)}) /\ HoldsReserved(o)
    /\ outcome = "record" =>
          order[o].status # "pending" /\ (order[o].status = "expired" \/ Late(c))
    /\ KeysHold(s)

\* A bulk statement treats new contents of one definition, or rows that existed
\* when it began.
BulkHolds(s) ==
    LET t == txn[s]
        rows == t.todo \cup t.done \cup {t.next} IN
    /\ \A p \in t.done :
          IF t.kind = "stock" THEN Holds(s, {ContentLock(p)}) /\ product[p] = "absent"
          ELSE Holds(s, {UnitLock(p)}) /\ product[p] = SourceStatus(t.target)
    /\ t.kind = "stock" =>
          /\ t.target = "available"
          /\ \E i \in Info : info[i].state # "absent" /\ \A p \in rows : InfoOf[p] = i
    /\ t.kind = "status" => \A p \in rows : product[p] # "absent"

ReadsOf(s) ==
    /\ txn[s].kind = "checkout" => CheckoutHolds(s)
    /\ txn[s].kind = "publish" => PublishHolds(s)
    /\ txn[s].kind = "expire" => ExpireHolds(s)
    /\ txn[s].kind = "confirm" => ConfirmHolds(s)
    /\ txn[s].kind \in {"stock", "status"} => BulkHolds(s)

\* A lock belongs to one session, and whatever a transaction has read under its
\* locks still holds when it goes on, up to its commit: no statement works on
\* what another session has changed since (public.rs:480-482, 699-701).
ReadsHold == LocksOK /\ \A s \in Session : ReadsOf(s)

\* Two checkouts never make the same order (its id is fresh).
OrdersApart ==
    \A s, t \in Session :
        txn[s].kind = "checkout" /\ txn[t].kind = "checkout" /\ s # t =>
            txn[s].o # txn[t].o

\* Rows are locked once they exist and do not go away.
RowExists(row) ==
    /\ \A i \in Info : row = InfoLock(i) => info[i].state # "absent"
    /\ \A p \in Product : row = UnitLock(p) => product[p] # "absent"
    /\ \A o \in Order : row \in {OrderLock(o), AttemptLock(o)} => Exists(o)

LockedExists(s) == \A row \in held[s] : RowExists(row)

\* The order of the locks: at which steps a transaction may hold which locks.
MayHold(t, name) ==
    \/ name = "info" /\ t.kind = "checkout" /\ t.step \in {"unit", "commit"}
    \/ /\ name = "attempt"
       /\ t.kind \in {"publish", "expire", "confirm"} /\ t.step # "attempt"
    \/ /\ name = "order"
       /\ \/ t.kind = "publish" /\ t.step = "commit"
          \/ t.kind = "expire" /\ t.step \in {"unit", "commit"}
          \/ t.kind = "confirm" /\ t.step \in {"unit", "txn", "event", "commit"}
    \/ /\ name = "product"
       /\ \/ t.kind \in {"checkout", "expire"} /\ t.step = "commit"
          \/ t.kind = "confirm" /\ t.step \in {"txn", "event", "commit"}
          \/ t.kind = "status"
    \/ name = "txn" /\ t.kind = "confirm" /\ t.step \in {"event", "commit"}
    \/ name = "event" /\ t.kind = "confirm" /\ t.step = "commit"
    \/ name = "content" /\ t.kind = "stock"

LocksInOrder(s) == \A row \in held[s] : MayHold(txn[s], row[1])

\* The inductive invariant: what was read still holds, and the locks say who
\* may be at which step (public.rs:480-482, 699-701, expiration.rs:322-323).
TransactionsInv ==
    /\ IInv /\ TransactionsTypeOK
    /\ ReadsHold
    /\ OrdersApart
    /\ \A s \in Session : LockedExists(s) /\ LocksInOrder(s)

\* Whatever the sessions interleave, the committed tables change as if each
\* transaction ran alone at the moment it commits: the locks and the rechecks
\* after a wait are enough for READ COMMITTED (the comments at public.rs:480,
\* 699-701 and expiration.rs:322-323, service.rs:43-45).
Atomic == [][Next]_dbvars

\* Checkout, publication, confirmation and expiration never wait for each other
\* in a circle, nor in one with a bulk edit: all of them lock the attempt, the
\* order, the unit and the payment's keys in this order (public.rs:699,
\* expiration.rs:322-323).  Only two bulk edits can deadlock, when they meet
\* the same rows in different orders.
NoDeadlock ==
    \A set \in SUBSET Session : Deadlocked(set) =>
        \E kind \in {"stock", "status"} :
            Deadlocked({s \in set : txn[s].kind = kind})
=============================================================================
