------------------------- MODULE TransactionsProofs -------------------------
(***************************************************************************)
(* Proofs about Transactions, for any number of sessions, units, orders and*)
(* confirmations.  What a session has read stays true because no other     *)
(* session changes what it has locked (Kept): each commit is looked at once*)
(* for what it does to the others and once as a transaction of OrderDb, and*)
(* each statement once for what its own session knows afterwards.          *)
(***************************************************************************)
EXTENDS Transactions, OrderDbProofs

-----------------------------------------------------------------------------
(* Locks and transactions                                                  *)

\* Locks of different things are different.
LEMMA LockParts ==
    /\ \A i \in Info : InfoLock(i)[1] = "info" /\ InfoLock(i)[2] = i
    /\ \A p \in Product : /\ UnitLock(p)[1] = "product" /\ UnitLock(p)[2] = p
                          /\ ContentLock(p)[1] = "content" /\ ContentLock(p)[2] = p
    /\ \A o \in Order : /\ OrderLock(o)[1] = "order" /\ OrderLock(o)[2] = o
                        /\ AttemptLock(o)[1] = "attempt" /\ AttemptLock(o)[2] = o
    /\ \A c \in Incoming :
          /\ EventLock(c)[1] = "event" /\ EventLock(c)[2] = c.provider
          /\ EventLock(c)[3] = c.id
          /\ TxnLock(c)[1] = "txn" /\ TxnLock(c)[2] = c.provider
          /\ TxnLock(c)[3] = c.txn
  BY DEF InfoLock, UnitLock, ContentLock, OrderLock, AttemptLock, EventLock, TxnLock

\* What runs is one of the transactions, with its own columns.
LEMMA TxnShape ==
    ASSUME TransactionsTypeOK, NEW s \in Session
    PROVE  /\ txn[s].kind \in {"idle", "checkout", "publish", "expire", "confirm",
                               "stock", "status"}
           /\ txn[s].kind = "idle" <=> txn[s] = Idle
           /\ txn[s].kind = "checkout" => txn[s] \in CheckoutTxn
           /\ txn[s].kind \in {"publish", "expire"} => txn[s] \in AttemptTxn
           /\ txn[s].kind = "confirm" => txn[s] \in PaymentTxn
           /\ txn[s].kind \in {"stock", "status"} => txn[s] \in BulkTxn
           /\ held[s] \subseteq Lockable
<1>1. txn[s] \in {Idle} \cup CheckoutTxn \cup AttemptTxn \cup PaymentTxn \cup BulkTxn
  BY DEF TransactionsTypeOK
<1>2. CASE txn[s] = Idle
  BY <1>2 DEF Idle, TransactionsTypeOK
<1>3. CASE txn[s] \in CheckoutTxn
  BY <1>3 DEF CheckoutTxn, Idle, TransactionsTypeOK
<1>4. CASE txn[s] \in AttemptTxn
  BY <1>4 DEF AttemptTxn, Idle, TransactionsTypeOK
<1>5. CASE txn[s] \in PaymentTxn
  BY <1>5 DEF PaymentTxn, Idle, TransactionsTypeOK
<1>6. CASE txn[s] \in BulkTxn
  BY <1>6 DEF BulkTxn, Idle, TransactionsTypeOK
<1> QED BY <1>1, <1>2, <1>3, <1>4, <1>5, <1>6

\* The step of one session, and no other.
OnlyTxn(s, next) ==
    /\ txn'[s] = next
    /\ \A t \in Session : t # s => txn'[t] = txn[t]

OnlyHeld(s, locks) ==
    /\ held'[s] = locks
    /\ \A t \in Session : t # s => held'[t] = held[t]

LEMMA LockEffect ==
    ASSUME TransactionsTypeOK, NEW s \in Session, NEW row, NEW next, Lock(s, row, next)
    PROVE  /\ OnlyTxn(s, next) /\ OnlyHeld(s, held[s] \cup {row})
           /\ \A t \in Session : t # s => row \notin held[t]
           /\ UNCHANGED dbvars
           /\ txn' = [txn EXCEPT ![s] = next]
           /\ held' = [held EXCEPT ![s] = held[s] \cup {row}]
  BY DEF Lock, Free, OnlyTxn, OnlyHeld, TransactionsTypeOK

LEMMA DoneEffect ==
    ASSUME TransactionsTypeOK, NEW s \in Session, Done(s)
    PROVE  /\ OnlyTxn(s, Idle) /\ OnlyHeld(s, {})
           /\ TransactionsTypeOK'
  BY DEF Done, OnlyTxn, OnlyHeld, TransactionsTypeOK

LEMMA BeginEffect ==
    ASSUME TransactionsTypeOK, NEW s \in Session, NEW next, Begin(s, next)
    PROVE  /\ txn[s] = Idle
           /\ OnlyTxn(s, next) /\ held' = held
           /\ UNCHANGED dbvars
           /\ txn' = [txn EXCEPT ![s] = next]
  BY DEF Begin, OnlyTxn, TransactionsTypeOK

-----------------------------------------------------------------------------
(* What the other sessions leave alone                                     *)

\* Rows do not go away.
Lasting ==
    /\ now <= now'
    /\ \A i \in Info : info[i].state # "absent" => info'[i].state # "absent"
    /\ \A p \in Product : product[p] # "absent" => product'[p] # "absent"
    /\ \A o \in Order : Exists(o) => Exists(o)'

Kept(s) ==
    /\ txn'[s] = txn[s] /\ held'[s] = held[s]
    /\ \A i \in Info : InfoLock(i) \in held[s] => info'[i] = info[i]
    /\ \A p \in Product : UnitLock(p) \in held[s] => product'[p] = product[p]
    /\ \A p \in Product : ContentLock(p) \in held[s] /\ product[p] = "absent" =>
          product'[p] = "absent"
    /\ \A o \in Order : OrderLock(o) \in held[s] => order'[o] = order[o]
    /\ \A o \in Order : AttemptLock(o) \in held[s] => attempt'[o] = attempt[o]
    /\ txn[s].kind = "checkout" => order'[txn[s].o] = order[txn[s].o]
    /\ txn[s].kind = "confirm" =>
          LET c == txn[s].c IN
          /\ EventLock(c) \in held[s] /\ EventRows(c) = {} => EventRows(c)' = {}
          /\ TxnLock(c) \in held[s] /\ TxnFree(c) => TxnFree(c)'

SessionInv(s) ==
    /\ txn[s] = Idle => held[s] = {}
    /\ ReadsOf(s) /\ LockedExists(s) /\ LocksInOrder(s)

\* Lock names.
LEMMA Names ==
    ASSUME TransactionsTypeOK, NEW s \in Session
    PROVE  /\ txn[s].kind = "checkout" =>
                txn[s].o \in Order /\ txn[s].i \in Info /\ txn[s].provider \in Provider
           /\ txn[s].kind \in {"publish", "expire"} => txn[s].o \in Order
           /\ txn[s].kind = "confirm" =>
                /\ txn[s].c \in Incoming /\ txn[s].c \in Confirmation
                /\ txn[s].c.trade \in Order
           /\ txn[s].kind \in {"stock", "status"} =>
                /\ txn[s].todo \subseteq Product /\ txn[s].done \subseteq Product
                /\ txn[s].next \in Product /\ txn[s].target \in {"available", "disabled"}
<1>1. txn[s].kind = "confirm" => txn[s].c \in Incoming
  BY TxnShape DEF PaymentTxn
<1>2. txn[s].kind = "confirm" => txn[s].c \in Confirmation /\ txn[s].c.trade \in Order
  BY <1>1, IncomingAssumption, ConfirmationFields
<1> QED BY <1>1, <1>2, TxnShape DEF CheckoutTxn, AttemptTxn, BulkTxn

\* What a session knows stays true while the others work.
LEMMA OthersStand ==
    ASSUME TransactionsInv, NEW s \in Session, Lasting, Kept(s), IInv'
    PROVE  SessionInv(s)'
<1> USE DEF TransactionsInv
<1> DEFINE t == txn[s]
<1>1. /\ TransactionsTypeOK /\ ReadsOf(s) /\ LockedExists(s) /\ LocksInOrder(s)
      /\ (t = Idle => held[s] = {})
      /\ txn'[s] = t /\ held'[s] = held[s]
  BY DEF ReadsHold, LocksOK, Kept
<1>2. /\ now \in Nat /\ now' \in Nat /\ now <= now'
      /\ \A o \in Order : order[o].expires \in Nat /\ order'[o].expires \in Nat
  BY TimeAssumption DEF Lasting, IInv, TypeOK, OrderRow
<1>3. LockedExists(s)'
  <2>1. \A row : RowExists(row) => RowExists(row)'
    BY DEF RowExists, Lasting
  <2> QED BY <1>1, <2>1 DEF LockedExists
<1>4. LocksInOrder(s)'
  BY <1>1 DEF LocksInOrder
<1>5. CASE t.kind = "checkout"
  <2>1. t.o \in Order /\ t.i \in Info /\ (t.step = "commit" => t.at \in Nat)
    BY <1>1, <1>5, Names, TxnShape DEF CheckoutTxn
  <2>2. CheckoutHolds(s)
    BY <1>1, <1>5 DEF ReadsOf
  <2>3. order'[t.o].status = "absent"
    BY <1>5, <2>2 DEF CheckoutHolds, Kept
  <2>4. t.step # "info" =>
          /\ InfoLock(t.i) \in held[s]
          /\ info'[t.i] = [state |-> "active", price |-> t.price]
    BY <2>1, <2>2 DEF CheckoutHolds, Holds, Kept
  <2>5. t.step = "commit" =>
          /\ UnitLock(t.p) \in held[s] /\ t.p \in Product
          /\ InfoOf[t.p] = t.i
          /\ product'[t.p] = "available" /\ t.at <= now'
    BY <1>2, <2>1, <2>2 DEF CheckoutHolds, Holds, Kept
  <2>6. CheckoutHolds(s)'
    BY <1>1, <2>3, <2>4, <2>5 DEF CheckoutHolds, Holds
  <2> QED BY <1>1, <1>3, <1>4, <1>5, <2>6 DEF SessionInv, ReadsOf
<1>6. CASE t.kind = "publish"
  <2>1. t.o \in Order /\ PublishHolds(s)
    BY <1>1, <1>6, Names DEF ReadsOf
  <2>2. Exists(t.o)'
    BY <1>1, <2>1 DEF PublishHolds, Lasting, Exists
  <2>3. t.step = "commit" =>
          \E at \in 0 .. now' : CanPublish(t.o, at)'
    <3>1. SUFFICES ASSUME t.step = "commit"
                   PROVE  \E at \in 0 .. now' : CanPublish(t.o, at)'
      OBVIOUS
    <3>2. attempt'[t.o] = attempt[t.o] /\ order'[t.o] = order[t.o]
      BY <2>1, <3>1 DEF PublishHolds, Holds, Kept
    <3>3. PICK at \in 0 .. now : CanPublish(t.o, at)
      BY <2>1, <3>1 DEF PublishHolds
    <3>4. at \in 0 .. now' /\ CanPublish(t.o, at)'
      BY <1>1, <1>2, <3>2, <3>3 DEF CanPublish
    <3> QED BY <3>4
  <2>4. PublishHolds(s)'
    BY <1>1, <2>1, <2>2, <2>3 DEF PublishHolds, Holds
  <2> QED BY <1>1, <1>3, <1>4, <1>6, <2>4 DEF SessionInv, ReadsOf
<1>7. CASE t.kind = "expire"
  <2>1. t.o \in Order /\ ExpireHolds(s)
    BY <1>1, <1>7, Names DEF ReadsOf
  <2>2. Exists(t.o)'
    BY <1>1, <2>1 DEF ExpireHolds, Lasting, Exists
  <2>3. t.step # "attempt" => attempt'[t.o] = attempt[t.o]
    BY <2>1 DEF ExpireHolds, Holds, Kept
  <2>4. t.step \in {"unit", "commit"} => order'[t.o] = order[t.o] /\ Expirable(t.o)'
    BY <1>2, <2>1, <2>3 DEF ExpireHolds, Holds, Kept, Expirable
  <2>5. t.step = "commit" => order'[t.o] = order[t.o] /\ HoldsReserved(t.o)'
    <3> SUFFICES ASSUME t.step = "commit"
                 PROVE  order'[t.o] = order[t.o] /\ HoldsReserved(t.o)'
      OBVIOUS
    <3>1. /\ order'[t.o] = order[t.o] /\ HoldsReserved(t.o)
          /\ UnitLock(order[t.o].product) \in held[s]
      BY <2>1, <2>4 DEF ExpireHolds, Holds
    <3>2. order[t.o].product \in Product
      BY <2>1, <3>1 DEF IInv, TypeOK, OrderRow, HoldsReserved
    <3> QED BY <3>1, <3>2 DEF HoldsReserved, Kept
  <2>6. ExpireHolds(s)'
    BY <1>1, <2>1, <2>2, <2>3, <2>4, <2>5 DEF ExpireHolds, Holds
  <2> QED BY <1>1, <1>3, <1>4, <1>7, <2>6 DEF SessionInv, ReadsOf
<1>8. CASE t.kind = "confirm"
  <2> DEFINE c == t.c
             o == c.trade
  <2>1. /\ c \in Incoming /\ c \in Confirmation /\ o \in Order /\ c.paidAt \in Nat
        /\ ConfirmHolds(s)
    BY <1>1, <1>8, Names, ConfirmationFields DEF ReadsOf
  <2>2. Genuine(c)'
    BY <1>1, <1>2, <2>1 DEF ConfirmHolds, Genuine
  <2>3. t.step # "attempt" =>
          attempt'[o] = attempt[o] /\ AttemptFound(c)' /\ OrderExpected(c)'
    BY <2>1 DEF ConfirmHolds, Holds, Kept, AttemptFound, OrderExpected
  <2>4. t.outcome \in {"release", "apply", "record"} =>
          order'[o] = order[o] /\ (Late(c)' <=> Late(c))
    BY <2>1 DEF ConfirmHolds, Holds, Kept, Late
  <2>5. t.outcome \in {"release", "apply"} /\ t.step # "unit" => HoldsReserved(o)'
    <3> SUFFICES ASSUME t.outcome \in {"release", "apply"}, t.step # "unit"
                 PROVE  HoldsReserved(o)'
      OBVIOUS
    <3>1. /\ order'[o] = order[o] /\ HoldsReserved(o)
          /\ UnitLock(order[o].product) \in held[s]
      BY <2>1, <2>4 DEF ConfirmHolds, Holds
    <3>2. order[o].product \in Product
      BY <2>1, <3>1 DEF IInv, TypeOK, OrderRow, HoldsReserved
    <3> QED BY <3>1, <3>2 DEF HoldsReserved, Kept
  <2>6. KeysHold(s)'
    BY <1>1, <1>8, <2>1 DEF ConfirmHolds, KeysHold, Holds, Kept
  <2>7. ConfirmHolds(s)'
    BY <1>1, <2>1, <2>2, <2>3, <2>4, <2>5, <2>6 DEF ConfirmHolds, Holds
  <2> QED BY <1>1, <1>3, <1>4, <1>8, <2>7 DEF SessionInv, ReadsOf
<1>9. CASE t.kind \in {"stock", "status"}
  <2>1. /\ t.done \subseteq Product /\ t.todo \subseteq Product /\ t.next \in Product
        /\ BulkHolds(s)
    BY <1>1, <1>9, Names DEF ReadsOf
  <2>2. \A i \in Info : info[i].state # "absent" => info'[i].state # "absent"
    BY DEF Lasting
  <2>3. \A p \in t.done :
          IF t.kind = "stock" THEN Holds(s, {ContentLock(p)})' /\ product'[p] = "absent"
          ELSE Holds(s, {UnitLock(p)})' /\ product'[p] = SourceStatus(t.target)
    BY <1>1, <2>1 DEF BulkHolds, Holds, Kept
  <2>4. t.kind = "status" =>
            \A p \in t.todo \cup t.done \cup {t.next} : product'[p] # "absent"
    BY <2>1 DEF BulkHolds, Lasting
  <2>5. BulkHolds(s)'
    BY <1>1, <2>1, <2>2, <2>3, <2>4 DEF BulkHolds
  <2> QED BY <1>1, <1>3, <1>4, <1>9, <2>5 DEF SessionInv, ReadsOf
<1>10. CASE t = Idle
  BY <1>1, <1>3, <1>4, <1>10 DEF SessionInv, ReadsOf, Idle
<1> QED BY <1>1, <1>5, <1>6, <1>7, <1>8, <1>9, <1>10, TxnShape

-----------------------------------------------------------------------------
(* Steps of one session                                                    *)

\* A statement that writes nothing yet leaves the other sessions alone.
LEMMA QuietKept ==
    ASSUME TransactionsInv, UNCHANGED dbvars
    PROVE  /\ Lasting
           /\ \A t \in Session : txn'[t] = txn[t] /\ held'[t] = held[t] => Kept(t)
<1>1. now \in Nat
  BY TimeAssumption DEF TransactionsInv, IInv, TypeOK
<1>2. Lasting
  BY <1>1 DEF Lasting, dbvars, Exists
<1>3. ASSUME NEW t \in Session, txn'[t] = txn[t], held'[t] = held[t]
      PROVE  Kept(t)
  BY <1>3 DEF Kept, dbvars, EventRows, TxnFree
<1> QED BY <1>2, <1>3

\* What one session does, when the others are kept.
LEMMA OneSession ==
    ASSUME TransactionsInv, NEW s \in Session, IInv', TransactionsTypeOK', Lasting,
           \A t \in Session : t # s => Kept(t),
           SessionInv(s)',
           \A row \in held'[s] :
               row \in held[s] \/ \A t \in Session : t # s => row \notin held[t],
           txn'[s].kind = "checkout" =>
               \A t \in Session :
                   t # s /\ txn[t].kind = "checkout" => txn[t].o # txn'[s].o
    PROVE  TransactionsInv'
<1>1. \A t \in Session : SessionInv(t)'
  BY OthersStand
<1>2. \A t \in Session : t # s => txn'[t] = txn[t] /\ held'[t] = held[t]
  BY DEF Kept
<1>3. \A t, u \in Session : t # u => held'[t] \cap held'[u] = {}
  <2> SUFFICES ASSUME NEW t \in Session, NEW u \in Session, t # u,
                      NEW row \in held'[t] \cap held'[u]
               PROVE  FALSE
    OBVIOUS
  <2>1. \A v, w \in Session : v # w => held[v] \cap held[w] = {}
    BY DEF TransactionsInv, ReadsHold, LocksOK
  <2>2. CASE t # s /\ u # s
    BY <1>2, <2>1, <2>2
  <2>3. CASE t = s
    BY <1>2, <2>1, <2>3
  <2>4. CASE u = s
    BY <1>2, <2>1, <2>4
  <2> QED BY <2>2, <2>3, <2>4
<1>4. LocksOK'
  BY <1>1, <1>3 DEF LocksOK, SessionInv
<1>5. OrdersApart'
  <2>1. ASSUME NEW t \in Session, NEW u \in Session, t # u,
               txn'[t].kind = "checkout", txn'[u].kind = "checkout"
        PROVE  txn'[t].o # txn'[u].o
    <3>1. CASE t # s /\ u # s
      BY <1>2, <2>1, <3>1 DEF TransactionsInv, OrdersApart
    <3>2. CASE t = s
      BY <1>2, <2>1, <3>2
    <3>3. CASE u = s
      BY <1>2, <2>1, <3>3
    <3> QED BY <3>1, <3>2, <3>3
  <2> QED BY <2>1 DEF OrdersApart
<1> QED BY <1>1, <1>4, <1>5 DEF TransactionsInv, ReadsHold, SessionInv

\* A statement that gets the lock of what exists, next in the order of locks,
\* and goes on.
LEMMA Locked ==
    ASSUME TransactionsInv, NEW s \in Session, NEW row \in Lockable, NEW next,
           Lock(s, row, next),
           next \in CheckoutTxn \cup AttemptTxn \cup PaymentTxn \cup BulkTxn,
           next.kind = "checkout" => txn[s].kind = "checkout" /\ next.o = txn[s].o,
           RowExists(row), MayHold(next, row[1]),
           \A name : MayHold(txn[s], name) => MayHold(next, name),
           ReadsOf(s)'
    PROVE  TransactionsInv' /\ UNCHANGED dbvars
<1> USE DEF TransactionsInv
<1>1. /\ OnlyTxn(s, next) /\ OnlyHeld(s, held[s] \cup {row}) /\ UNCHANGED dbvars
      /\ \A t \in Session : t # s => row \notin held[t]
  BY LockEffect
<1>2. TransactionsTypeOK'
  <2>1. txn' = [txn EXCEPT ![s] = next] /\ held' = [held EXCEPT ![s] = held[s] \cup {row}]
    BY LockEffect
  <2>2. held[s] \cup {row} \in SUBSET Lockable
    BY DEF TransactionsTypeOK
  <2> QED BY <2>1, <2>2 DEF TransactionsTypeOK
<1>3. IInv'
  BY <1>1, StepInvariant
<1>4. Lasting /\ \A t \in Session : t # s => Kept(t)
  BY <1>1, QuietKept DEF OnlyTxn, OnlyHeld
<1>5. \A r \in held'[s] : r \in held[s] \/ \A t \in Session : t # s => r \notin held[t]
  BY <1>1 DEF OnlyHeld
<1>6. txn'[s].kind = "checkout" =>
          \A t \in Session : t # s /\ txn[t].kind = "checkout" => txn[t].o # txn'[s].o
  BY <1>1 DEF OnlyTxn, OrdersApart
<1>7. /\ txn'[s] = next /\ held'[s] = held[s] \cup {row}
      /\ LockedExists(s) /\ LocksInOrder(s)
  BY <1>1 DEF OnlyTxn, OnlyHeld
<1>8. LockedExists(s)'
  <2>1. \A r : RowExists(r) => RowExists(r)'
    BY <1>1 DEF RowExists, Exists, dbvars
  <2> QED BY <1>7, <2>1 DEF LockedExists
<1>9. LocksInOrder(s)'
  BY <1>7 DEF LocksInOrder
<1>10. txn'[s] # Idle
  BY <1>7 DEF Idle, CheckoutTxn, AttemptTxn, PaymentTxn, BulkTxn
<1>11. SessionInv(s)'
  BY <1>8, <1>9, <1>10 DEF SessionInv
<1> QED BY <1>1, <1>2, <1>3, <1>4, <1>5, <1>6, <1>11, OneSession

\* The end of a transaction.
LEMMA Finished ==
    ASSUME TransactionsInv, NEW s \in Session, Done(s), [Next]_dbvars, Lasting,
           \A t \in Session : OnlyTxn(s, Idle) /\ OnlyHeld(s, {}) /\ t # s => Kept(t)
    PROVE  TransactionsInv'
<1>1. /\ OnlyTxn(s, Idle) /\ OnlyHeld(s, {}) /\ TransactionsTypeOK'
  BY DoneEffect DEF TransactionsInv
<1>2. IInv'
  BY StepInvariant DEF TransactionsInv
<1>3. SessionInv(s)'
  BY <1>1 DEF OnlyTxn, OnlyHeld, SessionInv, ReadsOf, LockedExists, LocksInOrder, Idle
<1> QED BY <1>1, <1>2, <1>3, OneSession DEF OnlyTxn, OnlyHeld, Idle

LEMMA RolledBack ==
    ASSUME TransactionsInv, NEW s \in Session, Rollback(s)
    PROVE  TransactionsInv' /\ UNCHANGED dbvars
<1>1. Done(s) /\ UNCHANGED dbvars
  BY DEF Rollback
<1> QED BY <1>1, QuietKept, Finished DEF OnlyTxn, OnlyHeld

\* A transaction begins.
LEMMA Begun ==
    ASSUME TransactionsInv, NEW s \in Session, NEW job, Begin(s, job),
           job \in CheckoutTxn \cup AttemptTxn \cup PaymentTxn \cup BulkTxn,
           job.kind = "checkout" =>
               \A t \in Session : txn[t].kind = "checkout" => txn[t].o # job.o,
           ReadsOf(s)'
    PROVE  TransactionsInv' /\ UNCHANGED dbvars
<1> USE DEF TransactionsInv
<1>1. /\ txn[s] = Idle /\ OnlyTxn(s, job) /\ held' = held /\ UNCHANGED dbvars
      /\ txn' = [txn EXCEPT ![s] = job]
  BY BeginEffect
<1>2. TransactionsTypeOK'
  BY <1>1 DEF TransactionsTypeOK
<1>3. IInv'
  BY <1>1, StepInvariant
<1>4. Lasting /\ \A t \in Session : t # s => Kept(t)
  BY <1>1, QuietKept DEF OnlyTxn
<1>5. held'[s] = {}
  BY <1>1 DEF ReadsHold, LocksOK
<1>6. SessionInv(s)'
  BY <1>5 DEF SessionInv, LockedExists, LocksInOrder
<1> QED BY <1>1, <1>2, <1>3, <1>4, <1>5, <1>6, OneSession DEF OnlyTxn

LEMMA StartStep ==
    ASSUME TransactionsInv, NEW s \in Session, Start(s)
    PROVE  TransactionsInv' /\ UNCHANGED dbvars
<1> USE DEF TransactionsInv
<1>1. ASSUME NEW o \in Order, NEW i \in Info, NEW provider \in Provider,
             BeginCheckout(s, o, i, provider)
      PROVE  TransactionsInv' /\ UNCHANGED dbvars
  <2> DEFINE job == [kind |-> "checkout", step |-> "info", o |-> o, i |-> i,
                     provider |-> provider, p |-> None, price |-> 0, at |-> 0]
  <2>1. /\ Begin(s, job) /\ order[o].status = "absent"
        /\ \A t \in Session : txn[t].kind = "checkout" => txn[t].o # o
    BY <1>1 DEF BeginCheckout
  <2>2. job \in CheckoutTxn
    BY DEF CheckoutTxn
  <2>3. txn'[s] = job /\ order' = order
    BY <2>1, BeginEffect DEF OnlyTxn, dbvars
  <2>4. ReadsOf(s)'
    BY <2>1, <2>3 DEF ReadsOf, CheckoutHolds
  <2> QED BY <2>1, <2>2, <2>4, Begun
<1>2. ASSUME NEW o \in Order, NEW kind \in {"publish", "expire"}, Exists(o),
             Begin(s, [kind |-> kind, step |-> "attempt", o |-> o])
      PROVE  TransactionsInv' /\ UNCHANGED dbvars
  <2> DEFINE job == [kind |-> kind, step |-> "attempt", o |-> o]
  <2>1. job \in AttemptTxn
    BY DEF AttemptTxn
  <2>2. txn'[s] = job /\ attempt' = attempt
    BY <1>2, BeginEffect DEF OnlyTxn, dbvars
  <2>3. ReadsOf(s)'
    BY <1>2, <2>2 DEF ReadsOf, PublishHolds, ExpireHolds, Exists
  <2> QED BY <1>2, <2>1, <2>3, Begun
<1>3. ASSUME NEW c \in Incoming, BeginConfirm(s, c)
      PROVE  TransactionsInv' /\ UNCHANGED dbvars
  <2> DEFINE job == [kind |-> "confirm", step |-> "attempt", c |-> c, outcome |-> "none"]
  <2>1. Begin(s, job) /\ Genuine(c)
    BY <1>3 DEF BeginConfirm
  <2>2. job \in PaymentTxn
    BY DEF PaymentTxn
  <2>3. txn'[s] = job /\ now' = now
    BY <2>1, BeginEffect DEF OnlyTxn, dbvars
  <2>4. ReadsOf(s)'
    BY <2>1, <2>3 DEF ReadsOf, ConfirmHolds, KeysHold, Genuine
  <2> QED BY <2>1, <2>2, <2>4, Begun
<1>4. ASSUME NEW kind \in {"stock", "status"}, NEW target \in {"available", "disabled"},
             NEW batch \in SUBSET Product, BeginBulk(s, kind, batch, target),
             kind = "status" => \A p \in batch : product[p] # "absent",
             kind = "stock" =>
                 /\ target = "available"
                 /\ \E i \in Info : /\ info[i].state # "absent"
                                   /\ \A p \in batch : InfoOf[p] = i
      PROVE  TransactionsInv' /\ UNCHANGED dbvars
  <2>1. PICK p \in batch : Begin(s, [kind |-> kind, step |-> "row", target |-> target,
                                     next |-> p, todo |-> batch, done |-> {}])
    BY <1>4 DEF BeginBulk
  <2> DEFINE job == [kind |-> kind, step |-> "row", target |-> target,
                     next |-> p, todo |-> batch, done |-> {}]
  <2>2. job \in BulkTxn
    BY DEF BulkTxn
  <2>3. txn'[s] = job /\ product' = product /\ info' = info
    BY <2>1, BeginEffect DEF OnlyTxn, dbvars
  <2>4. BulkHolds(s)'
    BY <1>4, <2>3 DEF BulkHolds
  <2>5. ReadsOf(s)'
    BY <2>3, <2>4 DEF ReadsOf
  <2> QED BY <2>1, <2>2, <2>5, Begun
<1>5. ASSUME NEW batch \in SUBSET Product, NEW target \in {"available", "disabled"},
             BeginStatus(s, batch, target)
      PROVE  TransactionsInv' /\ UNCHANGED dbvars
  BY <1>4, <1>5 DEF BeginStatus, SourceStatus
<1>6. ASSUME NEW i \in Info, NEW batch \in SUBSET Product, BeginStock(s, i, batch)
      PROVE  TransactionsInv' /\ UNCHANGED dbvars
  BY <1>4, <1>6 DEF BeginStock
<1> QED BY <1>1, <1>2, <1>3, <1>5, <1>6 DEF Start, BeginPublish, BeginExpire

-----------------------------------------------------------------------------
(* The statements of a checkout                                            *)

\* What a session knows of its own.
LEMMA Own ==
    ASSUME TransactionsInv, NEW s \in Session
    PROVE  TransactionsTypeOK /\ SessionInv(s) /\ held[s] \subseteq Lockable
  BY TxnShape DEF TransactionsInv, ReadsHold, LocksOK, SessionInv

LEMMA CheckoutInfoStep ==
    ASSUME TransactionsInv, NEW s \in Session, CheckoutInfo(s)
    PROVE  TransactionsInv' /\ UNCHANGED dbvars
<1> DEFINE i == txn[s].i
           next == [Goto(s, "unit") EXCEPT !.price = info[i].price]
<1>1. /\ txn[s] \in CheckoutTxn /\ txn[s].kind = "checkout" /\ txn[s].step = "info"
      /\ i \in Info /\ CheckoutHolds(s)
  BY Own, TxnShape, Names DEF CheckoutInfo, At, SessionInv, ReadsOf
<1>2. CASE Rollback(s)
  BY <1>2, RolledBack
<1>3. CASE info[i].state = "active" /\ Lock(s, InfoLock(i), next)
  <2>1. info[i] \in InfoRow
    BY <1>1 DEF TransactionsInv, IInv, TypeOK
  <2>2. /\ next \in CheckoutTxn /\ next.kind = "checkout" /\ next.step = "unit"
        /\ next.o = txn[s].o /\ next.i = i /\ next.price = info[i].price
    BY <1>1, <2>1 DEF CheckoutTxn, Goto, InfoRow
  <2>3. /\ txn'[s] = next /\ held'[s] = held[s] \cup {InfoLock(i)} /\ UNCHANGED dbvars
    BY <1>3, Own, LockEffect DEF OnlyTxn, OnlyHeld
  <2>4. RowExists(InfoLock(i)) /\ InfoLock(i) \in Lockable
    BY <1>1, <1>3, LockParts DEF RowExists, Lockable
  <2>5. /\ MayHold(next, InfoLock(i)[1])
        /\ \A name : MayHold(txn[s], name) => MayHold(next, name)
    BY <1>1, <2>2, LockParts DEF MayHold
  <2>6. CheckoutHolds(s)'
    BY <1>1, <1>3, <2>1, <2>2, <2>3 DEF CheckoutHolds, Holds, dbvars, InfoRow
  <2>7. ReadsOf(s)'
    BY <2>2, <2>3, <2>6 DEF ReadsOf
  <2> HIDE DEF next
  <2> QED BY <1>1, <1>3, <2>2, <2>4, <2>5, <2>7, Locked
<1> QED BY <1>2, <1>3 DEF CheckoutInfo

LEMMA CheckoutUnitStep ==
    ASSUME TransactionsInv, NEW s \in Session, CheckoutUnit(s)
    PROVE  TransactionsInv' /\ UNCHANGED dbvars
<1>1. /\ txn[s] \in CheckoutTxn /\ txn[s].kind = "checkout" /\ txn[s].step = "unit"
      /\ CheckoutHolds(s)
  BY Own, TxnShape DEF CheckoutUnit, At, SessionInv, ReadsOf
<1>2. now \in Nat /\ now <= now
  BY TimeAssumption DEF TransactionsInv, IInv, TypeOK
<1>3. CASE Rollback(s)
  BY <1>3, RolledBack
<1>4. ASSUME NEW p \in Takeable(s),
             Lock(s, UnitLock(p), [Goto(s, "commit") EXCEPT !.p = p, !.at = now])
      PROVE  TransactionsInv' /\ UNCHANGED dbvars
  <2> DEFINE next == [Goto(s, "commit") EXCEPT !.p = p, !.at = now]
  <2>1. p \in Product /\ InfoOf[p] = txn[s].i /\ product[p] = "available"
    BY <1>4 DEF Takeable
  <2>2. /\ next \in CheckoutTxn /\ next.kind = "checkout" /\ next.step = "commit"
        /\ next.o = txn[s].o /\ next.i = txn[s].i /\ next.price = txn[s].price
        /\ next.p = p /\ next.at = now
    BY <1>1, <1>2, <2>1 DEF CheckoutTxn, Goto
  <2>3. Lock(s, UnitLock(p), next)
    BY <1>4
  <2> HIDE DEF next
  <2>4. /\ txn'[s] = next /\ held'[s] = held[s] \cup {UnitLock(p)}
        /\ UNCHANGED <<now, info, product, order, attempt, event>>
    BY <2>3, Own, LockEffect DEF OnlyTxn, OnlyHeld, dbvars
  <2>5. RowExists(UnitLock(p)) /\ UnitLock(p) \in Lockable
    BY <2>1, LockParts DEF RowExists, Lockable
  <2>6. /\ MayHold(next, UnitLock(p)[1])
        /\ \A name : MayHold(txn[s], name) => MayHold(next, name)
    BY <1>1, <2>1, <2>2, LockParts DEF MayHold
  <2>7. CheckoutHolds(s)'
    BY <1>1, <1>2, <2>1, <2>2, <2>4 DEF CheckoutHolds, Holds
  <2>8. ReadsOf(s)'
    BY <2>2, <2>4, <2>7 DEF ReadsOf
  <2> QED BY <1>1, <2>2, <2>3, <2>5, <2>6, <2>8, Locked
<1> QED BY <1>3, <1>4 DEF CheckoutUnit

\* The commit is create_order's transaction, and changes no row another session
\* has locked: the order and its attempt are new, the unit is its own.
LEMMA CheckoutCommitStep ==
    ASSUME TransactionsInv, NEW s \in Session, CheckoutCommit(s)
    PROVE  TransactionsInv' /\ [Next]_dbvars
<1> USE DEF TransactionsInv
<1> DEFINE t == txn[s]
           o == t.o
           p == t.p
<1>1. /\ t \in CheckoutTxn /\ t.kind = "checkout" /\ t.step = "commit"
      /\ SessionInv(s) /\ Done(s)
      /\ o \in Order /\ t.i \in Info /\ t.provider \in Provider /\ t.at \in Nat
  BY Own, TxnShape DEF CheckoutCommit, At, CheckoutTxn
<1>2. /\ p \in Product /\ InfoOf[p] = t.i /\ product[p] = "available" /\ t.at <= now
      /\ order[o].status = "absent"
      /\ info[t.i] = [state |-> "active", price |-> t.price]
      /\ UnitLock(p) \in held[s]
  BY <1>1 DEF SessionInv, ReadsOf, CheckoutHolds, Holds
<1>3. CreateOrder(o, p, t.provider, t.at)
  BY <1>2 DEF CheckoutCommit, CreateOrder
<1>4. t.at \in 0 .. now
  BY <1>1, <1>2, TimeAssumption DEF IInv, TypeOK
<1>5. Next
  BY <1>1, <1>2, <1>3, <1>4 DEF Next, OrderNext
<1>6. /\ UNCHANGED <<now, info, event>>
      /\ product'[p] = "reserved" /\ \A q \in Product : q # p => product'[q] = product[q]
      /\ \A q \in Order : q # o => order'[q] = order[q] /\ attempt'[q] = attempt[q]
      /\ attempt'[o].state = "created" /\ attempt'[o].txn = None
      /\ order'[o].status = "pending"
      /\ now \in Nat
  BY <1>1, <1>2, TimeAssumption DEF CheckoutCommit, IInv, TypeOK
<1>7. ~Exists(o)
  BY <1>1, <1>2 DEF IInv, LifecycleCoherence, Exists
<1>8. Lasting
  BY <1>2, <1>6, <1>7 DEF Lasting, Exists
<1>9. ASSUME NEW u \in Session, u # s, OnlyTxn(s, Idle), OnlyHeld(s, {})
      PROVE  Kept(u)
  <2>1. txn'[u] = txn[u] /\ held'[u] = held[u] /\ SessionInv(u) /\ TransactionsTypeOK
    BY <1>9, Own DEF OnlyTxn, OnlyHeld
  <2>2. UnitLock(p) \notin held[u]
    BY <1>2, <1>9 DEF ReadsHold, LocksOK
  <2>3. OrderLock(o) \notin held[u] /\ AttemptLock(o) \notin held[u]
    BY <1>1, <1>7, <2>1 DEF SessionInv, LockedExists, RowExists
  <2>4. txn[u].kind = "checkout" => txn[u].o # o /\ txn[u].o \in Order
    BY <1>1, <1>9, <2>1, Names DEF OrdersApart
  <2>5. txn[u].kind = "confirm" =>
          LET c == txn[u].c IN
          /\ EventRows(c)' = EventRows(c)
          /\ TxnFree(c) => TxnFree(c)'
    <3>1. SUFFICES ASSUME txn[u].kind = "confirm"
                   PROVE  LET c == txn[u].c IN
                          /\ EventRows(c)' = EventRows(c)
                          /\ TxnFree(c) => TxnFree(c)'
      OBVIOUS
    <3>2. txn[u].c.txn # None
      BY <2>1, <3>1, Names, ConfirmationFields
    <3> QED BY <1>6, <2>1, <3>2 DEF EventRows, TxnFree
  <2> QED BY <1>2, <1>6, <2>1, <2>2, <2>3, <2>4, <2>5 DEF Kept
<1> QED BY <1>1, <1>5, <1>8, <1>9, Finished

-----------------------------------------------------------------------------
(* The statements of publication and expiration                            *)

\* What exists can be locked; keys and contents need not exist.
LEMMA RowsExist ==
    /\ \A p \in Product : /\ product[p] # "absent" => RowExists(UnitLock(p))
                          /\ RowExists(ContentLock(p))
                          /\ {UnitLock(p), ContentLock(p)} \subseteq Lockable
    /\ \A o \in Order : /\ Exists(o) => RowExists(OrderLock(o)) /\ RowExists(AttemptLock(o))
                        /\ {OrderLock(o), AttemptLock(o)} \subseteq Lockable
    /\ \A c \in Incoming : /\ RowExists(EventLock(c)) /\ RowExists(TxnLock(c))
                           /\ {EventLock(c), TxnLock(c)} \subseteq Lockable
<1>1. ASSUME NEW p \in Product
      PROVE  /\ product[p] # "absent" => RowExists(UnitLock(p))
             /\ RowExists(ContentLock(p))
  BY LockParts DEF RowExists
<1>2. ASSUME NEW o \in Order, Exists(o)
      PROVE  RowExists(OrderLock(o)) /\ RowExists(AttemptLock(o))
  <2>1. RowExists(OrderLock(o))
    BY <1>2, LockParts DEF RowExists
  <2>2. RowExists(AttemptLock(o))
    BY <1>2, LockParts DEF RowExists
  <2> QED BY <2>1, <2>2
<1>3. ASSUME NEW c \in Incoming
      PROVE  RowExists(EventLock(c)) /\ RowExists(TxnLock(c))
  <2>1. RowExists(EventLock(c))
    BY LockParts DEF RowExists
  <2>2. RowExists(TxnLock(c))
    BY LockParts DEF RowExists
  <2> QED BY <2>1, <2>2
<1> QED BY <1>1, <1>2, <1>3 DEF Lockable

LEMMA LockTxn ==
    ASSUME TransactionsInv, NEW s \in Session, NEW row, NEW next, Lock(s, row, next)
    PROVE  /\ txn'[s] = next /\ held'[s] = held[s] \cup {row}
           /\ UNCHANGED <<now, info, product, order, attempt, event>>
  BY Own, LockEffect DEF OnlyTxn, OnlyHeld, dbvars

LEMMA PublishAttemptStep ==
    ASSUME TransactionsInv, NEW s \in Session, PublishAttempt(s)
    PROVE  TransactionsInv' /\ UNCHANGED dbvars
<1> DEFINE o == txn[s].o
           next == Goto(s, "order")
           row == AttemptLock(o)
<1>1. /\ txn[s] \in AttemptTxn /\ txn[s].kind = "publish" /\ txn[s].step = "attempt"
      /\ o \in Order /\ PublishHolds(s)
  BY Own, TxnShape, Names DEF PublishAttempt, At, SessionInv, ReadsOf
<1>2. Lock(s, row, next)
  BY DEF PublishAttempt, PublishLocks
<1>3. next \in AttemptTxn /\ next.kind = "publish" /\ next.step = "order" /\ next.o = o
  BY <1>1 DEF AttemptTxn, Goto
<1>4. RowExists(row) /\ row \in Lockable
  BY <1>1, RowsExist DEF PublishHolds
<1>5. MayHold(next, row[1]) /\ \A name : MayHold(txn[s], name) => MayHold(next, name)
  BY <1>1, <1>3, LockParts DEF MayHold
<1> HIDE DEF next
<1>6. PublishHolds(s)'
  BY <1>1, <1>2, <1>3, LockTxn DEF PublishHolds, Holds, Exists
<1>7. ReadsOf(s)'
  BY <1>2, <1>3, <1>6, LockTxn DEF ReadsOf
<1> QED BY <1>2, <1>3, <1>4, <1>5, <1>7, Locked

LEMMA PublishOrderStep ==
    ASSUME TransactionsInv, NEW s \in Session, PublishOrder(s)
    PROVE  TransactionsInv' /\ UNCHANGED dbvars
<1> DEFINE o == txn[s].o
           next == Goto(s, "commit")
           row == OrderLock(o)
<1>1. /\ txn[s] \in AttemptTxn /\ txn[s].kind = "publish" /\ txn[s].step = "order"
      /\ o \in Order /\ PublishHolds(s)
  BY Own, TxnShape, Names DEF PublishOrder, At, SessionInv, ReadsOf
<1>2. CASE Rollback(s)
  BY <1>2, RolledBack
<1>3. CASE CanPublish(o, now) /\ Lock(s, row, next)
  <2>1. /\ next \in AttemptTxn /\ next.kind = "publish" /\ next.step = "commit"
        /\ next.o = o
    BY <1>1 DEF AttemptTxn, Goto
  <2>2. RowExists(row) /\ row \in Lockable
    BY <1>1, RowsExist DEF PublishHolds
  <2>3. MayHold(next, row[1]) /\ \A name : MayHold(txn[s], name) => MayHold(next, name)
    BY <1>1, <2>1, LockParts DEF MayHold
  <2> HIDE DEF next
  <2>4. /\ txn'[s] = next /\ held'[s] = held[s] \cup {row}
        /\ UNCHANGED <<now, info, product, order, attempt, event>>
    BY <1>3, LockTxn
  <2>5. \E at \in 0 .. now' : CanPublish(o, at)'
    <3>1. now \in 0 .. now'
      BY <2>4, TimeAssumption DEF TransactionsInv, IInv, TypeOK
    <3>2. CanPublish(o, now)
      BY <1>3
    <3>3. \A at : CanPublish(o, at)' <=> CanPublish(o, at)
      BY <2>1, <2>4 DEF CanPublish
    <3> QED BY <3>1, <3>2, <3>3
  <2>6. PublishHolds(s)'
    BY <1>1, <2>1, <2>4, <2>5 DEF PublishHolds, Holds, Exists
  <2>7. ReadsOf(s)'
    BY <2>1, <2>4, <2>6 DEF ReadsOf
  <2> QED BY <1>3, <2>1, <2>2, <2>3, <2>7, Locked
<1> QED BY <1>2, <1>3 DEF PublishOrder, PublishLocks

LEMMA ExpireAttemptStep ==
    ASSUME TransactionsInv, NEW s \in Session, ExpireAttempt(s)
    PROVE  TransactionsInv' /\ UNCHANGED dbvars
<1> DEFINE o == txn[s].o
           next == Goto(s, "order")
           row == AttemptLock(o)
<1>1. /\ txn[s] \in AttemptTxn /\ txn[s].kind = "expire" /\ txn[s].step = "attempt"
      /\ o \in Order /\ ExpireHolds(s)
  BY Own, TxnShape, Names DEF ExpireAttempt, At, SessionInv, ReadsOf
<1>2. CASE Rollback(s)
  BY <1>2, RolledBack
<1>3. CASE attempt[o].state # "succeeded" /\ Lock(s, row, next)
  <2>1. next \in AttemptTxn /\ next.kind = "expire" /\ next.step = "order" /\ next.o = o
    BY <1>1 DEF AttemptTxn, Goto
  <2>2. RowExists(row) /\ row \in Lockable
    BY <1>1, RowsExist DEF ExpireHolds
  <2>3. MayHold(next, row[1]) /\ \A name : MayHold(txn[s], name) => MayHold(next, name)
    BY <1>1, <2>1, LockParts DEF MayHold
  <2> HIDE DEF next
  <2>4. /\ txn'[s] = next /\ held'[s] = held[s] \cup {row}
        /\ UNCHANGED <<now, info, product, order, attempt, event>>
    BY <1>3, LockTxn
  <2>5. ExpireHolds(s)'
    BY <1>1, <1>3, <2>1, <2>4 DEF ExpireHolds, Holds, Exists
  <2>6. ReadsOf(s)'
    BY <2>1, <2>4, <2>5 DEF ReadsOf
  <2> QED BY <1>3, <2>1, <2>2, <2>3, <2>6, Locked
<1> QED BY <1>2, <1>3 DEF ExpireAttempt

LEMMA ExpireOrderStep ==
    ASSUME TransactionsInv, NEW s \in Session, ExpireOrder(s)
    PROVE  TransactionsInv' /\ UNCHANGED dbvars
<1> DEFINE o == txn[s].o
           next == Goto(s, "unit")
           row == OrderLock(o)
<1>1. /\ txn[s] \in AttemptTxn /\ txn[s].kind = "expire" /\ txn[s].step = "order"
      /\ o \in Order /\ ExpireHolds(s)
  BY Own, TxnShape, Names DEF ExpireOrder, At, SessionInv, ReadsOf
<1>2. CASE Rollback(s)
  BY <1>2, RolledBack
<1>3. CASE Expirable(o) /\ Lock(s, row, next)
  <2>1. next \in AttemptTxn /\ next.kind = "expire" /\ next.step = "unit" /\ next.o = o
    BY <1>1 DEF AttemptTxn, Goto
  <2>2. RowExists(row) /\ row \in Lockable
    BY <1>1, RowsExist DEF ExpireHolds
  <2>3. MayHold(next, row[1]) /\ \A name : MayHold(txn[s], name) => MayHold(next, name)
    BY <1>1, <2>1, LockParts DEF MayHold
  <2> HIDE DEF next
  <2>4. /\ txn'[s] = next /\ held'[s] = held[s] \cup {row}
        /\ UNCHANGED <<now, info, product, order, attempt, event>>
    BY <1>3, LockTxn
  <2>5. Expirable(o)'
    BY <1>3, <2>1, <2>4 DEF Expirable
  <2>6. ExpireHolds(s)'
    BY <1>1, <2>1, <2>4, <2>5 DEF ExpireHolds, Holds, Exists
  <2>7. ReadsOf(s)'
    BY <2>1, <2>4, <2>6 DEF ReadsOf
  <2> QED BY <1>3, <2>1, <2>2, <2>3, <2>7, Locked
<1> QED BY <1>2, <1>3 DEF ExpireOrder

\* The unit of an order that can still be released or delivered.
LEMMA HeldUnit ==
    ASSUME TransactionsInv, NEW o \in Order, HoldsReserved(o)
    PROVE  /\ order[o].product \in Product /\ product[order[o].product] = "reserved"
           /\ RowExists(UnitLock(order[o].product))
           /\ UnitLock(order[o].product) \in Lockable
<1>1. order[o].product \in Product
  BY DEF TransactionsInv, IInv, TypeOK, OrderRow, HoldsReserved
<1>2. product[order[o].product] = "reserved"
  BY DEF HoldsReserved
<1> QED BY <1>1, <1>2, RowsExist

LEMMA ExpireUnitStep ==
    ASSUME TransactionsInv, NEW s \in Session, ExpireUnit(s)
    PROVE  TransactionsInv' /\ UNCHANGED dbvars
<1> DEFINE o == txn[s].o
           next == Goto(s, "commit")
           row == UnitLock(order[o].product)
<1>1. /\ txn[s] \in AttemptTxn /\ txn[s].kind = "expire" /\ txn[s].step = "unit"
      /\ o \in Order /\ ExpireHolds(s)
  BY Own, TxnShape, Names DEF ExpireUnit, At, SessionInv, ReadsOf
<1>2. CASE Rollback(s)
  BY <1>2, RolledBack
<1>3. CASE HoldsReserved(o) /\ Lock(s, row, next)
  <2>1. next \in AttemptTxn /\ next.kind = "expire" /\ next.step = "commit" /\ next.o = o
    BY <1>1 DEF AttemptTxn, Goto
  <2>2. order[o].product \in Product /\ RowExists(row) /\ row \in Lockable
    BY <1>1, <1>3, HeldUnit
  <2>3. MayHold(next, row[1]) /\ \A name : MayHold(txn[s], name) => MayHold(next, name)
    BY <1>1, <2>1, <2>2, LockParts DEF MayHold
  <2> HIDE DEF next
  <2>4. /\ txn'[s] = next /\ held'[s] = held[s] \cup {row}
        /\ UNCHANGED <<now, info, product, order, attempt, event>>
    BY <1>3, LockTxn
  <2>5. Expirable(o)' /\ HoldsReserved(o)'
    BY <1>1, <1>3, <2>1, <2>4 DEF ExpireHolds, Expirable, HoldsReserved
  <2>6. ExpireHolds(s)'
    BY <1>1, <2>1, <2>4, <2>5 DEF ExpireHolds, Holds, Exists
  <2>7. ReadsOf(s)'
    BY <2>1, <2>4, <2>6 DEF ReadsOf
  <2> QED BY <1>3, <2>1, <2>2, <2>3, <2>7, Locked
<1> QED BY <1>2, <1>3 DEF ExpireUnit, UnitStep

-----------------------------------------------------------------------------
(* The statements of a confirmation                                        *)

\* A confirmation that goes on under a lock it just got.
LEMMA ConfirmLocked ==
    ASSUME TransactionsInv, NEW s \in Session, txn[s].kind = "confirm",
           NEW row \in Lockable, NEW next, Lock(s, row, next), RowExists(row),
           next \in PaymentTxn, MayHold(next, row[1]),
           \A name : MayHold(txn[s], name) => MayHold(next, name),
           ConfirmHolds(s)'
    PROVE  TransactionsInv' /\ UNCHANGED dbvars
<1>1. next.kind = "confirm" /\ txn'[s] = next
  BY LockTxn DEF PaymentTxn
<1>2. ReadsOf(s)'
  BY <1>1 DEF ReadsOf
<1> QED BY <1>1, <1>2, Locked

LEMMA ConfirmAttemptStep ==
    ASSUME TransactionsInv, NEW s \in Session, ConfirmAttempt(s)
    PROVE  TransactionsInv' /\ UNCHANGED dbvars
<1> DEFINE c == txn[s].c
           o == c.trade
           row == AttemptLock(o)
<1>1. /\ txn[s] \in PaymentTxn /\ txn[s].kind = "confirm" /\ txn[s].step = "attempt"
      /\ c \in Incoming /\ c.provider \in Provider /\ o \in Order
      /\ ConfirmHolds(s)
  <2>1. /\ txn[s] \in PaymentTxn /\ txn[s].kind = "confirm" /\ txn[s].step = "attempt"
        /\ c \in Incoming /\ c \in Confirmation /\ o \in Order /\ ConfirmHolds(s)
    BY Own, TxnShape, Names DEF ConfirmAttempt, At, SessionInv, ReadsOf
  <2> QED BY <2>1, ConfirmationFields
<1>2. CASE Rollback(s)
  BY <1>2, RolledBack
<1>3. ASSUME NEW step \in {"order", "event"}, NEW outcome \in {"none", "repeat"},
             NEW next, next = [txn[s] EXCEPT !.step = step, !.outcome = outcome],
             Acceptable(c), Lock(s, row, next),
             step = "order" => outcome = "none" /\ attempt[o].state # "succeeded",
             step = "event" => /\ outcome = "repeat"
                               /\ attempt[o].state = "succeeded" /\ attempt[o].txn = c.txn
      PROVE  TransactionsInv' /\ UNCHANGED dbvars
  <2>1. /\ next \in PaymentTxn /\ next.kind = "confirm" /\ next.c = c
        /\ next.step = step /\ next.outcome = outcome
    BY <1>1, <1>3 DEF PaymentTxn
  <2>2. Exists(o)
    BY <1>1, <1>3, NoneFresh
       DEF Acceptable, AttemptFound, Exists, TransactionsInv, IInv, UnknownIsAbsent
  <2>3. RowExists(row) /\ row \in Lockable
    BY <1>1, <2>2, RowsExist
  <2>4. MayHold(next, row[1]) /\ \A name : MayHold(txn[s], name) => MayHold(next, name)
    BY <1>1, <1>3, <2>1, LockParts DEF MayHold
  <2>5. /\ txn'[s] = next /\ held'[s] = held[s] \cup {row}
        /\ UNCHANGED <<now, info, product, order, attempt, event>>
    BY <1>3, LockTxn
  <2>6. Genuine(c)' /\ AttemptFound(c)' /\ OrderExpected(c)'
    BY <1>1, <1>3, <2>1, <2>5
       DEF ConfirmHolds, Genuine, Acceptable, AttemptFound, OrderExpected
  <2>7. KeysHold(s)'
    BY <1>3, <2>1, <2>5 DEF KeysHold
  <2>8. ConfirmHolds(s)'
    BY <1>1, <1>3, <2>1, <2>5, <2>6, <2>7 DEF ConfirmHolds, Holds, Acceptable
  <2> QED BY <1>1, <1>3, <2>1, <2>3, <2>4, <2>8, ConfirmLocked
<1>4. CASE /\ Acceptable(c) /\ attempt[o].state # "succeeded"
           /\ Lock(s, row, Goto(s, "order"))
  <2>1. txn[s].outcome = "none"
    BY <1>1 DEF ConfirmHolds
  <2>2. Goto(s, "order") = [txn[s] EXCEPT !.step = "order", !.outcome = "none"]
    BY <1>1, <2>1 DEF Goto, PaymentTxn
  <2> QED BY <1>3, <1>4, <2>2
<1>5. CASE /\ Acceptable(c) /\ attempt[o].state = "succeeded" /\ attempt[o].txn = c.txn
           /\ Lock(s, row, Outcome(s, "event", "repeat"))
  BY <1>3, <1>5 DEF Outcome
<1> QED BY <1>2, <1>4, <1>5 DEF ConfirmAttempt

LEMMA ConfirmOrderStep ==
    ASSUME TransactionsInv, NEW s \in Session, ConfirmOrder(s)
    PROVE  TransactionsInv' /\ UNCHANGED dbvars
<1> DEFINE c == txn[s].c
           o == c.trade
           row == OrderLock(o)
<1>1. /\ txn[s] \in PaymentTxn /\ txn[s].kind = "confirm" /\ txn[s].step = "order"
      /\ c \in Incoming /\ o \in Order /\ ConfirmHolds(s)
      /\ LockedExists(s)
  BY Own, TxnShape, Names DEF ConfirmOrder, At, SessionInv, ReadsOf
<1>2. CASE Rollback(s)
  BY <1>2, RolledBack
<1>3. ASSUME NEW step \in {"unit", "txn"}, NEW outcome \in {"release", "record", "apply"},
             NEW next, next = Outcome(s, step, outcome), Lock(s, row, next),
             order[o].amount = c.amount,
             step = "unit" => /\ order[o].status = "pending"
                              /\ \/ outcome = "release" /\ Late(c)
                                 \/ outcome = "apply" /\ ~Late(c),
             step = "txn" => /\ outcome = "record" /\ order[o].status # "pending"
                             /\ order[o].status = "expired" \/ Late(c)
      PROVE  TransactionsInv' /\ UNCHANGED dbvars
  <2>1. /\ next \in PaymentTxn /\ next.kind = "confirm" /\ next.c = c
        /\ next.step = step /\ next.outcome = outcome
    BY <1>1, <1>3 DEF PaymentTxn, Outcome
  <2>2. Exists(o)
    BY <1>1 DEF ConfirmHolds, Holds, LockedExists, RowExists
  <2>3. RowExists(row) /\ row \in Lockable
    BY <1>1, <2>2, RowsExist
  <2>4. MayHold(next, row[1]) /\ \A name : MayHold(txn[s], name) => MayHold(next, name)
    BY <1>1, <1>3, <2>1, LockParts DEF MayHold
  <2>5. /\ txn'[s] = next /\ held'[s] = held[s] \cup {row}
        /\ UNCHANGED <<now, info, product, order, attempt, event>>
    BY <1>3, LockTxn
  <2>6. Genuine(c)' /\ AttemptFound(c)' /\ OrderExpected(c)' /\ (Late(c)' <=> Late(c))
    BY <1>1, <1>3, <2>1, <2>5 DEF ConfirmHolds, Genuine, AttemptFound, OrderExpected, Late
  <2>7. KeysHold(s)'
    BY <1>3, <2>1, <2>5 DEF KeysHold
  <2>8. ConfirmHolds(s)'
    BY <1>1, <1>3, <2>1, <2>5, <2>6, <2>7 DEF ConfirmHolds, Holds
  <2> QED BY <1>1, <1>3, <2>1, <2>3, <2>4, <2>8, ConfirmLocked
<1>4. CASE /\ order[o].amount = c.amount /\ order[o].status = "pending" /\ Late(c)
           /\ Lock(s, row, Outcome(s, "unit", "release"))
  BY <1>3, <1>4
<1>5. CASE /\ order[o].amount = c.amount
           /\ order[o].status = "expired" \/ (Late(c) /\ order[o].status # "pending")
           /\ Lock(s, row, Outcome(s, "txn", "record"))
  BY <1>3, <1>5
<1>6. CASE /\ order[o].amount = c.amount /\ order[o].status = "pending" /\ ~Late(c)
           /\ Lock(s, row, Outcome(s, "unit", "apply"))
  BY <1>3, <1>6
<1> QED BY <1>2, <1>4, <1>5, <1>6 DEF ConfirmOrder

LEMMA ConfirmUnitStep ==
    ASSUME TransactionsInv, NEW s \in Session, ConfirmUnit(s)
    PROVE  TransactionsInv' /\ UNCHANGED dbvars
<1> DEFINE c == txn[s].c
           o == c.trade
           next == Goto(s, "txn")
           row == UnitLock(order[o].product)
<1>1. /\ txn[s] \in PaymentTxn /\ txn[s].kind = "confirm" /\ txn[s].step = "unit"
      /\ c \in Incoming /\ o \in Order /\ ConfirmHolds(s)
  BY Own, TxnShape, Names DEF ConfirmUnit, At, SessionInv, ReadsOf
<1>2. CASE Rollback(s)
  BY <1>2, RolledBack
<1>3. CASE HoldsReserved(o) /\ Lock(s, row, next)
  <2>1. /\ next \in PaymentTxn /\ next.kind = "confirm" /\ next.c = c
        /\ next.step = "txn" /\ next.outcome = txn[s].outcome
    BY <1>1 DEF PaymentTxn, Goto
  <2>2. order[o].product \in Product /\ RowExists(row) /\ row \in Lockable
    BY <1>1, <1>3, HeldUnit
  <2>3. MayHold(next, row[1]) /\ \A name : MayHold(txn[s], name) => MayHold(next, name)
    BY <1>1, <2>1, <2>2, LockParts DEF MayHold
  <2> HIDE DEF next
  <2>4. /\ txn'[s] = next /\ held'[s] = held[s] \cup {row}
        /\ UNCHANGED <<now, info, product, order, attempt, event>>
    BY <1>3, LockTxn
  <2>5. Genuine(c)' /\ AttemptFound(c)' /\ OrderExpected(c)' /\ (Late(c)' <=> Late(c))
    BY <1>1, <1>3, <2>1, <2>4 DEF ConfirmHolds, Genuine, AttemptFound, OrderExpected, Late
  <2>6. HoldsReserved(o)'
    BY <1>3, <2>1, <2>4 DEF HoldsReserved
  <2>7. KeysHold(s)'
    BY <2>1, <2>4 DEF KeysHold
  <2>8. ConfirmHolds(s)'
    BY <1>1, <2>1, <2>4, <2>5, <2>6, <2>7 DEF ConfirmHolds, Holds
  <2> QED BY <1>1, <1>3, <2>1, <2>2, <2>3, <2>8, ConfirmLocked
<1> QED BY <1>2, <1>3 DEF ConfirmUnit, UnitStep

LEMMA ConfirmTxnStep ==
    ASSUME TransactionsInv, NEW s \in Session, ConfirmTxn(s)
    PROVE  TransactionsInv' /\ UNCHANGED dbvars
<1> DEFINE c == txn[s].c
           o == c.trade
           next == Goto(s, "event")
           row == TxnLock(c)
<1>1. /\ txn[s] \in PaymentTxn /\ txn[s].kind = "confirm" /\ txn[s].step = "txn"
      /\ c \in Incoming /\ o \in Order /\ ConfirmHolds(s)
  BY Own, TxnShape, Names DEF ConfirmTxn, At, SessionInv, ReadsOf
<1>2. CASE Rollback(s)
  BY <1>2, RolledBack
<1>3. CASE TxnFree(c) /\ Lock(s, row, next)
  <2>1. /\ next \in PaymentTxn /\ next.kind = "confirm" /\ next.c = c
        /\ next.step = "event" /\ next.outcome = txn[s].outcome
    BY <1>1 DEF PaymentTxn, Goto
  <2>2. RowExists(row) /\ row \in Lockable
    BY <1>1, RowsExist
  <2>3. MayHold(next, row[1]) /\ \A name : MayHold(txn[s], name) => MayHold(next, name)
    BY <1>1, <2>1, LockParts DEF MayHold
  <2> HIDE DEF next
  <2>4. /\ txn'[s] = next /\ held'[s] = held[s] \cup {row}
        /\ UNCHANGED <<now, info, product, order, attempt, event>>
    BY <1>3, LockTxn
  <2>5. Genuine(c)' /\ AttemptFound(c)' /\ OrderExpected(c)' /\ (Late(c)' <=> Late(c))
    BY <1>1, <1>3, <2>1, <2>4 DEF ConfirmHolds, Genuine, AttemptFound, OrderExpected, Late
  <2>6. HoldsReserved(o)' <=> HoldsReserved(o)
    BY <2>1, <2>4 DEF HoldsReserved
  <2>7. KeysHold(s)'
    BY <1>3, <2>1, <2>4 DEF KeysHold, Holds, TxnFree
  <2>8. ConfirmHolds(s)'
    BY <1>1, <2>1, <2>4, <2>5, <2>6, <2>7 DEF ConfirmHolds, Holds
  <2> QED BY <1>1, <1>3, <2>1, <2>2, <2>3, <2>8, ConfirmLocked
<1> QED BY <1>2, <1>3 DEF ConfirmTxn

LEMMA ConfirmEventStep ==
    ASSUME TransactionsInv, NEW s \in Session, ConfirmEvent(s)
    PROVE  TransactionsInv' /\ UNCHANGED dbvars
<1> DEFINE c == txn[s].c
           o == c.trade
           next == Goto(s, "commit")
           row == EventLock(c)
<1>1. /\ txn[s] \in PaymentTxn /\ txn[s].kind = "confirm" /\ txn[s].step = "event"
      /\ c \in Incoming /\ o \in Order /\ ConfirmHolds(s)
  BY Own, TxnShape, Names DEF ConfirmEvent, At, SessionInv, ReadsOf
<1>2. CASE Rollback(s)
  BY <1>2, RolledBack
<1>3. CASE EventRows(c) = {} /\ Lock(s, row, next)
  <2>1. /\ next \in PaymentTxn /\ next.kind = "confirm" /\ next.c = c
        /\ next.step = "commit" /\ next.outcome = txn[s].outcome
    BY <1>1 DEF PaymentTxn, Goto
  <2>2. RowExists(row) /\ row \in Lockable
    BY <1>1, RowsExist
  <2>3. MayHold(next, row[1]) /\ \A name : MayHold(txn[s], name) => MayHold(next, name)
    BY <1>1, <2>1, LockParts DEF MayHold
  <2> HIDE DEF next
  <2>4. /\ txn'[s] = next /\ held'[s] = held[s] \cup {row}
        /\ UNCHANGED <<now, info, product, order, attempt, event>>
    BY <1>3, LockTxn
  <2>5. Genuine(c)' /\ AttemptFound(c)' /\ OrderExpected(c)' /\ (Late(c)' <=> Late(c))
    BY <1>1, <1>3, <2>1, <2>4 DEF ConfirmHolds, Genuine, AttemptFound, OrderExpected, Late
  <2>6. HoldsReserved(o)' <=> HoldsReserved(o)
    BY <2>1, <2>4 DEF HoldsReserved
  <2>7. KeysHold(s)'
    <3>1. EventRows(c)' = {} /\ (TxnFree(c)' <=> TxnFree(c))
      BY <1>3, <2>1, <2>4 DEF EventRows, TxnFree
    <3> QED BY <1>1, <2>1, <2>4, <3>1 DEF ConfirmHolds, KeysHold, Holds
  <2>8. ConfirmHolds(s)'
    BY <1>1, <2>1, <2>4, <2>5, <2>6, <2>7 DEF ConfirmHolds, Holds
  <2> QED BY <1>1, <1>3, <2>1, <2>2, <2>3, <2>8, ConfirmLocked
<1> QED BY <1>2, <1>3 DEF ConfirmEvent

-----------------------------------------------------------------------------
(* The rows of a bulk statement                                            *)

\* One row more is visited.
LEMMA VisitedRow ==
    ASSUME NEW s \in Session, txn[s] \in BulkTxn, NEW done \in SUBSET Product,
           NEW next \in Visited(txn[s], done)
    PROVE  /\ next \in BulkTxn /\ next.kind = txn[s].kind /\ next.target = txn[s].target
           /\ next.done = done
           /\ next.todo \cup {next.next} \subseteq txn[s].todo \cup {txn[s].next}
<1> DEFINE todo == txn[s].todo \ {txn[s].next}
<1>1. PICK p \in IF todo = {} THEN {txn[s].next} ELSE todo :
          next = [txn[s] EXCEPT !.next = p, !.todo = todo, !.done = done,
                                !.step = IF todo = {} THEN "commit" ELSE "row"]
  BY DEF Visited
<1>2. /\ p \in Product /\ p \in txn[s].todo \cup {txn[s].next}
      /\ todo \in SUBSET Product
      /\ (IF todo = {} THEN "commit" ELSE "row") \in {"row", "commit"}
  BY <1>1 DEF BulkTxn
<1> QED BY <1>1, <1>2 DEF BulkTxn

LEMMA StockRowStep ==
    ASSUME TransactionsInv, NEW s \in Session, StockRow(s)
    PROVE  TransactionsInv' /\ UNCHANGED dbvars
<1> DEFINE t == txn[s]
           row == ContentLock(t.next)
<1>1. /\ t \in BulkTxn /\ t.kind = "stock" /\ t.next \in Product
      /\ t.done \in SUBSET Product /\ BulkHolds(s)
  BY Own, TxnShape, Names DEF StockRow, At, SessionInv, ReadsOf
<1>2. CASE /\ product[t.next] = "absent"
           /\ \E next \in Visited(t, t.done \cup {t.next}) : Lock(s, row, next)
  <2>1. PICK next \in Visited(t, t.done \cup {t.next}) : Lock(s, row, next)
    BY <1>2
  <2>2. /\ next \in BulkTxn /\ next.kind = "stock" /\ next.target = t.target
        /\ next.done = t.done \cup {t.next}
        /\ next.todo \cup {next.next} \subseteq t.todo \cup {t.next}
    BY <1>1, VisitedRow
  <2>3. RowExists(row) /\ row \in Lockable
    BY <1>1, RowsExist
  <2>4. MayHold(next, row[1]) /\ \A name : MayHold(t, name) => MayHold(next, name)
    BY <1>1, <2>2, LockParts DEF MayHold
  <2>5. /\ txn'[s] = next /\ held'[s] = held[s] \cup {row}
        /\ UNCHANGED <<now, info, product, order, attempt, event>>
    BY <2>1, LockTxn
  <2>6. BulkHolds(s)'
    BY <1>1, <1>2, <2>2, <2>5 DEF BulkHolds, Holds
  <2>7. ReadsOf(s)'
    BY <2>2, <2>5, <2>6 DEF ReadsOf
  <2> QED BY <2>1, <2>2, <2>3, <2>4, <2>7, Locked
<1>3. CASE /\ \E next \in Visited(t, t.done) : txn' = [txn EXCEPT ![s] = next]
           /\ UNCHANGED <<dbvars, held>>
  <2>1. PICK next \in Visited(t, t.done) : txn' = [txn EXCEPT ![s] = next]
    BY <1>3
  <2>2. /\ next \in BulkTxn /\ next.kind = "stock" /\ next.target = t.target
        /\ next.done = t.done
        /\ next.todo \cup {next.next} \subseteq t.todo \cup {t.next}
    <3>1. ASSUME NEW done \in SUBSET Product, done = t.done
          PROVE  /\ next \in BulkTxn /\ next.kind = t.kind /\ next.target = t.target
                 /\ next.done = done
                 /\ next.todo \cup {next.next} \subseteq t.todo \cup {t.next}
      BY <1>1, <3>1, VisitedRow
    <3> QED BY <1>1, <3>1
  <2>3. /\ TransactionsTypeOK' /\ txn'[s] = next /\ held' = held
        /\ UNCHANGED <<now, info, product, order, attempt, event>>
        /\ \A u \in Session : u # s => txn'[u] = txn[u]
    BY <1>3, <2>1, <2>2, Own DEF TransactionsTypeOK, dbvars
  <2>4. BulkHolds(s)'
    BY <1>1, <2>2, <2>3 DEF BulkHolds, Holds
  <2>5. ReadsOf(s)'
    BY <2>2, <2>3, <2>4 DEF ReadsOf
  <2>6. LockedExists(s)' /\ LocksInOrder(s)'
    <3>1. LockedExists(s) /\ LocksInOrder(s)
      BY Own DEF SessionInv
    <3>2. \A r : RowExists(r) => RowExists(r)'
      BY <2>3 DEF RowExists, Exists
    <3>3. \A name : MayHold(t, name) => MayHold(next, name)
      BY <1>1, <2>2 DEF MayHold
    <3> QED BY <2>3, <3>1, <3>2, <3>3 DEF LockedExists, LocksInOrder
  <2>7. SessionInv(s)'
    BY <2>2, <2>3, <2>5, <2>6 DEF SessionInv, Idle
  <2>8. Lasting /\ \A u \in Session : u # s => Kept(u)
    BY <1>3, <2>3, QuietKept
  <2>9. IInv'
    BY <1>3, StepInvariant DEF TransactionsInv
  <2> QED BY <1>3, <2>2, <2>3, <2>7, <2>8, <2>9, OneSession
<1> QED BY <1>2, <1>3 DEF StockRow

LEMMA StatusRowStep ==
    ASSUME TransactionsInv, NEW s \in Session, StatusRow(s)
    PROVE  TransactionsInv' /\ UNCHANGED dbvars
<1> DEFINE t == txn[s]
           row == UnitLock(t.next)
           hit == IF product[t.next] = SourceStatus(t.target) THEN {t.next} ELSE {}
<1>1. /\ t \in BulkTxn /\ t.kind = "status" /\ t.next \in Product
      /\ t.done \in SUBSET Product /\ BulkHolds(s)
  BY Own, TxnShape, Names DEF StatusRow, At, SessionInv, ReadsOf
<1>2. PICK next \in Visited(t, t.done \cup hit) : Lock(s, row, next)
  BY DEF StatusRow
<1>3. /\ next \in BulkTxn /\ next.kind = "status" /\ next.target = t.target
      /\ next.done = t.done \cup hit
      /\ next.todo \cup {next.next} \subseteq t.todo \cup {t.next}
  BY <1>1, VisitedRow
<1>4. RowExists(row) /\ row \in Lockable
  BY <1>1, RowsExist DEF BulkHolds
<1>5. MayHold(next, row[1]) /\ \A name : MayHold(t, name) => MayHold(next, name)
  BY <1>1, <1>3, LockParts DEF MayHold
<1>6. /\ txn'[s] = next /\ held'[s] = held[s] \cup {row}
      /\ UNCHANGED <<now, info, product, order, attempt, event>>
  BY <1>2, LockTxn
<1>7. \A p \in t.done \cup hit : Holds(s, {UnitLock(p)})' /\ product[p] = SourceStatus(t.target)
  BY <1>1, <1>6 DEF BulkHolds, Holds
<1>8. \A p \in t.todo \cup t.done \cup {t.next} : product[p] # "absent"
  BY <1>1 DEF BulkHolds
<1>9. BulkHolds(s)'
  BY <1>1, <1>3, <1>6, <1>7, <1>8 DEF BulkHolds
<1>10. ReadsOf(s)'
  BY <1>3, <1>6, <1>9 DEF ReadsOf
<1> QED BY <1>2, <1>3, <1>4, <1>5, <1>10, Locked

-----------------------------------------------------------------------------
(* Commits                                                                 *)

\* A commit writes only what its session has locked.
WritesOwn(s) ==
    /\ info' = info
    /\ \A p \in Product : product'[p] # product[p] =>
          UnitLock(p) \in held[s] \/ (product[p] = "absent" /\ ContentLock(p) \in held[s])
    /\ \A o \in Order : order'[o] # order[o] => OrderLock(o) \in held[s]
    /\ \A o \in Order : attempt'[o] # attempt[o] => AttemptLock(o) \in held[s]
    /\ \A e \in event' : e \in event \/ <<"event", e.provider, e.id>> \in held[s]
    /\ \A o \in Order :
          \/ attempt'[o].txn = attempt[o].txn /\ attempt'[o].provider = attempt[o].provider
          \/ <<"txn", attempt'[o].provider, attempt'[o].txn>> \in held[s]

\* So it changes nothing another session has read under its locks.
LEMMA OwnWrites ==
    ASSUME TransactionsInv, NEW s \in Session, NEW u \in Session, u # s,
           OnlyTxn(s, Idle), OnlyHeld(s, {}), WritesOwn(s)
    PROVE  Kept(u)
<1>1. /\ txn'[u] = txn[u] /\ held'[u] = held[u]
      /\ SessionInv(u) /\ SessionInv(s) /\ TransactionsTypeOK
      /\ \A row \in held[s] : row \notin held[u]
  BY Own DEF OnlyTxn, OnlyHeld, TransactionsInv, ReadsHold, LocksOK
<1>2. \A p \in Product : UnitLock(p) \in held[s] \/ UnitLock(p) \in held[u] =>
          product[p] # "absent"
  BY <1>1 DEF SessionInv, LockedExists, RowExists
<1>3. \A p \in Product : UnitLock(p) \in held[u] => product'[p] = product[p]
  BY <1>1, <1>2 DEF WritesOwn
<1>4. \A p \in Product : ContentLock(p) \in held[u] /\ product[p] = "absent" =>
          product'[p] = "absent"
  BY <1>1, <1>2 DEF WritesOwn
<1>5. \A o \in Order : /\ OrderLock(o) \in held[u] => order'[o] = order[o]
                       /\ AttemptLock(o) \in held[u] => attempt'[o] = attempt[o]
  BY <1>1 DEF WritesOwn
<1>6. txn[u].kind = "checkout" => order'[txn[u].o] = order[txn[u].o]
  <2> SUFFICES ASSUME txn[u].kind = "checkout", order'[txn[u].o] # order[txn[u].o]
               PROVE  FALSE
    OBVIOUS
  <2>1. txn[u].o \in Order /\ order[txn[u].o].status = "absent"
    BY <1>1, Names DEF SessionInv, ReadsOf, CheckoutHolds
  <2>2. Exists(txn[u].o)
    BY <1>1, <2>1 DEF WritesOwn, SessionInv, LockedExists, RowExists
  <2> QED BY <2>1, <2>2 DEF TransactionsInv, IInv, LifecycleCoherence, Exists
<1>7. txn[u].kind = "confirm" =>
          LET c == txn[u].c IN
          /\ EventLock(c) \in held[u] /\ EventRows(c) = {} => EventRows(c)' = {}
          /\ TxnLock(c) \in held[u] /\ TxnFree(c) => TxnFree(c)'
  <2> DEFINE c == txn[u].c
  <2>1. ASSUME EventLock(c) \in held[u], EventRows(c) = {}, NEW e \in EventRows(c)'
        PROVE  FALSE
    <3>1. e \in event' /\ e.provider = c.provider /\ e.id = c.id /\ e \notin event
      BY <1>1, <2>1 DEF EventRows
    <3>2. <<"event", e.provider, e.id>> = EventLock(c)
      BY <3>1 DEF EventLock
    <3> QED BY <1>1, <2>1, <3>1, <3>2 DEF WritesOwn
  <2>2. ASSUME TxnLock(c) \in held[u], TxnFree(c), NEW q \in Order, q # c.trade,
               attempt'[q].provider = c.provider, attempt'[q].txn = c.txn
        PROVE  FALSE
    <3>1. ~(attempt'[q].txn = attempt[q].txn /\ attempt'[q].provider = attempt[q].provider)
      BY <2>2 DEF TxnFree
    <3>2. <<"txn", attempt'[q].provider, attempt'[q].txn>> = TxnLock(c)
      BY <2>2 DEF TxnLock
    <3> QED BY <1>1, <2>2, <3>1, <3>2 DEF WritesOwn
  <2> QED BY <1>1, <2>1, <2>2 DEF TxnFree
<1>8. \A i \in Info : info'[i] = info[i]
  BY DEF WritesOwn
<1> QED BY <1>1, <1>3, <1>4, <1>5, <1>6, <1>7, <1>8 DEF Kept

LEMMA Committed ==
    ASSUME TransactionsInv, NEW s \in Session, Done(s), [Next]_dbvars, Lasting,
           WritesOwn(s)
    PROVE  TransactionsInv'
  BY Finished, OwnWrites

LEMMA PublishCommitStep ==
    ASSUME TransactionsInv, NEW s \in Session, PublishCommit(s)
    PROVE  TransactionsInv' /\ [Next]_dbvars
<1> DEFINE o == txn[s].o
<1>1. o \in Order /\ PublishHolds(s) /\ txn[s].step = "commit" /\ Done(s)
  BY Own, Names DEF PublishCommit, At, SessionInv, ReadsOf
<1>2. PICK at \in 0 .. now : CanPublish(o, at)
  BY <1>1 DEF PublishHolds
<1>3. PublishReady(o, at)
  BY <1>2 DEF PublishCommit, PublishReady
<1>4. Next
  BY <1>1, <1>2, <1>3 DEF Next, OrderNext
<1>5. /\ attempt'[o].state = "ready"
      /\ attempt'[o].provider = attempt[o].provider /\ attempt'[o].txn = attempt[o].txn
      /\ \A q \in Order : q # o => attempt'[q] = attempt[q]
  BY <1>1, AttemptStateEffect DEF PublishCommit, TransactionsInv, IInv
<1>6. UNCHANGED <<now, info, product, order, event>> /\ now \in Nat
  BY TimeAssumption DEF PublishCommit, TransactionsInv, IInv, TypeOK
<1>7. Lasting
  BY <1>5, <1>6 DEF Lasting, Exists
<1>8. WritesOwn(s)
  BY <1>1, <1>5, <1>6 DEF WritesOwn, PublishHolds, Holds
<1> QED BY <1>1, <1>4, <1>7, <1>8, Committed

LEMMA ExpireCommitStep ==
    ASSUME TransactionsInv, NEW s \in Session, ExpireCommit(s)
    PROVE  TransactionsInv' /\ [Next]_dbvars
<1> DEFINE o == txn[s].o
           p == order[o].product
<1>1. o \in Order /\ ExpireHolds(s) /\ txn[s].step = "commit" /\ Done(s)
  BY Own, Names DEF ExpireCommit, At, SessionInv, ReadsOf
<1>2. /\ Expirable(o) /\ HoldsReserved(o)
      /\ {AttemptLock(o), OrderLock(o), UnitLock(p)} \subseteq held[s]
  BY <1>1 DEF ExpireHolds, Holds
<1>3. ReleaseInventory(o)
  BY <1>2 DEF ExpireCommit, ReleaseUnit, ReleaseInventory
<1>4. Next
  BY <1>1, <1>2, <1>3 DEF ExpireCommit, ExpireReserved, Next, OrderNext
<1>5. /\ attempt'[o].state = "closed"
      /\ attempt'[o].provider = attempt[o].provider /\ attempt'[o].txn = attempt[o].txn
      /\ \A q \in Order : q # o => attempt'[q] = attempt[q]
  BY <1>1, AttemptStateEffect DEF ExpireCommit, TransactionsInv, IInv
<1>6. /\ product'[p] = "available" /\ \A q \in Product : q # p => product'[q] = product[q]
      /\ \A q \in Order : q # o => order'[q] = order[q]
  BY <1>1, <1>3, ReleaseEffect DEF TransactionsInv, IInv
<1>7. UNCHANGED <<now, info, event>> /\ now \in Nat
  BY TimeAssumption DEF ExpireCommit, TransactionsInv, IInv, TypeOK
<1>8. Lasting
  BY <1>5, <1>6, <1>7 DEF Lasting, Exists
<1>9. WritesOwn(s)
  BY <1>2, <1>5, <1>6, <1>7 DEF WritesOwn
<1> QED BY <1>1, <1>4, <1>8, <1>9, Committed

\* A confirmation commits as the confirm_payment its outcome names.
LEMMA ConfirmCommitStep ==
    ASSUME TransactionsInv, NEW s \in Session, ConfirmCommit(s)
    PROVE  TransactionsInv' /\ [Next]_dbvars
<1> USE DEF TransactionsInv
<1> DEFINE c == txn[s].c
           o == c.trade
           outcome == txn[s].outcome
           p == order[o].product
<1>1. /\ c \in Confirmation /\ c \in Incoming /\ o \in Order /\ txn[s].step = "commit"
      /\ ConfirmHolds(s) /\ Done(s)
  BY Own, Names DEF ConfirmCommit, At, SessionInv, ReadsOf
<1>2. /\ Genuine(c) /\ AttemptLock(o) \in held[s]
      /\ EventLock(c) \in held[s] /\ EventRows(c) = {}
      /\ outcome # "repeat" => TxnLock(c) \in held[s] /\ TxnFree(c)
      /\ Acceptable(c)
  BY <1>1 DEF ConfirmHolds, KeysHold, Holds, Acceptable
<1>3. /\ InsertEvent(c) /\ UNCHANGED <<now, info>> /\ now \in Nat
  <2>1. now \in Nat
    BY TimeAssumption DEF IInv, TypeOK
  <2>2. InsertEvent(c) /\ UNCHANGED <<now, info>>
    BY DEF ConfirmCommit
  <2> QED BY <2>1, <2>2
<1>4. \A e \in event' : e \in event \/ <<"event", e.provider, e.id>> \in held[s]
  BY <1>2, <1>3 DEF InsertEvent, EventLock
<1>5. CASE outcome = "repeat"
  <2>1. UNCHANGED <<product, order, attempt>>
    BY <1>5 DEF ConfirmCommit
  <2>2. RepeatPayment(c)
    BY <1>1, <1>2, <1>3, <1>5, <2>1 DEF ConfirmHolds, RepeatPayment
  <2>3. Next
    BY <1>1, <1>2, <2>2 DEF Next, PaymentNext, ConfirmPayment
  <2>4. Lasting /\ WritesOwn(s)
    BY <1>3, <1>4, <2>1 DEF Lasting, WritesOwn, Exists
  <2> QED BY <1>1, <2>3, <2>4, Committed
<1>6. CASE outcome # "repeat"
  <2>1. MarkSucceeded(c)
    BY <1>2, <1>6 DEF ConfirmCommit, MarkSucceeded
  <2>2. /\ attempt'[o].state = "succeeded"
        /\ attempt'[o].provider = attempt[o].provider /\ attempt'[o].txn = c.txn
        /\ \A q \in Order : q # o => attempt'[q] = attempt[q]
    BY <1>1, <2>1, SucceedEffect DEF IInv
  <2>3. <<"txn", attempt'[o].provider, attempt'[o].txn>> \in held[s]
    BY <1>2, <1>6, <2>2 DEF TxnLock, Acceptable, AttemptFound
  <2>4. /\ outcome \in {"release", "apply", "record"} /\ OrderLock(o) \in held[s]
        /\ order[o].amount = c.amount /\ attempt[o].state # "succeeded"
    BY <1>1, <1>6 DEF ConfirmHolds, Holds, ConfirmCommit
  <2>5. CASE outcome = "record"
    <3>1. UNCHANGED <<product, order>>
      BY <2>5 DEF ConfirmCommit
    <3>2. RecordAfterExpiry(c)
      BY <1>1, <1>2, <1>3, <2>1, <2>4, <2>5, <3>1 DEF ConfirmHolds, RecordAfterExpiry
    <3>3. Next
      BY <1>1, <1>2, <3>2 DEF Next, PaymentNext, ConfirmPayment
    <3>4. Lasting /\ WritesOwn(s)
      BY <1>1, <1>2, <1>3, <1>4, <2>2, <2>3, <3>1 DEF Lasting, WritesOwn, Exists
    <3> QED BY <1>1, <3>3, <3>4, Committed
  <2>6. CASE outcome \in {"release", "apply"}
    <3>1. /\ HoldsReserved(o) /\ UnitLock(p) \in held[s] /\ order[o].status = "pending"
          /\ outcome = "release" <=> Late(c)
      BY <1>1, <2>6 DEF ConfirmHolds, Holds
    <3>2. /\ outcome = "release" => ReleaseInventory(o)
          /\ outcome = "apply" => DeliverInventory(o)
      BY <3>1 DEF ConfirmCommit, ReleaseUnit, ReleaseInventory, DeliverInventory
    <3>3. /\ product'[p] # "absent"
          /\ \A q \in Product : q # p => product'[q] = product[q]
          /\ \A q \in Order : q # o => order'[q] = order[q]
      BY <1>1, <2>6, <3>2, ReleaseEffect, DeliverEffect DEF IInv
    <3>4. RecordAfterExpiry(c) \/ ApplyPayment(c)
      <4>1. CASE outcome = "release"
        BY <1>2, <1>3, <2>1, <2>4, <3>1, <3>2, <4>1 DEF RecordAfterExpiry
      <4>2. CASE outcome = "apply"
        BY <1>2, <1>3, <2>1, <2>4, <3>1, <3>2, <4>2 DEF ApplyPayment
      <4> QED BY <2>6, <4>1, <4>2
    <3>5. Next
      BY <1>1, <1>2, <3>4 DEF Next, PaymentNext, ConfirmPayment
    <3>6. Lasting
      BY <1>3, <2>2, <3>3 DEF Lasting, Exists
    <3>7. WritesOwn(s)
      BY <1>1, <1>2, <1>3, <1>4, <2>2, <2>3, <2>4, <3>1, <3>3 DEF WritesOwn
    <3> QED BY <1>1, <3>5, <3>6, <3>7, Committed
  <2> QED BY <2>4, <2>5, <2>6
<1> QED BY <1>5, <1>6

LEMMA BulkCommitStep ==
    ASSUME TransactionsInv, NEW s \in Session, BulkCommit(s)
    PROVE  TransactionsInv' /\ [Next]_dbvars
<1> USE DEF TransactionsInv
<1> DEFINE t == txn[s]
<1>1. /\ t.kind \in {"stock", "status"} /\ t.done \subseteq Product
      /\ t.target \in {"available", "disabled"}
      /\ BulkHolds(s) /\ Done(s)
  BY Own, Names DEF BulkCommit, SessionInv, ReadsOf
<1>2. /\ UNCHANGED <<now, info, order, attempt, event>> /\ now \in Nat
      /\ product' = [p \in Product |-> IF p \in t.done THEN t.target ELSE product[p]]
  BY TimeAssumption DEF BulkCommit, IInv, TypeOK
<1>3. Lasting
  BY <1>1, <1>2 DEF Lasting, Exists
<1>4. WritesOwn(s)
  BY <1>1, <1>2 DEF WritesOwn, BulkHolds, Holds
<1>5. [Next]_dbvars
  <2>1. CASE t.done = {}
    <3>1. product' = product
      BY <1>2, <2>1 DEF IInv, TypeOK
    <3> QED BY <1>2, <3>1 DEF dbvars
  <2>2. CASE t.done # {} /\ t.kind = "stock"
    <3>1. /\ t.target = "available"
          /\ \A p \in t.done : product[p] = "absent"
      BY <1>1, <2>2 DEF BulkHolds
    <3>2. PICK i \in Info : info[i].state # "absent" /\ \A p \in t.done : InfoOf[p] = i
      BY <1>1, <2>2 DEF BulkHolds
    <3>3. product' = [p \in Product |-> IF p \in t.done /\ product[p] = "absent"
                                        THEN "available" ELSE product[p]]
      BY <1>2, <3>1
    <3>4. CreateProduct(i, t.done)
      BY <1>2, <2>2, <3>2, <3>3 DEF CreateProduct
    <3> QED BY <1>1, <3>4 DEF Next, AdminNext
  <2>3. CASE t.done # {} /\ t.kind = "status"
    <3>1. \A p \in t.done : product[p] = SourceStatus(t.target)
      BY <1>1, <2>3 DEF BulkHolds
    <3>2. product' = [p \in Product |->
                         IF p \in t.done /\ product[p] = SourceStatus(t.target)
                         THEN t.target ELSE product[p]]
      BY <1>2, <3>1
    <3>3. UpdateProductStatus(t.done, t.target)
      BY <1>1, <1>2, <2>3, <3>2 DEF UpdateProductStatus
    <3> QED BY <1>1, <3>3 DEF Next, AdminNext
  <2> QED BY <1>1, <2>1, <2>2, <2>3
<1> QED BY <1>1, <1>3, <1>4, <1>5, Committed

-----------------------------------------------------------------------------
(* Single statements and the clock                                         *)

\* When no session moves, and what they have locked is not written.
LEMMA NobodyMoves ==
    ASSUME TransactionsInv, UNCHANGED <<txn, held>>, [Next]_dbvars, Lasting,
           \A s \in Session : Kept(s)
    PROVE  TransactionsInv'
<1>1. IInv'
  BY StepInvariant DEF TransactionsInv
<1>2. \A s \in Session : SessionInv(s)'
  BY <1>1, OthersStand
<1>3. LocksOK' /\ OrdersApart' /\ TransactionsTypeOK'
  BY DEF TransactionsInv, ReadsHold, LocksOK, OrdersApart, TransactionsTypeOK
<1> QED BY <1>1, <1>2, <1>3 DEF TransactionsInv, ReadsHold, SessionInv

LEMMA TickStep ==
    ASSUME TransactionsInv, Tick, UNCHANGED <<txn, held>>
    PROVE  TransactionsInv' /\ [Next]_dbvars
<1>1. now \in Nat /\ now' = now + 1 /\ UNCHANGED <<info, product, order, attempt, event>>
  BY TimeAssumption DEF Tick, TransactionsInv, IInv, TypeOK
<1>2. Lasting
  BY <1>1 DEF Lasting, Exists
<1>3. \A s \in Session : Kept(s)
  BY <1>1 DEF Kept, EventRows, TxnFree
<1> QED BY <1>2, <1>3, NobodyMoves DEF Next

LEMMA SingleStep ==
    ASSUME TransactionsInv, SingleStatement
    PROVE  TransactionsInv' /\ [Next]_dbvars
<1> USE DEF TransactionsInv
<1>1. /\ now \in Nat /\ info \in [Info -> InfoRow] /\ TypeOK
      /\ UNCHANGED <<txn, held>>
  BY TimeAssumption DEF IInv, TypeOK, SingleStatement
<1>2. ASSUME NEW i \in Info, NEW row, info' = [info EXCEPT ![i] = row],
             row.state # "absent",
             info[i].state # "absent" => Unlocked(InfoLock(i)),
             UNCHANGED <<now, product, order, attempt, event>>
      PROVE  Lasting /\ \A s \in Session : Kept(s)
  <2>1. info'[i] = row /\ \A j \in Info : j # i => info'[j] = info[j]
    BY <1>1, <1>2
  <2>2. Lasting
    BY <1>1, <1>2, <2>1 DEF Lasting, Exists
  <2>3. ASSUME NEW s \in Session PROVE Kept(s)
    <3>1. InfoLock(i) \notin held[s]
      BY <1>2, Own DEF SessionInv, LockedExists, RowExists, Unlocked
    <3> QED BY <1>1, <1>2, <2>1, <3>1 DEF Kept, EventRows, TxnFree
  <2> QED BY <2>2, <2>3
<1>3. ASSUME NEW i \in Info, NEW price \in Price, NEW active \in BOOLEAN,
             CreateProductInfo(i, price, active)
      PROVE  Lasting /\ (\A s \in Session : Kept(s)) /\ Next
  <2> DEFINE row == [state |-> IF active THEN "active" ELSE "inactive", price |-> price]
  <2>1. /\ info' = [info EXCEPT ![i] = row] /\ row.state # "absent"
        /\ info[i].state = "absent"
        /\ UNCHANGED <<now, product, order, attempt, event>>
    BY <1>3 DEF CreateProductInfo
  <2>2. Next
    BY <1>3 DEF Next, AdminNext
  <2> HIDE DEF row
  <2> QED BY <1>2, <2>1, <2>2
<1>4. ASSUME NEW i \in Info, NEW price \in Price, Unlocked(InfoLock(i)),
             UpdateProductInfo(i, price)
      PROVE  Lasting /\ (\A s \in Session : Kept(s)) /\ Next
  <2> DEFINE row == [info[i] EXCEPT !.price = price]
  <2>1. /\ info' = [info EXCEPT ![i] = row] /\ row.state # "absent"
        /\ UNCHANGED <<now, product, order, attempt, event>>
    BY <1>1, <1>4 DEF UpdateProductInfo, InfoRow
  <2>2. Next
    BY <1>4 DEF Next, AdminNext
  <2> HIDE DEF row
  <2> QED BY <1>2, <1>4, <2>1, <2>2
<1>5. ASSUME NEW i \in Info, NEW active \in BOOLEAN, Unlocked(InfoLock(i)),
             UpdateProductInfoActive(i, active)
      PROVE  Lasting /\ (\A s \in Session : Kept(s)) /\ Next
  <2> DEFINE row == [info[i] EXCEPT !.state = IF active THEN "active" ELSE "inactive"]
  <2>1. /\ info' = [info EXCEPT ![i] = row] /\ row.state # "absent"
        /\ UNCHANGED <<now, product, order, attempt, event>>
    BY <1>1, <1>5 DEF UpdateProductInfoActive, InfoRow
  <2>2. Next
    BY <1>5 DEF Next, AdminNext
  <2> HIDE DEF row
  <2> QED BY <1>2, <1>5, <2>1, <2>2
<1>6. ASSUME NEW o \in Order, Unlocked(AttemptLock(o)), MarkFailed(o)
      PROVE  Lasting /\ (\A s \in Session : Kept(s)) /\ Next
  <2>1. /\ attempt'[o].state = "failed"
        /\ attempt'[o].provider = attempt[o].provider /\ attempt'[o].txn = attempt[o].txn
        /\ \A q \in Order : q # o => attempt'[q] = attempt[q]
    BY <1>1, <1>6, AttemptStateEffect DEF MarkFailed
  <2>2. UNCHANGED <<now, info, product, order, event>>
    BY <1>6 DEF MarkFailed
  <2>3. Lasting
    BY <1>1, <2>1, <2>2 DEF Lasting, Exists
  <2>4. \A s \in Session : Kept(s)
    BY <1>1, <1>6, <2>1, <2>2 DEF Kept, EventRows, TxnFree, Unlocked
  <2>5. Next
    BY <1>6 DEF Next, OrderNext
  <2> QED BY <2>3, <2>4, <2>5
<1>7. Lasting /\ (\A s \in Session : Kept(s)) /\ Next
  BY <1>3, <1>4, <1>5, <1>6 DEF SingleStatement
<1> QED BY <1>1, <1>7, NobodyMoves

-----------------------------------------------------------------------------
(* The theorems                                                            *)

LEMMA TransactionsStep ==
    ASSUME TransactionsInv, [TransactionsNext]_tvars
    PROVE  TransactionsInv' /\ [Next]_dbvars
<1>1. CASE UNCHANGED tvars
  <2>1. UNCHANGED <<txn, held>> /\ UNCHANGED dbvars
    BY <1>1 DEF tvars
  <2>2. Lasting /\ \A s \in Session : Kept(s)
    BY <2>1, QuietKept
  <2> QED BY <2>1, <2>2, NobodyMoves
<1>2. CASE Tick /\ UNCHANGED <<txn, held>>
  BY <1>2, TickStep
<1>3. CASE SingleStatement
  BY <1>3, SingleStep
<1>4. ASSUME NEW s \in Session, Start(s)
      PROVE  TransactionsInv' /\ [Next]_dbvars
  BY <1>4, StartStep
<1>5. ASSUME NEW s \in Session, Statement(s)
      PROVE  TransactionsInv' /\ [Next]_dbvars
  <2>1. CASE CheckoutInfo(s) \/ CheckoutUnit(s) \/ CheckoutCommit(s)
    BY <2>1, CheckoutInfoStep, CheckoutUnitStep, CheckoutCommitStep
  <2>2. CASE PublishAttempt(s) \/ PublishOrder(s) \/ PublishCommit(s)
    BY <2>2, PublishAttemptStep, PublishOrderStep, PublishCommitStep
  <2>3. CASE ExpireAttempt(s) \/ ExpireOrder(s) \/ ExpireUnit(s) \/ ExpireCommit(s)
    BY <2>3, ExpireAttemptStep, ExpireOrderStep, ExpireUnitStep, ExpireCommitStep
  <2>4. CASE ConfirmAttempt(s) \/ ConfirmOrder(s) \/ ConfirmUnit(s)
    BY <2>4, ConfirmAttemptStep, ConfirmOrderStep, ConfirmUnitStep
  <2>5. CASE ConfirmTxn(s) \/ ConfirmEvent(s) \/ ConfirmCommit(s)
    BY <2>5, ConfirmTxnStep, ConfirmEventStep, ConfirmCommitStep
  <2>6. CASE StockRow(s) \/ StatusRow(s) \/ BulkCommit(s)
    BY <2>6, StockRowStep, StatusRowStep, BulkCommitStep
  <2> QED BY <1>5, <2>1, <2>2, <2>3, <2>4, <2>5, <2>6 DEF Statement
<1>6. ASSUME NEW s \in Session, Abort(s)
      PROVE  TransactionsInv' /\ [Next]_dbvars
  BY <1>6, RolledBack DEF Abort
<1> QED BY <1>1, <1>2, <1>3, <1>4, <1>5, <1>6 DEF TransactionsNext

LEMMA TransactionsStart == TransactionsInit => TransactionsInv
<1> SUFFICES ASSUME TransactionsInit PROVE TransactionsInv
  OBVIOUS
<1>1. IInv
  BY InitInvariant DEF TransactionsInit
<1>2. \A s \in Session : txn[s] = Idle /\ held[s] = {}
  BY DEF TransactionsInit
<1>3. TransactionsTypeOK
  BY DEF TransactionsInit, TransactionsTypeOK
<1>4. \A s \in Session : ReadsOf(s) /\ LockedExists(s) /\ LocksInOrder(s)
  BY <1>2 DEF ReadsOf, Idle, LockedExists, LocksInOrder
<1>5. LocksOK /\ OrdersApart
  BY <1>2 DEF LocksOK, OrdersApart, Idle
<1> QED BY <1>1, <1>3, <1>4, <1>5 DEF TransactionsInv, ReadsHold

\* Whatever a transaction has read under its locks still holds when it commits,
\* for any number of sessions (the comments at public.rs:480-482, 699-701).
THEOREM ReadsStay == TransactionsSpec => []TransactionsInv
<1>1. TransactionsInv /\ [TransactionsNext]_tvars => TransactionsInv'
  BY TransactionsStep
<1> QED BY <1>1, TransactionsStart, PTL DEF TransactionsSpec

\* The interleaved transactions change the tables as whole transactions of
\* OrderDb do, each at its commit (the comments at public.rs:480, 699-701).
THEOREM AtomicCommits == TransactionsSpec => Atomic
<1>1. TransactionsInv /\ [TransactionsNext]_tvars => [Next]_dbvars
  BY TransactionsStep
<1> QED BY <1>1, ReadsStay, PTL DEF TransactionsSpec, Atomic

\* So the sessions together implement OrderDb, and with it the abstract sale.
THEOREM ImplementsOrderDb == TransactionsSpec => Spec
<1>1. TransactionsInit => Init
  BY DEF TransactionsInit
<1> QED BY <1>1, AtomicCommits, PTL DEF TransactionsSpec, Atomic, Spec

\* Statement by statement, with locks, waits and aborts, every purchase still
\* runs as the abstract sale says (public.rs:477-574, service.rs:42-261,
\* expiration.rs:324-414).
THEOREM ImplementsSale == TransactionsSpec => Lifecycle
  BY ImplementsOrderDb, Implements, PTL

-----------------------------------------------------------------------------
(* Deadlocks                                                               *)

\* What a session at a step waits for.
WaitsFor(t, name) ==
    \/ name = "info" /\ t.kind = "checkout" /\ t.step = "info"
    \/ /\ name \in {"attempt", "order"}
       /\ t.kind \in {"publish", "expire", "confirm"} /\ t.step = name
    \/ /\ name = "product"
       /\ \/ t.kind \in {"expire", "confirm"} /\ t.step = "unit"
          \/ t.kind = "status" /\ t.step = "row"
    \/ name \in {"txn", "event"} /\ t.kind = "confirm" /\ t.step = name
    \/ name = "content" /\ t.kind = "stock" /\ t.step = "row"

LEMMA WantedLock ==
    ASSUME NEW s \in Session, NEW row \in Wants(s)
    PROVE  WaitsFor(txn[s], row[1])
<1> DEFINE t == txn[s]
<1>1. CASE t.kind = "checkout" /\ t.step = "info"
  BY <1>1 DEF Wants, WaitsFor, InfoLock
<1>2. CASE t.kind = "publish" /\ t.step \in {"attempt", "order"}
  BY <1>2 DEF Wants, WaitsFor, PublishLocks, AttemptLock, OrderLock
<1>3. CASE t.kind = "expire" /\ t.step \in {"attempt", "order", "unit"}
  BY <1>3 DEF Wants, WaitsFor, AttemptLock, OrderLock, UnitLock
<1>4. CASE t.kind = "confirm" /\ t.step \in {"attempt", "order", "unit", "txn", "event"}
  BY <1>4 DEF Wants, WaitsFor, AttemptLock, OrderLock, UnitLock, TxnLock, EventLock
<1>5. CASE t.kind \in {"stock", "status"} /\ t.step = "row"
  BY <1>5 DEF Wants, WaitsFor, ContentLock, UnitLock
<1> QED BY <1>1, <1>2, <1>3, <1>4, <1>5 DEF Wants

\* Who waits in a deadlock waits for somebody who waits, too.
LEMMA Waiting ==
    ASSUME TransactionsInv, NEW set \in SUBSET Session, Deadlocked(set), NEW s \in set
    PROVE  \E t \in set : \E name, other :
               /\ Blocks(t, s)
               /\ WaitsFor(txn[s], name) /\ MayHold(txn[t], name)
               /\ WaitsFor(txn[t], other)
<1>1. PICK t \in set : Blocks(t, s)
  BY DEF Deadlocked
<1>2. PICK row \in Wants(s) : row \in held[t]
  BY <1>1 DEF Blocks
<1>3. WaitsFor(txn[s], row[1])
  BY <1>2, WantedLock
<1>4. MayHold(txn[t], row[1])
  BY <1>2, Own DEF SessionInv, LocksInOrder
<1>5. PICK u \in set : Blocks(u, t)
  BY DEF Deadlocked
<1>6. PICK other \in Wants(t) : TRUE
  BY <1>5 DEF Blocks
<1>7. WaitsFor(txn[t], other[1])
  BY <1>6, WantedLock
<1> QED BY <1>1, <1>3, <1>4, <1>7

LEMMA LockOrder == TransactionsInv => NoDeadlock
<1> SUFFICES ASSUME TransactionsInv, NEW set \in SUBSET Session, Deadlocked(set)
             PROVE  \E kind \in {"stock", "status"} :
                        Deadlocked({s \in set : txn[s].kind = kind})
  BY DEF NoDeadlock
<1>1. \A s \in set : ~WaitsFor(txn[s], "event")
  BY Waiting DEF WaitsFor, MayHold
<1>2. \A s \in set : ~WaitsFor(txn[s], "txn")
  BY <1>1, Waiting DEF WaitsFor, MayHold
<1>3. \A s \in set : WaitsFor(txn[s], "product") =>
          \E t \in set : Blocks(t, s) /\ txn[t].kind = "status"
  BY <1>1, <1>2, Waiting DEF WaitsFor, MayHold
<1>4. \A s \in set : WaitsFor(txn[s], "content") =>
          \E t \in set : Blocks(t, s) /\ txn[t].kind = "stock"
  BY Waiting DEF WaitsFor, MayHold
<1>5. CASE \E s \in set : txn[s].kind = "status"
  <2> DEFINE bulk == {s \in set : txn[s].kind = "status"}
  <2>1. \A s \in bulk : WaitsFor(txn[s], "product")
    BY Waiting DEF WaitsFor
  <2>2. Deadlocked(bulk)
    BY <1>3, <1>5, <2>1 DEF Deadlocked
  <2> QED BY <2>2
<1>6. CASE \E s \in set : txn[s].kind = "stock"
  <2> DEFINE bulk == {s \in set : txn[s].kind = "stock"}
  <2>1. \A s \in bulk : WaitsFor(txn[s], "content")
    BY Waiting DEF WaitsFor
  <2>2. Deadlocked(bulk)
    BY <1>4, <1>6, <2>1 DEF Deadlocked
  <2> QED BY <2>2
<1>7. CASE \A s \in set : txn[s].kind \notin {"stock", "status"}
  <2>1. \A s \in set : ~WaitsFor(txn[s], "product") /\ ~WaitsFor(txn[s], "content")
    BY <1>3, <1>4, <1>7
  <2>2. \A s \in set : ~WaitsFor(txn[s], "order")
    BY <1>1, <1>2, <2>1, Waiting DEF WaitsFor, MayHold
  <2>3. \A s \in set : ~WaitsFor(txn[s], "attempt")
    BY <1>1, <1>2, <2>1, <2>2, Waiting DEF WaitsFor, MayHold
  <2>4. \A s \in set : ~WaitsFor(txn[s], "info")
    BY Waiting DEF WaitsFor, MayHold
  <2>5. PICK s \in set : TRUE
    BY DEF Deadlocked
  <2>6. PICK name : WaitsFor(txn[s], name)
    BY <2>5, Waiting
  <2> QED BY <1>1, <1>2, <2>1, <2>2, <2>3, <2>4, <2>6 DEF WaitsFor
<1> QED BY <1>5, <1>6, <1>7

\* Only bulk edits can deadlock, and only with each other: everybody else locks
\* in one order (public.rs:699, expiration.rs:322-323).
THEOREM DeadlockFree == TransactionsSpec => []NoDeadlock
  BY ReadsStay, LockOrder, PTL
=============================================================================
