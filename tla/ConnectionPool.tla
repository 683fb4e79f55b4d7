--------------------------- MODULE ConnectionPool ---------------------------
(***************************************************************************)
(* The database connections and the calls that compete for them.           *)
(*                                                                         *)
(* db/pool.rs builds a bb8 pool with its defaults: a fixed number of       *)
(* connections and a bounded wait in get().  Every handler and worker runs *)
(* one transaction on one connection and returns it; only create_order     *)
(* (http/routes/public.rs) keeps its first connection to the end of the    *)
(* handler, through the call of WeChat's gateway, and asks for a second    *)
(* one to publish the attempt or to mark it failed.                        *)
(*                                                                         *)
(* What the transactions do is the subject of OrderDb, and the order of    *)
(* the row locks inside one transaction that of Transactions: here a       *)
(* transaction is one row it locks.                                        *)
(***************************************************************************)
EXTENDS Naturals, FiniteSets

CONSTANTS Connection,  \* the pool's connections
          Checkout,    \* calls of create_order
          Single,      \* calls that hold one connection: notifications,
                       \* expirations, scans, lists, log rows
          Row,         \* rows the transactions lock
          None

Call == Checkout \cup Single

ASSUME PoolAssumption ==
    /\ Connection # {}
    /\ Checkout \cap Single = {}
    /\ None \notin Call \cup Row

VARIABLES pc,     \* where each call is
          owner,  \* the call that holds a connection
          lock,   \* the call whose transaction holds a row
          want    \* the row a call's transaction works on

vars == <<pc, owner, lock, want>>

-----------------------------------------------------------------------------
Asking  == {"asking", "asking2"}    \* waits in pool.get()
Locking == {"locking", "locking2"}  \* waits for a row lock
InTxn   == {"in_txn", "in_txn2"}    \* holds its row
Remote  == {"preparing", "closing"} \* waits for WeChat

Held(c) == {k \in Connection : owner[k] = c}

Released(c) == [k \in Connection |-> IF owner[k] = c THEN None ELSE owner[k]]
Unlocked(c) == [r \in Row |-> IF lock[r] = c THEN None ELSE lock[r]]

Goto(c, label) == pc' = [pc EXCEPT ![c] = label]

-----------------------------------------------------------------------------
Init ==
    /\ pc = [c \in Call |-> "idle"]
    /\ owner = [k \in Connection |-> None]
    /\ lock = [r \in Row |-> None]
    /\ want = [c \in Call |-> None]

\* A request or a tick calls state.pool.get().
Begin(c) ==
    /\ pc[c] = "idle"
    /\ Goto(c, "asking")
    /\ UNCHANGED <<owner, lock, want>>

\* The pool hands out an idle connection, to whichever waiter it comes.
GetConnection(c) ==
    /\ pc[c] \in Asking
    /\ \E k \in Connection : owner[k] = None /\ owner' = [owner EXCEPT ![k] = c]
    /\ \E r \in Row : want' = [want EXCEPT ![c] = r]
    /\ Goto(c, IF pc[c] = "asking" THEN "locking" ELSE "locking2")
    /\ UNCHANGED lock

\* get() gives up after the pool's connection_timeout: the call ends with an
\* error and what it still held goes back.
TimeOut(c) ==
    /\ pc[c] \in Asking
    /\ Goto(c, "idle")
    /\ owner' = Released(c)
    /\ UNCHANGED <<lock, want>>

\* The transaction's SELECT ... FOR UPDATE.
LockRow(c) ==
    /\ pc[c] \in Locking
    /\ lock[want[c]] = None
    /\ lock' = [lock EXCEPT ![want[c]] = c]
    /\ Goto(c, IF pc[c] = "locking" THEN "in_txn" ELSE "in_txn2")
    /\ UNCHANGED <<owner, want>>

\* A scan, a list or the insert of a log row waits for no row.
ReadOnly(c) ==
    /\ c \in Single
    /\ pc[c] = "locking"
    /\ Goto(c, "in_txn")
    /\ UNCHANGED <<owner, lock, want>>

\* Mutant: a scan keeps its connection while it treats what it found.
FinishSingleKeeping(c) ==
    /\ c \in Single
    /\ pc[c] = "in_txn"
    /\ Goto(c, "asking2")
    /\ lock' = Unlocked(c)
    /\ UNCHANGED <<owner, want>>

\* A call with one transaction commits or rolls back and returns.
FinishSingle(c) ==
    /\ c \in Single
    /\ pc[c] = "in_txn"
    /\ Goto(c, "idle")
    /\ owner' = Released(c)
    /\ lock' = Unlocked(c)
    /\ UNCHANGED want

\* Mutant: the publication runs before the order's transaction has ended.
CommitOrderLate(c) ==
    /\ c \in Checkout
    /\ pc[c] = "in_txn"
    /\ \/ Goto(c, "asking2") \/ Goto(c, "preparing")
    /\ UNCHANGED <<lock, owner, want>>

\* create_order commits the order and keeps its connection: ePay's attempt is
\* published at once, WeChat's after the call of the gateway.
CommitOrder(c) ==
    /\ c \in Checkout
    /\ pc[c] = "in_txn"
    /\ lock' = Unlocked(c)
    /\ \/ Goto(c, "asking2") \/ Goto(c, "preparing")
    /\ UNCHANGED <<owner, want>>

\* create_order rolls back (no such product, out of stock) and returns.
RollBackOrder(c) ==
    /\ c \in Checkout
    /\ pc[c] = "in_txn"
    /\ Goto(c, "idle")
    /\ owner' = Released(c)
    /\ lock' = Unlocked(c)
    /\ UNCHANGED want

\* native_prepay answers or times out: publish or mark failed, which both ask
\* for a connection of their own.
PrepareEnds(c) ==
    /\ pc[c] = "preparing"
    /\ Goto(c, "asking2")
    /\ UNCHANGED <<owner, lock, want>>

\* The second transaction ends and returns its connection k.  The handler
\* answers and returns the first one too, or closes a WeChat order that may no
\* longer be shown and answers then.
FinishSecond(c) ==
    /\ pc[c] = "in_txn2"
    /\ lock' = Unlocked(c)
    /\ \/ Goto(c, "idle") /\ owner' = Released(c)
       \/ /\ \E k \in Held(c) : owner' = [owner EXCEPT ![k] = None]
          /\ Goto(c, "closing")
    /\ UNCHANGED want

\* close_order answers or times out, and the handler returns.
CloseEnds(c) ==
    /\ pc[c] = "closing"
    /\ Goto(c, "idle")
    /\ owner' = Released(c)
    /\ UNCHANGED <<lock, want>>

\* The client goes away: the handler is dropped where it waits, its open
\* transaction is rolled back and its connections go back.
Dropped(c) ==
    /\ pc[c] # "idle"
    /\ Goto(c, "idle")
    /\ owner' = Released(c)
    /\ lock' = Unlocked(c)
    /\ UNCHANGED want

CallNext(c) ==
    \/ Begin(c) \/ GetConnection(c) \/ TimeOut(c) \/ LockRow(c) \/ ReadOnly(c)
    \/ FinishSingle(c) \/ CommitOrder(c) \/ RollBackOrder(c) \/ PrepareEnds(c) \/ FinishSecond(c)
    \/ CloseEnds(c) \/ Dropped(c)

Next == \E c \in Call : CallNext(c)

Spec == Init /\ [][Next]_vars

\* A wait for a connection or for the gateway is bounded by its timeout and a
\* transaction's statements end (weak fairness).  PostgreSQL grants a row lock
\* in the order of the requests, so nobody is passed over for ever (strong
\* fairness).
Fairness ==
    \A c \in Call :
        /\ WF_vars(TimeOut(c)) /\ SF_vars(LockRow(c))
        /\ WF_vars(FinishSingle(c))
        /\ WF_vars(CommitOrder(c) \/ RollBackOrder(c))
        /\ WF_vars(PrepareEnds(c)) /\ WF_vars(FinishSecond(c)) /\ WF_vars(CloseEnds(c))

FairSpec == Spec /\ Fairness

-----------------------------------------------------------------------------
(***************************************************************************)
(* Properties                                                              *)
(***************************************************************************)

\* The variables keep their types.
TypeOK ==
    /\ pc \in [Call -> {"idle"} \cup Asking \cup Locking \cup InTxn \cup Remote]
    /\ owner \in [Connection -> Call \cup {None}]
    /\ lock \in [Row -> Call \cup {None}]
    /\ want \in [Call -> Row \cup {None}]

\* A row lock is held only by a transaction that waits neither for the pool nor
\* for the gateway nor for another row, and that has its connection.
LocksNeverWait ==
    \A r \in Row : lock[r] # None =>
        pc[lock[r]] \in InTxn /\ Held(lock[r]) # {}

\* Who waits for a first connection holds none; who is past it holds one.
HeldWhileWorking ==
    \A c \in Call :
        /\ pc[c] \in {"idle", "asking"} => Held(c) = {}
        /\ pc[c] \in Locking \cup InTxn => Held(c) # {} /\ want[c] \in Row
        /\ pc[c] \in {"asking2", "preparing", "closing", "locking2", "in_txn2"} =>
              c \in Checkout

\* No call ever waits for the pool while it holds a row lock, and a connection
\* is held only by a call that is at work: a wait for a row never hides a wait
\* for a connection (public.rs:477-563, 697-705, expiration.rs:97, 134).
PoolInv == TypeOK /\ LocksNeverWait /\ HeldWhileWorking

\* A call that can take its next step without a connection becoming free.
CanGoOn(c) ==
    \/ pc[c] \in InTxn \cup Remote
    \/ pc[c] \in Locking /\ lock[want[c]] = None

\* When the pool is empty and none of those who hold its connections can go
\* on, all of them are checkouts asking for their second connection
\* (public.rs:477, 702, 777): workers and notifications alone, which give one
\* connection back before they ask for another, never stop each other.
GridlockIsOfCheckouts ==
    (\A k \in Connection : owner[k] # None /\ ~CanGoOn(owner[k])) =>
        \A k \in Connection : owner[k] \in Checkout /\ pc[owner[k]] = "asking2"

\* Even then every call ends: the bounded wait of get() breaks the circle, and
\* no call waits for ever for a row.
EveryCallEnds == \A c \in Call : (pc[c] # "idle") ~> (pc[c] = "idle")

=============================================================================
