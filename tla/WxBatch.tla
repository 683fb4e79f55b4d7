------------------------------- MODULE WxBatch -------------------------------
(***************************************************************************)
(* The rotation of the WeChat expiration worker                            *)
(* (payments/expiration.rs).  A scan takes the WXPAY_BATCH_SIZE least      *)
(* recently updated attempts of expired pending orders and treats them     *)
(* with at most WXPAY_MAX_CONCURRENCY tasks.  An attempt whose query, close*)
(* or local transaction fails is deferred: its updated_at becomes now, so  *)
(* that it goes behind the others.                                         *)
(*                                                                         *)
(* The column updated_at is kept as the order of the waiting attempts in   *)
(* it: every write moves a row behind all others.  What the transactions do*)
(* to stock and orders is the subject of OrderDb; here an attempt is only  *)
(* waiting or gone.                                                        *)
(***************************************************************************)
EXTENDS Naturals, Sequences, FiniteSets, Functions

CONSTANTS Attempts,        \* the WeChat payment attempts
          Stuck,           \* attempts the provider never lets the worker end,
                           \* e.g. refunded ones, which cannot be closed
          Watched,         \* the attempt whose turns `overtaken` records
          BatchSize,       \* WXPAY_BATCH_SIZE
          MaxConcurrency,  \* WXPAY_MAX_CONCURRENCY
          MaxRestarts      \* bound: restarts of the server

ASSUME BatchAssumption ==
    /\ Stuck \subseteq Attempts /\ Watched \in Attempts
    /\ BatchSize \in Nat \ {0}
    /\ MaxConcurrency \in Nat \ {0}
    /\ MaxRestarts \in Nat

VARIABLES
    placed,    \* the attempts inserted so far, in the order of their expires_at
    waiting,   \* created, ready and failed attempts of pending orders
    older,     \* pairs of them in the order of updated_at
    due,       \* how many of `placed` have reached expires_at
    prepared,  \* attempts their checkout has published or marked failed
    batch,     \* rows of the last scan that have no task yet
    tasks,     \* attempts with a task in the JoinSet
    restarts,
    overtaken  \* history: overtaken[b] = deferrals of b since Watched waits,
               \* due and without a turn of its own

vars == <<placed, waiting, older, due, prepared, batch, tasks, restarts, overtaken>>

-----------------------------------------------------------------------------
IsDue(a) == \E i \in 1 .. due : placed[i] = a

Due == {a \in waiting : IsDue(a)}

Without(a) == {pair \in older : a \notin {pair[1], pair[2]}}

\* Mutant: the retry is logged and updated_at stays as it was.
TouchedNever(a) == older

\* SET updated_at = now() on a row that waits; no row matches otherwise.
Touched(a) ==
    IF a \in waiting THEN Without(a) \cup ((waiting \ {a}) \X {a}) ELSE older

WatchedWaits == Watched \in waiting \ tasks /\ IsDue(Watched)

\* A turn of a, or an update by its own checkout: what it waited for begins anew.
NewTurn(a) == IF a = Watched THEN [b \in Attempts |-> 0] ELSE overtaken

\* Mutant: the scan takes the oldest orders first.
AheadByExpiry(a, b) ==
    \E i, j \in DOMAIN placed : i < j /\ placed[i] = a /\ placed[j] = b

\* The order a scan takes the rows in.
Ahead(a, b) == <<a, b>> \in older

\* ORDER BY updated_at LIMIT WXPAY_BATCH_SIZE: the rows come in order, and what
\* is left out comes after them and finds the limit reached.
FirstRows(rows) ==
    /\ \A i, j \in 1 .. Len(rows) : i < j => Ahead(rows[i], rows[j])
    /\ \A a \in Due \ Range(rows) :
          Len(rows) = BatchSize /\ \A i \in 1 .. Len(rows) : Ahead(rows[i], a)

-----------------------------------------------------------------------------
Init ==
    /\ placed = <<>> /\ waiting = {} /\ older = {} /\ due = 0
    /\ prepared = {}
    /\ batch = <<>> /\ tasks = {} /\ restarts = 0
    /\ overtaken = [b \in Attempts |-> 0]

\* create_order commits the order with its attempt.
Place(a) ==
    /\ a \notin Range(placed)
    /\ placed' = Append(placed, a)
    /\ waiting' = waiting \cup {a}
    /\ older' = older \cup (waiting \X {a})
    /\ UNCHANGED <<due, prepared, batch, tasks, restarts, overtaken>>

\* The checkout's one update of its attempt: published, or marked failed, which
\* may also come after expires_at.
Prepare(a) ==
    /\ a \in waiting
    /\ a \notin prepared
    /\ prepared' = prepared \cup {a}
    /\ older' = Touched(a)
    /\ overtaken' = NewTurn(a)
    /\ UNCHANGED <<placed, waiting, due, batch, tasks, restarts>>

\* The next order reaches its expires_at.
Expire ==
    /\ due < Len(placed)
    /\ due' = due + 1
    /\ UNCHANGED <<placed, waiting, older, prepared, batch, tasks, restarts, overtaken>>

\* The provider's notification books the payment and ends the attempt.
PaidByNotification(a) ==
    /\ a \in waiting
    /\ waiting' = waiting \ {a}
    /\ older' = Without(a)
    /\ overtaken' = NewTurn(a)
    /\ UNCHANGED <<placed, due, prepared, batch, tasks, restarts>>

\* A tick: the interval starts the next batch only when the last has ended.
Scan ==
    /\ batch = <<>> /\ tasks = {}
    /\ \E n \in 1 .. BatchSize : \E rows \in [1 .. n -> Due] :
          FirstRows(rows) /\ batch' = rows
    /\ UNCHANGED <<placed, waiting, older, due, prepared, tasks, restarts, overtaken>>

\* The loop over the batch spawns a task when one of the places is free.
Spawn ==
    /\ batch # <<>>
    /\ Cardinality(tasks) < MaxConcurrency
    /\ tasks' = tasks \cup {Head(batch)}
    /\ batch' = Tail(batch)
    /\ overtaken' = NewTurn(Head(batch))
    /\ UNCHANGED <<placed, waiting, older, due, prepared, restarts>>

\* The task ends with the attempt expired or its payment booked, or finds the
\* attempt already ended by a notification.
Settle(a) ==
    /\ a \in tasks
    /\ a \in waiting => a \notin Stuck
    /\ tasks' = tasks \ {a}
    /\ waiting' = waiting \ {a}
    /\ older' = Without(a)
    /\ UNCHANGED <<placed, due, prepared, batch, restarts, overtaken>>

\* Somewhere on the way the task fails and defers the attempt.
Defer(a) ==
    /\ a \in tasks
    /\ tasks' = tasks \ {a}
    /\ older' = Touched(a)
    /\ overtaken' = IF WatchedWaits /\ a \in waiting /\ overtaken[a] < 2
                    THEN [overtaken EXCEPT ![a] = @ + 1]
                    ELSE overtaken
    /\ UNCHANGED <<placed, waiting, due, prepared, batch, restarts>>

\* The task fails, and so does the update that should defer the attempt.
DeferFails(a) ==
    /\ a \in tasks
    /\ tasks' = tasks \ {a}
    /\ UNCHANGED <<placed, waiting, older, due, prepared, batch, restarts, overtaken>>

\* The process ends with its JoinSet and the rest of the batch.
Restart ==
    /\ restarts < MaxRestarts
    /\ restarts' = restarts + 1
    /\ batch' = <<>> /\ tasks' = {}
    /\ UNCHANGED <<placed, waiting, older, due, prepared, overtaken>>

Next ==
    \/ Expire \/ Scan \/ Spawn \/ Restart
    \/ \E a \in Attempts : \/ Place(a) \/ Prepare(a) \/ PaidByNotification(a)
                           \/ Settle(a) \/ Defer(a) \/ DeferFails(a)

\* The interval ticks and the loop runs on (weak fairness).  A task ends, for
\* its HTTP calls have timeouts, and it does not fail for ever in the same way:
\* an attempt the provider can end is settled, one it cannot is deferred, if
\* it gets its turn again and again (strong fairness).
Fairness ==
    /\ WF_vars(Scan) /\ WF_vars(Spawn)
    /\ \A a \in Attempts \ Stuck : SF_vars(Settle(a))
    /\ \A a \in Stuck : SF_vars(Defer(a))

Spec == Init /\ [][Next]_vars
FairSpec == Spec /\ Fairness

-----------------------------------------------------------------------------
(***************************************************************************)
(* Properties                                                              *)
(***************************************************************************)

\* The variables keep their types, and no attempt is listed twice.
TypeOK ==
    /\ {placed, batch} \subseteq Seq(Attempts)
    /\ IsInjective(placed) /\ IsInjective(batch)
    /\ waiting \subseteq Range(placed) /\ prepared \subseteq Range(placed)
    /\ older \subseteq waiting \X waiting
    /\ due \in 0 .. Len(placed)
    /\ Len(batch) <= BatchSize
    /\ tasks \subseteq Attempts
    /\ IsFiniteSet(tasks) /\ Cardinality(tasks) <= MaxConcurrency
    /\ restarts \in 0 .. MaxRestarts
    /\ overtaken \in [Attempts -> 0 .. 2]

\* updated_at is a total order of the waiting attempts.
InOneOrder ==
    /\ \A a, b \in waiting : a # b => (Ahead(a, b) <=> ~Ahead(b, a))
    /\ \A a \in waiting : ~Ahead(a, a)
    /\ \A a, b, c \in waiting : Ahead(a, b) /\ Ahead(b, c) => Ahead(a, c)

\* An attempt has one task: whatever is listed for one has none yet.
OneTask == Range(batch) \cap tasks = {}

\* An attempt deferred while Watched waits is behind it from then on, in the
\* table and in the rows of the scan at work.
Behind(b) ==
    /\ b \notin tasks
    /\ b \in waiting => Ahead(Watched, b)
    /\ \A j \in 1 .. Len(batch) :
          batch[j] = b => \E i \in 1 .. j - 1 : batch[i] = Watched

OvertakenBehind ==
    \A b \in Attempts :
       overtaken[b] >= 1 =>
          overtaken[b] = 1 /\ b # Watched /\ WatchedWaits /\ Behind(b)

\* While an expired order waits for its turn, another attempt is deferred at
\* most once: the deferred one is behind it from then on, in every later scan,
\* whatever the tasks' order of ending, failed deferrals and restarts.
TurnsAreFair ==
    \A b \in Attempts : WatchedWaits => overtaken[b] <= 1

\* The inductive invariant behind it: expiration.rs:115-159 and 229-255 read and
\* write the table so that a deferred attempt stays behind the one that waits.
RotationInv ==
    /\ TypeOK /\ InOneOrder /\ OneTask
    /\ OvertakenBehind /\ TurnsAreFair

\* "a few permanently failing orders do not hold the fixed batch for ever":
\* every expired order the provider lets the worker end is ended, even when
\* the stuck ones fill whole batches.
EveryExpiredOrderEnds ==
    \A a \in Attempts \ Stuck : (a \in waiting /\ IsDue(a)) ~> (a \notin waiting)

=============================================================================
