------------------------ MODULE ConnectionPoolProofs ------------------------
(***************************************************************************)
(* Proofs about ConnectionPool, for any number of connections, calls and   *)
(* rows.  PoolInv is inductive; the shape of a gridlock follows from it.   *)
(***************************************************************************)
EXTENDS ConnectionPool, TLAPS

Labels == {"idle"} \cup Asking \cup Locking \cup InTxn \cup Remote

\* The invariant of one call and of one row.
CallSound(c) ==
    /\ pc[c] \in {"idle", "asking"} => Held(c) = {}
    /\ pc[c] \in Locking \cup InTxn => Held(c) # {} /\ want[c] \in Row
    /\ pc[c] \in {"asking2", "preparing", "closing", "locking2", "in_txn2"} =>
          c \in Checkout

RowSound(r) == lock[r] # None => pc[lock[r]] \in InTxn /\ Held(lock[r]) # {}

LEMMA ByParts ==
    PoolInv <=> /\ TypeOK
                /\ \A c \in Call : CallSound(c)
                /\ \A r \in Row : RowSound(r)
BY DEF PoolInv, LocksNeverWait, HeldWhileWorking, CallSound, RowSound

\* No call is called None.
LEMMA CallsHaveNames == \A c \in Call : c # None
BY PoolAssumption

\* Giving back what one call holds leaves it with nothing and the others with
\* what they hold.
LEMMA GivenBack ==
    ASSUME TypeOK, NEW c \in Call, owner' = Released(c)
    PROVE  /\ owner' \in [Connection -> Call \cup {None}]
           /\ Held(c)' = {}
           /\ \A d \in Call : d # c => Held(d)' = Held(d)
BY CallsHaveNames DEF TypeOK, Released, Held

LEMMA RowsGivenBack ==
    ASSUME TypeOK, NEW c \in Call, lock' = Unlocked(c)
    PROVE  /\ lock' \in [Row -> Call \cup {None}]
           /\ \A r \in Row : lock'[r] # None => lock'[r] = lock[r] /\ lock[r] # c
BY CallsHaveNames DEF TypeOK, Unlocked

\* A call that goes idle with all it had leaves the invariant as it was.
LEMMA Leaves ==
    ASSUME PoolInv, NEW c \in Call, Goto(c, "idle"), owner' = Released(c),
           lock' = Unlocked(c), want' = want
    PROVE  PoolInv'
<1>1. /\ TypeOK /\ \A d \in Call : CallSound(d) /\ \A r \in Row : RowSound(r)
  BY ByParts
<1>2. /\ pc'[c] = "idle"
      /\ \A d \in Call : d # c => pc'[d] = pc[d]
      /\ pc' \in [Call -> Labels]
  BY <1>1 DEF Goto, TypeOK, Labels
<1>3. TypeOK'
  BY <1>1, <1>2, GivenBack, RowsGivenBack DEF TypeOK, Labels
<1>4. ASSUME NEW d \in Call PROVE CallSound(d)'
  <2>1. CASE d = c
    BY <2>1, <1>1, <1>2, GivenBack DEF CallSound, Locking, InTxn
  <2>2. CASE d # c
    <3>1. pc'[d] = pc[d] /\ Held(d)' = Held(d) /\ want'[d] = want[d]
      BY <2>2, <1>1, <1>2, GivenBack
    <3> QED BY <3>1, <1>1 DEF CallSound
  <2> QED BY <2>1, <2>2
<1>5. ASSUME NEW r \in Row PROVE RowSound(r)'
  <2> SUFFICES ASSUME lock'[r] # None
               PROVE  pc'[lock'[r]] \in InTxn /\ Held(lock[r])' # {}
    BY DEF RowSound
  <2>1. PICK d \in Call : lock'[r] = d /\ lock[r] = d /\ d # c
    BY <1>1, RowsGivenBack DEF TypeOK
  <2>2. pc[d] \in InTxn /\ Held(d) # {}
    BY <1>1, <2>1 DEF RowSound
  <2>3. pc'[d] = pc[d] /\ Held(d)' = Held(d)
    BY <2>1, <1>1, <1>2, GivenBack
  <2> QED BY <2>1, <2>2, <2>3
<1> QED BY <1>3, <1>4, <1>5 DEF PoolInv, LocksNeverWait, HeldWhileWorking, CallSound, RowSound

\* A call that moves on with the connections and rows it has.
LEMMA MovesOn ==
    ASSUME PoolInv, NEW c \in Call, NEW l \in Labels, Goto(c, l),
           owner' = owner, want' = want,
           \/ lock' = lock /\ \A r \in Row : lock[r] # c
           \/ lock' = Unlocked(c),
           CallSound(c)'
    PROVE  PoolInv'
<1>1. /\ TypeOK /\ \A d \in Call : CallSound(d) /\ \A r \in Row : RowSound(r)
  BY ByParts
<1>2. /\ \A d \in Call : d # c => pc'[d] = pc[d]
      /\ pc' \in [Call -> Labels]
  BY <1>1 DEF Goto, TypeOK, Labels
<1>3. \A d \in Call : Held(d)' = Held(d)
  BY DEF Held
<1>4. TypeOK'
  BY <1>1, <1>2, RowsGivenBack DEF TypeOK, Labels
<1>5. ASSUME NEW d \in Call PROVE CallSound(d)'
  <2>1. CASE d # c
    <3>1. pc'[d] = pc[d] /\ Held(d)' = Held(d) /\ want'[d] = want[d]
      BY <2>1, <1>2, <1>3
    <3> QED BY <3>1, <1>1 DEF CallSound
  <2> QED BY <2>1
<1>6. ASSUME NEW r \in Row PROVE RowSound(r)'
  <2> SUFFICES ASSUME lock'[r] # None
               PROVE  pc'[lock'[r]] \in InTxn /\ Held(lock[r])' # {}
    BY DEF RowSound
  <2>1. PICK d \in Call : lock'[r] = d /\ lock[r] = d /\ d # c
    BY <1>1, RowsGivenBack DEF TypeOK
  <2>2. pc[d] \in InTxn /\ Held(d) # {}
    BY <1>1, <2>1 DEF RowSound
  <2> QED BY <2>1, <2>2, <1>2, <1>3
<1> QED BY <1>4, <1>5, <1>6 DEF PoolInv, LocksNeverWait, HeldWhileWorking, CallSound, RowSound

\* A row is held only by a call whose label is in InTxn.
LEMMA NoRow ==
    ASSUME PoolInv, NEW c \in Call, pc[c] \notin InTxn
    PROVE  /\ \A r \in Row : lock[r] # c
           /\ Unlocked(c) = lock
<1>1. \A r \in Row : lock[r] # c
  BY CallsHaveNames DEF PoolInv, LocksNeverWait
<1> QED BY <1>1 DEF Unlocked, PoolInv, TypeOK

LEMMA PoolInit == Init => PoolInv
<1> SUFFICES ASSUME Init PROVE PoolInv
  OBVIOUS
<1>1. TypeOK
  BY DEF Init, TypeOK
<1>2. \A c \in Call : pc[c] = "idle" /\ Held(c) = {}
  BY CallsHaveNames DEF Init, Held
<1>3. \A r \in Row : lock[r] = None
  BY DEF Init
<1> QED BY <1>1, <1>2, <1>3
        DEF PoolInv, LocksNeverWait, HeldWhileWorking, Asking, Locking, InTxn, Remote

-----------------------------------------------------------------------------
LEMMA PoolStep == PoolInv /\ [Next]_vars => PoolInv'
<1> SUFFICES ASSUME PoolInv, [Next]_vars PROVE PoolInv'
  OBVIOUS
<1> USE DEF Labels, Asking, Locking, InTxn, Remote
<1>0. /\ TypeOK /\ \A d \in Call : CallSound(d) /\ \A r \in Row : RowSound(r)
  BY ByParts
<1>1. CASE UNCHANGED vars
  BY <1>1 DEF vars, PoolInv, TypeOK, LocksNeverWait, HeldWhileWorking, Held
<1>2. ASSUME NEW c \in Call, Begin(c) PROVE PoolInv'
  <2>1. Held(c)' = Held(c) /\ Held(c) = {} /\ pc'[c] = "asking"
    BY <1>2, <1>0 DEF Begin, Goto, CallSound, Held, TypeOK
  <2>2. CallSound(c)'
    BY <2>1 DEF CallSound
  <2> QED BY <1>2, <2>2, NoRow, MovesOn DEF Begin
<1>3. ASSUME NEW c \in Call, GetConnection(c) PROVE PoolInv'
  <2>1. PICK k \in Connection : owner[k] = None /\ owner' = [owner EXCEPT ![k] = c]
    BY <1>3 DEF GetConnection
  <2>2. PICK r0 \in Row : want' = [want EXCEPT ![c] = r0]
    BY <1>3 DEF GetConnection
  <2>3. /\ pc'[c] \in {"locking", "locking2"}
        /\ pc'[c] = "locking2" => pc[c] = "asking2"
        /\ \A d \in Call : d # c => pc'[d] = pc[d]
        /\ lock' = lock /\ pc[c] \notin InTxn
        /\ pc' \in [Call -> Labels]
    BY <1>3, <1>0 DEF GetConnection, Goto, TypeOK
  <2>4. /\ Held(c)' # {}
        /\ \A d \in Call : d # c => Held(d)' = Held(d)
    BY <2>1, <1>0, CallsHaveNames DEF Held, TypeOK
  <2>5. TypeOK'
    BY <2>1, <2>2, <2>3, <1>0 DEF TypeOK
  <2>6. ASSUME NEW d \in Call PROVE CallSound(d)'
    <3>1. CASE d = c
      BY <3>1, <2>2, <2>3, <2>4, <1>0 DEF CallSound, TypeOK
    <3>2. CASE d # c
      <4>1. pc'[d] = pc[d] /\ Held(d)' = Held(d) /\ want'[d] = want[d]
        BY <3>2, <2>2, <2>3, <2>4, <1>0 DEF TypeOK
      <4> QED BY <4>1, <1>0 DEF CallSound
    <3> QED BY <3>1, <3>2
  <2>7. ASSUME NEW r \in Row PROVE RowSound(r)'
    <3> SUFFICES ASSUME lock'[r] # None
                 PROVE  pc'[lock'[r]] \in InTxn /\ Held(lock[r])' # {}
      BY DEF RowSound
    <3>1. PICK d \in Call : lock'[r] = d /\ lock[r] = d /\ d # c
      BY <2>3, <1>0, NoRow DEF TypeOK
    <3>2. pc[d] \in InTxn /\ Held(d) # {}
      BY <3>1, <1>0 DEF RowSound
    <3> QED BY <3>1, <3>2, <2>3, <2>4
  <2> QED BY <2>5, <2>6, <2>7 DEF PoolInv, LocksNeverWait, HeldWhileWorking, CallSound, RowSound
<1>4. ASSUME NEW c \in Call, TimeOut(c) PROVE PoolInv'
  <2>1. lock' = Unlocked(c)
    BY <1>4, NoRow DEF TimeOut
  <2> QED BY <1>4, <2>1, Leaves DEF TimeOut
<1>5. ASSUME NEW c \in Call, LockRow(c) PROVE PoolInv'
  <2>1. /\ want[c] \in Row /\ Held(c) # {}
        /\ pc[c] = "locking2" => c \in Checkout
    BY <1>5, <1>0 DEF LockRow, CallSound
  <2>2. /\ pc'[c] \in InTxn
        /\ pc'[c] = "in_txn2" => pc[c] = "locking2"
        /\ \A d \in Call : d # c => pc'[d] = pc[d]
        /\ pc' \in [Call -> Labels]
        /\ \A d \in Call : Held(d)' = Held(d)
        /\ owner' = owner /\ want' = want
    BY <1>5, <1>0 DEF LockRow, Goto, TypeOK, Held
  <2>3. /\ lock' \in [Row -> Call \cup {None}]
        /\ \A r \in Row : lock'[r] = c \/ lock'[r] = lock[r]
    BY <1>5, <2>1, <1>0 DEF LockRow, TypeOK
  <2>4. TypeOK'
    BY <2>2, <2>3, <1>0 DEF TypeOK
  <2>5. ASSUME NEW d \in Call PROVE CallSound(d)'
    <3>1. CASE d = c
      BY <3>1, <2>1, <2>2, <1>0 DEF CallSound, TypeOK
    <3>2. CASE d # c
      BY <3>2, <2>2, <1>0 DEF CallSound
    <3> QED BY <3>1, <3>2
  <2>6. ASSUME NEW r \in Row PROVE RowSound(r)'
    <3> SUFFICES ASSUME lock'[r] # None
                 PROVE  pc'[lock'[r]] \in InTxn /\ Held(lock[r])' # {}
      BY DEF RowSound
    <3>1. CASE lock'[r] = c
      BY <3>1, <2>1, <2>2
    <3>2. CASE lock'[r] # c
      <4>1. PICK d \in Call : lock'[r] = d /\ lock[r] = d
        BY <3>2, <2>3, <1>0 DEF TypeOK
      <4>2. pc[d] \in InTxn /\ Held(d) # {}
        BY <4>1, <1>0 DEF RowSound
      <4> QED BY <3>2, <4>1, <4>2, <2>2
    <3> QED BY <3>1, <3>2
  <2> QED BY <2>4, <2>5, <2>6 DEF PoolInv, LocksNeverWait, HeldWhileWorking, CallSound, RowSound
<1>6. ASSUME NEW c \in Call, ReadOnly(c) PROVE PoolInv'
  <2>1. /\ pc'[c] = "in_txn" /\ pc[c] = "locking"
        /\ Held(c)' = Held(c) /\ want'[c] = want[c]
    BY <1>6, <1>0 DEF ReadOnly, Goto, Held, TypeOK
  <2>2. CallSound(c)'
    BY <2>1, <1>0 DEF CallSound
  <2> QED BY <1>6, <2>1, <2>2, NoRow, MovesOn DEF ReadOnly
<1>7. ASSUME NEW c \in Call, FinishSingle(c) PROVE PoolInv'
  BY <1>7, Leaves DEF FinishSingle
<1>8. ASSUME NEW c \in Call, CommitOrder(c) PROVE PoolInv'
  <2>1. PICK l \in {"asking2", "preparing"} : Goto(c, l)
    BY <1>8 DEF CommitOrder
  <2>2. CallSound(c)'
    BY <1>8, <2>1, <1>0 DEF CommitOrder, Goto, CallSound, TypeOK
  <2> QED BY <1>8, <2>1, <2>2, MovesOn DEF CommitOrder
<1>9. ASSUME NEW c \in Call, RollBackOrder(c) PROVE PoolInv'
  BY <1>9, Leaves DEF RollBackOrder
<1>10. ASSUME NEW c \in Call, PrepareEnds(c) PROVE PoolInv'
  <2>1. CallSound(c)'
    BY <1>10, <1>0 DEF PrepareEnds, Goto, CallSound, TypeOK
  <2> QED BY <1>10, <2>1, NoRow, MovesOn DEF PrepareEnds
<1>11. ASSUME NEW c \in Call, FinishSecond(c) PROVE PoolInv'
  <2>1. CASE Goto(c, "idle") /\ owner' = Released(c)
    BY <1>11, <2>1, Leaves DEF FinishSecond
  <2>2. ASSUME NEW k \in Held(c), owner' = [owner EXCEPT ![k] = None],
               Goto(c, "closing")
        PROVE  PoolInv'
    <3>1. /\ pc'[c] = "closing" /\ pc[c] = "in_txn2"
          /\ \A d \in Call : d # c => pc'[d] = pc[d]
          /\ pc' \in [Call -> Labels]
          /\ lock' = Unlocked(c) /\ want' = want
      BY <1>11, <2>2, <1>0 DEF FinishSecond, Goto, TypeOK
    <3>2. \A d \in Call : d # c => Held(d)' = Held(d)
      BY <2>2, <1>0, CallsHaveNames DEF Held, TypeOK
    <3>3. TypeOK'
      BY <3>1, <2>2, <1>0, RowsGivenBack DEF TypeOK, Held
    <3>4. ASSUME NEW d \in Call PROVE CallSound(d)'
      <4>1. CASE d = c
        BY <4>1, <3>1, <1>0 DEF CallSound
      <4>2. CASE d # c
        <5>1. pc'[d] = pc[d] /\ Held(d)' = Held(d) /\ want'[d] = want[d]
          BY <4>2, <3>1, <3>2
        <5> QED BY <5>1, <1>0 DEF CallSound
      <4> QED BY <4>1, <4>2
    <3>5. ASSUME NEW r \in Row PROVE RowSound(r)'
      <4> SUFFICES ASSUME lock'[r] # None
                   PROVE  pc'[lock'[r]] \in InTxn /\ Held(lock[r])' # {}
        BY DEF RowSound
      <4>1. PICK d \in Call : lock'[r] = d /\ lock[r] = d /\ d # c
        BY <3>1, <1>0, RowsGivenBack DEF TypeOK
      <4>2. pc[d] \in InTxn /\ Held(d) # {}
        BY <4>1, <1>0 DEF RowSound
      <4> QED BY <4>1, <4>2, <3>1, <3>2
    <3> QED BY <3>3, <3>4, <3>5
            DEF PoolInv, LocksNeverWait, HeldWhileWorking, CallSound, RowSound
  <2> QED BY <1>11, <2>1, <2>2 DEF FinishSecond
<1>12. ASSUME NEW c \in Call, CloseEnds(c) PROVE PoolInv'
  <2>1. lock' = Unlocked(c)
    BY <1>12, NoRow DEF CloseEnds
  <2> QED BY <1>12, <2>1, Leaves DEF CloseEnds
<1>13. ASSUME NEW c \in Call, Dropped(c) PROVE PoolInv'
  BY <1>13, Leaves DEF Dropped
<1> QED BY <1>1, <1>2, <1>3, <1>4, <1>5, <1>6, <1>7, <1>8, <1>9, <1>10, <1>11, <1>12, <1>13
        DEF Next, CallNext

\* For any pool and any calls: no call waits for a connection, for another row
\* or for the gateway while it holds a row lock.
THEOREM PoolInvariance == Spec => []PoolInv
BY PoolInit, PoolStep, PTL DEF Spec

-----------------------------------------------------------------------------
LEMMA GridlockShape == PoolInv => GridlockIsOfCheckouts
<1> SUFFICES ASSUME PoolInv, \A k \in Connection : owner[k] # None /\ ~CanGoOn(owner[k]),
                    NEW k \in Connection
             PROVE  owner[k] \in Checkout /\ pc[owner[k]] = "asking2"
  BY DEF GridlockIsOfCheckouts
<1> DEFINE c == owner[k]
<1>1. c \in Call /\ Held(c) # {} /\ ~CanGoOn(c)
  BY DEF PoolInv, TypeOK, Held
<1>2. pc[c] \in Labels /\ pc[c] \notin {"idle", "asking"}
  BY <1>1 DEF PoolInv, TypeOK, HeldWhileWorking, Labels
<1>3. pc[c] \notin InTxn \cup Remote
  BY <1>1 DEF CanGoOn
<1>4. pc[c] \notin Locking
  <2> SUFFICES ASSUME pc[c] \in Locking PROVE FALSE
    OBVIOUS
  <2>1. want[c] \in Row /\ lock[want[c]] # None
    BY <1>1 DEF PoolInv, HeldWhileWorking, CanGoOn
  <2>2. pc[lock[want[c]]] \in InTxn /\ Held(lock[want[c]]) # {}
    BY <2>1 DEF PoolInv, LocksNeverWait
  <2>3. PICK h \in Connection : owner[h] = lock[want[c]]
    BY <2>2 DEF Held
  <2> QED BY <2>2, <2>3 DEF CanGoOn
<1>5. pc[c] = "asking2"
  BY <1>2, <1>3, <1>4 DEF Labels, Asking
<1> QED BY <1>1, <1>5 DEF PoolInv, HeldWhileWorking

\* For any pool and any calls: only checkouts can be stuck on an empty pool.
THEOREM GridlockOfCheckouts == Spec => []GridlockIsOfCheckouts
BY PoolInvariance, GridlockShape, PTL
=============================================================================
