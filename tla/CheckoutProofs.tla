--------------------------- MODULE CheckoutProofs ---------------------------
(***************************************************************************)
(* Proofs about Checkout.  The inductive invariant is read order by order: *)
(* nearly every action of a handler, a provider or a worker touches one    *)
(* order, so that a lemma for the untouched ones leaves each action with   *)
(* the order it is about.  The tables themselves are OrderDb's, and their  *)
(* part of the invariant comes from OrderDbProofs.                         *)
(***************************************************************************)
EXTENDS Checkout, OrderDbProofs

Shapes ==
    /\ pc \in [Order -> Requests]
    /\ entry \in [Order -> BOOLEAN]
    /\ remote \in [Order -> [state : RemoteStates, at : Nat]]
    /\ work \in [Order -> Jobs]
    /\ owed \in SUBSET Order
    /\ told \in [Order -> Nat]
    /\ crashes \in 0 .. MaxCrash

Priced == \A i \in Info : info[i].price \in Price

\* The invariant of one order.
Sound(o) ==
    /\ Agreed(o)
    /\ attempt[o].provider = "epay" =>
          remote[o].state \in {"none", "paid"} /\ work[o] \in {"idle", "expire"}
    /\ ByWechat(o) /\ remote[o].state \in {"paid", "refunded"} =>
          order[o].status # "expired"
    /\ ByWechat(o) /\ entry[o] /\ remote[o].state = "notpay" =>
          order[o].status = "pending"
    /\ told[o] = 0 \/ (told[o] = 1 /\ o \notin owed)
    /\ told[o] = 1 \/ o \in owed => attempt[o].state = "succeeded"

OrderwiseInv == IInv /\ Shapes /\ Priced /\ \A o \in Order : Sound(o)

\* The invariant read order by order gives the one of Checkout.
LEMMA Orderwise == OrderwiseInv => CheckoutInv
<1> SUFFICES ASSUME OrderwiseInv PROVE CheckoutInv
  OBVIOUS
<1> USE DEF OrderwiseInv
<1>1. CheckoutTypeOK
  BY DEF CheckoutTypeOK, Shapes, Sound, IInv
<1>2. \A o \in Order : Agreed(o)
  BY DEF Sound
<1>3. WechatPaidNeverExpired
  BY DEF WechatPaidNeverExpired, Sound
<1>4. OpenEntryIsBacked
  <2> SUFFICES ASSUME NEW o \in Order, entry[o], ByWechat(o), remote[o].state = "notpay"
               PROVE  order[o].status = "pending" /\ HoldsReserved(o)
    BY DEF OpenEntryIsBacked
  <2>1. order[o].status = "pending"
    BY DEF Sound
  <2>2. order[o].product # None
    BY <2>1 DEF IInv, TypeOK, CheckConstraints
  <2> QED BY <2>1, <2>2 DEF IInv, Holding, HoldsReserved
<1>5. NotifiedAtMostOnce
  BY DEF NotifiedAtMostOnce, Sound, Shapes
<1> QED BY <1>1, <1>2, <1>3, <1>4, <1>5 DEF CheckoutInv, Priced

\* An order nothing of which changes stays sound while time passes.
LEMMA Untouched ==
    ASSUME OrderwiseInv, NEW q \in Order, now' \in Nat, now <= now',
           order'[q] = order[q], attempt'[q] = attempt[q], pc'[q] = pc[q],
           entry'[q] = entry[q], remote'[q] = remote[q], work'[q] = work[q],
           told'[q] = told[q], (q \in owed') = (q \in owed)
    PROVE  Sound(q)'
<1>1. /\ Sound(q) /\ now \in Nat /\ order[q].expires \in Nat /\ remote[q].at \in Nat
  BY Rows DEF OrderwiseInv, IInv, TypeOK, OrderRow, Shapes
<1>2. /\ work[q] # "idle" => order[q].expires <= now'
      /\ remote[q].at <= now'
  BY <1>1 DEF Sound, Agreed
<1> QED BY <1>1, <1>2 DEF Sound, Agreed, ByWechat, Locked

\* The rows and processes of every order but o are left as they are.
OnlyOrder(o) ==
    \A q \in Order : q # o =>
        /\ order'[q] = order[q] /\ attempt'[q] = attempt[q]
        /\ pc'[q] = pc[q] /\ entry'[q] = entry[q] /\ remote'[q] = remote[q]
        /\ work'[q] = work[q] /\ told'[q] = told[q]
        /\ (q \in owed') = (q \in owed)

SoundNext == Shapes' /\ Priced' /\ \A q \in Order : Sound(q)'

\* An action about one order has to answer for that order only.
LEMMA OneOrder ==
    ASSUME OrderwiseInv, NEW o \in Order, UNCHANGED <<now, info>>,
           OnlyOrder(o), Shapes', Sound(o)'
    PROVE  SoundNext
<1>1. now \in Nat /\ now' = now /\ now <= now'
  BY TimeAssumption DEF OrderwiseInv, IInv, TypeOK
<1>2. Priced'
  BY DEF OrderwiseInv, Priced
<1>3. ASSUME NEW q \in Order, q # o PROVE Sound(q)'
  BY <1>1, <1>3, Untouched DEF OnlyOrder
<1> QED BY <1>2, <1>3 DEF SoundNext

-----------------------------------------------------------------------------
(* The handler                                                             *)

\* A new order starts sound, whichever provider it is for.
LEMMA PlaceOrderSound ==
    ASSUME OrderwiseInv, NEW o \in Order, NEW p \in Product,
           NEW provider \in Provider, PlaceOrder(o, p, provider)
    PROVE  SoundNext
<1>0. TypeOK /\ LifecycleCoherence /\ UnknownIsAbsent /\ Shapes /\ now \in Nat
  BY DEF OrderwiseInv, IInv, TypeOK
<1>1. PICK at \in 0 .. now : CreateOrder(o, p, provider, at)
  BY DEF PlaceOrder
<1>2. /\ order[o].status = "absent" /\ order'[o].status = "pending"
      /\ attempt'[o].state = "created" /\ attempt'[o].provider = provider
      /\ \A q \in Order : q # o => order'[q] = order[q] /\ attempt'[q] = attempt[q]
      /\ UNCHANGED <<now, info>>
  BY <1>0, <1>1, CreateEffect
<1>3. attempt[o].state = "absent"
  BY <1>0, <1>2 DEF LifecycleCoherence
<1>4. attempt'[o].amount \in Price
  <2>1. attempt'[o].amount = info[InfoOf[p]].price /\ InfoOf[p] \in Info
    BY <1>0, <1>1, InfoOfAssumption DEF CreateOrder, TypeOK
  <2> QED BY <2>1 DEF OrderwiseInv, Priced
<1>5. /\ pc[o] = "idle" /\ ~entry[o] /\ remote[o].state = "none" /\ work[o] = "idle"
      /\ remote[o].at <= now /\ told[o] = 0 /\ o \notin owed
  BY <1>3 DEF OrderwiseInv, Sound, Agreed
<1>6. /\ pc' = [pc EXCEPT ![o] = IF provider = "epay" THEN "publish" ELSE "prepay"]
      /\ remote' = IF provider = "epay"
                   THEN remote ELSE [remote EXCEPT ![o].state = "sent"]
      /\ UNCHANGED <<entry, work, owed, told, crashes>>
  BY DEF PlaceOrder
<1>7. /\ remote'[o].at = remote[o].at
      /\ remote'[o].state = IF provider = "epay" THEN "none" ELSE "sent"
      /\ pc'[o] = IF provider = "epay" THEN "publish" ELSE "prepay"
  BY <1>0, <1>5, <1>6 DEF Shapes
<1>8. Shapes'
  BY <1>0, <1>6 DEF Shapes, Requests, RemoteStates
<1>9. Sound(o)'
  BY <1>2, <1>4, <1>5, <1>6, <1>7 DEF Sound, Agreed, ByWechat, Locked, Provider
<1>10. OnlyOrder(o)
  BY <1>0, <1>2, <1>6 DEF Shapes, OnlyOrder
<1> QED BY <1>2, <1>8, <1>9, <1>10, OneOrder

\* The stations of a request that touch no row.
LEMMA RequestSound ==
    ASSUME OrderwiseInv, NEW o \in Order,
           \/ PrepayAnswered(o) \/ PrepayFails(o) \/ PublishRefused(o)
           \/ RequestDropped(o)
    PROVE  SoundNext
<1>0. Shapes /\ Sound(o) /\ now \in Nat
  BY TimeAssumption DEF OrderwiseInv, IInv, TypeOK
<1>1. UNCHANGED <<dbvars, entry, remote, work, owed, told, crashes>>
  BY DEF PrepayAnswered, PrepayFails, PublishRefused, RequestDropped
<1>2. PICK s \in Requests : /\ pc' = [pc EXCEPT ![o] = s]
                            /\ pc[o] # "idle" /\ s \notin {"publish", "prepay", "publishing"}
                            /\ s # "done" => ByWechat(o)
                            /\ s = "prepaid" => remote[o].state \in {"notpay", "closed"}
  BY <1>0 DEF PrepayAnswered, PrepayFails, PublishRefused, RequestDropped,
              Requests, Sound, Agreed
<1>3. pc'[o] = s /\ \A q \in Order : q # o => pc'[q] = pc[q]
  BY <1>0, <1>2 DEF Shapes
<1>4. Shapes'
  BY <1>0, <1>1, <1>2 DEF Shapes
<1>5. Sound(o)'
  BY <1>0, <1>1, <1>2, <1>3 DEF Sound, Agreed, ByWechat, Locked, dbvars
<1>6. OnlyOrder(o)
  BY <1>1, <1>3 DEF OnlyOrder, dbvars
<1> QED BY <1>1, <1>4, <1>5, <1>6, OneOrder DEF dbvars

\* An entry is approved before the deadline only, so that the worker has no
\* business with the order yet; and only ePay's orders and prepaid ones have
\* requests that get here.
LEMMA RecheckSound ==
    ASSUME OrderwiseInv, NEW o \in Order, Recheck(o)
    PROVE  SoundNext
<1>0. Shapes /\ Sound(o) /\ TypeOK /\ now \in Nat
  BY TimeAssumption DEF OrderwiseInv, IInv, TypeOK
<1>1. /\ attempt[o].state = "created" /\ order[o].status = "pending"
      /\ order[o].expires > now
      /\ pc[o] \in {"publish", "prepaid"}
      /\ pc' = [pc EXCEPT ![o] = "publishing"]
      /\ UNCHANGED <<dbvars, entry, remote, work, owed, told, crashes>>
  BY DEF Recheck, CanPublish
<1>2. pc'[o] = "publishing" /\ \A q \in Order : q # o => pc'[q] = pc[q]
  BY <1>0, <1>1 DEF Shapes
<1>3. Shapes'
  BY <1>0, <1>1 DEF Shapes, Requests
<1>4. order[o].expires \in Nat
  BY <1>0, Rows DEF OrderRow
<1>5. work[o] = "idle"
  BY <1>0, <1>1, <1>4 DEF Sound, Agreed
<1>6. Sound(o)'
  BY <1>0, <1>1, <1>2, <1>5 DEF Sound, Agreed, ByWechat, Locked, dbvars
<1>7. OnlyOrder(o)
  BY <1>1, <1>2 DEF OnlyOrder, dbvars
<1> QED BY <1>1, <1>3, <1>6, <1>7, OneOrder DEF dbvars

\* Its commit may come after the deadline: meanwhile the worker can have asked
\* and closed at WeChat, but not released the unit, for want of the locks.
LEMMA PublishSound ==
    ASSUME OrderwiseInv, NEW o \in Order, Publish(o)
    PROVE  SoundNext
<1>0. Shapes /\ Sound(o) /\ TypeOK /\ now \in Nat
  BY TimeAssumption DEF OrderwiseInv, IInv, TypeOK
<1>1. /\ attempt[o].state = "created"
      /\ attempt' = [attempt EXCEPT ![o].state = "ready"]
      /\ UNCHANGED <<now, info, product, order, event>>
      /\ pc[o] = "publishing"
      /\ pc' = [pc EXCEPT ![o] = "done"]
      /\ entry' = [entry EXCEPT ![o] = TRUE]
      /\ UNCHANGED <<remote, work, owed, told, crashes>>
  BY DEF Publish, PublishReady, CanPublish, Locked
<1>2. /\ attempt'[o].state = "ready"
      /\ attempt'[o].provider = attempt[o].provider
      /\ attempt'[o].amount = attempt[o].amount
      /\ \A q \in Order : q # o => attempt'[q] = attempt[q]
  BY <1>0, <1>1, AttemptStateEffect
<1>3. /\ pc'[o] = "done" /\ entry'[o] = TRUE
      /\ \A q \in Order : q # o => pc'[q] = pc[q] /\ entry'[q] = entry[q]
  BY <1>0, <1>1 DEF Shapes
<1>4. Shapes'
  BY <1>0, <1>1 DEF Shapes, Requests
<1>5. Sound(o)'
  BY <1>0, <1>1, <1>2, <1>3 DEF Sound, Agreed, ByWechat, Locked
<1>6. OnlyOrder(o)
  BY <1>1, <1>2, <1>3 DEF OnlyOrder
<1> QED BY <1>1, <1>4, <1>5, <1>6, OneOrder

\* A close by the handler: nobody has an entry for what it closes, or it is
\* closed for good.
LEMMA CloseUnpublishedSound ==
    ASSUME OrderwiseInv, NEW o \in Order, CloseUnpublished(o)
    PROVE  SoundNext
<1>0. Shapes /\ Sound(o) /\ now \in Nat
  BY TimeAssumption DEF OrderwiseInv, IInv, TypeOK
<1>1. /\ UNCHANGED <<dbvars, entry, work, owed, told, crashes>>
      /\ pc[o] = "unavailable" /\ pc' = [pc EXCEPT ![o] = "done"]
      /\ \/ /\ remote[o].state = "notpay"
            /\ remote' = [remote EXCEPT ![o].state = "closed"]
         \/ UNCHANGED remote
  BY DEF CloseUnpublished, RemoteBecomes
<1>2. /\ pc'[o] = "done" /\ \A q \in Order : q # o => pc'[q] = pc[q]
      /\ \A q \in Order : q # o => remote'[q] = remote[q]
      /\ remote'[o].at = remote[o].at
      /\ \/ remote'[o].state = remote[o].state
         \/ remote[o].state = "notpay" /\ remote'[o].state = "closed"
  BY <1>0, <1>1 DEF Shapes
<1>3. Shapes'
  BY <1>0, <1>1 DEF Shapes, Requests, RemoteStates
<1>4. Sound(o)'
  BY <1>0, <1>1, <1>2 DEF Sound, Agreed, ByWechat, Locked, dbvars
<1>5. OnlyOrder(o)
  BY <1>1, <1>2 DEF OnlyOrder, dbvars
<1> QED BY <1>1, <1>3, <1>4, <1>5, OneOrder DEF dbvars

LEMMA RecordPrepayFailureSound ==
    ASSUME OrderwiseInv, NEW o \in Order, RecordPrepayFailure(o)
    PROVE  SoundNext
<1>0. Shapes /\ Sound(o) /\ TypeOK /\ now \in Nat
  BY TimeAssumption DEF OrderwiseInv, IInv, TypeOK
<1>1. /\ UNCHANGED <<now, info, product, order, event>>
      /\ UNCHANGED <<entry, remote, work, owed, told, crashes>>
      /\ pc[o] = "prepayfailed" /\ pc' = [pc EXCEPT ![o] = "done"]
      /\ \/ /\ attempt[o].state = "created"
            /\ attempt' = [attempt EXCEPT ![o].state = "failed"]
         \/ UNCHANGED attempt
  BY DEF RecordPrepayFailure, MarkFailed, dbvars
<1>2. pc'[o] = "done" /\ \A q \in Order : q # o => pc'[q] = pc[q]
  BY <1>0, <1>1 DEF Shapes
<1>3. \/ /\ attempt[o].state = "created" /\ attempt'[o].state = "failed"
         /\ attempt'[o].provider = attempt[o].provider
         /\ attempt'[o].amount = attempt[o].amount
         /\ \A q \in Order : q # o => attempt'[q] = attempt[q]
      \/ attempt' = attempt
  BY <1>0, <1>1, AttemptStateEffect
<1>4. Shapes'
  BY <1>0, <1>1 DEF Shapes, Requests
<1>5. Sound(o)'
  BY <1>0, <1>1, <1>2, <1>3 DEF Sound, Agreed, ByWechat, Locked
<1>6. OnlyOrder(o)
  BY <1>1, <1>2, <1>3 DEF OnlyOrder
<1> QED BY <1>1, <1>4, <1>5, <1>6, OneOrder

-----------------------------------------------------------------------------
(* The providers, the customer and the notification                        *)

\* WeChat registers an order nobody has an entry for yet; a customer pays only
\* with an entry in hand, which the worker respects; and a refund finds the
\* order pending.
LEMMA OutsideSound ==
    ASSUME OrderwiseInv, NEW o \in Order, Outside(o)
    PROVE  SoundNext
<1>0. Shapes /\ Sound(o) /\ now \in Nat /\ remote[o].at \in Nat
  BY TimeAssumption DEF OrderwiseInv, IInv, TypeOK, Shapes
<1>1. UNCHANGED <<dbvars, pc, entry, work, owed, told, crashes>>
  BY DEF Outside, RemoteRegisters, CustomerPays, OwnerRefunds
<1>2. CASE RemoteRegisters(o)
  <2>1. remote[o].state = "sent" /\ remote' = [remote EXCEPT ![o].state = "notpay"]
    BY <1>2 DEF RemoteRegisters, RemoteBecomes
  <2>2. /\ remote'[o].state = "notpay" /\ remote'[o].at = remote[o].at
        /\ \A q \in Order : q # o => remote'[q] = remote[q]
    BY <1>0, <2>1 DEF Shapes
  <2>3. Shapes'
    BY <1>0, <1>1, <2>1 DEF Shapes, RemoteStates
  <2>4. Sound(o)'
    BY <1>0, <1>1, <2>1, <2>2 DEF Sound, Agreed, ByWechat, Locked, dbvars
  <2>5. OnlyOrder(o)
    BY <1>1, <2>2 DEF OnlyOrder, dbvars
  <2> QED BY <1>1, <2>3, <2>4, <2>5, OneOrder DEF dbvars
<1>3. CASE CustomerPays(o)
  <2>1. /\ entry[o]
        /\ remote[o].state = IF ByWechat(o) THEN "notpay" ELSE "none"
        /\ remote' = [remote EXCEPT ![o] = [state |-> "paid", at |-> now]]
    BY <1>3 DEF CustomerPays
  <2>2. /\ remote'[o].state = "paid" /\ remote'[o].at = now
        /\ \A q \in Order : q # o => remote'[q] = remote[q]
    BY <1>0, <2>1 DEF Shapes
  <2>3. Shapes'
    BY <1>0, <1>1, <2>1 DEF Shapes, RemoteStates
  <2>4. Sound(o)'
    BY <1>0, <1>1, <2>1, <2>2 DEF Sound, Agreed, ByWechat, Locked, dbvars
  <2>5. OnlyOrder(o)
    BY <1>1, <2>2 DEF OnlyOrder, dbvars
  <2> QED BY <1>1, <2>3, <2>4, <2>5, OneOrder DEF dbvars
<1>4. CASE OwnerRefunds(o)
  <2>1. /\ ByWechat(o) /\ order[o].status = "pending" /\ remote[o].state = "paid"
        /\ remote' = [remote EXCEPT ![o].state = "refunded"]
    BY <1>4 DEF OwnerRefunds, RemoteBecomes
  <2>2. /\ remote'[o].state = "refunded" /\ remote'[o].at = remote[o].at
        /\ \A q \in Order : q # o => remote'[q] = remote[q]
    BY <1>0, <2>1 DEF Shapes
  <2>3. Shapes'
    BY <1>0, <1>1, <2>1 DEF Shapes, RemoteStates
  <2>4. Sound(o)'
    BY <1>0, <1>1, <2>1, <2>2 DEF Sound, Agreed, ByWechat, Locked, dbvars
  <2>5. OnlyOrder(o)
    BY <1>1, <2>2 DEF OnlyOrder, dbvars
  <2> QED BY <1>1, <2>3, <2>4, <2>5, OneOrder DEF dbvars
<1> QED BY <1>2, <1>3, <1>4 DEF Outside

\* Whatever confirm_payment does with a payment of order o, it is a
\* transaction of OrderDb, books the payment, touches no other order, and lets
\* no WeChat order expire; and it owes a notification only if it booked the
\* payment just now.
LEMMA ConfirmEffect ==
    ASSUME OrderwiseInv, NEW o \in Order, NEW id \in Event, NEW t \in Nat,
           t <= now, attempt[o].state # "absent",
           ConfirmAndOwe(PaymentOf(o, id, t))
    PROVE  /\ PaymentNext
           /\ UNCHANGED <<now, info>>
           /\ \A q \in Order : q # o => order'[q] = order[q] /\ attempt'[q] = attempt[q]
           /\ attempt'[o].state = "succeeded"
           /\ attempt'[o].provider = attempt[o].provider
           /\ attempt'[o].amount = attempt[o].amount
           /\ order'[o].expires = order[o].expires
           /\ ByWechat(o) /\ order'[o].status = "expired" => order[o].status = "expired"
           /\ \/ UNCHANGED owed
              \/ attempt[o].state # "succeeded" /\ owed' = owed \cup {o}
<1> DEFINE c == PaymentOf(o, id, t)
<1>0. /\ TypeOK /\ now \in 0 .. MaxTime /\ Sound(o)
      /\ ProviderKnown /\ attempt[o].provider \in Provider /\ attempt[o].amount \in Price
  BY DEF OrderwiseInv, IInv, TypeOK, ProviderKnown, Sound, Agreed
<1>1. t \in 0 .. MaxTime
  BY <1>0, TimeAssumption
<1>2. /\ c.provider = attempt[o].provider /\ c.trade = o /\ c.paidAt = t
      /\ c.expected = o /\ c.amount = attempt[o].amount /\ c.txn = TxnOf[o]
  BY DEF PaymentOf
<1>3. TxnOf[o] \in Txn
  BY IdAssumption
<1>4. c \in Confirmation
  BY <1>0, <1>1, <1>3 DEF PaymentOf, Confirmation
<1>5. o # None
  BY NoneFresh
<1>6. Genuine(c)
  BY <1>2, <1>5 DEF Genuine
<1>7. ConfirmPayment(c)
  BY DEF ConfirmAndOwe, ConfirmPayment
<1>8. PaymentNext
  BY <1>4, <1>6, <1>7 DEF PaymentNext
<1>9. CASE RepeatPayment(c) /\ UNCHANGED owed
  BY <1>0, <1>2, <1>4, <1>8, <1>9, RepeatEffect
<1>10. CASE RecordAfterExpiry(c) /\ owed' = owed \cup {c.trade}
  <2>1. /\ attempt[o].state # "succeeded"
        /\ order[o].status = "expired" \/ Late(c)
        /\ \/ ReleaseInventory(o)
           \/ order[o].status # "pending" /\ UNCHANGED order
        /\ MarkSucceeded(c) /\ UNCHANGED <<now, info>>
    BY <1>0, <1>2, <1>4, <1>10, RecordEffect
  <2>2. /\ attempt'[o].state = "succeeded"
        /\ attempt'[o].provider = attempt[o].provider
        /\ attempt'[o].amount = attempt[o].amount
        /\ \A q \in Order : q # o => attempt'[q] = attempt[q]
    BY <1>0, <1>2, <1>4, <2>1, SucceedEffect
  <2>3. /\ order'[o].expires = order[o].expires
        /\ \A q \in Order : q # o => order'[q] = order[q]
    BY <1>0, <2>1, ReleaseEffect
  <2>4. ByWechat(o) => order[o].status = "expired"
    BY <1>2, <2>1 DEF Late, ByWechat
  <2> QED BY <1>2, <1>8, <1>10, <2>1, <2>2, <2>3, <2>4
<1>11. CASE ApplyPayment(c) /\ owed' = owed \cup {c.trade}
  <2>1. /\ attempt[o].state # "succeeded"
        /\ DeliverInventory(o)
        /\ MarkSucceeded(c) /\ UNCHANGED <<now, info>>
    BY <1>0, <1>2, <1>4, <1>11, ApplyEffect
  <2>2. /\ attempt'[o].state = "succeeded"
        /\ attempt'[o].provider = attempt[o].provider
        /\ attempt'[o].amount = attempt[o].amount
        /\ \A q \in Order : q # o => attempt'[q] = attempt[q]
    BY <1>0, <1>2, <1>4, <2>1, SucceedEffect
  <2>3. /\ order'[o].expires = order[o].expires /\ order'[o].status = "delivered"
        /\ \A q \in Order : q # o => order'[q] = order[q]
    BY <1>0, <2>1, DeliverEffect
  <2> QED BY <1>2, <1>8, <1>11, <2>1, <2>2, <2>3
<1> QED BY <1>9, <1>10, <1>11 DEF ConfirmAndOwe

\* A confirmation keeps the order sound, called by a handler or by the worker,
\* who is done with the order then.
LEMMA ConfirmSound ==
    ASSUME OrderwiseInv, NEW o \in Order, NEW id \in Event, NEW t \in Nat,
           t <= now, remote[o].state \in {"paid", "refunded"},
           ~Locked(o), ConfirmAndOwe(PaymentOf(o, id, t)),
           UNCHANGED <<pc, entry, remote, told, crashes>>,
           UNCHANGED work \/ work' = [work EXCEPT ![o] = "idle"]
    PROVE  SoundNext /\ PaymentNext
<1>0. Shapes /\ Sound(o) /\ now \in Nat
  BY TimeAssumption DEF OrderwiseInv, IInv, TypeOK
<1>1. attempt[o].state # "absent"
  BY <1>0 DEF Sound, Agreed
<1>2. /\ PaymentNext
      /\ UNCHANGED <<now, info>>
      /\ \A q \in Order : q # o => order'[q] = order[q] /\ attempt'[q] = attempt[q]
      /\ attempt'[o].state = "succeeded"
      /\ attempt'[o].provider = attempt[o].provider
      /\ attempt'[o].amount = attempt[o].amount
      /\ order'[o].expires = order[o].expires
      /\ ByWechat(o) /\ order'[o].status = "expired" => order[o].status = "expired"
      /\ \/ UNCHANGED owed
         \/ attempt[o].state # "succeeded" /\ owed' = owed \cup {o}
  BY <1>1, ConfirmEffect
<1>3. /\ work'[o] \in {work[o], "idle"}
      /\ \A q \in Order : q # o => work'[q] = work[q]
  BY <1>0 DEF Shapes
<1>4. Shapes'
  BY <1>0, <1>2 DEF Shapes, Jobs
<1>5. Sound(o)'
  BY <1>0, <1>1, <1>2, <1>3 DEF Sound, Agreed, ByWechat, Locked
<1>6. OnlyOrder(o)
  BY <1>2, <1>3 DEF OnlyOrder
<1> QED BY <1>2, <1>4, <1>5, <1>6, OneOrder

LEMMA NotifiedSound ==
    ASSUME OrderwiseInv, NEW o \in Order, Notified(o)
    PROVE  SoundNext /\ PaymentNext
<1>0. Shapes /\ Sound(o) /\ now \in Nat
  BY TimeAssumption DEF OrderwiseInv, IInv, TypeOK
<1>1. PICK t \in PaidAt(o) : ConfirmAndOwe(PaymentOf(o, NotifyId[o], t))
  BY DEF Notified
<1>2. remote[o].at \in Nat /\ remote[o].at <= now
  BY <1>0 DEF Shapes, Sound, Agreed
<1>3. t \in Nat /\ t <= now
  BY <1>0, <1>2 DEF PaidAt
<1>4. NotifyId[o] \in Event
  BY IdAssumption
<1>5. /\ ~Locked(o) /\ remote[o].state \in {"paid", "refunded"}
      /\ UNCHANGED <<pc, entry, remote, work, told, crashes>>
  BY DEF Notified
<1> QED BY <1>1, <1>3, <1>4, <1>5, ConfirmSound

LEMMA SpawnNotificationSound ==
    ASSUME OrderwiseInv, NEW o \in Order, SpawnNotification(o)
    PROVE  SoundNext
<1>0. Shapes /\ Sound(o) /\ now \in Nat
  BY TimeAssumption DEF OrderwiseInv, IInv, TypeOK
<1>1. /\ o \in owed /\ owed' = owed \ {o} /\ told' = [told EXCEPT ![o] = @ + 1]
      /\ UNCHANGED <<dbvars, pc, entry, remote, work, crashes>>
  BY DEF SpawnNotification
<1>2. told[o] = 0 /\ attempt[o].state = "succeeded"
  BY <1>0, <1>1 DEF Sound
<1>3. told'[o] = 1 /\ \A q \in Order : q # o => told'[q] = told[q]
  BY <1>0, <1>1, <1>2 DEF Shapes
<1>4. Shapes'
  BY <1>0, <1>1 DEF Shapes
<1>5. Sound(o)'
  BY <1>0, <1>1, <1>2, <1>3 DEF Sound, Agreed, ByWechat, Locked, dbvars
<1>6. OnlyOrder(o)
  BY <1>1, <1>3 DEF OnlyOrder, dbvars
<1> QED BY <1>1, <1>4, <1>5, <1>6, OneOrder DEF dbvars

-----------------------------------------------------------------------------
(* The workers                                                             *)

\* The jobs that leave the tables alone.  An unpaid order nobody has an entry
\* for, or one WeChat has closed, is released next; a paid one is booked.
LEMMA RemoteCallSound ==
    ASSUME OrderwiseInv, NEW o \in Order,
           \/ QueryAnswered(o) \/ CloseSucceeds(o) \/ RemoteCallFails(o)
           \/ TransactionFails(o)
    PROVE  SoundNext
<1>0. Shapes /\ Sound(o) /\ now \in Nat
  BY TimeAssumption DEF OrderwiseInv, IInv, TypeOK
<1>1. UNCHANGED <<dbvars, pc, entry, owed, told, crashes>>
  BY DEF QueryAnswered, CloseSucceeds, RemoteCallFails, TransactionFails, NextJob
<1>2. work[o] # "idle"
  BY DEF QueryAnswered, CloseSucceeds, RemoteCallFails, TransactionFails
<1>3. /\ \/ UNCHANGED remote
         \/ /\ remote[o].state \in {"notpay", "closed"} /\ work[o] = "close"
            /\ remote' = [remote EXCEPT ![o].state = "closed"]
  BY DEF QueryAnswered, CloseSucceeds, RemoteCallFails, TransactionFails, RemoteBecomes
<1>4. /\ remote' \in [Order -> [state : RemoteStates, at : Nat]]
      /\ \A q \in Order : q # o => remote'[q] = remote[q]
      /\ remote'[o].at = remote[o].at
      /\ \/ remote'[o].state = remote[o].state
         \/ /\ remote[o].state \in {"notpay", "closed"} /\ work[o] = "close"
            /\ remote'[o].state = "closed"
  BY <1>0, <1>3 DEF Shapes, RemoteStates
<1>5. PICK job \in Jobs :
         /\ work' = [work EXCEPT ![o] = job]
         /\ job = "apply" => remote'[o].state = "paid"
         /\ job = "expire" => remote'[o].state \in {"none", "sent", "closed"}
         /\ job \in {"query", "close", "apply"} => work[o] = "query"
         /\ job = "expire" => work[o] \in {"query", "close"}
  <2>1. CASE QueryAnswered(o)
    <3>1. /\ work[o] = "query" /\ UNCHANGED remote
          /\ work' = [work EXCEPT ![o] = AfterQuery(remote[o].state)]
      BY <2>1 DEF QueryAnswered, NextJob
    <3>2. remote[o].state \in RemoteStates
      BY <1>0 DEF Shapes
    <3> QED BY <3>1, <3>2 DEF AfterQuery, RemoteStates, Jobs
  <2>2. CASE CloseSucceeds(o)
    <3>1. /\ work[o] = "close" /\ work' = [work EXCEPT ![o] = "expire"]
          /\ remote' = [remote EXCEPT ![o].state = "closed"]
      BY <2>2 DEF CloseSucceeds, NextJob, RemoteBecomes
    <3>2. remote'[o].state = "closed"
      BY <1>0, <3>1 DEF Shapes
    <3> QED BY <3>1, <3>2 DEF Jobs
  <2>3. CASE RemoteCallFails(o) \/ TransactionFails(o)
    <3>1. work' = [work EXCEPT ![o] = "idle"]
      BY <2>3 DEF RemoteCallFails, TransactionFails, NextJob
    <3> QED BY <3>1 DEF Jobs
  <2> QED BY <2>1, <2>2, <2>3
<1>6. work'[o] = job /\ \A q \in Order : q # o => work'[q] = work[q]
  BY <1>0, <1>5 DEF Shapes
<1>7. Shapes'
  BY <1>0, <1>1, <1>4, <1>5 DEF Shapes
<1>8. Sound(o)'
  BY <1>0, <1>1, <1>2, <1>4, <1>5, <1>6 DEF Sound, Agreed, ByWechat, Locked, dbvars, Jobs
<1>9. OnlyOrder(o)
  BY <1>1, <1>4, <1>6 DEF OnlyOrder, dbvars
<1> QED BY <1>1, <1>7, <1>8, <1>9, OneOrder DEF dbvars

LEMMA ApplySuccessSound ==
    ASSUME OrderwiseInv, NEW o \in Order, ApplySuccess(o)
    PROVE  SoundNext /\ (PaymentNext \/ UNCHANGED dbvars)
<1>0. Shapes /\ Sound(o) /\ now \in Nat
  BY TimeAssumption DEF OrderwiseInv, IInv, TypeOK
<1>1. /\ work[o] = "apply" /\ ~Locked(o) /\ work' = [work EXCEPT ![o] = "idle"]
      /\ UNCHANGED <<pc, entry, remote, told, crashes>>
      /\ \/ ConfirmAndOwe(PaymentOf(o, QueryId[o], remote[o].at))
         \/ UNCHANGED <<dbvars, owed>>
  BY DEF ApplySuccess, NextJob
<1>2. remote[o].state \in {"paid", "refunded"} /\ remote[o].at \in Nat /\ remote[o].at <= now
  BY <1>0, <1>1 DEF Shapes, Sound, Agreed
<1>3. CASE ConfirmAndOwe(PaymentOf(o, QueryId[o], remote[o].at))
  BY <1>1, <1>2, <1>3, IdAssumption, ConfirmSound
<1>4. CASE UNCHANGED <<dbvars, owed>>
  <2>1. work'[o] = "idle" /\ \A q \in Order : q # o => work'[q] = work[q]
    BY <1>0, <1>1 DEF Shapes
  <2>2. Shapes'
    BY <1>0, <1>1, <1>4 DEF Shapes, Jobs
  <2>3. Sound(o)'
    BY <1>0, <1>1, <1>4, <2>1 DEF Sound, Agreed, ByWechat, Locked, dbvars
  <2>4. OnlyOrder(o)
    BY <1>1, <1>4, <2>1 DEF OnlyOrder, dbvars
  <2> QED BY <1>4, <2>2, <2>3, <2>4, OneOrder DEF dbvars
<1> QED BY <1>1, <1>3, <1>4

\* The heart of it: a WeChat order the worker releases is closed, or no
\* customer ever got an entry for it, so that it is not paid and will not be.
LEMMA ExpireSound ==
    ASSUME OrderwiseInv, NEW o \in Order, Expire(o)
    PROVE  SoundNext
<1>0. Shapes /\ Sound(o) /\ TypeOK /\ now \in Nat
  BY TimeAssumption DEF OrderwiseInv, IInv, TypeOK
<1>1. /\ work[o] = "expire" /\ ~Locked(o) /\ work' = [work EXCEPT ![o] = "idle"]
      /\ UNCHANGED <<pc, entry, remote, owed, told, crashes>>
      /\ ExpireReserved(o) \/ UNCHANGED dbvars
  BY DEF Expire, NextJob
<1>2. work'[o] = "idle" /\ \A q \in Order : q # o => work'[q] = work[q]
  BY <1>0, <1>1 DEF Shapes
<1>3. Shapes'
  BY <1>0, <1>1 DEF Shapes, Jobs
<1>4. CASE ExpireReserved(o)
  <2>1. /\ attempt[o].state # "succeeded" /\ order[o].status = "pending"
        /\ ReleaseInventory(o)
        /\ attempt' = [attempt EXCEPT ![o].state = "closed"]
        /\ UNCHANGED <<now, info, event>>
    BY <1>4 DEF ExpireReserved, Expirable
  <2>2. /\ attempt'[o].state = "closed"
        /\ attempt'[o].provider = attempt[o].provider
        /\ attempt'[o].amount = attempt[o].amount
        /\ \A q \in Order : q # o => attempt'[q] = attempt[q]
    BY <1>0, <2>1, AttemptStateEffect
  <2>3. /\ order'[o].status = "expired" /\ order'[o].expires = order[o].expires
        /\ \A q \in Order : q # o => order'[q] = order[q]
    BY <1>0, <2>1, ReleaseEffect
  <2>4. ByWechat(o) => remote[o].state \notin {"paid", "refunded"}
                       /\ (entry[o] => remote[o].state # "notpay")
    BY <1>0, <1>1 DEF Sound, Agreed
  <2>5. attempt[o].state # "absent"
    BY <1>0, <1>1 DEF Sound, Agreed
  <2>6. Sound(o)'
    BY <1>0, <1>1, <1>2, <2>1, <2>2, <2>3, <2>4, <2>5 DEF Sound, Agreed, ByWechat, Locked
  <2>7. OnlyOrder(o)
    BY <1>1, <1>2, <2>2, <2>3 DEF OnlyOrder
  <2> QED BY <1>3, <2>1, <2>6, <2>7, OneOrder
<1>5. CASE UNCHANGED dbvars
  <2>1. Sound(o)'
    BY <1>0, <1>1, <1>2, <1>5 DEF Sound, Agreed, ByWechat, Locked, dbvars
  <2>2. OnlyOrder(o)
    BY <1>1, <1>2, <1>5 DEF OnlyOrder, dbvars
  <2> QED BY <1>3, <1>5, <2>1, <2>2, OneOrder DEF dbvars
<1> QED BY <1>1, <1>4, <1>5

\* A batch holds orders past their deadline; ePay's are released and WeChat's
\* asked about.
LEMMA ScanSound ==
    ASSUME OrderwiseInv, EpayScan \/ WechatScan
    PROVE  SoundNext
<1>0. Shapes /\ now \in Nat
  BY TimeAssumption DEF OrderwiseInv, IInv, TypeOK
<1>1. PICK provider \in Provider, states \in SUBSET {"created", "ready", "failed"} :
         Scan(provider, states, IF provider = "epay" THEN "expire" ELSE "query")
  <2>1. "epay" \in Provider /\ "wechatpay" \in Provider
    BY DEF Provider
  <2>2. CASE EpayScan
    BY <2>1, <2>2 DEF EpayScan
  <2>3. CASE WechatScan
    BY <2>1, <2>3 DEF WechatScan
  <2> QED BY <2>2, <2>3
<1> DEFINE job == IF provider = "epay" THEN "expire" ELSE "query"
<1>2. /\ work' = [o \in Order |-> IF o \in Candidates(provider, states) THEN job ELSE work[o]]
      /\ UNCHANGED <<dbvars, pc, entry, remote, owed, told, crashes>>
  BY <1>1 DEF Scan
<1>3. Shapes'
  BY <1>0, <1>2 DEF Shapes, Jobs
<1>4. Priced'
  BY <1>2 DEF OrderwiseInv, Priced, dbvars
<1>5. ASSUME NEW q \in Order PROVE Sound(q)'
  <2>1. CASE q \in Candidates(provider, states)
    <3>1. /\ attempt[q].provider = provider /\ attempt[q].state # "absent"
          /\ order[q].expires <= now
      BY <2>1 DEF Candidates
    <3>2. work'[q] = job
      BY <1>2, <2>1
    <3>3. Sound(q)
      BY DEF OrderwiseInv
    <3> QED BY <1>2, <3>1, <3>2, <3>3 DEF Sound, Agreed, ByWechat, Locked, dbvars, Provider
  <2>2. CASE q \notin Candidates(provider, states)
    <3>1. work'[q] = work[q]
      BY <1>2, <2>2
    <3> QED BY <1>0, <1>2, <3>1, Untouched DEF dbvars
  <2> QED BY <2>1, <2>2
<1> QED BY <1>3, <1>4, <1>5 DEF SoundNext

-----------------------------------------------------------------------------
(* The whole                                                               *)

LEMMA RestartSound ==
    ASSUME OrderwiseInv, Restart
    PROVE  SoundNext
<1>0. Shapes /\ now \in Nat
  BY TimeAssumption DEF OrderwiseInv, IInv, TypeOK
<1>1. /\ crashes' = crashes + 1 /\ crashes < MaxCrash
      /\ pc' = [o \in Order |-> IF pc[o] = "idle" THEN "idle" ELSE "done"]
      /\ work' = [o \in Order |-> "idle"]
      /\ owed' = {}
      /\ UNCHANGED <<dbvars, entry, remote, told>>
  BY DEF Restart
<1>2. Shapes'
  BY <1>0, <1>1, CrashAssumption DEF Shapes, Requests, Jobs
<1>3. Priced'
  BY <1>1 DEF OrderwiseInv, Priced, dbvars
<1>4. ASSUME NEW q \in Order PROVE Sound(q)'
  <2>1. /\ pc'[q] = IF pc[q] = "idle" THEN "idle" ELSE "done"
        /\ work'[q] = "idle" /\ q \notin owed'
    BY <1>1
  <2>2. Sound(q)
    BY DEF OrderwiseInv
  <2> QED BY <1>1, <2>1, <2>2 DEF Sound, Agreed, ByWechat, Locked, dbvars
<1> QED BY <1>2, <1>3, <1>4 DEF SoundNext

LEMMA ClockSound ==
    ASSUME OrderwiseInv, Clock
    PROVE  SoundNext
<1>1. /\ now \in Nat /\ now' = now + 1
      /\ UNCHANGED <<info, order, attempt, pc, entry, remote, work, owed, told, crashes>>
  BY TimeAssumption DEF OrderwiseInv, IInv, TypeOK, Clock, Tick, pvars
<1>2. now' \in Nat /\ now <= now'
  BY <1>1
<1>3. ASSUME NEW q \in Order PROVE Sound(q)'
  BY <1>1, <1>2, Untouched
<1> QED BY <1>1, <1>3 DEF SoundNext, OrderwiseInv, Shapes, Priced

\* Every step of the processes is a transaction of OrderDb or leaves the
\* tables alone.
LEMMA TransactionStep ==
    ASSUME OrderwiseInv, [CheckoutNext]_vars
    PROVE  [Next]_dbvars
<1>1. ASSUME NEW o \in Order, Handler(o)
      PROVE  OrderNext \/ UNCHANGED dbvars
  BY <1>1 DEF Handler, PlaceOrder, PrepayAnswered, PrepayFails, Recheck, Publish,
              PublishRefused, CloseUnpublished, RecordPrepayFailure,
              RequestDropped, OrderNext
<1>2. ASSUME NEW o \in Order, Outside(o) \/ SpawnNotification(o)
      PROVE  UNCHANGED dbvars
  BY <1>2 DEF Outside, RemoteRegisters, CustomerPays, OwnerRefunds, SpawnNotification
<1>3. ASSUME NEW o \in Order, Worker(o)
      PROVE  OrderNext \/ PaymentNext \/ UNCHANGED dbvars
  <2>1. CASE QueryAnswered(o) \/ CloseSucceeds(o) \/ RemoteCallFails(o)
             \/ TransactionFails(o)
    BY <2>1 DEF QueryAnswered, CloseSucceeds, RemoteCallFails, TransactionFails
  <2>2. CASE ApplySuccess(o)
    BY <2>2, ApplySuccessSound
  <2>3. CASE Expire(o)
    BY <2>3 DEF Expire, OrderNext
  <2> QED BY <1>3, <2>1, <2>2, <2>3 DEF Worker
<1>4. ASSUME NEW o \in Order, Notified(o)
      PROVE  PaymentNext
  BY <1>4, NotifiedSound
<1>5. CASE Clock
  BY <1>5 DEF Clock, Next
<1>6. CASE Restart \/ EpayScan \/ WechatScan \/ UNCHANGED vars
  BY <1>6 DEF Restart, EpayScan, WechatScan, Scan, vars
<1> QED BY <1>1, <1>2, <1>3, <1>4, <1>5, <1>6 DEF CheckoutNext, Next

\* The invariant is inductive.
LEMMA CheckoutStep == OrderwiseInv /\ [CheckoutNext]_vars => OrderwiseInv'
<1> SUFFICES ASSUME OrderwiseInv, [CheckoutNext]_vars PROVE OrderwiseInv'
  OBVIOUS
<1>1. IInv'
  BY TransactionStep, StepInvariant DEF OrderwiseInv
<1>2. ASSUME NEW o \in Order, Handler(o) PROVE SoundNext
  BY <1>2, PlaceOrderSound, RequestSound, RecheckSound, PublishSound, CloseUnpublishedSound,
     RecordPrepayFailureSound DEF Handler
<1>3. ASSUME NEW o \in Order, Worker(o) PROVE SoundNext
  BY <1>3, RemoteCallSound, ApplySuccessSound, ExpireSound DEF Worker
<1>4. ASSUME NEW o \in Order, Outside(o) \/ Notified(o) \/ SpawnNotification(o)
      PROVE  SoundNext
  BY <1>4, OutsideSound, NotifiedSound, SpawnNotificationSound
<1>5. ASSUME UNCHANGED vars PROVE SoundNext
  <2>1. UNCHANGED <<now, info, order, attempt, pc, entry, remote, work, owed, told, crashes>>
    BY <1>5 DEF vars, dbvars, pvars
  <2>2. now \in Nat /\ now <= now'
    BY <2>1, TimeAssumption DEF OrderwiseInv, IInv, TypeOK
  <2>3. ASSUME NEW q \in Order PROVE Sound(q)'
    BY <2>1, <2>2, Untouched
  <2> QED BY <2>1, <2>3 DEF SoundNext, OrderwiseInv, Shapes, Priced
<1>6. SoundNext
  BY <1>2, <1>3, <1>4, <1>5, ClockSound, RestartSound, ScanSound DEF CheckoutNext
<1> QED BY <1>1, <1>6 DEF OrderwiseInv, SoundNext

LEMMA CheckoutStart == CheckoutInit => OrderwiseInv
<1> SUFFICES ASSUME CheckoutInit PROVE OrderwiseInv
  OBVIOUS
<1>1. /\ now = 0 /\ event = {}
      /\ info \in [Info -> [state : {"active"}, price : Price]]
      /\ product = [p \in Product |-> "available"]
      /\ order = [o \in Order |-> AbsentOrder]
      /\ attempt = [o \in Order |-> AbsentAttempt]
  BY DEF CheckoutInit
<1>2. Priced
  BY <1>1 DEF Priced
<1>3. info \in [Info -> InfoRow]
  BY <1>1, PriceAssumption DEF InfoRow
<1>4. /\ now \in 0 .. MaxTime /\ event \in SUBSET EventRow
      /\ product \in [Product -> ProductStatus]
  BY <1>1, TimeAssumption DEF ProductStatus
<1>5. AbsentOrder \in OrderRow /\ AbsentAttempt \in AttemptRow
  BY DEF AbsentOrder, AbsentAttempt, OrderRow, AttemptRow
<1>6. order \in [Order -> OrderRow] /\ attempt \in [Order -> AttemptRow]
  BY <1>1, <1>5
<1>7. \A o \in Order :
        /\ order[o].status = "absent" /\ order[o].product = None
        /\ order[o].amount = 0
        /\ attempt[o].state = "absent" /\ attempt[o].provider = None
        /\ attempt[o].amount = 0 /\ attempt[o].txn = None
  BY <1>1 DEF AbsentOrder, AbsentAttempt
<1>8. TypeOK
  BY <1>3, <1>4, <1>6, <1>7 DEF TypeOK, CheckConstraints
<1>9. Holding /\ HeldOnce /\ NoOrphan
  BY <1>1, <1>7 DEF Holding, HeldOnce, NoOrphan
<1>10. ProviderKnown /\ UnknownIsAbsent /\ LifecycleCoherence
  BY <1>7 DEF ProviderKnown, UnknownIsAbsent, LifecycleCoherence
<1>11. PaymentLedger
  BY <1>1, <1>7 DEF PaymentLedger
<1>12. ExpiredPast /\ EpayDeadline
  BY <1>7 DEF ExpiredPast, EpayDeadline
<1>13. /\ pc = [o \in Order |-> "idle"]
       /\ entry = [o \in Order |-> FALSE]
       /\ remote = [o \in Order |-> [state |-> "none", at |-> 0]]
       /\ work = [o \in Order |-> "idle"]
       /\ owed = {} /\ told = [o \in Order |-> 0] /\ crashes = 0
  BY DEF CheckoutInit
<1>14. Shapes
  BY <1>13, CrashAssumption DEF Shapes, Requests, RemoteStates, Jobs
<1>15. ASSUME NEW o \in Order PROVE Sound(o)
  <2>1. /\ pc[o] = "idle" /\ ~entry[o] /\ remote[o].state = "none"
        /\ remote[o].at = 0 /\ work[o] = "idle" /\ o \notin owed /\ told[o] = 0
    BY <1>13
  <2>2. ~ByWechat(o)
    BY <1>7, NoneFresh DEF ByWechat, Provider
  <2> QED BY <1>1, <1>7, <2>1, <2>2 DEF Sound, Agreed, Locked
<1> QED
  BY <1>2, <1>8, <1>9, <1>10, <1>11, <1>12, <1>14, <1>15 DEF OrderwiseInv, IInv

-----------------------------------------------------------------------------
(* The theorems                                                            *)

\* Requests, providers, workers, dropped requests and restarts, in any order,
\* keep the inductive invariant.
THEOREM CheckoutInvariance == CheckoutSpec => []CheckoutInv
<1>1. CheckoutInit => OrderwiseInv
  BY CheckoutStart
<1>2. OrderwiseInv /\ [CheckoutNext]_vars => OrderwiseInv'
  BY CheckoutStep
<1>3. OrderwiseInv => CheckoutInv
  BY Orderwise
<1> QED BY <1>1, <1>2, <1>3, PTL DEF CheckoutSpec

\* The tables change by the transactions of OrderDb only, although handlers
\* and workers act on what they read earlier (expiration.rs:324-414,
\* public.rs:699-799, service.rs:50-253).
THEOREM TransactionsOnly == CheckoutSpec => OnlyTransactions
<1>1. CheckoutInit => OrderwiseInv
  BY CheckoutStart
<1>2. OrderwiseInv /\ [CheckoutNext]_vars => OrderwiseInv'
  BY CheckoutStep
<1>3. OrderwiseInv /\ [CheckoutNext]_vars => [Next]_dbvars
  BY TransactionStep
<1> QED BY <1>1, <1>2, <1>3, PTL DEF CheckoutSpec, OnlyTransactions

\* The columns, requests, remote orders and jobs keep their types, and only
\* WeChat's orders are queried and closed (expiration.rs:42-53).
THEOREM CheckoutTypes == CheckoutSpec => []CheckoutTypeOK
<1>1. CheckoutInv => CheckoutTypeOK
  BY DEF CheckoutInv
<1> QED BY <1>1, CheckoutInvariance, PTL

\* The worker never expires an order whose WeChat payment has been or can
\* still be made (expiration.rs:167-227).
THEOREM PaidIsKept == CheckoutSpec => []WechatPaidNeverExpired
<1>1. CheckoutInv => WechatPaidNeverExpired
  BY DEF CheckoutInv
<1> QED BY <1>1, CheckoutInvariance, PTL

\* A customer's entry to an open WeChat order is always backed by a reserved
\* unit (public.rs:699-773).
THEOREM EntriesAreBacked == CheckoutSpec => []OpenEntryIsBacked
<1>1. CheckoutInv => OpenEntryIsBacked
  BY DEF CheckoutInv
<1> QED BY <1>1, CheckoutInvariance, PTL

\* One notification per payment at most, and none without a booked payment
\* (service.rs:249-259).
THEOREM ToldOnce == CheckoutSpec => []NotifiedAtMostOnce
<1>1. CheckoutInv => NotifiedAtMostOnce
  BY DEF CheckoutInv
<1> QED BY <1>1, CheckoutInvariance, PTL

\* The whole checkout, retries, races and crashes included, implements the
\* abstract sale (README.md:24-30).
THEOREM CheckoutImplements == CheckoutSpec => Lifecycle
<1>1. CheckoutInit => S!SaleInit
  <2> SUFFICES ASSUME CheckoutInit PROVE S!SaleInit
    OBVIOUS
  <2>1. \A o \in Order : /\ order[o].status = "absent" /\ order[o].product = None
                         /\ (attempt[o].state = "succeeded") = FALSE
    BY DEF CheckoutInit, AbsentOrder, AbsentAttempt
  <2>2. \A o \in Order : SaleOf(order[o].status) = "none"
    BY <2>1 DEF SaleOf
  <2> QED BY <2>1, <2>2 DEF S!SaleInit
<1>2. IInv /\ [Next]_dbvars => [S!SaleNext]_(S!svars)
  BY SaleStep
<1>3. CheckoutInv => IInv
  BY DEF CheckoutInv
<1> QED BY <1>1, <1>2, <1>3, CheckoutInvariance, TransactionsOnly, PTL
        DEF CheckoutSpec, Lifecycle, S!SaleSpec, OnlyTransactions
=============================================================================
