---------------------------- MODULE NotifyProofs ----------------------------
(***************************************************************************)
(* Proofs about NotifyCalls, for any number of orders, calls and notations,*)
(* and first about Money: what format_money and money_to_cents compute.    *)
(* What a step does to the tables comes before what it does to the calls:  *)
(* it is one of OrderDb's transactions, and what a handler has read of a   *)
(* payment stays true under all of them.  The steps of the calls then only *)
(* have to be looked at one by one.                                        *)
(***************************************************************************)
EXTENDS NotifyCalls, OrderDbProofs

-----------------------------------------------------------------------------
(* Conversions of Money                                                    *)

LEMMA NoWrap == \A n \in -(MaxMoney + 1) .. MaxMoney : Wrap(n) = n
<1> SUFFICES ASSUME NEW n \in -(MaxMoney + 1) .. MaxMoney PROVE Wrap(n) = n
  OBVIOUS
<1> DEFINE M == MaxMoney + 1
<1>1. M \in Nat /\ M > 0 /\ n + M \in 0 .. 2 * M - 1
  BY MoneyAssumption
<1> HIDE DEF M
<1>2. (n + M) % (2 * M) = n + M
  BY <1>1
<1>3. (n + MaxMoney + 1) % (2 * (MaxMoney + 1)) = n + MaxMoney + 1
  BY <1>2, MoneyAssumption DEF M
<1> QED BY <1>3, MoneyAssumption DEF Wrap

LEMMA WrapRange == \A n \in Int : Wrap(n) \in -(MaxMoney + 1) .. MaxMoney
<1> SUFFICES ASSUME NEW n \in Int PROVE Wrap(n) \in -(MaxMoney + 1) .. MaxMoney
  OBVIOUS
<1> DEFINE M == 2 * (MaxMoney + 1)
<1>1. M \in Nat /\ M > 0 /\ n + MaxMoney + 1 \in Int
  BY MoneyAssumption
<1> HIDE DEF M
<1>2. (n + MaxMoney + 1) % M \in 0 .. M - 1
  BY <1>1
<1> QED BY <1>2, MoneyAssumption DEF Wrap, M

\* Wrapping does not repair a small error: numbers less than the width of i64
\* apart wrap to different numbers.
LEMMA WrapKeepsApart ==
    \A n \in Int, d \in 1 .. 2 * MaxMoney + 1 : Wrap(n) # n - d
<1> SUFFICES ASSUME NEW n \in Int, NEW d \in 1 .. 2 * MaxMoney + 1, Wrap(n) = n - d
             PROVE  FALSE
  OBVIOUS
<1> DEFINE M == 2 * (MaxMoney + 1)
           a == n + MaxMoney + 1
           k == a \div M
<1>1. M \in Nat \ {0} /\ a \in Int
  BY MoneyAssumption
<1>2. k \in Int /\ a = (M * k) + (a % M) /\ a % M \in 0 .. M - 1
  <2> HIDE DEF M, a
  <2> QED BY <1>1
<1>3. a % M = a - d
  <2>1. Wrap(n) = (a % M) - (MaxMoney + 1)
    BY DEF Wrap
  <2> HIDE DEF M
  <2> QED BY <1>2, <2>1, MoneyAssumption
<1>4. M * k = d
  <2> HIDE DEF M, k, a
  <2> QED BY <1>1, <1>2, <1>3
<1>5. d > 0 /\ d < M
  BY MoneyAssumption
<1> HIDE DEF M, k
<1>6. CASE k <= 0
  <2>1. M * k <= 0
    BY <1>1, <1>2, <1>6
  <2> QED BY <1>4, <1>5, <2>1
<1>7. CASE k >= 1
  <2>1. M * k >= M
    BY <1>1, <1>2, <1>7
  <2> QED BY <1>1, <1>4, <1>5, <2>1
<1> QED BY <1>2, <1>6, <1>7

\* The price the shop writes into the payment URL comes back as the same
\* number of cents.
THEOREM RoundTrip ==
    \A cents \in 0 .. MaxMoney :
        /\ Parses(FormatMoney(cents))
        /\ MoneyToCents(FormatMoney(cents)) = cents
<1> SUFFICES ASSUME NEW cents \in 0 .. MaxMoney
             PROVE  /\ Parses(FormatMoney(cents))
                    /\ MoneyToCents(FormatMoney(cents)) = cents
  OBVIOUS
<1>1. /\ cents \in Nat /\ cents \div 100 \in Nat /\ cents % 100 \in 0 .. 99
      /\ cents = (cents \div 100) * 100 + (cents % 100)
  BY MoneyAssumption
<1>2. cents \div 100 <= MaxMoney
  BY <1>1, MoneyAssumption
<1>3. Fraction(FormatMoney(cents)) = cents % 100
  BY DEF Fraction, FormatMoney, Size, Signed
<1>4. MoneyToCents(FormatMoney(cents)) = cents
  <2>1. Wrap(cents) = cents
    BY <1>1, NoWrap, MoneyAssumption
  <2> QED BY <1>1, <1>3, <2>1 DEF MoneyToCents, FormatMoney, Signed
<1> QED BY <1>2, <1>4 DEF Parses, FormatMoney, Size

\* What is read of a text without a sign after the point.
LEMMA UnmarkedText ==
    ASSUME NEW t \in Text, Parses(t), t.mark = "none"
    PROVE  /\ t.whole \in Nat /\ t.digits \in {0, 1, 2} /\ t.fraction \in Nat
           /\ t.fraction < Pow10(t.digits) /\ t.minus \in BOOLEAN
           /\ Fraction(t) \in 0 .. 99 /\ (Fraction(t) = 0 <=> t.fraction = 0)
<1>1. /\ t.whole \in Nat /\ t.digits \in 0 .. 3 /\ t.fraction \in Nat
      /\ t.fraction < Pow10(t.digits) /\ t.minus \in BOOLEAN
  BY DEF Text
<1>2. t.digits \in {0, 1, 2}
  BY <1>1 DEF Parses, Size
<1>3. Fraction(t) = IF t.digits = 1 THEN t.fraction * 10 ELSE t.fraction
  BY DEF Fraction, Size, Signed
<1> QED BY <1>1, <1>2, <1>3 DEF Pow10

\* Of the texts the parser accepts, signs before and after the point included,
\* it reads these as what they mean and no others: those without a sign after
\* the point, without a minus before an amount with a fraction, and within i64
\* (epay.rs:408-424).  So "-0.50" (read as 50 cents), "-1.50" (read as -50) and
\* "1.-5" (read as 95) are the kinds of texts it misreads.
THEOREM ReadExactly ==
    \A t \in Text : Parses(t) => (Denotes(t, MoneyToCents(t)) <=> ReadRight(t))
<1> SUFFICES ASSUME NEW t \in Text, Parses(t), t.mark = "none"
             PROVE  Denotes(t, MoneyToCents(t)) <=> ReadRight(t)
  BY DEF Denotes, ReadRight
<1> DEFINE cents == t.whole * 100 + Fraction(t)
           meant == Signed(t.minus, cents)
           read == Signed(t.minus, t.whole) * 100 + Fraction(t)
<1>1. /\ t.whole \in Nat /\ t.digits \in {0, 1, 2} /\ t.fraction \in Nat
      /\ t.fraction < Pow10(t.digits) /\ t.minus \in BOOLEAN
      /\ Fraction(t) \in 0 .. 99 /\ (Fraction(t) = 0 <=> t.fraction = 0)
  BY UnmarkedText
<1>2. cents \in Nat /\ meant \in Int /\ read \in Int
  BY <1>1 DEF Signed
<1>3. \A n \in Int : Denotes(t, n) <=> n = meant
  <2> SUFFICES ASSUME NEW n \in Int PROVE Denotes(t, n) <=> n = meant
    OBVIOUS
  <2> DEFINE w == t.whole
             f == t.fraction
  <2>1. /\ t.digits = 0 => /\ Fraction(t) = 0
                           /\ Denotes(t, n) <=> n = Signed(t.minus, 100 * w)
        /\ t.digits = 1 => /\ Fraction(t) = f * 10
                           /\ Denotes(t, n) <=>
                                  n * 10 = Signed(t.minus, 100 * (w * 10 + f))
        /\ t.digits = 2 => /\ Fraction(t) = f
                           /\ Denotes(t, n) <=>
                                  n * 100 = Signed(t.minus, 100 * (w * 100 + f))
    <3>1. CASE t.digits = 0
      <4>1. f = 0 /\ Pow10(t.digits) = 1 /\ Fraction(t) = 0
        BY <1>1, <3>1 DEF Fraction, Pow10, Size, Signed
      <4> QED BY <1>1, <3>1, <4>1 DEF Denotes
    <3>2. CASE t.digits = 1
      BY <3>2 DEF Denotes, Fraction, Pow10, Size
    <3>3. CASE t.digits = 2
      BY <3>3 DEF Denotes, Fraction, Pow10, Size, Signed
    <3> QED BY <1>1, <3>1, <3>2, <3>3
  <2> HIDE DEF w, f
  <2>2. w \in Nat /\ f \in Nat
    BY <1>1 DEF w, f
  <2>3. meant = Signed(t.minus, w * 100 + Fraction(t))
    BY DEF w
  <2> HIDE DEF meant
  <2>4. CASE t.minus
    BY <1>1, <2>1, <2>2, <2>3, <2>4 DEF Signed
  <2>5. CASE ~t.minus
    BY <1>1, <2>1, <2>2, <2>3, <2>5 DEF Signed
  <2> QED BY <2>4, <2>5
<1>4. MoneyToCents(t) = Wrap(read) /\ Wrap(read) \in -(MaxMoney + 1) .. MaxMoney
  BY <1>2, WrapRange DEF MoneyToCents
<1>5. ReadRight(t) <=> /\ t.minus => Fraction(t) = 0
                       /\ meant \in -(MaxMoney + 1) .. MaxMoney
  BY <1>1 DEF ReadRight
<1>6. Denotes(t, MoneyToCents(t)) <=> Wrap(read) = meant
  BY <1>3, <1>4, MoneyAssumption
<1>7. CASE t.minus => Fraction(t) = 0
  <2>1. read = meant
    BY <1>1, <1>7 DEF Signed
  <2> HIDE DEF read, meant
  <2> QED BY <1>4, <1>5, <1>6, <1>7, <2>1, NoWrap
<1>8. CASE t.minus /\ Fraction(t) # 0
  <2>1. 2 * Fraction(t) \in 1 .. 2 * MaxMoney + 1
    BY <1>1, <1>8, MoneyAssumption
  <2>2. meant = read - 2 * Fraction(t)
    BY <1>1, <1>8 DEF Signed
  <2> HIDE DEF read, meant
  <2> QED BY <1>2, <1>5, <1>6, <1>8, <2>1, <2>2, WrapKeepsApart
<1> QED BY <1>7, <1>8

-----------------------------------------------------------------------------
(* What a step does to the tables                                          *)

\* A confirmation of a payment that was made, with its own numbers and the
\* amount read from its bill.
OwnPayment(c) ==
    /\ c \in Confirmation /\ Genuine(c) /\ ConfirmPayment(c)
    /\ c.id = EventOf[c.trade] /\ c.txn = TxnOf[c.trade]
    /\ Paid(c.trade) /\ Readable(c.trade) /\ c.amount = AmountOf(c.trade)

Moves ==
    \/ UNCHANGED dbvars
    \/ Tick
    \/ \E o \in Order, p \in Product, provider \in Provider :
          CreateOrder(o, p, provider, now)
    \/ \E o \in Order : PublishReady(o, now)
    \/ \E o \in Order : ExpireReserved(o)
    \/ \E c \in Confirmation : OwnPayment(c)

\* The tables of a state that satisfies the invariant.
LEMMA Tables ==
    ASSUME NotifyInv
    PROVE  /\ IInv /\ TypeOK /\ OwnBookings /\ BillsStand /\ CallsStand
           /\ now \in Nat /\ now \in 0 .. MaxTime
           /\ attempt \in [Order -> AttemptRow]
           /\ NotifyTypeOK /\ AckedIsBooked /\ BookedIsPaid
  BY TimeAssumption DEF NotifyInv, IInv, TypeOK

\* A call that has found a message valid passes a confirmation of its payment.
LEMMA BookedByOwn ==
    ASSUME NotifyInv, NEW k \in Call, NEW m \in Message, NEW e \in {None, m.order},
           call[k].at = "valid", call[k].message = m,
           ByEpay(m.order) \/ e # None,
           ConfirmPayment(ConfirmationOf(m.order, call[k].paidAt, e))
    PROVE  OwnPayment(ConfirmationOf(m.order, call[k].paidAt, e))
<1> DEFINE o == m.order
           c == ConfirmationOf(o, call[k].paidAt, e)
<1>1. o \in Order
  BY DEF Message
<1>2. Paid(o) /\ Readable(o) /\ call[k].paidAt \in 0 .. now
  <2>1. call[k] # Idle
    BY DEF Idle
  <2> QED BY <2>1, Tables DEF CallsStand, CallStands
<1>3. attempt[o].state # "absent" /\ attempt[o].provider \in Provider
  <2>1. o \in shown
    BY <1>1, <1>2, Tables DEF BillsStand, BillStands
  <2>2. attempt[o].state # "absent"
    BY <2>1, Tables DEF BillsStand
  <2> QED BY <1>1, <2>2 DEF NotifyInv, IInv, ProviderKnown
<1>4. /\ c.provider = attempt[o].provider /\ c.trade = o
      /\ c.id = EventOf[o] /\ c.txn = TxnOf[o] /\ c.expected = e
      /\ c.paidAt = call[k].paidAt /\ c.amount = AmountOf(o)
      /\ c = [provider |-> attempt[o].provider, id |-> EventOf[o], trade |-> o,
              txn |-> TxnOf[o], expected |-> e, amount |-> c.amount,
              paidAt |-> call[k].paidAt]
  BY DEF ConfirmationOf
<1>5. c.amount \in Price
  <2>1. attempt[c.trade].amount = c.amount
    BY DEF ConfirmPayment, RepeatPayment, RecordAfterExpiry, ApplyPayment, Acceptable
  <2> QED BY <1>1, <1>3, <1>4, <2>1, Tables DEF OwnBookings
<1>6. EventOf[o] \in Event /\ TxnOf[o] \in Txn /\ e \in Order \cup {None}
  BY <1>1, NotifyAssumption
<1>7. call[k].paidAt \in 0 .. MaxTime /\ call[k].paidAt <= now
  BY <1>2, Tables, TimeAssumption
<1> HIDE DEF c
<1>8. c \in Confirmation
  BY <1>1, <1>3, <1>4, <1>5, <1>6, <1>7 DEF Confirmation
<1>9. Genuine(c)
  BY <1>4, <1>7 DEF Genuine, ByEpay
<1>10. ConfirmPayment(c)
  BY DEF c
<1> QED BY <1>2, <1>4, <1>8, <1>9, <1>10 DEF OwnPayment, c

\* Every step is one of OrderDb's, or none.
LEMMA StepMoves == ASSUME NotifyInv, [NotifyNext]_vars PROVE Moves
<1>1. CASE UNCHANGED vars
  BY <1>1 DEF vars, Moves
<1>2. CASE Tick /\ UNCHANGED nvars
  BY <1>2 DEF Moves
<1>3. ASSUME NEW o \in Order, Place(o) \/ Show(o) \/ LapseOrder(o) \/ Pay(o)
      PROVE  Moves
  BY <1>3 DEF Place, Show, LapseOrder, Pay, Moves
<1>4. ASSUME NEW k \in Call, Reject(k) \/ BookFails(k) \/ Dropped(k)
      PROVE  Moves
  BY <1>4 DEF Reject, BookFails, Dropped, KeepDb, Moves
<1>5. ASSUME NEW k \in Call, NEW m \in Message,
             Receive(k, m) \/ Validate(k, m) \/ Record(k, m) \/ Answer(k, m)
      PROVE  Moves
  BY <1>5 DEF Receive, Validate, Record, Answer, KeepDb, Moves
<1>6. ASSUME NEW k \in Call, NEW m \in Message, Book(k, m)
      PROVE  Moves
  <2>1. PICK e \in {None, m.order} :
          LET c == ConfirmationOf(m.order, call[k].paidAt, e) IN
          /\ ByEpay(m.order) \/ e # None
          /\ \/ ConfirmPayment(c)
             \/ (\E row \in EventRows(c) : row.order = m.order) /\ KeepDb
    BY <1>6 DEF Book
  <2>2. call[k].at = "valid" /\ call[k].message = m
    BY <1>6 DEF Book
  <2>3. CASE KeepDb
    BY <2>3 DEF KeepDb, Moves
  <2>4. CASE ConfirmPayment(ConfirmationOf(m.order, call[k].paidAt, e))
    <3>1. OwnPayment(ConfirmationOf(m.order, call[k].paidAt, e))
      BY <2>1, <2>2, <2>4, BookedByOwn
    <3> QED BY <3>1 DEF Moves, OwnPayment
  <2> QED BY <2>1, <2>3, <2>4
<1> QED BY <1>1, <1>2, <1>3, <1>4, <1>5, <1>6 DEF NotifyNext, HandlerNext

LEMMA MoveIsStep == ASSUME NotifyInv, Moves PROVE [Next]_dbvars
<1>1. now \in 0 .. now
  BY Tables
<1> QED BY <1>1 DEF Moves, Next, OrderNext, PaymentNext, OwnPayment

LEMMA TablesStep == ASSUME NotifyInv, Moves PROVE IInv'
  BY MoveIsStep, StepInvariant, Tables

-----------------------------------------------------------------------------
(* What stays true of an attempt and of a payment                          *)

\* An attempt that exists keeps its provider and its amount.
LEMMA AttemptStays ==
    ASSUME NotifyInv, Moves, NEW o \in Order, attempt[o].state # "absent"
    PROVE  /\ attempt'[o].state # "absent"
           /\ attempt'[o].provider = attempt[o].provider
           /\ attempt'[o].amount = attempt[o].amount
<1> DEFINE Same(q) == /\ attempt'[q].state # "absent"
                      /\ attempt'[q].provider = attempt[q].provider
                      /\ attempt'[q].amount = attempt[q].amount
<1>0. TypeOK
  BY Tables
<1>1. CASE UNCHANGED attempt
  BY <1>1
<1>2. CASE UNCHANGED dbvars \/ Tick
  BY <1>1, <1>2 DEF dbvars, Tick
<1>3. ASSUME NEW q \in Order, NEW p \in Product, NEW provider \in Provider,
             CreateOrder(q, p, provider, now)
      PROVE  Same(o)
  <2>1. now \in 0 .. now
    BY Tables
  <2>2. attempt[q].state = "absent" /\ attempt'[o] = attempt[o]
    <3>1. order[q].status = "absent" /\ \A r \in Order : r # q => attempt'[r] = attempt[r]
      BY <1>0, <1>3, <2>1, CreateEffect
    <3>2. attempt[q].state = "absent"
      BY <3>1, Tables DEF IInv, LifecycleCoherence
    <3> QED BY <3>1, <3>2
  <2> QED BY <2>2
<1>4. ASSUME NEW q \in Order, PublishReady(q, now) \/ ExpireReserved(q)
      PROVE  Same(o)
  <2>1. PICK s \in {"ready", "failed", "closed"} : attempt' = [attempt EXCEPT ![q].state = s]
    BY <1>4 DEF PublishReady, ExpireReserved
  <2> QED BY <1>0, <2>1, AttemptStateEffect
<1>5. ASSUME NEW c \in Confirmation, OwnPayment(c)
      PROVE  Same(o)
  <2>1. CASE RepeatPayment(c)
    BY <1>0, <1>1, <2>1, RepeatEffect
  <2>2. CASE RecordAfterExpiry(c) \/ ApplyPayment(c)
    <3>1. MarkSucceeded(c)
      BY <1>0, <2>2, RecordEffect, ApplyEffect
    <3> QED BY <1>0, <3>1, SucceedEffect
  <2> QED BY <1>5, <2>1, <2>2 DEF OwnPayment, ConfirmPayment
<1> QED BY <1>2, <1>3, <1>4, <1>5 DEF Moves

\* Time passes and events are kept; what is paid stays as it is.
LEMMA TablesGrow ==
    ASSUME NotifyInv, Moves
    PROVE  /\ now' \in Nat /\ now <= now'
           /\ event \subseteq event'
           /\ \A o \in Order : attempt[o].state = "succeeded" => attempt'[o] = attempt[o]
<1>1. \A o \in Order : attempt[o].state = "succeeded" => attempt'[o] = attempt[o]
  BY MoveIsStep, SettledStep, Tables
<1>2. now \in Nat
  BY Tables
<1>3. CASE UNCHANGED dbvars \/ Tick
  BY <1>1, <1>2, <1>3 DEF dbvars, Tick
<1>4. CASE \E o \in Order, p \in Product, provider \in Provider :
             CreateOrder(o, p, provider, now)
  BY <1>1, <1>2, <1>4 DEF CreateOrder
<1>5. CASE \E o \in Order : PublishReady(o, now) \/ ExpireReserved(o)
  BY <1>1, <1>2, <1>5 DEF PublishReady, ExpireReserved
<1>6. CASE \E c \in Confirmation : OwnPayment(c)
  BY <1>1, <1>2, <1>6
  DEF OwnPayment, ConfirmPayment, RepeatPayment, RecordAfterExpiry, ApplyPayment,
      InsertEvent
<1> QED BY <1>3, <1>4, <1>5, <1>6 DEF Moves

\* Bookings are made with the payment's own numbers.
LEMMA OwnBookingsStep == ASSUME NotifyInv, Moves PROVE OwnBookings'
<1>0. TypeOK /\ OwnBookings
  BY Tables
<1>1. CASE UNCHANGED dbvars \/ Tick
  BY <1>0, <1>1 DEF dbvars, Tick, OwnBookings
<1>2. ASSUME NEW q \in Order, NEW p \in Product, NEW provider \in Provider,
             CreateOrder(q, p, provider, now)
      PROVE  OwnBookings'
  <2>1. now \in 0 .. now
    BY Tables
  <2>2. /\ attempt'[q].txn = None
        /\ \A r \in Order : r # q => attempt'[r] = attempt[r]
    BY <1>0, <1>2, <2>1, CreateEffect
  <2>4. UNCHANGED <<info, event>>
    BY <1>2 DEF CreateOrder
  <2>3. attempt'[q].amount \in Price
    <3>1. attempt'[q].amount = info[InfoOf[p]].price /\ InfoOf[p] \in Info
      BY <1>0, <1>2, InfoOfAssumption DEF CreateOrder, TypeOK
    <3> QED BY <1>0, <3>1 DEF OwnBookings
  <2> QED BY <1>0, <2>2, <2>3, <2>4 DEF OwnBookings
<1>3. ASSUME NEW q \in Order, PublishReady(q, now) \/ ExpireReserved(q)
      PROVE  OwnBookings'
  <2>1. PICK s \in {"ready", "failed", "closed"} : attempt' = [attempt EXCEPT ![q].state = s]
    BY <1>3 DEF PublishReady, ExpireReserved
  <2>2. /\ attempt'[q].txn = attempt[q].txn /\ attempt'[q].amount = attempt[q].amount
        /\ \A r \in Order : r # q => attempt'[r] = attempt[r]
    BY <1>0, <2>1, AttemptStateEffect
  <2>3. attempt[q].state # "absent" /\ UNCHANGED <<info, event>>
    BY <1>3, Tables DEF PublishReady, CanPublish, ExpireReserved, Expirable,
                        IInv, LifecycleCoherence
  <2> QED BY <1>0, <2>2, <2>3 DEF OwnBookings
<1>4. ASSUME NEW c \in Confirmation, OwnPayment(c)
      PROVE  OwnBookings'
  <2>1. /\ c.trade \in Order /\ c.id = EventOf[c.trade] /\ c.txn = TxnOf[c.trade]
    BY <1>4, ConfirmationFields DEF OwnPayment
  <2>2. UNCHANGED info /\ InsertEvent(c)
    BY <1>4 DEF OwnPayment, ConfirmPayment, RepeatPayment, RecordAfterExpiry, ApplyPayment
  <2>3. \A row \in event' : row.id = EventOf[row.order]
    BY <1>0, <2>1, <2>2 DEF OwnBookings, InsertEvent
  <2>4. CASE RepeatPayment(c)
    BY <1>0, <2>2, <2>3, <2>4, RepeatEffect DEF OwnBookings
  <2>5. CASE RecordAfterExpiry(c) \/ ApplyPayment(c)
    <3>1. MarkSucceeded(c) /\ attempt[c.trade].provider = c.provider
      BY <1>0, <2>5, RecordEffect, ApplyEffect
    <3>2. attempt[c.trade].state # "absent"
      BY <2>1, <3>1, ConfirmationFields, NoneFresh, Tables DEF IInv, UnknownIsAbsent
    <3>3. /\ attempt'[c.trade].amount = attempt[c.trade].amount
          /\ attempt'[c.trade].txn = c.txn
          /\ \A q \in Order : q # c.trade => attempt'[q] = attempt[q]
      BY <1>0, <3>1, SucceedEffect
    <3> QED BY <1>0, <2>1, <2>2, <2>3, <3>2, <3>3 DEF OwnBookings
  <2> QED BY <1>4, <2>4, <2>5 DEF OwnPayment, ConfirmPayment
<1> QED BY <1>1, <1>2, <1>3, <1>4 DEF Moves

\* Only a payment that was made is booked.
LEMMA NewlyBooked ==
    ASSUME NotifyInv, Moves, NEW o \in Order,
           attempt[o].state # "succeeded", attempt'[o].state = "succeeded"
    PROVE  /\ Paid(o)
           /\ \E c \in Confirmation : c.trade = o /\ OwnPayment(c)
<1>0. TypeOK
  BY Tables
<1>1. CASE UNCHANGED attempt
  BY <1>1
<1>2. CASE UNCHANGED dbvars \/ Tick
  BY <1>1, <1>2 DEF dbvars, Tick
<1>3. ASSUME NEW q \in Order, NEW p \in Product, NEW provider \in Provider,
             CreateOrder(q, p, provider, now)
      PROVE  FALSE
  <2>1. now \in 0 .. now
    BY Tables
  <2> QED BY <1>0, <1>3, <2>1, CreateEffect
<1>4. ASSUME NEW q \in Order, PublishReady(q, now) \/ ExpireReserved(q)
      PROVE  FALSE
  <2>1. PICK s \in {"ready", "failed", "closed"} : attempt' = [attempt EXCEPT ![q].state = s]
    BY <1>4 DEF PublishReady, ExpireReserved
  <2> QED BY <1>0, <2>1, AttemptStateEffect
<1>5. ASSUME NEW c \in Confirmation, OwnPayment(c)
      PROVE  c.trade = o
  <2>1. CASE RepeatPayment(c)
    BY <1>0, <1>1, <2>1, RepeatEffect
  <2>2. CASE RecordAfterExpiry(c) \/ ApplyPayment(c)
    <3>1. MarkSucceeded(c)
      BY <1>0, <2>2, RecordEffect, ApplyEffect
    <3> QED BY <1>0, <3>1, SucceedEffect
  <2> QED BY <1>5, <2>1, <2>2 DEF OwnPayment, ConfirmPayment
<1>6. CASE \E c \in Confirmation : OwnPayment(c)
  BY <1>5, <1>6 DEF OwnPayment
<1> QED BY <1>2, <1>3, <1>4, <1>6 DEF Moves

\* A confirmation that commits leaves its payment in the books.
LEMMA ConfirmedIsBooked ==
    ASSUME NotifyInv, NEW c \in Confirmation, OwnPayment(c)
    PROVE  Booked(c.trade)'
<1>0. TypeOK
  BY Tables
<1>1. /\ c.trade \in Order /\ c.id = EventOf[c.trade] /\ c.txn = TxnOf[c.trade]
  BY ConfirmationFields DEF OwnPayment
<1>2. InsertEvent(c)
  BY DEF OwnPayment, ConfirmPayment, RepeatPayment, RecordAfterExpiry, ApplyPayment
<1>3. \E row \in event' : row.id = EventOf[c.trade] /\ row.order = c.trade
  <2> DEFINE new == [provider |-> c.provider, id |-> c.id, order |-> c.trade]
  <2>1. new \in event' /\ new.id = EventOf[c.trade] /\ new.order = c.trade
    BY <1>1, <1>2 DEF InsertEvent
  <2> QED BY <2>1
<1>4. attempt'[c.trade].state = "succeeded" /\ attempt'[c.trade].txn = TxnOf[c.trade]
  <2>1. CASE RepeatPayment(c)
    BY <1>1, <2>1 DEF RepeatPayment
  <2>2. CASE RecordAfterExpiry(c) \/ ApplyPayment(c)
    <3>1. MarkSucceeded(c)
      BY <1>0, <2>2, RecordEffect, ApplyEffect
    <3> QED BY <1>0, <1>1, <3>1, SucceedEffect
  <2> QED BY <2>1, <2>2 DEF OwnPayment, ConfirmPayment
<1> QED BY <1>3, <1>4 DEF Booked

\* An event that is found stands for a payment in the books.
LEMMA FoundIsBooked ==
    ASSUME NotifyInv, NEW row \in event
    PROVE  Booked(row.order)
<1>1. row.order \in Order
  BY Tables DEF TypeOK, EventRow
<1>2. attempt[row.order].state = "succeeded" /\ attempt[row.order].txn # None
  BY <1>1, Tables DEF IInv, PaymentLedger
<1>3. attempt[row.order].txn = TxnOf[row.order] /\ row.id = EventOf[row.order]
  BY <1>1, <1>2, Tables DEF OwnBookings
<1> QED BY <1>2, <1>3 DEF Booked

\* What is in the books stays there.
LEMMA BookedStays ==
    ASSUME NotifyInv, Moves, NEW o \in Order, Booked(o)
    PROVE  Booked(o)'
<1>1. attempt'[o] = attempt[o] /\ event \subseteq event'
  BY TablesGrow DEF Booked
<1> QED BY <1>1 DEF Booked

-----------------------------------------------------------------------------
(* Payments, calls and their types                                         *)

\* A bill is written once, for an order whose entry the customer has.
LEMMA BillsKept ==
    ASSUME NotifyInv, [NotifyNext]_vars
    PROVE  /\ shown \subseteq shown' /\ bill' \in [Order -> BillRow]
           /\ \A o \in Order : Paid(o) => bill'[o] = bill[o]
           /\ \A o \in Order :
                 bill'[o] # bill[o] =>
                     /\ o \in shown /\ UNCHANGED <<dbvars, shown>>
                     /\ \E t \in Notation :
                           /\ ByEpay(o) \/ t = FormatMoney(attempt[o].amount)
                           /\ bill'[o] = [text |-> t, at |-> now]
<1>0. bill \in [Order -> BillRow]
  BY Tables DEF NotifyTypeOK
<1>1. CASE UNCHANGED bill /\ shown \subseteq shown'
  BY <1>0, <1>1
<1>2. ASSUME NEW o \in Order, Pay(o)
      PROVE  /\ shown \subseteq shown' /\ bill' \in [Order -> BillRow]
             /\ \A q \in Order : Paid(q) => bill'[q] = bill[q]
             /\ \A q \in Order :
                   bill'[q] # bill[q] =>
                       /\ q \in shown /\ UNCHANGED <<dbvars, shown>>
                       /\ \E t \in Notation :
                             /\ ByEpay(q) \/ t = FormatMoney(attempt[q].amount)
                             /\ bill'[q] = [text |-> t, at |-> now]
  <2>1. PICK t \in Notation :
          /\ ByEpay(o) \/ t = FormatMoney(attempt[o].amount)
          /\ bill' = [bill EXCEPT ![o] = [text |-> t, at |-> now]]
    BY <1>2 DEF Pay
  <2>2. [text |-> t, at |-> now] \in BillRow
    BY Tables DEF BillRow
  <2>3. /\ bill' \in [Order -> BillRow]
        /\ bill'[o] = [text |-> t, at |-> now]
        /\ \A q \in Order : q # o => bill'[q] = bill[q]
    BY <1>0, <2>1, <2>2
  <2>4. o \in shown /\ ~Paid(o) /\ UNCHANGED <<dbvars, shown>>
    BY <1>2 DEF Pay
  <2> QED BY <2>1, <2>3, <2>4
<1>3. ASSUME NEW o \in Order, Place(o) \/ Show(o) \/ LapseOrder(o)
      PROVE  UNCHANGED bill /\ shown \subseteq shown'
  BY <1>3 DEF Place, Show, LapseOrder, nvars
<1>4. ASSUME NEW k \in Call, NEW m \in Message, HandlerNext(k, m)
      PROVE  UNCHANGED bill /\ shown \subseteq shown'
  BY <1>4 DEF HandlerNext, Receive, Validate, Book, Record, Answer
<1>5. CASE UNCHANGED vars \/ UNCHANGED nvars
  BY <1>1, <1>5 DEF vars, nvars
<1>6. ASSUME NEW k \in Call, Reject(k) \/ BookFails(k) \/ Dropped(k)
      PROVE  UNCHANGED bill /\ shown \subseteq shown'
  BY <1>6 DEF Reject, BookFails, Dropped
<1> QED BY <1>1, <1>2, <1>3, <1>4, <1>5, <1>6 DEF NotifyNext

\* Entries belong to orders that exist, and what a bill says stays true.
LEMMA BillsStandStep ==
    ASSUME NotifyInv, [NotifyNext]_vars
    PROVE  BillsStand'
<1>0. Moves /\ BillsStand /\ now \in Nat /\ now' \in Nat /\ now <= now'
  BY StepMoves, Tables, TablesGrow
<1>1. ASSUME NEW o \in shown'
      PROVE  attempt'[o].state # "absent"
  <2>1. CASE o \in shown
    <3>1. o \in Order /\ attempt[o].state # "absent"
      BY <1>0, <2>1, Tables DEF BillsStand, NotifyTypeOK
    <3> QED BY <1>0, <3>1, AttemptStays
  <2>2. CASE o \notin shown
    <3>1. Show(o) /\ o \in Order
      BY <1>1, <2>2 DEF NotifyNext, HandlerNext, vars, nvars, Place, Show, LapseOrder,
         Pay, Reject, BookFails, Dropped, Receive, Validate, Book, Record, Answer
    <3>2. attempt[o].state = "created"
      BY <3>1 DEF Show, PublishReady, CanPublish
    <3> QED BY <1>0, <3>1, <3>2, AttemptStays
  <2> QED BY <2>1, <2>2
<1>2. ASSUME NEW o \in Order, Paid(o)'
      PROVE  BillStands(o)'
  <2>1. CASE bill'[o] = bill[o]
    <3>1. Paid(o) /\ BillStands(o)
      BY <1>0, <1>2, <2>1 DEF Paid, NotPaid, BillsStand
    <3>2. o \in shown' /\ bill'[o].text \in Notation /\ bill'[o].at \in 0 .. now'
      BY <1>0, <2>1, <3>1, BillsKept DEF BillStands
    <3>3. /\ attempt'[o].provider = attempt[o].provider
          /\ attempt'[o].amount = attempt[o].amount
      BY <1>0, <3>1, AttemptStays DEF BillStands, BillsStand
    <3> QED BY <2>1, <3>1, <3>2, <3>3 DEF BillStands, ByEpay
  <2>2. CASE bill'[o] # bill[o]
    <3>1. /\ o \in shown' /\ attempt' = attempt /\ now' = now
          /\ \E t \in Notation :
                /\ ByEpay(o) \/ t = FormatMoney(attempt[o].amount)
                /\ bill'[o] = [text |-> t, at |-> now]
      BY <2>2, BillsKept DEF dbvars
    <3> QED BY <1>0, <3>1 DEF BillStands, ByEpay
  <2> QED BY <2>1, <2>2
<1> QED BY <1>1, <1>2 DEF BillsStand

\* What a handler has read of a payment stays true.
LEMMA ReadStays ==
    ASSUME NotifyInv, [NotifyNext]_vars, NEW o \in Order, Paid(o)
    PROVE  Paid(o)' /\ (Readable(o) => Readable(o)')
<1>1. bill'[o] = bill[o]
  BY BillsKept
<1>2. o \in shown /\ attempt[o].state # "absent"
  BY Tables DEF BillsStand, BillStands
<1>3. attempt'[o].provider = attempt[o].provider
  BY <1>2, StepMoves, AttemptStays
<1> QED BY <1>1, <1>3 DEF Paid, NotPaid, Readable, ByEpay

\* A call that does not move stands where it stood.
LEMMA CallStays ==
    ASSUME NotifyInv, [NotifyNext]_vars, NEW k \in Call, call'[k] = call[k]
    PROVE  call'[k] = Idle \/ CallStands(k)'
<1> SUFFICES ASSUME call[k] # Idle PROVE CallStands(k)'
  BY DEF Idle
<1> DEFINE m == call[k].message
<1>1. CallStands(k)
  BY Tables DEF CallsStand
<1>2. m.order \in Order /\ m \in Message
  BY <1>1 DEF CallStands, Message
<1>3. Moves /\ now \in Nat /\ now' \in Nat /\ now <= now'
  BY StepMoves, Tables, TablesGrow
<1>4. m.status = "success" => Paid(m.order)' /\ (Readable(m.order) => Readable(m.order)')
  BY <1>1, <1>2, ReadStays DEF CallStands
<1>5. Booked(m.order) => Booked(m.order)'
  BY <1>2, <1>3, BookedStays
<1> QED BY <1>1, <1>2, <1>3, <1>4, <1>5 DEF CallStands

\* Where a call goes.
Goes(k) ==
    \/ Reject(k) \/ BookFails(k) \/ Dropped(k)
    \/ \E m \in Message : HandlerNext(k, m)

LEMMA OthersStay ==
    ASSUME NotifyInv, NEW k \in Call, Goes(k), NEW j \in Call, j # k
    PROVE  call'[j] = call[j]
<1>1. call \in [Call -> CallRow]
  BY Tables DEF NotifyTypeOK
<1> QED
  BY <1>1 DEF Goes, Reject, BookFails, Dropped, HandlerNext, Receive, Validate, Book,
              Record, Answer, Step

LEMMA CallMoves ==
    ASSUME NotifyInv, [NotifyNext]_vars, NEW k \in Call
    PROVE  call'[k] = call[k] \/ Goes(k)
<1>1. CASE UNCHANGED call
  BY <1>1
<1>2. CASE \E j \in Call : Goes(j)
  BY <1>2, OthersStay
<1>3. ASSUME NEW o \in Order, Place(o) \/ Show(o) \/ LapseOrder(o) \/ Pay(o)
      PROVE  UNCHANGED call
  BY <1>3 DEF Place, Show, LapseOrder, Pay, nvars
<1>4. CASE UNCHANGED vars \/ UNCHANGED nvars
  BY <1>1, <1>4 DEF vars, nvars
<1> QED BY <1>1, <1>2, <1>3, <1>4 DEF NotifyNext, Goes

\* What each step of a call makes of it.
LEMMA CallGoes ==
    ASSUME NotifyInv, [NotifyNext]_vars, NEW k \in Call, Goes(k)
    PROVE  call' \in [Call -> CallRow] /\ (call'[k] = Idle \/ CallStands(k)')
<1> DEFINE Goal == call' \in [Call -> CallRow] /\ (call'[k] = Idle \/ CallStands(k)')
<1>0. /\ call \in [Call -> CallRow] /\ Idle \in CallRow
      /\ call[k] # Idle => CallStands(k)
      /\ now \in Nat /\ now' \in Nat /\ now <= now' /\ Moves
  BY Tables, StepMoves, TablesGrow DEF NotifyTypeOK, CallsStand, CallRow, Idle
<1>1. CASE Dropped(k)
  BY <1>0, <1>1 DEF Dropped
<1>2. ASSUME Reject(k) \/ BookFails(k)
      PROVE  Goal
  <2>1. /\ call[k] # Idle
        /\ call' = [call EXCEPT ![k].at = "refused", ![k].paidAt = None]
    BY <1>2 DEF Reject, BookFails, Step, Idle
  <2>2. call'[k].at = "refused" /\ call'[k].message = call[k].message
    BY <1>0, <2>1 DEF CallRow
  <2>3. call' \in [Call -> CallRow]
    BY <1>0, <2>1 DEF CallRow
  <2>4. call[k].message.order \in Order
    BY <1>0, <2>1 DEF CallStands, Message
  <2> QED BY <1>0, <2>1, <2>2, <2>3, <2>4, ReadStays DEF CallStands
<1>3. ASSUME NEW m \in Message, Receive(k, m)
      PROVE  Goal
  <2>1. /\ call' = [call EXCEPT ![k] = [at |-> "received", message |-> m, paidAt |-> None]]
        /\ Sent(m)
    BY <1>3 DEF Receive
  <2>2. call' \in [Call -> CallRow]
    BY <1>0, <2>1 DEF CallRow
  <2>3. call'[k].at = "received" /\ call'[k].message = m
    BY <1>0, <2>1
  <2>4. m.status = "success" => Paid(m.order)'
    BY <2>1, ReadStays DEF Sent, Message
  <2> QED BY <2>2, <2>3, <2>4 DEF CallStands
<1>4. ASSUME NEW m \in Message, Validate(k, m)
      PROVE  Goal
  <2>1. /\ call[k] # Idle /\ call[k].message = m /\ m.order \in Order
    BY <1>4 DEF Validate, Idle, Message
  <2>2. m.status = "success" => Paid(m.order) /\ Paid(m.order)'
    BY <1>0, <2>1, ReadStays DEF CallStands
  <2>3. CASE m.status = "success"
    <3> DEFINE at == IF ByEpay(m.order) THEN now ELSE bill[m.order].at
    <3>1. /\ call' = [call EXCEPT ![k].at = "valid", ![k].paidAt = at]
          /\ Readable(m.order)
      BY <1>4, <2>3 DEF Validate
    <3>2. at \in 0 .. now'
      <4>1. bill[m.order].at \in 0 .. now
        BY <2>1, <2>2, <2>3, Tables DEF BillsStand, BillStands
      <4> QED BY <1>0, <4>1
    <3> HIDE DEF at
    <3>3. /\ call'[k].at = "valid" /\ call'[k].message = m /\ call'[k].paidAt = at
          /\ call' \in [Call -> CallRow]
      <4>1. at \in Nat
        BY <1>0, <3>2
      <4> QED BY <1>0, <2>1, <3>1, <4>1 DEF CallRow
    <3>4. Readable(m.order)'
      BY <2>1, <2>2, <2>3, <3>1, ReadStays
    <3> QED BY <2>2, <2>3, <3>2, <3>3, <3>4 DEF CallStands
  <2>4. CASE m.status # "success"
    <3>1. call' = [call EXCEPT ![k].at = "accepted", ![k].paidAt = None]
      BY <1>4, <2>4 DEF Validate, Step
    <3>2. call'[k].at = "accepted" /\ call'[k].message = m /\ call' \in [Call -> CallRow]
      BY <1>0, <2>1, <3>1 DEF CallRow
    <3> QED BY <2>4, <3>2 DEF CallStands
  <2> QED BY <2>3, <2>4
<1>5. ASSUME NEW m \in Message, Book(k, m)
      PROVE  Goal
  <2>1. /\ call[k] # Idle /\ call[k].message = m /\ call[k].at = "valid"
        /\ m.order \in Order
        /\ call' = [call EXCEPT ![k].at = "accepted", ![k].paidAt = None]
    BY <1>5 DEF Book, Step, Idle, Message
  <2>2. call'[k].at = "accepted" /\ call'[k].message = m /\ call' \in [Call -> CallRow]
    BY <1>0, <2>1 DEF CallRow
  <2>3. m.status = "success" => Paid(m.order)'
    BY <1>0, <2>1, ReadStays DEF CallStands
  <2>4. Booked(m.order)'
    <3>1. PICK e \in {None, m.order} :
            LET c == ConfirmationOf(m.order, call[k].paidAt, e) IN
            /\ ByEpay(m.order) \/ e # None
            /\ \/ ConfirmPayment(c)
               \/ (\E row \in EventRows(c) : row.order = m.order) /\ KeepDb
      BY <1>5 DEF Book
    <3> DEFINE c == ConfirmationOf(m.order, call[k].paidAt, e)
    <3>2. CASE ConfirmPayment(c)
      <4>1. OwnPayment(c) /\ c.trade = m.order
        BY <2>1, <3>1, <3>2, BookedByOwn DEF ConfirmationOf
      <4>2. c \in Confirmation
        BY <4>1 DEF OwnPayment
      <4> HIDE DEF c
      <4> QED BY <4>1, <4>2, ConfirmedIsBooked
    <3>3. CASE (\E row \in EventRows(c) : row.order = m.order) /\ KeepDb
      <4>1. Booked(m.order)
        BY <3>3, FoundIsBooked DEF EventRows
      <4> QED BY <1>0, <2>1, <4>1, BookedStays
    <3> QED BY <3>1, <3>2, <3>3
  <2> QED BY <2>2, <2>3, <2>4 DEF CallStands
<1>6. ASSUME NEW m \in Message, Record(k, m)
      PROVE  Goal
  <2> DEFINE at == IF call[k].at = "accepted" THEN "succeeding" ELSE "failing"
  <2>1. /\ call[k] # Idle /\ call[k].message = m /\ m.order \in Order
        /\ call' = [call EXCEPT ![k].at = at, ![k].paidAt = None]
    BY <1>6 DEF Record, Step, Idle, Message
  <2>2. call'[k].at = at /\ call'[k].message = m /\ call' \in [Call -> CallRow]
    BY <1>0, <2>1 DEF CallRow
  <2>3. /\ m.status = "success" => Paid(m.order)'
        /\ at = "succeeding" /\ m.status = "success" => Booked(m.order)'
    BY <1>0, <2>1, ReadStays, BookedStays DEF CallStands
  <2> QED BY <2>2, <2>3 DEF CallStands
<1>7. ASSUME NEW m \in Message, Answer(k, m)
      PROVE  Goal
  BY <1>0, <1>7 DEF Answer
<1> QED BY <1>1, <1>2, <1>3, <1>4, <1>5, <1>6, <1>7 DEF Goes, HandlerNext

-----------------------------------------------------------------------------
(* The theorems                                                            *)

\* The log and the provider are told of success by calls that have booked it.
LEMMA AckedStep ==
    ASSUME NotifyInv, [NotifyNext]_vars
    PROVE  /\ logged' \subseteq Message /\ acked' \subseteq Message
           /\ shown' \subseteq Order /\ AckedIsBooked'
<1>0. Moves /\ NotifyTypeOK /\ AckedIsBooked
  BY StepMoves, Tables
<1> DEFINE
      Told ==
        /\ logged' \subseteq Message /\ acked' \subseteq Message /\ shown' \subseteq Order
        /\ \A m \in (acked' \cup logged') \ (acked \cup logged) :
              \E k \in Call : /\ call[k].message = m /\ m \in Message
                             /\ call[k].at \in {"accepted", "succeeding"}
<1>1. Told
  <2>1. CASE UNCHANGED <<logged, acked>> /\ (shown' = shown \/ \E o \in Order : Show(o))
    BY <1>0, <2>1 DEF NotifyTypeOK, Show
  <2>2. ASSUME NEW k \in Call, NEW m \in Message, Record(k, m) \/ Answer(k, m)
        PROVE  Told
    BY <1>0, <2>2 DEF NotifyTypeOK, Record, Answer
  <2>3. CASE UNCHANGED vars \/ UNCHANGED nvars
    BY <2>1, <2>3 DEF vars, nvars
  <2>4. ASSUME NEW o \in Order, Place(o) \/ Show(o) \/ LapseOrder(o) \/ Pay(o)
        PROVE  Told
    BY <2>1, <2>4 DEF Place, Show, LapseOrder, Pay, nvars
  <2>5. ASSUME NEW k \in Call, Reject(k) \/ BookFails(k) \/ Dropped(k)
        PROVE  Told
    BY <2>1, <2>5 DEF Reject, BookFails, Dropped
  <2>6. ASSUME NEW k \in Call, NEW m \in Message,
               Receive(k, m) \/ Validate(k, m) \/ Book(k, m)
        PROVE  Told
    BY <2>1, <2>6 DEF Receive, Validate, Book
  <2> QED BY <2>2, <2>3, <2>4, <2>5, <2>6 DEF NotifyNext, HandlerNext
<1>2. ASSUME NEW m \in acked' \cup logged', m.status = "success"
      PROVE  Booked(m.order)'
  <2>1. m \in Message /\ m.order \in Order
    BY <1>1 DEF Message
  <2>2. Booked(m.order)
    <3>1. CASE m \in acked \cup logged
      BY <1>0, <1>2, <3>1 DEF AckedIsBooked
    <3>2. CASE m \notin acked \cup logged
      <4>1. PICK k \in Call : /\ call[k].message = m
                             /\ call[k].at \in {"accepted", "succeeding"}
        BY <1>1, <3>2
      <4> QED BY <1>2, <4>1, Tables DEF CallsStand, CallStands, Idle
    <3> QED BY <3>1, <3>2
  <2> QED BY <1>0, <2>1, <2>2, BookedStays
<1> QED BY <1>1, <1>2 DEF AckedIsBooked

\* A booked payment was made, and of the order's price.
LEMMA BookedStep ==
    ASSUME NotifyInv, BookedIsFullPayment, [NotifyNext]_vars
    PROVE  BookedIsPaid' /\ BookedIsFullPayment'
<1> SUFFICES ASSUME NEW o \in Order, attempt'[o].state = "succeeded"
             PROVE  Paid(o)' /\ Denotes(bill'[o].text, order'[o].amount)
  BY DEF BookedIsPaid, BookedIsFullPayment
<1>0. Moves /\ IInv /\ IInv'
  BY StepMoves, Tables, TablesStep
<1>1. order[o].amount = attempt[o].amount /\ order'[o].amount = attempt'[o].amount
  BY <1>0 DEF IInv, LifecycleCoherence
<1>2. /\ Paid(o) /\ attempt'[o].amount = attempt[o].amount
      /\ Denotes(bill[o].text, attempt[o].amount)
  <2>1. CASE attempt[o].state = "succeeded"
    <3>1. Paid(o) /\ attempt'[o] = attempt[o]
      BY <1>0, <2>1, Tables, TablesGrow DEF BookedIsPaid
    <3> QED BY <1>1, <2>1, <3>1 DEF BookedIsFullPayment
  <2>2. CASE attempt[o].state # "succeeded"
    <3>1. PICK c \in Confirmation : c.trade = o /\ OwnPayment(c)
      BY <1>0, <2>2, NewlyBooked
    <3>2. /\ Paid(o) /\ Readable(o) /\ attempt[o].amount = AmountOf(o)
      BY <3>1 DEF OwnPayment, ConfirmPayment, RepeatPayment, RecordAfterExpiry,
                  ApplyPayment, Acceptable
    <3>3. /\ bill[o].text \in Notation /\ attempt[o].state # "absent"
          /\ ByEpay(o) \/ bill[o].text = FormatMoney(attempt[o].amount)
      BY <3>2, Tables DEF BillsStand, BillStands
    <3>4. attempt'[o].amount = attempt[o].amount
      BY <1>0, <3>3, AttemptStays
    <3>5. CASE ByEpay(o)
      <4> DEFINE t == bill[o].text
      <4>0. /\ t \in Text /\ Parses(t) /\ ~t.minus /\ t.mark = "none"
            /\ t.whole * 100 + 99 <= MaxMoney
        BY <3>2, <3>3, <3>5, NotifyAssumption, NotationAssumption DEF Readable
      <4>1. ReadRight(t)
        <5>1. t.whole \in Nat /\ Fraction(t) \in 0 .. 99
          BY <4>0, UnmarkedText
        <5> QED BY <4>0, <5>1, MoneyAssumption DEF ReadRight, Signed
      <4>2. attempt[o].amount = MoneyToCents(bill[o].text)
        BY <3>2, <3>5 DEF AmountOf
      <4> QED BY <3>2, <3>4, <4>0, <4>1, <4>2, ReadExactly
    <3>6. CASE bill[o].text = FormatMoney(attempt[o].amount)
      <4>1. attempt[o].amount \in Nat
        BY Tables DEF AttemptRow
      <4>2. Denotes(FormatMoney(attempt[o].amount), attempt[o].amount)
        <5> DEFINE a == attempt[o].amount
        <5>1. a * 100 = 100 * ((a \div 100) * 100 + (a % 100))
          BY <4>1
        <5> HIDE DEF a
        <5>2. Denotes(FormatMoney(a), a)
          BY <5>1 DEF Denotes, FormatMoney, Pow10, Signed
        <5> QED BY <5>2 DEF a
      <4> QED BY <3>2, <3>4, <3>6, <4>2
    <3> QED BY <3>3, <3>5, <3>6
  <2> QED BY <2>1, <2>2
<1>3. bill'[o] = bill[o]
  BY <1>2, BillsKept
<1> QED BY <1>1, <1>2, <1>3, ReadStays

\* The shop with stock on sale and nothing ordered.
LEMMA NotifyStart == NotifyInit => NotifyInv /\ BookedIsFullPayment
<1> SUFFICES ASSUME NotifyInit PROVE NotifyInv /\ BookedIsFullPayment
  OBVIOUS
<1>1. /\ now = 0 /\ event = {} /\ shown = {} /\ logged = {} /\ acked = {}
      /\ info \in [Info -> [state : {"active"}, price : Price]]
      /\ product = [p \in Product |-> "available"]
      /\ order = [o \in Order |-> AbsentOrder]
      /\ attempt = [o \in Order |-> AbsentAttempt]
      /\ bill = [o \in Order |-> NotPaid]
      /\ call = [k \in Call |-> Idle]
  BY DEF NotifyInit
<1>2. /\ now \in 0 .. MaxTime /\ event \in SUBSET EventRow
      /\ info \in [Info -> InfoRow] /\ product \in [Product -> ProductStatus]
  <2>1. [state : {"active"}, price : Price] \subseteq InfoRow
    BY PriceAssumption DEF InfoRow
  <2>2. info \in [Info -> InfoRow]
    BY <1>1, <2>1
  <2> QED BY <1>1, <2>2, TimeAssumption DEF ProductStatus
<1>3. AbsentOrder \in OrderRow /\ AbsentAttempt \in AttemptRow
  BY DEF AbsentOrder, AbsentAttempt, OrderRow, AttemptRow
<1>4. order \in [Order -> OrderRow] /\ attempt \in [Order -> AttemptRow]
  BY <1>1, <1>3
<1>5. \A o \in Order :
        /\ order[o].status = "absent" /\ order[o].product = None
        /\ order[o].amount = 0
        /\ attempt[o].state = "absent" /\ attempt[o].provider = None
        /\ attempt[o].amount = 0 /\ attempt[o].txn = None
  BY <1>1 DEF AbsentOrder, AbsentAttempt
<1>6. TypeOK
  BY <1>2, <1>4, <1>5 DEF TypeOK, CheckConstraints
<1>7. Holding /\ HeldOnce /\ NoOrphan
  BY <1>1, <1>5 DEF Holding, HeldOnce, NoOrphan
<1>8. ProviderKnown /\ UnknownIsAbsent /\ LifecycleCoherence
  BY <1>5 DEF ProviderKnown, UnknownIsAbsent, LifecycleCoherence
<1>9. PaymentLedger /\ ExpiredPast /\ EpayDeadline
  BY <1>1, <1>5 DEF PaymentLedger, ExpiredPast, EpayDeadline
<1>10. IInv
  BY <1>6, <1>7, <1>8, <1>9 DEF IInv
<1>11. NotifyTypeOK
  BY <1>1 DEF NotifyTypeOK, BillRow, CallRow, NotPaid, Idle
<1>12. OwnBookings /\ BillsStand /\ CallsStand
  BY <1>1, <1>5 DEF OwnBookings, BillsStand, CallsStand, Paid
<1>13. AckedIsBooked /\ BookedIsPaid /\ BookedIsFullPayment
  BY <1>1, <1>5 DEF AckedIsBooked, BookedIsPaid, BookedIsFullPayment
<1> QED BY <1>10, <1>11, <1>12, <1>13 DEF NotifyInv

\* Every step keeps what the handlers rely on.
LEMMA NotifyStep ==
    NotifyInv /\ BookedIsFullPayment /\ [NotifyNext]_vars
        => NotifyInv' /\ BookedIsFullPayment'
<1> SUFFICES ASSUME NotifyInv, BookedIsFullPayment, [NotifyNext]_vars
             PROVE  NotifyInv' /\ BookedIsFullPayment'
  OBVIOUS
<1>1. IInv' /\ OwnBookings'
  BY StepMoves, TablesStep, OwnBookingsStep
<1>2. call' \in [Call -> CallRow] /\ CallsStand'
  <2>1. call' \in [Call -> CallRow]
    <3>1. CASE UNCHANGED call
      BY <3>1, Tables DEF NotifyTypeOK
    <3>2. CASE \E k \in Call : Goes(k)
      BY <3>2, CallGoes
    <3>3. CASE UNCHANGED vars \/ UNCHANGED nvars
      BY <3>1, <3>3 DEF vars, nvars
    <3>4. ASSUME NEW o \in Order, Place(o) \/ Show(o) \/ LapseOrder(o) \/ Pay(o)
          PROVE  UNCHANGED call
      BY <3>4 DEF Place, Show, LapseOrder, Pay, nvars
    <3> QED BY <3>1, <3>2, <3>3, <3>4 DEF NotifyNext, Goes
  <2>2. ASSUME NEW k \in Call PROVE call'[k] = Idle \/ CallStands(k)'
    BY CallMoves, CallStays, CallGoes
  <2> QED BY <2>1, <2>2 DEF CallsStand, Idle
<1>3. NotifyTypeOK'
  BY <1>2, AckedStep, BillsKept DEF NotifyTypeOK, BillRow, CallRow
<1> QED
  BY <1>1, <1>2, <1>3, AckedStep, BillsStandStep, BookedStep DEF NotifyInv

\* A success that is logged or that the provider has got stands for a payment
\* in the books, for any number of calls working on the same messages, dropped
\* and repeated at any step (epay.rs:159-207, wechatpay.rs:57-61).
THEOREM NotifyInvariance == NotifySpec => []NotifyInv
<1> DEFINE Kept == NotifyInv /\ BookedIsFullPayment
<1>1. NotifyInit => Kept
  BY NotifyStart
<1>2. Kept /\ [NotifyNext]_vars => Kept'
  BY NotifyStep
<1>3. Kept => NotifyInv
  OBVIOUS
<1> HIDE DEF Kept
<1> QED BY <1>1, <1>2, <1>3, PTL DEF NotifySpec

\* No order is paid with another amount than its price, for every price and every
\* unsigned notation of an amount below the limit of i64 (epay.rs:331, 408-424).
THEOREM FullPaymentsOnly == NotifySpec => []BookedIsFullPayment
<1> DEFINE Kept == NotifyInv /\ BookedIsFullPayment
<1>1. NotifyInit => Kept
  BY NotifyStart
<1>2. Kept /\ [NotifyNext]_vars => Kept'
  BY NotifyStep
<1>3. Kept => BookedIsFullPayment
  OBVIOUS
<1> HIDE DEF Kept
<1> QED BY <1>1, <1>2, <1>3, PTL DEF NotifySpec

\* The handlers' calls, step by step, overlapping, repeated and broken off
\* anywhere, sell as the abstract sale does: what they do to the tables are
\* transactions of OrderDb (epay.rs:121-216, wechatpay.rs:37-155).
THEOREM NotifyImplements == NotifySpec => Lifecycle
<1>1. NotifyInit => S!SaleInit
  <2> SUFFICES ASSUME NotifyInit PROVE S!SaleInit
    OBVIOUS
  <2>1. \A o \in Order : /\ order[o].status = "absent" /\ order[o].product = None
                         /\ (attempt[o].state = "succeeded") = FALSE
    BY DEF NotifyInit, AbsentOrder, AbsentAttempt
  <2>2. \A o \in Order : SaleOf(order[o].status) = "none"
    BY <2>1 DEF SaleOf
  <2> QED BY <2>1, <2>2 DEF S!SaleInit
<1>2. ASSUME NotifyInv, [NotifyNext]_vars PROVE [S!SaleNext]_(S!svars)
  <2>1. IInv /\ [Next]_dbvars
    BY <1>2, Tables, StepMoves, MoveIsStep
  <2> QED BY <2>1, SaleStep
<1> QED BY <1>1, <1>2, NotifyInvariance, PTL DEF NotifySpec, Lifecycle, S!SaleSpec

=============================================================================
