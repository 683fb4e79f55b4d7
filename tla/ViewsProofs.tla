---------------------------- MODULE ViewsProofs ----------------------------
(***************************************************************************)
(* Proofs about Views, for any number of clients, orders and definitions.  *)
(* What a query has read of an order stays true because the facts it keeps *)
(* are final (SettledStep); sales stay with their units, and a delivered   *)
(* unit is not an available one.                                           *)
(***************************************************************************)
EXTENDS Views, OrderDbProofs

-----------------------------------------------------------------------------
(* The tables                                                              *)

LEMMA PaidStep == ASSUME IInv, PaidWhenPaid, Next PROVE PaidWhenPaid'
<1> USE DEF IInv
<1>1. CASE attempt' = attempt
  BY <1>1 DEF PaidWhenPaid
<1>2. ASSUME NEW o \in Order, NEW s \in {"ready", "failed", "closed"},
             attempt[o].state # "succeeded",
             attempt' = [attempt EXCEPT ![o].state = s]
      PROVE  PaidWhenPaid'
  <2>1. attempt[o] \in AttemptRow /\ attempt \in [Order -> AttemptRow]
    BY DEF TypeOK
  <2>2. attempt'[o] = [attempt[o] EXCEPT !.state = s]
    BY <1>2, <2>1
  <2>3. attempt'[o].paidAt = attempt[o].paidAt
    BY <2>1, <2>2 DEF AttemptRow
  <2>4. attempt'[o].paidAt = None
    BY <1>2, <2>3 DEF PaidWhenPaid
  <2> QED BY <1>2, <2>1, <2>4 DEF PaidWhenPaid
<1>3. ASSUME NEW o \in Order, NEW p \in Product, NEW provider \in Provider,
             NEW at \in 0 .. now, CreateOrder(o, p, provider, at)
      PROVE  PaidWhenPaid'
  <2>1. attempt'[o].paidAt = None /\ \A q \in Order : q # o => attempt'[q] = attempt[q]
    BY <1>3 DEF CreateOrder, TypeOK
  <2> QED BY <2>1 DEF PaidWhenPaid
<1>4. ASSUME NEW c \in Confirmation, MarkSucceeded(c)
      PROVE  PaidWhenPaid'
  BY <1>4, SucceedEffect, ConfirmationFields DEF PaidWhenPaid
<1>5. CASE AdminNext
  BY <1>1, <1>5, AdminEffect
<1>6. CASE OrderNext
  <2> PICK o \in Order :
        \/ \E p \in Product, provider \in Provider, at \in 0 .. now :
              CreateOrder(o, p, provider, at)
        \/ \E at \in 0 .. now : PublishReady(o, at)
        \/ MarkFailed(o)
        \/ ExpireReserved(o)
    BY <1>6 DEF OrderNext
  <2>1. ASSUME NEW at \in 0 .. now, PublishReady(o, at) PROVE PaidWhenPaid'
    BY <1>2, <2>1 DEF PublishReady, CanPublish
  <2>2. CASE MarkFailed(o)
    BY <1>2, <2>2 DEF MarkFailed
  <2>3. CASE ExpireReserved(o)
    BY <1>2, <2>3 DEF ExpireReserved, Expirable
  <2> QED BY <1>3, <2>1, <2>2, <2>3
<1>7. CASE PaymentNext
  <2> PICK c \in Confirmation : ConfirmPayment(c)
    BY <1>7 DEF PaymentNext
  <2> QED BY <1>1, <1>4, RepeatEffect, RecordEffect, ApplyEffect DEF ConfirmPayment
<1>8. CASE Tick
  BY <1>1, <1>8 DEF Tick
<1> QED BY <1>5, <1>6, <1>7, <1>8 DEF Next

LEMMA TablesStep ==
    ASSUME IInv, PaidWhenPaid, [Next]_dbvars PROVE IInv' /\ PaidWhenPaid'
<1>1. CASE UNCHANGED dbvars
  BY <1>1, StepInvariant DEF dbvars, PaidWhenPaid
<1> QED BY <1>1, StepInvariant, PaidStep

\* What stands of an order goes on standing.
LEMMA StandsStep ==
    ASSUME IInv, [Next]_dbvars, NEW o \in Order, NEW status, NEW unit, NEW paidAt,
           Stands(o, status, unit, paidAt)
    PROVE  Stands(o, status, unit, paidAt)'
<1>1. /\ order[o].status \in {"delivered", "expired"} => order'[o] = order[o]
      /\ attempt[o].state = "succeeded" => attempt'[o] = attempt[o]
  BY SettledStep
<1>2. order[o].status = "delivered" => attempt[o].state = "succeeded"
  BY DEF IInv, LifecycleCoherence
<1> QED BY <1>1, <1>2 DEF Stands

-----------------------------------------------------------------------------
(* Stock and sales                                                         *)

\* The unit of a sale is not in stock.
LEMMA SoldIsGone ==
    ASSUME IInv, NEW i \in Info
    PROVE  AvailableStock(i) \cap UnitsOf(DeliveredOrders(i)) = {}
<1> SUFFICES ASSUME NEW o \in Order, order[o].status = "delivered"
             PROVE  product[order[o].product] # "available"
  BY DEF AvailableStock, UnitsOf, DeliveredOrders
<1>1. order[o].product # None
  BY DEF IInv, TypeOK, CheckConstraints
<1> QED BY <1>1 DEF IInv, Holding

\* A sale stays one, with its unit.
LEMMA SalesStay ==
    ASSUME IInv, [Next]_dbvars, NEW i \in Info
    PROVE  /\ DeliveredOrders(i) \subseteq DeliveredOrders(i)'
           /\ \A o \in DeliveredOrders(i) : order'[o].product = order[o].product
  BY SettledStep DEF DeliveredOrders

-----------------------------------------------------------------------------
(* Steps                                                                   *)

\* What a client has under way and has been told.
LEMMA ClientTypes ==
    ASSUME ViewsInv, NEW c \in Client
    PROVE  /\ query[c].kind \in {"none", "order", "stock", "sold"}
           /\ query[c].kind = "order" => query[c] \in OrderQuery /\ query[c].of \in Order
           /\ query[c].kind \in {"stock", "sold"} => query[c].of \in Info
           /\ query[c].kind = "sold" => query[c].stock \subseteq Product
           /\ \A x \in Order \cup Info : shown[c][x] \in Told
<1>1. /\ query[c] \in {NoQuery} \cup OrderQuery \cup [kind : {"stock"}, of : Info]
                       \cup [kind : {"sold"}, of : Info, stock : SUBSET Product]
      /\ shown[c] \in [Order \cup Info -> Told]
  BY DEF ViewsInv, ViewsTypeOK
<1> QED BY <1>1 DEF NoQuery, OrderQuery

\* The transactions go on.
LEMMA TablesView ==
    ASSUME ViewsInv, [Next]_dbvars, UNCHANGED <<query, shown>>
    PROVE  ViewsInv'
<1> USE DEF ViewsInv
<1>1. IInv' /\ PaidWhenPaid' /\ ViewsTypeOK'
  BY TablesStep DEF ViewsTypeOK
<1>2. QueriesStand'
  <2> SUFFICES ASSUME NEW c \in Client, query[c].kind = "order"
               PROVE  Stands(query[c].of, query[c].status, query[c].unit, query[c].paidAt)'
    BY DEF QueriesStand, Waiting
  <2>1. PICK o, status, unit, paidAt :
            /\ o \in Order /\ o = query[c].of /\ status = query[c].status
            /\ unit = query[c].unit /\ paidAt = query[c].paidAt
    BY ClientTypes
  <2>2. Stands(o, status, unit, paidAt)
    BY <2>1 DEF QueriesStand, Waiting
  <2>3. Stands(o, status, unit, paidAt)'
    BY <2>1, <2>2, StandsStep
  <2> QED BY <2>1, <2>3 DEF Stands
<1>3. OrderShownWhole'
  <2> SUFFICES ASSUME NEW c \in Client, NEW o \in Order
               PROVE  LET told == shown[c][o] IN
                      /\ Stands(o, told.status, told.content, told.paidAt)'
                      /\ told'.content # None <=> told'.status = "delivered"
    BY DEF OrderShownWhole
  <2>1. PICK status, unit, paidAt :
            /\ status = shown[c][o].status /\ unit = shown[c][o].content
            /\ paidAt = shown[c][o].paidAt
    OBVIOUS
  <2>2. /\ Stands(o, status, unit, paidAt)
        /\ unit # None <=> status = "delivered"
    BY <2>1 DEF OrderShownWhole
  <2>3. Stands(o, status, unit, paidAt)'
    BY <2>2, StandsStep
  <2> QED BY <2>1, <2>2, <2>3 DEF Stands
<1>4. SalesCounted'
  <2> SUFFICES ASSUME NEW c \in Client, NEW i \in Info
               PROVE  /\ shown[c][i].sold \subseteq DeliveredOrders(i)'
                      /\ query[c].kind = "sold" /\ query[c].of = i =>
                            query[c].stock \cap UnitsOf(shown[c][i].sold)' = {}
    BY DEF SalesCounted, Waiting
  <2>1. /\ shown[c][i].sold \subseteq DeliveredOrders(i)
        /\ query[c].kind = "sold" /\ query[c].of = i =>
               query[c].stock \cap UnitsOf(shown[c][i].sold) = {}
    BY DEF SalesCounted, Waiting
  <2>2. UnitsOf(shown[c][i].sold)' = UnitsOf(shown[c][i].sold)
    BY <2>1, SalesStay DEF UnitsOf
  <2> QED BY <2>1, <2>2, SalesStay
<1> QED BY <1>1, <1>2, <1>3, <1>4

\* A client asks on, or gives up.
LEMMA AskView ==
    ASSUME ViewsInv, NEW c \in Client, NEW next, Ask(c, next),
           next \in {NoQuery} \cup OrderQuery \cup [kind : {"stock"}, of : Info]
                    \cup [kind : {"sold"}, of : Info, stock : SUBSET Product],
           next.kind = "order" => Stands(next.of, next.status, next.unit, next.paidAt),
           next.kind = "sold" =>
               next.stock \cap UnitsOf(shown[c][next.of].sold) = {}
    PROVE  ViewsInv'
<1> USE DEF ViewsInv
<1>1. /\ query' = [query EXCEPT ![c] = next] /\ shown' = shown
      /\ UNCHANGED <<now, info, product, order, attempt, event>>
  BY DEF Ask, dbvars
<1>2. query'[c] = next /\ \A d \in Client : d # c => query'[d] = query[d]
  BY <1>1 DEF ViewsTypeOK
<1>3. IInv' /\ PaidWhenPaid'
  BY <1>1, TablesStep DEF dbvars
<1>4. ViewsTypeOK'
  BY <1>1 DEF ViewsTypeOK
<1>5. QueriesStand' /\ OrderShownWhole'
  BY <1>1, <1>2 DEF QueriesStand, OrderShownWhole, Waiting, Stands
<1>6. SalesCounted'
  <2>1. \A d \in Client, i \in Info :
          /\ shown[d][i].sold \subseteq DeliveredOrders(i)
          /\ query'[d].kind = "sold" /\ query'[d].of = i =>
                query'[d].stock \cap UnitsOf(shown[d][i].sold) = {}
    BY <1>2 DEF SalesCounted, Waiting
  <2> QED BY <1>1, <2>1 DEF SalesCounted, Waiting, DeliveredOrders, UnitsOf
<1> QED BY <1>3, <1>4, <1>5, <1>6

\* A client gets its answer.
LEMMA AnswerView ==
    ASSUME ViewsInv, NEW c \in Client, NEW what \in Order \cup Info, NEW told \in Told,
           Answer(c, what, told),
           what \in Order => /\ Stands(what, told.status, told.content, told.paidAt)
                             /\ told.content # None <=> told.status = "delivered",
           what \in Info => told.sold \subseteq DeliveredOrders(what)
    PROVE  /\ ViewsInv'
           /\ shown'[c][what] = told
           /\ \A d \in Client, x \in Order \cup Info :
                 d # c \/ x # what => shown'[d][x] = shown[d][x]
<1> USE DEF ViewsInv
<1>1. /\ query' = [query EXCEPT ![c] = NoQuery]
      /\ shown' = [shown EXCEPT ![c][what] = told]
      /\ UNCHANGED <<now, info, product, order, attempt, event>>
  BY DEF Answer, dbvars
<1>2. /\ query'[c] = NoQuery /\ \A d \in Client : d # c => query'[d] = query[d]
      /\ shown'[c][what] = told
      /\ \A d \in Client, x \in Order \cup Info :
            d # c \/ x # what => shown'[d][x] = shown[d][x]
  BY <1>1 DEF ViewsTypeOK
<1>3. IInv' /\ PaidWhenPaid'
  BY <1>1, TablesStep DEF dbvars
<1>4. ViewsTypeOK'
  BY <1>1 DEF ViewsTypeOK
<1>5. QueriesStand'
  BY <1>1, <1>2 DEF QueriesStand, Waiting, Stands, NoQuery
<1>6. OrderShownWhole'
  BY <1>1, <1>2 DEF OrderShownWhole, Stands
<1>7. SalesCounted'
  <2>1. ASSUME NEW d \in Client, NEW i \in Info
        PROVE  /\ shown'[d][i].sold \subseteq DeliveredOrders(i)
               /\ query'[d].kind = "sold" /\ query'[d].of = i =>
                     query'[d].stock \cap UnitsOf(shown'[d][i].sold) = {}
    <3>1. /\ shown[d][i].sold \subseteq DeliveredOrders(i)
          /\ query[d].kind = "sold" /\ query[d].of = i =>
                query[d].stock \cap UnitsOf(shown[d][i].sold) = {}
      BY DEF SalesCounted, Waiting
    <3>2. CASE d # c
      BY <1>2, <3>1, <3>2
    <3>3. CASE d = c
      BY <1>2, <3>1, <3>3 DEF NoQuery
    <3> QED BY <3>2, <3>3
  <2> QED BY <1>1, <2>1 DEF SalesCounted, Waiting, DeliveredOrders, UnitsOf
<1> QED BY <1>2, <1>3, <1>4, <1>5, <1>6, <1>7

\* One SELECT reads order and attempt as they are.
LEMMA QueryOrderView ==
    ASSUME ViewsInv, NEW c \in Client, NEW o \in Order, QueryOrder(c, o)
    PROVE  ViewsInv'
<1> DEFINE next == [kind |-> "order", of |-> o, status |-> order[o].status,
                    unit |-> order[o].product, paidAt |-> attempt[o].paidAt]
<1>1. /\ order[o] \in OrderRow /\ attempt[o] \in AttemptRow
      /\ order[o].status # "absent" /\ Ask(c, next)
  BY Rows DEF ViewsInv, IInv, QueryOrder
<1>2. next \in OrderQuery
  BY <1>1 DEF OrderRow, AttemptRow, OrderQuery
<1>3. Stands(o, next.status, next.unit, next.paidAt)
  <2>1. order[o].status = "delivered" => attempt[o].paidAt # None
    BY DEF ViewsInv, IInv, TypeOK, CheckConstraints, LifecycleCoherence
  <2>2. order[o].status = "pending" => attempt[o].paidAt = None
    BY DEF ViewsInv, IInv, LifecycleCoherence, PaidWhenPaid
  <2>3. attempt[o].paidAt # None => attempt[o].state = "succeeded"
    BY DEF ViewsInv, PaidWhenPaid
  <2> QED BY <2>1, <2>2, <2>3 DEF Stands
<1>4. next.kind = "order" /\ next.of = o
  OBVIOUS
<1> HIDE DEF next
<1> QED BY <1>1, <1>2, <1>3, <1>4, AskView

\* The content is that of the unit the delivered order keeps.
LEMMA QueryContentView ==
    ASSUME ViewsInv, NEW c \in Client, QueryContent(c)
    PROVE  /\ ViewsInv'
           /\ \A d \in Client, i \in Info : shown'[d][i] = shown[d][i]
<1> DEFINE q == query[c]
           told == [Nothing EXCEPT !.status = q.status, !.paidAt = q.paidAt,
                                   !.content = IF q.status = "delivered"
                                               THEN ContentOf(q.unit) ELSE None]
<1>1. /\ q \in OrderQuery /\ q.of \in Order /\ Answer(c, q.of, told)
      /\ Stands(q.of, q.status, q.unit, q.paidAt)
  BY ClientTypes DEF QueryContent, Waiting, ViewsInv, QueriesStand
<1>2. q.status = "delivered" => ContentOf(q.unit) = q.unit /\ q.unit # None
  <2>1. q.status = "delivered" =>
            /\ order[q.of].status = "delivered" /\ q.unit = order[q.of].product
    BY <1>1 DEF Stands
  <2>2. order[q.of].status = "delivered" =>
            order[q.of].product # None /\ product[order[q.of].product] = "delivered"
    BY <1>1 DEF ViewsInv, IInv, TypeOK, CheckConstraints, Holding
  <2> QED BY <2>1, <2>2 DEF ContentOf
<1>3. /\ told.status = q.status /\ told.paidAt = q.paidAt
      /\ told.content = IF q.status = "delivered" THEN q.unit ELSE None
      /\ told \in Told
  BY <1>1, <1>2 DEF Nothing, OrderQuery, Told
<1> HIDE DEF told
<1>4. /\ Stands(q.of, told.status, told.content, told.paidAt)
      /\ told.content # None <=> told.status = "delivered"
  BY <1>1, <1>2, <1>3 DEF Stands
<1>5. q.of \notin Info
  BY <1>1, PagesAssumption
<1> QED BY <1>1, <1>3, <1>4, <1>5, AnswerView

LEMMA StockView ==
    ASSUME ViewsInv, NEW c \in Client
    PROVE  /\ \A i \in Info : GetProduct(c, i) => ViewsInv'
           /\ CountStock(c) => ViewsInv'
           /\ QueryFails(c) => ViewsInv'
<1>1. ASSUME NEW i \in Info, GetProduct(c, i) PROVE ViewsInv'
  BY <1>1, AskView DEF GetProduct
<1>2. ASSUME CountStock(c) PROVE ViewsInv'
  <2> DEFINE i == query[c].of
             next == [kind |-> "sold", of |-> i, stock |-> AvailableStock(i)]
  <2>1. i \in Info /\ Ask(c, next)
    BY <1>2, ClientTypes DEF CountStock, Waiting
  <2>2. AvailableStock(i) \cap UnitsOf(DeliveredOrders(i)) = {}
    BY <2>1, SoldIsGone DEF ViewsInv
  <2>3. shown[c][i].sold \subseteq DeliveredOrders(i)
    BY <2>1 DEF ViewsInv, SalesCounted
  <2>4. next.stock \cap UnitsOf(shown[c][next.of].sold) = {}
    BY <2>2, <2>3 DEF UnitsOf
  <2>5. next \in [kind : {"sold"}, of : Info, stock : SUBSET Product]
    BY <2>1 DEF AvailableStock
  <2>6. next.kind = "sold"
    OBVIOUS
  <2> HIDE DEF next
  <2> QED BY <2>1, <2>4, <2>5, <2>6, AskView
<1>3. ASSUME QueryFails(c) PROVE ViewsInv'
  BY <1>3, AskView DEF QueryFails, NoQuery
<1> QED BY <1>1, <1>2, <1>3

\* An answer about stock: the sales are newer than the stock beside them.
LEMMA CountSoldView ==
    ASSUME ViewsInv, NEW c \in Client, CountSold(c)
    PROVE  /\ ViewsInv'
           /\ \A d \in Client, i \in Info : shown'[d][i] # shown[d][i] =>
                 /\ shown'[d][i].stock \cap UnitsOf(shown[d][i].sold) = {}
                 /\ shown[d][i].sold \subseteq shown'[d][i].sold
<1> DEFINE q == query[c]
           i == q.of
           told == [Nothing EXCEPT !.status = "listed", !.stock = q.stock,
                                   !.sold = DeliveredOrders(i)]
<1>1. /\ i \in Info /\ q.stock \subseteq Product /\ Answer(c, i, told)
      /\ Waiting(c, "sold")
  BY ClientTypes DEF CountSold, Waiting
<1>2. told \in Told /\ told.sold = DeliveredOrders(i) /\ told.stock = q.stock
  BY <1>1 DEF Nothing, Told, DeliveredOrders
<1>3. i \notin Order
  BY <1>1, PagesAssumption
<1>4. /\ shown[c][i].sold \subseteq told.sold
      /\ told.stock \cap UnitsOf(shown[c][i].sold) = {}
  BY <1>1, <1>2 DEF ViewsInv, SalesCounted
<1> HIDE DEF told
<1>5. /\ ViewsInv' /\ shown'[c][i] = told
      /\ \A d \in Client, x \in Order \cup Info :
            d # c \/ x # i => shown'[d][x] = shown[d][x]
  BY <1>1, <1>2, <1>3, AnswerView
<1> QED BY <1>4, <1>5

-----------------------------------------------------------------------------
(* The theorems                                                            *)

\* What SoldNotOffered says of one step.
NotOffered ==
    \A c \in Client, i \in Info :
        shown'[c][i] # shown[c][i] =>
            /\ shown'[c][i].stock \cap UnitsOf(shown[c][i].sold) = {}
            /\ shown[c][i].sold \subseteq shown'[c][i].sold

LEMMA ViewsStep == ASSUME ViewsInv, [ViewsNext]_vvars PROVE ViewsInv' /\ NotOffered
<1>1. CASE [Next]_dbvars /\ UNCHANGED <<query, shown>>
  BY <1>1, TablesView DEF NotOffered
<1>2. ASSUME NEW c \in Client, NEW o \in Order, QueryOrder(c, o)
      PROVE  ViewsInv' /\ NotOffered
  BY <1>2, QueryOrderView DEF QueryOrder, Ask, NotOffered
<1>3. ASSUME NEW c \in Client, QueryContent(c)
      PROVE  ViewsInv' /\ NotOffered
  BY <1>3, QueryContentView DEF NotOffered
<1>4. ASSUME NEW c \in Client,
             (\E i \in Info : GetProduct(c, i)) \/ CountStock(c) \/ QueryFails(c)
      PROVE  ViewsInv' /\ NotOffered
  <2>1. ViewsInv'
    BY <1>4, StockView
  <2>2. shown' = shown
    BY <1>4 DEF GetProduct, CountStock, QueryFails, Ask
  <2> QED BY <2>1, <2>2 DEF NotOffered
<1>5. ASSUME NEW c \in Client, CountSold(c)
      PROVE  ViewsInv' /\ NotOffered
  BY <1>5, CountSoldView DEF NotOffered
<1>6. CASE UNCHANGED vvars
  BY <1>1, <1>6 DEF vvars
<1> QED BY <1>1, <1>2, <1>3, <1>4, <1>5, <1>6 DEF ViewsNext

LEMMA ViewsStart == ViewsInit => ViewsInv
<1> SUFFICES ASSUME ViewsInit PROVE ViewsInv
  OBVIOUS
<1>1. IInv
  BY InitInvariant DEF ViewsInit
<1>2. \A o \in Order : attempt[o].paidAt = None
  BY DEF ViewsInit, Init, AbsentAttempt
<1>3. /\ \A c \in Client : query[c] = NoQuery
      /\ \A c \in Client, x \in Order \cup Info : shown[c][x] = Nothing
      /\ Nothing \in Told
  BY DEF ViewsInit, Nothing, Told
<1>4. ViewsTypeOK
  BY <1>3 DEF ViewsInit, ViewsTypeOK
<1>5. PaidWhenPaid /\ QueriesStand
  BY <1>2, <1>3 DEF PaidWhenPaid, QueriesStand, Waiting, NoQuery
<1>6. OrderShownWhole
  BY <1>3 DEF OrderShownWhole, Stands, Nothing
<1>7. SalesCounted
  BY <1>3 DEF SalesCounted, Waiting, NoQuery, Nothing
<1> QED BY <1>1, <1>4, <1>5, <1>6, <1>7 DEF ViewsInv

\* Whatever a client is told about an order was so at one moment, and what it
\* says of a settled order stays so, for any number of clients and orders
\* (public.rs:926-927).
THEOREM ShownWhole == ViewsSpec => []ViewsInv
<1>1. ViewsInv /\ [ViewsNext]_vvars => ViewsInv'
  BY ViewsStep
<1> QED BY <1>1, ViewsStart, PTL DEF ViewsSpec

\* No content is shown to the buyers of two orders: an order shown with content
\* is delivered and keeps its unit, and no two orders hold one unit.
LEMMA OneBuyer == ViewsInv => ContentShownOnce
<1> SUFFICES ASSUME ViewsInv, NEW c \in Client, NEW d \in Client,
                    NEW o \in Order, NEW q \in Order,
                    shown[c][o].content # None,
                    shown[c][o].content = shown[d][q].content
             PROVE  o = q
  BY DEF ContentShownOnce
<1>1. /\ order[o].product = shown[c][o].content
      /\ order[q].product = shown[d][q].content
  BY DEF ViewsInv, OrderShownWhole, Stands
<1> QED BY <1>1 DEF ViewsInv, IInv, HeldOnce

\* The unit of one order is never shown to the buyer of another.
THEOREM ShownOnce == ViewsSpec => []ContentShownOnce
  BY ShownWhole, OneBuyer, PTL

\* No answer offers a unit whose sale an earlier one counted, whatever is sold
\* between the two counts (public.rs:205-206, 317-353).
THEOREM NeverOffered == ViewsSpec => SoldNotOffered
<1>1. ViewsInv /\ [ViewsNext]_vvars => [NotOffered]_vvars
  BY ViewsStep
<1> QED BY <1>1, ShownWhole, PTL DEF ViewsSpec, SoldNotOffered, NotOffered

=============================================================================
