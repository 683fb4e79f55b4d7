------------------------------- MODULE Views -------------------------------
(***************************************************************************)
(* What the public queries show while OrderDb's transactions go on.  A     *)
(* query runs several SELECTs outside a transaction, so that each of them  *)
(* sees the tables as they are by then.  A client has one query under way  *)
(* and keeps what it was told last.                                        *)
(***************************************************************************)
EXTENDS OrderDb

CONSTANT Client

\* An order's page is no product's page.
ASSUME PagesAssumption == Order \cap Info = {}

VARIABLES
    query,   \* the query each client waits for and what it has read so far
    shown    \* what each client was last told of each order and definition

vvars == <<dbvars, query, shown>>

NoQuery == [kind |-> "none"]

Nothing == [status |-> "unknown", paidAt |-> None, content |-> None,
            stock |-> {}, sold |-> {}]

Waiting(c, kind) == query[c].kind = kind

Ask(c, next) ==
    /\ query' = [query EXCEPT ![c] = next]
    /\ UNCHANGED <<dbvars, shown>>

Answer(c, what, told) ==
    /\ shown' = [shown EXCEPT ![c][what] = told]
    /\ query' = [query EXCEPT ![c] = NoQuery]
    /\ UNCHANGED dbvars

-----------------------------------------------------------------------------
(* query_order                                                             *)

\* Order and attempt are read by one SELECT.  A wrong password ends here.
QueryOrder(c, o) ==
    /\ Waiting(c, "none")
    /\ order[o].status # "absent"
    /\ Ask(c, [kind |-> "order", of |-> o, status |-> order[o].status,
               unit |-> order[o].product, paidAt |-> attempt[o].paidAt])

ContentOf(unit) == IF unit # None /\ product[unit] # "absent" THEN unit ELSE None

\* Mutant: the payment is read with the content, in a SELECT of its own.
QueryContentStitched(c) ==
    LET q == query[c] IN
    /\ Waiting(c, "order")
    /\ Answer(c, q.of,
              [Nothing EXCEPT !.status = q.status,
                              !.paidAt = attempt[q.of].paidAt,
                              !.content = IF q.status = "delivered"
                                          THEN ContentOf(q.unit) ELSE None])

\* Mutant: whatever unit the order holds is shown.
QueryContentAnyStatus(c) ==
    LET q == query[c] IN
    /\ Waiting(c, "order")
    /\ Answer(c, q.of,
              [Nothing EXCEPT !.status = q.status, !.paidAt = q.paidAt,
                              !.content = ContentOf(q.unit)])

\* The unit's content is read for delivered orders only.  Unit and content are
\* one value here, as the content of a row never changes.
QueryContent(c) ==
    LET q == query[c] IN
    /\ Waiting(c, "order")
    /\ Answer(c, q.of,
              [Nothing EXCEPT !.status = q.status, !.paidAt = q.paidAt,
                              !.content = IF q.status = "delivered"
                                          THEN ContentOf(q.unit) ELSE None])

-----------------------------------------------------------------------------
(* list_products and get_product, for one definition.  The answer carries  *)
(* two numbers, which stand here for the units and the orders counted.     *)

GetProduct(c, i) ==
    /\ Waiting(c, "none")
    /\ info[i].state = "active"
    /\ Ask(c, [kind |-> "stock", of |-> i])

\* Mutant: units are counted unless they are disabled.
AvailableStockUnlessDisabled(i) ==
    {p \in Product : InfoOf[p] = i /\ product[p] \notin {"absent", "disabled"}}

AvailableStock(i) ==
    {p \in Product : InfoOf[p] = i /\ product[p] = "available"}

DeliveredOrders(i) ==
    {o \in Order : order[o].info = i /\ order[o].status = "delivered"}

CountStock(c) ==
    /\ Waiting(c, "stock")
    /\ Ask(c, [kind |-> "sold", of |-> query[c].of,
               stock |-> AvailableStock(query[c].of)])

CountSold(c) ==
    LET q == query[c] IN
    /\ Waiting(c, "sold")
    /\ Answer(c, q.of, [Nothing EXCEPT !.status = "listed", !.stock = q.stock,
                                       !.sold = DeliveredOrders(q.of)])

\* The client goes away, or no connection is free, or the database fails.
QueryFails(c) == ~Waiting(c, "none") /\ Ask(c, NoQuery)

-----------------------------------------------------------------------------

ViewsInit ==
    /\ Init
    /\ query = [c \in Client |-> NoQuery]
    /\ shown = [c \in Client |-> [x \in Order \cup Info |-> Nothing]]

ViewsNext ==
    \/ Next /\ UNCHANGED <<query, shown>>
    \/ \E c \in Client :
          \/ \E o \in Order : QueryOrder(c, o)
          \/ \E i \in Info : GetProduct(c, i)
          \/ QueryContent(c)
          \/ CountStock(c) \/ CountSold(c)
          \/ QueryFails(c)

ViewsSpec == ViewsInit /\ [][ViewsNext]_vvars

-----------------------------------------------------------------------------
(* Properties                                                              *)

\* What was read of an order in one SELECT cannot become wrong any more: it was
\* read of a settled order, or it only says that nothing had been paid.
Stands(o, status, unit, paidAt) ==
    /\ status = "delivered" =>
          /\ order[o].status = "delivered" /\ unit = order[o].product
          /\ paidAt = attempt[o].paidAt /\ paidAt # None
    /\ status = "pending" => paidAt = None
    /\ status = "expired" => order[o].status = "expired"
    /\ paidAt # None => attempt[o].state = "succeeded"

\* What a customer is told about an order is what the order was at one moment,
\* never a mixture of two (public.rs:926-927), and however old the answer is:
\* a delivered order is shown with its payment and its own unit, a pending one
\* with neither, and no content is shown but that of the unit the order has
\* paid for and keeps.
OrderShownWhole ==
    \A c \in Client, o \in Order :
        LET told == shown[c][o] IN
        /\ Stands(o, told.status, told.content, told.paidAt)
        /\ told.content # None <=> told.status = "delivered"

\* The content of one unit is never shown for two orders.
ContentShownOnce ==
    \A c, d \in Client, o, q \in Order :
        /\ shown[c][o].content # None
        /\ shown[c][o].content = shown[d][q].content
        => o = q

UnitsOf(orders) == {order[o].product : o \in orders}

\* Stock and sales are counted one after the other, so that one answer may
\* count a unit in both; but no answer offers a unit whose sale an earlier one
\* counted, and a sale a client was shown is counted in every later answer
\* (public.rs:205-206, 317-353).
SoldNotOffered ==
    [][\A c \in Client, i \in Info :
          shown'[c][i] # shown[c][i] =>
              /\ shown'[c][i].stock \cap UnitsOf(shown[c][i].sold) = {}
              /\ shown[c][i].sold \subseteq shown'[c][i].sold]_vvars

OrderQuery == [kind : {"order"}, of : Order, status : {"pending", "delivered", "expired"},
               unit : Product \cup {None}, paidAt : Nat \cup {None}]

Told == [status : {"unknown", "pending", "delivered", "expired", "listed"},
         paidAt : Nat \cup {None}, content : Product \cup {None},
         stock : SUBSET Product, sold : SUBSET Order]

\* Queries and answers keep their types.
ViewsTypeOK ==
    /\ query \in [Client -> {NoQuery} \cup OrderQuery \cup [kind : {"stock"}, of : Info]
                             \cup [kind : {"sold"}, of : Info, stock : SUBSET Product]]
    /\ shown \in [Client -> [Order \cup Info -> Told]]

\* Only a paid attempt has a time of payment.
PaidWhenPaid == \A o \in Order : attempt[o].paidAt # None => attempt[o].state = "succeeded"

QueriesStand ==
    \A c \in Client : Waiting(c, "order") =>
        Stands(query[c].of, query[c].status, query[c].unit, query[c].paidAt)

\* The sales shown have happened, and the stock counted since was beside them.
SalesCounted ==
    \A c \in Client, i \in Info :
        /\ shown[c][i].sold \subseteq DeliveredOrders(i)
        /\ Waiting(c, "sold") /\ query[c].of = i =>
              query[c].stock \cap UnitsOf(shown[c][i].sold) = {}

\* The inductive invariant: OrderShownWhole for what was answered and for what
\* has been read so far, and the counts behind SoldNotOffered (public.rs:205-206,
\* 317-353, 926-927).
ViewsInv ==
    /\ IInv /\ PaidWhenPaid
    /\ ViewsTypeOK
    /\ QueriesStand /\ OrderShownWhole
    /\ SalesCounted
=============================================================================
