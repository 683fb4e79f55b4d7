-------------------------------- MODULE Sale --------------------------------
(***************************************************************************)
(* What the shop promises, with no database, provider or clock: an order   *)
(* takes an item nobody else holds, and ends sold (paid, item kept for     *)
(* ever) or lapsed (item given back).  Money that arrives after the lapse  *)
(* is recorded and never buys anything.  README.md:24-30 states the same   *)
(* life cycle in words; OrderDb implements it (OrderDb!Lifecycle).         *)
(***************************************************************************)
CONSTANTS Order, Product, None

VARIABLES
    item,   \* item[o]: the unit of stock order o holds, or None
    sale,   \* sale[o]: "none", "open", "sold" or "lapsed"
    paid    \* paid[o]: the shop has recorded the money of order o

svars == <<item, sale, paid>>

SaleInit ==
    /\ item = [o \in Order |-> None]
    /\ sale = [o \in Order |-> "none"]
    /\ paid = [o \in Order |-> FALSE]

\* An order is opened on a unit that no order holds.
Open(o, p) ==
    /\ sale[o] = "none"
    /\ \A q \in Order : item[q] # p
    /\ item' = [item EXCEPT ![o] = p]
    /\ sale' = [sale EXCEPT ![o] = "open"]
    /\ paid' = paid

\* Money arrives in time: it is recorded and the unit handed over, at once.
Sell(o) ==
    /\ sale[o] = "open"
    /\ sale' = [sale EXCEPT ![o] = "sold"]
    /\ paid' = [paid EXCEPT ![o] = TRUE]
    /\ item' = item

\* The reservation ends: the unit goes back.  A payment that reports itself
\* late may be recorded in the same step.
Lapse(o) ==
    /\ sale[o] = "open"
    /\ sale' = [sale EXCEPT ![o] = "lapsed"]
    /\ item' = [item EXCEPT ![o] = None]
    /\ \/ paid' = paid
       \/ paid' = [paid EXCEPT ![o] = TRUE]

\* Money for a lapsed order is recorded, once; nothing is handed over.
PayTooLate(o) ==
    /\ sale[o] = "lapsed"
    /\ ~paid[o]
    /\ paid' = [paid EXCEPT ![o] = TRUE]
    /\ UNCHANGED <<item, sale>>

SaleNext ==
    \E o \in Order :
        \/ \E p \in Product : Open(o, p)
        \/ Sell(o)
        \/ Lapse(o)
        \/ PayTooLate(o)

SaleSpec == SaleInit /\ [][SaleNext]_svars
=============================================================================
