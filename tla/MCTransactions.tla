--------------------------- MODULE MCTransactions ---------------------------
(* Two sessions for the model of Transactions.                             *)
EXTENDS Transactions, TLC

CONSTANTS i1, e1, e2, t1, t2

MCInfoOf == [p \in Product |-> i1]

MCHoldTime == [provider \in Provider |-> 1]

\* A price can change between checkout and payment; payments are of the first.
MCPrice == {1, 2}
MCOnePrice == {1}

\* A payment in time, its event repeated under another id, and a late payment
\* that comes with the first event's id.
Paid(o, id, number, at) ==
    [provider |-> "epay", id |-> id, trade |-> o, txn |-> number,
     expected |-> None, amount |-> 1, paidAt |-> at]

MCIncoming ==
    UNION {{Paid(o, e1, t1, 0), Paid(o, e2, t1, 0), Paid(o, e1, t2, 2)} : o \in Order}

MCOnePayment == {Paid(o, e1, t1, 0) : o \in Order}

Symmetry == Permutations(Session) \cup Permutations(Order)
            \cup Permutations(Product)
=============================================================================
