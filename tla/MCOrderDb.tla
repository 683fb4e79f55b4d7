----------------------------- MODULE MCOrderDb -----------------------------
(* One definition, two units and two orders for the model of OrderDb.      *)
EXTENDS OrderDb, TLC

CONSTANTS i1, p1, p2

MCInfoOf == [p \in Product |-> i1]

\* ePay's fixed three minutes and WeChat's configured minutes, as one and two
\* ticks: enough for a deadline to pass before, at and after a payment.
MCHoldTime == [provider \in Provider |-> IF provider = "epay" THEN 1 ELSE 2]

MCPrice == {1, 2}

Symmetry == Permutations(Order) \cup Permutations(Product)
            \cup Permutations(Txn) \cup Permutations(Event)
=============================================================================
