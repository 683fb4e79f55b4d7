----------------------------- MODULE MCCheckout -----------------------------
(* Two customers after the same unit; the second may get it when the first *)
(* lets it go.                                                             *)
EXTENDS Checkout, TLC

CONSTANTS i1, p1, p2

MCInfoOf == [p \in Product |-> i1]
MCHoldTime == [provider \in Provider |-> 1]
MCPrice == {1}

\* Transaction numbers and event ids are those of the orders.
MCTxn == {<<"txn", o>> : o \in Order}
MCTxnOf == [o \in Order |-> <<"txn", o>>]
MCNotifyId == [o \in Order |-> <<"notify", o>>]
MCQueryId == [o \in Order |-> <<"query", o>>]
MCEvent == {<<kind, o>> : kind \in {"notify", "query"}, o \in Order}

Symmetry == Permutations(Order) \cup Permutations(Product)
=============================================================================
