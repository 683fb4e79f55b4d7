--------------------------- MODULE MCCheckoutPage ---------------------------
(* Two refreshes can cross while a third challenge is on the page, and polls of *)
(* one order can outlast the code of the next.                                 *)
EXTENDS CheckoutPage, TLC

CONSTANTS c1, c2, c3, o1, o2

MCChallenge == {c1, c2, c3}
MCOrder == {o1, o2}

Symmetry == Permutations(MCChallenge) \cup Permutations(MCOrder)
=============================================================================
