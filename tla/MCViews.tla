------------------------------ MODULE MCViews ------------------------------
(* One definition with two units, two orders and one client for Views.     *)
(* Numbers are unique per provider: both orders can be paid, one with each.*)
EXTENDS Views, TLC

CONSTANTS i1

MCInfoOf == [p \in Product |-> i1]

MCHoldTime == [provider \in Provider |-> 1]

MCPrice == {1}

Symmetry == Permutations(Product) \cup Permutations(Order)
=============================================================================
