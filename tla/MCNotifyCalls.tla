---------------------------- MODULE MCNotifyCalls ----------------------------
(* One order and two calls at a time.  The notations write its price short, in *)
(* full and with too many digits, and another amount.                          *)
EXTENDS NotifyCalls, TLC

CONSTANTS i1, p1, o1, t1, e1

MCInfoOf == [p \in Product |-> i1]
MCHoldTime == [provider \in Provider |-> 1]
MCPrice == {150}
MCTxnOf == [o \in Order |-> t1]
MCEventOf == [o \in Order |-> e1]

T(digits, fraction) ==
    [lead |-> TRUE, minus |-> FALSE, whole |-> 1,
     mark |-> "none", digits |-> digits, fraction |-> fraction]

\* "1.5", "1.50", "1.500" and "1.05"
MCNotation == {T(1, 5), T(2, 50), T(3, 500), T(2, 5)}
=============================================================================
