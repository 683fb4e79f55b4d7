-------------------------- MODULE MCConnectionPool --------------------------
(* Two connections for two checkouts and two other calls: the checkouts can    *)
(* hold both and wait for a third, and each of them can meet a row lock of     *)
(* another call.                                                               *)
EXTENDS ConnectionPool
=============================================================================
