-------------------------- MODULE MC_ChargeManager --------------------------
(* ChargeManager for TLC: two ports with two suppliers each.  The offers of *)
(* a supplier on the two ports have the same priority.                      *)
EXTENDS ChargeManager
Ranked == [s \in 0 .. 1 |-> s]   \* supplier 0 comes before supplier 1
=============================================================================
