----------------------------- MODULE MC_Timers -----------------------------
(* Timers for TLC. *)
EXTENDS Timers
=============================================================================
