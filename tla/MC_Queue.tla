------------------------------ MODULE MC_Queue ------------------------------
(* Queue for TLC. *)
EXTENDS Queue
CONSTANTS a, b
=============================================================================
