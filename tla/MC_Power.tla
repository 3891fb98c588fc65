------------------------------ MODULE MC_Power ------------------------------
(* An instance of Power for TLC. *)
EXTENDS Power
=============================================================================
