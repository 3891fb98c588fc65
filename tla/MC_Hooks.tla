------------------------------ MODULE MC_Hooks ------------------------------
(* Hooks for TLC. *)
EXTENDS Hooks
=============================================================================
