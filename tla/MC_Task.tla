------------------------------ MODULE MC_Task ------------------------------
(* Task for TLC. *)
EXTENDS Task
=============================================================================
