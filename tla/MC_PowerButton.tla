--------------------------- MODULE MC_PowerButton ---------------------------
(* An instance of PowerButton for TLC. *)
EXTENDS PowerButton
=============================================================================
