------------------------- MODULE MCUpdateActivation -------------------------
(* Two coordinators and two runtimes, for TLC. *)
EXTENDS UpdateActivation
=============================================================================
