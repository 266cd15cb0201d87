------------------------- MODULE MCSessionCreation -------------------------
(* A new session and two forks, for TLC. *)
EXTENDS WorktreeCreation
============================================================================
