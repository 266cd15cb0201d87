-------------------------- MODULE MCEmergencyStop --------------------------
(* Two sessions and the stops of one or two daemon lives, for TLC. *)
EXTENDS EmergencyStop
============================================================================
