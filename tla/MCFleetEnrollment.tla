------------------------- MODULE MCFleetEnrollment -------------------------
(* One machine and two pairing codes, for TLC. *)
EXTENDS FleetEnrollment
============================================================================
