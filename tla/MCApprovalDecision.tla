------------------------- MODULE MCApprovalDecision -------------------------
(* The requests, decisions and stops of one session, for TLC. *)
EXTENDS ApprovalDecision
=============================================================================
