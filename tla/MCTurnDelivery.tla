--------------------------- MODULE MCTurnDelivery ---------------------------
(* One session, its messages and its provider threads, for TLC. *)
EXTENDS TurnDelivery
=============================================================================
