---------------------- MODULE MCResourceMutationQueue ----------------------
(* The mutation queue with two resources, for TLC. *)
EXTENDS SessionLane
============================================================================
