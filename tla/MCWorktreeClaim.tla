-------------------------- MODULE MCWorktreeClaim --------------------------
(* Two daemon processes, their operations and commands, for TLC. *)
EXTENDS WorktreeClaim
============================================================================
