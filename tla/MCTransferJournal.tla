------------------------- MODULE MCTransferJournal -------------------------
(* One journal entry and its send, for TLC. *)
EXTENDS TransferJournal
============================================================================
