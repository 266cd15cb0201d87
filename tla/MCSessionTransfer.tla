-------------------------- MODULE MCSessionTransfer --------------------------
(* One session and its moves between a few machines, for TLC. *)
EXTENDS SessionTransfer, TLC

\* Transfer ids are interchangeable, and so are the machines a session may go to.
TransferSymmetry == Permutations(Transfers)
Symmetry == TransferSymmetry \cup Permutations(Machines \ {Origin})

=============================================================================
