--------------------------- MODULE WorktreeCreation ---------------------------
(* SessionCreation instantiated with names of its own, so that the making of *)
(* a session's worktree can be stated and proved about beside the claim that *)
(* guards it afterwards (WorktreeClaim).                                     *)
CONSTANTS Sessions, Forks, Pids, MaxPending, MaxFailures, MaxCrashes
VARIABLES phase, pid, taken, mem, disk, intent, tree, git, handler, write, pending, used, raced,
          failed, crashes

Creation == INSTANCE SessionCreation WITH op <- handler, faults <- failed, MaxFaults <- MaxFailures

ASSUME CreationAssumption == Creation!ConstantsAssumption

CreationSpec == Creation!Spec
FairCreationSpec == Creation!FairSpec

(* A worktree that git left behind is named by the journal or by the saved   *)
(* snapshot, unless its session was published while another save was         *)
(* running (#createSession, #forkSession and their clean-ups).               *)
EvidenceKept == Creation!EvidenceKept

(* Sessions, receipts and pending git runs agree with the worktrees on disk, *)
(* through recovery (#recoverSessionCreations) as well.                      *)
TreesAsRecorded == Creation!TreesAsRecorded

(* An interrupted creation is shown by a restart of #recoverSessionCreations *)
(* that finds the pid of its creator free.                                   *)
InterruptedIsShown == Creation!InterruptedIsShown
===============================================================================
