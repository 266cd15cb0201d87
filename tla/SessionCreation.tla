-------------------------- MODULE SessionCreation --------------------------
(* session.create and session.fork: the creation intent in the journal, the  *)
(* worktree that git makes or removes in the background, the save that       *)
(* publishes the session, and the recovery of interrupted creations at the   *)
(* next start.                                                               *)
(*                                                                           *)
(* Handlers answer on a deadline while their git run goes on; a snapshot     *)
(* write carries the copy taken when it started; the process may die at any  *)
(* point, and the next one, or any other process, may be given its pid.      *)
(*                                                                           *)
(* Abstracted: one project (opening another one recovers again); titles,     *)
(* runtimes and commits; the provider thread (started, or not).  A failed    *)
(* save leaves the file as it was.                                           *)
EXTENDS Integers, FiniteSets

CONSTANTS
  Sessions,     \* session ids
  Forks,        \* those derived from a fork's request id: a retry names it again
  Pids,         \* process ids
  MaxPending,   \* maximumPendingSessionCreations
  MaxFaults,    \* bound: journal writes, saves and validations that fail
  MaxCrashes    \* bound: crashes

(* Assumed of the constants (WorktreeCreation).                              *)
ConstantsAssumption ==
  /\ IsFiniteSet(Sessions) /\ Forks \subseteq Sessions /\ Pids # {}
  /\ MaxPending \in Nat \ {0} /\ MaxFaults \in Nat /\ MaxCrashes \in Nat
  /\ "all" \notin Sessions /\ "none" \notin Pids

VARIABLES
  phase,     \* "up", "down" or "recovering"
  pid,       \* the running process
  taken,     \* creators whose pid its recovery did not find free
  mem,       \* the live snapshot's sessions
  disk,      \* the saved ones
  intent,    \* session_creation_intents
  tree,      \* the worktree on disk
  git,       \* the git run on it in this process
  op,        \* the step of the handler creating it
  write,     \* the copy the running save writes
  pending,   \* a whole-snapshot save waits to start
  used,      \* ids drawn by session.create
  raced,     \* sessions published while a save was running
  faults, crashes

vars == <<phase, pid, taken, mem, disk, intent, tree, git, op, write, pending, used,
          raced, faults, crashes>>

NoIntent == [owner |-> "none", receipt |-> FALSE, cleanup |-> FALSE]
NoWrite == [copy |-> [s \in Sessions |-> "none"], of |-> "none"]
(* A session is absent, usable (it names its worktree), or shown as failed.  *)
Published == [Sessions -> {"none", "usable", "failed"}]

TypeOK ==
  /\ phase \in {"up", "down", "recovering"} /\ pid \in Pids /\ taken \subseteq Pids
  /\ mem \in Published /\ disk \in Published
  /\ intent \in [Sessions -> {NoIntent} \cup [owner : Pids, receipt : BOOLEAN, cleanup : BOOLEAN]]
  /\ Cardinality({s \in Sessions : intent[s] # NoIntent}) <= MaxPending
  /\ tree \in [Sessions -> {"none", "partial", "whole"}]
  /\ git \in [Sessions -> {"idle", "creating", "removing"}]
  /\ op \in [Sessions -> {"none", "creating", "late", "threading", "persisting", "saving"}]
  /\ write.copy \in Published /\ write.of \in {"none", "all"} \cup Sessions
  /\ pending \in BOOLEAN /\ used \subseteq Sessions /\ raced \subseteq Sessions
  /\ faults \in 0..MaxFaults /\ crashes \in 0..MaxCrashes

(* The first process has some pid: which, tells nothing apart.               *)
Init ==
  /\ phase = "up" /\ pid = (CHOOSE p \in Pids : TRUE) /\ taken = {}
  /\ mem = [s \in Sessions |-> "none"] /\ disk = mem
  /\ intent = [s \in Sessions |-> NoIntent]
  /\ tree = [s \in Sessions |-> "none"]
  /\ git = [s \in Sessions |-> "idle"]
  /\ op = [s \in Sessions |-> "none"]
  /\ write = NoWrite /\ pending = FALSE /\ used = {} /\ raced = {}
  /\ faults = 0 /\ crashes = 0

Fail(n) == faults + n <= MaxFaults /\ faults' = faults + n
Cost(ok) == IF ok THEN 0 ELSE 1

---------------------------------------------------------------------------
(* The handlers *)

Running(s) == op[s] \notin {"none", "late"}

(* The bound of pending intents, tested before the insert. *)
Admits == Cardinality({s \in Sessions : intent[s] # NoIntent}) < MaxPending

(* session.create runs alone, a fork on its source's lane.  A fork the       *)
(* snapshot already holds is answered from it, a pending one refused.        *)
Begin(s) ==
  /\ phase = "up" /\ ~Running(s) /\ mem[s] = "none" /\ intent[s] = NoIntent /\ Admits
  /\ IF s \in Forks THEN \A r \in Sessions \ Forks : ~Running(r)
                    ELSE s \notin used /\ \A r \in Sessions : ~Running(r)
  /\ intent' = [intent EXCEPT ![s] = [owner |-> pid, receipt |-> FALSE, cleanup |-> FALSE]]
  /\ used' = IF s \in Forks THEN used ELSE used \cup {s}
  /\ git' = [git EXCEPT ![s] = "creating"]
  /\ op' = [op EXCEPT ![s] = "creating"]
  /\ UNCHANGED <<phase, pid, taken, mem, disk, tree, write, pending, raced, faults, crashes>>

(* The deadline answers the caller; the git run goes on.                     *)
TimeOut(s) ==
  /\ op[s] = "creating"
  /\ op' = [op EXCEPT ![s] = "late"]
  /\ UNCHANGED <<phase, pid, taken, mem, disk, intent, tree, git, write, pending, used, raced,
                 faults, crashes>>

(* beginCleanup *)
CleanupRecorded(i) == [i EXCEPT !.cleanup = TRUE]

(* git made the worktree (a fork may find it made): `complete` writes the    *)
(* receipt; #removeAbandonedWorkspace follows where the handler is gone or   *)
(* the receipt failed.                                                       *)
GitCreated(s) ==
  /\ git[s] = "creating" /\ (tree[s] = "none" \/ (s \in Forks /\ tree[s] = "whole"))
  /\ tree' = [tree EXCEPT ![s] = "whole"]
  /\ \E receipt, recorded \in BOOLEAN :
       LET cleans == op[s] = "late" \/ ~receipt
           completed == [intent[s] EXCEPT !.receipt = receipt] IN
       /\ ~cleans => recorded
       /\ Fail(Cost(receipt) + Cost(recorded))
       /\ intent' = [intent EXCEPT ![s] = IF cleans /\ recorded THEN CleanupRecorded(completed)
                                                                ELSE completed]
       /\ git' = [git EXCEPT ![s] = IF cleans /\ recorded THEN "removing" ELSE "idle"]
       /\ op' = [op EXCEPT ![s] = IF cleans THEN "none" ELSE "threading"]
  /\ UNCHANGED <<phase, pid, taken, mem, disk, write, pending, used, raced, crashes>>

(* git failed: what it made stays, with the intent.                          *)
GitFailed(s) ==
  /\ git[s] = "creating"
  /\ git' = [git EXCEPT ![s] = "idle"]
  /\ op' = [op EXCEPT ![s] = "none"]
  /\ \E left \in IF tree[s] = "none" THEN {"none", "partial"} ELSE {tree[s]} :
       tree' = [tree EXCEPT ![s] = left]
  /\ UNCHANGED <<phase, pid, taken, mem, disk, intent, write, pending, used, raced, faults, crashes>>

(* #gitFilterRefusal, the worktree taken away by the workspace.              *)
FilterRefused(s) ==
  /\ git[s] = "creating" /\ op[s] = "creating" /\ tree[s] = "none"
  /\ git' = [git EXCEPT ![s] = "idle"]
  /\ op' = [op EXCEPT ![s] = "none"]
  /\ intent' = [intent EXCEPT ![s] = NoIntent]
  /\ UNCHANGED <<phase, pid, taken, mem, disk, tree, write, pending, used, raced, faults, crashes>>

(* The provider's thread started: session.create publishes in the live       *)
(* snapshot and saves it, a fork saves a copy first.                         *)
Threaded(s) ==
  /\ op[s] = "threading"
  /\ IF s \in Forks
     THEN /\ op' = [op EXCEPT ![s] = "saving"]
          /\ UNCHANGED <<mem, pending, raced>>
     ELSE /\ op' = [op EXCEPT ![s] = "persisting"]
          /\ mem' = [mem EXCEPT ![s] = "usable"]
          /\ pending' = TRUE
          /\ raced' = IF write = NoWrite THEN raced ELSE raced \cup {s}
  /\ UNCHANGED <<phase, pid, taken, disk, intent, tree, git, write, used, faults, crashes>>

(* #removeCreatedWorkspace up to its await.                                  *)
Remove(s) ==
  /\ op' = [op EXCEPT ![s] = "none"]
  /\ \/ /\ intent[s] # NoIntent
        /\ intent' = [intent EXCEPT ![s] = CleanupRecorded(@)]
        /\ git' = [git EXCEPT ![s] = "removing"]
        /\ UNCHANGED faults
     \/ Fail(1) /\ UNCHANGED <<intent, git>>

ThreadFailed(s) ==
  /\ op[s] = "threading"
  /\ Remove(s)
  /\ UNCHANGED <<phase, pid, taken, mem, disk, tree, write, pending, used, raced, crashes>>

(* Mutant: what is left of the removal does not keep the evidence. *)
RemoveEndsAnyway(s) ==
  /\ git[s] = "removing"
  /\ git' = [git EXCEPT ![s] = "idle"]
  /\ \E left \in {"none", "partial", "whole"} : tree' = [tree EXCEPT ![s] = left]
  /\ intent' = [intent EXCEPT ![s] = NoIntent]
  /\ UNCHANGED <<phase, pid, taken, mem, disk, op, write, pending, used, raced, faults, crashes>>

(* The removal settles; only a successful one discards the intent.           *)
RemoveEnds(s) ==
  /\ git[s] = "removing"
  /\ git' = [git EXCEPT ![s] = "idle"]
  /\ \/ /\ tree' = [tree EXCEPT ![s] = "none"]
        /\ \/ intent' = [intent EXCEPT ![s] = NoIntent] /\ UNCHANGED faults
           \/ Fail(1) /\ UNCHANGED intent
     \/ /\ \E left \in {"partial", "whole"} : tree' = [tree EXCEPT ![s] = left]
        /\ UNCHANGED <<intent, faults>>
  /\ UNCHANGED <<phase, pid, taken, mem, disk, op, write, pending, used, raced, crashes>>

---------------------------------------------------------------------------
(* The saves *)

(* Any other change of the snapshot asks for a save.                         *)
Stream ==
  /\ phase = "up" /\ ~pending
  /\ pending' = TRUE
  /\ UNCHANGED <<phase, pid, taken, mem, disk, intent, tree, git, op, write, used, raced, faults, crashes>>

StartWrite ==
  /\ phase = "up" /\ write = NoWrite
  /\ \/ pending /\ pending' = FALSE /\ write' = [copy |-> mem, of |-> "all"]
     \/ \E s \in Sessions : /\ op[s] = "saving"
                            /\ write' = [copy |-> [mem EXCEPT ![s] = "usable"], of |-> s]
                            /\ UNCHANGED pending
  /\ UNCHANGED <<phase, pid, taken, mem, disk, intent, tree, git, op, used, raced, faults, crashes>>

(* #clearCommittedSessionCreations, from the snapshot m it is given.         *)
Cleared(m) == [s \in Sessions |-> IF m[s] # "none" THEN NoIntent ELSE intent[s]]
Clear(m) ==
  \/ intent' = Cleared(m) /\ UNCHANGED faults
  \/ Fail(1) /\ UNCHANGED intent

(* The save landed: a fork is published now; the committed intents are those *)
(* of the live snapshot.                                                     *)
WriteLands ==
  /\ write # NoWrite
  /\ disk' = write.copy
  /\ mem' = IF write.of \in Sessions THEN [mem EXCEPT ![write.of] = "usable"] ELSE mem
  /\ op' = [s \in Sessions |-> IF s = write.of \/ (op[s] = "persisting" /\ write.copy[s] # "none")
                               THEN "none" ELSE op[s]]
  /\ Clear(mem')
  /\ write' = NoWrite
  /\ UNCHANGED <<phase, pid, taken, tree, git, pending, used, raced, crashes>>

(* The save failed: a fork is undone, a created session stays live.          *)
WriteFails ==
  /\ write # NoWrite /\ write' = NoWrite
  /\ IF write.of \in Sessions
     THEN /\ faults < MaxFaults
          /\ op' = [op EXCEPT ![write.of] = "none"]
          /\ \/ /\ intent[write.of] # NoIntent
                /\ intent' = [intent EXCEPT ![write.of] = CleanupRecorded(@)]
                /\ git' = [git EXCEPT ![write.of] = "removing"]
                /\ Fail(1)
             \/ Fail(2) /\ UNCHANGED <<intent, git>>
     ELSE /\ op' = [s \in Sessions |-> IF op[s] = "persisting" /\ write.copy[s] # "none"
                                       THEN "none" ELSE op[s]]
          /\ Fail(1) /\ UNCHANGED <<intent, git>>
  /\ UNCHANGED <<phase, pid, taken, mem, disk, tree, pending, used, raced, crashes>>

---------------------------------------------------------------------------
(* Crash and recovery *)

(* A git run dies where it is.                                               *)
Crash ==
  /\ phase # "down" /\ crashes < MaxCrashes
  /\ crashes' = crashes + 1 /\ phase' = "down" /\ taken' = {}
  /\ disk' \in {disk} \cup (IF write = NoWrite THEN {} ELSE {write.copy})
  /\ \E cut \in [Sessions -> {"none", "partial", "whole"}] :
       tree' = [s \in Sessions |-> IF git[s] = "removing" \/ (git[s] = "creating" /\ tree[s] = "none")
                                   THEN cut[s] ELSE tree[s]]
  /\ mem' = [s \in Sessions |-> "none"]
  /\ git' = [s \in Sessions |-> "idle"] /\ op' = [s \in Sessions |-> "none"]
  /\ write' = NoWrite /\ pending' = FALSE
  /\ UNCHANGED <<pid, intent, used, raced, faults>>

Start(p) ==
  /\ phase = "down" /\ phase' = "recovering"
  /\ pid' = p /\ mem' = disk
  /\ UNCHANGED <<taken, disk, intent, tree, git, op, write, pending, used, raced, faults, crashes>>

(* Mutant: a receipt is believed without looking at the worktree's removal. *)
UsableByReceipt(s) == intent[s].receipt
Usable(s) == intent[s].receipt /\ ~intent[s].cleanup /\ tree[s] = "whole"

(* Mutant: only verified creations are shown. *)
RecoveredVerified(s, ok) == IF ok /\ Usable(s) THEN "usable" ELSE "none"
(* An interrupted creation is shown with its worktree only where the receipt *)
(* still matches it.                                                         *)
Recovered(s, ok) == IF ok /\ Usable(s) THEN "usable" ELSE "failed"

(* #recoverSessionCreations: an intent waits while process.kill(ownerPid, 0) *)
(* finds any process with that pid, or fails otherwise than with ESRCH.      *)
Recover ==
  /\ phase = "recovering"
  /\ \E ok \in BOOLEAN, alive \in SUBSET Pids :
       LET interrupted == {s \in Sessions : intent[s] # NoIntent /\ mem[s] = "none"}
           due == {s \in interrupted : intent[s].owner \notin alive \cup {pid}}
           candidate == [s \in Sessions |-> IF s \in due THEN Recovered(s, ok) ELSE mem[s]] IN
       \/ /\ faults + Cost(ok) <= MaxFaults
          /\ disk' = candidate /\ mem' = candidate /\ phase' = "up"
          /\ taken' = {intent[s].owner : s \in interrupted \ due}
          /\ \/ intent' = Cleared(candidate) /\ Fail(Cost(ok))
             \/ Fail(Cost(ok) + 1) /\ UNCHANGED intent
       \/ /\ candidate # mem /\ Fail(Cost(ok) + 1)
          /\ phase' = "down" /\ mem' = [s \in Sessions |-> "none"]
          /\ UNCHANGED <<disk, intent, taken>>
  /\ UNCHANGED <<pid, tree, git, op, write, pending, used, raced, crashes>>

Restart == (\E p \in Pids : Start(p)) \/ Recover

Next ==
  \/ \E s \in Sessions : \/ Begin(s) \/ TimeOut(s) \/ GitCreated(s) \/ GitFailed(s)
                         \/ FilterRefused(s) \/ Threaded(s) \/ ThreadFailed(s) \/ RemoveEnds(s)
  \/ Stream \/ StartWrite \/ WriteLands \/ WriteFails
  \/ Crash \/ Restart

Spec == Init /\ [][Next]_vars
FairSpec == Spec /\ WF_vars(Restart)

---------------------------------------------------------------------------
(* Properties *)

Evidence(s) == tree[s] # "none" => intent[s] # NoIntent \/ disk[s] # "none"

(* No worktree is stranded: whatever git left behind, through timeouts,      *)
(* failed removals, failed saves and crashes, the journal or the saved       *)
(* snapshot names it.  (Sessions published while a save was running apart.)  *)
EvidenceKept == \A s \in Sessions \ raced : Evidence(s)

(* An intent is cleared as committed only once the saved snapshot holds its  *)
(* session.                                                                  *)
ClearedWhenDurable == \A s \in Sessions : Evidence(s)

(* A session that names a worktree has it: neither the late removal of a     *)
(* timed-out creation, nor the undoing of a fork, nor a recovery leaves a    *)
(* usable session over a worktree that is gone or half removed.              *)
UsableHasTree ==
  \A s \in Sessions : (mem[s] = "usable" \/ disk[s] = "usable") => tree[s] = "whole"

(* A completion receipt not marked for cleanup is true: the mark reaches the *)
(* journal before the first file is removed.                                 *)
ReceiptIsTrue ==
  \A s \in Sessions : intent[s].receipt /\ ~intent[s].cleanup => tree[s] = "whole"

(* While git still works on a session's worktree its intent is pending, so a *)
(* retried fork cannot start a second run on it.                             *)
RunIsPending == \A s \in Sessions : git[s] # "idle" => intent[s] # NoIntent

(* An interrupted creation is shown, with its worktree or as failed, by      *)
(* every restart that finds its creator's pid free: recovery that was cut    *)
(* off or could not save is done again.  It waits for another restart only   *)
(* where some process has that pid now, or it cannot be told.                *)
InterruptedIsShown ==
  \A s \in Sessions :
    (phase = "down" /\ intent[s] # NoIntent) ~>
      (disk[s] # "none" \/ (phase = "up" /\ intent[s].owner \in taken))

(* Sessions, receipts and pending runs agree with the worktrees on disk.     *)
TreesAsRecorded == TypeOK /\ UsableHasTree /\ ReceiptIsTrue /\ RunIsPending
===========================================================================
