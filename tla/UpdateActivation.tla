-------------------------- MODULE UpdateActivation --------------------------
(***************************************************************************)
(* Switching the daemon to a verified update, and back                      *)
(* (apps/daemon/src/update-activation.ts).                                  *)
(*                                                                         *)
(* A run of UpdateActivation holds a fence, writes every phase to a durable *)
(* journal before the effect it announces, and decides from the journal and *)
(* the active revision what an earlier run left.  The fence is external     *)
(* (ActivationFence has no implementation in the repository): what it        *)
(* promises is taken from its interface.  An effect is a call that is       *)
(* begun, then lands or throws; in between the run may expire, the fence    *)
(* may be lost to another coordinator, or the process may die.              *)
(***************************************************************************)
EXTENDS Naturals, FiniteSets

CONSTANTS
    Coordinators,   \* the processes that may activate or recover
    Runtimes,       \* the immutable runtimes
    Initial,        \* the runtime that is active at first
    None,           \* recover: a run without a target
    MaxRuns,        \* bound: how often the fence is acquired
    MaxFaults       \* bound: failures, losses, deaths and foreign switches

ASSUME ActivationAssumption ==
    /\ Initial \in Runtimes
    /\ None \notin Runtimes
    /\ None \notin Coordinators
    /\ MaxRuns \in Nat
    /\ MaxFaults \in Nat

VARIABLES
    active,     \* the active revision and its runtime
    journal,    \* the durable journal
    fence,      \* who holds the fence, or None
    run,        \* per coordinator: the run in progress
    starts,     \* per transaction and phase: how often a runtime was launched
    running,    \* the launches that were not quiesced
    receipt,    \* the last startup receipt
    runs,       \* how often the fence was acquired; a fence's generation
    faults

vars == <<active, journal, fence, run, starts, running, receipt, runs, faults>>

\* A revision is fresh: the target's and the rollback's of a transaction, or foreign.
Revisions == (0 .. MaxRuns + MaxFaults) \X {"next", "back", "foreign"}

\* Which runtime is active, and since which switch.
Actives == [revision : Revisions, runtime : Runtimes]

Receipts == [id : 0 .. MaxRuns, generation : 0 .. MaxRuns, runtime : Runtimes]

Unfinished == {"prepared", "starting", "rollback", "restarting"}

Ended == {"committed", "rolled-back"}

Journals == [id : 0 .. MaxRuns, generation : 0 .. MaxRuns, previousRevision : Revisions,
             previous : Runtimes, target : Runtimes,
             phase : Unfinished \cup Ended \cup {"none"}]

\* Writes of the journal are named for the phase they write.
Writes == Unfinished \cup Ended

Effects == Writes \cup {"switch", "start", "restore", "restart"}

Launches == (0 .. MaxRuns) \X {"starting", "restarting"}

Start == [revision |-> <<0, "next">>, runtime |-> Initial]

NoJournal == [id |-> 0, generation |-> 0, previousRevision |-> <<0, "next">>,
              previous |-> Initial, target |-> Initial, phase |-> "none"]

NoReceipt == [id |-> 0, generation |-> 0, runtime |-> Initial]

\* journal: the run's own copy.  seen: the active revision it read.  expired: its
\* caller was told quarantined and its signal is aborted.
NoRun == [at |-> "idle", calling |-> FALSE, expired |-> FALSE, target |-> None,
          generation |-> 0, journal |-> NoJournal, seen |-> Start]

Runs == [at : Effects \cup {"idle", "read", "judge", "reconcile", "started", "restarted"},
         calling : BOOLEAN, expired : BOOLEAN, target : Runtimes \cup {None},
         generation : 0 .. MaxRuns, journal : Journals, seen : Actives]

Init ==
    /\ active = Start
    /\ journal = NoJournal
    /\ fence = None
    /\ run = [c \in Coordinators |-> NoRun]
    /\ starts = [l \in Launches |-> 0]
    /\ running = {}
    /\ receipt = NoReceipt
    /\ runs = 0
    /\ faults = 0

Fault ==
    /\ faults < MaxFaults
    /\ faults' = faults + 1

Old(j) == [revision |-> j.previousRevision, runtime |-> j.previous]

Target(j) == [revision |-> <<j.id, "next">>, runtime |-> j.target]

Restored(j) == [revision |-> <<j.id, "back">>, runtime |-> j.previous]

\* healthy: the receipt is of this launch.
Healthy(r, j, runtime) ==
    /\ r.id = j.id
    /\ r.generation = j.generation
    /\ r.runtime = runtime

-----------------------------------------------------------------------------
(* A run. *)

\* check: neither expired nor without the fence.
Checked(c) == ~run[c].expired /\ fence = c

Goto(c, at) == run' = [run EXCEPT ![c] = [@ EXCEPT !.at = at, !.calling = FALSE]]

\* Mutant: a run that expired does not come back to release the fence.
MutantEndExpiredHolds(c) ==
    /\ run' = [run EXCEPT ![c] = NoRun]
    /\ fence' = IF fence = c /\ ~run[c].expired THEN None ELSE fence

\* finally: the fence is released and the coordinator no longer busy.
End(c) ==
    /\ run' = [run EXCEPT ![c] = NoRun]
    /\ fence' = IF fence = c THEN None ELSE fence

\* activate and recover, as far as the fence.  A busy coordinator, and one that is
\* refused the fence, do nothing.
Acquire(c, target) ==
    /\ run[c].at = "idle"
    /\ fence = None
    /\ runs < MaxRuns
    /\ runs' = runs + 1
    /\ fence' = c
    /\ run' = [run EXCEPT ![c] = [NoRun EXCEPT !.at = "read", !.target = target,
                                               !.generation = runs + 1]]
    /\ UNCHANGED <<active, journal, starts, running, receipt, faults>>

\* Mutant: an activation does not look for a transaction that is unfinished.
MutantReadJournalForTarget(c) ==
    /\ run[c].at = "read"
    /\ Checked(c)
    /\ \/ /\ journal.phase \in Unfinished
          /\ run[c].target = None
          /\ run' = [run EXCEPT ![c] = [@ EXCEPT !.at = "reconcile", !.journal = journal]]
          /\ UNCHANGED fence
       \/ /\ journal.phase \notin Unfinished
          /\ run[c].target = None
          /\ End(c)
       \/ /\ run[c].target # None
          /\ Goto(c, "judge")
          /\ UNCHANGED fence
    /\ UNCHANGED <<active, journal, starts, running, receipt, runs, faults>>

\* An unfinished transaction comes before anything else.
ReadJournal(c) ==
    /\ run[c].at = "read"
    /\ Checked(c)
    /\ \/ /\ journal.phase \in Unfinished
          /\ run' = [run EXCEPT ![c] = [@ EXCEPT !.at = "reconcile", !.journal = journal]]
          /\ UNCHANGED fence
       \/ /\ journal.phase \notin Unfinished
          /\ run[c].target = None
          /\ End(c)
       \/ /\ journal.phase \notin Unfinished
          /\ run[c].target # None
          /\ Goto(c, "judge")
          /\ UNCHANGED fence
    /\ UNCHANGED <<active, journal, starts, running, receipt, runs, faults>>

Prepared(c) ==
    [id |-> run[c].generation, generation |-> run[c].generation,
     previousRevision |-> active.revision, previous |-> active.runtime,
     target |-> run[c].target, phase |-> "prepared"]

\* The target and the active runtime differ, are qualified and verified: a transaction
\* is prepared.  Or one of them is not, and the run is over.
Judge(c) ==
    /\ run[c].at = "judge"
    /\ Checked(c)
    /\ \/ /\ run[c].target \notin {None, active.runtime}
          /\ run' = [run EXCEPT ![c] = [@ EXCEPT !.at = "prepared", !.seen = active,
                                                !.journal = Prepared(c)]]
          /\ UNCHANGED fence
       \/ End(c)
    /\ UNCHANGED <<active, journal, starts, running, receipt, runs, faults>>

\* Mutant: a prepared transaction has switched nothing yet.
MutantReconcilePrepared(c) ==
    LET j == run[c].journal IN
    /\ run[c].at = "reconcile"
    /\ Checked(c)
    /\ \/ /\ run' = [run EXCEPT ![c] = [@ EXCEPT
                       !.at = IF j.phase = "prepared" THEN "rolled-back" ELSE "rollback",
                       !.seen = active]]
          /\ UNCHANGED fence
       \/ End(c)
    /\ UNCHANGED <<active, journal, starts, running, receipt, runs, faults>>

\* Mutant: a restart that was announced is made again.
MutantReconcileRestarts(c) ==
    LET j == run[c].journal IN
    /\ run[c].at = "reconcile"
    /\ Checked(c)
    /\ \/ /\ active \in {Old(j), Target(j), Restored(j)}
          /\ run' = [run EXCEPT ![c] = [@ EXCEPT !.at = "rollback", !.seen = active]]
          /\ UNCHANGED fence
       \/ End(c)
    /\ UNCHANGED <<active, journal, starts, running, receipt, runs, faults>>

\* rollback, as far as its first effect: nothing to undo; a restart that was announced
\* is observed and never repeated; or the previous runtime is restored.  A foreign
\* revision, or a previous runtime that cannot be trusted, ends the run.
Reconcile(c) ==
    LET j == run[c].journal
        untouched == j.phase = "prepared" /\ active = Old(j)
        restarted == /\ j.phase = "restarting"
                     /\ active = Restored(j)
                     /\ Healthy(receipt, j, j.previous)
        undo == /\ active \in {Old(j), Target(j), Restored(j)}
                /\ ~(j.phase = "prepared" /\ active = Old(j))
                /\ j.phase # "restarting"
    IN
    /\ run[c].at = "reconcile"
    /\ Checked(c)
    /\ \/ /\ untouched \/ restarted
          /\ run' = [run EXCEPT ![c] = [@ EXCEPT !.at = "rolled-back", !.seen = active]]
          /\ UNCHANGED fence
       \/ /\ undo
          /\ run' = [run EXCEPT ![c] = [@ EXCEPT !.at = "rollback", !.seen = active]]
          /\ UNCHANGED fence
       \/ End(c)
    /\ UNCHANGED <<active, journal, starts, running, receipt, runs, faults>>

\* call: check, then begin the effect.
Begin(c) ==
    /\ run[c].at \in Effects
    /\ ~run[c].calling
    /\ Checked(c)
    /\ run' = [run EXCEPT ![c] = [@ EXCEPT !.calling = TRUE]]
    /\ UNCHANGED <<active, journal, fence, starts, running, receipt, runs, faults>>

\* The check before or after a call fails: quarantined.
CheckFails(c) ==
    /\ run[c].at # "idle"
    /\ ~run[c].calling
    /\ ~Checked(c)
    /\ End(c)
    /\ UNCHANGED <<active, journal, starts, running, receipt, runs, faults>>

\* Every effect enforces the fence at the mutation.
Lands(c, effect) ==
    /\ run[c].at = effect
    /\ run[c].calling
    /\ fence = c

\* The record a write publishes; a launch is announced with the fence's generation.
Written(c, phase) ==
    [run[c].journal EXCEPT !.phase = phase,
        !.generation = IF phase \in {"starting", "restarting"} THEN run[c].generation ELSE @]

After == [prepared |-> "switch", starting |-> "start", rollback |-> "restore",
          restarting |-> "restart"]

\* writeJournal
Write(c, phase) ==
    /\ Lands(c, phase)
    /\ journal' = Written(c, phase)
    /\ IF phase \in Ended
       THEN End(c)
       ELSE /\ run' = [run EXCEPT ![c] = [@ EXCEPT !.journal = Written(c, phase),
                                                  !.at = After[phase], !.calling = FALSE]]
            /\ UNCHANGED fence
    /\ UNCHANGED <<active, starts, running, receipt, runs, faults>>

\* switch: a compare and set from what the run read.
Switch(c) ==
    /\ Lands(c, "switch")
    /\ active = run[c].seen
    /\ active' = Target(run[c].journal)
    /\ Goto(c, "starting")
    /\ UNCHANGED <<journal, fence, starts, running, receipt, runs, faults>>

\* restore: the attempted runtime is quiesced first.
Restore(c) ==
    /\ Lands(c, "restore")
    /\ active = run[c].seen
    /\ active' = Restored(run[c].journal)
    /\ running' = {l \in running : l[1] # run[c].journal.id}
    /\ Goto(c, "restarting")
    /\ UNCHANGED <<journal, fence, starts, receipt, runs, faults>>

Launched(c, phase) ==
    /\ starts' = [starts EXCEPT ![<<run[c].journal.id, phase>>] = @ + 1]
    /\ running' = running \cup {<<run[c].journal.id, phase>>}

Receipt(c, runtime) ==
    [id |-> run[c].journal.id, generation |-> run[c].journal.generation, runtime |-> runtime]

\* start: the runtime is launched, and its health awaited.
StartTarget(c) ==
    /\ Lands(c, "start")
    /\ Launched(c, "starting")
    /\ run' = [run EXCEPT ![c] = [@ EXCEPT !.at = "started"]]
    /\ UNCHANGED <<active, journal, fence, receipt, runs, faults>>

StartPrevious(c) ==
    /\ Lands(c, "restart")
    /\ Launched(c, "restarting")
    /\ run' = [run EXCEPT ![c] = [@ EXCEPT !.at = "restarted"]]
    /\ UNCHANGED <<active, journal, fence, receipt, runs, faults>>

\* The target is healthy; or it is not, or not in time, which rolls back.
TargetSettles(c) ==
    LET own == Receipt(c, run[c].journal.target) IN
    /\ run[c].at = "started"
    /\ \/ receipt' = own /\ Goto(c, "committed")
       \/ receipt' \in {receipt, own} /\ Goto(c, "reconcile")
    /\ UNCHANGED <<active, journal, fence, starts, running, runs, faults>>

\* The previous runtime is healthy, or the run ends quarantined.
PreviousSettles(c) ==
    LET own == Receipt(c, run[c].journal.previous) IN
    /\ run[c].at = "restarted"
    /\ \/ receipt' = own /\ Goto(c, "rolled-back") /\ UNCHANGED fence
       \/ receipt' \in {receipt, own} /\ End(c)
    /\ UNCHANGED <<active, journal, starts, running, runs, faults>>

\* An effect throws without having landed: because the fence is another's, the active
\* revision is not the expected one, or a fault; or a launch throws.  Only the target's
\* launch is answered, by a rollback.  (Another effect that landed and throws is a
\* landing followed by Die.)
Throws(c) ==
    /\ run[c].calling
    /\ \/ fence # c /\ run[c].at \in Effects /\ UNCHANGED faults
       \/ run[c].at \in {"switch", "restore"} /\ active # run[c].seen /\ UNCHANGED faults
       \/ Fault
    /\ IF run[c].at \in {"start", "started"} /\ Checked(c)
       THEN Goto(c, "reconcile") /\ UNCHANGED fence
       ELSE End(c)
    /\ UNCHANGED <<active, journal, starts, running, receipt, runs>>

-----------------------------------------------------------------------------
(* Time and faults. *)

\* The timeout: the caller is told quarantined; the run goes on to its next check.
Expire(c) ==
    /\ run[c].at # "idle"
    /\ ~run[c].expired
    /\ run' = [run EXCEPT ![c] = [@ EXCEPT !.expired = TRUE]]
    /\ UNCHANGED <<active, journal, fence, starts, running, receipt, runs, faults>>

\* The fence is lost.
LoseFence(c) ==
    /\ fence = c
    /\ Fault
    /\ fence' = None
    /\ UNCHANGED <<active, journal, run, starts, running, receipt, runs>>

\* The process dies, or an effect that landed throws.
Die(c) ==
    /\ run[c].at # "idle"
    /\ Fault
    /\ End(c)
    /\ UNCHANGED <<active, journal, starts, running, receipt, runs>>

\* Something else switches the runtime.
Foreign(r) ==
    /\ Fault
    /\ active' = [revision |-> <<faults, "foreign">>, runtime |-> r]
    /\ UNCHANGED <<journal, fence, run, starts, running, receipt, runs>>

Step(c) ==
    \/ ReadJournal(c)
    \/ Judge(c)
    \/ Reconcile(c)
    \/ Begin(c)
    \/ CheckFails(c)
    \/ \E phase \in Writes : Write(c, phase)
    \/ Switch(c)
    \/ Restore(c)
    \/ StartTarget(c)
    \/ StartPrevious(c)
    \/ TargetSettles(c)
    \/ PreviousSettles(c)
    \/ Throws(c)

Next ==
    \/ \E c \in Coordinators :
          \/ \E target \in Runtimes \cup {None} : Acquire(c, target)
          \/ Step(c)
          \/ Expire(c)
          \/ LoseFence(c)
          \/ Die(c)
    \/ \E r \in Runtimes : Foreign(r)

Spec == Init /\ [][Next]_vars

\* Every call settles, and the run goes on.
FairSpec == Spec /\ \A c \in Coordinators : WF_vars(Step(c))

-----------------------------------------------------------------------------

\* The types; a launch belongs to a transaction and a phase that announces one.
TypeOK ==
    /\ active \in Actives
    /\ journal \in Journals
    /\ fence \in Coordinators \cup {None}
    /\ run \in [Coordinators -> Runs]
    /\ starts \in [Launches -> Nat]
    /\ running \subseteq Launches
    /\ receipt \in Receipts
    /\ runs \in 0 .. MaxRuns
    /\ faults \in 0 .. MaxFaults

\* What the journal says was decided is what is active: a committed transaction was not
\* undone and a rolled back one is not switched, although switches and restores of runs
\* that expired, or lost the fence, were under way.
DecisionIsActive ==
    /\ journal.phase = "committed" => active \notin {Old(journal), Restored(journal)}
    /\ journal.phase = "rolled-back" => active # Target(journal)

\* No launch is repeated: start is called at most once for a transaction and phase,
\* across expiry, loss of the fence and death.
StartedOnce == \A l \in Launches : starts[l] <= 1

\* The previous runtime is not launched while the target's launch may still run.
NeverBothRunning ==
    \A id \in 1 .. MaxRuns :
        ~({<<id, "starting">>, <<id, "restarting">>} \subseteq running)

\* A decision rests on a launch of this transaction that proved healthy: committed on
\* the target's, a restored previous runtime on its own, not on a stale receipt.
DecidedAfterLaunch ==
    /\ journal.phase = "committed" => starts[<<journal.id, "starting">>] = 1
    /\ journal.phase = "rolled-back" /\ active = Restored(journal) =>
          starts[<<journal.id, "restarting">>] = 1

\* A transaction begins only when the one before it has ended: the journal of an
\* unfinished one, with which alone it can be undone, is never overwritten.
UnfinishedNotOverwritten ==
    [][journal'.id # journal.id => journal.phase \notin Unfinished]_vars

\* The fence is not kept for ever: every run, expired or not, comes to its end.
RunsSettle == \A c \in Coordinators : fence = c ~> fence # c

\* A decision is what is active, and rests on a launch of its own transaction.
DecisionIsSound == DecisionIsActive /\ DecidedAfterLaunch
=============================================================================
