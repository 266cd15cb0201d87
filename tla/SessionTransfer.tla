--------------------------- MODULE SessionTransfer ---------------------------
(***************************************************************************)
(* Moving one session between machines: the source daemon's transfer       *)
(* lifecycle, the target daemon's journal and ownership row, and the calls *)
(* between them (apps/daemon/src/server.ts, session-transfer-source.ts,    *)
(* session-transfer-target.ts, transfer-ownership.ts, transfer-conflicts.ts).*)
(*                                                                         *)
(* A machine keeps at most one record of the session: in memory (mem) and  *)
(* in its store (disk).  A transfer is one move: an id, fixed once its      *)
(* source froze the session.  Its package is a journal entry at the source *)
(* (outgoing) and a journal entry at the target (journal); what the target  *)
(* has durably accepted is a row of transfer_ownership (row), written in    *)
(* one SQLite transaction with the imported session.                        *)
(*                                                                         *)
(* Every handler for the session runs in its slot of the mutation queue, so *)
(* a machine performs one operation on it at a time (op); the target's      *)
(* handlers are serialised per transfer.  An operation awaits one call at a *)
(* time.  Lose stands for a timeout, a refused or broken connection or an   *)
(* error response; the request may still be in the target's hands.          *)
(*                                                                         *)
(* The lines of a package, its chunks and digests are TransferJournal's.    *)
(* holder is a history variable: the machine the session was last handed to.*)
(***************************************************************************)
EXTENDS Naturals, FiniteSets

CONSTANTS
    Machines,
    Transfers,
    Origin,         \* the machine the session was created on
    NoMachine,
    NoTransfer,
    LateDelivery,   \* may a request outlive the connection it was sent on?
    MaxFaults       \* bound: lost calls, failed writes, restarts and lost projects

ASSUME TransferAssumption ==
    /\ Origin \in Machines
    /\ NoMachine \notin Machines
    /\ NoTransfer \notin Transfers
    /\ LateDelivery \in BOOLEAN
    /\ MaxFaults \in Nat

VARIABLES
    mem,        \* per machine: the session in #snapshot
    disk,       \* per machine: the session in the store
    proofs,     \* per machine: its rows of transfer_conflicts
    project,    \* per machine: is the session's project open and its folder there?
    op,         \* per machine: the operation in the session's queue slot
    armed,      \* per machine: is a reconciliation scheduled?
    source,     \* per transfer: sourceMachineId of its manifest
    target,     \* per transfer: targetMachineId of its manifest
    fromGen,    \* per transfer: ownership.fromGeneration of its manifest
    outgoing,   \* per transfer: is the package in the source's journal?
    journal,    \* per transfer: its status in the target's journal
    row,        \* per transfer: is it in the target's transfer_ownership?
    work,       \* per transfer: the target's commit in progress
    late,       \* requests whose caller no longer waits
    holder,     \* history: the machine last handed the session
    faults      \* how many faults happened

machineVars == <<mem, disk, proofs, op, armed>>
manifestVars == <<source, target, fromGen>>
targetVars == <<journal, row, work>>
vars == <<mem, disk, proofs, project, op, armed, source, target, fromGen, outgoing,
          journal, row, work, late, holder, faults>>

-----------------------------------------------------------------------------

SessionStates == {"absent", "live", "preparing", "staged", "transferred", "conflict"}

\* "absent" stands for the unknown status: no journal entry.
JournalStates == {"absent", "receiving", "prepared", "recovering", "failed",
                  "committed", "aborted"}

Methods == {"status", "prepare", "member", "commit", "abort"}

\* What a call brings back.  "existing" is the refusal that reports a session
\* already at the target; "error" is everything that is not a result.
Replies == JournalStates \cup {"refused", "existing", "error"}

MaybeTransfer == Transfers \cup {NoTransfer}

Absent == [state |-> "absent", gen |-> 0, transfer |-> NoTransfer, unconfirmed |-> FALSE,
           claim |-> NoTransfer, other |-> 0, from |-> NoTransfer]

\* sessionTransferState's import: a session of its own, at the next generation.
Imported(g, t) == [Absent EXCEPT !.state = "live", !.gen = g, !.from = t]

Idle == [kind |-> "none", call |-> "status", wait |-> "none", reply |-> "error",
         existing |-> 0, transfer |-> NoTransfer, peer |-> NoMachine]

Sessions == [state : SessionStates, gen : Nat, transfer : MaybeTransfer,
             unconfirmed : BOOLEAN, claim : MaybeTransfer, other : Nat, from : MaybeTransfer]

Ops == [kind : {"none", "preview", "send", "recover", "claim", "check"},
        call : Methods, wait : {"none", "sent", "working", "answered"}, reply : Replies,
        existing : Nat, transfer : MaybeTransfer, peer : Machines \cup {NoMachine}]

Proofs == [transfer : Transfers, kind : {"recovery-contradicted", "target-session-detected"},
           gen : Nat, other : Nat]

Frozen(s) == s.state \in {"preparing", "staged"}

\* Mutant: a recovered source is not pending.
MutantUnsettledFrozen(s) == Frozen(s)

\* Sessions #armTransferReconciliation counts as pending.
Unsettled(s) == Frozen(s) \/ (s.state = "live" /\ s.claim # NoTransfer)

Init ==
    /\ mem = [m \in Machines |-> IF m = Origin THEN Imported(0, NoTransfer) ELSE Absent]
    /\ disk = mem
    /\ proofs = [m \in Machines |-> {}]
    /\ project = [m \in Machines |-> TRUE]
    /\ op = [m \in Machines |-> Idle]
    /\ armed = [m \in Machines |-> FALSE]
    /\ source = [t \in Transfers |-> NoMachine]
    /\ target = [t \in Transfers |-> NoMachine]
    /\ fromGen = [t \in Transfers |-> 0]
    /\ outgoing = [t \in Transfers |-> FALSE]
    /\ journal = [t \in Transfers |-> "absent"]
    /\ row = [t \in Transfers |-> FALSE]
    /\ work = [t \in Transfers |-> "none"]
    /\ late = {}
    /\ holder = Origin
    /\ faults = 0

-----------------------------------------------------------------------------
(* Steps the handlers share. *)

\* #persistTransferSnapshot: the store first, then memory.
Persist(m, s) ==
    /\ mem' = [mem EXCEPT ![m] = s]
    /\ disk' = [disk EXCEPT ![m] = s]

\* Mutant: an incomplete send schedules no recovery.
MutantEndOpSchedulesNothing(m, s, incomplete) ==
    /\ op' = [op EXCEPT ![m] = Idle]
    /\ armed' = [armed EXCEPT ![m] =
                    IF op[m].kind \in {"recover", "check"} THEN Unsettled(s) ELSE armed[m]]

\* The operation ends.  The finally of a recovery or of a check re-arms the timer
\* while the session is unsettled; an incomplete send schedules a recovery.
EndOp(m, s, incomplete) ==
    /\ op' = [op EXCEPT ![m] = Idle]
    /\ armed' = [armed EXCEPT ![m] =
                    CASE op[m].kind \in {"recover", "check"} -> Unsettled(s)
                      [] op[m].kind = "send" -> armed[m] \/ incomplete
                      [] OTHER -> armed[m]]

\* The operation sends its next request.
Call(m, method) ==
    op' = [op EXCEPT ![m] = [@ EXCEPT !.call = method, !.wait = "sent", !.reply = "error"]]

Begin(m, kind, t) ==
    op' = [op EXCEPT ![m] = [Idle EXCEPT !.kind = kind, !.wait = "sent", !.transfer = t]]

Answered(m, kinds, calls, replies) ==
    /\ op[m].wait = "answered"
    /\ op[m].kind \in kinds
    /\ op[m].call \in calls
    /\ op[m].reply \in replies

Fault ==
    /\ faults < MaxFaults
    /\ faults' = faults + 1

\* thawSourceSessionTransfer
Thawed(s) == [s EXCEPT !.state = "live", !.transfer = NoTransfer, !.unconfirmed = FALSE]

\* clearSourceTransferReconciliation
Confirmed(s) == [s EXCEPT !.unconfirmed = FALSE]

-----------------------------------------------------------------------------
(* session.transfer at the source. *)

\* #prepareTransferPreview: sourcePreflight here, transfer.preflight there.
Preview(m, n) ==
    /\ op[m].kind = "none"
    /\ mem[m].state = "live"
    /\ mem[m].claim = NoTransfer
    /\ n # m
    /\ mem[n].state = "absent"
    /\ project[n]
    /\ op' = [op EXCEPT ![m] = [Idle EXCEPT !.kind = "preview", !.peer = n]]
    /\ UNCHANGED <<mem, disk, proofs, project, armed, manifestVars, outgoing, targetVars,
                   late, holder, faults>>

\* freezeSourceSessionTransfer, made durable before anything else happens.
Freeze(m, t) ==
    /\ op[m].kind = "preview"
    /\ source[t] = NoMachine
    /\ source' = [source EXCEPT ![t] = m]
    /\ target' = [target EXCEPT ![t] = op[m].peer]
    /\ fromGen' = [fromGen EXCEPT ![t] = mem[m].gen]
    /\ Persist(m, [mem[m] EXCEPT !.state = "preparing", !.transfer = t])
    /\ op' = [op EXCEPT ![m] = [Idle EXCEPT !.kind = "send", !.transfer = t]]
    /\ UNCHANGED <<proofs, project, armed, outgoing, targetVars, late, holder, faults>>

\* stageOutgoingSessionTransferPackage: the package reaches the journal.
WritePackage(m) ==
    /\ op[m].kind = "send"
    /\ op[m].wait = "none"
    /\ mem[m].state = "preparing"
    /\ ~outgoing[op[m].transfer]
    /\ outgoing' = [outgoing EXCEPT ![op[m].transfer] = TRUE]
    /\ UNCHANGED <<machineVars, project, manifestVars, targetVars, late, holder, faults>>

\* stageSourceSessionCheckpoint: from here the target may be contacted.
RecordStaged(m) ==
    /\ op[m].kind = "send"
    /\ op[m].wait = "none"
    /\ mem[m].state = "preparing"
    /\ outgoing[op[m].transfer]
    /\ Persist(m, [mem[m] EXCEPT !.state = "staged"])
    /\ UNCHANGED <<proofs, project, op, armed, manifestVars, outgoing, targetVars, late,
                   holder, faults>>

\* Mutant: the target is contacted before the staged digest is durable.
MutantDeliverEarly(m) ==
    /\ op[m].kind = "send"
    /\ op[m].wait = "none"
    /\ outgoing[op[m].transfer]
    /\ Call(m, "status")
    /\ UNCHANGED <<mem, disk, proofs, project, armed, manifestVars, outgoing, targetVars,
                   late, holder, faults>>

\* The connection is open: targetDeliveryStarted, and the first call.
Deliver(m) ==
    /\ op[m].kind = "send"
    /\ op[m].wait = "none"
    /\ mem[m].state = "staged"
    /\ Call(m, "status")
    /\ UNCHANGED <<mem, disk, proofs, project, armed, manifestVars, outgoing, targetVars,
                   late, holder, faults>>

\* The catch of #sendVersionedSessionTransfer before delivery started: a failed
\* checkpoint, package, write or connection.  The session thaws and its package
\* goes; or the write of the thaw fails too and the session stays frozen.
AbandonSend(m) ==
    /\ op[m].kind = "send"
    /\ op[m].wait = "none"
    /\ Fault
    /\ \/ /\ Persist(m, Thawed(mem[m]))
          /\ outgoing' = [outgoing EXCEPT ![op[m].transfer] = FALSE]
       \/ UNCHANGED <<mem, disk, outgoing>>
    /\ EndOp(m, mem'[m], FALSE)
    /\ UNCHANGED <<proofs, project, manifestVars, targetVars, late, holder>>

-----------------------------------------------------------------------------
(* The network, and the target's handlers. *)

\* The caller stops waiting and sees an error.  A request on its way is lost with
\* its connection unless LateDelivery; one the target works on is worked on.
Lose(m) ==
    /\ op[m].wait \in {"sent", "working", "answered"}
    /\ op[m].reply # "error" \/ op[m].wait # "answered"
    /\ Fault
    /\ op' = [op EXCEPT ![m] = [@ EXCEPT !.wait = "answered", !.reply = "error"]]
    /\ late' = IF LateDelivery /\ op[m].wait = "sent"
               THEN late \cup {<<op[m].transfer, op[m].call>>}
               ELSE late
    /\ UNCHANGED <<mem, disk, proofs, project, armed, manifestVars, outgoing, targetVars, holder>>

\* The deadline of a call that nobody works on any more: its target restarted.
TimeOut(m) ==
    /\ op[m].wait = "working"
    /\ work[op[m].transfer] = "none"
    /\ op' = [op EXCEPT ![m] = [@ EXCEPT !.wait = "answered", !.reply = "error"]]
    /\ UNCHANGED <<mem, disk, proofs, project, armed, manifestVars, outgoing, targetVars,
                   late, holder, faults>>

\* A request for transfer t is at the head of the target's queue for t: the one
\* its source waits for, or one whose connection is gone.
Asked(t, method, gone) ==
    /\ source[t] # NoMachine
    /\ work[t] = "none"
    /\ IF gone THEN <<t, method>> \in late
       ELSE LET o == op[source[t]] IN
            o.wait = "sent" /\ o.call = method /\ o.transfer = t

\* The response, if anyone waits for it.  The refusal that reports a session of the
\* target's own carries its generation (existingGeneration).
Respond(t, method, gone, r) ==
    IF gone
    THEN /\ late' = late \ {<<t, method>>}
         /\ UNCHANGED op
    ELSE /\ op' = [op EXCEPT ![source[t]] =
                      [@ EXCEPT !.wait = "answered", !.reply = r,
                                !.existing = IF r = "existing" THEN mem[target[t]].gen ELSE 0]]
         /\ UNCHANGED late

\* A handler that finds the ownership row answers from it and removes the journal
\* entry; any other answer is r and leaves the entry in state j.
Answer(t, method, gone, r, j) ==
    /\ Respond(t, method, gone, IF row[t] THEN "committed" ELSE r)
    /\ journal' = [journal EXCEPT ![t] = IF row[t] THEN "absent" ELSE j]

\* transfer.status
ServeStatus(t, gone) ==
    /\ Asked(t, "status", gone)
    /\ Answer(t, "status", gone,
              IF journal[t] = "absent" /\ mem[target[t]].from = t
                 /\ mem[target[t]].gen = fromGen[t] + 1
              THEN "committed" ELSE journal[t],
              journal[t])
    /\ UNCHANGED <<mem, disk, proofs, project, armed, manifestVars, outgoing, row, work,
                   holder, faults>>

\* transfer.prepare: preflight, then the journal.  An entry whose members have all
\* arrived is prepared, whatever its status file says.
ServePrepare(t, gone) ==
    /\ Asked(t, "prepare", gone)
    /\ \/ /\ mem[target[t]].state # "absent"
          /\ Answer(t, "prepare", gone, "existing", journal[t])
       \/ /\ mem[target[t]].state = "absent"
          /\ ~project[target[t]] \/ journal[t] \in {"aborted", "recovering", "failed"}
          /\ Answer(t, "prepare", gone, "refused", journal[t])
       \/ /\ mem[target[t]].state = "absent"
          /\ project[target[t]]
          /\ journal[t] \in {"absent", "receiving"}
          /\ Answer(t, "prepare", gone, "receiving", "receiving")
       \/ /\ mem[target[t]].state = "absent"
          /\ project[target[t]]
          /\ journal[t] \in {"receiving", "prepared", "committed"}
          /\ LET j == IF journal[t] = "committed" THEN "committed" ELSE "prepared" IN
             Answer(t, "prepare", gone, j, j)
    /\ UNCHANGED <<mem, disk, proofs, project, armed, manifestVars, outgoing, row, work,
                   holder, faults>>

\* The transfer.member calls of a package, as one: the last of them completes it,
\* or one of them is refused.
ServeMembers(t, gone) ==
    /\ Asked(t, "member", gone)
    /\ \/ /\ journal[t] \in {"receiving", "prepared"}
          /\ Respond(t, "member", gone, "prepared")
          /\ journal' = [journal EXCEPT ![t] = "prepared"]
       \/ /\ journal[t] # "prepared"
          /\ Respond(t, "member", gone, "refused")
          /\ UNCHANGED journal
    /\ UNCHANGED <<mem, disk, proofs, project, armed, manifestVars, outgoing, row, work,
                   holder, faults>>

\* transfer.abort
ServeAbort(t, gone) ==
    /\ Asked(t, "abort", gone)
    /\ Answer(t, "abort", gone,
              CASE journal[t] = "absent" -> "error"
                [] journal[t] = "committed" -> "committed"
                [] OTHER -> "aborted",
              IF journal[t] \in {"absent", "committed"} THEN journal[t] ELSE "aborted")
    /\ UNCHANGED <<mem, disk, proofs, project, armed, manifestVars, outgoing, row, work,
                   holder, faults>>

\* commitPreparedSessionTransfer reaches its try: nothing answers or refuses.
CommitProceeds(t) ==
    /\ ~row[t]
    /\ journal[t] \in {"prepared", "recovering", "failed"}
    /\ project[target[t]]
    /\ mem[target[t]].state = "absent"

\* transfer.commit, answered from what the target knows already.
ServeCommit(t, gone) ==
    /\ Asked(t, "commit", gone)
    /\ ~CommitProceeds(t)
    /\ LET arrived == mem[target[t]].from = t /\ journal[t] \in {"prepared", "recovering", "failed"}
           r == CASE journal[t] = "absent" -> "error"
                  [] journal[t] = "committed" -> "committed"
                  [] journal[t] \in {"receiving", "aborted"} -> "refused"
                  [] ~project[target[t]] -> "refused"
                  [] arrived -> "committed"
                  [] OTHER -> "existing"
       IN Answer(t, "commit", gone, r, IF r = "committed" THEN "absent" ELSE journal[t])
    /\ UNCHANGED <<mem, disk, proofs, project, armed, manifestVars, outgoing, row, work,
                   holder, faults>>

\* transfer.commit, up to the restore: markRecovering.
BeginCommit(t, gone) ==
    /\ Asked(t, "commit", gone)
    /\ CommitProceeds(t)
    /\ journal' = [journal EXCEPT ![t] = "recovering"]
    /\ work' = [work EXCEPT ![t] = "restoring"]
    /\ IF gone
       THEN late' = late \ {<<t, "commit">>} /\ UNCHANGED op
       ELSE op' = [op EXCEPT ![source[t]].wait = "working"] /\ UNCHANGED late
    /\ UNCHANGED <<mem, disk, proofs, project, armed, manifestVars, outgoing, row, holder, faults>>

\* The response of a commit that ran, to the caller if it still waits.
CommitResponds(t, r) ==
    op' = IF op[source[t]].wait = "working" /\ op[source[t]].transfer = t
          THEN [op EXCEPT ![source[t]] = [@ EXCEPT !.wait = "answered", !.reply = r]]
          ELSE op

\* The restore or a write fails, or the live snapshot no longer allows the import:
\* markFailed, which may fail as well, and an error response.
FailCommit(t) ==
    /\ work[t] = "restoring"
    /\ \/ Fault
       \/ /\ ~project[target[t]] \/ mem[target[t]].state # "absent"
          /\ UNCHANGED faults
    /\ work' = [work EXCEPT ![t] = "none"]
    /\ \/ journal' = [journal EXCEPT ![t] = "failed"]
       \/ UNCHANGED journal
    /\ CommitResponds(t, "error")
    /\ UNCHANGED <<mem, disk, proofs, project, armed, manifestVars, outgoing, row, late, holder>>

\* Mutant: save trusts the snapshot the handler started from.
MutantSaveUnchecked(t) ==
    /\ work[t] = "restoring"
    /\ project[target[t]]
    /\ Persist(target[t], Imported(fromGen[t] + 1, t))
    /\ row' = [row EXCEPT ![t] = TRUE]
    /\ work' = [work EXCEPT ![t] = "saved"]
    /\ holder' = target[t]
    /\ UNCHANGED <<proofs, project, op, armed, manifestVars, outgoing, journal, late, faults>>

\* save: the imported session and the ownership row, in one transaction, against
\* the live snapshot rather than the one the handler started from.
SaveCommit(t) ==
    /\ work[t] = "restoring"
    /\ project[target[t]]
    /\ mem[target[t]].state = "absent"
    /\ Persist(target[t], Imported(fromGen[t] + 1, t))
    /\ row' = [row EXCEPT ![t] = TRUE]
    /\ work' = [work EXCEPT ![t] = "saved"]
    /\ holder' = target[t]
    /\ UNCHANGED <<proofs, project, op, armed, manifestVars, outgoing, journal, late, faults>>

\* markCommitted and the removal of the journal entry; either may fail, after
\* which the ownership row answers for the journal.
FinishCommit(t) ==
    /\ work[t] = "saved"
    /\ work' = [work EXCEPT ![t] = "none"]
    /\ \/ /\ journal' = [journal EXCEPT ![t] = "absent"]
          /\ CommitResponds(t, "committed")
          /\ UNCHANGED faults
       \/ /\ Fault
          /\ journal' = [journal EXCEPT ![t] = "committed"]
          /\ CommitResponds(t, "committed")
       \/ /\ Fault
          /\ \/ journal' = [journal EXCEPT ![t] = "failed"]
             \/ UNCHANGED journal
          /\ CommitResponds(t, "error")
    /\ UNCHANGED <<mem, disk, proofs, project, armed, manifestVars, outgoing, row, late, holder>>

-----------------------------------------------------------------------------
(* What the source makes of an answer. *)

\* #completeVersionedSourceTransfer
OnCommitted(m) ==
    /\ Answered(m, {"send", "recover", "claim"}, Methods, {"committed"})
    /\ Persist(m, [mem[m] EXCEPT !.state = "transferred", !.gen = mem[m].gen + 1,
                                 !.unconfirmed = FALSE])
    /\ outgoing' = [outgoing EXCEPT ![op[m].transfer] = FALSE]
    /\ EndOp(m, mem'[m], FALSE)
    /\ UNCHANGED <<proofs, project, manifestVars, targetVars, late, holder, faults>>

\* Mutant: a commit that brought no answer is taken for a refusal.
MutantReleasesUnanswered(m) ==
    \/ Answered(m, {"send", "recover"}, {"status", "abort"}, {"aborted"})
    \/ Answered(m, {"send", "recover"}, {"prepare", "member", "commit"}, {"refused", "error"})
    \/ Answered(m, {"recover"}, {"status"}, {"absent"}) /\ ~outgoing[op[m].transfer]
    \/ Answered(m, {"claim"}, {"status"}, {"absent"})

\* The answers after which the target cannot own the session: the source thaws
\* (#thawVersionedSourceTransfer) and drops its package.
Releases(m) ==
    \/ Answered(m, {"send", "recover"}, {"status", "abort"}, {"aborted"})
    \/ Answered(m, {"send", "recover"}, {"prepare", "member", "commit"}, {"refused"})
    \/ Answered(m, {"recover"}, {"status"}, {"absent"}) /\ ~outgoing[op[m].transfer]
    \/ Answered(m, {"claim"}, {"status"}, {"absent"})

OnReleased(m) ==
    /\ Releases(m)
    /\ Persist(m, Thawed(mem[m]))
    /\ outgoing' = [outgoing EXCEPT ![op[m].transfer] = FALSE]
    /\ EndOp(m, mem'[m], FALSE)
    /\ UNCHANGED <<proofs, project, manifestVars, targetVars, late, holder, faults>>

\* sendPreparedSessionTransfer's next call.
SendNext(m) ==
    /\ \/ /\ Answered(m, {"send"}, {"status"}, {"absent", "receiving", "prepared"})
          /\ Call(m, "prepare")
       \/ /\ Answered(m, {"send"}, {"prepare"}, {"receiving"})
          /\ Call(m, "member")
       \/ /\ Answered(m, {"send"}, {"prepare", "member"}, {"prepared"})
          /\ Call(m, "commit")
    /\ UNCHANGED <<mem, disk, proofs, project, armed, manifestVars, outgoing, targetVars,
                   late, holder, faults>>

\* The send ends incomplete: nothing is known that would thaw or complete it.
SendIncomplete(m) ==
    /\ \/ Answered(m, {"send"}, {"status"}, {"recovering", "failed"})
       \/ Answered(m, {"send"}, Methods, {"error"})
    /\ EndOp(m, mem[m], TRUE)
    /\ UNCHANGED <<mem, disk, proofs, project, manifestVars, outgoing, targetVars, late,
                   holder, faults>>

\* A write of the answer's outcome fails, or emergency stop ends the operation:
\* the session stays as it is.
Interrupt(m) ==
    /\ op[m].kind \in {"preview", "send", "recover", "claim", "check"}
    /\ op[m].kind = "send" => op[m].wait # "none"
    /\ Fault
    /\ EndOp(m, mem[m], TRUE)
    /\ late' = IF LateDelivery /\ op[m].wait = "sent"
               THEN late \cup {<<op[m].transfer, op[m].call>>}
               ELSE late
    /\ UNCHANGED <<mem, disk, proofs, project, manifestVars, outgoing, targetVars, holder>>

-----------------------------------------------------------------------------
(* Ownership conflicts. *)

\* The record of a detected conflict: memory first, then the proof, then the
\* snapshot.  The last two may fail one by one.
Conflicted(s, t, other) ==
    [s EXCEPT !.state = "conflict", !.transfer = t, !.other = other, !.unconfirmed = FALSE]

RecordConflict(m, t, other, kind, proved, saved) ==
    LET s == Conflicted(mem[m], t, other) IN
    /\ mem' = [mem EXCEPT ![m] = s]
    /\ proofs' = [proofs EXCEPT ![m] =
                     IF proved
                     THEN @ \cup {[transfer |-> t, kind |-> kind, gen |-> s.gen, other |-> other]}
                     ELSE @]
    /\ disk' = IF saved THEN [disk EXCEPT ![m] = s] ELSE disk
    /\ IF proved /\ saved THEN UNCHANGED faults ELSE Fault

\* #freezeTargetOwnershipConflict: the target reported a session of its own.
OnExisting(m, proved, saved) ==
    /\ Answered(m, {"send", "recover"}, {"prepare", "commit"}, {"existing"})
    /\ RecordConflict(m, op[m].transfer, op[m].existing,
                      "target-session-detected", proved, saved)
    /\ outgoing' = [outgoing EXCEPT ![op[m].transfer] = ~(proved \/ saved)]
    /\ EndOp(m, mem'[m], FALSE)
    /\ UNCHANGED <<project, manifestVars, targetVars, late, holder>>

\* session.transferResolveConflict: a person keeps the target's copy.
ResolveConflict(m) ==
    /\ op[m].kind = "none"
    /\ mem[m].state = "conflict"
    /\ Persist(m, [mem[m] EXCEPT !.state = "transferred", !.gen = mem[m].other,
                                 !.claim = NoTransfer])
    /\ outgoing' = [outgoing EXCEPT ![mem[m].transfer] = FALSE]
    /\ UNCHANGED <<proofs, project, op, armed, manifestVars, targetVars, late, holder, faults>>

\* Any later save of the snapshot writes what is in memory.
SaveSnapshot(m) ==
    /\ disk[m] # mem[m]
    /\ disk' = [disk EXCEPT ![m] = mem[m]]
    /\ UNCHANGED <<mem, proofs, project, op, armed, manifestVars, outgoing, targetVars, late,
                   holder, faults>>

-----------------------------------------------------------------------------
(* Reconciliation: the timer, the recovery of a frozen source, the check of a
   recovered one, and a person's decision to recover. *)

\* #recoverSessionTransfer in preparing: no target was contacted, so thaw.
RecoverPreparing(m) ==
    /\ armed[m]
    /\ op[m].kind = "none"
    /\ mem[m].state = "preparing"
    /\ Persist(m, Thawed(mem[m]))
    /\ armed' = [armed EXCEPT ![m] = FALSE]
    /\ UNCHANGED <<proofs, project, op, manifestVars, outgoing, targetVars, late, holder, faults>>

\* #recoverSessionTransfer in staged: ask the target.
BeginRecovery(m) ==
    /\ armed[m]
    /\ op[m].kind = "none"
    /\ mem[m].state = "staged"
    /\ Begin(m, "recover", mem[m].transfer)
    /\ UNCHANGED <<mem, disk, proofs, project, armed, manifestVars, outgoing, targetVars,
                   late, holder, faults>>

\* No answer is no evidence: markSourceTransferReconciliationFailure.
RecoverUnconfirmed(m) ==
    /\ Answered(m, {"recover"}, {"status"}, {"error"})
    /\ Persist(m, [mem[m] EXCEPT !.unconfirmed = TRUE])
    /\ EndOp(m, mem'[m], FALSE)
    /\ UNCHANGED <<proofs, project, manifestVars, outgoing, targetVars, late, holder, faults>>

\* The target was interrupted in its commit: ask it to commit again.
RecoverRetries(m) ==
    /\ Answered(m, {"recover"}, {"status"}, {"recovering", "failed"})
    /\ Persist(m, Confirmed(mem[m]))
    /\ Call(m, "commit")
    /\ UNCHANGED <<proofs, project, armed, manifestVars, outgoing, targetVars, late, holder, faults>>

\* The package is gone from here but not from there: abort it there.
RecoverAborts(m) ==
    /\ Answered(m, {"recover"}, {"status"}, {"receiving", "prepared"})
    /\ ~outgoing[op[m].transfer]
    /\ Persist(m, Confirmed(mem[m]))
    /\ Call(m, "abort")
    /\ UNCHANGED <<proofs, project, armed, manifestVars, outgoing, targetVars, late, holder, faults>>

\* The package is here: send it again.  The code returns the promise of the send
\* from a try whose finally closes the connection, so the close precedes the
\* answer to the first call, the send ends "unknown" and nothing comes of it.
RecoverResumes(m) ==
    /\ Answered(m, {"recover"}, {"status"}, {"absent", "receiving", "prepared"})
    /\ outgoing[op[m].transfer]
    /\ Persist(m, Confirmed(mem[m]))
    /\ EndOp(m, mem'[m], FALSE)
    /\ UNCHANGED <<proofs, project, manifestVars, outgoing, targetVars, late, holder, faults>>

\* The retried commit or the abort brought no result.
RecoverEnds(m) ==
    /\ Answered(m, {"recover"}, {"commit", "abort"}, {"error"})
    /\ EndOp(m, mem[m], FALSE)
    /\ UNCHANGED <<mem, disk, proofs, project, manifestVars, outgoing, targetVars, late,
                   holder, faults>>

\* session.transferRecoverSource: only while ownership is unconfirmed.
BeginClaim(m) ==
    /\ op[m].kind = "none"
    /\ mem[m].state = "staged"
    /\ mem[m].unconfirmed
    /\ Begin(m, "claim", mem[m].transfer)
    /\ UNCHANGED <<mem, disk, proofs, project, armed, manifestVars, outgoing, targetVars,
                   late, holder, faults>>

\* Mutant: the recovered session does not remember the claim.
MutantClaimForgotten(m) ==
    /\ Answered(m, {"claim"}, {"status"}, {"error"})
    /\ Persist(m, Thawed(mem[m]))
    /\ outgoing' = [outgoing EXCEPT ![op[m].transfer] = FALSE]
    /\ EndOp(m, mem'[m], FALSE)
    /\ UNCHANGED <<proofs, project, manifestVars, targetVars, late, holder, faults>>

\* The target did not answer: recoverUnconfirmedSourceTransfer, on the person's word.
ClaimSource(m) ==
    /\ Answered(m, {"claim"}, {"status"}, {"error"})
    /\ Persist(m, [Thawed(mem[m]) EXCEPT !.claim = op[m].transfer])
    /\ outgoing' = [outgoing EXCEPT ![op[m].transfer] = FALSE]
    /\ EndOp(m, mem'[m], FALSE)
    /\ UNCHANGED <<proofs, project, manifestVars, targetVars, late, holder, faults>>

\* The target answered and still holds transfer state: refused.
ClaimRefused(m) ==
    /\ Answered(m, {"claim"}, {"status"},
                {"receiving", "prepared", "recovering", "failed", "aborted"})
    /\ Persist(m, Confirmed(mem[m]))
    /\ EndOp(m, mem'[m], FALSE)
    /\ UNCHANGED <<proofs, project, manifestVars, outgoing, targetVars, late, holder, faults>>

\* #checkRecoveredSourceOwnership: ask the target about the claim.
BeginCheck(m) ==
    /\ armed[m]
    /\ op[m].kind = "none"
    /\ mem[m].state = "live"
    /\ mem[m].claim # NoTransfer
    /\ Begin(m, "check", mem[m].claim)
    /\ UNCHANGED <<mem, disk, proofs, project, armed, manifestVars, outgoing, targetVars,
                   late, holder, faults>>

\* Mutant: any answer of the target clears the claim.
MutantCheckClearsAny(m) ==
    /\ Answered(m, {"check"}, {"status"}, JournalStates)
    /\ Persist(m, [mem[m] EXCEPT !.claim = NoTransfer])
    /\ EndOp(m, mem'[m], FALSE)
    /\ UNCHANGED <<proofs, project, manifestVars, outgoing, targetVars, late, holder, faults>>

\* clearConfirmedSourceRecovery
CheckClears(m) ==
    /\ Answered(m, {"check"}, {"status"}, {"absent", "aborted"})
    /\ Persist(m, [mem[m] EXCEPT !.claim = NoTransfer])
    /\ EndOp(m, mem'[m], FALSE)
    /\ UNCHANGED <<proofs, project, manifestVars, outgoing, targetVars, late, holder, faults>>

Contradicted(m) ==
    /\ Answered(m, {"check"}, {"status"}, {"committed"})
    /\ fromGen[op[m].transfer] + 1 > mem[m].gen

\* markSourceOwnershipConflict: the claim was wrong, so this machine stops.
CheckContradicts(m, proved, saved) ==
    /\ Contradicted(m)
    /\ RecordConflict(m, op[m].transfer, fromGen[op[m].transfer] + 1,
                      "recovery-contradicted", proved, saved)
    /\ EndOp(m, mem'[m], FALSE)
    /\ UNCHANGED <<project, manifestVars, outgoing, targetVars, late, holder>>

CheckInconclusive(m) ==
    /\ Answered(m, {"check"}, {"status"}, Replies \ {"absent", "aborted"})
    /\ ~Contradicted(m)
    /\ EndOp(m, mem[m], FALSE)
    /\ UNCHANGED <<mem, disk, proofs, project, manifestVars, outgoing, targetVars, late,
                   holder, faults>>

\* The timer fires and finds nothing to do.
TimerLapses(m) ==
    /\ armed[m]
    /\ op[m].kind = "none"
    /\ ~Unsettled(mem[m])
    /\ armed' = [armed EXCEPT ![m] = FALSE]
    /\ UNCHANGED <<mem, disk, proofs, project, op, manifestVars, outgoing, targetVars, late,
                   holder, faults>>

-----------------------------------------------------------------------------
(* The environment: restarts and projects. *)

\* Mutant: only a contradicted recovery is replayed.
MutantReplaysRecoveryOnly(p, s) ==
    /\ s.gen = p.gen
    /\ p.kind = "recovery-contradicted"
    /\ s.claim = p.transfer

\* restoreDetectedConflict: does proof p freeze the stored session s again?
Replays(p, s) ==
    /\ s.gen = p.gen
    /\ IF p.kind = "recovery-contradicted"
       THEN s.claim = p.transfer
       ELSE s.state = "staged" /\ s.transfer = p.transfer

\* The session a starting daemon loads.
Restored(m) ==
    LET replayed == {p \in proofs[m] : disk[m].state # "conflict" /\ Replays(p, disk[m])} IN
    IF replayed = {} THEN disk[m]
    ELSE LET p == CHOOSE p \in replayed : TRUE IN Conflicted(disk[m], p.transfer, p.other)

\* The daemon of m dies and starts: memory and operations are gone, the journal
\* entries in expired are pruned, and recovery is scheduled.
Restart(m, expired) ==
    /\ Fault
    /\ mem' = [mem EXCEPT ![m] = Restored(m)]
    /\ op' = [op EXCEPT ![m] = Idle]
    /\ armed' = [armed EXCEPT ![m] = TRUE]
    /\ work' = [t \in Transfers |-> IF target[t] = m THEN "none" ELSE work[t]]
    /\ outgoing' = [t \in Transfers |-> outgoing[t] /\ ~(source[t] = m /\ t \in expired)]
    /\ journal' = [t \in Transfers |->
                      IF target[t] = m /\ t \in expired THEN "absent" ELSE journal[t]]
    /\ late' = IF LateDelivery /\ op[m].wait = "sent"
               THEN late \cup {<<op[m].transfer, op[m].call>>}
               ELSE late
    /\ UNCHANGED <<disk, proofs, project, manifestVars, row, holder>>

\* The project's folder on a machine goes away or comes back (unavailableReason).
ToggleProject(m) ==
    /\ project' = [project EXCEPT ![m] = ~@]
    /\ IF project[m] THEN Fault ELSE UNCHANGED faults
    /\ UNCHANGED <<machineVars, manifestVars, outgoing, targetVars, late, holder>>

-----------------------------------------------------------------------------

SourceStep(m) ==
    \/ WritePackage(m)
    \/ RecordStaged(m)
    \/ Deliver(m)
    \/ TimeOut(m)
    \/ OnCommitted(m)
    \/ OnReleased(m)
    \/ SendNext(m)
    \/ SendIncomplete(m)
    \/ \E proved, saved \in BOOLEAN : OnExisting(m, proved, saved)
    \/ RecoverPreparing(m)
    \/ BeginRecovery(m)
    \/ RecoverUnconfirmed(m)
    \/ RecoverRetries(m)
    \/ RecoverAborts(m)
    \/ RecoverResumes(m)
    \/ RecoverEnds(m)
    \/ ClaimSource(m)
    \/ ClaimRefused(m)
    \/ BeginCheck(m)
    \/ CheckClears(m)
    \/ \E proved, saved \in BOOLEAN : CheckContradicts(m, proved, saved)
    \/ CheckInconclusive(m)
    \/ TimerLapses(m)
    \/ SaveSnapshot(m)

TargetStep(t) ==
    \/ \E gone \in BOOLEAN : ServeStatus(t, gone)
    \/ \E gone \in BOOLEAN : ServePrepare(t, gone)
    \/ \E gone \in BOOLEAN : ServeMembers(t, gone)
    \/ \E gone \in BOOLEAN : ServeAbort(t, gone)
    \/ \E gone \in BOOLEAN : ServeCommit(t, gone)
    \/ \E gone \in BOOLEAN : BeginCommit(t, gone)
    \/ FailCommit(t)
    \/ SaveCommit(t)
    \/ FinishCommit(t)

PersonStep(m) ==
    \/ \E n \in Machines : Preview(m, n)
    \/ \E t \in Transfers : Freeze(m, t)
    \/ ResolveConflict(m)
    \/ BeginClaim(m)
    \/ ToggleProject(m)

FaultStep(m) ==
    \/ AbandonSend(m)
    \/ Lose(m)
    \/ Interrupt(m)
    \/ \E expired \in SUBSET Transfers : Restart(m, expired)

Next ==
    \/ \E m \in Machines : SourceStep(m)
    \/ \E t \in Transfers : TargetStep(t)
    \/ \E m \in Machines : PersonStep(m)
    \/ \E m \in Machines : FaultStep(m)

Spec == Init /\ [][Next]_vars

\* The event loop runs every continuation; the timer of reconciliation fires; the
\* target serves what it was asked.  People and faults owe nothing.
Fairness ==
    /\ \A m \in Machines : WF_vars(SourceStep(m))
    /\ \A t \in Transfers : WF_vars(TargetStep(t))

FairSpec == Spec /\ Fairness

-----------------------------------------------------------------------------

\* The types of the session's records, the journals and the calls.
TypeOK ==
    /\ mem \in [Machines -> Sessions]
    /\ disk \in [Machines -> Sessions]
    /\ proofs \in [Machines -> SUBSET Proofs]
    /\ project \in [Machines -> BOOLEAN]
    /\ op \in [Machines -> Ops]
    /\ armed \in [Machines -> BOOLEAN]
    /\ source \in [Transfers -> Machines \cup {NoMachine}]
    /\ target \in [Transfers -> Machines \cup {NoMachine}]
    /\ fromGen \in [Transfers -> Nat]
    /\ outgoing \in [Transfers -> BOOLEAN]
    /\ journal \in [Transfers -> JournalStates]
    /\ row \in [Transfers -> BOOLEAN]
    /\ work \in [Transfers -> {"none", "restoring", "saved"}]
    /\ late \subseteq Transfers \X Methods
    /\ holder \in Machines
    /\ faults \in 0 .. MaxFaults

\* A machine that may write to the session: not read-only (sessionReadOnlyMessage).
Writable(m) == mem[m].state = "live"

\* A machine whose record has not been superseded by a committed transfer.
Holds(s) ==
    \/ s.state = "live" /\ (s.claim = NoTransfer \/ ~row[s.claim])
    \/ s.state = "preparing"
    \/ s.state = "staged" /\ ~row[s.transfer]

\* Two machines write to the session at once only when a person accepted that risk:
\* one of the two was recovered without the target's confirmation and still says so
\* (#recoverSessionTransfer, session.transferRecoverSource).
SingleOwner ==
    \A m, n \in Machines :
        /\ m # n
        /\ Writable(m)
        /\ Writable(n)
        => mem[m].claim # NoTransfer \/ mem[n].claim # NoTransfer

\* The session is never lost and never duplicated: at every moment exactly one
\* machine holds a record that no committed transfer superseded, through lost
\* answers, failed writes, restarts and pruned journals.
ExactlyOneHolder ==
    \A m \in Machines : Holds(mem[m]) <=> m = holder

\* The holder's generation is the newest anywhere, so a comparison of generations
\* (target-session-newer, a contradicted recovery) names the right owner.
HolderIsNewest ==
    \A m \in Machines : mem[m].gen <= mem[holder].gen

\* Target contact is forbidden until the staged digest is durable: whatever the
\* target knows of a transfer, a restarted source does not find it preparing, which
\* it would thaw without asking.
ContactOnlyWhenStaged ==
    \A t \in Transfers :
        journal[t] # "absent" \/ row[t] \/ work[t] # "none" =>
            ~(disk[source[t]].state = "preparing" /\ disk[source[t]].transfer = t)

\* The abstract specification of ownership, seen through memory.
Ownership == INSTANCE SessionOwnership WITH
    writers <- {m \in Machines : Writable(m)},
    claims <- {m \in Machines : Writable(m) /\ mem[m].claim # NoTransfer}

\* The transfer protocol implements SessionOwnership: the journals, the answers taken
\* for a release or a completion, restarts and reconciliation change who writes in no
\* other way than by its steps.  In particular a source resumes only while it is still
\* the holder, and a claim is confirmed only at the holder and withdrawn only elsewhere.
ImplementsOwnership == Ownership!Spec

\* The conflict of m is durable: in the snapshot, or as a proof beside it.
Durable(m) ==
    \/ disk[m].state = "conflict"
    \/ \E p \in proofs[m] : p.transfer = mem[m].transfer

\* A detected conflict is not undone by failed writes and restarts.  Once one of its
\* two writes succeeded only a person ends it; when neither did, the session goes
\* back to where it is detected again (frozen, or writable under the same unresolved
\* claim), never to an unconditional owner.
ConflictNotForgotten ==
    [][\A m \in Machines :
        mem[m].state = "conflict" =>
            /\ ~(mem'[m].state = "live" /\ mem'[m].claim = NoTransfer)
            /\ Durable(m) => mem'[m].state \in {"conflict", "transferred"}]_vars

\* An arriving session never overwrites one that is there: whatever a machine's
\* record came from, it keeps its origin (the live check of save, against two
\* commits that overlap).
ArrivalNeverOverwrites ==
    [][\A m \in Machines :
        mem[m].state # "absent" =>
            mem'[m].state # "absent" /\ mem'[m].from = mem[m].from]_vars

\* A transfer the target committed is completed by its source, however often the
\* answer is lost: the source does not stay frozen.
CommittedCompletes ==
    \A m \in Machines, t \in Transfers :
        (mem[m].state = "staged" /\ mem[m].transfer = t /\ row[t])
            ~> ~(mem[m].state = "staged" /\ mem[m].transfer = t)

\* A source that was recovered although the target had committed is stopped.
WrongClaimStops ==
    \A m \in Machines, t \in Transfers :
        (mem[m].state = "live" /\ mem[m].claim = t /\ row[t])
            ~> ~(mem[m].state = "live" /\ mem[m].claim = t)

\* "Resumes a staged package after both daemons lost volatile transfer state":
\* when a recovery is scheduled for a frozen source and the projects stay where they
\* are, the source does not stay frozen once faults end.
StagedResumes ==
    <>[](\A m \in Machines : project[m]) =>
        \A m \in Machines :
            (mem[m].state = "staged" /\ armed[m]) ~> mem[m].state # "staged"

\* The records of both machines are well formed and agree: generations order the
\* holders, and no target knows of a transfer its source would thaw unasked.
Consistent == TypeOK /\ HolderIsNewest /\ ContactOnlyWhenStaged
=============================================================================
