---------------------------- MODULE TurnDelivery ----------------------------
(***************************************************************************)
(* How a message reaches a provider turn: session.send, which starts a     *)
(* turn or steers the running one, and the queued send of a session, the   *)
(* one message kept in the store until the turn it was queued in ends      *)
(* well.  One session is modelled.  The requests and provider events of a  *)
(* session run one at a time on its lane (ResourceMutationQueue); an       *)
(* emergency stop runs outside the lanes, aborts the running job and drops *)
(* the waiting ones; the daemon can die at any step.                       *)
(*                                                                         *)
(* A turn is named by the message that started it.  What a message says,   *)
(* its skills and attachments, is left out: composing it either works or   *)
(* turns the message away.                                                 *)
(***************************************************************************)
EXTENDS Naturals, Sequences, FiniteSets

CONSTANTS
    Messages,        \* messages people write, each submitted once
    None,            \* no message, no turn
    MaxThreads,      \* provider threads the session may go through
    MaxFaults,       \* snapshot writes that fail, writes of the queued row that
                     \* throw, provider exits and crashes, together
    MaxStops         \* emergency stops

ASSUME DeliveryAssumption ==
    /\ None \notin Messages
    /\ MaxThreads \in Nat \ {0}
    /\ {MaxFaults, MaxStops} \subseteq Nat

VARIABLES
    row,      \* #queuedSessionSends: the session's queued send in memory
    disk,     \* its row of queued_session_sends
    snap,     \* the session in the live snapshot: active turn, provider thread, delivered mark
    saved,    \* the session in the saved snapshot
    op,       \* the job running on the session's lane
    calls,    \* startTurn and steerTurn requests the provider has not answered
    running,  \* turns the provider works on
    inbox,    \* provider events waiting for the lane
    link,     \* the provider process: alive, and known to be connected (#connectedAgents)
    blocked,  \* #emergencyBlockedThreads: threads whose events are ignored
    failed,   \* #failedEmergencyThreads: threads no stop could stop
    detached, \* quarantined threads whose cleanup failed
    stop,     \* the emergency stop under way
    fate,     \* what became of each message for the person who wrote it
    left      \* what may still happen, and whether a write of the row has thrown

\* Observations only: no step reads them.
VARIABLES
    runs,     \* how often the provider began to work on a message
    queuedIn, \* the turn a queued message was queued in
    strayed,  \* messages released at the end of another turn
    spared    \* messages whose turn a stop left running

watch == <<runs, queuedIn, strayed, spared>>
vars == <<row, disk, snap, saved, op, calls, running, inbox, link, blocked, failed,
          detached, stop, fate, left, watch>>

Turns == Messages \cup {None}
Threads == 1..MaxThreads
RowStates == {"none", "waiting", "releasing", "held", "refused", "unconfirmed"}
NoRow == [id |-> None, state |-> "none"]
NoOp == [kind |-> "none", pc |-> "none", msg |-> None, thread |-> 0, steers |-> None,
         aborted |-> FALSE, write |-> "none", answer |-> "none"]
NoStop == [acting |-> FALSE, turn |-> None, thread |-> 0, caught |-> {}]

Kinds == {"none", "send", "release", "queue", "pause", "completed"}
Pcs == {"none", "prepare", "connect", "call", "undo", "quarantine", "interrupt", "save", "settled"}
Fates == {"unsent", "asked", "ok", "refused", "unconfirmed", "queued", "dropped"}

Init ==
    /\ row = NoRow /\ disk = NoRow
    /\ snap = [turn |-> None, thread |-> 1, delivered |-> None]
    /\ saved = snap
    /\ op = NoOp
    /\ calls = {} /\ running = {} /\ inbox = <<>>
    /\ link = [alive |-> TRUE, known |-> TRUE]
    /\ blocked = {} /\ failed = {} /\ detached = {}
    /\ stop = NoStop
    /\ fate = [m \in Messages |-> "unsent"]
    /\ left = [faults |-> MaxFaults, stops |-> MaxStops, threads |-> MaxThreads - 1,
               thrown |-> FALSE]
    /\ runs = [m \in Messages |-> 0]
    /\ queuedIn = [m \in Messages |-> None]
    /\ strayed = {} /\ spared = {}

Idle == op = NoOp
Job(kind, pc, m) == [NoOp EXCEPT !.kind = kind, !.pc = pc, !.msg = m, !.thread = snap.thread]
InFlight == op.pc \in {"connect", "call", "undo"}
Spend(f) == left[f] > 0 /\ left' = [left EXCEPT ![f] = @ - 1]

-----------------------------------------------------------------------------
(* The queued row.                                                         *)

\* #transitionQueuedSessionSend: the row in memory and the stored row move
\* together, and only from one of the states in `from`.
Moves(from) == row.state \in from /\ disk.id = row.id /\ disk.state \in from
Stored(to) == [disk EXCEPT !.state = to]
Transition(from, to) ==
    IF Moves(from)
    THEN row' = [row EXCEPT !.state = to] /\ disk' = Stored(to)
    ELSE UNCHANGED <<row, disk>>

Pending == {"waiting", "releasing"}
HoldQueued == Transition(Pending, "held")

-----------------------------------------------------------------------------
(* Jobs of the lane.                                                       *)

\* A snapshot write of the running job lands or fails.
SaveEnds ==
    /\ op.write = "open"
    /\ \/ saved' = snap /\ op' = [op EXCEPT !.write = "landed"] /\ UNCHANGED left
       \/ Spend("faults") /\ op' = [op EXCEPT !.write = "failed"] /\ UNCHANGED saved
    /\ UNCHANGED <<link, row, disk, snap, calls, running, inbox, blocked, failed, detached, stop, fate, watch>>

Saving(o, pc) == [o EXCEPT !.pc = pc, !.write = "open"]
Written == op.write \in {"landed", "failed"}

\* The answer of session.send: to the client, or to the release that sent it.
Answer(a) ==
    IF op.kind = "send"
    THEN fate' = [fate EXCEPT ![op.msg] = IF a = "turned-away" THEN "refused" ELSE a] /\ op' = NoOp
    ELSE op' = [op EXCEPT !.pc = "settled", !.answer = a, !.write = "none"] /\ UNCHANGED fate

\* session.send of a message without a queue: refused without a thread.
Send(m) ==
    /\ Idle /\ fate[m] = "unsent"
    /\ \/ snap.thread = 0 /\ fate' = [fate EXCEPT ![m] = "refused"] /\ UNCHANGED op
       \/ snap.thread # 0 /\ fate' = [fate EXCEPT ![m] = "asked"] /\ op' = Job("send", "prepare", m)
    /\ UNCHANGED <<link, row, disk, snap, saved, calls, running, inbox, blocked, failed, detached, stop, left, watch>>

\* The turn is composed and its thread read, then refused: by the composition,
\* for a thread that is gone or that no stop could stop, or while an emergency
\* stop is in progress.
Barred == snap.thread \in {0} \cup failed \/ stop.acting
Prepared ==
    /\ op.pc = "prepare"
    /\ \/ /\ \/ Answer("turned-away")
             \/ Barred /\ Answer("refused")
          /\ UNCHANGED blocked
       \/ /\ ~Barred
          /\ blocked' = blocked \ {snap.thread}
          /\ op' = [op EXCEPT !.pc = "connect", !.thread = snap.thread]
          /\ UNCHANGED fate
    /\ UNCHANGED <<link, row, disk, snap, saved, calls, running, inbox, failed, detached, stop, left, watch>>

\* #ensureAgentConnected, which trusts what #connectedAgents says; then an
\* aborted job stops, the others steer the active turn or start one.
Linked == IF link.known THEN link ELSE [alive |-> TRUE, known |-> TRUE]
Connected ==
    /\ op.pc = "connect"
    /\ link' = Linked
    /\ \/ op.aborted /\ Answer("unconfirmed") /\ UNCHANGED calls
       \/ /\ ~op.aborted /\ Linked.alive
          /\ calls' = calls \cup {[thread |-> op.thread, msg |-> op.msg, steers |-> snap.turn, begun |-> FALSE]}
          /\ op' = [op EXCEPT !.pc = "call", !.steers = snap.turn]
          /\ UNCHANGED fate
    /\ UNCHANGED <<row, disk, snap, saved, running, inbox, blocked, failed, detached, stop, left, watch>>

\* providerRefusal: an ordinary error of connect, resume, start or steer.  A
\* failed steer is answered at once; the others are saved on the session first.
Refusing ==
    IF op.aborted THEN Answer("unconfirmed")
    ELSE IF op.steers # None THEN Answer("refused")
    ELSE op' = Saving([op EXCEPT !.answer = "refused"], "save") /\ UNCHANGED fate

\* A connection that fails, or a request to an adapter without a process.
ConnectFails ==
    /\ op.pc = "connect"
    /\ ~(link.known /\ link.alive)
    /\ Refusing
    /\ UNCHANGED <<link, row, disk, snap, saved, calls, running, inbox, blocked, failed, detached, stop, left, watch>>

Call == [thread |-> op.thread, msg |-> op.msg, steers |-> op.steers, begun |-> TRUE]

\* The provider answers: the turn is recorded and saved, or, for a job an
\* emergency stop aborted, taken back.
CallAnswered ==
    /\ op.pc = "call" /\ Call \in calls
    /\ calls' = calls \ {Call}
    /\ IF op.aborted
       THEN op' = [op EXCEPT !.pc = "undo"] /\ blocked' = blocked \cup {op.thread} /\ UNCHANGED snap
       ELSE /\ op' = Saving([op EXCEPT !.answer = "ok"], "save")
            /\ snap' = [snap EXCEPT !.turn = IF op.steers = None THEN op.msg ELSE @]
            /\ UNCHANGED blocked
    /\ UNCHANGED <<link, row, disk, saved, running, inbox, failed, detached, stop, fate, left, watch>>

\* agentTimeoutMs passes: the thread is quarantined, with what it may run.
Quarantine(o) ==
    IF snap.thread = 0
    THEN op' = [o EXCEPT !.pc = "quarantine", !.write = "landed", !.thread = 0] /\ UNCHANGED <<row, disk, snap>>
    ELSE /\ HoldQueued
         /\ snap' = [snap EXCEPT !.thread = 0, !.turn = None]
         /\ op' = Saving([o EXCEPT !.thread = snap.thread], "quarantine")
\* Mutant: only an interrupt carries the timer.
TimeOutInterrupts ==
    /\ op.pc = "interrupt"
    /\ Quarantine([op EXCEPT !.answer = "unconfirmed"])
    /\ UNCHANGED <<link, saved, calls, running, inbox, blocked, failed, detached, stop, fate, left, watch>>

TimeOut ==
    /\ op.pc \in {"call", "interrupt"}
    /\ Quarantine([op EXCEPT !.answer = "unconfirmed"])
    /\ UNCHANGED <<link, saved, calls, running, inbox, blocked, failed, detached, stop, fate, left, watch>>

\* stopThread: a stopped thread runs nothing and begins nothing; it may still
\* answer a call it had begun.
Stopped(t) ==
    /\ running' = {r \in running : r.thread # t}
    /\ calls' = {c \in calls : c.thread # t \/ c.begun}

\* The quarantined thread is stopped, or could not be.
QuarantineEnds ==
    /\ op.pc = "quarantine" /\ Written
    /\ \/ Stopped(op.thread) /\ UNCHANGED detached
       \/ op.thread # 0 /\ detached' = detached \cup {op.thread} /\ UNCHANGED <<running, calls>>
    /\ IF op.kind = "pause" THEN op' = Saving(op, "save") /\ UNCHANGED fate ELSE Answer("unconfirmed")
    /\ UNCHANGED <<link, row, disk, snap, saved, inbox, blocked, failed, stop, left, watch>>

\* Mutant: a cancelled send leaves the turn it started alone.
UndoneNothing ==
    /\ op.pc = "undo"
    /\ Answer("unconfirmed")
    /\ UNCHANGED <<link, row, disk, snap, saved, calls, running, inbox, blocked, failed, detached, stop, left, watch>>

\* #stopCancelledProviderTurn: interrupt, else reset, else remember the thread.
Undone ==
    /\ op.pc = "undo"
    /\ \/ /\ running' = running \ {[thread |-> op.thread, msg |-> IF op.steers = None THEN op.msg ELSE op.steers]}
          /\ UNCHANGED <<calls, snap, failed>>
       \/ Stopped(op.thread) /\ snap' = [snap EXCEPT !.thread = 0] /\ UNCHANGED failed
       \/ failed' = failed \cup {op.thread} /\ UNCHANGED <<running, calls, snap>>
    /\ Answer("unconfirmed")
    /\ UNCHANGED <<link, row, disk, saved, inbox, blocked, detached, stop, left, watch>>

\* The save of a send ends: what was begun or refused is answered, a failed
\* save as an internal error.  The other jobs end with theirs.
Saved ==
    /\ op.pc = "save" /\ Written
    /\ IF op.kind \in {"send", "release"} /\ op.answer # "settled"
       THEN Answer(IF op.write = "landed" THEN op.answer ELSE "unconfirmed")
       ELSE op.kind # "completed" /\ op' = NoOp /\ UNCHANGED fate
    /\ UNCHANGED <<link, row, disk, snap, saved, calls, running, inbox, blocked, failed, detached, stop, left, watch>>

-----------------------------------------------------------------------------
(* Queueing, cancelling, pausing.                                          *)

\* next-turn-replace: the one queued send of the session is replaced; with no
\* active turn there is no boundary to wait for, and it is held at once.
Replaced(m) ==
    /\ row' = [id |-> m, state |-> IF snap.turn = None THEN "held" ELSE "waiting"]
    /\ disk' = row'
Dropped == IF row.id = None THEN fate ELSE [fate EXCEPT ![row.id] = "dropped"]
Queue(m) ==
    /\ Idle /\ fate[m] = "unsent" /\ snap.thread # 0
    /\ Replaced(m)
    /\ fate' = [Dropped EXCEPT ![m] = "queued"]
    /\ queuedIn' = [queuedIn EXCEPT ![m] = snap.turn]
    /\ snap' = [snap EXCEPT !.delivered = None]
    /\ op' = Saving(Job("queue", "save", m), "save")
    /\ UNCHANGED <<link, saved, calls, running, inbox, blocked, failed, detached, stop, left, runs, strayed, spared>>

\* session.cancelQueuedSend of the current row.
CancelQueuedSend ==
    /\ Idle /\ row # NoRow
    /\ row' = NoRow /\ disk' = NoRow /\ fate' = Dropped
    /\ op' = Saving(Job("queue", "save", row.id), "save")
    /\ UNCHANGED <<link, snap, saved, calls, running, inbox, blocked, failed, detached, stop, left, watch>>

\* session.pause interrupts the active turn; a time-out is TimeOut above.
Pause ==
    /\ Idle /\ snap.turn # None /\ snap.thread # 0
    /\ op' = [Job("pause", "interrupt", None) EXCEPT !.steers = snap.turn]
    /\ UNCHANGED <<link, row, disk, snap, saved, calls, running, inbox, blocked, failed, detached, stop, fate, left, watch>>
Paused ==
    /\ op.pc = "interrupt"
    /\ HoldQueued
    /\ op' = Saving(op, "save")
    /\ \/ /\ running' = running \ {[thread |-> op.thread, msg |-> op.steers]}
          /\ snap' = [snap EXCEPT !.turn = None]
       \/ UNCHANGED <<running, snap>>
    /\ UNCHANGED <<link, saved, calls, inbox, blocked, failed, detached, stop, fate, left, watch>>

\* session.restartProviderThread for a session left without a thread.
RestartProviderThread ==
    /\ Idle /\ snap.thread = 0 /\ Spend("threads")
    /\ snap' = [snap EXCEPT !.thread = MaxThreads - left'.threads, !.turn = None]
    /\ saved' = snap'
    /\ UNCHANGED <<link, row, disk, op, calls, running, inbox, blocked, failed, detached, stop, fate, watch>>

-----------------------------------------------------------------------------
(* The end of a turn, and the release.                                     *)

\* Events of a blocked or replaced thread, or of another turn, are ignored.
Concerns(e) == e.thread \notin blocked /\ e.thread = snap.thread /\ e.msg = snap.turn

\* turn-completed: a failed turn holds the queued send, any other releases it
\* once the end of the turn is saved.
TurnCompleted ==
    /\ Idle /\ inbox # <<>> /\ Head(inbox).type = "completed"
    /\ inbox' = Tail(inbox)
    /\ LET e == Head(inbox) IN
       IF Concerns(e)
       THEN /\ snap' = [snap EXCEPT !.turn = None]
            /\ op' = Saving([Job("completed", "save", e.msg) EXCEPT !.answer = IF e.failed THEN "hold" ELSE "release"], "save")
            /\ IF e.failed THEN HoldQueued ELSE UNCHANGED <<row, disk>>
       ELSE UNCHANGED <<snap, op, row, disk>>
    /\ UNCHANGED <<link, saved, calls, running, blocked, failed, detached, stop, fate, left, watch>>

\* provider-disconnected: the turn is over and the queued send held.
Disconnected ==
    /\ Idle /\ inbox # <<>> /\ Head(inbox).type = "exit"
    /\ inbox' = Tail(inbox)
    /\ link' = [link EXCEPT !.known = FALSE]
    /\ HoldQueued
    /\ snap' = [snap EXCEPT !.turn = None]
    /\ op' = Saving([Job("completed", "save", None) EXCEPT !.answer = "hold"], "save")
    /\ UNCHANGED <<saved, calls, running, blocked, failed, detached, stop, fate, left, watch>>

\* #releaseQueuedSessionSend, after the flush of the turn's end.  A session that
\* is not ready, or an origin that lost control, holds the message.
Releases == op.answer = "release" /\ row.state = "waiting"
Ready == snap.thread # 0 /\ ~stop.acting
Release ==
    /\ op.kind = "completed" /\ Written
    /\ \/ ~Releases /\ op' = NoOp /\ UNCHANGED <<row, disk, strayed>>
       \/ Releases /\ HoldQueued /\ op' = NoOp /\ UNCHANGED strayed
       \/ /\ Releases /\ Ready
          /\ Transition({"waiting"}, "releasing")
          /\ op' = [Job("release", "prepare", row.id) EXCEPT !.aborted = op.aborted]
          /\ strayed' = IF queuedIn[row.id] = op.msg THEN strayed ELSE strayed \cup {row.id}
    /\ UNCHANGED <<link, snap, saved, calls, running, inbox, blocked, failed, detached, stop, fate, left,
                   runs, queuedIn, spared>>

\* Mutant: a release that may have begun a turn is put back to wait.
OutcomeWaits == IF snap.turn # None THEN "waiting"
                ELSE IF op.answer = "turned-away" THEN "refused" ELSE "held"

\* The row after the answer: delivered and deleted, or kept with what is known.
Outcome == IF snap.turn # None THEN "unconfirmed"
           ELSE IF op.answer = "turned-away" THEN "refused" ELSE "held"
Settle ==
    /\ op.pc = "settled"
    /\ op' = Saving([op EXCEPT !.answer = "settled"], "save")
    /\ IF op.answer = "ok"
       THEN /\ row' = NoRow /\ disk' = IF disk.id = op.msg THEN NoRow ELSE disk
            /\ snap' = [snap EXCEPT !.delivered = op.msg]
            /\ fate' = [fate EXCEPT ![op.msg] = "ok"]
       ELSE Transition({"releasing"}, Outcome) /\ UNCHANGED <<snap, fate>>
    /\ UNCHANGED <<link, saved, calls, running, inbox, blocked, failed, detached, stop, left, watch>>

\* The store throws at the release's own write of the row: the job ends there.
StoreThrows ==
    /\ \/ op.kind = "completed" /\ Written /\ Releases
       \/ op.pc = "settled"
    /\ left.faults > 0 /\ left' = [left EXCEPT !.faults = @ - 1, !.thrown = TRUE]
    /\ op' = NoOp
    /\ UNCHANGED <<link, row, disk, snap, saved, calls, running, inbox, blocked, failed, detached, stop, fate, watch>>

-----------------------------------------------------------------------------
(* The provider.                                                           *)

\* It begins to work on a call it was sent; a steer needs its turn running.
Begin(c) ==
    /\ ~c.begun /\ link.alive
    /\ c.steers = None \/ [thread |-> c.thread, msg |-> c.steers] \in running
    /\ calls' = (calls \ {c}) \cup {[c EXCEPT !.begun = TRUE]}
    /\ running' = IF c.steers = None THEN running \cup {[thread |-> c.thread, msg |-> c.msg]} ELSE running
    /\ runs' = [runs EXCEPT ![c.msg] = @ + 1]
    /\ UNCHANGED <<link, row, disk, snap, saved, op, inbox, blocked, failed, detached, stop, fate, left,
                   queuedIn, strayed, spared>>

\* It turns the call down: the awaited call ends with an ordinary error.
Reject(c) ==
    /\ ~c.begun
    /\ calls' = calls \ {c}
    /\ IF op.pc = "call" /\ op.msg = c.msg THEN Refusing ELSE UNCHANGED <<op, fate>>
    /\ UNCHANGED <<link, row, disk, snap, saved, running, inbox, blocked, failed, detached, stop, left, watch>>

\* A turn ends, well or not.
FinishTurn(r) ==
    /\ running' = running \ {r}
    /\ \E bad \in BOOLEAN :
          inbox' = Append(inbox, [type |-> "completed", thread |-> r.thread, msg |-> r.msg, failed |-> bad])
    /\ UNCHANGED <<link, row, disk, snap, saved, op, calls, blocked, failed, detached, stop, fate, left, watch>>

\* The provider process exits: its turns end and every call it was sent is
\* rejected with an ordinary error, whether it had begun or not.
Exit ==
    /\ link.alive /\ Spend("faults")
    /\ link' = [link EXCEPT !.alive = FALSE]
    /\ calls' = {} /\ running' = {}
    /\ inbox' = Append(inbox, [type |-> "exit"])
    /\ IF op.pc = "call" THEN Refusing ELSE UNCHANGED <<op, fate>>
    /\ UNCHANGED <<row, disk, snap, saved, blocked, failed, detached, stop, watch>>

-----------------------------------------------------------------------------
(* Emergency stops and crashes.                                            *)

\* Up to its first await a stop holds the queued send, blocks the threads that
\* run or are being sent to, and cancels the lane.
BeginStop ==
    /\ ~stop.acting /\ Spend("stops")
    /\ HoldQueued
    /\ LET active == snap.turn # None /\ snap.thread # 0 IN
       /\ stop' = [acting |-> TRUE, turn |-> IF active THEN snap.turn ELSE None,
                   thread |-> IF active THEN snap.thread ELSE 0, caught |-> running]
       /\ blocked' = blocked \cup (IF active THEN {snap.thread} ELSE {})
                             \cup (IF InFlight THEN {op.thread} ELSE {})
    /\ op' = IF Idle THEN op ELSE [op EXCEPT !.aborted = TRUE]
    /\ inbox' = <<>>
    /\ UNCHANGED <<link, snap, saved, calls, running, failed, detached, fate, watch>>

\* The hold is written before anything else, outside any try: when the store
\* throws, the stop ends with the error and has stopped nothing.
StopThrows ==
    /\ ~stop.acting /\ Moves(Pending)
    /\ left.stops > 0 /\ left.faults > 0
    /\ left' = [left EXCEPT !.stops = @ - 1, !.faults = @ - 1, !.thrown = TRUE]
    /\ spared' = spared \cup {r.msg : r \in running}
    /\ UNCHANGED <<link, row, disk, snap, saved, op, calls, running, inbox, blocked, failed, detached, stop, fate,
                   runs, queuedIn, strayed>>

\* The thread a stop resets: the active one when its interrupt fails, or the one
\* a job is sending to.
StopTarget == IF stop.turn # None THEN stop.thread
              ELSE IF InFlight /\ op.thread = snap.thread THEN op.thread ELSE 0

\* The thread a quarantine of the lane is about to stop.
Quarantined == IF op.pc = "quarantine" THEN {op.thread} ELSE {}

\* The provider calls of the stop: the turn is interrupted, or its thread
\* reset, or the thread remembered as one that could not be stopped.
ActStop ==
    /\ stop.acting
    /\ \/ /\ stop.turn # None
          /\ running' = running \ {[thread |-> stop.thread, msg |-> stop.turn]}
          /\ snap' = [snap EXCEPT !.turn = None]
          /\ UNCHANGED <<calls, failed>>
       \/ /\ StopTarget # 0
          /\ Stopped(StopTarget)
          /\ snap' = [snap EXCEPT !.turn = None, !.thread = IF @ = StopTarget THEN 0 ELSE @]
          /\ UNCHANGED failed
       \/ /\ StopTarget # 0
          /\ failed' = failed \cup {StopTarget}
          /\ snap' = [snap EXCEPT !.turn = None]
          /\ UNCHANGED <<running, calls>>
       \/ StopTarget = 0 /\ UNCHANGED <<running, calls, snap, failed>>
    /\ \/ saved' = snap' /\ UNCHANGED left
       \/ Spend("faults") /\ UNCHANGED saved
    /\ stop' = NoStop
    /\ spared' = spared \cup {r.msg : r \in {q \in stop.caught \cap running' :
                                  q.thread \notin failed' \cup detached \cup Quarantined}}
    /\ UNCHANGED <<link, row, disk, op, inbox, blocked, detached, fate, runs, queuedIn, strayed>>

\* Mutant: a release under way at the restart waits again.
ReloadedWaiting(r) == IF r.state = "releasing" THEN [r EXCEPT !.state = "waiting"] ELSE r

\* After a restart a release that was under way is unconfirmed, and the queued
\* send of an interrupted turn is held.  Providers end with the daemon.
Reloaded(r) == IF r.state = "releasing" THEN [r EXCEPT !.state = "unconfirmed"] ELSE r
Recovered(r) ==
    IF saved.turn # None /\ r.state = "waiting" THEN [r EXCEPT !.state = "held"] ELSE r
Crash ==
    /\ Spend("faults")
    /\ row' = Recovered(Reloaded(disk)) /\ disk' = row'
    /\ snap' = [saved EXCEPT !.turn = None] /\ saved' = snap'
    /\ op' = NoOp /\ calls' = {} /\ running' = {} /\ inbox' = <<>>
    /\ link' = [alive |-> FALSE, known |-> FALSE]
    /\ blocked' = {} /\ failed' = {} /\ detached' = {} /\ stop' = NoStop
    /\ fate' = [m \in Messages |-> IF fate[m] = "asked" THEN "unconfirmed" ELSE fate[m]]
    /\ UNCHANGED watch

-----------------------------------------------------------------------------
Daemon == \/ SaveEnds \/ Prepared \/ Connected \/ ConnectFails \/ CallAnswered \/ TimeOut
          \/ QuarantineEnds \/ Undone \/ Saved \/ Paused \/ Release \/ Settle

Next == \/ Daemon \/ StoreThrows
        \/ \E m \in Messages : Send(m) \/ Queue(m)
        \/ CancelQueuedSend \/ Pause \/ RestartProviderThread
        \/ TurnCompleted \/ Disconnected
        \/ \E c \in calls : Begin(c) \/ Reject(c)
        \/ \E r \in running : FinishTurn(r)
        \/ Exit \/ BeginStop \/ StopThrows \/ ActStop \/ Crash

Spec == Init /\ [][Next]_vars

\* A job's own continuation is eventually run, every provider call carries the
\* timer agentTimeoutMs, a write ends, and the lane takes up waiting events.
FairSpec == Spec /\ WF_vars(Daemon) /\ WF_vars(ActStop) /\ WF_vars(TurnCompleted \/ Disconnected)

-----------------------------------------------------------------------------
Snapshots == [turn : Turns, thread : 0..MaxThreads, delivered : Turns]
Rows == {NoRow} \cup [id : Messages, state : RowStates \ {"none"}]

\* Every variable keeps its shape, and a job is in a step its kind has.
TypeOK ==
    /\ row \in Rows /\ disk \in Rows
    /\ snap \in Snapshots /\ saved \in Snapshots
    /\ op.kind \in Kinds /\ op.pc \in Pcs /\ op.msg \in Turns /\ op.thread \in 0..MaxThreads
    /\ op.pc \in {"prepare", "connect", "call", "undo"} => op.kind \in {"send", "release"}
    /\ op.pc = "settled" => op.kind = "release"
    /\ running \subseteq [thread : Threads, msg : Messages]
    /\ blocked \subseteq 0..MaxThreads /\ failed \subseteq Threads /\ detached \subseteq Threads
    /\ fate \in [Messages -> Fates]

\* A message is worked on by the provider at most once, over any stops, exits,
\* time-outs, failed saves and daemon restarts: "Do not duplicate an uncertain
\* release" (session-attachments.test.ts:477).
NeverTwice == \A m \in Messages : runs[m] <= 1

\* What the person is shown about a queued message is true: one that waits or
\* was refused has not been begun, one marked delivered has.
RowIsTrue ==
    /\ disk.state \in {"waiting", "refused"} => runs[disk.id] = 0
    /\ row.state \in {"waiting", "refused"} => runs[row.id] = 0
    /\ \A s \in {snap, saved} : s.delivered # None => runs[s.delivered] = 1

\* A queued message the provider never began is still in the store, unless its
\* author cancelled or replaced it.
NothingLost == \A m \in Messages : fate[m] = "queued" /\ runs[m] = 0 => disk.id = m

\* The provider never works on a turn the daemon lost track of: when the lane
\* is idle and no stop runs, a running turn is the session's active one, or on
\* a thread remembered as not stopped.
NoOrphanTurn ==
    Idle /\ ~stop.acting =>
        \A r \in running : \/ r.msg = snap.turn /\ r.thread = snap.thread
                           \/ r.thread \in failed \cup detached

\* When an emergency stop returns, no turn that ran when it began still runs,
\* except on a thread the stop reports it could not stop, or on one the lane
\* quarantined and is stopping itself.  (A stop whose write of the queued row
\* throws apart.)
StopReaches == ~left.thrown => spared = {}

\* Every job of the session's lane ends, so the session is never stuck behind
\* a provider that does not answer.
LaneFrees == (op # NoOp) ~> (op = NoOp)

\* What is kept of a queued message is well formed, true and complete.
QueueIsTrue == TypeOK /\ RowIsTrue /\ NothingLost

\* No turn runs unseen: not after a time-out, a refusal, an exit or a failed
\* stop, and not past an emergency stop.
TurnsAreTracked == NoOrphanTurn /\ StopReaches

-----------------------------------------------------------------------------
(* What the repository says of the program and the code does not keep (see  *)
(* the README); no run checks these.                                        *)

\* A queued message is released at the end of the turn it was queued in, never
\* at the end of a later, unrelated one.
ReleasedAtItsBoundary == strayed = {}

\* A direct send answered as refused (the codes for which provesNothingRan holds)
\* was never worked on.
RefusedNeverRan == \A m \in Messages : fate[m] = "refused" => runs[m] = 0

\* Once the daemon has nothing left to handle it knows whether the provider
\* process is there, so the next message reconnects to one that exited.
ReconnectsNext == Idle /\ inbox = <<>> /\ ~stop.acting /\ ~link.alive => ~link.known

\* When an emergency stop returns or throws, no turn that ran when it began
\* still runs outside the stop's report.
StopAlwaysReaches == spared = {}
=============================================================================
