------------------------- MODULE TurnDeliveryProofs -------------------------
(***************************************************************************)
(* No message runs twice, the queue is true and no turn runs unseen, for    *)
(* every set of messages, every number of threads, faults and stops.         *)
(*                                                                         *)
(* Beside the shapes the invariant has five parts.  JobFits says what the    *)
(* job on the lane may count on, and Queued what is kept of the queued       *)
(* message; Once follows a message from the person who wrote it to the call  *)
(* that carries it; Tracked says whose business every running turn is, at    *)
(* every step of a job and of a stop; and Events says what a waiting         *)
(* provider event still means.                                             *)
(***************************************************************************)
EXTENDS TurnDelivery, SequenceTheorems, TLAPS

Delivering == {"send", "release"}
Answers == {"none", "ok", "refused", "unconfirmed", "turned-away", "settled", "hold", "release"}
OpSet == [kind : Kinds, pc : Pcs, msg : Turns, thread : 0..MaxThreads, steers : Turns,
          aborted : BOOLEAN, write : {"none", "open", "landed", "failed"}, answer : Answers]
CallSet == [thread : Threads, msg : Messages, steers : Turns, begun : BOOLEAN]
EventSet == [type : {"completed"}, thread : Threads, msg : Messages, failed : BOOLEAN]
              \cup [type : {"exit"}]
StopSet == [acting : BOOLEAN, turn : Turns, thread : 0..MaxThreads,
            caught : SUBSET [thread : Threads, msg : Messages]]
LeftSet == [faults : Nat, stops : Nat, threads : 0..MaxThreads - 1, thrown : BOOLEAN]

Shapes ==
  /\ row \in Rows /\ disk = row
  /\ snap \in Snapshots /\ saved \in Snapshots
  /\ op \in OpSet
  /\ calls \in SUBSET CallSet
  /\ running \in SUBSET [thread : Threads, msg : Messages]
  /\ inbox \in Seq(EventSet)
  /\ link \in [alive : BOOLEAN, known : BOOLEAN]
  /\ blocked \subseteq 0..MaxThreads /\ failed \subseteq Threads /\ detached \subseteq Threads
  /\ stop \in StopSet
  /\ fate \in [Messages -> Fates]
  /\ left \in LeftSet
  /\ runs \in [Messages -> Nat]

\* The provider was not asked to work on m.
Untouched(m) == runs[m] = 0 /\ \A c \in calls : c.msg # m

\* What the job on the lane may count on.
JobFits ==
  /\ op.kind = "none" <=> op.pc = "none"
  /\ op.kind = "none" => op = NoOp
  /\ op.pc \in {"prepare", "connect", "call", "undo"} => op.kind \in Delivering
  /\ op.pc = "settled" => op.kind = "release" /\ op.answer \in {"ok", "refused", "unconfirmed", "turned-away"}
  /\ op.answer = "settled" => op.kind = "release" /\ op.pc = "save"
  /\ op.pc = "interrupt" => op.kind = "pause" /\ op.steers # None
  /\ op.pc = "quarantine" => op.kind \in Delivering \cup {"pause"}
  /\ op.kind \in {"queue", "completed"} => op.pc = "save"
  /\ op.kind \in Delivering => op.msg \in Messages
  /\ op.kind \in Delivering /\ op.pc = "save" =>
        op.answer \in {"ok", "refused"} \/ (op.kind = "release" /\ op.answer = "settled")
  /\ op.kind = "send" => fate[op.msg] = "asked"
  /\ op.kind = "release" /\ op.answer # "settled" =>
        row.id = op.msg /\ row.state \in {"releasing", "held"}
  /\ op.kind \in Delivering /\ op.pc \in {"prepare", "connect"} => Untouched(op.msg)
  /\ op.pc = "settled" /\ op.answer = "turned-away" => Untouched(op.msg)
  /\ op.kind \in Delivering /\ op.answer = "ok" => runs[op.msg] = 1
  /\ op.pc \in {"connect", "call", "undo"} =>
        /\ op.thread # 0
        /\ snap.thread \in {0, op.thread}
        /\ ~op.aborted => snap.thread = op.thread
        /\ stop.acting => op.aborted
  /\ op.pc \in {"call", "undo"} /\ op.steers = None => snap.turn = None /\ stop.turn = None
  /\ op.pc = "interrupt" => snap.thread \in {0, op.thread} /\ snap.turn \in {None, op.steers}

\* The queued message, and what its author was told.
Queued ==
  /\ \A m \in Messages : fate[m] = "queued" <=> row.id = m
  /\ row.state \in {"waiting", "refused"} => Untouched(row.id)
  /\ snap.delivered # None => runs[snap.delivered] = 1
  /\ saved.delivered # None => runs[saved.delivered] = 1

\* A message is put to the provider once.
Once ==
  /\ \A m \in Messages : runs[m] <= 1
  /\ \A m \in Messages : fate[m] = "unsent" => Untouched(m)
  /\ \A c \in calls : runs[c.msg] = IF c.begun THEN 1 ELSE 0
  /\ \A c \in calls : \A d \in calls : c.msg = d.msg => c = d

\* Threads that somebody remembers as not stopped, or is about to stop.
Marked == failed \cup detached \cup Quarantined

\* The job on the lane waits for the answer to this call, on the session's own thread.
Awaited(thread, msg, steers) ==
  /\ op.thread = thread /\ op.msg = msg /\ op.steers = steers
  /\ op.thread = snap.thread

\* Whose business a running turn, or a call the provider may still begin, is.
Tracked ==
  /\ \A r \in running :
        \/ r.msg = snap.turn /\ r.thread = snap.thread
        \/ r.thread \in Marked
        \/ op.pc \in {"call", "undo"} /\ Awaited(r.thread, r.msg, None)
  /\ \A c \in calls : ~c.begun =>
        \/ op.pc = "call" /\ Awaited(c.thread, c.msg, c.steers)
        \/ c.thread \in Marked
  /\ stop.acting =>
        \/ snap.turn = None
        \/ snap.thread = 0
        \/ snap.turn = stop.turn /\ snap.thread = stop.thread
  /\ ~stop.acting => stop = NoStop
  /\ stop.turn # None => stop.thread # 0

\* What waits in the inbox, and the provider process behind it.
Events ==
  /\ \A r \in running : runs[r.msg] = 1
  /\ \A r \in running : \A q \in running : r.msg = q.msg => r = q
  /\ \A i \in 1..Len(inbox) : inbox[i].type = "completed" =>
        runs[inbox[i].msg] = 1 /\ \A r \in running : r.msg # inbox[i].msg
  /\ \A i \in 1..Len(inbox) : inbox[i].type = "exit" => ~link.alive /\ link.known
  /\ \A i \in 1..Len(inbox) : \A j \in 1..Len(inbox) :
        inbox[i].type = "exit" /\ inbox[j].type = "exit" => i = j
  /\ link.alive => link.known
  /\ ~link.alive => running = {} /\ calls = {}

TurnInv == Shapes /\ JobFits /\ Queued /\ Once /\ Tracked /\ Events /\ StopReaches

-----------------------------------------------------------------------------
(* Types and shapes. *)

LEMMA NoOpFits ==
  /\ NoOp \in OpSet /\ NoOp.kind = "none" /\ NoOp.pc = "none" /\ NoOp.msg = None
  /\ NoOp.answer = "none" /\ NoOp.aborted = FALSE /\ NoOp.steers = None /\ NoOp.thread = 0
BY DeliveryAssumption DEF NoOp, OpSet, Kinds, Pcs, Turns, Answers

LEMMA NoRowFits == NoRow \in Rows /\ NoRow.id = None /\ NoRow.state = "none"
BY DEF NoRow, Rows

\* A row without a message is none, and says so.
LEMMA RowFields ==
  ASSUME Shapes
  PROVE  /\ row.id \in Turns /\ row.state \in RowStates
         /\ row # NoRow <=> row.id \in Messages
         /\ row.state # "none" <=> row.id \in Messages
         /\ row.id = None <=> row = NoRow
  BY DeliveryAssumption DEF Shapes, Rows, NoRow, RowStates, Turns

LEMMA Transitions ==
  ASSUME Shapes, NEW from, NEW to \in RowStates \ {"none"}, "none" \notin from,
         Transition(from, to)
  PROVE  /\ row' \in Rows /\ disk' = row' /\ row'.id = row.id
         /\ row'.state = IF row.state \in from THEN to ELSE row.state
<1>1. CASE row.state \in from
  <2>1. row.id \in Messages /\ row \in [id : Messages, state : RowStates \ {"none"}]
    BY <1>1 DEF Shapes, Rows, NoRow
  <2>2. row' = [row EXCEPT !.state = to] /\ disk' = [row EXCEPT !.state = to]
    BY <1>1 DEF Shapes, Transition, Moves, Stored
  <2> QED BY <1>1, <2>1, <2>2 DEF Rows
<1>2. CASE row.state \notin from
  BY <1>2 DEF Shapes, Transition, Moves
<1> QED BY <1>1, <1>2

LEMMA Holds ==
  ASSUME Shapes, HoldQueued
  PROVE  /\ row' \in Rows /\ disk' = row' /\ row'.id = row.id
         /\ row'.state = IF row.state \in Pending THEN "held" ELSE row.state
  BY Transitions DEF HoldQueued, Pending, RowStates

LEMMA Spends ==
  ASSUME Shapes, NEW f \in {"faults", "stops", "threads"}, Spend(f)
  PROVE  /\ left' \in LeftSet /\ left'.thrown = left.thrown
         /\ f = "threads" => left'.threads \in 0..MaxThreads - 2
<1>1. left \in LeftSet /\ left[f] > 0 /\ left' = [left EXCEPT ![f] = left[f] - 1]
  BY DEF Shapes, Spend
<1>2. CASE f = "faults"
  BY <1>1, <1>2 DEF LeftSet
<1>3. CASE f = "stops"
  BY <1>1, <1>3 DEF LeftSet
<1>4. CASE f = "threads"
  BY <1>1, <1>4, DeliveryAssumption DEF LeftSet
<1> QED BY <1>2, <1>3, <1>4

\* A write in the store or of the session is a job with nothing to look after.
LEMMA PlainJob ==
  ASSUME op'.kind \in {"queue", "completed"}, op'.pc = "save", op'.answer # "settled"
  PROVE  JobFits'
  BY DEF JobFits, Delivering

LEMMA NoJob ==
  ASSUME op' = NoOp
  PROVE  JobFits'
  BY NoOpFits DEF JobFits, Delivering

\* The next provider event.
LEMMA HeadTaken ==
  ASSUME Shapes, inbox # <<>>
  PROVE  /\ Head(inbox) = inbox[1] /\ 1 \in 1..Len(inbox) /\ Head(inbox) \in EventSet
         /\ Tail(inbox) \in Seq(EventSet)
         /\ \A i \in 1..Len(Tail(inbox)) : i + 1 \in 1..Len(inbox) /\ Tail(inbox)[i] = inbox[i + 1]
<1>1. inbox \in Seq(EventSet) /\ Len(inbox) \in Nat \ {0}
  BY DEF Shapes
<1> QED BY <1>1

-----------------------------------------------------------------------------
(* How a job goes on. *)

\* A job's answer: for the release it goes back to its own job, for the client it is the end.
LEMMA AnswerFits ==
  ASSUME Shapes, JobFits, op.kind \in Delivering, op.answer # "settled",
         NEW a \in {"ok", "refused", "unconfirmed", "turned-away"}, Answer(a),
         UNCHANGED <<row, runs>>, calls' \subseteq calls,
         a = "ok" => runs[op.msg] = 1,
         a = "turned-away" => Untouched(op.msg)
  PROVE  /\ JobFits' /\ op' \in OpSet /\ op'.pc \in {"none", "settled"}
         /\ fate' \in [Messages -> Fates]
         /\ \A m \in Messages : fate'[m] = "queued" <=> fate[m] = "queued"
         /\ \A m \in Messages : fate'[m] = "unsent" => fate[m] = "unsent"
<1>0. /\ op \in OpSet /\ op.msg \in Messages /\ fate \in [Messages -> Fates]
      /\ op.kind = "send" => fate[op.msg] = "asked"
  BY DEF Shapes, JobFits
<1>1. CASE op.kind = "send"
  <2> DEFINE b == IF a = "turned-away" THEN "refused" ELSE a
  <2>1. op' = NoOp /\ fate' = [fate EXCEPT ![op.msg] = b]
    BY <1>1 DEF Answer
  <2>2. b \in {"ok", "refused", "unconfirmed"} /\ b \in Fates
    BY DEF Fates
  <2> HIDE DEF b
  <2>3. JobFits'
    BY <2>1, NoOpFits DEF JobFits, Delivering
  <2> QED BY <1>0, <1>1, <2>1, <2>2, <2>3, NoOpFits
<1>2. CASE op.kind = "release"
  <2>1. op' = [op EXCEPT !.pc = "settled", !.answer = a, !.write = "none"] /\ fate' = fate
    BY <1>2 DEF Answer
  <2>2. /\ op' \in OpSet /\ op'.kind = "release" /\ op'.pc = "settled" /\ op'.answer = a
        /\ op'.msg = op.msg
    BY <1>0, <1>2, <2>1 DEF OpSet, Pcs, Answers
  <2>3. row.id = op.msg /\ row.state \in {"releasing", "held"}
    BY <1>2 DEF JobFits
  <2>4. a = "turned-away" => runs'[op.msg] = 0 /\ \A c \in calls' : c.msg # op.msg
    BY DEF Untouched
  <2>5. JobFits'
    BY <1>0, <2>2, <2>3, <2>4 DEF JobFits, Delivering, Untouched
  <2> QED BY <1>0, <2>1, <2>2, <2>5
<1> QED BY <1>1, <1>2 DEF Delivering

\* An ordinary error of the provider.
LEMMA RefusingFits ==
  ASSUME Shapes, JobFits, op.kind \in Delivering, op.answer # "settled", Refusing,
         UNCHANGED <<row, runs>>, calls' \subseteq calls
  PROVE  /\ JobFits' /\ op' \in OpSet /\ op'.pc \in {"none", "settled", "save"}
         /\ fate' \in [Messages -> Fates]
         /\ \A m \in Messages : fate'[m] = "queued" <=> fate[m] = "queued"
         /\ \A m \in Messages : fate'[m] = "unsent" => fate[m] = "unsent"
<1>1. CASE Answer("unconfirmed") \/ Answer("refused")
  BY <1>1, AnswerFits
<1>2. CASE op' = Saving([op EXCEPT !.answer = "refused"], "save") /\ UNCHANGED fate
  <2>0. op \in OpSet
    BY DEF Shapes
  <2>1. /\ op' \in OpSet /\ op'.kind = op.kind /\ op'.pc = "save" /\ op'.answer = "refused"
        /\ op'.msg = op.msg
    BY <1>2, <2>0 DEF Saving, OpSet, Pcs, Answers
  <2>2. JobFits'
    BY <1>2, <2>1 DEF JobFits, Delivering
  <2> QED BY <1>2, <2>1, <2>2 DEF Shapes
<1> QED BY <1>1, <1>2 DEF Refusing

-----------------------------------------------------------------------------
(* What most steps leave as it was. *)

LEMMA OnceKept ==
  ASSUME Once, calls' \subseteq calls, UNCHANGED runs,
         \A m \in Messages : fate'[m] = "unsent" => fate[m] = "unsent"
  PROVE  Once'
  BY DEF Once, Untouched

LEMMA QueuedKept ==
  ASSUME Queued, calls' \subseteq calls, UNCHANGED runs,
         \A m \in Messages : fate'[m] = "queued" <=> fate[m] = "queued",
         row'.id = row.id,
         row'.state \in {"waiting", "refused"} => row'.state = row.state,
         snap'.delivered = snap.delivered,
         saved'.delivered \in {saved.delivered, snap.delivered}
  PROVE  Queued'
  BY DEF Queued, Untouched

LEMMA EventsKept ==
  ASSUME Events, running' \subseteq running, calls' \subseteq calls,
         UNCHANGED <<runs, inbox, link>>
  PROVE  Events'
  BY DEF Events

-----------------------------------------------------------------------------
(* The steps of a job. *)

LEMMA SaveEndsKeeps ==
  ASSUME TurnInv, SaveEnds
  PROVE  TurnInv'
<1>1. /\ op \in OpSet /\ op.kind # "none" /\ snap' = snap
      /\ snap \in Snapshots /\ saved \in Snapshots
  BY NoOpFits DEF TurnInv, Shapes, JobFits, SaveEnds, NoOp
<1>2. /\ op' \in OpSet /\ op'.kind = op.kind /\ op'.pc = op.pc /\ op'.msg = op.msg
      /\ op'.thread = op.thread /\ op'.steers = op.steers /\ op'.aborted = op.aborted
      /\ op'.answer = op.answer
  BY <1>1 DEF SaveEnds, OpSet
<1>3. saved' \in {snap, saved} /\ left' \in LeftSet /\ left'.thrown = left.thrown
  BY Spends DEF SaveEnds, TurnInv, Shapes
<1>4. Shapes'
  BY <1>1, <1>2, <1>3 DEF TurnInv, Shapes, SaveEnds, watch
<1>5. JobFits'
  BY <1>1, <1>2 DEF TurnInv, JobFits, Delivering, Untouched, SaveEnds, watch
<1>6. Queued' /\ Once' /\ Events'
  BY <1>3, QueuedKept, OnceKept, EventsKept DEF TurnInv, SaveEnds, watch
<1>7. Tracked'
  BY <1>2 DEF TurnInv, Tracked, Marked, Quarantined, Awaited, SaveEnds
<1>8. StopReaches'
  BY <1>3 DEF TurnInv, StopReaches, SaveEnds, watch
<1> QED BY <1>4, <1>5, <1>6, <1>7, <1>8 DEF TurnInv

LEMMA SendKeeps ==
  ASSUME TurnInv, NEW m \in Messages, Send(m)
  PROVE  TurnInv'
<1>1. /\ op = NoOp /\ fate \in [Messages -> Fates] /\ fate[m] = "unsent"
      /\ Untouched(m) /\ row.id # m /\ snap \in Snapshots
      /\ UNCHANGED <<row, snap, saved, calls, running, runs, inbox, link, spared, left, stop, failed, detached>>
  BY DEF TurnInv, Shapes, Once, Queued, Send, Idle, watch
<1>2. PICK f \in {"asked", "refused"} : fate' = [fate EXCEPT ![m] = f]
  BY DEF Send
<1>3. /\ fate' \in [Messages -> Fates] /\ fate'[m] = f
      /\ \A n \in Messages \ {m} : fate'[n] = fate[n]
  BY <1>1, <1>2 DEF Fates
<1>4. \/ op' = NoOp
      \/ /\ op' \in OpSet /\ op'.kind = "send" /\ op'.pc = "prepare" /\ op'.msg = m
         /\ op'.answer = "none" /\ f = "asked"
  <2>1. CASE op' = op
    BY <1>1, <2>1
  <2>2. CASE op' = Job("send", "prepare", m) /\ fate' = [fate EXCEPT ![m] = "asked"]
    <3>1. f = "asked"
      BY <1>3, <2>2, <1>1
    <3>2. Shapes /\ "send" \in Kinds /\ "prepare" \in Pcs /\ m \in Turns
      BY DEF TurnInv, Kinds, Pcs, Turns
    <3>3. /\ op' \in OpSet /\ op'.kind = "send" /\ op'.pc = "prepare" /\ op'.msg = m
          /\ op'.answer = "none"
      BY <1>1, <2>2, NoOpFits DEF Job, Snapshots, OpSet, NoOp, Kinds, Pcs, Turns
    <3> QED BY <2>2, <3>1, <3>3
  <2> QED BY <2>1, <2>2 DEF Send
<1>5. Shapes'
  BY <1>1, <1>3, <1>4, NoOpFits DEF TurnInv, Shapes, Send, watch
<1>6. JobFits'
  <2>1. CASE op' = NoOp
    BY <2>1, NoOpFits DEF JobFits, Delivering
  <2>2. CASE op'.kind = "send" /\ op'.pc = "prepare" /\ op'.msg = m /\ op'.answer = "none" /\ f = "asked"
    BY <2>2, <1>1, <1>3 DEF JobFits, Delivering, Untouched
  <2> QED BY <1>4, <2>1, <2>2
<1>7. Queued'
  <2>1. \A n \in Messages : fate'[n] = "queued" <=> fate[n] = "queued"
    BY <1>1, <1>3
  <2> QED BY <1>1, <2>1, QueuedKept DEF TurnInv
<1>8. Once'
  <2>1. \A n \in Messages : fate'[n] = "unsent" => fate[n] = "unsent"
    BY <1>1, <1>3
  <2> QED BY <1>1, <2>1, OnceKept DEF TurnInv
<1>9. Tracked'
  <2>1. op'.pc \in {"none", "prepare"} /\ op.pc = "none"
    BY <1>1, <1>4, NoOpFits
  <2> QED BY <2>1, <1>1 DEF TurnInv, Tracked, Marked, Quarantined
<1>10. Events' /\ StopReaches'
  BY <1>1, EventsKept DEF TurnInv, StopReaches
<1> QED BY <1>5, <1>6, <1>7, <1>8, <1>9, <1>10 DEF TurnInv

LEMMA PreparedKeeps ==
  ASSUME TurnInv, Prepared
  PROVE  TurnInv'
<1>1. /\ op \in OpSet /\ op.kind \in Delivering /\ op.pc = "prepare" /\ op.answer # "settled"
      /\ snap \in Snapshots /\ Untouched(op.msg)
      /\ UNCHANGED <<row, disk, snap, saved, calls, running, runs, inbox, link, spared, left, stop, failed, detached>>
  BY DEF TurnInv, Shapes, JobFits, Prepared, watch
<1>2. /\ JobFits' /\ op' \in OpSet /\ op'.pc \in {"none", "settled", "connect"}
      /\ fate' \in [Messages -> Fates]
      /\ \A m \in Messages : fate'[m] = "queued" <=> fate[m] = "queued"
      /\ \A m \in Messages : fate'[m] = "unsent" => fate[m] = "unsent"
      /\ blocked' \subseteq 0..MaxThreads
  <2>1. CASE (Answer("turned-away") \/ Answer("refused")) /\ UNCHANGED blocked
    <3>1. CASE Answer("turned-away")
      BY <1>1, <2>1, <3>1, AnswerFits DEF TurnInv, Shapes
    <3>2. CASE Answer("refused")
      BY <1>1, <2>1, <3>2, AnswerFits DEF TurnInv, Shapes
    <3> QED BY <2>1, <3>1, <3>2
  <2>2. CASE /\ ~Barred /\ fate' = fate /\ blocked' = blocked \ {snap.thread}
             /\ op' = [op EXCEPT !.pc = "connect", !.thread = snap.thread]
    <3>1. snap.thread # 0 /\ snap.thread \in 0..MaxThreads /\ ~stop.acting
      BY <2>2, <1>1 DEF Barred, Snapshots
    <3>2. /\ op' \in OpSet /\ op'.kind = op.kind /\ op'.pc = "connect" /\ op'.msg = op.msg
          /\ op'.thread = snap.thread /\ op'.answer = op.answer
      BY <1>1, <2>2, <3>1 DEF OpSet, Pcs
    <3>3. JobFits'
      BY <1>1, <2>2, <3>1, <3>2 DEF TurnInv, JobFits, Delivering, Untouched
    <3> QED BY <2>2, <3>2, <3>3 DEF TurnInv, Shapes
  <2> QED BY <2>1, <2>2 DEF Prepared
<1>3. Shapes'
  BY <1>1, <1>2 DEF TurnInv, Shapes
<1>4. Queued' /\ Once' /\ Events'
  BY <1>1, <1>2, QueuedKept, OnceKept, EventsKept DEF TurnInv
<1>5. Tracked'
  BY <1>1, <1>2 DEF TurnInv, Tracked, Marked, Quarantined
<1>6. StopReaches'
  BY <1>1 DEF TurnInv, StopReaches
<1> QED BY <1>2, <1>3, <1>4, <1>5, <1>6 DEF TurnInv

LEMMA ConnectedKeeps ==
  ASSUME TurnInv, Connected
  PROVE  TurnInv'
<1>1. /\ op \in OpSet /\ op.kind \in Delivering /\ op.pc = "connect" /\ op.answer # "settled"
      /\ snap \in Snapshots /\ Untouched(op.msg) /\ op.msg \in Messages /\ op.thread \in Threads
      /\ fate[op.msg] # "unsent" /\ link' = Linked
      /\ row.id = op.msg => row.state \notin {"waiting", "refused"}
      /\ UNCHANGED <<row, disk, snap, saved, running, runs, inbox, blocked, spared, left, stop, failed, detached>>
  BY DEF TurnInv, Shapes, JobFits, Queued, Connected, watch, OpSet, Threads, Delivering
<1>2. link' \in [alive : BOOLEAN, known : BOOLEAN]
  BY <1>1 DEF TurnInv, Shapes, Linked
<1>3. CASE Answer("unconfirmed") /\ UNCHANGED calls
  <2>1. /\ JobFits' /\ op' \in OpSet /\ op'.pc \in {"none", "settled"}
        /\ fate' \in [Messages -> Fates]
        /\ \A m \in Messages : fate'[m] = "queued" <=> fate[m] = "queued"
        /\ \A m \in Messages : fate'[m] = "unsent" => fate[m] = "unsent"
    BY <1>1, <1>3, AnswerFits DEF TurnInv
  <2>2. Shapes'
    BY <1>1, <1>2, <1>3, <2>1 DEF TurnInv, Shapes
  <2>3. Queued' /\ Once'
    BY <1>1, <1>3, <2>1, QueuedKept, OnceKept DEF TurnInv
  <2>4. Tracked'
    BY <1>1, <1>3, <2>1 DEF TurnInv, Tracked, Marked, Quarantined
  <2>5. Events'
    BY <1>1, <1>3 DEF TurnInv, Events, Linked
  <2> QED BY <1>1, <2>1, <2>2, <2>3, <2>4, <2>5 DEF TurnInv, StopReaches
<1>4. CASE /\ ~op.aborted /\ Linked.alive
           /\ calls' = calls \cup {[thread |-> op.thread, msg |-> op.msg, steers |-> snap.turn, begun |-> FALSE]}
           /\ op' = [op EXCEPT !.pc = "call", !.steers = snap.turn]
           /\ UNCHANGED fate
  <2> DEFINE new == [thread |-> op.thread, msg |-> op.msg, steers |-> snap.turn, begun |-> FALSE]
  <2>1. /\ new \in CallSet /\ new.thread = op.thread /\ new.msg = op.msg
        /\ new.steers = snap.turn /\ new.begun = FALSE
    BY <1>1 DEF CallSet, Snapshots
  <2>2. calls' = calls \cup {new}
    BY <1>4
  <2> HIDE DEF new
  <2>3. /\ op' \in OpSet /\ op'.kind = op.kind /\ op'.pc = "call" /\ op'.msg = op.msg
        /\ op'.thread = op.thread /\ op'.answer = op.answer /\ op'.steers = snap.turn
        /\ op'.aborted = op.aborted
    BY <1>1, <1>4 DEF OpSet, Pcs, Snapshots
  <2>4. /\ snap.thread = op.thread /\ ~stop.acting /\ stop.turn = None
    BY <1>1, <1>4 DEF TurnInv, JobFits, Tracked, NoStop
  <2>5. Shapes'
    BY <1>1, <1>2, <1>4, <2>1, <2>2, <2>3 DEF TurnInv, Shapes
  <2>6. JobFits'
    BY <1>1, <1>4, <2>3, <2>4 DEF TurnInv, JobFits, Delivering
  <2>7. \A m \in Messages : m # op.msg /\ Untouched(m) => Untouched(m)'
    BY <1>1, <2>1, <2>2 DEF Untouched
  <2>8. Queued'
    BY <1>1, <1>4, <2>7, RowFields DEF TurnInv, Queued
  <2>9. Once'
    <3>1. \A c \in calls : c.msg # op.msg
      BY <1>1 DEF Untouched
    <3>2. runs[op.msg] = 0
      BY <1>1 DEF Untouched
    <3>3. \A m \in Messages : fate'[m] = "unsent" => Untouched(m)'
      BY <1>1, <1>4, <2>7 DEF TurnInv, Once
    <3> QED BY <1>1, <2>1, <2>2, <3>1, <3>2, <3>3 DEF TurnInv, Once
  <2>10. Tracked'
    <3>1. Marked' = Marked
      BY <1>1, <2>3 DEF Marked, Quarantined
    <3>2. \A c \in calls' : ~c.begun =>
              \/ op'.pc = "call" /\ Awaited(c.thread, c.msg, c.steers)'
              \/ c.thread \in Marked'
      BY <1>1, <2>1, <2>2, <2>3, <2>4, <3>1 DEF TurnInv, Tracked, Awaited
    <3> QED BY <1>1, <3>1, <3>2 DEF TurnInv, Tracked
  <2>11. Events'
    BY <1>1, <1>4 DEF TurnInv, Events, Linked
  <2> QED BY <1>1, <2>5, <2>6, <2>8, <2>9, <2>10, <2>11 DEF TurnInv, StopReaches
<1> QED BY <1>3, <1>4 DEF Connected

LEMMA ConnectFailsKeeps ==
  ASSUME TurnInv, ConnectFails
  PROVE  TurnInv'
<1>1. /\ op.pc = "connect" /\ op.kind \in Delivering /\ op.answer # "settled" /\ Refusing
      /\ UNCHANGED <<row, disk, snap, saved, calls, running, runs, inbox, link, blocked, spared, left, stop, failed, detached>>
  BY DEF TurnInv, JobFits, ConnectFails, watch
<1>2. /\ JobFits' /\ op' \in OpSet /\ op'.pc \in {"none", "settled", "save"}
      /\ fate' \in [Messages -> Fates]
      /\ \A m \in Messages : fate'[m] = "queued" <=> fate[m] = "queued"
      /\ \A m \in Messages : fate'[m] = "unsent" => fate[m] = "unsent"
  BY <1>1, RefusingFits DEF TurnInv
<1>3. Shapes'
  BY <1>1, <1>2 DEF TurnInv, Shapes
<1>4. Queued' /\ Once' /\ Events'
  BY <1>1, <1>2, QueuedKept, OnceKept, EventsKept DEF TurnInv
<1>5. Tracked'
  BY <1>1, <1>2 DEF TurnInv, Tracked, Marked, Quarantined
<1> QED BY <1>1, <1>2, <1>3, <1>4, <1>5 DEF TurnInv, StopReaches

LEMMA CallAnsweredKeeps ==
  ASSUME TurnInv, CallAnswered
  PROVE  TurnInv'
<1>1. /\ op \in OpSet /\ op.kind \in Delivering /\ op.pc = "call" /\ op.answer # "settled"
      /\ snap \in Snapshots /\ op.msg \in Messages
      /\ Call \in calls /\ calls' = calls \ {Call}
      /\ UNCHANGED <<row, disk, saved, running, runs, inbox, link, spared, left, stop, failed, detached, fate>>
  BY DEF TurnInv, Shapes, JobFits, CallAnswered, watch
<1>2. Call.msg = op.msg /\ Call.begun = TRUE /\ runs[op.msg] = 1
  BY <1>1 DEF Call, TurnInv, Once
<1>3. \A c \in calls' : c.msg # op.msg
  BY <1>1, <1>2 DEF TurnInv, Once
<1>4. blocked' \subseteq 0..MaxThreads
  BY DEF TurnInv, Shapes, CallAnswered, OpSet
<1>5. /\ snap' \in Snapshots /\ snap'.thread = snap.thread /\ snap'.delivered = snap.delivered
      /\ op' \in OpSet /\ op'.kind = op.kind /\ op'.msg = op.msg /\ op'.thread = op.thread
      /\ op'.steers = op.steers /\ op'.aborted = op.aborted
      /\ \/ op.aborted /\ op'.pc = "undo" /\ op'.answer = op.answer /\ snap' = snap
         \/ /\ ~op.aborted /\ op'.pc = "save" /\ op'.answer = "ok"
            /\ snap'.turn = IF op.steers = None THEN op.msg ELSE snap.turn
  <2>1. CASE op.aborted
    <3>1. op' = [op EXCEPT !.pc = "undo"] /\ snap' = snap
      BY <1>1, <2>1 DEF CallAnswered
    <3> QED BY <1>1, <2>1, <3>1 DEF OpSet, Pcs
  <2>2. CASE ~op.aborted
    <3>1. /\ op' = [op EXCEPT !.answer = "ok", !.pc = "save", !.write = "open"]
          /\ snap' = [snap EXCEPT !.turn = IF op.steers = None THEN op.msg ELSE @]
      BY <1>1, <2>2 DEF CallAnswered, Saving, OpSet
    <3>2. snap' \in Snapshots /\ snap'.thread = snap.thread /\ snap'.delivered = snap.delivered
          /\ snap'.turn = IF op.steers = None THEN op.msg ELSE snap.turn
      BY <1>1, <3>1 DEF Snapshots, Turns
    <3>3. /\ op' \in OpSet /\ op'.kind = op.kind /\ op'.msg = op.msg /\ op'.thread = op.thread
          /\ op'.steers = op.steers /\ op'.aborted = op.aborted /\ op'.pc = "save" /\ op'.answer = "ok"
      BY <1>1, <3>1 DEF OpSet, Pcs, Answers
    <3> QED BY <2>2, <3>2, <3>3
  <2> QED BY <2>1, <2>2
<1>6. Shapes'
  BY <1>1, <1>4, <1>5 DEF TurnInv, Shapes
<1>7. JobFits'
  BY <1>1, <1>2, <1>5 DEF TurnInv, JobFits, Delivering
<1>8. Queued' /\ Once' /\ Events'
  BY <1>1, <1>5, QueuedKept, OnceKept, EventsKept DEF TurnInv
<1>9. Tracked'
  <2>1. Marked' = Marked
    BY <1>1, <1>5 DEF Marked, Quarantined
  <2>2. \A c \in calls' : ~c.begun => c.thread \in Marked'
    BY <1>1, <1>3, <2>1 DEF TurnInv, Tracked, Awaited
  <2>3. CASE op.aborted
    BY <1>1, <1>5, <2>1, <2>2, <2>3 DEF TurnInv, Tracked, Awaited
  <2>4. CASE ~op.aborted
    <3>1. ~stop.acting
      BY <1>1, <2>4 DEF TurnInv, JobFits
    <3>2. ASSUME NEW r \in running
          PROVE  (r.msg = snap'.turn /\ r.thread = snap'.thread) \/ r.thread \in Marked'
      <4>1. r.msg # None
        BY DeliveryAssumption DEF TurnInv, Shapes
      <4>2. op.steers = None => snap.turn = None
        BY <1>1 DEF TurnInv, JobFits
      <4> QED BY <1>1, <1>5, <2>1, <2>4, <4>1, <4>2 DEF TurnInv, Tracked, Awaited
    <3> QED BY <1>1, <2>2, <3>1, <3>2 DEF TurnInv, Tracked
  <2> QED BY <2>3, <2>4
<1> QED BY <1>1, <1>6, <1>7, <1>8, <1>9 DEF TurnInv, StopReaches

LEMMA TimeOutKeeps ==
  ASSUME TurnInv, TimeOut
  PROVE  TurnInv'
<1>1. /\ op \in OpSet /\ op.pc \in {"call", "interrupt"} /\ op.answer # "settled"
      /\ op.kind \in Delivering \cup {"pause"} /\ snap \in Snapshots
      /\ op.pc = "call" => op.thread # 0
      /\ Quarantine([op EXCEPT !.answer = "unconfirmed"])
      /\ UNCHANGED <<saved, calls, running, runs, inbox, link, blocked, spared, left, stop, failed, detached, fate>>
  BY DEF TurnInv, Shapes, JobFits, TimeOut, watch
<1>2. /\ op' \in OpSet /\ op'.kind = op.kind /\ op'.pc = "quarantine" /\ op'.msg = op.msg
      /\ op'.thread = snap.thread /\ op'.answer = "unconfirmed"
      /\ snap' \in Snapshots /\ snap'.thread = 0 /\ snap'.delivered = snap.delivered
      /\ snap'.turn \in {None, snap.turn}
      /\ row' \in Rows /\ disk' = row' /\ row'.id = row.id
      /\ row'.state = row.state \/ (row.state \in Pending /\ row'.state = "held")
  <2>1. CASE snap.thread = 0
    <3>1. /\ op' = [op EXCEPT !.answer = "unconfirmed", !.pc = "quarantine", !.write = "landed", !.thread = 0]
          /\ UNCHANGED <<row, disk, snap>>
      BY <1>1, <2>1 DEF Quarantine
    <3>2. 0 \in 0..MaxThreads
      BY DeliveryAssumption
    <3>3. /\ op' \in OpSet /\ op'.kind = op.kind /\ op'.pc = "quarantine" /\ op'.msg = op.msg
          /\ op'.thread = 0 /\ op'.answer = "unconfirmed"
      BY <1>1, <3>1, <3>2 DEF OpSet, Pcs, Answers
    <3> QED BY <1>1, <2>1, <3>1, <3>3 DEF TurnInv, Shapes
  <2>2. CASE snap.thread # 0
    <3>1. /\ op' = [op EXCEPT !.answer = "unconfirmed", !.thread = snap.thread,
                              !.pc = "quarantine", !.write = "open"]
          /\ snap' = [snap EXCEPT !.thread = 0, !.turn = None] /\ HoldQueued
      BY <1>1, <2>2 DEF Quarantine, Saving
    <3>2. /\ row' \in Rows /\ disk' = row' /\ row'.id = row.id
          /\ row'.state = row.state \/ (row.state \in Pending /\ row'.state = "held")
      BY <3>1, Holds DEF TurnInv
    <3>3. /\ snap' \in Snapshots /\ snap'.thread = 0 /\ snap'.delivered = snap.delivered
          /\ snap'.turn = None
      <4>1. snap \in Snapshots /\ snap' = [snap EXCEPT !.thread = 0, !.turn = None]
        BY <1>1, <3>1
      <4>2. 0 \in 0..MaxThreads /\ None \in Turns
        BY DeliveryAssumption DEF Turns
      <4>3. snap' = [turn |-> None, thread |-> 0, delivered |-> snap.delivered]
        BY <4>1 DEF Snapshots
      <4> QED BY <4>1, <4>2, <4>3 DEF Snapshots
    <3>4. snap.thread \in 0..MaxThreads
      BY <1>1 DEF Snapshots
    <3>5. /\ op' \in OpSet /\ op'.kind = op.kind /\ op'.pc = "quarantine" /\ op'.msg = op.msg
          /\ op'.thread = snap.thread /\ op'.answer = "unconfirmed"
      BY <1>1, <3>1, <3>4 DEF OpSet, Pcs, Answers
    <3> QED BY <3>2, <3>3, <3>5
  <2> QED BY <2>1, <2>2
<1>3. Shapes'
  BY <1>1, <1>2 DEF TurnInv, Shapes
<1>4. JobFits'
  BY <1>1, <1>2 DEF TurnInv, JobFits, Delivering, Pending
<1>5. Queued' /\ Once' /\ Events'
  BY <1>1, <1>2, QueuedKept, OnceKept, EventsKept DEF TurnInv
<1>6. Tracked'
  <2>1. Marked' = failed \cup detached \cup {snap.thread} /\ Marked = failed \cup detached
    BY <1>1, <1>2 DEF Marked, Quarantined
  <2>2. \A r \in running : r.thread \in Marked'
    BY <1>1, <2>1 DEF TurnInv, Tracked, Awaited
  <2>3. \A c \in calls : ~c.begun => c.thread \in Marked'
    BY <1>1, <2>1 DEF TurnInv, Tracked, Awaited
  <2> QED BY <1>1, <1>2, <2>2, <2>3 DEF TurnInv, Tracked
<1> QED BY <1>1, <1>3, <1>4, <1>5, <1>6 DEF TurnInv, StopReaches

LEMMA QuarantineEndsKeeps ==
  ASSUME TurnInv, QuarantineEnds
  PROVE  TurnInv'
<1>1. /\ op \in OpSet /\ op.pc = "quarantine" /\ op.answer # "settled"
      /\ op.kind \in Delivering \cup {"pause"}
      /\ UNCHANGED <<row, disk, snap, saved, runs, inbox, link, blocked, spared, left, stop, failed>>
  BY DEF TurnInv, Shapes, JobFits, QuarantineEnds, watch
<1>2. /\ running' \subseteq running /\ calls' \subseteq calls /\ detached' \subseteq Threads
      /\ detached \subseteq detached'
      /\ \A r \in running' : r.thread = op.thread => r.thread \in detached'
      /\ \A c \in calls' : ~c.begun /\ c.thread = op.thread => c.thread \in detached'
  <2>1. CASE Stopped(op.thread) /\ UNCHANGED detached
    BY <2>1 DEF Stopped, TurnInv, Shapes
  <2>2. CASE op.thread # 0 /\ detached' = detached \cup {op.thread} /\ UNCHANGED <<running, calls>>
    <3>1. op.thread \in Threads
      BY <1>1, <2>2, DeliveryAssumption DEF OpSet, Threads
    <3> QED BY <2>2, <3>1 DEF TurnInv, Shapes
  <2> QED BY <2>1, <2>2 DEF QuarantineEnds
<1>3. /\ JobFits' /\ op' \in OpSet /\ op'.pc \in {"none", "settled", "save"}
      /\ fate' \in [Messages -> Fates]
      /\ \A m \in Messages : fate'[m] = "queued" <=> fate[m] = "queued"
      /\ \A m \in Messages : fate'[m] = "unsent" => fate[m] = "unsent"
  <2>1. CASE op.kind = "pause"
    <3>1. op' = [op EXCEPT !.pc = "save", !.write = "open"] /\ fate' = fate
      BY <2>1 DEF QuarantineEnds, Saving
    <3>2. /\ op' \in OpSet /\ op'.kind = "pause" /\ op'.pc = "save" /\ op'.answer = op.answer
      BY <1>1, <2>1, <3>1 DEF OpSet, Pcs
    <3>3. JobFits'
      BY <1>1, <3>2 DEF JobFits, Delivering
    <3> QED BY <3>1, <3>2, <3>3 DEF TurnInv, Shapes
  <2>2. CASE op.kind \in Delivering
    <3>1. Answer("unconfirmed")
      BY <2>2 DEF QuarantineEnds, Delivering
    <3> QED BY <1>1, <1>2, <2>2, <3>1, AnswerFits DEF TurnInv
  <2> QED BY <1>1, <2>1, <2>2
<1>4. Shapes'
  BY <1>1, <1>2, <1>3 DEF TurnInv, Shapes
<1>5. Queued' /\ Once' /\ Events'
  BY <1>1, <1>2, <1>3, QueuedKept, OnceKept, EventsKept DEF TurnInv
<1>6. Tracked'
  <2>1. Marked' = failed \cup detached' /\ Marked = failed \cup detached \cup {op.thread}
    BY <1>1, <1>3 DEF Marked, Quarantined
  <2>2. ASSUME NEW r \in running'
        PROVE  (r.msg = snap'.turn /\ r.thread = snap'.thread) \/ r.thread \in Marked'
    BY <1>1, <1>2, <2>1 DEF TurnInv, Tracked
  <2>3. ASSUME NEW c \in calls', ~c.begun
        PROVE  c.thread \in Marked'
    BY <1>1, <1>2, <2>1, <2>3 DEF TurnInv, Tracked
  <2> QED BY <1>1, <2>2, <2>3 DEF TurnInv, Tracked
<1> QED BY <1>1, <1>3, <1>4, <1>5, <1>6 DEF TurnInv, StopReaches

LEMMA UndoneKeeps ==
  ASSUME TurnInv, Undone
  PROVE  TurnInv'
<1>1. /\ op \in OpSet /\ op.pc = "undo" /\ op.answer # "settled" /\ op.kind \in Delivering
      /\ op.msg \in Messages /\ op.thread \in Threads /\ snap \in Snapshots
      /\ snap.thread \in {0, op.thread}
      /\ Answer("unconfirmed")
      /\ UNCHANGED <<row, disk, saved, runs, inbox, link, blocked, spared, left, stop, detached>>
  BY DEF TurnInv, Shapes, JobFits, Undone, watch, OpSet, Threads
<1>2. /\ running' \subseteq running /\ calls' \subseteq calls /\ failed' \subseteq Threads
      /\ failed \subseteq failed' /\ snap' \in Snapshots
      /\ snap'.turn = snap.turn /\ snap'.delivered = snap.delivered
      /\ snap' = snap \/ (snap'.thread = 0 /\ \A r \in running' : r.thread # op.thread)
      /\ \A r \in running' : r.thread = op.thread /\ r.msg = op.msg /\ op.steers = None
                               => r.thread \in failed'
  <2>1. CASE /\ running' = running \ {[thread |-> op.thread, msg |-> IF op.steers = None THEN op.msg ELSE op.steers]}
             /\ UNCHANGED <<calls, snap, failed>>
    <3>1. \A r \in running : r = [thread |-> r.thread, msg |-> r.msg]
      BY DEF TurnInv, Shapes
    <3> QED BY <1>1, <2>1, <3>1 DEF TurnInv, Shapes
  <2>2. CASE Stopped(op.thread) /\ snap' = [snap EXCEPT !.thread = 0] /\ UNCHANGED failed
    <3>1. snap' \in Snapshots /\ snap'.thread = 0 /\ snap'.turn = snap.turn
          /\ snap'.delivered = snap.delivered
      BY <1>1, <2>2, DeliveryAssumption DEF Snapshots
    <3> QED BY <2>2, <3>1 DEF Stopped, TurnInv, Shapes
  <2>3. CASE failed' = failed \cup {op.thread} /\ UNCHANGED <<running, calls, snap>>
    BY <1>1, <2>3 DEF TurnInv, Shapes
  <2> QED BY <2>1, <2>2, <2>3 DEF Undone
<1>3. /\ JobFits' /\ op' \in OpSet /\ op'.pc \in {"none", "settled"}
      /\ fate' \in [Messages -> Fates]
      /\ \A m \in Messages : fate'[m] = "queued" <=> fate[m] = "queued"
      /\ \A m \in Messages : fate'[m] = "unsent" => fate[m] = "unsent"
  BY <1>1, <1>2, AnswerFits DEF TurnInv
<1>4. Shapes'
  BY <1>1, <1>2, <1>3 DEF TurnInv, Shapes
<1>5. Queued' /\ Once' /\ Events'
  BY <1>1, <1>2, <1>3, QueuedKept, OnceKept, EventsKept DEF TurnInv
<1>6. Tracked'
  <2>1. Marked' = failed' \cup detached /\ Marked = failed \cup detached
    BY <1>1, <1>3 DEF Marked, Quarantined
  <2>2. ASSUME NEW r \in running'
        PROVE  (r.msg = snap'.turn /\ r.thread = snap'.thread) \/ r.thread \in Marked'
    <3>1. r \in running /\ r.thread # 0
      BY <1>2 DEF TurnInv, Shapes, Threads
    <3>2. CASE r.msg = snap.turn /\ r.thread = snap.thread
      BY <1>1, <1>2, <3>1, <3>2
    <3>3. CASE r.thread \in Marked
      BY <1>2, <2>1, <3>3
    <3>4. CASE Awaited(r.thread, r.msg, None)
      BY <1>2, <2>1, <3>4 DEF Awaited
    <3> QED BY <3>1, <3>2, <3>3, <3>4 DEF TurnInv, Tracked
  <2>3. ASSUME NEW c \in calls', ~c.begun
        PROVE  c.thread \in Marked'
    BY <1>1, <1>2, <2>1, <2>3 DEF TurnInv, Tracked
  <2> QED BY <1>1, <1>2, <2>2, <2>3 DEF TurnInv, Tracked
<1> QED BY <1>1, <1>3, <1>4, <1>5, <1>6 DEF TurnInv, StopReaches

LEMMA SavedKeeps ==
  ASSUME TurnInv, Saved
  PROVE  TurnInv'
<1>1. /\ op.pc = "save"
      /\ UNCHANGED <<row, disk, snap, saved, calls, running, runs, inbox, link, blocked, spared, left, stop, failed, detached>>
  BY DEF Saved, watch
<1>2. /\ JobFits' /\ op' \in OpSet /\ op'.pc \in {"none", "settled"}
      /\ fate' \in [Messages -> Fates]
      /\ \A m \in Messages : fate'[m] = "queued" <=> fate[m] = "queued"
      /\ \A m \in Messages : fate'[m] = "unsent" => fate[m] = "unsent"
  <2>1. CASE op.kind \in Delivering /\ op.answer # "settled"
    <3> DEFINE a == IF op.write = "landed" THEN op.answer ELSE "unconfirmed"
    <3>1. Answer(a)
      BY <2>1 DEF Saved, Delivering
    <3>2. a \in {"ok", "refused", "unconfirmed"} /\ (a = "ok" => op.answer = "ok")
      BY <1>1, <2>1 DEF TurnInv, JobFits
    <3>3. op.answer = "ok" => runs[op.msg] = 1
      BY <2>1 DEF TurnInv, JobFits
    <3> HIDE DEF a
    <3> QED BY <1>1, <2>1, <3>1, <3>2, <3>3, AnswerFits DEF TurnInv
  <2>2. CASE ~(op.kind \in Delivering /\ op.answer # "settled")
    <3>1. op' = NoOp /\ fate' = fate
      BY <2>2 DEF Saved, Delivering
    <3>2. JobFits'
      BY <3>1, NoOpFits DEF JobFits, Delivering
    <3> QED BY <3>1, <3>2, NoOpFits DEF TurnInv, Shapes
  <2> QED BY <2>1, <2>2
<1>3. Shapes'
  BY <1>1, <1>2 DEF TurnInv, Shapes
<1>4. Queued' /\ Once' /\ Events'
  BY <1>1, <1>2, QueuedKept, OnceKept, EventsKept DEF TurnInv
<1>5. Tracked'
  BY <1>1, <1>2 DEF TurnInv, Tracked, Marked, Quarantined
<1> QED BY <1>1, <1>2, <1>3, <1>4, <1>5 DEF TurnInv, StopReaches

-----------------------------------------------------------------------------
(* Queueing, cancelling, pausing. *)

LEMMA QueueKeeps ==
  ASSUME TurnInv, NEW m \in Messages, Queue(m)
  PROVE  TurnInv'
<1>1. /\ op = NoOp /\ fate \in [Messages -> Fates] /\ fate[m] = "unsent" /\ snap \in Snapshots
      /\ Untouched(m) /\ row.id # m /\ row.id \in Turns
      /\ row' = [id |-> m, state |-> IF snap.turn = None THEN "held" ELSE "waiting"] /\ disk' = row'
      /\ fate' = [Dropped EXCEPT ![m] = "queued"]
      /\ snap' = [snap EXCEPT !.delivered = None]
      /\ op' = [[NoOp EXCEPT !.kind = "queue", !.pc = "save", !.msg = m, !.thread = snap.thread]
                   EXCEPT !.pc = "save", !.write = "open"]
      /\ UNCHANGED <<saved, calls, running, runs, inbox, link, blocked, spared, left, stop, failed, detached>>
  BY RowFields DEF TurnInv, Shapes, Once, Queued, Queue, Replaced, Job, Saving, Idle
<1>2. /\ row' \in Rows /\ row'.id = m /\ row'.state \in {"held", "waiting"}
  BY <1>1 DEF Rows, RowStates
<1>3. /\ snap' \in Snapshots /\ snap'.turn = snap.turn /\ snap'.thread = snap.thread
      /\ snap'.delivered = None
  BY <1>1 DEF Snapshots, Turns
<1>4. /\ op' \in OpSet /\ op'.kind = "queue" /\ op'.pc = "save" /\ op'.answer = "none"
  <2>1. snap.thread \in 0..MaxThreads
    BY <1>1 DEF Snapshots
  <2> QED BY <1>1, <2>1, NoOpFits DEF OpSet, NoOp, Kinds, Pcs, Turns
<1>5. /\ fate' \in [Messages -> Fates] /\ fate'[m] = "queued"
      /\ \A n \in Messages \ {m} : fate'[n] = IF n = row.id THEN "dropped" ELSE fate[n]
  <2>1. CASE row.id = None
    BY <1>1, <2>1, DeliveryAssumption DEF Dropped, Fates
  <2>2. CASE row.id \in Messages
    BY <1>1, <2>2, DeliveryAssumption DEF Dropped, Fates
  <2> QED BY <1>1, <2>1, <2>2 DEF Turns
<1>6. Shapes'
  BY <1>1, <1>2, <1>3, <1>4, <1>5 DEF TurnInv, Shapes
<1>7. JobFits'
  BY <1>4, PlainJob
<1>8. Queued'
  BY <1>1, <1>2, <1>3, <1>5 DEF TurnInv, Queued, Untouched
<1>9. Once'
  <2>1. \A n \in Messages : fate'[n] = "unsent" => fate[n] = "unsent"
    BY <1>5
  <2> QED BY <1>1, <2>1, OnceKept DEF TurnInv
<1>10. Tracked'
  BY <1>1, <1>3, <1>4, NoOpFits DEF TurnInv, Tracked, Marked, Quarantined
<1>11. Events' /\ StopReaches'
  BY <1>1, EventsKept DEF TurnInv, StopReaches
<1> QED BY <1>6, <1>7, <1>8, <1>9, <1>10, <1>11 DEF TurnInv

LEMMA CancelQueuedSendKeeps ==
  ASSUME TurnInv, CancelQueuedSend
  PROVE  TurnInv'
<1>1. /\ op = NoOp /\ fate \in [Messages -> Fates] /\ snap \in Snapshots
      /\ row.id \in Messages /\ row' = NoRow /\ disk' = NoRow
      /\ fate' = [fate EXCEPT ![row.id] = "dropped"]
      /\ op' = [[NoOp EXCEPT !.kind = "queue", !.pc = "save", !.msg = row.id, !.thread = snap.thread]
                   EXCEPT !.pc = "save", !.write = "open"]
      /\ UNCHANGED <<snap, saved, calls, running, runs, inbox, link, blocked, spared, left, stop, failed, detached>>
  BY RowFields, DeliveryAssumption
     DEF TurnInv, Shapes, CancelQueuedSend, Dropped, Job, Saving, Idle, watch
<1>2. /\ op' \in OpSet /\ op'.kind = "queue" /\ op'.pc = "save" /\ op'.answer = "none"
  <2>1. snap.thread \in 0..MaxThreads
    BY <1>1 DEF Snapshots
  <2> QED BY <1>1, <2>1, NoOpFits DEF OpSet, NoOp, Kinds, Pcs, Turns
<1>3. /\ fate' \in [Messages -> Fates] /\ fate'[row.id] = "dropped"
      /\ \A n \in Messages \ {row.id} : fate'[n] = fate[n]
  BY <1>1 DEF Fates
<1>4. Shapes'
  BY <1>1, <1>2, <1>3, NoRowFits DEF TurnInv, Shapes
<1>5. JobFits'
  BY <1>2, PlainJob
<1>6. Queued'
  BY <1>1, <1>3, NoRowFits, DeliveryAssumption DEF TurnInv, Queued, Untouched
<1>7. Once'
  <2>1. \A n \in Messages : fate'[n] = "unsent" => fate[n] = "unsent"
    BY <1>3
  <2> QED BY <1>1, <2>1, OnceKept DEF TurnInv
<1>8. Tracked'
  BY <1>1, <1>2, NoOpFits DEF TurnInv, Tracked, Marked, Quarantined
<1>9. Events' /\ StopReaches'
  BY <1>1, EventsKept DEF TurnInv, StopReaches
<1> QED BY <1>4, <1>5, <1>6, <1>7, <1>8, <1>9 DEF TurnInv

LEMMA PauseKeeps ==
  ASSUME TurnInv, Pause
  PROVE  TurnInv'
<1>1. /\ op = NoOp /\ snap \in Snapshots /\ snap.turn # None /\ snap.thread # 0
      /\ op' = [[NoOp EXCEPT !.kind = "pause", !.pc = "interrupt", !.msg = None, !.thread = snap.thread]
                   EXCEPT !.steers = snap.turn]
      /\ UNCHANGED <<row, disk, snap, saved, calls, running, runs, inbox, link, blocked, spared, left,
                     stop, failed, detached, fate>>
  BY DEF TurnInv, Shapes, Pause, Job, Idle, watch
<1>2. /\ op' \in OpSet /\ op'.kind = "pause" /\ op'.pc = "interrupt" /\ op'.answer = "none"
      /\ op'.thread = snap.thread /\ op'.steers = snap.turn
  <2>1. snap.thread \in 0..MaxThreads /\ snap.turn \in Turns
    BY <1>1 DEF Snapshots
  <2> QED BY <1>1, <2>1, NoOpFits DEF OpSet, NoOp, Kinds, Pcs, Turns
<1>3. Shapes'
  BY <1>1, <1>2 DEF TurnInv, Shapes
<1>4. JobFits'
  BY <1>1, <1>2 DEF JobFits, Delivering
<1>5. Queued' /\ Once' /\ Events'
  BY <1>1, QueuedKept, OnceKept, EventsKept DEF TurnInv
<1>6. Tracked'
  BY <1>1, <1>2, NoOpFits DEF TurnInv, Tracked, Marked, Quarantined
<1> QED BY <1>1, <1>3, <1>4, <1>5, <1>6 DEF TurnInv, StopReaches

LEMMA PausedKeeps ==
  ASSUME TurnInv, Paused
  PROVE  TurnInv'
<1>1. /\ op \in OpSet /\ op.pc = "interrupt" /\ op.kind = "pause" /\ op.answer # "settled"
      /\ snap \in Snapshots /\ snap.thread \in {0, op.thread} /\ snap.turn \in {None, op.steers}
      /\ HoldQueued /\ op' = [op EXCEPT !.pc = "save", !.write = "open"]
      /\ UNCHANGED <<saved, calls, runs, inbox, link, blocked, spared, left, stop, failed, detached, fate>>
  BY DEF TurnInv, Shapes, JobFits, Paused, Saving, watch
<1>2. /\ op' \in OpSet /\ op'.kind = "pause" /\ op'.pc = "save" /\ op'.answer = op.answer
  BY <1>1 DEF OpSet, Pcs
<1>3. /\ row' \in Rows /\ disk' = row' /\ row'.id = row.id
      /\ row'.state = row.state \/ row'.state = "held"
  BY <1>1, Holds DEF TurnInv
<1>4. /\ snap' \in Snapshots /\ snap'.thread = snap.thread /\ snap'.delivered = snap.delivered
      /\ snap'.turn \in {None, snap.turn} /\ running' \subseteq running
      /\ \A r \in running' : r.msg = snap.turn /\ r.thread = snap.thread => snap'.turn = snap.turn
  <2>1. CASE /\ running' = running \ {[thread |-> op.thread, msg |-> op.steers]}
             /\ snap' = [snap EXCEPT !.turn = None]
    <3>1. /\ snap' \in Snapshots /\ snap'.thread = snap.thread /\ snap'.delivered = snap.delivered
          /\ snap'.turn = None
      BY <1>1, <2>1 DEF Snapshots, Turns
    <3>2. ASSUME NEW r \in running'
          PROVE  ~(r.msg = snap.turn /\ r.thread = snap.thread)
      <4>1. r \in running /\ r = [thread |-> r.thread, msg |-> r.msg] /\ r.msg # None /\ r.thread # 0
        BY <2>1, DeliveryAssumption DEF TurnInv, Shapes, Threads
      <4> QED BY <1>1, <2>1, <4>1
    <3> QED BY <2>1, <3>1, <3>2
  <2>2. CASE UNCHANGED <<running, snap>>
    BY <1>1, <2>2
  <2> QED BY <2>1, <2>2 DEF Paused
<1>5. Shapes'
  BY <1>1, <1>2, <1>3, <1>4 DEF TurnInv, Shapes
<1>6. JobFits'
  BY <1>1, <1>2 DEF JobFits, Delivering
<1>7. Queued' /\ Once' /\ Events'
  BY <1>1, <1>3, <1>4, QueuedKept, OnceKept, EventsKept DEF TurnInv
<1>8. Tracked'
  BY <1>1, <1>2, <1>4 DEF TurnInv, Tracked, Marked, Quarantined
<1> QED BY <1>1, <1>5, <1>6, <1>7, <1>8 DEF TurnInv, StopReaches

LEMMA RestartKeeps ==
  ASSUME TurnInv, RestartProviderThread
  PROVE  TurnInv'
<1>1. /\ op = NoOp /\ snap \in Snapshots /\ snap.thread = 0 /\ Spend("threads")
      /\ snap' = [snap EXCEPT !.thread = MaxThreads - left'.threads, !.turn = None] /\ saved' = snap'
      /\ UNCHANGED <<row, disk, op, calls, running, runs, inbox, link, blocked, spared,
                     stop, failed, detached, fate>>
  BY DEF TurnInv, Shapes, RestartProviderThread, Idle, watch
<1>2. left' \in LeftSet /\ left'.thrown = left.thrown /\ left'.threads \in 0..MaxThreads - 2
  BY <1>1, Spends DEF TurnInv
<1>3. MaxThreads - left'.threads \in Threads /\ None \in Turns
  BY <1>2, DeliveryAssumption DEF Threads, Turns
<1>4. /\ snap' \in Snapshots /\ snap'.delivered = snap.delivered /\ snap'.turn = None
  <2>1. snap' = [turn |-> None, thread |-> MaxThreads - left'.threads, delivered |-> snap.delivered]
    BY <1>1 DEF Snapshots
  <2>2. MaxThreads - left'.threads \in 0..MaxThreads
    BY <1>3, DeliveryAssumption DEF Threads
  <2> QED BY <1>1, <1>3, <2>1, <2>2 DEF Snapshots
<1>5. Shapes'
  BY <1>1, <1>2, <1>4 DEF TurnInv, Shapes
<1>6. JobFits'
  BY <1>1, NoJob
<1>7. Queued' /\ Once' /\ Events'
  BY <1>1, <1>4, QueuedKept, OnceKept, EventsKept DEF TurnInv
<1>8. Tracked'
  <2>1. \A r \in running : r.thread # 0
    BY DEF TurnInv, Shapes, Threads
  <2> QED BY <1>1, <1>4, <2>1, NoOpFits DEF TurnInv, Tracked, Marked, Quarantined
<1> QED BY <1>1, <1>2, <1>5, <1>6, <1>7, <1>8 DEF TurnInv, StopReaches

-----------------------------------------------------------------------------
(* The end of a turn, and the release. *)

LEMMA TurnCompletedKeeps ==
  ASSUME TurnInv, TurnCompleted
  PROVE  TurnInv'
<1> DEFINE e == Head(inbox)
<1>1. /\ op = NoOp /\ inbox # <<>> /\ inbox' = Tail(inbox) /\ e.type = "completed"
      /\ snap \in Snapshots
      /\ UNCHANGED <<saved, calls, running, runs, link, blocked, spared, left, stop, failed, detached, fate>>
  BY DEF TurnInv, Shapes, TurnCompleted, Idle, watch
<1>2. /\ e = inbox[1] /\ 1 \in 1..Len(inbox) /\ e \in EventSet /\ inbox' \in Seq(EventSet)
      /\ \A i \in 1..Len(inbox') : i + 1 \in 1..Len(inbox) /\ inbox'[i] = inbox[i + 1]
  BY <1>1, HeadTaken DEF TurnInv
<1>3. e.msg \in Messages /\ e.failed \in BOOLEAN
  BY <1>1, <1>2 DEF EventSet
<1>4. \A r \in running : r.msg # e.msg
  BY <1>1, <1>2 DEF TurnInv, Events
<1>5. Events'
  <2>1. \A i, j \in 1..Len(inbox') : i + 1 = j + 1 => i = j
    OBVIOUS
  <2> QED BY <1>1, <1>2, <2>1 DEF TurnInv, Events
<1>6. CASE Concerns(e)
  <2>1. /\ snap' = [snap EXCEPT !.turn = None] /\ e.msg = snap.turn
        /\ op' = [[[NoOp EXCEPT !.kind = "completed", !.pc = "save", !.msg = e.msg, !.thread = snap.thread]
                     EXCEPT !.answer = IF e.failed THEN "hold" ELSE "release"]
                     EXCEPT !.pc = "save", !.write = "open"]
        /\ IF e.failed THEN HoldQueued ELSE UNCHANGED <<row, disk>>
    BY <1>6 DEF TurnCompleted, Job, Saving, Concerns
  <2>2. /\ row' \in Rows /\ disk' = row' /\ row'.id = row.id
        /\ row'.state = row.state \/ row'.state = "held"
    BY <2>1, Holds DEF TurnInv, Shapes
  <2>3. /\ snap' \in Snapshots /\ snap'.thread = snap.thread /\ snap'.delivered = snap.delivered
        /\ snap'.turn = None
    BY <1>1, <2>1 DEF Snapshots, Turns
  <2>4. /\ op' \in OpSet /\ op'.kind = "completed" /\ op'.pc = "save"
        /\ op'.answer \in {"hold", "release"}
    <3>1. snap.thread \in 0..MaxThreads /\ e.msg \in Turns
      BY <1>1, <1>3 DEF Snapshots, Turns
    <3> DEFINE a == IF e.failed THEN "hold" ELSE "release"
    <3>2. a \in {"hold", "release"}
      OBVIOUS
    <3>3. op' = [[[NoOp EXCEPT !.kind = "completed", !.pc = "save", !.msg = e.msg, !.thread = snap.thread]
                     EXCEPT !.answer = a] EXCEPT !.pc = "save", !.write = "open"]
      BY <2>1
    <3> HIDE DEF a, e
    <3> QED BY <3>1, <3>2, <3>3, NoOpFits DEF OpSet, NoOp, Kinds, Pcs, Answers
  <2>5. Shapes'
    BY <1>1, <1>2, <2>2, <2>3, <2>4 DEF TurnInv, Shapes
  <2>6. JobFits'
    BY <2>4, PlainJob
  <2>7. Queued' /\ Once'
    BY <1>1, <2>2, <2>3, QueuedKept, OnceKept DEF TurnInv
  <2>8. Tracked'
    BY <1>1, <1>4, <2>1, <2>3, <2>4, NoOpFits DEF TurnInv, Tracked, Marked, Quarantined
  <2> QED BY <1>1, <1>5, <2>5, <2>6, <2>7, <2>8 DEF TurnInv, StopReaches
<1>7. CASE ~Concerns(e)
  <2>1. UNCHANGED <<snap, op, row, disk>>
    BY <1>7 DEF TurnCompleted
  <2>2. Shapes'
    BY <1>1, <1>2, <2>1 DEF TurnInv, Shapes
  <2>3. JobFits'
    BY <1>1, <2>1, NoJob
  <2>4. Queued' /\ Once'
    BY <1>1, <2>1, QueuedKept, OnceKept DEF TurnInv
  <2>5. Tracked'
    BY <1>1, <2>1 DEF TurnInv, Tracked, Marked, Quarantined, Awaited
  <2> QED BY <1>1, <1>5, <2>2, <2>3, <2>4, <2>5 DEF TurnInv, StopReaches
<1> QED BY <1>6, <1>7

LEMMA DisconnectedKeeps ==
  ASSUME TurnInv, Disconnected
  PROVE  TurnInv'
<1>1. /\ op = NoOp /\ inbox # <<>> /\ inbox' = Tail(inbox) /\ Head(inbox).type = "exit"
      /\ snap \in Snapshots /\ HoldQueued /\ link \in [alive : BOOLEAN, known : BOOLEAN]
      /\ link' = [link EXCEPT !.known = FALSE] /\ snap' = [snap EXCEPT !.turn = None]
      /\ op' = [[[NoOp EXCEPT !.kind = "completed", !.pc = "save", !.msg = None, !.thread = snap.thread]
                   EXCEPT !.answer = "hold"] EXCEPT !.pc = "save", !.write = "open"]
      /\ UNCHANGED <<saved, calls, running, runs, blocked, spared, left, stop, failed, detached, fate>>
  BY DEF TurnInv, Shapes, Disconnected, Idle, watch, Job, Saving
<1>2. /\ Head(inbox) = inbox[1] /\ 1 \in 1..Len(inbox) /\ inbox' \in Seq(EventSet)
      /\ \A i \in 1..Len(inbox') : i + 1 \in 1..Len(inbox) /\ inbox'[i] = inbox[i + 1]
  BY <1>1, HeadTaken DEF TurnInv
<1>3. /\ ~link.alive /\ link' \in [alive : BOOLEAN, known : BOOLEAN] /\ ~link'.alive
      /\ running = {} /\ calls = {}
  BY <1>1, <1>2 DEF TurnInv, Events
<1>4. \A i \in 1..Len(inbox') : inbox'[i].type # "exit"
  <2> SUFFICES ASSUME NEW i \in 1..Len(inbox'), inbox'[i].type = "exit"
               PROVE  FALSE
    OBVIOUS
  <2>1. i + 1 \in 1..Len(inbox) /\ inbox[i + 1].type = "exit" /\ inbox[1].type = "exit"
    BY <1>1, <1>2
  <2>2. i + 1 = 1
    BY <1>2, <2>1 DEF TurnInv, Events
  <2> QED BY <2>2
<1>5. Events'
  BY <1>1, <1>2, <1>3, <1>4 DEF TurnInv, Events
<1>6. /\ row' \in Rows /\ disk' = row' /\ row'.id = row.id
      /\ row'.state = row.state \/ row'.state = "held"
  BY <1>1, Holds DEF TurnInv
<1>7. /\ snap' \in Snapshots /\ snap'.thread = snap.thread /\ snap'.delivered = snap.delivered
      /\ snap'.turn = None
  BY <1>1 DEF Snapshots, Turns
<1>8. /\ op' \in OpSet /\ op'.kind = "completed" /\ op'.pc = "save" /\ op'.answer = "hold"
  <2>1. snap.thread \in 0..MaxThreads
    BY <1>1 DEF Snapshots
  <2> QED BY <1>1, <2>1, NoOpFits DEF OpSet, NoOp, Kinds, Pcs, Turns, Answers
<1>9. Shapes'
  BY <1>1, <1>2, <1>3, <1>6, <1>7, <1>8 DEF TurnInv, Shapes
<1>10. JobFits'
  BY <1>8, PlainJob
<1>11. Queued' /\ Once'
  BY <1>1, <1>6, <1>7, QueuedKept, OnceKept DEF TurnInv
<1>12. Tracked'
  BY <1>1, <1>3, <1>7, <1>8 DEF TurnInv, Tracked
<1> QED BY <1>1, <1>5, <1>9, <1>10, <1>11, <1>12 DEF TurnInv, StopReaches

LEMMA ReleaseKeeps ==
  ASSUME TurnInv, Release
  PROVE  TurnInv'
<1>1. /\ op \in OpSet /\ op.kind = "completed" /\ op.pc = "save" /\ snap \in Snapshots
      /\ UNCHANGED <<snap, saved, calls, running, runs, inbox, link, blocked, spared, left,
                     stop, failed, detached, fate>>
  BY DEF TurnInv, Shapes, JobFits, Release
<1>2. /\ JobFits' /\ op' \in OpSet /\ op'.pc \in {"none", "prepare"}
      /\ row' \in Rows /\ disk' = row' /\ row'.id = row.id
      /\ row'.state = row.state \/ row'.state \in {"held", "releasing"}
  <2>1. CASE ~Releases /\ op' = NoOp /\ UNCHANGED <<row, disk, strayed>>
    BY <2>1, NoJob, NoOpFits DEF TurnInv, Shapes
  <2>2. CASE Releases /\ HoldQueued /\ op' = NoOp /\ UNCHANGED strayed
    BY <2>2, NoJob, NoOpFits, Holds DEF TurnInv
  <2>3. CASE /\ Releases /\ Ready
             /\ Transition({"waiting"}, "releasing")
             /\ op' = [Job("release", "prepare", row.id) EXCEPT !.aborted = op.aborted]
    <3>1. row.state = "waiting" /\ row.id \in Messages /\ Untouched(row.id)
      BY <2>3, RowFields DEF Releases, TurnInv, Queued
    <3>2. /\ row' \in Rows /\ disk' = row' /\ row'.id = row.id /\ row'.state = "releasing"
      BY <2>3, <3>1, Transitions DEF TurnInv, RowStates
    <3>3. /\ op' \in OpSet /\ op'.kind = "release" /\ op'.pc = "prepare" /\ op'.msg = row.id
          /\ op'.answer = "none"
      <4>1. snap.thread \in 0..MaxThreads /\ op.aborted \in BOOLEAN /\ row.id \in Turns
        BY <1>1, <3>1 DEF Snapshots, OpSet, Turns
      <4>2. op' = [[NoOp EXCEPT !.kind = "release", !.pc = "prepare", !.msg = row.id, !.thread = snap.thread]
                      EXCEPT !.aborted = op.aborted]
        BY <2>3 DEF Job
      <4> QED BY <4>1, <4>2, NoOpFits DEF OpSet, NoOp, Kinds, Pcs
    <3>4. JobFits'
      BY <1>1, <3>1, <3>2, <3>3 DEF JobFits, Delivering, Untouched
    <3> QED BY <3>2, <3>3, <3>4
  <2> QED BY <2>1, <2>2, <2>3 DEF Release
<1>3. Shapes'
  BY <1>1, <1>2 DEF TurnInv, Shapes
<1>4. Queued' /\ Once' /\ Events'
  BY <1>1, <1>2, QueuedKept, OnceKept, EventsKept DEF TurnInv
<1>5. Tracked'
  BY <1>1, <1>2 DEF TurnInv, Tracked, Marked, Quarantined
<1> QED BY <1>1, <1>2, <1>3, <1>4, <1>5 DEF TurnInv, StopReaches

LEMMA SettleKeeps ==
  ASSUME TurnInv, Settle
  PROVE  TurnInv'
<1>1. /\ op \in OpSet /\ op.kind = "release" /\ op.pc = "settled" /\ op.msg \in Messages
      /\ op.answer \in {"ok", "refused", "unconfirmed", "turned-away"}
      /\ snap \in Snapshots /\ row.id = op.msg /\ row.state \in {"releasing", "held"}
      /\ disk = row /\ fate \in [Messages -> Fates]
      /\ op' = [op EXCEPT !.answer = "settled", !.pc = "save", !.write = "open"]
      /\ UNCHANGED <<saved, calls, running, runs, inbox, link, blocked, spared, left,
                     stop, failed, detached>>
  BY DEF TurnInv, Shapes, JobFits, Settle, Saving, watch, Delivering
<1>2. /\ op' \in OpSet /\ op'.kind = "release" /\ op'.pc = "save" /\ op'.answer = "settled"
      /\ op'.msg = op.msg
  BY <1>1 DEF OpSet, Pcs, Answers
<1>3. JobFits'
  BY <1>1, <1>2 DEF JobFits, Delivering
<1>4. CASE op.answer = "ok"
  <2>1. /\ row' = NoRow /\ disk' = NoRow /\ snap' = [snap EXCEPT !.delivered = op.msg]
        /\ fate' = [fate EXCEPT ![op.msg] = "ok"] /\ runs[op.msg] = 1
    BY <1>1, <1>4 DEF Settle, TurnInv, JobFits, Delivering
  <2>2. /\ snap' \in Snapshots /\ snap'.thread = snap.thread /\ snap'.turn = snap.turn
        /\ snap'.delivered = op.msg
    BY <1>1, <2>1 DEF Snapshots, Turns
  <2>3. /\ fate' \in [Messages -> Fates] /\ fate'[op.msg] = "ok"
        /\ \A n \in Messages \ {op.msg} : fate'[n] = fate[n]
    BY <1>1, <2>1 DEF Fates
  <2>4. Shapes'
    BY <1>1, <1>2, <2>1, <2>2, <2>3, NoRowFits DEF TurnInv, Shapes
  <2>5. Queued'
    BY <1>1, <2>1, <2>2, <2>3, NoRowFits, DeliveryAssumption DEF TurnInv, Queued, Untouched
  <2>6. Once'
    <3>1. \A n \in Messages : fate'[n] = "unsent" => fate[n] = "unsent"
      BY <2>3
    <3> QED BY <1>1, <3>1, OnceKept DEF TurnInv
  <2>7. Tracked'
    BY <1>1, <1>2, <2>2 DEF TurnInv, Tracked, Marked, Quarantined
  <2> QED BY <1>1, <1>3, <2>4, <2>5, <2>6, <2>7, EventsKept DEF TurnInv, StopReaches
<1>5. CASE op.answer # "ok"
  <2>1. Transition({"releasing"}, Outcome) /\ UNCHANGED <<snap, fate>>
    BY <1>5 DEF Settle
  <2>2. Outcome \in RowStates \ {"none"} /\ (Outcome = "refused" => op.answer = "turned-away")
        /\ Outcome # "waiting"
    BY DEF Outcome, RowStates
  <2>3. /\ row' \in Rows /\ disk' = row' /\ row'.id = row.id
        /\ row'.state = IF row.state = "releasing" THEN Outcome ELSE row.state
    <3> DEFINE o == Outcome
    <3>1. Transition({"releasing"}, o) /\ o \in RowStates \ {"none"}
      BY <2>1, <2>2
    <3> HIDE DEF o
    <3>2. /\ row' \in Rows /\ disk' = row' /\ row'.id = row.id
          /\ row'.state = IF row.state = "releasing" THEN o ELSE row.state
      BY <3>1, Transitions DEF TurnInv
    <3> QED BY <3>2 DEF o
  <2>4. row'.state \in {"waiting", "refused"} => Untouched(op.msg)
    BY <1>1, <2>2, <2>3 DEF TurnInv, JobFits
  <2>5. Shapes'
    BY <1>1, <1>2, <2>1, <2>3 DEF TurnInv, Shapes
  <2>6. Queued'
    BY <1>1, <2>1, <2>3, <2>4 DEF TurnInv, Queued, Untouched
  <2>7. Once' /\ Events'
    BY <1>1, <2>1, OnceKept, EventsKept DEF TurnInv
  <2>8. Tracked'
    BY <1>1, <1>2, <2>1 DEF TurnInv, Tracked, Marked, Quarantined
  <2> QED BY <1>1, <1>3, <2>5, <2>6, <2>7, <2>8 DEF TurnInv, StopReaches
<1> QED BY <1>4, <1>5

LEMMA StoreThrowsKeeps ==
  ASSUME TurnInv, StoreThrows
  PROVE  TurnInv'
<1>1. /\ op' = NoOp /\ left \in LeftSet /\ left.faults > 0
      /\ left' = [left EXCEPT !.faults = left.faults - 1, !.thrown = TRUE]
      /\ op.pc \in {"save", "settled"}
      /\ UNCHANGED <<row, disk, snap, saved, calls, running, runs, inbox, link, blocked, spared,
                     stop, failed, detached, fate>>
  BY DEF TurnInv, Shapes, JobFits, StoreThrows, watch
<1>2. left' \in LeftSet /\ left'.thrown = TRUE
  <2>1. left' = [faults |-> left.faults - 1, stops |-> left.stops, threads |-> left.threads, thrown |-> TRUE]
    BY <1>1 DEF LeftSet
  <2>2. left.faults - 1 \in Nat /\ left.stops \in Nat /\ left.threads \in 0..MaxThreads - 1
    BY <1>1 DEF LeftSet
  <2> QED BY <2>1, <2>2 DEF LeftSet
<1>3. Shapes'
  BY <1>1, <1>2, NoOpFits DEF TurnInv, Shapes
<1>4. JobFits' /\ Queued' /\ Once' /\ Events'
  BY <1>1, NoJob, QueuedKept, OnceKept, EventsKept DEF TurnInv
<1>5. Tracked'
  BY <1>1, NoOpFits DEF TurnInv, Tracked, Marked, Quarantined
<1> QED BY <1>2, <1>3, <1>4, <1>5 DEF TurnInv, StopReaches

-----------------------------------------------------------------------------
(* The provider. *)

LEMMA BeginKeeps ==
  ASSUME TurnInv, NEW c \in calls, Begin(c)
  PROVE  TurnInv'
<1> DEFINE d == [c EXCEPT !.begun = TRUE]
<1> DEFINE t == [thread |-> c.thread, msg |-> c.msg]
<1>1. /\ ~c.begun /\ link.alive /\ c \in CallSet /\ runs \in [Messages -> Nat] /\ runs[c.msg] = 0
      /\ calls' = (calls \ {c}) \cup {d} /\ runs' = [runs EXCEPT ![c.msg] = @ + 1]
      /\ running' = IF c.steers = None THEN running \cup {t} ELSE running
      /\ UNCHANGED <<row, disk, snap, saved, op, inbox, link, blocked, spared, left,
                     stop, failed, detached, fate>>
  BY DEF TurnInv, Shapes, Once, Begin
<1>2. /\ d \in CallSet /\ d.begun = TRUE /\ d.msg = c.msg /\ c.msg \in Messages
      /\ t \in [thread : Threads, msg : Messages] /\ t.msg = c.msg /\ t.thread = c.thread
  BY <1>1 DEF CallSet
<1>3. /\ runs' \in [Messages -> Nat] /\ runs'[c.msg] = 1
      /\ \A m \in Messages \ {c.msg} : runs'[m] = runs[m]
  BY <1>1, <1>2
<1> HIDE DEF d, t
<1>4. \A m \in Messages : Untouched(m) => Untouched(m)'
  BY <1>1, <1>2, <1>3 DEF Untouched
<1>5. \A m \in Messages : runs[m] = 1 => runs'[m] = 1
  BY <1>1, <1>3
<1>6. Shapes'
  BY <1>1, <1>2, <1>3 DEF TurnInv, Shapes
<1>7. JobFits'
  <2>1. op.kind \in Delivering => op.msg \in Messages
    BY DEF TurnInv, JobFits
  <2>2. op.kind \in Delivering /\ Untouched(op.msg) => Untouched(op.msg)'
    BY <1>1, <1>4, <2>1
  <2>3. op.kind \in Delivering /\ runs[op.msg] = 1 => runs'[op.msg] = 1
    BY <1>5, <2>1
  <2> QED BY <1>1, <2>2, <2>3 DEF TurnInv, JobFits, Delivering
<1>8. Queued'
  <2>1. row.state \in {"waiting", "refused"} => row.id \in Messages
    BY RowFields DEF TurnInv
  <2>2. row.state \in {"waiting", "refused"} => \A m \in Messages : m = row.id => Untouched(m)'
    BY <1>4, <2>1 DEF TurnInv, Queued
  <2>3. \A s \in {snap, saved} : s.delivered # None => runs'[s.delivered] = 1
    BY <1>5 DEF TurnInv, Shapes, Snapshots, Turns, Queued
  <2> QED BY <1>1, <2>1, <2>2, <2>3 DEF TurnInv, Queued, Untouched
<1>9. Once'
  <2>1. \A m \in Messages : runs'[m] <= 1
    BY <1>3 DEF TurnInv, Once
  <2>2. \A m \in Messages : fate'[m] = "unsent" => Untouched(m)'
    BY <1>1, <1>4 DEF TurnInv, Once
  <2>3. \A x \in calls \ {c} : x.msg # c.msg /\ x.msg \in Messages
    BY <1>1 DEF TurnInv, Once, Shapes, CallSet
  <2>4. \A x \in calls' : runs'[x.msg] = IF x.begun THEN 1 ELSE 0
    BY <1>1, <1>2, <1>3, <2>3 DEF TurnInv, Once
  <2>5. \A x \in calls' : \A y \in calls' : x.msg = y.msg => x = y
    BY <1>1, <1>2, <2>3 DEF TurnInv, Once
  <2> QED BY <2>1, <2>2, <2>4, <2>5 DEF Once
<1>10. Tracked'
  <2>1. Marked' = Marked /\ \A u, m, s : Awaited(u, m, s)' <=> Awaited(u, m, s)
    BY <1>1 DEF Marked, Quarantined, Awaited
  <2>2. (op.pc = "call" /\ Awaited(c.thread, c.msg, c.steers)) \/ c.thread \in Marked
    BY <1>1 DEF TurnInv, Tracked
  <2>3. ASSUME NEW r \in running'
        PROVE  \/ r.msg = snap.turn /\ r.thread = snap.thread
               \/ r.thread \in Marked
               \/ op.pc \in {"call", "undo"} /\ Awaited(r.thread, r.msg, None)
    <3>1. CASE r \in running
      BY <3>1 DEF TurnInv, Tracked
    <3>2. CASE r = t /\ c.steers = None
      BY <1>2, <2>2, <3>2
    <3> QED BY <1>1, <3>1, <3>2
  <2>4. ASSUME NEW x \in calls', ~x.begun
        PROVE  (op.pc = "call" /\ Awaited(x.thread, x.msg, x.steers)) \/ x.thread \in Marked
    BY <1>1, <1>2, <2>4 DEF TurnInv, Tracked
  <2> QED BY <1>1, <2>1, <2>3, <2>4 DEF TurnInv, Tracked
<1>11. Events'
  <2>1. \A r \in running : r.msg # c.msg /\ r.msg \in Messages
    BY <1>1 DEF TurnInv, Events, Shapes
  <2>2. \A r \in running' : runs'[r.msg] = 1
    BY <1>1, <1>2, <1>3, <1>5, <2>1 DEF TurnInv, Events
  <2>3. \A r \in running' : \A q \in running' : r.msg = q.msg => r = q
    BY <1>1, <1>2, <2>1 DEF TurnInv, Events
  <2>4. ASSUME NEW i \in 1..Len(inbox), inbox[i].type = "completed"
        PROVE  runs'[inbox[i].msg] = 1 /\ \A r \in running' : r.msg # inbox[i].msg
    <3>1. inbox[i] \in EventSet /\ runs[inbox[i].msg] = 1 /\ \A r \in running : r.msg # inbox[i].msg
      BY <2>4 DEF TurnInv, Shapes, Events
    <3>2. inbox[i].msg \in Messages
      BY <2>4, <3>1 DEF EventSet
    <3>3. inbox[i].msg # c.msg
      BY <1>1, <3>1
    <3> QED BY <1>1, <1>2, <1>3, <3>1, <3>2, <3>3
  <2> QED BY <1>1, <2>2, <2>3, <2>4 DEF TurnInv, Events
<1> QED BY <1>1, <1>6, <1>7, <1>8, <1>9, <1>10, <1>11 DEF TurnInv, StopReaches

\* What a call that ends with an ordinary error leaves of the job.
LEMMA CallFails ==
  ASSUME Shapes, JobFits, UNCHANGED <<row, runs, snap, stop>>, calls' \subseteq calls,
         \/ op.pc = "call" /\ Refusing
         \/ UNCHANGED <<op, fate>>
  PROVE  /\ JobFits' /\ op' \in OpSet
         /\ op' = op \/ (op.pc = "call" /\ op'.pc \in {"none", "settled", "save"})
         /\ fate' \in [Messages -> Fates]
         /\ \A m \in Messages : fate'[m] = "queued" <=> fate[m] = "queued"
         /\ \A m \in Messages : fate'[m] = "unsent" => fate[m] = "unsent"
<1>1. CASE op.pc = "call" /\ Refusing
  <2>1. op.kind \in Delivering /\ op.answer # "settled"
    BY <1>1 DEF JobFits
  <2> QED BY <1>1, <2>1, RefusingFits
<1>2. CASE UNCHANGED <<op, fate>>
  BY <1>2 DEF JobFits, Delivering, Untouched, Shapes
<1> QED BY <1>1, <1>2

LEMMA RejectKeeps ==
  ASSUME TurnInv, NEW c \in calls, Reject(c)
  PROVE  TurnInv'
<1>1. /\ ~c.begun /\ calls' = calls \ {c} /\ runs[c.msg] = 0
      /\ op.pc # "call" \/ op.msg # c.msg => UNCHANGED <<op, fate>>
      /\ (op.pc = "call" /\ Refusing) \/ UNCHANGED <<op, fate>>
      /\ UNCHANGED <<row, disk, snap, saved, running, runs, inbox, link, blocked, spared, left,
                     stop, failed, detached>>
  BY DEF TurnInv, Once, Reject, watch
<1>2. /\ JobFits' /\ op' \in OpSet
      /\ op' = op \/ (op.pc = "call" /\ op'.pc \in {"none", "settled", "save"})
      /\ fate' \in [Messages -> Fates]
      /\ \A m \in Messages : fate'[m] = "queued" <=> fate[m] = "queued"
      /\ \A m \in Messages : fate'[m] = "unsent" => fate[m] = "unsent"
  BY <1>1, CallFails DEF TurnInv
<1>3. Shapes'
  BY <1>1, <1>2 DEF TurnInv, Shapes
<1>4. Queued' /\ Once' /\ Events'
  BY <1>1, <1>2, QueuedKept, OnceKept, EventsKept DEF TurnInv
<1>5. Tracked'
  <2>1. CASE op' = op
    BY <1>1, <2>1 DEF TurnInv, Tracked, Marked, Quarantined, Awaited
  <2>2. CASE op' # op
    <3>1. op.pc = "call" /\ op.msg = c.msg /\ op'.pc \in {"none", "settled", "save"}
      BY <1>1, <1>2, <2>2
    <3>2. Marked' = Marked
      BY <1>1, <3>1 DEF Marked, Quarantined
    <3>3. \A r \in running : ~Awaited(r.thread, r.msg, None)
      BY <1>1, <3>1 DEF TurnInv, Events, Awaited
    <3>4. \A x \in calls' : ~Awaited(x.thread, x.msg, x.steers)
      BY <1>1, <3>1 DEF TurnInv, Once, Awaited
    <3> QED BY <1>1, <3>2, <3>3, <3>4 DEF TurnInv, Tracked
  <2> QED BY <2>1, <2>2
<1> QED BY <1>1, <1>2, <1>3, <1>4, <1>5 DEF TurnInv, StopReaches

LEMMA FinishTurnKeeps ==
  ASSUME TurnInv, NEW r \in running, FinishTurn(r)
  PROVE  TurnInv'
<1>1. /\ running' = running \ {r} /\ r \in [thread : Threads, msg : Messages]
      /\ UNCHANGED <<row, disk, snap, saved, op, calls, runs, link, blocked, spared, left,
                     stop, failed, detached, fate>>
  BY DEF TurnInv, Shapes, FinishTurn, watch
<1>2. PICK bad \in BOOLEAN :
        inbox' = Append(inbox, [type |-> "completed", thread |-> r.thread, msg |-> r.msg, failed |-> bad])
  BY DEF FinishTurn
<1> DEFINE e == [type |-> "completed", thread |-> r.thread, msg |-> r.msg, failed |-> bad]
<1>3. e \in EventSet /\ e.type = "completed" /\ e.msg = r.msg
  BY <1>1 DEF EventSet
<1>4. inbox' = Append(inbox, e)
  BY <1>2
<1> HIDE DEF e
<1>5. /\ inbox \in Seq(EventSet) /\ inbox' \in Seq(EventSet) /\ Len(inbox') = Len(inbox) + 1
      /\ \A i \in 1..Len(inbox') : inbox'[i] = IF i = Len(inbox') THEN e ELSE inbox[i]
      /\ \A i \in 1..Len(inbox') : i # Len(inbox') => i \in 1..Len(inbox)
  <2>1. inbox \in Seq(EventSet)
    BY DEF TurnInv, Shapes
  <2> QED BY <1>3, <1>4, <2>1
<1>6. Shapes'
  BY <1>1, <1>5 DEF TurnInv, Shapes
<1>7. JobFits'
  BY <1>1 DEF TurnInv, JobFits, Delivering, Untouched
<1>8. Queued' /\ Once'
  BY <1>1, QueuedKept, OnceKept DEF TurnInv
<1>9. Tracked'
  BY <1>1 DEF TurnInv, Tracked, Marked, Quarantined, Awaited
<1>10. Events'
  <2>1. ASSUME NEW i \in 1..Len(inbox'), inbox'[i].type = "completed"
        PROVE  runs[inbox'[i].msg] = 1 /\ \A q \in running' : q.msg # inbox'[i].msg
    <3>1. CASE i = Len(inbox')
      BY <1>1, <1>3, <1>5, <3>1 DEF TurnInv, Events
    <3>2. CASE i # Len(inbox')
      BY <1>1, <1>5, <2>1, <3>2 DEF TurnInv, Events
    <3> QED BY <3>1, <3>2
  <2>2. \A i \in 1..Len(inbox') : inbox'[i].type = "exit" => i \in 1..Len(inbox) /\ inbox'[i] = inbox[i]
    BY <1>3, <1>5
  <2> QED BY <1>1, <2>1, <2>2 DEF TurnInv, Events
<1> QED BY <1>1, <1>6, <1>7, <1>8, <1>9, <1>10 DEF TurnInv, StopReaches

LEMMA ExitKeeps ==
  ASSUME TurnInv, Exit
  PROVE  TurnInv'
<1>1. /\ link.alive /\ link.known /\ link \in [alive : BOOLEAN, known : BOOLEAN]
      /\ link' = [link EXCEPT !.alive = FALSE] /\ calls' = {} /\ running' = {}
      /\ inbox' = Append(inbox, [type |-> "exit"]) /\ Spend("faults")
      /\ (op.pc = "call" /\ Refusing) \/ UNCHANGED <<op, fate>>
      /\ UNCHANGED <<row, disk, snap, saved, runs, blocked, spared, stop, failed, detached>>
  BY DEF TurnInv, Shapes, Events, Exit, watch
<1> DEFINE e == [type |-> "exit"]
<1>2. e \in EventSet /\ e.type = "exit"
  BY DEF EventSet
<1>3. inbox' = Append(inbox, e)
  BY <1>1
<1> HIDE DEF e
<1>4. /\ inbox \in Seq(EventSet) /\ inbox' \in Seq(EventSet) /\ Len(inbox') = Len(inbox) + 1
      /\ \A i \in 1..Len(inbox') : inbox'[i] = IF i = Len(inbox') THEN e ELSE inbox[i]
      /\ \A i \in 1..Len(inbox') : i # Len(inbox') => i \in 1..Len(inbox)
  <2>1. inbox \in Seq(EventSet)
    BY DEF TurnInv, Shapes
  <2> QED BY <1>2, <1>3, <2>1
<1>5. link' \in [alive : BOOLEAN, known : BOOLEAN] /\ ~link'.alive /\ link'.known
  BY <1>1
<1>6. left' \in LeftSet /\ left'.thrown = left.thrown
  BY <1>1, Spends DEF TurnInv
<1>7. /\ JobFits' /\ op' \in OpSet
      /\ fate' \in [Messages -> Fates]
      /\ \A m \in Messages : fate'[m] = "queued" <=> fate[m] = "queued"
      /\ \A m \in Messages : fate'[m] = "unsent" => fate[m] = "unsent"
  BY <1>1, CallFails DEF TurnInv
<1>8. Shapes'
  BY <1>1, <1>4, <1>5, <1>6, <1>7 DEF TurnInv, Shapes
<1>9. Queued' /\ Once'
  BY <1>1, <1>7, QueuedKept, OnceKept DEF TurnInv
<1>10. Tracked'
  BY <1>1 DEF TurnInv, Tracked
<1>11. Events'
  <2>1. \A i \in 1..Len(inbox) : inbox[i].type # "exit"
    BY <1>1 DEF TurnInv, Events
  <2>2. \A i \in 1..Len(inbox') : inbox'[i].type = "exit" => i = Len(inbox')
    BY <1>2, <1>4, <2>1
  <2>3. \A i \in 1..Len(inbox') : inbox'[i].type = "completed" => runs[inbox'[i].msg] = 1
    BY <1>2, <1>4 DEF TurnInv, Events
  <2> QED BY <1>1, <1>5, <2>2, <2>3 DEF Events
<1> QED BY <1>1, <1>6, <1>7, <1>8, <1>9, <1>10, <1>11 DEF TurnInv, StopReaches

-----------------------------------------------------------------------------
(* Emergency stops and crashes. *)

LEMMA BeginStopKeeps ==
  ASSUME TurnInv, BeginStop
  PROVE  TurnInv'
<1> DEFINE active == snap.turn # None /\ snap.thread # 0
<1>1. /\ op \in OpSet /\ ~stop.acting /\ stop = NoStop /\ Spend("stops") /\ HoldQueued
      /\ snap \in Snapshots /\ inbox' = <<>> /\ running \subseteq [thread : Threads, msg : Messages]
      /\ stop' = [acting |-> TRUE, turn |-> IF active THEN snap.turn ELSE None,
                  thread |-> IF active THEN snap.thread ELSE 0, caught |-> running]
      /\ op' = IF op = NoOp THEN op ELSE [op EXCEPT !.aborted = TRUE]
      /\ UNCHANGED <<snap, saved, calls, running, runs, link, spared, failed, detached, fate>>
  BY DEF TurnInv, Shapes, Tracked, BeginStop, Idle, watch
<1>2. /\ op' \in OpSet /\ op'.kind = op.kind /\ op'.pc = op.pc /\ op'.msg = op.msg
      /\ op'.thread = op.thread /\ op'.steers = op.steers /\ op'.answer = op.answer
      /\ op.pc # "none" => op'.aborted = TRUE
      /\ op = NoOp => op' = NoOp
  <2>1. CASE op = NoOp
    BY <1>1, <2>1, NoOpFits
  <2>2. CASE op # NoOp
    BY <1>1, <2>2 DEF OpSet
  <2> QED BY <2>1, <2>2
<1>3. /\ stop' \in StopSet /\ stop'.acting
      /\ stop'.turn = IF active THEN snap.turn ELSE None
      /\ stop'.thread = IF active THEN snap.thread ELSE 0
  <2> DEFINE u == IF active THEN snap.turn ELSE None
  <2> DEFINE h == IF active THEN snap.thread ELSE 0
  <2>1. u \in Turns /\ h \in 0..MaxThreads
    BY <1>1, DeliveryAssumption DEF Snapshots, Turns
  <2>2. stop' = [acting |-> TRUE, turn |-> u, thread |-> h, caught |-> running]
    BY <1>1
  <2>3. stop'.turn = u /\ stop'.thread = h
    BY <2>2
  <2>4. stop' \in StopSet /\ stop'.acting
    <3> HIDE DEF u, h
    <3> QED BY <1>1, <2>1, <2>2 DEF StopSet
  <2> QED BY <2>3, <2>4
<1>4. /\ row' \in Rows /\ disk' = row' /\ row'.id = row.id
      /\ row'.state = row.state \/ (row.state \in Pending /\ row'.state = "held")
  BY <1>1, Holds DEF TurnInv
<1>5. left' \in LeftSet /\ left'.thrown = left.thrown
  BY <1>1, Spends DEF TurnInv
<1>6. blocked' \subseteq 0..MaxThreads
  <2>1. snap.thread \in 0..MaxThreads /\ op.thread \in 0..MaxThreads
    BY <1>1 DEF Snapshots, OpSet
  <2> QED BY <2>1 DEF TurnInv, Shapes, BeginStop
<1>7. inbox' \in Seq(EventSet) /\ Len(inbox') = 0
  BY <1>1
<1>8. Shapes'
  BY <1>1, <1>2, <1>3, <1>4, <1>5, <1>6, <1>7 DEF TurnInv, Shapes
<1>9. JobFits'
  BY <1>1, <1>2, <1>3, <1>4 DEF TurnInv, JobFits, Delivering, Pending, Untouched
<1>10. Queued' /\ Once'
  BY <1>1, <1>4, QueuedKept, OnceKept DEF TurnInv
<1>11. Tracked'
  <2>1. Marked' = Marked /\ \A u, m, s : Awaited(u, m, s)' <=> Awaited(u, m, s)
    BY <1>1, <1>2 DEF Marked, Quarantined, Awaited
  <2> QED BY <1>1, <1>2, <1>3, <2>1 DEF TurnInv, Tracked
<1>12. Events'
  BY <1>1, <1>7 DEF TurnInv, Events
<1> QED BY <1>1, <1>5, <1>8, <1>9, <1>10, <1>11, <1>12 DEF TurnInv, StopReaches

LEMMA StopThrowsKeeps ==
  ASSUME TurnInv, StopThrows
  PROVE  TurnInv'
<1>1. /\ left \in LeftSet /\ left.stops > 0 /\ left.faults > 0
      /\ left' = [left EXCEPT !.stops = left.stops - 1, !.faults = left.faults - 1, !.thrown = TRUE]
      /\ UNCHANGED <<row, disk, snap, saved, op, calls, running, runs, inbox, link, blocked,
                     stop, failed, detached, fate>>
  BY DEF TurnInv, Shapes, StopThrows
<1>2. left' \in LeftSet /\ left'.thrown = TRUE
  <2>1. left' = [faults |-> left.faults - 1, stops |-> left.stops - 1, threads |-> left.threads, thrown |-> TRUE]
    BY <1>1 DEF LeftSet
  <2>2. left.faults - 1 \in Nat /\ left.stops - 1 \in Nat /\ left.threads \in 0..MaxThreads - 1
    BY <1>1 DEF LeftSet
  <2> QED BY <2>1, <2>2 DEF LeftSet
<1>3. Shapes'
  BY <1>1, <1>2 DEF TurnInv, Shapes
<1>4. JobFits'
  BY <1>1 DEF TurnInv, JobFits, Delivering, Untouched
<1>5. Queued' /\ Once' /\ Events'
  BY <1>1, QueuedKept, OnceKept, EventsKept DEF TurnInv
<1>6. Tracked'
  BY <1>1 DEF TurnInv, Tracked, Marked, Quarantined, Awaited
<1> QED BY <1>2, <1>3, <1>4, <1>5, <1>6 DEF TurnInv, StopReaches

\* When a stop acts, a running turn is the one it caught, the one a job is being
\* sent to, or marked; and the thread it acts on is theirs.
LEMMA StopTargets ==
  ASSUME TurnInv, stop.acting
  PROVE  /\ StopTarget \in 0..MaxThreads
         /\ \A r \in running :
              \/ r.msg = stop.turn /\ r.thread = stop.thread /\ stop.turn # None
              \/ r.thread \in Marked
              \/ /\ op.pc \in {"call", "undo"} /\ Awaited(r.thread, r.msg, None)
                 /\ r.thread = StopTarget /\ stop.turn = None
         /\ stop.turn # None => StopTarget = stop.thread /\ StopTarget # 0
<1>1. /\ stop.thread \in 0..MaxThreads /\ op.thread \in 0..MaxThreads /\ 0 \in 0..MaxThreads
      /\ stop.turn # None => stop.thread # 0
  BY DeliveryAssumption DEF TurnInv, Shapes, StopSet, OpSet, Tracked
<1>2. StopTarget \in 0..MaxThreads
  BY <1>1 DEF StopTarget
<1>3. ASSUME NEW r \in running
      PROVE  \/ r.msg = stop.turn /\ r.thread = stop.thread /\ stop.turn # None
             \/ r.thread \in Marked
             \/ /\ op.pc \in {"call", "undo"} /\ Awaited(r.thread, r.msg, None)
                /\ r.thread = StopTarget /\ stop.turn = None
  <2>1. r.msg # None /\ r.thread # 0
    BY DeliveryAssumption DEF TurnInv, Shapes, Threads
  <2>2. CASE r.msg = snap.turn /\ r.thread = snap.thread
    BY <2>1, <2>2 DEF TurnInv, Tracked
  <2>3. CASE op.pc \in {"call", "undo"} /\ Awaited(r.thread, r.msg, None)
    <3>1. stop.turn = None
      BY <2>3 DEF TurnInv, JobFits, Awaited
    <3> QED BY <2>3, <3>1 DEF StopTarget, InFlight, Awaited
  <2> QED BY <2>2, <2>3 DEF TurnInv, Tracked
<1> QED BY <1>1, <1>2, <1>3 DEF StopTarget

LEMMA ActStopKeeps ==
  ASSUME TurnInv, ActStop
  PROVE  TurnInv'
<1>1. /\ stop.acting /\ stop' = NoStop /\ snap \in Snapshots /\ saved \in Snapshots
      /\ UNCHANGED <<row, disk, op, inbox, link, blocked, detached, fate, runs>>
  BY DEF TurnInv, Shapes, ActStop
<1>2. /\ running' \subseteq running /\ calls' \subseteq calls
      /\ failed' \subseteq Threads /\ failed \subseteq failed'
      /\ snap' \in Snapshots /\ snap'.delivered = snap.delivered
      /\ snap' = snap \/ snap'.turn = None
      /\ \/ snap'.thread = snap.thread
         \/ /\ snap'.thread = 0
            /\ \A c \in calls' : ~c.begun => c.thread # snap.thread
            /\ \A r \in running' : r.thread # snap.thread
      /\ \A r \in running' : r.thread \in failed' \cup detached \cup Quarantined
  <2>1. CASE /\ stop.turn # None
             /\ running' = running \ {[thread |-> stop.thread, msg |-> stop.turn]}
             /\ snap' = [snap EXCEPT !.turn = None]
             /\ UNCHANGED <<calls, failed>>
    <3>1. /\ snap' \in Snapshots /\ snap'.thread = snap.thread /\ snap'.delivered = snap.delivered
          /\ snap'.turn = None
      BY <1>1, <2>1 DEF Snapshots, Turns
    <3>2. ASSUME NEW r \in running'
          PROVE  r.thread \in Marked
      <4>1. r \in running /\ r = [thread |-> r.thread, msg |-> r.msg]
        BY <2>1 DEF TurnInv, Shapes
      <4> QED BY <1>1, <2>1, <4>1, StopTargets
    <3> QED BY <2>1, <3>1, <3>2 DEF Marked, TurnInv, Shapes
  <2>2. CASE /\ StopTarget # 0
             /\ Stopped(StopTarget)
             /\ snap' = [snap EXCEPT !.turn = None, !.thread = IF @ = StopTarget THEN 0 ELSE @]
             /\ UNCHANGED failed
    <3> DEFINE h == IF snap.thread = StopTarget THEN 0 ELSE snap.thread
    <3>1. /\ h \in 0..MaxThreads /\ None \in Turns
      BY <1>1, DeliveryAssumption DEF Snapshots, Turns
    <3>2. snap' = [turn |-> None, thread |-> h, delivered |-> snap.delivered]
      BY <1>1, <2>2 DEF Snapshots
    <3>3. snap' \in Snapshots /\ snap'.thread = h /\ snap'.delivered = snap.delivered /\ snap'.turn = None
      <4> HIDE DEF h
      <4> QED BY <1>1, <3>1, <3>2 DEF Snapshots
    <3>4. /\ running' = {r \in running : r.thread # StopTarget}
          /\ calls' = {c \in calls : c.thread # StopTarget \/ c.begun}
      BY <2>2 DEF Stopped
    <3>5. \A r \in running' : r.thread \in Marked
      BY <1>1, <3>4, StopTargets
    <3> QED BY <2>2, <3>3, <3>4, <3>5 DEF Marked, TurnInv, Shapes
  <2>3. CASE /\ StopTarget # 0
             /\ failed' = failed \cup {StopTarget}
             /\ snap' = [snap EXCEPT !.turn = None]
             /\ UNCHANGED <<running, calls>>
    <3>1. /\ snap' \in Snapshots /\ snap'.thread = snap.thread /\ snap'.delivered = snap.delivered
          /\ snap'.turn = None
      BY <1>1, <2>3 DEF Snapshots, Turns
    <3>2. StopTarget \in Threads
      BY <1>1, <2>3, StopTargets, DeliveryAssumption DEF Threads
    <3>3. \A r \in running' : r.thread \in Marked \/ r.thread = StopTarget
      BY <1>1, <2>3, StopTargets
    <3> QED BY <2>3, <3>1, <3>2, <3>3 DEF Marked, TurnInv, Shapes
  <2>4. CASE StopTarget = 0 /\ UNCHANGED <<running, calls, snap, failed>>
    <3>1. \A r \in running : r.thread # 0
      BY DEF TurnInv, Shapes, Threads
    <3>2. \A r \in running' : r.thread \in Marked
      BY <1>1, <2>4, <3>1, StopTargets
    <3> QED BY <1>1, <2>4, <3>2 DEF Marked, TurnInv, Shapes
  <2> QED BY <2>1, <2>2, <2>3, <2>4 DEF ActStop
<1>3. spared' = spared
  <2>1. spared' = spared \cup {r.msg : r \in {q \in stop.caught \cap running' :
                              q.thread \notin failed' \cup detached \cup Quarantined}}
    BY DEF ActStop
  <2>2. {q \in stop.caught \cap running' : q.thread \notin failed' \cup detached \cup Quarantined} = {}
    BY <1>2
  <2> QED BY <2>1, <2>2
<1>4. left' \in LeftSet /\ left'.thrown = left.thrown /\ saved' \in {snap', saved}
  <2>1. CASE saved' = snap' /\ UNCHANGED left
    BY <2>1 DEF TurnInv, Shapes
  <2>2. CASE Spend("faults") /\ UNCHANGED saved
    BY <2>2, Spends DEF TurnInv
  <2> QED BY <2>1, <2>2 DEF ActStop
<1>5. NoStop \in StopSet /\ ~NoStop.acting /\ NoStop.turn = None
  BY DeliveryAssumption DEF NoStop, StopSet, Turns
<1>6. Shapes'
  BY <1>1, <1>2, <1>4, <1>5 DEF TurnInv, Shapes
<1>7. JobFits'
  <2>1. op.pc \in {"connect", "call", "undo"} =>
           op.aborted /\ op.thread # 0 /\ snap'.thread \in {0, op.thread}
    BY <1>1, <1>2 DEF TurnInv, JobFits
  <2>2. op.pc \in {"call", "undo"} /\ op.steers = None => snap'.turn = None
    BY <1>2 DEF TurnInv, JobFits
  <2>3. op.pc = "interrupt" => snap'.thread \in {0, op.thread} /\ snap'.turn \in {None, op.steers}
    BY <1>2 DEF TurnInv, JobFits
  <2>4. op.kind \in Delivering /\ Untouched(op.msg) => Untouched(op.msg)'
    BY <1>1, <1>2 DEF Untouched
  <2> QED BY <1>1, <1>5, <2>1, <2>2, <2>3, <2>4 DEF TurnInv, JobFits, Delivering
<1>8. Queued' /\ Once' /\ Events'
  BY <1>1, <1>2, <1>4, QueuedKept, OnceKept, EventsKept DEF TurnInv
<1>9. Tracked'
  <2>1. Marked \subseteq Marked' /\ Marked' = failed' \cup detached \cup Quarantined
    BY <1>1, <1>2 DEF Marked, Quarantined
  <2>2. ASSUME NEW c \in calls', ~c.begun
        PROVE  (op.pc = "call" /\ Awaited(c.thread, c.msg, c.steers)') \/ c.thread \in Marked'
    <3>1. (op.pc = "call" /\ Awaited(c.thread, c.msg, c.steers)) \/ c.thread \in Marked
      BY <1>2, <2>2 DEF TurnInv, Tracked
    <3> QED BY <1>1, <1>2, <2>1, <2>2, <3>1 DEF Awaited
  <2> QED BY <1>1, <1>2, <1>5, <2>1, <2>2 DEF Tracked
<1>10. StopReaches'
  BY <1>3, <1>4 DEF TurnInv, StopReaches
<1> QED BY <1>6, <1>7, <1>8, <1>9, <1>10 DEF TurnInv

LEMMA CrashKeeps ==
  ASSUME TurnInv, Crash
  PROVE  TurnInv'
<1>1. /\ row \in Rows /\ disk = row /\ saved \in Snapshots /\ fate \in [Messages -> Fates]
      /\ row' = Recovered(Reloaded(row)) /\ disk' = row' /\ Spend("faults")
      /\ snap' = [saved EXCEPT !.turn = None] /\ saved' = snap'
      /\ op' = NoOp /\ calls' = {} /\ running' = {} /\ inbox' = <<>>
      /\ link' = [alive |-> FALSE, known |-> FALSE]
      /\ blocked' = {} /\ failed' = {} /\ detached' = {} /\ stop' = NoStop
      /\ fate' = [m \in Messages |-> IF fate[m] = "asked" THEN "unconfirmed" ELSE fate[m]]
      /\ UNCHANGED <<runs, spared>>
  BY DEF TurnInv, Shapes, Crash, watch
<1>2. /\ row' \in Rows /\ row'.id = row.id
      /\ row'.state \in {"waiting", "refused"} => row'.state = row.state
  <2>1. CASE row = NoRow
    BY <1>1, <2>1, NoRowFits DEF Recovered, Reloaded
  <2>2. CASE row \in [id : Messages, state : RowStates \ {"none"}]
    <3>1. CASE row.state = "releasing"
      <4>1. Reloaded(row) = [row EXCEPT !.state = "unconfirmed"]
        BY <3>1 DEF Reloaded
      <4>2. [row EXCEPT !.state = "unconfirmed"].state = "unconfirmed"
        BY <2>2
      <4>3. row' = [row EXCEPT !.state = "unconfirmed"]
        BY <1>1, <4>1, <4>2 DEF Recovered
      <4> QED BY <2>2, <4>3 DEF Rows, RowStates
    <3>2. CASE row.state # "releasing"
      <4>1. row' = row \/ row' = [row EXCEPT !.state = "held"]
        BY <1>1, <3>2 DEF Recovered, Reloaded
      <4> QED BY <1>1, <2>2, <4>1 DEF Rows, RowStates
    <3> QED BY <3>1, <3>2
  <2> QED BY <1>1, <2>1, <2>2 DEF Rows
<1>3. /\ snap' \in Snapshots /\ snap'.delivered = saved.delivered /\ snap'.turn = None
  BY <1>1 DEF Snapshots, Turns
<1>4. /\ fate' \in [Messages -> Fates]
      /\ \A m \in Messages : fate'[m] = "queued" <=> fate[m] = "queued"
      /\ \A m \in Messages : fate'[m] = "unsent" => fate[m] = "unsent"
  BY <1>1 DEF Fates
<1>5. left' \in LeftSet /\ left'.thrown = left.thrown
  BY <1>1, Spends DEF TurnInv
<1>6. NoStop \in StopSet /\ ~NoStop.acting /\ NoStop.turn = None
  BY DeliveryAssumption DEF NoStop, StopSet, Turns
<1>7. inbox' \in Seq(EventSet) /\ Len(inbox') = 0
  BY <1>1
<1>8. link' \in [alive : BOOLEAN, known : BOOLEAN] /\ ~link'.alive
  BY <1>1
<1>9. Shapes'
  BY <1>1, <1>2, <1>3, <1>4, <1>5, <1>6, <1>7, <1>8, NoOpFits DEF TurnInv, Shapes
<1>10. JobFits' /\ Once'
  BY <1>1, <1>4, NoJob, OnceKept DEF TurnInv
<1>11. Queued'
  BY <1>1, <1>2, <1>3, <1>4 DEF TurnInv, Queued, Untouched
<1>12. Tracked' /\ Events'
  BY <1>1, <1>3, <1>6, <1>7, <1>8 DEF Tracked, Events
<1> QED BY <1>1, <1>5, <1>9, <1>10, <1>11, <1>12 DEF TurnInv, StopReaches

-----------------------------------------------------------------------------
(* The invariant, and what it gives. *)

LEMMA TurnInit == Init => TurnInv
<1> SUFFICES ASSUME Init PROVE TurnInv
  OBVIOUS
<1>1. /\ snap \in Snapshots /\ snap.delivered = None /\ snap.turn = None /\ saved = snap
  <2>1. 1 \in 0..MaxThreads /\ None \in Turns
    BY DeliveryAssumption DEF Turns
  <2> QED BY <2>1 DEF Init, Snapshots
<1>2. NoStop \in StopSet /\ ~NoStop.acting /\ NoStop.turn = None
  BY DeliveryAssumption DEF NoStop, StopSet, Turns
<1>3. left \in LeftSet
  <2>1. MaxFaults \in Nat /\ MaxStops \in Nat /\ MaxThreads - 1 \in 0..MaxThreads - 1
    BY DeliveryAssumption
  <2> QED BY <2>1 DEF Init, LeftSet
<1>4. inbox \in Seq(EventSet) /\ Len(inbox) = 0
  BY DEF Init
<1>5. Shapes
  BY <1>1, <1>2, <1>3, <1>4, NoOpFits, NoRowFits DEF Init, Shapes, Fates
<1>6. JobFits
  BY NoOpFits DEF Init, JobFits, Delivering
<1>7. Queued /\ Once
  BY <1>1, NoRowFits, DeliveryAssumption DEF Init, Queued, Once, Untouched
<1>8. Tracked
  BY <1>2 DEF Init, Tracked
<1>9. Events
  BY <1>4 DEF Init, Events
<1> QED BY <1>5, <1>6, <1>7, <1>8, <1>9 DEF Init, TurnInv, StopReaches

LEMMA TurnStep == TurnInv /\ [Next]_vars => TurnInv'
<1> SUFFICES ASSUME TurnInv, [Next]_vars PROVE TurnInv'
  OBVIOUS
<1>1. CASE UNCHANGED vars
  <2>1. Shapes' /\ StopReaches'
    BY <1>1 DEF TurnInv, Shapes, StopReaches, vars, watch
  <2>2. JobFits'
    BY <1>1 DEF TurnInv, JobFits, Untouched, vars, watch
  <2>3. Queued' /\ Once' /\ Events'
    BY <1>1, QueuedKept, OnceKept, EventsKept DEF TurnInv, vars, watch
  <2>4. Tracked'
    BY <1>1 DEF TurnInv, Tracked, Marked, Quarantined, Awaited, vars, watch
  <2> QED BY <2>1, <2>2, <2>3, <2>4 DEF TurnInv
<1>2. CASE Daemon
  <2>1. CASE SaveEnds \/ Prepared \/ Connected \/ ConnectFails \/ CallAnswered \/ TimeOut
    BY <2>1, SaveEndsKeeps, PreparedKeeps, ConnectedKeeps, ConnectFailsKeeps,
       CallAnsweredKeeps, TimeOutKeeps
  <2>2. CASE QuarantineEnds \/ Undone \/ Saved \/ Paused \/ Release \/ Settle
    BY <2>2, QuarantineEndsKeeps, UndoneKeeps, SavedKeeps, PausedKeeps, ReleaseKeeps, SettleKeeps
  <2> QED BY <1>2, <2>1, <2>2 DEF Daemon
<1>3. ASSUME NEW m \in Messages, Send(m) \/ Queue(m) PROVE TurnInv'
  BY <1>3, SendKeeps, QueueKeeps
<1>4. CASE StoreThrows \/ CancelQueuedSend \/ Pause \/ RestartProviderThread \/ TurnCompleted \/ Disconnected
  BY <1>4, StoreThrowsKeeps, CancelQueuedSendKeeps, PauseKeeps, RestartKeeps,
     TurnCompletedKeeps, DisconnectedKeeps
<1>5. ASSUME NEW c \in calls, Begin(c) \/ Reject(c) PROVE TurnInv'
  BY <1>5, BeginKeeps, RejectKeeps
<1>6. ASSUME NEW r \in running, FinishTurn(r) PROVE TurnInv'
  BY <1>6, FinishTurnKeeps
<1>7. CASE Exit \/ BeginStop \/ StopThrows \/ ActStop \/ Crash
  BY <1>7, ExitKeeps, BeginStopKeeps, StopThrowsKeeps, ActStopKeeps, CrashKeeps
<1> QED BY <1>1, <1>2, <1>3, <1>4, <1>5, <1>6, <1>7 DEF Next

LEMMA TurnAlways == Spec => []TurnInv
  BY TurnInit, TurnStep, PTL DEF Spec

\* A message is worked on by the provider at most once, whatever session.send, the
\* release of the queued message (#releaseQueuedSessionSend), a time-out, an emergency
\* stop, a provider exit, a failed write and a restart of the daemon do to it.
THEOREM OnceCorrect == Spec => []NeverTwice
<1>1. TurnInv => NeverTwice
  BY DEF TurnInv, Once, NeverTwice
<1> QED BY <1>1, TurnAlways, PTL

\* The queued message (#queuedSessionSends and its stored row): one that waits or was
\* refused was never begun, one marked delivered was, and one nobody cancelled or
\* replaced and the provider never began is still in the store.
THEOREM QueueCorrect == Spec => []QueueIsTrue
<1>1. TurnInv => TypeOK
  <2> SUFFICES ASSUME TurnInv PROVE TypeOK
    OBVIOUS
  <2>1. op.kind \in Kinds /\ op.pc \in Pcs /\ op.msg \in Turns /\ op.thread \in 0..MaxThreads
    BY DEF TurnInv, Shapes, OpSet
  <2> QED BY <2>1 DEF TurnInv, Shapes, JobFits, Delivering, TypeOK
<1>2. TurnInv => RowIsTrue
  BY DEF TurnInv, Shapes, Queued, Untouched, RowIsTrue
<1>3. TurnInv => NothingLost
  BY DEF TurnInv, Shapes, Queued, NothingLost
<1> QED BY <1>1, <1>2, <1>3, TurnAlways, PTL DEF QueueIsTrue

\* No turn runs unseen: on an idle session a running turn is the active one or on a
\* thread remembered as not stopped (#failedEmergencyThreads, a quarantined thread whose
\* cleanup failed), and an emergency stop whose writes do not throw leaves no other.
THEOREM TrackedCorrect == Spec => []TurnsAreTracked
<1>1. TurnInv => NoOrphanTurn
  BY NoOpFits DEF TurnInv, Tracked, Marked, Quarantined, NoOrphanTurn, Idle
<1>2. TurnInv => StopReaches
  BY DEF TurnInv
<1> QED BY <1>1, <1>2, TurnAlways, PTL DEF TurnsAreTracked

=============================================================================
