--------------------------- MODULE TransferJournal ---------------------------
(***************************************************************************)
(* One entry of the target's transfer journal                               *)
(* (apps/daemon/src/transfer-transactions.ts): a directory with a status    *)
(* file, the chunks of the members that are arriving and the members that   *)
(* have arrived; and the source: the send that fills it                     *)
(* (sendPreparedSessionTransfer, sendMember), which session.transfer starts *)
(* once, and the reconciliation that asks about a send that broke off and    *)
(* may resume it (#recoverSessionTransfer).                                  *)
(*                                                                         *)
(* The daemon serves the calls for a transfer one at a time, so one call is *)
(* in progress (step); every durable write of it is a step of its own, and  *)
(* the target may die between any two of them.  The source's package is     *)
(* verified before it is sent, so the bytes of a chunk are right unless its *)
(* write was cut short ("torn").                                            *)
(*                                                                         *)
(* Whether the session was taken over (owned) is the ownership row of       *)
(* SessionTransfer, and the status answer for an entry that is gone.        *)
(***************************************************************************)
EXTENDS Naturals, Sequences, FiniteSets

CONSTANTS
    Members,     \* the members the manifest declares
    Size,        \* how many chunks a member has
    Resumes,     \* the sends that are resumed: "cut" (this daemon's) or "awaited"
    MaxFaults    \* bound: crashes, lost connections, failed writes, pruned packages

ASSUME JournalAssumption ==
    /\ IsFiniteSet(Members)
    /\ Members # {}
    /\ Size \in Nat \ {0}
    /\ Resumes # {}
    /\ Resumes \subseteq {"cut", "awaited"}
    /\ MaxFaults \in Nat

VARIABLES
    status,    \* the status file, "absent" when there is no entry
    chunks,    \* per member: the chunk files, in order
    members,   \* the member files: complete and verified
    owned,     \* is the transfer in transfer_ownership?
    sender,    \* the source: the call it is at, and whether its package is still there
    step,      \* the call in progress: what it does next, for which chunk
    faults

journalVars == <<status, chunks, members, owned>>
vars == <<status, chunks, members, owned, sender, step, faults>>

States == {"absent", "receiving", "prepared", "recovering", "failed", "committed", "aborted"}

Replies == States \cup {"refused", "member-received", "error"}

Steps == {"none", "write", "publish", "clean", "finish", "discard", "restore",
          "mark", "touch", "fail", "remove"}

Calls == {"status", "prepare", "member", "commit", "abort"}

\* by: who calls, session.transfer's send, reconciliation, or the send it resumed (cut,
\* awaited).
\* wait: idle between two attempts; sent, working or answered while a call is out; over
\* when the source completed or thawed.  todo: the members that are still to be sent.
Idle == [by |-> "recover", call |-> "status", wait |-> "idle", reply |-> "error", todo |-> {},
         member |-> CHOOSE m \in Members : TRUE, sequence |-> 0, package |-> TRUE]

Resting == [at |-> "none", member |-> Idle.member, sequence |-> 0]

Init ==
    /\ status = "absent"
    /\ chunks = [m \in Members |-> <<>>]
    /\ members = {}
    /\ owned = FALSE
    /\ sender = [Idle EXCEPT !.by = "send"]
    /\ step = Resting
    /\ faults = 0

Fault ==
    /\ faults < MaxFaults
    /\ faults' = faults + 1

\* #missingMembers
Missing == Members \ members

Final(sequence) == sequence = Size - 1

-----------------------------------------------------------------------------
(* The target's calls. *)

\* A call of method is at the head of the transfer's queue.
Asked(method) ==
    /\ step.at = "none"
    /\ sender.wait = "sent"
    /\ sender.call = method

\* The handler takes the call, to answer it later.
Accept(next) ==
    /\ step' = [at |-> next, member |-> sender.member, sequence |-> sender.sequence]
    /\ sender' = [sender EXCEPT !.wait = "working"]

\* The handler answers the call at once.
Reply(r) ==
    /\ sender' = [sender EXCEPT !.wait = "answered", !.reply = r]
    /\ UNCHANGED step

\* The handler in progress goes on.
Continue(next) ==
    /\ step' = [step EXCEPT !.at = next]
    /\ UNCHANGED sender

\* The handler in progress ends; the source hears of it if it still waits for it.
End(r) ==
    /\ step' = Resting
    /\ sender' = IF sender.wait = "working"
                 THEN [sender EXCEPT !.wait = "answered", !.reply = r]
                 ELSE sender

\* The entry's directory is gone.
Gone ==
    /\ status' = "absent"
    /\ chunks' = [m \in Members |-> <<>>]
    /\ members' = {}

\* #removeIncomingTransferPackage, whose failure is reported and nothing else.
RemovePackage ==
    \/ Gone /\ UNCHANGED faults
    \/ Fault /\ UNCHANGED <<status, chunks, members>>

\* A handler other than transfer.member answers an owned transfer from its row and
\* removes the entry.
ServeOwned ==
    /\ owned
    /\ \E method \in Calls \ {"member"} : Asked(method)
    /\ RemovePackage
    /\ Reply("committed")
    /\ UNCHANGED owned

\* status
ServeStatus ==
    /\ Asked("status")
    /\ ~owned
    /\ Reply(status)
    /\ UNCHANGED <<journalVars, faults>>

\* Mutant: a complete entry is reported prepared and left receiving.
MutantPrepareUnwritten ==
    /\ Asked("prepare")
    /\ ~owned
    /\ status' = IF status = "absent" THEN "receiving" ELSE status
    /\ sender' = [sender EXCEPT !.wait = "answered", !.todo = Missing,
                   !.reply = IF Missing = {} THEN "prepared" ELSE "receiving"]
    /\ UNCHANGED <<chunks, members, owned, step, faults>>

\* prepare: the entry is published by a rename, an entry that is there is adopted.
\* One whose members are all there is prepared, whatever the crash left behind; else
\* the answer names the members that are missing.
ServePrepare ==
    /\ Asked("prepare")
    /\ ~owned
    /\ LET open == status \in {"absent", "receiving", "prepared"}
           now == IF Missing = {} THEN "prepared" ELSE "receiving"
       IN /\ status' = CASE ~open -> status
                         [] open /\ Missing = {} -> "prepared"
                         [] OTHER -> IF status = "absent" THEN "receiving" ELSE status
          /\ sender' = [sender EXCEPT !.wait = "answered", !.todo = Missing,
                         !.reply = CASE open -> now
                                     [] status = "committed" -> "committed"
                                     [] OTHER -> "refused"]
    /\ UNCHANGED <<chunks, members, owned, step, faults>>

\* acceptMember up to its first write: what is there already is adopted when it is
\* the same, and anything else but the next chunk is refused.
ServeMember ==
    LET m == sender.member
        k == sender.sequence
        adopted == k < Len(chunks[m]) /\ chunks[m][k + 1] = "whole"
    IN
    /\ Asked("member")
    /\ CASE status \in {"absent", "aborted", "committed", "recovering", "failed"} -> Reply("refused")
         [] status = "prepared" -> Reply("prepared")
         [] status = "receiving" /\ m \in members ->
               Reply(IF Missing = {} THEN "prepared" ELSE "member-received")
         [] status = "receiving" /\ m \notin members /\ adopted ->
               IF Final(k) THEN Accept("publish") ELSE Reply("receiving")
         [] status = "receiving" /\ m \notin members /\ k = Len(chunks[m]) -> Accept("write")
         [] OTHER -> Reply("refused")
    /\ UNCHANGED <<journalVars, faults>>

\* The chunk's file is written and flushed.
WriteChunk ==
    /\ step.at = "write"
    /\ chunks' = [chunks EXCEPT ![step.member] = Append(@, "whole")]
    /\ IF Final(step.sequence) THEN Continue("publish") ELSE End("receiving")
    /\ UNCHANGED <<status, members, owned, faults>>

\* The write is cut short.
Tear == chunks' = [chunks EXCEPT ![step.member] = Append(@, "torn")]

\* #publishRetainedMember: the member is put together, verified and renamed, or the
\* final chunk is dropped and the call refused.
Publish ==
    /\ step.at = "publish"
    /\ LET m == step.member
           verified == chunks[m] = [k \in 1 .. Size |-> "whole"]
       IN IF verified
          THEN /\ members' = members \cup {m}
               /\ Continue("clean")
               /\ UNCHANGED chunks
          ELSE /\ chunks' = [chunks EXCEPT ![m] = SubSeq(@, 1, Len(@) - 1)]
               /\ End("refused")
               /\ UNCHANGED members
    /\ UNCHANGED <<status, owned, faults>>

\* #completedMemberResult: the chunks go,
Clean ==
    /\ step.at = "clean"
    /\ chunks' = [chunks EXCEPT ![step.member] = <<>>]
    /\ Continue("finish")
    /\ UNCHANGED <<status, members, owned, faults>>

\* Mutant: the last member of a send ends the entry.
MutantFinishLastSent ==
    /\ step.at = "finish"
    /\ status' = IF sender.todo \subseteq {step.member} THEN "prepared" ELSE status
    /\ End(IF sender.todo \subseteq {step.member} THEN "prepared" ELSE "member-received")
    /\ UNCHANGED <<chunks, members, owned, faults>>

\* and the entry is prepared when no member is missing.
Finish ==
    /\ step.at = "finish"
    /\ status' = IF Missing = {} THEN "prepared" ELSE status
    /\ End(IF Missing = {} THEN "prepared" ELSE "member-received")
    /\ UNCHANGED <<chunks, members, owned, faults>>

\* abort: the status first,
ServeAbort ==
    /\ Asked("abort")
    /\ ~owned
    /\ CASE status = "absent" -> Reply("error") /\ UNCHANGED status
         [] status = "committed" -> Reply("committed") /\ UNCHANGED status
         [] OTHER -> Accept("discard") /\ status' = "aborted"
    /\ UNCHANGED <<chunks, members, owned, faults>>

\* then the files.
Discard ==
    /\ step.at = "discard"
    /\ chunks' = [m \in Members |-> <<>>]
    /\ members' = {}
    /\ End("aborted")
    /\ UNCHANGED <<status, owned, faults>>

\* Mutant: an entry found recovering is taken to be in another commit's hands.
MutantCommitRecoveringBusy ==
    /\ Asked("commit")
    /\ ~owned
    /\ CASE status \in {"absent", "recovering"} -> Reply("error") /\ UNCHANGED status
         [] status \in {"receiving", "aborted"} -> Reply("refused") /\ UNCHANGED status
         [] status = "committed" -> Reply("committed") /\ UNCHANGED status
         [] OTHER -> Accept("restore") /\ status' = "recovering"
    /\ UNCHANGED <<chunks, members, owned, faults>>

\* commitPreparedSessionTransfer: markRecovering, unless the status refuses.
ServeCommit ==
    /\ Asked("commit")
    /\ ~owned
    /\ CASE status = "absent" -> Reply("error") /\ UNCHANGED status
         [] status \in {"receiving", "aborted"} -> Reply("refused") /\ UNCHANGED status
         [] status = "committed" -> Reply("committed") /\ UNCHANGED status
         [] OTHER -> Accept("restore") /\ status' = "recovering"
    /\ UNCHANGED <<chunks, members, owned, faults>>

\* Every member is read, the session is restored and the ownership row saved; or one
\* of them fails, always when a member is missing.
Restore ==
    /\ step.at = "restore"
    /\ \/ /\ Missing = {}
          /\ owned' = TRUE
          /\ Continue("mark")
          /\ UNCHANGED faults
       \/ /\ IF Missing = {} THEN Fault ELSE UNCHANGED faults
          /\ Continue("fail")
          /\ UNCHANGED owned
    /\ UNCHANGED <<status, chunks, members>>

\* markCommitted: the status,
Mark ==
    /\ step.at = "mark"
    /\ \/ /\ status' = "committed"
          /\ Continue("touch")
          /\ UNCHANGED faults
       \/ /\ Fault
          /\ Continue("fail")
          /\ UNCHANGED status
    /\ UNCHANGED <<chunks, members, owned>>

\* then the activity file.
Touch ==
    /\ step.at = "touch"
    /\ \/ Continue("remove") /\ UNCHANGED faults
       \/ Fault /\ Continue("fail")
    /\ UNCHANGED journalVars

\* Mutant: markFailed does not look at the status it replaces.
MutantMarkFailedAnyway ==
    /\ step.at = "fail"
    /\ status' = "failed"
    /\ End("error")
    /\ UNCHANGED <<chunks, members, owned, faults>>

\* markFailed: not over a terminal status; and its own failure is swallowed.
MarkFailed ==
    /\ step.at = "fail"
    /\ \/ /\ status' = IF status \in {"committed", "aborted"} THEN status ELSE "failed"
          /\ UNCHANGED faults
       \/ /\ Fault
          /\ UNCHANGED status
    /\ End("error")
    /\ UNCHANGED <<chunks, members, owned>>

\* The commit's last step removes the package.
Remove ==
    /\ step.at = "remove"
    /\ RemovePackage
    /\ End("committed")
    /\ UNCHANGED owned

\* A write fails: the chunk's, which may leave a part of it, or one whose failure
\* leaves everything as it was.
FailStep ==
    /\ Fault
    /\ \/ step.at = "write" /\ Tear
       \/ step.at \in {"write", "publish", "clean", "finish", "discard"} /\ UNCHANGED chunks
    /\ End("error")
    /\ UNCHANGED <<status, members, owned>>

-----------------------------------------------------------------------------
(* The source. *)

Call(method) == [sender EXCEPT !.call = method, !.wait = "sent", !.reply = "error"]

\* What is left of an attempt that brought no result: reconciliation's next one.
Dropped == [sender EXCEPT !.wait = "idle", !.by = "recover"]

\* session.transfer's send, or reconciliation, asks for the status.
Begin ==
    /\ sender.wait = "idle"
    /\ sender' = [Idle EXCEPT !.wait = "sent", !.by = sender.by, !.package = sender.package]
    /\ UNCHANGED <<journalVars, step, faults>>

\* An answer that the caller is still there to hear.
Told(calls, replies) ==
    /\ sender.wait = "answered"
    /\ sender.by # "cut"
    /\ sender.call \in calls
    /\ sender.reply \in replies

\* A send goes on with prepare.
AfterStatus ==
    /\ sender.by # "recover"
    /\ Told({"status"}, {"absent", "receiving", "prepared"})
    /\ sender' = Call("prepare")
    /\ UNCHANGED <<journalVars, step, faults>>

\* Reconciliation asks again for a commit that failed; it resumes the send while the
\* package is here, and when it is gone has the target abort, or thaws.
Reconcile ==
    /\ sender.by = "recover"
    /\ \/ /\ Told({"status"}, {"recovering", "failed"})
          /\ sender' = Call("commit")
       \/ /\ Told({"status"}, {"absent", "receiving", "prepared"})
          /\ sender.package
          /\ \E by \in Resumes : sender' = [Call("status") EXCEPT !.by = by]
       \/ /\ Told({"status"}, {"receiving", "prepared"})
          /\ ~sender.package
          /\ sender' = Call("abort")
       \/ /\ Told({"status"}, {"absent"})
          /\ ~sender.package
          /\ sender' = [sender EXCEPT !.wait = "over"]
    /\ UNCHANGED <<journalVars, step, faults>>

\* This daemon returns the resumed send, not awaited, from the try whose finally closes
\* its connection: its status call is rejected before the answer, and nothing comes of
\* it.
Cut ==
    /\ sender.by = "cut"
    /\ sender.wait \in {"sent", "answered"}
    /\ sender' = Dropped
    /\ UNCHANGED <<journalVars, step, faults>>

\* The missing members one by one, each from its first chunk.
AfterPrepare ==
    /\ Told({"prepare"}, {"receiving"})
    /\ \E m \in sender.todo :
          sender' = [Call("member") EXCEPT !.member = m, !.sequence = 0]
    /\ UNCHANGED <<journalVars, step, faults>>

\* sendMember goes through all chunks of a member whatever the target says of them,
\* and the loop of sendPreparedSessionTransfer through all members it was asked for.
AfterMember ==
    LET rest == sender.todo \ {sender.member} IN
    /\ Told({"member"}, {"receiving", "member-received", "prepared"})
    /\ \/ /\ ~Final(sender.sequence)
          /\ sender' = [Call("member") EXCEPT !.sequence = @ + 1]
       \/ /\ Final(sender.sequence)
          /\ \E m \in rest :
                sender' = [Call("member") EXCEPT !.todo = rest, !.member = m, !.sequence = 0]
       \/ /\ Final(sender.sequence)
          /\ rest = {}
          /\ sender' = Call("commit")
    /\ UNCHANGED <<journalVars, step, faults>>

\* prepare found everything there.
AfterPrepared ==
    /\ Told({"prepare"}, {"prepared"})
    /\ sender' = Call("commit")
    /\ UNCHANGED <<journalVars, step, faults>>

\* The source completes or thaws.
Conclude ==
    /\ Told(Calls, {"committed", "aborted", "refused"})
    /\ sender' = [sender EXCEPT !.wait = "over"]
    /\ UNCHANGED <<journalVars, step, faults>>

\* An error is no result, nor is an entry that a send finds recovering or failed.
GiveUp ==
    /\ Told(Calls, {"error"}) \/ (sender.by # "recover" /\ Told({"status"}, {"recovering", "failed"}))
    /\ sender' = Dropped
    /\ UNCHANGED <<journalVars, step, faults>>

-----------------------------------------------------------------------------
(* Faults. *)

\* The connection breaks; a handler in progress runs on.
Lose ==
    /\ sender.wait \in {"sent", "working", "answered"}
    /\ Fault
    /\ sender' = Dropped
    /\ UNCHANGED <<journalVars, step>>

\* The source restarts and prunes its package, which saw no activity for long.
Prune ==
    /\ sender.wait # "over"
    /\ sender.package
    /\ Fault
    /\ sender' = [Dropped EXCEPT !.package = FALSE]
    /\ UNCHANGED <<journalVars, step>>

\* The target dies: a chunk in the writing may be torn, and an entry without recent
\* activity is pruned at the start.
Crash(expired) ==
    /\ Fault
    /\ IF expired
       THEN Gone
       ELSE /\ \/ UNCHANGED chunks
               \/ step.at = "write" /\ Tear
            /\ UNCHANGED <<status, members>>
    /\ step' = Resting
    /\ sender' = IF sender.wait \in {"sent", "working", "answered"} THEN Dropped ELSE sender
    /\ UNCHANGED owned

TargetStep ==
    \/ ServeOwned
    \/ ServeStatus
    \/ ServePrepare
    \/ ServeMember
    \/ WriteChunk
    \/ Publish
    \/ Clean
    \/ Finish
    \/ ServeAbort
    \/ Discard
    \/ ServeCommit
    \/ Restore
    \/ Mark
    \/ Touch
    \/ MarkFailed
    \/ Remove

SourceStep ==
    \/ Begin
    \/ AfterStatus
    \/ Reconcile
    \/ Cut
    \/ AfterPrepare
    \/ AfterMember
    \/ AfterPrepared
    \/ Conclude
    \/ GiveUp

Next ==
    \/ TargetStep
    \/ SourceStep
    \/ FailStep
    \/ Lose
    \/ Prune
    \/ \E expired \in BOOLEAN : Crash(expired)

Spec == Init /\ [][Next]_vars

\* Handlers run on; the source acts on what it is told, and while it stays frozen its
\* reconciliation is scheduled again after every attempt (#armTransferReconciliation).
Fairness == WF_vars(TargetStep) /\ WF_vars(SourceStep)

FairSpec == Spec /\ Fairness

-----------------------------------------------------------------------------

Senders == [by : {"send", "recover", "cut", "awaited"}, call : Calls,
            wait : {"idle", "sent", "working", "answered", "over"}, reply : Replies,
            todo : SUBSET Members, member : Members, sequence : 0 .. Size - 1,
            package : BOOLEAN]

\* The types of the entry and of the send: no chunk beyond a member's last is sent.
TypeOK ==
    /\ status \in States
    /\ chunks \in [Members -> Seq({"whole", "torn"})]
    /\ members \subseteq Members
    /\ owned \in BOOLEAN
    /\ sender \in Senders
    /\ step \in [at : Steps, member : Members, sequence : 0 .. Size - 1]
    /\ faults \in 0 .. MaxFaults

\* A package that may be committed is all there: whatever crashed, was retried or was
\* adopted, an entry beyond receiving and not aborted has every member, so that the
\* commit does not fail for a missing one.
PreparedIsComplete ==
    status \in {"prepared", "recovering", "failed", "committed"} => Missing = {}

\* A retry is not turned away by what an earlier attempt left: the target refuses only
\* when a chunk was cut short.  Chunks and members that arrived are adopted, and a
\* source that was told prepared is not refused its commit (a refusal thaws it).
RefusedOnlyWhenTorn ==
    sender.wait = "answered" /\ sender.reply = "refused" =>
        \E m \in Members : \E k \in 1 .. Len(chunks[m]) : chunks[m][k] = "torn"

\* Chunks are a prefix of their member, cut short at the end at most: #chunks never
\* finds a malformed directory, and a member is put together in order.
ChunksArePrefix ==
    \A m \in Members :
        /\ Len(chunks[m]) <= Size
        /\ \A k \in 1 .. Len(chunks[m]) : chunks[m][k] = "torn" => k = Len(chunks[m])

\* An entry that ended stays ended until it is removed: no write of a call that was
\* in progress, and no failure after the commit, revives it.
EndedStaysEnded ==
    [][/\ status = "aborted" => status' \in {"aborted", "absent"}
       /\ status = "committed" => status' \in {"committed", "absent"}]_vars

\* The entry as a send may still be resumed into it.
Resumable == ~owned /\ status \in {"absent", "receiving", "prepared"}

\* A move comes to an end: from whatever a crash, a failed write or a lost answer left
\* at the target, the first send or reconciliation completes or thaws the source.  One
\* state only holds it for ever, that of the resumed send that nobody awaits: the
\* package is here and the target waits for the rest of it.  No entry stays recovering
\* or failed, no commit unheard, and none that lost its package stays half received.
EndsOrIsHeld ==
    <>(sender.wait = "over") \/ <>[](sender.package /\ Resumable)

\* What a retry meets on disk is sound: the chunks kept are the first ones, and a
\* retry is refused only for a torn one.
ChunksAreSound == ChunksArePrefix /\ RefusedOnlyWhenTorn
=============================================================================
