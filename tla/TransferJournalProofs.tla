------------------------ MODULE TransferJournalProofs ------------------------
(***************************************************************************)
(* The safety of a journal entry, for every number of members, chunks and   *)
(* faults.  PreparedIsComplete alone is not inductive: a handler in          *)
(* progress was let in by a status it does not look at again, so Guarded     *)
(* says what status each of its later steps still finds.                     *)
(***************************************************************************)
EXTENDS TransferJournal, TLAPS

\* The status a handler's later steps rely on: nobody changed it since it was read.
Guarded ==
    /\ step.at \in {"write", "publish", "clean", "finish"} => status = "receiving"
    /\ step.at = "discard" => status = "aborted"
    /\ step.at \in {"restore", "mark"} => status = "recovering"
    /\ step.at \in {"touch", "remove"} => status = "committed"
    /\ step.at = "fail" => status \in {"recovering", "committed"}

\* A committed entry belongs to an owned transfer.
CommittedIsOwned ==
    /\ status = "committed" => owned
    /\ step.at = "mark" => owned

JournalInv ==
    /\ TypeOK
    /\ PreparedIsComplete
    /\ Guarded
    /\ CommittedIsOwned

Control == [at : Steps, member : Members, sequence : 0 .. Size - 1]

-----------------------------------------------------------------------------
(* What the steps of a handler do to the call. *)

LEMMA IdleType ==
    /\ Idle \in Senders
    /\ Resting \in Control
    /\ Resting.at = "none"
<1>1. Idle.member \in Members
  BY JournalAssumption DEF Idle
<1>2. 0 \in 0 .. Size - 1
  BY JournalAssumption
<1>3. QED
  BY <1>1, <1>2 DEF Idle, Resting, Senders, Control, Calls, Replies, States, Steps

LEMMA AcceptType ==
    ASSUME NEW next \in Steps, sender \in Senders, Accept(next)
    PROVE  sender' \in Senders /\ step' \in Control /\ step'.at = next
BY DEF Accept, Senders, Control

LEMMA ReplyType ==
    ASSUME NEW r \in Replies, sender \in Senders, Reply(r)
    PROVE  sender' \in Senders /\ step' = step
BY DEF Reply, Senders

LEMMA ContinueType ==
    ASSUME NEW next \in Steps, sender \in Senders, step \in Control, Continue(next)
    PROVE  sender' \in Senders /\ step' \in Control /\ step'.at = next
BY DEF Continue, Senders, Control

LEMMA EndType ==
    ASSUME NEW r \in Replies, sender \in Senders, End(r)
    PROVE  sender' \in Senders /\ step' \in Control /\ step'.at = "none"
<1>1. step' \in Control /\ step'.at = "none"
  BY IdleType DEF End
<1>2. sender' \in Senders
  BY DEF End, Senders
<1>3. QED
  BY <1>1, <1>2

LEMMA CallType ==
    ASSUME NEW method \in Calls, sender \in Senders
    PROVE  Call(method) \in Senders
BY DEF Call, Senders, Replies, Calls

LEMMA DroppedType ==
    ASSUME sender \in Senders
    PROVE  /\ Dropped \in Senders /\ Dropped.wait = "idle"
           /\ [Dropped EXCEPT !.package = FALSE] \in Senders
           /\ [Dropped EXCEPT !.package = FALSE].wait = "idle"
BY DEF Dropped, Senders

LEMMA EmptyType == [m \in Members |-> <<>>] \in [Members -> Seq({"whole", "torn"})]
OBVIOUS

LEMMA FaultType ==
    ASSUME faults \in 0 .. MaxFaults, Fault
    PROVE  faults' \in 0 .. MaxFaults
BY JournalAssumption DEF Fault

LEMMA TearType ==
    ASSUME chunks \in [Members -> Seq({"whole", "torn"})], step \in Control, Tear
    PROVE  chunks' \in [Members -> Seq({"whole", "torn"})]
BY DEF Tear, Control

LEMMA RemoveType ==
    ASSUME TypeOK, RemovePackage
    PROVE  /\ status' \in States
           /\ chunks' \in [Members -> Seq({"whole", "torn"})]
           /\ members' \subseteq Members
           /\ faults' \in 0 .. MaxFaults
           /\ \/ status' = "absent" 
              \/ status' = status /\ members' = members
BY FaultType, EmptyType DEF TypeOK, RemovePackage, Gone, States

-----------------------------------------------------------------------------
(* The invariant. *)

LEMMA InitInv == Init => JournalInv
<1> SUFFICES ASSUME Init PROVE JournalInv
  OBVIOUS
<1>1. step.at = "none"
  BY IdleType DEF Init
<1>2. TypeOK
  <2>1. sender \in Senders /\ step \in Control
    BY IdleType DEF Init, Senders
  <2>2. chunks \in [Members -> Seq({"whole", "torn"})]
    BY EmptyType DEF Init
  <2>3. faults \in 0 .. MaxFaults
    BY JournalAssumption DEF Init
  <2>4. status \in States /\ members \subseteq Members /\ owned \in BOOLEAN
    BY DEF Init, States
  <2>5. QED
    BY <2>1, <2>2, <2>3, <2>4 DEF TypeOK, Control
<1>3. QED
  BY <1>1, <1>2 DEF Init, JournalInv, PreparedIsComplete, Guarded, CommittedIsOwned

\* The journal is untouched and the handler's place is the same, or it rests.
LEMMA QuietInv ==
    ASSUME JournalInv, UNCHANGED journalVars,
           sender' \in Senders, step' \in Control, faults' \in 0 .. MaxFaults,
           step'.at = step.at \/ step'.at = "none"
    PROVE  JournalInv'
<1>1. TypeOK'
  BY DEF JournalInv, TypeOK, journalVars, Control
<1>2. PreparedIsComplete'
  BY DEF JournalInv, PreparedIsComplete, Missing, journalVars
<1>3. Guarded' /\ CommittedIsOwned'
  BY DEF JournalInv, Guarded, CommittedIsOwned, journalVars
<1>4. QED
  BY <1>1, <1>2, <1>3 DEF JournalInv

LEMMA TargetInv ==
    ASSUME JournalInv, TargetStep
    PROVE  JournalInv'
<1> USE DEF JournalInv
<1>t. /\ TypeOK /\ sender \in Senders /\ step \in Control /\ faults \in 0 .. MaxFaults
  BY DEF TypeOK, Control
<1>r. /\ States \subseteq Replies
      /\ {"refused", "member-received", "error"} \subseteq Replies
  BY DEF Replies
<1>1. CASE ServeOwned
  <2>1. sender' \in Senders /\ step' = step /\ step.at = "none" /\ owned' = owned
    BY <1>1, <1>t, <1>r, ReplyType DEF ServeOwned, Asked, States
  <2>2. /\ status' \in States
        /\ chunks' \in [Members -> Seq({"whole", "torn"})]
        /\ members' \subseteq Members
        /\ faults' \in 0 .. MaxFaults
        /\ \/ status' = "absent"
           \/ status' = status /\ members' = members
    BY <1>1, <1>t, RemoveType DEF ServeOwned
  <2>3. TypeOK'
    BY <1>t, <2>1, <2>2 DEF TypeOK, Control
  <2>4. PreparedIsComplete'
    BY <2>2 DEF PreparedIsComplete, Missing
  <2>5. Guarded' /\ CommittedIsOwned'
    BY <2>1, <2>2, <1>1 DEF Guarded, CommittedIsOwned, ServeOwned
  <2>6. QED
    BY <2>3, <2>4, <2>5
<1>2. CASE ServeStatus
  <2>1. status \in Replies
    BY <1>t, <1>r DEF TypeOK
  <2>2. sender' \in Senders /\ step' = step
    BY <1>2, <1>t, <2>1, ReplyType DEF ServeStatus
  <2>3. QED
    BY <1>2, <1>t, <2>2, QuietInv DEF ServeStatus
<1>3. CASE ServePrepare
  <2>1. /\ step.at = "none" /\ ~owned
        /\ UNCHANGED <<chunks, members, owned, step, faults>>
    BY <1>3 DEF ServePrepare, Asked
  <2>2. sender' \in Senders
    BY <1>3, <1>t, <1>r DEF ServePrepare, Senders, Missing, Replies, States
  <2>3. /\ status' \in States
        /\ \/ status' = status
           \/ status' = "prepared" /\ Missing = {}
           \/ status' = "receiving"
    BY <1>3, <1>t DEF ServePrepare, TypeOK, States
  <2>4. TypeOK'
    BY <1>t, <2>1, <2>2, <2>3 DEF TypeOK
  <2>5. PreparedIsComplete'
    BY <2>1, <2>3 DEF PreparedIsComplete, Missing
  <2>6. Guarded' /\ CommittedIsOwned'
    BY <2>1, <2>3 DEF Guarded, CommittedIsOwned
  <2>7. QED
    BY <2>4, <2>5, <2>6
<1>4. CASE ServeMember
  <2>1. step.at = "none" /\ UNCHANGED journalVars /\ UNCHANGED faults
    BY <1>4 DEF ServeMember, Asked
  <2>2. CASE \E r \in Replies : Reply(r)
    <3>1. sender' \in Senders /\ step' = step
      BY <2>2, <1>t, ReplyType
    <3>2. QED
      BY <3>1, <2>1, <1>t, QuietInv
  <2>3. CASE status = "receiving" /\ \E next \in {"write", "publish"} : Accept(next)
    <3>1. sender' \in Senders /\ step' \in Control /\ step'.at \in {"write", "publish"}
      BY <2>3, <1>t, AcceptType DEF Steps
    <3>2. TypeOK'
      BY <3>1, <2>1, <1>t DEF TypeOK, Control, journalVars
    <3>3. PreparedIsComplete' /\ Guarded' /\ CommittedIsOwned'
      BY <3>1, <2>1, <2>3 DEF PreparedIsComplete, Missing, Guarded, CommittedIsOwned, journalVars
    <3>4. QED
      BY <3>2, <3>3
  <2>4. \/ \E r \in Replies : Reply(r)
        \/ status = "receiving" /\ \E next \in {"write", "publish"} : Accept(next)
    <3> DEFINE m == sender.member
               k == sender.sequence
               adopted == k < Len(chunks[m]) /\ chunks[m][k + 1] = "whole"
               A == status \in {"absent", "aborted", "committed", "recovering", "failed"}
               B == status = "prepared"
               C == status = "receiving" /\ m \in members
               D == status = "receiving" /\ m \notin members /\ adopted
               E == status = "receiving" /\ m \notin members /\ k = Len(chunks[m])
               Done == IF Missing = {} THEN "prepared" ELSE "member-received"
    <3>0. /\ "refused" \in Replies /\ "prepared" \in Replies /\ "receiving" \in Replies
          /\ Done \in Replies
      BY DEF Replies, States
    <3>1. CASE A
      <4>1. Reply("refused")
        BY <1>4, <3>1 DEF ServeMember
      <4>2. QED
        BY <4>1, <3>0
    <3>2. CASE B
      <4>1. Reply("prepared")
        BY <1>4, <3>2 DEF ServeMember
      <4>2. QED
        BY <4>1, <3>0
    <3>3. CASE C
      <4>1. Reply(Done)
        BY <1>4, <3>3 DEF ServeMember
      <4>2. QED
        BY <4>1, <3>0
    <3>4. QED
      BY <1>4, <3>0, <3>1, <3>2, <3>3, <1>t DEF ServeMember, TypeOK, States
  <2>5. QED
    BY <2>2, <2>3, <2>4
<1>5. CASE WriteChunk
  <2>1. /\ step.at = "write" /\ UNCHANGED <<status, members, owned, faults>>
        /\ chunks' \in [Members -> Seq({"whole", "torn"})]
    BY <1>5, <1>t DEF WriteChunk, Control, TypeOK
  <2>2. /\ sender' \in Senders /\ step' \in Control
        /\ step'.at \in {"publish", "none"}
    <3>1. CASE Final(step.sequence)
      BY <3>1, <1>5, <1>t, ContinueType DEF WriteChunk, Steps
    <3>2. CASE ~Final(step.sequence)
      BY <3>2, <1>5, <1>t, EndType DEF WriteChunk, Replies, States
    <3>3. QED
      BY <3>1, <3>2
  <2>3. TypeOK'
    BY <1>t, <2>1, <2>2 DEF TypeOK, Control
  <2>4. PreparedIsComplete' /\ Guarded' /\ CommittedIsOwned'
    BY <2>1, <2>2 DEF PreparedIsComplete, Missing, Guarded, CommittedIsOwned
  <2>5. QED
    BY <2>3, <2>4
<1>6. CASE Publish
  <2>1. /\ step.at = "publish" /\ status = "receiving"
        /\ UNCHANGED <<status, owned, faults>>
    BY <1>6 DEF Publish, Guarded
  <2> DEFINE m == step.member
             verified == chunks[m] = [k \in 1 .. Size |-> "whole"]
  <2>2. CASE verified
    <3>1. sender' \in Senders /\ step' \in Control /\ step'.at = "clean"
      BY <2>2, <1>6, <1>t, ContinueType DEF Publish, Steps
    <3>2. TypeOK'
      BY <1>6, <2>2, <3>1, <2>1, <1>t DEF Publish, TypeOK, Control
    <3>3. PreparedIsComplete' /\ Guarded' /\ CommittedIsOwned'
      BY <2>1, <3>1 DEF PreparedIsComplete, Guarded, CommittedIsOwned
    <3>4. QED
      BY <3>2, <3>3
  <2>3. CASE ~verified
    <3>1. sender' \in Senders /\ step' \in Control /\ step'.at = "none"
      BY <2>3, <1>6, <1>t, <1>r, EndType DEF Publish
    <3>2. chunks[m] \in Seq({"whole", "torn"}) /\ m \in Members
      BY <1>t DEF TypeOK, Control
    <3>3. SubSeq(chunks[m], 1, Len(chunks[m]) - 1) \in Seq({"whole", "torn"})
      BY <3>2
    <3>4. chunks' \in [Members -> Seq({"whole", "torn"})]
      BY <1>6, <2>3, <3>3, <1>t DEF Publish, TypeOK
    <3>5. TypeOK'
      BY <1>6, <2>3, <3>1, <3>4, <2>1, <1>t DEF Publish, TypeOK, Control
    <3>6. PreparedIsComplete' /\ Guarded' /\ CommittedIsOwned'
      BY <2>1, <3>1 DEF PreparedIsComplete, Guarded, CommittedIsOwned
    <3>7. QED
      BY <3>5, <3>6
  <2>4. QED
    BY <2>2, <2>3
<1>7. CASE Clean
  <2>1. /\ step.at = "clean" /\ UNCHANGED <<status, members, owned, faults>>
        /\ chunks' \in [Members -> Seq({"whole", "torn"})]
    BY <1>7, <1>t DEF Clean, Control, TypeOK
  <2>2. sender' \in Senders /\ step' \in Control /\ step'.at = "finish"
    BY <1>7, <1>t, ContinueType DEF Clean, Steps
  <2>3. TypeOK'
    BY <1>t, <2>1, <2>2 DEF TypeOK, Control
  <2>4. PreparedIsComplete' /\ Guarded' /\ CommittedIsOwned'
    BY <2>1, <2>2 DEF PreparedIsComplete, Missing, Guarded, CommittedIsOwned
  <2>5. QED
    BY <2>3, <2>4
<1>8. CASE Finish
  <2>1. /\ step.at = "finish" /\ status = "receiving"
        /\ UNCHANGED <<chunks, members, owned, faults>>
        /\ status' = IF Missing = {} THEN "prepared" ELSE status
    BY <1>8 DEF Finish, Guarded
  <2>2. sender' \in Senders /\ step' \in Control /\ step'.at = "none"
    <3>1. (IF Missing = {} THEN "prepared" ELSE "member-received") \in Replies
      BY DEF Replies, States
    <3>2. QED
      BY <1>8, <1>t, <3>1, EndType DEF Finish
  <2>3. TypeOK'
    BY <1>t, <2>1, <2>2 DEF TypeOK, Control, States
  <2>4. PreparedIsComplete'
    BY <2>1 DEF PreparedIsComplete, Missing
  <2>5. Guarded' /\ CommittedIsOwned'
    BY <2>1, <2>2 DEF Guarded, CommittedIsOwned
  <2>6. QED
    BY <2>3, <2>4, <2>5
<1>9. CASE ServeAbort
  <2>1. step.at = "none" /\ ~owned /\ UNCHANGED <<chunks, members, owned, faults>>
    BY <1>9 DEF ServeAbort, Asked
  <2>2. CASE status = "absent" \/ status = "committed"
    <3>1. /\ UNCHANGED status
          /\ Reply("error") \/ Reply("committed")
      BY <1>9, <2>2 DEF ServeAbort
    <3>2. sender' \in Senders /\ step' = step
      BY <3>1, <1>t, <1>r, ReplyType DEF States
    <3>3. QED
      BY <2>1, <3>1, <3>2, <1>t, QuietInv DEF journalVars
  <2>3. CASE status # "absent" /\ status # "committed"
    <3>1. status' = "aborted" /\ Accept("discard")
      BY <1>9, <2>3 DEF ServeAbort
    <3>2. sender' \in Senders /\ step' \in Control /\ step'.at = "discard"
      BY <3>1, <1>t, AcceptType DEF Steps
    <3>3. TypeOK'
      BY <2>1, <3>1, <3>2, <1>t DEF TypeOK, Control, States
    <3>4. PreparedIsComplete' /\ Guarded' /\ CommittedIsOwned'
      BY <3>1, <3>2 DEF PreparedIsComplete, Guarded, CommittedIsOwned
    <3>5. QED
      BY <3>3, <3>4
  <2>4. QED
    BY <2>2, <2>3
<1>10. CASE Discard
  <2>1. /\ step.at = "discard" /\ status = "aborted" /\ members' = {}
        /\ UNCHANGED <<status, owned, faults>>
        /\ chunks' \in [Members -> Seq({"whole", "torn"})]
    BY <1>10, EmptyType DEF Discard, Guarded
  <2>2. sender' \in Senders /\ step' \in Control /\ step'.at = "none"
    BY <1>10, <1>t, <1>r, EndType DEF Discard, States
  <2>3. TypeOK'
    BY <1>t, <2>1, <2>2 DEF TypeOK, Control
  <2>4. PreparedIsComplete' /\ Guarded' /\ CommittedIsOwned'
    BY <2>1, <2>2 DEF PreparedIsComplete, Guarded, CommittedIsOwned
  <2>5. QED
    BY <2>3, <2>4
<1>11. CASE ServeCommit
  <2>1. step.at = "none" /\ ~owned /\ UNCHANGED <<chunks, members, owned, faults>>
    BY <1>11 DEF ServeCommit, Asked
  <2>2. CASE status \in {"absent", "receiving", "aborted", "committed"}
    <3>1. /\ UNCHANGED status
          /\ Reply("error") \/ Reply("committed") \/ Reply("refused")
      BY <1>11, <2>2 DEF ServeCommit
    <3>2. sender' \in Senders /\ step' = step
      BY <3>1, <1>t, <1>r, ReplyType DEF States
    <3>3. QED
      BY <2>1, <3>1, <3>2, <1>t, QuietInv DEF journalVars
  <2>3. CASE status \notin {"absent", "receiving", "aborted", "committed"}
    <3>1. status' = "recovering" /\ Accept("restore")
      BY <1>11, <2>3 DEF ServeCommit
    <3>2. sender' \in Senders /\ step' \in Control /\ step'.at = "restore"
      BY <3>1, <1>t, AcceptType DEF Steps
    <3>3. TypeOK'
      BY <2>1, <3>1, <3>2, <1>t DEF TypeOK, Control, States
    <3>4. Missing = {}
      BY <2>3, <1>t DEF PreparedIsComplete, TypeOK, States
    <3>5. PreparedIsComplete' /\ Guarded' /\ CommittedIsOwned'
      BY <2>1, <3>1, <3>2, <3>4 DEF PreparedIsComplete, Missing, Guarded, CommittedIsOwned
    <3>6. QED
      BY <3>3, <3>5
  <2>4. QED
    BY <2>2, <2>3
<1>12. CASE Restore
  <2>1. /\ step.at = "restore" /\ status = "recovering"
        /\ UNCHANGED <<status, chunks, members>>
        /\ faults' \in 0 .. MaxFaults
        /\ owned' \in BOOLEAN
        /\ \/ owned' = TRUE /\ Continue("mark")
           \/ owned' = owned /\ Continue("fail")
    BY <1>12, <1>t, FaultType DEF Restore, Guarded, TypeOK
  <2>2. /\ sender' \in Senders /\ step' \in Control
        /\ \/ step'.at = "mark" /\ owned'
           \/ step'.at = "fail" /\ owned' = owned
    BY <2>1, <1>t, ContinueType DEF Steps
  <2>3. TypeOK'
    BY <1>t, <2>1, <2>2 DEF TypeOK, Control
  <2>4. PreparedIsComplete' /\ Guarded' /\ CommittedIsOwned'
    BY <2>1, <2>2 DEF PreparedIsComplete, Missing, Guarded, CommittedIsOwned
  <2>5. QED
    BY <2>3, <2>4
<1>13. CASE Mark
  <2>1. /\ step.at = "mark" /\ status = "recovering" /\ owned
        /\ UNCHANGED <<chunks, members, owned>>
        /\ faults' \in 0 .. MaxFaults
        /\ \/ status' = "committed" /\ Continue("touch")
           \/ status' = status /\ Continue("fail")
    BY <1>13, <1>t, FaultType DEF Mark, Guarded, CommittedIsOwned
  <2>2. /\ sender' \in Senders /\ step' \in Control
        /\ \/ step'.at = "touch" /\ status' = "committed"
           \/ step'.at = "fail" /\ status' = status
    BY <2>1, <1>t, ContinueType DEF Steps
  <2>3. TypeOK'
    BY <1>t, <2>1, <2>2 DEF TypeOK, Control, States
  <2>4. PreparedIsComplete' /\ Guarded' /\ CommittedIsOwned'
    BY <2>1, <2>2 DEF PreparedIsComplete, Missing, Guarded, CommittedIsOwned
  <2>5. QED
    BY <2>3, <2>4
<1>14. CASE Touch
  <2>1. /\ step.at = "touch" /\ status = "committed"
        /\ UNCHANGED journalVars
        /\ faults' \in 0 .. MaxFaults
        /\ Continue("remove") \/ Continue("fail")
    BY <1>14, <1>t, FaultType DEF Touch, Guarded
  <2>2. /\ sender' \in Senders /\ step' \in Control
        /\ step'.at \in {"remove", "fail"}
    BY <2>1, <1>t, ContinueType DEF Steps
  <2>3. TypeOK'
    BY <1>t, <2>1, <2>2 DEF TypeOK, Control, journalVars
  <2>4. PreparedIsComplete' /\ Guarded' /\ CommittedIsOwned'
    BY <2>1, <2>2 DEF PreparedIsComplete, Missing, Guarded, CommittedIsOwned, journalVars
  <2>5. QED
    BY <2>3, <2>4
<1>15. CASE MarkFailed
  <2>1. /\ step.at = "fail" /\ status \in {"recovering", "committed"}
        /\ UNCHANGED <<chunks, members, owned>>
        /\ faults' \in 0 .. MaxFaults
        /\ status' = status \/ status' = "failed"
    BY <1>15, <1>t, FaultType DEF MarkFailed, Guarded
  <2>2. sender' \in Senders /\ step' \in Control /\ step'.at = "none"
    BY <1>15, <1>t, <1>r, EndType DEF MarkFailed
  <2>3. TypeOK'
    BY <1>t, <2>1, <2>2 DEF TypeOK, Control, States
  <2>4. PreparedIsComplete' /\ Guarded' /\ CommittedIsOwned'
    BY <2>1, <2>2 DEF PreparedIsComplete, Missing, Guarded, CommittedIsOwned
  <2>5. QED
    BY <2>3, <2>4
<1>16. CASE Remove
  <2>1. /\ status' \in States
        /\ chunks' \in [Members -> Seq({"whole", "torn"})]
        /\ members' \subseteq Members
        /\ faults' \in 0 .. MaxFaults
        /\ owned' = owned
        /\ \/ status' = "absent"
           \/ status' = status /\ members' = members
    BY <1>16, <1>t, RemoveType DEF Remove
  <2>2. sender' \in Senders /\ step' \in Control /\ step'.at = "none"
    BY <1>16, <1>t, <1>r, EndType DEF Remove, States
  <2>3. TypeOK'
    BY <1>t, <2>1, <2>2 DEF TypeOK, Control
  <2>4. PreparedIsComplete' /\ Guarded' /\ CommittedIsOwned'
    BY <2>1, <2>2 DEF PreparedIsComplete, Missing, Guarded, CommittedIsOwned
  <2>5. QED
    BY <2>3, <2>4
<1>17. QED
  BY <1>1, <1>2, <1>3, <1>4, <1>5, <1>6, <1>7, <1>8, <1>9, <1>10, <1>11, <1>12, <1>13,
     <1>14, <1>15, <1>16 DEF TargetStep

LEMMA SourceInv ==
    ASSUME JournalInv, SourceStep
    PROVE  JournalInv'
<1>t. /\ sender \in Senders /\ step \in Control /\ faults \in 0 .. MaxFaults
  BY DEF JournalInv, TypeOK, Control
<1>1. UNCHANGED <<journalVars, step, faults>>
  BY DEF SourceStep, Begin, AfterStatus, Reconcile, Cut, AfterPrepare, AfterMember, AfterPrepared,
         Conclude, GiveUp
<1>2. sender' \in Senders
  <2>1. CASE Begin
    BY <2>1, <1>t, IdleType DEF Begin, Senders
  <2>2. CASE AfterStatus
    BY <2>2, <1>t, CallType DEF AfterStatus, Calls
  <2>9. CASE Reconcile
    <3>1. /\ Call("abort") \in Senders /\ Call("commit") \in Senders
          /\ Call("status") \in Senders /\ [sender EXCEPT !.wait = "over"] \in Senders
      BY <1>t, CallType DEF Calls, Senders
    <3>2. ASSUME NEW by \in Resumes
          PROVE  [Call("status") EXCEPT !.by = by] \in Senders
      <4>1. by \in {"cut", "awaited"}
        BY JournalAssumption
      <4>2. QED
        BY <3>1, <4>1 DEF Senders
    <3>3. QED
      BY <2>9, <3>1, <3>2 DEF Reconcile
  <2>10. CASE Cut
    BY <2>10, <1>t, DroppedType DEF Cut
  <2>3. CASE AfterPrepare
    <3>1. PICK m \in sender.todo :
             sender' = [Call("member") EXCEPT !.member = m, !.sequence = 0]
      BY <2>3 DEF AfterPrepare
    <3>2. Call("member") \in Senders /\ m \in Members
      BY <1>t, CallType DEF Calls, Senders
    <3>3. 0 \in 0 .. Size - 1
      BY JournalAssumption
    <3>4. QED
      BY <3>1, <3>2, <3>3 DEF Senders
  <2>4. CASE AfterMember
    <3> DEFINE rest == sender.todo \ {sender.member}
    <3>1. Call("member") \in Senders /\ Call("commit") \in Senders
      BY <1>t, CallType DEF Calls
    <3>2. rest \subseteq Members /\ sender.sequence \in 0 .. Size - 1
      BY <1>t DEF Senders
    <3>3. Call("member").sequence = sender.sequence
      BY <1>t DEF Call, Senders
    <3>4. CASE ~Final(sender.sequence)
      <4>1. sender' = [Call("member") EXCEPT !.sequence = @ + 1]
        BY <2>4, <3>4 DEF AfterMember
      <4>2. sender.sequence + 1 \in 0 .. Size - 1
        BY <3>2, <3>4, JournalAssumption DEF Final
      <4>3. QED
        BY <4>1, <4>2, <3>1, <3>3 DEF Senders
    <3>5. CASE Final(sender.sequence) /\ sender' = Call("commit")
      BY <3>1, <3>5
    <3>6. CASE \E m \in rest :
                 sender' = [Call("member") EXCEPT !.todo = rest, !.member = m, !.sequence = 0]
      <4>1. PICK m \in rest :
               sender' = [Call("member") EXCEPT !.todo = rest, !.member = m, !.sequence = 0]
        BY <3>6
      <4>2. 0 \in 0 .. Size - 1
        BY JournalAssumption
      <4>3. rest \subseteq Members /\ m \in Members
        BY <3>2
      <4>4. QED
        BY <4>1, <4>2, <4>3, <3>1 DEF Senders
    <3>7. QED
      BY <2>4, <3>4, <3>5, <3>6 DEF AfterMember
  <2>5. CASE AfterPrepared
    BY <2>5, <1>t, CallType DEF AfterPrepared, Calls
  <2>6. CASE Conclude
    BY <2>6, <1>t DEF Conclude, Senders
  <2>7. CASE GiveUp
    BY <2>7, <1>t, DroppedType DEF GiveUp
  <2>8. QED
    BY <2>1, <2>2, <2>3, <2>4, <2>5, <2>6, <2>7, <2>9, <2>10 DEF SourceStep
<1>3. QED
  BY <1>t, <1>1, <1>2, QuietInv

LEMMA FaultInv ==
    ASSUME JournalInv, FailStep \/ Lose \/ Prune \/ \E expired \in BOOLEAN : Crash(expired)
    PROVE  JournalInv'
<1> USE DEF JournalInv
<1>t. /\ TypeOK /\ sender \in Senders /\ step \in Control /\ faults \in 0 .. MaxFaults
  BY DEF TypeOK, Control
<1>1. CASE FailStep
  <2>1. /\ UNCHANGED <<status, members, owned>> /\ faults' \in 0 .. MaxFaults
        /\ chunks' \in [Members -> Seq({"whole", "torn"})]
    BY <1>1, <1>t, FaultType, TearType DEF FailStep, TypeOK
  <2>2. sender' \in Senders /\ step' \in Control /\ step'.at = "none"
    BY <1>1, <1>t, EndType DEF FailStep, Replies
  <2>3. TypeOK'
    BY <1>t, <2>1, <2>2 DEF TypeOK, Control
  <2>4. PreparedIsComplete' /\ Guarded' /\ CommittedIsOwned'
    BY <2>1, <2>2 DEF PreparedIsComplete, Missing, Guarded, CommittedIsOwned
  <2>5. QED
    BY <2>3, <2>4
<1>2. CASE Lose \/ Prune
  <2>1. sender' \in Senders /\ faults' \in 0 .. MaxFaults
    BY <1>2, <1>t, FaultType, DroppedType DEF Lose, Prune
  <2>2. QED
    BY <1>2, <1>t, <2>1, QuietInv DEF Lose, Prune
<1>3. ASSUME NEW expired \in BOOLEAN, Crash(expired) PROVE JournalInv'
  <2>1. /\ faults' \in 0 .. MaxFaults /\ owned' = owned
        /\ sender' \in Senders
    BY <1>3, <1>t, FaultType, DroppedType DEF Crash
  <2>2. step' \in Control /\ step'.at = "none"
    BY <1>3, IdleType DEF Crash
  <2>3. /\ status' \in States
        /\ chunks' \in [Members -> Seq({"whole", "torn"})]
        /\ members' \subseteq Members
        /\ \/ status' = "absent"
           \/ status' = status /\ members' = members
    <3>1. CASE expired
      BY <1>3, <3>1, EmptyType DEF Crash, Gone, States
    <3>2. CASE ~expired
      BY <1>3, <3>2, <1>t, TearType DEF Crash, TypeOK
    <3>3. QED
      BY <3>1, <3>2
  <2>4. TypeOK'
    BY <1>t, <2>1, <2>2, <2>3 DEF TypeOK, Control
  <2>5. PreparedIsComplete' /\ Guarded' /\ CommittedIsOwned'
    BY <2>1, <2>2, <2>3 DEF PreparedIsComplete, Missing, Guarded, CommittedIsOwned
  <2>6. QED
    BY <2>4, <2>5
<1>4. QED
  BY <1>1, <1>2, <1>3

LEMMA NextInv == JournalInv /\ [Next]_vars => JournalInv'
<1> SUFFICES ASSUME JournalInv, [Next]_vars PROVE JournalInv'
  OBVIOUS
<1>1. CASE Next
  BY <1>1, TargetInv, SourceInv, FaultInv DEF Next
<1>2. CASE UNCHANGED vars
  BY <1>2, QuietInv DEF vars, journalVars, JournalInv, TypeOK, Control
<1>3. QED
  BY <1>1, <1>2

LEMMA JournalAlways == Spec => []JournalInv
BY InitInv, NextInv, PTL DEF Spec

-----------------------------------------------------------------------------
(* The theorems. *)

\* The types of the entry and of the send: sendMember never asks for a chunk beyond
\* the last one.
THEOREM TypeCorrect == Spec => []TypeOK
<1>1. JournalInv => TypeOK
  BY DEF JournalInv
<1>2. QED
  BY <1>1, JournalAlways, PTL

\* A package that may be committed is complete, whatever crashed or was retried while
\* acceptMember filled it.
THEOREM PreparedCorrect == Spec => []PreparedIsComplete
<1>1. JournalInv => PreparedIsComplete
  BY DEF JournalInv
<1>2. QED
  BY <1>1, JournalAlways, PTL

\* An entry that was aborted or committed is never revived, by no write of markFailed,
\* prepare or a member that was arriving.
THEOREM EndedCorrect == Spec => EndedStaysEnded
<1>1. JournalInv /\ [Next]_vars =>
        [/\ status = "aborted" => status' \in {"aborted", "absent"}
         /\ status = "committed" => status' \in {"committed", "absent"}]_vars
  <2> SUFFICES ASSUME JournalInv, Next
               PROVE  /\ status = "aborted" => status' \in {"aborted", "absent"}
                      /\ status = "committed" => status' \in {"committed", "absent"}
    OBVIOUS
  <2>1. CASE TargetStep
    <3>1. CASE ServeOwned \/ Remove
      BY <3>1 DEF ServeOwned, Remove, RemovePackage, Gone
    <3>2. CASE ServeStatus \/ ServeMember \/ Touch
      BY <3>2 DEF ServeStatus, ServeMember, Touch, journalVars
    <3>3. CASE ServePrepare \/ ServeAbort \/ ServeCommit
      BY <3>3 DEF ServePrepare, ServeAbort, ServeCommit, JournalInv, CommittedIsOwned
    <3>4. CASE WriteChunk \/ Publish \/ Clean \/ Discard \/ Restore
      BY <3>4 DEF WriteChunk, Publish, Clean, Discard, Restore
    <3>5. CASE Finish \/ Mark \/ MarkFailed
      BY <3>5 DEF Finish, Mark, MarkFailed, JournalInv, Guarded
    <3>6. QED
      BY <2>1, <3>1, <3>2, <3>3, <3>4, <3>5 DEF TargetStep
  <2>2. CASE SourceStep
    BY <2>2 DEF SourceStep, Begin, AfterStatus, Reconcile, Cut, AfterPrepare, AfterMember,
                AfterPrepared, Conclude, GiveUp, journalVars
  <2>3. CASE FailStep \/ Lose \/ Prune \/ \E expired \in BOOLEAN : Crash(expired)
    BY <2>3 DEF FailStep, Lose, Prune, Crash, Gone, journalVars
  <2>4. QED
    BY <2>1, <2>2, <2>3 DEF Next
<1>2. QED
  BY <1>1, JournalAlways, PTL DEF Spec, EndedStaysEnded

-----------------------------------------------------------------------------
(* Chunks, and what a retry is told. *)

\* The first n chunks of m, as far as they are there, are whole.
Whole(m, n) == \A k \in 1 .. Len(chunks[m]) : k <= n => chunks[m][k] = "whole"

\* The source has got n chunks of m across: m is complete, or they are there.
Reached(m, n) == m \in members \/ (n <= Len(chunks[m]) /\ Whole(m, n))

\* The chunks a member leaves behind, and those of the member that is being written,
\* are whole.
Kept ==
    /\ \A m \in members : Whole(m, Size)
    /\ step.at = "write" =>
          /\ step.member \notin members
          /\ step.sequence = Len(chunks[step.member])
          /\ Whole(step.member, Size)
    /\ step.at = "publish" =>
          /\ Final(step.sequence)
          /\ chunks[step.member] = [k \in 1 .. Size |-> "whole"]
    /\ step.at \in {"clean", "finish"} => Final(step.sequence) /\ step.member \in members

\* The steps of acceptMember.
Receiving == {"write", "publish", "clean", "finish"}

\* Who may be waiting while a handler is in progress: the source whose call it is, or
\* one that lost its connection and at most asked for the status since.
Served ==
    /\ step.at # "none" => \/ sender.wait \in {"working", "idle"}
                           \/ sender.wait = "sent" /\ sender.call = "status"
    /\ sender.wait = "working" => sender.call \in {"member", "abort", "commit"}
    /\ sender.wait = "working" /\ sender.call = "member" =>
          /\ step.at \in Receiving
          /\ step.member = sender.member
          /\ step.sequence = sender.sequence

Sending == sender.call = "member" /\ sender.wait \in {"sent", "working", "answered"}

\* What is still as it was when the source chose the call it has sent.
Chosen ==
    sender.wait = "sent" =>
        /\ sender.call = "prepare" => status \in {"absent", "receiving", "prepared"}
        /\ sender.call = "commit" => status \notin {"receiving", "aborted"}
        /\ sender.call = "member" =>
              /\ status \in {"receiving", "prepared"}
              /\ status = "receiving" => Missing # {}
              /\ Reached(sender.member, sender.sequence)

\* What an answer says is so.
AnswerIsTrue ==
    sender.wait = "answered" =>
        /\ sender.call = "status" => sender.reply \in {status, "committed"}
        /\ sender.call = "prepare" /\ sender.reply = "receiving" =>
              status = "receiving" /\ sender.todo = Missing /\ Missing # {}
        /\ sender.call \in {"prepare", "member"} /\ sender.reply = "prepared" => status = "prepared"
        /\ sender.call = "member" /\ sender.reply = "receiving" =>
              /\ status = "receiving" /\ ~Final(sender.sequence) /\ Missing # {}
              /\ Reached(sender.member, sender.sequence + 1)
        /\ sender.call = "member" /\ sender.reply = "member-received" =>
              status = "receiving" /\ Missing # {} /\ sender.member \in members

SendInv ==
    /\ ChunksArePrefix
    /\ RefusedOnlyWhenTorn
    /\ Kept
    /\ Served
    /\ Sending => Missing \subseteq sender.todo
    /\ Chosen
    /\ AnswerIsTrue

\* What the steps of a handler do to the call, field by field.
LEMMA EndFields ==
    ASSUME NEW r, sender \in Senders, End(r)
    PROVE  /\ step'.at = "none"
           /\ sender.wait # "working" => sender' = sender
           /\ sender.wait = "working" =>
                 /\ sender'.wait = "answered" /\ sender'.reply = r
                 /\ sender'.call = sender.call /\ sender'.todo = sender.todo
                 /\ sender'.member = sender.member /\ sender'.sequence = sender.sequence
BY IdleType DEF End, Senders

LEMMA ContinueFields ==
    ASSUME NEW next, step \in Control, Continue(next)
    PROVE  /\ sender' = sender /\ step'.at = next
           /\ step'.member = step.member /\ step'.sequence = step.sequence
BY DEF Continue, Control

LEMMA ReplyFields ==
    ASSUME NEW r, sender \in Senders, Reply(r)
    PROVE  /\ step' = step /\ sender'.wait = "answered" /\ sender'.reply = r
           /\ sender'.call = sender.call /\ sender'.todo = sender.todo
           /\ sender'.member = sender.member /\ sender'.sequence = sender.sequence
BY DEF Reply, Senders

LEMMA AcceptFields ==
    ASSUME NEW next, sender \in Senders, Accept(next)
    PROVE  /\ step'.at = next /\ step'.member = sender.member /\ step'.sequence = sender.sequence
           /\ sender'.wait = "working" /\ sender'.call = sender.call /\ sender'.todo = sender.todo
           /\ sender'.member = sender.member /\ sender'.sequence = sender.sequence
BY DEF Accept, Senders

LEMMA ChunkTypes ==
    ASSUME TypeOK
    PROVE  /\ \A m \in Members : chunks[m] \in Seq({"whole", "torn"}) /\ Len(chunks[m]) \in Nat
           /\ sender \in Senders /\ step \in Control /\ Size \in Nat \ {0}
           /\ sender.member \in Members /\ sender.sequence \in 0 .. Size - 1
           /\ step.member \in Members /\ step.sequence \in 0 .. Size - 1
BY JournalAssumption DEF TypeOK, Senders, Control

\* No chunks are no harm.
LEMMA EmptySound ==
    ASSUME TypeOK, chunks' = [m \in Members |-> <<>>], members' = {}
    PROVE  ChunksArePrefix' /\ \A m \in members' : Whole(m, Size)'
BY JournalAssumption DEF ChunksArePrefix

\* A chunk is written, whole or torn, after whole ones only.
LEMMA AppendSound ==
    ASSUME JournalInv, SendInv, step.at = "write", NEW chunk \in {"whole", "torn"},
           NEW w, w = step.member,
           chunks' = [chunks EXCEPT ![w] = Append(@, chunk)], members' = members
    PROVE  /\ ChunksArePrefix'
           /\ \A m \in members' : Whole(m, Size)'
           /\ Len(chunks'[w]) = Len(chunks[w]) + 1
           /\ chunk = "whole" => \A n \in Nat : Whole(w, n)'
<1>1. /\ \A m \in Members : chunks[m] \in Seq({"whole", "torn"}) /\ Len(chunks[m]) \in Nat
      /\ w \in Members /\ step.sequence \in 0 .. Size - 1 /\ Size \in Nat
      /\ chunks \in [Members -> Seq({"whole", "torn"})]
      /\ members \subseteq Members
  BY ChunkTypes DEF JournalInv, TypeOK
<1>2. /\ w \notin members /\ step.sequence = Len(chunks[w])
      /\ \A k \in 1 .. Len(chunks[w]) : chunks[w][k] = "whole"
  BY <1>1 DEF SendInv, Kept, Whole
<1>3. /\ chunks'[w] = Append(chunks[w], chunk)
      /\ \A m \in Members : m # w => chunks'[m] = chunks[m]
  BY <1>1
<1>4. /\ Len(chunks'[w]) = Len(chunks[w]) + 1
      /\ \A k \in 1 .. Len(chunks'[w]) :
            chunks'[w][k] = IF k = Len(chunks[w]) + 1 THEN chunk ELSE "whole"
  BY <1>1, <1>2, <1>3
<1>5. ChunksArePrefix'
  <2> SUFFICES ASSUME NEW m \in Members
               PROVE  /\ Len(chunks'[m]) <= Size
                      /\ \A k \in 1 .. Len(chunks'[m]) : chunks'[m][k] = "torn" => k = Len(chunks'[m])
    BY DEF ChunksArePrefix
  <2>1. CASE m = w
    BY <1>1, <1>2, <1>4, <2>1
  <2>2. CASE m # w
    BY <1>3, <2>2 DEF SendInv, ChunksArePrefix
  <2>3. QED
    BY <2>1, <2>2
<1>6. \A m \in members' : Whole(m, Size)'
  BY <1>1, <1>2, <1>3 DEF SendInv, Kept, Whole
<1>7. chunk = "whole" => \A n \in Nat : \A k \in 1 .. Len(chunks'[w]) : k <= n => chunks'[w][k] = "whole"
  BY <1>4
<1>8. QED
  BY <1>4, <1>5, <1>6, <1>7 DEF Whole

\* A handler ends.
LEMMA EndSound ==
    ASSUME JournalInv, SendInv, step.at # "none", NEW r, r # "refused", End(r),
           ChunksArePrefix', \A m \in members' : Whole(m, Size)',
           sender.wait = "working" /\ sender.call = "member" =>
              /\ Missing' \subseteq sender.todo
              /\ r = "prepared" => status' = "prepared"
              /\ r = "receiving" =>
                    /\ status' = "receiving" /\ ~Final(sender.sequence) /\ Missing' # {}
                    /\ Reached(sender.member, sender.sequence + 1)'
              /\ r = "member-received" =>
                    status' = "receiving" /\ Missing' # {} /\ sender.member \in members'
    PROVE  SendInv'
<1>1. sender \in Senders
  BY DEF JournalInv, TypeOK
<1>2. \/ sender.wait \in {"working", "idle"}
      \/ sender.wait = "sent" /\ sender.call = "status"
  BY DEF SendInv, Served
<1>3. Kept' /\ Served'
  BY <1>1, <1>2, EndFields DEF Kept, Served
<1>4. CASE sender.wait # "working"
  <2>1. sender' = sender
    BY <1>1, <1>4, EndFields
  <2>2. QED
    BY <1>2, <1>3, <1>4, <2>1 DEF SendInv, RefusedOnlyWhenTorn, Sending, Chosen, AnswerIsTrue
<1>5. CASE sender.wait = "working"
  <2>1. /\ sender'.wait = "answered" /\ sender'.reply = r
        /\ sender'.call = sender.call /\ sender'.todo = sender.todo
        /\ sender'.member = sender.member /\ sender'.sequence = sender.sequence
    BY <1>1, <1>5, EndFields
  <2>2. sender.call \in {"member", "abort", "commit"}
    BY <1>5 DEF SendInv, Served
  <2>3. AnswerIsTrue'
    BY <1>5, <2>1, <2>2 DEF AnswerIsTrue, Final, Reached, Whole
  <2>4. QED
    BY <1>3, <1>5, <2>1, <2>3 DEF SendInv, RefusedOnlyWhenTorn, Sending, Chosen
<1>6. QED
  BY <1>4, <1>5

\* A handler goes on.
LEMMA ContinueSound ==
    ASSUME JournalInv, SendInv, step.at # "none", NEW next, next # "none", Continue(next),
           ChunksArePrefix', Kept',
           step.at \in Receiving => next \in Receiving,
           sender.wait = "working" /\ sender.call = "member" => Missing' \subseteq sender.todo
    PROVE  SendInv'
<1>1. /\ sender' = sender /\ step'.at = next
      /\ step'.member = step.member /\ step'.sequence = step.sequence
  BY ContinueFields DEF JournalInv, TypeOK, Control
<1>2. \/ sender.wait \in {"working", "idle"}
      \/ sender.wait = "sent" /\ sender.call = "status"
  BY DEF SendInv, Served
<1>3. Served'
  BY <1>1, <1>2 DEF SendInv, Served
<1>4. QED
  BY <1>1, <1>2, <1>3 DEF SendInv, RefusedOnlyWhenTorn, Sending, Chosen, AnswerIsTrue

-----------------------------------------------------------------------------

\* The steps of acceptMember.
LEMMA ReceiveSound ==
    ASSUME JournalInv, SendInv, WriteChunk \/ Publish \/ Clean \/ Finish
    PROVE  SendInv'
<1>t. /\ \A m \in Members : chunks[m] \in Seq({"whole", "torn"}) /\ Len(chunks[m]) \in Nat
      /\ sender \in Senders /\ step \in Control /\ Size \in Nat \ {0}
      /\ sender.member \in Members /\ sender.sequence \in 0 .. Size - 1
      /\ step.member \in Members /\ step.sequence \in 0 .. Size - 1
      /\ chunks \in [Members -> Seq({"whole", "torn"})]
      /\ members \subseteq Members
  BY ChunkTypes DEF JournalInv, TypeOK
<1>k. /\ ChunksArePrefix /\ Kept /\ Served /\ (Sending => Missing \subseteq sender.todo)
      /\ sender.wait = "working" /\ sender.call = "member" =>
           /\ Missing \subseteq sender.todo
           /\ step.member = sender.member /\ step.sequence = sender.sequence
  BY DEF SendInv, Sending, Served
<1>1. CASE WriteChunk
  <2>1. PICK w : w = step.member
    OBVIOUS
  <2>2. /\ step.at = "write" /\ chunks' = [chunks EXCEPT ![w] = Append(@, "whole")]
        /\ UNCHANGED <<status, members, owned, faults>>
        /\ IF Final(step.sequence) THEN Continue("publish") ELSE End("receiving")
    BY <1>1, <2>1 DEF WriteChunk
  <2>3. /\ ChunksArePrefix' /\ \A m \in members' : Whole(m, Size)'
        /\ Len(chunks'[w]) = Len(chunks[w]) + 1 /\ \A n \in Nat : Whole(w, n)'
    BY <2>1, <2>2, AppendSound
  <2>4. w \notin members /\ step.sequence = Len(chunks[w]) /\ w \in Members /\ status = "receiving"
    BY <1>t, <1>k, <2>1, <2>2 DEF Kept, JournalInv, Guarded
  <2>5. CASE Final(step.sequence)
    <3>1. /\ Continue("publish") /\ step'.at = "publish" /\ step'.member = w
          /\ step'.sequence = step.sequence
      BY <1>t, <2>1, <2>2, <2>5, ContinueFields
    <3>2. chunks'[w] = [k \in 1 .. Size |-> "whole"]
      <4>1. Len(chunks'[w]) = Size
        BY <1>t, <2>3, <2>4, <2>5 DEF Final
      <4>2. \A k \in 1 .. Size : chunks'[w][k] = "whole"
        <5>1. Whole(w, Size)'
          BY <1>t, <2>3
        <5>2. QED
          BY <1>t, <4>1, <5>1 DEF Whole
      <4>3. chunks'[w] \in Seq({"whole", "torn"})
        BY <1>t, <2>2, <2>4
      <4>4. QED
        BY <1>t, <4>1, <4>2, <4>3
    <3>3. Kept'
      BY <2>3, <2>5, <3>1, <3>2 DEF Kept, Final
    <3>4. Missing' = Missing
      BY <2>2 DEF Missing
    <3>5. QED
      BY <1>k, <2>2, <2>3, <3>1, <3>3, <3>4, ContinueSound DEF Receiving
  <2>6. CASE ~Final(step.sequence)
    <3>1. End("receiving") /\ Missing' = Missing /\ w \in Missing /\ status' = "receiving"
      BY <2>2, <2>4, <2>6 DEF Missing
    <3>2. sender.wait = "working" /\ sender.call = "member" =>
             Reached(sender.member, sender.sequence + 1)'
      <4> SUFFICES ASSUME sender.wait = "working", sender.call = "member"
                   PROVE  Reached(sender.member, sender.sequence + 1)'
        OBVIOUS
      <4>1. sender'.member = w /\ sender'.sequence = Len(chunks[w])
        BY <1>t, <1>k, <2>1, <2>4, <3>1, EndFields
      <4>2. Len(chunks[w]) + 1 \in Nat /\ Len(chunks[w]) + 1 <= Len(chunks'[w])
        BY <1>t, <2>3, <2>4
      <4>3. QED
        BY <2>3, <4>1, <4>2 DEF Reached, Whole
    <3>3. step.at # "none" /\ "receiving" # "refused"
      BY <2>2
    <3>4. QED
      BY <1>k, <2>3, <2>6, <3>1, <3>2, <3>3, EndSound
  <2>7. QED
    BY <2>5, <2>6
<1>2. CASE Publish
  <2>1. /\ step.at = "publish" /\ UNCHANGED <<status, owned, faults>>
        /\ chunks[step.member] = [k \in 1 .. Size |-> "whole"] /\ Final(step.sequence)
    BY <1>2, <1>k DEF Publish, Kept
  <2>2. members' = members \cup {step.member} /\ Continue("clean") /\ UNCHANGED chunks
    BY <1>2, <2>1 DEF Publish
  <2>3. /\ step'.at = "clean" /\ step'.member = step.member /\ step'.sequence = step.sequence
    BY <1>t, <2>2, ContinueFields
  <2>4. Kept'
    BY <1>k, <1>t, <2>1, <2>2, <2>3 DEF Kept, Whole, Final
  <2>5. Missing' \subseteq Missing /\ ChunksArePrefix'
    BY <1>k, <2>2 DEF Missing, ChunksArePrefix
  <2>6. QED
    BY <1>k, <2>1, <2>2, <2>4, <2>5, ContinueSound DEF Receiving
<1>3. CASE Clean
  <2>1. /\ step.at = "clean" /\ chunks' = [chunks EXCEPT ![step.member] = <<>>]
        /\ Continue("finish") /\ UNCHANGED <<status, members, owned, faults>>
    BY <1>3 DEF Clean
  <2>2. /\ step'.at = "finish" /\ step'.member = step.member /\ step'.sequence = step.sequence
    BY <1>t, <2>1, ContinueFields
  <2>3. \A m \in Members : chunks'[m] = IF m = step.member THEN <<>> ELSE chunks[m]
    BY <1>t, <2>1
  <2>4. ChunksArePrefix'
    BY <1>k, <1>t, <2>3 DEF ChunksArePrefix
  <2>5. Kept'
    BY <1>k, <1>t, <2>1, <2>2, <2>3 DEF Kept, Whole, Final
  <2>6. Missing' = Missing
    BY <2>1 DEF Missing
  <2>7. QED
    BY <1>k, <2>1, <2>4, <2>5, <2>6, ContinueSound DEF Receiving
<1>4. CASE Finish
  <2> DEFINE r == IF Missing = {} THEN "prepared" ELSE "member-received"
  <2>1. /\ step.at = "finish" /\ status = "receiving" /\ step.member \in members
        /\ UNCHANGED <<chunks, members, owned, faults>>
        /\ status' = (IF Missing = {} THEN "prepared" ELSE status) /\ End(r)
    BY <1>4, <1>k DEF Finish, JournalInv, Guarded, Kept
  <2>2. /\ r \notin {"refused", "receiving"}
        /\ r = "prepared" => status' = "prepared"
        /\ r = "member-received" => status' = "receiving" /\ Missing # {}
    BY <2>1
  <2>3. /\ ChunksArePrefix' /\ (\A m \in members' : Whole(m, Size)') /\ Missing' = Missing
    BY <1>k, <2>1 DEF ChunksArePrefix, Kept, Whole, Missing
  <2> HIDE DEF r
  <2>4. QED
    BY <1>k, <2>1, <2>2, <2>3, EndSound
<1>5. QED
  BY <1>1, <1>2, <1>3, <1>4

\* The later steps of abort and commit, and a step that fails.
LEMMA SettleSound ==
    ASSUME JournalInv, SendInv,
           Discard \/ Restore \/ Mark \/ Touch \/ MarkFailed \/ Remove \/ FailStep
    PROVE  SendInv'
<1>t. TypeOK /\ step \in Control /\ sender \in Senders
  BY DEF JournalInv, TypeOK, Control
<1>k. /\ ChunksArePrefix /\ Kept
      /\ step.at \notin Receiving => ~(sender.wait = "working" /\ sender.call = "member")
  BY DEF SendInv, Served
<1>1. ASSUME NEW next \in {"mark", "fail", "touch", "remove"}, Continue(next),
             step.at \notin Receiving \cup {"none"}, UNCHANGED <<chunks, members>>
      PROVE  SendInv'
  <2>1. step'.at = next
    BY <1>t, <1>1, ContinueFields
  <2>2. ChunksArePrefix' /\ Kept'
    BY <1>k, <1>1, <2>1 DEF ChunksArePrefix, Kept, Whole
  <2>3. QED
    BY <1>k, <1>1, <2>2, ContinueSound
<1>2. ASSUME NEW r \in {"aborted", "error", "committed"}, End(r), step.at # "none",
             ChunksArePrefix', \A m \in members' : Whole(m, Size)',
             step.at \in Receiving => members' = members /\ r = "error"
      PROVE  SendInv'
  <2>1. sender.wait = "working" /\ sender.call = "member" => Missing' \subseteq sender.todo
    BY <1>k, <1>2 DEF SendInv, Sending, Missing
  <2>2. r \notin {"refused", "prepared", "receiving", "member-received"}
    BY <1>2
  <2>3. QED
    BY <1>2, <2>1, <2>2, EndSound
<1>3. ASSUME UNCHANGED <<chunks, members>>
      PROVE  ChunksArePrefix' /\ \A m \in members' : Whole(m, Size)'
  BY <1>k, <1>3 DEF ChunksArePrefix, Kept, Whole
<1>4. CASE Discard
  <2>1. ChunksArePrefix' /\ \A m \in members' : Whole(m, Size)'
    BY <1>t, <1>4, EmptySound DEF Discard
  <2>2. QED
    BY <1>2, <1>4, <2>1 DEF Discard, Receiving
<1>5. CASE Restore
  BY <1>1, <1>5 DEF Restore, Receiving
<1>6. CASE Mark
  BY <1>1, <1>6 DEF Mark, Receiving
<1>7. CASE Touch
  BY <1>1, <1>7 DEF Touch, Receiving, journalVars
<1>8. CASE MarkFailed
  BY <1>2, <1>3, <1>8 DEF MarkFailed, Receiving
<1>9. CASE Remove
  <2>1. ChunksArePrefix' /\ \A m \in members' : Whole(m, Size)'
    BY <1>t, <1>3, <1>9, EmptySound DEF Remove, RemovePackage, Gone
  <2>2. QED
    BY <1>2, <1>9, <2>1 DEF Remove, Receiving
<1>10. CASE FailStep
  <2>1. step.at \in Receiving \cup {"discard"} /\ End("error") /\ members' = members
    BY <1>10 DEF FailStep, Receiving
  <2>2. ChunksArePrefix' /\ \A m \in members' : Whole(m, Size)'
    <3>1. CASE UNCHANGED chunks
      BY <1>3, <2>1, <3>1
    <3>2. CASE step.at = "write" /\ Tear
      <4>1. PICK w : w = step.member
        OBVIOUS
      <4>2. chunks' = [chunks EXCEPT ![w] = Append(@, "torn")]
        BY <3>2, <4>1 DEF Tear
      <4>3. QED
        BY <2>1, <3>2, <4>1, <4>2, AppendSound
    <3>3. QED
      BY <1>10, <3>1, <3>2 DEF FailStep
  <2>3. QED
    BY <1>2, <2>1, <2>2 DEF Receiving
<1>11. QED
  BY <1>4, <1>5, <1>6, <1>7, <1>8, <1>9, <1>10

\* A call is answered at once.
LEMMA ReplySound ==
    ASSUME JournalInv, SendInv, step.at = "none", step' = step, sender'.wait = "answered",
           ChunksArePrefix', \A m \in members' : Whole(m, Size)',
           Sending' => Missing' \subseteq sender'.todo,
           sender'.reply = "refused" =>
              \E m \in Members : \E k \in 1 .. Len(chunks'[m]) : chunks'[m][k] = "torn",
           AnswerIsTrue'
    PROVE  SendInv'
<1>1. Kept' /\ Served' /\ Chosen' /\ RefusedOnlyWhenTorn'
  BY DEF Kept, Served, Chosen, RefusedOnlyWhenTorn
<1>2. QED
  BY <1>1 DEF SendInv

LEMMA ServeSound ==
    ASSUME JournalInv, SendInv,
           ServeOwned \/ ServeStatus \/ ServePrepare \/ ServeAbort \/ ServeCommit
    PROVE  SendInv'
<1>t. TypeOK /\ step \in Control /\ sender \in Senders
  BY DEF JournalInv, TypeOK, Control
<1>k. /\ ChunksArePrefix /\ Kept /\ Chosen
      /\ step.at = "none" /\ sender.wait = "sent"
  BY DEF SendInv, ServeOwned, ServeStatus, ServePrepare, ServeAbort, ServeCommit, Asked
<1>1. ASSUME UNCHANGED <<chunks, members>>
      PROVE  /\ ChunksArePrefix' /\ (\A m \in members' : Whole(m, Size)') /\ Missing' = Missing
             /\ ~(step'.at \in Receiving) => Kept'
  BY <1>k, <1>1 DEF ChunksArePrefix, Kept, Whole, Missing, Receiving
<1>2. ASSUME NEW r \in {"error", "committed"}, Reply(r), sender.call # "member",
             sender.call = "status" => r = "committed",
             ChunksArePrefix', \A m \in members' : Whole(m, Size)'
      PROVE  SendInv'
  <2>1. /\ step' = step /\ sender'.wait = "answered" /\ sender'.reply = r
        /\ sender'.call = sender.call
    BY <1>t, <1>2, ReplyFields
  <2>2. AnswerIsTrue' /\ ~Sending'
    BY <1>2, <2>1 DEF AnswerIsTrue, Sending
  <2>3. QED
    BY <1>k, <1>2, <2>1, <2>2, ReplySound
<1>3. ASSUME NEW next \in {"discard", "restore"}, Accept(next), sender.call \in {"abort", "commit"},
             UNCHANGED <<chunks, members>>
      PROVE  SendInv'
  <2>1. /\ step'.at = next /\ sender'.wait = "working" /\ sender'.call = sender.call
    BY <1>t, <1>3, AcceptFields
  <2>2. Kept' /\ ChunksArePrefix'
    BY <1>1, <1>3, <2>1 DEF Receiving
  <2>3. QED
    BY <1>3, <2>1, <2>2 DEF SendInv, Served, Sending, Chosen, AnswerIsTrue, RefusedOnlyWhenTorn
<1>4. CASE ServeOwned
  <2>1. ChunksArePrefix' /\ \A m \in members' : Whole(m, Size)'
    BY <1>t, <1>1, <1>4, EmptySound DEF ServeOwned, RemovePackage, Gone
  <2>2. QED
    BY <1>2, <1>4, <2>1 DEF ServeOwned, Asked
<1>5. CASE ServeStatus
  <2>1. /\ Reply(status) /\ sender.call = "status" /\ UNCHANGED <<status, chunks, members>>
    BY <1>5 DEF ServeStatus, Asked, journalVars
  <2>2. /\ step' = step /\ sender'.wait = "answered" /\ sender'.reply = status
        /\ sender'.call = "status"
    BY <1>t, <2>1, ReplyFields
  <2>3. status # "refused"
    BY <1>t DEF TypeOK, States
  <2>4. AnswerIsTrue' /\ ~Sending'
    BY <2>1, <2>2 DEF AnswerIsTrue, Sending
  <2>5. QED
    BY <1>1, <1>k, <2>1, <2>2, <2>3, <2>4, ReplySound
<1>6. CASE ServePrepare
  <2>1. /\ sender.call = "prepare" /\ UNCHANGED <<chunks, members, owned, step, faults>>
        /\ status \in {"absent", "receiving", "prepared"}
    BY <1>6, <1>k DEF ServePrepare, Asked, Chosen
  <2>2. /\ sender'.wait = "answered" /\ sender'.call = "prepare" /\ sender'.todo = Missing
        /\ sender'.reply = IF Missing = {} THEN "prepared" ELSE "receiving"
    BY <1>6, <1>t, <2>1 DEF ServePrepare, Senders
  <2>3. /\ Missing = {} => status' = "prepared"
        /\ Missing # {} => status' = "receiving"
    <3>1. status = "prepared" => Missing = {}
      BY DEF JournalInv, PreparedIsComplete
    <3>2. QED
      BY <1>6, <2>1, <3>1 DEF ServePrepare
  <2>4. AnswerIsTrue' /\ ~Sending'
    BY <1>1, <2>1, <2>2, <2>3 DEF AnswerIsTrue, Sending
  <2>5. QED
    BY <1>1, <1>k, <2>1, <2>2, <2>4, ReplySound
<1>7. CASE ServeAbort
  <2>1. /\ sender.call = "abort" /\ UNCHANGED <<chunks, members>>
        /\ Reply("error") \/ Reply("committed") \/ Accept("discard")
    BY <1>7 DEF ServeAbort, Asked
  <2>2. QED
    BY <1>1, <1>2, <1>3, <2>1
<1>8. CASE ServeCommit
  <2>1. /\ sender.call = "commit" /\ UNCHANGED <<chunks, members>>
        /\ status \notin {"receiving", "aborted"}
    BY <1>8, <1>k DEF ServeCommit, Asked, Chosen
  <2>2. Reply("error") \/ Reply("committed") \/ Accept("restore")
    BY <1>8, <2>1 DEF ServeCommit
  <2>3. QED
    BY <1>1, <1>2, <1>3, <2>1, <2>2
<1>9. QED
  BY <1>4, <1>5, <1>6, <1>7, <1>8

\* acceptMember adopts what is there, takes the next chunk, or finds a torn one.
LEMMA MemberSound ==
    ASSUME JournalInv, SendInv, ServeMember
    PROVE  SendInv'
<1> DEFINE m == sender.member
           k == sender.sequence
           adopted == k < Len(chunks[m]) /\ chunks[m][k + 1] = "whole"
           Done == IF Missing = {} THEN "prepared" ELSE "member-received"
<1>t. /\ \A n \in Members : chunks[n] \in Seq({"whole", "torn"}) /\ Len(chunks[n]) \in Nat
      /\ sender \in Senders /\ step \in Control /\ Size \in Nat \ {0}
      /\ m \in Members /\ k \in 0 .. Size - 1
      /\ chunks \in [Members -> Seq({"whole", "torn"})]
      /\ members \subseteq Members
  BY ChunkTypes DEF JournalInv, TypeOK
<1>k. /\ ChunksArePrefix /\ Kept /\ Chosen /\ Missing \subseteq sender.todo
      /\ step.at = "none" /\ sender.wait = "sent" /\ sender.call = "member"
      /\ UNCHANGED <<status, chunks, members>>
  BY DEF SendInv, ServeMember, Asked, Sending, journalVars
<1>c. /\ status \in {"receiving", "prepared"}
      /\ status = "receiving" => Missing # {}
      /\ m \in members \/ (k <= Len(chunks[m]) /\ Whole(m, k))
  BY <1>k DEF Chosen, Reached
<1>s. /\ ChunksArePrefix' /\ (\A n \in members' : Whole(n, Size)') /\ Missing' = Missing
  BY <1>k DEF ChunksArePrefix, Kept, Whole, Missing
<1>1. ASSUME NEW r, Reply(r),
             r = "refused" => \E n \in Members : \E j \in 1 .. Len(chunks[n]) : chunks[n][j] = "torn",
             r = "prepared" => status = "prepared",
             r = "receiving" =>
                /\ status = "receiving" /\ ~Final(sender.sequence)
                /\ Reached(sender.member, sender.sequence + 1),
             r = "member-received" => status = "receiving" /\ sender.member \in members
      PROVE  SendInv'
  <2>1. /\ step' = step /\ sender'.wait = "answered" /\ sender'.reply = r
        /\ sender'.call = "member" /\ sender'.todo = sender.todo
        /\ sender'.member = sender.member /\ sender'.sequence = sender.sequence
    BY <1>k, <1>t, <1>1, ReplyFields
  <2>2. AnswerIsTrue'
    BY <1>c, <1>k, <1>s, <1>1, <2>1 DEF AnswerIsTrue, Reached, Whole, Final
  <2>3. QED
    BY <1>k, <1>s, <1>1, <2>1, <2>2, ReplySound
<1>2. ASSUME NEW next \in {"write", "publish"}, Accept(next), Kept'
      PROVE  SendInv'
  <2>1. /\ step'.at = next /\ step'.member = m /\ step'.sequence = k
        /\ sender'.wait = "working" /\ sender'.call = "member" /\ sender'.todo = sender.todo
        /\ sender'.member = m /\ sender'.sequence = k
    BY <1>k, <1>t, <1>2, AcceptFields
  <2>2. QED
    BY <1>k, <1>s, <1>2, <2>1 DEF SendInv, Served, Sending, Chosen, AnswerIsTrue,
                                RefusedOnlyWhenTorn, Receiving
<1>3. CASE status = "prepared"
  <2>1. Reply("prepared")
    BY <1>3 DEF ServeMember
  <2>2. QED
    BY <1>1, <1>3, <2>1
<1>4. CASE status = "receiving" /\ m \in members
  <2>1. Reply("member-received")
    BY <1>c, <1>4 DEF ServeMember
  <2>2. QED
    BY <1>1, <1>4, <2>1
<1>5. CASE status = "receiving" /\ m \notin members /\ adopted
  <2>1. Whole(m, k + 1)
    BY <1>c, <1>t, <1>5 DEF Whole
  <2>2. IF Final(k) THEN Accept("publish") ELSE Reply("receiving")
    BY <1>5 DEF ServeMember
  <2>3. CASE Final(k)
    <3>1. Accept("publish") /\ step'.at = "publish" /\ step'.member = m /\ step'.sequence = k
      BY <1>t, <2>2, <2>3, AcceptFields
    <3>2. Len(chunks[m]) = Size
      BY <1>k, <1>t, <1>5, <2>3 DEF Final, ChunksArePrefix
    <3>3. \A j \in 1 .. Size : chunks[m][j] = "whole"
      BY <1>t, <2>1, <2>3, <3>2 DEF Whole, Final
    <3>4. chunks[m] = [j \in 1 .. Size |-> "whole"]
      BY <1>t, <3>2, <3>3
    <3>5. Kept'
      BY <1>k, <1>s, <2>3, <3>1, <3>4 DEF Kept, Final
    <3>6. QED
      BY <1>2, <3>1, <3>5
  <2>4. CASE ~Final(k)
    <3>1. Reply("receiving") /\ Reached(m, k + 1)
      BY <1>t, <1>5, <2>1, <2>2, <2>4 DEF Reached
    <3>2. QED
      BY <1>1, <1>5, <2>4, <3>1
  <2>5. QED
    BY <2>3, <2>4
<1>6. CASE status = "receiving" /\ m \notin members /\ k = Len(chunks[m])
  <2>1. Accept("write")
    BY <1>6 DEF ServeMember
  <2>2. step'.at = "write" /\ step'.member = m /\ step'.sequence = k
    BY <1>t, <2>1, AcceptFields
  <2>3. Whole(m, Size)
    BY <1>c, <1>t, <1>6 DEF Whole
  <2>4. Kept'
    BY <1>k, <1>s, <1>6, <2>2, <2>3 DEF Kept, Whole
  <2>5. QED
    BY <1>2, <2>1, <2>4
<1>7. CASE status = "receiving" /\ m \notin members /\ ~adopted /\ k # Len(chunks[m])
  <2>1. Reply("refused")
    BY <1>7 DEF ServeMember
  <2>2. k + 1 \in 1 .. Len(chunks[m]) /\ chunks[m][k + 1] # "whole"
    BY <1>c, <1>t, <1>7
  <2>3. chunks[m][k + 1] = "torn"
    BY <1>t, <2>2
  <2>4. \E n \in Members : \E j \in 1 .. Len(chunks[n]) : chunks[n][j] = "torn"
    BY <1>t, <2>2, <2>3
  <2>5. QED
    BY <1>1, <2>1, <2>4
<1>8. QED
  BY <1>c, <1>3, <1>4, <1>5, <1>6, <1>7

\* The source chooses its next call by an answer that is true.
LEMMA SourceSound ==
    ASSUME JournalInv, SendInv, SourceStep
    PROVE  SendInv'
<1>t. /\ sender \in Senders /\ Size \in Nat \ {0}
      /\ \A n \in Members : chunks[n] \in Seq({"whole", "torn"}) /\ Len(chunks[n]) \in Nat
  BY ChunkTypes DEF JournalInv
<1>k. /\ UNCHANGED <<journalVars, step, faults>> /\ UNCHANGED <<status, chunks, members, owned>>
  BY DEF SourceStep, Begin, AfterStatus, Reconcile, Cut, AfterPrepare, AfterMember, AfterPrepared,
         Conclude, GiveUp, journalVars
<1>s. ChunksArePrefix' /\ Kept' /\ Missing' = Missing
  BY <1>k DEF SendInv, ChunksArePrefix, Kept, Whole, Missing
<1>a. ASSUME NEW method, NEW s, s = Call(method)
      PROVE  /\ s.call = method /\ s.wait = "sent" /\ s.todo = sender.todo
             /\ s.member = sender.member /\ s.sequence = sender.sequence
  BY <1>t, <1>a DEF Call, Senders
<1>1. ASSUME sender'.wait \in {"idle", "over"}, step.at = "none"
      PROVE  SendInv'
  BY <1>k, <1>s, <1>1 DEF SendInv, Served, Sending, Chosen, AnswerIsTrue, RefusedOnlyWhenTorn
<1>2. ASSUME sender'.wait = "sent", sender'.call # "member",
             sender'.call = "status" \/ step.at = "none",
             sender'.call = "prepare" => status \in {"absent", "receiving", "prepared"},
             sender'.call = "commit" => status \notin {"receiving", "aborted"}
      PROVE  SendInv'
  BY <1>k, <1>s, <1>2 DEF SendInv, Served, Sending, Chosen, AnswerIsTrue, RefusedOnlyWhenTorn
<1>3. ASSUME sender'.wait = "sent", sender'.call = "member", step.at = "none",
             status \in {"receiving", "prepared"}, status = "receiving" => Missing # {},
             Reached(sender'.member, sender'.sequence), Missing \subseteq sender'.todo
      PROVE  SendInv'
  <2>1. Chosen'
    BY <1>k, <1>s, <1>3 DEF Chosen, Reached, Whole
  <2>2. QED
    BY <1>k, <1>s, <1>3, <2>1 DEF SendInv, Served, Sending, AnswerIsTrue, RefusedOnlyWhenTorn
<1>4. sender.wait = "answered" => step.at = "none"
  BY DEF SendInv, Served
<1>5. \A n \in Members : Reached(n, 0)
  BY <1>t DEF Reached, Whole
<1>6. CASE Begin
  <2>1. sender'.wait = "sent" /\ sender'.call = "status"
    BY <1>6, IdleType DEF Begin, Idle
  <2>2. QED
    BY <1>2, <2>1
<1>7. CASE AfterStatus \/ Reconcile
  <2>1. sender.wait = "answered" /\ sender.call = "status"
    BY <1>7 DEF AfterStatus, Reconcile, Told
  <2>2. sender.reply \in {status, "committed"}
    BY <2>1 DEF SendInv, AnswerIsTrue
  <2>3. CASE sender.reply \in {"absent", "receiving", "prepared"} /\ sender' = Call("prepare")
    BY <1>a, <1>2, <1>4, <2>1, <2>2, <2>3
  <2>4. CASE sender' = Call("abort")
    BY <1>a, <1>2, <1>4, <2>1, <2>4
  <2>5. CASE sender' = [sender EXCEPT !.wait = "over"]
    BY <1>t, <1>1, <1>4, <2>1, <2>5 DEF Senders
  <2>6. CASE sender.reply \in {"recovering", "failed"} /\ sender' = Call("commit")
    BY <1>a, <1>2, <1>4, <2>1, <2>2, <2>6
  <2>7. ASSUME NEW by \in Resumes, sender' = [Call("status") EXCEPT !.by = by]
        PROVE  SendInv'
    <3>1. sender'.wait = "sent" /\ sender'.call = "status"
      BY <1>t, <2>7 DEF Call, Senders
    <3>2. QED
      BY <1>2, <3>1
  <2>8. QED
    BY <1>7, <2>3, <2>4, <2>5, <2>6, <2>7 DEF AfterStatus, Reconcile, Told
<1>8. CASE AfterPrepare
  <2>1. PICK m \in sender.todo : sender' = [Call("member") EXCEPT !.member = m, !.sequence = 0]
    BY <1>8 DEF AfterPrepare
  <2>2. /\ sender.wait = "answered" /\ sender.call = "prepare" /\ sender.reply = "receiving"
        /\ status = "receiving" /\ sender.todo = Missing /\ Missing # {}
    BY <1>8 DEF AfterPrepare, Told, SendInv, AnswerIsTrue
  <2>3. /\ sender'.call = "member" /\ sender'.wait = "sent" /\ sender'.todo = sender.todo
        /\ sender'.member = m /\ sender'.sequence = 0
    BY <1>t, <2>1 DEF Call, Senders
  <2>4. m \in Members
    BY <2>2 DEF Missing
  <2>5. QED
    BY <1>3, <1>4, <1>5, <2>2, <2>3, <2>4
<1>9. CASE AfterMember
  <2> DEFINE rest == sender.todo \ {sender.member}
  <2>1. /\ sender.wait = "answered" /\ sender.call = "member"
        /\ sender.reply \in {"receiving", "member-received", "prepared"}
        /\ Missing \subseteq sender.todo /\ sender.todo \subseteq Members
    BY <1>t, <1>9 DEF AfterMember, Told, SendInv, Sending, Senders
  <2>2. /\ status \in {"receiving", "prepared"}
        /\ status = "receiving" => Missing # {}
        /\ sender.reply = "receiving" => ~Final(sender.sequence)
        /\ Reached(sender.member, sender.sequence + 1)
        /\ Final(sender.sequence) => sender.member \in members
    <3>1. sender.reply = "prepared" => status = "prepared" /\ Missing = {}
      BY <2>1 DEF SendInv, AnswerIsTrue, JournalInv, PreparedIsComplete
    <3>2. sender.member \in Members
      BY <1>t DEF Senders
    <3>3. QED
      BY <2>1, <3>1, <3>2 DEF SendInv, AnswerIsTrue, Reached, Missing
  <2>3. CASE sender' = [Call("member") EXCEPT !.sequence = @ + 1]
    <3>1. /\ sender'.call = "member" /\ sender'.wait = "sent" /\ sender'.todo = sender.todo
          /\ sender'.member = sender.member /\ sender'.sequence = sender.sequence + 1
      BY <1>t, <2>3 DEF Call, Senders
    <3>2. QED
      BY <1>3, <1>4, <2>1, <2>2, <3>1
  <2>4. CASE Final(sender.sequence) /\ \E m \in rest :
                sender' = [Call("member") EXCEPT !.todo = rest, !.member = m, !.sequence = 0]
    <3>1. PICK m \in rest :
             sender' = [Call("member") EXCEPT !.todo = rest, !.member = m, !.sequence = 0]
      BY <2>4
    <3>2. /\ sender'.call = "member" /\ sender'.wait = "sent" /\ sender'.todo = rest
          /\ sender'.member = m /\ sender'.sequence = 0
      BY <1>t, <3>1 DEF Call, Senders
    <3>3. m \in Members /\ Missing \subseteq rest
      BY <2>1, <2>2, <2>4 DEF Missing
    <3>4. QED
      BY <1>3, <1>4, <1>5, <2>1, <2>2, <3>2, <3>3
  <2>5. CASE Final(sender.sequence) /\ rest = {} /\ sender' = Call("commit")
    <3>1. Missing = {}
      BY <2>1, <2>2, <2>5 DEF Missing
    <3>2. QED
      BY <1>a, <1>2, <1>4, <2>1, <2>2, <2>5, <3>1
  <2>6. QED
    BY <1>9, <2>3, <2>4, <2>5 DEF AfterMember
<1>10. CASE AfterPrepared
  <2>1. sender.wait = "answered" /\ status = "prepared" /\ sender' = Call("commit")
    BY <1>10 DEF AfterPrepared, Told, SendInv, AnswerIsTrue
  <2>2. QED
    BY <1>a, <1>2, <1>4, <2>1
<1>11. CASE Conclude \/ GiveUp
  <2>1. sender'.wait \in {"idle", "over"} /\ sender.wait = "answered"
    BY <1>t, <1>11, DroppedType DEF Conclude, GiveUp, Told, Senders
  <2>2. QED
    BY <1>1, <1>4, <2>1
<1>12. CASE Cut
  <2>1. sender'.wait = "idle"
    BY <1>t, <1>12, DroppedType DEF Cut
  <2>2. QED
    BY <1>k, <1>s, <2>1 DEF SendInv, Served, Sending, Chosen, AnswerIsTrue, RefusedOnlyWhenTorn
<1>13. QED
  BY <1>6, <1>7, <1>8, <1>9, <1>10, <1>11, <1>12 DEF SourceStep

LEMMA LossSound ==
    ASSUME JournalInv, SendInv, Lose \/ Prune \/ \E expired \in BOOLEAN : Crash(expired)
    PROVE  SendInv'
<1>t. TypeOK /\ sender \in Senders
  BY DEF JournalInv, TypeOK
<1>1. CASE Lose \/ Prune
  <2>1. sender'.wait = "idle" /\ UNCHANGED <<status, chunks, members, step>>
    BY <1>t, <1>1, DroppedType DEF Lose, Prune, journalVars
  <2>2. ChunksArePrefix' /\ Kept'
    BY <2>1 DEF SendInv, ChunksArePrefix, Kept, Whole
  <2>3. QED
    BY <2>1, <2>2 DEF SendInv, Served, Sending, Chosen, AnswerIsTrue, RefusedOnlyWhenTorn
<1>2. ASSUME NEW expired \in BOOLEAN, Crash(expired) PROVE SendInv'
  <2>1. sender'.wait \in {"idle", "over"} /\ step'.at = "none"
    BY <1>t, <1>2, IdleType, DroppedType DEF Crash, Senders
  <2>2. ChunksArePrefix' /\ \A m \in members' : Whole(m, Size)'
    <3>1. CASE expired
      BY <1>t, <1>2, <3>1, EmptySound DEF Crash, Gone
    <3>2. CASE ~expired /\ UNCHANGED chunks
      BY <1>2, <3>2 DEF Crash, SendInv, ChunksArePrefix, Kept, Whole
    <3>3. CASE ~expired /\ step.at = "write" /\ Tear
      <4>1. PICK w : w = step.member
        OBVIOUS
      <4>2. chunks' = [chunks EXCEPT ![w] = Append(@, "torn")] /\ members' = members
        BY <1>2, <3>3, <4>1 DEF Tear, Crash
      <4>3. QED
        BY <3>3, <4>1, <4>2, AppendSound
    <3>4. QED
      BY <1>2, <3>1, <3>2, <3>3 DEF Crash
  <2>3. QED
    BY <2>1, <2>2 DEF SendInv, Kept, Served, Sending, Chosen, AnswerIsTrue, RefusedOnlyWhenTorn
<1>3. QED
  BY <1>1, <1>2

\* What a retry meets on disk is sound, for every number of members, chunks and faults:
\* acceptMember keeps the first chunks of a member in order, and the target refuses a
\* source only for a chunk that a crash or a failed write cut short.
THEOREM ChunksCorrect == Spec => []ChunksAreSound
<1>1. Init => SendInv
  <2> SUFFICES ASSUME Init PROVE SendInv
    OBVIOUS
  <2>1. step.at = "none" /\ sender.wait = "idle" /\ members = {}
    BY IdleType DEF Init, Idle
  <2>2. ChunksArePrefix
    BY JournalAssumption DEF Init, ChunksArePrefix
  <2>3. QED
    BY <2>1, <2>2 DEF SendInv, Kept, Served, Sending, Chosen, AnswerIsTrue, RefusedOnlyWhenTorn
<1>2. JournalInv /\ SendInv /\ [Next]_vars => SendInv'
  <2> SUFFICES ASSUME JournalInv, SendInv, [Next]_vars PROVE SendInv'
    OBVIOUS
  <2>1. CASE TargetStep
    BY <2>1, ReceiveSound, SettleSound, ServeSound, MemberSound DEF TargetStep
  <2>2. CASE SourceStep
    BY <2>2, SourceSound
  <2>3. CASE FailStep
    BY <2>3, SettleSound
  <2>4. CASE Lose \/ Prune \/ \E expired \in BOOLEAN : Crash(expired)
    BY <2>4, LossSound
  <2>5. CASE UNCHANGED vars
    BY <2>5 DEF vars, SendInv, ChunksArePrefix, RefusedOnlyWhenTorn, Kept, Served, Sending,
                Chosen, AnswerIsTrue, Reached, Whole, Missing
  <2>6. QED
    BY <2>1, <2>2, <2>3, <2>4, <2>5 DEF Next
<1>3. SendInv => ChunksAreSound
  BY DEF SendInv, ChunksAreSound
<1>4. QED
  BY <1>1, <1>2, <1>3, JournalAlways, PTL DEF Spec

=============================================================================
