----------------------- MODULE UpdateActivationProofs -----------------------
(***************************************************************************)
(* Proofs about UpdateActivation, for any number of coordinators, runtimes, *)
(* runs and faults.                                                         *)
(*                                                                         *)
(* Whatever is landed is landed by the holder of the fence, so the          *)
(* invariant speaks of the holder only: a run that expired or lost the      *)
(* fence may hold any stale copy.  The holder's copy is the journal from    *)
(* the moment it read or wrote one, its place in the code bounds the phase  *)
(* of the journal (Holder), and the phase bounds what may have been         *)
(* launched (Launching).  A transaction takes the fence's generation for    *)
(* its id, so nothing was launched under an id above the journal's (Fresh). *)
(***************************************************************************)
EXTENDS UpdateActivation, TLAPS

\* A transaction's id is a generation that was used; later ids launched nothing.
Fresh ==
    /\ journal.id <= runs
    /\ \A l \in Launches : l[1] > journal.id => starts[l] = 0

\* What was not launched yet, by the phase of the journal.
Launching ==
    /\ journal.phase = "prepared" => starts[<<journal.id, "starting">>] = 0
    /\ journal.phase \in {"prepared", "starting", "rollback"} =>
          starts[<<journal.id, "restarting">>] = 0

\* What runs was launched, and no two launches of a transaction run.
Running ==
    /\ \A l \in running : starts[l] # 0
    /\ \A id \in 0 .. MaxRuns :
          <<id, "restarting">> \in running => <<id, "starting">> \notin running

\* The run r of the fence's holder: before its own journal is written its generation
\* is above the journal's, afterwards its copy is the journal; the phases the journal
\* may be in, what was not launched and what was quiesced, by the run's place.
Holder(r) ==
    /\ r.generation = runs
    /\ r.at \in {"read", "judge", "prepared"} => journal.id < runs
    /\ r.at = "prepared" => r.journal.id = runs
    /\ r.at \notin {"idle", "read", "judge", "prepared"} => r.journal = journal
    /\ r.at \in {"judge", "prepared"} => journal.phase \notin Unfinished
    /\ r.at \in {"switch", "starting"} => journal.phase = "prepared"
    /\ r.at \in {"start", "started", "committed"} => journal.phase = "starting"
    /\ r.at = "reconcile" => journal.phase \in Unfinished
    /\ r.at = "rollback" => journal.phase \in Unfinished \ {"restarting"}
    /\ r.at \in {"restore", "restarting"} => journal.phase = "rollback"
    /\ r.at \in {"restart", "restarted"} => journal.phase = "restarting"
    /\ r.at = "start" => starts[<<journal.id, "starting">>] = 0
    /\ r.at = "restart" => starts[<<journal.id, "restarting">>] = 0
    /\ r.at \in {"restarting", "restart"} => <<journal.id, "starting">> \notin running

Held == \A c \in Coordinators : fence = c => Holder(run[c])

\* The inductive invariant.
ActivationInv ==
    /\ TypeOK
    /\ Fresh
    /\ Launching
    /\ StartedOnce
    /\ Running
    /\ Held

-----------------------------------------------------------------------------
(* Types. *)

LEMMA InitType == Init => TypeOK
<1>1. <<0, "next">> \in Revisions /\ 0 \in 0 .. MaxRuns
  BY ActivationAssumption DEF Revisions
<1>2. Start \in Actives /\ NoJournal \in Journals /\ NoReceipt \in Receipts
  BY <1>1, ActivationAssumption DEF Start, NoJournal, NoReceipt, Actives, Journals, Receipts
<1>3. NoRun \in Runs
  BY <1>1, <1>2 DEF NoRun, Runs
<1>4. QED
  BY <1>1, <1>2, <1>3, ActivationAssumption DEF Init, TypeOK

LEMMA NoRunType == NoRun \in Runs /\ NoRun.at = "idle"
<1>1. <<0, "next">> \in Revisions /\ 0 \in 0 .. MaxRuns
  BY ActivationAssumption DEF Revisions
<1>2. Start \in Actives /\ NoJournal \in Journals
  BY <1>1, ActivationAssumption DEF Start, NoJournal, Actives, Journals
<1>3. QED
  BY <1>1, <1>2 DEF NoRun, Runs

\* What a journal names as active is a revision and a runtime.
LEMMA NamedType ==
    ASSUME NEW j \in Journals
    PROVE  Target(j) \in Actives /\ Restored(j) \in Actives
<1>1. j.id \in 0 .. MaxRuns + MaxFaults
  BY ActivationAssumption DEF Journals
<1>2. QED
  BY <1>1 DEF Target, Restored, Actives, Revisions, Journals

LEMMA EndType ==
    ASSUME TypeOK, NEW c \in Coordinators, End(c)
    PROVE  run' \in [Coordinators -> Runs] /\ fence' \in Coordinators \cup {None}
BY NoRunType DEF End, TypeOK

LEMMA GotoType ==
    ASSUME TypeOK, NEW c \in Coordinators,
           NEW at \in Effects \cup {"idle", "read", "judge", "reconcile", "started", "restarted"},
           Goto(c, at)
    PROVE  run' \in [Coordinators -> Runs]
BY DEF Goto, TypeOK, Runs

LEMMA WrittenType ==
    ASSUME TypeOK, NEW c \in Coordinators, NEW phase \in Writes
    PROVE  /\ Written(c, phase) \in Journals
           /\ Written(c, phase).id = run[c].journal.id
           /\ Written(c, phase).phase = phase
BY DEF Written, TypeOK, Runs, Journals, Writes

LEMMA StepType ==
    ASSUME TypeOK, NEW c \in Coordinators, Step(c)
    PROVE  TypeOK'
<1>1. CASE ReadJournal(c)
  <2>1. [run[c] EXCEPT !.at = "reconcile", !.journal = journal] \in Runs
    BY DEF Runs, TypeOK
  <2>2. run' \in [Coordinators -> Runs] /\ fence' \in Coordinators \cup {None}
    BY <1>1, <2>1, EndType, GotoType DEF ReadJournal, TypeOK
  <2>3. QED
    BY <1>1, <2>2 DEF ReadJournal, TypeOK
<1>2. CASE Judge(c)
  <2>1. run[c].target \notin {None, active.runtime} => Prepared(c) \in Journals
    BY DEF Prepared, TypeOK, Runs, Actives, Journals, Unfinished
  <2>2. run[c].target \notin {None, active.runtime} =>
           [run[c] EXCEPT !.at = "prepared", !.seen = active, !.journal = Prepared(c)] \in Runs
    BY <2>1 DEF Runs, TypeOK, Effects, Writes, Unfinished
  <2>3. run' \in [Coordinators -> Runs] /\ fence' \in Coordinators \cup {None}
    BY <1>2, <2>2, EndType DEF Judge, TypeOK
  <2>4. QED
    BY <1>2, <2>3 DEF Judge, TypeOK
<1>3. CASE Reconcile(c)
  <2>1. \A at \in {"rolled-back", "rollback"} :
           [run[c] EXCEPT !.at = at, !.seen = active] \in Runs
    BY DEF Runs, TypeOK, Effects, Writes, Unfinished, Ended
  <2>2. run' \in [Coordinators -> Runs] /\ fence' \in Coordinators \cup {None}
    BY <1>3, <2>1, EndType DEF Reconcile, TypeOK
  <2>3. QED
    BY <1>3, <2>2 DEF Reconcile, TypeOK
<1>4. CASE Begin(c)
  BY <1>4 DEF Begin, TypeOK, Runs
<1>5. CASE CheckFails(c)
  BY <1>5, EndType DEF CheckFails, TypeOK
<1>6. ASSUME NEW phase \in Writes, Write(c, phase)
      PROVE  TypeOK'
  <2>1. Written(c, phase) \in Journals
    BY WrittenType
  <2>2. CASE phase \in Ended
    BY <1>6, <2>1, <2>2, EndType DEF Write, TypeOK
  <2>3. CASE phase \notin Ended
    <3>1. After[phase] \in Effects
      BY <2>3 DEF After, Effects, Writes, Unfinished
    <3>2. [run[c] EXCEPT !.journal = Written(c, phase), !.at = After[phase],
                         !.calling = FALSE] \in Runs
      BY <2>1, <3>1 DEF Runs, TypeOK
    <3>3. run' \in [Coordinators -> Runs]
      BY <1>6, <2>3, <3>2 DEF Write, TypeOK
    <3>4. QED
      BY <1>6, <2>1, <2>3, <3>3 DEF Write, TypeOK
  <2>4. QED
    BY <2>2, <2>3
<1>7. CASE Switch(c)
  <2>1. run' \in [Coordinators -> Runs] /\ Target(run[c].journal) \in Actives
    BY <1>7, GotoType, NamedType DEF Switch, TypeOK, Runs, Effects, Writes, Unfinished
  <2>2. QED
    BY <1>7, <2>1 DEF Switch, TypeOK
<1>8. CASE Restore(c)
  <2>1. run' \in [Coordinators -> Runs] /\ Restored(run[c].journal) \in Actives
    BY <1>8, GotoType, NamedType DEF Restore, TypeOK, Runs, Effects, Writes, Unfinished
  <2>2. QED
    BY <1>8, <2>1 DEF Restore, TypeOK
<1>9. ASSUME NEW phase \in {"starting", "restarting"}, Launched(c, phase)
      PROVE  starts' \in [Launches -> Nat] /\ running' \subseteq Launches
  BY <1>9 DEF Launched, Launches, TypeOK, Runs, Journals
<1>10. CASE StartTarget(c)
  BY <1>9, <1>10 DEF StartTarget, TypeOK, Runs
<1>11. CASE StartPrevious(c)
  BY <1>9, <1>11 DEF StartPrevious, TypeOK, Runs
<1>12. \A r \in {run[c].journal.target, run[c].journal.previous} : Receipt(c, r) \in Receipts
  BY DEF Receipt, Receipts, TypeOK, Runs, Journals
<1>13. CASE TargetSettles(c)
  <2>1. run' \in [Coordinators -> Runs]
    BY <1>13, GotoType DEF TargetSettles, Effects, Writes, Ended
  <2>2. QED
    BY <1>12, <1>13, <2>1 DEF TargetSettles, TypeOK
<1>14. CASE PreviousSettles(c)
  <2>1. run' \in [Coordinators -> Runs] /\ fence' \in Coordinators \cup {None}
    BY <1>14, GotoType, EndType DEF PreviousSettles, Effects, Writes, Ended, TypeOK
  <2>2. QED
    BY <1>12, <1>14, <2>1 DEF PreviousSettles, TypeOK
<1>15. CASE Throws(c)
  <2>1. run' \in [Coordinators -> Runs] /\ fence' \in Coordinators \cup {None}
    BY <1>15, GotoType, EndType DEF Throws, TypeOK
  <2>2. faults' \in 0 .. MaxFaults
    BY <1>15, ActivationAssumption DEF Throws, Fault, TypeOK
  <2>3. QED
    BY <1>15, <2>1, <2>2 DEF Throws, TypeOK
<1>16. QED
  BY <1>1, <1>2, <1>3, <1>4, <1>5, <1>6, <1>7, <1>8, <1>10, <1>11, <1>13, <1>14, <1>15
  DEF Step

LEMMA NextType == TypeOK /\ [Next]_vars => TypeOK'
<1> SUFFICES ASSUME TypeOK, [Next]_vars PROVE TypeOK'
  OBVIOUS
<1>1. ASSUME NEW c \in Coordinators, NEW target \in Runtimes \cup {None}, Acquire(c, target)
      PROVE  TypeOK'
  <2>1. runs' \in 0 .. MaxRuns
    BY <1>1, ActivationAssumption DEF Acquire, TypeOK
  <2>2. run' \in [Coordinators -> Runs]
    BY <1>1, <2>1, NoRunType DEF Acquire, TypeOK, Runs
  <2>3. QED
    BY <1>1, <2>1, <2>2 DEF Acquire, TypeOK
<1>2. ASSUME NEW c \in Coordinators, Expire(c)
      PROVE  TypeOK'
  BY <1>2 DEF Expire, TypeOK, Runs
<1>3. Fault => faults' \in 0 .. MaxFaults
  BY ActivationAssumption DEF Fault, TypeOK
<1>4. ASSUME NEW c \in Coordinators, LoseFence(c)
      PROVE  TypeOK'
  BY <1>3, <1>4 DEF LoseFence, TypeOK
<1>5. ASSUME NEW c \in Coordinators, Die(c)
      PROVE  TypeOK'
  BY <1>3, <1>5, EndType DEF Die, TypeOK
<1>6. ASSUME NEW r \in Runtimes, Foreign(r)
      PROVE  TypeOK'
  <2>1. <<faults, "foreign">> \in Revisions
    BY ActivationAssumption DEF Revisions, TypeOK
  <2>2. QED
    BY <1>3, <1>6, <2>1 DEF Foreign, TypeOK, Actives
<1>7. CASE UNCHANGED vars
  BY <1>7 DEF vars, TypeOK
<1>8. QED
  BY <1>1, <1>2, <1>4, <1>5, <1>6, <1>7, StepType DEF Next

-----------------------------------------------------------------------------
(* The invariant. *)

LEMMA InitInv == Init => ActivationInv
<1> SUFFICES ASSUME Init PROVE ActivationInv
  OBVIOUS
<1>1. TypeOK
  BY InitType
<1>2. Fresh /\ Launching /\ StartedOnce /\ Running
  BY ActivationAssumption DEF Init, Fresh, Launching, StartedOnce, Running, NoJournal, Launches
<1>3. Held
  BY ActivationAssumption DEF Init, Held
<1>4. QED
  BY <1>1, <1>2, <1>3 DEF ActivationInv

\* A step of one coordinator that moves its run to r and touches nothing the
\* invariant is about.
LEMMA MoveInv ==
    ASSUME ActivationInv, TypeOK', NEW c \in Coordinators, NEW r,
           run' = [run EXCEPT ![c] = r],
           UNCHANGED <<journal, fence, starts, running, runs>>,
           fence = c => Holder(r)
    PROVE  ActivationInv'
<1>1. (Fresh /\ Launching /\ StartedOnce /\ Running)'
  BY DEF ActivationInv, Fresh, Launching, StartedOnce, Running
<1>2. ASSUME NEW d \in Coordinators, fence' = d
      PROVE  Holder(run[d])'
  <2>1. run'[d] = IF d = c THEN r ELSE run[d]
    BY DEF ActivationInv, TypeOK
  <2>2. Holder(run'[d])
    BY <1>2, <2>1 DEF ActivationInv, Held
  <2>3. QED
    BY <2>2 DEF Holder
<1>3. QED
  BY <1>1, <1>2 DEF ActivationInv, Held

\* A run that ends and lets go of the fence.
LEMMA EndInv ==
    ASSUME ActivationInv, TypeOK', NEW c \in Coordinators, End(c),
           UNCHANGED <<journal, starts, running, runs>>
    PROVE  ActivationInv'
<1>1. (Fresh /\ Launching /\ StartedOnce /\ Running)'
  BY DEF ActivationInv, Fresh, Launching, StartedOnce, Running
<1>2. ASSUME NEW d \in Coordinators, fence' = d
      PROVE  Holder(run[d])'
  <2>1. run'[d] = run[d] /\ fence = d
    BY <1>2, ActivationAssumption DEF End, ActivationInv, TypeOK
  <2>2. Holder(run[d])
    BY <2>1 DEF ActivationInv, Held
  <2>3. QED
    BY <2>1, <2>2 DEF Holder
<1>3. QED
  BY <1>1, <1>2 DEF ActivationInv, Held

LEMMA GotoInv ==
    ASSUME ActivationInv, TypeOK', NEW c \in Coordinators, NEW at, Goto(c, at),
           UNCHANGED <<journal, fence, starts, running, runs>>,
           fence = c => Holder([run[c] EXCEPT !.at = at, !.calling = FALSE])
    PROVE  ActivationInv'
BY MoveInv DEF Goto

\* A write by the holder announces a phase and keeps the transaction, unless it
\* prepares one; then the one before it had ended.
LEMMA WriteInv ==
    ASSUME ActivationInv, TypeOK', NEW c \in Coordinators, NEW phase \in Writes,
           Write(c, phase)
    PROVE  /\ ActivationInv'
           /\ journal'.id # journal.id => journal.phase \notin Unfinished
<1> DEFINE w == Written(c, phase)
<1>1. /\ fence = c
      /\ run[c].at = phase
      /\ journal' = w
      /\ UNCHANGED <<starts, running, runs>>
  BY DEF Write, Lands
<1>2. w.id = run[c].journal.id /\ w.phase = phase
  BY WrittenType DEF ActivationInv
<1>3. Holder(run[c])
  BY <1>1 DEF ActivationInv, Held
<1>4. runs \in Nat /\ journal.id \in Nat /\ run[c] \in Runs /\ <<w.id, "starting">> \in Launches
      /\ <<w.id, "restarting">> \in Launches
  BY <1>2, ActivationAssumption DEF ActivationInv, TypeOK, Journals, Runs, Launches
<1>5. CASE phase = "prepared"
  <2>1. w.id = runs /\ journal.id < runs /\ journal.phase \notin Unfinished
    BY <1>1, <1>2, <1>3, <1>5 DEF Holder
  <2>2. \A l \in Launches : l[1] >= runs => starts[l] = 0
    <3> SUFFICES ASSUME NEW l \in Launches, l[1] >= runs PROVE starts[l] = 0
      OBVIOUS
    <3>1. l[1] \in Nat
      BY ActivationAssumption DEF Launches
    <3>2. QED
      BY <2>1, <3>1, <1>4 DEF ActivationInv, Fresh
  <2>3. starts[<<w.id, "starting">>] = 0 /\ starts[<<w.id, "restarting">>] = 0
    BY <1>4, <2>1, <2>2
  <2>4. (Fresh /\ Launching /\ StartedOnce /\ Running)'
    <3>1. Fresh'
      <4>1. \A l \in Launches : l[1] > w.id => starts[l] = 0
        <5> SUFFICES ASSUME NEW l \in Launches, l[1] > w.id PROVE starts[l] = 0
          OBVIOUS
        <5>1. l[1] \in Nat
          BY ActivationAssumption DEF Launches
        <5>2. QED
          BY <1>4, <2>1, <2>2, <5>1
      <4>2. QED
        BY <1>1, <1>4, <2>1, <4>1 DEF Fresh
    <3>2. QED
      BY <3>1, <1>1, <2>3 DEF ActivationInv, Launching, StartedOnce, Running
  <2>5. run' = [run EXCEPT ![c] = [@ EXCEPT !.journal = w, !.at = "switch", !.calling = FALSE]]
        /\ UNCHANGED fence
    BY <1>5 DEF Write, Ended, After
  <2>6. run'[c].at = "switch" /\ run'[c].journal = w /\ run'[c].generation = run[c].generation
    BY <1>4, <2>5 DEF ActivationInv, TypeOK, Runs
  <2>7. Held'
    BY <1>1, <1>2, <1>3, <1>5, <2>5, <2>6 DEF Held, Holder
  <2>8. QED
    BY <2>1, <2>4, <2>7 DEF ActivationInv
<1>6. CASE phase # "prepared"
  <2>1. run[c].journal = journal /\ w.id = journal.id
    BY <1>1, <1>2, <1>3, <1>6 DEF Holder, Writes, Unfinished, Ended
  <2>2. (Fresh /\ StartedOnce /\ Running)'
    BY <1>1, <2>1 DEF ActivationInv, Fresh, StartedOnce, Running
  <2>3. Launching'
    BY <1>1, <1>2, <1>3, <1>6, <2>1 DEF ActivationInv, Launching, Holder, Unfinished
  <2>4. CASE phase \in Ended
    <3>1. fence' = None
      BY <1>1, <2>4 DEF Write, End
    <3>2. Held'
      BY <3>1, ActivationAssumption DEF Held
    <3>3. QED
      BY <2>1, <1>1, <2>2, <2>3, <3>2 DEF ActivationInv
  <2>5. CASE phase \notin Ended
    <3>1. run' = [run EXCEPT ![c] = [@ EXCEPT !.journal = w, !.at = After[phase], !.calling = FALSE]]
          /\ UNCHANGED fence
      BY <2>5 DEF Write
    <3>2. run'[c].at = After[phase] /\ run'[c].journal = w /\ run'[c].generation = run[c].generation
      BY <1>4, <3>1 DEF ActivationInv, TypeOK, Runs
    <3>3. \/ phase = "starting" /\ After[phase] = "start"
          \/ phase = "rollback" /\ After[phase] = "restore"
          \/ phase = "restarting" /\ After[phase] = "restart"
      BY <1>6, <2>5 DEF Writes, Unfinished, After
    <3>4. Held'
      BY <1>1, <1>2, <1>3, <2>1, <3>1, <3>2, <3>3 DEF ActivationInv, Launching, Held, Holder
    <3>5. QED
      BY <2>1, <1>1, <2>2, <2>3, <3>4 DEF ActivationInv
  <2>6. QED
    BY <2>4, <2>5
<1>7. QED
  BY <1>5, <1>6

\* A launch by the holder: the first of its transaction and phase.
LEMMA LaunchInv ==
    ASSUME ActivationInv, TypeOK', NEW c \in Coordinators, NEW phase \in {"starting", "restarting"},
           NEW at, NEW next,
           \/ phase = "starting" /\ at = "start" /\ next = "started"
           \/ phase = "restarting" /\ at = "restart" /\ next = "restarted",
           Lands(c, at), Launched(c, phase),
           run' = [run EXCEPT ![c] = [@ EXCEPT !.at = next]],
           UNCHANGED <<journal, fence, runs>>
    PROVE  ActivationInv'
<1> DEFINE l == <<journal.id, phase>>
<1>1. fence = c /\ run[c].at = at /\ Holder(run[c])
  BY DEF Lands, ActivationInv, Held
<1>2. run[c].journal = journal
  BY <1>1 DEF Holder
<1>3. l \in Launches /\ run[c] \in Runs /\ journal.id \in Nat
  BY ActivationAssumption DEF Launches, ActivationInv, TypeOK, Journals
<1>4. starts[l] = 0
  BY <1>1 DEF Holder
<1>5. starts' = [starts EXCEPT ![l] = @ + 1] /\ running' = running \cup {l}
  BY <1>2 DEF Launched
<1>6. starts \in [Launches -> Nat] /\ running \subseteq Launches
  BY DEF ActivationInv, TypeOK
<1>7. \A k \in Launches : starts'[k] = IF k = l THEN 1 ELSE starts[k]
  BY <1>3, <1>4, <1>5, <1>6
<1>8. Fresh' /\ StartedOnce'
  <2>1. \A k \in Launches : k[1] > journal.id => k # l
    BY <1>3
  <2>2. QED
    BY <1>7, <2>1 DEF ActivationInv, Fresh, StartedOnce
<1>9. Launching'
  BY <1>1, <1>3, <1>7 DEF ActivationInv, Launching, Holder, Launches
<1>10. Running'
  <2>1. ASSUME NEW k \in running' PROVE starts'[k] # 0
    <3>1. k \in Launches /\ (k \in running => starts[k] # 0) /\ (k \notin running => k = l)
      BY <1>3, <1>5, <1>6 DEF ActivationInv, Running
    <3>2. QED
      BY <1>7, <3>1
  <2>2. phase = "starting" => <<journal.id, "restarting">> \notin running
    BY <1>1 DEF Holder, ActivationInv, Launching, Running
  <2>3. phase = "restarting" => <<journal.id, "starting">> \notin running
    BY <1>1 DEF Holder
  <2>4. \A id \in 0 .. MaxRuns :
           <<id, "restarting">> \in running' => <<id, "starting">> \notin running'
    BY <1>5, <2>2, <2>3 DEF ActivationInv, Running
  <2>5. QED
    BY <2>1, <2>4 DEF Running
<1>11. Held'
  <2>1. run'[c].at = next /\ run'[c].journal = run[c].journal
        /\ run'[c].generation = run[c].generation
    BY <1>3 DEF ActivationInv, TypeOK, Runs
  <2>2. QED
    BY <1>1, <2>1 DEF Held, Holder
<1>12. QED
  BY <1>8, <1>9, <1>10, <1>11 DEF ActivationInv

LEMMA StepInv ==
    ASSUME ActivationInv, TypeOK', NEW c \in Coordinators, Step(c)
    PROVE  ActivationInv'
<1>1. run[c] \in Runs /\ (fence = c => Holder(run[c]))
  BY DEF ActivationInv, TypeOK, Held
<1>2. CASE ReadJournal(c)
  <2>1. CASE run' = [run EXCEPT ![c] = [@ EXCEPT !.at = "reconcile", !.journal = journal]]
             /\ journal.phase \in Unfinished /\ UNCHANGED fence
    <3>1. fence = c => Holder([run[c] EXCEPT !.at = "reconcile", !.journal = journal])
      BY <1>1, <2>1 DEF Holder, Runs
    <3>2. QED
      BY <1>2, <2>1, <3>1, MoveInv DEF ReadJournal
  <2>2. CASE journal.phase \notin Unfinished /\ Goto(c, "judge") /\ UNCHANGED fence
    <3>1. fence = c => Holder([run[c] EXCEPT !.at = "judge", !.calling = FALSE])
      BY <1>1, <1>2, <2>2 DEF ReadJournal, Holder, Runs
    <3>2. QED
      BY <1>2, <2>2, <3>1, GotoInv DEF ReadJournal
  <2>3. CASE End(c)
    BY <1>2, <2>3, EndInv DEF ReadJournal
  <2>4. QED
    BY <1>2, <2>1, <2>2, <2>3 DEF ReadJournal
<1>3. CASE Judge(c)
  <2>1. CASE run' = [run EXCEPT ![c] = [@ EXCEPT !.at = "prepared", !.seen = active,
                                                !.journal = Prepared(c)]] /\ UNCHANGED fence
    <3>1. Prepared(c).id = run[c].generation
      BY DEF Prepared
    <3>2. fence = c => Holder([run[c] EXCEPT !.at = "prepared", !.seen = active,
                                             !.journal = Prepared(c)])
      BY <1>1, <1>3, <3>1 DEF Judge, Holder, Runs
    <3>3. QED
      BY <1>3, <2>1, <3>2, MoveInv DEF Judge
  <2>2. CASE End(c)
    BY <1>3, <2>2, EndInv DEF Judge
  <2>3. QED
    BY <1>3, <2>1, <2>2 DEF Judge
<1>4. CASE Reconcile(c)
  <2>1. ASSUME NEW at \in {"rolled-back", "rollback"},
               at = "rollback" => run[c].journal.phase # "restarting",
               run' = [run EXCEPT ![c] = [@ EXCEPT !.at = at, !.seen = active]],
               UNCHANGED fence
        PROVE  ActivationInv'
    <3>1. fence = c => Holder([run[c] EXCEPT !.at = at, !.seen = active])
      BY <1>1, <1>4, <2>1 DEF Reconcile, Holder, Runs
    <3>2. QED
      BY <1>4, <2>1, <3>1, MoveInv DEF Reconcile
  <2>2. CASE End(c)
    BY <1>4, <2>2, EndInv DEF Reconcile
  <2>3. QED
    BY <1>4, <2>1, <2>2 DEF Reconcile
<1>5. CASE Begin(c)
  <2>1. fence = c => Holder([run[c] EXCEPT !.calling = TRUE])
    BY <1>1 DEF Holder, Runs
  <2>2. QED
    BY <1>5, <2>1, MoveInv DEF Begin
<1>6. CASE CheckFails(c)
  BY <1>6, EndInv DEF CheckFails
<1>7. CASE \E phase \in Writes : Write(c, phase)
  BY <1>7, WriteInv
<1>8. CASE Switch(c)
  <2>1. Holder([run[c] EXCEPT !.at = "starting", !.calling = FALSE])
    BY <1>1, <1>8 DEF Switch, Lands, Holder, Runs
  <2>2. QED
    BY <1>8, <2>1, GotoInv DEF Switch
<1>9. CASE Restore(c)
  <2>1. fence = c /\ run[c].at = "restore" /\ Holder(run[c]) /\ run[c].journal = journal
    BY <1>1, <1>9 DEF Restore, Lands, Holder
  <2>2. running' = {l \in running : l[1] # journal.id}
    BY <1>9, <2>1 DEF Restore
  <2>3. (Fresh /\ Launching /\ StartedOnce /\ Running)'
    BY <1>9, <2>2 DEF Restore, ActivationInv, Fresh, Launching, StartedOnce, Running
  <2>4. run'[c].at = "restarting" /\ run'[c].journal = run[c].journal
        /\ run'[c].generation = run[c].generation
    BY <1>1, <1>9 DEF Restore, Goto, ActivationInv, TypeOK, Runs
  <2>5. Held'
    BY <1>9, <2>1, <2>2, <2>4 DEF Restore, Held, Holder
  <2>6. QED
    BY <2>3, <2>5 DEF ActivationInv
<1>10. CASE StartTarget(c)
  BY <1>10, LaunchInv DEF StartTarget
<1>11. CASE StartPrevious(c)
  BY <1>11, LaunchInv DEF StartPrevious
<1>12. CASE TargetSettles(c)
  <2>1. \A at \in {"committed", "reconcile"} :
           fence = c => Holder([run[c] EXCEPT !.at = at, !.calling = FALSE])
    BY <1>1, <1>12 DEF TargetSettles, Holder, Runs, Unfinished
  <2>2. QED
    BY <1>12, <2>1, GotoInv DEF TargetSettles
<1>13. CASE PreviousSettles(c)
  <2>1. fence = c => Holder([run[c] EXCEPT !.at = "rolled-back", !.calling = FALSE])
    BY <1>1, <1>13 DEF PreviousSettles, Holder, Runs
  <2>2. QED
    BY <1>13, <2>1, GotoInv, EndInv DEF PreviousSettles
<1>14. CASE Throws(c)
  <2>1. run[c].at \in {"start", "started"} =>
           (fence = c => Holder([run[c] EXCEPT !.at = "reconcile", !.calling = FALSE]))
    BY <1>1 DEF Holder, Runs, Unfinished
  <2>2. QED
    BY <1>14, <2>1, GotoInv, EndInv DEF Throws
<1>15. QED
  BY <1>2, <1>3, <1>4, <1>5, <1>6, <1>7, <1>8, <1>9, <1>10, <1>11, <1>12, <1>13, <1>14
  DEF Step

LEMMA NextInv == ActivationInv /\ [Next]_vars => ActivationInv'
<1> SUFFICES ASSUME ActivationInv, [Next]_vars PROVE ActivationInv'
  OBVIOUS
<1>1. TypeOK'
  BY NextType DEF ActivationInv
<1>2. ASSUME NEW c \in Coordinators, NEW target \in Runtimes \cup {None}, Acquire(c, target)
      PROVE  ActivationInv'
  <2>1. runs \in Nat /\ journal.id \in Nat /\ journal.id <= runs
    BY ActivationAssumption DEF ActivationInv, TypeOK, Journals, Fresh
  <2>2. (Fresh /\ Launching /\ StartedOnce /\ Running)'
    BY <1>2, <2>1 DEF Acquire, ActivationInv, Fresh, Launching, StartedOnce, Running
  <2>3. run'[c].at = "read" /\ run'[c].generation = runs'
    BY <1>2, NoRunType DEF Acquire, ActivationInv, TypeOK, Runs
  <2>4. Held'
    BY <1>2, <2>1, <2>3 DEF Acquire, Held, Holder
  <2>5. QED
    BY <1>1, <2>2, <2>4 DEF ActivationInv
<1>3. ASSUME NEW c \in Coordinators, Expire(c)
      PROVE  ActivationInv'
  <2>1. fence = c => Holder([run[c] EXCEPT !.expired = TRUE])
    BY DEF ActivationInv, Held, Holder, TypeOK, Runs
  <2>2. QED
    BY <1>1, <1>3, <2>1, MoveInv DEF Expire
<1>4. ASSUME NEW c \in Coordinators, LoseFence(c)
      PROVE  ActivationInv'
  BY <1>1, <1>4, ActivationAssumption
  DEF LoseFence, ActivationInv, Fresh, Launching, StartedOnce, Running, Held
<1>5. ASSUME NEW c \in Coordinators, Die(c)
      PROVE  ActivationInv'
  BY <1>1, <1>5, EndInv DEF Die
<1>6. CASE (\E r \in Runtimes : Foreign(r)) \/ UNCHANGED vars
  BY <1>1, <1>6
  DEF Foreign, vars, ActivationInv, Fresh, Launching, StartedOnce, Running, Held, Holder
<1>7. QED
  BY <1>1, <1>2, <1>3, <1>4, <1>5, <1>6, StepInv DEF Next

LEMMA ActivationAlways == Spec => []ActivationInv
<1>1. QED
  BY InitInv, NextInv, PTL DEF Spec

-----------------------------------------------------------------------------

\* The types of a run, the journal and what is active, for every number of
\* coordinators, runtimes, runs and faults (update-activation.ts).
THEOREM TypeCorrect == Spec => []TypeOK
<1>1. ActivationInv => TypeOK
  BY DEF ActivationInv
<1>2. QED
  BY <1>1, ActivationAlways, PTL

\* start is called at most once for a transaction and phase, although the timeout, the
\* loss of the fence and the death of a process may cut a run off anywhere and the
\* recovery that follows cannot know how far it came.
THEOREM StartedCorrect == Spec => []StartedOnce
<1>1. ActivationInv => StartedOnce
  BY DEF ActivationInv
<1>2. QED
  BY <1>1, ActivationAlways, PTL

\* rollback does not launch the previous runtime beside the target's launch.
THEOREM RunningCorrect == Spec => []NeverBothRunning
<1>1. ActivationInv => NeverBothRunning
  <2>1. \A id \in 1 .. MaxRuns : id \in 0 .. MaxRuns
    BY ActivationAssumption
  <2>2. QED
    BY <2>1 DEF ActivationInv, Running, NeverBothRunning
<1>2. QED
  BY <1>1, ActivationAlways, PTL

\* The journal of an unfinished activation is never overwritten by another's: whoever
\* holds the fence settles it first.
THEOREM OverwriteCorrect == Spec => UnfinishedNotOverwritten
<1>1. ActivationInv /\ [Next]_vars =>
         [journal'.id # journal.id => journal.phase \notin Unfinished]_vars
  <2> SUFFICES ASSUME ActivationInv, [Next]_vars
               PROVE  journal'.id # journal.id => journal.phase \notin Unfinished
    OBVIOUS
  <2>1. TypeOK'
    BY NextType DEF ActivationInv
  <2>2. CASE \E c \in Coordinators : \E phase \in Writes : Write(c, phase)
    BY <2>1, <2>2, WriteInv
  <2>3. CASE ~(\E c \in Coordinators : \E phase \in Writes : Write(c, phase))
    BY <2>3 DEF Next, Step, vars, Acquire, ReadJournal, Judge, Reconcile, Begin, CheckFails,
                Switch, Restore, StartTarget, StartPrevious, TargetSettles, PreviousSettles,
                Throws, Expire, LoseFence, Die, Foreign
  <2>4. QED
    BY <2>2, <2>3
<1>2. QED
  BY <1>1, ActivationAlways, PTL DEF Spec, UnfinishedNotOverwritten

-----------------------------------------------------------------------------
(* Decisions. *)

\* A revision that is known: another's switch came before, or a transaction up to id
\* made it.
Known(revision, id) ==
    /\ revision[2] = "foreign" => revision[1] < faults
    /\ revision[2] # "foreign" => revision[1] <= id

Back == <<journal.id, "back">>

Ahead == <<journal.id, "next">>

\* What is active is known, and what was active before the journal's transaction was
\* not made by it; its runtimes differ.
Revised ==
    /\ Known(active.revision, journal.id)
    /\ Known(journal.previousRevision, journal.id)
    /\ journal.phase # "none" =>
          /\ journal.previousRevision \notin {Ahead, Back}
          /\ journal.target # journal.previous

\* What may be active, and what was launched, by the phase of the journal.
Phased ==
    /\ journal.phase = "prepared" => active.revision # Back
    /\ journal.phase \in {"starting", "committed"} =>
          active.revision \notin {journal.previousRevision, Back}
    /\ journal.phase \in {"restarting", "rolled-back"} => active.revision # Ahead
    /\ journal.phase = "committed" => starts[<<journal.id, "starting">>] # 0
    /\ journal.phase = "rolled-back" /\ active.revision = Back =>
          starts[<<journal.id, "restarting">>] # 0

\* The same for the run r of the fence's holder, by its place.
HolderDecides(r) ==
    /\ r.at = "prepared" =>
          /\ Known(r.journal.previousRevision, journal.id)
          /\ r.journal.target # r.journal.previous
    /\ r.at \in {"prepared", "switch"} => r.seen.revision = r.journal.previousRevision
    /\ r.at = "starting" => active.revision \notin {journal.previousRevision, Back}
    /\ r.at \in {"restarting", "rolled-back"} => active.revision # Ahead
    /\ r.at = "rolled-back" => journal.phase \in Unfinished
    /\ r.at \in {"started", "committed"} => starts[<<journal.id, "starting">>] # 0
    /\ r.at = "restarted" \/ (r.at = "rolled-back" /\ active.revision = Back) =>
          starts[<<journal.id, "restarting">>] # 0

HeldDecides == \A c \in Coordinators : fence = c => HolderDecides(run[c])

\* A launch whose health is awaited, also by a run that lost the fence, is of the
\* journal's transaction or of an earlier one.
Launcher(r) ==
    /\ r.at \in {"started", "restarted"} => r.journal.id <= journal.id
    /\ r.at = "started" /\ r.journal.id = journal.id => r.journal.target # journal.previous
    /\ r.at = "restarted" => starts[<<r.journal.id, "restarting">>] # 0

HealthAwaited == \A c \in Coordinators : Launcher(run[c])

\* So a receipt of the previous runtime, for the journal's transaction, tells of its
\* restart.
Received ==
    /\ receipt.id <= journal.id
    /\ journal.phase # "none" /\ receipt.id = journal.id /\ receipt.runtime = journal.previous =>
          starts[<<journal.id, "restarting">>] # 0
    /\ \A c \in Coordinators : Launcher(run[c])

DecisionInv == Revised /\ Phased /\ HeldDecides /\ Received

\* A run that moves, or ends, and changes nothing a decision rests on; faults may
\* have been met.
LEMMA DecisionMove ==
    ASSUME ActivationInv, TypeOK', DecisionInv, NEW c \in Coordinators, NEW r,
           run' = [run EXCEPT ![c] = r],
           UNCHANGED <<active, journal, starts, receipt>>,
           faults' >= faults,
           \A d \in Coordinators \ {c} : fence' = d => fence = d,
           fence' = c => HolderDecides(r),
           Launcher(r)
    PROVE  DecisionInv'
<1>1. run \in [Coordinators -> Runs] /\ faults \in Nat /\ faults' \in Nat
      /\ active \in Actives /\ journal \in Journals
  BY ActivationAssumption DEF ActivationInv, TypeOK
<1>2. \A d \in Coordinators : run'[d] = IF d = c THEN r ELSE run[d]
  BY <1>1
<1>3. ASSUME NEW revision \in Revisions, NEW id, Known(revision, id)
      PROVE  Known(revision, id)'
  BY <1>1, <1>3, ActivationAssumption DEF Known, Revisions
<1>4. Revised'
  BY <1>1, <1>3 DEF DecisionInv, Revised, Back, Ahead, Actives, Journals
<1>5. Phased'
  BY DEF DecisionInv, Phased, Back, Ahead
<1>6. ASSUME NEW d \in Coordinators, fence' = d
      PROVE  HolderDecides(run[d])'
  <2>1. run'[d] \in Runs
    BY DEF TypeOK
  <2>2. HolderDecides(run'[d])
    BY <1>2, <1>6 DEF DecisionInv, HeldDecides
  <2>3. run'[d].journal.previousRevision \in Revisions
    BY <2>1 DEF Runs, Journals
  <2>4. run'[d].at = "prepared" => Known(run[d].journal.previousRevision, journal.id)'
    BY <1>1, <2>2, <2>3, ActivationAssumption DEF HolderDecides, Known, Revisions
  <2>5. QED
    BY <2>2, <2>4 DEF HolderDecides, Back, Ahead
<1>7. Received'
  BY <1>2 DEF DecisionInv, Received, Launcher
<1>8. QED
  BY <1>4, <1>5, <1>6, <1>7 DEF DecisionInv, HeldDecides

\* A run that ends.
LEMMA DecisionEnd ==
    ASSUME ActivationInv, TypeOK', DecisionInv, NEW c \in Coordinators, End(c),
           UNCHANGED <<active, journal, starts, receipt>>, faults' >= faults
    PROVE  DecisionInv'
<1>1. HolderDecides(NoRun) /\ Launcher(NoRun)
  BY NoRunType DEF HolderDecides, Launcher
<1>2. \A d \in Coordinators \ {c} : fence' = d => fence = d
  BY ActivationAssumption DEF End
<1>3. QED
  BY <1>1, <1>2, DecisionMove DEF End

\* What a write publishes beside the phase.
LEMMA WrittenKeeps ==
    ASSUME TypeOK, NEW c \in Coordinators, NEW phase \in Writes
    PROVE  /\ Written(c, phase).previousRevision = run[c].journal.previousRevision
           /\ Written(c, phase).previous = run[c].journal.previous
           /\ Written(c, phase).target = run[c].journal.target
BY DEF Written, TypeOK, Runs, Journals

\* A write moves the decision on: the phase it writes promises no more than the place
\* of the holder does.
LEMMA DecisionWrite ==
    ASSUME ActivationInv, TypeOK', DecisionInv, NEW c \in Coordinators, NEW phase \in Writes,
           Write(c, phase)
    PROVE  DecisionInv'
<1> DEFINE w == Written(c, phase)
<1>1. /\ fence = c /\ run[c].at = phase /\ journal' = w
      /\ UNCHANGED <<active, starts, running, receipt, runs, faults>>
  BY DEF Write, Lands
<1>2. /\ w.id = run[c].journal.id /\ w.phase = phase
      /\ w.previousRevision = run[c].journal.previousRevision
      /\ w.previous = run[c].journal.previous /\ w.target = run[c].journal.target
  BY WrittenType, WrittenKeeps DEF ActivationInv
<1>3. Holder(run[c]) /\ HolderDecides(run[c]) /\ run[c] \in Runs
  BY <1>1 DEF ActivationInv, Held, DecisionInv, HeldDecides, TypeOK
<1>4. /\ runs \in Nat /\ journal.id \in Nat /\ receipt.id \in Nat /\ faults \in Nat
      /\ active.revision \in Revisions /\ run[c].journal.previousRevision \in Revisions
      /\ run \in [Coordinators -> Runs]
      /\ \A d \in Coordinators : run[d].journal.id \in Nat
  BY <1>3, ActivationAssumption DEF ActivationInv, TypeOK, Journals, Receipts, Runs, Actives
<1> HIDE DEF w
<1>5. /\ \A d \in Coordinators \ {c} : run'[d] = run[d] /\ fence' # d
      /\ phase \in Ended => run'[c].at = "idle" /\ fence' = None
      /\ phase \notin Ended => run'[c].at = After[phase] /\ run'[c].journal = w /\ run'[c].seen = run[c].seen
  <2>1. CASE phase \in Ended
    BY <1>1, <1>4, <2>1, NoRunType, ActivationAssumption DEF Write, End
  <2>2. CASE phase \notin Ended
    <3>1. run' = [run EXCEPT ![c] = [@ EXCEPT !.journal = w, !.at = After[phase], !.calling = FALSE]]
          /\ fence' = fence
      BY <2>2 DEF Write, w
    <3>2. run'[c].at = After[phase] /\ run'[c].journal = w /\ run'[c].seen = run[c].seen
      BY <1>3, <1>4, <3>1 DEF Runs
    <3>3. QED
      BY <1>1, <1>4, <2>2, <3>1, <3>2
  <2>3. QED
    BY <2>1, <2>2
<1>6. CASE phase = "prepared"
  <2>1. w.id = runs /\ journal.id < runs
    BY <1>1, <1>2, <1>3, <1>6 DEF Holder
  <2>2. Known(w.previousRevision, journal.id) /\ Known(active.revision, journal.id)
    BY <1>1, <1>2, <1>3, <1>6 DEF HolderDecides, DecisionInv, Revised
  <2>3. \A revision \in Revisions : Known(revision, journal.id) =>
           /\ Known(revision, journal.id)' /\ revision \notin {<<w.id, "next">>, <<w.id, "back">>}
    BY <1>1, <1>4, <2>1, ActivationAssumption DEF Known, Revisions
  <2>4. Revised'
    BY <1>1, <1>2, <1>3, <1>4, <1>6, <2>2, <2>3 DEF Revised, HolderDecides, Ahead, Back
  <2>5. Phased'
    BY <1>1, <1>2, <1>4, <1>6, <2>2, <2>3 DEF Phased, Ahead, Back
  <2>6. run'[c].at = "switch"
    BY <1>5, <1>6 DEF Ended, After
  <2>7. HeldDecides'
    BY <1>1, <1>2, <1>3, <1>5, <1>6, <2>6 DEF HeldDecides, HolderDecides, Ended
  <2>8. Received'
    <3>1. receipt.id <= journal.id /\ \A d \in Coordinators : Launcher(run[d])
      BY DEF DecisionInv, Received
    <3>2. \A d \in Coordinators : Launcher(run[d])'
      BY <1>1, <1>4, <1>5, <2>1, <2>6, <3>1 DEF Launcher
    <3>3. QED
      BY <1>1, <1>4, <2>1, <3>1, <3>2 DEF Received
  <2>9. QED
    BY <2>4, <2>5, <2>7, <2>8 DEF DecisionInv
<1>7. CASE phase # "prepared"
  <2>1. run[c].journal = journal /\ journal.phase \in Unfinished
    BY <1>1, <1>3, <1>7 DEF Holder, HolderDecides, Writes, Unfinished, Ended
  <2>2. /\ w.id = journal.id /\ w.previousRevision = journal.previousRevision
        /\ w.previous = journal.previous /\ w.target = journal.target /\ journal.phase # "none"
    BY <1>2, <2>1 DEF Unfinished
  <2>3. Revised'
    BY <1>1, <2>2 DEF DecisionInv, Revised, Known, Ahead, Back
  <2>4. Phased'
    BY <1>1, <1>2, <1>3, <1>7, <2>2 DEF DecisionInv, Phased, Holder, HolderDecides, Ahead, Back
  <2>5. \/ phase \in Ended
        \/ phase = "starting" /\ After[phase] = "start" /\ phase \notin Ended
        \/ phase = "rollback" /\ After[phase] = "restore" /\ phase \notin Ended
        \/ phase = "restarting" /\ After[phase] = "restart" /\ phase \notin Ended
    BY <1>7 DEF Writes, Unfinished, Ended, After
  <2>6. HeldDecides'
    BY <1>5, <2>5, ActivationAssumption DEF HeldDecides, HolderDecides
  <2>7. Received'
    BY <1>1, <1>5, <2>2, <2>5 DEF DecisionInv, Received, Launcher
  <2>8. QED
    BY <2>3, <2>4, <2>6, <2>7 DEF DecisionInv
<1>8. QED
  BY <1>6, <1>7

\* A switch or a restore by the holder makes a revision of its own transaction active.
LEMMA DecisionSwitch ==
    ASSUME ActivationInv, TypeOK', DecisionInv, NEW c \in Coordinators, Switch(c) \/ Restore(c)
    PROVE  DecisionInv'
<1>1. /\ fence = c /\ fence' = fence /\ run[c].at \in {"switch", "restore"} /\ active = run[c].seen
      /\ UNCHANGED <<journal, starts, receipt, faults>>
  BY DEF Switch, Restore, Lands
<1>2. Holder(run[c]) /\ HolderDecides(run[c]) /\ run[c] \in Runs
  BY <1>1 DEF ActivationInv, Held, DecisionInv, HeldDecides, TypeOK
<1>3. run[c].journal = journal
  BY <1>1, <1>2 DEF Holder
<1>4. /\ run[c].at = "switch" => active'.revision = Ahead /\ Goto(c, "starting")
      /\ run[c].at = "restore" => active'.revision = Back /\ Goto(c, "restarting")
  BY <1>3 DEF Switch, Restore, Lands, Target, Restored, Ahead, Back
<1>5. /\ \A d \in Coordinators \ {c} : run'[d] = run[d]
      /\ run[c].at = "switch" => run'[c].at = "starting"
      /\ run[c].at = "restore" => run'[c].at = "restarting"
  <2>1. \A at : Goto(c, at) => run'[c].at = at /\ \A d \in Coordinators \ {c} : run'[d] = run[d]
    BY <1>2 DEF Goto, ActivationInv, TypeOK, Runs
  <2>2. QED
    BY <1>1, <1>4, <2>1
<1>6. journal.id \in Nat /\ journal.phase \in {"prepared", "rollback"}
      /\ (run[c].at = "switch" => journal.phase = "prepared")
      /\ (run[c].at = "restore" => journal.phase = "rollback")
  BY <1>1, <1>2, ActivationAssumption DEF Holder, ActivationInv, TypeOK, Journals
<1>7. /\ Ahead' = Ahead /\ Back' = Back /\ Ahead # Back
      /\ journal.previousRevision \notin {Ahead, Back}
  BY <1>1, <1>6 DEF Ahead, Back, DecisionInv, Revised
<1>8. Revised'
  BY <1>1, <1>4, <1>6, <1>7 DEF DecisionInv, Revised, Known, Ahead, Back
<1>9. Phased'
  BY <1>1, <1>4, <1>6, <1>7 DEF Phased
<1>10. HeldDecides'
  BY <1>1, <1>4, <1>5, <1>7 DEF HeldDecides, HolderDecides
<1>11. Received'
  BY <1>1, <1>5 DEF DecisionInv, Received, Launcher
<1>12. QED
  BY <1>8, <1>9, <1>10, <1>11 DEF DecisionInv

\* A switch by something else makes a revision active that nobody knew.
LEMMA DecisionForeign ==
    ASSUME ActivationInv, TypeOK', DecisionInv, NEW rt \in Runtimes, Foreign(rt)
    PROVE  DecisionInv'
<1>1. /\ active'.revision = <<faults, "foreign">> /\ faults' = faults + 1 /\ faults \in Nat
      /\ UNCHANGED <<journal, fence, run, starts, running, receipt, runs>>
  BY ActivationAssumption DEF Foreign, Fault, ActivationInv, TypeOK
<1>2. \A revision \in Revisions : \A id : Known(revision, id) =>
         Known(revision, id)' /\ revision # active'.revision
  BY <1>1, ActivationAssumption DEF Known, Revisions
<1>3. /\ journal \in Journals /\ journal.previousRevision \in Revisions
      /\ \A c \in Coordinators : run[c].journal.previousRevision \in Revisions
  BY DEF ActivationInv, TypeOK, Runs, Journals
<1>4. /\ Ahead' = Ahead /\ Back' = Back /\ active'.revision \notin {Ahead, Back}
      /\ active'.revision # journal.previousRevision
  BY <1>1, <1>2, <1>3 DEF Ahead, Back, DecisionInv, Revised
<1>5. Revised'
  BY <1>1, <1>2, <1>3, <1>4 DEF DecisionInv, Revised, Known
<1>6. Phased'
  BY <1>1, <1>4 DEF DecisionInv, Phased
<1>7. HeldDecides'
  BY <1>1, <1>2, <1>3, <1>4 DEF DecisionInv, HeldDecides, HolderDecides
<1>8. Received'
  BY <1>1 DEF DecisionInv, Received, Launcher
<1>9. QED
  BY <1>5, <1>6, <1>7, <1>8 DEF DecisionInv

\* A launch by the holder is counted before anybody can ask for its receipt.
LEMMA DecisionLaunch ==
    ASSUME ActivationInv, ActivationInv', DecisionInv, NEW c \in Coordinators,
           StartTarget(c) \/ StartPrevious(c)
    PROVE  DecisionInv'
<1>1. PICK phase \in {"starting", "restarting"}, next \in {"started", "restarted"} :
         /\ fence = c /\ Launched(c, phase) /\ run' = [run EXCEPT ![c] = [@ EXCEPT !.at = next]]
         /\ \/ run[c].at = "start" /\ phase = "starting" /\ next = "started"
            \/ run[c].at = "restart" /\ phase = "restarting" /\ next = "restarted"
         /\ UNCHANGED <<active, journal, fence, receipt, runs, faults>>
  BY DEF StartTarget, StartPrevious, Lands
<1>2. Holder(run[c]) /\ run[c] \in Runs /\ run \in [Coordinators -> Runs]
  BY <1>1 DEF ActivationInv, Held, TypeOK
<1>3. run[c].journal = journal /\ journal.phase # "none"
  BY <1>1, <1>2 DEF Holder
<1>4. /\ run'[c].at = next /\ run'[c].journal = run[c].journal
      /\ \A d \in Coordinators \ {c} : run'[d] = run[d]
  BY <1>1, <1>2 DEF Runs
<1>5. /\ starts \in [Launches -> Nat] /\ journal.id \in Nat
      /\ \A d \in Coordinators : /\ <<run[d].journal.id, "restarting">> \in Launches
                                 /\ run[d].journal.id \in Nat
      /\ <<journal.id, "starting">> \in Launches /\ <<journal.id, "restarting">> \in Launches
  BY ActivationAssumption DEF ActivationInv, TypeOK, Launches, Journals, Runs
<1>6. /\ \A l \in Launches : starts[l] # 0 => starts'[l] # 0
      /\ starts'[<<journal.id, phase>>] # 0
  BY <1>1, <1>3, <1>5 DEF Launched
<1>7. Revised'
  BY <1>1 DEF DecisionInv, Revised, Known, Ahead, Back
<1>8. Phased'
  BY <1>1, <1>5, <1>6 DEF DecisionInv, Phased, Ahead, Back
<1>9. HeldDecides'
  <2>1. HolderDecides(run[c])'
    BY <1>1, <1>4, <1>6 DEF HolderDecides
  <2>2. QED
    BY <1>1, <2>1 DEF HeldDecides
<1>10. Received'
  <2>1. Launcher(run[c])'
    BY <1>1, <1>3, <1>4, <1>5, <1>6 DEF DecisionInv, Revised, Launcher
  <2>2. \A d \in Coordinators \ {c} : Launcher(run[d])'
    BY <1>1, <1>4, <1>5, <1>6 DEF DecisionInv, Received, Launcher
  <2>3. QED
    BY <1>1, <1>5, <1>6, <2>1, <2>2 DEF DecisionInv, Received
<1>11. QED
  BY <1>7, <1>8, <1>9, <1>10 DEF DecisionInv

\* A receipt arrives, whoever holds the fence by then: the target's is not one of the
\* previous runtime, and the previous runtime's tells of its launch.
LEMMA DecisionReceipt ==
    ASSUME ActivationInv, TypeOK', DecisionInv, NEW c \in Coordinators,
           \/ run[c].at = "started" /\ receipt' = Receipt(c, run[c].journal.target)
           \/ run[c].at = "restarted" /\ receipt' = Receipt(c, run[c].journal.previous),
           UNCHANGED <<journal, starts>>,
           HealthAwaited'
    PROVE  Received'
<1>1. Launcher(run[c]) /\ receipt'.id = run[c].journal.id
  BY DEF DecisionInv, Received, Receipt
<1>2. CASE run[c].at = "started" /\ receipt' = Receipt(c, run[c].journal.target)
  <2>1. receipt'.id = journal.id => receipt'.runtime # journal.previous
    BY <1>1, <1>2 DEF Launcher, Receipt
  <2>2. QED
    BY <1>1, <1>2, <2>1 DEF Launcher, HealthAwaited, Received
<1>3. CASE run[c].at = "restarted" /\ receipt' = Receipt(c, run[c].journal.previous)
  BY <1>1, <1>3 DEF Launcher, HealthAwaited, Received
<1>4. QED
  BY <1>2, <1>3

LEMMA DecisionSettles ==
    ASSUME ActivationInv, TypeOK', DecisionInv, NEW c \in Coordinators,
           TargetSettles(c) \/ PreviousSettles(c)
    PROVE  DecisionInv'
<1>1. /\ run[c].at \in {"started", "restarted"} /\ UNCHANGED <<active, journal, starts, faults>>
      /\ \/ receipt' = receipt
         \/ run[c].at = "started" /\ receipt' = Receipt(c, run[c].journal.target)
         \/ run[c].at = "restarted" /\ receipt' = Receipt(c, run[c].journal.previous)
  BY DEF TargetSettles, PreviousSettles
<1>2. run[c] \in Runs /\ run \in [Coordinators -> Runs]
  BY DEF ActivationInv, TypeOK
<1>3. \/ run[c].at = "started" /\ Goto(c, "committed") /\ fence' = fence
      \/ run[c].at = "started" /\ Goto(c, "reconcile") /\ fence' = fence
      \/ run[c].at = "restarted" /\ Goto(c, "rolled-back") /\ fence' = fence
      \/ End(c)
  BY DEF TargetSettles, PreviousSettles
<1>4. PICK r : /\ run' = [run EXCEPT ![c] = r]
               /\ \A d \in Coordinators \ {c} : fence' = d => fence = d
               /\ fence' = c => fence = c
               /\ \/ r.at \in {"idle", "reconcile"}
                  \/ r.at = "committed" /\ run[c].at = "started"
                  \/ r.at = "rolled-back" /\ run[c].at = "restarted"
  <2>1. \A at : Goto(c, at) => /\ run' = [run EXCEPT ![c] = [run[c] EXCEPT !.at = at, !.calling = FALSE]]
                               /\ [run[c] EXCEPT !.at = at, !.calling = FALSE].at = at
    BY <1>2 DEF Goto, Runs
  <2>2. End(c) => /\ run' = [run EXCEPT ![c] = NoRun] /\ NoRun.at = "idle"
                  /\ \A d \in Coordinators : fence' = d => fence = d
    BY NoRunType, ActivationAssumption DEF End
  <2>3. QED
    BY <1>3, <2>1, <2>2
<1>5. \A d \in Coordinators : run'[d] = IF d = c THEN r ELSE run[d]
  BY <1>2, <1>4
<1>6. Revised' /\ Phased'
  BY <1>1 DEF DecisionInv, Revised, Phased, Known, Ahead, Back
<1>7. HeldDecides'
  <2>1. fence = c => Holder(run[c]) /\ HolderDecides(run[c])
    BY DEF ActivationInv, Held, DecisionInv, HeldDecides
  <2>2. fence = c /\ run[c].at = "restarted" => journal.phase = "restarting" /\ active.revision # Ahead
    BY <2>1 DEF Holder, DecisionInv, Phased
  <2>3. fence' = c => HolderDecides(run[c])'
    BY <1>1, <1>4, <1>5, <2>1, <2>2 DEF HolderDecides, Ahead, Back, Unfinished
  <2>4. QED
    BY <1>1, <1>4, <1>5, <2>3 DEF DecisionInv, HeldDecides, HolderDecides, Ahead, Back, Known
<1>8. HealthAwaited'
  BY <1>1, <1>4, <1>5 DEF DecisionInv, Received, HealthAwaited, Launcher
<1>9. Received'
  <2>1. CASE receipt' = receipt
    BY <1>1, <1>8, <2>1 DEF DecisionInv, HealthAwaited, Received
  <2>2. UNCHANGED <<journal, starts>>
    BY <1>1
  <2>3. CASE receipt' # receipt
    <3>1. \/ run[c].at = "started" /\ receipt' = Receipt(c, run[c].journal.target)
          \/ run[c].at = "restarted" /\ receipt' = Receipt(c, run[c].journal.previous)
      BY <2>3 DEF TargetSettles, PreviousSettles
    <3>2. QED
      BY <1>8, <2>2, <3>1, DecisionReceipt
  <2>4. QED
    BY <2>1, <2>3
<1>10. QED
  BY <1>6, <1>7, <1>9 DEF DecisionInv

LEMMA DecisionStep ==
    ASSUME ActivationInv, ActivationInv', DecisionInv, NEW c \in Coordinators, Step(c)
    PROVE  DecisionInv'
<1>1. /\ TypeOK' /\ run[c] \in Runs /\ run \in [Coordinators -> Runs] /\ faults \in Nat
      /\ fence = c => Holder(run[c]) /\ HolderDecides(run[c])
      /\ Launcher(run[c])
  BY ActivationAssumption DEF ActivationInv, TypeOK, Held, DecisionInv, HeldDecides, Received
<1>2. ASSUME NEW r, run' = [run EXCEPT ![c] = r], fence' = fence, UNCHANGED <<active, journal, starts, receipt>>,
             faults' >= faults, fence = c => HolderDecides(r), Launcher(r)
      PROVE  DecisionInv'
  <2>1. fence' = c => HolderDecides(r)
    BY <1>2
  <2>2. \A d \in Coordinators \ {c} : fence' = d => fence = d
    BY <1>2
  <2>3. QED
    BY <1>1, <1>2, <2>1, <2>2, DecisionMove
<1>3. CASE ReadJournal(c)
  <2>1. UNCHANGED <<active, journal, starts, receipt>> /\ faults' >= faults
    BY <1>1, <1>3 DEF ReadJournal
  <2>2. CASE run' = [run EXCEPT ![c] = [@ EXCEPT !.at = "reconcile", !.journal = journal]] /\ UNCHANGED fence
    <3>1. [run[c] EXCEPT !.at = "reconcile", !.journal = journal].at = "reconcile"
      BY <1>1 DEF Runs
    <3>2. QED
      BY <1>2, <2>1, <2>2, <3>1 DEF HolderDecides, Launcher
  <2>3. CASE Goto(c, "judge") /\ UNCHANGED fence
    <3>1. [run[c] EXCEPT !.at = "judge", !.calling = FALSE].at = "judge"
      BY <1>1 DEF Runs
    <3>2. QED
      BY <1>2, <2>1, <2>3, <3>1 DEF Goto, HolderDecides, Launcher
  <2>4. CASE End(c)
    BY <1>1, <2>1, <2>4, DecisionEnd
  <2>5. QED
    BY <1>3, <2>2, <2>3, <2>4 DEF ReadJournal
<1>4. CASE Judge(c)
  <2>1. UNCHANGED <<active, journal, starts, receipt>> /\ faults' >= faults
    BY <1>1, <1>4 DEF Judge
  <2>2. CASE /\ run[c].target \notin {None, active.runtime}
             /\ run' = [run EXCEPT ![c] = [@ EXCEPT !.at = "prepared", !.seen = active,
                                                   !.journal = Prepared(c)]] /\ UNCHANGED fence
    <3> DEFINE r == [run[c] EXCEPT !.at = "prepared", !.seen = active, !.journal = Prepared(c)]
    <3>1. r.at = "prepared" /\ r.seen = active /\ r.journal = Prepared(c)
      BY <1>1 DEF Runs
    <3>2. /\ Prepared(c).previousRevision = active.revision
          /\ Prepared(c).target # Prepared(c).previous
      BY <2>2 DEF Prepared
    <3>3. HolderDecides(r) /\ Launcher(r)
      BY <3>1, <3>2 DEF HolderDecides, Launcher, DecisionInv, Revised
    <3>4. QED
      BY <1>2, <2>1, <2>2, <3>3
  <2>3. CASE End(c)
    BY <1>1, <2>1, <2>3, DecisionEnd
  <2>4. QED
    BY <1>4, <2>2, <2>3 DEF Judge
<1>5. CASE Reconcile(c)
  <2>1. UNCHANGED <<active, journal, starts, receipt>> /\ faults' >= faults
    BY <1>1, <1>5 DEF Reconcile
  <2>2. /\ run[c].at = "reconcile" /\ run[c].journal = journal /\ journal.phase \in Unfinished
        /\ journal.phase # "none"
    BY <1>1, <1>5 DEF Reconcile, Checked, Holder, Unfinished
  <2>3. CASE run' = [run EXCEPT ![c] = [@ EXCEPT !.at = "rollback", !.seen = active]] /\ UNCHANGED fence
    <3>1. [run[c] EXCEPT !.at = "rollback", !.seen = active].at = "rollback"
      BY <1>1 DEF Runs
    <3>2. QED
      BY <1>2, <2>1, <2>3, <3>1 DEF HolderDecides, Launcher
  <2>4. CASE /\ \/ active = Old(journal)
                \/ active = Restored(journal) /\ Healthy(receipt, journal, journal.previous)
             /\ run' = [run EXCEPT ![c] = [@ EXCEPT !.at = "rolled-back", !.seen = active]] /\ UNCHANGED fence
    <3>1. [run[c] EXCEPT !.at = "rolled-back", !.seen = active].at = "rolled-back"
      BY <1>1 DEF Runs
    <3>2. active = Old(journal) => active.revision \notin {Ahead, Back}
      BY <2>2 DEF Old, DecisionInv, Revised
    <3>3. active = Restored(journal) => active.revision # Ahead
      BY DEF Restored, Ahead
    <3>4. Healthy(receipt, journal, journal.previous) => starts[<<journal.id, "restarting">>] # 0
      BY <2>2 DEF Healthy, DecisionInv, Received
    <3>5. QED
      BY <1>2, <2>1, <2>2, <2>4, <3>1, <3>2, <3>3, <3>4 DEF HolderDecides, Launcher
  <2>5. CASE End(c)
    BY <1>1, <2>1, <2>5, DecisionEnd
  <2>6. QED
    BY <1>5, <2>2, <2>3, <2>4, <2>5 DEF Reconcile
<1>6. CASE Begin(c)
  <2> DEFINE r == [run[c] EXCEPT !.calling = TRUE]
  <2>1. r.at = run[c].at /\ r.journal = run[c].journal /\ r.seen = run[c].seen
    BY <1>1 DEF Runs
  <2>2. Launcher(r) /\ (fence = c => HolderDecides(r))
    BY <1>1, <2>1 DEF HolderDecides, Launcher
  <2>3. /\ run' = [run EXCEPT ![c] = r] /\ fence' = fence
        /\ UNCHANGED <<active, journal, starts, receipt>> /\ faults' >= faults
    BY <1>1, <1>6 DEF Begin
  <2> HIDE DEF r
  <2>4. QED
    BY <1>2, <2>2, <2>3
<1>7. CASE CheckFails(c)
  BY <1>1, <1>7, DecisionEnd DEF CheckFails
<1>8. CASE Throws(c)
  <2>1. UNCHANGED <<active, journal, starts, receipt>> /\ faults' >= faults
    BY <1>1, <1>8 DEF Throws, Fault
  <2>2. CASE Goto(c, "reconcile") /\ UNCHANGED fence
    <3>1. [run[c] EXCEPT !.at = "reconcile", !.calling = FALSE].at = "reconcile"
      BY <1>1 DEF Runs
    <3>2. QED
      BY <1>2, <2>1, <2>2, <3>1 DEF Goto, HolderDecides, Launcher
  <2>3. CASE End(c)
    BY <1>1, <2>1, <2>3, DecisionEnd
  <2>4. QED
    BY <1>8, <2>2, <2>3 DEF Throws
<1>9. QED
  BY <1>1, <1>3, <1>4, <1>5, <1>6, <1>7, <1>8, DecisionWrite, DecisionSwitch, DecisionLaunch,
     DecisionSettles DEF Step

LEMMA DecisionNext == ActivationInv /\ ActivationInv' /\ DecisionInv /\ [Next]_vars => DecisionInv'
<1> SUFFICES ASSUME ActivationInv, ActivationInv', DecisionInv, [Next]_vars PROVE DecisionInv'
  OBVIOUS
<1>1. TypeOK' /\ run \in [Coordinators -> Runs] /\ faults \in Nat
  BY ActivationAssumption DEF ActivationInv, TypeOK
<1>2. ASSUME NEW c \in Coordinators, NEW target \in Runtimes \cup {None}, Acquire(c, target)
      PROVE  DecisionInv'
  <2> DEFINE r == [NoRun EXCEPT !.at = "read", !.target = target, !.generation = runs + 1]
  <2>1. r.at = "read"
    BY NoRunType DEF Runs
  <2>2. HolderDecides(r) /\ Launcher(r)
    BY <2>1 DEF HolderDecides, Launcher
  <2>3. /\ run' = [run EXCEPT ![c] = r] /\ fence' = c
        /\ UNCHANGED <<active, journal, starts, receipt>> /\ faults' >= faults
    BY <1>1, <1>2 DEF Acquire
  <2> HIDE DEF r
  <2>4. \A d \in Coordinators \ {c} : fence' = d => fence = d
    BY <2>3
  <2>5. QED
    BY <1>1, <2>2, <2>3, <2>4, DecisionMove
<1>3. ASSUME NEW c \in Coordinators, Expire(c)
      PROVE  DecisionInv'
  <2> DEFINE r == [run[c] EXCEPT !.expired = TRUE]
  <2>1. r.at = run[c].at /\ r.journal = run[c].journal /\ r.seen = run[c].seen
    BY <1>1 DEF Runs
  <2>2. Launcher(r) /\ (fence = c => HolderDecides(r))
    BY <2>1 DEF HolderDecides, Launcher, DecisionInv, HeldDecides, Received
  <2>3. /\ run' = [run EXCEPT ![c] = r] /\ fence' = fence
        /\ UNCHANGED <<active, journal, starts, receipt>> /\ faults' >= faults
    BY <1>1, <1>3 DEF Expire
  <2> HIDE DEF r
  <2>4. /\ \A d \in Coordinators \ {c} : fence' = d => fence = d
        /\ fence' = c => HolderDecides(r)
    BY <2>2, <2>3
  <2>5. QED
    BY <1>1, <2>2, <2>3, <2>4, DecisionMove
<1>4. ASSUME NEW c \in Coordinators, LoseFence(c)
      PROVE  DecisionInv'
  <2>1. run' = [run EXCEPT ![c] = run[c]] /\ faults' >= faults /\ UNCHANGED <<active, journal, starts, receipt>>
    BY <1>1, <1>4 DEF LoseFence, Fault
  <2>2. fence' # c /\ \A d \in Coordinators : fence' # d
    BY <1>4, ActivationAssumption DEF LoseFence
  <2>3. Launcher(run[c])
    BY DEF DecisionInv, Received
  <2>4. QED
    BY <1>1, <2>1, <2>2, <2>3, DecisionMove
<1>5. ASSUME NEW c \in Coordinators, Die(c)
      PROVE  DecisionInv'
  BY <1>1, <1>5, DecisionEnd DEF Die, Fault
<1>6. CASE UNCHANGED vars
  BY <1>6 DEF vars, DecisionInv, Revised, Phased, HeldDecides, HolderDecides, Received, Launcher,
              Known, Ahead, Back
<1>7. QED
  BY <1>1, <1>2, <1>3, <1>4, <1>5, <1>6, DecisionStep, DecisionForeign DEF Next

\* What update-activation.ts writes down as decided is true: after committed the target
\* was launched and nothing undid its switch, after rolled-back the target is not active
\* and a restored runtime was launched, whatever expired, lost the fence, died or was
\* switched by others in between, and whenever a receipt came.
THEOREM DecisionCorrect == Spec => []DecisionIsSound
<1>1. Init => DecisionInv
  BY ActivationAssumption DEF Init, DecisionInv, Revised, Phased, HeldDecides, Received, Launcher, Known,
     NoJournal, NoReceipt, NoRun, Start
<1>2. ActivationInv /\ DecisionInv => DecisionIsSound
  <2> SUFFICES ASSUME ActivationInv, DecisionInv PROVE DecisionIsSound
    OBVIOUS
  <2>1. /\ Old(journal).revision = journal.previousRevision /\ Restored(journal).revision = Back
        /\ Target(journal).revision = Ahead
    BY DEF Old, Restored, Target, Ahead, Back
  <2>2. DecisionIsActive
    BY <2>1 DEF DecisionIsActive, DecisionInv, Phased
  <2>3. \A n \in Nat : n # 0 /\ n <= 1 => n = 1
    OBVIOUS
  <2>4. \A l \in Launches : starts[l] # 0 => starts[l] = 1
    BY <2>3 DEF ActivationInv, StartedOnce, TypeOK
  <2>5. <<journal.id, "starting">> \in Launches /\ <<journal.id, "restarting">> \in Launches
    BY DEF Launches, ActivationInv, TypeOK, Journals
  <2>6. DecidedAfterLaunch
    BY <2>1, <2>4, <2>5 DEF DecidedAfterLaunch, DecisionInv, Phased
  <2>7. QED
    BY <2>2, <2>6 DEF DecisionIsSound
<1>3. QED
  BY <1>1, <1>2, ActivationAlways, DecisionNext, PTL DEF Spec

=============================================================================
