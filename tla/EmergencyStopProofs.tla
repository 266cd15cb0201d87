------------------------ MODULE EmergencyStopProofs ------------------------
(* Proofs about EmergencyStop: the journal and the state file account for    *)
(* every stop whatever crashes, failed saves and rows of other writers come  *)
(* between, and recovery resets the threads a stop was cut off from.         *)
EXTENDS EmergencyStop, FiniteSetTheorems, WellFoundedInduction, TLAPS

---------------------------------------------------------------------------
(* The inductive invariant *)

StopCount == Cardinality(begun)
Begun == [stop : Stops, catch : SUBSET (Sessions \X Threads),
          sess : SUBSET Sessions, written : BOOLEAN]

(* The stops are numbered in the order they began.                           *)
Numbered ==
  /\ begun \subseteq Begun /\ IsFiniteSet(begun)
  /\ StopCount + foreign <= MaxRows
  /\ \A b \in begun : b.stop \in 1..StopCount /\ b.sess # {} /\ \A s \in Sessions : <<s, 0>> \notin b.catch
  /\ \A k \in 1..StopCount : \E b \in begun : b.stop = k
  /\ \A b, c \in begun : b.stop = c.stop => b = c

Shapes ==
  /\ phase \in {"up", "down", "recovering"}
  /\ mem \in Snapshots /\ disk \in Snapshots
  /\ inflight \subseteq Sessions
  /\ stopping \in {"none", "acting", "saving", "clearing"}
  /\ table \subseteq Entries /\ aside \subseteq Rows /\ listRows \subseteq Entries
  /\ \A e, f \in table : e.row = f.row => e = f
  /\ listLines \subseteq Lines /\ listStops \subseteq Stops
  /\ rec \in Recoveries
  /\ foreign \in 0..MaxRows /\ faults \in 0..MaxFaults /\ crashes \in 0..MaxCrashes

(* A row of a stop is what its writer put into it; the others name a begun   *)
(* stop.  No row catches a session without a thread.                         *)
RowsFit ==
  \A e \in table \cup listRows :
    /\ \A s \in Sessions : <<s, 0>> \notin e.is.catch
    /\ \E b \in begun : /\ b.stop = e.is.stop
                        /\ e.is.own => /\ ~e.is.bad /\ ~e.is.keep /\ b.written
                                       /\ b.catch = e.is.catch /\ b.sess = e.is.sess
    /\ foreign = 0 => e.is.own

(* Every line is of a stop that began, and none yet of one that acts.        *)
LinesFit ==
  /\ \A l \in mem.lines \cup disk.lines \cup listLines : l.stop <= StopCount
  /\ stopping = "acting" => \A l \in mem.lines \cup disk.lines : l.stop # StopCount

PhaseFits ==
  /\ phase # "up" => inflight = {} /\ stopping = "none"
  /\ phase = "up" => /\ listLines = {} /\ listStops = {}
                     /\ disk.lines \subseteq mem.lines
  /\ phase = "recovering" <=> rec.step # "none"
  /\ phase = "recovering" => mem = disk
  /\ \A s \in inflight : mem.thread[s] # 0
  /\ stopping # "none" => StopCount > 0

StopLine(snapshot, k) == \E l \in snapshot.lines : l.stop = k /\ l.by = "stop"
RestartLine(snapshot, k) == \E l \in snapshot.lines : l.stop = k /\ l.by = "restart"

(* A stop's record on disk is whole, or absent, or of a stop the recovery    *)
(* list names.                                                               *)
RecordsWhole ==
  /\ \A b \in begun : b.written =>
       \/ b.stop \in listStops
       \/ HasLines(disk, b)
       \/ \A l \in disk.lines : l.stop # b.stop
  /\ phase = "up" => \A b \in begun : b.written =>
       HasLines(mem, b) \/ (stopping = "acting" /\ b.stop = StopCount)
  /\ stopping = "clearing" => \A b \in begun : b.written => HasLines(disk, b)

(* The recovery list names no stop that its own save recorded, and a stop's  *)
(* line and a restart's are never both of one session.                       *)
OneKind(lines) == \A l, k \in lines : l.stop = k.stop /\ l.sess = k.sess => l.by = k.by

RecordedOnce ==
  /\ \A k \in listStops : ~StopLine(disk, k)
  /\ OneKind(disk.lines)
  /\ phase = "up" => OneKind(mem.lines)
  /\ phase = "recovering" => \A l \in listLines : l.by = "restart" /\ l.stop \in listStops

(* What a listed row of a stop asks for is staged, and saved before the      *)
(* round finishes.                                                           *)
Covered ==
  phase = "recovering" =>
    /\ \A e \in listRows : e.is.own =>
         \A s \in e.is.sess : \E l \in mem.lines \cup (IF rec.step = "finish" THEN {} ELSE listLines) :
           l.stop = e.is.stop /\ l.sess = s
    /\ rec.acted => rec.read
    /\ rec.step = "close" => ~rec.read
    /\ ~rec.acted => rec.thread = mem.thread /\ \A e \in listRows : e.is.keep
    /\ rec.step = "finish" => rec.thread = mem.thread

Reset(thread, catch) == \A s \in Sessions : <<s, thread[s]>> \notin catch

(* The round's copy differs from the saved threads only by resets, each one  *)
(* a stop's that no save of its own recorded; a listed row has been acted on *)
(* or its stop counts as recorded.                                           *)
RoundFits ==
  phase = "recovering" =>
    /\ \A s \in Sessions : rec.thread[s] # mem.thread[s] =>
         /\ rec.thread[s] = 0
         /\ foreign = 0 => \E b \in begun : <<s, mem.thread[s]>> \in b.catch /\ ~StopLine(disk, b.stop)
    /\ \A e \in listRows :
         \/ e.is.stop \in listStops /\ Reset(rec.thread, e.is.catch)
         \/ e.is.stop \notin listStops /\ \E l \in mem.lines : l.stop = e.is.stop

CutOff(snapshot, b) == b.written /\ RestartLine(snapshot, b.stop) /\ ~StopLine(snapshot, b.stop)

(* A cut off stop has its threads reset, or its row is still to be read and  *)
(* will be acted on.                                                         *)
CutOffsReset ==
  /\ \A b \in begun : CutOff(disk, b) =>
       \/ Reset(disk.thread, b.catch)
       \/ b.stop \in listStops /\ \E e \in table : e.is.own /\ e.is.stop = b.stop
  /\ phase = "up" => \A b \in begun : CutOff(mem, b) => Reset(mem.thread, b.catch)

Inv ==
  /\ Numbered /\ Shapes /\ RowsFit /\ LinesFit /\ PhaseFits
  /\ KeptUntilRecorded /\ RecordsWhole /\ RecordedOnce
  /\ Covered /\ RoundFits /\ CutOffsReset

---------------------------------------------------------------------------
(* The greatest element of a bounded set of naturals *)

LEMMA LeastExists ==
  ASSUME NEW T, T \subseteq Nat, T # {}
  PROVE  \E x \in T : \A y \in T : x <= y
<1>1. PICK x \in T : \A y \in T : ~(<<y, x>> \in OpToRel(<, Nat))
  BY WFMin, NatLessThanWellFounded
<1>2. \A y \in Nat : y < x => <<y, x>> \in OpToRel(<, Nat)
  BY DEF OpToRel
<1>3. \A y \in T : ~(y < x)
  BY <1>1, <1>2
<1>4. \A y \in T : x <= y
  <2> TAKE y \in T
  <2>1. x \in Nat /\ y \in Nat
    OBVIOUS
  <2> QED BY <1>3, <2>1
<1> QED BY <1>4

LEMMA MaxOfBounded ==
  ASSUME NEW N \in Nat, NEW S, S \subseteq 0..N, S # {}
  PROVE  Max(S) \in S /\ \A y \in S : Max(S) >= y
<1> DEFINE T == {n \in Nat : \E x \in S : n = N - x}
<1>0. \A x \in S : x \in Nat /\ x <= N /\ N - x \in Nat
  OBVIOUS
<1>1. T \subseteq Nat /\ T # {}
  BY <1>0
<1>2. PICK m \in T : \A y \in T : m <= y
  <2> HIDE DEF T
  <2> QED BY <1>1, LeastExists
<1>3. PICK x \in S : m = N - x
  OBVIOUS
<1>4. \A y \in S : x >= y
  <2> TAKE y \in S
  <2>1. N - y \in T
    BY <1>0
  <2>2. m <= N - y
    BY <2>1, <1>2
  <2> QED BY <2>2, <1>3, <1>0
<1> QED BY <1>4 DEF Max

---------------------------------------------------------------------------
(* The start, and the steps that write no line *)

LEMMA ConstantsTyped ==
  /\ RowsPerPass \in Nat \ {0} /\ MaxRounds \in Nat \ {0} /\ MaxThreads \in Nat \ {0}
  /\ MaxRows \in Nat /\ MaxFaults \in Nat /\ MaxCrashes \in Nat
  /\ 0 \in Threads /\ 1 \in Threads /\ 0 \in 0..MaxRows /\ 0 \in 0..MaxRounds
BY ConstantsAssumption DEF ConstantsAssumption, Threads

LEMMA NoRecoveryTyped == NoRecovery \in Recoveries /\ NoRecovery.step = "none"
<1>1. [s \in Sessions |-> 0] \in [Sessions -> Threads]
  BY ConstantsTyped
<1> QED BY <1>1, ConstantsTyped DEF NoRecovery, Recoveries

LEMMA CountTyped ==
  Numbered => StopCount \in Nat
BY FS_CardinalityType DEF Numbered, StopCount

LEMMA InvInit == Init => Inv
<1> SUFFICES ASSUME Init
             PROVE  Inv
  OBVIOUS
<1>1. begun = {} /\ Cardinality({}) = 0 /\ IsFiniteSet({}) /\ StopCount = 0 /\ foreign = 0
  BY FS_EmptySet DEF Init, StopCount
<1>2. mem \in Snapshots
  <2>1. [s \in Sessions |-> 1] \in [Sessions -> Threads]
    BY ConstantsTyped
  <2> QED BY <2>1 DEF Init, Snapshots
<1>3. Numbered
  BY <1>1, ConstantsTyped DEF Numbered
<1>4. Shapes
  BY <1>1, <1>2, ConstantsTyped, NoRecoveryTyped DEF Init, Shapes
<1>5. mem.lines = {} /\ disk.lines = {} /\ listLines = {} /\ listStops = {} /\ phase = "up"
  BY DEF Init
<1>6. RowsFit /\ LinesFit /\ KeptUntilRecorded /\ Covered /\ RoundFits
  BY <1>1, <1>5 DEF Init, RowsFit, LinesFit, KeptUntilRecorded, Covered, RoundFits
<1>7. PhaseFits
  BY <1>1, <1>5, NoRecoveryTyped DEF Init, PhaseFits
<1>8. RecordsWhole /\ RecordedOnce /\ CutOffsReset
  BY <1>1, <1>5 DEF Init, RecordsWhole, RecordedOnce, CutOffsReset, OneKind
<1> QED BY <1>3, <1>4, <1>6, <1>7, <1>8 DEF Inv

(* A step that leaves snapshots, journal and stops alone keeps most parts.   *)
LEMMA RecordsKept ==
  ASSUME Inv, UNCHANGED <<phase, mem, disk, stopping, begun, journal, rec, counts>>
  PROVE  /\ Numbered' /\ RowsFit' /\ LinesFit' /\ KeptUntilRecorded' /\ RecordsWhole'
         /\ RecordedOnce' /\ Covered' /\ RoundFits' /\ CutOffsReset'
<1>1. UNCHANGED <<phase, mem, disk, stopping, begun, table, aside, listRows, listLines,
                  listStops, rec, foreign, faults, crashes>>
  BY DEF journal, counts
<1>2. Numbered' /\ RowsFit' /\ LinesFit'
  BY <1>1 DEF Inv, Numbered, RowsFit, LinesFit, StopCount
<1>3. KeptUntilRecorded' /\ RecordsWhole'
  BY <1>1 DEF Inv, KeptUntilRecorded, RecordsWhole, HasLines, StopCount
<1>4. RecordedOnce' /\ Covered'
  BY <1>1 DEF Inv, RecordedOnce, Covered, StopLine, OneKind
<1>5. RoundFits' /\ CutOffsReset'
  BY <1>1 DEF Inv, RoundFits, CutOffsReset, CutOff, Reset, StopLine, RestartLine
<1> QED BY <1>2, <1>3, <1>4, <1>5

LEMMA DispatchStep ==
  ASSUME Inv, NEW s \in Sessions, Dispatch(s) \/ Dispatched(s)
  PROVE  Inv'
<1>1. /\ UNCHANGED <<phase, mem, disk, stopping, begun, journal, rec, counts>>
      /\ phase = "up"
      /\ inflight' \subseteq Sessions
      /\ \A r \in inflight' : mem.thread[r] # 0
  BY DEF Inv, Shapes, PhaseFits, Dispatch, Dispatched
<1>2. UNCHANGED <<phase, mem, disk, stopping, begun, table, aside, listRows, listLines,
                  listStops, rec, foreign, faults, crashes>>
  BY <1>1 DEF journal, counts
<1>3. Shapes' /\ PhaseFits'
  BY <1>1, <1>2 DEF Inv, Shapes, PhaseFits, StopCount
<1> QED BY <1>1, <1>3, RecordsKept DEF Inv

LEMMA NewThreadStep ==
  ASSUME Inv, NEW s \in Sessions, NewThread(s)
  PROVE  Inv'
<1> DEFINE caught == {mem.thread[s]} \cup {t \in Threads : \E b \in begun : <<s, t>> \in b.catch}
<1> DEFINE last == Max(caught)
<1>1. /\ UNCHANGED <<phase, disk, inflight, stopping, begun, table, aside, listRows, listLines,
                     listStops, rec, foreign, faults, crashes>>
      /\ phase = "up" /\ stopping = "none"
      /\ last < MaxThreads
      /\ mem' = [mem EXCEPT !.thread[s] = last + 1, !.state[s] = "idle"]
  BY DEF NewThread, journal, counts
<1>2. mem \in Snapshots /\ mem.thread[s] \in Threads /\ Numbered
  BY DEF Inv, Shapes, Snapshots
<1>3. last \in caught /\ \A t \in caught : last >= t
  <2>1. caught \subseteq 0..MaxThreads /\ caught # {}
    BY <1>2 DEF Threads
  <2> HIDE DEF caught
  <2> QED BY <2>1, MaxOfBounded, ConstantsTyped
<1>4. last + 1 \in Threads /\ last + 1 # 0 /\ last + 1 \notin caught
  <2>1. last \in 0..MaxThreads
    BY <1>2, <1>3 DEF Threads
  <2>2. \A t \in caught : t \in 0..MaxThreads /\ t <= last
    BY <1>2, <1>3 DEF Threads
  <2> HIDE DEF caught
  <2>3. last + 1 \in 0..MaxThreads /\ last + 1 # 0
    BY <2>1, <1>1, ConstantsTyped
  <2>4. last + 1 \notin caught
    BY <2>1, <2>2
  <2> QED BY <2>3, <2>4 DEF Threads
<1> HIDE DEF last
<1>5. /\ mem'.lines = mem.lines
      /\ mem'.thread = [mem.thread EXCEPT ![s] = last + 1]
      /\ mem'.state = [mem.state EXCEPT ![s] = "idle"]
      /\ mem' = [state |-> mem'.state, thread |-> mem'.thread, lines |-> mem.lines]
  BY <1>1, <1>2 DEF Snapshots
<1>6. mem' \in Snapshots
  <2>1. mem'.thread \in [Sessions -> Threads] /\ mem'.state \in [Sessions -> {"idle", "failed"}]
    BY <1>2, <1>4, <1>5 DEF Snapshots
  <2> QED BY <2>1, <1>2, <1>5 DEF Snapshots
<1>7. \A b \in begun : <<s, last + 1>> \notin b.catch
  BY <1>4
<1>8. Shapes' /\ Numbered' /\ RowsFit' /\ LinesFit'
  BY <1>1, <1>5, <1>6 DEF Inv, Shapes, Numbered, RowsFit, LinesFit, StopCount
<1>9. PhaseFits'
  <2>1. \A r \in inflight : mem'.thread[r] # 0
    BY <1>2, <1>4, <1>5 DEF Inv, PhaseFits, Shapes, Snapshots
  <2> QED BY <1>1, <1>5, <2>1 DEF Inv, PhaseFits, StopCount
<1>10. KeptUntilRecorded' /\ RecordsWhole'
  BY <1>1, <1>5 DEF Inv, KeptUntilRecorded, RecordsWhole, HasLines, StopCount
<1>11. RecordedOnce' /\ Covered' /\ RoundFits'
  BY <1>1, <1>5 DEF Inv, RecordedOnce, Covered, RoundFits, StopLine, OneKind
<1>12. CutOffsReset'
  <2>1. \A b \in begun : Reset(mem.thread, b.catch) => Reset(mem'.thread, b.catch)
    BY <1>2, <1>5, <1>7 DEF Reset, Snapshots
  <2>2. \A b \in begun : CutOff(mem', b) => CutOff(mem, b)
    BY <1>5 DEF CutOff, StopLine, RestartLine
  <2>3. \A b \in begun : CutOff(mem', b) => Reset(mem'.thread, b.catch)
    BY <2>1, <2>2, <1>1 DEF Inv, CutOffsReset
  <2> QED BY <1>1, <2>3 DEF Inv, CutOffsReset, CutOff, StopLine, RestartLine, Reset
<1> QED BY <1>8, <1>9, <1>10, <1>11, <1>12 DEF Inv

LEMMA PersistStep ==
  ASSUME Inv, Persist
  PROVE  Inv'
<1>1. /\ UNCHANGED <<phase, mem, inflight, stopping, begun, table, aside, listRows, listLines,
                     listStops, rec, foreign, faults, crashes>>
      /\ phase = "up" /\ disk' = mem
  BY DEF Persist, journal, counts
<1>2. Shapes' /\ Numbered' /\ RowsFit' /\ LinesFit' /\ PhaseFits'
  BY <1>1 DEF Inv, Shapes, Numbered, RowsFit, LinesFit, PhaseFits, StopCount
<1>3. \A b \in begun : HasLines(disk, b) => HasLines(mem, b)
  BY <1>1 DEF Inv, PhaseFits, HasLines
<1>4. KeptUntilRecorded'
  BY <1>1, <1>3 DEF Inv, KeptUntilRecorded, HasLines
<1>5. RecordsWhole'
  BY <1>1, <1>3 DEF Inv, RecordsWhole, LinesFit, HasLines, StopCount
<1>6. RecordedOnce' /\ Covered' /\ RoundFits'
  BY <1>1 DEF Inv, RecordedOnce, Covered, RoundFits, PhaseFits, StopLine, OneKind
<1>7. CutOffsReset'
  BY <1>1 DEF Inv, CutOffsReset, CutOff, StopLine, RestartLine, Reset
<1> QED BY <1>2, <1>4, <1>5, <1>6, <1>7 DEF Inv

---------------------------------------------------------------------------
(* The steps of a stop *)

LEMMA NumberedGrows ==
  ASSUME Numbered, foreign \in Nat, StopCount + foreign < MaxRows,
         NEW b \in Begun, b.stop = StopCount + 1, b.sess # {},
         \A s \in Sessions : <<s, 0>> \notin b.catch,
         begun' = begun \cup {b}, foreign' = foreign
  PROVE  Numbered' /\ StopCount' = StopCount + 1
<1>1. StopCount \in Nat /\ \A c \in begun : c.stop \in 1..StopCount
  BY CountTyped DEF Numbered
<1>2. b \notin begun
  BY <1>1
<1>3. IsFiniteSet(begun') /\ StopCount' = StopCount + 1
  BY <1>2, FS_AddElement DEF Numbered, StopCount
<1>4. \A c \in begun' : c.stop \in 1..StopCount' /\ c.sess # {} /\ \A s \in Sessions : <<s, 0>> \notin c.catch
  BY <1>1, <1>3 DEF Numbered
<1>5. \A k \in 1..StopCount' : \E c \in begun' : c.stop = k
  <2> SUFFICES ASSUME NEW k \in 1..StopCount'
               PROVE  \E c \in begun' : c.stop = k
    OBVIOUS
  <2>1. CASE k = StopCount + 1
    BY <2>1
  <2>2. CASE k # StopCount + 1
    <3>1. k \in 1..StopCount
      BY <2>2, <1>1, <1>3
    <3> QED BY <3>1 DEF Numbered
  <2> QED BY <2>1, <2>2
<1>6. \A c, d \in begun' : c.stop = d.stop => c = d
  BY <1>1 DEF Numbered
<1>7. StopCount' + foreign' <= MaxRows
  BY <1>1, <1>3, ConstantsTyped
<1> QED BY <1>3, <1>4, <1>5, <1>6, <1>7 DEF Numbered, Begun, Stops, Threads

LEMMA BeginStopStep ==
  ASSUME Inv, NEW busy \in SUBSET Sessions, BeginStop(busy)
  PROVE  Inv'
<1> DEFINE catch == {<<s, mem.thread[s]>> : s \in inflight}
<1> DEFINE touched == inflight \cup busy
<1> DEFINE is == [stop |-> StopCount + 1, catch |-> catch, sess |-> touched,
                  own |-> TRUE, keep |-> FALSE, bad |-> FALSE]
<1> DEFINE top == Max({0} \cup {e.row : e \in table})
<1> DEFINE row == [row |-> top + 1, is |-> is]
<1> DEFINE b(w) == [stop |-> StopCount + 1, catch |-> catch, sess |-> touched, written |-> w]
<1>1. /\ UNCHANGED <<phase, mem, disk, inflight, aside, listRows, listLines, listStops, rec,
                     foreign, crashes>>
      /\ phase = "up" /\ stopping = "none" /\ stopping' = "acting"
      /\ StopCount + foreign < MaxRows
      /\ touched # {} /\ touched \subseteq Sessions
  BY DEF BeginStop, StopCount, Inv, Shapes
<1>2. PICK w \in BOOLEAN :
        /\ begun' = begun \cup {b(w)}
        /\ \/ w /\ table' = table \cup {row} /\ top + 1 \in RowIds /\ UNCHANGED faults
           \/ ~w /\ table' = table /\ faults < MaxFaults /\ faults' = faults + 1
  <2>1. CASE /\ begun' = begun \cup {b(TRUE)} /\ table' = table \cup {row}
             /\ top + 1 \in RowIds /\ UNCHANGED faults
    BY <2>1
  <2>2. CASE /\ begun' = begun \cup {b(FALSE)} /\ table' = table
             /\ faults < MaxFaults /\ faults' = faults + 1
    BY <2>2
  <2> QED BY <2>1, <2>2 DEF BeginStop, StopCount, Fails
<1>3. /\ StopCount \in Nat /\ foreign \in Nat /\ mem \in Snapshots /\ inflight \subseteq Sessions
      /\ \A s \in inflight : mem.thread[s] \in Threads /\ mem.thread[s] # 0
  BY CountTyped DEF Inv, Shapes, PhaseFits, Snapshots
<1>4. /\ catch \in SUBSET (Sessions \X Threads)
      /\ \A s \in Sessions : <<s, 0>> \notin catch
      /\ StopCount + 1 \in Stops
  BY <1>1, <1>3, ConstantsTyped DEF Stops
<1> HIDE DEF catch
<1>5. b(w) \in Begun /\ is \in Rows
  BY <1>1, <1>4 DEF Begun, Rows
<1>6. Numbered' /\ StopCount' = StopCount + 1
  <2>1. Numbered
    BY DEF Inv
  <2> QED BY <1>1, <1>2, <1>3, <1>4, <1>5, <2>1, NumberedGrows
<1>7. \A c \in begun : c \in begun' /\ c.stop <= StopCount /\ c.stop # StopCount + 1
  BY <1>2, <1>3 DEF Inv, Numbered
<1>8. \A e \in table : e.row <= top /\ e.row # top + 1
  <2> DEFINE R == {0} \cup {e.row : e \in table}
  <2>1. R \subseteq 0..MaxRows /\ R # {}
    BY ConstantsTyped DEF Inv, Shapes, Entries, RowIds
  <2>2. Max(R) \in R /\ \A y \in R : Max(R) >= y
    <3> HIDE DEF R
    <3> QED BY <2>1, MaxOfBounded, ConstantsTyped
  <2>3. \A e \in table : e.row \in R /\ e.row \in 0..MaxRows /\ top \in 0..MaxRows /\ top >= e.row
    BY <2>1, <2>2
  <2> HIDE DEF top
  <2> QED BY <2>3
<1> HIDE DEF top
<1>9. Shapes'
  <2>0. /\ \A e \in table' : e \in table \/ (e = row /\ top + 1 \in RowIds)
        /\ row.row = top + 1 /\ row.is = is
    BY <1>2
  <2>1. table' \subseteq Entries
    <3>1. top + 1 \in RowIds => row \in Entries
      BY <1>5 DEF Entries
    <3> HIDE DEF row
    <3> QED BY <2>0, <3>1 DEF Inv, Shapes
  <2>2. \A e, f \in table' : e.row = f.row => e = f
    <3> HIDE DEF row
    <3> QED BY <2>0, <1>8 DEF Inv, Shapes
  <2>3. faults' \in 0..MaxFaults
    BY <1>2, ConstantsTyped DEF Inv, Shapes
  <2> QED BY <1>1, <2>1, <2>2, <2>3 DEF Inv, Shapes
<1>10. RowsFit'
  <2>1. ASSUME NEW e \in table \cup listRows
        PROVE  /\ \A s \in Sessions : <<s, 0>> \notin e.is.catch
               /\ \E c \in begun' : /\ c.stop = e.is.stop
                                    /\ e.is.own => /\ ~e.is.bad /\ ~e.is.keep /\ c.written
                                                   /\ c.catch = e.is.catch /\ c.sess = e.is.sess
               /\ foreign' = 0 => e.is.own
    BY <1>1, <1>2 DEF Inv, RowsFit
  <2>2. ASSUME w
        PROVE  /\ \A s \in Sessions : <<s, 0>> \notin row.is.catch
               /\ \E c \in begun' : /\ c.stop = row.is.stop
                                    /\ row.is.own => /\ ~row.is.bad /\ ~row.is.keep /\ c.written
                                                     /\ c.catch = row.is.catch /\ c.sess = row.is.sess
               /\ foreign' = 0 => row.is.own
    <3>1. b(w) \in begun' /\ b(w).stop = row.is.stop /\ b(w).written
          /\ b(w).catch = row.is.catch /\ b(w).sess = row.is.sess
          /\ ~row.is.bad /\ ~row.is.keep /\ row.is.own
      BY <1>2, <2>2
    <3> QED BY <3>1, <1>4
  <2>3. \A e \in table' \cup listRows' : e \in table \cup listRows \/ (w /\ e = row)
    BY <1>1, <1>2
  <2> HIDE DEF row, b
  <2> QED BY <2>1, <2>2, <2>3 DEF RowsFit
<1>11. LinesFit' /\ \A l \in mem.lines \cup disk.lines : l.stop \in Nat /\ l.stop <= StopCount
  <2>1. \A l \in mem.lines \cup disk.lines \cup listLines : l.stop \in Nat /\ l.stop <= StopCount
    BY DEF Inv, LinesFit, Shapes, Snapshots, Lines, Stops
  <2> QED BY <2>1, <1>1, <1>3, <1>6 DEF LinesFit
<1>12. PhaseFits'
  BY <1>1, <1>3, <1>6 DEF Inv, PhaseFits
<1>13. \A c \in begun' : c \in begun \/ (c.stop = StopCount + 1 /\ c.written = w)
  BY <1>2
<1>14. KeptUntilRecorded'
  <2> SUFFICES ASSUME NEW c \in begun', c.written, ~HasLines(disk, c)
               PROVE  \E e \in table' : e.is.stop = c.stop /\ e.is.own
    BY <1>1 DEF KeptUntilRecorded, HasLines
  <2>1. CASE c \in begun
    BY <1>2, <2>1 DEF Inv, KeptUntilRecorded
  <2>2. CASE c.stop = StopCount + 1 /\ c.written = w
    <3>1. w
      BY <2>2
    <3>2. row \in table' /\ row.is.stop = StopCount + 1 /\ row.is.own
      BY <1>2, <3>1
    <3> HIDE DEF row
    <3> QED BY <2>2, <3>2
  <2> QED BY <1>13, <2>1, <2>2
<1>15. RecordsWhole'
  <2>1. \A c \in begun' : c.written =>
          \/ c.stop \in listStops
          \/ HasLines(disk, c)
          \/ \A l \in disk.lines : l.stop # c.stop
    BY <1>3, <1>11, <1>13 DEF Inv, RecordsWhole
  <2>2. \A c \in begun' : c.written => HasLines(mem, c) \/ c.stop = StopCount + 1
    BY <1>1, <1>13 DEF Inv, RecordsWhole
  <2> QED BY <1>1, <1>6, <2>1, <2>2 DEF RecordsWhole, HasLines
<1>16. RecordedOnce' /\ Covered' /\ RoundFits'
  BY <1>1 DEF Inv, RecordedOnce, Covered, RoundFits, StopLine, OneKind
<1>17. CutOffsReset'
  <2>1. \A c \in begun' : CutOff(disk, c) \/ CutOff(mem, c) => c \in begun
    BY <1>3, <1>11, <1>13 DEF CutOff, RestartLine
  <2>2. \A e \in table : e \in table'
    BY <1>2
  <2>3. \A c \in begun' : CutOff(disk, c) =>
          \/ Reset(disk.thread, c.catch)
          \/ c.stop \in listStops /\ \E e \in table' : e.is.own /\ e.is.stop = c.stop
    BY <2>1, <2>2 DEF Inv, CutOffsReset
  <2>4. \A c \in begun' : CutOff(mem, c) => Reset(mem.thread, c.catch)
    BY <2>1, <1>1 DEF Inv, CutOffsReset
  <2> QED BY <1>1, <2>3, <2>4 DEF CutOffsReset, CutOff, StopLine, RestartLine, Reset
<1> QED BY <1>6, <1>9, <1>10, <1>11, <1>12, <1>14, <1>15, <1>16, <1>17 DEF Inv

(* The current stop is the last one that began.                              *)
LEMMA CurrentIsLast ==
  ASSUME Numbered, StopCount > 0
  PROVE  Current \in begun /\ Current.stop = StopCount
<1>1. StopCount \in Nat /\ \A b \in begun : b.stop \in 1..StopCount
  BY CountTyped DEF Numbered
<1>2. PICK b \in begun : b.stop = StopCount
  BY <1>1 DEF Numbered
<1>3. \A c \in begun : c.stop <= b.stop
  BY <1>1, <1>2
<1>4. Current \in begun /\ \A c \in begun : c.stop <= Current.stop
  BY <1>3 DEF Current
<1> QED BY <1>1, <1>2, <1>4

LEMMA ActStopStep ==
  ASSUME Inv, ActStop
  PROVE  Inv'
<1> DEFINE added == [stop : {Current.stop}, sess : Current.sess, by : {"stop"}]
<1>1. /\ UNCHANGED <<phase, disk, begun, table, aside, listRows, listLines, listStops, rec,
                     foreign, crashes>>
      /\ stopping = "acting" /\ stopping' = "saving" /\ inflight' = {}
      /\ phase = "up"
  BY DEF ActStop, journal, Inv, PhaseFits
<1>2. PICK reset \in {inflight} \cup {{}} :
        /\ IF reset = inflight THEN UNCHANGED faults ELSE Fails
        /\ mem' = [state |-> [s \in Sessions |-> IF s \in inflight THEN "failed" ELSE mem.state[s]],
                   thread |-> [s \in Sessions |-> IF s \in reset THEN 0 ELSE mem.thread[s]],
                   lines |-> mem.lines \cup added]
  BY DEF ActStop
<1>3. Current \in begun /\ Current.stop = StopCount /\ StopCount \in Nat /\ StopCount > 0
  BY CurrentIsLast, CountTyped, <1>1 DEF Inv, PhaseFits
<1>4. mem \in Snapshots /\ Current \in Begun
  BY <1>3 DEF Inv, Shapes, Numbered
<1>5. /\ added \subseteq Lines
      /\ \A l \in added : l.stop = StopCount /\ l.by = "stop" /\ l.sess \in Current.sess
      /\ \A s \in Current.sess : \E l \in added : l.stop = StopCount /\ l.sess = s
  <2>1. \A s \in Current.sess : [stop |-> StopCount, sess |-> s, by |-> "stop"] \in added
    BY <1>3
  <2> QED BY <1>3, <1>4, <2>1 DEF Begun, Lines
<1> HIDE DEF added
<1>6. /\ mem'.lines = mem.lines \cup added
      /\ mem'.thread = [s \in Sessions |-> IF s \in reset THEN 0 ELSE mem.thread[s]]
  BY <1>2
<1>7. mem' \in Snapshots
  <2>1. [s \in Sessions |-> IF s \in reset THEN 0 ELSE mem.thread[s]] \in [Sessions -> Threads]
    BY <1>4, ConstantsTyped DEF Snapshots
  <2>2. [s \in Sessions |-> IF s \in inflight THEN "failed" ELSE mem.state[s]]
          \in [Sessions -> {"idle", "failed"}]
    BY <1>4 DEF Snapshots
  <2>3. mem.lines \cup added \subseteq Lines
    BY <1>4, <1>5 DEF Snapshots
  <2> QED BY <1>2, <2>1, <2>2, <2>3 DEF Snapshots
<1>8. Shapes'
  <2>1. faults' \in 0..MaxFaults
    BY <1>2, ConstantsTyped DEF Fails, Inv, Shapes
  <2> QED BY <1>1, <1>7, <2>1 DEF Inv, Shapes
<1>9. Numbered' /\ RowsFit' /\ StopCount' = StopCount
  BY <1>1 DEF Inv, Numbered, RowsFit, StopCount
<1>10. LinesFit'
  BY <1>1, <1>3, <1>5, <1>6, <1>9 DEF Inv, LinesFit
<1>11. PhaseFits'
  BY <1>1, <1>6, <1>9 DEF Inv, PhaseFits
<1>12. KeptUntilRecorded'
  BY <1>1 DEF Inv, KeptUntilRecorded, HasLines
<1>13. RecordsWhole'
  <2>1. \A b \in begun : b.written => HasLines(mem', b)
    <3> SUFFICES ASSUME NEW b \in begun, b.written
                 PROVE  HasLines(mem', b)
      OBVIOUS
    <3>1. CASE HasLines(mem, b)
      BY <3>1, <1>6 DEF HasLines
    <3>2. CASE b.stop = StopCount
      <4>1. b = Current
        BY <3>2, <1>3 DEF Inv, Numbered
      <4> QED BY <4>1, <1>3, <1>5, <1>6 DEF HasLines
    <3> QED BY <3>1, <3>2, <1>1 DEF Inv, RecordsWhole
  <2> QED BY <1>1, <1>9, <2>1 DEF Inv, RecordsWhole, HasLines
<1>14. RecordedOnce'
  <2>1. OneKind(mem.lines \cup added)
    <3>1. \A l \in mem.lines : l.stop # StopCount
      BY <1>1 DEF Inv, LinesFit
    <3> QED BY <3>1, <1>1, <1>5 DEF Inv, RecordedOnce, OneKind
  <2> QED BY <1>1, <1>6, <2>1 DEF Inv, RecordedOnce, StopLine, OneKind
<1>15. Covered' /\ RoundFits'
  BY <1>1 DEF Covered, RoundFits
<1>16. CutOffsReset'
  <2>1. \A b \in begun : CutOff(mem', b) => CutOff(mem, b)
    BY <1>5, <1>6 DEF CutOff, StopLine, RestartLine
  <2>2. \A b \in begun : Reset(mem.thread, b.catch) => Reset(mem'.thread, b.catch)
    BY <1>6 DEF Inv, Numbered, Reset
  <2>3. \A b \in begun : CutOff(mem', b) => Reset(mem'.thread, b.catch)
    BY <2>1, <2>2, <1>1 DEF Inv, CutOffsReset
  <2> QED BY <1>1, <2>3 DEF Inv, CutOffsReset, CutOff, StopLine, RestartLine, Reset
<1> QED BY <1>8, <1>9, <1>10, <1>11, <1>12, <1>13, <1>14, <1>15, <1>16 DEF Inv

LEMMA SaveStopStep ==
  ASSUME Inv, SaveStop
  PROVE  Inv'
<1>1. /\ UNCHANGED <<phase, mem, inflight, begun, table, aside, listRows, listLines, listStops,
                     rec, foreign, crashes>>
      /\ stopping = "saving" /\ phase = "up"
      /\ stopping' \in {"none", "clearing"} /\ disk' \in {disk, mem}
      /\ stopping' = "clearing" => disk' = mem
      /\ faults' \in 0..MaxFaults
  BY ConstantsTyped DEF SaveStop, journal, Fails, Inv, Shapes, PhaseFits
<1>2. Shapes' /\ Numbered' /\ RowsFit'
  BY <1>1 DEF Inv, Shapes, Numbered, RowsFit, StopCount
<1>3. LinesFit' /\ PhaseFits'
  BY <1>1 DEF Inv, LinesFit, PhaseFits, StopCount
<1>4. \A b \in begun : b.written => HasLines(mem, b)
  BY <1>1 DEF Inv, RecordsWhole
<1>5. KeptUntilRecorded'
  BY <1>1, <1>4 DEF Inv, KeptUntilRecorded, HasLines
<1>6. RecordsWhole'
  BY <1>1, <1>4 DEF Inv, RecordsWhole, HasLines, StopCount
<1>7. RecordedOnce' /\ Covered' /\ RoundFits'
  BY <1>1 DEF Inv, RecordedOnce, Covered, RoundFits, PhaseFits, StopLine, OneKind
<1>8. CutOffsReset'
  BY <1>1 DEF Inv, CutOffsReset, CutOff, StopLine, RestartLine, Reset
<1> QED BY <1>2, <1>3, <1>5, <1>6, <1>7, <1>8 DEF Inv

LEMMA ClearStopStep ==
  ASSUME Inv, ClearStop
  PROVE  Inv'
<1>1. /\ UNCHANGED <<phase, mem, disk, inflight, begun, aside, listRows, listLines, listStops,
                     rec, foreign, crashes>>
      /\ stopping = "clearing" /\ stopping' = "none" /\ phase = "up"
      /\ table' \subseteq table
      /\ faults' \in 0..MaxFaults
  BY ConstantsTyped DEF ClearStop, Fails, Inv, Shapes, PhaseFits
<1>2. Shapes' /\ Numbered' /\ RowsFit'
  BY <1>1 DEF Inv, Shapes, Numbered, RowsFit, StopCount
<1>3. LinesFit' /\ PhaseFits'
  BY <1>1 DEF Inv, LinesFit, PhaseFits, StopCount
<1>4. KeptUntilRecorded' /\ RecordsWhole'
  BY <1>1 DEF Inv, KeptUntilRecorded, RecordsWhole, HasLines, StopCount
<1>5. RecordedOnce' /\ Covered' /\ RoundFits'
  BY <1>1 DEF Inv, RecordedOnce, Covered, RoundFits, StopLine, OneKind
<1>6. CutOffsReset'
  BY <1>1 DEF Inv, PhaseFits, CutOffsReset, CutOff, StopLine, RestartLine, Reset
<1> QED BY <1>2, <1>3, <1>4, <1>5, <1>6 DEF Inv

---------------------------------------------------------------------------
(* The steps around a recovery: crash, other writers, start, save and end *)

LEMMA CrashStep ==
  ASSUME Inv, Crash
  PROVE  Inv'
<1>1. /\ UNCHANGED <<mem, begun, table, aside, listRows, listLines, listStops, foreign, faults>>
      /\ phase # "down" /\ phase' = "down" /\ stopping' = "none" /\ inflight' = {}
      /\ rec' = NoRecovery
      /\ disk' = disk \/ (disk' = mem /\ stopping = "saving" /\ phase = "up")
      /\ crashes' \in 0..MaxCrashes
  BY ConstantsTyped DEF Crash, journal, Inv, Shapes, PhaseFits
<1>2. Shapes' /\ Numbered' /\ RowsFit'
  BY <1>1, NoRecoveryTyped DEF Inv, Shapes, Numbered, RowsFit, StopCount
<1>3. LinesFit' /\ PhaseFits'
  BY <1>1, NoRecoveryTyped DEF Inv, LinesFit, PhaseFits, StopCount
<1>4. disk' # disk => \A b \in begun : b.written => HasLines(mem, b)
  BY <1>1 DEF Inv, RecordsWhole
<1>5. KeptUntilRecorded' /\ RecordsWhole'
  BY <1>1, <1>4 DEF Inv, KeptUntilRecorded, RecordsWhole, HasLines, StopCount
<1>6. RecordedOnce' /\ Covered' /\ RoundFits'
  BY <1>1 DEF Inv, RecordedOnce, Covered, RoundFits, PhaseFits, StopLine, OneKind
<1>7. CutOffsReset'
  BY <1>1 DEF Inv, CutOffsReset, CutOff, StopLine, RestartLine, Reset
<1> QED BY <1>2, <1>3, <1>5, <1>6, <1>7 DEF Inv

LEMMA ForeignStep ==
  ASSUME Inv, NEW row \in RowIds, NEW stop \in Stops, NEW s \in Sessions, NEW kind,
         Foreign(row, stop, s, kind)
  PROVE  Inv'
<1> DEFINE is == [stop |-> stop, catch |-> {<<s, 1>>}, sess |-> {s}, own |-> FALSE,
                  keep |-> kind = "overflow", bad |-> kind = "unreadable"]
<1> DEFINE new == [row |-> row, is |-> is]
<1>1. /\ UNCHANGED <<phase, mem, disk, inflight, stopping, begun, aside, listRows, listLines,
                     listStops, rec, faults, crashes>>
      /\ foreign' = foreign + 1 /\ StopCount + foreign < MaxRows
      /\ table' = table \cup {new}
      /\ row \in Free
      /\ \E b \in begun : b.stop = stop
  BY DEF Foreign, StopCount
<1>2. StopCount \in Nat /\ foreign \in Nat /\ StopCount' = StopCount
  BY <1>1, CountTyped DEF Inv, Shapes, StopCount
<1>3. /\ new \in Entries /\ new.row = row /\ new.is.stop = stop /\ ~new.is.own
      /\ \A r \in Sessions : <<r, 0>> \notin new.is.catch
  <2>1. {<<s, 1>>} \in SUBSET (Sessions \X Threads) /\ {s} \in SUBSET Sessions
    BY ConstantsTyped
  <2>2. is \in Rows
    BY <2>1 DEF Rows
  <2> QED BY <2>2 DEF Entries
<1> HIDE DEF new
<1>4. Shapes'
  <2>1. foreign' \in 0..MaxRows
    BY <1>1, <1>2, ConstantsTyped
  <2>2. \A e, f \in table' : e.row = f.row => e = f
    BY <1>1, <1>3 DEF Free, Inv, Shapes
  <2> QED BY <1>1, <1>3, <2>1, <2>2 DEF Inv, Shapes
<1>5. Numbered'
  BY <1>1, <1>2, ConstantsTyped DEF Inv, Numbered, StopCount
<1>6. RowsFit'
  BY <1>1, <1>2, <1>3 DEF Inv, RowsFit
<1>7. LinesFit' /\ PhaseFits'
  BY <1>1 DEF Inv, LinesFit, PhaseFits, StopCount
<1>8. KeptUntilRecorded' /\ RecordsWhole'
  BY <1>1 DEF Inv, KeptUntilRecorded, RecordsWhole, HasLines, StopCount
<1>9. RecordedOnce' /\ Covered'
  BY <1>1 DEF Inv, RecordedOnce, Covered, StopLine, OneKind
<1>10. RoundFits'
  BY <1>1, <1>2 DEF Inv, RoundFits, Reset
<1>11. CutOffsReset'
  BY <1>1 DEF Inv, CutOffsReset, CutOff, StopLine, RestartLine, Reset
<1> QED BY <1>4, <1>5, <1>6, <1>7, <1>8, <1>9, <1>10, <1>11 DEF Inv

LEMMA BeginRoundTyped ==
  ASSUME NEW n \in 0..MaxRounds, NEW m \in Snapshots
  PROVE  /\ BeginRound(n, m) \in Recoveries
         /\ BeginRound(n, m).step = "pass" /\ BeginRound(n, m).thread = m.thread
         /\ ~BeginRound(n, m).read /\ ~BeginRound(n, m).acted
BY ConstantsTyped DEF BeginRound, Recoveries, Snapshots

LEMMA StartStep ==
  ASSUME Inv, Start
  PROVE  Inv'
<1>1. /\ UNCHANGED <<disk, inflight, stopping, begun, table, aside, listStops, foreign, faults, crashes>>
      /\ phase = "down" /\ phase' = "recovering" /\ mem' = disk
      /\ listRows' = {} /\ listLines' = {} /\ rec' = BeginRound(1, disk)
      /\ stopping = "none" /\ inflight = {}
  BY DEF Start, counts, Inv, PhaseFits
<1>2. /\ rec' \in Recoveries /\ rec'.step = "pass" /\ rec'.thread = disk.thread
      /\ ~rec'.read /\ ~rec'.acted
  <2>1. 1 \in 0..MaxRounds /\ disk \in Snapshots
    BY ConstantsTyped DEF Inv, Shapes
  <2> QED BY <1>1, <2>1, BeginRoundTyped
<1>3. Shapes' /\ Numbered' /\ RowsFit'
  BY <1>1, <1>2 DEF Inv, Shapes, Numbered, RowsFit, StopCount
<1>4. LinesFit' /\ PhaseFits'
  BY <1>1, <1>2 DEF Inv, LinesFit, PhaseFits, StopCount
<1>5. KeptUntilRecorded' /\ RecordsWhole'
  BY <1>1 DEF Inv, KeptUntilRecorded, RecordsWhole, HasLines, StopCount
<1>6. RecordedOnce' /\ Covered' /\ RoundFits'
  BY <1>1, <1>2 DEF Inv, RecordedOnce, Covered, RoundFits, StopLine, OneKind
<1>7. CutOffsReset'
  BY <1>1 DEF Inv, CutOffsReset, CutOff, StopLine, RestartLine, Reset
<1> QED BY <1>3, <1>4, <1>5, <1>6, <1>7 DEF Inv

(* The next round starts from the saved threads, or the start fails.         *)
LEMMA NextRoundGives ==
  ASSUME Inv, phase = "recovering", NextRound
  PROVE  /\ rec' \in Recoveries /\ phase' \in {"down", "recovering"}
         /\ phase' = "down" => rec'.step = "none"
         /\ phase' = "recovering" => /\ rec'.step = "pass" /\ rec'.thread = mem.thread
                                     /\ ~rec'.read /\ ~rec'.acted
<1>1. CASE rec.round = MaxRounds
  BY <1>1, NoRecoveryTyped DEF NextRound
<1>2. CASE rec.round # MaxRounds
  <2>1. rec' = BeginRound(rec.round + 1, mem) /\ phase' = phase
    BY <1>2 DEF NextRound
  <2>2. rec.round + 1 \in 0..MaxRounds /\ mem \in Snapshots
    BY <1>2, ConstantsTyped DEF Inv, Shapes, Recoveries
  <2> QED BY <2>1, <2>2, BeginRoundTyped
<1> QED BY <1>1, <1>2

LEMMA SaveRoundStep ==
  ASSUME Inv, SaveRound
  PROVE  Inv'
<1> DEFINE candidate == [state |-> rec.state, thread |-> rec.thread,
                         lines |-> mem.lines \cup listLines]
<1>1. /\ UNCHANGED <<inflight, stopping, begun, table, aside, listRows, listLines, listStops,
                     foreign, crashes>>
      /\ phase = "recovering" /\ rec.step = "save" /\ mem = disk
      /\ \/ /\ disk' = candidate /\ mem' = candidate
            /\ rec' = [rec EXCEPT !.step = "finish"] /\ phase' = phase /\ faults' = faults
         \/ /\ disk' \in {disk, candidate} /\ mem' = mem /\ phase' = "down" /\ rec' = NoRecovery
            /\ Fails
  BY DEF SaveRound, journal, Inv, PhaseFits
<1>2. rec \in Recoveries /\ mem \in Snapshots
  BY DEF Inv, Shapes
<1>3. /\ candidate \in Snapshots /\ candidate.thread = rec.thread
      /\ candidate.lines = disk.lines \cup listLines
  BY <1>1, <1>2 DEF Inv, Shapes, Recoveries, Snapshots
<1> HIDE DEF candidate
<1>4. /\ rec' \in Recoveries
      /\ phase' = "down" => rec'.step = "none"
      /\ phase' = "recovering" => /\ rec'.step = "finish" /\ rec'.thread = rec.thread
                                  /\ rec'.read = rec.read /\ rec'.acted = rec.acted
                                  /\ mem' = candidate /\ disk' = candidate
      /\ phase' \in {"down", "recovering"}
      /\ disk' \in {disk, candidate} /\ mem' \in {mem, candidate}
  BY <1>1, <1>2, NoRecoveryTyped DEF Recoveries
<1>5. Shapes' /\ Numbered' /\ RowsFit'
  <2>1. faults' \in 0..MaxFaults
    BY <1>1, ConstantsTyped DEF Fails, Inv, Shapes
  <2> QED BY <1>1, <1>3, <1>4, <2>1 DEF Inv, Shapes, Numbered, RowsFit, StopCount
<1>6. LinesFit'
  <2>1. stopping' # "acting"
    BY <1>1 DEF Inv, PhaseFits
  <2>2. \A l \in mem.lines \cup disk.lines \cup listLines \cup candidate.lines : l.stop <= StopCount
    BY <1>3 DEF Inv, LinesFit
  <2> QED BY <1>1, <1>4, <2>1, <2>2 DEF LinesFit, StopCount
<1>7. PhaseFits'
  BY <1>1, <1>4 DEF Inv, PhaseFits, StopCount
<1>8. \A b \in begun : HasLines(disk, b) => HasLines(candidate, b)
  BY <1>3 DEF HasLines
<1>9. KeptUntilRecorded'
  BY <1>1, <1>4, <1>8 DEF Inv, KeptUntilRecorded, HasLines
<1>10. RecordsWhole'
  <2>1. \A b \in begun : b.written =>
          \/ b.stop \in listStops
          \/ HasLines(candidate, b)
          \/ \A l \in candidate.lines : l.stop # b.stop
    BY <1>1, <1>3, <1>8 DEF Inv, RecordsWhole, RecordedOnce
  <2>2. \A b \in begun : b.written =>
          \/ b.stop \in listStops
          \/ HasLines(disk', b)
          \/ \A l \in disk'.lines : l.stop # b.stop
    <3>1. CASE disk' = candidate
      BY <2>1, <3>1
    <3>2. CASE disk' = disk
      BY <3>2 DEF Inv, RecordsWhole
    <3> QED BY <3>1, <3>2, <1>4
  <2> QED BY <1>1, <1>4, <2>2 DEF Inv, RecordsWhole, PhaseFits, HasLines
<1>11. RecordedOnce'
  <2>1. \A k \in listStops : ~StopLine(candidate, k)
    BY <1>1, <1>3 DEF Inv, RecordedOnce, StopLine
  <2>2. OneKind(candidate.lines)
    <3>1. \A l \in disk.lines : l.by \in {"stop", "restart"}
      BY DEF Inv, Shapes, Snapshots, Lines
    <3>2. \A l \in disk.lines, k \in listLines : l.stop = k.stop => l.by = "restart" /\ k.by = "restart"
      BY <1>1, <3>1 DEF Inv, RecordedOnce, StopLine
    <3> QED BY <1>1, <1>3, <3>2 DEF Inv, RecordedOnce, OneKind
  <2> QED BY <1>1, <1>4, <2>1, <2>2 DEF Inv, RecordedOnce, StopLine, OneKind
<1>12. Covered'
  <2> SUFFICES ASSUME phase' = "recovering"
               PROVE  Covered'
    BY DEF Covered
  <2>1. \A e \in listRows : e.is.own =>
          \A s \in e.is.sess : \E l \in mem'.lines : l.stop = e.is.stop /\ l.sess = s
    BY <1>1, <1>3, <1>4 DEF Inv, Covered
  <2>2. /\ rec'.acted => rec'.read
        /\ ~rec'.acted => \A e \in listRows : e.is.keep
    BY <1>1, <1>4 DEF Inv, Covered
  <2>3. rec'.thread = mem'.thread /\ rec'.step = "finish"
    BY <1>3, <1>4
  <2> QED BY <1>1, <2>1, <2>2, <2>3 DEF Covered
<1>13. RoundFits'
  <2> SUFFICES ASSUME phase' = "recovering"
               PROVE  RoundFits'
    BY DEF RoundFits
  <2>1. rec'.thread = mem'.thread /\ rec'.thread = rec.thread
    BY <1>3, <1>4
  <2>2. \A e \in listRows :
         \/ e.is.stop \in listStops /\ Reset(rec.thread, e.is.catch)
         \/ e.is.stop \notin listStops /\ \E l \in mem'.lines : l.stop = e.is.stop
    BY <1>1, <1>3, <1>4 DEF Inv, RoundFits
  <2> QED BY <1>1, <2>1, <2>2 DEF RoundFits, Reset
<1>14. CutOffsReset'
  <2>1. ASSUME NEW b \in begun, CutOff(candidate, b)
        PROVE  \/ Reset(candidate.thread, b.catch)
               \/ b.stop \in listStops /\ \E e \in table : e.is.own /\ e.is.stop = b.stop
    <3>1. b.written /\ ~StopLine(disk, b.stop)
      BY <1>3, <2>1 DEF CutOff, StopLine
    <3>2. CASE RestartLine(disk, b.stop)
      <4>1. \/ Reset(disk.thread, b.catch)
            \/ b.stop \in listStops /\ \E e \in table : e.is.own /\ e.is.stop = b.stop
        BY <3>1, <3>2 DEF Inv, CutOffsReset, CutOff
      <4>2. Reset(disk.thread, b.catch) => Reset(rec.thread, b.catch)
        BY <1>1 DEF Inv, RoundFits, Numbered, Reset
      <4> QED BY <4>1, <4>2, <1>3
    <3>3. CASE ~RestartLine(disk, b.stop)
      <4>1. \A l \in disk.lines : l.stop # b.stop
        BY <3>1, <3>3 DEF StopLine, RestartLine, Inv, Shapes, Snapshots, Lines
      <4>2. b.stop \in listStops
        BY <1>1, <1>3, <2>1, <3>3 DEF CutOff, RestartLine, Inv, RecordedOnce
      <4>3. ~HasLines(disk, b)
        BY <4>1 DEF HasLines, Inv, Numbered
      <4> QED BY <3>1, <4>2, <4>3 DEF Inv, KeptUntilRecorded
    <3> QED BY <3>2, <3>3
  <2>2. \A b \in begun : CutOff(disk', b) =>
          \/ Reset(disk'.thread, b.catch)
          \/ b.stop \in listStops /\ \E e \in table : e.is.own /\ e.is.stop = b.stop
    <3>1. CASE disk' = candidate
      BY <2>1, <3>1
    <3>2. CASE disk' = disk
      BY <3>2 DEF Inv, CutOffsReset
    <3> QED BY <3>1, <3>2, <1>4
  <2> QED BY <1>1, <1>4, <2>2 DEF CutOffsReset, CutOff, StopLine, RestartLine, Reset
<1> QED BY <1>5, <1>6, <1>7, <1>9, <1>10, <1>11, <1>12, <1>13, <1>14 DEF Inv

LEMMA FinishRoundStep ==
  ASSUME Inv, FinishRound
  PROVE  Inv'
<1>1. /\ UNCHANGED <<mem, disk, inflight, stopping, begun, aside, listStops, foreign, faults, crashes>>
      /\ phase = "recovering" /\ rec.step = "finish" /\ mem = disk
      /\ table' \subseteq table /\ \A e \in table : e \notin table' => e \in listRows /\ ~e.is.keep
      /\ listRows' \subseteq listRows /\ \A e \in listRows' : e.is.keep
      /\ listLines' = {}
      /\ stopping = "none" /\ inflight = {}
      /\ rec.thread = mem.thread
  BY DEF FinishRound, counts, Listed, Inv, PhaseFits, Covered
<1>2. /\ rec' \in Recoveries /\ phase' \in {"down", "recovering"}
      /\ phase' = "down" => rec'.step = "none"
      /\ phase' = "recovering" => /\ rec'.step = "pass" /\ rec'.thread = mem.thread
                                  /\ ~rec'.read /\ ~rec'.acted
  BY <1>1, NextRoundGives DEF FinishRound
<1>3. Shapes' /\ Numbered' /\ RowsFit'
  BY <1>1, <1>2 DEF Inv, Shapes, Numbered, RowsFit, StopCount
<1>4. LinesFit' /\ PhaseFits'
  BY <1>1, <1>2 DEF Inv, LinesFit, PhaseFits, StopCount
<1>5. \A e \in listRows : e.is.own => ~e.is.keep /\ \A b \in begun : b.stop = e.is.stop =>
        HasLines(disk, b) /\ b.catch = e.is.catch
  BY <1>1 DEF Inv, RowsFit, Numbered, Covered, HasLines
<1>6. KeptUntilRecorded'
  <2> SUFFICES ASSUME NEW b \in begun, b.written, ~HasLines(disk, b)
               PROVE  \E e \in table' : e.is.stop = b.stop /\ e.is.own
    BY <1>1 DEF KeptUntilRecorded, HasLines
  <2>1. PICK e \in table : e.is.stop = b.stop /\ e.is.own
    BY DEF Inv, KeptUntilRecorded
  <2>2. e \notin listRows
    BY <1>5, <2>1
  <2> QED BY <1>1, <2>1, <2>2
<1>7. RecordsWhole'
  BY <1>1, <1>2 DEF Inv, RecordsWhole, HasLines
<1>8. RecordedOnce'
  BY <1>1, <1>2 DEF Inv, RecordedOnce, StopLine, OneKind
<1>9. Covered'
  BY <1>1, <1>2, <1>5 DEF Covered
<1>10. RoundFits'
  BY <1>1, <1>2 DEF Inv, RoundFits, Reset
<1>11. CutOffsReset'
  <2>1. ASSUME NEW b \in begun, CutOff(disk, b)
        PROVE  \/ Reset(disk.thread, b.catch)
               \/ b.stop \in listStops /\ \E e \in table' : e.is.own /\ e.is.stop = b.stop
    <3>1. CASE Reset(disk.thread, b.catch)
      BY <3>1
    <3>2. CASE b.stop \in listStops /\ \E e \in table : e.is.own /\ e.is.stop = b.stop
      <4>1. PICK e \in table : e.is.own /\ e.is.stop = b.stop
        BY <3>2
      <4>2. CASE e \in table'
        BY <3>2, <4>1, <4>2
      <4>3. CASE e \notin table'
        <5>1. e \in listRows /\ b.catch = e.is.catch
          BY <1>1, <1>5, <4>1, <4>3
        <5>2. Reset(rec.thread, e.is.catch)
          BY <1>1, <3>2, <4>1, <5>1 DEF Inv, RoundFits
        <5> QED BY <1>1, <5>1, <5>2
      <4> QED BY <4>2, <4>3
    <3> QED BY <2>1, <3>1, <3>2 DEF Inv, CutOffsReset
  <2> QED BY <1>1, <1>2, <2>1 DEF CutOffsReset, CutOff, StopLine, RestartLine, Reset
<1> QED BY <1>3, <1>4, <1>6, <1>7, <1>8, <1>9, <1>10, <1>11 DEF Inv

LEMMA CloseStep ==
  ASSUME Inv, Close
  PROVE  Inv'
<1>1. /\ UNCHANGED <<mem, disk, inflight, stopping, begun, table, aside, listRows, foreign, faults, crashes>>
      /\ phase = "recovering" /\ rec.step = "close" /\ mem = disk
      /\ stopping = "none" /\ inflight = {}
      /\ rec.thread = mem.thread
      /\ \A e \in listRows : e.is.keep /\ ~e.is.own
  BY DEF Close, counts, Inv, PhaseFits, Covered, RowsFit
<1>2. CASE Unread # {} /\ NextRound /\ UNCHANGED <<listLines, listStops>>
  <2>1. /\ rec' \in Recoveries /\ phase' \in {"down", "recovering"}
        /\ phase' = "down" => rec'.step = "none"
        /\ phase' = "recovering" => /\ rec'.step = "pass" /\ rec'.thread = mem.thread
                                    /\ ~rec'.read /\ ~rec'.acted
    BY <1>1, <1>2, NextRoundGives
  <2>2. Shapes' /\ Numbered' /\ RowsFit'
    BY <1>1, <1>2, <2>1 DEF Inv, Shapes, Numbered, RowsFit, StopCount
  <2>3. LinesFit' /\ PhaseFits'
    BY <1>1, <1>2, <2>1 DEF Inv, LinesFit, PhaseFits, StopCount
  <2>4. KeptUntilRecorded' /\ RecordsWhole'
    BY <1>1, <1>2, <2>1 DEF Inv, KeptUntilRecorded, RecordsWhole, HasLines
  <2>5. RecordedOnce' /\ Covered'
    BY <1>1, <1>2, <2>1 DEF Inv, RecordedOnce, Covered, StopLine, OneKind
  <2>6. RoundFits' /\ CutOffsReset'
    BY <1>1, <1>2, <2>1 DEF Inv, RoundFits, CutOffsReset, CutOff, StopLine, RestartLine, Reset
  <2> QED BY <2>2, <2>3, <2>4, <2>5, <2>6 DEF Inv
<1>3. CASE /\ Unread = {} /\ listLines' = {} /\ listStops' = {}
           /\ phase' = "up" /\ rec' = NoRecovery
  <2>1. \A e \in table : ~e.is.own
    BY <1>1, <1>3 DEF Unread, Listed
  <2>2. \A b \in begun : b.written => HasLines(disk, b)
    BY <2>1 DEF Inv, KeptUntilRecorded
  <2>3. Shapes' /\ Numbered' /\ RowsFit'
    BY <1>1, <1>3, NoRecoveryTyped DEF Inv, Shapes, Numbered, RowsFit, StopCount
  <2>4. LinesFit' /\ PhaseFits'
    BY <1>1, <1>3, NoRecoveryTyped DEF Inv, LinesFit, PhaseFits, StopCount
  <2>5. KeptUntilRecorded' /\ RecordsWhole'
    BY <1>1, <1>3, <2>2 DEF KeptUntilRecorded, RecordsWhole, HasLines
  <2>6. RecordedOnce' /\ Covered' /\ RoundFits'
    BY <1>1, <1>3 DEF Inv, RecordedOnce, Covered, RoundFits, StopLine, OneKind
  <2>7. \A b \in begun : CutOff(disk, b) => Reset(disk.thread, b.catch)
    BY <2>1 DEF Inv, CutOffsReset
  <2>8. CutOffsReset'
    BY <1>1, <1>3, <2>7 DEF CutOffsReset, CutOff, StopLine, RestartLine, Reset
  <2> QED BY <2>3, <2>4, <2>5, <2>6, <2>8 DEF Inv
<1> QED BY <1>2, <1>3 DEF Close

---------------------------------------------------------------------------
(* One pass over the journal *)

(* What a pass has still to read, and what it reads.                         *)
Beyond == {e \in table : e.row > rec.after}
Window == {e \in Beyond : Cardinality({f \in Beyond : f.row < e.row}) < RowsPerPass}

(* A pass that stops short has read some row, and goes on after the last.    *)
LEMMA WindowTyped ==
  ASSUME Shapes, Window # Beyond
  PROVE  Max({e.row : e \in Window}) \in 0..MaxRows
<1>1. Beyond \subseteq table /\ \A e \in Beyond : e.row \in Nat /\ e.row \in 0..MaxRows
  BY ConstantsTyped DEF Beyond, Shapes, Entries, RowIds
<1>2. PICK n \in {e.row : e \in Beyond} : \A m \in {e.row : e \in Beyond} : n <= m
  <2>1. {e.row : e \in Beyond} \subseteq Nat /\ {e.row : e \in Beyond} # {}
    BY <1>1 DEF Window
  <2> QED BY <2>1, LeastExists
<1>3. PICK e \in Beyond : e.row = n
  OBVIOUS
<1>4. \A f \in Beyond : n <= f.row
  BY <1>2
<1>5. {f \in Beyond : f.row < e.row} = {}
  BY <1>1, <1>3, <1>4
<1>6. e \in Window
  <2>1. Cardinality({f \in Beyond : f.row < e.row}) = 0
    BY <1>5, FS_EmptySet
  <2>2. 0 < RowsPerPass
    BY ConstantsTyped
  <2>3. Cardinality({f \in Beyond : f.row < e.row}) < RowsPerPass
    BY <2>1, <2>2
  <2> QED BY <2>3, <1>3, Zenon DEF Window
<1>7. {f.row : f \in Window} \subseteq 0..MaxRows /\ {f.row : f \in Window} # {}
  <2>1. \A f \in Window : f.row \in 0..MaxRows
    BY <1>1 DEF Window
  <2>2. e.row \in {f.row : f \in Window}
    BY <1>6
  <2> QED BY <2>1, <2>2
<1>8. Max({f.row : f \in Window}) \in {f.row : f \in Window}
  BY <1>7, MaxOfBounded, ConstantsTyped
<1> QED BY <1>7, <1>8

LEMMA PassStep ==
  ASSUME Inv, Pass
  PROVE  Inv'
<1> DEFINE fresh == {e \in Window : ~Listed(e)}
<1> DEFINE good == {e \in fresh : ~e.is.bad}
<1> DEFINE acting == {e \in good : e.is.stop \notin Recorded}
<1> DEFINE more == Window # Beyond
<1> DEFINE read == rec.read \/ fresh # {}
<1> DEFINE acted == rec.acted \/ good # {}
<1> DEFINE next == CASE more -> "pass"
                     [] ~more /\ ~read -> "close"
                     [] ~more /\ read /\ acted -> "save"
                     [] OTHER -> "finish"
<1> DEFINE after == IF more THEN Max({e.row : e \in Window}) ELSE 0
<1> DEFINE caught == UNION {e.is.catch : e \in acting}
<1> DEFINE state == [s \in Sessions |-> IF \E t \in Threads : <<s, t>> \in caught
                                        THEN "failed" ELSE rec.state[s]]
<1> DEFINE thread == [s \in Sessions |-> IF <<s, rec.thread[s]>> \in caught THEN 0 ELSE rec.thread[s]]
<1>1. /\ UNCHANGED <<phase, mem, disk, inflight, stopping, begun, foreign, faults, crashes>>
      /\ phase = "recovering" /\ rec.step = "pass"
      /\ table' = table \ {e \in fresh : e.is.bad}
      /\ aside' = aside \cup {e.is : e \in {f \in fresh : f.is.bad}}
      /\ listRows' = listRows \cup good
      /\ listStops' = listStops \cup {e.is.stop : e \in acting}
      /\ listLines' = listLines \cup Written(acting)
      /\ rec' = [Acted(rec, acting) EXCEPT !.after = after, !.read = read, !.acted = acted,
                                           !.step = next]
  BY DEF Pass, counts, Beyond, Window
<1>2. mem = disk /\ stopping = "none" /\ inflight = {} /\ rec \in Recoveries
  BY <1>1 DEF Inv, PhaseFits, Shapes
<1>3. rec' = [step |-> next, round |-> rec.round, after |-> after, state |-> state,
              thread |-> thread, read |-> read, acted |-> acted]
  <2>1. Acted(rec, acting) = [rec EXCEPT !.state = state, !.thread = thread]
    BY DEF Acted
  <2> HIDE DEF state, thread, next, after, read, acted, acting
  <2>2. rec = [step |-> rec.step, round |-> rec.round, after |-> rec.after, state |-> rec.state,
               thread |-> rec.thread, read |-> rec.read, acted |-> rec.acted]
    BY <1>2 DEF Recoveries
  <2> QED BY <1>1, <2>1, <2>2
<1>4. /\ fresh \subseteq table /\ good \subseteq fresh /\ acting \subseteq good
      /\ \A e \in good : ~e.is.bad
      /\ \A e \in acting : e.is.stop \notin Recorded
      /\ \A e \in good : e \notin acting => e.is.stop \in Recorded
  BY DEF Window, Beyond
<1>5. /\ next \in {"pass", "close", "save", "finish"}
      /\ next = "close" => ~read
      /\ next = "finish" => ~acted
  <2> HIDE DEF more, read, acted
  <2>0. acted => read
    BY <1>1, <1>4 DEF read, acted, Inv, Covered
  <2> QED BY <2>0
<1>6. after \in 0..MaxRows
  <2>1. CASE more
    <3>1. Max({e.row : e \in Window}) \in 0..MaxRows
      BY <2>1, WindowTyped DEF Inv
    <3> QED BY <2>1, <3>1
  <2>2. CASE ~more
    BY <2>2, ConstantsTyped
  <2> QED BY <2>1, <2>2
<1>7. /\ state \in [Sessions -> {"idle", "failed"}] /\ thread \in [Sessions -> Threads]
      /\ read \in BOOLEAN /\ acted \in BOOLEAN
  BY <1>2, ConstantsTyped DEF Recoveries
<1>8. acted => read
  BY <1>1, <1>4 DEF Inv, Covered
<1>9. ~acted => ~rec.acted /\ good = {} /\ acting = {}
  OBVIOUS
<1>10. acting = {} => thread = rec.thread
  BY <1>2 DEF Recoveries
<1>11. \A s \in Sessions : /\ thread[s] = rec.thread[s] \/ thread[s] = 0
                           /\ thread[s] # rec.thread[s] =>
                                \E e \in acting : <<s, rec.thread[s]>> \in e.is.catch
                           /\ thread[s] = rec.thread[s] =>
                                thread[s] = 0 \/ \A e \in acting : <<s, thread[s]>> \notin e.is.catch
  OBVIOUS
<1> HIDE DEF next, after, state, thread, read, acted, caught, more, acting, good, fresh
<1>12. rec' \in Recoveries
  BY <1>2, <1>3, <1>5, <1>6, <1>7 DEF Recoveries
<1>13. /\ table' \subseteq table
       /\ \A e \in table : e \notin table' => e.is.bad
       /\ \A e \in table : e.is.own => e \in table'
  <2>1. \A e \in table : e.is.own => ~e.is.bad
    BY DEF Inv, RowsFit
  <2> QED BY <1>1, <2>1
<1>14. /\ \A e \in acting : e.is.stop \in Stops
       /\ Written(acting) \subseteq Lines
       /\ \A l \in Written(acting) : l.by = "restart" /\ \E e \in acting : e.is.stop = l.stop
       /\ \A e \in acting : \A s \in e.is.sess : \E l \in mem.lines \cup Written(acting) :
            l.stop = e.is.stop /\ l.sess = s
  <2>1. \A e \in acting : e.is.stop \in Stops /\ e.is.sess \subseteq Sessions
    BY <1>4 DEF Inv, Shapes, Entries, Rows
  <2>2. \A l \in Written(acting) : l \in [stop : {e.is.stop : e \in acting}, sess : Sessions, by : {"restart"}]
    BY DEF Written
  <2>3. Written(acting) \subseteq Lines
    BY <2>1, <2>2 DEF Lines
  <2>4. ASSUME NEW e \in acting, NEW s \in e.is.sess
        PROVE  \E l \in mem.lines \cup Written(acting) : l.stop = e.is.stop /\ l.sess = s
    <3> DEFINE l == [stop |-> e.is.stop, sess |-> s, by |-> "restart"]
    <3>1. l \in [stop : {f.is.stop : f \in acting}, sess : Sessions, by : {"restart"}]
      BY <2>1
    <3>2. l.stop = e.is.stop /\ l.sess = s
      OBVIOUS
    <3> HIDE DEF l
    <3>3. l \in mem.lines \/ l \in Written(acting)
      BY <3>1, <3>2 DEF Written
    <3> QED BY <3>2, <3>3
  <2> QED BY <2>1, <2>2, <2>3, <2>4
<1>15. \A k \in Recorded : k \notin listStops' /\ k \notin listStops /\ \E l \in mem.lines : l.stop = k
  BY <1>1, <1>4 DEF Recorded
<1>16. \A e \in acting : e.is.stop \in listStops \/ \A l \in mem.lines : l.stop # e.is.stop
  BY <1>4 DEF Recorded
<1>17. Shapes'
  <2>1. aside' \subseteq Rows /\ listRows' \subseteq Entries
    BY <1>1, <1>4 DEF Inv, Shapes, Entries
  <2>2. listStops' \subseteq Stops /\ listLines' \subseteq Lines
    BY <1>1, <1>14 DEF Inv, Shapes
  <2> QED BY <1>1, <1>12, <1>13, <2>1, <2>2 DEF Inv, Shapes
<1>18. Numbered' /\ StopCount' = StopCount
  BY <1>1 DEF Inv, Numbered, StopCount
<1>19. RowsFit'
  BY <1>1, <1>4, <1>13 DEF Inv, RowsFit
<1>20. LinesFit'
  <2>1. \A e \in acting : e.is.stop <= StopCount
    BY <1>4 DEF Inv, RowsFit, Numbered
  <2> QED BY <1>1, <1>2, <1>14, <1>18, <2>1 DEF Inv, LinesFit
<1>21. PhaseFits'
  BY <1>1, <1>2, <1>3, <1>5 DEF Inv, PhaseFits, StopCount
<1>22. KeptUntilRecorded'
  BY <1>1, <1>13 DEF Inv, KeptUntilRecorded, HasLines
<1>23. RecordsWhole'
  BY <1>1, <1>2 DEF Inv, RecordsWhole, HasLines
<1>24. RecordedOnce'
  <2>1. \A e \in acting : ~StopLine(disk, e.is.stop)
    BY <1>2, <1>16 DEF Inv, RecordedOnce, StopLine
  <2>2. \A k \in listStops' : ~StopLine(disk, k)
    BY <1>1, <2>1 DEF Inv, RecordedOnce
  <2>3. \A l \in listLines' : l.by = "restart" /\ l.stop \in listStops'
    BY <1>1, <1>14 DEF Inv, RecordedOnce
  <2> QED BY <1>1, <2>2, <2>3 DEF Inv, RecordedOnce, StopLine, OneKind
<1>25. Covered'
  <2>1. ASSUME NEW e \in listRows', e.is.own, NEW s \in e.is.sess
        PROVE  \E l \in mem.lines \cup listLines' : l.stop = e.is.stop /\ l.sess = s
    <3>1. CASE e \in listRows
      BY <1>1, <2>1, <3>1 DEF Inv, Covered
    <3>2. CASE e \in acting
      BY <1>1, <1>14, <3>2
    <3>3. CASE e \in good /\ e \notin acting
      <4>1. e.is.stop \in Recorded /\ e \in table
        BY <1>4, <3>3
      <4>2. PICK b \in begun : b.stop = e.is.stop /\ b.written /\ b.sess = e.is.sess
        BY <2>1, <4>1 DEF Inv, RowsFit
      <4>3. HasLines(disk, b)
        BY <1>2, <1>15, <4>1, <4>2 DEF Inv, RecordsWhole
      <4> QED BY <1>2, <4>2, <4>3 DEF HasLines
    <3> QED BY <1>1, <3>1, <3>2, <3>3
  <2>2. ~acted => thread = mem.thread /\ \A e \in listRows' : e.is.keep
    BY <1>1, <1>9, <1>10 DEF Inv, Covered
  <2>3. \A e \in listRows' : e.is.own => ~e.is.keep
    BY <1>19 DEF RowsFit
  <2>4. rec'.step = next /\ rec'.read = read /\ rec'.acted = acted /\ rec'.thread = thread
    BY <1>3
  <2>5. \A e \in listRows' : e.is.own =>
          \A s \in e.is.sess : \E l \in mem'.lines \cup (IF rec'.step = "finish" THEN {} ELSE listLines') :
            l.stop = e.is.stop /\ l.sess = s
    BY <1>1, <1>5, <2>1, <2>2, <2>3, <2>4
  <2> QED BY <1>1, <1>5, <1>8, <2>2, <2>4, <2>5 DEF Covered
<1>26. RoundFits'
  <2>0. rec'.thread = thread
    BY <1>3
  <2>1. ASSUME NEW s \in Sessions, thread[s] # mem.thread[s]
        PROVE  /\ thread[s] = 0
               /\ foreign = 0 => \E b \in begun : <<s, mem.thread[s]>> \in b.catch /\ ~StopLine(disk, b.stop)
    <3>1. CASE rec.thread[s] # mem.thread[s]
      BY <1>1, <1>11, <3>1 DEF Inv, RoundFits
    <3>2. CASE rec.thread[s] = mem.thread[s]
      <4>1. PICK e \in acting : <<s, mem.thread[s]>> \in e.is.catch
        BY <1>11, <2>1, <3>2
      <4>2. ~StopLine(disk, e.is.stop)
        BY <1>2, <1>16 DEF Inv, RecordedOnce, StopLine
      <4>3. foreign = 0 => \E b \in begun : b.stop = e.is.stop /\ b.catch = e.is.catch
        BY <1>4 DEF Inv, RowsFit
      <4> QED BY <1>11, <2>1, <3>2, <4>1, <4>2, <4>3
    <3> QED BY <3>1, <3>2
  <2>2. ASSUME NEW e \in listRows'
        PROVE  \/ e.is.stop \in listStops' /\ Reset(thread, e.is.catch)
               \/ e.is.stop \notin listStops' /\ \E l \in mem.lines : l.stop = e.is.stop
    <3>0. \A s \in Sessions : <<s, 0>> \notin e.is.catch
      BY <1>19 DEF RowsFit
    <3>1. CASE e \in listRows /\ e.is.stop \in listStops
      <4>1. Reset(rec.thread, e.is.catch)
        BY <1>1, <3>1 DEF Inv, RoundFits
      <4> QED BY <1>1, <1>11, <3>0, <3>1, <4>1 DEF Reset
    <3>2. CASE e \in listRows /\ e.is.stop \notin listStops
      <4>1. e.is.stop \in Recorded
        BY <1>1, <3>2 DEF Inv, RoundFits, Recorded
      <4> QED BY <1>15, <4>1
    <3>3. CASE e \in acting
      <4>1. e.is.stop \in listStops'
        BY <1>1, <3>3
      <4>2. Reset(thread, e.is.catch)
        BY <1>11, <3>0, <3>3 DEF Reset
      <4> QED BY <4>1, <4>2
    <3>4. CASE e \in good /\ e \notin acting
      BY <1>4, <1>15, <3>4
    <3> QED BY <1>1, <3>1, <3>2, <3>3, <3>4
  <2> QED BY <1>1, <2>0, <2>1, <2>2 DEF RoundFits, Reset, StopLine
<1>27. CutOffsReset'
  BY <1>1, <1>13 DEF Inv, CutOffsReset, CutOff, StopLine, RestartLine, Reset
<1> QED BY <1>17, <1>18, <1>19, <1>20, <1>21, <1>22, <1>23, <1>24, <1>25, <1>26, <1>27 DEF Inv

---------------------------------------------------------------------------
(* The theorems *)

LEMMA InvStep == Inv /\ [Next]_vars => Inv'
<1> SUFFICES ASSUME Inv, [Next]_vars
             PROVE  Inv'
  OBVIOUS
<1>1. ASSUME NEW s \in Sessions, Dispatch(s) \/ Dispatched(s) \/ NewThread(s)
      PROVE  Inv'
  BY <1>1, DispatchStep, NewThreadStep
<1>2. CASE Persist
  BY <1>2, PersistStep
<1>3. ASSUME NEW busy \in SUBSET Sessions, BeginStop(busy)
      PROVE  Inv'
  BY <1>3, BeginStopStep
<1>4. CASE RunStop
  BY <1>4, ActStopStep, SaveStopStep, ClearStopStep DEF RunStop
<1>5. CASE Recover
  BY <1>5, StartStep, PassStep, SaveRoundStep, FinishRoundStep, CloseStep DEF Recover
<1>6. ASSUME NEW row \in RowIds, NEW stop \in Stops, NEW s \in Sessions,
             NEW kind \in {"unreadable", "overflow", "plain"}, Foreign(row, stop, s, kind)
      PROVE  Inv'
  BY <1>6, ForeignStep
<1>7. CASE Crash
  BY <1>7, CrashStep
<1>8. CASE UNCHANGED vars
  <2>1. /\ UNCHANGED <<phase, mem, disk, stopping, begun, journal, rec, counts>>
        /\ UNCHANGED <<phase, mem, disk, inflight, stopping, begun, table, aside, listRows,
                       listLines, listStops, rec, foreign, faults, crashes>>
    BY <1>8 DEF vars, journal, counts
  <2>2. Shapes' /\ PhaseFits'
    BY <2>1 DEF Inv, Shapes, PhaseFits, StopCount
  <2> QED BY <2>1, <2>2, RecordsKept DEF Inv
<1> QED BY <1>1, <1>2, <1>3, <1>4, <1>5, <1>6, <1>7, <1>8 DEF Next

LEMMA InvCorrect == Spec => []Inv
BY InvInit, InvStep, PTL DEF Spec

LEMMA InvRecorded == Inv => StopsRecorded
<1> SUFFICES ASSUME Inv
             PROVE  StopsRecorded
  OBVIOUS
<1>1. TypeOK
  BY DEF Inv, Shapes, Numbered, Begun, TypeOK
<1>2. KeptUntilRecorded /\ RecordedWhenUp
  BY DEF Inv, RecordsWhole, RecordedWhenUp
<1>3. OneRecord
  <2> SUFFICES ASSUME NEW l \in disk.lines, l.by = "stop",
                      [l EXCEPT !.by = "restart"] \in disk.lines
               PROVE  FALSE
    BY DEF OneRecord
  <2>1. l \in Lines
    BY DEF Inv, Shapes, Snapshots
  <2> DEFINE k == [l EXCEPT !.by = "restart"]
  <2>2. k.stop = l.stop /\ k.sess = l.sess /\ k.by = "restart"
    BY <2>1 DEF Lines
  <2>3. k \in disk.lines
    OBVIOUS
  <2> HIDE DEF k
  <2> QED BY <2>2, <2>3 DEF Inv, RecordedOnce, OneKind
<1> QED BY <1>1, <1>2, <1>3 DEF StopsRecorded

(* Whatever order crashes, failed writes and rows of other writers come in,  *)
(* a stop whose intent was written (emergency-stop journal) stays in the     *)
(* journal until the state file has its lines, has them all when the daemon  *)
(* serves, and no session shows both the stop's line and a restart's.        *)
THEOREM StopsCorrect == Spec => []StopsRecorded
<1>1. Inv => StopsRecorded
  BY InvRecorded
<1> QED BY <1>1, InvCorrect, PTL

(* When the daemon serves again after a stop was cut off, no session is on   *)
(* the provider thread the stop caught: the recovery's rounds reset it       *)
(* before the listener opens, and no later thread or stop brings it back.    *)
THEOREM CutOffCorrect == Spec => []CutOffThreadsReset
<1>1. Inv => CutOffThreadsReset
  BY DEF Inv, CutOffsReset, CutOff, StopLine, RestartLine, Reset, CutOffThreadsReset
<1> QED BY <1>1, InvCorrect, PTL

(* While a recovery runs only its save changes the live sessions, and only   *)
(* the end of a round removes readable rows.                                 *)
LEMMA RecoveryChanges ==
  ASSUME Inv, Next, phase = "recovering"
  PROVE  /\ mem' = mem \/ SaveRound
         /\ table \subseteq table' \/ FinishRound \/ Pass
<1>1. stopping = "none"
  BY DEF Inv, PhaseFits
<1>2. ASSUME NEW s \in Sessions, Dispatch(s) \/ Dispatched(s) \/ NewThread(s)
      PROVE  FALSE
  BY <1>2 DEF Dispatch, Dispatched, NewThread
<1>3. ~Persist /\ \A busy \in SUBSET Sessions : ~BeginStop(busy)
  BY DEF Persist, BeginStop
<1>4. ~RunStop
  BY <1>1 DEF RunStop, ActStop, SaveStop, ClearStop
<1>5. CASE Recover
  BY <1>5 DEF Recover, Start, Pass, SaveRound, FinishRound, Close, journal
<1>6. ASSUME NEW row \in RowIds, NEW stop \in Stops, NEW s \in Sessions,
             NEW kind \in {"unreadable", "overflow", "plain"}, Foreign(row, stop, s, kind)
      PROVE  mem' = mem /\ table \subseteq table'
  BY <1>6 DEF Foreign
<1>7. CASE Crash
  BY <1>7 DEF Crash, journal
<1> QED BY <1>2, <1>3, <1>4, <1>5, <1>6, <1>7 DEF Next

LEMMA FinishedStep ==
  ASSUME Inv, Next, foreign = 0, phase = "recovering",
         NEW s \in Sessions, mem'.thread[s] # mem.thread[s]
  PROVE  \E b \in begun : <<s, mem.thread[s]>> \in b.catch
            /\ ~\E l \in disk.lines : l.stop = b.stop /\ l.by = "stop"
<1>1. SaveRound
  BY RecoveryChanges
<1>2. mem' = mem \/ mem' = [state |-> rec.state, thread |-> rec.thread, lines |-> mem.lines \cup listLines]
  BY <1>1 DEF SaveRound
<1>3. rec.thread[s] # mem.thread[s]
  BY <1>2
<1> QED BY <1>3 DEF Inv, RoundFits, StopLine

LEMMA AlikeStep ==
  ASSUME Inv, Next, phase = "recovering", NEW e \in table \ table', ~e.is.bad, e.is.stop \in listStops,
         NEW s \in Sessions
  PROVE  <<s, disk.thread[s]>> \notin e.is.catch
<1>1. ~Pass
  BY DEF Pass
<1>2. FinishRound
  BY <1>1, RecoveryChanges
<1>3. e \in listRows /\ rec.step = "finish"
  BY <1>2 DEF FinishRound, Listed
<1>4. rec.thread = disk.thread
  BY <1>3 DEF Inv, Covered, PhaseFits
<1>5. Reset(rec.thread, e.is.catch)
  BY <1>3 DEF Inv, RoundFits
<1> QED BY <1>4, <1>5 DEF Reset

LEMMA ReplayStep == Inv /\ [Next]_vars =>
  /\ [foreign = 0 /\ phase = "recovering" => \A s \in Sessions :
       mem'.thread[s] # mem.thread[s] =>
         \E b \in begun : <<s, mem.thread[s]>> \in b.catch
            /\ ~\E l \in disk.lines : l.stop = b.stop /\ l.by = "stop"]_vars
  /\ [phase = "recovering" =>
       \A e \in table \ table' : ~e.is.bad /\ e.is.stop \in listStops =>
         \A s \in Sessions : <<s, disk.thread[s]>> \notin e.is.catch]_vars
<1> SUFFICES ASSUME Inv, Next
             PROVE  /\ foreign = 0 /\ phase = "recovering" => \A s \in Sessions :
                         mem'.thread[s] # mem.thread[s] =>
                           \E b \in begun : <<s, mem.thread[s]>> \in b.catch
                              /\ ~\E l \in disk.lines : l.stop = b.stop /\ l.by = "stop"
                    /\ phase = "recovering" =>
                         \A e \in table \ table' : ~e.is.bad /\ e.is.stop \in listStops =>
                           \A s \in Sessions : <<s, disk.thread[s]>> \notin e.is.catch
  BY Zenon
<1>1. ASSUME foreign = 0, phase = "recovering"
      PROVE  \A s \in Sessions : mem'.thread[s] # mem.thread[s] =>
               \E b \in begun : <<s, mem.thread[s]>> \in b.catch
                  /\ ~\E l \in disk.lines : l.stop = b.stop /\ l.by = "stop"
  BY <1>1, FinishedStep
<1>2. ASSUME phase = "recovering"
      PROVE  \A e \in table \ table' : ~e.is.bad /\ e.is.stop \in listStops =>
               \A s \in Sessions : <<s, disk.thread[s]>> \notin e.is.catch
  BY <1>2, AlikeStep
<1> QED BY <1>1, <1>2, Zenon

(* A recovery round resets a thread only for a stop that no save of its own  *)
(* recorded, and clears no row of a stop it is finishing while a session is  *)
(* still on the thread that row names.                                       *)
THEOREM ReplayedCorrect == Spec => ReplayedRightly
<1>1. Spec => FinishedStaysFinished /\ RowsActAlike
  BY InvCorrect, ReplayStep, PTL DEF Spec, FinishedStaysFinished, RowsActAlike
<1> QED BY <1>1 DEF ReplayedRightly

=============================================================================
