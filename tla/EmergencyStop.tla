--------------------------- MODULE EmergencyStop ---------------------------
(* The record of an emergency stop across crashes: the intent a stop writes  *)
(* before its first effect, the save that records it, the clear of the       *)
(* intent, and the recovery the next start runs over the journal before its  *)
(* listener opens (rounds of passes, each round with one save).              *)
(*                                                                           *)
(* The process may die between any two writes, a save that reports failure   *)
(* may have reached the disk, and another writer on the store may add rows   *)
(* at any moment, unreadable, too large to finish or naming a stop again.    *)
(*                                                                           *)
(* Abstracted: the text of rows (a row is what can be read from it), the     *)
(* client (one), turns, terminals and gates (a restart has none left), and   *)
(* read-only sessions, which neither a stop nor its recovery writes to.      *)
EXTENDS Integers, FiniteSets, FiniteSetsExt

CONSTANTS
  Sessions,     \* the workspace's sessions
  RowsPerPass,  \* emergencyStopRowsPerPass
  MaxRounds,    \* emergencyStopRecoveryRounds
  MaxRows,      \* bound: emergency stops and rows written by others, together
  MaxFaults,    \* bound: writes that fail
  MaxCrashes,   \* bound: crashes
  MaxThreads    \* bound: provider threads of a session

ASSUME ConstantsAssumption ==
  /\ IsFiniteSet(Sessions)
  /\ {RowsPerPass, MaxRounds, MaxThreads} \subseteq Nat \ {0}
  /\ {MaxRows, MaxFaults, MaxCrashes} \subseteq Nat

VARIABLES
  phase,      \* "up", "down" or "recovering"
  mem,        \* the live snapshot: sessions and stop lines
  disk,       \* the saved snapshot
  inflight,   \* #inFlightProviderThreads, by session
  stopping,   \* the step of the running stop, "none" if none runs
  begun,      \* the stops so far: what each caught and touched
  table,      \* emergency_stop_intents: rows by rowid
  aside,      \* emergency_stop_intent_quarantine
  listRows,   \* emergency_stop_recovery_rows
  listLines,  \* emergency_stop_recovery_lines
  listStops,  \* emergency_stop_recovery
  rec,        \* the running recovery
  foreign, faults, crashes  \* spent of the bounds

journal == <<table, aside, listRows, listLines, listStops>>
counts == <<foreign, faults, crashes>>
vars == <<phase, mem, disk, inflight, stopping, begun, table, aside, listRows,
          listLines, listStops, rec, foreign, faults, crashes>>

Stops == 1..MaxRows
Threads == 0..MaxThreads                 \* 0: the session has none
Lines == [stop : Stops, sess : Sessions, by : {"stop", "restart"}]
Snapshots == [state : [Sessions -> {"idle", "failed"}],
              thread : [Sessions -> Threads], lines : SUBSET Lines]
Rows == [stop : Stops, catch : SUBSET (Sessions \X Threads), sess : SUBSET Sessions,
         own : BOOLEAN, keep : BOOLEAN, bad : BOOLEAN]
RowIds == 1..MaxRows
Entries == [row : RowIds, is : Rows]
Recoveries == [step : {"none", "pass", "save", "finish", "close"}, round : 0..MaxRounds,
               after : 0..MaxRows, state : [Sessions -> {"idle", "failed"}],
               thread : [Sessions -> Threads], read : BOOLEAN, acted : BOOLEAN]

TypeOK ==
  /\ phase \in {"up", "down", "recovering"}
  /\ mem \in Snapshots /\ disk \in Snapshots
  /\ inflight \subseteq Sessions
  /\ stopping \in {"none", "acting", "saving", "clearing"}
  /\ \A b \in begun : b.stop \in Stops /\ b.sess \subseteq Sessions
  /\ table \subseteq Entries /\ aside \subseteq Rows
  /\ \A e, f \in table : e.row = f.row => e = f
  /\ \A e \in listRows : e \in Entries
  /\ listLines \subseteq Lines /\ listStops \subseteq Stops
  /\ rec \in Recoveries
  /\ foreign \in 0..MaxRows /\ faults \in 0..MaxFaults /\ crashes \in 0..MaxCrashes

NoRecovery == [step |-> "none", round |-> 0, after |-> 0,
               state |-> [s \in Sessions |-> "idle"], thread |-> [s \in Sessions |-> 0],
               read |-> FALSE, acted |-> FALSE]

Init ==
  /\ phase = "up"
  /\ mem = [state |-> [s \in Sessions |-> "idle"], thread |-> [s \in Sessions |-> 1],
            lines |-> {}]
  /\ disk = mem
  /\ inflight = {} /\ stopping = "none" /\ begun = {}
  /\ table = {} /\ aside = {} /\ listRows = {} /\ listLines = {} /\ listStops = {}
  /\ rec = NoRecovery
  /\ foreign = 0 /\ faults = 0 /\ crashes = 0

Fails == faults < MaxFaults /\ faults' = faults + 1

---------------------------------------------------------------------------
(* The running daemon *)

(* A send puts its thread in flight; the provider answers it, or the         *)
(* session, failed, is given a new thread.                                   *)
Dispatch(s) ==
  /\ phase = "up" /\ stopping = "none" /\ s \notin inflight /\ mem.thread[s] # 0
  /\ inflight' = inflight \cup {s}
  /\ UNCHANGED <<phase, mem, disk, stopping, begun, journal, rec, counts>>

Dispatched(s) ==
  /\ phase = "up" /\ s \in inflight
  /\ inflight' = inflight \ {s}
  /\ UNCHANGED <<phase, mem, disk, stopping, begun, journal, rec, counts>>

NewThread(s) ==
  /\ phase = "up" /\ stopping = "none" /\ mem.state[s] = "failed"
  /\ LET last == Max({mem.thread[s]} \cup {t \in Threads : \E b \in begun : <<s, t>> \in b.catch}) IN
     /\ last < MaxThreads
     /\ mem' = [mem EXCEPT !.thread[s] = last + 1, !.state[s] = "idle"]
  /\ UNCHANGED <<phase, disk, inflight, stopping, begun, journal, rec, counts>>

(* Any other whole-snapshot save.                                            *)
Persist ==
  /\ phase = "up" /\ disk # mem /\ stopping # "saving"
  /\ disk' = mem
  /\ UNCHANGED <<phase, mem, inflight, stopping, begun, journal, rec, counts>>

Free == RowIds \ {e.row : e \in table}

(* #runEmergencyStop up to its first effect.  `busy` are the sessions it     *)
(* touches otherwise: a turn, a gate or a terminal.  A stop runs even when   *)
(* its intent cannot be written.                                             *)
BeginStop(busy) ==
  /\ phase = "up" /\ stopping = "none" /\ Cardinality(begun) + foreign < MaxRows
  /\ inflight \cup busy # {}
  /\ LET id == Cardinality(begun) + 1
         catch == {<<s, mem.thread[s]>> : s \in inflight}
         row == [stop |-> id, catch |-> catch, sess |-> inflight \cup busy,
                 own |-> TRUE, keep |-> FALSE, bad |-> FALSE]
         began(written) == begun \cup {[stop |-> id, catch |-> catch,
                                        sess |-> inflight \cup busy, written |-> written]} IN
     \/ /\ begun' = began(TRUE)
        /\ table' = table \cup {[row |-> Max({0} \cup {e.row : e \in table}) + 1, is |-> row]}
        /\ Max({0} \cup {e.row : e \in table}) + 1 \in RowIds
        /\ UNCHANGED faults
     \/ begun' = began(FALSE) /\ Fails /\ UNCHANGED table
  /\ stopping' = "acting"
  /\ UNCHANGED <<phase, mem, disk, inflight, aside, listRows, listLines, listStops, rec,
                 foreign, crashes>>

Current == CHOOSE b \in begun : \A c \in begun : c.stop <= b.stop

(* The effects and the lines: a dispatch still in flight has its thread      *)
(* reset, or kept where the reset fails.                                     *)
ActStop ==
  /\ stopping = "acting"
  /\ \E reset \in {inflight} \cup {{}} :
       /\ IF reset = inflight THEN UNCHANGED faults ELSE Fails
       /\ mem' = [state |-> [s \in Sessions |-> IF s \in inflight THEN "failed" ELSE mem.state[s]],
                  thread |-> [s \in Sessions |-> IF s \in reset THEN 0 ELSE mem.thread[s]],
                  lines |-> mem.lines \cup [stop : {Current.stop}, sess : Current.sess, by : {"stop"}]]
  /\ inflight' = {}
  /\ stopping' = "saving"
  /\ UNCHANGED <<phase, disk, begun, journal, rec, foreign, crashes>>

(* #saveAgentState; the intent is cleared only after it.                     *)
SaveStop ==
  /\ stopping = "saving"
  /\ \/ disk' = mem /\ stopping' = "clearing" /\ UNCHANGED faults
     \/ disk' \in {disk, mem} /\ stopping' = "none" /\ Fails
  /\ UNCHANGED <<phase, mem, inflight, begun, journal, rec, foreign, crashes>>

ClearStop ==
  /\ stopping = "clearing"
  /\ \/ table' = {e \in table : ~(e.is.own /\ e.is.stop = Current.stop)} /\ UNCHANGED faults
     \/ Fails /\ UNCHANGED table
  /\ stopping' = "none"
  /\ UNCHANGED <<phase, mem, disk, inflight, begun, aside, listRows, listLines, listStops,
                 rec, foreign, crashes>>

---------------------------------------------------------------------------
(* Recovery at startup *)

BeginRound(n, m) ==
  [step |-> "pass", round |-> n, after |-> 0, state |-> m.state, thread |-> m.thread,
   read |-> FALSE, acted |-> FALSE]

(* beginRecovery: what the last recovery read is forgotten, the stops it     *)
(* acted on are not.                                                         *)
Start ==
  /\ phase = "down"
  /\ phase' = "recovering"
  /\ mem' = disk
  /\ listRows' = {} /\ listLines' = {}
  /\ rec' = BeginRound(1, disk)
  /\ UNCHANGED <<disk, inflight, stopping, begun, table, aside, listStops, counts>>

Listed(e) == \E l \in listRows : l = e
Unread == {e \in table : ~Listed(e)}

(* Mutant: no line counts as a record. *)
RecordedNever == {}

Recorded == {l.stop : l \in mem.lines} \ listStops

(* Mutant: the session fails and keeps its thread. *)
ActedKeepingThread(r, rows) ==
  [r EXCEPT !.state = [s \in Sessions |-> IF \E e \in rows, t \in Threads : <<s, t>> \in e.is.catch
                                          THEN "failed" ELSE r.state[s]]]

(* The thread's reset and the session's failure that an unrecorded row asks  *)
(* for, on the round's copy of the sessions.                                 *)
Acted(r, rows) ==
  LET caught == UNION {e.is.catch : e \in rows} IN
  [r EXCEPT !.state = [s \in Sessions |-> IF \E t \in Threads : <<s, t>> \in caught
                                          THEN "failed" ELSE r.state[s]],
            !.thread = [s \in Sessions |-> IF <<s, r.thread[s]>> \in caught THEN 0 ELSE r.thread[s]]]

(* Mutant: lines for the dispatches only. *)
WrittenCaught(rows) ==
  {l \in [stop : {e.is.stop : e \in rows}, sess : Sessions, by : {"restart"}] :
     l \notin mem.lines /\ \E e \in rows, t \in Threads : e.is.stop = l.stop /\ <<l.sess, t>> \in e.is.catch}

Written(rows) ==
  {l \in [stop : {e.is.stop : e \in rows}, sess : Sessions, by : {"restart"}] :
     l \notin mem.lines /\ \E e \in rows : e.is.stop = l.stop /\ l.sess \in e.is.sess}

(* One pass: `pending` reads the rows after the last pass's, moves unreadable *)
(* ones aside, and `stage` lists what was read, the stops acted on and the   *)
(* lines to write.                                                           *)
Pass ==
  /\ phase = "recovering" /\ rec.step = "pass"
  /\ LET beyond == {e \in table : e.row > rec.after}
         window == {e \in beyond : Cardinality({f \in beyond : f.row < e.row}) < RowsPerPass}
         fresh == {e \in window : ~Listed(e)}
         good == {e \in fresh : ~e.is.bad}
         acting == {e \in good : e.is.stop \notin Recorded}
         more == window # beyond
         read == rec.read \/ fresh # {}
         acted == rec.acted \/ good # {}
         next == CASE more -> "pass"
                   [] ~more /\ ~read -> "close"
                   [] ~more /\ read /\ acted -> "save"
                   [] OTHER -> "finish" IN
     /\ table' = table \ {e \in fresh : e.is.bad}
     /\ aside' = aside \cup {e.is : e \in {f \in fresh : f.is.bad}}
     /\ listRows' = listRows \cup good
     /\ listStops' = listStops \cup {e.is.stop : e \in acting}
     /\ listLines' = listLines \cup Written(acting)
     /\ rec' = [Acted(rec, acting) EXCEPT
                  !.after = IF more THEN Max({e.row : e \in window}) ELSE 0,
                  !.read = read, !.acted = acted, !.step = next]
  /\ UNCHANGED <<phase, mem, disk, inflight, stopping, begun, counts>>

(* The round's save, with its sessions and lines; a failed one fails the     *)
(* start.                                                                    *)
SaveRound ==
  /\ phase = "recovering" /\ rec.step = "save"
  /\ LET candidate == [state |-> rec.state, thread |-> rec.thread,
                       lines |-> mem.lines \cup listLines] IN
     \/ /\ disk' = candidate /\ mem' = candidate
        /\ rec' = [rec EXCEPT !.step = "finish"]
        /\ UNCHANGED <<faults, phase>>
     \/ /\ Fails
        /\ disk' \in {disk, candidate}
        /\ phase' = "down" /\ rec' = NoRecovery
        /\ UNCHANGED mem
  /\ UNCHANGED <<inflight, stopping, begun, journal, foreign, crashes>>

(* The next round, or a failed start past the last one.                      *)
NextRound ==
  IF rec.round = MaxRounds
  THEN phase' = "down" /\ rec' = NoRecovery
  ELSE rec' = BeginRound(rec.round + 1, mem) /\ UNCHANGED phase

(* Mutant: a kept row is not listed any more. *)
FinishRoundForgets ==
  /\ phase = "recovering" /\ rec.step = "finish"
  /\ table' = {e \in table : ~Listed(e) \/ e.is.keep}
  /\ listRows' = {} /\ listLines' = {}
  /\ NextRound
  /\ UNCHANGED <<mem, disk, inflight, stopping, begun, aside, listStops, counts>>

(* finishRound: the rows this round finished are cleared, those kept for     *)
(* overflow stay, listed.                                                    *)
FinishRound ==
  /\ phase = "recovering" /\ rec.step = "finish"
  /\ table' = {e \in table : ~Listed(e) \/ e.is.keep}
  /\ listRows' = {e \in listRows : e.is.keep}
  /\ listLines' = {}
  /\ NextRound
  /\ UNCHANGED <<mem, disk, inflight, stopping, begun, aside, listStops, counts>>

(* finishRecovery: the stop list is emptied, and the listener opens, only    *)
(* when no row is left unread.                                               *)
Close ==
  /\ phase = "recovering" /\ rec.step = "close"
  /\ \/ /\ Unread = {}
        /\ listLines' = {} /\ listStops' = {}
        /\ phase' = "up" /\ rec' = NoRecovery
     \/ Unread # {} /\ NextRound /\ UNCHANGED <<listLines, listStops>>
  /\ UNCHANGED <<mem, disk, inflight, stopping, begun, table, aside, listRows, counts>>

---------------------------------------------------------------------------
(* Another writer on the store: an unreadable row, one too large to finish   *)
(* whole, or one that names a stop again with another dispatch.              *)
Foreign(row, stop, s, kind) ==
  /\ Cardinality(begun) + foreign < MaxRows /\ row \in Free
  /\ foreign' = foreign + 1
  /\ \E b \in begun : b.stop = stop
  /\ table' = table \cup {[row |-> row, is |->
       [stop |-> stop, catch |-> {<<s, 1>>}, sess |-> {s}, own |-> FALSE, keep |-> kind = "overflow",
        bad |-> kind = "unreadable"]]}
  /\ UNCHANGED <<phase, mem, disk, inflight, stopping, begun, aside, listRows, listLines,
                 listStops, rec, faults, crashes>>

Crash ==
  /\ phase # "down" /\ crashes < MaxCrashes
  /\ crashes' = crashes + 1
  /\ phase' = "down"
  /\ disk' \in {disk} \cup (IF stopping = "saving" THEN {mem} ELSE {})
  /\ inflight' = {} /\ stopping' = "none" /\ rec' = NoRecovery
  /\ UNCHANGED <<mem, begun, journal, foreign, faults>>

Recover == Start \/ Pass \/ SaveRound \/ FinishRound \/ Close
RunStop == ActStop \/ SaveStop \/ ClearStop

Next ==
  \/ \E s \in Sessions : Dispatch(s) \/ Dispatched(s) \/ NewThread(s)
  \/ Persist
  \/ \E busy \in SUBSET Sessions : BeginStop(busy)
  \/ RunStop \/ Recover
  \/ \E row \in RowIds, stop \in Stops, s \in Sessions,
        kind \in {"unreadable", "overflow", "plain"} : Foreign(row, stop, s, kind)
  \/ Crash

Spec == Init /\ [][Next]_vars
FairSpec == Spec /\ WF_vars(Recover) /\ WF_vars(RunStop)

---------------------------------------------------------------------------
(* Properties *)

HasLines(snapshot, b) == \A s \in b.sess : \E l \in snapshot.lines : l.stop = b.stop /\ l.sess = s

(* A stop whose intent was written stays in the journal until the state file *)
(* records it: no crash, failed save or recovery round loses it.             *)
KeptUntilRecorded ==
  \A b \in begun : b.written /\ ~HasLines(disk, b)
    => \E e \in table : e.is.stop = b.stop /\ e.is.own

(* A daemon that serves has recorded every stop it or a predecessor began    *)
(* with a written intent, on every session the stop touched.                 *)
RecordedWhenUp ==
  phase = "up" /\ stopping = "none" =>
    \A b \in begun : b.written => HasLines(mem, b)

(* A stop cut off by a crash has its dispatches reset by the time the daemon *)
(* serves again: no session continues on the thread the stop caught.         *)
CutOffThreadsReset ==
  phase = "up" =>
    \A b \in begun : b.written
                     /\ (\E l \in mem.lines : l.stop = b.stop /\ l.by = "restart")
                     /\ ~(\E l \in mem.lines : l.stop = b.stop /\ l.by = "stop")
      => \A s \in Sessions : <<s, mem.thread[s]>> \notin b.catch

(* A stop that its own save recorded is never finished a second time: a      *)
(* session the person restarted since keeps its thread whatever intent a     *)
(* failed clear left behind.  (Rows other writers add are apart.)            *)
FinishedStaysFinished ==
  [][foreign = 0 /\ phase = "recovering" => \A s \in Sessions :
       mem'.thread[s] # mem.thread[s] =>
         \E b \in begun : <<s, mem.thread[s]>> \in b.catch
            /\ ~\E l \in disk.lines : l.stop = b.stop /\ l.by = "stop"]_vars

(* No session's thread shows a stop twice, once by the stop and once by a    *)
(* restart.                                                                  *)
OneRecord ==
  \A l \in disk.lines : l.by = "stop" => [l EXCEPT !.by = "restart"] \notin disk.lines

(* Rows that name a stop act alike whichever round, or start, reads them:    *)
(* the record a round of this recovery saved does not keep a later row of    *)
(* the same stop from resetting the dispatch it names.                       *)
RowsActAlike ==
  [][phase = "recovering" =>
       \A e \in table \ table' : ~e.is.bad /\ e.is.stop \in listStops =>
         \A s \in Sessions : <<s, disk.thread[s]>> \notin e.is.catch]_vars

(* A daemon that is started again whenever it ends comes to serve, once      *)
(* crashes and other writers stop: the rounds a failed start saved count for *)
(* the next, and a row kept for good does not hold up every start.           *)
Serves == phase # "up" ~> phase = "up"

(* The journal and the state file account for every stop: kept until         *)
(* recorded, recorded before the daemon serves, recorded once.               *)
StopsRecorded == TypeOK /\ KeptUntilRecorded /\ RecordedWhenUp /\ OneRecord

(* Recovery resets what a stop was cut off from resetting and nothing else:  *)
(* a stop that finished is not replayed, and no row of an unfinished one is  *)
(* passed over.                                                              *)
ReplayedRightly == FinishedStaysFinished /\ RowsActAlike
===========================================================================
