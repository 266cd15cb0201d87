--------------------------- MODULE WorktreeClaim ---------------------------
(* The exclusion of git operations on one session's worktree, between        *)
(* daemons and across their crashes: the operation lease (an SQLite lock,    *)
(* gone with its process), the claim file with the operation's token, and    *)
(* the recovery record that lists the operation's git children.              *)
(*                                                                           *)
(* A daemon may die at any step while its git children, or what they         *)
(* started, go on; a kill or an abort leaves descendants nobody can list.    *)
(*                                                                           *)
(* Abstracted: the files' text; the release deadline, which bounds only the  *)
(* caller's wait.  A crash between the reclaim's unlink and its record       *)
(* leaves no claim, as a finished release does.                              *)
EXTENDS Integers, FiniteSets

CONSTANTS
  Procs,      \* daemon processes
  MaxOps,     \* bound: operations
  MaxCmds,    \* bound: git commands
  MaxFaults   \* bound: file writes that fail

ASSUME ConstantsAssumption ==
  IsFiniteSet(Procs) /\ {MaxOps, MaxCmds} \subseteq Nat \ {0} /\ MaxFaults \in Nat

VARIABLES
  alive,    \* live daemons
  lease,    \* the operation holding the lease, 0 if free
  claim,    \* the claim file: NoFile, Blank or the token in it
  record,   \* the recovery record on disk
  op,       \* operations: their daemon, step and copy of the record
  cmd,      \* git commands: their operation, step, child and descendants
  faults

vars == <<alive, lease, claim, record, op, cmd, faults>>

Ops == 1..MaxOps
Cmds == 1..MaxCmds
NoFile == -1
Blank == 0
Steps == {"none", "leased", "claimed", "running", "releasing", "done"}
Records == [token : 0..MaxOps, starting : 0..MaxCmds, children : SUBSET Cmds, unknown : BOOLEAN]
NewRecord(o) == [token |-> o, starting |-> 0, children |-> {}, unknown |-> FALSE]
NoRecord == NewRecord(0)

TypeOK ==
  /\ alive \subseteq Procs /\ lease \in 0..MaxOps
  /\ claim \in {NoFile, Blank} \cup Ops
  /\ record \in Records
  /\ op \in [Ops -> [proc : Procs, step : Steps, rec : Records]]
  /\ cmd \in [Cmds -> [op : 0..MaxOps, step : {"none", "starting", "launch", "spawned", "recorded", "closed", "done"},
                       child : {"none", "runs", "exited"}, rest : BOOLEAN]]
  /\ faults \in 0..MaxFaults

Init ==
  /\ alive = Procs /\ lease = 0 /\ record = NoRecord /\ faults = 0
  /\ claim \in {NoFile, Blank}   \* Blank: a claim of a daemon before the lease
  /\ op \in [Ops -> [proc : Procs, step : {"none"}, rec : {NoRecord}]]
  /\ cmd = [k \in Cmds |-> [op |-> 0, step |-> "none", child |-> "none", rest |-> FALSE]]

Fails == faults < MaxFaults /\ faults' = faults + 1

---------------------------------------------------------------------------
(* Taking the claim *)

(* Nothing the record tells of may still run. *)
Settled(r) == r.starting = 0 /\ r.children = {} /\ ~r.unknown

(* Mutant: a dead owner is enough. *)
ReclaimableDead == claim = record.token /\ op[claim].proc \notin alive
Reclaimable == claim = record.token /\ op[claim].proc \notin alive /\ Settled(record)

(* RestoreOperationLease: the lease, the look at an earlier claim, the       *)
(* reclaim and the first record, in one synchronous constructor.  A refused  *)
(* operation gives the lease back.                                           *)
Open(o) ==
  /\ op[o].step = "none" /\ op[o].proc \in alive
  /\ \A m \in Ops : m < o => op[m].step # "none"
  /\ lease = 0
  /\ IF claim = NoFile \/ (claim \in Ops /\ Reclaimable)
     THEN \/ /\ claim' = NoFile /\ record' = NewRecord(o)
             /\ lease' = o
             /\ op' = [op EXCEPT ![o].step = "leased", ![o].rec = NewRecord(o)]
             /\ UNCHANGED faults
          \/ /\ Fails /\ claim' = NoFile
             /\ op' = [op EXCEPT ![o].step = "done"]
             /\ UNCHANGED <<lease, record>>
     ELSE /\ op' = [op EXCEPT ![o].step = "done"]
          /\ UNCHANGED <<lease, claim, record, faults>>
  /\ UNCHANGED <<alive, cmd>>

(* open(claimPath, "wx"), then the token; where that fails the file stays.   *)
CreateClaim(o) ==
  /\ op[o].step = "leased"
  /\ \/ claim' = Blank /\ op' = [op EXCEPT ![o].step = "claimed"] /\ UNCHANGED <<lease, faults>>
     \/ Fails /\ lease' = 0 /\ op' = [op EXCEPT ![o].step = "done"] /\ UNCHANGED claim
  /\ UNCHANGED <<alive, record, cmd>>

WriteToken(o) ==
  /\ op[o].step = "claimed"
  /\ \/ claim' = o /\ op' = [op EXCEPT ![o].step = "running"] /\ UNCHANGED faults
     \/ Fails /\ op' = [op EXCEPT ![o].step = "releasing"] /\ UNCHANGED claim
  /\ UNCHANGED <<alive, lease, record, cmd>>

---------------------------------------------------------------------------
(* Git commands *)

Of(k) == cmd[k].op
OpAlive(o) == o # 0 /\ op[o].step \in {"leased", "claimed", "running", "releasing"}

(* #publish writes the record as it stands when the write runs.              *)
Publish(o) == record' = op'[o].rec

(* A command of the operation: its launch is counted before it happens. *)
Command(k, o) ==
  /\ cmd[k].step = "none" /\ \A j \in Cmds : j < k => cmd[j].step # "none"
  /\ op[o].step = "running" /\ ~op[o].rec.unknown
  /\ op' = [op EXCEPT ![o].rec.starting = @ + 1]
  /\ cmd' = [cmd EXCEPT ![k].op = o, ![k].step = "starting"]
  /\ UNCHANGED <<alive, lease, claim, record, faults>>

(* The launch is recorded before it happens; a failed write refuses it and   *)
(* leaves it counted.                                                        *)
RecordLaunch(k) ==
  /\ cmd[k].step = "starting" /\ OpAlive(Of(k))
  /\ UNCHANGED op
  /\ \/ Publish(Of(k)) /\ cmd' = [cmd EXCEPT ![k].step = "launch"] /\ UNCHANGED faults
     \/ Fails /\ cmd' = [cmd EXCEPT ![k].step = "done"] /\ UNCHANGED record
  /\ UNCHANGED <<alive, lease, claim>>

(* The child runs from here on, and the record lists it in the launch's stead. *)
Listed(r, k) == [r EXCEPT !.starting = @ - 1, !.children = @ \cup {k}]

Spawn(k) ==
  /\ cmd[k].step = "launch" /\ OpAlive(Of(k))
  /\ op' = [op EXCEPT ![Of(k)].rec = Listed(@, k)]
  /\ cmd' = [cmd EXCEPT ![k].step = "spawned", ![k].child = "runs"]
  /\ UNCHANGED <<alive, lease, claim, record, faults>>

(* git could not be started: the launch is no longer counted, and that is    *)
(* recorded as an exit is.                                                   *)
LaunchFails(k) ==
  /\ cmd[k].step = "launch" /\ OpAlive(Of(k))
  /\ op' = [op EXCEPT ![Of(k)].rec.starting = @ - 1]
  /\ cmd' = [cmd EXCEPT ![k].step = "closed", ![k].child = "exited"]
  /\ UNCHANGED <<alive, lease, claim, record, faults>>

RecordChild(k) ==
  /\ cmd[k].step = "spawned" /\ OpAlive(Of(k))
  /\ UNCHANGED op
  /\ \/ Publish(Of(k)) /\ UNCHANGED faults
     \/ Fails /\ UNCHANGED record
  /\ cmd' = [cmd EXCEPT ![k].step = "recorded"]
  /\ UNCHANGED <<alive, lease, claim>>

(* The child ends by itself, with everything it started, or is killed or     *)
(* aborted, which may leave descendants behind.                              *)
Ends(k, killed) ==
  /\ cmd[k].child = "runs"
  /\ \E rest \in IF killed THEN BOOLEAN ELSE {FALSE} :
       cmd' = [cmd EXCEPT ![k].child = "exited", ![k].rest = rest]
  /\ op' = IF killed /\ OpAlive(Of(k)) THEN [op EXCEPT ![Of(k)].rec.unknown = TRUE] ELSE op
  /\ UNCHANGED <<alive, lease, claim, record, faults>>

(* A descendant left behind ends.                                            *)
RestEnds(k) ==
  /\ cmd[k].rest
  /\ cmd' = [cmd EXCEPT ![k].rest = FALSE]
  /\ UNCHANGED <<alive, lease, claim, record, op, faults>>

(* The command settles only once its child has closed.                       *)
Close(k) ==
  /\ cmd[k].step = "recorded" /\ cmd[k].child = "exited" /\ OpAlive(Of(k))
  /\ op' = [op EXCEPT ![Of(k)].rec.children = @ \ {k}]
  /\ cmd' = [cmd EXCEPT ![k].step = "closed"]
  /\ UNCHANGED <<alive, lease, claim, record, faults>>

RecordExit(k) ==
  /\ cmd[k].step = "closed" /\ OpAlive(Of(k))
  /\ UNCHANGED op
  /\ \/ Publish(Of(k)) /\ UNCHANGED faults
     \/ Fails /\ UNCHANGED record
  /\ cmd' = [cmd EXCEPT ![k].step = "done"]
  /\ UNCHANGED <<alive, lease, claim>>

---------------------------------------------------------------------------
(* Release *)

CommandsSettled(o) == \A k \in Cmds : Of(k) = o => cmd[k].step = "done"

Finish(o) ==
  /\ op[o].step = "running" /\ CommandsSettled(o)
  /\ op' = [op EXCEPT ![o].step = "releasing"]
  /\ UNCHANGED <<alive, lease, claim, record, cmd, faults>>

MayUnlink(o) == claim = o /\ Settled(op[o].rec)

(* Mutant: a claim that stays keeps the lease. *)
ReleaseHolding(o) ==
  /\ op[o].step = "releasing"
  /\ claim' = IF MayUnlink(o) THEN NoFile ELSE claim
  /\ lease' = IF MayUnlink(o) THEN 0 ELSE lease
  /\ op' = [op EXCEPT ![o].step = "done"]
  /\ UNCHANGED <<alive, record, cmd, faults>>

(* releaseRestoreClaim: the lease goes in any case, the claim only where it  *)
(* is the operation's own and every child is accounted for.                  *)
Release(o) ==
  /\ op[o].step = "releasing"
  /\ \/ claim' = (IF MayUnlink(o) THEN NoFile ELSE claim) /\ UNCHANGED faults
     \/ Fails /\ UNCHANGED claim
  /\ lease' = 0
  /\ op' = [op EXCEPT ![o].step = "done"]
  /\ UNCHANGED <<alive, record, cmd>>

---------------------------------------------------------------------------
(* A daemon dies: its lease goes, its children stay, or die and leave        *)
(* descendants.                                                              *)
Crash(p) ==
  /\ p \in alive
  /\ alive' = alive \ {p}
  /\ lease' = IF lease # 0 /\ op[lease].proc = p THEN 0 ELSE lease
  /\ op' = [o \in Ops |-> IF op[o].proc = p /\ op[o].step # "none"
                          THEN [op[o] EXCEPT !.step = "done"] ELSE op[o]]
  /\ \E dies \in SUBSET {k \in Cmds : cmd[k].child = "runs"}, rest \in BOOLEAN :
       /\ \A k \in dies : op[Of(k)].proc = p
       /\ cmd' = [k \in Cmds |-> IF k \in dies THEN [cmd[k] EXCEPT !.child = "exited", !.rest = rest]
                                               ELSE cmd[k]]
  /\ UNCHANGED <<claim, record, faults>>

Work(o) == Open(o) \/ CreateClaim(o) \/ WriteToken(o) \/ Finish(o) \/ Release(o)
Step(k) == RecordLaunch(k) \/ Spawn(k) \/ LaunchFails(k) \/ RecordChild(k) \/ Close(k) \/ RecordExit(k)

Next ==
  \/ \E o \in Ops : Work(o)
  \/ \E k \in Cmds : \/ Step(k) \/ RestEnds(k)
                     \/ \E o \in Ops : Command(k, o)
                     \/ \E killed \in BOOLEAN : Ends(k, killed)
  \/ \E p \in Procs : Crash(p)

Spec == Init /\ [][Next]_vars
FairSpec ==
  /\ Spec
  /\ \A o \in Ops : WF_vars(Work(o))
  /\ \A k \in Cmds : WF_vars(Step(k)) /\ WF_vars(\E killed \in BOOLEAN : Ends(k, killed))

---------------------------------------------------------------------------
(* Properties *)

Live(k) == cmd[k].child = "runs" \/ cmd[k].rest

(* Git processes of two operations never touch the worktree together, not    *)
(* even what a dead daemon's commands left running.                          *)
Exclusive == \A j, k \in Cmds : Live(j) /\ Live(k) => Of(j) = Of(k)

(* While any git process of an operation lives, its claim stands: nobody     *)
(* can begin, whether or not its daemon still holds the lease.               *)
LiveIsClaimed == \A k \in Cmds : Live(k) => claim = Of(k)

(* The lease is given back however an operation ends, so a later one is      *)
(* answered rather than kept out by a lock nobody uses.                      *)
LeaseReturns == lease # 0 ~> lease = 0

(* The claim does what it is for: nothing begins, and no claim is removed or *)
(* taken over, while anything of an earlier operation can still write.       *)
ClaimGuards == TypeOK /\ LiveIsClaimed /\ Exclusive
===========================================================================
