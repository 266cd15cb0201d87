------------------------ MODULE WorktreeClaimProofs ------------------------
(***************************************************************************)
(* Proofs about WorktreeClaim, for any number of daemons, operations,       *)
(* commands and faults: while anything of an operation can write, the claim *)
(* is that operation's.                                                     *)
(*                                                                         *)
(* The claim is removed by its own operation, on the copy of the record in  *)
(* its memory, or taken over by another, on the record on disk, which may   *)
(* be older.  So the argument is about both: the copy accounts for every    *)
(* command (Copies), and whichever copy was written last does not look      *)
(* settled while a command it could mention is between its launch and its   *)
(* end, or left descendants (Disk).  The lease makes the operation that     *)
(* writes the record the only one (Held).                                   *)
(*                                                                         *)
(* The second part is about SessionCreation, which makes worktrees           *)
(* (Creation!).                                                             *)
(***************************************************************************)
EXTENDS WorktreeClaim, WorktreeCreation, FiniteSetTheorems, TLAPS

\* A command's child exists from Spawn on, and descendants are left only by one
\* that was spawned; its operation had begun.
Sane ==
  \A k \in Cmds :
    /\ cmd[k].step \in {"none", "starting", "launch"} => cmd[k].child = "none"
    /\ cmd[k].child = "none" => cmd[k].step \notin {"spawned", "recorded", "closed"} /\ ~cmd[k].rest
    /\ cmd[k].child = "runs" => cmd[k].step \in {"spawned", "recorded"}
    /\ cmd[k].step = "none" => cmd[k].op = 0
    /\ cmd[k].step # "none" => cmd[k].op \in Ops /\ op[cmd[k].op].step # "none"

\* An operation at work holds the lease, and the record on disk and, once it
\* wrote its token, the claim are its own; it leaves "running" only when its
\* commands are over.
Held ==
  \A o \in Ops :
    /\ OpAlive(o) => lease = o /\ op[o].proc \in alive /\ record.token = o /\ op[o].rec.token = o
    /\ op[o].step = "leased" => claim = NoFile
    /\ op[o].step = "claimed" => claim = Blank
    /\ op[o].step = "running" => claim = o
    /\ op[o].step \in {"leased", "claimed"} => \A k \in Cmds : cmd[k].op # o
    /\ op[o].step = "releasing" => \A k \in Cmds : cmd[k].op = o => cmd[k].step = "done"

\* Commands announced and not spawned: the ones a record counts as starting.
Counted(o) == {k \in Cmds : cmd[k].op = o /\ cmd[k].child = "none"}

\* What an operation's own copy of the record accounts for.
Copies ==
  /\ \A o \in Ops : op[o].rec.starting = Cardinality(Counted(o))
  /\ \A k \in Cmds : cmd[k].step \in {"spawned", "recorded"} => k \in op[cmd[k].op].rec.children
  /\ \A k \in Cmds : cmd[k].rest /\ (OpAlive(cmd[k].op) \/ cmd[k].step \in {"closed", "done"})
                       => op[cmd[k].op].rec.unknown

\* A command that may write, or is about to.
Risky(k) == \/ cmd[k].step \in {"launch", "spawned", "recorded"}
            \/ cmd[k].step \in {"closed", "done"} /\ cmd[k].rest

\* The record on disk, however old, is not settled while such a command exists.
Disk == \A k \in Cmds : Risky(k) /\ record.token = cmd[k].op => ~Settled(record)

\* The inductive invariant.
ClaimInv == TypeOK /\ Sane /\ Held /\ Copies /\ Disk /\ LiveIsClaimed

-----------------------------------------------------------------------------
(* The sets of commands a record counts. *)

LEMMA SomeCmds ==
  ASSUME NEW S \in SUBSET Cmds
  PROVE  IsFiniteSet(S) /\ Cardinality(S) \in 0..MaxCmds
<1>1. IsFiniteSet(Cmds) /\ Cardinality(Cmds) = MaxCmds
  BY FS_Interval, ConstantsAssumption DEF Cmds
<1>2. IsFiniteSet(S) /\ Cardinality(S) <= MaxCmds
  BY <1>1, FS_Subset
<1>3. QED
  BY <1>2, FS_CardinalityType, ConstantsAssumption

\* A command announced and not spawned makes its operation's count positive.
LEMMA CountedPositive ==
  ASSUME NEW k \in Cmds, cmd[k].child = "none"
  PROVE  Cardinality(Counted(cmd[k].op)) > 0
<1>1. k \in Counted(cmd[k].op)
  BY DEF Counted
<1>2. Cardinality(Counted(cmd[k].op)) # 0
  BY <1>1, SomeCmds, FS_EmptySet DEF Counted
<1>3. QED
  BY <1>2, SomeCmds, ConstantsAssumption DEF Counted

LEMMA InitInv == Init => ClaimInv
<1> SUFFICES ASSUME Init PROVE ClaimInv
  OBVIOUS
<1> USE ConstantsAssumption DEF Init, NoFile, Blank, Ops, Cmds
<1>1. NoRecord \in Records /\ NoRecord.starting = 0
  BY DEF Records, NoRecord, NewRecord
<1>2. TypeOK
  <2>1. op \in [Ops -> [proc : Procs, step : Steps, rec : Records]]
    BY <1>1 DEF Steps
  <2>2. cmd \in [Cmds -> [op : 0..MaxOps, step : {"none", "starting", "launch", "spawned", "recorded", "closed", "done"},
                       child : {"none", "runs", "exited"}, rest : BOOLEAN]]
    OBVIOUS
  <2>3. /\ alive \subseteq Procs /\ lease \in 0..MaxOps
        /\ claim \in {NoFile, Blank} \cup Ops /\ faults \in 0..MaxFaults
    OBVIOUS
  <2>4. record \in Records
    BY <1>1
  <2>5. QED
    BY <2>1, <2>2, <2>3, <2>4 DEF TypeOK
<1>3. Sane
  BY DEF Sane
<1>4. Held
  BY DEF Held, OpAlive
<1>5. Copies
  <2>1. \A o \in Ops : Counted(o) = {}
    BY DEF Counted
  <2>2. Cardinality({}) = 0
    BY FS_EmptySet
  <2>3. \A o \in Ops : op[o].rec.starting = 0
    BY <1>1
  <2>4. \A o \in Ops : op[o].rec.starting = Cardinality(Counted(o))
    BY <2>1, <2>2, <2>3
  <2>5. \A k \in Cmds : cmd[k].step = "none" /\ ~cmd[k].rest
    OBVIOUS
  <2>6. QED
    BY <2>4, <2>5 DEF Copies
<1>6. Disk
  BY DEF Disk, Risky
<1>7. LiveIsClaimed
  BY DEF LiveIsClaimed, Live
<1>8. QED
  BY <1>2, <1>3, <1>4, <1>5, <1>6, <1>7 DEF ClaimInv

-----------------------------------------------------------------------------
(* Operations. *)

\* Nothing of an operation can write once its own copy of the record, or the
\* record on disk that is its, is settled.
LEMMA SettledIsQuiet ==
  ASSUME ClaimInv, NEW k \in Cmds, Live(k)
  PROVE  /\ cmd[k].op \in Ops /\ claim = cmd[k].op
         /\ OpAlive(cmd[k].op) => ~Settled(op[cmd[k].op].rec)
         /\ record.token = cmd[k].op => ~Settled(record)
<1>1. Risky(k) /\ cmd[k].step # "none" /\ cmd[k].step # "launch"
  BY DEF ClaimInv, TypeOK, Sane, Live, Risky
<1>2. cmd[k].op \in Ops /\ claim = cmd[k].op
  BY <1>1 DEF ClaimInv, Sane, LiveIsClaimed, Of
<1>3. ~Settled(op[cmd[k].op].rec)
  BY <1>1 DEF ClaimInv, Copies, Settled, Risky
<1>4. record.token = cmd[k].op => ~Settled(record)
  BY <1>1 DEF ClaimInv, Disk
<1>5. QED
  BY <1>2, <1>3, <1>4

LEMMA OpenInv ==
  ASSUME ClaimInv, NEW o \in Ops, Open(o)
  PROVE  ClaimInv'
<1> USE ConstantsAssumption
<1>1. /\ op[o].step = "none" /\ op[o].proc \in alive /\ lease = 0
      /\ alive' = alive /\ cmd' = cmd
  BY DEF Open
<1>2. \A m \in Ops : op[m].step \notin {"leased", "claimed", "running", "releasing"}
  BY <1>1 DEF ClaimInv, Held, OpAlive, Ops
<1>3. \A k \in Cmds : cmd[k].op # o
  BY <1>1 DEF ClaimInv, Sane, Ops
<1>4. NewRecord(o) \in Records /\ NewRecord(o).token = o /\ NewRecord(o).starting = 0 /\ NewRecord(o).children = {}
  BY DEF NewRecord, Records, Ops
<1>5. Counted(o) = {} /\ Cardinality({}) = 0
  BY <1>3, FS_EmptySet DEF Counted
<1>6. \A m : Counted(m)' = Counted(m)
  BY <1>1 DEF Counted
<1>a. CASE /\ claim = NoFile \/ (claim \in Ops /\ Reclaimable)
           /\ claim' = NoFile /\ record' = NewRecord(o) /\ lease' = o /\ faults' = faults
           /\ op' = [op EXCEPT ![o].step = "leased", ![o].rec = NewRecord(o)]
  <2>1. /\ op' \in [Ops -> [proc : Procs, step : Steps, rec : Records]]
        /\ op'[o].step = "leased" /\ op'[o].rec = NewRecord(o) /\ op'[o].proc = op[o].proc
        /\ \A m \in Ops \ {o} : op'[m] = op[m]
    <3>1. op \in [Ops -> [proc : Procs, step : Steps, rec : Records]]
      BY DEF ClaimInv, TypeOK
    <3>2. "leased" \in Steps
      BY DEF Steps
    <3>3. op' \in [Ops -> [proc : Procs, step : Steps, rec : Records]]
      BY <1>a, <1>4, <3>1, <3>2
    <3>4. op'[o].step = "leased" /\ op'[o].rec = NewRecord(o) /\ op'[o].proc = op[o].proc
      BY <1>a, <3>1
    <3>5. \A m \in Ops \ {o} : op'[m] = op[m]
      BY <1>a, <3>1
    <3>6. QED
      BY <3>3, <3>4, <3>5
  <2>2. \A k \in Cmds : ~Live(k)
    <3> SUFFICES ASSUME NEW k \in Cmds, Live(k) PROVE FALSE
      OBVIOUS
    <3>1. claim \in Ops /\ Reclaimable
      BY <1>a, SettledIsQuiet DEF NoFile, Ops
    <3>2. QED
      BY <3>1, SettledIsQuiet DEF Reclaimable
  <2>3. TypeOK'
    BY <1>a, <1>1, <1>4, <2>1 DEF ClaimInv, TypeOK, Ops
  <2>4. Sane'
    BY <1>1, <1>3, <2>1 DEF ClaimInv, Sane
  <2>5. Held'
    BY <1>a, <1>1, <1>2, <1>3, <1>4, <2>1 DEF ClaimInv, Held, OpAlive
  <2>6. Copies'
    <3>1. \A m \in Ops : op'[m].rec.starting = Cardinality(Counted(m)')
      <4>1. Counted(o)' = {} /\ op'[o].rec.starting = 0
        BY <1>4, <1>5, <1>6, <2>1
      <4>2. ASSUME NEW m \in Ops \ {o} PROVE op'[m].rec.starting = Cardinality(Counted(m)')
        <5>1. op[m].rec.starting = Cardinality(Counted(m))
          BY DEF ClaimInv, Copies
        <5>2. Counted(m)' = Counted(m) /\ op'[m] = op[m]
          BY <1>6, <2>1
        <5>3. QED
          BY <5>1, <5>2
      <4>3. QED
        BY <1>5, <4>1, <4>2
    <3>2. \A k \in Cmds : cmd[k].step \in {"spawned", "recorded"} \/ cmd[k].rest =>
                          cmd[k].op \in Ops \ {o} /\ op'[cmd[k].op] = op[cmd[k].op]
      BY <1>3, <2>1 DEF ClaimInv, Sane
    <3>3. QED
      BY <1>1, <3>1, <3>2 DEF ClaimInv, Copies, OpAlive
  <2>7. Disk'
    BY <1>a, <1>1, <1>3, <1>4 DEF Disk
  <2>8. LiveIsClaimed'
    BY <1>1, <2>2 DEF LiveIsClaimed, Live
  <2>9. QED
    BY <2>3, <2>4, <2>5, <2>6, <2>7, <2>8 DEF ClaimInv
<1>b. CASE /\ claim' = claim \/ (claim' = NoFile /\ (claim = NoFile \/ (claim \in Ops /\ Reclaimable)))
           /\ record' = record /\ lease' = lease /\ faults' \in 0..MaxFaults
           /\ op' = [op EXCEPT ![o].step = "done"]
  <2>1. /\ op' \in [Ops -> [proc : Procs, step : Steps, rec : Records]]
        /\ op'[o].step = "done" /\ op'[o].rec = op[o].rec /\ op'[o].proc = op[o].proc
        /\ \A m \in Ops \ {o} : op'[m] = op[m]
    BY <1>b DEF ClaimInv, TypeOK, Steps
  <2>2. claim' = claim \/ \A k \in Cmds : ~Live(k)
    <3> SUFFICES ASSUME NEW k \in Cmds, Live(k), claim' # claim PROVE FALSE
      OBVIOUS
    <3>1. claim \in Ops /\ Reclaimable
      BY <1>b, SettledIsQuiet DEF NoFile, Ops
    <3>2. QED
      BY <3>1, SettledIsQuiet DEF Reclaimable
  <2>3. TypeOK'
    BY <1>b, <1>1, <2>1 DEF ClaimInv, TypeOK
  <2>4. Sane'
    BY <1>1, <1>3, <2>1 DEF ClaimInv, Sane
  <2>5. Held'
    BY <1>b, <1>1, <1>2, <2>1 DEF ClaimInv, Held, OpAlive
  <2>6. Copies'
    BY <1>1, <1>2, <1>3, <1>6, <2>1 DEF ClaimInv, Copies, Sane, OpAlive
  <2>7. Disk'
    BY <1>b, <1>1 DEF ClaimInv, Disk, Risky, Settled
  <2>8. LiveIsClaimed'
    BY <1>1, <2>2 DEF ClaimInv, LiveIsClaimed, Live, Of
  <2>9. QED
    BY <2>3, <2>4, <2>5, <2>6, <2>7, <2>8 DEF ClaimInv
<1>7. QED
  BY <1>a, <1>b DEF Open, Fails, ClaimInv, TypeOK

\* An operation at work moves on: its commands and its copy of the record stay.
LEMMA Moved ==
  ASSUME ClaimInv, NEW o \in Ops, NEW st \in Steps \ {"none"},
         op[o].step \in {"leased", "claimed", "running", "releasing"},
         op' = [op EXCEPT ![o].step = st], cmd' = cmd
  PROVE  /\ op' \in [Ops -> [proc : Procs, step : Steps, rec : Records]]
         /\ op'[o].step = st /\ op'[o].rec = op[o].rec /\ op'[o].proc = op[o].proc
         /\ \A m \in Ops \ {o} : op'[m] = op[m]
         /\ \A m \in Ops \ {o} : op[m].step \notin {"leased", "claimed", "running", "releasing"}
         /\ lease = o /\ op[o].proc \in alive /\ record.token = o /\ op[o].rec.token = o
         /\ Sane'
         /\ Copies'
<1>1. op \in [Ops -> [proc : Procs, step : Steps, rec : Records]]
  BY DEF ClaimInv, TypeOK
<1>2. /\ op' \in [Ops -> [proc : Procs, step : Steps, rec : Records]]
      /\ op'[o].step = st /\ op'[o].rec = op[o].rec /\ op'[o].proc = op[o].proc
      /\ \A m \in Ops \ {o} : op'[m] = op[m]
  BY <1>1
<1>3. \A m \in Ops : op[m].step \in {"leased", "claimed", "running", "releasing"} => 
         lease = m /\ op[m].proc \in alive /\ record.token = m /\ op[m].rec.token = m
  BY ConstantsAssumption DEF ClaimInv, Held, OpAlive, Ops
<1>4. Sane'
  BY <1>2 DEF ClaimInv, Sane
<1>5. Copies'
  <2>1. \A m : Counted(m)' = Counted(m)
    BY DEF Counted
  <2>2. \A m \in Ops : op'[m].rec = op[m].rec
    BY <1>2
  <2>3. \A k \in Cmds : cmd[k].rest => cmd[k].op \in Ops
    BY DEF ClaimInv, Sane
  <2>4. \A k \in Cmds : cmd[k].step \in {"spawned", "recorded"} => cmd[k].op \in Ops
    BY DEF ClaimInv, Sane
  <2>5. \A m \in Ops : OpAlive(m)' => OpAlive(m)
    BY <1>2 DEF OpAlive
  <2>6. QED
    BY <2>1, <2>2, <2>3, <2>4, <2>5 DEF ClaimInv, Copies
<1>6. QED
  BY <1>2, <1>3, <1>4, <1>5

LEMMA CreateClaimInv ==
  ASSUME ClaimInv, NEW o \in Ops, CreateClaim(o)
  PROVE  ClaimInv'
<1> USE ConstantsAssumption
<1>1. /\ op[o].step = "leased" /\ claim = NoFile /\ \A k \in Cmds : cmd[k].op # o
      /\ alive' = alive /\ record' = record /\ cmd' = cmd
  BY DEF CreateClaim, ClaimInv, Held
<1>2. PICK st \in {"claimed", "done"} :
         /\ op' = [op EXCEPT ![o].step = st]
         /\ st = "claimed" => claim' = Blank /\ lease' = lease
         /\ st = "done" => claim' = claim /\ lease' = 0
         /\ faults' \in 0..MaxFaults
  BY DEF CreateClaim, Fails, ClaimInv, TypeOK
<1>3. st \in Steps \ {"none"}
  BY DEF Steps
<1>m. /\ op' \in [Ops -> [proc : Procs, step : Steps, rec : Records]]
      /\ op'[o].step = st /\ op'[o].rec = op[o].rec /\ op'[o].proc = op[o].proc
      /\ \A m \in Ops \ {o} : op'[m] = op[m]
      /\ \A m \in Ops \ {o} : op[m].step \notin {"leased", "claimed", "running", "releasing"}
      /\ lease = o /\ op[o].proc \in alive /\ record.token = o /\ op[o].rec.token = o
      /\ Sane' /\ Copies'
  BY <1>1, <1>2, <1>3, Moved
<1>4. TypeOK'
  BY <1>1, <1>2, <1>m DEF ClaimInv, TypeOK
<1>5. Held'
  BY <1>1, <1>2, <1>m DEF Held, OpAlive
<1>6. Disk'
  BY <1>1 DEF ClaimInv, Disk, Risky, Settled
<1>7. \A k \in Cmds : ~Live(k)
  BY <1>1, SettledIsQuiet DEF NoFile, Ops
<1>8. LiveIsClaimed'
  BY <1>1, <1>7 DEF LiveIsClaimed, Live
<1>9. QED
  BY <1>m, <1>4, <1>5, <1>6, <1>8 DEF ClaimInv

LEMMA WriteTokenInv ==
  ASSUME ClaimInv, NEW o \in Ops, WriteToken(o)
  PROVE  ClaimInv'
<1> USE ConstantsAssumption
<1>1. /\ op[o].step = "claimed" /\ claim = Blank /\ \A k \in Cmds : cmd[k].op # o
      /\ alive' = alive /\ record' = record /\ cmd' = cmd /\ lease' = lease
  BY DEF WriteToken, ClaimInv, Held
<1>2. PICK st \in {"running", "releasing"} :
         /\ op' = [op EXCEPT ![o].step = st]
         /\ st = "running" => claim' = o
         /\ st = "releasing" => claim' = claim
         /\ faults' \in 0..MaxFaults
  BY DEF WriteToken, Fails, ClaimInv, TypeOK
<1>3. st \in Steps \ {"none"}
  BY DEF Steps
<1>m. /\ op' \in [Ops -> [proc : Procs, step : Steps, rec : Records]]
      /\ op'[o].step = st /\ op'[o].rec = op[o].rec /\ op'[o].proc = op[o].proc
      /\ \A m \in Ops \ {o} : op'[m] = op[m]
      /\ \A m \in Ops \ {o} : op[m].step \notin {"leased", "claimed", "running", "releasing"}
      /\ lease = o /\ op[o].proc \in alive /\ record.token = o /\ op[o].rec.token = o
      /\ Sane' /\ Copies'
  BY <1>1, <1>2, <1>3, Moved
<1>4. TypeOK'
  BY <1>1, <1>2, <1>m DEF ClaimInv, TypeOK
<1>5. Held'
  BY <1>1, <1>2, <1>m DEF Held, OpAlive
<1>6. Disk'
  BY <1>1 DEF ClaimInv, Disk, Risky, Settled
<1>7. \A k \in Cmds : ~Live(k)
  BY <1>1, SettledIsQuiet DEF Blank, Ops
<1>8. LiveIsClaimed'
  BY <1>1, <1>7 DEF LiveIsClaimed, Live
<1>9. QED
  BY <1>m, <1>4, <1>5, <1>6, <1>8 DEF ClaimInv

LEMMA FinishInv ==
  ASSUME ClaimInv, NEW o \in Ops, Finish(o)
  PROVE  ClaimInv'
<1> USE ConstantsAssumption
<1>1. /\ op[o].step = "running" /\ \A k \in Cmds : cmd[k].op = o => cmd[k].step = "done"
      /\ op' = [op EXCEPT ![o].step = "releasing"]
      /\ alive' = alive /\ record' = record /\ cmd' = cmd /\ lease' = lease
      /\ claim' = claim /\ faults' = faults
  BY DEF Finish, CommandsSettled, Of
<1>m. /\ op' \in [Ops -> [proc : Procs, step : Steps, rec : Records]]
      /\ op'[o].step = "releasing" /\ op'[o].rec = op[o].rec /\ op'[o].proc = op[o].proc
      /\ \A m \in Ops \ {o} : op'[m] = op[m]
      /\ \A m \in Ops \ {o} : op[m].step \notin {"leased", "claimed", "running", "releasing"}
      /\ lease = o /\ op[o].proc \in alive /\ record.token = o /\ op[o].rec.token = o
      /\ Sane' /\ Copies'
  <2>1. "releasing" \in Steps \ {"none"}
    BY DEF Steps
  <2>2. QED
    BY <1>1, <2>1, Moved
<1>2. TypeOK'
  BY <1>1, <1>m DEF ClaimInv, TypeOK
<1>3. Held'
  BY <1>1, <1>m DEF Held, OpAlive
<1>4. Disk'
  BY <1>1 DEF ClaimInv, Disk, Risky, Settled
<1>5. LiveIsClaimed'
  BY <1>1 DEF ClaimInv, LiveIsClaimed, Live, Of
<1>6. QED
  BY <1>m, <1>2, <1>3, <1>4, <1>5 DEF ClaimInv

LEMMA ReleaseInv ==
  ASSUME ClaimInv, NEW o \in Ops, Release(o)
  PROVE  ClaimInv'
<1> USE ConstantsAssumption
<1>1. /\ op[o].step = "releasing" /\ op' = [op EXCEPT ![o].step = "done"]
      /\ alive' = alive /\ record' = record /\ cmd' = cmd /\ lease' = 0
      /\ claim' = claim \/ (MayUnlink(o) /\ claim' = NoFile)
      /\ faults' \in 0..MaxFaults
  BY DEF Release, Fails, ClaimInv, TypeOK
<1>m. /\ op' \in [Ops -> [proc : Procs, step : Steps, rec : Records]]
      /\ op'[o].step = "done" /\ op'[o].rec = op[o].rec /\ op'[o].proc = op[o].proc
      /\ \A m \in Ops \ {o} : op'[m] = op[m]
      /\ \A m \in Ops \ {o} : op[m].step \notin {"leased", "claimed", "running", "releasing"}
      /\ lease = o /\ op[o].proc \in alive /\ record.token = o /\ op[o].rec.token = o
      /\ Sane' /\ Copies'
  <2>1. "done" \in Steps \ {"none"}
    BY DEF Steps
  <2>2. QED
    BY <1>1, <2>1, Moved
<1>2. TypeOK'
  BY <1>1, <1>m DEF ClaimInv, TypeOK
<1>3. Held'
  BY <1>1, <1>m DEF Held, OpAlive
<1>4. Disk'
  BY <1>1 DEF ClaimInv, Disk, Risky, Settled
<1>5. LiveIsClaimed'
  <2>1. CASE claim' = claim
    BY <1>1, <2>1 DEF ClaimInv, LiveIsClaimed, Live, Of
  <2>2. CASE MayUnlink(o)
    <3>1. OpAlive(o)
      BY <1>1 DEF OpAlive, Ops
    <3>2. \A k \in Cmds : ~Live(k)
      BY <2>2, <3>1, SettledIsQuiet DEF MayUnlink
    <3>3. QED
      BY <1>1, <3>2 DEF LiveIsClaimed, Live
  <2>3. QED
    BY <1>1, <2>1, <2>2
<1>6. QED
  BY <1>m, <1>2, <1>3, <1>4, <1>5 DEF ClaimInv

-----------------------------------------------------------------------------
(* Commands. *)

CommandType == [op : 0..MaxOps, step : {"none", "starting", "launch", "spawned", "recorded", "closed", "done"},
                child : {"none", "runs", "exited"}, rest : BOOLEAN]
OpType == [proc : Procs, step : Steps, rec : Records]

\* An operation's own copy is not settled while a command it counts is about to
\* be launched, may write, or left descendants: publishing it keeps Disk.
LEMMA CopyIsUnsettled ==
  ASSUME ClaimInv, NEW k \in Cmds, Risky(k) \/ cmd[k].step = "starting"
  PROVE  cmd[k].op \in Ops /\ ~Settled(op[cmd[k].op].rec)
<1>1. cmd[k].op \in Ops
  BY DEF ClaimInv, Sane, Risky
<1>2. CASE cmd[k].step \in {"starting", "launch"}
  <2>1. Cardinality(Counted(cmd[k].op)) > 0
    BY <1>2, CountedPositive DEF ClaimInv, Sane
  <2>2. QED
    BY <1>1, <2>1 DEF ClaimInv, Copies, Settled
<1>3. CASE cmd[k].step \in {"spawned", "recorded"}
  BY <1>1, <1>3 DEF ClaimInv, Copies, Settled
<1>4. CASE cmd[k].step \in {"closed", "done"} /\ cmd[k].rest
  BY <1>1, <1>4 DEF ClaimInv, Copies, Settled
<1>5. QED
  BY <1>1, <1>2, <1>3, <1>4 DEF Risky

\* The operation of a command under way: only it is at work.
LEMMA AtWork ==
  ASSUME ClaimInv, NEW k \in Cmds, OpAlive(Of(k))
  PROVE  /\ cmd[k].op \in Ops /\ cmd[k].op # 0
         /\ record.token = cmd[k].op /\ op[cmd[k].op].rec.token = cmd[k].op
         /\ cmd[k].step # "done" => op[cmd[k].op].step = "running" /\ claim = cmd[k].op
<1>1. cmd[k].op \in Ops
  BY DEF ClaimInv, TypeOK, OpAlive, Of, Ops
<1>2. QED
  BY <1>1 DEF ClaimInv, Held, OpAlive, Of

LEMMA CommandInv ==
  ASSUME ClaimInv, NEW k \in Cmds, NEW o \in Ops, Command(k, o)
  PROVE  ClaimInv'
<1> USE ConstantsAssumption
<1>1. /\ cmd[k].step = "none" /\ cmd[k].op = 0 /\ cmd[k].child = "none" /\ ~cmd[k].rest
      /\ op[o].step = "running" /\ o # 0
      /\ op' = [op EXCEPT ![o].rec.starting = @ + 1]
      /\ cmd' = [cmd EXCEPT ![k].op = o, ![k].step = "starting"]
      /\ alive' = alive /\ lease' = lease /\ claim' = claim /\ record' = record /\ faults' = faults
  BY DEF Command, ClaimInv, Sane, Ops
<1>2. /\ cmd \in [Cmds -> CommandType] /\ op \in [Ops -> OpType]
      /\ op[o].rec \in Records
  BY DEF ClaimInv, TypeOK, CommandType, OpType
<1>3. /\ cmd' \in [Cmds -> CommandType]
      /\ cmd'[k].op = o /\ cmd'[k].step = "starting" /\ cmd'[k].child = "none" /\ ~cmd'[k].rest
      /\ \A j \in Cmds \ {k} : cmd'[j] = cmd[j]
  <2>1. o \in 0..MaxOps
    BY DEF Ops
  <2>2. QED
    BY <1>1, <1>2, <2>1 DEF CommandType
<1>4. Counted(o)' = Counted(o) \cup {k} /\ k \notin Counted(o)
  BY <1>1, <1>3 DEF Counted
<1>5. \A m \in Ops \ {o} : Counted(m)' = Counted(m)
  BY <1>1, <1>3 DEF Counted, Ops
<1>6. op[o].rec.starting + 1 = Cardinality(Counted(o)') /\ op[o].rec.starting + 1 \in 0..MaxCmds
  <2>1. Counted(o) \in SUBSET Cmds /\ Counted(o)' \in SUBSET Cmds
    BY <1>4 DEF Counted
  <2>2. Cardinality(Counted(o)') = Cardinality(Counted(o)) + 1
    BY <1>4, <2>1, SomeCmds, FS_AddElement
  <2>3. Cardinality(Counted(o)') \in 0..MaxCmds
    BY <2>1, SomeCmds
  <2>4. QED
    BY <2>2, <2>3 DEF ClaimInv, Copies
<1>7. /\ op' \in [Ops -> OpType]
      /\ op'[o].step = op[o].step /\ op'[o].proc = op[o].proc
      /\ op'[o].rec.starting = op[o].rec.starting + 1 /\ op'[o].rec.children = op[o].rec.children
      /\ op'[o].rec.unknown = op[o].rec.unknown /\ op'[o].rec.token = op[o].rec.token
      /\ \A m \in Ops \ {o} : op'[m] = op[m]
  BY <1>1, <1>2, <1>6 DEF OpType, Records
<1>8. TypeOK'
  BY <1>1, <1>3, <1>7 DEF ClaimInv, TypeOK, CommandType, OpType
<1>9. Sane'
  BY <1>1, <1>3, <1>7 DEF ClaimInv, Sane
<1>10. Held'
  BY <1>1, <1>3, <1>7 DEF ClaimInv, Held, OpAlive
<1>11. Copies'
  <2>1. \A m \in Ops : op'[m].rec.starting = Cardinality(Counted(m)')
    BY <1>5, <1>6, <1>7 DEF ClaimInv, Copies
  <2>2. \A m \in Ops : /\ op'[m].step = op[m].step /\ op'[m].rec.children = op[m].rec.children
                      /\ op'[m].rec.unknown = op[m].rec.unknown
    BY <1>7
  <2>3. \A j \in Cmds \ {k} : cmd[j].step # "none" => cmd[j].op \in Ops
    BY DEF ClaimInv, Sane
  <2>4. \A j \in Cmds : cmd'[j].step \in {"spawned", "recorded"} => j \in op'[cmd'[j].op].rec.children
    BY <1>3, <2>2, <2>3 DEF ClaimInv, Copies
  <2>5. \A j \in Cmds \ {k} : cmd[j].rest => cmd[j].step # "none"
    BY DEF ClaimInv, Sane
  <2>6. \A j \in Cmds : (cmd[j].rest /\ (OpAlive(cmd[j].op) \/ cmd[j].step \in {"closed", "done"})
                            => op[cmd[j].op].rec.unknown)'
    BY <1>3, <2>2, <2>3, <2>5 DEF ClaimInv, Copies, OpAlive
  <2>7. QED
    BY <2>1, <2>4, <2>6 DEF Copies
<1>12. Disk'
  BY <1>1, <1>3 DEF ClaimInv, Disk, Risky, Settled
<1>13. LiveIsClaimed'
  BY <1>1, <1>3 DEF ClaimInv, LiveIsClaimed, Live, Of
<1>14. QED
  BY <1>8, <1>9, <1>10, <1>11, <1>12, <1>13 DEF ClaimInv

\* A write of the record around a launch, after it or after the exit, done or
\* failed: the copy it writes is the one in memory.
LEMMA RecordedInv ==
  ASSUME ClaimInv, NEW k \in Cmds, NEW st, OpAlive(Of(k)),
         <<cmd[k].step, st>> \in {<<"starting", "launch">>, <<"starting", "done">>, <<"spawned", "recorded">>, <<"closed", "done">>},
         cmd' = [cmd EXCEPT ![k].step = st],
         op' = op, alive' = alive, lease' = lease, claim' = claim, faults' \in 0..MaxFaults,
         record' = op[Of(k)].rec \/ (record' = record /\ st # "launch")
  PROVE  ClaimInv'
<1> USE ConstantsAssumption
<1>1. /\ cmd[k].op \in Ops /\ record.token = cmd[k].op /\ op[cmd[k].op].rec.token = cmd[k].op
      /\ op[cmd[k].op].step = "running" /\ claim = cmd[k].op
  BY AtWork
<1>2. cmd \in [Cmds -> CommandType] /\ op \in [Ops -> OpType]
  BY DEF ClaimInv, TypeOK, CommandType, OpType
<1>3. st \in {"launch", "recorded", "done"} /\ cmd[k].step \in {"starting", "spawned", "closed"}
  OBVIOUS
<1>4. /\ cmd' \in [Cmds -> CommandType]
      /\ cmd'[k].op = cmd[k].op /\ cmd'[k].step = st /\ cmd'[k].child = cmd[k].child /\ cmd'[k].rest = cmd[k].rest
      /\ \A j \in Cmds \ {k} : cmd'[j] = cmd[j]
  BY <1>2, <1>3 DEF CommandType
<1>5. TypeOK'
  <2>1. record' \in Records
    BY <1>1, <1>2 DEF ClaimInv, TypeOK, OpType, Of
  <2>2. QED
    BY <1>4, <2>1 DEF ClaimInv, TypeOK, CommandType
<1>6. Sane'
  BY <1>1, <1>3, <1>4 DEF ClaimInv, Sane
<1>7. Held'
  <2>1. record'.token = record.token
    BY <1>1 DEF Of
  <2>2. \A j \in Cmds : cmd'[j].op = cmd[j].op
    BY <1>4
  <2>3. \A o \in Ops : op[o].step = "releasing" => o # cmd[k].op
    BY <1>1
  <2>4. QED
    BY <1>4, <2>1, <2>2, <2>3 DEF ClaimInv, Held, OpAlive
<1>8. Copies'
  <2>1. \A o \in Ops : Counted(o)' = Counted(o)
    BY <1>4 DEF Counted
  <2>2. \A j \in Cmds : cmd'[j].step \in {"spawned", "recorded"} => j \in op[cmd'[j].op].rec.children
    BY <1>3, <1>4 DEF ClaimInv, Copies
  <2>3. \A j \in Cmds : (cmd[j].rest /\ (OpAlive(cmd[j].op) \/ cmd[j].step \in {"closed", "done"})
                            => op[cmd[j].op].rec.unknown)'
    BY <1>3, <1>4 DEF ClaimInv, Copies, OpAlive, Of
  <2>4. QED
    BY <2>1, <2>2, <2>3 DEF ClaimInv, Copies
<1>9. Disk'
  <2> SUFFICES ASSUME NEW j \in Cmds, Risky(j)', (record.token = cmd[j].op)' PROVE ~Settled(record)'
    BY DEF Disk
  <2>1. cmd'[j].op = cmd[j].op
    BY <1>4
  <2>2. CASE record' = op[Of(k)].rec
    <3>1. cmd[j].op = cmd[k].op
      BY <1>1, <2>1, <2>2 DEF Of
    <3>2. Risky(j) \/ cmd[j].step = "starting"
      BY <1>3, <1>4 DEF Risky, ClaimInv, Sane
    <3>3. QED
      BY <2>2, <3>1, <3>2, CopyIsUnsettled DEF Settled, Of
  <2>3. CASE record' = record /\ st # "launch"
    <3>1. Risky(j)
      BY <1>3, <1>4, <2>3 DEF Risky, ClaimInv, Sane
    <3>2. QED
      BY <2>1, <2>3, <3>1 DEF ClaimInv, Disk, Settled
  <2>4. QED
    BY <2>2, <2>3
<1>10. LiveIsClaimed'
  BY <1>4 DEF ClaimInv, LiveIsClaimed, Live, Of
<1>11. QED
  BY <1>5, <1>6, <1>7, <1>8, <1>9, <1>10 DEF ClaimInv

LEMMA RecordInv ==
  ASSUME ClaimInv, NEW k \in Cmds, RecordLaunch(k) \/ RecordChild(k) \/ RecordExit(k)
  PROVE  ClaimInv'
<1>1. CASE RecordLaunch(k)
  <2>1. /\ cmd[k].step = "starting" /\ OpAlive(Of(k)) /\ op' = op
        /\ alive' = alive /\ lease' = lease /\ claim' = claim /\ faults' \in 0..MaxFaults
    BY <1>1, ConstantsAssumption DEF RecordLaunch, Fails, ClaimInv, TypeOK
  <2>2. CASE record' = op[Of(k)].rec /\ cmd' = [cmd EXCEPT ![k].step = "launch"]
    BY <2>1, <2>2, RecordedInv
  <2>3. CASE record' = record /\ cmd' = [cmd EXCEPT ![k].step = "done"]
    BY <2>1, <2>3, RecordedInv
  <2>4. QED
    BY <1>1, <2>1, <2>2, <2>3 DEF RecordLaunch, Publish
<1>2. CASE RecordChild(k)
  <2>1. (record' = op[Of(k)].rec \/ record' = record) /\ faults' \in 0..MaxFaults
    BY <1>2, ConstantsAssumption DEF RecordChild, Publish, Fails, ClaimInv, TypeOK
  <2>2. QED
    BY <1>2, <2>1, RecordedInv DEF RecordChild
<1>3. CASE RecordExit(k)
  <2>1. (record' = op[Of(k)].rec \/ record' = record) /\ faults' \in 0..MaxFaults
    BY <1>3, ConstantsAssumption DEF RecordExit, Publish, Fails, ClaimInv, TypeOK
  <2>2. QED
    BY <1>3, <2>1, RecordedInv DEF RecordExit
<1>4. QED
  BY <1>1, <1>2, <1>3

LEMMA SpawnInv ==
  ASSUME ClaimInv, NEW k \in Cmds, Spawn(k)
  PROVE  ClaimInv'
<1> USE ConstantsAssumption
<1>1. PICK o \in Ops : o = cmd[k].op /\ op[o].step = "running" /\ claim = o
  BY AtWork DEF Spawn
<1>2. /\ cmd[k].step = "launch" /\ cmd[k].child = "none" /\ ~cmd[k].rest
      /\ cmd' = [cmd EXCEPT ![k].step = "spawned", ![k].child = "runs"]
      /\ alive' = alive /\ lease' = lease /\ claim' = claim /\ record' = record /\ faults' = faults
  BY <1>1 DEF Spawn, Of, ClaimInv, Sane
<1>3. cmd \in [Cmds -> CommandType] /\ op \in [Ops -> OpType] /\ op[o].rec \in Records
  BY <1>1 DEF ClaimInv, TypeOK, CommandType, OpType
<1>4. /\ cmd' \in [Cmds -> CommandType]
      /\ cmd'[k].op = cmd[k].op /\ cmd'[k].step = "spawned" /\ cmd'[k].child = "runs" /\ ~cmd'[k].rest
      /\ \A j \in Cmds \ {k} : cmd'[j] = cmd[j]
  BY <1>2, <1>3 DEF CommandType
<1>5. Counted(o)' = Counted(o) \ {k} /\ k \in Counted(o)
  BY <1>1, <1>2, <1>4 DEF Counted
<1>6. \A m \in Ops \ {o} : Counted(m)' = Counted(m)
  BY <1>1, <1>2, <1>4 DEF Counted
<1>7. op[o].rec.starting - 1 = Cardinality(Counted(o)') /\ op[o].rec.starting - 1 \in 0..MaxCmds
  <2>1. Counted(o) \in SUBSET Cmds /\ Counted(o)' \in SUBSET Cmds
    BY <1>5 DEF Counted
  <2>2. Cardinality(Counted(o)') = Cardinality(Counted(o)) - 1
    BY <1>5, <2>1, SomeCmds, FS_RemoveElement
  <2>3. Cardinality(Counted(o)') \in 0..MaxCmds
    BY <2>1, SomeCmds
  <2>4. QED
    BY <1>1, <2>2, <2>3 DEF ClaimInv, Copies
<1>8. /\ op' \in [Ops -> OpType]
      /\ op'[o].step = op[o].step /\ op'[o].proc = op[o].proc
      /\ op'[o].rec.starting = op[o].rec.starting - 1 /\ op'[o].rec.children = op[o].rec.children \cup {k}
      /\ op'[o].rec.unknown = op[o].rec.unknown /\ op'[o].rec.token = op[o].rec.token
      /\ \A m \in Ops \ {o} : op'[m] = op[m]
  <2>1. op[o].rec.children \cup {k} \in SUBSET Cmds
    BY <1>3 DEF Records
  <2>2. PICK r \in Records : /\ op' = [op EXCEPT ![o].rec = r]
                             /\ r.starting = op[o].rec.starting - 1 /\ r.children = op[o].rec.children \cup {k}
                             /\ r.unknown = op[o].rec.unknown /\ r.token = op[o].rec.token
    <3>1. op' = [op EXCEPT ![o].rec = Listed(op[o].rec, k)]
      BY <1>1 DEF Spawn, Of
    <3>2. /\ Listed(op[o].rec, k) \in Records
          /\ Listed(op[o].rec, k).starting = op[o].rec.starting - 1
          /\ Listed(op[o].rec, k).children = op[o].rec.children \cup {k}
          /\ Listed(op[o].rec, k).unknown = op[o].rec.unknown
          /\ Listed(op[o].rec, k).token = op[o].rec.token
      BY <1>3, <1>7, <2>1 DEF Records, Listed
    <3>3. QED
      BY <3>1, <3>2
  <2>3. QED
    BY <1>1, <1>3, <2>2 DEF OpType
<1>9. TypeOK'
  BY <1>2, <1>4, <1>8 DEF ClaimInv, TypeOK, CommandType, OpType
<1>10. Sane'
  BY <1>1, <1>2, <1>4, <1>8 DEF ClaimInv, Sane
<1>11. Held'
  <2>1. \A m \in Ops : /\ op'[m].step = op[m].step /\ op'[m].proc = op[m].proc
                      /\ op'[m].rec.token = op[m].rec.token
    BY <1>8
  <2>2. \A j \in Cmds : cmd'[j].op = cmd[j].op
    BY <1>4
  <2>3. \A m \in Ops : op[m].step = "releasing" => m # cmd[k].op
    BY <1>1
  <2>4. QED
    BY <1>2, <1>4, <2>1, <2>2, <2>3 DEF ClaimInv, Held, OpAlive
<1>12. Copies'
  <2>1. \A m \in Ops : op'[m].rec.starting = Cardinality(Counted(m)')
    BY <1>6, <1>7, <1>8 DEF ClaimInv, Copies
  <2>2. \A m \in Ops : /\ op'[m].step = op[m].step /\ op[m].rec.children \subseteq op'[m].rec.children
                      /\ op'[m].rec.unknown = op[m].rec.unknown
    BY <1>8
  <2>3. \A j \in Cmds \ {k} : cmd[j].step # "none" => cmd[j].op \in Ops
    BY DEF ClaimInv, Sane
  <2>4. \A j \in Cmds : cmd'[j].step \in {"spawned", "recorded"} => j \in op'[cmd'[j].op].rec.children
    BY <1>1, <1>4, <1>8, <2>2, <2>3 DEF ClaimInv, Copies
  <2>5. \A j \in Cmds \ {k} : cmd[j].rest => cmd[j].step # "none"
    BY DEF ClaimInv, Sane
  <2>6. \A j \in Cmds : (cmd[j].rest /\ (OpAlive(cmd[j].op) \/ cmd[j].step \in {"closed", "done"})
                            => op[cmd[j].op].rec.unknown)'
    BY <1>1, <1>2, <1>4, <2>2, <2>3, <2>5 DEF ClaimInv, Copies, OpAlive
  <2>7. QED
    BY <2>1, <2>4, <2>6 DEF Copies
<1>13. Disk'
  BY <1>2, <1>4 DEF ClaimInv, Disk, Risky, Settled
<1>14. LiveIsClaimed'
  BY <1>1, <1>2, <1>4 DEF ClaimInv, LiveIsClaimed, Live, Of
<1>15. QED
  BY <1>9, <1>10, <1>11, <1>12, <1>13, <1>14 DEF ClaimInv

LEMMA LaunchFailsInv ==
  ASSUME ClaimInv, NEW k \in Cmds, LaunchFails(k)
  PROVE  ClaimInv'
<1> USE ConstantsAssumption
<1>1. PICK o \in Ops : o = cmd[k].op /\ op[o].step = "running" /\ claim = o
  BY AtWork DEF LaunchFails
<1>2. /\ cmd[k].step = "launch" /\ cmd[k].child = "none" /\ ~cmd[k].rest
      /\ cmd' = [cmd EXCEPT ![k].step = "closed", ![k].child = "exited"]
      /\ alive' = alive /\ lease' = lease /\ claim' = claim /\ record' = record /\ faults' = faults
  BY <1>1 DEF LaunchFails, Of, ClaimInv, Sane
<1>3. cmd \in [Cmds -> CommandType] /\ op \in [Ops -> OpType] /\ op[o].rec \in Records
  BY <1>1 DEF ClaimInv, TypeOK, CommandType, OpType
<1>4. /\ cmd' \in [Cmds -> CommandType]
      /\ cmd'[k].op = cmd[k].op /\ cmd'[k].step = "closed" /\ cmd'[k].child = "exited" /\ ~cmd'[k].rest
      /\ \A j \in Cmds \ {k} : cmd'[j] = cmd[j]
  BY <1>2, <1>3 DEF CommandType
<1>5. Counted(o)' = Counted(o) \ {k} /\ k \in Counted(o)
  BY <1>1, <1>2, <1>4 DEF Counted
<1>6. \A m \in Ops \ {o} : Counted(m)' = Counted(m)
  BY <1>1, <1>2, <1>4 DEF Counted
<1>7. op[o].rec.starting - 1 = Cardinality(Counted(o)') /\ op[o].rec.starting - 1 \in 0..MaxCmds
  <2>1. Counted(o) \in SUBSET Cmds /\ Counted(o)' \in SUBSET Cmds
    BY <1>5 DEF Counted
  <2>2. Cardinality(Counted(o)') = Cardinality(Counted(o)) - 1
    BY <1>5, <2>1, SomeCmds, FS_RemoveElement
  <2>3. Cardinality(Counted(o)') \in 0..MaxCmds
    BY <2>1, SomeCmds
  <2>4. QED
    BY <1>1, <2>2, <2>3 DEF ClaimInv, Copies
<1>8. /\ op' \in [Ops -> OpType]
      /\ op'[o].step = op[o].step /\ op'[o].proc = op[o].proc
      /\ op'[o].rec.starting = op[o].rec.starting - 1 /\ op'[o].rec.children = op[o].rec.children
      /\ op'[o].rec.unknown = op[o].rec.unknown /\ op'[o].rec.token = op[o].rec.token
      /\ \A m \in Ops \ {o} : op'[m] = op[m]
  <2>1. op' = [op EXCEPT ![o].rec.starting = @ - 1]
    BY <1>1 DEF LaunchFails, Of
  <2>2. op[o] \in OpType /\ op[o].rec.starting - 1 \in 0..MaxCmds
    BY <1>1, <1>3, <1>7 DEF OpType, Records
  <2>3. op' \in [Ops -> OpType]
    BY <1>1, <1>3, <2>1, <2>2 DEF OpType, Records
  <2>4. op \in [Ops -> OpType]
    BY <1>3 DEF OpType
  <2>5. op'[o] = [op[o] EXCEPT !.rec.starting = @ - 1] /\ \A m \in Ops \ {o} : op'[m] = op[m]
    BY <1>1, <2>1, <2>4
  <2>6. QED
    BY <2>2, <2>3, <2>5 DEF OpType, Records
<1>9. TypeOK'
  BY <1>2, <1>4, <1>8 DEF ClaimInv, TypeOK, CommandType, OpType
<1>10. Sane'
  BY <1>1, <1>2, <1>4, <1>8 DEF ClaimInv, Sane
<1>11. Held'
  <2>1. \A m \in Ops : /\ op'[m].step = op[m].step /\ op'[m].proc = op[m].proc
                      /\ op'[m].rec.token = op[m].rec.token
    BY <1>8
  <2>2. \A j \in Cmds : cmd'[j].op = cmd[j].op
    BY <1>4
  <2>3. \A m \in Ops : op[m].step = "releasing" => m # cmd[k].op
    BY <1>1
  <2>4. QED
    BY <1>2, <1>4, <2>1, <2>2, <2>3 DEF ClaimInv, Held, OpAlive
<1>12. Copies'
  <2>1. \A m \in Ops : op'[m].rec.starting = Cardinality(Counted(m)')
    BY <1>6, <1>7, <1>8 DEF ClaimInv, Copies
  <2>2. \A m \in Ops : /\ op'[m].step = op[m].step /\ op[m].rec.children \subseteq op'[m].rec.children
                      /\ op'[m].rec.unknown = op[m].rec.unknown
    BY <1>8
  <2>3. \A j \in Cmds \ {k} : cmd[j].step # "none" => cmd[j].op \in Ops
    BY DEF ClaimInv, Sane
  <2>4. \A j \in Cmds : cmd'[j].step \in {"spawned", "recorded"} => j \in op'[cmd'[j].op].rec.children
    BY <1>1, <1>4, <1>8, <2>2, <2>3 DEF ClaimInv, Copies
  <2>5. \A j \in Cmds \ {k} : cmd[j].rest => cmd[j].step # "none"
    BY DEF ClaimInv, Sane
  <2>6. \A j \in Cmds : (cmd[j].rest /\ (OpAlive(cmd[j].op) \/ cmd[j].step \in {"closed", "done"})
                            => op[cmd[j].op].rec.unknown)'
    BY <1>1, <1>2, <1>4, <2>2, <2>3, <2>5 DEF ClaimInv, Copies, OpAlive
  <2>7. QED
    BY <2>1, <2>4, <2>6 DEF Copies
<1>13. Disk'
  BY <1>2, <1>4 DEF ClaimInv, Disk, Risky, Settled
<1>14. LiveIsClaimed'
  BY <1>1, <1>2, <1>4 DEF ClaimInv, LiveIsClaimed, Live, Of
<1>15. QED
  BY <1>9, <1>10, <1>11, <1>12, <1>13, <1>14 DEF ClaimInv

LEMMA CloseInv ==
  ASSUME ClaimInv, NEW k \in Cmds, Close(k)
  PROVE  ClaimInv'
<1> USE ConstantsAssumption
<1>1. PICK o \in Ops : o = cmd[k].op /\ op[o].step = "running" /\ claim = o
  BY AtWork DEF Close
<1>2. /\ cmd[k].step = "recorded" /\ cmd[k].child = "exited" /\ OpAlive(o)
      /\ op' = [op EXCEPT ![o].rec.children = @ \ {k}]
      /\ cmd' = [cmd EXCEPT ![k].step = "closed"]
      /\ alive' = alive /\ lease' = lease /\ claim' = claim /\ record' = record /\ faults' = faults
  BY <1>1 DEF Close, Of
<1>3. cmd \in [Cmds -> CommandType] /\ op \in [Ops -> OpType] /\ op[o].rec \in Records
  BY <1>1 DEF ClaimInv, TypeOK, CommandType, OpType
<1>4. /\ cmd' \in [Cmds -> CommandType]
      /\ cmd'[k].op = cmd[k].op /\ cmd'[k].step = "closed" /\ cmd'[k].child = cmd[k].child /\ cmd'[k].rest = cmd[k].rest
      /\ \A j \in Cmds \ {k} : cmd'[j] = cmd[j]
  BY <1>2, <1>3 DEF CommandType
<1>5. \A m \in Ops : Counted(m)' = Counted(m)
  BY <1>1, <1>2, <1>4 DEF Counted
<1>6. /\ op' \in [Ops -> OpType]
      /\ op'[o].step = op[o].step /\ op'[o].proc = op[o].proc
      /\ op'[o].rec.starting = op[o].rec.starting /\ op'[o].rec.children = op[o].rec.children \ {k}
      /\ op'[o].rec.unknown = op[o].rec.unknown /\ op'[o].rec.token = op[o].rec.token
      /\ \A m \in Ops \ {o} : op'[m] = op[m]
  <2>1. op[o].rec.children \ {k} \in SUBSET Cmds
    BY <1>3 DEF Records
  <2>2. QED
    BY <1>1, <1>2, <1>3, <2>1 DEF OpType, Records
<1>7. TypeOK'
  BY <1>2, <1>4, <1>6 DEF ClaimInv, TypeOK, CommandType, OpType
<1>8. Sane'
  BY <1>1, <1>2, <1>4, <1>6 DEF ClaimInv, Sane
<1>9. Held'
  BY <1>1, <1>2, <1>4, <1>6 DEF ClaimInv, Held, OpAlive
<1>10. Copies'
  <2>1. \A m \in Ops : op'[m].rec.starting = Cardinality(Counted(m)')
    BY <1>5, <1>6 DEF ClaimInv, Copies
  <2>2. \A m \in Ops : /\ op'[m].step = op[m].step /\ op[m].rec.children \ {k} \subseteq op'[m].rec.children
                      /\ op'[m].rec.unknown = op[m].rec.unknown
    BY <1>6
  <2>3. \A j \in Cmds : cmd[j].step # "none" => cmd[j].op \in Ops
    BY DEF ClaimInv, Sane
  <2>4. \A j \in Cmds : cmd'[j].step \in {"spawned", "recorded"} => j \in op'[cmd'[j].op].rec.children
    BY <1>4, <2>2, <2>3 DEF ClaimInv, Copies
  <2>5. \A j \in Cmds : cmd[j].rest => cmd[j].step # "none"
    BY DEF ClaimInv, Sane
  <2>6. \A j \in Cmds : (cmd[j].rest /\ (OpAlive(cmd[j].op) \/ cmd[j].step \in {"closed", "done"})
                            => op[cmd[j].op].rec.unknown)'
    BY <1>1, <1>2, <1>4, <2>2, <2>3, <2>5 DEF ClaimInv, Copies, OpAlive
  <2>7. QED
    BY <2>1, <2>4, <2>6 DEF Copies
<1>11. Disk'
  BY <1>2, <1>4 DEF ClaimInv, Disk, Risky, Settled
<1>12. LiveIsClaimed'
  BY <1>2, <1>4 DEF ClaimInv, LiveIsClaimed, Live, Of
<1>13. QED
  BY <1>7, <1>8, <1>9, <1>10, <1>11, <1>12 DEF ClaimInv

LEMMA EndsInv ==
  ASSUME ClaimInv, NEW k \in Cmds, NEW killed \in BOOLEAN, Ends(k, killed)
  PROVE  ClaimInv'
<1> USE ConstantsAssumption
<1>1. /\ cmd[k].child = "runs" /\ cmd[k].step \in {"spawned", "recorded"} /\ cmd[k].op \in Ops
      /\ alive' = alive /\ lease' = lease /\ claim' = claim /\ record' = record /\ faults' = faults
  BY DEF Ends, ClaimInv, Sane
<1>2. PICK rest \in BOOLEAN : /\ cmd' = [cmd EXCEPT ![k].child = "exited", ![k].rest = rest]
                              /\ rest => killed
  BY DEF Ends
<1>3. cmd \in [Cmds -> CommandType] /\ op \in [Ops -> OpType]
  BY DEF ClaimInv, TypeOK, CommandType, OpType
<1>4. /\ cmd' \in [Cmds -> CommandType]
      /\ cmd'[k].op = cmd[k].op /\ cmd'[k].step = cmd[k].step /\ cmd'[k].child = "exited" /\ cmd'[k].rest = rest
      /\ \A j \in Cmds \ {k} : cmd'[j] = cmd[j]
  BY <1>2, <1>3 DEF CommandType
<1>5. /\ op' \in [Ops -> OpType]
      /\ \A m \in Ops : /\ op'[m].step = op[m].step /\ op'[m].proc = op[m].proc
                        /\ op'[m].rec.starting = op[m].rec.starting /\ op'[m].rec.token = op[m].rec.token
                        /\ op'[m].rec.children = op[m].rec.children
                        /\ op[m].rec.unknown => op'[m].rec.unknown
      /\ killed /\ OpAlive(cmd[k].op) => op'[cmd[k].op].rec.unknown
  <2>1. CASE killed /\ OpAlive(cmd[k].op)
    <3>1. PICK o \in Ops : o = cmd[k].op
      BY <1>1
    <3>2. op' = [op EXCEPT ![o].rec.unknown = TRUE]
      BY <2>1, <3>1 DEF Ends, Of
    <3>3. /\ op' \in [Ops -> OpType] /\ op'[o].rec.unknown
          /\ op'[o].step = op[o].step /\ op'[o].proc = op[o].proc
          /\ op'[o].rec.starting = op[o].rec.starting /\ op'[o].rec.token = op[o].rec.token
          /\ op'[o].rec.children = op[o].rec.children
          /\ \A m \in Ops \ {o} : op'[m] = op[m]
      BY <1>3, <3>2 DEF OpType, Records
    <3>4. QED
      BY <3>1, <3>3
  <2>2. CASE ~(killed /\ OpAlive(cmd[k].op))
    <3>1. op' = op
      BY <2>2 DEF Ends, Of
    <3>2. QED
      BY <1>3, <2>2, <3>1
  <2>3. QED
    BY <2>1, <2>2
<1>6. TypeOK'
  BY <1>1, <1>4, <1>5 DEF ClaimInv, TypeOK, CommandType, OpType
<1>7. Sane'
  BY <1>1, <1>4, <1>5 DEF ClaimInv, Sane
<1>8. Held'
  <2>1. \A j \in Cmds : cmd'[j].op = cmd[j].op /\ cmd'[j].step = cmd[j].step
    BY <1>4
  <2>2. QED
    BY <1>1, <1>5, <2>1 DEF ClaimInv, Held, OpAlive
<1>9. Copies'
  <2>1. \A m \in Ops : Counted(m)' = Counted(m)
    BY <1>1, <1>4 DEF Counted
  <2>2. \A m \in Ops : op'[m].rec.starting = Cardinality(Counted(m)')
    BY <1>5, <2>1 DEF ClaimInv, Copies
  <2>3. \A j \in Cmds : cmd[j].step # "none" => cmd[j].op \in Ops
    BY DEF ClaimInv, Sane
  <2>4. \A j \in Cmds : cmd'[j].step \in {"spawned", "recorded"} => j \in op'[cmd'[j].op].rec.children
    BY <1>4, <1>5, <2>3 DEF ClaimInv, Copies
  <2>5. \A j \in Cmds : cmd[j].rest => cmd[j].step # "none"
    BY DEF ClaimInv, Sane
  <2>6. \A j \in Cmds \ {k} : (cmd[j].rest /\ (OpAlive(cmd[j].op) \/ cmd[j].step \in {"closed", "done"})
                                 => op[cmd[j].op].rec.unknown)'
    BY <1>4, <1>5, <2>3, <2>5 DEF ClaimInv, Copies, OpAlive
  <2>7. (cmd[k].rest /\ (OpAlive(cmd[k].op) \/ cmd[k].step \in {"closed", "done"})
            => op[cmd[k].op].rec.unknown)'
    BY <1>1, <1>2, <1>4, <1>5 DEF OpAlive
  <2>8. QED
    BY <2>2, <2>4, <2>6, <2>7 DEF Copies
<1>10. Disk'
  BY <1>1, <1>4 DEF ClaimInv, Disk, Risky, Settled
<1>11. LiveIsClaimed'
  BY <1>1, <1>4 DEF ClaimInv, LiveIsClaimed, Live, Of
<1>12. QED
  BY <1>6, <1>7, <1>8, <1>9, <1>10, <1>11 DEF ClaimInv

LEMMA RestEndsInv ==
  ASSUME ClaimInv, NEW k \in Cmds, RestEnds(k)
  PROVE  ClaimInv'
<1> USE ConstantsAssumption
<1>1. /\ cmd' = [cmd EXCEPT ![k].rest = FALSE] /\ op' = op
      /\ alive' = alive /\ lease' = lease /\ claim' = claim /\ record' = record /\ faults' = faults
  BY DEF RestEnds
<1>2. cmd \in [Cmds -> CommandType]
  BY DEF ClaimInv, TypeOK, CommandType
<1>3. /\ cmd' \in [Cmds -> CommandType]
      /\ cmd'[k].op = cmd[k].op /\ cmd'[k].step = cmd[k].step /\ cmd'[k].child = cmd[k].child /\ ~cmd'[k].rest
      /\ \A j \in Cmds \ {k} : cmd'[j] = cmd[j]
  BY <1>1, <1>2 DEF CommandType
<1>4. TypeOK'
  BY <1>1, <1>3 DEF ClaimInv, TypeOK, CommandType
<1>5. Sane'
  BY <1>1, <1>3 DEF ClaimInv, Sane
<1>6. Held'
  <2>1. \A j \in Cmds : cmd'[j].op = cmd[j].op /\ cmd'[j].step = cmd[j].step
    BY <1>3
  <2>2. QED
    BY <1>1, <2>1 DEF ClaimInv, Held, OpAlive
<1>7. Copies'
  <2>1. \A m \in Ops : Counted(m)' = Counted(m)
    BY <1>1, <1>3 DEF Counted
  <2>2. \A j \in Cmds : cmd'[j].step \in {"spawned", "recorded"} => j \in op'[cmd'[j].op].rec.children
    BY <1>1, <1>3 DEF ClaimInv, Copies
  <2>3. \A j \in Cmds : (cmd[j].rest /\ (OpAlive(cmd[j].op) \/ cmd[j].step \in {"closed", "done"})
                            => op[cmd[j].op].rec.unknown)'
    BY <1>1, <1>3 DEF ClaimInv, Copies, OpAlive
  <2>4. QED
    BY <1>1, <2>1, <2>2, <2>3 DEF ClaimInv, Copies
<1>8. Disk'
  BY <1>1, <1>3 DEF ClaimInv, Disk, Risky, Settled
<1>9. LiveIsClaimed'
  BY <1>1, <1>3 DEF ClaimInv, LiveIsClaimed, Live, Of
<1>10. QED
  BY <1>4, <1>5, <1>6, <1>7, <1>8, <1>9 DEF ClaimInv

-----------------------------------------------------------------------------
(* A crash, and the theorem. *)

LEMMA CrashInv ==
  ASSUME ClaimInv, NEW p \in Procs, Crash(p)
  PROVE  ClaimInv'
<1> USE ConstantsAssumption
<1>1. /\ alive' = alive \ {p} /\ lease' = (IF lease # 0 /\ op[lease].proc = p THEN 0 ELSE lease)
      /\ claim' = claim /\ record' = record /\ faults' = faults
  BY DEF Crash
<1>2. PICK dies \in SUBSET {k \in Cmds : cmd[k].child = "runs"}, rest \in BOOLEAN :
         /\ \A k \in dies : op[cmd[k].op].proc = p
         /\ cmd' = [k \in Cmds |-> IF k \in dies THEN [cmd[k] EXCEPT !.child = "exited", !.rest = rest]
                                               ELSE cmd[k]]
  BY DEF Crash, Of
<1>3. cmd \in [Cmds -> CommandType] /\ op \in [Ops -> OpType]
  BY DEF ClaimInv, TypeOK, CommandType, OpType
<1>4. /\ cmd' \in [Cmds -> CommandType]
      /\ \A k \in dies : /\ k \in Cmds /\ cmd[k].child = "runs" /\ cmd'[k].child = "exited"
                         /\ cmd'[k].op = cmd[k].op /\ cmd'[k].step = cmd[k].step
      /\ \A k \in Cmds \ dies : cmd'[k] = cmd[k]
  BY <1>2, <1>3 DEF CommandType
<1>5. /\ op' \in [Ops -> OpType]
      /\ \A o \in Ops : /\ op'[o].proc = op[o].proc /\ op'[o].rec = op[o].rec
                        /\ op'[o].step = IF op[o].proc = p /\ op[o].step # "none" THEN "done" ELSE op[o].step
  <2>1. op' = [o \in Ops |-> IF op[o].proc = p /\ op[o].step # "none" THEN [op[o] EXCEPT !.step = "done"] ELSE op[o]]
    BY DEF Crash
  <2>2. QED
    BY <1>3, <2>1 DEF OpType, Steps
<1>6. \A k \in Cmds : cmd'[k].op = cmd[k].op /\ cmd'[k].step = cmd[k].step
  BY <1>4
<1>7. \A k \in dies : cmd[k].step \in {"spawned", "recorded"} /\ cmd[k].op \in Ops /\ op'[cmd[k].op].step = "done"
  <2>1. \A k \in dies : cmd[k].step \in {"spawned", "recorded"} /\ cmd[k].op \in Ops /\ op[cmd[k].op].step # "none"
    BY <1>4 DEF ClaimInv, Sane
  <2>2. QED
    BY <1>2, <1>5, <2>1
<1>8. TypeOK'
  BY <1>1, <1>4, <1>5 DEF ClaimInv, TypeOK, CommandType, OpType
<1>9. Sane'
  <2>1. \A o \in Ops : op[o].step # "none" => op'[o].step # "none"
    BY <1>5
  <2>2. \A k \in dies : cmd'[k].child = "exited" /\ cmd'[k].step \notin {"none", "starting", "launch"}
    BY <1>4, <1>7
  <2>3. QED
    BY <1>4, <1>6, <2>1, <2>2 DEF ClaimInv, Sane
<1>10. Held'
  <2>1. \A o \in Ops : op'[o].step # "done" => op'[o].step = op[o].step /\ (op[o].step = "none" \/ op[o].proc # p)
    BY <1>5
  <2>2. \A o \in Ops : (OpAlive(o) => lease = o /\ op[o].proc \in alive /\ record.token = o /\ op[o].rec.token = o)'
    BY <1>1, <1>5, <2>1 DEF ClaimInv, Held, OpAlive
  <2>3. QED
    BY <1>1, <1>6, <2>1, <2>2 DEF ClaimInv, Held
<1>11. Copies'
  <2>1. \A m \in Ops : Counted(m)' = Counted(m)
    BY <1>4 DEF Counted
  <2>2. \A m \in Ops : op'[m].rec.starting = Cardinality(Counted(m)')
    BY <1>5, <2>1 DEF ClaimInv, Copies
  <2>3. \A k \in Cmds : cmd[k].step # "none" => cmd[k].op \in Ops
    BY DEF ClaimInv, Sane
  <2>4. \A k \in Cmds : cmd'[k].step \in {"spawned", "recorded"} => k \in op'[cmd'[k].op].rec.children
    BY <1>5, <1>6, <2>3 DEF ClaimInv, Copies
  <2>5. \A k \in Cmds : cmd[k].rest => cmd[k].step # "none"
    BY DEF ClaimInv, Sane
  <2>6. \A m \in Ops : OpAlive(m)' => OpAlive(m)
    BY <1>5 DEF OpAlive
  <2>7. \A k \in Cmds \ dies : (cmd[k].rest /\ (OpAlive(cmd[k].op) \/ cmd[k].step \in {"closed", "done"})
                                 => op[cmd[k].op].rec.unknown)'
    BY <1>4, <1>5, <2>3, <2>5, <2>6 DEF ClaimInv, Copies, OpAlive
  <2>8. \A k \in dies : (~OpAlive(cmd[k].op) /\ cmd[k].step \notin {"closed", "done"})'
    BY <1>4, <1>7 DEF OpAlive
  <2>9. QED
    BY <2>2, <2>4, <2>7, <2>8 DEF Copies
<1>12. Disk'
  <2>1. \A k \in Cmds : Risky(k)' => Risky(k)
    BY <1>4, <1>7 DEF Risky
  <2>2. QED
    BY <1>1, <1>6, <2>1 DEF ClaimInv, Disk, Settled
<1>13. LiveIsClaimed'
  <2>1. \A k \in Cmds : Live(k)' => Live(k)
    BY <1>4 DEF Live
  <2>2. QED
    BY <1>1, <1>6, <2>1 DEF ClaimInv, LiveIsClaimed, Of
<1>14. QED
  BY <1>8, <1>9, <1>10, <1>11, <1>12, <1>13 DEF ClaimInv

LEMMA StepInv == ClaimInv /\ [Next]_vars => ClaimInv'
<1> SUFFICES ASSUME ClaimInv, [Next]_vars PROVE ClaimInv'
  OBVIOUS
<1>1. CASE \E o \in Ops : Work(o)
  BY <1>1, OpenInv, CreateClaimInv, WriteTokenInv, FinishInv, ReleaseInv DEF Work
<1>2. CASE \E k \in Cmds : Step(k)
  BY <1>2, RecordInv, SpawnInv, LaunchFailsInv, CloseInv DEF Step
<1>3. CASE \E k \in Cmds : RestEnds(k)
  BY <1>3, RestEndsInv
<1>4. CASE \E k \in Cmds, o \in Ops : Command(k, o)
  BY <1>4, CommandInv
<1>5. CASE \E k \in Cmds, killed \in BOOLEAN : Ends(k, killed)
  BY <1>5, EndsInv
<1>6. CASE \E p \in Procs : Crash(p)
  BY <1>6, CrashInv
<1>7. CASE UNCHANGED vars
  BY <1>7 DEF vars, ClaimInv, TypeOK, Sane, Held, Copies, Disk, LiveIsClaimed, OpAlive, Counted, Risky, Settled, Live, Of
<1>8. QED
  BY <1>1, <1>2, <1>3, <1>4, <1>5, <1>6, <1>7 DEF Next

\* The claim on a worktree does what it is for (RestoreOperationLease, its record
\* and releaseRestoreClaim): whatever dies, is killed, aborts or cannot be written,
\* and however many daemons compete, a claim stands as long as a git process of its
\* operation, or a descendant of one, can still write, so two operations never
\* write together.
THEOREM ClaimCorrect == Spec => []ClaimGuards
<1>1. ClaimInv => ClaimGuards
  BY DEF ClaimInv, ClaimGuards, LiveIsClaimed, Exclusive
<1>2. QED
  BY <1>1, InitInv, StepInv, PTL DEF Spec

-----------------------------------------------------------------------------
(* The worktrees of session.create and session.fork                          *)
(*                                                                           *)
(* The theorems below are about SessionCreation, for every set of sessions,  *)
(* forks and process ids, and every bound.  What the runs check is not       *)
(* inductive by itself: a git run, a handler and a save that are under way   *)
(* carry what they read when they began.  Progress ties the git run to its   *)
(* handler and to the pending intent, Saved ties the copy being written to   *)
(* the live snapshot, and Recorded has the properties themselves.            *)

\* The handler of a session and its git run.
Progress(s) ==
  /\ git[s] = "creating" <=> handler[s] \in {"creating", "late"}
  /\ handler[s] \in {"threading", "persisting", "saving"} => git[s] = "idle"
  /\ handler[s] \in {"threading", "saving"} => tree[s] = "whole" /\ mem[s] = "none"
  /\ git[s] # "idle" => intent[s] # Creation!NoIntent /\ mem[s] = "none"
  /\ git[s] = "removing" => intent[s].cleanup
  /\ phase # "up" => git[s] = "idle" /\ handler[s] = "none"

\* What the running save holds of a session.
Saved(s) ==
  write # Creation!NoWrite =>
    /\ s = write.of => handler[s] = "saving" /\ write.copy[s] = "usable"
    /\ s # write.of => write.copy[s] \in {"none", mem[s]}
    /\ s \notin raced /\ mem[s] # "none" => write.copy[s] # "none"

\* A session, its saved form, its intent and its worktree.
Recorded(s) ==
  /\ (mem[s] = "usable" \/ disk[s] = "usable") => tree[s] = "whole"
  /\ intent[s].receipt /\ ~intent[s].cleanup => tree[s] = "whole"
  /\ s \notin raced => Creation!Evidence(s)
  /\ phase # "down" => disk[s] \in {"none", mem[s]}

Sound(s) == Progress(s) /\ Saved(s) /\ Recorded(s)

CreationInv ==
  /\ Creation!TypeOK
  /\ phase # "up" => write = Creation!NoWrite
  /\ \A s \in Sessions : Sound(s)

Intents == {Creation!NoIntent} \cup [owner : Pids, receipt : BOOLEAN, cleanup : BOOLEAN]

PendingIntents == {s \in Sessions : intent[s] # Creation!NoIntent}

-----------------------------------------------------------------------------
(* Types. *)

\* The cardinality that the instance defines is the one of the facts about sets.
LEMMA CreationCounts ==
  /\ \A S : Creation!IsFiniteSet(S) <=> IsFiniteSet(S)
  /\ \A S : Creation!Cardinality(S) = Cardinality(S)
<1>1. \A S : Creation!IsFiniteSet(S) <=> IsFiniteSet(S)
  BY DEF IsFiniteSet, Creation!IsFiniteSet
<1>2. \A S : Creation!Cardinality(S) = Cardinality(S)
  BY DEF Cardinality, Creation!Cardinality
<1>3. QED
  BY <1>1, <1>2

LEMMA CreationPendingFinite == IsFiniteSet(PendingIntents) /\ Cardinality(PendingIntents) \in Nat
<1>1. PendingIntents \subseteq Sessions /\ IsFiniteSet(Sessions)
  BY CreationAssumption, CreationCounts DEF Creation!ConstantsAssumption, PendingIntents
<1>2. QED
  BY <1>1, FS_Subset, FS_CardinalityType

\* No intent is added: the bound of pending ones is kept.
LEMMA CreationPendingShrinks ==
  ASSUME Creation!TypeOK,
     \A s \in Sessions : intent'[s] # Creation!NoIntent => intent[s] # Creation!NoIntent
  PROVE  Cardinality(PendingIntents') <= MaxPending
<1>1. PendingIntents' \subseteq PendingIntents
  BY DEF PendingIntents
<1>2. IsFiniteSet(PendingIntents) /\ Cardinality(PendingIntents) \in Nat /\ Cardinality(PendingIntents) <= MaxPending
  BY CreationPendingFinite, CreationCounts DEF Creation!TypeOK, PendingIntents
<1>3. Cardinality(PendingIntents') <= Cardinality(PendingIntents) /\ Cardinality(PendingIntents') \in Nat
  BY <1>1, <1>2, FS_Subset, FS_CardinalityType
<1>4. QED
  BY CreationAssumption, <1>2, <1>3 DEF Creation!ConstantsAssumption

\* One is added, below the bound.
LEMMA CreationPendingGrows ==
  ASSUME Creation!Admits, NEW s \in Sessions,
     \A t \in Sessions \ {s} : intent'[t] = intent[t]
  PROVE  Cardinality(PendingIntents') <= MaxPending
<1>1. PendingIntents' \subseteq PendingIntents \cup {s}
  BY DEF PendingIntents
<1>2. /\ IsFiniteSet(PendingIntents) /\ Cardinality(PendingIntents) \in Nat
      /\ Cardinality(PendingIntents) < MaxPending /\ MaxPending \in Nat
  BY CreationAssumption, CreationPendingFinite, CreationCounts DEF Creation!ConstantsAssumption, Creation!Admits, PendingIntents
<1>3. /\ IsFiniteSet(PendingIntents \cup {s})
      /\ Cardinality(PendingIntents \cup {s}) \in {Cardinality(PendingIntents), Cardinality(PendingIntents) + 1}
  BY <1>2, FS_AddElement
<1>4. Cardinality(PendingIntents') <= Cardinality(PendingIntents \cup {s}) /\ Cardinality(PendingIntents') \in Nat
  BY <1>1, <1>3, FS_Subset, FS_CardinalityType
<1>5. QED
  BY <1>2, <1>3, <1>4

LEMMA CreationFailType ==
  ASSUME Creation!TypeOK, NEW n \in Nat, Creation!Fail(n)
  PROVE  failed' \in 0 .. MaxFailures
BY CreationAssumption DEF Creation!ConstantsAssumption, Creation!TypeOK, Creation!Fail

\* An intent, its receipt written or its removal recorded.
LEMMA CreationIntentFields ==
  ASSUME NEW i \in Intents, i # Creation!NoIntent
  PROVE  /\ \A b \in BOOLEAN :
               /\ [i EXCEPT !.receipt = b] \in Intents /\ [i EXCEPT !.receipt = b] # Creation!NoIntent
               /\ [i EXCEPT !.receipt = b].cleanup = i.cleanup
         /\ Creation!CleanupRecorded(i) \in Intents /\ Creation!CleanupRecorded(i) # Creation!NoIntent
         /\ Creation!CleanupRecorded(i).cleanup
BY CreationAssumption DEF Creation!ConstantsAssumption, Intents, Creation!NoIntent, Creation!CleanupRecorded

-----------------------------------------------------------------------------
(* The steps. *)

\* A step of one session.
LEMMA CreationOneSession ==
  ASSUME CreationInv, NEW s \in Sessions, Creation!TypeOK',
     UNCHANGED <<phase, disk, write>>,
         \A t \in Sessions \ {s} : /\ mem'[t] = mem[t] /\ intent'[t] = intent[t]
                                   /\ tree'[t] = tree[t] /\ git'[t] = git[t] /\ handler'[t] = handler[t]
                                   /\ t \in raced <=> t \in raced',
         Sound(s)'
  PROVE  CreationInv'
<1>1. ASSUME NEW t \in Sessions \ {s} PROVE Sound(t)'
  <2>1. Sound(t)
    BY <1>1 DEF CreationInv
  <2>2. /\ mem'[t] = mem[t] /\ intent'[t] = intent[t] /\ tree'[t] = tree[t]
        /\ git'[t] = git[t] /\ handler'[t] = handler[t] /\ (t \in raced <=> t \in raced')
    BY <1>1
  <2>3. Progress(t)'
    BY <2>1, <2>2 DEF Sound, Progress
  <2>4. Saved(t)'
    BY <2>1, <2>2 DEF Sound, Saved
  <2>5. Recorded(t)'
    BY <2>1, <2>2 DEF Sound, Recorded, Creation!Evidence
  <2>6. QED
    BY <2>3, <2>4, <2>5 DEF Sound
<1>2. QED
  BY <1>1 DEF CreationInv

LEMMA CreationBeginInv ==
  ASSUME CreationInv, NEW s \in Sessions, Creation!Begin(s)
  PROVE  CreationInv'
<1> DEFINE i == [owner |-> pid, receipt |-> FALSE, cleanup |-> FALSE]
<1>1. Creation!TypeOK /\ Sound(s) /\ intent \in [Sessions -> Intents]
  BY DEF CreationInv, Creation!TypeOK, Intents
<1>2. i \in Intents /\ i # Creation!NoIntent /\ ~i.receipt
  BY CreationAssumption, <1>1 DEF Creation!ConstantsAssumption, Creation!TypeOK, Intents, Creation!NoIntent
<1>3. /\ phase = "up" /\ mem[s] = "none" /\ intent[s] = Creation!NoIntent /\ Creation!Admits /\ handler[s] \in {"none", "late"}
      /\ intent' = [intent EXCEPT ![s] = i] /\ git' = [git EXCEPT ![s] = "creating"]
      /\ handler' = [handler EXCEPT ![s] = "creating"]
      /\ UNCHANGED <<phase, pid, taken, mem, disk, tree, write, pending, raced, failed, crashes>>
      /\ used' \subseteq Sessions
  BY <1>1 DEF Creation!Begin, Creation!Running, Creation!TypeOK
<1> HIDE DEF i
<1>4. Creation!TypeOK'
  <2>1. intent' \in [Sessions -> Intents]
    BY <1>1, <1>2, <1>3
  <2>2. Cardinality(PendingIntents') <= MaxPending
    BY <1>1, <1>3, CreationPendingGrows
  <2>3. QED
    BY <1>1, <1>3, <2>1, <2>2, CreationCounts DEF Creation!TypeOK, Intents, PendingIntents
<1>5. Sound(s)'
  <2>1. intent'[s] = i /\ git'[s] = "creating" /\ handler'[s] = "creating"
    BY <1>1, <1>3 DEF Creation!TypeOK
  <2>2. QED
    BY <1>1, <1>2, <1>3, <2>1 DEF Sound, Progress, Saved, Recorded, Creation!Evidence
<1>6. QED
  BY <1>1, <1>3, <1>4, <1>5, CreationOneSession DEF Creation!TypeOK

LEMMA CreationTimeOutInv ==
  ASSUME CreationInv, NEW s \in Sessions, Creation!TimeOut(s)
  PROVE  CreationInv'
<1>1. Creation!TypeOK /\ Sound(s)
  BY DEF CreationInv
<1>2. /\ handler[s] = "creating" /\ handler' = [handler EXCEPT ![s] = "late"] /\ handler'[s] = "late"
      /\ UNCHANGED <<phase, pid, taken, mem, disk, intent, tree, git, write, pending, used, raced,
                     failed, crashes>>
  BY <1>1 DEF Creation!TimeOut, Creation!TypeOK
<1>3. Creation!TypeOK'
  BY <1>1, <1>2 DEF Creation!TypeOK
<1>4. Sound(s)'
  BY <1>1, <1>2 DEF Sound, Progress, Saved, Recorded, Creation!Evidence
<1>5. QED
  BY <1>1, <1>2, <1>3, <1>4, CreationOneSession DEF Creation!TypeOK

LEMMA CreationGitCreatedInv ==
  ASSUME CreationInv, NEW s \in Sessions, Creation!GitCreated(s)
  PROVE  CreationInv'
<1>1. Creation!TypeOK /\ Sound(s) /\ intent \in [Sessions -> Intents] /\ intent[s] \in Intents
  BY DEF CreationInv, Creation!TypeOK, Intents
<1>2. /\ git[s] = "creating" /\ tree' = [tree EXCEPT ![s] = "whole"]
      /\ UNCHANGED <<phase, pid, taken, mem, disk, write, pending, used, raced, crashes>>
      /\ intent[s] # Creation!NoIntent /\ mem[s] = "none" /\ handler[s] \in {"creating", "late"}
  BY <1>1 DEF Creation!GitCreated, Sound, Progress
<1>3. PICK receipt \in BOOLEAN, recorded \in BOOLEAN :
        LET cleans == handler[s] = "late" \/ ~receipt
            completed == [intent[s] EXCEPT !.receipt = receipt] IN
        /\ ~cleans => recorded
        /\ Creation!Fail(Creation!Cost(receipt) + Creation!Cost(recorded))
        /\ intent' = [intent EXCEPT ![s] = IF cleans /\ recorded THEN Creation!CleanupRecorded(completed)
                                                                 ELSE completed]
        /\ git' = [git EXCEPT ![s] = IF cleans /\ recorded THEN "removing" ELSE "idle"]
        /\ handler' = [handler EXCEPT ![s] = IF cleans THEN "none" ELSE "threading"]
  BY DEF Creation!GitCreated
<1> DEFINE completed == [intent[s] EXCEPT !.receipt = receipt]
<1>4. /\ completed \in Intents /\ completed # Creation!NoIntent
      /\ Creation!CleanupRecorded(completed) \in Intents /\ Creation!CleanupRecorded(completed) # Creation!NoIntent
      /\ Creation!CleanupRecorded(completed).cleanup
  <2>1. completed \in Intents /\ completed # Creation!NoIntent
    BY <1>1, <1>2, CreationIntentFields
  <2>2. QED
    BY <2>1, CreationIntentFields
<1>5. PICK i \in Intents, g \in {"removing", "idle"}, o \in {"none", "threading"} :
        /\ intent' = [intent EXCEPT ![s] = i] /\ git' = [git EXCEPT ![s] = g]
        /\ handler' = [handler EXCEPT ![s] = o]
        /\ i # Creation!NoIntent
        /\ g = "removing" => i.cleanup
        /\ o = "threading" => g = "idle"
  <2>1. CASE (handler[s] = "late" \/ ~receipt) /\ recorded
    BY <1>3, <1>4, <2>1
  <2>2. CASE (handler[s] = "late" \/ ~receipt) /\ ~recorded
    BY <1>3, <1>4, <2>2
  <2>3. CASE ~(handler[s] = "late" \/ ~receipt)
    BY <1>3, <1>4, <2>3
  <2>4. QED
    BY <2>1, <2>2, <2>3
<1>6. failed' \in 0 .. MaxFailures
  <2>1. Creation!Cost(receipt) + Creation!Cost(recorded) \in Nat /\ Creation!Fail(Creation!Cost(receipt) + Creation!Cost(recorded))
    BY <1>3 DEF Creation!Cost
  <2>2. QED
    BY <1>1, <2>1, CreationFailType
<1>7. Creation!TypeOK'
  <2>1. intent' \in [Sessions -> Intents]
    BY <1>1, <1>5
  <2>2. Cardinality(PendingIntents') <= MaxPending
    BY <1>1, <1>2, <1>5, CreationPendingShrinks
  <2>3. QED
    BY <1>1, <1>2, <1>5, <1>6, <2>1, <2>2, CreationCounts DEF Creation!TypeOK, Intents, PendingIntents
<1>8. /\ intent'[s] = i /\ git'[s] = g /\ handler'[s] = o /\ tree'[s] = "whole"
  BY <1>1, <1>2, <1>5 DEF Creation!TypeOK
<1>9. phase = "up"
  BY <1>1, <1>2 DEF Sound, Progress
<1>10. s # write.of \/ write = Creation!NoWrite
  BY <1>1, <1>2 DEF Sound, Saved
<1>11. Sound(s)'
  BY <1>1, <1>2, <1>5, <1>8, <1>9, <1>10 DEF Sound, Progress, Saved, Recorded, Creation!Evidence
<1>12. QED
  BY <1>1, <1>2, <1>5, <1>7, <1>11, CreationOneSession DEF Creation!TypeOK

LEMMA CreationGitFailedInv ==
  ASSUME CreationInv, NEW s \in Sessions,
     Creation!GitFailed(s) \/ Creation!FilterRefused(s)
  PROVE  CreationInv'
<1>1. Creation!TypeOK /\ Sound(s) /\ intent \in [Sessions -> Intents]
  BY DEF CreationInv, Creation!TypeOK, Intents
<1>2. PICK left \in {"none", "partial", "whole"}, i \in {Creation!NoIntent, intent[s]} :
        /\ git[s] = "creating" /\ git' = [git EXCEPT ![s] = "idle"]
        /\ handler' = [handler EXCEPT ![s] = "none"] /\ tree' = [tree EXCEPT ![s] = left]
        /\ intent' = [intent EXCEPT ![s] = i]
        /\ UNCHANGED <<phase, pid, taken, mem, disk, write, pending, used, raced, failed, crashes>>
        /\ tree[s] = "whole" => left = "whole"
        /\ i = Creation!NoIntent => left = "none"
  <2>1. CASE Creation!GitFailed(s)
    <3>1. PICK left \in IF tree[s] = "none" THEN {"none", "partial"} ELSE {tree[s]} :
             tree' = [tree EXCEPT ![s] = left]
      BY <2>1 DEF Creation!GitFailed
    <3>2. left \in {"none", "partial", "whole"} /\ (tree[s] = "whole" => left = "whole")
      BY <1>1, <3>1 DEF Creation!TypeOK
    <3>3. intent' = [intent EXCEPT ![s] = intent[s]] /\ intent[s] # Creation!NoIntent
      BY <1>1, <2>1 DEF Creation!GitFailed, Sound, Progress
    <3>4. QED
      BY <2>1, <3>1, <3>2, <3>3 DEF Creation!GitFailed
  <2>2. CASE Creation!FilterRefused(s)
    <3>1. tree' = [tree EXCEPT ![s] = "none"] /\ tree[s] = "none"
      BY <1>1, <2>2 DEF Creation!FilterRefused, Creation!TypeOK
    <3>2. QED
      BY <2>2, <3>1 DEF Creation!FilterRefused
  <2>3. QED
    BY <2>1, <2>2
<1>3. i \in Intents /\ intent[s] # Creation!NoIntent /\ mem[s] = "none" /\ phase = "up"
  BY <1>1, <1>2 DEF Intents, Sound, Progress
<1>4. Creation!TypeOK'
  <2>1. intent' \in [Sessions -> Intents]
    BY <1>1, <1>2, <1>3
  <2>2. Cardinality(PendingIntents') <= MaxPending
    BY <1>1, <1>2, <1>3, CreationPendingShrinks
  <2>3. QED
    BY <1>1, <1>2, <2>1, <2>2, CreationCounts DEF Creation!TypeOK, Intents, PendingIntents
<1>5. intent'[s] = i /\ git'[s] = "idle" /\ handler'[s] = "none" /\ tree'[s] = left
  BY <1>1, <1>2 DEF Creation!TypeOK
<1>6. s # write.of \/ write = Creation!NoWrite
  BY <1>1, <1>2 DEF Sound, Progress, Saved
<1>7. disk[s] = "none" /\ ~Creation!NoIntent.receipt
  BY <1>1, <1>3 DEF Sound, Recorded, Creation!NoIntent
<1>8. Sound(s)'
  BY <1>1, <1>2, <1>3, <1>5, <1>6, <1>7 DEF Sound, Progress, Saved, Recorded, Creation!Evidence
<1>9. QED
  BY <1>1, <1>2, <1>4, <1>8, CreationOneSession DEF Creation!TypeOK

LEMMA CreationThreadedInv ==
  ASSUME CreationInv, NEW s \in Sessions, Creation!Threaded(s)
  PROVE  CreationInv'
<1>1. Creation!TypeOK /\ Sound(s)
  BY DEF CreationInv
<1>2. /\ handler[s] = "threading" /\ tree[s] = "whole" /\ mem[s] = "none" /\ git[s] = "idle"
      /\ phase = "up"
      /\ UNCHANGED <<phase, pid, taken, disk, intent, tree, git, write, used, failed, crashes>>
  BY <1>1 DEF Creation!Threaded, Sound, Progress
<1>3. s # write.of \/ write = Creation!NoWrite
  BY <1>1, <1>2 DEF Sound, Saved
<1>4. CASE s \in Forks
  <2>1. handler' = [handler EXCEPT ![s] = "saving"] /\ handler'[s] = "saving" /\ UNCHANGED <<mem, pending, raced>>
    BY <1>1, <1>4 DEF Creation!Threaded, Creation!TypeOK
  <2>2. Creation!TypeOK'
    BY <1>1, <1>2, <2>1 DEF Creation!TypeOK
  <2>3. Sound(s)'
    BY <1>1, <1>2, <1>3, <2>1 DEF Sound, Progress, Saved, Recorded, Creation!Evidence
  <2>4. QED
    BY <1>1, <1>2, <2>1, <2>2, <2>3, CreationOneSession DEF Creation!TypeOK
<1>5. CASE s \notin Forks
  <2>1. /\ handler' = [handler EXCEPT ![s] = "persisting"] /\ handler'[s] = "persisting"
        /\ mem' = [mem EXCEPT ![s] = "usable"] /\ mem'[s] = "usable"
        /\ pending' = TRUE
        /\ raced' = IF write = Creation!NoWrite THEN raced ELSE raced \cup {s}
    BY <1>1, <1>5 DEF Creation!Threaded, Creation!TypeOK, Creation!Published
  <2>2. Creation!TypeOK'
    BY <1>1, <1>2, <2>1 DEF Creation!TypeOK, Creation!Published
  <2>3. Sound(s)'
    BY <1>1, <1>2, <1>3, <2>1 DEF Sound, Progress, Saved, Recorded, Creation!Evidence
  <2>4. \A t \in Sessions \ {s} : /\ mem'[t] = mem[t] /\ handler'[t] = handler[t]
                                  /\ t \in raced <=> t \in raced'
    BY <1>1, <2>1 DEF Creation!TypeOK
  <2>5. QED
    BY <1>1, <1>2, <2>2, <2>3, <2>4, CreationOneSession
<1>6. QED
  BY <1>4, <1>5

LEMMA CreationThreadFailedInv ==
  ASSUME CreationInv, NEW s \in Sessions, Creation!ThreadFailed(s)
  PROVE  CreationInv'
<1>1. Creation!TypeOK /\ Sound(s) /\ intent \in [Sessions -> Intents] /\ intent[s] \in Intents
  BY DEF CreationInv, Creation!TypeOK, Intents
<1>2. /\ handler[s] = "threading" /\ tree[s] = "whole" /\ mem[s] = "none" /\ git[s] = "idle"
      /\ phase = "up" /\ handler' = [handler EXCEPT ![s] = "none"] /\ handler'[s] = "none"
      /\ UNCHANGED <<phase, pid, taken, mem, disk, tree, write, pending, used, raced, crashes>>
  BY <1>1 DEF Creation!ThreadFailed, Creation!Remove, Sound, Progress, Creation!TypeOK
<1>3. s # write.of \/ write = Creation!NoWrite
  BY <1>1, <1>2 DEF Sound, Saved
<1>4. CASE /\ intent[s] # Creation!NoIntent /\ failed' = failed
           /\ intent' = [intent EXCEPT ![s] = Creation!CleanupRecorded(@)]
           /\ git' = [git EXCEPT ![s] = "removing"]
  <2> DEFINE i == Creation!CleanupRecorded(intent[s])
  <2>1. i \in Intents /\ i # Creation!NoIntent /\ i.cleanup
    BY <1>1, <1>4, CreationIntentFields
  <2>2. intent' = [intent EXCEPT ![s] = i] /\ intent'[s] = i /\ git'[s] = "removing"
    BY <1>1, <1>4 DEF Creation!TypeOK
  <2> HIDE DEF i
  <2>3. intent' \in [Sessions -> Intents]
    BY <1>1, <2>1, <2>2
  <2>4. Cardinality(PendingIntents') <= MaxPending
    BY <1>1, <1>4, <2>2, CreationPendingShrinks
  <2>5. Creation!TypeOK'
    BY <1>1, <1>2, <1>4, <2>3, <2>4, CreationCounts DEF Creation!TypeOK, Intents, PendingIntents
  <2>6. Sound(s)'
    BY <1>1, <1>2, <1>3, <2>1, <2>2 DEF Sound, Progress, Saved, Recorded, Creation!Evidence
  <2>7. QED
    BY <1>1, <1>2, <1>4, <2>2, <2>5, <2>6, CreationOneSession DEF Creation!TypeOK
<1>5. CASE Creation!Fail(1) /\ UNCHANGED <<intent, git>>
  <2>1. failed' \in 0 .. MaxFailures
    BY <1>1, <1>5, CreationFailType
  <2>2. Creation!TypeOK'
    BY <1>1, <1>2, <1>5, <2>1 DEF Creation!TypeOK
  <2>3. Sound(s)'
    BY <1>1, <1>2, <1>3, <1>5 DEF Sound, Progress, Saved, Recorded, Creation!Evidence
  <2>4. QED
    BY <1>1, <1>2, <1>5, <2>2, <2>3, CreationOneSession DEF Creation!TypeOK
<1>6. QED
  BY <1>4, <1>5 DEF Creation!ThreadFailed, Creation!Remove

LEMMA CreationRemoveEndsInv ==
  ASSUME CreationInv, NEW s \in Sessions, Creation!RemoveEnds(s)
  PROVE  CreationInv'
<1>1. Creation!TypeOK /\ Sound(s) /\ intent \in [Sessions -> Intents] /\ intent[s] \in Intents
  BY DEF CreationInv, Creation!TypeOK, Intents
<1>2. /\ git[s] = "removing" /\ git' = [git EXCEPT ![s] = "idle"] /\ git'[s] = "idle"
      /\ UNCHANGED <<phase, pid, taken, mem, disk, handler, write, pending, used, raced, crashes>>
      /\ mem[s] = "none" /\ intent[s] # Creation!NoIntent /\ intent[s].cleanup /\ phase = "up"
      /\ handler[s] = "none" /\ disk[s] = "none"
  BY <1>1 DEF Creation!RemoveEnds, Sound, Progress, Recorded, Creation!TypeOK
<1>3. failed' \in 0 .. MaxFailures
  BY <1>1, CreationFailType DEF Creation!RemoveEnds, Creation!TypeOK
<1>4. PICK left \in {"none", "partial", "whole"}, i \in {Creation!NoIntent, intent[s]} :
        /\ tree' = [tree EXCEPT ![s] = left] /\ intent' = [intent EXCEPT ![s] = i]
        /\ i = Creation!NoIntent => left = "none"
  <2>1. intent = [intent EXCEPT ![s] = intent[s]]
    BY <1>1
  <2>2. QED
    BY <1>2, <2>1 DEF Creation!RemoveEnds
<1>5. i \in Intents /\ intent'[s] = i /\ tree'[s] = left
  BY <1>1, <1>4 DEF Intents, Creation!TypeOK
<1>6. Creation!TypeOK'
  <2>1. intent' \in [Sessions -> Intents]
    BY <1>1, <1>4, <1>5
  <2>2. Cardinality(PendingIntents') <= MaxPending
    BY <1>1, <1>2, <1>4, CreationPendingShrinks
  <2>3. QED
    BY <1>1, <1>2, <1>3, <1>4, <2>1, <2>2, CreationCounts DEF Creation!TypeOK, Intents, PendingIntents
<1>7. ~Creation!NoIntent.receipt
  BY DEF Creation!NoIntent
<1>8. Sound(s)'
  BY <1>1, <1>2, <1>4, <1>5, <1>7 DEF Sound, Progress, Saved, Recorded, Creation!Evidence
<1>9. QED
  BY <1>1, <1>2, <1>4, <1>6, <1>8, CreationOneSession DEF Creation!TypeOK

LEMMA CreationStartWriteInv ==
  ASSUME CreationInv, Creation!Stream \/ Creation!StartWrite
  PROVE  CreationInv'
<1>1. Creation!TypeOK /\ \A s \in Sessions : Sound(s)
  BY DEF CreationInv
<1>2. /\ phase = "up"
      /\ UNCHANGED <<phase, pid, taken, mem, disk, intent, tree, git, handler, used, raced, failed, crashes>>
  BY DEF Creation!Stream, Creation!StartWrite
<1>3. CASE Creation!Stream
  <2>1. Creation!TypeOK'
    BY <1>1, <1>3 DEF Creation!Stream, Creation!TypeOK
  <2>2. QED
    BY <1>1, <1>2, <1>3, <2>1 DEF CreationInv, Creation!Stream, Sound, Progress, Saved, Recorded,
    Creation!Evidence
<1>4. CASE write' = [copy |-> mem, of |-> "all"] /\ pending' = FALSE
  <2>1. write'.copy = mem /\ write'.of = "all" /\ "all" \notin Sessions
    BY CreationAssumption, <1>4 DEF Creation!ConstantsAssumption
  <2>2. Creation!TypeOK'
    BY <1>1, <1>2, <1>4, <2>1 DEF Creation!TypeOK
  <2>3. \A s \in Sessions : Sound(s)'
    BY <1>1, <1>2, <2>1 DEF Sound, Progress, Saved, Recorded, Creation!Evidence
  <2>4. QED
    BY <1>2, <2>2, <2>3 DEF CreationInv
<1>5. CASE \E s \in Sessions : /\ handler[s] = "saving"
                               /\ write' = [copy |-> [mem EXCEPT ![s] = "usable"], of |-> s]
                               /\ UNCHANGED pending
  <2>1. PICK s \in Sessions : /\ handler[s] = "saving"
                              /\ write' = [copy |-> [mem EXCEPT ![s] = "usable"], of |-> s]
                              /\ UNCHANGED pending
    BY <1>5
  <2>2. /\ write'.copy = [mem EXCEPT ![s] = "usable"] /\ write'.of = s
    BY <2>1
  <2>3. /\ write'.copy \in Creation!Published /\ write'.copy[s] = "usable"
        /\ \A t \in Sessions \ {s} : write'.copy[t] = mem[t]
    BY <1>1, <2>2 DEF Creation!TypeOK, Creation!Published
  <2>4. Creation!TypeOK'
    BY <1>1, <1>2, <2>1, <2>2, <2>3 DEF Creation!TypeOK
  <2>5. ASSUME NEW t \in Sessions PROVE Sound(t)'
    <3>1. Sound(t)
      BY <1>1
    <3>2. Saved(t)'
      BY <1>2, <2>1, <2>2, <2>3 DEF Saved
    <3>3. QED
      BY <1>2, <3>1, <3>2 DEF Sound, Progress, Recorded, Creation!Evidence
  <2>6. QED
    BY <1>2, <2>4, <2>5 DEF CreationInv
<1>6. QED
  BY <1>3, <1>4, <1>5 DEF Creation!StartWrite

\* A save that lands: what it clears from the journal is in what it wrote.
LEMMA CreationWriteLandsInv ==
  ASSUME CreationInv, Creation!WriteLands
  PROVE  CreationInv'
<1>1. Creation!TypeOK /\ (\A s \in Sessions : Sound(s)) /\ intent \in [Sessions -> Intents]
  BY DEF CreationInv, Creation!TypeOK, Intents
<1>2. /\ write # Creation!NoWrite /\ write' = Creation!NoWrite /\ disk' = write.copy /\ phase = "up"
      /\ UNCHANGED <<phase, pid, taken, tree, git, pending, used, raced, crashes>>
  BY DEF Creation!WriteLands, CreationInv
<1>3. /\ mem' \in Creation!Published
      /\ \A s \in Sessions : mem'[s] = IF s = write.of THEN "usable" ELSE mem[s]
  BY <1>1 DEF Creation!WriteLands, Creation!TypeOK, Creation!Published
<1>4. /\ handler' \in [Sessions -> {"none", "creating", "late", "threading", "persisting", "saving"}]
      /\ \A s \in Sessions : handler'[s] = IF s = write.of \/ (handler[s] = "persisting" /\ write.copy[s] # "none")
                                      THEN "none" ELSE handler[s]
  BY <1>1 DEF Creation!WriteLands, Creation!TypeOK
<1>5. /\ intent' \in [Sessions -> Intents] /\ failed' \in 0 .. MaxFailures
      /\ \A s \in Sessions : \/ intent'[s] = intent[s]
                             \/ intent'[s] = Creation!NoIntent /\ mem'[s] # "none"
  <2>1. CASE intent' = Creation!Cleared(mem') /\ UNCHANGED failed
    BY <1>1, <2>1 DEF Creation!Cleared, Intents, Creation!TypeOK
  <2>2. CASE Creation!Fail(1) /\ UNCHANGED intent
    BY <1>1, <2>2, CreationFailType
  <2>3. QED
    BY <2>1, <2>2 DEF Creation!WriteLands, Creation!Clear
<1>6. Creation!TypeOK'
  <2>1. Cardinality(PendingIntents') <= MaxPending
    BY <1>1, <1>5, CreationPendingShrinks
  <2>2. Creation!NoWrite.copy \in Creation!Published /\ Creation!NoWrite.of = "none"
    BY DEF Creation!NoWrite, Creation!Published
  <2>3. QED
    BY <1>1, <1>2, <1>3, <1>4, <1>5, <2>1, <2>2, CreationCounts DEF Creation!TypeOK, Intents, PendingIntents
<1>7. ASSUME NEW s \in Sessions PROVE Sound(s)'
  <2>1. /\ Sound(s) /\ write.copy[s] \in {"none", "usable", "failed"} /\ ~Creation!NoIntent.receipt
        /\ mem[s] \in {"none", "usable", "failed"}
    BY <1>1, <1>7 DEF Creation!TypeOK, Creation!Published, Creation!NoIntent
  <2>2. Progress(s)'
    BY <1>2, <1>3, <1>4, <1>5, <1>7, <2>1 DEF Sound, Progress, Saved
  <2>3. Recorded(s)'
    BY <1>2, <1>3, <1>5, <1>7, <2>1 DEF Sound, Progress, Saved, Recorded, Creation!Evidence
  <2>4. Saved(s)'
    BY <1>2 DEF Saved
  <2>5. QED
    BY <2>2, <2>3, <2>4 DEF Sound
<1>8. QED
  BY <1>2, <1>6, <1>7 DEF CreationInv

LEMMA CreationWriteFailsInv ==
  ASSUME CreationInv, Creation!WriteFails
  PROVE  CreationInv'
<1>1. Creation!TypeOK /\ (\A s \in Sessions : Sound(s)) /\ intent \in [Sessions -> Intents]
  BY DEF CreationInv, Creation!TypeOK, Intents
<1>2. /\ write # Creation!NoWrite /\ write' = Creation!NoWrite /\ phase = "up"
      /\ UNCHANGED <<phase, pid, taken, mem, disk, tree, pending, used, raced, crashes>>
  BY DEF Creation!WriteFails, CreationInv
<1>3. Creation!NoWrite.copy \in Creation!Published /\ Creation!NoWrite.of = "none"
  BY DEF Creation!NoWrite, Creation!Published
<1>4. CASE write.of \in Sessions
  <2>1. PICK w \in Sessions : w = write.of
    BY <1>4
  <2>2. /\ handler[w] = "saving" /\ git[w] = "idle" /\ tree[w] = "whole" /\ mem[w] = "none"
    BY <1>1, <1>2, <2>1 DEF Sound, Saved, Progress
  <2>3. handler' = [handler EXCEPT ![w] = "none"]
    BY <1>4, <2>1 DEF Creation!WriteFails
  <2>4. PICK i \in Intents, g \in {"idle", "removing"} :
          /\ intent' = [intent EXCEPT ![w] = i] /\ git' = [git EXCEPT ![w] = g]
          /\ failed' \in 0 .. MaxFailures
          /\ g = "removing" => i # Creation!NoIntent /\ i.cleanup /\ intent[w] # Creation!NoIntent
          /\ g = "idle" => i = intent[w]
    <3>1. CASE /\ intent[w] # Creation!NoIntent
               /\ intent' = [intent EXCEPT ![w] = Creation!CleanupRecorded(@)]
               /\ git' = [git EXCEPT ![w] = "removing"]
               /\ Creation!Fail(1)
      <4>1. /\ Creation!CleanupRecorded(intent[w]) \in Intents /\ Creation!CleanupRecorded(intent[w]) # Creation!NoIntent
            /\ Creation!CleanupRecorded(intent[w]).cleanup
        BY <1>1, <3>1, CreationIntentFields
      <4>2. intent' = [intent EXCEPT ![w] = Creation!CleanupRecorded(intent[w])] /\ failed' \in 0 .. MaxFailures
        BY <1>1, <3>1, CreationFailType
      <4>3. QED
        BY <3>1, <4>1, <4>2
    <3>2. CASE Creation!Fail(2) /\ UNCHANGED <<intent, git>>
      <4>1. /\ intent' = [intent EXCEPT ![w] = intent[w]] /\ git' = [git EXCEPT ![w] = "idle"]
            /\ intent[w] \in Intents /\ failed' \in 0 .. MaxFailures
        BY <1>1, <2>2, <3>2, CreationFailType DEF Creation!TypeOK
      <4>2. QED
        BY <4>1
    <3>3. QED
      BY <1>4, <2>1, <3>1, <3>2 DEF Creation!WriteFails
  <2>5. Creation!TypeOK'
    <3>1. intent' \in [Sessions -> Intents]
      BY <1>1, <2>4
    <3>2. Cardinality(PendingIntents') <= MaxPending
      BY <1>1, <2>4, CreationPendingShrinks
    <3>3. QED
      BY <1>1, <1>2, <1>3, <2>3, <2>4, <3>1, <3>2, CreationCounts DEF Creation!TypeOK, Intents, PendingIntents
  <2>6. ASSUME NEW s \in Sessions PROVE Sound(s)'
    <3>1. Sound(s)
      BY <1>1, <2>6
    <3>2. /\ handler'[s] = IF s = w THEN "none" ELSE handler[s]
          /\ git'[s] = IF s = w THEN g ELSE git[s]
          /\ intent'[s] = IF s = w THEN i ELSE intent[s]
      BY <1>1, <2>3, <2>4, <2>6 DEF Creation!TypeOK
    <3>3. CASE s = w
      BY <1>2, <2>2, <2>4, <3>1, <3>2, <3>3 DEF Sound, Progress, Saved, Recorded, Creation!Evidence
    <3>4. CASE s # w
      BY <1>2, <3>1, <3>2, <3>4 DEF Sound, Progress, Saved, Recorded, Creation!Evidence
    <3>5. QED
      BY <3>3, <3>4
  <2>7. QED
    BY <1>2, <2>5, <2>6 DEF CreationInv
<1>5. CASE write.of \notin Sessions
  <2>1. /\ handler' = [s \in Sessions |-> IF handler[s] = "persisting" /\ write.copy[s] # "none"
                                     THEN "none" ELSE handler[s]]
        /\ Creation!Fail(1) /\ UNCHANGED <<intent, git>>
    BY <1>5 DEF Creation!WriteFails
  <2>2. Creation!TypeOK'
    <3>1. failed' \in 0 .. MaxFailures
      BY <1>1, <2>1, CreationFailType
    <3>2. QED
      BY <1>1, <1>2, <1>3, <2>1, <3>1 DEF Creation!TypeOK
  <2>3. ASSUME NEW s \in Sessions PROVE Sound(s)'
    <3>1. Sound(s) /\ (handler'[s] = handler[s] \/ (handler[s] = "persisting" /\ handler'[s] = "none"))
      BY <1>1, <2>1, <2>3
    <3>2. QED
      BY <1>2, <2>1, <3>1 DEF Sound, Progress, Saved, Recorded, Creation!Evidence
  <2>4. QED
    BY <1>2, <2>2, <2>3 DEF CreationInv
<1>6. QED
  BY <1>4, <1>5

\* A crash: what git was at keeps its intent, and a save may have landed.
LEMMA CreationCrashInv ==
  ASSUME CreationInv, Creation!Crash
  PROVE  CreationInv'
<1>1. Creation!TypeOK /\ \A s \in Sessions : Sound(s)
  BY DEF CreationInv
<1>2. PICK cut \in [Sessions -> {"none", "partial", "whole"}] :
        tree' = [s \in Sessions |-> IF git[s] = "removing" \/ (git[s] = "creating" /\ tree[s] = "none")
                                    THEN cut[s] ELSE tree[s]]
  BY DEF Creation!Crash
<1>3. /\ phase' = "down" /\ write' = Creation!NoWrite /\ pending' = FALSE
      /\ mem' = [s \in Sessions |-> "none"]
      /\ git' = [s \in Sessions |-> "idle"] /\ handler' = [s \in Sessions |-> "none"]
      /\ UNCHANGED <<pid, intent, used, raced, failed>> /\ taken' = {}
      /\ disk' = disk \/ (write # Creation!NoWrite /\ disk' = write.copy)
      /\ phase # "down" /\ (write # Creation!NoWrite => phase = "up")
  BY DEF Creation!Crash, CreationInv
<1>4. crashes' \in 0 .. MaxCrashes
  BY CreationAssumption, <1>1 DEF Creation!ConstantsAssumption, Creation!Crash, Creation!TypeOK
<1>5. Creation!TypeOK'
  <2>1. Creation!NoWrite.copy \in Creation!Published /\ Creation!NoWrite.of = "none"
    BY DEF Creation!NoWrite, Creation!Published
  <2>2. tree' \in [Sessions -> {"none", "partial", "whole"}] /\ mem' \in Creation!Published /\ disk' \in Creation!Published
    BY <1>1, <1>2, <1>3 DEF Creation!TypeOK, Creation!Published
  <2>3. QED
    BY <1>1, <1>3, <1>4, <2>1, <2>2 DEF Creation!TypeOK
<1>6. ASSUME NEW s \in Sessions PROVE Sound(s)'
  <2>1. Sound(s) /\ git[s] \in {"idle", "creating", "removing"}
    BY <1>1, <1>6 DEF Creation!TypeOK
  <2>2. mem'[s] = "none" /\ git'[s] = "idle" /\ handler'[s] = "none"
    BY <1>3, <1>6
  <2>3. disk'[s] \in {disk[s], write.copy[s]} /\ (write = Creation!NoWrite => disk'[s] = disk[s])
    BY <1>3
  <2>4. Recorded(s)'
    <3>1. CASE git[s] = "removing" \/ (git[s] = "creating" /\ tree[s] = "none")
      <4>1. intent[s] # Creation!NoIntent /\ mem[s] = "none" /\ disk[s] = "none"
        BY <1>3, <2>1, <3>1 DEF Sound, Progress, Recorded
      <4>2. write # Creation!NoWrite => write.copy[s] = "none"
        BY <2>1, <3>1, <4>1 DEF Sound, Progress, Saved
      <4>3. ~(intent[s].receipt /\ ~intent[s].cleanup)
        BY <2>1, <3>1 DEF Sound, Progress, Recorded
      <4>4. QED
        BY <1>3, <2>2, <2>3, <4>1, <4>2, <4>3 DEF Recorded, Creation!Evidence
    <3>2. CASE ~(git[s] = "removing" \/ (git[s] = "creating" /\ tree[s] = "none"))
      <4>1. tree'[s] = tree[s]
        BY <1>2, <1>6, <3>2
      <4>2. write # Creation!NoWrite /\ write.copy[s] = "usable" => tree[s] = "whole"
        BY <2>1 DEF Sound, Progress, Saved, Recorded
      <4>3. write # Creation!NoWrite /\ disk[s] # "none" /\ s \notin raced => write.copy[s] # "none"
        BY <1>3, <2>1 DEF Sound, Saved, Recorded
      <4>4. QED
        BY <1>3, <2>1, <2>2, <2>3, <4>1, <4>2, <4>3 DEF Sound, Recorded, Creation!Evidence
    <3>3. QED
      BY <3>1, <3>2
  <2>5. QED
    BY <1>3, <2>2, <2>4 DEF Sound, Progress, Saved
<1>7. QED
  BY <1>3, <1>5, <1>6 DEF CreationInv

LEMMA CreationRestartInv ==
  ASSUME CreationInv, Creation!Restart
  PROVE  CreationInv'
<1>1. Creation!TypeOK /\ (\A s \in Sessions : Sound(s)) /\ intent \in [Sessions -> Intents]
  BY DEF CreationInv, Creation!TypeOK, Intents
<1>2. /\ phase # "up" /\ write = Creation!NoWrite
      /\ UNCHANGED <<tree, git, handler, write, pending, used, raced, crashes>>
  BY DEF Creation!Restart, Creation!Start, Creation!Recover, CreationInv
<1>3. CASE \E p \in Pids : Creation!Start(p)
  <2>1. /\ phase' = "recovering" /\ mem' = disk /\ pid' \in Pids
        /\ UNCHANGED <<taken, disk, intent, tree, git, handler, write, pending, used, raced, failed, crashes>>
    BY <1>3 DEF Creation!Start
  <2>2. Creation!TypeOK'
    BY <1>1, <2>1 DEF Creation!TypeOK
  <2>3. ASSUME NEW s \in Sessions PROVE Sound(s)'
    <3>1. Sound(s)
      BY <1>1, <2>3
    <3>2. QED
      BY <1>2, <2>1, <3>1 DEF Sound, Progress, Saved, Recorded, Creation!Evidence
  <2>4. QED
    BY <1>2, <2>1, <2>2, <2>3 DEF CreationInv
<1>4. CASE Creation!Recover
  <2> DEFINE Interrupted == {s \in Sessions : intent[s] # Creation!NoIntent /\ mem[s] = "none"}
             Due(A) == {s \in Interrupted : intent[s].owner \notin A \cup {pid}}
             Candidate(ok, A) == [s \in Sessions |-> IF s \in Due(A) THEN Creation!Recovered(s, ok)
                                                                   ELSE mem[s]]
  <2>1. PICK ok \in BOOLEAN, A \in SUBSET Pids :
          \/ /\ disk' = Candidate(ok, A) /\ mem' = Candidate(ok, A) /\ phase' = "up"
             /\ taken' = {intent[s].owner : s \in Interrupted \ Due(A)}
             /\ \/ intent' = Creation!Cleared(Candidate(ok, A)) /\ Creation!Fail(Creation!Cost(ok))
                \/ Creation!Fail(Creation!Cost(ok) + 1) /\ UNCHANGED intent
          \/ /\ Creation!Fail(Creation!Cost(ok) + 1)
             /\ phase' = "down" /\ mem' = [s \in Sessions |-> "none"] /\ UNCHANGED <<disk, intent, taken>>
    BY <1>4 DEF Creation!Recover
  <2>2. /\ Candidate(ok, A) \in Creation!Published
        /\ \A s \in Sessions :
              /\ Candidate(ok, A)[s] = "usable" => mem[s] = "usable" \/ tree[s] = "whole"
              /\ mem[s] # "none" => Candidate(ok, A)[s] # "none"
    BY <1>1 DEF Creation!Recovered, Creation!Usable, Creation!TypeOK, Creation!Published
  <2>3. failed' \in 0 .. MaxFailures
    <3>1. Creation!Cost(ok) \in Nat /\ Creation!Cost(ok) + 1 \in Nat
      BY DEF Creation!Cost
    <3>2. QED
      BY <1>1, <2>1, <3>1, CreationFailType
  <2>4. PICK candidate \in Creation!Published : candidate = Candidate(ok, A)
    BY <2>2
  <2>9. taken' \subseteq Pids
    <3>1. taken \subseteq Pids /\ \A s \in Interrupted : intent[s].owner \in Pids
      BY <1>1 DEF Creation!TypeOK, Intents
    <3>2. QED
      BY <2>1, <3>1
  <2> HIDE DEF Candidate
  <2>5. pid' = pid /\ phase = "recovering"
    BY <1>4 DEF Creation!Recover
  <2>6. CASE /\ disk' = candidate /\ mem' = candidate /\ phase' = "up"
             /\ intent' = Creation!Cleared(candidate) \/ intent' = intent
    <3>1. /\ intent' \in [Sessions -> Intents]
          /\ \A s \in Sessions : \/ intent'[s] = intent[s]
                                 \/ intent'[s] = Creation!NoIntent /\ candidate[s] # "none"
      BY <1>1, <2>6 DEF Creation!Cleared, Intents
    <3>2. Creation!TypeOK'
      <4>1. Cardinality(PendingIntents') <= MaxPending
        BY <1>1, <3>1, CreationPendingShrinks
      <4>2. QED
        BY <1>1, <1>2, <2>3, <2>5, <2>6, <2>9, <3>1, <4>1, CreationCounts DEF Creation!TypeOK, Intents, PendingIntents
    <3>3. ASSUME NEW s \in Sessions PROVE Sound(s)'
      <4>1. /\ Sound(s) /\ ~Creation!NoIntent.receipt /\ git[s] = "idle" /\ handler[s] = "none"
            /\ disk[s] \in {"none", mem[s]}
        BY <1>1, <1>2, <2>5, <3>3 DEF Sound, Progress, Recorded, Creation!NoIntent
      <4>2. /\ candidate[s] = "usable" => mem[s] = "usable" \/ tree[s] = "whole"
            /\ mem[s] # "none" => candidate[s] # "none"
            /\ intent'[s] = intent[s] \/ (intent'[s] = Creation!NoIntent /\ candidate[s] # "none")
        BY <2>2, <2>4, <3>1, <3>3
      <4>3. Recorded(s)'
        BY <1>2, <2>6, <4>1, <4>2 DEF Sound, Recorded, Creation!Evidence
      <4>4. QED
        BY <1>2, <2>6, <4>1, <4>3 DEF Sound, Progress, Saved
    <3>4. QED
      BY <1>2, <2>6, <3>2, <3>3 DEF CreationInv
  <2>7. CASE phase' = "down" /\ mem' = [s \in Sessions |-> "none"] /\ UNCHANGED <<disk, intent>>
    <3>1. Creation!TypeOK'
      BY <1>1, <1>2, <2>3, <2>5, <2>7, <2>9 DEF Creation!TypeOK, Creation!Published
    <3>2. ASSUME NEW s \in Sessions PROVE Sound(s)'
      <4>1. Sound(s) /\ mem'[s] = "none" /\ git[s] = "idle" /\ handler[s] = "none"
        BY <1>1, <1>2, <2>7, <3>2 DEF Sound, Progress
      <4>2. QED
        BY <1>2, <2>7, <4>1 DEF Sound, Progress, Saved, Recorded, Creation!Evidence
    <3>3. QED
      BY <1>2, <3>1, <3>2 DEF CreationInv
  <2>8. QED
    BY <2>1, <2>4, <2>6, <2>7
<1>5. QED
  BY <1>3, <1>4 DEF Creation!Restart

-----------------------------------------------------------------------------
(* The theorems. *)

LEMMA CreationAlways == CreationSpec => []CreationInv
<1>1. Creation!Init => CreationInv
  <2> SUFFICES ASSUME Creation!Init PROVE CreationInv
    OBVIOUS
  <2>1. Cardinality({s \in Sessions : intent[s] # Creation!NoIntent}) <= MaxPending
    <3>1. {s \in Sessions : intent[s] # Creation!NoIntent} = {}
      BY DEF Creation!Init
    <3>2. QED
      BY CreationAssumption, <3>1, FS_EmptySet DEF Creation!ConstantsAssumption
  <2>2. Creation!TypeOK
    <3>1. Creation!NoWrite.copy \in Creation!Published /\ Creation!NoWrite.of = "none" /\ Creation!NoIntent \in Intents
      BY DEF Creation!NoWrite, Creation!Published, Intents
    <3>2. 0 \in 0 .. MaxFailures /\ 0 \in 0 .. MaxCrashes
      BY CreationAssumption DEF Creation!ConstantsAssumption
    <3>3. intent \in [Sessions -> Intents] /\ mem \in Creation!Published /\ disk \in Creation!Published
      BY <3>1 DEF Creation!Init, Creation!Published
    <3>4. pid \in Pids /\ taken \subseteq Pids
      BY CreationAssumption DEF Creation!ConstantsAssumption, Creation!Init
    <3>5. QED
      BY <2>1, <3>1, <3>2, <3>3, <3>4, CreationCounts DEF Creation!Init, Creation!TypeOK, Intents
  <2>3. ASSUME NEW s \in Sessions PROVE Sound(s)
    BY <2>3 DEF Creation!Init, Sound, Progress, Saved, Recorded, Creation!Evidence,
    Creation!NoIntent
  <2>4. QED
    BY <2>2, <2>3 DEF CreationInv, Creation!Init
<1>2. CreationInv /\ [Creation!Next]_Creation!vars => CreationInv'
  <2> SUFFICES ASSUME CreationInv, [Creation!Next]_Creation!vars PROVE CreationInv'
    OBVIOUS
  <2>1. CASE UNCHANGED Creation!vars
    <3>1. Creation!TypeOK'
      BY <2>1 DEF CreationInv, Creation!TypeOK, Creation!vars
    <3>2. \A s \in Sessions : Sound(s)'
      BY <2>1 DEF CreationInv, Creation!vars, Sound, Progress, Saved, Recorded, Creation!Evidence
    <3>3. QED
      BY <2>1, <3>1, <3>2 DEF CreationInv, Creation!vars
  <2>2. QED
    BY <2>1, CreationBeginInv, CreationTimeOutInv, CreationGitCreatedInv, CreationGitFailedInv,
    CreationThreadedInv, CreationThreadFailedInv,
       CreationRemoveEndsInv, CreationStartWriteInv, CreationWriteLandsInv,
       CreationWriteFailsInv, CreationCrashInv, CreationRestartInv DEF Creation!Next
<1>3. QED
  BY <1>1, <1>2, PTL DEF CreationSpec, Creation!Spec

\* Sessions, receipts and pending git runs agree with the worktrees on disk, whatever
\* timed out, failed, was saved late or crashed in #createSession and #forkSession, and
\* never more creations are pending than the journal admits.
THEOREM CreationTreesCorrect == CreationSpec => []TreesAsRecorded
<1>1. CreationInv => TreesAsRecorded
  BY DEF CreationInv, Sound, Progress, Recorded, TreesAsRecorded, Creation!TreesAsRecorded,
         Creation!UsableHasTree, Creation!ReceiptIsTrue, Creation!RunIsPending
<1>2. QED
  BY <1>1, CreationAlways, PTL

\* A worktree that git left behind is named by the journal or by the saved snapshot,
\* unless its session was published while another save was running.
THEOREM CreationEvidenceCorrect == CreationSpec => []EvidenceKept
<1>1. CreationInv => EvidenceKept
  BY DEF CreationInv, Sound, Recorded, EvidenceKept, Creation!EvidenceKept
<1>2. QED
  BY <1>1, CreationAlways, PTL

=============================================================================
