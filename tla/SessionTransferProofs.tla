------------------------ MODULE SessionTransferProofs ------------------------
(***************************************************************************)
(* The safety of moving a session, for every set of machines and of         *)
(* transfers and every number of faults.                                    *)
(*                                                                         *)
(* Two invariants.  LocalInv is about one machine at a time and holds        *)
(* whatever the network does: the operation in the slot fits the record it   *)
(* works on, and the store, the proofs and memory tell the same story.       *)
(* CommitInv is about both machines of a transfer and needs that a request   *)
(* does not outlive its connection: a commit under way belongs to a transfer *)
(* its source has not given up, and what an answer said is still so.         *)
(***************************************************************************)
EXTENDS SessionTransfer, TLAPS

\* Record s of machine m concerns transfer t, which m began at this generation.
Tied(m, s, t) ==
    /\ t \in Transfers
    /\ source[t] = m
    /\ fromGen[t] = s.gen

RecordFits(m, s) ==
    /\ s.state = "absent" => s = Absent
    /\ s.state \in {"preparing", "staged", "conflict"} => Tied(m, s, s.transfer)
    /\ s.state \in {"preparing", "staged", "transferred"} => s.claim = NoTransfer
    /\ s.state = "live" => s.claim = NoTransfer \/ Tied(m, s, s.claim)

\* Operation o of machine m is about the record s.
OpFits(m, s, o) ==
    /\ o.kind \in {"none", "preview"} => o.wait = "none"
    /\ o.kind = "preview" =>
          /\ s.state = "live"
          /\ s.claim = NoTransfer
          /\ o.peer \in Machines
          /\ o.peer # m
    /\ o.kind \in {"send", "recover", "claim"} =>
          /\ s.state \in {"preparing", "staged"}
          /\ s.transfer = o.transfer
          /\ s.state = "preparing" => o.wait = "none"
    /\ o.kind \in {"recover", "claim", "check"} => o.wait # "none"
    /\ o.kind = "check" =>
          /\ s.state = "live"
          /\ s.claim # NoTransfer
          /\ s.claim = o.transfer

\* The store has the record s, or has yet to learn of the conflict.
Mirrored(s, d) ==
    \/ d = s
    \/ /\ s.state = "conflict"
       /\ s = Conflicted(d, s.transfer, s.other)
       /\ \/ /\ d.state = "staged"
             /\ d.transfer = s.transfer
             /\ d.claim = NoTransfer
          \/ /\ d.state = "live"
             /\ d.claim = s.transfer

\* Every proof is one of the conflict the record is in, and a restart replays it.
ProofsFit(P, s, d) ==
    \A p \in P :
        /\ s.state \in {"conflict", "transferred"}
        /\ s.state = "conflict" =>
              /\ p.transfer = s.transfer
              /\ p.gen = s.gen
              /\ p.other = s.other
              /\ d.state # "conflict" => Replays(p, d)

Known(t) ==
    /\ source[t] \in Machines => target[t] \in Machines /\ target[t] # source[t]
    /\ work[t] # "none" => source[t] \in Machines

LocalInv ==
    /\ TypeOK
    /\ \A t \in Transfers : Known(t)
    /\ \A m \in Machines :
          /\ RecordFits(m, mem[m])
          /\ OpFits(m, mem[m], op[m])
          /\ Mirrored(mem[m], disk[m])
          /\ ProofsFit(proofs[m], mem[m], disk[m])

\* The part of TypeOK that is not about a machine's record and operation.
RestTyped ==
    /\ project \in [Machines -> BOOLEAN]
    /\ armed \in [Machines -> BOOLEAN]
    /\ outgoing \in [Transfers -> BOOLEAN]
    /\ journal \in [Transfers -> JournalStates]
    /\ row \in [Transfers -> BOOLEAN]
    /\ work \in [Transfers -> {"none", "restoring", "saved"}]
    /\ late \subseteq Transfers \X Methods
    /\ holder \in Machines
    /\ faults \in 0 .. MaxFaults

-----------------------------------------------------------------------------
(* What an operation may do to a machine. *)

LEMMA RestIsTyped == TypeOK => RestTyped
  BY DEF TypeOK, RestTyped

\* Only the operation changes.
LEMMA OpMoves ==
  ASSUME LocalInv, NEW m \in Machines, NEW o \in Ops,
         op' = [op EXCEPT ![m] = o], OpFits(m, mem[m], o),
         UNCHANGED <<mem, disk, proofs, manifestVars>>, RestTyped',
         \A t \in Transfers : work'[t] # "none" => source[t] \in Machines
  PROVE  LocalInv'
<1>1. TypeOK'
  BY DEF LocalInv, TypeOK, RestTyped, manifestVars
<1>2. ASSUME NEW t \in Transfers PROVE Known(t)'
  BY <1>2 DEF LocalInv, Known, manifestVars
<1>3. ASSUME NEW n \in Machines PROVE RecordFits(n, mem[n])'
  BY <1>3 DEF LocalInv, RecordFits, Tied, manifestVars
<1>4. ASSUME NEW n \in Machines PROVE OpFits(n, mem[n], op[n])'
  <2>1. op'[n] = IF n = m THEN o ELSE op[n]
    BY <1>4 DEF LocalInv, TypeOK
  <2>2. OpFits(n, mem[n], op'[n])
    BY <1>4, <2>1 DEF LocalInv
  <2> QED
    BY <2>2 DEF OpFits
<1>5. ASSUME NEW n \in Machines
      PROVE  Mirrored(mem[n], disk[n])' /\ ProofsFit(proofs[n], mem[n], disk[n])'
  BY <1>5 DEF LocalInv, Mirrored, ProofsFit, Replays, Conflicted
<1> QED
  BY <1>1, <1>2, <1>3, <1>4, <1>5 DEF LocalInv

\* The record, its copy in the store, its proofs and the operation change, and nothing
\* that another machine keeps.
LEMMA MachineMoves ==
  ASSUME LocalInv, NEW m \in Machines, NEW s \in Sessions, NEW d \in Sessions, NEW o \in Ops,
         NEW P \in SUBSET Proofs,
         mem' = [mem EXCEPT ![m] = s], disk' = [disk EXCEPT ![m] = d],
         op' = [op EXCEPT ![m] = o], proofs' = [proofs EXCEPT ![m] = P],
         source' \in [Transfers -> Machines \cup {NoMachine}],
         target' \in [Transfers -> Machines \cup {NoMachine}],
         fromGen' \in [Transfers -> Nat],
         RestTyped',
         \A t \in Transfers : Known(t)',
         \A t \in Transfers : source[t] \in Machines =>
             source'[t] = source[t] /\ fromGen'[t] = fromGen[t],
         RecordFits(m, s)', OpFits(m, s, o), Mirrored(s, d), ProofsFit(P, s, d)
  PROVE  LocalInv'
<1>1. TypeOK'
  BY DEF LocalInv, TypeOK, RestTyped
<1>2. ASSUME NEW n \in Machines, n # m
      PROVE  /\ mem'[n] = mem[n] /\ disk'[n] = disk[n]
             /\ op'[n] = op[n] /\ proofs'[n] = proofs[n]
  BY <1>2 DEF LocalInv, TypeOK
<1>3. mem'[m] = s /\ disk'[m] = d /\ op'[m] = o /\ proofs'[m] = P
  BY DEF LocalInv, TypeOK
<1>4. ASSUME NEW n \in Machines, n # m PROVE RecordFits(n, mem[n])'
  <2>1. RecordFits(n, mem[n])
    BY <1>4 DEF LocalInv
  <2>2. \A t \in Transfers : source[t] = n => source'[t] = n /\ fromGen'[t] = fromGen[t]
    BY <1>4
  <2> QED
    BY <1>4, <1>2, <2>1, <2>2 DEF RecordFits, Tied
<1>5. ASSUME NEW n \in Machines, n # m
      PROVE  /\ OpFits(n, mem[n], op[n])'
             /\ Mirrored(mem[n], disk[n])'
             /\ ProofsFit(proofs[n], mem[n], disk[n])'
  <2>1. OpFits(n, mem[n], op[n]) /\ Mirrored(mem[n], disk[n]) /\ ProofsFit(proofs[n], mem[n], disk[n])
    BY <1>5 DEF LocalInv
  <2> QED
    BY <1>5, <1>2, <2>1 DEF OpFits, Mirrored, ProofsFit, Replays, Conflicted
<1>6. RecordFits(m, mem[m])'
  BY <1>3 DEF RecordFits, Tied
<1>7. OpFits(m, mem[m], op[m])'
  BY <1>3 DEF OpFits
<1>8. Mirrored(mem[m], disk[m])'
  BY <1>3 DEF Mirrored, Conflicted
<1>9. ProofsFit(proofs[m], mem[m], disk[m])'
  BY <1>3 DEF ProofsFit, Replays
<1> QED
  BY <1>1, <1>4, <1>5, <1>6, <1>7, <1>8, <1>9 DEF LocalInv

\* #persistTransferSnapshot wrote s, and the operation may have changed.
LEMMA RecordMoves ==
  ASSUME LocalInv, NEW m \in Machines, NEW s \in Sessions, NEW o \in Ops,
         Persist(m, s), op' = [op EXCEPT ![m] = o],
         UNCHANGED <<proofs, manifestVars>>, RestTyped',
         \A t \in Transfers : work'[t] # "none" => source[t] \in Machines,
         mem[m].state \notin {"conflict", "transferred"} \/ s.state = "transferred",
         RecordFits(m, s), OpFits(m, s, o)
  PROVE  LocalInv'
<1>1. proofs[m] \in SUBSET Proofs /\ proofs' = [proofs EXCEPT ![m] = proofs[m]]
  BY DEF LocalInv, TypeOK
<1>2. ProofsFit(proofs[m], s, s)
  BY DEF LocalInv, ProofsFit
<1>3. Mirrored(s, s)
  BY DEF Mirrored
<1>4. RecordFits(m, s)' /\ \A t \in Transfers : Known(t)'
  BY DEF RecordFits, Tied, manifestVars, LocalInv, Known
<1>5. /\ source' \in [Transfers -> Machines \cup {NoMachine}]
      /\ target' \in [Transfers -> Machines \cup {NoMachine}]
      /\ fromGen' \in [Transfers -> Nat]
      /\ source' = source /\ fromGen' = fromGen
  BY DEF LocalInv, TypeOK, manifestVars
<1>6. mem' = [mem EXCEPT ![m] = s] /\ disk' = [disk EXCEPT ![m] = s]
  BY DEF Persist
<1> QED
  BY <1>1, <1>2, <1>3, <1>4, <1>5, <1>6, MachineMoves

-----------------------------------------------------------------------------
(* Types and fit of operations. *)

LEMMA IdleFits ==
  ASSUME NEW m, NEW s
  PROVE  Idle \in Ops /\ OpFits(m, s, Idle)
  BY DEF Idle, Ops, Methods, Replies, MaybeTransfer, OpFits

LEMMA CallTyped ==
  ASSUME NEW o \in Ops, NEW c \in Methods,
         NEW w \in {"none", "sent", "working", "answered"}, NEW r \in Replies
  PROVE  /\ [o EXCEPT !.call = c, !.wait = w, !.reply = r] \in Ops
         /\ [o EXCEPT !.wait = w, !.reply = r] \in Ops
  BY DEF Ops

\* An operation that awaits a call is about a transfer of its machine's own.
LEMMA AwaitsOwn ==
  ASSUME LocalInv, NEW m \in Machines, op[m].wait # "none"
  PROVE  /\ op[m].kind \in {"send", "recover", "claim", "check"}
         /\ op[m].transfer \in Transfers
         /\ source[op[m].transfer] = m
         /\ target[op[m].transfer] \in Machines
         /\ target[op[m].transfer] # m
         /\ op[m].kind = "check" => mem[m].state = "live" /\ mem[m].claim = op[m].transfer
         /\ op[m].kind # "check" => mem[m].state = "staged" /\ mem[m].transfer = op[m].transfer
<1>1. RecordFits(m, mem[m]) /\ OpFits(m, mem[m], op[m]) /\ op[m] \in Ops
  BY DEF LocalInv, TypeOK
<1>2. op[m].kind \in {"send", "recover", "claim", "check"}
  BY <1>1 DEF OpFits, Ops
<1>3. op[m].transfer \in Transfers /\ source[op[m].transfer] = m
  BY <1>1, <1>2 DEF OpFits, RecordFits, Tied
<1>4. target[op[m].transfer] \in Machines /\ target[op[m].transfer] # m
  BY <1>3 DEF LocalInv, Known
<1> QED
  BY <1>1, <1>2, <1>3, <1>4 DEF OpFits

\* A call is answered or followed by the next one.
LEMMA OpContinues ==
  ASSUME LocalInv, NEW m \in Machines, op[m].wait # "none",
         NEW o \in Ops, o.kind = op[m].kind, o.transfer = op[m].transfer, o.wait # "none"
  PROVE  OpFits(m, mem[m], o)
<1>1. OpFits(m, mem[m], op[m])
  BY DEF LocalInv
<1>2. op[m].kind \in {"send", "recover", "claim", "check"}
  BY AwaitsOwn
<1> QED
  BY <1>1, <1>2 DEF OpFits

LEMMA EndOpIdles ==
  ASSUME LocalInv, NEW m \in Machines, NEW s, NEW incomplete \in BOOLEAN, EndOp(m, s, incomplete)
  PROVE  op' = [op EXCEPT ![m] = Idle] /\ armed' \in [Machines -> BOOLEAN]
<1>1. op' = [op EXCEPT ![m] = Idle]
  BY DEF EndOp
<1>2. Unsettled(s) \in BOOLEAN
  BY DEF Unsettled, Frozen
<1>3. armed \in [Machines -> BOOLEAN]
  BY DEF LocalInv, TypeOK
<1>4. CASE op[m].kind \in {"recover", "check"}
  <2>1. armed' = [armed EXCEPT ![m] = Unsettled(s)]
    BY <1>4 DEF EndOp
  <2> QED BY <1>1, <1>2, <1>3, <2>1
<1>5. CASE op[m].kind = "send"
  <2>1. armed' = [armed EXCEPT ![m] = armed[m] \/ incomplete]
    BY <1>5 DEF EndOp
  <2> QED BY <1>1, <1>3, <2>1
<1>6. CASE op[m].kind \notin {"recover", "check", "send"}
  <2>1. armed' = [armed EXCEPT ![m] = armed[m]]
    BY <1>6 DEF EndOp
  <2> QED BY <1>1, <1>3, <2>1
<1> QED
  BY <1>4, <1>5, <1>6

LEMMA FaultCounts ==
  ASSUME TypeOK, Fault
  PROVE  faults' \in 0 .. MaxFaults
  BY TransferAssumption DEF TypeOK, Fault

\* Where the operation ends and the record stays.
LEMMA Ends ==
  ASSUME LocalInv, NEW m \in Machines, NEW s, NEW incomplete \in BOOLEAN, EndOp(m, s, incomplete),
         UNCHANGED <<mem, disk, proofs, manifestVars, work>>, armed' \in [Machines -> BOOLEAN] => RestTyped'
  PROVE  LocalInv'
<1>1. op' = [op EXCEPT ![m] = Idle] /\ RestTyped'
  BY EndOpIdles
<1>2. Idle \in Ops /\ OpFits(m, mem[m], Idle)
  BY IdleFits
<1>3. \A t \in Transfers : work'[t] # "none" => source[t] \in Machines
  BY DEF LocalInv, Known
<1> QED
  BY <1>1, <1>2, <1>3, OpMoves

\* The request whose caller stops waiting.
LEMMA LateTyped ==
  ASSUME LocalInv, NEW m \in Machines,
         late' = IF LateDelivery /\ op[m].wait = "sent"
                 THEN late \cup {<<op[m].transfer, op[m].call>>} ELSE late
  PROVE  late' \subseteq Transfers \X Methods
<1>1. late \subseteq Transfers \X Methods /\ op[m] \in Ops
  BY DEF LocalInv, TypeOK
<1>2. CASE op[m].wait = "sent"
  <2>1. op[m].transfer \in Transfers /\ op[m].call \in Methods
    BY <1>1, <1>2, AwaitsOwn DEF Ops
  <2> QED BY <1>1, <2>1
<1>3. CASE op[m].wait # "sent"
  BY <1>1, <1>3
<1> QED
  BY <1>2, <1>3

-----------------------------------------------------------------------------
(* The steps that leave every record as it is. *)

LEMMA PreviewLocal ==
  ASSUME LocalInv, NEW m \in Machines, NEW n \in Machines, Preview(m, n)
  PROVE  LocalInv'
<1> DEFINE o == [Idle EXCEPT !.kind = "preview", !.peer = n]
<1>1. op' = [op EXCEPT ![m] = o] /\ o \in Ops
  BY DEF Preview, Idle, Ops, Methods, Replies, MaybeTransfer
<1>2. OpFits(m, mem[m], o)
  BY DEF Preview, OpFits, Idle
<1>3. RestTyped' /\ \A t \in Transfers : work'[t] # "none" => source[t] \in Machines
  BY RestIsTyped DEF Preview, LocalInv, RestTyped, targetVars, Known
<1> QED
  BY <1>1, <1>2, <1>3, OpMoves DEF Preview

LEMMA DeliverLocal ==
  ASSUME LocalInv, NEW m \in Machines, Deliver(m)
  PROVE  LocalInv'
<1> DEFINE o == [op[m] EXCEPT !.call = "status", !.wait = "sent", !.reply = "error"]
<1>1. op' = [op EXCEPT ![m] = o] /\ o \in Ops
  BY DEF Deliver, Call, LocalInv, TypeOK, Ops, Methods, Replies
<1>2. OpFits(m, mem[m], o)
  BY DEF Deliver, OpFits, LocalInv, TypeOK, Ops
<1>3. RestTyped' /\ \A t \in Transfers : work'[t] # "none" => source[t] \in Machines
  BY RestIsTyped DEF Deliver, LocalInv, RestTyped, targetVars, Known
<1> QED
  BY <1>1, <1>2, <1>3, OpMoves DEF Deliver

LEMMA SendNextLocal ==
  ASSUME LocalInv, NEW m \in Machines, SendNext(m)
  PROVE  LocalInv'
<1>1. PICK method \in {"prepare", "member", "commit"} : Call(m, method) /\ op[m].wait # "none"
  BY DEF SendNext, Answered
<1> DEFINE o == [op[m] EXCEPT !.call = method, !.wait = "sent", !.reply = "error"]
<1>2. op' = [op EXCEPT ![m] = o]
  BY <1>1 DEF Call
<1>a. o \in Ops
  <2>1. op[m] \in Ops /\ method \in Methods /\ "error" \in Replies
    BY DEF LocalInv, TypeOK, Methods, Replies
  <2> QED BY <2>1, CallTyped
<1>3. o.kind = op[m].kind /\ o.transfer = op[m].transfer /\ o.wait # "none"
  BY DEF LocalInv, TypeOK, Ops
<1>4. RestTyped' /\ \A t \in Transfers : work'[t] # "none" => source[t] \in Machines
  BY RestIsTyped DEF SendNext, LocalInv, RestTyped, targetVars, Known
<1> QED
  BY <1>1, <1>2, <1>a, <1>3, <1>4, OpContinues, OpMoves DEF SendNext

LEMMA LoseLocal ==
  ASSUME LocalInv, NEW m \in Machines, Lose(m) \/ TimeOut(m)
  PROVE  LocalInv'
<1> DEFINE o == [op[m] EXCEPT !.wait = "answered", !.reply = "error"]
<1>1. op' = [op EXCEPT ![m] = o] /\ op[m].wait # "none"
  BY DEF Lose, TimeOut
<1>a. o \in Ops
  <2>1. op[m] \in Ops /\ "status" \in Methods /\ "error" \in Replies
    BY DEF LocalInv, TypeOK, Methods, Replies
  <2> QED BY <2>1, CallTyped
<1>2. o.kind = op[m].kind /\ o.transfer = op[m].transfer /\ o.wait # "none"
  BY DEF LocalInv, TypeOK, Ops
<1>3. late' \subseteq Transfers \X Methods /\ faults' \in 0 .. MaxFaults
  BY LateTyped, FaultCounts DEF Lose, TimeOut, LocalInv, TypeOK
<1>4. RestTyped' /\ \A t \in Transfers : work'[t] # "none" => source[t] \in Machines
  BY <1>3, RestIsTyped DEF Lose, TimeOut, LocalInv, RestTyped, targetVars, Known
<1> QED
  BY <1>1, <1>a, <1>2, <1>4, OpContinues, OpMoves DEF Lose, TimeOut

LEMMA InterruptLocal ==
  ASSUME LocalInv, NEW m \in Machines, Interrupt(m)
  PROVE  LocalInv'
<1>1. late' \subseteq Transfers \X Methods /\ faults' \in 0 .. MaxFaults
  BY LateTyped, FaultCounts DEF Interrupt, LocalInv
<1>2. armed' \in [Machines -> BOOLEAN] => RestTyped'
  BY <1>1, RestIsTyped DEF Interrupt, LocalInv, RestTyped, targetVars
<1> QED
  BY <1>2, Ends DEF Interrupt, targetVars

LEMMA EndsLocal ==
  ASSUME LocalInv, NEW m \in Machines,
         SendIncomplete(m) \/ RecoverEnds(m) \/ CheckInconclusive(m)
  PROVE  LocalInv'
<1>1. armed' \in [Machines -> BOOLEAN] => RestTyped'
  BY RestIsTyped DEF SendIncomplete, RecoverEnds, CheckInconclusive, LocalInv, RestTyped, targetVars
<1> QED
  BY <1>1, Ends DEF SendIncomplete, RecoverEnds, CheckInconclusive, targetVars

LEMMA BeginsLocal ==
  ASSUME LocalInv, NEW m \in Machines, BeginRecovery(m) \/ BeginClaim(m) \/ BeginCheck(m)
  PROVE  LocalInv'
<1>1. PICK kind \in {"recover", "claim", "check"}, t \in MaybeTransfer :
        /\ Begin(m, kind, t)
        /\ kind = "check" => mem[m].state = "live" /\ mem[m].claim # NoTransfer /\ t = mem[m].claim
        /\ kind # "check" => mem[m].state = "staged" /\ t = mem[m].transfer
  BY DEF BeginRecovery, BeginClaim, BeginCheck, LocalInv, TypeOK, Sessions
<1> DEFINE o == [Idle EXCEPT !.kind = kind, !.wait = "sent", !.transfer = t]
<1>2. op' = [op EXCEPT ![m] = o] /\ o \in Ops
  BY <1>1 DEF Begin, Idle, Ops, Methods, Replies, MaybeTransfer
<1>3. o.kind = kind /\ o.wait = "sent" /\ o.transfer = t
  BY DEF Idle
<1>4. OpFits(m, mem[m], o)
  BY <1>1, <1>3 DEF OpFits
<1>5. RestTyped' /\ \A u \in Transfers : work'[u] # "none" => source[u] \in Machines
  BY RestIsTyped DEF BeginRecovery, BeginClaim, BeginCheck, LocalInv, RestTyped, targetVars, Known
<1> QED
  BY <1>2, <1>4, <1>5, OpMoves DEF BeginRecovery, BeginClaim, BeginCheck

LEMMA AsideLocal ==
  ASSUME LocalInv, NEW m \in Machines, WritePackage(m) \/ TimerLapses(m) \/ ToggleProject(m)
  PROVE  LocalInv'
<1>1. op' = [op EXCEPT ![m] = op[m]] /\ op[m] \in Ops /\ OpFits(m, mem[m], op[m])
  BY DEF LocalInv, TypeOK, WritePackage, TimerLapses, ToggleProject, machineVars
<1>2. CASE WritePackage(m)
  <2>1. outgoing' \in [Transfers -> BOOLEAN]
    BY <1>2 DEF WritePackage, LocalInv, TypeOK
  <2>2. RestTyped' /\ \A t \in Transfers : work'[t] # "none" => source[t] \in Machines
    BY <1>2, <2>1, RestIsTyped DEF WritePackage, LocalInv, RestTyped, targetVars, machineVars, Known
  <2> QED
    BY <1>1, <1>2, <2>2, OpMoves DEF WritePackage, machineVars
<1>3. CASE TimerLapses(m)
  <2>1. armed' \in [Machines -> BOOLEAN]
    BY <1>3 DEF TimerLapses, LocalInv, TypeOK
  <2>2. RestTyped' /\ \A t \in Transfers : work'[t] # "none" => source[t] \in Machines
    BY <1>3, <2>1, RestIsTyped DEF TimerLapses, LocalInv, RestTyped, targetVars, Known
  <2> QED
    BY <1>1, <1>3, <2>2, OpMoves DEF TimerLapses
<1>4. CASE ToggleProject(m)
  <2>1. project' \in [Machines -> BOOLEAN] /\ faults' \in 0 .. MaxFaults
    BY <1>4, FaultCounts DEF ToggleProject, LocalInv, TypeOK
  <2>2. RestTyped' /\ \A t \in Transfers : work'[t] # "none" => source[t] \in Machines
    BY <1>4, <2>1, RestIsTyped DEF ToggleProject, LocalInv, RestTyped, targetVars, machineVars, Known
  <2> QED
    BY <1>1, <1>4, <2>2, OpMoves DEF ToggleProject, machineVars
<1> QED
  BY <1>2, <1>3, <1>4

LEMMA RespondLocal ==
  ASSUME LocalInv, NEW t \in Transfers, NEW method \in Methods, NEW gone \in BOOLEAN,
         NEW r \in Replies, Asked(t, method, gone), Respond(t, method, gone, r),
         journal' \in [Transfers -> JournalStates],
         UNCHANGED <<mem, disk, proofs, project, armed, manifestVars, outgoing, row, work,
                     holder, faults>>
  PROVE  LocalInv'
<1>1. source[t] \in Machines /\ target[t] \in Machines
  BY DEF Asked, LocalInv, TypeOK, Known
<1>2. \A u \in Transfers : work'[u] # "none" => source[u] \in Machines
  BY DEF LocalInv, Known
<1>3. CASE gone
  <2>1. op' = [op EXCEPT ![source[t]] = op[source[t]]] /\ late' \subseteq late
    BY <1>1, <1>3 DEF Respond, LocalInv, TypeOK
  <2>2. op[source[t]] \in Ops /\ OpFits(source[t], mem[source[t]], op[source[t]])
    BY <1>1 DEF LocalInv, TypeOK
  <2>3. RestTyped'
    BY <2>1, RestIsTyped DEF LocalInv, RestTyped
  <2> QED
    BY <1>1, <1>2, <2>1, <2>2, <2>3, OpMoves
<1>4. CASE ~gone
  <2> DEFINE e == IF r = "existing" THEN mem[target[t]].gen ELSE 0
             o == [op[source[t]] EXCEPT !.wait = "answered", !.reply = r, !.existing = e]
  <2>1. op' = [op EXCEPT ![source[t]] = o] /\ late' = late
    BY <1>4 DEF Respond
  <2>2. e \in Nat /\ op[source[t]] \in Ops
    BY <1>1 DEF LocalInv, TypeOK, Sessions
  <2>3. o \in Ops /\ o.kind = op[source[t]].kind /\ o.transfer = op[source[t]].transfer
        /\ o.wait # "none"
    <3> HIDE DEF e
    <3> QED BY <2>2 DEF Ops
  <2>4. op[source[t]].wait # "none"
    BY <1>4 DEF Asked
  <2>5. OpFits(source[t], mem[source[t]], o)
    <3> HIDE DEF o
    <3> QED BY <1>1, <2>3, <2>4, OpContinues
  <2>6. RestTyped'
    BY <2>1, RestIsTyped DEF LocalInv, RestTyped
  <2> HIDE DEF o
  <2> QED
    BY <1>1, <1>2, <2>1, <2>3, <2>5, <2>6, OpMoves
<1> QED
  BY <1>3, <1>4

LEMMA AnswerLocal ==
  ASSUME LocalInv, NEW t \in Transfers, NEW method \in Methods, NEW gone \in BOOLEAN,
         NEW r \in Replies, NEW j \in JournalStates,
         Asked(t, method, gone), Answer(t, method, gone, r, j),
         UNCHANGED <<mem, disk, proofs, project, armed, manifestVars, outgoing, row, work,
                     holder, faults>>
  PROVE  LocalInv'
<1> DEFINE q == IF row[t] THEN "committed" ELSE r
<1>1. q \in Replies /\ Respond(t, method, gone, q)
  BY DEF Answer, Replies, JournalStates
<1>2. journal' \in [Transfers -> JournalStates]
  BY DEF Answer, LocalInv, TypeOK, JournalStates
<1> HIDE DEF q
<1> QED
  BY <1>1, <1>2, RespondLocal

\* What the handlers of the target answer, and what becomes of the journal entry.
StatusAnswer(t) ==
    IF journal[t] = "absent" /\ mem[target[t]].from = t /\ mem[target[t]].gen = fromGen[t] + 1
    THEN "committed" ELSE journal[t]

AbortAnswer(t) ==
    CASE journal[t] = "absent" -> "error"
      [] journal[t] = "committed" -> "committed"
      [] OTHER -> "aborted"

CommitAnswer(t) ==
    LET arrived == mem[target[t]].from = t /\ journal[t] \in {"prepared", "recovering", "failed"}
    IN CASE journal[t] = "absent" -> "error"
         [] journal[t] = "committed" -> "committed"
         [] journal[t] \in {"receiving", "aborted"} -> "refused"
         [] ~project[target[t]] -> "refused"
         [] arrived -> "committed"
         [] OTHER -> "existing"

LEMMA ServeLocal ==
  ASSUME LocalInv, NEW t \in Transfers, NEW gone \in BOOLEAN,
         \/ ServeStatus(t, gone)
         \/ ServePrepare(t, gone)
         \/ ServeMembers(t, gone)
         \/ ServeAbort(t, gone)
         \/ ServeCommit(t, gone)
  PROVE  LocalInv'
<1>0. /\ JournalStates \subseteq Replies
      /\ "error" \in Replies /\ "refused" \in Replies /\ "existing" \in Replies
      /\ journal[t] \in JournalStates
  BY DEF Replies, LocalInv, TypeOK
<1>1. CASE ServeStatus(t, gone)
  <2>1. StatusAnswer(t) \in Replies /\ Answer(t, "status", gone, StatusAnswer(t), journal[t])
    BY <1>0, <1>1 DEF ServeStatus, StatusAnswer, JournalStates
  <2>2. "status" \in Methods /\ Asked(t, "status", gone)
    BY <1>1 DEF ServeStatus, Methods
  <2>3. UNCHANGED <<mem, disk, proofs, project, armed, manifestVars, outgoing, row, work,
                    holder, faults>>
    BY <1>1 DEF ServeStatus
  <2> QED
    BY <1>0, <2>1, <2>2, <2>3, AnswerLocal
<1>2. CASE ServePrepare(t, gone)
  <2>1. PICK r \in Replies, j \in JournalStates : Answer(t, "prepare", gone, r, j)
    BY <1>0, <1>2 DEF ServePrepare, JournalStates
  <2>2. "prepare" \in Methods /\ Asked(t, "prepare", gone)
    BY <1>2 DEF ServePrepare, Methods
  <2>3. UNCHANGED <<mem, disk, proofs, project, armed, manifestVars, outgoing, row, work,
                    holder, faults>>
    BY <1>2 DEF ServePrepare
  <2> QED
    BY <2>1, <2>2, <2>3, AnswerLocal
<1>3. CASE ServeMembers(t, gone)
  <2>1. PICK r \in Replies : Respond(t, "member", gone, r)
    BY <1>0, <1>3 DEF ServeMembers, JournalStates
  <2>2. "member" \in Methods /\ Asked(t, "member", gone)
    BY <1>3 DEF ServeMembers, Methods
  <2>3. UNCHANGED <<mem, disk, proofs, project, armed, manifestVars, outgoing, row, work,
                    holder, faults>>
    BY <1>3 DEF ServeMembers
  <2>4. journal' \in [Transfers -> JournalStates]
    BY <1>3 DEF ServeMembers, LocalInv, TypeOK, JournalStates
  <2> QED
    BY <2>1, <2>2, <2>3, <2>4, RespondLocal
<1>4. CASE ServeAbort(t, gone)
  <2>1. PICK j \in JournalStates : Answer(t, "abort", gone, AbortAnswer(t), j)
    BY <1>0, <1>4 DEF ServeAbort, AbortAnswer, JournalStates
  <2>2. "abort" \in Methods /\ Asked(t, "abort", gone) /\ AbortAnswer(t) \in Replies
    BY <1>0, <1>4 DEF ServeAbort, Methods, AbortAnswer, JournalStates
  <2>3. UNCHANGED <<mem, disk, proofs, project, armed, manifestVars, outgoing, row, work,
                    holder, faults>>
    BY <1>4 DEF ServeAbort
  <2> QED
    BY <2>1, <2>2, <2>3, AnswerLocal
<1>5. CASE ServeCommit(t, gone)
  <2>1. PICK j \in JournalStates : Answer(t, "commit", gone, CommitAnswer(t), j)
    BY <1>0, <1>5 DEF ServeCommit, CommitAnswer, JournalStates
  <2>2. "commit" \in Methods /\ Asked(t, "commit", gone) /\ CommitAnswer(t) \in Replies
    BY <1>0, <1>5 DEF ServeCommit, Methods, CommitAnswer, JournalStates
  <2>3. UNCHANGED <<mem, disk, proofs, project, armed, manifestVars, outgoing, row, work,
                    holder, faults>>
    BY <1>5 DEF ServeCommit
  <2> QED
    BY <2>1, <2>2, <2>3, AnswerLocal
<1> QED
  BY <1>1, <1>2, <1>3, <1>4, <1>5

LEMMA BeginCommitLocal ==
  ASSUME LocalInv, NEW t \in Transfers, NEW gone \in BOOLEAN, BeginCommit(t, gone)
  PROVE  LocalInv'
<1>1. source[t] \in Machines
  BY DEF BeginCommit, Asked, LocalInv, TypeOK
<1>2. /\ journal' \in [Transfers -> JournalStates]
      /\ work' \in [Transfers -> {"none", "restoring", "saved"}]
  BY DEF BeginCommit, LocalInv, TypeOK, JournalStates
<1>3. \A u \in Transfers : work'[u] # "none" => source[u] \in Machines
  BY <1>1 DEF BeginCommit, LocalInv, TypeOK, Known
<1>4. late' \subseteq late
  BY DEF BeginCommit
<1>5. RestTyped'
  BY <1>2, <1>4, RestIsTyped DEF BeginCommit, LocalInv, RestTyped
<1>6. PICK o \in Ops : op' = [op EXCEPT ![source[t]] = o] /\ OpFits(source[t], mem[source[t]], o)
  <2>1. op[source[t]] \in Ops /\ OpFits(source[t], mem[source[t]], op[source[t]])
    BY <1>1 DEF LocalInv, TypeOK
  <2>2. CASE gone
    <3>1. op' = [op EXCEPT ![source[t]] = op[source[t]]]
      BY <1>1, <2>2 DEF BeginCommit, LocalInv, TypeOK
    <3> QED BY <2>1, <3>1
  <2>3. CASE ~gone
    <3> DEFINE o == [op[source[t]] EXCEPT !.wait = "working"]
    <3>1. op' = [op EXCEPT ![source[t]] = o]
      BY <2>3 DEF BeginCommit
    <3>2. o \in Ops /\ o.kind = op[source[t]].kind /\ o.transfer = op[source[t]].transfer
          /\ o.wait # "none"
      BY <2>1 DEF Ops
    <3>3. op[source[t]].wait # "none"
      BY <2>3 DEF BeginCommit, Asked
    <3> HIDE DEF o
    <3>4. OpFits(source[t], mem[source[t]], o)
      BY <1>1, <3>2, <3>3, OpContinues
    <3> QED BY <3>1, <3>2, <3>4
  <2> QED BY <2>2, <2>3
<1> QED
  BY <1>1, <1>3, <1>5, <1>6, OpMoves DEF BeginCommit

LEMMA CommitEndsLocal ==
  ASSUME LocalInv, NEW t \in Transfers, FailCommit(t) \/ FinishCommit(t)
  PROVE  LocalInv'
<1>1. source[t] \in Machines
  BY DEF FailCommit, FinishCommit, LocalInv, Known
<1>2. /\ journal' \in [Transfers -> JournalStates]
      /\ work' \in [Transfers -> {"none", "restoring", "saved"}]
      /\ faults' \in 0 .. MaxFaults
  BY FaultCounts DEF FailCommit, FinishCommit, LocalInv, TypeOK, JournalStates
<1>3. \A u \in Transfers : work'[u] # "none" => source[u] \in Machines
  BY <1>1 DEF FailCommit, FinishCommit, LocalInv, TypeOK, Known
<1>4. RestTyped'
  BY <1>2, RestIsTyped DEF FailCommit, FinishCommit, LocalInv, RestTyped
<1>5. PICK r \in {"committed", "error"} : CommitResponds(t, r)
  BY DEF FailCommit, FinishCommit
<1>6. PICK o \in Ops : op' = [op EXCEPT ![source[t]] = o] /\ OpFits(source[t], mem[source[t]], o)
  <2>1. op[source[t]] \in Ops /\ OpFits(source[t], mem[source[t]], op[source[t]])
    BY <1>1 DEF LocalInv, TypeOK
  <2>2. CASE ~(op[source[t]].wait = "working" /\ op[source[t]].transfer = t)
    <3>1. op' = [op EXCEPT ![source[t]] = op[source[t]]]
      BY <1>1, <1>5, <2>2 DEF CommitResponds, LocalInv, TypeOK
    <3> QED BY <2>1, <3>1
  <2>3. CASE op[source[t]].wait = "working" /\ op[source[t]].transfer = t
    <3> DEFINE o == [op[source[t]] EXCEPT !.wait = "answered", !.reply = r]
    <3>1. op' = [op EXCEPT ![source[t]] = o]
      BY <1>5, <2>3 DEF CommitResponds
    <3>2. r \in Replies /\ "status" \in Methods
      BY DEF Replies, JournalStates, Methods
    <3>3. o \in Ops
      BY <2>1, <3>2, CallTyped
    <3>4. o.kind = op[source[t]].kind /\ o.transfer = op[source[t]].transfer /\ o.wait # "none"
      BY <2>1 DEF Ops
    <3> HIDE DEF o
    <3>5. OpFits(source[t], mem[source[t]], o)
      BY <1>1, <2>3, <3>3, <3>4, OpContinues
    <3> QED BY <3>1, <3>3, <3>5
  <2> QED BY <2>2, <2>3
<1> QED
  BY <1>1, <1>3, <1>4, <1>6, OpMoves DEF FailCommit, FinishCommit

-----------------------------------------------------------------------------
(* The steps that write a record. *)

LEMMA ThawFits ==
  ASSUME NEW m, NEW s \in Sessions, RecordFits(m, s), Frozen(s)
  PROVE  /\ Thawed(s) \in Sessions
         /\ RecordFits(m, Thawed(s))
         /\ Thawed(s).state = "live" /\ Thawed(s).claim = NoTransfer
         /\ Thawed(s).gen = s.gen /\ Thawed(s).from = s.from
<1>1. Thawed(s) \in Sessions
  BY DEF Thawed, Sessions, SessionStates, MaybeTransfer
<1>2. /\ Thawed(s).state = "live" /\ Thawed(s).claim = s.claim
      /\ Thawed(s).gen = s.gen /\ Thawed(s).from = s.from
  BY DEF Thawed, Sessions
<1>3. s.claim = NoTransfer
  BY DEF Frozen, RecordFits
<1> QED
  BY <1>1, <1>2, <1>3 DEF RecordFits

\* A staged record whose reconciliation was noted, or is confirmed.
LEMMA NoteFits ==
  ASSUME NEW m, NEW s \in Sessions, RecordFits(m, s), s.state = "staged", NEW b \in BOOLEAN
  PROVE  LET n == [s EXCEPT !.unconfirmed = b] IN
         /\ n \in Sessions /\ RecordFits(m, n)
         /\ n.state = s.state /\ n.gen = s.gen /\ n.transfer = s.transfer
         /\ n.claim = s.claim /\ n.from = s.from
<1> DEFINE n == [s EXCEPT !.unconfirmed = b]
<1>1. n \in Sessions
  BY DEF Sessions
<1>2. /\ n.state = s.state /\ n.gen = s.gen /\ n.transfer = s.transfer
      /\ n.claim = s.claim /\ n.from = s.from
  BY DEF Sessions
<1> HIDE DEF n
<1>3. RecordFits(m, n)
  BY <1>2 DEF RecordFits, Tied
<1> QED
  BY <1>1, <1>2, <1>3 DEF n

\* Where the record changes and the operation ends.
LEMMA EndsWith ==
  ASSUME LocalInv, NEW m \in Machines, NEW s \in Sessions, Persist(m, s),
         NEW r, EndOp(m, r, FALSE),
         UNCHANGED <<proofs, manifestVars, work>>,
         armed' \in [Machines -> BOOLEAN] => RestTyped',
         mem[m].state \notin {"conflict", "transferred"} \/ s.state = "transferred",
         RecordFits(m, s)
  PROVE  LocalInv'
<1>1. op' = [op EXCEPT ![m] = Idle] /\ RestTyped'
  BY EndOpIdles
<1>2. Idle \in Ops /\ OpFits(m, s, Idle)
  BY IdleFits
<1>3. \A t \in Transfers : work'[t] # "none" => source[t] \in Machines
  BY DEF LocalInv, Known
<1> QED
  BY <1>1, <1>2, <1>3, RecordMoves

LEMMA RecordStagedLocal ==
  ASSUME LocalInv, NEW m \in Machines, RecordStaged(m)
  PROVE  LocalInv'
<1> DEFINE s == [mem[m] EXCEPT !.state = "staged"]
<1>1. mem[m] \in Sessions /\ RecordFits(m, mem[m]) /\ mem[m].state = "preparing"
      /\ op[m] \in Ops /\ OpFits(m, mem[m], op[m])
  BY DEF LocalInv, TypeOK, RecordStaged
<1>2. s \in Sessions /\ s.state = "staged" /\ s.gen = mem[m].gen
      /\ s.transfer = mem[m].transfer /\ s.claim = mem[m].claim
  BY <1>1 DEF Sessions, SessionStates
<1>3. Persist(m, s) /\ op[m].kind = "send"
  BY DEF RecordStaged
<1> HIDE DEF s
<1>4. RecordFits(m, s) /\ OpFits(m, s, op[m])
  BY <1>1, <1>2, <1>3 DEF RecordFits, Tied, OpFits
<1>5. op' = [op EXCEPT ![m] = op[m]]
  BY DEF RecordStaged, LocalInv, TypeOK
<1>6. RestTyped' /\ \A t \in Transfers : work'[t] # "none" => source[t] \in Machines
  BY RestIsTyped DEF RecordStaged, LocalInv, RestTyped, targetVars, Known
<1> QED
  BY <1>1, <1>2, <1>3, <1>4, <1>5, <1>6, RecordMoves DEF RecordStaged

LEMMA AbandonSendLocal ==
  ASSUME LocalInv, NEW m \in Machines, AbandonSend(m)
  PROVE  LocalInv'
<1>1. mem[m] \in Sessions /\ RecordFits(m, mem[m]) /\ Frozen(mem[m])
  BY DEF LocalInv, TypeOK, AbandonSend, OpFits, Frozen
<1>2. faults' \in 0 .. MaxFaults /\ outgoing' \in [Transfers -> BOOLEAN]
  BY FaultCounts DEF AbandonSend, LocalInv, TypeOK
<1>3. armed' \in [Machines -> BOOLEAN] => RestTyped'
  BY <1>2, RestIsTyped DEF AbandonSend, LocalInv, RestTyped, targetVars
<1>4. EndOp(m, mem'[m], FALSE) /\ UNCHANGED <<proofs, manifestVars, work>>
  BY DEF AbandonSend, targetVars
<1>5. CASE Persist(m, Thawed(mem[m]))
  <2>1. Thawed(mem[m]) \in Sessions /\ RecordFits(m, Thawed(mem[m]))
        /\ mem[m].state \notin {"conflict", "transferred"}
    BY <1>1, ThawFits DEF Frozen
  <2> QED
    BY <1>3, <1>4, <1>5, <2>1, EndsWith
<1>6. CASE UNCHANGED <<mem, disk, outgoing>>
  BY <1>3, <1>4, <1>6, Ends
<1> QED
  BY <1>5, <1>6 DEF AbandonSend

\* An operation that was answered, and is not a check, is about a staged record.
LEMMA AnsweredStaged ==
  ASSUME LocalInv, NEW m \in Machines, NEW kinds, NEW calls, NEW replies,
         Answered(m, kinds, calls, replies), kinds \subseteq {"send", "recover", "claim"}
  PROVE  /\ mem[m] \in Sessions /\ RecordFits(m, mem[m])
         /\ mem[m].state = "staged" /\ mem[m].transfer = op[m].transfer
         /\ op[m].transfer \in Transfers /\ source[op[m].transfer] = m
         /\ op[m].wait # "none" /\ op[m].kind \in kinds
<1>1. op[m].wait # "none" /\ op[m].kind \in kinds /\ op[m].kind # "check"
  BY DEF Answered
<1> QED
  BY <1>1, AwaitsOwn DEF LocalInv, TypeOK

LEMMA ReleasesStaged ==
  ASSUME LocalInv, NEW m \in Machines, Releases(m)
  PROVE  /\ mem[m] \in Sessions /\ RecordFits(m, mem[m])
         /\ mem[m].state = "staged" /\ mem[m].transfer = op[m].transfer
         /\ op[m].transfer \in Transfers /\ source[op[m].transfer] = m
         /\ op[m].wait # "none"
<1>1. Answered(m, {"send", "recover", "claim"}, Methods, Replies)
  BY DEF Releases, Answered, Methods, Replies, JournalStates
<1> QED
  BY <1>1, AnsweredStaged

LEMMA OnCommittedLocal ==
  ASSUME LocalInv, NEW m \in Machines, OnCommitted(m)
  PROVE  LocalInv'
<1> DEFINE s == [mem[m] EXCEPT !.state = "transferred", !.gen = mem[m].gen + 1,
                               !.unconfirmed = FALSE]
<1>1. mem[m] \in Sessions /\ RecordFits(m, mem[m]) /\ mem[m].state = "staged"
  BY AnsweredStaged DEF OnCommitted
<1>a. Persist(m, s)
  BY DEF OnCommitted
<1>2. s \in Sessions /\ s.state = "transferred" /\ s.claim = mem[m].claim
  <2> DEFINE g == mem[m].gen + 1
  <2>1. g \in Nat
    BY <1>1 DEF Sessions
  <2> HIDE DEF g
  <2>2. [mem[m] EXCEPT !.state = "transferred", !.gen = g, !.unconfirmed = FALSE] \in Sessions
    BY <1>1, <2>1 DEF Sessions, SessionStates
  <2> QED
    BY <1>1, <2>2 DEF g, Sessions
<1> HIDE DEF s
<1>3. RecordFits(m, s)
  BY <1>1, <1>2 DEF RecordFits
<1>4. outgoing' \in [Transfers -> BOOLEAN]
  BY DEF OnCommitted, LocalInv, TypeOK
<1>5. armed' \in [Machines -> BOOLEAN] => RestTyped'
  BY <1>4, RestIsTyped DEF OnCommitted, LocalInv, RestTyped, targetVars
<1>6. EndOp(m, mem'[m], FALSE) /\ UNCHANGED <<proofs, manifestVars, work>>
  BY DEF OnCommitted, targetVars
<1> QED
  BY <1>a, <1>2, <1>3, <1>5, <1>6, EndsWith

LEMMA OnReleasedLocal ==
  ASSUME LocalInv, NEW m \in Machines, OnReleased(m)
  PROVE  LocalInv'
<1>1. mem[m] \in Sessions /\ RecordFits(m, mem[m]) /\ mem[m].state = "staged"
  BY ReleasesStaged DEF OnReleased
<1>2. Thawed(mem[m]) \in Sessions /\ RecordFits(m, Thawed(mem[m]))
  BY <1>1, ThawFits DEF Frozen
<1>3. outgoing' \in [Transfers -> BOOLEAN]
  BY DEF OnReleased, LocalInv, TypeOK
<1>4. armed' \in [Machines -> BOOLEAN] => RestTyped'
  BY <1>3, RestIsTyped DEF OnReleased, LocalInv, RestTyped, targetVars
<1>5. /\ Persist(m, Thawed(mem[m])) /\ EndOp(m, mem'[m], FALSE)
      /\ UNCHANGED <<proofs, manifestVars, work>>
  BY DEF OnReleased, targetVars
<1> QED
  BY <1>1, <1>2, <1>4, <1>5, EndsWith

\* The recovery or the claim notes what it learnt and ends.
LEMMA NotesLocal ==
  ASSUME LocalInv, NEW m \in Machines,
         RecoverUnconfirmed(m) \/ RecoverResumes(m) \/ ClaimRefused(m)
  PROVE  LocalInv'
<1>0. Answered(m, {"recover", "claim"}, Methods, Replies)
  BY DEF RecoverUnconfirmed, RecoverResumes, ClaimRefused, Answered, Methods, Replies, JournalStates
<1>1. mem[m] \in Sessions /\ RecordFits(m, mem[m]) /\ mem[m].state = "staged"
  BY <1>0, AnsweredStaged
<1>2. PICK b \in BOOLEAN : Persist(m, [mem[m] EXCEPT !.unconfirmed = b])
  BY DEF RecoverUnconfirmed, RecoverResumes, ClaimRefused, Confirmed
<1> DEFINE s == [mem[m] EXCEPT !.unconfirmed = b]
<1>3. s \in Sessions /\ RecordFits(m, s) /\ Persist(m, s)
  BY <1>1, <1>2, NoteFits
<1>4. armed' \in [Machines -> BOOLEAN] => RestTyped'
  BY RestIsTyped DEF RecoverUnconfirmed, RecoverResumes, ClaimRefused, LocalInv, RestTyped, targetVars
<1>5. EndOp(m, mem'[m], FALSE) /\ UNCHANGED <<proofs, manifestVars, work>>
  BY DEF RecoverUnconfirmed, RecoverResumes, ClaimRefused, targetVars
<1> HIDE DEF s
<1> QED
  BY <1>1, <1>3, <1>4, <1>5, EndsWith

LEMMA RecoverCallsLocal ==
  ASSUME LocalInv, NEW m \in Machines, RecoverRetries(m) \/ RecoverAborts(m)
  PROVE  LocalInv'
<1>1. mem[m] \in Sessions /\ RecordFits(m, mem[m]) /\ mem[m].state = "staged"
      /\ op[m].wait # "none" /\ op[m].kind = "recover" /\ mem[m].transfer = op[m].transfer
  BY AnsweredStaged DEF RecoverRetries, RecoverAborts
<1> DEFINE s == [mem[m] EXCEPT !.unconfirmed = FALSE]
<1>2. Persist(m, s)
  BY DEF RecoverRetries, RecoverAborts, Confirmed
<1>3. s \in Sessions /\ RecordFits(m, s) /\ s.state = "staged" /\ s.transfer = mem[m].transfer
  BY <1>1, NoteFits
<1>4. PICK method \in {"commit", "abort"} : Call(m, method)
  BY DEF RecoverRetries, RecoverAborts
<1> DEFINE o == [op[m] EXCEPT !.call = method, !.wait = "sent", !.reply = "error"]
<1>5. op' = [op EXCEPT ![m] = o]
  BY <1>4 DEF Call
<1>6. op[m] \in Ops /\ method \in Methods /\ "error" \in Replies
  BY DEF LocalInv, TypeOK, Methods, Replies
<1>7. o \in Ops
  BY <1>6, CallTyped
<1>8. o.kind = op[m].kind /\ o.transfer = op[m].transfer /\ o.wait = "sent"
  BY <1>6 DEF Ops
<1> HIDE DEF s, o
<1>9. OpFits(m, s, o)
  BY <1>1, <1>3, <1>8 DEF OpFits
<1>10. RestTyped' /\ \A t \in Transfers : work'[t] # "none" => source[t] \in Machines
  BY RestIsTyped DEF RecoverRetries, RecoverAborts, LocalInv, RestTyped, targetVars, Known
<1>11. UNCHANGED <<proofs, manifestVars>>
  BY DEF RecoverRetries, RecoverAborts
<1> QED
  BY <1>1, <1>2, <1>3, <1>5, <1>7, <1>9, <1>10, <1>11, RecordMoves

LEMMA ClaimSourceLocal ==
  ASSUME LocalInv, NEW m \in Machines, ClaimSource(m)
  PROVE  LocalInv'
<1>1. mem[m] \in Sessions /\ RecordFits(m, mem[m]) /\ mem[m].state = "staged"
      /\ mem[m].transfer = op[m].transfer /\ op[m].transfer \in Transfers
  BY AnsweredStaged DEF ClaimSource
<1> DEFINE s == [Thawed(mem[m]) EXCEPT !.claim = op[m].transfer]
<1>2. s \in Sessions /\ s.state = "live" /\ s.claim = op[m].transfer /\ s.gen = mem[m].gen
  BY <1>1 DEF Sessions, SessionStates, MaybeTransfer, Thawed
<1>3. Persist(m, s)
  BY DEF ClaimSource
<1> HIDE DEF s
<1>4. RecordFits(m, s)
  BY <1>1, <1>2 DEF RecordFits, Tied
<1>5. outgoing' \in [Transfers -> BOOLEAN]
  BY DEF ClaimSource, LocalInv, TypeOK
<1>6. armed' \in [Machines -> BOOLEAN] => RestTyped'
  BY <1>5, RestIsTyped DEF ClaimSource, LocalInv, RestTyped, targetVars
<1>7. EndOp(m, mem'[m], FALSE) /\ UNCHANGED <<proofs, manifestVars, work>>
  BY DEF ClaimSource, targetVars
<1> QED
  BY <1>1, <1>2, <1>3, <1>4, <1>6, <1>7, EndsWith

\* A check that was answered is about a claim.
LEMMA AnsweredClaim ==
  ASSUME LocalInv, NEW m \in Machines, NEW calls, NEW replies,
         Answered(m, {"check"}, calls, replies)
  PROVE  /\ mem[m] \in Sessions /\ RecordFits(m, mem[m])
         /\ mem[m].state = "live" /\ mem[m].claim = op[m].transfer
         /\ op[m].transfer \in Transfers /\ source[op[m].transfer] = m
         /\ fromGen[op[m].transfer] = mem[m].gen
         /\ op[m].wait # "none" /\ op[m].kind = "check"
<1>1. op[m].wait # "none" /\ op[m].kind = "check"
  BY DEF Answered
<1>2. RecordFits(m, mem[m]) /\ mem[m] \in Sessions
  BY DEF LocalInv, TypeOK
<1> QED
  BY <1>1, <1>2, AwaitsOwn, TransferAssumption DEF RecordFits, Tied

LEMMA CheckClearsLocal ==
  ASSUME LocalInv, NEW m \in Machines, CheckClears(m)
  PROVE  LocalInv'
<1> DEFINE s == [mem[m] EXCEPT !.claim = NoTransfer]
<1>1. mem[m] \in Sessions /\ mem[m].state = "live"
  BY AnsweredClaim DEF CheckClears
<1>2. s \in Sessions /\ s.state = "live" /\ s.claim = NoTransfer
  BY <1>1 DEF Sessions, MaybeTransfer
<1>3. Persist(m, s)
  BY DEF CheckClears
<1> HIDE DEF s
<1>4. RecordFits(m, s)
  BY <1>2 DEF RecordFits
<1>5. armed' \in [Machines -> BOOLEAN] => RestTyped'
  BY RestIsTyped DEF CheckClears, LocalInv, RestTyped, targetVars
<1>6. EndOp(m, mem'[m], FALSE) /\ UNCHANGED <<proofs, manifestVars, work>>
  BY DEF CheckClears, targetVars
<1> QED
  BY <1>1, <1>2, <1>3, <1>4, <1>5, <1>6, EndsWith

LEMMA FreeFits ==
  ASSUME NEW m, NEW s, NEW o, o.kind = "none", o.wait = "none"
  PROVE  OpFits(m, s, o)
  BY DEF OpFits

LEMMA RecoverPreparingLocal ==
  ASSUME LocalInv, NEW m \in Machines, RecoverPreparing(m)
  PROVE  LocalInv'
<1>1. mem[m] \in Sessions /\ RecordFits(m, mem[m]) /\ mem[m].state = "preparing"
      /\ op[m] \in Ops /\ op[m].kind = "none" /\ op[m].wait = "none"
  BY DEF LocalInv, TypeOK, OpFits, RecoverPreparing
<1>2. Thawed(mem[m]) \in Sessions /\ RecordFits(m, Thawed(mem[m]))
  BY <1>1, ThawFits DEF Frozen
<1>3. OpFits(m, Thawed(mem[m]), op[m]) /\ op' = [op EXCEPT ![m] = op[m]]
  BY <1>1, FreeFits DEF RecoverPreparing, LocalInv, TypeOK
<1>4. armed' \in [Machines -> BOOLEAN]
  BY DEF RecoverPreparing, LocalInv, TypeOK
<1>5. RestTyped' /\ \A t \in Transfers : work'[t] # "none" => source[t] \in Machines
  BY <1>4, RestIsTyped DEF RecoverPreparing, LocalInv, RestTyped, targetVars, Known
<1>6. Persist(m, Thawed(mem[m])) /\ UNCHANGED <<proofs, manifestVars>>
  BY DEF RecoverPreparing
<1> QED
  BY <1>1, <1>2, <1>3, <1>5, <1>6, RecordMoves

LEMMA ResolveConflictLocal ==
  ASSUME LocalInv, NEW m \in Machines, ResolveConflict(m)
  PROVE  LocalInv'
<1> DEFINE s == [mem[m] EXCEPT !.state = "transferred", !.gen = mem[m].other,
                               !.claim = NoTransfer]
<1>1. mem[m] \in Sessions /\ op[m] \in Ops /\ op[m].kind = "none" /\ op[m].wait = "none"
  BY DEF LocalInv, TypeOK, OpFits, ResolveConflict
<1>2. s \in Sessions /\ s.state = "transferred" /\ s.claim = NoTransfer
  BY <1>1 DEF Sessions, SessionStates, MaybeTransfer
<1>3. Persist(m, s) /\ UNCHANGED <<proofs, manifestVars>>
  BY DEF ResolveConflict
<1> HIDE DEF s
<1>4. RecordFits(m, s)
  BY <1>2 DEF RecordFits
<1>5. OpFits(m, s, op[m]) /\ op' = [op EXCEPT ![m] = op[m]]
  BY <1>1, FreeFits DEF ResolveConflict, LocalInv, TypeOK
<1>6. outgoing' \in [Transfers -> BOOLEAN]
  BY DEF ResolveConflict, LocalInv, TypeOK
<1>7. RestTyped' /\ \A t \in Transfers : work'[t] # "none" => source[t] \in Machines
  BY <1>6, RestIsTyped DEF ResolveConflict, LocalInv, RestTyped, targetVars, Known
<1> QED
  BY <1>1, <1>2, <1>3, <1>4, <1>5, <1>7, RecordMoves

LEMMA ImportedFits ==
  ASSUME NEW m, NEW g \in Nat, NEW t \in Transfers
  PROVE  /\ Imported(g, t) \in Sessions /\ RecordFits(m, Imported(g, t))
         /\ Imported(g, t).state = "live" /\ Imported(g, t).claim = NoTransfer
         /\ Imported(g, t).gen = g /\ Imported(g, t).from = t
<1>1. Imported(g, t) \in Sessions
  BY DEF Imported, Absent, Sessions, SessionStates, MaybeTransfer
<1>2. /\ Imported(g, t).state = "live" /\ Imported(g, t).claim = NoTransfer
      /\ Imported(g, t).gen = g /\ Imported(g, t).from = t
  BY DEF Imported, Absent
<1> QED
  BY <1>1, <1>2 DEF RecordFits

LEMMA SaveCommitLocal ==
  ASSUME LocalInv, NEW t \in Transfers, SaveCommit(t)
  PROVE  LocalInv'
<1> DEFINE n == target[t]
           s == Imported(fromGen[t] + 1, t)
<1>1. source[t] \in Machines /\ n \in Machines /\ fromGen[t] + 1 \in Nat
  BY DEF SaveCommit, LocalInv, TypeOK, Known
<1>2. s \in Sessions /\ RecordFits(n, s)
  BY <1>1, ImportedFits
<1>3. mem[n].state = "absent" /\ Persist(n, s) /\ UNCHANGED <<proofs, manifestVars>>
  BY DEF SaveCommit
<1>4. op[n] \in Ops /\ op[n].kind = "none" /\ op[n].wait = "none"
  <2>1. op[n] \in Ops /\ OpFits(n, mem[n], op[n])
    BY <1>1 DEF LocalInv, TypeOK
  <2> QED
    BY <1>3, <2>1 DEF OpFits, Ops
<1>5. OpFits(n, s, op[n]) /\ op' = [op EXCEPT ![n] = op[n]]
  BY <1>4, FreeFits DEF SaveCommit, LocalInv, TypeOK
<1>6. row' \in [Transfers -> BOOLEAN] /\ work' \in [Transfers -> {"none", "restoring", "saved"}]
      /\ holder' \in Machines
  BY <1>1 DEF SaveCommit, LocalInv, TypeOK
<1>7. RestTyped'
  BY <1>6, RestIsTyped DEF SaveCommit, LocalInv, RestTyped
<1>8. \A u \in Transfers : work'[u] # "none" => source[u] \in Machines
  BY <1>1 DEF SaveCommit, LocalInv, TypeOK, Known
<1> HIDE DEF n, s
<1> QED
  BY <1>1, <1>2, <1>3, <1>4, <1>5, <1>7, <1>8, RecordMoves

LEMMA FreezeLocal ==
  ASSUME LocalInv, NEW m \in Machines, NEW t \in Transfers, Freeze(m, t)
  PROVE  LocalInv'
<1>1. mem[m] \in Sessions /\ OpFits(m, mem[m], op[m]) /\ op[m].kind = "preview"
      /\ source[t] = NoMachine
  BY DEF LocalInv, TypeOK, Freeze
<1>2. mem[m].state = "live" /\ mem[m].claim = NoTransfer /\ op[m].peer \in Machines /\ op[m].peer # m
  BY <1>1 DEF OpFits
<1>3. PICK s : s = [mem[m] EXCEPT !.state = "preparing", !.transfer = t]
  OBVIOUS
<1>4. s \in Sessions /\ s.state = "preparing" /\ s.transfer = t /\ s.claim = NoTransfer
      /\ s.gen = mem[m].gen
  BY <1>1, <1>2, <1>3 DEF Sessions, SessionStates, MaybeTransfer
<1>5. PICK o : o = [Idle EXCEPT !.kind = "send", !.transfer = t]
  OBVIOUS
<1>6. o \in Ops /\ o.kind = "send" /\ o.transfer = t /\ o.wait = "none"
  BY <1>5 DEF Idle, Ops, Methods, Replies, MaybeTransfer
<1>7. /\ mem' = [mem EXCEPT ![m] = s] /\ disk' = [disk EXCEPT ![m] = s]
      /\ op' = [op EXCEPT ![m] = o]
  BY <1>3, <1>5 DEF Freeze, Persist
<1>8. proofs' = [proofs EXCEPT ![m] = proofs[m]] /\ proofs[m] \in SUBSET Proofs
  BY DEF Freeze, LocalInv, TypeOK
<1>9. /\ source' = [source EXCEPT ![t] = m] /\ target' = [target EXCEPT ![t] = op[m].peer]
      /\ fromGen' = [fromGen EXCEPT ![t] = mem[m].gen] /\ work' = work
  BY DEF Freeze, targetVars
<1>10. mem[m].gen \in Nat
  BY <1>1 DEF Sessions
<1>11. /\ source' \in [Transfers -> Machines \cup {NoMachine}]
       /\ target' \in [Transfers -> Machines \cup {NoMachine}]
       /\ fromGen' \in [Transfers -> Nat]
       /\ source'[t] = m /\ target'[t] = op[m].peer /\ fromGen'[t] = mem[m].gen
       /\ \A u \in Transfers \ {t} :
             source'[u] = source[u] /\ target'[u] = target[u] /\ fromGen'[u] = fromGen[u]
  BY <1>2, <1>9, <1>10 DEF LocalInv, TypeOK
<1>12. \A u \in Transfers : Known(u)'
  BY <1>2, <1>9, <1>11 DEF LocalInv, Known
<1>13. \A u \in Transfers : source[u] \in Machines => source'[u] = source[u] /\ fromGen'[u] = fromGen[u]
  BY <1>1, <1>11, TransferAssumption
<1>14. RecordFits(m, s)'
  BY <1>4, <1>11 DEF RecordFits, Tied
<1>15. OpFits(m, s, o) /\ Mirrored(s, s)
  BY <1>4, <1>6 DEF OpFits, Mirrored
<1>16. ProofsFit(proofs[m], s, s)
  BY <1>2 DEF LocalInv, ProofsFit
<1>17. RestTyped'
  BY RestIsTyped DEF Freeze, LocalInv, RestTyped, targetVars
<1> QED
  BY <1>4, <1>6, <1>7, <1>8, <1>11, <1>12, <1>13, <1>14, <1>15, <1>16, <1>17, MachineMoves

LEMMA SaveSnapshotLocal ==
  ASSUME LocalInv, NEW m \in Machines, SaveSnapshot(m)
  PROVE  LocalInv'
<1>1. /\ mem[m] \in Sessions /\ op[m] \in Ops /\ proofs[m] \in SUBSET Proofs
      /\ mem' = [mem EXCEPT ![m] = mem[m]] /\ disk' = [disk EXCEPT ![m] = mem[m]]
      /\ op' = [op EXCEPT ![m] = op[m]] /\ proofs' = [proofs EXCEPT ![m] = proofs[m]]
  BY DEF SaveSnapshot, LocalInv, TypeOK
<1>2. /\ source' \in [Transfers -> Machines \cup {NoMachine}]
      /\ target' \in [Transfers -> Machines \cup {NoMachine}]
      /\ fromGen' \in [Transfers -> Nat]
      /\ source' = source /\ target' = target /\ fromGen' = fromGen /\ work' = work
  BY DEF SaveSnapshot, LocalInv, TypeOK, manifestVars, targetVars
<1>3. \A t \in Transfers : Known(t)'
  BY <1>2 DEF LocalInv, Known
<1>4. PICK s : s = mem[m]
  OBVIOUS
<1>5. RecordFits(m, s)' /\ OpFits(m, s, op[m]) /\ Mirrored(s, s) /\ ProofsFit(proofs[m], s, s)
  BY <1>2, <1>4 DEF LocalInv, RecordFits, Tied, Mirrored, ProofsFit
<1>6. RestTyped'
  BY RestIsTyped DEF SaveSnapshot, LocalInv, RestTyped, targetVars
<1>7. /\ s \in Sessions /\ mem' = [mem EXCEPT ![m] = s] /\ disk' = [disk EXCEPT ![m] = s]
  BY <1>1, <1>4
<1> QED
  BY <1>1, <1>2, <1>3, <1>5, <1>6, <1>7, MachineMoves

-----------------------------------------------------------------------------
(* Conflicts and restarts. *)

LEMMA ConflictedFields ==
  ASSUME NEW s \in Sessions, NEW t \in Transfers, NEW other \in Nat
  PROVE  LET c == Conflicted(s, t, other) IN
         /\ c \in Sessions
         /\ c.state = "conflict" /\ c.transfer = t /\ c.other = other
         /\ c.gen = s.gen /\ c.claim = s.claim /\ c.from = s.from
  BY DEF Conflicted, Sessions, SessionStates, MaybeTransfer

\* The conflict is recorded, whichever of its two writes succeed.
LEMMA RecordConflictLocal ==
  ASSUME LocalInv, NEW m \in Machines, NEW t \in Transfers, NEW other \in Nat,
         NEW kind \in {"recovery-contradicted", "target-session-detected"},
         NEW proved \in BOOLEAN, NEW saved \in BOOLEAN,
         RecordConflict(m, t, other, kind, proved, saved),
         \/ /\ kind = "target-session-detected"
            /\ mem[m].state = "staged"
            /\ mem[m].transfer = t
         \/ /\ kind = "recovery-contradicted"
            /\ mem[m].state = "live"
            /\ mem[m].claim = t,
         op' = [op EXCEPT ![m] = Idle], UNCHANGED <<manifestVars, work>>,
         faults' \in 0 .. MaxFaults => RestTyped'
  PROVE  LocalInv'
<1>1. /\ mem[m] \in Sessions /\ RecordFits(m, mem[m]) /\ proofs[m] = {}
      /\ disk[m] = mem[m] /\ TypeOK
  BY DEF LocalInv, TypeOK, ProofsFit, Mirrored
<1>2. PICK s : s = Conflicted(mem[m], t, other)
  OBVIOUS
<1>3. /\ s \in Sessions
      /\ s.state = "conflict" /\ s.transfer = t /\ s.other = other
      /\ s.gen = mem[m].gen /\ s.claim = mem[m].claim /\ s.from = mem[m].from
  BY <1>1, <1>2, ConflictedFields
<1>4. PICK p : p = [transfer |-> t, kind |-> kind, gen |-> s.gen, other |-> other]
  OBVIOUS
<1>5. /\ p \in Proofs /\ p.transfer = t /\ p.kind = kind /\ p.gen = s.gen /\ p.other = other
  BY <1>3, <1>4 DEF Proofs, Sessions
<1>6. PICK P : P = IF proved THEN {p} ELSE {}
  OBVIOUS
<1>7. PICK d : d = IF saved THEN s ELSE mem[m]
  OBVIOUS
<1>8. P \in SUBSET Proofs /\ d \in Sessions
  BY <1>1, <1>3, <1>5, <1>6, <1>7
<1>9. mem' = [mem EXCEPT ![m] = s] /\ disk' = [disk EXCEPT ![m] = d]
  BY <1>1, <1>2, <1>7 DEF RecordConflict, LocalInv, TypeOK
<1>10. proofs' = [proofs EXCEPT ![m] = P]
  <2>1. proofs' = [proofs EXCEPT ![m] = IF proved THEN proofs[m] \cup {p} ELSE proofs[m]]
    BY <1>2, <1>4 DEF RecordConflict
  <2>2. (IF proved THEN proofs[m] \cup {p} ELSE proofs[m]) = P
    BY <1>1, <1>6
  <2> QED BY <2>1, <2>2
<1>11. Tied(m, mem[m], t)
  BY <1>1, TransferAssumption DEF RecordFits
<1>12. /\ source' \in [Transfers -> Machines \cup {NoMachine}]
       /\ target' \in [Transfers -> Machines \cup {NoMachine}]
       /\ fromGen' \in [Transfers -> Nat]
       /\ source' = source /\ target' = target /\ fromGen' = fromGen /\ work' = work
  BY DEF LocalInv, TypeOK, manifestVars
<1>13. RecordFits(m, s)'
  BY <1>3, <1>11, <1>12 DEF RecordFits, Tied
<1>14. \A u \in Transfers : Known(u)'
  BY <1>12 DEF LocalInv, Known
<1>15. OpFits(m, s, Idle) /\ Idle \in Ops
  BY IdleFits
<1>16. Mirrored(s, d)
  <2>1. CASE saved
    BY <1>7, <2>1 DEF Mirrored
  <2>2. CASE ~saved
    <3>1. s = Conflicted(d, s.transfer, s.other) /\ d = mem[m]
      BY <1>2, <1>3, <1>7, <2>2
    <3>2. mem[m].state = "staged" => mem[m].claim = NoTransfer
      BY <1>1 DEF RecordFits
    <3> QED
      BY <1>3, <3>1, <3>2 DEF Mirrored
  <2> QED BY <2>1, <2>2
<1>17. ProofsFit(P, s, d)
  BY <1>3, <1>5, <1>6, <1>7 DEF ProofsFit, Replays
<1>18. RestTyped'
  BY <1>1, FaultCounts DEF RecordConflict, TypeOK
<1> QED
  BY <1>3, <1>8, <1>9, <1>10, <1>12, <1>13, <1>14, <1>15, <1>16, <1>17, <1>18, MachineMoves

LEMMA OnExistingLocal ==
  ASSUME LocalInv, NEW m \in Machines, NEW proved \in BOOLEAN, NEW saved \in BOOLEAN,
         OnExisting(m, proved, saved)
  PROVE  LocalInv'
<1>1. /\ mem[m].state = "staged" /\ mem[m].transfer = op[m].transfer
      /\ op[m].transfer \in Transfers
  BY AnsweredStaged DEF OnExisting
<1>2. op[m].existing \in Nat
  BY DEF LocalInv, TypeOK, Ops
<1>3. EndOp(m, mem'[m], FALSE)
  BY DEF OnExisting
<1>4. op' = [op EXCEPT ![m] = Idle] /\ armed' \in [Machines -> BOOLEAN]
  BY <1>3, EndOpIdles
<1>5. outgoing' \in [Transfers -> BOOLEAN]
  BY DEF OnExisting, LocalInv, TypeOK
<1>6. faults' \in 0 .. MaxFaults => RestTyped'
  BY <1>4, <1>5, RestIsTyped DEF OnExisting, LocalInv, RestTyped, targetVars
<1>7. /\ RecordConflict(m, op[m].transfer, op[m].existing, "target-session-detected", proved, saved)
      /\ UNCHANGED <<manifestVars, work>>
  BY DEF OnExisting, targetVars
<1> QED
  BY <1>1, <1>2, <1>4, <1>6, <1>7, RecordConflictLocal

LEMMA CheckContradictsLocal ==
  ASSUME LocalInv, NEW m \in Machines, NEW proved \in BOOLEAN, NEW saved \in BOOLEAN,
         CheckContradicts(m, proved, saved)
  PROVE  LocalInv'
<1>1. /\ mem[m].state = "live" /\ mem[m].claim = op[m].transfer
      /\ op[m].transfer \in Transfers
  BY AnsweredClaim DEF CheckContradicts, Contradicted
<1>2. fromGen[op[m].transfer] + 1 \in Nat
  BY <1>1 DEF LocalInv, TypeOK
<1>3. EndOp(m, mem'[m], FALSE)
  BY DEF CheckContradicts
<1>4. op' = [op EXCEPT ![m] = Idle] /\ armed' \in [Machines -> BOOLEAN]
  BY <1>3, EndOpIdles
<1>5. faults' \in 0 .. MaxFaults => RestTyped'
  BY <1>4, RestIsTyped DEF CheckContradicts, LocalInv, RestTyped, targetVars
<1>6. /\ RecordConflict(m, op[m].transfer, fromGen[op[m].transfer] + 1,
                        "recovery-contradicted", proved, saved)
      /\ UNCHANGED <<manifestVars, work>>
  BY DEF CheckContradicts, targetVars
<1> QED
  BY <1>1, <1>2, <1>4, <1>5, <1>6, RecordConflictLocal

\* A starting daemon finds what memory had, unless neither write of a conflict
\* succeeded.
LEMMA RestoredIs ==
  ASSUME LocalInv, NEW m \in Machines
  PROVE  \/ Restored(m) = mem[m]
         \/ /\ Restored(m) = disk[m]
            /\ disk[m] # mem[m]
            /\ proofs[m] = {}
<1> DEFINE replayed == {p \in proofs[m] : disk[m].state # "conflict" /\ Replays(p, disk[m])}
<1>1. /\ RecordFits(m, mem[m]) /\ Mirrored(mem[m], disk[m])
      /\ ProofsFit(proofs[m], mem[m], disk[m]) /\ proofs[m] \in SUBSET Proofs
  BY DEF LocalInv, TypeOK
<1>2. Restored(m) = IF replayed = {} THEN disk[m]
                    ELSE LET p == CHOOSE p \in replayed : TRUE IN Conflicted(disk[m], p.transfer, p.other)
  BY DEF Restored
<1>3. CASE disk[m] = mem[m]
  <2>1. ASSUME NEW p \in replayed PROVE FALSE
    <3>1. p \in proofs[m] /\ mem[m].state # "conflict" /\ Replays(p, mem[m]) /\ p \in Proofs
      BY <1>1, <1>3, <2>1
    <3>2. mem[m].state = "transferred"
      BY <1>1, <3>1 DEF ProofsFit
    <3>3. mem[m].claim = NoTransfer /\ p.transfer \in Transfers
      BY <1>1, <3>1, <3>2 DEF RecordFits, Proofs
    <3> QED
      BY <3>1, <3>2, <3>3, TransferAssumption DEF Replays
  <2>2. replayed = {}
    BY <2>1
  <2> QED
    BY <1>2, <1>3, <2>2
<1>4. CASE disk[m] # mem[m]
  <2>1. /\ mem[m].state = "conflict" /\ disk[m].state # "conflict"
        /\ mem[m] = Conflicted(disk[m], mem[m].transfer, mem[m].other)
    BY <1>1, <1>4 DEF Mirrored
  <2>2. replayed = proofs[m]
    BY <1>1, <2>1 DEF ProofsFit
  <2>3. CASE proofs[m] = {}
    BY <1>2, <1>4, <2>2, <2>3
  <2>4. CASE proofs[m] # {}
    <3> DEFINE p == CHOOSE p \in replayed : TRUE
    <3>1. p \in proofs[m]
      BY <2>2, <2>4
    <3>2. p.transfer = mem[m].transfer /\ p.other = mem[m].other
      BY <1>1, <2>1, <3>1 DEF ProofsFit
    <3>3. Restored(m) = Conflicted(disk[m], p.transfer, p.other)
      BY <1>2, <2>2, <2>4
    <3> QED
      BY <2>1, <3>2, <3>3
  <2> QED
    BY <2>3, <2>4
<1> QED
  BY <1>3, <1>4

\* A record that only the store has fits its machine as well.
LEMMA StoredFits ==
  ASSUME LocalInv, NEW m \in Machines, disk[m] # mem[m]
  PROVE  /\ disk[m] \in Sessions /\ RecordFits(m, disk[m])
         /\ mem[m].state = "conflict"
         /\ disk[m].gen = mem[m].gen /\ disk[m].claim = mem[m].claim /\ disk[m].from = mem[m].from
         /\ \/ disk[m].state = "staged" /\ disk[m].transfer = mem[m].transfer
            \/ disk[m].state = "live" /\ disk[m].claim = mem[m].transfer
<1>1. /\ disk[m] \in Sessions /\ mem[m] \in Sessions
      /\ RecordFits(m, mem[m]) /\ Mirrored(mem[m], disk[m])
  BY DEF LocalInv, TypeOK
<1>2. /\ mem[m].state = "conflict"
      /\ mem[m] = Conflicted(disk[m], mem[m].transfer, mem[m].other)
      /\ \/ disk[m].state = "staged" /\ disk[m].transfer = mem[m].transfer /\ disk[m].claim = NoTransfer
         \/ disk[m].state = "live" /\ disk[m].claim = mem[m].transfer
  BY <1>1 DEF Mirrored
<1>3. Tied(m, mem[m], mem[m].transfer)
  BY <1>1, <1>2 DEF RecordFits
<1>4. mem[m].transfer \in Transfers /\ mem[m].other \in Nat
  BY <1>1, <1>3 DEF Tied, Sessions
<1>5. disk[m].gen = mem[m].gen /\ disk[m].claim = mem[m].claim /\ disk[m].from = mem[m].from
  BY <1>1, <1>2, <1>4, ConflictedFields
<1>6. RecordFits(m, disk[m])
  BY <1>2, <1>3, <1>5 DEF RecordFits, Tied
<1> QED
  BY <1>1, <1>2, <1>5, <1>6

LEMMA RestartLocal ==
  ASSUME LocalInv, NEW m \in Machines, NEW expired \in SUBSET Transfers, Restart(m, expired)
  PROVE  LocalInv'
<1>1. PICK s : s = Restored(m)
  OBVIOUS
<1>2. /\ mem[m] \in Sessions /\ disk[m] \in Sessions /\ proofs[m] \in SUBSET Proofs
      /\ RecordFits(m, mem[m]) /\ Mirrored(mem[m], disk[m])
      /\ ProofsFit(proofs[m], mem[m], disk[m])
  BY DEF LocalInv, TypeOK
<1>3. s \in Sessions /\ RecordFits(m, s) /\ Mirrored(s, disk[m]) /\ ProofsFit(proofs[m], s, disk[m])
  <2>1. CASE s = mem[m]
    BY <1>2, <2>1
  <2>2. CASE s = disk[m] /\ disk[m] # mem[m] /\ proofs[m] = {}
    BY <1>2, <2>2, StoredFits DEF Mirrored, ProofsFit
  <2> QED
    BY <1>1, <2>1, <2>2, RestoredIs
<1>4. /\ mem' = [mem EXCEPT ![m] = s] /\ op' = [op EXCEPT ![m] = Idle]
      /\ disk' = [disk EXCEPT ![m] = disk[m]] /\ proofs' = [proofs EXCEPT ![m] = proofs[m]]
  BY <1>1 DEF Restart, LocalInv, TypeOK
<1>5. /\ source' \in [Transfers -> Machines \cup {NoMachine}]
      /\ target' \in [Transfers -> Machines \cup {NoMachine}]
      /\ fromGen' \in [Transfers -> Nat]
      /\ source' = source /\ target' = target /\ fromGen' = fromGen
  BY DEF Restart, LocalInv, TypeOK, manifestVars
<1>6. /\ work' \in [Transfers -> {"none", "restoring", "saved"}]
      /\ \A t \in Transfers : work'[t] \in {"none", work[t]}
  BY DEF Restart, LocalInv, TypeOK
<1>7. \A t \in Transfers : Known(t)'
  BY <1>5, <1>6 DEF LocalInv, Known
<1>8. RecordFits(m, s)'
  BY <1>3, <1>5 DEF RecordFits, Tied
<1>9. OpFits(m, s, Idle) /\ Idle \in Ops
  BY IdleFits
<1>10. /\ late' \subseteq Transfers \X Methods /\ faults' \in 0 .. MaxFaults
       /\ armed' \in [Machines -> BOOLEAN]
  BY LateTyped, FaultCounts DEF Restart, LocalInv, TypeOK
<1>11. /\ outgoing' \in [Transfers -> BOOLEAN] /\ journal' \in [Transfers -> JournalStates]
  BY DEF Restart, LocalInv, TypeOK, JournalStates
<1>12. RestTyped'
  BY <1>6, <1>10, <1>11, RestIsTyped DEF Restart, LocalInv, RestTyped
<1> QED
  BY <1>2, <1>3, <1>4, <1>5, <1>7, <1>8, <1>9, <1>12, MachineMoves

-----------------------------------------------------------------------------

LEMMA LocalInit == Init => LocalInv
<1> SUFFICES ASSUME Init PROVE LocalInv
  OBVIOUS
<1>1. /\ Absent \in Sessions /\ Absent.state = "absent"
      /\ Imported(0, NoTransfer) \in Sessions
      /\ Imported(0, NoTransfer).state = "live" /\ Imported(0, NoTransfer).claim = NoTransfer
  BY DEF Absent, Imported, Sessions, SessionStates, MaybeTransfer
<1>2. ASSUME NEW m \in Machines
      PROVE  /\ mem[m] = IF m = Origin THEN Imported(0, NoTransfer) ELSE Absent
             /\ disk[m] = mem[m] /\ op[m] = Idle /\ proofs[m] = {}
  BY <1>2 DEF Init
<1>3. TypeOK
  <2>1. mem \in [Machines -> Sessions] /\ disk \in [Machines -> Sessions]
    BY <1>1 DEF Init
  <2>2. Idle \in Ops
    BY IdleFits
  <2> QED
    BY <2>1, <2>2, TransferAssumption DEF Init, TypeOK, JournalStates
<1>4. ASSUME NEW m \in Machines
      PROVE  /\ RecordFits(m, mem[m])
             /\ OpFits(m, mem[m], op[m])
             /\ Mirrored(mem[m], disk[m])
             /\ ProofsFit(proofs[m], mem[m], disk[m])
  <2>1. RecordFits(m, mem[m])
    BY <1>1, <1>2, <1>4 DEF RecordFits
  <2>2. OpFits(m, mem[m], op[m])
    BY <1>2, <1>4, IdleFits
  <2> QED
    BY <1>2, <1>4, <2>1, <2>2 DEF Mirrored, ProofsFit
<1>5. ASSUME NEW t \in Transfers PROVE Known(t)
  BY <1>5, TransferAssumption DEF Init, Known
<1> QED
  BY <1>3, <1>4, <1>5 DEF LocalInv

LEMMA LocalStep == LocalInv /\ [Next]_vars => LocalInv'
<1> SUFFICES ASSUME LocalInv, [Next]_vars PROVE LocalInv'
  OBVIOUS
<1>1. ASSUME NEW m \in Machines, SourceStep(m) PROVE LocalInv'
  BY <1>1, AsideLocal, RecordStagedLocal, DeliverLocal, LoseLocal, OnCommittedLocal,
     OnReleasedLocal, SendNextLocal, EndsLocal, OnExistingLocal, RecoverPreparingLocal,
     BeginsLocal, NotesLocal, RecoverCallsLocal, ClaimSourceLocal, CheckClearsLocal,
     CheckContradictsLocal, SaveSnapshotLocal
  DEF SourceStep
<1>2. ASSUME NEW t \in Transfers, TargetStep(t) PROVE LocalInv'
  BY <1>2, ServeLocal, BeginCommitLocal, CommitEndsLocal, SaveCommitLocal DEF TargetStep
<1>3. ASSUME NEW m \in Machines, PersonStep(m) PROVE LocalInv'
  BY <1>3, PreviewLocal, FreezeLocal, ResolveConflictLocal, BeginsLocal, AsideLocal DEF PersonStep
<1>4. ASSUME NEW m \in Machines, FaultStep(m) PROVE LocalInv'
  BY <1>4, AbandonSendLocal, LoseLocal, InterruptLocal, RestartLocal DEF FaultStep
<1>5. CASE UNCHANGED vars
  <2>1. TypeOK' /\ (\A t \in Transfers : Known(t)')
    BY <1>5 DEF LocalInv, TypeOK, Known, vars
  <2>2. ASSUME NEW m \in Machines
        PROVE  /\ RecordFits(m, mem[m])'
               /\ OpFits(m, mem[m], op[m])'
               /\ Mirrored(mem[m], disk[m])'
               /\ ProofsFit(proofs[m], mem[m], disk[m])'
    <3>1. RecordFits(m, mem[m])' /\ OpFits(m, mem[m], op[m])'
      BY <1>5, <2>2 DEF LocalInv, RecordFits, Tied, OpFits, vars
    <3>2. Mirrored(mem[m], disk[m])'
      BY <1>5, <2>2 DEF LocalInv, Mirrored, Conflicted, vars
    <3>3. ProofsFit(proofs[m], mem[m], disk[m])'
      BY <1>5, <2>2 DEF LocalInv, ProofsFit, Replays, vars
    <3> QED BY <3>1, <3>2, <3>3
  <2> QED
    BY <2>1, <2>2 DEF LocalInv
<1> QED
  BY <1>1, <1>2, <1>3, <1>4, <1>5 DEF Next

\* The records, the operations and the proofs of every machine fit together, however
\* the daemons crash and the calls between them fail (server.ts, #recoverSessionTransfer,
\* restoreDetectedConflict).
THEOREM LocalCorrect == Spec => []LocalInv
<1>1. QED
  BY LocalInit, LocalStep, PTL DEF Spec

\* What a step may make of the record of a machine that has one.
Changes(m) ==
    \/ mem'[m] = mem[m]
    \/ /\ mem'[m].from = mem[m].from
       /\ mem'[m].state # "absent"
       /\ mem[m].state = "conflict" =>
             \/ mem'[m].state = "transferred"
             \/ /\ mem'[m] = disk[m]
                /\ disk[m] # mem[m]
                /\ proofs[m] = {}

LEMMA Persists ==
  ASSUME LocalInv, NEW m \in Machines, NEW s, mem' = [mem EXCEPT ![m] = s],
         s.from = mem[m].from, s.state # "absent",
         mem[m].state # "conflict" \/ s.state = "transferred"
  PROVE  \A k \in Machines : Changes(k)
  BY DEF LocalInv, TypeOK, Changes

LEMMA SourceChanges ==
  ASSUME LocalInv, NEW m \in Machines, SourceStep(m)
  PROVE  \A k \in Machines : Changes(k)
<1>0. mem[m] \in Sessions
  BY DEF LocalInv, TypeOK
<1>1. CASE UNCHANGED mem
  BY <1>1 DEF Changes
<1>2. CASE RecordStaged(m)
  <2> DEFINE s == [mem[m] EXCEPT !.state = "staged"]
  <2>1. mem' = [mem EXCEPT ![m] = s] /\ mem[m].state = "preparing"
    BY <1>2 DEF RecordStaged, Persist
  <2>2. s.from = mem[m].from /\ s.state = "staged"
    BY <1>0 DEF Sessions
  <2> HIDE DEF s
  <2> QED BY <2>1, <2>2, Persists
<1>3. CASE OnCommitted(m)
  <2> DEFINE s == [mem[m] EXCEPT !.state = "transferred", !.gen = mem[m].gen + 1,
                                 !.unconfirmed = FALSE]
  <2>1. mem' = [mem EXCEPT ![m] = s]
    BY <1>3 DEF OnCommitted, Persist
  <2>2. s.from = mem[m].from /\ s.state = "transferred"
    BY <1>0 DEF Sessions
  <2> HIDE DEF s
  <2> QED BY <2>1, <2>2, Persists
<1>4. CASE OnReleased(m) \/ RecoverPreparing(m)
  <2>1. mem' = [mem EXCEPT ![m] = Thawed(mem[m])]
    BY <1>4 DEF OnReleased, RecoverPreparing, Persist
  <2>2. Frozen(mem[m]) /\ RecordFits(m, mem[m])
    BY <1>4, ReleasesStaged DEF OnReleased, RecoverPreparing, Frozen, LocalInv
  <2>3. Thawed(mem[m]).from = mem[m].from /\ Thawed(mem[m]).state = "live"
    BY <1>0, <2>2, ThawFits
  <2> QED BY <2>1, <2>2, <2>3, Persists DEF Frozen
<1>5. CASE RecoverUnconfirmed(m) \/ RecoverResumes(m) \/ ClaimRefused(m)
           \/ RecoverRetries(m) \/ RecoverAborts(m)
  <2>1. PICK b \in BOOLEAN : mem' = [mem EXCEPT ![m] = [mem[m] EXCEPT !.unconfirmed = b]]
    BY <1>5 DEF RecoverUnconfirmed, RecoverResumes, ClaimRefused, RecoverRetries, RecoverAborts,
                Confirmed, Persist
  <2>2. Answered(m, {"recover", "claim"}, Methods, Replies)
    BY <1>5 DEF RecoverUnconfirmed, RecoverResumes, ClaimRefused, RecoverRetries, RecoverAborts,
                Answered, Methods, Replies, JournalStates
  <2>3. mem[m].state = "staged" /\ RecordFits(m, mem[m])
    BY <2>2, AnsweredStaged
  <2> DEFINE s == [mem[m] EXCEPT !.unconfirmed = b]
  <2>4. s.from = mem[m].from /\ s.state = "staged"
    BY <1>0, <2>3, NoteFits
  <2> HIDE DEF s
  <2> QED BY <2>1, <2>3, <2>4, Persists DEF s
<1>6. CASE ClaimSource(m)
  <2> DEFINE s == [Thawed(mem[m]) EXCEPT !.claim = op[m].transfer]
  <2>1. mem' = [mem EXCEPT ![m] = s]
    BY <1>6 DEF ClaimSource, Persist
  <2>2. s.from = mem[m].from /\ s.state = "live"
    BY <1>0 DEF Sessions, Thawed
  <2>3. mem[m].state = "staged"
    BY <1>6, AnsweredStaged DEF ClaimSource
  <2> HIDE DEF s
  <2> QED BY <2>1, <2>2, <2>3, Persists
<1>7. CASE CheckClears(m)
  <2> DEFINE s == [mem[m] EXCEPT !.claim = NoTransfer]
  <2>1. mem' = [mem EXCEPT ![m] = s] /\ mem[m].state = "live"
    BY <1>7, AnsweredClaim DEF CheckClears, Persist
  <2>2. s.from = mem[m].from /\ s.state = "live"
    BY <1>0, <2>1 DEF Sessions
  <2> HIDE DEF s
  <2> QED BY <2>1, <2>2, Persists
<1>8. ASSUME NEW proved \in BOOLEAN, NEW saved \in BOOLEAN, OnExisting(m, proved, saved)
      PROVE  \A k \in Machines : Changes(k)
  <2> DEFINE s == Conflicted(mem[m], op[m].transfer, op[m].existing)
  <2>1. mem' = [mem EXCEPT ![m] = s]
    BY <1>8 DEF OnExisting, RecordConflict
  <2>2. s.from = mem[m].from /\ s.state = "conflict"
    BY <1>0 DEF Sessions, Conflicted
  <2>3. mem[m].state = "staged"
    BY <1>8, AnsweredStaged DEF OnExisting
  <2> HIDE DEF s
  <2> QED BY <2>1, <2>2, <2>3, Persists
<1>9. ASSUME NEW proved \in BOOLEAN, NEW saved \in BOOLEAN, CheckContradicts(m, proved, saved)
      PROVE  \A k \in Machines : Changes(k)
  <2> DEFINE s == Conflicted(mem[m], op[m].transfer, fromGen[op[m].transfer] + 1)
  <2>1. mem' = [mem EXCEPT ![m] = s]
    BY <1>9 DEF CheckContradicts, RecordConflict
  <2>2. s.from = mem[m].from /\ s.state = "conflict"
    BY <1>0 DEF Sessions, Conflicted
  <2>3. mem[m].state = "live"
    BY <1>9, AnsweredClaim DEF CheckContradicts, Contradicted
  <2> HIDE DEF s
  <2> QED BY <2>1, <2>2, <2>3, Persists
<1>10. CASE WritePackage(m) \/ Deliver(m) \/ TimeOut(m) \/ SendNext(m) \/ SendIncomplete(m)
            \/ BeginRecovery(m) \/ RecoverEnds(m) \/ BeginCheck(m) \/ CheckInconclusive(m)
            \/ TimerLapses(m) \/ SaveSnapshot(m)
  BY <1>1, <1>10 DEF WritePackage, Deliver, TimeOut, SendNext, SendIncomplete, BeginRecovery,
     RecoverEnds, BeginCheck, CheckInconclusive, TimerLapses, SaveSnapshot, machineVars
<1> QED
  BY <1>2, <1>3, <1>4, <1>5, <1>6, <1>7, <1>8, <1>9, <1>10 DEF SourceStep

LEMMA StepChanges ==
  ASSUME LocalInv, [Next]_vars, NEW k \in Machines, mem[k].state # "absent"
  PROVE  Changes(k)
<1>0. CASE UNCHANGED mem
  BY <1>0 DEF Changes
<1>1. ASSUME NEW m \in Machines, SourceStep(m) PROVE Changes(k)
  BY <1>1, SourceChanges
<1>2. ASSUME NEW t \in Transfers, TargetStep(t) PROVE Changes(k)
  <2>1. CASE SaveCommit(t)
    BY <2>1 DEF SaveCommit, Persist, LocalInv, TypeOK, Changes
  <2>2. CASE ~SaveCommit(t)
    <3>1. UNCHANGED mem
      BY <1>2, <2>2 DEF TargetStep, ServeStatus, ServePrepare, ServeMembers, ServeAbort, ServeCommit,
         BeginCommit, FailCommit, FinishCommit
    <3> QED BY <1>0, <3>1
  <2> QED BY <2>1, <2>2
<1>3. ASSUME NEW m \in Machines, PersonStep(m) PROVE Changes(k)
  <2>0. mem[m] \in Sessions
    BY DEF LocalInv, TypeOK
  <2>1. ASSUME NEW t \in Transfers, Freeze(m, t) PROVE Changes(k)
    <3> DEFINE s == [mem[m] EXCEPT !.state = "preparing", !.transfer = t]
    <3>1. mem' = [mem EXCEPT ![m] = s]
      BY <2>1 DEF Freeze, Persist
    <3>2. s.from = mem[m].from /\ s.state = "preparing"
      BY <2>0 DEF Sessions
    <3>3. mem[m].state = "live"
      BY <2>1 DEF Freeze, LocalInv, OpFits
    <3> HIDE DEF s
    <3> QED BY <3>1, <3>2, <3>3, Persists
  <2>2. CASE ResolveConflict(m)
    <3> DEFINE s == [mem[m] EXCEPT !.state = "transferred", !.gen = mem[m].other, !.claim = NoTransfer]
    <3>1. mem' = [mem EXCEPT ![m] = s]
      BY <2>2 DEF ResolveConflict, Persist
    <3>2. s.from = mem[m].from /\ s.state = "transferred"
      BY <2>0 DEF Sessions
    <3> HIDE DEF s
    <3> QED BY <3>1, <3>2, Persists
  <2>3. CASE (\E n \in Machines : Preview(m, n)) \/ BeginClaim(m) \/ ToggleProject(m)
    BY <1>0, <2>3 DEF Preview, BeginClaim, ToggleProject, machineVars
  <2> QED BY <1>3, <2>1, <2>2, <2>3 DEF PersonStep
<1>4. ASSUME NEW m \in Machines, FaultStep(m) PROVE Changes(k)
  <2>1. CASE AbandonSend(m)
    <3>1. mem[m] \in Sessions /\ Frozen(mem[m]) /\ RecordFits(m, mem[m])
      BY <2>1 DEF AbandonSend, LocalInv, TypeOK, OpFits, Frozen
    <3>2. CASE Persist(m, Thawed(mem[m]))
      <4>1. Thawed(mem[m]).from = mem[m].from /\ Thawed(mem[m]).state = "live"
        BY <3>1, ThawFits
      <4> QED BY <3>1, <3>2, <4>1, Persists DEF Persist, Frozen
    <3> QED BY <1>0, <2>1, <3>2 DEF AbandonSend
  <2>2. CASE Lose(m) \/ Interrupt(m)
    BY <1>0, <2>2 DEF Lose, Interrupt
  <2>3. ASSUME NEW expired \in SUBSET Transfers, Restart(m, expired) PROVE Changes(k)
    <3>1. mem' = [mem EXCEPT ![m] = Restored(m)]
      BY <2>3 DEF Restart
    <3>2. CASE k # m
      BY <3>1, <3>2 DEF LocalInv, TypeOK, Changes
    <3>3. CASE k = m
      <4>1. mem'[m] = Restored(m)
        BY <3>1 DEF LocalInv, TypeOK
      <4>2. CASE Restored(m) = mem[m]
        BY <3>3, <4>1, <4>2 DEF Changes
      <4>3. CASE Restored(m) = disk[m] /\ disk[m] # mem[m] /\ proofs[m] = {}
        <5>1. disk[m].from = mem[m].from /\ disk[m].state # "absent"
          BY <4>3, StoredFits
        <5> QED BY <3>3, <4>1, <4>3, <5>1 DEF Changes
      <4> QED BY <4>2, <4>3, RestoredIs
    <3> QED BY <3>2, <3>3
  <2> QED BY <1>4, <2>1, <2>2, <2>3 DEF FaultStep
<1>5. CASE UNCHANGED vars
  BY <1>0, <1>5 DEF vars
<1> QED
  BY <1>1, <1>2, <1>3, <1>4, <1>5 DEF Next

\* An arriving session never overwrites one that is there, even when requests outlive
\* their connections and two commits overlap (the live check of save in server.ts).
THEOREM ArrivalsCorrect == Spec => ArrivalNeverOverwrites
<1>1. ASSUME LocalInv, [Next]_vars
      PROVE  [\A m \in Machines :
                mem[m].state # "absent" =>
                    mem'[m].state # "absent" /\ mem'[m].from = mem[m].from]_vars
  BY <1>1, StepChanges DEF Changes
<1> QED
  BY <1>1, LocalCorrect, PTL DEF Spec, ArrivalNeverOverwrites

\* A detected conflict survives failed writes and restarts: only a person ends it once
\* one of its writes succeeded, and otherwise it is detected again (transfer-conflicts.ts,
\* #freezeTargetOwnershipConflict, markSourceOwnershipConflict).
THEOREM ConflictsCorrect == Spec => ConflictNotForgotten
<1>1. ASSUME LocalInv, [Next]_vars
      PROVE  [\A m \in Machines :
                mem[m].state = "conflict" =>
                    /\ ~(mem'[m].state = "live" /\ mem'[m].claim = NoTransfer)
                    /\ Durable(m) => mem'[m].state \in {"conflict", "transferred"}]_vars
  <2> SUFFICES ASSUME NEW m \in Machines, mem[m].state = "conflict"
               PROVE  /\ ~(mem'[m].state = "live" /\ mem'[m].claim = NoTransfer)
                      /\ Durable(m) => mem'[m].state \in {"conflict", "transferred"}
    OBVIOUS
  <2>1. Changes(m)
    BY <1>1, StepChanges
  <2>2. CASE mem'[m].state \in {"conflict", "transferred"}
    BY <2>2
  <2>3. CASE mem'[m] = disk[m] /\ disk[m] # mem[m] /\ proofs[m] = {}
    <3>1. /\ RecordFits(m, mem[m])
          /\ \/ disk[m].state = "staged" /\ disk[m].transfer = mem[m].transfer
             \/ disk[m].state = "live" /\ disk[m].claim = mem[m].transfer
      BY <1>1, <2>3, StoredFits DEF LocalInv
    <3>2. mem[m].transfer \in Transfers
      BY <3>1 DEF RecordFits, Tied
    <3> QED
      BY <2>3, <3>1, <3>2, TransferAssumption DEF Durable
  <2> QED
    BY <2>1, <2>2, <2>3 DEF Changes
<1> QED
  BY <1>1, LocalCorrect, PTL DEF Spec, ConflictNotForgotten

-----------------------------------------------------------------------------
(* Both machines of a transfer. *)

\* Record s has not given up transfer t: it is frozen for it, or claims against it.
OpenIn(s, t) ==
    \/ s.state \in {"preparing", "staged"} /\ s.transfer = t
    \/ s.state = "live" /\ s.claim = t

\* The target has not committed t and is not about to.
Uncommitted(t) == ~row[t] /\ work[t] = "none"

\* The target has not heard of t.
Unsent(t) == journal[t] = "absent" /\ Uncommitted(t)

TransferFits(t) ==
    /\ source[t] = NoMachine => Unsent(t)
    /\ work[t] = "restoring" => OpenIn(mem[source[t]], t) /\ ~row[t]
    /\ work[t] = "saved" => row[t]
    /\ journal[t] = "committed" => row[t]
    /\ row[t] => source[t] \in Machines /\ mem[target[t]].state # "absent" /\ mem[target[t]].gen > fromGen[t]
    /\ source[t] \in Machines =>
          (OpenIn(mem[source[t]], t) /\ ~row[t] => mem[target[t]].state = "absent")

\* What a record says of other machines is so.
RecordTrue(s) ==
    /\ s.from # NoTransfer => row[s.from]
    /\ s.state = "preparing" => Unsent(s.transfer)
    /\ s.state = "conflict" => row[s.transfer] /\ s.other = s.gen + 1

\* What an operation learnt is still so.
OpTrue(o) ==
    /\ o.kind = "preview" => mem[o.peer].state = "absent"
    /\ o.kind = "send" => (o.wait = "none" => Uncommitted(o.transfer))
    /\ o.wait # "none" => (o.call \in {"prepare", "member"} => Uncommitted(o.transfer))
    /\ o.wait = "answered" =>
          /\ o.reply = "committed" => row[o.transfer]
          /\ o.reply \notin {"committed", "error"} => Uncommitted(o.transfer)
          /\ o.reply # "existing"

CommitInv ==
    /\ late = {}
    /\ \A t \in Transfers : TransferFits(t)
    /\ \A m \in Machines : RecordTrue(mem[m]) /\ OpTrue(op[m])
    /\ ExactlyOneHolder
    /\ HolderIsNewest

\* A preparing record and an operation under way are about transfers of their machine.
LEMMA OwnTransfers ==
  ASSUME LocalInv, NEW k \in Machines
  PROVE  /\ mem[k] \in Sessions /\ op[k] \in Ops
         /\ RecordFits(k, mem[k]) /\ OpFits(k, mem[k], op[k])
         /\ mem[k].state \in {"preparing", "staged", "conflict"} =>
               mem[k].transfer \in Transfers /\ source[mem[k].transfer] = k
         /\ op[k].wait # "none" \/ op[k].kind = "send" =>
               op[k].transfer \in Transfers /\ source[op[k].transfer] = k
         /\ op[k].kind = "preview" => op[k].peer \in Machines /\ mem[k].state = "live"
                                      /\ mem[k].claim = NoTransfer
<1>1. mem[k] \in Sessions /\ op[k] \in Ops /\ RecordFits(k, mem[k]) /\ OpFits(k, mem[k], op[k])
  BY DEF LocalInv, TypeOK
<1>2. mem[k].state \in {"preparing", "staged", "conflict"} =>
        mem[k].transfer \in Transfers /\ source[mem[k].transfer] = k
  BY <1>1 DEF RecordFits, Tied
<1>3. op[k].kind = "send" => op[k].transfer \in Transfers /\ source[op[k].transfer] = k
  BY <1>1, <1>2 DEF OpFits
<1>4. op[k].wait # "none" => op[k].transfer \in Transfers /\ source[op[k].transfer] = k
  BY AwaitsOwn
<1> QED
  BY <1>1, <1>2, <1>3, <1>4 DEF OpFits

\* A step of machine m, or of the target for one of m's transfers, that commits nothing.
LEMMA Quiet ==
  ASSUME LocalInv, LocalInv', CommitInv, NEW m \in Machines,
         \A k \in Machines \ {m} : mem'[k] = mem[k] /\ op'[k] = op[k],
         UNCHANGED <<row, holder, source, target, fromGen>>, late' = {},
         \A t \in Transfers : work'[t] \in {"none", work[t]},
         \A t \in Transfers : journal'[t] = "committed" => row[t],
         \A t \in Transfers :
             \/ journal'[t] \in {journal[t], "absent"}
             \/ source[t] = m,
         mem'[m].state = "absent" <=> mem[m].state = "absent",
         mem'[m].gen >= mem[m].gen, mem'[m].gen <= mem[holder].gen,
         Holds(mem'[m]) <=> Holds(mem[m]),
         \A t \in Transfers : OpenIn(mem'[m], t) /\ ~row[t] => OpenIn(mem[m], t),
         \A t \in Transfers : OpenIn(mem[m], t) /\ work'[t] = "restoring" => OpenIn(mem'[m], t),
         RecordTrue(mem[m])', OpTrue(op[m])'
  PROVE  CommitInv'
<1>0. /\ \A k \in Machines : mem[k].gen \in Nat /\ mem'[k].gen \in Nat
      /\ holder \in Machines
      /\ \A t \in Transfers : row[t] \in BOOLEAN /\ fromGen[t] \in Nat
  BY DEF LocalInv, TypeOK, Sessions
<1>1. \A t \in Transfers : Uncommitted(t) => Uncommitted(t)'
  BY DEF Uncommitted
<1>2. \A t \in Transfers : source[t] # m /\ Unsent(t) => Unsent(t)'
  BY <1>1 DEF Unsent
<1>3. \A k \in Machines : mem'[k].state = "absent" <=> mem[k].state = "absent"
  OBVIOUS
<1>4. \A k \in Machines : mem'[k].gen >= mem[k].gen
  BY <1>0
<1>5. ASSUME NEW t \in Transfers PROVE TransferFits(t)'
  <2>0. TransferFits(t) /\ Known(t)
    BY <1>5 DEF CommitInv, LocalInv
  <2>1. (source[t] = NoMachine => Unsent(t))'
    BY <1>2, <1>5, <2>0, TransferAssumption DEF TransferFits
  <2>2. (work[t] = "restoring" => OpenIn(mem[source[t]], t) /\ ~row[t])'
    <3> SUFFICES ASSUME work'[t] = "restoring" PROVE OpenIn(mem[source[t]], t)' /\ ~row'[t]
      OBVIOUS
    <3>1. work[t] = "restoring"
      BY <1>5
    <3>2. OpenIn(mem[source[t]], t) /\ ~row[t] /\ source[t] \in Machines
      BY <2>0, <3>1 DEF TransferFits, Known
    <3>3. OpenIn(mem'[source[t]], t)
      BY <1>5, <3>2
    <3> QED BY <3>2, <3>3 DEF OpenIn
  <2>3. (work[t] = "saved" => row[t])' /\ (journal[t] = "committed" => row[t])'
    BY <1>5, <2>0 DEF TransferFits
  <2>4. (row[t] => source[t] \in Machines /\ mem[target[t]].state # "absent" /\ mem[target[t]].gen > fromGen[t])'
    <3> SUFFICES ASSUME row[t]
                 PROVE  source[t] \in Machines /\ mem'[target[t]].state # "absent" /\ mem'[target[t]].gen > fromGen[t]
      OBVIOUS
    <3>1. source[t] \in Machines /\ mem[target[t]].state # "absent" /\ mem[target[t]].gen > fromGen[t]
      BY <2>0 DEF TransferFits
    <3>2. target[t] \in Machines
      BY <2>0, <3>1 DEF Known
    <3> QED BY <1>0, <1>3, <1>4, <1>5, <3>1, <3>2
  <2>5. (source[t] \in Machines =>
          (OpenIn(mem[source[t]], t) /\ ~row[t] => mem[target[t]].state = "absent"))'
    <3> SUFFICES ASSUME source[t] \in Machines, OpenIn(mem'[source[t]], t), ~row[t]
                 PROVE  mem'[target[t]].state = "absent"
      BY DEF OpenIn
    <3>1. OpenIn(mem[source[t]], t)
      BY <1>5
    <3>2. target[t] \in Machines /\ mem[target[t]].state = "absent"
      BY <2>0, <3>1 DEF TransferFits, Known
    <3> QED BY <1>3, <3>2
  <2> QED
    BY <2>1, <2>2, <2>3, <2>4, <2>5 DEF TransferFits
<1>6. ASSUME NEW k \in Machines, k # m PROVE RecordTrue(mem[k])' /\ OpTrue(op[k])'
  <2>0. RecordTrue(mem[k]) /\ OpTrue(op[k]) /\ mem'[k] = mem[k] /\ op'[k] = op[k]
    BY <1>6 DEF CommitInv
  <2>1. mem[k].state = "preparing" => Unsent(mem[k].transfer)'
    BY <1>2, <1>6, <2>0, OwnTransfers DEF RecordTrue
  <2>2. RecordTrue(mem[k])'
    BY <2>0, <2>1 DEF RecordTrue
  <2>3. op[k].kind = "preview" => mem'[op[k].peer].state = "absent"
    BY <1>3, <1>6, <2>0, OwnTransfers DEF OpTrue
  <2>4. /\ op[k].kind = "send" => (op[k].wait = "none" => Uncommitted(op[k].transfer)')
        /\ op[k].wait # "none" => (op[k].call \in {"prepare", "member"} => Uncommitted(op[k].transfer)')
        /\ op[k].wait = "answered" =>
              (op[k].reply \notin {"committed", "error"} => Uncommitted(op[k].transfer)')
    <3>1. op[k].wait # "none" \/ op[k].kind = "send" =>
            (Uncommitted(op[k].transfer) => Uncommitted(op[k].transfer)')
      BY <1>1, <1>6, <2>0, OwnTransfers DEF Uncommitted
    <3> QED BY <2>0, <3>1 DEF OpTrue
  <2>5. OpTrue(op[k])'
    BY <2>0, <2>3, <2>4 DEF OpTrue, Uncommitted
  <2> QED BY <2>2, <2>5
<1>7. ExactlyOneHolder'
  <2>1. \A k \in Machines : Holds(mem'[k]) <=> Holds(mem[k])
    OBVIOUS
  <2>2. \A k \in Machines : Holds(mem[k])' <=> Holds(mem'[k])
    BY DEF Holds
  <2> QED
    BY <2>1, <2>2 DEF CommitInv, ExactlyOneHolder
<1>8. HolderIsNewest'
  <2>1. \A k \in Machines : mem'[k].gen <= mem[holder].gen
    BY DEF CommitInv, HolderIsNewest
  <2> QED
    BY <1>0, <1>4, <2>1 DEF HolderIsNewest
<1> QED
  BY <1>5, <1>6, <1>7, <1>8 DEF CommitInv

\* The same where no record changes.
LEMMA OpQuiet ==
  ASSUME LocalInv, LocalInv', CommitInv, NEW m \in Machines,
         \A k \in Machines \ {m} : op'[k] = op[k],
         UNCHANGED <<mem, row, holder, source, target, fromGen>>, late' = {},
         \A t \in Transfers : work'[t] \in {"none", work[t]},
         \A t \in Transfers : journal'[t] = "committed" => row[t],
         \A t \in Transfers :
             \/ journal'[t] \in {journal[t], "absent"}
             \/ source[t] = m /\ mem[m].state # "preparing",
         OpTrue(op[m])'
  PROVE  CommitInv'
<1>1. mem[m].gen \in Nat /\ mem[m].gen <= mem[holder].gen /\ RecordTrue(mem[m])
  BY DEF LocalInv, TypeOK, Sessions, CommitInv, HolderIsNewest
<1>2. RecordTrue(mem[m])'
  <2>1. mem[m].state = "preparing" => Unsent(mem[m].transfer)'
    BY <1>1, OwnTransfers DEF RecordTrue, Unsent, Uncommitted
  <2> QED BY <1>1, <2>1 DEF RecordTrue, Unsent, Uncommitted
<1>3. mem'[m].gen >= mem[m].gen /\ mem'[m].gen <= mem[holder].gen
  BY <1>1
<1> QED
  BY <1>2, <1>3, Quiet

LEMMA IdleTrue ==
  ASSUME NEW m, op'[m] = Idle
  PROVE  OpTrue(op[m])'
  BY DEF OpTrue, Idle

\* Nothing changes but the operation of m.
LEMMA OpStill ==
  ASSUME LocalInv, LocalInv', CommitInv, NEW m \in Machines, NEW o, op' = [op EXCEPT ![m] = o],
         UNCHANGED <<mem, row, holder, source, target, fromGen, journal, work>>, late' = {},
         op'[m] = o => OpTrue(op[m])'
  PROVE  CommitInv'
<1>1. op'[m] = o /\ \A k \in Machines \ {m} : op'[k] = op[k]
  BY DEF LocalInv, TypeOK
<1>2. \A t \in Transfers : journal[t] = "committed" => row[t]
  BY DEF CommitInv, TransferFits
<1> QED
  BY <1>1, <1>2, OpQuiet

\* Nothing changes but the record and the operation of m.
LEMMA RecordStill ==
  ASSUME LocalInv, LocalInv', CommitInv, NEW m \in Machines, NEW s, NEW o,
         mem' = [mem EXCEPT ![m] = s], op' = [op EXCEPT ![m] = o],
         UNCHANGED <<row, holder, source, target, fromGen, journal, work>>, late' = {},
         s.state # "absent", mem[m].state # "absent",
         s.gen >= mem[m].gen, s.gen <= mem[holder].gen, s.from = mem[m].from,
         Holds(s) <=> Holds(mem[m]),
         \A t \in Transfers : OpenIn(s, t) /\ ~row[t] => OpenIn(mem[m], t),
         \A t \in Transfers : OpenIn(mem[m], t) /\ work[t] = "restoring" => OpenIn(s, t),
         s.state # "preparing",
         s.state = "conflict" => row[s.transfer] /\ s.other = s.gen + 1,
         op'[m] = o => OpTrue(op[m])'
  PROVE  CommitInv'
<1>1. mem'[m] = s /\ op'[m] = o
      /\ \A k \in Machines \ {m} : mem'[k] = mem[k] /\ op'[k] = op[k]
  BY DEF LocalInv, TypeOK
<1>2. \A t \in Transfers : journal[t] = "committed" => row[t]
  BY DEF CommitInv, TransferFits
<1>3. RecordTrue(mem[m])'
  BY <1>1 DEF CommitInv, RecordTrue
<1>4. OpTrue(op[m])'
  BY <1>1
<1> QED
  BY <1>1, <1>2, <1>3, <1>4, Quiet

\* The source thaws after the target was found without the session and not about to
\* have it.
LEMMA ThawStill ==
  ASSUME LocalInv, LocalInv', CommitInv, NEW m \in Machines, NEW o,
         mem' = [mem EXCEPT ![m] = Thawed(mem[m])], op' = [op EXCEPT ![m] = o],
         UNCHANGED <<row, holder, source, target, fromGen, journal, work>>, late' = {},
         Frozen(mem[m]), Uncommitted(mem[m].transfer),
         op'[m] = o => OpTrue(op[m])'
  PROVE  CommitInv'
<1> DEFINE s == Thawed(mem[m])
<1>1. mem[m] \in Sessions /\ RecordFits(m, mem[m]) /\ mem[m].gen \in Nat
      /\ mem[m].gen <= mem[holder].gen
  BY DEF LocalInv, TypeOK, Sessions, CommitInv, HolderIsNewest
<1>2. s.state = "live" /\ s.claim = NoTransfer /\ s.gen = mem[m].gen /\ s.from = mem[m].from
  BY <1>1, ThawFits
<1> HIDE DEF s
<1>3. Holds(s) /\ Holds(mem[m])
  BY <1>2 DEF Holds, Frozen, Uncommitted
<1>4. \A t \in Transfers : ~OpenIn(s, t)
  BY <1>2, TransferAssumption DEF OpenIn
<1>5. \A t \in Transfers : OpenIn(mem[m], t) => work[t] = "none"
  BY DEF OpenIn, Frozen, Uncommitted
<1>6. mem' = [mem EXCEPT ![m] = s]
  BY DEF s
<1>7. s.gen >= mem[m].gen /\ s.gen <= mem[holder].gen
  BY <1>1, <1>2
<1>8. mem[m].state # "absent"
  BY DEF Frozen
<1> QED
  BY <1>2, <1>3, <1>4, <1>5, <1>6, <1>7, <1>8, RecordStill

-----------------------------------------------------------------------------
(* The steps of an operation. *)

LEMMA PreviewCommit ==
  ASSUME LocalInv, LocalInv', CommitInv, NEW m \in Machines, NEW n \in Machines, Preview(m, n)
  PROVE  CommitInv'
<1> DEFINE o == [Idle EXCEPT !.kind = "preview", !.peer = n]
<1>1. op' = [op EXCEPT ![m] = o] /\ late' = {} /\ mem[n].state = "absent"
  BY DEF Preview, CommitInv
<1>2. UNCHANGED <<mem, row, holder, source, target, fromGen, journal, work>>
  BY DEF Preview, manifestVars, targetVars
<1>3. o.kind = "preview" /\ o.peer = n /\ o.wait = "none"
  BY DEF Idle
<1> HIDE DEF o
<1>4. op'[m] = o => OpTrue(op[m])'
  BY <1>1, <1>2, <1>3 DEF OpTrue
<1> QED
  BY <1>1, <1>2, <1>4, OpStill

LEMMA DeliverCommit ==
  ASSUME LocalInv, LocalInv', CommitInv, NEW m \in Machines, Deliver(m)
  PROVE  CommitInv'
<1> DEFINE o == [op[m] EXCEPT !.call = "status", !.wait = "sent", !.reply = "error"]
<1>1. op' = [op EXCEPT ![m] = o] /\ late' = {}
  BY DEF Deliver, Call, CommitInv
<1>2. UNCHANGED <<mem, row, holder, source, target, fromGen, journal, work>>
  BY DEF Deliver, manifestVars, targetVars
<1>3. o.kind = "send" /\ o.call = "status" /\ o.wait = "sent"
  BY DEF Deliver, LocalInv, TypeOK, Ops
<1> HIDE DEF o
<1>4. op'[m] = o => OpTrue(op[m])'
  BY <1>3 DEF OpTrue
<1> QED
  BY <1>1, <1>2, <1>4, OpStill

LEMMA SendNextCommit ==
  ASSUME LocalInv, LocalInv', CommitInv, NEW m \in Machines, SendNext(m)
  PROVE  CommitInv'
<1>1. PICK method \in {"prepare", "member", "commit"} : Call(m, method)
  BY DEF SendNext
<1>2. op[m] \in Ops /\ op[m].kind = "send" /\ Uncommitted(op[m].transfer)
  BY DEF SendNext, Answered, CommitInv, OpTrue, LocalInv, TypeOK
<1> DEFINE o == [op[m] EXCEPT !.call = method, !.wait = "sent", !.reply = "error"]
<1>3. op' = [op EXCEPT ![m] = o] /\ late' = {}
  BY <1>1 DEF SendNext, Call, CommitInv
<1>4. UNCHANGED <<mem, row, holder, source, target, fromGen, journal, work>>
  BY DEF SendNext, manifestVars, targetVars
<1>5. o.kind = "send" /\ o.wait = "sent" /\ o.transfer = op[m].transfer
  BY <1>2 DEF Ops
<1> HIDE DEF o
<1>6. op'[m] = o => OpTrue(op[m])'
  BY <1>2, <1>4, <1>5 DEF OpTrue, Uncommitted
<1> QED
  BY <1>3, <1>4, <1>6, OpStill

LEMMA LoseCommit ==
  ASSUME ~LateDelivery, LocalInv, LocalInv', CommitInv, NEW m \in Machines, Lose(m) \/ TimeOut(m)
  PROVE  CommitInv'
<1> DEFINE o == [op[m] EXCEPT !.wait = "answered", !.reply = "error"]
<1>1. op' = [op EXCEPT ![m] = o] /\ late' = {} /\ op[m].wait # "none"
  BY DEF Lose, TimeOut, CommitInv
<1>2. UNCHANGED <<mem, row, holder, source, target, fromGen, journal, work>>
  BY DEF Lose, TimeOut, manifestVars, targetVars
<1>3. op[m] \in Ops /\ OpTrue(op[m]) /\ OpFits(m, mem[m], op[m])
  BY DEF LocalInv, TypeOK, CommitInv
<1>4. /\ o.kind = op[m].kind /\ o.wait = "answered" /\ o.reply = "error"
      /\ o.call = op[m].call /\ o.transfer = op[m].transfer
  BY <1>3 DEF Ops
<1> HIDE DEF o
<1>5. op'[m] = o => OpTrue(op[m])'
  BY <1>1, <1>2, <1>3, <1>4 DEF OpTrue, OpFits, Uncommitted
<1> QED
  BY <1>1, <1>2, <1>5, OpStill

LEMMA EndsCommit ==
  ASSUME ~LateDelivery, LocalInv, LocalInv', CommitInv, NEW m \in Machines,
         Interrupt(m) \/ SendIncomplete(m) \/ RecoverEnds(m) \/ CheckInconclusive(m)
  PROVE  CommitInv'
<1>1. op' = [op EXCEPT ![m] = Idle] /\ late' = {}
  BY DEF Interrupt, SendIncomplete, RecoverEnds, CheckInconclusive, EndOp, CommitInv
<1>2. UNCHANGED <<mem, row, holder, source, target, fromGen, journal, work>>
  BY DEF Interrupt, SendIncomplete, RecoverEnds, CheckInconclusive, manifestVars, targetVars
<1> QED
  BY <1>1, <1>2, IdleTrue, OpStill

LEMMA BeginsCommit ==
  ASSUME LocalInv, LocalInv', CommitInv, NEW m \in Machines,
         BeginRecovery(m) \/ BeginClaim(m) \/ BeginCheck(m)
  PROVE  CommitInv'
<1>1. PICK kind \in {"recover", "claim", "check"}, t \in MaybeTransfer : Begin(m, kind, t)
  BY DEF BeginRecovery, BeginClaim, BeginCheck, LocalInv, TypeOK, Sessions
<1> DEFINE o == [Idle EXCEPT !.kind = kind, !.wait = "sent", !.transfer = t]
<1>2. op' = [op EXCEPT ![m] = o] /\ late' = {}
  BY <1>1 DEF Begin, BeginRecovery, BeginClaim, BeginCheck, CommitInv
<1>3. UNCHANGED <<mem, row, holder, source, target, fromGen, journal, work>>
  BY DEF BeginRecovery, BeginClaim, BeginCheck, manifestVars, targetVars
<1>4. o.kind = kind /\ o.wait = "sent" /\ o.call = "status"
  BY DEF Idle
<1> HIDE DEF o
<1>5. op'[m] = o => OpTrue(op[m])'
  BY <1>4 DEF OpTrue
<1> QED
  BY <1>2, <1>3, <1>5, OpStill

LEMMA AsideCommit ==
  ASSUME LocalInv, LocalInv', CommitInv, NEW m \in Machines,
         WritePackage(m) \/ TimerLapses(m) \/ ToggleProject(m) \/ SaveSnapshot(m)
  PROVE  CommitInv'
<1>1. op' = op /\ late' = {} /\ op' = [op EXCEPT ![m] = op[m]]
  BY DEF WritePackage, TimerLapses, ToggleProject, SaveSnapshot, machineVars, CommitInv, LocalInv, TypeOK
<1>2. UNCHANGED <<mem, row, holder, source, target, fromGen, journal, work>>
  BY DEF WritePackage, TimerLapses, ToggleProject, SaveSnapshot, machineVars, manifestVars, targetVars
<1>3. OpTrue(op[m])'
  BY <1>1, <1>2 DEF CommitInv, OpTrue, Uncommitted
<1> QED
  BY <1>1, <1>2, <1>3, OpStill

-----------------------------------------------------------------------------
(* The steps of the target that commit nothing. *)

LEMMA RespondCommit ==
  ASSUME LocalInv, LocalInv', CommitInv, NEW t \in Transfers, NEW method,
         Asked(t, method, FALSE), NEW r, Respond(t, method, FALSE, r),
         r = "committed" => row[t],
         r \notin {"committed", "error"} => ~row[t] /\ r # "existing",
         \A u \in Transfers \ {t} : journal'[u] = journal[u],
         journal'[t] = "committed" => row[t],
         UNCHANGED <<mem, row, holder, source, target, fromGen, work>>
  PROVE  CommitInv'
<1> DEFINE m == source[t]
           o == [op[m] EXCEPT !.wait = "answered", !.reply = r,
                              !.existing = IF r = "existing" THEN mem[target[t]].gen ELSE 0]
<1>1. m \in Machines /\ op[m].wait = "sent" /\ op[m].transfer = t /\ work[t] = "none"
  BY DEF Asked, LocalInv, TypeOK
<1>2. op' = [op EXCEPT ![m] = o] /\ late' = {}
  BY DEF Respond, CommitInv
<1>3. op[m] \in Ops /\ OpTrue(op[m]) /\ op[m].kind \in {"send", "recover", "claim", "check"}
      /\ mem[m].state # "preparing"
  BY <1>1, AwaitsOwn DEF LocalInv, TypeOK, CommitInv
<1>4. /\ o.kind = op[m].kind /\ o.wait = "answered" /\ o.reply = r
      /\ o.call = op[m].call /\ o.transfer = t
  BY <1>1, <1>3 DEF Ops
<1> HIDE DEF o
<1>5. op'[m] = o /\ \A k \in Machines \ {m} : op'[k] = op[k]
  BY <1>1, <1>2 DEF LocalInv, TypeOK
<1>7. OpTrue(op[m])'
  <2>1. op'[source'[t]] = o
    BY <1>5
  <2> QED
    BY <1>1, <1>3, <1>4, <2>1 DEF OpTrue, Uncommitted
<1>8. \A u \in Transfers : journal[u] = "committed" => row[u]
  BY DEF CommitInv, TransferFits
<1>9. \A u \in Transfers : journal'[u] = "committed" => row[u]
  BY <1>8
<1>10. PICK k \in Machines : k = source[t]
  BY <1>1
<1>11. OpTrue(op[k])'
  BY <1>7, <1>10
<1>12. \A u \in Transfers :
         \/ journal'[u] \in {journal[u], "absent"}
         \/ source[u] = k /\ mem[k].state # "preparing"
  BY <1>3, <1>10
<1>13. \A i \in Machines \ {k} : op'[i] = op[i]
  BY <1>5, <1>10
<1> QED
  BY <1>2, <1>9, <1>10, <1>11, <1>12, <1>13, OpQuiet

\* A handler that answers r where there is no ownership row.
LEMMA AnswerCommit ==
  ASSUME LocalInv, LocalInv', CommitInv, NEW t \in Transfers, NEW method,
         Asked(t, method, FALSE), NEW r, NEW j, Answer(t, method, FALSE, r, j),
         ~row[t] => r \notin {"committed", "existing"} /\ j # "committed",
         UNCHANGED <<mem, row, holder, source, target, fromGen, work>>
  PROVE  CommitInv'
<1> DEFINE q == IF row[t] THEN "committed" ELSE r
<1>1. Respond(t, method, FALSE, q)
  BY DEF Answer
<1>2. row[t] \in BOOLEAN
  BY DEF LocalInv, TypeOK
<1>3. q = "committed" => row[t]
  BY <1>2
<1>4. q \notin {"committed", "error"} => ~row[t] /\ q # "existing"
  BY <1>2
<1>5. /\ \A u \in Transfers \ {t} : journal'[u] = journal[u]
      /\ journal'[t] = "committed" => row[t]
  BY <1>2 DEF Answer, LocalInv, TypeOK
<1> HIDE DEF q
<1> QED
  BY <1>1, <1>3, <1>4, <1>5, RespondCommit

\* While a transfer is asked about and not committed, its target has no session.
LEMMA AskedAbsent ==
  ASSUME LocalInv, CommitInv, NEW t \in Transfers, NEW method, Asked(t, method, FALSE), ~row[t]
  PROVE  /\ mem[target[t]].state = "absent"
         /\ mem[target[t]].from # t
         /\ journal[t] # "committed"
<1>1. source[t] \in Machines /\ op[source[t]].wait # "none" /\ op[source[t]].transfer = t
  BY DEF Asked, LocalInv, TypeOK
<1>2. OpenIn(mem[source[t]], t) /\ target[t] \in Machines
  BY <1>1, AwaitsOwn DEF OpenIn
<1>3. mem[target[t]].state = "absent" /\ journal[t] # "committed"
  BY <1>1, <1>2 DEF CommitInv, TransferFits
<1>4. mem[target[t]] = Absent
  BY <1>2, <1>3 DEF LocalInv, RecordFits
<1> QED
  BY <1>3, <1>4, TransferAssumption DEF Absent

LEMMA ServeCommits ==
  ASSUME LocalInv, LocalInv', CommitInv, NEW t \in Transfers, NEW gone \in BOOLEAN,
         \/ ServeStatus(t, gone)
         \/ ServePrepare(t, gone)
         \/ ServeMembers(t, gone)
         \/ ServeAbort(t, gone)
         \/ ServeCommit(t, gone)
  PROVE  CommitInv'
<1>0. gone = FALSE /\ journal[t] \in JournalStates
  BY DEF CommitInv, ServeStatus, ServePrepare, ServeMembers, ServeAbort, ServeCommit, Asked,
         LocalInv, TypeOK
<1>1. UNCHANGED <<mem, row, holder, source, target, fromGen, work>>
  BY DEF ServeStatus, ServePrepare, ServeMembers, ServeAbort, ServeCommit, manifestVars
<1>2. CASE ServeStatus(t, gone)
  <2>1. Asked(t, "status", FALSE) /\ Answer(t, "status", FALSE, StatusAnswer(t), journal[t])
    BY <1>0, <1>2 DEF ServeStatus, StatusAnswer
  <2>2. ~row[t] => StatusAnswer(t) \notin {"committed", "existing"} /\ journal[t] # "committed"
    BY <1>0, <2>1, AskedAbsent DEF StatusAnswer, JournalStates
  <2> QED
    BY <1>1, <2>1, <2>2, AnswerCommit
<1>3. CASE ServePrepare(t, gone)
  <2>1. Asked(t, "prepare", FALSE)
    BY <1>0, <1>3 DEF ServePrepare
  <2>2. ~row[t] => mem[target[t]].state = "absent" /\ journal[t] # "committed"
    BY <2>1, AskedAbsent
  <2>3. CASE row[t]
    <3>1. PICK r \in Replies, j \in JournalStates : Answer(t, "prepare", FALSE, r, j)
      BY <1>0, <1>3 DEF ServePrepare, JournalStates, Replies
    <3> QED
      BY <1>1, <2>1, <2>3, <3>1, AnswerCommit
  <2>4. CASE ~row[t]
    <3>1. \/ Answer(t, "prepare", FALSE, "refused", journal[t])
          \/ Answer(t, "prepare", FALSE, "receiving", "receiving")
          \/ Answer(t, "prepare", FALSE, "prepared", "prepared")
      BY <1>0, <1>3, <2>2, <2>4 DEF ServePrepare
    <3> QED
      BY <1>1, <2>1, <2>2, <2>4, <3>1, AnswerCommit
  <2> QED
    BY <2>3, <2>4
<1>4. CASE ServeMembers(t, gone)
  <2>1. Asked(t, "member", FALSE)
    BY <1>0, <1>4 DEF ServeMembers
  <2>2. ~row[t]
    BY <2>1 DEF Asked, CommitInv, OpTrue, Uncommitted, LocalInv, TypeOK
  <2>3. PICK r \in {"prepared", "refused"} : Respond(t, "member", FALSE, r)
    BY <1>0, <1>4 DEF ServeMembers
  <2>4. journal[t] # "committed"
    BY <2>1, <2>2, AskedAbsent
  <2>5. /\ \A u \in Transfers \ {t} : journal'[u] = journal[u]
        /\ journal'[t] # "committed"
    BY <1>4, <2>4 DEF ServeMembers, LocalInv, TypeOK
  <2> QED
    BY <1>1, <2>1, <2>2, <2>3, <2>5, RespondCommit
<1>5. CASE ServeAbort(t, gone)
  <2>1. Asked(t, "abort", FALSE)
    BY <1>0, <1>5 DEF ServeAbort
  <2> DEFINE j == IF journal[t] \in {"absent", "committed"} THEN journal[t] ELSE "aborted"
  <2>2. /\ Answer(t, "abort", FALSE, AbortAnswer(t), j)
        /\ j = "committed" => journal[t] = "committed"
    BY <1>0, <1>5 DEF ServeAbort, AbortAnswer
  <2> HIDE DEF j
  <2>3. ~row[t] => AbortAnswer(t) \notin {"committed", "existing"} /\ j # "committed"
    BY <2>1, <2>2, AskedAbsent DEF AbortAnswer
  <2> QED
    BY <1>1, <2>1, <2>2, <2>3, AnswerCommit
<1>6. CASE ServeCommit(t, gone)
  <2>1. Asked(t, "commit", FALSE) /\ ~CommitProceeds(t)
    BY <1>0, <1>6 DEF ServeCommit
  <2> DEFINE j == IF CommitAnswer(t) = "committed" THEN "absent" ELSE journal[t]
  <2>2. /\ Answer(t, "commit", FALSE, CommitAnswer(t), j)
        /\ j = "committed" => journal[t] = "committed"
    BY <1>0, <1>6 DEF ServeCommit, CommitAnswer
  <2> HIDE DEF j
  <2>3. ASSUME ~row[t] PROVE CommitAnswer(t) \notin {"committed", "existing"} /\ j # "committed"
    <3>1. /\ mem[target[t]].state = "absent"
          /\ mem[target[t]].from # t
          /\ journal[t] # "committed"
      BY <2>1, <2>3, AskedAbsent
    <3>2. ~project[target[t]] \/ journal[t] \in {"absent", "receiving", "aborted"}
      BY <1>0, <2>1, <2>3, <3>1 DEF CommitProceeds, JournalStates
    <3> QED
      BY <2>2, <3>1, <3>2 DEF CommitAnswer
  <2> QED
    BY <1>1, <2>1, <2>2, <2>3, AnswerCommit
<1> QED
  BY <1>2, <1>3, <1>4, <1>5, <1>6

LEMMA CommitEndsCommit ==
  ASSUME LocalInv, LocalInv', CommitInv, NEW t \in Transfers, FailCommit(t) \/ FinishCommit(t)
  PROVE  CommitInv'
<1>1. PICK m \in Machines : m = source[t]
  BY DEF FailCommit, FinishCommit, LocalInv, Known
<1>2. UNCHANGED <<mem, row, holder, source, target, fromGen>> /\ late' = {}
  BY DEF FailCommit, FinishCommit, manifestVars, CommitInv
<1>3. /\ work'[t] = "none" /\ work[t] # "none"
      /\ \A u \in Transfers : work'[u] \in {"none", work[u]}
  BY DEF FailCommit, FinishCommit, LocalInv, TypeOK
<1>4. PICK r \in {"committed", "error"} :
        /\ CommitResponds(t, r)
        /\ r = "committed" => work[t] = "saved"
  BY DEF FailCommit, FinishCommit
<1>5. TransferFits(t) /\ row[t] \in BOOLEAN
  BY DEF CommitInv, LocalInv, TypeOK
<1>6. r = "committed" => row[t]
  BY <1>4, <1>5 DEF TransferFits
<1>7. mem[m].state # "preparing" \/ mem[m].transfer # t
  BY <1>1, <1>3 DEF CommitInv, RecordTrue, Unsent, Uncommitted
<1>8. /\ \A u \in Transfers \ {t} : journal'[u] = journal[u]
      /\ journal'[t] = "committed" => row[t]
  BY <1>5 DEF FailCommit, FinishCommit, LocalInv, TypeOK, TransferFits
<1>9. \A u \in Transfers : journal[u] = "committed" => row[u]
  BY DEF CommitInv, TransferFits
<1>10. \A u \in Transfers : journal'[u] = "committed" => row[u]
  BY <1>8, <1>9
<1>11. \A k \in Machines \ {m} : op'[k] = op[k]
  BY <1>1, <1>4 DEF CommitResponds, LocalInv, TypeOK
<1>12. op[m] \in Ops /\ OpTrue(op[m]) /\ OpFits(m, mem[m], op[m])
  BY DEF LocalInv, TypeOK, CommitInv
<1>13. OpTrue(op[m])'
  <2>1. CASE op[m].wait = "working" /\ op[m].transfer = t
    <3> DEFINE o == [op[m] EXCEPT !.wait = "answered", !.reply = r]
    <3>1. op'[m] = o
      BY <1>1, <1>4, <2>1 DEF CommitResponds, LocalInv, TypeOK
    <3>2. /\ o.kind = op[m].kind /\ o.wait = "answered" /\ o.reply = r
          /\ o.call = op[m].call /\ o.transfer = t
      BY <1>12, <2>1 DEF Ops
    <3> HIDE DEF o
    <3>3. ~(o.call \in {"prepare", "member"})
      BY <1>3, <1>12, <2>1, <3>2 DEF OpTrue, Uncommitted
    <3> QED
      BY <1>2, <1>6, <1>12, <2>1, <3>1, <3>2, <3>3 DEF OpTrue, OpFits
  <2>2. CASE ~(op[m].wait = "working" /\ op[m].transfer = t)
    <3>1. op'[m] = op[m]
      BY <1>1, <1>4, <2>2 DEF CommitResponds
    <3>2. op[m].wait # "none" \/ op[m].kind = "send" =>
            (Uncommitted(op[m].transfer) => Uncommitted(op[m].transfer)')
      BY <1>2, <1>3, <3>1, OwnTransfers DEF Uncommitted
    <3> QED
      BY <1>2, <1>12, <3>1, <3>2 DEF OpTrue
  <2> QED BY <2>1, <2>2
<1>14. RecordTrue(mem[m])'
  <2>1. RecordTrue(mem[m])
    BY DEF CommitInv
  <2>2. mem[m].state = "preparing" => Unsent(mem[m].transfer)'
    BY <1>2, <1>3, <1>7, <1>8, <2>1, OwnTransfers DEF RecordTrue, Unsent, Uncommitted
  <2> QED BY <1>2, <2>1, <2>2 DEF RecordTrue
<1>15. mem[m].gen \in Nat /\ mem[m].gen <= mem[holder].gen
  BY DEF LocalInv, TypeOK, Sessions, CommitInv, HolderIsNewest
<1>16. mem'[m].gen >= mem[m].gen /\ mem'[m].gen <= mem[holder].gen
  BY <1>2, <1>15
<1>17. \A u \in Transfers :
         \/ journal'[u] \in {journal[u], "absent"}
         \/ source[u] = m
  BY <1>1, <1>8
<1> QED
  BY <1>2, <1>3, <1>10, <1>11, <1>13, <1>14, <1>16, <1>17, Quiet

-----------------------------------------------------------------------------
(* The steps that write a record. *)

LEMMA RecordStagedCommit ==
  ASSUME LocalInv, LocalInv', CommitInv, NEW m \in Machines, RecordStaged(m)
  PROVE  CommitInv'
<1> DEFINE s == [mem[m] EXCEPT !.state = "staged"]
<1>1. mem' = [mem EXCEPT ![m] = s] /\ op' = op /\ op' = [op EXCEPT ![m] = op[m]] /\ late' = {}
  BY DEF RecordStaged, Persist, CommitInv, LocalInv, TypeOK
<1>2. UNCHANGED <<row, holder, source, target, fromGen, journal, work>>
  BY DEF RecordStaged, manifestVars, targetVars
<1>3. /\ mem[m] \in Sessions /\ mem[m].gen \in Nat /\ mem[m].gen <= mem[holder].gen
      /\ mem[m].state = "preparing" /\ Unsent(mem[m].transfer) /\ RecordFits(m, mem[m])
      /\ OpTrue(op[m]) /\ op[m].kind = "send" /\ op[m].wait = "none"
  BY DEF LocalInv, TypeOK, Sessions, CommitInv, HolderIsNewest, RecordStaged, RecordTrue
<1>4. s.state = "staged" /\ s.gen = mem[m].gen /\ s.from = mem[m].from
      /\ s.transfer = mem[m].transfer
  BY <1>3 DEF Sessions
<1> HIDE DEF s
<1>5. Holds(s) /\ Holds(mem[m])
  BY <1>3, <1>4 DEF Holds, Unsent, Uncommitted
<1>6. \A t \in Transfers : OpenIn(s, t) <=> OpenIn(mem[m], t)
  BY <1>3, <1>4 DEF OpenIn
<1>7. OpTrue(op[m])'
  BY <1>1, <1>2, <1>3 DEF OpTrue, Uncommitted
<1>8. s.gen >= mem[m].gen /\ s.gen <= mem[holder].gen
  BY <1>3, <1>4
<1> QED
  BY <1>1, <1>2, <1>3, <1>4, <1>5, <1>6, <1>7, <1>8, RecordStill

LEMMA AbandonSendCommit ==
  ASSUME LocalInv, LocalInv', CommitInv, NEW m \in Machines, AbandonSend(m)
  PROVE  CommitInv'
<1>1. op' = [op EXCEPT ![m] = Idle] /\ late' = {}
  BY DEF AbandonSend, EndOp, CommitInv
<1>2. UNCHANGED <<row, holder, source, target, fromGen, journal, work>>
  BY DEF AbandonSend, manifestVars, targetVars
<1>3. Frozen(mem[m]) /\ Uncommitted(mem[m].transfer)
  BY DEF AbandonSend, LocalInv, OpFits, CommitInv, OpTrue, Frozen
<1>4. CASE Persist(m, Thawed(mem[m]))
  BY <1>1, <1>2, <1>3, <1>4, IdleTrue, ThawStill DEF Persist
<1>5. CASE UNCHANGED <<mem, disk, outgoing>>
  BY <1>1, <1>2, <1>5, IdleTrue, OpStill
<1> QED
  BY <1>4, <1>5 DEF AbandonSend

LEMMA OnReleasedCommit ==
  ASSUME LocalInv, LocalInv', CommitInv, NEW m \in Machines, OnReleased(m)
  PROVE  CommitInv'
<1>1. op' = [op EXCEPT ![m] = Idle] /\ late' = {} /\ mem' = [mem EXCEPT ![m] = Thawed(mem[m])]
  BY DEF OnReleased, EndOp, CommitInv, Persist
<1>2. UNCHANGED <<row, holder, source, target, fromGen, journal, work>>
  BY DEF OnReleased, manifestVars, targetVars
<1>3. mem[m].state = "staged" /\ mem[m].transfer = op[m].transfer
  BY ReleasesStaged DEF OnReleased
<1>4. op[m].wait = "answered" /\ op[m].reply \in {"aborted", "refused", "absent"}
  BY DEF OnReleased, Releases, Answered
<1>5. Frozen(mem[m]) /\ Uncommitted(mem[m].transfer)
  BY <1>3, <1>4 DEF CommitInv, OpTrue, Frozen
<1> QED
  BY <1>1, <1>2, <1>5, IdleTrue, ThawStill

LEMMA RecoverPreparingCommit ==
  ASSUME LocalInv, LocalInv', CommitInv, NEW m \in Machines, RecoverPreparing(m)
  PROVE  CommitInv'
<1>1. op' = [op EXCEPT ![m] = op[m]] /\ op' = op /\ late' = {}
      /\ mem' = [mem EXCEPT ![m] = Thawed(mem[m])]
  BY DEF RecoverPreparing, CommitInv, Persist, LocalInv, TypeOK
<1>2. UNCHANGED <<row, holder, source, target, fromGen, journal, work>>
  BY DEF RecoverPreparing, manifestVars, targetVars
<1>3. Frozen(mem[m]) /\ Uncommitted(mem[m].transfer)
  BY DEF RecoverPreparing, CommitInv, RecordTrue, Unsent, Frozen
<1>4. op[m].kind = "none" /\ op[m].wait = "none"
  BY DEF RecoverPreparing, LocalInv, OpFits
<1>5. OpTrue(op[m])'
  BY <1>1, <1>4 DEF OpTrue
<1> QED
  BY <1>1, <1>2, <1>3, <1>5, ThawStill

LEMMA OnCommittedCommit ==
  ASSUME LocalInv, LocalInv', CommitInv, NEW m \in Machines, OnCommitted(m)
  PROVE  CommitInv'
<1> DEFINE s == [mem[m] EXCEPT !.state = "transferred", !.gen = mem[m].gen + 1,
                               !.unconfirmed = FALSE]
           t == op[m].transfer
<1>1. op' = [op EXCEPT ![m] = Idle] /\ late' = {} /\ mem' = [mem EXCEPT ![m] = s]
  BY DEF OnCommitted, EndOp, CommitInv, Persist
<1>2. UNCHANGED <<row, holder, source, target, fromGen, journal, work>>
  BY DEF OnCommitted, manifestVars, targetVars
<1>3. /\ mem[m] \in Sessions /\ mem[m].state = "staged" /\ mem[m].transfer = t /\ t \in Transfers
      /\ RecordFits(m, mem[m])
  BY AnsweredStaged DEF OnCommitted
<1>4. row[t]
  BY DEF OnCommitted, Answered, CommitInv, OpTrue
<1>5. mem[m].gen + 1 <= mem[holder].gen /\ mem[m].gen \in Nat /\ mem[holder].gen \in Nat
  <2>1. source[t] \in Machines /\ mem[target[t]].gen > fromGen[t]
    BY <1>3, <1>4 DEF CommitInv, TransferFits
  <2>2. target[t] \in Machines /\ fromGen[t] = mem[m].gen
    BY <1>3, <2>1 DEF LocalInv, Known, RecordFits, Tied
  <2>3. mem[target[t]].gen \in Nat /\ mem[m].gen \in Nat /\ mem[holder].gen \in Nat
    BY <2>2 DEF LocalInv, TypeOK, Sessions
  <2>4. mem[target[t]].gen <= mem[holder].gen
    BY <2>2 DEF CommitInv, HolderIsNewest
  <2> QED BY <2>1, <2>2, <2>3, <2>4
<1>6. s.state = "transferred" /\ s.gen = mem[m].gen + 1 /\ s.from = mem[m].from
  BY <1>3 DEF Sessions
<1> HIDE DEF s
<1>7. ~Holds(s) /\ ~Holds(mem[m])
  BY <1>3, <1>4, <1>6 DEF Holds
<1>8. \A u \in Transfers : ~OpenIn(s, u)
  BY <1>6 DEF OpenIn
<1>9. \A u \in Transfers : OpenIn(mem[m], u) => work[u] # "restoring"
  BY <1>3, <1>4 DEF OpenIn, CommitInv, TransferFits
<1>10. s.gen >= mem[m].gen /\ s.gen <= mem[holder].gen
  BY <1>5, <1>6
<1> QED
  BY <1>1, <1>2, <1>3, <1>6, <1>7, <1>8, <1>9, <1>10, IdleTrue, RecordStill

LEMMA NotesCommit ==
  ASSUME LocalInv, LocalInv', CommitInv, NEW m \in Machines,
         RecoverUnconfirmed(m) \/ RecoverResumes(m) \/ ClaimRefused(m)
         \/ RecoverRetries(m) \/ RecoverAborts(m)
  PROVE  CommitInv'
<1>1. PICK b \in BOOLEAN : mem' = [mem EXCEPT ![m] = [mem[m] EXCEPT !.unconfirmed = b]]
  BY DEF RecoverUnconfirmed, RecoverResumes, ClaimRefused, RecoverRetries, RecoverAborts,
         Confirmed, Persist
<1>2. Answered(m, {"recover", "claim"}, Methods, Replies)
  BY DEF RecoverUnconfirmed, RecoverResumes, ClaimRefused, RecoverRetries, RecoverAborts,
         Answered, Methods, Replies, JournalStates
<1>3. /\ mem[m] \in Sessions /\ mem[m].state = "staged" /\ RecordFits(m, mem[m])
      /\ op[m].kind \in {"recover", "claim"}
  BY <1>2, AnsweredStaged
<1> DEFINE s == [mem[m] EXCEPT !.unconfirmed = b]
<1>4. /\ s.state = mem[m].state /\ s.gen = mem[m].gen /\ s.transfer = mem[m].transfer
      /\ s.claim = mem[m].claim /\ s.from = mem[m].from
  BY <1>3, NoteFits
<1>5. mem' = [mem EXCEPT ![m] = s]
  BY <1>1
<1> HIDE DEF s
<1>6. UNCHANGED <<row, holder, source, target, fromGen, journal, work>> /\ late' = {}
  BY DEF RecoverUnconfirmed, RecoverResumes, ClaimRefused, RecoverRetries, RecoverAborts,
         manifestVars, targetVars, CommitInv
<1>7. /\ Holds(s) <=> Holds(mem[m])
      /\ \A t \in Transfers : OpenIn(s, t) <=> OpenIn(mem[m], t)
  BY <1>4 DEF Holds, OpenIn
<1>8. mem[m].gen \in Nat /\ mem[m].gen <= mem[holder].gen
  BY DEF LocalInv, TypeOK, Sessions, CommitInv, HolderIsNewest
<1>9. s.gen >= mem[m].gen /\ s.gen <= mem[holder].gen
  BY <1>4, <1>8
<1>10. PICK o : op' = [op EXCEPT ![m] = o] /\ (op'[m] = o => OpTrue(op[m])')
  <2>1. CASE EndOp(m, mem'[m], FALSE)
    BY <2>1, IdleTrue DEF EndOp
  <2>2. CASE Call(m, "commit") \/ Call(m, "abort")
    <3>1. PICK method \in {"commit", "abort"} : Call(m, method)
      BY <2>2
    <3> DEFINE o == [op[m] EXCEPT !.call = method, !.wait = "sent", !.reply = "error"]
    <3>2. op' = [op EXCEPT ![m] = o]
      BY <3>1 DEF Call
    <3>3. o.kind = op[m].kind /\ o.wait = "sent" /\ o.call = method
      BY DEF LocalInv, TypeOK, Ops
    <3> HIDE DEF o
    <3>4. op'[m] = o => OpTrue(op[m])'
      BY <1>3, <3>3 DEF OpTrue
    <3> QED BY <3>2, <3>4
  <2> QED
    BY <2>1, <2>2 DEF RecoverUnconfirmed, RecoverResumes, ClaimRefused, RecoverRetries, RecoverAborts
<1> QED
  BY <1>3, <1>4, <1>5, <1>6, <1>7, <1>9, <1>10, RecordStill

LEMMA ClaimSourceCommit ==
  ASSUME LocalInv, LocalInv', CommitInv, NEW m \in Machines, ClaimSource(m)
  PROVE  CommitInv'
<1> DEFINE t == op[m].transfer
           s == [Thawed(mem[m]) EXCEPT !.claim = t]
<1>1. op' = [op EXCEPT ![m] = Idle] /\ late' = {} /\ mem' = [mem EXCEPT ![m] = s]
  BY DEF ClaimSource, EndOp, CommitInv, Persist
<1>2. UNCHANGED <<row, holder, source, target, fromGen, journal, work>>
  BY DEF ClaimSource, manifestVars, targetVars
<1>3. /\ mem[m] \in Sessions /\ mem[m].state = "staged" /\ mem[m].transfer = t /\ t \in Transfers
  BY AnsweredStaged DEF ClaimSource
<1>4. s.state = "live" /\ s.claim = t /\ s.gen = mem[m].gen /\ s.from = mem[m].from
  BY <1>3 DEF Sessions, Thawed
<1> HIDE DEF s
<1>5. Holds(s) <=> Holds(mem[m])
  BY <1>3, <1>4, TransferAssumption DEF Holds
<1>6. \A u \in Transfers : OpenIn(s, u) <=> OpenIn(mem[m], u)
  BY <1>3, <1>4 DEF OpenIn
<1>7. mem[m].gen \in Nat /\ mem[m].gen <= mem[holder].gen
  BY DEF LocalInv, TypeOK, Sessions, CommitInv, HolderIsNewest
<1>8. s.gen >= mem[m].gen /\ s.gen <= mem[holder].gen
  BY <1>4, <1>7
<1> QED
  BY <1>1, <1>2, <1>3, <1>4, <1>5, <1>6, <1>8, IdleTrue, RecordStill

LEMMA CheckClearsCommit ==
  ASSUME LocalInv, LocalInv', CommitInv, NEW m \in Machines, CheckClears(m)
  PROVE  CommitInv'
<1> DEFINE s == [mem[m] EXCEPT !.claim = NoTransfer]
<1>1. op' = [op EXCEPT ![m] = Idle] /\ late' = {} /\ mem' = [mem EXCEPT ![m] = s]
  BY DEF CheckClears, EndOp, CommitInv, Persist
<1>2. UNCHANGED <<row, holder, source, target, fromGen, journal, work>>
  BY DEF CheckClears, manifestVars, targetVars
<1>3. mem[m] \in Sessions /\ mem[m].state = "live" /\ mem[m].claim = op[m].transfer
  BY AnsweredClaim DEF CheckClears
<1>4. Uncommitted(mem[m].claim)
  BY <1>3 DEF CheckClears, Answered, CommitInv, OpTrue
<1>5. s.state = "live" /\ s.claim = NoTransfer /\ s.gen = mem[m].gen /\ s.from = mem[m].from
  BY <1>3 DEF Sessions
<1> HIDE DEF s
<1>6. Holds(s) /\ Holds(mem[m])
  BY <1>3, <1>4, <1>5 DEF Holds, Uncommitted
<1>7. \A u \in Transfers : ~OpenIn(s, u) /\ (OpenIn(mem[m], u) => work[u] = "none")
  BY <1>3, <1>4, <1>5, TransferAssumption DEF OpenIn, Uncommitted
<1>8. mem[m].gen \in Nat /\ mem[m].gen <= mem[holder].gen
  BY DEF LocalInv, TypeOK, Sessions, CommitInv, HolderIsNewest
<1>9. s.gen >= mem[m].gen /\ s.gen <= mem[holder].gen
  BY <1>5, <1>8
<1> QED
  BY <1>1, <1>2, <1>3, <1>5, <1>6, <1>7, <1>9, IdleTrue, RecordStill

LEMMA CheckContradictsCommit ==
  ASSUME LocalInv, LocalInv', CommitInv, NEW m \in Machines, NEW proved \in BOOLEAN,
         NEW saved \in BOOLEAN, CheckContradicts(m, proved, saved)
  PROVE  CommitInv'
<1> DEFINE t == op[m].transfer
           s == Conflicted(mem[m], t, fromGen[t] + 1)
<1>1. op' = [op EXCEPT ![m] = Idle] /\ late' = {} /\ mem' = [mem EXCEPT ![m] = s]
  BY DEF CheckContradicts, EndOp, CommitInv, RecordConflict
<1>2. UNCHANGED <<row, holder, source, target, fromGen, journal, work>>
  BY DEF CheckContradicts, manifestVars, targetVars
<1>3. /\ mem[m] \in Sessions /\ mem[m].state = "live" /\ mem[m].claim = t /\ t \in Transfers
      /\ fromGen[t] = mem[m].gen
  BY AnsweredClaim DEF CheckContradicts, Contradicted
<1>4. row[t]
  BY DEF CheckContradicts, Contradicted, Answered, CommitInv, OpTrue
<1>5. fromGen[t] + 1 \in Nat
  BY <1>3 DEF LocalInv, TypeOK
<1>6. /\ s.state = "conflict" /\ s.transfer = t /\ s.other = fromGen[t] + 1
      /\ s.gen = mem[m].gen /\ s.from = mem[m].from
  BY <1>3, <1>5, ConflictedFields
<1> HIDE DEF s
<1>7. ~Holds(s) /\ ~Holds(mem[m])
  BY <1>3, <1>4, <1>6, TransferAssumption DEF Holds
<1>8. \A u \in Transfers : ~OpenIn(s, u)
  BY <1>6 DEF OpenIn
<1>9. \A u \in Transfers : OpenIn(mem[m], u) => work[u] # "restoring"
  BY <1>3, <1>4 DEF OpenIn, CommitInv, TransferFits
<1>10. mem[m].gen \in Nat /\ mem[m].gen <= mem[holder].gen
  BY DEF LocalInv, TypeOK, Sessions, CommitInv, HolderIsNewest
<1>11. s.gen >= mem[m].gen /\ s.gen <= mem[holder].gen
  BY <1>6, <1>10
<1>12. row[s.transfer] /\ s.other = s.gen + 1
  BY <1>3, <1>4, <1>6
<1> QED
  BY <1>1, <1>2, <1>3, <1>6, <1>7, <1>8, <1>9, <1>11, <1>12, IdleTrue, RecordStill

LEMMA ResolveConflictCommit ==
  ASSUME LocalInv, LocalInv', CommitInv, NEW m \in Machines, ResolveConflict(m)
  PROVE  CommitInv'
<1> DEFINE s == [mem[m] EXCEPT !.state = "transferred", !.gen = mem[m].other,
                               !.claim = NoTransfer]
           t == mem[m].transfer
<1>1. op' = op /\ op' = [op EXCEPT ![m] = op[m]] /\ late' = {} /\ mem' = [mem EXCEPT ![m] = s]
  BY DEF ResolveConflict, CommitInv, Persist, LocalInv, TypeOK
<1>2. UNCHANGED <<row, holder, source, target, fromGen, journal, work>>
  BY DEF ResolveConflict, manifestVars, targetVars
<1>3. /\ mem[m] \in Sessions /\ mem[m].state = "conflict" /\ row[t] /\ mem[m].other = mem[m].gen + 1
      /\ RecordFits(m, mem[m])
  BY DEF ResolveConflict, LocalInv, TypeOK, CommitInv, RecordTrue
<1>4. t \in Transfers /\ source[t] = m /\ fromGen[t] = mem[m].gen
  BY <1>3 DEF RecordFits, Tied
<1>5. mem[m].gen + 1 <= mem[holder].gen /\ mem[m].gen \in Nat /\ mem[holder].gen \in Nat
  <2>1. mem[target[t]].gen > fromGen[t]
    BY <1>3, <1>4 DEF CommitInv, TransferFits
  <2>2. target[t] \in Machines
    BY <1>4 DEF LocalInv, Known
  <2>3. mem[target[t]].gen \in Nat /\ mem[m].gen \in Nat /\ mem[holder].gen \in Nat
    BY <2>2 DEF LocalInv, TypeOK, Sessions
  <2>4. mem[target[t]].gen <= mem[holder].gen
    BY <2>2 DEF CommitInv, HolderIsNewest
  <2> QED BY <1>4, <2>1, <2>3, <2>4
<1>6. s.state = "transferred" /\ s.gen = mem[m].gen + 1 /\ s.from = mem[m].from
  BY <1>3 DEF Sessions
<1> HIDE DEF s
<1>7. ~Holds(s) /\ ~Holds(mem[m])
  BY <1>3, <1>6 DEF Holds
<1>8. \A u \in Transfers : ~OpenIn(s, u) /\ ~OpenIn(mem[m], u)
  BY <1>3, <1>6 DEF OpenIn
<1>9. s.gen >= mem[m].gen /\ s.gen <= mem[holder].gen
  BY <1>5, <1>6
<1>10. op[m].kind = "none" /\ op[m].wait = "none"
  BY DEF ResolveConflict, LocalInv, OpFits
<1>11. OpTrue(op[m])'
  BY <1>1, <1>10 DEF OpTrue
<1> QED
  BY <1>1, <1>2, <1>3, <1>6, <1>7, <1>8, <1>9, <1>11, RecordStill

\* While requests end with their connections no target reports a session of its own: the
\* holder is the only machine with an open transfer, and its target was empty.
LEMMA NoExisting ==
  ASSUME CommitInv, NEW m \in Machines, NEW proved, NEW saved, OnExisting(m, proved, saved)
  PROVE  FALSE
  BY DEF OnExisting, Answered, CommitInv, OpTrue

LEMMA RestartCommit ==
  ASSUME ~LateDelivery, LocalInv, LocalInv', CommitInv, NEW m \in Machines,
         NEW expired \in SUBSET Transfers, Restart(m, expired)
  PROVE  CommitInv'
<1>1. /\ mem'[m] = Restored(m) /\ op'[m] = Idle /\ late' = {}
      /\ \A k \in Machines \ {m} : mem'[k] = mem[k] /\ op'[k] = op[k]
  BY DEF Restart, LocalInv, TypeOK, CommitInv
<1>2. UNCHANGED <<row, holder, source, target, fromGen>>
  BY DEF Restart, manifestVars
<1>3. \A t \in Transfers : work'[t] \in {"none", work[t]} /\ journal'[t] \in {journal[t], "absent"}
  BY DEF Restart, LocalInv, TypeOK
<1>4. \A t \in Transfers : journal[t] = "committed" => row[t]
  BY DEF CommitInv, TransferFits
<1>5. \A t \in Transfers : journal'[t] = "committed" => row[t]
  BY <1>3, <1>4
<1>6. OpTrue(op[m])'
  BY <1>1, IdleTrue
<1>7. mem[m].gen \in Nat /\ mem[m].gen <= mem[holder].gen /\ RecordTrue(mem[m])
  BY DEF LocalInv, TypeOK, Sessions, CommitInv, HolderIsNewest
<1>8. CASE Restored(m) = mem[m]
  <2>0. mem'[m] = mem[m]
    BY <1>1, <1>8
  <2>1. mem[m].state = "preparing" => Unsent(mem[m].transfer)'
    BY <1>2, <1>3, <1>7, <2>0, OwnTransfers DEF RecordTrue, Unsent, Uncommitted
  <2>2. RecordTrue(mem[m])'
    BY <1>2, <1>7, <2>0, <2>1 DEF RecordTrue
  <2>3. mem'[m].gen >= mem[m].gen /\ mem'[m].gen <= mem[holder].gen
    BY <1>7, <2>0
  <2> QED
    BY <1>1, <1>2, <1>3, <1>5, <1>6, <2>0, <2>2, <2>3, Quiet
<1>9. CASE Restored(m) = disk[m] /\ disk[m] # mem[m]
  <2>1. /\ disk[m].gen = mem[m].gen /\ disk[m].from = mem[m].from /\ mem[m].state = "conflict"
        /\ \/ disk[m].state = "staged" /\ disk[m].transfer = mem[m].transfer
           \/ disk[m].state = "live" /\ disk[m].claim = mem[m].transfer
        /\ RecordFits(m, mem[m]) /\ row[mem[m].transfer]
    BY <1>7, <1>9, StoredFits DEF LocalInv, RecordTrue
  <2>2. mem[m].transfer \in Transfers
    BY <2>1 DEF RecordFits, Tied
  <2>3. mem'[m] = disk[m]
    BY <1>1, <1>9
  <2>4. ~Holds(disk[m]) /\ ~Holds(mem[m])
    BY <2>1, <2>2, TransferAssumption DEF Holds
  <2>5. \A t \in Transfers : OpenIn(disk[m], t) => row[t]
    BY <2>1, <2>2 DEF OpenIn
  <2>6. \A t \in Transfers : ~OpenIn(mem[m], t)
    BY <2>1 DEF OpenIn
  <2>7. RecordTrue(mem[m])'
    BY <1>2, <1>7, <2>1, <2>3 DEF RecordTrue
  <2>8. mem'[m].gen >= mem[m].gen /\ mem'[m].gen <= mem[holder].gen
    BY <1>7, <2>1, <2>3
  <2>9. mem'[m].state # "absent" /\ mem[m].state # "absent"
    BY <2>1, <2>3
  <2> QED
    BY <1>1, <1>2, <1>3, <1>5, <1>6, <2>3, <2>4, <2>5, <2>6, <2>7, <2>8, <2>9, Quiet
<1> QED
  BY <1>8, <1>9, RestoredIs

-----------------------------------------------------------------------------
(* A transfer begins, its commit begins, and the session changes hands. *)

\* A machine with an open, uncommitted transfer is the holder.
LEMMA OpenHolds ==
  ASSUME LocalInv, CommitInv, NEW t \in Transfers, source[t] \in Machines,
         OpenIn(mem[source[t]], t), ~row[t]
  PROVE  source[t] = holder
<1>1. Holds(mem[source[t]])
  BY DEF OpenIn, Holds
<1> QED
  BY <1>1 DEF CommitInv, ExactlyOneHolder

LEMMA FreezeCommit ==
  ASSUME LocalInv, LocalInv', CommitInv, NEW m \in Machines, NEW t \in Transfers, Freeze(m, t)
  PROVE  CommitInv'
<1> DEFINE s == [mem[m] EXCEPT !.state = "preparing", !.transfer = t]
           o == [Idle EXCEPT !.kind = "send", !.transfer = t]
<1>1. /\ mem'[m] = s /\ op'[m] = o /\ late' = {}
      /\ \A k \in Machines \ {m} : mem'[k] = mem[k] /\ op'[k] = op[k]
  BY DEF Freeze, Persist, LocalInv, TypeOK, CommitInv
<1>2. /\ UNCHANGED <<row, holder, journal, work>>
      /\ source'[t] = m /\ target'[t] = op[m].peer
      /\ \A u \in Transfers \ {t} :
            source'[u] = source[u] /\ target'[u] = target[u] /\ fromGen'[u] = fromGen[u]
  BY DEF Freeze, targetVars, LocalInv, TypeOK
<1>3. /\ mem[m] \in Sessions /\ mem[m].state = "live" /\ mem[m].claim = NoTransfer
      /\ op[m].peer \in Machines /\ op[m].peer # m
      /\ mem[op[m].peer].state = "absent" /\ RecordTrue(mem[m])
  BY DEF Freeze, LocalInv, TypeOK, OpFits, CommitInv, OpTrue
<1>4. s.state = "preparing" /\ s.transfer = t /\ s.gen = mem[m].gen /\ s.from = mem[m].from
  BY <1>3 DEF Sessions
<1>5. o.kind = "send" /\ o.wait = "none" /\ o.transfer = t
  BY DEF Idle
<1> HIDE DEF s, o
<1>6. Unsent(t) /\ source[t] = NoMachine
  BY DEF Freeze, CommitInv, TransferFits
<1>7. Unsent(t)' /\ \A u \in Transfers : (Unsent(u) => Unsent(u)') /\ (Uncommitted(u) => Uncommitted(u)')
  BY <1>2, <1>6 DEF Unsent, Uncommitted
<1>8. /\ \A k \in Machines : mem'[k].state = "absent" <=> mem[k].state = "absent"
      /\ \A k \in Machines : mem'[k].gen = mem[k].gen
  BY <1>1, <1>3, <1>4
<1>9. ASSUME NEW u \in Transfers PROVE TransferFits(u)'
  <2>0. TransferFits(u) /\ Known(u)
    BY <1>9 DEF CommitInv, LocalInv
  <2>1. CASE u = t
    <3>1. ~row'[u] /\ work'[u] = "none" /\ journal'[u] = "absent"
      BY <1>7, <2>1 DEF Unsent, Uncommitted
    <3>2. mem'[target'[u]].state = "absent"
      BY <1>2, <1>3, <1>8, <2>1
    <3> QED
      BY <1>7, <2>1, <3>1, <3>2 DEF TransferFits
  <2>2. CASE u # t
    <3>1. source'[u] = source[u] /\ target'[u] = target[u] /\ fromGen'[u] = fromGen[u]
      BY <1>2, <1>9, <2>2
    <3>2. ~OpenIn(mem[m], u) /\ ~OpenIn(s, u)
      BY <1>3, <1>4, <1>9, <2>2, TransferAssumption DEF OpenIn
    <3>3. source[u] \in Machines => (OpenIn(mem'[source[u]], u) <=> OpenIn(mem[source[u]], u))
      BY <1>1, <3>2
    <3>4. (source[u] = NoMachine => Unsent(u))'
      BY <1>7, <1>9, <2>0, <3>1 DEF TransferFits
    <3>5. (work[u] = "restoring" => OpenIn(mem[source[u]], u) /\ ~row[u])'
      <4> SUFFICES ASSUME work[u] = "restoring" PROVE OpenIn(mem'[source[u]], u) /\ ~row[u]
        BY <1>2, <3>1 DEF OpenIn
      <4> QED
        BY <2>0, <3>3 DEF TransferFits, Known
    <3>6. (work[u] = "saved" => row[u])' /\ (journal[u] = "committed" => row[u])'
      BY <1>2, <2>0 DEF TransferFits
    <3>7. (row[u] => source[u] \in Machines /\ mem[target[u]].state # "absent" /\ mem[target[u]].gen > fromGen[u])'
      BY <1>2, <1>8, <2>0, <3>1 DEF TransferFits, Known
    <3>8. (source[u] \in Machines =>
            (OpenIn(mem[source[u]], u) /\ ~row[u] => mem[target[u]].state = "absent"))'
      <4> SUFFICES ASSUME source[u] \in Machines, OpenIn(mem'[source[u]], u), ~row[u]
                   PROVE  mem'[target[u]].state = "absent"
        BY <1>2, <3>1 DEF OpenIn
      <4> QED
        BY <1>8, <2>0, <3>3 DEF TransferFits, Known
    <3> QED
      BY <3>4, <3>5, <3>6, <3>7, <3>8 DEF TransferFits
  <2> QED BY <2>1, <2>2
<1>10. RecordTrue(mem[m])' /\ OpTrue(op[m])'
  <2>1. RecordTrue(mem[m])'
    BY <1>1, <1>2, <1>3, <1>4, <1>7 DEF RecordTrue
  <2>2. OpTrue(op[m])'
    BY <1>1, <1>5, <1>7 DEF OpTrue, Unsent
  <2> QED BY <2>1, <2>2
<1>11. ASSUME NEW k \in Machines, k # m PROVE RecordTrue(mem[k])' /\ OpTrue(op[k])'
  <2>0. RecordTrue(mem[k]) /\ OpTrue(op[k]) /\ mem'[k] = mem[k] /\ op'[k] = op[k]
    BY <1>1, <1>11 DEF CommitInv
  <2>1. RecordTrue(mem[k])'
    BY <1>2, <2>0 DEF RecordTrue, Unsent, Uncommitted
  <2>2. op[k].kind = "preview" => mem'[op[k].peer].state = "absent"
    BY <1>8, <1>11, <2>0, OwnTransfers DEF OpTrue
  <2>3. OpTrue(op[k])'
    BY <1>2, <2>0, <2>2 DEF OpTrue, Uncommitted
  <2> QED BY <2>1, <2>3
<1>12. ExactlyOneHolder'
  <2>1. Holds(mem[m]) /\ Holds(mem[m])'
    BY <1>1, <1>3, <1>4 DEF Holds
  <2>2. \A k \in Machines \ {m} : Holds(mem[k])' <=> Holds(mem[k])
    BY <1>1, <1>2 DEF Holds
  <2> QED
    BY <1>2, <2>1, <2>2 DEF CommitInv, ExactlyOneHolder
<1>13. HolderIsNewest'
  BY <1>2, <1>8 DEF CommitInv, HolderIsNewest, LocalInv, TypeOK
<1> QED
  BY <1>1, <1>9, <1>10, <1>11, <1>12, <1>13 DEF CommitInv

LEMMA BeginCommitCommit ==
  ASSUME LocalInv, LocalInv', CommitInv, NEW t \in Transfers, NEW gone \in BOOLEAN,
         BeginCommit(t, gone)
  PROVE  CommitInv'
<1>1. gone = FALSE /\ late' = {}
  BY DEF BeginCommit, Asked, CommitInv
<1>2. PICK m \in Machines : m = source[t]
  BY DEF BeginCommit, Asked, LocalInv, TypeOK
<1>3. /\ op[m].wait = "sent" /\ op[m].transfer = t /\ op[m].call = "commit" /\ op[m] \in Ops
      /\ ~row[t] /\ mem[target[t]].state = "absent"
  BY <1>1, <1>2 DEF BeginCommit, Asked, CommitProceeds, LocalInv, TypeOK
<1> DEFINE o == [op[m] EXCEPT !.wait = "working"]
<1>4. op'[m] = o /\ \A k \in Machines \ {m} : op'[k] = op[k]
  BY <1>1, <1>2 DEF BeginCommit, LocalInv, TypeOK
<1>5. o.kind = op[m].kind /\ o.wait = "working" /\ o.call = "commit"
  BY <1>3 DEF Ops
<1> HIDE DEF o
<1>6. /\ UNCHANGED <<mem, row, holder, source, target, fromGen>>
      /\ work'[t] = "restoring" /\ journal'[t] = "recovering"
      /\ \A u \in Transfers \ {t} : work'[u] = work[u] /\ journal'[u] = journal[u]
  BY DEF BeginCommit, manifestVars, LocalInv, TypeOK
<1>7. op[m].kind \in {"send", "recover", "claim", "check"} /\ OpenIn(mem[m], t) /\ mem[m].state # "preparing"
  BY <1>3, AwaitsOwn DEF OpenIn
<1>8. ASSUME NEW u \in Transfers PROVE TransferFits(u)'
  <2>0. TransferFits(u)
    BY <1>8 DEF CommitInv
  <2>1. CASE u = t
    BY <1>2, <1>3, <1>6, <1>7, <2>0, <2>1, TransferAssumption DEF TransferFits, OpenIn
  <2>2. CASE u # t
    BY <1>6, <1>8, <2>0, <2>2 DEF TransferFits, OpenIn, Unsent, Uncommitted
  <2> QED BY <2>1, <2>2
<1>9. ASSUME NEW k \in Machines PROVE RecordTrue(mem[k])' /\ OpTrue(op[k])'
  <2>0. RecordTrue(mem[k]) /\ OpTrue(op[k])
    BY <1>9 DEF CommitInv
  <2>1. mem[k].state = "preparing" => mem[k].transfer \in Transfers \ {t}
    BY <1>2, <1>7, <1>9, OwnTransfers
  <2>2. RecordTrue(mem[k])'
    BY <1>6, <2>0, <2>1 DEF RecordTrue, Unsent, Uncommitted
  <2>3. CASE k = m
    BY <1>4, <1>5, <1>7, <2>2, <2>3 DEF OpTrue
  <2>4. CASE k # m
    <3>1. op'[k] = op[k]
      BY <1>4, <1>9, <2>4
    <3>2. op[k].wait # "none" \/ op[k].kind = "send" => op[k].transfer \in Transfers \ {t}
      BY <1>2, <1>9, <2>4, OwnTransfers
    <3> QED
      BY <1>6, <2>0, <2>2, <3>1, <3>2 DEF OpTrue, Uncommitted
  <2> QED BY <2>2, <2>3, <2>4
<1>10. ExactlyOneHolder' /\ HolderIsNewest'
  BY <1>6 DEF CommitInv, ExactlyOneHolder, HolderIsNewest, Holds
<1> QED
  BY <1>1, <1>8, <1>9, <1>10 DEF CommitInv

LEMMA SaveCommitCommit ==
  ASSUME LocalInv, LocalInv', CommitInv, NEW t \in Transfers, SaveCommit(t)
  PROVE  CommitInv'
<1> DEFINE s == Imported(fromGen[t] + 1, t)
<1>1. PICK m \in Machines : m = source[t]
  BY DEF SaveCommit, LocalInv, Known
<1>2. PICK n \in Machines : n = target[t]
  BY <1>1 DEF LocalInv, Known
<1>3. /\ mem'[n] = s /\ mem[n].state = "absent" /\ late' = {}
      /\ \A k \in Machines \ {n} : mem'[k] = mem[k]
      /\ UNCHANGED <<op, source, target, fromGen, journal>>
      /\ row'[t] = TRUE /\ work'[t] = "saved" /\ work[t] = "restoring" /\ holder' = n
      /\ \A u \in Transfers \ {t} : row'[u] = row[u] /\ work'[u] = work[u]
  BY <1>2 DEF SaveCommit, Persist, LocalInv, TypeOK, manifestVars, CommitInv
<1>4. fromGen[t] + 1 \in Nat /\ fromGen[t] \in Nat
  BY DEF LocalInv, TypeOK
<1>5. s.state = "live" /\ s.claim = NoTransfer /\ s.gen = fromGen[t] + 1 /\ s.from = t
  BY <1>4, ImportedFits
<1> HIDE DEF s
<1>6. OpenIn(mem[m], t) /\ ~row[t]
  BY <1>1, <1>3 DEF CommitInv, TransferFits
<1>7. m = holder
  BY <1>1, <1>6, OpenHolds
<1>8. \A k \in Machines : Holds(mem[k]) => k = m
  BY <1>7 DEF CommitInv, ExactlyOneHolder
<1>9. mem[m].state # "preparing" /\ (mem[m].state = "staged" => mem[m].transfer = t)
      /\ (mem[m].state = "live" => mem[m].claim = t) /\ mem[m].state \in {"staged", "live"}
  BY <1>3, <1>6 DEF OpenIn, CommitInv, RecordTrue, Unsent, Uncommitted
<1>10. fromGen[t] = mem[m].gen
  BY <1>9, TransferAssumption DEF LocalInv, RecordFits, Tied
<1>11. \A u \in Transfers : row[u] => row'[u]
  BY <1>3
\* No other transfer is open and uncommitted.
<1>12. ASSUME NEW u \in Transfers, u # t, NEW k \in Machines, source[u] = k, OpenIn(mem[k], u), ~row[u]
       PROVE  FALSE
  <2>1. k = m
    BY <1>7, <1>12, OpenHolds
  <2> QED
    BY <1>9, <1>12, <2>1 DEF OpenIn
<1>13. ASSUME NEW u \in Transfers PROVE TransferFits(u)'
  <2>0. TransferFits(u) /\ Known(u)
    BY <1>13 DEF CommitInv, LocalInv
  <2>1. CASE u = t
    <3>1. source'[u] # NoMachine /\ row'[u] /\ work'[u] = "saved" /\ source'[u] \in Machines
      BY <1>1, <1>3, <2>1, TransferAssumption
    <3>2. mem'[target'[u]].state # "absent" /\ mem'[target'[u]].gen > fromGen'[u]
      BY <1>2, <1>3, <1>4, <1>5, <2>1
    <3> QED
      BY <3>1, <3>2 DEF TransferFits
  <2>2. CASE u # t
    <3>1. row'[u] = row[u] /\ work'[u] = work[u]
      BY <1>3, <1>13, <2>2
    <3>2. work[u] # "restoring"
      BY <1>12, <1>13, <2>0, <2>2 DEF TransferFits, Known
    <3>3. (source[u] = NoMachine => Unsent(u))'
      BY <1>3, <2>0, <3>1 DEF TransferFits, Unsent, Uncommitted
    <3>4. (row[u] => source[u] \in Machines /\ mem[target[u]].state # "absent" /\ mem[target[u]].gen > fromGen[u])'
      <4> SUFFICES ASSUME row[u]
                   PROVE  source[u] \in Machines /\ mem'[target[u]].state # "absent" /\ mem'[target[u]].gen > fromGen[u]
        BY <1>3, <3>1
      <4>1. source[u] \in Machines /\ mem[target[u]].state # "absent" /\ mem[target[u]].gen > fromGen[u]
        BY <2>0 DEF TransferFits
      <4>2. target[u] \in Machines \ {n}
        BY <1>3, <2>0, <4>1 DEF Known
      <4> QED BY <1>3, <4>1, <4>2
    <3>5. (source[u] \in Machines =>
            (OpenIn(mem[source[u]], u) /\ ~row[u] => mem[target[u]].state = "absent"))'
      <4> SUFFICES ASSUME source[u] \in Machines, OpenIn(mem'[source[u]], u), ~row[u] PROVE FALSE
        BY <1>3, <3>1 DEF OpenIn
      <4>1. source[u] # n
        BY <1>3, <1>5, <1>13, TransferAssumption DEF OpenIn
      <4> QED
        BY <1>3, <1>12, <1>13, <2>2, <4>1
    <3> QED
      BY <1>3, <2>0, <3>1, <3>2, <3>3, <3>4, <3>5 DEF TransferFits
  <2> QED BY <2>1, <2>2
<1>14. ASSUME NEW k \in Machines PROVE RecordTrue(mem[k])'
  <2>0. RecordTrue(mem[k]) /\ mem[k] \in Sessions
    BY <1>14 DEF CommitInv, LocalInv, TypeOK
  <2>1. CASE k = n
    BY <1>3, <1>5, <2>1 DEF RecordTrue
  <2>2. CASE k # n
    <3>1. mem'[k] = mem[k] /\ mem[k].state # "preparing"
      <4>1. mem'[k] = mem[k]
        BY <1>3, <1>14, <2>2
      <4>2. mem[k].state = "preparing" => Holds(mem[k])
        BY DEF Holds
      <4> QED BY <1>8, <1>9, <1>14, <4>1, <4>2
    <3>2. mem[k].from # NoTransfer => mem[k].from \in Transfers
      BY <2>0 DEF Sessions, MaybeTransfer
    <3>3. mem[k].state = "conflict" => mem[k].transfer \in Transfers
      BY <1>14, OwnTransfers
    <3> QED
      BY <1>11, <2>0, <3>1, <3>2, <3>3 DEF RecordTrue
  <2> QED BY <2>1, <2>2
<1>15. ASSUME NEW k \in Machines PROVE OpTrue(op[k])'
  <2>0. OpTrue(op[k]) /\ op'[k] = op[k]
    BY <1>3, <1>15 DEF CommitInv
  <2>1. op[k].kind # "preview"
    <3>1. op[k].kind = "preview" => Holds(mem[k]) /\ mem[k].state = "live" /\ mem[k].claim = NoTransfer
      BY <1>15, OwnTransfers DEF Holds
    <3> QED
      BY <1>8, <1>9, <1>15, <3>1, TransferAssumption
  <2>2. op[k].wait # "none" \/ op[k].kind = "send" =>
          /\ op[k].transfer \in Transfers
          /\ Uncommitted(op[k].transfer) => Uncommitted(op[k].transfer)'
    BY <1>3, <1>15, <2>0, OwnTransfers DEF Uncommitted
  <2> QED
    BY <1>11, <2>0, <2>1, <2>2 DEF OpTrue
<1>16. ExactlyOneHolder'
  <2>1. Holds(mem[n])'
    BY <1>3, <1>5 DEF Holds
  <2>2. ASSUME NEW k \in Machines, k # n PROVE ~Holds(mem[k])'
    <3>1. mem'[k] = mem[k] /\ mem[k] \in Sessions /\ RecordFits(k, mem[k])
      BY <1>3, <2>2 DEF LocalInv, TypeOK
    <3>2. CASE k = m
      BY <1>3, <1>9, <3>1, <3>2, TransferAssumption DEF Holds
    <3>3. CASE k # m
      <4>1. ~Holds(mem[k])
        BY <1>8, <3>3
      <4>2. mem[k].state = "staged" => mem[k].transfer \in Transfers
        BY OwnTransfers
      <4>3. mem[k].claim # NoTransfer => mem[k].claim \in Transfers
        BY <3>1 DEF Sessions, MaybeTransfer
      <4> QED
        BY <1>11, <3>1, <4>1, <4>2, <4>3 DEF Holds
    <3> QED BY <3>2, <3>3
  <2> QED
    BY <1>3, <2>1, <2>2 DEF ExactlyOneHolder
<1>17. HolderIsNewest'
  <2>1. ASSUME NEW k \in Machines PROVE mem'[k].gen <= mem'[n].gen
    <3>1. mem[k].gen <= fromGen[t] /\ mem[k].gen \in Nat
      BY <1>7, <1>10, <2>1 DEF CommitInv, HolderIsNewest, LocalInv, TypeOK, Sessions
    <3> QED
      BY <1>3, <1>4, <1>5, <2>1, <3>1
  <2> QED BY <1>3, <2>1 DEF HolderIsNewest
<1> QED
  BY <1>3, <1>13, <1>14, <1>15, <1>16, <1>17 DEF CommitInv

-----------------------------------------------------------------------------

LEMMA CommitInit == Init => CommitInv
<1> SUFFICES ASSUME Init PROVE CommitInv
  OBVIOUS
<1>1. /\ Absent.state = "absent" /\ Absent.from = NoTransfer /\ Absent.gen = 0
      /\ Imported(0, NoTransfer).state = "live" /\ Imported(0, NoTransfer).claim = NoTransfer
      /\ Imported(0, NoTransfer).gen = 0 /\ Imported(0, NoTransfer).from = NoTransfer
  BY DEF Absent, Imported
<1>2. ASSUME NEW m \in Machines
      PROVE  /\ mem[m] = IF m = Origin THEN Imported(0, NoTransfer) ELSE Absent
             /\ op[m] = Idle
  BY <1>2 DEF Init
<1>3. ASSUME NEW t \in Transfers PROVE TransferFits(t)
  BY <1>3, TransferAssumption DEF Init, TransferFits, Unsent, Uncommitted
<1>4. ASSUME NEW m \in Machines PROVE RecordTrue(mem[m]) /\ OpTrue(op[m])
  BY <1>1, <1>2, <1>4 DEF RecordTrue, OpTrue, Idle
<1>5. ExactlyOneHolder
  BY <1>1, <1>2 DEF ExactlyOneHolder, Holds, Init
<1>6. HolderIsNewest
  BY <1>1, <1>2, TransferAssumption DEF HolderIsNewest, Init
<1> QED
  BY <1>3, <1>4, <1>5, <1>6 DEF Init, CommitInv

LEMMA CommitStep ==
  ASSUME ~LateDelivery
  PROVE  LocalInv /\ CommitInv /\ [Next]_vars => CommitInv'
<1> SUFFICES ASSUME LocalInv, CommitInv, [Next]_vars PROVE CommitInv'
  OBVIOUS
<1>0. LocalInv'
  BY LocalStep
<1>1. ASSUME NEW m \in Machines, SourceStep(m) PROVE CommitInv'
  BY <1>0, <1>1, AsideCommit, RecordStagedCommit, DeliverCommit, LoseCommit, OnCommittedCommit,
     OnReleasedCommit, SendNextCommit, EndsCommit, NoExisting, RecoverPreparingCommit,
     BeginsCommit, NotesCommit, ClaimSourceCommit, CheckClearsCommit, CheckContradictsCommit
  DEF SourceStep
<1>2. ASSUME NEW t \in Transfers, TargetStep(t) PROVE CommitInv'
  BY <1>0, <1>2, ServeCommits, BeginCommitCommit, CommitEndsCommit, SaveCommitCommit DEF TargetStep
<1>3. ASSUME NEW m \in Machines, PersonStep(m) PROVE CommitInv'
  BY <1>0, <1>3, PreviewCommit, FreezeCommit, ResolveConflictCommit, BeginsCommit, AsideCommit
  DEF PersonStep
<1>4. ASSUME NEW m \in Machines, FaultStep(m) PROVE CommitInv'
  BY <1>0, <1>4, AbandonSendCommit, LoseCommit, EndsCommit, RestartCommit DEF FaultStep
<1>5. CASE UNCHANGED vars
  BY <1>5 DEF vars, CommitInv, TransferFits, RecordTrue, OpTrue, Unsent, Uncommitted, OpenIn,
     ExactlyOneHolder, HolderIsNewest, Holds
<1> QED
  BY <1>1, <1>2, <1>3, <1>4, <1>5 DEF Next

\* The two invariants together, for a network on which no request outlives its
\* connection (session-transfer-source.ts and session-transfer-target.ts over one socket).
THEOREM CommitCorrect ==
  ASSUME ~LateDelivery
  PROVE  Spec => [](LocalInv /\ CommitInv)
<1>1. Init => LocalInv /\ CommitInv
  BY LocalInit, CommitInit
<1>2. LocalInv /\ CommitInv /\ [Next]_vars => LocalInv' /\ CommitInv'
  BY LocalStep, CommitStep
<1> QED
  BY <1>1, <1>2, PTL DEF Spec

\* At every moment exactly one machine holds a record that no committed transfer
\* superseded, through lost answers, failed writes, restarts and pruned journals.
THEOREM HolderCorrect ==
  ASSUME ~LateDelivery
  PROVE  Spec => []ExactlyOneHolder
<1>1. LocalInv /\ CommitInv => ExactlyOneHolder
  BY DEF CommitInv
<1> QED
  BY <1>1, CommitCorrect, PTL

\* Two machines write to the session at once only where a person took that risk: one of
\* them was recovered without its target's word and still says so
\* (session.transferRecoverSource).
THEOREM OwnerCorrect ==
  ASSUME ~LateDelivery
  PROVE  Spec => []SingleOwner
<1>1. ASSUME LocalInv, CommitInv PROVE SingleOwner
  <2> SUFFICES ASSUME NEW m \in Machines, NEW n \in Machines, m # n, Writable(m), Writable(n),
                      mem[m].claim = NoTransfer, mem[n].claim = NoTransfer
               PROVE  FALSE
    BY DEF SingleOwner
  <2>1. Holds(mem[m]) /\ Holds(mem[n])
    BY DEF Holds, Writable
  <2> QED
    BY <1>1, <2>1 DEF CommitInv, ExactlyOneHolder
<1> QED
  BY <1>1, CommitCorrect, PTL

\* Records are well formed, generations order the holders, and no target knows of a
\* transfer that its source would thaw unasked (stageSourceSessionCheckpoint before the
\* first call).
THEOREM ConsistentCorrect ==
  ASSUME ~LateDelivery
  PROVE  Spec => []Consistent
<1>1. ASSUME LocalInv, CommitInv PROVE Consistent
  <2>1. TypeOK /\ HolderIsNewest
    BY <1>1 DEF LocalInv, CommitInv
  <2>2. ASSUME NEW t \in Transfers, journal[t] # "absent" \/ row[t] \/ work[t] # "none",
               disk[source[t]].state = "preparing", disk[source[t]].transfer = t
        PROVE  FALSE
    <3>1. ~Unsent(t)
      BY <2>2 DEF Unsent, Uncommitted
    <3>2. source[t] \in Machines
      BY <1>1, <2>1, <2>2, <3>1 DEF CommitInv, TransferFits, TypeOK
    <3>3. disk[source[t]] = mem[source[t]]
      BY <1>1, <2>2, <3>2, StoredFits
    <3> QED
      BY <1>1, <2>2, <3>1, <3>2, <3>3 DEF CommitInv, RecordTrue
  <2> QED
    BY <2>1, <2>2 DEF Consistent, ContactOnlyWhenStaged
<1> QED
  BY <1>1, CommitCorrect, PTL

-----------------------------------------------------------------------------
(* The protocol implements SessionOwnership. *)

Claiming(s) == s.state = "live" /\ s.claim # NoTransfer

Writers == {m \in Machines : mem[m].state = "live"}

Claims == {m \in Machines : Claiming(mem[m])}

\* The step of SessionOwnership that a change of one record amounts to, while the
\* session stays where it is.
Moves(m, s, r) ==
    \/ /\ s.state = "live" <=> r.state = "live"
       /\ Claiming(s) <=> Claiming(r)
    \/ /\ r.state = "live"
       /\ ~Claiming(r)
       /\ s.state # "live"
    \/ /\ m = holder
       /\ r.state # "live"
       /\ s.state = "live"
       /\ ~Claiming(s)
    \/ /\ r.state # "live"
       /\ Claiming(s)
    \/ /\ m = holder
       /\ Claiming(r)
       /\ s.state = "live"
       /\ ~Claiming(s)
    \/ /\ m # holder
       /\ Claiming(r)
       /\ s.state # "live"

LEMMA MoveOne ==
  ASSUME LocalInv, NEW m \in Machines, NEW s, mem' = [mem EXCEPT ![m] = s], holder' = holder,
         Moves(m, s, mem[m])
  PROVE  [Ownership!Next]_(Ownership!vars)
<1>1. mem'[m] = s /\ \A k \in Machines \ {m} : mem'[k] = mem[k]
  BY DEF LocalInv, TypeOK
<1>2. /\ Writers' = IF s.state = "live" THEN Writers \cup {m} ELSE Writers \ {m}
      /\ Claims' = IF Claiming(s) THEN Claims \cup {m} ELSE Claims \ {m}
  BY <1>1 DEF Writers, Claims, Claiming
<1>3. (m \in Writers <=> mem[m].state = "live") /\ (m \in Claims <=> Claiming(mem[m]))
  BY DEF Writers, Claims
<1>4. Writers = {k \in Machines : Writable(k)} /\ Writers' = {k \in Machines : Writable(k)}'
  BY DEF Writers, Writable
<1>5. /\ Claims = {k \in Machines : Writable(k) /\ mem[k].claim # NoTransfer}
      /\ Claims' = {k \in Machines : Writable(k) /\ mem[k].claim # NoTransfer}'
  BY DEF Claims, Claiming, Writable
<1>6. CASE (s.state = "live" <=> mem[m].state = "live") /\ (Claiming(s) <=> Claiming(mem[m]))
  <2>1. Writers' = Writers /\ Claims' = Claims
    BY <1>2, <1>3, <1>6
  <2> QED BY <1>4, <1>5, <2>1 DEF Ownership!vars
<1>7. CASE mem[m].state = "live" /\ ~Claiming(mem[m]) /\ s.state # "live"
  <2>1. m \in Writers \ Claims /\ Writers' = Writers \ {m} /\ Claims' = Claims
    BY <1>2, <1>3, <1>7 DEF Claiming
  <2> QED BY <1>4, <1>5, <2>1 DEF Ownership!Next, Ownership!Suspend
<1>8. CASE m = holder /\ mem[m].state # "live" /\ s.state = "live" /\ ~Claiming(s)
  <2>1. m \notin Writers /\ Writers' = Writers \cup {m} /\ Claims' = Claims
    BY <1>2, <1>3, <1>8 DEF Claiming
  <2> QED BY <1>4, <1>5, <1>8, <2>1 DEF Ownership!Next, Ownership!Resume
<1>9. CASE mem[m].state # "live" /\ Claiming(s)
  <2>1. m \notin Writers /\ Writers' = Writers \cup {m} /\ Claims' = Claims \cup {m}
    BY <1>2, <1>3, <1>9 DEF Claiming
  <2> QED BY <1>4, <1>5, <2>1 DEF Ownership!Next, Ownership!Claim
<1>10. CASE m = holder /\ Claiming(mem[m]) /\ s.state = "live" /\ ~Claiming(s)
  <2>1. m \in Claims /\ Writers' = Writers /\ Claims' = Claims \ {m}
    BY <1>2, <1>3, <1>10 DEF Claiming
  <2> QED BY <1>4, <1>5, <1>10, <2>1 DEF Ownership!Next, Ownership!Confirm
<1>11. CASE m # holder /\ Claiming(mem[m]) /\ s.state # "live"
  <2>1. m \in Claims /\ Writers' = Writers \ {m} /\ Claims' = Claims \ {m}
    BY <1>2, <1>3, <1>11 DEF Claiming
  <2> QED BY <1>4, <1>5, <1>11, <2>1 DEF Ownership!Next, Ownership!Withdraw
<1> QED
  BY <1>6, <1>7, <1>8, <1>9, <1>10, <1>11 DEF Moves

LEMMA HolderStays ==
  ASSUME UNCHANGED <<mem, holder>>
  PROVE  [Ownership!Next]_(Ownership!vars)
  BY DEF Ownership!vars, Writable

\* A frozen source that thaws is the holder.
LEMMA ThawMoves ==
  ASSUME LocalInv, CommitInv, NEW m \in Machines, mem' = [mem EXCEPT ![m] = Thawed(mem[m])],
         holder' = holder, Frozen(mem[m]), Uncommitted(mem[m].transfer)
  PROVE  [Ownership!Next]_(Ownership!vars)
<1>1. mem[m] \in Sessions /\ RecordFits(m, mem[m])
  BY DEF LocalInv, TypeOK
<1>2. Thawed(mem[m]).state = "live" /\ Thawed(mem[m]).claim = NoTransfer
  BY <1>1, ThawFits
<1>3. m = holder
  BY DEF Frozen, Uncommitted, Holds, CommitInv, ExactlyOneHolder
<1>4. Moves(m, Thawed(mem[m]), mem[m])
  BY <1>2, <1>3 DEF Moves, Frozen, Claiming
<1> QED
  BY <1>4, MoveOne

LEMMA SourceMoves ==
  ASSUME LocalInv, CommitInv, NEW m \in Machines, SourceStep(m)
  PROVE  [Ownership!Next]_(Ownership!vars)
<1>0. mem[m] \in Sessions
  BY DEF LocalInv, TypeOK
<1>2. CASE RecordStaged(m)
  <2> DEFINE s == [mem[m] EXCEPT !.state = "staged"]
  <2>1. mem' = [mem EXCEPT ![m] = s] /\ mem[m].state = "preparing" /\ holder' = holder
    BY <1>2 DEF RecordStaged, Persist
  <2>2. s.state = "staged"
    BY <1>0 DEF Sessions
  <2> HIDE DEF s
  <2> QED BY <2>1, <2>2, MoveOne DEF Moves, Claiming
<1>3. CASE OnCommitted(m)
  <2> DEFINE s == [mem[m] EXCEPT !.state = "transferred", !.gen = mem[m].gen + 1,
                                 !.unconfirmed = FALSE]
  <2>1. mem' = [mem EXCEPT ![m] = s] /\ holder' = holder
    BY <1>3 DEF OnCommitted, Persist
  <2>2. s.state = "transferred"
    BY <1>0 DEF Sessions
  <2>3. mem[m].state = "staged"
    BY <1>3, AnsweredStaged DEF OnCommitted
  <2> HIDE DEF s
  <2> QED BY <2>1, <2>2, <2>3, MoveOne DEF Moves, Claiming
<1>4. CASE OnReleased(m)
  <2>1. mem' = [mem EXCEPT ![m] = Thawed(mem[m])] /\ holder' = holder
    BY <1>4 DEF OnReleased, Persist
  <2>2. mem[m].state = "staged" /\ mem[m].transfer = op[m].transfer
    BY <1>4, ReleasesStaged DEF OnReleased
  <2>3. op[m].wait = "answered" /\ op[m].reply \in {"aborted", "refused", "absent"}
    BY <1>4 DEF OnReleased, Releases, Answered
  <2>4. Frozen(mem[m]) /\ Uncommitted(mem[m].transfer)
    BY <2>2, <2>3 DEF CommitInv, OpTrue, Frozen
  <2> QED BY <2>1, <2>4, ThawMoves
<1>5. CASE RecoverPreparing(m)
  <2>1. mem' = [mem EXCEPT ![m] = Thawed(mem[m])] /\ holder' = holder
    BY <1>5 DEF RecoverPreparing, Persist
  <2>2. Frozen(mem[m]) /\ Uncommitted(mem[m].transfer)
    BY <1>5 DEF RecoverPreparing, CommitInv, RecordTrue, Unsent, Frozen
  <2> QED BY <2>1, <2>2, ThawMoves
<1>6. CASE RecoverUnconfirmed(m) \/ RecoverResumes(m) \/ ClaimRefused(m)
           \/ RecoverRetries(m) \/ RecoverAborts(m)
  <2>1. PICK b \in BOOLEAN : mem' = [mem EXCEPT ![m] = [mem[m] EXCEPT !.unconfirmed = b]]
    BY <1>6 DEF RecoverUnconfirmed, RecoverResumes, ClaimRefused, RecoverRetries, RecoverAborts,
                Confirmed, Persist
  <2>2. Answered(m, {"recover", "claim"}, Methods, Replies) /\ holder' = holder
    BY <1>6 DEF RecoverUnconfirmed, RecoverResumes, ClaimRefused, RecoverRetries, RecoverAborts,
                Answered, Methods, Replies, JournalStates
  <2>3. mem[m].state = "staged"
    BY <2>2, AnsweredStaged
  <2> DEFINE s == [mem[m] EXCEPT !.unconfirmed = b]
  <2>4. s.state = "staged"
    BY <1>0, <2>3 DEF Sessions
  <2>5. mem' = [mem EXCEPT ![m] = s]
    BY <2>1
  <2> HIDE DEF s
  <2> QED BY <2>2, <2>3, <2>4, <2>5, MoveOne DEF Moves, Claiming
<1>7. CASE ClaimSource(m)
  <2> DEFINE s == [Thawed(mem[m]) EXCEPT !.claim = op[m].transfer]
  <2>1. mem' = [mem EXCEPT ![m] = s] /\ holder' = holder
    BY <1>7 DEF ClaimSource, Persist
  <2>2. s.state = "live" /\ s.claim = op[m].transfer
    BY <1>0 DEF Sessions, Thawed
  <2>3. mem[m].state = "staged" /\ op[m].transfer \in Transfers
    BY <1>7, AnsweredStaged DEF ClaimSource
  <2> HIDE DEF s
  <2> QED BY <2>1, <2>2, <2>3, MoveOne, TransferAssumption DEF Moves, Claiming
<1>8. CASE CheckClears(m)
  <2> DEFINE s == [mem[m] EXCEPT !.claim = NoTransfer]
  <2>1. mem' = [mem EXCEPT ![m] = s] /\ holder' = holder
    BY <1>8 DEF CheckClears, Persist
  <2>2. mem[m].state = "live" /\ mem[m].claim = op[m].transfer /\ op[m].transfer \in Transfers
    BY <1>8, AnsweredClaim DEF CheckClears
  <2>3. Uncommitted(mem[m].claim)
    BY <1>8, <2>2 DEF CheckClears, Answered, CommitInv, OpTrue
  <2>4. m = holder
    BY <2>2, <2>3 DEF Holds, Uncommitted, CommitInv, ExactlyOneHolder
  <2>5. s.state = "live" /\ s.claim = NoTransfer
    BY <1>0, <2>2 DEF Sessions
  <2> HIDE DEF s
  <2> QED BY <2>1, <2>2, <2>4, <2>5, MoveOne, TransferAssumption DEF Moves, Claiming
<1>9. ASSUME NEW proved \in BOOLEAN, NEW saved \in BOOLEAN, CheckContradicts(m, proved, saved)
      PROVE  [Ownership!Next]_(Ownership!vars)
  <2> DEFINE t == op[m].transfer
             s == Conflicted(mem[m], t, fromGen[t] + 1)
  <2>1. mem' = [mem EXCEPT ![m] = s] /\ holder' = holder
    BY <1>9 DEF CheckContradicts, RecordConflict
  <2>2. mem[m].state = "live" /\ mem[m].claim = t /\ t \in Transfers
    BY <1>9, AnsweredClaim DEF CheckContradicts, Contradicted
  <2>3. row[t]
    BY <1>9 DEF CheckContradicts, Contradicted, Answered, CommitInv, OpTrue
  <2>4. m # holder
    BY <2>2, <2>3, TransferAssumption DEF Holds, CommitInv, ExactlyOneHolder
  <2>5. s.state = "conflict"
    BY <1>0 DEF Sessions, Conflicted
  <2> HIDE DEF s
  <2> QED BY <2>1, <2>2, <2>4, <2>5, MoveOne, TransferAssumption DEF Moves, Claiming
<1>10. CASE WritePackage(m) \/ Deliver(m) \/ TimeOut(m) \/ SendNext(m) \/ SendIncomplete(m)
            \/ BeginRecovery(m) \/ RecoverEnds(m) \/ BeginCheck(m) \/ CheckInconclusive(m)
            \/ TimerLapses(m) \/ SaveSnapshot(m)
  BY <1>10, HolderStays DEF WritePackage, Deliver, TimeOut, SendNext, SendIncomplete, BeginRecovery,
     RecoverEnds, BeginCheck, CheckInconclusive, TimerLapses, SaveSnapshot, machineVars
<1> QED
  BY <1>2, <1>3, <1>4, <1>5, <1>6, <1>7, <1>8, <1>9, <1>10, NoExisting DEF SourceStep

\* The session changes hands while its source, the holder, is frozen or a mere claimant.
LEMMA SaveCommitMoves ==
  ASSUME LocalInv, CommitInv, NEW t \in Transfers, SaveCommit(t)
  PROVE  [Ownership!Next]_(Ownership!vars)
<1> DEFINE s == Imported(fromGen[t] + 1, t)
<1>1. PICK m \in Machines : m = source[t]
  BY DEF SaveCommit, LocalInv, Known
<1>2. PICK n \in Machines : n = target[t]
  BY <1>1 DEF LocalInv, Known
<1>3. /\ mem'[n] = s /\ mem[n].state = "absent" /\ holder' = n /\ work[t] = "restoring"
      /\ \A k \in Machines \ {n} : mem'[k] = mem[k]
  BY <1>2 DEF SaveCommit, Persist, LocalInv, TypeOK
<1>4. s.state = "live" /\ s.claim = NoTransfer
  <2>1. fromGen[t] + 1 \in Nat
    BY DEF LocalInv, TypeOK
  <2> QED BY <2>1, ImportedFits
<1> HIDE DEF s
<1>5. OpenIn(mem[m], t) /\ ~row[t]
  BY <1>1, <1>3 DEF CommitInv, TransferFits
<1>6. m = holder
  BY <1>1, <1>5, OpenHolds
<1>7. ASSUME NEW k \in Writers PROVE k \in Claims
  <2>1. k \in Machines /\ mem[k].state = "live"
    BY <1>7 DEF Writers
  <2>2. CASE k = m
    BY <1>5, <2>1, <2>2, TransferAssumption DEF OpenIn, Claims, Claiming
  <2>3. CASE k # m
    BY <1>6, <2>1, <2>3 DEF CommitInv, ExactlyOneHolder, Holds, Claims, Claiming
  <2> QED BY <2>2, <2>3
<1>8. n \notin Writers /\ Writers' = Writers \cup {n} /\ Claims' = Claims
  BY <1>3, <1>4 DEF Writers, Claims, Claiming
<1>9. Writers = {k \in Machines : Writable(k)} /\ Writers' = {k \in Machines : Writable(k)}'
  BY DEF Writers, Writable
<1>10. /\ Claims = {k \in Machines : Writable(k) /\ mem[k].claim # NoTransfer}
       /\ Claims' = {k \in Machines : Writable(k) /\ mem[k].claim # NoTransfer}'
  BY DEF Claims, Claiming, Writable
<1> QED
  BY <1>3, <1>7, <1>8, <1>9, <1>10 DEF Ownership!Next, Ownership!HandOver

LEMMA StepMoves ==
  ASSUME LocalInv, CommitInv, [Next]_vars
  PROVE  [Ownership!Next]_(Ownership!vars)
<1>1. ASSUME NEW m \in Machines, SourceStep(m) PROVE [Ownership!Next]_(Ownership!vars)
  BY <1>1, SourceMoves
<1>2. ASSUME NEW t \in Transfers, TargetStep(t) PROVE [Ownership!Next]_(Ownership!vars)
  <2>1. CASE SaveCommit(t)
    BY <2>1, SaveCommitMoves
  <2>2. CASE ~SaveCommit(t)
    <3>1. UNCHANGED <<mem, holder>>
      BY <1>2, <2>2 DEF TargetStep, ServeStatus, ServePrepare, ServeMembers, ServeAbort, ServeCommit,
         BeginCommit, FailCommit, FinishCommit
    <3> QED BY <3>1, HolderStays
  <2> QED BY <2>1, <2>2
<1>3. ASSUME NEW m \in Machines, PersonStep(m) PROVE [Ownership!Next]_(Ownership!vars)
  <2>0. mem[m] \in Sessions
    BY DEF LocalInv, TypeOK
  <2>1. ASSUME NEW t \in Transfers, Freeze(m, t) PROVE [Ownership!Next]_(Ownership!vars)
    <3> DEFINE s == [mem[m] EXCEPT !.state = "preparing", !.transfer = t]
    <3>1. mem' = [mem EXCEPT ![m] = s] /\ holder' = holder
      BY <2>1 DEF Freeze, Persist
    <3>2. s.state = "preparing"
      BY <2>0 DEF Sessions
    <3>3. mem[m].state = "live" /\ mem[m].claim = NoTransfer
      BY <2>1 DEF Freeze, LocalInv, OpFits
    <3> HIDE DEF s
    <3> QED BY <3>1, <3>2, <3>3, MoveOne DEF Moves, Claiming
  <2>2. CASE ResolveConflict(m)
    <3> DEFINE s == [mem[m] EXCEPT !.state = "transferred", !.gen = mem[m].other, !.claim = NoTransfer]
    <3>1. mem' = [mem EXCEPT ![m] = s] /\ holder' = holder /\ mem[m].state = "conflict"
      BY <2>2 DEF ResolveConflict, Persist
    <3>2. s.state = "transferred"
      BY <2>0 DEF Sessions
    <3> HIDE DEF s
    <3> QED BY <3>1, <3>2, MoveOne DEF Moves, Claiming
  <2>3. CASE (\E n \in Machines : Preview(m, n)) \/ BeginClaim(m) \/ ToggleProject(m)
    BY <2>3, HolderStays DEF Preview, BeginClaim, ToggleProject, machineVars
  <2> QED BY <1>3, <2>1, <2>2, <2>3 DEF PersonStep
<1>4. ASSUME NEW m \in Machines, FaultStep(m) PROVE [Ownership!Next]_(Ownership!vars)
  <2>1. CASE AbandonSend(m)
    <3>1. Frozen(mem[m]) /\ Uncommitted(mem[m].transfer) /\ holder' = holder
      BY <2>1 DEF AbandonSend, LocalInv, OpFits, CommitInv, OpTrue, Frozen
    <3>2. CASE Persist(m, Thawed(mem[m]))
      BY <3>1, <3>2, ThawMoves DEF Persist
    <3> QED BY <2>1, <3>1, <3>2, HolderStays DEF AbandonSend
  <2>2. CASE Lose(m) \/ Interrupt(m)
    BY <2>2, HolderStays DEF Lose, Interrupt
  <2>3. ASSUME NEW expired \in SUBSET Transfers, Restart(m, expired)
        PROVE  [Ownership!Next]_(Ownership!vars)
    <3>1. mem' = [mem EXCEPT ![m] = Restored(m)] /\ holder' = holder
      BY <2>3 DEF Restart
    <3>2. CASE Restored(m) = mem[m]
      BY <3>1, <3>2, MoveOne DEF Moves
    <3>3. CASE Restored(m) = disk[m] /\ disk[m] # mem[m]
      <4>1. /\ mem[m].state = "conflict" /\ RecordFits(m, mem[m])
            /\ \/ disk[m].state = "staged" /\ disk[m].transfer = mem[m].transfer
               \/ disk[m].state = "live" /\ disk[m].claim = mem[m].transfer
        BY <3>3, StoredFits DEF LocalInv
      <4>2. mem[m].transfer \in Transfers
        BY <4>1 DEF RecordFits, Tied
      <4>3. Moves(m, disk[m], mem[m])
        BY <4>1, <4>2, TransferAssumption DEF Moves, Claiming
      <4> QED BY <3>1, <3>3, <4>3, MoveOne
    <3> QED BY <3>2, <3>3, RestoredIs
  <2> QED BY <1>4, <2>1, <2>2, <2>3 DEF FaultStep
<1>5. CASE UNCHANGED vars
  BY <1>5, HolderStays DEF vars
<1> QED
  BY <1>1, <1>2, <1>3, <1>4, <1>5 DEF Next

\* The protocol implements SessionOwnership: journals, answers, restarts and
\* reconciliation change who writes only by its steps.  A source resumes only while it is
\* the holder, and a claim is confirmed only at the holder and withdrawn only elsewhere
\* (#thawVersionedSourceTransfer, clearConfirmedSourceRecovery, markSourceOwnershipConflict).
THEOREM OwnershipRefined ==
  ASSUME ~LateDelivery
  PROVE  Spec => ImplementsOwnership
<1>1. Init => Ownership!Init
  <2> SUFFICES ASSUME Init PROVE Ownership!Init
    OBVIOUS
  <2>1. ASSUME NEW m \in Machines
        PROVE  /\ m = Origin => mem[m].state = "live" /\ mem[m].claim = NoTransfer
               /\ m # Origin => mem[m].state = "absent"
    BY <2>1 DEF Init, Absent, Imported
  <2>2. {m \in Machines : Writable(m)} = {Origin}
    BY <2>1, TransferAssumption DEF Writable
  <2>3. {m \in Machines : Writable(m) /\ mem[m].claim # NoTransfer} = {}
    BY <2>1 DEF Writable
  <2> QED BY <2>2, <2>3 DEF Init, Ownership!Init
<1>2. LocalInv /\ CommitInv /\ [Next]_vars => [Ownership!Next]_(Ownership!vars)
  BY StepMoves
<1> QED
  BY <1>1, <1>2, CommitCorrect, PTL DEF Spec, ImplementsOwnership, Ownership!Spec

\* What every implementation of SessionOwnership inherits.
LEMMA PromiseKept == Ownership!Spec => []Ownership!OnlyHolderWrites
<1>0. Origin \in Machines
  BY TransferAssumption
<1>1. Ownership!Init => Ownership!OnlyHolderWrites
  BY <1>0 DEF Ownership!Init, Ownership!OnlyHolderWrites
<1>2. Ownership!OnlyHolderWrites /\ [Ownership!Next]_(Ownership!vars)
        => Ownership!OnlyHolderWrites'
  <2> SUFFICES ASSUME Ownership!OnlyHolderWrites, [Ownership!Next]_(Ownership!vars)
               PROVE  Ownership!OnlyHolderWrites'
    OBVIOUS
  <2> USE DEF Ownership!OnlyHolderWrites
  <2>1. ASSUME NEW m \in Machines, Ownership!Suspend(m) PROVE Ownership!OnlyHolderWrites'
    BY <2>1 DEF Ownership!Suspend
  <2>2. ASSUME NEW m \in Machines, Ownership!Resume(m) PROVE Ownership!OnlyHolderWrites'
    BY <2>2 DEF Ownership!Resume
  <2>3. ASSUME NEW m \in Machines, Ownership!HandOver(m) PROVE Ownership!OnlyHolderWrites'
    BY <2>3 DEF Ownership!HandOver
  <2>4. ASSUME NEW m \in Machines, Ownership!Claim(m) PROVE Ownership!OnlyHolderWrites'
    BY <2>4 DEF Ownership!Claim
  <2>5. ASSUME NEW m \in Machines, Ownership!Confirm(m) PROVE Ownership!OnlyHolderWrites'
    BY <2>5 DEF Ownership!Confirm
  <2>6. ASSUME NEW m \in Machines, Ownership!Withdraw(m) PROVE Ownership!OnlyHolderWrites'
    BY <2>6 DEF Ownership!Withdraw
  <2>7. CASE UNCHANGED Ownership!vars
    BY <2>7 DEF Ownership!vars
  <2> QED BY <2>1, <2>2, <2>3, <2>4, <2>5, <2>6, <2>7 DEF Ownership!Next
<1> QED
  BY <1>1, <1>2, PTL DEF Ownership!Spec

\* Read through the refinement: only the machine that last took the session over writes to it,
\* beside a machine that a person declared its owner and the other side has not confirmed
\* (transferRecoverSource), whatever is lost, retried or restarted.
THEOREM WritersCorrect ==
  ASSUME ~LateDelivery
  PROVE  Spec => []Ownership!OnlyHolderWrites
  BY OwnershipRefined, PromiseKept, PTL DEF ImplementsOwnership

=============================================================================
