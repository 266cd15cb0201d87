------------------------ MODULE FleetEnrollmentProofs ------------------------
(***************************************************************************)
(* One working credential per machine, and a registry that is true, for     *)
(* every set of machines and every number of codes, faults, losses and       *)
(* restarts.                                                                *)
(*                                                                         *)
(* The machines are independent but for the room in the registry, so the     *)
(* invariant is one of each machine's row, journalled operation, key, task   *)
(* and calls, beside the target's devices.  What carries it is an order of    *)
(* the credentials: codes are shown in order, so a pending claim is the       *)
(* newest, a call to confirm it was sent while the keychain held it, and the  *)
(* keychain never goes back to an older key.                                *)
(***************************************************************************)
EXTENDS FleetEnrollment, FiniteSetTheorems, TLAPS

Enrolling == {"save", "repair", "ask", "confirm", "greet", "reread", "drop", "abort"}
Forgetting == {"read", "revoke", "forget", "complete"}

Sent(n, k, t) == [kind |-> k, token |-> t] \in n

\* The target did, at some time, take credential t for the source's.
Had(d, t) == d[t] \in {"active", "revoked", "withdrawn"}

Retired(d, t) == d[t] \in {"revoked", "withdrawn"}

\* The target: its code c, the number s of codes shown, its devices d; and the calls n.
CodesFit(c, s, d, n) ==
  /\ c \in {0, s}
  /\ \A t \in Tokens : d[t] # "none" => t <= s /\ t # c
  /\ \A t \in Tokens : \A u \in Tokens : d[t] = "pending" /\ u > t => d[u] = "none"
  /\ \A t \in Tokens : \A u \in Tokens : d[t] = "active" /\ d[u] = "active" => t = u
  /\ \A t \in Tokens : Sent(n, "confirm", t) => d[t] # "none"
  /\ \A t \in Tokens : Sent(n, "revoke", t) => Had(d, t)

\* The keychain: its key k and whether the index lists it.
KeyFits(k, i, r, o, u, d, n) ==
  /\ k # 0 => d[k] # "none"
  /\ k # 0 /\ o.kind # "forget" => d[k] # "revoked"
  /\ k # 0 /\ ~i => /\ o.kind = "enroll" /\ k = o.digest
                    /\ u.phase \notin {"ask", "confirm", "greet", "reread"}
  /\ o.kind = "forget" => k \in {0, o.digest}
  /\ \A t \in Tokens : Sent(n, "confirm", t) => k = 0 \/ k >= t
  /\ \A t \in Tokens : Sent(n, "revoke", t) => o.kind = "forget" \/ (k # t /\ r.digest # t)

\* The journalled operation o, and the row r.
OpFits(o, r, d, n) ==
  /\ o.kind = "none" => o = NoOp
  /\ o.kind = "enroll" => o.digest # 0 /\ d[o.digest] # "none" /\ r.digest # o.digest
  /\ o.kind = "forget" /\ o.revoked => o.digest # 0 /\ Retired(d, o.digest)
  /\ \A t \in Tokens :
        Sent(n, "confirm", t) /\ d[t] = "pending" =>
          IF o.kind = "enroll" THEN o.digest = t
          ELSE r.digest = 0 \/ r.health # "ok"

RowFits(r, o, d) ==
  /\ r.digest # 0 => Had(d, r.digest)
  /\ r.digest # 0 /\ r.health = "ok" /\ o = NoOp => d[r.digest] # "revoked"

\* The task u at work on the machine.
RunFits(u, o, k, d, n) ==
  /\ u.phase \in Enrolling => o.kind = "enroll"
  /\ u.phase \in Forgetting => o.kind = "forget"
  /\ u.phase \in {"save", "confirm", "greet", "reread", "revoke"} => u.token = o.digest
  /\ u.phase \in {"claim", "revoke"} => u.token # 0
  /\ u.phase \in {"claim", "save"} =>
        \A t \in Tokens : Sent(n, "confirm", t) => t <= u.token
  /\ u.phase = "save" \/ (u.phase = "claim" /\ u.reply = "ok") =>
        d[u.token] \in {"pending", "gone"} /\ ~Sent(n, "confirm", u.token)
  /\ u.phase \in {"greet", "reread"} \/ (u.phase = "confirm" /\ u.reply = "ok") =>
        Had(d, u.token)
  /\ u.phase = "revoke" /\ u.reply = "ok" => Retired(d, u.token)
  /\ u.phase \in {"abort", "complete"} => k = 0

Fits(m) ==
  /\ CodesFit(code[m], shown[m], dev[m], net[m])
  /\ KeyFits(key[m], index[m], row[m], op[m], run[m], dev[m], net[m])
  /\ OpFits(op[m], row[m], dev[m], net[m])
  /\ RowFits(row[m], op[m], dev[m])
  /\ RunFits(run[m], op[m], key[m], dev[m], net[m])
  /\ beat[m].phase # "idle" => beat[m].digest # 0

FleetInv ==
  /\ TypeOK
  /\ IsFiniteSet(Admitted)
  /\ \A m \in Machines : Fits(m)

-----------------------------------------------------------------------------
(* Steps of one machine. *)

RowSet == [digest : Tokens \union {0}, health : Healths]
OpSet == [kind : {"none", "enroll", "forget"}, digest : Tokens \union {0}, revoked : BOOLEAN]
RunSet == [phase : Phases, token : Tokens \union {0}, reply : Replies]
BeatSet == [phase : BeatPhases, digest : Tokens \union {0}, live : BOOLEAN, reply : Replies]
DevSet == [Tokens -> {"none", "pending", "gone", "active", "revoked", "withdrawn"}]

\* TypeOK, but for the room in the registry.
Types ==
  /\ row \in [Machines -> RowSet]
  /\ op \in [Machines -> OpSet]
  /\ key \in [Machines -> Tokens \union {0}]
  /\ index \in [Machines -> BOOLEAN]
  /\ run \in [Machines -> RunSet]
  /\ beat \in [Machines -> BeatSet]
  /\ code \in [Machines -> Tokens \union {0}]
  /\ shown \in [Machines -> Tokens \union {0}]
  /\ dev \in [Machines -> DevSet]
  /\ net \in [Machines -> SUBSET Calls]
  /\ faults \in 0..MaxFaults
  /\ losses \in 0..MaxLosses
  /\ crashes \in 0..MaxCrashes

LEMMA TypesAndRoom == TypeOK <=> Types /\ Cardinality(Admitted) <= MaxMachines
  BY DEF TypeOK, Types, RowSet, OpSet, RunSet, BeatSet, DevSet

Same(k) ==
  /\ row'[k] = row[k] /\ op'[k] = op[k] /\ key'[k] = key[k] /\ index'[k] = index[k]
  /\ run'[k] = run[k] /\ beat'[k] = beat[k]
  /\ code'[k] = code[k] /\ shown'[k] = shown[k] /\ dev'[k] = dev[k] /\ net'[k] = net[k]

LEMMA Now ==
  ASSUME FleetInv, NEW m \in Machines
  PROVE  /\ row[m] \in RowSet /\ op[m] \in OpSet /\ key[m] \in Tokens \union {0}
         /\ index[m] \in BOOLEAN /\ run[m] \in RunSet /\ beat[m] \in BeatSet
         /\ code[m] \in Tokens \union {0} /\ shown[m] \in Tokens \union {0}
         /\ dev[m] \in DevSet /\ net[m] \in SUBSET Calls
         /\ Fits(m)
  BY TypesAndRoom DEF FleetInv, Types

\* A step that leaves the other machines alone and takes no room.
LEMMA OneMachine ==
  ASSUME FleetInv, NEW m \in Machines, Types', \A k \in Machines \ {m} : Same(k), Fits(m)',
         m \in Admitted' => m \in Admitted
  PROVE  FleetInv'
<1>1. Admitted' \subseteq Admitted
  BY DEF Admitted, Same
<1>2. IsFiniteSet(Admitted) /\ Cardinality(Admitted) <= MaxMachines
  BY TypesAndRoom DEF FleetInv
<1>3. IsFiniteSet(Admitted') /\ Cardinality(Admitted') <= Cardinality(Admitted)
  BY <1>1, <1>2, FS_Subset
<1>4. Cardinality(Admitted') <= MaxMachines
  BY <1>2, <1>3, FS_CardinalityType, FleetAssumption
<1>5. ASSUME NEW k \in Machines \ {m} PROVE Fits(k)'
  BY <1>5 DEF FleetInv, Same, Fits
<1>6. TypeOK'
  BY <1>4 DEF TypeOK, Types, RowSet, OpSet, RunSet, BeatSet, DevSet
<1> QED
  BY <1>3, <1>5, <1>6 DEF FleetInv

\* The target's own steps: what it does to a credential the source may hold.
LEMMA IssueCodeKeeps ==
  ASSUME FleetInv, NEW m \in Machines, IssueCode(m)
  PROVE  FleetInv'
<1>0. Types /\ MaxCodes \in Nat
  BY TypesAndRoom, FleetAssumption DEF FleetInv
<1>1. shown[m] \in Nat /\ shown[m] + 1 \in Tokens /\ shown[m] + 1 > shown[m]
  BY <1>0 DEF IssueCode, Types, Tokens
<1>2. /\ shown' = [shown EXCEPT ![m] = shown[m] + 1] /\ code' = [code EXCEPT ![m] = shown[m] + 1]
      /\ UNCHANGED <<row, op, key, index, run, beat, dev, net, faults, losses, crashes>>
  BY <1>0 DEF IssueCode, source, bounds, Types
<1>3. shown'[m] = shown[m] + 1 /\ code'[m] = shown[m] + 1
  BY <1>0, <1>2 DEF Types
<1>4. Types'
  BY <1>0, <1>1, <1>2 DEF Types
<1>5. \A k \in Machines \ {m} : Same(k)
  BY <1>0, <1>2 DEF Types, Same
<1>6. Fits(m)
  BY Now
<1>7. CodesFit(code'[m], shown'[m], dev[m], net[m])
  BY <1>0, <1>1, <1>3, <1>6 DEF Fits, CodesFit, Tokens
<1>8. Fits(m)'
  BY <1>2, <1>6, <1>7 DEF Fits
<1>9. m \in Admitted' => m \in Admitted
  BY <1>2 DEF Admitted
<1> QED
  BY <1>4, <1>5, <1>8, <1>9, OneMachine

LEMMA CodeEndsKeeps ==
  ASSUME FleetInv, NEW m \in Machines, CodeEnds(m)
  PROVE  FleetInv'
<1>0. Types /\ MaxCodes \in Nat
  BY TypesAndRoom, FleetAssumption DEF FleetInv
<1>2. /\ code' = [code EXCEPT ![m] = 0]
      /\ UNCHANGED <<row, op, key, index, run, beat, shown, dev, net, faults, losses, crashes>>
  BY <1>0 DEF CodeEnds, source, bounds
<1>3. code'[m] = 0
  BY <1>0, <1>2 DEF Types
<1>4. Types'
  BY <1>0, <1>2 DEF Types
<1>5. \A k \in Machines \ {m} : Same(k)
  BY <1>0, <1>2 DEF Types, Same
<1>6. Fits(m)
  BY Now
<1>7. CodesFit(code'[m], shown'[m], dev[m], net[m])
  BY <1>0, <1>2, <1>3, <1>6 DEF Fits, CodesFit, Tokens
<1>8. Fits(m)'
  BY <1>2, <1>6, <1>7 DEF Fits
<1>9. m \in Admitted' => m \in Admitted
  BY <1>2 DEF Admitted
<1> QED
  BY <1>4, <1>5, <1>8, <1>9, OneMachine

\* A pending claim is deleted, or an active credential withdrawn.
LEMMA EndsCredential ==
  ASSUME FleetInv, NEW m \in Machines, ClaimExpires(m) \/ Withdraw(m)
  PROVE  FleetInv'
<1>0. Types /\ MaxCodes \in Nat
  BY TypesAndRoom, FleetAssumption DEF FleetInv
<1>1. PICK t \in Tokens : \E x \in {"gone", "withdrawn"} :
        /\ dev[m][t] = IF x = "gone" THEN "pending" ELSE "active"
        /\ dev' = [dev EXCEPT ![m][t] = x]
        /\ UNCHANGED <<row, op, key, index, run, beat, code, shown, net, faults, losses, crashes>>
  BY DEF ClaimExpires, Withdraw, source, bounds
<1>2. PICK x \in {"gone", "withdrawn"} :
        /\ dev[m][t] = IF x = "gone" THEN "pending" ELSE "active"
        /\ dev' = [dev EXCEPT ![m][t] = x]
        /\ UNCHANGED <<row, op, key, index, run, beat, code, shown, net, faults, losses, crashes>>
  BY <1>1
<1>3. dev[m] \in DevSet /\ dev'[m] = [dev[m] EXCEPT ![t] = x]
  BY <1>0, <1>2 DEF Types
<1>4. Types'
  BY <1>0, <1>2 DEF Types, DevSet
<1>5. \A k \in Machines \ {m} : Same(k)
  BY <1>0, <1>2 DEF Types, Same
<1>6. Fits(m)
  BY Now
<1>d. dev'[m][t] = x /\ \A u \in Tokens \ {t} : dev'[m][u] = dev[m][u]
  BY <1>3 DEF DevSet
<1>e. /\ key[m] \in Tokens \union {0} /\ op[m].digest \in Tokens \union {0}
      /\ row[m].digest \in Tokens \union {0} /\ run[m].token \in Tokens \union {0}
      /\ 0 \notin Tokens
  BY Now, <1>0 DEF OpSet, RowSet, RunSet, Tokens
<1>7. CodesFit(code[m], shown[m], dev'[m], net[m])
  BY <1>2, <1>6, <1>d DEF Fits, CodesFit, Had
<1>8. KeyFits(key[m], index[m], row[m], op[m], run[m], dev'[m], net[m])
  BY <1>2, <1>6, <1>d, <1>e DEF Fits, KeyFits
<1>9. OpFits(op[m], row[m], dev'[m], net[m])
  BY <1>2, <1>6, <1>d, <1>e DEF Fits, OpFits, Retired
<1>10. RowFits(row[m], op[m], dev'[m])
  BY <1>2, <1>6, <1>d, <1>e DEF Fits, RowFits, Had
<1>11. RunFits(run[m], op[m], key[m], dev'[m], net[m])
  BY <1>2, <1>6, <1>d, <1>e DEF Fits, RunFits, Had, Retired
<1>12. Fits(m)'
  BY <1>2, <1>6, <1>7, <1>8, <1>9, <1>10, <1>11 DEF Fits
<1>13. m \in Admitted' => m \in Admitted
  BY <1>2 DEF Admitted
<1> QED
  BY <1>4, <1>5, <1>12, <1>13, OneMachine

-----------------------------------------------------------------------------
(* The network. *)

\* The values that name a credential.
LEMMA Names ==
  ASSUME FleetInv, NEW m \in Machines
  PROVE  /\ key[m] \in Tokens \union {0} /\ op[m].digest \in Tokens \union {0}
         /\ row[m].digest \in Tokens \union {0} /\ run[m].token \in Tokens \union {0}
         /\ 0 \notin Tokens /\ Tokens \subseteq Nat
         /\ code[m] \in Tokens \union {0} /\ shown[m] \in Tokens \union {0}
         /\ dev[m] \in DevSet
  BY Now, FleetAssumption DEF OpSet, RowSet, RunSet, Tokens

\* Fewer calls on their way.
LEMMA FewerCalls ==
  ASSUME NEW c, NEW s, NEW d, NEW n, NEW n2 \in SUBSET n, NEW k, NEW i, NEW r, NEW o, NEW u
  PROVE  /\ CodesFit(c, s, d, n) => CodesFit(c, s, d, n2)
         /\ KeyFits(k, i, r, o, u, d, n) => KeyFits(k, i, r, o, u, d, n2)
         /\ OpFits(o, r, d, n) => OpFits(o, r, d, n2)
         /\ RunFits(u, o, k, d, n) => RunFits(u, o, k, d, n2)
<1>1. \A x, t : Sent(n2, x, t) => Sent(n, x, t)
  BY DEF Sent
<1>2. CodesFit(c, s, d, n) => CodesFit(c, s, d, n2)
  BY <1>1 DEF CodesFit
<1>3. KeyFits(k, i, r, o, u, d, n) => KeyFits(k, i, r, o, u, d, n2)
  BY <1>1 DEF KeyFits
<1>4. OpFits(o, r, d, n) => OpFits(o, r, d, n2)
  BY <1>1 DEF OpFits
<1>5. RunFits(u, o, k, d, n) => RunFits(u, o, k, d, n2)
  BY <1>1 DEF RunFits
<1> QED
  BY <1>2, <1>3, <1>4, <1>5

LEMMA LoseKeeps ==
  ASSUME FleetInv, NEW m \in Machines, NEW c \in net[m], Lose(m, c)
  PROVE  FleetInv'
<1>0. Types /\ MaxFaults \in Nat
  BY TypesAndRoom, FleetAssumption DEF FleetInv
<1>1. /\ net' = [net EXCEPT ![m] = net[m] \ {c}] /\ faults' \in 0..MaxFaults
      /\ UNCHANGED <<row, op, key, index, run, beat, code, shown, dev, losses, crashes>>
  BY <1>0 DEF Lose, source, target, Types
<1>2. net'[m] = net[m] \ {c} /\ net'[m] \in SUBSET net[m]
  BY <1>0, <1>1 DEF Types
<1>3. Types'
  BY <1>0, <1>1 DEF Types
<1>4. \A k \in Machines \ {m} : Same(k)
  BY <1>0, <1>1 DEF Types, Same
<1>5. Fits(m)
  BY Now
<1>6. Fits(m)'
  BY <1>1, <1>2, <1>5, FewerCalls DEF Fits
<1>7. m \in Admitted' => m \in Admitted
  BY <1>1 DEF Admitted
<1> QED
  BY <1>3, <1>4, <1>6, <1>7, OneMachine

\* What a served call does to the devices, and what the other parts make of it: d and n are
\* the devices and the calls before it, e the devices after it.
LEMMA ServedClaim ==
  ASSUME FleetInv, NEW m \in Machines, NEW t \in Tokens, code[m] = t,
         NEW e, e = Claimed(dev[m], t)
  PROVE  /\ CodesFit(0, shown[m], e, net[m])
         /\ KeyFits(key[m], index[m], row[m], op[m], run[m], e, net[m])
         /\ OpFits(op[m], row[m], e, net[m])
         /\ RowFits(row[m], op[m], e)
         /\ RunFits(run[m], op[m], key[m], e, net[m])
         /\ e \in DevSet
         /\ e[t] = "pending" /\ ~Sent(net[m], "confirm", t)
<1>0. Fits(m)
  BY Now
<1>1. dev[m][t] = "none" /\ ~Sent(net[m], "confirm", t) /\ shown[m] = t /\ t \in Nat
  BY <1>0, Names DEF Fits, CodesFit
<1>2. /\ e[t] = "pending"
      /\ \A u \in Tokens \ {t} : e[u] = IF dev[m][u] = "pending" THEN "gone" ELSE dev[m][u]
  BY DEF Claimed
<1>3. e \in DevSet
  BY Names DEF Claimed, DevSet
<1>4. CodesFit(0, shown[m], e, net[m])
  <2>1. \A u \in Tokens : e[u] # "none" => u <= shown[m] /\ u # 0
    BY <1>0, <1>1, <1>2, Names DEF Fits, CodesFit
  <2>2. \A u \in Tokens : e[u] = "pending" => u = t
    BY <1>2
  <2>3. \A u \in Tokens : u > t => e[u] = "none"
    BY <1>1, <2>1, Names
  <2>4. \A u \in Tokens : \A v \in Tokens : e[u] = "active" /\ e[v] = "active" => u = v
    BY <1>0, <1>2 DEF Fits, CodesFit
  <2>5. \A u \in Tokens : Sent(net[m], "confirm", u) => e[u] # "none"
    BY <1>0, <1>2 DEF Fits, CodesFit
  <2>6. \A u \in Tokens : Sent(net[m], "revoke", u) => Had(e, u)
    BY <1>0, <1>1, <1>2 DEF Fits, CodesFit, Had
  <2> QED BY <2>1, <2>2, <2>3, <2>4, <2>5, <2>6 DEF CodesFit
<1>5. KeyFits(key[m], index[m], row[m], op[m], run[m], e, net[m])
  BY <1>0, <1>1, <1>2, Names DEF Fits, KeyFits
<1>6. OpFits(op[m], row[m], e, net[m])
  BY <1>0, <1>1, <1>2, Names DEF Fits, OpFits, Retired
<1>7. RowFits(row[m], op[m], e)
  BY <1>0, <1>1, <1>2, Names DEF Fits, RowFits, Had
<1>8. RunFits(run[m], op[m], key[m], e, net[m])
  <2>1. \A u \in Tokens : dev[m][u] \in {"active", "revoked", "withdrawn", "gone"} => e[u] = dev[m][u]
    BY <1>1, <1>2
  <2>2. \A u \in Tokens : dev[m][u] = "pending" => e[u] = "gone"
    BY <1>1, <1>2
  <2>3. run[m].phase \in {"save", "confirm", "greet", "reread"} => run[m].token \in Tokens
    BY <1>0, Names DEF Fits, RunFits, OpFits, Enrolling
  <2>4. run[m].phase \in {"claim", "revoke"} => run[m].token \in Tokens
    BY <1>0, Names DEF Fits, RunFits
  <2> QED
    BY <1>0, <2>1, <2>2, <2>3, <2>4 DEF Fits, RunFits, Had, Retired
<1> QED
  BY <1>1, <1>2, <1>3, <1>4, <1>5, <1>6, <1>7, <1>8

LEMMA ServedConfirm ==
  ASSUME FleetInv, NEW m \in Machines, NEW t \in Tokens, Sent(net[m], "confirm", t),
         dev[m][t] = "pending", NEW e, e = Confirmed(dev[m], t)
  PROVE  /\ CodesFit(code[m], shown[m], e, net[m])
         /\ KeyFits(key[m], index[m], row[m], op[m], run[m], e, net[m])
         /\ OpFits(op[m], row[m], e, net[m])
         /\ RowFits(row[m], op[m], e)
         /\ RunFits(run[m], op[m], key[m], e, net[m])
         /\ e \in DevSet /\ e[t] = "active"
<1>0. Fits(m)
  BY Now
<1>1. /\ e[t] = "active"
      /\ \A u \in Tokens \ {t} : e[u] = IF dev[m][u] = "active" THEN "revoked" ELSE dev[m][u]
  BY DEF Confirmed
<1>2. e \in DevSet
  BY Names DEF Confirmed, DevSet
\* The keychain holds t or nothing.
<1>3. key[m] \in {0, t}
  <2>1. key[m] # 0 => key[m] >= t /\ key[m] \in Tokens /\ dev[m][key[m]] # "none"
    BY <1>0, Names DEF Fits, KeyFits
  <2>2. \A u \in Tokens : u > t => dev[m][u] = "none"
    BY <1>0 DEF Fits, CodesFit
  <2> QED BY <2>1, <2>2, Names
<1>4. CodesFit(code[m], shown[m], e, net[m])
  <2>1. \A u \in Tokens : dev[m][u] = "none" <=> e[u] = "none"
    BY <1>1
  <2>2. \A u \in Tokens : e[u] = "pending" => FALSE
    <3>1. \A u \in Tokens \ {t} : dev[m][u] # "pending"
      BY <1>0, Names DEF Fits, CodesFit
    <3> QED BY <1>1, <3>1
  <2>3. \A u \in Tokens : e[u] = "active" => u = t
    BY <1>1
  <2>4. \A u \in Tokens : Had(dev[m], u) => Had(e, u)
    BY <1>1 DEF Had
  <2> QED
    BY <1>0, <2>1, <2>2, <2>3, <2>4 DEF Fits, CodesFit
<1>5. KeyFits(key[m], index[m], row[m], op[m], run[m], e, net[m])
  BY <1>0, <1>1, <1>3, Names DEF Fits, KeyFits
<1>6. OpFits(op[m], row[m], e, net[m])
  <2>1. \A u \in Tokens : dev[m][u] = "none" <=> e[u] = "none"
    BY <1>1
  <2>2. \A u \in Tokens : Retired(dev[m], u) => Retired(e, u)
    BY <1>1 DEF Retired
  <2>3. \A u \in Tokens : e[u] = "pending" => dev[m][u] = "pending"
    BY <1>1
  <2> QED
    BY <1>0, <2>1, <2>2, <2>3, Names DEF Fits, OpFits
<1>7. RowFits(row[m], op[m], e)
  <2>1. row[m].digest # 0 => Had(dev[m], row[m].digest) /\ row[m].digest \in Tokens \ {t}
    BY <1>0, Names DEF Fits, RowFits, Had
  <2>2. op[m] = NoOp => row[m].digest = 0 \/ row[m].health # "ok"
    BY <1>0 DEF Fits, OpFits, NoOp
  <2> QED
    BY <1>1, <2>1, <2>2 DEF RowFits, Had
<1>8. RunFits(run[m], op[m], key[m], e, net[m])
  <2>1. \A u \in Tokens : Had(dev[m], u) => Had(e, u)
    BY <1>1 DEF Had
  <2>2. \A u \in Tokens : Retired(dev[m], u) => Retired(e, u)
    BY <1>1 DEF Retired
  <2>3. \A u \in Tokens \ {t} : dev[m][u] \in {"pending", "gone"} => e[u] \in {"pending", "gone"}
    BY <1>1
  <2>4. run[m].phase \in {"save", "confirm", "greet", "reread"} => run[m].token \in Tokens
    BY <1>0, Names DEF Fits, RunFits, OpFits, Enrolling
  <2>5. run[m].phase \in {"claim", "revoke"} => run[m].token \in Tokens
    BY <1>0, Names DEF Fits, RunFits
  <2> QED
    BY <1>0, <2>1, <2>2, <2>3, <2>4, <2>5 DEF Fits, RunFits
<1> QED
  BY <1>1, <1>2, <1>4, <1>5, <1>6, <1>7, <1>8

LEMMA ServedRevoke ==
  ASSUME FleetInv, NEW m \in Machines, NEW t \in Tokens, Sent(net[m], "revoke", t),
         dev[m][t] = "active", NEW e, e = [dev[m] EXCEPT ![t] = "revoked"]
  PROVE  /\ CodesFit(code[m], shown[m], e, net[m])
         /\ KeyFits(key[m], index[m], row[m], op[m], run[m], e, net[m])
         /\ OpFits(op[m], row[m], e, net[m])
         /\ RowFits(row[m], op[m], e)
         /\ RunFits(run[m], op[m], key[m], e, net[m])
         /\ e \in DevSet /\ e[t] = "revoked"
<1>0. Fits(m)
  BY Now
<1>1. e[t] = "revoked" /\ e \in DevSet /\ \A u \in Tokens \ {t} : e[u] = dev[m][u]
  BY Names DEF DevSet
<1>2. op[m].kind = "forget" \/ (key[m] # t /\ row[m].digest # t)
  BY <1>0 DEF Fits, KeyFits
<1>3. CodesFit(code[m], shown[m], e, net[m])
  BY <1>0, <1>1 DEF Fits, CodesFit, Had
<1>4. KeyFits(key[m], index[m], row[m], op[m], run[m], e, net[m])
  BY <1>0, <1>1, <1>2, Names DEF Fits, KeyFits
<1>5. OpFits(op[m], row[m], e, net[m])
  BY <1>0, <1>1, Names DEF Fits, OpFits, Retired
<1>6. RowFits(row[m], op[m], e)
  BY <1>0, <1>1, <1>2, Names DEF Fits, RowFits, Had, NoOp
<1>7. RunFits(run[m], op[m], key[m], e, net[m])
  <2>1. \A u \in Tokens : Had(dev[m], u) => Had(e, u)
    BY <1>1 DEF Had
  <2>2. \A u \in Tokens : Retired(dev[m], u) => Retired(e, u)
    BY <1>1 DEF Retired
  <2>3. \A u \in Tokens : dev[m][u] \in {"pending", "gone"} => e[u] \in {"pending", "gone"}
    BY <1>1
  <2>4. run[m].phase \in {"save", "confirm", "greet", "reread"} => run[m].token \in Tokens
    BY <1>0, Names DEF Fits, RunFits, OpFits, Enrolling
  <2>5. run[m].phase \in {"claim", "revoke"} => run[m].token \in Tokens
    BY <1>0, Names DEF Fits, RunFits
  <2> QED
    BY <1>0, <2>1, <2>2, <2>3, <2>4, <2>5 DEF Fits, RunFits
<1> QED
  BY <1>1, <1>3, <1>4, <1>5, <1>6, <1>7

\* What a call leaves at the target, and what its acceptance means.
LEMMA ServedCall ==
  ASSUME FleetInv, NEW m \in Machines, NEW c \in net[m], NEW g,
         g = IF c.kind = "claim" /\ Accepts(m, c) THEN 0 ELSE code[m]
  PROVE  /\ c.token \in Tokens
         /\ CodesFit(g, shown[m], Effect(m, c), net[m])
         /\ KeyFits(key[m], index[m], row[m], op[m], run[m], Effect(m, c), net[m])
         /\ OpFits(op[m], row[m], Effect(m, c), net[m])
         /\ RowFits(row[m], op[m], Effect(m, c))
         /\ RunFits(run[m], op[m], key[m], Effect(m, c), net[m])
         /\ Effect(m, c) \in DevSet
         /\ c.kind = "claim" /\ Accepts(m, c) =>
               Effect(m, c)[c.token] = "pending" /\ ~Sent(net[m], "confirm", c.token)
         /\ c.kind = "confirm" /\ Accepts(m, c) => Had(Effect(m, c), c.token)
         /\ c.kind = "revoke" /\ Accepts(m, c) => Retired(Effect(m, c), c.token)
<1>0. /\ Fits(m) /\ c \in Calls
  BY Now
<1>1. /\ c.token \in Tokens /\ c.kind \in {"claim", "confirm", "greet", "revoke", "beat"}
      /\ c = [kind |-> c.kind, token |-> c.token]
  BY <1>0 DEF Calls
<1>2. Sent(net[m], c.kind, c.token)
  BY <1>1 DEF Sent
<1>3. CASE c.kind = "claim" /\ code[m] = c.token
  <2>1. Effect(m, c) = Claimed(dev[m], c.token) /\ g = 0
    BY <1>3 DEF Effect, Accepts
  <2> QED
    BY <1>1, <1>3, <2>1, ServedClaim
<1>4. CASE c.kind = "confirm" /\ dev[m][c.token] = "pending"
  <2>1. Effect(m, c) = Confirmed(dev[m], c.token) /\ g = code[m]
    BY <1>4 DEF Effect
  <2> QED
    BY <1>1, <1>2, <1>4, <2>1, ServedConfirm DEF Had
<1>5. CASE c.kind = "revoke" /\ dev[m][c.token] = "active"
  <2>1. Effect(m, c) = [dev[m] EXCEPT ![c.token] = "revoked"] /\ g = code[m]
    BY <1>5 DEF Effect
  <2> QED
    BY <1>1, <1>2, <1>5, <2>1, ServedRevoke DEF Retired
<1>6. CASE /\ ~(c.kind = "claim" /\ code[m] = c.token)
           /\ ~(c.kind = "confirm" /\ dev[m][c.token] = "pending")
           /\ ~(c.kind = "revoke" /\ dev[m][c.token] = "active")
  <2>1. Effect(m, c) = dev[m] /\ g = code[m]
    BY <1>6 DEF Effect, Accepts
  <2>2. c.kind = "confirm" /\ Accepts(m, c) => Had(dev[m], c.token)
    BY <1>6 DEF Accepts, Had
  <2>3. ~(c.kind = "claim" /\ Accepts(m, c)) /\ ~(c.kind = "revoke" /\ Accepts(m, c))
    BY <1>6 DEF Accepts
  <2> QED
    BY <1>0, <1>1, <2>1, <2>2, <2>3, Now DEF Fits
<1> QED
  BY <1>3, <1>4, <1>5, <1>6

LEMMA ServeKeeps ==
  ASSUME FleetInv, NEW m \in Machines, NEW c \in net[m], Serve(m, c)
  PROVE  FleetInv'
<1> DEFINE e == Effect(m, c)
           g == IF c.kind = "claim" /\ Accepts(m, c) THEN 0 ELSE code[m]
           v == Verdict(m, c)
<1>0. Types /\ MaxFaults \in Nat
  BY TypesAndRoom, FleetAssumption DEF FleetInv
<1>1. /\ c.token \in Tokens
      /\ CodesFit(g, shown[m], e, net[m])
      /\ KeyFits(key[m], index[m], row[m], op[m], run[m], e, net[m])
      /\ OpFits(op[m], row[m], e, net[m])
      /\ RowFits(row[m], op[m], e)
      /\ RunFits(run[m], op[m], key[m], e, net[m])
      /\ e \in DevSet
  BY ServedCall
<1>2. /\ v \in {"ok", "refused"}
      /\ c.kind = "claim" /\ v = "ok" => e[c.token] = "pending" /\ ~Sent(net[m], "confirm", c.token)
      /\ c.kind = "confirm" /\ v = "ok" => Had(e, c.token)
      /\ c.kind = "revoke" /\ v = "ok" => Retired(e, c.token)
  BY ServedCall DEF Verdict
<1>3. /\ net' = [net EXCEPT ![m] = net[m] \ {c}] /\ dev' = [dev EXCEPT ![m] = e]
      /\ code' = [code EXCEPT ![m] = g] /\ faults' \in 0..MaxFaults
      /\ UNCHANGED <<row, op, key, index, shown, losses, crashes>>
  <2>1. code = [code EXCEPT ![m] = code[m]]
    BY <1>0 DEF Types
  <2>2. code' = [code EXCEPT ![m] = g]
    BY <2>1 DEF Serve
  <2>3. faults' \in 0..MaxFaults
    BY <1>0 DEF Serve, Types
  <2>4. /\ net' = [net EXCEPT ![m] = net[m] \ {c}] /\ dev' = [dev EXCEPT ![m] = e]
        /\ UNCHANGED <<row, op, key, index, shown, losses, crashes>>
    BY DEF Serve, source
  <2> QED BY <2>2, <2>3, <2>4
<1> HIDE DEF e, g, v
<1>4. g \in Tokens \union {0}
  BY Names DEF g
<1>5. PICK u \in RunSet : \E b \in BeatSet :
        /\ run' = [run EXCEPT ![m] = u] /\ beat' = [beat EXCEPT ![m] = b]
        /\ u.phase = run[m].phase /\ u.token = run[m].token
        /\ u = run[m] \/ (u.phase = c.kind /\ u.token = c.token /\ u.reply = v)
        /\ b.phase = beat[m].phase /\ b.digest = beat[m].digest
  <2>1. run[m] \in RunSet /\ beat[m] \in BeatSet
    BY Now
  <2>2. run = [run EXCEPT ![m] = run[m]] /\ beat = [beat EXCEPT ![m] = beat[m]]
    BY <1>0 DEF Types
  <2>3. CASE UNCHANGED <<run, beat>>
    BY <2>1, <2>2, <2>3
  <2>4. CASE c.kind = "beat" /\ Answered(m, c, v)
    <3> DEFINE b == [beat[m] EXCEPT !.reply = v]
    <3>1. b \in BeatSet /\ b.phase = beat[m].phase /\ b.digest = beat[m].digest
      BY <1>2, <2>1 DEF BeatSet, Replies
    <3>2. UNCHANGED run /\ (beat' = beat \/ beat' = [beat EXCEPT ![m] = b])
      BY <2>4 DEF Answered
    <3> HIDE DEF b
    <3> QED BY <2>1, <2>2, <3>1, <3>2
  <2>5. CASE c.kind # "beat" /\ Answered(m, c, v)
    <3> DEFINE u == [run[m] EXCEPT !.reply = v]
    <3>1. u \in RunSet /\ u.phase = run[m].phase /\ u.token = run[m].token /\ u.reply = v
      BY <1>2, <2>1 DEF RunSet, Replies
    <3>2. /\ UNCHANGED beat
          /\ \/ run' = run
             \/ run' = [run EXCEPT ![m] = u] /\ run[m].phase = c.kind /\ run[m].token = c.token
      BY <2>5 DEF Answered
    <3> HIDE DEF u
    <3> QED BY <2>1, <2>2, <3>1, <3>2
  <2> QED BY <2>3, <2>4, <2>5 DEF Serve, v
<1>6. PICK b \in BeatSet :
        /\ run' = [run EXCEPT ![m] = u] /\ beat' = [beat EXCEPT ![m] = b]
        /\ u.phase = run[m].phase /\ u.token = run[m].token
        /\ u = run[m] \/ (u.phase = c.kind /\ u.token = c.token /\ u.reply = v)
        /\ b.phase = beat[m].phase /\ b.digest = beat[m].digest
  BY <1>5
<1>7. KeyFits(key[m], index[m], row[m], op[m], u, e, net[m])
  BY <1>1, <1>6 DEF KeyFits
<1>8. RunFits(u, op[m], key[m], e, net[m])
  <2>1. CASE u = run[m]
    BY <1>1, <2>1
  <2>2. CASE u.phase = c.kind /\ u.token = c.token /\ u.reply = v
    BY <1>1, <1>2, <1>6, <2>2 DEF RunFits
  <2> QED BY <1>6, <2>1, <2>2
<1>9. /\ row'[m] = row[m] /\ op'[m] = op[m] /\ key'[m] = key[m] /\ index'[m] = index[m]
      /\ run'[m] = u /\ beat'[m] = b /\ code'[m] = g /\ shown'[m] = shown[m] /\ dev'[m] = e
      /\ net'[m] = net[m] \ {c} /\ net'[m] \in SUBSET net[m]
  BY <1>0, <1>3, <1>6 DEF Types
<1>10. Fits(m)'
  <2>1. CodesFit(g, shown[m], e, net'[m])
    BY <1>1, <1>9, FewerCalls
  <2>2. KeyFits(key[m], index[m], row[m], op[m], u, e, net'[m])
    BY <1>7, <1>9, FewerCalls
  <2>3. OpFits(op[m], row[m], e, net'[m])
    BY <1>1, <1>9, FewerCalls
  <2>4. RunFits(u, op[m], key[m], e, net'[m])
    BY <1>8, <1>9, FewerCalls
  <2>5. beat[m].phase # "idle" => beat[m].digest # 0
    BY Now DEF Fits
  <2> QED
    BY <1>1, <1>6, <1>9, <2>1, <2>2, <2>3, <2>4, <2>5 DEF Fits
<1>11. Types'
  BY <1>0, <1>1, <1>3, <1>4, <1>5, <1>6 DEF Types
<1>12. \A k \in Machines \ {m} : Same(k)
  BY <1>0, <1>3, <1>6 DEF Types, Same
<1>13. m \in Admitted' => m \in Admitted
  BY <1>3 DEF Admitted
<1> QED
  BY <1>10, <1>11, <1>12, <1>13, OneMachine

-----------------------------------------------------------------------------
(* The tasks of the source. *)

LEMMA MoveTyped ==
  ASSUME FleetInv, NEW m \in Machines, NEW p \in Phases, Move(m, p)
  PROVE  /\ run' \in [Machines -> RunSet]
         /\ run'[m].phase = p /\ run'[m].token = run[m].token /\ run'[m].reply = "none"
         /\ \A k \in Machines \ {m} : run'[k] = run[k]
<1>1. run \in [Machines -> RunSet] /\ run[m] \in RunSet
  BY TypesAndRoom DEF FleetInv, Types
<1> DEFINE u == [run[m] EXCEPT !.phase = p, !.reply = "none"]
<1>2. u \in RunSet /\ u.phase = p /\ u.token = run[m].token /\ u.reply = "none"
  BY <1>1 DEF RunSet, Replies
<1>3. run' = [run EXCEPT ![m] = u]
  BY DEF Move
<1> HIDE DEF u
<1> QED
  BY <1>1, <1>2, <1>3

LEMMA EndTyped ==
  ASSUME FleetInv, NEW m \in Machines, End(m)
  PROVE  /\ run' \in [Machines -> RunSet] /\ run'[m] = Resting
         /\ Resting.phase = "idle" /\ Resting.token = 0 /\ Resting.reply = "none"
         /\ \A k \in Machines \ {m} : run'[k] = run[k]
<1>1. run \in [Machines -> RunSet]
  BY TypesAndRoom DEF FleetInv, Types
<1>2. Resting \in RunSet /\ Resting.phase = "idle" /\ Resting.token = 0 /\ Resting.reply = "none"
  BY DEF Resting, RunSet, Phases, Replies
<1>3. run' = [run EXCEPT ![m] = Resting]
  BY DEF End
<1> HIDE DEF Resting
<1> QED
  BY <1>1, <1>2, <1>3

LEMMA Sends ==
  ASSUME FleetInv, NEW m \in Machines, NEW x \in {"claim", "confirm", "greet", "revoke", "beat"},
         NEW t \in Tokens, Send(m, x, t)
  PROVE  /\ net' \in [Machines -> SUBSET Calls]
         /\ \A k \in Machines \ {m} : net'[k] = net[k]
         /\ \A y, u : Sent(net'[m], y, u) <=> Sent(net[m], y, u) \/ (y = x /\ u = t)
<1>1. net \in [Machines -> SUBSET Calls]
  BY TypesAndRoom DEF FleetInv, Types
<1>2. [kind |-> x, token |-> t] \in Calls
  BY DEF Calls
<1>3. net' = [net EXCEPT ![m] = net[m] \union {[kind |-> x, token |-> t]}]
  BY DEF Send, Call
<1>4. net'[m] = net[m] \union {[kind |-> x, token |-> t]}
  BY <1>1, <1>3
<1>5. ASSUME NEW y, NEW u
      PROVE  Sent(net'[m], y, u) <=> Sent(net[m], y, u) \/ (y = x /\ u = t)
  <2>1. [kind |-> y, token |-> u] = [kind |-> x, token |-> t] <=> y = x /\ u = t
    <3>1. [kind |-> y, token |-> u].kind = y /\ [kind |-> y, token |-> u].token = u
      OBVIOUS
    <3>2. [kind |-> x, token |-> t].kind = x /\ [kind |-> x, token |-> t].token = t
      OBVIOUS
    <3> QED BY <3>1, <3>2
  <2> QED BY <1>4, <2>1 DEF Sent
<1> QED
  BY <1>1, <1>2, <1>3, <1>5

\* A call that neither confirms nor revokes disturbs nothing.
LEMMA OtherCall ==
  ASSUME NEW c, NEW s, NEW d, NEW n, NEW n2, NEW k, NEW i, NEW r, NEW o, NEW u,
         \A t \in Tokens : \A x \in {"confirm", "revoke"} : Sent(n2, x, t) <=> Sent(n, x, t),
         u.phase = "save" \/ u.phase = "claim" => u.token \in Tokens
  PROVE  /\ CodesFit(c, s, d, n) => CodesFit(c, s, d, n2)
         /\ KeyFits(k, i, r, o, u, d, n) => KeyFits(k, i, r, o, u, d, n2)
         /\ OpFits(o, r, d, n) => OpFits(o, r, d, n2)
         /\ RunFits(u, o, k, d, n) => RunFits(u, o, k, d, n2)
<1>1. CodesFit(c, s, d, n) => CodesFit(c, s, d, n2)
  BY DEF CodesFit
<1>2. KeyFits(k, i, r, o, u, d, n) => KeyFits(k, i, r, o, u, d, n2)
  BY DEF KeyFits
<1>3. OpFits(o, r, d, n) => OpFits(o, r, d, n2)
  BY DEF OpFits
<1>4. RunFits(u, o, k, d, n) => RunFits(u, o, k, d, n2)
  BY DEF RunFits
<1> QED
  BY <1>1, <1>2, <1>3, <1>4

LEMMA EnrollKeeps ==
  ASSUME FleetInv, NEW m \in Machines, NEW named \in BOOLEAN, Enroll(m, named)
  PROVE  FleetInv'
<1>0. Types /\ Fits(m)
  BY TypesAndRoom, Now DEF FleetInv
<1>1. shown[m] \in Tokens /\ shown[m] # 0
  BY Names DEF Enroll
<1> DEFINE u == [phase |-> "claim", token |-> shown[m], reply |-> "none"]
<1>2. u \in RunSet /\ u.phase = "claim" /\ u.token = shown[m] /\ u.reply = "none"
  BY <1>1 DEF RunSet, Phases, Replies
<1>3. /\ run' = [run EXCEPT ![m] = u] /\ Send(m, "claim", shown[m])
      /\ UNCHANGED <<row, op, key, index, beat, code, shown, dev, faults, losses, crashes>>
  BY DEF Enroll, source, target, bounds
<1> HIDE DEF u
<1>4. /\ net' \in [Machines -> SUBSET Calls]
      /\ \A k \in Machines \ {m} : net'[k] = net[k]
      /\ \A y, t : Sent(net'[m], y, t) <=> Sent(net[m], y, t) \/ (y = "claim" /\ t = shown[m])
  BY <1>1, <1>3, Sends
<1>5. \A t \in Tokens : \A x \in {"confirm", "revoke"} : Sent(net'[m], x, t) <=> Sent(net[m], x, t)
  BY <1>4
<1>6. run'[m] = u
  BY <1>0, <1>3 DEF Types
<1>7. CodesFit(code[m], shown[m], dev[m], net'[m])
  BY <1>0, <1>5 DEF Fits, CodesFit
<1>8. KeyFits(key[m], index[m], row[m], op[m], u, dev[m], net'[m])
  BY <1>0, <1>2, <1>5 DEF Fits, KeyFits
<1>9. OpFits(op[m], row[m], dev[m], net'[m])
  BY <1>0, <1>5 DEF Fits, OpFits
<1>10. RunFits(u, op[m], key[m], dev[m], net'[m])
  BY <1>0, <1>1, <1>2, <1>5 DEF Fits, CodesFit, RunFits, Enrolling, Forgetting
<1>11. Fits(m)'
  BY <1>0, <1>3, <1>6, <1>7, <1>8, <1>9, <1>10 DEF Fits
<1>12. Types'
  BY <1>0, <1>2, <1>3, <1>4 DEF Types
<1>13. \A k \in Machines \ {m} : Same(k)
  BY <1>0, <1>3, <1>4 DEF Types, Same
<1>14. m \in Admitted' => m \in Admitted
  BY <1>3 DEF Admitted
<1> QED
  BY <1>11, <1>12, <1>13, <1>14, OneMachine

\* The task ends and leaves everything as it is.
LEMMA TaskEnds ==
  ASSUME FleetInv, NEW m \in Machines, End(m), beat' \in [Machines -> BeatSet],
         \A k \in Machines \ {m} : beat'[k] = beat[k],
         beat'[m].phase = beat[m].phase /\ beat'[m].digest = beat[m].digest,
         faults' \in 0..MaxFaults,
         UNCHANGED <<row, op, key, index, code, shown, dev, net, losses, crashes>>
  PROVE  FleetInv'
<1>0. Types /\ Fits(m)
  BY TypesAndRoom, Now DEF FleetInv
<1>1. /\ run' \in [Machines -> RunSet] /\ run'[m].phase = "idle"
      /\ \A k \in Machines \ {m} : run'[k] = run[k]
  BY EndTyped
<1>2. KeyFits(key[m], index[m], row[m], op[m], run'[m], dev[m], net[m])
  BY <1>0, <1>1 DEF Fits, KeyFits
<1>3. RunFits(run'[m], op[m], key[m], dev[m], net[m])
  BY <1>1 DEF RunFits, Enrolling, Forgetting
<1>4. Fits(m)'
  BY <1>0, <1>2, <1>3 DEF Fits
<1>5. Types'
  BY <1>0, <1>1 DEF Types
<1>6. \A k \in Machines \ {m} : Same(k)
  BY <1>1 DEF Same
<1>7. m \in Admitted' => m \in Admitted
  BY DEF Admitted
<1> QED
  BY <1>4, <1>5, <1>6, <1>7, OneMachine

LEMMA CancelTyped ==
  ASSUME FleetInv, NEW m \in Machines, Cancel(m)
  PROVE  /\ beat' \in [Machines -> BeatSet]
         /\ \A k \in Machines \ {m} : beat'[k] = beat[k]
         /\ beat'[m].phase = beat[m].phase /\ beat'[m].digest = beat[m].digest
<1>1. beat \in [Machines -> BeatSet] /\ beat[m] \in BeatSet
  BY TypesAndRoom DEF FleetInv, Types
<1> DEFINE b == [beat[m] EXCEPT !.live = FALSE]
<1>2. b \in BeatSet /\ b.phase = beat[m].phase /\ b.digest = beat[m].digest
  BY <1>1 DEF BeatSet
<1>3. beat' = [beat EXCEPT ![m] = b]
  BY DEF Cancel
<1> HIDE DEF b
<1> QED
  BY <1>1, <1>2, <1>3

\* The operation is journalled: the credential is claimed, not confirmed, and room is left.
LEMMA ClaimAnsweredKeeps ==
  ASSUME FleetInv, NEW m \in Machines, ClaimAnswered(m)
  PROVE  FleetInv'
<1>0. Types /\ Fits(m) /\ faults \in 0..MaxFaults
  BY TypesAndRoom, Now DEF FleetInv, Types
<1>1. UNCHANGED <<row, key, index, code, shown, dev, net, faults, losses, crashes>>
  BY DEF ClaimAnswered, target, bounds
<1>2. CASE End(m) /\ UNCHANGED <<op, beat>>
  BY <1>0, <1>1, <1>2, TaskEnds DEF Types
<1>3. CASE End(m) /\ UNCHANGED op /\ Cancel(m)
  BY <1>0, <1>1, <1>3, TaskEnds, CancelTyped
<1>4. CASE /\ run[m].phase = "claim" /\ run[m].reply = "ok" /\ Cancel(m) /\ op[m] = NoOp /\ Space(m)
           /\ op' = [op EXCEPT ![m] = [kind |-> "enroll", digest |-> run[m].token, revoked |-> FALSE]]
           /\ Move(m, "save")
  <2> DEFINE t == run[m].token
             o == [kind |-> "enroll", digest |-> t, revoked |-> FALSE]
  <2>1. t \in Tokens /\ t # 0 /\ dev[m][t] \in {"pending", "gone"} /\ ~Sent(net[m], "confirm", t)
        /\ \A u \in Tokens : Sent(net[m], "confirm", u) => u <= t
    BY <1>0, <1>4, Names DEF Fits, RunFits
  <2>2. o \in OpSet /\ o.kind = "enroll" /\ o.digest = t
    BY <2>1 DEF OpSet
  <2>3. op' = [op EXCEPT ![m] = o]
    BY <1>4
  <2> HIDE DEF o
  <2>4. op'[m] = o /\ op' \in [Machines -> OpSet] /\ \A k \in Machines \ {m} : op'[k] = op[k]
    BY <1>0, <2>2, <2>3 DEF Types
  <2>5. /\ run' \in [Machines -> RunSet] /\ run'[m].phase = "save" /\ run'[m].token = t
        /\ \A k \in Machines \ {m} : run'[k] = run[k]
    BY <1>4, MoveTyped DEF Phases
  <2>6. /\ beat' \in [Machines -> BeatSet] /\ \A k \in Machines \ {m} : beat'[k] = beat[k]
        /\ beat'[m].phase = beat[m].phase /\ beat'[m].digest = beat[m].digest
    BY <1>4, CancelTyped
  <2>7. KeyFits(key[m], index[m], row[m], o, run'[m], dev[m], net[m])
    BY <1>0, <1>4, <2>2, <2>5 DEF Fits, KeyFits, NoOp
  \* A pending claim with a call to confirm it would be this one.
  <2>8. \A u \in Tokens : Sent(net[m], "confirm", u) => dev[m][u] # "pending"
    BY <1>0, <2>1, Names DEF Fits, CodesFit
  <2>9. row[m].digest # t
    BY <1>0, <2>1 DEF Fits, RowFits, Had
  <2>10. OpFits(o, row[m], dev[m], net[m])
    BY <2>1, <2>2, <2>8, <2>9 DEF OpFits
  <2>11. RowFits(row[m], o, dev[m])
    BY <1>0, <2>2 DEF Fits, RowFits, NoOp
  <2>12. RunFits(run'[m], o, key[m], dev[m], net[m])
    BY <2>1, <2>2, <2>5 DEF RunFits, Forgetting
  <2>13. Fits(m)'
    BY <1>0, <1>1, <2>4, <2>6, <2>7, <2>10, <2>11, <2>12 DEF Fits
  <2>14. Types'
    BY <1>0, <1>1, <2>4, <2>5, <2>6 DEF Types
  <2>15. \A k \in Machines \ {m} : Same(k)
    BY <1>1, <2>4, <2>5, <2>6 DEF Same
  <2>16. CASE m \in Admitted
    BY <2>13, <2>14, <2>15, <2>16, OneMachine
  <2>17. CASE m \notin Admitted
    <3>1. Admitted' = Admitted \union {m}
      BY <2>2, <2>4, <2>15 DEF Admitted, Same
    <3>2. IsFiniteSet(Admitted) /\ Cardinality(Admitted) < MaxMachines
      BY <1>4, <2>17 DEF Space, FleetInv
    <3>3. IsFiniteSet(Admitted') /\ Cardinality(Admitted') = Cardinality(Admitted) + 1
      BY <2>17, <3>1, <3>2, FS_AddElement
    <3>4. Cardinality(Admitted') <= MaxMachines
      BY <3>2, <3>3, FS_CardinalityType, FleetAssumption
    <3>5. ASSUME NEW k \in Machines \ {m} PROVE Fits(k)'
      BY <2>15, <3>5 DEF FleetInv, Same, Fits
    <3>6. TypeOK'
      BY <2>14, <3>4 DEF TypeOK, Types, RowSet, OpSet, RunSet, BeatSet, DevSet
    <3> QED
      BY <2>13, <3>3, <3>5, <3>6 DEF FleetInv
  <2> QED BY <2>16, <2>17
<1> QED
  BY <1>2, <1>3, <1>4 DEF ClaimAnswered

LEMMA SaveKeeps ==
  ASSUME FleetInv, NEW m \in Machines, Save(m)
  PROVE  FleetInv'
<1>0. Types /\ Fits(m) /\ MaxFaults \in Nat
  BY TypesAndRoom, Now, FleetAssumption DEF FleetInv
<1>1. /\ UNCHANGED <<row, op, beat, code, shown, dev, net, losses, crashes>>
      /\ faults' \in 0..MaxFaults
  BY <1>0 DEF Save, target, Types
<1> DEFINE t == run[m].token
<1>2. /\ t \in Tokens /\ op[m].kind = "enroll" /\ op[m].digest = t
      /\ dev[m][t] \in {"pending", "gone"} /\ ~Sent(net[m], "confirm", t)
      /\ \A u \in Tokens : Sent(net[m], "confirm", u) => u <= t
  BY <1>0, Names DEF Save, Fits, RunFits, OpFits, Enrolling
<1>3. /\ run' \in [Machines -> RunSet] /\ run'[m].phase = "repair"
      /\ \A k \in Machines \ {m} : run'[k] = run[k]
  BY MoveTyped DEF Save, Phases
<1>4. PICK x \in Tokens \union {0} : key' = [key EXCEPT ![m] = x] /\ x \in {key[m], t}
  BY <1>0, <1>2 DEF Save, Types
<1>5. PICK i \in BOOLEAN : index' = [index EXCEPT ![m] = i] /\ (i = index[m] \/ i = TRUE)
  BY <1>0 DEF Save, Types
<1>6. key'[m] = x /\ index'[m] = i
  BY <1>0, <1>4, <1>5 DEF Types
<1>7. KeyFits(x, i, row[m], op[m], run'[m], dev[m], net[m])
  <2>1. CASE x = key[m]
    BY <1>0, <1>3, <1>5, <2>1 DEF Fits, KeyFits
  <2>2. CASE x = t
    <3>1. \A u \in Tokens : Sent(net[m], "revoke", u) => u # t /\ row[m].digest # u
      BY <1>0, <1>2 DEF Fits, CodesFit, KeyFits, Had
    <3> QED
      BY <1>2, <1>3, <2>2, <3>1, Names DEF KeyFits
  <2> QED BY <1>4, <2>1, <2>2
<1>8. RunFits(run'[m], op[m], x, dev[m], net[m])
  BY <1>2, <1>3 DEF RunFits, Forgetting
<1>9. Fits(m)'
  BY <1>0, <1>1, <1>6, <1>7, <1>8 DEF Fits
<1>10. Types'
  BY <1>0, <1>1, <1>3, <1>4, <1>5 DEF Types
<1>11. \A k \in Machines \ {m} : Same(k)
  BY <1>0, <1>1, <1>3, <1>4, <1>5 DEF Types, Same
<1>12. m \in Admitted' => m \in Admitted
  BY <1>1 DEF Admitted
<1> QED
  BY <1>9, <1>10, <1>11, <1>12, OneMachine

\* An enrollment is given up: its row, if it has one, is no longer shown as healthy.
LEMMA AbortedKeeps ==
  ASSUME FleetInv, NEW m \in Machines, Aborted(m), End(m), op[m].kind = "enroll",
         key[m] # op[m].digest, faults' = faults,
         UNCHANGED <<key, index, beat, code, shown, dev, net, losses, crashes>>
  PROVE  FleetInv'
<1>0. Types /\ Fits(m)
  BY TypesAndRoom, Now DEF FleetInv
<1>1. /\ run' \in [Machines -> RunSet] /\ run'[m].phase = "idle"
      /\ \A k \in Machines \ {m} : run'[k] = run[k]
  BY EndTyped
<1>2. NoOp \in OpSet /\ NoOp.kind = "none"
  BY DEF NoOp, OpSet
<1>3. op' \in [Machines -> OpSet] /\ op'[m] = NoOp /\ \A k \in Machines \ {m} : op'[k] = op[k]
  BY <1>0, <1>2 DEF Aborted, Types
<1>4. /\ row' \in [Machines -> RowSet] /\ \A k \in Machines \ {m} : row'[k] = row[k]
      /\ row'[m].digest = row[m].digest
      /\ row'[m].digest # 0 => row'[m].health # "ok"
  <2> DEFINE r == [row[m] EXCEPT !.health = "pairing-required"]
  <2>1. row[m] \in RowSet
    BY <1>0 DEF Types
  <2>2. r \in RowSet /\ r.digest = row[m].digest /\ r.health = "pairing-required"
    BY <2>1 DEF RowSet, Healths
  <2>3. CASE row[m].digest = 0
    BY <1>0, <2>3 DEF Aborted, Types
  <2>4. CASE row[m].digest # 0
    <3>1. row' = [row EXCEPT ![m] = r]
      BY <2>4 DEF Aborted
    <3> HIDE DEF r
    <3> QED BY <1>0, <2>2, <3>1 DEF Types
  <2> QED BY <2>3, <2>4
<1>5. KeyFits(key[m], index[m], row'[m], op'[m], run'[m], dev[m], net[m])
  BY <1>0, <1>1, <1>2, <1>3, <1>4 DEF Fits, KeyFits
<1>6. OpFits(op'[m], row'[m], dev[m], net[m])
  BY <1>2, <1>3, <1>4 DEF OpFits
<1>7. RowFits(row'[m], op'[m], dev[m])
  BY <1>0, <1>4 DEF Fits, RowFits
<1>8. RunFits(run'[m], op'[m], key[m], dev[m], net[m])
  BY <1>1 DEF RunFits, Enrolling, Forgetting
<1>9. Fits(m)'
  BY <1>0, <1>5, <1>6, <1>7, <1>8 DEF Fits
<1>10. Types'
  BY <1>0, <1>1, <1>3, <1>4 DEF Types
<1>11. \A k \in Machines \ {m} : Same(k)
  BY <1>1, <1>3, <1>4 DEF Same
<1>12. m \in Admitted' => m \in Admitted
  BY DEF Admitted
<1> QED
  BY <1>9, <1>10, <1>11, <1>12, OneMachine

LEMMA RepairKeeps ==
  ASSUME FleetInv, NEW m \in Machines, Repair(m)
  PROVE  FleetInv'
<1>0. Types /\ Fits(m)
  BY TypesAndRoom, Now DEF FleetInv
<1>1. UNCHANGED <<key, beat, code, shown, dev, net, faults, losses, crashes>>
  BY DEF Repair, target, bounds
<1>2. op[m].kind = "enroll"
  BY <1>0 DEF Repair, Fits, RunFits, Enrolling
<1>3. CASE key[m] # op[m].digest
  BY <1>1, <1>2, <1>3, AbortedKeeps DEF Repair
<1>4. CASE key[m] = op[m].digest
  <2>1. index' = [index EXCEPT ![m] = TRUE] /\ Move(m, "ask") /\ UNCHANGED <<row, op>>
    BY <1>4 DEF Repair, RepairedIndex
  <2>2. /\ run' \in [Machines -> RunSet] /\ run'[m].phase = "ask"
        /\ \A k \in Machines \ {m} : run'[k] = run[k]
    BY <2>1, MoveTyped DEF Phases
  <2>3. index'[m] = TRUE
    BY <1>0, <2>1 DEF Types
  <2>4. KeyFits(key[m], TRUE, row[m], op[m], run'[m], dev[m], net[m])
    BY <1>0 DEF Fits, KeyFits
  <2>5. RunFits(run'[m], op[m], key[m], dev[m], net[m])
    BY <1>2, <2>2 DEF RunFits, Forgetting
  <2>6. Fits(m)'
    BY <1>0, <1>1, <2>1, <2>3, <2>4, <2>5 DEF Fits
  <2>7. Types'
    BY <1>0, <1>1, <2>1, <2>2 DEF Types
  <2>8. \A k \in Machines \ {m} : Same(k)
    BY <1>0, <1>1, <2>1, <2>2 DEF Types, Same
  <2>9. m \in Admitted' => m \in Admitted
    BY <2>1 DEF Admitted
  <2> QED
    BY <2>6, <2>7, <2>8, <2>9, OneMachine
<1> QED
  BY <1>3, <1>4

LEMMA AbortKeeps ==
  ASSUME FleetInv, NEW m \in Machines, Abort(m)
  PROVE  FleetInv'
<1>1. UNCHANGED <<key, index, beat, code, shown, dev, net, faults, losses, crashes>>
  BY DEF Abort, target, bounds
<1>2. op[m].kind = "enroll" /\ key[m] = 0 /\ op[m].digest # 0
  BY Now DEF Abort, Fits, RunFits, OpFits, Enrolling
<1> QED
  BY <1>1, <1>2, AbortedKeeps DEF Abort

\* A step of the task that changes nothing but the task itself and the calls on their way.
LEMMA TaskMoves ==
  ASSUME FleetInv, NEW m \in Machines,
         run' \in [Machines -> RunSet], \A k \in Machines \ {m} : run'[k] = run[k],
         net' \in [Machines -> SUBSET Calls], \A k \in Machines \ {m} : net'[k] = net[k],
         faults' \in 0..MaxFaults,
         UNCHANGED <<row, op, key, index, beat, code, shown, dev, losses, crashes>>,
         CodesFit(code[m], shown[m], dev[m], net'[m]),
         KeyFits(key[m], index[m], row[m], op[m], run'[m], dev[m], net'[m]),
         OpFits(op[m], row[m], dev[m], net'[m]),
         RunFits(run'[m], op[m], key[m], dev[m], net'[m])
  PROVE  FleetInv'
<1>0. Types /\ Fits(m)
  BY TypesAndRoom, Now DEF FleetInv
<1>1. Fits(m)'
  BY <1>0 DEF Fits
<1>2. Types'
  BY <1>0 DEF Types
<1>3. \A k \in Machines \ {m} : Same(k)
  BY DEF Same
<1>4. m \in Admitted' => m \in Admitted
  BY DEF Admitted
<1> QED
  BY <1>1, <1>2, <1>3, <1>4, OneMachine

\* The call to confirm names the key that the keychain holds.
LEMMA AskKeeps ==
  ASSUME FleetInv, NEW m \in Machines, Ask(m)
  PROVE  FleetInv'
<1>0. Types /\ Fits(m)
  BY TypesAndRoom, Now DEF FleetInv
<1>1. /\ UNCHANGED <<row, op, key, index, beat, code, shown, dev, faults, losses, crashes>>
      /\ faults' \in 0..MaxFaults /\ beat' \in [Machines -> BeatSet]
  BY <1>0 DEF Ask, source, target, bounds, Types
<1> DEFINE t == op[m].digest
<1>2. op[m].kind = "enroll" /\ t \in Tokens /\ dev[m][t] # "none" /\ run[m].phase = "ask"
  BY <1>0, Names DEF Ask, Fits, RunFits, OpFits, Enrolling
<1>3. CASE key[m] # t
  BY <1>1, <1>3, TaskEnds DEF Ask
<1>4. CASE key[m] = t
  <2> DEFINE u == [phase |-> "confirm", token |-> t, reply |-> "none"]
  <2>1. u \in RunSet /\ u.phase = "confirm" /\ u.token = t /\ u.reply = "none"
    BY <1>2 DEF RunSet, Phases, Replies
  <2>2. run' = [run EXCEPT ![m] = u] /\ Send(m, "confirm", t)
    BY <1>4 DEF Ask
  <2> HIDE DEF u
  <2>3. /\ run' \in [Machines -> RunSet] /\ run'[m] = u
        /\ \A k \in Machines \ {m} : run'[k] = run[k]
    BY <1>0, <2>1, <2>2 DEF Types
  <2>4. /\ net' \in [Machines -> SUBSET Calls] /\ \A k \in Machines \ {m} : net'[k] = net[k]
        /\ \A y, v : Sent(net'[m], y, v) <=> Sent(net[m], y, v) \/ (y = "confirm" /\ v = t)
    BY <1>2, <2>2, Sends
  <2> HIDE DEF t
  <2>5. CodesFit(code[m], shown[m], dev[m], net'[m])
    BY <1>0, <1>2, <2>4 DEF Fits, CodesFit
  <2>6. KeyFits(key[m], index[m], row[m], op[m], u, dev[m], net'[m])
    <3>1. index[m]
      BY <1>0, <1>2, <1>4, Names DEF Fits, KeyFits
    <3>2. \A v \in Tokens : Sent(net'[m], "confirm", v) => key[m] = 0 \/ key[m] >= v
      BY <1>0, <1>2, <1>4, <2>4, Names DEF Fits, KeyFits
    <3>3. \A v \in Tokens : Sent(net'[m], "revoke", v) => Sent(net[m], "revoke", v)
      BY <2>4
    <3> QED BY <1>0, <3>1, <3>2, <3>3 DEF Fits, KeyFits
  <2>7. OpFits(op[m], row[m], dev[m], net'[m])
    BY <1>0, <1>2, <2>4 DEF Fits, OpFits, t
  <2>8. RunFits(u, op[m], key[m], dev[m], net'[m])
    BY <1>2, <2>1 DEF RunFits, Forgetting, t
  <2> QED
    BY <1>1, <2>3, <2>4, <2>5, <2>6, <2>7, <2>8, TaskMoves
<1> QED
  BY <1>3, <1>4

LEMMA ConfirmAnsweredKeeps ==
  ASSUME FleetInv, NEW m \in Machines, ConfirmAnswered(m)
  PROVE  FleetInv'
<1>0. Types /\ Fits(m)
  BY TypesAndRoom, Now DEF FleetInv
<1>1. /\ UNCHANGED <<row, op, key, index, beat, code, shown, dev, faults, losses, crashes>>
      /\ faults' \in 0..MaxFaults
  BY <1>0 DEF ConfirmAnswered, source, target, bounds, Types
<1> DEFINE t == run[m].token
<1>2. /\ run[m].phase = "confirm" /\ op[m].kind = "enroll" /\ t \in Tokens /\ t = op[m].digest
      /\ run[m].reply = "ok" => Had(dev[m], t)
  BY <1>0, Names DEF ConfirmAnswered, Fits, RunFits, OpFits, Enrolling
<1>3. PICK p \in {"greet", "drop"} : Move(m, p) /\ (p = "greet" => run[m].reply = "ok")
                                     /\ (p = "greet" => Send(m, "greet", t))
                                     /\ (p = "drop" => UNCHANGED net)
  BY DEF ConfirmAnswered
<1>4. /\ run' \in [Machines -> RunSet] /\ run'[m].phase = p /\ run'[m].token = t
      /\ run'[m].reply = "none" /\ \A k \in Machines \ {m} : run'[k] = run[k]
  BY <1>3, MoveTyped DEF Phases
<1>5. /\ net' \in [Machines -> SUBSET Calls] /\ \A k \in Machines \ {m} : net'[k] = net[k]
      /\ \A v \in Tokens : \A x \in {"confirm", "revoke"} :
            Sent(net'[m], x, v) <=> Sent(net[m], x, v)
  <2>1. CASE p = "greet"
    <3>1. /\ net' \in [Machines -> SUBSET Calls] /\ \A k \in Machines \ {m} : net'[k] = net[k]
          /\ \A y, v : Sent(net'[m], y, v) <=> Sent(net[m], y, v) \/ (y = "greet" /\ v = t)
      BY <1>2, <1>3, <2>1, Sends
    <3> QED BY <3>1
  <2>2. CASE p = "drop"
    BY <1>0, <1>3, <2>2 DEF Types
  <2> QED BY <2>1, <2>2
<1>6. KeyFits(key[m], index[m], row[m], op[m], run'[m], dev[m], net[m])
  BY <1>0, <1>2, <1>4 DEF Fits, KeyFits
<1>7. RunFits(run'[m], op[m], key[m], dev[m], net[m])
  BY <1>2, <1>3, <1>4 DEF RunFits, Forgetting
<1>8. /\ CodesFit(code[m], shown[m], dev[m], net[m]) /\ OpFits(op[m], row[m], dev[m], net[m])
      /\ run'[m].phase # "save" /\ run'[m].phase # "claim"
  BY <1>0, <1>4 DEF Fits
<1>9. /\ CodesFit(code[m], shown[m], dev[m], net'[m])
      /\ OpFits(op[m], row[m], dev[m], net'[m])
      /\ KeyFits(key[m], index[m], row[m], op[m], run'[m], dev[m], net'[m])
      /\ RunFits(run'[m], op[m], key[m], dev[m], net'[m])
  BY <1>5, <1>6, <1>7, <1>8, OtherCall
<1> QED
  BY <1>1, <1>4, <1>5, <1>9, TaskMoves

LEMMA GreetAnsweredKeeps ==
  ASSUME FleetInv, NEW m \in Machines, GreetAnswered(m)
  PROVE  FleetInv'
<1>0. Types /\ Fits(m)
  BY TypesAndRoom, Now DEF FleetInv
<1>1. /\ UNCHANGED <<row, op, key, index, beat, code, shown, dev, net, faults, losses, crashes>>
      /\ faults' \in 0..MaxFaults /\ net' \in [Machines -> SUBSET Calls]
  BY <1>0 DEF GreetAnswered, source, target, bounds, Types
<1>2. /\ run[m].phase = "greet" /\ op[m].kind = "enroll" /\ run[m].token = op[m].digest
      /\ Had(dev[m], run[m].token)
  BY <1>0 DEF GreetAnswered, Fits, RunFits, Enrolling
<1>3. PICK p \in {"reread", "drop"} : Move(m, p)
  BY DEF GreetAnswered
<1>4. /\ run' \in [Machines -> RunSet] /\ run'[m].phase = p /\ run'[m].token = run[m].token
      /\ \A k \in Machines \ {m} : run'[k] = run[k]
  BY <1>3, MoveTyped DEF Phases
<1>5. KeyFits(key[m], index[m], row[m], op[m], run'[m], dev[m], net[m])
  BY <1>0, <1>2, <1>4 DEF Fits, KeyFits
<1>6. RunFits(run'[m], op[m], key[m], dev[m], net[m])
  BY <1>2, <1>4 DEF RunFits, Forgetting
<1> QED
  BY <1>0, <1>1, <1>4, <1>5, <1>6, TaskMoves DEF Fits

\* The row is published for a key that the target made active and the keychain still holds;
\* otherwise the target is asked to revoke it.
LEMMA PublishKeeps ==
  ASSUME FleetInv, NEW m \in Machines, Publish(m)
  PROVE  FleetInv'
<1>0. Types /\ Fits(m)
  BY TypesAndRoom, Now DEF FleetInv
<1>1. /\ UNCHANGED <<key, index, beat, code, shown, dev, faults, losses, crashes>>
      /\ faults' \in 0..MaxFaults
  BY <1>0 DEF Publish, target, bounds, Types
<1> DEFINE t == run[m].token
<1>2. /\ run[m].phase = "reread" /\ op[m].kind = "enroll" /\ t \in Tokens /\ t = op[m].digest
      /\ Had(dev[m], t) /\ row[m].digest # t
  BY <1>0, Names DEF Publish, Fits, RunFits, OpFits, Enrolling
<1>3. /\ run' \in [Machines -> RunSet] /\ run'[m].phase = "idle"
      /\ \A k \in Machines \ {m} : run'[k] = run[k]
  BY EndTyped DEF Publish
<1>4. CASE key[m] # t
  <2>1. Send(m, "revoke", t) /\ UNCHANGED <<row, op>>
    BY <1>4 DEF Publish
  <2>2. /\ net' \in [Machines -> SUBSET Calls] /\ \A k \in Machines \ {m} : net'[k] = net[k]
        /\ \A y, v : Sent(net'[m], y, v) <=> Sent(net[m], y, v) \/ (y = "revoke" /\ v = t)
    BY <1>2, <2>1, Sends
  <2>3. CodesFit(code[m], shown[m], dev[m], net'[m])
    BY <1>0, <1>2, <2>2 DEF Fits, CodesFit
  <2>4. KeyFits(key[m], index[m], row[m], op[m], run'[m], dev[m], net'[m])
    BY <1>0, <1>2, <1>3, <1>4, <2>2 DEF Fits, KeyFits
  <2>5. OpFits(op[m], row[m], dev[m], net'[m])
    BY <1>0, <2>2 DEF Fits, OpFits
  <2>6. RunFits(run'[m], op[m], key[m], dev[m], net'[m])
    BY <1>3 DEF RunFits, Enrolling, Forgetting
  <2> QED
    BY <1>1, <1>3, <2>1, <2>2, <2>3, <2>4, <2>5, <2>6, TaskMoves
<1>5. CASE key[m] = t
  <2> DEFINE r == [digest |-> op[m].digest, health |-> "ok"]
  <2>1. r \in RowSet /\ r.digest = t /\ NoOp \in OpSet /\ NoOp.kind = "none"
    BY <1>2 DEF RowSet, Healths, NoOp, OpSet
  <2>2. row' = [row EXCEPT ![m] = r] /\ op' = [op EXCEPT ![m] = NoOp] /\ UNCHANGED net
    BY <1>5 DEF Publish
  <2> HIDE DEF r
  <2>3. /\ row' \in [Machines -> RowSet] /\ row'[m] = r /\ \A k \in Machines \ {m} : row'[k] = row[k]
        /\ op' \in [Machines -> OpSet] /\ op'[m] = NoOp /\ \A k \in Machines \ {m} : op'[k] = op[k]
    BY <1>0, <2>1, <2>2 DEF Types
  <2>4. KeyFits(key[m], index[m], r, NoOp, run'[m], dev[m], net[m])
    BY <1>0, <1>2, <1>3, <1>5, <2>1 DEF Fits, KeyFits
  <2>5. OpFits(NoOp, r, dev[m], net[m])
    BY <1>0, <1>2, <2>1 DEF Fits, OpFits, Had
  <2>6. RowFits(r, NoOp, dev[m])
    BY <1>0, <1>2, <1>5, <2>1, Names DEF Fits, KeyFits, RowFits
  <2>7. RunFits(run'[m], NoOp, key[m], dev[m], net[m])
    BY <1>3 DEF RunFits, Enrolling, Forgetting
  <2>8. Fits(m)'
    BY <1>0, <1>1, <2>2, <2>3, <2>4, <2>5, <2>6, <2>7 DEF Fits
  <2>9. Types'
    BY <1>0, <1>1, <1>3, <2>2, <2>3 DEF Types
  <2>10. \A k \in Machines \ {m} : Same(k)
    BY <1>1, <1>3, <2>2, <2>3 DEF Same
  <2>11. m \in Admitted
    BY <1>2 DEF Admitted
  <2> QED
    BY <2>8, <2>9, <2>10, <2>11, OneMachine
<1> QED
  BY <1>4, <1>5

\* The keychain lets go of a key: no claim of the invariant needs it to hold one.
LEMMA KeyGone ==
  ASSUME FleetInv, NEW m \in Machines,
         key' \in [Machines -> Tokens \union {0}], key'[m] = 0,
         \A k \in Machines \ {m} : key'[k] = key[k],
         index' \in [Machines -> BOOLEAN], \A k \in Machines \ {m} : index'[k] = index[k],
         run' \in [Machines -> RunSet], \A k \in Machines \ {m} : run'[k] = run[k],
         RunFits(run'[m], op[m], 0, dev[m], net[m]),
         faults' \in 0..MaxFaults, losses' \in 0..MaxLosses,
         UNCHANGED <<row, op, beat, code, shown, dev, net, crashes>>
  PROVE  FleetInv'
<1>0. Types /\ Fits(m)
  BY TypesAndRoom, Now DEF FleetInv
<1>1. KeyFits(0, index'[m], row[m], op[m], run'[m], dev[m], net[m])
  BY <1>0, Names DEF Fits, KeyFits
<1>2. Fits(m)'
  BY <1>0, <1>1 DEF Fits
<1>3. Types'
  BY <1>0 DEF Types
<1>4. \A k \in Machines \ {m} : Same(k)
  BY DEF Same
<1>5. m \in Admitted' => m \in Admitted
  BY DEF Admitted
<1> QED
  BY <1>2, <1>3, <1>4, <1>5, OneMachine

LEMMA ForgottenKeeps ==
  ASSUME FleetInv, NEW m \in Machines, NEW p \in {"abort", "complete"}, Forgotten(m, p),
         p = "abort" => op[m].kind = "enroll", p = "complete" => op[m].kind = "forget",
         UNCHANGED <<row, op, beat, code, shown, dev, net, losses, crashes>>
  PROVE  FleetInv'
<1>0. Types /\ Fits(m) /\ MaxFaults \in Nat
  BY TypesAndRoom, Now, FleetAssumption DEF FleetInv
<1>a. /\ key' = [key EXCEPT ![m] = 0]
      /\ UNCHANGED index \/ index' = [index EXCEPT ![m] = FALSE]
      /\ UNCHANGED faults \/ (faults < MaxFaults /\ faults' = faults + 1)
      /\ Move(m, p) \/ End(m)
  BY Zenon DEF Forgotten
<1>1. /\ key' \in [Machines -> Tokens \union {0}] /\ key'[m] = 0
      /\ \A k \in Machines \ {m} : key'[k] = key[k]
  BY <1>0, <1>a DEF Types
<1>b. index' \in [Machines -> BOOLEAN] /\ \A k \in Machines \ {m} : index'[k] = index[k]
  BY <1>0, <1>a DEF Types
<1>c. faults' \in 0..MaxFaults /\ losses' \in 0..MaxLosses
  BY <1>0, <1>a DEF Types
<1>2. /\ run' \in [Machines -> RunSet] /\ \A k \in Machines \ {m} : run'[k] = run[k]
      /\ run'[m].phase = p \/ run'[m].phase = "idle"
  <2>1. CASE Move(m, p)
    BY <2>1, MoveTyped DEF Phases
  <2>2. CASE End(m)
    BY <2>2, EndTyped
  <2> QED BY <1>a, <2>1, <2>2
<1>3. RunFits(run'[m], op[m], 0, dev[m], net[m])
  BY <1>2 DEF RunFits, Enrolling, Forgetting
<1> QED
  BY <1>1, <1>2, <1>3, <1>b, <1>c, KeyGone

LEMMA DropKeeps ==
  ASSUME FleetInv, NEW m \in Machines, Drop(m)
  PROVE  FleetInv'
<1>0. Types /\ Fits(m)
  BY TypesAndRoom, Now DEF FleetInv
<1>1. UNCHANGED <<row, op, beat, code, shown, dev, net, losses, crashes>>
  BY DEF Drop, target
<1>2. op[m].kind = "enroll"
  BY <1>0 DEF Drop, Fits, RunFits, Enrolling
<1>3. CASE Forgotten(m, "abort")
  BY <1>1, <1>2, <1>3, ForgottenKeeps
<1>4. CASE End(m) /\ UNCHANGED <<key, index, faults>>
  BY <1>0, <1>1, <1>4, TaskEnds DEF Types
<1> QED
  BY <1>3, <1>4 DEF Drop

LEMMA ForgetKeyKeeps ==
  ASSUME FleetInv, NEW m \in Machines, ForgetKey(m)
  PROVE  FleetInv'
<1>0. Types /\ Fits(m)
  BY TypesAndRoom, Now DEF FleetInv
<1>1. UNCHANGED <<row, op, beat, code, shown, dev, net, losses, crashes>>
  BY DEF ForgetKey, target
<1>2. op[m].kind = "forget"
  BY <1>0 DEF ForgetKey, Fits, RunFits, Forgetting
<1>3. CASE Forgotten(m, "complete")
  BY <1>1, <1>2, <1>3, ForgottenKeeps
<1>4. CASE End(m) /\ UNCHANGED <<key, index, faults>>
  BY <1>0, <1>1, <1>4, TaskEnds DEF Types
<1> QED
  BY <1>3, <1>4 DEF ForgetKey

LEMMA LoseKeyKeeps ==
  ASSUME FleetInv, NEW m \in Machines, LoseKey(m)
  PROVE  FleetInv'
<1>0. Types /\ Fits(m) /\ MaxLosses \in Nat
  BY TypesAndRoom, Now, FleetAssumption DEF FleetInv
<1>1. /\ key' \in [Machines -> Tokens \union {0}] /\ key'[m] = 0
      /\ \A k \in Machines \ {m} : key'[k] = key[k]
      /\ losses' \in 0..MaxLosses
      /\ UNCHANGED <<row, op, index, run, beat, code, shown, dev, net, faults, crashes>>
  BY <1>0 DEF LoseKey, Types, target
<1>2. RunFits(run'[m], op[m], 0, dev[m], net[m])
  BY <1>0, <1>1 DEF Fits, RunFits
<1>3. /\ index' \in [Machines -> BOOLEAN] /\ run' \in [Machines -> RunSet]
      /\ faults' \in 0..MaxFaults
  BY <1>0, <1>1 DEF Types
<1> QED
  BY <1>1, <1>2, <1>3, KeyGone

-----------------------------------------------------------------------------
(* Forgetting a machine. *)

LEMMA ForgetKeeps ==
  ASSUME FleetInv, NEW m \in Machines, Forget(m)
  PROVE  FleetInv'
<1>0. Types /\ Fits(m)
  BY TypesAndRoom, Now DEF FleetInv
<1>1. UNCHANGED <<row, key, index, code, shown, dev, net, faults, losses, crashes>>
  BY DEF Forget, target, bounds
<1> DEFINE o == [kind |-> "forget", digest |-> key[m], revoked |-> FALSE]
<1>2. o \in OpSet /\ o.kind = "forget" /\ o.digest = key[m] /\ o.revoked = FALSE
  BY Names DEF OpSet
<1>3. op' = [op EXCEPT ![m] = o] /\ Cancel(m) /\ Move(m, "read") /\ op[m] = NoOp
  BY DEF Forget
<1> HIDE DEF o
<1>4. op'[m] = o /\ op' \in [Machines -> OpSet] /\ \A k \in Machines \ {m} : op'[k] = op[k]
  BY <1>0, <1>2, <1>3 DEF Types
<1>5. /\ run' \in [Machines -> RunSet] /\ run'[m].phase = "read"
      /\ \A k \in Machines \ {m} : run'[k] = run[k]
  BY <1>3, MoveTyped DEF Phases
<1>6. /\ beat' \in [Machines -> BeatSet] /\ \A k \in Machines \ {m} : beat'[k] = beat[k]
      /\ beat'[m].phase = beat[m].phase /\ beat'[m].digest = beat[m].digest
  BY <1>3, CancelTyped
<1>7. NoOp.kind = "none"
  BY DEF NoOp
<1>8. KeyFits(key[m], index[m], row[m], o, run'[m], dev[m], net[m])
  BY <1>0, <1>2, <1>3, <1>7 DEF Fits, KeyFits
<1>9. OpFits(o, row[m], dev[m], net[m])
  BY <1>0, <1>2, <1>3, <1>7 DEF Fits, OpFits
<1>10. RowFits(row[m], o, dev[m])
  BY <1>0, <1>2, <1>3 DEF Fits, RowFits
<1>11. RunFits(run'[m], o, key[m], dev[m], net[m])
  BY <1>2, <1>5 DEF RunFits, Enrolling
<1>12. Fits(m)'
  BY <1>0, <1>1, <1>4, <1>6, <1>8, <1>9, <1>10, <1>11 DEF Fits
<1>13. Types'
  BY <1>0, <1>1, <1>4, <1>5, <1>6 DEF Types
<1>14. \A k \in Machines \ {m} : Same(k)
  BY <1>1, <1>4, <1>5, <1>6 DEF Same
<1>15. m \notin Admitted'
  BY <1>2, <1>4 DEF Admitted
<1> QED
  BY <1>12, <1>13, <1>14, <1>15, OneMachine

\* The call to revoke names a key that a row was published for.
LEMMA BeginForgetKeeps ==
  ASSUME FleetInv, NEW m \in Machines, BeginForget(m)
  PROVE  FleetInv'
<1>0. Types /\ Fits(m)
  BY TypesAndRoom, Now DEF FleetInv
<1>1. /\ UNCHANGED <<row, op, key, index, beat, code, shown, dev, faults, losses, crashes>>
      /\ faults' \in 0..MaxFaults /\ beat' \in [Machines -> BeatSet]
  BY <1>0 DEF BeginForget, source, target, bounds, Types
<1>2. op[m].kind = "forget" /\ key[m] \in {0, op[m].digest}
  BY <1>0 DEF BeginForget, Fits, RunFits, KeyFits, Forgetting
<1> DEFINE t == key[m]
<1>3. CASE End(m) /\ UNCHANGED net
  BY <1>1, <1>3, TaskEnds
<1>4. CASE Move(m, "forget") /\ UNCHANGED net
  <2>1. /\ run' \in [Machines -> RunSet] /\ run'[m].phase = "forget"
        /\ \A k \in Machines \ {m} : run'[k] = run[k]
    BY <1>4, MoveTyped DEF Phases
  <2>2. KeyFits(key[m], index[m], row[m], op[m], run'[m], dev[m], net[m])
    BY <1>0, <1>2, <2>1 DEF Fits, KeyFits
  <2>3. RunFits(run'[m], op[m], key[m], dev[m], net[m])
    BY <1>2, <2>1 DEF RunFits, Enrolling
  <2>4. net' \in [Machines -> SUBSET Calls] /\ net' = net
    BY <1>0, <1>4 DEF Types
  <2> QED
    BY <1>0, <1>1, <2>1, <2>2, <2>3, <2>4, TaskMoves DEF Fits
<1>5. CASE /\ t = op[m].digest /\ t # 0 /\ row[m].digest = t
           /\ run' = [run EXCEPT ![m] = [phase |-> "revoke", token |-> t, reply |-> "none"]]
           /\ Send(m, "revoke", t)
  <2> DEFINE u == [phase |-> "revoke", token |-> t, reply |-> "none"]
  <2>1. t \in Tokens /\ Had(dev[m], t)
    BY <1>0, <1>5, Names DEF Fits, RowFits
  <2>2. u \in RunSet /\ u.phase = "revoke" /\ u.token = t /\ u.reply = "none"
    BY <2>1 DEF RunSet, Phases, Replies
  <2>3. run' = [run EXCEPT ![m] = u]
    BY <1>5
  <2> HIDE DEF u
  <2>4. /\ run' \in [Machines -> RunSet] /\ run'[m] = u
        /\ \A k \in Machines \ {m} : run'[k] = run[k]
    BY <1>0, <2>2, <2>3 DEF Types
  <2>5. /\ net' \in [Machines -> SUBSET Calls] /\ \A k \in Machines \ {m} : net'[k] = net[k]
        /\ \A y, v : Sent(net'[m], y, v) <=> Sent(net[m], y, v) \/ (y = "revoke" /\ v = t)
    BY <1>5, <2>1, Sends
  <2>6. CodesFit(code[m], shown[m], dev[m], net'[m])
    BY <1>0, <2>1, <2>5 DEF Fits, CodesFit
  <2>7. KeyFits(key[m], index[m], row[m], op[m], u, dev[m], net'[m])
    BY <1>0, <1>2, <2>2, <2>5 DEF Fits, KeyFits
  <2>8. OpFits(op[m], row[m], dev[m], net'[m])
    BY <1>0, <2>5 DEF Fits, OpFits
  <2>9. RunFits(u, op[m], key[m], dev[m], net'[m])
    BY <1>2, <1>5, <2>2 DEF RunFits, Enrolling
  <2> QED
    BY <1>1, <2>4, <2>5, <2>6, <2>7, <2>8, <2>9, TaskMoves
<1> QED
  BY <1>3, <1>4, <1>5 DEF BeginForget

LEMMA RevokeAnsweredKeeps ==
  ASSUME FleetInv, NEW m \in Machines, RevokeAnswered(m)
  PROVE  FleetInv'
<1>0. Types /\ Fits(m) /\ op[m] \in OpSet
  BY TypesAndRoom, Now DEF FleetInv
<1>1. UNCHANGED <<row, key, index, beat, code, shown, dev, net, faults, losses, crashes>>
  BY DEF RevokeAnswered, target, bounds
<1>2. /\ run[m].phase = "revoke" /\ op[m].kind = "forget" /\ run[m].token = op[m].digest
      /\ op[m].digest # 0 /\ (run[m].reply = "ok" => Retired(dev[m], op[m].digest))
  BY <1>0 DEF RevokeAnswered, Fits, RunFits, Forgetting
<1> DEFINE o == [op[m] EXCEPT !.revoked = (run[m].reply = "ok")]
<1>3. /\ o \in OpSet /\ o.kind = "forget" /\ o.digest = op[m].digest
      /\ o.revoked => run[m].reply = "ok"
  BY <1>0, <1>2 DEF OpSet
<1>4. op' = [op EXCEPT ![m] = o] /\ Move(m, "forget")
  BY DEF RevokeAnswered
<1> HIDE DEF o
<1>5. op'[m] = o /\ op' \in [Machines -> OpSet] /\ \A k \in Machines \ {m} : op'[k] = op[k]
  BY <1>0, <1>3, <1>4 DEF Types
<1>6. /\ run' \in [Machines -> RunSet] /\ run'[m].phase = "forget"
      /\ \A k \in Machines \ {m} : run'[k] = run[k]
  BY <1>4, MoveTyped DEF Phases
<1>7. KeyFits(key[m], index[m], row[m], o, run'[m], dev[m], net[m])
  BY <1>0, <1>2, <1>3 DEF Fits, KeyFits
<1>8. OpFits(o, row[m], dev[m], net[m])
  BY <1>0, <1>2, <1>3 DEF Fits, OpFits
<1>9. NoOp.kind = "none"
  BY DEF NoOp
<1>10. RowFits(row[m], o, dev[m])
  BY <1>0, <1>3, <1>9 DEF Fits, RowFits
<1>11. RunFits(run'[m], o, key[m], dev[m], net[m])
  BY <1>3, <1>6 DEF RunFits, Enrolling
<1>12. Fits(m)'
  BY <1>0, <1>1, <1>5, <1>7, <1>8, <1>10, <1>11 DEF Fits
<1>13. Types'
  BY <1>0, <1>1, <1>5, <1>6 DEF Types
<1>14. \A k \in Machines \ {m} : Same(k)
  BY <1>1, <1>5, <1>6 DEF Same
<1>15. m \notin Admitted'
  BY <1>3, <1>5 DEF Admitted
<1> QED
  BY <1>12, <1>13, <1>14, <1>15, OneMachine

LEMMA CompleteForgetKeeps ==
  ASSUME FleetInv, NEW m \in Machines, CompleteForget(m)
  PROVE  FleetInv'
<1>0. Types /\ Fits(m)
  BY TypesAndRoom, Now DEF FleetInv
<1>1. UNCHANGED <<key, index, beat, code, shown, dev, net, faults, losses, crashes>>
  BY DEF CompleteForget, target, bounds
<1>2. key[m] = 0
  BY <1>0 DEF CompleteForget, Fits, RunFits
<1>3. NoRow \in RowSet /\ NoRow.digest = 0 /\ NoOp \in OpSet /\ NoOp.kind = "none"
  BY DEF NoRow, RowSet, Healths, NoOp, OpSet
<1>4. /\ run' \in [Machines -> RunSet] /\ run'[m].phase = "idle"
      /\ \A k \in Machines \ {m} : run'[k] = run[k]
  BY EndTyped DEF CompleteForget
<1>5. /\ row' \in [Machines -> RowSet] /\ row'[m] = NoRow
      /\ op' \in [Machines -> OpSet] /\ op'[m] = NoOp
      /\ \A k \in Machines \ {m} : row'[k] = row[k] /\ op'[k] = op[k]
  BY <1>0, <1>3 DEF CompleteForget, Types
<1>6. KeyFits(key[m], index[m], NoRow, NoOp, run'[m], dev[m], net[m])
  BY <1>2, <1>3, Names DEF KeyFits
<1>7. OpFits(NoOp, NoRow, dev[m], net[m])
  BY <1>3 DEF OpFits
<1>8. RowFits(NoRow, NoOp, dev[m])
  BY <1>3 DEF RowFits
<1>9. RunFits(run'[m], NoOp, key[m], dev[m], net[m])
  BY <1>4 DEF RunFits, Enrolling, Forgetting
<1>10. Fits(m)'
  BY <1>0, <1>1, <1>5, <1>6, <1>7, <1>8, <1>9 DEF Fits
<1>11. Types'
  BY <1>0, <1>1, <1>4, <1>5 DEF Types
<1>12. \A k \in Machines \ {m} : Same(k)
  BY <1>1, <1>4, <1>5 DEF Same
<1>13. m \notin Admitted'
  BY <1>3, <1>5 DEF Admitted
<1> QED
  BY <1>10, <1>11, <1>12, <1>13, OneMachine

-----------------------------------------------------------------------------
(* Deadlines, restarts and reconciliation. *)

LEMMA TimeOutKeeps ==
  ASSUME FleetInv, NEW m \in Machines, TimeOut(m)
  PROVE  FleetInv'
<1>0. Types /\ Fits(m) /\ MaxFaults \in Nat
  BY TypesAndRoom, Now, FleetAssumption DEF FleetInv
<1>1. UNCHANGED <<row, op, key, index, beat, code, shown, dev, net, losses, crashes>>
  BY DEF TimeOut, source, target
<1>2. faults' \in 0..MaxFaults
  BY <1>0 DEF TimeOut, Types
<1>3. beat' \in [Machines -> BeatSet] /\ net' \in [Machines -> SUBSET Calls]
  BY <1>0, <1>1 DEF Types
<1>4. CASE End(m)
  BY <1>1, <1>2, <1>3, <1>4, TaskEnds
<1>5. CASE run[m].phase = "revoke" /\ Move(m, "forget")
  <2>1. op[m].kind = "forget"
    BY <1>0, <1>5 DEF Fits, RunFits, Forgetting
  <2>2. /\ run' \in [Machines -> RunSet] /\ run'[m].phase = "forget"
        /\ \A k \in Machines \ {m} : run'[k] = run[k]
    BY <1>5, MoveTyped DEF Phases
  <2>3. KeyFits(key[m], index[m], row[m], op[m], run'[m], dev[m], net[m])
    BY <1>0, <2>1 DEF Fits, KeyFits
  <2>4. RunFits(run'[m], op[m], key[m], dev[m], net[m])
    BY <2>1, <2>2 DEF RunFits, Enrolling
  <2> QED
    BY <1>0, <1>1, <1>2, <1>3, <2>2, <2>3, <2>4, TaskMoves DEF Fits
<1> QED
  BY <1>4, <1>5 DEF TimeOut

LEMMA GiveUpKeeps ==
  ASSUME FleetInv, NEW m \in Machines, GiveUp(m)
  PROVE  FleetInv'
<1>0. Types /\ MaxFaults \in Nat
  BY TypesAndRoom, FleetAssumption DEF FleetInv
<1>1. UNCHANGED <<row, op, key, index, beat, code, shown, dev, net, losses, crashes>>
  BY DEF GiveUp, source, target
<1>2. faults' \in 0..MaxFaults /\ End(m)
  BY <1>0 DEF GiveUp, Types
<1>3. beat' \in [Machines -> BeatSet]
  BY <1>0, <1>1 DEF Types
<1> QED
  BY <1>1, <1>2, <1>3, TaskEnds

\* A step of the daemon's that sets the tasks and the heartbeats of all machines.
LEMMA AllMachines ==
  ASSUME FleetInv, run' \in [Machines -> RunSet], beat' \in [Machines -> BeatSet],
         crashes' \in 0..MaxCrashes,
         UNCHANGED <<row, op, key, index, code, shown, dev, net, faults, losses>>,
         \A m \in Machines : /\ run'[m].phase \in {"idle", "repair", "read"}
                             /\ run'[m].phase = "repair" => op[m].kind = "enroll"
                             /\ run'[m].phase = "read" => op[m].kind = "forget"
                             /\ beat'[m].phase # "idle" => beat'[m].digest # 0
  PROVE  FleetInv'
<1>0. Types
  BY TypesAndRoom DEF FleetInv
<1>1. ASSUME NEW m \in Machines PROVE Fits(m)'
  <2>0. Fits(m)
    BY Now
  <2>1. KeyFits(key[m], index[m], row[m], op[m], run'[m], dev[m], net[m])
    BY <2>0 DEF Fits, KeyFits
  <2>2. RunFits(run'[m], op[m], key[m], dev[m], net[m])
    BY DEF RunFits, Enrolling, Forgetting
  <2> QED
    BY <2>0, <2>1, <2>2 DEF Fits
<1>2. Types'
  BY <1>0 DEF Types
<1>3. Admitted' = Admitted
  BY DEF Admitted
<1>4. IsFiniteSet(Admitted') /\ Cardinality(Admitted') <= MaxMachines
  BY <1>3, TypesAndRoom DEF FleetInv
<1>5. TypeOK'
  BY <1>2, <1>4 DEF TypeOK, Types, RowSet, OpSet, RunSet, BeatSet, DevSet
<1> QED
  BY <1>1, <1>4, <1>5 DEF FleetInv

LEMMA ReconcileKeeps ==
  ASSUME FleetInv, Reconcile
  PROVE  FleetInv'
<1>0. Types /\ \A m \in Machines : Fits(m)
  BY TypesAndRoom DEF FleetInv
<1>1. /\ UNCHANGED <<row, op, key, index, beat, code, shown, dev, net, faults, losses, crashes>>
      /\ crashes' \in 0..MaxCrashes /\ beat' \in [Machines -> BeatSet]
  BY <1>0 DEF Reconcile, source, target, bounds, Types
<1> DEFINE new(k) == CASE op[k].kind = "enroll" -> [Resting EXCEPT !.phase = "repair"]
                       [] op[k].kind = "forget" -> [Resting EXCEPT !.phase = "read"]
                       [] OTHER                 -> Resting
<1>2. run' = [k \in Machines |-> new(k)]
  BY DEF Reconcile
<1>3. ASSUME NEW k \in Machines
      PROVE  /\ new(k) \in RunSet /\ new(k).phase \in {"idle", "repair", "read"}
             /\ new(k).phase = "repair" => op[k].kind = "enroll"
             /\ new(k).phase = "read" => op[k].kind = "forget"
  BY DEF Resting, RunSet, Phases, Replies
<1> HIDE DEF new
<1>4. run' \in [Machines -> RunSet] /\ \A k \in Machines : run'[k] = new(k)
  BY <1>2, <1>3
<1>5. \A k \in Machines : beat'[k].phase # "idle" => beat'[k].digest # 0
  BY <1>0, <1>1 DEF Fits
<1> QED
  BY <1>1, <1>3, <1>4, <1>5, AllMachines

LEMMA CrashKeeps ==
  ASSUME FleetInv, Crash
  PROVE  FleetInv'
<1>0. Types /\ MaxCrashes \in Nat
  BY TypesAndRoom, FleetAssumption DEF FleetInv
<1>1. /\ UNCHANGED <<row, op, key, index, code, shown, dev, net, faults, losses>>
      /\ crashes' \in 0..MaxCrashes
  BY <1>0 DEF Crash, source, target, Types
<1>2. Resting \in RunSet /\ Resting.phase = "idle" /\ NoBeat \in BeatSet /\ NoBeat.phase = "idle"
  BY DEF Resting, RunSet, Phases, Replies, NoBeat, BeatSet, BeatPhases
<1>3. run' = [k \in Machines |-> Resting] /\ beat' = [k \in Machines |-> NoBeat]
  BY DEF Crash
<1> HIDE DEF Resting, NoBeat
<1>4. /\ run' \in [Machines -> RunSet] /\ beat' \in [Machines -> BeatSet]
      /\ \A k \in Machines : run'[k].phase = "idle" /\ beat'[k].phase = "idle"
  BY <1>2, <1>3
<1> QED
  BY <1>1, <1>4, AllMachines

-----------------------------------------------------------------------------
(* Heartbeats. *)

\* A heartbeat that writes nothing to the row.
LEMMA BeatMoves ==
  ASSUME FleetInv, NEW m \in Machines, beat' \in [Machines -> BeatSet],
         \A k \in Machines \ {m} : beat'[k] = beat[k],
         beat'[m].phase # "idle" => beat'[m].digest # 0,
         net' \in [Machines -> SUBSET Calls], \A k \in Machines \ {m} : net'[k] = net[k],
         \A t \in Tokens : \A x \in {"confirm", "revoke"} : Sent(net'[m], x, t) <=> Sent(net[m], x, t),
         UNCHANGED <<row, op, key, index, run, code, shown, dev, faults, losses, crashes>>
  PROVE  FleetInv'
<1>0. Types /\ Fits(m)
  BY TypesAndRoom, Now DEF FleetInv
<1>1. run[m].phase = "save" \/ run[m].phase = "claim" => run[m].token \in Tokens
  BY <1>0, Names DEF Fits, RunFits, OpFits, Enrolling
<1>2. /\ CodesFit(code[m], shown[m], dev[m], net'[m])
      /\ OpFits(op[m], row[m], dev[m], net'[m])
      /\ KeyFits(key[m], index[m], row[m], op[m], run[m], dev[m], net'[m])
      /\ RunFits(run[m], op[m], key[m], dev[m], net'[m])
  BY <1>0, <1>1, OtherCall DEF Fits
<1>3. Fits(m)'
  BY <1>0, <1>2 DEF Fits
<1>4. Types'
  BY <1>0 DEF Types
<1>5. \A k \in Machines \ {m} : Same(k)
  BY DEF Same
<1>6. m \in Admitted' => m \in Admitted
  BY DEF Admitted
<1> QED
  BY <1>3, <1>4, <1>5, <1>6, OneMachine

\* A heartbeat notes the machine's health: healthy only for the key that the keychain holds.
LEMMA NotedKeeps ==
  ASSUME FleetInv, NEW m \in Machines, NEW h \in Healths, Noted(m, h), beat[m].phase # "idle",
         h = "ok" => key[m] = beat[m].digest,
         UNCHANGED <<op, key, index, run, code, shown, dev, net, faults, losses, crashes>>
  PROVE  FleetInv'
<1>0. Types /\ Fits(m) /\ beat[m].digest # 0
  BY TypesAndRoom, Now DEF FleetInv, Fits
<1>1. NoBeat \in BeatSet /\ NoBeat.phase = "idle"
  BY DEF NoBeat, BeatSet, BeatPhases, Replies
<1>2. /\ beat' \in [Machines -> BeatSet] /\ beat'[m].phase = "idle"
      /\ \A k \in Machines \ {m} : beat'[k] = beat[k]
  <2>1. beat' = [beat EXCEPT ![m] = NoBeat]
    BY DEF Noted
  <2> HIDE DEF NoBeat
  <2> QED BY <1>0, <1>1, <2>1 DEF Types
<1>3. CASE ~Writable(m)
  <2>1. UNCHANGED row /\ net' \in [Machines -> SUBSET Calls]
    BY <1>0, <1>3 DEF Noted, Types
  <2> QED
    BY <1>2, <2>1, BeatMoves
<1>4. CASE Writable(m)
  <2> DEFINE r == [digest |-> beat[m].digest, health |-> h]
  <2>1. beat[m] \in BeatSet /\ row[m].digest = beat[m].digest /\ op[m] = NoOp
    BY <1>4, Now DEF Writable
  <2>2. r \in RowSet /\ r.digest = row[m].digest /\ r.health = h
    BY <2>1 DEF BeatSet, RowSet
  <2>3. row' = [row EXCEPT ![m] = r]
    BY <1>4 DEF Noted
  <2> HIDE DEF r
  <2>4. /\ row' \in [Machines -> RowSet] /\ row'[m] = r /\ \A k \in Machines \ {m} : row'[k] = row[k]
    BY <1>0, <2>2, <2>3 DEF Types
  <2>5. KeyFits(key[m], index[m], r, op[m], run[m], dev[m], net[m])
    BY <1>0, <2>2 DEF Fits, KeyFits
  \* No newer claim can be confirmed behind the back of a key that is held.
  <2>6. ASSUME NEW t \in Tokens, Sent(net[m], "confirm", t), dev[m][t] = "pending"
        PROVE  h # "ok"
    <3>1. SUFFICES ASSUME h = "ok" PROVE FALSE
      OBVIOUS
    <3>2. key[m] = row[m].digest /\ key[m] \in Tokens /\ Had(dev[m], key[m])
      BY <1>0, <2>1, <3>1, Names DEF Fits, RowFits
    <3>3. key[m] >= t /\ key[m] \in Nat /\ t \in Nat
      BY <1>0, <2>6, <3>2, Names DEF Fits, KeyFits
    <3>4. key[m] > t
      BY <2>6, <3>2, <3>3 DEF Had
    <3> QED
      BY <1>0, <2>6, <3>2, <3>4 DEF Fits, CodesFit, Had
  <2>7. NoOp.kind = "none"
    BY DEF NoOp
  <2>8. OpFits(op[m], r, dev[m], net[m])
    BY <2>1, <2>2, <2>6, <2>7 DEF OpFits
  <2>9. RowFits(r, op[m], dev[m])
    <3>1. r.digest # 0 => Had(dev[m], r.digest)
      BY <1>0, <2>2 DEF Fits, RowFits
    <3>2. h = "ok" => dev[m][r.digest] # "revoked"
      BY <1>0, <2>1, <2>2, <2>7 DEF Fits, KeyFits
    <3> QED BY <2>2, <3>1, <3>2 DEF RowFits
  <2>10. Fits(m)'
    BY <1>0, <1>2, <2>4, <2>5, <2>8, <2>9 DEF Fits
  <2>11. Types'
    BY <1>0, <1>2, <2>4 DEF Types
  <2>12. \A k \in Machines \ {m} : Same(k)
    BY <1>2, <2>4 DEF Same
  <2>13. m \in Admitted' => m \in Admitted
    BY <2>2, <2>4 DEF Admitted
  <2> QED
    BY <2>10, <2>11, <2>12, <2>13, OneMachine
<1> QED
  BY <1>3, <1>4

LEMMA BeginBeatKeeps ==
  ASSUME FleetInv, NEW m \in Machines, BeginBeat(m)
  PROVE  FleetInv'
<1>0. Types
  BY TypesAndRoom DEF FleetInv
<1>1. /\ UNCHANGED <<row, op, key, index, run, code, shown, dev, net, faults, losses, crashes>>
      /\ net' \in [Machines -> SUBSET Calls]
  BY <1>0 DEF BeginBeat, source, target, bounds, Types
<1> DEFINE b == [phase |-> "read", digest |-> row[m].digest, live |-> TRUE, reply |-> "none"]
<1>2. b \in BeatSet /\ b.digest # 0
  BY Names DEF BeginBeat, BeatSet, BeatPhases, Replies
<1>3. beat' = [beat EXCEPT ![m] = b]
  BY DEF BeginBeat
<1> HIDE DEF b
<1>4. /\ beat' \in [Machines -> BeatSet] /\ beat'[m].digest # 0
      /\ \A k \in Machines \ {m} : beat'[k] = beat[k]
  BY <1>0, <1>2, <1>3 DEF Types
<1> QED
  BY <1>1, <1>4, BeatMoves

LEMMA BeatKeeps ==
  ASSUME FleetInv, NEW m \in Machines, Beat(m)
  PROVE  FleetInv'
<1>0. Types /\ Fits(m) /\ beat[m] \in BeatSet
  BY TypesAndRoom, Now DEF FleetInv
<1>1. UNCHANGED <<op, key, index, run, code, shown, dev, faults, losses, crashes>>
  BY DEF Beat, target, bounds
<1>2. beat[m].phase # "idle"
  BY DEF Beat
<1>3. beat[m].digest \in Tokens
  BY <1>0, <1>2 DEF Fits, BeatSet
<1>4. CASE \E h \in Healths : /\ Noted(m, h)
                              /\ h = "ok" => key[m] = beat[m].digest
                              /\ UNCHANGED net
  BY <1>1, <1>2, <1>4, NotedKeeps
<1>5. ASSUME NEW p \in BeatPhases, beat' = [beat EXCEPT ![m] = [@ EXCEPT !.phase = p]]
      PROVE  /\ beat' \in [Machines -> BeatSet] /\ beat'[m].digest # 0
             /\ \A k \in Machines \ {m} : beat'[k] = beat[k]
  <2> DEFINE b == [beat[m] EXCEPT !.phase = p]
  <2>1. b \in BeatSet /\ b.digest # 0
    BY <1>0, <1>3, Names DEF BeatSet
  <2>2. beat' = [beat EXCEPT ![m] = b]
    BY <1>5
  <2> HIDE DEF b
  <2> QED
    BY <1>0, <2>1, <2>2 DEF Types
<1>6. CASE /\ beat' = [beat EXCEPT ![m] = [@ EXCEPT !.phase = "wait"]]
           /\ Send(m, "beat", beat[m].digest) /\ UNCHANGED row
  <2>1. /\ beat' \in [Machines -> BeatSet] /\ beat'[m].digest # 0
        /\ \A k \in Machines \ {m} : beat'[k] = beat[k]
    BY <1>5, <1>6 DEF BeatPhases
  <2>2. /\ net' \in [Machines -> SUBSET Calls] /\ \A k \in Machines \ {m} : net'[k] = net[k]
        /\ \A y, v : Sent(net'[m], y, v) <=>
                       Sent(net[m], y, v) \/ (y = "beat" /\ v = beat[m].digest)
    BY <1>3, <1>6, Sends
  <2>3. \A t \in Tokens : \A x \in {"confirm", "revoke"} :
          Sent(net'[m], x, t) <=> Sent(net[m], x, t)
    BY <2>2
  <2> QED
    BY <1>1, <1>6, <2>1, <2>2, <2>3, BeatMoves
<1>7. CASE /\ beat' = [beat EXCEPT ![m] = [@ EXCEPT !.phase = "reread"]]
           /\ UNCHANGED <<row, net>>
  <2>1. /\ beat' \in [Machines -> BeatSet] /\ beat'[m].digest # 0
        /\ \A k \in Machines \ {m} : beat'[k] = beat[k]
    BY <1>5, <1>7 DEF BeatPhases
  <2>2. net' \in [Machines -> SUBSET Calls]
    BY <1>0, <1>7 DEF Types
  <2> QED
    BY <1>1, <1>7, <2>1, <2>2, BeatMoves
<1> QED
  BY <1>4, <1>6, <1>7 DEF Beat, Healths

LEMMA BeatFailsKeeps ==
  ASSUME FleetInv, NEW m \in Machines, BeatFails(m)
  PROVE  FleetInv'
  BY NotedKeeps DEF BeatFails, target, bounds, Healths

-----------------------------------------------------------------------------
(* The invariant and what it says. *)

LEMMA FleetInit == Init => FleetInv
<1> SUFFICES ASSUME Init PROVE FleetInv
  OBVIOUS
<1>1. /\ NoRow \in RowSet /\ NoRow.digest = 0 /\ NoOp \in OpSet /\ NoOp.kind = "none"
      /\ Resting \in RunSet /\ Resting.phase = "idle"
      /\ NoBeat \in BeatSet /\ NoBeat.phase = "idle"
  BY DEF NoRow, RowSet, Healths, NoOp, OpSet, Resting, RunSet, Phases, Replies, NoBeat, BeatSet,
         BeatPhases
<1>2. Admitted = {}
  BY DEF Init, Admitted, NoRow, NoOp
<1>3. IsFiniteSet(Admitted) /\ Cardinality(Admitted) <= MaxMachines
  BY <1>2, FS_EmptySet, FleetAssumption
<1> HIDE DEF NoRow, NoOp, Resting, NoBeat
<1>4. Types
  BY <1>1, FleetAssumption DEF Init, Types, DevSet
<1>5. ASSUME NEW m \in Machines PROVE Fits(m)
  <2>1. /\ row[m] = NoRow /\ op[m] = NoOp /\ key[m] = 0 /\ run[m] = Resting /\ beat[m] = NoBeat
        /\ code[m] = 0 /\ shown[m] = 0 /\ net[m] = {} /\ \A t \in Tokens : dev[m][t] = "none"
    BY DEF Init
  <2>2. \A x, t : ~Sent(net[m], x, t)
    BY <2>1 DEF Sent
  <2>3. CodesFit(code[m], shown[m], dev[m], net[m])
    BY <2>1, <2>2 DEF CodesFit
  <2>4. KeyFits(key[m], index[m], row[m], op[m], run[m], dev[m], net[m])
    BY <1>1, <2>1, <2>2 DEF KeyFits
  <2>5. OpFits(op[m], row[m], dev[m], net[m])
    BY <1>1, <2>1, <2>2 DEF OpFits
  <2>6. RowFits(row[m], op[m], dev[m])
    BY <1>1, <2>1 DEF RowFits
  <2>7. RunFits(run[m], op[m], key[m], dev[m], net[m])
    BY <1>1, <2>1 DEF RunFits, Enrolling, Forgetting
  <2> QED
    BY <1>1, <2>1, <2>3, <2>4, <2>5, <2>6, <2>7 DEF Fits
<1> QED
  BY <1>3, <1>4, <1>5, TypesAndRoom DEF FleetInv

LEMMA TaskStep ==
  ASSUME FleetInv, NEW m \in Machines, Step(m)
  PROVE  FleetInv'
  BY ClaimAnsweredKeeps, SaveKeeps, RepairKeeps, AskKeeps, ConfirmAnsweredKeeps,
     GreetAnsweredKeeps, PublishKeeps, DropKeeps, AbortKeeps, BeginForgetKeeps,
     RevokeAnsweredKeeps, ForgetKeyKeeps, CompleteForgetKeeps, TimeOutKeeps, Zenon DEF Step

LEMMA FleetStep == FleetInv /\ [Next]_vars => FleetInv'
<1> SUFFICES ASSUME FleetInv, [Next]_vars PROVE FleetInv'
  OBVIOUS
<1>1. CASE UNCHANGED vars
  <2>1. Types /\ IsFiniteSet(Admitted) /\ Cardinality(Admitted) <= MaxMachines
    BY TypesAndRoom DEF FleetInv
  <2>2. Admitted' = Admitted
    BY <1>1 DEF vars, Admitted
  <2>3. Types' /\ \A m \in Machines : Fits(m)'
    BY <1>1, <2>1 DEF vars, FleetInv, Types, Fits
  <2>4. TypeOK'
    BY <2>1, <2>2, <2>3 DEF TypeOK, Types, RowSet, OpSet, RunSet, BeatSet, DevSet
  <2> QED
    BY <2>1, <2>2, <2>3, <2>4 DEF FleetInv
<1>2. ASSUME NEW m \in Machines, IssueCode(m) \/ CodeEnds(m) \/ ClaimExpires(m) \/ Withdraw(m)
      PROVE  FleetInv'
  BY <1>2, IssueCodeKeeps, CodeEndsKeeps, EndsCredential
<1>3. ASSUME NEW m \in Machines, NEW c \in net[m], Serve(m, c) \/ Lose(m, c)
      PROVE  FleetInv'
  BY <1>3, ServeKeeps, LoseKeeps
<1>4. ASSUME NEW m \in Machines, NEW named \in BOOLEAN, Enroll(m, named)
      PROVE  FleetInv'
  BY <1>4, EnrollKeeps
<1>5. ASSUME NEW m \in Machines, Step(m) \/ GiveUp(m) \/ Forget(m)
      PROVE  FleetInv'
  BY <1>5, TaskStep, GiveUpKeeps, ForgetKeeps
<1>6. ASSUME NEW m \in Machines, BeginBeat(m) \/ Beat(m) \/ BeatFails(m) \/ LoseKey(m)
      PROVE  FleetInv'
  BY <1>6, BeginBeatKeeps, BeatKeeps, BeatFailsKeeps, LoseKeyKeeps
<1>7. CASE Reconcile \/ Crash
  BY <1>7, ReconcileKeeps, CrashKeeps
<1> QED
  BY <1>1, <1>2, <1>3, <1>4, <1>5, <1>6, <1>7, Zenon DEF Next

LEMMA FleetInvariant == Spec => []FleetInv
  BY FleetInit, FleetStep, PTL DEF Spec

\* The source never has two working credentials at one target (device-registry.ts, confirmClaim
\* retires the old one in the same transaction), and a confirmed key that the keychain still holds
\* keeps working until the machine is forgotten or the target's owner withdraws it, whatever is
\* lost, late, retried or given up in between (fleet-enrollment.ts).
THEOREM KeysCorrect == Spec => []OneWorkingKey
<1>1. ASSUME FleetInv, NEW m \in Machines
      PROVE  Cardinality({t \in Tokens : dev[m][t] = "active"}) <= 1
  <2> DEFINE S == {t \in Tokens : dev[m][t] = "active"}
  <2>1. \A t \in S : \A u \in S : t = u
    BY <1>1, Now DEF Fits, CodesFit
  <2>2. CASE S = {}
    BY <2>2, FS_EmptySet
  <2>3. ASSUME NEW t \in S PROVE Cardinality(S) <= 1
    <3>1. S = {t}
      BY <2>1, <2>3
    <3> HIDE DEF S
    <3>2. Cardinality(S) = 1
      BY <3>1, FS_Singleton, Zenon
    <3> QED BY <3>2
  <2> QED BY <2>2, <2>3
<1>2. ASSUME FleetInv, NEW m \in Machines,
             key[m] # 0, Was(m, key[m]), dev[m][key[m]] # "withdrawn", op[m].kind # "forget"
      PROVE  dev[m][key[m]] = "active"
  BY <1>2, Now DEF Fits, KeyFits, Was
<1>3. FleetInv => OneWorkingKey
  BY <1>1, <1>2 DEF OneWorkingKey, OneAuthority, HeldKeyWorks
<1> QED
  BY <1>3, FleetInvariant, PTL

\* What the registry records of a machine is true (fleet-registry.ts): a row is published only for
\* a credential its target made active, a machine shown as healthy was not cut off by the source
\* itself, a key without an operation is listed in the keychain's index, a revocation is called
\* confirmed only when the target no longer accepts the key, and there are never more machines
\* than maximumFleetMachines.
THEOREM FleetCorrect == Spec => []FleetIsTrue
<1>1. FleetInv => TypeOK
  BY DEF FleetInv
<1>2. FleetInv => PublishedIsConfirmed
  BY Now DEF Fits, RowFits, Had, PublishedIsConfirmed, Was
<1>3. FleetInv => HealthyWorks
  BY Now DEF Fits, RowFits, Had, HealthyWorks
<1>4. FleetInv => NoHiddenKey
  BY Now DEF Fits, KeyFits, NoHiddenKey, NoOp
<1>5. FleetInv => ConfirmedIsRevoked
  BY Now DEF Fits, OpFits, Retired, ConfirmedIsRevoked
<1>6. FleetInv => FleetIsTrue
  BY <1>1, <1>2, <1>3, <1>4, <1>5 DEF FleetIsTrue
<1> QED
  BY <1>6, FleetInvariant, PTL

\* The credential of a row changes as the end of an operation says.
RowEnds(k) ==
  row'[k].digest # row[k].digest =>
    /\ op[k] # NoOp /\ op'[k] = NoOp
    /\ row'[k].digest = IF op[k].kind = "enroll" THEN op[k].digest ELSE 0

LEMMA AbortedRow ==
  ASSUME FleetInv, NEW m \in Machines, Aborted(m), NEW k \in Machines
  PROVE  row'[k].digest = row[k].digest
<1>1. row \in [Machines -> RowSet]
  BY TypesAndRoom DEF FleetInv, Types
<1> DEFINE r == [row[m] EXCEPT !.health = "pairing-required"]
<1>2. r.digest = row[m].digest
  BY <1>1 DEF RowSet
<1>3. row' = row \/ row' = [row EXCEPT ![m] = r]
  BY DEF Aborted
<1> HIDE DEF r
<1> QED
  BY <1>1, <1>2, <1>3

LEMMA NotedRow ==
  ASSUME FleetInv, NEW m \in Machines, NEW h, Noted(m, h), NEW k \in Machines
  PROVE  row'[k].digest = row[k].digest
<1>1. row \in [Machines -> RowSet]
  BY TypesAndRoom DEF FleetInv, Types
<1>2. CASE ~Writable(m)
  BY <1>2 DEF Noted
<1>3. CASE Writable(m)
  <2> DEFINE r == [digest |-> beat[m].digest, health |-> h]
  <2>1. row' = [row EXCEPT ![m] = r] /\ r.digest = row[m].digest
    BY <1>3 DEF Noted, Writable
  <2> HIDE DEF r
  <2> QED
    BY <1>1, <2>1
<1> QED
  BY <1>2, <1>3

LEMMA PublishRow ==
  ASSUME FleetInv, NEW m \in Machines, Publish(m), NEW k \in Machines
  PROVE  RowEnds(k)
<1>1. Types
  BY TypesAndRoom DEF FleetInv
<1>2. CASE key[m] # run[m].token
  BY <1>2 DEF Publish, RowEnds
<1>3. CASE key[m] = run[m].token
  <2> DEFINE r == [digest |-> op[m].digest, health |-> "ok"]
  <2>1. row' = [row EXCEPT ![m] = r] /\ op' = [op EXCEPT ![m] = NoOp] /\ r.digest = op[m].digest
    BY <1>3 DEF Publish
  <2> HIDE DEF r
  <2>2. op[m].kind = "enroll"
    BY Now DEF Publish, Fits, RunFits, Enrolling
  <2>3. op[m] # NoOp
    BY <2>2 DEF NoOp
  <2>4. CASE k = m
    BY <1>1, <2>1, <2>2, <2>3, <2>4 DEF Types, RowEnds
  <2>5. CASE k # m
    BY <1>1, <2>1, <2>5 DEF Types, RowEnds
  <2> QED BY <2>4, <2>5
<1> QED
  BY <1>2, <1>3

LEMMA CompleteForgetRow ==
  ASSUME FleetInv, NEW m \in Machines, CompleteForget(m), NEW k \in Machines
  PROVE  RowEnds(k)
<1>1. Types
  BY TypesAndRoom DEF FleetInv
<1>2. row' = [row EXCEPT ![m] = NoRow] /\ op' = [op EXCEPT ![m] = NoOp] /\ NoRow.digest = 0
  BY DEF CompleteForget, NoRow
<1>3. op[m].kind = "forget"
  BY Now DEF CompleteForget, Fits, RunFits, Forgetting
<1>4. op[m] # NoOp
  BY <1>3 DEF NoOp
<1> HIDE DEF NoRow
<1>5. CASE k = m
  BY <1>1, <1>2, <1>3, <1>4, <1>5 DEF Types, RowEnds
<1>6. CASE k # m
  BY <1>1, <1>2, <1>6 DEF Types, RowEnds
<1> QED
  BY <1>5, <1>6

LEMMA RowStep ==
  ASSUME FleetInv, Next, NEW k \in Machines
  PROVE  RowEnds(k)
<1>1. CASE UNCHANGED row
  BY <1>1 DEF RowEnds
<1>2. ASSUME NEW m \in Machines, Step(m)
      PROVE  RowEnds(k)
  <2>1. CASE Publish(m)
    BY <2>1, PublishRow
  <2>2. CASE CompleteForget(m)
    BY <2>2, CompleteForgetRow
  <2>3. CASE Repair(m)
    <3>1. CASE Aborted(m)
      BY <3>1, AbortedRow DEF RowEnds
    <3>2. CASE UNCHANGED row
      BY <3>2, <1>1
    <3> QED BY <2>3, <3>1, <3>2 DEF Repair
  <2>4. CASE Abort(m)
    BY <2>4, AbortedRow DEF Abort, RowEnds
  <2>5. CASE \/ ClaimAnswered(m) \/ Save(m) \/ Ask(m) \/ ConfirmAnswered(m) \/ GreetAnswered(m)
             \/ Drop(m) \/ BeginForget(m) \/ RevokeAnswered(m) \/ ForgetKey(m) \/ TimeOut(m)
    BY <1>1, <2>5 DEF ClaimAnswered, Save, Ask, ConfirmAnswered, GreetAnswered, Drop,
                      BeginForget, RevokeAnswered, ForgetKey, TimeOut, source
  <2> QED BY <1>2, <2>1, <2>2, <2>3, <2>4, <2>5, Zenon DEF Step
<1>3. ASSUME NEW m \in Machines, Beat(m) \/ BeatFails(m)
      PROVE  RowEnds(k)
  <2>1. CASE \E h \in Healths : Noted(m, h)
    BY <2>1, NotedRow DEF RowEnds
  <2>2. CASE UNCHANGED row
    BY <2>2, <1>1
  <2> QED BY <1>3, <2>1, <2>2 DEF Beat, BeatFails, Healths
<1>4. ASSUME NEW m \in Machines, NEW c \in net[m], Serve(m, c) \/ Lose(m, c)
      PROVE  RowEnds(k)
  BY <1>1, <1>4 DEF Serve, Lose, source
<1>5. ASSUME NEW m \in Machines,
             \/ IssueCode(m) \/ CodeEnds(m) \/ ClaimExpires(m) \/ Withdraw(m)
             \/ \E named \in BOOLEAN : Enroll(m, named)
             \/ GiveUp(m) \/ Forget(m) \/ BeginBeat(m) \/ LoseKey(m)
      PROVE  RowEnds(k)
  BY <1>1, <1>5 DEF IssueCode, CodeEnds, ClaimExpires, Withdraw, Enroll, GiveUp, Forget, BeginBeat,
                    LoseKey, source
<1>6. CASE Reconcile \/ Crash
  BY <1>1, <1>6 DEF Reconcile, Crash, source
<1> QED
  BY <1>2, <1>3, <1>4, <1>5, <1>6, Zenon DEF Next

\* "A late response cannot resurrect a forgotten/replaced enrollment" (fleet-registry.ts,
\* refreshAuthenticated and recordFailure): the credential of a row changes only when a journalled
\* operation of that machine ends, and then to the one the operation names.
THEOREM RowsCorrect == Spec => NeverResurrected
<1>1. ASSUME FleetInv, [Next]_vars
      PROVE  [\A m \in Machines : RowEnds(m)]_vars
  BY <1>1, RowStep
<1>2. [\A m \in Machines : RowEnds(m)]_vars <=>
      [\A m \in Machines :
         row'[m].digest # row[m].digest =>
           /\ op[m] # NoOp /\ op'[m] = NoOp
           /\ row'[m].digest = IF op[m].kind = "enroll" THEN op[m].digest ELSE 0]_vars
  BY DEF RowEnds
<1> QED
  BY <1>1, <1>2, FleetInvariant, PTL DEF Spec, NeverResurrected

=============================================================================
