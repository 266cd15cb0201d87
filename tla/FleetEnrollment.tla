--------------------------- MODULE FleetEnrollment ---------------------------
(***************************************************************************)
(* How one daemon (the source) pairs with the machines of its fleet and    *)
(* forgets them again: fleet-enrollment.ts over the rows and the journal   *)
(* of fleet-registry.ts, the operating system's keychain behind            *)
(* machine-credentials.ts, and on the other side of a network the target's *)
(* pairing codes and device table (pairing-codes.ts, device-registry.ts).  *)
(*                                                                         *)
(* Three stores, on two machines, change one after another: a code is      *)
(* spent for a pending credential at the target, the operation is          *)
(* journalled at the source, the credential goes into the keychain, the    *)
(* target is asked to make it the source's only authority, and only then   *)
(* is the row of the machine published.  Either daemon may stop, calls and *)
(* answers may be late or lost, the keychain may fail half way, and        *)
(* heartbeats read and write the same rows meanwhile.                      *)
(*                                                                         *)
(* A credential is named by the number of the code it was claimed with: a  *)
(* code is spent once (pairing-codes.ts, #spend), so it mints at most one. *)
(***************************************************************************)
EXTENDS Naturals, FiniteSets

CONSTANTS
  Machines,        \* the machines the source may pair with
  MaxMachines,     \* maximumFleetMachines
  MaxCodes,        \* bound: codes a target shows
  MaxFaults,       \* bound: lost calls, early timeouts, keychain failures
  MaxLosses,       \* bound: keys removed from the keychain by somebody else
  MaxCrashes       \* bound: restarts of the source daemon

ASSUME FleetAssumption ==
  /\ MaxMachines \in Nat
  /\ MaxCodes \in Nat
  /\ MaxFaults \in Nat
  /\ MaxLosses \in Nat
  /\ MaxCrashes \in Nat

Tokens == 1..MaxCodes

VARIABLES
  row,      \* fleet_machines: the credential digest (0: no row) and its health
  op,       \* fleet_operations: at most one journalled operation per machine
  key,      \* the keychain's credential for the machine, 0 when it has none
  index,    \* whether the keychain's index lists the machine
  run,      \* the enroll, forget or reconcile task at work on the machine
  beat,     \* the heartbeat of the machine
  code,     \* at the target: the code being shown, 0 when none
  shown,    \* at the target: how many codes were shown
  dev,      \* at the target: what became of each credential of the source
  net,      \* calls on their way to the target
  faults, losses, crashes

vars == <<row, op, key, index, run, beat, code, shown, dev, net,
          faults, losses, crashes>>

source == <<row, op, key, index>>
target == <<code, shown, dev>>
bounds == <<faults, losses, crashes>>

Healths == {"ok", "pairing-required", "failing"}
NoRow == [digest |-> 0, health |-> "ok"]
NoOp == [kind |-> "none", digest |-> 0, revoked |-> FALSE]
Phases == {"idle", "claim", "save", "repair", "ask", "confirm", "greet",
           "reread", "drop", "abort", "read", "revoke", "forget", "complete"}
Waiting == {"claim", "confirm", "greet", "revoke"}
Resting == [phase |-> "idle", token |-> 0, reply |-> "none"]
BeatPhases == {"idle", "read", "wait", "reread"}
NoBeat == [phase |-> "idle", digest |-> 0, live |-> FALSE, reply |-> "none"]
Replies == {"none", "ok", "refused"}
Calls == [kind : {"claim", "confirm", "greet", "revoke", "beat"},
          token : Tokens]

Init ==
  /\ row = [m \in Machines |-> NoRow]
  /\ op = [m \in Machines |-> NoOp]
  /\ key = [m \in Machines |-> 0]
  /\ index = [m \in Machines |-> FALSE]
  /\ run = [m \in Machines |-> Resting]
  /\ beat = [m \in Machines |-> NoBeat]
  /\ code = [m \in Machines |-> 0]
  /\ shown = [m \in Machines |-> 0]
  /\ dev = [m \in Machines |-> [t \in Tokens |-> "none"]]
  /\ net = [m \in Machines |-> {}]
  /\ faults = 0 /\ losses = 0 /\ crashes = 0

----------------------------------------------------------------------------
(* The target: codes, pending claims, paired devices.                       *)

\* device.issueCode: a new code ends the one still open
IssueCode(m) ==
  /\ shown[m] < MaxCodes
  /\ shown' = [shown EXCEPT ![m] = @ + 1]
  /\ code' = [code EXCEPT ![m] = shown'[m]]
  /\ UNCHANGED <<source, run, beat, dev, net, bounds>>

\* The open code ends unused: its time runs out, wrong guesses use it up, a
\* client redeems it, or the target restarts (the code is only in memory)
CodeEnds(m) ==
  /\ code[m] # 0
  /\ code' = [code EXCEPT ![m] = 0]
  /\ UNCHANGED <<source, run, beat, shown, dev, net, bounds>>

\* Mutant: the claim already retires the working credential
ClaimedRevoking(d, t) ==
  [u \in Tokens |-> IF u = t THEN "pending"
                    ELSE IF d[u] = "pending" THEN "gone"
                    ELSE IF d[u] = "active" THEN "revoked" ELSE d[u]]

\* A claim deletes the source's earlier pending claim and adds a pending one;
\* the working credential stays as it is
Claimed(d, t) ==
  [u \in Tokens |-> IF u = t THEN "pending"
                    ELSE IF d[u] = "pending" THEN "gone" ELSE d[u]]

\* Confirming makes the pending credential the source's only active one
Confirmed(d, t) ==
  [u \in Tokens |-> IF u = t THEN "active"
                    ELSE IF d[u] = "active" THEN "revoked" ELSE d[u]]

\* A pending claim is deleted once its time is over
ClaimExpires(m) ==
  \E t \in Tokens :
    /\ dev[m][t] = "pending"
    /\ dev' = [dev EXCEPT ![m][t] = "gone"]
    /\ UNCHANGED <<source, run, beat, code, shown, net, bounds>>

\* The target's owner revokes the source's device
Withdraw(m) ==
  \E t \in Tokens :
    /\ dev[m][t] = "active"
    /\ dev' = [dev EXCEPT ![m][t] = "withdrawn"]
    /\ UNCHANGED <<source, run, beat, code, shown, net, bounds>>

\* What the target does with a call, and what it answers
Effect(m, c) ==
  CASE c.kind = "claim" /\ code[m] = c.token  -> Claimed(dev[m], c.token)
    [] c.kind = "confirm" /\ dev[m][c.token] = "pending"
                                              -> Confirmed(dev[m], c.token)
    [] c.kind = "revoke" /\ dev[m][c.token] = "active"
                           -> [dev[m] EXCEPT ![c.token] = "revoked"]
    [] OTHER               -> dev[m]

Accepts(m, c) ==
  CASE c.kind = "claim"   -> code[m] = c.token
    [] c.kind = "confirm" -> dev[m][c.token] \in {"pending", "active"}
    [] OTHER              -> dev[m][c.token] = "active"

Verdict(m, c) == IF Accepts(m, c) THEN "ok" ELSE "refused"

\* The answer reaches the task that waits for it, if it still does, or is lost
Answered(m, c, r) ==
  IF c.kind = "beat"
    THEN /\ UNCHANGED run
         /\ beat' = IF beat[m].phase = "wait" /\ beat[m].digest = c.token
                      THEN [beat EXCEPT ![m] = [@ EXCEPT !.reply = r]]
                      ELSE beat
    ELSE /\ UNCHANGED beat
         /\ run' = IF run[m].phase = c.kind /\ run[m].token = c.token
                     THEN [run EXCEPT ![m] = [@ EXCEPT !.reply = r]]
                     ELSE run

Serve(m, c) ==
  /\ net' = [net EXCEPT ![m] = @ \ {c}]
  /\ dev' = [dev EXCEPT ![m] = Effect(m, c)]
  /\ code' = IF c.kind = "claim" /\ Accepts(m, c)
               THEN [code EXCEPT ![m] = 0] ELSE code
  /\ \/ Answered(m, c, Verdict(m, c)) /\ UNCHANGED faults
     \/ faults < MaxFaults /\ faults' = faults + 1 /\ UNCHANGED <<run, beat>>
  /\ UNCHANGED <<source, shown, losses, crashes>>

\* A call is lost on its way
Lose(m, c) ==
  /\ faults < MaxFaults
  /\ faults' = faults + 1
  /\ net' = [net EXCEPT ![m] = @ \ {c}]
  /\ UNCHANGED <<source, run, beat, target, losses, crashes>>

----------------------------------------------------------------------------
(* The source: the journal and the task that works an operation off.        *)

\* #lifecycleBusy
Busy == \E m \in Machines : run[m].phase # "idle"

Call(m, k, t) == [kind |-> k, token |-> t]
Send(m, k, t) == net' = [net EXCEPT ![m] = @ \union {Call(m, k, t)}]
Move(m, p) ==
  run' = [run EXCEPT ![m] = [@ EXCEPT !.phase = p, !.reply = "none"]]
End(m) == run' = [run EXCEPT ![m] = Resting]

\* The machines that take up room: a row, or an enrollment under way, unless
\* the machine is being forgotten
Admitted ==
  {m \in Machines : \/ op[m].kind = "enroll"
                    \/ row[m].digest # 0 /\ op[m].kind # "forget"}
Space(m) == m \in Admitted \/ Cardinality(Admitted) < MaxMachines

\* #cancelHeartbeat: the heartbeat goes on, but is no longer the current one
Cancel(m) == beat' = [beat EXCEPT ![m] = [@ EXCEPT !.live = FALSE]]

\* fleet.enroll, up to the claim.  Naming the machine refuses a second
\* operation before the code is spent; without the name that is found out
\* after the claim.
Enroll(m, named) ==
  /\ ~Busy
  /\ shown[m] > 0
  /\ named => op[m] = NoOp
  /\ Space(m)
  /\ run' = [run EXCEPT ![m] = [phase |-> "claim", token |-> shown[m],
                                reply |-> "none"]]
  /\ Send(m, "claim", shown[m])
  /\ UNCHANGED <<source, beat, target, bounds>>

\* The claim is answered: the operation is journalled before the credential is
\* stored, unless the machine has an operation already or room ran out
ClaimAnswered(m) ==
  /\ run[m].phase = "claim" /\ run[m].reply # "none"
  /\ IF run[m].reply = "ok"
       THEN /\ Cancel(m)
            /\ IF op[m] = NoOp /\ Space(m)
                 THEN /\ op' = [op EXCEPT ![m] = [kind |-> "enroll",
                                 digest |-> run[m].token, revoked |-> FALSE]]
                      /\ Move(m, "save")
                 ELSE End(m) /\ UNCHANGED op
       ELSE End(m) /\ UNCHANGED <<op, beat>>
  /\ UNCHANGED <<row, key, index, target, net, bounds>>

\* save: the key, then the index.  A failure is read back, never believed: it
\* may come before the key changed or after
Save(m) ==
  /\ run[m].phase = "save"
  /\ \/ /\ key' = [key EXCEPT ![m] = run[m].token]
        /\ index' = [index EXCEPT ![m] = TRUE]
        /\ UNCHANGED faults
     \/ /\ faults < MaxFaults /\ faults' = faults + 1
        /\ UNCHANGED index
        /\ \/ key' = [key EXCEPT ![m] = run[m].token]
           \/ UNCHANGED key
  /\ Move(m, "repair")
  /\ UNCHANGED <<row, op, beat, target, net, losses, crashes>>

\* The row of an enrollment given up is not shown as healthy: the confirmation
\* may have retired its key
Aborted(m) ==
  /\ row' = IF row[m].digest = 0 THEN row
            ELSE [row EXCEPT ![m] = [@ EXCEPT !.health = "pairing-required"]]
  /\ op' = [op EXCEPT ![m] = NoOp]

\* repairIndex: does the keychain hold the journalled key?  No: abort
\* Mutant: the index is not written
RepairedNothing(m) == index
RepairedIndex(m) == [index EXCEPT ![m] = TRUE]
Repair(m) ==
  /\ run[m].phase = "repair"
  /\ IF key[m] = op[m].digest
       THEN index' = RepairedIndex(m) /\ Move(m, "ask") /\ UNCHANGED <<row, op>>
       ELSE Aborted(m) /\ End(m) /\ UNCHANGED index
  /\ UNCHANGED <<key, beat, target, net, bounds>>

\* forMachine, then device.confirmClaim with the key that was read
Ask(m) ==
  /\ run[m].phase = "ask"
  /\ IF key[m] = op[m].digest
       THEN /\ run' = [run EXCEPT ![m] = [phase |-> "confirm",
                         token |-> op[m].digest, reply |-> "none"]]
            /\ Send(m, "confirm", op[m].digest)
       ELSE End(m) /\ UNCHANGED net
  /\ UNCHANGED <<source, beat, target, bounds>>

\* Only a refusal of the credential itself (MachinePairingRequiredError) ends
\* the operation; an accepted one is greeted with on the same socket
ConfirmAnswered(m) ==
  /\ run[m].phase = "confirm" /\ run[m].reply # "none"
  /\ IF run[m].reply = "ok"
       THEN Move(m, "greet") /\ Send(m, "greet", run[m].token)
       ELSE Move(m, "drop") /\ UNCHANGED net
  /\ UNCHANGED <<source, beat, target, bounds>>

GreetAnswered(m) ==
  /\ run[m].phase = "greet" /\ run[m].reply # "none"
  /\ Move(m, IF run[m].reply = "ok" THEN "reread" ELSE "drop")
  /\ UNCHANGED <<source, beat, target, net, bounds>>

\* completeEnrollment, if the keychain still holds the key; else the target is
\* asked to revoke it, and the operation stays for the next attempt
Publish(m) ==
  /\ run[m].phase = "reread"
  /\ IF key[m] = run[m].token
       THEN /\ row' = [row EXCEPT ![m] = [digest |-> op[m].digest,
                                          health |-> "ok"]]
            /\ op' = [op EXCEPT ![m] = NoOp]
            /\ UNCHANGED net
       ELSE Send(m, "revoke", run[m].token) /\ UNCHANGED <<row, op>>
  /\ End(m)
  /\ UNCHANGED <<key, index, beat, target, bounds>>

\* forgetIfMatching: the key, then the index; a failure leaves either
Forgotten(m, next) ==
  /\ key' = [key EXCEPT ![m] = 0]
  /\ \/ index' = [index EXCEPT ![m] = FALSE] /\ Move(m, next)
        /\ UNCHANGED faults
     \/ faults < MaxFaults /\ faults' = faults + 1
        /\ UNCHANGED index /\ End(m)

\* The refused credential is removed, then the enrollment given up
Drop(m) ==
  /\ run[m].phase = "drop"
  /\ IF key[m] \in {0, op[m].digest}
       THEN Forgotten(m, "abort")
       ELSE End(m) /\ UNCHANGED <<key, index, faults>>
  /\ UNCHANGED <<row, op, beat, target, net, losses, crashes>>

\* Mutant: the journal entry of a refused enrollment stays
AbortLater(m) ==
  /\ run[m].phase = "abort"
  /\ run' = [run EXCEPT ![m] = [@ EXCEPT !.phase = "drop"]]
  /\ UNCHANGED <<source, beat, target, net, bounds>>

Abort(m) ==
  /\ run[m].phase = "abort"
  /\ Aborted(m)
  /\ End(m)
  /\ UNCHANGED <<key, index, beat, target, net, bounds>>

----------------------------------------------------------------------------
\* fleet.forget: the key as it is read is the one the operation may delete
Forget(m) ==
  /\ ~Busy
  /\ op[m] = NoOp
  /\ row[m].digest # 0 \/ index[m]
  /\ op' = [op EXCEPT ![m] = [kind |-> "forget", digest |-> key[m],
                              revoked |-> FALSE]]
  /\ Cancel(m)
  /\ Move(m, "read")
  /\ UNCHANGED <<row, key, index, target, net, bounds>>

\* #settleForget: the target is asked to revoke the key while it is held and
\* the row still carries it
BeginForget(m) ==
  /\ run[m].phase = "read"
  /\ CASE key[m] \notin {0, op[m].digest} -> End(m) /\ UNCHANGED net
       [] /\ key[m] = op[m].digest /\ key[m] # 0
          /\ row[m].digest = key[m] /\ ~op[m].revoked ->
            /\ run' = [run EXCEPT ![m] = [phase |-> "revoke",
                         token |-> key[m], reply |-> "none"]]
            /\ Send(m, "revoke", key[m])
       [] OTHER -> Move(m, "forget") /\ UNCHANGED net
  /\ UNCHANGED <<source, beat, target, bounds>>

\* Only the target's own answer confirms the revocation
RevokeAnswered(m) ==
  /\ run[m].phase = "revoke" /\ run[m].reply # "none"
  /\ op' = [op EXCEPT ![m] = [@ EXCEPT !.revoked = (run[m].reply = "ok")]]
  /\ Move(m, "forget")
  /\ UNCHANGED <<row, key, index, beat, target, net, bounds>>

ForgetKey(m) ==
  /\ run[m].phase = "forget"
  /\ IF key[m] \in {0, op[m].digest}
       THEN Forgotten(m, "complete")
       ELSE End(m) /\ UNCHANGED <<key, index, faults>>
  /\ UNCHANGED <<row, op, beat, target, net, losses, crashes>>

\* completeForget: the row and the journal entry go in one transaction
CompleteForget(m) ==
  /\ run[m].phase = "complete"
  /\ row' = [row EXCEPT ![m] = NoRow]
  /\ op' = [op EXCEPT ![m] = NoOp]
  /\ End(m)
  /\ UNCHANGED <<key, index, beat, target, net, bounds>>

----------------------------------------------------------------------------
\* The answer does not come in time.  While the call may still be answered,
\* that is one of the bounded faults.  A forget goes on without the target.
TimeOut(m) ==
  /\ run[m].phase \in Waiting /\ run[m].reply = "none"
  /\ IF Call(m, run[m].phase, run[m].token) \in net[m]
       THEN faults < MaxFaults /\ faults' = faults + 1
       ELSE UNCHANGED faults
  /\ IF run[m].phase = "revoke" THEN Move(m, "forget") ELSE End(m)
  /\ UNCHANGED <<source, beat, target, net, losses, crashes>>

\* The deadline is over, or the keychain fails without a change, between two
\* steps: the task ends and the journal keeps the operation
GiveUp(m) ==
  /\ run[m].phase \notin Waiting \union {"idle", "save"}
  /\ faults < MaxFaults /\ faults' = faults + 1
  /\ End(m)
  /\ UNCHANGED <<source, beat, target, net, losses, crashes>>

\* Every tick takes up all the journalled operations side by side
Reconcile ==
  /\ ~Busy
  /\ \E m \in Machines : op[m] # NoOp
  /\ run' = [m \in Machines |->
              CASE op[m].kind = "enroll" -> [Resting EXCEPT !.phase = "repair"]
                [] op[m].kind = "forget" -> [Resting EXCEPT !.phase = "read"]
                [] OTHER                 -> Resting]
  /\ UNCHANGED <<source, beat, target, net, bounds>>

----------------------------------------------------------------------------
(* Heartbeats: at most one current one per machine, none while the machine  *)
(* has an operation.                                                        *)

BeginBeat(m) ==
  /\ row[m].digest # 0 /\ op[m] = NoOp
  /\ beat[m] = NoBeat
  /\ beat' = [beat EXCEPT ![m] = [phase |-> "read", digest |-> row[m].digest,
                                  live |-> TRUE, reply |-> "none"]]
  /\ UNCHANGED <<source, run, target, net, bounds>>

\* Mutant: any heartbeat may write
WritableAlways(m) == TRUE

\* refreshAuthenticated and recordFailure write the row only for the current
\* heartbeat, of the credential the row still carries, with no operation
Writable(m) ==
  beat[m].live /\ row[m].digest = beat[m].digest /\ op[m] = NoOp

Noted(m, h) ==
  /\ row' = IF Writable(m)
              THEN [row EXCEPT ![m] = [digest |-> beat[m].digest,
                                       health |-> h]]
              ELSE row
  /\ beat' = [beat EXCEPT ![m] = NoBeat]

\* Each step reads the keychain, or the answer, and either goes on or notes
\* what the machine's health is
Beat(m) ==
  /\ CASE beat[m].phase = "read" ->
            IF key[m] = beat[m].digest
              THEN /\ beat' = [beat EXCEPT ![m] = [@ EXCEPT !.phase = "wait"]]
                   /\ Send(m, "beat", beat[m].digest)
                   /\ UNCHANGED row
              ELSE Noted(m, "pairing-required") /\ UNCHANGED net
       [] beat[m].phase = "wait" /\ beat[m].reply = "ok" ->
            /\ beat' = [beat EXCEPT ![m] = [@ EXCEPT !.phase = "reread"]]
            /\ UNCHANGED <<row, net>>
       [] beat[m].phase = "wait" /\ beat[m].reply = "refused" ->
            Noted(m, "pairing-required") /\ UNCHANGED net
       [] beat[m].phase = "reread" ->
            /\ Noted(m, IF key[m] = beat[m].digest
                          THEN "ok" ELSE "pairing-required")
            /\ UNCHANGED net
       [] OTHER -> FALSE
  /\ UNCHANGED <<op, key, index, run, target, bounds>>

\* The target does not answer, or the keychain does not
BeatFails(m) ==
  /\ beat[m].phase # "idle"
  /\ Noted(m, "failing")
  /\ UNCHANGED <<op, key, index, run, target, net, bounds>>

----------------------------------------------------------------------------
\* Somebody else removes the key from the keychain
LoseKey(m) ==
  /\ losses < MaxLosses /\ key[m] # 0
  /\ key' = [key EXCEPT ![m] = 0]
  /\ losses' = losses + 1
  /\ UNCHANGED <<row, op, index, run, beat, target, net, faults, crashes>>

\* The source daemon stops; its calls may still be on their way
Crash ==
  /\ crashes < MaxCrashes
  /\ crashes' = crashes + 1
  /\ run' = [m \in Machines |-> Resting]
  /\ beat' = [m \in Machines |-> NoBeat]
  /\ UNCHANGED <<source, target, net, faults, losses>>

Step(m) ==
  \/ ClaimAnswered(m) \/ Save(m) \/ Repair(m) \/ Ask(m) \/ ConfirmAnswered(m)
  \/ GreetAnswered(m) \/ Publish(m) \/ Drop(m) \/ Abort(m)
  \/ BeginForget(m) \/ RevokeAnswered(m) \/ ForgetKey(m) \/ CompleteForget(m)
  \/ TimeOut(m)

Next ==
  \/ \E m \in Machines :
       \/ IssueCode(m) \/ CodeEnds(m) \/ ClaimExpires(m) \/ Withdraw(m)
       \/ \E c \in net[m] : Serve(m, c) \/ Lose(m, c)
       \/ \E named \in BOOLEAN : Enroll(m, named)
       \/ Step(m) \/ GiveUp(m) \/ Forget(m)
       \/ BeginBeat(m) \/ Beat(m) \/ BeatFails(m)
       \/ LoseKey(m)
  \/ Reconcile
  \/ Crash

Spec == Init /\ [][Next]_vars

\* A task goes on, the target answers what reaches it, and the timer brings the
\* next reconciliation.  A tick that finds a lifecycle call at work does
\* nothing, so the timer is strongly fair: calls that fail at once, one after
\* another, do not meet every one of its ticks.
FairSpec ==
  /\ Spec
  /\ SF_vars(Reconcile)
  /\ \A m \in Machines :
       /\ WF_vars(Step(m))
       /\ WF_vars(\E c \in net[m] : Serve(m, c))

----------------------------------------------------------------------------
(* Properties.                                                              *)

TypeOK ==
  /\ row \in [Machines -> [digest : Tokens \union {0}, health : Healths]]
  /\ op \in [Machines -> [kind : {"none", "enroll", "forget"},
                          digest : Tokens \union {0}, revoked : BOOLEAN]]
  /\ key \in [Machines -> Tokens \union {0}]
  /\ index \in [Machines -> BOOLEAN]
  /\ run \in [Machines -> [phase : Phases, token : Tokens \union {0},
                           reply : Replies]]
  /\ beat \in [Machines -> [phase : BeatPhases, digest : Tokens \union {0},
                            live : BOOLEAN, reply : Replies]]
  /\ code \in [Machines -> Tokens \union {0}]
  /\ shown \in [Machines -> Tokens \union {0}]
  /\ dev \in [Machines -> [Tokens -> {"none", "pending", "gone", "active",
                                      "revoked", "withdrawn"}]]
  /\ net \in [Machines -> SUBSET Calls]
  /\ faults \in 0..MaxFaults
  /\ losses \in 0..MaxLosses
  /\ crashes \in 0..MaxCrashes
  \* and never more machines than maximumFleetMachines
  /\ Cardinality(Admitted) <= MaxMachines

Was(m, t) == dev[m][t] \in {"active", "revoked", "withdrawn"}

\* confirmClaim replaces the old authority in one transaction: whatever is
\* retried, late or given up, the source never has two working credentials at
\* one target.
OneAuthority ==
  \A m \in Machines :
    Cardinality({t \in Tokens : dev[m][t] = "active"}) <= 1

\* A row is published only for a credential its target made active, never for
\* one that was merely claimed and stored.
PublishedIsConfirmed ==
  \A m \in Machines : row[m].digest # 0 => Was(m, row[m].digest)

\* "An unfinished re-pair must not revoke working authority"
\* (device-registry.ts): a confirmed key the keychain still holds keeps working
\* until the machine is being forgotten, or the target's owner withdraws it.
HeldKeyWorks ==
  \A m \in Machines :
    /\ key[m] # 0 /\ Was(m, key[m]) /\ dev[m][key[m]] # "withdrawn"
    /\ op[m].kind # "forget"
    => dev[m][key[m]] = "active"

\* A machine shown as healthy, with nothing pending, is one whose credential
\* the source itself did not retire: an enrollment that was confirmed at the
\* target and then given up must not leave the old row healthy.
HealthyWorks ==
  \A m \in Machines :
    /\ row[m].digest # 0 /\ row[m].health = "ok" /\ op[m] = NoOp
    => dev[m][row[m].digest] \in {"active", "withdrawn"}

\* Once nothing is pending for a machine, a key left in the keychain is listed
\* in its index, so that the fleet shows it and it can be forgotten.
NoHiddenKey ==
  \A m \in Machines : op[m] = NoOp /\ key[m] # 0 => index[m]

\* A forget says the remote revocation is confirmed only when the target no
\* longer accepts the key.
ConfirmedIsRevoked ==
  \A m \in Machines :
    op[m].kind = "forget" /\ op[m].revoked
      => dev[m][op[m].digest] \in {"revoked", "withdrawn"}

\* "A late response cannot resurrect a forgotten/replaced enrollment"
\* (fleet-registry.ts): the credential of a row changes only when a journalled
\* operation of that machine ends, and then as the operation says.
NeverResurrected ==
  [][\A m \in Machines :
       row'[m].digest # row[m].digest =>
         /\ op[m] # NoOp /\ op'[m] = NoOp
         /\ row'[m].digest = IF op[m].kind = "enroll" THEN op[m].digest
                             ELSE 0]_vars

\* A journalled operation is worked off: the machine does not stay pending once
\* calls get through and the keychain works.
Settles == \A m \in Machines : op[m] # NoOp ~> op[m] = NoOp

\* Source and target agree on one working credential.
OneWorkingKey == OneAuthority /\ HeldKeyWorks

\* What the registry, the keychain and its index record of a machine is well
\* formed and true.
FleetIsTrue ==
  TypeOK /\ PublishedIsConfirmed /\ HealthyWorks /\ NoHiddenKey /\ ConfirmedIsRevoked
=============================================================================
