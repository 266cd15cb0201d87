------------------------- MODULE ApprovalDecision -------------------------
(* Approval requests of one session: a provider asks, Domovoi answers by     *)
(* policy or by a standing rule or puts up a card, a person decides the card *)
(* (approval.resolve), an emergency stop denies what it finds, and a report  *)
(* that a request was answered outside Domovoi arrives at any moment.        *)
(*                                                                           *)
(* The session's resource queue runs one handler at a time (`run`, with      *)
(* `queue` behind it); an emergency stop and the provider's reports do not   *)
(* wait for it.  A handler is split where it awaits: settlement, checkpoint, *)
(* save.  Every save goes through one serialised tail, and a save that       *)
(* reports failure may or may not have reached the disk.  A decision that is *)
(* committed to memory is passed to the provider without a further await,    *)
(* so both are one step.                                                     *)
(*                                                                           *)
(* Abstracted: the text of cards and commands (a file target is a version    *)
(* number, a rule matches every request), working plans, the audit log,      *)
(* archived and frozen sessions (they refuse every decision).                *)
EXTENDS Integers, Sequences, FiniteSets, SequencesExt

CONSTANTS
  Requests,          \* approval requests the provider makes, each one once
  Turnless,          \* those that name no turn, so they need no active one
  MaxStops,          \* bound: emergency stops
  MaxFaults,         \* bound: failed saves, checkpoints and provider calls,
                     \* changes of a target on disk and crashes, together
  MaxDecisions,      \* bound: approval.resolve calls
  FailureThreshold   \* persistenceFailureThreshold

ASSUME ConstantsAssumption ==
  /\ IsFiniteSet(Requests) /\ Turnless \subseteq Requests
  /\ {MaxStops, MaxFaults, MaxDecisions} \subseteq Nat
  /\ FailureThreshold \in Nat \ {0}

VARIABLES
  provider,  \* the provider's side of each request
  told,      \* the answer the provider took, and from whom
  stamp,     \* the stop generation when the request arrived
  target,    \* the version of the request's target on disk
  card,      \* the versions a request's card has shown, one per revision
  mem,       \* the live snapshot: cards shown, receipts, rules, rule uses
  disk,      \* the saved snapshot
  mark,      \* #approvalsAnsweredElsewhere
  noted,     \* requests whose outside answer is in the thread
  turn,      \* the session's active turn
  blocked,   \* the thread is in #emergencyBlockedThreads
  fence,     \* the service handoff fence
  fenced,    \* #fencedApprovalRequests
  queue,     \* the session's resource queue, the running handler excepted
  run,       \* the running handler
  tail,      \* the serialised saves
  image,     \* what the running save writes
  stop,      \* the running emergency stop
  gen,       \* #emergencyStopGeneration
  later,     \* reports an emergency stop cancelled, to queue behind it
  failures,  \* #persistenceFailures
  faults, swaps, crashes, decisions  \* spent of the bounds

providerVars == <<provider, told, target, turn>>
countVars == <<swaps, decisions, crashes>>
vars == <<provider, told, stamp, target, card, mem, disk, mark, noted, turn,
          blocked, fence, fenced, queue, run, tail, image, stop, gen, later,
          failures, faults, swaps, decisions, crashes>>

Verdicts == {"deny", "allow-once", "always-project"}
Allows == {"allow-once", "always-project"}

Images == [shown : SUBSET Requests,
           receipt : [Requests -> Verdicts \cup {"none", "stop"}],
           rule : [Requests -> {"none", "pending", "active"}],
           uses : [Requests -> Nat]]
NoImage == [none |-> TRUE]

Request(r) == [kind |-> "request", req |-> r]
Report(r, had) == [kind |-> "report", req |-> r, had |-> had]
Resolve(r, d, k) == [kind |-> "resolve", req |-> r, verdict |-> d, rev |-> k]
Idle == [kind |-> "none"]
Jobs == [kind : {"request"}, req : Requests]
        \cup [kind : {"report"}, req : Requests, had : BOOLEAN]
        \cup [kind : {"resolve"}, req : Requests, verdict : Verdicts, rev : Nat]

(* A running decision: the generation read when it began, whether the stop   *)
(* aborted it, and the target's version settlement read.                     *)
Handlers ==
  {Idle}
  \cup [kind : {"request"}, req : Requests, step : {"settling", "using", "flush"},
        by : Requests]
  \cup [kind : {"report"}, step : {"flush"}]
  \cup [kind : {"resolve"}, req : Requests, verdict : Verdicts, rev : Nat,
        step : {"settling", "rewriting", "checkpoint", "deciding", "staging",
                "promoting", "undoing"},
        gen : Nat, aborted : BOOLEAN, read : Nat]

Writes == [kind : {"persist", "decide", "stage", "promote"}, for : SUBSET {"lane", "stop"}]

TypeOK ==
  /\ provider \in [Requests -> {"unasked", "waiting", "answered", "elsewhere", "dropped"}]
  /\ told \in [Requests -> {"none", "denied", "person", "policy", "rule"}]
  /\ stamp \in [Requests -> [gen : Nat, during : BOOLEAN]]
  /\ target \in [Requests -> Nat]
  /\ card \in [Requests -> Seq(Nat)]
  /\ mem \in Images /\ disk \in Images
  /\ mark \in [Requests -> {"none", "queued", "recorded"}]
  /\ noted \subseteq Requests
  /\ {turn, blocked, fence} \subseteq BOOLEAN
  /\ fenced \in Seq(Requests)
  /\ queue \in Seq(Jobs)
  /\ run \in Handlers
  /\ tail \in Seq(Writes)
  /\ image \in Images \cup {NoImage}
  /\ stop \in {"none", "interrupting", "saving"}
  /\ gen \in 0..MaxStops
  /\ later \in Seq(Jobs)
  /\ failures \in 0..FailureThreshold
  /\ {faults, swaps, crashes} \subseteq 0..MaxFaults
  /\ decisions \in 0..MaxDecisions

Empty == [shown |-> {}, receipt |-> [r \in Requests |-> "none"],
          rule |-> [r \in Requests |-> "none"], uses |-> [r \in Requests |-> 0]]

Init ==
  /\ provider = [r \in Requests |-> "unasked"]
  /\ told = [r \in Requests |-> "none"]
  /\ stamp = [r \in Requests |-> [gen |-> 0, during |-> FALSE]]
  /\ target = [r \in Requests |-> 0]
  /\ card = [r \in Requests |-> <<>>]
  /\ mem = Empty /\ disk = Empty
  /\ mark = [r \in Requests |-> "none"]
  /\ noted = {}
  /\ turn = TRUE /\ blocked = FALSE /\ fence = FALSE
  /\ fenced = <<>> /\ queue = <<>> /\ run = Idle
  /\ tail = <<>> /\ image = NoImage
  /\ stop = "none" /\ gen = 0 /\ later = <<>>
  /\ failures = 0 /\ faults = 0 /\ swaps = 0 /\ decisions = 0 /\ crashes = 0

---------------------------------------------------------------------------
CanFail == faults + swaps + crashes < MaxFaults

(* Saves *)

Unavailable == failures = FailureThreshold

(* #persistSnapshot: a save that has not started carries the change.         *)
Shared(t, first, who) ==
  LET waiting == {i \in first..Len(t) : t[i].kind = "persist"}
  IN IF waiting = {}
     THEN Append(t, [kind |-> "persist", for |-> who])
     ELSE LET i == CHOOSE k \in waiting : TRUE
          IN [t EXCEPT ![i].for = @ \cup who]
Persisted(who) == Shared(tail, IF image = NoImage THEN 1 ELSE 2, who)

Saving(t, kind) == Append(t, [kind |-> kind, for |-> {"lane"}])

(* The running save ends; one that fails may have failed after its write,    *)
(* and `faulty` is a fault of the provider call in the same run.             *)
SaveEnds(ok, faulty) ==
  /\ image # NoImage
  /\ image' = NoImage
  /\ faults' = faults + (IF ok THEN 0 ELSE 1) + (IF faulty THEN 1 ELSE 0)
  /\ faults' + swaps + crashes <= MaxFaults
  /\ IF ok
     THEN disk' = image /\ failures' = 0
     ELSE /\ disk' \in {disk, image}
          /\ failures' = IF Unavailable THEN failures ELSE failures + 1

---------------------------------------------------------------------------
(* Answers to the provider *)

(* An adapter takes an answer only to a request it is waiting on.            *)
Told(p, t, r, answer) ==
  IF p[r] = "waiting" THEN [t EXCEPT ![r] = answer] ELSE t
Answered(p, r) == IF p[r] = "waiting" THEN [p EXCEPT ![r] = "answered"] ELSE p

Answer(r, answer) ==
  /\ told' = Told(provider, told, r, answer)
  /\ provider' = Answered(provider, r)

StopOvertook(r) == stamp[r].during \/ stamp[r].gen # gen

(* #admitApprovalRequest: deny what a stop overtook, hold what meets the     *)
(* fence; both end the handler, with `rest` true of the other variables.     *)
Refused(r) ==
  /\ StopOvertook(r) \/ stop # "none"
  /\ Answer(r, "denied")
  /\ UNCHANGED fenced
Held(r) ==
  /\ ~StopOvertook(r) /\ stop = "none" /\ fence
  /\ fenced' = Append(fenced, r)
  /\ UNCHANGED <<provider, told>>
Admitted(r) == ~StopOvertook(r) /\ stop = "none" /\ ~fence

---------------------------------------------------------------------------
(* The provider asks *)

Ask(r) ==
  /\ provider[r] = "unasked"
  /\ turn \/ r \in Turnless
  /\ provider' = [provider EXCEPT ![r] = "waiting"]
  /\ stamp' = [stamp EXCEPT ![r] = [gen |-> gen, during |-> stop # "none"]]
  /\ queue' = Append(queue, Request(r))
  /\ UNCHANGED <<told, target, card, mem, disk, mark, noted, turn, blocked, fence,
                 fenced, run, tail, image, stop, gen, later, failures, faults, countVars>>

(* Only this session's handlers change these.                                *)
quiet == <<target, noted, turn, blocked, fence, stop, gen, later, disk, image,
           failures, faults, countVars, stamp>>

BeginRequest ==
  /\ run = Idle /\ queue # <<>> /\ Head(queue).kind = "request"
  /\ queue' = Tail(queue)
  /\ LET r == Head(queue).req IN
     \/ /\ blocked \/ (~turn /\ r \notin Turnless)
        /\ UNCHANGED <<provider, told, fenced, run>>
     \/ /\ ~blocked /\ (turn \/ r \in Turnless)
        /\ \/ Refused(r) /\ UNCHANGED run
           \/ Held(r) /\ UNCHANGED run
           \/ /\ Admitted(r)
              /\ run' = [kind |-> "request", req |-> r, step |-> "settling", by |-> r]
              /\ UNCHANGED <<provider, told, fenced>>
  /\ UNCHANGED <<card, mem, mark, tail, quiet>>

ActiveRules == {q \in Requests : mem.rule[q] = "active"}

(* The settled request: allowed by policy, or of normal risk and so open to  *)
(* a standing rule, or a gate that only a card may answer.                   *)
SettleRequest ==
  /\ run.kind = "request" /\ run.step = "settling"
  /\ LET r == run.req
         flushed == [run EXCEPT !.step = "flush"] IN
     \/ Refused(r) /\ run' = Idle /\ UNCHANGED <<card, mem, tail>>
     \/ Held(r) /\ run' = Idle /\ UNCHANGED <<card, mem, tail>>
     \/ /\ Admitted(r) /\ Unavailable
        /\ Answer(r, "denied")
        /\ run' = Idle
        /\ UNCHANGED <<card, mem, tail, fenced>>
     \/ /\ Admitted(r) /\ ~Unavailable
        /\ Answer(r, "policy")
        /\ run' = flushed /\ tail' = Persisted({"lane"})
        /\ UNCHANGED <<card, mem, fenced>>
     \/ /\ Admitted(r) /\ ~Unavailable
        /\ \E q \in ActiveRules :
             /\ mem' = [mem EXCEPT !.uses[q] = @ + 1]
             /\ run' = [run EXCEPT !.step = "using", !.by = q]
        /\ tail' = Persisted({"lane"})
        /\ UNCHANGED <<card, provider, told, fenced>>
     \/ /\ Admitted(r) /\ ~Unavailable
        /\ card' = [card EXCEPT ![r] = <<target[r]>>]
        /\ mem' = [mem EXCEPT !.shown = @ \cup {r}]
        /\ run' = flushed /\ tail' = Persisted({"lane"})
        /\ UNCHANGED <<provider, told, fenced>>
  /\ UNCHANGED <<mark, queue, quiet>>

---------------------------------------------------------------------------
(* The person decides *)

(* A person answers a revision of the card that was shown.                   *)
Decide(r, d, k) ==
  /\ decisions < MaxDecisions
  /\ k \in DOMAIN card[r]
  /\ decisions' = decisions + 1
  /\ queue' = Append(queue, Resolve(r, d, k))
  /\ UNCHANGED <<provider, told, stamp, target, card, mem, disk, mark, noted, turn,
                 blocked, fence, fenced, run, tail, image, stop, gen, later,
                 failures, faults, swaps, crashes>>

BeginResolve ==
  /\ run = Idle /\ queue # <<>> /\ Head(queue).kind = "resolve"
  /\ queue' = Tail(queue)
  /\ LET j == Head(queue)
         refused == \/ Unavailable \/ j.req \notin mem.shown \/ mark[j.req] # "none"
                    \/ j.verdict \in Allows /\ j.rev # Len(card[j.req])
         began(step) == [kind |-> "resolve", req |-> j.req, verdict |-> j.verdict,
                         rev |-> j.rev, step |-> step, gen |-> gen,
                         aborted |-> FALSE, read |-> 0]
     IN \/ refused /\ UNCHANGED <<run, tail>>
        \/ /\ ~refused /\ j.verdict \in Allows
           /\ run' = began("settling") /\ UNCHANGED tail
        \/ /\ ~refused /\ j.verdict = "deny"
           /\ run' = began("deciding") /\ tail' = Saving(tail, "decide")
  /\ UNCHANGED <<provider, told, card, mem, mark, fenced, quiet>>

TargetUnchanged(r) == target[r] = Last(card[r])

(* #settleBeforeAllow, and the checks after it.                              *)
SettleAllow ==
  /\ run.kind = "resolve" /\ run.step = "settling"
  /\ LET r == run.req
         same == TargetUnchanged(r)
         gone == r \notin mem.shown IN
     \/ /\ gone \/ (same /\ (run.aborted \/ stop # "none"))
        /\ run' = Idle /\ UNCHANGED <<card, tail>>
     \/ /\ ~gone /\ ~same
        /\ card' = [card EXCEPT ![r] = Append(@, target[r])]
        /\ run' = [run EXCEPT !.step = "rewriting"]
        /\ tail' = Persisted({"lane"})
     \/ /\ ~gone /\ same /\ ~run.aborted /\ stop = "none"
        /\ run' = [run EXCEPT !.step = "checkpoint", !.read = target[r]]
        /\ UNCHANGED <<card, tail>>
  /\ UNCHANGED <<provider, told, mem, mark, fenced, queue, quiet>>

(* The checkpoint an allow takes first; without it the gate stays.           *)
TakeCheckpoint ==
  /\ run.kind = "resolve" /\ run.step = "checkpoint"
  /\ \/ /\ CanFail /\ faults' = faults + 1
        /\ run' = Idle /\ UNCHANGED tail
     \/ /\ run.req \notin mem.shown
        /\ run' = Idle /\ UNCHANGED <<tail, faults>>
     \/ /\ run.req \in mem.shown
        /\ run' = [run EXCEPT !.step = "deciding"]
        /\ tail' = Saving(tail, "decide") /\ UNCHANGED faults
  /\ UNCHANGED <<provider, told, stamp, card, mem, disk, mark, fenced, queue, target,
                 noted, turn, blocked, fence, stop, gen, later, image, failures, countVars>>

\* Mutant: a card answered outside Domovoi still counts as pending.
StillPendingUnmarked == run.req \in mem.shown
StillPending == mark[run.req] = "none" /\ run.req \in mem.shown
\* Mutant: a stop does not cancel a decision already committed.
CancelledNever == FALSE
Cancelled == run.aborted \/ stop # "none" \/ gen # run.gen

(* What a decision writes into a snapshot, and what undo and withdraw take   *)
(* out of one.                                                               *)
Decided(m) == [m EXCEPT !.shown = @ \ {run.req}, !.receipt[run.req] = run.verdict]
\* Mutant: the rule is saved active from the start.
WithRuleAtOnce(m, status) == [m EXCEPT !.rule[run.req] = "active"]
WithRule(m, status) == [m EXCEPT !.rule[run.req] = status]
Withdrawn(m) == [m EXCEPT !.receipt[run.req] = "none", !.rule[run.req] = "none"]
Undone(m) == [Withdrawn(m) EXCEPT !.shown = @ \cup {run.req}]

TakeBack(m, t) ==
  /\ mem' = m
  /\ run' = [run EXCEPT !.step = "undoing"]
  /\ tail' = Shared(t, 1, {"lane"})

(* resolveApproval and what follows from its outcome, in the run that        *)
(* committed `m`; `t` is what is left of the saves.                          *)
Deliver(m, t, faulty) ==
  LET r == run.req IN
  \/ /\ ~faulty /\ provider[r] = "waiting"
     /\ told' = [told EXCEPT ![r] = IF run.verdict = "deny" THEN "denied" ELSE "person"]
     /\ provider' = [provider EXCEPT ![r] = "answered"]
     /\ mem' = m
     /\ IF run.verdict = "always-project"
        THEN run' = [run EXCEPT !.step = "promoting"] /\ tail' = Saving(t, "promote")
        ELSE run' = Idle /\ tail' = t
  \/ /\ ~faulty /\ provider[r] # "waiting" /\ run.verdict \in Allows
     /\ TakeBack(Withdrawn(m), t)
     /\ UNCHANGED <<told, provider>>
  \/ /\ ~faulty /\ provider[r] # "waiting" /\ run.verdict = "deny"
     /\ mem' = m /\ run' = Idle /\ tail' = t
     /\ UNCHANGED <<told, provider>>
  \/ /\ faulty /\ provider[r] = "waiting"
     /\ TakeBack(Undone(m), t)
     /\ UNCHANGED <<told, provider>>

---------------------------------------------------------------------------
(* The serialised saves *)

rest == <<stamp, target, card, mark, noted, turn, blocked, fence, fenced, queue,
          gen, later, countVars>>

BeginSave ==
  /\ tail # <<>> /\ image = NoImage
  /\ LET kind == Head(tail).kind IN
     \/ kind = "persist" /\ image' = mem /\ UNCHANGED <<tail, run>>
     \/ kind = "decide" /\ StillPending /\ image' = Decided(mem) /\ UNCHANGED <<tail, run>>
     \/ /\ kind = "decide" /\ ~StillPending
        /\ tail' = Tail(tail) /\ run' = Idle /\ UNCHANGED image
     \/ kind = "stage" /\ image' = WithRule(mem, "pending") /\ UNCHANGED <<tail, run>>
     \/ kind = "promote" /\ image' = WithRule(mem, "active") /\ UNCHANGED <<tail, run>>
  /\ UNCHANGED <<provider, told, mem, disk, stop, failures, faults, rest>>

Unused(m) == [m EXCEPT !.uses[run.by] = @ - 1]

(* A whole-snapshot save ends: the stop that waited for it ends too, and the *)
(* handler that waited goes on.                                              *)
EndPersist(ok) ==
  /\ tail # <<>> /\ Head(tail).kind = "persist"
  /\ SaveEnds(ok, FALSE)
  /\ LET w == Head(tail)
         lane == "lane" \in w.for
         using == lane /\ run.kind = "request" /\ run.step = "using" IN
     /\ IF "stop" \in w.for
        THEN stop' = "none" /\ queue' = queue \o later /\ later' = <<>>
        ELSE UNCHANGED <<stop, queue, later>>
     /\ \/ /\ ~using
           /\ run' = IF lane THEN Idle ELSE run
           /\ tail' = Tail(tail)
           /\ UNCHANGED <<provider, told, mem, fenced>>
        \/ /\ using /\ ok /\ Admitted(run.req)
           /\ Answer(run.req, "rule")
           /\ run' = [run EXCEPT !.step = "flush"]
           /\ tail' = Shared(Tail(tail), 1, {"lane"})
           /\ UNCHANGED <<mem, fenced>>
        \/ /\ using /\ ok /\ (Refused(run.req) \/ Held(run.req))
           /\ mem' = Unused(mem) /\ run' = Idle
           /\ tail' = Shared(Tail(tail), 1, {})
        \/ /\ using /\ ~ok
           /\ \/ Admitted(run.req) /\ Answer(run.req, "denied") /\ UNCHANGED fenced
              \/ Refused(run.req) \/ Held(run.req)
           /\ mem' = Unused(mem) /\ run' = Idle /\ tail' = Tail(tail)
  /\ UNCHANGED <<stamp, target, card, mark, noted, turn, blocked, fence, gen, countVars>>

(* The decision's own save: cancelled after the write, refused, or           *)
(* committed.                                                                *)
EndDecide(ok, faulty) ==
  /\ tail # <<>> /\ Head(tail).kind = "decide"
  /\ SaveEnds(ok, faulty)
  /\ \/ /\ ~ok /\ ~faulty
        /\ run' = Idle /\ tail' = Tail(tail) /\ UNCHANGED <<provider, told, mem>>
     \/ /\ ok /\ ~faulty /\ ~StillPending
        /\ TakeBack(mem, Tail(tail)) /\ UNCHANGED <<provider, told>>
     \/ /\ ok /\ StillPending /\ run.verdict # "always-project"
        /\ Deliver(Decided(mem), Tail(tail), faulty)
     \/ /\ ok /\ ~faulty /\ StillPending /\ run.verdict = "always-project" /\ Cancelled
        /\ TakeBack(Withdrawn(Decided(mem)), Tail(tail)) /\ UNCHANGED <<provider, told>>
     \/ /\ ok /\ ~faulty /\ StillPending /\ run.verdict = "always-project" /\ ~Cancelled
        /\ mem' = Decided(mem)
        /\ run' = [run EXCEPT !.step = "staging"]
        /\ tail' = Saving(Tail(tail), "stage")
        /\ UNCHANGED <<provider, told>>
  /\ UNCHANGED <<stop, rest>>

(* An Always saves its rule pending delivery before the agent is told.       *)
EndStage(ok, faulty) ==
  /\ tail # <<>> /\ Head(tail).kind = "stage"
  /\ SaveEnds(ok, faulty)
  /\ LET staged == IF ok THEN WithRule(mem, "pending") ELSE mem IN
     \/ /\ Cancelled /\ ~faulty
        /\ TakeBack(Withdrawn(staged), Tail(tail)) /\ UNCHANGED <<provider, told>>
     \/ /\ ~Cancelled /\ ~ok /\ ~faulty
        /\ TakeBack(Undone(staged), Tail(tail)) /\ UNCHANGED <<provider, told>>
     \/ /\ ~Cancelled /\ ok
        /\ Deliver(staged, Tail(tail), faulty)
  /\ UNCHANGED <<stop, rest>>

(* The rule is made active once the agent has the decision.                  *)
EndPromote(ok) ==
  /\ tail # <<>> /\ Head(tail).kind = "promote"
  /\ SaveEnds(ok, FALSE)
  /\ mem' = IF ok THEN WithRule(mem, "active") ELSE mem
  /\ run' = Idle /\ tail' = Tail(tail)
  /\ UNCHANGED <<provider, told, stop, rest>>

---------------------------------------------------------------------------
(* Answered outside Domovoi *)

(* The report marks the card when it arrives; the adapter has unloaded the   *)
(* thread, so its other requests are dropped.                                *)
AnsweredElsewhere(r) ==
  /\ provider[r] = "waiting"
  /\ provider' = [q \in Requests |-> CASE q = r -> "elsewhere"
                                     [] q # r /\ provider[q] = "waiting" -> "dropped"
                                     [] OTHER -> provider[q]]
  /\ mark' = IF r \in mem.shown THEN [mark EXCEPT ![r] = "queued"] ELSE mark
  /\ queue' = Append(queue, Report(r, r \in mem.shown))
  /\ UNCHANGED <<told, stamp, target, card, mem, disk, noted, turn, blocked, fence,
                 fenced, run, tail, image, stop, gen, later, failures, faults, countVars>>

(* #removeApprovals forgets the marks of removed cards that are recorded.    *)
Forget(k, removed) ==
  [q \in Requests |-> IF q \in removed /\ k[q] = "recorded" THEN "none" ELSE k[q]]

HandleReport ==
  /\ run = Idle /\ queue # <<>> /\ Head(queue).kind = "report"
  /\ LET j == Head(queue)
         live == ~blocked
         recorded == IF j.had THEN [mark EXCEPT ![j.req] = "recorded"] ELSE mark
         removed == IF live THEN mem.shown ELSE {}
         kept == Forget(recorded, removed) IN
     /\ mem' = [mem EXCEPT !.shown = @ \ removed]
     /\ mark' = IF j.had /\ j.req \notin mem'.shown
                THEN [kept EXCEPT ![j.req] = "none"] ELSE kept
     /\ turn' = (turn /\ ~live)
     /\ noted' = noted \cup {j.req}
  /\ queue' = Tail(queue)
  /\ run' = [kind |-> "report", step |-> "flush"]
  /\ tail' = Persisted({"lane"})
  /\ UNCHANGED <<provider, told, stamp, target, card, disk, blocked, fence, fenced,
                 image, stop, gen, later, failures, faults, countVars>>

---------------------------------------------------------------------------
(* Emergency stop *)

(* The elements of a queue that are in a set, in their order.                *)
Chosen(q, S) ==
  LET upTo[i \in 0..Len(q)] ==
        IF i = 0 THEN <<>> ELSE IF q[i] \in S THEN Append(upTo[i - 1], q[i]) ELSE upTo[i - 1]
  IN upTo[Len(q)]

Requeued(q) == Chosen(q, {j \in Range(q) : j.kind = "report"})

(* #runEmergencyStop up to its first await: block the thread of a running    *)
(* turn, cancel every queued handler and abort the running one, deny every   *)
(* card not answered elsewhere, remove every card, deny what the fence held. *)
BeginStop ==
  /\ stop = "none" /\ gen < MaxStops
  /\ gen' = gen + 1
  /\ stop' = "interrupting"
  /\ blocked' = (blocked \/ turn)
  /\ queue' = <<>>
  /\ later' = later \o Requeued(queue)
  /\ run' = IF run.kind = "resolve" THEN [run EXCEPT !.aborted = TRUE] ELSE run
  /\ LET denied == {r \in mem.shown : mark[r] = "none"}
         hit == (denied \cup Range(fenced)) \cap {r \in Requests : provider[r] = "waiting"} IN
     /\ told' = [r \in Requests |-> IF r \in hit THEN "denied" ELSE told[r]]
     /\ provider' = [r \in Requests |-> IF r \in hit THEN "answered" ELSE provider[r]]
     /\ mem' = [mem EXCEPT !.shown = {},
                           !.receipt = [r \in Requests |-> IF r \in denied THEN "stop" ELSE @[r]]]
  /\ mark' = Forget(mark, mem.shown)
  /\ fenced' = <<>>
  /\ UNCHANGED <<stamp, target, card, disk, noted, turn, fence, tail, image, failures,
                 faults, countVars>>

(* The turn's interrupt, or the thread's reset when it fails: a thread that  *)
(* ends drops what it was waiting on; one that cannot be stopped keeps it.   *)
Interrupt ==
  /\ stop = "interrupting"
  /\ \/ /\ turn
        /\ provider' = [r \in Requests |-> IF provider[r] = "waiting" THEN "dropped" ELSE provider[r]]
        /\ UNCHANGED faults
     \/ turn /\ CanFail /\ faults' = faults + 1 /\ UNCHANGED provider
     \/ ~turn /\ UNCHANGED <<provider, faults>>
  /\ turn' = FALSE
  /\ stop' = "saving"
  /\ tail' = Persisted({"stop"})
  /\ UNCHANGED <<told, stamp, target, card, mem, disk, mark, noted, blocked, fence,
                 fenced, queue, run, image, gen, later, failures, countVars>>

---------------------------------------------------------------------------
(* The handoff fence, turns, the disk under the cards, crashes *)

still == <<told, stamp, card, disk, mark, noted, tail, image, stop, gen, later,
           failures, faults, crashes, decisions>>

TakeFence ==
  /\ ~fence /\ stop = "none" /\ ~turn /\ mem.shown = {}
  /\ fence' = TRUE
  /\ UNCHANGED <<provider, target, mem, turn, blocked, fenced, queue, run, swaps, still>>

(* The fence lifts; what it held is handled as if it had just arrived.       *)
LiftFence ==
  /\ fence
  /\ fence' = FALSE
  /\ fenced' = <<>>
  /\ LET denied == {r \in Range(fenced) : stop # "none" \/ StopOvertook(r)}
         handled == Chosen(fenced, Requests \ denied) IN
     /\ queue' = queue \o [i \in DOMAIN handled |-> Request(handled[i])]
     /\ provider' = [r \in Requests |-> IF r \in denied /\ provider[r] = "waiting"
                                        THEN "answered" ELSE provider[r]]
     /\ told' = [r \in Requests |-> IF r \in denied /\ provider[r] = "waiting"
                                    THEN "denied" ELSE told[r]]
  /\ UNCHANGED <<target, mem, turn, blocked, run, swaps, stamp, card, disk, mark, noted,
                 tail, image, stop, gen, later, failures, faults, crashes, decisions>>

(* session.send and the end of a turn, both handled on the session's queue.  *)
StartTurn ==
  /\ ~turn /\ ~fence /\ stop = "none" /\ run = Idle /\ queue = <<>> /\ ~Unavailable
  /\ turn' = TRUE /\ blocked' = FALSE
  /\ UNCHANGED <<provider, target, mem, fence, fenced, queue, run, swaps, still>>

EndTurn ==
  /\ turn /\ run = Idle /\ queue = <<>>
  /\ turn' = FALSE
  /\ UNCHANGED <<provider, target, mem, blocked, fence, fenced, queue, run, swaps, still>>

(* The provider process exits: its requests go, and once the queue is idle   *)
(* the session's cards are removed.                                          *)
Disconnect ==
  /\ run = Idle /\ queue = <<>>
  /\ \E r \in Requests : provider[r] = "waiting"
  /\ provider' = [r \in Requests |-> IF provider[r] = "waiting" THEN "dropped" ELSE provider[r]]
  /\ mem' = [mem EXCEPT !.shown = {}]
  /\ mark' = Forget(mark, mem.shown)
  /\ turn' = FALSE
  /\ UNCHANGED <<told, stamp, card, disk, noted, tail, image, stop, gen, later, failures,
                 faults, crashes, decisions, target, blocked, fence, fenced, queue, run, swaps>>

Swap(r) ==
  /\ CanFail
  /\ swaps' = swaps + 1
  /\ target' = [target EXCEPT ![r] = @ + 1]
  /\ UNCHANGED <<provider, mem, turn, blocked, fence, fenced, queue, run, still>>

(* The daemon dies, with the running save on disk or not, and starts again:  *)
(* stored cards expire, rules pending delivery are dropped, providers are    *)
(* gone.                                                                     *)
Crash ==
  /\ CanFail
  /\ crashes' = crashes + 1
  /\ \E d \in {disk} \cup ({image} \ {NoImage}) :
       mem' = [d EXCEPT !.shown = {},
                        !.rule = [r \in Requests |-> IF @[r] = "pending" THEN "none" ELSE @[r]]]
  /\ disk' = mem'
  /\ provider' = [r \in Requests |-> IF provider[r] = "waiting" THEN "dropped" ELSE provider[r]]
  /\ mark' = [r \in Requests |-> "none"]
  /\ turn' = FALSE /\ blocked' = FALSE /\ fence' = FALSE
  /\ fenced' = <<>> /\ queue' = <<>> /\ run' = Idle /\ tail' = <<>> /\ image' = NoImage
  /\ stop' = "none" /\ later' = <<>> /\ failures' = 0
  /\ UNCHANGED <<told, stamp, target, card, noted, gen, faults, swaps, decisions>>

---------------------------------------------------------------------------
Steps ==
  \/ BeginRequest \/ SettleRequest \/ BeginResolve \/ SettleAllow \/ TakeCheckpoint
  \/ BeginSave \/ HandleReport \/ Interrupt
  \/ \E ok \in BOOLEAN : EndPersist(ok) \/ EndPromote(ok)
  \/ \E ok \in BOOLEAN, faulty \in BOOLEAN : EndDecide(ok, faulty) \/ EndStage(ok, faulty)

Next ==
  \/ Steps
  \/ \E r \in Requests : Ask(r) \/ AnsweredElsewhere(r) \/ Swap(r)
  \/ \E r \in Requests, d \in Verdicts, k \in 1..(MaxFaults + 1) : Decide(r, d, k)
  \/ BeginStop \/ TakeFence \/ LiftFence \/ StartTurn \/ EndTurn \/ Disconnect \/ Crash

Spec == Init /\ [][Next]_vars

---------------------------------------------------------------------------
(* Properties *)

AllowedBy == {"person", "policy", "rule"}

(* An allow reaches the provider only when no emergency stop has begun since *)
(* the request arrived and none is running: whatever a handler was awaiting  *)
(* when the stop began, it denies or withdraws instead (#admitApprovalRequest *)
(* and the checks of approval.resolve).                                      *)
NoAllowPastStop ==
  [][\A r \in Requests : told'[r] \in AllowedBy /\ told[r] = "none"
        => stop = "none" /\ stamp[r] = [gen |-> gen, during |-> FALSE]]_vars

(* A person's allow is given for what the card they answered showed: the     *)
(* version settlement read is the version of the revision they were shown,   *)
(* and no later revision exists.                                             *)
AllowedAsShown ==
  [][\A r \in Requests : told'[r] = "person" /\ told[r] = "none"
        => run.rev = Len(card[r]) /\ card[r][run.rev] = run.read]_vars

(* A decision is on disk before the agent hears it, and no later save,       *)
(* failed save or crash loses its receipt.                                   *)
AllowIsSaved ==
  \A r \in Requests : told[r] = "person" => disk.receipt[r] \in Allows

(* A standing rule is in force, in memory or in any state a restart can      *)
(* load, only if the agent has the decision that made it.                    *)
RuleAfterDelivery ==
  \A r \in Requests : "active" \in {mem.rule[r], disk.rule[r]} => told[r] = "person"

(* Once the session is at rest its thread tells the truth: a receipt of an   *)
(* allow in this daemon's memory means that the agent was told, unless the   *)
(* daemon died between the save and the delivery.                            *)
ReceiptIsTrue ==
  crashes = 0 /\ run = Idle =>
    \A r \in Requests : mem.receipt[r] \in Allows => told[r] = "person"

(* A request whose outside answer found its card never gets a receipt: the   *)
(* stop records it and a decision under way is refused (ruling Q271).        *)
NoReceiptElsewhere ==
  \A r \in Requests : mark[r] # "none" => mem.receipt[r] = "none"

(* While the handoff fence is held, no request that arrives is allowed and   *)
(* none becomes a card.                                                      *)
FenceHolds ==
  [][fence => \A r \in Requests :
       /\ told'[r] \in {"policy", "rule"} => told[r] = told'[r]
       /\ r \in mem'.shown \ mem.shown => run.kind = "resolve"]_vars

(* A rule does not count a request that Domovoi denied after all, because a   *)
(* stop came or the save failed while the use was being saved.               *)
UsesCounted ==
  crashes = 0 /\ ~(run.kind = "request" /\ run.step = "using") =>
    \A q \in Requests :
      mem.uses[q] <= Cardinality({r \in Requests \ {q} : told[r] # "denied"})

(* The report that a request was answered outside Domovoi is not lost to the *)
(* emergency stops that cancel its handler: until it is in the thread it is  *)
(* queued, or waits for the running stop to end; only a crash loses it.      *)
ReportKept ==
  \A r \in Requests :
    provider[r] = "elsewhere" /\ r \notin noted /\ crashes = 0 =>
      \E j \in Range(queue) \cup (IF stop = "none" THEN {} ELSE Range(later)) :
        j.kind = "report" /\ j.req = r

(* What reaches the agent as an allow was admitted: past no emergency stop,  *)
(* not under the handoff fence, and for what the person was shown.           *)
AllowGuarded == NoAllowPastStop /\ FenceHolds /\ AllowedAsShown

(* The order of saves and deliveries (approval.resolve): a decision is on    *)
(* disk before the agent hears it, and its rule is in force only after.      *)
SavedFirst == AllowIsSaved /\ RuleAfterDelivery

(* The daemon's records are well formed and true: receipts, the answers      *)
(* given elsewhere and their reports, and the uses of rules.                 *)
RecordsAreTrue ==
  TypeOK /\ ReceiptIsTrue /\ NoReceiptElsewhere /\ UsesCounted /\ ReportKept
===========================================================================
