------------------------ MODULE ResourceMutationQueue ------------------------
(***************************************************************************)
(* The daemon's mutation queue (apps/daemon/src/resource-mutation-queue.ts).*)
(* Requests that name a resource are serialised per resource; requests that *)
(* name none are exclusive: they wait for everything before them and hold   *)
(* back everything after them.  Emergency stop cancels the whole queue and  *)
(* shutdown drains it.                                                      *)
(*                                                                          *)
(* A task is the number of the enqueue call that made it.  A promise is     *)
(* modelled by the task whose `execution' it is: the promise has settled    *)
(* when the task's phase is "settled".  The dependencies a call captures    *)
(* (Promise.all) are captured once, as deps[t]; the continuation runs at    *)
(* some later turn of the event loop, so anything may happen in between.    *)
(***************************************************************************)
EXTENDS Naturals, FiniteSets

CONSTANTS
    Resources,   \* the resource names that requests mention
    Exclusive,   \* what an exclusive request names: no resource
    MaxTasks,    \* bound: the number of enqueue calls
    MaxCancels   \* bound: the number of cancelAll calls

\* Assumed of the constants (SessionLane).
QueueAssumption ==
    /\ Exclusive \notin Resources
    /\ MaxTasks \in Nat
    /\ MaxCancels \in Nat

NoTask == 0

Tasks == 1 .. MaxTasks

Names == Resources \cup {Exclusive}

VARIABLES
    next,        \* the next task number
    barrier,     \* #barrier: the last exclusive execution, or NoTask
    resources,   \* #resources: the last execution of each resource, or NoTask
    generation,  \* #generation
    entries,     \* #entries
    phase,       \* per task: unborn, queued, running, settled
    name,        \* per task: the resource it was enqueued for, or Exclusive
    deps,        \* per task: the executions its Promise.all waits for
    born,        \* per task: entry.generation
    aborted,     \* per task: entry.controller.signal.aborted
    notified,    \* per task: entry.notified
    calls,       \* per task: how often onCancelled was called
    result,      \* per task: none, completed, failed, cancelled
    drains       \* the drain() of shutdown: what it awaits, and its state

taskVars == <<phase, name, deps, born, aborted, notified, calls, result>>
vars == <<next, barrier, resources, generation, entries, taskVars, drains>>

-----------------------------------------------------------------------------

NoDrain == [state |-> "idle", awaits |-> {}, upTo |-> 0]

Init ==
    /\ next = 1
    /\ barrier = NoTask
    /\ resources = [r \in Resources |-> NoTask]
    /\ generation = 0
    /\ entries = {}
    /\ phase = [t \in Tasks |-> "unborn"]
    /\ name = [t \in Tasks |-> Exclusive]
    /\ deps = [t \in Tasks |-> {}]
    /\ born = [t \in Tasks |-> 0]
    /\ aborted = [t \in Tasks |-> FALSE]
    /\ notified = [t \in Tasks |-> FALSE]
    /\ calls = [t \in Tasks |-> 0]
    /\ result = [t \in Tasks |-> "none"]
    /\ drains = NoDrain

\* The promises a drain or an exclusive request waits for: the barrier and the
\* last execution of every resource still in the map.
Outstanding == ({barrier} \cup {resources[r] : r \in Resources}) \ {NoTask}

\* Mutant: an exclusive request waits for the previous exclusive one only.
MutantDependenciesBarrierOnly(n) ==
    IF n = Exclusive THEN {barrier} \ {NoTask}
    ELSE {barrier, resources[n]} \ {NoTask}

\* What the next request for n waits for.
Dependencies(n) ==
    IF n = Exclusive THEN Outstanding
    ELSE {barrier, resources[n]} \ {NoTask}

\* #entry, and the parts enqueue and enqueueExclusive share.
Entry(n) ==
    /\ next \in Tasks
    /\ next' = next + 1
    /\ phase' = [phase EXCEPT ![next] = "queued"]
    /\ name' = [name EXCEPT ![next] = n]
    /\ deps' = [deps EXCEPT ![next] = Dependencies(n)]
    /\ born' = [born EXCEPT ![next] = generation]
    /\ entries' = entries \cup {next}
    /\ UNCHANGED <<generation, aborted, notified, calls, result, drains>>

\* enqueue(resource, task)
Enqueue(r) ==
    /\ Entry(r)
    /\ resources' = [resources EXCEPT ![r] = next]
    /\ UNCHANGED barrier

\* enqueueExclusive(task)
EnqueueExclusive ==
    /\ Entry(Exclusive)
    /\ barrier' = next
    /\ UNCHANGED resources

\* #notifyCancelled for every task of T: at most one call of onCancelled each.
NotifyCancelled(T) ==
    /\ notified' = [t \in Tasks |-> notified[t] \/ t \in T]
    /\ calls' = [t \in Tasks |->
                    IF t \in T /\ ~notified[t] THEN calls[t] + 1 ELSE calls[t]]

\* cancelAll(reason): a new generation; every entry is aborted, and the entries
\* that have not started are told so at once and forgotten.  Their executions
\* stay in the chain of promises.
CancelAll ==
    /\ generation < MaxCancels
    /\ generation' = generation + 1
    /\ aborted' = [t \in Tasks |-> aborted[t] \/ t \in entries]
    /\ NotifyCancelled({t \in entries : phase[t] = "queued"})
    /\ entries' = {t \in entries : phase[t] = "running"}
    /\ UNCHANGED <<next, barrier, resources, phase, name, deps, born, result, drains>>

\* Mutant: without the catch of enqueue, a failed task rejects what waits for it.
MutantReadyUnlessFailed(t) ==
    /\ phase[t] = "queued"
    /\ \A d \in deps[t] : phase[d] = "settled" /\ result[d] # "failed"

Ready(t) ==
    /\ phase[t] = "queued"
    /\ \A d \in deps[t] : phase[d] = "settled"

\* The test at the head of #run.
Stale(t) == born[t] # generation \/ aborted[t]

\* #run, when the entry outlived a cancelAll: the task is skipped.
Skip(t) ==
    /\ Ready(t)
    /\ Stale(t)
    /\ NotifyCancelled({t})
    /\ phase' = [phase EXCEPT ![t] = "settled"]
    /\ result' = [result EXCEPT ![t] = "cancelled"]
    /\ entries' = entries \ {t}
    /\ UNCHANGED <<next, barrier, resources, generation, name, deps, born, aborted, drains>>

\* #run up to the await of the task.
Start(t) ==
    /\ Ready(t)
    /\ ~Stale(t)
    /\ phase' = [phase EXCEPT ![t] = "running"]
    /\ UNCHANGED <<next, barrier, resources, generation, entries, name, deps, born,
                   aborted, notified, calls, result, drains>>

\* The task returned, aborted or not.
Complete(t) ==
    /\ phase[t] = "running"
    /\ phase' = [phase EXCEPT ![t] = "settled"]
    /\ result' = [result EXCEPT ![t] = "completed"]
    /\ entries' = entries \ {t}
    /\ UNCHANGED <<next, barrier, resources, generation, name, deps, born,
                   aborted, notified, calls, drains>>

\* Mutant: the catch of #run swallows the error of an aborted task.
MutantThrowUnnoticed(t) ==
    /\ phase[t] = "running"
    /\ phase' = [phase EXCEPT ![t] = "settled"]
    /\ result' = [result EXCEPT ![t] = IF aborted[t] THEN "cancelled" ELSE "failed"]
    /\ entries' = entries \ {t}
    /\ UNCHANGED <<next, barrier, resources, generation, name, deps, born, aborted,
                   notified, calls, drains>>

\* The task threw: a cancellation when its signal was aborted, otherwise an
\* error for onError.  Either way its execution is fulfilled.
Throw(t) ==
    /\ phase[t] = "running"
    /\ phase' = [phase EXCEPT ![t] = "settled"]
    /\ result' = [result EXCEPT ![t] = IF aborted[t] THEN "cancelled" ELSE "failed"]
    /\ NotifyCancelled(IF aborted[t] THEN {t} ELSE {})
    /\ entries' = entries \ {t}
    /\ UNCHANGED <<next, barrier, resources, generation, name, deps, born, aborted, drains>>

\* execution.finally of enqueue: the map forgets the execution unless a later
\* request for the resource replaced it.
Forget(r) ==
    /\ resources[r] # NoTask
    /\ phase[resources[r]] = "settled"
    /\ resources' = [resources EXCEPT ![r] = NoTask]
    /\ UNCHANGED <<next, barrier, generation, entries, taskVars, drains>>

\* Mutant: drain awaits the barrier alone.
MutantDrainBarrierOnly ==
    /\ drains.state = "idle"
    /\ drains' = [state |-> "waiting", awaits |-> {barrier} \ {NoTask}, upTo |-> next]
    /\ UNCHANGED <<next, barrier, resources, generation, entries, taskVars>>

\* drain(): shutdown waits for what is outstanding now.
Drain ==
    /\ drains.state = "idle"
    /\ drains' = [state |-> "waiting", awaits |-> Outstanding, upTo |-> next]
    /\ UNCHANGED <<next, barrier, resources, generation, entries, taskVars>>

Drained ==
    /\ drains.state = "waiting"
    /\ \A t \in drains.awaits : phase[t] = "settled"
    /\ drains' = [drains EXCEPT !.state = "done"]
    /\ UNCHANGED <<next, barrier, resources, generation, entries, taskVars>>

RunTask(t) == Skip(t) \/ Start(t)

EndTask(t) == Complete(t) \/ Throw(t)

Next ==
    \/ \E r \in Resources : Enqueue(r)
    \/ EnqueueExclusive
    \/ CancelAll
    \/ \E t \in Tasks : Skip(t)
    \/ \E t \in Tasks : Start(t)
    \/ \E t \in Tasks : Complete(t)
    \/ \E t \in Tasks : Throw(t)
    \/ \E r \in Resources : Forget(r)
    \/ Drain
    \/ Drained

Spec == Init /\ [][Next]_vars

\* The event loop runs every continuation whose promises have settled, and a
\* handler ends: every await of a handler is bounded by a deadline or a signal.
Fairness ==
    /\ \A t \in Tasks : WF_vars(RunTask(t)) /\ WF_vars(EndTask(t))
    /\ WF_vars(Drained)

FairSpec == Spec /\ Fairness

-----------------------------------------------------------------------------

Conflict(t, u) ==
    \/ name[t] = Exclusive
    \/ name[u] = Exclusive
    \/ name[t] = name[u]

\* The types of the queue's fields and of the history of its tasks.
TypeOK ==
    /\ next \in 1 .. MaxTasks + 1
    /\ barrier \in Tasks \cup {NoTask}
    /\ resources \in [Resources -> Tasks \cup {NoTask}]
    /\ generation \in 0 .. MaxCancels
    /\ entries \subseteq Tasks
    /\ phase \in [Tasks -> {"unborn", "queued", "running", "settled"}]
    /\ name \in [Tasks -> Names]
    /\ deps \in [Tasks -> SUBSET Tasks]
    /\ born \in [Tasks -> 0 .. MaxCancels]
    /\ aborted \in [Tasks -> BOOLEAN]
    /\ notified \in [Tasks -> BOOLEAN]
    /\ calls \in [Tasks -> 0 .. 1]
    /\ result \in [Tasks -> {"none", "completed", "failed", "cancelled"}]
    /\ drains \in [state : {"idle", "waiting", "done"},
                   awaits : SUBSET Tasks,
                   upTo : 0 .. MaxTasks + 1]

\* Requests take effect in the order they arrived: a task that has started finds
\* every earlier task on its resource, and every earlier exclusive task, ended,
\* although it waits for two promises only, and cancelled requests keep their
\* place in the chain.
InOrder ==
    \A t, u \in Tasks :
        /\ t < u
        /\ phase[t] # "unborn"
        /\ phase[u] \in {"running", "settled"}
        /\ Conflict(t, u)
        => phase[t] = "settled"

\* Two handlers for the same resource, or an exclusive handler and any other,
\* are never in progress together (enqueue, enqueueExclusive).
MutualExclusion ==
    \A t, u \in Tasks :
        /\ t # u
        /\ phase[t] = "running"
        /\ phase[u] = "running"
        => ~Conflict(t, u)

\* A requester that was told its request was cancelled (onCancelled, which sends
\* the error response) never has the request carried out after all: its task is
\* not running and does not complete.
CancelledNeverRuns ==
    \A t \in Tasks :
        calls[t] > 0 => phase[t] # "running" /\ result[t] \notin {"completed", "failed"}

\* Every request is accounted for once: when its execution settles, either the
\* handler came to its own end or onCancelled was called, exactly once,
\* whichever of cancelAll, the head of #run and the catch of #run met it first.
AccountedOnce ==
    \A t \in Tasks :
        /\ calls[t] <= 1
        /\ phase[t] = "settled" => (calls[t] = 1) # (result[t] \in {"completed", "failed"})

\* Emergency stop reaches every handler in progress: cancelAll aborts the signals
\* of #entries, and a running task is always one of them.
StopReachesRunning ==
    \A t \in Tasks : phase[t] = "running" => t \in entries

\* When the drain of shutdown resolves, every request made before it has ended:
\* awaiting the barrier and the last execution of each resource is enough.
DrainIsComplete ==
    drains.state = "done" =>
        \A t \in Tasks : t < drains.upTo => phase[t] = "settled"

\* No request waits for ever: the promises a task waits for never form a cycle,
\* and cancellation never breaks the chain.
EveryTaskSettles ==
    \A t \in Tasks : (phase[t] = "queued") ~> (phase[t] = "settled")

\* The drain of shutdown resolves, however many requests arrive behind it.
DrainResolves == (drains.state = "waiting") ~> (drains.state = "done")

\* Every request and every drain comes to its end.
EverythingSettles == EveryTaskSettles /\ DrainResolves
=============================================================================
