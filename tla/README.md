# Domovoi: a TLA+ verification project

Domovoi runs coding agents on a person's own machines. A daemon on each machine
keeps the sessions (an agent's conversation and its git worktree), serves
clients over JSON-RPC, gates the agents' commands with approvals, and can move a
session from one machine to another. This directory models the parts of the
daemon in which order, failure and concurrency decide whether it is correct,
checks the models with TLC and proves the main safety properties with TLAPS.

Paths below are relative to `apps/daemon/src` unless they start with `apps/` or
`packages/`.

## The system

### Components

| Component | State it keeps | Operations | Hard behaviour | Correct when |
|---|---|---|---|---|
| Mutation queue (`resource-mutation-queue.ts`) | last promise of every resource, the barrier, the entries, a generation | enqueue, enqueueExclusive, cancelAll, drain | chains of promises captured at one moment and run turns later; map entries deleted behind newer ones; cancellation between queueing and running | conflicting requests take effect in order and one at a time, every request is answered once, shutdown waits for all |
| Session transfer, source (`session-transfer-source.ts`, handlers in `server.ts`) | the session's transfer lifecycle in memory and in the store, the outgoing package | session.transfer, reconciliation, transferRecoverSource, transferResolveConflict | lost answers, failed writes and restarts between freeze, staging, delivery and completion; a person's claim while the target is silent | one machine owns the session; nothing stays frozen for ever |
| Session transfer, target (`session-transfer-target.ts`, `transfer-ownership.ts`) | the journal entry, the ownership row, the imported session | transfer.preflight, prepare, member, commit, status, abort | a commit is several durable steps; retried requests meet any of them | a session is imported once and reported as owned exactly when it is |
| Ownership conflicts (`transfer-conflicts.ts`) | proof rows beside the snapshot | record, restore, release | one of the two writes fails before a restart | a conflict is not forgotten |
| Transfer journal (`transfer-transactions.ts`) | per transfer: status file, chunks, members | prepare, acceptMember, status, abort, markRecovering, markCommitted, markFailed, remove, pruneExpired | a crash between any two file writes; chunks sent again | what may be committed is complete, a retry adopts what arrived |
| Update activation (`update-activation.ts`, `update-state.ts`) | activation journal, active revision, the fence | activate, recover | timeout, loss of the fence or death while an effect is under way | the recorded decision is what is active, no launch is repeated, an unfinished activation is undone before another begins |
| Machine connections (`machine-socket.ts`, `machine-dial.ts`) | sockets, deadlines | open, request, close | a deadline passes while the peer works | a caller always gets an answer or an error |
| Daemon server (`server.ts`) | the workspace snapshot, connections, timers | the RPC methods, provider events | state read before an await and used after it | a handler's save is based on the state it checked |
| Approvals (`approval.resolve` in `server.ts`, `approval-settlement.ts`, `permission-policy.ts`) | cards with a revision, rules and their uses, marks of answers given elsewhere | request, resolve, settle, withdraw, answered elsewhere | an emergency stop, a handoff or the provider's own answer lands during settlement, checkpoint or save | a stopped, rewritten or answered card is never allowed, and the records say what the provider was told |
| Emergency stop (`emergency-stop-intents.ts`, `server.ts`) | intents, recovery stages | stop, recovery in rounds | death after the first effect and before the save | a stop that began is finished by the next start |
| Session creation (`session-creation-intents.ts`) | one intent per pending session | begin, complete, beginCleanup, discardAfterCleanup, pending | a deadline that leaves git running; death between intent, worktree and session | a worktree whose removal began is never taken for usable, and none is left that nothing refers to |
| Turn delivery and queued messages (`session.send`, `session.pause` and provider events in `server.ts`, the queued row in `store.ts`) | the active turn and thread, the queued message and its state | send, steer, queue, cancel, pause, restart a thread, turn completed, disconnected | timeouts, refusals, exits, stops and crashes around a call the provider may have begun | no message runs twice, none is lost, no turn runs unseen |
| Working plan (`working-plan.ts`) | a plan's steps and revision | propose, update, reconcile | concurrent edits of client and agent | an edit is based on the revision it names |
| Pairing and fleet (`pairing-*.ts`, `device-registry.ts`, `fleet-*.ts`, `machine-credentials.ts`) | codes, devices, enrolments, keys and their index | issue, claim, confirm, enrol, forget, reconcile, heartbeat | three stores on two machines written one after another; late heartbeats | source and target agree on one working credential |
| Relay (`relay-*.ts`) | a generation of credentials | provision, rotate, admit | rotation during a connection | only the newest generation is admitted |
| Outbound messages (`rpc-outbound.ts`, `rpc-writer.ts`, `terminal-replay.ts`) | a bounded queue per client, a window of terminal output | send, drop, replay | a slow client reaches the limit | no gap goes unnoticed |
| Workspace service and store (`workspace.ts`, `store.ts`, `workspace-restore-lease.ts`) | worktrees, checkpoints, claims, the SQLite snapshot | save, checkpoint, restore | git children that outlive the daemon that started them | one operation on a worktree at a time, a snapshot is all or nothing |
| Profile lease, local daemon, shutdown (`profile-lease.ts`, `local-daemon.ts`, `shutdown.ts`) | the profile's lock | acquire, release, stop | two daemons start at once | one daemon per profile |
| Provider adapters (`claude.ts`, `codex.ts`, `opencode.ts`, `acp*.ts`) | a turn in progress | start, interrupt, resume | events of an interrupted turn arrive late | events belong to the turn they name |
| Redaction, configuration, skills, usage, audit, service supervision | files and text | | | |
| Clients (`apps/cli`, `apps/desktop`, `apps/mobile`, `apps/web`, `packages/ui`) | a copy of the snapshot | render, reconnect | deltas after a reconnection | the copy converges |

`PROJECT.json` lists every component with what is modelled of it, and the
hazards with the line at which each bites.

### Interaction

Every RPC that changes something goes through the mutation queue, under the
resource it names (`session:<id>`, `transfer:<id>`, ...) or exclusively. A
handler reads the snapshot, awaits providers, git or another machine, saves to
SQLite and then replaces the snapshot in memory. A move of a session is a
conversation between two daemons: the source freezes the session, stages a
package, and drives prepare, member and commit calls at the target; when an
answer is lost it reconciles from a timer by asking for the status. Emergency
stop runs outside the queue: it aborts what runs there, cancels what waits, denies
open approvals, interrupts turns and holds queued messages. An update is
activated by a coordinator that holds a fence against all this work.

## Modules

| Module | Models |
|---|---|
| `ResourceMutationQueue` | the mutation queue |
| `SessionTransfer` | a session moved between machines: both daemons, their stores and the calls between them |
| `SessionOwnership` | abstract: what moving a session promises |
| `TransferJournal` | one entry of the target's journal, the send that fills it, and the reconciliation of a send that broke off |
| `UpdateActivation` | activation of an update and its recovery |
| `ApprovalDecision` | the approvals of a session against stops, handoffs, outside answers and crashes |
| `EmergencyStop` | the durable record of a stop and its recovery |
| `SessionCreation` | creation and fork of sessions, their worktrees and their recovery |
| `WorktreeClaim` | the claim and lease of a worktree, over daemons and their git children |
| `TurnDelivery` | a message on its way to a provider turn, directly or through the queue |
| `FleetEnrollment` | pairing with, forgetting and polling the machines of a fleet |
| `SessionLane`, `WorktreeCreation` | `ResourceMutationQueue` and `SessionCreation` instantiated with names of their own, to be used beside another model |
| `MC...` and their `.cfg` | the instances TLC checks |
| `SessionTransferProofs`, `TransferJournalProofs`, `UpdateActivationProofs`, `EmergencyStopProofs`, `FleetEnrollmentProofs`, `TurnDeliveryProofs` | theorems about the module of that name, and their proofs |
| `ApprovalDecisionProofs` | the same, and at its end about `SessionLane` |
| `WorktreeClaimProofs` | the same, and at its end about `WorktreeCreation` |

Definitions introduced by a comment `Mutant:` are plausible mistakes in the definition that
follows them; replacing the definition by its mutant makes TLC report the
property `PROJECT.json` pairs with it.

### ResourceMutationQueue

A request is numbered by its enqueue call; a promise is the task whose execution
it is. `barrier`, `resources`, `generation` and `entries` are the fields of the
class, `deps[t]` the promises that `Promise.all` captured for task t, and `born`,
`aborted`, `notified` the fields of its entry. `Enqueue`, `EnqueueExclusive`,
`CancelAll` and `Drain` are the public methods; `Start`, `Skip`, `Complete` and
`Throw` are the turns of `#run`; `Forget` is the finally that removes a map
entry, a turn of its own because other requests can come before it.

### SessionTransfer

A machine has the session in memory (`mem`) and in its store (`disk`), its rows
of detected conflicts (`proofs`), the operation in the session's queue slot
(`op`, which also holds the one call that operation awaits) and whether a
reconciliation is scheduled (`armed`). A transfer has its manifest (`source`,
`target`, `fromGen`), the package at the source (`outgoing`) and, at the target,
the journal status, the ownership row and the commit in progress. `mem` and
`disk` differ exactly where the code can make them differ: when one of two
writes fails. `Preview` to `AbandonSend` are `session.transfer`;
`ServeStatus` to `FinishCommit` the target's handlers; `OnCommitted` to
`OnExisting` what the source does with an answer; `Recover...` the
reconciliation; `...Claim...` and `...Check...` a person's recovery of the
source and its later confirmation. `Lose` stands for a timeout, a broken
connection and an error response, `Restart` for a crash and the pruning of the
next start. `holder` is a history variable, changed by the target's ownership
transaction only.

The restore of the repository at the target, previews' content, coverage and
timestamps are left out: a commit's restore succeeds or fails.

`LateDelivery` says whether a request can arrive after its caller's connection
was terminated. With it, the retried commit of a reconciliation can be refused
while the first one is still on its way, so the source thaws and the target then
takes the session over, and `SingleOwner` fails. The daemon terminates the
socket before it reconciles, so the safety runs take `FALSE`; the run on
conflicts takes `TRUE`, since conflicts are how the code answers exactly this.

`SessionOwnership` says what all this is for: the session has one holder, only
the holder writes to it, except a machine a person declared owner without
confirmation, and the session changes hands only while nobody else writes
unconditionally. Its variables are read off `SessionTransfer` by
`Ownership == INSTANCE SessionOwnership WITH ...`.

### TransferJournal

What `SessionTransfer` treats as one member call, in detail. `status`, `chunks`
and `members` are the files of an entry; `step` is the handler in progress and
which of its durable writes is next; `sender` is the source and who of it calls (`by`):
`sendPreparedSessionTransfer` as `session.transfer` awaits it, once (`send`);
`#recoverSessionTransfer`, which asks for the status, repeats a commit, and aborts or
thaws when the package is gone (`recover`); and the send it resumes when the package
is here. This daemon closes that send's connection before its first answer (`cut`,
the action `Cut`; see *Finding*). `Resumes` also admits a send that is awaited
(`awaited`), as the connection of its test lets it run: it meets every state an earlier
one left, which the target must bear from any source, and it only adds behaviours.
`Prune` is the source's package expiring at a restart.
`Tear` is a chunk whose write was cut short: the file is there and is not the
chunk. `Crash` loses the handler and, as a start does, may prune the entry.
Calls of one transfer are served one at a time (the queue's `transfer:<id>`). The
lease between processes is not modelled, and an entry is removed in one step.

### UpdateActivation

A run is an async function that awaits one effect at a time. `Begin` is the check
before a call and the call; the effect then lands (`Write`, `Switch`, `Restore`,
`StartTarget`, `StartPrevious`) or throws (`Throws`), and the check after it is
`CheckFails` or the next step. `Expire` is the timeout: the caller is answered
and the run goes on to its next check. The fence has no implementation in the
repository; what it promises is its interface's comment: every effect enforces
the fence at the mutation, a switch compares and sets the revision, a restore
quiesces the attempted runtime, and an effect that settled does not land later.
Revisions are fresh (a random UUID in the code): the pair of a transaction and
the role of the switch. A transaction takes its fence's generation for its id.

### ApprovalDecision

The requests of one session. `provider` and `told` are the agent's side of a
request and the answer it took; `card` the revisions a card went through, `mem`
and `disk` the snapshot's cards, receipts, rules and uses; `run` the handler in
the session's lane and the await it is at, `queue` what waits behind it; `tail`
and `image` the serialised saves; `stop`, `gen` and `later` the emergency stop,
its generation and the reports it must requeue; `fence` and `fenced` the service
handoff. A handler is split at its awaits (settlement, checkpoint, save), so a stop,
an outside answer, a swapped file or a crash can fall in each. Between the commit
of a decision to memory and the call of the provider there is no await, so these
are one step. Requests still in the queue when a stop cancels it are dropped, not
denied: the provider's turn ends with the stop.

`AllowGuarded` groups what an allowance must not pass (a stop, the fence, a
changed target), `SavedFirst` the order of saves and deliveries, `RecordsAreTrue`
receipts, outside answers, reports and uses. A crash, a failed save, checkpoint or
provider call and a swapped file share the budget `MaxFaults`.

### EmergencyStop

`table`, `aside`, `listRows`, `listLines` and `listStops` are the tables of
`emergency-stop-intents.ts`; `stopping` the running stop (intent, effects, save,
clear), `rec` the recovery of a start: rounds of passes over the journal, each round
with a save of its own. The process may die between any two writes and a save that
reports failure may have landed. `Foreign` is another version of the daemon on the
same store: it adds rows that are unreadable, too large, or name a stop again.
`begun` remembers what each stop caught, for the properties only. Turns, terminals
and gates are gone after a restart and are not modelled here, nor is the note for a
session that a stop adds only because the reset of a thread it retained failed
(`server.ts:12910`): such a session is not in the intent.

### SessionCreation

A session has an intent in the journal, a worktree (`tree`), a git run on it
(`git`), the step of its handler (`op`), and its row in the live and the saved
snapshot. A handler answers on its deadline while git goes on; what git then makes
is removed. A save carries the copy taken when it started. Recovery puts a session off
while any process has its dead creator's pid, be it the new daemon's own or another's,
and also when that cannot be told (`process.kill(pid, 0)` failing otherwise than with
ESRCH): `Recover` takes any set of live pids, and `taken` keeps the creators it found
in it. For these `InterruptedIsShown` promises nothing before a restart that finds the
pid free. (Opening another project recovers again while the daemon runs; the model has
one project and leaves that out.) `raced` marks sessions published while a save is
running: `EvidenceKept` leaves them out, see *Disagreements* below.

### WorktreeClaim

Operations (`op`) of daemons, each with the copy of the record it keeps; git
commands (`cmd`), each with its child and the descendants nobody lists (`rest`);
the lease (gone with its process), the claim file and the recovery record. A launch
is counted and written before it happens, its pid after, its end after the child
closed. `Crash` kills a daemon and leaves its children. `LiveIsClaimed` is the
reason `Exclusive` holds: while anything of an operation can write, the claim is
that operation's and its record does not let anybody take it.

### TurnDelivery

One session: `row` and `disk` are its queued message in memory and in the store,
`snap` and `saved` the session in the live and the saved snapshot, `op` the job of
the session's lane (what `ResourceMutationQueue` proves gives one at a time),
`calls` the requests the provider has, `running` its turns, `inbox` the events
waiting for the lane, `link` the provider process and what the daemon believes of
it. A job is split at each await: composing, connecting, the provider call, the
undo of a cancelled call, quarantine, save. The provider may begin a call and
answer late, refuse it, or exit with it; the timer may end any call. A stop's
synchronous part (`BeginStop`) and its provider calls (`ActStop`) are two steps. The
other callers of the hold of a queued message (archive, closing a project, revoked
trust, transfer) make the same transition and are not separate actions. A save is
copied when it lands; a stopped thread begins nothing more, and providers end with
the daemon (external). A stop during a release can leave a message `held` although
the provider may have begun it; the row's states promise nothing else. Left out are
the quarantine after a resume that timed out, before there is a call to lose
(`server.ts:11076`), and a provider that refuses a call it had begun and goes on
running (`codex.ts:743` and `:803`, an answer that names another turn or none): here a
begun call that fails does so by its deadline or with its process.

`runs`, `queuedIn`, `strayed` and `spared` are observations for the properties.

### FleetEnrollment

At the source the row of a machine, its journalled operation, its key in the
keychain and the keychain's index, the task at work on it (`run`) and its heartbeat
(`beat`); at the target the code it shows and what became of each credential
(`dev`); between them the calls (`net`), which may be late or lost. `Enroll`, `Forget`
and `Reconcile` begin a task; its steps are the awaits of `fleet-enrollment.ts`.
`LoseKey` is a key removed by somebody else; a key replaced by somebody else is not
modelled. The daemon's own row counts toward the limit in the code and is not a
machine here. A heartbeat that fails while listing is `BeginBeat` and `BeatFails`.

## Runs

| Run | Instance | Shows |
|---|---|---|
| `queue` | 2 resources, 3 requests, 1 stop, 1 drain | order, one answer each, complete drain; every request and the drain settle |
| `transfer` | 2 machines, 2 moves, 3 faults | one holder; two writers only under a claim; records that agree; the protocol implements `SessionOwnership`; a committed move completes, a wrong claim stops |
| `transfer_late_delivery` | 2 machines, 2 moves, 4 faults, late requests | conflicts are not forgotten, an arrival overwrites nothing |
| `transfer_resume` | 2 machines, 1 move, 1 fault | a violation, see below |
| `journal` | 3 members of 2 chunks, 6 faults, resumed sends cut off or awaited | what may be committed is complete, retries adopt what arrived, an ended entry stays ended; every move ends, or is held in one state only: the package here, the target waiting for the rest |
| `update` | 2 coordinators, 2 runtimes, 3 runs, 1 fault | decisions match what is active, no repeated launch, no overwritten journal, every run lets go of the fence |
| `approval` | 2 requests (one without a turn), 2 decisions, 1 stop, 1 fault | no allowance past a stop, the fence or a changed target; saved before delivered; true records |
| `stop` | 2 sessions, 2 rows, 2 threads, 2 faults, 2 crashes | stops recorded once and before the daemon serves, cut-off threads reset, finished stops not replayed, the daemon serves |
| `creation` | 1 session, 2 forks, 2 pids, 2 pending intents, 2 faults, 2 crashes | evidence kept, records match worktrees, interrupted creations shown |
| `claim` | 2 daemons, 3 operations, 2 commands, 2 faults | nothing begins beside a child of an earlier operation; the lease returns |
| `turn` | 2 messages, 2 threads, 1 stop, 2 faults | no message twice, a true and complete queue, no unseen turn, the lane frees |
| `fleet` | 1 machine, 2 codes, 1 fault, 1 lost key, 1 crash | one working key, true records, no resurrection by a heartbeat, operations settle |

A property that groups others is a conjunction of named parts with a comment each;
a violated group is narrowed down by naming its parts in the cfg.

**Bounds.** Three requests over two resources let a request for a resource, an
exclusive one and a later request for the resource meet a stop and a drain (the
proofs cover every number). Two moves let a second one follow a first that was given
up, refused or claimed, beside what the first left behind; after a completed one the
old record stands at its source, which is no target any more. A
wrong claim needs three faults (a lost commit answer, a failed status, a failed
status for the claim), and a conflict whose writes fail needs four. With three
machines, so that the session can go on to a third, `transfer`'s safety properties
were checked with three faults (148 thousand states, under `SYMMETRY Symmetry`), and
`transfer_late_delivery` with four (2.2 million states, four minutes); the
configurations keep the smaller instances. A
project's folder that goes away is a fault too; that it comes back is free. Two
chunks distinguish the first, the last and a torn one; three members leave one
between the first and the last, and six faults let a torn chunk, a crash, a lost
answer, a failed write and a pruned package meet in one transfer and leave one for its
reconciliation. Three runs are an activation, its
recovery, and a recovery of the recovery or a second activation; the timeout is not
counted among the faults and may strike anywhere. Two requests let a card wait
while a rule made for the other one is pending; one stop and one fault can each
fall in every await. Two rows are a stop and a second one, or one by another
version, that recovery must keep apart, and two crashes cut off the stop and its
recovery. One session that cannot be asked for again and two forks that can fill
`maximumPendingSessionCreations`, here 2. Three operations are one that dies, one
that finds its claim and one after it. Two messages are one that runs and one that
waits behind it; two threads are one lost and its replacement. Two codes are a
pairing and a pairing anew; with one machine the room in the registry (a part of
`FleetIsTrue`'s types) is never short, and only the theorem covers it, for any number. Budgets called `MaxFaults` are joint where the module
says so.

**Symmetry** permutes transfers in `transfer_late_delivery` only, a safety run.

**Deadlock** is not checked: the request numbers, moves, runs, messages, codes and
faults of an instance are used up in the end, and a queue that drained, a move that
is over and a daemon with nothing to do may stop.

**Fairness.** Weak fairness of what the runtime guarantees: the event loop runs
every continuation whose promise settled, handlers finish (their awaits carry
deadlines: `agentTimeoutMs` in `TurnDelivery`), the reconciliation timer fires once
armed, the target serves what reached it, recovery goes on at a start and the
service manager starts a daemon that ended, git children end, and fence calls settle,
as the interface demands. One strong fairness: `FleetEnrollment.Reconcile` is
enabled only between the lifecycle calls of a person, so a tick that meets one is
skipped, and it is assumed that not every tick does. Nothing is assumed of people,
of faults, or of a project's folder coming back.

### Finding

`transfer_resume` checks what the test "resumes a staged package after both
daemons lost volatile transfer state" (`server-transfer-contract.test.ts:770`)
says. `#recoverSessionTransfer` resumes a staged package with
`return sendPreparedSessionTransfer(...)` inside a `try` whose `finally` closes
the connection (`server.ts:5607-5620`). The promise is not awaited there, so the
connection is closed before the first answer, the send ends `unknown`, and the
next reconciliation does the same again. The test's connection has a `close`
that does nothing. `SessionTransfer.RecoverResumes` models what the code does;
`TransferJournal` has the same (`Cut`), and its `EndsOrIsHeld` shows that this is the
only state in which a move is held for ever; `session.transfer` awaits its own send.

Two more things the models show are listed as hazards and not as findings, since
nothing in the repository promises otherwise: a send that fails before delivery
and whose thaw cannot be written leaves the session frozen until the daemon
restarts, and a restart of the previous runtime that was announced and never
made leaves every later update run quarantined (a test expects the latter).

### Disagreements

Five more places where what the code does is not what the repository says of it.
Each is a definition at the end of its module or among its properties that no run
lists; adding it as an `INVARIANT` to the named cfg makes TLC print the behaviour.

| Definition, cfg | What the code does | What is said |
|---|---|---|
| `ClearedWhenDurable`, `MCSessionCreation.cfg` | `#clearCommittedSessionCreations` reads the live snapshot after the asynchronous save of an older copy (`server.ts:13161-13167`), so the intent of a session published during the save is deleted before the session is saved; a crash in between leaves a worktree nothing refers to | "The snapshot is already durable." (`server.ts:13162`) |
| `ReleasedAtItsBoundary`, `MCTurnDelivery.cfg` with three messages and `MaxFaults = 0` | queueing is not refused during an emergency stop (`server.ts:10908`): a message queued after the stop held the queue and before it cleared the active turn waits with no turn, and goes out at the end of a later, unrelated one | "No provider turn is active, so no successful boundary can release this send." (`server.ts:10915`) |
| `RefusedNeverRan`, `MCTurnDelivery.cfg` | `providerRefusal` answers -32602 for every failure of `startTurn`, also of a turn that had begun (`server.ts:11046`, `codex.ts:919-923`) | "-32602, // invalid params, rejected before any work" (`packages/ui/src/turn-queue.ts:215`) |
| `StopAlwaysReaches`, `MCTurnDelivery.cfg` | a stop first writes the hold of every queued message, outside any `try` (`server.ts:12653`); when the write throws, the stop has stopped nothing | "A stop is never refused for want of it: it runs, and its result names the persistence failure" (`server.ts:12697`) |
| `ReconnectsNext`, `MCTurnDelivery.cfg` | `provider-disconnected` is a queued mutation (`server.ts:2362`) that a stop's `cancelAll` drops; the dead adapter stays marked as connected, and no later message reconnects it | "Codex disconnected. The next message will reconnect and resume this session." (`server.test.ts:3150`) |

## Proofs

All for every value of the constants, from the named assumptions of the modules
(`LaneAssumption`, `CreationAssumption`, `TransferAssumption`, `JournalAssumption`,
`ActivationAssumption`, `ConstantsAssumption`, `FleetAssumption`, `DeliveryAssumption`): bounds are
naturals, sentinels are not members of the sets they extend, a package has
finitely many members and at least one, a member at least one chunk, sessions and
requests are finitely many. Every invariant below was first checked by TLC on the
instance of its run.

Two proof modules speak of two models each: `ApprovalDecisionProofs` of the approvals and
of the queue their handlers run on, `WorktreeClaimProofs` of the claim on a
worktree and of the creation that makes one. The second model comes as an instance
with variables of its own (`SessionLane`, `WorktreeCreation`), so that no name of one
model means anything in the other; the assumptions on its constants are stated there
(`LaneAssumption`, `CreationAssumption`), and `queue` and `creation` check that
instance. `CreationCounts` shows that the instance's cardinality is the one the library's
facts are about.

**Queue** (`ApprovalDecisionProofs`, `Lane...`): `TypeOK`, `InOrder`,
`MutualExclusion`, `CancelledNeverRuns`, `AccountedOnce`, `StopReachesRunning`,
`DrainIsComplete`. A request waits for two promises at most, so order is not in
its guard but in the chain. The inductive invariant says: the pointers of the map
and the barrier stand for the last execution of their kind or for nothing that is
unsettled (`Pointers`, `Tails`), dependencies are earlier (`DepsEarlier`), and of
two conflicting requests the later one reaches the earlier through its
dependencies, or the earlier has settled (`Chain`). `Forget` is the step for which
this is needed: it may delete an entry only if it is still its own.

**Session transfer** (`SessionTransferProofs`), in two invariants. `LocalInv` is
about one machine at a time and holds for any network, `LateDelivery` included:
the operation in the slot fits the record it works on (`OpFits`, `RecordFits`), and
the store and the proof rows know of a conflict or will find it again (`Mirrored`,
`ProofsFit`). From it follow the action properties `ArrivalNeverOverwrites` and
`ConflictNotForgotten`. `CommitInv` relates the two machines of a transfer and
assumes `~LateDelivery`: a commit under way belongs to a transfer its source holds
open (`TransferFits`), what a record says of the other machine is so
(`RecordTrue`), and what an operation learnt is still so when it acts on it
(`OpTrue`). It gives `ExactlyOneHolder`, `SingleOwner` and `Consistent`. Without the
hypothesis these fail (see *SessionTransfer* above): an answer "not committed" is
true only if no commit is still on its way. The invariant also shows that, with it, a
commit is never answered by a session of the target's own (`OnExisting`); that
branch is reached in `transfer_late_delivery`.

`OwnershipRefined` is the refinement, proved action by action: every step of the
protocol is one step of `SessionOwnership` or a stutter, so
`Spec => ImplementsOwnership`. `WritersCorrect` reads the abstract promise through
it: only the holder, and a machine with an open claim, writes the session.

**Journal** (`TransferJournalProofs`): `TypeOK`, `PreparedIsComplete`,
`EndedStaysEnded`, `ChunksAreSound`. A handler checks the status once and writes
several files later; `Guarded` says which status each later write still finds, and
`CommittedIsOwned` why a failed commit cannot turn a committed entry into a failed
one. That a retry is refused only for a torn chunk needs the other end as well:
`SendInv` says that what the source chose its call by still holds when the call is
served (`Chosen`) and what an answer says when it is read (`AnswerIsTrue`).

**Update activation** (`UpdateActivationProofs`): `TypeOK`, `StartedOnce`,
`NeverBothRunning`, `UnfinishedNotOverwritten`, `DecisionIsSound`. A run that
expired or lost the fence may hold any stale copy, so the invariant constrains the
holder of the fence: its copy is the journal, and its place in the code bounds the
journal's phase (`Holder`); the phase bounds what was launched (`Launching`); and
nothing was launched under an id above the journal's (`Fresh`). For the decision,
`DecisionInv` adds which revisions can be active in each phase (`Revised`,
`Phased`), and what a run that waits for a launch's health has launched, also when
it lost the fence (`Received`): its receipt may be written late.

**Session creation** (`WorktreeClaimProofs`, `Creation...`): `TreesAsRecorded` and
`EvidenceKept`. A git run, a handler and a save under way carry what they read
when they began. `Progress` ties the git run to its handler and to the pending
intent, `Saved` ties the copy being written to the live snapshot, `Recorded` has
the properties themselves.

**Worktree claim** (`WorktreeClaimProofs`): `ClaimGuards`, for any number of
daemons, operations, git commands and failed writes: the claim stands while
anything of its operation can write, and two operations never write together. A
claim is removed on the copy of the record in its operation's memory, and taken
over on the record on disk, which may be older, so `ClaimInv` speaks of both. Each
copy counts the launches not made, lists the children not closed, and knows of
descendants nobody lists (`Copies`); the record on disk is not settled while a
command of the operation it names is past its recorded launch and not over, or
left descendants (`Disk`). `Held` says that the operation at work holds the lease
and that record and claim are its own, so only it writes the record, and `Copies`
carries over to `Disk` at each write.

**Fleet** (`FleetEnrollmentProofs`): `OneWorkingKey`, `FleetIsTrue` and the action
property `NeverResurrected`, for any number of machines, codes, lost calls,
keychain failures and restarts. The machines share nothing but the room in the
registry, so `FleetInv` is one statement per machine (`Fits`) and a finite set of
admitted ones. What carries it is the order of the credentials: codes are shown in
order, so a pending claim is the newest credential (`CodesFit`); a call to confirm
one was sent while the keychain held it, and the keychain never goes back to an
older key (`KeyFits`). Hence a call to confirm that arrives late finds its own
enrollment, or a row that is not shown as healthy (`OpFits`).

**Turn delivery** (`TurnDeliveryProofs`): `NeverTwice`, `QueueIsTrue` and
`TurnsAreTracked`, for any number of messages, threads, stops and faults. A message
is begun by a call, and calls outlive the jobs that made them: after a time-out the
provider may still begin one. So `Once` speaks of calls as well as of runs: a
message has one call at most, a call not begun has not run, and a message nobody
sent has neither. `JobFits` says what the job at each of its steps may count on,
while a stop, an exit or the provider's answer changes the state under it: a job
that has not called yet is about an untouched message, a release owns the queued
row, and a job that starts a turn has no active turn beside it. `Queued` ties the row
to what its author was told. `Tracked` names the owner of each running turn and of
each call that may still begin one: the session, the job that awaits it, or a mark
that its thread is not stopped. `Events` says that the completion of a turn comes
after it, and that an exit is reported once; without it the end of one turn could
clear another.

**Emergency stop** (`EmergencyStopProofs`): `StopsRecorded`, `CutOffThreadsReset`
and the action properties of `ReplayedRightly`, for any number of stops, threads,
rounds, failed saves, crashes and rows of other writers (`FinishedStaysFinished`
speaks of journals without the latter). A stop lives in three places (the journal's table, the list that recovery took of it, the state file) and a save that reports
failure may have landed, so the invariant follows it through all three. `RowsFit`
says that a row holds what its stop caught, `RecordsWhole` that the state file has a
stop's lines whole or not at all, unless recovery's list names the stop;
`RecordedOnce` that the list names no stop that its own save recorded, which keeps a
finished stop from being replayed. `Covered` says that what the rows read so far ask for is
staged, and saved before the round finishes; `RoundFits` that the round's copy of the
threads differs from the saved ones by resets only, and that each row it read was
acted on or counts as recorded; `CutOffsReset` that a stop that was cut off has its
threads reset or its row is still to be read and will be acted on. New rows,
threads and passes are numbered by greatest elements (`Max`), which exist by the
least-element argument over the naturals (`MaxOfBounded`).

**Approvals** (`ApprovalDecisionProofs`): `SavedFirst`, `RecordsAreTrue` and the
action properties of `AllowGuarded` (`NoAllowPastStop`, `FenceHolds`,
`AllowedAsShown`), for any finite set of requests and any number of decisions,
stops, faults and failures. Nothing is locked over an await, so the invariant says
what a handler may still count on when it goes on. `Hands`: a request not answered
is queued, at the fence or in the handler, in one place and once. `Cards`: while a
card is on show no stop has begun since it came, which is why a decision that finds
its card need not look for one. `RunFits`: what the person was shown is what
settlement read, until the answer is sent. `Lanes` and `ImageFits`: at most one save is
waited for, and the copy on its way to disk is the one the handler made. `Saved`
speaks of the three copies of the snapshot at once, so that a failed save which
landed, or a restart, loads one that is true. `UsesFit` counts uses against the requests a
rule answered (`UsesCounted` compares with those not denied, and is its consequence).
`ReportKept` survives a stop because the reports taken out of the cancelled queue
wait in `later`; `Chosen`, which takes them out, is a recursive function; that it
exists, and keeps the elements of the set no more often than they occur, was proved over the
prefixes of its argument (`ChosenExists`, `ChosenFacts`).

`MutualExclusion`, `CancelledNeverRuns`, `StopReachesRunning`, `NeverBothRunning`,
`OnlyHolderWrites` and some type invariants are proved and not listed in a run; the
runs keep the properties that are not proved, and those whose failure TLC shows
best.

Only model-checked: all liveness (`EverythingSettles`, `CommittedCompletes`,
`WrongClaimStops`, `InterruptedIsShown`, `EndsOrIsHeld`, `RunsSettle`,
`LeaseReturns`, `LaneFrees`, `Serves`, `Settles`: fairness is outside the prover's reach). What a recursive definition computes for
every input cannot in general be proved either, because the library's induction theorems take
an operator; where a proof needed it (`Chosen`, `Max`), a least counterexample
is ruled out instead, which needs well-foundedness only (`WFMin`).
Every safety property of a passing run is stated by a theorem.

## Plan

Done: the eleven modules above, their runs, and the proofs listed. Left, in this
order:

1. `OutboundQueue` and `TerminalReplay`: a slow client at its limit, and the
   replay after it. Property: what a client sees is a prefix, or it knows of the gap.
2. `WorkingPlan`: concurrent edits of client and agent over revisions.
3. `RelayGeneration`: credentials under rotation; `ProfileLease`: one daemon per
   profile across crashes.
4. Update trust metadata and dispatch (`update-state.ts`, `update-dispatch.ts`):
   no rollback of a trusted version.

## Not modelled

Text processing (redaction, configuration, formatting): properties about
patterns and wording over unbounded input. What git commands do to files, keychains,
systemd, launchd and the Windows task scheduler: outside the process; a git command
runs, ends or is killed, a keychain call succeeds or fails. Wire protocols of
external agents: theirs to specify; the daemon's sequencing of turns and approvals
over them is modelled. How facts are read from a command
(`approval-facts.ts`, `permission-policy.ts`): one changed-or-unchanged comparison.
The journal's lease between processes. Clients' rendering, the command line, desktop
and mobile shells. Schema declarations, except where a handler's decision is in one
(`sourcePreflight`). The SQLite store is modelled as its users use it: a save is
atomic or fails, and where its failure can follow the write (`ApprovalDecision`,
`EmergencyStop`) it may have landed. Files, annotations, artifacts, usage and audit
records: rows written by one handler each, with no sequencing of their own.
