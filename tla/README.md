# SynthOrg in TLA+

SynthOrg runs a synthetic organisation: agents backed by language models work
on tasks, tasks belong to plans and projects, and a backend keeps the state of
all of it. This directory models the parts of the backend that decide whether
that state stays right when callers, loops, workers and failures interleave.
Source paths below are relative to `src/src/synthorg/`.

- [The system](#the-system): the inventory of its parts
- [The modules](#the-modules): what each models, and how it corresponds to the code
- [The runs](#the-runs): what TLC checks, within which bounds, under which fairness
- [The proofs](#the-proofs): what holds for every value of the constants
- [Where code and documentation disagree](#where-code-and-documentation-disagree)
- [Not modelled](#not-modelled) and [the plan](#the-plan)

## The system

### Tasks and their single writer

A task is a row with a status, an assignee, and a reason when it is blocked.
`core/task_transitions.py` holds the table of legal moves between the thirteen
statuses, `core/task.py` the rules a row must meet (some statuses need an
assignee, only a `blocked` task may carry a block reason), and `core/state_machine.py` the machine
that all such tables share: look-ups, and two graph walks. `path_to` finds the
hops from one state to another without passing through a park;
`unconditional_exit_reachable` certifies at import time that no state is a dead
end.

Callers change tasks through the `TaskEngine` (`engine/task_engine*.py`), an
actor in one asyncio process:

| State | Operations |
|---|---|
| `_queue` of envelopes with futures, `_in_flight` | `submit` (create, update, transition, cancel, delete), the processing loop |
| rows in the store, versions in memory | `apply_*`, `save`, `delete` |
| `_observer_queue`, bounded, with a `None` as its sentinel | `_publish_snapshot`, the observer loop |
| `_running`, `_unrestartable`, `_max_queue_size`, two task handles | `start`, `stop`, `set_max_queue_size` |

Rows are also written beside its queue, by `save_many` or `save`, upserts of whatever is
there, under no lock and without the versions. `coordinate()`
(`engine/coordination/service.py:515`), the boot pass that recovers runs
(`api/lifecycle_helpers/run_recovery_wiring.py:107`) and the building of
initiatives (`engine/initiative/extension_build.py:155`, `integrate.py:234`,
`skeleton.py:237`) look which children of a plan have no row and then file those;
an approved plan files all of them without a look
(`api/controllers/_plan_review_resume.py:246`); offboarding interrupts copies of
an agent's active tasks and saves them (`hr/offboarding_service.py:190`).

Callers await a future that the processing loop resolves. `stop()` gives each
loop a share of a time budget, cancels the ones that exceed it, fails the
futures that are left, and, when it cannot tell whether a loop is gone, marks
the engine unrestartable. What is hard: the row is read at one `await` and
saved at a later one; a save may raise after its commit; a loop may die of
`MemoryError`, be cancelled inside a save or outlive its `stop()`; others write
the same rows; the sentinel goes into a queue that may be full; engines are restarted. What makes
it correct: one writer; a mutation takes effect at most once, on the row of the
moment, along the table, as far as nobody wrote over that row beside the queue;
every answer is true; every caller is answered;
`stop()` returns; observers see writes in commit order.

### Distributed dispatch

`workers/` runs tasks outside the backend process. The dispatcher, an observer
of the engine, turns every move into `assigned` into a claim and publishes it
to a JetStream work queue, with retries. A worker fetches a claim, skips it if
it was completed before (`SeenClaimsRepository`), asks the backend over HTTP to
execute a step of the task, and acks, naks or dead-letters the claim. The
dead-letter consumer, in the backend, moves the task of a dead claim to
`failed`. What is hard: claims are delivered at least once, a publish that
raises may have been stored, a request that timed out goes on in the backend,
processes die between two steps, ack deadlines lapse, and the number of
deliveries is limited. What makes it correct: nothing leaves the queue without
an account of it, no task is left behind, every message comes to an end.

### The merge queue of a project

`engine/workspace/push_queue.py` serialises what agents merge into a project's
default branch: callers enqueue a workspace and await a future, one worker task
merges it and pushes the branch. `start()` and `stop()` take a lock that is
never held while the worker drains, so a restart may come in between. What is
hard: a merge that is committed and not pushed, or reported as failed although it
landed, a worker cancelled with an item
in its hands or dead of a critical error, the reset of a slow `stop()` after a
newer `start()`. What makes it correct: merges one at a time in the order they
were accepted, none of them twice, true answers, nobody left waiting.

### Idempotent requests

`run_idempotent` (`idempotency/service.py`) runs a callback once per
`(scope, key)`: the first caller takes a lease on the key's row, others poll it
or replay its result. What is hard: leases expire under a callback that is still
running, its late completion meets the row of another holder, rows are cleaned
up, leaders fail or die, keys are reused for another payload. What makes it
correct: one holder while a lease lasts, a published result final until it
lapses, replays that are the result of the same request, and a return for every
call.

### Deciding an approval

A run that needs a human parks and files an approval. The `ApprovalStore` keeps
a cache before the repository, and its lock is let go in the write of `save()`
and in listings. The dashboard and inbound chat messages both decide: they record
a resume marker, write the decision if the approval is still pending, wake the
parked task and clear the marker; a failed wake-up is rolled back to pending. The
startup drain finishes what a crash interrupted. What is hard: two decisions and
an expiry at once, stale caches, cancelled writes, a crash between any two
steps, roll-backs beside other decisions. What makes it correct: one decision
stands, the parked task wakes up with it and not with another, a one-time grant
is used once, and no decision is forgotten.

### The message bus

`communication/bus/memory.py` holds channels, subscribers, a bounded queue per
subscriber and a history per channel. Publishers run under one lock; a
`receive()` waits outside it for a message, the end of its subscription, the
shutdown or a timeout. What is hard: a message that arrives in the same turn as
one of the others, restarts and departures under a waiting receiver, full
queues, a ceiling on agents that two of them meet together. What makes it
correct: receivers always wake, what is reported as delivered is handed over
once and in order, a subscription starts empty, the ceiling holds.

### The other parts

| Part | State | Hard behaviour | What makes it correct |
|---|---|---|---|
| Worker pool, heartbeat, dedup pruner (`workers/`) | a task handle, a running flag, a lock | stop racing start, a drain that times out | one loop at a time; an abandoned one is never joined by another |
| Coordinator (`engine/coordination/`) | plans, waves of children | children filed beside the engine's queue, two coordinations of one plan | no child filed twice or pushed back; a parent ends when its children do |
| Approval gate, parking | parked contexts | a timeout racing a decision, a context retired while it is resumed | each parked run resumed at most once |
| NATS message bus | JetStream streams and consumers | reconnects, redelivery | as the in-memory bus, at least once |
| Review gate | verdicts | rework loops, several reviewers | a task is completed only on a passing verdict |
| Run recovery, checkpoints, shutdown strategies | checkpoints, tasks in progress | a crash at any point, a second shutdown signal | no task in progress that nobody runs |
| Initiatives and plans | plan and project tables | rollup of concurrent completions | status follows from the tasks |
| Workspaces | worktrees, quotas | leftovers of a dead run | a worktree belongs to one run |
| Budget | counters, ceilings | concurrent spending, period boundaries | no ceiling crossed unseen |
| Providers | retries, rate limits | pauses racing acquisitions, retry budgets | permits are returned; waits are bounded |
| Backup | schedule, restore lock | a restore racing a backup | one at a time |
| Agent engine and loops | a conversation | whatever the model answers | its task changes go through the TaskEngine |
| Persistence, HTTP API, CLI, web interface, security, integrations, observability, memory, meta, HR, tools | rows, sessions, caches | mostly conversion and I/O | outside this development |

Components meet at few points. What changes a task submits to the `TaskEngine`,
except for the writers beside its queue named above; everything that reacts to a change is an
observer of it; the dispatcher, the workers' execute endpoint and the
dead-letter consumer connect the engine to the queue. `TaskDispatch` therefore
uses the engine as the atomic store that `TaskEngine` is shown to implement; its
task is one that nobody writes over beside the queue.

`PROJECT.json` lists under `hazards` what in this code is hard to test, at its
line, with the properties that would catch it.

## The modules

```
TaskLifecycle      statuses, table, row rules           (pure)
  StateMachine     path_to, unconditional_exit_reachable
    StateMachineProofs     shortest, first and sound for every table
  TaskMutations    what each mutation writes and refuses (pure)
    TaskStore      abstract: an atomic store of rows
    TaskEngine     queue, loops, start/stop; implements TaskStore
      TaskEngineProofs     one writer, true answers, nobody left waiting
        TaskStoreProofs    the refinement of TaskStore, table, versions, events
  TaskDispatch     dispatcher, queue, workers, dead letters
    TaskDispatchProofs
PushQueue          the merge-and-push queue of a project
  PushQueueProofs
KeyLease           abstract: one lease on a key
  Idempotency      run_idempotent over its table; implements KeyLease
    IdempotencyProofs
ApprovalDecision   store, cache, decisions, markers, drain of one approval
  ApprovalDecisionProofs
MessageBus         the in-memory bus
  MessageBusProofs
MC...              instances of the modules for TLC
```

Operators with a suffix such as `_mutant`, and the comment *Mutant*, are
deliberately wrong versions of the definition that follows them. No specification uses one: they are substituted,
one at a time, to see that a property fails when the code is changed so.

**TaskLifecycle.** `VALID_TRANSITIONS`, `UNCONDITIONAL_TARGETS` and
`NO_TRANSIT` are the tables of `core/task_transitions.py`. A task is a record of
its status, whether it has an assignee and whether it has a block reason; a
patch says of each whether it is kept, set or cleared, and whether the other
fields it carries are valid. `Transitioned` includes what `with_transition`
does to the reason on the way into and out of `blocked`.

**StateMachine.** One step is one turn of the `while queue` loop of the two
walks. States are numbers in the order of the table's keys; `Order` is the code's
sorting key `_order`, which puts undeclared states last, and `Sorted` the
`sorted()` by it, so that the order of expansion is the code's. The reference
definitions do without a queue: `Levels` says what so many hops reach. A detail
the model keeps:
`unconditional_exit_reachable` returns False as soon as it dequeues a state the
table does not declare, even if another branch would have reached a terminal
one. Every table in the repository declares all its states, so `ExitIsSound`
asks for completeness of such tables only.

**TaskMutations, TaskStore.** `TaskMutations` says what a mutation writes and
when it is valid. `TaskStore` is the promise to callers: `Apply` takes a
pending request and writes in one step on the row of the moment; `Reply` gives
answers that are true in the state in which they are given; `WriteBeside` puts
filed children and interrupted tasks over whatever is there. A row that was so
written over is remembered in `overwritten` until it is read again, and until
then `Apply` may write from a row of before: that is what a loop does that read
the row and saves after the other writer. Answers `internal` and `shutdown` say nothing, and a request so answered may
still take effect.

**TaskEngine.** One action per stretch of code between two awaits that matter.

| Action | Code |
|---|---|
| `Submit`, `Abandon`, `set_max_queue_size` | `submit` and its admission checks; a cancelled caller |
| `Dequeue`, `Read`, `Commit`, `Finish`, `Publish` | `_processing_loop`, `_process_one`, `apply_*`: the look-up with its verdict, the store's commit, what follows the save, the event |
| `NothingDeleted`, `DeleteRestricted`, `Recheck` | the three ways a delete ends without a write |
| `ProcessingFails`, `ProcessingCritical`, `ProcessingCancelled`, `ProcessingExits` | the `except` branches, `finally` and the exit condition |
| `ObserverGets`, `ObserverNotified`, `ObserverCritical`, `ObserverCancelled` | `_observer_loop` |
| `Start`, `Stop`, `ProcessingDrained`, `ProcessingFoundDead`, `ProcessingDrainTimeout`, `ProcessingUnwound`, `SendSentinel`, `ObserverDrained`, `ObserverDrainTimeout`, `StopAborted` | `start`, and `stop` stage by stage |
| `FindChildren`, `Probed`, `save_many` | `_file_missing_children` and its like: a probe per child, then one upsert of those that had no row, unless the plan is gone (`file_tasks`) or the store fails |
| `file_child_tasks` | the filing of an approved plan's children, without a probe |
| `reassign`, `save_many` | offboarding: copies of an agent's active tasks, interrupted, then saved |
| `FilePlan`, `DropPlan` | plans that come and go under a delete |

`proc[g]` and `obs[g]` are the loops of the g-th `start()`; `proc[g].row` is the
row a loop holds between its read and its save. `answer` is the future of each
request, `commits` and `delivered` are histories for the properties, and so is
`overwritten`: the tasks that a writer beside the queue has written over and no
loop has taken up since. `probing[w]` and `batch[w]` are what the writer `w` has
yet to look up and what it will save; there are any number of writers, nothing
orders them, and versions do not change under their writes. A save
that was cancelled may still commit until its loop unwinds: with SQLite the
statements of the one connection are ordered by its thread, so nothing commits
later. A commit and the return of `save()` are two steps, and the error between
them (`late_error`) is one of the failures in `Faults`.

**TaskDispatch.** One task. `BuildClaim` and `PublishClaim` are the dispatcher,
with its retries; `NextClaim`, `CheckSeen`, `Answered`, `TransportError`,
`MarkCompleted`, `Finalize` and `DeadLetter` are `_run_once` of a worker;
`ExecuteRead`, `ExecuteTransition`, `ExecuteRefused` and `ExecuteFails` are the
endpoint with the lifecycle baseline, which makes one transition per call;
`NextDead`, `AlreadyHandled`, `FailTask`, `FailTaskFails`, `MarkHandled` and
`AckDead` are the dead-letter consumer. `Outside` is everybody else who moves
the task. JetStream itself is external and modelled from its use: a message is
delivered at most `MaxDeliver` times, its ack timer may lapse under a live
worker, and after the last delivery it is dropped. Ready and dead messages are
named by the claim and the publish that stored them, since one claim may be
stored twice.

**PushQueue.** `Start`, `Stop` and `Enqueue` are the sections under the lifecycle
lock. `worker[g]` is the task of the g-th `start()`, and it looks up its queue in
its first step only (`WorkerBegin`), as the code does; `Get`, `Merge`, `Push` are
the awaits of the loop, `Exit` its `finally`. `StopReset` is the `finally` of
`stop()`, with its test that the worker is still its own. A cancelled worker
(`DrainTimeout`, `StopCancelled`) abandons its item. A merge appends to `main`, a
push copies the whole of `main`. A git command that raises, or whose worker is
cancelled or dies, may have done its work (`MayHaveLanded`):
`engine/workspace/git_worktree.py` looks the commit up after the merge has landed
and reports a failure of that look-up as a failed merge.

**Idempotency, KeyLease.** A repository call is one transaction and one step.
The time of a claim is read before the row is (`Begin`), so that a claim may
judge a row by an older clock. `Complete` and `MarkFailed` are compare-and-sets
on the claim's token. `Killed` stands for everything that leaves a row in flight:
critical errors, cancelled requests, dead processes, writes that fail.
`KeyLease` is the promise: one valid lease at a time, only its holder publishes,
and the key is free again when the lease has lapsed. The refinement mapping
counts a row as a lease while it is in flight or completed and not yet expired.

**ApprovalDecision.** One approval. `lock` is held from `CheckPending` to the end
of its write, as `save_if_pending` holds it; the roll-back's `save()` is three
steps (`Restore`, `RestoreRow`, `RestoreCache`) with the lock free in between and
the slot in `_saves_in_flight` taken. `ScanRead`, `ScanExpire` and `ScanRefresh`
are a listing. Timestamps are numbers that grow, which is what the drain compares
(`StaleMarker`). A crash ends whoever has begun, empties the cache and starts the
drain; the API accepts decisions when the drain is done. The two decision paths
differ in what they log and publish and are one sequence of actions here.

**MessageBus.** Every operation under the lock is one step; a `receive()` is
`Receive`, `Take` (the task that awaits `queue.get()`) and `Wake`. A restart or an
unsubscribe drops queues that waiting receivers still hold, hence the objects in
`content`. `generation` names the shutdown event of a run, which receivers
capture. A created channel has no subscribers: the code would store those that a
`Channel` names (`communication/bus/memory.py:911`), and no caller names any.

## The runs

### Passing

| Run | Instance | What it shows |
|---|---|---|
| `task_engine_lifecycle` | 3 requests, fenced updates and cancels that conflict over one assigned task, 2 generations, cap 2, observer queue 1, all six failures | `SingleWriter`, `NoStrandedFuture`, `NoLostUpdate`, and that the engine implements `TaskStore` (`Linearizable`) |
| `task_engine_data` | 2 requests out of 8 mutations (create, fenced and unfenced updates and transitions, deletes), a plan, a derived child, a writer beside the queue and the filing without a probe, errors before and after a commit | `AnswerTellsTruth`, `StatusFollowsTable`, and again `Linearizable`, with rows that are written over |
| `task_engine_liveness` | 2 requests, 2 generations, caps 0 and 1, no symmetry | `EveryRequestAnswered`, `StopTerminates`, `DeliveredInCommitOrder`, `SingleDispatcher` |
| `state_machine` | every graph of 4 states with a terminal one, each set of parks and unconditional targets, graphs with an undeclared state, and the task table | both walks against reference definitions: shortest, first in table order, None only when unreachable, exits sound; `NoTaskIsStuck`: every status leads to a terminal one by hops that every coherent row can take |
| `task_dispatch` | 2 workers, 1 claim stored up to twice, 3 deliveries, six environments of failures | `AckedIsAccounted`, `NoOrphan`, `NeverSilentlyLost`, `MessagesSettle` |
| `push_queue` | 3 workspaces, 2 stops, 2 workers, four environments | `SerialFifo`, `AnswerTellsTruth`, `NoStrandedCaller`, `EveryoneReturns` |
| `idempotency` | 3 calls, 2 fingerprints and none, a lease of 1 tick on a clock of 2, 1 retry | `LeaseProtects`, `ReplayTellsTruth`, `EveryCallReturns`, and that the table implements `KeyLease` (`LeaseSpec`) |
| `approval_decision` | 2 deciders with either outcome, 2 crashes, 1 clear of the cache, six environments | `OneDecision`, `CacheAgrees`, `NoStrandedDecision`, `ResumedAsDecided`, `OneGrant`, `DecisionResumed` |
| `message_bus` | a topic, a broadcast and a direct channel, queues of 2, 3 messages, 2 receives, 2 restarts or departures; 3 agents under a ceiling of 2 | `NoStrandedReceiver`, `DeliveredOnce`, `InOrder`, `NothingStale`, `CeilingHolds` |

*Bounds, and why they are enough.* Three requests let one be in flight, one
be queued and one arrive late; a conflict takes two. Two generations are what a
leftover of the first (a loop, a sentinel, a request) needs to meet the second;
the theorems below hold for any number. An observer queue of one is full
after one event, and a cap of 2 is met by three requests, while 0 is the code's
"no cap". `Mutations` differ between the two engine runs because the lifecycle
needs conflicting writers and the data run needs kinds; together they are too
many states for one run. In the data run two requests suffice, one that is read
and one that is saved around the writes beside the queue, and so does one writer
with `file_child_tasks` as the second; the theorems have any number of both.
Three deliveries are the default of `max_deliver` and the number of calls that
take a task from `assigned` to `completed`. A second claim beside two workers
does not finish in reasonable time. Environments group the ten failures, each of
which is in one group, because a run with all of them does not finish either. The
theorems cover what the runs leave out: any number of claims, and failures of
several groups in one behaviour.

In `push_queue` two workers and two stops are what a stale reset or a restart in
a drain needs, and three workspaces put one in a worker's hands, one behind it
and one after the sentinel. In `idempotency` a lease of one tick expires while
its holder runs, and three calls are a leader, the one that takes over and a
follower. Two deciders and two crashes let a loser's marker, a winner's marker
and a second interrupted drain meet. In `message_bus` three messages overflow a
queue of two, and two receives compete for one queue. Environments split the
hazards of the approval and of the bus as they do those of dispatch.

*Properties with a condition.* Some properties hold in some of the environments
only, and say so in their first line, because the code does not keep them in the
others. TLC has counterexamples for each of these:

| Property | asked for without | because there |
|---|---|---|
| `SingleDispatcher` | critical errors | `stop()` raises before its observer stage and leaves the engine restartable |
| `NeverSilentlyLost` | crashes, lapsed ack deadlines, lost publishes | the last delivery is dropped with no dead letter |
| `NoOrphan` | anything but failing calls and dedup errors | see the hazards of `workers/` |
| `StatusFollowsTable`, `Linearizable` | rows written over beside the queue since the engine took the mutation up | children are filed over rows that have moved, and the engine and offboarding save over each other's writes |
| `AnswerTellsTruth` of the merge queue | callers who were given an error | a merge that landed is reported as failed when its commit cannot be looked up |
| `SerialFifo` | a `start()` inside a drain | two workers merge side by side |
| `NoStrandedCaller`, `EveryoneReturns` | cancelled or dead workers, a `start()` inside a drain | the item in a cancelled worker's hands keeps its future; an enqueue after a critical error meets a dead worker |
| `OneDecision`, `CacheAgrees` | listings | a page read before a decision overwrites the cache after it |
| `NoStrandedDecision`, `DecisionResumed` | listings, errors of the marker table, failed dispatches, for the latter also cancelled writes | a marker is best effort, a roll-back clears the marker of another decider, and a cancelled write that landed has no decider |
| `ResumedAsDecided` | expiry | the drain takes an approval that expired for a rejected one |
| `OneGrant` | listings, failed dispatches | a roll-back to pending forgets that the grant was used |

*Deadlock* is not checked where callers need not call: all runs of systems end
when the bounded requests, generations, claims or messages are used up, and the
walks end with their result.

*Fairness.* In `TaskEngine!Fairness` every loop is weakly fair, and so is
`stop()` together with its timers: the event loop runs every ready task, and a
`wait_for` that was armed goes off. Nobody has to call `submit`, `start` or
`stop`, and no failure has to happen. `critical` and `caller_cancelled` are left
out of the liveness run: after a `MemoryError` the loop is dead and the code
promises answers only once somebody calls `stop()`, which `NoStrandedFuture`
covers in the lifecycle run. In `TaskDispatch!Fairness` the dispatcher and the
consumer are tasks of the event loop, a worker is restarted by its pool, the
backend works on its requests and JetStream's ack timer goes off. In
`PushQueue!FairSpec` the worker's steps are weakly fair, since every git command
has a timeout, and so is the reset of a `stop()` whose worker has ended. In
`Idempotency!FairSpec` a call goes on until it returns: callbacks end, and the
poll has a deadline on the monotonic clock. In `ApprovalDecision!FairSpec` a
decision that has begun and the startup drain run to their end; crashes are
finite, so some restart is followed by a drain that is not interrupted.

### Violations

Each of these runs checks a statement of the repository that the code does not
keep; TLC's counterexample is the argument. The section [Where code and
documentation disagree](#where-code-and-documentation-disagree) explains them.

| Run | Statement |
|---|---|
| `task_engine_stale_sentinel` | `RunningHasObserverLoop` |
| `approval_first_writer` | `FirstWriterWins` |
| `idempotency_payload` | `ReplayMatchesPayload` |

## The proofs

Every safety property that a passing run checks is also a theorem of the
specification, for every value of the constants, except `NoTaskIsStuck`, which
is about one table. The runs have small sets and one environment of failures at a time; the
theorems hold for all of them, any number of callers, workers, restarts and
crashes, and failures of all kinds in one behaviour. Each proof module extends
the module it is about. It states an inductive invariant as a conjunction of
named parts, each part with its reason in a comment, then has one lemma per part
or per group of actions, and combines them with the initial states.

Nothing is assumed but the named `ASSUME` of the module (the constants have
their types; the values that stand for nobody are nobody). Where a property
names an environment in its first line, so does its theorem, because it is the
same formula. One theorem has a hypothesis of its own: `DeliveriesInOrder`
excludes critical errors, which the liveness run excludes too.

### The engine: TaskEngineProofs, TaskStoreProofs

| Theorem | Property | Rests on |
|---|---|---|
| `TypeCorrect`, `OneWriter` | `TypeOK`, `SingleWriter` | `EngineInv` |
| `OneDispatcher` | `SingleDispatcher` | `DispatcherInv` |
| `AnswersTrue` | `AnswerTellsTruth` | `FlowInv` |
| `FuturesSettled` | `NoStrandedFuture` | `FutureInv` |
| `StatusesFollowTable` | `StatusFollowsTable` | `RowInv` |
| `EngineImplementsStore` | `Linearizable` | `RowInv`, `FlowInv` |
| `UpdatesNotLost` | `NoLostUpdate` | `VersionInv` |
| `DeliveriesInOrder` | `DeliveredInCommitOrder` | `EventInv`, `DispatcherInv` |

*Types* are not only shape: a mutation that was accepted at `Read` must still
write a row when it is committed, a loop that is busy must know its request, and
the sentinel must never reach an observer.

*One writer.* `SingleWriter` is not inductive: a state with one live loop, a
stopped engine and no mark satisfies it, and `start()` leads out of it.
`WriterInv` says why such a state is not reached: only the loop of the last
generation can be alive; while the engine runs, and while `stop()` drains or
cancels, that loop is the one the engine holds; once `stop()` is past it, or has
returned without the mark, it is gone. `DispatcherInv` says the same of observer
loops, where it needs the absence of critical errors.

*Answers.* `FlowInv` follows a request: it is queued once, with an open future
and uncommitted (`QueueInv`), then held by one loop (`HeldInv`), and what is
committed is answered with success or not yet (`AnsweredInv`). `FutureInv` adds
where `stop()` finds whoever waits: in the queue, in `_in_flight`, or in the
hands of the loop it has cancelled. That a loop is cancelled only while `stop()`
waits for it is the part that is easily broken: a loop that ended otherwise with
a request in hand would leave its caller behind.

*Refinement.* `TaskStore` writes on the row of the moment, the engine writes from
what it read at an earlier await. `RowInv` closes the gap: the row a loop is about
to save from is still the row in the store, unless the row was written over since
(`SaveInv`), because no other loop writes and whoever writes beside the queue
either fills in a row that was absent or marks the task as written over; a create
writes where nothing is (`CreateInv`), what is rechecked is a delete
(`RecheckInv`), and what the writers have prepared are
children of a plan as they are filed and interrupted tasks (`BatchInv`). Under the
mapping, which hides queue, loops, life cycle and the writers' preparations, a
commit is `Apply`, a write beside the queue `WriteBeside`, a step that settles
futures, admits a caller or reads a row `Reply`, and everything else stutters.

*Versions.* Between the check and the save a fenced write still finds the version
it named (`FencedInv`); a fenced write that succeeded has put the version past it
for good, unless the task was deleted (`PassedInv`); and a create, which starts
versions over, is the first write of its task (`FirstInv`).

*Events.* An event is published while its commit is the last one (`LastInv`), its
request is through with the engine by then (`ThroughInv`), and nothing overtakes
on the way from the writer through the queue to the one live observer loop
(`OrderInv`).

### Dispatch: TaskDispatchProofs

| Theorem | Property | Rests on |
|---|---|---|
| `TypeCorrect` | `TypeOK` | `DispatchInv` |
| `AcksAccounted` | `AckedIsAccounted` | `AckInv` |
| `LossesShow` | `NeverSilentlyLost` | `SteadyInv` |
| `NothingOrphaned` | `NoOrphan` | `SteadyInv`, `CalmInv`, `CarriedInv` |

The run has one claim; here there are any number of claims, attempts, deliveries
and workers, and all ten failures may meet. `AckInv`: whoever is about to ack has
marked its claim or dead-lettered it, and neither is taken back. `SteadyInv`: the
dispatcher stores a message once (`FreshInv`); without crashes and lapses a worker
holds its message as JetStream counts it, nobody else does, and who gives it back
has a delivery left (`HeldInv`); so a message that runs out of deliveries was
dead-lettered (`LostInv`). `NoOrphan` needs the most. A call belongs to a worker
that still waits for it and is the only one of its message (`OneCall`); a mark
belongs to a stored message, and a claim is stored once (`FirstAttempt`); once a
claim is marked or dead-lettered, its holder only acks (`Stages`). With these a
task that is assigned or in progress is *carried* (`CarriedInv`): by an event, by
the publish in hand, or by a message that is unmarked, is queued, held or dead
and unhandled, and whose call, if it has read the task, is about to make the move
that is next. The last clause is what makes it inductive: a call that would make
another move is refused, its claim would be marked, and the carrier would be
lost. `DispatchAssumption` lets others than the workers move the task anywhere
but into `in_progress` and `in_review`; whoever else did that would leave a task
that no claim stands for.

### Idempotency: IdempotencyProofs

`LeaseProtected` (`LeaseProtects`), `ReplaysTrue` (`ReplayTellsTruth`) and
`TableImplementsLease` (`LeaseSpec`) follow from `LeaseInv`. A callback that runs
has the row, with the expiry it was given, or its lease has expired
(`HoldsLease`). That survives a take-over because a claim judges a row by a time
read earlier, which is never ahead of the clock (`ReadsPast`). The row names the
call that claimed it, carries that call's payload, and a result in it was
committed (`RowTellsTruth`). In the refinement a claim is a new lease, also over
a row that has expired or failed; a completion publishes when the token still
matches; a late one changes nothing and stutters; a tick lapses the lease or
stutters.

### The bus: MessageBusProofs

`ReceiversReleased` (`NoStrandedReceiver`): a waiting call is released, or the bus
runs with the event it captured and its queue is the current one (`Waits`).
`QueuesInOrder` (`InOrder`): queues ascend and hold what has been sent (`Past`).
`SubscribersStartClean` (`NothingStale`): objects that are yet to be used are
empty, and queues belong to subscribers (`FreshObjects`, `QueuesOfSubscribers`).
`DeliveredExactlyOnce` (`DeliveredOnce`): the place of a message, a queue or a
receiver, exists and is the only one (`OnePlace`), which needs the order of the
queues to know that a head that was taken is not in the queue twice.
`CeilingKept` (`CeilingHolds`): by cardinalities, newcomers of one `send_direct`
counted together.

### Approvals: ApprovalDecisionProofs

`ResumedTrue` (`ResumedAsDecided`): rows, cached copies and pages carry the
outcome of the decider they name (`RowsTrue`, `NeverExpires`). `CacheCoherent`
(`CacheAgrees`) and `OneDecisionStands` (`OneDecision`) follow together, neither
alone: the lock and the save slot exclude each other (`LockInv`), a decision is
written over a pending row only and the winner's row stands (`Standing`), and it
is the agreement of cache and repository that makes the check of the cached
status one of the row (`Agreement`). `GrantedOnce` (`OneGrant`): the stamp of the
one grant stays as long as nothing is taken back. `DecisionsNotStranded`
(`NoStrandedDecision`): from before the decision until it has been acted upon
there is a marker, and it is not younger than the decision (`MarkerInv`), which
is what the drain compares.

### The merge queue: PushQueueProofs

`AnswersTrue` (`AnswerTellsTruth`) holds with any number of workers side by side,
from `PlacesInv`: work is in one queue or one worker's hands, and what is answered
is on the branch or not (`QueuedOnce`, `BranchTrue`); `LandedFacts` is what a git
command that did not return may have left behind. `MergesSerial`
(`SerialFifo`): as long as nobody starts into a drain, the live worker is the
current one, on its own queue (`Alone`), and the branch followed by the worker's
item followed by its queue ascends (`Ascending`). `CallersNotStranded`
(`NoStrandedCaller`): whoever waits is in the hands, or in the queue, of a live
worker that has yet to meet the sentinel behind it (`Served`).

### The walks: StateMachineProofs

| Theorem | Property | Rests on |
|---|---|---|
| `PathsShortest` | `PathIsShortest` | `TreeInv`, `Valid`, `Levelled` |
| `NonesUnreachable` | `NoneMeansUnreachable` | `TreeInv`, `Levelled` |
| `PathsFirst` | `PathIsFirst` | `Ranked`, `First` |
| `ExitsSound` | `ExitIsSound` | `ExitInv` |
| `WalksEnd` | each step ends the walk or leaves fewer turns | `QueueInv` |

The run has graphs of four states and the task table; here the table is any, of
any number of states, with undeclared states, self loops, and parks and
unconditional targets chosen at will.

*Induction.* A walk is related to definitions that are recursive in the number of
hops, and the library's induction theorems, which take a predicate as a
parameter, cannot be used with the installed provers. `SetInduction` states
induction for a *set* of numbers; it follows from the well-foundedness of `<`
through `LeastNumber`, and each induction here defines the set of the numbers for which its
claim holds. `Iterate` gives the existence of functions defined by recursion,
`LevelFacts` with it the equations of `Levels`.

*The tree.* While `path_to` searches, `came_from` is a tree over the states that
were seen, and what has left the queue has all its targets seen (`TreeInv`).
`Hops` follows it back; `Back` says of a function that it gives these hops at
every state, and when the tree grows the old ways stay and the new ones are the
way to the expanded state and one hop more (`WaysGrow`). Of the ways `WaysInv`
says four things. They are hops of the table past no park (`Valid`). The queue
goes level by level: its depths ascend and nothing seen is more than one level
deeper than anything queued (`Levelled`). From that everything up to the level
in work has been seen at its least depth (`ReachedSeen`): a target met now is not
in reach of fewer hops, and one not met with an empty queue is not in reach. Within
a level the queue is in the order of the ways, and states of the next level come
from states before those still queued (`Ranked`). Hence no path as short
precedes the way to a state (`First`): one that ends in a hop from `w` to a
new state has `w` still queued, at the same depth as the state in work and so
not before it.

*The exits.* What has left the queue is declared, is not terminal and has its
unconditional targets seen; and what was seen is within `k` unconditional hops
for a `k` below the number of states seen (`ExitInv`), which is what bounds
`ExitStates` by as many hops as there are states.

### Only model-checked

- Everything temporal under fairness: `EveryRequestAnswered`, `StopTerminates`,
  `MessagesSettle`, `EveryoneReturns`, `EveryCallReturns`, `DecisionResumed`.
  Liveness and `ENABLED` are out of the prover's reach.
- `NoTaskIsStuck`, a statement about the 13 statuses of one table and the rows
  they may have: TLC evaluates all of them, and a proof would be the same
  enumeration. What it relies on, that the walk's answer is right, is `ExitsSound`.

## Where code and documentation disagree

1. *A stale sentinel ends the next observer loop* (`engine/task_engine.py:471`).
   When the observer drain times out, the loop is cancelled with the sentinel
   still queued. `stop()` returns cleanly; after a restart the new loop takes
   that sentinel and ends, and the engine runs without observers.
2. *A listing undoes first-writer-wins* (`api/_approval_expiration.py:329`). A
   listing reads its page without the lock and writes it into the cache later.
   A decision in between is hidden by the old pending row, and the next
   `save_if_pending` overwrites it.
3. *A poll does not compare payloads* (`idempotency/service.py:404`). A follower
   is handed the result of whoever completed the key, although that may be a call
   with another fingerprint that took over from the failed leader.

`findings` in `PROJECT.json` quotes the lines. Of the behaviours in the table of
conditions, four contradict a comment or a document as well: the second
observer loop (`engine/task_engine.py:395`), the worker that dies on the last
delivery (`docs/design/distributed-runtime.md:225`), the second merge worker
(`engine/workspace/push_queue.py:118`), and the future of the item in a cancelled
worker's hands (`engine/workspace/push_queue.py:182`). A fifth is about rows
written over beside the queue. `engine/coordination/service.py:525` says that
saving over a child "would push a subtask that is already running back to
``CREATED``", and `file_tasks` (`engine/task_engine.py:837`) that "the
single-writer invariant over status is untouched". The probe and the save are two
awaits with no lock around them, and `_plan_review_resume.py:263` makes no probe.
Without its exemption TLC refutes `StatusFollowsTable` in eight states: a child is
filed, the engine moves it to `assigned`, and the next filing puts it back to
`created`. Further ones that no property speaks about:
*"shut down before processing"* (`engine/task_engine_loops.py:190`) is also the
answer to a request whose write was committed; every 4xx settles a claim, the
429 of the endpoint's own rate limit included (`workers/executor.py:229`), and
the task stays assigned; `workers/dispatcher.py` relies on a replay of events
that nothing does; and the dead-letter consumer's loop ends on an exception of an
unforeseen kind.

## Not modelled

Inside the modelled parts: `register_observer` (observers are registered before
the first `start`), a `start()` whose `create_task` raises, reads, spans, logs
and metrics; of the workers, start and stop of queue and consumer, the acks of
payloads that do not parse, the TTL of the dedup store, and
`AgentEngineExecutionService`, which runs an agent where the baseline makes one
transition. SQLite's shared connection, on which a save cancelled between its
execute and its commit leaves a transaction open, belongs to the persistence
layer. Of the approvals, `add` and `delete`, the timeout scheduler, parking and
the retirement of contexts, a `save()` that is cancelled, and repository errors
other than the marker table's. Of the bus, reads, the throttle and alert modes of
the ceiling, and NATS. Of the merge queue, what git does.

Other parts are listed with their reasons under `components` in `PROJECT.json`.
In short: agents' behaviour is decided by a language model, providers, tools
and integrations by remote services; SQL, migrations, HTTP handling, the CLI and
the web interface are conversion and I/O; the rest is planned. The repository has
some 888 000 lines in more than 4 000 files, of which the larger part are web
components, evaluation and CI scripts, settings definitions, models without
behaviour, and adapters. What the modules cover is a small share of those lines
and most of the code in which concurrent actors share state that others rely on;
the concurrent parts that are still missing are in the plan.

## The plan

Every invariant but `NoTaskIsStuck`, every action property and every refinement
is proved, so what is left are models, each with its proofs. In this order:

1. The life cycle that pruner, heartbeat, queue and dead-letter consumer share
   with the engine, as one module with `OneWriter`'s invariant as a pattern.
2. Waves and the rollup of a parent over its children, on top of `TaskStore`,
   whose `WriteBeside` is what two coordinations of one plan do to each other.
3. Parking and the timeout scheduler, beside `ApprovalDecision`; the review gate.
4. Rate limiter, retry handler and budget ceilings.

Of the theorems, conditions to weaken: `NoStrandedCaller` with cancelled workers
speaks of no one, and a version that leaves out only the item in hand would say
more; the same goes for `NoOrphan` with publishes that time out, which store a
claim twice.
