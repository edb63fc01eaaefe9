# NeoGraph in TLA+

This directory holds a formal model of the core of NeoGraph: how a checkpointed
graph runs, pauses, crashes, resumes, is edited and is forked; how runs and
administration of one engine exclude each other; how the attempts of a node time
out, are retried and perform tool effects; how the runs of a Program and their
children share a store between processes; how a running graph is migrated; and the
services around them: the Hook outbox, the host's admission controller, the
connection pool, the request queue and the cancel token. TLC checks the models on
small instances, and TLAPS proves nearly all of the safety properties for every
graph, node behaviour, number of actors and bound.

`PROJECT.json` is the index: the components and their status, the runs, the
source lines behind every definition, the hazards, the mutants that show that a
property can fail, the findings and the theorems.

## 1. The system and its parts

NeoGraph executes a graph of nodes in *super-steps*: all ready nodes run on the
same state, their writes are applied, the scheduler plans the next ready set, and
a checkpoint is saved. Around that core lie stores, cancellation, queues, a host
layer, a durable Program layer and several protocol front ends.

| Part | State | Operations that change it | What is hard about it | Modelled in |
|---|---|---|---|---|
| Engine admission gate | one atomic counter | enter/leave execution, enter/leave administration | compare-exchange loops of several callers; a guard nested in a guard | `EngineAdmission` |
| Scheduler | barrier accumulators | `plan_start_step`, `plan_next_step` | joins with alternatives, goto, failure edges, failure exits, accumulators that outlive a step | `Scheduler`, `StepResults` |
| Super-step loop | the run: step, ready set, state, gates, answers | run, resume, gate pause, step, plan, commit | crashes between any two writes; gates answered over several resumes; max_steps; budget stop | `GraphRun` |
| Node executor | outcomes of one batch | run a task, record it, pause, fan out Sends | siblings that finish, fail, ask or leave an uncertain effect in one batch; replay | `GraphRun` |
| Checkpoint coordinator | checkpoints, pending writes | save, record, commit and clear, collect for a resume | the chain of pauses of one step; two rows of one task; what is cleared when | `GraphRun` |
| Administration | the thread's checkpoints | `update_state`, `fork` | a fork copies its writes after it is saved | `GraphRun` |
| Checkpoint stores | rows behind the coordinator | save, load, put/clear writes, prune | in memory as used by `GraphRun`; SQL stores delegate to the database | partly, in `GraphRun` |
| Request queue | slots, workers, shutdown flags | construct, submit, work, close | close from a task; the last worker finalises; construction that fails half-way | `RequestQueue` |
| Cancel token | token tree, binding, emit flag | cancel, fork, bind, unbind, emit | fork beside cancel; rebinding beside a posted emit; unbind that waits | `CancelToken` |
| Invocation attempts | attempt rows, dispatched bodies | dispatch, time out, detach, retry, resume | a late answer after a timeout; a detached body beside its successor | `NodeAttempts` |
| Tool effect broker | one row per effect slot | marker, dispatch, withdraw, receipt | a stop between marker and receipt; two callers of one slot | `ToolEffectBroker` |
| Program runs and their children | run records, relation rows and head, budgets | spawn, spend, end, pause, resume, cancel, take over, wake | conditional publications of several processes; wakes that leave the work to one another | `ChildRuns` |
| Live migration, safe points | the run's control, the safe point request, lineage head and lease | request, capture, hold, publish, release, cancel | lost answers of the store; three threads over one control | `LiveMigration` |
| Hook outbox | journal entries, leases | emit, claim, perform, settle, reconcile | a lease that lapses under a late settlement; an event emitted twice | `HookOutbox` |
| Host admission | waiters, reservations, capacity | reserve, poll, abandon, release, pressure, shutdown | a grant that races its cancellation | `HostAdmission` |
| Connection pool | idle connections, permits | checkout, exchange, replay, checkin, time out | a stale idle connection; a response nobody waits for | `ConnPool` |
| Node cache, budget journal | entries; leased bank | lookup, insert; lease, settle | see section 7 | not modelled |
| MCP, A2A, ACP sessions | sessions and tasks | submit, cancel, subscribe, finish | cancellation beside completion | not modelled |
| State reducers, compiler, loaders, language, prebuilt graphs, HTTP/WS/gRPC marshalling, tracing | data | pure translation or I/O | none that a state model tells apart | not modelled |

How the modelled parts interact: the engine takes a guard of the admission gate,
restores a checkpoint through the coordinator, and drives the loop; the loop
hands a batch to the executor, which records each finished invocation through the
coordinator before its writes are applied; the scheduler plans from the results;
the coordinator saves the checkpoint and only then clears the step's pending
writes. Admission and the loop are separate modules: `GraphRun` has one operation
in flight per engine, and `EngineAdmission` shows why administration never
overlaps one. Several concurrent runs on different threads of one engine share no
state in the code except the store, whose rows are per checkpoint. Two concurrent
runs on the *same* thread are not modelled.

`NodeAttempts` is the inside of one invocation, whose end is a `TaskFinishes` or a
`TaskThrows` of `GraphRun`; it extends `ToolEffectBroker`, whose `execute` its bodies
call. `ChildRuns` and `LiveMigration` lie above the engine: an attempt of a Program
run drives one. The other services are used by all of them and depend on none.

## 2. Modules

### EngineAdmission

`active_runs` is the atomic `active_runs_`; `pc`, `op` and `count` say where each
caller is in `enter_execution` and which value its loop compares with. A load and
a compare-exchange are separate steps (`BeginExecution`, then `Admit`, `Reload` or
`Refuse`); a resume nests a second guard inside its first (`BeginNested`).
`compare_exchange_weak` may fail spuriously, which is a stutter here: the loop
retries with the value it read.

### Scheduler, StepResults

Pure operators, parameterised by the compiled graph (edges, conditional edges,
joins, failure edges and exits). `PlanNextStep` is `Scheduler::plan_next_step`:
signals of a step are accumulated per join, a satisfied join fires and is reset,
`Command.goto` overrides everything. The label a condition returns is a free
choice (`Labelings`), since conditions are user code. `StepResults` has what a
step applies to the state (one log entry per batch) and the unified routing list
of ready nodes and Sends. `PlanStartStep` is a set: the code keeps edge order,
which only decides the order in which results of one batch are applied, and the
log records a batch as a function from node to result.

### GraphRun

The engine, the executor and the coordinator around one checkpoint store.

| Variable | Code |
|---|---|
| `cps` | the stored checkpoints in save order; the index is the id |
| `rows` | pending writes per checkpoint, in insertion order |
| `run` | the operation in flight: the locals of `execute_graph_async` and of the executor's batch |
| `resumed`, `pauses` | history for the properties: what each run answers; what each pause had finished and asked |

| Action | Code |
|---|---|
| `FreshRun`, `ContinueThread` | `run_async` without and with `resume_if_exists` |
| `Resume`, `ResumeFrom` | `resume_execute_async` for the latest and for an exact checkpoint |
| `LoopEnds`, `BudgetStop`, `GatePause`, `EnterStep` | the head of the super-step loop |
| `TaskFinishes`, `TaskThrows` | one invocation: recorded row, or an exception of each kind |
| `BatchStops`, `ReadyPauses`, `ReadyApplied` | `run_parallel`'s outcome and the application of writes |
| `AnchorRow`, `AnchorDone` | the anchor of a Send step that no checkpoint precedes |
| `SendsPause`, `SendsApplied` | `run_sends` |
| `StepCompletes`, `CommitClears` | planning, `interrupt_after`, `commit_super_step_async` in its two store calls |
| `UpdateState`, `Fork`, `ForkCopies` | administration, a fork's copies one by one |
| `Crash` | the process stops, the run is cancelled or a store call throws, at any point |

The state of the graph is a log of applied batches, so every reducer is a
function of it: two logs that agree give the same channels. A result records which
run produced it and which answer it was given, which is what the properties tell
apart. A node may end `ok`, `ask` (NodeInterrupt), `reconcile` (an uncertain
effect), `fail` or `stop`. A failure with a failure edge may be routed or fail the
run, because whether an exception is routable depends on its type.

Abstractions: the single-node fast path (`run_one_async`) behaves as a batch of
one. The branches of `run_parallel` and of the Send pause that run without a parent
checkpoint are unreachable from the engine, which saves an anchor first, and are
left out. Also left out: the attempts of one invocation (see `NodeAttempts`), the
node cache, streaming events, visit limits, stall marks of a barrier, managed
budget leases, safe points, ephemeral-state refusals, and the resume value written
to a `messages` channel.

### SuperSteps

What the engine promises, without runs, pauses, rows or crashes: the set of stored
configurations (ready nodes, log, barrier) grows only by a start, a new turn, an
edit, or *one whole super-step* of a configuration that could be stored.
`GraphRun` implements it under `configs <- {ConfigOf(cps[i]) : i \in DOMAIN cps}`.

### RequestQueue

The critical sections of `lifecycle_mutex_` are steps, and so are the atomic
operations outside it. The lock-free queue is external: a set of tasks, of which a
dequeue takes any one. The condition wait of an idle worker has a timeout, so a
worker polls. The shutdown flags and the four counters keep their names.

### CancelToken

A thread is a stack of calls, since `cancel()` recurses into the children it
found and `fork()` cancels the child of a cancelled parent. `bind_executor` and
`unbind_executor` are split at their critical sections; the strand of a binding
runs its posted emits one at a time. A handler that an emit runs may bind the
token again, and `gen` bounds how often. Native stop callbacks and the release of
tokens are left out.

### ToolEffectBroker, NodeAttempts

A call of the broker is its two transactions with the tool between them: a marker
before the dispatch (`SelectOrInsert`), then the receipt (`StoreReceipt`), or the
withdrawal of the marker of a tool that never started (`Withdraw`). A database reply
may be lost after its transaction was applied (`InsertUnconfirmed`, `LoseOutcome`).
`performed` counts the real effects of a slot.

`orch` is the coroutine that drives an invocation, `body` the dispatched attempts
with the fields of `DispatchedAttempt`. A timeout settles an attempt before its body
stops; a body that does not stop by the stop deadline is detached and goes on by
itself, also beside a later run of the same invocation. `Settle` is
`settle_failed_attempt` with the effects the attempt recorded in memory. `Crash` ends
every body; `Resume` continues the latest attempt whose start was recorded.
The namespace of an attempt is its slot, and a body makes one call. The calls of a
body that makes several differ in their ordinals and share no row.

### ChildRuns

| Variable | Code |
|---|---|
| `run` | the run records of the parent and of its children: state, fence, budget left and held, what a pause waits for |
| `relation`, `head` | the relation rows and the relation head of the parent |
| `ctl` | the `RunControl` each process holds |
| `owed` | completion callbacks that have not run yet |
| `wake` | the tasks of `wake_paused_parent`, per run that spawned one |
| `ending` | what is left of the clean-up after a parent's end |

A publication loads the head, builds the record and compares-and-publishes, and
starts again when the head moved, so that it is one step here; what it reads of
*other* records is a step of its own. Budgets are one number. Left out: execution
leases, legacy `Publishing` rows, lineages and hand-offs, failing sinks, and the
bound of 64 publication attempts. A live control that is stale because its run was
taken over stays until its next publication (`MarkTakenOver`) or a reconnect.

### LiveMigration

Three threads share one `RunControl`: the source's attempt, a caller of
`migrate_graph`, a caller of `cancel`. A `GraphSafePointRequest` is used once, and
the control renews it (`RequestCleared`). The store may apply a write whose answer is lost,
and fail the reads that would tell (`PublishSafePoint`, `PublishTarget`, `Release`).

### HookOutbox

One event with mandatory Hooks, emitted by several runners that may crash and emit it
again. Each operation of the journal is one step, and time passes between any two.
The fencing token and the attempt count change together and are one field. Left out:
observational Hooks, artifacts, a parent's deadline, composed runtimes. Assumption:
a backend that throws performed nothing, which is true of the native adapter (it
turns the exceptions of a target that started into an uncertain result); a backend of
the application's own must keep to it.

### HostAdmission, ConnPool

`HostAdmission` has one resource in place of the vector of fourteen; each operation
of the controller is one critical section, and the poll loop of `reserve_async` is
several steps. Priority inheritance, which scheduling does not read, is left out.
`ConnPool` is one host of the pool. A connection is what the client does not see:
whether the server still serves it, and which requests sent on it have an unread
response. An exchange is two steps, so that a caller can give up, or the server
close, between a request and its response.

## 3. Runs

`MCGraphRun` has the instances of the engine. `MCServices` and `MCEffects` are
suites: the variable `part` is chosen by the initial state, only that component
moves, and the others stand still, so that one run explores the sum of their state
spaces. They extend the modules, so that the properties a run checks are the very
definitions the theorems state, and instantiate a module again where a second set of
constants is looked at (`HostAdmission` is only instantiated). A `.cfg` only gives
values to constants. Deadlock checking is off where the system may
stop: nothing obliges a host to start another run or submit another task, and bounds
exhaust.

| Run | Distinct states | Instance | Shows |
|---|---|---|---|
| `services` | 278,230 | gate: 3 callers; queue: 2 workers, 2 closers, 3 tasks of which 2 close, capacity 2; token: 2 tokens, 2 threads, 3 bindings; host: 3 clients, capacity 1 or 2, pressure; pool: 3 requests, 2 permits; migration: 2 requests | what is counted is what is held, exclusion, nothing is sent or runs twice, every caller returns |
| `effects` | 367,886 | attempts: 2 bodies, 1 retry, 1 resume; children: takeover by a second process, a wake in two processes, a parent that waits for two children; Hooks: 2 runners with two attempts, two deliveries, two Hooks | effects once, late results discarded, one executor, funded children, truthful rows, wakes and emissions that end |
| `pauses` | 806,393 | fan-out of two into a gated join; nodes ask, fail and leave an uncertain effect beside one another; 4 runs, 5 checkpoints | siblings replay, answers reach their question, the gate holds, rows outlive their step, whole super-steps |
| `sends` | 449,381 | Sends from the entry node, once, twice and to an unknown node; Sends that ask, fail or are uncertain | the anchor carries the results, a refused batch stores nothing |
| `routing` | 8,615 | open and closed conditions, goto, failure edge, failure exit, alternatives in a join, three gates, interrupt_after, budget, time travel | gates hold, stored barriers and ready sets are those of whole steps; a driven run ends |
| `administration` | 433,599 | two threads, `update_state` with and without `as_node`, `fork`, crashes in the copy | a resume of the edited or forked thread replays and answers what the original would |
| `time_travel`, `self_send`, `approved`, `budget`, `retried`, `lost_wake` | | | the six findings of section 6 |

### The properties

- `AncestryAccepted`: a resume never meets an ancestry `require_parent` refuses.
- `FinishedSiblingsReplay`: a resume of a pause replays exactly what its siblings
  had finished.
- `AnswersReachTheirQuestion`: a resume value is only ever seen by the invocation
  that asked, in the step it asked in.
- `GatesHold`: a gated node runs only when its own gate was answered in that step.
- `RowsOutliveTheirStep`: recorded results are discarded only once the step's
  Completed checkpoint is stored.
- `StoresWholeSuperSteps`: refinement of `SuperSteps`.
- `EveryRunEnds`: a driven run ends.

The runs check replay, answers and gates as `ResumesFaithfully`, and
`RowsOutliveTheirStep` with the refinement as `StepsAreKept`.

- `OncePerSlot`, `OncePerRun`: an effect is performed at most once in a slot, and at
  most once over all attempts of a run that was neither crashed nor resumed.
- `LateResultsDiscarded`: a body that returns after its timeout passed is not the
  invocation's result.
- `ChildrenFunded`: what children hold is covered by what their parent has left.
- `RowsFollowRuns`: a relation row that ended shows how its run ended, and a run that
  ended has an open row only while somebody is bound to repair it.
- `OneExecutor`: at most one process can publish for a run that is Running.
- `ContinuedWhenAnswered`, `PausedParentContinues`: a paused parent is continued only
  when everything it waits for has ended, and then it is.
- `NoOrphans`: a child whose parent ended before it started does not stay Running.
- `BoundariesHold`, `DeliveredOnce`, `NonIdempotentOnce`: a boundary passes only when
  each mandatory Hook succeeded by the very attempt its entry records; an event is
  delivered once; the effect of a non-idempotent Hook happens once in a delivery.
- `ReservedIsHeld`, `NobodyWhoFitsWaits`, `WaitsEnd`: the host's books balance, no
  operation forgets to schedule, no wait is for ever.
- `SentOnce`, `OwnResponses`: a request that is not replayable reaches the server at
  most once, and nobody reads another request's response.
- `OneGenerationRuns`: once the lineage is the target's, the source executes no more; a
  source that was cancelled or ended may still be at its last look, where it stops.

Those of the other modules are commented where they are defined.

### Why the bounds are enough

Two ready nodes and a join are the least graph in which a sibling finishes while
another asks, and in which a barrier outlives a step. Four runs with four
checkpoints allow a pause, a resume that is cut short after it recorded a row, a
second resume that pauses again, and the resume that reads the chain: the least
history in which one task has two rows under one checkpoint. Three bindings let an emit of an old binding meet a new one while a
third replaces it. One retry and one resume with two bodies let a detached body meet
its successor in the same slot. Two fences let a process go on after it was taken over.
One crash and two processes let a wake stop half-way with another to take its place;
with a second pause of the parent the finding `lost_wake` appears, so `effects` bounds
the parent to one. Three clients of the host's controller let a small request overtake
a large one that pressure keeps waiting. Two deliveries and two runners let one runner
number a delivery the other still works on. Two requests of a migration let the object
of an old request meet the new one. Larger safety-only instances of `CancelToken` (three tokens, two
bindings, 346,817 states) were checked as well.

`MaxSteps` is `max_steps` of the code. `MaxRuns`, `MaxEdits` and `MaxCheckpoints`
bound the exploration: a run that would exceed `MaxCheckpoints` stops there, so
`EveryRunEnds` is checked with room for every checkpoint a run can save (`routing`:
10, of which the run never stores more than 7).

### Fairness

- `GraphRun` (`routing` only): weak fairness of the engine's own steps. The
  coroutine is driven to its end by its executor, nodes are assumed to return.
  Nothing obliges the host to start anything, and nothing obliges or forbids a
  crash.
- `RequestQueue`: weak fairness of each worker, of each closing thread and of the
  cancellation loop, all of which are threads of the operating system that poll or
  wait on a condition with a notification. Nobody is obliged to submit or close;
  task bodies are assumed to return.
- `CancelToken`: weak fairness of every call in progress, of every strand (its
  executor runs posted work) and of the user's steps once begun.
- `NodeAttempts`: the orchestrator's executor and its timers. A body is application
  code that may hang for ever and gets none.
- `ChildRuns`: the callbacks, wake tasks and spawned attempts of a process that does
  not crash. Nothing obliges a host to call, or a run to end.
- `HookOutbox`: each runner that does not crash; no step of it waits for another.
- `HostAdmission`: the poll timer of a waiting call and the destruction of its frame.
  Whether a grant ever comes is left open: the queue's timeout ends the wait.

## 4. Proofs

TLAPS checks the proofs with Z3, Zenon and LS4. Every theorem holds for every value
of the constants that satisfies the named assumptions: no bound of a run, no number
of actors and no graph is fixed. A module `XProofs` extends the module it is about;
`ServicesProofs` holds the theorems of three small components.

| Module | Theorem | Property | Of |
|---|---|---|---|
| `ServicesProofs` | `AdmissionCorrect` | `ExclusiveAdministration` | `EngineAdmission` |
| | `GenerationsTakeTurns` | `OneGenerationRuns` | `LiveMigration` |
| | `RequestsSentOnce`, `ResponsesAreOwn` | `SentOnce`, `OwnResponses` | `ConnPool` |
| `GraphRunProofs` | `AncestryIsAccepted` | `AncestryAccepted` | `GraphRun` |
| | `ResultsOutliveTheirStep` | `RowsOutliveTheirStep`, in `StepsAreKept` | |
| | `GatesAreAnswered` | `GatesHold`, in `ResumesFaithfully` | |
| `SuperStepsProofs` | `ImplementsSuperSteps` | `StoresWholeSuperSteps` | `GraphRun`, `SuperSteps` |
| | `StepsStayWhole` | `StepsAreKept` | |
| `NodeAttemptsProofs` | `EffectsOncePerSlot`, `EffectsOncePerRun`, `LateBodiesDiscarded` | `OncePerSlot`, `OncePerRun`, `LateResultsDiscarded` | `NodeAttempts`, `ToolEffectBroker` |
| `ChildRunsProofs` | `RunsHaveOneExecutor`, `ChildrenStayFunded`, `ParentsContinueAnswered`, `RelationTellsTheTruth` | `OneExecutor`, `ChildrenFunded`, `ContinuedWhenAnswered`, `RowsFollowRuns` | `ChildRuns` |
| `HookOutboxProofs` | `MandatoryHooksRan`, `EventsDeliveredOnce`, `NonIdempotentHooksOnce` | `BoundariesHold`, `DeliveredOnce`, `NonIdempotentOnce` | `HookOutbox` |
| `CancelTokenProofs` | `ChildrenAreCancelled`, `EmitsAreExclusive` | `NoChildEscapes`, `EmitsExclusively` | `CancelToken` |
| `RequestQueueProofs` | `QueueSlotsAccounted`, `ClosedQueueIsQuiescent` | `SlotsAccounted`, `ClosedIsQuiescent` | `RequestQueue` |

Each argument rests on an inductive invariant, because the property alone says too
little of the actors in flight:

- **Admission gate** (any finite set of callers). `IInv` adds `GateCountsGuards`: the
  counter equals the number of guards held, or is -1 exactly while one caller
  administers. A resume that holds one guard makes the counter positive, which keeps
  administrators out until its nested guard is admitted.
- **Lineage** (every graph, node behaviour and bound, as in the next three).
  `LineageInv`: a parent is saved before its child, for no later step, on the same
  thread unless forked, and the run in flight is never behind the checkpoint it
  continues (`RunFollows`).
- **Whole super-steps.** `WholeStepInv`: between two stored configurations a run
  holds the one its step started from (`base`, `ready`, `barrier`), which is a source of
  the abstract specification, and `state` is `base` with exactly the step's own results
  applied. Every save of the engine is then a start, an edit or one whole super-step,
  and every other step a stutter.
- **Recorded results.** `RowsKept`: whoever is about to clear the rows of a parent has
  stored a Completed child of it. All other steps only append. With the refinement
  this is `StepsAreKept`.
- **Gates.** `GatesInv`: what a stored checkpoint lets a resume take for answered (every
  gate of the step after a NodeInterrupt pause, the recorded ones after a gate's pause)
  was answered upstream of it, and so was what a run that was just resumed takes for
  answered; a later step takes none. The lemma `Inherits` says that answers pass from a
  checkpoint to its children, forks and updates included; it is where `LineageInv` is
  needed. `Lineage` is the least set with the parents of its members, so that no
  induction over the chain is needed.
- **Node attempts.** `AttemptInv`: a slot has at most one active call, whose marker is in
  the row and whose effect has not happened before it settles, and once the effect
  happened the row stays (`SlotInv`); a body with a good outcome returned before its
  timeout (`BodyInv`); in the first run an effect belongs to the current attempt, and
  the attempt's body shows it or will read it from its call (`FirstRunInv`), so the
  retry that would repeat it is refused.
- **Child runs.** `RunsInv`: no control is ahead of its run's fence, a Running run has at
  most one process that holds it and a paused run none, so whoever continues it is
  alone. `RowsInv` adds that an open row of a run that ended has its callback owed (or
  lost with its process), and that the head counts the open rows, for a finite set of
  children.
- **Hook outbox.** `OutboxInv`: Hooks and deliveries are taken in their order
  (`OrderInv`); no two runners hold the same attempt, an entry that succeeded is of an
  attempt that performed, and a Hook that is not idempotent has performed in its last
  attempt at most (`EffectInv`).
- **Cancel token.** `TreeInv`: a child of a stopped token is stopped, or some call covers
  it: a `cancel()` that has still to take its snapshot or has the child in it, or the
  `fork()` that registered it and has still to look at the parent. `EmitInv` ties the
  flag to the one strand that emits.
- **Request queue.** `QueueInv`: the counters count workers and tasks by where they are,
  an open future is that of a task which is queued or carried, and the flags of a
  shutdown say how far it is.
- **Live migration.** `MigrationInv`: a source that is held and not stopped is parked, also
  while the target is being published and from then on until it is fenced.
- **Connection pool.** `PoolInv`: an idle connection has nothing unread, and what a call
  has sent and not read is its own request.

The assumptions are the `ASSUME`s of `EngineAdmission`, `Scheduler` and `GraphRun`
(finite callers, a well-formed graph, the types of behaviours and bounds) and the named
hypotheses `QueueConstants`, `TokenConstants`, `RunConstants` and `OutboxConstants`.
TLC evaluates all of them for the instances of the runs.

Only model-checked:

- Liveness (`EveryRunEnds`, `AcceptedTasksSettle`, `CancelReachesBinding`,
  `NoCallHangs`, `WaitsEnd`, `AttemptsEnd`, `PausedParentContinues`, `NoOrphans`,
  `EmissionsEnd`): fairness and ENABLED are out of the prover's reach.
- `FinishedSiblingsReplay` and `AnswersReachTheirQuestion`. They are not true of every
  graph and host (findings 1 and 2), and the replay is defined by a walk along the chain
  of pauses, which would need induction over data.
- `ReservedIsHeld` and `NobodyWhoFitsWaits` of `HostAdmission`: the sums over the
  waiters are folds, of which only induction over data says anything.
- `TypesOK` of the two suites, which joins the type invariants of all their instances;
  the inductive invariants contain the types they need.

## 5. Mutants

Each property of each passing run has a mutant: an operator beside the definition
it replaces that contains a plausible slip (rows cleared too early, the pause chain
not walked, an answer handed to every invocation, a fork that copies nothing, a
worker that joins itself, an emit that ignores the flag). TLC finds the property
violated under the run's own configuration.

## 6. Findings

1. `time_travel`: a resume of an earlier checkpoint by id that completes the step
   clears the rows under it, which a pause of that step still needs. A later resume
   of that pause runs the finished siblings again.
2. `self_send`: when a Send asks whose target is itself ready in the step, the
   answer is bound to the ready node's own task, which replays. The Send asks again.
3. `approved`: answers to gates are bound only by the resume of the gate's own
   checkpoint. If the gated node then fails beside an uncertain effect, the resume
   of that pause runs it without the answer.
4. `budget`: a budget that runs out after the last step stores an empty
   `next_nodes`, which a resume takes for a fresh run.

5. `retried`: that an attempt committed an effect is known only to the process that
   saw it. After a crash, a resumed body that times out before it reaches the broker
   is retried in a fresh namespace, and the effect happens again.
6. `lost_wake`: a wake ends when it finds the parent in the continuation set. The
   task that entered it leaves after the new attempt was started, so the end of a
   second pause's child can fall in between, and nobody continues the parent.

Each is quoted against a document or a test in `PROJECT.json`.

## 7. Not modelled, and why

SQL stores (their atomicity is the database's), reducers and JSON data (the log
stands for them), compilers, loaders and validators (pure translation), prebuilt
graphs (compositions of the engine), HTTP, WebSocket and gRPC marshalling (I/O),
tracing. The step counter is a natural number: the code computes the end of a run
in 64 bits and refuses a step outside `int`, so no wrap is represented. Two hosts
that run one thread at once share the store without coordination in the code, and
are not modelled.

The node cache is a bounded map under one mutex: each operation is one critical
section. The managed budget journal, the lineages, hand-offs and execution leases of
Program runs, and the task tables of the MCP, A2A and ACP servers are protocols that
a state model could reach; they are left out for their size, and `PROJECT.json` lists
them as such. One interleaving of the live migration has no property (section
`hazards`): a caller that stops waiting can release a request in the moment the source
becomes held, after which the source goes on without its durable execution lease.
