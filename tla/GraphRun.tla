------------------------------ MODULE GraphRun -------------------------------
(***************************************************************************)
(* Checkpointed execution of one compiled graph: the super-step loop of    *)
(* GraphEngine::execute_graph_async with the executor's fan-out and Sends, *)
(* the checkpoints and pending writes CheckpointCoordinator keeps, and     *)
(* everything that stops and continues a thread: interrupts before, after  *)
(* and inside a node, failures, a process crash between any two writes to  *)
(* the store, resume, a new turn, update_state and fork.                   *)
(*                                                                         *)
(* The host serialises the runs of a thread (docs/concurrency.md), threads *)
(* share nothing in the store, and administration excludes execution       *)
(* (EngineAdmission), so one operation is in flight at a time: "run".      *)
(***************************************************************************)
EXTENDS StepResults

CONSTANTS
    Threads,          \* thread ids
    InterruptBefore,  \* nodes with an interrupt_before gate
    InterruptAfter,   \* nodes with interrupt_after
    May,              \* node -> how an invocation of it may end
    Gotos,            \* node -> the Command.goto targets it may return, None included
    SendLists,        \* node -> the Send lists it may emit
    ForkThreads,      \* the threads fork() may name as the new thread
    AsNodes,          \* the as_node arguments of update_state, None for none
    MaxSteps,         \* RunConfig::max_steps
    BudgetMayRunOut,  \* whether RunConfig::budget_exhausted may be raised
    TimeTravel,       \* whether the host resumes checkpoints that are not the latest
    MaxRuns,          \* bound: runs and resumes started
    MaxEdits,         \* bound: administrative checkpoints saved
    MaxCheckpoints    \* bound: checkpoints saved

VARIABLES
    cps,       \* the saved checkpoints, in save order; a checkpoint's id is its index
    rows,      \* rows[id]: the pending writes under checkpoint id, in insertion order
    run,       \* the operation in flight
    resumed,   \* history: resumed[r] is the checkpoint run r answers, or 0
    pauses     \* history: pauses[id], what the step of pause id had finished and asked

vars == <<cps, rows, run, resumed, pauses>>

Phases == {"before", "after", "completed", "node_interrupt", "updated"}
Kinds  == {"ok", "ask", "reconcile", "fail", "stop"}
NoFun  == [x \in {} |-> x]
NoPause == [finished |-> NoFun, asked |-> {}]

ASSUME RunAssumption ==
    /\ InterruptBefore \subseteq Nodes /\ InterruptAfter \subseteq Nodes
    /\ May \in [Nodes -> SUBSET Kinds]
    /\ Gotos \in [Nodes -> SUBSET (Nodes \cup {None, End})]
    /\ DOMAIN SendLists = Nodes /\ \A n \in Nodes : SendLists[n] \subseteq Seq(Int)
    /\ ForkThreads \subseteq Threads /\ AsNodes \subseteq Nodes \cup {None}
    /\ MaxSteps \in Nat /\ MaxRuns \in Nat /\ MaxEdits \in Nat /\ MaxCheckpoints \in Nat
    /\ BudgetMayRunOut \in BOOLEAN /\ TimeTravel \in BOOLEAN

-----------------------------------------------------------------------------
(* Tasks.  "s<step>:<node>" is <<step, 0, node>>; Send i of a step is
   <<step, i, target>>. *)
StaticTask(step, node) == <<step, 0, node>>
StaticTasks(step, nodes) == {StaticTask(step, n) : n \in nodes}
SendTask(step, i, node) == <<step, i, node>>
SendTasks(step, sends) == {SendTask(step, i, sends[i]) : i \in DOMAIN sends}

Restricted(f, S) == [x \in DOMAIN f \cap S |-> f[x]]
FirstOf(tasks) ==
    CHOOSE t \in tasks : \A u \in tasks : t[2] < u[2] \/ (t[2] = u[2] /\ t[3] <= u[3])
FirstNode(nodes) == CHOOSE n \in nodes : \A m \in nodes : n <= m

Todo == [kind |-> "todo", res |-> NoFun]
Ended(kind) == [kind |-> kind, res |-> NoFun]
Done(result) == [kind |-> "ok", res |-> result]

(* The tasks of out that ended one of the given ways. *)
Of(out, kinds) == {t \in DOMAIN out : out[t].kind \in kinds}

(* Mutant: run control is not told from a completion. *)
StepEndsOnFailureOnly(out) == Of(out, {"fail"}) # {} /\ Of(out, {"reconcile"}) = {}

(***************************************************************************)
(* step_outcome: run control stops the run; otherwise an uncertain effect  *)
(* pauses the step, even beside a failure; otherwise a failure fails the   *)
(* run; otherwise the step pauses on every interrupt.                      *)
(***************************************************************************)
StepEnds(out) ==
    \/ Of(out, {"stop"}) # {}
    \/ Of(out, {"fail"}) # {} /\ Of(out, {"reconcile"}) = {}
StepPauses(out) ==
    IF Of(out, {"fail"}) # {} THEN Of(out, {"reconcile"})
    ELSE Of(out, {"ask", "reconcile"})

(* The metadata lists the interrupts of a pause only when there are several,
   or when the pause holds back a failure. *)
ListedInterrupts(out) ==
    IF Cardinality(StepPauses(out)) > 1 \/ Of(out, {"fail"}) # {}
    THEN StepPauses(out) ELSE {}

-----------------------------------------------------------------------------
(* Checkpoints and their pending writes. *)
LatestOf(thread) ==
    LET ids == {i \in DOMAIN cps : cps[i].thread = thread}
    IN  IF ids = {} THEN 0 ELSE CHOOSE i \in ids : \A j \in ids : j <= i

ResumePhase(cp) == IF cp.phase = "updated" THEN cp.admin ELSE cp.phase

ResumeStartStep(cp) ==
    IF ResumePhase(cp) \in {"after", "completed", "updated"} THEN cp.step + 1 ELSE cp.step

IsExternalResumeBoundary(cp) ==
    cp.parent # 0 /\ cp.forked = cp.parent /\ cps[cp.forked].thread # cp.thread

PauseChainContinues(cp, step) ==
    /\ ResumePhase(cp) = "node_interrupt"
    /\ cp.parent # 0
    /\ ~IsExternalResumeBoundary(cp)
    /\ cp.step = step

(* The checkpoints whose rows a resume of checkpoint id reads, nearest first. *)
PauseChain(id) ==
    LET walk[i \in 0 .. Len(cps)] ==
            IF i = 0 THEN <<>>
            ELSE IF PauseChainContinues(cps[i], cps[id].step)
                 THEN <<i>> \o walk[cps[i].parent] ELSE <<i>>
    IN  walk[id]

(* require_parent accepts every parent the walk loads. *)
ParentAccepted(cp) ==
    PauseChainContinues(cp, cp.step) =>
        /\ cp.parent \in DOMAIN cps
        /\ cps[cp.parent].thread = cp.thread
        /\ ResumePhase(cps[cp.parent]) = "node_interrupt" =>
              cps[cp.parent].step <= cp.step

SelectedRows(id, i) ==
    LET ofStep(row) == ResumePhase(cps[id]) = "node_interrupt" => row.task[1] = cps[id].step
    IN  SelectSeq(rows[i], ofStep)

(* Mutant: the first row recorded wins. *)
OldestRow(seq, task) ==
    LET of == {i \in DOMAIN seq : seq[i].task = task}
    IN  seq[CHOOSE i \in of : \A j \in of : i <= j].res

NewestRow(seq, task) ==
    LET of == {i \in DOMAIN seq : seq[i].task = task}
    IN  seq[CHOOSE i \in of : \A j \in of : j <= i].res

(* collect_resume_writes: one result per task id, the nearest checkpoint's
   newest row. *)
ResumeWrites(id) ==
    LET chain == PauseChain(id)
        sel   == [k \in DOMAIN chain |-> SelectedRows(id, chain[k])]
        holds == [k \in DOMAIN chain |-> {sel[k][i].task : i \in DOMAIN sel[k]}]
        near(t) == CHOOSE k \in DOMAIN chain :
                      t \in holds[k] /\ \A j \in DOMAIN chain : t \in holds[j] => k <= j
    IN  [t \in UNION {holds[k] : k \in DOMAIN chain} |-> NewestRow(sel[near(t)], t)]

(* Mutant: a pause in the Sends is taken for one of the ready nodes. *)
PausedTaskIdsReadyOnly(step, current, ready, replay) ==
    LET asked == StaticTasks(step, ready) \ DOMAIN replay
    IN  IF asked # {} THEN asked ELSE StaticTasks(step, ready)

(* paused_task_ids: the invocations a resume runs instead of replaying. *)
PausedTaskIds(step, current, ready, replay) ==
    LET asked == StaticTasks(step, ready) \ DOMAIN replay
        ran   == [n \in ready |-> replay[StaticTask(step, n)]]
    IN  CASE asked # {} -> asked
          [] asked = {} /\ current \in ready -> {StaticTask(step, current)}
          [] OTHER -> SendTasks(step, PendingSends(ran)) \ DOMAIN replay

(* The interrupts a resume of a NodeInterrupt checkpoint may answer. *)
PendingInterrupts(cp, replay) ==
    IF cp.interrupts # {} THEN cp.interrupts
    ELSE PausedTaskIds(cp.step, cp.current, cp.next, replay)

Save(cp) ==
    /\ Len(cps) < MaxCheckpoints
    /\ cps' = Append(cps, cp)
    /\ rows' = Append(rows, <<>>)

PutRow(id, task, result) ==
    rows' = IF id = 0 THEN rows
            ELSE [rows EXCEPT ![id] = Append(@, [task |-> task, res |-> result])]

-----------------------------------------------------------------------------
(* The operation in flight.  base is the state the step started from, state
   what the run holds now; out is how each task of the batch ended. *)
Idle == [pc |-> "idle", thread |-> None, from |-> 0, start |-> 0, step |-> 0,
         ready |-> {}, last |-> 0, replay |-> NoFun, barrier |-> EmptyBarrier,
         base |-> <<>>, state |-> <<>>, passed |-> FALSE, gates |-> NoFun,
         answers |-> NoFun, out |-> NoFun, ran |-> NoFun, sent |-> <<>>,
         todo |-> {}]

Init ==
    /\ cps = <<>> /\ rows = <<>>
    /\ run = Idle
    /\ resumed = <<>> /\ pauses = <<>>

Checkpoint(current, next, phase, state, barrier) ==
    [thread |-> run.thread, parent |-> run.last, phase |-> phase, admin |-> phase,
     step |-> run.step, current |-> current, next |-> next, state |-> state,
     barrier |-> barrier, gates |-> NoFun, interrupts |-> {}, forked |-> 0]

OrEnd(nodes) == IF nodes = {} THEN {End} ELSE nodes

Starts(from) ==
    /\ run.pc = "idle"
    /\ Len(resumed) < MaxRuns
    /\ resumed' = Append(resumed, from)

(* run() without resume_if_exists, and the fresh run a resume of a thread whose
   latest checkpoint has no next nodes starts. *)
FreshRun(thread) ==
    /\ Starts(0)
    /\ run' = [Idle EXCEPT !.pc = "loop", !.thread = thread, !.ready = PlanStartStep,
                           !.base = <<InputEntry>>, !.state = <<InputEntry>>]
    /\ UNCHANGED <<cps, rows, pauses>>

(* run() with resume_if_exists: a new turn on the thread's latest state. *)
ContinueThread(thread) ==
    LET id == LatestOf(thread)
        log == Append(cps[id].state, InputEntry)
    IN  /\ id # 0
        /\ Starts(0)
        /\ run' = [Idle EXCEPT !.pc = "loop", !.thread = thread, !.ready = PlanStartStep,
                               !.start = cps[id].step + 1, !.step = cps[id].step + 1,
                               !.last = id, !.base = log, !.state = log]
        /\ UNCHANGED <<cps, rows, pauses>>

(* The run a resume of checkpoint id starts, with the gates and questions it
   answers. *)
Restored(id, gates, answers) ==
    LET cp   == cps[id]
        step == ResumeStartStep(cp)
    IN  [Idle EXCEPT !.pc = "loop", !.thread = cp.thread, !.from = id, !.start = step,
                     !.step = step, !.ready = cp.next, !.last = id,
                     !.replay = ResumeWrites(id), !.barrier = cp.barrier,
                     !.base = cp.state, !.state = cp.state,
                     !.passed = ResumePhase(cp) = "node_interrupt", !.gates = gates,
                     !.answers = answers]

(***************************************************************************)
(* A resume that runs: it restores the checkpoint, loads the results to    *)
(* replay, and answers one question.  A NodeInterrupt pause is answered at *)
(* the interrupt the caller names (or the first); a gate's Before          *)
(* checkpoint is answered at the gate it held, on top of the answers it    *)
(* carries.  The value supplied is the number of the run.                  *)
(***************************************************************************)
ResumeRun(id) ==
    LET cp      == cps[id]
        value   == Len(resumed) + 1
        gate    == ResumePhase(cp) = "before" /\ cp.current \in InterruptBefore
        gates   == IF gate THEN [n \in DOMAIN cp.gates \cup {cp.current} |->
                                    IF n = cp.current THEN value ELSE cp.gates[n]]
                   ELSE NoFun
        pending == PendingInterrupts(cp, ResumeWrites(id))
        asked   == StaticTasks(ResumeStartStep(cp), DOMAIN gates)
    IN  /\ Starts(id)
        /\ \A i \in DOMAIN PauseChain(id) : ParentAccepted(cps[PauseChain(id)[i]])
        /\ IF ResumePhase(cp) = "node_interrupt" /\ pending # {}
           THEN \E t \in pending : run' = Restored(id, gates, [x \in {t} |-> value])
           ELSE run' = Restored(id, gates, [t \in asked |-> gates[t[3]]])
        /\ UNCHANGED <<cps, rows, pauses>>

(* resume(thread): latest checkpoint.  One that ended returns its result. *)
Resume(thread) ==
    LET id == LatestOf(thread)
    IN  /\ id # 0
        /\ IF cps[id].next = {} THEN FreshRun(thread)
           ELSE cps[id].next # {End} /\ ResumeRun(id)

(* resume_from(checkpoint_id): exactly that checkpoint. *)
ResumeFrom(id) ==
    /\ TimeTravel
    /\ cps[id].next # {End}
    /\ ResumeRun(id)

-----------------------------------------------------------------------------
(* The super-step loop. *)
ResumedStep == run.from # 0 /\ run.step = run.start

WithinSteps == run.step < run.start + MaxSteps

(* Mutant: a resume passes every gate of its step. *)
UnansweredGatesOncePerStep ==
    IF ResumedStep THEN {} ELSE run.ready \cap InterruptBefore

UnansweredGates ==
    IF ResumedStep /\ run.passed THEN {}
    ELSE (run.ready \cap InterruptBefore) \
         (IF ResumedStep THEN DOMAIN run.gates ELSE {})

(* Nothing is ready, or max_steps are used up. *)
LoopEnds ==
    /\ run.pc = "loop"
    /\ run.ready = {} \/ ~WithinSteps
    /\ run' = Idle
    /\ UNCHANGED <<cps, rows, resumed, pauses>>

(* The shared budget ran out: the state is committed as it is, with the ready
   nodes as they are, and the run returns. *)
BudgetStop ==
    /\ run.pc = "loop" /\ WithinSteps /\ BudgetMayRunOut
    /\ Save(Checkpoint(None, run.ready, "completed", run.state, run.barrier))
    /\ run' = [run EXCEPT !.pc = "budget"]
    /\ pauses' = Append(pauses, NoPause)
    /\ UNCHANGED resumed

GatePause ==
    LET due == UnansweredGates
    IN  /\ run.pc = "loop" /\ WithinSteps
        /\ due # {}
        /\ Save([Checkpoint(FirstNode(due), run.ready, "before", run.state, run.barrier)
                    EXCEPT !.gates = IF ResumedStep THEN run.gates ELSE NoFun])
        /\ run' = Idle
        /\ pauses' = Append(pauses, NoPause)
        /\ UNCHANGED resumed

Dispatch(tasks) == [t \in tasks |-> IF t \in DOMAIN run.replay THEN Done(run.replay[t]) ELSE Todo]

(* Mutant: the rows are dropped once they are loaded. *)
EnterStepDroppingRows ==
    LET out == Dispatch(StaticTasks(run.step, run.ready))
    IN  /\ run.pc = "loop" /\ WithinSteps
        /\ run.ready # {} /\ UnansweredGates = {}
        /\ rows' = IF run.last = 0 THEN rows ELSE [rows EXCEPT ![run.last] = <<>>]
        /\ run' = [run EXCEPT !.pc = "exec", !.out = out]
        /\ UNCHANGED <<cps, resumed, pauses>>

(* The step starts: every gate is answered.  A fan-out that no checkpoint
   precedes first saves an anchor to record its results under. *)
EnterStep ==
    LET out == Dispatch(StaticTasks(run.step, run.ready))
    IN  /\ run.pc = "loop" /\ WithinSteps
        /\ run.ready # {} /\ UnansweredGates = {}
        /\ IF run.last = 0 /\ Cardinality(run.ready) > 1
           THEN /\ Save(Checkpoint(None, run.ready, "before", run.state, run.barrier))
                /\ run' = [run EXCEPT !.pc = "exec", !.out = out, !.last = Len(cps) + 1]
                /\ pauses' = Append(pauses, NoPause)
           ELSE /\ run' = [run EXCEPT !.pc = "exec", !.out = out]
                /\ UNCHANGED <<cps, rows, pauses>>
        /\ UNCHANGED resumed

(***************************************************************************)
(* The invocation of a task: it replays above, or its node runs and ends   *)
(* one of the ways it may.  A finished one is recorded under the           *)
(* checkpoint the step started from, before its writes are applied.  A     *)
(* failure that has a failure edge and is routable is a result.            *)
(***************************************************************************)
Results(task) ==
    LET got  == IF task \in DOMAIN run.answers THEN run.answers[task] ELSE 0
        base == [run |-> Len(resumed), got |-> got, goto |-> None, sends |-> <<>>, failed |-> FALSE]
        may  == May[task[3]]
    IN  {[base EXCEPT !.goto = g, !.sends = s] :
            g \in IF "ok" \in may THEN Gotos[task[3]] ELSE {}, s \in SendLists[task[3]]}
        \cup {[base EXCEPT !.failed = TRUE] :
                 k \in {"fail"} \cap (IF task[3] \in DOMAIN FailureTarget THEN may ELSE {})}

TaskFinishes(task) ==
    /\ run.pc \in {"exec", "sends"}
    /\ run.out[task] = Todo
    /\ \E result \in Results(task) :
          /\ run' = [run EXCEPT !.out[task] = Done(result)]
          /\ PutRow(run.last, task, result)
    /\ UNCHANGED <<cps, resumed, pauses>>

TaskThrows(task) ==
    /\ run.pc \in {"exec", "sends"}
    /\ run.out[task] = Todo
    /\ \E kind \in May[task[3]] \ {"ok"} : run' = [run EXCEPT !.out[task] = Ended(kind)]
    /\ UNCHANGED <<cps, rows, resumed, pauses>>

BatchDone(pc) == run.pc = pc /\ Of(run.out, {"todo"}) = {}

ResultsOf(out) == [t \in Of(out, {"ok"}) |-> out[t].res]

(* Mutant: the checkpoint continues with the nodes that asked. *)
PauseOnAskers(current, finishedTasks) ==
    /\ Save([Checkpoint(current, {t[3] : t \in StepPauses(run.out)}, "node_interrupt",
                        run.base, run.barrier)
                EXCEPT !.interrupts = ListedInterrupts(run.out)])
    /\ pauses' = Append(pauses, [finished |-> finishedTasks, asked |-> StepPauses(run.out)])
    /\ run' = Idle
    /\ UNCHANGED resumed

(* The NodeInterrupt checkpoint re-enters the whole step from the state it
   started from. *)
PauseOn(current, finishedTasks) ==
    /\ Save([Checkpoint(current, run.ready, "node_interrupt", run.base, run.barrier)
                EXCEPT !.interrupts = ListedInterrupts(run.out)])
    /\ pauses' = Append(pauses, [finished |-> finishedTasks, asked |-> StepPauses(run.out)])
    /\ run' = Idle
    /\ UNCHANGED resumed

StopRun ==
    /\ run' = Idle
    /\ UNCHANGED <<cps, rows, resumed, pauses>>

(* The step's outcome is decided once every invocation of the batch ended. *)
BatchStops(pc) ==
    /\ BatchDone(pc) /\ StepEnds(run.out)
    /\ StopRun

ReadyPauses ==
    /\ BatchDone("exec") /\ ~StepEnds(run.out) /\ StepPauses(run.out) # {}
    /\ PauseOn(FirstOf(StepPauses(run.out))[3], ResultsOf(run.out))

ReadyResults == [n \in run.ready |-> run.out[StaticTask(run.step, n)].res]

(* Unknown Send targets refuse the whole batch. *)
StartSends(r, sends) ==
    IF \A i \in DOMAIN sends : sends[i] \in Nodes
    THEN [r EXCEPT !.pc = "sends", !.out = Dispatch(SendTasks(r.step, sends)), !.todo = {}]
    ELSE Idle

(* Every ready node finished: its writes are applied.  A step that no
   checkpoint precedes saves an anchor before its Sends run. *)
ReadyApplied ==
    LET ran   == ReadyResults
        sends == PendingSends(ran)
        r     == [run EXCEPT !.state = Append(@, RanEntry(ran)), !.ran = ran]
    IN  /\ BatchDone("exec") /\ Of(run.out, {"ok"}) = DOMAIN run.out
        /\ \/ /\ sends = <<>>
              /\ run' = [r EXCEPT !.pc = "plan", !.out = NoFun]
              /\ UNCHANGED <<cps, rows, pauses>>
           \/ /\ sends # <<>> /\ run.last # 0
              /\ run' = StartSends(r, sends)
              /\ UNCHANGED <<cps, rows, pauses>>
           \/ /\ sends # <<>> /\ run.last = 0
              /\ Save(Checkpoint(None, run.ready, "before", run.base, run.barrier))
              /\ run' = [r EXCEPT !.pc = "anchor", !.last = Len(cps) + 1, !.todo = run.ready]
              /\ pauses' = Append(pauses, NoPause)
        /\ UNCHANGED resumed

(* The ready nodes' results are recorded under the anchor one by one. *)
AnchorRow ==
    LET n == FirstNode(run.todo)
    IN  /\ run.pc = "anchor" /\ run.todo # {}
        /\ PutRow(run.last, StaticTask(run.step, n), run.ran[n])
        /\ run' = [run EXCEPT !.todo = @ \ {n}]
        /\ UNCHANGED <<cps, resumed, pauses>>

AnchorDone ==
    /\ run.pc = "anchor" /\ run.todo = {}
    /\ run' = StartSends(run, PendingSends(run.ran))
    /\ UNCHANGED <<cps, rows, resumed, pauses>>

StaticFinished == [t \in StaticTasks(run.step, run.ready) |-> run.ran[t[3]]]

SendsPause ==
    /\ BatchDone("sends") /\ ~StepEnds(run.out) /\ StepPauses(run.out) # {}
    /\ PauseOn(FirstOf(StepPauses(run.out))[3],
               LET sent == ResultsOf(run.out) IN
               [t \in DOMAIN StaticFinished \cup DOMAIN sent |->
                   IF t[2] = 0 THEN StaticFinished[t] ELSE sent[t]])

SentResults ==
    LET sends == PendingSends(run.ran)
    IN  [i \in DOMAIN sends |-> run.out[SendTask(run.step, i, sends[i])].res]

(* A Send execution that returned Sends fails the run before any of the batch
   is applied; otherwise the results fan back in in Send order. *)
SendsApplied ==
    LET sent == SentResults
    IN  /\ BatchDone("sends") /\ Of(run.out, {"ok"}) = DOMAIN run.out
        /\ run' = IF \E i \in DOMAIN sent : sent[i].sends # <<>> THEN Idle
                  ELSE [run EXCEPT !.pc = "plan", !.out = NoFun, !.sent = sent,
                                   !.state = Append(@, SentEntry(sent))]
        /\ UNCHANGED <<cps, rows, resumed, pauses>>

(* Mutant: an interrupt_after pause saves the barrier of the step's
   start. *)
StepCompletesStaleBarrier ==
    \E labels \in Labelings :
        LET routings == UnifiedRoutings(run.ran, run.sent)
            plan     == PlanNextStep(routings, labels, run.barrier)
            next     == NextReady(routings, plan)
            after    == run.ready \cap InterruptAfter
        IN  /\ run.pc = "plan" /\ ~RoutingFails(routings, labels)
            /\ IF after # {}
               THEN /\ Save(Checkpoint(FirstNode(after), OrEnd(next), "after",
                                       run.state, run.barrier))
                    /\ run' = Idle
               ELSE /\ Save(Checkpoint(None, OrEnd(next), "completed", run.state, plan.barrier))
                    /\ run' = [run EXCEPT !.pc = "commit", !.ready = next,
                                          !.barrier = plan.barrier]
            /\ pauses' = Append(pauses, NoPause)
            /\ UNCHANGED resumed

(* The step ends: the scheduler plans, then either an interrupt_after pause or
   the step's Completed checkpoint is saved. *)
StepCompletes ==
    \E labels \in Labelings :
        LET routings == UnifiedRoutings(run.ran, run.sent)
            plan     == PlanNextStep(routings, labels, run.barrier)
            next     == NextReady(routings, plan)
            after    == run.ready \cap InterruptAfter
        IN  /\ run.pc = "plan"
            /\ \/ /\ RoutingFails(routings, labels)
                  /\ StopRun
               \/ /\ ~RoutingFails(routings, labels) /\ after # {}
                  /\ Save(Checkpoint(FirstNode(after), OrEnd(next), "after",
                                     run.state, plan.barrier))
                  /\ run' = Idle
                  /\ pauses' = Append(pauses, NoPause)
                  /\ UNCHANGED resumed
               \/ /\ ~RoutingFails(routings, labels) /\ after = {}
                  /\ Save(Checkpoint(None, OrEnd(next), "completed", run.state, plan.barrier))
                  /\ run' = [run EXCEPT !.pc = "commit", !.ready = next,
                                        !.barrier = plan.barrier]
                  /\ pauses' = Append(pauses, NoPause)
                  /\ UNCHANGED resumed

Cleared(id) == IF id = 0 THEN rows ELSE [rows EXCEPT ![id] = <<>>]

(* Only then are the writes under the step's parent cleared, and the loop goes
   on, or returns when the budget had run out. *)
CommitClears ==
    /\ run.pc \in {"commit", "budget"}
    /\ rows' = Cleared(run.last)
    /\ run' = IF run.pc = "budget" THEN Idle
              ELSE [run EXCEPT !.pc = "loop", !.step = @ + 1, !.last = Len(cps),
                               !.replay = NoFun, !.base = run.state,
                               !.ran = NoFun, !.sent = <<>>]
    /\ UNCHANGED <<cps, resumed, pauses>>

(* The process stops, the run is cancelled, or a store call throws. *)
Crash ==
    /\ run.pc # "idle"
    /\ StopRun

-----------------------------------------------------------------------------
(* Administration. *)
IsEdit(cp) == cp.phase = "updated" \/ (cp.forked # 0 /\ cp.forked = cp.parent)
MayEdit ==
    /\ run.pc = "idle"
    /\ Cardinality({i \in DOMAIN cps : IsEdit(cps[i])}) < MaxEdits

(* Mutant: as_node schedules the node's successors. *)
UpdateStateReplanning(thread, as) ==
    LET id == LatestOf(thread)
        cp == cps[id]
    IN  /\ MayEdit
        /\ id # 0
        /\ Save([cp EXCEPT !.parent = id, !.phase = "updated",
                           !.admin = IF as = None THEN ResumePhase(cp) ELSE "updated",
                           !.next = IF as = None THEN @ ELSE OrEnd(Successors(as)),
                           !.state = Append(@, UpdateEntry)])
        /\ pauses' = Append(pauses, IF as = None THEN pauses[id] ELSE NoPause)
        /\ UNCHANGED <<run, resumed>>

(* update_state: a child of the latest checkpoint that keeps its continuation;
   with as_node the resume starts the next step, otherwise it does what a
   resume of the updated checkpoint did. *)
UpdateState(thread, as) ==
    LET id == LatestOf(thread)
        cp == cps[id]
    IN  /\ MayEdit
        /\ id # 0
        /\ Save([cp EXCEPT !.parent = id, !.phase = "updated",
                           !.admin = IF as = None THEN ResumePhase(cp) ELSE "updated",
                           !.current = IF as = None THEN @ ELSE as,
                           !.state = Append(@, UpdateEntry)])
        /\ pauses' = Append(pauses, IF as = None THEN pauses[id] ELSE NoPause)
        /\ UNCHANGED <<run, resumed>>

(* Mutant: the fork does not say what it was forked from. *)
ForkUnmarked(id, thread) ==
    /\ MayEdit
    /\ Save([cps[id] EXCEPT !.thread = thread, !.parent = id])
    /\ pauses' = Append(pauses, NoPause)
    /\ run' = [Idle EXCEPT !.pc = "copy", !.from = id, !.last = Len(cps) + 1,
                           !.replay = ResumeWrites(id)]
    /\ UNCHANGED resumed

(* fork: the checkpoint is saved under the new thread, then the writes a resume
   of the source replays are copied one by one. *)
Fork(id, thread) ==
    /\ MayEdit
    /\ \A i \in DOMAIN PauseChain(id) : ParentAccepted(cps[PauseChain(id)[i]])
    /\ Save([cps[id] EXCEPT !.thread = thread, !.parent = id, !.forked = id])
    /\ pauses' = Append(pauses, NoPause)
    /\ run' = [Idle EXCEPT !.pc = "copy", !.from = id, !.last = Len(cps) + 1,
                           !.replay = ResumeWrites(id)]
    /\ UNCHANGED resumed

(* Mutant: the fork carries no writes. *)
ForkCopiesNothing ==
    /\ run.pc = "copy"
    /\ run' = Idle
    /\ pauses' = [pauses EXCEPT ![run.last] = pauses[run.from]]
    /\ UNCHANGED <<cps, rows, resumed>>

ForkCopies ==
    /\ run.pc = "copy"
    /\ \/ \E t \in DOMAIN run.replay :
             /\ PutRow(run.last, t, run.replay[t])
             /\ run' = [run EXCEPT !.replay = Restricted(@, DOMAIN @ \ {t})]
             /\ UNCHANGED <<cps, resumed, pauses>>
       \/ /\ run.replay = NoFun
          /\ run' = Idle
          /\ pauses' = [pauses EXCEPT ![run.last] = pauses[run.from]]
          /\ UNCHANGED <<cps, rows, resumed>>

Step ==
    \/ LoopEnds \/ BudgetStop \/ GatePause \/ EnterStep
    \/ \E t \in DOMAIN run.out : TaskFinishes(t) \/ TaskThrows(t)
    \/ BatchStops("exec") \/ ReadyPauses \/ ReadyApplied
    \/ AnchorRow \/ AnchorDone
    \/ BatchStops("sends") \/ SendsPause \/ SendsApplied
    \/ StepCompletes \/ CommitClears \/ ForkCopies

Next ==
    \/ \E thread \in Threads :
          \/ FreshRun(thread) \/ ContinueThread(thread) \/ Resume(thread)
          \/ \E as \in AsNodes : UpdateState(thread, as)
    \/ \E id \in DOMAIN cps :
          \/ ResumeFrom(id)
          \/ \E thread \in ForkThreads : Fork(id, thread)
    \/ Step
    \/ Crash

Spec == Init /\ [][Next]_vars

(* The engine's coroutine is driven to its end; nothing obliges the host to
   start, resume, edit or fork anything, and nothing obliges a crash. *)
FairSpec == Spec /\ WF_vars(Step)

-----------------------------------------------------------------------------
(* Types. *)
Result == [run : Nat, got : Nat, goto : Int, sends : Seq(Int), failed : BOOLEAN]
Task    == Nat \X Nat \X Int
Row     == [task : Task, res : Result]
Barrier == [DOMAIN Joins -> SUBSET Nodes]
IsRan(f) == DOMAIN f \subseteq Nodes /\ \A n \in DOMAIN f : f[n] \in Result
IsEntry(e) == CASE e.kind = "ran"  -> IsRan(e.of)
                [] e.kind = "sent" -> e.of \in Seq(Result)
                [] OTHER -> e \in {InputEntry, UpdateEntry}
IsLog(log) == \A i \in 1 .. Len(log) : IsEntry(log[i])
IsCheckpoint(cp) ==
    /\ cp.thread \in Threads /\ cp.parent \in Nat /\ cp.forked \in Nat /\ cp.step \in Nat
    /\ cp.phase \in Phases /\ cp.admin \in Phases
    /\ cp.current \in Nodes \cup {None} /\ cp.next \subseteq Nodes \cup {End}
    /\ IsLog(cp.state) /\ cp.barrier \in Barrier
    /\ DOMAIN cp.gates \subseteq InterruptBefore
    /\ \A t \in cp.interrupts : t \in Task
Pcs == {"idle", "loop", "budget", "exec", "anchor", "sends", "plan", "commit", "copy"}

(* Every stored checkpoint, pending write and run variable has its type. *)
TypeOK ==
    /\ \A i \in DOMAIN cps : IsCheckpoint(cps[i])
    /\ rows \in [DOMAIN cps -> Seq(Row)]
    /\ resumed \in Seq(0 .. Len(cps))
    /\ DOMAIN pauses = DOMAIN cps
    /\ run.pc \in Pcs
    /\ run.thread \in Threads \cup {None}
    /\ run.from \in 0 .. Len(cps) /\ run.last \in 0 .. Len(cps)
    /\ run.start \in Nat /\ run.step \in Nat
    /\ run.ready \subseteq Nodes /\ run.barrier \in Barrier
    /\ IsLog(run.base) /\ IsLog(run.state)
    /\ IsRan(run.ran) /\ run.sent \in Seq(Result)

-----------------------------------------------------------------------------
(* Properties. *)

(* The resume of a pause never meets an ancestry it refuses: every parent the
   walk of collect_resume_writes loads is on the thread, and a pause is never
   the child of a later step's pause (require_parent). *)
AncestryAccepted == \A i \in DOMAIN cps : ParentAccepted(cps[i])

FromPause ==
    /\ run.pc \in {"loop", "exec", "anchor", "sends", "plan"}
    /\ ResumedStep /\ ResumePhase(cps[run.from]) = "node_interrupt"

(* A run that resumes a NodeInterrupt pause replays exactly the results its
   siblings had when it was saved: none of them runs again, and none is
   replaced by what another run of the step recorded. *)
FinishedSiblingsReplay ==
    FromPause => LET done == pauses[run.from].finished
                 IN  \A t \in DOMAIN done : t \in DOMAIN run.replay /\ run.replay[t] = done[t]

(* Checkpoint id and everything it continues: what every set has that holds id
   and, with a checkpoint, its parent. *)
HasParents(S) == \A i \in S : cps[i].parent # 0 => cps[i].parent \in S
Lineage(id) ==
    {i \in DOMAIN cps :
        \A S \in SUBSET DOMAIN cps : (id # 0 => id \in S) /\ HasParents(S) => i \in S}

WasResumed(id) == \E r \in DOMAIN resumed : resumed[r] = id

(* What checkpoint id continues was resumed from a pause at node n's gate in
   that step. *)
GateAnswered(n, step, id) ==
    \E j \in Lineage(id) :
        /\ ResumePhase(cps[j]) = "before" /\ cps[j].current = n /\ cps[j].step = step
        /\ WasResumed(j)

(* No node with an interrupt_before gate runs in a step unless the run, or one
   it continues, was resumed from a pause at that node's gate in that step. *)
GatesHold ==
    run.pc \in {"exec", "anchor", "sends", "plan"} =>
        \A n \in run.ready \cap InterruptBefore : GateAnswered(n, run.step, run.last)

(* Checkpoint id asked the invocation task a question.  The thread of a fork
   that stopped half-way has no such guarantee. *)
Asked(id, task) ==
    /\ id # 0
    /\ \/ /\ ResumePhase(cps[id]) = "node_interrupt"
          /\ pauses[id].asked # {} => task \in pauses[id].asked
       \/ /\ ResumePhase(cps[id]) = "before"
          /\ task = StaticTask(cps[id].step, cps[id].current)

(* An answer reaches only the invocation that asked, in the step it asked in:
   whatever value a resume hands out, now or in a recorded result, was given
   to a pause on a question of that very invocation. *)
AnswersReachTheirQuestion ==
    /\ \A t \in DOMAIN run.answers : Asked(resumed[run.answers[t]], t)
    /\ \A id \in DOMAIN rows : \A i \in DOMAIN rows[id] :
          LET row == rows[id][i]
          IN  row.res.got # 0 => Asked(resumed[row.res.got], row.task)

(* A resume keeps the promises of the pause it answers: finished siblings
   replay, answers reach their question, and no gate is passed unanswered. *)
ResumesFaithfully == FinishedSiblingsReplay /\ AnswersReachTheirQuestion /\ GatesHold

(* Once every gate of a step is answered, each gated node runs with the answer
   to its own gate (docs/concepts.md). *)
GatedNodesGetTheirAnswer ==
    \A t \in Of(run.out, {"ok"}) :
        t[2] = 0 /\ t[3] \in InterruptBefore => run.out[t].res.got # 0

(* A finished thread is stored as one: no checkpoint has an empty next_nodes,
   which a resume would take for a thread that never ran. *)
EndsAreExplicit == \A i \in DOMAIN cps : cps[i].next # {}

(* The recorded results of a step are discarded only once the step's Completed
   checkpoint is stored, so no crash loses them both. *)
RowsOutliveTheirStep ==
    [][\A id \in DOMAIN rows :
          Len(rows'[id]) < Len(rows[id]) =>
             \E j \in DOMAIN cps : cps[j].parent = id /\ cps[j].phase = "completed"]_vars

ConfigOf(cp) == [ready |-> cp.next \ {End}, log |-> cp.state, barrier |-> cp.barrier]

Abs == INSTANCE SuperSteps WITH configs <- {ConfigOf(cps[i]) : i \in DOMAIN cps}

(* Whatever stops, crashes, resumes, edits or forks a thread, every state it
   stores is reached by whole super-steps (module SuperSteps). *)
StoresWholeSuperSteps == Abs!Spec

(* No crash leaves a step half done: what is stored is whole super-steps, and
   the results of a step are kept until it is one of them. *)
StepsAreKept == RowsOutliveTheirStep /\ StoresWholeSuperSteps

(* A run that is driven ends. *)
EveryRunEnds == [](run.pc # "idle" => <>(run.pc = "idle"))

-----------------------------------------------------------------------------
(* The inductive invariants behind AncestryAccepted, StoresWholeSuperSteps,
   RowsOutliveTheirStep and GatesHold. *)
IsSeq(s) == s \in Seq({s[i] : i \in DOMAIN s})

CheckpointFields ==
    {"thread", "parent", "phase", "admin", "step", "current", "next", "state",
     "barrier", "gates", "interrupts", "forked"}
RunFields ==
    {"pc", "thread", "from", "start", "step", "ready", "last", "replay", "barrier",
     "base", "state", "passed", "gates", "answers", "out", "ran", "sent", "todo"}

Descends(i) ==
    LET cp == cps[i]
    IN  /\ DOMAIN cp = CheckpointFields
        /\ cp.step \in Nat /\ cp.parent \in Nat /\ cp.parent < i
        /\ cp.parent # 0 => /\ cps[cp.parent].step <= cp.step
                            /\ cps[cp.parent].thread = cp.thread \/ cp.forked = cp.parent

RunFollows ==
    /\ DOMAIN run = RunFields
    /\ run.step \in Nat /\ run.last \in 0 .. Len(cps)
    /\ run.pc \notin {"idle", "copy"} /\ run.last # 0 =>
          cps[run.last].thread = run.thread /\ cps[run.last].step <= run.step
    /\ run.pc = "commit" =>
          /\ Len(cps) # 0
          /\ cps[Len(cps)].thread = run.thread /\ cps[Len(cps)].step = run.step

(* Every checkpoint's parent was saved before it, for a step that is not later,
   on its thread unless it was forked from it; and what a run saves next keeps
   that so, because the run is never behind the checkpoint it continues. *)
LineageInv ==
    /\ IsSeq(cps)
    /\ \A i \in DOMAIN cps : Descends(i)
    /\ RunFollows

InStep == run.pc \in {"loop", "exec", "anchor", "sends", "plan"}

StoredWell ==
    \A i \in DOMAIN cps : /\ IsSeq(cps[i].state)
                          /\ cps[i].next = {End} \/ End \notin cps[i].next

RunWhole ==
    /\ IsSeq(run.state)
    /\ InStep => /\ Abs!Config(run.ready, run.base, run.barrier) \in Abs!Sources
                 /\ IsSeq(run.base) /\ End \notin run.ready
    /\ run.pc \in {"loop", "exec"} => run.state = run.base
    /\ run.pc \in {"loop", "exec", "anchor", "sends"} => run.sent = <<>>
    /\ run.pc \in {"anchor", "sends", "plan"} => DOMAIN run.ran = run.ready
    /\ run.pc \in {"anchor", "sends"} =>
          /\ run.state = Append(run.base, RanEntry(run.ran))
          /\ PendingSends(run.ran) # <<>>
    /\ run.pc = "plan" =>
          /\ run.state = Applied(run.base, run.ran, run.sent)
          /\ DOMAIN run.sent = DOMAIN PendingSends(run.ran)
          /\ PendingSends(run.ran) = <<>> => run.sent = <<>>
    /\ run.pc = "commit" =>
          Abs!Config(run.ready, run.state, run.barrier) = ConfigOf(cps[Len(cps)])

(* Between two stored configurations a run holds the one its step started from,
   and the state it reached is that one with the step's own results applied. *)
WholeStepInv == StoredWell /\ RunWhole

(* Recorded results form sequences, and a run clears those of its step's parent
   when a Completed child of that parent is stored. *)
RowsKept ==
    /\ IsSeq(rows)
    /\ \A id \in DOMAIN rows : IsSeq(rows[id])
    /\ run.pc \in {"commit", "budget"} =>
          \E j \in DOMAIN cps : cps[j].parent = run.last /\ cps[j].phase = "completed"

(* The gates that a resume of checkpoint i takes for answered: all of them after
   a NodeInterrupt pause, those with a recorded answer after a gate's. *)
StoredGates(i) ==
    /\ ResumePhase(cps[i]) = "node_interrupt" =>
          \A n \in cps[i].next \cap InterruptBefore : GateAnswered(n, cps[i].step, i)
    /\ ResumePhase(cps[i]) = "before" =>
          \A n \in DOMAIN cps[i].gates : GateAnswered(n, cps[i].step, i)

(* The same of a run that has just been resumed; a later step takes none. *)
RunGates ==
    /\ run.pc \notin {"idle", "copy"} => run.start \in Nat /\ run.start <= run.step
    /\ run.pc = "loop" /\ ResumedStep =>
          /\ run.passed => \A n \in run.ready \cap InterruptBefore :
                              GateAnswered(n, run.step, run.last)
          /\ \A n \in DOMAIN run.gates : GateAnswered(n, run.step, run.last)

(* Whatever a checkpoint or a run takes for answered was answered upstream. *)
GatesInv ==
    /\ IsSeq(resumed)
    /\ \A i \in DOMAIN cps : StoredGates(i)
    /\ RunGates
    /\ GatesHold
=============================================================================
