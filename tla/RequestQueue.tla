---------------------------- MODULE RequestQueue -----------------------------
(***************************************************************************)
(* util::RequestQueue: a bounded task queue with a fixed pool of worker    *)
(* threads, and a close() that any thread may call, a task included.       *)
(*                                                                         *)
(* The concurrent queue is external: a set of tasks, of which a dequeue    *)
(* takes any one.  What runs under lifecycle_mutex_ is one step.  The wait *)
(* of an idle worker has a timeout, so a worker polls; whether a           *)
(* notification reaches it only changes how soon.                          *)
(***************************************************************************)
EXTENDS Integers, FiniteSets

CONSTANTS
    Workers,       \* the worker threads
    Closers,       \* threads outside the pool that may call close()
    Owner,         \* the one of them that constructs the queue
    Tasks,         \* the tasks that may be submitted, each once
    ClosingTasks,  \* those of them whose body calls close()
    MaxQueueSize

\* Finitely many threads and tasks; the constructing thread is one of the callers.
QueueConstants ==
  IsFiniteSet(Workers) /\ IsFiniteSet(Tasks) /\ Owner \in Closers /\ MaxQueueSize \in Nat

VARIABLES
    built,      \* the constructor: "starting", "ready" or "failed"
    running,    \* running_
    queue,      \* queue_
    pending,    \* pending_: reserved slots
    active,     \* active_
    completed,  \* completed_
    rejected,   \* rejected_
    alive,      \* workers_alive_
    closing,    \* the four flags of a shutdown
    worker,     \* where each worker is
    task,       \* the task each worker holds
    caller,     \* where each caller is
    future      \* future[t]: "none", "waiting", "value", "error" or "refused"

counters == <<pending, active, completed, rejected>>
queueVars == <<built, running, queue, counters, alive, closing, worker, task, caller, future>>

NoTask == "no task"

WorkerPlaces == {"unborn", "loop", "poll", "took", "claim", "body", "joining",
                 "cancelling", "settled", "exiting", "finalizing", "gone"}
CallerPlaces == {"out", "joining", "cancelling", "waiting", "returned"}
Settled == {"value", "error"}

QueueInit ==
    /\ built = "starting" /\ running = TRUE /\ queue = {}
    /\ pending = 0 /\ active = 0 /\ completed = 0 /\ rejected = 0 /\ alive = 0
    /\ closing = [started |-> FALSE, cancelled |-> FALSE, complete |-> FALSE, byWorker |-> FALSE]
    /\ worker = [w \in Workers |-> "unborn"]
    /\ task = [w \in Workers |-> NoTask]
    /\ caller = [c \in Closers |-> "out"]
    /\ future = [t \in Tasks |-> "none"]

Moves(w, from, to) == worker[w] = from /\ worker' = [worker EXCEPT ![w] = to]
CallerMoves(c, from, to) == caller[c] = from /\ caller' = [caller EXCEPT ![c] = to]

(* Every worker thread that was started, but for the given ones, has returned. *)
Joined(except) == \A w \in Workers \ except : worker[w] \in {"unborn", "gone"}

-----------------------------------------------------------------------------
(* The constructor. *)

StartWorker(w) ==
    /\ built = "starting"
    /\ Moves(w, "unborn", "loop")
    /\ alive' = alive + 1
    /\ UNCHANGED <<built, running, queue, counters, closing, task, caller, future>>

Constructed ==
    /\ built = "starting" /\ \A w \in Workers : worker[w] # "unborn"
    /\ built' = "ready"
    /\ UNCHANGED <<running, queue, counters, alive, closing, worker, task, caller, future>>

(* A thread could not be created: the constructor closes what it started. *)
ConstructionFails ==
    /\ built = "starting" /\ \E w \in Workers : worker[w] = "unborn"
    /\ built' = "failed"
    /\ running' = FALSE
    /\ closing' = [closing EXCEPT !.started = TRUE]
    /\ CallerMoves(Owner, "out", "joining")
    /\ UNCHANGED <<queue, counters, alive, worker, task, future>>

-----------------------------------------------------------------------------
(* submit, all of it under lifecycle_mutex_. *)
Refused(t) ==
    /\ rejected' = rejected + 1
    /\ future' = [future EXCEPT ![t] = "refused"]
    /\ UNCHANGED <<queue, pending>>

(* Mutant: closing is not tested. *)
SubmitAlways(t) ==
    /\ built = "ready" /\ future[t] = "none"
    /\ \/ pending >= MaxQueueSize /\ Refused(t)
       \/ /\ pending < MaxQueueSize
          /\ pending' = pending + 1 /\ queue' = queue \cup {t}
          /\ future' = [future EXCEPT ![t] = "waiting"]
          /\ UNCHANGED rejected
    /\ UNCHANGED <<built, running, active, completed, alive, closing, worker, task, caller>>

(* Mutant: a failed enqueue keeps its slot. *)
SubmitKeepingSlot(t) ==
    /\ built = "ready" /\ future[t] = "none"
    /\ \/ ~running /\ Refused(t)
       \/ running /\ pending >= MaxQueueSize /\ Refused(t)
       \/ /\ running /\ pending < MaxQueueSize
          /\ rejected' = rejected + 1 /\ pending' = pending + 1
          /\ future' = [future EXCEPT ![t] = "error"]
          /\ UNCHANGED queue
    /\ UNCHANGED <<built, running, active, completed, alive, closing, worker, task, caller>>

Submit(t) ==
    /\ built = "ready" /\ future[t] = "none"
    /\ \/ ~running /\ Refused(t)
       \/ running /\ pending >= MaxQueueSize /\ Refused(t)
       \/ /\ running /\ pending < MaxQueueSize
          /\ pending' = pending + 1 /\ queue' = queue \cup {t}
          /\ future' = [future EXCEPT ![t] = "waiting"]
          /\ UNCHANGED rejected
       \/ (* the enqueue fails and the reservation is rolled back *)
          /\ running /\ pending < MaxQueueSize
          /\ rejected' = rejected + 1
          /\ future' = [future EXCEPT ![t] = "error"]
          /\ UNCHANGED <<queue, pending>>
    /\ UNCHANGED <<built, running, active, completed, alive, closing, worker, task, caller>>

-----------------------------------------------------------------------------
(* worker_loop: running_ is read, then the queue, then the counters, then the
   claim; close() may come in between. *)
SeesRunning(w) ==
    /\ running /\ Moves(w, "loop", "poll")
    /\ UNCHANGED <<built, running, queue, counters, alive, closing, task, caller, future>>

SeesClosed(w) ==
    /\ ~running /\ Moves(w, "loop", "exiting")
    /\ UNCHANGED <<built, running, queue, counters, alive, closing, task, caller, future>>

FindsNothing(w) ==
    /\ queue = {} /\ Moves(w, "poll", "loop")
    /\ UNCHANGED <<built, running, queue, counters, alive, closing, task, caller, future>>

Dequeues(w) ==
    /\ Moves(w, "poll", "took")
    /\ \E t \in queue : queue' = queue \ {t} /\ task' = [task EXCEPT ![w] = t]
    /\ UNCHANGED <<built, running, counters, alive, closing, caller, future>>

FreesSlot(w) ==
    /\ Moves(w, "took", "claim")
    /\ pending' = pending - 1 /\ active' = active + 1
    /\ UNCHANGED <<built, running, queue, completed, rejected, alive, closing, task, caller, future>>

(* claim_task_start, under lifecycle_mutex_: the body starts, or the future
   reports that the queue is closed. *)
Claims(w) ==
    /\ \/ running /\ Moves(w, "claim", "body") /\ UNCHANGED future
       \/ ~running /\ Moves(w, "claim", "settled")
          /\ future' = [future EXCEPT ![task[w]] = "error"]
    /\ UNCHANGED <<built, running, queue, counters, alive, closing, task, caller>>

BodyEnds(w) ==
    /\ Moves(w, "body", "settled")
    /\ \E end \in Settled : future' = [future EXCEPT ![task[w]] = end]
    /\ UNCHANGED <<built, running, queue, counters, alive, closing, task, caller>>

(* execute_task after the task returned. *)
Accounts(w) ==
    /\ Moves(w, "settled", "loop")
    /\ active' = active - 1 /\ completed' = completed + 1
    /\ task' = [task EXCEPT ![w] = NoTask]
    /\ UNCHANGED <<built, running, queue, pending, rejected, alive, closing, caller, future>>

(* worker_exited: the last worker of a shutdown that a worker started
   completes it. *)
Exits(w) ==
    LET last == /\ closing.started /\ closing.byWorker /\ ~closing.complete
                /\ alive = 1
    IN  /\ Moves(w, "exiting", IF last THEN "finalizing" ELSE "gone")
        /\ alive' = alive - 1
        /\ UNCHANGED <<built, running, queue, counters, closing, task, caller, future>>

Finalizes(w) ==
    /\ closing.cancelled \/ queue = {}
    /\ Moves(w, "finalizing", "gone")
    /\ closing' = [closing EXCEPT !.cancelled = TRUE, !.complete = TRUE]
    /\ UNCHANGED <<built, running, queue, counters, alive, task, caller, future>>

-----------------------------------------------------------------------------
(* close() from a task: the first one to close detaches its own worker and
   joins the others; a later one returns at once. *)
BodyCloses(w) ==
    /\ task[w] \in ClosingTasks /\ ~closing.started
    /\ Moves(w, "body", "joining")
    /\ closing' = [closing EXCEPT !.started = TRUE, !.byWorker = TRUE]
    /\ running' = FALSE
    /\ UNCHANGED <<built, queue, counters, alive, task, caller, future>>

(* Mutant: the worker waits for its own thread too. *)
BodyJoinsItself(w) ==
    /\ Joined({}) /\ Moves(w, "joining", "cancelling")
    /\ UNCHANGED <<built, running, queue, counters, alive, closing, task, caller, future>>

BodyJoins(w) ==
    /\ Joined({w}) /\ Moves(w, "joining", "cancelling")
    /\ UNCHANGED <<built, running, queue, counters, alive, closing, task, caller, future>>

(* cancel_pending_tasks: the claim of a task that is still queued fails. *)
CancelsOne ==
    /\ \/ \E w \in Workers : worker[w] \in {"cancelling", "finalizing"}
       \/ \E c \in Closers : caller[c] = "cancelling"
    /\ \E t \in queue :
          /\ queue' = queue \ {t}
          /\ future' = [future EXCEPT ![t] = "error"]
    /\ pending' = pending - 1 /\ completed' = completed + 1
    /\ UNCHANGED <<built, running, active, rejected, alive, closing, worker, task, caller>>

BodyCancelled(w) ==
    /\ queue = {} /\ Moves(w, "cancelling", "body")
    /\ closing' = [closing EXCEPT !.cancelled = TRUE]
    /\ UNCHANGED <<built, running, queue, counters, alive, task, caller, future>>

(* close() from outside the pool. *)
CallerCloses(c) ==
    /\ built = "ready"
    /\ IF closing.started
       THEN CallerMoves(c, "out", "waiting") /\ UNCHANGED <<running, closing>>
       ELSE /\ CallerMoves(c, "out", "joining")
            /\ closing' = [closing EXCEPT !.started = TRUE]
            /\ running' = FALSE
    /\ UNCHANGED <<built, queue, counters, alive, worker, task, future>>

(* Mutant: a shutdown cancels while its workers still run. *)
CallerJoinsNobody(c) ==
    /\ CallerMoves(c, "joining", "cancelling")
    /\ UNCHANGED <<built, running, queue, counters, alive, closing, worker, task, future>>

CallerJoins(c) ==
    /\ Joined({}) /\ CallerMoves(c, "joining", "cancelling")
    /\ UNCHANGED <<built, running, queue, counters, alive, closing, worker, task, future>>

CallerCancelled(c) ==
    /\ queue = {} /\ CallerMoves(c, "cancelling", "returned")
    /\ closing' = [closing EXCEPT !.cancelled = TRUE, !.complete = TRUE]
    /\ UNCHANGED <<built, running, queue, counters, alive, worker, task, future>>

CallerWaited(c) ==
    /\ closing.complete /\ CallerMoves(c, "waiting", "returned")
    /\ UNCHANGED <<built, running, queue, counters, alive, closing, worker, task, future>>

-----------------------------------------------------------------------------
WorkerStep(w) ==
    \/ SeesRunning(w) \/ SeesClosed(w) \/ FindsNothing(w) \/ Dequeues(w)
    \/ FreesSlot(w) \/ Claims(w) \/ BodyEnds(w) \/ Accounts(w)
    \/ Exits(w) \/ Finalizes(w)
    \/ BodyCloses(w) \/ BodyJoins(w) \/ BodyCancelled(w)

CallerStep(c) == CallerJoins(c) \/ CallerCancelled(c) \/ CallerWaited(c)

QueueNext ==
    \/ \E w \in Workers : StartWorker(w) \/ WorkerStep(w)
    \/ Constructed \/ ConstructionFails
    \/ \E t \in Tasks : Submit(t)
    \/ CancelsOne
    \/ \E c \in Closers : CallerCloses(c) \/ CallerStep(c)

(* Every thread that can move does, and a task's body ends; nobody is obliged
   to submit or to close. *)
QueueFairness ==
    /\ \A w \in Workers : WF_queueVars(WorkerStep(w))
    /\ \A c \in Closers : WF_queueVars(CallerStep(c))
    /\ WF_queueVars(CancelsOne)

QueueSpec == QueueInit /\ [][QueueNext]_queueVars /\ QueueFairness

-----------------------------------------------------------------------------
(* Every variable of the queue has its type. *)
QueueTypeOK ==
    /\ built \in {"starting", "ready", "failed"} /\ running \in BOOLEAN
    /\ queue \subseteq Tasks
    /\ pending \in Nat /\ active \in Nat /\ completed \in Nat /\ rejected \in Nat
    /\ alive \in 0 .. Cardinality(Workers)
    /\ closing \in [started : BOOLEAN, cancelled : BOOLEAN, complete : BOOLEAN, byWorker : BOOLEAN]
    /\ worker \in [Workers -> WorkerPlaces] /\ task \in [Workers -> Tasks \cup {NoTask}]
    /\ caller \in [Closers -> CallerPlaces]
    /\ future \in [Tasks -> Settled \cup {"none", "waiting", "refused"}]

Took == {w \in Workers : worker[w] = "took"}

(* pending_ counts exactly the tasks that are queued or just taken, so that it
   never wraps and the queue never holds more than max_queue_size. *)
SlotsAccounted ==
    /\ pending = Cardinality(queue) + Cardinality(Took)
    /\ pending <= MaxQueueSize

InBody(w) == worker[w] \in {"body", "joining", "cancelling"}

(* Once close() has returned to a thread outside the pool, no task runs or will
   run, every accepted future is settled, and the counters agree with that. *)
ClosedIsQuiescent ==
    (\E c \in Closers : caller[c] = "returned") =>
        /\ queue = {} /\ pending = 0 /\ active = 0
        /\ \A w \in Workers : ~InBody(w)
        /\ \A t \in Tasks : future[t] # "waiting"

(* Every accepted task settles its future: it is run or cancelled. *)
AcceptedTasksSettle == \A t \in Tasks : []<>(future[t] # "waiting")

(* Every call of close() returns, whoever else closes, a task included. *)
CloseReturns == \A c \in Closers : []<>(caller[c] \in {"out", "returned"})
=============================================================================
