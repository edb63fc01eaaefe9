-------------------------- MODULE RequestQueueProofs --------------------------
(***************************************************************************)
(* What is proved of the request queue, for any finite sets of workers and *)
(* tasks and any limit: its counters count, and a close() that returned to *)
(* a thread outside the pool left nothing running and nothing waiting.     *)
(***************************************************************************)
EXTENDS RequestQueue, FiniteSetTheorems, TLAPS

\* A worker counts as active, is alive, or carries a task whose future is open.
Counted == {"claim", "body", "joining", "cancelling", "settled"}
Done    == {"unborn", "finalizing", "gone"}
Carry   == {"took", "claim", "body", "joining", "cancelling"}
Carries(w) == worker[w] \in Carry
At(places) == {w \in Workers : worker[w] \in places}

QueueTypes ==
  /\ queue \subseteq Tasks
  /\ pending \in Int /\ active \in Int /\ alive \in Int
  /\ running \in BOOLEAN
  /\ closing \in [started : BOOLEAN, cancelled : BOOLEAN, complete : BOOLEAN, byWorker : BOOLEAN]
  /\ worker \in [Workers -> WorkerPlaces]
  /\ task \in [Workers -> Tasks \cup {NoTask}]
  /\ caller \in [Closers -> CallerPlaces]
  /\ future \in [Tasks -> Settled \cup {"none", "waiting", "refused"}]

\* The counters count.
Counts ==
  /\ pending = Cardinality(queue) + Cardinality(At({"took"})) /\ pending <= MaxQueueSize
  /\ active = Cardinality(At(Counted))
  /\ alive = Cardinality(At(WorkerPlaces \ Done))

\* A queued task was submitted; an open future is that of a task which is queued or
\* which a worker carries.
Futures ==
  /\ \A t \in queue : future[t] # "none"
  /\ \A t \in Tasks : future[t] = "waiting" =>
       t \in queue \/ \E w \in Workers : Carries(w) /\ task[w] = t

\* How far a shutdown is, from the flags and from where threads are.
Shutdown ==
  /\ built = "starting" => queue = {} /\ ~closing.started /\ \A w \in Workers : worker[w] \in {"unborn", "loop", "poll"}
  /\ closing.started <=> ~running
  /\ (\E w \in Workers : worker[w] \in {"joining", "cancelling", "exiting"}) => closing.started
  /\ (\E w \in Workers : worker[w] = "finalizing") => closing.started /\ At(Done) = Workers
  /\ (\E c \in Closers : caller[c] \in {"joining", "cancelling"}) => closing.started
  /\ (\E c \in Closers : caller[c] = "cancelling") => At(Done) = Workers
  /\ closing.cancelled => closing.started /\ queue = {}
  /\ closing.complete => closing.started /\ queue = {} /\ At(Done) = Workers
  /\ (\E c \in Closers : caller[c] = "returned") => closing.complete

QueueInv == QueueTypes /\ Counts /\ Futures /\ Shutdown

-----------------------------------------------------------------------------
(* What the move of one worker does to the counts. *)

OneMoves(w) == \A v \in Workers \ {w} : worker'[v] = worker[v]
One(b) == IF b THEN 1 ELSE 0

\* A count of places changes by the worker that enters or leaves them.
LEMMA CountMoves ==
  ASSUME IsFiniteSet(Workers), NEW P, NEW w \in Workers, OneMoves(w)
  PROVE  /\ Cardinality(At(P)) \in Nat
         /\ Cardinality(At(P)') = Cardinality(At(P)) + One(worker'[w] \in P) - One(worker[w] \in P)
<1>1. IsFiniteSet(At(P)) /\ Cardinality(At(P)) \in Nat
  BY FS_Subset, FS_CardinalityType DEF At
<1>2. CASE worker'[w] \in P <=> worker[w] \in P
  <2>1. At(P)' = At(P)
    BY <1>2 DEF At, OneMoves
  <2> QED
    BY <1>1, <1>2, <2>1 DEF One
<1>3. CASE worker'[w] \in P /\ worker[w] \notin P
  <2>1. At(P)' = At(P) \cup {w} /\ w \notin At(P)
    BY <1>3 DEF At, OneMoves
  <2>2. Cardinality(At(P)') = Cardinality(At(P)) + 1
    BY <1>1, <2>1, FS_AddElement, Zenon
  <2> QED
    BY <1>1, <1>3, <2>2 DEF One
<1>4. CASE worker'[w] \notin P /\ worker[w] \in P
  <2>1. At(P)' = At(P) \ {w} /\ w \in At(P)
    BY <1>4 DEF At, OneMoves
  <2>2. Cardinality(At(P)') = Cardinality(At(P)) - 1
    BY <1>1, <2>1, FS_RemoveElement, Zenon
  <2> QED
    BY <1>1, <1>4, <2>2 DEF One
<1> QED
  BY <1>2, <1>3, <1>4

\* The worker w goes to a place, and the counters follow.
Goes(w, to) == to \in WorkerPlaces /\ worker' = [worker EXCEPT ![w] = to]

\* A worker that moves is the only one that does.
LEMMA Went ==
  ASSUME QueueTypes, NEW w \in Workers, NEW to, Goes(w, to)
  PROVE  worker' \in [Workers -> WorkerPlaces] /\ worker'[w] = to /\ OneMoves(w)
BY DEF Goes, QueueTypes, OneMoves

\* The counts after a move: each counter changes with the places the worker left
\* and entered.
LEMMA CountsFollow ==
  ASSUME QueueConstants, QueueTypes, Counts, NEW w \in Workers, NEW to, Goes(w, to),
         Cardinality(queue') \in Nat,
         pending' = pending + Cardinality(queue') - Cardinality(queue)
                    + One(to = "took") - One(worker[w] = "took"),
         pending' <= MaxQueueSize,
         active' = active + One(to \in Counted) - One(worker[w] \in Counted),
         alive' = alive + One(to \notin Done) - One(worker[w] \notin Done)
  PROVE  Counts'
<1>1. worker'[w] = to /\ OneMoves(w) /\ worker[w] \in WorkerPlaces /\ to \in WorkerPlaces
  BY Went, Zenon DEF QueueTypes, Goes
<1>2. Cardinality(queue) \in Nat
  BY FS_Subset, FS_CardinalityType DEF QueueConstants, QueueTypes
<1>3. pending' = Cardinality(queue') + Cardinality(At({"took"})')
  <2>1. Cardinality(At({"took"})') = Cardinality(At({"took"})) + One(to \in {"took"}) - One(worker[w] \in {"took"})
    BY <1>1, CountMoves DEF QueueConstants
  <2>2. One(to = "took") = One(to \in {"took"}) /\ One(worker[w] = "took") = One(worker[w] \in {"took"})
    BY DEF One
  <2>3. Cardinality(At({"took"})) \in Nat
    BY <1>1, CountMoves DEF QueueConstants
  <2>4. pending = Cardinality(queue) + Cardinality(At({"took"}))
    BY DEF Counts
  <2>5. One(to \in {"took"}) \in Int /\ One(worker[w] \in {"took"}) \in Int
    BY DEF One
  <2> QED
    BY <1>2, <2>1, <2>2, <2>3, <2>4, <2>5
<1>4. active' = Cardinality(At(Counted)')
  BY <1>1, CountMoves DEF Counts, QueueConstants
<1>5. alive' = Cardinality(At(WorkerPlaces \ Done)')
  <2>1. /\ One(to \notin Done) = One(to \in WorkerPlaces \ Done)
        /\ One(worker[w] \notin Done) = One(worker[w] \in WorkerPlaces \ Done)
    BY <1>1 DEF One
  <2> QED
    BY <1>1, <2>1, CountMoves DEF Counts, QueueConstants
<1> QED
  BY <1>3, <1>4, <1>5 DEF Counts

\* A worker that only goes on.
LEMMA CountsStay ==
  ASSUME QueueConstants, QueueTypes, Counts, NEW w \in Workers, NEW to, Goes(w, to),
         UNCHANGED <<queue, pending, active, alive>>,
         to = "took" <=> worker[w] = "took",
         to \in Counted <=> worker[w] \in Counted,
         to \in Done <=> worker[w] \in Done
  PROVE  Counts'
<1>1. Cardinality(queue) \in Nat
  BY FS_Subset, FS_CardinalityType DEF QueueConstants, QueueTypes
<1>2. pending' = pending + Cardinality(queue') - Cardinality(queue)
                 + One(to = "took") - One(worker[w] = "took")
  BY <1>1 DEF One, QueueTypes
<1>3. /\ active' = active + One(to \in Counted) - One(worker[w] \in Counted)
      /\ alive' = alive + One(to \notin Done) - One(worker[w] \notin Done)
  BY DEF One, QueueTypes
<1>4. pending' <= MaxQueueSize /\ Cardinality(queue') \in Nat
  BY <1>1 DEF Counts
<1> QED
  BY <1>2, <1>3, <1>4, CountsFollow

-----------------------------------------------------------------------------
(* What it does to the futures and to the shutdown. *)

\* Whoever carries a task carries on with it.
Carrying == \A v \in Workers : Carries(v) => Carries(v)' /\ task'[v] = task[v]

\* Open futures keep their task while carriers keep it and none is opened.
LEMMA FuturesStay ==
  ASSUME Futures, UNCHANGED <<queue, future>>, Carrying
  PROVE  Futures'
BY DEF Futures, Carrying

\* A worker settles the future of its task.
LEMMA FutureSettled ==
  ASSUME QueueTypes, Futures, NEW w \in Workers, NEW x \in Settled,
         future' = [future EXCEPT ![task[w]] = x], UNCHANGED <<queue, task>>, OneMoves(w)
  PROVE  Futures'
<1>1. \A t \in Tasks : future'[t] = IF t = task[w] THEN x ELSE future[t]
  BY DEF QueueTypes
<1>2. x # "none" /\ x # "waiting"
  BY DEF Settled
<1> QED
  BY <1>1, <1>2 DEF QueueTypes, Futures, Carries, OneMoves

\* A worker goes on, and the shutdown allows it.
LEMMA ShutdownStays ==
  ASSUME QueueTypes, Shutdown, NEW w \in Workers, NEW to, Goes(w, to),
         UNCHANGED <<built, running, closing, caller>>, queue' \subseteq queue,
         built = "starting" => to \in {"unborn", "loop", "poll"},
         to \in {"joining", "cancelling", "exiting"} => closing.started,
         to = "finalizing" => closing.started /\ At(Done)' = Workers,
         worker[w] \in Done => to \in Done
  PROVE  Shutdown'
<1>1. worker'[w] = to /\ OneMoves(w)
  BY Went
<1>2. At(Done) = Workers => At(Done)' = Workers
  BY <1>1 DEF At, OneMoves
<1>3. /\ built' = "starting" => queue' = {} /\ ~closing'.started
      /\ built' = "starting" => \A v \in Workers : worker'[v] \in {"unborn", "loop", "poll"}
  BY <1>1 DEF Shutdown, OneMoves
<1>4. /\ (\E v \in Workers : worker'[v] \in {"joining", "cancelling", "exiting"}) => closing'.started
      /\ (\E v \in Workers : worker'[v] = "finalizing") => closing'.started /\ At(Done)' = Workers
  BY <1>1, <1>2 DEF Shutdown, OneMoves
<1>5. /\ closing'.cancelled => closing'.started /\ queue' = {}
      /\ closing'.complete => closing'.started /\ queue' = {} /\ At(Done)' = Workers
  BY <1>2 DEF Shutdown
<1> QED
  BY <1>2, <1>3, <1>4, <1>5 DEF Shutdown

-----------------------------------------------------------------------------
(* The steps of a worker. *)

\* A worker whose step is its move.
LEMMA PlainMove ==
  ASSUME QueueConstants, QueueInv, NEW w \in Workers, NEW to, Goes(w, to),
         UNCHANGED <<built, running, queue, pending, active, alive, closing, task, caller, future>>,
         to = "took" <=> worker[w] = "took",
         to \in Counted <=> worker[w] \in Counted,
         to \in Done <=> worker[w] \in Done,
         worker[w] \in Carry => to \in Carry,
         built = "starting" => to \in {"unborn", "loop", "poll"},
         to \in {"joining", "cancelling", "exiting"} => closing.started,
         to # "finalizing"
  PROVE  QueueInv'
<1>1. worker' \in [Workers -> WorkerPlaces] /\ worker'[w] = to /\ OneMoves(w)
  BY Went DEF QueueInv
<1>2. QueueTypes'
  BY <1>1 DEF QueueInv, QueueTypes
<1>3. Counts'
  BY CountsStay DEF QueueInv
<1>4. Futures'
  <2>1. Carrying
    BY <1>1 DEF Carrying, Carries, OneMoves
  <2> QED
    BY <2>1, FuturesStay DEF QueueInv
<1>5. Shutdown'
  BY ShutdownStays DEF QueueInv
<1> QED
  BY <1>2, <1>3, <1>4, <1>5 DEF QueueInv

\* The looks at running_ and at the queue, and the wait for the other workers.
LEMMA LooksKeep ==
  ASSUME QueueConstants, QueueInv, NEW w \in Workers,
         SeesRunning(w) \/ SeesClosed(w) \/ FindsNothing(w) \/ BodyJoins(w)
  PROVE  QueueInv'
<1>1. CASE SeesRunning(w)
  <2>1. worker[w] = "loop" /\ Goes(w, "poll")
    BY <1>1 DEF SeesRunning, Moves, Goes, WorkerPlaces
  <2>2. UNCHANGED <<built, running, queue, pending, active, alive, closing, task, caller, future>>
    BY <1>1 DEF SeesRunning, counters
  <2> QED
    BY <2>1, <2>2, PlainMove DEF Counted, Done, Carry
<1>2. CASE SeesClosed(w)
  <2>1. worker[w] = "loop" /\ Goes(w, "exiting") /\ ~running
    BY <1>2 DEF SeesClosed, Moves, Goes, WorkerPlaces
  <2>2. UNCHANGED <<built, running, queue, pending, active, alive, closing, task, caller, future>>
    BY <1>2 DEF SeesClosed, counters
  <2>3. closing.started /\ built # "starting"
    BY <2>1 DEF QueueInv, Shutdown
  <2> QED
    BY <2>1, <2>2, <2>3, PlainMove DEF Counted, Done, Carry
<1>3. CASE FindsNothing(w)
  <2>1. worker[w] = "poll" /\ Goes(w, "loop")
    BY <1>3 DEF FindsNothing, Moves, Goes, WorkerPlaces
  <2>2. UNCHANGED <<built, running, queue, pending, active, alive, closing, task, caller, future>>
    BY <1>3 DEF FindsNothing, counters
  <2> QED
    BY <2>1, <2>2, PlainMove DEF Counted, Done, Carry
<1>4. CASE BodyJoins(w)
  <2>1. worker[w] = "joining" /\ Goes(w, "cancelling")
    BY <1>4 DEF BodyJoins, Moves, Goes, WorkerPlaces
  <2>2. UNCHANGED <<built, running, queue, pending, active, alive, closing, task, caller, future>>
    BY <1>4 DEF BodyJoins, counters
  <2>3. closing.started /\ built # "starting"
    BY <2>1 DEF QueueInv, Shutdown
  <2> QED
    BY <2>1, <2>2, <2>3, PlainMove DEF Counted, Done, Carry
<1> QED
  BY <1>1, <1>2, <1>3, <1>4

\* A worker that has a task, or is about to, works for a queue that was built.
LEMMA WorkingIsBuilt ==
  ASSUME QueueInv, NEW w \in Workers,
         queue # {} \/ worker[w] \in Carry \cup {"settled", "exiting", "finalizing"}
  PROVE  built # "starting"
BY DEF QueueInv, Shutdown, Carry

\* A dequeue moves a task from the queue to a worker.
LEMMA DequeuesKeeps ==
  ASSUME QueueConstants, QueueInv, NEW w \in Workers, Dequeues(w)
  PROVE  QueueInv'
<1>1. worker[w] = "poll" /\ Goes(w, "took")
  BY DEF Dequeues, Moves, Goes, WorkerPlaces
<1>2. PICK t \in queue : queue' = queue \ {t} /\ task' = [task EXCEPT ![w] = t]
  BY Zenon DEF Dequeues
<1>3. UNCHANGED <<built, running, pending, active, alive, closing, caller, future>>
  BY DEF Dequeues, counters
<1>4. worker' \in [Workers -> WorkerPlaces] /\ worker'[w] = "took" /\ OneMoves(w)
  BY <1>1, Went DEF QueueInv
<1>5. /\ task' \in [Workers -> Tasks \cup {NoTask}] /\ task'[w] = t
      /\ \A v \in Workers \ {w} : task'[v] = task[v]
  BY <1>2 DEF QueueInv, QueueTypes
<1>6. QueueTypes'
  BY <1>2, <1>3, <1>4, <1>5 DEF QueueInv, QueueTypes
<1>7. Counts'
  <2>1. IsFiniteSet(queue)
    BY FS_Subset DEF QueueConstants, QueueInv, QueueTypes
  <2>2. /\ Cardinality(queue) \in Nat /\ Cardinality(queue') \in Nat
        /\ Cardinality(queue') = Cardinality(queue) - 1
    BY <1>2, <2>1, FS_RemoveElement, FS_CardinalityType
  <2>3. pending' = pending + Cardinality(queue') - Cardinality(queue)
                   + One("took" = "took") - One(worker[w] = "took")
    BY <1>1, <1>3, <2>2 DEF One, QueueInv, QueueTypes
  <2>4. /\ active' = active + One("took" \in Counted) - One(worker[w] \in Counted)
        /\ alive' = alive + One("took" \notin Done) - One(worker[w] \notin Done)
    BY <1>1, <1>3 DEF One, QueueInv, QueueTypes, Counted, Done
  <2>5. pending' <= MaxQueueSize
    BY <1>3 DEF QueueInv, Counts
  <2> QED
    BY <1>1, <2>2, <2>3, <2>4, <2>5, CountsFollow DEF QueueInv
<1>8. Futures'
  <2>1. \A v \in Workers \ {w} : Carries(v)' <=> Carries(v)
    BY <1>4 DEF OneMoves, Carries
  <2>2. Carries(w)' /\ ~Carries(w)
    BY <1>1, <1>4 DEF Carries, Carry
  <2> QED
    BY <1>2, <1>3, <1>5, <2>1, <2>2 DEF QueueInv, Futures
<1>9. Shutdown'
  <2>1. built # "starting"
    BY <1>2, WorkingIsBuilt
  <2> QED
    BY <1>1, <1>2, <1>3, <2>1, ShutdownStays DEF QueueInv, Done
<1> QED
  BY <1>6, <1>7, <1>8, <1>9 DEF QueueInv

\* The slot of a taken task is freed and its worker becomes active.
LEMMA FreesSlotKeeps ==
  ASSUME QueueConstants, QueueInv, NEW w \in Workers, FreesSlot(w)
  PROVE  QueueInv'
<1>1. worker[w] = "took" /\ Goes(w, "claim")
  BY DEF FreesSlot, Moves, Goes, WorkerPlaces
<1>2. /\ UNCHANGED <<built, running, queue, alive, closing, task, caller, future>>
      /\ pending' = pending - 1 /\ active' = active + 1
  BY DEF FreesSlot
<1>3. worker' \in [Workers -> WorkerPlaces] /\ worker'[w] = "claim" /\ OneMoves(w)
  BY <1>1, Went DEF QueueInv
<1>4. QueueTypes'
  BY <1>2, <1>3 DEF QueueInv, QueueTypes
<1>5. Counts'
  <2>1. Cardinality(queue) \in Nat
    BY FS_Subset, FS_CardinalityType DEF QueueConstants, QueueInv, QueueTypes
  <2>2. pending' = pending + Cardinality(queue') - Cardinality(queue)
                   + One("claim" = "took") - One(worker[w] = "took")
    BY <1>1, <1>2, <2>1 DEF One, QueueInv, QueueTypes
  <2>3. /\ active' = active + One("claim" \in Counted) - One(worker[w] \in Counted)
        /\ alive' = alive + One("claim" \notin Done) - One(worker[w] \notin Done)
    BY <1>1, <1>2 DEF One, QueueInv, QueueTypes, Counted, Done
  <2>4. pending' <= MaxQueueSize
    BY <1>2 DEF QueueInv, QueueTypes, Counts, QueueConstants
  <2> QED
    BY <1>1, <1>2, <2>1, <2>2, <2>3, <2>4, CountsFollow DEF QueueInv
<1>6. Futures'
  <2>1. Carrying
    BY <1>2, <1>3 DEF Carrying, Carries, Carry, OneMoves
  <2> QED
    BY <1>2, <2>1, FuturesStay DEF QueueInv
<1>7. Shutdown'
  <2>1. built # "starting"
    BY <1>1, WorkingIsBuilt DEF Carry
  <2> QED
    BY <1>1, <1>2, <2>1, ShutdownStays DEF QueueInv, Done
<1> QED
  BY <1>4, <1>5, <1>6, <1>7 DEF QueueInv

\* A worker settles its task's future, from the claim or from the body.
LEMMA SettlesKeeps ==
  ASSUME QueueConstants, QueueInv, NEW w \in Workers, NEW x \in Settled,
         worker[w] \in {"claim", "body"}, Goes(w, "settled"),
         future' = [future EXCEPT ![task[w]] = x],
         UNCHANGED <<built, running, queue, pending, active, alive, closing, task, caller>>
  PROVE  QueueInv'
<1>1. worker' \in [Workers -> WorkerPlaces] /\ worker'[w] = "settled" /\ OneMoves(w)
  BY Went DEF QueueInv
<1>2. QueueTypes'
  BY <1>1, Zenon DEF QueueInv, QueueTypes
<1>3. Counts'
  BY CountsStay DEF QueueInv, Counted, Done
<1>4. Futures'
  BY <1>1, FutureSettled, Zenon DEF QueueInv
<1>5. Shutdown'
  <2>1. built # "starting"
    BY WorkingIsBuilt DEF Carry
  <2> QED
    BY <2>1, ShutdownStays DEF QueueInv, Done
<1> QED
  BY <1>2, <1>3, <1>4, <1>5 DEF QueueInv

\* claim_task_start, and the end of a body.
LEMMA ClaimsKeeps ==
  ASSUME QueueConstants, QueueInv, NEW w \in Workers, Claims(w) \/ BodyEnds(w)
  PROVE  QueueInv'
<1>1. UNCHANGED <<built, running, queue, pending, active, alive, closing, task, caller>>
  BY DEF Claims, BodyEnds, counters
<1>2. CASE worker[w] = "claim" /\ Goes(w, "body") /\ UNCHANGED future
  <2>1. built # "starting"
    BY <1>2, WorkingIsBuilt, SMTT(30) DEF Carry
  <2> QED
    BY <1>1, <1>2, <2>1, PlainMove DEF Counted, Done, Carry
<1>3. ASSUME NEW x \in Settled, worker[w] \in {"claim", "body"}, Goes(w, "settled"),
             future' = [future EXCEPT ![task[w]] = x]
      PROVE  QueueInv'
  BY <1>1, <1>3, SettlesKeeps, Zenon
<1> QED
  BY <1>2, <1>3 DEF Claims, BodyEnds, Moves, Goes, WorkerPlaces, Settled

\* The counters after a task.
LEMMA AccountsKeeps ==
  ASSUME QueueConstants, QueueInv, NEW w \in Workers, Accounts(w)
  PROVE  QueueInv'
<1>1. worker[w] = "settled" /\ Goes(w, "loop")
  BY DEF Accounts, Moves, Goes, WorkerPlaces
<1>2. /\ UNCHANGED <<built, running, queue, pending, alive, closing, caller, future>>
      /\ active' = active - 1 /\ task' = [task EXCEPT ![w] = NoTask]
  BY DEF Accounts
<1>3. worker' \in [Workers -> WorkerPlaces] /\ worker'[w] = "loop" /\ OneMoves(w)
  BY <1>1, Went DEF QueueInv
<1>4. /\ task' \in [Workers -> Tasks \cup {NoTask}]
      /\ \A v \in Workers \ {w} : task'[v] = task[v]
  BY <1>2 DEF QueueInv, QueueTypes
<1>5. QueueTypes'
  BY <1>2, <1>3, <1>4 DEF QueueInv, QueueTypes
<1>6. Counts'
  <2>1. Cardinality(queue) \in Nat
    BY FS_Subset, FS_CardinalityType DEF QueueConstants, QueueInv, QueueTypes
  <2>2. pending' = pending + Cardinality(queue') - Cardinality(queue)
                   + One("loop" = "took") - One(worker[w] = "took")
    BY <1>1, <1>2, <2>1 DEF One, QueueInv, QueueTypes
  <2>3. /\ active' = active + One("loop" \in Counted) - One(worker[w] \in Counted)
        /\ alive' = alive + One("loop" \notin Done) - One(worker[w] \notin Done)
    BY <1>1, <1>2 DEF One, QueueInv, QueueTypes, Counted, Done
  <2>4. pending' <= MaxQueueSize
    BY <1>2 DEF QueueInv, Counts
  <2> QED
    BY <1>1, <1>2, <2>1, <2>2, <2>3, <2>4, CountsFollow DEF QueueInv
<1>7. Futures'
  <2>1. Carrying
    BY <1>1, <1>3, <1>4 DEF Carrying, Carries, Carry, OneMoves
  <2> QED
    BY <1>2, <2>1, FuturesStay DEF QueueInv
<1>8. Shutdown'
  BY <1>1, <1>2, ShutdownStays DEF QueueInv, Done
<1> QED
  BY <1>5, <1>6, <1>7, <1>8 DEF QueueInv

\* The last worker alive is the only one that is not done.
LEMMA LastWorker ==
  ASSUME QueueConstants, QueueInv, NEW w \in Workers, worker[w] \notin Done, alive = 1
  PROVE  \A v \in Workers \ {w} : worker[v] \in Done
<1>1. IsFiniteSet(At(WorkerPlaces \ Done)) /\ Cardinality(At(WorkerPlaces \ Done)) = 1
  BY FS_Subset DEF QueueConstants, QueueInv, Counts, At
<1>2. PICK x : At(WorkerPlaces \ Done) = {x}
  BY <1>1, FS_Singleton, Zenon
<1>3. \A v \in Workers : worker[v] \in WorkerPlaces
  BY DEF QueueInv, QueueTypes
<1> QED
  BY <1>2, <1>3 DEF At

\* worker_exited.
LEMMA ExitsKeeps ==
  ASSUME QueueConstants, QueueInv, NEW w \in Workers, Exits(w)
  PROVE  QueueInv'
<1>1. PICK to \in {"finalizing", "gone"} :
        Goes(w, to) /\ (to = "finalizing" => closing.started /\ alive = 1)
  BY Zenon DEF Exits, Moves, Goes, WorkerPlaces
<1>2. /\ UNCHANGED <<built, running, queue, pending, active, closing, task, caller, future>>
      /\ alive' = alive - 1 /\ worker[w] = "exiting"
  BY DEF Exits, Moves, counters
<1>3. worker' \in [Workers -> WorkerPlaces] /\ worker'[w] = to /\ OneMoves(w)
  BY <1>1, Went DEF QueueInv
<1>4. QueueTypes'
  BY <1>2, <1>3 DEF QueueInv, QueueTypes
<1>5. Counts'
  <2>1. Cardinality(queue) \in Nat
    BY FS_Subset, FS_CardinalityType DEF QueueConstants, QueueInv, QueueTypes
  <2>2. pending' = pending + Cardinality(queue') - Cardinality(queue)
                   + One(to = "took") - One(worker[w] = "took")
    BY <1>2, <2>1 DEF One, QueueInv, QueueTypes
  <2>3. /\ active' = active + One(to \in Counted) - One(worker[w] \in Counted)
        /\ alive' = alive + One(to \notin Done) - One(worker[w] \notin Done)
    BY <1>2 DEF One, QueueInv, QueueTypes, Counted, Done
  <2>4. pending' <= MaxQueueSize
    BY <1>2 DEF QueueInv, Counts
  <2> QED
    BY <1>1, <1>2, <2>1, <2>2, <2>3, <2>4, CountsFollow DEF QueueInv
<1>6. Futures'
  <2>1. Carrying
    BY <1>2, <1>3 DEF Carrying, Carries, Carry, OneMoves
  <2> QED
    BY <1>2, <2>1, FuturesStay DEF QueueInv
<1>7. Shutdown'
  <2>1. to = "finalizing" => At(Done)' = Workers
    BY <1>1, <1>2, <1>3, LastWorker DEF At, Done, OneMoves
  <2>2. built # "starting"
    BY <1>2, WorkingIsBuilt
  <2> QED
    BY <1>1, <1>2, <2>1, <2>2, ShutdownStays DEF QueueInv, Done
<1> QED
  BY <1>4, <1>5, <1>6, <1>7 DEF QueueInv

\* The flags of a shutdown are set.
LEMMA FlagsSet ==
  ASSUME QueueTypes
  PROVE  /\ LET n == [closing EXCEPT !.cancelled = TRUE, !.complete = TRUE]
            IN /\ n \in [started : BOOLEAN, cancelled : BOOLEAN, complete : BOOLEAN, byWorker : BOOLEAN]
               /\ n.started = closing.started /\ n.cancelled /\ n.complete
         /\ LET n == [closing EXCEPT !.cancelled = TRUE]
            IN /\ n \in [started : BOOLEAN, cancelled : BOOLEAN, complete : BOOLEAN, byWorker : BOOLEAN]
               /\ n.started = closing.started /\ n.cancelled /\ n.complete = closing.complete
         /\ LET n == [closing EXCEPT !.started = TRUE, !.byWorker = TRUE]
            IN /\ n \in [started : BOOLEAN, cancelled : BOOLEAN, complete : BOOLEAN, byWorker : BOOLEAN]
               /\ n.started /\ n.cancelled = closing.cancelled /\ n.complete = closing.complete
         /\ LET n == [closing EXCEPT !.started = TRUE]
            IN /\ n \in [started : BOOLEAN, cancelled : BOOLEAN, complete : BOOLEAN, byWorker : BOOLEAN]
               /\ n.started /\ n.cancelled = closing.cancelled /\ n.complete = closing.complete
BY Zenon DEF QueueTypes

\* The last worker completes the shutdown.
LEMMA FinalizesKeeps ==
  ASSUME QueueConstants, QueueInv, NEW w \in Workers, Finalizes(w)
  PROVE  QueueInv'
<1>1. /\ UNCHANGED <<built, running, queue, pending, active, alive, task, caller, future>>
      /\ closing' = [closing EXCEPT !.cancelled = TRUE, !.complete = TRUE]
      /\ worker[w] = "finalizing" /\ Goes(w, "gone")
  BY DEF Finalizes, Moves, Goes, WorkerPlaces, counters
<1>2. worker' \in [Workers -> WorkerPlaces] /\ worker'[w] = "gone" /\ OneMoves(w)
  BY <1>1, Went DEF QueueInv
<1>3. /\ closing' \in [started : BOOLEAN, cancelled : BOOLEAN, complete : BOOLEAN, byWorker : BOOLEAN]
      /\ closing'.started = closing.started /\ closing'.cancelled /\ closing'.complete
  BY <1>1, FlagsSet, Zenon DEF QueueInv
<1>4. QueueTypes'
  BY <1>1, <1>2, <1>3 DEF QueueInv, QueueTypes
<1>5. Counts'
  BY <1>1, CountsStay DEF QueueInv, Counted, Done
<1>6. Futures'
  <2>1. Carrying
    BY <1>1, <1>2 DEF Carrying, Carries, Carry, OneMoves
  <2> QED
    BY <1>1, <2>1, FuturesStay DEF QueueInv
<1>7. closing.started /\ At(Done) = Workers /\ queue = {}
  BY <1>1 DEF QueueInv, Shutdown, Finalizes
<1>8. At(Done)' = Workers
  BY <1>2, <1>7 DEF At, OneMoves, Done
<1>9. Shutdown'
  BY <1>1, <1>2, <1>3, <1>7, <1>8 DEF QueueInv, Shutdown, OneMoves
<1> QED
  BY <1>4, <1>5, <1>6, <1>9 DEF QueueInv

\* close() from a task, and the end of its cancellations.
LEMMA BodyClosesKeeps ==
  ASSUME QueueConstants, QueueInv, NEW w \in Workers, BodyCloses(w) \/ BodyCancelled(w)
  PROVE  QueueInv'
<1>1. PICK to \in {"joining", "body"} : Goes(w, to)
  BY DEF BodyCloses, BodyCancelled, Moves, Goes, WorkerPlaces
<1>2. /\ UNCHANGED <<built, queue, pending, active, alive, task, caller, future>>
      /\ worker[w] \in {"body", "cancelling"}
  BY DEF BodyCloses, BodyCancelled, Moves, counters
<1>3. worker' \in [Workers -> WorkerPlaces] /\ worker'[w] = to /\ OneMoves(w)
  BY <1>1, Went DEF QueueInv
<1>4. /\ closing' \in [started : BOOLEAN, cancelled : BOOLEAN, complete : BOOLEAN, byWorker : BOOLEAN]
      /\ closing'.started /\ ~running' /\ closing'.complete = closing.complete
      /\ closing'.cancelled => closing.cancelled \/ queue = {}
  <2>1. CASE BodyCloses(w)
    <3>1. closing' = [closing EXCEPT !.started = TRUE, !.byWorker = TRUE] /\ running' = FALSE
      BY <2>1 DEF BodyCloses
    <3> QED
      BY <3>1, FlagsSet, Zenon DEF QueueInv
  <2>2. CASE BodyCancelled(w)
    <3>1. closing' = [closing EXCEPT !.cancelled = TRUE] /\ running' = running /\ queue = {}
      BY <2>2 DEF BodyCancelled
    <3>2. closing.started /\ ~running
      BY <2>2 DEF BodyCancelled, Moves, QueueInv, Shutdown
    <3>3. /\ closing' \in [started : BOOLEAN, cancelled : BOOLEAN, complete : BOOLEAN, byWorker : BOOLEAN]
          /\ closing'.started = closing.started /\ closing'.complete = closing.complete
      BY <3>1, FlagsSet, Zenon DEF QueueInv
    <3> QED
      BY <3>1, <3>2, <3>3
  <2> QED
    BY <2>1, <2>2
<1>5. QueueTypes'
  <2>1. running' \in BOOLEAN
    BY Zenon DEF BodyCloses, BodyCancelled, QueueInv, QueueTypes
  <2> QED
    BY <1>2, <1>3, <1>4, <2>1 DEF QueueInv, QueueTypes
<1>6. Counts'
  BY <1>1, <1>2, CountsStay DEF QueueInv, Counted, Done
<1>7. Futures'
  <2>1. Carrying
    BY <1>2, <1>3 DEF Carrying, Carries, Carry, OneMoves
  <2> QED
    BY <1>2, <2>1, FuturesStay DEF QueueInv
<1>8. built # "starting" /\ At(Done) # Workers
  BY <1>2, WorkingIsBuilt DEF Carry, At, Done
<1>9. Shutdown'
  BY <1>2, <1>3, <1>4, <1>8 DEF QueueInv, Shutdown, OneMoves
<1> QED
  BY <1>5, <1>6, <1>7, <1>9 DEF QueueInv

\* The constructor starts a worker.
LEMMA StartWorkerKeeps ==
  ASSUME QueueConstants, QueueInv, NEW w \in Workers, StartWorker(w)
  PROVE  QueueInv'
<1>1. /\ UNCHANGED <<built, running, queue, pending, active, closing, task, caller, future>>
      /\ alive' = alive + 1 /\ worker[w] = "unborn" /\ Goes(w, "loop") /\ built = "starting"
  BY DEF StartWorker, Moves, Goes, WorkerPlaces, counters
<1>2. worker' \in [Workers -> WorkerPlaces] /\ worker'[w] = "loop" /\ OneMoves(w)
  BY <1>1, Went DEF QueueInv
<1>3. QueueTypes'
  BY <1>1, <1>2 DEF QueueInv, QueueTypes
<1>4. Counts'
  <2>1. Cardinality(queue) \in Nat
    BY FS_Subset, FS_CardinalityType DEF QueueConstants, QueueInv, QueueTypes
  <2>2. pending' = pending + Cardinality(queue') - Cardinality(queue)
                   + One("loop" = "took") - One(worker[w] = "took")
    BY <1>1, <2>1 DEF One, QueueInv, QueueTypes
  <2>3. /\ active' = active + One("loop" \in Counted) - One(worker[w] \in Counted)
        /\ alive' = alive + One("loop" \notin Done) - One(worker[w] \notin Done)
    BY <1>1 DEF One, QueueInv, QueueTypes, Counted, Done
  <2>4. pending' <= MaxQueueSize
    BY <1>1 DEF QueueInv, Counts
  <2> QED
    BY <1>1, <2>1, <2>2, <2>3, <2>4, CountsFollow DEF QueueInv
<1>5. Futures'
  <2>1. Carrying
    BY <1>1, <1>2 DEF Carrying, Carries, Carry, OneMoves
  <2> QED
    BY <1>1, <2>1, FuturesStay, SMTT(30) DEF QueueInv
<1>6. ~closing.started
  BY <1>1 DEF QueueInv, Shutdown
<1>7. Shutdown'
  BY <1>1, <1>2, <1>6 DEF QueueInv, Shutdown, OneMoves
<1> QED
  BY <1>3, <1>4, <1>5, <1>7 DEF QueueInv

-----------------------------------------------------------------------------
(* The other steps: no worker moves. *)

\* A step that touches neither workers, tasks nor counters.
LEMMA WorkersStay ==
  ASSUME QueueInv, UNCHANGED <<queue, pending, active, alive, worker, task, future>>,
         running' \in BOOLEAN, caller' \in [Closers -> CallerPlaces],
         closing' \in [started : BOOLEAN, cancelled : BOOLEAN, complete : BOOLEAN, byWorker : BOOLEAN]
  PROVE  QueueTypes' /\ Counts' /\ Futures' /\ At(Done)' = At(Done)
<1>1. QueueTypes'
  BY DEF QueueInv, QueueTypes
<1>2. Counts'
  BY DEF QueueInv, Counts, At
<1>3. Futures'
  BY DEF QueueInv, Futures, Carries
<1> QED
  BY <1>1, <1>2, <1>3 DEF At

\* The constructor returns.
LEMMA ConstructedKeeps ==
  ASSUME QueueInv, Constructed
  PROVE  QueueInv'
<1>1. /\ UNCHANGED <<running, queue, pending, active, alive, closing, worker, task, caller, future>>
      /\ built' = "ready"
  BY DEF Constructed, counters
<1>2. QueueTypes' /\ Counts' /\ Futures' /\ At(Done)' = At(Done)
  BY <1>1, WorkersStay DEF QueueInv, QueueTypes
<1>3. Shutdown'
  BY <1>1, <1>2 DEF QueueInv, Shutdown
<1> QED
  BY <1>2, <1>3 DEF QueueInv

\* A thread that closes first, the constructor that fails included.
LEMMA ClosesKeeps ==
  ASSUME QueueInv, NEW c \in Closers,
         UNCHANGED <<queue, pending, active, alive, worker, task, future>>,
         built' # "starting", running' = FALSE,
         closing' = [closing EXCEPT !.started = TRUE], CallerMoves(c, "out", "joining")
  PROVE  QueueInv'
<1>1. /\ closing' \in [started : BOOLEAN, cancelled : BOOLEAN, complete : BOOLEAN, byWorker : BOOLEAN]
      /\ closing'.started /\ closing'.cancelled = closing.cancelled /\ closing'.complete = closing.complete
  BY FlagsSet, Zenon DEF QueueInv
<1>2. /\ caller' \in [Closers -> CallerPlaces] /\ caller'[c] = "joining"
      /\ \A d \in Closers \ {c} : caller'[d] = caller[d]
  BY DEF CallerMoves, QueueInv, QueueTypes, CallerPlaces
<1>3. QueueTypes' /\ Counts' /\ Futures' /\ At(Done)' = At(Done)
  BY <1>1, <1>2, WorkersStay, Zenon
<1>4. Shutdown'
  BY <1>1, <1>2, <1>3 DEF QueueInv, Shutdown
<1> QED
  BY <1>3, <1>4 DEF QueueInv

\* A caller that goes on, while the flags stay.
LEMMA CallerGoesOn ==
  ASSUME QueueInv, NEW c \in Closers, NEW from, NEW to \in CallerPlaces, CallerMoves(c, from, to),
         UNCHANGED <<built, running, closing, queue, pending, active, alive, worker, task, future>>,
         to = "waiting" \/ (to = "returned" /\ closing.complete)
           \/ (to = "cancelling" /\ closing.started /\ At(Done) = Workers)
  PROVE  QueueInv'
<1>1. /\ caller' \in [Closers -> CallerPlaces] /\ caller'[c] = to
      /\ \A d \in Closers \ {c} : caller'[d] = caller[d]
  BY DEF CallerMoves, QueueInv, QueueTypes
<1>2. QueueTypes' /\ Counts' /\ Futures' /\ At(Done)' = At(Done)
  BY <1>1, WorkersStay DEF QueueInv, QueueTypes
<1>3. Shutdown'
  BY <1>1, <1>2 DEF QueueInv, Shutdown
<1> QED
  BY <1>2, <1>3 DEF QueueInv

\* A caller that has cancelled what was queued completes the shutdown.
LEMMA CallerCancelledKeeps ==
  ASSUME QueueInv, NEW c \in Closers, CallerCancelled(c)
  PROVE  QueueInv'
<1>1. /\ UNCHANGED <<built, running, queue, pending, active, alive, worker, task, future>>
      /\ queue = {} /\ caller[c] = "cancelling" /\ caller' = [caller EXCEPT ![c] = "returned"]
      /\ closing' = [closing EXCEPT !.cancelled = TRUE, !.complete = TRUE]
  BY DEF CallerCancelled, CallerMoves, counters
<1>2. /\ closing' \in [started : BOOLEAN, cancelled : BOOLEAN, complete : BOOLEAN, byWorker : BOOLEAN]
      /\ closing'.started = closing.started /\ closing'.cancelled /\ closing'.complete
  BY <1>1, FlagsSet, Zenon DEF QueueInv
<1>3. /\ caller' \in [Closers -> CallerPlaces] /\ caller'[c] = "returned"
      /\ \A d \in Closers \ {c} : caller'[d] = caller[d]
  BY <1>1 DEF QueueInv, QueueTypes, CallerPlaces
<1>4. QueueTypes' /\ Counts' /\ Futures' /\ At(Done)' = At(Done)
  <2>1. running' \in BOOLEAN
    BY <1>1 DEF QueueInv, QueueTypes
  <2> QED
    BY <1>1, <1>2, <1>3, <2>1, WorkersStay
<1>5. closing.started /\ At(Done) = Workers
  BY <1>1 DEF QueueInv, Shutdown
<1>6. Shutdown'
  BY <1>1, <1>2, <1>3, <1>4, <1>5 DEF QueueInv, Shutdown
<1> QED
  BY <1>4, <1>6 DEF QueueInv

\* The steps of a thread outside the pool.
LEMMA CallerKeeps ==
  ASSUME QueueInv, NEW c \in Closers, CallerCloses(c) \/ CallerStep(c)
  PROVE  QueueInv'
<1>1. CASE CallerCloses(c)
  <2>1. /\ built' # "starting" /\ UNCHANGED built
        /\ UNCHANGED <<queue, pending, active, alive, worker, task, future>>
    BY <1>1 DEF CallerCloses, counters
  <2>2. CASE closing.started
    BY <1>1, <2>1, <2>2, CallerGoesOn DEF CallerCloses, CallerPlaces
  <2>3. CASE ~closing.started
    BY <1>1, <2>1, <2>3, ClosesKeeps, Zenon DEF CallerCloses
  <2> QED
    BY <2>2, <2>3
<1>2. CASE CallerJoins(c)
  <2>1. /\ UNCHANGED <<built, running, closing, queue, pending, active, alive, worker, task, future>>
        /\ CallerMoves(c, "joining", "cancelling") /\ Joined({})
    BY <1>2 DEF CallerJoins, counters
  <2>2. At(Done) = Workers
    BY <2>1 DEF At, Done, Joined
  <2>3. closing.started
    BY <2>1 DEF CallerMoves, QueueInv, Shutdown
  <2> QED
    BY <2>1, <2>2, <2>3, CallerGoesOn DEF CallerPlaces
<1>3. CASE CallerWaited(c)
  <2>1. /\ UNCHANGED <<built, running, closing, queue, pending, active, alive, worker, task, future>>
        /\ CallerMoves(c, "waiting", "returned") /\ closing.complete
    BY <1>3 DEF CallerWaited, counters
  <2> QED
    BY <2>1, CallerGoesOn DEF CallerPlaces
<1> QED
  BY <1>1, <1>2, <1>3, CallerCancelledKeeps DEF CallerStep

\* A thread could not be created.
LEMMA FailureKeeps ==
  ASSUME QueueConstants, QueueInv, ConstructionFails
  PROVE  QueueInv'
BY ClosesKeeps, Zenon DEF ConstructionFails, QueueConstants, counters

\* submit takes a slot, or refuses.
LEMMA SubmitKeeps ==
  ASSUME QueueConstants, QueueInv, NEW t \in Tasks, Submit(t)
  PROVE  QueueInv'
<1>1. /\ UNCHANGED <<built, running, active, alive, closing, worker, task, caller>>
      /\ built = "ready" /\ future[t] = "none"
  BY DEF Submit
<1>2. PICK x \in {"refused", "waiting", "error"} :
        /\ future' = [future EXCEPT ![t] = x]
        /\ \/ x = "waiting" /\ running /\ pending < MaxQueueSize /\ pending' = pending + 1 /\ queue' = queue \cup {t}
           \/ x # "waiting" /\ UNCHANGED <<queue, pending>>
  BY DEF Submit, Refused
<1>3. /\ future' \in [Tasks -> Settled \cup {"none", "waiting", "refused"}] /\ future'[t] = x
      /\ \A u \in Tasks \ {t} : future'[u] = future[u]
  BY <1>2 DEF QueueInv, QueueTypes, Settled
<1>4. QueueTypes'
  BY <1>1, <1>2, <1>3 DEF QueueInv, QueueTypes
<1>5. At({"took"})' = At({"took"}) /\ At(Counted)' = At(Counted)
      /\ At(WorkerPlaces \ Done)' = At(WorkerPlaces \ Done) /\ At(Done)' = At(Done)
  BY <1>1 DEF At
<1>6. Counts'
  <2>0. t \notin queue
    BY <1>1 DEF QueueInv, Futures
  <2>1. IsFiniteSet(queue) /\ Cardinality(queue) \in Nat /\ t \notin queue
    BY <2>0, FS_Subset, FS_CardinalityType DEF QueueConstants, QueueInv, QueueTypes
  <2>2. Cardinality(queue \cup {t}) = Cardinality(queue) + 1
    BY <2>1, FS_AddElement, Zenon
  <2>3. IsFiniteSet(At({"took"})) /\ Cardinality(At({"took"})) \in Nat
    BY FS_Subset, FS_CardinalityType DEF At, QueueConstants
  <2>4. pending = Cardinality(queue) + Cardinality(At({"took"})) /\ pending <= MaxQueueSize
    BY DEF QueueInv, Counts
  <2>5. MaxQueueSize \in Nat
    BY DEF QueueConstants
  <2>6. pending' = Cardinality(queue') + Cardinality(At({"took"})) /\ pending' <= MaxQueueSize
    <3>1. CASE x = "waiting"
      BY <1>2, <2>1, <2>2, <2>3, <2>4, <2>5, <3>1
    <3>2. CASE x # "waiting"
      <4>1. UNCHANGED <<queue, pending>>
        BY <1>2, <3>2, SMTT(30)
      <4> QED
        BY <2>4, <4>1
    <3> QED
      BY <3>1, <3>2
  <2> QED
    BY <1>1, <1>5, <2>6 DEF QueueInv, Counts
<1>7. Futures'
  BY <1>1, <1>2, <1>3, SMTT(30) DEF QueueInv, QueueTypes, Futures, Carries
<1>8. Shutdown'
  BY <1>1, <1>2, <1>5 DEF QueueInv, Shutdown
<1> QED
  BY <1>4, <1>6, <1>7, <1>8 DEF QueueInv

\* A queued task is cancelled.
LEMMA CancelsOneKeeps ==
  ASSUME QueueConstants, QueueInv, CancelsOne
  PROVE  QueueInv'
<1>1. /\ UNCHANGED <<built, running, active, alive, closing, worker, task, caller>>
      /\ pending' = pending - 1
  BY DEF CancelsOne
<1>2. PICK t \in queue : queue' = queue \ {t} /\ future' = [future EXCEPT ![t] = "error"]
  BY Zenon DEF CancelsOne
<1>3. /\ future' \in [Tasks -> Settled \cup {"none", "waiting", "refused"}] /\ future'[t] = "error"
      /\ \A u \in Tasks \ {t} : future'[u] = future[u]
  BY <1>2 DEF QueueInv, QueueTypes, Settled
<1>4. QueueTypes'
  BY <1>1, <1>2, <1>3, SMTT(30) DEF QueueInv, QueueTypes
<1>5. At({"took"})' = At({"took"}) /\ At(Counted)' = At(Counted)
      /\ At(WorkerPlaces \ Done)' = At(WorkerPlaces \ Done) /\ At(Done)' = At(Done)
  BY <1>1 DEF At
<1>6. Counts'
  <2>1. IsFiniteSet(queue) /\ Cardinality(queue) \in Nat
    BY FS_Subset, FS_CardinalityType DEF QueueConstants, QueueInv, QueueTypes
  <2>2. Cardinality(queue') = Cardinality(queue) - 1
    BY <1>2, <2>1, FS_RemoveElement
  <2>3. Cardinality(At({"took"})) \in Nat
    BY FS_Subset, FS_CardinalityType DEF At, QueueConstants
  <2>4. pending' = Cardinality(queue') + Cardinality(At({"took"})) /\ pending' <= MaxQueueSize
    BY <1>1, <2>1, <2>2, <2>3, SMTT(30) DEF QueueInv, QueueTypes, QueueConstants, Counts
  <2> QED
    BY <1>1, <1>5, <2>4 DEF QueueInv, Counts
<1>7. Futures'
  BY <1>1, <1>2, <1>3, SMTT(30) DEF QueueInv, QueueTypes, Futures, Carries
<1>8. Shutdown'
  BY <1>1, <1>2, <1>5 DEF QueueInv, Shutdown
<1> QED
  BY <1>4, <1>6, <1>7, <1>8 DEF QueueInv

-----------------------------------------------------------------------------
\* The queue starts empty, with no thread.
LEMMA QueueInvInit ==
  ASSUME QueueConstants, QueueInit
  PROVE  QueueInv
<1>1. QueueTypes
  BY DEF QueueInit, QueueTypes, WorkerPlaces, CallerPlaces
<1>2. At({"took"}) = {} /\ At(Counted) = {} /\ At(WorkerPlaces \ Done) = {}
  BY DEF QueueInit, At, Counted, Done
<1>3. Counts
  <2>1. queue = {} /\ pending = 0 /\ active = 0 /\ alive = 0 /\ MaxQueueSize \in Nat
    BY DEF QueueInit, QueueConstants
  <2>2. Cardinality({}) = 0
    BY FS_EmptySet
  <2> QED
    BY <1>2, <2>1, <2>2 DEF Counts
<1>4. Futures /\ Shutdown
  BY DEF QueueInit, Futures, Shutdown
<1> QED
  BY <1>1, <1>3, <1>4 DEF QueueInv

\* Every step keeps the invariant.
LEMMA QueueInvStep ==
  ASSUME QueueConstants, QueueInv, [QueueNext]_queueVars
  PROVE  QueueInv'
<1>1. CASE UNCHANGED queueVars
  <2>1. UNCHANGED <<built, running, queue, pending, active, alive, closing, worker, task, caller, future>>
    BY <1>1, SMTT(30) DEF queueVars, counters
  <2>2. QueueTypes' /\ Counts' /\ Futures' /\ At(Done)' = At(Done)
    BY <2>1, WorkersStay, SMTT(30) DEF QueueInv, QueueTypes
  <2>3. Shutdown'
    BY <2>1, <2>2 DEF QueueInv, Shutdown
  <2> QED
    BY <2>2, <2>3 DEF QueueInv
<1>2. ASSUME NEW w \in Workers, WorkerStep(w) PROVE QueueInv'
  BY <1>2, LooksKeep, DequeuesKeeps, FreesSlotKeeps, ClaimsKeeps, AccountsKeeps, ExitsKeeps,
     FinalizesKeeps, BodyClosesKeeps DEF WorkerStep
<1> QED
  BY <1>1, <1>2, StartWorkerKeeps, ConstructedKeeps, FailureKeeps, SubmitKeeps, CancelsOneKeeps,
     CallerKeeps DEF QueueNext

\* The invariant holds, for any number of threads and tasks.
LEMMA QueueInvHolds == ASSUME QueueConstants PROVE QueueSpec => []QueueInv
<1>1. QueueInit => QueueInv
  BY QueueInvInit
<1>2. QueueInv /\ [QueueNext]_queueVars => QueueInv'
  BY QueueInvStep
<1> QED
  BY <1>1, <1>2, PTL DEF QueueSpec

\* pending_ counts exactly the tasks that are queued or just taken and never exceeds
\* max_queue_size, whatever the threads that submit, work and close do.
THEOREM QueueSlotsAccounted == ASSUME QueueConstants PROVE QueueSpec => []SlotsAccounted
<1>1. QueueInv => SlotsAccounted
  <2>1. Took = At({"took"})
    BY DEF Took, At
  <2> QED
    BY <2>1 DEF QueueInv, Counts, SlotsAccounted
<1> QED
  BY <1>1, QueueInvHolds, PTL

\* Once close() has returned to a thread outside the pool no task runs or will run,
\* every accepted future is settled and the counters are zero: whoever closed first, a
\* task or the constructor included, and whoever completed the shutdown.
THEOREM ClosedQueueIsQuiescent == ASSUME QueueConstants PROVE QueueSpec => []ClosedIsQuiescent
<1>1. QueueInv => ClosedIsQuiescent
  <2> SUFFICES ASSUME QueueInv, \E c \in Closers : caller[c] = "returned"
               PROVE  /\ queue = {} /\ pending = 0 /\ active = 0
                      /\ \A w \in Workers : ~InBody(w)
                      /\ \A t \in Tasks : future[t] # "waiting"
    BY DEF ClosedIsQuiescent
  <2>1. queue = {} /\ At(Done) = Workers
    BY DEF QueueInv, Shutdown
  <2>2. \A w \in Workers : worker[w] \in Done
    BY <2>1 DEF At
  <2>3. At({"took"}) = {} /\ At(Counted) = {}
    BY <2>2 DEF At, Done, Counted
  <2>4. pending = 0 /\ active = 0
    BY <2>1, <2>3, FS_EmptySet DEF QueueInv, Counts
  <2>5. \A w \in Workers : ~InBody(w) /\ ~Carries(w)
    BY <2>2 DEF InBody, Carries, Carry, Done
  <2>6. \A t \in Tasks : future[t] # "waiting"
    BY <2>1, <2>5 DEF QueueInv, Futures
  <2> QED
    BY <2>1, <2>4, <2>5, <2>6
<1> QED
  BY <1>1, QueueInvHolds, PTL
===============================================================================
