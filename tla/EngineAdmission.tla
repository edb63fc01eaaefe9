-------------------------- MODULE EngineAdmission --------------------------
(***************************************************************************)
(* The admission gate of one GraphEngine: the atomic counter active_runs_  *)
(* that keeps execution (run, resume) and administration (update_state,    *)
(* fork, set_worker_count) of one engine apart.                            *)
(*                                                                         *)
(*   active_runs = -1      an AdministrationGuard is held                  *)
(*   active_runs = n >= 0  n ExecutionGuards are held                      *)
(*                                                                         *)
(* A run holds one ExecutionGuard; a resume holds the guard of             *)
(* resume_execute_async and, nested inside it, the one of                  *)
(* execute_graph_async.  enter_execution is a load followed by a           *)
(* compare-exchange loop, so another caller may step in between.           *)
(***************************************************************************)
EXTENDS Integers, FiniteSets

CONSTANT Callers   \* threads or coroutines that use one engine

ASSUME CallersFinite == IsFiniteSet(Callers)

VARIABLES
  active_runs,   \* the atomic counter
  pc,            \* where each caller is
  op,            \* what each caller executes: a run or a resume
  count          \* the value enter_execution's loop compares with

vars == <<active_runs, pc, op, count>>

\* "entering": in the loop of the first guard; "held": past it;
\* "inner": in the loop of the guard nested in a resume; "nested": past both.
Places == {"idle", "entering", "held", "inner", "nested", "administering"}

Init ==
  /\ active_runs = 0
  /\ pc = [c \in Callers |-> "idle"]
  /\ op = [c \in Callers |-> "run"]
  /\ count = [c \in Callers |-> 0]

-----------------------------------------------------------------------------
\* enter_execution: the first load, for a run or for a resume.
BeginExecution(c, o) ==
  /\ pc[c] = "idle"
  /\ pc' = [pc EXCEPT ![c] = "entering"]
  /\ op' = [op EXCEPT ![c] = o]
  /\ count' = [count EXCEPT ![c] = active_runs]
  /\ UNCHANGED active_runs

\* A resume found its checkpoint and enters execute_graph_async.
BeginNested(c) ==
  /\ pc[c] = "held"
  /\ op[c] = "resume"
  /\ pc' = [pc EXCEPT ![c] = "inner"]
  /\ count' = [count EXCEPT ![c] = active_runs]
  /\ UNCHANGED <<active_runs, op>>

\* enter_execution: compare_exchange_weak succeeds and the guard is held.
Admit(c) ==
  /\ pc[c] \in {"entering", "inner"}
  /\ count[c] >= 0
  /\ active_runs = count[c]
  /\ active_runs' = count[c] + 1
  /\ pc' = [pc EXCEPT ![c] = IF @ = "inner" THEN "nested" ELSE "held"]
  /\ UNCHANGED <<op, count>>

\* enter_execution: the exchange fails and reloads the counter.
Reload(c) ==
  /\ pc[c] \in {"entering", "inner"}
  /\ count[c] >= 0
  /\ active_runs # count[c]
  /\ count' = [count EXCEPT ![c] = active_runs]
  /\ UNCHANGED <<active_runs, pc, op>>

\* enter_execution throws: administration is in progress.  A resume refused at
\* its nested guard unwinds through the guard it already holds.
Refuse(c) ==
  /\ pc[c] \in {"entering", "inner"}
  /\ count[c] < 0
  /\ active_runs' = IF pc[c] = "inner" THEN active_runs - 1 ELSE active_runs
  /\ pc' = [pc EXCEPT ![c] = "idle"]
  /\ UNCHANGED <<op, count>>

\* Mutant: leaving a resume releases both of its guards at once and its outer
\* destructor then releases again.
LeaveExecutionTwice(c) ==
  /\ pc[c] \in {"held", "nested"}
  /\ active_runs' = active_runs - (IF pc[c] = "nested" THEN 2 ELSE 1)
  /\ pc' = [pc EXCEPT ![c] = IF @ = "nested" THEN "held" ELSE "idle"]
  /\ UNCHANGED <<op, count>>

\* leave_execution: the innermost guard is released first.  A resume may end
\* before it nests (no checkpoint, or a thread that already ended).
LeaveExecution(c) ==
  /\ pc[c] \in {"held", "nested"}
  /\ active_runs' = active_runs - 1
  /\ pc' = [pc EXCEPT ![c] = IF @ = "nested" THEN "held" ELSE "idle"]
  /\ UNCHANGED <<op, count>>

\* Mutant: the exchange only refuses while another administration is in
\* progress, as if it compared for "not -1".
EnterAdministrationBesideRuns(c) ==
  /\ pc[c] = "idle"
  /\ active_runs >= 0
  /\ active_runs' = -1
  /\ pc' = [pc EXCEPT ![c] = "administering"]
  /\ UNCHANGED <<op, count>>

\* enter_administration: one compare_exchange_strong from 0 to -1; the caller
\* that loses it throws and stays idle.
EnterAdministration(c) ==
  /\ pc[c] = "idle"
  /\ active_runs = 0
  /\ active_runs' = -1
  /\ pc' = [pc EXCEPT ![c] = "administering"]
  /\ UNCHANGED <<op, count>>

\* leave_administration: an unconditional store of 0.
LeaveAdministration(c) ==
  /\ pc[c] = "administering"
  /\ active_runs' = 0
  /\ pc' = [pc EXCEPT ![c] = "idle"]
  /\ UNCHANGED <<op, count>>

Next ==
  \E c \in Callers :
    \/ \E o \in {"run", "resume"} : BeginExecution(c, o)
    \/ BeginNested(c)
    \/ Admit(c)
    \/ Reload(c)
    \/ Refuse(c)
    \/ LeaveExecution(c)
    \/ EnterAdministration(c)
    \/ LeaveAdministration(c)

Spec == Init /\ [][Next]_vars

-----------------------------------------------------------------------------
TypeOK ==
  /\ active_runs \in Nat \cup {-1}
  /\ pc \in [Callers -> Places]
  /\ op \in [Callers -> {"run", "resume"}]
  /\ count \in [Callers -> Int]

\* The ExecutionGuards alive: guard 1 of a caller, and guard 2 nested in it.
Guards ==
  {g \in Callers \X {1, 2} :
     \/ pc[g[1]] = "nested"
     \/ g[2] = 1 /\ pc[g[1]] \in {"held", "inner"}}

Admins == {c \in Callers : pc[c] = "administering"}

\* active_runs_ is exactly the number of ExecutionGuards alive while nobody
\* administers and -1 while somebody does: the unconditional store in
\* leave_administration never wipes out a guard taken meanwhile.
GateCountsGuards ==
  active_runs = IF Admins = {} THEN Cardinality(Guards) ELSE -1

\* Administration excludes every execution and every other administration of
\* the engine (docs/concurrency.md; the std::logic_error of both enters).
ExclusiveAdministration ==
  \A c \in Admins : Admins = {c} /\ Guards = {}

\* The guard nested inside a resume is never refused: while the outer guard is
\* held the counter cannot be negative, whatever the other callers do, so a
\* resume never fails half way between its checkpoint lookup and its run.
NestedGuardAdmitted ==
  \A c \in Callers : pc[c] = "inner" => count[c] >= 1
=============================================================================
