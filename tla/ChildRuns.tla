------------------------------- MODULE ChildRuns -------------------------------
(* Durable Program runs, their parent/child relation and the wake of a paused    *)
(* parent, as several processes share one transition store.                      *)
(*                                                                               *)
(*   run   the run records: state, fence, whether anything was published after   *)
(*         the Started record, what the run may still spend (left), what its     *)
(*         pending command holds in reserve (held), the children it is paused    *)
(*         on (waits) and how often it paused                                    *)
(*   relation  the parent's relation row of each child, head the relation head   *)
(*   ctl   the RunControl each process holds of a run: the fence it runs under   *)
(*   owed  completion callbacks that have not run yet, per process               *)
(*   wake  the tasks that try to continue the paused parent, per process and     *)
(*         per run whose publication spawned the task                            *)
(*   ending  what is left of the clean-up after a parent's end, per process      *)
(*                                                                               *)
(* A publication loads the run's journal head, builds the next record and        *)
(* compares-and-publishes against that head, again from a fresh load when the    *)
(* head moved. The record is therefore unchanged between the load and the write  *)
(* that succeeds, and the two are one step here. What a publication reads of     *)
(* OTHER records (relation head, children) is a step of its own.                 *)
EXTENDS Naturals, FiniteSets

CONSTANTS
    Procs,        \* processes that share the store
    Children,     \* ids of the children the parent may spawn
    Budget,       \* what the parent is granted
    Grant,        \* the permanent reservation of one child
    MaxFence,     \* bound: takeovers of a run
    MaxPauses,    \* bound: pauses of the parent
    MaxAsks,      \* bound: pauses of a child
    MaxCrashes    \* bound: crashes of processes

VARIABLES run, relation, head, ctl, owed, wake, ending, crashes, dropped
childVars == <<run, relation, head, ctl, owed, wake, ending, crashes, dropped>>

Parent == "parent"

\* The parent is no child of its own, and budgets are amounts.
RunConstants == Parent \notin Children /\ Budget \in Nat /\ Grant \in Nat

Runs == {Parent} \cup Children
\* The end an executor reports (whatever its status) and the end another call
\* publishes for a run that nobody executes.
FinalStates == {"Completed", "Cancelled"}
Final(r) == run[r].state \in FinalStates
Unstarted(c) == run[c].state = "Running" /\ ~run[c].started
NoControl == [at |-> "none", fence |-> 0, waits |-> {}]
NoWake == [at |-> "none", epoch |-> 0]
Attached == {c \in Children : relation[c].state # "none"}
Entered == {"resume", "leave"}

ChildTypeOK ==
    /\ run \in [Runs -> [state : {"absent", "Running", "Interrupted"} \cup FinalStates,
                         fence : 0..MaxFence, started : BOOLEAN, left : 0..Budget,
                         held : 0..Budget, waits : SUBSET Children, pauses : Nat]]
    /\ relation \in [Children -> [state : {"none", "Dispatched"} \cup FinalStates, paused : 0..MaxAsks]]
    /\ head \in [epoch : Nat, open : Nat, committed : Nat, closed : BOOLEAN]
    /\ ctl \in [Procs -> [Runs -> [at : {"none", "live", "pausing", "recovering"},
                                   fence : 0..MaxFence, waits : SUBSET Children]]]
    /\ owed \in [Procs -> SUBSET [child : Children, ends : BOOLEAN, pause : 0..MaxAsks,
                               fence : 1..MaxFence]]
    /\ wake \in [Procs -> [Runs -> [at : {"none", "due", "recheck"} \cup Entered,
                                    epoch : Nat]]]
    /\ ending \in [Procs -> [todo : SUBSET Children, paused : BOOLEAN]]
    /\ crashes \in 0..MaxCrashes
    /\ dropped \in BOOLEAN

\* The parent was started in one of the processes; no child exists yet.
ChildInit ==
    /\ run = [r \in Runs |->
                [state |-> IF r = Parent THEN "Running" ELSE "absent",
                 fence |-> IF r = Parent THEN 1 ELSE 0, started |-> r = Parent,
                 left |-> IF r = Parent THEN Budget ELSE 0, held |-> 0,
                 waits |-> {}, pauses |-> 0]]
    /\ relation = [c \in Children |-> [state |-> "none", paused |-> 0]]
    /\ head = [epoch |-> 0, open |-> 0, committed |-> 0, closed |-> FALSE]
    /\ \E q \in Procs :
         ctl = [p \in Procs |-> [r \in Runs |->
                  IF p = q /\ r = Parent THEN [NoControl EXCEPT !.at = "live", !.fence = 1]
                                         ELSE NoControl]]
    /\ owed = [q \in Procs |-> {}]
    /\ wake = [q \in Procs |-> [r \in Runs |-> NoWake]]
    /\ ending = [q \in Procs |-> [todo |-> {}, paused |-> FALSE]]
    /\ crashes = 0
    /\ dropped = FALSE

--------------------------------------------------------------------------------
(* Publications of a live control. *)

\* The stored run is the one the control executes: Running, under its fence.
Current(q, r) == run[r].state = "Running" /\ run[r].fence = ctl[q][r].fence
Executes(q, r) == ctl[q][r].at = "live" /\ Current(q, r)

\* child_relation_insert_admits: the child's reservation fits in what the parent
\* has left, restored by what its pending command holds, on top of the committed.
InsertAdmits == head.committed + Grant <= run[Parent].left + run[Parent].held

\* Mutant: a spend does not look at what the children hold.
SpendsFreely(left, held) == left >= 0

\* spend_keeps_children_funded, decided in the transaction of the spend.
KeepsChildrenFunded(left, held) ==
    \/ left + held >= run[Parent].left + run[Parent].held
    \/ head.committed <= left + held

\* The child's first publication carries its relation row, under the parent's fence.
Spawn(q, c) ==
    /\ Executes(q, Parent)
    /\ run[c].state = "absent"
    /\ ~head.closed
    /\ InsertAdmits
    /\ run' = [run EXCEPT ![c].state = "Running", ![c].fence = 1]
    /\ relation' = [relation EXCEPT ![c].state = "Dispatched"]
    /\ head' = [head EXCEPT !.epoch = @ + 1, !.open = @ + 1, !.committed = @ + Grant]
    /\ ctl' = [ctl EXCEPT ![q][c] = [NoControl EXCEPT !.at = "live", !.fence = 1]]
    /\ UNCHANGED <<owed, wake, ending, crashes, dropped>>

\* The first publication of a child's attempt.
StartChild(q, c) ==
    /\ Executes(q, c)
    /\ ~run[c].started
    /\ run' = [run EXCEPT ![c].started = TRUE]
    /\ UNCHANGED <<relation, head, ctl, owed, wake, ending, crashes, dropped>>

\* The parent's ledger: a dynamic compile spends at once; a command reserves, and
\* settles by returning what it did not spend. One command is pending at a time.
Ledger(q, left, held) ==
    /\ Executes(q, Parent)
    /\ KeepsChildrenFunded(left, held)
    /\ run' = [run EXCEPT ![Parent].left = left, ![Parent].held = held]
    /\ UNCHANGED <<relation, head, ctl, owed, wake, ending, crashes, dropped>>

ConsumeDynamicCompile(q) ==
    run[Parent].left > 0 /\ Ledger(q, run[Parent].left - 1, run[Parent].held)
ReserveCommand(q) ==
    /\ run[Parent].held = 0
    /\ \E x \in 1..run[Parent].left : Ledger(q, run[Parent].left - x, x)
SettleCommand(q) ==
    /\ run[Parent].held > 0
    /\ \E spent \in 0..run[Parent].held :
         Ledger(q, run[Parent].left + run[Parent].held - spent, 0)

Drop(q, r) == ctl' = [ctl EXCEPT ![q][r] = NoControl]

\* The publication of a control that was taken over is refused, and it stops.
MarkTakenOver(q, r) ==
    /\ ctl[q][r].at \in {"live", "pausing"}
    /\ ~Current(q, r)
    /\ Drop(q, r)
    /\ UNCHANGED <<run, relation, head, owed, wake, ending, crashes, dropped>>

--------------------------------------------------------------------------------
(* Ends and pauses. *)

\* What the end of child c writes in its parent's relation.
RowEnds(c, status) ==
    /\ relation' = [relation EXCEPT ![c] = [state |-> status, paused |-> 0]]
    /\ head' = [head EXCEPT !.epoch = @ + 1, !.open = @ - 1]

\* plan_relation_close: the parent's end closes its head and leaves the rows alone.
ClosedHead == IF Attached = {} THEN head ELSE [head EXCEPT !.epoch = @ + 1, !.closed = TRUE]

\* The completion callback of the control that published the record run'[c].
Completion(q, c, ends) == owed' = [owed EXCEPT ![q] = @ \cup
    {[child |-> c, ends |-> ends, pause |-> run'[c].pauses, fence |-> run[c].fence]}]

\* A child's final record and the end of its row are one transaction.
EndChild(q, c) ==
    /\ Executes(q, c)
    /\ run' = [run EXCEPT ![c].state = "Completed", ![c].started = TRUE]
    /\ RowEnds(c, "Completed")
    /\ Drop(q, c)
    /\ Completion(q, c, TRUE)
    /\ UNCHANGED <<wake, ending, crashes, dropped>>

\* Mutant: the end of the parent leaves the children it never started.
EndParentOnly(q) ==
    /\ Executes(q, Parent)
    /\ run' = [run EXCEPT ![Parent].state = "Completed", ![Parent].held = 0]
    /\ head' = ClosedHead
    /\ Drop(q, Parent)
    /\ UNCHANGED <<relation, owed, wake, ending, crashes, dropped>>

\* A parent's final record closes its relation head; then the process ends the
\* children the parent never started, which it finds as the rows still open.
EndParent(q) ==
    /\ Executes(q, Parent)
    /\ run' = [run EXCEPT ![Parent].state = "Completed", ![Parent].held = 0]
    /\ head' = ClosedHead
    /\ Drop(q, Parent)
    /\ ending' = [ending EXCEPT ![q] =
         [todo |-> {c \in Children : relation[c].state = "Dispatched"}, paused |-> FALSE]]
    /\ UNCHANGED <<relation, owed, wake, crashes, dropped>>

\* A child asks a question; its completion callback will record the pause.
PauseChild(q, c) ==
    /\ Executes(q, c)
    /\ run[c].pauses < MaxAsks
    /\ run' = [run EXCEPT ![c].state = "Interrupted", ![c].started = TRUE, ![c].pauses = @ + 1]
    /\ Drop(q, c)
    /\ Completion(q, c, FALSE)
    /\ UNCHANGED <<relation, head, wake, ending, crashes, dropped>>

\* The parent awaits children and finds some paused: it will pause on them.
AwaitPaused(q) ==
    /\ Executes(q, Parent)
    /\ run[Parent].pauses < MaxPauses
    /\ \E asked \in SUBSET {c \in Attached : run[c].state = "Interrupted"} :
         /\ asked # {}
         /\ ctl' = [ctl EXCEPT ![q][Parent].at = "pausing", ![q][Parent].waits = asked]
    /\ UNCHANGED <<run, relation, head, owed, wake, ending, crashes, dropped>>

\* Mutant: the pause of the parent wakes nobody.
PauseParentSilently(q) ==
    /\ ctl[q][Parent].at \in {"live", "pausing"}
    /\ Current(q, Parent)
    /\ run[Parent].pauses < MaxPauses
    /\ run' = [run EXCEPT ![Parent].state = "Interrupted", ![Parent].pauses = @ + 1,
                          ![Parent].waits = ctl[q][Parent].waits]
    /\ Drop(q, Parent)
    /\ UNCHANGED <<relation, head, owed, wake, ending, crashes, dropped>>

\* The parent's Interrupted record, on its children or on a question of its own;
\* once it is published the process spawns a wake of the parent itself.
PauseParent(q) ==
    /\ ctl[q][Parent].at \in {"live", "pausing"}
    /\ Current(q, Parent)
    /\ run[Parent].pauses < MaxPauses
    /\ wake[q][Parent].at = "none"
    /\ run' = [run EXCEPT ![Parent].state = "Interrupted", ![Parent].pauses = @ + 1,
                          ![Parent].waits = ctl[q][Parent].waits]
    /\ Drop(q, Parent)
    /\ wake' = [wake EXCEPT ![q][Parent].at = "due"]
    /\ UNCHANGED <<relation, head, owed, ending, crashes, dropped>>

\* Mutant: a completion is written over a row that has ended.
WritesOver(c, w) == run[c].fence = w.fence

\* A completion is written to an open row of the child's current fence.
Writes(c, w) == relation[c].state = "Dispatched" /\ run[c].fence = w.fence

\* publish_child_completion: a row that shows the result already is left alone; a
\* pause is refused once the child has another fence or its row has ended. A
\* recorded end owes the parent a wake.
RecordCompletion(q, w) ==
    LET c == w.child
    IN /\ w \in owed[q]
       /\ w.ends => wake[q][c].at = "none"
       /\ owed' = [owed EXCEPT ![q] = @ \ {w}]
       /\ CASE w.ends /\ Writes(c, w) -> RowEnds(c, run[c].state)
            [] ~w.ends /\ Writes(c, w) /\ relation[c].paused # w.pause ->
                 /\ relation' = [relation EXCEPT ![c].paused = w.pause]
                 /\ head' = [head EXCEPT !.epoch = @ + 1]
            [] OTHER -> UNCHANGED <<relation, head>>
       /\ wake' = IF w.ends THEN [wake EXCEPT ![q][c].at = "due"] ELSE wake
       /\ UNCHANGED <<run, ctl, ending, crashes, dropped>>

--------------------------------------------------------------------------------
(* Host calls: resume, cancel of a paused run, reconnect. *)

\* resume_core for a run's own question: the same fence, a new attempt.
ResumePaused(q, r) ==
    /\ run[r].state = "Interrupted"
    /\ run[r].waits = {}
    /\ ctl[q][r].at = "none"
    /\ run' = [run EXCEPT ![r].state = "Running"]
    /\ ctl' = [ctl EXCEPT ![q][r] = [NoControl EXCEPT !.at = "live", !.fence = run[r].fence]]
    /\ UNCHANGED <<relation, head, owed, wake, ending, crashes, dropped>>

\* cancel_async of a paused child: the record ends without the row, which the
\* completion callback repairs.
CancelChild(q, c) ==
    /\ run[c].state = "Interrupted"
    /\ run' = [run EXCEPT ![c].state = "Cancelled"]
    /\ Completion(q, c, TRUE)
    /\ UNCHANGED <<relation, head, ctl, wake, ending, crashes, dropped>>

\* cancel_async of a paused parent: its paused children are cancelled too.
CancelParent(q) ==
    /\ run[Parent].state = "Interrupted"
    /\ run' = [run EXCEPT ![Parent].state = "Cancelled", ![Parent].held = 0]
    /\ head' = ClosedHead
    /\ ending' = [ending EXCEPT ![q] =
         [todo |-> {c \in Children : relation[c].state = "Dispatched"}, paused |-> TRUE]]
    /\ UNCHANGED <<relation, ctl, owed, wake, crashes, dropped>>

\* The clean-up visits one open row: an unstarted child that this process does not
\* execute ends Cancelled, with its row; so does a paused one when a paused parent
\* was cancelled. A child that moved on, or that a takeover moved, is left alone.
CleanUp(q, c) ==
    /\ c \in ending[q].todo
    /\ ending' = [ending EXCEPT ![q].todo = @ \ {c}]
    /\ \/ /\ Unstarted(c) /\ ctl[q][c].at # "live"
          /\ run' = [run EXCEPT ![c].state = "Cancelled"]
          /\ RowEnds(c, "Cancelled")
          /\ UNCHANGED owed
       \/ /\ ending[q].paused /\ run[c].state = "Interrupted"
          /\ run' = [run EXCEPT ![c].state = "Cancelled"]
          /\ Completion(q, c, TRUE)
          /\ UNCHANGED <<relation, head>>
       \/ /\ \/ ~Unstarted(c) /\ ~(ending[q].paused /\ run[c].state = "Interrupted")
             \/ ctl[q][c].at = "live"
             \/ \E p \in Procs : Executes(p, c)
          /\ UNCHANGED <<run, relation, head, owed>>
    /\ UNCHANGED <<ctl, wake, crashes, dropped>>

\* Mutant: a takeover keeps the fence.
TakenByUnfenced(q, r) ==
    /\ run' = [run EXCEPT ![r].started = TRUE]
    /\ ctl' = [ctl EXCEPT ![q][r] = [NoControl EXCEPT !.at = "live", !.fence = run[r].fence]]

\* compare_publish_takeover: the next fence, for this process to run under.
TakenBy(q, r) ==
    /\ run' = [run EXCEPT ![r].fence = @ + 1]
    /\ ctl' = [ctl EXCEPT ![q][r] = [NoControl EXCEPT !.at = "live", !.fence = run[r].fence + 1]]

\* reconnect_core of a Running run that this process does not hold. A child that
\* never started is ended instead when its parent has closed the relation; the
\* relation head is read before the takeover is published.
ReconnectRunning(q, r) ==
    /\ run[r].state = "Running"
    /\ ctl[q][r].at = "none"
    /\ CASE r = Parent \/ run[r].started ->
              run[r].fence < MaxFence /\ TakenBy(q, r) /\ UNCHANGED <<relation, head>>
         [] r # Parent /\ Unstarted(r) /\ head.closed ->
              /\ run' = [run EXCEPT ![r].state = "Cancelled"]
              /\ RowEnds(r, "Cancelled")
              /\ UNCHANGED ctl
         [] OTHER ->
              /\ run[r].fence < MaxFence
              /\ ctl' = [ctl EXCEPT ![q][r].at = "recovering", ![q][r].fence = run[r].fence]
              /\ UNCHANGED <<run, relation, head>>
    /\ UNCHANGED <<owed, wake, ending, crashes, dropped>>

\* The takeover of the unstarted child, unless its record moved in between.
TakeOver(q, r) ==
    /\ ctl[q][r].at = "recovering"
    /\ IF Current(q, r) /\ ~run[r].started
       THEN TakenBy(q, r)
       ELSE Drop(q, r) /\ UNCHANGED run
    /\ UNCHANGED <<relation, head, owed, wake, ending, crashes, dropped>>

\* reconnect_core of a paused parent starts with the wake step.
ReconnectPaused(q) ==
    /\ run[Parent].state = "Interrupted"
    /\ wake[q][Parent].at = "none"
    /\ wake' = [wake EXCEPT ![q][Parent].at = "due"]
    /\ UNCHANGED <<run, relation, head, ctl, owed, ending, crashes, dropped>>

--------------------------------------------------------------------------------
(* wake_paused_parent, and resume_core with child_answered. *)

Task(q, t, at) == wake' = [wake EXCEPT ![q][t].at = at]
EndTask(q, t) == wake' = [wake EXCEPT ![q][t] = NoWake]
\* Mutant: one answered child is enough.
AnyAnswered == \E c \in run[Parent].waits : Final(c)
AllAnswered == run[Parent].waits # {} /\ \A c \in run[Parent].waits : Final(c)

\* A parent that is not paused needs nothing. One whose children have all ended is
\* continued by one task of the process; the others leave it to that task. The
\* decision that there is nothing to do names the epoch it was made under.
WakeLook(q, t) ==
    /\ wake[q][t].at = "due"
    /\ CASE run[Parent].state # "Interrupted" -> EndTask(q, t)
         [] run[Parent].state = "Interrupted" /\ ~AllAnswered ->
              wake' = [wake EXCEPT ![q][t] = [at |-> "recheck", epoch |-> head.epoch]]
         [] OTHER -> IF \E u \in Runs : wake[q][u].at \in Entered
                     THEN EndTask(q, t) ELSE Task(q, t, "resume")

\* It holds only if no row changed since.
WakeRecheck(q, t) ==
    /\ wake[q][t].at = "recheck"
    /\ IF head.epoch # wake[q][t].epoch
       THEN wake' = [wake EXCEPT ![q][t] = [at |-> "due", epoch |-> 0]]
       ELSE EndTask(q, t)

\* resume_core reads the record, the relation head and the children again and
\* publishes against that record and that epoch, so a refused publication is
\* decided again from what it finds. A parent that moved belongs to another caller.
ResumeAnswered(q, t) ==
    /\ wake[q][t].at = "resume"
    /\ IF run[Parent].state = "Interrupted" /\ AllAnswered
       THEN /\ run' = [run EXCEPT ![Parent].state = "Running", ![Parent].waits = {}]
            /\ ctl' = [ctl EXCEPT ![q][Parent] =
                         [NoControl EXCEPT !.at = "live", !.fence = run[Parent].fence]]
            /\ Task(q, t, "leave")
       ELSE EndTask(q, t) /\ UNCHANGED <<run, ctl>>

\* The task leaves the set of continuations in flight after it spawned the attempt.
WakeLeave(q, t) ==
    /\ wake[q][t].at = "leave"
    /\ EndTask(q, t)

WakeStep(q, t) ==
    /\ \/ (WakeLook(q, t) \/ WakeRecheck(q, t) \/ WakeLeave(q, t)) /\ UNCHANGED <<run, ctl>>
       \/ ResumeAnswered(q, t)
    /\ UNCHANGED <<relation, head, owed, ending, crashes, dropped>>

--------------------------------------------------------------------------------
\* A process stops and starts again with empty memory. The crash drops work that
\* only a reconnect can take up when callbacks, wakes or the clean-up were still to
\* run, or when it was the only executor of a child nobody else will end.
CrashProcess(q) ==
    /\ crashes < MaxCrashes
    /\ crashes' = crashes + 1
    /\ dropped' = \/ dropped \/ owed[q] # {} \/ ending[q].todo # {}
                  \/ \E t \in Runs : wake[q][t].at # "none"
                  \/ \E c \in Children : /\ Executes(q, c) /\ ~run[c].started
                                         /\ Final(Parent) \/ \E p \in Procs \ {q} : ctl[p][c].at = "live"
    /\ ctl' = [ctl EXCEPT ![q] = [r \in Runs |-> NoControl]]
    /\ owed' = [owed EXCEPT ![q] = {}]
    /\ wake' = [wake EXCEPT ![q] = [r \in Runs |-> NoWake]]
    /\ ending' = [ending EXCEPT ![q] = [todo |-> {}, paused |-> FALSE]]
    /\ UNCHANGED <<run, relation, head>>

Publish(q) ==
    \/ ConsumeDynamicCompile(q) \/ ReserveCommand(q) \/ SettleCommand(q)
    \/ AwaitPaused(q) \/ PauseParent(q)
    \/ EndParent(q)
    \/ \E c \in Children : Spawn(q, c) \/ StartChild(q, c) \/ PauseChild(q, c) \/ EndChild(q, c)
    \/ \E r \in Runs : MarkTakenOver(q, r)

HostCall(q) ==
    \/ CancelParent(q) \/ ReconnectPaused(q)
    \/ \E c \in Children : CancelChild(q, c) \/ TakeOver(q, c)
    \/ \E r \in Runs : ResumePaused(q, r) \/ ReconnectRunning(q, r)

AfterEnd(q) ==
    \/ \E w \in owed[q] : RecordCompletion(q, w)
    \/ \E c \in Children : CleanUp(q, c)

ChildNext == \E q \in Procs :
    \/ Publish(q) \/ HostCall(q) \/ AfterEnd(q) \/ CrashProcess(q)
    \/ \E t \in Runs : WakeStep(q, t)

\* A process that does not crash runs its callbacks and tasks, and the attempt it
\* spawned publishes its first record. Nothing makes a host call, or a run end.
ChildFairness == \A q \in Procs :
    /\ WF_childVars(AfterEnd(q))
    /\ \A t \in Runs : WF_childVars(WakeStep(q, t))
    /\ \A c \in Children : WF_childVars(StartChild(q, c))

ChildSpec == ChildInit /\ [][ChildNext]_childVars /\ ChildFairness

--------------------------------------------------------------------------------
\* While the parent may still run, what its children hold is covered by what it
\* has left and holds in reserve: a spend and a spawn that race for the same
\* budget never both take it (spend_keeps_children_funded, plan_relation_insert).
ChildrenFunded == ~Final(Parent) => head.committed <= run[Parent].left + run[Parent].held

\* The relation tells the truth about the children. A row that ended shows how its
\* run ended; a run that ended has an open row only while the callback that repairs
\* it is owed, or was lost with its process; the head counts the open rows.
RowsFollowRuns ==
    /\ \A c \in DOMAIN relation :
         /\ relation[c].state = "none" <=> run[c].state = "absent"
         /\ relation[c].state \in FinalStates => relation[c].state = run[c].state
         /\ Final(c) /\ relation[c].state = "Dispatched" =>
              dropped \/ \E q \in DOMAIN owed : \E w \in owed[q] : w.child = c /\ w.ends
    /\ head.open = Cardinality({c \in DOMAIN relation : relation[c].state = "Dispatched"})

\* A run that Running records has at most one process that can publish for it,
\* however wakes, resumes, reconnects and takeovers of several processes meet.
OneExecutor == \A r \in DOMAIN run : \A p, q \in DOMAIN ctl :
    /\ ctl[p][r].at \in {"live", "pausing"} /\ Current(p, r)
    /\ ctl[q][r].at \in {"live", "pausing"} /\ Current(q, r)
    => p = q

\* A parent paused on children is continued only when every one of them has ended.
ContinuedWhenAnswered == [][
    run[Parent].state = "Interrupted" /\ run'[Parent].state = "Running"
    => \A c \in run[Parent].waits : Final(c)]_childVars

\* A parent paused on children that have all ended; a child that its parent never
\* started and, having ended, never will. Work lost in a crash waits for a reconnect.
Forgotten == run[Parent].state = "Interrupted" /\ AllAnswered /\ ~dropped
Orphan(c) == Final(Parent) /\ Unstarted(c) /\ ~dropped

\* No wake is lost: a parent paused on children that have all ended is continued
\* (or cancelled), whichever process saw the last end and however that end raced
\* the parent's own pause (wake_paused_parent).
PausedParentContinues == []<>~Forgotten

\* A child that its ended parent never started does not stay Running: it is ended
\* or starts after all (end_unstarted_children, also when another process than the
\* one that spawned it ends the parent).
NoOrphans == \A c \in Children : []<>~Orphan(c)
================================================================================
