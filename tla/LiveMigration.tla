--------------------------- MODULE LiveMigration ---------------------------
(***************************************************************************)
(* The live migration of a graph: a running generation of a Program, the   *)
(* source, is stopped at a safe point between two super-steps, its         *)
(* checkpoint is published as a capsule, and a target generation is        *)
(* published in its place.                                                 *)
(*                                                                         *)
(* Three threads share a RunControl: the attempt of the source             *)
(* (run_attempt.cpp with hold_graph_migration), the caller of              *)
(* ProgramRuntime::migrate_graph, and a caller of cancel.  The safe-point  *)
(* request (graph_safe_point.cpp) is an object that is used once: the core *)
(* call of the source attaches to the one that is current when it begins,  *)
(* and the control renews it whenever a request is over.                   *)
(*                                                                         *)
(* The transition store may lose the answer of a write, and fail the reads *)
(* that would tell whether the write was applied.                          *)
(***************************************************************************)
EXTENDS Naturals

CONSTANT MaxRequests    \* calls of migrate_graph that arm a request

VARIABLES
  head,       \* the lineage head: the source's run record, its sealed capsule, its terminal record, the target's
  lease,      \* the generation the store's execution lease names
  control,    \* RunControl of the source
  point,      \* the state of each GraphSafePointRequest
  source,     \* where the source's attempt is, and the request object its core call is attached to
  migrator,     \* where the call of migrate_graph is, and its request id
  target      \* whether the target's attempt was started

liveVars == <<head, lease, control, point, source, migrator, target>>

Objects == 1 .. MaxRequests + 1

\* control.local is execution_lease_: the attempt believes it holds the lease.
Control == [request : 0 .. MaxRequests, next : 1 .. MaxRequests + 1, held : BOOLEAN, local : BOOLEAN,
            current : Objects, cancelled : BOOLEAN, ended : BOOLEAN]

SourceStages == {"between", "calling", "captured", "publish", "confirm", "held", "stopping", "ended"}
MigratorStages == {"out", "wait", "lock", "publish", "fence", "start", "release", "undo"}

LiveTypeOK ==
  /\ head \in {"source", "capsule", "terminal", "target"}
  /\ lease \in {"source", "none", "target"}
  /\ control \in Control
  /\ point \in [Objects -> {"Idle", "Requested", "Captured", "Closed"}]
  /\ source \in [at : SourceStages, object : Objects]
  /\ migrator \in [at : MigratorStages, request : 0 .. MaxRequests, sawHeld : BOOLEAN]
  /\ target \in {"none", "running"}

LiveInit ==
  /\ head = "source" /\ lease = "source"
  /\ control = [request |-> 0, next |-> 1, held |-> FALSE, local |-> TRUE,
                current |-> 1, cancelled |-> FALSE, ended |-> FALSE]
  /\ point = [o \in Objects |-> "Idle"]
  /\ source = [at |-> "between", object |-> 1]
  /\ migrator = [at |-> "out", request |-> 0, sawHeld |-> FALSE]
  /\ target = "none"

\* The source's attempt is inside the graph, or about to enter it.
Executing == source.at \in {"between", "calling"}
Over == control.cancelled \/ control.ended

SourceAt(at) == source' = [source EXCEPT !.at = at]
MigratorAt(at) == migrator' = [migrator EXCEPT !.at = at]

\* The request is over: it is cleared and the next core call gets a new object.
RequestCleared(k) == [k EXCEPT !.request = 0, !.held = FALSE, !.current = @ + 1]

-----------------------------------------------------------------------------
(* The source's attempt *)

\* The loop of the attempt: a stopped run leaves it, else the core call attaches to the current object, which admits
\* it unless it was used.
Attach ==
  /\ source.at = "between"
  /\ IF Over \/ point[control.current] \in {"Captured", "Closed"}
       THEN SourceAt("stopping")
       ELSE source' = [at |-> "calling", object |-> control.current]
  /\ UNCHANGED <<head, lease, control, point, migrator, target>>

\* A super-step was committed: a requested call stops there, with the checkpoint as its safe point.
Capture ==
  /\ source.at = "calling"
  /\ point[source.object] = "Requested"
  /\ ~control.cancelled
  /\ point' = [point EXCEPT ![source.object] = "Captured"]
  /\ SourceAt("captured")
  /\ UNCHANGED <<head, lease, control, migrator, target>>

\* The core call ends by itself, fails, or meets its cancellation: the object admits no request any more.
CallEnds ==
  /\ source.at = "calling"
  /\ point' = [point EXCEPT ![source.object] = "Closed"]
  /\ SourceAt("stopping")
  /\ UNCHANGED <<head, lease, control, migrator, target>>

\* hold_graph_migration looks whether the request still stands; a released one has left, and the call goes on.
Hold ==
  /\ source.at = "captured"
  /\ SourceAt(IF control.request # 0 /\ point[control.current] = "Captured" THEN "publish" ELSE "between")
  /\ UNCHANGED <<head, lease, control, point, migrator, target>>

\* fail_request: nothing was published, the source continues under a renewed request.
FailRequest ==
  /\ control' = IF control.request # 0 THEN RequestCleared(control) ELSE control
  /\ SourceAt("between")

\* fence_request: what was published is not known to be undone, so the source is cancelled and ends.
FenceRequest ==
  /\ control' = [control EXCEPT !.request = 0, !.held = FALSE, !.cancelled = TRUE]
  /\ SourceAt("stopping")

\* compare_publish_graph_safe_point seals the capsule and gives the lease up in one write.  When its answer is lost,
\* publication_state reads the store to learn whether it was applied.
PublishSafePoint ==
  /\ source.at = "publish"
  /\ \E applied, answered, readable \in BOOLEAN :
       /\ applied => control.local /\ head = "source" /\ lease = "source"
       /\ answered => applied
       /\ IF applied THEN head' = "capsule" /\ lease' = "none" ELSE UNCHANGED <<head, lease>>
       /\ CASE applied /\ (answered \/ readable) ->
                 /\ control' = [control EXCEPT !.local = FALSE]
                 /\ SourceAt("confirm")
            [] ~applied /\ readable -> FailRequest
            [] ~answered /\ ~readable -> FenceRequest
            [] OTHER -> FALSE
  /\ UNCHANGED <<point, migrator, target>>

\* The capsule is read back; the source is held for the request that asked, if it still does.
Confirm ==
  /\ source.at = "confirm"
  /\ \/ /\ control.request # 0 /\ control.request = migrator.request /\ ~Over
        /\ control' = [control EXCEPT !.held = TRUE]
        /\ SourceAt("held")
     \/ FenceRequest
  /\ UNCHANGED <<head, lease, point, migrator, target>>

\* The held source is parked until its request is released or the run is cancelled.
Unpark ==
  /\ source.at = "held"
  /\ ~control.held \/ Over
  /\ SourceAt("between")
  /\ UNCHANGED <<head, lease, control, point, migrator, target>>

\* The attempt publishes its end, which a successor's head refuses.
EndSource ==
  /\ source.at = "stopping"
  /\ head' = IF head = "target" THEN head ELSE "terminal"
  /\ lease' = IF head = "target" THEN lease ELSE "none"
  /\ control' = [control EXCEPT !.ended = TRUE]
  /\ SourceAt("ended")
  /\ UNCHANGED <<point, migrator, target>>

SourceStep == Attach \/ Capture \/ CallEnds \/ Hold \/ PublishSafePoint \/ Confirm \/ Unpark \/ EndSource

-----------------------------------------------------------------------------
(* The call of migrate_graph *)

\* arm_graph_migration
Arm ==
  /\ migrator.at = "out"
  /\ ~Over /\ control.request = 0 /\ control.next <= MaxRequests
  /\ point[control.current] = "Idle"
  /\ point' = [point EXCEPT ![control.current] = "Requested"]
  /\ control' = [control EXCEPT !.request = control.next, !.next = @ + 1]
  /\ migrator' = [at |-> "wait", request |-> control.next, sawHeld |-> FALSE]
  /\ UNCHANGED <<head, lease, source, target>>

\* wait_graph_migration_async: the source is held, or the request is over, or the caller stopped waiting.
Waited ==
  /\ migrator.at = "wait"
  /\ MigratorAt(IF control.request = migrator.request /\ control.held THEN "lock" ELSE "release")
  /\ UNCHANGED <<head, lease, control, point, source, target>>

\* The coordination lock is taken, and the hold is looked at again (graph_migration_matches).
LockHeld ==
  /\ migrator.at = "lock"
  /\ MigratorAt(IF control.request = migrator.request /\ control.held /\ ~Over THEN "publish" ELSE "release")
  /\ UNCHANGED <<head, lease, control, point, source, target>>

\* The target cannot be prepared: its run id is taken, the budget is spent, the checkpoint cannot be saved.
TargetRefused ==
  /\ migrator.at = "publish"
  /\ MigratorAt("release")
  /\ UNCHANGED <<head, lease, control, point, source, target>>

\* compare_publish_execution of the target over the capsule.  The source is released only when the lineage is known
\* to stand where the capsule left it; otherwise it is fenced, and the target started only when known to be there.
PublishTarget ==
  /\ migrator.at = "publish"
  /\ \E applied, answered, readable \in BOOLEAN :
       /\ applied => head = "capsule"
       /\ IF applied THEN head' = "target" /\ lease' = "target" ELSE UNCHANGED <<head, lease>>
       /\ CASE applied /\ (answered \/ readable) -> MigratorAt("start")
            [] ~applied /\ readable /\ head = "capsule" -> MigratorAt("release")
            [] OTHER -> MigratorAt("fence")
  /\ UNCHANGED <<control, point, source, target>>

\* Mutant: the successor takes the source's place and wakes it without cancelling it.
RetiresUncancelled ==
  /\ control' = RequestCleared(control)
  /\ UNCHANGED <<head, lease>>

\* fence_source, retire_to: the source is cancelled, then its hold is released: with the lease, if the store still
\* has the capsule and answers.
Retires ==
  /\ control' = [RequestCleared(control) EXCEPT !.cancelled = TRUE]
  /\ \/ UNCHANGED <<head, lease>>
     \/ head = "capsule" /\ head' = "source" /\ lease' = "source"

\* The source is fenced.  The target's attempt starts if it is known to be published; else the call fails.
FenceSource ==
  /\ migrator.at \in {"fence", "start"}
  /\ Retires
  /\ target' = IF migrator.at = "start" THEN "running" ELSE target
  /\ MigratorAt("out")
  /\ UNCHANGED <<point, source>>

\* release_graph_migration_async looks whether the source is held.
ReleaseLooks ==
  /\ migrator.at = "release"
  /\ migrator' = [migrator EXCEPT !.at = "undo", !.sawHeld = control.request = migrator.request /\ control.held]
  /\ UNCHANGED <<head, lease, control, point, source, target>>

\* A held source gets its lease back in the store first; unless that is known to have happened it stays held, so that
\* it does not run beside whoever owns the lineage.  A cancelled one is let go in any case.
Release ==
  /\ migrator.at = "undo"
  /\ \E applied, known \in BOOLEAN :
       /\ applied => migrator.sawHeld /\ head = "capsule"
       /\ known => applied \/ ~migrator.sawHeld
       /\ IF applied THEN head' = "source" /\ lease' = "source" ELSE UNCHANGED <<head, lease>>
       /\ LET k == [control EXCEPT !.local = @ \/ (applied /\ known)] IN
          control' = IF (known \/ Over) /\ control.request = migrator.request THEN RequestCleared(k) ELSE k
  /\ MigratorAt("out")
  /\ UNCHANGED <<point, source, target>>

MigratorStep == Arm \/ Waited \/ LockHeld \/ TargetRefused \/ PublishTarget \/ FenceSource \/ ReleaseLooks \/ Release

-----------------------------------------------------------------------------

\* cancel_async takes the coordination lock that the migration holds from its look at the hold to its end.
Cancel ==
  /\ ~Over
  /\ migrator.at \notin {"publish", "fence", "start"}
  /\ control' = [control EXCEPT !.cancelled = TRUE]
  /\ UNCHANGED <<head, lease, point, source, migrator, target>>

LiveNext == SourceStep \/ MigratorStep \/ Cancel

LiveSpec == LiveInit /\ [][LiveNext]_liveVars

(* Hazard: the answer of the write that publishes the target is lost, or   *)
(* the run is cancelled or its hold released while the target is being     *)
(* published.  Once the lineage is the target's the source does not        *)
(* execute the graph, unless it was cancelled or has ended and is still at *)
(* its last look, where it stops: at most one generation runs on.          *)
OneGenerationRuns == head = "target" => ~Executing \/ Over

=============================================================================
