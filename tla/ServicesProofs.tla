--------------------------- MODULE ServicesProofs ---------------------------
(***************************************************************************)
(* What is proved of three parts that share no state.  Of the engine's     *)
(* admission gate, for any finite set of callers: it counts the runs and   *)
(* excludes them from administration.  Of a live migration, for any number *)
(* of requests: once the lineage is the target's, the source executes the  *)
(* graph no more, or is stopped and on its way out.  Of the connection     *)
(* pool, for any set of requests and any limits: a request that may not be *)
(* replayed reaches the server at most once, and nobody reads the response *)
(* of another request.                                                     *)
(***************************************************************************)
EXTENDS EngineAdmission, LiveMigration, ConnPool, FiniteSetTheorems, SequenceTheorems, TLAPS

-----------------------------------------------------------------------------
(* EngineAdmission. *)

\* GateCountsGuards and ExclusiveAdministration are inductive together with
\* the types and with what a caller in its nested loop has seen.
IInv ==
  /\ TypeOK
  /\ GateCountsGuards
  /\ ExclusiveAdministration
  /\ NestedGuardAdmitted

\* There are finitely many ExecutionGuards, whoever holds them.
LEMMA GuardsFinite ==
  /\ IsFiniteSet(Callers \X {1, 2})
  /\ IsFiniteSet(Guards)
  /\ Cardinality(Guards) \in Nat
<1>1. IsFiniteSet({1, 2})
  <2>1. IsFiniteSet({1})
    BY FS_Singleton, ZenonT(60)
  <2>2. {1, 2} = {1} \cup {2}
    OBVIOUS
  <2> QED
    BY <2>1, <2>2, FS_AddElement
<1>2. IsFiniteSet(Callers \X {1, 2})
  BY <1>1, CallersFinite, FS_Product
<1>3. IsFiniteSet(Guards)
  BY <1>2, FS_Subset DEF Guards
<1> QED
  BY <1>2, <1>3, FS_CardinalityType

\* A set of callers' guards that some caller holds has at least one element.
LEMMA GuardHeld ==
  ASSUME NEW c \in Callers, pc[c] \in {"held", "inner", "nested"}
  PROVE  <<c, 1>> \in Guards /\ Cardinality(Guards) >= 1
<1>1. <<c, 1>> \in Guards
  BY DEF Guards
<1>2. Cardinality(Guards) # 0
  BY <1>1, GuardsFinite, FS_EmptySet
<1> QED
  BY <1>1, <1>2, GuardsFinite

\* A new engine has no runs, no administrator and no guard.
THEOREM InitIInv == Init => IInv
<1> SUFFICES ASSUME Init PROVE IInv
  OBVIOUS
<1>1. TypeOK /\ NestedGuardAdmitted
  BY DEF Init, TypeOK, Places, NestedGuardAdmitted
<1>2. Guards = {} /\ Admins = {}
  BY DEF Init, Guards, Admins
<1> QED
  BY <1>1, <1>2, FS_EmptySet DEF Init, IInv, GateCountsGuards, ExclusiveAdministration

\* A step changes the guards by at most one element, in step with the counter.
THEOREM NextIInv == IInv /\ [Next]_vars => IInv'
<1> SUFFICES ASSUME IInv, [Next]_vars PROVE IInv'
  OBVIOUS
<1> USE DEF IInv
<1>1. ASSUME NEW c \in Callers, NEW o \in {"run", "resume"}, BeginExecution(c, o)
      PROVE  IInv'
  <2>1. TypeOK' /\ NestedGuardAdmitted'
    BY <1>1 DEF BeginExecution, TypeOK, Places, NestedGuardAdmitted
  <2>2. Guards' = Guards /\ Admins' = Admins
    BY <1>1 DEF BeginExecution, TypeOK, Guards, Admins
  <2> QED
    BY <1>1, <2>1, <2>2 DEF BeginExecution, GateCountsGuards, ExclusiveAdministration
<1>2. ASSUME NEW c \in Callers, BeginNested(c)
      PROVE  IInv'
  <2>1. Admins = {}
    BY <1>2, GuardHeld, ZenonT(60) DEF BeginNested, ExclusiveAdministration
  <2>2. active_runs >= 1
    BY <1>2, <2>1, GuardHeld, ZenonT(60) DEF BeginNested, GateCountsGuards
  <2>3. TypeOK' /\ NestedGuardAdmitted'
    BY <1>2, <2>2 DEF BeginNested, TypeOK, Places, NestedGuardAdmitted
  <2>4. Guards' = Guards /\ Admins' = Admins
    BY <1>2 DEF BeginNested, TypeOK, Guards, Admins
  <2> QED
    BY <1>2, <2>3, <2>4 DEF BeginNested, GateCountsGuards, ExclusiveAdministration
<1>3. ASSUME NEW c \in Callers, Admit(c)
      PROVE  IInv'
  <2> DEFINE g == <<c, IF pc[c] = "inner" THEN 2 ELSE 1>>
  <2>1. TypeOK' /\ NestedGuardAdmitted'
    BY <1>3 DEF Admit, TypeOK, Places, NestedGuardAdmitted
  <2>2. Guards' = Guards \cup {g} /\ g \notin Guards
    BY <1>3 DEF Admit, TypeOK, Guards
  <2>3. Admins' = Admins
    BY <1>3 DEF Admit, TypeOK, Admins
  <2>4. Admins = {} /\ active_runs = Cardinality(Guards)
    BY <1>3, GuardsFinite DEF Admit, GateCountsGuards, TypeOK
  <2>5. Cardinality(Guards') = Cardinality(Guards) + 1
    BY <2>2, GuardsFinite, FS_AddElement, ZenonT(60)
  <2> QED
    BY <1>3, <2>1, <2>3, <2>4, <2>5 DEF Admit, GateCountsGuards, ExclusiveAdministration
<1>4. ASSUME NEW c \in Callers, Reload(c)
      PROVE  IInv'
  <2>1. pc[c] = "inner" => active_runs >= 1
    BY GuardHeld, ZenonT(60) DEF GateCountsGuards, ExclusiveAdministration
  <2>2. TypeOK' /\ NestedGuardAdmitted'
    BY <1>4, <2>1 DEF Reload, TypeOK, Places, NestedGuardAdmitted
  <2>3. Guards' = Guards /\ Admins' = Admins
    BY <1>4 DEF Reload, TypeOK, Guards, Admins
  <2> QED
    BY <1>4, <2>2, <2>3 DEF Reload, GateCountsGuards, ExclusiveAdministration
<1>5. ASSUME NEW c \in Callers, Refuse(c)
      PROVE  IInv'
  <2>1. pc[c] = "entering"
    BY <1>5 DEF Refuse, NestedGuardAdmitted, TypeOK
  <2>2. TypeOK' /\ NestedGuardAdmitted'
    BY <1>5, <2>1 DEF Refuse, TypeOK, Places, NestedGuardAdmitted
  <2>3. Guards' = Guards /\ Admins' = Admins
    BY <1>5, <2>1 DEF Refuse, TypeOK, Guards, Admins
  <2> QED
    BY <1>5, <2>1, <2>2, <2>3 DEF Refuse, GateCountsGuards, ExclusiveAdministration
<1>6. ASSUME NEW c \in Callers, LeaveExecution(c)
      PROVE  IInv'
  <2> DEFINE g == <<c, IF pc[c] = "nested" THEN 2 ELSE 1>>
  <2>0. active_runs >= 1
    BY <1>6, GuardHeld, ZenonT(60) DEF LeaveExecution, GateCountsGuards, ExclusiveAdministration
  <2>1. TypeOK' /\ NestedGuardAdmitted'
    BY <1>6, <2>0 DEF LeaveExecution, TypeOK, Places, NestedGuardAdmitted
  <2>2. Guards' = Guards \ {g} /\ g \in Guards
    BY <1>6 DEF LeaveExecution, TypeOK, Guards
  <2>3. Admins' = Admins /\ Admins = {}
    BY <1>6, GuardHeld, ZenonT(60) DEF LeaveExecution, TypeOK, Admins, ExclusiveAdministration
  <2>4. Cardinality(Guards') = Cardinality(Guards) - 1
    BY <2>2, GuardsFinite, FS_RemoveElement, ZenonT(60)
  <2> QED
    BY <1>6, <2>1, <2>3, <2>4 DEF LeaveExecution, GateCountsGuards, ExclusiveAdministration
<1>7. ASSUME NEW c \in Callers, EnterAdministration(c)
      PROVE  IInv'
  <2>1. TypeOK' /\ NestedGuardAdmitted'
    BY <1>7 DEF EnterAdministration, TypeOK, Places, NestedGuardAdmitted
  <2>2. Guards = {} /\ Admins = {}
    BY <1>7, GuardsFinite, FS_EmptySet DEF EnterAdministration, GateCountsGuards
  <2>3. Guards' = {} /\ Admins' = {c}
    BY <1>7, <2>2 DEF EnterAdministration, TypeOK, Guards, Admins
  <2> QED
    BY <1>7, <2>1, <2>3 DEF EnterAdministration, GateCountsGuards, ExclusiveAdministration
<1>8. ASSUME NEW c \in Callers, LeaveAdministration(c)
      PROVE  IInv'
  <2>1. TypeOK' /\ NestedGuardAdmitted'
    BY <1>8 DEF LeaveAdministration, TypeOK, Places, NestedGuardAdmitted
  <2>2. Admins = {c} /\ Guards = {}
    BY <1>8 DEF LeaveAdministration, Admins, ExclusiveAdministration
  <2>3. Guards' = {} /\ Admins' = {}
    BY <1>8, <2>2 DEF LeaveAdministration, TypeOK, Guards, Admins
  <2> QED
    BY <1>8, <2>1, <2>3, FS_EmptySet
    DEF LeaveAdministration, GateCountsGuards, ExclusiveAdministration
<1>9. CASE UNCHANGED vars
  BY <1>9 DEF vars, TypeOK, Guards, Admins, GateCountsGuards,
              ExclusiveAdministration, NestedGuardAdmitted
<1> QED
  BY <1>1, <1>2, <1>3, <1>4, <1>5, <1>6, <1>7, <1>8, <1>9 DEF Next

\* For any finite set of callers, in every interleaving of their loads,
\* exchanges and stores, active_runs_ counts the guards alive, administration
\* is exclusive, and the guard nested in a resume is admitted.
THEOREM AdmissionCorrect ==
  Spec => [](TypeOK /\ GateCountsGuards /\ ExclusiveAdministration /\ NestedGuardAdmitted)
<1>1. IInv => TypeOK /\ GateCountsGuards /\ ExclusiveAdministration /\ NestedGuardAdmitted
  BY DEF IInv
<1> QED
  BY InitIInv, NextIInv, <1>1, PTL DEF Spec

-----------------------------------------------------------------------------
(* LiveMigration. *)

ControlShape == [request : Nat, next : Nat, held : BOOLEAN, local : BOOLEAN,
                 current : Nat, cancelled : BOOLEAN, ended : BOOLEAN]

Shapes ==
  /\ control \in ControlShape
  /\ source \in [at : SourceStages, object : Nat]
  /\ migrator \in [at : MigratorStages, request : Nat, sawHeld : BOOLEAN]

\* A source that is held, and not stopped, is parked; so it is while the target is
\* being published, and from then on until it is fenced.
ParkedInv ==
  /\ control.held /\ ~Over => source.at = "held"
  /\ migrator.at = "publish" => Over \/ control.held
  /\ head = "target" => Over \/ (control.held /\ migrator.at \in {"fence", "start"})

MigrationInv == Shapes /\ ParkedInv

-----------------------------------------------------------------------------
\* What the control becomes: its changes leave it a control, and none revives a run.
Clears(k, n) ==
  /\ n \in ControlShape /\ n.held = FALSE
  /\ n.cancelled = k.cancelled /\ n.ended = k.ended

\* A released request is cleared; a fenced one is also cancelled.
LEMMA ClearedControl ==
  ASSUME NEW k \in ControlShape
  PROVE  /\ Clears(k, RequestCleared(k))
         /\ LET n == [RequestCleared(k) EXCEPT !.cancelled = TRUE] IN n \in ControlShape /\ n.cancelled
<1>1. k.current + 1 \in Nat
  BY DEF ControlShape
<1>2. ASSUME NEW c \in Nat
      PROVE  LET n == [k EXCEPT !.request = 0, !.held = FALSE, !.current = c]
             IN /\ Clears(k, n)
                /\ [n EXCEPT !.cancelled = TRUE] \in ControlShape /\ [n EXCEPT !.cancelled = TRUE].cancelled
  BY Zenon DEF ControlShape, Clears
<1>3. RequestCleared(k) = [k EXCEPT !.request = 0, !.held = FALSE, !.current = k.current + 1]
  BY DEF RequestCleared
<1>4. QED
  BY <1>1, <1>2, <1>3, Zenon

\* A run that is cancelled or ends.
LEMMA StoppedControl ==
  ASSUME NEW k \in ControlShape
  PROVE  /\ LET n == [k EXCEPT !.request = 0, !.held = FALSE, !.cancelled = TRUE]
            IN n \in ControlShape /\ n.cancelled
         /\ LET n == [k EXCEPT !.cancelled = TRUE] IN n \in ControlShape /\ n.cancelled
         /\ LET n == [k EXCEPT !.ended = TRUE] IN n \in ControlShape /\ n.ended
BY Zenon DEF ControlShape

\* Changes that do not stop the run.
Continues(k, n) == n \in ControlShape /\ n.cancelled = k.cancelled /\ n.ended = k.ended

\* A hold begins, and the source goes local or comes back, without the run stopping.
LEMMA ContinuedControl ==
  ASSUME NEW k \in ControlShape
  PROVE  /\ LET n == [k EXCEPT !.held = TRUE] IN Continues(k, n) /\ n.held
         /\ \A b \in BOOLEAN : LET n == [k EXCEPT !.local = b] IN Continues(k, n) /\ n.held = k.held
BY Zenon DEF ControlShape, Continues

\* A request is armed without the run stopping, and its hold is not touched.
LEMMA ArmedControl ==
  ASSUME NEW k \in ControlShape
  PROVE  LET n == [k EXCEPT !.request = k.next, !.next = @ + 1] IN Continues(k, n) /\ n.held = k.held
<1>1. k.next \in Nat /\ k.next + 1 \in Nat
  BY DEF ControlShape
<1>2. ASSUME NEW a \in Nat, NEW b \in Nat
      PROVE  LET n == [k EXCEPT !.request = a, !.next = b] IN Continues(k, n) /\ n.held = k.held
  BY Zenon DEF ControlShape, Continues
<1>3. [k EXCEPT !.request = k.next, !.next = @ + 1] = [k EXCEPT !.request = k.next, !.next = k.next + 1]
  OBVIOUS
<1>4. QED
  BY <1>1, <1>2, <1>3, Zenon

\* The stages of the two threads.
LEMMA StageChanges ==
  ASSUME Shapes
  PROVE  /\ \A at \in SourceStages : SourceAt(at) =>
              source' \in [at : SourceStages, object : Nat] /\ source'.at = at
         /\ \A at \in MigratorStages : MigratorAt(at) =>
              migrator' \in [at : MigratorStages, request : Nat, sawHeld : BOOLEAN] /\ migrator'.at = at
BY DEF Shapes, SourceAt, MigratorAt

\* A stopped run stays stopped; then nothing remains to be shown but the shapes.
LEMMA StoppedKept ==
  ASSUME Shapes', control'.cancelled \/ control'.ended
  PROVE  MigrationInv'
BY DEF MigrationInv, ParkedInv, Over

\* A step of the source that leaves the control and the lineage as they are, and does
\* not wake a held source.
LEMMA SourceMoves ==
  ASSUME MigrationInv, NEW at \in SourceStages, SourceAt(at), UNCHANGED <<head, control, migrator>>,
         source.at # "held" \/ ~control.held \/ Over
  PROVE  MigrationInv'
<1>1. source' \in [at : SourceStages, object : Nat] /\ source'.at = at
  BY StageChanges DEF MigrationInv
<1>2. Shapes'
  BY <1>1 DEF MigrationInv, Shapes
<1>3. ParkedInv'
  BY DEF MigrationInv, ParkedInv, Over
<1>4. QED
  BY <1>2, <1>3 DEF MigrationInv

\* fence_request stops the run.
LEMMA Fences ==
  ASSUME MigrationInv, FenceRequest, UNCHANGED migrator
  PROVE  MigrationInv'
<1>1. control' \in ControlShape /\ control'.cancelled
  BY StoppedControl, Zenon DEF MigrationInv, Shapes, FenceRequest
<1>2. source' \in [at : SourceStages, object : Nat]
  BY StageChanges DEF MigrationInv, FenceRequest, SourceStages
<1>3. Shapes'
  BY <1>1, <1>2 DEF MigrationInv, Shapes
<1>4. QED
  BY <1>1, <1>3, StoppedKept

\* A step of the caller that leaves the control and the lineage, and the publication.
LEMMA MigratorMoves ==
  ASSUME MigrationInv, NEW at \in MigratorStages, MigratorAt(at), UNCHANGED <<head, control, source>>,
         at = "publish" => Over \/ control.held,
         migrator.at \notin {"fence", "start"}
  PROVE  MigrationInv'
<1>1. migrator' \in [at : MigratorStages, request : Nat, sawHeld : BOOLEAN] /\ migrator'.at = at
  BY StageChanges DEF MigrationInv
<1>2. Shapes'
  BY <1>1 DEF MigrationInv, Shapes
<1>3. ParkedInv'
  BY <1>1 DEF MigrationInv, ParkedInv, Over
<1>4. QED
  BY <1>2, <1>3 DEF MigrationInv

-----------------------------------------------------------------------------
\* The steps of the source's attempt.
LEMMA SourceKeeps ==
  ASSUME MigrationInv, SourceStep
  PROVE  MigrationInv'
<1> USE DEF MigrationInv
<1>1. CASE Attach
  <2>1. CASE SourceAt("stopping")
    BY <1>1, <2>1, SourceMoves DEF Attach, SourceStages
  <2>2. CASE source' = [at |-> "calling", object |-> control.current]
    <3>1. control.current \in Nat
      BY DEF Shapes, ControlShape
    <3>2. Shapes'
      BY <1>1, <2>2, <3>1 DEF Attach, Shapes, SourceStages
    <3>3. ParkedInv'
      BY <1>1, <2>2 DEF Attach, ParkedInv, Over
    <3>4. QED
      BY <3>2, <3>3
  <2>3. QED
    BY <1>1, <2>1, <2>2 DEF Attach
<1>2. CASE Capture
  BY <1>2, SourceMoves DEF Capture, SourceStages
<1>3. CASE CallEnds
  BY <1>3, SourceMoves DEF CallEnds, SourceStages
<1>4. CASE Hold
  <2>1. PICK at \in {"publish", "between"} : SourceAt(at)
    BY <1>4 DEF Hold
  <2>2. at \in SourceStages
    BY DEF SourceStages
  <2>3. QED
    BY <1>4, <2>1, <2>2, SourceMoves DEF Hold
<1>5. CASE PublishSafePoint
  <2>1. source.at = "publish" /\ UNCHANGED migrator /\ (head' = head \/ head' = "capsule")
    BY <1>5 DEF PublishSafePoint
  <2>2. CASE FenceRequest
    BY <2>1, <2>2, Fences
  <2>3. CASE FailRequest
    <3>1. control' = control \/ control' = RequestCleared(control)
      BY <2>3 DEF FailRequest
    <3>2. /\ control' \in ControlShape /\ control'.cancelled = control.cancelled /\ control'.ended = control.ended
          /\ control' = control \/ control'.held = FALSE
      <4>1. control \in ControlShape
        BY DEF Shapes
      <4>2. Clears(control, RequestCleared(control))
        BY <4>1, ClearedControl, Zenon
      <4>3. QED
        BY <3>1, <4>1, <4>2 DEF Clears
    <3>3. source' \in [at : SourceStages, object : Nat] /\ source'.at = "between"
      BY <2>3, StageChanges DEF FailRequest, SourceStages
    <3>4. Over \/ ~control.held
      BY <2>1 DEF ParkedInv
    <3>5. Shapes'
      BY <2>1, <3>2, <3>3 DEF Shapes
    <3>6. ParkedInv'
      <4>1. Over <=> (control'.cancelled \/ control'.ended)
        BY <3>2 DEF Over
      <4>2. CASE Over
        BY <4>1, <4>2 DEF ParkedInv, Over
      <4>3. CASE ~Over
        <5>1. control'.held = FALSE /\ migrator.at # "publish" /\ head # "target"
          BY <3>2, <3>4, <4>3 DEF ParkedInv, Shapes, ControlShape
        <5>2. QED
          BY <2>1, <5>1 DEF ParkedInv
      <4>4. QED
        BY <4>2, <4>3
    <3>7. QED
      BY <3>5, <3>6
  <2>4. CASE control' = [control EXCEPT !.local = FALSE] /\ SourceAt("confirm")
    <3>1. /\ control' \in ControlShape /\ control'.held = control.held
          /\ control'.cancelled = control.cancelled /\ control'.ended = control.ended
      BY <2>4, ContinuedControl, Zenon DEF Shapes, Continues
    <3>2. source' \in [at : SourceStages, object : Nat] /\ source'.at = "confirm"
      BY <2>4, StageChanges DEF SourceStages
    <3>3. Shapes'
      BY <2>1, <3>1, <3>2 DEF Shapes
    <3>4. ParkedInv'
      BY <2>1, <3>1 DEF ParkedInv, Over
    <3>5. QED
      BY <3>3, <3>4
  <2>5. QED
    BY <1>5, <2>2, <2>3, <2>4 DEF PublishSafePoint
<1>6. CASE Confirm
  <2>1. source.at = "confirm" /\ UNCHANGED <<head, migrator>>
    BY <1>6 DEF Confirm
  <2>2. CASE FenceRequest
    BY <2>1, <2>2, Fences
  <2>3. CASE control' = [control EXCEPT !.held = TRUE] /\ SourceAt("held") /\ ~Over
    <3>1. /\ control' \in ControlShape /\ control'.held
          /\ control'.cancelled = control.cancelled /\ control'.ended = control.ended
      BY <2>3, ContinuedControl DEF Shapes, Continues
    <3>2. source' \in [at : SourceStages, object : Nat] /\ source'.at = "held"
      BY <2>3, StageChanges DEF SourceStages
    <3>3. Shapes'
      BY <2>1, <3>1, <3>2 DEF Shapes
    <3>4. ParkedInv'
      BY <2>1, <3>1, <3>2 DEF ParkedInv, Over
    <3>5. QED
      BY <3>3, <3>4
  <2>4. QED
    BY <1>6, <2>2, <2>3 DEF Confirm
<1>7. CASE Unpark
  BY <1>7, SourceMoves DEF Unpark, SourceStages
<1>8. CASE EndSource
  <2>1. control' \in ControlShape /\ control'.ended
    BY <1>8, StoppedControl, Zenon DEF EndSource, Shapes
  <2>2. source' \in [at : SourceStages, object : Nat]
    BY <1>8, StageChanges DEF EndSource, SourceStages
  <2>3. Shapes'
    BY <1>8, <2>1, <2>2 DEF EndSource, Shapes
  <2>4. QED
    BY <2>1, <2>3, StoppedKept
<1>9. QED
  BY <1>1, <1>2, <1>3, <1>4, <1>5, <1>6, <1>7, <1>8 DEF SourceStep

\* The steps of the call of migrate_graph.
LEMMA CallerKeeps ==
  ASSUME MigrationInv, MigratorStep
  PROVE  MigrationInv'
<1> USE DEF MigrationInv
<1>1. CASE Arm
  <2>1. /\ control' \in ControlShape /\ control'.held = control.held
        /\ control'.cancelled = control.cancelled /\ control'.ended = control.ended
    BY <1>1, ArmedControl, Zenon DEF Arm, Shapes, Continues
  <2>2. /\ migrator' = [at |-> "wait", request |-> control.next, sawHeld |-> FALSE]
        /\ migrator.at = "out" /\ UNCHANGED <<head, source>> /\ control.next \in Nat
    BY <1>1 DEF Arm, Shapes, ControlShape
  <2>3. Shapes'
    BY <2>1, <2>2 DEF Shapes, MigratorStages
  <2>4. ParkedInv'
    BY <2>1, <2>2 DEF ParkedInv, Over
  <2>5. QED
    BY <2>3, <2>4
<1>2. CASE Waited
  <2>1. PICK at \in {"lock", "release"} : MigratorAt(at)
    BY <1>2 DEF Waited
  <2>2. at \in MigratorStages
    BY DEF MigratorStages
  <2>3. QED
    BY <1>2, <2>1, <2>2, MigratorMoves DEF Waited
<1>3. CASE LockHeld
  <2>1. PICK at \in {"publish", "release"} : MigratorAt(at) /\ (at = "publish" => control.held)
    BY <1>3 DEF LockHeld
  <2>2. at \in MigratorStages
    BY DEF MigratorStages
  <2>3. QED
    BY <1>3, <2>1, <2>2, MigratorMoves DEF LockHeld
<1>4. CASE TargetRefused
  BY <1>4, MigratorMoves DEF TargetRefused, MigratorStages
<1>5. CASE PublishTarget
  <2>1. /\ migrator.at = "publish" /\ UNCHANGED <<control, source>>
        /\ \/ head' = "target" /\ (MigratorAt("start") \/ MigratorAt("fence"))
           \/ head' = head /\ \E at \in {"start", "release", "fence"} :
                              MigratorAt(at) /\ (at = "release" => head # "target")
    BY <1>5 DEF PublishTarget
  <2>2. PICK at \in {"start", "release", "fence"} :
          MigratorAt(at) /\ (head' = "target" => at \in {"start", "fence"} \/ Over)
    BY <2>1 DEF ParkedInv
  <2>3. migrator' \in [at : MigratorStages, request : Nat, sawHeld : BOOLEAN] /\ migrator'.at = at
    BY <2>2, StageChanges DEF MigratorStages
  <2>4. Shapes'
    BY <2>1, <2>3 DEF Shapes
  <2>5. ParkedInv'
    BY <2>1, <2>2, <2>3 DEF ParkedInv, Over
  <2>6. QED
    BY <2>4, <2>5
<1>6. CASE FenceSource
  <2>1. control' \in ControlShape /\ control'.cancelled
    BY <1>6, ClearedControl DEF FenceSource, Retires, Shapes
  <2>2. migrator' \in [at : MigratorStages, request : Nat, sawHeld : BOOLEAN]
    BY <1>6, StageChanges DEF FenceSource, MigratorStages
  <2>3. Shapes'
    BY <1>6, <2>1, <2>2 DEF FenceSource, Shapes
  <2>4. QED
    BY <2>1, <2>3, StoppedKept
<1>7. CASE ReleaseLooks
  <2>1. /\ migrator.at = "release" /\ UNCHANGED <<head, control, source>>
        /\ \E b \in BOOLEAN : migrator' = [migrator EXCEPT !.at = "undo", !.sawHeld = b]
    BY <1>7, Zenon DEF ReleaseLooks
  <2>2. migrator' \in [at : MigratorStages, request : Nat, sawHeld : BOOLEAN] /\ migrator'.at = "undo"
    BY <2>1, Zenon DEF Shapes, MigratorStages
  <2>3. Shapes'
    BY <2>1, <2>2 DEF Shapes
  <2>4. ParkedInv'
    BY <2>1, <2>2 DEF ParkedInv, Over
  <2>5. QED
    BY <2>3, <2>4
<1>8. CASE Release
  <2>1. /\ migrator.at = "undo" /\ MigratorAt("out") /\ UNCHANGED source
        /\ head' = head \/ head' = "source"
    BY <1>8 DEF Release
  <2>2. PICK b \in BOOLEAN : LET k == [control EXCEPT !.local = b] IN control' = k \/ control' = RequestCleared(k)
    <3>1. control.local \in BOOLEAN
      BY DEF Shapes, ControlShape
    <3>2. QED
      BY <1>8, <3>1 DEF Release
  <2>3. /\ control' \in ControlShape /\ control'.cancelled = control.cancelled /\ control'.ended = control.ended
        /\ control'.held = control.held \/ control'.held = FALSE
    <3> DEFINE k == [control EXCEPT !.local = b]
    <3>1. /\ k \in ControlShape /\ k.held = control.held
          /\ k.cancelled = control.cancelled /\ k.ended = control.ended
      BY ContinuedControl, Zenon DEF Shapes, Continues
    <3>2. control' = k \/ control' = RequestCleared(k)
      BY <2>2
    <3> HIDE DEF k
    <3>3. Clears(k, RequestCleared(k))
      BY <3>1, ClearedControl, Zenon
    <3>4. QED
      BY <3>1, <3>2, <3>3 DEF Clears
  <2>4. migrator' \in [at : MigratorStages, request : Nat, sawHeld : BOOLEAN] /\ migrator'.at = "out"
    BY <2>1, StageChanges DEF MigratorStages
  <2>5. Shapes'
    BY <2>1, <2>3, <2>4 DEF Shapes
  <2>6. ParkedInv'
    BY <2>1, <2>3, <2>4 DEF ParkedInv, Over
  <2>7. QED
    BY <2>5, <2>6
<1>9. QED
  BY <1>1, <1>2, <1>3, <1>4, <1>5, <1>6, <1>7, <1>8 DEF MigratorStep

\* Whatever answers of the store are lost, and whenever the run is cancelled or its
\* hold released: once the lineage is the target's, the source does not execute the
\* graph, unless it was stopped and has only its last look left (migrate_graph,
\* hold_graph_migration), for any number of requests.
THEOREM GenerationsTakeTurns == LiveSpec => []OneGenerationRuns
<1>1. LiveInit => MigrationInv
  BY DEF LiveInit, MigrationInv, Shapes, ControlShape, SourceStages, MigratorStages, ParkedInv, Over
<1>2. MigrationInv /\ [LiveNext]_liveVars => MigrationInv'
  <2> SUFFICES ASSUME MigrationInv, [LiveNext]_liveVars PROVE MigrationInv'
    OBVIOUS
  <2>1. CASE UNCHANGED liveVars
    BY <2>1 DEF liveVars, MigrationInv, Shapes, ParkedInv, Over
  <2>2. CASE Cancel
    <3>1. control' \in ControlShape /\ control'.cancelled
      BY <2>2, StoppedControl, Zenon DEF Cancel, MigrationInv, Shapes
    <3>2. Shapes'
      BY <2>2, <3>1 DEF Cancel, MigrationInv, Shapes
    <3>3. QED
      BY <3>1, <3>2, StoppedKept
  <2>3. QED
    BY <2>1, <2>2, SourceKeeps, CallerKeeps DEF LiveNext
<1>3. MigrationInv => OneGenerationRuns
  BY DEF MigrationInv, ParkedInv, OneGenerationRuns, Executing
<1>4. QED
  BY <1>1, <1>2, <1>3, PTL DEF LiveSpec

-----------------------------------------------------------------------------
(* ConnPool. *)

\* A connection on which every response was read.
Clean == [open : BOOLEAN, unread : {<<>>}]
Held  == [open : BOOLEAN, unread : {<<>>} \cup {<<r>> : r \in Requests}]

\* The inductive invariant.  Idle connections are clean; a call has a clean one until
\* it sends, and then its own request on it; a request that may not be replayed was
\* not sent before its call sends it.
PoolInv ==
  /\ idle \in Seq(Clean)
  /\ call \in [Requests -> Stages]
  /\ hand \in [Requests -> Held]
  /\ received \in [Requests -> Nat]
  /\ got \in [Requests -> Requests \cup {"nothing"}]
  /\ \A r \in Requests :
       /\ call[r] \in {"reuse", "fresh"} => hand[r].unread = <<>>
       /\ call[r] \in {"reuseSent", "freshSent"} => hand[r].unread = <<r>>
       /\ got[r] \in {r, "nothing"}
  /\ \A r \in Requests \ Replayable :
       /\ received[r] <= 1
       /\ call[r] \in {"new", "reuse", "open", "fresh"} => received[r] = 0

\* A step that takes a call to another stage.
LEMMA CallMoves ==
  ASSUME PoolInv, NEW r \in Requests, NEW stage \in Stages, NEW conn \in Held, Go(r, stage, conn)
  PROVE  /\ call' \in [Requests -> Stages] /\ hand' \in [Requests -> Held]
         /\ call'[r] = stage /\ hand'[r] = conn
         /\ \A q \in Requests \ {r} : call'[q] = call[q] /\ hand'[q] = hand[q]
BY DEF PoolInv, Go

\* What a step in which the call of r moves has to respect.
LEMMA OneCallMoves ==
  ASSUME PoolInv, NEW r \in Requests, NEW stage \in Stages, NEW conn \in Held, Go(r, stage, conn),
         idle' \in Seq(Clean), UNCHANGED received,
         got' \in [Requests -> Requests \cup {"nothing"}], \A q \in Requests : got'[q] \in {q, got[q]},
         stage \in {"reuse", "fresh"} => conn.unread = <<>>,
         stage \notin {"reuseSent", "freshSent"},
         stage \in {"done", "failed"} \/ r \in Replayable \/ call[r] \in {"new", "reuse", "open", "fresh"}
  PROVE  PoolInv'
<1>1. /\ call' \in [Requests -> Stages] /\ hand' \in [Requests -> Held]
      /\ call'[r] = stage /\ hand'[r] = conn
      /\ \A q \in Requests \ {r} : call'[q] = call[q] /\ hand'[q] = hand[q]
  BY CallMoves
<1>2. ASSUME NEW q \in Requests
      PROVE  /\ call'[q] \in {"reuse", "fresh"} => hand'[q].unread = <<>>
             /\ call'[q] \in {"reuseSent", "freshSent"} => hand'[q].unread = <<q>>
  <2>1. CASE q = r
    BY <1>1, <2>1
  <2>2. CASE q # r
    <3>1. call'[q] = call[q] /\ hand'[q] = hand[q]
      BY <1>1, <2>2
    <3>2. QED
      BY <3>1 DEF PoolInv
  <2>3. QED
    BY <2>1, <2>2
<1>3. \A q \in Requests : got'[q] \in {q, "nothing"}
  BY DEF PoolInv
<1>4. ASSUME NEW q \in Requests \ Replayable
      PROVE  /\ received[q] <= 1
             /\ call'[q] \in {"new", "reuse", "open", "fresh"} => received[q] = 0
  <2>1. received[q] <= 1 /\ (call[q] \in {"new", "reuse", "open", "fresh"} => received[q] = 0)
    BY DEF PoolInv
  <2>2. CASE q = r
    BY <1>1, <2>1, <2>2
  <2>3. CASE q # r
    BY <1>1, <2>1, <2>3
  <2>4. QED
    BY <2>2, <2>3
<1>5. QED
  BY <1>1, <1>2, <1>3, <1>4 DEF PoolInv

\* The two connections a call may start from.
LEMMA NewConns == NoConn \in Held /\ FreshConn \in Held /\ FreshConn.unread = <<>> /\ Clean \subseteq Held
BY DEF NoConn, FreshConn, Held, Clean

\* Checking out takes a clean connection and leaves clean ones.
LEMMA ChecksOut ==
  ASSUME PoolInv, NEW r \in Requests, Checkout(r)
  PROVE  PoolInv'
<1>1. PICK k \in 0 .. Len(idle) :
        /\ idle' = SubSeq(idle, 1, k - 1)
        /\ IF k = 0 THEN Go(r, "open", NoConn) ELSE Go(r, "reuse", idle[k])
  BY DEF Checkout
<1>2. idle \in Seq(Clean) /\ Len(idle) \in Nat /\ call[r] = "new" /\ UNCHANGED <<received, got>>
  BY DEF PoolInv, Checkout
<1>3. idle' \in Seq(Clean)
  <2>1. CASE k = 0
    <3>1. idle' = << >>
      BY <1>1, <1>2, <2>1
    <3>2. QED
      BY <3>1
  <2>2. CASE k # 0
    BY <1>1, <1>2, <2>2, SubSeqProperties
  <2>3. QED
    BY <2>1, <2>2
<1>4. got' \in [Requests -> Requests \cup {"nothing"}] /\ \A q \in Requests : got'[q] = got[q]
  BY <1>2 DEF PoolInv
<1>5. CASE k = 0
  <2>1. Go(r, "open", NoConn) /\ NoConn \in Held /\ "open" \in Stages
    BY <1>1, <1>5, NewConns DEF Stages
  <2>2. QED
    BY <1>2, <1>3, <1>4, <2>1, OneCallMoves
<1>6. CASE k # 0
  <2>1. idle[k] \in Clean /\ Go(r, "reuse", idle[k]) /\ "reuse" \in Stages
    BY <1>1, <1>2, <1>6 DEF Stages
  <2>2. idle[k] \in Held /\ idle[k].unread = <<>>
    BY <2>1, NewConns DEF Clean
  <2>3. QED
    BY <1>2, <1>3, <1>4, <2>1, <2>2, OneCallMoves
<1>7. QED
  BY <1>5, <1>6

\* The steps that open a connection and send on it.
LEMMA Sends ==
  ASSUME PoolInv, NEW r \in Requests, Open(r) \/ Send(r)
  PROVE  PoolInv'
<1>1. CASE Open(r)
  <2>1. Go(r, "fresh", FreshConn) /\ "fresh" \in Stages /\ call[r] = "open" /\ UNCHANGED <<idle, received, got>>
    BY <1>1 DEF Open, Stages
  <2>2. idle' \in Seq(Clean) /\ got' \in [Requests -> Requests \cup {"nothing"}] /\ \A q \in Requests : got'[q] = got[q]
    BY <2>1 DEF PoolInv
  <2>3. QED
    BY <2>1, <2>2, NewConns, OneCallMoves
<1>2. CASE Send(r)
  <2> DEFINE conn == [hand[r] EXCEPT !.unread = Append(@, r)]
             stage == IF call[r] = "reuse" THEN "reuseSent" ELSE "freshSent"
  <2>1. call[r] \in {"reuse", "fresh"} /\ hand[r] \in Held /\ hand[r].unread = <<>>
    BY <1>2 DEF Send, PoolInv
  <2>2. Append(<<>>, r) = <<r>>
    OBVIOUS
  <2>3. conn \in Held /\ conn.unread = <<r>>
    BY <2>1, <2>2 DEF Held
  <2>4. Go(r, stage, conn) /\ UNCHANGED <<idle, got>> /\ stage \in {"reuseSent", "freshSent"}
    BY <1>2 DEF Send
  <2>5. received' \in [Requests -> Nat] /\ received'[r] = received[r] + 1
        /\ \A q \in Requests \ {r} : received'[q] = received[q]
    BY <1>2 DEF Send, PoolInv
  <2>6. stage \in Stages
    BY DEF Stages
  <2> HIDE DEF conn, stage
  <2>7. /\ call' \in [Requests -> Stages] /\ hand' \in [Requests -> Held]
        /\ call'[r] = stage /\ hand'[r] = conn
        /\ \A q \in Requests \ {r} : call'[q] = call[q] /\ hand'[q] = hand[q]
    BY <2>3, <2>4, <2>6, CallMoves, Zenon
  <2>8. ASSUME NEW q \in Requests
        PROVE  /\ call'[q] \in {"reuse", "fresh"} => hand'[q].unread = <<>>
               /\ call'[q] \in {"reuseSent", "freshSent"} => hand'[q].unread = <<q>>
    <3>1. CASE q = r
      BY <2>3, <2>4, <2>7, <3>1, Zenon
    <3>2. CASE q # r
      <4>1. call'[q] = call[q] /\ hand'[q] = hand[q]
        BY <2>7, <3>2
      <4>2. QED
        BY <4>1 DEF PoolInv
    <3>3. QED
      BY <3>1, <3>2
  <2>9. ASSUME NEW q \in Requests \ Replayable
        PROVE  /\ received'[q] <= 1
               /\ call'[q] \in {"new", "reuse", "open", "fresh"} => received'[q] = 0
    <3>1. received[q] <= 1 /\ (call[q] \in {"new", "reuse", "open", "fresh"} => received[q] = 0)
      BY DEF PoolInv
    <3>2. CASE q = r
      BY <2>1, <2>4, <2>5, <2>7, <3>1, <3>2
    <3>3. CASE q # r
      BY <2>5, <2>7, <3>1, <3>3
    <3>4. QED
      BY <3>2, <3>3
  <2>10. /\ idle' \in Seq(Clean) /\ got' \in [Requests -> Requests \cup {"nothing"}]
         /\ \A q \in Requests : got'[q] \in {q, "nothing"}
    BY <2>4 DEF PoolInv
  <2>11. QED
    BY <2>5, <2>7, <2>8, <2>9, <2>10 DEF PoolInv
<1>3. QED
  BY <1>1, <1>2

\* The steps in which a call ends.
LEMMA EndsWell ==
  ASSUME PoolInv, NEW r \in Requests, Receive(r) \/ ExchangeFails(r) \/ GivesUp(r)
  PROVE  PoolInv'
<1>1. CASE Receive(r)
  <2> DEFINE conn == [hand[r] EXCEPT !.unread = Tail(@)]
  <2>1. call[r] \in {"reuseSent", "freshSent"} /\ hand[r] \in Held /\ hand[r].unread = <<r>>
    BY <1>1 DEF Receive, PoolInv
  <2>2. Tail(<<r>>) = <<>> /\ Head(<<r>>) = r
    OBVIOUS
  <2>3. conn \in Clean
    BY <2>1, <2>2 DEF Held, Clean
  <2>4. idle' \in Seq(Clean)
    <3>1. idle' \in {idle, Append(idle, conn)}
      BY <1>1 DEF Receive, Checkin
    <3> HIDE DEF conn
    <3>2. idle \in Seq(Clean)
      BY DEF PoolInv
    <3>3. QED
      BY <2>3, <3>1, <3>2, AppendProperties
  <2>5. got' = [got EXCEPT ![r] = r] /\ Go(r, "done", NoConn) /\ UNCHANGED received
    BY <1>1, <2>1, <2>2 DEF Receive, Ends
  <2>6. QED
    <3>1. got' \in [Requests -> Requests \cup {"nothing"}] /\ \A q \in Requests : got'[q] \in {q, got[q]}
      BY <2>5 DEF PoolInv
    <3>2. "done" \in Stages
      BY DEF Stages
    <3>3. QED
      BY <2>4, <2>5, <3>1, <3>2, NewConns, OneCallMoves
<1>2. CASE Fails(r)
  <2>1. Go(r, "failed", NoConn) /\ UNCHANGED <<idle, received, got>>
    BY <1>2 DEF Fails, Ends
  <2>2. idle' \in Seq(Clean) /\ got' \in [Requests -> Requests \cup {"nothing"}] /\ \A q \in Requests : got'[q] = got[q]
    BY <2>1 DEF PoolInv
  <2>3. "failed" \in Stages
    BY DEF Stages
  <2>4. QED
    BY <2>1, <2>2, <2>3, NewConns, OneCallMoves
<1>3. CASE r \in Replayable /\ Go(r, "open", NoConn) /\ UNCHANGED <<slots, idle, received, got>>
  <2>1. idle' \in Seq(Clean) /\ got' \in [Requests -> Requests \cup {"nothing"}] /\ \A q \in Requests : got'[q] = got[q]
    BY <1>3 DEF PoolInv
  <2>2. "open" \in Stages
    BY DEF Stages
  <2>3. QED
    BY <1>3, <2>1, <2>2, NewConns, OneCallMoves
<1>4. QED
  BY <1>1, <1>2, <1>3 DEF ExchangeFails, GivesUp

\* The server closes a connection, and nothing is read from it by that.
LEMMA ServerClosesWell ==
  ASSUME PoolInv, ServerCloses
  PROVE  PoolInv'
<1>1. UNCHANGED <<slots, call, received, got>>
  BY DEF ServerCloses
<1>2. ASSUME NEW i \in DOMAIN idle, idle' = [idle EXCEPT ![i].open = FALSE], UNCHANGED hand
      PROVE  PoolInv'
  <2>1. idle[i] \in Clean /\ idle \in Seq(Clean)
    BY DEF PoolInv
  <2>2. [idle[i] EXCEPT !.open = FALSE] \in Clean
    BY <2>1, Zenon DEF Clean
  <2>3. idle' = [idle EXCEPT ![i] = [idle[i] EXCEPT !.open = FALSE]]
    BY <1>2
  <2>4. idle' \in Seq(Clean)
    BY <2>1, <2>2, <2>3, ExceptSeq
  <2>5. QED
    BY <1>1, <1>2, <2>4 DEF PoolInv
<1>3. ASSUME NEW r \in Requests, hand' = [hand EXCEPT ![r].open = FALSE], UNCHANGED idle
      PROVE  PoolInv'
  <2>1. hand[r] \in Held
    BY DEF PoolInv
  <2>2. [hand[r] EXCEPT !.open = FALSE] \in Held /\ [hand[r] EXCEPT !.open = FALSE].unread = hand[r].unread
    BY <2>1, Zenon DEF Held
  <2>3. hand' \in [Requests -> Held] /\ \A q \in Requests : hand'[q].unread = hand[q].unread
    BY <1>3, <2>2 DEF PoolInv
  <2>4. QED
    BY <1>1, <1>3, <2>3 DEF PoolInv
<1>4. QED
  BY <1>2, <1>3 DEF ServerCloses

\* The invariant of the pool holds for any set of requests and any limits.
LEMMA PoolInvHolds == PoolSpec => []PoolInv
<1>1. PoolInit => PoolInv
  BY NewConns DEF PoolInit, PoolInv, Stages
<1>2. PoolInv /\ [PoolNext]_poolVars => PoolInv'
  <2> SUFFICES ASSUME PoolInv, [PoolNext]_poolVars PROVE PoolInv'
    OBVIOUS
  <2>1. CASE UNCHANGED poolVars
    BY <2>1 DEF poolVars, PoolInv
  <2>2. CASE PoolNext
    BY <2>2, ChecksOut, Sends, EndsWell, ServerClosesWell DEF PoolNext
  <2>3. QED
    BY <2>1, <2>2
<1>3. QED
  BY <1>1, <1>2, PTL DEF PoolSpec

\* SentOnce, for any set of requests and any limits of the pool: a request that is not
\* replayable reaches the server at most once, although a reused connection that
\* failed is replaced and the request tried again (async_post).
THEOREM RequestsSentOnce == PoolSpec => []SentOnce
<1>1. PoolInv => SentOnce
  BY Zenon DEF PoolInv, SentOnce
<1>2. QED
  BY <1>1, PoolInvHolds, PTL

\* OwnResponses, for any set of requests and any limits of the pool: a connection goes
\* back to the pool with every response read, so that nobody reads the response of
\* another request, whenever the server closes it.
THEOREM ResponsesAreOwn == PoolSpec => []OwnResponses
<1>1. PoolInv => \A i \in DOMAIN idle : idle[i].unread = <<>>
  <2> SUFFICES ASSUME PoolInv, NEW i \in DOMAIN idle PROVE idle[i].unread = <<>>
    OBVIOUS
  <2>1. idle[i] \in Clean
    BY DEF PoolInv
  <2>2. QED
    BY <2>1 DEF Clean
<1>2. PoolInv => OwnResponses
  BY <1>1 DEF PoolInv, OwnResponses
<1>3. QED
  BY <1>2, PoolInvHolds, PTL
=============================================================================
