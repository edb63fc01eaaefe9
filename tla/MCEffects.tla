------------------------------ MODULE MCEffects ------------------------------
(***************************************************************************)
(* One run for the durable effects of a run: node attempts with the tool   *)
(* effect broker, the children of a Program run, and the Hook outbox.  The *)
(* initial state chooses the part that moves; the others stand still.  The *)
(* children are looked at in three instances: takeovers of a parent and a  *)
(* child by two processes, the wake of a parent by two processes, and a    *)
(* parent that waits for two children.  The outbox: one Hook with two      *)
(* attempts, one Hook with two deliveries, and two Hooks.                  *)
(***************************************************************************)
EXTENDS NodeAttempts, ChildRuns, HookOutbox

VARIABLE part

effectVars == <<part, vars, childVars, outboxVars>>

\* The constants of the part "takeover" are those of ChildRuns.
Woken == INSTANCE ChildRuns WITH
    Budget <- 0, Grant <- 0, MaxFence <- 1, MaxPauses <- 1, MaxAsks <- 1

Join == INSTANCE ChildRuns WITH
    Procs <- {1}, Children <- {"c1", "c2"}, Budget <- 0, Grant <- 0, MaxFence <- 1,
    MaxPauses <- 1, MaxAsks <- 1, MaxCrashes <- 0

\* The constants of the part "retried" are those of HookOutbox.
Repeated == INSTANCE HookOutbox WITH
    MaxAttempts <- 1, MaxDeliveries <- 2, Timeout <- 1, MaxTime <- 2

Ordered == INSTANCE HookOutbox WITH
    Hooks <- {1, 2}, MaxAttempts <- 1, MaxTime <- 2

\* The instances are among those the theorems speak of.
ASSUME EffectsConstants ==
    /\ RunConstants /\ Woken!RunConstants /\ Join!RunConstants
    /\ OutboxConstants /\ Repeated!OutboxConstants /\ Ordered!OutboxConstants

EffectsInit ==
    /\ part \in {"attempts", "takeover", "woken", "join", "retried", "repeated", "ordered"}
    /\ Init
    /\ CASE part = "woken" -> Woken!ChildInit
         [] part = "join" -> Join!ChildInit
         [] OTHER -> ChildInit
    /\ CASE part = "repeated" -> Repeated!OutboxInit
         [] part = "ordered" -> Ordered!OutboxInit
         [] OTHER -> OutboxInit

EffectsNext ==
    \/ part = "attempts" /\ Next /\ UNCHANGED <<part, childVars, outboxVars>>
    \/ part = "takeover" /\ ChildNext /\ UNCHANGED <<part, vars, outboxVars>>
    \/ part = "woken" /\ Woken!ChildNext /\ UNCHANGED <<part, vars, outboxVars>>
    \/ part = "join" /\ Join!ChildNext /\ UNCHANGED <<part, vars, outboxVars>>
    \/ part = "retried" /\ OutboxNext /\ UNCHANGED <<part, vars, childVars>>
    \/ part = "repeated" /\ Repeated!OutboxNext /\ UNCHANGED <<part, vars, childVars>>
    \/ part = "ordered" /\ Ordered!OutboxNext /\ UNCHANGED <<part, vars, childVars>>

\* The fairness of each module, for the part that moves.
EffectsFairness ==
    /\ WF_vars(part = "attempts" /\ Orchestrate)
    /\ \A c \in Callers : WF_vars(part = "attempts" /\ TimeoutPasses(c))
    /\ \A q \in Procs :
         /\ WF_childVars(part = "takeover" /\ AfterEnd(q))
         /\ WF_childVars(part = "takeover" /\ StartChild(q, "c1"))
         /\ WF_childVars(part = "woken" /\ Woken!AfterEnd(q))
         /\ WF_childVars(part = "woken" /\ Woken!StartChild(q, "c1"))
         /\ \A t \in {"parent", "c1"} : WF_childVars(part = "woken" /\ Woken!WakeStep(q, t))
    /\ WF_childVars(part = "join" /\ Join!AfterEnd(1))
    /\ \A c \in {"c1", "c2"} : WF_childVars(part = "join" /\ Join!StartChild(1, c))
    /\ \A t \in {"parent", "c1", "c2"} : WF_childVars(part = "join" /\ Join!WakeStep(1, t))
    /\ \A r \in Runners :
         /\ WF_outboxVars(part = "retried" /\ EmissionStep(r))
         /\ WF_outboxVars(part = "repeated" /\ Repeated!EmissionStep(r))
         /\ WF_outboxVars(part = "ordered" /\ Ordered!EmissionStep(r))

EffectsSpec == EffectsInit /\ [][EffectsNext]_effectVars /\ EffectsFairness

-----------------------------------------------------------------------------
\* The variables keep their types in every part.
TypesOK ==
    /\ TypeOK
    /\ CASE part = "woken" -> Woken!ChildTypeOK
         [] part = "join" -> Join!ChildTypeOK
         [] OTHER -> ChildTypeOK
    /\ CASE part = "repeated" -> Repeated!OutboxTypeOK
         [] part = "ordered" -> Ordered!OutboxTypeOK
         [] OTHER -> OutboxTypeOK

\* An invocation with a timeout ends although a body may hang for ever.
AttemptsEnd == []<>(part = "attempts" => orch.at \in Ended)
=============================================================================
