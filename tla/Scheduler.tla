------------------------------ MODULE Scheduler ------------------------------
(***************************************************************************)
(* The planning half of a NeoGraph super-step (src/core/scheduler.cpp):    *)
(* from the routings of the tasks that just ran, the barrier accumulators  *)
(* and the graph, the set of nodes that are ready next.                    *)
(*                                                                         *)
(* Nodes are numbered in the order of their names, because the scheduler   *)
(* returns the ready nodes sorted by name: a set of numbers then carries   *)
(* the ready order with it.  A condition is a C++ function of the channel  *)
(* values, which the model does not hold, so the label it returns is an    *)
(* argument ("labels") that the caller picks freely.                       *)
(***************************************************************************)
EXTENDS Integers, Sequences, FiniteSets

CONSTANTS
    NodeCount,      \* the graph's nodes are 1 .. NodeCount
    Edges,          \* static edges <<from, to>>, Start and End included
    Conditional,    \* node -> its first conditional edge, see ConditionalOK
    Joins,          \* join node -> its slots, each a set of alternatives
    FailureTarget,  \* node -> target of its failure edge
    FailureExits    \* nodes that end the run when they complete

Nodes == 1 .. NodeCount
Start == -2
None  == -1
End   == 0

(* The two reserved route keys of a conditional edge. *)
DefaultRoute == "default"
LegacyRoute  == "legacy"

ConditionalOK(ce) ==
    /\ DOMAIN ce = {"routes", "closed", "labels"}
    /\ ce.closed \in BOOLEAN
    /\ \A label \in DOMAIN ce.routes : ce.routes[label] \in Nodes \cup {End}

ASSUME GraphAssumption ==
    /\ NodeCount \in Nat \ {0}
    /\ Edges \subseteq (Nodes \cup {Start}) \X (Nodes \cup {End})
    /\ DOMAIN Conditional \subseteq Nodes
    /\ \A n \in DOMAIN Conditional : ConditionalOK(Conditional[n])
    /\ DOMAIN Joins \subseteq Nodes
    /\ \A t \in DOMAIN Joins : Joins[t] \subseteq SUBSET Nodes
    /\ DOMAIN FailureTarget \subseteq Nodes
    /\ \A n \in DOMAIN FailureTarget : FailureTarget[n] \in Nodes
    /\ FailureExits \subseteq Nodes

Successors(node) == {e[2] : e \in {x \in Edges : x[1] = node}}

PlanStartStep == Successors(Start) \ {End}

(***************************************************************************)
(* The successors of a node, or {} when the scheduler throws because the   *)
(* label of its condition has no route.                                    *)
(***************************************************************************)
ConditionalTargets(ce, label) ==
    LET outside == ce.closed /\ label \notin ce.labels
        keys    == DOMAIN ce.routes
    IN  IF ~outside /\ label \in keys THEN {ce.routes[label]}
        ELSE IF LegacyRoute \in keys THEN {ce.routes[LegacyRoute]}
        ELSE IF ~ce.closed /\ DefaultRoute \in keys THEN {ce.routes[DefaultRoute]}
        ELSE {}

ResolveNextNodes(node, labels) ==
    IF node \in DOMAIN Conditional
    THEN ConditionalTargets(Conditional[node], labels[node])
    ELSE IF Successors(node) = {} THEN {End} ELSE Successors(node)

EndsImplicitly(node) == node \notin DOMAIN Conditional /\ Successors(node) = {}

(***************************************************************************)
(* A routing is [node, goto, failed]; routings are in routing order.       *)
(***************************************************************************)
SuccessorsOf(r, labels) ==
    IF r.failed THEN {FailureTarget[r.node]} ELSE ResolveNextNodes(r.node, labels)

CommandGoto(routings) ==
    LET commanded == {i \in DOMAIN routings : routings[i].goto # None}
    IN  IF commanded = {} THEN None
        ELSE routings[CHOOSE i \in commanded : \A j \in commanded : j <= i].goto

Signalers(routings, labels, target) ==
    {routings[i].node :
        i \in {j \in DOMAIN routings : target \in SuccessorsOf(routings[j], labels)}}

Satisfied(target, accum) == \A slot \in Joins[target] : slot \cap accum # {}

RoutingFails(routings, labels) ==
    /\ CommandGoto(routings) = None
    /\ \E i \in DOMAIN routings : SuccessorsOf(routings[i], labels) = {}

EmptyBarrier == [t \in DOMAIN Joins |-> {}]

(***************************************************************************)
(* plan_next_step: a Command.goto preempts everything and leaves the       *)
(* accumulators alone; otherwise every target fires, except a join that is *)
(* not satisfied yet, which keeps its signals.                             *)
(***************************************************************************)
PlanNextStep(routings, labels, barrier) ==
    LET goto    == CommandGoto(routings)
        accum   == [t \in DOMAIN Joins |->
                       barrier[t] \cup Signalers(routings, labels, t)]
        targets == {t \in Nodes : Signalers(routings, labels, t) # {}}
        fires   == {t \in targets : t \in DOMAIN Joins => Satisfied(t, accum[t])}
    IN  IF goto # None
        THEN [ready |-> {goto} \ {End}, barrier |-> barrier]
        ELSE [ready   |-> fires,
              barrier |-> [t \in DOMAIN Joins |->
                              IF t \in fires THEN {} ELSE accum[t]]]

(* A completed failure-exit node ends the run after its super-step. *)
ExitReached(routings) ==
    \E i \in DOMAIN routings : routings[i].node \in FailureExits /\ ~routings[i].failed

NextReady(routings, plan) == IF ExitReached(routings) THEN {} ELSE plan.ready
=============================================================================
