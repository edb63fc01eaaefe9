----------------------------- MODULE SuperSteps ------------------------------
(***************************************************************************)
(* What a checkpointed NeoGraph thread promises, whatever stops and        *)
(* resumes it: every state it ever stores is reached by whole super-steps. *)
(*                                                                         *)
(* A configuration is what a super-step starts from: the ready nodes, the  *)
(* channel state (here the log of the results applied to it, one entry per *)
(* batch) and the barrier accumulators.  "configs" is the set of stored    *)
(* configurations.  One may be added to it when it is the start of a run,  *)
(* a new turn on a stored one, an administrative edit of a stored one, or  *)
(* a stored or new start carried through exactly one atomic super-step:    *)
(* every ready node contributes one result, every Send they emitted one,   *)
(* and the scheduler plans once from all of them.                          *)
(***************************************************************************)
EXTENDS StepResults

VARIABLE configs

Config(ready, log, barrier) == [ready |-> ready, log |-> log, barrier |-> barrier]

FreshConfig    == Config(PlanStartStep, <<InputEntry>>, EmptyBarrier)
NewTurn(c)     == Config(PlanStartStep, Append(c.log, InputEntry), EmptyBarrier)
Edited(c)      == Config(c.ready, Append(c.log, UpdateEntry), c.barrier)

(* The configurations a super-step can start from. *)
Sources == configs \cup {FreshConfig} \cup {NewTurn(c) : c \in configs}

Planned(c, ran, sent, labels) ==
    LET routings == UnifiedRoutings(ran, sent)
        plan     == PlanNextStep(routings, labels, c.barrier)
    IN  Config(NextReady(routings, plan), Applied(c.log, ran, sent), plan.barrier)

(* d is c carried through one super-step whose results are the ones d's log
   has and c's has not. *)
SuperStep(c, d) ==
    LET k     == Len(c.log)
        ran   == d.log[k + 1].of
        sent  == IF PendingSends(ran) = <<>> THEN <<>> ELSE d.log[k + 2].of
    IN  /\ Len(d.log) > k
        /\ d.log[k + 1].kind = "ran"
        /\ DOMAIN ran = c.ready
        /\ PendingSends(ran) # <<>> => Len(d.log) > k + 1
        /\ DOMAIN sent = DOMAIN PendingSends(ran)
        /\ \E labels \in Labelings : d = Planned(c, ran, sent, labels)

Init == configs = {}

Store(d) == configs' = configs \cup {d}

Next ==
    \E d \in configs' :
        /\ Store(d)
        /\ \/ \E c \in Sources : d = c \/ SuperStep(c, d)
           \/ \E c \in configs : d = Edited(c)

Spec == Init /\ [][Next]_configs
=============================================================================
