---------------------------- MODULE StepResults -----------------------------
(***************************************************************************)
(* What one super-step leaves behind: the batches of results that are      *)
(* applied to the channel state, and the routings the scheduler plans the  *)
(* next step from.                                                         *)
(*                                                                         *)
(* The channel state is the log of what was applied to it: the reducers    *)
(* are functions of that log.  A node result is a record with at least the *)
(* fields goto (the Command.goto target or None), sends (the target nodes  *)
(* of the Sends it emitted) and failed (a handled failure, which takes the *)
(* node's failure edge).                                                   *)
(***************************************************************************)
EXTENDS Scheduler

InputEntry  == [kind |-> "input",  of |-> <<>>]
UpdateEntry == [kind |-> "update", of |-> <<>>]
RanEntry(ran)   == [kind |-> "ran",  of |-> ran]
SentEntry(sent) == [kind |-> "sent", of |-> sent]

(***************************************************************************)
(* The Sends of a batch, in ready order and then in the order each node    *)
(* emitted them.                                                           *)
(***************************************************************************)
PendingSends(ran) ==
    LET upTo[n \in 0 .. NodeCount] ==
            IF n = 0 THEN <<>>
            ELSE IF n \in DOMAIN ran THEN upTo[n - 1] \o ran[n].sends ELSE upTo[n - 1]
    IN  upTo[NodeCount]

Routing(node, result) == [node |-> node, goto |-> result.goto, failed |-> result.failed]

(* The ready nodes' routings in ready order, then the Sends' in Send order. *)
UnifiedRoutings(ran, sent) ==
    LET sends == PendingSends(ran)
        upTo[n \in 0 .. NodeCount] ==
            IF n = 0 THEN <<>>
            ELSE IF n \in DOMAIN ran THEN Append(upTo[n - 1], Routing(n, ran[n]))
            ELSE upTo[n - 1]
    IN  upTo[NodeCount] \o [i \in DOMAIN sends |-> Routing(sends[i], sent[i])]

Applied(log, ran, sent) ==
    IF PendingSends(ran) = <<>> THEN Append(log, RanEntry(ran))
    ELSE Append(Append(log, RanEntry(ran)), SentEntry(sent))

Labels == UNION {DOMAIN Conditional[n].routes \cup Conditional[n].labels :
                    n \in DOMAIN Conditional}
Labelings == [DOMAIN Conditional -> Labels]
=============================================================================
