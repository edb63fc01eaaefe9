----------------------------- MODULE MCGraphRun ------------------------------
(* Small graphs and node behaviours for checking GraphRun. *)
EXTENDS GraphRun, TLC

EmptyFun == [x \in {} |-> x]
NoGotos  == [n \in Nodes |-> {None}]
NoSends  == [n \in Nodes |-> {<<>>}]

(* 1 and 2 start together; 3 joins them. *)
FanEdges == {<<Start, 1>>, <<Start, 2>>, <<1, 3>>, <<2, 3>>, <<3, End>>}
FanJoin  == [t \in {3} |-> {{1}, {2}}]

(* 1 may leave an uncertain effect beside 2, which may ask or fail. *)
FanMay == [n \in Nodes |-> CASE n = 1 -> {"ok", "reconcile"}
                             [] n = 2 -> {"ok", "ask", "fail"}
                             [] OTHER -> {"ok", "ask"}]

AdminNodes == {None, 1}

(* Every node is gated; 1 and 2 ask as well. *)
GateMay == [n \in Nodes |-> IF n \in {1, 2} THEN {"ok", "ask"} ELSE {"ok"}]

(* 1 sends to 3, once or twice, or to a node that does not exist; 2 may send in
   the next step. *)
SendEdges == {<<Start, 1>>, <<1, 2>>, <<2, End>>, <<3, End>>}
SendSends == [n \in Nodes |-> CASE n = 1 -> {<<3, 3>>, <<3>>, <<9>>}
                                [] n = 2 -> {<<>>, <<3>>}
                                [] OTHER -> {<<>>}]
SendMay == [n \in Nodes |-> IF n = 3 THEN {"ok", "ask", "fail", "reconcile"} ELSE {"ok"}]

(* 1 sends to itself, and the Send asks. *)
SelfSends == [n \in Nodes |-> IF n = 1 THEN {<<1>>} ELSE {<<>>}]
SelfMay == [n \in Nodes |-> {"ok", "ask"}]
SelfEdges == {<<Start, 1>>, <<1, End>>}

(* 1 is gated and may fail beside 2's uncertain effect. *)
ApprovedMay == [n \in Nodes |-> CASE n = 1 -> {"ok", "fail"}
                                  [] n = 2 -> {"ok", "reconcile"}
                                  [] OTHER -> {"ok"}]

(* Every kind of routing: 1 has an open conditional edge, may jump with
   Command.goto, and its failure edge leads to 4, which pauses after it ran; 2
   has a closed one, which throws outside its labels; 3 joins them, has a legacy
   route and is a failure exit. *)
RouteEdges == {<<Start, 1>>, <<Start, 2>>, <<4, 3>>}
RouteConditional ==
    (1 :> [routes |-> ("a" :> 4 @@ DefaultRoute :> 3), closed |-> FALSE, labels |-> {"a"}]) @@
    (2 :> [routes |-> ("a" :> 3), closed |-> TRUE, labels |-> {"a"}]) @@
    (3 :> [routes |-> (LegacyRoute :> End), closed |-> TRUE, labels |-> {}])
RouteJoin == [t \in {3} |-> {{1, 4}, {2}}]
RouteFailure == [n \in {1} |-> 4]
RouteGotos == [n \in Nodes |-> IF n = 1 THEN {None, 4, End} ELSE {None}]
RouteMay == [n \in Nodes |-> IF n = 1 THEN {"ok", "fail", "stop"} ELSE {"ok"}]
=============================================================================
