------------------------------ MODULE ConnPool ------------------------------
(***************************************************************************)
(* async::ConnPool, the pool of keep-alive HTTP connections, for one host: *)
(* the gate that bounds the requests in flight, the bucket of idle         *)
(* connections, and async_post with its reuse attempt, its fresh fallback  *)
(* and the timer over both.                                                *)
(*                                                                         *)
(* A connection is whether the server still serves it, and the requests    *)
(* sent on it whose responses were not read.  The server answers the       *)
(* requests of a connection in their order and may close it at any time.   *)
(***************************************************************************)
EXTENDS Naturals, Sequences

CONSTANTS
  Requests,
  Replayable,    \* the requests with a safe method or allow_replay
  MaxInFlight,   \* opts.max_in_flight_per_host
  MaxIdle        \* opts.max_idle_per_host

VARIABLES
  slots,      \* the free slots of the HostGate
  idle,       \* the bucket of idle connections, the latest at the end
  call,       \* where each async_post is
  hand,       \* the connection each call has in its hands
  received,   \* how often the server received each request
  got         \* the request each call got the response of

poolVars == <<slots, idle, call, hand, received, got>>

NoConn == [open |-> FALSE, unread |-> <<>>]
FreshConn == [open |-> TRUE, unread |-> <<>>]
Conns == [open : BOOLEAN, unread : {<<>>} \cup {<<r>> : r \in Requests} \cup {<<r, s>> : r, s \in Requests}]

\* "reuse" and "fresh": the exchange on a pooled and on a new connection, before its request is written; "reuseSent" and
\* "freshSent": after.
Stages == {"new", "reuse", "reuseSent", "open", "fresh", "freshSent", "done", "failed"}
HoldsPermit(r) == call[r] \in {"reuse", "reuseSent", "open", "fresh", "freshSent"}

PoolTypeOK ==
  /\ slots \in 0 .. MaxInFlight
  /\ Len(idle) <= MaxIdle /\ \A i \in DOMAIN idle : idle[i] \in Conns
  /\ call \in [Requests -> Stages]
  /\ hand \in [Requests -> Conns]
  /\ received \in [Requests -> 0 .. 2]
  /\ got \in [Requests -> Requests \cup {"nothing"}]

PoolInit ==
  /\ slots = MaxInFlight
  /\ idle = <<>>
  /\ call = [r \in Requests |-> "new"]
  /\ hand = [r \in Requests |-> NoConn]
  /\ received = [r \in Requests |-> 0]
  /\ got = [r \in Requests |-> "nothing"]

Go(r, stage, conn) ==
  /\ call' = [call EXCEPT ![r] = stage]
  /\ hand' = [hand EXCEPT ![r] = conn]

\* acquire, then checkout: the connections that expired are dropped from the end, the first that did not is taken.
Checkout(r) ==
  /\ call[r] = "new" /\ slots > 0
  /\ slots' = slots - 1
  /\ \E k \in 0 .. Len(idle) :
       /\ idle' = SubSeq(idle, 1, k - 1)
       /\ IF k = 0 THEN Go(r, "open", NoConn) ELSE Go(r, "reuse", idle[k])
  /\ UNCHANGED <<received, got>>

Open(r) ==
  /\ call[r] = "open"
  /\ Go(r, "fresh", FreshConn)
  /\ UNCHANGED <<slots, idle, received, got>>

\* run_exchange writes the request, which reaches the server unless it closed the connection.
Send(r) ==
  /\ call[r] \in {"reuse", "fresh"} /\ hand[r].open
  /\ Go(r, IF call[r] = "reuse" THEN "reuseSent" ELSE "freshSent", [hand[r] EXCEPT !.unread = Append(@, r)])
  /\ received' = [received EXCEPT ![r] = @ + 1]
  /\ UNCHANGED <<slots, idle, got>>

\* The call leaves dispatch: its permit goes back and its connection is dropped.
Ends(r, stage) ==
  /\ Go(r, stage, NoConn)
  /\ slots' = IF HoldsPermit(r) THEN slots + 1 ELSE slots

\* checkin keeps the connection unless its bucket is full or its time to live is nothing.
Checkin(conn) ==
  idle' \in {idle} \cup IF Len(idle) < MaxIdle THEN {Append(idle, conn)} ELSE {}

\* run_exchange reads a response; a connection the server keeps alive is checked in.
Receive(r) ==
  /\ call[r] \in {"reuseSent", "freshSent"} /\ hand[r].open
  /\ got' = [got EXCEPT ![r] = Head(hand[r].unread)]
  /\ Checkin([hand[r] EXCEPT !.unread = Tail(@)])
  /\ Ends(r, "done")
  /\ UNCHANGED received

Fails(r) == Ends(r, "failed") /\ UNCHANGED <<idle, received, got>>

\* Mutant: a failed exchange on a pooled connection is always repeated on a fresh one.
ExchangeFailsReplaying(r) ==
  /\ call[r] \in {"reuse", "reuseSent", "fresh", "freshSent"}
  /\ IF call[r] \in {"reuse", "reuseSent"}
       THEN Go(r, "open", NoConn) /\ UNCHANGED <<slots, idle, received, got>>
       ELSE Fails(r)

\* try_exchange, exchange_fresh: the exchange failed, before or after the server had the request.  Only a replayable
\* request, on a pooled connection, goes on with a fresh one.
ExchangeFails(r) ==
  /\ call[r] \in {"reuse", "reuseSent", "fresh", "freshSent"}
  /\ IF call[r] \in {"reuse", "reuseSent"} /\ r \in Replayable
       THEN Go(r, "open", NoConn) /\ UNCHANGED <<slots, idle, received, got>>
       ELSE Fails(r)

\* Mutant: a call that gives up checks its connection in.
GivesUpKeeping(r) ==
  /\ call[r] \notin {"done", "failed"}
  /\ Checkin(hand[r])
  /\ Ends(r, "failed")
  /\ UNCHANGED <<received, got>>

\* The timer fires (the gate's wait included), the response is over its limit, or the host cannot be reached: no replay.
GivesUp(r) ==
  /\ call[r] \notin {"done", "failed"}
  /\ Fails(r)

\* The server closes a connection, pooled or in use.
ServerCloses ==
  /\ \/ \E i \in DOMAIN idle :
          /\ idle[i].open
          /\ idle' = [idle EXCEPT ![i].open = FALSE]
          /\ UNCHANGED hand
     \/ \E r \in Requests :
          /\ hand[r].open
          /\ hand' = [hand EXCEPT ![r].open = FALSE]
          /\ UNCHANGED idle
  /\ UNCHANGED <<slots, call, received, got>>

PoolNext ==
  \/ \E r \in Requests :
       Checkout(r) \/ Open(r) \/ Send(r) \/ Receive(r) \/ ExchangeFails(r) \/ GivesUp(r)
  \/ ServerCloses

PoolSpec == PoolInit /\ [][PoolNext]_poolVars

(* Hazard: a pooled connection fails after the server took the request.    *)
(* A request that is not replayable reaches the server at most once,       *)
(* whatever fails and whenever the timer fires.                            *)
SentOnce == \A r \in Requests \ Replayable : received[r] <= 1

(* Hazard: a call gives up with its response still on the way.  Its        *)
(* connection never returns to the pool, so nobody reads the response of   *)
(* another request.                                                        *)
OwnResponses ==
  /\ \A r \in Requests : got[r] \in {r, "nothing"}
  /\ \A i \in DOMAIN idle : idle[i].unread = <<>>

=============================================================================
