-------------------------- MODULE ToolEffectBroker --------------------------
(***************************************************************************)
(* SQLiteToolEffectBroker: the durable boundary of one mediated tool call. *)
(*                                                                         *)
(* A call occupies a slot (owner, run, thread, task, ordinal; here the     *)
(* effect namespace of a node attempt).  A marker is committed before the  *)
(* tool is dispatched, the receipt after it succeeded, and the marker is   *)
(* withdrawn when the tool never started.  A later call of the slot replays*)
(* the receipt, and a marker without one asks for reconciliation.  Several *)
(* callers may work on one slot at the same time: every database step is   *)
(* one transaction, and nothing is held between two of them.               *)
(***************************************************************************)
EXTENDS Naturals

CONSTANTS
    Callers,    \* the coroutines that may be inside execute()
    Slots       \* the effect slots

VARIABLES
    row,        \* durable: the state of each slot's row
    call,       \* volatile: where each caller stands in execute()
    performed   \* history: how often the effect of a slot really happened

brokerVars == <<row, call, performed>>

-----------------------------------------------------------------------------
\* The steps of execute().  "returned" holds the outcome its caller reads:
\* "ok" a success (fresh or replayed), "uncertain" a ReconciliationRequired
\* result or an exception, "no_effect" a result that promises nothing was done.
Stages   == {"idle", "dispatch", "running", "withdraw", "settle", "returned"}
Outcomes == {"none", "ok", "uncertain", "no_effect"}

NoCall == [at |-> "idle", slot |-> 0, outcome |-> "none"]

At(c, stage)       == call' = [call EXCEPT ![c].at = stage]
Returns(c, result) == call' = [call EXCEPT ![c].at = "returned", ![c].outcome = result]

BrokerTypeOK ==
    /\ row \in [Slots -> {"none", "marker", "receipt"}]
    /\ call \in [Callers -> [at : Stages, slot : Slots \cup {0}, outcome : Outcomes]]
    /\ performed \in [Slots -> Nat]

BrokerInit ==
    /\ row = [s \in Slots |-> "none"]
    /\ call = [c \in Callers |-> NoCall]
    /\ performed = [s \in Slots |-> 0]

-----------------------------------------------------------------------------
\* Mutant: a marker without a receipt is dispatched again.
SelectOrInsertRedispatching(c, s) ==
    /\ call[c].at = "idle"
    /\ call' = [call EXCEPT ![c] =
                    IF row[s] = "receipt" THEN [at |-> "returned", slot |-> s, outcome |-> "ok"]
                                          ELSE [at |-> "dispatch", slot |-> s, outcome |-> "none"]]
    /\ row' = [row EXCEPT ![s] = IF @ = "none" THEN "marker" ELSE @]
    /\ UNCHANGED performed

(***************************************************************************)
(* The first transaction: a stored receipt is replayed, a marker is        *)
(* refused, and an empty slot gets its marker.                             *)
(***************************************************************************)
SelectOrInsert(c, s) ==
    /\ call[c].at = "idle"
    /\ call' = [call EXCEPT ![c] =
                    CASE row[s] = "receipt" -> [at |-> "returned", slot |-> s, outcome |-> "ok"]
                      [] row[s] = "marker"  -> [at |-> "returned", slot |-> s, outcome |-> "uncertain"]
                      [] OTHER              -> [at |-> "dispatch", slot |-> s, outcome |-> "none"]]
    /\ row' = [row EXCEPT ![s] = IF @ = "none" THEN "marker" ELSE @]
    /\ UNCHANGED performed

(***************************************************************************)
(* The transaction throws.  Nothing was dispatched, so the result is an    *)
(* ordinary failure; the commit may have taken place all the same.         *)
(***************************************************************************)
InsertUnconfirmed(c, s) ==
    /\ call[c].at = "idle"
    /\ row[s] = "none"
    /\ \E stored \in {"none", "marker"} : row' = [row EXCEPT ![s] = stored]
    /\ call' = [call EXCEPT ![c] = [at |-> "returned", slot |-> s, outcome |-> "no_effect"]]
    /\ UNCHANGED performed

(***************************************************************************)
(* The controller.  A cancelled token stops the call before the tool runs; *)
(* a deadline or an admission refusal may do so too.                       *)
(***************************************************************************)
NotStarted(c) ==
    /\ call[c].at = "dispatch"
    /\ At(c, "withdraw")
    /\ UNCHANGED <<row, performed>>

Start(c, cancelled) ==
    /\ call[c].at = "dispatch"
    /\ ~cancelled
    /\ At(c, "running")
    /\ UNCHANGED <<row, performed>>

\* The tool performed its effect and said so.
Succeed(c) ==
    /\ call[c].at = "running"
    /\ performed' = [performed EXCEPT ![call[c].slot] = @ + 1]
    /\ At(c, "settle")
    /\ UNCHANGED row

(***************************************************************************)
(* The call ended without a confirmed success: an error, a timeout, or an  *)
(* exception (a cancellation included).  The effect may have happened; the *)
(* marker stays.                                                           *)
(***************************************************************************)
LoseOutcome(c) ==
    /\ call[c].at = "running"
    /\ \E done \in 0..1 : performed' = [performed EXCEPT ![call[c].slot] = @ + done]
    /\ Returns(c, "uncertain")
    /\ UNCHANGED row

\* A call that never started frees its slot; a withdrawal that fails is ignored.
Withdraw(c) ==
    /\ call[c].at = "withdraw"
    /\ row' \in {row, [row EXCEPT ![call[c].slot] = IF @ = "marker" THEN "none" ELSE @]}
    /\ Returns(c, "no_effect")
    /\ UNCHANGED performed

\* The receipt must replace exactly one open marker, or the outcome is unconfirmed.
StoreReceipt(c) ==
    /\ call[c].at = "settle"
    /\ \/ /\ row[call[c].slot] = "marker"
          /\ row' = [row EXCEPT ![call[c].slot] = "receipt"]
          /\ Returns(c, "ok")
       \/ /\ UNCHANGED row
          /\ Returns(c, "uncertain")
    /\ UNCHANGED performed

ExecuteStep(c, cancelled) ==
    \/ NotStarted(c)
    \/ Start(c, cancelled)
    \/ Succeed(c)
    \/ LoseOutcome(c)
    \/ Withdraw(c)
    \/ StoreReceipt(c)

=============================================================================
