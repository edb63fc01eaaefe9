------------------------------ MODULE HookOutbox ------------------------------
(***************************************************************************)
(* The Hook outbox: lifecycle events with a durable identity are emitted   *)
(* once (HookRuntime::emit_once_async), and the journal keeps one entry    *)
(* for each Hook of each delivery.  Runners of several processes may emit  *)
(* the same event, a runner may crash at any point, and a resume emits the *)
(* event again.                                                            *)
(*                                                                         *)
(* One event is modelled, with BlockingMandatory Hooks.  An operation of   *)
(* the journal is one step.  The fencing token and the attempt count       *)
(* change only together, in claim, and are one field.                      *)
(***************************************************************************)
EXTENDS Naturals, FiniteSets

CONSTANTS
    Runners,        \* workers that emit the event
    Hooks,          \* 1..n, in the order of the registry's plan
    Idempotent,     \* the Hooks that declare HookIdempotency::Idempotent
    MaxAttempts,    \* max_attempts of an invocation
    MaxDeliveries,  \* bound on the sequences of the event (64 in the code)
    Timeout,        \* default_timeout_ of the runtime
    LeaseTime,      \* the 30 s of a lease
    MaxTime         \* bound of the clock

VARIABLES
    clock,
    journal,    \* journal[s][h]: the outbox entry of Hook h in delivery s
    runner,     \* where each runner is in its emission
    effects,  \* <<s, h, k>>: attempt k performed the effect of its target
    passed      \* the deliveries an emission ended with, unblocked
outboxVars == <<clock, journal, runner, effects, passed>>

Deliveries == 1..MaxDeliveries
Last == Cardinality(Hooks)

\* The Hooks are numbered by their place in the plan; limits and times are numbers.
OutboxConstants ==
    /\ Last \in Nat \ {0} /\ Hooks = 1..Last
    /\ MaxAttempts \in Nat /\ MaxDeliveries \in Nat
    /\ Timeout \in Nat /\ LeaseTime \in Nat /\ MaxTime \in Nat

Terminal == {"Succeeded", "TimedOut", "ReconciliationRequired", "Cancelled"}
Receipts == Terminal \cup {"Failed"}

NoEntry == [state |-> "absent", attempt |-> 0, deadline |-> 0, lease |-> 0]
Idle == [at |-> "idle", seq |-> 0, hook |-> 0, deadline |-> 0, attempt |-> 0, receipt |-> "none"]

OutboxTypeOK ==
    /\ clock \in 0..MaxTime
    /\ \A s \in Deliveries, h \in Hooks :
         /\ journal[s][h].state \in Receipts \cup {"absent", "Pending", "Dispatched"}
         /\ journal[s][h].attempt \in 0..MaxAttempts
         /\ journal[s][h].lease <= journal[s][h].deadline
         /\ journal[s][h].lease > 0 <=> journal[s][h].state = "Dispatched"
    /\ \A r \in Runners :
         runner[r].at \in {"idle", "look", "enqueue", "claim", "read", "running", "settle"}
    /\ passed \subseteq Deliveries

OutboxInit ==
    /\ clock = 0
    /\ journal = [s \in Deliveries |-> [h \in Hooks |-> NoEntry]]
    /\ runner = [r \in Runners |-> Idle]
    /\ effects = {} /\ passed = {}

--------------------------------------------------------------------------------
(* The journal. *)

(* A failed attempt with none left is final, and so is every terminal state. *)
Settled(e) == e.state \in Terminal \/ (e.state = "Failed" /\ e.attempt >= MaxAttempts)

Claimable(e) == e.state = "Pending" \/ (e.state = "Failed" /\ e.attempt < MaxAttempts)

Lapses(e) == e.deadline <= clock /\ ~Settled(e)

(* Mutant: an expired lease makes every invocation claimable again. *)
ExpiredAlwaysRetried(e, h) ==
    IF e.state = "Dispatched" /\ e.lease <= clock
    THEN [e EXCEPT !.lease = 0, !.state = "Failed"] ELSE e

(* A dispatched lease that expired: what it did is unknown, so a non-idempotent
   invocation waits for reconciliation, and an idempotent attempt failed. *)
Expired(e, h) ==
    IF e.state = "Dispatched" /\ e.lease <= clock
    THEN [e EXCEPT !.lease = 0,
                   !.state = IF h \in Idempotent THEN "Failed" ELSE "ReconciliationRequired"]
    ELSE e

(* claim: past its deadline the entry times out; otherwise a claimable one is
   dispatched under a new attempt and a bounded lease. *)
Claimed(e, h) ==
    IF Lapses(e) THEN [e EXCEPT !.state = "TimedOut", !.lease = 0]
    ELSE LET x == Expired(e, h)
             until == IF clock + LeaseTime < x.deadline THEN clock + LeaseTime ELSE x.deadline
         IN IF Claimable(x)
            THEN [x EXCEPT !.state = "Dispatched", !.attempt = @ + 1, !.lease = until]
            ELSE x

Leases(e, h) == ~Lapses(e) /\ Claimable(Expired(e, h))

(* settle: only the attempt that is dispatched, within its lease. *)
Accepts(e, attempt) == e.state = "Dispatched" /\ e.attempt = attempt /\ e.lease >= clock

--------------------------------------------------------------------------------
(* An emission. *)

(* delivery: the event failed when a Hook of it ended without success. *)
NotDelivered(s) ==
    /\ \A h \in Hooks : journal[s][h].state # "ReconciliationRequired"
    /\ \E h \in Hooks : journal[s][h].state # "Succeeded" /\ Settled(journal[s][h])
Delivered(s) == \A h \in DOMAIN journal[s] : journal[s][h].state = "Succeeded"

(* Mutant: a delivery that awaits reconciliation counts as failed. *)
FirstOpenSkippingUnresolved(s) ==
    /\ ~(\E h \in Hooks : journal[s][h].state # "Succeeded" /\ Settled(journal[s][h]))
    /\ \A t \in 1..(s - 1) : \E h \in Hooks : journal[t][h].state # "Succeeded" /\ Settled(journal[t][h])

FirstOpen(s) == ~NotDelivered(s) /\ \A t \in 1..(s - 1) : NotDelivered(t)

Mine(r) == journal[runner[r].seq][runner[r].hook]
Put(r, e) == journal' = [journal EXCEPT ![runner[r].seq][runner[r].hook] = e]
Step(r, at) == runner' = [runner EXCEPT ![r].at = at]
Stop(r) == runner' = [runner EXCEPT ![r] = Idle]

(* emit_once_async: the first sequence that is not an earlier failed delivery. *)
Emit(r) ==
    /\ runner[r].at = "idle"
    /\ clock + Timeout <= MaxTime
    /\ \E s \in Deliveries :
         /\ FirstOpen(s) /\ ~Delivered(s)
         /\ runner' = [runner EXCEPT ![r] = [Idle EXCEPT !.at = "look", !.seq = s, !.hook = 1,
                                                         !.deadline = clock + Timeout]]
    /\ UNCHANGED <<clock, journal, effects, passed>>

(* The Hook succeeded: the emission goes on with the next, or passes. *)
NextHook(r) ==
    IF runner[r].hook = Last
    THEN Stop(r) /\ passed' = passed \cup {runner[r].seq}
    ELSE runner' = [runner EXCEPT ![r].at = "look", ![r].hook = @ + 1] /\ UNCHANGED passed

(* Mutant: a runner that finds the lease taken asks again. *)
JudgeSpinning(r, e) ==
    IF e.state = "Succeeded" THEN NextHook(r)
    ELSE IF e.state = "Dispatched" \/ (e.state = "Failed" /\ e.attempt < MaxAttempts)
    THEN Step(r, "claim") /\ UNCHANGED passed
    ELSE Stop(r) /\ UNCHANGED passed

(* What the loop does with the entry it has: a failed attempt is tried again in
   time, everything else but success blocks the boundary. *)
Judge(r, e) ==
    IF e.state = "Succeeded" THEN NextHook(r)
    ELSE IF e.state = "Failed" /\ e.attempt < MaxAttempts /\ clock < runner[r].deadline
    THEN Step(r, "claim") /\ UNCHANGED passed
    ELSE Stop(r) /\ UNCHANGED passed

(* An entry the journal has is continued, a missing one is enqueued. *)
Look(r) ==
    /\ runner[r].at = "look"
    /\ CASE Mine(r).state = "Succeeded" -> NextHook(r)
         [] Mine(r).state = "absent" -> Step(r, "enqueue") /\ UNCHANGED passed
         [] OTHER -> Step(r, "claim") /\ UNCHANGED passed
    /\ UNCHANGED <<clock, journal, effects>>

(* enqueue and publish: an entry that another runner enqueued meanwhile with
   another deadline is a conflict, which fails the emission. *)
Enqueue(r) ==
    /\ runner[r].at = "enqueue"
    /\ IF Mine(r).state = "absent"
       THEN /\ Put(r, [NoEntry EXCEPT !.state = "Pending", !.deadline = runner[r].deadline])
            /\ Step(r, "claim")
       ELSE /\ IF Mine(r).deadline = runner[r].deadline THEN Step(r, "claim") ELSE Stop(r)
            /\ UNCHANGED journal
    /\ UNCHANGED <<clock, effects, passed>>

(* The runner claims; past its own deadline it only records that. *)
Claim(r) ==
    /\ runner[r].at = "claim"
    /\ IF clock >= runner[r].deadline
       THEN Stop(r)
       ELSE IF Leases(Mine(r), runner[r].hook)
       THEN runner' = [runner EXCEPT ![r].at = "running", ![r].attempt = Mine(r).attempt + 1]
       ELSE Step(r, "read")
    /\ Put(r, Claimed(Mine(r), runner[r].hook))
    /\ UNCHANGED <<clock, effects, passed>>

(* A runner without a lease goes by what the journal says by then. *)
Read(r) ==
    /\ runner[r].at = "read"
    /\ Judge(r, Mine(r))
    /\ UNCHANGED <<clock, journal, effects>>

(* What the target may report, having performed its effect or not: a result
   that leaves the effect uncertain is a receipt for reconciliation when the
   Hook is not idempotent (result_receipt). *)
Reports(h, did) ==
    {"ReconciliationRequired", "Cancelled"}
        \cup (IF did THEN {"Succeeded"} ELSE {"Failed", "TimedOut"})
        \cup (IF h \in Idempotent THEN {"Failed", "TimedOut"} ELSE {})

Perform(r) ==
    /\ runner[r].at = "running"
    /\ \E did \in BOOLEAN : \E receipt \in Reports(runner[r].hook, did) :
         /\ runner' = [runner EXCEPT ![r].at = "settle", ![r].receipt = receipt]
         /\ effects' = IF did
                         THEN effects \cup {<<runner[r].seq, runner[r].hook, runner[r].attempt>>}
                         ELSE effects
    /\ UNCHANGED <<clock, journal, passed>>

(* Mutant: a settlement the journal refused is taken for done. *)
SettleRegardless(r) ==
    /\ runner[r].at = "settle"
    /\ LET e == [Mine(r) EXCEPT !.state = runner[r].receipt, !.lease = 0]
       IN /\ IF Accepts(Mine(r), runner[r].attempt) THEN Put(r, e) ELSE UNCHANGED journal
          /\ Judge(r, e)
    /\ UNCHANGED <<clock, effects>>

(* The settlement, or lost_settlement: past the deadline the entry is recorded
   as timed out, otherwise the journal keeps its state; both block. *)
SettleEntry(r) ==
    /\ runner[r].at = "settle"
    /\ IF Accepts(Mine(r), runner[r].attempt)
       THEN LET e == [Mine(r) EXCEPT !.state = runner[r].receipt, !.lease = 0]
            IN Put(r, e) /\ Judge(r, e)
       ELSE /\ IF clock >= runner[r].deadline
               THEN Put(r, Claimed(Mine(r), runner[r].hook))
               ELSE UNCHANGED journal
            /\ Stop(r) /\ UNCHANGED passed
    /\ UNCHANGED <<clock, effects>>

EmissionStep(r) == Look(r) \/ Enqueue(r) \/ Claim(r) \/ Read(r) \/ Perform(r) \/ SettleEntry(r)

--------------------------------------------------------------------------------
(* A host that found out what a finished attempt did tells the journal. *)
Reconcile(s, h) ==
    /\ journal[s][h].state = "ReconciliationRequired"
    /\ \A r \in Runners :
         ~(runner[r].at = "running" /\ runner[r].seq = s /\ runner[r].hook = h)
    /\ journal' = [journal EXCEPT ![s][h].state =
                     IF <<s, h, journal[s][h].attempt>> \in effects THEN "Succeeded" ELSE "Failed"]
    /\ UNCHANGED <<clock, runner, effects, passed>>

CrashRunner(r) ==
    /\ runner[r].at # "idle"
    /\ Stop(r)
    /\ UNCHANGED <<clock, journal, effects, passed>>

Tick ==
    /\ clock < MaxTime
    /\ clock' = clock + 1
    /\ UNCHANGED <<journal, runner, effects, passed>>

OutboxNext ==
    \/ \E r \in Runners : Emit(r) \/ EmissionStep(r) \/ CrashRunner(r)
    \/ \E s \in Deliveries, h \in Hooks : Reconcile(s, h)
    \/ Tick

(* A runner that does not crash goes on: no step of it waits for another. *)
OutboxFairness == \A r \in Runners : WF_outboxVars(EmissionStep(r))
OutboxSpec == OutboxInit /\ [][OutboxNext]_outboxVars /\ OutboxFairness

--------------------------------------------------------------------------------
(* A boundary that let its run pass had every mandatory Hook of the event      *)
(* succeed, each by the effect of the very attempt its entry records, whatever *)
(* leases expired and settlements were lost meanwhile (run_async, settle).     *)
BoundariesHold ==
    /\ \A s \in passed : Delivered(s)
    /\ \A s \in DOMAIN journal : \A h \in DOMAIN journal[s] :
         journal[s][h].state = "Succeeded" => <<s, h, journal[s][h].attempt>> \in effects

(* The event is delivered at most once: no second delivery of it succeeds, and *)
(* nothing is dispatched for it once one did (delivery, emit_once_async).      *)
DeliveredOnce ==
    \A s, t \in DOMAIN journal :
        Delivered(s) /\ s # t =>
            /\ ~Delivered(t)
            /\ \A h \in DOMAIN journal[t] : journal[t][h].state \notin {"Pending", "Dispatched"}

(* A non-idempotent Hook performs its effect at most once in a delivery:       *)
(* an attempt whose outcome is unknown is never followed by another (claim,    *)
(* result_receipt).                                                            *)
NonIdempotentOnce ==
    \A s \in DOMAIN journal : \A h \in DOMAIN journal[s] \ Idempotent :
        Cardinality({k \in 1..MaxAttempts : <<s, h, k>> \in effects}) <= 1

(* Every emission ends: a runner that is refused a lease neither waits for its *)
(* holder nor spins.                                                           *)
EmissionsEnd == \A r \in Runners : []<>(runner[r].at = "idle")
================================================================================
