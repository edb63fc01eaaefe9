-------------------------- MODULE HookOutboxProofs --------------------------
(***************************************************************************)
(* What is proved of the Hook outbox, for any number of runners, Hooks,    *)
(* attempts and deliveries: a boundary passes only when every Hook has     *)
(* succeeded, an event is delivered once, and a Hook that is not           *)
(* idempotent performs its effect once in a delivery.                      *)
(***************************************************************************)
EXTENDS HookOutbox, Integers, TLAPS

States == Receipts \cup {"absent", "Pending", "Dispatched"}
Entry == [state : States, attempt : Nat, deadline : Nat, lease : Nat]

Runner == [at : {"idle", "look", "enqueue", "claim", "read", "running", "settle"},
           seq : Nat, hook : Nat, deadline : Nat, attempt : Nat, receipt : Receipts \cup {"none"}]

Types ==
    /\ clock \in Nat
    /\ journal \in [Deliveries -> [Hooks -> Entry]]
    /\ runner \in [Runners -> Runner]
    /\ passed \subseteq Deliveries

Succeeded(s, h) == journal[s][h].state = "Succeeded"
Absent(s, h)    == journal[s][h].state = "absent"

\* Runner r works on Hook h of delivery s, at one of some stages.
Works(r, stages, s, h) == runner[r].at \in stages /\ runner[r].seq = s /\ runner[r].hook = h
Busy  == {"look", "enqueue", "claim", "read", "running", "settle"}
Known == {"claim", "read", "running", "settle"}

Begun(s) ==
    \/ \E h \in Hooks : ~Absent(s, h)
    \/ \E r \in Runners : runner[r].at \in Busy /\ runner[r].seq = s

\* Hooks are taken in their order, and deliveries too.
OrderInv ==
    /\ \A r \in Runners : runner[r].at \in Busy =>
         /\ runner[r].seq \in Deliveries /\ runner[r].hook \in Hooks
         /\ \A g \in Hooks : g < runner[r].hook => Succeeded(runner[r].seq, g)
         /\ runner[r].at \in Known => ~Absent(runner[r].seq, runner[r].hook)
    /\ \A s \in Deliveries : \A h, g \in Hooks : ~Absent(s, h) /\ g < h => Succeeded(s, g)
    /\ \A s \in passed : Delivered(s)
    /\ \A s \in Deliveries : Begun(s) => \A t \in 1..(s - 1) : NotDelivered(t)

-----------------------------------------------------------------------------
\* What may become of an entry: a settled one stays, unless it is reconciled.
Evolves(e, x) ==
    /\ Settled(e) /\ e.state # "ReconciliationRequired" => x = e
    /\ x.state = "absent" => e.state = "absent"

\* claim keeps what is settled, and counts an attempt exactly when it leases.
LEMMA ClaimedEntry ==
  ASSUME OutboxConstants, clock \in Nat, NEW e \in Entry, NEW h, e.state # "absent"
  PROVE  /\ Claimed(e, h) \in Entry
         /\ Evolves(e, Claimed(e, h))
         /\ Claimed(e, h).state = "Succeeded" => e.state = "Succeeded"
         /\ Leases(e, h) => /\ Claimed(e, h).attempt = e.attempt + 1
                            /\ Claimed(e, h).state = "Dispatched"
                            /\ h \notin Idempotent => e.state \in {"Pending", "Failed"}
         /\ ~Leases(e, h) => /\ Claimed(e, h).attempt = e.attempt
                             /\ Claimed(e, h).state = "Failed" => e.state = "Failed" \/ h \in Idempotent
                             /\ Claimed(e, h).state = "Pending" => e.state = "Pending"
<1> USE DEF OutboxConstants
<1> DEFINE x == Expired(e, h)
           until == IF clock + LeaseTime < x.deadline THEN clock + LeaseTime ELSE x.deadline
<1>1. CASE Lapses(e)
  <2>1. Claimed(e, h) = [e EXCEPT !.state = "TimedOut", !.lease = 0] /\ ~Leases(e, h) /\ ~Settled(e)
    BY <1>1 DEF Claimed, Leases, Lapses
  <2>2. QED
    <3>1. Claimed(e, h) = [state |-> "TimedOut", attempt |-> e.attempt, deadline |-> e.deadline, lease |-> 0]
      <4>1. e = [state |-> e.state, attempt |-> e.attempt, deadline |-> e.deadline, lease |-> e.lease]
        BY DEF Entry
      <4>2. QED
        BY <2>1, <4>1, Zenon
    <3>2. Claimed(e, h) \in Entry
      BY <3>1 DEF Entry, States, Receipts, Terminal
    <3>3. QED
      BY <2>1, <3>1, <3>2 DEF Evolves
<1>2. CASE ~Lapses(e)
  <2>1. /\ x \in Entry /\ x.attempt = e.attempt
        /\ x = e \/ (e.state = "Dispatched" /\ x.state = IF h \in Idempotent THEN "Failed" ELSE "ReconciliationRequired")
    BY Zenon DEF Expired, Entry, States, Receipts, Terminal
  <2>2. until \in Nat
    BY <2>1 DEF Entry
  <2>3. Claimed(e, h) = IF Claimable(x) THEN [x EXCEPT !.state = "Dispatched", !.attempt = @ + 1, !.lease = until] ELSE x
    BY <1>2 DEF Claimed
  <2>4. Leases(e, h) <=> Claimable(x)
    BY <1>2 DEF Leases
  <2> HIDE DEF x, until
  <2>5. CASE Claimable(x)
    <3>1. Claimed(e, h) = [x EXCEPT !.state = "Dispatched", !.attempt = x.attempt + 1, !.lease = until]
      BY <2>3, <2>5
    <3>2. Claimed(e, h) = [state |-> "Dispatched", attempt |-> e.attempt + 1, deadline |-> x.deadline, lease |-> until]
      <4>1. x = [state |-> x.state, attempt |-> x.attempt, deadline |-> x.deadline, lease |-> x.lease]
        BY <2>1 DEF Entry
      <4>2. QED
        BY <2>1, <3>1, <4>1, Zenon
    <3>3. /\ Claimed(e, h) \in Entry /\ Claimed(e, h).state = "Dispatched" /\ Claimed(e, h).attempt = e.attempt + 1
      BY <2>1, <2>2, <3>2 DEF Entry, States
    <3>4. ~(Settled(e) /\ e.state # "ReconciliationRequired")
      BY <2>1, <2>5 DEF Claimable, Settled, Entry, Terminal
    <3>5. h \notin Idempotent => e.state \in {"Pending", "Failed"}
      BY <2>1, <2>5 DEF Claimable
    <3>6. QED
      BY <2>4, <2>5, <3>3, <3>4, <3>5 DEF Evolves
  <2>6. CASE ~Claimable(x)
    <3>1. Claimed(e, h) = x /\ ~Leases(e, h)
      BY <2>3, <2>4, <2>6
    <3>2. Evolves(e, x)
      BY <2>1 DEF Evolves, Settled, Terminal
    <3>3. QED
      BY <2>1, <3>1, <3>2
  <2>7. QED
    BY <2>5, <2>6
<1>3. QED
  BY <1>1, <1>2

-----------------------------------------------------------------------------
(***************************************************************************)
(* The order of Hooks and deliveries.                                      *)
(***************************************************************************)

\* The state of an entry after a step.
SucceededNext(s, h) == journal'[s][h].state = "Succeeded"
AbsentNext(s, h)    == journal'[s][h].state = "absent"

\* What a step does to the journal: entries evolve, and the first one of a Hook is
\* made by a runner that works on it.
JournalStep ==
    /\ Types'
    /\ \A s \in Deliveries, h \in Hooks :
         /\ Evolves(journal[s][h], journal'[s][h])
         /\ Absent(s, h) /\ ~AbsentNext(s, h) => \E r \in Runners : Works(r, Busy, s, h)

\* What a step does to a runner: it stays at its Hook, goes on to the next one when
\* that one succeeded, or begins a delivery after failed ones.
RunnerStep(r) ==
    \/ runner'[r].at = "idle"
    \/ /\ runner[r].at \in Busy /\ runner'[r].at \in Busy
       /\ runner'[r].seq = runner[r].seq /\ runner'[r].hook = runner[r].hook
       /\ runner'[r].at \in Known => runner[r].at \in Known \/ ~AbsentNext(runner[r].seq, runner[r].hook)
    \/ /\ runner[r].at \in Busy /\ runner'[r].at = "look"
       /\ runner'[r].seq = runner[r].seq /\ runner'[r].hook = runner[r].hook + 1
       /\ runner[r].hook # Last
       /\ SucceededNext(runner[r].seq, runner[r].hook)
    \/ /\ runner'[r].at = "look" /\ runner'[r].hook = 1 /\ runner'[r].seq \in Deliveries
       /\ \A t \in 1..(runner'[r].seq - 1) : NotDelivered(t)

\* What a step does to the deliveries that passed.
PassStep ==
    \A s \in passed' \ passed : \E r \in Runners : Works(r, Busy, s, Last) /\ SucceededNext(s, Last)

\* Success is final.
LEMMA SuccessStays ==
  ASSUME JournalStep, NEW s \in Deliveries, NEW h \in Hooks, Succeeded(s, h)
  PROVE  SucceededNext(s, h)
BY DEF JournalStep, Succeeded, SucceededNext, Evolves, Settled, Terminal

\* A delivery that failed stays failed: its Hooks before the one that failed have
\* succeeded, and those after it are never begun.
LEMMA FailureStays ==
  ASSUME OutboxConstants, Types, OrderInv, JournalStep, NEW t \in Deliveries, NotDelivered(t)
  PROVE  NotDelivered(t)'
<1>1. PICK h \in Hooks : journal[t][h].state # "Succeeded" /\ Settled(journal[t][h])
  BY DEF NotDelivered
<1>2. journal[t][h].state # "ReconciliationRequired"
  BY DEF NotDelivered
<1>3. journal'[t][h] = journal[t][h]
  BY <1>1, <1>2 DEF JournalStep, Evolves
<1>4. ~Absent(t, h) /\ ~Succeeded(t, h)
  BY <1>1 DEF Absent, Succeeded, Settled, Terminal
<1>5. ASSUME NEW g \in Hooks PROVE journal'[t][g].state # "ReconciliationRequired"
  <2>1. h \in Nat /\ g \in Nat
    BY DEF OutboxConstants
  <2>2. CASE g = h
    BY <1>2, <1>3, <2>2
  <2>3. CASE g < h
    <3>1. Succeeded(t, g)
      BY <1>4, <2>3 DEF OrderInv
    <3>2. QED
      BY <3>1, SuccessStays DEF SucceededNext
  <2>4. CASE h < g
    <3>1. Absent(t, g)
      BY <1>4, <2>4 DEF OrderInv
    <3>2. ~\E r \in Runners : Works(r, Busy, t, g)
      BY <1>4, <2>4 DEF OrderInv, Works
    <3>3. AbsentNext(t, g)
      BY <3>1, <3>2 DEF JournalStep
    <3>4. QED
      BY <3>3 DEF AbsentNext
  <2>5. QED
    BY <2>1, <2>2, <2>3, <2>4
<1>6. Settled(journal'[t][h])
  BY <1>1, <1>3
<1>7. QED
  BY <1>1, <1>3, <1>5, <1>6 DEF NotDelivered, Settled

\* Steps of these kinds keep the order.
LEMMA OrderKept ==
  ASSUME OutboxConstants, Types, OrderInv, JournalStep, \A r \in Runners : RunnerStep(r), PassStep
  PROVE  OrderInv'
<1>0. \A s \in Deliveries : s \in Nat /\ \A t \in 1..(s - 1) : t \in Deliveries
  BY DEF Deliveries, OutboxConstants
<1>1. ASSUME NEW s \in Deliveries, NEW h \in Hooks, NEW g \in Hooks, ~AbsentNext(s, h), g < h
      PROVE  SucceededNext(s, g)
  <2>1. CASE ~Absent(s, h)
    BY <1>1, <2>1, SuccessStays DEF OrderInv
  <2>2. CASE Absent(s, h)
    <3>1. PICK r \in Runners : Works(r, Busy, s, h)
      BY <1>1, <2>2 DEF JournalStep
    <3>2. Succeeded(s, g)
      BY <1>1, <3>1 DEF OrderInv, Works
    <3>3. QED
      BY <3>2, SuccessStays
  <2>3. QED
    BY <2>1, <2>2
<1>2. ASSUME NEW r \in Runners, runner'[r].at \in Busy
      PROVE  /\ runner'[r].seq \in Deliveries /\ runner'[r].hook \in Hooks
             /\ \A g \in Hooks : g < runner'[r].hook => SucceededNext(runner'[r].seq, g)
             /\ runner'[r].at \in Known => ~AbsentNext(runner'[r].seq, runner'[r].hook)
  <2> DEFINE s == runner[r].seq
             h == runner[r].hook
  <2>1. CASE /\ runner[r].at \in Busy /\ runner'[r].seq = s /\ runner'[r].hook = h
             /\ runner'[r].at \in Known => runner[r].at \in Known \/ ~AbsentNext(s, h)
    <3>1. s \in Deliveries /\ h \in Hooks /\ \A g \in Hooks : g < h => Succeeded(s, g)
      BY <2>1 DEF OrderInv
    <3>2. \A g \in Hooks : g < h => SucceededNext(s, g)
      BY <3>1, SuccessStays
    <3>3. runner'[r].at \in Known => ~AbsentNext(s, h)
      BY <2>1, <3>1 DEF OrderInv, JournalStep, Evolves, Absent, AbsentNext
    <3>4. QED
      BY <2>1, <3>1, <3>2, <3>3
  <2>2. CASE /\ runner[r].at \in Busy /\ runner'[r].at = "look" /\ runner'[r].seq = s /\ runner'[r].hook = h + 1
             /\ h # Last /\ SucceededNext(s, h)
    <3>1. s \in Deliveries /\ h \in Hooks /\ \A g \in Hooks : g < h => Succeeded(s, g)
      BY <2>2 DEF OrderInv
    <3>2. h + 1 \in Hooks /\ \A g \in Hooks : g < h + 1 => g < h \/ g = h
      BY <2>2, <3>1 DEF OutboxConstants
    <3>3. \A g \in Hooks : g < h + 1 => SucceededNext(s, g)
      BY <2>2, <3>1, <3>2, SuccessStays
    <3>4. QED
      BY <2>2, <3>1, <3>2, <3>3 DEF Known
  <2>3. CASE runner'[r].at = "look" /\ runner'[r].hook = 1 /\ runner'[r].seq \in Deliveries
    BY <2>3 DEF Known, OutboxConstants
  <2>4. QED
    BY <1>2, <2>1, <2>2, <2>3 DEF RunnerStep, Busy
<1>3. ASSUME NEW s \in passed' PROVE Delivered(s)'
  <2>1. s \in Deliveries /\ DOMAIN journal[s] = Hooks /\ DOMAIN journal'[s] = Hooks
    BY <1>3 DEF JournalStep, Types
  <2>2. CASE s \in passed
    <3>1. \A h \in Hooks : Succeeded(s, h)
      BY <2>1, <2>2 DEF OrderInv, Delivered, Succeeded
    <3>2. QED
      BY <2>1, <3>1, SuccessStays DEF Delivered, SucceededNext
  <2>3. CASE s \notin passed
    <3>1. PICK r \in Runners : Works(r, Busy, s, Last) /\ SucceededNext(s, Last)
      BY <2>3 DEF PassStep
    <3>2. \A g \in Hooks : g < Last => Succeeded(s, g)
      BY <3>1 DEF OrderInv, Works
    <3>3. \A g \in Hooks : g < Last \/ g = Last
      BY DEF OutboxConstants
    <3>4. QED
      BY <2>1, <3>1, <3>2, <3>3, SuccessStays DEF Delivered, SucceededNext
  <2>4. QED
    BY <2>2, <2>3
<1>4. ASSUME NEW s \in Deliveries, Begun(s)', NEW t \in 1..(s - 1) PROVE NotDelivered(t)'
  <2>1. t \in Deliveries
    BY <1>0
  <2>2. NotDelivered(t)
    <3>1. CASE \E h \in Hooks : ~AbsentNext(s, h)
      <4>1. Begun(s)
        BY <3>1 DEF JournalStep, Begun, Works
      <4>2. QED
        BY <4>1 DEF OrderInv
    <3>2. ASSUME NEW r \in Runners, runner'[r].at \in Busy, runner'[r].seq = s PROVE NotDelivered(t)
      <4>1. CASE runner[r].at \in Busy /\ runner'[r].seq = runner[r].seq
        <5>1. Begun(s)
          BY <3>2, <4>1 DEF Begun
        <5>2. QED
          BY <5>1 DEF OrderInv
      <4>2. CASE \A u \in 1..(runner'[r].seq - 1) : NotDelivered(u)
        BY <3>2, <4>2
      <4>3. QED
        BY <3>2, <4>1, <4>2 DEF RunnerStep, Busy
    <3>3. QED
      BY <1>4, <3>1, <3>2 DEF Begun, Absent, AbsentNext
  <2>3. QED
    BY <2>1, <2>2, FailureStays
<1>5. QED
  BY <1>1, <1>2, <1>3, <1>4 DEF OrderInv, Succeeded, Absent, SucceededNext, AbsentNext

-----------------------------------------------------------------------------
(***************************************************************************)
(* What the attempts perform.                                              *)
(***************************************************************************)

\* A claimed attempt of runner r, until it is settled.
Claims(r) == runner[r].at \in {"running", "settle"}

Effect(r) == <<runner[r].seq, runner[r].hook, runner[r].attempt>>

\* An entry that succeeded is of an attempt that performed.
EntriesTrue ==
    \A s \in Deliveries, h \in Hooks :
        /\ Succeeded(s, h) => <<s, h, journal[s][h].attempt>> \in effects
        /\ Absent(s, h) => journal[s][h].attempt = 0

\* A Hook that is not idempotent performed in its last attempt only.
PerformedOnce ==
    \A s \in Deliveries, h \in Hooks \ Idempotent : \A k \in Nat :
        <<s, h, k>> \in effects =>
            k = journal[s][h].attempt /\ journal[s][h].state \notin {"absent", "Pending", "Failed"}

AttemptsBounded == \A r \in Runners : Claims(r) => runner[r].attempt <= Mine(r).attempt

\* No two runners hold the same attempt.
AttemptsUnique ==
    \A r, q \in Runners :
        Claims(r) /\ Works(q, {"running", "settle"}, runner[r].seq, runner[r].hook)
            /\ runner[q].attempt = runner[r].attempt => q = r

\* A Hook that is not idempotent runs only its last attempt, which has not performed.
RunningFresh ==
    \A r \in Runners : runner[r].at = "running" /\ runner[r].hook \notin Idempotent =>
        /\ runner[r].attempt = Mine(r).attempt
        /\ Mine(r).state \notin {"absent", "Pending", "Failed"}
        /\ Effect(r) \notin effects

ReceiptsTrue ==
    \A r \in Runners : runner[r].at = "settle" =>
        /\ runner[r].receipt \in Receipts
        /\ runner[r].receipt = "Succeeded" => Effect(r) \in effects
        /\ runner[r].receipt = "Failed" /\ runner[r].hook \notin Idempotent => Effect(r) \notin effects

EffectInv ==
    /\ EntriesTrue /\ PerformedOnce
    /\ AttemptsBounded /\ AttemptsUnique /\ RunningFresh /\ ReceiptsTrue

\* The inductive invariant of the outbox.
OutboxInv == Types /\ OrderInv /\ EffectInv

\* Only runner r moves.
OnlyMoves(r) ==
    /\ runner' \in [Runners -> Runner]
    /\ \A q \in Runners \ {r} : runner'[q] = runner[q]

\* The runners that do not move stay at their Hook.
LEMMA OthersStay ==
  ASSUME Types, NEW r \in Runners, OnlyMoves(r), RunnerStep(r)
  PROVE  \A q \in Runners : RunnerStep(q)
<1>1. ASSUME NEW q \in Runners, q # r PROVE RunnerStep(q)
  <2>1. runner'[q] = runner[q] /\ runner[q].at \in Busy \cup {"idle"}
    BY <1>1 DEF OnlyMoves, Types, Runner, Busy
  <2>2. QED
    BY <2>1 DEF RunnerStep
<1>2. QED
  BY <1>1

\* The ways a runner moves.
LEMMA RunnerMoves ==
  ASSUME Types, NEW r \in Runners
  PROVE  /\ Stop(r) => OnlyMoves(r) /\ runner'[r].at = "idle"
         /\ \A at \in Busy : Step(r, at) =>
              /\ OnlyMoves(r) /\ runner'[r].at = at
              /\ runner'[r].seq = runner[r].seq /\ runner'[r].hook = runner[r].hook
              /\ runner'[r].attempt = runner[r].attempt /\ runner'[r].receipt = runner[r].receipt
<1>0. runner \in [Runners -> Runner]
  BY DEF Types
<1>1. ASSUME Stop(r) PROVE OnlyMoves(r) /\ runner'[r].at = "idle"
  <2>1. Idle \in Runner /\ Idle.at = "idle"
    BY DEF Idle, Runner
  <2>2. QED
    BY <1>0, <1>1, <2>1 DEF Stop, OnlyMoves
<1>2. ASSUME NEW at \in Busy, Step(r, at)
      PROVE  /\ OnlyMoves(r) /\ runner'[r].at = at
             /\ runner'[r].seq = runner[r].seq /\ runner'[r].hook = runner[r].hook
             /\ runner'[r].attempt = runner[r].attempt /\ runner'[r].receipt = runner[r].receipt
  <2>1. runner[r] \in Runner
    BY <1>0
  <2>2. [runner[r] EXCEPT !.at = at] \in Runner
    BY <2>1, <1>2 DEF Runner, Busy
  <2>3. runner' = [runner EXCEPT ![r] = [runner[r] EXCEPT !.at = at]]
    BY <1>2 DEF Step
  <2>4. QED
    BY <1>0, <2>1, <2>2, <2>3 DEF OnlyMoves, Runner
<1>3. QED
  BY <1>1, <1>2

\* A runner that goes on to the next Hook of its delivery.
LEMMA NextRunner ==
  ASSUME NEW u \in Runner
  PROVE  LET new == [u EXCEPT !.at = "look", !.hook = @ + 1]
         IN new \in Runner /\ new.at = "look" /\ new.hook = u.hook + 1 /\ new.seq = u.seq
<1>1. u.hook + 1 \in Nat
  BY DEF Runner
<1>2. ASSUME NEW k \in Nat
      PROVE  LET new == [u EXCEPT !.at = "look", !.hook = k]
             IN new \in Runner /\ new.at = "look" /\ new.hook = k /\ new.seq = u.seq
  BY Zenon DEF Runner
<1>3. [u EXCEPT !.at = "look", !.hook = @ + 1] = [u EXCEPT !.at = "look", !.hook = u.hook + 1]
  OBVIOUS
<1>4. QED
  BY <1>1, <1>2, <1>3, Zenon

\* After a success the runner goes on to the next Hook, or its delivery passes.
LEMMA GoesOn ==
  ASSUME OutboxConstants, Types, OrderInv, NEW r \in Runners, runner[r].at \in Busy, NextHook(r),
         SucceededNext(runner[r].seq, runner[r].hook)
  PROVE  /\ OnlyMoves(r) /\ runner'[r].at \in {"idle", "look"} /\ RunnerStep(r)
         /\ PassStep /\ passed' \subseteq Deliveries
<1>0. runner \in [Runners -> Runner] /\ runner[r] \in Runner /\ passed \subseteq Deliveries
  BY DEF Types
<1>1. runner[r].seq \in Deliveries /\ runner[r].hook \in Hooks
  BY DEF OrderInv
<1>2. CASE runner[r].hook = Last
  <2>1. Stop(r) /\ passed' = passed \cup {runner[r].seq}
    BY <1>2 DEF NextHook
  <2>2. OnlyMoves(r) /\ runner'[r].at = "idle"
    BY <2>1, RunnerMoves
  <2>3. PassStep
    BY <1>2, <2>1 DEF PassStep, Works
  <2>4. QED
    BY <1>0, <1>1, <2>1, <2>2, <2>3 DEF RunnerStep
<1>3. CASE runner[r].hook # Last
  <2>1. runner' = [runner EXCEPT ![r].at = "look", ![r].hook = @ + 1] /\ passed' = passed
    BY <1>3 DEF NextHook
  <2> DEFINE new == [runner[r] EXCEPT !.at = "look", !.hook = @ + 1]
  <2>2. runner' = [runner EXCEPT ![r] = new]
    BY <1>0, <2>1, Zenon
  <2>3. new \in Runner /\ new.at = "look" /\ new.hook = runner[r].hook + 1 /\ new.seq = runner[r].seq
    BY <1>0, NextRunner, Zenon
  <2> HIDE DEF new
  <2>4. OnlyMoves(r) /\ runner'[r] = new
    BY <1>0, <2>2, <2>3, SMTT(30) DEF OnlyMoves
  <2>5. QED
    BY <1>0, <1>3, <2>1, <2>3, <2>4 DEF RunnerStep, PassStep
<1>4. QED
  BY <1>2, <1>3

\* What the loop does with the entry that the journal holds then.
LEMMA Judges ==
  ASSUME OutboxConstants, Types, OrderInv, NEW r \in Runners, runner[r].at \in Known,
         Judge(r, journal'[runner[r].seq][runner[r].hook])
  PROVE  /\ OnlyMoves(r) /\ runner'[r].at \in {"idle", "look", "claim"} /\ RunnerStep(r)
         /\ PassStep /\ passed' \subseteq Deliveries
<1>0. runner[r].at \in Busy /\ passed \subseteq Deliveries
  BY DEF Known, Busy, Types
<1>1. CASE NextHook(r) /\ SucceededNext(runner[r].seq, runner[r].hook)
  BY <1>0, <1>1, GoesOn
<1>2. CASE Step(r, "claim") /\ UNCHANGED passed
  <2>1. /\ OnlyMoves(r) /\ runner'[r].at = "claim"
        /\ runner'[r].seq = runner[r].seq /\ runner'[r].hook = runner[r].hook
    BY <1>2, RunnerMoves, SMTT(30) DEF Busy
  <2>2. QED
    BY <1>0, <1>2, <2>1 DEF RunnerStep, PassStep, Busy
<1>3. CASE Stop(r) /\ UNCHANGED passed
  BY <1>0, <1>3, RunnerMoves, SMTT(30) DEF RunnerStep, PassStep
<1>4. QED
  BY <1>1, <1>2, <1>3 DEF Judge, SucceededNext

-----------------------------------------------------------------------------
\* What a write of an entry has to respect for the effects.
PutKeepsEffects(r, s, h, x) ==
    /\ journal[s][h].attempt <= x.attempt
    /\ x.state = "Succeeded" => <<s, h, x.attempt>> \in effects
    /\ x.state # "absent"
    /\ h \notin Idempotent =>
         /\ \A k \in Nat : <<s, h, k>> \in effects =>
              k = x.attempt /\ x.state \notin {"absent", "Pending", "Failed"}
         /\ \A q \in Runners \ {r} : Works(q, {"running"}, s, h) =>
              runner[q].attempt = x.attempt /\ x.state \notin {"absent", "Pending", "Failed"}

\* The runner that wrote the entry holds no claim, or the one it just made.
ClaimsOnly(r, s, h, x) ==
    \/ runner'[r].at \notin {"running", "settle"}
    \/ /\ runner'[r].at = "running" /\ runner'[r].seq = s /\ runner'[r].hook = h
       /\ runner'[r].attempt = x.attempt /\ journal[s][h].attempt < x.attempt /\ x.state = "Dispatched"
       /\ h \notin Idempotent => \A k \in Nat : <<s, h, k>> \notin effects

\* Such a write keeps the invariant of the effects.
LEMMA EffectPut ==
  ASSUME OutboxInv, NEW r, NEW s \in Deliveries, NEW h \in Hooks, NEW x \in Entry,
         journal' \in [Deliveries -> [Hooks -> Entry]], journal'[s][h] = x,
         \A t \in Deliveries, g \in Hooks : t # s \/ g # h => journal'[t][g] = journal[t][g],
         UNCHANGED effects, OnlyMoves(r),
         PutKeepsEffects(r, s, h, x), r \in Runners => ClaimsOnly(r, s, h, x)
  PROVE  EffectInv'
<1> USE DEF OutboxInv
<1>0. /\ \A q \in Runners : runner[q] \in Runner /\ runner'[q] \in Runner
      /\ \A q \in Runners : Claims(q) => runner[q].seq \in Deliveries /\ runner[q].hook \in Hooks
      /\ \A t \in Deliveries, g \in Hooks : journal[t][g].attempt \in Nat /\ journal'[t][g].attempt \in Nat
      /\ x.attempt \in Nat
  BY DEF Types, OnlyMoves, OrderInv, Claims, Busy, Entry
<1>1. \A t \in Deliveries, g \in Hooks :
        /\ journal'[t][g].state = "Succeeded" => <<t, g, journal'[t][g].attempt>> \in effects
        /\ journal'[t][g].state = "absent" => journal'[t][g].attempt = 0
  <2> SUFFICES ASSUME NEW t \in Deliveries, NEW g \in Hooks
               PROVE  /\ journal'[t][g].state = "Succeeded" => <<t, g, journal'[t][g].attempt>> \in effects
                      /\ journal'[t][g].state = "absent" => journal'[t][g].attempt = 0
    OBVIOUS
  <2>1. CASE t = s /\ g = h
    BY <2>1, Zenon DEF PutKeepsEffects
  <2>2. CASE t # s \/ g # h
    <3>1. journal'[t][g] = journal[t][g]
      BY <2>2
    <3>2. QED
      BY <3>1 DEF EffectInv, EntriesTrue, Succeeded, Absent
  <2>3. QED
    BY <2>1, <2>2
<1>2. \A t \in Deliveries, g \in Hooks \ Idempotent : \A k \in Nat : <<t, g, k>> \in effects =>
        k = journal'[t][g].attempt /\ journal'[t][g].state \notin {"absent", "Pending", "Failed"}
  <2> SUFFICES ASSUME NEW t \in Deliveries, NEW g \in Hooks, g \notin Idempotent, NEW k \in Nat, <<t, g, k>> \in effects
               PROVE  k = journal'[t][g].attempt /\ journal'[t][g].state \notin {"absent", "Pending", "Failed"}
    OBVIOUS
  <2>1. CASE t = s /\ g = h
    BY <2>1 DEF PutKeepsEffects
  <2>2. CASE t # s \/ g # h
    <3>1. k = journal[t][g].attempt /\ journal[t][g].state \notin {"absent", "Pending", "Failed"}
      BY DEF EffectInv, PerformedOnce
    <3>2. journal'[t][g] = journal[t][g]
      BY <2>2
    <3>3. QED
      BY <3>1, <3>2
  <2>3. QED
    BY <2>1, <2>2
<1>3. \A t \in Deliveries, g \in Hooks : journal[t][g].attempt <= journal'[t][g].attempt
  BY <1>0 DEF PutKeepsEffects
<1>4. ASSUME NEW q \in Runners, runner'[q].at \in {"running", "settle"}, q # r
      PROVE  /\ runner'[q] = runner[q] /\ Claims(q)
             /\ runner'[q].seq \in Deliveries /\ runner'[q].hook \in Hooks
  BY <1>0, <1>4 DEF OnlyMoves, Claims
<1>5. ASSUME NEW q \in Runners, runner'[q].at \in {"running", "settle"}
      PROVE  runner'[q].attempt <= journal'[runner'[q].seq][runner'[q].hook].attempt
  <2>1. CASE q = r
    BY <1>0, <1>5, <2>1, SMTT(30) DEF ClaimsOnly
  <2>2. CASE q # r
    <3>1. runner[q].attempt <= journal[runner[q].seq][runner[q].hook].attempt
      BY <1>4, <1>5, <2>2, SMTT(30) DEF EffectInv, AttemptsBounded, Mine
    <3>2. runner[q].attempt \in Nat
      BY <1>0 DEF Runner
    <3>3. QED
      BY <1>0, <1>3, <1>4, <1>5, <2>2, <3>1, <3>2, SMTT(30)
  <2>3. QED
    BY <2>1, <2>2, SMTT(30)
<1>6. ASSUME NEW p \in Runners, NEW q \in Runners,
             runner'[p].at \in {"running", "settle"}, runner'[q].at \in {"running", "settle"},
             runner'[q].seq = runner'[p].seq, runner'[q].hook = runner'[p].hook,
             runner'[q].attempt = runner'[p].attempt
      PROVE  q = p
  <2>1. CASE p # r /\ q # r
    BY <1>4, <1>6, <2>1 DEF EffectInv, AttemptsUnique, Works, Claims
  <2>2. ASSUME NEW z \in Runners, z # r, runner'[z].at \in {"running", "settle"},
               r \in Runners, runner'[r].at \in {"running", "settle"}, runner'[z].seq = runner'[r].seq,
               runner'[z].hook = runner'[r].hook, runner'[z].attempt = runner'[r].attempt
        PROVE  FALSE
    <3>1. /\ runner'[r].seq = s /\ runner'[r].hook = h
          /\ runner'[r].attempt = x.attempt /\ journal[s][h].attempt < x.attempt
      BY <2>2 DEF ClaimsOnly
    <3>2. runner[z].attempt <= journal[s][h].attempt
      BY <1>4, <2>2, <3>1, SMTT(30) DEF EffectInv, AttemptsBounded, Mine
    <3>3. runner[z].attempt = x.attempt /\ x.attempt \in Nat /\ journal[s][h].attempt \in Nat
      BY <1>0, <1>4, <2>2, <3>1
    <3>4. QED
      BY <3>1, <3>2, <3>3
  <2>3. QED
    BY <1>6, <2>1, <2>2
<1>7. ASSUME NEW q \in Runners, runner'[q].at = "running", runner'[q].hook \notin Idempotent
      PROVE  /\ runner'[q].attempt = journal'[runner'[q].seq][runner'[q].hook].attempt
             /\ journal'[runner'[q].seq][runner'[q].hook].state \notin {"absent", "Pending", "Failed"}
             /\ <<runner'[q].seq, runner'[q].hook, runner'[q].attempt>> \notin effects
  <2>1. CASE q = r
    BY <1>0, <1>7, <2>1 DEF ClaimsOnly
  <2>2. CASE q # r
    <3>1. runner'[q] = runner[q] /\ runner[q].seq \in Deliveries /\ runner[q].hook \in Hooks
      BY <1>4, <1>7, <2>2
    <3>2. /\ runner[q].attempt = journal[runner[q].seq][runner[q].hook].attempt
          /\ journal[runner[q].seq][runner[q].hook].state \notin {"absent", "Pending", "Failed"}
          /\ <<runner[q].seq, runner[q].hook, runner[q].attempt>> \notin effects
      BY <1>7, <3>1, Zenon DEF EffectInv, RunningFresh, Mine, Effect
    <3>3. CASE runner[q].seq = s /\ runner[q].hook = h
      BY <1>7, <2>2, <3>1, <3>2, <3>3 DEF PutKeepsEffects, Works
    <3>4. CASE runner[q].seq # s \/ runner[q].hook # h
      <4>1. journal'[runner[q].seq][runner[q].hook] = journal[runner[q].seq][runner[q].hook]
        BY <3>1, <3>4
      <4>2. QED
        BY <3>1, <3>2, <4>1, Zenon
    <3>5. QED
      BY <3>3, <3>4, Zenon
  <2>3. QED
    BY <2>1, <2>2, Zenon
<1>8. ASSUME NEW q \in Runners, runner'[q].at = "settle"
      PROVE  /\ runner'[q] = runner[q] /\ runner[q].at = "settle"
  BY <1>4, <1>8 DEF ClaimsOnly
<1>9. QED
  <2>1. AttemptsUnique'
    BY <1>6 DEF AttemptsUnique, Works, Claims
  <2>2. ReceiptsTrue'
    BY <1>8 DEF EffectInv, ReceiptsTrue, Effect
  <2>3. AttemptsBounded'
    BY <1>5 DEF AttemptsBounded, Claims, Mine
  <2>4. RunningFresh'
    BY <1>7, Zenon DEF RunningFresh, Mine, Effect
  <2>5. QED
    BY <1>1, <1>2, <2>1, <2>2, <2>3, <2>4 DEF EffectInv, EntriesTrue, PerformedOnce, Succeeded, Absent

\* Such a write, by the runner that works on the entry, keeps the invariant.
LEMMA PutKept ==
  ASSUME OutboxConstants, OutboxInv, NEW r \in Runners, runner[r].at \in Busy, NEW x \in Entry,
         Put(r, x), Evolves(Mine(r), x),
         OnlyMoves(r), RunnerStep(r), PassStep, passed' \subseteq Deliveries,
         UNCHANGED <<clock, effects>>,
         PutKeepsEffects(r, runner[r].seq, runner[r].hook, x), ClaimsOnly(r, runner[r].seq, runner[r].hook, x)
  PROVE  OutboxInv'
<1> DEFINE s == runner[r].seq
           h == runner[r].hook
<1>1. s \in Deliveries /\ h \in Hooks
  BY DEF OutboxInv, OrderInv
<1>2. /\ journal' \in [Deliveries -> [Hooks -> Entry]] /\ journal'[s][h] = x
      /\ \A t \in Deliveries, g \in Hooks : t # s \/ g # h => journal'[t][g] = journal[t][g]
  <2>1. Types /\ journal' = [journal EXCEPT ![s][h] = x]
    BY SMTT(30) DEF OutboxInv, Put
  <2> HIDE DEF s, h
  <2>2. QED
    BY <1>1, <2>1 DEF Types
<1>3. EffectInv'
  BY <1>1, <1>2, EffectPut
<1>4. Types'
  BY <1>2 DEF OutboxInv, Types, OnlyMoves
<1>5. JournalStep
  BY <1>1, <1>2, <1>4, Zenon DEF JournalStep, Evolves, Mine, Works, Absent, AbsentNext
<1>6. \A q \in Runners : RunnerStep(q)
  BY OthersStay DEF OutboxInv
<1>7. QED
  BY <1>3, <1>4, <1>5, <1>6, OrderKept, SMTT(30) DEF OutboxInv

\* A step that writes nothing, and after which its runner holds no claim, keeps it too.
LEMMA QuietKept ==
  ASSUME OutboxConstants, OutboxInv, NEW r \in Runners,
         OnlyMoves(r), runner'[r].at \notin {"running", "settle"}, RunnerStep(r),
         PassStep, passed' \subseteq Deliveries, UNCHANGED <<clock, journal, effects>>
  PROVE  OutboxInv'
<1>1. \A q \in Runners : Claims(q)' => Claims(q) /\ runner'[q] = runner[q]
  BY DEF Claims, OnlyMoves
<1>2. EffectInv'
  <2>1. \A q \in Runners : runner'[q].at \in {"running", "settle"} => runner'[q] = runner[q]
    BY <1>1 DEF Claims
  <2>2. EffectInv /\ journal' = journal /\ effects' = effects
    BY DEF OutboxInv
  <2>3. EntriesTrue' /\ PerformedOnce'
    BY <2>2 DEF EffectInv, EntriesTrue, PerformedOnce, Succeeded, Absent
  <2>4. AttemptsBounded'
    BY <2>1, <2>2 DEF EffectInv, AttemptsBounded, Claims, Mine
  <2>5. AttemptsUnique'
    BY <2>1, <2>2, SMTT(30) DEF EffectInv, AttemptsUnique, Claims, Works
  <2>6. RunningFresh'
    BY <2>1, <2>2 DEF EffectInv, RunningFresh, Mine, Effect
  <2>7. ReceiptsTrue'
    BY <2>1, <2>2 DEF EffectInv, ReceiptsTrue, Effect
  <2>8. QED
    BY <2>3, <2>4, <2>5, <2>6, <2>7 DEF EffectInv
<1>3. Types'
  BY DEF OutboxInv, Types, OnlyMoves
<1>4. JournalStep
  BY <1>3 DEF JournalStep, Evolves, Absent, AbsentNext
<1>5. \A q \in Runners : RunnerStep(q)
  BY OthersStay DEF OutboxInv
<1>6. QED
  BY <1>2, <1>3, <1>4, <1>5, OrderKept DEF OutboxInv

-----------------------------------------------------------------------------
(***************************************************************************)
(* The steps of a runner.                                                  *)
(***************************************************************************)

\* emit_once_async begins the first delivery that has not failed.
LEMMA EmitKeeps ==
  ASSUME OutboxConstants, OutboxInv, NEW r \in Runners, Emit(r)
  PROVE  OutboxInv'
<1>1. PICK s \in Deliveries :
        /\ FirstOpen(s)
        /\ runner' = [runner EXCEPT ![r] = [Idle EXCEPT !.at = "look", !.seq = s, !.hook = 1, !.deadline = clock + Timeout]]
  BY Zenon DEF Emit
<1> DEFINE new == [Idle EXCEPT !.at = "look", !.seq = s, !.hook = 1, !.deadline = clock + Timeout]
<1>2. s \in Nat /\ clock + Timeout \in Nat
  BY DEF OutboxInv, Types, OutboxConstants, Deliveries
<1>3. ASSUME NEW d \in Nat
      PROVE  LET u == [Idle EXCEPT !.at = "look", !.seq = s, !.hook = 1, !.deadline = d]
             IN u \in Runner /\ u.at = "look" /\ u.seq = s /\ u.hook = 1
  BY <1>2, Zenon DEF Idle, Runner
<1>4. new \in Runner /\ new.at = "look" /\ new.seq = s /\ new.hook = 1
  BY <1>2, <1>3, Zenon
<1> HIDE DEF new
<1>5. runner' = [runner EXCEPT ![r] = new] /\ runner \in [Runners -> Runner] /\ passed \subseteq Deliveries
  BY <1>1 DEF new, OutboxInv, Types
<1>6. OnlyMoves(r) /\ runner'[r] = new
  BY <1>4, <1>5 DEF OnlyMoves
<1>7. RunnerStep(r)
  BY <1>1, <1>4, <1>6 DEF RunnerStep, FirstOpen
<1>8. UNCHANGED <<clock, journal, effects, passed>>
  BY DEF Emit
<1>9. PassStep /\ passed' \subseteq Deliveries
  BY <1>5, <1>8 DEF PassStep
<1>10. QED
  BY <1>4, <1>6, <1>7, <1>8, <1>9, QuietKept

\* The runner looks at the entry of its Hook.
LEMMA LookKeeps ==
  ASSUME OutboxConstants, OutboxInv, NEW r \in Runners, Look(r)
  PROVE  OutboxInv'
<1> USE DEF OutboxInv
<1>1. /\ runner[r].at = "look" /\ runner[r].at \in Busy /\ UNCHANGED <<clock, journal, effects>>
      /\ passed \subseteq Deliveries
  BY DEF Look, Busy, Types
<1>2. CASE NextHook(r) /\ Mine(r).state = "Succeeded"
  <2>1. SucceededNext(runner[r].seq, runner[r].hook)
    BY <1>1, <1>2, SMTT(30) DEF Mine, SucceededNext
  <2>2. /\ OnlyMoves(r) /\ runner'[r].at \in {"idle", "look"} /\ RunnerStep(r)
        /\ PassStep /\ passed' \subseteq Deliveries
    BY <1>1, <1>2, <2>1, GoesOn
  <2>3. QED
    BY <1>1, <2>2, QuietKept
<1>3. ASSUME NEW at \in {"enqueue", "claim"}, Step(r, at), UNCHANGED passed, at = "claim" => Mine(r).state # "absent"
      PROVE  OutboxInv'
  <2>1. at \in Busy
    BY DEF Busy
  <2>2. /\ OnlyMoves(r) /\ runner'[r].at = at
        /\ runner'[r].seq = runner[r].seq /\ runner'[r].hook = runner[r].hook
    BY <1>3, <2>1, RunnerMoves, SMTT(30)
  <2>3. RunnerStep(r)
    BY <1>1, <1>3, <2>1, <2>2 DEF RunnerStep, Known, Mine, AbsentNext
  <2>4. PassStep /\ passed' \subseteq Deliveries
    BY <1>1, <1>3 DEF PassStep
  <2>5. QED
    BY <1>1, <2>2, <2>3, <2>4, QuietKept
<1>4. QED
  BY <1>2, <1>3 DEF Look

\* The entry is enqueued, unless another runner did that.
LEMMA EnqueueKeeps ==
  ASSUME OutboxConstants, OutboxInv, NEW r \in Runners, Enqueue(r)
  PROVE  OutboxInv'
<1> USE DEF OutboxInv
<1>1. /\ runner[r].at = "enqueue" /\ runner[r].at \in Busy /\ UNCHANGED <<clock, effects, passed>>
      /\ runner[r] \in Runner /\ passed \subseteq Deliveries
  BY DEF Enqueue, Busy, Types
<1>2. PassStep /\ passed' \subseteq Deliveries
  BY <1>1 DEF PassStep
<1>3. runner[r].seq \in Deliveries /\ runner[r].hook \in Hooks
  BY <1>1, SMTT(30) DEF OrderInv
<1>4. ASSUME Step(r, "claim"), ~AbsentNext(runner[r].seq, runner[r].hook)
      PROVE  OnlyMoves(r) /\ runner'[r].at = "claim" /\ RunnerStep(r)
  <2>1. /\ OnlyMoves(r) /\ runner'[r].at = "claim"
        /\ runner'[r].seq = runner[r].seq /\ runner'[r].hook = runner[r].hook
    BY <1>4, RunnerMoves, SMTT(30) DEF Busy
  <2>2. QED
    BY <1>1, <1>4, <2>1 DEF RunnerStep, Busy
<1>5. CASE Mine(r).state = "absent"
  <2> DEFINE x == [NoEntry EXCEPT !.state = "Pending", !.deadline = runner[r].deadline]
  <2>1. Put(r, x) /\ Step(r, "claim")
    BY <1>5 DEF Enqueue
  <2>2. ASSUME NEW d \in Nat
        PROVE  LET y == [NoEntry EXCEPT !.state = "Pending", !.deadline = d]
               IN y \in Entry /\ y.state = "Pending" /\ y.attempt = 0
    BY Zenon DEF NoEntry, Entry, States
  <2>3. x \in Entry /\ x.state = "Pending" /\ x.attempt = 0
    <3>1. runner[r].deadline \in Nat
      BY <1>1 DEF Runner
    <3>2. QED
      BY <2>2, <3>1, Zenon
  <2> HIDE DEF x
  <2>4. Evolves(Mine(r), x)
    BY <1>5 DEF Evolves, Settled, Terminal
  <2>5. journal'[runner[r].seq][runner[r].hook] = x
    BY <1>3, <2>1 DEF Put, Types
  <2>6. OnlyMoves(r) /\ runner'[r].at = "claim" /\ RunnerStep(r)
    BY <1>4, <2>1, <2>3, <2>5 DEF AbsentNext
  <2>7. PutKeepsEffects(r, runner[r].seq, runner[r].hook, x)
    <3>1. ASSUME NEW q \in Runners, Works(q, {"running"}, runner[r].seq, runner[r].hook) PROVE FALSE
      BY <1>5, <3>1 DEF Works, Mine, Busy, Known, OrderInv, Absent
    <3>2. \A k \in Nat : runner[r].hook \notin Idempotent => <<runner[r].seq, runner[r].hook, k>> \notin effects
      BY <1>3, <1>5 DEF EffectInv, PerformedOnce, Mine
    <3>3. journal[runner[r].seq][runner[r].hook].attempt = 0
      BY <1>3, <1>5, Zenon DEF EffectInv, EntriesTrue, Mine, Absent
    <3>4. QED
      BY <2>3, <3>1, <3>2, <3>3, SMTT(30) DEF PutKeepsEffects
  <2>8. ClaimsOnly(r, runner[r].seq, runner[r].hook, x)
    BY <2>6 DEF ClaimsOnly
  <2>9. QED
    BY <1>1, <1>2, <2>1, <2>3, <2>4, <2>6, <2>7, <2>8, PutKept
<1>6. CASE Mine(r).state # "absent"
  <2>1. UNCHANGED journal /\ (Step(r, "claim") \/ Stop(r))
    BY <1>6 DEF Enqueue
  <2>2. OnlyMoves(r) /\ runner'[r].at \in {"claim", "idle"} /\ RunnerStep(r)
    <3>1. CASE Step(r, "claim")
      BY <1>4, <1>6, <2>1, <3>1, SMTT(30) DEF AbsentNext, Mine
    <3>2. CASE Stop(r)
      BY <3>2, RunnerMoves, SMTT(30) DEF RunnerStep
    <3>3. QED
      BY <2>1, <3>1, <3>2, SMTT(30)
  <2>3. QED
    BY <1>1, <1>2, <2>1, <2>2, QuietKept
<1>7. QED
  BY <1>5, <1>6

\* What claim writes respects the effects: a Hook that is not idempotent is leased
\* only when nothing of it was performed or runs.
LEMMA ClaimRespects ==
  ASSUME OutboxConstants, OutboxInv, NEW r \in Runners, runner[r].at \in Known
  PROVE  LET x == Claimed(Mine(r), runner[r].hook)
         IN /\ x \in Entry /\ Evolves(Mine(r), x)
            /\ PutKeepsEffects(r, runner[r].seq, runner[r].hook, x)
            /\ Leases(Mine(r), runner[r].hook) =>
                 /\ x.attempt = Mine(r).attempt + 1 /\ x.state = "Dispatched" /\ Mine(r).attempt < x.attempt
                 /\ runner[r].hook \notin Idempotent =>
                      \A k \in Nat : <<runner[r].seq, runner[r].hook, k>> \notin effects
<1> USE DEF OutboxInv
<1> DEFINE s == runner[r].seq
           h == runner[r].hook
           e == journal[s][h]
           x == Claimed(e, h)
<1>1. s \in Deliveries /\ h \in Hooks /\ e.state # "absent"
  BY DEF OrderInv, Known, Busy, Absent
<1>2. e \in Entry /\ clock \in Nat
  BY <1>1 DEF Types
<1>3. Mine(r) = e
  BY DEF Mine
<1>4. /\ \A k \in Nat : h \notin Idempotent /\ <<s, h, k>> \in effects =>
           k = e.attempt /\ e.state \notin {"absent", "Pending", "Failed"}
      /\ e.state = "Succeeded" => <<s, h, e.attempt>> \in effects
      /\ \A q \in Runners : h \notin Idempotent /\ Works(q, {"running"}, s, h) =>
           runner[q].attempt = e.attempt /\ e.state \notin {"absent", "Pending", "Failed"}
  BY <1>1, Zenon DEF EffectInv, EntriesTrue, PerformedOnce, RunningFresh, Works, Mine, Succeeded
<1> HIDE DEF s, h, e
<1>5. /\ x \in Entry /\ Evolves(e, x)
      /\ x.state = "Succeeded" => e.state = "Succeeded"
      /\ Leases(e, h) => x.attempt = e.attempt + 1 /\ x.state = "Dispatched"
                         /\ (h \notin Idempotent => e.state \in {"Pending", "Failed"})
      /\ ~Leases(e, h) => x.attempt = e.attempt
                          /\ (x.state = "Failed" => e.state = "Failed" \/ h \in Idempotent)
                          /\ (x.state = "Pending" => e.state = "Pending")
  BY <1>1, <1>2, ClaimedEntry
<1> HIDE DEF x
<1>6. e.attempt \in Nat /\ x.attempt \in Nat
  BY <1>2, <1>5 DEF Entry
<1>7. x.state # "absent" /\ e.attempt <= x.attempt
  BY <1>1, <1>5, <1>6, SMTT(30) DEF Evolves
<1>8. x.state = "Succeeded" => <<s, h, x.attempt>> \in effects
  <2>1. e.state = "Succeeded" => x = e
    BY <1>5 DEF Evolves, Settled, Terminal
  <2>2. QED
    BY <1>4, <1>5, <2>1
<1>9. h \notin Idempotent /\ e.state \notin {"absent", "Pending", "Failed"} =>
        x.attempt = e.attempt /\ x.state \notin {"absent", "Pending", "Failed"}
  BY <1>5, <1>7, SMTT(30)
<1>10. PutKeepsEffects(r, s, h, x)
  <2>1. e = journal[s][h]
    BY SMTT(30) DEF e
  <2>2. QED
    BY <1>4, <1>7, <1>8, <1>9, <2>1 DEF PutKeepsEffects
<1>11. Leases(e, h) => /\ x.attempt = e.attempt + 1 /\ x.state = "Dispatched" /\ e.attempt < x.attempt
                       /\ h \notin Idempotent => \A k \in Nat : <<s, h, k>> \notin effects
  BY <1>4, <1>5, <1>6, SMTT(30)
<1>12. QED
  BY <1>3, <1>5, <1>10, <1>11, SMTT(30) DEF s, h, x

\* The runner claims the entry, or finds it taken, settled or lapsed.
LEMMA ClaimKeeps ==
  ASSUME OutboxConstants, OutboxInv, NEW r \in Runners, Claim(r)
  PROVE  OutboxInv'
<1> DEFINE s == runner[r].seq
           h == runner[r].hook
           x == Claimed(Mine(r), h)
<1>1. /\ runner[r].at = "claim" /\ runner[r].at \in Busy /\ runner[r].at \in Known
      /\ Put(r, x) /\ UNCHANGED <<clock, effects, passed>>
  BY DEF Claim, Busy, Known
<1>2. /\ x \in Entry /\ Evolves(Mine(r), x) /\ PutKeepsEffects(r, s, h, x)
      /\ Leases(Mine(r), h) =>
           /\ x.attempt = Mine(r).attempt + 1 /\ x.state = "Dispatched" /\ Mine(r).attempt < x.attempt
           /\ h \notin Idempotent => \A k \in Nat : <<s, h, k>> \notin effects
  BY <1>1, ClaimRespects, Zenon
<1>3. PassStep /\ passed' \subseteq Deliveries /\ Types
  BY <1>1 DEF PassStep, OutboxInv, Types
<1>4. Mine(r) = journal[s][h]
  BY DEF Mine
<1> HIDE DEF x
<1>5. OnlyMoves(r) /\ RunnerStep(r) /\ ClaimsOnly(r, s, h, x)
  <2>1. CASE Stop(r)
    BY <1>3, <2>1, RunnerMoves, Zenon DEF RunnerStep, ClaimsOnly
  <2>2. CASE Step(r, "read")
    <3>1. /\ OnlyMoves(r) /\ runner'[r].at = "read"
          /\ runner'[r].seq = runner[r].seq /\ runner'[r].hook = runner[r].hook
      BY <1>3, <2>2, RunnerMoves DEF Busy
    <3>2. QED
      BY <1>1, <3>1, Zenon DEF RunnerStep, ClaimsOnly, Busy
  <2>3. CASE /\ Leases(Mine(r), h)
             /\ runner' = [runner EXCEPT ![r].at = "running", ![r].attempt = Mine(r).attempt + 1]
    <3>1. ASSUME NEW u \in Runner, NEW k \in Nat
          PROVE  LET new == [u EXCEPT !.at = "running", !.attempt = k]
                 IN /\ new \in Runner /\ new.at = "running" /\ new.attempt = k
                    /\ new.seq = u.seq /\ new.hook = u.hook
      BY Zenon DEF Runner
    <3> DEFINE new == [runner[r] EXCEPT !.at = "running", !.attempt = x.attempt]
    <3>2. runner[r] \in Runner /\ runner \in [Runners -> Runner] /\ x.attempt \in Nat
      BY <1>2, <1>3 DEF Types, Entry
    <3>3. /\ new \in Runner /\ new.at = "running" /\ new.attempt = x.attempt
          /\ new.seq = runner[r].seq /\ new.hook = runner[r].hook
      BY <3>1, <3>2, Zenon
    <3>4. runner' = [runner EXCEPT ![r] = new]
      BY <1>2, <2>3, <3>2, Zenon
    <3> HIDE DEF new
    <3>5. OnlyMoves(r) /\ runner'[r] = new
      BY <3>2, <3>3, <3>4, SMTT(30) DEF OnlyMoves
    <3>6. RunnerStep(r)
      BY <1>1, <3>3, <3>5 DEF RunnerStep, Busy
    <3>7. ClaimsOnly(r, s, h, x)
      BY <1>2, <1>4, <2>3, <3>3, <3>5, Zenon DEF ClaimsOnly
    <3>8. QED
      BY <3>5, <3>6, <3>7
  <2>4. QED
    BY <2>1, <2>2, <2>3 DEF Claim
<1>6. QED
  BY <1>1, <1>2, <1>3, <1>5, PutKept

\* A runner without a lease reads the journal.
LEMMA ReadKeeps ==
  ASSUME OutboxConstants, OutboxInv, NEW r \in Runners, Read(r)
  PROVE  OutboxInv'
<1>1. /\ runner[r].at \in Known /\ UNCHANGED <<clock, journal, effects>>
      /\ Judge(r, journal'[runner[r].seq][runner[r].hook])
  BY SMTT(30) DEF Read, Known, Mine
<1>2. /\ OnlyMoves(r) /\ runner'[r].at \in {"idle", "look", "claim"} /\ RunnerStep(r)
      /\ PassStep /\ passed' \subseteq Deliveries
  BY <1>1, Judges DEF OutboxInv
<1>3. QED
  BY <1>1, <1>2, QuietKept

\* The target performs the effect of the attempt, or not, and reports.
LEMMA PerformKeeps ==
  ASSUME OutboxConstants, OutboxInv, NEW r \in Runners, Perform(r)
  PROVE  OutboxInv'
<1> USE DEF OutboxInv
<1>0. /\ runner[r].at = "running" /\ runner[r] \in Runner /\ runner \in [Runners -> Runner]
      /\ UNCHANGED <<clock, journal, passed>>
      /\ runner[r].seq \in Deliveries /\ runner[r].hook \in Hooks
  BY DEF Perform, Types, OrderInv, Busy
<1>1. PICK did \in BOOLEAN : \E receipt \in Reports(runner[r].hook, did) :
        /\ runner' = [runner EXCEPT ![r].at = "settle", ![r].receipt = receipt]
        /\ effects' = IF did THEN effects \cup {Effect(r)} ELSE effects
  BY Zenon DEF Perform, Effect
<1>a. PICK receipt \in Reports(runner[r].hook, did) :
        /\ runner' = [runner EXCEPT ![r].at = "settle", ![r].receipt = receipt]
        /\ effects' = IF did THEN effects \cup {Effect(r)} ELSE effects
  BY <1>1, Zenon
<1>2. /\ receipt \in Receipts
      /\ receipt = "Succeeded" => did
      /\ receipt = "Failed" /\ runner[r].hook \notin Idempotent => ~did
  BY DEF Reports, Receipts, Terminal
<1> DEFINE new == [runner[r] EXCEPT !.at = "settle", !.receipt = receipt]
<1>3. /\ new \in Runner /\ new.at = "settle" /\ new.receipt = receipt
      /\ new.seq = runner[r].seq /\ new.hook = runner[r].hook /\ new.attempt = runner[r].attempt
  <2>1. ASSUME NEW u \in Runner
        PROVE  LET v == [u EXCEPT !.at = "settle", !.receipt = receipt]
               IN /\ v \in Runner /\ v.at = "settle" /\ v.receipt = receipt
                  /\ v.seq = u.seq /\ v.hook = u.hook /\ v.attempt = u.attempt
    BY <1>2, Zenon DEF Runner
  <2>2. QED
    BY <1>0, <2>1, Zenon
<1>4. runner' = [runner EXCEPT ![r] = new]
  BY <1>0, <1>a, Zenon
<1> HIDE DEF new
<1>5. OnlyMoves(r) /\ runner'[r] = new
  BY <1>0, <1>3, <1>4, SMTT(30) DEF OnlyMoves
<1>6. RunnerStep(r)
  BY <1>0, <1>3, <1>5 DEF RunnerStep, Busy, Known
<1>7. Types'
  BY <1>0, <1>5, SMTT(30) DEF Types, OnlyMoves
<1>8. JournalStep
  BY <1>0, <1>7 DEF JournalStep, Evolves, Absent, AbsentNext
<1>9. PassStep /\ \A q \in Runners : RunnerStep(q)
  BY <1>0, <1>5, <1>6, OthersStay DEF PassStep
<1>10. ASSUME NEW q \in Runners
       PROVE  /\ runner'[q].seq = runner[q].seq /\ runner'[q].hook = runner[q].hook
              /\ runner'[q].attempt = runner[q].attempt
              /\ runner'[q].at \in {"running", "settle"} <=> runner[q].at \in {"running", "settle"}
              /\ q # r => runner'[q] = runner[q]
  BY <1>0, <1>3, <1>5 DEF OnlyMoves
<1>11. effects \subseteq effects' /\ \A y \in effects' \ effects : did /\ y = Effect(r)
  BY <1>1
<1>12. ASSUME NEW q \in Runners, q # r, Claims(q) PROVE Effect(q) # Effect(r)
  <2>1. ~(runner[q].seq = runner[r].seq /\ runner[q].hook = runner[r].hook /\ runner[q].attempt = runner[r].attempt)
    BY <1>0, <1>12 DEF EffectInv, AttemptsUnique, Claims, Works
  <2>2. QED
    BY <2>1 DEF Effect
<1>13. EffectInv'
  <2>1. \A t \in Deliveries, g \in Hooks :
          /\ journal'[t][g].state = "Succeeded" => <<t, g, journal'[t][g].attempt>> \in effects'
          /\ journal'[t][g].state = "absent" => journal'[t][g].attempt = 0
    BY <1>0, <1>11, Zenon DEF EffectInv, EntriesTrue, Succeeded, Absent
  <2>2. ASSUME NEW t \in Deliveries, NEW g \in Hooks, g \notin Idempotent, NEW k \in Nat, <<t, g, k>> \in effects'
        PROVE  k = journal'[t][g].attempt /\ journal'[t][g].state \notin {"absent", "Pending", "Failed"}
    <3>1. CASE <<t, g, k>> \in effects
      BY <1>0, <2>2, <3>1, SMTT(30) DEF EffectInv, PerformedOnce
    <3>2. CASE <<t, g, k>> = Effect(r)
      <4>1. t = runner[r].seq /\ g = runner[r].hook /\ k = runner[r].attempt
        BY <3>2, SMTT(30) DEF Effect
      <4>2. QED
        BY <1>0, <2>2, <4>1 DEF EffectInv, RunningFresh, Mine
    <3>3. QED
      BY <1>11, <2>2, <3>1, <3>2
  <2>3. AttemptsBounded'
    BY <1>0, <1>10, SMTT(30) DEF EffectInv, AttemptsBounded, Claims, Mine
  <2>4. AttemptsUnique'
    BY <1>10 DEF EffectInv, AttemptsUnique, Claims, Works
  <2>5. ASSUME NEW q \in Runners, runner'[q].at = "running", runner'[q].hook \notin Idempotent
        PROVE  /\ runner'[q].attempt = Mine(q)'.attempt
               /\ Mine(q)'.state \notin {"absent", "Pending", "Failed"}
               /\ Effect(q)' \notin effects'
    <3>1. q # r /\ runner'[q] = runner[q] /\ Claims(q)
      BY <1>3, <1>5, <1>10, <2>5, SMTT(30) DEF Claims
    <3>2. Effect(q)' = Effect(q) /\ Effect(q) # Effect(r) /\ Mine(q)' = Mine(q)
      BY <1>0, <1>12, <3>1, SMTT(30) DEF Effect, Mine
    <3>3. Effect(q) \notin effects /\ runner[q].attempt = Mine(q).attempt
          /\ Mine(q).state \notin {"absent", "Pending", "Failed"}
      BY <2>5, <3>1 DEF EffectInv, RunningFresh
    <3>4. QED
      BY <1>11, <3>1, <3>2, <3>3, Zenon
  <2>6. ASSUME NEW q \in Runners, runner'[q].at = "settle"
        PROVE  /\ runner'[q].receipt \in Receipts
               /\ runner'[q].receipt = "Succeeded" => Effect(q)' \in effects'
               /\ runner'[q].receipt = "Failed" /\ runner'[q].hook \notin Idempotent => Effect(q)' \notin effects'
    <3>1. Effect(q)' = Effect(q)
      BY <1>10 DEF Effect
    <3>2. CASE q = r
      <4>1. runner'[q].receipt = receipt /\ runner'[q].hook = runner[r].hook
        BY <1>3, <1>5, <3>2
      <4>2. did => Effect(r) \in effects'
        BY <1>1
      <4>3. ~did /\ runner[r].hook \notin Idempotent => Effect(r) \notin effects'
        BY <1>0, <1>11, SMTT(30) DEF EffectInv, RunningFresh
      <4>4. QED
        BY <1>2, <3>1, <3>2, <4>1, <4>2, <4>3
    <3>3. CASE q # r
      <4>1. runner'[q] = runner[q] /\ Claims(q)
        BY <1>10, <2>6, <3>3 DEF Claims
      <4>2. QED
        BY <1>11, <1>12, <2>6, <3>1, <3>3, <4>1, SMTT(30) DEF EffectInv, ReceiptsTrue
    <3>4. QED
      BY <3>2, <3>3
  <2>7. QED
    BY <2>1, <2>2, <2>3, <2>4, <2>5, <2>6, Zenon DEF EffectInv, EntriesTrue, PerformedOnce, RunningFresh, ReceiptsTrue, Succeeded, Absent
<1>14. QED
  BY <1>7, <1>8, <1>9, <1>13, OrderKept

\* The journal accepts the receipt of the attempt it has dispatched, or the runner
\* has lost its lease.
LEMMA SettleKeeps ==
  ASSUME OutboxConstants, OutboxInv, NEW r \in Runners, SettleEntry(r)
  PROVE  OutboxInv'
<1> USE DEF OutboxInv
<1> DEFINE s == runner[r].seq
           h == runner[r].hook
           e == journal[s][h]
<1>1. /\ runner[r].at = "settle" /\ runner[r].at \in Busy /\ runner[r].at \in Known
      /\ UNCHANGED <<clock, effects>> /\ passed \subseteq Deliveries
      /\ s \in Deliveries /\ h \in Hooks /\ Mine(r) = e /\ e \in Entry
  BY SMTT(30) DEF SettleEntry, Types, OrderInv, Busy, Known, Mine
<1>2. /\ runner[r].receipt \in Receipts
      /\ runner[r].receipt = "Succeeded" => Effect(r) \in effects
      /\ runner[r].receipt = "Failed" /\ h \notin Idempotent => Effect(r) \notin effects
  BY <1>1 DEF EffectInv, ReceiptsTrue
<1>3. CASE Accepts(e, runner[r].attempt)
  <2> DEFINE x == [e EXCEPT !.state = runner[r].receipt, !.lease = 0]
  <2>1. Put(r, x) /\ Judge(r, x)
    BY <1>1, <1>3 DEF SettleEntry
  <2>2. x \in Entry /\ x.state = runner[r].receipt /\ x.attempt = e.attempt
    <3>1. ASSUME NEW y \in Entry, NEW st \in Receipts
          PROVE  LET z == [y EXCEPT !.state = st, !.lease = 0]
                 IN z \in Entry /\ z.state = st /\ z.attempt = y.attempt
      BY Zenon DEF Entry, States
    <3>2. QED
      BY <1>1, <1>2, <3>1, Zenon
  <2> HIDE DEF x
  <2>3. e.state = "Dispatched" /\ e.attempt = runner[r].attempt /\ e.attempt \in Nat
    BY <1>1, <1>3, Zenon DEF Accepts, Entry
  <2>4. x.state \notin {"absent", "Pending"}
    BY <1>2, <2>2, SMTT(30) DEF Receipts, Terminal
  <2>5. Evolves(e, x)
    BY <2>3, <2>4, SMTT(30) DEF Evolves, Settled, Terminal
  <2>6. Effect(r) = <<s, h, x.attempt>>
    BY <2>2, <2>3 DEF Effect
  <2>7. journal'[s][h] = x
    BY <1>1, <2>1, SMTT(30) DEF Put, Types
  <2>8. /\ OnlyMoves(r) /\ runner'[r].at \in {"idle", "look", "claim"} /\ RunnerStep(r)
        /\ PassStep /\ passed' \subseteq Deliveries
    BY <1>1, <2>1, <2>7, Judges
  <2>9. PutKeepsEffects(r, s, h, x)
    <3>1. \A k \in Nat : h \notin Idempotent /\ <<s, h, k>> \in effects => k = x.attempt /\ x.state # "Failed"
      <4>1. \A k \in Nat : h \notin Idempotent /\ <<s, h, k>> \in effects => k = e.attempt
        BY <1>1, SMTT(30) DEF EffectInv, PerformedOnce
      <4>2. QED
        BY <1>2, <2>2, <2>6, <4>1, Zenon
    <3>2. ASSUME NEW q \in Runners, q # r, h \notin Idempotent, Works(q, {"running"}, s, h) PROVE FALSE
      <4>1. runner[q].attempt = e.attempt /\ Claims(r) /\ Works(q, {"running", "settle"}, s, h)
        BY <1>1, <3>2, Zenon DEF EffectInv, RunningFresh, Works, Mine, Claims
      <4>2. QED
        BY <2>3, <3>2, <4>1 DEF EffectInv, AttemptsUnique
    <3>3. x.state = "Succeeded" => <<s, h, x.attempt>> \in effects
      BY <1>2, <2>2, <2>6, SMTT(30)
    <3>4. journal[s][h].attempt <= x.attempt
      BY <2>2, <2>3, SMTT(30)
    <3>5. QED
      BY <2>4, <3>1, <3>2, <3>3, <3>4, Zenon DEF PutKeepsEffects
  <2>10. ClaimsOnly(r, s, h, x)
    BY <2>8 DEF ClaimsOnly
  <2>11. QED
    BY <1>1, <2>1, <2>2, <2>5, <2>8, <2>9, <2>10, PutKept, Zenon
<1>4. CASE ~Accepts(e, runner[r].attempt)
  <2>1. Stop(r) /\ UNCHANGED passed
    BY <1>1, <1>4 DEF SettleEntry
  <2>2. /\ OnlyMoves(r) /\ runner'[r].at = "idle" /\ RunnerStep(r)
        /\ PassStep /\ passed' \subseteq Deliveries
    BY <1>1, <2>1, RunnerMoves, Zenon DEF RunnerStep, PassStep
  <2>3. CASE UNCHANGED journal
    BY <1>1, <2>2, <2>3, QuietKept, Zenon
  <2>4. CASE Put(r, Claimed(Mine(r), h))
    <3> DEFINE x == Claimed(Mine(r), h)
    <3>1. x \in Entry /\ Evolves(Mine(r), x) /\ PutKeepsEffects(r, s, h, x)
      BY <1>1, ClaimRespects, Zenon
    <3>2. ClaimsOnly(r, s, h, x)
      BY <2>2, Zenon DEF ClaimsOnly
    <3>3. Put(r, x)
      BY <2>4
    <3> HIDE DEF x
    <3>4. QED
      BY <1>1, <2>2, <3>1, <3>2, <3>3, PutKept, Zenon
  <2>5. QED
    BY <1>1, <1>4, <2>3, <2>4 DEF SettleEntry
<1>5. QED
  BY <1>3, <1>4

\* A runner crashes.
LEMMA CrashKeeps ==
  ASSUME OutboxConstants, OutboxInv, NEW r \in Runners, CrashRunner(r)
  PROVE  OutboxInv'
<1>1. Stop(r) /\ UNCHANGED <<clock, journal, effects, passed>> /\ Types
  BY SMTT(30) DEF CrashRunner, OutboxInv
<1>2. OnlyMoves(r) /\ runner'[r].at = "idle" /\ RunnerStep(r)
  BY <1>1, RunnerMoves DEF RunnerStep
<1>3. PassStep /\ passed' \subseteq Deliveries
  BY <1>1 DEF PassStep, Types
<1>4. QED
  BY <1>1, <1>2, <1>3, QuietKept

-----------------------------------------------------------------------------
(***************************************************************************)
(* The other steps.                                                        *)
(***************************************************************************)

\* When no runner moves, each stays at its Hook.
LEMMA NobodyMoves ==
  ASSUME Types, UNCHANGED runner
  PROVE  \A q \in Runners : RunnerStep(q)
<1>1. ASSUME NEW q \in Runners PROVE RunnerStep(q)
  <2>1. runner'[q] = runner[q] /\ runner[q].at \in Busy \cup {"idle"}
    BY DEF Types, Runner, Busy
  <2>2. QED
    BY <2>1 DEF RunnerStep
<1>2. QED
  BY <1>1, SMTT(30)

\* A reconciliation tells what the attempt did.
LEMMA ReconcileKeeps ==
  ASSUME OutboxConstants, OutboxInv, NEW s \in Deliveries, NEW h \in Hooks, Reconcile(s, h)
  PROVE  OutboxInv'
<1> USE DEF OutboxInv
<1> DEFINE e == journal[s][h]
           st == IF <<s, h, e.attempt>> \in effects THEN "Succeeded" ELSE "Failed"
           x == [e EXCEPT !.state = st]
<1>1. /\ e.state = "ReconciliationRequired" /\ e \in Entry /\ e.attempt \in Nat
      /\ UNCHANGED <<clock, runner, effects, passed>> /\ Types
  BY DEF Reconcile, Types, Entry
<1>2. journal' = [journal EXCEPT ![s][h] = x]
  BY DEF Reconcile
<1>3. x \in Entry /\ x.state = st /\ x.attempt = e.attempt
  <2>1. ASSUME NEW y \in Entry, NEW z \in States
        PROVE  [y EXCEPT !.state = z] \in Entry /\ [y EXCEPT !.state = z].state = z
               /\ [y EXCEPT !.state = z].attempt = y.attempt
    BY DEF Entry
  <2>2. st \in States
    BY DEF States, Receipts, Terminal
  <2>3. QED
    BY <1>1, <2>1, <2>2
<1> HIDE DEF x
<1>4. /\ journal' \in [Deliveries -> [Hooks -> Entry]] /\ journal'[s][h] = x
      /\ \A t \in Deliveries, g \in Hooks : t # s \/ g # h => journal'[t][g] = journal[t][g]
  <2>1. Types /\ x \in Entry /\ journal' = [journal EXCEPT ![s][h] = x]
    BY <1>1, <1>2, <1>3
  <2>2. QED
    BY <2>1 DEF Types
<1>5. Evolves(e, x)
  BY <1>1, <1>3 DEF Evolves
<1>6. PICK r : r \notin Runners
  BY NoSetContainsEverything
<1>7. OnlyMoves(r)
  BY <1>1, SMTT(30) DEF OnlyMoves, Types
<1>8. PutKeepsEffects(r, s, h, x)
  <2>1. \A k \in Nat : h \notin Idempotent /\ <<s, h, k>> \in effects => k = x.attempt /\ x.state = "Succeeded"
    BY <1>1, <1>3 DEF EffectInv, PerformedOnce
  <2>2. \A q \in Runners : ~Works(q, {"running"}, s, h)
    BY DEF Reconcile, Works
  <2>3. journal[s][h].attempt <= x.attempt
    BY <1>1, <1>3, SMTT(30)
  <2>4. QED
    BY <1>3, <2>1, <2>2, <2>3 DEF PutKeepsEffects
<1>9. EffectInv'
  <2>1. UNCHANGED effects /\ (r \in Runners => ClaimsOnly(r, s, h, x))
    BY <1>1, <1>6
  <2>2. OutboxInv
    OBVIOUS
  <2> HIDE DEF OutboxInv
  <2>3. QED
    BY <1>3, <1>4, <1>7, <1>8, <2>1, <2>2, EffectPut
<1>10. Types'
  BY <1>1, <1>4, SMTT(30) DEF Types
<1>11. JournalStep
  <2>1. ~Absent(s, h)
    BY <1>1, SMTT(30) DEF Absent
  <2>2. QED
    BY <1>4, <1>5, <1>10, <2>1 DEF JournalStep, Evolves, Absent, AbsentNext
<1>12. PassStep /\ \A q \in Runners : RunnerStep(q)
  BY <1>1, NobodyMoves DEF PassStep
<1>13. QED
  BY <1>9, <1>10, <1>11, <1>12, OrderKept

\* Time passes, or nothing happens.
LEMMA IdleStepKeeps ==
  ASSUME OutboxConstants, OutboxInv, clock' \in Nat, UNCHANGED <<journal, runner, effects, passed>>
  PROVE  OutboxInv'
<1>1. Types'
  BY DEF OutboxInv, Types
<1>2. OrderInv'
  <2>1. JournalStep
    BY <1>1 DEF JournalStep, Evolves, Absent, AbsentNext
  <2>2. PassStep /\ \A q \in Runners : RunnerStep(q)
    BY NobodyMoves DEF OutboxInv, PassStep
  <2>3. QED
    BY <2>1, <2>2, OrderKept DEF OutboxInv
<1>3. EffectInv'
  <2>1. EntriesTrue' /\ PerformedOnce'
    BY SMTT(30) DEF OutboxInv, EffectInv, EntriesTrue, PerformedOnce, Succeeded, Absent
  <2>2. AttemptsBounded' /\ AttemptsUnique'
    BY DEF OutboxInv, EffectInv, AttemptsBounded, AttemptsUnique, Claims, Works, Mine
  <2>3. RunningFresh' /\ ReceiptsTrue'
    BY Zenon DEF OutboxInv, EffectInv, RunningFresh, ReceiptsTrue, Mine, Effect
  <2>4. QED
    BY <2>1, <2>2, <2>3 DEF EffectInv
<1>4. QED
  BY <1>1, <1>2, <1>3 DEF OutboxInv

\* An empty journal satisfies the invariant.
LEMMA OutboxInvInit ==
  ASSUME OutboxConstants, OutboxInit
  PROVE  OutboxInv
<1>1. /\ clock = 0 /\ effects = {} /\ passed = {}
      /\ journal = [s \in Deliveries |-> [h \in Hooks |-> NoEntry]]
      /\ runner = [r \in Runners |-> Idle]
  BY DEF OutboxInit
<1>2. NoEntry \in Entry /\ NoEntry.state = "absent" /\ NoEntry.attempt = 0
  BY DEF NoEntry, Entry, States
<1>3. Idle \in Runner /\ Idle.at = "idle"
  BY DEF Idle, Runner
<1>4. /\ \A s \in Deliveries, h \in Hooks : journal[s][h] = NoEntry
      /\ \A r \in Runners : runner[r] = Idle
  BY <1>1
<1>5. Types
  BY <1>1, <1>2, <1>3 DEF Types
<1>6. OrderInv
  BY <1>1, <1>2, <1>3, <1>4 DEF OrderInv, Begun, Busy, Absent
<1>7. EffectInv
  BY <1>1, <1>2, <1>3, <1>4 DEF EffectInv, EntriesTrue, PerformedOnce, AttemptsBounded, AttemptsUnique, RunningFresh, ReceiptsTrue, Claims, Succeeded, Absent
<1>8. QED
  BY <1>5, <1>6, <1>7 DEF OutboxInv

\* Every step keeps the invariant.
LEMMA OutboxInvNext ==
  ASSUME OutboxConstants, OutboxInv, [OutboxNext]_outboxVars
  PROVE  OutboxInv'
<1>0. clock \in Nat
  BY DEF OutboxInv, Types
<1>1. CASE Tick
  BY <1>0, <1>1, IdleStepKeeps DEF Tick
<1>2. CASE UNCHANGED outboxVars
  BY <1>0, <1>2, IdleStepKeeps DEF outboxVars
<1>3. CASE \E s \in Deliveries, h \in Hooks : Reconcile(s, h)
  BY <1>3, ReconcileKeeps
<1>4. CASE \E r \in Runners : Emit(r) \/ EmissionStep(r) \/ CrashRunner(r)
  <2>1. PICK r \in Runners : Emit(r) \/ EmissionStep(r) \/ CrashRunner(r)
    BY <1>4
  <2>2. QED
    BY <2>1, EmitKeeps, LookKeeps, EnqueueKeeps, ClaimKeeps, ReadKeeps, PerformKeeps, SettleKeeps, CrashKeeps
       DEF EmissionStep
<1>5. QED
  BY <1>1, <1>2, <1>3, <1>4 DEF OutboxNext

\* What the invariant says of the event: it is delivered once.
LEMMA OnceDelivered ==
  ASSUME OutboxConstants, OutboxInv
  PROVE  DeliveredOnce
<1>h. DOMAIN journal = Deliveries /\ \A s \in Deliveries : DOMAIN journal[s] = Hooks
  BY DEF OutboxInv, Types
<1> SUFFICES ASSUME NEW s \in Deliveries, NEW t \in Deliveries, Delivered(s), s # t
             PROVE  /\ ~Delivered(t)
                    /\ \A h \in Hooks : journal[t][h].state \notin {"Pending", "Dispatched"}
  BY <1>h DEF DeliveredOnce
<1>0. s \in Nat /\ t \in Nat /\ 1 <= s /\ 1 <= t /\ 1 \in Hooks
  BY DEF Deliveries, OutboxConstants
<1>1. ~NotDelivered(s)
  BY <1>h DEF NotDelivered, Delivered
<1>2. CASE s < t
  <2>1. ~Begun(t)
    <3>1. s \in 1..(t - 1)
      BY <1>0, <1>2
    <3>2. QED
      BY <1>1, <3>1 DEF OutboxInv, OrderInv
  <2>2. \A h \in Hooks : journal[t][h].state = "absent"
    BY <2>1 DEF Begun, Absent
  <2>3. QED
    BY <1>h, <1>0, <2>2 DEF Delivered
<1>3. CASE t < s
  <2>1. NotDelivered(t)
    <3>1. t \in 1..(s - 1)
      BY <1>0, <1>3
    <3>2. Begun(s)
      BY <1>h, <1>0 DEF Delivered, Begun, Absent
    <3>3. QED
      BY <3>1, <3>2 DEF OutboxInv, OrderInv
  <2>2. PICK g \in Hooks : journal[t][g].state # "Succeeded" /\ Settled(journal[t][g])
    BY <2>1 DEF NotDelivered
  <2>3. ~Succeeded(t, g) /\ ~Absent(t, g) /\ journal[t][g].state \notin {"Pending", "Dispatched"}
    BY <2>2 DEF Succeeded, Absent, Settled, Terminal
  <2>4. ASSUME NEW h \in Hooks PROVE journal[t][h].state \notin {"Pending", "Dispatched"}
    <3>1. h \in Nat /\ g \in Nat
      BY SMTT(30) DEF OutboxConstants
    <3>2. CASE h < g
      BY <2>3, <3>2, SMTT(30) DEF OutboxInv, OrderInv, Succeeded
    <3>3. CASE g < h
      <4>1. Absent(t, h)
        BY <2>3, <3>3 DEF OutboxInv, OrderInv
      <4>2. QED
        BY <4>1, SMTT(30) DEF Absent
    <3>4. QED
      BY <2>3, <3>1, <3>2, <3>3
  <2>5. QED
    BY <1>h, <2>2, <2>4 DEF Delivered
<1>4. QED
  BY <1>0, <1>2, <1>3

\* A set with no two elements counts none or one.
LEMMA AtMostOne ==
  ASSUME NEW x, NEW S, S \subseteq {x}
  PROVE  Cardinality(S) \in {0, 1}
<1> DEFINE Counts(f) == f = [T \in SUBSET S |-> IF T = {} THEN 0 ELSE 1 + f[T \ {CHOOSE y : y \in T}]]
           counts == CHOOSE f : Counts(f)
<1>1. \A T \in SUBSET S : T # {} => T \ {CHOOSE y : y \in T} = {}
  OBVIOUS
<1>2. \E f : Counts(f)
  <2>1. PICK f : f = [T \in SUBSET S |-> IF T = {} THEN 0 ELSE 1]
    OBVIOUS
  <2>2. \A T \in SUBSET S : f[T] = IF T = {} THEN 0 ELSE 1 + f[T \ {CHOOSE y : y \in T}]
    BY <1>1, <2>1
  <2> QED
    BY <2>1, <2>2
<1>3. Counts(counts)
  BY <1>2
<1>4. Cardinality(S) = counts[S]
  BY DEF Cardinality
<1>5. counts[{}] = 0 /\ (S # {} => counts[S] = 1 + counts[S \ {CHOOSE y : y \in S}])
  BY <1>3
<1> HIDE DEF counts
<1>6. CASE S = {}
  BY <1>4, <1>5, <1>6
<1>7. CASE S # {}
  <2>1. S \ {CHOOSE y : y \in S} = {}
    BY <1>1, <1>7
  <2>2. counts[S] = 1 + counts[{}]
    BY <1>5, <1>7, <2>1
  <2>3. counts[S] = 1
    BY <1>5, <2>2
  <2> QED
    BY <1>4, <2>3
<1> QED
  BY <1>6, <1>7

\* What it says of a Hook that is not idempotent: at most one attempt performed.
LEMMA OncePerformed ==
  ASSUME OutboxConstants, OutboxInv
  PROVE  NonIdempotentOnce
<1> SUFFICES ASSUME NEW s \in Deliveries, NEW h \in Hooks \ Idempotent
             PROVE  Cardinality({k \in 1..MaxAttempts : <<s, h, k>> \in effects}) <= 1
  <2>1. DOMAIN journal = Deliveries /\ \A s \in Deliveries : DOMAIN journal[s] = Hooks
    BY DEF OutboxInv, Types
  <2>2. QED
    BY <2>1, SMTT(30) DEF NonIdempotentOnce
<1> DEFINE K == {k \in 1..MaxAttempts : <<s, h, k>> \in effects}
           a == journal[s][h].attempt
<1>1. K \subseteq {a}
  <2>1. \A k \in K : k \in Nat /\ <<s, h, k>> \in effects
    BY DEF OutboxConstants
  <2>2. QED
    BY <2>1 DEF OutboxInv, EffectInv, PerformedOnce
<1> HIDE DEF K, a
<1>2. Cardinality(K) \in {0, 1}
  BY <1>1, AtMostOne
<1>3. QED
  BY <1>2 DEF K

\* The invariant of the outbox holds whatever leases expire, settlements are lost and
\* runners crash, for any number of runners, Hooks, attempts and deliveries.
LEMMA OutboxInvHolds == ASSUME OutboxConstants PROVE OutboxSpec => []OutboxInv
<1>1. OutboxInit => OutboxInv
  BY OutboxInvInit
<1>2. OutboxInv /\ [OutboxNext]_outboxVars => OutboxInv'
  BY OutboxInvNext, SMTT(30)
<1>3. QED
  BY <1>1, <1>2, PTL DEF OutboxSpec

\* BoundariesHold: a boundary that let its run pass had every mandatory Hook succeed,
\* by an effect that was performed (HookRuntime::emit_once_async, run_async).
THEOREM MandatoryHooksRan == ASSUME OutboxConstants PROVE OutboxSpec => []BoundariesHold
<1>1. OutboxInv => BoundariesHold
  <2>1. OutboxInv => DOMAIN journal = Deliveries /\ \A s \in Deliveries : DOMAIN journal[s] = Hooks
    BY DEF OutboxInv, Types
  <2>2. QED
    BY <2>1 DEF OutboxInv, OrderInv, EffectInv, EntriesTrue, BoundariesHold, Succeeded
<1>2. QED
  BY <1>1, OutboxInvHolds, PTL

\* DeliveredOnce: no second delivery of an event succeeds, and nothing is dispatched for
\* it once one did, although its lease may pass from one runner to another while the
\* first still works on it (delivery, claim and settle of the outbox).
THEOREM EventsDeliveredOnce == ASSUME OutboxConstants PROVE OutboxSpec => []DeliveredOnce
<1>1. OutboxInv => DeliveredOnce
  BY OnceDelivered
<1>2. QED
  BY <1>1, OutboxInvHolds, PTL

\* NonIdempotentOnce: a Hook that is not idempotent performs its effect at most once in
\* a delivery, whatever is retried (run_async's attempts, and the fence of the claim).
THEOREM NonIdempotentHooksOnce == ASSUME OutboxConstants PROVE OutboxSpec => []NonIdempotentOnce
<1>1. OutboxInv => NonIdempotentOnce
  BY OncePerformed
<1>2. QED
  BY <1>1, OutboxInvHolds, PTL
=============================================================================
