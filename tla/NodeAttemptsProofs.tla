------------------------- MODULE NodeAttemptsProofs -------------------------
(***************************************************************************)
(* What is proved of node attempts over the tool effect broker, for any    *)
(* number of bodies, slots, retries and resumes: an effect is performed at *)
(* most once in its slot, and a late body does not supply the result.      *)
(***************************************************************************)
EXTENDS NodeAttempts, TLAPS

\* A call holds its slot from the commit of its marker to its last transaction.
Active(c) == call[c].at \in {"dispatch", "running", "withdraw", "settle"}

IsCall(x) == x = [at |-> x.at, slot |-> x.slot, outcome |-> x.outcome]

\* A slot has at most one active call, whose marker is in the row, and whose effect
\* has not happened before it is settled; once the effect happened the row stays.
SlotInv ==
    /\ row \in [Slots -> {"none", "marker", "receipt"}]
    /\ performed \in [Slots -> Nat]
    /\ DOMAIN call = Callers /\ \A c \in Callers : IsCall(call[c])
    /\ \A c, d \in Callers :
         Active(c) /\ Active(d) /\ call[c].slot = call[d].slot /\ call[c].slot \in Slots => c = d
    /\ \A c \in Callers : Active(c) /\ call[c].slot \in Slots => row[call[c].slot] = "marker"
    /\ \A c \in Callers : call[c].at \in {"dispatch", "running", "withdraw"} /\ call[c].slot \in Slots
                            => performed[call[c].slot] = 0
    /\ \A s \in Slots : performed[s] <= 1 /\ (performed[s] = 1 => row[s] # "none")

-----------------------------------------------------------------------------
BodyFields == {"at", "attempt", "expired", "settled", "timed_out", "stopped", "detached",
               "cancelled", "outcome", "committed", "uncertain"}

OrchFields == {"at", "attempt", "first", "unit", "cancelled", "stop"}

IsBody(b) ==
    /\ DOMAIN b = BodyFields
    /\ b.at \in BodyStages
    /\ \A f \in BodyFields \ {"at", "attempt", "outcome"} : b[f] \in BOOLEAN

\* The orchestrator works with a unit, from its launch to its settlement.
HasUnit == orch.at \in {"await", "cancel", "settle"}

\* No attempt of the run has been dispatched, or the last one has been released.
Between == orch.at \in {"start", "record", "launch", "backoff"}

\* What the body of c knows, or will read from its call, of an effect it performed.
Shows(c) ==
    \/ body[c].committed
    \/ body[c].uncertain
    \/ /\ body[c].at = "call"
       /\ \/ call[c].at = "settle"
          \/ call[c].at = "returned" /\ call[c].outcome \in {"ok", "uncertain"}

\* A body and its call, whichever run dispatched it.
BodyInv ==
    /\ DOMAIN body = Callers /\ \A c \in Callers : IsBody(body[c])
    /\ \A c \in Callers :
         /\ body[c].outcome = "ok" => body[c].at = "done" /\ ~body[c].expired
         /\ body[c].stopped => body[c].at = "done"
         /\ body[c].at # "call" => call[c].at = "idle"
         /\ body[c].at = "call" => call[c].slot = body[c].attempt

\* The orchestrator and its unit.
UnitInv ==
    /\ DOMAIN orch = OrchFields /\ orch.cancelled \in BOOLEAN
    /\ HasUnit => orch.unit \in Callers
    /\ orch.at \in {"await", "cancel"} => ~Unit.detached
    /\ orch.at = "settle" => Unit.stopped \/ Unit.detached

\* The first run: one attempt at a time, and an effect belongs to the current one.
FirstRunInv ==
    /\ \A c \in Callers : body[c].at # "free" => c = orch.unit /\ body[c].attempt = orch.attempt
    /\ \A s \in Slots : performed[s] > 0 => s = orch.attempt
    /\ Between => /\ \A c \in Callers : body[c].at = "free"
                  /\ \A s \in Slots : performed[s] = 0
    /\ HasUnit => Shows(orch.unit) \/ \A s \in Slots : performed[s] = 0

\* The inductive invariant of the attempts.
AttemptInv ==
    /\ SlotInv
    /\ resumes \in Nat
    /\ BodyInv
    /\ UnitInv
    /\ resumes = 0 => FirstRunInv

\* An update keeps the type of a function, at any argument.
LEMMA ExceptType ==
  ASSUME NEW S, NEW T, NEW f \in [S -> T], NEW k, NEW v, k \in S => v \in T
  PROVE  [f EXCEPT ![k] = v] \in [S -> T]
OBVIOUS

\* A step of one caller that leaves the other calls alone, in terms of what it does
\* to its own call.
LEMMA OneCallMoves ==
  ASSUME SlotInv, NEW c \in Callers, NEW new, IsCall(new), call' = [call EXCEPT ![c] = new]
  PROVE  /\ DOMAIN call' = Callers /\ \A d \in Callers : IsCall(call'[d])
         /\ call'[c] = new /\ \A d \in Callers \ {c} : call'[d] = call[d]
BY DEF SlotInv, IsCall

\* The same for a step that sets the stage of the call, or its stage and its outcome.
LEMMA OneCallAdvances ==
  ASSUME SlotInv, NEW c \in Callers
  PROVE  /\ \A stage : At(c, stage) =>
              /\ DOMAIN call' = Callers /\ \A d \in Callers : IsCall(call'[d])
              /\ call'[c].at = stage /\ call'[c].slot = call[c].slot
              /\ \A d \in Callers \ {c} : call'[d] = call[d]
         /\ \A outcome : Returns(c, outcome) =>
              /\ DOMAIN call' = Callers /\ \A d \in Callers : IsCall(call'[d])
              /\ call'[c].at = "returned" /\ call'[c].slot = call[c].slot
              /\ \A d \in Callers \ {c} : call'[d] = call[d]
<1>1. ASSUME NEW stage, At(c, stage)
      PROVE  /\ DOMAIN call' = Callers /\ \A d \in Callers : IsCall(call'[d])
             /\ call'[c].at = stage /\ call'[c].slot = call[c].slot
             /\ \A d \in Callers \ {c} : call'[d] = call[d]
  BY <1>1 DEF SlotInv, IsCall, At
<1>2. ASSUME NEW outcome, Returns(c, outcome)
      PROVE  /\ DOMAIN call' = Callers /\ \A d \in Callers : IsCall(call'[d])
             /\ call'[c].at = "returned" /\ call'[c].slot = call[c].slot
             /\ \A d \in Callers \ {c} : call'[d] = call[d]
  <2> DEFINE x == call[c]
  <2>1. /\ DOMAIN call' = Callers /\ \A d \in Callers \ {c} : call'[d] = call[d]
        /\ call'[c] = [x EXCEPT !.at = "returned", !.outcome = outcome]
    BY <1>2 DEF SlotInv, Returns
  <2>2. x = [at |-> x.at, slot |-> x.slot, outcome |-> x.outcome]
    BY DEF SlotInv, IsCall
  <2>3. call'[c] = [at |-> "returned", slot |-> x.slot, outcome |-> outcome]
    BY <2>1, <2>2, Zenon
  <2>4. QED
    BY <2>1, <2>3, Zenon DEF SlotInv, IsCall
<1>3. QED
  BY <1>1, <1>2

\* The first transaction gives a slot to a call only when no call holds it.
LEMMA OpensSlot ==
  ASSUME SlotInv, NEW c \in Callers, NEW s,
         SelectOrInsert(c, s) \/ InsertUnconfirmed(c, s)
  PROVE  SlotInv'
<1>1. CASE SelectOrInsert(c, s)
  <2> DEFINE new == CASE row[s] = "receipt" -> [at |-> "returned", slot |-> s, outcome |-> "ok"]
                      [] row[s] = "marker"  -> [at |-> "returned", slot |-> s, outcome |-> "uncertain"]
                      [] OTHER              -> [at |-> "dispatch", slot |-> s, outcome |-> "none"]
  <2>1. /\ IsCall(new) /\ new.slot = s
        /\ new.at = IF row[s] \in {"receipt", "marker"} THEN "returned" ELSE "dispatch"
    BY DEF IsCall
  <2>2. call' = [call EXCEPT ![c] = new]
    BY <1>1 DEF SelectOrInsert
  <2>3. /\ DOMAIN call' = Callers /\ \A d \in Callers : IsCall(call'[d])
        /\ call'[c] = new /\ \A d \in Callers \ {c} : call'[d] = call[d]
    BY <2>1, <2>2, OneCallMoves, Zenon
  <2> HIDE DEF new
  <2>4. row' \in [Slots -> {"none", "marker", "receipt"}] /\ performed' = performed
    BY <1>1, Zenon DEF SelectOrInsert, SlotInv
  <2>5. \A t \in Slots : row'[t] = IF t = s /\ row[t] = "none" THEN "marker" ELSE row[t]
    BY <1>1 DEF SelectOrInsert, SlotInv
  <2>6. QED
    BY <2>1, <2>3, <2>4, <2>5 DEF SlotInv, Active
<1>2. CASE InsertUnconfirmed(c, s)
  <2> DEFINE new == [at |-> "returned", slot |-> s, outcome |-> "no_effect"]
  <2>1. IsCall(new) /\ new.at = "returned"
    BY DEF IsCall
  <2>2. call' = [call EXCEPT ![c] = new]
    BY <1>2 DEF InsertUnconfirmed
  <2>3. /\ DOMAIN call' = Callers /\ \A d \in Callers : IsCall(call'[d])
        /\ call'[c] = new /\ \A d \in Callers \ {c} : call'[d] = call[d]
    BY <2>1, <2>2, OneCallMoves, Zenon
  <2> HIDE DEF new
  <2>4. row' \in [Slots -> {"none", "marker", "receipt"}] /\ performed' = performed
    BY <1>2, Zenon DEF InsertUnconfirmed, SlotInv
  <2>5. \A t \in Slots : row'[t] = row[t] \/ (row[t] = "none" /\ row'[t] = "marker")
    <3>1. PICK stored \in {"none", "marker"} : row' = [row EXCEPT ![s] = stored]
      BY <1>2, Zenon DEF InsertUnconfirmed
    <3>2. row[s] = "none" /\ row \in [Slots -> {"none", "marker", "receipt"}]
      BY <1>2 DEF InsertUnconfirmed, SlotInv
    <3>3. QED
      BY <3>1, <3>2
  <2>6. QED
    BY <2>1, <2>3, <2>4, <2>5 DEF SlotInv, Active
<1>3. QED
  BY <1>1, <1>2

\* The steps after it keep the slot, or give it up with its row in order.
LEMMA KeepsSlot ==
  ASSUME SlotInv, NEW c \in Callers, NEW b, ExecuteStep(c, b)
  PROVE  SlotInv'
<1> DEFINE Advances(stage) == /\ DOMAIN call' = Callers /\ \A d \in Callers : IsCall(call'[d])
                              /\ call'[c].at = stage /\ call'[c].slot = call[c].slot
                              /\ \A d \in Callers \ {c} : call'[d] = call[d]
<1>0. row \in [Slots -> {"none", "marker", "receipt"}] /\ performed \in [Slots -> Nat]
  BY DEF SlotInv
<1>1. CASE NotStarted(c) \/ Start(c, b)
  <2>1. \E stage \in {"withdraw", "running"} : Advances(stage)
    BY <1>1, OneCallAdvances DEF NotStarted, Start
  <2>2. call[c].at = "dispatch" /\ UNCHANGED <<row, performed>>
    BY <1>1 DEF NotStarted, Start
  <2>3. QED
    BY <2>1, <2>2 DEF SlotInv, Active
<1>2. CASE Succeed(c)
  <2>1. Advances("settle")
    BY <1>2, OneCallAdvances DEF Succeed
  <2>2. \A t \in Slots : performed'[t] = IF t = call[c].slot THEN performed[t] + 1 ELSE performed[t]
    BY <1>0, <1>2 DEF Succeed
  <2>3. row' = row /\ call[c].at = "running" /\ performed' \in [Slots -> Nat]
    <3>1. performed' = [performed EXCEPT ![call[c].slot] = performed[call[c].slot] + 1]
      BY <1>2 DEF Succeed
    <3>2. performed' \in [Slots -> Nat]
      BY <1>0, <3>1, ExceptType
    <3>3. QED
      BY <1>2, <3>2 DEF Succeed
  <2>4. QED
    BY <2>1, <2>2, <2>3 DEF SlotInv, Active
<1>3. CASE LoseOutcome(c)
  <2>1. Advances("returned")
    BY <1>3, OneCallAdvances DEF LoseOutcome
  <2>2. PICK done \in 0..1 : performed' = [performed EXCEPT ![call[c].slot] = @ + done]
    BY <1>3, Zenon DEF LoseOutcome
  <2>3. \A t \in Slots : performed'[t] = IF t = call[c].slot THEN performed[t] + done ELSE performed[t]
    BY <1>0, <2>2
  <2>4. row' = row /\ call[c].at = "running" /\ performed' \in [Slots -> Nat]
    <3>1. performed' = [performed EXCEPT ![call[c].slot] = performed[call[c].slot] + done]
      BY <2>2
    <3>2. performed' \in [Slots -> Nat]
      BY <1>0, <3>1, ExceptType
    <3>3. QED
      BY <1>3, <3>2 DEF LoseOutcome
  <2>5. QED
    BY <2>1, <2>3, <2>4 DEF SlotInv, Active
<1>4. CASE Withdraw(c)
  <2>1. Advances("returned")
    BY <1>4, OneCallAdvances DEF Withdraw
  <2>2. row' \in [Slots -> {"none", "marker", "receipt"}]
    BY <1>0, <1>4 DEF Withdraw
  <2>3. \A t \in Slots : t # call[c].slot => row'[t] = row[t]
    BY <1>0, <1>4 DEF Withdraw
  <2>4. performed' = performed /\ call[c].at = "withdraw"
    BY <1>4 DEF Withdraw
  <2>5. QED
    BY <2>1, <2>2, <2>3, <2>4 DEF SlotInv, Active
<1>5. CASE StoreReceipt(c)
  <2>1. Advances("returned")
    BY <1>5, OneCallAdvances DEF StoreReceipt
  <2>2. row' \in [Slots -> {"none", "marker", "receipt"}]
    BY <1>0, <1>5 DEF StoreReceipt
  <2>3. \A t \in Slots : row'[t] = row[t] \/ (t = call[c].slot /\ row'[t] = "receipt")
    BY <1>0, <1>5 DEF StoreReceipt
  <2>4. performed' = performed /\ call[c].at = "settle"
    BY <1>5 DEF StoreReceipt
  <2>5. QED
    BY <2>1, <2>2, <2>3, <2>4 DEF SlotInv, Active
<1>6. QED
  BY <1>1, <1>2, <1>3, <1>4, <1>5 DEF ExecuteStep

\* A step of the attempts keeps the slots in order: it is one of the broker's, or
\* takes the result of a call that returned, or loses the calls in a crash.
LEMMA SlotStep ==
  ASSUME AttemptInv, [Next]_vars
  PROVE  SlotInv'
<1>0. SlotInv
  BY DEF AttemptInv
<1>1. CASE UNCHANGED brokerVars
  BY <1>0, <1>1 DEF brokerVars, SlotInv, Active
<1>2. ASSUME NEW c \in Callers, CallBroker(c)
      PROVE  SlotInv'
  BY <1>0, <1>2, OpensSlot DEF CallBroker
<1>3. ASSUME NEW c \in Callers, BrokerStep(c)
      PROVE  SlotInv'
  BY <1>0, <1>3, KeepsSlot DEF BrokerStep
<1>4. ASSUME NEW c \in Callers, RecordEffect(c)
      PROVE  SlotInv'
  <2>1. IsCall(NoCall) /\ NoCall.at = "idle"
    BY DEF IsCall, NoCall
  <2>2. call' = [call EXCEPT ![c] = NoCall] /\ UNCHANGED <<row, performed>>
    BY <1>4 DEF RecordEffect
  <2>3. /\ DOMAIN call' = Callers /\ \A d \in Callers : IsCall(call'[d])
        /\ call'[c] = NoCall /\ \A d \in Callers \ {c} : call'[d] = call[d]
    BY <1>0, <2>1, <2>2, OneCallMoves, Zenon
  <2>4. QED
    BY <1>0, <2>1, <2>2, <2>3 DEF SlotInv, Active
<1>5. CASE Crash
  <2>1. IsCall(NoCall) /\ NoCall.at = "idle"
    BY DEF IsCall, NoCall
  <2>2. DOMAIN call' = Callers /\ (\A d \in Callers : call'[d] = NoCall) /\ UNCHANGED <<row, performed>>
    BY <1>5 DEF Crash
  <2>3. QED
    BY <1>0, <2>1, <2>2 DEF SlotInv, Active
<1>6. CASE Orchestrate \/ CancelRun \/ Resume
  <2>1. UNCHANGED brokerVars
    BY <1>6 DEF Orchestrate, CancelRun, Resume, Begin, RecordAttemptStart, Launch, AwaitTimesOut,
                CancelAttempt, Detach, AwaitStopped, SettleAttempt, Backoff, Apply
  <2>2. QED
    BY <1>1, <2>1
<1>7. ASSUME NEW c \in Callers, TimeoutPasses(c) \/ StartBody(c) \/ FailBeforeCall(c) \/ FinishBody(c)
      PROVE  SlotInv'
  BY <1>1, <1>7 DEF TimeoutPasses, StartBody, FailBeforeCall, FinishBody
<1>8. CASE UNCHANGED vars
  BY <1>1, <1>8 DEF vars
<1>9. QED
  BY <1>2, <1>3, <1>4, <1>5, <1>6, <1>7, <1>8 DEF Next, BodyStep

-----------------------------------------------------------------------------
\* The steps of the orchestrator that leave the bodies alone.
LEMMA OrchestratorMoves ==
  ASSUME AttemptInv,
         Begin \/ RecordAttemptStart \/ AwaitStopped \/ Backoff \/ Apply \/ Resume
  PROVE  resumes' \in Nat /\ BodyInv' /\ UnitInv' /\ (resumes' = 0 => FirstRunInv')
<1> USE DEF AttemptInv
<1>1. UNCHANGED <<brokerVars, body>>
  BY DEF Begin, RecordAttemptStart, AwaitStopped, Backoff, Apply, Resume
<1>2. BodyInv'
  BY <1>1 DEF BodyInv, brokerVars
<1>3. CASE Begin
  <2>1. /\ DOMAIN orch' = OrchFields /\ orch'.cancelled \in BOOLEAN /\ orch.at = "start"
        /\ orch'.at \in {"launch", "done"} /\ orch'.unit = orch.unit
        /\ UNCHANGED resumes
    BY <1>3 DEF Begin, UnitInv, OrchFields
  <2>2. QED
    BY <1>1, <1>2, <2>1 DEF UnitInv, HasUnit, FirstRunInv, Between, brokerVars
<1>4. CASE RecordAttemptStart
  <2>1. /\ DOMAIN orch' = OrchFields /\ orch'.cancelled \in BOOLEAN /\ orch.at = "record"
        /\ orch'.at = "launch" /\ orch'.unit = orch.unit /\ orch'.attempt = orch.attempt
        /\ UNCHANGED resumes
    BY <1>4 DEF RecordAttemptStart, GoTo, UnitInv, OrchFields
  <2>2. QED
    BY <1>1, <1>2, <2>1 DEF UnitInv, HasUnit, FirstRunInv, Between, brokerVars
<1>5. CASE AwaitStopped
  <2>1. /\ DOMAIN orch' = OrchFields /\ orch'.cancelled \in BOOLEAN /\ orch.at = "await" /\ Unit.stopped
        /\ orch'.at = "settle" /\ orch'.unit = orch.unit /\ orch'.attempt = orch.attempt
        /\ UNCHANGED resumes
    BY <1>5 DEF AwaitStopped, GoTo, UnitInv, OrchFields
  <2>2. QED
    BY <1>1, <1>2, <2>1 DEF UnitInv, HasUnit, FirstRunInv, Between, brokerVars, Unit, Shows
<1>6. CASE Backoff
  <2>1. /\ DOMAIN orch' = OrchFields /\ orch'.cancelled \in BOOLEAN /\ orch.at = "backoff"
        /\ orch'.at \in {"cancelled", "record"}
        /\ UNCHANGED resumes
    BY <1>6 DEF Backoff, UnitInv, OrchFields
  <2>2. QED
    BY <1>1, <1>2, <2>1 DEF UnitInv, HasUnit, FirstRunInv, Between, brokerVars
<1>7. CASE Apply
  <2>1. /\ DOMAIN orch' = OrchFields /\ orch'.cancelled \in BOOLEAN /\ orch.at = "save"
        /\ orch'.at = "done" /\ orch'.unit = orch.unit /\ orch'.attempt = orch.attempt
        /\ UNCHANGED resumes
    BY <1>7 DEF Apply, GoTo, UnitInv, OrchFields
  <2>2. QED
    BY <1>1, <1>2, <2>1 DEF UnitInv, HasUnit, FirstRunInv, Between, brokerVars
<1>8. CASE Resume
  <2>1. /\ DOMAIN orch' = OrchFields /\ orch'.cancelled \in BOOLEAN /\ orch'.at = "start"
        /\ resumes' = resumes + 1
    BY <1>8 DEF Resume, UnitInv, OrchFields
  <2>2. QED
    BY <1>1, <1>2, <2>1 DEF UnitInv, HasUnit
<1>9. QED
  BY <1>3, <1>4, <1>5, <1>6, <1>7, <1>8

\* What a timeout, a cancellation and a detachment leave alone in a body b.
Marked(b, new) ==
    /\ IsBody(new)
    /\ \A f \in {"at", "attempt", "outcome", "stopped", "committed", "uncertain"} : new[f] = b[f]

\* Setting one of a body's flags changes nothing else of it.
LEMMA FlagSet ==
  ASSUME NEW b, NEW new, NEW f \in {"expired", "settled", "timed_out", "detached", "cancelled"},
         IsBody(b), DOMAIN new = BodyFields, new[f] \in BOOLEAN,
         \A g \in BodyFields \ {f} : new[g] = b[g]
  PROVE  Marked(b, new)
<1>1. new.at = b.at
  BY DEF BodyFields
<1>2. IsBody(new)
  BY <1>1 DEF IsBody
<1>3. QED
  BY <1>2 DEF Marked, BodyFields

\* The steps that mark a body and let it run on.
LEMMA BodiesMarked ==
  ASSUME AttemptInv,
         \/ AwaitTimesOut \/ CancelAttempt \/ Detach \/ CancelRun
         \/ \E c \in Callers : TimeoutPasses(c)
  PROVE  resumes' \in Nat /\ BodyInv' /\ UnitInv' /\ (resumes' = 0 => FirstRunInv')
<1> USE DEF AttemptInv
<1>0. \A c \in Callers : IsBody(body[c])
  BY Zenon DEF BodyInv
<1>1. ASSUME UNCHANGED <<brokerVars, resumes>>, DOMAIN body' = Callers, DOMAIN orch' = OrchFields, orch'.cancelled \in BOOLEAN,
             \A c \in Callers : Marked(body[c], body'[c]),
             \A c \in Callers : body'[c].expired => body[c].expired \/ body[c].at # "done",
             orch'.unit = orch.unit, orch'.attempt = orch.attempt,
             orch'.at = orch.at \/ (HasUnit /\ orch'.at \in {"await", "cancel", "settle"}),
             HasUnit' => /\ orch'.at # "settle" => ~body'[orch.unit].detached
                         /\ orch'.at = "settle" => body'[orch.unit].stopped \/ body'[orch.unit].detached
      PROVE  resumes' \in Nat /\ BodyInv' /\ UnitInv' /\ (resumes' = 0 => FirstRunInv')
  <2>1. BodyInv'
    BY <1>1 DEF BodyInv, Marked, brokerVars
  <2>2. UnitInv'
    BY <1>1 DEF UnitInv, HasUnit, Unit
  <2>3. ASSUME resumes' = 0 PROVE FirstRunInv'
    <3>1. FirstRunInv /\ performed' = performed /\ call' = call
      BY <1>1, <2>3 DEF brokerVars
    <3>2. Between' = Between /\ HasUnit' = HasUnit
      BY <1>1 DEF Between, HasUnit
    <3>3. HasUnit => Shows(orch.unit)' = Shows(orch.unit)
      BY <1>1, <3>1 DEF Shows, Marked, UnitInv
    <3>4. QED
      BY <1>1, <3>1, <3>2, <3>3 DEF FirstRunInv, Marked
  <2>4. QED
    BY <1>1, <2>1, <2>2, <2>3
<1>2. CASE AwaitTimesOut
  <2>1. orch.unit \in Callers /\ ~Unit.stopped /\ orch.at = "await" /\ ~Unit.detached /\ HasUnit
    BY <1>2 DEF AwaitTimesOut, UnitInv, HasUnit
  <2>2. /\ DOMAIN body' = Callers /\ \A c \in Callers \ {orch.unit} : body'[c] = body[c]
        /\ body'[orch.unit] = [Unit EXCEPT !.settled = TRUE, !.timed_out = TRUE]
    BY <1>2, <2>1, Zenon DEF AwaitTimesOut, BodyInv, Unit
  <2>3. /\ DOMAIN orch' = OrchFields /\ orch'.cancelled \in BOOLEAN
        /\ orch'.at = "cancel" /\ orch'.unit = orch.unit /\ orch'.attempt = orch.attempt
    BY <1>2 DEF AwaitTimesOut, GoTo, UnitInv, OrchFields
  <2>4. Marked(Unit, body'[orch.unit]) /\ \A f \in {"detached", "expired"} : body'[orch.unit][f] = Unit[f]
    <3> DEFINE once == [Unit EXCEPT !.settled = TRUE]
               new  == [once EXCEPT !.timed_out = TRUE]
    <3>1. IsBody(Unit) /\ body'[orch.unit] = new
      BY <1>0, <2>1, <2>2 DEF Unit
    <3>2. /\ DOMAIN once = BodyFields /\ once["settled"] = TRUE
          /\ \A g \in BodyFields \ {"settled"} : once[g] = Unit[g]
      BY <3>1 DEF IsBody, BodyFields
    <3>3. Marked(Unit, once)
      BY <3>1, <3>2, FlagSet, Zenon
    <3> HIDE DEF once
    <3>4. IsBody(once)
      BY <3>3 DEF Marked
    <3>5. /\ DOMAIN new = BodyFields /\ new["timed_out"] = TRUE
          /\ \A g \in BodyFields \ {"timed_out"} : new[g] = once[g]
      BY <3>4 DEF IsBody, BodyFields
    <3> HIDE DEF new
    <3>6. Marked(once, new)
      BY <3>4, <3>5, FlagSet, Zenon
    <3>7. QED
      BY <3>1, <3>2, <3>3, <3>5, <3>6 DEF Marked, BodyFields
  <2>5. \A c \in Callers : Marked(body[c], body'[c])
    BY <1>0, <2>2, <2>4, Zenon DEF Marked, Unit
  <2>6. QED
    BY <1>1, <1>2, <2>1, <2>2, <2>3, <2>4, <2>5, Zenon DEF AwaitTimesOut, Unit
<1>3. CASE CancelAttempt
  <2>1. orch.unit \in Callers /\ orch.at = "cancel" /\ ~Unit.detached /\ HasUnit
    BY <1>3 DEF CancelAttempt, UnitInv, HasUnit
  <2>2. /\ DOMAIN body' = Callers /\ \A c \in Callers \ {orch.unit} : body'[c] = body[c]
        /\ body'[orch.unit] = [Unit EXCEPT !.cancelled = TRUE]
    BY <1>3, <2>1, Zenon DEF CancelAttempt, BodyInv, Unit
  <2>3. /\ DOMAIN orch' = OrchFields /\ orch'.cancelled \in BOOLEAN
        /\ orch'.at = "await" /\ orch'.unit = orch.unit /\ orch'.attempt = orch.attempt
    BY <1>3 DEF CancelAttempt, UnitInv, OrchFields
  <2>4. Marked(Unit, body'[orch.unit]) /\ \A f \in {"detached", "expired"} : body'[orch.unit][f] = Unit[f]
    <3> DEFINE new == [Unit EXCEPT !.cancelled = TRUE]
    <3>1. IsBody(Unit) /\ body'[orch.unit] = new
      BY <1>0, <2>1, <2>2 DEF Unit
    <3>2. /\ DOMAIN new = BodyFields /\ new["cancelled"] = TRUE
          /\ \A g \in BodyFields \ {"cancelled"} : new[g] = Unit[g]
      BY <3>1 DEF IsBody, BodyFields
    <3> HIDE DEF new
    <3>3. Marked(Unit, new)
      BY <3>1, <3>2, FlagSet, Zenon
    <3>4. QED
      BY <3>1, <3>2, <3>3 DEF BodyFields
  <2>5. \A c \in Callers : Marked(body[c], body'[c])
    BY <1>0, <2>2, <2>4, Zenon DEF Marked, Unit
  <2>6. QED
    BY <1>1, <1>3, <2>1, <2>2, <2>3, <2>4, <2>5 DEF CancelAttempt, Unit
<1>4. CASE Detach
  <2>1. orch.unit \in Callers /\ orch.at = "await" /\ HasUnit
    BY <1>4 DEF Detach, UnitInv, HasUnit
  <2>2. /\ DOMAIN body' = Callers /\ \A c \in Callers \ {orch.unit} : body'[c] = body[c]
        /\ body'[orch.unit] = [Unit EXCEPT !.detached = TRUE]
    BY <1>4, <2>1, Zenon DEF Detach, BodyInv, Unit
  <2>3. /\ DOMAIN orch' = OrchFields /\ orch'.cancelled \in BOOLEAN
        /\ orch'.at = "settle" /\ orch'.unit = orch.unit /\ orch'.attempt = orch.attempt
    BY <1>4 DEF Detach, GoTo, UnitInv, OrchFields
  <2>4. Marked(Unit, body'[orch.unit]) /\ body'[orch.unit].detached /\ body'[orch.unit].expired = Unit.expired
    <3> DEFINE new == [Unit EXCEPT !.detached = TRUE]
    <3>1. IsBody(Unit) /\ body'[orch.unit] = new
      BY <1>0, <2>1, <2>2 DEF Unit
    <3>2. /\ DOMAIN new = BodyFields /\ new["detached"] = TRUE
          /\ \A g \in BodyFields \ {"detached"} : new[g] = Unit[g]
      BY <3>1 DEF IsBody, BodyFields
    <3> HIDE DEF new
    <3>3. Marked(Unit, new)
      BY <3>1, <3>2, FlagSet, Zenon
    <3>4. QED
      BY <3>1, <3>2, <3>3 DEF BodyFields
  <2>5. \A c \in Callers : Marked(body[c], body'[c])
    BY <1>0, <2>2, <2>4, Zenon DEF Marked, Unit
  <2>6. QED
    BY <1>1, <1>4, <2>1, <2>2, <2>3, <2>4, <2>5 DEF Detach, Unit
<1>5. CASE CancelRun
  <2>1. /\ DOMAIN body' = Callers
        /\ \A c \in Callers : body'[c] \in {body[c], [body[c] EXCEPT !.cancelled = TRUE]}
    BY <1>5 DEF CancelRun
  <2>2. /\ DOMAIN orch' = OrchFields /\ orch'.cancelled \in BOOLEAN
        /\ orch'.at = orch.at /\ orch'.unit = orch.unit /\ orch'.attempt = orch.attempt
    BY <1>5 DEF CancelRun, UnitInv, OrchFields
  <2>3. \A c \in Callers : /\ Marked(body[c], body'[c])
                           /\ \A f \in {"detached", "expired"} : body'[c][f] = body[c][f]
    <3>1. TAKE c \in Callers
    <3>2. CASE body'[c] = body[c]
      BY <1>0, <3>2 DEF Marked
    <3>3. CASE body'[c] = [body[c] EXCEPT !.cancelled = TRUE]
      <4>1. /\ DOMAIN body'[c] = BodyFields /\ body'[c]["cancelled"] = TRUE
            /\ \A g \in BodyFields \ {"cancelled"} : body'[c][g] = body[c][g]
        BY <1>0, <3>3 DEF IsBody, BodyFields
      <4>2. Marked(body[c], body'[c])
        BY <1>0, <4>1, FlagSet, Zenon
      <4>3. QED
        BY <4>1, <4>2 DEF BodyFields
    <3>4. QED
      BY <2>1, <3>2, <3>3
  <2>4. HasUnit' => /\ orch'.at # "settle" => ~body'[orch.unit].detached
                    /\ orch'.at = "settle" => body'[orch.unit].stopped \/ body'[orch.unit].detached
    BY <2>2, <2>3 DEF HasUnit, UnitInv, Unit, Marked
  <2>5. QED
    BY <1>1, <1>5, <2>1, <2>2, <2>3, <2>4 DEF CancelRun
<1>6. ASSUME NEW c \in Callers, TimeoutPasses(c)
      PROVE  resumes' \in Nat /\ BodyInv' /\ UnitInv' /\ (resumes' = 0 => FirstRunInv')
  <2>1. /\ DOMAIN body' = Callers /\ \A d \in Callers \ {c} : body'[d] = body[d]
        /\ body'[c] = [body[c] EXCEPT !.expired = TRUE] /\ body[c].at # "done"
        /\ UNCHANGED <<brokerVars, orch, resumes>>
    BY <1>6 DEF TimeoutPasses, BodyInv
  <2>2. Marked(body[c], body'[c]) /\ body'[c].detached = body[c].detached
    BY <1>0, <2>1, ZenonT(60) DEF Marked, IsBody, BodyFields
  <2>3. \A d \in Callers : Marked(body[d], body'[d]) /\ body'[d].detached = body[d].detached
    BY <1>0, <2>1, <2>2, Zenon DEF Marked
  <2>4. HasUnit' => /\ orch'.at # "settle" => ~body'[orch.unit].detached
                    /\ orch'.at = "settle" => body'[orch.unit].stopped \/ body'[orch.unit].detached
    BY <2>1, <2>3 DEF HasUnit, UnitInv, Unit, Marked
  <2>5. QED
    BY <1>1, <2>1, <2>3, <2>4 DEF UnitInv
<1>7. QED
  BY <1>2, <1>3, <1>4, <1>5, <1>6

-----------------------------------------------------------------------------
\* A free strand.
LEMMA NoBodyIsBody ==
  /\ IsBody(NoBody) /\ NoBody.at = "free" /\ NoBody.outcome = "none"
  /\ ~NoBody.stopped /\ ~NoBody.detached
<1>1. DOMAIN NoBody = BodyFields
  BY DEF NoBody, BodyFields
<1>2. /\ NoBody.expired = FALSE /\ NoBody.settled = FALSE /\ NoBody.timed_out = FALSE
      /\ NoBody.stopped = FALSE /\ NoBody.detached = FALSE /\ NoBody.cancelled = FALSE
      /\ NoBody.committed = FALSE /\ NoBody.uncertain = FALSE
      /\ NoBody.at = "free" /\ NoBody.outcome = "none"
  BY DEF NoBody
<1>3. \A f \in BodyFields \ {"at", "attempt", "outcome"} : NoBody[f] \in BOOLEAN
  BY <1>2, Zenon DEF BodyFields
<1>4. QED
  BY <1>1, <1>2, <1>3 DEF IsBody, BodyStages

\* The next attempt is dispatched when no other body of the first run is left.
LEMMA Launches ==
  ASSUME AttemptInv, Launch
  PROVE  resumes' \in Nat /\ BodyInv' /\ UnitInv' /\ (resumes' = 0 => FirstRunInv')
<1> USE DEF AttemptInv
<1> DEFINE c == CHOOSE d \in Callers : body[d].at = "free"
           new == [NoBody EXCEPT !.at = "queued", !.attempt = orch.attempt, !.cancelled = orch.cancelled]
<1>1. c \in Callers /\ body[c].at = "free"
  BY DEF Launch
<1>2. /\ orch.at = "launch" /\ body' = [body EXCEPT ![c] = new]
      /\ orch' = [orch EXCEPT !.at = "await", !.unit = c, !.stop = FALSE]
      /\ UNCHANGED <<row, call, performed, resumes>>
  BY DEF Launch, brokerVars
<1> HIDE DEF c
<1>3. /\ IsBody(new) /\ new.at = "queued" /\ new.attempt = orch.attempt /\ new.outcome = "none"
      /\ ~new.stopped /\ ~new.detached
  <2>1. DOMAIN NoBody = BodyFields /\ orch.cancelled \in BOOLEAN
    BY NoBodyIsBody DEF IsBody, UnitInv
  <2>2. /\ DOMAIN new = BodyFields
        /\ new["at"] = "queued" /\ new["attempt"] = orch.attempt /\ new["cancelled"] = orch.cancelled
        /\ \A g \in BodyFields \ {"at", "attempt", "cancelled"} : new[g] = NoBody[g]
    BY <2>1, Zenon DEF BodyFields
  <2> HIDE DEF new
  <2>3. \A f \in BodyFields \ {"at", "attempt", "outcome"} : new[f] \in BOOLEAN
    BY <2>1, <2>2, NoBodyIsBody DEF IsBody
  <2>4. QED
    BY <2>2, <2>3, NoBodyIsBody DEF IsBody, BodyStages, BodyFields
<1> HIDE DEF new
<1>4. DOMAIN body' = Callers /\ body'[c] = new /\ \A d \in Callers \ {c} : body'[d] = body[d]
  BY <1>1, <1>2 DEF BodyInv
<1>5. DOMAIN orch' = OrchFields /\ orch'.cancelled \in BOOLEAN /\ orch'.at = "await" /\ orch'.unit = c /\ orch'.attempt = orch.attempt
  BY <1>2 DEF UnitInv, OrchFields
<1>6. BodyInv'
  BY <1>1, <1>2, <1>3, <1>4 DEF BodyInv
<1>7. UnitInv'
  BY <1>1, <1>3, <1>4, <1>5 DEF UnitInv, HasUnit, Unit
<1>8. ASSUME resumes' = 0 PROVE FirstRunInv'
  BY <1>2, <1>3, <1>4, <1>5, <1>8 DEF FirstRunInv, Between, HasUnit
<1>9. QED
  BY <1>2, <1>6, <1>7, <1>8

\* A settled attempt is retried only when it has stopped and shows no effect.
LEMMA Settles ==
  ASSUME AttemptInv, SettleAttempt
  PROVE  resumes' \in Nat /\ BodyInv' /\ UnitInv' /\ (resumes' = 0 => FirstRunInv')
<1> USE DEF AttemptInv
<1> DEFINE u == orch.unit
<1>1. u \in Callers /\ orch.at = "settle" /\ IsBody(Unit) /\ (Unit.stopped \/ Unit.detached)
  BY DEF SettleAttempt, UnitInv, HasUnit, Unit, BodyInv
<1>2. UNCHANGED <<row, call, performed, resumes>>
  BY DEF SettleAttempt, brokerVars
<1>3. /\ \E stage \in {"save", "cancelled", "paused", "failed", "backoff"} : EndAs(stage)
      /\ orch'.at = "backoff" => ~Unit.detached /\ ~Unit.committed /\ ~Unit.uncertain
  <2>0. \A stage : EndAs(stage) => orch'.at = stage
    BY DEF EndAs, GoTo, UnitInv, OrchFields
  <2>1. PICK outcome : Settle(outcome)
    BY DEF SettleAttempt
  <2>2. CASE outcome = "ok" /\ EndAs("save")
    BY <2>0, <2>2
  <2>3. CASE outcome = "cancelled" /\ EndAs("cancelled")
    BY <2>0, <2>3
  <2>4. CASE EndAs("paused")
    BY <2>0, <2>4
  <2>5. CASE GiveUp(~Unit.detached)
    BY <2>0, <2>5 DEF GiveUp
  <2>6. CASE Retryable /\ EndAs("backoff") /\ ~(~Unit.detached /\ Unit.uncertain)
    BY <2>0, <2>6 DEF Retryable
  <2>7. QED
    BY <2>1, <2>2, <2>3, <2>4, <2>5, <2>6 DEF Settle
<1>4. body' = [body EXCEPT ![u] = IF body[u].stopped THEN NoBody ELSE body[u]]
  BY <1>3 DEF EndAs, Release
<1>5. /\ DOMAIN orch' = OrchFields /\ orch'.cancelled \in BOOLEAN /\ orch'.unit = orch.unit
      /\ orch'.attempt = orch.attempt /\ orch'.at \in {"save", "cancelled", "paused", "failed", "backoff"}
  BY <1>3 DEF EndAs, GoTo, UnitInv, OrchFields
<1>6. /\ DOMAIN body' = Callers /\ \A d \in Callers \ {u} : body'[d] = body[d]
      /\ body'[u] = IF body[u].stopped THEN NoBody ELSE body[u]
  BY <1>1, <1>4 DEF BodyInv
<1>7. BodyInv'
  BY <1>1, <1>2, <1>6, NoBodyIsBody DEF BodyInv
<1>8. UnitInv'
  BY <1>5 DEF UnitInv, HasUnit
<1>9. ASSUME resumes' = 0 PROVE FirstRunInv'
  <2>1. FirstRunInv
    BY <1>2, <1>9
  <2>2. \A d \in Callers : body'[d].at # "free" => d = orch'.unit /\ body'[d].attempt = orch'.attempt
    BY <1>1, <1>5, <1>6, <2>1, NoBodyIsBody DEF FirstRunInv
  <2>3. ASSUME orch'.at = "backoff"
        PROVE  (\A d \in Callers : body'[d].at = "free") /\ (\A s \in Slots : performed'[s] = 0)
    <3>1. Unit.stopped /\ ~Shows(u)
      BY <1>1, <1>3, <2>3 DEF Shows, Unit, BodyInv
    <3>2. \A s \in Slots : performed'[s] = 0
      BY <1>1, <1>2, <2>1, <3>1 DEF FirstRunInv, HasUnit
    <3>3. body'[u].at = "free"
      BY <1>6, <3>1, NoBodyIsBody DEF Unit
    <3>4. QED
      BY <1>6, <2>1, <3>2, <3>3 DEF FirstRunInv
  <2>4. QED
    BY <1>2, <1>5, <2>1, <2>2, <2>3 DEF FirstRunInv, Between, HasUnit
<1>10. QED
  BY <1>2, <1>7, <1>8, <1>9

\* A crash ends every body and every call.
LEMMA Crashes ==
  ASSUME AttemptInv, Crash
  PROVE  resumes' \in Nat /\ BodyInv' /\ UnitInv' /\ (resumes' = 0 => FirstRunInv')
<1> USE DEF AttemptInv
<1>1. /\ DOMAIN orch' = OrchFields /\ orch'.cancelled \in BOOLEAN /\ orch'.at = "crashed"
      /\ orch'.unit = orch.unit /\ orch'.attempt = orch.attempt
  BY DEF Crash, GoTo, UnitInv, OrchFields
<1>2. /\ DOMAIN body' = Callers /\ \A c \in Callers : body'[c] = NoBody
      /\ \A c \in Callers : call'[c] = NoCall
      /\ UNCHANGED <<performed, resumes>>
  BY DEF Crash
<1>3. NoCall.at = "idle"
  BY DEF NoCall
<1>4. BodyInv'
  BY <1>2, <1>3, NoBodyIsBody DEF BodyInv
<1>5. UnitInv'
  BY <1>1 DEF UnitInv, HasUnit
<1>6. resumes' = 0 => FirstRunInv'
  BY <1>1, <1>2, NoBodyIsBody DEF FirstRunInv, Between, HasUnit
<1>7. QED
  BY <1>2, <1>4, <1>5, <1>6

-----------------------------------------------------------------------------
\* finish() keeps what the attempt did, and takes a success only in time.
LEMMA FinishedBody ==
  ASSUME NEW b, NEW outcome, NEW new, IsBody(b), b.outcome # "ok", new = Finished(b, outcome)
  PROVE  /\ IsBody(new) /\ new.at = "done" /\ new.stopped
         /\ new.attempt = b.attempt /\ new.detached = b.detached /\ new.expired = b.expired
         /\ new.committed = b.committed /\ new.uncertain = b.uncertain
         /\ new.outcome = "ok" => ~new.expired
<1> DEFINE timed == IF b.settled THEN b.timed_out ELSE b.expired
           kept  == IF b.settled \/ b.expired THEN b.outcome ELSE outcome
<1>1. new = [b EXCEPT !.at = "done", !.stopped = TRUE, !.settled = TRUE, !.timed_out = timed, !.outcome = kept]
  BY DEF Finished
<1>2. timed \in BOOLEAN /\ (kept = "ok" => ~b.expired)
  BY DEF IsBody, BodyFields
<1> HIDE DEF timed, kept
<1>3. /\ DOMAIN new = BodyFields /\ new["at"] = "done" /\ new["stopped"] = TRUE /\ new["settled"] = TRUE
      /\ new["timed_out"] = timed /\ new["outcome"] = kept
      /\ \A g \in BodyFields \ {"at", "stopped", "settled", "timed_out", "outcome"} : new[g] = b[g]
  BY <1>1, Zenon DEF IsBody, BodyFields
<1>4. \A g \in BodyFields \ {"at", "attempt", "outcome"} : new[g] \in BOOLEAN
  BY <1>2, <1>3, Zenon DEF IsBody
<1>5. QED
  BY <1>2, <1>3, <1>4 DEF IsBody, BodyFields, BodyStages

\* What the body of c becomes in a step of node code that makes no call.
NodeStep(c) ==
    /\ UNCHANGED <<row, call, performed, orch, resumes>>
    /\ DOMAIN body' = Callers /\ \A d \in Callers \ {c} : body'[d] = body[d]
    /\ body[c].at \notin {"free", "call", "done"}
    /\ IsBody(body'[c])
    /\ body'[c].outcome = "ok" => body'[c].at = "done" /\ ~body'[c].expired
    /\ body'[c].stopped => body'[c].at = "done"
    /\ body'[c].at # "call"
    /\ \/ /\ body[c].detached /\ ~(orch.at = "settle" /\ orch.unit = c)
          /\ body'[c].at = "free"
       \/ /\ \A f \in {"attempt", "detached", "committed", "uncertain"} : body'[c][f] = body[c][f]
          /\ body[c].stopped => body'[c].stopped

\* Such a step keeps the invariants.
LEMMA NodeStepKeeps ==
  ASSUME AttemptInv, NEW c \in Callers, NodeStep(c)
  PROVE  resumes' \in Nat /\ BodyInv' /\ UnitInv' /\ (resumes' = 0 => FirstRunInv')
<1> USE DEF AttemptInv
<1>1. BodyInv'
  BY DEF NodeStep, BodyInv
<1>2. UnitInv'
  <2>1. CASE HasUnit /\ orch.unit = c
    <3>1. ~(body[c].detached /\ ~(orch.at = "settle" /\ orch.unit = c))
      BY <2>1 DEF HasUnit, UnitInv, Unit
    <3>2. body'[c].detached = body[c].detached /\ (body[c].stopped => body'[c].stopped)
      BY <3>1 DEF NodeStep
    <3>3. QED
      BY <2>1, <3>2 DEF UnitInv, HasUnit, Unit, NodeStep
  <2>2. CASE ~HasUnit \/ orch.unit # c
    BY <2>2, SMTT(30) DEF UnitInv, HasUnit, Unit, NodeStep
  <2>3. QED
    BY <2>1, <2>2
<1>3. ASSUME resumes' = 0 PROVE FirstRunInv'
  <2>1. FirstRunInv /\ c = orch.unit /\ body[c].attempt = orch.attempt /\ ~Between
    BY <1>3 DEF FirstRunInv, NodeStep, Between
  <2>2. HasUnit => (Shows(orch.unit) => Shows(orch.unit)')
    <3>1. ASSUME HasUnit PROVE ~(body[c].detached /\ ~(orch.at = "settle" /\ orch.unit = c))
      BY <2>1, <3>1 DEF HasUnit, UnitInv, Unit
    <3>2. QED
      BY <2>1, <3>1 DEF NodeStep, Shows
  <2>3. \A d \in Callers : body'[d].at # "free" => d = orch'.unit /\ body'[d].attempt = orch'.attempt
    BY <2>1 DEF NodeStep, FirstRunInv
  <2>4. QED
    BY <2>1, <2>2, <2>3, SMTT(30) DEF FirstRunInv, NodeStep, Between, HasUnit
<1>4. QED
  BY <1>1, <1>2, <1>3 DEF NodeStep

\* The steps of node code are such steps.
LEMMA NodeSteps ==
  ASSUME AttemptInv, NEW c \in Callers, StartBody(c) \/ FailBeforeCall(c) \/ FinishBody(c)
  PROVE  NodeStep(c)
<1> USE DEF AttemptInv
<1>0. IsBody(body[c]) /\ DOMAIN body = Callers
  BY DEF BodyInv
<1>1. body[c].at \in {"queued", "before", "after"} /\ UNCHANGED <<row, call, performed, orch, resumes>>
  BY DEF StartBody, FailBeforeCall, FinishBody, brokerVars
<1>2. body[c].outcome # "ok" /\ ~body[c].stopped
  BY <1>0, <1>1 DEF BodyInv
<1>3. ASSUME NEW outcome, Stopped(c, outcome) PROVE NodeStep(c)
  <2> DEFINE new == IF body[c].detached /\ ~(orch.at = "settle" /\ orch.unit = c)
                    THEN NoBody ELSE Finished(body[c], outcome)
  <2>1. DOMAIN body' = Callers /\ body'[c] = new /\ \A d \in Callers \ {c} : body'[d] = body[d]
    BY <1>0, <1>3 DEF Stopped
  <2>2. CASE body[c].detached /\ ~(orch.at = "settle" /\ orch.unit = c)
    BY <1>0, <1>1, <2>1, <2>2, NoBodyIsBody DEF NodeStep
  <2>3. CASE ~(body[c].detached /\ ~(orch.at = "settle" /\ orch.unit = c))
    <3>1. body'[c] = Finished(body[c], outcome)
      BY <2>1, <2>3
    <3> HIDE DEF new
    <3>2. /\ IsBody(body'[c]) /\ body'[c].at = "done" /\ body'[c].stopped
          /\ body'[c].attempt = body[c].attempt /\ body'[c].detached = body[c].detached
          /\ body'[c].committed = body[c].committed /\ body'[c].uncertain = body[c].uncertain
          /\ body'[c].outcome = "ok" => ~body'[c].expired
      BY <1>0, <1>2, <3>1, FinishedBody
    <3>3. QED
      BY <1>1, <2>1, <3>2 DEF NodeStep
  <2>4. QED
    BY <2>2, <2>3
<1>4. CASE body' = [body EXCEPT ![c].at = "before"]
  <2>1. /\ DOMAIN body' = Callers /\ \A d \in Callers \ {c} : body'[d] = body[d]
        /\ body'[c] = [body[c] EXCEPT !.at = "before"]
    BY <1>0, <1>4
  <2>2. DOMAIN body'[c] = BodyFields /\ body'[c]["at"] = "before" /\ \A g \in BodyFields \ {"at"} : body'[c][g] = body[c][g]
    BY <1>0, <2>1 DEF IsBody, BodyFields
  <2>3. IsBody(body'[c])
    BY <1>0, <2>2 DEF IsBody, BodyStages
  <2>4. QED
    BY <1>1, <1>2, <2>1, <2>2, <2>3 DEF NodeStep, BodyFields
<1>5. QED
  BY <1>3, <1>4 DEF StartBody, FailBeforeCall, FinishBody

-----------------------------------------------------------------------------
\* What a step of c's call does to the call and to the effects of its slot.
CallStep(c) ==
    /\ UNCHANGED <<orch, resumes>>
    /\ DOMAIN body' = Callers /\ \A d \in Callers \ {c} : body'[d] = body[d] /\ call'[d] = call[d]
    /\ IsBody(body'[c]) /\ body[c].at \in {"before", "call"} /\ body'[c].at \in {"call", "after"}
    /\ \A f \in {"attempt", "detached", "outcome", "stopped"} : body'[c][f] = body[c][f]
    /\ body'[c].at = "call" => call'[c].slot = body'[c].attempt
    /\ body'[c].at = "after" => call'[c].at = "idle"
    /\ \A s \in Slots : performed'[s] = performed[s] \/ (s = body[c].attempt /\ performed'[s] > 0)
    /\ performed' # performed => Shows(c)'
    /\ Shows(c) => Shows(c)'

\* Such a step keeps the invariants.
LEMMA CallStepKeeps ==
  ASSUME AttemptInv, NEW c \in Callers, CallStep(c)
  PROVE  resumes' \in Nat /\ BodyInv' /\ UnitInv' /\ (resumes' = 0 => FirstRunInv')
<1> USE DEF AttemptInv
<1>1. BodyInv'
  BY DEF CallStep, BodyInv
<1>2. UnitInv'
  BY SMTT(30) DEF CallStep, UnitInv, HasUnit, Unit
<1>3. ASSUME resumes' = 0 PROVE FirstRunInv'
  <2>1. FirstRunInv /\ c = orch.unit /\ body[c].attempt = orch.attempt /\ ~Between
    BY <1>3 DEF FirstRunInv, CallStep, Between
  <2>2. \A d \in Callers : body'[d].at # "free" => d = orch'.unit /\ body'[d].attempt = orch'.attempt
    BY <2>1 DEF CallStep, FirstRunInv
  <2>3. \A s \in Slots : performed'[s] > 0 => s = orch'.attempt
    BY <2>1 DEF CallStep, FirstRunInv
  <2>4. HasUnit' => Shows(orch.unit)' \/ \A s \in Slots : performed'[s] = 0
    BY <2>1 DEF CallStep, FirstRunInv, HasUnit
  <2>5. QED
    BY <2>1, <2>2, <2>3, <2>4 DEF FirstRunInv, CallStep, Between
<1>4. QED
  BY <1>1, <1>2, <1>3 DEF CallStep

\* The three kinds of step around and inside execute() are such steps.
LEMMA CallSteps ==
  ASSUME AttemptInv, NEW c \in Callers, CallBroker(c) \/ BrokerStep(c) \/ RecordEffect(c)
  PROVE  CallStep(c)
<1> USE DEF AttemptInv
<1>0. /\ IsBody(body[c]) /\ DOMAIN body = Callers
      /\ DOMAIN call = Callers /\ IsCall(call[c]) /\ performed \in [Slots -> Nat]
  BY DEF BodyInv, SlotInv
<1>1. CASE CallBroker(c)
  <2>1. /\ body' = [body EXCEPT ![c].at = "call"] /\ body[c].at = "before"
        /\ UNCHANGED <<performed, orch, resumes>>
    BY <1>1 DEF CallBroker, SelectOrInsert, InsertUnconfirmed
  <2>2. /\ DOMAIN body' = Callers /\ \A d \in Callers \ {c} : body'[d] = body[d]
        /\ body'[c] = [body[c] EXCEPT !.at = "call"]
    BY <1>0, <2>1
  <2>3. DOMAIN body'[c] = BodyFields /\ body'[c]["at"] = "call" /\ \A g \in BodyFields \ {"at"} : body'[c][g] = body[c][g]
    BY <1>0, <2>2 DEF IsBody, BodyFields
  <2>4. IsBody(body'[c])
    BY <1>0, <2>3 DEF IsBody, BodyStages
  <2>5. \A d \in Callers \ {c} : call'[d] = call[d]
    BY <1>0, <1>1 DEF CallBroker, SelectOrInsert, InsertUnconfirmed
  <2>6. call'[c].slot = body[c].attempt
    BY <1>0, <1>1 DEF CallBroker, SelectOrInsert, InsertUnconfirmed
  <2>7. Shows(c) => Shows(c)'
    BY <2>1, <2>3 DEF Shows, BodyFields
  <2>8. QED
    BY <2>1, <2>2, <2>3, <2>4, <2>5, <2>6, <2>7 DEF CallStep, BodyFields
<1>2. CASE BrokerStep(c)
  <2>1. body[c].at = "call" /\ UNCHANGED <<orch, body, resumes>> /\ ExecuteStep(c, body[c].cancelled)
    BY <1>2 DEF BrokerStep
  <2>2. call[c].slot = body[c].attempt
    BY <2>1, SMTT(30) DEF BodyInv
  <2>3. ASSUME NEW stage, At(c, stage), UNCHANGED performed, call[c].at \in {"dispatch"} PROVE CallStep(c)
    <3>1. call'[c].slot = call[c].slot /\ \A d \in Callers \ {c} : call'[d] = call[d]
      BY <2>3, OneCallAdvances
    <3>2. QED
      BY <1>0, <2>1, <2>2, <2>3, <3>1 DEF CallStep, Shows
  <2>4. CASE Succeed(c)
    <3>1. call'[c].at = "settle" /\ call'[c].slot = call[c].slot /\ \A d \in Callers \ {c} : call'[d] = call[d]
      BY <2>4, OneCallAdvances DEF Succeed
    <3>2. \A s \in Slots : performed'[s] = performed[s] \/ (s = body[c].attempt /\ performed'[s] > 0)
      BY <1>0, <2>2, <2>4, SMTT(30) DEF Succeed
    <3>3. QED
      BY <1>0, <2>1, <2>2, <3>1, <3>2, SMTT(30) DEF CallStep, Shows
  <2>5. ASSUME NEW outcome \in {"ok", "uncertain"}, Returns(c, outcome),
               \A s \in Slots : performed'[s] = performed[s] \/ (s = body[c].attempt /\ performed'[s] > 0)
        PROVE  CallStep(c)
    <3>1. call'[c].at = "returned" /\ call'[c].slot = call[c].slot /\ \A d \in Callers \ {c} : call'[d] = call[d]
      BY <2>5, OneCallAdvances
    <3>2. call'[c].outcome = outcome
      BY <1>0, <2>5 DEF Returns, IsCall
    <3>3. QED
      BY <1>0, <2>1, <2>2, <2>5, <3>1, <3>2, SMTT(30) DEF CallStep, Shows
  <2>6. CASE LoseOutcome(c)
    <3>1. PICK done \in 0..1 : performed' = [performed EXCEPT ![call[c].slot] = @ + done]
      BY <2>6, Zenon DEF LoseOutcome
    <3>2. \A s \in Slots : performed'[s] = performed[s] \/ (s = body[c].attempt /\ performed'[s] > 0)
      BY <1>0, <2>2, <3>1
    <3>3. QED
      BY <2>5, <2>6, <3>2 DEF LoseOutcome
  <2>7. CASE StoreReceipt(c)
    BY <2>5, <2>7 DEF StoreReceipt
  <2>8. CASE Withdraw(c)
    <3>1. call'[c].slot = call[c].slot /\ \A d \in Callers \ {c} : call'[d] = call[d]
      BY <2>8, OneCallAdvances DEF Withdraw
    <3>2. call[c].at = "withdraw" /\ UNCHANGED performed
      BY <2>8 DEF Withdraw
    <3>3. QED
      BY <1>0, <2>1, <2>2, <3>1, <3>2 DEF CallStep, Shows
  <2>9. QED
    BY <2>1, <2>3, <2>4, <2>6, <2>7, <2>8 DEF ExecuteStep, NotStarted, Start
<1>3. CASE RecordEffect(c)
  <2> DEFINE done == body[c].committed \/ call[c].outcome = "ok"
             lost == body[c].uncertain \/ call[c].outcome = "uncertain"
  <2>1. /\ DOMAIN body' = Callers /\ \A d \in Callers \ {c} : body'[d] = body[d]
        /\ body'[c] = [body[c] EXCEPT !.at = "after", !.committed = done, !.uncertain = lost]
        /\ body[c].at = "call" /\ call[c].at = "returned"
        /\ UNCHANGED <<performed, orch, resumes>>
    BY <1>0, <1>3 DEF RecordEffect
  <2>2. done \in BOOLEAN /\ lost \in BOOLEAN
    OBVIOUS
  <2>3. /\ DOMAIN body'[c] = BodyFields /\ body'[c]["at"] = "after"
        /\ body'[c]["committed"] = done /\ body'[c]["uncertain"] = lost
        /\ \A g \in BodyFields \ {"at", "committed", "uncertain"} : body'[c][g] = body[c][g]
    BY <1>0, <2>1, Zenon DEF IsBody, BodyFields
  <2>4. IsBody(body'[c])
    BY <1>0, <2>2, <2>3, Zenon DEF IsBody, BodyStages
  <2>5. call'[c].at = "idle" /\ \A d \in Callers \ {c} : call'[d] = call[d]
    BY <1>0, <1>3 DEF RecordEffect, NoCall
  <2>6. Shows(c) => Shows(c)'
    BY <2>1, <2>3, Zenon DEF Shows, BodyFields
  <2>7. QED
    BY <1>0, <2>1, <2>3, <2>4, <2>5, <2>6 DEF CallStep, BodyFields
<1>4. QED
  BY <1>1, <1>2, <1>3, SMTT(30)

-----------------------------------------------------------------------------
\* The initial states satisfy the invariant.
LEMMA AttemptInit == Init => AttemptInv
<1> SUFFICES ASSUME Init PROVE AttemptInv
  OBVIOUS
<1>1. NoCall.at = "idle" /\ IsCall(NoCall)
  BY DEF NoCall, IsCall
<1>2. SlotInv
  BY <1>1 DEF Init, BrokerInit, SlotInv, Active
<1>3. BodyInv
  BY <1>1, NoBodyIsBody DEF Init, BrokerInit, BodyInv
<1>4. UnitInv
  BY DEF Init, UnitInv, HasUnit, OrchFields
<1>5. FirstRunInv
  <2>1. orch.at = "start" /\ (\A c \in Callers : body[c].at = "free") /\ (\A s \in Slots : performed[s] = 0)
    BY NoBodyIsBody DEF Init, BrokerInit
  <2>2. QED
    BY <2>1 DEF FirstRunInv, HasUnit
<1>6. QED
  BY <1>2, <1>3, <1>4, <1>5 DEF Init, AttemptInv

\* Every step keeps it.
LEMMA AttemptStep == AttemptInv /\ [Next]_vars => AttemptInv'
<1> SUFFICES ASSUME AttemptInv, [Next]_vars PROVE AttemptInv'
  OBVIOUS
<1>0. SlotInv'
  BY SlotStep, SMTT(30)
<1>1. CASE UNCHANGED vars
  BY <1>0, <1>1 DEF vars, brokerVars, AttemptInv, BodyInv, UnitInv, FirstRunInv, HasUnit, Unit, Between, Shows
<1>2. CASE Next
  <2>1. resumes' \in Nat /\ BodyInv' /\ UnitInv' /\ (resumes' = 0 => FirstRunInv')
    BY <1>2, OrchestratorMoves, BodiesMarked, Launches, Settles, Crashes, NodeSteps, NodeStepKeeps,
       CallSteps, CallStepKeeps DEF Next, Orchestrate, BodyStep
  <2>2. QED
    BY <1>0, <2>1 DEF AttemptInv
<1>3. QED
  BY <1>1, <1>2

\* OncePerSlot: an effect is performed at most once in its slot, for any number of
\* bodies, retries and resumes (the broker's reservation of the slot).
THEOREM EffectsOncePerSlot == Spec => []OncePerSlot
<1>1. AttemptInv => OncePerSlot
  BY DEF AttemptInv, SlotInv, OncePerSlot
<1>2. QED
  BY <1>1, AttemptInit, AttemptStep, PTL DEF Spec

\* OncePerRun: an effect is performed at most once over all the attempts of a run that
\* is neither crashed nor resumed, bodies that outlive their timeout included.
THEOREM EffectsOncePerRun == Spec => []OncePerRun
<1>1. AttemptInv => OncePerRun
  BY DEF AttemptInv, FirstRunInv, OncePerRun
<1>2. QED
  BY <1>1, AttemptInit, AttemptStep, PTL DEF Spec

\* The body that supplies the result of an invocation returned before its timeout.
THEOREM LateBodiesDiscarded == Spec => LateResultsDiscarded
<1>1. AttemptInv /\ [Next]_vars => [result = "none" /\ result' = "ok" => ~Unit.expired]_vars
  <2> SUFFICES ASSUME AttemptInv, Next, result = "none", result' = "ok" PROVE ~Unit.expired
    BY DEF vars
  <2>1. SettleAttempt
    BY DEF Next, Orchestrate, BodyStep, Begin, RecordAttemptStart, Launch, AwaitTimesOut, CancelAttempt,
           Detach, AwaitStopped, Backoff, Apply, CancelRun, Crash, Resume, TimeoutPasses, StartBody,
           FailBeforeCall, CallBroker, BrokerStep, RecordEffect, FinishBody
  <2>2. orch.at = "settle" /\ orch.unit \in Callers
    BY <2>1 DEF SettleAttempt, AttemptInv, UnitInv, HasUnit
  <2>3. Unit.outcome = "ok"
    BY <2>1 DEF SettleAttempt, Settle, GiveUp
  <2>4. QED
    BY <2>2, <2>3 DEF AttemptInv, BodyInv, Unit
<1>2. QED
  BY <1>1, AttemptInit, AttemptStep, PTL DEF Spec, LateResultsDiscarded
=============================================================================
