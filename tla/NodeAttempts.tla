---------------------------- MODULE NodeAttempts ----------------------------
(***************************************************************************)
(* One node invocation of a super-step, over all its attempts: the         *)
(* dispatched attempt with its timeout, the retry loop, the durable rows a *)
(* resume reads, and the tool effect broker its body calls.                *)
(*                                                                         *)
(* The orchestrator is the coroutine that drives the step.  The body of an *)
(* attempt runs beside it on a worker strand, and may outlive the run: an  *)
(* attempt that does not stop by its stop deadline is detached, the run    *)
(* fails, and a resume starts a second body of the same attempt beside it. *)
(* A crash ends every body.  A checkpoint precedes the step, so attempt    *)
(* starts and the result are recorded under it.                            *)
(***************************************************************************)
EXTENDS ToolEffectBroker

CONSTANTS
    MaxRetries,   \* RetryPolicy::max_retries
    MaxResumes,   \* bound: how often the invocation is crashed or resumed
    Repeatable    \* a resumed body reaches its tool call again before it can
                  \* fail by itself; FALSE is any node code

\* Attempt k calls the broker in its own effect namespace.
Attempts == 0..MaxRetries

VARIABLES
    started,      \* durable: attempts k >= 1 whose start was recorded
    result,       \* durable: the recorded result, "none", "ok" or "routed"
    orch,         \* the orchestrator
    body,         \* the dispatched attempts, one per worker strand
    resumes       \* counts resumes against MaxResumes

vars == <<brokerVars, started, result, orch, body, resumes>>

-----------------------------------------------------------------------------
NoBody ==
    [at |-> "free", attempt |-> 0, expired |-> FALSE, settled |-> FALSE,
     timed_out |-> FALSE, stopped |-> FALSE, detached |-> FALSE,
     cancelled |-> FALSE, outcome |-> "none",
     committed |-> FALSE, uncertain |-> FALSE]

\* "queued" on the strand, in node code "before" the tool call, in the broker's
\* "call", in node code "after" it, and "done".
BodyStages   == {"free", "queued", "before", "call", "after", "done"}
BodyOutcomes == {"none", "ok", "error", "interrupt", "cancelled"}

Running == {"start", "record", "launch", "await", "cancel", "settle", "backoff", "save"}
Ended   == {"done", "failed", "paused", "cancelled", "crashed"}

TypeOK ==
    /\ BrokerTypeOK
    /\ started \subseteq 1..MaxRetries
    /\ result \in {"none", "ok", "routed"}
    /\ orch \in [at : Running \cup Ended, attempt : Attempts, first : Attempts,
                 unit : Callers, cancelled : BOOLEAN, stop : BOOLEAN]
    /\ body \in [Callers ->
                   [at : BodyStages, attempt : Attempts, expired : BOOLEAN,
                    settled : BOOLEAN, timed_out : BOOLEAN, stopped : BOOLEAN,
                    detached : BOOLEAN, cancelled : BOOLEAN, outcome : BodyOutcomes,
                    committed : BOOLEAN, uncertain : BOOLEAN]]
    /\ resumes \in 0..MaxResumes

Init ==
    /\ BrokerInit
    /\ started = {}
    /\ result = "none"
    /\ orch = [at |-> "start", attempt |-> 0, first |-> 0,
               unit |-> CHOOSE c \in Callers : TRUE, cancelled |-> FALSE, stop |-> FALSE]
    /\ body = [c \in Callers |-> NoBody]
    /\ resumes = 0

Unit        == body[orch.unit]
GoTo(stage) == orch' = [orch EXCEPT !.at = stage]

-----------------------------------------------------------------------------
(***************************************************************************)
(* The retry loop around the attempts.                                     *)
(***************************************************************************)

\* The latest attempt whose start was recorded without a gap before it.
ResumedFirstAttempt ==
    CHOOSE a \in Attempts : /\ \A k \in 1..a : k \in started
                            /\ a + 1 \notin started

LastAttempt == IF orch.first > MaxRetries THEN orch.first ELSE MaxRetries

\* A recorded result is replayed; otherwise the first attempt is prepared.
Begin ==
    /\ orch.at = "start"
    /\ orch' = IF result /= "none"
               THEN [orch EXCEPT !.at = "done"]
               ELSE [orch EXCEPT !.at = "launch", !.first = ResumedFirstAttempt,
                                 !.attempt = ResumedFirstAttempt]
    /\ UNCHANGED <<brokerVars, started, result, body, resumes>>

\* Every attempt after the first one of this run records that it starts.
RecordAttemptStart ==
    /\ orch.at = "record"
    /\ started' = started \cup {orch.attempt}
    /\ GoTo("launch")
    /\ UNCHANGED <<brokerVars, result, body, resumes>>

\* A dispatched unit with a token of its own, child of the run's.  Bound: one of
\* the strands is free.
Launch ==
    LET c == CHOOSE d \in Callers : body[d].at = "free" IN
    /\ orch.at = "launch"
    /\ \E d \in Callers : body[d].at = "free"
    /\ body' = [body EXCEPT ![c] = [NoBody EXCEPT !.at = "queued", !.attempt = orch.attempt,
                                                  !.cancelled = orch.cancelled]]
    /\ orch' = [orch EXCEPT !.at = "await", !.unit = c, !.stop = FALSE]
    /\ UNCHANGED <<brokerVars, started, result, resumes>>

-----------------------------------------------------------------------------
(***************************************************************************)
(* await_dispatched: the orchestrator waits for the body to stop, for its  *)
(* timeout, and after a timeout for its stop deadline.                     *)
(***************************************************************************)
TimeoutPasses(c) ==
    /\ body[c].at \in {"queued", "before", "call", "after"}
    /\ ~body[c].expired
    /\ body' = [body EXCEPT ![c].expired = TRUE]
    /\ UNCHANGED <<brokerVars, started, result, orch, resumes>>

\* The timeout is the first terminal event; the token is cancelled after the lock.
AwaitTimesOut ==
    /\ orch.at = "await"
    /\ ~Unit.stopped /\ ~Unit.settled /\ Unit.expired
    /\ body' = [body EXCEPT ![orch.unit].settled = TRUE, ![orch.unit].timed_out = TRUE]
    /\ GoTo("cancel")
    /\ UNCHANGED <<brokerVars, started, result, resumes>>

\* Mutant: the timed-out attempt gets no stop deadline.
CancelAttemptForever ==
    /\ orch.at = "cancel"
    /\ body' = [body EXCEPT ![orch.unit].cancelled = TRUE]
    /\ GoTo("await")
    /\ UNCHANGED <<brokerVars, started, result, resumes>>

CancelAttempt ==
    /\ orch.at = "cancel"
    /\ body' = [body EXCEPT ![orch.unit].cancelled = TRUE]
    /\ orch' = [orch EXCEPT !.at = "await", !.stop = TRUE]
    /\ UNCHANGED <<brokerVars, started, result, resumes>>

\* The stop deadline passed: nobody waits for the body any more.
Detach ==
    /\ orch.at = "await"
    /\ orch.stop /\ ~Unit.stopped
    /\ body' = [body EXCEPT ![orch.unit].detached = TRUE]
    /\ GoTo("settle")
    /\ UNCHANGED <<brokerVars, started, result, resumes>>

AwaitStopped ==
    /\ orch.at = "await"
    /\ Unit.stopped
    /\ GoTo("settle")
    /\ UNCHANGED <<brokerVars, started, result, body, resumes>>

-----------------------------------------------------------------------------
(***************************************************************************)
(* The body: run_dispatched_body and the node's code around one mediated,  *)
(* non-idempotent tool call.                                               *)
(***************************************************************************)

\* Mutant: finish() takes an outcome that came after the timeout.
FinishedWhenever(b, outcome) ==
    [b EXCEPT !.at = "done", !.stopped = TRUE, !.settled = TRUE,
              !.outcome = IF b.settled THEN b.outcome ELSE outcome]

\* finish(): the outcome counts only as the first terminal event, and in time.
Finished(b, outcome) ==
    LET late == b.expired IN
    [b EXCEPT !.at = "done", !.stopped = TRUE, !.settled = TRUE,
              !.timed_out = IF b.settled THEN b.timed_out ELSE late,
              !.outcome   = IF b.settled \/ late THEN b.outcome ELSE outcome]

\* A strand is reused once nobody reads the unit any more.
Stopped(c, outcome) ==
    body' = [body EXCEPT ![c] = IF @.detached /\ ~(orch.at = "settle" /\ orch.unit = c)
                                THEN NoBody ELSE Finished(@, outcome)]

\* An attempt that timed out, or whose run was cancelled, before a worker picked
\* it up never runs the node.
StartBody(c) ==
    /\ body[c].at = "queued"
    /\ IF body[c].settled \/ body[c].cancelled
       THEN Stopped(c, "cancelled")
       ELSE body' = [body EXCEPT ![c].at = "before"]
    /\ UNCHANGED <<brokerVars, started, result, orch, resumes>>

\* Node code fails before it reaches the tool call.
FailBeforeCall(c) ==
    /\ body[c].at = "before"
    /\ Repeatable => row[body[c].attempt] = "none"
    /\ Stopped(c, "error")
    /\ UNCHANGED <<brokerVars, started, result, orch, resumes>>

CallBroker(c) ==
    /\ body[c].at = "before"
    /\ SelectOrInsert(c, body[c].attempt) \/ InsertUnconfirmed(c, body[c].attempt)
    /\ body' = [body EXCEPT ![c].at = "call"]
    /\ UNCHANGED <<started, result, orch, resumes>>

BrokerStep(c) ==
    /\ body[c].at = "call"
    /\ ExecuteStep(c, body[c].cancelled)
    /\ UNCHANGED <<started, result, orch, body, resumes>>

\* RecordingToolEffectBroker: the call's outcome enters the attempt's effect log.
RecordEffect(c) ==
    /\ body[c].at = "call"
    /\ call[c].at = "returned"
    /\ body' = [body EXCEPT ![c].at = "after",
                            ![c].committed = @ \/ call[c].outcome = "ok",
                            ![c].uncertain = @ \/ call[c].outcome = "uncertain"]
    /\ call' = [call EXCEPT ![c] = NoCall]
    /\ UNCHANGED <<row, performed, started, result, orch, resumes>>

\* Node code returns, fails, pauses, or gives in to its cancelled token.
FinishBody(c) ==
    /\ body[c].at = "after"
    /\ \E outcome \in {"ok", "error", "interrupt"} \cup
                      (IF body[c].cancelled THEN {"cancelled"} ELSE {}) :
           Stopped(c, outcome)
    /\ UNCHANGED <<brokerVars, started, result, orch, resumes>>

BodyStep(c) ==
    \/ StartBody(c)
    \/ FailBeforeCall(c)
    \/ CallBroker(c)
    \/ BrokerStep(c)
    \/ RecordEffect(c)
    \/ FinishBody(c)

-----------------------------------------------------------------------------
(***************************************************************************)
(* settle_failed_attempt and the ways an invocation ends.                  *)
(***************************************************************************)

\* The strand of an attempt that stopped is free again.
Release == body' = [body EXCEPT ![orch.unit] = IF @.stopped THEN NoBody ELSE @]

EndAs(stage) == GoTo(stage) /\ Release

\* A handled failure is the invocation's result and is recorded like one.
GiveUp(routable) ==
    \/ EndAs("failed") /\ UNCHANGED result
    \/ routable /\ result' = "routed" /\ EndAs("save")

\* Mutant: what the attempt committed is not looked at.
RetryableCommitted == ~Unit.detached

\* The classes that are retried: an ordinary failure, and a timeout that stopped.
Retryable == ~Unit.detached /\ ~Unit.committed

\* Mutant: the last attempt is followed by another.
RetriesLeftInclusive == orch.attempt <= LastAttempt

RetriesLeft == orch.attempt < LastAttempt

Settle(outcome) ==
    \/ /\ outcome = "ok"
       /\ result' = "ok"                     \* recorded before it is applied
       /\ EndAs("save")
    \/ /\ outcome = "cancelled"
       /\ EndAs("cancelled") /\ UNCHANGED result
    \/ /\ outcome = "interrupt"              \* resume continues this attempt
       /\ EndAs("paused") /\ UNCHANGED result
    \/ /\ outcome \in {"error", "timeout"}
       /\ IF ~Unit.detached /\ Unit.uncertain
          THEN EndAs("paused") /\ UNCHANGED result
          ELSE \/ GiveUp(~Unit.detached)
               \/ /\ Retryable /\ RetriesLeft
                  /\ EndAs("backoff") /\ UNCHANGED result

\* The outcome the orchestrator reads: a timeout discards what the body
\* returned, and run control wins over it.
SettleAttempt ==
    /\ orch.at = "settle"
    /\ Settle(CASE Unit.timed_out /\ orch.cancelled -> "cancelled"
                [] Unit.timed_out                   -> "timeout"
                [] OTHER                            -> Unit.outcome)
    /\ UNCHANGED <<brokerVars, started, resumes>>

\* A run cancelled during the backoff starts no further attempt.
Backoff ==
    /\ orch.at = "backoff"
    /\ orch' = IF orch.cancelled THEN [orch EXCEPT !.at = "cancelled"]
               ELSE [orch EXCEPT !.at = "record", !.attempt = @ + 1]
    /\ UNCHANGED <<brokerVars, started, result, body, resumes>>

\* The recorded result is applied to the state.
Apply ==
    /\ orch.at = "save"
    /\ GoTo("done")
    /\ UNCHANGED <<brokerVars, started, result, body, resumes>>

-----------------------------------------------------------------------------
\* The caller cancels the run: the cancellation reaches the live attempt's token.
CancelRun ==
    /\ orch.at \in Running /\ ~orch.cancelled
    /\ orch' = [orch EXCEPT !.cancelled = TRUE]
    /\ body' = [c \in Callers |->
                  IF body[c].at /= "free" /\ c = orch.unit /\ ~body[c].detached
                  THEN [body[c] EXCEPT !.cancelled = TRUE] ELSE body[c]]
    /\ UNCHANGED <<brokerVars, started, result, resumes>>

\* The process dies: only the durable rows survive.
Crash ==
    /\ orch.at \notin {"done", "crashed"} /\ resumes < MaxResumes
    /\ GoTo("crashed")
    /\ body' = [c \in Callers |-> NoBody]
    /\ call' = [c \in Callers |-> NoCall]
    /\ UNCHANGED <<row, performed, started, result, resumes>>

\* The run is resumed from the step's checkpoint; detached attempts run on.
Resume ==
    /\ orch.at \in Ended \ {"done"} /\ resumes < MaxResumes
    /\ resumes' = resumes + 1
    /\ orch' = [orch EXCEPT !.at = "start", !.cancelled = FALSE, !.stop = FALSE]
    /\ UNCHANGED <<brokerVars, started, result, body>>

Orchestrate ==
    \/ Begin
    \/ RecordAttemptStart
    \/ Launch
    \/ AwaitTimesOut
    \/ CancelAttempt
    \/ Detach
    \/ AwaitStopped
    \/ SettleAttempt
    \/ Backoff
    \/ Apply

Next ==
    \/ Orchestrate
    \/ \E c \in Callers : TimeoutPasses(c) \/ BodyStep(c)
    \/ CancelRun
    \/ Crash
    \/ Resume

(***************************************************************************)
(* The orchestrator's executor and its timers make progress.  A body is    *)
(* application code and may hang for ever: it gets no fairness.            *)
(***************************************************************************)
Fairness ==
    /\ WF_vars(Orchestrate)
    /\ \A c \in Callers : WF_vars(TimeoutPasses(c))

Spec == Init /\ [][Next]_vars /\ Fairness

-----------------------------------------------------------------------------
(***************************************************************************)
(* Safety.                                                                 *)
(***************************************************************************)

\* The effect of a slot is performed at most once, although the body of an
\* attempt may be detached and still inside execute() when a resume starts a
\* second body of the same attempt, and although either may crash, be
\* cancelled, or lose a database reply between any two steps.
OncePerSlot == \A s \in Slots : performed[s] <= 1

\* A run that is neither crashed nor resumed performs the effect of an
\* invocation at most once over all its attempts, each with a slot of its own:
\* an attempt is retried only when it committed nothing, left nothing uncertain
\* and has stopped, so no earlier body is left that could still perform it.
OncePerRun ==
    resumes = 0 => \A s, t \in Slots : performed[s] > 0 /\ performed[t] > 0 => s = t

\* A body that returns after its attempt's timeout has passed does not supply
\* the invocation's result, whether the orchestrator or finish() notices first.
LateResultsDiscarded == [][result = "none" /\ result' = "ok" => ~Unit.expired]_vars

\* What the reference manual says of retries: an attempt that committed a
\* non-idempotent effect is never retried.
CommittedIsNotRetried ==
    [][orch'.attempt = orch.attempt + 1 => row[orch.attempt] /= "receipt"]_vars

(***************************************************************************)
(* Liveness.                                                               *)
(***************************************************************************)

\* An invocation with a timeout ends (or its process dies) although a body may
\* hang for ever: the timeout cancels it, and the stop deadline detaches it.
InvocationsEnd == []<>(orch.at \in Ended)

=============================================================================
