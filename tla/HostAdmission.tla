----------------------------- MODULE HostAdmission -----------------------------
(* HostAdmissionController: callers reserve host resources, wait in a queue when  *)
(* they do not fit, and poll for their grant while other callers release, the     *)
(* host changes the profile, pressure scales the capacity and the controller      *)
(* shuts down. One resource stands for the 14 components of the vector, each of   *)
(* which must fit on its own. An operation of the controller runs under its       *)
(* mutex and is one step; the poll loop of reserve_async is not.                  *)
EXTENDS Naturals, Sequences, FiniteSetsExt, SequencesExt

CONSTANTS
    Clients,         \* callers of reserve_async and try_reserve
    Need,            \* what each asks for
    Priority,        \* its static priority
    Bases,           \* capacities a host profile may declare
    Levels,          \* percentages under elevated and critical pressure
    RecoveryStep,    \* percentage points regained by a normal sample
    MaxPending,      \* the controller's queue limit
    MaxAge,          \* bound: aging gains of a waiter
    MaxTime,         \* bound: observation times of pressure samples
    Quiet            \* the recovery quiet period

VARIABLES waiters, state, reserved, at, cancelled, age, base, scale, changed, stopping
hostVars == <<waiters, state, reserved, at, cancelled, age, base, scale, changed, stopping>>

HostTypeOK ==
    /\ waiters \in Seq(Clients)
    /\ state \in [Clients -> {"none", "Queued", "Granted", "Cancelled"}]
    /\ reserved \in Nat
    /\ at \in [Clients -> {"idle", "poll", "leave", "held"}]
    /\ cancelled \in [Clients -> BOOLEAN]
    /\ age \in [Clients -> 0..MaxAge]
    /\ base \in Bases /\ scale \in 1..100 /\ changed \in 0..MaxTime
    /\ stopping \in BOOLEAN

HostInit ==
    /\ waiters = <<>> /\ reserved = 0
    /\ state = [c \in Clients |-> "none"]
    /\ at = [c \in Clients |-> "idle"]
    /\ cancelled = [c \in Clients |-> FALSE]
    /\ age = [c \in Clients |-> 0]
    /\ base = Max(Bases) /\ scale = 100 /\ changed = 0
    /\ stopping = FALSE

\* The part of the controller that a grant changes.
Books == [waiters |-> waiters, state |-> state, reserved |-> reserved]
Write(books) ==
    \E b \in {books} : waiters' = b.waiters /\ state' = b.state /\ reserved' = b.reserved

Capacity(from, percent) == (from * percent) \div 100
Fits(b, c, capacity) == b.reserved + Need[c] <= capacity

\* effective_priority: the wait raises the static priority.
Effective(c) == Priority[c] + age[c]

\* The best waiter that fits: the highest effective priority, then the oldest.
Selected(b, capacity) ==
    LET fitting == {i \in DOMAIN b.waiters : Fits(b, b.waiters[i], capacity)}
        best == Max({Effective(b.waiters[i]) : i \in fitting})
    IN Min({i \in fitting : Effective(b.waiters[i]) = best})

GrantOne(b, capacity) ==
    IF \A i \in DOMAIN b.waiters : ~Fits(b, b.waiters[i], capacity) THEN b
    ELSE LET i == Selected(b, capacity)
             c == b.waiters[i]
         IN [waiters |-> RemoveAt(b.waiters, i),
             state |-> [b.state EXCEPT ![c] = "Granted"],
             reserved |-> b.reserved + Need[c]]

\* schedule_locked: grant until no waiter fits. Waiters that fit overtake older
\* ones that do not.
Schedule(b, capacity) == FoldLeft(LAMBDA s, w : GrantOne(s, capacity), b, b.waiters)

ScheduleUnlessStopping(b) == IF stopping THEN b ELSE Schedule(b, Capacity(base, scale))

\* Mutant: what a release frees is not offered to the queue.
ReleasedSilently(b, c) == [b EXCEPT !.reserved = @ - Need[c]]

\* release_locked
Released(b, c) == ScheduleUnlessStopping([b EXCEPT !.reserved = @ - Need[c]])

\* Mutant: a call that leaves forgets the grant it did not claim.
AbandonedGrant(b, c) ==
    IF b.state[c] = "Queued"
    THEN ScheduleUnlessStopping(
           [b EXCEPT !.waiters = SelectSeq(@, LAMBDA w : w # c), !.state[c] = "none"])
    ELSE [b EXCEPT !.state[c] = "none"]

\* abandon: what the guard of a waiting call does when the call leaves by an error.
Abandoned(b, c) ==
    CASE b.state[c] = "Queued" -> ScheduleUnlessStopping(
           [b EXCEPT !.waiters = SelectSeq(@, LAMBDA w : w # c), !.state[c] = "none"])
      [] b.state[c] = "Granted" -> Released([b EXCEPT !.state[c] = "none"], c)
      [] OTHER -> [b EXCEPT !.state[c] = "none"]

--------------------------------------------------------------------------------
Go(c, stage) == at' = [at EXCEPT ![c] = stage]
Environment == <<base, scale, changed, stopping>>

\* reserve_async up to its first wait: enqueue reserves at once only past an empty
\* queue; a request that cannot fit at all, or finds the queue full, is refused,
\* and so is every request after shutdown.
Reserve(c) ==
    /\ at[c] = "idle"
    /\ ~stopping
    /\ Need[c] <= Capacity(base, scale)
    /\ IF waiters = <<>> /\ Fits(Books, c, Capacity(base, scale))
       THEN /\ Write([Books EXCEPT !.reserved = @ + Need[c]])
            /\ Go(c, "held")
       ELSE /\ Len(waiters) < MaxPending
            /\ Write(Schedule([Books EXCEPT !.waiters = Append(@, c), !.state[c] = "Queued"],
                              Capacity(base, scale)))
            /\ Go(c, "poll")
    /\ age' = [age EXCEPT ![c] = 0]
    /\ UNCHANGED <<cancelled, Environment>>

\* try_reserve never waits and never overtakes the queue.
TryReserve(c) ==
    /\ at[c] = "idle"
    /\ ~stopping
    /\ waiters = <<>> /\ Fits(Books, c, Capacity(base, scale))
    /\ Write([Books EXCEPT !.reserved = @ + Need[c]])
    /\ Go(c, "held")
    /\ UNCHANGED <<cancelled, age, Environment>>

\* One turn of the poll loop: a cancelled call leaves; a granted one claims its
\* lease; a revoked one leaves with a shutdown error; a queued one leaves when its
\* deadline has passed, which it finds out after it read its state.
Poll(c) ==
    /\ at[c] = "poll"
    /\ IF ~cancelled[c] /\ state[c] = "Granted"
       THEN Go(c, "held") /\ Write([Books EXCEPT !.state[c] = "none"])
       ELSE Go(c, "leave") /\ UNCHANGED <<waiters, state, reserved>>
    /\ UNCHANGED <<cancelled, age, Environment>>

\* Mutant: the deadline of a queued call never ends its wait.
LeaveUnlessQueued(c) ==
    /\ at[c] = "leave"
    /\ IF state[c] = "Queued" /\ ~cancelled[c]
       THEN Go(c, "poll") /\ UNCHANGED <<waiters, state, reserved, cancelled>>
       ELSE /\ Write(Abandoned(Books, c))
            /\ Go(c, "idle")
            /\ cancelled' = [cancelled EXCEPT ![c] = FALSE]
    /\ UNCHANGED <<age, Environment>>

\* The guard of the call abandons the waiter, whatever became of it meanwhile.
Leave(c) ==
    /\ at[c] = "leave"
    /\ Write(Abandoned(Books, c))
    /\ Go(c, "idle")
    /\ cancelled' = [cancelled EXCEPT ![c] = FALSE]
    /\ UNCHANGED <<age, Environment>>

\* A lease is released by its holder, or at once when the call was cancelled.
Release(c) ==
    /\ at[c] = "held"
    /\ Write(Released(Books, c))
    /\ Go(c, "idle")
    /\ cancelled' = [cancelled EXCEPT ![c] = FALSE]
    /\ UNCHANGED <<age, Environment>>

CancelCall(c) ==
    /\ at[c] = "poll" /\ ~cancelled[c]
    /\ cancelled' = [cancelled EXCEPT ![c] = TRUE]
    /\ UNCHANGED <<waiters, state, reserved, at, age, Environment>>

Age ==
    /\ \E c \in Range(waiters) : age[c] < MaxAge
    /\ age' = [c \in Clients |-> IF c \in Range(waiters) /\ age[c] < MaxAge THEN age[c] + 1 ELSE age[c]]
    /\ UNCHANGED <<waiters, state, reserved, at, cancelled, Environment>>

--------------------------------------------------------------------------------
\* The capacity becomes that of another profile or another scale; what fits now is
\* granted. Reservations beyond a smaller capacity stay.
Rescale(from, percent) ==
    /\ base' = from /\ scale' = percent
    /\ Write(IF stopping THEN Books ELSE Schedule(Books, Capacity(from, percent)))
    /\ UNCHANGED <<at, cancelled, age, stopping>>

UpdateProfile(from) == Rescale(from, scale) /\ UNCHANGED changed

\* observe_pressure: a sample older than the last change is ignored; pressure
\* lowers the scale; a normal sample after a quiet period regains one step.
ObservePressure(time, percent) ==
    /\ ~stopping
    /\ time >= changed
    /\ IF percent < 100
       THEN Rescale(base, percent) /\ changed' = time
       ELSE IF scale < 100 /\ time - changed >= Quiet
       THEN Rescale(base, Min({100, scale + RecoveryStep})) /\ changed' = time
       ELSE Rescale(base, scale) /\ UNCHANGED changed

\* Queued waiters are revoked; granted ones keep their reservation.
Shutdown ==
    /\ ~stopping
    /\ stopping' = TRUE
    /\ state' = [c \in Clients |-> IF c \in Range(waiters) THEN "Cancelled" ELSE state[c]]
    /\ waiters' = <<>>
    /\ UNCHANGED <<reserved, at, cancelled, age, base, scale, changed>>

HostNext ==
    \/ \E c \in Clients : Reserve(c) \/ TryReserve(c) \/ Poll(c) \/ Leave(c) \/ Release(c) \/ CancelCall(c)
    \/ \E from \in Bases : UpdateProfile(from)
    \/ \E time \in 1..MaxTime, percent \in Levels \cup {100} : ObservePressure(time, percent)
    \/ Age
    \/ Shutdown

\* The poll timer fires and the frame of a leaving call is destroyed: only Poll(c)
\* and Leave(c) move a waiting call.
Moves(c) ==
    /\ at[c] \in {"poll", "leave"}
    /\ \E stage \in {"idle", "held", "leave"} \ {at[c]} : Go(c, stage)
HostFairness == \A c \in Clients : WF_at(Moves(c))
HostSpec == HostInit /\ [][HostNext]_hostVars /\ HostFairness

--------------------------------------------------------------------------------
\* Nothing leaks: what is reserved is what the leases and the grants that their
\* callers have not claimed yet hold, through timeouts and cancellations that race
\* a grant, shrinking profiles and shutdown (abandon, release_locked, shutdown).
ReservedIsHeld ==
    reserved = FoldSet(LAMBDA c, sum : Need[c] + sum, 0,
                       {c \in Clients : at[c] = "held" \/ state[c] = "Granted"})

\* A running controller leaves nobody waiting who fits: every operation that could
\* make room ends with schedule_locked.
NobodyWhoFitsWaits ==
    ~stopping => \A i \in DOMAIN waiters : ~Fits(Books, waiters[i], Capacity(base, scale))

\* Every waiting call ends, granted or not, also the one that a smaller profile
\* left with a request that can never fit and the one that shutdown revoked.
WaitsEnd == \A c \in Clients : []<>(at[c] \in {"idle", "held"})
================================================================================
