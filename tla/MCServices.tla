----------------------------- MODULE MCServices -----------------------------
(***************************************************************************)
(* One run for the services an engine and a Program runtime are built on:  *)
(* the admission gate of an engine, the request queue, the cancel token,   *)
(* the host's admission controller, the connection pool, and the control   *)
(* of a run that is migrated live.  The initial state chooses the part     *)
(* that moves; the others stand still.                                     *)
(***************************************************************************)
EXTENDS EngineAdmission, RequestQueue, CancelToken, ConnPool, LiveMigration

VARIABLES
  part,
  waiters, state, reserved, at, cancelled, age, base, scale, changed, stopping

hostVars == <<waiters, state, reserved, at, cancelled, age, base, scale, changed, stopping>>
allVars == <<part, vars, queueVars, tokenVars, hostVars, poolVars, liveVars>>

Host == INSTANCE HostAdmission WITH
  Clients <- {1, 2, 3}, Need <- <<1, 2, 1>>, Priority <- <<1, 0, 0>>, Bases <- {1, 2}, Levels <- {50},
  RecoveryStep <- 50, MaxPending <- 2, MaxAge <- 1, MaxTime <- 2, Quiet <- 1

\* The instances are among those the theorems speak of.
ASSUME ServicesConstants == QueueConstants /\ TokenConstants

ServicesInit ==
  /\ part \in {"engine", "queue", "token", "host", "pool", "live"}
  /\ Init /\ QueueInit /\ TokenInit /\ Host!HostInit /\ PoolInit /\ LiveInit

ServicesNext ==
  \/ part = "engine" /\ Next /\ UNCHANGED <<part, queueVars, tokenVars, hostVars, poolVars, liveVars>>
  \/ part = "queue" /\ QueueNext /\ UNCHANGED <<part, vars, tokenVars, hostVars, poolVars, liveVars>>
  \/ part = "token" /\ TokenNext /\ UNCHANGED <<part, vars, queueVars, hostVars, poolVars, liveVars>>
  \/ part = "host" /\ Host!HostNext /\ UNCHANGED <<part, vars, queueVars, tokenVars, poolVars, liveVars>>
  \/ part = "pool" /\ PoolNext /\ UNCHANGED <<part, vars, queueVars, tokenVars, hostVars, liveVars>>
  \/ part = "live" /\ LiveNext /\ UNCHANGED <<part, vars, queueVars, tokenVars, hostVars, poolVars>>

\* The fairness of each module, for the part that moves.
ServicesFairness ==
  /\ \A w \in Workers : WF_queueVars(part = "queue" /\ WorkerStep(w))
  /\ \A c \in Closers : WF_queueVars(part = "queue" /\ CallerStep(c))
  /\ WF_queueVars(part = "queue" /\ CancelsOne)
  /\ \A h \in Threads : WF_tokenVars(part = "token" /\ CallStep(h))
  /\ \A t \in Bindable : WF_tokenVars(part = "token" /\ UserStep(t))
  /\ \A t \in Bindable, g \in Bindings : WF_tokenVars(part = "token" /\ StrandStep(t, g))
  /\ \A c \in {1, 2, 3} : WF_at(part = "host" /\ Host!Moves(c))

ServicesSpec == ServicesInit /\ [][ServicesNext]_allVars /\ ServicesFairness

-----------------------------------------------------------------------------
\* The variables of every part keep their types.
TypesOK ==
  /\ TypeOK /\ QueueTypeOK /\ TokenTypeOK
  /\ Host!HostTypeOK /\ PoolTypeOK /\ LiveTypeOK

\* No caller hangs: every close() of the queue returns, whoever else closes it, a task
\* included; so does every cancel(), fork() and unbind_executor() of a token.
NoCallHangs == CloseReturns /\ CallsReturn

\* What the host's controller has reserved is what leases and unclaimed grants hold.
ReservedIsHeld == Host!ReservedIsHeld

\* A running controller leaves nobody waiting whose request fits.
NobodyWhoFitsWaits == Host!NobodyWhoFitsWaits

\* Every waiting reservation ends, also one that can never fit and one that shutdown
\* revoked.
WaitsEnd == Host!WaitsEnd
=============================================================================
