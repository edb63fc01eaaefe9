-------------------------- MODULE SuperStepsProofs --------------------------
(* GraphRun implements SuperSteps, for every graph and every bound: each     *)
(* checkpoint it saves is a start, an edit or one whole super-step of what   *)
(* was stored before.                                                        *)
EXTENDS GraphRunProofs

Stored == {ConfigOf(cps[i]) : i \in DOMAIN cps}

-----------------------------------------------------------------------------
(* SuperSteps uses the same planning and the same results as GraphRun. *)

\* The operators of the instance are those of the model: the Sends of a batch,
LEMMA SameSends == \A ran : Abs!PendingSends(ran) = PendingSends(ran)
  BY DEF Abs!PendingSends, PendingSends

\* the routings of a step,
LEMMA SameRoutings ==
  \A ran, sent : Abs!UnifiedRoutings(ran, sent) = UnifiedRoutings(ran, sent)
  BY SMTT(60) DEF Abs!UnifiedRoutings, UnifiedRoutings, Abs!PendingSends, PendingSends,
         Abs!Routing, Routing

\* the plan of the next step,
LEMMA SamePlanNextStep ==
  \A routings, labels, barrier :
     Abs!PlanNextStep(routings, labels, barrier) = PlanNextStep(routings, labels, barrier)
<1>1. \A r, labels : Abs!SuccessorsOf(r, labels) = SuccessorsOf(r, labels)
  <2>1. \A ce, label : Abs!ConditionalTargets(ce, label) = ConditionalTargets(ce, label)
    BY DEF Abs!ConditionalTargets, ConditionalTargets, Abs!LegacyRoute, LegacyRoute,
           Abs!DefaultRoute, DefaultRoute
  <2>2. \A node : Abs!Successors(node) = Successors(node)
    BY DEF Abs!Successors, Successors
  <2>3. \A node, labels : Abs!ResolveNextNodes(node, labels) = ResolveNextNodes(node, labels)
    BY <2>1, <2>2 DEF Abs!ResolveNextNodes, ResolveNextNodes, Abs!End, End
  <2> QED
    BY <2>3 DEF Abs!SuccessorsOf, SuccessorsOf
<1>2. \A routings, labels, t :
         Abs!Signalers(routings, labels, t) = Signalers(routings, labels, t)
  BY <1>1 DEF Abs!Signalers, Signalers
<1>3. \A routings : Abs!CommandGoto(routings) = CommandGoto(routings)
  BY DEF Abs!CommandGoto, CommandGoto, Abs!None, None
<1>4. \A t, accum : Abs!Satisfied(t, accum) = Satisfied(t, accum)
  BY DEF Abs!Satisfied, Satisfied
<1> TAKE routings, labels, barrier
<1> DEFINE accum   == [t \in DOMAIN Joins |-> barrier[t] \cup Signalers(routings, labels, t)]
           accumA  == [t \in DOMAIN Joins |-> barrier[t] \cup Abs!Signalers(routings, labels, t)]
           fires   == {t \in {u \in Nodes : Signalers(routings, labels, u) # {}} :
                          t \in DOMAIN Joins => Satisfied(t, accum[t])}
           firesA  == {t \in {u \in Abs!Nodes : Abs!Signalers(routings, labels, u) # {}} :
                          t \in DOMAIN Joins => Abs!Satisfied(t, accumA[t])}
           keeps   == [t \in DOMAIN Joins |-> IF t \in fires THEN {} ELSE accum[t]]
           keepsA  == [t \in DOMAIN Joins |-> IF t \in firesA THEN {} ELSE accumA[t]]
<1>5. accumA = accum
  BY <1>2
<1> HIDE DEF accum, accumA
<1>6. firesA = fires
  BY <1>2, <1>4, <1>5 DEF Abs!Nodes, Nodes
<1> HIDE DEF fires, firesA
<1>7. keepsA = keeps
  BY <1>5, <1>6
<1> HIDE DEF keeps, keepsA
<1>8. PlanNextStep(routings, labels, barrier) =
        IF CommandGoto(routings) # None
        THEN [ready |-> {CommandGoto(routings)} \ {End}, barrier |-> barrier]
        ELSE [ready |-> fires, barrier |-> keeps]
  BY DEF PlanNextStep, keeps, fires, accum
<1>9. Abs!PlanNextStep(routings, labels, barrier) =
        IF Abs!CommandGoto(routings) # Abs!None
        THEN [ready |-> {Abs!CommandGoto(routings)} \ {Abs!End}, barrier |-> barrier]
        ELSE [ready |-> firesA, barrier |-> keepsA]
  BY DEF Abs!PlanNextStep, keepsA, firesA, accumA
<1> QED
  BY <1>3, <1>6, <1>7, <1>8, <1>9 DEF Abs!End, End, Abs!None, None

\* its ready nodes,
LEMMA SameReady ==
  \A routings, plan : Abs!NextReady(routings, plan) = NextReady(routings, plan)
  BY DEF Abs!NextReady, NextReady, Abs!ExitReached, ExitReached

\* the state after the step,
LEMMA SameApplied ==
  \A log, ran, sent : Abs!Applied(log, ran, sent) = Applied(log, ran, sent)
  BY SameSends DEF Abs!Applied, Applied, Abs!RanEntry, RanEntry, Abs!SentEntry, SentEntry

\* the labels a condition may return,
LEMMA SameLabels == Abs!Labelings = Labelings
  BY DEF Abs!Labelings, Labelings, Abs!Labels, Labels

\* the start of a run,
LEMMA SameStart ==
  /\ Abs!PlanStartStep = PlanStartStep
  /\ Abs!EmptyBarrier = EmptyBarrier
  /\ Abs!InputEntry = InputEntry /\ Abs!UpdateEntry = UpdateEntry
  BY DEF Abs!PlanStartStep, PlanStartStep, Abs!Successors, Successors, Abs!Start, Start,
         Abs!End, End, Abs!EmptyBarrier, EmptyBarrier, Abs!InputEntry, InputEntry,
         Abs!UpdateEntry, UpdateEntry

\* and the configuration a step stores.
LEMMA SamePlan ==
  \A c, ran, sent, labels :
     Abs!Planned(c, ran, sent, labels) =
       LET routings == UnifiedRoutings(ran, sent)
           plan     == PlanNextStep(routings, labels, c.barrier)
       IN  [ready |-> NextReady(routings, plan), log |-> Applied(c.log, ran, sent),
            barrier |-> plan.barrier]
  BY SameRoutings, SamePlanNextStep, SameReady, SameApplied DEF Abs!Planned, Abs!Config

-----------------------------------------------------------------------------
(* What is stored only grows, and what a super-step can start from with it. *)

\* Saving a checkpoint stores its configuration and no other.
LEMMA StoredGrows ==
  ASSUME IsSeq(cps), NEW cp, cps' = Append(cps, cp)
  PROVE  Stored' = Stored \cup {ConfigOf(cp)}
<1>1. /\ DOMAIN cps = 1 .. Len(cps) /\ Len(cps) \in Nat
      /\ DOMAIN cps' = 1 .. Len(cps) + 1
      /\ \A i \in 1 .. Len(cps) : cps'[i] = cps[i]
      /\ cps'[Len(cps) + 1] = cp
  BY AppendSeq
<1>2. ASSUME NEW c \in Stored' PROVE c \in Stored \cup {ConfigOf(cp)}
  <2>1. PICK i \in DOMAIN cps' : c = ConfigOf(cps'[i])
    BY DEF Stored, ConfigOf
  <2>2. CASE i = Len(cps) + 1
    BY <1>1, <2>1, <2>2
  <2>3. CASE i \in 1 .. Len(cps)
    BY <1>1, <2>1, <2>3 DEF Stored
  <2> QED
    BY <1>1, <2>2, <2>3
<1>3. ASSUME NEW c \in Stored PROVE c \in Stored'
  BY <1>1 DEF Stored, ConfigOf
<1>4. ConfigOf(cp) \in Stored'
  <2>1. Len(cps) + 1 \in DOMAIN cps' /\ ConfigOf(cps'[Len(cps) + 1]) = ConfigOf(cp)
    BY <1>1
  <2> QED
    BY <2>1 DEF Stored
<1> QED
  BY <1>2, <1>3, <1>4

\* What a step may start from is a stored configuration, a new turn on one, or fresh.
LEMMA SourcesOfStored ==
  /\ Abs!Sources = Stored \cup {Abs!FreshConfig} \cup {Abs!NewTurn(c) : c \in Stored}
  /\ Abs!Sources' = Stored' \cup {Abs!FreshConfig} \cup {Abs!NewTurn(c) : c \in Stored'}
  BY DEF Abs!Sources, Stored, ConfigOf, Abs!FreshConfig, Abs!NewTurn

\* A save takes no source away.
LEMMA SourcesGrow ==
  ASSUME Stored \subseteq Stored'
  PROVE  Abs!Sources \subseteq Abs!Sources'
  BY SourcesOfStored

\* Storing a source, an edit or a whole super-step of a source is a step of
\* SuperSteps.
LEMMA StoresOne ==
  ASSUME IsSeq(cps), NEW cp, cps' = Append(cps, cp),
         \/ ConfigOf(cp) \in Abs!Sources
         \/ \E c \in Abs!Sources : Abs!SuperStep(c, ConfigOf(cp))
         \/ \E c \in Stored : ConfigOf(cp) = Abs!Edited(c)
  PROVE  Abs!Next
<1>1. Stored' = Stored \cup {ConfigOf(cp)}
  BY StoredGrows
<1> DEFINE d == ConfigOf(cp)
<1> HIDE DEF d
<1>2. d \in Stored' /\ Stored' = Stored \cup {d}
  BY <1>1 DEF d
<1>3. Abs!Store(d)
  BY <1>2, ZenonT(60) DEF Abs!Store, Stored, ConfigOf
<1>4. \/ \E c \in Abs!Sources : d = c \/ Abs!SuperStep(c, d)
      \/ \E c \in Stored : d = Abs!Edited(c)
  BY DEF d
<1> QED
  BY <1>2, <1>3, <1>4 DEF Abs!Next, Stored

\* What a completed step stores is one super-step of what it started from.
LEMMA CompletesSuperStep ==
  ASSUME NEW ready, NEW base, IsSeq(base), NEW barrier, NEW ran, NEW sent,
         DOMAIN ran = ready, DOMAIN sent = DOMAIN PendingSends(ran),
         PendingSends(ran) = <<>> => sent = <<>>,
         NEW labels \in Labelings, NEW d,
         d = Abs!Planned(Abs!Config(ready, base, barrier), ran, sent, labels)
  PROVE  Abs!SuperStep(Abs!Config(ready, base, barrier), d)
<1> DEFINE c == Abs!Config(ready, base, barrier)
           k == Len(base)
           s == Append(base, RanEntry(ran))
<1>1. c.ready = ready /\ c.log = base /\ c.barrier = barrier
  BY DEF Abs!Config
<1>2. d.log = Applied(base, ran, sent)
  BY <1>1, SamePlan
<1>3. /\ k \in Nat /\ IsSeq(s) /\ Len(s) = k + 1
      /\ s[k + 1] = RanEntry(ran)
  BY AppendSeq
<1> HIDE DEF c, k, s
<1>4. RanEntry(ran).kind = "ran" /\ RanEntry(ran).of = ran
  BY DEF RanEntry
<1>5. CASE PendingSends(ran) = <<>>
  <2>1. d.log = s
    BY <1>2, <1>5, SMTT(60) DEF Applied, s
  <2> QED
    BY <1>1, <1>3, <1>4, <1>5, <2>1, SameSends, SameLabels, SMTT(60) DEF Abs!SuperStep, k, c
<1>6. CASE PendingSends(ran) # <<>>
  <2>1. d.log = Append(s, SentEntry(sent))
    BY <1>2, <1>6 DEF Applied, s
  <2>2. /\ Len(d.log) = k + 2 /\ d.log[k + 1] = RanEntry(ran)
        /\ d.log[k + 2] = SentEntry(sent)
    <3> DEFINE e == SentEntry(sent)
    <3>1. /\ Len(Append(s, e)) = Len(s) + 1
          /\ \A i \in 1 .. Len(s) : Append(s, e)[i] = s[i]
          /\ Append(s, e)[Len(s) + 1] = e
      BY <1>3, AppendSeq
    <3> HIDE DEF e
    <3> QED
      BY <1>3, <2>1, <3>1 DEF e
  <2>3. SentEntry(sent).of = sent
    BY DEF SentEntry
  <2> QED
    BY <1>1, <1>3, <1>4, <1>6, <2>2, <2>3, SameSends, SameLabels, SMTT(60) DEF Abs!SuperStep, k, c
<1> QED
  BY <1>5, <1>6

\* The scheduler never readies the end of the graph.
LEMMA EndNeverReady ==
  \A routings, labels, barrier :
     End \notin NextReady(routings, PlanNextStep(routings, labels, barrier))
<1>1. End \notin Nodes
  BY GraphAssumption DEF Nodes, End
<1> QED
  BY <1>1 DEF NextReady, PlanNextStep

-----------------------------------------------------------------------------
(* WholeStepInv is inductive, and every step is one of SuperSteps or stores
   nothing. *)

Refines == Abs!Next \/ UNCHANGED Stored

\* An ended run holds nothing.
LEMMA IdleWhole ==
  ASSUME run' = Idle
  PROVE  RunWhole'
<1>1. run'.pc = "idle" /\ run'.state = <<>>
  BY DEF Idle
<1> QED
  BY <1>1, EmptyIsSeq, SMTT(60) DEF RunWhole, InStep, IsSeq

\* Without a save nothing is stored.
LEMMA NothingStored ==
  ASSUME StoredWell, UNCHANGED cps
  PROVE  StoredWell' /\ Refines /\ Abs!Sources' = Abs!Sources
<1>1. Stored' = Stored
  BY DEF Stored, ConfigOf
<1>2. StoredWell'
  BY ZenonT(60) DEF StoredWell, IsSeq
<1> QED
  BY <1>1, <1>2, SourcesOfStored DEF Refines

\* What a save keeps of the store.
LEMMA SavedWell ==
  ASSUME LineageInv, StoredWell, NEW cp, cps' = Append(cps, cp),
         IsSeq(cp.state), cp.next = {End} \/ End \notin cp.next
  PROVE  /\ StoredWell' /\ Abs!Sources \subseteq Abs!Sources'
         /\ Len(cps') = Len(cps) + 1 /\ Len(cps) \in Nat /\ cps'[Len(cps')] = cp
<1>1. /\ DOMAIN cps = 1 .. Len(cps) /\ Len(cps) \in Nat
      /\ Len(cps') = Len(cps) + 1 /\ DOMAIN cps' = 1 .. Len(cps) + 1
      /\ \A i \in 1 .. Len(cps) : cps'[i] = cps[i]
      /\ cps'[Len(cps) + 1] = cp
  BY AppendSeq DEF LineageInv
<1>2. Stored \subseteq Stored'
  BY StoredGrows DEF LineageInv
<1>3. ASSUME NEW i \in DOMAIN cps'
      PROVE  IsSeq(cps'[i].state) /\ (cps'[i].next = {End} \/ End \notin cps'[i].next)
  <2>1. CASE i \in 1 .. Len(cps)
    BY <1>1, <2>1 DEF StoredWell
  <2>2. CASE i = Len(cps) + 1
    BY <1>1, <2>2, SMTT(60)
  <2> QED
    BY <1>1, <2>1, <2>2
<1>4. StoredWell'
  BY <1>3, ZenonT(60) DEF StoredWell, IsSeq
<1> QED
  BY <1>1, <1>2, <1>4, SourcesGrow, SMTT(60)

\* A pause, an anchor and a budget stop store what their step started from.
LEMMA StoresItsSource ==
  ASSUME LineageInv, WholeStepInv, InStep, NEW cp, cps' = Append(cps, cp),
         cp.next = run.ready, cp.state = run.base, cp.barrier = run.barrier
  PROVE  StoredWell' /\ Refines /\ Abs!Sources \subseteq Abs!Sources'
<1>1. /\ Abs!Config(run.ready, run.base, run.barrier) \in Abs!Sources
      /\ IsSeq(run.base) /\ End \notin run.ready
  BY DEF WholeStepInv, RunWhole
<1>2. ConfigOf(cp) = Abs!Config(run.ready, run.base, run.barrier)
  BY <1>1, ZenonT(60) DEF ConfigOf, Abs!Config
<1>3. Abs!Next
  BY <1>1, <1>2, StoresOne, SMTT(60) DEF LineageInv
<1> QED
  BY <1>1, <1>3, SavedWell, SMTT(60) DEF WholeStepInv, Refines

\* What Checkpoint puts in a checkpoint.
LEMMA CheckpointHolds ==
  ASSUME NEW current, NEW next, NEW phase, NEW state, NEW barrier
  PROVE  LET cp == Checkpoint(current, next, phase, state, barrier)
         IN  /\ DOMAIN cp = CheckpointFields
             /\ cp.next = next /\ cp.state = state /\ cp.barrier = barrier
  BY DEF Checkpoint, CheckpointFields

\* A run that ends without a save refines a stutter.
LEMMA EndsWhole ==
  ASSUME WholeStepInv, UNCHANGED cps, run' = Idle
  PROVE  WholeStepInv' /\ Refines
  BY IdleWhole, NothingStored, SMTT(60) DEF WholeStepInv

\* A run starts from a fresh configuration, a new turn or a stored one.
LEMMA LoopStartsWhole ==
  ASSUME WholeStepInv, UNCHANGED cps,
         run'.pc = "loop", run'.sent = <<>>, run'.state = run'.base, IsSeq(run'.base),
         End \notin run'.ready,
         Abs!Config(run'.ready, run'.base, run'.barrier) \in Abs!Sources
  PROVE  WholeStepInv' /\ Refines
<1>1. StoredWell' /\ Refines /\ Abs!Sources' = Abs!Sources
  BY NothingStored DEF WholeStepInv
<1>2. Abs!Config(run.ready, run.base, run.barrier)' = Abs!Config(run'.ready, run'.base, run'.barrier)
  BY SMTT(60) DEF Abs!Config
<1>3. RunWhole'
  BY <1>1, <1>2 DEF RunWhole, InStep, IsSeq
<1> QED
  BY <1>1, <1>3 DEF WholeStepInv

\* A fresh run and a new turn start from a source.
LEMMA StartsWhole ==
  ASSUME LineageInv, WholeStepInv, NEW thread \in Threads,
         FreshRun(thread) \/ ContinueThread(thread)
  PROVE  WholeStepInv' /\ Refines
<1>0. End \notin PlanStartStep
  BY DEF PlanStartStep
<1>1. CASE FreshRun(thread)
  <2>1. /\ UNCHANGED cps
        /\ run'.pc = "loop" /\ run'.sent = <<>> /\ run'.base = <<InputEntry>>
        /\ run'.state = run'.base /\ run'.ready = PlanStartStep
        /\ run'.barrier = EmptyBarrier
    BY <1>1 DEF FreshRun, Idle
  <2>2. IsSeq(<<InputEntry>>)
    BY SMTT(60) DEF IsSeq
  <2>3. Abs!Config(run'.ready, run'.base, run'.barrier) = Abs!FreshConfig
    BY <2>1, SameStart, SMTT(60) DEF Abs!FreshConfig, Abs!Config
  <2> QED
    BY <1>0, <2>1, <2>2, <2>3, LoopStartsWhole, SourcesOfStored, SMTT(60)
<1>2. CASE ContinueThread(thread)
  <2> DEFINE id == LatestOf(thread)
  <2>1. id \in DOMAIN cps
    BY <1>2, LatestOfThread, SMTT(60) DEF ContinueThread, LineageInv
  <2>2. /\ UNCHANGED cps
        /\ run'.pc = "loop" /\ run'.sent = <<>>
        /\ run'.base = Append(cps[id].state, InputEntry)
        /\ run'.state = run'.base /\ run'.ready = PlanStartStep
        /\ run'.barrier = EmptyBarrier
    BY <1>2, SMTT(60) DEF ContinueThread, Idle
  <2> HIDE DEF id
  <2>3. IsSeq(run'.base)
    BY <2>1, <2>2, AppendSeq, SMTT(60) DEF WholeStepInv, StoredWell
  <2>4. ConfigOf(cps[id]) \in Stored /\ ConfigOf(cps[id]).log = cps[id].state
    BY <2>1, ZenonT(60) DEF Stored, ConfigOf
  <2>5. Abs!Config(run'.ready, run'.base, run'.barrier) = Abs!NewTurn(ConfigOf(cps[id]))
    BY <2>2, <2>4, SameStart, SMTT(60) DEF Abs!NewTurn, Abs!Config
  <2> QED
    BY <1>0, <2>2, <2>3, <2>4, <2>5, LoopStartsWhole, SourcesOfStored, SMTT(60)
<1> QED
  BY <1>1, <1>2

\* A resume starts from the configuration its checkpoint stores.
LEMMA ResumeRunWhole ==
  ASSUME LineageInv, WholeStepInv, NEW id \in DOMAIN cps, cps[id].next # {End}, ResumeRun(id)
  PROVE  WholeStepInv' /\ Refines
<1>1. UNCHANGED cps
  BY SMTT(60) DEF ResumeRun
<1>2. PICK gates, answers : run' = Restored(id, gates, answers)
  BY ZenonT(60) DEF ResumeRun
<1>3. /\ run'.pc = "loop" /\ run'.sent = <<>> /\ run'.base = cps[id].state
      /\ run'.state = run'.base /\ run'.ready = cps[id].next
      /\ run'.barrier = cps[id].barrier
  BY <1>2 DEF Restored, Idle
<1>4. IsSeq(cps[id].state) /\ End \notin cps[id].next
  BY DEF WholeStepInv, StoredWell
<1>5. Abs!Config(run'.ready, run'.base, run'.barrier) = ConfigOf(cps[id])
  BY <1>3, <1>4, ZenonT(60) DEF Abs!Config, ConfigOf
<1>6. ConfigOf(cps[id]) \in Stored
  BY SMTT(60) DEF Stored
<1> QED
  BY <1>1, <1>3, <1>4, <1>5, <1>6, LoopStartsWhole, SourcesOfStored, SMTT(60)

\* A run that applied all results of its step is ready to plan the next one.
LEMMA AtPlanWhole ==
  ASSUME run'.pc = "plan", IsSeq(run.state)',
         Abs!Config(run.ready, run.base, run.barrier)' \in Abs!Sources',
         IsSeq(run.base)', End \notin run'.ready, DOMAIN run'.ran = run'.ready,
         run'.state = Applied(run'.base, run'.ran, run'.sent),
         DOMAIN run'.sent = DOMAIN PendingSends(run'.ran),
         PendingSends(run'.ran) = <<>> => run'.sent = <<>>
  PROVE  RunWhole'
BY ZenonT(60) DEF RunWhole

\* Within a step a run keeps what the step started from.
LEMMA StepKeepsSource ==
  ASSUME WholeStepInv, InStep, Abs!Sources \subseteq Abs!Sources',
         run'.ready = run.ready, run'.base = run.base, run'.barrier = run.barrier
  PROVE  /\ Abs!Config(run.ready, run.base, run.barrier)' \in Abs!Sources'
         /\ IsSeq(run.base)' /\ End \notin run'.ready
<1>1. Abs!Config(run.ready, run.base, run.barrier)' = Abs!Config(run.ready, run.base, run.barrier)
  BY DEF Abs!Config
<1> QED
  BY <1>1 DEF WholeStepInv, RunWhole, IsSeq

\* A task that ends changes neither the step's start nor the state.
LEMMA SameStateWhole ==
  ASSUME WholeStepInv, InStep, StoredWell', Abs!Sources \subseteq Abs!Sources',
         run'.ready = run.ready, run'.base = run.base, run'.barrier = run.barrier,
         run'.state = run.state, run'.sent = run.sent, run'.ran = run.ran,
         \/ run'.pc = run.pc
         \/ run.pc = "loop" /\ run'.pc = "exec"
         \/ run.pc = "anchor" /\ run'.pc = "sends"
  PROVE  WholeStepInv'
<1>1. /\ Abs!Config(run.ready, run.base, run.barrier)' \in Abs!Sources'
      /\ IsSeq(run.base)' /\ End \notin run'.ready
  BY StepKeepsSource, SMTT(60)
<1>2. IsSeq(run.state)'
  BY SMTT(60) DEF WholeStepInv, RunWhole, IsSeq
<1>3. RunWhole'
  BY <1>1, <1>2, SMTT(60) DEF WholeStepInv, RunWhole, InStep
<1> QED
  BY <1>3 DEF WholeStepInv

\* A pause that stores the step's start ends the run.
LEMMA PausesWhole ==
  ASSUME LineageInv, WholeStepInv, InStep, NEW cp, Save(cp),
         cp.next = run.ready, cp.state = run.base, cp.barrier = run.barrier, run' = Idle
  PROVE  WholeStepInv' /\ Refines
<1>1. cps' = Append(cps, cp)
  BY DEF Save
<1> QED
  BY <1>1, StoresItsSource, IdleWhole DEF WholeStepInv

\* The head of the loop stores the step's start or nothing.
LEMMA LoopWhole ==
  ASSUME LineageInv, WholeStepInv,
         LoopEnds \/ BudgetStop \/ GatePause \/ EnterStep
  PROVE  WholeStepInv' /\ Refines
<1>1. CASE LoopEnds
  BY <1>1, EndsWhole DEF LoopEnds
<1>2. run.pc = "loop" /\ InStep /\ run.state = run.base /\ run.sent = <<>>
  BY SMTT(60) DEF LoopEnds, BudgetStop, GatePause, EnterStep, InStep, WholeStepInv, RunWhole
<1> DEFINE Built(current, phase) ==
             Checkpoint(current, run.ready, phase, run.state, run.barrier)
<1>3. \A current, phase :
         /\ DOMAIN Built(current, phase) = CheckpointFields
         /\ Built(current, phase).next = run.ready
         /\ Built(current, phase).state = run.base
         /\ Built(current, phase).barrier = run.barrier
  BY <1>2, CheckpointHolds
<1>4. CASE BudgetStop
  <2>1. cps' = Append(cps, Built(None, "completed"))
    BY <1>4 DEF BudgetStop, Save
  <2>2. run'.pc = "budget" /\ run'.state = run.state
    BY <1>4, SMTT(60) DEF BudgetStop, LineageInv, RunFollows, RunFields
  <2> HIDE DEF Built
  <2>3. StoredWell' /\ Refines
    BY <1>2, <1>3, <2>1, StoresItsSource, SMTT(60)
  <2>4. RunWhole'
    BY <2>2, SMTT(60) DEF WholeStepInv, RunWhole, InStep, IsSeq
  <2> QED
    BY <2>3, <2>4 DEF WholeStepInv
<1>5. CASE GatePause
  <2> DEFINE b  == Built(FirstNode(UnansweredGates), "before")
             cp == [b EXCEPT !.gates = IF ResumedStep THEN run.gates ELSE NoFun]
  <2>1. Save(cp) /\ run' = Idle
    BY <1>5, SMTT(60) DEF GatePause
  <2>2. /\ DOMAIN b = CheckpointFields /\ b.next = run.ready
        /\ b.state = run.base /\ b.barrier = run.barrier
    BY <1>3
  <2> HIDE DEF b
  <2>3. cp.next = run.ready /\ cp.state = run.base /\ cp.barrier = run.barrier
    BY <2>2 DEF CheckpointFields
  <2> HIDE DEF cp
  <2> QED
    BY <1>2, <2>1, <2>3, PausesWhole, SMTT(60)
<1>6. CASE EnterStep
  <2>1. /\ run'.pc = "exec" /\ run'.ready = run.ready /\ run'.base = run.base
        /\ run'.barrier = run.barrier /\ run'.state = run.state
        /\ run'.sent = run.sent /\ run'.ran = run.ran
    <3> DEFINE out == Dispatch(StaticTasks(run.step, run.ready))
    <3>1. DOMAIN run = RunFields
      BY DEF LineageInv, RunFollows
    <3>2. \/ run' = [run EXCEPT !.pc = "exec", !.out = out, !.last = Len(cps) + 1]
          \/ run' = [run EXCEPT !.pc = "exec", !.out = out]
      BY <1>6, ZenonT(60) DEF EnterStep
    <3> HIDE DEF out
    <3> QED
      BY <3>1, <3>2, ZenonT(60) DEF RunFields
  <2>2. UNCHANGED cps \/ cps' = Append(cps, Built(None, "before"))
    BY <1>6 DEF EnterStep, Save
  <2> HIDE DEF Built
  <2>3. StoredWell' /\ Refines /\ Abs!Sources \subseteq Abs!Sources'
    BY <1>2, <1>3, <2>2, StoresItsSource, NothingStored DEF WholeStepInv
  <2> QED
    BY <1>2, <2>1, <2>3, SameStateWhole, SMTT(60)
<1> QED
  BY <1>1, <1>4, <1>5, <1>6, SMTT(60)

\* A NodeInterrupt pause stores the step's start.
LEMMA PauseOnWhole ==
  ASSUME LineageInv, WholeStepInv, InStep,
         NEW current, NEW finished, PauseOn(current, finished)
  PROVE  WholeStepInv' /\ Refines
<1> DEFINE b  == Checkpoint(current, run.ready, "node_interrupt", run.base, run.barrier)
           cp == [b EXCEPT !.interrupts = ListedInterrupts(run.out)]
<1>1. Save(cp) /\ run' = Idle
  BY DEF PauseOn
<1>2. /\ DOMAIN b = CheckpointFields /\ b.next = run.ready
      /\ b.state = run.base /\ b.barrier = run.barrier
  BY CheckpointHolds
<1> HIDE DEF b
<1>3. cp.next = run.ready /\ cp.state = run.base /\ cp.barrier = run.barrier
  BY <1>2 DEF CheckpointFields
<1> HIDE DEF cp
<1> QED
  BY <1>1, <1>3, PausesWhole

\* A task that ends changes no state.
LEMMA TasksWhole ==
  ASSUME LineageInv, WholeStepInv, NEW t,
         TaskFinishes(t) \/ TaskThrows(t)
  PROVE  WholeStepInv' /\ Refines
<1>1. /\ run.pc \in {"exec", "sends"} /\ UNCHANGED cps
      /\ \E o : run' = [run EXCEPT !.out[t] = o]
  BY DEF TaskFinishes, TaskThrows
<1>2. /\ run'.pc = run.pc /\ run'.ready = run.ready /\ run'.base = run.base
      /\ run'.barrier = run.barrier /\ run'.state = run.state
      /\ run'.sent = run.sent /\ run'.ran = run.ran
  BY <1>1 DEF LineageInv, RunFollows, RunFields
<1>3. InStep
  BY <1>1 DEF InStep
<1> QED
  BY <1>1, <1>2, <1>3, NothingStored, SameStateWhole DEF WholeStepInv

\* Once the ready nodes' writes are applied the Sends run, or are refused.
LEMMA StartSendsWhole ==
  ASSUME WholeStepInv, InStep, UNCHANGED cps, NEW r, DOMAIN r = RunFields,
         r.ready = run.ready, r.base = run.base, r.barrier = run.barrier,
         r.state = Append(run.base, RanEntry(r.ran)), DOMAIN r.ran = run.ready,
         r.sent = <<>>, PendingSends(r.ran) # <<>>,
         NEW sends, run' = StartSends(r, sends)
  PROVE  WholeStepInv' /\ Refines
<1>1. CASE run' = Idle
  BY <1>1, EndsWhole, SMTT(60)
<1>2. CASE run' # Idle
  <2>1. /\ run'.pc = "sends" /\ run'.ready = run.ready /\ run'.base = run.base
        /\ run'.barrier = run.barrier /\ run'.ran = r.ran /\ run'.sent = <<>>
        /\ run'.state = Append(run.base, RanEntry(r.ran))
    BY <1>2 DEF StartSends, RunFields
  <2>2. StoredWell' /\ Refines /\ Abs!Sources' = Abs!Sources
    BY NothingStored, SMTT(60) DEF WholeStepInv
  <2>3. /\ Abs!Config(run.ready, run.base, run.barrier)' \in Abs!Sources'
        /\ IsSeq(run.base)' /\ End \notin run'.ready
    BY <2>1, <2>2, StepKeepsSource, SMTT(60)
  <2>4. IsSeq(run.state)'
    <3> DEFINE log == Append(run.base, RanEntry(r.ran))
    <3>1. IsSeq(log)
      BY AppendSeq, SMTT(60) DEF WholeStepInv, RunWhole
    <3> HIDE DEF log
    <3>2. run'.state = log
      BY <2>1, SMTT(60) DEF log
    <3> QED
      BY <3>1, <3>2, SMTT(60) DEF IsSeq
  <2>5. RunWhole'
    BY <2>1, <2>3, <2>4 DEF RunWhole, InStep
  <2> QED
    BY <2>2, <2>5 DEF WholeStepInv
<1> QED
  BY <1>1, <1>2, SMTT(60)

\* The outcome of the ready nodes stores the step's start or nothing.
LEMMA ReadyBatchWhole ==
  ASSUME LineageInv, WholeStepInv,
         BatchStops("exec") \/ ReadyPauses \/ ReadyApplied
  PROVE  WholeStepInv' /\ Refines
<1>1. run.pc = "exec" /\ InStep /\ run.state = run.base /\ run.sent = <<>> /\ IsSeq(run.base)
  BY DEF BatchStops, ReadyPauses, ReadyApplied, BatchDone, InStep, WholeStepInv, RunWhole
<1>2. CASE BatchStops("exec")
  BY <1>2, EndsWhole, SMTT(60) DEF BatchStops, StopRun
<1>3. CASE ReadyPauses
  BY <1>1, <1>3, PauseOnWhole DEF ReadyPauses
<1>4. CASE ReadyApplied
  <2> DEFINE ran   == ReadyResults
             sends == PendingSends(ran)
             log   == Append(run.base, RanEntry(ran))
             r     == [run EXCEPT !.state = Append(@, RanEntry(ran)), !.ran = ran]
             cp    == Checkpoint(None, run.ready, "before", run.base, run.barrier)
  <2>1. DOMAIN ran = run.ready
    BY DEF ReadyResults
  <2>2. \/ run' = [r EXCEPT !.pc = "plan", !.out = NoFun] /\ UNCHANGED cps /\ sends = <<>>
        \/ run' = StartSends(r, sends) /\ UNCHANGED cps /\ sends # <<>>
        \/ /\ run' = [r EXCEPT !.pc = "anchor", !.last = Len(cps) + 1, !.todo = run.ready]
           /\ Save(cp) /\ sends # <<>>
    BY <1>4 DEF ReadyApplied
  <2> HIDE DEF ran
  <2>3. /\ DOMAIN r = RunFields /\ r.ready = run.ready /\ r.base = run.base
        /\ r.barrier = run.barrier /\ r.state = log /\ r.ran = ran /\ r.sent = <<>>
    BY <1>1 DEF LineageInv, RunFollows, RunFields
  <2>4. IsSeq(log)
    BY <1>1, AppendSeq
  <2> HIDE DEF sends, r, cp, log
  <2>5. CASE run' = [r EXCEPT !.pc = "plan", !.out = NoFun] /\ UNCHANGED cps /\ sends = <<>>
    <3>1. /\ run'.pc = "plan" /\ run'.ready = run.ready /\ run'.base = run.base
          /\ run'.barrier = run.barrier /\ run'.ran = ran /\ run'.sent = <<>>
          /\ run'.state = log
      BY <2>3, <2>5 DEF RunFields
    <3>2. StoredWell' /\ Refines /\ Abs!Sources' = Abs!Sources
      BY <2>5, NothingStored, SMTT(60) DEF WholeStepInv
    <3>3. /\ Abs!Config(run.ready, run.base, run.barrier)' \in Abs!Sources'
          /\ IsSeq(run.base)' /\ End \notin run'.ready
      BY <1>1, <3>1, <3>2, StepKeepsSource, SMTT(60)
    <3>4. log = Applied(run.base, ran, <<>>) /\ PendingSends(ran) = <<>>
      BY <2>5, SMTT(60) DEF Applied, sends, log
    <3>5. RunWhole'
      BY <2>1, <2>4, <3>1, <3>3, <3>4, SMTT(60) DEF RunWhole, InStep, IsSeq
    <3> QED
      BY <3>2, <3>5 DEF WholeStepInv
  <2>6. CASE run' = StartSends(r, sends) /\ UNCHANGED cps /\ sends # <<>>
    BY <1>1, <2>1, <2>3, <2>6, StartSendsWhole, SMTT(60) DEF sends, log
  <2>7. CASE /\ run' = [r EXCEPT !.pc = "anchor", !.last = Len(cps) + 1, !.todo = run.ready]
             /\ Save(cp) /\ sends # <<>>
    <3>1. /\ run'.pc = "anchor" /\ run'.ready = run.ready /\ run'.base = run.base
          /\ run'.barrier = run.barrier /\ run'.ran = ran /\ run'.sent = <<>>
          /\ run'.state = log
      BY <2>3, <2>7, SMTT(60) DEF RunFields
    <3>2. /\ cps' = Append(cps, cp)
          /\ cp.next = run.ready /\ cp.state = run.base /\ cp.barrier = run.barrier
      BY <2>7, CheckpointHolds, SMTT(60) DEF cp, Save
    <3>3. StoredWell' /\ Refines /\ Abs!Sources \subseteq Abs!Sources'
      BY <1>1, <3>2, StoresItsSource, SMTT(60)
    <3>4. /\ Abs!Config(run.ready, run.base, run.barrier)' \in Abs!Sources'
          /\ IsSeq(run.base)' /\ End \notin run'.ready
      BY <1>1, <3>1, <3>3, StepKeepsSource, SMTT(60)
    <3>5. IsSeq(run.state)'
      BY <2>4, <3>1, SMTT(60) DEF IsSeq
    <3>6. RunWhole'
      BY <2>1, <2>7, <3>1, <3>4, <3>5, SMTT(60) DEF RunWhole, InStep, sends, log
    <3> QED
      BY <3>3, <3>6, SMTT(60) DEF WholeStepInv
  <2> QED
    BY <2>2, <2>5, <2>6, <2>7, SMTT(60)
<1> QED
  BY <1>2, <1>3, <1>4, SMTT(60)

\* The outcome of the Sends stores the step's start or nothing.
LEMMA SendsWhole ==
  ASSUME LineageInv, WholeStepInv,
         AnchorRow \/ AnchorDone \/ BatchStops("sends") \/ SendsPause \/ SendsApplied
  PROVE  WholeStepInv' /\ Refines
<1>1. run.pc \in {"anchor", "sends"} /\ InStep
  BY SMTT(60) DEF AnchorRow, AnchorDone, BatchStops, SendsPause, SendsApplied, BatchDone, InStep
<1>2. /\ DOMAIN run = RunFields /\ run.sent = <<>> /\ IsSeq(run.base) /\ IsSeq(run.state)
      /\ DOMAIN run.ran = run.ready /\ PendingSends(run.ran) # <<>>
      /\ run.state = Append(run.base, RanEntry(run.ran))
  BY <1>1, SMTT(60) DEF WholeStepInv, RunWhole, LineageInv, RunFollows
<1>3. CASE AnchorRow
  <2>1. /\ UNCHANGED cps /\ run'.pc = run.pc /\ run'.ready = run.ready
        /\ run'.base = run.base /\ run'.barrier = run.barrier /\ run'.state = run.state
        /\ run'.sent = run.sent /\ run'.ran = run.ran
    BY <1>2, <1>3, SMTT(60) DEF AnchorRow, RunFields
  <2> QED
    BY <1>1, <2>1, NothingStored, SameStateWhole, SMTT(60) DEF WholeStepInv
<1>4. CASE AnchorDone
  <2>1. UNCHANGED cps /\ run' = StartSends(run, PendingSends(run.ran))
    BY <1>4 DEF AnchorDone
  <2> QED
    BY <1>1, <1>2, <2>1, StartSendsWhole, SMTT(60)
<1>5. CASE BatchStops("sends")
  BY <1>5, EndsWhole, SMTT(60) DEF BatchStops, StopRun
<1>6. CASE SendsPause
  BY <1>1, <1>6, PauseOnWhole, SMTT(60) DEF SendsPause
<1>7. CASE SendsApplied
  <2>1. CASE run' = Idle
    BY <1>7, <2>1, EndsWhole, SMTT(60) DEF SendsApplied
  <2>2. CASE run' # Idle
    <3> DEFINE sent == SentResults
               log  == Append(run.state, SentEntry(sent))
    <3>1. DOMAIN sent = DOMAIN PendingSends(run.ran)
      BY DEF SentResults
    <3>2. /\ run'.pc = "plan" /\ run'.ready = run.ready /\ run'.base = run.base
          /\ run'.barrier = run.barrier /\ run'.ran = run.ran /\ run'.sent = sent
          /\ run'.state = log /\ UNCHANGED cps
      BY <1>2, <1>7, <2>2, SMTT(60) DEF SendsApplied, RunFields
    <3> HIDE DEF sent
    <3>3. IsSeq(log)
      BY <1>2, AppendSeq, SMTT(60)
    <3>4. log = Applied(run.base, run.ran, sent)
      BY <1>2, SMTT(60) DEF Applied
    <3> HIDE DEF log
    <3>5. StoredWell' /\ Refines /\ Abs!Sources' = Abs!Sources
      BY <3>2, NothingStored, SMTT(60) DEF WholeStepInv
    <3>6. /\ Abs!Config(run.ready, run.base, run.barrier)' \in Abs!Sources'
          /\ IsSeq(run.base)' /\ End \notin run'.ready
      BY <1>1, <3>2, <3>5, StepKeepsSource, SMTT(60)
    <3>7. IsSeq(run.state)'
      BY <3>2, <3>3, SMTT(60) DEF IsSeq
    <3>8. /\ DOMAIN run'.ran = run'.ready /\ PendingSends(run'.ran) # <<>>
          /\ run'.state = Applied(run'.base, run'.ran, run'.sent)
          /\ DOMAIN run'.sent = DOMAIN PendingSends(run'.ran)
      BY <1>2, <3>1, <3>2, <3>4
    <3>9. RunWhole'
      BY <3>2, <3>6, <3>7, <3>8, AtPlanWhole
    <3> QED
      BY <3>5, <3>9 DEF WholeStepInv
  <2> QED
    BY <2>1, <2>2
<1> QED
  BY <1>3, <1>4, <1>5, <1>6, <1>7, SMTT(60)

\* A step that completes stores one super-step of its start.
LEMMA StepCompletesWhole ==
  ASSUME LineageInv, WholeStepInv, StepCompletes
  PROVE  WholeStepInv' /\ Refines
<1>1. run.pc = "plan" /\ InStep
  BY SMTT(60) DEF StepCompletes, InStep
<1>2. /\ DOMAIN run.ran = run.ready /\ run.state = Applied(run.base, run.ran, run.sent)
      /\ DOMAIN run.sent = DOMAIN PendingSends(run.ran)
      /\ PendingSends(run.ran) = <<>> => run.sent = <<>>
      /\ IsSeq(run.base) /\ IsSeq(run.state)
      /\ Abs!Config(run.ready, run.base, run.barrier) \in Abs!Sources
  BY <1>1 DEF WholeStepInv, RunWhole
<1> DEFINE routings       == UnifiedRoutings(run.ran, run.sent)
           Plan(labels)   == PlanNextStep(routings, labels, run.barrier)
           Ready(labels)  == NextReady(routings, Plan(labels))
<1>3. CASE UNCHANGED cps /\ run' = Idle
  BY <1>3, EndsWhole
<1>4. ASSUME NEW labels \in Labelings, NEW current, NEW phase,
             Save(Checkpoint(current, OrEnd(Ready(labels)), phase, run.state,
                             Plan(labels).barrier)),
             \/ run' = Idle
             \/ run' = [run EXCEPT !.pc = "commit", !.ready = Ready(labels),
                                   !.barrier = Plan(labels).barrier]
      PROVE  WholeStepInv' /\ Refines
  <2> DEFINE next    == Ready(labels)
             barrier == Plan(labels).barrier
             cp      == Checkpoint(current, OrEnd(next), phase, run.state, barrier)
             c       == Abs!Config(run.ready, run.base, run.barrier)
  <2>1. cps' = Append(cps, cp)
    BY <1>4 DEF Save
  <2>2. End \notin next
    BY EndNeverReady, SMTT(60)
  <2>3. Abs!Planned(c, run.ran, run.sent, labels) =
          [ready |-> next, log |-> run.state, barrier |-> barrier]
    BY <1>2, SamePlan DEF Abs!Config
  <2>4. \/ run' = Idle
        \/ run' = [run EXCEPT !.pc = "commit", !.ready = next, !.barrier = barrier]
    BY <1>4, SMTT(60)
  <2> HIDE DEF routings, Plan, Ready, next, barrier
  <2>5. cp.next = OrEnd(next) /\ cp.state = run.state /\ cp.barrier = barrier
    BY CheckpointHolds, SMTT(60)
  <2> HIDE DEF cp
  <2>6. (cp.next = {End} \/ End \notin cp.next) /\ cp.next \ {End} = next
    BY <2>2, <2>5, SMTT(60) DEF OrEnd
  <2>7. ConfigOf(cp) = Abs!Planned(c, run.ran, run.sent, labels)
    BY <2>3, <2>5, <2>6, SMTT(60) DEF ConfigOf
  <2>8. Abs!SuperStep(c, ConfigOf(cp))
    BY <1>2, <2>7, CompletesSuperStep, SMTT(60)
  <2>9. Abs!Next
    BY <1>2, <2>1, <2>8, StoresOne, SMTT(60) DEF LineageInv
  <2>10. /\ StoredWell' /\ Len(cps') = Len(cps) + 1 /\ Len(cps) \in Nat
         /\ cps'[Len(cps')] = cp
    BY <1>2, <2>1, <2>5, <2>6, SavedWell, SMTT(60) DEF WholeStepInv
  <2>11. RunWhole'
    <3>1. CASE run' = Idle
      BY <3>1, IdleWhole, SMTT(60)
    <3>2. CASE run' = [run EXCEPT !.pc = "commit", !.ready = next, !.barrier = barrier]
      <4>1. /\ run'.pc = "commit" /\ run'.ready = next /\ run'.barrier = barrier
            /\ run'.state = run.state
        BY <3>2, SMTT(60) DEF LineageInv, RunFollows, RunFields
      <4>2. Abs!Config(run.ready, run.state, run.barrier)' = ConfigOf(cps'[Len(cps')])
        BY <2>3, <2>7, <2>10, <4>1, SMTT(60) DEF Abs!Config
      <4>3. IsSeq(run.state)'
        BY <1>2, <4>1 DEF IsSeq
      <4> QED
        BY <4>1, <4>2, <4>3, SMTT(60) DEF RunWhole, InStep
    <3> QED
      BY <2>4, <3>1, <3>2, SMTT(60)
  <2> QED
    BY <2>9, <2>10, <2>11, SMTT(60) DEF WholeStepInv, Refines
<1> QED
  BY <1>3, <1>4, ZenonT(60) DEF StepCompletes, StopRun

\* Clearing the writes stores nothing; the next step starts from what was stored.
LEMMA CommitClearsWhole ==
  ASSUME LineageInv, WholeStepInv, CommitClears
  PROVE  WholeStepInv' /\ Refines
<1>1. UNCHANGED cps
  BY DEF CommitClears
<1>2. CASE run.pc = "budget"
  BY <1>1, <1>2, EndsWhole, SMTT(60) DEF CommitClears
<1>3. CASE run.pc = "commit"
  <2> DEFINE cp == cps[Len(cps)]
  <2>1. /\ run'.pc = "loop" /\ run'.ready = run.ready /\ run'.base = run.state
        /\ run'.state = run.state /\ run'.barrier = run.barrier /\ run'.sent = <<>>
    BY <1>3, SMTT(60) DEF CommitClears, LineageInv, RunFollows, RunFields
  <2>2. Len(cps) \in DOMAIN cps
    BY <1>3, StoreKept, <1>1, SMTT(60) DEF LineageInv, RunFollows
  <2>3. Abs!Config(run.ready, run.state, run.barrier) = ConfigOf(cp)
    BY <1>3 DEF WholeStepInv, RunWhole
  <2>4. ConfigOf(cp) \in Stored
    BY <2>2, SMTT(60) DEF Stored
  <2>5. End \notin run.ready
    BY <2>3, SMTT(60) DEF Abs!Config, ConfigOf
  <2>6. IsSeq(run.state)
    BY DEF WholeStepInv, RunWhole
  <2> QED
    BY <1>1, <2>1, <2>3, <2>4, <2>5, <2>6, LoopStartsWhole, SourcesOfStored, SMTT(60)
<1> QED
  BY <1>2, <1>3 DEF CommitClears

\* update_state stores an edit, fork a copy, of a stored configuration.
LEMMA AdministrationWhole ==
  ASSUME LineageInv, WholeStepInv,
         \/ \E thread \in Threads, as \in AsNodes : UpdateState(thread, as)
         \/ \E id \in DOMAIN cps, thread \in ForkThreads : Fork(id, thread)
         \/ ForkCopies
  PROVE  WholeStepInv' /\ Refines
<1>1. ASSUME NEW thread \in Threads, NEW as \in AsNodes, UpdateState(thread, as)
      PROVE  WholeStepInv' /\ Refines
  <2> DEFINE id == LatestOf(thread)
             log == Append(cps[id].state, UpdateEntry)
             cp == [cps[id] EXCEPT !.parent = id, !.phase = "updated",
                      !.admin = IF as = None THEN ResumePhase(cps[id]) ELSE "updated",
                      !.current = IF as = None THEN @ ELSE as,
                      !.state = Append(@, UpdateEntry)]
  <2>1. id \in DOMAIN cps
    BY <1>1, LatestOfThread, ZenonT(60) DEF UpdateState, LineageInv
  <2>2. DOMAIN cps[id] = CheckpointFields
    BY <2>1, SMTT(60) DEF LineageInv, Descends
  <2>3. cps' = Append(cps, cp) /\ UNCHANGED run /\ run.pc = "idle"
    BY <1>1, ZenonT(60) DEF UpdateState, Save, MayEdit
  <2> HIDE DEF id
  <2>4. cp.next = cps[id].next /\ cp.barrier = cps[id].barrier /\ cp.state = log
    BY <2>2, SMTT(60) DEF CheckpointFields
  <2> HIDE DEF cp
  <2>5. IsSeq(log) /\ (cp.next = {End} \/ End \notin cp.next)
    BY <2>1, <2>4, AppendSeq, SMTT(60) DEF WholeStepInv, StoredWell
  <2>6. ConfigOf(cps[id]) \in Stored /\ ConfigOf(cp) = Abs!Edited(ConfigOf(cps[id]))
    BY <2>1, <2>4, SameStart, ZenonT(60) DEF Stored, ConfigOf, Abs!Edited, Abs!Config
  <2>7. Abs!Next
    BY <2>3, <2>6, StoresOne DEF LineageInv
  <2>8. StoredWell'
    BY <2>3, <2>4, <2>5, SavedWell, ZenonT(60) DEF WholeStepInv
  <2>9. RunWhole'
    BY <2>3, ZenonT(60) DEF WholeStepInv, RunWhole, InStep, IsSeq
  <2> QED
    BY <2>7, <2>8, <2>9, SMTT(60) DEF WholeStepInv, Refines
<1>2. ASSUME NEW id \in DOMAIN cps, NEW thread \in ForkThreads, Fork(id, thread)
      PROVE  WholeStepInv' /\ Refines
  <2> DEFINE cp == [cps[id] EXCEPT !.thread = thread, !.parent = id, !.forked = id]
  <2>1. DOMAIN cps[id] = CheckpointFields
    BY SMTT(60) DEF LineageInv, Descends
  <2>2. cps' = Append(cps, cp) /\ run'.pc = "copy" /\ run'.state = <<>>
    BY <1>2, ZenonT(60) DEF Fork, Save, Idle
  <2>3. /\ cp.next = cps[id].next /\ cp.barrier = cps[id].barrier
        /\ cp.state = cps[id].state
    BY <2>1, SMTT(60) DEF CheckpointFields
  <2> HIDE DEF cp
  <2>4. IsSeq(cp.state) /\ (cp.next = {End} \/ End \notin cp.next)
    BY <2>3, SMTT(60) DEF WholeStepInv, StoredWell
  <2>5. ConfigOf(cp) \in Stored
    BY <2>3, ZenonT(60) DEF Stored, ConfigOf
  <2>6. Abs!Next
    BY <2>2, <2>5, StoresOne, SourcesOfStored, SMTT(60) DEF LineageInv
  <2>7. StoredWell'
    BY <2>2, <2>4, SavedWell DEF WholeStepInv
  <2>8. RunWhole'
    BY <2>2, EmptyIsSeq, ZenonT(60) DEF RunWhole, InStep, IsSeq
  <2> QED
    BY <2>6, <2>7, <2>8, SMTT(60) DEF WholeStepInv, Refines
<1>3. CASE ForkCopies
  <2>1. UNCHANGED cps
    BY <1>3, ZenonT(60) DEF ForkCopies
  <2>2. CASE run' = Idle
    BY <2>1, <2>2, EndsWhole
  <2>3. CASE run' # Idle
    <3>1. run'.pc = "copy" /\ run'.state = run.state
      BY <1>3, <2>3, ZenonT(60) DEF ForkCopies, LineageInv, RunFollows, RunFields
    <3>2. RunWhole'
      BY <3>1, ZenonT(60) DEF WholeStepInv, RunWhole, InStep, IsSeq
    <3> QED
      BY <2>1, <3>2, NothingStored DEF WholeStepInv
  <2> QED
    BY <2>2, <2>3
<1> QED
  BY <1>1, <1>2, <1>3, SMTT(60)

\* Every step keeps the invariant and maps to a step of SuperSteps or a stutter.
LEMMA NextWhole ==
  LineageInv /\ WholeStepInv /\ [Next]_vars => WholeStepInv' /\ Refines
<1> SUFFICES ASSUME LineageInv, WholeStepInv, [Next]_vars PROVE WholeStepInv' /\ Refines
  OBVIOUS
<1>1. ASSUME NEW thread \in Threads, FreshRun(thread) \/ ContinueThread(thread)
      PROVE  WholeStepInv' /\ Refines
  BY <1>1, StartsWhole, SMTT(60)
<1>2. ASSUME NEW thread \in Threads, Resume(thread) PROVE WholeStepInv' /\ Refines
  <2>1. CASE FreshRun(thread)
    BY <2>1, StartsWhole, SMTT(60)
  <2>2. CASE cps[LatestOf(thread)].next # {End} /\ ResumeRun(LatestOf(thread))
    BY <1>2, <2>2, LatestOfThread, ResumeRunWhole, SMTT(60) DEF Resume, LineageInv
  <2> QED
    BY <1>2, <2>1, <2>2 DEF Resume
<1>3. ASSUME NEW id \in DOMAIN cps, ResumeFrom(id) PROVE WholeStepInv' /\ Refines
  BY <1>3, ResumeRunWhole, SMTT(60) DEF ResumeFrom
<1>4. CASE Step
  BY <1>4, LoopWhole, TasksWhole, ReadyBatchWhole, SendsWhole, StepCompletesWhole,
     CommitClearsWhole, AdministrationWhole, SMTT(60) DEF Step
<1>5. CASE Crash
  BY <1>5, EndsWhole DEF Crash, StopRun
<1>6. CASE UNCHANGED vars
  <2>1. UNCHANGED <<cps, run>>
    BY <1>6 DEF vars
  <2>2. StoredWell' /\ Refines /\ Abs!Sources' = Abs!Sources
    BY <2>1, NothingStored, SMTT(60) DEF WholeStepInv
  <2>3. RunWhole'
    BY <2>1, <2>2, ZenonT(60) DEF WholeStepInv, RunWhole, InStep, IsSeq, Abs!Config, ConfigOf
  <2> QED
    BY <2>2, <2>3 DEF WholeStepInv
<1> QED
  BY <1>1, <1>2, <1>3, <1>4, <1>5, <1>6, AdministrationWhole, SMTT(60) DEF Next

\* The empty store maps to the initial state of SuperSteps.
LEMMA InitWhole == Init => WholeStepInv /\ Abs!Init
<1> SUFFICES ASSUME Init PROVE WholeStepInv /\ Abs!Init
  BY SMTT(60)
<1>1. DOMAIN cps = {} /\ run.pc = "idle" /\ run.state = <<>>
  BY DEF Init, Idle
<1>2. Abs!Init
  BY <1>1 DEF Abs!Init
<1> QED
  BY <1>1, <1>2, EmptyIsSeq, SMTT(60) DEF WholeStepInv, StoredWell, RunWhole, InStep

\* A run always holds the configuration its step started from, and the state
\* it reached is that one with the step's own results applied.
THEOREM WholeStepsHold == Spec => []WholeStepInv
  BY InitWhole, NextWhole, LineageHolds, PTL DEF Spec

\* Whatever stops, crashes, resumes, edits or forks a thread, every state
\* execute_graph_async, update_state and fork store is reached by whole
\* super-steps.
THEOREM ImplementsSuperSteps == Spec => StoresWholeSuperSteps
<1>1. Refines => [Abs!Next]_Stored
  BY DEF Refines
<1>2. LineageInv /\ WholeStepInv /\ [Next]_vars => [Abs!Next]_Stored
  BY <1>1, NextWhole
<1>3. Spec => [][Abs!Next]_Stored
  BY <1>2, LineageHolds, WholeStepsHold, PTL DEF Spec
<1>4. Spec => Abs!Init
  BY InitWhole DEF Spec
<1> QED
  BY <1>3, <1>4, PTL DEF StoresWholeSuperSteps, Abs!Spec, Stored

\* No crash leaves a step half done: what a thread stores is whole super-steps, and
\* the results recorded for a step (record_pending_write_async) are kept until its
\* Completed checkpoint is one of them, for every graph and every bound.
THEOREM StepsStayWhole == Spec => StepsAreKept
  BY ImplementsSuperSteps, ResultsOutliveTheirStep, PTL DEF StepsAreKept
=============================================================================
