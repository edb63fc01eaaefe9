--------------------------- MODULE GraphRunProofs ---------------------------
(* For every graph and every bound: a resume never meets an ancestry it      *)
(* refuses, the recorded results of a step outlive it, and no gate is passed  *)
(* unanswered.                                                               *)
EXTENDS GraphRun, WellFoundedInduction, TLAPS

-----------------------------------------------------------------------------
(* Sequences, and the latest checkpoint of a thread. *)

\* Appending to a sequence keeps what it held and adds one element at the end.
LEMMA AppendSeq ==
  ASSUME NEW s, IsSeq(s), NEW e
  PROVE  /\ Len(s) \in Nat /\ DOMAIN s = 1 .. Len(s)
         /\ IsSeq(Append(s, e))
         /\ Len(Append(s, e)) = Len(s) + 1
         /\ DOMAIN Append(s, e) = 1 .. Len(s) + 1
         /\ \A i \in 1 .. Len(s) : Append(s, e)[i] = s[i]
         /\ Append(s, e)[Len(s) + 1] = e
<1> DEFINE S == {s[i] : i \in DOMAIN s}
           T == S \cup {e}
           U == {Append(s, e)[i] : i \in DOMAIN Append(s, e)}
<1>1. s \in Seq(S) /\ s \in Seq(T)
  BY DEF IsSeq
<1>2. /\ Len(s) \in Nat /\ DOMAIN s = 1 .. Len(s)
      /\ Len(Append(s, e)) = Len(s) + 1
      /\ DOMAIN Append(s, e) = 1 .. Len(s) + 1
      /\ \A i \in 1 .. Len(s) : Append(s, e)[i] = s[i]
      /\ Append(s, e)[Len(s) + 1] = e
  BY <1>1
<1>3. Append(s, e) \in Seq(U)
  <2>1. Append(s, e) \in Seq(T)
    BY <1>1
  <2>2. T = U
    BY <1>2
  <2> QED
    BY <2>1, <2>2
<1> QED
  BY <1>2, <1>3 DEF IsSeq

\* A non-empty set of positions of a sequence has a largest one.
LEMMA LargestPosition ==
  ASSUME NEW n \in Nat, NEW ids, ids \subseteq 1 .. n, ids # {}
  PROVE  \E i \in ids : \A j \in ids : j <= i
<1> DEFINE R == {ss \in Nat \X Nat : ss[1] < ss[2]}
           T == {n - i : i \in ids}
<1>1. T \subseteq Nat
  OBVIOUS
<1>2. T # {}
  <2>1. PICK i \in ids : TRUE
    BY ZenonT(60)
  <2>2. n - i \in T
    BY <2>1
  <2> QED
    BY <2>2
<1>3. IsWellFoundedOn(R, Nat)
  BY NatLessThanWellFounded, Zenon DEF OpToRel
<1>4. PICK x \in T : \A y \in T : ~ (<<y, x>> \in R)
  BY <1>1, <1>2, <1>3, WFMin, Zenon
<1>5. \A y \in T : ~ (y < x)
  BY <1>1, <1>4, ZenonT(60)
<1>6. PICK i \in ids : x = n - i
  OBVIOUS
<1>7. \A j \in ids : n - j \in T
  OBVIOUS
<1>8. \A j \in ids : j <= i
  BY <1>5, <1>6, <1>7
<1> QED
  BY <1>8

\* The checkpoint a run or an update continues is one of its thread's.
LEMMA LatestOfThread ==
  ASSUME IsSeq(cps), NEW thread, LatestOf(thread) # 0
  PROVE  LatestOf(thread) \in DOMAIN cps /\ cps[LatestOf(thread)].thread = thread
<1> DEFINE ids == {i \in DOMAIN cps : cps[i].thread = thread}
<1>1. Len(cps) \in Nat /\ DOMAIN cps = 1 .. Len(cps)
  BY DEF IsSeq
<1>2. ids # {}
  BY DEF LatestOf
<1>3. \E i \in ids : \A j \in ids : j <= i
  BY <1>1, <1>2, LargestPosition, ZenonT(60)
<1>4. LatestOf(thread) \in ids
  BY <1>2, <1>3 DEF LatestOf
<1> QED
  BY <1>4

-----------------------------------------------------------------------------
(* LineageInv is inductive. *)

\* Saving a checkpoint that descends from its parent keeps the store in order.
LEMMA SavedDescends ==
  ASSUME LineageInv, NEW cp, cps' = Append(cps, cp),
         DOMAIN cp = CheckpointFields,
         cp.step \in Nat, cp.parent \in 0 .. Len(cps),
         cp.parent # 0 => /\ cps[cp.parent].step <= cp.step
                          /\ cps[cp.parent].thread = cp.thread \/ cp.forked = cp.parent
  PROVE  /\ IsSeq(cps)'
         /\ \A i \in DOMAIN cps' : Descends(i)'
         /\ Len(cps) \in Nat /\ Len(cps') = Len(cps) + 1
         /\ \A i \in 1 .. Len(cps) : cps'[i] = cps[i]
         /\ cps'[Len(cps) + 1] = cp
<1>1. /\ IsSeq(cps')
      /\ Len(cps) \in Nat /\ Len(cps') = Len(cps) + 1
      /\ DOMAIN cps = 1 .. Len(cps) /\ DOMAIN cps' = 1 .. Len(cps) + 1
      /\ \A i \in 1 .. Len(cps) : cps'[i] = cps[i]
      /\ cps'[Len(cps) + 1] = cp
  BY AppendSeq DEF LineageInv
<1>2. ASSUME NEW i \in DOMAIN cps' PROVE Descends(i)'
  <2>1. CASE i \in DOMAIN cps
    <3>1. Descends(i)
      BY <2>1 DEF LineageInv
    <3> QED
      BY <1>1, <2>1, <3>1 DEF Descends
  <2>2. CASE i = Len(cps) + 1
    BY <1>1, <2>2 DEF Descends
  <2> QED
    BY <1>1, <2>1, <2>2
<1> QED
  BY <1>1, <1>2 DEF IsSeq

\* What a run saves descends from the checkpoint it continues.
LEMMA RunSavesDescendant ==
  ASSUME LineageInv, run.pc \notin {"idle", "copy"},
         NEW cp, cps' = Append(cps, cp), DOMAIN cp = CheckpointFields,
         cp.step = run.step, cp.parent = run.last, cp.thread = run.thread
  PROVE  /\ IsSeq(cps)'
         /\ \A i \in DOMAIN cps' : Descends(i)'
         /\ Len(cps) \in Nat /\ Len(cps') = Len(cps) + 1
         /\ \A i \in 1 .. Len(cps) : cps'[i] = cps[i]
         /\ cps'[Len(cps) + 1] = cp
  BY SavedDescends DEF LineageInv, RunFollows

\* The checkpoints a run builds have the fields it gives them.
LEMMA CheckpointShape ==
  ASSUME NEW current, NEW next, NEW phase, NEW state, NEW barrier
  PROVE  LET cp == Checkpoint(current, next, phase, state, barrier)
         IN  /\ DOMAIN cp = CheckpointFields
             /\ cp.step = run.step /\ cp.parent = run.last /\ cp.thread = run.thread
  BY DEF Checkpoint, CheckpointFields

\* Nothing in flight follows nothing.
LEMMA IdleFollows ==
  ASSUME Len(cps') \in Nat, run' = Idle
  PROVE  RunFollows'
  BY DEF Idle, RunFollows, RunFields

\* An operation that saves nothing leaves the store in order.
LEMMA StoreKept ==
  ASSUME LineageInv, UNCHANGED cps
  PROVE  /\ IsSeq(cps)' /\ \A i \in DOMAIN cps' : Descends(i)'
         /\ Len(cps) \in Nat /\ DOMAIN cps = 1 .. Len(cps)
  BY DEF LineageInv, IsSeq, Descends

\* A run starts behind nothing: fresh, or one step past or at its checkpoint.
LEMMA StartsLineage ==
  ASSUME LineageInv,
         NEW thread \in Threads,
         FreshRun(thread) \/ ContinueThread(thread)
  PROVE  LineageInv'
<1>1. CASE FreshRun(thread)
  <2>1. RunFollows'
    BY <1>1, StoreKept DEF FreshRun, RunFollows, RunFields, Idle
  <2> QED
    BY <1>1, <2>1, StoreKept DEF FreshRun, LineageInv
<1>2. CASE ContinueThread(thread)
  <2> DEFINE id == LatestOf(thread)
  <2>1. id \in DOMAIN cps /\ cps[id].thread = thread
    BY <1>2, LatestOfThread DEF ContinueThread, LineageInv
  <2>2. cps[id].step \in Nat
    BY <2>1 DEF LineageInv, Descends
  <2> HIDE DEF id
  <2>3. /\ DOMAIN run' = RunFields
        /\ run'.pc = "loop" /\ run'.thread = thread
        /\ run'.step = cps[id].step + 1 /\ run'.last = id
    BY <1>2, ZenonT(60) DEF ContinueThread, RunFields, Idle, id
  <2>4. RunFollows'
    BY <1>2, <2>1, <2>2, <2>3, StoreKept DEF ContinueThread, RunFollows
  <2> QED
    BY <1>2, <2>4, StoreKept DEF ContinueThread, LineageInv
<1> QED
  BY <1>1, <1>2

\* A resume starts at the step of its checkpoint or the next, so never behind it.
LEMMA ResumeRunLineage ==
  ASSUME LineageInv, NEW id \in DOMAIN cps, ResumeRun(id)
  PROVE  LineageInv'
<1>1. UNCHANGED cps
  BY DEF ResumeRun
<1>2. PICK gates, answers : run' = Restored(id, gates, answers)
  BY ZenonT(60) DEF ResumeRun
<1>3. /\ DOMAIN run' = RunFields
      /\ run'.pc = "loop" /\ run'.thread = cps[id].thread
      /\ run'.step = ResumeStartStep(cps[id]) /\ run'.last = id
  BY <1>2, ZenonT(60) DEF Restored, RunFields, Idle
<1>4. /\ cps[id].step \in Nat
      /\ ResumeStartStep(cps[id]) \in Nat /\ cps[id].step <= ResumeStartStep(cps[id])
  BY DEF LineageInv, Descends, ResumeStartStep
<1>5. RunFollows'
  BY <1>1, <1>3, <1>4, StoreKept DEF RunFollows
<1> QED
  BY <1>1, <1>5, StoreKept DEF LineageInv

\* A run that saves nothing goes on behind the same checkpoint.
LEMMA GoesOnLineage ==
  ASSUME LineageInv, UNCHANGED cps,
         run.pc \notin {"idle", "copy"}, run'.pc # "commit",
         DOMAIN run' = RunFields, run'.thread = run.thread,
         run'.step = run.step, run'.last = run.last
  PROVE  LineageInv'
<1>1. RunFollows'
  BY StoreKept DEF LineageInv, RunFollows
<1> QED
  BY <1>1, StoreKept DEF LineageInv

\* Every end of a run leaves the store as it is.
LEMMA EndsLineage ==
  ASSUME LineageInv, UNCHANGED cps, run' = Idle
  PROVE  LineageInv'
  BY StoreKept, IdleFollows DEF LineageInv

\* A pause saves one descendant and ends the run.
LEMMA PausesLineage ==
  ASSUME LineageInv, run.pc \notin {"idle", "copy"},
         NEW cp, Save(cp), DOMAIN cp = CheckpointFields,
         cp.step = run.step, cp.parent = run.last, cp.thread = run.thread,
         run' = Idle
  PROVE  LineageInv'
<1>1. cps' = Append(cps, cp)
  BY DEF Save
<1> QED
  BY <1>1, RunSavesDescendant, IdleFollows DEF LineageInv

\* A run may also save one and continue that one, or stay behind its parent.
LEMMA SavesLineage ==
  ASSUME LineageInv, run.pc \notin {"idle", "copy"},
         NEW cp, Save(cp), DOMAIN cp = CheckpointFields,
         cp.step = run.step, cp.parent = run.last, cp.thread = run.thread,
         DOMAIN run' = RunFields, run'.thread = run.thread, run'.step = run.step,
         run'.last \in {run.last, Len(cps) + 1}
  PROVE  LineageInv'
<1>1. cps' = Append(cps, cp)
  BY DEF Save
<1>2. /\ IsSeq(cps)'
      /\ \A i \in DOMAIN cps' : Descends(i)'
      /\ Len(cps) \in Nat /\ Len(cps') = Len(cps) + 1
      /\ \A i \in 1 .. Len(cps) : cps'[i] = cps[i]
      /\ cps'[Len(cps) + 1] = cp
  BY <1>1, RunSavesDescendant
<1>3. RunFollows'
  BY <1>2 DEF LineageInv, RunFollows
<1> QED
  BY <1>2, <1>3 DEF LineageInv

\* The head of the loop (budget stop, gate pause, step entry) keeps the lineage.
LEMMA LoopLineage ==
  ASSUME LineageInv,
         LoopEnds \/ BudgetStop \/ GatePause \/ EnterStep
  PROVE  LineageInv'
<1> DEFINE Built(current, phase) ==
             Checkpoint(current, run.ready, phase, run.state, run.barrier)
<1>1. CASE LoopEnds
  BY <1>1, EndsLineage DEF LoopEnds
<1>2. CASE BudgetStop
  <2>1. /\ DOMAIN run' = RunFields /\ run'.thread = run.thread
        /\ run'.step = run.step /\ run'.last = run.last
    BY <1>2 DEF BudgetStop, LineageInv, RunFollows, RunFields
  <2>2. Save(Built(None, "completed")) /\ run.pc = "loop"
    BY <1>2 DEF BudgetStop
  <2> HIDE DEF Built
  <2>3. LET cp == Built(None, "completed")
        IN  DOMAIN cp = CheckpointFields /\ cp.step = run.step
            /\ cp.parent = run.last /\ cp.thread = run.thread
    BY CheckpointShape DEF Built
  <2> QED
    BY <2>1, <2>2, <2>3, SavesLineage
<1>3. CASE GatePause
  <2> DEFINE cp == [Built(FirstNode(UnansweredGates), "before")
                      EXCEPT !.gates = IF ResumedStep THEN run.gates ELSE NoFun]
  <2>1. Save(cp) /\ run.pc = "loop" /\ run' = Idle
    BY <1>3 DEF GatePause
  <2>2. /\ DOMAIN cp = CheckpointFields
        /\ cp.step = run.step /\ cp.parent = run.last /\ cp.thread = run.thread
    BY CheckpointShape DEF CheckpointFields
  <2> HIDE DEF cp
  <2> QED
    BY <2>1, <2>2, PausesLineage
<1>4. CASE EnterStep
  <2> DEFINE anchors == run.last = 0 /\ Cardinality(run.ready) > 1
  <2>1. /\ DOMAIN run' = RunFields /\ run'.thread = run.thread /\ run'.pc = "exec"
        /\ run'.step = run.step
        /\ run'.last = IF anchors THEN Len(cps) + 1 ELSE run.last
    <3> DEFINE out == Dispatch(StaticTasks(run.step, run.ready))
    <3>1. DOMAIN run = RunFields
      BY DEF LineageInv, RunFollows
    <3>2. IF anchors
          THEN run' = [run EXCEPT !.pc = "exec", !.out = out, !.last = Len(cps) + 1]
          ELSE run' = [run EXCEPT !.pc = "exec", !.out = out]
      BY <1>4, ZenonT(60) DEF EnterStep
    <3> HIDE DEF out
    <3> QED
      BY <3>1, <3>2, ZenonT(60) DEF RunFields
  <2>2. CASE anchors
    <3>1. Save(Built(None, "before")) /\ run.pc = "loop"
      BY <1>4, <2>2 DEF EnterStep
    <3> HIDE DEF Built
    <3>2. LET cp == Built(None, "before")
          IN  DOMAIN cp = CheckpointFields /\ cp.step = run.step
              /\ cp.parent = run.last /\ cp.thread = run.thread
      BY CheckpointShape DEF Built
    <3> QED
      BY <2>1, <2>2, <3>1, <3>2, SavesLineage
  <2>3. CASE ~anchors
    BY <1>4, <2>1, <2>3, GoesOnLineage DEF EnterStep
  <2> QED
    BY <2>2, <2>3
<1> QED
  BY <1>1, <1>2, <1>3, <1>4

\* A NodeInterrupt pause saves a child of the checkpoint its step started from.
LEMMA PauseOnLineage ==
  ASSUME LineageInv, run.pc \notin {"idle", "copy"},
         NEW current, NEW finished, PauseOn(current, finished)
  PROVE  LineageInv'
<1> DEFINE cp == [Checkpoint(current, run.ready, "node_interrupt", run.base, run.barrier)
                    EXCEPT !.interrupts = ListedInterrupts(run.out)]
<1>1. Save(cp) /\ run' = Idle
  BY DEF PauseOn
<1>2. /\ DOMAIN cp = CheckpointFields
      /\ cp.step = run.step /\ cp.parent = run.last /\ cp.thread = run.thread
  BY CheckpointShape DEF CheckpointFields
<1> HIDE DEF cp
<1> QED
  BY <1>1, <1>2, PausesLineage

\* Starting the Sends, or refusing them, saves nothing.
LEMMA StartSendsLineage ==
  ASSUME LineageInv, UNCHANGED cps, run.pc \notin {"idle", "copy"},
         NEW r, DOMAIN r = RunFields, r.thread = run.thread, r.step = run.step,
         r.last = run.last, NEW sends, run' = StartSends(r, sends)
  PROVE  LineageInv'
<1>1. CASE run' = Idle
  BY <1>1, EndsLineage
<1>2. CASE run' # Idle
  <2>1. /\ DOMAIN run' = RunFields /\ run'.pc = "sends" /\ run'.thread = run.thread
        /\ run'.step = run.step /\ run'.last = run.last
    BY <1>2 DEF StartSends, RunFields
  <2> QED
    BY <2>1, GoesOnLineage
<1> QED
  BY <1>1, <1>2

\* The outcome of the ready nodes (stop, pause, apply, anchor) keeps the lineage.
LEMMA ReadyBatchLineage ==
  ASSUME LineageInv,
         BatchStops("exec") \/ ReadyPauses \/ ReadyApplied
  PROVE  LineageInv'
<1>1. run.pc = "exec"
  BY DEF BatchStops, ReadyPauses, ReadyApplied, BatchDone
<1>2. CASE BatchStops("exec")
  BY <1>2, EndsLineage DEF BatchStops, StopRun
<1>3. CASE ReadyPauses
  BY <1>1, <1>3, PauseOnLineage DEF ReadyPauses
<1>4. CASE ReadyApplied
  <2> DEFINE ran   == ReadyResults
             sends == PendingSends(ran)
             r     == [run EXCEPT !.state = Append(@, RanEntry(ran)), !.ran = ran]
             cp    == Checkpoint(None, run.ready, "before", run.base, run.barrier)
  <2>1. /\ DOMAIN r = RunFields /\ r.thread = run.thread
        /\ r.step = run.step /\ r.last = run.last
    BY DEF LineageInv, RunFollows, RunFields
  <2>2. \/ run' = [r EXCEPT !.pc = "plan", !.out = NoFun] /\ UNCHANGED cps
        \/ run' = StartSends(r, sends) /\ UNCHANGED cps
        \/ run' = [r EXCEPT !.pc = "anchor", !.last = Len(cps) + 1, !.todo = run.ready]
              /\ Save(cp)
    BY <1>4 DEF ReadyApplied
  <2> HIDE DEF ran, sends, r, cp
  <2>3. CASE run' = [r EXCEPT !.pc = "plan", !.out = NoFun] /\ UNCHANGED cps
    <3>1. /\ DOMAIN run' = RunFields /\ run'.pc = "plan" /\ run'.thread = run.thread
          /\ run'.step = run.step /\ run'.last = run.last
      BY <2>1, <2>3 DEF RunFields
    <3> QED
      BY <1>1, <2>3, <3>1, GoesOnLineage
  <2>4. CASE run' = StartSends(r, sends) /\ UNCHANGED cps
    BY <1>1, <2>1, <2>4, StartSendsLineage
  <2>5. CASE run' = [r EXCEPT !.pc = "anchor", !.last = Len(cps) + 1, !.todo = run.ready]
              /\ Save(cp)
    <3>1. /\ DOMAIN run' = RunFields /\ run'.thread = run.thread
          /\ run'.step = run.step /\ run'.last = Len(cps) + 1
      BY <2>1, <2>5 DEF RunFields
    <3>2. /\ DOMAIN cp = CheckpointFields
          /\ cp.step = run.step /\ cp.parent = run.last /\ cp.thread = run.thread
      BY CheckpointShape DEF cp
    <3> QED
      BY <1>1, <2>5, <3>1, <3>2, SavesLineage
  <2> QED
    BY <2>2, <2>3, <2>4, <2>5
<1> QED
  BY <1>2, <1>3, <1>4

\* A task that ends saves no checkpoint.
LEMMA TasksLineage ==
  ASSUME LineageInv, NEW t,
         TaskFinishes(t) \/ TaskThrows(t)
  PROVE  LineageInv'
<1>1. /\ run.pc \in {"exec", "sends"} /\ UNCHANGED cps
      /\ \E o : run' = [run EXCEPT !.out[t] = o]
  BY DEF TaskFinishes, TaskThrows
<1>2. /\ DOMAIN run' = RunFields /\ run'.pc = run.pc /\ run'.thread = run.thread
      /\ run'.step = run.step /\ run'.last = run.last
  BY <1>1 DEF LineageInv, RunFollows, RunFields
<1> QED
  BY <1>1, <1>2, GoesOnLineage

\* The outcome of the Sends (stop, pause, apply) keeps the lineage.
LEMMA SendsLineage ==
  ASSUME LineageInv,
         AnchorRow \/ AnchorDone \/ BatchStops("sends") \/ SendsPause \/ SendsApplied
  PROVE  LineageInv'
<1>1. run.pc \in {"anchor", "sends"}
  BY DEF AnchorRow, AnchorDone, BatchStops, SendsPause, SendsApplied, BatchDone
<1>2. CASE AnchorRow
  <2>1. /\ DOMAIN run' = RunFields /\ run'.pc = run.pc /\ run'.thread = run.thread
        /\ run'.step = run.step /\ run'.last = run.last
    BY <1>2 DEF AnchorRow, LineageInv, RunFollows, RunFields
  <2> QED
    BY <1>1, <1>2, <2>1, GoesOnLineage DEF AnchorRow
<1>3. CASE AnchorDone
  <2>1. /\ UNCHANGED cps /\ run' = StartSends(run, PendingSends(run.ran))
        /\ DOMAIN run = RunFields
    BY <1>3 DEF AnchorDone, LineageInv, RunFollows
  <2> QED
    BY <1>1, <2>1, StartSendsLineage
<1>4. CASE BatchStops("sends")
  BY <1>4, EndsLineage DEF BatchStops, StopRun
<1>5. CASE SendsPause
  BY <1>1, <1>5, PauseOnLineage DEF SendsPause
<1>6. CASE SendsApplied
  <2>1. CASE run' = Idle
    BY <1>6, <2>1, EndsLineage DEF SendsApplied
  <2>2. CASE run' # Idle
    <3>1. /\ DOMAIN run' = RunFields /\ run'.pc = "plan" /\ run'.thread = run.thread
          /\ run'.step = run.step /\ run'.last = run.last
      BY <1>6, <2>2 DEF SendsApplied, LineageInv, RunFollows, RunFields
    <3> QED
      BY <1>1, <1>6, <3>1, GoesOnLineage DEF SendsApplied
  <2> QED
    BY <2>1, <2>2
<1> QED
  BY <1>2, <1>3, <1>4, <1>5, <1>6

\* A step that completes saves a child of its parent and the next step continues it.
LEMMA CommitLineage ==
  ASSUME LineageInv, StepCompletes \/ CommitClears
  PROVE  LineageInv'
<1>1. CASE StepCompletes
  <2>1. run.pc = "plan"
    BY <1>1, ZenonT(60) DEF StepCompletes
  <2>2. \/ run' = Idle /\ UNCHANGED cps
        \/ \E current, next, phase, barrier :
             /\ Save(Checkpoint(current, next, phase, run.state, barrier))
             /\ \/ run' = Idle
                \/ \E ready : run' = [run EXCEPT !.pc = "commit", !.ready = ready,
                                                !.barrier = barrier]
    BY <1>1, ZenonT(60) DEF StepCompletes, StopRun
  <2>3. CASE run' = Idle /\ UNCHANGED cps
    BY <2>3, EndsLineage
  <2>4. ASSUME NEW current, NEW next, NEW phase, NEW barrier,
               Save(Checkpoint(current, next, phase, run.state, barrier)),
               \/ run' = Idle
               \/ \E ready : run' = [run EXCEPT !.pc = "commit", !.ready = ready,
                                               !.barrier = barrier]
        PROVE  LineageInv'
    <3> DEFINE cp == Checkpoint(current, next, phase, run.state, barrier)
    <3>1. /\ DOMAIN cp = CheckpointFields
          /\ cp.step = run.step /\ cp.parent = run.last /\ cp.thread = run.thread
      BY CheckpointShape, SMTT(60)
    <3>2. Save(cp)
      BY <2>4, ZenonT(60)
    <3> HIDE DEF cp
    <3>3. CASE run' = Idle
      BY <2>1, <3>1, <3>2, <3>3, PausesLineage, SMTT(60)
    <3>4. CASE run' # Idle
      <4>1. /\ DOMAIN run' = RunFields /\ run'.thread = run.thread
            /\ run'.step = run.step /\ run'.last = run.last
        BY <2>4, <3>4, ZenonT(60) DEF LineageInv, RunFollows, RunFields
      <4> QED
        BY <2>1, <3>1, <3>2, <4>1, SavesLineage, SMTT(60)
    <3> QED
      BY <3>3, <3>4
  <2> QED
    BY <2>2, <2>3, <2>4, ZenonT(60)
<1>2. CASE CommitClears
  <2>1. CASE run.pc = "budget"
    BY <1>2, <2>1, EndsLineage DEF CommitClears
  <2>2. CASE run.pc = "commit"
    <3>1. /\ DOMAIN run' = RunFields /\ run'.pc = "loop" /\ run'.thread = run.thread
          /\ run'.step = run.step + 1 /\ run'.last = Len(cps)
      BY <1>2, <2>2 DEF CommitClears, LineageInv, RunFollows, RunFields
    <3>2. UNCHANGED cps
      BY <1>2 DEF CommitClears
    <3>3. RunFollows'
      BY <2>2, <3>1, <3>2, StoreKept DEF LineageInv, RunFollows
    <3> QED
      BY <3>2, <3>3, StoreKept DEF LineageInv
  <2> QED
    BY <1>2, <2>1, <2>2 DEF CommitClears
<1> QED
  BY <1>1, <1>2, SMTT(60)

\* update_state and fork save a child of the checkpoint they start from.
LEMMA AdministrationLineage ==
  ASSUME LineageInv,
         \/ \E thread \in Threads, as \in AsNodes : UpdateState(thread, as)
         \/ \E id \in DOMAIN cps, thread \in ForkThreads : Fork(id, thread)
         \/ ForkCopies
  PROVE  LineageInv'
<1>1. ASSUME NEW thread \in Threads, NEW as \in AsNodes, UpdateState(thread, as)
      PROVE  LineageInv'
  <2> DEFINE id == LatestOf(thread)
             cp == [cps[id] EXCEPT !.parent = id, !.phase = "updated",
                      !.admin = IF as = None THEN ResumePhase(cps[id]) ELSE "updated",
                      !.current = IF as = None THEN @ ELSE as,
                      !.state = Append(@, UpdateEntry)]
  <2>1. id \in DOMAIN cps /\ cps[id].thread = thread
    BY <1>1, LatestOfThread, ZenonT(60) DEF UpdateState, LineageInv
  <2>2. Descends(id) /\ Len(cps) \in Nat /\ DOMAIN cps = 1 .. Len(cps)
    BY <2>1, SMTT(60) DEF LineageInv, IsSeq
  <2>3. cps' = Append(cps, cp) /\ UNCHANGED run /\ run.pc = "idle"
    BY <1>1, ZenonT(60) DEF UpdateState, Save, MayEdit
  <2> HIDE DEF id
  <2>4. /\ DOMAIN cp = CheckpointFields /\ cp.step = cps[id].step
        /\ cp.parent = id /\ cp.thread = cps[id].thread
    BY <2>2, SMTT(60) DEF Descends, CheckpointFields
  <2> HIDE DEF cp
  <2>5. /\ IsSeq(cps)' /\ \A i \in DOMAIN cps' : Descends(i)'
        /\ Len(cps) \in Nat /\ Len(cps') = Len(cps) + 1
    <3>1. cp.step \in Nat /\ cp.parent \in 0 .. Len(cps) /\ cps[cp.parent].step <= cp.step
      BY <2>1, <2>2, <2>4, SMTT(60) DEF Descends
    <3> QED
      BY <2>3, <2>4, <3>1, SavedDescends, ZenonT(60)
  <2>6. RunFollows'
    BY <2>3, <2>5 DEF LineageInv, RunFollows
  <2> QED
    BY <2>5, <2>6, SMTT(60) DEF LineageInv
<1>2. ASSUME NEW id \in DOMAIN cps, NEW thread \in ForkThreads, Fork(id, thread)
      PROVE  LineageInv'
  <2> DEFINE cp == [cps[id] EXCEPT !.thread = thread, !.parent = id, !.forked = id]
  <2>1. Descends(id) /\ Len(cps) \in Nat /\ DOMAIN cps = 1 .. Len(cps)
    BY SMTT(60) DEF LineageInv, IsSeq
  <2>2. cps' = Append(cps, cp)
    BY <1>2, ZenonT(60) DEF Fork, Save
  <2>3. /\ DOMAIN cp = CheckpointFields /\ cp.step = cps[id].step
        /\ cp.parent = id /\ cp.forked = id
    BY <2>1, SMTT(60) DEF Descends, CheckpointFields
  <2>4. /\ DOMAIN run' = RunFields /\ run'.pc = "copy" /\ run'.step = 0
        /\ run'.last = Len(cps) + 1
    BY <1>2, ZenonT(60) DEF Fork, Idle, RunFields
  <2> HIDE DEF cp
  <2>5. /\ IsSeq(cps)' /\ \A i \in DOMAIN cps' : Descends(i)'
        /\ Len(cps) \in Nat /\ Len(cps') = Len(cps) + 1
    BY <2>1, <2>2, <2>3, SavedDescends, SMTT(60) DEF Descends
  <2>6. RunFollows'
    BY <2>4, <2>5 DEF RunFollows
  <2> QED
    BY <2>5, <2>6 DEF LineageInv
<1>3. CASE ForkCopies
  <2>1. UNCHANGED cps
    BY <1>3, ZenonT(60) DEF ForkCopies
  <2>2. CASE run' = Idle
    BY <2>1, <2>2, EndsLineage
  <2>3. CASE run' # Idle
    <3>1. /\ DOMAIN run' = RunFields /\ run'.pc = "copy" /\ run'.step = run.step
          /\ run'.last = run.last
      BY <1>3, <2>3, ZenonT(60) DEF ForkCopies, LineageInv, RunFollows, RunFields
    <3>2. RunFollows'
      BY <2>1, <3>1, StoreKept DEF LineageInv, RunFollows
    <3> QED
      BY <2>1, <3>2, StoreKept DEF LineageInv
  <2> QED
    BY <2>2, <2>3
<1> QED
  BY <1>1, <1>2, <1>3

\* The lineage holds in the empty store, before the first run.
LEMMA InitLineage == Init => LineageInv
<1> SUFFICES ASSUME Init PROVE LineageInv
  OBVIOUS
<1>1. IsSeq(cps) /\ Len(cps) = 0 /\ DOMAIN cps = {}
  BY DEF Init, IsSeq
<1>2. RunFollows
  BY <1>1 DEF Init, RunFollows, RunFields, Idle
<1> QED
  BY <1>1, <1>2 DEF LineageInv

\* Every step of the engine, of the host and of the machine it runs on keeps it.
LEMMA NextLineage == LineageInv /\ [Next]_vars => LineageInv'
<1> SUFFICES ASSUME LineageInv, [Next]_vars PROVE LineageInv'
  OBVIOUS
<1>1. ASSUME NEW thread \in Threads, FreshRun(thread) \/ ContinueThread(thread)
      PROVE  LineageInv'
  BY <1>1, StartsLineage
<1>2. ASSUME NEW thread \in Threads, Resume(thread) PROVE LineageInv'
  <2>1. CASE FreshRun(thread)
    BY <2>1, StartsLineage
  <2>2. CASE ResumeRun(LatestOf(thread))
    BY <1>2, <2>2, LatestOfThread, ResumeRunLineage, SMTT(60) DEF Resume, LineageInv
  <2> QED
    BY <1>2, <2>1, <2>2 DEF Resume
<1>3. ASSUME NEW id \in DOMAIN cps, ResumeFrom(id) PROVE LineageInv'
  BY <1>3, ResumeRunLineage DEF ResumeFrom
<1>4. CASE Step
  BY <1>4, LoopLineage, TasksLineage, ReadyBatchLineage, SendsLineage, CommitLineage,
     AdministrationLineage, SMTT(60) DEF Step
<1>5. CASE Crash
  BY <1>5, EndsLineage DEF Crash, StopRun
<1>6. CASE UNCHANGED vars
  <2>1. RunFollows'
    BY <1>6 DEF vars, LineageInv, RunFollows
  <2> QED
    BY <1>6, <2>1, StoreKept, SMTT(60) DEF vars, LineageInv
<1> QED
  BY <1>1, <1>2, <1>3, <1>4, <1>5, <1>6, AdministrationLineage, SMTT(60) DEF Next

\* In every behaviour, parents are saved before their children, for no later step,
\* and on the same thread unless the child was forked from them.
THEOREM LineageHolds == Spec => []LineageInv
  BY InitLineage, NextLineage, PTL DEF Spec

\* A resume never meets an ancestry it refuses: every parent the walk of
\* collect_resume_writes loads is on the thread, and a pause is never the child
\* of a later step's pause.
THEOREM AncestryIsAccepted == Spec => []AncestryAccepted
<1>1. LineageInv => AncestryAccepted
  <2> SUFFICES ASSUME LineageInv, NEW i \in DOMAIN cps, PauseChainContinues(cps[i], cps[i].step)
               PROVE  /\ cps[i].parent \in DOMAIN cps
                      /\ cps[cps[i].parent].thread = cps[i].thread
                      /\ cps[cps[i].parent].step <= cps[i].step
    BY DEF AncestryAccepted, ParentAccepted
  <2>1. Descends(i) /\ Len(cps) \in Nat /\ DOMAIN cps = 1 .. Len(cps)
    BY DEF LineageInv, IsSeq
  <2>2. cps[i].parent # 0 /\ ~IsExternalResumeBoundary(cps[i])
    BY DEF PauseChainContinues
  <2> QED
    BY <2>1, <2>2, SMTT(60) DEF Descends, IsExternalResumeBoundary
<1> QED
  BY <1>1, LineageHolds, PTL
-----------------------------------------------------------------------------
(* The recorded results of a step outlive it. *)

\* Nothing is a sequence.
LEMMA EmptyIsSeq == IsSeq(<<>>)
BY DEF IsSeq

\* Replacing an element of a sequence leaves a sequence.
LEMMA ExceptSeq ==
  ASSUME NEW s, IsSeq(s), NEW k, NEW e
  PROVE  LET t == [s EXCEPT ![k] = e]
         IN  /\ IsSeq(t) /\ DOMAIN t = DOMAIN s
             /\ \A i \in DOMAIN s : t[i] = IF i = k THEN e ELSE s[i]
<1> DEFINE t == [s EXCEPT ![k] = e]
           T == {t[i] : i \in DOMAIN t}
<1>1. Len(s) \in Nat /\ DOMAIN s = 1 .. Len(s)
  BY DEF IsSeq
<1>2. DOMAIN t = DOMAIN s /\ \A i \in DOMAIN s : t[i] = IF i = k THEN e ELSE s[i]
  OBVIOUS
<1>3. t \in [1 .. Len(s) -> T]
  BY <1>1, <1>2
<1>4. \A n \in Nat : \A U : \A f \in [1 .. n -> U] : f \in Seq(U)
  OBVIOUS
<1> HIDE DEF t, T
<1>5. t \in Seq(T)
  BY <1>1, <1>3, <1>4
<1> USE DEF t, T
<1> QED
  BY <1>2, <1>5 DEF IsSeq

RowsWell == IsSeq(rows) /\ \A id \in DOMAIN rows : IsSeq(rows[id])

\* What a step may discard: the results under a parent with a Completed child.
Discards ==
  \A id \in DOMAIN rows :
    Len(rows'[id]) < Len(rows[id]) =>
      \E j \in DOMAIN cps : cps[j].parent = id /\ cps[j].phase = "completed"

\* A step that records and discards nothing.
LEMMA RowsStay ==
  ASSUME RowsKept, UNCHANGED rows, run'.pc \notin {"commit", "budget"}
  PROVE  RowsKept' /\ Discards
<1>1. \A id \in DOMAIN rows : Len(rows[id]) \in Nat
  BY DEF RowsKept, IsSeq
<1>2. Discards
  BY <1>1 DEF Discards
<1> QED
  BY <1>2 DEF RowsKept, IsSeq

\* A save adds a checkpoint without results, and keeps those of the others.
LEMMA SaveKeepsRows ==
  ASSUME RowsKept, NEW cp, Save(cp)
  PROVE  RowsWell' /\ Discards
<1>1. /\ DOMAIN rows = 1 .. Len(rows) /\ IsSeq(rows') /\ Len(rows) \in Nat
      /\ DOMAIN rows' = 1 .. Len(rows) + 1
      /\ \A i \in 1 .. Len(rows) : rows'[i] = rows[i]
      /\ rows'[Len(rows) + 1] = <<>>
  BY AppendSeq DEF RowsKept, Save
<1>2. ASSUME NEW i \in DOMAIN rows' PROVE IsSeq(rows'[i])
  <2>1. CASE i \in 1 .. Len(rows)
    BY <1>1, <2>1 DEF RowsKept
  <2>2. CASE i = Len(rows) + 1
    BY <1>1, <2>2, EmptyIsSeq
  <2> QED
    BY <1>1, <2>1, <2>2
<1>3. \A id \in DOMAIN rows : Len(rows[id]) \in Nat
  BY DEF RowsKept, IsSeq
<1>4. Discards
  BY <1>1, <1>3 DEF Discards
<1>5. IsSeq(rows)'
  BY <1>1 DEF IsSeq
<1>6. \A i \in DOMAIN rows' : IsSeq(rows[i])'
  BY <1>2 DEF IsSeq
<1> QED
  BY <1>4, <1>5, <1>6 DEF RowsWell

\* A save by a run that neither commits nor runs out of budget.
LEMMA RowsSaved ==
  ASSUME RowsKept, NEW cp, Save(cp), run'.pc \notin {"commit", "budget"}
  PROVE  RowsKept' /\ Discards
BY SaveKeepsRows DEF RowsKept, RowsWell

\* A save of the Completed checkpoint of a step.
LEMMA RowsCommitted ==
  ASSUME LineageInv, RowsKept, NEW cp, Save(cp), cp.parent = run'.last, cp.phase = "completed"
  PROVE  RowsKept' /\ Discards
<1>1. /\ Len(cps) + 1 \in DOMAIN cps' /\ cps'[Len(cps) + 1] = cp
  BY AppendSeq DEF LineageInv, Save
<1>2. \E j \in DOMAIN cps' : cps'[j].parent = run'.last /\ cps'[j].phase = "completed"
  BY <1>1
<1> QED
  BY <1>2, SaveKeepsRows DEF RowsKept, RowsWell

\* A recorded result is added to those of its step.
LEMMA RowsPut ==
  ASSUME RowsKept, NEW id, NEW task, NEW result, PutRow(id, task, result),
         run'.pc \notin {"commit", "budget"}
  PROVE  RowsKept' /\ Discards
<1>1. CASE id \notin DOMAIN rows \/ id = 0
  <2>1. UNCHANGED rows
    <3>1. IsSeq(rows)
      BY DEF RowsKept
    <3>2. CASE id = 0
      BY <3>2 DEF PutRow
    <3>3. CASE id # 0
      <4> DEFINE e == Append(rows[id], [task |-> task, res |-> result])
      <4>1. rows' = [rows EXCEPT ![id] = e]
        BY <3>3 DEF PutRow
      <4>2. rows = [i \in DOMAIN rows |-> rows[i]]
        BY <3>1 DEF IsSeq
      <4> HIDE DEF e
      <4> QED
        BY <1>1, <3>3, <4>1, <4>2
    <3> QED
      BY <3>2, <3>3
  <2> QED
    BY <2>1, RowsStay
<1>2. CASE id \in DOMAIN rows /\ id # 0
  <2> DEFINE e == Append(rows[id], [task |-> task, res |-> result])
  <2>1. rows' = [rows EXCEPT ![id] = e]
    BY <1>2 DEF PutRow
  <2>2. IsSeq(e) /\ Len(rows[id]) \in Nat /\ Len(e) = Len(rows[id]) + 1
    BY <1>2, AppendSeq DEF RowsKept
  <2> HIDE DEF e
  <2>3. /\ IsSeq(rows') /\ DOMAIN rows' = DOMAIN rows
        /\ \A i \in DOMAIN rows : rows'[i] = IF i = id THEN e ELSE rows[i]
    BY <2>1, ExceptSeq DEF RowsKept
  <2>4. \A i \in DOMAIN rows : IsSeq(rows[i]) /\ Len(rows[i]) \in Nat
    BY DEF RowsKept, IsSeq
  <2>5. Discards
    BY <2>2, <2>3, <2>4 DEF Discards
  <2>6. \A i \in DOMAIN rows' : IsSeq(rows'[i])
    BY <2>2, <2>3, <2>4
  <2> QED
    BY <2>3, <2>5, <2>6 DEF RowsKept, IsSeq
<1> QED
  BY <1>1, <1>2

\* The results of a step are cleared when its Completed checkpoint is stored.
LEMMA RowsCleared ==
  ASSUME LineageInv, RowsKept, CommitClears
  PROVE  RowsKept' /\ Discards
<1>1. run'.pc \in {"idle", "loop"} /\ UNCHANGED cps /\ rows' = Cleared(run.last)
  BY DEF CommitClears, Idle, LineageInv, RunFollows, RunFields
<1>2. CASE run.last = 0
  BY <1>1, <1>2, RowsStay DEF Cleared
<1>3. CASE run.last # 0
  <2>1. rows' = [rows EXCEPT ![run.last] = <<>>]
    BY <1>1, <1>3 DEF Cleared
  <2>2. /\ IsSeq(rows') /\ DOMAIN rows' = DOMAIN rows
        /\ \A i \in DOMAIN rows : rows'[i] = IF i = run.last THEN <<>> ELSE rows[i]
    BY <2>1, ExceptSeq DEF RowsKept
  <2>3. \A i \in DOMAIN rows : IsSeq(rows[i]) /\ Len(rows[i]) \in Nat
    BY DEF RowsKept, IsSeq
  <2>4. \E j \in DOMAIN cps : cps[j].parent = run.last /\ cps[j].phase = "completed"
    BY DEF CommitClears, RowsKept
  <2>5. Discards
    BY <2>2, <2>3, <2>4 DEF Discards
  <2>6. \A i \in DOMAIN rows' : IsSeq(rows'[i])
    BY <2>2, <2>3, EmptyIsSeq
  <2> QED
    BY <1>1, <2>2, <2>5, <2>6 DEF RowsKept, IsSeq
<1> QED
  BY <1>2, <1>3

\* A run that ends, and one that starts, is neither committing nor out of budget.
LEMMA IdlePc == Idle.pc = "idle" /\ Idle.last = 0 /\ DOMAIN Idle = RunFields
  BY DEF Idle, RunFields

\* A run that starts discards nothing.
LEMMA StartsRows ==
  ASSUME RowsKept,
         \/ \E thread \in Threads : FreshRun(thread) \/ ContinueThread(thread)
         \/ \E id \in DOMAIN cps : ResumeRun(id)
  PROVE  RowsKept' /\ Discards
<1>1. ASSUME NEW thread \in Threads, FreshRun(thread) PROVE UNCHANGED rows /\ run'.pc = "loop"
  BY <1>1, ZenonT(60) DEF FreshRun, Idle
<1>2. ASSUME NEW thread \in Threads, ContinueThread(thread)
      PROVE  UNCHANGED rows /\ run'.pc = "loop"
  BY <1>2, ZenonT(60) DEF ContinueThread, Idle
<1>3. ASSUME NEW id \in DOMAIN cps, ResumeRun(id) PROVE UNCHANGED rows /\ run'.pc = "loop"
  <2>1. PICK gates, answers : run' = Restored(id, gates, answers)
    BY <1>3, ZenonT(60) DEF ResumeRun
  <2>2. run'.pc = "loop"
    BY <2>1, ZenonT(60) DEF Restored, Idle
  <2> QED
    BY <1>3, <2>2 DEF ResumeRun
<1> QED
  BY <1>1, <1>2, <1>3, RowsStay

\* The head of the loop discards nothing.
LEMMA LoopRows ==
  ASSUME LineageInv, RowsKept, LoopEnds \/ BudgetStop \/ GatePause \/ EnterStep
  PROVE  RowsKept' /\ Discards
<1>0. DOMAIN run = RunFields
  BY DEF LineageInv, RunFollows
<1>1. CASE LoopEnds
  BY <1>1, IdlePc, RowsStay DEF LoopEnds
<1>2. CASE BudgetStop
  <2> DEFINE cp == Checkpoint(None, run.ready, "completed", run.state, run.barrier)
  <2>1. Save(cp) /\ run'.last = run.last
    BY <1>0, <1>2 DEF BudgetStop, RunFields
  <2>2. cp.parent = run.last /\ cp.phase = "completed"
    BY DEF Checkpoint
  <2> HIDE DEF cp
  <2> QED
    BY <2>1, <2>2, RowsCommitted
<1>3. CASE GatePause
  <2>1. run' = Idle /\ \E cp : Save(cp)
    BY <1>3, ZenonT(60) DEF GatePause
  <2> QED
    BY <2>1, IdlePc, RowsSaved
<1>4. CASE EnterStep
  <2>1. run'.pc = "exec"
    <3>1. \E out, last : \/ run' = [run EXCEPT !.pc = "exec", !.out = out, !.last = last]
                         \/ run' = [run EXCEPT !.pc = "exec", !.out = out]
      BY <1>4, ZenonT(60) DEF EnterStep
    <3> QED
      BY <1>0, <3>1, ZenonT(60) DEF RunFields
  <2>2. UNCHANGED rows \/ \E cp : Save(cp)
    BY <1>4, ZenonT(60) DEF EnterStep
  <2> QED
    BY <2>1, <2>2, RowsStay, RowsSaved
<1> QED
  BY <1>1, <1>2, <1>3, <1>4

\* Nor do the tasks of a batch.
LEMMA TasksRows ==
  ASSUME LineageInv, RowsKept, NEW t, TaskFinishes(t) \/ TaskThrows(t)
  PROVE  RowsKept' /\ Discards
<1>1. /\ run.pc \in {"exec", "sends"}
      /\ \E o : run' = [run EXCEPT !.out[t] = o]
      /\ UNCHANGED rows \/ \E result : PutRow(run.last, t, result)
  BY ZenonT(60) DEF TaskFinishes, TaskThrows
<1>2. run'.pc \in {"exec", "sends"}
  BY <1>1 DEF LineageInv, RunFollows, RunFields
<1> QED
  BY <1>1, <1>2, RowsStay, RowsPut

\* Nor does the end of a batch: it pauses, stops, applies, or records an anchor.
LEMMA BatchRows ==
  ASSUME LineageInv, RowsKept,
         \/ BatchStops("exec") \/ ReadyPauses \/ ReadyApplied
         \/ AnchorRow \/ AnchorDone \/ BatchStops("sends") \/ SendsPause \/ SendsApplied
  PROVE  RowsKept' /\ Discards
<1>0. DOMAIN run = RunFields
  BY DEF LineageInv, RunFollows
<1>1. CASE BatchStops("exec") \/ BatchStops("sends")
  BY <1>1, IdlePc, RowsStay DEF BatchStops, StopRun
<1>2. CASE ReadyPauses \/ SendsPause
  <2>1. run' = Idle /\ \E cp : Save(cp)
    BY <1>2, ZenonT(60) DEF ReadyPauses, SendsPause, PauseOn
  <2> QED
    BY <2>1, IdlePc, RowsSaved
<1>3. ASSUME NEW r, NEW sends, DOMAIN r = RunFields PROVE StartSends(r, sends).pc \in {"sends", "idle"}
  BY <1>3, IdlePc DEF StartSends, RunFields
<1>4. CASE ReadyApplied
  <2> DEFINE ran   == ReadyResults
             sends == PendingSends(ran)
             r     == [run EXCEPT !.state = Append(@, RanEntry(ran)), !.ran = ran]
             cp    == Checkpoint(None, run.ready, "before", run.base, run.barrier)
  <2>1. DOMAIN r = RunFields
    BY <1>0
  <2>2. \/ run' = [r EXCEPT !.pc = "plan", !.out = NoFun] /\ UNCHANGED rows
        \/ run' = StartSends(r, sends) /\ UNCHANGED rows
        \/ run' = [r EXCEPT !.pc = "anchor", !.last = Len(cps) + 1, !.todo = run.ready]
              /\ Save(cp)
    BY <1>4 DEF ReadyApplied
  <2> HIDE DEF ran, sends, r, cp
  <2>3. run'.pc \in {"plan", "sends", "idle", "anchor"}
    BY <1>3, <2>1, <2>2, ZenonT(60) DEF RunFields
  <2> QED
    BY <2>2, <2>3, RowsStay, RowsSaved
<1>5. CASE AnchorRow
  <2>1. run'.pc = "anchor" /\ \E task, result : PutRow(run.last, task, result)
    BY <1>0, <1>5, ZenonT(60) DEF AnchorRow, RunFields
  <2> QED
    BY <2>1, RowsPut
<1>6. CASE AnchorDone
  BY <1>0, <1>3, <1>6, RowsStay DEF AnchorDone
<1>7. CASE SendsApplied
  <2>1. run' = Idle \/ \E sent, state : run' = [run EXCEPT !.pc = "plan", !.out = NoFun, !.sent = sent,
                                                          !.state = state]
    BY <1>7, ZenonT(60) DEF SendsApplied
  <2>2. run'.pc \in {"idle", "plan"}
    BY <1>0, <2>1, IdlePc, ZenonT(60) DEF RunFields
  <2> QED
    BY <1>7, <2>2, RowsStay DEF SendsApplied
<1> QED
  BY <1>1, <1>2, <1>4, <1>5, <1>6, <1>7

\* A step that completes stores its Completed checkpoint, then clears the results.
LEMMA CommitRows ==
  ASSUME LineageInv, RowsKept, StepCompletes
  PROVE  RowsKept' /\ Discards
<1>0. DOMAIN run = RunFields
  BY DEF LineageInv, RunFollows
<1>1. \/ run' = Idle /\ (UNCHANGED rows \/ \E cp : Save(cp))
      \/ \E next, barrier, ready :
           /\ Save(Checkpoint(None, next, "completed", run.state, barrier))
           /\ run' = [run EXCEPT !.pc = "commit", !.ready = ready, !.barrier = barrier]
  BY ZenonT(60) DEF StepCompletes, StopRun
<1>2. CASE run' = Idle /\ (UNCHANGED rows \/ \E cp : Save(cp))
  BY <1>2, IdlePc, RowsStay, RowsSaved
<1>3. ASSUME NEW next, NEW barrier, NEW ready,
             Save(Checkpoint(None, next, "completed", run.state, barrier)),
             run' = [run EXCEPT !.pc = "commit", !.ready = ready, !.barrier = barrier]
      PROVE  RowsKept' /\ Discards
  <2> DEFINE cp == Checkpoint(None, next, "completed", run.state, barrier)
  <2>1. run'.last = run.last
    BY <1>0, <1>3 DEF RunFields
  <2>2. cp.parent = run.last /\ cp.phase = "completed"
    BY DEF Checkpoint
  <2>3. Save(cp)
    BY <1>3, ZenonT(60)
  <2> HIDE DEF cp
  <2> QED
    BY <2>1, <2>2, <2>3, RowsCommitted
<1> QED
  BY <1>1, <1>2, <1>3, ZenonT(60)

\* Administration records copies and discards nothing.
LEMMA AdministrationRows ==
  ASSUME LineageInv, RowsKept,
         \/ \E thread \in Threads, as \in AsNodes : UpdateState(thread, as)
         \/ \E id \in DOMAIN cps, thread \in ForkThreads : Fork(id, thread)
         \/ ForkCopies
  PROVE  RowsKept' /\ Discards
<1>1. ASSUME NEW thread \in Threads, NEW as \in AsNodes, UpdateState(thread, as)
      PROVE  RowsKept' /\ Discards
  <2>1. (\E cp : Save(cp)) /\ run'.pc = "idle"
    BY <1>1, ZenonT(60) DEF UpdateState, MayEdit
  <2> QED
    BY <2>1, RowsSaved
<1>2. ASSUME NEW id \in DOMAIN cps, NEW thread \in ForkThreads, Fork(id, thread)
      PROVE  RowsKept' /\ Discards
  <2>1. (\E cp : Save(cp)) /\ run'.pc = "copy"
    BY <1>2, ZenonT(60) DEF Fork, Idle
  <2> QED
    BY <2>1, RowsSaved
<1>3. CASE ForkCopies
  <2>1. DOMAIN run = RunFields /\ run.pc = "copy"
    BY <1>3 DEF ForkCopies, LineageInv, RunFollows
  <2>2. \/ run' = Idle /\ UNCHANGED rows
        \/ \E t, result, replay : PutRow(run.last, t, result) /\ run' = [run EXCEPT !.replay = replay]
    BY <1>3, ZenonT(60) DEF ForkCopies
  <2>3. run'.pc \in {"idle", "copy"}
    BY <2>1, <2>2, IdlePc, ZenonT(60) DEF RunFields
  <2> QED
    BY <2>2, <2>3, RowsStay, RowsPut
<1> QED
  BY <1>1, <1>2, <1>3

\* Every step keeps the results that a step still needs.
LEMMA NextRows ==
  ASSUME LineageInv, RowsKept, Next
  PROVE  RowsKept' /\ Discards
<1>1. ASSUME NEW thread \in Threads, Resume(thread) PROVE RowsKept' /\ Discards
  <2>1. FreshRun(thread) \/ (LatestOf(thread) # 0 /\ ResumeRun(LatestOf(thread)))
    BY <1>1 DEF Resume
  <2>2. LatestOf(thread) # 0 => LatestOf(thread) \in DOMAIN cps
    BY LatestOfThread DEF LineageInv
  <2> QED
    BY <2>1, <2>2, StartsRows
<1>2. ASSUME NEW id \in DOMAIN cps, ResumeFrom(id) PROVE RowsKept' /\ Discards
  BY <1>2, StartsRows DEF ResumeFrom
<1>3. CASE Step
  BY <1>3, LoopRows, TasksRows, BatchRows, CommitRows, RowsCleared, AdministrationRows, SMTT(60)
     DEF Step
<1>4. CASE Crash
  BY <1>4, IdlePc, RowsStay DEF Crash, StopRun
<1> QED
  BY <1>1, <1>2, <1>3, <1>4, StartsRows, AdministrationRows, SMTT(60) DEF Next

\* RowsOutliveTheirStep: the recorded results of a step are discarded only when its
\* Completed checkpoint is stored (save_super_step_async, then clear_pending_writes), for
\* every graph and every bound.
THEOREM ResultsOutliveTheirStep == Spec => RowsOutliveTheirStep
<1>1. Init => RowsKept
  BY EmptyIsSeq, IdlePc DEF Init, RowsKept
<1>2. LineageInv /\ RowsKept /\ [Next]_vars => RowsKept' /\ [Discards]_vars
  <2>1. RowsKept /\ UNCHANGED vars => RowsKept'
    BY DEF vars, RowsKept, IsSeq
  <2> QED
    BY <2>1, NextRows
<1>3. [Discards]_vars =>
        [\A id \in DOMAIN rows :
           Len(rows'[id]) < Len(rows[id]) =>
             \E j \in DOMAIN cps : cps[j].parent = id /\ cps[j].phase = "completed"]_vars
  BY DEF Discards
<1> QED
  BY <1>1, <1>2, <1>3, LineageHolds, PTL DEF Spec, RowsOutliveTheirStep
-----------------------------------------------------------------------------
(* Every gate of a step is answered before its node runs. *)

\* What is stored stays, and what was resumed was resumed.
Grows ==
  /\ DOMAIN cps \subseteq DOMAIN cps'
  /\ \A i \in DOMAIN cps : cps'[i] = cps[i]
  /\ \A j : WasResumed(j) => WasResumed(j)'

\* An answer is inherited: what a checkpoint has answered upstream, so have its
\* children, and it keeps it.
LEMMA Inherits ==
  ASSUME LineageInv, Grows, NEW p \in DOMAIN cps, NEW id \in DOMAIN cps', id # 0,
         id = p \/ cps'[id].parent = p,
         NEW n, NEW step, GateAnswered(n, step, p)
  PROVE  GateAnswered(n, step, id)'
<1>1. PICK j \in Lineage(p) : /\ ResumePhase(cps[j]) = "before" /\ cps[j].current = n
                              /\ cps[j].step = step /\ WasResumed(j)
  BY DEF GateAnswered
<1>2. Len(cps) \in Nat /\ DOMAIN cps = 1 .. Len(cps)
  BY DEF LineageInv, IsSeq
<1>3. j \in DOMAIN cps /\ j \in DOMAIN cps' /\ cps'[j] = cps[j] /\ WasResumed(j)'
  BY <1>1 DEF Lineage, Grows
<1>4. ASSUME NEW S \in SUBSET DOMAIN cps', id # 0 => id \in S, HasParents(S)'
      PROVE  j \in S
  <2> DEFINE T == S \cap DOMAIN cps
  <2>1. p \in T
    BY <1>2, <1>4 DEF HasParents
  <2>2. ASSUME NEW i \in T, cps[i].parent # 0 PROVE cps[i].parent \in T
    <3>1. cps[i].parent \in DOMAIN cps
      BY <1>2, <2>2 DEF LineageInv, Descends
    <3>2. cps[i].parent \in S
      BY <1>4, <2>2 DEF HasParents, Grows
    <3> QED
      BY <3>1, <3>2
  <2>3. T \in SUBSET DOMAIN cps /\ HasParents(T)
    BY <2>2 DEF HasParents
  <2> QED
    BY <1>1, <2>1, <2>3 DEF Lineage
<1>5. j \in Lineage(id)'
  BY <1>3, <1>4 DEF Lineage
<1>6. ResumePhase(cps[j])' = "before"
  BY <1>1, <1>3 DEF ResumePhase
<1> QED
  BY <1>1, <1>3, <1>5, <1>6 DEF GateAnswered

\* Nothing was answered upstream of a run that continues no checkpoint.
LEMMA NoneAnswered ==
  ASSUME NEW n, NEW step
  PROVE  ~GateAnswered(n, step, 0)
<1>1. {} \in SUBSET DOMAIN cps /\ HasParents({})
  BY DEF HasParents
<1>2. Lineage(0) = {}
  BY <1>1 DEF Lineage
<1> QED
  BY <1>2 DEF GateAnswered

\* The resume of a pause at a gate answers it.
LEMMA SelfAnswered ==
  ASSUME LineageInv, IsSeq(resumed), NEW id \in DOMAIN cps, UNCHANGED cps,
         resumed' = Append(resumed, id), ResumePhase(cps[id]) = "before"
  PROVE  GateAnswered(cps[id].current, cps[id].step, id)'
<1>1. id # 0
  BY DEF LineageInv, IsSeq
<1>2. id \in Lineage(id)'
  BY <1>1 DEF Lineage
<1>3. WasResumed(id)'
  <2>1. Len(resumed) + 1 \in DOMAIN resumed' /\ resumed'[Len(resumed) + 1] = id
    BY AppendSeq
  <2> QED
    BY <2>1 DEF WasResumed
<1>4. ResumePhase(cps[id])' = "before"
  BY DEF ResumePhase
<1> QED
  BY <1>2, <1>3, <1>4 DEF GateAnswered

\* A step that starts no run and saves nothing, or one that starts a run.
LEMMA GrowsStill ==
  ASSUME UNCHANGED cps, IsSeq(resumed),
         UNCHANGED resumed \/ \E from : resumed' = Append(resumed, from)
  PROVE  Grows /\ IsSeq(resumed)'
<1>1. CASE UNCHANGED resumed
  BY <1>1 DEF Grows, WasResumed, IsSeq
<1>2. ASSUME NEW from, resumed' = Append(resumed, from) PROVE Grows /\ IsSeq(resumed)'
  <2>1. /\ DOMAIN resumed = 1 .. Len(resumed) /\ Len(resumed) \in Nat
        /\ DOMAIN resumed' = 1 .. Len(resumed) + 1
        /\ \A i \in 1 .. Len(resumed) : resumed'[i] = resumed[i]
        /\ IsSeq(resumed')
    BY <1>2, AppendSeq
  <2>2. ASSUME NEW j, WasResumed(j) PROVE WasResumed(j)'
    BY <2>1, <2>2 DEF WasResumed
  <2> QED
    BY <2>1, <2>2 DEF Grows, IsSeq
<1> QED
  BY <1>1, <1>2

\* What a stored checkpoint takes for answered stays answered.
LEMMA StoredStay ==
  ASSUME LineageInv, GatesInv, Grows, NEW i \in DOMAIN cps
  PROVE  StoredGates(i)'
<1>1. i \in DOMAIN cps' /\ cps'[i] = cps[i] /\ i # 0
  BY DEF Grows, LineageInv, IsSeq
<1>2. \A n, step : GateAnswered(n, step, i) => GateAnswered(n, step, i)'
  BY <1>1, Inherits
<1>3. StoredGates(i)
  BY DEF GatesInv
<1>4. ResumePhase(cps[i])' = ResumePhase(cps[i])
  BY <1>1 DEF ResumePhase
<1> QED
  BY <1>1, <1>2, <1>3, <1>4 DEF StoredGates

\* A saved checkpoint that takes for answered only what its parent had answered.
LEMMA SavedGates ==
  ASSUME LineageInv, GatesInv, NEW cp, Save(cp), UNCHANGED resumed,
         cp.parent \in 0 .. Len(cps),
         ResumePhase(cp) = "node_interrupt" =>
            \A n \in cp.next \cap InterruptBefore : GateAnswered(n, cp.step, cp.parent),
         ResumePhase(cp) = "before" =>
            \A n \in DOMAIN cp.gates : GateAnswered(n, cp.step, cp.parent)
  PROVE  /\ Grows /\ IsSeq(resumed)'
         /\ \A i \in DOMAIN cps' : StoredGates(i)'
         /\ Len(cps) + 1 \in DOMAIN cps' /\ cps'[Len(cps) + 1] = cp
<1>0. PICK new : new = Len(cps) + 1
  OBVIOUS
<1>1. /\ Len(cps) \in Nat /\ DOMAIN cps = 1 .. Len(cps) /\ DOMAIN cps' = 1 .. new
      /\ \A i \in 1 .. Len(cps) : cps'[i] = cps[i]
      /\ cps'[new] = cp
  BY <1>0, AppendSeq DEF LineageInv, Save
<1>2. Grows /\ IsSeq(resumed)'
  BY <1>0, <1>1 DEF Grows, WasResumed, GatesInv, IsSeq
<1>3. new \in DOMAIN cps' /\ new # 0
  BY <1>0, <1>1
<1>4. ASSUME NEW n, NEW step, GateAnswered(n, step, cp.parent) PROVE GateAnswered(n, step, new)'
  <2>1. cp.parent \in DOMAIN cps
    BY <1>1, <1>4, NoneAnswered
  <2> QED
    BY <1>1, <1>2, <1>3, <1>4, <2>1, Inherits
<1>5. ResumePhase(cps[new])' = ResumePhase(cp)
  BY <1>1 DEF ResumePhase
<1>6. StoredGates(new)'
  BY <1>1, <1>4, <1>5 DEF StoredGates
<1>7. ASSUME NEW i \in DOMAIN cps' PROVE StoredGates(i)'
  <2>1. CASE i \in DOMAIN cps
    BY <1>2, <2>1, StoredStay
  <2>2. CASE i = new
    BY <1>6, <2>2
  <2> QED
    BY <1>0, <1>1, <2>1, <2>2
<1> QED
  BY <1>0, <1>1, <1>2, <1>3, <1>7

\* What a run holds upstream depends on its step and its checkpoint only.
LEMMA RunAnswered ==
  ASSUME NEW n, NEW step, NEW last, step = run'.step, last = run'.last,
         GateAnswered(n, step, last)'
  PROVE  GateAnswered(n, run.step, run.last)'
<1>1. Lineage(run.last)' = Lineage(last)'
  BY DEF Lineage
<1> QED
  BY <1>1 DEF GateAnswered

\* What holds of nothing in flight.
LEMMA EndedGates ==
  ASSUME run'.pc \in {"idle", "copy"}
  PROVE  RunGates' /\ GatesHold'
  BY DEF RunGates, GatesHold

\* A run goes on in its step behind the same checkpoint or a child of it.
LEMMA InStepGates ==
  ASSUME LineageInv, GatesInv, Grows, run.pc \notin {"idle", "copy"},
         \A n \in run.ready \cap InterruptBefore : GateAnswered(n, run.step, run.last),
         run'.pc \in {"exec", "anchor", "sends", "plan"}, run'.start = run.start,
         run'.step = run.step, run'.ready = run.ready,
         \/ run'.last = run.last
         \/ /\ run'.last \in DOMAIN cps' /\ run'.last # 0
            /\ cps'[run'.last].parent = run.last
  PROVE  RunGates' /\ GatesHold'
<1>1. RunGates'
  BY DEF RunGates, GatesInv
<1>2. ASSUME NEW n \in run'.ready \cap InterruptBefore
      PROVE  GateAnswered(n, run.step, run.last)'
  <2>1. GateAnswered(n, run.step, run.last)
    OBVIOUS
  <2>2. run.last \in DOMAIN cps
    <3>1. run.last # 0
      BY <2>1, NoneAnswered
    <3> QED
      BY <3>1 DEF LineageInv, RunFollows, IsSeq
  <2>3. PICK last : last = run'.last
    OBVIOUS
  <2>4. last \in DOMAIN cps' /\ last # 0 /\ (last = run.last \/ cps'[last].parent = run.last)
    BY <2>2, <2>3 DEF Grows, LineageInv, IsSeq
  <2>5. PICK step : step = run.step
    OBVIOUS
  <2>6. PICK p : p = run.last
    OBVIOUS
  <2>7. GateAnswered(n, step, p)
    BY <2>1, <2>5, <2>6
  <2>8. GateAnswered(n, step, last)'
    BY <2>2, <2>4, <2>6, <2>7, Inherits
  <2> QED
    BY <2>3, <2>5, <2>8, RunAnswered
<1> QED
  BY <1>1, <1>2 DEF GatesHold

\* A fresh run and a new turn take nothing for answered.
LEMMA StartsGates ==
  ASSUME LineageInv, GatesInv, NEW thread \in Threads, FreshRun(thread) \/ ContinueThread(thread)
  PROVE  GatesInv'
<1>1. UNCHANGED cps /\ resumed' = Append(resumed, 0)
  BY DEF FreshRun, ContinueThread, Starts
<1>2. Grows /\ IsSeq(resumed)'
  BY <1>1, GrowsStill DEF GatesInv
<1>3. \A i \in DOMAIN cps' : StoredGates(i)'
  BY <1>1, <1>2, StoredStay
<1>4. run'.pc = "loop" /\ run'.from = 0 /\ run'.start \in Nat /\ run'.start <= run'.step
  <2>1. CASE FreshRun(thread)
    BY <2>1 DEF FreshRun, Idle
  <2>2. CASE ContinueThread(thread)
    <3>1. PICK id : id = LatestOf(thread)
      OBVIOUS
    <3>2. id \in DOMAIN cps
      BY <2>2, <3>1, LatestOfThread DEF ContinueThread, LineageInv
    <3>3. cps[id].step + 1 \in Nat /\ cps[id].step + 1 <= cps[id].step + 1
      BY <3>2 DEF LineageInv, Descends
    <3>4. run'.pc = "loop" /\ run'.from = 0 /\ run'.start = cps[id].step + 1
          /\ run'.step = cps[id].step + 1
      BY <2>2, <3>1, ZenonT(60) DEF ContinueThread, Idle
    <3> QED
      BY <3>3, <3>4
  <2> QED
    BY <2>1, <2>2
<1>5. RunGates' /\ GatesHold'
  BY <1>4 DEF RunGates, GatesHold, ResumedStep
<1> QED
  BY <1>2, <1>3, <1>5 DEF GatesInv

\* A resume takes for answered what its checkpoint does, and the gate it answers.
LEMMA ResumeRunGates ==
  ASSUME LineageInv, GatesInv, NEW id \in DOMAIN cps, ResumeRun(id)
  PROVE  GatesInv'
<1> DEFINE gate  == ResumePhase(cps[id]) = "before" /\ cps[id].current \in InterruptBefore
           value == Len(resumed) + 1
           gates == IF gate THEN [n \in DOMAIN cps[id].gates \cup {cps[id].current} |->
                                    IF n = cps[id].current THEN value ELSE cps[id].gates[n]]
                    ELSE NoFun
<1>1. UNCHANGED cps /\ resumed' = Append(resumed, id)
  BY ZenonT(60) DEF ResumeRun, Starts
<1>2. Grows /\ IsSeq(resumed)'
  BY <1>1, GrowsStill DEF GatesInv
<1>3. \A i \in DOMAIN cps' : StoredGates(i)'
  BY <1>1, <1>2, StoredStay
<1>4. PICK answers : run' = Restored(id, gates, answers)
  BY ZenonT(60) DEF ResumeRun
<1>5. \A n \in DOMAIN gates : gate /\ (n \in DOMAIN cps[id].gates \/ n = cps[id].current)
  BY DEF NoFun
<1> HIDE DEF gates
<1>6. PICK step : step = ResumeStartStep(cps[id])
  OBVIOUS
<1>7. /\ run'.pc = "loop" /\ run'.start = step /\ run'.step = step
      /\ run'.ready = cps[id].next /\ run'.last = id /\ run'.gates = gates
  BY <1>4, <1>6, ZenonT(60) DEF Restored, Idle
<1>8. run'.passed => ResumePhase(cps[id]) = "node_interrupt"
  BY <1>4, ZenonT(60) DEF Restored, Idle
<1>9. cps[id].step \in Nat /\ step \in Nat
  BY <1>6 DEF LineageInv, Descends, ResumeStartStep
<1>10. StoredGates(id)' /\ ResumePhase(cps[id])' = ResumePhase(cps[id])
  BY <1>1, <1>3 DEF ResumePhase
<1>11. ASSUME run'.passed, NEW n \in run'.ready \cap InterruptBefore
       PROVE  GateAnswered(n, run.step, run.last)'
  <2>1. step = cps[id].step
    BY <1>6, <1>8, <1>11 DEF ResumeStartStep
  <2>2. GateAnswered(n, step, id)'
    BY <1>1, <1>7, <1>8, <1>10, <1>11, <2>1 DEF StoredGates
  <2> QED
    BY <1>7, <2>2, RunAnswered
<1>12. ASSUME NEW n \in DOMAIN run'.gates PROVE GateAnswered(n, run.step, run.last)'
  <2>1. gate /\ (n \in DOMAIN cps[id].gates \/ n = cps[id].current)
    BY <1>5, <1>7
  <2>2. step = cps[id].step
    BY <1>6, <2>1 DEF ResumeStartStep
  <2>3. CASE n \in DOMAIN cps[id].gates
    <3>1. GateAnswered(n, step, id)'
      BY <1>1, <1>10, <2>1, <2>2, <2>3 DEF StoredGates
    <3> QED
      BY <1>7, <3>1, RunAnswered
  <2>4. CASE n = cps[id].current
    <3>1. GateAnswered(n, step, id)'
      BY <1>1, <2>1, <2>2, <2>4, SelfAnswered DEF GatesInv
    <3> QED
      BY <1>7, <3>1, RunAnswered
  <2> QED
    BY <2>1, <2>3, <2>4
<1>13. RunGates' /\ GatesHold'
  BY <1>7, <1>9, <1>11, <1>12 DEF RunGates, GatesHold
<1> QED
  BY <1>2, <1>3, <1>13 DEF GatesInv

\* Nothing is saved or resumed, and the run ends.
LEMMA EndsGates ==
  ASSUME LineageInv, GatesInv, UNCHANGED <<cps, resumed>>, run'.pc \in {"idle", "copy"}
  PROVE  GatesInv'
<1>1. Grows /\ IsSeq(resumed)'
  BY GrowsStill DEF GatesInv
<1> QED
  BY <1>1, StoredStay, EndedGates DEF GatesInv

\* Nothing is saved or resumed, and the run goes on in its step.
LEMMA GoesOnGates ==
  ASSUME LineageInv, GatesInv, UNCHANGED <<cps, resumed>>, run.pc \notin {"idle", "copy"},
         \A n \in run.ready \cap InterruptBefore : GateAnswered(n, run.step, run.last),
         run'.pc \in {"exec", "anchor", "sends", "plan"}, run'.start = run.start,
         run'.step = run.step, run'.ready = run.ready, run'.last = run.last
  PROVE  GatesInv'
<1>1. Grows /\ IsSeq(resumed)'
  BY GrowsStill DEF GatesInv
<1> QED
  BY <1>1, StoredStay, InStepGates DEF GatesInv

\* A run continues a stored checkpoint or none.
LEMMA RunContinues ==
  ASSUME LineageInv
  PROVE  run.last \in 0 .. Len(cps) /\ Len(cps) \in Nat
  BY DEF LineageInv, RunFollows, IsSeq

\* The checkpoints of a run that is not paused inside a node take nothing for answered.
LEMMA CheckpointGates ==
  ASSUME NEW current, NEW next, NEW phase, NEW state, NEW barrier,
         phase \in {"before", "after", "completed"}
  PROVE  /\ Checkpoint(current, next, phase, state, barrier).parent = run.last
         /\ DOMAIN Checkpoint(current, next, phase, state, barrier).gates = {}
         /\ ResumePhase(Checkpoint(current, next, phase, state, barrier)) # "node_interrupt"
<1> DEFINE cp == Checkpoint(current, next, phase, state, barrier)
<1>1. cp.parent = run.last /\ cp.phase = phase /\ DOMAIN cp.gates = {}
  BY DEF Checkpoint, NoFun
<1>2. ResumePhase(cp) # "node_interrupt"
  BY <1>1 DEF ResumePhase
<1> QED
  BY <1>1, <1>2

\* A run saves a checkpoint that takes nothing for answered, and ends, commits, or
\* goes on in its step behind it.
LEMMA SavesGates ==
  ASSUME LineageInv, GatesInv, run.pc \notin {"idle", "copy"},
         NEW current, NEW next, NEW phase, NEW state, NEW barrier,
         Save(Checkpoint(current, next, phase, state, barrier)), UNCHANGED resumed,
         phase \in {"before", "after", "completed"},
         \/ run'.pc = "idle"
         \/ run'.pc \in {"commit", "budget"} /\ run'.start = run.start /\ run'.step = run.step
         \/ /\ \A n \in run.ready \cap InterruptBefore : GateAnswered(n, run.step, run.last)
            /\ run'.pc \in {"exec", "anchor", "sends", "plan"} /\ run'.start = run.start
            /\ run'.step = run.step /\ run'.ready = run.ready /\ run'.last = Len(cps) + 1
  PROVE  GatesInv'
<1> DEFINE cp == Checkpoint(current, next, phase, state, barrier)
<1>1. Save(cp)
  BY ZenonT(60)
<1>2. cp.parent = run.last /\ DOMAIN cp.gates = {} /\ ResumePhase(cp) # "node_interrupt"
  BY CheckpointGates
<1> HIDE DEF cp
<1>3. cp.parent \in 0 .. Len(cps) /\ Len(cps) \in Nat
  BY <1>2, RunContinues, ZenonT(60)
<1>4. /\ Grows /\ IsSeq(resumed)'
      /\ \A i \in DOMAIN cps' : StoredGates(i)'
      /\ Len(cps) + 1 \in DOMAIN cps' /\ cps'[Len(cps) + 1] = cp
  BY <1>1, <1>2, <1>3, SavedGates, ZenonT(60)
<1>5. RunGates' /\ GatesHold'
  <2>1. CASE run'.pc = "idle"
    BY <2>1, EndedGates, ZenonT(60)
  <2>2. CASE run'.pc \in {"commit", "budget"} /\ run'.start = run.start /\ run'.step = run.step
    BY <2>2, SMTT(60) DEF RunGates, GatesHold, GatesInv
  <2>3. CASE run'.pc \in {"exec", "anchor", "sends", "plan"}
    BY <1>2, <1>3, <1>4, <2>3, InStepGates
  <2> QED
    BY <2>1, <2>2, <2>3
<1> QED
  BY <1>4, <1>5 DEF GatesInv

\* A step starts only when every gate of its ready nodes is answered upstream.
LEMMA EnteredAnswered ==
  ASSUME GatesInv, run.pc = "loop", UnansweredGates = {}
  PROVE  \A n \in run.ready \cap InterruptBefore : GateAnswered(n, run.step, run.last)
<1>1. CASE ResumedStep /\ run.passed
  BY <1>1 DEF GatesInv, RunGates
<1>2. CASE ~(ResumedStep /\ run.passed)
  <2>1. \A n \in run.ready \cap InterruptBefore : ResumedStep /\ n \in DOMAIN run.gates
    BY <1>2 DEF UnansweredGates
  <2> QED
    BY <2>1 DEF GatesInv, RunGates
<1> QED
  BY <1>1, <1>2

\* The head of the loop: a pause at a gate carries on the answers of its run.
LEMMA LoopGates ==
  ASSUME LineageInv, GatesInv, LoopEnds \/ BudgetStop \/ GatePause \/ EnterStep
  PROVE  GatesInv'
<1>0. DOMAIN run = RunFields
  BY DEF LineageInv, RunFollows
<1>1. CASE LoopEnds
  BY <1>1, IdlePc, EndsGates DEF LoopEnds
<1>2. CASE BudgetStop
  <2>1. run'.pc = "budget" /\ run'.start = run.start /\ run'.step = run.step
    BY <1>0, <1>2 DEF BudgetStop, RunFields
  <2>2. /\ Save(Checkpoint(None, run.ready, "completed", run.state, run.barrier))
        /\ run.pc = "loop" /\ UNCHANGED resumed
    BY <1>2 DEF BudgetStop
  <2> QED
    BY <2>1, <2>2, SavesGates, SMTT(60)
<1>3. CASE GatePause
  <2> DEFINE made == Checkpoint(FirstNode(UnansweredGates), run.ready, "before", run.state,
                                run.barrier)
             kept == IF ResumedStep THEN run.gates ELSE NoFun
             cp   == [made EXCEPT !.gates = kept]
  <2>1. Save(cp) /\ run.pc = "loop" /\ run' = Idle /\ UNCHANGED resumed
    BY <1>3 DEF GatePause
  <2>2. /\ cp.parent = run.last /\ cp.phase = "before" /\ cp.gates = kept
        /\ cp.step = run.step
    BY DEF Checkpoint
  <2>3. \A n \in DOMAIN kept : GateAnswered(n, run.step, run.last)
    BY <2>1 DEF GatesInv, RunGates, NoFun
  <2> HIDE DEF cp, kept
  <2>4. ResumePhase(cp) = "before" /\ cp.parent \in 0 .. Len(cps)
    BY <2>2 DEF ResumePhase, LineageInv, RunFollows
  <2>5. IsSeq(resumed)' /\ \A i \in DOMAIN cps' : StoredGates(i)'
    BY <2>1, <2>2, <2>3, <2>4, SavedGates
  <2> QED
    BY <2>1, <2>5, IdlePc, EndedGates DEF GatesInv
<1>4. CASE EnterStep
  <2> DEFINE anchors == run.last = 0 /\ Cardinality(run.ready) > 1
  <2>1. /\ run'.pc = "exec" /\ run'.start = run.start /\ run'.step = run.step
        /\ run'.ready = run.ready
        /\ run'.last = IF anchors THEN Len(cps) + 1 ELSE run.last
    <3> DEFINE out == Dispatch(StaticTasks(run.step, run.ready))
    <3>1. IF anchors
          THEN run' = [run EXCEPT !.pc = "exec", !.out = out, !.last = Len(cps) + 1]
          ELSE run' = [run EXCEPT !.pc = "exec", !.out = out]
      BY <1>4, ZenonT(60) DEF EnterStep
    <3> HIDE DEF out
    <3> QED
      BY <1>0, <3>1, ZenonT(60) DEF RunFields
  <2>2. \A n \in run.ready \cap InterruptBefore : GateAnswered(n, run.step, run.last)
    BY <1>4, EnteredAnswered DEF EnterStep
  <2>3. CASE anchors
    <3>1. /\ Save(Checkpoint(None, run.ready, "before", run.state, run.barrier))
          /\ run.pc = "loop" /\ UNCHANGED resumed
      BY <1>4, <2>3 DEF EnterStep
    <3> QED
      BY <2>1, <2>2, <2>3, <3>1, SavesGates, SMTT(60)
  <2>4. CASE ~anchors
    BY <1>4, <2>1, <2>2, <2>4, GoesOnGates DEF EnterStep
  <2> QED
    BY <2>3, <2>4
<1> QED
  BY <1>1, <1>2, <1>3, <1>4

\* The tasks of a step run behind the checkpoint their gates were answered behind.
LEMMA TasksGates ==
  ASSUME LineageInv, GatesInv, NEW t, TaskFinishes(t) \/ TaskThrows(t)
  PROVE  GatesInv'
<1>1. /\ run.pc \in {"exec", "sends"} /\ UNCHANGED <<cps, resumed>>
      /\ \E o : run' = [run EXCEPT !.out[t] = o]
  BY ZenonT(60) DEF TaskFinishes, TaskThrows
<1>2. /\ run'.pc = run.pc /\ run'.start = run.start /\ run'.step = run.step
      /\ run'.ready = run.ready /\ run'.last = run.last
  BY <1>1 DEF LineageInv, RunFollows, RunFields
<1>3. \A n \in run.ready \cap InterruptBefore : GateAnswered(n, run.step, run.last)
  BY <1>1 DEF GatesInv, GatesHold
<1> QED
  BY <1>1, <1>2, <1>3, GoesOnGates

\* A pause inside a node is saved behind the answers to every gate of its step.
LEMMA PauseOnGates ==
  ASSUME LineageInv, GatesInv, run.pc \in {"exec", "sends"},
         NEW current, NEW finished, PauseOn(current, finished)
  PROVE  GatesInv'
<1> DEFINE cp == [Checkpoint(current, run.ready, "node_interrupt", run.base, run.barrier)
                    EXCEPT !.interrupts = ListedInterrupts(run.out)]
<1>1. Save(cp) /\ run' = Idle /\ UNCHANGED resumed
  BY DEF PauseOn
<1>2. /\ cp.parent = run.last /\ cp.phase = "node_interrupt" /\ cp.next = run.ready
      /\ cp.step = run.step
  BY DEF Checkpoint
<1>3. \A n \in run.ready \cap InterruptBefore : GateAnswered(n, run.step, run.last)
  BY DEF GatesInv, GatesHold
<1> HIDE DEF cp
<1>4. ResumePhase(cp) = "node_interrupt" /\ cp.parent \in 0 .. Len(cps)
  BY <1>2 DEF ResumePhase, LineageInv, RunFollows
<1>5. IsSeq(resumed)' /\ \A i \in DOMAIN cps' : StoredGates(i)'
  BY <1>1, <1>2, <1>3, <1>4, SavedGates
<1> QED
  BY <1>1, <1>5, IdlePc, EndedGates DEF GatesInv

\* Starting the Sends, or refusing them, keeps the run behind its checkpoint.
LEMMA StartSendsGates ==
  ASSUME LineageInv, GatesInv, UNCHANGED <<cps, resumed>>, run.pc \in {"exec", "anchor"},
         NEW r, DOMAIN r = RunFields, r.start = run.start, r.step = run.step,
         r.ready = run.ready, r.last = run.last, NEW sends, run' = StartSends(r, sends)
  PROVE  GatesInv'
<1>1. CASE run' = Idle
  BY <1>1, IdlePc, EndsGates
<1>2. CASE run' # Idle
  <2>1. /\ run'.pc = "sends" /\ run'.start = run.start /\ run'.step = run.step
        /\ run'.ready = run.ready /\ run'.last = run.last
    BY <1>2 DEF StartSends, RunFields
  <2>2. \A n \in run.ready \cap InterruptBefore : GateAnswered(n, run.step, run.last)
    BY DEF GatesInv, GatesHold
  <2> QED
    BY <2>1, <2>2, GoesOnGates
<1> QED
  BY <1>1, <1>2

\* The end of a batch (stop, pause, apply, anchor) keeps the answers upstream.
LEMMA BatchGates ==
  ASSUME LineageInv, GatesInv,
         \/ BatchStops("exec") \/ ReadyPauses \/ ReadyApplied
         \/ AnchorRow \/ AnchorDone \/ BatchStops("sends") \/ SendsPause \/ SendsApplied
  PROVE  GatesInv'
<1>0. DOMAIN run = RunFields
  BY DEF LineageInv, RunFollows
<1>1. run.pc \in {"exec", "anchor", "sends"}
  BY DEF BatchStops, ReadyPauses, ReadyApplied, AnchorRow, AnchorDone, SendsPause, SendsApplied,
         BatchDone
<1>2. \A n \in run.ready \cap InterruptBefore : GateAnswered(n, run.step, run.last)
  BY <1>1 DEF GatesInv, GatesHold
<1>3. CASE BatchStops("exec") \/ BatchStops("sends")
  BY <1>3, IdlePc, EndsGates DEF BatchStops, StopRun
<1>4. CASE ReadyPauses \/ SendsPause
  <2>1. run.pc \in {"exec", "sends"} /\ \E current, finished : PauseOn(current, finished)
    BY <1>4, ZenonT(60) DEF ReadyPauses, SendsPause, BatchDone
  <2> QED
    BY <2>1, PauseOnGates
<1>5. CASE ReadyApplied
  <2> DEFINE ran   == ReadyResults
             sends == PendingSends(ran)
             r     == [run EXCEPT !.state = Append(@, RanEntry(ran)), !.ran = ran]
             cp    == Checkpoint(None, run.ready, "before", run.base, run.barrier)
  <2>1. /\ DOMAIN r = RunFields /\ r.start = run.start /\ r.step = run.step
        /\ r.ready = run.ready /\ r.last = run.last
    BY <1>0 DEF RunFields
  <2>2. /\ run.pc = "exec" /\ UNCHANGED resumed
        /\ \/ run' = [r EXCEPT !.pc = "plan", !.out = NoFun] /\ UNCHANGED cps
           \/ run' = StartSends(r, sends) /\ UNCHANGED cps
           \/ run' = [r EXCEPT !.pc = "anchor", !.last = Len(cps) + 1, !.todo = run.ready]
                 /\ Save(cp)
    BY <1>5 DEF ReadyApplied, BatchDone
  <2> HIDE DEF ran, sends, r
  <2>3. CASE run' = [r EXCEPT !.pc = "plan", !.out = NoFun] /\ UNCHANGED cps
    <3>1. /\ run'.pc = "plan" /\ run'.start = run.start /\ run'.step = run.step
          /\ run'.ready = run.ready /\ run'.last = run.last
      BY <2>1, <2>3 DEF RunFields
    <3> QED
      BY <1>1, <1>2, <2>2, <2>3, <3>1, GoesOnGates
  <2>4. CASE run' = StartSends(r, sends) /\ UNCHANGED cps
    BY <2>1, <2>2, <2>4, StartSendsGates
  <2>5. CASE run' = [r EXCEPT !.pc = "anchor", !.last = Len(cps) + 1, !.todo = run.ready]
              /\ Save(cp)
    <3>1. /\ run'.pc = "anchor" /\ run'.start = run.start /\ run'.step = run.step
          /\ run'.ready = run.ready /\ run'.last = Len(cps) + 1
      BY <2>1, <2>5 DEF RunFields
    <3> QED
      BY <1>1, <1>2, <2>2, <2>5, <3>1, SavesGates, SMTT(60)
  <2> QED
    BY <2>2, <2>3, <2>4, <2>5
<1>6. CASE AnchorRow
  <2>1. /\ run'.pc = "anchor" /\ run'.start = run.start /\ run'.step = run.step
        /\ run'.ready = run.ready /\ run'.last = run.last /\ UNCHANGED <<cps, resumed>>
    BY <1>0, <1>6, ZenonT(60) DEF AnchorRow, RunFields
  <2> QED
    BY <1>1, <1>2, <2>1, GoesOnGates
<1>7. CASE AnchorDone
  BY <1>0, <1>7, StartSendsGates DEF AnchorDone
<1>8. CASE SendsApplied
  <2>1. /\ UNCHANGED <<cps, resumed>>
        /\ run' = Idle \/ \E sent, state : run' = [run EXCEPT !.pc = "plan", !.out = NoFun,
                                                             !.sent = sent, !.state = state]
    BY <1>8, ZenonT(60) DEF SendsApplied
  <2>2. CASE run' = Idle
    BY <2>1, <2>2, IdlePc, EndsGates
  <2>3. CASE run' # Idle
    <3>1. /\ run'.pc = "plan" /\ run'.start = run.start /\ run'.step = run.step
          /\ run'.ready = run.ready /\ run'.last = run.last
      BY <1>0, <2>1, <2>3, ZenonT(60) DEF RunFields
    <3> QED
      BY <1>1, <1>2, <2>1, <3>1, GoesOnGates
  <2> QED
    BY <2>2, <2>3
<1> QED
  BY <1>3, <1>4, <1>5, <1>6, <1>7, <1>8

\* The next step takes no gate for answered.
LEMMA CommitGates ==
  ASSUME LineageInv, GatesInv, StepCompletes \/ CommitClears
  PROVE  GatesInv'
<1>0. DOMAIN run = RunFields
  BY DEF LineageInv, RunFollows
<1>1. CASE StepCompletes
  <2>1. run.pc = "plan" /\ UNCHANGED resumed
    BY <1>1, ZenonT(60) DEF StepCompletes, StopRun
  <2>2. \/ run' = Idle /\ UNCHANGED cps
        \/ \E current, next, phase, barrier :
             /\ Save(Checkpoint(current, next, phase, run.state, barrier))
             /\ phase \in {"after", "completed"}
             /\ \/ run' = Idle
                \/ \E ready : run' = [run EXCEPT !.pc = "commit", !.ready = ready,
                                                !.barrier = barrier]
    BY <1>1, ZenonT(60) DEF StepCompletes, StopRun
  <2>3. CASE run' = Idle /\ UNCHANGED cps
    BY <2>1, <2>3, IdlePc, EndsGates
  <2>4. ASSUME NEW current, NEW next, NEW phase, NEW barrier,
               Save(Checkpoint(current, next, phase, run.state, barrier)),
               phase \in {"after", "completed"},
               \/ run' = Idle
               \/ \E ready : run' = [run EXCEPT !.pc = "commit", !.ready = ready,
                                               !.barrier = barrier]
        PROVE  GatesInv'
    <3>1. \/ run'.pc = "idle"
          \/ run'.pc = "commit" /\ run'.start = run.start /\ run'.step = run.step
      BY <1>0, <2>4, IdlePc, ZenonT(60) DEF RunFields
    <3>2. /\ Save(Checkpoint(current, next, phase, run.state, barrier))
          /\ phase \in {"before", "after", "completed"}
      BY <2>4
    <3>3. run.pc \notin {"idle", "copy"}
      BY <2>1
    <3>4. CASE run'.pc = "idle"
      BY <2>1, <3>2, <3>3, <3>4, SavesGates
    <3>5. CASE run'.pc = "commit" /\ run'.start = run.start /\ run'.step = run.step
      BY <2>1, <3>2, <3>3, <3>5, SavesGates
    <3> QED
      BY <3>1, <3>4, <3>5
  <2> QED
    BY <2>2, <2>3, <2>4, ZenonT(60)
<1>2. CASE CommitClears
  <2>1. UNCHANGED <<cps, resumed>> /\ run.pc \in {"commit", "budget"}
    BY <1>2 DEF CommitClears
  <2>2. CASE run.pc = "budget"
    BY <1>2, <2>1, <2>2, IdlePc, EndsGates DEF CommitClears
  <2>3. CASE run.pc = "commit"
    <3>1. run'.pc = "loop" /\ run'.start = run.start /\ run'.step = run.step + 1
      BY <1>0, <1>2, <2>3 DEF CommitClears, RunFields
    <3>2. run.start \in Nat /\ run.step \in Nat /\ run.start <= run.step
      BY <2>3 DEF GatesInv, RunGates, LineageInv, RunFollows
    <3>3. run'.step # run'.start /\ run'.start \in Nat /\ run'.start <= run'.step
      BY <3>1, <3>2
    <3>4. RunGates' /\ GatesHold'
      BY <3>1, <3>3 DEF RunGates, GatesHold, ResumedStep
    <3>5. Grows /\ IsSeq(resumed)'
      BY <2>1, GrowsStill DEF GatesInv
    <3> QED
      BY <2>1, <3>4, <3>5, StoredStay DEF GatesInv
  <2> QED
    BY <2>1, <2>2, <2>3
<1> QED
  BY <1>1, <1>2

\* An update or a fork takes for answered what the checkpoint it copies does.
LEMMA AdministrationGates ==
  ASSUME LineageInv, GatesInv,
         \/ \E thread \in Threads, as \in AsNodes : UpdateState(thread, as)
         \/ \E id \in DOMAIN cps, thread \in ForkThreads : Fork(id, thread)
         \/ ForkCopies
  PROVE  GatesInv'
<1>1. ASSUME NEW id \in DOMAIN cps, NEW cp, Save(cp), UNCHANGED resumed,
             run'.pc \in {"idle", "copy"}, cp.parent = id,
             ResumePhase(cp) \in {ResumePhase(cps[id]), "updated"},
             cp.next = cps[id].next, cp.gates = cps[id].gates, cp.step = cps[id].step
      PROVE  GatesInv'
  <2>1. StoredGates(id)
    BY DEF GatesInv
  <2>2. id \in 0 .. Len(cps)
    BY DEF LineageInv, IsSeq
  <2>3. IsSeq(resumed)' /\ \A i \in DOMAIN cps' : StoredGates(i)'
    BY <1>1, <2>1, <2>2, SavedGates, ZenonT(60) DEF StoredGates
  <2> QED
    BY <1>1, <2>3, EndedGates DEF GatesInv
<1>2. ASSUME NEW thread \in Threads, NEW as \in AsNodes, UpdateState(thread, as)
      PROVE  GatesInv'
  <2> DEFINE id == LatestOf(thread)
             cp == [cps[id] EXCEPT !.parent = id, !.phase = "updated",
                      !.admin = IF as = None THEN ResumePhase(cps[id]) ELSE "updated",
                      !.current = IF as = None THEN @ ELSE as,
                      !.state = Append(@, UpdateEntry)]
  <2>1. id \in DOMAIN cps
    BY <1>2, LatestOfThread, ZenonT(60) DEF UpdateState, LineageInv
  <2>2. DOMAIN cps[id] = CheckpointFields
    BY <2>1 DEF LineageInv, Descends
  <2>3. Save(cp) /\ UNCHANGED <<run, resumed>> /\ run.pc = "idle"
    BY <1>2, ZenonT(60) DEF UpdateState, MayEdit
  <2> HIDE DEF id
  <2>4. /\ cp.parent = id /\ cp.phase = "updated"
        /\ cp.admin = IF as = None THEN ResumePhase(cps[id]) ELSE "updated"
        /\ cp.next = cps[id].next /\ cp.gates = cps[id].gates /\ cp.step = cps[id].step
    BY <2>2, SMTT(60) DEF CheckpointFields
  <2> HIDE DEF cp
  <2>5. ResumePhase(cp) \in {ResumePhase(cps[id]), "updated"}
    BY <2>4 DEF ResumePhase
  <2> QED
    BY <1>1, <2>1, <2>3, <2>4, <2>5
<1>3. ASSUME NEW id \in DOMAIN cps, NEW thread \in ForkThreads, Fork(id, thread)
      PROVE  GatesInv'
  <2> DEFINE cp == [cps[id] EXCEPT !.thread = thread, !.parent = id, !.forked = id]
  <2>1. Save(cp) /\ UNCHANGED resumed /\ run'.pc = "copy"
    BY <1>3, ZenonT(60) DEF Fork, Idle
  <2>2. DOMAIN cps[id] = CheckpointFields
    BY DEF LineageInv, Descends
  <2>3. /\ cp.parent = id /\ cp.phase = cps[id].phase /\ cp.admin = cps[id].admin
        /\ cp.next = cps[id].next /\ cp.gates = cps[id].gates /\ cp.step = cps[id].step
    BY <2>2, SMTT(60) DEF CheckpointFields
  <2> HIDE DEF cp
  <2>4. ResumePhase(cp) = ResumePhase(cps[id])
    BY <2>3 DEF ResumePhase
  <2> QED
    BY <1>1, <2>1, <2>3, <2>4, SMTT(60)
<1>4. CASE ForkCopies
  <2>1. DOMAIN run = RunFields /\ run.pc = "copy"
    BY <1>4 DEF ForkCopies, LineageInv, RunFollows
  <2>2. /\ UNCHANGED <<cps, resumed>>
        /\ run' = Idle \/ \E replay : run' = [run EXCEPT !.replay = replay]
    BY <1>4, ZenonT(60) DEF ForkCopies
  <2>3. run'.pc \in {"idle", "copy"}
    BY <2>1, <2>2, IdlePc, ZenonT(60) DEF RunFields
  <2> QED
    BY <2>2, <2>3, EndsGates
<1> QED
  BY <1>2, <1>3, <1>4, SMTT(60)

\* Every step keeps it.
LEMMA NextGates ==
  ASSUME LineageInv, GatesInv, [Next]_vars
  PROVE  GatesInv'
<1>1. ASSUME NEW thread \in Threads, Resume(thread) PROVE GatesInv'
  <2>1. FreshRun(thread) \/ (LatestOf(thread) # 0 /\ ResumeRun(LatestOf(thread)))
    BY <1>1 DEF Resume
  <2>2. CASE FreshRun(thread)
    BY <2>2, StartsGates
  <2>3. CASE LatestOf(thread) # 0 /\ ResumeRun(LatestOf(thread))
    <3>1. PICK id : id = LatestOf(thread)
      OBVIOUS
    <3>2. id \in DOMAIN cps /\ ResumeRun(id)
      BY <2>3, <3>1, LatestOfThread DEF LineageInv
    <3> QED
      BY <3>2, ResumeRunGates
  <2> QED
    BY <2>1, <2>2, <2>3
<1>2. ASSUME NEW id \in DOMAIN cps, ResumeFrom(id) PROVE GatesInv'
  BY <1>2, ResumeRunGates DEF ResumeFrom
<1>3. CASE Step
  BY <1>3, LoopGates, TasksGates, BatchGates, CommitGates, AdministrationGates, SMTT(60) DEF Step
<1>4. CASE Crash
  BY <1>4, IdlePc, EndsGates DEF Crash, StopRun
<1>5. CASE UNCHANGED vars
  <2>1. UNCHANGED <<cps, resumed, run>>
    BY <1>5 DEF vars
  <2>2. \A n, step, id : GateAnswered(n, step, id)' <=> GateAnswered(n, step, id)
    BY <2>1 DEF GateAnswered, Lineage, HasParents, WasResumed, ResumePhase
  <2>3. \A n : GateAnswered(n, run.step, run.last)' <=> GateAnswered(n, run.step, run.last)
    BY <2>1, SMTT(60) DEF GateAnswered, Lineage, HasParents, WasResumed, ResumePhase
  <2>4. RunGates' /\ GatesHold'
    BY <2>1, <2>3 DEF RunGates, GatesHold, GatesInv, ResumedStep
  <2>5. Grows /\ IsSeq(resumed)'
    BY <2>1, GrowsStill DEF GatesInv
  <2> QED
    BY <2>1, <2>4, <2>5, StoredStay DEF GatesInv
<1> QED
  BY <1>1, <1>2, <1>3, <1>4, <1>5, StartsGates, AdministrationGates, SMTT(60) DEF Next

\* GatesHold: whatever stops, crashes, resumes, edits or forks a thread, no node with an
\* interrupt_before gate runs in a step unless the run, or one it continues, was resumed
\* from a pause at that gate in that step, for every graph and every bound.
THEOREM GatesAreAnswered == Spec => []GatesHold
<1>1. Init => GatesInv
  <2> SUFFICES ASSUME Init PROVE GatesInv
    OBVIOUS
  <2>1. DOMAIN cps = {} /\ IsSeq(resumed) /\ run.pc = "idle"
    BY EmptyIsSeq, IdlePc DEF Init
  <2> QED
    BY <2>1 DEF GatesInv, RunGates, GatesHold
<1>2. GatesInv => GatesHold
  BY DEF GatesInv
<1> QED
  BY <1>1, <1>2, LineageHolds, NextGates, PTL DEF Spec
=============================================================================
