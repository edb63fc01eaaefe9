--------------------------- MODULE ChildRunsProofs ---------------------------
(***************************************************************************)
(* What is proved of durable runs and their children, for any processes,   *)
(* children, budget and bounds: a run that is Running has one process that *)
(* can publish for it, the children stay funded, a parent paused on        *)
(* children is continued only when all of them have ended, and the         *)
(* relation rows tell the truth about the runs.                            *)
(***************************************************************************)
EXTENDS ChildRuns, Integers, FiniteSetTheorems, TLAPS

RunShape == [state : {"absent", "Running", "Interrupted"} \cup FinalStates,
             fence : Nat, started : BOOLEAN, left : Nat, held : Nat,
             waits : SUBSET Children, pauses : Nat]
ControlShape == [at : {"none", "live", "pausing", "recovering"}, fence : Nat,
                 waits : SUBSET Children]
HeadShape == [epoch : Nat, open : Int, committed : Nat, closed : BOOLEAN]

Shapes ==
  /\ run \in [Runs -> RunShape]
  /\ ctl \in [Procs -> [Runs -> ControlShape]]
  /\ head \in HeadShape

\* Process p can publish for run r, if r is Running.
Holds(p, r) == ctl[p][r].at \in {"live", "pausing"} /\ ctl[p][r].fence = run[r].fence

\* No control is ahead of its run; a Running run has at most one holder, and a
\* paused one none, so whoever continues it is alone.
FencedRun(r) ==
  /\ run[r].state = "absent" => run[r].fence = 0 /\ \A p \in Procs : ctl[p][r].at = "none"
  /\ \A p \in Procs : ctl[p][r].fence <= run[r].fence
  /\ run[r].state = "Running" => \A p, q \in Procs : Holds(p, r) /\ Holds(q, r) => p = q
  /\ run[r].state = "Interrupted" => \A p \in Procs : ~Holds(p, r)

RunsInv == Shapes /\ (\A r \in Runs : FencedRun(r)) /\ ChildrenFunded

-----------------------------------------------------------------------------
(* What a step does to one run. *)

\* The record stays or ends, and no process begins to hold the run.
Keeps(r) ==
  /\ run'[r].state \in {run[r].state} \cup FinalStates /\ run'[r].fence = run[r].fence
  /\ \A p \in Procs :
       \/ ctl'[p][r] = ctl[p][r]
       \/ ctl'[p][r] = NoControl
       \/ ctl'[p][r].at = "recovering" /\ ctl'[p][r].fence = run[r].fence /\ run[r].state = "Running"
       \/ /\ ctl[p][r].at = "live" /\ ctl'[p][r].at = "pausing"
          /\ ctl'[p][r].fence = ctl[p][r].fence

\* The process that executes it pauses it and lets it go.
Pauses(r) ==
  /\ run[r].state = "Running" /\ run'[r].state = "Interrupted" /\ run'[r].fence = run[r].fence
  /\ \E q \in Procs : /\ Holds(q, r) /\ ctl'[q][r] = NoControl
                      /\ \A p \in Procs \ {q} : ctl'[p][r] = ctl[p][r]

\* A process begins to hold it: under a new fence, or the fence of a paused run.
Taken(r) ==
  /\ run'[r].state = "Running"
  /\ run'[r].fence > run[r].fence \/ (run[r].state = "Interrupted" /\ run'[r].fence = run[r].fence)
  /\ \E q \in Procs : /\ ctl'[q][r].fence = run'[r].fence
                      /\ \A p \in Procs \ {q} : ctl'[p][r] = ctl[p][r]

Changes(r) == Keeps(r) \/ Pauses(r) \/ Taken(r)

OnlyMoves(r) == \A s \in Runs \ {r} : run'[s] = run[s] /\ \A p \in Procs : ctl'[p][s] = ctl[p][s]

\* A run that does not move keeps.
LEMMA OthersKeep ==
  ASSUME NEW r \in Runs, OnlyMoves(r), Changes(r)
  PROVE  \A s \in Runs : Changes(s)
BY DEF OnlyMoves, Changes, Keeps

\* However a run changes, it stays fenced.
LEMMA StaysFenced ==
  ASSUME Shapes, Shapes', NEW r \in Runs, FencedRun(r), Changes(r)
  PROVE  FencedRun(r)'
<1> DEFINE k(p) == ctl[p][r]
           n(p) == ctl'[p][r]
<1>0. /\ run[r].fence \in Nat /\ run'[r].fence \in Nat
      /\ \A p \in Procs : k(p).fence \in Nat /\ n(p).fence \in Nat
  BY DEF Shapes, RunShape, ControlShape
<1>1. CASE Keeps(r)
  <2>1. \A p \in Procs : n(p).fence <= run'[r].fence
    BY <1>0, <1>1 DEF Keeps, FencedRun, NoControl
  <2>2. \A p \in Procs : Holds(p, r)' => Holds(p, r)
    BY <1>0, <1>1 DEF Keeps, Holds, NoControl
  <2>3. run'[r].state = "absent" => run[r].state = "absent"
    BY <1>1 DEF Keeps, FinalStates
  <2>4. run[r].state = "absent" => \A p \in Procs : n(p).at = "none"
    BY <1>1 DEF Keeps, FencedRun, NoControl
  <2>5. /\ run'[r].state = "Running" => run[r].state = "Running"
        /\ run'[r].state = "Interrupted" => run[r].state = "Interrupted"
    BY <1>1 DEF Keeps, FinalStates
  <2>6. run'[r].fence = run[r].fence
    BY <1>1 DEF Keeps
  <2> QED
    BY <2>1, <2>2, <2>3, <2>4, <2>5, <2>6 DEF FencedRun
<1>2. CASE Pauses(r)
  <2>1. PICK q \in Procs : /\ Holds(q, r) /\ n(q) = NoControl
                           /\ \A p \in Procs \ {q} : n(p) = k(p)
    BY <1>2 DEF Pauses
  <2>2. \A p \in Procs : n(p).fence <= run'[r].fence
    BY <1>0, <1>2, <2>1 DEF Pauses, FencedRun, NoControl
  <2>3. \A p \in Procs : ~Holds(p, r)'
    <3>1. ~Holds(q, r)'
      BY <2>1 DEF Holds, NoControl
    <3>2. ASSUME NEW p \in Procs \ {q} PROVE ~Holds(p, r)'
      <4>1. ~Holds(p, r)
        BY <1>2, <2>1 DEF Pauses, FencedRun
      <4> QED
        BY <1>2, <2>1, <4>1 DEF Pauses, Holds
    <3> QED
      BY <3>1, <3>2
  <2>4. run'[r].state = "Interrupted"
    BY <1>2 DEF Pauses
  <2> QED
    BY <2>2, <2>3, <2>4 DEF FencedRun
<1>3. CASE Taken(r)
  <2>1. PICK q \in Procs : n(q).fence = run'[r].fence /\ \A p \in Procs \ {q} : n(p) = k(p)
    BY <1>3 DEF Taken
  <2>2. \A p \in Procs \ {q} : n(p).fence <= run'[r].fence /\ ~Holds(p, r)'
    BY <1>0, <1>3, <2>1 DEF Taken, FencedRun, Holds
  <2>3. run'[r].state = "Running" /\ n(q).fence <= run'[r].fence
    BY <1>0, <1>3, <2>1 DEF Taken
  <2> QED
    BY <2>2, <2>3 DEF FencedRun
<1> QED
  BY <1>1, <1>2, <1>3 DEF Changes

-----------------------------------------------------------------------------
(* Writes to the records and to the controls. *)

\* One record is replaced.
LEMMA RecordWritten ==
  ASSUME run \in [Runs -> RunShape], NEW r \in Runs, NEW u \in RunShape,
         run' = [run EXCEPT ![r] = u]
  PROVE  run' \in [Runs -> RunShape] /\ run'[r] = u /\ \A s \in Runs \ {r} : run'[s] = run[s]
OBVIOUS

\* One control is replaced.
LEMMA ControlWritten ==
  ASSUME ctl \in [Procs -> [Runs -> ControlShape]], NEW q \in Procs, NEW r \in Runs,
         NEW k \in ControlShape, ctl' = [ctl EXCEPT ![q][r] = k]
  PROVE  /\ ctl' \in [Procs -> [Runs -> ControlShape]] /\ ctl'[q][r] = k
         /\ \A p \in Procs : p # q => ctl'[p][r] = ctl[p][r]
         /\ \A p \in Procs : \A s \in Runs \ {r} : ctl'[p][s] = ctl[p][s]
OBVIOUS

\* A parent that is continued had only ended children to wait for.
Answered ==
  run[Parent].state = "Interrupted" /\ run'[Parent].state = "Running"
    => \A c \in run[Parent].waits : Final(c)

\* Only the record of r is written, and every run changes as it may.
Wrote(r, u) ==
  /\ run' \in [Runs -> RunShape] /\ ctl' \in [Procs -> [Runs -> ControlShape]]
  /\ \A s \in Runs : Changes(s)
  /\ run'[r] = u /\ \A s \in Runs \ {r} : run'[s] = run[s]

\* The record of r and the control that q has of it, or one of the two, are written.
Writes2(q, r, u, k) ==
  /\ run' = [run EXCEPT ![r] = u] \/ (UNCHANGED run /\ u = run[r])
  /\ ctl' = [ctl EXCEPT ![q][r] = k] \/ (UNCHANGED ctl /\ k = ctl[q][r])

\* Then nothing else is.
LEMMA BothWritten ==
  ASSUME Shapes, NEW q \in Procs, NEW r \in Runs, NEW u \in RunShape, NEW k \in ControlShape,
         Writes2(q, r, u, k)
  PROVE  /\ run' \in [Runs -> RunShape] /\ ctl' \in [Procs -> [Runs -> ControlShape]]
         /\ run'[r] = u /\ (\A s \in Runs \ {r} : run'[s] = run[s])
         /\ ctl'[q][r] = k /\ (\A p \in Procs : p # q => ctl'[p][r] = ctl[p][r])
         /\ OnlyMoves(r)
<1>1. run' \in [Runs -> RunShape] /\ run'[r] = u /\ \A s \in Runs \ {r} : run'[s] = run[s]
  BY RecordWritten DEF Shapes, Writes2
<1>2. /\ ctl' \in [Procs -> [Runs -> ControlShape]] /\ ctl'[q][r] = k
      /\ \A p \in Procs : p # q => ctl'[p][r] = ctl[p][r]
      /\ \A p \in Procs : \A s \in Runs \ {r} : ctl'[p][s] = ctl[p][s]
  BY ControlWritten DEF Shapes, Writes2
<1> QED
  BY <1>1, <1>2 DEF OnlyMoves

\* A write that keeps the run,
LEMMA WriteKeeps ==
  ASSUME Shapes, NEW q \in Procs, NEW r \in Runs, NEW u \in RunShape, NEW k \in ControlShape,
         Writes2(q, r, u, k),
         u.state \in {run[r].state} \cup FinalStates, u.fence = run[r].fence,
         \/ k \in {ctl[q][r], NoControl}
         \/ k.at = "recovering" /\ k.fence = run[r].fence /\ run[r].state = "Running"
         \/ ctl[q][r].at = "live" /\ k.at = "pausing" /\ k.fence = ctl[q][r].fence
  PROVE  Wrote(r, u)
<1>1. Keeps(r)
  BY BothWritten DEF Keeps
<1> QED
  BY <1>1, BothWritten, OthersKeep DEF Wrote, Changes

\* that pauses it,
LEMMA WritePauses ==
  ASSUME Shapes, NEW q \in Procs, NEW r \in Runs, NEW u \in RunShape,
         Writes2(q, r, u, NoControl), NoControl \in ControlShape,
         run[r].state = "Running", Holds(q, r), u.state = "Interrupted", u.fence = run[r].fence
  PROVE  Wrote(r, u)
<1>1. Pauses(r)
  BY BothWritten DEF Pauses
<1> QED
  BY <1>1, BothWritten, OthersKeep DEF Wrote, Changes

\* and that takes it.
LEMMA WriteTakes ==
  ASSUME Shapes, NEW q \in Procs, NEW r \in Runs, NEW u \in RunShape, NEW k \in ControlShape,
         Writes2(q, r, u, k), u.state = "Running", k.fence = u.fence,
         u.fence > run[r].fence \/ (run[r].state = "Interrupted" /\ u.fence = run[r].fence)
  PROVE  Wrote(r, u)
<1>1. Taken(r)
  BY BothWritten DEF Taken
<1> QED
  BY <1>1, BothWritten, OthersKeep DEF Wrote, Changes

\* The controls that are written.
LEMMA NewControls ==
  /\ NoControl \in ControlShape
  /\ \A f \in Nat : LET k == [NoControl EXCEPT !.at = "live", !.fence = f]
                    IN k \in ControlShape /\ k.fence = f
BY Zenon DEF NoControl, ControlShape

\* The relation head keeps its shape, and what is committed, whatever row ends.
LEMMA NewHeads ==
  ASSUME head \in HeadShape
  PROVE  /\ ClosedHead \in HeadShape /\ ClosedHead.committed = head.committed
         /\ LET h == [head EXCEPT !.epoch = @ + 1, !.open = @ - 1]
            IN h \in HeadShape /\ h.committed = head.committed
         /\ LET h == [head EXCEPT !.epoch = @ + 1]
            IN h \in HeadShape /\ h.committed = head.committed
         /\ \A n \in Nat : LET h == [head EXCEPT !.epoch = @ + 1, !.open = @ + 1, !.committed = @ + n]
                           IN h \in HeadShape /\ h.committed = head.committed + n
<1>1. head.epoch + 1 \in Nat /\ head.open - 1 \in Int /\ head.open + 1 \in Int /\ head.committed \in Nat
  BY DEF HeadShape
<1>2. ASSUME NEW e \in Nat, NEW o \in Int
      PROVE  /\ LET h == [head EXCEPT !.epoch = e, !.open = o]
                IN h \in HeadShape /\ h.committed = head.committed
             /\ LET h == [head EXCEPT !.epoch = e]
                IN h \in HeadShape /\ h.committed = head.committed
             /\ LET h == [head EXCEPT !.epoch = e, !.closed = TRUE]
                IN h \in HeadShape /\ h.committed = head.committed
  BY Zenon DEF HeadShape
<1>3. ClosedHead \in HeadShape /\ ClosedHead.committed = head.committed
  BY <1>1, <1>2, Zenon DEF ClosedHead
<1>4. ASSUME NEW n \in Nat
      PROVE  LET h == [head EXCEPT !.epoch = @ + 1, !.open = @ + 1, !.committed = @ + n]
             IN h \in HeadShape /\ h.committed = head.committed + n
  <2>1. head.committed + n \in Nat
    BY <1>1
  <2> QED
    BY <1>1, <2>1, Zenon DEF HeadShape
<1> QED
  BY <1>1, <1>2, <1>3, <1>4, Zenon

-----------------------------------------------------------------------------
(* A step that writes one record keeps the invariant. *)

FundsKept == head' \in HeadShape /\ head'.committed = head.committed

\* The record of a child: the parent is not concerned.
LEMMA ChildWritten ==
  ASSUME RunConstants, RunsInv, NEW c \in Children, NEW u, Wrote(c, u), FundsKept
  PROVE  RunsInv' /\ Answered
<1>1. run'[Parent] = run[Parent] /\ Parent \in Runs
  BY DEF Wrote, RunConstants, Runs
<1>2. Shapes'
  BY DEF Wrote, FundsKept, Shapes
<1>3. \A r \in Runs : FencedRun(r)'
  BY <1>2, StaysFenced DEF RunsInv, Wrote
<1>4. ChildrenFunded'
  BY <1>1 DEF RunsInv, ChildrenFunded, Final, FundsKept
<1> QED
  BY <1>1, <1>2, <1>3, <1>4 DEF RunsInv, Answered

\* The record of the parent: it ends, or what it has still covers its children.
LEMMA ParentWritten ==
  ASSUME RunConstants, RunsInv, NEW u, Wrote(Parent, u), FundsKept,
         \/ u.state \in FinalStates
         \/ ~Final(Parent) /\ head.committed <= u.left + u.held,
         run[Parent].state = "Interrupted" /\ u.state = "Running"
           => \A c \in run[Parent].waits : Final(c)
  PROVE  RunsInv' /\ Answered
<1>1. run'[Parent] = u /\ Parent \in Runs
  BY DEF Wrote, Runs
<1>2. Shapes'
  BY DEF Wrote, FundsKept, Shapes
<1>3. \A r \in Runs : FencedRun(r)'
  BY <1>2, StaysFenced DEF RunsInv, Wrote
<1>4. ChildrenFunded'
  BY <1>1 DEF ChildrenFunded, Final, FundsKept
<1> QED
  BY <1>1, <1>2, <1>3, <1>4 DEF RunsInv, Answered

\* No record and no control is written.
LEMMA NothingWritten ==
  ASSUME RunsInv, UNCHANGED <<run, ctl>>, FundsKept
  PROVE  RunsInv' /\ Answered
<1>1. Shapes'
  BY DEF RunsInv, FundsKept, Shapes
<1>2. \A r \in Runs : FencedRun(r)'
  BY DEF RunsInv, FencedRun, Holds
<1>3. ChildrenFunded'
  BY DEF RunsInv, ChildrenFunded, Final, FundsKept
<1> QED
  BY <1>1, <1>2, <1>3 DEF RunsInv, Answered

-----------------------------------------------------------------------------
(* The publications of a control. *)

\* A spawn: the reservation fits, and the child had no control.
LEMMA SpawnKeeps ==
  ASSUME RunConstants, RunsInv, NEW q \in Procs, NEW c \in Children, Spawn(q, c)
  PROVE  RunsInv' /\ Answered
<1> DEFINE u == [run[c] EXCEPT !.state = "Running", !.fence = 1]
           k == [NoControl EXCEPT !.at = "live", !.fence = 1]
<1>1. c \in Runs /\ c # Parent /\ Parent \in Runs /\ Shapes /\ run[c] \in RunShape
  BY DEF Runs, RunConstants, RunsInv, Shapes
<1>2. u \in RunShape /\ u.state = "Running" /\ u.fence = 1
  BY <1>1, Zenon DEF RunShape
<1>3. k \in ControlShape /\ k.fence = 1
  BY NewControls, Zenon
<1>4. Writes2(q, c, u, k)
  BY <1>1, Zenon DEF Spawn, Writes2, Shapes
<1>5. run[c].fence = 0
  BY <1>1 DEF Spawn, RunsInv, FencedRun
<1> HIDE DEF u, k
<1>6. Wrote(c, u)
  BY <1>1, <1>2, <1>3, <1>4, <1>5, WriteTakes
<1>7. head' \in HeadShape /\ head'.committed = head.committed + Grant
  BY <1>1, NewHeads, Zenon DEF Spawn, Shapes, RunConstants
<1>8. run'[Parent] = run[Parent]
  BY <1>1, <1>6 DEF Wrote
<1>9. Shapes'
  BY <1>6, <1>7 DEF Wrote, Shapes
<1>10. \A r \in Runs : FencedRun(r)'
  BY <1>1, <1>6, <1>9, StaysFenced DEF RunsInv, Wrote
<1>11. ChildrenFunded'
  BY <1>7, <1>8 DEF Spawn, InsertAdmits, ChildrenFunded
<1> QED
  BY <1>8, <1>9, <1>10, <1>11 DEF RunsInv, Answered

\* The parent's ledger: a spend keeps the children funded.
LEMMA LedgerKeeps ==
  ASSUME RunConstants, RunsInv, NEW q \in Procs, NEW left \in Nat, NEW held \in Nat,
         Ledger(q, left, held)
  PROVE  RunsInv' /\ Answered
<1> DEFINE u == [run[Parent] EXCEPT !.left = left, !.held = held]
<1>1. Parent \in Runs /\ Shapes /\ run[Parent] \in RunShape /\ ctl[q][Parent] \in ControlShape
  BY DEF Runs, RunsInv, Shapes
<1>2. /\ u \in RunShape /\ u.state = run[Parent].state /\ u.fence = run[Parent].fence
      /\ u.left = left /\ u.held = held
  BY <1>1, Zenon DEF RunShape
<1>3. Writes2(q, Parent, u, ctl[q][Parent])
  BY <1>1, Zenon DEF Ledger, Writes2, Shapes
<1> HIDE DEF u
<1>4. Wrote(Parent, u)
  BY <1>1, <1>2, <1>3, WriteKeeps
<1>5. run[Parent].state = "Running"
  BY DEF Ledger, Executes, Current
<1>6. ~Final(Parent) /\ head.committed <= left + held
  <2>1. ~Final(Parent)
    BY <1>5 DEF Final, FinalStates
  <2>2. head.committed <= run[Parent].left + run[Parent].held
    BY <2>1 DEF RunsInv, ChildrenFunded
  <2>3. KeepsChildrenFunded(left, held)
    BY DEF Ledger
  <2>4. head.committed \in Nat /\ run[Parent].left \in Nat /\ run[Parent].held \in Nat
    BY <1>1 DEF Shapes, HeadShape, RunShape
  <2> QED
    BY <2>1, <2>2, <2>3, <2>4 DEF KeepsChildrenFunded
<1>7. FundsKept
  BY <1>1 DEF Ledger, FundsKept, Shapes
<1> QED
  BY <1>2, <1>4, <1>5, <1>6, <1>7, ParentWritten

\* A dynamic compile, the reservation of a command and its settlement.
LEMMA SpendKeeps ==
  ASSUME RunConstants, RunsInv, NEW q \in Procs,
         ConsumeDynamicCompile(q) \/ ReserveCommand(q) \/ SettleCommand(q)
  PROVE  RunsInv' /\ Answered
<1> DEFINE l == run[Parent].left
           h == run[Parent].held
<1>1. l \in Nat /\ h \in Nat
  BY DEF Runs, RunsInv, Shapes, RunShape
<1>2. CASE ConsumeDynamicCompile(q)
  BY <1>1, <1>2, LedgerKeeps DEF ConsumeDynamicCompile
<1>3. CASE ReserveCommand(q)
  <2>1. PICK x \in 1 .. l : Ledger(q, l - x, x)
    BY <1>3 DEF ReserveCommand
  <2>2. l - x \in Nat /\ x \in Nat
    BY <1>1
  <2> QED
    BY <2>1, <2>2, LedgerKeeps
<1>4. CASE SettleCommand(q)
  <2>1. PICK spent \in 0 .. h : Ledger(q, l + h - spent, 0)
    BY <1>4 DEF SettleCommand
  <2>2. l + h - spent \in Nat
    BY <1>1
  <2> QED
    BY <2>1, <2>2, LedgerKeeps
<1> QED
  BY <1>2, <1>3, <1>4

\* The first publication of a child.
LEMMA StartKeeps ==
  ASSUME RunConstants, RunsInv, NEW q \in Procs, NEW c \in Children, StartChild(q, c)
  PROVE  RunsInv' /\ Answered
<1> DEFINE u == [run[c] EXCEPT !.started = TRUE]
<1>1. c \in Runs /\ Shapes /\ run[c] \in RunShape /\ ctl[q][c] \in ControlShape
  BY DEF Runs, RunsInv, Shapes
<1>2. u \in RunShape /\ u.state = run[c].state /\ u.fence = run[c].fence
  BY <1>1, Zenon DEF RunShape
<1>3. Writes2(q, c, u, ctl[q][c])
  BY <1>1 DEF StartChild, Writes2, Shapes
<1> HIDE DEF u
<1>4. Wrote(c, u)
  BY <1>1, <1>2, <1>3, WriteKeeps
<1>5. FundsKept
  BY <1>1 DEF StartChild, FundsKept, Shapes
<1> QED
  BY <1>4, <1>5, ChildWritten

\* A process that executes a run holds it.
LEMMA ExecutorHolds ==
  ASSUME NEW q \in Procs, NEW r \in Runs,
         ctl[q][r].at \in {"live", "pausing"}, Current(q, r)
  PROVE  Holds(q, r) /\ run[r].state = "Running"
BY DEF Current, Holds

\* The end of a child's attempt, and of its row.
LEMMA EndChildKeeps ==
  ASSUME RunConstants, RunsInv, NEW q \in Procs, NEW c \in Children, EndChild(q, c)
  PROVE  RunsInv' /\ Answered
<1> DEFINE u == [run[c] EXCEPT !.state = "Completed", !.started = TRUE]
<1>1. c \in Runs /\ Shapes /\ run[c] \in RunShape
  BY DEF Runs, RunsInv, Shapes
<1>2. u \in RunShape /\ u.state \in FinalStates /\ u.fence = run[c].fence
  BY <1>1, Zenon DEF RunShape, FinalStates
<1>3. Writes2(q, c, u, NoControl)
  BY <1>1, Zenon DEF EndChild, Drop, Writes2, Shapes
<1> HIDE DEF u
<1>4. Wrote(c, u)
  BY <1>1, <1>2, <1>3, NewControls, WriteKeeps, Zenon
<1>5. FundsKept
  BY <1>1, NewHeads, Zenon DEF EndChild, RowEnds, FundsKept, Shapes
<1> QED
  BY <1>4, <1>5, ChildWritten

\* The pause of a child.
LEMMA PauseChildKeeps ==
  ASSUME RunConstants, RunsInv, NEW q \in Procs, NEW c \in Children, PauseChild(q, c)
  PROVE  RunsInv' /\ Answered
<1> DEFINE u == [run[c] EXCEPT !.state = "Interrupted", !.started = TRUE, !.pauses = run[c].pauses + 1]
<1>1. c \in Runs /\ Shapes /\ run[c] \in RunShape /\ run[c].pauses + 1 \in Nat
  BY DEF Runs, RunsInv, Shapes, RunShape
<1>2. u \in RunShape /\ u.state = "Interrupted" /\ u.fence = run[c].fence
  BY <1>1, Zenon DEF RunShape
<1>3. Writes2(q, c, u, NoControl)
  BY <1>1, Zenon DEF PauseChild, Drop, Writes2, Shapes
<1> HIDE DEF u
<1>4. Holds(q, c) /\ run[c].state = "Running"
  BY <1>1, ExecutorHolds DEF PauseChild, Executes
<1>5. Wrote(c, u)
  BY <1>1, <1>2, <1>3, <1>4, NewControls, WritePauses, Zenon
<1>6. FundsKept
  BY <1>1 DEF PauseChild, FundsKept, Shapes
<1> QED
  BY <1>5, <1>6, ChildWritten

\* The parent decides to pause on children.
LEMMA AwaitKeeps ==
  ASSUME RunConstants, RunsInv, NEW q \in Procs, AwaitPaused(q)
  PROVE  RunsInv' /\ Answered
<1>1. Parent \in Runs /\ Shapes /\ run[Parent] \in RunShape /\ ctl[q][Parent] \in ControlShape
  BY DEF Runs, RunsInv, Shapes
<1>2. PICK asked \in SUBSET Children :
        ctl' = [ctl EXCEPT ![q][Parent].at = "pausing", ![q][Parent].waits = asked]
  BY Zenon DEF AwaitPaused, Attached
<1> DEFINE k == [ctl[q][Parent] EXCEPT !.at = "pausing", !.waits = asked]
<1>3. k \in ControlShape /\ k.at = "pausing" /\ k.fence = ctl[q][Parent].fence
  BY <1>1, Zenon DEF ControlShape
<1>4. Writes2(q, Parent, run[Parent], k)
  <2>1. ctl \in [Procs -> [Runs -> ControlShape]]
    BY <1>1 DEF Shapes
  <2>2. DOMAIN ctl[q][Parent] = {"at", "fence", "waits"}
    BY <1>1 DEF ControlShape
  <2>3. ctl' = [ctl EXCEPT ![q] = [ctl[q] EXCEPT ![Parent] = k]]
    BY <1>1, <1>2, <2>1, <2>2, Zenon
  <2>4. ctl' = [ctl EXCEPT ![q][Parent] = k]
    BY <2>3
  <2> QED
    BY <2>4, Zenon DEF AwaitPaused, Writes2
<1> HIDE DEF k
<1>5. ctl[q][Parent].at = "live" /\ run[Parent].state = "Running"
  BY DEF AwaitPaused, Executes, Current
<1>6. Wrote(Parent, run[Parent])
  BY <1>1, <1>3, <1>4, <1>5, WriteKeeps
<1>7. ~Final(Parent) /\ head.committed <= run[Parent].left + run[Parent].held
  BY <1>5 DEF Final, FinalStates, RunsInv, ChildrenFunded
<1>8. FundsKept
  BY <1>1 DEF AwaitPaused, FundsKept, Shapes
<1> QED
  BY <1>5, <1>6, <1>7, <1>8, ParentWritten

\* The parent's pause.
LEMMA PauseParentKeeps ==
  ASSUME RunConstants, RunsInv, NEW q \in Procs, PauseParent(q)
  PROVE  RunsInv' /\ Answered
<1> DEFINE w == ctl[q][Parent].waits
           u == [run[Parent] EXCEPT !.state = "Interrupted", !.pauses = run[Parent].pauses + 1,
                                    !.waits = w]
<1>1. /\ Parent \in Runs /\ Shapes /\ run[Parent] \in RunShape
      /\ run[Parent].pauses + 1 \in Nat /\ w \in SUBSET Children
  BY DEF Runs, RunsInv, Shapes, RunShape, ControlShape
<1>2. /\ u \in RunShape /\ u.state = "Interrupted" /\ u.fence = run[Parent].fence
      /\ u.left = run[Parent].left /\ u.held = run[Parent].held
  BY <1>1, Zenon DEF RunShape
<1>3. Writes2(q, Parent, u, NoControl)
  BY <1>1, Zenon DEF PauseParent, Drop, Writes2, Shapes
<1> HIDE DEF u
<1>4. Holds(q, Parent) /\ run[Parent].state = "Running"
  BY <1>1, ExecutorHolds DEF PauseParent
<1>5. Wrote(Parent, u)
  BY <1>1, <1>2, <1>3, <1>4, NewControls, WritePauses, Zenon
<1>6. ~Final(Parent) /\ head.committed <= u.left + u.held
  BY <1>2, <1>4 DEF Final, FinalStates, RunsInv, ChildrenFunded
<1>7. FundsKept
  BY <1>1 DEF PauseParent, FundsKept, Shapes
<1> QED
  BY <1>4, <1>5, <1>6, <1>7, ParentWritten

\* The parent's end.
LEMMA EndParentKeeps ==
  ASSUME RunConstants, RunsInv, NEW q \in Procs, EndParent(q)
  PROVE  RunsInv' /\ Answered
<1> DEFINE u == [run[Parent] EXCEPT !.state = "Completed", !.held = 0]
<1>1. Parent \in Runs /\ Shapes /\ run[Parent] \in RunShape
  BY DEF Runs, RunsInv, Shapes
<1>2. u \in RunShape /\ u.state = "Completed" /\ u.fence = run[Parent].fence
  BY <1>1, Zenon DEF RunShape, FinalStates
<1>3. Writes2(q, Parent, u, NoControl)
  BY <1>1, Zenon DEF EndParent, Drop, Writes2, Shapes
<1> HIDE DEF u
<1>4. u.state \in FinalStates
  BY <1>2 DEF FinalStates
<1>5. Wrote(Parent, u)
  BY <1>1, <1>2, <1>3, <1>4, NewControls, WriteKeeps, Zenon
<1>6. FundsKept
  BY <1>1, NewHeads, Zenon DEF EndParent, FundsKept, Shapes
<1> QED
  BY <1>2, <1>4, <1>5, <1>6, ParentWritten

-----------------------------------------------------------------------------
(* Host calls, callbacks and wakes. *)

\* A step of one run that leaves the parent's budget alone, or ends the parent; the
\* parent is continued only if its children ended.
LEMMA RunWritten ==
  ASSUME RunConstants, RunsInv, NEW r \in Runs, NEW u, Wrote(r, u), FundsKept,
         \/ u.state \in FinalStates
         \/ /\ run[r].state \notin FinalStates
            /\ u.left = run[r].left /\ u.held = run[r].held,
         run[r].state = "Interrupted" /\ u.state = "Running"
           => \A c \in run[r].waits : Final(c)
  PROVE  RunsInv' /\ Answered
<1>1. CASE r = Parent
  BY <1>1, ParentWritten DEF RunsInv, ChildrenFunded, Final
<1>2. CASE r \in Children
  BY <1>2, ChildWritten
<1> QED
  BY <1>1, <1>2 DEF Runs

\* resume_core for a question of the run's own.
LEMMA ResumeKeeps ==
  ASSUME RunConstants, RunsInv, NEW q \in Procs, NEW r \in Runs, ResumePaused(q, r)
  PROVE  RunsInv' /\ Answered
<1> DEFINE u == [run[r] EXCEPT !.state = "Running"]
           k == [NoControl EXCEPT !.at = "live", !.fence = run[r].fence]
<1>1. Shapes /\ run[r] \in RunShape /\ run[r].fence \in Nat
  BY DEF RunsInv, Shapes, RunShape
<1>2. /\ u \in RunShape /\ u.state = "Running" /\ u.fence = run[r].fence
      /\ u.left = run[r].left /\ u.held = run[r].held
  BY <1>1, Zenon DEF RunShape
<1>3. k \in ControlShape /\ k.fence = run[r].fence
  BY <1>1, NewControls, Zenon
<1>4. Writes2(q, r, u, k)
  BY <1>1, Zenon DEF ResumePaused, Writes2, Shapes
<1> HIDE DEF u, k
<1>5. run[r].state = "Interrupted" /\ run[r].waits = {}
  BY DEF ResumePaused
<1>6. Wrote(r, u)
  BY <1>1, <1>2, <1>3, <1>4, <1>5, WriteTakes
<1>7. FundsKept
  BY <1>1 DEF ResumePaused, FundsKept, Shapes
<1>8. run[r].state \notin FinalStates
  BY <1>5 DEF FinalStates
<1> QED
  BY <1>2, <1>5, <1>6, <1>7, <1>8, RunWritten

\* The cancellation of a paused child,
LEMMA CancelledChildWritten ==
  ASSUME RunConstants, RunsInv, NEW q \in Procs, NEW c \in Children,
         run' = [run EXCEPT ![c].state = "Cancelled"], UNCHANGED ctl, FundsKept
  PROVE  RunsInv' /\ Answered
<1> DEFINE u == [run[c] EXCEPT !.state = "Cancelled"]
<1>1. c \in Runs /\ Shapes /\ run[c] \in RunShape /\ ctl[q][c] \in ControlShape
  BY DEF Runs, RunsInv, Shapes
<1>2. u \in RunShape /\ u.state \in FinalStates /\ u.fence = run[c].fence
  BY <1>1, Zenon DEF RunShape, FinalStates
<1>3. Writes2(q, c, u, ctl[q][c])
  BY <1>1, Zenon DEF Writes2, Shapes
<1> HIDE DEF u
<1>4. Wrote(c, u)
  BY <1>1, <1>2, <1>3, WriteKeeps
<1> QED
  BY <1>4, ChildWritten

\* and of a paused parent.
LEMMA CancelParentKeeps ==
  ASSUME RunConstants, RunsInv, NEW q \in Procs, CancelParent(q)
  PROVE  RunsInv' /\ Answered
<1> DEFINE u == [run[Parent] EXCEPT !.state = "Cancelled", !.held = 0]
<1>1. Parent \in Runs /\ Shapes /\ run[Parent] \in RunShape /\ ctl[q][Parent] \in ControlShape
  BY DEF Runs, RunsInv, Shapes
<1>2. u \in RunShape /\ u.state \in FinalStates /\ u.fence = run[Parent].fence
  <2>1. 0 \in Nat
    OBVIOUS
  <2> QED
    BY <1>1, <2>1, Zenon DEF RunShape, FinalStates
<1>3. Writes2(q, Parent, u, ctl[q][Parent])
  BY <1>1, Zenon DEF CancelParent, Writes2, Shapes
<1> HIDE DEF u
<1>4. Wrote(Parent, u)
  BY <1>1, <1>2, <1>3, WriteKeeps
<1>5. FundsKept
  BY <1>1, NewHeads, Zenon DEF CancelParent, FundsKept, Shapes
<1>6. u.state # "Running"
  BY <1>2 DEF FinalStates
<1> QED
  BY <1>2, <1>4, <1>5, <1>6, ParentWritten

\* A takeover runs under the next fence.
LEMMA TakenByKeeps ==
  ASSUME RunConstants, RunsInv, NEW q \in Procs, NEW r \in Runs,
         run[r].state = "Running", TakenBy(q, r), FundsKept
  PROVE  RunsInv' /\ Answered
<1> DEFINE u == [run[r] EXCEPT !.fence = run[r].fence + 1]
           k == [NoControl EXCEPT !.at = "live", !.fence = run[r].fence + 1]
<1>1. Shapes /\ run[r] \in RunShape /\ run[r].fence \in Nat /\ run[r].fence + 1 \in Nat
  BY DEF RunsInv, Shapes, RunShape
<1>2. /\ u \in RunShape /\ u.state = run[r].state /\ u.fence = run[r].fence + 1
      /\ u.left = run[r].left /\ u.held = run[r].held
  BY <1>1, Zenon DEF RunShape
<1>3. k \in ControlShape /\ k.fence = run[r].fence + 1
  BY <1>1, NewControls, Zenon
<1>4. Writes2(q, r, u, k)
  BY <1>1, Zenon DEF TakenBy, Writes2, Shapes
<1> HIDE DEF u, k
<1>5. Wrote(r, u)
  BY <1>1, <1>2, <1>3, <1>4, WriteTakes
<1>6. run[r].state \notin FinalStates /\ run[r].state # "Interrupted"
  BY DEF FinalStates
<1> QED
  BY <1>2, <1>5, <1>6, RunWritten

\* A control is dropped, or begins to recover a Running run.
LEMMA ControlKeeps ==
  ASSUME RunConstants, RunsInv, NEW q \in Procs, NEW r \in Runs, NEW k \in ControlShape,
         ctl' = [ctl EXCEPT ![q][r] = k], UNCHANGED run, FundsKept,
         \/ k = NoControl
         \/ k.at = "recovering" /\ k.fence = run[r].fence /\ run[r].state = "Running"
  PROVE  RunsInv' /\ Answered
<1>1. Shapes /\ run[r] \in RunShape
  BY DEF RunsInv, Shapes
<1>2. Writes2(q, r, run[r], k)
  BY DEF Writes2
<1>3. Wrote(r, run[r])
  BY <1>1, <1>2, WriteKeeps
<1>4. Shapes'
  BY <1>3 DEF Wrote, FundsKept, Shapes
<1>5. \A s \in Runs : FencedRun(s)'
  BY <1>1, <1>3, <1>4, StaysFenced DEF RunsInv, Wrote
<1>6. ChildrenFunded' /\ Answered
  BY DEF RunsInv, ChildrenFunded, Final, FundsKept, Answered
<1> QED
  BY <1>4, <1>5, <1>6 DEF RunsInv

\* A control that was taken over stops.
LEMMA TakenOverKeeps ==
  ASSUME RunConstants, RunsInv, NEW q \in Procs, NEW r \in Runs, MarkTakenOver(q, r)
  PROVE  RunsInv' /\ Answered
<1>1. FundsKept
  BY DEF MarkTakenOver, FundsKept, RunsInv, Shapes
<1> QED
  BY <1>1, NewControls, ControlKeeps, Zenon DEF MarkTakenOver, Drop

\* reconnect_core of a Running run.
LEMMA ReconnectKeeps ==
  ASSUME RunConstants, RunsInv, NEW q \in Procs, NEW r \in Runs, ReconnectRunning(q, r)
  PROVE  RunsInv' /\ Answered
<1>1. run[r].state = "Running" /\ Shapes
  BY DEF ReconnectRunning, RunsInv
<1>2. CASE TakenBy(q, r) /\ UNCHANGED <<relation, head>>
  <2>1. FundsKept
    BY <1>1, <1>2 DEF FundsKept, Shapes
  <2> QED
    BY <1>1, <1>2, <2>1, TakenByKeeps
<1>3. CASE /\ r # Parent /\ run' = [run EXCEPT ![r].state = "Cancelled"]
           /\ RowEnds(r, "Cancelled") /\ UNCHANGED ctl
  <2>1. FundsKept
    BY <1>1, <1>3, NewHeads, Zenon DEF RowEnds, FundsKept, Shapes
  <2>2. r \in Children
    BY <1>3 DEF Runs
  <2> QED
    BY <1>3, <2>1, <2>2, CancelledChildWritten, Zenon
<1>4. CASE /\ ctl' = [ctl EXCEPT ![q][r].at = "recovering", ![q][r].fence = run[r].fence]
           /\ UNCHANGED <<run, relation, head>>
  <2> DEFINE k == [ctl[q][r] EXCEPT !.at = "recovering", !.fence = run[r].fence]
  <2>1. /\ ctl \in [Procs -> [Runs -> ControlShape]] /\ ctl[q][r] \in ControlShape
        /\ run[r].fence \in Nat
    BY <1>1 DEF Shapes, RunShape
  <2>2. k \in ControlShape /\ k.at = "recovering" /\ k.fence = run[r].fence
    BY <2>1, Zenon DEF ControlShape
  <2>3. DOMAIN ctl[q][r] = {"at", "fence", "waits"}
    BY <2>1, Zenon DEF ControlShape
  <2>4. ctl' = [ctl EXCEPT ![q] = [ctl[q] EXCEPT ![r] = k]]
    BY <1>4, <2>1, <2>3, Zenon
  <2> HIDE DEF k
  <2>5. ctl' = [ctl EXCEPT ![q][r] = k]
    BY <2>4, Zenon
  <2>6. FundsKept /\ UNCHANGED run
    BY <1>1, <1>4 DEF FundsKept, Shapes
  <2> QED
    BY <1>1, <2>2, <2>5, <2>6, ControlKeeps, Zenon
<1> QED
  BY <1>2, <1>3, <1>4 DEF ReconnectRunning

\* The takeover of an unstarted child.
LEMMA TakeOverKeeps ==
  ASSUME RunConstants, RunsInv, NEW q \in Procs, NEW r \in Runs, TakeOver(q, r)
  PROVE  RunsInv' /\ Answered
<1>1. FundsKept
  BY DEF TakeOver, FundsKept, RunsInv, Shapes
<1>2. CASE Current(q, r) /\ TakenBy(q, r)
  BY <1>1, <1>2, TakenByKeeps DEF Current
<1>3. CASE Drop(q, r) /\ UNCHANGED run
  BY <1>1, <1>3, NewControls, ControlKeeps, Zenon DEF Drop
<1> QED
  BY <1>2, <1>3 DEF TakeOver

\* The callback of a completion writes the row and the head only.
LEMMA RecordKeeps ==
  ASSUME RunConstants, RunsInv, NEW q \in Procs, NEW w \in owed[q], RecordCompletion(q, w)
  PROVE  RunsInv' /\ Answered
<1>1. head \in HeadShape
  BY DEF RunsInv, Shapes
<1>2. \/ UNCHANGED head
      \/ head' = [head EXCEPT !.epoch = @ + 1, !.open = @ - 1]
      \/ head' = [head EXCEPT !.epoch = @ + 1]
  BY DEF RecordCompletion, RowEnds
<1>3. FundsKept
  BY <1>1, <1>2, NewHeads, Zenon DEF FundsKept
<1> QED
  BY <1>3, NothingWritten DEF RecordCompletion

\* The clean-up ends a child, or leaves it alone.
LEMMA CleanUpKeeps ==
  ASSUME RunConstants, RunsInv, NEW q \in Procs, NEW c \in Children, CleanUp(q, c)
  PROVE  RunsInv' /\ Answered
<1>1. head \in HeadShape /\ UNCHANGED ctl
  BY DEF RunsInv, Shapes, CleanUp
<1>2. CASE run' = [run EXCEPT ![c].state = "Cancelled"] /\ RowEnds(c, "Cancelled")
  <2>1. FundsKept
    BY <1>1, <1>2, NewHeads, Zenon DEF RowEnds, FundsKept
  <2> QED
    BY <1>1, <1>2, <2>1, CancelledChildWritten, Zenon
<1>3. CASE run' = [run EXCEPT ![c].state = "Cancelled"] /\ UNCHANGED <<relation, head>>
  <2>1. FundsKept
    BY <1>1, <1>3 DEF FundsKept
  <2> QED
    BY <1>1, <1>3, <2>1, CancelledChildWritten, Zenon
<1>4. CASE UNCHANGED <<run, relation, head, owed>>
  <2>1. FundsKept
    BY <1>1, <1>4 DEF FundsKept
  <2> QED
    BY <1>1, <1>4, <2>1, NothingWritten
<1> QED
  BY <1>2, <1>3, <1>4, Zenon DEF CleanUp

\* A wake continues the parent when all its children have ended, or does nothing.
LEMMA WakeKeeps ==
  ASSUME RunConstants, RunsInv, NEW q \in Procs, NEW t \in Runs, WakeStep(q, t)
  PROVE  RunsInv' /\ Answered
<1>1. FundsKept /\ Parent \in Runs
  BY DEF WakeStep, FundsKept, RunsInv, Shapes, Runs
<1>2. CASE UNCHANGED <<run, ctl>>
  BY <1>1, <1>2, NothingWritten
<1>3. CASE /\ run[Parent].state = "Interrupted" /\ AllAnswered
           /\ run' = [run EXCEPT ![Parent].state = "Running", ![Parent].waits = {}]
           /\ ctl' = [ctl EXCEPT ![q][Parent] =
                        [NoControl EXCEPT !.at = "live", !.fence = run[Parent].fence]]
  <2> DEFINE u == [run[Parent] EXCEPT !.state = "Running", !.waits = {}]
             k == [NoControl EXCEPT !.at = "live", !.fence = run[Parent].fence]
  <2>1. Shapes /\ run[Parent] \in RunShape /\ run[Parent].fence \in Nat
    BY <1>1 DEF RunsInv, Shapes, RunShape
  <2>2. /\ u \in RunShape /\ u.state = "Running" /\ u.fence = run[Parent].fence
        /\ u.left = run[Parent].left /\ u.held = run[Parent].held
    BY <2>1, Zenon DEF RunShape
  <2>3. k \in ControlShape /\ k.fence = run[Parent].fence
    BY <2>1, NewControls, Zenon
  <2>4. Writes2(q, Parent, u, k)
    BY <1>3, <2>1, Zenon DEF Writes2, Shapes
  <2> HIDE DEF u, k
  <2>5. Wrote(Parent, u)
    BY <1>1, <1>3, <2>1, <2>2, <2>3, <2>4, WriteTakes
  <2>6. run[Parent].state \notin FinalStates
    BY <1>3 DEF FinalStates
  <2> QED
    BY <1>1, <1>3, <2>2, <2>5, <2>6, RunWritten DEF AllAnswered
<1> QED
  BY <1>2, <1>3 DEF WakeStep, ResumeAnswered

\* A crash only drops controls.
LEMMA CrashKeeps ==
  ASSUME RunConstants, RunsInv, NEW q \in Procs, CrashProcess(q)
  PROVE  RunsInv' /\ Answered
<1>1. /\ UNCHANGED <<run, head>> /\ Shapes
      /\ ctl' = [ctl EXCEPT ![q] = [r \in Runs |-> NoControl]]
  BY DEF CrashProcess, RunsInv
<1>2. /\ ctl' \in [Procs -> [Runs -> ControlShape]]
      /\ \A p \in Procs : \A r \in Runs : ctl'[p][r] \in {ctl[p][r], NoControl}
  BY <1>1, NewControls, Zenon DEF Shapes
<1>3. Shapes'
  BY <1>1, <1>2 DEF Shapes
<1>4. \A r \in Runs : Keeps(r)
  BY <1>1, <1>2 DEF Keeps
<1>5. \A r \in Runs : FencedRun(r)'
  BY <1>1, <1>3, <1>4, StaysFenced DEF RunsInv, Changes
<1>6. ChildrenFunded' /\ Answered
  BY <1>1 DEF RunsInv, ChildrenFunded, Final, Answered
<1> QED
  BY <1>3, <1>5, <1>6 DEF RunsInv

-----------------------------------------------------------------------------
\* Every step keeps the invariant, and continues a parent only when it may.
LEMMA RunsInvStep ==
  ASSUME RunConstants, RunsInv, [ChildNext]_childVars
  PROVE  RunsInv' /\ Answered
<1>1. CASE UNCHANGED childVars
  <2>1. UNCHANGED <<run, ctl>> /\ FundsKept
    BY <1>1 DEF childVars, FundsKept, RunsInv, Shapes
  <2> QED
    BY <2>1, NothingWritten
<1>2. ASSUME NEW q \in Procs, Publish(q) PROVE RunsInv' /\ Answered
  BY <1>2, SpendKeeps, AwaitKeeps, PauseParentKeeps, EndParentKeeps, SpawnKeeps, StartKeeps,
     PauseChildKeeps, EndChildKeeps, TakenOverKeeps DEF Publish
<1>3. ASSUME NEW q \in Procs, HostCall(q) PROVE RunsInv' /\ Answered
  <2>1. CASE CancelParent(q)
    BY <2>1, CancelParentKeeps
  <2>2. CASE ReconnectPaused(q)
    <3>1. UNCHANGED <<run, ctl>> /\ FundsKept
      BY <2>2 DEF ReconnectPaused, FundsKept, RunsInv, Shapes
    <3> QED
      BY <3>1, NothingWritten
  <2>3. ASSUME NEW c \in Children, CancelChild(q, c) PROVE RunsInv' /\ Answered
    <3>1. FundsKept
      BY <2>3 DEF CancelChild, FundsKept, RunsInv, Shapes
    <3> QED
      BY <2>3, <3>1, CancelledChildWritten, Zenon DEF CancelChild
  <2>4. ASSUME NEW c \in Children, TakeOver(q, c) PROVE RunsInv' /\ Answered
    BY <2>4, TakeOverKeeps DEF Runs
  <2> QED
    BY <1>3, <2>1, <2>2, <2>3, <2>4, ResumeKeeps, ReconnectKeeps DEF HostCall
<1>4. ASSUME NEW q \in Procs, AfterEnd(q) PROVE RunsInv' /\ Answered
  BY <1>4, RecordKeeps, CleanUpKeeps DEF AfterEnd
<1> QED
  BY <1>1, <1>2, <1>3, <1>4, CrashKeeps, WakeKeeps DEF ChildNext

\* One process executes the parent at first.
LEMMA RunsInvInit ==
  ASSUME RunConstants, ChildInit
  PROVE  RunsInv
<1>1. PICK q \in Procs :
        ctl = [p \in Procs |-> [r \in Runs |->
                 IF p = q /\ r = Parent THEN [NoControl EXCEPT !.at = "live", !.fence = 1]
                                        ELSE NoControl]]
  BY DEF ChildInit
<1>2. run \in [Runs -> RunShape]
  BY DEF ChildInit, RunShape, RunConstants
<1>3. head \in HeadShape
  BY DEF ChildInit, HeadShape
<1>4. ctl \in [Procs -> [Runs -> ControlShape]]
  BY <1>1, NewControls, Zenon
<1>5. \A p \in Procs : \A r \in Runs :
        /\ p # q \/ r # Parent => ctl[p][r] = NoControl
        /\ ctl[p][r].fence <= run[r].fence
  <2>1. \A p \in Procs : \A r \in Runs : p # q \/ r # Parent => ctl[p][r] = NoControl
    BY <1>1
  <2>2. ctl[q][Parent].fence = 1 /\ run[Parent].fence = 1
    BY <1>1, Zenon DEF ChildInit, NoControl, Runs
  <2>3. \A r \in Runs : run[r].fence \in Nat
    BY <1>2 DEF RunShape
  <2> QED
    BY <2>1, <2>2, <2>3 DEF NoControl
<1>6. ASSUME NEW r \in Runs PROVE FencedRun(r)
  <2>1. /\ run[r].state = "absent" => r # Parent /\ run[r].fence = 0
        /\ run[r].state # "Interrupted"
    BY DEF ChildInit
  <2> QED
    BY <1>5, <2>1 DEF FencedRun, Holds, NoControl
<1>7. ChildrenFunded
  BY DEF ChildInit, ChildrenFunded, Runs, RunConstants
<1> QED
  BY <1>2, <1>3, <1>4, <1>6, <1>7 DEF RunsInv, Shapes

\* The invariant holds, for every value of the constants.
LEMMA RunsInvHolds == ASSUME RunConstants PROVE ChildSpec => []RunsInv
<1>1. ChildInit => RunsInv
  BY RunsInvInit
<1>2. RunsInv /\ [ChildNext]_childVars => RunsInv'
  BY RunsInvStep
<1> QED
  BY <1>1, <1>2, PTL DEF ChildSpec

\* A run that is Running has at most one process that can publish for it, however
\* resumes, wakes, reconnects, takeovers and crashes of any number of processes meet
\* (compare_publish against the fence, reconnect_core, resume_core).
THEOREM RunsHaveOneExecutor == ASSUME RunConstants PROVE ChildSpec => []OneExecutor
<1>1. RunsInv => OneExecutor
  <2>1. RunsInv => DOMAIN run = Runs /\ DOMAIN ctl = Procs
    BY DEF RunsInv, Shapes
  <2> QED
    BY <2>1, Zenon DEF RunsInv, FencedRun, OneExecutor, Current, Holds
<1> QED
  BY <1>1, RunsInvHolds, PTL

\* What a parent's children hold is covered by what the parent has left and in
\* reserve, while it may run (spend_keeps_children_funded, child_relation_insert_admits),
\* for any budget and any reservation.
THEOREM ChildrenStayFunded == ASSUME RunConstants PROVE ChildSpec => []ChildrenFunded
<1>1. RunsInv => ChildrenFunded
  BY DEF RunsInv
<1> QED
  BY <1>1, RunsInvHolds, PTL

\* A parent paused on children is continued only when every one of them has ended,
\* whoever continues it (resume_core, wake_paused_parent).
THEOREM ParentsContinueAnswered == ASSUME RunConstants PROVE ChildSpec => ContinuedWhenAnswered
<1>1. RunsInv /\ [ChildNext]_childVars =>
        [run[Parent].state = "Interrupted" /\ run'[Parent].state = "Running"
           => \A c \in run[Parent].waits : Final(c)]_childVars
  BY RunsInvStep DEF Answered
<1> QED
  BY <1>1, RunsInvHolds, PTL DEF ChildSpec, ContinuedWhenAnswered

-----------------------------------------------------------------------------
(* The relation rows. *)

OwedShape == [child : Children, ends : BOOLEAN, pause : Nat, fence : Nat]
RowShape == [state : {"none", "Dispatched"} \cup FinalStates, paused : Nat]
OpenRows == {c \in Children : relation[c].state = "Dispatched"}

\* An end that is owed is that of a run that ended, under the fence it ended with.
OwedTrue ==
  /\ owed \in [Procs -> SUBSET OwedShape]
  /\ \A q \in Procs : \A w \in owed[q] :
       w.ends => Final(w.child) /\ w.fence = run[w.child].fence

\* The callback that repairs the row of c is owed, or was lost with its process.
Owing(c) == dropped \/ \E q \in Procs : \E w \in owed[q] : w.child = c /\ w.ends

RowTrue(c) ==
  /\ relation[c].state = "none" <=> run[c].state = "absent"
  /\ relation[c].state \in FinalStates => relation[c].state = run[c].state
  /\ Final(c) /\ relation[c].state = "Dispatched" => Owing(c)

RowsInv ==
  /\ relation \in [Children -> RowShape]
  /\ OwedTrue
  /\ \A c \in Children : RowTrue(c)
  /\ head.open = Cardinality(OpenRows)

\* A child whose row does not move.
Follows(c) ==
  /\ relation'[c].state = relation[c].state
  /\ run[c].state = "absent" <=> run'[c].state = "absent"
  /\ Final(c) => run'[c].state = run[c].state
  /\ Final(c)' /\ relation[c].state = "Dispatched" => Owing(c)'

\* Its row stays true.
LEMMA FollowsTrue ==
  ASSUME NEW c \in Children, RowTrue(c), Follows(c)
  PROVE  RowTrue(c)'
BY DEF RowTrue, Follows, Final, FinalStates

\* No row is opened or ended.
LEMMA RowsStay ==
  ASSUME RowsInv, relation' \in [Children -> RowShape], OwedTrue', head'.open = head.open,
         \A c \in Children : Follows(c)
  PROVE  RowsInv'
<1>1. OpenRows' = OpenRows
  BY SMTT(30) DEF OpenRows, Follows
<1> QED
  BY <1>1, FollowsTrue DEF RowsInv

\* The row of c ends, as the run of c does or did.
LEMMA RowCloses ==
  ASSUME IsFiniteSet(Children), RowsInv, head \in HeadShape,
         NEW c \in Children, NEW status \in FinalStates, RowEnds(c, status),
         relation[c].state = "Dispatched", run'[c].state = status, OwedTrue',
         \A d \in Children \ {c} : relation'[d].state = relation[d].state => Follows(d)
  PROVE  RowsInv'
<1>1. relation' \in [Children -> RowShape] /\ relation'[c].state = status
      /\ \A d \in Children \ {c} : relation'[d] = relation[d]
  <2>1. [state |-> status, paused |-> 0] \in RowShape
    BY SMTT(30) DEF RowShape
  <2> QED
    BY <2>1, SMTT(30) DEF RowEnds, RowsInv
<1>2. \A d \in Children \ {c} : RowTrue(d)'
  BY <1>1, FollowsTrue, SMTT(30) DEF RowsInv
<1>3. status # "none" /\ status # "Dispatched" /\ status # "absent"
  BY SMTT(30) DEF FinalStates
<1>4. RowTrue(c)'
  BY <1>1, <1>3 DEF RowTrue
<1>5. OpenRows' = OpenRows \ {c} /\ c \in OpenRows
  BY <1>1, <1>3 DEF OpenRows
<1>6. IsFiniteSet(OpenRows)
  BY FS_Subset DEF OpenRows
<1>7. Cardinality(OpenRows') = Cardinality(OpenRows) - 1
  BY <1>5, <1>6, FS_RemoveElement, Zenon
<1>8. head'.open = head.open - 1
  BY DEF RowEnds, HeadShape
<1> QED
  BY <1>1, <1>2, <1>4, <1>7, <1>8 DEF RowsInv

\* A run that does not end, and was not just spawned.
RunsOn(c) ==
  \/ run'[c] = run[c]
  \/ {run[c].state, run'[c].state} \subseteq {"Running", "Interrupted"}

\* A run that ends while its row is open, under its fence.
Ends(c) == ~Final(c) /\ Final(c)' /\ run[c].state # "absent" /\ run'[c].fence = run[c].fence

\* One record is written.
LEMMA OneMoved ==
  ASSUME Shapes, NEW r \in Runs, NEW u, run' = [run EXCEPT ![r] = u]
  PROVE  run'[r] = u /\ \A s \in Runs \ {r} : run'[s] = run[s]
BY DEF Shapes

\* No child ends or begins when the record that is written goes on.
LEMMA MovedOn ==
  ASSUME Shapes, NEW r \in Runs, NEW u, run' = [run EXCEPT ![r] = u],
         r \in Children => {run[r].state, u.state} \subseteq {"Running", "Interrupted"}
  PROVE  \A c \in Children : RunsOn(c)
BY OneMoved DEF RunsOn, Runs

\* Ends that are owed stay true while ended runs stay as they are.
LEMMA OwedStaysTrue ==
  ASSUME OwedTrue, owed' \in [Procs -> SUBSET OwedShape],
         \A c \in Children : RunsOn(c) \/ Ends(c),
         \A q \in Procs : \A w \in owed'[q] :
           w \in owed[q] \/ (w.ends => Final(w.child)' /\ w.fence = run'[w.child].fence)
  PROVE  OwedTrue'
<1>1. \A c \in Children : Final(c) => Final(c)' /\ run'[c].fence = run[c].fence
  BY DEF RunsOn, Ends, Final, FinalStates
<1>2. \A q \in Procs : \A w \in owed'[q] : w.child \in Children
  BY DEF OwedShape
<1> QED
  BY <1>1, <1>2 DEF OwedTrue

\* A step that touches neither the rows nor the callbacks.
LEMMA RowsQuiet ==
  ASSUME RowsInv, UNCHANGED <<relation, owed, dropped>>, head'.open = head.open,
         \A c \in Children : RunsOn(c)
  PROVE  RowsInv'
<1>1. OwedTrue'
  BY OwedStaysTrue DEF RowsInv, OwedTrue
<1>2. \A c \in Children : Owing(c)' <=> Owing(c)
  BY DEF Owing
<1>3. ASSUME NEW c \in Children PROVE Follows(c)
  BY <1>2 DEF RowsInv, RowTrue, Follows, RunsOn, Final, FinalStates
<1> QED
  BY <1>1, <1>3, RowsStay DEF RowsInv

\* A completion that becomes owed.
LEMMA OwedGrows ==
  ASSUME Shapes, Shapes', RowsInv, NEW q \in Procs, NEW c \in Children, NEW ends \in BOOLEAN,
         Completion(q, c, ends), UNCHANGED dropped,
         \A d \in Children : RunsOn(d) \/ Ends(d), ends => Ends(c)
  PROVE  /\ OwedTrue' /\ (ends => Owing(c)')
         /\ \A d \in Children : Owing(d) => Owing(d)'
<1> DEFINE w == [child |-> c, ends |-> ends, pause |-> run'[c].pauses, fence |-> run[c].fence]
<1>1. w \in OwedShape
  <2>1. run'[c].pauses \in Nat /\ run[c].fence \in Nat
    BY DEF Shapes, RunShape, Runs
  <2> QED
    BY <2>1 DEF OwedShape
<1>2. w.child = c /\ w.ends = ends /\ w.fence = run[c].fence
  OBVIOUS
<1>3. owed' = [owed EXCEPT ![q] = owed[q] \cup {w}] /\ owed \in [Procs -> SUBSET OwedShape]
  BY DEF Completion, RowsInv, OwedTrue
<1> HIDE DEF w
<1>4. /\ owed' \in [Procs -> SUBSET OwedShape] /\ owed'[q] = owed[q] \cup {w}
      /\ \A p \in Procs \ {q} : owed'[p] = owed[p]
  BY <1>1, <1>3, SMTT(30)
<1>5. OwedTrue'
  BY <1>2, <1>4, OwedStaysTrue, SMTT(30) DEF RowsInv, Ends
<1>6. \A d \in Children : Owing(d) => Owing(d)'
  BY <1>4 DEF Owing
<1>7. ends => Owing(c)'
  BY <1>2, <1>4, Zenon DEF Owing
<1> QED
  BY <1>5, <1>6, <1>7

\* A child that pauses, or ends without its row: the callback is owed.
LEMMA RowsOwed ==
  ASSUME Shapes, Shapes', RowsInv, NEW q \in Procs, NEW c \in Children, NEW ends \in BOOLEAN,
         Completion(q, c, ends), UNCHANGED <<relation, head, dropped>>,
         \A d \in Children \ {c} : RunsOn(d),
         IF ends THEN Ends(c) ELSE RunsOn(c)
  PROVE  RowsInv'
<1>1. /\ OwedTrue' /\ (ends => Owing(c)')
      /\ \A d \in Children : Owing(d) => Owing(d)'
  BY OwedGrows, SMTT(30)
<1>2. ASSUME NEW d \in Children, RunsOn(d) PROVE Follows(d)
  BY <1>1, <1>2, SMTT(30) DEF RowsInv, RowTrue, Follows, RunsOn, Final, FinalStates
<1>3. ends => Follows(c)
  BY <1>1, SMTT(30) DEF Follows, Ends, Final, FinalStates
<1> QED
  BY <1>1, <1>2, <1>3, RowsStay DEF RowsInv

\* A child ends together with its row.
LEMMA EndsWithRow ==
  ASSUME IsFiniteSet(Children), Shapes, Shapes', RowsInv, NEW c \in Children,
         NEW status \in FinalStates, NEW u, run' = [run EXCEPT ![c] = u],
         u.state = status, u.fence = run[c].fence, run[c].state = "Running",
         RowEnds(c, status), UNCHANGED dropped,
         UNCHANGED owed \/ \E q \in Procs : Completion(q, c, TRUE)
  PROVE  RowsInv'
<1>1. run'[c] = u /\ \A d \in Children \ {c} : run'[d] = run[d]
  BY OneMoved, Zenon DEF Runs
<1>2. Ends(c) /\ \A d \in Children \ {c} : RunsOn(d)
  BY <1>1 DEF Ends, RunsOn, Final, FinalStates
<1>3. OwedTrue' /\ \A d \in Children : Owing(d) => Owing(d)'
  <2>1. CASE UNCHANGED owed
    <3>1. OwedTrue'
      BY <1>2, <2>1, OwedStaysTrue, Zenon DEF RowsInv, OwedTrue
    <3> QED
      BY <2>1, <3>1 DEF Owing
  <2>2. ASSUME NEW q \in Procs, Completion(q, c, TRUE)
        PROVE  OwedTrue' /\ \A d \in Children : Owing(d) => Owing(d)'
    BY <1>2, <2>2, OwedGrows, Zenon
  <2> QED
    BY <2>1, <2>2, Zenon
<1>4. relation[c].state = "Dispatched"
  BY DEF RowsInv, RowTrue, RowShape, FinalStates
<1>5. \A d \in Children \ {c} : relation'[d].state = relation[d].state => Follows(d)
  BY <1>1, <1>3, Zenon DEF RowsInv, RowTrue, Follows, Final
<1> QED
  BY <1>1, <1>3, <1>4, <1>5, RowCloses DEF Shapes

\* A spawn opens the row of a child that had none.
LEMMA SpawnRows ==
  ASSUME IsFiniteSet(Children), Shapes, Shapes', RowsInv, NEW q \in Procs, NEW c \in Children,
         Spawn(q, c)
  PROVE  RowsInv'
<1>1. run'[c].state = "Running" /\ \A d \in Children \ {c} : run'[d] = run[d]
  <2> DEFINE u == [run[c] EXCEPT !.state = "Running", !.fence = 1]
  <2>1. c \in Runs /\ run[c] \in RunShape
    BY DEF Runs, Shapes
  <2>2. run' = [run EXCEPT ![c] = u]
    BY <2>1, Zenon DEF Spawn, Shapes
  <2>3. u.state = "Running"
    BY <2>1, Zenon DEF RunShape
  <2> QED
    BY <2>1, <2>2, <2>3, OneMoved, Zenon DEF Runs
<1>2. run[c].state = "absent" /\ relation[c].state = "none" /\ ~Final(c)
  BY DEF Spawn, RowsInv, RowTrue, Final, FinalStates
<1>3. UNCHANGED <<owed, dropped>>
  BY SMTT(30) DEF Spawn
<1>4. OwedTrue' /\ \A d \in Children : Owing(d) => Owing(d)'
  BY <1>1, <1>2, <1>3 DEF RowsInv, OwedTrue, OwedShape, Owing, Final
<1>5. /\ relation' \in [Children -> RowShape] /\ relation'[c].state = "Dispatched"
      /\ \A d \in Children \ {c} : relation'[d] = relation[d]
  BY SMTT(30) DEF Spawn, RowsInv, RowShape
<1>6. RowTrue(c)'
  BY <1>1, <1>5 DEF RowTrue, Final, FinalStates
<1>7. ASSUME NEW d \in Children \ {c} PROVE RowTrue(d)'
  BY <1>1, <1>4, <1>5, FollowsTrue, Zenon DEF RowsInv, RowTrue, Follows, Final
<1>8. OpenRows' = OpenRows \cup {c} /\ c \notin OpenRows /\ IsFiniteSet(OpenRows)
  <2>1. OpenRows' = OpenRows \cup {c} /\ c \notin OpenRows
    BY <1>2, <1>5 DEF OpenRows
  <2> QED
    BY <2>1, FS_Subset DEF OpenRows
<1>9. Cardinality(OpenRows') = Cardinality(OpenRows) + 1
  BY <1>8, FS_AddElement, Zenon
<1>10. head'.open = head.open + 1
  BY DEF Spawn, Shapes, HeadShape
<1> QED
  BY <1>4, <1>5, <1>6, <1>7, <1>9, <1>10 DEF RowsInv

\* The completion callback: an end closes the row that is open, a pause is noted.
LEMMA RecordRows ==
  ASSUME IsFiniteSet(Children), Shapes, RowsInv, NEW q \in Procs, NEW w \in owed[q],
         RecordCompletion(q, w)
  PROVE  RowsInv'
<1> DEFINE c == w.child
<1>1. w \in OwedShape /\ c \in Children /\ w.pause \in Nat /\ owed \in [Procs -> SUBSET OwedShape]
  BY DEF RowsInv, OwedTrue, OwedShape
<1>2. UNCHANGED <<run, dropped>> /\ owed' = [owed EXCEPT ![q] = owed[q] \ {w}]
  BY DEF RecordCompletion
<1>3. /\ owed' \in [Procs -> SUBSET OwedShape]
      /\ \A p \in Procs : owed'[p] \subseteq owed[p] /\ owed[p] \subseteq owed'[p] \cup {w}
  BY <1>1, <1>2, SMTT(30)
<1>4. OwedTrue'
  BY <1>2, <1>3, OwedStaysTrue DEF RowsInv, RunsOn
<1>5. \A d \in Children : Owing(d) /\ (w.ends => d # c) => Owing(d)'
  BY <1>2, <1>3 DEF Owing
<1>6. \A d \in Children \ {c} : relation'[d].state = relation[d].state => Follows(d)
  BY <1>2, <1>5, SMTT(30) DEF RowsInv, RowTrue, Follows, Final
<1>7. CASE w.ends /\ Writes(c, w)
  <2>1. RowEnds(c, run[c].state) /\ relation[c].state = "Dispatched"
    BY <1>7 DEF RecordCompletion, Writes
  <2>2. run[c].state \in FinalStates
    BY <1>7, SMTT(30) DEF RowsInv, OwedTrue, Final
  <2> QED
    BY <1>1, <1>2, <1>4, <1>6, <2>1, <2>2, RowCloses DEF Shapes
<1>8. CASE ~w.ends /\ relation' = [relation EXCEPT ![c].paused = w.pause] /\ head' = [head EXCEPT !.epoch = @ + 1]
  <2>1. /\ relation' \in [Children -> RowShape] /\ relation'[c].state = relation[c].state
        /\ \A d \in Children \ {c} : relation'[d] = relation[d]
    BY <1>1, <1>8 DEF RowsInv, RowShape
  <2>2. head'.open = head.open
    BY <1>8 DEF Shapes, HeadShape
  <2>3. Follows(c)
    BY <1>1, <1>2, <1>5, <1>8, <2>1 DEF RowsInv, RowTrue, Follows, Final
  <2> QED
    BY <1>4, <1>6, <2>1, <2>2, <2>3, RowsStay
<1>9. CASE UNCHANGED <<relation, head>> /\ (w.ends => ~Writes(c, w))
  <2>1. w.ends => relation[c].state # "Dispatched"
    BY <1>9 DEF Writes, RowsInv, OwedTrue
  <2>2. Follows(c)
    BY <1>1, <1>2, <1>5, <1>9, <2>1, Zenon DEF RowsInv, RowTrue, Follows, Final
  <2> QED
    BY <1>4, <1>6, <1>9, <2>2, RowsStay, Zenon DEF RowsInv
<1> QED
  BY <1>7, <1>8, <1>9 DEF RecordCompletion

\* A crash that loses callbacks is recorded as such.
LEMMA CrashRows ==
  ASSUME RowsInv, NEW q \in Procs, CrashProcess(q)
  PROVE  RowsInv'
<1>1. /\ UNCHANGED <<run, relation, head>> /\ owed' = [owed EXCEPT ![q] = {}]
      /\ dropped \/ owed[q] # {} => dropped'
  BY Zenon DEF CrashProcess
<1>2. owed \in [Procs -> SUBSET OwedShape]
  BY DEF RowsInv, OwedTrue
<1>3. /\ owed' \in [Procs -> SUBSET OwedShape] /\ owed'[q] = {}
      /\ \A p \in Procs \ {q} : owed'[p] = owed[p]
  BY <1>1, <1>2
<1>4. OwedTrue'
  BY <1>1, <1>3, OwedStaysTrue DEF RowsInv, RunsOn
<1>5. \A c \in Children : Owing(c) => Owing(c)'
  BY <1>1, <1>3 DEF Owing
<1>6. \A c \in Children : Follows(c)
  BY <1>1, <1>5 DEF RowsInv, RowTrue, Follows, Final
<1> QED
  BY <1>1, <1>4, <1>6, RowsStay DEF RowsInv

\* The relation head that a parent's end writes counts the same rows.
LEMMA ClosedHeadOpen == ASSUME head \in HeadShape PROVE ClosedHead.open = head.open
BY DEF ClosedHead, HeadShape

\* What the parent does to its own record.
LEMMA ParentRows ==
  ASSUME RunConstants, Shapes, RowsInv, NEW u, run' = [run EXCEPT ![Parent] = u],
         UNCHANGED <<relation, owed, dropped>>, head'.open = head.open
  PROVE  RowsInv'
<1>1. \A c \in Children : RunsOn(c)
  BY MovedOn, Zenon DEF Runs, RunConstants
<1> QED
  BY <1>1, RowsQuiet

\* What is published for a child that goes on.
LEMMA RunRows ==
  ASSUME Shapes, RowsInv, NEW r \in Runs, NEW u, run' = [run EXCEPT ![r] = u],
         {run[r].state, u.state} \subseteq {"Running", "Interrupted"},
         UNCHANGED <<relation, head, owed, dropped>>
  PROVE  RowsInv'
<1>1. \A c \in Children : RunsOn(c)
  BY MovedOn, Zenon
<1> QED
  BY <1>1, RowsQuiet

\* The steps that touch no record.
LEMMA SameRows ==
  ASSUME RowsInv, UNCHANGED <<run, relation, head, owed, dropped>>
  PROVE  RowsInv'
<1>1. \A c \in Children : RunsOn(c)
  BY DEF RunsOn
<1> QED
  BY <1>1, RowsQuiet

\* The publications of a control.
LEMMA PublishRows ==
  ASSUME RunConstants, IsFiniteSet(Children), RunsInv, RunsInv', RowsInv, NEW q \in Procs,
         Publish(q)
  PROVE  RowsInv'
<1>0. Shapes /\ Shapes' /\ \A r \in Runs : run[r] \in RunShape
  BY DEF RunsInv, Shapes
<1>1. ASSUME NEW left, NEW held, Ledger(q, left, held) PROVE RowsInv'
  <2>1. run' = [run EXCEPT ![Parent] = [run[Parent] EXCEPT !.left = left, !.held = held]]
    BY <1>0, <1>1, Zenon DEF Ledger, Shapes
  <2>2. UNCHANGED <<relation, head, owed, dropped>>
    BY <1>1, SMTT(30) DEF Ledger
  <2> QED
    BY <1>0, <2>1, <2>2, ParentRows, Zenon
<1>2. CASE ConsumeDynamicCompile(q) \/ ReserveCommand(q) \/ SettleCommand(q)
  BY <1>1, <1>2 DEF ConsumeDynamicCompile, ReserveCommand, SettleCommand
<1>3. CASE AwaitPaused(q) \/ \E r \in Runs : MarkTakenOver(q, r)
  <2>1. UNCHANGED <<run, relation, head, owed, dropped>>
    BY <1>3 DEF AwaitPaused, MarkTakenOver
  <2> QED
    BY <2>1, SameRows
<1>4. CASE PauseParent(q)
  <2>1. PICK u : run' = [run EXCEPT ![Parent] = u]
    BY <1>0, <1>4, Zenon DEF PauseParent, Shapes
  <2>2. UNCHANGED <<relation, head, owed, dropped>>
    BY <1>4 DEF PauseParent
  <2> QED
    BY <1>0, <2>1, <2>2, ParentRows, Zenon
<1>5. CASE EndParent(q)
  <2>1. PICK u : run' = [run EXCEPT ![Parent] = u]
    BY <1>0, <1>5, Zenon DEF EndParent, Shapes
  <2>2. UNCHANGED <<relation, owed, dropped>> /\ head' = ClosedHead
    BY <1>5 DEF EndParent
  <2> QED
    BY <1>0, <2>1, <2>2, ParentRows, ClosedHeadOpen, Zenon DEF Shapes
<1>6. ASSUME NEW c \in Children, StartChild(q, c) PROVE RowsInv'
  <2> DEFINE u == [run[c] EXCEPT !.started = TRUE]
  <2>1. c \in Runs /\ run[c].state = "Running"
    BY <1>6 DEF Runs, StartChild, Executes, Current
  <2>2. u.state = run[c].state
    BY <1>0, <2>1, Zenon DEF RunShape
  <2>3. run' = [run EXCEPT ![c] = u]
    BY <1>6 DEF StartChild
  <2> HIDE DEF u
  <2>4. UNCHANGED <<relation, head, owed, dropped>>
    BY <1>6 DEF StartChild
  <2> QED
    BY <1>0, <2>1, <2>2, <2>3, <2>4, RunRows, Zenon
<1>7. ASSUME NEW c \in Children, PauseChild(q, c) PROVE RowsInv'
  <2> DEFINE u == [run[c] EXCEPT !.state = "Interrupted", !.started = TRUE, !.pauses = run[c].pauses + 1]
  <2>1. c \in Runs /\ run[c].state = "Running"
    BY <1>7 DEF Runs, PauseChild, Executes, Current
  <2>2. u.state = "Interrupted"
    BY <1>0, <2>1, Zenon DEF RunShape
  <2>3. run' = [run EXCEPT ![c] = u]
    BY <1>0, <1>7, <2>1, Zenon DEF PauseChild, Shapes
  <2> HIDE DEF u
  <2>4. UNCHANGED <<relation, head, dropped>> /\ Completion(q, c, FALSE)
    BY <1>7, Zenon DEF PauseChild
  <2>5. \A d \in Children : RunsOn(d)
    BY <1>0, <2>1, <2>2, <2>3, MovedOn, Zenon
  <2> QED
    BY <1>0, <2>4, <2>5, RowsOwed, Zenon
<1>8. ASSUME NEW c \in Children, EndChild(q, c) PROVE RowsInv'
  <2> DEFINE u == [run[c] EXCEPT !.state = "Completed", !.started = TRUE]
  <2>1. c \in Runs /\ run[c].state = "Running"
    BY <1>8 DEF Runs, EndChild, Executes, Current
  <2>2. u.state = "Completed" /\ u.fence = run[c].fence
    BY <1>0, <2>1, Zenon DEF RunShape
  <2>3. run' = [run EXCEPT ![c] = u]
    BY <1>0, <1>8, <2>1, Zenon DEF EndChild, Shapes
  <2> HIDE DEF u
  <2>4. UNCHANGED dropped /\ Completion(q, c, TRUE) /\ RowEnds(c, "Completed")
    BY <1>8, Zenon DEF EndChild
  <2>5. "Completed" \in FinalStates
    BY DEF FinalStates
  <2> QED
    BY <1>0, <2>1, <2>2, <2>3, <2>4, <2>5, EndsWithRow, Zenon
<1> QED
  BY <1>0, <1>2, <1>3, <1>4, <1>5, <1>6, <1>7, <1>8, SpawnRows DEF Publish

\* The record of a child is set to Cancelled: with its row while it was Running, with
\* a callback owed for the row while it was paused.
LEMMA CancelledRows ==
  ASSUME IsFiniteSet(Children), Shapes, Shapes', RowsInv, NEW q \in Procs, NEW c \in Children,
         run' = [run EXCEPT ![c].state = "Cancelled"], UNCHANGED dropped,
         \/ run[c].state = "Running" /\ RowEnds(c, "Cancelled") /\ UNCHANGED owed
         \/ run[c].state = "Interrupted" /\ Completion(q, c, TRUE) /\ UNCHANGED <<relation, head>>
  PROVE  RowsInv'
<1> DEFINE u == [run[c] EXCEPT !.state = "Cancelled"]
<1>1. c \in Runs /\ run[c] \in RunShape
  BY DEF Runs, Shapes
<1>2. u.state = "Cancelled" /\ u.fence = run[c].fence
  BY <1>1, Zenon DEF RunShape
<1>3. run' = [run EXCEPT ![c] = u]
  BY Zenon
<1> HIDE DEF u
<1>4. "Cancelled" \in FinalStates
  BY DEF FinalStates
<1>5. CASE run[c].state = "Running" /\ RowEnds(c, "Cancelled") /\ UNCHANGED owed
  BY <1>2, <1>3, <1>4, <1>5, EndsWithRow, Zenon
<1>6. CASE run[c].state = "Interrupted" /\ Completion(q, c, TRUE) /\ UNCHANGED <<relation, head>>
  <2>1. run'[c] = u /\ \A d \in Children \ {c} : run'[d] = run[d]
    BY <1>1, <1>3, OneMoved, Zenon DEF Runs
  <2>2. Ends(c) /\ \A d \in Children \ {c} : RunsOn(d)
    BY <1>2, <1>6, <2>1 DEF Ends, RunsOn, Final, FinalStates
  <2> QED
    BY <1>6, <2>2, RowsOwed, Zenon
<1> QED
  BY <1>5, <1>6, Zenon

\* A takeover leaves the state of the run.
LEMMA TakenRows ==
  ASSUME Shapes, RowsInv, NEW q \in Procs, NEW r \in Runs, run[r].state = "Running",
         TakenBy(q, r), UNCHANGED <<relation, head, owed, dropped>>
  PROVE  RowsInv'
<1> DEFINE u == [run[r] EXCEPT !.fence = run[r].fence + 1]
<1>1. run[r] \in RunShape /\ run' = [run EXCEPT ![r] = u]
  BY DEF Shapes, TakenBy
<1>2. u.state = run[r].state
  BY <1>1, Zenon DEF RunShape
<1> HIDE DEF u
<1> QED
  BY <1>1, <1>2, RunRows, Zenon

\* The calls of a host.
LEMMA HostCallRows ==
  ASSUME RunConstants, IsFiniteSet(Children), RunsInv, RunsInv', RowsInv, NEW q \in Procs,
         HostCall(q)
  PROVE  RowsInv'
<1>0. Shapes /\ Shapes' /\ \A r \in Runs : run[r] \in RunShape
  BY DEF RunsInv, Shapes
<1>1. CASE CancelParent(q)
  <2>1. PICK u : run' = [run EXCEPT ![Parent] = u]
    BY <1>0, <1>1, ZenonT(60) DEF CancelParent, Shapes
  <2>2. UNCHANGED <<relation, owed, dropped>> /\ head' = ClosedHead
    BY <1>1 DEF CancelParent
  <2> QED
    BY <1>0, <2>1, <2>2, ParentRows, ClosedHeadOpen, Zenon DEF Shapes
<1>2. CASE ReconnectPaused(q)
  <2>1. UNCHANGED <<run, relation, head, owed, dropped>>
    BY <1>2 DEF ReconnectPaused
  <2> QED
    BY <2>1, SameRows
<1>3. ASSUME NEW c \in Children, CancelChild(q, c) PROVE RowsInv'
  BY <1>0, <1>3, CancelledRows, Zenon DEF CancelChild
<1>4. ASSUME NEW c \in Children, TakeOver(q, c) PROVE RowsInv'
  <2>1. c \in Runs /\ UNCHANGED <<relation, head, owed, dropped>>
    BY <1>4 DEF Runs, TakeOver
  <2>2. CASE Current(q, c) /\ TakenBy(q, c)
    BY <1>0, <2>1, <2>2, TakenRows DEF Current
  <2>3. CASE UNCHANGED run
    BY <2>1, <2>3, SameRows
  <2> QED
    BY <1>4, <2>2, <2>3, SMTT(30) DEF TakeOver
<1>5. ASSUME NEW r \in Runs, ResumePaused(q, r) PROVE RowsInv'
  <2> DEFINE u == [run[r] EXCEPT !.state = "Running"]
  <2>1. u.state = "Running"
    BY <1>0, Zenon DEF RunShape
  <2>2. run' = [run EXCEPT ![r] = u] /\ run[r].state = "Interrupted"
    BY <1>5, Zenon DEF ResumePaused
  <2> HIDE DEF u
  <2>3. UNCHANGED <<relation, head, owed, dropped>>
    BY <1>5 DEF ResumePaused
  <2> QED
    BY <1>0, <2>1, <2>2, <2>3, RunRows, Zenon
<1>6. ASSUME NEW r \in Runs, ReconnectRunning(q, r) PROVE RowsInv'
  <2>1. run[r].state = "Running" /\ UNCHANGED <<owed, dropped>>
    BY <1>6 DEF ReconnectRunning
  <2>2. CASE TakenBy(q, r) /\ UNCHANGED <<relation, head>>
    BY <1>0, <2>1, <2>2, TakenRows
  <2>3. CASE r # Parent /\ run' = [run EXCEPT ![r].state = "Cancelled"] /\ RowEnds(r, "Cancelled")
    <3>1. r \in Children
      BY <2>3 DEF Runs
    <3> QED
      BY <1>0, <2>1, <2>3, <3>1, CancelledRows, Zenon
  <2>4. CASE UNCHANGED <<run, relation, head>>
    BY <2>1, <2>4, SameRows
  <2> QED
    BY <1>6, <2>2, <2>3, <2>4, Zenon DEF ReconnectRunning
<1> QED
  BY <1>1, <1>2, <1>3, <1>4, <1>5, <1>6 DEF HostCall

\* The clean-up after a parent's end.
LEMMA CleanUpRows ==
  ASSUME RunConstants, IsFiniteSet(Children), RunsInv, RunsInv', RowsInv, NEW q \in Procs,
         NEW c \in Children, CleanUp(q, c)
  PROVE  RowsInv'
<1>1. Shapes /\ Shapes' /\ UNCHANGED dropped
  BY DEF RunsInv, CleanUp
<1>2. CASE /\ Unstarted(c) /\ run' = [run EXCEPT ![c].state = "Cancelled"]
           /\ RowEnds(c, "Cancelled") /\ UNCHANGED owed
  BY <1>1, <1>2, CancelledRows, Zenon DEF Unstarted
<1>3. CASE /\ run[c].state = "Interrupted" /\ run' = [run EXCEPT ![c].state = "Cancelled"]
           /\ Completion(q, c, TRUE) /\ UNCHANGED <<relation, head>>
  BY <1>1, <1>3, CancelledRows, Zenon
<1>4. CASE UNCHANGED <<run, relation, head, owed>>
  BY <1>1, <1>4, SameRows
<1> QED
  BY <1>2, <1>3, <1>4, Zenon DEF CleanUp

\* A wake writes at most the parent's record.
LEMMA WakeRows ==
  ASSUME RunConstants, RunsInv, RowsInv, NEW q \in Procs, NEW t \in Runs, WakeStep(q, t)
  PROVE  RowsInv'
<1>1. Shapes /\ UNCHANGED <<relation, head, owed, dropped>>
  BY DEF RunsInv, WakeStep
<1>2. CASE UNCHANGED run
  BY <1>1, <1>2, SameRows
<1>3. CASE run' = [run EXCEPT ![Parent].state = "Running", ![Parent].waits = {}]
  <2>1. PICK u : run' = [run EXCEPT ![Parent] = u]
    BY <1>1, <1>3, Zenon DEF Shapes
  <2> QED
    BY <1>1, <2>1, ParentRows, Zenon
<1> QED
  BY <1>2, <1>3, Zenon DEF WakeStep, ResumeAnswered

\* The relation of a parent with its children tells the truth about them, for any
\* finite set of children: a row that ended shows how its run ended, a run that ended
\* has an open row only while its callback is owed or was lost in a crash, and the head
\* counts the open rows (plan_relation_update, publish_child_completion).
THEOREM RelationTellsTheTruth ==
  ASSUME RunConstants, IsFiniteSet(Children) PROVE ChildSpec => []RowsFollowRuns
<1>1. ChildInit => RowsInv
  <2> SUFFICES ASSUME ChildInit PROVE RowsInv
    OBVIOUS
  <2>1. relation \in [Children -> RowShape] /\ \A c \in Children : relation[c].state = "none"
    BY DEF ChildInit, RowShape
  <2>2. OwedTrue
    BY DEF ChildInit, OwedTrue
  <2>3. \A c \in Children : run[c].state = "absent"
    BY DEF ChildInit, Runs, RunConstants
  <2>4. \A c \in Children : RowTrue(c)
    BY <2>1, <2>3 DEF RowTrue, Final, FinalStates
  <2>5. OpenRows = {}
    BY <2>1 DEF OpenRows
  <2>6. head.open = Cardinality(OpenRows)
    BY <2>5, FS_EmptySet DEF ChildInit
  <2> QED
    BY <2>1, <2>2, <2>4, <2>6 DEF RowsInv
<1>2. RunsInv /\ RunsInv' /\ RowsInv /\ [ChildNext]_childVars => RowsInv'
  <2> SUFFICES ASSUME RunsInv, RunsInv', RowsInv, [ChildNext]_childVars PROVE RowsInv'
    OBVIOUS
  <2>1. CASE UNCHANGED childVars
    <3>1. UNCHANGED <<run, relation, head, owed, dropped>>
      BY <2>1, SMTT(30) DEF childVars
    <3> QED
      BY <3>1, SameRows
  <2>2. ASSUME NEW q \in Procs, AfterEnd(q) PROVE RowsInv'
    BY <2>2, RecordRows, CleanUpRows, SMTT(30) DEF AfterEnd, RunsInv
  <2> QED
    BY <2>1, <2>2, PublishRows, HostCallRows, CrashRows, WakeRows DEF ChildNext
<1>3. RowsInv => RowsFollowRuns
  <2>1. RowsInv => DOMAIN relation = Children /\ DOMAIN owed = Procs
    BY DEF RowsInv, OwedTrue
  <2> QED
    BY <2>1 DEF RowsInv, RowTrue, Owing, OpenRows, RowsFollowRuns
<1> QED
  BY <1>1, <1>2, <1>3, RunsInvHolds, PTL DEF ChildSpec
=============================================================================
