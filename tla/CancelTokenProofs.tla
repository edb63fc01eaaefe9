-------------------------- MODULE CancelTokenProofs --------------------------
(***************************************************************************)
(* What is proved of the cancel tokens, for any tree of tokens and any     *)
(* number of threads and bindings: no child escapes a cancellation, and    *)
(* the emits of a token exclude each other and the destruction of its      *)
(* handler.                                                                *)
(***************************************************************************)
EXTENDS CancelToken, TLAPS

-----------------------------------------------------------------------------
(* Emits. *)

\* Strands emit one at a time, under the flag; a handler is destroyed only while the
\* token is unbound and the flag is down.
EmitInv ==
  /\ ex \in [Tokens -> BOOLEAN] /\ emitting \in [Tokens -> BOOLEAN]
  /\ strand \in [Tokens -> [Bindings -> {"idle", "waiting", "emitting"}]]
  /\ user \in [Tokens -> {"free", "firing", "bound", "detaching", "clearing"}]
  /\ \A t \in Tokens :
       /\ \A g, k \in Bindings : strand[t][g] = "emitting" /\ strand[t][k] = "emitting" => g = k
       /\ (\E g \in Bindings : strand[t][g] = "emitting") => emitting[t]
       /\ user[t] \in {"detaching", "clearing"} => ~ex[t]
       /\ user[t] = "clearing" => ~emitting[t]

-----------------------------------------------------------------------------
(* The cascade. *)

CallPlaces == {"request", "post", "snapshot", "cascade", "register", "eager", "forked"}
Forking == {"register", "eager", "forked"}
CallShape == [token : Tokens, at : CallPlaces, kids : SUBSET Tokens]

\* Call i of thread h will stop child c of token t: it has still to take its snapshot, c
\* is in the snapshot, or it has just called cancel() on c; or it forks c and will see
\* that t is stopped.
Covers(h, i, t, c) ==
  LET call == stack[h][i]
      next == i + 1 \in DOMAIN stack[h] /\ stack[h][i + 1].token = c /\ stack[h][i + 1].at = "request"
  IN  /\ call.token = t
      /\ \/ call.at \in {"post", "snapshot"}
         \/ call.at = "cascade" /\ (c \in call.kids \/ next)
         \/ call.at = "eager" /\ c \in call.kids
         \/ call.at = "forked" /\ c \in call.kids /\ next

Covered(t, c) == \E h \in Threads : \E i \in DOMAIN stack[h] : Covers(h, i, t, c)

\* A fork is the outermost call of its thread, its child is not made yet, and no
\* other fork makes it.
Forks ==
  /\ \A h \in Threads : \A i \in DOMAIN stack[h] :
       stack[h][i].at \in Forking =>
         /\ i = 1 /\ stack[h][i].kids \cap made = {}
         /\ \E c \in Tokens : stack[h][i].kids = {c}
  /\ \A h, k \in Threads : h # k /\ 1 \in DOMAIN stack[h] /\ 1 \in DOMAIN stack[k]
       /\ stack[h][1].at \in Forking /\ stack[k][1].at \in Forking
       => stack[h][1].kids \cap stack[k][1].kids = {}

TreeTypes ==
  /\ made \subseteq Tokens /\ children \in [Tokens -> SUBSET Tokens]
  /\ stop \in [Tokens -> BOOLEAN]
Typed == stack \in [Threads -> Seq(CallShape)]

\* A child of a stopped token is stopped, or some call will stop it.
AllCovered == \A t \in Tokens : stop[t] => \A c \in children[t] : stop[c] \/ Covered(t, c)

TreeInv == TreeTypes /\ Typed /\ Forks /\ AllCovered

-----------------------------------------------------------------------------
(* The four ways a stack changes: the outermost call, its top replaced, its top
   returned, and a call made from its top. *)

OnlyStack(h) == \A k \in Threads \ {h} : stack'[k] = stack[k]

Starts(h, call) == stack[h] = <<>> /\ stack' = [stack EXCEPT ![h] = <<call>>]
Replaces(h, call) == stack[h] # <<>> /\ stack' = Replaced(h, call)
Returns(h) == stack[h] # <<>> /\ stack' = Returned(h)
Pushes(h, call, more) ==
  stack[h] # <<>> /\ stack' = [stack EXCEPT ![h] = Append([@ EXCEPT ![Len(@)] = call], more)]

\* The calls of a thread that is in one.
LEMMA NonEmpty ==
  ASSUME Typed, NEW h \in Threads, stack[h] # <<>>
  PROVE  /\ stack[h] \in Seq(CallShape) /\ Len(stack[h]) \in Nat \ {0}
         /\ DOMAIN stack[h] = 1 .. Len(stack[h])
         /\ \A i \in 1 .. Len(stack[h]) : stack[h][i] \in CallShape
         /\ Top(h) = stack[h][Len(stack[h])] /\ Top(h) \in CallShape
BY DEF Typed, Top

\* An outermost call is all its thread does.
LEMMA Started ==
  ASSUME Typed, NEW h \in Threads, NEW call \in CallShape, Starts(h, call)
  PROVE  /\ Typed' /\ OnlyStack(h)
         /\ DOMAIN stack[h] = {} /\ DOMAIN stack'[h] = {1} /\ stack'[h][1] = call
<1>1. stack'[h] = <<call>> /\ OnlyStack(h) /\ stack' \in [Threads -> Seq(CallShape)]
  BY DEF Starts, Typed, OnlyStack
<1>2. DOMAIN <<call>> = {1} /\ DOMAIN stack[h] = {}
  BY DEF Starts
<1> QED
  BY <1>1, <1>2 DEF Typed

\* A call that goes on leaves the calls below it alone.
LEMMA Replacing ==
  ASSUME Typed, NEW h \in Threads, NEW call \in CallShape, Replaces(h, call)
  PROVE  LET n == Len(stack[h])
         IN  /\ Typed' /\ OnlyStack(h) /\ DOMAIN stack'[h] = 1 .. n
             /\ stack'[h][n] = call /\ \A i \in 1 .. (n - 1) : stack'[h][i] = stack[h][i]
<1> DEFINE n == Len(stack[h])
<1>1. stack[h] \in Seq(CallShape) /\ n \in Nat \ {0} /\ DOMAIN stack[h] = 1 .. n
  BY NonEmpty DEF Replaces
<1>2. stack'[h] = [stack[h] EXCEPT ![n] = call] /\ OnlyStack(h)
  BY DEF Replaces, Replaced, Typed, OnlyStack
<1>3. [stack[h] EXCEPT ![n] = call] \in Seq(CallShape)
  BY <1>1
<1>4. Typed'
  BY <1>2, <1>3 DEF Replaces, Replaced, Typed
<1> QED
  BY <1>1, <1>2, <1>4

\* A call that returns leaves the calls below it alone.
LEMMA Returning ==
  ASSUME Typed, NEW h \in Threads, Returns(h)
  PROVE  LET n == Len(stack[h])
         IN  /\ Typed' /\ OnlyStack(h) /\ DOMAIN stack'[h] = 1 .. (n - 1)
             /\ \A i \in 1 .. (n - 1) : stack'[h][i] = stack[h][i]
<1> DEFINE n == Len(stack[h])
<1>1. stack[h] \in Seq(CallShape) /\ n \in Nat \ {0} /\ DOMAIN stack[h] = 1 .. n
  BY NonEmpty DEF Returns
<1>2. stack'[h] = SubSeq(stack[h], 1, n - 1) /\ OnlyStack(h)
  BY DEF Returns, Returned, Typed, OnlyStack
<1>3. /\ SubSeq(stack[h], 1, n - 1) \in Seq(CallShape) /\ DOMAIN SubSeq(stack[h], 1, n - 1) = 1 .. (n - 1)
      /\ \A i \in 1 .. (n - 1) : SubSeq(stack[h], 1, n - 1)[i] = stack[h][i]
  BY <1>1
<1>4. Typed'
  BY <1>2, <1>3 DEF Returns, Returned, Typed
<1> QED
  BY <1>1, <1>2, <1>3, <1>4

\* A call that makes a call leaves the calls below it alone.
LEMMA Pushing ==
  ASSUME Typed, NEW h \in Threads, NEW call \in CallShape, NEW more \in CallShape,
         Pushes(h, call, more)
  PROVE  LET n == Len(stack[h])
         IN  /\ Typed' /\ OnlyStack(h) /\ DOMAIN stack'[h] = 1 .. (n + 1)
             /\ stack'[h][n] = call /\ stack'[h][n + 1] = more
             /\ \A i \in 1 .. (n - 1) : stack'[h][i] = stack[h][i]
<1> DEFINE n == Len(stack[h])
           z == [stack[h] EXCEPT ![n] = call]
<1>1. stack[h] \in Seq(CallShape) /\ n \in Nat \ {0} /\ DOMAIN stack[h] = 1 .. n
  BY NonEmpty DEF Pushes
<1>2. stack'[h] = Append(z, more) /\ OnlyStack(h)
  BY DEF Pushes, Typed, OnlyStack
<1>3. z \in Seq(CallShape) /\ Len(z) = n /\ z[n] = call /\ \A i \in 1 .. (n - 1) : z[i] = stack[h][i]
  BY <1>1
<1> HIDE DEF z
<1>4. /\ Append(z, more) \in Seq(CallShape) /\ DOMAIN Append(z, more) = 1 .. (n + 1)
      /\ Append(z, more)[n + 1] = more /\ \A i \in 1 .. n : Append(z, more)[i] = z[i]
  BY <1>1, <1>3
<1>5. Typed'
  BY <1>2, <1>4 DEF Pushes, Typed, z
<1> QED
  BY <1>1, <1>2, <1>3, <1>4, <1>5

-----------------------------------------------------------------------------
(* What they do to the calls that will stop a child. *)

\* A call will stop child c of t by itself; one that made a call did so by that call.
Will(call, t, c) ==
  /\ call.token = t
  /\ call.at \in {"post", "snapshot"} \/ (call.at \in {"cascade", "eager"} /\ c \in call.kids)
Did(call, more, t, c) ==
  /\ call.token = t /\ (call.at = "cascade" \/ (call.at = "forked" /\ c \in call.kids))
  /\ more.token = c /\ more.at = "request"

\* A call covers a child by itself, or by the call it made.
LEMMA CoversMeans ==
  ASSUME NEW h, NEW i, NEW t, NEW c
  PROVE  Covers(h, i, t, c) <=>
           \/ Will(stack[h][i], t, c)
           \/ i + 1 \in DOMAIN stack[h] /\ Did(stack[h][i], stack[h][i + 1], t, c)
BY DEF Covers, Will, Did

\* The same of the next state.
LEMMA CoversMeansNext ==
  ASSUME NEW h, NEW i, NEW t, NEW c
  PROVE  Covers(h, i, t, c)' <=>
           \/ Will(stack'[h][i], t, c)
           \/ i + 1 \in DOMAIN stack'[h] /\ Did(stack'[h][i], stack'[h][i + 1], t, c)
BY DEF Covers, Will, Did

\* The calls of other threads go on covering.
LEMMA OthersCover ==
  ASSUME NEW h \in Threads, OnlyStack(h), NEW t, NEW c,
         NEW k \in Threads \ {h}, NEW i \in DOMAIN stack[k], Covers(k, i, t, c)
  PROVE  Covered(t, c)'
<1>1. stack'[k] = stack[k]
  BY DEF OnlyStack
<1>2. i \in DOMAIN stack'[k] /\ Covers(k, i, t, c)'
  BY <1>1, CoversMeans, CoversMeansNext
<1> QED
  BY <1>2 DEF Covered

\* A child stays covered when a call is made from outside.
LEMMA StartCovers ==
  ASSUME Typed, NEW h \in Threads, NEW call \in CallShape, Starts(h, call), NEW t, NEW c,
         Covered(t, c)
  PROVE  Covered(t, c)'
<1>1. PICK k \in Threads : \E i \in DOMAIN stack[k] : Covers(k, i, t, c)
  BY DEF Covered
<1>2. k # h
  BY <1>1, Started
<1> QED
  BY <1>1, <1>2, Started, OthersCover

\* A child stays covered when a call goes on that did not cover it, or still does.
LEMMA ReplaceCovers ==
  ASSUME Typed, NEW h \in Threads, NEW call \in CallShape, Replaces(h, call), NEW t, NEW c,
         Covered(t, c), Top(h).at # "request" \/ Top(h).token # c,
         Will(Top(h), t, c) => Will(call, t, c)
  PROVE  Covered(t, c)'
<1> DEFINE n == Len(stack[h])
<1>0. PICK k \in Threads : \E i \in DOMAIN stack[k] : Covers(k, i, t, c)
  BY DEF Covered
<1>1. PICK i \in DOMAIN stack[k] : Covers(k, i, t, c)
  BY <1>0
<1>2. CASE k # h
  BY <1>1, <1>2, Replacing, OthersCover
<1>3. CASE k = h
  <2>1. n \in Nat \ {0} /\ DOMAIN stack[h] = 1 .. n /\ Top(h) = stack[h][n]
    BY NonEmpty DEF Replaces
  <2>2. /\ DOMAIN stack'[h] = 1 .. n /\ stack'[h][n] = call
        /\ \A j \in 1 .. (n - 1) : stack'[h][j] = stack[h][j]
    BY Replacing
  <2>3. i \in 1 .. n /\ (Will(stack[h][i], t, c) \/ (i + 1 \in 1 .. n /\ Did(stack[h][i], stack[h][i + 1], t, c)))
    BY <1>1, <1>3, <2>1, CoversMeans
  <2> HIDE DEF n
  <2>4. CASE Will(stack[h][i], t, c)
    <3>1. Will(stack'[h][i], t, c)
      BY <2>1, <2>2, <2>3, <2>4
    <3> QED
      BY <1>3, <2>1, <2>2, <2>3, <3>1, CoversMeansNext DEF Covered
  <2>5. CASE i + 1 \in 1 .. n /\ Did(stack[h][i], stack[h][i + 1], t, c)
    <3>1. i + 1 # n
      BY <2>1, <2>5 DEF Did
    <3>2. i \in 1 .. (n - 1) /\ i + 1 \in 1 .. (n - 1)
      BY <2>1, <2>3, <2>5, <3>1
    <3> QED
      BY <1>3, <2>1, <2>2, <2>5, <3>2, CoversMeansNext DEF Covered
  <2> QED
    BY <2>3, <2>4, <2>5
<1> QED
  BY <1>2, <1>3

\* A child stays covered when a call returns that did not cover it.
LEMMA ReturnCovers ==
  ASSUME Typed, NEW h \in Threads, Returns(h), NEW t, NEW c,
         Covered(t, c), Top(h).at # "request" \/ Top(h).token # c, ~Will(Top(h), t, c)
  PROVE  Covered(t, c)'
<1> DEFINE n == Len(stack[h])
<1>0. PICK k \in Threads : \E i \in DOMAIN stack[k] : Covers(k, i, t, c)
  BY DEF Covered
<1>1. PICK i \in DOMAIN stack[k] : Covers(k, i, t, c)
  BY <1>0
<1>2. CASE k # h
  BY <1>1, <1>2, Returning, OthersCover
<1>3. CASE k = h
  <2>1. n \in Nat \ {0} /\ DOMAIN stack[h] = 1 .. n /\ Top(h) = stack[h][n]
    BY NonEmpty DEF Returns
  <2>2. DOMAIN stack'[h] = 1 .. (n - 1) /\ \A j \in 1 .. (n - 1) : stack'[h][j] = stack[h][j]
    BY Returning
  <2>3. i \in 1 .. n /\ (Will(stack[h][i], t, c) \/ (i + 1 \in 1 .. n /\ Did(stack[h][i], stack[h][i + 1], t, c)))
    BY <1>1, <1>3, <2>1, CoversMeans
  <2> HIDE DEF n
  <2>4. CASE Will(stack[h][i], t, c)
    <3>1. i \in 1 .. (n - 1)
      BY <2>1, <2>3, <2>4
    <3> QED
      BY <1>3, <2>2, <2>4, <3>1, CoversMeansNext, Zenon DEF Covered
  <2>5. CASE i + 1 \in 1 .. n /\ Did(stack[h][i], stack[h][i + 1], t, c)
    <3>1. i + 1 # n
      BY <2>1, <2>5 DEF Did
    <3>2. i \in 1 .. (n - 1) /\ i + 1 \in 1 .. (n - 1)
      BY <2>1, <2>3, <2>5, <3>1
    <3> QED
      BY <1>3, <2>2, <2>5, <3>2, CoversMeansNext, Zenon DEF Covered
  <2> QED
    BY <2>3, <2>4, <2>5
<1> QED
  BY <1>2, <1>3

\* A child stays covered when a call is made that did not cover it, still does, or has
\* now called cancel() on it.
LEMMA PushCovers ==
  ASSUME Typed, NEW h \in Threads, NEW call \in CallShape, NEW more \in CallShape,
         Pushes(h, call, more), NEW t, NEW c,
         Covered(t, c), Top(h).at # "request" \/ Top(h).token # c,
         Will(Top(h), t, c) => Will(call, t, c) \/ Did(call, more, t, c)
  PROVE  Covered(t, c)'
<1> DEFINE n == Len(stack[h])
<1>0. PICK k \in Threads : \E i \in DOMAIN stack[k] : Covers(k, i, t, c)
  BY DEF Covered
<1>1. PICK i \in DOMAIN stack[k] : Covers(k, i, t, c)
  BY <1>0
<1>2. CASE k # h
  BY <1>1, <1>2, Pushing, OthersCover
<1>3. CASE k = h
  <2>1. n \in Nat \ {0} /\ DOMAIN stack[h] = 1 .. n /\ Top(h) = stack[h][n]
    BY NonEmpty DEF Pushes
  <2>2. /\ DOMAIN stack'[h] = 1 .. (n + 1) /\ stack'[h][n] = call /\ stack'[h][n + 1] = more
        /\ \A j \in 1 .. (n - 1) : stack'[h][j] = stack[h][j]
    BY Pushing
  <2>3. i \in 1 .. n /\ (Will(stack[h][i], t, c) \/ (i + 1 \in 1 .. n /\ Did(stack[h][i], stack[h][i + 1], t, c)))
    BY <1>1, <1>3, <2>1, CoversMeans
  <2> HIDE DEF n
  <2>4. CASE Will(stack[h][i], t, c)
    <3>1. CASE i = n
      <4>1. stack'[h][i] = call /\ i + 1 \in DOMAIN stack'[h] /\ stack'[h][i + 1] = more
        BY <2>1, <2>2, <3>1
      <4>2. Will(Top(h), t, c)
        BY <2>1, <2>4, <3>1
      <4>3. Covers(h, i, t, c)'
        BY <4>1, <4>2, CoversMeansNext
      <4> QED
        BY <2>1, <2>2, <3>1, <4>3 DEF Covered
    <3>2. CASE i # n
      <4>1. i \in 1 .. (n - 1)
        BY <2>1, <2>3, <3>2
      <4>2. Covers(h, i, t, c)'
        BY <2>2, <2>4, <4>1, CoversMeansNext
      <4> QED
        BY <2>1, <2>2, <4>1, <4>2 DEF Covered
    <3> QED
      BY <3>1, <3>2
  <2>5. CASE i + 1 \in 1 .. n /\ Did(stack[h][i], stack[h][i + 1], t, c)
    <3>1. i + 1 # n
      BY <2>1, <2>5 DEF Did
    <3>2. i \in 1 .. (n - 1) /\ i + 1 \in 1 .. (n - 1)
      BY <2>1, <2>3, <2>5, <3>1
    <3>3. Covers(h, i, t, c)'
      BY <2>1, <2>2, <2>5, <3>2, CoversMeansNext
    <3> QED
      BY <2>1, <2>2, <3>2, <3>3 DEF Covered
  <2> QED
    BY <2>3, <2>4, <2>5
<1> QED
  BY <1>2, <1>3

\* Forks stay apart while no call becomes a fork.
NoNewFork(h) ==
  \A i \in DOMAIN stack'[h] : stack'[h][i].at \in Forking =>
    i \in DOMAIN stack[h] /\ stack[h][i].at \in Forking /\ stack'[h][i].kids = stack[h][i].kids

\* Then the forks are those there were.
LEMMA ForksStay ==
  ASSUME Forks, NEW h \in Threads, OnlyStack(h), NoNewFork(h), UNCHANGED made
  PROVE  Forks'
<1>1. ASSUME NEW k \in Threads, NEW i \in DOMAIN stack'[k], stack'[k][i].at \in Forking
      PROVE  i \in DOMAIN stack[k] /\ stack[k][i].at \in Forking /\ stack'[k][i].kids = stack[k][i].kids
  BY <1>1 DEF OnlyStack, NoNewFork
<1> QED
  BY <1>1 DEF Forks

\* A call that goes on is a fork only if it was one.
LEMMA ReplaceForks ==
  ASSUME Typed, Forks, NEW h \in Threads, NEW call \in CallShape, Replaces(h, call),
         UNCHANGED made, call.at \in Forking => Top(h).at \in Forking /\ call.kids = Top(h).kids
  PROVE  Forks'
<1> DEFINE n == Len(stack[h])
<1>1. n \in Nat \ {0} /\ DOMAIN stack[h] = 1 .. n /\ Top(h) = stack[h][n]
  BY NonEmpty DEF Replaces
<1>2. /\ OnlyStack(h) /\ DOMAIN stack'[h] = 1 .. n /\ stack'[h][n] = call
      /\ \A j \in 1 .. (n - 1) : stack'[h][j] = stack[h][j]
  BY Replacing
<1> HIDE DEF n
<1>3. \A i \in 1 .. n : i = n \/ i \in 1 .. (n - 1)
  BY <1>1
<1>4. NoNewFork(h)
  BY <1>1, <1>2, <1>3 DEF NoNewFork
<1> QED
  BY <1>2, <1>4, ForksStay

\* A call made from a call is no fork.
LEMMA PushForks ==
  ASSUME Typed, Forks, NEW h \in Threads, NEW call \in CallShape, NEW more \in CallShape,
         Pushes(h, call, more), UNCHANGED made, more.at \notin Forking,
         call.at \in Forking => Top(h).at \in Forking /\ call.kids = Top(h).kids
  PROVE  Forks'
<1> DEFINE n == Len(stack[h])
<1>1. n \in Nat \ {0} /\ DOMAIN stack[h] = 1 .. n /\ Top(h) = stack[h][n]
  BY NonEmpty DEF Pushes
<1>2. /\ OnlyStack(h) /\ DOMAIN stack'[h] = 1 .. (n + 1)
      /\ stack'[h][n] = call /\ stack'[h][n + 1] = more
      /\ \A j \in 1 .. (n - 1) : stack'[h][j] = stack[h][j]
  BY Pushing
<1> HIDE DEF n
<1>3. \A i \in 1 .. (n + 1) : i = n + 1 \/ i = n \/ i \in 1 .. (n - 1)
  BY <1>1
<1>4. n \in 1 .. n /\ \A i \in 1 .. (n - 1) : i \in 1 .. n
  BY <1>1
<1>5. NoNewFork(h)
  BY <1>1, <1>2, <1>3, <1>4, Zenon DEF NoNewFork
<1> QED
  BY <1>2, <1>5, ForksStay

\* A return makes no fork.
LEMMA ReturnForks ==
  ASSUME Typed, Forks, NEW h \in Threads, Returns(h), UNCHANGED made
  PROVE  Forks'
<1> DEFINE n == Len(stack[h])
<1>1. n \in Nat \ {0} /\ DOMAIN stack[h] = 1 .. n
  BY NonEmpty DEF Returns
<1>2. /\ OnlyStack(h) /\ DOMAIN stack'[h] = 1 .. (n - 1)
      /\ \A j \in 1 .. (n - 1) : stack'[h][j] = stack[h][j]
  BY Returning
<1>3. NoNewFork(h)
  BY <1>1, <1>2 DEF NoNewFork
<1> QED
  BY <1>2, <1>3, ForksStay

-----------------------------------------------------------------------------
(* The calls. *)

\* The records that are written to a stack.
LEMMA CallIs ==
  ASSUME NEW t \in Tokens, NEW at \in CallPlaces, NEW kids \in SUBSET Tokens
  PROVE  /\ Call(t, at, kids) \in CallShape /\ Call(t, at, kids).token = t
         /\ Call(t, at, kids).at = at /\ Call(t, at, kids).kids = kids
BY DEF Call, CallShape

\* The running call of a thread.
LEMMA TopIs ==
  ASSUME Typed, NEW h \in Threads, NEW at, In(h, at)
  PROVE  /\ stack[h] # <<>> /\ Top(h).at = at /\ Top(h).token \in Tokens
         /\ Top(h).kids \in SUBSET Tokens /\ Len(stack[h]) \in DOMAIN stack[h]
         /\ Top(h) = stack[h][Len(stack[h])]
<1>1. stack[h] # <<>> /\ Top(h).at = at
  BY DEF In
<1>2. Top(h) \in CallShape /\ Len(stack[h]) \in DOMAIN stack[h] /\ Top(h) = stack[h][Len(stack[h])]
  BY <1>1, NonEmpty
<1> QED
  BY <1>1, <1>2 DEF CallShape

\* cancel() is called.
LEMMA StartsCancelKeeps ==
  ASSUME TreeInv, NEW h \in Threads, NEW t \in Tokens, StartsCancel(h, t)
  PROVE  TreeInv'
<1> DEFINE call == Call(t, "request", {})
<1>1. call \in CallShape /\ call.at = "request"
  BY CallIs DEF CallPlaces
<1>2. Starts(h, call) /\ UNCHANGED <<made, children, stop>>
  BY DEF StartsCancel, Starts
<1> HIDE DEF call
<1>3. Typed' /\ OnlyStack(h) /\ DOMAIN stack'[h] = {1} /\ stack'[h][1] = call
  BY <1>1, <1>2, Started DEF TreeInv
<1>4. Forks'
  <2>1. NoNewFork(h)
    BY <1>1, <1>3 DEF NoNewFork, Forking
  <2> QED
    BY <1>2, <1>3, <2>1, ForksStay DEF TreeInv
<1>5. AllCovered'
  BY <1>1, <1>2, StartCovers DEF TreeInv, AllCovered
<1> QED
  BY <1>2, <1>3, <1>4, <1>5 DEF TreeInv, TreeTypes

\* A stop is requested: the token's own cover ends, its children's begins.
LEMMA RequestsKeeps ==
  ASSUME TreeInv, NEW h \in Threads, RequestsStop(h)
  PROVE  TreeInv'
<1> DEFINE t == Top(h).token
           call == Call(t, "post", {})
           n == Len(stack[h])
<1>1. /\ Typed /\ stack[h] # <<>> /\ Top(h).at = "request" /\ t \in Tokens
  BY TopIs DEF RequestsStop, TreeInv
<1>2. call \in CallShape /\ call.token = t /\ call.at = "post"
  BY <1>1, CallIs DEF CallPlaces
<1>3. stop' = [stop EXCEPT ![t] = TRUE] /\ UNCHANGED <<made, children>>
  BY DEF RequestsStop
<1>4. IF stop[t] THEN Returns(h) ELSE Replaces(h, call)
  BY <1>1 DEF RequestsStop, Returns, Replaces
<1> HIDE DEF call
<1>5. stop' \in [Tokens -> BOOLEAN] /\ stop'[t] = TRUE /\ \A u \in Tokens \ {t} : stop'[u] = stop[u]
  BY <1>1, <1>3, Zenon DEF TreeInv, TreeTypes
<1>6. \A u, c : ~Will(Top(h), u, c)
  BY <1>1 DEF Will
<1>7. CASE stop[t]
  <2>1. Typed'
    BY <1>1, <1>4, <1>7, Returning
  <2>2. Forks'
    BY <1>1, <1>3, <1>4, <1>7, ReturnForks DEF TreeInv
  <2>3. ASSUME NEW u \in Tokens, NEW c \in children[u], stop'[u], ~stop'[c] PROVE Covered(u, c)'
    <3>1. c \in Tokens /\ c # t /\ stop[u] /\ ~stop[c]
      BY <1>5, <1>7, <2>3 DEF TreeInv, TreeTypes
    <3>2. Covered(u, c)
      BY <3>1 DEF TreeInv, AllCovered
    <3> QED
      BY <1>1, <1>4, <1>6, <1>7, <3>1, <3>2, ReturnCovers
  <2>4. AllCovered'
    BY <1>3, <2>3 DEF AllCovered
  <2> QED
    BY <1>3, <1>5, <2>1, <2>2, <2>4 DEF TreeInv, TreeTypes
<1>8. CASE ~stop[t]
  <2>1. Typed' /\ n \in DOMAIN stack'[h] /\ stack'[h][n] = call
    BY <1>1, <1>2, <1>4, <1>8, Replacing, NonEmpty
  <2>2. Forks'
    BY <1>1, <1>2, <1>3, <1>4, <1>8, ReplaceForks DEF TreeInv, Forking
  <2>4. ASSUME NEW u \in Tokens, NEW c \in children[u], stop'[u], ~stop'[c] PROVE Covered(u, c)'
    <3>1. CASE u = t
      <4>1. \E i \in DOMAIN stack'[h] : Covers(h, i, u, c)'
        BY <1>2, <2>1, <3>1, CoversMeansNext DEF Will
      <4> QED
        BY <4>1 DEF Covered
    <3>2. CASE u # t
      <4>1. c \in Tokens /\ c # t /\ stop[u] /\ ~stop[c]
        BY <1>5, <2>4, <3>2 DEF TreeInv, TreeTypes
      <4>2. Covered(u, c)
        BY <4>1 DEF TreeInv, AllCovered
      <4> QED
        BY <1>1, <1>2, <1>4, <1>6, <1>8, <4>1, <4>2, ReplaceCovers
    <3> QED
      BY <3>1, <3>2
  <2>5. AllCovered'
    BY <1>3, <2>4 DEF AllCovered
  <2> QED
    BY <1>3, <1>5, <2>1, <2>2, <2>5 DEF TreeInv, TreeTypes
<1> QED
  BY <1>7, <1>8

\* A call that goes on, and still will stop what it would.
LEMMA GoesOnKeeps ==
  ASSUME TreeInv, NEW h \in Threads, NEW call \in CallShape, Replaces(h, call),
         UNCHANGED <<made, children, stop>>, Top(h).at # "request",
         call.at \in Forking => Top(h).at \in Forking /\ call.kids = Top(h).kids,
         \A t \in Tokens, c \in Tokens :
           stop[t] /\ c \in children[t] /\ Will(Top(h), t, c) => Will(call, t, c)
  PROVE  TreeInv'
<1>1. Typed'
  BY Replacing DEF TreeInv
<1>2. Forks'
  BY ReplaceForks DEF TreeInv
<1>3. ASSUME NEW t \in Tokens, NEW c \in children[t], stop[t], ~stop[c] PROVE Covered(t, c)'
  <2>1. c \in Tokens /\ Covered(t, c)
    BY <1>3 DEF TreeInv, TreeTypes, AllCovered
  <2> QED
    BY <1>3, <2>1, ReplaceCovers DEF TreeInv
<1>4. AllCovered'
  BY <1>3 DEF AllCovered
<1> QED
  BY <1>1, <1>2, <1>4 DEF TreeInv, TreeTypes

\* The post to the executor, and the snapshot of the children.
LEMMA PostsKeeps ==
  ASSUME TreeInv, NEW h \in Threads, Posts(h) \/ Snapshots(h)
  PROVE  TreeInv'
<1>1. Typed /\ stack[h] # <<>> /\ Top(h).at \in {"post", "snapshot"} /\ Top(h).token \in Tokens
  BY TopIs DEF Posts, Snapshots, TreeInv
<1>2. children[Top(h).token] \in SUBSET Tokens
  BY <1>1 DEF TreeInv, TreeTypes
<1>3. UNCHANGED <<made, children, stop>>
  BY DEF Posts, Snapshots
<1>4. CASE Posts(h)
  <2> DEFINE call == Call(Top(h).token, "snapshot", {})
  <2>1. call \in CallShape /\ call.token = Top(h).token /\ call.at = "snapshot"
    BY <1>1, CallIs DEF CallPlaces
  <2>2. Replaces(h, call)
    BY <1>1, <1>4 DEF Posts, Replaces
  <2> HIDE DEF call
  <2> QED
    BY <1>1, <1>3, <2>1, <2>2, GoesOnKeeps DEF Will, Forking
<1>5. CASE Snapshots(h)
  <2> DEFINE call == Call(Top(h).token, "cascade", children[Top(h).token])
  <2>1. /\ call \in CallShape /\ call.token = Top(h).token /\ call.at = "cascade"
        /\ call.kids = children[Top(h).token]
    BY <1>1, <1>2, CallIs DEF CallPlaces
  <2>2. Replaces(h, call)
    BY <1>1, <1>5 DEF Snapshots, Replaces
  <2> HIDE DEF call
  <2> QED
    BY <1>1, <1>3, <2>1, <2>2, GoesOnKeeps DEF Will, Forking
<1> QED
  BY <1>4, <1>5, SMTT(30)

\* A call that calls cancel() on a child.
LEMMA PushKeeps ==
  ASSUME TreeInv, NEW h \in Threads, NEW call \in CallShape, NEW more \in CallShape,
         Pushes(h, call, more), UNCHANGED <<made, children, stop>>, Top(h).at # "request",
         more.at = "request",
         call.at \in Forking => Top(h).at \in Forking /\ call.kids = Top(h).kids,
         \A t \in Tokens, c \in Tokens : Will(Top(h), t, c) => Will(call, t, c) \/ Did(call, more, t, c)
  PROVE  TreeInv'
<1>1. Typed'
  BY Pushing DEF TreeInv
<1>2. Forks'
  BY PushForks DEF TreeInv, Forking
<1>3. ASSUME NEW t \in Tokens, NEW c \in children[t], stop[t], ~stop[c] PROVE Covered(t, c)'
  <2>1. c \in Tokens /\ Covered(t, c)
    BY <1>3 DEF TreeInv, TreeTypes, AllCovered
  <2> QED
    BY <2>1, PushCovers DEF TreeInv
<1>4. AllCovered'
  BY <1>3 DEF AllCovered
<1> QED
  BY <1>1, <1>2, <1>4 DEF TreeInv, TreeTypes

\* The cascade tells the next child, or is through.
LEMMA CascadesKeeps ==
  ASSUME TreeInv, NEW h \in Threads, Cascades(h)
  PROVE  TreeInv'
<1>1. /\ Typed /\ stack[h] # <<>> /\ Top(h).at = "cascade" /\ Top(h).token \in Tokens
      /\ Top(h).kids \in SUBSET Tokens
  BY TopIs DEF Cascades, TreeInv
<1>2. UNCHANGED <<made, children, stop>>
  BY DEF Cascades
<1>3. CASE Top(h).kids = {} /\ stack' = Returned(h)
  <2>1. Returns(h)
    BY <1>1, <1>3 DEF Returns
  <2>2. Typed' /\ Forks'
    BY <1>1, <1>2, <2>1, Returning, ReturnForks DEF TreeInv
  <2>3. ASSUME NEW t \in Tokens, NEW c \in children[t], stop[t], ~stop[c] PROVE Covered(t, c)'
    <3>1. Covered(t, c)
      BY <2>3 DEF TreeInv, AllCovered
    <3>2. ~Will(Top(h), t, c)
      BY <1>1, <1>3 DEF Will
    <3> QED
      BY <1>1, <2>1, <3>1, <3>2, ReturnCovers
  <2>4. AllCovered'
    BY <1>2, <2>3 DEF AllCovered
  <2> QED
    BY <1>2, <2>2, <2>4 DEF TreeInv, TreeTypes
<1>4. ASSUME NEW k \in Top(h).kids,
             stack' = [stack EXCEPT ![h] =
               Append([@ EXCEPT ![Len(@)] = Call(Top(h).token, "cascade", Top(h).kids \ {k})],
                      Call(k, "request", {}))]
      PROVE  TreeInv'
  <2> DEFINE call == Call(Top(h).token, "cascade", Top(h).kids \ {k})
             more == Call(k, "request", {})
  <2>1. /\ call \in CallShape /\ call.token = Top(h).token /\ call.at = "cascade"
        /\ call.kids = Top(h).kids \ {k}
    <3>1. Top(h).kids \ {k} \in SUBSET Tokens /\ "cascade" \in CallPlaces
      BY <1>1 DEF CallPlaces
    <3> QED
      BY <1>1, <3>1, CallIs
  <2>2. more \in CallShape /\ more.token = k /\ more.at = "request"
    BY <1>1, CallIs DEF CallPlaces
  <2>3. Pushes(h, call, more)
    BY <1>1, <1>4 DEF Pushes
  <2> HIDE DEF call, more
  <2>4. \A t \in Tokens, c \in Tokens : Will(Top(h), t, c) => Will(call, t, c) \/ Did(call, more, t, c)
    BY <1>1, <2>1, <2>2 DEF Will, Did
  <2> QED
    BY <1>1, <1>2, <2>1, <2>2, <2>3, <2>4, PushKeeps DEF Forking
<1> QED
  BY <1>3, <1>4, Zenon DEF Cascades

\* fork() is called, for a child that no call knows of.
LEMMA StartsForkKeeps ==
  ASSUME TreeInv, NEW h \in Threads, NEW t \in Tokens, StartsFork(h, t)
  PROVE  TreeInv'
<1>1. PICK c \in Unforked : stack[h] = <<>> /\ stack' = [stack EXCEPT ![h] = <<Call(t, "register", {c})>>]
  BY Zenon DEF StartsFork
<1> DEFINE call == Call(t, "register", {c})
<1>2. /\ c \in Tokens \ made
      /\ \A k \in Threads : \A i \in DOMAIN stack[k] : c \notin stack[k][i].kids
  BY DEF Unforked, Calls
<1>3. call \in CallShape /\ call.at = "register" /\ call.kids = {c}
  BY <1>2, CallIs DEF CallPlaces
<1>4. Starts(h, call) /\ UNCHANGED <<made, children, stop>>
  BY <1>1, Zenon DEF StartsFork, Starts
<1> HIDE DEF call
<1>5. Typed' /\ OnlyStack(h) /\ DOMAIN stack'[h] = {1} /\ stack'[h][1] = call
  BY <1>3, <1>4, Started DEF TreeInv
<1>6. Forks'
  <2>1. ASSUME NEW k \in Threads, NEW i \in DOMAIN stack'[k], stack'[k][i].at \in Forking
        PROVE  /\ i = 1 /\ stack'[k][i].kids \cap made = {}
               /\ \E d \in Tokens : stack'[k][i].kids = {d}
    <3>1. CASE k = h
      BY <1>2, <1>3, <1>5, <3>1
    <3>2. CASE k # h
      BY <1>5, <2>1, <3>2 DEF OnlyStack, TreeInv, Forks
    <3> QED
      BY <3>1, <3>2
  <2>2. ASSUME NEW k \in Threads \ {h}, 1 \in DOMAIN stack'[k]
        PROVE  stack'[h][1].kids \cap stack'[k][1].kids = {}
    BY <1>2, <1>3, <1>5, <2>2 DEF OnlyStack
  <2>3. ASSUME NEW j \in Threads \ {h}, NEW k \in Threads \ {h}, j # k,
               1 \in DOMAIN stack'[j], 1 \in DOMAIN stack'[k],
               stack'[j][1].at \in Forking, stack'[k][1].at \in Forking
        PROVE  stack'[j][1].kids \cap stack'[k][1].kids = {}
    BY <1>5, <2>3 DEF OnlyStack, TreeInv, Forks
  <2>4. ASSUME NEW j \in Threads, NEW k \in Threads, j # k,
               1 \in DOMAIN stack'[j], 1 \in DOMAIN stack'[k],
               stack'[j][1].at \in Forking, stack'[k][1].at \in Forking
        PROVE  stack'[j][1].kids \cap stack'[k][1].kids = {}
    BY <2>2, <2>3, <2>4
  <2> QED
    BY <1>4, <2>1, <2>4 DEF Forks
<1>7. AllCovered'
  BY <1>3, <1>4, StartCovers DEF TreeInv, AllCovered
<1> QED
  BY <1>4, <1>5, <1>6, <1>7 DEF TreeInv, TreeTypes

\* The child is registered with its parent, and covered by the look that follows.
LEMMA RegistersKeeps ==
  ASSUME TreeInv, NEW h \in Threads, Registers(h)
  PROVE  TreeInv'
<1> DEFINE p == Top(h).token
           kids == Top(h).kids
           call == Call(p, "eager", kids)
           n == Len(stack[h])
<1>1. Typed /\ stack[h] # <<>> /\ Top(h).at = "register" /\ p \in Tokens /\ kids \in SUBSET Tokens
  BY TopIs DEF Registers, TreeInv
<1>2. call \in CallShape /\ call.token = p /\ call.at = "eager" /\ call.kids = kids
  BY <1>1, CallIs DEF CallPlaces
<1>3. Replaces(h, call) /\ UNCHANGED <<made, stop>>
  BY <1>1 DEF Registers, Replaces
<1>4. /\ children' \in [Tokens -> SUBSET Tokens] /\ children'[p] = children[p] \cup kids
      /\ \A t \in Tokens \ {p} : children'[t] = children[t]
  BY <1>1, SMTT(30) DEF Registers, TreeInv, TreeTypes
<1> HIDE DEF call
<1>5. Typed' /\ n \in DOMAIN stack'[h] /\ stack'[h][n] = call
  BY <1>1, <1>2, <1>3, Replacing, NonEmpty, SMTT(30)
<1>6. Forks'
  BY <1>1, <1>2, <1>3, ReplaceForks DEF TreeInv, Forking
<1>7. ASSUME NEW t \in Tokens, NEW c \in children'[t], stop[t], ~stop[c] PROVE Covered(t, c)'
  <2>1. CASE c \in children[t]
    <3>1. Covered(t, c)
      BY <1>7, <2>1 DEF TreeInv, AllCovered
    <3>2. ~Will(Top(h), t, c)
      BY <1>1 DEF Will
    <3> QED
      BY <1>1, <1>2, <1>3, <3>1, <3>2, ReplaceCovers
  <2>2. CASE c \notin children[t]
    <3>1. t = p /\ c \in kids
      BY <1>4, <2>2
    <3>2. \E i \in DOMAIN stack'[h] : Covers(h, i, t, c)'
      BY <1>2, <1>5, <3>1, CoversMeansNext DEF Will
    <3> QED
      BY <3>2 DEF Covered
  <2> QED
    BY <2>1, <2>2, SMTT(30)
<1>8. AllCovered'
  BY <1>3, <1>7 DEF AllCovered
<1> QED
  BY <1>3, <1>4, <1>5, <1>6, <1>8 DEF TreeInv, TreeTypes

\* A call of a fork has one child.
LEMMA OneKid ==
  ASSUME TreeInv, NEW h \in Threads, NEW at \in Forking, In(h, at)
  PROVE  /\ Len(stack[h]) = 1 /\ Top(h) = stack[h][1] /\ 1 \in DOMAIN stack[h]
         /\ Top(h).kids \cap made = {} /\ \E c \in Tokens : Top(h).kids = {c}
<1> DEFINE n == Len(stack[h])
<1>1. n \in DOMAIN stack[h] /\ Top(h) = stack[h][n] /\ stack[h][n].at \in Forking
  BY TopIs DEF TreeInv
<1> HIDE DEF n
<1>2. n = 1 /\ stack[h][n].kids \cap made = {} /\ \E c \in Tokens : stack[h][n].kids = {c}
  BY <1>1 DEF TreeInv, Forks
<1> QED
  BY <1>1, <1>2 DEF n

\* The look at the parent, which cancels the child of a stopped one.
LEMMA CancelsEagerlyKeeps ==
  ASSUME TreeInv, NEW h \in Threads, CancelsEagerly(h)
  PROVE  TreeInv'
<1> DEFINE p == Top(h).token
           kids == Top(h).kids
           call == Call(p, "forked", kids)
<1>1. Typed /\ stack[h] # <<>> /\ Top(h).at = "eager" /\ p \in Tokens /\ kids \in SUBSET Tokens
  BY TopIs DEF CancelsEagerly, TreeInv
<1>2. call \in CallShape /\ call.token = p /\ call.at = "forked" /\ call.kids = kids
  BY <1>1, CallIs DEF CallPlaces
<1>3. UNCHANGED <<made, children, stop>>
  BY DEF CancelsEagerly
<1>4. CASE stop[p]
  <2>1. PICK c \in kids : stack' = [stack EXCEPT ![h] =
          Append([@ EXCEPT ![Len(@)] = call], Call(c, "request", {}))]
    BY <1>4 DEF CancelsEagerly
  <2> DEFINE more == Call(c, "request", {})
  <2>2. more \in CallShape /\ more.token = c /\ more.at = "request"
    BY <1>1, CallIs DEF CallPlaces
  <2>3. Pushes(h, call, more)
    BY <1>1, <2>1 DEF Pushes
  <2>4. kids = {c}
    BY OneKid DEF CancelsEagerly, Forking
  <2> HIDE DEF call, more
  <2>5. \A t \in Tokens, d \in Tokens : Will(Top(h), t, d) => Did(call, more, t, d)
    BY <1>1, <1>2, <2>2, <2>4 DEF Will, Did
  <2> QED
    BY <1>1, <1>2, <1>3, <2>2, <2>3, <2>5, PushKeeps DEF Forking
<1>5. CASE ~stop[p]
  <2>1. Replaces(h, call)
    BY <1>1, <1>5 DEF CancelsEagerly, Replaces
  <2> HIDE DEF call
  <2>2. \A t \in Tokens, c \in Tokens : stop[t] => ~Will(Top(h), t, c)
    BY <1>1, <1>5 DEF Will
  <2> QED
    BY <1>1, <1>2, <1>3, <2>1, <2>2, GoesOnKeeps DEF Forking
<1> QED
  BY <1>4, <1>5

\* fork() returns the child.
LEMMA ForkReturnsKeeps ==
  ASSUME TreeInv, NEW h \in Threads, ForkReturns(h)
  PROVE  TreeInv'
<1> DEFINE kids == Top(h).kids
<1>1. Typed /\ stack[h] # <<>> /\ Top(h).at = "forked" /\ kids \in SUBSET Tokens
  BY TopIs DEF ForkReturns, TreeInv
<1>2. Returns(h) /\ made' = made \cup kids /\ UNCHANGED <<children, stop>>
  BY <1>1 DEF ForkReturns, Returns
<1>3. Len(stack[h]) = 1 /\ Top(h) = stack[h][1] /\ 1 \in DOMAIN stack[h]
  BY OneKid DEF ForkReturns, Forking
<1>4. Typed' /\ OnlyStack(h) /\ DOMAIN stack'[h] = {}
  <2>1. Typed' /\ OnlyStack(h) /\ DOMAIN stack'[h] = 1 .. (Len(stack[h]) - 1)
    BY <1>1, <1>2, Returning
  <2>2. 1 .. (Len(stack[h]) - 1) = {}
    BY <1>3
  <2> QED
    BY <2>1, <2>2
<1>5. Forks'
  <2>1. \A k \in Threads : k # h \/ DOMAIN stack'[k] = {}
    BY <1>4
  <2>2. ASSUME NEW k \in Threads \ {h}, NEW i \in DOMAIN stack[k], stack[k][i].at \in Forking
        PROVE  i = 1 /\ stack[k][i].kids \cap (made \cup kids) = {} /\ \E c \in Tokens : stack[k][i].kids = {c}
    <3>1. i = 1 /\ stack[k][i].kids \cap made = {} /\ \E c \in Tokens : stack[k][i].kids = {c}
      BY <2>2 DEF TreeInv, Forks
    <3>2. stack[k][1].kids \cap kids = {}
      BY <1>1, <1>3, <2>2, <3>1 DEF TreeInv, Forks, Forking
    <3> QED
      BY <3>1, <3>2
  <2> HIDE DEF kids
  <2> QED
    BY <1>2, <1>4, <2>1, <2>2 DEF Forks, OnlyStack, TreeInv
<1>6. ASSUME NEW t \in Tokens, NEW c \in children[t], stop[t], ~stop[c] PROVE Covered(t, c)'
  <2>1. Covered(t, c)
    BY <1>6 DEF TreeInv, AllCovered
  <2>2. ~Will(Top(h), t, c)
    BY <1>1 DEF Will
  <2> QED
    BY <1>1, <1>2, <2>1, <2>2, ReturnCovers
<1>7. AllCovered'
  BY <1>2, <1>6 DEF AllCovered
<1> QED
  BY <1>1, <1>2, <1>4, <1>5, <1>7 DEF TreeInv, TreeTypes

-----------------------------------------------------------------------------
(* No child escapes. *)

\* The invariant holds of a tree of one token.
LEMMA TreeStart ==
  ASSUME TokenConstants, TokenInit
  PROVE  TreeInv
<1>1. TreeTypes /\ Typed /\ \A h \in Threads : DOMAIN stack[h] = {}
  BY DEF TokenInit, TokenConstants, TreeTypes, Typed
<1>2. AllCovered
  BY DEF TokenInit, AllCovered
<1> QED
  BY <1>1, <1>2 DEF TreeInv, Forks

\* Every step keeps the invariant of the tree.
LEMMA TreeStep ==
  ASSUME TokenConstants, TreeInv, [TokenNext]_tokenVars
  PROVE  TreeInv'
<1>1. ASSUME NEW h \in Threads, CallStep(h) PROVE TreeInv'
  BY <1>1, RequestsKeeps, PostsKeeps, CascadesKeeps, RegistersKeeps, CancelsEagerlyKeeps,
     ForkReturnsKeeps DEF CallStep
<1>2. ASSUME NEW h \in Threads, NEW t \in Tokens, StartsCancel(h, t) \/ StartsFork(h, t) PROVE TreeInv'
  BY <1>2, StartsCancelKeeps, StartsForkKeeps, SMTT(30)
<1>3. ASSUME UNCHANGED <<made, children, stop, stack>> PROVE TreeInv'
  <2>1. made' = made /\ children' = children /\ stop' = stop /\ stack' = stack
    BY <1>3
  <2>2. TreeTypes' /\ Typed'
    BY <2>1 DEF TreeInv, TreeTypes, Typed
  <2>3. Forks'
    BY <2>1 DEF TreeInv, Forks
  <2>4. ASSUME NEW t, NEW c PROVE Covered(t, c)' <=> Covered(t, c)
    BY <2>1 DEF Covered, Covers
  <2>5. AllCovered'
    BY <2>1, <2>4 DEF TreeInv, AllCovered
  <2> QED
    BY <2>2, <2>3, <2>5 DEF TreeInv
<1>4. ASSUME NEW t \in Bindable, Binds(t) \/ Unbinds(t) \/ UserStep(t) PROVE TreeInv'
  BY <1>3, <1>4 DEF Binds, Unbinds, UserStep, Fires, Clears, Cleared
<1>5. ASSUME NEW t \in Bindable, NEW g \in Bindings, StrandStep(t, g) PROVE TreeInv'
  BY <1>3, <1>5 DEF StrandStep, StartsEmit, DropsEmit, Emits, Emitted
<1>6. UNCHANGED tokenVars => TreeInv'
  BY <1>3 DEF tokenVars
<1> QED
  BY <1>1, <1>2, <1>4, <1>5, <1>6 DEF TokenNext

\* NoChildEscapes, for every tree of tokens and any number of threads: a child whose
\* fork() returned is stopped once its parent is and the cancel() that stopped the
\* parent is through.  fork() registers the child before it looks at the parent, and
\* cancel() stops the parent before it takes its snapshot, so one of the two sees the
\* other; the invariant says which call still owes the child its stop.
THEOREM ChildrenAreCancelled == ASSUME TokenConstants PROVE TokenSpec => []NoChildEscapes
<1>1. TokenInit => TreeInv
  BY TreeStart
<1>2. TreeInv /\ [TokenNext]_tokenVars => TreeInv'
  BY TreeStep
<1>3. TreeInv => NoChildEscapes
  <2> SUFFICES ASSUME TreeInv, NEW t \in Tokens, stop[t], NEW c \in children[t], c \in made, ~stop[c]
               PROVE  Cancelling(t)
    BY DEF NoChildEscapes
  <2>1. PICK h \in Threads : \E i \in DOMAIN stack[h] : Covers(h, i, t, c)
    BY DEF TreeInv, AllCovered, Covered
  <2>2. PICK i \in DOMAIN stack[h] : Covers(h, i, t, c)
    BY <2>1
  <2>3. stack[h][i].at \notin Forking \/ c \notin stack[h][i].kids
    BY SMTT(30) DEF TreeInv, Forks
  <2>4. stack[h][i].token = t /\ stack[h][i].at \in {"post", "snapshot", "cascade"}
    BY <2>2, <2>3 DEF Covers, Forking
  <2> QED
    BY <2>4 DEF Cancelling, Calls
<1> QED
  BY <1>1, <1>2, <1>3, PTL DEF TokenSpec

-----------------------------------------------------------------------------
(* Emits exclude each other and the destruction of the handler. *)

\* A set with no two elements counts none or one.
LEMMA AtMostOne ==
  ASSUME NEW x, NEW S, S \subseteq {x}
  PROVE  Cardinality(S) \in {0, 1}
<1> DEFINE Counts(f) == f = [T \in SUBSET S |-> IF T = {} THEN 0 ELSE 1 + f[T \ {CHOOSE y : y \in T}]]
           counts == CHOOSE f : Counts(f)
<1>1. \A T \in SUBSET S : T # {} => T \ {CHOOSE y : y \in T} = {}
  OBVIOUS
<1>2. \E f : Counts(f)
  <2>1. PICK f : f = [T \in SUBSET S |-> IF T = {} THEN 0 ELSE 1]
    OBVIOUS
  <2>2. \A T \in SUBSET S : f[T] = IF T = {} THEN 0 ELSE 1 + f[T \ {CHOOSE y : y \in T}]
    BY <1>1, <2>1
  <2> QED
    BY <2>1, <2>2
<1>3. Counts(counts)
  BY <1>2
<1>4. Cardinality(S) = counts[S]
  BY DEF Cardinality
<1>5. counts[{}] = 0 /\ (S # {} => counts[S] = 1 + counts[S \ {CHOOSE y : y \in S}])
  BY <1>3
<1> HIDE DEF counts
<1>6. CASE S = {}
  BY <1>4, <1>5, <1>6
<1>7. CASE S # {}
  <2>1. S \ {CHOOSE y : y \in S} = {}
    BY <1>1, <1>7
  <2>2. counts[S] = 1 + counts[{}]
    BY <1>5, <1>7, <2>1
  <2>3. counts[S] = 1
    BY <1>5, <2>2
  <2> QED
    BY <1>4, <2>3
<1> QED
  BY <1>6, <1>7

StrandStates == {"idle", "waiting", "emitting"}

\* One strand goes on.
LEMMA StrandMoves ==
  ASSUME strand \in [Tokens -> [Bindings -> StrandStates]],
         NEW t \in Tokens, NEW g \in Bindings, NEW to \in StrandStates,
         strand' = [strand EXCEPT ![t][g] = to]
  PROVE  /\ strand' \in [Tokens -> [Bindings -> StrandStates]]
         /\ strand'[t][g] = to
         /\ \A k \in Bindings \ {g} : strand'[t][k] = strand[t][k]
         /\ \A u \in Tokens \ {t} : strand'[u] = strand[u]
<1>1. strand'[t] = [strand[t] EXCEPT ![g] = to] /\ \A u \in Tokens \ {t} : strand'[u] = strand[u]
  OBVIOUS
<1>2. DOMAIN strand' = Tokens /\ strand' = [u \in Tokens |-> strand'[u]]
  OBVIOUS
<1>3. /\ [strand[t] EXCEPT ![g] = to] \in [Bindings -> StrandStates]
      /\ [strand[t] EXCEPT ![g] = to][g] = to
      /\ \A k \in Bindings \ {g} : [strand[t] EXCEPT ![g] = to][k] = strand[t][k]
  OBVIOUS
<1>4. \A u \in Tokens : strand'[u] \in [Bindings -> StrandStates]
  BY <1>1, <1>3
<1> QED
  BY <1>1, <1>2, <1>3, <1>4

\* The binding of a token, its end, and the destruction of its handler.
LEMMA UserKeeps ==
  ASSUME EmitInv, NEW t \in Tokens, Binds(t) \/ Unbinds(t) \/ UserStep(t)
  PROVE  EmitInv'
<1>1. UNCHANGED <<emitting, strand>>
  BY DEF Binds, Unbinds, UserStep, Fires, Clears, Cleared
<1>2. CASE Binds(t)
  BY <1>1, <1>2 DEF Binds, EmitInv
<1>3. CASE Unbinds(t)
  BY <1>1, <1>3 DEF Unbinds, EmitInv
<1>4. CASE Fires(t) \/ Cleared(t)
  <2>1. UNCHANGED <<ex, emitting, strand>>
    BY <1>4 DEF Fires, Cleared
  <2>2. PICK to \in {"free", "bound"} : user' = [user EXCEPT ![t] = to]
    BY <1>4 DEF Fires, Cleared
  <2>3. /\ user' \in [Tokens -> {"free", "firing", "bound", "detaching", "clearing"}]
        /\ user'[t] = to /\ \A u \in Tokens \ {t} : user'[u] = user[u]
    BY <2>2 DEF EmitInv
  <2> QED
    BY <2>1, <2>3 DEF EmitInv
<1>5. CASE Clears(t)
  <2>1. UNCHANGED <<ex, emitting, strand>> /\ user[t] = "detaching" /\ ~emitting[t]
    BY <1>5 DEF Clears
  <2>2. /\ user' \in [Tokens -> {"free", "firing", "bound", "detaching", "clearing"}]
        /\ user'[t] = "clearing" /\ \A u \in Tokens \ {t} : user'[u] = user[u]
    BY <1>5 DEF Clears, EmitInv
  <2> QED
    BY <2>1, <2>2 DEF EmitInv
<1> QED
  BY <1>2, <1>3, <1>4, <1>5 DEF UserStep

\* An emit is taken from a strand's queue, and dropped.
LEMMA WaitKeeps ==
  ASSUME EmitInv, NEW t \in Tokens, NEW g \in Bindings, StartsEmit(t, g) \/ DropsEmit(t, g)
  PROVE  EmitInv'
<1>1. UNCHANGED <<ex, emitting, user>> /\ strand[t][g] # "emitting"
  BY DEF StartsEmit, DropsEmit
<1>2. PICK to \in {"idle", "waiting"} : strand' = [strand EXCEPT ![t][g] = to]
  BY SMTT(30) DEF StartsEmit, DropsEmit
<1>3. /\ strand' \in [Tokens -> [Bindings -> StrandStates]] /\ strand'[t][g] = to
      /\ \A k \in Bindings \ {g} : strand'[t][k] = strand[t][k]
      /\ \A u \in Tokens \ {t} : strand'[u] = strand[u]
  BY <1>2, StrandMoves DEF EmitInv, StrandStates
<1>4. \A u \in Tokens, k \in Bindings : strand'[u][k] = "emitting" => strand[u][k] = "emitting"
  BY <1>3
<1> QED
  BY <1>1, <1>3, <1>4 DEF EmitInv, StrandStates

\* An emit begins under the flag.
LEMMA EmitsKeeps ==
  ASSUME EmitInv, NEW t \in Tokens, NEW g \in Bindings, Emits(t, g)
  PROVE  EmitInv'
<1>1. UNCHANGED <<ex, user>> /\ ex[t] /\ ~emitting[t]
  BY DEF Emits
<1>2. emitting' \in [Tokens -> BOOLEAN] /\ emitting'[t] /\ \A u \in Tokens \ {t} : emitting'[u] = emitting[u]
  BY SMTT(30) DEF Emits, EmitInv
<1>3. /\ strand' \in [Tokens -> [Bindings -> StrandStates]] /\ strand'[t][g] = "emitting"
      /\ \A k \in Bindings \ {g} : strand'[t][k] = strand[t][k]
      /\ \A u \in Tokens \ {t} : strand'[u] = strand[u]
  BY StrandMoves DEF Emits, EmitInv, StrandStates
<1>4. \A k \in Bindings : strand'[t][k] = "emitting" => k = g
  BY <1>1, <1>3 DEF EmitInv
<1>5. user[t] \notin {"detaching", "clearing"}
  BY <1>1 DEF EmitInv
<1> QED
  BY <1>1, <1>2, <1>3, <1>4, <1>5 DEF EmitInv, StrandStates

\* An emit ends, and was the only one.
LEMMA EmittedKeeps ==
  ASSUME EmitInv, NEW t \in Tokens, NEW g \in Bindings, Emitted(t, g)
  PROVE  EmitInv'
<1>1. UNCHANGED <<ex, user>> /\ strand[t][g] = "emitting"
  BY DEF Emitted
<1>2. emitting' \in [Tokens -> BOOLEAN] /\ ~emitting'[t] /\ \A u \in Tokens \ {t} : emitting'[u] = emitting[u]
  BY SMTT(30) DEF Emitted, EmitInv
<1>3. /\ strand' \in [Tokens -> [Bindings -> StrandStates]] /\ strand'[t][g] = "idle"
      /\ \A k \in Bindings \ {g} : strand'[t][k] = strand[t][k]
      /\ \A u \in Tokens \ {t} : strand'[u] = strand[u]
  BY StrandMoves DEF Emitted, EmitInv, StrandStates
<1>4. \A k \in Bindings : strand'[t][k] # "emitting"
  BY <1>1, <1>3 DEF EmitInv
<1> QED
  BY <1>1, <1>2, <1>3, <1>4 DEF EmitInv, StrandStates

\* Every step keeps the invariant of the emits.
LEMMA EmitStep ==
  ASSUME TokenConstants, EmitInv, [TokenNext]_tokenVars
  PROVE  EmitInv'
<1>1. ASSUME UNCHANGED <<ex, emitting, strand, user>> PROVE EmitInv'
  BY <1>1 DEF EmitInv
<1>2. ASSUME NEW h \in Threads, CallStep(h) \/ \E t \in Tokens : StartsCancel(h, t) \/ StartsFork(h, t)
      PROVE  EmitInv'
  BY <1>1, <1>2, Zenon DEF CallStep, RequestsStop, Posts, Snapshots, Cascades, Registers, CancelsEagerly,
     ForkReturns, StartsCancel, StartsFork, binding
<1>3. ASSUME NEW t \in Bindable, Binds(t) \/ Unbinds(t) \/ UserStep(t) PROVE EmitInv'
  BY <1>3, UserKeeps DEF TokenConstants
<1>4. ASSUME NEW t \in Bindable, NEW g \in Bindings, StrandStep(t, g) PROVE EmitInv'
  BY <1>4, WaitKeeps, EmitsKeeps, EmittedKeeps DEF StrandStep, TokenConstants
<1>5. UNCHANGED tokenVars => EmitInv'
  BY <1>1 DEF tokenVars
<1> QED
  BY <1>2, <1>3, <1>4, <1>5 DEF TokenNext

\* EmitsExclusively, for any number of tokens, threads and bindings: emit_if_bound()
\* runs one emit of a token at a time, even when strands of several bindings have one
\* to run, and none while unbind_executor() destroys the handler.
THEOREM EmitsAreExclusive == ASSUME TokenConstants PROVE TokenSpec => []EmitsExclusively
<1>1. TokenInit => EmitInv
  BY DEF TokenInit, EmitInv
<1>2. EmitInv /\ [TokenNext]_tokenVars => EmitInv'
  BY EmitStep
<1>3. EmitInv => EmitsExclusively
  <2> SUFFICES ASSUME EmitInv, NEW t \in Tokens
               PROVE  LET now == {g \in Bindings : strand[t][g] = "emitting"}
                      IN  Cardinality(now) <= 1 /\ (user[t] = "clearing" => now = {})
    BY DEF EmitsExclusively
  <2> DEFINE now == {g \in Bindings : strand[t][g] = "emitting"}
  <2>1. user[t] = "clearing" => now = {}
    BY DEF EmitInv
  <2>2. PICK g : now \subseteq {g}
    BY DEF EmitInv
  <2> HIDE DEF now
  <2>3. Cardinality(now) \in {0, 1}
    BY <2>2, AtMostOne
  <2> QED
    BY <2>1, <2>3 DEF now
<1> QED
  BY <1>1, <1>2, <1>3, PTL DEF TokenSpec
==============================================================================
