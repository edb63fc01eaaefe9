----------------------------- MODULE CancelToken -----------------------------
(***************************************************************************)
(* CancelToken (include/neograph/graph/cancel.h): a tree of tokens built   *)
(* by fork(), cancel() that cascades down it from any thread, and the      *)
(* executor binding through which a cancellation is emitted to the         *)
(* operation a token guards.                                               *)
(*                                                                         *)
(* A thread executes a stack of calls, because cancel() calls cancel() on  *)
(* the children it found, and so does fork() on a child of a cancelled     *)
(* parent.  Each step is one critical section (mu_, children_mu_) or one   *)
(* operation on the stop source.  The strand of one binding runs its       *)
(* posted emits one at a time; strands of different bindings run in        *)
(* parallel.  Children live as long as their parent here: a child that is  *)
(* released is only pruned from the list, it has nobody left to tell.      *)
(***************************************************************************)
EXTENDS Integers, Sequences, FiniteSets

CONSTANTS
    Tokens,       \* tokens that exist or may be forked
    Root,         \* the token that exists at first
    Threads,      \* threads that call cancel() and fork()
    Bindable,     \* the tokens whose user binds an executor
    MaxBindings   \* bound: binding_generation_

\* The tokens that are bound, and the one that exists at first, are tokens.
TokenConstants == Bindable \subseteq Tokens /\ Root \in Tokens

VARIABLES
    made,      \* tokens whose fork() has returned
    children,  \* children_: the tokens registered with each
    stop,      \* stop_source_
    ex,        \* whether ex_ is set
    gen,       \* binding_generation_
    emitting,  \* emitting_
    posted,    \* posted[t][g]: emits posted to the strand of binding g
    strand,    \* strand[t][g]: what that strand does
    user,      \* where the user of each token is in bind and unbind
    stack,     \* the calls each thread is in
    reached    \* history: the bindings <<t, g>> whose slot was emitted to

tokenVars == <<made, children, stop, ex, gen, emitting, posted, strand, user, stack, reached>>
binding == <<ex, gen, emitting, posted, strand, user, reached>>

Bindings == 1 .. MaxBindings

TokenInit ==
    /\ made = {Root}
    /\ children = [t \in Tokens |-> {}]
    /\ stop = [t \in Tokens |-> FALSE]
    /\ ex = [t \in Tokens |-> FALSE]
    /\ gen = [t \in Tokens |-> 0]
    /\ emitting = [t \in Tokens |-> FALSE]
    /\ posted = [t \in Tokens |-> [g \in Bindings |-> 0]]
    /\ strand = [t \in Tokens |-> [g \in Bindings |-> "idle"]]
    /\ user = [t \in Tokens |-> "free"]
    /\ stack = [h \in Threads |-> <<>>]
    /\ reached = {}

Call(token, at, kids) == [token |-> token, at |-> at, kids |-> kids]
Top(h) == stack[h][Len(stack[h])]
In(h, at) == stack[h] # <<>> /\ Top(h).at = at
Calls(h) == {stack[h][i] : i \in DOMAIN stack[h]}

Replaced(h, call) == [stack EXCEPT ![h] = [@ EXCEPT ![Len(@)] = call]]
Returned(h) == [stack EXCEPT ![h] = SubSeq(@, 1, Len(@) - 1)]
Post(t, g) == [posted EXCEPT ![t][g] = @ + 1]

-----------------------------------------------------------------------------
(* cancel(). *)
StartsCancel(h, t) ==
    /\ stack[h] = <<>> /\ t \in made
    /\ stack' = [stack EXCEPT ![h] = <<Call(t, "request", {})>>]
    /\ UNCHANGED <<made, children, stop, binding>>

(* Only the first request goes on. *)
RequestsStop(h) ==
    LET t == Top(h).token
    IN  /\ In(h, "request")
        /\ stop' = [stop EXCEPT ![t] = TRUE]
        /\ stack' = IF stop[t] THEN Returned(h) ELSE Replaced(h, Call(t, "post", {}))
        /\ UNCHANGED <<made, children, binding>>

Posts(h) ==
    LET t == Top(h).token
    IN  /\ In(h, "post")
        /\ posted' = IF ex[t] THEN Post(t, gen[t]) ELSE posted
        /\ stack' = Replaced(h, Call(t, "snapshot", {}))
        /\ UNCHANGED <<made, children, stop, ex, gen, emitting, strand, user, reached>>

Snapshots(h) ==
    LET t == Top(h).token
    IN  /\ In(h, "snapshot")
        /\ stack' = Replaced(h, Call(t, "cascade", children[t]))
        /\ UNCHANGED <<made, children, stop, binding>>

(* The children of the snapshot are told one by one.  The entry a forked token
   keeps of itself in children_ is skipped by the code and left out here. *)
Cascades(h) ==
    LET call == Top(h)
    IN  /\ In(h, "cascade")
        /\ \/ call.kids = {} /\ stack' = Returned(h)
           \/ \E k \in call.kids :
                 stack' = [stack EXCEPT ![h] =
                    Append([@ EXCEPT ![Len(@)] = Call(call.token, "cascade", call.kids \ {k})],
                           Call(k, "request", {}))]
        /\ UNCHANGED <<made, children, stop, binding>>

-----------------------------------------------------------------------------
(* fork(): the child is registered first and the parent's state read after. *)
Unforked == {c \in Tokens \ made : \A h \in Threads : \A call \in Calls(h) : c \notin call.kids}

StartsFork(h, t) ==
    /\ stack[h] = <<>> /\ t \in made
    /\ \E c \in Unforked : stack' = [stack EXCEPT ![h] = <<Call(t, "register", {c})>>]
    /\ UNCHANGED <<made, children, stop, binding>>

Registers(h) ==
    LET call == Top(h)
    IN  /\ In(h, "register")
        /\ children' = [children EXCEPT ![call.token] = @ \cup call.kids]
        /\ stack' = Replaced(h, Call(call.token, "eager", call.kids))
        /\ UNCHANGED <<made, stop, binding>>

(* Mutant: a parent that is already cancelled is not noticed. *)
ForkIgnoresParent(h) ==
    LET call == Top(h)
    IN  /\ In(h, "eager")
        /\ stack' = Replaced(h, Call(call.token, "forked", call.kids))
        /\ UNCHANGED <<made, children, stop, binding>>

CancelsEagerly(h) ==
    LET call == Top(h)
        done == Call(call.token, "forked", call.kids)
    IN  /\ In(h, "eager")
        /\ IF stop[call.token]
           THEN \E c \in call.kids :
                   stack' = [stack EXCEPT ![h] = Append([@ EXCEPT ![Len(@)] = done],
                                                        Call(c, "request", {}))]
           ELSE stack' = Replaced(h, done)
        /\ UNCHANGED <<made, children, stop, binding>>

ForkReturns(h) ==
    /\ In(h, "forked")
    /\ made' = made \cup Top(h).kids
    /\ stack' = Returned(h)
    /\ UNCHANGED <<children, stop, binding>>

-----------------------------------------------------------------------------
(* bind_executor() and unbind_executor(): one user per token.  A handler of
   the signal may bind again, so a bound token may be bound. *)

(* Mutant: a token that was cancelled before is bound silently. *)
BindsSilently(t) ==
    /\ t \in made /\ user[t] \in {"free", "bound"} /\ gen[t] < MaxBindings
    /\ ex' = [ex EXCEPT ![t] = TRUE]
    /\ gen' = [gen EXCEPT ![t] = @ + 1]
    /\ user' = [user EXCEPT ![t] = "bound"]
    /\ UNCHANGED <<made, children, stop, emitting, posted, strand, stack, reached>>

Binds(t) ==
    /\ t \in made /\ user[t] \in {"free", "bound"} /\ gen[t] < MaxBindings
    /\ ex' = [ex EXCEPT ![t] = TRUE]
    /\ gen' = [gen EXCEPT ![t] = @ + 1]
    /\ user' = [user EXCEPT ![t] = IF stop[t] THEN "firing" ELSE "bound"]
    /\ UNCHANGED <<made, children, stop, emitting, posted, strand, stack, reached>>

Fires(t) ==
    /\ user[t] = "firing"
    /\ posted' = Post(t, gen[t])
    /\ user' = [user EXCEPT ![t] = "bound"]
    /\ UNCHANGED <<made, children, stop, ex, gen, emitting, strand, stack, reached>>

Unbinds(t) ==
    /\ user[t] = "bound" /\ gen[t] < MaxBindings
    /\ ex' = [ex EXCEPT ![t] = FALSE]
    /\ gen' = [gen EXCEPT ![t] = @ + 1]
    /\ user' = [user EXCEPT ![t] = "detaching"]
    /\ UNCHANGED <<made, children, stop, emitting, posted, strand, stack, reached>>

(* The wait is over: the slot's handler is destroyed. *)
Clears(t) ==
    /\ user[t] = "detaching" /\ ~emitting[t]
    /\ user' = [user EXCEPT ![t] = "clearing"]
    /\ UNCHANGED <<made, children, stop, ex, gen, emitting, posted, strand, stack, reached>>

Cleared(t) ==
    /\ user[t] = "clearing"
    /\ user' = [user EXCEPT ![t] = "free"]
    /\ UNCHANGED <<made, children, stop, ex, gen, emitting, posted, strand, stack, reached>>

-----------------------------------------------------------------------------
(* emit_if_bound(), on the strand of binding g. *)

StartsEmit(t, g) ==
    /\ strand[t][g] = "idle" /\ posted[t][g] > 0
    /\ posted' = [posted EXCEPT ![t][g] = @ - 1]
    /\ strand' = [strand EXCEPT ![t][g] = "waiting"]
    /\ UNCHANGED <<made, children, stop, ex, gen, emitting, user, stack, reached>>

(* A queued emit of a binding that is gone does nothing. *)
DropsEmit(t, g) ==
    /\ strand[t][g] = "waiting" /\ (~ex[t] \/ g # gen[t])
    /\ strand' = [strand EXCEPT ![t][g] = "idle"]
    /\ UNCHANGED <<made, children, stop, ex, gen, emitting, posted, user, stack, reached>>

(* Mutant: the emit does not wait for one in progress. *)
EmitsBeside(t, g) ==
    /\ strand[t][g] = "waiting" /\ ex[t] /\ g = gen[t]
    /\ emitting' = [emitting EXCEPT ![t] = TRUE]
    /\ strand' = [strand EXCEPT ![t][g] = "emitting"]
    /\ reached' = reached \cup {<<t, g>>}
    /\ UNCHANGED <<made, children, stop, ex, gen, posted, user, stack>>

Emits(t, g) ==
    /\ strand[t][g] = "waiting" /\ ex[t] /\ g = gen[t] /\ ~emitting[t]
    /\ emitting' = [emitting EXCEPT ![t] = TRUE]
    /\ strand' = [strand EXCEPT ![t][g] = "emitting"]
    /\ reached' = reached \cup {<<t, g>>}
    /\ UNCHANGED <<made, children, stop, ex, gen, posted, user, stack>>

Emitted(t, g) ==
    /\ strand[t][g] = "emitting"
    /\ emitting' = [emitting EXCEPT ![t] = FALSE]
    /\ strand' = [strand EXCEPT ![t][g] = "idle"]
    /\ UNCHANGED <<made, children, stop, ex, gen, posted, user, stack, reached>>

-----------------------------------------------------------------------------
CallStep(h) ==
    \/ RequestsStop(h) \/ Posts(h) \/ Snapshots(h) \/ Cascades(h)
    \/ Registers(h) \/ CancelsEagerly(h) \/ ForkReturns(h)

StrandStep(t, g) == StartsEmit(t, g) \/ DropsEmit(t, g) \/ Emits(t, g) \/ Emitted(t, g)

UserStep(t) == Fires(t) \/ Clears(t) \/ Cleared(t)

TokenNext ==
    \/ \E h \in Threads : CallStep(h) \/ \E t \in Tokens : StartsCancel(h, t) \/ StartsFork(h, t)
    \/ \E t \in Bindable : Binds(t) \/ Unbinds(t) \/ UserStep(t)
    \/ \E t \in Bindable, g \in Bindings : StrandStep(t, g)

(* A call that was made is carried through and a strand runs what is posted to
   it; nobody is obliged to cancel, fork, bind or unbind. *)
TokenFairness ==
    /\ \A h \in Threads : WF_tokenVars(CallStep(h))
    /\ \A t \in Bindable : WF_tokenVars(UserStep(t))
    /\ \A t \in Bindable, g \in Bindings : WF_tokenVars(StrandStep(t, g))

TokenSpec == TokenInit /\ [][TokenNext]_tokenVars /\ TokenFairness

-----------------------------------------------------------------------------
(* Every variable of the tree has its type. *)
TokenTypeOK ==
    /\ made \subseteq Tokens /\ children \in [Tokens -> SUBSET Tokens]
    /\ stop \in [Tokens -> BOOLEAN] /\ ex \in [Tokens -> BOOLEAN]
    /\ gen \in [Tokens -> 0 .. MaxBindings] /\ emitting \in [Tokens -> BOOLEAN]
    /\ posted \in [Tokens -> [Bindings -> Nat]]
    /\ strand \in [Tokens -> [Bindings -> {"idle", "waiting", "emitting"}]]
    /\ user \in [Tokens -> {"free", "firing", "bound", "detaching", "clearing"}]
    /\ \A h \in Threads : \A call \in Calls(h) : call.token \in Tokens /\ call.kids \subseteq Tokens
    /\ reached \subseteq Tokens \X Bindings

Cancelling(t) ==
    \E h \in Threads : \E call \in Calls(h) :
        call.token = t /\ call.at \in {"post", "snapshot", "cascade"}

(* No child escapes: once the cancel() that stopped a token is through and the
   fork() of its child has returned, the child is stopped too, however the two
   were interleaved. *)
NoChildEscapes ==
    \A t \in Tokens : stop[t] /\ ~Cancelling(t) =>
        \A c \in children[t] \cap made : stop[c]

(* At most one emit of a token runs at a time, whatever it is bound to in
   between, and none runs while unbind_executor destroys the slot's handler. *)
EmitsExclusively ==
    \A t \in Tokens :
        LET now == {g \in Bindings : strand[t][g] = "emitting"}
        IN  Cardinality(now) <= 1 /\ (user[t] = "clearing" => now = {})

(* A cancelled token reaches the operation it is bound to, whether the cancel or
   the binding came first, unless that operation ended. *)
CancelReachesBinding ==
    \A t \in Bindable, g \in Bindings :
        []<>~(stop[t] /\ ex[t] /\ gen[t] = g /\ <<t, g>> \notin reached)

(* Every cancel() and fork() returns, whatever the other threads cancel and fork
   meanwhile, and no unbind_executor() waits for ever for the emit in progress. *)
CallsReturn ==
    /\ \A h \in Threads : []<>(stack[h] = <<>>)
    /\ \A t \in Bindable : []<>(user[t] # "detaching")
=============================================================================
