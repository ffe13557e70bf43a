------------------------- MODULE Resolution_proofs --------------------------
(***************************************************************************)
(* How a request finds its handler, and the handler its arguments.         *)
(*                                                                         *)
(* Dependencies: for every graph of dependencies, every table of overrides *)
(* and every failure, generators are closed in an order that respects      *)
(* their users, and all of them are.  The argument is about positions: a   *)
(* value is made from earlier values only, the cleanups are noted in the   *)
(* order of opening, and they are called from the last to the first.  What *)
(* may be shared is shared by all, because a dependency whose call is      *)
(* waited for further out cannot come to its end.                          *)
(*                                                                         *)
(* Routing: for every set of paths, markers, routers and handlers, the     *)
(* trees hold exactly the registered routes, so that a match, which knows  *)
(* only the tree, is the match of the one route the reference chooses;     *)
(* redirects land, and what is registered is reached; the document is of   *)
(* the routes and options of the moment.  The invariant is Held: each      *)
(* route has its own node, the markers on the way are its own, and no      *)
(* other node has a handler.  What recursion computes (Real, Add, Match,   *)
(* include_router) is reasoned about through a function from 0..n that     *)
(* exists and goes step by step: RecExists.                                *)
(***************************************************************************)
EXTENDS Dependencies, Routing, WellFoundedInduction, SequenceTheorems, TLAPS

-----------------------------------------------------------------------------
(* Dependencies.                                                           *)

\* A value is made from values that were made before it.
Earlier == \A v \in Value : made[v].args \subseteq 1 .. (v - 1)

\* The cleanups are those of open generators, in the order of opening.
Ordered ==
    /\ \A i, j \in DOMAIN cleanups : i < j => cleanups[i] < cleanups[j]
    /\ \A i \in DOMAIN cleanups : made[cleanups[i]].state = "open"

\* Before the request goes on, a generator that is open has its cleanup noted,
\* and none is left to a thread.
Noted ==
    phase # "done" => \A v \in Value :
        made[v].state \in {"opening", "open", "closing"} =>
            made[v].state = "open" /\ \E i \in DOMAIN cleanups : cleanups[i] = v

\* What has been closed was opened after all that is still open.
LastFirst ==
    \A u, v \in Value :
        made[v].state \in {"closing", "closed"} /\ made[u].state \in {"opening", "open"} => u < v

\* Nothing is closed before the handler has ended, nor if it never ran.
NoneClosedYet ==
    phase \in {"new", "resolving", "handling"} \/ ~resolved =>
        \A v \in Value : made[v].state \notin {"closing", "closed"}

\* The handler runs, and its cleanups after it, only on resolved dependencies.
Stages ==
    /\ phase \in {"new", "resolving"} => ~resolved
    /\ phase \in {"handling", "closing"} => resolved
    /\ phase = "resolving" => stack # <<>>

\* Every call of resolve_callable under way is of a dependency, and all but the
\* innermost are reading a parameter.
Nested ==
    /\ \A i \in 2 .. Len(stack) : stack[i].fn \in Dep /\ stack[i].key \in Dep
    /\ \A i \in 1 .. Len(stack) - 1 : stack[i].at < Len(Needs[stack[i].fn])

IInv ==
    /\ TypeOK
    /\ Nested
    /\ Earlier /\ Ordered /\ Noted /\ LastFirst /\ NoneClosedYet /\ Stages
    /\ AllClosed

LEMMA Single == ASSUME NEW S, NEW e \in S PROVE <<e>> \in Seq(S)
  OBVIOUS

USE DependenciesAssumption

State == {"plain", "opening", "open", "closing", "closed"}

-----------------------------------------------------------------------------
(* Types.                                                                  *)

LEMMA InitIInv == Init => IInv
<1> SUFFICES ASSUME Init PROVE IInv
  OBVIOUS
<1> USE DEF Init
<1>1. Value = {} /\ Len(made) = 0 /\ DOMAIN cleanups = {}
  BY DEF Value
<1>2. TypeOK
  <2>1. Needs \in [Dep \cup {Endpoint} -> Seq(Demand)] /\ overrides \in [Dep -> Dep]
    BY DEF DependenciesAssumption
  <2>2. stack \in Seq(Frames) /\ made \in Seq(Call) /\ cleanups \in Seq(Value)
    OBVIOUS
  <2>3. DOMAIN dep_cache = {}
    OBVIOUS
  <2> QED BY <2>1, <2>2, <2>3 DEF TypeOK
<1> QED BY <1>1, <1>2 DEF IInv, Nested, Earlier, Ordered, Noted, LastFirst, NoneClosedYet, Stages, AllClosed

\* A call is logged: the values made so far stay what they are.
LEMMA Logged ==
    ASSUME TypeOK, NEW f \in Dep, NEW A \in SUBSET Value, NEW s \in State,
           made' = Append(made, [fn |-> f, args |-> A, state |-> s])
    PROVE  /\ made' \in Seq(Call') /\ Len(made') = Len(made) + 1
           /\ Value' = Value \cup {Len(made) + 1} /\ Len(made) + 1 \notin Value
           /\ Value \subseteq Nat
           /\ \A v \in Value : made'[v] = made[v]
           /\ made'[Len(made) + 1] = [fn |-> f, args |-> A, state |-> s]
<1>1. made \in Seq(Call) /\ Len(made) \in Nat
  BY DEF TypeOK
<1>2. DEFINE r == [fn |-> f, args |-> A, state |-> s]
<1>3. Value' = Value \cup {Len(made) + 1} /\ Len(made') = Len(made) + 1
  BY <1>1 DEF Value
<1>4. /\ \A v \in Value : made'[v] = made[v]
      /\ made'[Len(made) + 1] = r
  BY <1>1 DEF Value
<1>5. r \in Call'
  BY <1>3 DEF Call, State
<1>6. \A v \in Value : made[v] \in Call
  BY <1>1 DEF Value
<1>7. Call \subseteq Call'
  BY <1>3 DEF Call
<1>8. \A v \in 1 .. Len(made') : made'[v] \in Call'
  BY <1>1, <1>3, <1>4, <1>5, <1>6, <1>7 DEF Value
<1>9. made' \in Seq(Call')
  <2>1. made' \in Seq({made'[v] : v \in 1 .. Len(made')})
    BY <1>1, <1>3
  <2> QED BY <1>1, <1>3, <1>8, <2>1
<1> QED BY <1>1, <1>3, <1>4, <1>9 DEF Value

\* A generator changes its state: everything else stays what it is.
LEMMA Marked ==
    ASSUME TypeOK, NEW v \in Value, NEW s \in State, made' = [made EXCEPT ![v].state = s]
    PROVE  /\ made' \in Seq(Call') /\ Len(made') = Len(made) /\ Value' = Value
           /\ \A u \in Value : made'[u] \in Call /\ made'[u].args = made[u].args
                               /\ made'[u].state = IF u = v THEN s ELSE made[u].state
<1>1. made \in Seq(Call) /\ v \in 1 .. Len(made) /\ made[v] \in Call
  BY DEF TypeOK, Value
<1>2. PICK e : e = [made[v] EXCEPT !.state = s]
  OBVIOUS
<1>3. e \in Call /\ e.args = made[v].args /\ e.state = s
  BY <1>1, <1>2 DEF Call, State
<1>4. made' = [made EXCEPT ![v] = e]
  BY <1>2
<1>5. /\ made' \in Seq(Call) /\ Len(made') = Len(made)
      /\ \A u \in 1 .. Len(made) : made'[u] = IF u = v THEN e ELSE made[u]
  BY ONLY <1>1, <1>3, <1>4, ExceptSeq
<1>6. Value' = Value /\ Call' = Call
  BY <1>5 DEF Value, Call
<1>7. \A u \in Value : made[u] \in Call
  BY <1>1 DEF Value
<1>8. \A u \in Value : made'[u] = IF u = v THEN e ELSE made[u]
  BY <1>5 DEF Value
<1>9. \A u \in Value : made'[u] \in Call /\ made'[u].args = made[u].args
                       /\ made'[u].state = IF u = v THEN s ELSE made[u].state
  <2> TAKE u \in Value
  <2>1. CASE u = v
    BY <1>3, <1>8, <2>1, SMTT(60)
  <2>2. CASE u # v
    BY <1>7, <1>8, <2>2
  <2> QED BY <2>1, <2>2
<1> QED BY <1>5, <1>6, <1>9

-----------------------------------------------------------------------------
(* The stack of calls.                                                     *)

LEMMA Innermost ==
    ASSUME TypeOK, stack # <<>>
    PROVE  /\ Top \in Frames /\ Below \in Seq(Frames)
           /\ Len(Below) = Len(stack) - 1 /\ Len(stack) \in Nat \ {0}
           /\ Top = stack[Len(stack)]
           /\ \A i \in 1 .. Len(Below) : Below[i] = stack[i] /\ stack[i] \in Frames
<1>1. stack \in Seq(Frames) /\ Len(stack) \in Nat \ {0}
  BY DEF TypeOK
<1>2. \A i \in 1 .. Len(stack) : stack[i] \in Frames
  BY <1>1
<1>3. /\ Below \in Seq(Frames) /\ Len(Below) = Len(stack) - 1
      /\ \A i \in 1 .. Len(Below) : Below[i] = stack[i]
  <2>1. PICK n \in Nat : n = Len(stack) - 1
    BY <1>1
  <2>2. 1 \in Int /\ n \in Int /\ Below = SubSeq(stack, 1, n) /\ \A i \in 1 .. n : stack[i] \in Frames
    BY <1>1, <1>2, <2>1 DEF Below
  <2>3. /\ Below \in Seq(Frames)
        /\ Len(Below) = IF 1 <= n THEN n - 1 + 1 ELSE 0
        /\ \A i \in 1 .. n - 1 + 1 : Below[i] = stack[1 + i - 1]
    BY <2>2, SubSeqProperties
  <2>4. Len(Below) = n
    BY <2>3
  <2>5. \A i \in 1 .. n : Below[i] = stack[i]
    <3> TAKE i \in 1 .. n
    <3>1. i \in 1 .. n - 1 + 1 /\ 1 + i - 1 = i
      OBVIOUS
    <3> QED BY <2>3, <3>1
  <2> QED BY <2>1, <2>3, <2>4, <2>5
<1> QED BY <1>1, <1>2, <1>3 DEF Top

\* Appending a frame to a stack whose frames all are calls under way.
LEMMA Pushed ==
    ASSUME NEW F, NEW s \in Seq(F), NEW e \in F
    PROVE  /\ Append(s, e) \in Seq(F) /\ Len(Append(s, e)) = Len(s) + 1
           /\ Append(s, e)[Len(s) + 1] = e
           /\ \A i \in 1 .. Len(s) : Append(s, e)[i] = s[i]
  OBVIOUS

LEMMA FrameGrows ==
    ASSUME Value \subseteq Value'
    PROVE  /\ Frames \subseteq Frames'
           /\ Seq(Frames) \subseteq Seq(Frames')
           /\ Seq(Value) \subseteq Seq(Value')
<1>1. Frames \subseteq Frames'
  BY DEF Frames
<1> QED BY <1>1

\* What is wanted when a parameter is being read is a dependency.
LEMMA DemandTypes ==
    ASSUME TypeOK, NEW f \in Frames, f.at < Len(Needs[f.fn])
    PROVE  Needs[f.fn][f.at + 1] \in Demand
<1>1. f.fn \in Dep \cup {Endpoint} /\ f.at \in Nat
  BY DEF Frames
<1>2. Needs[f.fn] \in Seq(Demand)
  BY <1>1 DEF TypeOK
<1> QED BY <1>1, <1>2

LEMMA WantedTypes ==
    ASSUME IInv, HasDemand
    PROVE  /\ stack # <<>> /\ Wanted \in Demand /\ Wanted.to \in Dep /\ Wanted.cache \in BOOLEAN
           /\ Key \in Dep /\ overrides[Key] \in Dep
<1>1. stack # <<>> /\ TypeOK
  BY DEF IInv, Stages, HasDemand
<1>2. Top \in Frames
  BY <1>1, Innermost
<1>3. Wanted \in Demand
  BY <1>1, <1>2, DemandTypes DEF Wanted, HasDemand
<1>4. Wanted.to \in Dep /\ Wanted.cache \in BOOLEAN
  BY <1>3 DEF Demand
<1>5. Key \in Dep /\ overrides[Key] \in Dep
  BY <1>1, <1>4 DEF Key, TypeOK
<1> QED BY <1>1, <1>3, <1>4, <1>5

LEMMA CallTypes ==
    ASSUME IInv, Callable
    PROVE  /\ stack # <<>> /\ Len(Below) \in Nat \ {0}
           /\ Top.fn \in Dep /\ Top.key \in Dep /\ Top.args \in SUBSET Value
           /\ Below[Len(Below)] \in Frames
           /\ Needs[Below[Len(Below)].fn][Below[Len(Below)].at + 1].to \in Dep
<1>1. TypeOK /\ stack # <<>> /\ Len(stack) \in Nat /\ Len(stack) > 1
  BY DEF IInv, Callable, Stages, TypeOK
<1>2. /\ Len(Below) = Len(stack) - 1
      /\ Below[Len(Below)] = stack[Len(stack) - 1]
      /\ stack[Len(stack) - 1] \in Frames
      /\ Top \in Frames /\ Top = stack[Len(stack)]
  BY <1>1, Innermost
<1>3. Top.fn \in Dep /\ Top.key \in Dep
  BY <1>1, <1>2 DEF IInv, Nested
<1>4. Top.args \in SUBSET Value
  BY <1>2 DEF Frames
<1>5. stack[Len(stack) - 1].at < Len(Needs[stack[Len(stack) - 1].fn])
  BY <1>1 DEF IInv, Nested
<1>6. Needs[Below[Len(Below)].fn][Below[Len(Below)].at + 1] \in Demand
  BY <1>1, <1>2, <1>5, DemandTypes
<1> QED BY <1>1, <1>2, <1>3, <1>4, <1>6 DEF Demand

\* The stack is cut back to n calls, the innermost of which has read on.
LEMMA NestedCut ==
    ASSUME IInv, NEW n \in 1 .. Len(stack), UNCHANGED Needs,
           Len(stack') = n, \A i \in 1 .. n - 1 : stack'[i] = stack[i],
           stack'[n].fn = stack[n].fn, stack'[n].key = stack[n].key
    PROVE  Nested'
<1>1. Len(stack) \in Nat /\ n \in Nat
  BY DEF IInv, TypeOK
<1>2. ASSUME NEW i \in 2 .. Len(stack')
      PROVE  stack'[i].fn \in Dep /\ stack'[i].key \in Dep
  <2>1. stack[i].fn \in Dep /\ stack[i].key \in Dep
    BY <1>1 DEF IInv, Nested
  <2>2. CASE i = n
    BY <2>1, <2>2
  <2>3. CASE i # n
    BY <1>1, <2>1, <2>3
  <2> QED BY <2>2, <2>3
<1>3. ASSUME NEW i \in 1 .. Len(stack') - 1
      PROVE  stack'[i].at < Len(Needs'[stack'[i].fn])
  <2>1. i \in 1 .. n - 1 /\ i \in 1 .. Len(stack) - 1
    BY <1>1
  <2>2. stack[i].at < Len(Needs[stack[i].fn])
    BY <2>1 DEF IInv, Nested
  <2> QED BY <2>1, <2>2
<1> QED BY <1>2, <1>3 DEF Nested

LEMMA BindTypes ==
    ASSUME NEW f \in Frames, Value \subseteq Value', NEW v \in Value', made'[v].args \subseteq Value'
    PROVE  /\ Bind(f, v) \in Frames'
           /\ Bind(f, v).fn = f.fn /\ Bind(f, v).key = f.key
<1>1. /\ f.fn \in Dep \cup {Endpoint} /\ f.key \in Dep \cup {Endpoint} /\ f.cache \in BOOLEAN
      /\ f.at \in Nat /\ f.args \subseteq Value
      /\ f = [fn |-> f.fn, key |-> f.key, cache |-> f.cache, at |-> f.at, args |-> f.args]
  BY DEF Frames
<1>2. PICK a : a = f.args \cup {v} \cup made'[v].args
  OBVIOUS
<1>3. a \subseteq Value'
  BY <1>1, <1>2
<1>4. Bind(f, v) = [fn |-> f.fn, key |-> f.key, cache |-> f.cache, at |-> f.at + 1, args |-> a]
  <2>1. Bind(f, v) = [f EXCEPT !.at = f.at + 1, !.args = a]
    BY <1>2 DEF Bind
  <2>2. PICK g : g = f
    OBVIOUS
  <2>3. g \in Frames
    BY <2>2
  <2> QED BY <2>1, <2>2, <2>3 DEF Frames
<1>5. f.at + 1 \in Nat
  BY <1>1
<1> QED BY <1>1, <1>3, <1>4, <1>5 DEF Frames

\* What a step that makes, notes and closes nothing has to keep.
LEMMA Quiet ==
    ASSUME IInv, UNCHANGED <<made, cleanups>>, TypeOK', Nested', Stages',
           phase' # "done" => phase # "done",
           phase' \in {"new", "resolving", "handling"} => phase \in {"new", "resolving", "handling"},
           ~resolved' => ~resolved,
           phase' = "done" /\ resolved' => phase = "closing" /\ cleanups = <<>> 
    PROVE  IInv'
<1>1. Value' = Value /\ DOMAIN cleanups' = DOMAIN cleanups
  BY DEF Value
<1>2. Earlier' /\ Ordered' /\ LastFirst'
  BY <1>1 DEF IInv, Earlier, Ordered, LastFirst
<1>3. Noted'
  BY <1>1 DEF IInv, Noted
<1>4. NoneClosedYet'
  BY <1>1 DEF IInv, NoneClosedYet
<1>5. AllClosed'
  <2> SUFFICES ASSUME phase' = "done", resolved', NEW v \in Value
               PROVE  made'[v].state \in {"plain", "closed"}
    BY <1>1 DEF AllClosed
  <2>1. phase = "closing" /\ cleanups = <<>> /\ DOMAIN cleanups = {}
    OBVIOUS
  <2>2. made[v].state \notin {"opening", "open", "closing"}
    BY <2>1 DEF IInv, Noted
  <2>3. made[v].state \in State
    <3>1. PICK c \in Call : c = made[v]
      BY DEF IInv, TypeOK, Value
    <3> QED BY <3>1 DEF Call, State
  <2> QED BY <2>2, <2>3 DEF State
<1> QED BY <1>2, <1>3, <1>4, <1>5 DEF IInv

LEMMA BeginStep == IInv /\ Begin => IInv'
<1> SUFFICES ASSUME IInv, Begin PROVE IInv'
  OBVIOUS
<1>1. Value' = Value /\ Frames' = Frames /\ Call' = Call
  BY DEF Begin, Value, Frames, Call
<1>2. Frame(Endpoint, Endpoint, FALSE) \in Frames
  BY DEF Frame, Frames
<1>3. TypeOK'
  <2>1. PICK f \in Frames : f = Frame(Endpoint, Endpoint, FALSE)
    BY <1>2
  <2>2. stack' = <<f>>
    BY <2>1 DEF Begin
  <2>3. stack' \in Seq(Frames)
    BY <2>1, <2>2, Single
  <2> QED BY <1>1, <2>3 DEF IInv, TypeOK, Begin, appVars
<1>4. Len(stack') = 1
  BY DEF Begin
<1>5. Nested'
  BY <1>4 DEF Nested
<1> QED BY <1>3, <1>5, Quiet DEF Begin, IInv, Stages

LEMMA ReuseStep == IInv /\ Reuse => IInv'
<1> SUFFICES ASSUME IInv, Reuse PROVE IInv'
  OBVIOUS
<1> DEFINE v == dep_cache[Key]
           e == Bind(Top, v)
<1>1. /\ stack # <<>> /\ Wanted.to \in Dep /\ phase = "resolving"
      /\ TypeOK /\ v \in Value
  BY WantedTypes DEF Reuse, IInv, TypeOK, HasDemand
<1>2. Value' = Value /\ Frames' = Frames /\ Call' = Call
  BY DEF Reuse, Value, Frames, Call
<1>3. made[v].args \subseteq Value
  <2>1. PICK c \in Call : c = made[v]
    BY <1>1 DEF TypeOK, Value
  <2> QED BY <2>1 DEF Call
<1>4. e \in Frames /\ e.fn = Top.fn /\ e.key = Top.key
  BY <1>1, <1>2, <1>3, Innermost, BindTypes DEF Reuse
<1>5. PICK w : w = e
  OBVIOUS
<1>6. stack' = Append(Below, w)
  BY <1>5 DEF Reuse
<1>7. /\ stack' \in Seq(Frames) /\ Len(stack') = Len(Below) + 1
      /\ stack'[Len(Below) + 1] = w
      /\ \A i \in 1 .. Len(Below) : stack'[i] = Below[i]
  BY <1>1, <1>4, <1>5, <1>6, Innermost, Pushed
<1>8. Nested'
  <2>1. Len(stack) \in 1 .. Len(stack) /\ Len(Below) = Len(stack) - 1 /\ Len(stack) \in Nat
    BY <1>1, Innermost
  <2>2. Len(stack') = Len(stack) /\ \A i \in 1 .. Len(stack) - 1 : stack'[i] = stack[i]
    BY <1>1, <1>7, <2>1, Innermost
  <2>3. stack'[Len(stack)].fn = stack[Len(stack)].fn /\ stack'[Len(stack)].key = stack[Len(stack)].key
    BY <1>1, <1>4, <1>5, <1>7, <2>1, Innermost
  <2> QED BY <2>1, <2>2, <2>3, NestedCut DEF Reuse, appVars
<1>9. given' \subseteq [to : Dep, value : Value]
  BY <1>1 DEF Reuse, Give, TypeOK
<1>10. TypeOK'
  BY <1>1, <1>2, <1>7, <1>9 DEF TypeOK, Reuse, appVars
<1>11. stack' # <<>>
  BY <1>7, <1>1, Innermost
<1> QED BY <1>1, <1>8, <1>10, <1>11, Quiet DEF Reuse, Stages, IInv, appVars

LEMMA DescendStep == IInv /\ Descend => IInv'
<1> SUFFICES ASSUME IInv, Descend PROVE IInv'
  OBVIOUS
<1>1. /\ stack # <<>> /\ Wanted.cache \in BOOLEAN /\ Key \in Dep /\ overrides[Key] \in Dep
      /\ phase = "resolving" /\ TypeOK /\ Top.at < Len(Needs[Top.fn])
  BY WantedTypes DEF Descend, IInv, HasDemand
<1>2. Value' = Value /\ Frames' = Frames /\ Call' = Call
  BY DEF Descend, Value, Frames, Call
<1>3. PICK w : w = Frame(overrides[Key], Key, Wanted.cache)
  OBVIOUS
<1>4. w \in Frames /\ w.fn \in Dep /\ w.key \in Dep
  BY <1>1, <1>3 DEF Frame, Frames
<1>5. /\ stack' \in Seq(Frames) /\ Len(stack') = Len(stack) + 1 /\ Len(stack) \in Nat
      /\ stack'[Len(stack) + 1] = w
      /\ \A i \in 1 .. Len(stack) : stack'[i] = stack[i]
  BY <1>1, <1>3, <1>4, Pushed DEF Descend, TypeOK
<1>6. Nested'
  <2>1. \A i \in 2 .. Len(stack') : stack'[i].fn \in Dep /\ stack'[i].key \in Dep
    BY <1>4, <1>5 DEF IInv, Nested
  <2>2. ASSUME NEW i \in 1 .. Len(stack') - 1
        PROVE  stack'[i].at < Len(Needs'[stack'[i].fn])
    <3>1. CASE i = Len(stack)
      BY <1>1, <1>5, <3>1 DEF Top, Descend, appVars
    <3>2. CASE i # Len(stack)
      BY <1>5, <3>2 DEF IInv, Nested, Descend, appVars
    <3> QED BY <3>1, <3>2
  <2> QED BY <2>1, <2>2 DEF Nested
<1>7. TypeOK'
  BY <1>1, <1>2, <1>5 DEF TypeOK, Descend, appVars
<1>8. stack' # <<>>
  BY <1>5
<1> QED BY <1>1, <1>6, <1>7, <1>8, Quiet DEF Descend, Stages, IInv, appVars

-----------------------------------------------------------------------------
(* Calls of dependencies.                                                  *)

\* A call is logged, and noted if its generator is open and the request goes on.
LEMMA LoggedParts ==
    ASSUME IInv, NEW f \in Dep, NEW A \in SUBSET Value, NEW s \in State \ {"closing", "closed"},
           made' = Append(made, [fn |-> f, args |-> A, state |-> s]),
           ~resolved, phase # "done", UNCHANGED resolved,
           \/ cleanups' = Append(cleanups, Len(made) + 1) /\ s = "open"
           \/ cleanups' = cleanups /\ (s = "plain" \/ phase' = "done"),
           s = "opening" => phase' = "done"
    PROVE  Earlier' /\ Ordered' /\ Noted' /\ LastFirst' /\ NoneClosedYet' /\ AllClosed'
                    /\ cleanups' \in Seq(Value')
<1> DEFINE n == Len(made) + 1
<1>1. /\ made' \in Seq(Call') /\ Len(made') = n /\ n \in Nat /\ Value' = Value \cup {n} /\ n \notin Value
      /\ Value = 1 .. n - 1
      /\ \A v \in Value : made'[v] = made[v]
      /\ made'[n] = [fn |-> f, args |-> A, state |-> s]
  <2>1. TypeOK /\ s \in State
    BY DEF IInv
  <2>2. Len(made) \in Nat
    BY <2>1 DEF TypeOK
  <2> HIDE DEF State
  <2> QED BY <2>1, <2>2, Logged DEF Value
<1>2. made'[n].args = A /\ made'[n].state = s
  BY <1>1
<1>3. \A v \in Value : made[v].state \notin {"closing", "closed"}
  BY DEF IInv, NoneClosedYet
<1>4. \A v \in Value' : made'[v].state \notin {"closing", "closed"}
  BY <1>1, <1>2, <1>3
<1>5. Earlier'
  <2>1. ASSUME NEW v \in Value' PROVE made'[v].args \subseteq 1 .. v - 1
    <3>1. CASE v = n
      BY <1>1, <1>2, <3>1
    <3>2. CASE v # n
      BY <1>1, <3>2 DEF IInv, Earlier
    <3> QED BY <3>1, <3>2
  <2> QED BY <2>1 DEF Earlier
<1>6. cleanups \in Seq(Value) /\ cleanups \in Seq(Value') /\ Len(cleanups) \in Nat
      /\ \A i \in DOMAIN cleanups : cleanups[i] \in Value
  <2>1. cleanups \in Seq(Value) /\ Value \subseteq Value'
    BY <1>1 DEF IInv, TypeOK
  <2>2. cleanups \in Seq(Value')
    BY <2>1, FrameGrows
  <2> QED BY <2>1, <2>2
<1>7. CASE cleanups' = Append(cleanups, n) /\ s = "open"
  <2>1. /\ cleanups' \in Seq(Value') /\ DOMAIN cleanups' = 1 .. Len(cleanups) + 1
        /\ DOMAIN cleanups = 1 .. Len(cleanups)
        /\ cleanups'[Len(cleanups) + 1] = n
        /\ \A i \in DOMAIN cleanups : cleanups'[i] = cleanups[i]
    BY <1>1, <1>6, <1>7
  <2>2. Ordered'
    <3>1. ASSUME NEW i \in DOMAIN cleanups', NEW j \in DOMAIN cleanups', i < j
          PROVE  cleanups'[i] < cleanups'[j]
      <4>1. i \in DOMAIN cleanups /\ cleanups'[i] = cleanups[i] /\ cleanups[i] \in 1 .. n - 1
        BY <1>1, <1>6, <2>1, <3>1
      <4>2. CASE j = Len(cleanups) + 1
        BY <1>1, <2>1, <4>1, <4>2
      <4>3. CASE j # Len(cleanups) + 1
        BY <2>1, <3>1, <4>1, <4>3 DEF IInv, Ordered
      <4> QED BY <4>2, <4>3
    <3>2. \A i \in DOMAIN cleanups' : made'[cleanups'[i]].state = "open"
      BY <1>1, <1>2, <1>6, <1>7, <2>1 DEF IInv, Ordered
    <3> QED BY <3>1, <3>2 DEF Ordered
  <2>3. Noted'
    <3>1. ASSUME phase' # "done", NEW v \in Value', made'[v].state \in {"opening", "open", "closing"}
          PROVE  made'[v].state = "open" /\ \E i \in DOMAIN cleanups' : cleanups'[i] = v
      <4>1. CASE v = n
        BY <1>2, <1>4, <2>1, <3>1, <4>1, <1>6
      <4>2. CASE v # n
        <5>1. v \in Value /\ made'[v] = made[v]
          BY <1>1, <4>2
        <5>2. made[v].state = "open" /\ \E i \in DOMAIN cleanups : cleanups[i] = v
          BY <3>1, <5>1 DEF IInv, Noted
        <5>3. DOMAIN cleanups \subseteq DOMAIN cleanups'
          BY <1>6, <2>1
        <5> QED BY <2>1, <5>1, <5>2, <5>3
      <4> QED BY <4>1, <4>2
    <3> QED BY <3>1 DEF Noted
  <2> QED BY <1>4, <1>5, <2>1, <2>2, <2>3 DEF LastFirst, NoneClosedYet, AllClosed
<1>8. CASE cleanups' = cleanups /\ (s = "plain" \/ phase' = "done")
  <2>1. Ordered'
    BY <1>1, <1>6, <1>8 DEF IInv, Ordered
  <2>2. Noted'
    <3>1. ASSUME phase' # "done", NEW v \in Value', made'[v].state \in {"opening", "open", "closing"}
          PROVE  made'[v].state = "open" /\ \E i \in DOMAIN cleanups' : cleanups'[i] = v
      <4>1. v # n
        BY <1>2, <1>8, <3>1
      <4>2. v \in Value /\ made'[v] = made[v]
        BY <1>1, <4>1
      <4> QED BY <1>8, <3>1, <4>2 DEF IInv, Noted
    <3> QED BY <3>1 DEF Noted
  <2> QED BY <1>4, <1>5, <1>6, <1>8, <2>1, <2>2 DEF LastFirst, NoneClosedYet, AllClosed
<1> QED BY <1>7, <1>8

\* What Log and Note do to the parts of the invariant about values and cleanups.
LEMMA CallMade ==
    ASSUME IInv, Callable, UNCHANGED resolved,
           \/ Log(IF Top.fn \in Generator THEN "open" ELSE "plain") /\ Note(Len(made) + 1)
           \/ Log("opening") /\ UNCHANGED cleanups /\ phase' = "done"
    PROVE  /\ Earlier' /\ Ordered' /\ Noted' /\ LastFirst' /\ NoneClosedYet' /\ AllClosed'
           /\ cleanups' \in Seq(Value') /\ made' \in Seq(Call')
           /\ Value' = Value \cup {Len(made) + 1}
           /\ made'[Len(made) + 1].args = Top.args /\ Top.args \subseteq Value
<1>1. Top.fn \in Dep /\ Top.args \in SUBSET Value /\ ~resolved /\ phase # "done" /\ TypeOK
  BY CallTypes DEF Callable, IInv, Stages
<1>2. PICK s \in State \ {"closing", "closed"} :
          /\ made' = Append(made, [fn |-> Top.fn, args |-> Top.args, state |-> s])
          /\ \/ cleanups' = Append(cleanups, Len(made) + 1) /\ s = "open"
             \/ cleanups' = cleanups /\ (s = "plain" \/ phase' = "done")
          /\ s = "opening" => phase' = "done"
  <2>1. CASE Log("opening") /\ UNCHANGED cleanups /\ phase' = "done"
    BY <2>1 DEF Log, State
  <2>2. CASE Log(IF Top.fn \in Generator THEN "open" ELSE "plain") /\ Note(Len(made) + 1)
    <3>1. CASE Top.fn \in Generator
      BY <2>2, <3>1 DEF Log, Note, State
    <3>2. CASE Top.fn \notin Generator
      BY <2>2, <3>2 DEF Log, Note, State
    <3> QED BY <3>1, <3>2
  <2> QED BY <2>1, <2>2
<1>3. PICK f \in Dep, A \in SUBSET Value : f = Top.fn /\ A = Top.args
  BY <1>1
<1>4. /\ Earlier' /\ Ordered' /\ Noted' /\ LastFirst' /\ NoneClosedYet' /\ AllClosed'
      /\ cleanups' \in Seq(Value')
  BY <1>1, <1>2, <1>3, LoggedParts
<1>5. /\ made' \in Seq(Call') /\ Value' = Value \cup {Len(made) + 1}
      /\ made'[Len(made) + 1] = [fn |-> f, args |-> A, state |-> s]
  <2>1. s \in State
    BY <1>2
  <2> HIDE DEF State
  <2> QED BY <1>1, <1>2, <1>3, <2>1, Logged
<1> QED BY <1>1, <1>3, <1>4, <1>5

\* A request whose resolution ends has no stack left.
LEMMA AbandonTypes ==
    ASSUME IInv, Abandon, phase = "resolving", Value \subseteq Value',
           made' \in Seq(Call'), cleanups' \in Seq(Value'), UNCHANGED <<dep_cache, given>>
    PROVE  TypeOK' /\ Nested' /\ Stages'
<1>1. TypeOK /\ stack' = <<>> /\ phase' = "done" /\ ~resolved'
      /\ UNCHANGED <<Needs, overrides, resolved, broken>>
  BY DEF IInv, Abandon, appVars, Stages
<1>2. stack' \in Seq(Frames')
  BY <1>1
<1>3. given' \subseteq [to : Dep, value : Value']
  BY <1>1 DEF TypeOK
<1>4. \A k \in DOMAIN dep_cache' : dep_cache'[k] \in Value'
  BY <1>1 DEF TypeOK
<1>5. TypeOK'
  BY <1>1, <1>2, <1>3, <1>4 DEF TypeOK
<1>6. Nested'
  BY <1>1 DEF Nested
<1> QED BY <1>1, <1>5, <1>6 DEF Stages

LEMMA ResolutionFailsStep == IInv /\ ResolutionFails => IInv'
<1> SUFFICES ASSUME IInv, ResolutionFails PROVE IInv'
  OBVIOUS
<1>1. /\ Value' = Value /\ Call' = Call
      /\ UNCHANGED <<dep_cache, made, cleanups, given>> /\ Abandon /\ phase = "resolving"
  BY DEF ResolutionFails, Value, Call
<1>2. made' \in Seq(Call') /\ cleanups' \in Seq(Value')
  BY <1>1 DEF IInv, TypeOK
<1>3. TypeOK' /\ Nested' /\ Stages'
  BY <1>1, <1>2, AbandonTypes
<1> QED BY <1>1, <1>3, Quiet DEF Abandon, IInv, Stages

LEMMA ForbiddenStep == IInv /\ (Forbidden \/ CancelledInNext) => IInv'
<1> SUFFICES ASSUME IInv, Forbidden \/ CancelledInNext PROVE IInv'
  OBVIOUS
<1>1. Callable /\ Abandon /\ UNCHANGED <<dep_cache, given>> /\ phase = "resolving"
  BY DEF Forbidden, CancelledInNext, Callable
<1>2. /\ UNCHANGED resolved /\ phase' = "done"
      /\ \/ Log(IF Top.fn \in Generator THEN "open" ELSE "plain") /\ Note(Len(made) + 1)
         \/ Log("opening") /\ UNCHANGED cleanups /\ phase' = "done"
  BY DEF Forbidden, CancelledInNext, Abandon
<1>3. /\ Earlier' /\ Ordered' /\ Noted' /\ LastFirst' /\ NoneClosedYet' /\ AllClosed'
      /\ cleanups' \in Seq(Value') /\ made' \in Seq(Call') /\ Value \subseteq Value'
  BY <1>1, <1>2, CallMade
<1>4. TypeOK' /\ Nested' /\ Stages'
  BY <1>1, <1>3, AbandonTypes
<1> QED BY <1>3, <1>4 DEF IInv

LEMMA ReturnStep == IInv /\ Return => IInv'
<1> SUFFICES ASSUME IInv, Return PROVE IInv'
  OBVIOUS
<1> DEFINE v == Len(made) + 1
           caller == Below[Len(Below)]
           wanted == Needs[caller.fn][caller.at + 1].to
<1>1. Callable /\ phase = "resolving" /\ TypeOK /\ UNCHANGED <<phase, Needs, overrides, resolved, broken>>
  BY DEF Return, Callable, appVars, IInv
<1>2. /\ Earlier' /\ Ordered' /\ Noted' /\ LastFirst' /\ NoneClosedYet' /\ AllClosed'
      /\ cleanups' \in Seq(Value') /\ made' \in Seq(Call')
      /\ Value' = Value \cup {v} /\ made'[v].args = Top.args /\ Top.args \subseteq Value
  <2>1. Log(IF Top.fn \in Generator THEN "open" ELSE "plain") /\ Note(Len(made) + 1) /\ UNCHANGED resolved
    BY DEF Return
  <2> QED BY <1>1, <2>1, CallMade
<1>3. /\ stack # <<>> /\ Len(Below) \in Nat \ {0} /\ Top.key \in Dep /\ caller \in Frames /\ wanted \in Dep
  BY <1>1, CallTypes
<1>4. /\ Below \in Seq(Frames) /\ Len(Below) = Len(stack) - 1 /\ Len(stack) \in Nat
      /\ \A i \in 1 .. Len(Below) : Below[i] = stack[i]
  BY <1>1, <1>3, Innermost
<1>5. PICK w : w = Bind(caller, v)
  OBVIOUS
<1>6. w \in Frames' /\ w.fn = caller.fn /\ w.key = caller.key
  <2>1. v \in Value' /\ Value \subseteq Value' /\ made'[v].args \subseteq Value'
    BY <1>2
  <2>2. PICK f \in Frames : f = caller
    BY <1>3
  <2> QED BY <1>5, <2>1, <2>2, BindTypes
<1>7. PICK n \in Nat : n = Len(Below) - 1
  BY <1>3
<1>8. /\ stack' \in Seq(Frames') /\ Len(stack') = n + 1
      /\ stack'[n + 1] = w /\ \A i \in 1 .. n : stack'[i] = stack[i]
  <2>1. PICK b : b = SubSeq(Below, 1, n)
    OBVIOUS
  <2>2. /\ b \in Seq(Frames) /\ Len(b) = n /\ \A i \in 1 .. n : b[i] = stack[i]
    <3>1. 1 \in Int /\ n \in Int /\ \A i \in 1 .. n : Below[i] \in Frames
      BY <1>4, <1>7
    <3>2. /\ b \in Seq(Frames)
          /\ Len(b) = IF 1 <= n THEN n - 1 + 1 ELSE 0
          /\ \A i \in 1 .. n - 1 + 1 : b[i] = Below[1 + i - 1]
      BY <2>1, <3>1, SubSeqProperties
    <3>3. \A i \in 1 .. n : i \in 1 .. n - 1 + 1 /\ 1 + i - 1 = i /\ i \in 1 .. Len(Below)
      BY <1>7, <1>3
    <3> QED BY <1>4, <3>2, <3>3
  <2>3. b \in Seq(Frames')
    BY <1>2, <2>2, FrameGrows
  <2>4. stack' = Append(b, w)
    BY <1>5, <1>7, <2>1 DEF Return
  <2> QED BY <1>6, <2>2, <2>3, <2>4, Pushed
<1>9. Nested'
  <2>1. n + 1 \in 1 .. Len(stack) /\ n + 1 = Len(Below)
    BY <1>3, <1>4, <1>7
  <2>2. stack'[n + 1].fn = stack[n + 1].fn /\ stack'[n + 1].key = stack[n + 1].key
    BY <1>4, <1>6, <1>8, <2>1
  <2>3. \A i \in 1 .. (n + 1) - 1 : stack'[i] = stack[i]
    BY <1>8
  <2> QED BY <1>1, <1>8, <2>1, <2>2, <2>3, NestedCut
<1>10. given' \subseteq [to : Dep, value : Value']
  <2>1. given \subseteq [to : Dep, value : Value']
    BY <1>1, <1>2 DEF TypeOK
  <2>2. [to |-> wanted, value |-> v] \in [to : Dep, value : Value']
    BY <1>2, <1>3
  <2> QED BY <2>1, <2>2 DEF Return
<1>11. DOMAIN dep_cache' \subseteq Dep /\ \A k \in DOMAIN dep_cache' : dep_cache'[k] \in Value'
  <2>1. CASE Top.cache
    <3>1. dep_cache' = [k \in DOMAIN dep_cache \cup {Top.key} |-> IF k = Top.key THEN v ELSE dep_cache[k]]
      BY <2>1 DEF Return
    <3> QED BY <1>1, <1>2, <1>3, <3>1 DEF TypeOK
  <2>2. CASE ~Top.cache
    BY <1>1, <1>2, <2>2 DEF Return, TypeOK
  <2> QED BY <2>1, <2>2
<1>12. TypeOK'
  BY <1>1, <1>2, <1>8, <1>10, <1>11 DEF TypeOK
<1>13. Stages'
  BY <1>1, <1>8, <1>7 DEF IInv, Stages
<1> QED BY <1>2, <1>9, <1>12, <1>13 DEF IInv

-----------------------------------------------------------------------------
(* The handler and the cleanups.                                           *)

\* A thread that nobody waits for gets to its yield, or to its end.
LEMMA LateStep == IInv /\ (OpensLate \/ ClosesLate) => IInv'
<1> SUFFICES ASSUME IInv, OpensLate \/ ClosesLate PROVE IInv'
  OBVIOUS
<1>1. PICK v \in Value, s \in State :
          /\ made' = [made EXCEPT ![v].state = s]
          /\ \/ made[v].state = "opening" /\ s = "open"
             \/ made[v].state = "closing" /\ s = "closed"
  BY DEF OpensLate, ClosesLate, State
<1>2. TypeOK /\ UNCHANGED <<phase, Needs, overrides, stack, dep_cache, cleanups, given, resolved, broken>>
  BY DEF OpensLate, ClosesLate, appVars, IInv
<1>3. /\ made' \in Seq(Call') /\ Value' = Value
      /\ \A u \in Value : made'[u] \in Call /\ made'[u].args = made[u].args
                          /\ made'[u].state = IF u = v THEN s ELSE made[u].state
  <2> HIDE DEF State
  <2> QED BY <1>1, <1>2, Marked
<1>4. Frames' = Frames
  BY <1>3 DEF Frames
<1>5. TypeOK' /\ Nested' /\ Stages'
  BY <1>2, <1>3, <1>4 DEF TypeOK, IInv, Nested, Stages
<1>6. phase = "done" /\ phase' = "done"
  BY <1>1, <1>2 DEF IInv, Noted
<1>7. \A i \in DOMAIN cleanups : cleanups[i] \in Value /\ cleanups[i] # v
  BY <1>1, <1>2 DEF IInv, Ordered, TypeOK
<1>8. Earlier' /\ Ordered' /\ Noted' /\ NoneClosedYet'
  BY <1>1, <1>2, <1>3, <1>6, <1>7 DEF IInv, Earlier, Ordered, Noted, NoneClosedYet
<1>9. LastFirst'
  BY <1>1, <1>3 DEF IInv, LastFirst
<1>10. AllClosed'
  BY <1>1, <1>2, <1>6 DEF IInv, AllClosed
<1> QED BY <1>5, <1>8, <1>9, <1>10 DEF IInv

LEMMA HandleStep == IInv /\ Handle => IInv'
<1> SUFFICES ASSUME IInv, Handle PROVE IInv'
  OBVIOUS
<1>1. /\ TypeOK /\ phase = "resolving" /\ phase' = "handling" /\ resolved' /\ resolved' = TRUE /\ ~resolved
      /\ UNCHANGED <<Needs, overrides, stack, dep_cache, made, cleanups, given, broken>>
  BY DEF Handle, appVars, IInv, Stages
<1>2. Value' = Value /\ Frames' = Frames /\ Call' = Call
  BY <1>1 DEF Value, Frames, Call
<1>3. TypeOK' /\ Nested' /\ Stages'
  BY <1>1, <1>2 DEF TypeOK, IInv, Nested, Stages
<1>4. Earlier' /\ Ordered' /\ Noted' /\ LastFirst' /\ NoneClosedYet' /\ AllClosed'
  BY <1>1, <1>2 DEF IInv, Earlier, Ordered, Noted, LastFirst, NoneClosedYet, AllClosed
<1> QED BY <1>3, <1>4 DEF IInv

LEMMA HandlerEndsStep == IInv /\ (HandlerEnds \/ Finish) => IInv'
<1> SUFFICES ASSUME IInv, HandlerEnds \/ Finish PROVE IInv'
  OBVIOUS
<1>1. /\ TypeOK /\ phase \in {"handling", "closing"} /\ phase' \in {"closing", "done"} /\ phase # "done"
      /\ UNCHANGED <<Needs, overrides, dep_cache, made, cleanups, given, resolved, broken>>
      /\ stack' = stack \/ stack' = <<>>
      /\ phase' = "done" => phase = "closing" /\ cleanups = <<>>
  BY DEF HandlerEnds, Finish, appVars, IInv
<1>2. Value' = Value /\ Frames' = Frames /\ Call' = Call
  BY <1>1 DEF Value, Frames, Call
<1>3. TypeOK' /\ Nested' /\ Stages'
  <2>1. CASE stack' = stack
    BY <1>1, <1>2, <2>1 DEF TypeOK, IInv, Nested, Stages
  <2>2. CASE stack' = <<>>
    <3>1. stack' \in Seq(Frames) /\ Len(stack') = 0
      BY <2>2
    <3> QED BY <1>1, <1>2, <3>1 DEF TypeOK, IInv, Nested, Stages
  <2> QED BY <1>1, <2>1, <2>2
<1> QED BY <1>1, <1>3, Quiet

\* The last cleanup is taken off the list, whatever comes of it.
LEMMA ClosesStep ==
    ASSUME IInv, NEW s \in {"open", "closing", "closed"}, Closes(s),
           \/ UNCHANGED <<phase, broken>> /\ s = "closed"
           \/ phase' = "done" /\ broken' = TRUE
    PROVE  IInv'
<1>0. PICK v, n : v = LastCleanup /\ n = Len(cleanups)
  OBVIOUS
<1>1. /\ TypeOK /\ phase = "closing" /\ cleanups # <<>> /\ resolved /\ phase' \in {"closing", "done"}
      /\ made' = [made EXCEPT ![v].state = s] /\ cleanups' = SubSeq(cleanups, 1, n - 1)
      /\ UNCHANGED <<Needs, overrides, stack, dep_cache, given, resolved>>
  BY <1>0 DEF Closes, appVars, IInv, Stages
<1>2. /\ cleanups \in Seq(Value) /\ n \in Nat \ {0} /\ v \in Value /\ v = cleanups[n]
      /\ DOMAIN cleanups = 1 .. n /\ \A i \in 1 .. n : cleanups[i] \in Value
  BY <1>0, <1>1 DEF TypeOK, LastCleanup
<1>3. PICK m \in Nat : m = n - 1
  BY <1>2
<1>4. /\ cleanups' \in Seq(Value) /\ Len(cleanups') = m /\ DOMAIN cleanups' = 1 .. m
      /\ \A i \in 1 .. m : cleanups'[i] = cleanups[i] /\ i \in 1 .. n /\ i < n
  <2>1. 1 \in Int /\ m \in Int /\ \A i \in 1 .. m : cleanups[i] \in Value
    BY <1>2, <1>3
  <2>2. /\ cleanups' \in Seq(Value)
        /\ Len(cleanups') = IF 1 <= m THEN m - 1 + 1 ELSE 0
        /\ \A i \in 1 .. m - 1 + 1 : cleanups'[i] = cleanups[1 + i - 1]
    BY <1>1, <1>3, <2>1, SubSeqProperties
  <2>3. \A i \in 1 .. m : i \in 1 .. m - 1 + 1 /\ 1 + i - 1 = i /\ i \in 1 .. n /\ i < n
    BY <1>2, <1>3
  <2> QED BY <2>2, <2>3
<1>5. /\ made' \in Seq(Call') /\ Value' = Value
      /\ \A u \in Value : made'[u] \in Call /\ made'[u].args = made[u].args
                          /\ made'[u].state = IF u = v THEN s ELSE made[u].state
  <2>1. s \in State
    BY DEF State
  <2>2. TypeOK /\ v \in Value /\ made' = [made EXCEPT ![v].state = s]
    BY <1>1, <1>2 DEF IInv
  <2> HIDE DEF State
  <2> QED BY <2>1, <2>2, Marked
<1>6. Frames' = Frames
  BY <1>5 DEF Frames
<1>7. TypeOK' /\ Nested' /\ Stages'
  BY <1>1, <1>4, <1>5, <1>6 DEF TypeOK, IInv, Nested, Stages
<1>8. Earlier' /\ NoneClosedYet'
  BY <1>1, <1>5 DEF IInv, Earlier, NoneClosedYet
\* It is the latest of those that are open.
<1>9. /\ \A i \in 1 .. m : cleanups[i] < v /\ made[cleanups[i]].state = "open"
      /\ made[v].state = "open" /\ v \in Nat /\ Value \subseteq Nat
      /\ \A u \in Value : made[u].state \in {"opening", "open", "closing"} =>
             made[u].state = "open" /\ (u = v \/ (u < v /\ \E i \in 1 .. m : cleanups[i] = u))
  <2>1. v \in Nat /\ Value \subseteq Nat
    BY <1>2 DEF Value
  <2>2. ASSUME NEW i \in 1 .. m
        PROVE  cleanups[i] < v /\ made[cleanups[i]].state = "open"
    <3>1. i \in DOMAIN cleanups /\ n \in DOMAIN cleanups /\ i < n
      BY <1>2, <1>4
    <3>2. cleanups[i] < cleanups[n] /\ made[cleanups[i]].state = "open"
      BY <3>1 DEF IInv, Ordered
    <3> QED BY <1>2, <3>2
  <2>3. made[v].state = "open"
    BY <1>2 DEF IInv, Ordered
  <2>4. ASSUME NEW u \in Value, made[u].state \in {"opening", "open", "closing"}
        PROVE  made[u].state = "open" /\ (u = v \/ (u < v /\ \E i \in 1 .. m : cleanups[i] = u))
    <3>1. made[u].state = "open" /\ \E i \in 1 .. n : cleanups[i] = u
      BY <1>1, <1>2, <2>4 DEF IInv, Noted
    <3>2. PICK i \in 1 .. n : cleanups[i] = u
      BY <3>1
    <3>3. CASE i = n
      <4>1. v = cleanups[n]
        BY <1>2
      <4>2. u = v
        BY <3>2, <3>3, <4>1, Zenon
      <4> QED BY <3>1, <4>2
    <3>4. CASE i # n
      <4>1. i \in 1 .. m
        BY <1>2, <1>3, <3>4
      <4>2. cleanups[i] < v
        BY <2>2, <4>1
      <4> QED BY <3>1, <3>2, <4>1, <4>2
    <3> QED BY <3>3, <3>4
  <2> QED BY <2>1, <2>2, <2>3, <2>4
<1>10. Ordered'
  <2>1. \A i, j \in 1 .. m : i < j => cleanups[i] < cleanups[j]
    BY <1>2, <1>4 DEF IInv, Ordered
  <2>2. \A i \in 1 .. m : cleanups[i] \in Value /\ cleanups[i] # v
    BY <1>2, <1>4, <1>9
  <2>3. \A i \in 1 .. m : made'[cleanups[i]].state = "open"
    BY <1>5, <1>9, <2>2
  <2> QED BY <1>4, <2>1, <2>3 DEF Ordered
<1>11. Noted'
  <2>1. ASSUME phase' # "done", NEW u \in Value, made'[u].state \in {"opening", "open", "closing"}
        PROVE  made'[u].state = "open" /\ \E i \in 1 .. m : cleanups'[i] = u
    <3>1. s = "closed" /\ u # v
      BY <1>5, <2>1
    <3> QED BY <1>4, <1>5, <1>9, <2>1, <3>1
  <2> QED BY <1>4, <1>5, <2>1 DEF Noted
<1>12. LastFirst'
  <2>1. ASSUME NEW u \in Value, NEW w \in Value,
               made'[w].state \in {"closing", "closed"}, made'[u].state \in {"opening", "open"}
        PROVE  u < w
    <3>1. made[u].state \in {"opening", "open"}
      BY <1>5, <1>9, <2>1
    <3>2. CASE w = v
      BY <1>5, <1>9, <2>1, <3>1, <3>2
    <3>3. CASE w # v
      BY <1>5, <2>1, <3>1, <3>3 DEF IInv, LastFirst
    <3> QED BY <3>2, <3>3
  <2> QED BY <1>5, <2>1 DEF LastFirst
<1>13. AllClosed'
  BY <1>1 DEF AllClosed
<1> QED BY <1>7, <1>8, <1>10, <1>11, <1>12, <1>13 DEF IInv

LEMMA CleanupStep == IInv /\ (Cleanup \/ CleanupFails \/ CancelledInClose) => IInv'
<1> SUFFICES ASSUME IInv, Cleanup \/ CleanupFails \/ CancelledInClose PROVE IInv'
  OBVIOUS
<1>1. PICK s \in {"open", "closing", "closed"} :
          /\ Closes(s)
          /\ \/ UNCHANGED <<phase, broken>> /\ s = "closed"
             \/ phase' = "done" /\ broken' = TRUE
  BY DEF Cleanup, CleanupFails, CancelledInClose
<1> QED BY <1>1, ClosesStep

-----------------------------------------------------------------------------
(* The theorems.                                                           *)

\* The inductive invariant holds of every request.
THEOREM Inductive == Spec => []IInv
<1>1. Init => IInv
  BY InitIInv
<1>2. IInv /\ [Next]_vars => IInv'
  <2> SUFFICES ASSUME IInv, [Next]_vars PROVE IInv'
    OBVIOUS
  <2>1. CASE Begin
    BY <2>1, BeginStep
  <2>2. CASE Reuse
    BY <2>2, ReuseStep
  <2>3. CASE Descend
    BY <2>3, DescendStep
  <2>4. CASE Return
    BY <2>4, ReturnStep
  <2>5. CASE ResolutionFails
    BY <2>5, ResolutionFailsStep
  <2>6. CASE Forbidden \/ CancelledInNext
    BY <2>6, ForbiddenStep
  <2>7. CASE OpensLate \/ ClosesLate
    BY <2>7, LateStep
  <2>8. CASE Handle
    BY <2>8, HandleStep
  <2>9. CASE HandlerEnds \/ Finish
    BY <2>9, HandlerEndsStep
  <2>10. CASE Cleanup \/ CleanupFails \/ CancelledInClose
    BY <2>10, CleanupStep
  <2>11. CASE UNCHANGED vars
    <3>1. /\ UNCHANGED <<phase, Needs, overrides, stack, dep_cache, made, cleanups, given, resolved, broken>>
          /\ Value' = Value /\ Frames' = Frames /\ Call' = Call
      BY <2>11 DEF vars, appVars, Value, Frames, Call
    <3>2. TypeOK' /\ Nested' /\ Earlier' /\ Ordered'
      BY <3>1 DEF IInv, TypeOK, Nested, Earlier, Ordered
    <3>3. Noted' /\ LastFirst' /\ NoneClosedYet' /\ Stages' /\ AllClosed'
      BY <3>1 DEF IInv, Noted, LastFirst, NoneClosedYet, Stages, AllClosed
    <3> QED BY <3>2, <3>3 DEF IInv
  <2> QED
    BY <2>1, <2>2, <2>3, <2>4, <2>5, <2>6, <2>7, <2>8, <2>9, <2>10, <2>11 DEF Next
<1> QED BY <1>1, <1>2, PTL DEF Spec

\* Every variable keeps its type; the cache and the list of cleanups hold values
\* that were made in this request.
THEOREM TypeCorrect == Spec => []TypeOK
<1>1. IInv => TypeOK
  BY DEF IInv
<1> QED BY <1>1, Inductive, PTL

\* No generator is closed while the handler runs, or while one that was made
\* from its value is open: reversed(cleanups) respects the graph, whatever the
\* cache did to the order of calls (app.py:833-834).
THEOREM ClosedInOrder == Spec => []ClosedAfterUsers
<1>1. IInv => ClosedAfterUsers
  <2> SUFFICES ASSUME IInv, NEW v \in Value, made[v].state \in {"closing", "closed"}
               PROVE  /\ phase # "handling"
                      /\ \A u \in Value : v \in made[u].args => made[u].state \notin {"opening", "open"}
    BY DEF ClosedAfterUsers
  <2>1. phase # "handling"
    BY DEF IInv, NoneClosedYet
  <2>2. ASSUME NEW u \in Value, v \in made[u].args PROVE made[u].state \notin {"opening", "open"}
    <3>1. v \in 1 .. u - 1 /\ u \in Nat /\ v \in Nat
      BY <2>2 DEF IInv, Earlier, Value
    <3>2. ~(u < v)
      BY <3>1
    <3> QED BY <3>2 DEF IInv, LastFirst
  <2> QED BY <2>1, <2>2
<1> QED BY <1>1, Inductive, PTL

\* When a request goes on after a resolution that ended well, every generator has
\* been closed, unless a cleanup failed or was cancelled (app.py:832-834).
THEOREM NothingForgotten == Spec => []AllClosed
<1>1. IInv => AllClosed
  BY DEF IInv
<1> QED BY <1>1, Inductive, PTL
-----------------------------------------------------------------------------
(* Sharing.  A call of resolve_callable cannot end while one of the same    *)
(* callable waits for it further out: it meets the same demand again        *)
(* (NoOvertaking), so no key is given a value twice (Pending).              *)

\* Each call is for the demand its caller is at.
Chained ==
    \A i \in 1 .. Len(stack) - 1 :
        LET d == Needs[stack[i].fn][stack[i].at + 1] IN
        /\ stack[i + 1].key = overrides[d.to] /\ stack[i + 1].fn = overrides[overrides[d.to]]
        /\ stack[i + 1].cache = d.cache

\* Of two calls of one callable the inner one has not read further.
NoOvertaking ==
    \A i, j \in 1 .. Len(stack) : i < j /\ stack[i].fn = stack[j].fn => stack[j].at <= stack[i].at

\* What is under way for the cache is not there yet.
Pending == \A i \in 2 .. Len(stack) : stack[i].cache => stack[i].key \notin DOMAIN dep_cache

\* What was given is what the cache holds.
FromCache ==
    \A g \in given : overrides[g.to] \in DOMAIN dep_cache /\ g.value = dep_cache[overrides[g.to]]

\* What every demand allows to cache is cached when it is made.
Idempotent == \A d \in Dep : overrides[overrides[d]] = overrides[d]
Kept(v) ==
    AlwaysCached(made[v].fn) => made[v].fn \in DOMAIN dep_cache /\ dep_cache[made[v].fn] = v
AllKept == Idempotent /\ phase # "done" => \A v \in Value : Kept(v)

SInv == Chained /\ NoOvertaking /\ Pending /\ FromCache /\ AllKept /\ OncePerRequest

\* What a step reads of a frame is what its call was made with.
LEMMA FrameReads ==
    ASSUME NEW f \in Frames, NEW v
    PROVE  /\ Bind(f, v).fn = f.fn /\ Bind(f, v).key = f.key /\ Bind(f, v).cache = f.cache
           /\ Bind(f, v).at = f.at + 1 /\ f.at \in Nat /\ f.cache \in BOOLEAN
<1>1. DOMAIN f = {"fn", "key", "cache", "at", "args"} /\ f.at \in Nat /\ f.cache \in BOOLEAN
  BY DEF Frames
<1>2. PICK a : Bind(f, v) = [f EXCEPT !.at = f.at + 1, !.args = a]
  BY DEF Bind
<1> QED BY <1>1, <1>2

LEMMA Frozen ==
    ASSUME IInv
    PROVE  /\ Len(stack) \in Nat /\ DOMAIN stack = 1 .. Len(stack)
           /\ \A i \in 1 .. Len(stack) : stack[i] \in Frames /\ stack[i].at \in Nat
<1>1. stack \in Seq(Frames)
  BY DEF IInv, TypeOK
<1>2. \A i \in 1 .. Len(stack) : stack[i] \in Frames
  BY <1>1
<1>3. \A i \in 1 .. Len(stack) : stack[i].at \in Nat
  BY <1>2 DEF Frames
<1>4. Len(stack) \in Nat /\ DOMAIN stack = 1 .. Len(stack)
  BY <1>1
<1> QED BY <1>2, <1>3, <1>4

\* Whatever ends is the only call of its callable.
LEMMA EndsAlone ==
    ASSUME IInv, SInv, Callable
    PROVE  \A i \in 1 .. Len(stack) - 1 : stack[i].fn # Top.fn
<1> SUFFICES ASSUME NEW i \in 1 .. Len(stack) - 1, stack[i].fn = Top.fn PROVE FALSE
  OBVIOUS
<1>1. /\ Len(stack) \in Nat /\ i \in 1 .. Len(stack) /\ Len(stack) \in 1 .. Len(stack) /\ i < Len(stack)
      /\ Top = stack[Len(stack)]
  BY Frozen DEF Top
<1>2. Top.at <= stack[i].at
  BY <1>1 DEF SInv, NoOvertaking
<1>3. stack[i].at < Len(Needs[stack[i].fn])
  BY DEF IInv, Nested
<1>4. Top.at = Len(Needs[Top.fn])
  BY DEF Callable
<1>5. stack[i].at \in Nat /\ Top.at \in Nat
  BY <1>1, Frozen
<1> QED BY <1>2, <1>3, <1>4, <1>5

\* The key, the callable and the sharing of a call are those of its demand.
LEMMA CalledFor ==
    ASSUME IInv, SInv, NEW j \in 2 .. Len(stack)
    PROVE  LET f == stack[j - 1]
               d == Needs[f.fn][f.at + 1] IN
           /\ stack[j].key = overrides[d.to] /\ stack[j].fn = overrides[stack[j].key]
           /\ stack[j].cache = d.cache
           /\ f.fn \in DOMAIN Needs /\ f.at + 1 \in DOMAIN Needs[f.fn] /\ d.to \in Dep
<1>0. PICK n \in Nat : n = Len(stack)
  BY Frozen
<1>1. j - 1 \in 1 .. Len(stack) - 1 /\ (j - 1) + 1 = j /\ j - 1 \in 1 .. Len(stack)
  <2>1. j \in 2 .. n
    BY <1>0
  <2>2. j - 1 \in 1 .. n - 1 /\ (j - 1) + 1 = j /\ j - 1 \in 1 .. n
    BY <2>1
  <2> QED BY <1>0, <2>2
<1>2. PICK f \in Frames : f = stack[j - 1]
  BY <1>1, Frozen
<1>3. f.at < Len(Needs[f.fn])
  BY <1>1, <1>2 DEF IInv, Nested
<1>4. Needs[f.fn][f.at + 1].to \in Dep
  BY <1>2, <1>3, DemandTypes DEF IInv, Demand
<1>5. f.fn \in DOMAIN Needs /\ f.at + 1 \in DOMAIN Needs[f.fn]
  <2>1. f.fn \in Dep \cup {Endpoint} /\ f.at \in Nat
    BY DEF Frames
  <2>2. DOMAIN Needs = Dep \cup {Endpoint} /\ Needs[f.fn] \in Seq(Demand)
    BY <2>1 DEF IInv, TypeOK
  <2>3. DOMAIN Needs[f.fn] = 1 .. Len(Needs[f.fn]) /\ Len(Needs[f.fn]) \in Nat
    BY <2>2
  <2> QED BY <1>3, <2>1, <2>2, <2>3
<1>6. /\ stack[j].key = overrides[Needs[f.fn][f.at + 1].to]
      /\ stack[j].fn = overrides[overrides[Needs[f.fn][f.at + 1].to]]
      /\ stack[j].cache = Needs[f.fn][f.at + 1].cache
  BY <1>1, <1>2 DEF SInv, Chained
<1> QED BY <1>2, <1>4, <1>5, <1>6

\* The stack is cut back to n calls, the innermost of which has read on.
LEMMA ReadOn ==
    ASSUME IInv, SInv, NEW n \in 1 .. Len(stack), UNCHANGED appVars,
           Len(stack') = n, \A i \in 1 .. n - 1 : stack'[i] = stack[i],
           stack'[n].fn = stack[n].fn, stack'[n].key = stack[n].key, stack'[n].cache = stack[n].cache,
           stack'[n].at = stack[n].at + 1,
           \A i \in 1 .. n - 1 : stack[i].fn = stack[n].fn => stack[n].at # stack[i].at
    PROVE  Chained' /\ NoOvertaking'
<1>1. Len(stack) \in Nat /\ n \in Nat /\ \A i \in 1 .. Len(stack) : stack[i].at \in Nat
  BY Frozen
<1>2. \A i \in 1 .. n - 1 : i \in 1 .. Len(stack) - 1 /\ i \in 1 .. Len(stack) /\ i < n
  BY <1>1
<1>3. \A i \in 1 .. n : /\ stack'[i].fn = stack[i].fn /\ stack'[i].key = stack[i].key
                        /\ stack'[i].cache = stack[i].cache
  <2>1. \A i \in 1 .. n : i = n \/ i \in 1 .. n - 1
    BY <1>1
  <2> QED BY <2>1
<1>4. Chained'
  <2> SUFFICES ASSUME NEW i \in 1 .. n - 1
               PROVE  LET d == Needs[stack'[i].fn][stack'[i].at + 1] IN
                      /\ stack'[i + 1].key = overrides[d.to]
                      /\ stack'[i + 1].fn = overrides[overrides[d.to]]
                      /\ stack'[i + 1].cache = d.cache
    BY DEF Chained, appVars
  <2>1. stack'[i] = stack[i] /\ i + 1 \in 1 .. n /\ i \in 1 .. Len(stack) - 1
    BY <1>1, <1>2
  <2>2. /\ stack'[i + 1].fn = stack[i + 1].fn /\ stack'[i + 1].key = stack[i + 1].key
        /\ stack'[i + 1].cache = stack[i + 1].cache
    BY <1>3, <2>1
  <2>3. LET d == Needs[stack[i].fn][stack[i].at + 1] IN
        /\ stack[i + 1].key = overrides[d.to] /\ stack[i + 1].fn = overrides[overrides[d.to]]
        /\ stack[i + 1].cache = d.cache
    BY <2>1 DEF SInv, Chained
  <2> QED BY <2>1, <2>2, <2>3
<1>5. NoOvertaking'
  <2> SUFFICES ASSUME NEW i \in 1 .. n, NEW j \in 1 .. n, i < j, stack'[i].fn = stack'[j].fn
               PROVE  stack'[j].at <= stack'[i].at
    BY DEF NoOvertaking
  <2>1. /\ i \in 1 .. n - 1 /\ i \in 1 .. Len(stack) /\ j \in 1 .. Len(stack)
        /\ stack[i].fn = stack[j].fn /\ stack'[i] = stack[i]
    BY <1>1, <1>3
  <2>2. stack[j].at <= stack[i].at /\ stack[i].at \in Nat /\ stack[j].at \in Nat
    BY <1>1, <2>1 DEF SInv, NoOvertaking
  <2>3. CASE j = n
    <3>1. stack[n].at # stack[i].at
      BY <2>1, <2>3
    <3> QED BY <2>1, <2>2, <2>3, <3>1
  <2>4. CASE j # n
    BY <1>1, <2>1, <2>2, <2>4
  <2> QED BY <2>3, <2>4
<1> QED BY <1>4, <1>5

LEMMA SameDemands ==
    ASSUME UNCHANGED appVars
    PROVE  (Idempotent' => Idempotent) /\ \A f : AlwaysCached(f)' => AlwaysCached(f)
  BY DEF appVars, Idempotent, AlwaysCached

\* Nothing is made or cached; what is under way goes on or is given up.
LEMMA NothingMade ==
    ASSUME IInv, SInv, UNCHANGED <<appVars, dep_cache, given>>, stack' = stack \/ stack' = <<>>,
           phase' # "done" => phase # "done",
           Value' = Value, \A v \in Value : made'[v].fn = made[v].fn
    PROVE  SInv'
<1>1. Chained' /\ NoOvertaking' /\ Pending'
  <2>1. CASE stack' = stack
    BY <2>1 DEF SInv, Chained, NoOvertaking, Pending, appVars
  <2>2. CASE stack' = <<>>
    <3>1. Len(stack') = 0
      BY <2>2
    <3> QED BY <3>1 DEF Chained, NoOvertaking, Pending
  <2> QED BY <2>1, <2>2
<1>2. FromCache'
  BY DEF SInv, FromCache, appVars
<1>3. AllKept'
  BY SameDemands DEF SInv, AllKept, Kept
<1>4. OncePerRequest'
  <2>1. Idempotent' => Idempotent
    BY SameDemands
  <2> SUFFICES ASSUME Idempotent', NEW u \in Value, NEW v \in Value,
                      made'[u].fn = made'[v].fn, AlwaysCached(made[u].fn)'
               PROVE  u = v
    BY DEF OncePerRequest, Idempotent
  <2>2. AlwaysCached(made[u].fn)
    <3>1. made'[u].fn = made[u].fn
      OBVIOUS
    <3> QED BY <3>1 DEF AlwaysCached, appVars
  <2> QED BY <2>1, <2>2 DEF SInv, OncePerRequest, Idempotent
<1> QED BY <1>1, <1>2, <1>3, <1>4 DEF SInv

LEMMA ShareOther ==
    ASSUME IInv, SInv,
           \/ ResolutionFails \/ OpensLate \/ ClosesLate \/ Handle \/ HandlerEnds \/ Finish
           \/ Cleanup \/ CleanupFails \/ CancelledInClose
    PROVE  SInv'
<1>1. UNCHANGED <<appVars, dep_cache, given>> /\ stack' \in {stack, <<>>}
  BY DEF ResolutionFails, Abandon, OpensLate, ClosesLate, Handle, HandlerEnds, Finish,
         Cleanup, CleanupFails, CancelledInClose, Closes
<1>2. phase' # "done" => phase # "done"
  BY DEF ResolutionFails, Abandon, OpensLate, ClosesLate, Handle, HandlerEnds, Finish,
         Cleanup, CleanupFails, CancelledInClose, Closes
<1>3. \/ UNCHANGED made
      \/ \E v \in Value, s \in State : made' = [made EXCEPT ![v].state = s]
  <2>1. ASSUME NEW s, Closes(s) PROVE LastCleanup \in Value
    <3>1. cleanups \in Seq(Value) /\ cleanups # <<>>
      BY <2>1 DEF IInv, TypeOK, Closes
    <3> QED BY <3>1 DEF LastCleanup
  <2> QED BY <2>1 DEF ResolutionFails, OpensLate, ClosesLate, Handle, HandlerEnds, Finish,
                       Cleanup, CleanupFails, CancelledInClose, Closes, State
<1>4. Value' = Value /\ \A v \in Value : made'[v].fn = made[v].fn
  <2>1. CASE UNCHANGED made
    BY <2>1 DEF Value
  <2>2. ASSUME NEW v \in Value, NEW s \in State, made' = [made EXCEPT ![v].state = s]
        PROVE  (Value' = Value) /\ (\A u \in Value : made'[u].fn = made[u].fn)
    <3>1. TypeOK /\ Value' = Value
      <4> HIDE DEF State
      <4> QED BY <2>2, Marked DEF IInv
    <3>2. DOMAIN made = Value /\ \A u \in Value : made[u] \in Call
      BY <3>1 DEF TypeOK, Value
    <3>3. \A u \in Value : DOMAIN made[u] = {"fn", "args", "state"}
      BY <3>2 DEF Call
    <3> QED BY <2>2, <3>1, <3>2, <3>3
  <2> QED BY <1>3, <2>1, <2>2
<1> QED BY <1>1, <1>2, <1>4, NothingMade

LEMMA ShareBegin == ASSUME IInv, SInv, Begin PROVE SInv'
<1>1. Len(stack') = 1
  BY DEF Begin
<1>2. Chained' /\ NoOvertaking' /\ Pending'
  BY <1>1 DEF Chained, NoOvertaking, Pending
<1>3. UNCHANGED <<Needs, overrides, dep_cache, made, given>> /\ Value' = Value /\ phase # "done"
  BY DEF Begin, appVars, Value
<1>4. FromCache' /\ AllKept' /\ OncePerRequest'
  BY <1>3 DEF SInv, FromCache, AllKept, Kept, Idempotent, AlwaysCached, OncePerRequest
<1> QED BY <1>2, <1>4 DEF SInv

\* A demand that finds its value is not one a call further out waits for.
LEMMA ShareReuse == ASSUME IInv, SInv, Reuse PROVE SInv'
<1>0. stack # <<>> /\ TypeOK
  BY WantedTypes DEF Reuse, IInv
<1>1. PICK n \in Nat \ {0} : n = Len(stack)
  BY <1>0, Innermost
<1>2. /\ Top \in Frames /\ Below \in Seq(Frames) /\ Len(Below) = n - 1 /\ Top = stack[n]
      /\ \A i \in 1 .. n - 1 : Below[i] = stack[i]
  BY <1>0, <1>1, Innermost
<1>3. PICK w : w = Bind(Top, dep_cache[Key])
  OBVIOUS
<1>4. w.fn = Top.fn /\ w.key = Top.key /\ w.cache = Top.cache /\ w.at = Top.at + 1
  BY <1>2, <1>3, FrameReads
<1>5. stack' = Append(Below, w) /\ UNCHANGED <<phase, appVars, dep_cache, made>>
  BY <1>3 DEF Reuse
<1>6. Len(stack') = n /\ stack'[n] = w /\ \A i \in 1 .. n - 1 : stack'[i] = stack[i]
  BY <1>2, <1>5
<1>7. ASSUME NEW i \in 1 .. n - 1, stack[i].fn = stack[n].fn, stack[n].at = stack[i].at
      PROVE  FALSE
  <2>1. i + 1 \in 2 .. Len(stack) /\ (i + 1) - 1 = i
    BY <1>1
  <2>2. stack[i + 1].key = Key /\ stack[i + 1].cache = Wanted.cache
    BY <1>2, <1>7, <2>1, CalledFor DEF Key, Wanted
  <2>3. Wanted.cache /\ Key \in DOMAIN dep_cache
    BY DEF Reuse
  <2> QED BY <2>1, <2>2, <2>3 DEF SInv, Pending
<1>8. Chained' /\ NoOvertaking'
  BY <1>1, <1>2, <1>4, <1>5, <1>6, <1>7, ReadOn
<1>9. Pending'
  <2>1. \A i \in 2 .. n : stack'[i].key = stack[i].key /\ stack'[i].cache = stack[i].cache
    <3>1. \A i \in 2 .. n : i = n \/ i \in 1 .. n - 1
      BY <1>1
    <3> QED BY <1>2, <1>4, <1>6, <3>1
  <2> QED BY <1>1, <1>5, <1>6, <2>1 DEF SInv, Pending
<1>10. FromCache'
  <2>1. given' = given \cup {[to |-> Wanted.to, value |-> dep_cache[overrides[Wanted.to]]]}
        /\ overrides[Wanted.to] \in DOMAIN dep_cache
    BY DEF Reuse, Give, Key
  <2> QED BY <1>5, <2>1 DEF SInv, FromCache, appVars
<1>11. AllKept' /\ OncePerRequest'
  BY <1>5 DEF SInv, AllKept, Kept, Idempotent, AlwaysCached, OncePerRequest, appVars, Value
<1> QED BY <1>8, <1>9, <1>10, <1>11 DEF SInv

LEMMA ShareDescend == ASSUME IInv, SInv, Descend PROVE SInv'
<1>1. /\ stack # <<>> /\ Wanted.cache \in BOOLEAN /\ Key \in Dep
      /\ UNCHANGED <<phase, Needs, overrides, dep_cache, made, given>>
  BY WantedTypes DEF Descend, appVars
<1>2. PICK n \in Nat \ {0} : n = Len(stack)
  BY <1>1, Innermost DEF IInv
<1>3. PICK w : w = Frame(overrides[Key], Key, Wanted.cache)
  OBVIOUS
<1>4. w.fn = overrides[Key] /\ w.key = Key /\ w.cache = Wanted.cache /\ w.at = 0
  BY <1>3 DEF Frame
<1>5. Len(stack') = n + 1 /\ stack'[n + 1] = w /\ \A i \in 1 .. n : stack'[i] = stack[i]
  <2>1. stack \in Seq(Frames) /\ stack' = Append(stack, w)
    BY <1>3 DEF Descend, IInv, TypeOK
  <2> QED BY <1>2, <2>1
<1>6. \A i \in 1 .. n : stack[i].at \in Nat
  BY <1>2, Frozen
<1>7. \A i \in 1 .. n + 1 : i = n + 1 \/ i \in 1 .. n
  OBVIOUS
<1>8. Chained'
  <2>0. Len(stack') - 1 = n
    BY <1>5
  <2> SUFFICES ASSUME NEW i \in 1 .. n
               PROVE  LET d == Needs[stack'[i].fn][stack'[i].at + 1] IN
                      /\ stack'[i + 1].key = overrides[d.to]
                      /\ stack'[i + 1].fn = overrides[overrides[d.to]]
                      /\ stack'[i + 1].cache = d.cache
    BY <1>1, <2>0 DEF Chained
  <2>1. CASE i = n
    BY <1>2, <1>4, <1>5, <2>1 DEF Key, Wanted, Top
  <2>2. CASE i # n
    <3>1. i \in 1 .. Len(stack) - 1 /\ i + 1 \in 1 .. n
      BY <1>2, <2>2
    <3> QED BY <1>5, <3>1 DEF SInv, Chained
  <2> QED BY <2>1, <2>2
<1>9. NoOvertaking'
  <2> SUFFICES ASSUME NEW i \in 1 .. n + 1, NEW j \in 1 .. n + 1, i < j, stack'[i].fn = stack'[j].fn
               PROVE  stack'[j].at <= stack'[i].at
    BY <1>5 DEF NoOvertaking
  <2>1. i \in 1 .. n /\ stack'[i] = stack[i] /\ stack[i].at \in Nat
    BY <1>5, <1>6
  <2>2. CASE j = n + 1
    BY <1>4, <1>5, <2>1, <2>2
  <2>3. CASE j # n + 1
    <3>1. j \in 1 .. n
      BY <2>3
    <3> QED BY <1>2, <1>5, <2>1, <3>1 DEF SInv, NoOvertaking
  <2> QED BY <2>2, <2>3
<1>10. Pending'
  <2> SUFFICES ASSUME NEW i \in 2 .. n + 1, stack'[i].cache
               PROVE  stack'[i].key \notin DOMAIN dep_cache
    BY <1>1, <1>5 DEF Pending
  <2>1. CASE i = n + 1
    BY <1>4, <1>5, <2>1 DEF Descend
  <2>2. CASE i # n + 1
    <3>1. i \in 2 .. n /\ i \in 1 .. n
      BY <2>2
    <3> QED BY <1>2, <1>5, <3>1 DEF SInv, Pending
  <2> QED BY <2>1, <2>2
<1>11. FromCache' /\ AllKept' /\ OncePerRequest'
  BY <1>1 DEF SInv, FromCache, AllKept, Kept, Idempotent, AlwaysCached, OncePerRequest, Value
<1> QED BY <1>8, <1>9, <1>10, <1>11 DEF SInv

\* A call whose callable every demand allows to cache is for the cache, under
\* the name of its callable, and nobody made its value before.
LEMMA FirstOfItsKind ==
    ASSUME IInv, SInv, Callable, Idempotent, AlwaysCached(Top.fn)
    PROVE  /\ Top.cache /\ Top.key = Top.fn /\ Top.fn \notin DOMAIN dep_cache
           /\ \A v \in Value : made[v].fn # Top.fn
<1>1. PICK n \in Nat : n = Len(stack) /\ n > 1
  BY Frozen DEF Callable
<1>2. n \in 2 .. Len(stack) /\ Top = stack[n]
  BY <1>1 DEF Top
<1>3. PICK f : f = stack[n - 1]
  OBVIOUS
<1>4. PICK d : d = Needs[f.fn][f.at + 1]
  OBVIOUS
<1>5. /\ Top.key = overrides[d.to] /\ Top.fn = overrides[Top.key] /\ Top.cache = d.cache /\ d.to \in Dep
      /\ f.fn \in DOMAIN Needs /\ f.at + 1 \in DOMAIN Needs[f.fn]
  BY <1>2, <1>3, <1>4, CalledFor
<1>6. Top.cache
  BY <1>4, <1>5 DEF AlwaysCached
<1>7. Top.key = Top.fn
  BY <1>5 DEF Idempotent
<1>8. Top.fn \notin DOMAIN dep_cache
  BY <1>2, <1>6, <1>7 DEF SInv, Pending
<1>9. \A v \in Value : made[v].fn # Top.fn
  BY <1>8 DEF SInv, AllKept, Kept, Callable
<1> QED BY <1>6, <1>7, <1>8, <1>9

\* What a call that is logged adds to the values.
LEMMA LoggedCall ==
    ASSUME IInv, Callable, NEW s \in State, Log(s)
    PROVE  /\ Value' = Value \cup {Len(made) + 1} /\ Len(made) + 1 \notin Value
           /\ made'[Len(made) + 1].fn = Top.fn
           /\ \A v \in Value : made'[v].fn = made[v].fn
<1>1. Top.fn \in Dep /\ Top.args \in SUBSET Value /\ TypeOK
  BY CallTypes DEF IInv
<1>2. PICK f \in Dep : f = Top.fn
  BY <1>1
<1>3. PICK A \in SUBSET Value : A = Top.args
  BY <1>1
<1>4. made' = Append(made, [fn |-> f, args |-> A, state |-> s])
  BY <1>2, <1>3 DEF Log
<1> HIDE DEF State
<1>5. /\ Value' = Value \cup {Len(made) + 1} /\ Len(made) + 1 \notin Value
      /\ \A v \in Value : made'[v] = made[v]
      /\ made'[Len(made) + 1] = [fn |-> f, args |-> A, state |-> s]
  BY <1>1, <1>4, Logged
<1> QED BY <1>2, <1>5

\* A value that never comes, or is forbidden, is the last of the request.
LEMMA ShareLost == ASSUME IInv, SInv, Forbidden \/ CancelledInNext PROVE SInv'
<1>1. /\ Callable /\ phase' = "done" /\ stack' = <<>> /\ UNCHANGED <<appVars, dep_cache, given>>
      /\ \E s \in State : Log(s)
  BY DEF Forbidden, CancelledInNext, Abandon, State
<1>2. Len(stack') = 0
  BY <1>1
<1>3. Chained' /\ NoOvertaking' /\ Pending'
  BY <1>2 DEF Chained, NoOvertaking, Pending
<1>4. FromCache'
  BY <1>1 DEF SInv, FromCache, appVars
<1>5. AllKept'
  BY <1>1 DEF AllKept
<1>6. PICK n : n = Len(made) + 1
  OBVIOUS
<1>7. /\ Value' = Value \cup {n} /\ n \notin Value /\ made'[n].fn = Top.fn
      /\ \A v \in Value : made'[v].fn = made[v].fn
  BY <1>1, <1>6, LoggedCall
<1>8. OncePerRequest'
  <2> SUFFICES ASSUME Idempotent', NEW u \in Value', NEW v \in Value',
                      made'[u].fn = made'[v].fn, NEW f, f = made'[u].fn, AlwaysCached(f)'
               PROVE  u = v
    BY DEF OncePerRequest, Idempotent, AlwaysCached
  <2>1. Idempotent /\ AlwaysCached(f)
    BY <1>1, SameDemands
  <2>2. CASE u \in Value /\ v \in Value
    BY <1>7, <2>1, <2>2 DEF SInv, OncePerRequest, Idempotent
  <2>3. CASE f = Top.fn
    <3>1. \A w \in Value : made'[w].fn # Top.fn
      BY <1>1, <1>7, <2>1, <2>3, FirstOfItsKind
    <3> QED BY <1>7, <2>3, <3>1
  <2> QED BY <1>7, <2>2, <2>3
<1> QED BY <1>3, <1>4, <1>5, <1>8 DEF SInv

LEMMA ShareReturn == ASSUME IInv, SInv, Return PROVE SInv'
<1>1. /\ Callable /\ UNCHANGED <<phase, appVars>> /\ phase = "resolving" /\ TypeOK /\ stack # <<>>
      /\ \E s \in State : Log(s)
  BY CallTypes DEF Return, Callable, IInv, State
<1>2. PICK n \in Nat \ {0} : n = Len(stack) - 1 /\ n + 1 = Len(stack)
  <2>1. Len(stack) \in Nat /\ Len(stack) > 1
    BY <1>1, Frozen DEF Callable
  <2>2. Len(stack) - 1 \in Nat \ {0} /\ (Len(stack) - 1) + 1 = Len(stack)
    BY <2>1
  <2> QED BY <2>2
<1>3. PICK v : v = Len(made) + 1
  OBVIOUS
<1>4. /\ Value' = Value \cup {v} /\ v \notin Value /\ made'[v].fn = Top.fn
      /\ \A u \in Value : made'[u].fn = made[u].fn
  BY <1>1, <1>3, LoggedCall
<1>5. /\ Below \in Seq(Frames) /\ Len(Below) = n /\ Top = stack[n + 1]
      /\ \A i \in 1 .. n : Below[i] = stack[i] /\ stack[i] \in Frames
  BY <1>1, <1>2, Innermost
<1>6. PICK w : w = Bind(stack[n], v)
  OBVIOUS
<1>7. /\ w.fn = stack[n].fn /\ w.key = stack[n].key /\ w.cache = stack[n].cache
      /\ w.at = stack[n].at + 1
  BY <1>5, <1>6, FrameReads
<1>8. Len(stack') = n /\ stack'[n] = w /\ \A i \in 1 .. n - 1 : stack'[i] = stack[i]
  <2>1. stack' = Append(SubSeq(Below, 1, n - 1), w)
    <3>1. stack' = Append(SubSeq(Below, 1, Len(Below) - 1), Bind(Below[Len(Below)], Len(made) + 1))
      BY DEF Return
    <3>2. Below[n] = stack[n]
      BY <1>5
    <3> QED BY <1>3, <1>5, <1>6, <3>1, <3>2
  <2>2. PICK m \in Nat : m = n - 1
    BY <1>2, SMTT(60)
  <2>3. PICK b : b = SubSeq(Below, 1, m)
    OBVIOUS
  <2>4. /\ b \in Seq(Frames) /\ Len(b) = m /\ \A i \in 1 .. m : b[i] = stack[i]
    <3>1. 1 \in Int /\ m \in Int /\ \A i \in 1 .. m : Below[i] \in Frames
      BY <1>2, <1>5, <2>2
    <3>2. /\ b \in Seq(Frames)
          /\ Len(b) = IF 1 <= m THEN m - 1 + 1 ELSE 0
          /\ \A i \in 1 .. m - 1 + 1 : b[i] = Below[1 + i - 1]
      BY <2>3, <3>1, SubSeqProperties
    <3>3. \A i \in 1 .. m : i \in 1 .. m - 1 + 1 /\ 1 + i - 1 = i /\ i \in 1 .. n
      BY <2>2
    <3>4. Len(b) = m
      BY <3>2
    <3> QED BY <1>5, <3>2, <3>3, <3>4
  <2>5. stack' = Append(b, w)
    BY <2>1, <2>2, <2>3
  <2> QED BY <2>2, <2>4, <2>5
\* The demand that is answered, and what becomes of the cache.
<1>9. PICK d : d = Needs[stack[n].fn][stack[n].at + 1]
  OBVIOUS
<1>10. /\ Top.key = overrides[d.to] /\ Top.fn = overrides[Top.key] /\ Top.cache = d.cache
       /\ Top.cache \in BOOLEAN
  <2>1. n + 1 \in 2 .. Len(stack) /\ (n + 1) - 1 = n
    BY <1>2
  <2>2. Top \in Frames /\ Top.cache \in BOOLEAN
    BY <1>1, Innermost, FrameReads
  <2>3. /\ stack[n + 1].key = overrides[d.to] /\ stack[n + 1].fn = overrides[stack[n + 1].key]
        /\ stack[n + 1].cache = d.cache
    BY <1>9, <2>1, CalledFor
  <2> QED BY <1>5, <2>2, <2>3
<1>11. /\ Top.cache => /\ dep_cache' = [k \in DOMAIN dep_cache \cup {Top.key} |->
                                          IF k = Top.key THEN v ELSE dep_cache[k]]
                       /\ given' = given \cup {[to |-> d.to, value |-> v]}
       /\ ~Top.cache => UNCHANGED <<dep_cache, given>>
  <2>1. Below[Len(Below)] = stack[n]
    BY <1>5
  <2> QED BY <1>3, <1>9, <2>1 DEF Return
<1>12. Top.cache => Top.key \notin DOMAIN dep_cache
  <2>1. n + 1 \in 2 .. Len(stack)
    BY <1>2
  <2> QED BY <1>5, <2>1 DEF SInv, Pending
<1>13. \A i \in 1 .. n : stack[i].fn # Top.fn
  BY <1>1, <1>2, EndsAlone
<1>14. Chained' /\ NoOvertaking'
  <2>1. ASSUME NEW i \in 1 .. n - 1, stack[i].fn = stack[n].fn, stack[n].at = stack[i].at
        PROVE  FALSE
    <3>1. i + 1 \in 1 .. n /\ i + 1 \in 2 .. Len(stack) /\ (i + 1) - 1 = i
      BY <1>2
    <3>2. stack[i + 1].key = overrides[d.to] /\ stack[i + 1].fn = overrides[stack[i + 1].key]
      BY <1>9, <2>1, <3>1, CalledFor
    <3> QED BY <1>10, <1>13, <3>1, <3>2
  <2>2. n \in 1 .. Len(stack)
    BY <1>2
  <2> QED BY <1>1, <1>7, <1>8, <2>1, <2>2, ReadOn
<1>15. Pending'
  <2>1. ASSUME NEW i \in 2 .. n
        PROVE  /\ stack'[i].key = stack[i].key /\ stack'[i].cache = stack[i].cache
               /\ stack[i].key # Top.key /\ i \in 2 .. Len(stack)
    <3>1. i \in 2 .. Len(stack) /\ i \in 1 .. n /\ (i = n \/ i \in 1 .. n - 1)
      BY <1>2
    <3>2. stack[i].fn = overrides[stack[i].key]
      BY <3>1, CalledFor
    <3> QED BY <1>7, <1>8, <1>10, <1>13, <3>1, <3>2
  <2>2. DOMAIN dep_cache' \subseteq DOMAIN dep_cache \cup {Top.key}
    BY <1>10, <1>11
  <2> QED BY <1>8, <2>1, <2>2 DEF SInv, Pending
<1>16. \A k \in DOMAIN dep_cache : k \in DOMAIN dep_cache' /\ dep_cache'[k] = dep_cache[k]
  BY <1>10, <1>11, <1>12
<1>17. FromCache'
  <2>1. \A g \in given : /\ overrides[g.to] \in DOMAIN dep_cache'
                         /\ g.value = dep_cache'[overrides[g.to]]
    BY <1>16 DEF SInv, FromCache
  <2>2. CASE Top.cache
    <3>1. overrides[d.to] \in DOMAIN dep_cache' /\ dep_cache'[overrides[d.to]] = v
      BY <1>10, <1>11, <2>2
    <3>2. \A g \in given' : g \in given \/ (g.to = d.to /\ g.value = v)
      BY <1>11, <2>2
    <3> QED BY <1>1, <2>1, <3>1, <3>2 DEF FromCache, appVars
  <2>3. CASE ~Top.cache
    BY <1>1, <1>11, <2>1, <2>3 DEF FromCache, appVars
  <2> QED BY <1>10, <2>2, <2>3
<1>18. ASSUME Idempotent', NEW u \in Value', NEW f, f = made'[u].fn, AlwaysCached(f)'
       PROVE  f \in DOMAIN dep_cache' /\ dep_cache'[f] = u
  <2>1. Idempotent /\ AlwaysCached(f)
    BY <1>1, <1>18, SameDemands
  <2>2. CASE u \in Value
    <3>1. f \in DOMAIN dep_cache /\ dep_cache[f] = u
      BY <1>1, <1>4, <1>18, <2>1, <2>2 DEF SInv, AllKept, Kept
    <3> QED BY <1>16, <3>1
  <2>3. CASE u = v
    <3>1. f = Top.fn
      BY <1>4, <1>18, <2>3
    <3>2. Top.cache /\ Top.key = f
      BY <1>1, <2>1, <3>1, FirstOfItsKind
    <3> QED BY <1>11, <2>3, <3>2
  <2> QED BY <1>4, <2>2, <2>3
<1>19. AllKept'
  BY <1>18 DEF AllKept, Kept, AlwaysCached
<1>20. OncePerRequest'
  <2> SUFFICES ASSUME Idempotent', NEW u1 \in Value', NEW u2 \in Value',
                      made'[u1].fn = made'[u2].fn, NEW f, f = made'[u1].fn, AlwaysCached(f)'
               PROVE  u1 = u2
    BY DEF OncePerRequest, Idempotent, AlwaysCached
  <2> QED BY <1>18
<1> QED BY <1>14, <1>15, <1>17, <1>19, <1>20 DEF SInv

\* For every graph, table of overrides and failure: what the demands of one
\* dependency may share they do share (dep_cache, deps.py), on whatever level
\* they are, and it is made once; a cycle of demands, which no recursion
\* survives, is no exception.
THEOREM SharedAlike == Spec => []SharedAsCached
<1>1. Init => SInv
  <2> SUFFICES ASSUME Init PROVE SInv
    OBVIOUS
  <2>1. Len(stack) = 0 /\ Value = {} /\ given = {}
    BY DEF Init, Value
  <2> QED BY <2>1 DEF SInv, Chained, NoOvertaking, Pending, FromCache, AllKept, OncePerRequest
<1>2. IInv /\ SInv /\ [Next]_vars => SInv'
  <2> SUFFICES ASSUME IInv, SInv, [Next]_vars PROVE SInv'
    OBVIOUS
  <2>1. CASE UNCHANGED vars
    <3>1. UNCHANGED <<phase, appVars, stack, dep_cache, made, given>> /\ Value' = Value
      BY <2>1 DEF vars, Value
    <3> QED BY <3>1, NothingMade
  <2> QED BY <2>1, ShareBegin, ShareReuse, ShareDescend, ShareReturn, ShareLost, ShareOther DEF Next
<1>3. SInv => SharedAsCached
  BY DEF SInv, FromCache, SharedAsCached, SameForAll
<1> QED BY <1>1, <1>2, <1>3, Inductive, PTL DEF Spec

HIDE DependenciesAssumption

-----------------------------------------------------------------------------
(* Routing.                                                                *)

\* A set of numbers has a least element.
LEMMA Least == ASSUME NEW S \in SUBSET Nat, S # {} PROVE \E n \in S : \A m \in S : n <= m
<1>1. PICK R : R = {ss \in Nat \X Nat : ss[1] < ss[2]}
  OBVIOUS
<1>2. IsWellFoundedOn(R, Nat)
  BY <1>1, NatLessThanWellFounded DEF OpToRel
<1>3. PICK x \in S : \A y \in S : ~(<<y, x>> \in R)
  BY <1>2, WFMin
<1>4. ASSUME NEW y \in S PROVE x <= y
  <2>1. <<y, x>> \in Nat \X Nat /\ <<y,x>>[1] = y /\ <<y,x>>[2] = x
    OBVIOUS
  <2>2. ~(y < x)
    BY <1>1, <1>3, <2>1
  <2> QED BY <2>2
<1> QED BY <1>4

\* Induction: a set with 0 and, with a number, the next one, has them all.
LEMMA SetInd == ASSUME NEW S, 0 \in S, \A n \in Nat : n \in S => n + 1 \in S PROVE Nat \subseteq S
<1>1. SUFFICES ASSUME NEW k \in Nat, k \notin S PROVE FALSE
  OBVIOUS
<1>2. PICK D : D = Nat \ S
  OBVIOUS
<1>2a. PICK n \in D : \A m \in D : n <= m
  BY <1>1, <1>2, Least
<1>3. n # 0 /\ n - 1 \in Nat
  BY <1>2
<1>4. n - 1 \in S
  BY <1>2, <1>2a, <1>3
<1> QED BY <1>2, <1>2a, <1>3, <1>4

\* f goes from base through what F makes of it, step by step, up to n.
UpTo(f, F, base, V, n) ==
  f \in [0..n -> V] /\ f[0] = base /\ \A i \in 1..n : f[i] = F[<<i, f[i-1]>>]

\* A function defined by recursion over 0..n exists.
LEMMA RecExists ==
  ASSUME NEW n \in Nat, NEW V, NEW base \in V, NEW F \in [(1..n) \X V -> V]
  PROVE  \E f : UpTo(f, F, base, V, n)
<1>1. PICK S : S = {k \in Nat : k <= n => \E f : UpTo(f, F, base, V, k)}
  OBVIOUS
<1>2. 0 \in S
  <2>1. PICK f : f = [i \in 0..0 |-> base]
    OBVIOUS
  <2>2. UpTo(f, F, base, V, 0)
    BY <2>1 DEF UpTo
  <2> QED BY <1>1, <2>2
<1>3. ASSUME NEW k \in Nat, k \in S, k + 1 <= n PROVE \E f : UpTo(f, F, base, V, k + 1)
  <2>1. PICK f : UpTo(f, F, base, V, k)
    BY <1>1, <1>3
  <2>2. PICK v : v = F[<<k+1, f[k]>>]
    OBVIOUS
  <2>3. v \in V
    BY <2>1, <2>2, <1>3 DEF UpTo
  <2>4. PICK g : g = [i \in 0..(k+1) |-> IF i <= k THEN f[i] ELSE v]
    OBVIOUS
  <2>5. g \in [0..(k+1) -> V]
    BY <2>1, <2>3, <2>4 DEF UpTo
  <2>6. ASSUME NEW i \in 1..(k+1) PROVE g[i] = F[<<i, g[i-1]>>]
    <3>0. i - 1 \in 0..k /\ g[i-1] = f[i-1]
      BY <2>4
    <3>1. CASE i <= k
      BY <2>1, <2>4, <3>0, <3>1 DEF UpTo
    <3>2. CASE i = k+1
      <4>1. i - 1 = k
        BY <3>2
      <4>2. g[i] = v /\ g[i-1] = f[k]
        BY <2>4, <3>0, <3>2, <4>1
      <4> QED BY <2>2, <3>2, <4>2
    <3> QED BY <3>1, <3>2
  <2>7. g[0] = base
    BY <2>1, <2>4 DEF UpTo
  <2> QED BY <2>5, <2>6, <2>7 DEF UpTo
<1>4. \A k \in Nat : k \in S => k + 1 \in S
  <2>1. SUFFICES ASSUME NEW k \in Nat, k \in S PROVE k + 1 \in S
    OBVIOUS
  <2>2. k + 1 <= n => \E f : UpTo(f, F, base, V, k + 1)
    BY <1>3, <2>1
  <2>3. k + 1 \in Nat
    OBVIOUS
  <2> QED BY <1>1, <2>2, <2>3
<1>5. n \in S
  BY <1>2, <1>4, SetInd
<1> QED BY <1>1, <1>5

-----------------------------------------------------------------------------
(* The segments of a path. *)

\* f is what Real builds: the non-empty segments so far.
IsReal(f, path) ==
    /\ f[0] = <<>>
    /\ \A i \in 1..Len(path) : f[i] = IF path[i] = Empty THEN f[i - 1] ELSE Append(f[i - 1], path[i])

SameUpTo(s, t, n, W) ==
    n <= Len(s) /\ n <= Len(t) /\ \A i \in 1..n : s[i] = t[i] /\ (s[i] # Empty => s[i] \in W)

\* Real(path) is that function at the end.
LEMMA RealIs ==
  ASSUME NEW T, NEW path \in Seq(T)
  PROVE  \E f : IsReal(f, path) /\ Real(path) = f[Len(path)]
<1>1. PICK n \in Nat : n = Len(path)
  OBVIOUS
<1>2. PICK V : V = Seq(T)
  OBVIOUS
<1>3. PICK F : F = [p \in (1..n) \X V |-> IF path[p[1]] = Empty THEN p[2] ELSE Append(p[2], path[p[1]])]
  OBVIOUS
<1>4. F \in [(1..n) \X V -> V]
  <2>1. \A p \in (1..n) \X V : (IF path[p[1]] = Empty THEN p[2] ELSE Append(p[2], path[p[1]])) \in V
    BY <1>1, <1>2
  <2> QED BY <1>3, <2>1
<1>5. <<>> \in V
  BY <1>2
<1>6. PICK h : UpTo(h, F, <<>>, V, n)
  BY <1>1, <1>4, <1>5, RecExists
<1>7. ASSUME NEW i \in 0..n
      PROVE  h[i] = IF i = 0 THEN <<>>
                    ELSE IF path[i] = Empty THEN h[i - 1] ELSE Append(h[i - 1], path[i])
  <2>1. CASE i = 0
    BY <1>6, <2>1 DEF UpTo
  <2>2. CASE i # 0
    <3>1. i \in 1..n /\ i - 1 \in 0..n
      BY <2>2
    <3>2. h[i] = F[<<i, h[i - 1]>>] /\ h[i - 1] \in V
      BY <1>6, <3>1 DEF UpTo
    <3> QED BY <1>3, <2>2, <3>1, <3>2
  <2> QED BY <2>1, <2>2
<1>8. h = [i \in 0..n |-> IF i = 0 THEN <<>>
                          ELSE IF path[i] = Empty THEN h[i - 1] ELSE Append(h[i - 1], path[i])]
  BY <1>6, <1>7 DEF UpTo
<1>9. PICK g : g = CHOOSE f : f = [i \in 0..Len(path) |->
                  IF i = 0 THEN <<>> ELSE IF path[i] = Empty THEN f[i - 1] ELSE Append(f[i - 1], path[i])]
  OBVIOUS
<1>10. g = [i \in 0..Len(path) |->
                  IF i = 0 THEN <<>> ELSE IF path[i] = Empty THEN g[i - 1] ELSE Append(g[i - 1], path[i])]
  BY <1>1, <1>8, <1>9
<1>11. Real(path) = g[Len(path)]
  BY <1>9 DEF Real
<1>12. IsReal(g, path)
  <2>1. ASSUME NEW i \in 1..Len(path)
        PROVE  g[i] = IF path[i] = Empty THEN g[i - 1] ELSE Append(g[i - 1], path[i])
    <3>1. i \in 0..Len(path) /\ i # 0
      OBVIOUS
    <3> QED BY <1>10, <3>1
  <2>2. g[0] = <<>>
    <3>1. 0 \in 0..Len(path)
      OBVIOUS
    <3> QED BY <1>10, <3>1
  <2> QED BY <2>1, <2>2 DEF IsReal
<1> QED BY <1>11, <1>12

\* Paths that agree on their first n segments have the same ones that are not
\* empty, and those are the segments they have.
LEMMA RealSame ==
  ASSUME NEW T, NEW W, NEW s \in Seq(T), NEW t \in Seq(T), NEW f, NEW g, IsReal(f, s), IsReal(g, t),
         NEW n \in Nat, SameUpTo(s, t, n, W)
  PROVE  f[n] = g[n] /\ f[n] \in Seq(W)
<1>1. PICK S : S = {k \in Nat : k <= n => f[k] = g[k] /\ f[k] \in Seq(W)}
  OBVIOUS
<1>2. 0 \in S
  <2>1. f[0] = <<>> /\ g[0] = <<>>
    BY DEF IsReal
  <2>2. <<>> \in Seq(W)
    OBVIOUS
  <2> QED BY <1>1, <2>1, <2>2
<1>3. ASSUME NEW k \in Nat, k \in S, k + 1 <= n
      PROVE  f[k + 1] = g[k + 1] /\ f[k + 1] \in Seq(W)
  <2>0. n <= Len(s) /\ n <= Len(t) /\ \A i \in 1..n : s[i] = t[i] /\ (s[i] # Empty => s[i] \in W)
    BY DEF SameUpTo
  <2>1. k + 1 \in 1..Len(s) /\ k + 1 \in 1..Len(t) /\ s[k + 1] = t[k + 1] /\ (k + 1) - 1 = k
        /\ (s[k + 1] # Empty => s[k + 1] \in W)
    BY <1>3, <2>0
  <2>2. f[k] = g[k] /\ f[k] \in Seq(W)
    BY <1>1, <1>3
  <2>3. f[k + 1] = IF s[k + 1] = Empty THEN f[k] ELSE Append(f[k], s[k + 1])
    BY <2>1 DEF IsReal
  <2>4. g[k + 1] = IF t[k + 1] = Empty THEN g[k] ELSE Append(g[k], t[k + 1])
    BY <2>1 DEF IsReal
  <2>5. CASE s[k + 1] = Empty
    BY <2>1, <2>2, <2>3, <2>4, <2>5
  <2>6. CASE s[k + 1] # Empty
    <3>1. f[k + 1] = Append(f[k], s[k + 1]) /\ g[k + 1] = Append(f[k], s[k + 1])
      BY <2>1, <2>2, <2>3, <2>4, <2>6
    <3>2. s[k + 1] \in W
      BY <2>1, <2>6
    <3>3. Append(f[k], s[k + 1]) \in Seq(W)
      BY <2>2, <3>2, AppendProperties
    <3> QED BY <3>1, <3>3
  <2> QED BY <2>5, <2>6
<1>4. \A k \in Nat : k \in S => k + 1 \in S
  <2>1. SUFFICES ASSUME NEW k \in Nat, k \in S PROVE k + 1 \in S
    OBVIOUS
  <2>2. k + 1 <= n => f[k + 1] = g[k + 1] /\ f[k + 1] \in Seq(W)
    BY <1>3, <2>1
  <2>3. k + 1 \in Nat
    OBVIOUS
  <2> QED BY <1>1, <2>2, <2>3
<1>5. n \in S
  BY <1>2, <1>4, SetInd
<1> QED BY <1>1, <1>5

\* The segments of a path that are not empty are segments of it.
LEMMA RealType ==
  ASSUME NEW T, NEW path \in Seq(T)
  PROVE  /\ Real(path) \in Seq(T \ {Empty})
         /\ \A i \in DOMAIN Real(path) : \E j \in DOMAIN path : Real(path)[i] = path[j]
<1>1. PICK f : IsReal(f, path) /\ Real(path) = f[Len(path)]
  BY RealIs
<1>2. Len(path) <= Len(path) /\ Len(path) \in Nat /\ \A i \in 1..Len(path) : path[i] = path[i]
  OBVIOUS
<1>a. PICK W : W = {path[i] : i \in 1..Len(path)} \ {Empty}
  OBVIOUS
<1>b. SameUpTo(path, path, Len(path), W)
  BY <1>2, <1>a DEF SameUpTo
<1>3. Real(path) \in Seq({path[i] : i \in 1..Len(path)} \ {Empty})
  BY <1>1, <1>2, <1>a, <1>b, RealSame
<1>4. PICK R : R = Real(path)
  OBVIOUS
<1>5. \A i \in 1..Len(R) : R[i] \in {path[j] : j \in 1..Len(path)} \ {Empty}
  BY <1>3, <1>4
<1>6. \A i \in 1..Len(R) : R[i] \in T \ {Empty}
  BY <1>5
<1>7. R \in Seq(T \ {Empty})
  BY <1>3, <1>4, <1>6
<1> QED BY <1>4, <1>5, <1>7

\* A slash more at the end makes no difference to them.
LEMMA RealSlash ==
  ASSUME NEW T, Empty \in T, NEW path \in Seq(T)
  PROVE  Real(Append(path, Empty)) = Real(path)
<1>1. PICK t : t = Append(path, Empty)
  OBVIOUS
<1>2. t \in Seq(T) /\ Len(t) = Len(path) + 1 /\ t[Len(t)] = Empty /\ Len(path) \in Nat
  BY <1>1
<1>3. \A i \in 1..Len(path) : path[i] = t[i]
  BY <1>1
<1>4. PICK f : IsReal(f, path) /\ Real(path) = f[Len(path)]
  BY RealIs
<1>5. PICK g : IsReal(g, t) /\ Real(t) = g[Len(t)]
  BY <1>2, RealIs
<1>6. Len(path) <= Len(path) /\ Len(path) <= Len(t)
  BY <1>2
<1>7. f[Len(path)] = g[Len(path)]
  <2>1. PICK n \in Nat : n = Len(path)
    BY <1>2
  <2>2. SameUpTo(path, t, n, T)
    BY <1>3, <1>6, <2>1 DEF SameUpTo
  <2>4. f[n] = g[n]
    BY <1>2, <1>4, <1>5, <2>1, <2>2, RealSame
  <2> QED BY <2>1, <2>4
<1>8. Len(t) \in 1..Len(t) /\ Len(t) - 1 = Len(path)
  BY <1>2
<1>9. g[Len(t)] = g[Len(path)]
  BY <1>2, <1>5, <1>8 DEF IsReal
<1> QED BY <1>1, <1>4, <1>5, <1>7, <1>9

-----------------------------------------------------------------------------
(* The names of nodes. *)

\* A node is named by the steps from the root: segments, and None to the child
\* of a marker.
Steps == Segments \cup {None}
Names == Seq(Steps)
Cut(n, i) == [j \in 1..i |-> n[j]]
StepTo(seg) == IF seg \in DOMAIN Markers THEN Dyn ELSE seg
Way(p) == [i \in 1..Len(p) |-> StepTo(p[i])]   \* where the segments p lead

\* The nodes on the way to a node.
LEMMA CutIs ==
  ASSUME NEW n \in Names, NEW i \in 0..Len(n)
  PROVE  /\ Cut(n, i) \in Names /\ Len(Cut(n, i)) = i
         /\ \A j \in 1..i : Cut(n, i)[j] = n[j]
         /\ \A j \in 0..i : Cut(Cut(n, i), j) = Cut(n, j)
         /\ Cut(n, 0) = <<>> /\ Cut(n, Len(n)) = n
         /\ i > 0 => Cut(n, i) = Append(Cut(n, i - 1), n[i])
<1>1. Cut(n, i) \in Names /\ Len(Cut(n, i)) = i
  BY DEF Cut, Names
<1>2. \A j \in 1..i : Cut(n, i)[j] = n[j]
  BY DEF Cut
<1>3. ASSUME NEW j \in 0..i PROVE Cut(Cut(n, i), j) = Cut(n, j)
  <2>1. \A k \in 1..j : Cut(n, i)[k] = n[k]
    BY <1>2
  <2> QED BY <2>1 DEF Cut
<1>4. Cut(n, 0) = <<>> /\ Cut(n, Len(n)) = n
  BY DEF Cut, Names
<1>5. ASSUME i > 0 PROVE Cut(n, i) = Append(Cut(n, i - 1), n[i])
  <2>1. i - 1 \in 0..Len(n) /\ n[i] \in Steps
    BY <1>5 DEF Names
  <2>2. Cut(n, i - 1) \in Names /\ Len(Cut(n, i - 1)) = i - 1
    BY <2>1 DEF Cut, Names
  <2>3. PICK c : c = Append(Cut(n, i - 1), n[i])
    OBVIOUS
  <2>4. c \in Names /\ Len(c) = i
    BY <2>1, <2>2, <2>3 DEF Names
  <2>5. ASSUME NEW j \in 1..i PROVE c[j] = n[j]
    <3>1. CASE j = i
      BY <2>2, <2>3, <3>1 DEF Names
    <3>2. CASE j # i
      <4>1. j \in 1..(i - 1)
        BY <3>2
      <4>2. c[j] = Cut(n, i - 1)[j]
        BY <2>2, <2>3, <4>1 DEF Names
      <4> QED BY <4>1, <4>2 DEF Cut
    <3> QED BY <3>1, <3>2
  <2>6. Cut(n, i) = c
    BY <2>4, <2>5, <1>1, <1>2, SeqEqual DEF Names
  <2> QED BY <2>3, <2>6
<1> QED BY <1>1, <1>2, <1>3, <1>4, <1>5

\* ... and to its child; a node is the child of one node by one step.
LEMMA CutAppend ==
  ASSUME NEW n \in Names, NEW x \in Steps
  PROVE  /\ Append(n, x) \in Names /\ Len(Append(n, x)) = Len(n) + 1 /\ Append(n, x)[Len(n) + 1] = x
         /\ \A i \in 0..Len(n) : Cut(Append(n, x), i) = Cut(n, i)
         /\ Cut(Append(n, x), Len(n) + 1) = Append(n, x)
         /\ Append(n, x) # <<>> /\ Append(n, x) # n
         /\ \A m \in Names, y \in Steps : Append(n, x) = Append(m, y) => m = n /\ x = y
<1>1. PICK c : c = Append(n, x)
  OBVIOUS
<1>2. c \in Names /\ Len(c) = Len(n) + 1 /\ c[Len(n) + 1] = x /\ c # <<>> /\ c # n
      /\ \A i \in 1..Len(n) : c[i] = n[i]
  BY <1>1 DEF Names
<1>3. ASSUME NEW i \in 0..Len(n) PROVE Cut(c, i) = Cut(n, i)
  BY <1>2 DEF Cut
<1>4. Cut(c, Len(n) + 1) = c
  BY <1>2, CutIs DEF Names
<1>5. ASSUME NEW m \in Names, NEW y \in Steps, c = Append(m, y) PROVE m = n /\ x = y
  <2>1. Append(n, x) = Append(m, y) /\ n \in Seq(Steps) /\ m \in Seq(Steps)
    BY <1>1, <1>5 DEF Names
  <2> QED BY <2>1, AppendInjective
<1> QED BY <1>1, <1>2, <1>3, <1>4, <1>5

\* A path of segments leads to a node, one step a segment.
LEMMA KeyIs ==
  ASSUME NEW p \in Seq(Segments)
  PROVE  /\ Way(p) \in Names /\ Len(Way(p)) = Len(p)
         /\ \A i \in 1..Len(p) : Way(p)[i] = StepTo(p[i]) /\ StepTo(p[i]) \in Steps
<1>1. \A i \in 1..Len(p) : StepTo(p[i]) \in Steps
  BY DEF StepTo, Steps, Dyn
<1> QED BY <1>1 DEF Way, Names

\* What Real gives of a path is a path of segments that leads somewhere.
LEMMA RealIn ==
  ASSUME NEW path \in Seq(Segments)
  PROVE  /\ Real(path) \in Seq(Segments) /\ \A i \in 1..Len(Real(path)) : Real(path)[i] # Empty
         /\ Way(Real(path)) \in Names /\ Len(Way(Real(path))) = Len(Real(path)) /\ Len(Real(path)) \in Nat
<1>1. PICK p : p = Real(path)
  OBVIOUS
<1>2. p \in Seq(Segments \ {Empty})
  BY <1>1, RealType
<1>3. p \in Seq(Segments) /\ \A i \in 1..Len(p) : p[i] # Empty
  BY <1>2
<1>4. Way(p) \in Names /\ Len(Way(p)) = Len(p)
  BY <1>3, KeyIs
<1> QED BY <1>1, <1>3, <1>4

-----------------------------------------------------------------------------
(* Trees, and what Router.add makes of one. *)

Ends == Handlers \cup {DocHandler, None}
Kinds == {Markers[s] : s \in DOMAIN Markers} \cup {NoParam}
Nodes == [param : Kinds, handler : Ends]

\* The nodes are closed under parents, and a node knows of its dynamic child.
IsTree(T) ==
    /\ T = [n \in DOMAIN T |-> T[n]] /\ DOMAIN T \subseteq Names /\ <<>> \in DOMAIN T
    /\ \A n \in DOMAIN T : T[n] \in Nodes
    /\ \A n \in DOMAIN T : \A i \in 0..Len(n) : Cut(n, i) \in DOMAIN T
    /\ \A n \in DOMAIN T : T[n].param # NoParam <=> Append(n, Dyn) \in DOMAIN T

\* No node is lost, changes its handler or its marker; new ones have no handler.
Grows(T, U) ==
    /\ DOMAIN T \subseteq DOMAIN U
    /\ \A n \in DOMAIN T : /\ U[n].handler = T[n].handler
                           /\ T[n].param # NoParam => U[n].param = T[n].param
    /\ \A n \in DOMAIN U \ DOMAIN T : U[n].handler = None

Trees == {T \in UNION {[D -> Nodes] : D \in SUBSET Names} : IsTree(T)}

\* The trees are a set.
LEMMA TreeIn == ASSUME NEW T, IsTree(T) PROVE T \in Trees
<1>1. T \in [DOMAIN T -> Nodes] /\ DOMAIN T \in SUBSET Names
  BY DEF IsTree
<1> QED BY <1>1 DEF Trees

LEMMA GrowsRefl == ASSUME NEW T PROVE Grows(T, T)
  BY DEF Grows

\* Growing step by step is growing.
LEMMA GrowsTrans == ASSUME NEW T, NEW U, NEW W, Grows(T, U), Grows(U, W) PROVE Grows(T, W)
<1>1. \A n \in DOMAIN T : W[n].handler = T[n].handler /\ (T[n].param # NoParam => W[n].param = T[n].param)
  BY DEF Grows
<1>2. \A n \in DOMAIN W \ DOMAIN T : W[n].handler = None
  BY DEF Grows
<1> QED BY <1>1, <1>2 DEF Grows

\* The tree with the node of that name in it.
Branched(T, c) == IF c \in DOMAIN T THEN T ELSE With(T, c, FreshNode)

HasToo(T, U, c) ==
    /\ IsTree(U) /\ Grows(T, U) /\ c \in DOMAIN U /\ DOMAIN U = DOMAIN T \cup {c}
    /\ \A a \in DOMAIN T : U[a] = T[a]

\* A child under a literal segment, or under a marker whose node is there.
LEMMA ChildTree ==
  ASSUME NEW T, IsTree(T), NEW n \in DOMAIN T, NEW x \in Steps, x # None \/ T[n].param # NoParam
  PROVE  HasToo(T, Branched(T, Append(n, x)), Append(n, x))
<1>0. PICK c : c = Append(n, x)
  OBVIOUS
<1>a. PICK U : U = Branched(T, c)
  OBVIOUS
<1>b. U = IF c \in DOMAIN T THEN T ELSE With(T, c, FreshNode)
  BY <1>a DEF Branched
<1>1. c = Append(n, x)
  BY <1>0
<1>2. CASE c \in DOMAIN T
  <2>1. U = T
    BY <1>b, <1>2
  <2> QED BY <1>0, <1>a, <1>2, <2>1, GrowsRefl DEF HasToo
<1>3. CASE c \notin DOMAIN T
  <2>0. n \in Names /\ c \in Names /\ Len(c) = Len(n) + 1 /\ Len(n) \in Nat
    BY <1>1, CutAppend DEF IsTree, Names
  <2>1. x # None
    BY <1>1, <1>3 DEF IsTree, Dyn
  <2>2. U = With(T, c, FreshNode)
    BY <1>b, <1>3
  <2>3. DOMAIN U = DOMAIN T \cup {c} /\ U[c] = FreshNode /\ (\A a \in DOMAIN T : U[a] = T[a])
        /\ U = [a \in DOMAIN U |-> U[a]]
    BY <1>3, <2>2 DEF With
  <2>4. FreshNode \in Nodes /\ FreshNode.handler = None /\ FreshNode.param = NoParam
    BY DEF FreshNode, Nodes, Kinds, Ends
  <2>5. ASSUME NEW a \in DOMAIN U, NEW i \in 0..Len(a) PROVE Cut(a, i) \in DOMAIN U
    <3>1. CASE a \in DOMAIN T
      BY <2>3, <3>1 DEF IsTree
    <3>2. CASE a = c
      <4>1. CASE i <= Len(n)
        <5>1. i \in 0..Len(n)
          BY <4>1
        <5>2. Cut(c, i) = Cut(n, i)
          BY <1>1, <2>0, <5>1, CutAppend
        <5> QED BY <2>3, <3>2, <5>1, <5>2 DEF IsTree
      <4>2. CASE i = Len(n) + 1
        <5>1. Cut(c, i) = c
          BY <1>1, <2>0, <3>2, <4>2, CutAppend
        <5> QED BY <2>3, <3>2, <5>1
      <4> QED BY <2>0, <3>2, <4>1, <4>2
    <3> QED BY <2>3, <3>1, <3>2
  <2>6. ASSUME NEW a \in DOMAIN U PROVE U[a].param # NoParam <=> Append(a, Dyn) \in DOMAIN U
    <3>1. CASE a \in DOMAIN T
      <4>1. a \in Names /\ None \in Steps
        BY <3>1 DEF IsTree, Steps
      <4>2. Append(a, Dyn) # c
        <5>1. Append(a, None) = Append(n, x) => x = None
          BY <2>0, <4>1, AppendInjective DEF Names
        <5> QED BY <1>1, <2>1, <5>1 DEF Dyn
      <4> QED BY <2>3, <3>1, <4>2 DEF IsTree
    <3>2. CASE a = c
      <4>1. None \in Steps
        BY DEF Steps
      <4>2. PICK d : d = Append(c, Dyn)
        OBVIOUS
      <4>3. d # c /\ d \in Names /\ Len(c) \in 0..Len(d) /\ Cut(d, Len(c)) = c
        <5>1. d # c /\ d \in Names /\ Len(d) = Len(c) + 1
          BY <2>0, <4>1, <4>2, CutAppend DEF Dyn
        <5>2. Len(c) \in 0..Len(c) /\ Len(c) \in 0..Len(d)
          BY <2>0, <5>1
        <5>3. Cut(d, Len(c)) = Cut(c, Len(c))
          BY <2>0, <4>1, <4>2, <5>2, CutAppend DEF Dyn
        <5>4. Cut(c, Len(c)) = c
          BY <2>0, <5>2, CutIs
        <5> QED BY <5>1, <5>2, <5>3, <5>4
      <4>4. d \notin DOMAIN T
        BY <1>3, <4>3 DEF IsTree
      <4> QED BY <2>3, <2>4, <3>2, <4>2, <4>3, <4>4
    <3> QED BY <2>3, <3>1, <3>2
  <2>7. IsTree(U)
    <3>1. DOMAIN U \subseteq Names /\ <<>> \in DOMAIN U /\ \A a \in DOMAIN U : U[a] \in Nodes
      BY <2>0, <2>3, <2>4 DEF IsTree
    <3> QED BY <2>3, <2>5, <2>6, <3>1 DEF IsTree
  <2>8. Grows(T, U)
    BY <2>3, <2>4 DEF Grows
  <2> QED BY <1>0, <1>a, <2>3, <2>7, <2>8 DEF HasToo
<1> QED BY <1>2, <1>3

-----------------------------------------------------------------------------

LayStates == {s \in [tree : Trees, node : Names, ok : BOOLEAN] : s.node \in DOMAIN s.tree}

\* What Router.add makes of one segment: u, from s.
LaidOne(s, seg, final, u) ==
    /\ u \in LayStates /\ Grows(s.tree, u.tree)
    /\ u.ok => /\ s.ok /\ u.node = Append(s.node, StepTo(seg))
               /\ DOMAIN u.tree = DOMAIN s.tree \cup {u.node}
               /\ seg \in DOMAIN Markers => /\ u.tree[s.node].param = Markers[seg]
                                            /\ Markers[seg].conv = "path" => final

\* One segment: the tree grows by the node it leads to, unless it is refused.
LEMMA LayIs ==
  ASSUME NEW s \in LayStates, NEW seg \in Segments, NEW final \in BOOLEAN
  PROVE  LaidOne(s, seg, final, Lay(s, seg, final))
<1>0. /\ s = [tree |-> s.tree, node |-> s.node, ok |-> s.ok] /\ s.ok \in BOOLEAN
      /\ IsTree(s.tree) /\ s.node \in DOMAIN s.tree /\ s.node \in Names
      /\ None \notin Segments /\ seg \in Steps /\ None \in Steps
  BY RoutingConstants DEF LayStates, Trees, Steps
<1>1. PICK u : u = Lay(s, seg, final)
  OBVIOUS
<1>2. CASE ~s.ok
  BY <1>0, <1>1, <1>2, GrowsRefl DEF Lay, LaidOne
<1>3. ASSUME NEW T, IsTree(T), s.node \in DOMAIN T, NEW x \in Steps, x # None \/ T[s.node].param # NoParam,
             Grows(s.tree, T), DOMAIN T = DOMAIN s.tree, u = Down([s EXCEPT !.tree = T], x), s.ok
      PROVE  /\ u \in LayStates /\ Grows(s.tree, u.tree) /\ u.ok
             /\ u.node = Append(s.node, x) /\ DOMAIN u.tree = DOMAIN s.tree \cup {u.node}
             /\ u.tree[s.node] = T[s.node]
  <2>1. PICK c : c = Append(s.node, x)
    OBVIOUS
  <2>2. PICK U : U = Branched(T, c)
    OBVIOUS
  <2>3. /\ IsTree(U) /\ Grows(T, U) /\ c \in DOMAIN U /\ DOMAIN U = DOMAIN T \cup {c}
        /\ \A a \in DOMAIN T : U[a] = T[a]
    <3>1. s.node \in DOMAIN T /\ (x # None \/ T[s.node].param # NoParam) /\ IsTree(T)
      BY <1>3
    <3>2. x \in Steps
      BY <1>3
    <3>3. PICK n : n = s.node
      OBVIOUS
    <3>4. n \in DOMAIN T /\ (x # None \/ T[n].param # NoParam)
      BY <3>1, <3>3
    <3>5. HasToo(T, Branched(T, Append(n, x)), Append(n, x))
      BY <3>1, <3>2, <3>4, ChildTree
    <3> QED BY <2>1, <2>2, <3>3, <3>5 DEF HasToo
  <2>4. u = [tree |-> U, node |-> c, ok |-> s.ok]
    BY <1>0, <1>3, <2>1, <2>2 DEF Down, Branched
  <2>5. Grows(s.tree, U) /\ U \in Trees /\ c \in Names
    BY <1>3, <2>3, GrowsTrans, TreeIn DEF IsTree
  <2>6. u.tree = U /\ u.node = c /\ u.ok = s.ok
    BY <2>4
  <2>7. u \in LayStates
    BY <1>0, <2>3, <2>4, <2>5 DEF LayStates
  <2>8. u.tree[s.node] = T[s.node] /\ DOMAIN u.tree = DOMAIN s.tree \cup {u.node}
    BY <1>3, <2>3, <2>6
  <2> QED BY <1>3, <2>1, <2>5, <2>6, <2>7, <2>8
<1>4. CASE s.ok /\ seg \notin DOMAIN Markers
  <2>1. u = Down(s, seg) /\ s = [s EXCEPT !.tree = s.tree]
    BY <1>0, <1>1, <1>4 DEF Lay
  <2>2. seg # None /\ StepTo(seg) = seg
    BY <1>0, <1>4 DEF StepTo
  <2> QED BY <1>0, <1>1, <1>3, <1>4, <2>1, <2>2, GrowsRefl DEF LaidOne
<1>5. CASE s.ok /\ seg \in DOMAIN Markers
           /\ ((Markers[seg].conv = "path" /\ ~final) \/ s.tree[s.node].param \notin {NoParam, Markers[seg]})
  <2>1. u = [s EXCEPT !.ok = FALSE]
    BY <1>1, <1>5 DEF Lay
  <2>2. u = [tree |-> s.tree, node |-> s.node, ok |-> FALSE]
    BY <1>0, <2>1
  <2> QED BY <1>0, <1>1, <1>5, <2>2, GrowsRefl DEF LayStates, LaidOne
<1>6. CASE s.ok /\ seg \in DOMAIN Markers
           /\ ~(Markers[seg].conv = "path" /\ ~final) /\ s.tree[s.node].param \in {NoParam, Markers[seg]}
  <2>1. PICK T : T = [s.tree EXCEPT ![s.node].param = Markers[seg]]
    OBVIOUS
  <2>2. u = Down([s EXCEPT !.tree = T], Dyn)
    BY <1>0, <1>1, <1>6, <2>1 DEF Lay
  <2>3. DOMAIN T = DOMAIN s.tree /\ T[s.node].param = Markers[seg] /\ T[s.node].handler = s.tree[s.node].handler
        /\ T[s.node] \in Nodes /\ T = [n \in DOMAIN T |-> T[n]]
        /\ \A n \in DOMAIN T : n # s.node => T[n] = s.tree[n]
    <3>1. s.tree[s.node] \in Nodes /\ s.tree = [n \in DOMAIN s.tree |-> s.tree[n]]
      BY <1>0 DEF IsTree
    <3>2. Markers[seg] \in Kinds
      BY <1>6 DEF Kinds
    <3> QED BY <1>0, <2>1, <3>1, <3>2 DEF Nodes
  <2>4. Grows(s.tree, T)
    BY <1>0, <1>6, <2>3 DEF Grows
  <2>5. Markers[seg] # NoParam
    <3>1. Markers[seg].name # None
      BY <1>6, RoutingConstants
    <3> QED BY <3>1 DEF NoParam
  <2>6. CASE s.tree[s.node].param # NoParam
    <3>1. IsTree(T)
      BY <1>0, <1>6, <2>3, <2>6 DEF IsTree
    <3> QED BY <1>0, <1>1, <1>3, <1>6, <2>2, <2>3, <2>4, <2>5, <3>1 DEF Dyn, StepTo, LaidOne
  <2>7. CASE s.tree[s.node].param = NoParam
    <3>1. PICK c : c = Append(s.node, None)
      OBVIOUS
    <3>2. c \notin DOMAIN T
      BY <1>0, <2>3, <2>7, <3>1 DEF IsTree, Dyn
    <3>3. PICK U : U = With(T, c, FreshNode)
      OBVIOUS
    <3>4. u = [tree |-> U, node |-> c, ok |-> s.ok]
      BY <1>0, <2>2, <3>1, <3>2, <3>3 DEF Down, Dyn
    <3>5. /\ c \in Names /\ Len(c) = Len(s.node) + 1 /\ Len(s.node) \in Nat /\ c # s.node
          /\ \A i \in 0..Len(s.node) : Cut(c, i) = Cut(s.node, i)
          /\ Cut(c, Len(s.node) + 1) = c
      BY <1>0, <3>1, CutAppend DEF Names
    <3>6. DOMAIN U = DOMAIN T \cup {c} /\ U[c] = FreshNode /\ (\A a \in DOMAIN T : U[a] = T[a])
          /\ U = [a \in DOMAIN U |-> U[a]]
      BY <3>2, <3>3 DEF With
    <3>7. FreshNode \in Nodes /\ FreshNode.handler = None /\ FreshNode.param = NoParam
      BY DEF FreshNode, Nodes, Kinds, Ends
    <3>8. ASSUME NEW a \in DOMAIN U, NEW i \in 0..Len(a) PROVE Cut(a, i) \in DOMAIN U
      <4>1. CASE a \in DOMAIN T
        BY <1>0, <2>3, <3>6, <4>1 DEF IsTree
      <4>2. CASE a = c
        <5>1. CASE i <= Len(s.node)
          <6>1. i \in 0..Len(s.node)
            BY <5>1
          <6>2. Cut(s.node, i) \in DOMAIN s.tree
            BY <1>0, <6>1 DEF IsTree
          <6> QED BY <2>3, <3>5, <3>6, <4>2, <6>1, <6>2
        <5>2. CASE i = Len(s.node) + 1
          BY <3>5, <3>6, <4>2, <5>2
        <5> QED BY <3>5, <4>2, <5>1, <5>2
      <4> QED BY <3>6, <4>1, <4>2
    <3>9. ASSUME NEW a \in DOMAIN U PROVE U[a].param # NoParam <=> Append(a, Dyn) \in DOMAIN U
      <4>1. CASE a \in DOMAIN T /\ a # s.node
        <5>1. Append(a, None) # c
          BY <1>0, <2>3, <3>1, <4>1, AppendInjective DEF Names, IsTree
        <5> QED BY <1>0, <2>3, <3>6, <4>1, <5>1 DEF IsTree, Dyn
      <4>2. CASE a = s.node
        BY <1>0, <2>3, <2>5, <3>1, <3>6, <4>2 DEF Dyn
      <4>3. CASE a = c
        <5>1. PICK d : d = Append(c, None)
          OBVIOUS
        <5>2. d # c /\ d \in Names /\ Len(d) = Len(c) + 1
          BY <1>0, <3>5, <5>1, CutAppend
        <5>3. Len(c) \in 0..Len(c) /\ Len(c) \in 0..Len(d)
          BY <3>5, <5>2
        <5>4. Cut(d, Len(c)) = c
          <6>1. Cut(d, Len(c)) = Cut(c, Len(c))
            <7>1. \A i \in 0..Len(c) : Cut(Append(c, None), i) = Cut(c, i)
              BY <1>0, <3>5, CutAppend
            <7> QED BY <5>1, <5>3, <7>1
          <6>2. Cut(c, Len(c)) = c
            BY <3>5, <5>3, CutIs
          <6> QED BY <6>1, <6>2
        <5>5. d \notin DOMAIN T
          BY <1>0, <2>3, <3>2, <5>3, <5>4 DEF IsTree
        <5> QED BY <3>6, <3>7, <4>3, <5>1, <5>2, <5>5 DEF Dyn
      <4> QED BY <3>6, <4>1, <4>2, <4>3
    <3>10. IsTree(U)
      <4>1. \A n \in DOMAIN U : U[n] \in Nodes
        BY <1>0, <2>3, <3>6, <3>7 DEF IsTree
      <4>2. DOMAIN U \subseteq Names /\ <<>> \in DOMAIN U
        BY <1>0, <2>3, <3>5, <3>6 DEF IsTree
      <4> QED BY <3>6, <3>8, <3>9, <4>1, <4>2 DEF IsTree
    <3>11. Grows(T, U)
      BY <3>2, <3>6, <3>7 DEF Grows
    <3>12. Grows(s.tree, U) /\ U \in Trees
      BY <2>4, <3>10, <3>11, GrowsTrans, TreeIn
    <3>13. StepTo(seg) = None
      BY <1>6 DEF StepTo, Dyn
    <3> QED BY <1>0, <1>1, <1>6, <2>3, <3>1, <3>4, <3>5, <3>6, <3>12, <3>13 DEF LayStates, LaidOne
  <2> QED BY <2>6, <2>7
<1> QED BY <1>0, <1>2, <1>4, <1>5, <1>6

\* The marker of p at i is the one of the node there, and one that takes the
\* rest of a path is the last.
MarkedAt(T, p, i) ==
    p[i] \in DOMAIN Markers => /\ T[Cut(Way(p), i - 1)].param = Markers[p[i]]
                               /\ Markers[p[i]].conv = "path" => i = Len(p)

\* The tree has the first n segments of p, unless it has refused one.
LaidUpTo(T, p, n, e) ==
    /\ e \in LayStates /\ Grows(T, e.tree)
    /\ e.ok => /\ e.node = Cut(Way(p), n)
               /\ \A a \in DOMAIN e.tree : a \in DOMAIN T \/ \E j \in 0..n : a = Cut(Way(p), j)
               /\ \A i \in 1..n : MarkedAt(e.tree, p, i)

\* A marker is a segment, and one that the nodes may have.
LEMMA MarkerIs ==
  ASSUME NEW s \in DOMAIN Markers
  PROVE  Markers[s] # NoParam /\ Markers[s] \in Kinds /\ s \in Segments /\ s # Empty
<1>1. Markers[s].name # None /\ DOMAIN Markers \subseteq Segments \ {Empty}
  BY RoutingConstants
<1> QED BY <1>1 DEF NoParam, Kinds

\* Markers stay when the tree grows.
LEMMA MarkedStays ==
  ASSUME NEW T, NEW U, Grows(T, U), NEW p \in Seq(Segments), NEW i \in 1..Len(p), MarkedAt(T, p, i),
         Cut(Way(p), i - 1) \in DOMAIN T
  PROVE  MarkedAt(U, p, i)
BY MarkerIs DEF Grows, MarkedAt

\* One segment more.
LEMMA LaidMore ==
  ASSUME NEW T, NEW p \in Seq(Segments), NEW n \in Nat, n < Len(p), NEW e, LaidUpTo(T, p, n, e)
  PROVE  LaidUpTo(T, p, n + 1, Lay(e, p[n + 1], n + 1 = Len(p)))
<1>1. e \in LayStates /\ Grows(T, e.tree) /\ IsTree(e.tree) /\ e.node \in DOMAIN e.tree
  BY DEF LaidUpTo, LayStates, Trees
<1>2. PICK u : u = Lay(e, p[n + 1], n + 1 = Len(p))
  OBVIOUS
<1>3. LaidOne(e, p[n + 1], n + 1 = Len(p), u)
  <2>1. p[n + 1] \in Segments /\ (n + 1 = Len(p)) \in BOOLEAN
    OBVIOUS
  <2> QED BY <1>1, <1>2, <2>1, LayIs
<1>4. u \in LayStates /\ Grows(e.tree, u.tree) /\ Grows(T, u.tree)
  BY <1>1, <1>3, GrowsTrans DEF LaidOne
<1>5. PICK k : k = Way(p)
  OBVIOUS
<1>6. k \in Names /\ Len(k) = Len(p) /\ n + 1 \in 1..Len(k) /\ k[n + 1] = StepTo(p[n + 1])
  BY <1>5, KeyIs
<1>7. ASSUME u.ok
      PROVE  /\ u.node = Cut(k, n + 1)
             /\ \A a \in DOMAIN u.tree : a \in DOMAIN T \/ \E j \in 0..(n + 1) : a = Cut(k, j)
             /\ \A i \in 1..(n + 1) : MarkedAt(u.tree, p, i)
  <2>1. /\ e.ok /\ e.node = Cut(k, n) /\ u.node = Append(e.node, k[n + 1])
        /\ DOMAIN u.tree = DOMAIN e.tree \cup {u.node}
        /\ \A a \in DOMAIN e.tree : a \in DOMAIN T \/ \E j \in 0..n : a = Cut(k, j)
        /\ \A i \in 1..n : MarkedAt(e.tree, p, i)
    BY <1>3, <1>5, <1>6, <1>7 DEF LaidOne, LaidUpTo
  <2>2. u.node = Cut(k, n + 1)
    <3>1. n + 1 \in 0..Len(k) /\ n + 1 > 0 /\ (n + 1) - 1 = n
      BY <1>6
    <3>2. Cut(k, n + 1) = Append(Cut(k, (n + 1) - 1), k[n + 1])
      BY <1>6, <3>1, CutIs
    <3> QED BY <2>1, <3>1, <3>2
  <2>3. ASSUME NEW i \in 1..(n + 1) PROVE MarkedAt(u.tree, p, i)
    <3>1. CASE i \in 1..n
      <4>0. i - 1 \in 0..n /\ i \in 1..Len(p) /\ n \in 0..Len(k)
        BY <1>6, <3>1
      <4>1. Len(e.node) = n /\ i - 1 \in 0..Len(e.node)
        BY <1>6, <2>1, <4>0, CutIs
      <4>2. Cut(e.node, i - 1) \in DOMAIN e.tree
        BY <1>1, <4>1 DEF IsTree
      <4>3. Cut(e.node, i - 1) = Cut(k, i - 1)
        BY <1>6, <2>1, <4>0, CutIs
      <4> QED BY <1>4, <1>5, <2>1, <3>1, <4>0, <4>1, <4>2, <4>3, MarkedStays
    <3>2. CASE i = n + 1
      <4>1. i - 1 = n
        BY <3>2
      <4> QED BY <1>3, <1>5, <1>7, <2>1, <3>2, <4>1 DEF MarkedAt, LaidOne
    <3> QED BY <3>1, <3>2
  <2>4. ASSUME NEW a \in DOMAIN u.tree PROVE a \in DOMAIN T \/ \E j \in 0..(n + 1) : a = Cut(k, j)
    BY <2>1, <2>2, <2>4
  <2> QED BY <2>2, <2>3, <2>4
<1> QED BY <1>2, <1>4, <1>5, <1>7 DEF LaidUpTo

\* What Router.add gives back when it has laid what it could.
Added(e, handler) ==
    LET free == e.ok /\ e.tree[e.node].handler = None
    IN [tree |-> IF free THEN [e.tree EXCEPT ![e.node].handler = handler] ELSE e.tree,
        ok |-> free]

LaidBy(T, path, handler, e) ==
    LaidUpTo(T, Real(path), Len(Real(path)), e) /\ Add(T, path, handler) = Added(e, handler)

\* Router.add lays the segments of the path in order, then sets the handler.
LEMMA AddIs ==
  ASSUME NEW T, IsTree(T), NEW path \in Seq(Segments), NEW handler
  PROVE  \E e : LaidBy(T, path, handler, e)
<1>p. PICK p : p = Real(path)
  OBVIOUS
<1>q. p \in Seq(Segments)
  BY <1>p, RealIn
<1>1. PICK n \in Nat : n = Len(p)
  BY <1>q
<1>2. PICK base : base = [tree |-> T, node |-> <<>>, ok |-> TRUE]
  OBVIOUS
<1>3. base \in LayStates
  BY <1>2, TreeIn DEF LayStates, IsTree
<1>4. PICK F : F = [q \in (1..n) \X LayStates |-> Lay(q[2], p[q[1]], q[1] = Len(p))]
  OBVIOUS
<1>5. F \in [(1..n) \X LayStates -> LayStates]
  <2>1. ASSUME NEW q \in (1..n) \X LayStates PROVE Lay(q[2], p[q[1]], q[1] = Len(p)) \in LayStates
    <3>1. q[2] \in LayStates /\ p[q[1]] \in Segments /\ (q[1] = Len(p)) \in BOOLEAN
      BY <1>q, <1>1, <2>1
    <3> QED BY <3>1, LayIs DEF LaidOne
  <2> QED BY <1>4, <2>1
<1>6. PICK h : UpTo(h, F, base, LayStates, n)
  BY <1>1, <1>3, <1>5, RecExists
<1>7. ASSUME NEW i \in 0..n
      PROVE  h[i] = IF i = 0 THEN base ELSE Lay(h[i - 1], p[i], i = Len(p))
  <2>1. CASE i = 0
    BY <1>6, <2>1 DEF UpTo
  <2>2. CASE i # 0
    <3>1. i \in 1..n /\ i - 1 \in 0..n
      BY <1>7, <2>2
    <3>2. h[i] = F[<<i, h[i - 1]>>] /\ h[i - 1] \in LayStates
      BY <1>6, <3>1 DEF UpTo
    <3> QED BY <1>4, <2>2, <3>1, <3>2
  <2> QED BY <2>1, <2>2
<1>8. h = [i \in 0..n |-> IF i = 0 THEN [tree |-> T, node |-> <<>>, ok |-> TRUE]
                          ELSE Lay(h[i - 1], p[i], i = Len(p))]
  BY <1>2, <1>6, <1>7 DEF UpTo
<1>9. PICK g : g = CHOOSE f : f = [i \in 0..Len(p) |->
                   IF i = 0 THEN [tree |-> T, node |-> <<>>, ok |-> TRUE]
                   ELSE Lay(f[i - 1], p[i], i = Len(p))]
  OBVIOUS
<1>10. g = [i \in 0..Len(p) |-> IF i = 0 THEN [tree |-> T, node |-> <<>>, ok |-> TRUE]
                                ELSE Lay(g[i - 1], p[i], i = Len(p))]
  BY <1>1, <1>8, <1>9
<1>a. ASSUME NEW m \in 1..Len(p) PROVE g[m] = Lay(g[m - 1], p[m], m = Len(p))
  <2>1. m \in 0..Len(p) /\ m # 0
    BY <1>q
  <2> QED BY <1>10, <2>1
<1>11. Add(T, path, handler) = Added(g[Len(p)], handler)
  BY <1>p, <1>9 DEF Add, Added
<1>12. PICK S : S = {i \in Nat : i <= n => LaidUpTo(T, p, i, g[i])}
  OBVIOUS
<1>13. 0 \in S
  <2>1. g[0] = base
    BY <1>1, <1>2, <1>10
  <2>2. Cut(Way(p), 0) = <<>>
    BY <1>q, KeyIs, CutIs
  <2>3. LaidUpTo(T, p, 0, base)
    BY <1>2, <1>3, <2>2, GrowsRefl DEF LaidUpTo
  <2> QED BY <1>12, <2>1, <2>3
<1>14. ASSUME NEW i \in Nat, i \in S, i + 1 <= n PROVE LaidUpTo(T, p, i + 1, g[i + 1])
  <2>1. i < Len(p) /\ i + 1 \in 0..Len(p) /\ i + 1 # 0 /\ (i + 1) - 1 = i
    BY <1>1, <1>14
  <2>2. LaidUpTo(T, p, i, g[i])
    BY <1>12, <1>14
  <2>3. g[i + 1] = Lay(g[i], p[i + 1], i + 1 = Len(p))
    <3>1. PICK m : m = i + 1
      OBVIOUS
    <3>2. m \in 1..Len(p) /\ m - 1 = i
      BY <1>14, <2>1, <3>1
    <3>3. g[m] = Lay(g[m - 1], p[m], m = Len(p))
      BY <1>a, <3>2
    <3> QED BY <3>1, <3>2, <3>3
  <2> QED BY <1>q, <2>1, <2>2, <2>3, LaidMore
<1>15. \A i \in Nat : i \in S => i + 1 \in S
  BY <1>12, <1>14
<1>16. n \in S
  BY <1>13, <1>15, SetInd
<1>17. LaidUpTo(T, p, Len(p), g[Len(p)])
  BY <1>1, <1>12, <1>16
<1> QED BY <1>p, <1>11, <1>17 DEF LaidBy

-----------------------------------------------------------------------------
(* A tree holds a set of routes: each has a node of its own, no other node  *)
(* has a handler, and, of a whole one, no other node is there.              *)

KeyOf(r) == Way(Real(r.path))

RouteIn(T, r) ==
    /\ r.path \in Seq(Segments) /\ r.handler \in Handlers \cup {DocHandler}
    /\ KeyOf(r) \in DOMAIN T /\ T[KeyOf(r)].handler = r.handler
    /\ \A i \in 1..Len(Real(r.path)) : MarkedAt(T, Real(r.path), i)

Apart(K) == \A r, q \in K : KeyOf(r) = KeyOf(q) => r = q
Backed(T, K) == \A n \in DOMAIN T : T[n].handler # None => \E r \in K : n = KeyOf(r)
NoMore(T, K) ==
    \A n \in DOMAIN T : n = <<>> \/ \E r \in K : \E j \in 0..Len(KeyOf(r)) : n = Cut(KeyOf(r), j)

Held(T, K, whole) ==
    /\ IsTree(T)
    /\ \A r \in K : RouteIn(T, r)
    /\ Apart(K)
    /\ Backed(T, K)
    /\ whole => NoMore(T, K)

\* A route stays where it is when the tree grows.
LEMMA RouteStays ==
  ASSUME NEW T, IsTree(T), NEW U, Grows(T, U), NEW r, RouteIn(T, r)
  PROVE  RouteIn(U, r)
<1>1. PICK p : p = Real(r.path)
  OBVIOUS
<1>2. p \in Seq(Segments) /\ Way(p) \in DOMAIN T /\ Way(p) \in Names /\ Len(Way(p)) = Len(p)
  BY <1>1, RealIn DEF RouteIn, KeyOf
<1>3. ASSUME NEW i \in 1..Len(p) PROVE MarkedAt(U, p, i)
  <2>1. i - 1 \in 0..Len(Way(p))
    BY <1>2
  <2>2. Cut(Way(p), i - 1) \in DOMAIN T
    BY <1>2, <2>1 DEF IsTree
  <2>3. MarkedAt(T, p, i)
    BY <1>1 DEF RouteIn
  <2> QED BY <1>2, <2>2, <2>3, MarkedStays
<1>4. Way(p) \in DOMAIN U /\ U[Way(p)].handler = T[Way(p)].handler
  BY <1>2 DEF Grows
<1> QED BY <1>1, <1>3, <1>4 DEF RouteIn, KeyOf

\* What Router.add makes of a tree that holds K.
LEMMA AddHolds ==
  ASSUME NEW T, NEW K, NEW w \in BOOLEAN, Held(T, K, w),
         NEW r, r.path \in Seq(Segments), r.handler \in Handlers \cup {DocHandler}
  PROVE  /\ Add(T, r.path, r.handler).ok \in BOOLEAN
         /\ Add(T, r.path, r.handler).ok => Held(Add(T, r.path, r.handler).tree, K \cup {r}, w)
         /\ ~Add(T, r.path, r.handler).ok => Held(Add(T, r.path, r.handler).tree, K, FALSE)
<1>1. PICK p : p = Real(r.path)
  OBVIOUS
<1>2. p \in Seq(Segments) /\ Len(p) \in Nat /\ Way(p) \in Names /\ Len(Way(p)) = Len(p) /\ IsTree(T)
  BY <1>1, RealIn DEF Held
<1>3. PICK e : LaidUpTo(T, p, Len(p), e) /\ Add(T, r.path, r.handler) = Added(e, r.handler)
  <2>1. PICK e : LaidBy(T, r.path, r.handler, e)
    BY <1>2, AddIs
  <2> QED BY <1>1, <2>1 DEF LaidBy
<1>4. PICK a : a = Add(T, r.path, r.handler)
  OBVIOUS
<1>5. /\ e \in LayStates /\ Grows(T, e.tree) /\ IsTree(e.tree) /\ e.node \in DOMAIN e.tree
      /\ e.ok \in BOOLEAN
  BY <1>3 DEF LaidUpTo, LayStates, Trees
<1>6. \A q \in K : RouteIn(e.tree, q)
  BY <1>2, <1>5, RouteStays DEF Held
<1>7. Apart(K) /\ Backed(e.tree, K)
  BY <1>5 DEF Held, Backed, Grows
<1>8. CASE ~(e.ok /\ e.tree[e.node].handler = None)
  <2>1. a = [tree |-> e.tree, ok |-> FALSE]
    BY <1>3, <1>4, <1>8 DEF Added
  <2>2. a.ok = FALSE /\ a.tree = e.tree
    BY <2>1
  <2>3. Held(a.tree, K, FALSE)
    BY <1>5, <1>6, <1>7, <2>2 DEF Held
  <2> QED BY <1>4, <2>2, <2>3
<1>9. CASE e.ok /\ e.tree[e.node].handler = None
  <2>1. PICK U : U = [e.tree EXCEPT ![e.node].handler = r.handler]
    OBVIOUS
  <2>2. a = [tree |-> U, ok |-> TRUE]
    BY <1>3, <1>4, <1>9, <2>1 DEF Added
  <2>3. a.ok = TRUE /\ a.tree = U
    BY <2>2
  <2>4. /\ e.node = Way(p)
        /\ \A b \in DOMAIN e.tree : b \in DOMAIN T \/ \E j \in 0..Len(p) : b = Cut(Way(p), j)
        /\ \A i \in 1..Len(p) : MarkedAt(e.tree, p, i)
    <3>1. Cut(Way(p), Len(p)) = Way(p)
      <4>1. Len(Way(p)) \in 0..Len(Way(p))
        BY <1>2
      <4> QED BY <1>2, <4>1, CutIs
    <3> QED BY <1>3, <1>9, <3>1 DEF LaidUpTo
  <2>5. /\ DOMAIN U = DOMAIN e.tree /\ U = [n \in DOMAIN U |-> U[n]]
        /\ \A n \in DOMAIN U : n # e.node => U[n] = e.tree[n]
        /\ U[e.node].handler = r.handler /\ U[e.node].param = e.tree[e.node].param
        /\ U[e.node] \in Nodes
        /\ \A n \in DOMAIN U : U[n].param = e.tree[n].param
    <3>1. e.tree[e.node] \in Nodes /\ e.tree = [n \in DOMAIN e.tree |-> e.tree[n]]
      BY <1>5 DEF IsTree
    <3>2. r.handler \in Ends
      BY DEF Ends
    <3> QED BY <1>5, <2>1, <3>1, <3>2 DEF Nodes
  <2>6. IsTree(U)
    <3>1. \A n \in DOMAIN U : U[n] \in Nodes
      BY <1>5, <2>5 DEF IsTree
    <3> QED BY <1>5, <2>5, <3>1 DEF IsTree
  <2>7. \A q : \A i \in Nat : MarkedAt(e.tree, q, i) /\ Cut(Way(q), i - 1) \in DOMAIN e.tree => MarkedAt(U, q, i)
    BY <2>5 DEF MarkedAt
  <2>8. ASSUME NEW q \in K PROVE RouteIn(U, q) /\ KeyOf(q) # Way(p)
    <3>1. RouteIn(e.tree, q)
      BY <1>6
    <3>2. KeyOf(q) # e.node
      <4>1. q.handler # None
        BY <3>1, RoutingConstants DEF RouteIn
      <4> QED BY <1>9, <3>1, <4>1 DEF RouteIn
    <3>3. PICK s : s = Real(q.path)
      OBVIOUS
    <3>4. s \in Seq(Segments) /\ Way(s) \in DOMAIN e.tree /\ Way(s) \in Names /\ Len(Way(s)) = Len(s)
      BY <3>1, <3>3, RealIn DEF RouteIn, KeyOf
    <3>5. ASSUME NEW i \in 1..Len(s) PROVE MarkedAt(U, s, i)
      <4>1. i - 1 \in 0..Len(Way(s)) /\ i \in Nat
        BY <3>4
      <4>2. Cut(Way(s), i - 1) \in DOMAIN e.tree
        BY <1>5, <3>4, <4>1 DEF IsTree
      <4>3. MarkedAt(e.tree, s, i)
        BY <3>1, <3>3 DEF RouteIn
      <4> QED BY <2>7, <4>1, <4>2, <4>3
    <3> QED BY <2>4, <2>5, <3>1, <3>2, <3>3, <3>5 DEF RouteIn, KeyOf
  <2>9. RouteIn(U, r) /\ KeyOf(r) = Way(p)
    <3>1. ASSUME NEW i \in 1..Len(p) PROVE MarkedAt(U, p, i)
      <4>1. i - 1 \in 0..Len(Way(p)) /\ i \in Nat
        BY <1>2
      <4>2. Cut(Way(p), i - 1) \in DOMAIN e.tree
        BY <1>2, <1>5, <2>4, <4>1 DEF IsTree
      <4> QED BY <2>4, <2>7, <4>1, <4>2
    <3> QED BY <1>1, <1>5, <2>4, <2>5, <3>1 DEF RouteIn, KeyOf
  <2>10. Apart(K \cup {r})
    BY <1>7, <2>8, <2>9 DEF Apart
  <2>11. Backed(U, K \cup {r})
    BY <1>7, <2>4, <2>5, <2>9 DEF Backed
  <2>12. ASSUME w PROVE NoMore(U, K \cup {r})
    <3>1. ASSUME NEW n \in DOMAIN U
          PROVE  n = <<>> \/ \E q \in K \cup {r} : \E j \in 0..Len(KeyOf(q)) : n = Cut(KeyOf(q), j)
      <4>1. CASE n \in DOMAIN T
        BY <2>12, <4>1 DEF Held, NoMore
      <4>2. CASE \E j \in 0..Len(p) : n = Cut(Way(p), j)
        BY <1>2, <2>9, <4>2
      <4> QED BY <2>4, <2>5, <3>1, <4>1, <4>2
    <3> QED BY <3>1 DEF NoMore
  <2>13. Held(U, K \cup {r}, w)
    BY <2>6, <2>8, <2>9, <2>10, <2>11, <2>12 DEF Held
  <2> QED BY <1>4, <2>3, <2>13
<1> QED BY <1>8, <1>9

-----------------------------------------------------------------------------
(* What route() makes of the table. *)

Named == Handlers \cup {DocHandler}
Listed == {r \in [method : Methods, path : Seq(Segments), handler : Named, shown : BOOLEAN] : r.path # <<>>}
Known(t, m) == {r \in ToSet(t.routes) \cup t.bare : r.method = m}

\* _route_by_handler: every route is found by its handler, and every handler
\* leads to a route of its own.
ByName(t) ==
    /\ t.byHandler = [h \in DOMAIN t.byHandler |-> t.byHandler[h]]
    /\ \A i \in DOMAIN t.routes : t.routes[i].handler \in DOMAIN t.byHandler
    /\ \A h \in DOMAIN t.byHandler :
           \E i \in DOMAIN t.routes : t.byHandler[h] = t.routes[i] /\ t.routes[i].handler = h

Plainly(t) ==
    /\ t = [trees |-> t.trees, routes |-> t.routes, byHandler |-> t.byHandler, cache |-> t.cache,
            bare |-> t.bare]
    /\ t.trees = [m \in Methods |-> t.trees[m]]
    /\ t.routes \in Seq(Listed) /\ t.bare \in SUBSET Listed

\* Each tree holds the routes of its method, those that were refused a plan
\* included; whole: no registration was refused.
TableOK(t, whole) ==
    /\ Plainly(t)
    /\ ByName(t)
    /\ \A m \in Methods : Held(t.trees[m], Known(t, m), whole)

\* A document in the cache is of these routes.
Cached(t, u) == u.cache = None \/ (u.cache = t.cache /\ u.routes = t.routes)

\* A whole tree holds what it holds.
LEMMA HeldLess ==
  ASSUME NEW T, NEW K, NEW w \in BOOLEAN, NEW v \in BOOLEAN, Held(T, K, w), v => w
  PROVE  Held(T, K, v)
BY DEF Held

\* A registration leaves a table in order, whether it is refused or not, and
\* throws the document away unless the routes are the same.
LEMMA RoutedIs ==
  ASSUME NEW t, NEW w \in BOOLEAN, TableOK(t, w), NEW r \in Listed, NEW plans \in BOOLEAN
  PROVE  /\ Routed(t, r, plans).ok \in BOOLEAN
         /\ Routed(t, r, plans) = [ok |-> Routed(t, r, plans).ok, table |-> Routed(t, r, plans).table]
         /\ TableOK(Routed(t, r, plans).table, w /\ Routed(t, r, plans).ok)
         /\ Cached(t, Routed(t, r, plans).table)
<1>1. PICK a : a = Add(t.trees[r.method], r.path, r.handler)
  OBVIOUS
<1>2. PICK m \in Methods : m = r.method
  BY DEF Listed
<1>3. r.path \in Seq(Segments) /\ r.handler \in Named
  BY DEF Listed
<1>4. /\ a.ok \in BOOLEAN
      /\ a.ok => Held(a.tree, Known(t, m) \cup {r}, w)
      /\ ~a.ok => Held(a.tree, Known(t, m), FALSE)
  <2>1. Held(t.trees[m], Known(t, m), w)
    BY <1>2 DEF TableOK
  <2> QED BY <1>1, <1>2, <1>3, <2>1, AddHolds DEF Named
<1>5. PICK u : u = Routed(t, r, plans)
  OBVIOUS
<1>6. Plainly(t) /\ ByName(t) /\ \A n \in Methods : Held(t.trees[n], Known(t, n), w)
  BY DEF TableOK
<1>7. PICK trees : trees = [t.trees EXCEPT ![m] = a.tree]
  OBVIOUS
<1>8. /\ trees = [n \in Methods |-> trees[n]] /\ trees[m] = a.tree
      /\ \A n \in Methods : n # m => trees[n] = t.trees[n]
  BY <1>2, <1>6, <1>7 DEF Plainly
<1>9. CASE a.ok /\ plans
  <2>1. PICK v : v = [trees |-> trees, routes |-> Append(t.routes, r), byHandler |-> With(t.byHandler, r.handler, r),
                      cache |-> None, bare |-> t.bare]
    OBVIOUS
  <2>2. u = [ok |-> TRUE, table |-> v]
    BY <1>1, <1>2, <1>5, <1>6, <1>7, <1>9, <2>1 DEF Routed, Plainly
  <2>3. /\ v.trees = trees /\ v.routes = Append(t.routes, r) /\ v.cache = None /\ v.bare = t.bare
        /\ v.byHandler = With(t.byHandler, r.handler, r)
    BY <2>1
  <2>4. Plainly(v)
    <3>1. v.routes \in Seq(Listed) /\ v.bare \in SUBSET Listed
      BY <1>6, <2>3, AppendProperties DEF Plainly
    <3> QED BY <1>8, <2>1, <2>3, <3>1 DEF Plainly
  <2>5. /\ Len(v.routes) = Len(t.routes) + 1 /\ Len(t.routes) \in Nat /\ v.routes[Len(t.routes) + 1] = r
        /\ \A i \in 1..Len(t.routes) : v.routes[i] = t.routes[i]
        /\ DOMAIN t.routes = 1..Len(t.routes) /\ DOMAIN v.routes = 1..Len(v.routes)
    BY <1>6, <2>3, <2>4 DEF Plainly
  <2>6. ByName(v)
    <3>1. /\ DOMAIN v.byHandler = DOMAIN t.byHandler \cup {r.handler} /\ v.byHandler[r.handler] = r
          /\ v.byHandler = [h \in DOMAIN v.byHandler |-> v.byHandler[h]]
          /\ \A h \in DOMAIN t.byHandler : h # r.handler => v.byHandler[h] = t.byHandler[h]
      BY <2>3 DEF With
    <3>2. ASSUME NEW i \in DOMAIN v.routes PROVE v.routes[i].handler \in DOMAIN v.byHandler
      <4>1. i \in 1..Len(t.routes) \/ i = Len(t.routes) + 1
        BY <2>5, <3>2
      <4> QED BY <1>6, <2>5, <3>1, <4>1 DEF ByName
    <3>3. ASSUME NEW h \in DOMAIN v.byHandler
          PROVE  \E i \in DOMAIN v.routes : v.byHandler[h] = v.routes[i] /\ v.routes[i].handler = h
      <4>1. CASE h = r.handler
        <5>1. Len(t.routes) + 1 \in DOMAIN v.routes
          BY <2>5
        <5> QED BY <2>5, <3>1, <4>1, <5>1
      <4>2. CASE h # r.handler
        <5>1. h \in DOMAIN t.byHandler
          BY <3>1, <3>3, <4>2
        <5>2. PICK i \in DOMAIN t.routes : t.byHandler[h] = t.routes[i] /\ t.routes[i].handler = h
          BY <1>6, <5>1 DEF ByName
        <5>3. i \in DOMAIN v.routes /\ v.routes[i] = t.routes[i]
          BY <2>5, <5>2
        <5> QED BY <3>1, <4>2, <5>1, <5>2, <5>3
      <4> QED BY <4>1, <4>2
    <3> QED BY <3>1, <3>2, <3>3 DEF ByName
  <2>7. ToSet(v.routes) = ToSet(t.routes) \cup {r}
    <3>1. ASSUME NEW x PROVE (\E i \in DOMAIN v.routes : v.routes[i] = x)
                             <=> (\E i \in DOMAIN t.routes : t.routes[i] = x) \/ x = r
      <4>1. \A i \in DOMAIN v.routes : i \in DOMAIN t.routes \/ i = Len(t.routes) + 1
        BY <2>5
      <4>2. \A i \in DOMAIN t.routes : i \in DOMAIN v.routes
        BY <2>5
      <4>3. Len(t.routes) + 1 \in DOMAIN v.routes
        BY <2>5
      <4> QED BY <2>5, <4>1, <4>2, <4>3
    <3> QED BY <3>1 DEF ToSet
  <2>8. Known(v, m) = Known(t, m) \cup {r} /\ \A n \in Methods : n # m => Known(v, n) = Known(t, n)
    BY <1>2, <2>3, <2>7 DEF Known
  <2>9. \A n \in Methods : Held(v.trees[n], Known(v, n), w)
    BY <1>4, <1>6, <1>8, <1>9, <2>3, <2>8
  <2>10. u.ok = TRUE /\ u.table = v /\ u = [ok |-> u.ok, table |-> u.table]
    BY <2>2
  <2>11. TableOK(v, w) /\ (w /\ u.ok) = w
    BY <2>4, <2>6, <2>9, <2>10 DEF TableOK
  <2> QED BY <1>5, <2>3, <2>10, <2>11 DEF Cached
<1>10. CASE ~(a.ok /\ plans)
  <2>1. PICK bare : bare = IF a.ok THEN t.bare \cup {r} ELSE t.bare
    OBVIOUS
  <2>2. PICK v : v = [trees |-> trees, routes |-> t.routes, byHandler |-> t.byHandler,
                      cache |-> t.cache, bare |-> bare]
    OBVIOUS
  <2>3. u = [ok |-> FALSE, table |-> v]
    BY <1>1, <1>2, <1>5, <1>6, <1>7, <1>10, <2>1, <2>2 DEF Routed, Plainly
  <2>4. /\ v.trees = trees /\ v.routes = t.routes /\ v.cache = t.cache /\ v.bare = bare
        /\ v.byHandler = t.byHandler
    BY <2>2
  <2>5. Plainly(v)
    BY <1>6, <1>8, <2>1, <2>2, <2>4 DEF Plainly
  <2>6. ByName(v)
    BY <1>6, <2>4 DEF ByName
  <2>7. /\ Known(v, m) = IF a.ok THEN Known(t, m) \cup {r} ELSE Known(t, m)
        /\ \A n \in Methods : n # m => Known(v, n) = Known(t, n)
    BY <1>2, <2>1, <2>4 DEF Known
  <2>8. ASSUME NEW n \in Methods PROVE Held(v.trees[n], Known(v, n), FALSE)
    <3>1. CASE n = m /\ a.ok
      <4>1. Held(a.tree, Known(t, m) \cup {r}, w)
        BY <1>4, <3>1
      <4>2. Held(a.tree, Known(t, m) \cup {r}, FALSE)
        BY <4>1, HeldLess
      <4> QED BY <1>8, <2>4, <2>7, <3>1, <4>2
    <3>2. CASE n = m /\ ~a.ok
      BY <1>4, <1>8, <2>4, <2>7, <3>2
    <3>3. CASE n # m
      <4>1. Held(t.trees[n], Known(t, n), FALSE)
        <5>1. Held(t.trees[n], Known(t, n), w)
          BY <1>6
        <5> QED BY <5>1, HeldLess
      <4> QED BY <1>8, <2>4, <2>7, <3>3, <4>1
    <3> QED BY <3>1, <3>2, <3>3
  <2>9. u.ok = FALSE /\ u.table = v /\ u = [ok |-> u.ok, table |-> u.table]
    BY <2>3
  <2>10. TableOK(v, FALSE) /\ (w /\ u.ok) = FALSE
    BY <2>5, <2>6, <2>8, <2>9 DEF TableOK
  <2> QED BY <1>5, <2>4, <2>9, <2>10 DEF Cached
<1> QED BY <1>9, <1>10

-----------------------------------------------------------------------------
(* What include_router makes of it, route by route. *)

\* The same for what a call that registers several routes gives back.
Sound(t, w, d) ==
    /\ d.ok \in BOOLEAN /\ d = [ok |-> d.ok, table |-> d.table]
    /\ TableOK(d.table, w /\ d.ok)
    /\ Cached(t, d.table)

Tables(t) == [trees : [Methods -> Trees], routes : Seq(Listed),
              byHandler : UNION {[D -> Listed] : D \in SUBSET Named},
              cache : {None, t.cache}, bare : SUBSET Listed]
Results(t, w) == {d \in [ok : BOOLEAN, table : Tables(t)] : Sound(t, w, d)}

\* Such results are a set.
LEMMA ResultIn ==
  ASSUME NEW t, NEW w \in BOOLEAN, NEW d, Sound(t, w, d)
  PROVE  d \in Results(t, w)
<1>1. PICK u : u = d.table
  OBVIOUS
<1>2. Plainly(u) /\ ByName(u) /\ \A m \in Methods : IsTree(u.trees[m])
  BY <1>1 DEF Sound, TableOK, Held
<1>3. u.trees \in [Methods -> Trees]
  <2>1. \A m \in Methods : u.trees[m] \in Trees
    BY <1>2, TreeIn
  <2> QED BY <1>2, <2>1 DEF Plainly
<1>4. u.byHandler \in UNION {[D -> Listed] : D \in SUBSET Named}
  <2>1. ASSUME NEW h \in DOMAIN u.byHandler PROVE u.byHandler[h] \in Listed /\ h \in Named
    <3>1. PICK i \in DOMAIN u.routes : u.byHandler[h] = u.routes[i] /\ u.routes[i].handler = h
      BY <1>2, <2>1 DEF ByName
    <3>2. u.routes[i] \in Listed
      BY <1>2, <3>1 DEF Plainly
    <3> QED BY <3>1, <3>2 DEF Listed
  <2>2. DOMAIN u.byHandler \in SUBSET Named
    BY <2>1
  <2>3. u.byHandler \in [DOMAIN u.byHandler -> Listed]
    BY <1>2, <2>1 DEF ByName
  <2> QED BY <2>2, <2>3
<1>5. u.cache \in {None, t.cache}
  BY <1>1 DEF Sound, Cached
<1>6. u \in Tables(t)
  BY <1>2, <1>3, <1>4, <1>5 DEF Plainly, Tables
<1> QED BY <1>1, <1>6 DEF Results, Sound

Included(b, prefix) ==
    [b EXCEPT !.path = IF prefix \o b.path = <<>> THEN <<Empty>> ELSE prefix \o b.path]

\* A route of a bundle, under a prefix, is a route.
LEMMA IncludedIn ==
  ASSUME NEW bundle \in Bundles, NEW prefix \in Roots, NEW i \in 1..Len(bundle)
  PROVE  Included(bundle[i], prefix) \in Listed
<1>a. PICK R : R = [method : Methods, path : Seq(Segments), handler : Handlers, shown : BOOLEAN]
  OBVIOUS
<1>1. bundle \in Seq(R) /\ prefix \in Seq(Segments) /\ Empty \in Segments
  BY <1>a, RoutingConstants
<1>2. PICK b : b = bundle[i]
  OBVIOUS
<1>3. b \in [method : Methods, path : Seq(Segments), handler : Handlers, shown : BOOLEAN]
      /\ b = [method |-> b.method, path |-> b.path, handler |-> b.handler, shown |-> b.shown]
  <2>1. b \in R
    BY <1>1, <1>2
  <2> QED BY <1>a, <2>1
<1>4. PICK path : path = IF prefix \o b.path = <<>> THEN <<Empty>> ELSE prefix \o b.path
  OBVIOUS
<1>5. path \in Seq(Segments) /\ path # <<>>
  BY <1>1, <1>3, <1>4
<1>6. Included(b, prefix) = [method |-> b.method, path |-> path, handler |-> b.handler, shown |-> b.shown]
  <2>1. Included(b, prefix) = [b EXCEPT !.path = path]
    BY <1>4 DEF Included
  <2> QED BY <1>3, <2>1
<1> QED BY <1>2, <1>3, <1>5, <1>6 DEF Listed, Named

\* One route more, when none has raised.
More(d, b, prefix, plans) == IF d.ok THEN Routed(d.table, Included(b, prefix), plans) ELSE d

\* One route more keeps the table in order.
LEMMA MoreSound ==
  ASSUME NEW t, NEW w \in BOOLEAN, NEW d, Sound(t, w, d), NEW bundle \in Bundles, NEW prefix \in Roots,
         NEW i \in 1..Len(bundle), NEW plans \in BOOLEAN
  PROVE  Sound(t, w, More(d, bundle[i], prefix, plans))
<1>1. PICK r : r = Included(bundle[i], prefix)
  OBVIOUS
<1>2. r \in Listed
  BY <1>1, IncludedIn
<1>3. CASE ~d.ok
  BY <1>3 DEF More
<1>4. CASE d.ok
  <2>1. PICK u : u = Routed(d.table, r, plans)
    OBVIOUS
  <2>2. TableOK(d.table, w)
    <3>1. (w /\ d.ok) = w
      BY <1>4
    <3> QED BY <3>1 DEF Sound
  <2>3. /\ u.ok \in BOOLEAN /\ u = [ok |-> u.ok, table |-> u.table]
        /\ TableOK(u.table, w /\ u.ok) /\ Cached(d.table, u.table)
    BY <1>2, <2>1, <2>2, RoutedIs
  <2>4. Cached(t, u.table)
    BY <2>3 DEF Sound, Cached
  <2>5. Sound(t, w, u)
    BY <2>3, <2>4 DEF Sound
  <2> QED BY <1>1, <1>4, <2>1, <2>5 DEF More
<1> QED BY <1>3, <1>4 DEF Sound

\* What include_router makes of a table.
Bundled(t, bundle, prefix, raising) ==
    (CHOOSE f : f = [i \in 0..Len(bundle) |->
        IF i = 0 THEN [ok |-> TRUE, table |-> t]
        ELSE More(f[i - 1], bundle[i], prefix, i # raising)])[Len(bundle)]

\* ... so include_router does, whichever of its routes is refused.
LEMMA IncludeIs ==
  ASSUME NEW t, NEW w \in BOOLEAN, TableOK(t, w), NEW bundle \in Bundles, NEW prefix \in Roots, NEW raising
  PROVE  Sound(t, w, Bundled(t, bundle, prefix, raising))
<1>1. PICK n \in Nat : n = Len(bundle)
  <2>1. bundle \in Seq([method : Methods, path : Seq(Segments), handler : Handlers, shown : BOOLEAN])
    BY RoutingConstants
  <2> QED BY <2>1
<1>2. PICK base : base = [ok |-> TRUE, table |-> t]
  OBVIOUS
<1>3. PICK V : V = Results(t, w)
  OBVIOUS
<1>4. base \in V /\ Sound(t, w, base)
  <2>1. base.ok = TRUE /\ base.table = t /\ (w /\ base.ok) = w
    BY <1>2
  <2>2. Sound(t, w, base)
    BY <1>2, <2>1 DEF Sound, Cached
  <2> QED BY <1>3, <2>2, ResultIn
<1>5. PICK F : F = [q \in (1..n) \X V |-> More(q[2], bundle[q[1]], prefix, q[1] # raising)]
  OBVIOUS
<1>6. F \in [(1..n) \X V -> V]
  <2>1. ASSUME NEW q \in (1..n) \X V PROVE More(q[2], bundle[q[1]], prefix, q[1] # raising) \in V
    <3>1. Sound(t, w, q[2]) /\ q[1] \in 1..Len(bundle)
      BY <1>1, <1>3, <2>1 DEF Results
    <3>2. Sound(t, w, More(q[2], bundle[q[1]], prefix, q[1] # raising))
      BY <3>1, MoreSound
    <3> QED BY <1>3, <3>2, ResultIn
  <2> QED BY <1>5, <2>1
<1>7. PICK h : UpTo(h, F, base, V, n)
  BY <1>1, <1>4, <1>6, RecExists
<1>8. ASSUME NEW i \in 0..n PROVE h[i] = IF i = 0 THEN base ELSE More(h[i - 1], bundle[i], prefix, i # raising)
  <2>1. CASE i = 0
    BY <1>7, <2>1 DEF UpTo
  <2>2. CASE i # 0
    <3>1. i \in 1..n /\ i - 1 \in 0..n
      BY <1>8, <2>2
    <3>2. h[i] = F[<<i, h[i - 1]>>] /\ h[i - 1] \in V
      BY <1>7, <3>1 DEF UpTo
    <3> QED BY <1>5, <2>2, <3>1, <3>2
  <2> QED BY <2>1, <2>2
<1>9. h = [i \in 0..n |-> IF i = 0 THEN base ELSE More(h[i - 1], bundle[i], prefix, i # raising)]
  BY <1>7, <1>8 DEF UpTo
<1>10. PICK g : g = CHOOSE f : f = [i \in 0..n |-> IF i = 0 THEN base ELSE More(f[i - 1], bundle[i], prefix, i # raising)]
  OBVIOUS
<1>11. g = [i \in 0..n |-> IF i = 0 THEN base ELSE More(g[i - 1], bundle[i], prefix, i # raising)]
  BY <1>9, <1>10
<1>12. PICK S : S = {i \in Nat : i <= n => Sound(t, w, g[i])}
  OBVIOUS
<1>13. 0 \in S
  <2>1. g[0] = base
    BY <1>1, <1>11
  <2> QED BY <1>4, <1>12, <2>1
<1>14. ASSUME NEW i \in Nat, i \in S, i + 1 <= n PROVE Sound(t, w, g[i + 1])
  <2>1. PICK m : m = i + 1
    OBVIOUS
  <2>2. m \in 0..n /\ m # 0 /\ m - 1 = i /\ m \in 1..Len(bundle)
    BY <1>1, <1>14, <2>1
  <2>3. g[m] = More(g[m - 1], bundle[m], prefix, m # raising)
    BY <1>11, <2>2
  <2>4. Sound(t, w, g[i])
    BY <1>12, <1>14
  <2>5. Sound(t, w, More(g[i], bundle[m], prefix, m # raising))
    BY <2>2, <2>4, MoreSound
  <2> QED BY <2>1, <2>2, <2>3, <2>5
<1>15. \A i \in Nat : i \in S => i + 1 \in S
  BY <1>12, <1>14
<1>16. n \in S
  BY <1>13, <1>15, SetInd
<1>17. Sound(t, w, g[n])
  BY <1>1, <1>12, <1>16
<1>18. Bundled(t, bundle, prefix, raising) = g[n]
  BY <1>1, <1>2, <1>10 DEF Bundled
<1> QED BY <1>17, <1>18

-----------------------------------------------------------------------------
(* The invariant. *)

RoutingInv ==
    /\ refused \in BOOLEAN
    /\ TableOK(table, ~refused)
    /\ subapps \in Seq(Roots) /\ statics \in Seq(Roots)
    /\ DocCurrent

\* The table of a new application, with the route of its document.
LEMMA FreshOK == TableOK(FreshTable, TRUE)
<1>1. PICK t : t = FreshTable
  OBVIOUS
<1>2. /\ t.trees = [m \in Methods |-> [n \in {<<>>} |-> FreshNode]] /\ t.routes = <<>>
      /\ t.byHandler = <<>> /\ t.cache = None /\ t.bare = {}
      /\ t = [trees |-> t.trees, routes |-> t.routes, byHandler |-> t.byHandler, cache |-> t.cache,
              bare |-> t.bare]
  BY <1>1 DEF FreshTable
<1>3. Plainly(t)
  BY <1>2 DEF Plainly
<1>4. ByName(t)
  BY <1>2 DEF ByName
<1>5. PICK T : T = [n \in {<<>>} |-> FreshNode]
  OBVIOUS
<1>6. FreshNode \in Nodes /\ FreshNode.handler = None /\ FreshNode.param = NoParam
  BY DEF FreshNode, Nodes, Kinds, Ends
<1>7. IsTree(T)
  <2>1. <<>> \in Names
    BY DEF Names
  <2>2. \A i \in 0..Len(<<>>) : Cut(<<>>, i) = <<>>
    BY <2>1, CutIs
  <2>3. Append(<<>>, Dyn) # <<>>
    OBVIOUS
  <2> QED BY <1>5, <1>6, <2>1, <2>2, <2>3 DEF IsTree
<1>8. ASSUME NEW m \in Methods PROVE Held(t.trees[m], Known(t, m), TRUE)
  <2>1. t.trees[m] = T /\ Known(t, m) = {}
    BY <1>2, <1>5 DEF Known, ToSet
  <2>2. Held(T, {}, TRUE)
    BY <1>5, <1>6, <1>7 DEF Held, Apart, Backed, NoMore
  <2> QED BY <2>1, <2>2
<1> QED BY <1>1, <1>3, <1>4, <1>8 DEF TableOK

\* That route is a route.
LEMMA DocListed == DocRoute \in Listed
<1>1. DocPath \in Seq(Segments) /\ DocPath # <<>> /\ "GET" \in Methods
  BY RoutingConstants
<1> QED BY <1>1 DEF DocRoute, Listed, Named

LEMMA RoutingInitInv == RoutingInit => RoutingInv
<1> SUFFICES ASSUME RoutingInit PROVE RoutingInv
  OBVIOUS
<1>1. PICK u : u = Routed(FreshTable, DocRoute, TRUE)
  OBVIOUS
<1>2. u.ok \in BOOLEAN /\ TableOK(u.table, TRUE /\ u.ok) /\ Cached(FreshTable, u.table)
  BY <1>1, FreshOK, DocListed, RoutedIs
<1>3. u.ok = TRUE
  BY <1>1, <1>2, DocRegistered
<1>4. TableOK(u.table, TRUE) /\ u.table.cache = None
  BY <1>2, <1>3 DEF Cached, FreshTable
<1>5. table = u.table /\ refused = FALSE /\ subapps = <<>> /\ statics = <<>>
  BY <1>1 DEF RoutingInit
<1>6. TableOK(table, ~refused)
  BY <1>4, <1>5
<1>7. DocCurrent
  BY <1>4, <1>5 DEF DocCurrent
<1>8. subapps \in Seq(Roots) /\ statics \in Seq(Roots)
  <2>1. <<>> \in Seq(Roots)
    OBVIOUS
  <2> QED BY <1>5, <2>1
<1>9. refused \in BOOLEAN
  BY <1>5
<1> QED BY <1>6, <1>7, <1>8, <1>9 DEF RoutingInv

\* Whatever a call makes of a table in order, the invariant holds of it.
LEMMA BecomesInv ==
  ASSUME RoutingInv, NEW d, Sound(table, ~refused, d), Becomes(d), UNCHANGED <<mounts, option>>
  PROVE  RoutingInv'
<1>1. table' = d.table /\ refused' = (refused \/ ~d.ok) /\ d.ok \in BOOLEAN /\ refused \in BOOLEAN
  BY DEF Becomes, Sound, RoutingInv
<1>2. (~refused)' = (~refused /\ d.ok) /\ refused' \in BOOLEAN
  BY <1>1
<1>3. TableOK(table', (~refused)')
  BY <1>1, <1>2 DEF Sound
<1>4. DocCurrent'
  BY <1>1 DEF Sound, Cached, RoutingInv, DocCurrent, Document
<1> QED BY <1>2, <1>3, <1>4 DEF RoutingInv, mounts

\* One action each.
LEMMA RegisterInv ==
  ASSUME RoutingInv, NEW r \in Listed, NEW plans \in BOOLEAN, Register(r, plans)
  PROVE  RoutingInv'
<1>1. PICK d : d = Routed(table, r, plans)
  OBVIOUS
<1>2. Sound(table, ~refused, d)
  <2>1. TableOK(table, ~refused) /\ (~refused) \in BOOLEAN
    BY DEF RoutingInv
  <2> QED BY <1>1, <2>1, RoutedIs DEF Sound
<1>3. Becomes(d) /\ UNCHANGED <<mounts, option>>
  BY <1>1 DEF Register
<1> QED BY <1>2, <1>3, BecomesInv

LEMMA IncludeInv ==
  ASSUME RoutingInv, NEW bundle \in Bundles, NEW prefix \in Roots, NEW raising,
         Include(bundle, prefix, raising)
  PROVE  RoutingInv'
<1>1. PICK d : d = Bundled(table, bundle, prefix, raising)
  OBVIOUS
<1>2. Becomes(d) /\ UNCHANGED <<mounts, option>>
  <2>1. Becomes(Bundled(table, bundle, prefix, raising)) /\ UNCHANGED <<mounts, option>>
    BY Zenon DEF Include, Bundled, More, Included
  <2> QED BY <1>1, <2>1
<1>3. Sound(table, ~refused, d)
  <2>1. TableOK(table, ~refused) /\ (~refused) \in BOOLEAN
    BY DEF RoutingInv
  <2> QED BY <1>1, <2>1, IncludeIs
<1> QED BY <1>2, <1>3, BecomesInv

\* Nothing but the cache, or not even that.
LEMMA CacheOK ==
  ASSUME NEW t, NEW w \in BOOLEAN, TableOK(t, w), NEW c
  PROVE  TableOK([t EXCEPT !.cache = c], w)
<1>1. PICK u : u = [t EXCEPT !.cache = c]
  OBVIOUS
<1>2. /\ u.trees = t.trees /\ u.routes = t.routes /\ u.byHandler = t.byHandler /\ u.bare = t.bare
      /\ u = [trees |-> u.trees, routes |-> u.routes, byHandler |-> u.byHandler, cache |-> u.cache,
              bare |-> u.bare]
  BY <1>1 DEF TableOK, Plainly
<1>3. \A m \in Methods : Known(u, m) = Known(t, m)
  BY <1>2 DEF Known
<1>4. Plainly(u) /\ ByName(u)
  BY <1>2 DEF TableOK, Plainly, ByName
<1>5. \A m \in Methods : Held(u.trees[m], Known(u, m), w)
  BY <1>2, <1>3 DEF TableOK
<1> QED BY <1>1, <1>4, <1>5 DEF TableOK

\* Every step keeps the invariant.
LEMMA RoutingNextInv == RoutingInv /\ [RoutingNext]_routingVars => RoutingInv'
<1> SUFFICES ASSUME RoutingInv, [RoutingNext]_routingVars PROVE RoutingInv'
  OBVIOUS
<1>0. TableOK(table, ~refused) /\ (~refused) \in BOOLEAN /\ refused \in BOOLEAN /\ Plainly(table)
  BY DEF RoutingInv, TableOK
<1>1. ASSUME NEW p \in Patterns, NEW h \in Handlers, NEW plans \in BOOLEAN,
             NEW r, r = [method |-> p.method, path |-> p.path, handler |-> h, shown |-> TRUE],
             Route(r, plans) \/ Websocket(r, plans)
      PROVE  RoutingInv'
  <2>1. r \in Listed
    <3>1. p.method \in Methods /\ p.path \in Seq(Segments) /\ p.path # <<>>
      BY RoutingConstants
    <3> QED BY <1>1, <3>1 DEF Listed, Named
  <2>2. Register(r, plans)
    BY <1>1 DEF Route, Websocket
  <2> QED BY <2>1, <2>2, RegisterInv
<1>2. ASSUME NEW bundle \in Bundles, NEW prefix \in Roots,
             NEW raising \in 0..Len(bundle), Include(bundle, prefix, raising)
      PROVE  RoutingInv'
  BY <1>2, IncludeInv
<1>3. ASSUME NEW prefix \in Roots, Mount(prefix) \/ MountStatic(prefix) PROVE RoutingInv'
  <2>1. UNCHANGED <<table, refused, option>>
    BY <1>3 DEF Mount, MountStatic
  <2>2. subapps' \in Seq(Roots) /\ statics' \in Seq(Roots)
    <3>1. subapps \in Seq(Roots) /\ statics \in Seq(Roots)
      BY DEF RoutingInv
    <3>2. Append(subapps, prefix) \in Seq(Roots) /\ Append(statics, prefix) \in Seq(Roots)
      BY <1>3, <3>1, AppendProperties
    <3> QED BY <1>3, <3>1, <3>2 DEF Mount, MountStatic
  <2>3. TableOK(table', ~refused') /\ refused' \in BOOLEAN
    BY <1>0, <2>1
  <2>4. DocCurrent'
    BY <2>1 DEF RoutingInv, DocCurrent, Document
  <2> QED BY <2>2, <2>3, <2>4 DEF RoutingInv
<1>4. CASE SetDocOption
  <2>1. table' = [table EXCEPT !.cache = None] /\ UNCHANGED <<refused, mounts>>
    BY <1>4 DEF SetDocOption
  <2>2. TableOK(table', ~refused')
    BY <1>0, <2>1, CacheOK
  <2>3. table'.cache = None
    BY <1>0, <2>1 DEF Plainly
  <2> QED BY <2>1, <2>2, <2>3 DEF RoutingInv, DocCurrent, mounts
<1>5. CASE ServeDoc
  <2>1. table' = [table EXCEPT !.cache = Document] /\ UNCHANGED <<refused, mounts, option>>
    BY <1>5 DEF ServeDoc
  <2>2. TableOK(table', ~refused')
    BY <1>0, <2>1, CacheOK
  <2>3. table'.cache = Document /\ table'.routes = table.routes
    BY <1>0, <2>1 DEF Plainly
  <2>4. Document' = Document
    BY <2>1, <2>3 DEF Document
  <2> QED BY <2>1, <2>2, <2>3, <2>4 DEF RoutingInv, DocCurrent, mounts
<1>6. CASE UNCHANGED routingVars
  BY <1>6 DEF routingVars, mounts, RoutingInv, DocCurrent, Document
<1> QED BY <1>1, <1>2, <1>3, <1>4, <1>5, <1>6 DEF RoutingNext

\* The invariant holds in every reachable state.
LEMMA RoutingAlwaysInv == RoutingSpec => []RoutingInv
BY RoutingInitInv, RoutingNextInv, PTL DEF RoutingSpec

\* The document served is that of the routes and options of the moment: every
\* way to register a route and every set_openapi_... method throws the cached
\* one away (route, include_router, add_websocket_route, openapi).
THEOREM DocIsCurrent == RoutingSpec => []DocCurrent
<1>1. RoutingInv => DocCurrent
  BY DEF RoutingInv
<1> QED BY <1>1, RoutingAlwaysInv, PTL

-----------------------------------------------------------------------------
(* The way a path takes through a tree: Router.match. *)

MarkNames == {Markers[s].name : s \in DOMAIN Markers}
Bindings == UNION {[D -> Seq(Segments)] : D \in SUBSET MarkNames}
WalkStates(T) == [node : DOMAIN T \cup {None}, params : Bindings, rest : BOOLEAN]

\* The step that leads to n[j] is the literal child where there is one, else
\* the child of a marker that takes the segment.
TakenAt(T, segs, n, j, rest) ==
    \/ n[j] = segs[j]
    \/ /\ n[j] = None /\ Append(Cut(n, j - 1), segs[j]) \notin DOMAIN T
       /\ T[Cut(n, j - 1)].param # NoParam
       /\ IF rest /\ j = Len(n) THEN T[Cut(n, j - 1)].param.conv = "path"
          ELSE /\ T[Cut(n, j - 1)].param.conv # "path"
               /\ ValidFor(T[Cut(n, j - 1)].param.conv, segs[j])

\* The markers on the way to a node, and what they bind.
Marks(n) == {j \in 1..Len(n) : n[j] = None}
NameAt(T, n, j) == T[Cut(n, j - 1)].param.name
ValueAt(T, segs, n, j) ==
    IF T[Cut(n, j - 1)].param.conv = "path" THEN SubSeq(segs, j, Len(segs)) ELSE <<segs[j]>>
LastOf(T, n, j) == \A k \in Marks(n) : k > j => NameAt(T, n, k) # NameAt(T, n, j)

\* The parameters are those of the markers on the way, of a name used twice the
\* last.
Bound(T, segs, n, params) ==
    /\ params = [x \in DOMAIN params |-> params[x]]
    /\ \A x \in DOMAIN params : \E j \in Marks(n) : x = NameAt(T, n, j)
    /\ \A j \in Marks(n) : NameAt(T, n, j) \in DOMAIN params
    /\ \A j \in Marks(n) : LastOf(T, n, j) => params[NameAt(T, n, j)] = ValueAt(T, segs, n, j)

\* Where Router.match is after i segments, if it has not given up.
WalkAt(T, segs, i, w) ==
    /\ w \in WalkStates(T)
    /\ w.node # None =>
           /\ Len(w.node) <= i /\ (~w.rest => Len(w.node) = i)
           /\ w.rest => Len(w.node) > 0 /\ w.node[Len(w.node)] = None
           /\ \A j \in 1..Len(w.node) : TakenAt(T, segs, w.node, j, w.rest)
           /\ Bound(T, segs, w.node, w.params)

WalkFrom == [node |-> <<>>, params |-> <<>>, rest |-> FALSE]

WalkFun(T, segs, g) ==
    /\ g[0] = WalkFrom
    /\ \A i \in 1..Len(segs) : g[i] = Walk(T, segs, g[i - 1], i)

\* The way to a child.
LEMMA AppendIs ==
  ASSUME NEW n \in Names, NEW x \in Steps
  PROVE  /\ Append(n, x) \in Names /\ Len(Append(n, x)) = Len(n) + 1 /\ Len(n) \in Nat
         /\ Append(n, x)[Len(n) + 1] = x
         /\ \A j \in 1..Len(n) : Append(n, x)[j] = n[j]
         /\ \A j \in 1..(Len(n) + 1) : Cut(Append(n, x), j - 1) = Cut(n, j - 1)
         /\ Cut(n, Len(n)) = n
<1>1. \A j \in 1..Len(n) : Append(n, x)[j] = n[j]
  BY DEF Names
<1>2. Len(n) \in Nat /\ Len(n) \in 0..Len(n)
  BY DEF Names
<1>3. \A j \in 1..(Len(n) + 1) : j - 1 \in 0..Len(n)
  BY <1>2
<1>4. Cut(n, Len(n)) = n
  BY <1>2, CutIs
<1> QED BY <1>1, <1>2, <1>3, <1>4, CutAppend

\* What a node of a tree is.
LEMMA NodeIs ==
  ASSUME NEW T, IsTree(T), NEW n \in DOMAIN T
  PROVE  /\ n \in Names /\ n # None /\ T[n].param \in Kinds
         /\ T[n].param # NoParam => /\ Append(n, None) \in DOMAIN T /\ T[n].param.name \in MarkNames
                                    /\ T[n].param.conv \in {"str", "int", "path"}
<1>1. n \in Names /\ T[n] \in Nodes /\ (T[n].param # NoParam <=> Append(n, Dyn) \in DOMAIN T)
  BY DEF IsTree
<1>2. None \notin Seq(Segments \cup {None})
  BY RoutingConstants
<1>3. n # None
  BY <1>1, <1>2 DEF Names, Steps
<1>4. ASSUME T[n].param # NoParam PROVE T[n].param.name \in MarkNames /\ T[n].param.conv \in {"str", "int", "path"}
  <2>1. PICK s \in DOMAIN Markers : T[n].param = Markers[s]
    BY <1>1, <1>4 DEF Nodes, Kinds
  <2>2. Markers[s].conv \in {"str", "int", "path"}
    BY <2>1, RoutingConstants
  <2> QED BY <2>1, <2>2 DEF MarkNames
<1> QED BY <1>1, <1>3, <1>4 DEF Dyn, Nodes

\* A step taken stays taken.
LEMMA TakenStays ==
  ASSUME NEW T, NEW segs, NEW n \in Names, NEW x \in Steps, NEW j \in 1..Len(n), NEW b \in BOOLEAN,
         TakenAt(T, segs, n, j, FALSE)
  PROVE  TakenAt(T, segs, Append(n, x), j, b)
<1>1. PICK c : c = Append(n, x)
  OBVIOUS
<1>2. c[j] = n[j] /\ Cut(c, j - 1) = Cut(n, j - 1) /\ j # Len(c)
  <2>1. j \in 1..(Len(n) + 1) /\ j # Len(n) + 1
    BY DEF Names
  <2> QED BY <1>1, <2>1, AppendIs
<1> QED BY <1>1, <1>2 DEF TakenAt

\* A literal segment binds nothing.
LEMMA BoundLiteral ==
  ASSUME NEW T, NEW segs, NEW n \in Names, NEW x \in Segments, NEW params, Bound(T, segs, n, params)
  PROVE  Bound(T, segs, Append(n, x), params)
<1>1. PICK c : c = Append(n, x)
  OBVIOUS
<1>2. x \in Steps /\ x # None
  BY RoutingConstants DEF Steps
<1>3. /\ Len(c) = Len(n) + 1 /\ Len(n) \in Nat /\ c[Len(n) + 1] = x /\ \A j \in 1..Len(n) : c[j] = n[j]
      /\ \A j \in 1..(Len(n) + 1) : Cut(c, j - 1) = Cut(n, j - 1)
  BY <1>1, <1>2, AppendIs
<1>4. Marks(c) = Marks(n)
  <2>1. \A j \in 1..Len(c) : j \in 1..Len(n) \/ j = Len(n) + 1
    BY <1>3
  <2>2. \A j \in 1..Len(n) : j \in 1..Len(c)
    BY <1>3
  <2> QED BY <1>2, <1>3, <2>1, <2>2 DEF Marks
<1>5. \A j \in Marks(n) : NameAt(T, c, j) = NameAt(T, n, j) /\ ValueAt(T, segs, c, j) = ValueAt(T, segs, n, j)
  BY <1>3 DEF Marks, NameAt, ValueAt
<1>6. \A j \in Marks(n) : LastOf(T, c, j) <=> LastOf(T, n, j)
  BY <1>4, <1>5 DEF LastOf
<1>7. Bound(T, segs, c, params)
  BY <1>4, <1>5, <1>6 DEF Bound
<1> QED BY <1>1, <1>7

\* A marker binds its name, whatever had it before.
LEMMA BoundMarker ==
  ASSUME NEW T, NEW segs, NEW n \in Names, NEW params, Bound(T, segs, n, params)
  PROVE  Bound(T, segs, Append(n, None),
               With(params, T[n].param.name,
                    IF T[n].param.conv = "path" THEN SubSeq(segs, Len(n) + 1, Len(segs))
                    ELSE <<segs[Len(n) + 1]>>))
<1>1. PICK c : c = Append(n, None)
  OBVIOUS
<1>2. PICK v : v = IF T[n].param.conv = "path" THEN SubSeq(segs, Len(n) + 1, Len(segs))
                   ELSE <<segs[Len(n) + 1]>>
  OBVIOUS
<1>3. PICK q : q = With(params, T[n].param.name, v)
  OBVIOUS
<1>4. PICK l : l = Len(n) + 1
  OBVIOUS
<1>5. None \in Steps
  BY DEF Steps
<1>6. /\ Len(c) = l /\ Len(n) \in Nat /\ c[l] = None /\ \A j \in 1..Len(n) : c[j] = n[j]
      /\ \A j \in 1..l : Cut(c, j - 1) = Cut(n, j - 1)
      /\ Cut(c, l - 1) = n
  <2>1. l \in 1..(Len(n) + 1) /\ l - 1 = Len(n)
    BY <1>4 DEF Names
  <2> QED BY <1>1, <1>4, <1>5, <2>1, AppendIs
<1>7. Marks(c) = Marks(n) \cup {l} /\ \A j \in Marks(n) : j < l /\ j \in 1..l
  <2>1. \A j \in 1..Len(c) : j \in 1..Len(n) \/ j = l
    BY <1>4, <1>6
  <2>2. \A j \in 1..Len(n) : j \in 1..Len(c) /\ j < l /\ j \in 1..l
    BY <1>4, <1>6
  <2>3. l \in 1..Len(c)
    BY <1>4, <1>6
  <2> QED BY <1>6, <2>1, <2>2, <2>3 DEF Marks
<1>8. \A j \in Marks(n) : NameAt(T, c, j) = NameAt(T, n, j) /\ ValueAt(T, segs, c, j) = ValueAt(T, segs, n, j)
  BY <1>6, <1>7 DEF NameAt, ValueAt
<1>9. NameAt(T, c, l) = T[n].param.name /\ ValueAt(T, segs, c, l) = v
  BY <1>2, <1>4, <1>6 DEF NameAt, ValueAt
<1>10. ASSUME NEW j \in Marks(n), LastOf(T, c, j)
       PROVE  LastOf(T, n, j) /\ NameAt(T, n, j) # T[n].param.name
  BY <1>7, <1>8, <1>9, <1>10 DEF LastOf
<1>11. /\ DOMAIN q = DOMAIN params \cup {T[n].param.name} /\ q[T[n].param.name] = v
       /\ q = [x \in DOMAIN q |-> q[x]]
       /\ \A x \in DOMAIN params : x # T[n].param.name => q[x] = params[x]
  BY <1>3 DEF With
<1>12. \A x \in DOMAIN q : \E j \in Marks(c) : x = NameAt(T, c, j)
  BY <1>7, <1>8, <1>9, <1>11 DEF Bound
<1>13. \A j \in Marks(c) : NameAt(T, c, j) \in DOMAIN q
  BY <1>7, <1>8, <1>9, <1>11 DEF Bound
<1>14. ASSUME NEW j \in Marks(c), LastOf(T, c, j) PROVE q[NameAt(T, c, j)] = ValueAt(T, segs, c, j)
  <2>1. CASE j = l
    BY <1>9, <1>11, <2>1
  <2>2. CASE j # l
    <3>1. j \in Marks(n)
      BY <1>7, <1>14, <2>2
    <3>2. LastOf(T, n, j) /\ NameAt(T, n, j) # T[n].param.name
      BY <1>10, <1>14, <3>1
    <3>3. params[NameAt(T, n, j)] = ValueAt(T, segs, n, j) /\ NameAt(T, n, j) \in DOMAIN params
      BY <3>1, <3>2 DEF Bound
    <3> QED BY <1>8, <1>11, <3>1, <3>2, <3>3
  <2> QED BY <2>1, <2>2
<1>15. Bound(T, segs, c, q)
  BY <1>11, <1>12, <1>13, <1>14 DEF Bound
<1> QED BY <1>1, <1>2, <1>3, <1>15

\* One segment of the path: the walk stays in the tree.
LEMMA WalkIn ==
  ASSUME NEW T, IsTree(T), NEW segs \in Seq(Segments), NEW l \in 1..Len(segs), NEW w \in WalkStates(T)
  PROVE  Walk(T, segs, w, l) \in WalkStates(T)
<1>1. PICK u : u = Walk(T, segs, w, l)
  OBVIOUS
<1>2. /\ w = [node |-> w.node, params |-> w.params, rest |-> w.rest]
      /\ w.node \in DOMAIN T \cup {None} /\ w.params \in Bindings /\ w.rest \in BOOLEAN
  BY DEF WalkStates
<1>3. PICK x : x = segs[l]
  OBVIOUS
<1>4. x \in Segments
  BY <1>3
<1>6. CASE w.node = None \/ w.rest
  BY <1>6 DEF Walk
<1>7. CASE ~(w.node = None \/ w.rest)
  <2>1. PICK n : n = w.node
    OBVIOUS
  <2>2. n \in DOMAIN T
    BY <1>2, <1>7, <2>1
  <2>3. PICK param : param = T[n].param
    OBVIOUS
  <2>4. param # NoParam => Append(n, None) \in DOMAIN T /\ param.name \in MarkNames
    BY <2>2, <2>3, NodeIs
  <2>5. CASE Append(n, x) \in DOMAIN T
    <3>1. u = [w EXCEPT !.node = Append(@, x)]
      BY <1>1, <1>3, <1>7, <2>1, <2>5 DEF Walk
    <3>2. u = [node |-> Append(n, x), params |-> w.params, rest |-> w.rest]
      BY <1>2, <2>1, <3>1
    <3> QED BY <1>1, <1>2, <2>5, <3>2 DEF WalkStates
  <2>6. CASE /\ Append(n, x) \notin DOMAIN T
             /\ param = NoParam \/ (param.conv # "path" /\ ~ValidFor(param.conv, x))
    <3>1. u = Fail(w)
      BY <1>1, <1>3, <1>7, <2>1, <2>3, <2>6 DEF Walk
    <3>2. u = [node |-> None, params |-> w.params, rest |-> w.rest]
      BY <1>2, <3>1 DEF Fail
    <3> QED BY <1>1, <1>2, <3>2 DEF WalkStates
  <2>7. CASE /\ Append(n, x) \notin DOMAIN T
             /\ param # NoParam /\ (param.conv = "path" \/ ValidFor(param.conv, x))
    <3>1. \A v \in Seq(Segments) : With(w.params, param.name, v) \in Bindings
      <4>1. ASSUME NEW v \in Seq(Segments) PROVE With(w.params, param.name, v) \in Bindings
        <5>1. PICK D \in SUBSET MarkNames : w.params \in [D -> Seq(Segments)]
          BY <1>2 DEF Bindings
        <5>2. D \cup {param.name} \in SUBSET MarkNames
          BY <2>4, <2>7, <5>1
        <5>3. With(w.params, param.name, v) \in [D \cup {param.name} -> Seq(Segments)]
          BY <4>1, <5>1 DEF With
        <5> QED BY <5>2, <5>3 DEF Bindings
      <4> QED BY <4>1
    <3>2. Append(n, None) \in DOMAIN T
      BY <2>4, <2>7
    <3>3. CASE param.conv = "path"
      <4>1. u = [node |-> Append(n, None), rest |-> TRUE,
                 params |-> With(w.params, param.name, SubSeq(segs, l, Len(segs)))]
        BY <1>1, <1>3, <1>7, <2>1, <2>3, <2>7, <3>3 DEF Walk, Dyn
      <4>2. SubSeq(segs, l, Len(segs)) \in Seq(Segments)
        OBVIOUS
      <4>3. PICK q \in Bindings : q = With(w.params, param.name, SubSeq(segs, l, Len(segs)))
        BY <3>1, <4>2
      <4>4. PICK c : c = Append(n, None)
        OBVIOUS
      <4>5. u = [node |-> c, params |-> q, rest |-> TRUE]
        BY <4>1, <4>3, <4>4
      <4> QED BY <1>1, <3>2, <4>3, <4>4, <4>5 DEF WalkStates
    <3>4. CASE param.conv # "path"
      <4>1. u = [w EXCEPT !.node = Append(n, None), !.params = With(@, param.name, <<x>>)]
        BY <1>1, <1>3, <1>7, <2>1, <2>3, <2>7, <3>4 DEF Walk, Dyn
      <4>2. u = [node |-> Append(n, None), params |-> With(w.params, param.name, <<x>>), rest |-> w.rest]
        BY <1>2, <4>1
      <4>3. <<x>> \in Seq(Segments)
        BY <1>4
      <4>4. PICK q \in Bindings : q = With(w.params, param.name, <<x>>)
        BY <3>1, <4>3
      <4>5. PICK c : c = Append(n, None)
        OBVIOUS
      <4>6. u = [node |-> c, params |-> q, rest |-> w.rest]
        BY <4>2, <4>4, <4>5
      <4> QED BY <1>1, <1>2, <3>2, <4>4, <4>5, <4>6 DEF WalkStates
    <3> QED BY <3>3, <3>4
  <2> QED BY <2>5, <2>6, <2>7
<1> QED BY <1>6, <1>7

\* And it has taken the literal child wherever there was one.
LEMMA WalkMore ==
  ASSUME NEW T, IsTree(T), NEW segs \in Seq(Segments), NEW i \in Nat, i < Len(segs),
         NEW w, WalkAt(T, segs, i, w)
  PROVE  WalkAt(T, segs, i + 1, Walk(T, segs, w, i + 1))
<1>1. PICK u : u = Walk(T, segs, w, i + 1)
  OBVIOUS
<1>2. /\ w \in WalkStates(T) /\ w = [node |-> w.node, params |-> w.params, rest |-> w.rest]
      /\ w.node \in DOMAIN T \cup {None} /\ w.params \in Bindings /\ w.rest \in BOOLEAN
  BY DEF WalkAt, WalkStates
<1>3. PICK l : l = i + 1
  OBVIOUS
<1>4. PICK x : x = segs[l]
  OBVIOUS
<1>5. x \in Segments /\ x \in Steps /\ x # None /\ None \in Steps /\ l \in 1..Len(segs) /\ l \in Nat
  <2>1. l \in 1..Len(segs)
    BY <1>3
  <2> QED BY <1>4, <2>1, RoutingConstants DEF Steps
<1>6. CASE w.node = None \/ w.rest
  <2>1. u = w
    BY <1>1, <1>6 DEF Walk
  <2>2. w.node # None => Len(w.node) \in Nat
    BY <1>2 DEF IsTree, Names
  <2>3. WalkAt(T, segs, l, w)
    BY <1>3, <1>6, <2>2 DEF WalkAt
  <2> QED BY <1>1, <1>3, <2>1, <2>3
<1>7. CASE ~(w.node = None \/ w.rest)
  <2>1. PICK n : n = w.node
    OBVIOUS
  <2>2. /\ n \in DOMAIN T /\ n \in Names /\ n # None /\ Len(n) = i /\ w.rest = FALSE
        /\ \A j \in 1..Len(n) : TakenAt(T, segs, n, j, FALSE)
        /\ Bound(T, segs, n, w.params)
    BY <1>2, <1>7, <2>1 DEF WalkAt, IsTree
  <2>3. PICK param : param = T[n].param
    OBVIOUS
  <2>5. CASE Append(n, x) \in DOMAIN T
    <3>1. PICK c : c = Append(n, x)
      OBVIOUS
    <3>2. u = [node |-> c, params |-> w.params, rest |-> FALSE]
      <4>1. u = [w EXCEPT !.node = Append(@, x)]
        BY <1>1, <1>3, <1>4, <1>7, <2>1, <2>5 DEF Walk
      <4> QED BY <1>2, <2>1, <2>2, <3>1, <4>1
    <3>3. u.node = c /\ u.params = w.params /\ u.rest = FALSE
      BY <3>2
    <3>4. u \in WalkStates(T)
      BY <1>1, <1>2, <1>3, <1>5, WalkIn
    <3>5. Len(c) = l /\ c[l] = x
      BY <1>3, <1>5, <2>2, <3>1, AppendIs
    <3>6. ASSUME NEW j \in 1..Len(c) PROVE TakenAt(T, segs, c, j, FALSE)
      <4>1. CASE j = l
        BY <1>4, <3>5, <4>1 DEF TakenAt
      <4>2. CASE j # l
        <5>1. j \in 1..Len(n)
          BY <1>3, <2>2, <3>5, <4>2
        <5>2. TakenAt(T, segs, n, j, FALSE)
          BY <2>2, <5>1
        <5> QED BY <1>5, <2>2, <3>1, <5>1, <5>2, TakenStays
      <4> QED BY <4>1, <4>2
    <3>7. Bound(T, segs, c, w.params)
      BY <1>5, <2>2, <3>1, BoundLiteral
    <3>8. WalkAt(T, segs, l, u)
      <4>1. Len(u.node) <= l /\ Len(u.node) = l /\ ~u.rest
        BY <1>5, <3>3, <3>5
      <4>2. \A j \in 1..Len(u.node) : TakenAt(T, segs, u.node, j, u.rest)
        BY <3>3, <3>6
      <4> QED BY <3>3, <3>4, <3>7, <4>1, <4>2 DEF WalkAt
    <3> QED BY <1>1, <1>3, <3>8
  <2>6. CASE /\ Append(n, x) \notin DOMAIN T
             /\ param = NoParam \/ (param.conv # "path" /\ ~ValidFor(param.conv, x))
    <3>1. u = Fail(w)
      BY <1>1, <1>3, <1>4, <1>7, <2>1, <2>3, <2>6 DEF Walk
    <3>2. u = [node |-> None, params |-> w.params, rest |-> w.rest]
      BY <1>2, <3>1 DEF Fail
    <3>3. u.node = None
      BY <3>2
    <3>4. u \in WalkStates(T)
      BY <1>1, <1>2, <1>3, <1>5, WalkIn
    <3> QED BY <1>1, <1>3, <3>3, <3>4 DEF WalkAt
  <2>7. CASE /\ Append(n, x) \notin DOMAIN T
             /\ param # NoParam /\ (param.conv = "path" \/ ValidFor(param.conv, x))
    <3>1. PICK c : c = Append(n, None)
      OBVIOUS
    <3>2. PICK b \in BOOLEAN : b = (param.conv = "path")
      OBVIOUS
    <3>3. PICK v : v = IF param.conv = "path" THEN SubSeq(segs, l, Len(segs)) ELSE <<x>>
      OBVIOUS
    <3>4. PICK q : q = With(w.params, param.name, v)
      OBVIOUS
    <3>5. u = [node |-> c, params |-> q, rest |-> b]
      <4>1. CASE param.conv = "path"
        <5>1. u = [node |-> c, rest |-> TRUE, params |-> q]
          BY <1>1, <1>3, <1>4, <1>7, <2>1, <2>3, <2>7, <3>1, <3>3, <3>4, <4>1 DEF Walk, Dyn
        <5> QED BY <3>2, <4>1, <5>1
      <4>2. CASE param.conv # "path"
        <5>1. u = [w EXCEPT !.node = c, !.params = With(@, param.name, <<x>>)]
          BY <1>1, <1>3, <1>4, <1>7, <2>1, <2>3, <2>7, <3>1, <4>2 DEF Walk, Dyn
        <5>2. q = With(w.params, param.name, <<x>>) /\ b = FALSE
          BY <3>2, <3>3, <3>4, <4>2
        <5> QED BY <1>2, <2>2, <5>1, <5>2
      <4> QED BY <4>1, <4>2
    <3>6. u.node = c /\ u.params = q /\ u.rest = b
      BY <3>5
    <3>9. u \in WalkStates(T)
      BY <1>1, <1>2, <1>3, <1>5, WalkIn
    <3>10. Len(c) = l /\ c[l] = None /\ Cut(c, l - 1) = n
      <4>1. l \in 1..(Len(n) + 1) /\ l - 1 = Len(n) /\ l = Len(n) + 1
        BY <1>3, <2>2
      <4> QED BY <1>5, <2>2, <3>1, <4>1, AppendIs, SMTT(60)
    <3>11. ASSUME NEW j \in 1..Len(c) PROVE TakenAt(T, segs, c, j, b)
      <4>1. CASE j = l
        BY <1>4, <2>3, <2>7, <3>2, <3>10, <4>1 DEF TakenAt
      <4>2. CASE j # l
        <5>1. j \in 1..Len(n)
          BY <1>3, <2>2, <3>10, <4>2
        <5>2. TakenAt(T, segs, n, j, FALSE)
          BY <2>2, <5>1
        <5> QED BY <1>5, <2>2, <3>1, <3>2, <5>1, <5>2, TakenStays
      <4> QED BY <4>1, <4>2
    <3>12. Bound(T, segs, c, q)
      <4>1. v = IF T[n].param.conv = "path" THEN SubSeq(segs, Len(n) + 1, Len(segs)) ELSE <<segs[Len(n) + 1]>>
        BY <1>3, <1>4, <2>2, <2>3, <3>3
      <4> QED BY <2>2, <2>3, <3>1, <3>4, <4>1, BoundMarker
    <3>13. WalkAt(T, segs, l, u)
      BY <1>5, <3>6, <3>9, <3>10, <3>11, <3>12 DEF WalkAt
    <3> QED BY <1>1, <1>3, <3>13
  <2> QED BY <2>5, <2>6, <2>7
<1> QED BY <1>6, <1>7

\* It starts at the root.
LEMMA WalkStart ==
  ASSUME NEW T, IsTree(T), NEW segs \in Seq(Segments)
  PROVE  WalkAt(T, segs, 0, WalkFrom)
<1>1. /\ WalkFrom.node = <<>> /\ WalkFrom.params = <<>> /\ WalkFrom.rest = FALSE
      /\ <<>> \in DOMAIN T
  BY DEF WalkFrom, IsTree
<1>2. <<>> \in Bindings
  <2>1. {} \in SUBSET MarkNames /\ <<>> \in [{} -> Seq(Segments)]
    OBVIOUS
  <2> QED BY <2>1 DEF Bindings
<1>3. WalkFrom \in WalkStates(T)
  BY <1>1, <1>2 DEF WalkFrom, WalkStates
<1>4. Marks(<<>>) = {}
  BY DEF Marks
<1>5. Bound(T, segs, <<>>, <<>>)
  BY <1>4 DEF Bound
<1> QED BY <1>1, <1>3, <1>5 DEF WalkAt

\* So it is, by induction, after every segment.
LEMMA WalkAll ==
  ASSUME NEW T, IsTree(T), NEW segs \in Seq(Segments), NEW g, WalkFun(T, segs, g), NEW k \in 0..Len(segs)
  PROVE  WalkAt(T, segs, k, g[k])
<1>1. PICK S : S = {i \in Nat : i <= Len(segs) => WalkAt(T, segs, i, g[i])}
  OBVIOUS
<1>2. 0 \in S
  BY <1>1, WalkStart DEF WalkFun
<1>3. ASSUME NEW i \in Nat, i \in S, i + 1 <= Len(segs) PROVE WalkAt(T, segs, i + 1, g[i + 1])
  <2>1. PICK l : l = i + 1
    OBVIOUS
  <2>2. l \in 1..Len(segs) /\ l - 1 = i /\ i < Len(segs)
    BY <1>3, <2>1
  <2>3. g[l] = Walk(T, segs, g[l - 1], l)
    BY <2>2 DEF WalkFun
  <2>4. WalkAt(T, segs, i, g[i])
    BY <1>1, <1>3, <2>2
  <2> QED BY <2>1, <2>2, <2>3, <2>4, WalkMore
<1>4. \A i \in Nat : i \in S => i + 1 \in S
  BY <1>1, <1>3
<1>5. k \in S
  BY <1>2, <1>4, SetInd
<1> QED BY <1>1, <1>5

\* What Router.match gives of where it has got to.
Matched(T, e) ==
    IF e.node = None THEN NoMatch
    ELSE IF T[e.node].handler = None THEN NoMatch
    ELSE [handler |-> T[e.node].handler, params |-> e.params]

WalkedBy(m, path, g) ==
    /\ WalkFun(table.trees[m], Real(path), g)
    /\ Match(m, path) = Matched(table.trees[m], g[Len(Real(path))])

\* Match is that walk, to its end.
LEMMA MatchIs ==
  ASSUME NEW m \in Methods, IsTree(table.trees[m]), NEW path \in Seq(Segments)
  PROVE  \E g : WalkedBy(m, path, g)
<1>1. PICK T : T = table.trees[m]
  OBVIOUS
<1>2. PICK segs : segs = Real(path)
  OBVIOUS
<1>3. IsTree(T) /\ segs \in Seq(Segments)
  BY <1>1, <1>2, RealIn
<1>4. PICK n \in Nat : n = Len(segs)
  BY <1>3
<1>5. PICK V : V = WalkStates(T)
  OBVIOUS
<1>6. PICK F : F = [q \in (1..n) \X V |-> Walk(T, segs, q[2], q[1])]
  OBVIOUS
<1>7. F \in [(1..n) \X V -> V]
  <2>1. \A q \in (1..n) \X V : Walk(T, segs, q[2], q[1]) \in V
    BY <1>3, <1>4, <1>5, WalkIn
  <2> QED BY <1>6, <2>1
<1>8. WalkFrom \in V
  BY <1>3, <1>5, WalkStart DEF WalkAt
<1>9. PICK h : UpTo(h, F, WalkFrom, V, n)
  BY <1>4, <1>7, <1>8, RecExists
<1>10. ASSUME NEW i \in 0..n
       PROVE  h[i] = IF i = 0 THEN WalkFrom ELSE Walk(T, segs, h[i - 1], i)
  <2>1. CASE i = 0
    BY <1>9, <2>1 DEF UpTo
  <2>2. CASE i # 0
    <3>1. i \in 1..n /\ i - 1 \in 0..n
      BY <1>10, <2>2
    <3>2. h[i] = F[<<i, h[i - 1]>>] /\ h[i - 1] \in V
      BY <1>9, <3>1 DEF UpTo
    <3> QED BY <1>6, <2>2, <3>1, <3>2
  <2> QED BY <2>1, <2>2
<1>11. h = [i \in 0..Len(segs) |-> IF i = 0 THEN WalkFrom ELSE Walk(T, segs, h[i - 1], i)]
  BY <1>4, <1>9, <1>10 DEF UpTo
<1>12. PICK g : g = CHOOSE f : f = [i \in 0..Len(segs) |-> IF i = 0 THEN WalkFrom ELSE Walk(T, segs, f[i - 1], i)]
  OBVIOUS
<1>13. g = [i \in 0..Len(segs) |-> IF i = 0 THEN WalkFrom ELSE Walk(T, segs, g[i - 1], i)]
  BY <1>11, <1>12
<1>14. WalkFun(T, segs, g)
  <2>1. ASSUME NEW i \in 1..Len(segs) PROVE g[i] = Walk(T, segs, g[i - 1], i)
    <3>1. i \in 0..Len(segs) /\ i # 0
      BY <1>3
    <3> QED BY <1>13, <3>1
  <2>2. g[0] = WalkFrom
    <3>1. 0 \in 0..Len(segs)
      BY <1>3
    <3> QED BY <1>13, <3>1
  <2> QED BY <2>1, <2>2 DEF WalkFun
<1>15. Match(m, path) = Matched(T, g[Len(segs)])
  BY <1>1, <1>2, <1>12 DEF Match, Matched, WalkFrom
<1> QED BY <1>1, <1>2, <1>14, <1>15 DEF WalkedBy

-----------------------------------------------------------------------------
(* The walk follows a route that nothing hides. *)

CatchAll(p) == Len(p) > 0 /\ p[Len(p)] \in DOMAIN Markers /\ Markers[p[Len(p)]].conv = "path"

\* Fits, segment by segment.
FitsAt(p, segs, i) ==
    IF p[i] \in DOMAIN Markers
    THEN Markers[p[i]].conv = "path" \/ ValidFor(Markers[p[i]].conv, segs[i])
    ELSE p[i] = segs[i]

FitsAll(p, segs) ==
    /\ IF CatchAll(p) THEN Len(segs) >= Len(p) ELSE Len(segs) = Len(p)
    /\ \A i \in 1..Len(p) : FitsAt(p, segs, i)

\* It is Fits.
LEMMA FitsIs == ASSUME NEW path, NEW segs PROVE Fits(path, segs) <=> FitsAll(Real(path), segs)
BY DEF Fits, FitsAll, FitsAt, CatchAll

\* No literal child has what the path has where p has a marker.
OpenAt(T, p, segs, i) ==
    p[i] \in DOMAIN Markers => Append(Cut(Way(p), i - 1), segs[i]) \notin DOMAIN T

\* The walk is on the way to the node of p.
FollowsAt(p, i, w) ==
    IF i < Len(p) THEN w.node = Cut(Way(p), i) /\ w.rest = FALSE
    ELSE w.node = Way(p) /\ (CatchAll(p) => w.rest)

Laid(T, p) == Way(p) \in DOMAIN T /\ \A i \in 1..Len(p) : MarkedAt(T, p, i)

\* One segment more.
LEMMA FollowMore ==
  ASSUME NEW T, IsTree(T), NEW p \in Seq(Segments), Laid(T, p), NEW segs \in Seq(Segments), FitsAll(p, segs),
         \A j \in 1..Len(p) : OpenAt(T, p, segs, j),
         NEW i \in Nat, i < Len(segs), NEW w \in WalkStates(T), FollowsAt(p, i, w)
  PROVE  FollowsAt(p, i + 1, Walk(T, segs, w, i + 1))
<1>1. PICK u : u = Walk(T, segs, w, i + 1)
  OBVIOUS
<1>2. PICK l : l = i + 1
  OBVIOUS
<1>3. PICK k : k = Way(p)
  OBVIOUS
<1>4. k \in Names /\ Len(k) = Len(p) /\ Len(p) \in Nat /\ k \in DOMAIN T
  BY <1>3, KeyIs DEF Laid
<1>5. w = [node |-> w.node, params |-> w.params, rest |-> w.rest]
  BY DEF WalkStates
<1>6. CASE i < Len(p)
  <2>1. PICK n : n = Cut(k, i)
    OBVIOUS
  <2>2. w.node = n /\ w.rest = FALSE
    BY <1>3, <1>6, <2>1 DEF FollowsAt
  <2>3. l \in 1..Len(p) /\ l \in 0..Len(k) /\ i \in 0..Len(k) /\ l - 1 = i /\ l > 0 /\ l \in 1..Len(segs)
    BY <1>2, <1>4, <1>6
  <2>4. n \in DOMAIN T /\ Cut(k, l) \in DOMAIN T
    BY <1>4, <2>1, <2>3 DEF IsTree
  <2>5. Cut(k, l) = Append(n, k[l])
    <3>1. Cut(k, l) = Append(Cut(k, l - 1), k[l])
      BY <1>4, <2>3, CutIs
    <3> QED BY <2>1, <2>3, <3>1
  <2>6. n # None /\ k[l] = StepTo(p[l])
    BY <1>3, <2>3, <2>4, NodeIs, KeyIs
  <2>7. Cut(k, Len(p)) = k
    BY <1>4, CutIs
  <2>8. FitsAt(p, segs, l) /\ OpenAt(T, p, segs, l) /\ MarkedAt(T, p, l)
    BY <2>3 DEF FitsAll, Laid
  <2>9. CASE p[l] \notin DOMAIN Markers
    <3>1. p[l] = segs[l] /\ k[l] = segs[l]
      BY <2>6, <2>8, <2>9 DEF FitsAt, StepTo
    <3>2. u = [w EXCEPT !.node = Append(@, segs[l])]
      BY <1>1, <1>2, <2>2, <2>4, <2>5, <2>6, <3>1 DEF Walk
    <3>3. u.node = Cut(k, l) /\ u.rest = FALSE
      BY <1>5, <2>2, <2>5, <3>1, <3>2
    <3>4. l = Len(p) => ~CatchAll(p)
      BY <2>9 DEF CatchAll
    <3>5. CASE l < Len(p)
      BY <1>1, <1>2, <1>3, <3>3, <3>5 DEF FollowsAt
    <3>6. CASE ~(l < Len(p))
      <4>1. l = Len(p)
        BY <1>4, <2>3, <3>6
      <4> QED BY <1>1, <1>2, <1>3, <2>7, <3>3, <3>4, <3>6, <4>1 DEF FollowsAt
    <3> QED BY <1>1, <1>2, <3>5, <3>6
  <2>10. CASE p[l] \in DOMAIN Markers
    <3>1. k[l] = None /\ Append(n, segs[l]) \notin DOMAIN T /\ T[n].param = Markers[p[l]]
          /\ Markers[p[l]] # NoParam /\ (Markers[p[l]].conv = "path" => l = Len(p))
      BY <1>3, <2>1, <2>3, <2>6, <2>8, <2>10, MarkerIs DEF OpenAt, MarkedAt, StepTo, Dyn
    <3>2. CASE Markers[p[l]].conv = "path"
      <4>1. u.node = Append(n, None) /\ u.rest = TRUE
        BY <1>1, <1>2, <2>2, <2>6, <3>1, <3>2 DEF Walk, Dyn
      <4>2. u.node = k
        BY <2>5, <2>7, <3>1, <3>2, <4>1
      <4>3. ~(l < Len(p))
        BY <1>4, <3>1, <3>2
      <4> QED BY <1>1, <1>2, <1>3, <4>1, <4>2, <4>3 DEF FollowsAt
    <3>3. CASE Markers[p[l]].conv # "path"
      <4>1. ValidFor(Markers[p[l]].conv, segs[l])
        BY <2>8, <2>10, <3>3 DEF FitsAt
      <4>2. PICK v : v = With(w.params, Markers[p[l]].name, <<segs[l]>>)
        OBVIOUS
      <4>3. u = [w EXCEPT !.node = Append(n, None), !.params = v]
        BY <1>1, <1>2, <1>5, <2>2, <2>6, <3>1, <3>3, <4>1, <4>2 DEF Walk, Dyn
      <4>4. u.node = Cut(k, l) /\ u.rest = FALSE
        BY <1>5, <2>2, <2>5, <3>1, <4>3
      <4>5. l = Len(p) => ~CatchAll(p)
        BY <3>3 DEF CatchAll
      <4>6. CASE l < Len(p)
        BY <1>1, <1>2, <1>3, <4>4, <4>6 DEF FollowsAt
      <4>7. CASE ~(l < Len(p))
        <5>1. l = Len(p)
          BY <1>4, <2>3, <4>7
        <5> QED BY <1>1, <1>2, <1>3, <2>7, <4>4, <4>5, <4>7, <5>1 DEF FollowsAt
      <4> QED BY <1>1, <1>2, <4>6, <4>7
    <3> QED BY <3>2, <3>3
  <2> QED BY <2>9, <2>10
<1>7. CASE ~(i < Len(p))
  <2>1. CatchAll(p) /\ ~(l < Len(p))
    BY <1>2, <1>4, <1>7 DEF FitsAll
  <2>2. w.node = k /\ w.rest
    BY <1>3, <1>7, <2>1 DEF FollowsAt
  <2>3. u = w
    BY <1>1, <2>2 DEF Walk
  <2> QED BY <1>1, <1>2, <1>3, <2>1, <2>2, <2>3 DEF FollowsAt
<1> QED BY <1>6, <1>7

\* So a route that fits and that no literal hides is followed to its node.
LEMMA FollowAll ==
  ASSUME NEW T, IsTree(T), NEW p \in Seq(Segments), Laid(T, p), NEW segs \in Seq(Segments), FitsAll(p, segs),
         \A j \in 1..Len(p) : OpenAt(T, p, segs, j), NEW g, WalkFun(T, segs, g)
  PROVE  g[Len(segs)].node = Way(p)
<1>1. PICK S : S = {i \in Nat : i <= Len(segs) => FollowsAt(p, i, g[i])}
  OBVIOUS
<1>2. Way(p) \in Names /\ Len(Way(p)) = Len(p) /\ Len(p) \in Nat /\ Len(segs) \in Nat
  BY KeyIs
<1>3. 0 \in S
  <2>1. g[0].node = <<>> /\ g[0].rest = FALSE
    BY DEF WalkFun, WalkFrom
  <2>2. Cut(Way(p), 0) = <<>> /\ Cut(Way(p), Len(Way(p))) = Way(p)
    BY <1>2, CutIs
  <2>3. FollowsAt(p, 0, g[0])
    BY <1>2, <2>1, <2>2 DEF FollowsAt, CatchAll
  <2> QED BY <1>1, <2>3
<1>4. ASSUME NEW i \in Nat, i \in S, i + 1 <= Len(segs) PROVE FollowsAt(p, i + 1, g[i + 1])
  <2>1. PICK l : l = i + 1
    OBVIOUS
  <2>2. l \in 1..Len(segs) /\ l - 1 = i /\ i < Len(segs) /\ i \in 0..Len(segs)
    BY <1>2, <1>4, <2>1
  <2>3. g[l] = Walk(T, segs, g[l - 1], l)
    BY <2>2 DEF WalkFun
  <2>4. FollowsAt(p, i, g[i])
    BY <1>1, <1>4, <2>2
  <2>5. g[i] \in WalkStates(T)
    BY <2>2, WalkAll DEF WalkAt
  <2> QED BY <2>1, <2>2, <2>3, <2>4, <2>5, FollowMore
<1>5. \A i \in Nat : i \in S => i + 1 \in S
  BY <1>1, <1>4
<1>6. Len(segs) \in S
  BY <1>2, <1>3, <1>5, SetInd
<1>7. FollowsAt(p, Len(segs), g[Len(segs)]) /\ ~(Len(segs) < Len(p))
  BY <1>1, <1>2, <1>6 DEF FitsAll
<1> QED BY <1>7 DEF FollowsAt

-----------------------------------------------------------------------------
(* Of the routes that fit, all but one are passed over. *)

SameTo(k, l, n) == \A j \in 1..n : k[j] = l[j]

\* What two routes of a tree say until a segment is what their ways say.
LEMMA AlikeIs ==
  ASSUME NEW T, NEW p \in Seq(Segments), NEW s \in Seq(Segments), Laid(T, p), Laid(T, s),
         NEW n \in Nat, n <= Len(p), n <= Len(s)
  PROVE  Alike(p, s, n) <=> SameTo(Way(p), Way(s), n)
<1>1. /\ Way(p) \in Names /\ Len(Way(p)) = Len(p) /\ \A i \in 1..Len(p) : Way(p)[i] = StepTo(p[i])
      /\ Way(s) \in Names /\ Len(Way(s)) = Len(s) /\ \A i \in 1..Len(s) : Way(s)[i] = StepTo(s[i])
  BY KeyIs
<1>2. \A j \in 1..n : j \in 1..Len(p) /\ j \in 1..Len(s) /\ p[j] # None /\ s[j] # None
  BY RoutingConstants
<1>3. ASSUME Alike(p, s, n) PROVE SameTo(Way(p), Way(s), n)
  BY <1>1, <1>2, <1>3 DEF Alike, SameTo, StepTo
<1>4. ASSUME SameTo(Way(p), Way(s), n), NEW j \in 1..n
      PROVE  p[j] = s[j] \/ ({p[j], s[j]} \subseteq DOMAIN Markers /\ Markers[p[j]] = Markers[s[j]])
  <2>1. StepTo(p[j]) = StepTo(s[j])
    BY <1>1, <1>2, <1>4 DEF SameTo
  <2>2. CASE p[j] \in DOMAIN Markers /\ s[j] \in DOMAIN Markers
    <3>1. Cut(Way(p), j - 1) = Cut(Way(s), j - 1)
      <4>1. \A m \in 1..(j - 1) : m \in 1..n
        OBVIOUS
      <4> QED BY <1>4, <4>1 DEF Cut, SameTo
    <3>2. MarkedAt(T, p, j) /\ MarkedAt(T, s, j)
      BY <1>2 DEF Laid
    <3> QED BY <2>2, <3>1, <3>2 DEF MarkedAt
  <2>3. CASE p[j] \notin DOMAIN Markers \/ s[j] \notin DOMAIN Markers
    BY <1>2, <2>1, <2>3 DEF StepTo, Dyn
  <2> QED BY <2>2, <2>3
<1> QED BY <1>3, <1>4 DEF Alike

\* A route is passed over for a literal of another.
Hides(p, s, segs, i) ==
    /\ i \in 1..Len(p) /\ i \in 1..Len(s) /\ i \in 1..Len(segs)
    /\ Alike(p, s, i - 1)
    /\ s[i] \notin DOMAIN Markers /\ s[i] = segs[i] /\ p[i] # s[i]

\* PassedOver says that some route hides this one.
LEMMA PassedIs ==
  ASSUME NEW K, NEW r \in K, NEW segs \in Seq(Segments), \A o \in K : o.path \in Seq(Segments)
  PROVE  PassedOver(r.path, {o.path : o \in K}, segs)
            <=> \E o \in K, i \in Nat : Hides(Real(r.path), Real(o.path), segs, i)
<1>1. \A o \in K : Real(o.path) \in Seq(Segments)
  BY RealIn
<1>2. \A o \in K : DOMAIN Real(o.path) = 1..Len(Real(o.path)) /\ Len(Real(o.path)) \in Nat
  BY <1>1
<1>3. DOMAIN segs = 1..Len(segs) /\ Len(segs) \in Nat
  OBVIOUS
<1>4. ASSUME PassedOver(r.path, {o.path : o \in K}, segs)
      PROVE  \E o \in K, i \in Nat : Hides(Real(r.path), Real(o.path), segs, i)
  <2>1. PICK o \in K, i \in DOMAIN Real(r.path) :
            /\ i \in DOMAIN Real(o.path) /\ i \in DOMAIN segs
            /\ Alike(Real(r.path), Real(o.path), i - 1)
            /\ Real(o.path)[i] \notin DOMAIN Markers /\ Real(o.path)[i] = segs[i]
            /\ Real(r.path)[i] # Real(o.path)[i]
    BY <1>4 DEF PassedOver
  <2>2. Hides(Real(r.path), Real(o.path), segs, i) /\ i \in Nat
    BY <1>2, <1>3, <2>1 DEF Hides
  <2> QED BY <2>1, <2>2
<1>5. ASSUME NEW o \in K, NEW i \in Nat, Hides(Real(r.path), Real(o.path), segs, i)
      PROVE  PassedOver(r.path, {q.path : q \in K}, segs)
  <2>1. i \in DOMAIN Real(r.path) /\ i \in DOMAIN Real(o.path) /\ i \in DOMAIN segs
    BY <1>2, <1>3, <1>5 DEF Hides
  <2> QED BY <1>5, <2>1 DEF Hides, PassedOver
<1> QED BY <1>4, <1>5

\* Where two routes that fit part, one of them is hidden.
LEMMA OneHidden ==
  ASSUME NEW T, NEW p \in Seq(Segments), NEW s \in Seq(Segments), Laid(T, p), Laid(T, s),
         NEW segs \in Seq(Segments), FitsAll(p, segs), FitsAll(s, segs), Way(p) # Way(s)
  PROVE  \E i \in Nat : Hides(p, s, segs, i) \/ Hides(s, p, segs, i)
<1>1. /\ Way(p) \in Names /\ Len(Way(p)) = Len(p) /\ \A i \in 1..Len(p) : Way(p)[i] = StepTo(p[i])
      /\ Way(s) \in Names /\ Len(Way(s)) = Len(s) /\ \A i \in 1..Len(s) : Way(s)[i] = StepTo(s[i])
  BY KeyIs
<1>2. Len(p) \in Nat /\ Len(s) \in Nat /\ Len(segs) \in Nat /\ Len(p) <= Len(segs) /\ Len(s) <= Len(segs)
  BY DEF FitsAll
<1>3. PICK D : D = {i \in Nat : i \in 1..Len(p) /\ i \in 1..Len(s) /\ Way(p)[i] # Way(s)[i]}
  OBVIOUS
<1>4. CASE D # {}
  <2>1. PICK i \in D : \A m \in D : i <= m
    BY <1>3, <1>4, Least
  <2>2. i \in Nat /\ i \in 1..Len(p) /\ i \in 1..Len(s) /\ i \in 1..Len(segs) /\ Way(p)[i] # Way(s)[i]
    BY <1>2, <1>3, <2>1
  <2>3. SameTo(Way(p), Way(s), i - 1)
    <3>1. ASSUME NEW j \in 1..(i - 1) PROVE Way(p)[j] = Way(s)[j]
      <4>1. j \in Nat /\ j \in 1..Len(p) /\ j \in 1..Len(s) /\ j < i
        BY <1>2, <2>2
      <4>2. j \notin D
        BY <2>1, <2>2, <4>1
      <4> QED BY <1>3, <4>1, <4>2
    <3> QED BY <3>1 DEF SameTo
  <2>4. Alike(p, s, i - 1) /\ Alike(s, p, i - 1)
    <3>1. i - 1 \in Nat /\ i - 1 <= Len(p) /\ i - 1 <= Len(s)
      BY <1>2, <2>2
    <3>2. SameTo(Way(s), Way(p), i - 1)
      BY <2>3 DEF SameTo
    <3> QED BY <2>3, <3>1, <3>2, AlikeIs
  <2>5. FitsAt(p, segs, i) /\ FitsAt(s, segs, i) /\ Way(p)[i] = StepTo(p[i]) /\ Way(s)[i] = StepTo(s[i])
    BY <1>1, <2>2 DEF FitsAll
  <2>6. CASE p[i] \in DOMAIN Markers /\ s[i] \in DOMAIN Markers
    BY <2>2, <2>5, <2>6 DEF StepTo
  <2>7. CASE p[i] \notin DOMAIN Markers /\ s[i] \notin DOMAIN Markers
    BY <2>2, <2>5, <2>7 DEF StepTo, FitsAt
  <2>8. CASE p[i] \in DOMAIN Markers /\ s[i] \notin DOMAIN Markers
    <3>1. Hides(p, s, segs, i)
      BY <2>2, <2>4, <2>5, <2>8 DEF FitsAt, Hides
    <3> QED BY <2>2, <3>1
  <2>9. CASE p[i] \notin DOMAIN Markers /\ s[i] \in DOMAIN Markers
    <3>1. Hides(s, p, segs, i)
      BY <2>2, <2>4, <2>5, <2>9 DEF FitsAt, Hides
    <3> QED BY <2>2, <3>1
  <2> QED BY <2>6, <2>7, <2>8, <2>9
<1>5. CASE D = {}
  <2>1. \A i \in Nat : i \in 1..Len(p) /\ i \in 1..Len(s) => Way(p)[i] = Way(s)[i]
    BY <1>3, <1>5
  <2>2. ASSUME NEW a \in Seq(Segments), NEW b \in Seq(Segments), Laid(T, a), Laid(T, b), FitsAll(a, segs),
               FitsAll(b, segs), Len(a) < Len(b), SameTo(Way(a), Way(b), Len(a))
        PROVE  FALSE
    <3>1. Len(a) \in Nat /\ Len(b) \in Nat /\ Len(segs) \in Nat
      BY <2>2
    <3>2. CatchAll(a)
      BY <2>2, <3>1 DEF FitsAll
    <3>3. PICK m \in Nat : m = Len(a)
      BY <3>1
    <3>4. m > 0 /\ m \in 1..Len(a) /\ m \in 1..Len(b) /\ m \in 1..m /\ a[m] \in DOMAIN Markers
          /\ Markers[a[m]].conv = "path"
      BY <2>2, <3>1, <3>2, <3>3 DEF CatchAll
    <3>5. Alike(a, b, m)
      BY <2>2, <3>1, <3>3, AlikeIs
    <3>6. b[m] \in DOMAIN Markers /\ Markers[b[m]].conv = "path"
      BY <3>4, <3>5 DEF Alike
    <3>7. MarkedAt(T, b, m)
      BY <2>2, <3>4 DEF Laid
    <3> QED BY <2>2, <3>1, <3>3, <3>6, <3>7 DEF MarkedAt
  <2>3. CASE Len(p) = Len(s)
    <3>1. \A i \in 1..Len(p) : Way(p)[i] = Way(s)[i]
      BY <1>2, <2>1, <2>3
    <3>2. Way(p) = Way(s)
      BY <1>1, <2>3, <3>1, SeqEqual DEF Names
    <3> QED BY <3>2
  <2>4. CASE Len(p) < Len(s)
    <3>1. SameTo(Way(p), Way(s), Len(p))
      BY <1>2, <2>1, <2>4 DEF SameTo
    <3> QED BY <2>2, <2>4, <3>1
  <2>5. CASE Len(s) < Len(p)
    <3>1. SameTo(Way(s), Way(p), Len(s))
      BY <1>2, <2>1, <2>5 DEF SameTo
    <3> QED BY <2>2, <2>5, <3>1
  <2> QED BY <1>2, <2>3, <2>4, <2>5
<1> QED BY <1>4, <1>5

-----------------------------------------------------------------------------
(* What the walk finds is a route, with its own parameters. *)

\* The steps of a walk that ends at a route's node.
LEMMA TakenIs ==
  ASSUME NEW T, NEW p \in Seq(Segments), Laid(T, p), NEW segs \in Seq(Segments), NEW rest \in BOOLEAN,
         NEW i \in 1..Len(p), i <= Len(segs), TakenAt(T, segs, Way(p), i, rest)
  PROVE  /\ FitsAt(p, segs, i)
         /\ p[i] \in DOMAIN Markers => /\ Append(Cut(Way(p), i - 1), segs[i]) \notin DOMAIN T
                                       /\ Markers[p[i]].conv = "path" <=> (rest /\ i = Len(p))
         /\ Way(p)[i] = None <=> p[i] \in DOMAIN Markers
<1>1. Way(p) \in Names /\ Len(Way(p)) = Len(p) /\ Way(p)[i] = StepTo(p[i])
  BY KeyIs
<1>2. p[i] \in Segments /\ segs[i] \in Segments /\ None \notin Segments
  BY RoutingConstants
<1>3. CASE p[i] \notin DOMAIN Markers
  <2>1. Way(p)[i] = p[i] /\ p[i] # None
    BY <1>1, <1>2, <1>3 DEF StepTo
  <2> QED BY <1>3, <2>1 DEF TakenAt, FitsAt
<1>4. CASE p[i] \in DOMAIN Markers
  <2>1. Way(p)[i] = None /\ T[Cut(Way(p), i - 1)].param = Markers[p[i]]
    BY <1>1, <1>4 DEF StepTo, Dyn, Laid, MarkedAt
  <2>2. segs[i] # None
    BY <1>2
  <2> QED BY <1>1, <1>4, <2>1, <2>2 DEF TakenAt, FitsAt
<1> QED BY <1>3, <1>4

\* A route whose node the walk ends at fits the path, and nothing hides it.
LEMMA FoundFits ==
  ASSUME NEW T, IsTree(T), NEW p \in Seq(Segments), Laid(T, p), NEW segs \in Seq(Segments),
         NEW e, WalkAt(T, segs, Len(segs), e), e.node = Way(p)
  PROVE  /\ FitsAll(p, segs)
         /\ \A s \in Seq(Segments) : Laid(T, s) => \A i \in Nat : ~Hides(p, s, segs, i)
<1>1. /\ Way(p) \in Names /\ Len(Way(p)) = Len(p) /\ Len(p) \in Nat /\ Way(p) # None
      /\ Way(p) \in DOMAIN T
      /\ \A i \in 1..Len(p) : Way(p)[i] = StepTo(p[i])
  BY KeyIs, NodeIs DEF Laid
<1>2. PICK rest \in BOOLEAN : rest = e.rest
  BY DEF WalkAt, WalkStates
<1>3. /\ Len(p) <= Len(segs) /\ (~rest => Len(p) = Len(segs)) /\ (rest => Len(p) > 0 /\ Way(p)[Len(p)] = None)
      /\ \A i \in 1..Len(p) : TakenAt(T, segs, Way(p), i, rest)
  BY <1>1, <1>2 DEF WalkAt
<1>4. ASSUME NEW i \in 1..Len(p)
      PROVE  /\ FitsAt(p, segs, i)
             /\ p[i] \in DOMAIN Markers => /\ Append(Cut(Way(p), i - 1), segs[i]) \notin DOMAIN T
                                           /\ Markers[p[i]].conv = "path" <=> (rest /\ i = Len(p))
             /\ Way(p)[i] = None <=> p[i] \in DOMAIN Markers
  <2>1. i <= Len(segs) /\ TakenAt(T, segs, Way(p), i, rest)
    BY <1>1, <1>3, <1>4
  <2> QED BY <2>1, TakenIs
<1>5. FitsAll(p, segs)
  <2>1. CASE rest
    <3>1. Len(p) \in 1..Len(p)
      BY <1>1, <1>3, <2>1
    <3>2. CatchAll(p)
      BY <1>3, <1>4, <2>1, <3>1 DEF CatchAll
    <3> QED BY <1>3, <1>4, <3>2 DEF FitsAll
  <2>2. CASE ~rest
    <3>1. ~CatchAll(p)
      <4>1. ASSUME Len(p) > 0 PROVE Len(p) \in 1..Len(p)
        BY <1>1, <4>1
      <4> QED BY <1>4, <2>2, <4>1 DEF CatchAll
    <3> QED BY <1>3, <1>4, <2>2, <3>1 DEF FitsAll
  <2> QED BY <2>1, <2>2
<1>6. ASSUME NEW s \in Seq(Segments), Laid(T, s), NEW i \in Nat, Hides(p, s, segs, i) PROVE FALSE
  <2>1. /\ i \in 1..Len(p) /\ i \in 1..Len(s) /\ i \in 1..Len(segs) /\ Alike(p, s, i - 1)
        /\ s[i] \notin DOMAIN Markers /\ s[i] = segs[i] /\ p[i] # s[i]
    BY <1>6 DEF Hides
  <2>2. /\ Way(s) \in Names /\ Len(Way(s)) = Len(s) /\ Len(s) \in Nat /\ Way(s) \in DOMAIN T
        /\ Way(s)[i] = segs[i]
    BY <1>6, <2>1, KeyIs DEF Laid, StepTo
  <2>3. SameTo(Way(p), Way(s), i - 1)
    <3>1. i - 1 \in Nat /\ i - 1 <= Len(p) /\ i - 1 <= Len(s)
      BY <1>1, <2>1, <2>2
    <3> QED BY <1>6, <2>1, <3>1, AlikeIs
  <2>4. Cut(Way(p), i - 1) = Cut(Way(s), i - 1)
    BY <2>3 DEF Cut, SameTo
  <2>5. i \in 0..Len(Way(s)) /\ i > 0
    BY <2>1, <2>2
  <2>6. Cut(Way(s), i) = Append(Cut(Way(s), i - 1), segs[i])
    BY <2>2, <2>5, CutIs
  <2>7. Cut(Way(s), i) \in DOMAIN T
    BY <2>2, <2>5 DEF IsTree
  <2>8. p[i] \notin DOMAIN Markers
    BY <1>4, <2>1, <2>4, <2>6, <2>7
  <2>9. FitsAt(p, segs, i)
    BY <1>4, <2>1
  <2> QED BY <2>1, <2>8, <2>9 DEF FitsAt
<1> QED BY <1>5, <1>6

\* Of the markers with a name, the last.
LEMMA LastIs ==
  ASSUME NEW T, NEW n \in Names, NEW j \in Marks(n)
  PROVE  \E k \in Marks(n) : NameAt(T, n, k) = NameAt(T, n, j) /\ LastOf(T, n, k)
<1>1. PICK L \in Nat : L = Len(n)
  BY DEF Names
<1>2. PICK D : D = {d \in Nat : L - d \in Marks(n) /\ NameAt(T, n, L - d) = NameAt(T, n, j)}
  OBVIOUS
<1>3. L - j \in D
  <2>1. j \in 1..L
    BY <1>1 DEF Marks
  <2>2. L - j \in Nat /\ L - (L - j) = j
    BY <2>1
  <2> QED BY <1>2, <2>2
<1>4. PICK d \in D : \A b \in D : d <= b
  BY <1>2, <1>3, Least
<1>5. PICK k : k = L - d
  OBVIOUS
<1>6. k \in Marks(n) /\ NameAt(T, n, k) = NameAt(T, n, j) /\ d \in Nat /\ k \in 1..L
  BY <1>1, <1>2, <1>4, <1>5 DEF Marks
<1>7. ASSUME NEW m \in Marks(n), m > k PROVE NameAt(T, n, m) # NameAt(T, n, k)
  <2>1. m \in 1..L
    BY <1>1 DEF Marks
  <2>2. L - m \in Nat /\ L - (L - m) = m /\ L - m < d
    BY <1>5, <1>6, <1>7, <2>1
  <2>3. L - m \notin D
    BY <1>4, <1>6, <2>2
  <2> QED BY <1>2, <1>6, <2>2, <2>3
<1> QED BY <1>6, <1>7 DEF LastOf

\* The parameters found are those of the route.
LEMMA FoundParams ==
  ASSUME NEW T, IsTree(T), NEW path \in Seq(Segments), Laid(T, Real(path)), NEW segs \in Seq(Segments),
         NEW params, Bound(T, segs, Way(Real(path)), params)
  PROVE  params = ParamsOf(path, segs)
<1> DEFINE p == Real(path)
           marks == {i \in DOMAIN p : p[i] \in DOMAIN Markers}
<1>0. ParamsOf(path, segs) =
          [x \in {Markers[p[i]].name : i \in marks} |->
              LET i == CHOOSE j \in marks : /\ Markers[p[j]].name = x
                                           /\ \A k \in marks : k > j => Markers[p[k]].name # x
              IN IF Markers[p[i]].conv = "path" THEN SubSeq(segs, i, Len(segs)) ELSE <<segs[i]>>]
  BY Zenon DEF ParamsOf
<1>1. p = Real(path)
  OBVIOUS
<1>4. marks = {i \in DOMAIN p : p[i] \in DOMAIN Markers}
  OBVIOUS
<1> HIDE DEF p, marks
<1>2. PICK n : n = Way(p)
  OBVIOUS
<1>3. /\ p \in Seq(Segments) /\ n \in Names /\ Len(n) = Len(p) /\ Len(p) \in Nat
      /\ \A i \in 1..Len(p) : n[i] = StepTo(p[i])
  BY <1>1, <1>2, RealIn, KeyIs
<1>5. marks = Marks(n)
  <2>1. \A i \in 1..Len(p) : n[i] = None <=> p[i] \in DOMAIN Markers
    <3>1. \A i \in 1..Len(p) : p[i] # None
      BY <1>3, RoutingConstants
    <3> QED BY <1>3, <3>1 DEF StepTo, Dyn
  <2>2. DOMAIN p = 1..Len(n)
    BY <1>3
  <2> QED BY <1>3, <1>4, <2>1, <2>2 DEF Marks
<1>6. \A j \in marks : T[Cut(n, j - 1)].param = Markers[p[j]]
  BY <1>1, <1>2, <1>3, <1>4, <1>5 DEF Laid, MarkedAt, Marks
<1>7. \A j \in marks : /\ NameAt(T, n, j) = Markers[p[j]].name
                       /\ ValueAt(T, segs, n, j) = IF Markers[p[j]].conv = "path" THEN SubSeq(segs, j, Len(segs))
                                                   ELSE <<segs[j]>>
  BY <1>6 DEF NameAt, ValueAt
<1>8. PICK at : at = [x \in {Markers[p[i]].name : i \in marks} |->
                         CHOOSE j \in marks : /\ Markers[p[j]].name = x
                                              /\ \A k \in marks : k > j => Markers[p[k]].name # x]
  OBVIOUS
<1>9. ParamsOf(path, segs) = [x \in {Markers[p[i]].name : i \in marks} |->
          IF Markers[p[at[x]]].conv = "path" THEN SubSeq(segs, at[x], Len(segs)) ELSE <<segs[at[x]]>>]
  <2>1. \A x \in {Markers[p[i]].name : i \in marks} :
           at[x] = CHOOSE j \in marks : /\ Markers[p[j]].name = x
                                       /\ \A k \in marks : k > j => Markers[p[k]].name # x
    BY <1>8, Zenon
  <2> QED BY <1>0, <2>1, Zenon
<1>10. /\ params = [x \in DOMAIN params |-> params[x]]
       /\ \A x \in DOMAIN params : \E j \in marks : x = Markers[p[j]].name
       /\ \A j \in marks : Markers[p[j]].name \in DOMAIN params
       /\ \A j \in marks : LastOf(T, n, j) => params[NameAt(T, n, j)] = ValueAt(T, segs, n, j)
  BY <1>1, <1>2, <1>5, <1>7 DEF Bound
<1>11. DOMAIN params = {Markers[p[i]].name : i \in marks}
  BY <1>10
<1>12. ASSUME NEW x \in DOMAIN params
       PROVE  params[x] = IF Markers[p[at[x]]].conv = "path" THEN SubSeq(segs, at[x], Len(segs))
                          ELSE <<segs[at[x]]>>
  <2>1. PICK j \in marks : x = Markers[p[j]].name
    BY <1>10, <1>12
  <2>2. PICK k \in Marks(n) : NameAt(T, n, k) = NameAt(T, n, j) /\ LastOf(T, n, k)
    BY <1>3, <1>5, <2>1, LastIs
  <2>3. k \in marks /\ Markers[p[k]].name = x /\ \A m \in marks : m > k => Markers[p[m]].name # x
    BY <1>5, <1>7, <2>1, <2>2 DEF LastOf
  <2>4. PICK a : a = CHOOSE b \in marks : /\ Markers[p[b]].name = x
                                          /\ \A m \in marks : m > b => Markers[p[m]].name # x
    OBVIOUS
  <2>5. a \in marks /\ Markers[p[a]].name = x /\ \A m \in marks : m > a => Markers[p[m]].name # x
    BY <2>3, <2>4
  <2>6. at[x] = a
    BY <1>8, <1>11, <1>12, <2>4
  <2>7. LastOf(T, n, a) /\ NameAt(T, n, a) = x
    BY <1>5, <1>7, <2>5 DEF LastOf
  <2>8. params[x] = ValueAt(T, segs, n, a)
    BY <1>10, <2>5, <2>7
  <2> QED BY <1>7, <2>5, <2>6, <2>8
<1>13. params = [x \in {Markers[p[i]].name : i \in marks} |->
          IF Markers[p[at[x]]].conv = "path" THEN SubSeq(segs, at[x], Len(segs)) ELSE <<segs[at[x]]>>]
  BY <1>10, <1>11, <1>12
<1> QED BY <1>9, <1>13

-----------------------------------------------------------------------------
(* MatchIsTheRoutes. *)

\* What the invariant says of the tree of a method.
LEMMA TreeOf ==
  ASSUME RoutingInv, NEW m \in Methods
  PROVE  /\ Held(table.trees[m], Known(table, m), ~refused) /\ IsTree(table.trees[m])
         /\ \A r \in Known(table, m) : /\ r.path \in Seq(Segments) /\ Real(r.path) \in Seq(Segments)
                                       /\ r.handler \in Named /\ r.handler # None
                                       /\ Laid(table.trees[m], Real(r.path))
                                       /\ table.trees[m][KeyOf(r)].handler = r.handler
<1>1. Held(table.trees[m], Known(table, m), ~refused)
  BY DEF RoutingInv, TableOK
<1>2. ASSUME NEW r \in Known(table, m)
      PROVE  /\ r.path \in Seq(Segments) /\ Real(r.path) \in Seq(Segments)
             /\ r.handler \in Named /\ r.handler # None
             /\ Laid(table.trees[m], Real(r.path))
             /\ table.trees[m][KeyOf(r)].handler = r.handler
  <2>1. RouteIn(table.trees[m], r)
    BY <1>1 DEF Held
  <2>2. r.path \in Seq(Segments) /\ r.handler \in Named /\ r.handler # None
    BY <2>1, RoutingConstants DEF RouteIn, Named
  <2>3. Real(r.path) \in Seq(Segments)
    BY <2>2, RealIn
  <2> QED BY <2>1, <2>2, <2>3 DEF RouteIn, Laid, KeyOf
<1> QED BY <1>1, <1>2 DEF Held

\* Chosen, in the terms used here.
Picked(K, segs, r) ==
    /\ r \in K /\ FitsAll(Real(r.path), segs)
    /\ \A o \in K, i \in Nat : ~Hides(Real(r.path), Real(o.path), segs, i)

\* It is Chosen.
LEMMA ChosenIs ==
  ASSUME RoutingInv, NEW m \in Methods, NEW segs \in Seq(Segments)
  PROVE  \A r : r \in Chosen(m, segs) <=> Picked(Known(table, m), segs, r)
<1>1. PICK K : K = Known(table, m)
  OBVIOUS
<1>2. RoutesOf(m) = K
  BY <1>1 DEF RoutesOf, Known
<1>3. \A o \in K : o.path \in Seq(Segments)
  BY <1>1, TreeOf
<1>4. ASSUME NEW r PROVE r \in Chosen(m, segs) <=> Picked(K, segs, r)
  <2>1. r \in Chosen(m, segs) <=> /\ r \in K /\ Fits(r.path, segs)
                                  /\ ~PassedOver(r.path, {o.path : o \in K}, segs)
    BY <1>2 DEF Chosen
  <2>2. r \in K => (PassedOver(r.path, {o.path : o \in K}, segs)
                      <=> \E o \in K, i \in Nat : Hides(Real(r.path), Real(o.path), segs, i))
    BY <1>3, PassedIs
  <2> QED BY <2>1, <2>2, FitsIs DEF Picked
<1> QED BY <1>1, <1>4

\* At most one is.
LEMMA OnePicked ==
  ASSUME RoutingInv, NEW m \in Methods, NEW segs \in Seq(Segments), NEW r, NEW q,
         Picked(Known(table, m), segs, r), Picked(Known(table, m), segs, q)
  PROVE  r = q
<1>1. PICK K : K = Known(table, m)
  OBVIOUS
<1>2. PICK T : T = table.trees[m]
  OBVIOUS
<1>3. /\ r \in K /\ q \in K /\ Apart(K)
      /\ Real(r.path) \in Seq(Segments) /\ Real(q.path) \in Seq(Segments)
      /\ Laid(T, Real(r.path)) /\ Laid(T, Real(q.path))
  BY <1>1, <1>2, TreeOf DEF Picked, Held
<1>4. /\ FitsAll(Real(r.path), segs) /\ FitsAll(Real(q.path), segs)
      /\ \A i \in Nat : ~Hides(Real(r.path), Real(q.path), segs, i)
      /\ \A i \in Nat : ~Hides(Real(q.path), Real(r.path), segs, i)
  BY <1>1, <1>3 DEF Picked
<1>5. Way(Real(r.path)) = Way(Real(q.path))
  BY <1>3, <1>4, OneHidden
<1> QED BY <1>3, <1>5 DEF Apart, KeyOf

\* MatchIsTheRoutes, for one path.
Right(m, path) ==
    LET found == Match(m, path)
        segs == Real(path)
    IN \/ \E r \in Chosen(m, segs) :
              /\ Chosen(m, segs) = {r}
              /\ found = [handler |-> r.handler, params |-> ParamsOf(r.path, segs)]
       \/ found = NoMatch /\ (refused \/ Chosen(m, segs) = {})

\* If the walk finds a handler, its route fits, nothing hides it, and no other
\* is like that; if a route is like that, the walk finds it, unless a refused
\* registration has left a literal on the way.
LEMMA MatchRight ==
  ASSUME RoutingInv, NEW m \in Methods, NEW path \in Seq(Segments)
  PROVE  Right(m, path)
<1>1. PICK T : T = table.trees[m]
  OBVIOUS
<1>2. PICK K : K = Known(table, m)
  OBVIOUS
<1>3. PICK segs : segs = Real(path)
  OBVIOUS
<1>4. segs \in Seq(Segments) /\ Len(segs) \in Nat /\ Len(segs) \in 0..Len(segs)
  BY <1>3, RealIn
<1>5. /\ Held(T, K, ~refused) /\ IsTree(T) /\ refused \in BOOLEAN
      /\ \A r \in K : /\ r.path \in Seq(Segments) /\ Real(r.path) \in Seq(Segments) /\ r.handler # None
                      /\ Laid(T, Real(r.path)) /\ T[KeyOf(r)].handler = r.handler
  BY <1>1, <1>2, TreeOf DEF RoutingInv
<1>6. PICK g : WalkFun(T, segs, g) /\ Match(m, path) = Matched(T, g[Len(segs)])
  <2>1. PICK g : WalkedBy(m, path, g)
    BY <1>1, <1>5, MatchIs
  <2> QED BY <1>1, <1>3, <2>1 DEF WalkedBy
<1>7. PICK e : e = g[Len(segs)]
  OBVIOUS
<1>8. WalkAt(T, segs, Len(segs), e)
  BY <1>4, <1>5, <1>6, <1>7, WalkAll
<1>9. CASE e.node # None /\ T[e.node].handler # None
  <2>1. PICK r \in K : e.node = KeyOf(r)
    <3>1. e.node \in DOMAIN T
      BY <1>8, <1>9 DEF WalkAt, WalkStates
    <3> QED BY <1>5, <1>9, <3>1 DEF Held, Backed
  <2>2. e.node = Way(Real(r.path)) /\ Real(r.path) \in Seq(Segments) /\ Laid(T, Real(r.path))
        /\ r.path \in Seq(Segments)
    BY <1>5, <2>1 DEF KeyOf
  <2>3. FitsAll(Real(r.path), segs)
        /\ \A s \in Seq(Segments) : Laid(T, s) => \A i \in Nat : ~Hides(Real(r.path), s, segs, i)
    BY <1>4, <1>5, <1>8, <2>2, FoundFits
  <2>4. Picked(K, segs, r)
    BY <1>5, <2>1, <2>3 DEF Picked
  <2>5. e.params = ParamsOf(r.path, segs)
    <3>1. Bound(T, segs, Way(Real(r.path)), e.params)
      BY <1>8, <1>9, <2>2 DEF WalkAt
    <3> QED BY <1>4, <1>5, <2>2, <3>1, FoundParams
  <2>6. Match(m, path) = [handler |-> r.handler, params |-> ParamsOf(r.path, segs)]
    BY <1>5, <1>6, <1>7, <1>9, <2>1, <2>5 DEF Matched
  <2>7. Chosen(m, segs) = {r}
    <3>1. r \in Chosen(m, segs)
      BY <1>2, <1>4, <2>4, ChosenIs
    <3>2. \A q \in Chosen(m, segs) : q = r
      BY <1>2, <1>4, <2>4, ChosenIs, OnePicked
    <3> QED BY <3>1, <3>2
  <2> QED BY <1>3, <2>6, <2>7 DEF Right
<1>10. CASE ~(e.node # None /\ T[e.node].handler # None)
  <2>1. Match(m, path) = NoMatch
    BY <1>6, <1>7, <1>10 DEF Matched
  <2>2. ASSUME ~refused, NEW r \in Chosen(m, segs) PROVE FALSE
    <3>1. Picked(K, segs, r)
      BY <1>2, <1>4, <2>2, ChosenIs
    <3>2. PICK p : p = Real(r.path)
      OBVIOUS
    <3>3. r \in K /\ p \in Seq(Segments) /\ Laid(T, p) /\ FitsAll(p, segs) /\ Way(p) = KeyOf(r)
      BY <1>5, <3>1, <3>2 DEF Picked, KeyOf
    <3>4. ASSUME NEW i \in 1..Len(p), p[i] \in DOMAIN Markers, Append(Cut(Way(p), i - 1), segs[i]) \in DOMAIN T
          PROVE  FALSE
      <4>1. PICK n : n = Append(Cut(Way(p), i - 1), segs[i])
        OBVIOUS
      <4>2. /\ Way(p) \in Names /\ Len(Way(p)) = Len(p) /\ Len(p) \in Nat /\ Len(p) <= Len(segs)
            /\ i \in 1..Len(segs) /\ i - 1 \in 0..Len(Way(p))
        <5>1. Way(p) \in Names /\ Len(Way(p)) = Len(p) /\ Len(p) \in Nat
          BY <3>3, KeyIs
        <5>2. Len(p) <= Len(segs)
          BY <1>4, <3>3, <5>1 DEF FitsAll
        <5> QED BY <1>4, <5>1, <5>2
      <4>3. segs[i] \in Segments /\ segs[i] \in Steps /\ segs[i] # None
        BY <1>4, <4>2, RoutingConstants DEF Steps
      <4>4. Cut(Way(p), i - 1) \in Names /\ Len(Cut(Way(p), i - 1)) = i - 1
        BY <4>2, CutIs
      <4>5. n # <<>> /\ Len(n) = i /\ n[i] = segs[i] /\ Cut(n, i - 1) = Cut(Way(p), i - 1)
        <5>1. /\ Len(Append(Cut(Way(p), i - 1), segs[i])) = (i - 1) + 1
              /\ Append(Cut(Way(p), i - 1), segs[i])[(i - 1) + 1] = segs[i]
              /\ Cut(Append(Cut(Way(p), i - 1), segs[i]), i - 1) = Cut(Cut(Way(p), i - 1), i - 1)
          BY <4>3, <4>4, CutAppend
        <5>2. Cut(Cut(Way(p), i - 1), i - 1) = Cut(Way(p), i - 1)
          BY <4>4, CutIs
        <5>3. (i - 1) + 1 = i /\ Append(Cut(Way(p), i - 1), segs[i]) # <<>>
          BY <4>3, <4>4, CutAppend
        <5> QED BY <4>1, <5>1, <5>2, <5>3
      <4>a. PICK q \in K : \E j \in 0..Len(KeyOf(q)) : n = Cut(KeyOf(q), j)
        BY <1>5, <2>2, <3>4, <4>1, <4>5 DEF Held, NoMore
      <4>6. PICK j \in 0..Len(KeyOf(q)) : n = Cut(KeyOf(q), j)
        BY <4>a
      <4>7. PICK s : s = Real(q.path)
        OBVIOUS
      <4>8. s \in Seq(Segments) /\ Laid(T, s) /\ KeyOf(q) = Way(s) /\ Way(s) \in Names /\ Len(Way(s)) = Len(s)
            /\ Len(s) \in Nat
        BY <1>5, <4>a, <4>7, KeyIs DEF KeyOf
      <4>9. j = i /\ i \in 1..Len(s) /\ Way(s)[i] = segs[i]
        <5>1. Len(n) = j /\ \A k \in 1..j : n[k] = Way(s)[k]
          BY <4>6, <4>8, CutIs
        <5> QED BY <4>5, <4>6, <4>8, <5>1
      <4>10. Cut(Way(s), i - 1) = Cut(Way(p), i - 1)
        <5>1. i - 1 \in 0..j
          BY <4>9
        <5>2. Cut(n, i - 1) = Cut(Way(s), i - 1)
          BY <4>6, <4>8, <5>1, CutIs
        <5> QED BY <4>5, <5>2
      <4>11. SameTo(Way(p), Way(s), i - 1)
        <5>1. i - 1 \in 0..Len(Way(s))
          BY <4>8, <4>9
        <5>2. \A k \in 1..(i - 1) : Cut(Way(s), i - 1)[k] = Way(s)[k] /\ Cut(Way(p), i - 1)[k] = Way(p)[k]
          BY <4>2, <4>8, <5>1, CutIs
        <5> QED BY <4>10, <5>2 DEF SameTo
      <4>12. Alike(p, s, i - 1)
        <5>1. i - 1 \in Nat /\ i - 1 <= Len(p) /\ i - 1 <= Len(s)
          BY <4>2, <4>8, <4>9
        <5> QED BY <3>3, <4>8, <4>11, <5>1, AlikeIs
      <4>13. s[i] \notin DOMAIN Markers /\ s[i] = segs[i]
        <5>1. Way(s)[i] = StepTo(s[i])
          BY <4>8, <4>9, KeyIs
        <5> QED BY <4>3, <4>9, <5>1 DEF StepTo, Dyn
      <4>14. Hides(p, s, segs, i)
        BY <3>4, <4>2, <4>9, <4>12, <4>13 DEF Hides
      <4> QED BY <3>1, <3>2, <4>a, <4>7, <4>9, <4>14 DEF Picked
    <3>5. \A i \in 1..Len(p) : OpenAt(T, p, segs, i)
      BY <3>4 DEF OpenAt
    <3>6. e.node = KeyOf(r)
      BY <1>4, <1>5, <1>6, <1>7, <3>3, <3>5, FollowAll
    <3>7. T[e.node].handler # None
      BY <1>5, <3>3, <3>6
    <3>8. e.node # None
      <4>1. Way(p) \in DOMAIN T
        BY <3>3 DEF Laid
      <4> QED BY <1>5, <3>3, <3>6, <4>1, NodeIs
    <3> QED BY <1>10, <3>7, <3>8
  <2>3. refused \/ Chosen(m, segs) = {}
    BY <1>5, <2>2
  <2> QED BY <1>3, <2>1, <2>3 DEF Right
<1> QED BY <1>9, <1>10

\* Router.match finds in the tree what the registered routes say, whatever the
\* order of their registration and whatever was refused half way: the one
\* route that fits and is not passed over for a literal, with its parameters.
THEOREM TreeIsTheRoutes == RoutingSpec => []MatchIsTheRoutes
<1>1. ASSUME RoutingInv PROVE MatchIsTheRoutes
  <2>1. \A m \in Methods, path \in Paths : Right(m, path)
    BY <1>1, MatchRight, RoutingConstants
  <2> QED BY <2>1 DEF Right, MatchIsTheRoutes
<1> QED BY <1>1, RoutingAlwaysInv, PTL

\* Where nothing literal stands in its way, the walk reaches the route.
LEMMA OpenReached ==
  ASSUME RoutingInv, NEW m \in Methods, NEW path \in Seq(Segments), NEW r \in Known(table, m),
         Fits(r.path, Real(path)), ~Shadowed(r, Real(path))
  PROVE  Match(m, path).handler = r.handler
<1>1. PICK T : T = table.trees[m]
  OBVIOUS
<1>2. PICK p : p = Real(r.path)
  OBVIOUS
<1>3. PICK segs : segs = Real(path)
  OBVIOUS
<1>4. /\ IsTree(T) /\ r.path \in Seq(Segments) /\ p \in Seq(Segments) /\ r.handler # None
      /\ Laid(T, p) /\ T[Way(p)].handler = r.handler /\ r.method = m
  BY <1>1, <1>2, TreeOf DEF KeyOf, Known
<1>5. segs \in Seq(Segments)
  <2>1. Real(path) \in Seq(Segments)
    BY RealIn, Zenon
  <2> QED BY <1>3, <2>1, Zenon
<1>6. FitsAll(p, segs)
  BY <1>2, <1>3, FitsIs
<1>7. ASSUME NEW i \in 1..Len(p), p[i] \in DOMAIN Markers,
             Append(Cut(Way(p), i - 1), segs[i]) \in DOMAIN T
      PROVE  FALSE
  <2>1. Cut(Way(p), i - 1) = [j \in 1..(i - 1) |-> IF p[j] \in DOMAIN Markers THEN Dyn ELSE p[j]]
    <3>1. \A j \in 1..(i - 1) : Way(p)[j] = IF p[j] \in DOMAIN Markers THEN Dyn ELSE p[j]
      <4>1. \A j \in 1..(i - 1) : j \in 1..Len(p)
        BY <1>4
      <4> QED BY <1>4, <4>1, KeyIs DEF StepTo
    <3> QED BY <3>1 DEF Cut
  <2>2. i \in DOMAIN p
    BY <1>4
  <2>3. Shadowed(r, segs)
    BY <1>1, <1>2, <1>4, <1>7, <2>1, <2>2 DEF Shadowed
  <2> QED BY <1>3, <2>3
<1>8. \A i \in 1..Len(p) : OpenAt(T, p, segs, i)
  BY <1>7 DEF OpenAt
<1>9. PICK g : WalkFun(T, segs, g) /\ Match(m, path) = Matched(T, g[Len(segs)])
  <2>1. PICK g : WalkedBy(m, path, g)
    BY <1>1, <1>4, MatchIs
  <2> QED BY <1>1, <1>3, <2>1 DEF WalkedBy
<1>10. g[Len(segs)].node = Way(p)
  BY <1>4, <1>5, <1>6, <1>8, <1>9, FollowAll
<1>11. Way(p) # None
  BY <1>4, NodeIs DEF Laid
<1> QED BY <1>4, <1>9, <1>10, <1>11 DEF Matched

\* However many registrations are refused half way, a route answers every path
\* it fits that has no segment for which the tree holds a literal instead.
THEOREM OnlyLiteralsHide == RoutingSpec => []HiddenByLiteralsOnly
<1>1. RoutingInv => HiddenByLiteralsOnly
  <2> SUFFICES ASSUME RoutingInv, NEW m \in Methods, NEW path \in Paths, NEW r \in RoutesOf(m),
                      Fits(r.path, Real(path)), ~Shadowed(r, Real(path))
               PROVE  Match(m, path).handler = r.handler
    BY DEF HiddenByLiteralsOnly
  <2>1. r \in Known(table, m) /\ path \in Seq(Segments)
    BY RoutingConstants DEF RoutesOf, Known
  <2> QED BY <2>1, OpenReached
<1> QED BY <1>1, RoutingAlwaysInv, PTL

-----------------------------------------------------------------------------
(* PathsLand. *)

\* Nothing is redirected but by _handle.
LEMMA ServedKind == ASSUME NEW m, NEW path PROVE Served(m, path).kind \in {"missing", "bare", "route"}
BY DEF Served

\* When _handle redirects, and where to.
LEMMA AnswerKinds ==
  ASSUME NEW m, NEW path
  PROVE  Answer(m, path).kind = "redirect" =>
             /\ Alternate(path) # None /\ Registered(m, Alternate(path)) /\ ~Registered(m, path)
             /\ Answer(m, path).to = Alternate(path)
<1>1. AppFor(path).kind = "app"
  BY DEF AppFor, App
<1>2. Served(m, path).kind # "redirect"
  BY ServedKind
<1>3. CASE \E i \in DOMAIN subapps : Under(subapps[i], path)
  BY <1>1, <1>3 DEF Answer
<1>4. CASE ~(\E i \in DOMAIN subapps : Under(subapps[i], path))
  BY <1>2, <1>4 DEF Answer
<1> QED BY <1>3, <1>4

\* A path without markers is walked to its own node, whatever else is there.
LEMMA LiteralMatch ==
  ASSUME RoutingInv, NEW m \in Methods, NEW r \in Known(table, m), ~Dynamic(r.path)
  PROVE  Match(m, r.path) = [handler |-> r.handler, params |-> <<>>]
<1>1. PICK T : T = table.trees[m]
  OBVIOUS
<1>2. PICK p : p = Real(r.path)
  OBVIOUS
<1>3. /\ IsTree(T) /\ r.path \in Seq(Segments) /\ p \in Seq(Segments) /\ Len(p) \in Nat /\ Len(p) \in 0..Len(p)
      /\ r.handler # None /\ Laid(T, p) /\ T[Way(p)].handler = r.handler
  <2>1. /\ IsTree(T) /\ r.path \in Seq(Segments) /\ p \in Seq(Segments)
        /\ r.handler # None /\ Laid(T, p) /\ T[Way(p)].handler = r.handler
    BY <1>1, <1>2, TreeOf DEF KeyOf
  <2>2. Len(p) \in Nat /\ Len(p) \in 0..Len(p)
    BY <2>1
  <2> QED BY <2>1, <2>2
<1>4. \A i \in 1..Len(p) : p[i] \notin DOMAIN Markers
  <2>1. \A i \in DOMAIN p : \E j \in DOMAIN r.path : p[i] = r.path[j]
    BY <1>2, <1>3, RealType
  <2>2. DOMAIN p = 1..Len(p)
    BY <1>3
  <2> QED BY <2>1, <2>2 DEF Dynamic
<1>5. FitsAll(p, p) /\ \A i \in 1..Len(p) : OpenAt(T, p, p, i)
  <2>1. ~CatchAll(p)
    <3>1. Len(p) > 0 => Len(p) \in 1..Len(p)
      BY <1>3
    <3> QED BY <1>4, <3>1 DEF CatchAll
  <2> QED BY <1>4, <2>1 DEF FitsAll, FitsAt, OpenAt
<1>6. PICK g : WalkFun(T, p, g) /\ Match(m, r.path) = Matched(T, g[Len(p)])
  <2>1. PICK g : WalkedBy(m, r.path, g)
    BY <1>1, <1>3, MatchIs
  <2> QED BY <1>1, <1>2, <2>1 DEF WalkedBy
<1>7. PICK e : e = g[Len(p)]
  OBVIOUS
<1>8. e.node = Way(p)
  BY <1>3, <1>5, <1>6, <1>7, FollowAll
<1>9. WalkAt(T, p, Len(p), e)
  BY <1>3, <1>6, <1>7, WalkAll
<1>10. Way(p) # None
  BY <1>3, NodeIs DEF Laid
<1>11. Bound(T, p, Way(p), e.params)
  BY <1>8, <1>9, <1>10 DEF WalkAt
<1>12. Marks(Way(p)) = {}
  <2>1. Len(Way(p)) = Len(p) /\ \A i \in 1..Len(p) : Way(p)[i] = StepTo(p[i])
    BY <1>3, KeyIs
  <2>2. \A i \in 1..Len(p) : p[i] # None
    BY <1>3, RoutingConstants
  <2> QED BY <1>4, <2>1, <2>2 DEF Marks, StepTo
<1>13. e.params = <<>>
  <2>1. DOMAIN e.params = {} /\ e.params = [x \in DOMAIN e.params |-> e.params[x]]
    BY <1>11, <1>12 DEF Bound
  <2> QED BY <2>1
<1> QED BY <1>3, <1>6, <1>7, <1>8, <1>10, <1>13 DEF Matched

Uncovered(path) ==
    /\ \A i \in DOMAIN subapps : ~Under(subapps[i], path)
    /\ \A i \in DOMAIN statics : ~Under(statics[i], path)

\* A path that no mount covers, and no static directory.
LEMMA UncoveredIs ==
  ASSUME RoutingInv, NEW path
  PROVE  Uncovered(path) <=> ~\E prefix \in ToSet(subapps \o statics) : Under(prefix, path)
<1>1. PICK a : a = subapps
  OBVIOUS
<1>2. PICK b : b = statics
  OBVIOUS
<1>3. a \in Seq(Roots) /\ b \in Seq(Roots)
  BY <1>1, <1>2 DEF RoutingInv
<1>4. /\ Len(a \o b) = Len(a) + Len(b) /\ Len(a) \in Nat /\ Len(b) \in Nat
      /\ DOMAIN a = 1..Len(a) /\ DOMAIN b = 1..Len(b) /\ DOMAIN (a \o b) = 1..(Len(a) + Len(b))
      /\ \A i \in 1..(Len(a) + Len(b)) : (a \o b)[i] = IF i <= Len(a) THEN a[i] ELSE b[i - Len(a)]
  BY <1>3
<1>5. ASSUME NEW i \in DOMAIN a PROVE a[i] \in ToSet(a \o b)
  <2>1. i \in DOMAIN (a \o b) /\ (a \o b)[i] = a[i]
    BY <1>4
  <2> QED BY <2>1 DEF ToSet
<1>6. ASSUME NEW i \in DOMAIN b PROVE b[i] \in ToSet(a \o b)
  <2>1. PICK j : j = Len(a) + i
    OBVIOUS
  <2>2. j \in 1..(Len(a) + Len(b)) /\ ~(j <= Len(a)) /\ j - Len(a) = i
    BY <1>4, <2>1
  <2>3. (a \o b)[j] = b[i] /\ j \in DOMAIN (a \o b)
    BY <1>4, <2>2
  <2> QED BY <2>3 DEF ToSet
<1>7. ASSUME NEW x \in ToSet(a \o b) PROVE (\E i \in DOMAIN a : x = a[i]) \/ \E i \in DOMAIN b : x = b[i]
  <2>1. PICK i \in DOMAIN (a \o b) : x = (a \o b)[i]
    BY DEF ToSet
  <2>2. CASE i <= Len(a)
    BY <1>4, <2>1, <2>2
  <2>3. CASE ~(i <= Len(a))
    <3>1. i - Len(a) \in DOMAIN b /\ x = b[i - Len(a)]
      BY <1>4, <2>1, <2>3
    <3> QED BY <3>1
  <2> QED BY <2>2, <2>3
<1> QED BY <1>1, <1>2, <1>5, <1>6, <1>7 DEF Uncovered

\* A path without its last segment.
LEMMA FrontIs ==
  ASSUME NEW path \in Seq(Segments), path # <<>>
  PROVE  LET alt == SubSeq(path, 1, Len(path) - 1)
         IN  alt \in Seq(Segments) /\ Len(alt) = Len(path) - 1 /\ \A i \in 1..Len(alt) : alt[i] = path[i]
<1>1. PICK n \in Nat : n = Len(path) - 1
  OBVIOUS
<1>2. n <= Len(path) /\ Len(path) \in Nat
  BY <1>1
<1>3. SubSeq(path, 1, n) \in Seq(Segments)
  BY <1>1, <1>2
<1>4. Len(SubSeq(path, 1, n)) = n
  BY <1>1, <1>2
<1>5. \A i \in 1..n : SubSeq(path, 1, n)[i] = path[i]
  BY <1>1, <1>2
<1> QED BY <1>1, <1>3, <1>4, <1>5

\* A prefix that covers the path with the other slash covers the path: it has
\* none at its own end.
LEMMA AlternateCovered ==
  ASSUME NEW path \in Seq(Segments), path # <<>>, Alternate(path) # None, NEW prefix \in Roots,
         Under(prefix, Alternate(path))
  PROVE  Under(prefix, path)
<1>1. PICK alt : alt = Alternate(path)
  OBVIOUS
<1>2. /\ prefix \in Seq(Segments) /\ (prefix = <<>> \/ prefix[Len(prefix)] # Empty)
      /\ Empty \in Segments /\ Len(path) \in Nat /\ Len(path) > 0 /\ Len(prefix) \in Nat
  BY RoutingConstants
<1>3. Len(prefix) <= Len(alt) /\ SubSeq(prefix, 1, Len(prefix)) = SubSeq(alt, 1, Len(prefix))
  BY <1>1 DEF Under, IsPrefix
<1>4. path # <<Empty>>
  BY DEF Alternate
<1>5. CASE Last(path) = Empty
  <2>1. alt = SubSeq(path, 1, Len(path) - 1)
    BY <1>1, <1>4, <1>5 DEF Alternate, Front
  <2>2. alt \in Seq(Segments) /\ Len(alt) = Len(path) - 1 /\ \A i \in 1..Len(alt) : alt[i] = path[i]
    BY <1>2, <2>1, FrontIs
  <2>3. Len(prefix) <= Len(path)
    BY <1>2, <1>3, <2>2
  <2>4. SubSeq(alt, 1, Len(prefix)) = SubSeq(path, 1, Len(prefix))
    <3>1. \A i \in 1..Len(prefix) : alt[i] = path[i]
      BY <1>2, <1>3, <2>2
    <3> QED BY <1>2, <1>3, <2>2, <2>3, <3>1
  <2> QED BY <1>3, <2>3, <2>4 DEF Under, IsPrefix
<1>6. CASE Last(path) # Empty
  <2>1. alt = Append(path, Empty)
    BY <1>1, <1>4, <1>6 DEF Alternate
  <2>2. /\ alt \in Seq(Segments) /\ Len(alt) = Len(path) + 1 /\ alt[Len(path) + 1] = Empty
        /\ \A i \in 1..Len(path) : alt[i] = path[i]
    BY <1>2, <2>1, FrontIs
  <2>3. Len(prefix) # Len(path) + 1
    <3>1. ASSUME Len(prefix) = Len(path) + 1 PROVE FALSE
      <4>1. prefix = SubSeq(prefix, 1, Len(prefix)) /\ alt = SubSeq(alt, 1, Len(alt))
        BY <1>2, <2>2
      <4>2. prefix = alt
        BY <1>3, <2>2, <3>1, <4>1
      <4> QED BY <1>2, <2>2, <4>2
    <3> QED BY <3>1
  <2>4. Len(prefix) <= Len(path)
    BY <1>2, <1>3, <2>2, <2>3
  <2>5. SubSeq(alt, 1, Len(prefix)) = SubSeq(path, 1, Len(prefix))
    <3>1. \A i \in 1..Len(prefix) : alt[i] = path[i]
      BY <1>2, <2>2, <2>4
    <3> QED BY <1>2, <2>2, <2>4, <3>1
  <2> QED BY <1>3, <2>4, <2>5 DEF Under, IsPrefix
<1> QED BY <1>5, <1>6

\* Neither slash makes another path of the same route.
LEMMA AlternateReal ==
  ASSUME NEW path \in Seq(Segments), path # <<>>, Alternate(path) # None
  PROVE  /\ Alternate(path) \in Seq(Segments) /\ Alternate(path) # path
         /\ Real(Alternate(path)) = Real(path)
<1>1. PICK alt : alt = Alternate(path)
  OBVIOUS
<1>2. Empty \in Segments /\ Len(path) \in Nat /\ Len(path) > 0
  BY RoutingConstants
<1>3. path # <<Empty>>
  BY DEF Alternate
<1>4. CASE Last(path) = Empty
  <2>1. alt = SubSeq(path, 1, Len(path) - 1)
    BY <1>1, <1>3, <1>4 DEF Alternate, Front
  <2>2. alt \in Seq(Segments) /\ Len(alt) = Len(path) - 1 /\ \A i \in 1..Len(alt) : alt[i] = path[i]
    BY <1>2, <2>1, FrontIs
  <2>3. path = Append(alt, Empty)
    <3>1. PICK t : t = Append(alt, Empty)
      OBVIOUS
    <3>2. t \in Seq(Segments) /\ Len(t) = Len(path) /\ t[Len(path)] = Empty
          /\ \A i \in 1..(Len(path) - 1) : t[i] = alt[i]
      BY <1>2, <2>2, <3>1
    <3>3. \A i \in 1..Len(path) : t[i] = path[i]
      <4>1. \A i \in 1..Len(path) : i \in 1..(Len(path) - 1) \/ i = Len(path)
        BY <1>2
      <4> QED BY <1>4, <2>2, <3>2, <4>1 DEF Last
    <3>4. t = path
      BY <3>2, <3>3, SeqEqual
    <3> QED BY <3>1, <3>4
  <2>4. Real(Append(alt, Empty)) = Real(alt)
    BY <1>2, <2>2, RealSlash
  <2> QED BY <1>1, <1>2, <2>2, <2>3, <2>4
<1>5. CASE Last(path) # Empty
  <2>1. alt = Append(path, Empty)
    BY <1>1, <1>3, <1>5 DEF Alternate
  <2>2. alt \in Seq(Segments) /\ Len(alt) = Len(path) + 1
    BY <1>2, <2>1
  <2>3. Real(alt) = Real(path)
    BY <1>2, <2>1, RealSlash
  <2> QED BY <1>1, <1>2, <2>2, <2>3
<1> QED BY <1>4, <1>5

\* A route without markers, in front of which nothing is mounted, answers for
\* its path, and the other slash is redirected to it.
LEMMA Reached ==
  ASSUME RoutingInv, NEW i \in DOMAIN table.routes, NEW r, r = table.routes[i],
         \A j \in DOMAIN table.routes : table.routes[j].handler = r.handler => j = i,
         ~Dynamic(r.path), Uncovered(r.path), r.method # "WS"
  PROVE  /\ Answer(r.method, r.path) = [kind |-> "route", route |-> r, params |-> <<>>]
         /\ Alternate(r.path) # None /\ Alternate(Alternate(r.path)) = r.path =>
                Answer(r.method, Alternate(r.path)) = [kind |-> "redirect", to |-> r.path]
<1>1. PICK m : m = r.method
  OBVIOUS
<1>2. r \in Listed /\ m \in Methods /\ r \in Known(table, m) /\ r.path \in Seq(Segments) /\ r.path # <<>>
      /\ r.handler # None
  <2>1. table.routes \in Seq(Listed)
    BY DEF RoutingInv, TableOK, Plainly
  <2>2. r \in Listed
    BY <2>1
  <2>3. m \in Methods /\ r.path \in Seq(Segments) /\ r.path # <<>> /\ r.handler # None
    BY <1>1, <2>2, RoutingConstants DEF Listed, Named
  <2>4. r \in Known(table, m)
    BY <1>1 DEF Known, ToSet
  <2> QED BY <2>2, <2>3, <2>4
<1>3. Match(m, r.path) = [handler |-> r.handler, params |-> <<>>]
  BY <1>2, LiteralMatch
<1>4. r.handler \in DOMAIN table.byHandler /\ table.byHandler[r.handler] = r
  <2>1. ByName(table)
    BY DEF RoutingInv, TableOK
  <2>2. r.handler \in DOMAIN table.byHandler
    BY <2>1 DEF ByName
  <2>3. PICK j \in DOMAIN table.routes : /\ table.byHandler[r.handler] = table.routes[j]
                                         /\ table.routes[j].handler = r.handler
    BY <2>1, <2>2 DEF ByName
  <2> QED BY <2>2, <2>3
<1>5. Served(m, r.path) = [kind |-> "route", route |-> r, params |-> <<>>]
  <2>1. PICK f : f = Match(m, r.path)
    OBVIOUS
  <2>2. f.handler = r.handler /\ f.params = <<>>
    BY <1>3, <2>1
  <2>3. f.handler # None /\ f.handler \in DOMAIN table.byHandler /\ table.byHandler[f.handler] = r
    BY <1>2, <1>4, <2>2
  <2> QED BY <2>1, <2>2, <2>3 DEF Served
<1>6. Registered(m, r.path)
  BY <1>1 DEF Registered
<1>7. /\ ~\E k \in DOMAIN subapps : Under(subapps[k], r.path)
      /\ ~Static(r.path)
  BY DEF Uncovered, Static
<1>8. Answer(m, r.path) = Served(m, r.path)
  BY <1>1, <1>6, <1>7 DEF Answer
<1>9. ASSUME Alternate(r.path) # None, Alternate(Alternate(r.path)) = r.path
      PROVE  Answer(m, Alternate(r.path)) = [kind |-> "redirect", to |-> r.path]
  <2>1. PICK alt : alt = Alternate(r.path)
    OBVIOUS
  <2>2. alt \in Seq(Segments) /\ alt # r.path /\ Real(alt) = Real(r.path) /\ Alternate(alt) = r.path
    BY <1>2, <1>9, <2>1, AlternateReal
  <2>3. /\ ~\E k \in DOMAIN subapps : Under(subapps[k], alt)
        /\ ~Static(alt)
    <3>1. \A k \in DOMAIN subapps : subapps[k] \in Roots
      BY DEF RoutingInv
    <3>2. \A k \in DOMAIN statics : statics[k] \in Roots
      BY DEF RoutingInv
    <3>3. \A prefix \in Roots : Under(prefix, alt) => Under(prefix, r.path)
      BY <1>2, <1>9, <2>1, AlternateCovered
    <3> QED BY <1>7, <3>1, <3>2, <3>3 DEF Static
  <2>4. ~Registered(m, alt)
    <3>1. SUFFICES ASSUME NEW j \in DOMAIN table.routes, table.routes[j].method = m, table.routes[j].path = alt
                   PROVE  FALSE
      BY DEF Registered
    <3>2. table.routes[j] \in Known(table, m)
      BY <3>1 DEF Known, ToSet
    <3>3. KeyOf(table.routes[j]) = KeyOf(r)
      BY <2>2, <3>1 DEF KeyOf
    <3>4. Apart(Known(table, m))
      BY <1>2, TreeOf DEF Held
    <3>5. table.routes[j] = r
      BY <1>2, <3>2, <3>3, <3>4 DEF Apart
    <3> QED BY <2>2, <3>1, <3>5
  <2>5. r.path # None
    <3>1. None \notin Seq(Segments \cup {None})
      BY RoutingConstants
    <3>2. r.path \in Seq(Segments \cup {None})
      BY <1>2
    <3> QED BY <3>1, <3>2
  <2> QED BY <1>1, <1>6, <2>1, <2>2, <2>3, <2>4, <2>5 DEF Answer
<1> QED BY <1>1, <1>5, <1>8, <1>9

\* Where a redirect leads, nothing is mounted: it would cover the path asked for.
LEMMA RedirectUncovered ==
  ASSUME RoutingInv, NEW m \in Methods \ {"WS"}, NEW path \in Seq(Segments), path # <<>>,
         Answer(m, path).kind = "redirect"
  PROVE  Uncovered(path)
<1>1. AppFor(path).kind = "app"
  BY DEF AppFor, App
<1>2. ~\E i \in DOMAIN subapps : Under(subapps[i], path)
  BY <1>1 DEF Answer
<1>3. ~Static(path)
  BY <1>2 DEF Answer
<1> QED BY <1>2, <1>3 DEF Uncovered, Static

\* A route without markers answers for its path with its handler, if that has
\* no other literal path and nothing is mounted in front.
LEMMA LiteralAnswers ==
  ASSUME RoutingInv, NEW r \in ToSet(table.routes), ~Dynamic(r.path), OneLiteral(r),
         Uncovered(r.path), Registered(r.method, r.path)
  PROVE  AnsweredBy(r, r.method, r.path)
<1>1. PICK m : m = r.method
  OBVIOUS
<1>2. r \in Listed /\ m \in Methods /\ r \in Known(table, m) /\ r.handler # None
  <2>1. table.routes \in Seq(Listed)
    BY DEF RoutingInv, TableOK, Plainly
  <2>2. r \in Listed
    BY <2>1 DEF ToSet
  <2>3. m \in Methods /\ r.handler # None
    BY <1>1, <2>2, RoutingConstants DEF Listed, Named
  <2>4. r \in Known(table, m)
    BY <1>1 DEF Known
  <2> QED BY <2>2, <2>3, <2>4
<1>3. Match(m, r.path) = [handler |-> r.handler, params |-> <<>>]
  BY <1>2, LiteralMatch
<1>4. PICK q : q = table.byHandler[r.handler]
  OBVIOUS
<1>5. r.handler \in DOMAIN table.byHandler /\ q.handler = r.handler /\ (Dynamic(q.path) \/ q.path = r.path)
  <2>1. ByName(table)
    BY DEF RoutingInv, TableOK
  <2>2. r.handler \in DOMAIN table.byHandler
    BY <2>1 DEF ByName, ToSet
  <2>3. PICK j \in DOMAIN table.routes : /\ table.byHandler[r.handler] = table.routes[j]
                                         /\ table.routes[j].handler = r.handler
    BY <2>1, <2>2 DEF ByName
  <2>4. q \in ToSet(table.routes)
    BY <1>4, <2>3 DEF ToSet
  <2> QED BY <1>4, <2>2, <2>3, <2>4 DEF OneLiteral
<1>6. Served(m, r.path) = [kind |-> "route", route |-> q, params |-> <<>>]
  <2>1. PICK f : f = Match(m, r.path)
    OBVIOUS
  <2>2. f.handler = r.handler /\ f.params = <<>>
    BY <1>3, <2>1
  <2>3. f.handler # None /\ f.handler \in DOMAIN table.byHandler /\ table.byHandler[f.handler] = q
    BY <1>2, <1>4, <1>5, <2>2
  <2> QED BY <1>5, <2>1, <2>2, <2>3 DEF Served
<1>7. /\ ~\E k \in DOMAIN subapps : Under(subapps[k], r.path)
      /\ ~Static(r.path)
  BY DEF Uncovered, Static
<1>8. Answer(m, r.path) = Served(m, r.path)
  BY <1>1, <1>7 DEF Answer
<1> QED BY <1>1, <1>5, <1>6, <1>8 DEF AnsweredBy

\* A redirect is answered where it leads, and not by another redirect.
LEMMA Redirects == ASSUME RoutingInv PROVE RedirectsLand
<1> SUFFICES ASSUME NEW m \in Methods \ {"WS"}, NEW path \in Paths, Answer(m, path).kind = "redirect"
             PROVE  /\ Answer(m, Answer(m, path).to).kind # "redirect"
                    /\ \E r \in ToSet(table.routes) :
                          /\ r.method = m /\ r.path = Answer(m, path).to
                          /\ ~Dynamic(r.path) /\ OneLiteral(r) => AnsweredBy(r, m, Answer(m, path).to)
  BY DEF RedirectsLand
<1>1. PICK to : to = Answer(m, path).to
  OBVIOUS
<1>2. Alternate(path) # None /\ to = Alternate(path) /\ Registered(m, to)
  BY <1>1, AnswerKinds
<1>3. Answer(m, to).kind # "redirect"
  BY <1>2, AnswerKinds
<1>4. PICK r \in ToSet(table.routes) : r.method = m /\ r.path = to
  BY <1>2 DEF Registered, ToSet
<1>5. Uncovered(to)
  <2>1. path \in Seq(Segments) /\ path # <<>>
    BY RoutingConstants
  <2>2. Uncovered(path)
    BY <2>1, RedirectUncovered
  <2>3. /\ \A k \in DOMAIN subapps : subapps[k] \in Roots
        /\ \A k \in DOMAIN statics : statics[k] \in Roots
    BY DEF RoutingInv
  <2>4. \A prefix \in Roots : Under(prefix, to) => Under(prefix, path)
    BY <1>2, <2>1, AlternateCovered
  <2> QED BY <2>2, <2>3, <2>4 DEF Uncovered
<1>6. ~Dynamic(r.path) /\ OneLiteral(r) => AnsweredBy(r, m, to)
  BY <1>2, <1>4, <1>5, LiteralAnswers
<1> QED BY <1>1, <1>3, <1>4, <1>6

\* A redirect of _handle leads to a path that its route's handler answers and
\* not back, unless the handler has another literal path; and each route whose
\* path is literal and not covered by a mount or a static directory answers
\* for it, and gets what asks with the other slash.
THEOREM PathsAlwaysLand == RoutingSpec => []PathsLand
<1>1. ASSUME RoutingInv PROVE LiteralReached
  <2>1. SUFFICES ASSUME NEW i \in DOMAIN table.routes,
                        \A j \in DOMAIN table.routes : table.routes[j].handler = table.routes[i].handler => j = i,
                        ~Dynamic(table.routes[i].path),
                        ~\E prefix \in ToSet(subapps \o statics) : Under(prefix, table.routes[i].path),
                        table.routes[i].method # "WS"
                 PROVE  LET r == table.routes[i]
                            alt == Alternate(r.path)
                        IN  /\ Answer(r.method, r.path) = [kind |-> "route", route |-> r, params |-> <<>>]
                            /\ alt # None /\ Alternate(alt) = r.path =>
                                   Answer(r.method, alt) = [kind |-> "redirect", to |-> r.path]
    BY DEF LiteralReached
  <2>2. Uncovered(table.routes[i].path)
    BY <1>1, <2>1, UncoveredIs
  <2> QED BY <1>1, <2>1, <2>2, Reached
<1>2. RoutingInv => PathsLand
  BY <1>1, Redirects DEF PathsLand
<1> QED BY <1>2, RoutingAlwaysInv, PTL

=============================================================================
