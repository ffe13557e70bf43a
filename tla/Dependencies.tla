---------------------------- MODULE Dependencies ----------------------------
(***************************************************************************)
(* Dependency injection of one request: resolve_dependencies and           *)
(* resolve_callable (deps.py), which call the dependencies of a route      *)
(* depth first, share their values through dep_cache and note the cleanup  *)
(* of every generator, and the part of _handle (app.py) that calls the     *)
(* handler and then the cleanups in reverse order.  Every await may raise  *)
(* or be cancelled (request timeout, client gone).                         *)
(*                                                                         *)
(* A value is the position in `made` of the call that returned it.         *)
(***************************************************************************)
EXTENDS Naturals, Sequences, FiniteSets

CONSTANTS
    Dep,           \* the callables that requests depend on
    Endpoint,      \* the handler of the route
    Graphs,        \* what an application may declare: callable -> its Depends
                   \* parameters, in signature order
    AsyncGen,      \* the callables that are asynchronous generators
    SyncGen,       \* ... and plain generators: next() and close() run in a thread
    Overrides,     \* the tables app.dependency_overrides may hold
    MaxDepth       \* bound: how deep Python lets resolve_callable recurse

Demand == [to : Dep, cache : BOOLEAN]

ASSUME DependenciesAssumption ==
    /\ Endpoint \notin Dep
    /\ \A g \in Graphs : g \in [Dep \cup {Endpoint} -> Seq(Demand)]
    /\ AsyncGen \subseteq Dep /\ SyncGen \subseteq Dep \ AsyncGen
    /\ Overrides \subseteq [Dep -> Dep]
    /\ MaxDepth \in Nat

VARIABLES
    phase,      \* of the request: "new", "resolving", "handling", "closing", "done"
    Needs,      \* the application's graph
    overrides,  \* the table the request resolves with
    stack,      \* the calls of resolve_callable under way, the endpoint first
    dep_cache,  \* dep_cache: callable -> value
    made,       \* the calls of dependencies so far
    cleanups,   \* cleanups: the values whose generators are to be closed
    given,      \* the values given out to cached demands: [to, value]
    resolved,   \* resolution ended well
    broken      \* a cleanup raised or was cancelled

appVars == <<Needs, overrides>>

vars == <<phase, appVars, stack, dep_cache, made, cleanups, given,
          resolved, broken>>

Generator == AsyncGen \cup SyncGen

Value == 1 .. Len(made)

\* A variant that caches under the callable that is called in the end.
FrameByTarget(fn, key, cache) ==
    [fn |-> fn, key |-> fn, cache |-> cache, at |-> 0, args |-> {}]

\* A call of resolve_callable for fn, whose value goes to the cache as key;
\* at counts the parameters read, args holds the values received and those
\* they were themselves made from.
Frame(fn, key, cache) ==
    [fn |-> fn, key |-> key, cache |-> cache, at |-> 0, args |-> {}]

Top == stack[Len(stack)]

Below == SubSeq(stack, 1, Len(stack) - 1)

\* The demand the innermost call is at.
Wanted == Needs[Top.fn][Top.at + 1]

Key == overrides[Wanted.to]

\* v is bound to the parameter of f that is being read.
Bind(f, v) == [f EXCEPT !.at = @ + 1, !.args = @ \cup {v} \cup made'[v].args]

Give(v) == given' = given \cup {[to |-> Wanted.to, value |-> v]}

-----------------------------------------------------------------------------
Init ==
    /\ phase = "new"
    /\ Needs \in Graphs
    /\ overrides \in Overrides
    /\ stack = <<>>
    /\ dep_cache = <<>>
    /\ made = <<>>
    /\ cleanups = <<>>
    /\ given = {}
    /\ resolved = FALSE
    /\ broken = FALSE

\* _handle found the route and resolves its param_specs (app.py:824).
Begin ==
    /\ phase = "new"
    /\ phase' = "resolving"
    /\ stack' = <<Frame(Endpoint, Endpoint, FALSE)>>
    /\ UNCHANGED <<appVars, dep_cache, made, cleanups, given, resolved, broken>>

HasDemand == phase = "resolving" /\ Top.at < Len(Needs[Top.fn])

\* The demand is cached and so is the value of the callable it is overridden by.
Reuse ==
    /\ HasDemand
    /\ Wanted.cache
    /\ Key \in DOMAIN dep_cache
    /\ made' = made
    /\ stack' = Append(Below, Bind(Top, dep_cache[Key]))
    /\ Give(dep_cache[Key])
    /\ UNCHANGED <<phase, appVars, dep_cache, cleanups, resolved, broken>>

\* Else resolve_callable is called for it, which looks it up in the overrides
\* a second time (deps.py:298).
Descend ==
    /\ HasDemand
    /\ ~(Wanted.cache /\ Key \in DOMAIN dep_cache)
    /\ Len(stack) < MaxDepth
    /\ stack' = Append(stack, Frame(overrides[Key], Key, Wanted.cache))
    /\ UNCHANGED <<phase, appVars, dep_cache, made, cleanups, given, resolved, broken>>

\* All parameters of a dependency are there.
Callable == phase = "resolving" /\ Len(stack) > 1 /\ Top.at = Len(Needs[Top.fn])

\* The call of a dependency is logged; state is that of the generator, if any.
Log(state) == made' = Append(made, [fn |-> Top.fn, args |-> Top.args, state |-> state])

\* Variants that call the cleanups in the order of opening, and that note
\* asynchronous generators only.
NoteFirst(v) == cleanups' = IF Top.fn \in Generator THEN <<v>> \o cleanups ELSE cleanups

NoteAsync(v) == cleanups' = IF Top.fn \in AsyncGen THEN Append(cleanups, v) ELSE cleanups

\* A generator that has yielded is noted for its cleanup.
Note(v) == cleanups' = IF Top.fn \in Generator THEN Append(cleanups, v) ELSE cleanups

\* The dependency returns, or yields, its value, which the caller caches and
\* binds to its own parameter.
Return ==
    LET v == Len(made) + 1
        caller == Below[Len(Below)]
    IN  /\ Callable
        /\ Log(IF Top.fn \in Generator THEN "open" ELSE "plain")
        /\ Note(v)
        /\ dep_cache' = IF Top.cache
                          THEN [k \in DOMAIN dep_cache \cup {Top.key} |->
                                    IF k = Top.key THEN v ELSE dep_cache[k]]
                          ELSE dep_cache
        /\ given' = IF Top.cache
                      THEN given \cup {[to |-> Needs[caller.fn][caller.at + 1].to, value |-> v]}
                      ELSE given
        /\ stack' = Append(SubSeq(Below, 1, Len(Below) - 1), Bind(caller, v))
        /\ UNCHANGED <<phase, appVars, resolved, broken>>

\* Resolution ends with an exception: resolve_dependencies does not return, and
\* its list of cleanups is lost with it.
Abandon == phase' = "done" /\ stack' = <<>> /\ UNCHANGED <<appVars, resolved, broken>>

\* A parameter is missing or ill-typed, a dependency raises or yields nothing,
\* recursion is too deep, or the task is cancelled at an await.
ResolutionFails ==
    /\ phase = "resolving"
    /\ Abandon
    /\ UNCHANGED <<dep_cache, made, cleanups, given>>

\* The value comes but lacks the scopes asked for: its generator is open, its
\* cleanup noted, and the error raised before it is cached (deps.py:281).
Forbidden ==
    /\ Callable
    /\ Log(IF Top.fn \in Generator THEN "open" ELSE "plain")
    /\ Note(Len(made) + 1)
    /\ Abandon
    /\ UNCHANGED <<dep_cache, given>>

\* The task is cancelled while next() runs in a thread, which goes on.
CancelledInNext ==
    /\ Callable
    /\ Top.fn \in SyncGen
    /\ Log("opening")
    /\ Abandon
    /\ UNCHANGED <<dep_cache, cleanups, given>>

\* The thread reaches the yield of a generator nobody will close.
OpensLate ==
    /\ \E v \in Value : made[v].state = "opening" /\ made' = [made EXCEPT ![v].state = "open"]
    /\ UNCHANGED <<phase, appVars, stack, dep_cache, cleanups, given, resolved, broken>>

-----------------------------------------------------------------------------
\* All the parameters of the route are there: the handler is called.
Handle ==
    /\ phase = "resolving"
    /\ Len(stack) = 1
    /\ Top.at = Len(Needs[Endpoint])
    /\ phase' = "handling"
    /\ resolved' = TRUE
    /\ UNCHANGED <<appVars, stack, dep_cache, made, cleanups, given, broken>>

\* It returns, raises or is cancelled.
HandlerEnds ==
    /\ phase = "handling"
    /\ phase' = "closing"
    /\ stack' = <<>>
    /\ UNCHANGED <<appVars, dep_cache, made, cleanups, given, resolved, broken>>

\* The cleanups left to call, the last one first.
LastCleanup == cleanups[Len(cleanups)]

Closes(state) ==
    /\ phase = "closing"
    /\ cleanups # <<>>
    /\ made' = [made EXCEPT ![LastCleanup].state = state]
    /\ cleanups' = SubSeq(cleanups, 1, Len(cleanups) - 1)
    /\ UNCHANGED <<appVars, stack, dep_cache, given, resolved>>

\* aclose() or close() returns.
Cleanup == Closes("closed") /\ UNCHANGED <<phase, broken>>

\* It raises, or the task is cancelled in it or before it begins (call_callable
\* calls aclose() in a thread): those left are not called.
CleanupFails ==
    /\ \E state \in {"closed", "open"} : Closes(state)
    /\ phase' = "done"
    /\ broken' = TRUE

\* The task is cancelled while close() runs in a thread, which goes on.
CancelledInClose ==
    /\ cleanups # <<>> /\ made[LastCleanup].fn \in SyncGen
    /\ Closes("closing")
    /\ phase' = "done"
    /\ broken' = TRUE

ClosesLate ==
    /\ \E v \in Value : made[v].state = "closing" /\ made' = [made EXCEPT ![v].state = "closed"]
    /\ UNCHANGED <<phase, appVars, stack, dep_cache, cleanups, given, resolved, broken>>

\* _handle goes on to the response.
Finish ==
    /\ phase = "closing"
    /\ cleanups = <<>>
    /\ phase' = "done"
    /\ UNCHANGED <<appVars, stack, dep_cache, made, cleanups, given, resolved, broken>>

Next ==
    \/ Begin \/ Reuse \/ Descend \/ Return
    \/ ResolutionFails \/ Forbidden \/ CancelledInNext \/ OpensLate
    \/ Handle \/ HandlerEnds
    \/ Cleanup \/ CleanupFails \/ CancelledInClose \/ ClosesLate \/ Finish

Spec == Init /\ [][Next]_vars

-----------------------------------------------------------------------------
(* Correctness.                                                            *)

Call == [fn : Dep, args : SUBSET Value,
         state : {"plain", "opening", "open", "closing", "closed"}]

Frames == [fn : Dep \cup {Endpoint}, key : Dep \cup {Endpoint}, cache : BOOLEAN,
           at : Nat, args : SUBSET Value]

TypeOK ==
    /\ phase \in {"new", "resolving", "handling", "closing", "done"}
    /\ Needs \in [Dep \cup {Endpoint} -> Seq(Demand)] /\ overrides \in [Dep -> Dep]
    /\ stack \in Seq(Frames)
    /\ DOMAIN dep_cache \subseteq Dep /\ \A k \in DOMAIN dep_cache : dep_cache[k] \in Value
    /\ made \in Seq(Call)
    /\ cleanups \in Seq(Value)
    /\ given \subseteq [to : Dep, value : Value]
    /\ resolved \in BOOLEAN /\ broken \in BOOLEAN

\* Nothing is closed under its users' feet: when a generator has been closed,
\* so has every generator made from its value, directly or through others
\* (reversed(cleanups), app.py:834), and no coroutine handler is running.
ClosedAfterUsers ==
    \A v \in Value : made[v].state \in {"closing", "closed"} =>
        /\ phase # "handling"
        /\ \A u \in Value : v \in made[u].args => made[u].state \notin {"opening", "open"}

\* If resolution ended well then, whatever the handler did, each generator is
\* closed when the request goes on, unless the cleanup of a later one failed.
AllClosed ==
    phase = "done" /\ resolved /\ ~broken => \A v \in Value : made[v].state \in {"plain", "closed"}

\* Two demands of one dependency that allow caching get the same object, on
\* whatever level and in whatever order they are met.
SameForAll == \A g, h \in given : g.to = h.to => g.value = h.value

\* No demand without caching can lead to f.
AlwaysCached(f) ==
    \A d \in DOMAIN Needs : \A i \in DOMAIN Needs[d] :
        overrides[overrides[Needs[d][i].to]] = f => Needs[d][i].cache

\* A dependency that every demand allows to cache is called once per request,
\* if no override is itself overridden.
OncePerRequest ==
    (\A d \in Dep : overrides[overrides[d]] = overrides[d]) =>
        \A u, v \in Value : made[u].fn = made[v].fn /\ AlwaysCached(made[u].fn) => u = v

\* Sharing: what may be cached is the same for all, and made once.
SharedAsCached == SameForAll /\ OncePerRequest

=============================================================================
