------------------------------ MODULE Lifespan ------------------------------
(***************************************************************************)
(* The lifespan side of Turbo (src/turbo/app.py): startup opens the state  *)
(* resources in the order of their registration and runs the startup       *)
(* handlers; shutdown drains the requests, runs the shutdown handlers and  *)
(* closes the resources in reverse order.  Factories, cleanups and         *)
(* handlers may raise; requests look resources up in app.state meanwhile.  *)
(*                                                                         *)
(* A value of resource n opened by the k-th startup is <<n, k>>.  pc is    *)
(*   "idle"      in receive(), or no lifespan task at all                  *)
(*   "opening"   in _startup_state_resources, todo still to open           *)
(*   "undoing"   in its except clause, todo still to close                 *)
(*   "starting"  in the startup handlers, left still to run                *)
(*   "clearing"  in the except clause around both                          *)
(*   "draining", "stopping", "closing"  the three parts of the shutdown    *)
(*   "gone"      left by something that is no Exception.                   *)
(***************************************************************************)
EXTENDS Naturals, Sequences, SequencesExt

CONSTANTS
    Resource, Request,
    HasCleanup,     \* the resources registered with a cleanup
    StartHandlers,  \* how many startup ...
    StopHandlers,   \* ... and shutdown handlers there are
    MaxListed,      \* bound on the resources registered at a time
    MaxRounds,      \* bound on the startups
    None

ASSUME Bounds ==
    HasCleanup \subseteq Resource /\ {StartHandlers, StopHandlers, MaxListed, MaxRounds} \subseteq Nat

\* Nothing that is stored is mistaken for nothing.
ASSUME NoneIsApart ==
    /\ None \notin Resource \X Nat
    /\ None \notin {"factory", "handler", "cleanup"}
    /\ None \notin {"started", "start failed", "stopped", "stop failed"}
    /\ \A S \in SUBSET (Resource \X (1..MaxRounds)) : S # None

VARIABLES
    registered,  \* self._state_resources, by name
    values,      \* self._state_resource_values
    state,       \* app.state, as far as resources are in it
    pc, todo, left,
    remaking,    \* the factory of Head(todo) is called a second time
    cleaning,    \* "no", or the call of the cleanup of Last(todo) in progress
    broke,       \* first_exc of _shutdown_state_resources is set
    err,         \* where the exception to be reported came from
    reply,       \* the last message sent
    round,       \* history: the startups so far
    live,        \* history: the values open
    closings,    \* history: how often each cleanup was called
    retried,     \* history: the values whose cleanup was called a second time
    opened,      \* history: the values of this round, in the order opened
    trouble,     \* history: some function raised since the last message came
    gaveUp,      \* history: the drain returned while requests were in flight
    using        \* what each request being served found in app.state

appVars == <<registered, values, state>>
taskVars == <<pc, todo, left, remaking, cleaning, broke, err, reply>>
history == <<round, live, closings, retried, opened, trouble, gaveUp>>
vars == <<appVars, taskVars, history, using>>

Value == Resource \X (1..MaxRounds)
Unwinding == {"undoing", "clearing", "closing"}
Idle == [n \in Resource |-> None]
Serving == pc = "idle" /\ reply = "started"

Init ==
    /\ registered \in {s \in BoundedSeq(Resource, MaxListed) : IsInjective(s)}
    /\ values = <<>> /\ state = Idle
    /\ pc = "idle" /\ todo = <<>> /\ left = 0
    /\ remaking = FALSE /\ cleaning = "no" /\ broke = FALSE /\ err = None /\ reply = None
    /\ round = 0 /\ live = {} /\ opened = <<>> /\ trouble = FALSE /\ gaveUp = FALSE
    /\ closings = [v \in Value |-> 0] /\ retried = {}
    /\ using = [r \in Request |-> None]

-----------------------------------------------------------------------------
(* Registration, at any time: a loop under way keeps the list it began.    *)

\* (A name is registered once at most.)
Without(n) == RemoveFirst(registered, n)

AddResource(n) ==
    /\ Len(Without(n)) < MaxListed
    /\ registered' = Append(Without(n), n)
    /\ UNCHANGED <<values, state, taskVars, history, using>>

RemoveResource(n) ==
    /\ registered' = Without(n)
    /\ UNCHANGED <<values, state, taskVars, history, using>>

-----------------------------------------------------------------------------
(* lifespan.startup.  It may come before the last shutdown (two test        *)
(* clients on one application), while no request is served.                 *)

Startup ==
    /\ pc = "idle" /\ round < MaxRounds
    /\ \A r \in Request : using[r] = None
    /\ round' = round + 1
    /\ values' = <<>>
    /\ pc' = "opening" /\ todo' = registered
    /\ opened' = <<>> /\ reply' = None /\ err' = None /\ trouble' = FALSE
    /\ UNCHANGED <<registered, state, left, remaking, cleaning, broke, live, closings, retried,
                   gaveUp, using>>

\* A factory that raised TypeError or ValueError is called again, as if for its
\* signature: what the first call did before it raised is nobody's to close.
FactoryAgain ==
    /\ pc = "opening" /\ todo # <<>> /\ ~remaking
    /\ remaking' = TRUE
    /\ UNCHANGED <<appVars, pc, todo, left, cleaning, broke, err, reply, history, using>>

\* A factory returns: its value is in app.state, and listed for the shutdown.
Open ==
    LET v == <<Head(todo), round>> IN
    /\ pc = "opening" /\ todo # <<>>
    /\ state' = [state EXCEPT ![Head(todo)] = v]
    /\ values' = Append(values, v)
    /\ live' = live \cup {v} /\ opened' = Append(opened, v)
    /\ todo' = Tail(todo) /\ remaking' = FALSE
    /\ UNCHANGED <<registered, pc, left, cleaning, broke, err, reply, round, closings, retried,
                   trouble, gaveUp, using>>

Opened ==
    /\ pc = "opening" /\ todo = <<>>
    /\ pc' = "starting" /\ left' = StartHandlers
    /\ UNCHANGED <<appVars, todo, remaking, cleaning, broke, err, reply, history, using>>

\* _shutdown_state_resources is entered.
Unwind(to, cause) ==
    /\ pc' = to /\ todo' = values /\ remaking' = FALSE /\ broke' = FALSE /\ err' = cause
    /\ UNCHANGED <<appVars, left, cleaning, reply, round, live, closings, retried, opened,
                   gaveUp, using>>

FactoryRaisesLate ==  \* mutant: no except clause around the factories
    /\ pc = "opening" /\ todo # <<>>
    /\ pc' = "idle" /\ reply' = "start failed" /\ remaking' = FALSE
    /\ UNCHANGED <<appVars, todo, left, cleaning, broke, err, history, using>>

FactoryRaises ==
    pc = "opening" /\ todo # <<>> /\ trouble' = TRUE /\ Unwind("undoing", "factory")

\* A startup handler returns, or raises; after the last the message is sent.
StartHandlerReturns ==
    /\ pc = "starting" /\ left > 0
    /\ left' = left - 1
    /\ UNCHANGED <<appVars, pc, todo, remaking, cleaning, broke, err, reply, history, using>>

StartHandlerRaises ==
    pc = "starting" /\ left > 0 /\ trouble' = TRUE /\ Unwind("clearing", "handler")

Started ==
    /\ pc = "starting" /\ left = 0
    /\ pc' = "idle" /\ reply' = "started"
    /\ UNCHANGED <<appVars, todo, left, remaking, cleaning, broke, err, history, using>>

-----------------------------------------------------------------------------
(* _shutdown_state_resources                                               *)

\* The cleanup of the latest value is called: from here on it is closed ...
CallCleanup ==
    LET v == Last(todo) IN
    /\ pc \in Unwinding /\ todo # <<>> /\ cleaning = "no"
    /\ v[1] \in HasCleanup
    /\ cleaning' = "first"
    /\ live' = live \ {v}
    /\ closings' = [closings EXCEPT ![v] = @ + 1]
    /\ UNCHANGED <<appVars, pc, todo, left, remaking, broke, err, reply, round, retried, opened,
                   trouble, gaveUp, using>>

\* (called again if it raised TypeError or ValueError, as if for its signature)
CallCleanupAgain ==
    LET v == Last(todo) IN
    /\ cleaning = "first"
    /\ cleaning' = "second"
    /\ closings' = [closings EXCEPT ![v] = @ + 1]
    /\ retried' = retried \cup {v}
    /\ UNCHANGED <<appVars, pc, todo, left, remaking, broke, err, reply, round, live, opened,
                   trouble, gaveUp, using>>

\* ... and, the cleanup over or absent, taken from app.state.
Drop ==
    LET v == Last(todo) IN
    /\ state' = [state EXCEPT ![v[1]] = None]
    /\ todo' = Front(todo)
    /\ cleaning' = "no"
    /\ UNCHANGED <<registered, values, pc, left, remaking, err, reply,
                   round, live, closings, retried, opened, gaveUp, using>>

CleanupEnds ==
    /\ \/ cleaning # "no"
       \/ pc \in Unwinding /\ todo # <<>> /\ Last(todo)[1] \notin HasCleanup
    /\ Drop
    /\ UNCHANGED <<broke, trouble>>

CleanupRaises == cleaning # "no" /\ Drop /\ broke' = TRUE /\ trouble' = TRUE

ClearedQuietly ==
    /\ pc \in Unwinding /\ todo = <<>> /\ cleaning = "no"
    /\ values' = <<>>
    /\ broke' = FALSE
    /\ \/ /\ pc = "undoing"
          /\ pc' = "clearing" /\ todo' = values' /\ UNCHANGED <<reply, err>>
       \/ /\ pc = "clearing"
          /\ pc' = "idle" /\ reply' = "start failed" /\ UNCHANGED <<todo, err>>
       \/ /\ pc = "closing"
          /\ pc' = "idle" /\ UNCHANGED <<todo, err>>
          /\ reply' = IF err = None THEN "stopped" ELSE "stop failed"
    /\ UNCHANGED <<registered, state, left, remaking, cleaning, history, using>>

\* The loop is over.  Undoing, it raises the first failure of a cleanup, or
\* else the factory's, and the outer except clause enters it again; clearing,
\* it is silent; closing, what a shutdown handler raised comes first.
Cleared ==
    /\ pc \in Unwinding /\ todo = <<>> /\ cleaning = "no"
    /\ values' = <<>>
    /\ broke' = FALSE
    /\ \/ /\ pc = "undoing"
          /\ pc' = "clearing" /\ todo' = values' /\ reply' = reply
          /\ err' = IF broke THEN "cleanup" ELSE err
       \/ /\ pc = "clearing"
          /\ pc' = "idle" /\ reply' = "start failed" /\ UNCHANGED <<todo, err>>
       \/ /\ pc = "closing"
          /\ pc' = "idle" /\ todo' = todo
          /\ err' = IF err = None /\ broke THEN "cleanup" ELSE err
          /\ reply' = IF err' = None THEN "stopped" ELSE "stop failed"
    /\ UNCHANGED <<registered, state, left, remaking, cleaning, history, using>>

-----------------------------------------------------------------------------
(* lifespan.shutdown                                                       *)

Shutdown ==
    /\ pc = "idle" /\ reply \in {"started", "start failed"}
    /\ pc' = "draining" /\ err' = None /\ reply' = None /\ trouble' = FALSE /\ gaveUp' = FALSE
    /\ UNCHANGED <<appVars, todo, left, remaking, cleaning, broke, round, live, closings, retried,
                   opened, using>>

DrainedUnseen ==  \* mutant: nobody waits for the requests
    /\ pc = "draining"
    /\ pc' = "stopping" /\ left' = StopHandlers
    /\ UNCHANGED <<appVars, todo, remaking, cleaning, broke, err, reply, history, using>>

\* _drain_inflight_requests (module Dispatch) returns, or gives up.
Drained ==
    /\ pc = "draining"
    /\ pc' = "stopping" /\ left' = StopHandlers
    /\ gaveUp' = \E r \in Request : using[r] # None
    /\ UNCHANGED <<appVars, todo, remaking, cleaning, broke, err, reply,
                   round, live, closings, retried, opened, trouble, using>>

StopHandlerReturns ==
    /\ pc = "stopping" /\ left > 0
    /\ left' = left - 1
    /\ UNCHANGED <<appVars, pc, todo, remaking, cleaning, broke, err, reply, history, using>>

\* The handlers after it are skipped, the resources are not.
StopHandlerRaises ==
    pc = "stopping" /\ left > 0 /\ trouble' = TRUE /\ Unwind("closing", "handler")

StopHandlersDone ==
    pc = "stopping" /\ left = 0 /\ UNCHANGED trouble /\ Unwind("closing", None)

\* A BaseException (the cancellation of the task, SystemExit) out of any of
\* the user's functions passes every except clause.
Exit ==
    /\ \/ pc = "opening" /\ todo # <<>>
       \/ pc \in {"starting", "stopping"} /\ left > 0
       \/ cleaning # "no"
    /\ pc' = "gone"
    /\ remaking' = FALSE /\ cleaning' = "no"
    /\ UNCHANGED <<appVars, todo, left, broke, err, reply, history, using>>

-----------------------------------------------------------------------------
(* Requests, which come while the application is started, and end.         *)

Arrive(r) ==
    /\ Serving /\ using[r] = None
    /\ using' = [using EXCEPT ![r] = {}]
    /\ UNCHANGED <<appVars, taskVars, history>>

\* state_dependency: the value, or 500 (Missing app state).
LookUp(r) ==
    /\ using[r] # None
    /\ \E n \in Resource :
        /\ state[n] # None
        /\ using' = [using EXCEPT ![r] = @ \cup {state[n]}]
    /\ UNCHANGED <<appVars, taskVars, history>>

Leave(r) ==
    /\ using[r] # None
    /\ using' = [using EXCEPT ![r] = None]
    /\ UNCHANGED <<appVars, taskVars, history>>

-----------------------------------------------------------------------------

Starts ==
    \/ Startup \/ FactoryAgain \/ Open \/ Opened \/ FactoryRaises
    \/ StartHandlerReturns \/ StartHandlerRaises \/ Started
Unwinds == CallCleanup \/ CallCleanupAgain \/ CleanupEnds \/ CleanupRaises \/ Cleared
Stops ==
    \/ Shutdown \/ Drained
    \/ StopHandlerReturns \/ StopHandlerRaises \/ StopHandlersDone

Next ==
    \/ Starts \/ Unwinds \/ Stops \/ Exit
    \/ \E n \in Resource : AddResource(n) \/ RemoveResource(n)
    \/ \E r \in Request : Arrive(r) \/ LookUp(r) \/ Leave(r)

Spec == Init /\ [][Next]_vars

-----------------------------------------------------------------------------
(* Properties.                                                             *)

\* Lists hold resources, values their round, and counters do not underflow.
TypeOK ==
    /\ registered \in Seq(Resource) /\ IsInjective(registered)
    /\ values \in Seq(Value) /\ opened \in Seq(Value)
    /\ state \in [Resource -> Value \cup {None}]
    /\ pc \in {"idle", "opening", "starting", "draining", "stopping", "gone"} \cup Unwinding
    /\ todo \in IF pc = "opening" THEN Seq(Resource) ELSE Seq(Value) \cup Seq(Resource)
    /\ left \in Nat /\ round \in 0..MaxRounds
    /\ cleaning \in {"no", "first", "second"}
    /\ {remaking, broke, trouble, gaveUp} \subseteq BOOLEAN
    /\ err \in {None, "factory", "handler", "cleanup"}
    /\ reply \in {None, "started", "start failed", "stopped", "stop failed"}
    /\ live \subseteq Value /\ closings \in [Value -> Nat] /\ retried \subseteq Value
    /\ using \in [Request -> (SUBSET Value) \cup {None}]

Closable == {v \in live : v[1] \in HasCleanup}

\* The lifespan over, or refused, whatever raised and wherever it did: every
\* resource opened since its startup that has a cleanup was handed to it, and
\* app.state holds none of them.
NoLeak ==
    pc = "idle" /\ reply \in {"start failed", "stopped", "stop failed"} =>
        \A v \in Range(opened) : v \notin Closable /\ state[v[1]] # v

\* The cleaning loop meets no value twice, though a failed startup enters it
\* twice and a shutdown may follow: no cleanup is called but once, or twice if
\* the first call raised TypeError or ValueError.
ClosedOnce == \A v \in Value : closings[v] <= IF v \in retried THEN 2 ELSE 1

\* Refuted: a cleanup is called once.  One that closes half of its resource
\* and then raises ValueError is called again (_invoke_resource_cleanup).
CleanedOnce == \A v \in Value : closings[v] <= 1

\* A resource is closed before those opened before it, which it may use.
ReverseOrder ==
    \A i, j \in DOMAIN opened :
        i < j /\ opened[j] \in Closable /\ opened[i][1] \in HasCleanup => opened[i] \in live

\* What a startup opened is closed by the end of the lifespan, by one pass of
\* the loop over it, and the last first, whatever raises on the way
\* (_shutdown_state_resources).
ClosedAsOpened == NoLeak /\ ClosedOnce /\ ReverseOrder

\* While the application serves, all that its startup opened is open and found
\* in app.state, whatever was registered or removed since.
ServesWhatItOpened ==
    Serving => \A v \in Range(opened) : v \in live /\ state[v[1]] = v

\* No request holds a resource that was closed, unless the drain gave up on it:
\* those in flight at a shutdown are waited for, and none comes later.
UsesOpen ==
    \A r \in Request : using[r] # None /\ ~gaveUp =>
        \A v \in using[r] : v[1] \in HasCleanup => v \in live

\* What requests are given is there and open.
ServedOpen == ServesWhatItOpened /\ UsesOpen

\* The message to the server says "complete" iff nothing raised.
ReportsTruth ==
    /\ reply \in {"started", "stopped"} => ~trouble
    /\ reply \in {"start failed", "stop failed"} => trouble

=============================================================================
