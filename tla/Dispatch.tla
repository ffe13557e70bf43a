------------------------------ MODULE Dispatch ------------------------------
(***************************************************************************)
(* The life of the HTTP requests of one Turbo application, from the entry  *)
(* of Turbo._dispatch_asgi to its exit, and the drain that a lifespan      *)
(* shutdown performs meanwhile (src/turbo/app.py).                         *)
(*                                                                         *)
(* All the tasks run on one event loop: an action is what one task does    *)
(* between two awaits that can suspend it.  A request is                   *)
(*   "idle"      not received yet                                          *)
(*   "waiting"   counted, its future queued in self._sem                   *)
(*   "granted"   handed a permit, its task not resumed yet                 *)
(*   "handling"  inside timeout(request_timeout), in the HTTP chain        *)
(*   "expiring"  past its deadline: cancelled by the timeout, unwinding    *)
(*   "mapping"   inside _handle_exception                                  *)
(*   "sending"   inside resp.send (body and background tasks)              *)
(*   "answered"  left through the finally that undoes the count            *)
(*   "lost"      left without reaching that finally.                       *)
(*                                                                         *)
(* A handler that is not a coroutine function runs in a thread, which no   *)
(* cancellation stops: `orphans` are the requests whose thread still runs  *)
(* after the task has moved on.                                            *)
(***************************************************************************)
EXTENDS Integers, FiniteSets

CONSTANTS
    Req,             \* the requests the server may deliver
    SyncReq,         \* those whose route has a plain (non-async) handler
    MaxConcurrency,  \* max_concurrency
    RequestTimeout,  \* TRUE iff request_timeout > 0
    DrainTimeouts,   \* has TRUE iff shutdown_drain_timeout may be > 0, FALSE iff 0
    Cancels,         \* TRUE iff the server may cancel a request's task
    BadMappers       \* TRUE iff a registered exception handler may raise

ASSUME ReqFinite == IsFiniteSet(Req) /\ SyncReq \subseteq Req
ASSUME ConcurrencyPositive == MaxConcurrency \in Nat \ {0}
ASSUME Switches == {RequestTimeout, Cancels, BadMappers} \subseteq BOOLEAN
ASSUME DrainSettings == DrainTimeouts \subseteq BOOLEAN

VARIABLES
    status,    \* where each request is
    ticket,    \* its place in the order of arrival
    arrivals,  \* how many have arrived
    sem,       \* self._sem._value
    inflight,  \* self._inflight_http
    idleEvent, \* self._drain_event.is_set()
    orphans,   \* requests whose handler thread outlived its task
    drain,     \* the lifespan task in _drain_inflight_requests
    verdict,   \* how that call returned
    early      \* history: the requests in the server when shutdown came

vars == <<status, ticket, arrivals, sem, inflight, idleEvent, orphans,
          drain, verdict, early>>

drainVars == <<drain, verdict, early>>

Waiting == {r \in Req : status[r] = "waiting"}
Granted == {r \in Req : status[r] = "granted"}
Holders == {r \in Req : status[r] \in {"handling", "expiring", "mapping", "sending"}}
Active  == Waiting \cup Granted \cup Holders
Lost    == {r \in Req : status[r] = "lost"}
Finished == {"answered", "lost"}

(***************************************************************************)
(* asyncio.Semaphore.  Permits go to the waiting futures in the order of   *)
(* their arrival: Front(W, k) is the set of the (at most k) first of W.    *)
(***************************************************************************)
Front(W, k) ==
    {G \in SUBSET W :
        /\ Cardinality(G) <= k
        /\ (W \ G # {}) => Cardinality(G) = k
        /\ \A g \in G, w \in W \ G : ticket[g] < ticket[w]}

\* Requests r leaves for s; those of G are handed a permit.
Move(r, s, G) ==
    status' = [q \in Req |-> IF q = r THEN s
                             ELSE IF q \in G THEN "granted"
                             ELSE status[q]]

\* self._sem.__aexit__: one more permit, handed to the first future waiting.
Release(r, s) ==
    \E G \in Front(Waiting, 1) :
        /\ Move(r, s, G)
        /\ sem' = sem + 1 - Cardinality(G)

\* The finally of acquire(): with `free` permits, wake as many as there are.
WakeUp(r, s, free) ==
    \E G \in Front(Waiting \ {r}, free) :
        /\ Move(r, s, G)
        /\ sem' = free - Cardinality(G)

-----------------------------------------------------------------------------

Init ==
    /\ status = [r \in Req |-> "idle"]
    /\ ticket = [r \in Req |-> 0]
    /\ arrivals = 0
    /\ sem = MaxConcurrency
    /\ inflight = 0
    /\ idleEvent = TRUE
    /\ orphans = {}
    /\ drain = "off"
    /\ verdict = "none"
    /\ early = {}

\* Mutant: it never looks at the permits.
ArriveUnchecked(r) ==
    /\ status[r] = "idle"
    /\ inflight' = inflight + 1
    /\ idleEvent' = FALSE
    /\ arrivals' = arrivals + 1
    /\ ticket' = [ticket EXCEPT ![r] = arrivals]
    /\ sem' = sem - 1
    /\ status' = [status EXCEPT ![r] = "handling"]
    /\ UNCHANGED <<orphans, drainVars>>

(***************************************************************************)
(* The server delivers r: it is counted, and takes a permit at once when   *)
(* there is one and nobody queues for it.                                  *)
(***************************************************************************)
Arrive(r) ==
    /\ status[r] = "idle"
    /\ inflight' = inflight + 1
    /\ idleEvent' = FALSE
    /\ arrivals' = arrivals + 1
    /\ ticket' = [ticket EXCEPT ![r] = arrivals]
    /\ \/ /\ sem > 0 /\ Waiting \cup Granted = {}
          /\ sem' = sem - 1
          /\ status' = [status EXCEPT ![r] = "handling"]
       \/ /\ ~ (sem > 0 /\ Waiting \cup Granted = {})
          /\ status' = [status EXCEPT ![r] = "waiting"]
          /\ UNCHANGED sem
    /\ UNCHANGED <<orphans, drainVars>>

\* The task that was handed a permit resumes inside `async with self._sem`;
\* the loop runs the tasks it wakes in the order of their futures.
Resume(r) ==
    /\ status[r] = "granted"
    /\ \A q \in Granted : ticket[r] <= ticket[q]
    /\ WakeUp(r, "handling", sem)
    /\ UNCHANGED <<ticket, arrivals, inflight, idleEvent, orphans, drainVars>>

Step(r, from, to) ==
    /\ status[r] \in from
    /\ status' = [status EXCEPT ![r] = to]
    /\ UNCHANGED <<ticket, arrivals, sem, inflight, idleEvent, drainVars>>

\* self._http_handler returned a response, maybe after swallowing the cancel.
HandlerReturns(r) ==
    /\ r \notin orphans
    /\ Step(r, {"handling", "expiring"}, "sending")
    /\ UNCHANGED orphans

\* It raised an Exception, or the timeout turned its unwinding into one.
HandlerRaises(r) ==
    /\ Step(r, {"handling", "expiring"}, "mapping")
    /\ UNCHANGED orphans

ExpirePlainOnly(r) ==  \* mutant: the deadline is put on run_sync alone
    /\ RequestTimeout /\ r \in SyncReq
    /\ Step(r, {"handling"}, "expiring")
    /\ orphans' = orphans \cup ({r} \cap SyncReq)

\* The deadline of timeout(request_timeout) passes.
Expire(r) ==
    /\ RequestTimeout
    /\ Step(r, {"handling"}, "expiring")
    /\ orphans' = orphans \cup ({r} \cap SyncReq)

\* _handle_exception found or built a response.
Mapped(r) == Step(r, {"mapping"}, "sending") /\ UNCHANGED orphans

\* The thread of a plain handler ends; nobody awaits it any more.
ThreadEnds(r) ==
    /\ r \in orphans
    /\ orphans' = orphans \ {r}
    /\ UNCHANGED <<status, ticket, arrivals, sem, inflight, idleEvent, drainVars>>

\* Mutant: the event is set while one request is left.
FinishEarly(r) ==
    /\ status[r] = "sending"
    /\ inflight' = inflight - 1
    /\ idleEvent' = (inflight' <= 1 \/ idleEvent)
    /\ drain' = IF inflight' <= 1 /\ drain = "waiting" THEN "woken" ELSE drain
    /\ Release(r, "answered")
    /\ UNCHANGED <<ticket, arrivals, orphans, verdict, early>>

\* The finally around resp.send: the request is uncounted, the last one sets
\* the event (and its waiter will wake up), and the permit is released.
Finish(r) ==
    /\ status[r] = "sending"
    /\ inflight' = inflight - 1
    /\ idleEvent' = (inflight' <= 0 \/ idleEvent)
    /\ drain' = IF inflight' <= 0 /\ drain = "waiting" THEN "woken" ELSE drain
    /\ Release(r, "answered")
    /\ UNCHANGED <<ticket, arrivals, orphans, verdict, early>>

\* An exception leaves the block of the semaphore before resp.send: the
\* permit is released, the count is not.
Lose(r) ==
    /\ Release(r, "lost")
    /\ UNCHANGED <<ticket, arrivals, inflight, idleEvent, drainVars>>

MapperRaises(r) ==
    /\ BadMappers
    /\ status[r] = "mapping"
    /\ Lose(r)
    /\ UNCHANGED orphans

\* The server cancels the task of r, whose CancelledError is no Exception.
CancelRunning(r) ==
    /\ Cancels
    /\ status[r] \in {"handling", "expiring", "mapping"}
    /\ Lose(r)
    /\ orphans' = IF status[r] = "handling" THEN orphans \cup ({r} \cap SyncReq)
                                            ELSE orphans

\* Mutant: a cancelled future that had been resolved keeps its permit.
CancelQueuedKeeping(r) ==
    /\ Cancels
    /\ status[r] \in {"waiting", "granted"}
    /\ WakeUp(r, "lost", sem)
    /\ UNCHANGED <<ticket, arrivals, inflight, idleEvent, orphans, drainVars>>

\* ... while its future waits in the semaphore, or has just been resolved.
CancelQueued(r) ==
    /\ Cancels
    /\ \/ status[r] = "waiting" /\ WakeUp(r, "lost", sem)
       \/ status[r] = "granted" /\ WakeUp(r, "lost", sem + 1)
    /\ UNCHANGED <<ticket, arrivals, inflight, idleEvent, orphans, drainVars>>

-----------------------------------------------------------------------------
(* The lifespan task, from lifespan.shutdown to the end of the drain.      *)

requestVars == <<status, ticket, arrivals, sem, inflight, idleEvent, orphans>>

Shutdown ==
    /\ drain = "off"
    /\ early' = Active
    /\ \/ inflight <= 0 /\ drain' = "done" /\ verdict' = "idle"
       \/ inflight > 0 /\ FALSE \in DrainTimeouts /\ drain' = "done" /\ verdict' = "skipped"
       \/ /\ inflight > 0 /\ TRUE \in DrainTimeouts
          /\ drain' = IF idleEvent THEN "woken" ELSE "waiting"
          /\ UNCHANGED verdict
    /\ UNCHANGED requestVars

DrainReturns(from, v) ==
    /\ drain \in from
    /\ drain' = "done"
    /\ verdict' = v
    /\ UNCHANGED <<requestVars, early>>

\* Event.wait() returns: the event was set, and may be clear again by now.
DrainSeesIdle == DrainReturns({"woken"}, "event")

\* Mutant: the drain waits for the event alone.
DrainNeverTimesOut == DrainReturns({"woken"}, "timeout")

\* wait_for gives up; the TimeoutError is swallowed.
DrainTimesOut == DrainReturns({"waiting", "woken"}, "timeout")

-----------------------------------------------------------------------------

Request(r) ==
    \/ Arrive(r) \/ Resume(r)
    \/ HandlerReturns(r) \/ HandlerRaises(r) \/ Expire(r)
    \/ Mapped(r) \/ MapperRaises(r)
    \/ Finish(r) \/ ThreadEnds(r)
    \/ CancelRunning(r) \/ CancelQueued(r)

Lifespan == Shutdown \/ DrainSeesIdle \/ DrainTimesOut

Next == Lifespan \/ \E r \in Req : Request(r)

Spec == Init /\ [][Next]_vars

(***************************************************************************)
(* What the event loop and the code around the handlers promise.  Ready    *)
(* tasks resume, timers fire, a cancelled handler unwinds, exception       *)
(* handlers and sends end.  Nothing is promised of a handler that has not  *)
(* been cancelled, nor of a thread.                                        *)
(***************************************************************************)
Fairness ==
    /\ \A r \in Req : /\ WF_vars(Resume(r))
                      /\ WF_vars(Expire(r))
                      /\ WF_vars(status[r] = "expiring" /\ HandlerRaises(r))
                      /\ WF_vars(Mapped(r))
                      /\ WF_vars(Finish(r))
    /\ WF_vars(DrainTimesOut)

FairSpec == Spec /\ Fairness

-----------------------------------------------------------------------------
(* Correctness.                                                            *)

TypeOK ==
    /\ status \in [Req -> {"idle", "waiting", "granted", "handling", "expiring",
                           "mapping", "sending", "answered", "lost"}]
    /\ ticket \in [Req -> Nat]
    /\ arrivals \in Nat
    /\ sem \in Nat
    /\ inflight \in Int
    /\ idleEvent \in BOOLEAN
    /\ orphans \in SUBSET Req
    /\ drain \in {"off", "waiting", "woken", "done"}
    /\ verdict \in {"none", "idle", "skipped", "event", "timeout"}
    /\ early \in SUBSET Req

\* However a request leaves the block of the semaphore (answer, cancellation
\* while queued or just granted, failing exception handler), its permit comes
\* back exactly once: app.py:929 never runs out of permits nor mints one.
PermitsConserved == sem + Cardinality(Granted \cup Holders) = MaxConcurrency

\* No permit lies idle beside a queued request unless a task that is about to
\* resume will hand it over: the wake-ups of the semaphore are never lost.
NoIdlePermit == sem > 0 /\ Waiting # {} => Granted # {}

\* However requests leave the semaphore, its permits are neither lost, minted
\* nor left idle beside a queue.
PermitsSound == PermitsConserved /\ NoIdlePermit

\* Requests pass the semaphore in the order they came: none is still queued
\* when a later one holds a permit (starvation by newcomers is impossible).
InOrder ==
    \A r, q \in Active : ticket[q] < ticket[r] /\ status[q] = "waiting"
                             => status[r] = "waiting"

\* _inflight_http counts the requests in the server and, for ever, those that
\* left without reaching the finally of app.py:937: it never undercounts.
CountCoversActive == inflight = Cardinality(Active \cup Lost)

\* The event the drain waits for is set exactly when the counter is zero, in
\* whatever order arrivals and departures clear and set it.
EventTracksCount == idleEvent <=> inflight = 0

\* A drain that reports success (no timeout, none configured away) leaves none
\* of the requests that were in the server when shutdown was asked, even if
\* others came while it waited.
DrainSound ==
    verdict \in {"idle", "event"} => \A r \in early : status[r] \in Finished

\* What the drain is told is so: the counter covers every request, and a drain
\* that reports success has left none behind.
CountAndDrainSound == CountCoversActive /\ DrainSound

\* With a request timeout, a handler that never returns does not keep later
\* requests out: whoever queues for the semaphore eventually leaves the server.
EveryRequestLeaves ==
    \A r \in Req : status[r] = "waiting" ~> status[r] \in Finished

\* A drain ends whatever the requests do (handlers that hang included).
DrainEnds == drain = "waiting" ~> drain = "done"

\* The dispatcher is a bounded first-come-first-served gate: the abstract state
\* forgets permits, hand-overs, the stages of service and the counter.
GateStage ==
    [r \in Req |->
        CASE status[r] = "idle" -> "out"
          [] status[r] \in {"waiting", "granted"} -> "queued"
          [] status[r] \in {"answered", "lost"} -> "gone"
          [] OTHER -> "inside"]

Gate == INSTANCE AdmissionGate WITH
            Capacity <- MaxConcurrency,
            stage <- GateStage, place <- ticket, entered <- arrivals

\* Dispatch implements AdmissionGate: app.py:927-929 admits no more than
\* max_concurrency requests, in the order of arrival, whatever is cancelled.
ImplementsGate == Gate!Spec

\* What "request draining" (README.md:32) says: shutdown is held up only by
\* requests that are being served.
DrainWaitsForRequests == drain = "waiting" => Active # {}

\* What "max concurrency" (README.md:30) says: no more handlers execute at a
\* time than the limit.
HandlersWithinLimit ==
    Cardinality({r \in Req : status[r] = "handling"} \cup orphans) <= MaxConcurrency

=============================================================================
