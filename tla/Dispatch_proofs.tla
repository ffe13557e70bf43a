--------------------------- MODULE Dispatch_proofs ---------------------------
(***************************************************************************)
(* The two protocols that app.py dispatches.                               *)
(*                                                                         *)
(* Dispatch: for every set of requests, every number of permits and every  *)
(* setting of the switches, the semaphore neither loses nor mints permits, *)
(* never forgets to wake, serves in order; _inflight_http never            *)
(* undercounts and a drain that says it succeeded did; Dispatch implements *)
(* AdmissionGate.                                                          *)
(*                                                                         *)
(* WebSocket: for every interval and idle timeout, who leaves              *)
(* _handle_websocket without an exception leaves a closed socket, and      *)
(* closed means closed.                                                    *)
(***************************************************************************)
EXTENDS Dispatch, WebSocket, FiniteSetTheorems, TLAPS

InUse == Granted \cup Holders
Counted == Active \cup Lost

USE ReqFinite, ConcurrencyPositive, Switches

-----------------------------------------------------------------------------
(* Counting.                                                               *)

\* One element of A makes room for those of G.
LEMMA CardSwap ==
    ASSUME NEW A, IsFiniteSet(A), NEW x \in A, NEW G, IsFiniteSet(G), G \cap A = {}
    PROVE  Cardinality((A \ {x}) \cup G) = Cardinality(A) - 1 + Cardinality(G)
<1>1. IsFiniteSet(A \ {x}) /\ Cardinality(A \ {x}) = Cardinality(A) - 1
  BY FS_RemoveElement
<1>2. (A \ {x}) \cap G = {}
  OBVIOUS
<1>3. Cardinality((A \ {x}) \cap G) = 0
  BY <1>2, FS_EmptySet
<1>4. Cardinality(A) \in Nat /\ Cardinality(G) \in Nat
  BY FS_CardinalityType
<1>5. Cardinality((A \ {x}) \cup G)
        = Cardinality(A \ {x}) + Cardinality(G) - Cardinality((A \ {x}) \cap G)
  BY <1>1, FS_Union
<1>6. QED
  BY <1>1, <1>3, <1>4, <1>5

\* The elements of G join A.
LEMMA CardJoin ==
    ASSUME NEW A, IsFiniteSet(A), NEW G, IsFiniteSet(G), G \cap A = {}
    PROVE  Cardinality(A \cup G) = Cardinality(A) + Cardinality(G)
<1>1. Cardinality(A \cap G) = 0
  <2>1. A \cap G = {}
    OBVIOUS
  <2>2. QED
    BY <2>1, FS_EmptySet
<1>2. Cardinality(A) \in Nat /\ Cardinality(G) \in Nat
  BY FS_CardinalityType
<1>3. Cardinality(A \cup G) = Cardinality(A) + Cardinality(G) - Cardinality(A \cap G)
  BY FS_Union
<1>4. QED
  BY <1>1, <1>2, <1>3

\* Every set of requests is finite.
LEMMA ReqSubsetFinite ==
    ASSUME NEW A \in SUBSET Req
    PROVE  IsFiniteSet(A) /\ Cardinality(A) \in Nat
BY FS_Subset, FS_CardinalityType

\* What Front gives: at most k of the first, none left out without need.
LEMMA FrontFacts ==
    ASSUME NEW W \in SUBSET Req, NEW k \in Nat, NEW G \in Front(W, k)
    PROVE  /\ G \in SUBSET W
           /\ IsFiniteSet(G)
           /\ Cardinality(G) \in 0..k
           /\ W \ G # {} => Cardinality(G) = k
           /\ k > 0 /\ W # {} => G # {}
           /\ \A g \in G, w \in W \ G : ticket[g] < ticket[w]
<1>1. G \in SUBSET W /\ Cardinality(G) <= k
  BY DEF Front
<1>2. IsFiniteSet(G) /\ Cardinality(G) \in Nat
  BY <1>1, ReqSubsetFinite
<1>3. W \ G # {} => Cardinality(G) = k
  BY DEF Front
<1>4. k > 0 /\ W # {} => G # {}
  BY <1>3, FS_EmptySet
<1>5. QED
  BY <1>1, <1>2, <1>3, <1>4 DEF Front

-----------------------------------------------------------------------------
(* What the semaphore does to the sets of requests.                        *)

Outside == {"answered", "lost"}

\* Moving r to s while granting G.
LEMMA MoveSets ==
    ASSUME TypeOK, NEW r \in Req, NEW s \in Outside \cup {"handling"},
           NEW G \in SUBSET (Waiting \ {r}), Move(r, s, G)
    PROVE  /\ status' \in [Req -> {"idle", "waiting", "granted", "handling",
                            "expiring", "mapping", "sending", "answered", "lost"}]
           /\ status'[r] = s
           /\ \A q \in Req \ {r} : status'[q] = IF q \in G THEN "granted" ELSE status[q]
           /\ Waiting' = (Waiting \ {r}) \ G
           /\ Granted' = (Granted \ {r}) \cup G
           /\ s \in Outside => /\ Holders' = Holders \ {r}
                               /\ InUse' = (InUse \ {r}) \cup G
                               /\ Active' = Active \ {r}
           /\ s = "handling" => /\ Holders' = Holders \cup {r}
                                /\ InUse' = InUse \cup G \cup {r}
           /\ s = "lost" => Lost' = Lost \cup {r}
           /\ s = "answered" => Lost' = Lost \ {r}
<1>1. /\ status' \in [Req -> {"idle", "waiting", "granted", "handling",
                       "expiring", "mapping", "sending", "answered", "lost"}]
      /\ status'[r] = s
      /\ \A q \in Req \ {r} : status'[q] = IF q \in G THEN "granted" ELSE status[q]
  BY DEF Move, TypeOK, Outside, Waiting
<1>2. \A q \in G : q \in Req /\ status[q] = "waiting" /\ q # r
  BY DEF Waiting
<1>3. Waiting' = (Waiting \ {r}) \ G
  BY <1>1, <1>2 DEF Waiting, Outside
<1>4. Granted' = (Granted \ {r}) \cup G
  BY <1>1, <1>2 DEF Granted, Outside
<1>5. s \in Outside => Holders' = Holders \ {r}
  BY <1>1, <1>2 DEF Holders, Outside
<1>6. s = "handling" => Holders' = Holders \cup {r}
  BY <1>1, <1>2 DEF Holders
<1>7. /\ s = "lost" => Lost' = Lost \cup {r}
      /\ s = "answered" => Lost' = Lost \ {r}
  BY <1>1, <1>2 DEF Lost
<1>8. G \subseteq Waiting /\ G \cap Holders = {} /\ r \notin G
  BY <1>2 DEF Waiting, Holders
<1>9. s = "handling" => InUse' = InUse \cup G \cup {r}
  BY <1>4, <1>6 DEF InUse
<1>10. s \in Outside => InUse' = (InUse \ {r}) \cup G /\ Active' = Active \ {r}
  BY <1>3, <1>4, <1>5, <1>8 DEF InUse, Active
<1>11. QED
  BY <1>1, <1>3, <1>4, <1>5, <1>6, <1>7, <1>9, <1>10

\* Moving r alone from one stage of service to another.
LEMMA StepSets ==
    ASSUME TypeOK, NEW r \in Req,
           NEW from \in SUBSET {"handling", "expiring", "mapping", "sending"},
           NEW to \in {"handling", "expiring", "mapping", "sending"},
           Step(r, from, to)
    PROVE  /\ status' \in [Req -> {"idle", "waiting", "granted", "handling",
                            "expiring", "mapping", "sending", "answered", "lost"}]
           /\ Waiting' = Waiting /\ Granted' = Granted /\ Holders' = Holders
           /\ Lost' = Lost /\ r \in Holders
           /\ \A q \in Req : status'[q] \in Finished <=> status[q] \in Finished
           /\ UNCHANGED <<ticket, arrivals, sem, inflight, idleEvent, drainVars>>
BY DEF Step, TypeOK, Waiting, Granted, Holders, Lost, Finished


-----------------------------------------------------------------------------
(* Type correctness.                                                       *)

\* Releasing the permit of r, and waking the queue once, keep sem a natural.
LEMMA ReleaseFacts ==
    ASSUME TypeOK, NEW r \in Holders, NEW s \in Outside, Release(r, s)
    PROVE  \E G \in Front(Waiting, 1) :
                /\ G \in SUBSET (Waiting \ {r})
                /\ Move(r, s, G)
                /\ sem' = sem + 1 - Cardinality(G)
                /\ sem' \in Nat
<1>1. PICK G \in Front(Waiting, 1) : Move(r, s, G) /\ sem' = sem + 1 - Cardinality(G)
  BY DEF Release
<1>2. Waiting \in SUBSET Req /\ r \notin Waiting
  BY DEF Waiting, Holders
<1>3. G \in SUBSET Waiting /\ Cardinality(G) \in 0..1
  <2>1. PICK one \in Nat : one = 1
    OBVIOUS
  <2>2. G \in Front(Waiting, one)
    BY <2>1
  <2>3. G \in SUBSET Waiting /\ Cardinality(G) \in 0..one
    BY <1>2, <2>2, FrontFacts
  <2>4. QED
    BY <2>1, <2>3
<1>4. sem' \in Nat
  BY <1>1, <1>3 DEF TypeOK
<1>5. QED
  BY <1>1, <1>2, <1>3, <1>4

LEMMA WakeUpFacts ==
    ASSUME TypeOK, NEW r \in Req, NEW s \in Outside \cup {"handling"},
           NEW free \in Nat, WakeUp(r, s, free)
    PROVE  \E G \in Front(Waiting \ {r}, free) :
                /\ G \in SUBSET (Waiting \ {r})
                /\ Move(r, s, G)
                /\ sem' = free - Cardinality(G)
                /\ sem' \in Nat
<1>1. PICK G \in Front(Waiting \ {r}, free) :
            Move(r, s, G) /\ sem' = free - Cardinality(G)
  BY DEF WakeUp
<1>2. Waiting \ {r} \in SUBSET Req
  BY DEF Waiting
<1>3. G \in SUBSET (Waiting \ {r}) /\ Cardinality(G) \in 0..free
  BY <1>2, FrontFacts
<1>4. sem' \in Nat
  BY <1>1, <1>3
<1>5. QED
  BY <1>1, <1>3, <1>4

LEMMA TypeStep ==
    ASSUME TypeOK, [Next]_vars
    PROVE  TypeOK'
<1>1. ASSUME NEW r \in Req, Arrive(r) PROVE TypeOK'
  <2>1. \/ sem > 0 /\ sem' = sem - 1 /\ status' = [status EXCEPT ![r] = "handling"]
        \/ sem' = sem /\ status' = [status EXCEPT ![r] = "waiting"]
    BY <1>1 DEF Arrive
  <2>2. sem' \in Nat
    BY <2>1 DEF TypeOK
  <2>3. /\ inflight' = inflight + 1 /\ idleEvent' = FALSE /\ arrivals' = arrivals + 1
        /\ ticket' = [ticket EXCEPT ![r] = arrivals]
        /\ orphans' = orphans /\ drain' = drain /\ verdict' = verdict /\ early' = early
    BY <1>1 DEF Arrive, drainVars
  <2>4. status' \in [Req -> {"idle", "waiting", "granted", "handling", "expiring",
                            "mapping", "sending", "answered", "lost"}]
    BY <2>1 DEF TypeOK
  <2>5. ticket' \in [Req -> Nat] /\ arrivals' \in Nat /\ inflight' \in Int
    BY <2>3 DEF TypeOK
  <2>6. QED
    BY <2>2, <2>3, <2>4, <2>5 DEF TypeOK
<1>2. ASSUME NEW r \in Req, Resume(r) PROVE TypeOK'
  <2>1. PICK G \in SUBSET (Waiting \ {r}) : Move(r, "handling", G) /\ sem' \in Nat
    BY <1>2, WakeUpFacts DEF Resume, TypeOK
  <2>2. QED
    BY <1>2, <2>1, MoveSets DEF Resume, TypeOK, drainVars
<1>3. ASSUME NEW r \in Req,
             HandlerReturns(r) \/ HandlerRaises(r) \/ Expire(r) \/ Mapped(r)
      PROVE TypeOK'
  <2>1. orphans' \in SUBSET Req
    BY <1>3 DEF HandlerReturns, HandlerRaises, Expire, Mapped, TypeOK
  <2>2. PICK from \in SUBSET {"handling", "expiring", "mapping"},
             to \in {"expiring", "mapping", "sending"} : Step(r, from, to)
    BY <1>3 DEF HandlerReturns, HandlerRaises, Expire, Mapped
  <2>3. QED
    BY <2>1, <2>2 DEF Step, TypeOK, drainVars
<1>4. ASSUME NEW r \in Req, MapperRaises(r) \/ CancelRunning(r) PROVE TypeOK'
  <2>1. r \in Holders /\ Release(r, "lost")
    BY <1>4 DEF MapperRaises, CancelRunning, Lose, Holders
  <2>2. PICK G \in SUBSET (Waiting \ {r}) : Move(r, "lost", G) /\ sem' \in Nat
    BY <2>1, ReleaseFacts DEF Outside
  <2>3. QED
    BY <1>4, <2>1, <2>2, MoveSets
    DEF MapperRaises, CancelRunning, Lose, TypeOK, Outside, drainVars
<1>5. ASSUME NEW r \in Req, Finish(r) PROVE TypeOK'
  <2>1. r \in Holders /\ Release(r, "answered")
    BY <1>5 DEF Finish, Holders
  <2>2. PICK G \in SUBSET (Waiting \ {r}) : Move(r, "answered", G) /\ sem' \in Nat
    BY <2>1, ReleaseFacts DEF Outside
  <2>3. QED
    BY <1>5, <2>1, <2>2, MoveSets DEF Finish, TypeOK, Outside
<1>6. ASSUME NEW r \in Req, ThreadEnds(r) PROVE TypeOK'
  BY <1>6 DEF ThreadEnds, TypeOK, drainVars
<1>7. ASSUME NEW r \in Req, CancelQueued(r) PROVE TypeOK'
  <2>1. PICK free \in Nat : WakeUp(r, "lost", free)
    BY <1>7 DEF CancelQueued, TypeOK
  <2>2. PICK G \in SUBSET (Waiting \ {r}) : Move(r, "lost", G) /\ sem' \in Nat
    BY <2>1, WakeUpFacts DEF Outside
  <2>3. QED
    BY <1>7, <2>2, MoveSets DEF CancelQueued, TypeOK, Outside, drainVars
<1>8. ASSUME Lifespan PROVE TypeOK'
  BY <1>8 DEF Lifespan, Shutdown, DrainSeesIdle, DrainTimesOut, DrainReturns,
              requestVars, TypeOK, Active, Waiting, Granted, Holders
<1>9. ASSUME UNCHANGED vars PROVE TypeOK'
  BY <1>9 DEF vars, TypeOK
<1>10. QED
  BY <1>1, <1>2, <1>3, <1>4, <1>5, <1>6, <1>7, <1>8, <1>9 DEF Next, Request

-----------------------------------------------------------------------------
(* The semaphore.  Every step does one of four things to it.               *)

Tickets(r) ==
    /\ r \notin Active
    /\ ticket' = [ticket EXCEPT ![r] = arrivals] /\ arrivals' = arrivals + 1

Enters(r) ==  \* r finds a permit and nobody queueing
    /\ sem > 0 /\ Waiting \cup Granted = {} /\ sem' = sem - 1
    /\ Waiting' = {} /\ Granted' = {} /\ Holders' = Holders \cup {r}
    /\ Tickets(r)

Queues(r) ==  \* r does not
    /\ ~(sem > 0 /\ Waiting \cup Granted = {}) /\ sem' = sem
    /\ Waiting' = Waiting \cup {r} /\ Granted' = Granted /\ Holders' = Holders
    /\ Tickets(r)

Passes(r, G, k) ==  \* r, that was in the queue or held a permit, moves: with
                    \* it there are k permits for those of G, k or all of them
    /\ G \in Front(Waiting \ {r}, k)
    /\ k \in Nat
    /\ Waiting' = (Waiting \ {r}) \ G
    /\ Granted' = (Granted \ {r}) \cup G
    /\ \/ InUse' = InUse \cup G /\ k = sem /\ sem' = sem - Cardinality(G)
       \/ /\ r \in InUse /\ InUse' = (InUse \ {r}) \cup G
          /\ sem' = sem + 1 - Cardinality(G)
          /\ \/ k = sem + 1
             \/ k = 1 /\ Granted' = Granted \cup G
    /\ ticket' = ticket /\ arrivals' = arrivals

Keeps ==  \* nothing
    /\ Waiting' = Waiting /\ Granted' = Granted /\ Holders' = Holders
    /\ sem' = sem
    /\ ticket' = ticket /\ arrivals' = arrivals

LEMMA SemaphoreSteps ==
    ASSUME TypeOK, [Next]_vars
    PROVE  \/ \E r \in Req : Enters(r) \/ Queues(r)
           \/ \E r \in Req, G \in SUBSET Waiting, k \in Nat : Passes(r, G, k)
           \/ Keeps
<1>1. ASSUME NEW r \in Req, Arrive(r) PROVE Enters(r) \/ Queues(r)
  <2>1. /\ status[r] = "idle"
        /\ \/ /\ sem > 0 /\ Waiting \cup Granted = {} /\ sem' = sem - 1
              /\ status' = [status EXCEPT ![r] = "handling"]
           \/ /\ ~(sem > 0 /\ Waiting \cup Granted = {}) /\ sem' = sem
              /\ status' = [status EXCEPT ![r] = "waiting"]
    BY <1>1 DEF Arrive
  <2>2. Tickets(r)
    BY <1>1 DEF Arrive, Tickets, Active, Waiting, Granted, Holders
  <2>3. CASE status' = [status EXCEPT ![r] = "handling"]
    <3>1. Waiting' = Waiting /\ Granted' = Granted /\ Holders' = Holders \cup {r}
      BY <2>1, <2>3 DEF TypeOK, Waiting, Granted, Holders
    <3>2. status' # [status EXCEPT ![r] = "waiting"]
      BY <2>3 DEF TypeOK
    <3>3. QED
      BY <2>1, <2>2, <3>1, <3>2 DEF Enters
  <2>4. CASE status' = [status EXCEPT ![r] = "waiting"]
    <3>1. Waiting' = Waiting \cup {r} /\ Granted' = Granted /\ Holders' = Holders
      BY <2>1, <2>4 DEF TypeOK, Waiting, Granted, Holders
    <3>2. status' # [status EXCEPT ![r] = "handling"]
      BY <2>4 DEF TypeOK
    <3>3. QED
      BY <2>1, <2>2, <3>1, <3>2 DEF Queues
  <2>5. QED
    BY <2>1, <2>3, <2>4
<1>2. ASSUME NEW r \in Req, Resume(r)
      PROVE \E G \in SUBSET Waiting, k \in Nat : Passes(r, G, k)
  <2>1. sem \in Nat /\ r \in InUse /\ r \in Granted
    BY <1>2 DEF Resume, TypeOK, InUse, Granted
  <2>2. PICK G \in Front(Waiting \ {r}, sem) :
            /\ G \in SUBSET (Waiting \ {r})
            /\ Move(r, "handling", G) /\ sem' = sem - Cardinality(G)
    BY <1>2, <2>1, WakeUpFacts DEF Resume
  <2>3. /\ Waiting' = (Waiting \ {r}) \ G /\ Granted' = (Granted \ {r}) \cup G
        /\ InUse' = InUse \cup G
    BY <2>1, <2>2, MoveSets
  <2>4. QED
    BY <1>2, <2>1, <2>2, <2>3 DEF Passes, Resume
<1>3. ASSUME NEW r \in Holders, NEW s \in Outside, Release(r, s),
             ticket' = ticket, arrivals' = arrivals
      PROVE \E G \in SUBSET Waiting, k \in Nat : Passes(r, G, k)
  <2>1. r \in InUse /\ r \notin Waiting /\ r \notin Granted /\ r \in Req
    BY DEF InUse, Holders, Waiting, Granted
  <2>2. PICK G \in Front(Waiting, 1) :
            /\ G \in SUBSET (Waiting \ {r})
            /\ Move(r, s, G) /\ sem' = sem + 1 - Cardinality(G)
    BY <1>3, ReleaseFacts
  <2>3. /\ Waiting' = (Waiting \ {r}) \ G /\ Granted' = (Granted \ {r}) \cup G
        /\ InUse' = (InUse \ {r}) \cup G
    BY <2>1, <2>2, MoveSets
  <2>4. Waiting \ {r} = Waiting /\ Granted \ {r} = Granted
    BY <2>1
  <2>5. Passes(r, G, 1)
    BY <1>3, <2>1, <2>2, <2>3, <2>4 DEF Passes
  <2>6. QED
    BY <2>2, <2>5
<1>4. ASSUME NEW r \in Req, CancelQueued(r)
      PROVE \E G \in SUBSET Waiting, k \in Nat : Passes(r, G, k)
  <2>t. ticket' = ticket /\ arrivals' = arrivals
    BY <1>4 DEF CancelQueued
  <2>1. CASE status[r] = "waiting" /\ WakeUp(r, "lost", sem)
    <3>1. sem \in Nat /\ r \notin InUse /\ r \notin Granted
      BY <2>1 DEF TypeOK, InUse, Holders, Granted
    <3>2. PICK G \in Front(Waiting \ {r}, sem) :
              /\ G \in SUBSET (Waiting \ {r})
              /\ Move(r, "lost", G) /\ sem' = sem - Cardinality(G)
      BY <2>1, <3>1, WakeUpFacts DEF Outside
    <3>3. /\ Waiting' = (Waiting \ {r}) \ G /\ Granted' = (Granted \ {r}) \cup G
          /\ InUse' = (InUse \ {r}) \cup G
      BY <3>2, MoveSets DEF Outside
    <3>4. InUse \ {r} = InUse
      BY <3>1
    <3>5. QED
      BY <2>t, <3>1, <3>2, <3>3, <3>4 DEF Passes
  <2>2. CASE status[r] = "granted" /\ WakeUp(r, "lost", sem + 1)
    <3>1. sem + 1 \in Nat /\ r \in InUse
      BY <2>2 DEF TypeOK, InUse, Granted
    <3>f. PICK free \in Nat : free = sem + 1
      BY <3>1
    <3>2. PICK G \in Front(Waiting \ {r}, free) :
              /\ G \in SUBSET (Waiting \ {r})
              /\ Move(r, "lost", G) /\ sem' = free - Cardinality(G)
      <4>1. WakeUp(r, "lost", free)
        BY <2>2, <3>f DEF WakeUp
      <4>2. QED
        BY <4>1, WakeUpFacts DEF Outside
    <3>3. /\ Waiting' = (Waiting \ {r}) \ G /\ Granted' = (Granted \ {r}) \cup G
          /\ InUse' = (InUse \ {r}) \cup G
      BY <3>2, MoveSets DEF Outside
    <3>4. sem' = sem + 1 - Cardinality(G)
      <4>1. sem \in Nat /\ Cardinality(G) \in Nat
        BY <3>2, ReqSubsetFinite DEF TypeOK, Waiting
      <4>2. QED
        BY <4>1, <3>f, <3>2
    <3>5. Passes(r, G, free)
      BY <2>t, <3>1, <3>f, <3>2, <3>3, <3>4 DEF Passes
    <3>6. QED
      BY <3>2, <3>5
  <2>3. QED
    BY <1>4, <2>1, <2>2 DEF CancelQueued
<1>5. ASSUME NEW r \in Req,
             HandlerReturns(r) \/ HandlerRaises(r) \/ Expire(r) \/ Mapped(r)
      PROVE Keeps
  <2>1. PICK from \in SUBSET {"handling", "expiring", "mapping", "sending"},
             to \in {"handling", "expiring", "mapping", "sending"} : Step(r, from, to)
    BY <1>5 DEF HandlerReturns, HandlerRaises, Expire, Mapped
  <2>2. QED
    BY <2>1, StepSets DEF Keeps
<1>6. ASSUME NEW r \in Req, Finish(r) \/ MapperRaises(r) \/ CancelRunning(r)
      PROVE /\ r \in Holders /\ \E s \in Outside : Release(r, s)
            /\ ticket' = ticket /\ arrivals' = arrivals
  BY <1>6 DEF Finish, MapperRaises, CancelRunning, Lose, Holders, Outside
<1>7. ASSUME Lifespan \/ (\E r \in Req : ThreadEnds(r)) \/ UNCHANGED vars PROVE Keeps
  <2>1. status' = status /\ sem' = sem /\ ticket' = ticket /\ arrivals' = arrivals
    BY <1>7 DEF Lifespan, Shutdown, DrainSeesIdle, DrainTimesOut, DrainReturns,
                ThreadEnds, requestVars, vars
  <2>2. QED
    BY <2>1 DEF Keeps, Waiting, Granted, Holders
<1>8. QED
  <2>1. ASSUME NEW r \in Req, Request(r)
        PROVE  \/ Enters(r) \/ Queues(r)
               \/ \E G \in SUBSET Waiting, k \in Nat : Passes(r, G, k)
               \/ Keeps
    BY <2>1, <1>1, <1>2, <1>3, <1>4, <1>5, <1>6, <1>7 DEF Request
  <2>2. QED
    BY <2>1, <1>7 DEF Next


-----------------------------------------------------------------------------
(* Invariants of the semaphore.                                            *)

\* Nobody in the server has a ticket that is still to be given out.
TicketsGiven == \A r \in Active : ticket[r] < arrivals

LEMMA InUseFacts ==
    /\ Active = Waiting \cup InUse /\ Waiting \cap InUse = {}
    /\ InUse \in SUBSET Req /\ Waiting \in SUBSET Req
    /\ IsFiniteSet(InUse) /\ Cardinality(InUse) \in Nat
    /\ InOrder <=> \A q \in Waiting, r \in InUse : ~(ticket[q] < ticket[r])
<1>1. /\ Active = Waiting \cup InUse /\ Waiting \cap InUse = {}
      /\ InUse \in SUBSET Req /\ Waiting \in SUBSET Req
  BY DEF Active, InUse, Waiting, Granted, Holders
<1>2. \A r \in Active : status[r] = "waiting" <=> r \in Waiting
  BY DEF Active, Waiting, Granted, Holders
<1>3. QED
  BY <1>1, <1>2, ReqSubsetFinite DEF InOrder

LEMMA PermitsStep ==
    ASSUME TypeOK, PermitsConserved, [Next]_vars
    PROVE  PermitsConserved'
<1>1. sem + Cardinality(InUse) = MaxConcurrency /\ sem \in Nat
  BY DEF PermitsConserved, InUse, TypeOK
<1>2. SUFFICES sem' + Cardinality(InUse') = MaxConcurrency
  BY DEF PermitsConserved, InUse
<1>3. ASSUME NEW r \in Req, Enters(r) PROVE sem' + Cardinality(InUse') = MaxConcurrency
  <2>1. InUse' = InUse \cup {r} /\ r \notin InUse /\ sem' = sem - 1
    BY <1>3, InUseFacts DEF Enters, Tickets, InUse
  <2>2. Cardinality(InUse \cup {r}) = Cardinality(InUse) + 1
    BY <2>1, InUseFacts, FS_AddElement
  <2>3. QED
    BY <1>1, <2>1, <2>2, InUseFacts
<1>4. ASSUME NEW r \in Req, NEW G \in SUBSET Waiting, NEW k \in Nat, Passes(r, G, k)
      PROVE sem' + Cardinality(InUse') = MaxConcurrency
  <2>1. G \cap InUse = {} /\ IsFiniteSet(G) /\ Cardinality(G) \in Nat
    BY InUseFacts, ReqSubsetFinite
  <2>2. CASE InUse' = InUse \cup G /\ sem' = sem - Cardinality(G)
    BY <1>1, <2>1, <2>2, CardJoin, InUseFacts
  <2>3. CASE r \in InUse /\ InUse' = (InUse \ {r}) \cup G /\ sem' = sem + 1 - Cardinality(G)
    BY <1>1, <2>1, <2>3, CardSwap, InUseFacts
  <2>4. QED
    BY <1>4, <2>2, <2>3 DEF Passes
<1>5. ASSUME Keeps \/ \E r \in Req : Queues(r)
      PROVE  sem' + Cardinality(InUse') = MaxConcurrency
  BY <1>1, <1>5 DEF Keeps, Queues, InUse
<1>6. QED
  BY <1>3, <1>4, <1>5, SemaphoreSteps

LEMMA NoIdleStep ==
    ASSUME TypeOK, NoIdlePermit, [Next]_vars
    PROVE  NoIdlePermit'
<1>1. ASSUME NEW r \in Req, NEW G \in SUBSET Waiting, NEW k \in Nat, Passes(r, G, k)
      PROVE NoIdlePermit'
  <2>1. /\ G \in SUBSET (Waiting \ {r})
        /\ Waiting' # {} => Cardinality(G) = k
        /\ k > 0 /\ Waiting \ {r} # {} => G # {}
    BY <1>1, FrontFacts, InUseFacts DEF Passes
  <2>2. SUFFICES ASSUME Waiting' # {}, sem' > 0 PROVE Granted' # {}
    BY DEF NoIdlePermit
  <2>3. sem \in Nat /\ Cardinality(G) \in Nat
    BY ReqSubsetFinite, InUseFacts DEF TypeOK
  <2>4. CASE k = sem /\ sem' = sem - Cardinality(G)
    BY <2>1, <2>2, <2>3, <2>4
  <2>5. CASE k = sem + 1 /\ sem' = sem + 1 - Cardinality(G)
    BY <2>1, <2>2, <2>3, <2>5
  <2>6. CASE k = 1 /\ Granted' = Granted \cup G
    <3>1. Waiting \ {r} # {}
      BY <1>1, <2>2 DEF Passes
    <3>2. QED
      BY <2>1, <2>6, <3>1
  <2>7. QED
    BY <1>1, <2>4, <2>5, <2>6 DEF Passes
<1>2. ASSUME NEW r \in Req, Enters(r) \/ Queues(r) PROVE NoIdlePermit'
  BY <1>2 DEF Enters, Queues, NoIdlePermit, TypeOK
<1>3. ASSUME Keeps PROVE NoIdlePermit'
  BY <1>3 DEF Keeps, NoIdlePermit
<1>4. QED
  BY <1>1, <1>2, <1>3, SemaphoreSteps

LEMMA InOrderStep ==
    ASSUME TypeOK, InOrder, TicketsGiven, [Next]_vars
    PROVE  InOrder' /\ TicketsGiven'
<1>0. ticket \in [Req -> Nat] /\ arrivals \in Nat /\ TypeOK'
  BY TypeStep DEF TypeOK
<1>1. /\ (Active = Waiting \cup InUse)'
      /\ (InOrder <=> \A q \in Waiting, r \in InUse : ~(ticket[q] < ticket[r]))'
  BY InUseFacts, PTL
<1>2. ASSUME NEW r \in Req, NEW G \in SUBSET Waiting, NEW k \in Nat, Passes(r, G, k)
      PROVE InOrder' /\ TicketsGiven'
  <2>1. /\ \A g \in G, w \in (Waiting \ {r}) \ G : ticket[g] < ticket[w]
        /\ Waiting' = (Waiting \ {r}) \ G /\ InUse' \subseteq InUse \cup G
        /\ ticket' = ticket /\ arrivals' = arrivals
    BY <1>2, FrontFacts, InUseFacts DEF Passes
  <2>2. Active' \subseteq Active
    BY <1>1, <2>1, InUseFacts
  <2>3. TicketsGiven'
    BY <2>1, <2>2 DEF TicketsGiven
  <2>4. InOrder'
    BY <1>0, <1>1, <2>1, InUseFacts
  <2>5. QED
    BY <2>3, <2>4
<1>3. ASSUME NEW r \in Req, Enters(r) \/ Queues(r)
      PROVE InOrder' /\ TicketsGiven'
  <2>1. /\ Active' = Active \cup {r} /\ r \notin Active
        /\ ticket' = [ticket EXCEPT ![r] = arrivals] /\ arrivals' = arrivals + 1
    BY <1>1, <1>3, InUseFacts DEF Enters, Queues, Tickets, InUse
  <2>2. TicketsGiven'
    BY <1>0, <2>1, InUseFacts DEF TicketsGiven
  <2>3. Waiting' = {} \/ (Waiting' = Waiting \cup {r} /\ InUse' = InUse)
    BY <1>3 DEF Enters, Queues, InUse
  <2>4. InOrder'
    BY <1>0, <1>1, <2>1, <2>3, InUseFacts DEF TicketsGiven
  <2>5. QED
    BY <2>2, <2>4
<1>4. ASSUME Keeps PROVE InOrder' /\ TicketsGiven'
  BY <1>1, <1>4, InUseFacts DEF Keeps, TicketsGiven, InUse
<1>5. QED
  BY <1>2, <1>3, <1>4, SemaphoreSteps


-----------------------------------------------------------------------------
(* The counter.  Every step either counts one more request, or forgets one *)
(* that is answered, or keeps the set of the requests that are counted.    *)

\* No request goes back to being awaited, nor back into the server.
Advances == \A q \in Req : /\ status[q] # "idle" => status'[q] # "idle"
                           /\ status[q] \in Finished => status'[q] \in Finished

LEMMA RequestSteps ==
    ASSUME TypeOK, [Next]_vars
    PROVE  /\ \/ \E r \in Req : Arrive(r) /\ r \notin Counted /\ Counted' = Counted \cup {r}
              \/ \E r \in Req : Finish(r) /\ r \in Counted /\ Counted' = Counted \ {r}
              \/ /\ Counted' = Counted /\ inflight' = inflight /\ idleEvent' = idleEvent
                 /\ Lifespan \/ drainVars' = drainVars
           /\ Advances
<1> DEFINE Same == /\ Counted' = Counted /\ inflight' = inflight /\ idleEvent' = idleEvent
                   /\ drainVars' = drainVars
<1>1. ASSUME NEW r \in Req, Arrive(r)
      PROVE  Advances /\ r \notin Counted /\ Counted' = Counted \cup {r}
  <2>1. /\ status[r] = "idle"
        /\ \/ status' = [status EXCEPT ![r] = "handling"]
           \/ status' = [status EXCEPT ![r] = "waiting"]
    BY <1>1 DEF Arrive
  <2>2. QED
    BY <2>1 DEF Advances, TypeOK, Finished, Counted, Active, Waiting, Granted, Holders, Lost
<1>2. ASSUME NEW r \in Req, NEW s \in Outside \cup {"handling"}, NEW G \in SUBSET (Waiting \ {r}),
             Move(r, s, G), r \in Active
      PROVE  /\ Advances
             /\ r \in Counted
             /\ s = "handling" /\ r \in Granted => Counted' = Counted
             /\ s = "lost" => Counted' = Counted
             /\ s = "answered" => Counted' = Counted \ {r}
  <2>1. status[r] \in {"waiting", "granted", "handling", "expiring", "mapping", "sending"}
    BY <1>2 DEF Active, Waiting, Granted, Holders
  <2>2. Advances
    BY <1>2, <2>1, MoveSets DEF Advances, Finished, Outside, Waiting
  <2>3. r \in Counted /\ r \notin Lost
    BY <1>2, <2>1 DEF Counted, Lost
  <2>4. s = "lost" => Counted' = Counted
    BY <1>2, MoveSets DEF Counted, Outside
  <2>5. s = "answered" => Counted' = Counted \ {r}
    BY <1>2, <2>3, MoveSets DEF Counted, Outside
  <2>6. s = "handling" /\ r \in Granted => Counted' = Counted
    BY <1>2, <2>1, MoveSets DEF Counted, Active, Waiting, Granted, Holders, Lost
  <2>7. QED
    BY <2>2, <2>3, <2>4, <2>5, <2>6
<1>3. ASSUME NEW r \in Req, Resume(r) PROVE Advances /\ Same
  <2>1. r \in Granted /\ r \in Active
    BY <1>3 DEF Resume, Granted, Active
  <2>2. PICK G \in SUBSET (Waiting \ {r}) : Move(r, "handling", G)
    BY <1>3, WakeUpFacts DEF Resume, TypeOK
  <2>3. QED
    BY <1>2, <1>3, <2>1, <2>2 DEF Resume, drainVars
<1>4. ASSUME NEW r \in Req, MapperRaises(r) \/ CancelRunning(r) PROVE Advances /\ Same
  <2>1. r \in Holders /\ Release(r, "lost")
    BY <1>4 DEF MapperRaises, CancelRunning, Lose, Holders
  <2>2. PICK G \in SUBSET (Waiting \ {r}) : Move(r, "lost", G)
    BY <2>1, ReleaseFacts DEF Outside
  <2>3. QED
    BY <1>2, <1>4, <2>1, <2>2 DEF MapperRaises, CancelRunning, Lose, Active, Outside
<1>5. ASSUME NEW r \in Req, CancelQueued(r) PROVE Advances /\ Same
  <2>1. PICK free \in Nat : WakeUp(r, "lost", free)
    BY <1>5 DEF CancelQueued, TypeOK
  <2>2. PICK G \in SUBSET (Waiting \ {r}) : Move(r, "lost", G)
    BY <2>1, WakeUpFacts DEF Outside
  <2>3. r \in Active
    BY <1>5 DEF CancelQueued, Active, Waiting, Granted
  <2>4. QED
    BY <1>2, <1>5, <2>2, <2>3 DEF CancelQueued, Outside
<1>6. ASSUME NEW r \in Req, Finish(r) PROVE Advances /\ r \in Counted /\ Counted' = Counted \ {r}
  <2>1. r \in Holders /\ Release(r, "answered") /\ r \in Active
    BY <1>6 DEF Finish, Holders, Active
  <2>2. PICK G \in SUBSET (Waiting \ {r}) : Move(r, "answered", G)
    BY <2>1, ReleaseFacts DEF Outside
  <2>3. QED
    BY <1>2, <2>1, <2>2 DEF Outside
<1>7. ASSUME NEW r \in Req,
             HandlerReturns(r) \/ HandlerRaises(r) \/ Expire(r) \/ Mapped(r)
      PROVE Advances /\ Same
  <2>1. PICK from \in SUBSET {"handling", "expiring", "mapping", "sending"},
             to \in {"handling", "expiring", "mapping", "sending"} : Step(r, from, to)
    BY <1>7 DEF HandlerReturns, HandlerRaises, Expire, Mapped
  <2>2. Advances
    BY <2>1 DEF Step, TypeOK, Finished, Advances
  <2>3. QED
    BY <2>1, <2>2, StepSets DEF Counted, Active
<1>8. ASSUME (\E r \in Req : ThreadEnds(r)) \/ UNCHANGED vars PROVE Advances /\ Same
  BY <1>8 DEF Advances, ThreadEnds, vars, drainVars, Counted, Active, Waiting, Granted, Holders, Lost
<1>9. ASSUME Lifespan
      PROVE  Advances /\ Counted' = Counted /\ inflight' = inflight /\ idleEvent' = idleEvent
  BY <1>9 DEF Lifespan, Shutdown, DrainSeesIdle, DrainTimesOut, DrainReturns, requestVars,
              Advances, Counted, Active, Waiting, Granted, Holders, Lost
<1>10. ASSUME NEW r \in Req, Request(r)
       PROVE  /\ Advances
              /\ \/ Arrive(r) /\ r \notin Counted /\ Counted' = Counted \cup {r}
                 \/ Finish(r) /\ r \in Counted /\ Counted' = Counted \ {r}
                 \/ Same
  BY <1>1, <1>3, <1>4, <1>5, <1>6, <1>7, <1>8, <1>10 DEF Request
<1>11. QED
  BY <1>8, <1>9, <1>10 DEF Next

CountInv == CountCoversActive /\ EventTracksCount

LEMMA CountFacts == /\ Counted \in SUBSET Req /\ IsFiniteSet(Counted)
                    /\ Cardinality(Counted) \in Nat
<1>1. Counted \in SUBSET Req
  BY DEF Counted, Active, Waiting, Granted, Holders, Lost
<1>2. QED
  BY <1>1, ReqSubsetFinite

LEMMA CountStep ==
    ASSUME TypeOK, CountInv, [Next]_vars
    PROVE  CountInv'
<1>1. inflight = Cardinality(Counted) /\ (idleEvent <=> inflight = 0)
  BY DEF CountInv, CountCoversActive, EventTracksCount, Counted
<1>2. SUFFICES inflight' = Cardinality(Counted') /\ (idleEvent' <=> inflight' = 0)
  BY DEF CountInv, CountCoversActive, EventTracksCount, Counted
<1>3. ASSUME NEW r \in Req, Arrive(r), r \notin Counted, Counted' = Counted \cup {r}
      PROVE  inflight' = Cardinality(Counted') /\ (idleEvent' <=> inflight' = 0)
  <2>1. inflight' = inflight + 1 /\ idleEvent' = FALSE
    BY <1>3 DEF Arrive
  <2>2. Cardinality(Counted') = Cardinality(Counted) + 1
    BY <1>3, CountFacts, FS_AddElement
  <2>3. QED
    BY <1>1, <2>1, <2>2, CountFacts
<1>4. ASSUME NEW r \in Req, Finish(r), r \in Counted, Counted' = Counted \ {r}
      PROVE  inflight' = Cardinality(Counted') /\ (idleEvent' <=> inflight' = 0)
  <2>1. inflight' = inflight - 1 /\ (idleEvent' <=> (inflight' <= 0 \/ idleEvent))
    BY <1>4 DEF Finish
  <2>2. Cardinality(Counted') = Cardinality(Counted) - 1 /\ Cardinality(Counted') \in Nat
    BY <1>4, CountFacts, FS_RemoveElement, FS_CardinalityType
  <2>3. inflight' = Cardinality(Counted') /\ inflight' \in Nat /\ inflight # 0
    BY <1>1, <2>1, <2>2, CountFacts
  <2>4. ~idleEvent /\ (inflight' <= 0 <=> inflight' = 0)
    BY <1>1, <2>3
  <2>5. QED
    BY <2>1, <2>3, <2>4, Zenon
<1>5. QED
  BY <1>1, <1>3, <1>4, RequestSteps

-----------------------------------------------------------------------------
(* The drain.  Once woken, it has seen the counter at zero, so that the    *)
(* requests it waited for had all left.                                    *)

EarlyFinished == \A r \in early : status[r] \in Finished

EarlyCame == \A r \in early : status[r] # "idle"

DrainInv ==
    /\ drain # "done" => verdict = "none"
    /\ EarlyCame
    /\ drain = "woken" => EarlyFinished
    /\ DrainSound

LEMMA ZeroMeansEmpty ==
    TypeOK /\ CountCoversActive /\ inflight <= 0 => Counted = {}
<1> SUFFICES ASSUME TypeOK, CountCoversActive, inflight <= 0 PROVE Counted = {}
  OBVIOUS
<1>1. Cardinality(Counted) = 0
  BY CountFacts DEF CountCoversActive, Counted
<1>2. QED
  BY <1>1, CountFacts, FS_EmptySet

LEMMA EmptyMeansFinished == TypeOK /\ Counted = {} /\ EarlyCame => EarlyFinished
BY DEF TypeOK, EarlyCame, EarlyFinished, Finished,
       Counted, Active, Waiting, Granted, Holders, Lost

LEMMA DrainStep ==
    ASSUME TypeOK, CountInv, DrainInv, [Next]_vars
    PROVE  DrainInv'
<1>1. TypeOK' /\ CountCoversActive' /\ early \in SUBSET Req
  BY TypeStep, CountStep DEF CountInv, TypeOK
<1>2. ASSUME early' = early PROVE EarlyCame' /\ (EarlyFinished => EarlyFinished')
  <2>1. Advances
    BY RequestSteps
  <2>2. EarlyCame
    BY DEF DrainInv
  <2>3. QED
    BY <1>1, <1>2, <2>1, <2>2 DEF Advances, EarlyCame, EarlyFinished, Finished
<1>3. (inflight <= 0 /\ EarlyCame => EarlyFinished)'
  BY <1>1, ZeroMeansEmpty, EmptyMeansFinished, PTL
<1>4. ASSUME drainVars' = drainVars PROVE DrainInv'
  BY <1>2, <1>4 DEF DrainInv, DrainSound, EarlyFinished, drainVars
<1>5. ASSUME NEW r \in Req, Finish(r) PROVE DrainInv'
  <2>1. /\ early' = early /\ verdict' = verdict
        /\ drain' = IF inflight' <= 0 /\ drain = "waiting" THEN "woken" ELSE drain
    BY <1>5 DEF Finish
  <2>2. EarlyCame' /\ (EarlyFinished => EarlyFinished')
    BY <1>2, <2>1
  <2>3. drain' = "woken" => EarlyFinished'
    BY <1>3, <2>1, <2>2 DEF DrainInv
  <2>4. DrainSound'
    BY <2>1, <2>2 DEF DrainInv, DrainSound, EarlyFinished
  <2>5. drain' # "done" => verdict' = "none"
    BY <2>1 DEF DrainInv
  <2>6. QED
    BY <2>2, <2>3, <2>4, <2>5 DEF DrainInv
<1>6. ASSUME Shutdown PROVE DrainInv'
  <2>1. /\ drain = "off" /\ early' = Active /\ status' = status
        /\ \/ inflight <= 0 /\ drain' = "done"
           \/ inflight > 0 /\ verdict' = "skipped" /\ drain' = "done"
           \/ inflight > 0 /\ verdict' = verdict /\ drain' = IF idleEvent THEN "woken" ELSE "waiting"
    BY <1>6 DEF Shutdown, requestVars
  <2>2. EarlyCame'
    BY <2>1 DEF EarlyCame, Active, Waiting, Granted, Holders
  <2>3. CASE inflight <= 0 /\ drain' = "done"
    <3>1. Active = {}
      BY <2>3, ZeroMeansEmpty DEF CountInv, Counted
    <3>2. early' = {}
      BY <2>1, <3>1
    <3>3. QED
      BY <2>2, <2>3, <3>2 DEF DrainInv, DrainSound
  <2>4. CASE inflight > 0 /\ verdict' = "skipped" /\ drain' = "done"
    BY <2>2, <2>4 DEF DrainInv, DrainSound
  <2>5. CASE inflight > 0 /\ verdict' = verdict /\ drain' = IF idleEvent THEN "woken" ELSE "waiting"
    <3>1. ~idleEvent
      BY <2>5, CountFacts DEF CountInv, EventTracksCount
    <3>2. QED
      BY <2>1, <2>2, <2>5, <3>1 DEF DrainInv, DrainSound
  <2>6. QED
    BY <2>1, <2>3, <2>4, <2>5
<1>7. ASSUME DrainSeesIdle \/ DrainTimesOut PROVE DrainInv'
  <2>1. /\ early' = early /\ drain' = "done"
        /\ \/ drain = "woken" /\ verdict' = "event"
           \/ verdict' = "timeout"
    BY <1>7 DEF DrainSeesIdle, DrainTimesOut, DrainReturns
  <2>2. QED
    BY <1>2, <2>1 DEF DrainInv, DrainSound, EarlyFinished
<1>8. ASSUME NEW r \in Req, Arrive(r) PROVE DrainInv'
  BY <1>4, <1>8 DEF Arrive
<1>9. QED
  BY <1>4, <1>5, <1>6, <1>7, <1>8, RequestSteps DEF Lifespan

-----------------------------------------------------------------------------
(* The theorems.                                                           *)

IInv == TypeOK /\ PermitsConserved /\ NoIdlePermit /\ InOrder /\ TicketsGiven
        /\ CountInv /\ DrainInv

LEMMA Initially == Init => IInv
<1> SUFFICES ASSUME Init PROVE IInv
  OBVIOUS
<1>1. Active = {} /\ Waiting = {} /\ Granted = {} /\ Holders = {} /\ Lost = {}
  BY DEF Init, Active, Waiting, Granted, Holders, Lost
<1>2. Cardinality({}) = 0 /\ {} \cup {} = {}
  BY FS_EmptySet
<1>3. TypeOK
  BY DEF Init, TypeOK
<1>4. PermitsConserved
  BY <1>1, <1>2 DEF Init, PermitsConserved
<1>5. NoIdlePermit /\ InOrder /\ TicketsGiven
  BY <1>1 DEF NoIdlePermit, InOrder, TicketsGiven
<1>6. CountInv
  BY <1>1, <1>2 DEF Init, CountInv, CountCoversActive, EventTracksCount
<1>7. DrainInv
  BY DEF Init, DrainInv, DrainSound, EarlyCame
<1>8. QED
  BY <1>3, <1>4, <1>5, <1>6, <1>7 DEF IInv

\* The inductive invariant, for every instance of Dispatch.
LEMMA Inductive == Spec => []IInv
<1>1. IInv /\ [Next]_vars => IInv'
  BY TypeStep, PermitsStep, NoIdleStep, InOrderStep, CountStep, DrainStep DEF IInv
<1>2. QED
  BY <1>1, Initially, PTL DEF Spec

\* Every variable keeps its type; in particular self._sem never goes below
\* zero (app.py:929).
THEOREM TypeCorrect == Spec => []TypeOK
BY Inductive, PTL DEF IInv

\* No path out of the semaphore's block loses or mints a permit (app.py:929-940).
THEOREM PermitsAreConserved == Spec => []PermitsConserved
BY Inductive, PTL DEF IInv

\* No release is forgotten: a free permit beside a queue is about to be handed
\* over (app.py:929, asyncio.Semaphore).
THEOREM NoWakeUpIsLost == Spec => []NoIdlePermit
BY Inductive, PTL DEF IInv

\* Both at once: app.py:929 loses, mints and forgets no permit.
THEOREM PermitsAreSound == Spec => []PermitsSound
  BY PermitsAreConserved, NoWakeUpIsLost, PTL DEF PermitsSound

\* Nobody overtakes a request that queues for the semaphore (app.py:929).
THEOREM ServedInOrder == Spec => []InOrder
BY Inductive, PTL DEF IInv

\* _inflight_http counts the requests in the server and the lost ones, and the
\* event follows it (app.py:927-928, 938-940).
THEOREM CountIsSafe == Spec => [](CountCoversActive /\ EventTracksCount)
BY Inductive, PTL DEF IInv, CountInv

\* A drain that succeeds left none of the requests it waited for in the server
\* (app.py:867-876).
THEOREM DrainIsSound == Spec => []DrainSound
BY Inductive, PTL DEF IInv, DrainInv

\* Both at once: what the shutdown drain (app.py:867-876) is told is so.
THEOREM DrainIsToldTruth == Spec => []CountAndDrainSound
  BY CountIsSafe, DrainIsSound, PTL DEF CountAndDrainSound


-----------------------------------------------------------------------------
(* Refinement: Dispatch implements AdmissionGate.                          *)

LEMMA GateSets == TypeOK => Gate!Queue = Waiting \cup Granted /\ Gate!Inside = Holders
BY DEF Gate!Queue, Gate!Inside, GateStage, TypeOK, Waiting, Granted, Holders

LEMMA GateRoom == TypeOK => (Gate!HasRoom <=> Cardinality(Holders) < MaxConcurrency)
<1> SUFFICES ASSUME TypeOK PROVE Gate!HasRoom <=> Cardinality(Holders) < MaxConcurrency
  OBVIOUS
<1>1. Cardinality(Gate!Inside) = Cardinality(Holders)
  BY GateSets
<1>2. Gate!HasRoom <=> Cardinality(Gate!Inside) < MaxConcurrency
  <2>1. Cardinality(Gate!Inside) \in Nat
    BY <1>1, ReqSubsetFinite DEF Holders
  <2>2. QED
    BY <2>1 DEF Gate!HasRoom, Gate!Cardinality, Cardinality, Gate!IsFiniteSet, IsFiniteSet
<1>3. QED
  BY <1>1, <1>2

\* Stages change only where statuses change class.
LEMMA StageOf ==
    ASSUME TypeOK, NEW r \in Req
    PROVE  /\ status[r] = "idle" <=> GateStage[r] = "out"
           /\ status[r] \in {"waiting", "granted"} <=> GateStage[r] = "queued"
           /\ status[r] \in {"answered", "lost"} <=> GateStage[r] = "gone"
           /\ status[r] \in {"handling", "expiring", "mapping", "sending"}
                <=> GateStage[r] = "inside"
BY DEF GateStage, TypeOK

\* r alone changes class, to that of s.
LEMMA StageMove ==
    ASSUME TypeOK, NEW r \in Req, NEW s \in Outside \cup {"handling"},
           NEW G \in SUBSET (Waiting \ {r}), Move(r, s, G)
    PROVE  GateStage' = [GateStage EXCEPT ![r] = IF s = "handling" THEN "inside" ELSE "gone"]
<1>1. \A q \in G : q \in Req /\ status[q] = "waiting" /\ q # r
  BY DEF Waiting
<1>2. status' = [q \in Req |-> IF q = r THEN s ELSE IF q \in G THEN "granted" ELSE status[q]]
  BY DEF Move
<1>3. \A q \in Req \ {r} : GateStage'[q] = GateStage[q]
  BY <1>1, <1>2 DEF GateStage, TypeOK
<1>4. GateStage'[r] = IF s = "handling" THEN "inside" ELSE "gone"
  BY <1>2 DEF GateStage, Outside
<1>5. QED
  BY <1>3, <1>4 DEF GateStage

LEMMA GateStep == IInv /\ [Next]_vars => [Gate!Next]_(Gate!gateVars)
<1> SUFFICES ASSUME IInv, [Next]_vars PROVE [Gate!Next]_(Gate!gateVars)
  OBVIOUS
<1>0. TypeOK /\ sem + Cardinality(InUse) = MaxConcurrency /\ sem \in Nat
  BY DEF IInv, PermitsConserved, InUse, TypeOK
<1>1. ASSUME NEW r \in Req, Arrive(r) PROVE Gate!Enter(r)
  <2>1. /\ GateStage[r] = "out"
        /\ ticket' = [ticket EXCEPT ![r] = arrivals] /\ arrivals' = arrivals + 1
    BY <1>0, <1>1, StageOf DEF Arrive
  <2>2. CASE sem > 0 /\ Waiting \cup Granted = {} /\ status' = [status EXCEPT ![r] = "handling"]
    <3>1. InUse = Holders
      BY <2>2 DEF InUse
    <3>2. Gate!HasRoom /\ Gate!Queue = {}
      BY <1>0, <2>2, <3>1, GateSets, GateRoom, InUseFacts
    <3>3. GateStage' = [GateStage EXCEPT ![r] = "inside"]
      BY <1>0, <2>2 DEF GateStage, TypeOK
    <3>4. QED
      BY <2>1, <3>2, <3>3 DEF Gate!Enter
  <2>3. CASE /\ ~(sem > 0 /\ Waiting \cup Granted = {})
             /\ status' = [status EXCEPT ![r] = "waiting"]
    <3>1. ~(Gate!HasRoom /\ Gate!Queue = {})
      <4> SUFFICES ASSUME Gate!HasRoom, Waiting \cup Granted = {} PROVE FALSE
        BY <1>0, GateSets
      <4>1. InUse = Holders
        BY DEF InUse
      <4>2. Cardinality(InUse) < MaxConcurrency
        BY <1>0, <4>1, GateRoom
      <4>3. QED
        BY <1>0, <2>3, <4>2, InUseFacts
    <3>2. GateStage' = [GateStage EXCEPT ![r] = "queued"]
      BY <1>0, <2>3 DEF GateStage, TypeOK
    <3>3. QED
      BY <2>1, <3>1, <3>2 DEF Gate!Enter
  <2>4. QED
    BY <1>1, <2>2, <2>3 DEF Arrive
<1>2. ASSUME NEW r \in Req, Resume(r) PROVE Gate!Admit(r)
  <2>1. r \in Granted /\ r \notin Holders /\ ticket' = ticket /\ arrivals' = arrivals
    BY <1>2 DEF Resume, Granted, Holders
  <2>2. PICK G \in SUBSET (Waiting \ {r}) : Move(r, "handling", G)
    BY <1>0, <1>2, WakeUpFacts DEF Resume
  <2>3. GateStage' = [GateStage EXCEPT ![r] = "inside"]
    BY <1>0, <2>2, StageMove
  <2>4. Gate!HasRoom
    <3>1. Holders \in SUBSET Req /\ Holders \cup {r} \in SUBSET InUse
      BY <2>1 DEF Holders, InUse
    <3>2. IsFiniteSet(Holders) /\ Cardinality(Holders) \in Nat
      BY <3>1, ReqSubsetFinite
    <3>3. Cardinality(Holders \cup {r}) = Cardinality(Holders) + 1
      BY <2>1, <3>2, FS_AddElement
    <3>4. Cardinality(Holders \cup {r}) <= Cardinality(InUse)
      BY <3>1, InUseFacts, FS_Subset
    <3>5. QED
      BY <1>0, <3>2, <3>3, <3>4, InUseFacts, GateRoom
  <2>5. \A q \in Gate!Queue : ticket[r] <= ticket[q]
    <3>1. \A q \in Granted : ticket[r] <= ticket[q]
      BY <1>2 DEF Resume
    <3>2. \A q \in Waiting : ~(ticket[q] < ticket[r])
      BY <2>1, InUseFacts DEF IInv, InUse
    <3>3. \A q \in Waiting : ticket[q] \in Nat /\ ticket[r] \in Nat
      BY <1>0 DEF Waiting, TypeOK
    <3>4. QED
      BY <1>0, <3>1, <3>2, <3>3, GateSets
  <2>6. QED
    BY <1>0, <2>1, <2>3, <2>4, <2>5, GateSets DEF Gate!Admit
<1>3. ASSUME NEW r \in Req, NEW s \in Outside, NEW G \in SUBSET (Waiting \ {r}), Move(r, s, G),
             r \in Active, ticket' = ticket, arrivals' = arrivals
      PROVE  Gate!Go(r)
  <2>1. r \in Gate!Queue \cup Gate!Inside
    BY <1>0, <1>3, GateSets DEF Active
  <2>2. GateStage' = [GateStage EXCEPT ![r] = "gone"]
    BY <1>0, <1>3, StageMove DEF Outside
  <2>3. QED
    BY <1>3, <2>1, <2>2 DEF Gate!Go
<1>4. ASSUME NEW r \in Req, Finish(r) \/ MapperRaises(r) \/ CancelRunning(r) PROVE Gate!Go(r)
  <2>1. PICK s \in Outside : Release(r, s)
    BY <1>4 DEF Finish, MapperRaises, CancelRunning, Lose, Outside
  <2>2. r \in Holders /\ r \in Active /\ ticket' = ticket /\ arrivals' = arrivals
    BY <1>4 DEF Finish, MapperRaises, CancelRunning, Lose, Holders, Active
  <2>3. QED
    BY <1>0, <1>3, <2>1, <2>2, ReleaseFacts
<1>5. ASSUME NEW r \in Req, CancelQueued(r) PROVE Gate!Go(r)
  <2>1. PICK free \in Nat : WakeUp(r, "lost", free)
    BY <1>0, <1>5 DEF CancelQueued, TypeOK
  <2>2. r \in Active /\ ticket' = ticket /\ arrivals' = arrivals
    BY <1>5 DEF CancelQueued, Active, Waiting, Granted
  <2>3. QED
    BY <1>0, <1>3, <2>1, <2>2, WakeUpFacts DEF Outside
<1>6. ASSUME NEW r \in Req,
             HandlerReturns(r) \/ HandlerRaises(r) \/ Expire(r) \/ Mapped(r)
      PROVE UNCHANGED Gate!gateVars
  <2>1. PICK from \in SUBSET {"handling", "expiring", "mapping", "sending"},
             to \in {"handling", "expiring", "mapping", "sending"} : Step(r, from, to)
    BY <1>6 DEF HandlerReturns, HandlerRaises, Expire, Mapped
  <2>2. /\ status' = [status EXCEPT ![r] = to]
        /\ status[r] \in {"handling", "expiring", "mapping", "sending"}
        /\ ticket' = ticket /\ arrivals' = arrivals
    BY <2>1 DEF Step
  <2>3. GateStage' = GateStage
    BY <1>0, <2>2 DEF GateStage, TypeOK
  <2>4. QED
    BY <2>2, <2>3 DEF Gate!gateVars
<1>7. ASSUME Lifespan \/ (\E r \in Req : ThreadEnds(r)) \/ UNCHANGED vars
      PROVE  UNCHANGED Gate!gateVars
  BY <1>7 DEF Lifespan, Shutdown, DrainSeesIdle, DrainTimesOut, DrainReturns, ThreadEnds,
              requestVars, vars, GateStage, Gate!gateVars
<1>8. QED
  BY <1>1, <1>2, <1>4, <1>5, <1>6, <1>7 DEF Next, Request, Gate!Next

\* Dispatch implements AdmissionGate for every set of requests and every limit:
\* at most max_concurrency inside, admitted in order (app.py:927-929).
THEOREM Refinement == Spec => ImplementsGate
<1>1. Init => Gate!Init
  BY DEF Init, Gate!Init, GateStage
<1>2. QED
  BY <1>1, GateStep, Inductive, PTL DEF Spec, ImplementsGate, Gate!Spec

-----------------------------------------------------------------------------
(* WebSocket.                                                              *)

\* A close() under way has sent its frame already, be it the handler's or the
\* heartbeat's: what sets ws.closed after the await then has its reason.
ShutFirst == pc \in Closing \/ beat = "closing" => shutBy # None

WSIInv == NobodyLeftHanging /\ ClosedIsTrue /\ ShutFirst

USE Settings
USE DEF WSIInv, NobodyLeftHanging, ClosedIsTrue, ShutFirst, Closing

LEMMA WSInitIInv == WSInit => WSIInv
  BY DEF WSInit

\* What the peer, the server and the clock do.
LEMMA OutsideStep == WSIInv /\ (Speak \/ Vanish \/ Leave \/ Tick) => WSIInv'
<1>1. Tick => UNCHANGED <<closed, pc, escaped, beat, peer, shutBy>>
  BY DEF Tick, taskVars, peerVars
<1>2. Speak \/ Vanish \/ Leave =>
         UNCHANGED <<closed, pc, escaped, beat, shutBy>> /\ (peer = "left" => peer' = "left")
  BY DEF Speak, Vanish, Leave, PeerDoes, wsVars, taskVars, beatVars
<1> QED BY <1>1, <1>2

\* A close frame once sent stays sent.
LEMMA Shuts ==
    ASSUME NEW who \in {"handler", "beat"}, Shut(who)
    PROVE  shutBy' # None /\ (shutBy # None => shutBy' = shutBy)
  BY DEF Shut

\* An exception in the handler keeps the invariant, whatever set closed.
LEMMA Raised ==
    ASSUME WSIInv, NEW isClosed, Raise(isClosed), isClosed => closed',
           closed => closed',
           closed' => closed \/ peer = "left" \/ shutBy # None,
           UNCHANGED <<beat, peer>>
    PROVE  WSIInv'
<1>1. shutBy # None => shutBy' # None
  BY Shuts DEF Raise, Goto
<1>2. CASE Goto("running") /\ UNCHANGED shutBy
  BY <1>2 DEF Goto
<1>3. CASE isClosed /\ Goto("cleaning") /\ UNCHANGED shutBy
  BY <1>3 DEF Goto
<1>4. CASE ~isClosed /\ Goto("failing") /\ Shut("handler")
  BY <1>4, Shuts DEF Goto
<1> QED BY <1>2, <1>3, <1>4 DEF Raise

\* The steps of the handler's task that raise nothing.
LEMMA QuietStep ==
    ASSUME WSIInv,
           \/ Resolved \/ NoRoute \/ ResolveFails \/ Return \/ Accept \/ Accepted \/ Send \/ Sent
           \/ (\E timed \in BOOLEAN : Receive(timed)) \/ Received \/ Close
           \/ Cleaned \/ CleanupFails \/ Cancel \/ CancelBeat \/ (\E l \in Limits : StartBeat(l))
    PROVE  WSIInv'
<1> USE DEF Goto, wsVars, taskVars, beatVars, peerVars
<1>1. CASE Resolved \/ ResolveFails \/ Return \/ Accept \/ Accepted \/ Send \/ Sent \/ Received
  BY <1>1 DEF Resolved, ResolveFails, Return, Accept, Accepted, Send, Sent, Received
<1>2. CASE \E timed \in BOOLEAN : Receive(timed)
  BY <1>2 DEF Receive
<1>3. CASE NoRoute
  BY <1>3, Shuts DEF NoRoute
<1>4. CASE Close
  BY <1>4, Shuts DEF Close
<1>5. CASE Cleaned
  BY <1>5, Shuts DEF Cleaned
<1>6. CASE CleanupFails \/ Cancel
  BY <1>6 DEF CleanupFails, Cancel, Calling
<1>7. CASE CancelBeat
  BY <1>7 DEF CancelBeat
<1>8. CASE \E l \in Limits : StartBeat(l)
  BY <1>8 DEF StartBeat
<1> QED BY <1>1, <1>2, <1>3, <1>4, <1>5, <1>6, <1>7, <1>8

\* The steps that may raise in the handler.
LEMMA RaisingStep ==
    ASSUME WSIInv, Fail \/ SendFails \/ Disconnected \/ Expires \/ Closed \/ CloseFails
    PROVE  WSIInv'
<1> USE DEF wsVars, taskVars, beatVars, peerVars
<1>1. CASE Fail \/ SendFails
  BY <1>1, Raised DEF Fail, SendFails
<1>2. CASE Disconnected
  BY <1>2, Raised DEF Disconnected
<1>3. CASE Expires
  <2>1. CASE closed
    BY <1>3, <2>1, Raised DEF Expires
  <2>2. CASE ~closed
    BY <1>3, <2>2, Shuts DEF Expires, Goto
  <2> QED BY <2>1, <2>2
<1>4. CASE Closed
  <2>1. closed' = TRUE /\ shutBy # None /\ UNCHANGED <<beat, peer>>
    BY <1>4 DEF Closed
  <2>2. CASE pc = "expiring"
    BY <1>4, <2>1, <2>2, Raised DEF Closed
  <2>3. CASE pc # "expiring"
    BY <1>4, <2>1, <2>3 DEF Closed, Goto
  <2> QED BY <2>2, <2>3
<1>5. CASE CloseFails
  <2>1. CASE pc \in {"closing", "expiring"}
    BY <1>5, <2>1, Raised DEF CloseFails
  <2>2. CASE pc \in {"failing", "leaving"}
    BY <1>5, <2>2 DEF CloseFails
  <2> QED BY <1>5, <2>1, <2>2 DEF CloseFails
<1> QED BY <1>1, <1>2, <1>3, <1>4, <1>5

LEMMA HeartbeatStep == WSIInv /\ BeatStep => WSIInv'
<1> SUFFICES ASSUME WSIInv, BeatStep PROVE WSIInv'
  OBVIOUS
<1> USE DEF wsVars, taskVars, beatVars, peerVars
<1>1. CASE BeatExpires
  BY <1>1, Shuts DEF BeatExpires
<1>2. CASE BeatSeesClosed \/ Ping \/ Pinged \/ PingFails \/ BeatCloses \/ BeatCloseFails
  BY <1>2 DEF BeatSeesClosed, Ping, Pinged, PingFails, BeatCloses, BeatCloseFails
<1> QED BY <1>1, <1>2 DEF BeatStep

\* The invariant, and from it the two properties.
THEOREM WSInductive == WSSpec => []WSIInv
<1>1. WSIInv /\ [WSNext]_connectionVars => WSIInv'
  <2> SUFFICES ASSUME WSIInv, [WSNext]_connectionVars PROVE WSIInv'
    OBVIOUS
  <2>1. CASE UNCHANGED connectionVars
    BY <2>1 DEF connectionVars, wsVars, taskVars, beatVars, peerVars
  <2>2. CASE Speak \/ Vanish \/ Leave \/ Tick
    BY <2>2, OutsideStep
  <2>3. CASE HandlerNext
    BY <2>3, QuietStep, RaisingStep DEF HandlerNext
  <2>4. CASE BeatStep
    BY <2>4, HeartbeatStep
  <2> QED BY <2>1, <2>2, <2>3, <2>4 DEF WSNext
<1> QED BY <1>1, WSInitIInv, PTL DEF WSSpec

\* _handle_websocket (app.py 945-973) returns only from a closed socket, with
\* the peer told or gone, for every heartbeat setting.
THEOREM ReturnsClosed == WSSpec => []NobodyLeftHanging
  BY WSInductive, PTL

\* ws.closed is never set without a reason the peer knows.
THEOREM ClosedIsSound == WSSpec => []ClosedIsTrue
  BY WSInductive, PTL

\* Both: how a connection ends is what its two sides are told.
THEOREM CloseIsToldTruly == WSSpec => []CloseIsTold
  BY ReturnsClosed, ClosedIsSound, PTL DEF CloseIsTold

=============================================================================
