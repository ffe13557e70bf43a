--------------------------- MODULE JobQueue_proofs ---------------------------
(***************************************************************************)
(* For any jobs, workers, keys, retry counts and delays: the schedule, the *)
(* records, the counter and the sleepers of JobQueue agree, nothing runs   *)
(* once it is stopped, join() is right, and JobQueue implements JobLedger. *)
(***************************************************************************)
EXTENDS JobQueue, FiniteSetTheorems, SequenceTheorems, TLAPS

USE Finite, Absent, RetriesNat, TicksNat

(***************************************************************************)
(* The inductive invariant: the properties, and what makes them inductive. *)
(***************************************************************************)

\* A worker holds a job exactly while it is in a handler.
Holding == \A w \in Worker : w \in Busy <=> hold[w] # NoJob

\* A job never enqueued has not been tried.
Budget ==
    /\ RetryBudget
    /\ \A j \in Job : status[j] = "none" => attempts[j] = 0

\* ... and has no key, nor a key it.
Keys ==
    /\ KeyNamesJob
    /\ \A j \in Job : status[j] = "none" => key[j] = NoKey

\* The stop() calls whose list nobody has cleared since they began.
Sound == Stopping \ emptied

\* Whoever is not done is on the list, but for the workers astray; a sound call
\* has only finished tasks before its place in the list, and while the queue is
\* stopped and somebody is not done there is one; where a list was cleared under
\* a call that waits, all that is in it is astray.
PoolSane ==
    /\ Alive \subseteq Listed \cup astray
    /\ \A c \in Sound :
        /\ spot[c] \in DOMAIN workers /\ workers[spot[c]] = awaits[c]
        /\ \A i \in DOMAIN workers : i < spot[c] => phase[workers[i]] = "dead"
    /\ emptied \subseteq Stopping
    /\ emptied # {} => Listed \subseteq astray
    /\ ~running /\ Alive \ astray # {} => Sound # {}

IInv ==
    /\ TypeOK
    /\ Holding
    /\ ScheduleTellsStatus
    /\ HeldOnce
    /\ ActiveCountsBusy
    /\ NoOversleep
    /\ Budget
    /\ Keys
    /\ PoolSane

\* What no step changes that leaves the records, the queue and the holders be.
Records == Holding /\ ScheduleTellsStatus /\ HeldOnce /\ ActiveCountsBusy /\ Budget /\ Keys

LEMMA TickTypes == Horizon \in Nat /\ PollTicks \in Nat
BY DEF TicksNat

LEMMA BusyFinite == IsFiniteSet(Busy) /\ Cardinality(Busy) \in Nat
<1>1. Busy \subseteq Worker
  BY DEF Busy
<1>2. IsFiniteSet(Worker)
  BY FS_Interval DEF Finite, Worker
<1>3. QED
  BY <1>1, <1>2, FS_Subset, FS_CardinalityType

LEMMA InitEstablishes == Init => IInv
<1> SUFFICES ASSUME Init PROVE IInv
  OBVIOUS
<1>1. Busy = {} /\ Sleeping = {} /\ Alive = {} /\ Stopping = {} /\ emptied = {}
  BY DEF Init, Busy, Sleeping, Alive, Stopping
<1>2. TypeOK
  <2>1. now \in 0..Horizon
    BY TickTypes DEF Init
  <2>2. status \in [Job -> Status] /\ phase \in [Worker -> Phase]
    BY DEF Init, Status, Phase
  <2>3. /\ attempts \in [Job -> Nat]
        /\ wakeAt \in [Worker -> Nat] /\ seq \in Nat /\ active \in Nat
    BY DEF Init, Awake
  <2>4. /\ key \in [Job -> Key \cup {NoKey}] /\ idempotency \in [Key -> Job \cup {NoJob}]
        /\ hold \in [Worker -> Job \cup {NoJob}]
    BY DEF Init
  <2>5. /\ workers \in Seq(Worker) /\ spot \in [Caller -> Nat]
        /\ awaits \in [Caller -> Worker \cup {NoWorker}]
    BY DEF Init
  <2>6. QED
    BY <2>1, <2>2, <2>3, <2>4, <2>5 DEF Init, TypeOK
<1>3. ActiveCountsBusy
  BY <1>1, FS_EmptySet DEF ActiveCountsBusy, Init
<1>4. Holding /\ ScheduleTellsStatus /\ HeldOnce /\ NoOversleep
  BY <1>1 DEF Init, Holding, ScheduleTellsStatus, HeldOnce, NoOversleep
<1>5. Budget /\ Keys /\ PoolSane
  BY <1>1 DEF Init, Budget, RetryBudget, Keys, KeyNamesJob, PoolSane, Sound, Terminal
<1>6. QED
  BY <1>2, <1>3, <1>4, <1>5 DEF IInv

\* The records and their holders are left alone.
Aside == UNCHANGED <<status, attempts, key, idempotency, schedule, active, hold>> /\ Busy' = Busy

LEMMA RecordsKept ==
    ASSUME IInv, Aside
    PROVE  Records'
<1> USE DEF IInv, Aside
<1>1. Holding' /\ HeldOnce'
  BY DEF Holding, HeldOnce
<1>2. ScheduleTellsStatus' /\ ActiveCountsBusy'
  BY DEF ScheduleTellsStatus, ActiveCountsBusy
<1>3. Budget' /\ Keys'
  BY DEF Budget, RetryBudget, Keys, KeyNamesJob
<1>4. QED
  BY <1>1, <1>2, <1>3 DEF Records

\* Nobody comes to life, and no stop() or start() does anything.
Unstirred ==
    /\ \A w \in Worker : phase'[w] \notin {"off", "dead"} => phase[w] \notin {"off", "dead"}
    /\ \A w \in Worker : phase[w] = "dead" => phase'[w] = "dead"
    /\ UNCHANGED poolVars

LEMMA PoolKept == ASSUME IInv, Unstirred PROVE PoolSane'
<1> USE DEF Unstirred, poolVars, stopVars
<1>1. Alive' \subseteq Alive
  BY DEF Alive
<1>2. Listed' = Listed /\ Stopping' = Stopping /\ Sound' = Sound
  BY DEF Listed, Stopping, Sound
<1>3. \A i \in DOMAIN workers : workers[i] \in Worker
  BY DEF IInv, TypeOK
<1>4. QED
  BY <1>1, <1>2, <1>3 DEF IInv, PoolSane

-----------------------------------------------------------------------------
(* Steps that leave the records alone.                                     *)

LEMMA TickStep == ASSUME IInv, Tick PROVE IInv'
<1> USE DEF Tick, jobVars, queueVars, workerVars, poolVars
<1>1. Busy' = Busy /\ Sleeping' = Sleeping
  BY DEF Busy, Sleeping
<1>2. Records'
  BY <1>1, RecordsKept DEF Aside
<1>3. TypeOK'
  <2>1. now' \in 0..Horizon
    BY TickTypes DEF IInv, TypeOK
  <2>2. QED
    BY <2>1 DEF IInv, TypeOK, stopVars
<1>4. NoOversleep' /\ PoolSane'
  BY <1>1, PoolKept DEF IInv, NoOversleep, Unstirred
<1>5. QED
  BY <1>2, <1>3, <1>4 DEF IInv, Records

LEMMA StartStep == ASSUME IInv, NEW n \in Worker, Start(n) PROVE IInv'
<1> DEFINE new == [i \in 1..n |-> Cardinality(Created) + i]
<1>1. /\ \A i \in 1..n : new[i] \in Worker /\ phase[new[i]] = "off"
      /\ running' = TRUE /\ workers' = workers \o new
      /\ phase' = [w \in Worker |-> IF \E i \in 1..n : w = new[i] THEN "ready" ELSE phase[w]]
      /\ astray' = IF emptied = {} THEN astray ELSE astray \cup {new[i] : i \in 1..n}
      /\ UNCHANGED <<now, jobVars, queueVars, wakeAt, hold, cancelled, spot, awaits, emptied>>
  BY DEF Start, Created
<1>2. new \in Seq(Worker) /\ Len(new) = n /\ n \in Nat /\ DOMAIN new = 1..n
  BY <1>1 DEF Worker
<1> HIDE DEF new
<1>3. phase \in [Worker -> Phase] /\ workers \in Seq(Worker)
  BY DEF IInv, TypeOK
<1>4. phase' \in [Worker -> Phase]
  BY <1>1, <1>3 DEF Phase
<1>5. Busy' = Busy /\ Sleeping' = Sleeping
  BY <1>1, <1>3 DEF Busy, Sleeping
<1>6. Records'
  BY <1>1, <1>5, RecordsKept DEF Aside, jobVars, queueVars
<1>7. /\ workers' \in Seq(Worker) /\ DOMAIN workers' = 1..(Len(workers) + n)
      /\ \A i \in DOMAIN workers : i \in DOMAIN workers' /\ workers'[i] = workers[i]
      /\ \A i \in 1..n : Len(workers) + i \in DOMAIN workers' /\ workers'[Len(workers) + i] = new[i]
      /\ \A i \in DOMAIN workers' \ DOMAIN workers : \E k \in 1..n : workers'[i] = new[k]
  <2>1. /\ workers' \in Seq(Worker) /\ Len(workers') = Len(workers) + n
        /\ \A i \in 1..(Len(workers) + n) :
            workers'[i] = IF i <= Len(workers) THEN workers[i] ELSE new[i - Len(workers)]
    <3>1. workers' = workers \o new
      BY <1>1
    <3>2. Len(workers) \in Nat
      BY <1>3, LenProperties
    <3>3. /\ workers \o new \in Seq(Worker) /\ Len(workers \o new) = Len(workers) + Len(new)
          /\ \A i \in 1..(Len(workers) + Len(new)) :
               (workers \o new)[i] = IF i <= Len(workers) THEN workers[i] ELSE new[i - Len(workers)]
      BY <1>2, <1>3, ConcatProperties
    <3>4. QED
      BY <1>2, <3>1, <3>2, <3>3
  <2>2. Len(workers) \in Nat /\ DOMAIN workers = 1..Len(workers)
    BY <1>3, LenProperties
  <2>3. DOMAIN workers' = 1..(Len(workers) + n)
    BY <2>1, LenProperties
  <2>4. ASSUME NEW i \in DOMAIN workers' \ DOMAIN workers
        PROVE  \E k \in 1..n : workers'[i] = new[k]
    <3>1. i - Len(workers) \in 1..n /\ i > Len(workers)
      BY <2>2, <2>3, <1>2
    <3>2. QED
      BY <3>1, <2>1, <2>2, <2>3
  <2>5. \A i \in DOMAIN workers : i \in DOMAIN workers' /\ workers'[i] = workers[i]
    BY <1>2, <2>1, <2>2, <2>3
  <2>6. ASSUME NEW i \in 1..n
        PROVE  Len(workers) + i \in DOMAIN workers' /\ workers'[Len(workers) + i] = new[i]
    <3>1. /\ Len(workers) + i \in 1..(Len(workers) + n) /\ ~(Len(workers) + i <= Len(workers))
          /\ (Len(workers) + i) - Len(workers) = i
      BY <1>2, <2>2
    <3>2. QED
      BY <3>1, <2>1, <2>3
  <2>7. QED
    BY <2>1, <2>3, <2>4, <2>5, <2>6
<1>8. TypeOK'
  <2>1. astray' \subseteq Worker
    BY <1>1 DEF IInv, TypeOK
  <2>2. QED
    BY <1>1, <1>4, <1>7, <2>1 DEF IInv, TypeOK, jobVars, queueVars
<1>9. NoOversleep'
  BY <1>1, <1>5 DEF IInv, NoOversleep, queueVars
<1>10. PoolSane'
  <2>1. Stopping' = Stopping /\ Sound' = Sound
    BY <1>1 DEF Stopping, Sound
  <2>2. Listed' = Listed \cup {new[i] : i \in 1..n}
    BY <1>7 DEF Listed
  <2>3. Alive' = Alive \cup {new[i] : i \in 1..n}
    BY <1>1, <1>3 DEF Alive
  <2>4. \A i \in DOMAIN workers : phase[workers[i]] = "dead" => phase'[workers[i]] = "dead"
    BY <1>1, <1>3
  <2>5. ASSUME NEW c \in Sound
        PROVE  /\ spot[c] \in DOMAIN workers' /\ workers'[spot[c]] = awaits[c]
               /\ \A i \in DOMAIN workers' : i < spot[c] => phase'[workers'[i]] = "dead"
    <3>1. /\ spot[c] \in DOMAIN workers /\ workers[spot[c]] = awaits[c]
          /\ \A i \in DOMAIN workers : i < spot[c] => phase[workers[i]] = "dead"
      BY DEF IInv, PoolSane
    <3>2. DOMAIN workers = 1..Len(workers) /\ Len(workers) \in Nat
      BY <1>3, LenProperties
    <3>3. \A i \in DOMAIN workers' : i < spot[c] => i \in DOMAIN workers
      BY <1>2, <1>7, <3>1, <3>2
    <3>4. QED
      BY <1>7, <2>4, <3>1, <3>3
  <2>6. emptied' = emptied /\ spot' = spot /\ awaits' = awaits
    BY <1>1
  <2>7. Alive' \subseteq Listed' \cup astray'
    BY <1>1, <2>2, <2>3 DEF IInv, PoolSane
  <2>8. emptied' # {} => Listed' \subseteq astray'
    BY <1>1, <2>2 DEF IInv, PoolSane
  <2>9. emptied' \subseteq Stopping' /\ running' = TRUE
    BY <1>1, <2>1 DEF IInv, PoolSane
  <2>10. QED
    BY <2>1, <2>5, <2>6, <2>7, <2>8, <2>9 DEF PoolSane
<1>11. QED
  BY <1>6, <1>8, <1>9, <1>10 DEF IInv, Records

\* Waking changes who sleeps, and nobody's work.
LEMMA WokenFacts ==
    ASSUME TypeOK
    PROVE  /\ Woken(phase) \in [Worker -> Phase]
           /\ \A w \in Worker : Woken(phase)[w] # "sleeping"
           /\ \A w \in Worker : phase[w] # "sleeping" => Woken(phase)[w] = phase[w]
           /\ \A w \in Worker : phase[w] = "sleeping" => Woken(phase)[w] = "ready"
BY DEF Woken, TypeOK, Phase

\* What stop() does with the list, wherever in it the call c is.
LEMMA ListSteps ==
    ASSUME IInv, NEW c \in Caller, NEW next \in Nat \ {0},
           Awaits(c, next) \/ Returns(c, next),
           astray' = astray, \A w \in Worker : phase'[w] = "dead" <=> phase[w] = "dead",
           Alive' = Alive,
           c \notin emptied =>
                \A i \in DOMAIN workers : i < next => phase[workers[i]] = "dead"
    PROVE  /\ workers' \in Seq(Worker) /\ spot' \in [Caller -> Nat]
           /\ awaits' \in [Caller -> Worker \cup {NoWorker}] /\ emptied' \subseteq Caller
           /\ PoolSane'
<1>1. /\ workers \in Seq(Worker) /\ spot \in [Caller -> Nat] /\ emptied \subseteq Caller
      /\ awaits \in [Caller -> Worker \cup {NoWorker}]
      /\ DOMAIN workers = 1..Len(workers) /\ Len(workers) \in Nat
      /\ \A i \in DOMAIN workers : workers[i] \in Worker
  BY DEF IInv, TypeOK
<1>2. CASE Awaits(c, next)
  <2>1. PICK i \in next..Len(workers) :
          /\ phase[workers[i]] # "dead"
          /\ \A k \in next..(i - 1) : phase[workers[k]] = "dead"
          /\ spot' = [spot EXCEPT ![c] = i]
          /\ awaits' = [awaits EXCEPT ![c] = workers[i]]
          /\ UNCHANGED <<workers, emptied>>
    BY <1>2 DEF Awaits
  <2>2. i \in DOMAIN workers /\ i \in Nat /\ workers[i] \in Worker /\ workers[i] # NoWorker
    BY <1>1, Absent
  <2>3. /\ spot' \in [Caller -> Nat] /\ awaits' \in [Caller -> Worker \cup {NoWorker}]
        /\ spot'[c] = i /\ awaits'[c] = workers[i]
        /\ \A d \in Caller \ {c} : spot'[d] = spot[d] /\ awaits'[d] = awaits[d]
    BY <1>1, <2>1, <2>2
  <2>4. Stopping' = Stopping \cup {c} /\ Listed' = Listed
    BY <2>1, <2>2, <2>3 DEF Stopping, Listed
  <2>5. emptied' = emptied /\ workers' = workers
    BY <2>1
  <2>6. Sound' = IF c \in emptied THEN Sound ELSE Sound \cup {c}
    BY <2>4, <2>5 DEF Sound
  <2>7. c \notin emptied => \A k \in DOMAIN workers : k < i => phase[workers[k]] = "dead"
    BY <1>1, <2>1, <2>2
  <2>8. \A d \in Sound' :
          /\ spot'[d] \in DOMAIN workers' /\ workers'[spot'[d]] = awaits'[d]
          /\ \A k \in DOMAIN workers' : k < spot'[d] => phase'[workers'[k]] = "dead"
    <3>1. CASE c \in emptied
      <4>1. \A d \in Sound : d \in Caller \ {c}
        BY <3>1 DEF Sound, Stopping
      <4>2. QED
        BY <1>1, <2>3, <2>5, <2>6, <3>1, <4>1 DEF IInv, PoolSane
    <3>2. CASE c \notin emptied
      <4>1. \A d \in Sound : d \in Caller
        BY DEF Sound, Stopping
      <4>2. QED
        BY <1>1, <2>2, <2>3, <2>5, <2>6, <2>7, <3>2, <4>1 DEF IInv, PoolSane
    <3>3. QED
      BY <3>1, <3>2
  <2>9. emptied' \subseteq Stopping' /\ (emptied' # {} => Listed' \subseteq astray')
    BY <2>4, <2>5 DEF IInv, PoolSane
  <2>10. Alive' \ astray' # {} => Sound' # {}
    <3>1. CASE c \in emptied
      <4>1. Alive \subseteq astray
        BY <3>1 DEF IInv, PoolSane
      <4>2. QED
        BY <4>1
    <3>2. CASE c \notin emptied
      BY <2>6, <3>2
    <3>3. QED
      BY <3>1, <3>2
  <2>11. Alive' \subseteq Listed' \cup astray'
    BY <2>4 DEF IInv, PoolSane
  <2>12. QED
    BY <1>1, <2>3, <2>5, <2>8, <2>9, <2>10, <2>11 DEF PoolSane
<1>3. CASE Returns(c, next)
  <2>1. /\ workers' = <<>> /\ spot' = [spot EXCEPT ![c] = 0]
        /\ awaits' = [awaits EXCEPT ![c] = NoWorker] /\ emptied' = Stopping \ {c}
        /\ \A i \in next..Len(workers) : phase[workers[i]] = "dead"
    BY <1>3 DEF Returns
  <2>2. /\ workers' \in Seq(Worker) /\ DOMAIN workers' = {}
        /\ spot' \in [Caller -> Nat] /\ awaits' \in [Caller -> Worker \cup {NoWorker}]
        /\ Stopping' = Stopping \ {c}
    BY <1>1, <2>1 DEF Stopping
  <2>3. Listed' = {} /\ Sound' = {} /\ emptied' \subseteq Stopping'
    BY <2>1, <2>2 DEF Listed, Sound
  <2>4. Alive \subseteq astray
    <3>1. CASE c \in emptied
      BY <3>1 DEF IInv, PoolSane
    <3>2. CASE c \notin emptied
      <4>1. \A i \in DOMAIN workers : phase[workers[i]] = "dead"
        <5>1. \A i \in DOMAIN workers : i < next \/ i \in next..Len(workers)
          BY <1>1
        <5>2. QED
          BY <2>1, <3>2, <5>1
      <4>2. \A w \in Listed : phase[w] = "dead"
        BY <4>1 DEF Listed
      <4>3. QED
        BY <4>2 DEF IInv, PoolSane, Alive
    <3>3. QED
      BY <3>1, <3>2
  <2>5. emptied' \subseteq Caller
    BY <2>1 DEF Stopping
  <2>6. QED
    BY <2>2, <2>3, <2>4, <2>5 DEF PoolSane
<1>4. QED
  BY <1>2, <1>3

LEMMA StopBeginsStep == ASSUME IInv, NEW c \in Caller, StopBegins(c) PROVE IInv'
<1>1. /\ c \notin Stopping /\ phase' = Woken(phase) /\ wakeAt' = Awake
      /\ cancelled' = cancelled \cup (Listed \cap Alive)
      /\ Awaits(c, 1) \/ Returns(c, 1)
      /\ UNCHANGED <<now, jobVars, queueVars, hold, astray>> /\ running' = FALSE
  BY DEF StopBegins
<1>2. phase \in [Worker -> Phase] /\ phase' \in [Worker -> Phase]
  BY <1>1, WokenFacts DEF IInv, TypeOK
<1>3. Busy' = Busy /\ Sleeping' = {} /\ Alive' = Alive
      /\ \A w \in Worker : phase'[w] = "dead" <=> phase[w] = "dead"
  <2>1. \A w \in Worker : /\ phase'[w] # "sleeping"
                          /\ phase[w] # "sleeping" => phase'[w] = phase[w]
                          /\ phase[w] = "sleeping" => phase'[w] = "ready"
    BY <1>1, WokenFacts DEF IInv
  <2>2. QED
    BY <2>1 DEF Busy, Sleeping, Alive
<1>4. Records'
  BY <1>1, <1>3, RecordsKept DEF Aside, jobVars, queueVars
<1>5. c \notin emptied /\ \A i \in DOMAIN workers : i < 1 => phase[workers[i]] = "dead"
  <2>1. DOMAIN workers = 1..Len(workers)
    BY DEF IInv, TypeOK
  <2>2. QED
    BY <1>1, <2>1 DEF IInv, PoolSane
<1>6. /\ workers' \in Seq(Worker) /\ spot' \in [Caller -> Nat]
      /\ awaits' \in [Caller -> Worker \cup {NoWorker}] /\ emptied' \subseteq Caller
      /\ PoolSane'
  BY <1>1, <1>3, <1>5, ListSteps
<1>7. TypeOK'
  <2>1. cancelled' \subseteq Worker /\ wakeAt' \in [Worker -> Nat]
    BY <1>1 DEF IInv, TypeOK, Alive, Awake
  <2>2. QED
    BY <1>1, <1>2, <1>6, <2>1 DEF IInv, TypeOK, jobVars, queueVars
<1>8. NoOversleep'
  BY <1>3 DEF NoOversleep
<1>9. QED
  BY <1>4, <1>6, <1>7, <1>8 DEF IInv, Records

LEMMA StopResumesStep == ASSUME IInv, NEW c \in Caller, StopResumes(c) PROVE IInv'
<1>1. /\ c \in Stopping /\ phase[awaits[c]] = "dead"
      /\ Awaits(c, spot[c] + 1) \/ Returns(c, spot[c] + 1)
      /\ UNCHANGED <<now, jobVars, queueVars, phase, wakeAt, hold, cancelled, running, astray>>
  BY DEF StopResumes, workerVars
<1>2. Busy' = Busy /\ Sleeping' = Sleeping /\ Alive' = Alive
  BY <1>1 DEF Busy, Sleeping, Alive
<1>3. Records'
  BY <1>1, <1>2, RecordsKept DEF Aside, jobVars, queueVars
<1>4. spot[c] + 1 \in Nat \ {0} /\ spot[c] \in Nat
  BY DEF IInv, TypeOK
<1>5. c \notin emptied => \A i \in DOMAIN workers : i < spot[c] + 1 => phase[workers[i]] = "dead"
  <2>1. SUFFICES ASSUME c \notin emptied, NEW i \in DOMAIN workers, i < spot[c] + 1
                 PROVE  phase[workers[i]] = "dead"
    OBVIOUS
  <2>2. c \in Sound
    BY <1>1, <2>1 DEF Sound
  <2>3. i \in Nat
    BY DEF IInv, TypeOK
  <2>4. i < spot[c] \/ i = spot[c]
    BY <1>4, <2>1, <2>3
  <2>5. QED
    BY <1>1, <2>2, <2>4 DEF IInv, PoolSane
<1>6. /\ workers' \in Seq(Worker) /\ spot' \in [Caller -> Nat]
      /\ awaits' \in [Caller -> Worker \cup {NoWorker}] /\ emptied' \subseteq Caller
      /\ PoolSane'
  BY <1>1, <1>2, <1>4, <1>5, ListSteps
<1>7. TypeOK'
  BY <1>1, <1>6 DEF IInv, TypeOK, jobVars, queueVars
<1>8. NoOversleep'
  BY <1>1, <1>2 DEF IInv, NoOversleep, queueVars
<1>9. QED
  BY <1>3, <1>6, <1>7, <1>8 DEF IInv, Records

\* A worker that is not in a handler goes to ph, not into one either.
LEMMA IdleMove ==
    ASSUME TypeOK, NEW w \in Worker, phase[w] \in {"ready", "sleeping"},
           NEW ph \in {"ready", "sleeping", "dead"}, phase' = [phase EXCEPT ![w] = ph]
    PROVE  /\ phase' \in [Worker -> Phase]
           /\ Busy' = Busy
           /\ Sleeping' = IF ph = "sleeping" THEN Sleeping \cup {w} ELSE Sleeping \ {w}
           /\ \A v \in Worker : phase'[v] \notin {"off", "dead"} => phase[v] \notin {"off", "dead"}
           /\ \A v \in Worker : phase[v] = "dead" => phase'[v] = "dead"
BY DEF TypeOK, Phase, Busy, Sleeping

LEMMA LeaveStep == ASSUME IInv, NEW w \in Worker, Leave(w) PROVE IInv'
<1> USE DEF Leave, Dies, jobVars, queueVars
<1>1. phase' \in [Worker -> Phase] /\ Busy' = Busy /\ Sleeping' = Sleeping \ {w} /\ Unstirred
  BY IdleMove DEF IInv, Unstirred
<1>2. Records'
  BY <1>1, RecordsKept DEF Aside
<1>3. TypeOK' /\ NoOversleep'
  <2>1. wakeAt' \in [Worker -> Nat] /\ \A v \in Worker \ {w} : wakeAt'[v] = wakeAt[v]
    BY DEF IInv, TypeOK
  <2>2. TypeOK'
    BY <1>1, <2>1 DEF IInv, TypeOK, poolVars, stopVars, Unstirred
  <2>3. QED
    BY <1>1, <2>1, <2>2 DEF IInv, NoOversleep, Sleeping
<1>4. PoolSane'
  BY <1>1, PoolKept
<1>5. QED
  BY <1>2, <1>3, <1>4 DEF IInv, Records

LEMMA SleepStep == ASSUME IInv, NEW w \in Worker, Sleep(w) PROVE IInv'
<1> USE DEF Sleep, jobVars
<1>1. phase' \in [Worker -> Phase] /\ Busy' = Busy /\ Sleeping' = Sleeping \cup {w} /\ Unstirred
  BY IdleMove DEF IInv, Unstirred
<1>2. Records'
  BY <1>1, RecordsKept DEF Aside, queueVars
<1>3. wakeAt' \in [Worker -> Nat] /\ \A v \in Worker \ {w} : wakeAt'[v] = wakeAt[v]
  <2>1. CASE schedule = {} /\ wakeAt' = [wakeAt EXCEPT ![w] = now + PollTicks]
    <3>1. now + PollTicks \in Nat
      BY TickTypes DEF IInv, TypeOK
    <3>2. QED
      BY <2>1, <3>1 DEF IInv, TypeOK
  <2>2. CASE \E e \in Heads : wakeAt' = [wakeAt EXCEPT ![w] = e.at]
    <3>1. \A e \in Heads : e.at \in Nat
      BY TickTypes DEF IInv, TypeOK, Heads, Entry
    <3>2. QED
      BY <2>2, <3>1 DEF IInv, TypeOK
  <2>3. QED
    BY <2>1, <2>2
<1>4. TypeOK'
  BY <1>1, <1>3 DEF IInv, TypeOK, queueVars, poolVars, stopVars
<1>5. \A e \in schedule : wakeAt'[w] <= e.at
  <2>1. \A e \in Heads, f \in schedule : e.at <= f.at
    <3>1. \A e \in schedule : e.at \in Nat
      BY TickTypes DEF IInv, TypeOK, Entry
    <3>2. \A e \in Heads, f \in schedule : e \in schedule /\ (e.at < f.at \/ e.at = f.at)
      BY DEF Heads, Before
    <3>3. QED
      BY <3>1, <3>2
  <2>2. QED
    BY <2>1 DEF IInv, TypeOK
<1>6. NoOversleep'
  BY <1>1, <1>3, <1>5 DEF IInv, NoOversleep, queueVars, Sleeping
<1>7. PoolSane'
  BY <1>1, PoolKept
<1>8. QED
  BY <1>2, <1>4, <1>6, <1>7 DEF IInv, Records

LEMMA TimesOutStep == ASSUME IInv, NEW w \in Worker, TimesOut(w) PROVE IInv'
<1> USE DEF TimesOut, jobVars, queueVars
<1>1. phase' \in [Worker -> Phase] /\ Busy' = Busy /\ Sleeping' = Sleeping \ {w} /\ Unstirred
  BY IdleMove DEF IInv, Unstirred
<1>2. Records'
  BY <1>1, RecordsKept DEF Aside
<1>3. TypeOK' /\ NoOversleep'
  <2>1. wakeAt' \in [Worker -> Nat] /\ \A v \in Worker \ {w} : wakeAt'[v] = wakeAt[v]
    BY DEF IInv, TypeOK
  <2>2. TypeOK'
    BY <1>1, <2>1 DEF IInv, TypeOK, poolVars, stopVars, Unstirred
  <2>3. QED
    BY <1>1, <2>1, <2>2 DEF IInv, NoOversleep, Sleeping
<1>4. PoolSane'
  BY <1>1, PoolKept
<1>5. QED
  BY <1>2, <1>3, <1>4 DEF IInv, Records

LEMMA CallAgainStep == ASSUME IInv, NEW w \in Worker, CallAgain(w) PROVE IInv'
<1> USE DEF CallAgain, jobVars, queueVars
<1>1. phase \in [Worker -> Phase] /\ phase' = [phase EXCEPT ![w] = "recalling"]
  BY DEF IInv, TypeOK
<1>2. phase' \in [Worker -> Phase] /\ Busy' = Busy /\ Sleeping' = Sleeping
  BY <1>1 DEF Phase, Busy, Sleeping
<1>3. Records'
  BY <1>2, RecordsKept DEF Aside
<1>4. TypeOK' /\ NoOversleep'
  BY <1>2 DEF IInv, TypeOK, NoOversleep, poolVars, stopVars
<1>5. PoolSane'
  BY <1>1, PoolKept DEF Unstirred
<1>6. QED
  BY <1>3, <1>4, <1>5 DEF IInv, Records

LEMMA SwallowStep == ASSUME IInv, NEW w \in Worker, Swallow(w) PROVE IInv'
<1> USE DEF Swallow, jobVars, queueVars
<1>1. Busy' = Busy /\ Sleeping' = Sleeping /\ Unstirred
  BY DEF Busy, Sleeping, Unstirred
<1>2. Records'
  BY <1>1, RecordsKept DEF Aside
<1>3. TypeOK' /\ NoOversleep' /\ PoolSane'
  BY <1>1, PoolKept DEF IInv, TypeOK, NoOversleep, poolVars, stopVars
<1>4. QED
  BY <1>2, <1>3 DEF IInv, Records

-----------------------------------------------------------------------------
(* Steps on the records.                                                   *)

\* What is inserted is an entry, and nothing else is.
LEMMA ScheduleFacts ==
    ASSUME TypeOK, NEW j \in Job, NEW at \in 0..Horizon, Schedule(j, at)
    PROVE  /\ schedule' \subseteq Entry
           /\ seq' \in Nat
           /\ \E f : f.job = j /\ schedule' = schedule \cup {f}
<1> DEFINE f == [at |-> at, seq |-> seq + 1, job |-> j]
<1>1. seq + 1 \in Nat \ {0}
  BY DEF TypeOK
<1>2. f \in Entry /\ f.job = j
  BY <1>1 DEF Entry
<1>3. schedule' = schedule \cup {f} /\ seq' \in Nat
  BY <1>1 DEF Schedule
<1>4. QED
  BY <1>2, <1>3 DEF TypeOK

LEMMA EnqueueStep ==
    ASSUME IInv, NEW j \in Job, NEW k \in Key \cup {NoKey}, NEW at \in 0..Horizon,
           Enqueue(j, k, at)
    PROVE  IInv'
<1>1. PICK f : f.job = j /\ schedule' = schedule \cup {f}
  BY ScheduleFacts DEF IInv, Enqueue
<1>2. Busy' = Busy /\ Sleeping' = {}
  BY WokenFacts DEF Busy, Sleeping, IInv, Enqueue
<1>3. TypeOK'
  <2>1. phase' \in [Worker -> Phase] /\ schedule' \subseteq Entry /\ seq' \in Nat
    BY WokenFacts, ScheduleFacts DEF IInv, Enqueue
  <2>2. /\ status' \in [Job -> Status]
        /\ key' \in [Job -> Key \cup {NoKey}]
        /\ idempotency' \in [Key -> Job \cup {NoJob}]
    BY DEF IInv, Enqueue, TypeOK, Status
  <2>3. QED
    BY <2>1, <2>2 DEF IInv, Enqueue, TypeOK, poolVars, stopVars, Awake
<1>4. Holding'
  BY <1>2 DEF IInv, Holding, Enqueue
<1>5. ScheduleTellsStatus'
  <2>1. /\ status[j] = "none" /\ status'[j] = "queued"
        /\ \A i \in Job \ {j} : status'[i] = status[i]
    BY DEF Enqueue, IInv, TypeOK
  <2>2. \A e \in schedule : e.job \in Job /\ e.job # j
    BY <2>1 DEF IInv, ScheduleTellsStatus, TypeOK, Entry
  <2>3. QED
    BY <1>1, <2>1, <2>2 DEF IInv, ScheduleTellsStatus
<1>6. HeldOnce'
  BY <1>2 DEF IInv, HeldOnce, Enqueue, TypeOK
<1>7. ActiveCountsBusy'
  BY <1>2 DEF IInv, ActiveCountsBusy, Enqueue
<1>8. NoOversleep'
  BY <1>2 DEF NoOversleep
<1>9. Budget'
  <2>1. attempts' = attempts /\ attempts[j] = 0 /\ MaxRetries[j] \in Nat
    BY DEF IInv, Budget, Enqueue
  <2>2. /\ status'[j] = "queued" /\ \A i \in Job \ {j} : status'[i] = status[i]
    BY DEF Enqueue, IInv, TypeOK
  <2>3. QED
    BY <2>1, <2>2 DEF IInv, Budget, RetryBudget
<1>10. Keys'
  <2>1. /\ key[j] = NoKey /\ status'[j] = "queued"
        /\ \A i \in Job \ {j} : status'[i] = status[i] /\ key'[i] = key[i]
        /\ key'[j] = k
    BY DEF Enqueue, IInv, TypeOK, Keys
  <2>2. \A i \in Job : status'[i] = "none" => key'[i] = NoKey
    BY <2>1 DEF IInv, Keys
  <2>3. CASE k \in Key
    <3>1. /\ idempotency[k] = NoJob /\ idempotency'[k] = j
          /\ \A l \in Key \ {k} : idempotency'[l] = idempotency[l]
      BY <2>3 DEF Enqueue, IInv, TypeOK
    <3>2. \A i \in Job \ {j} : key'[i] \in Key => key'[i] # k
      BY <2>1, <3>1 DEF IInv, Keys, KeyNamesJob
    <3>3. \A l \in Key \ {k} : idempotency[l] # j
      BY <2>1 DEF IInv, Keys, KeyNamesJob
    <3>4. QED
      BY <2>1, <2>2, <3>1, <3>2, <3>3 DEF IInv, Keys, KeyNamesJob
  <2>4. CASE k = NoKey
    <3>1. idempotency' = idempotency
      BY <2>4 DEF Enqueue
    <3>2. \A l \in Key : idempotency[l] # j
      BY <2>1 DEF IInv, Keys, KeyNamesJob
    <3>3. QED
      BY <2>1, <2>2, <2>4, <3>1, <3>2 DEF IInv, Keys, KeyNamesJob
  <2>5. QED
    BY <2>3, <2>4
<1>11. PoolSane'
  <2>1. \A w \in Worker : phase'[w] = phase[w] \/ (phase[w] = "sleeping" /\ phase'[w] = "ready")
    BY WokenFacts DEF IInv, Enqueue
  <2>2. Unstirred
    BY <2>1 DEF Unstirred, Enqueue
  <2>3. QED
    BY <2>2, PoolKept
<1>12. QED
  BY <1>3, <1>4, <1>5, <1>6, <1>7, <1>8, <1>9, <1>10, <1>11 DEF IInv

LEMMA TakeStep == ASSUME IInv, NEW w \in Worker, Take(w) PROVE IInv'
<1> DEFINE j(e) == e.job
<1>1. PICK e \in Heads :
        /\ schedule' = schedule \ {e}
        /\ hold' = [hold EXCEPT ![w] = j(e)]
        /\ status' = [status EXCEPT ![j(e)] = "running"]
        /\ attempts' = [attempts EXCEPT ![j(e)] = @ + 1]
  BY DEF Take
<1>2. e \in schedule /\ j(e) \in Job /\ status[j(e)] = "queued"
  BY DEF Heads, IInv, TypeOK, Entry, ScheduleTellsStatus
<1>3. /\ phase' = [phase EXCEPT ![w] = "calling"] /\ phase[w] = "ready"
      /\ phase \in [Worker -> Phase]
  BY DEF Take, IInv, TypeOK
<1>4. Busy' = Busy \cup {w} /\ w \notin Busy /\ Sleeping' = Sleeping
  BY <1>3 DEF Busy, Sleeping
<1>5. UNCHANGED <<now, key, deserted, idempotency, seq, wakeAt, cancelled, poolVars>>
  BY DEF Take
<1>6. /\ status'[j(e)] = "running" /\ hold'[w] = j(e)
      /\ \A i \in Job \ {j(e)} : status'[i] = status[i] /\ attempts'[i] = attempts[i]
      /\ \A v \in Worker \ {w} : hold'[v] = hold[v]
      /\ attempts'[j(e)] = attempts[j(e)] + 1
  BY <1>1, <1>2 DEF IInv, TypeOK
<1>7. TypeOK'
  <2>1. attempts[j(e)] + 1 \in Nat /\ active + 1 \in Nat
    BY <1>2, SMTT(60) DEF IInv, TypeOK
  <2>2. attempts' \in [Job -> Nat] /\ active' \in Nat
    BY <1>1, <1>2, <2>1 DEF IInv, TypeOK, Take
  <2>3. /\ status' \in [Job -> Status] /\ hold' \in [Worker -> Job \cup {NoJob}]
        /\ schedule' \subseteq Entry /\ phase' \in [Worker -> Phase]
    BY <1>1, <1>2, <1>3 DEF IInv, TypeOK, Status, Phase
  <2>4. QED
    BY <1>5, <2>2, <2>3 DEF IInv, TypeOK, poolVars, stopVars
<1>8. Holding'
  BY <1>2, <1>4, <1>6 DEF IInv, Holding
<1>9. ScheduleTellsStatus'
  BY <1>1, <1>2, <1>6, SMTT(60) DEF IInv, ScheduleTellsStatus, TypeOK, Entry
<1>10. HeldOnce'
  <2>1. \A v \in Busy : v \in Worker /\ hold[v] # j(e)
    BY <1>2 DEF IInv, HeldOnce, Busy
  <2>2. QED
    BY <1>2, <1>4, <1>6, <2>1 DEF IInv, HeldOnce
<1>11. ActiveCountsBusy'
  <2>1. Cardinality(Busy') = Cardinality(Busy) + 1
    BY <1>4, BusyFinite, FS_AddElement
  <2>2. QED
    BY <2>1 DEF IInv, ActiveCountsBusy, Take
<1>12. NoOversleep'
  BY <1>1, <1>4, <1>5 DEF IInv, NoOversleep
<1>13. Budget'
  <2>1. attempts[j(e)] <= MaxRetries[j(e)] /\ MaxRetries[j(e)] \in Nat /\ attempts[j(e)] \in Nat
    BY <1>2 DEF IInv, Budget, RetryBudget, TypeOK
  <2>2. attempts'[j(e)] <= MaxRetries[j(e)] + 1
    BY <1>6, <2>1
  <2>3. QED
    BY <1>6, <2>2 DEF IInv, Budget, RetryBudget
<1>14. Keys'
  BY <1>2, <1>5, <1>6 DEF IInv, Keys, KeyNamesJob
<1>15. PoolSane'
  BY <1>3, <1>5, PoolKept DEF Unstirred
<1>16. QED
  BY <1>7, <1>8, <1>9, <1>10, <1>11, <1>12, <1>13, <1>14, <1>15 DEF IInv

-----------------------------------------------------------------------------
(* Steps that end an attempt.                                              *)

\* The holder w lets go of its job.
LetsGo(w) ==
    /\ w \in Busy
    /\ Busy' = Busy \ {w}
    /\ hold' = [hold EXCEPT ![w] = NoJob]
    /\ active' = IF active > 0 THEN active - 1 ELSE 0

LEMMA LetGo ==
    ASSUME IInv, NEW w \in Worker, LetsGo(w)
    PROVE  /\ hold[w] \in Job /\ status[hold[w]] = "running"
           /\ \A v \in Busy' : v \in Worker /\ hold'[v] = hold[v] /\ hold[v] # hold[w]
           /\ hold' \in [Worker -> Job \cup {NoJob}]
           /\ active' \in Nat
           /\ Holding'
           /\ ActiveCountsBusy'
<1>1. hold[w] \in Job /\ status[hold[w]] = "running"
  BY DEF LetsGo, IInv, HeldOnce
<1>2. \A v \in Busy' : v \in Worker /\ hold'[v] = hold[v] /\ hold[v] # hold[w]
  BY DEF LetsGo, IInv, HeldOnce, Busy, TypeOK
<1>3. hold' \in [Worker -> Job \cup {NoJob}]
  BY DEF LetsGo, IInv, TypeOK
<1>4. Holding'
  BY DEF LetsGo, IInv, Holding, TypeOK
<1>5. Cardinality(Busy') = Cardinality(Busy) - 1 /\ Cardinality(Busy') \in Nat
  <2>1. IsFiniteSet(Busy) /\ w \in Busy
    BY BusyFinite DEF LetsGo
  <2>2. IsFiniteSet(Busy \ {w}) /\ Cardinality(Busy \ {w}) = Cardinality(Busy) - 1
    BY <2>1, FS_RemoveElement
  <2>3. QED
    BY <2>2, FS_CardinalityType DEF LetsGo
<1>6. active = Cardinality(Busy) /\ active \in Nat
  BY DEF IInv, ActiveCountsBusy, TypeOK
<1>7. active' = Cardinality(Busy')
  BY <1>5, <1>6 DEF LetsGo
<1>8. QED
  BY <1>1, <1>2, <1>3, <1>4, <1>5, <1>7 DEF ActiveCountsBusy

\* What Puts does, whatever becomes of the schedule.
LEMMA PutsFacts ==
    ASSUME IInv, NEW w \in Worker, NEW st \in {"succeeded", "queued", "failed"},
           NEW ph \in {phase, Woken(phase)}, Puts(w, st, ph)
    PROVE  /\ LetsGo(w)
           /\ phase' \in [Worker -> Phase]
           /\ Sleeping' \subseteq Sleeping
           /\ ph = Woken(phase) => Sleeping' = {}
           /\ status' \in [Job -> Status]
           /\ status'[hold[w]] = st
           /\ \A i \in Job \ {hold[w]} : status'[i] = status[i]
           /\ UNCHANGED <<now, attempts, key, deserted, idempotency, cancelled, poolVars>>
           /\ wakeAt' \in [Worker -> Nat] /\ \A v \in Sleeping' : wakeAt'[v] = wakeAt[v]
           /\ HeldOnce'
           /\ PoolSane'
<1>1. /\ phase \in [Worker -> Phase] /\ ph \in [Worker -> Phase]
      /\ \A v \in Worker : ph[v] = phase[v] \/ (phase[v] = "sleeping" /\ ph[v] = "ready")
      /\ ph = Woken(phase) => \A v \in Worker : ph[v] # "sleeping"
  BY WokenFacts DEF IInv, TypeOK
<1>2. w \in Busy /\ phase' = [ph EXCEPT ![w] = "ready"]
  BY DEF Puts
<1>3. phase' \in [Worker -> Phase]
  BY <1>1, <1>2 DEF Phase
<1>4. Busy' = Busy \ {w}
  BY <1>1, <1>2 DEF Busy
<1>5. Sleeping' \subseteq Sleeping /\ (ph = Woken(phase) => Sleeping' = {})
  BY <1>1, <1>2 DEF Sleeping
<1>6. LetsGo(w)
  BY <1>4 DEF LetsGo, Puts
<1>7. hold[w] \in Job
  BY <1>6, LetGo
<1>8. /\ status' \in [Job -> Status] /\ status'[hold[w]] = st
      /\ \A i \in Job \ {hold[w]} : status'[i] = status[i]
  BY <1>7 DEF Puts, IInv, TypeOK, Status, Terminal
<1>9. UNCHANGED <<now, attempts, key, deserted, idempotency, cancelled, poolVars>>
  BY DEF Puts
<1>10. HeldOnce'
  BY <1>4, <1>6, <1>8, LetGo DEF IInv, HeldOnce
<1>11. PoolSane'
  <2>1. Unstirred
    BY <1>1, <1>2, <1>9 DEF Unstirred, Busy
  <2>2. QED
    BY <2>1, PoolKept
<1>12. wakeAt' \in [Worker -> Nat] /\ \A v \in Sleeping' : wakeAt'[v] = wakeAt[v]
  <2>1. CASE ph = phase
    BY <2>1 DEF Puts, IInv, TypeOK
  <2>2. CASE ph # phase
    <3>1. wakeAt' = Awake /\ Sleeping' = {}
      BY <1>5, <2>2 DEF Puts
    <3>2. QED
      BY <3>1 DEF Awake
  <2>3. QED
    BY <2>1, <2>2
<1>13. QED
  BY <1>3, <1>5, <1>6, <1>8, <1>9, <1>10, <1>11, <1>12

\* An attempt ends for good, with the budget used up if it failed.
LEMMA SettleStep ==
    ASSUME IInv, NEW w \in Worker, NEW st \in Terminal, Puts(w, st, phase),
           st = "failed" => attempts[hold[w]] > MaxRetries[hold[w]],
           UNCHANGED <<schedule, seq>>
    PROVE  IInv'
<1> DEFINE i == hold[w]
<1>1. /\ LetsGo(w) /\ HeldOnce' /\ PoolSane'
      /\ phase' \in [Worker -> Phase] /\ Sleeping' \subseteq Sleeping
      /\ status' \in [Job -> Status] /\ status'[i] = st
      /\ \A j \in Job \ {i} : status'[j] = status[j]
      /\ UNCHANGED <<now, attempts, key, deserted, idempotency, cancelled, poolVars>>
      /\ wakeAt' \in [Worker -> Nat] /\ \A v \in Sleeping' : wakeAt'[v] = wakeAt[v]
  BY PutsFacts DEF Terminal
<1>2. i \in Job /\ status[i] = "running" /\ Holding' /\ ActiveCountsBusy'
  BY <1>1, LetGo
<1>3. TypeOK'
  BY <1>1, LetGo DEF IInv, TypeOK, poolVars, stopVars
<1>4. ScheduleTellsStatus'
  BY <1>1, <1>2, ZenonT(60) DEF IInv, ScheduleTellsStatus, TypeOK, Entry, Terminal
<1>5. NoOversleep'
  BY <1>1 DEF IInv, NoOversleep
<1>6. Budget'
  <2>1. /\ attempts[i] \in Nat /\ MaxRetries[i] \in Nat /\ attempts[i] <= MaxRetries[i] + 1
    BY <1>2 DEF IInv, TypeOK, Budget, RetryBudget
  <2>2. st = "failed" => attempts[i] = MaxRetries[i] + 1
    BY <2>1
  <2>3. QED
    BY <1>1, <1>2, <2>1, <2>2 DEF IInv, Budget, RetryBudget, Terminal
<1>7. Keys'
  BY <1>1, <1>2 DEF IInv, Keys, KeyNamesJob, Terminal
<1>8. QED
  BY <1>1, <1>2, <1>3, <1>4, <1>5, <1>6, <1>7 DEF IInv

LEMMA RetryStep == ASSUME IInv, NEW w \in Worker, Retry(w) PROVE IInv'
<1> DEFINE i == hold[w]
<1>1. /\ LetsGo(w) /\ HeldOnce' /\ PoolSane'
      /\ phase' \in [Worker -> Phase] /\ Sleeping' = {}
      /\ status' \in [Job -> Status] /\ status'[i] = "queued"
      /\ \A j \in Job \ {i} : status'[j] = status[j]
      /\ UNCHANGED <<now, attempts, key, deserted, idempotency, cancelled, poolVars>>
      /\ wakeAt' \in [Worker -> Nat] /\ \A v \in Sleeping' : wakeAt'[v] = wakeAt[v]
  BY PutsFacts DEF Retry
<1>2. i \in Job /\ status[i] = "running" /\ Holding' /\ ActiveCountsBusy'
  BY <1>1, LetGo
<1>3. PICK t \in RetryTimes(attempts[i]) : Schedule(i, t)
  BY DEF Retry
<1>4. t \in 0..Horizon
  BY <1>3, TickTypes DEF RetryTimes, IInv, TypeOK
<1>5. /\ schedule' \subseteq Entry /\ seq' \in Nat
      /\ \E f : f.job = i /\ schedule' = schedule \cup {f}
  BY <1>2, <1>3, <1>4, ScheduleFacts DEF IInv
<1>6. PICK f : f.job = i /\ schedule' = schedule \cup {f}
  BY <1>5
<1>7. TypeOK'
  BY <1>1, <1>5, LetGo DEF IInv, TypeOK, poolVars, stopVars
<1>8. ScheduleTellsStatus'
  <2>1. \A e \in schedule : e.job \in Job /\ e.job # i
    BY <1>2 DEF IInv, ScheduleTellsStatus, TypeOK, Entry
  <2>2. QED
    BY <1>1, <1>2, <1>6, <2>1 DEF IInv, ScheduleTellsStatus
<1>9. NoOversleep'
  BY <1>1 DEF NoOversleep
<1>10. Budget'
  <2>1. attempts[i] <= MaxRetries[i]
    BY DEF Retry
  <2>2. QED
    BY <1>1, <1>2, <2>1 DEF IInv, Budget, RetryBudget
<1>11. Keys'
  BY <1>1, <1>2 DEF IInv, Keys, KeyNamesJob
<1>12. QED
  BY <1>1, <1>2, <1>7, <1>8, <1>9, <1>10, <1>11 DEF IInv

LEMMA AbandonStep == ASSUME IInv, NEW w \in Worker, Abandon(w) PROVE IInv'
<1>1. /\ phase \in [Worker -> Phase] /\ phase' = [phase EXCEPT ![w] = "dead"] /\ w \in Busy
      /\ UNCHANGED <<now, status, attempts, key, idempotency, schedule, seq,
                     wakeAt, poolVars>>
  BY DEF Abandon, IInv, TypeOK
<1>2. phase' \in [Worker -> Phase] /\ Busy' = Busy \ {w} /\ Sleeping' = Sleeping
  BY <1>1 DEF Phase, Busy, Sleeping
<1>3. LetsGo(w)
  BY <1>2 DEF LetsGo, Abandon
<1>4. Holding' /\ ActiveCountsBusy'
  BY <1>3, LetGo
<1>5. TypeOK'
  <2>1. cancelled' \subseteq Worker /\ deserted' \subseteq Job
    BY <1>3, LetGo DEF Abandon, IInv, TypeOK
  <2>2. QED
    BY <1>1, <1>2, <1>3, <2>1, LetGo, SMTT(60) DEF IInv, TypeOK, poolVars, stopVars
<1>6. HeldOnce'
  BY <1>1, <1>2, <1>3, LetGo DEF IInv, HeldOnce
<1>7. ScheduleTellsStatus' /\ NoOversleep' /\ Budget' /\ Keys'
  BY <1>1, <1>2 DEF IInv, ScheduleTellsStatus, NoOversleep, Budget, RetryBudget, Keys, KeyNamesJob
<1>8. PoolSane'
  BY <1>1, PoolKept DEF Unstirred, Busy
<1>9. QED
  BY <1>4, <1>5, <1>6, <1>7, <1>8 DEF IInv

-----------------------------------------------------------------------------
(* The theorems.                                                           *)

LEMMA WorkerPreserves == ASSUME IInv, NEW w \in Worker, WorkerStep(w) PROVE IInv'
<1>1. CASE Leave(w) \/ Sleep(w) \/ TimesOut(w) \/ CallAgain(w) \/ Swallow(w)
  BY <1>1, LeaveStep, SleepStep, TimesOutStep, CallAgainStep, SwallowStep
<1>2. CASE Take(w) \/ Retry(w) \/ Abandon(w)
  BY <1>2, TakeStep, RetryStep, AbandonStep
<1>3. CASE Succeed(w)
  BY <1>3, SettleStep DEF Succeed, Terminal
<1>4. CASE Fail(w)
  BY <1>4, SettleStep DEF Fail, Terminal
<1>5. QED
  BY <1>1, <1>2, <1>3, <1>4 DEF WorkerStep, HandlerEnds

\* Every step of the queue, of a caller or of the clock keeps the invariant.
THEOREM Inductive == Spec => []IInv
<1>1. IInv /\ [Next]_vars => IInv'
  <2> SUFFICES ASSUME IInv, [Next]_vars PROVE IInv'
    OBVIOUS
  <2>1. CASE Tick \/ \E c \in Caller : StopBegins(c) \/ StopResumes(c)
    BY <2>1, TickStep, StopBeginsStep, StopResumesStep
  <2>2. CASE \E j \in Job, k \in Key \cup {NoKey}, at \in 0..Horizon : Enqueue(j, k, at)
    BY <2>2, EnqueueStep
  <2>3. CASE \E n \in Worker : Start(n)
    BY <2>3, StartStep
  <2>4. CASE \E w \in Worker : WorkerStep(w)
    BY <2>4, WorkerPreserves
  <2>5. CASE UNCHANGED vars
    <3>1. Busy' = Busy /\ Sleeping' = Sleeping /\ Unstirred
      BY <2>5 DEF vars, workerVars, Busy, Sleeping, Unstirred
    <3>2. Records'
      BY <2>5, <3>1, RecordsKept DEF Aside, vars, jobVars, queueVars, workerVars
    <3>3. TypeOK' /\ NoOversleep' /\ PoolSane'
      BY <2>5, <3>1, PoolKept DEF IInv, TypeOK, NoOversleep, vars, jobVars, queueVars, workerVars, poolVars, stopVars
    <3>4. QED
      BY <3>2, <3>3 DEF IInv, Records
  <2>6. QED
    BY <2>1, <2>2, <2>3, <2>4, <2>5 DEF Next
<1>2. QED
  BY <1>1, InitEstablishes, PTL DEF Spec

\* The variables of InMemoryJobQueue keep their types.
THEOREM TypeCorrect == Spec => []TypeOK
BY Inductive, PTL DEF IInv

\* jobs.py:128-134, 174-221: a job is scheduled once exactly while it is queued.
THEOREM ScheduleIsTrue == Spec => []ScheduleTellsStatus
BY Inductive, PTL DEF IInv

\* jobs.py:178-200: no two workers run one job.
THEOREM NeverRunTwice == Spec => []HeldOnce
BY Inductive, PTL DEF IInv

\* jobs.py:186, 219-221: the counter join() reads is exact.
THEOREM CounterIsExact == Spec => []ActiveCountsBusy
BY Inductive, PTL DEF IInv

\* Both: the schedule, the records and the counter tell the same story.
THEOREM BooksAlwaysAgree == Spec => []BooksAgree
BY ScheduleIsTrue, CounterIsExact, PTL DEF BooksAgree

\* jobs.py:133-134, 188-193: no sleeper misses a due time.
THEOREM NobodyOversleeps == Spec => []NoOversleep
BY Inductive, PTL DEF IInv

\* jobs.py:200, 207: max_retries bounds the attempts.
THEOREM AttemptsAreBounded == Spec => []RetryBudget
<1>1. IInv => RetryBudget
  BY DEF IInv, Budget
<1>2. QED
  BY <1>1, Inductive, PTL

\* jobs.py:107-124: an idempotency key names the one job that bears it.
THEOREM KeysAreUnique == Spec => []KeyNamesJob
<1>1. IInv => KeyNamesJob
  BY DEF IInv, Keys
<1>2. QED
  BY <1>1, Inductive, PTL

\* jobs.py:136-154: however many stop() calls overlap, and start() with them:
\* once all have returned and the queue is stopped, no worker is left but those
\* started between the clearing of the list by one call and the end of another.
THEOREM StoppedIsQuiet == Spec => []QuietWhenStopped
<1>1. IInv => QuietWhenStopped
  <2> SUFFICES ASSUME IInv, ~running, Stopping = {} PROVE Alive \subseteq astray
    BY DEF QuietWhenStopped
  <2>1. Sound = {}
    BY DEF Sound
  <2>2. QED
    BY <2>1 DEF IInv, PoolSane
<1>2. QED
  BY <1>1, Inductive, PTL

-----------------------------------------------------------------------------
(* join().                                                                 *)

\* Only tasks that did not exist yet are started.
LEMMA StartWakes ==
    ASSUME IInv, NEW n \in Worker, Start(n)
    PROVE  Busy' = Busy /\ UNCHANGED <<hold, status, attempts, idempotency, deserted>>
<1>1. \A i \in 1..n : phase[Cardinality(Created) + i] = "off"
  BY DEF Start, Created
<1>2. \A w \in Worker : phase'[w] = phase[w] \/ (phase[w] = "off" /\ phase'[w] = "ready")
  BY <1>1 DEF Start
<1>3. QED
  BY <1>2 DEF Busy, Start, jobVars, queueVars

\* A record that says "running" has its worker, or has been deserted by it.
Attended == \A j \in Job \ deserted : status[j] = "running" => \E w \in Busy : hold[w] = j

LEMMA AttendedKept ==
    ASSUME IInv, Attended, [Next]_vars
    PROVE  Attended'
<1>1. CASE \E j \in Job, k \in Key \cup {NoKey}, at \in 0..Horizon : Enqueue(j, k, at)
  <2>1. Busy' = Busy
    BY <1>1, WokenFacts DEF Busy, IInv, Enqueue
  <2>2. QED
    BY <1>1, <2>1 DEF Attended, Enqueue, IInv, TypeOK
<1>2. CASE (\E c \in Caller : StopBegins(c)) \/ \E n \in Worker : Start(n)
  <2>1. Busy \subseteq Busy'
    BY <1>2, WokenFacts, StartWakes DEF Busy, StopBegins, IInv, TypeOK
  <2>2. QED
    BY <1>2, <2>1 DEF Attended, StopBegins, Start, jobVars
<1>3. CASE Tick \/ (\E c \in Caller : StopResumes(c)) \/ UNCHANGED vars
  BY <1>3 DEF Attended, Busy, Tick, StopResumes, vars, jobVars, workerVars
<1>4. ASSUME NEW w \in Worker, WorkerStep(w) PROVE Attended'
  <2>1. CASE Leave(w) \/ Sleep(w) \/ TimesOut(w) \/ CallAgain(w) \/ Swallow(w)
    <3>1. deserted' = deserted /\ status' = status /\ hold' = hold
      BY <2>1 DEF Leave, Dies, Sleep, TimesOut, CallAgain, Swallow, jobVars
    <3>2. Busy \subseteq Busy'
      BY <2>1 DEF Busy, Leave, Dies, Sleep, TimesOut, CallAgain, Swallow, IInv, TypeOK
    <3>3. QED
      BY <3>1, <3>2 DEF Attended
  <2>2. CASE Take(w)
    <3>1. PICK e \in Heads : /\ hold' = [hold EXCEPT ![w] = e.job]
                             /\ status' = [status EXCEPT ![e.job] = "running"]
      BY <2>2 DEF Take
    <3>2. Busy' = Busy \cup {w} /\ w \notin Busy /\ deserted' = deserted
      BY <2>2 DEF Take, Busy, IInv, TypeOK
    <3>3. e.job \in Job
      BY DEF Heads, IInv, TypeOK, Entry
    <3>4. \A v \in Busy : hold'[v] = hold[v]
      BY <3>1, <3>2 DEF IInv, TypeOK, Busy
    <3>5. hold'[w] = e.job
      BY <3>1 DEF IInv, TypeOK
    <3>6. QED
      BY <3>1, <3>2, <3>3, <3>4, <3>5 DEF Attended, IInv, TypeOK
  <2>3. ASSUME NEW st \in {"succeeded", "queued", "failed"}, NEW ph \in {phase, Woken(phase)},
               Puts(w, st, ph)
        PROVE  Attended'
    <3>1. /\ LetsGo(w) /\ status'[hold[w]] = st /\ deserted' = deserted
          /\ \A i \in Job \ {hold[w]} : status'[i] = status[i]
      BY <2>3, PutsFacts
    <3>2. \A v \in Busy' : hold'[v] = hold[v]
      BY <3>1, LetGo
    <3>3. QED
      BY <3>1, <3>2 DEF Attended, LetsGo
  <2>4. CASE Succeed(w) \/ Retry(w) \/ Fail(w)
    BY <2>3, <2>4 DEF Succeed, Retry, Fail
  <2>5. CASE Abandon(w)
    <3>1. Busy' = Busy \ {w}
      BY <2>5 DEF Abandon, Busy, IInv, TypeOK
    <3>2. LetsGo(w) /\ status' = status /\ deserted' = deserted \cup {hold[w]}
      BY <2>5, <3>1 DEF Abandon, LetsGo
    <3>3. \A v \in Busy' : hold'[v] = hold[v]
      BY <3>2, LetGo
    <3>4. QED
      BY <3>1, <3>2, <3>3 DEF Attended
  <2>6. QED
    BY <1>4, <2>1, <2>2, <2>4, <2>5 DEF WorkerStep, HandlerEnds
<1>5. QED
  BY <1>1, <1>2, <1>3, <1>4 DEF Next

\* jobs.py:156-162: join() returns only when every job enqueued is settled or
\* was deserted by a cancelled worker.
THEOREM JoinIsSound == Spec => []JoinSound
<1>1. Init => Attended
  BY DEF Init, Attended
<1>2. IInv /\ Attended => JoinSound
  <2> SUFFICES ASSUME IInv, Attended, schedule = {}, active = 0, NEW j \in Enqueued
               PROVE  status[j] \in Terminal \/ j \in deserted
    BY DEF JoinSound
  <2>1. Busy = {}
    BY BusyFinite, FS_EmptySet DEF IInv, ActiveCountsBusy
  <2>2. (status[j] # "running" \/ j \in deserted) /\ status[j] # "queued"
    BY <2>1 DEF Attended, Enqueued, IInv, ScheduleTellsStatus
  <2>3. QED
    BY <2>2 DEF Enqueued, IInv, TypeOK, Status
<1>3. IInv /\ Attended /\ [Next]_vars => Attended'
  BY AttendedKept
<1>4. QED
  BY <1>1, <1>2, <1>3, Inductive, PTL DEF Spec

\* Both: what join() and stop() tell their callers is so (jobs.py:143-165).
THEOREM CallersAreToldTruth == Spec => []JoinAndStopSound
BY JoinIsSound, StoppedIsQuiet, PTL DEF JoinAndStopSound

-----------------------------------------------------------------------------
(* The queue implements the ledger.                                        *)

InHand == {hold[w] : w \in Busy}

LEMMA HandEmptied ==
    ASSUME IInv, NEW w \in Worker, LetsGo(w)
    PROVE  hold[w] \in InHand /\ InHand' = InHand \ {hold[w]}
<1>1. w \in Busy /\ Busy' = Busy \ {w}
  BY DEF LetsGo
<1>2. \A v \in Busy' : hold'[v] = hold[v] /\ hold[v] # hold[w]
  BY LetGo
<1>3. InHand' = {hold[v] : v \in Busy'}
  BY <1>2 DEF InHand
<1>4. QED
  BY <1>1, <1>2, <1>3 DEF InHand

LEMMA HandKept == ASSUME hold' = hold, Busy' = Busy PROVE InHand' = InHand
BY DEF InHand

\* The end of an attempt is a Settle of the ledger.
LEMMA PutsIsSettle ==
    ASSUME IInv, NEW w \in Worker, NEW st \in {"succeeded", "queued", "failed"},
           NEW ph \in {phase, Woken(phase)}, Puts(w, st, ph),
           st = "queued" => attempts[hold[w]] <= MaxRetries[hold[w]],
           st = "failed" => attempts[hold[w]] > MaxRetries[hold[w]]
    PROVE  Ledger!Next
<1>1. LetsGo(w) /\ attempts' = attempts /\ idempotency' = idempotency
  BY PutsFacts
<1>2. hold[w] \in Job /\ status[hold[w]] = "running"
  BY <1>1, LetGo
<1>3. status' = [status EXCEPT ![hold[w]] = st]
  BY DEF Puts
<1>4. PICK j \in Job : j = hold[w]
  BY <1>2
<1>5. Ledger!Settle(j)
  BY <1>1, <1>2, <1>3, <1>4, HandEmptied DEF Ledger!Settle, InHand
<1>6. QED
  BY <1>5 DEF Ledger!Next

LEMMA LedgerStep ==
    ASSUME IInv, [Next]_vars
    PROVE  [Ledger!Next]_(Ledger!ledger)
<1> DEFINE Still == UNCHANGED <<status, attempts, idempotency, InHand>>
<1>1. Still => UNCHANGED Ledger!ledger
  BY DEF Ledger!ledger, InHand
<1>2. CASE UNCHANGED vars \/ Tick \/ \E c \in Caller : StopResumes(c)
  <2>1. hold' = hold /\ phase' = phase
    BY <1>2 DEF vars, workerVars, Tick, StopResumes
  <2>2. InHand' = InHand
    BY <2>1, HandKept DEF Busy
  <2>3. Still
    BY <1>2, <2>2 DEF vars, jobVars, queueVars, Tick, StopResumes
  <2>4. QED
    BY <1>1, <2>3
<1>3. CASE (\E c \in Caller : StopBegins(c)) \/ \E n \in Worker : Start(n)
  <2>1. Busy' = Busy /\ hold' = hold
    <3>1. CASE \E n \in Worker : Start(n)
      BY <3>1, StartWakes
    <3>2. CASE \E c \in Caller : StopBegins(c)
      BY <3>2, WokenFacts DEF Busy, StopBegins, IInv, TypeOK
    <3>3. QED
      BY <1>3, <3>1, <3>2
  <2>2. InHand' = InHand
    BY <2>1, HandKept
  <2>3. Still
    BY <1>3, <2>2 DEF jobVars, queueVars, StopBegins, Start
  <2>4. QED
    BY <1>1, <2>3
<1>4. ASSUME NEW j \in Job, NEW k \in Key \cup {NoKey}, NEW at \in 0..Horizon, Enqueue(j, k, at)
      PROVE  Ledger!Accept(j, k)
  <2>1. Busy' = Busy /\ hold' = hold
    BY <1>4, WokenFacts DEF Busy, IInv, Enqueue
  <2>2. InHand' = InHand
    BY <2>1, HandKept
  <2>3. QED
    BY <1>4, <2>2 DEF Enqueue, Ledger!Accept, InHand
<1>5. ASSUME NEW w \in Worker, WorkerStep(w)
      PROVE  Ledger!Next \/ Still
  <2>1. CASE Leave(w) \/ Sleep(w) \/ TimesOut(w) \/ CallAgain(w) \/ Swallow(w)
    <3>1. Busy' = Busy
      BY <2>1 DEF Busy, Leave, Dies, Sleep, TimesOut, CallAgain, Swallow, IInv, TypeOK
    <3>2. hold' = hold
      BY <2>1 DEF Leave, Dies, Sleep, TimesOut, CallAgain, Swallow
    <3>3. InHand' = InHand
      BY <3>1, <3>2, HandKept
    <3>4. QED
      BY <2>1, <3>3 DEF Leave, Dies, Sleep, TimesOut, CallAgain, Swallow, jobVars, queueVars
  <2>2. CASE Take(w)
    <3>1. PICK e \in Heads :
            /\ hold' = [hold EXCEPT ![w] = e.job]
            /\ status' = [status EXCEPT ![e.job] = "running"]
            /\ attempts' = [attempts EXCEPT ![e.job] = @ + 1]
      BY <2>2 DEF Take
    <3>2. Busy' = Busy \cup {w} /\ w \notin Busy /\ idempotency' = idempotency
      BY <2>2 DEF Take, Busy, IInv, TypeOK
    <3>3. e.job \in Job /\ status[e.job] = "queued"
      BY DEF Heads, IInv, TypeOK, Entry, ScheduleTellsStatus
    <3>4. \A v \in Busy : hold'[v] = hold[v] /\ hold[v] # e.job
      BY <3>1, <3>2, <3>3 DEF IInv, TypeOK, Busy, HeldOnce
    <3>5. hold'[w] = e.job
      BY <3>1 DEF IInv, TypeOK
    <3>6. InHand' = InHand \cup {e.job} /\ e.job \notin InHand
      BY <3>2, <3>4, <3>5 DEF InHand
    <3>7. attempts[e.job] <= MaxRetries[e.job]
      BY <3>3 DEF IInv, Budget, RetryBudget
    <3>8. Ledger!Try(e.job)
      BY <3>1, <3>2, <3>3, <3>6, <3>7 DEF Ledger!Try, InHand
    <3>9. QED
      BY <3>3, <3>8 DEF Ledger!Next
  <2>3. CASE Succeed(w)
    BY <2>3, PutsIsSettle DEF Succeed
  <2>4. CASE Retry(w)
    BY <2>4, PutsIsSettle DEF Retry
  <2>5. CASE Fail(w)
    BY <2>5, PutsIsSettle DEF Fail
  <2>6. CASE Abandon(w)
    <3>1. Busy' = Busy \ {w}
      BY <2>6 DEF Abandon, Busy, IInv, TypeOK
    <3>2. LetsGo(w)
      BY <2>6, <3>1 DEF Abandon, LetsGo
    <3>3. PICK j \in Job : j = hold[w]
      BY <3>2, LetGo
    <3>4. Ledger!Forsake(j)
      BY <2>6, <3>2, <3>3, HandEmptied DEF Abandon, jobVars, Ledger!Forsake, InHand
    <3>5. QED
      BY <3>4 DEF Ledger!Next
  <2>7. QED
    BY <1>5, <2>1, <2>2, <2>3, <2>4, <2>5, <2>6 DEF WorkerStep, HandlerEnds
<1>6. QED
  BY <1>1, <1>2, <1>3, <1>4, <1>5 DEF Next, Ledger!Next

\* jobs.py:97-134, 167-221: InMemoryJobQueue is a ledger: one try of a job at a
\* time, given up only after its last retry, settled for good, one job per key.
THEOREM Refinement == Spec => ImplementsLedger
<1>1. Init => Ledger!Init
  BY DEF Init, Ledger!Init, Busy
<1>2. IInv /\ [Next]_vars => [Ledger!Next]_(Ledger!ledger)
  BY LedgerStep
<1>3. QED
  BY <1>1, <1>2, Inductive, PTL DEF Spec, ImplementsLedger, Ledger!Spec

=============================================================================
