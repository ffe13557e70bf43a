------------------------------ MODULE JobQueue ------------------------------
(***************************************************************************)
(* InMemoryJobQueue (src/turbo/jobs.py): jobs wait in a schedule ordered   *)
(* by due time and arrival, worker tasks run them one at a time, a failing *)
(* attempt is rescheduled while retries are left, stop() cancels the       *)
(* workers and waits for them.                                             *)
(*                                                                         *)
(* The sections under _lock and _wake contain no await, so an action is    *)
(* what one task does between two of its awaits: Condition.wait, the       *)
(* handler, and `await t` in stop().  (A worker done with one job looks    *)
(* for the next without a pause; here others may act in between.)  It is   *)
(*   "off"       not created                                               *)
(*   "ready"     created, woken or between two jobs: about to look         *)
(*   "sleeping"  in self._wake.wait(), until notified or until wakeAt      *)
(*   "calling"   in the handler, as _call_job_handler called it first      *)
(*   "recalling" in the handler, called a second time with the payload,    *)
(*               because the first call raised TypeError or ValueError     *)
(*   "dead"      its task is done.                                         *)
(***************************************************************************)
EXTENDS Integers, FiniteSets, Sequences

CONSTANTS
    Job, Key,          \* job ids, idempotency keys
    MaxWorkers,        \* bound on the worker tasks ever created
    Caller,            \* the calls of stop() that may be under way at a time
    NoJob, NoKey, NoWorker,
    MaxRetries,        \* retry_policy.max_retries of each job
    BaseDelay, Backoff, MaxDelay, Jitter,  \* its delays, in ticks
    PollTicks,         \* the 0.5 s a worker sleeps when nothing is scheduled
    Horizon,           \* bound on the clock; due times are cut off there
    Stops,             \* TRUE iff stop() may be called
    Overlap,           \* TRUE iff start() may be called while a stop() waits
    Stubborn,          \* TRUE iff a handler may swallow its cancellation
    Strays             \* TRUE iff a handler may end with a CancelledError of
                       \* its own (a task it awaited was cancelled)

\* The worker tasks, in the order of their creation.
Worker == 1..MaxWorkers

ASSUME Finite == IsFiniteSet(Job) /\ MaxWorkers \in Nat
ASSUME Absent == NoJob \notin Job /\ NoKey \notin Key /\ NoWorker \notin Worker
ASSUME RetriesNat == MaxRetries \in [Job -> Nat]
ASSUME TicksNat == {BaseDelay, Backoff, MaxDelay, Jitter, PollTicks, Horizon} \subseteq Nat

VARIABLES
    now,
    status,      \* JobRecord.status, "none" before enqueue()
    attempts,    \* JobRecord.attempts
    key,         \* JobRecord.idempotency_key
    deserted,    \* history: the jobs whose worker was cancelled under them
    idempotency, \* self._idempotency
    schedule,    \* self._schedule
    seq,         \* self._seq
    active,      \* self._active_jobs
    running,     \* self._running
    workers,     \* self._workers
    phase,       \* where each worker is
    wakeAt,      \* the deadline of its wait_for while it sleeps, else 0
    hold,        \* the job in its _run_job
    cancelled,   \* workers whose cancellation is requested, not delivered
    spot,        \* where in self._workers each stop() under way is ...
    awaits,      \* ... and the task it awaits there
    emptied,     \* history: the stop() calls whose list another has cleared
    astray       \* history: the workers started while there was such a call

jobVars == <<status, attempts, key, deserted>>
queueVars == <<idempotency, schedule, seq, active>>
workerVars == <<phase, wakeAt, hold, cancelled>>
stopVars == <<workers, spot, awaits, emptied>>
poolVars == <<running, stopVars, astray>>
vars == <<now, jobVars, queueVars, workerVars, poolVars>>

Busy == {w \in Worker : phase[w] \in {"calling", "recalling"}}
Sleeping == {w \in Worker : phase[w] = "sleeping"}
Alive == {w \in Worker : phase[w] \notin {"off", "dead"}}
Listed == {workers[i] : i \in DOMAIN workers}
Stopping == {c \in Caller : awaits[c] # NoWorker}
Terminal == {"succeeded", "failed"}
Enqueued == {j \in Job : status[j] # "none"}

\* The order of _schedule.sort(key=...), of which only the head is ever taken.
Before(e, f) == e.at < f.at \/ (e.at = f.at /\ e.seq <= f.seq)
Heads == {e \in schedule : \A f \in schedule : Before(e, f)}

\* RetryPolicy.next_delay, less the jitter; times past the horizon are cut.
Least(a, b) == IF a < b THEN a ELSE b
NextDelay(attempt) ==
    Least(BaseDelay * Backoff ^ (IF attempt > 0 THEN attempt - 1 ELSE 0), MaxDelay)
RetryTimes(attempt) ==
    {t \in now..Horizon :
        \E x \in 0..Jitter : t = Least(now + NextDelay(attempt) + x, Horizon)}

\* _schedule_job: insert, and (Woken) wake whoever sleeps.
Schedule(j, at) ==
    /\ seq' = seq + 1
    /\ schedule' = schedule \cup {[at |-> at, seq |-> seq + 1, job |-> j]}

Woken(ph) == [w \in Worker |-> IF ph[w] = "sleeping" THEN "ready" ELSE ph[w]]
Awake == [w \in Worker |-> 0]

-----------------------------------------------------------------------------

Init ==
    /\ now = 0
    /\ status = [j \in Job |-> "none"]
    /\ attempts = [j \in Job |-> 0]
    /\ key = [j \in Job |-> NoKey]
    /\ deserted = {}
    /\ idempotency = [k \in Key |-> NoJob]
    /\ schedule = {}
    /\ seq = 0
    /\ active = 0
    /\ running = FALSE
    /\ workers = <<>>
    /\ phase = [w \in Worker |-> "off"]
    /\ wakeAt = Awake
    /\ hold = [w \in Worker |-> NoJob]
    /\ cancelled = {}
    /\ spot = [c \in Caller |-> 0]
    /\ awaits = [c \in Caller |-> NoWorker]
    /\ emptied = {} /\ astray = {}

Tick == now < Horizon /\ now' = now + 1
        /\ UNCHANGED <<jobVars, queueVars, workerVars, poolVars>>

\* Mutant of Enqueue: nobody is told of the new job.
EnqueueSilently(j, k, at) ==
    /\ status[j] = "none"
    /\ k \in Key => idempotency[k] = NoJob
    /\ status' = [status EXCEPT ![j] = "queued"]
    /\ key' = [key EXCEPT ![j] = k]
    /\ idempotency' = IF k \in Key THEN [idempotency EXCEPT ![k] = j] ELSE idempotency
    /\ Schedule(j, at)
    /\ UNCHANGED <<now, attempts, deserted, active, workerVars, poolVars>>

(***************************************************************************)
(* enqueue() of a new job j, with key k or none, due at any time (a delay, *)
(* or a run_at, possibly past).  A key in use returns its job, and an      *)
(* unknown handler raises, before anything changes.                        *)
(***************************************************************************)
Enqueue(j, k, at) ==
    /\ status[j] = "none"
    /\ k \in Key => idempotency[k] = NoJob
    /\ status' = [status EXCEPT ![j] = "queued"]
    /\ key' = [key EXCEPT ![j] = k]
    /\ idempotency' = IF k \in Key THEN [idempotency EXCEPT ![k] = j] ELSE idempotency
    /\ Schedule(j, at)
    /\ phase' = Woken(phase) /\ wakeAt' = Awake
    /\ UNCHANGED <<now, attempts, deserted, active, hold, cancelled, poolVars>>

\* start() creates the next n tasks unless the queue runs already.
Created == {w \in Worker : phase[w] # "off"}

Start(n) ==
    LET new == [i \in 1..n |-> Cardinality(Created) + i] IN
    /\ ~running
    /\ Stopping # {} => Overlap
    /\ \A i \in 1..n : new[i] \in Worker \ Created
    /\ running' = TRUE
    /\ workers' = workers \o new
    /\ phase' = [w \in Worker |-> IF \E i \in 1..n : w = new[i] THEN "ready" ELSE phase[w]]
    /\ astray' = IF emptied = {} THEN astray ELSE astray \cup {new[i] : i \in 1..n}
    /\ UNCHANGED <<now, jobVars, queueVars, wakeAt, hold, cancelled, spot, awaits, emptied>>

\* The call c of stop() awaits the next task of the list that is not done, as
\* the list is now: start() may have appended to it, another stop() cleared it.
Awaits(c, next) ==
    \E i \in next..Len(workers) :
        /\ phase[workers[i]] # "dead"
        /\ \A k \in next..(i - 1) : phase[workers[k]] = "dead"
        /\ spot' = [spot EXCEPT ![c] = i]
        /\ awaits' = [awaits EXCEPT ![c] = workers[i]]
        /\ UNCHANGED <<workers, emptied>>

\* Or, there being none, it clears the list, whatever is in it, and returns.
Returns(c, next) ==
    /\ \A i \in next..Len(workers) : phase[workers[i]] = "dead"
    /\ workers' = <<>>
    /\ spot' = [spot EXCEPT ![c] = 0]
    /\ awaits' = [awaits EXCEPT ![c] = NoWorker]
    /\ emptied' = Stopping \ {c}

\* stop() up to the first `await t` that waits: all are woken, the listed
\* cancelled.
StopBegins(c) ==
    /\ Stops /\ c \notin Stopping
    /\ running' = FALSE
    /\ phase' = Woken(phase) /\ wakeAt' = Awake
    /\ cancelled' = cancelled \cup (Listed \cap Alive)
    /\ Awaits(c, 1) \/ Returns(c, 1)
    /\ UNCHANGED <<now, jobVars, queueVars, hold, astray>>

StopResumesOnce(c) ==  \* mutant: one finished task is taken for all of them
    /\ c \in Stopping /\ phase[awaits[c]] = "dead"
    /\ Returns(c, Len(workers) + 1)
    /\ UNCHANGED <<now, jobVars, queueVars, workerVars, running, astray>>

\* `await t` is over, and the loop over the list goes on behind t's place.
StopResumes(c) ==
    /\ c \in Stopping /\ phase[awaits[c]] = "dead"
    /\ Awaits(c, spot[c] + 1) \/ Returns(c, spot[c] + 1)
    /\ UNCHANGED <<now, jobVars, queueVars, workerVars, running, astray>>

-----------------------------------------------------------------------------
(* A worker.                                                               *)

Dies(w) ==
    /\ phase' = [phase EXCEPT ![w] = "dead"]
    /\ cancelled' = cancelled \ {w}
    /\ wakeAt' = [wakeAt EXCEPT ![w] = 0]
    /\ UNCHANGED <<now, jobVars, queueVars, hold, poolVars>>

LeaveCancelled(w) ==  \* mutant: the loop does not look at the flag
    /\ phase[w] \in {"ready", "sleeping"} /\ w \in cancelled
    /\ Dies(w)

\* The loop ends: the queue is stopped, or the cancellation arrives.
Leave(w) ==
    /\ \/ phase[w] = "ready" /\ (~running \/ w \in cancelled)
       \/ phase[w] = "sleeping" /\ w \in cancelled
    /\ Dies(w)

\* _next_due_job takes the head if it is due, and _run_job calls the handler.
Take(w) ==
    /\ phase[w] = "ready" /\ running /\ w \notin cancelled
    /\ \E e \in Heads :
        /\ e.at <= now
        /\ schedule' = schedule \ {e}
        /\ hold' = [hold EXCEPT ![w] = e.job]
        /\ status' = [status EXCEPT ![e.job] = "running"]
        /\ attempts' = [attempts EXCEPT ![e.job] = @ + 1]
    /\ active' = active + 1
    /\ phase' = [phase EXCEPT ![w] = "calling"]
    /\ UNCHANGED <<now, key, deserted, idempotency, seq, wakeAt, cancelled, poolVars>>

\* Nothing is due: sleep until the head is, or PollTicks when there is none.
Sleep(w) ==
    /\ phase[w] = "ready" /\ running /\ w \notin cancelled
    /\ \A e \in schedule : e.at > now
    /\ phase' = [phase EXCEPT ![w] = "sleeping"]
    /\ \/ schedule = {} /\ wakeAt' = [wakeAt EXCEPT ![w] = now + PollTicks]
       \/ \E e \in Heads : wakeAt' = [wakeAt EXCEPT ![w] = e.at]
    /\ UNCHANGED <<now, jobVars, queueVars, hold, cancelled, poolVars>>

TimesOutOnPolls(w) ==  \* mutant: a sleeper with a due time waits bare
    /\ phase[w] = "sleeping" /\ wakeAt[w] <= now /\ schedule = {}
    /\ phase' = [phase EXCEPT ![w] = "ready"]
    /\ wakeAt' = [wakeAt EXCEPT ![w] = 0]
    /\ UNCHANGED <<now, jobVars, queueVars, hold, cancelled, poolVars>>

TimesOut(w) ==
    /\ phase[w] = "sleeping" /\ wakeAt[w] <= now
    /\ phase' = [phase EXCEPT ![w] = "ready"]
    /\ wakeAt' = [wakeAt EXCEPT ![w] = 0]
    /\ UNCHANGED <<now, jobVars, queueVars, hold, cancelled, poolVars>>

\* _run_job is left, its finally having run: st and ph are what becomes of
\* the record and of the worker.
Puts(w, st, ph) ==
    /\ w \in Busy
    /\ status' = [status EXCEPT ![hold[w]] = st]
    /\ active' = IF active > 0 THEN active - 1 ELSE 0
    /\ hold' = [hold EXCEPT ![w] = NoJob]
    /\ phase' = [ph EXCEPT ![w] = "ready"]
    /\ wakeAt' = IF ph = phase THEN wakeAt ELSE Awake
    /\ UNCHANGED <<now, attempts, key, deserted, idempotency, cancelled, poolVars>>

Succeed(w) ==
    /\ w \notin cancelled
    /\ Puts(w, "succeeded", phase)
    /\ UNCHANGED <<schedule, seq>>

\* TypeError or ValueError, whoever raised it, is taken for a bad signature.
CallAgain(w) ==
    /\ phase[w] = "calling" /\ w \notin cancelled
    /\ phase' = [phase EXCEPT ![w] = "recalling"]
    /\ UNCHANGED <<now, jobVars, queueVars, wakeAt, hold, cancelled, poolVars>>

\* A variant that does not put the record back.
RetryForgetting(w) ==
    /\ w \in Busy \ cancelled
    /\ attempts[hold[w]] <= MaxRetries[hold[w]]
    /\ Puts(w, "queued", Woken(phase))
    /\ UNCHANGED <<schedule, seq>>

\* The handler raised: the record is queued again, or has failed for good.
Retry(w) ==
    /\ w \in Busy \ cancelled
    /\ attempts[hold[w]] <= MaxRetries[hold[w]]
    /\ \E t \in RetryTimes(attempts[hold[w]]) : Schedule(hold[w], t)
    /\ Puts(w, "queued", Woken(phase))

FailEarly(w) ==  \* mutant: the last retry is not made
    /\ w \in Busy \ cancelled
    /\ attempts[hold[w]] >= MaxRetries[hold[w]]
    /\ Puts(w, "failed", phase)
    /\ UNCHANGED <<schedule, seq>>

Fail(w) ==
    /\ w \in Busy \ cancelled
    /\ attempts[hold[w]] > MaxRetries[hold[w]]
    /\ Puts(w, "failed", phase)
    /\ UNCHANGED <<schedule, seq>>

\* CancelledError, which is no Exception, ends the handler and the worker: the
\* record stays "running", only the finally of _run_job happens.
Abandon(w) ==
    /\ w \in Busy
    /\ w \in cancelled \/ Strays
    /\ deserted' = deserted \cup {hold[w]}
    /\ active' = IF active > 0 THEN active - 1 ELSE 0
    /\ hold' = [hold EXCEPT ![w] = NoJob]
    /\ phase' = [phase EXCEPT ![w] = "dead"]
    /\ cancelled' = cancelled \ {w}
    /\ UNCHANGED <<now, status, attempts, key, idempotency, schedule, seq,
                   wakeAt, poolVars>>

\* The handler swallows a cancellation.
Swallow(w) ==
    /\ Stubborn
    /\ w \in Busy \cap cancelled
    /\ cancelled' = cancelled \ {w}
    /\ UNCHANGED <<now, jobVars, queueVars, phase, wakeAt, hold, poolVars>>

HandlerEnds(w) == Succeed(w) \/ CallAgain(w) \/ Retry(w) \/ Fail(w)

WorkerStep(w) ==
    \/ Leave(w) \/ Take(w) \/ Sleep(w) \/ TimesOut(w)
    \/ HandlerEnds(w) \/ Abandon(w) \/ Swallow(w)

Next ==
    \/ Tick
    \/ \E j \in Job, k \in Key \cup {NoKey}, at \in 0..Horizon : Enqueue(j, k, at)
    \/ \E n \in Worker : Start(n)
    \/ \E c \in Caller : StopBegins(c) \/ StopResumes(c)
    \/ \E w \in Worker : WorkerStep(w)

Spec == Init /\ [][Next]_vars

(***************************************************************************)
(* Time passes, tasks that can run do, and every handler ends, by itself   *)
(* or because it was cancelled.                                            *)
(***************************************************************************)
Fairness ==
    /\ WF_vars(Tick)
    /\ \A c \in Caller : WF_vars(StopResumes(c))
    /\ \A w \in Worker :
        /\ WF_vars(Leave(w)) /\ WF_vars(Take(w)) /\ WF_vars(Sleep(w))
        /\ WF_vars(TimesOut(w)) /\ WF_vars(HandlerEnds(w) \/ Abandon(w))

FairSpec == Spec /\ Fairness

-----------------------------------------------------------------------------
(* Properties.                                                             *)

Status == {"none", "queued", "running"} \cup Terminal
Phase == {"off", "ready", "sleeping", "calling", "recalling", "dead"}
Entry == [at : 0..Horizon, seq : Nat \ {0}, job : Job]

\* The records, the schedule and the workers have their types, and the
\* sequence numbers handed out are those counted.
TypeOK ==
    /\ now \in 0..Horizon
    /\ status \in [Job -> Status]
    /\ attempts \in [Job -> Nat]
    /\ key \in [Job -> Key \cup {NoKey}]
    /\ deserted \subseteq Job
    /\ idempotency \in [Key -> Job \cup {NoJob}]
    /\ schedule \subseteq Entry
    /\ seq \in Nat
    /\ active \in Nat
    /\ running \in BOOLEAN
    /\ workers \in Seq(Worker) /\ cancelled \subseteq Worker
    /\ spot \in [Caller -> Nat] /\ awaits \in [Caller -> Worker \cup {NoWorker}]
    /\ emptied \subseteq Caller /\ astray \subseteq Worker
    /\ phase \in [Worker -> Phase]
    /\ wakeAt \in [Worker -> Nat]
    /\ hold \in [Worker -> Job \cup {NoJob}]

\* A record says "queued" exactly while the schedule has it, and the schedule
\* has it once: no retry is forgotten and none runs beside its original.
ScheduleTellsStatus ==
    /\ \A e \in schedule : status[e.job] = "queued"
    /\ \A j \in Job : status[j] = "queued" => \E e \in schedule : e.job = j
    /\ \A e, f \in schedule : e.job = f.job => e = f

\* No two workers run one job, and a job that is run says "running".
HeldOnce ==
    /\ \A w \in Busy : hold[w] \in Job /\ status[hold[w]] = "running"
    /\ \A v, w \in Busy : hold[v] = hold[w] => v = w

\* The counter join() reads is the number of jobs being run, across retries,
\* cancellations and restarts (max(0, ...) in _run_job never hides a slip).
ActiveCountsBusy == active = Cardinality(Busy)

\* No worker sleeps past the time a scheduled job is due: a job enqueued or
\* rescheduled while workers sleep, due before what they sleep for, wakes them.
NoOversleep ==
    \A w \in Sleeping : \A e \in schedule : wakeAt[w] <= e.at

\* The records, the schedule and the counter agree.
BooksAgree == ScheduleTellsStatus /\ ActiveCountsBusy

\* A job is tried at most max_retries + 1 times, and has a try left whenever
\* it is queued.
RetryBudget ==
    \A j \in Job :
        /\ attempts[j] <= MaxRetries[j] + 1
        /\ status[j] = "queued" => attempts[j] <= MaxRetries[j]
        /\ status[j] = "failed" => attempts[j] = MaxRetries[j] + 1

\* Every job with an idempotency key is the one the key's callers are given.
KeyNamesJob ==
    /\ \A j \in Job : key[j] \in Key => idempotency[key[j]] = j
    /\ \A k \in Key : idempotency[k] \in Job => key[idempotency[k]] = k

\* When join() finds nothing pending, every job ever enqueued is settled, also
\* those between two attempts or just taken; but for those whose worker was
\* cancelled, which stay "running" for ever.
JoinSound ==
    schedule = {} /\ active = 0 =>
        \A j \in Enqueued : status[j] \in Terminal \/ j \in deserted

\* Once every stop() has returned no worker runs a job, and none is left behind
\* for the next start() to run beside its own, however start() and several
\* stop() calls overlap; but for the workers of a start() that came while one
\* stop() had cleared the list and another still waited: the second clears the
\* list again, without having cancelled or awaited them (jobs.py:154).
QuietWhenStopped == ~running /\ Stopping = {} => Alive \subseteq astray

\* What one may expect of stop(), and is not so for those.
StopIsFinal == ~running /\ Stopping = {} => Alive = {}

\* What join() and stop() tell their callers is so.
JoinAndStopSound == JoinSound /\ QuietWhenStopped

\* A job that is queued while the workers run succeeds or fails for good,
\* unless stop() comes in between, its worker was cancelled under it, or every
\* worker has been: nobody replaces those.
EveryJobSettles ==
    \A j \in Job : status[j] = "queued" /\ running ~>
        \/ status[j] \in Terminal
        \/ ~running \/ Alive = {} \/ j \in deserted

\* Every stop() returns, even if handlers swallow the cancellation, unless the
\* queue is started again while it waits.
StopReturns == \A c \in Caller : c \in Stopping ~> c \notin Stopping \/ running

\* The queue is a ledger: each job is tried by one worker at a time, given up
\* only when its retries are used up, final once settled; a key names one job.
Ledger == INSTANCE JobLedger WITH
    state <- status, tries <- attempts, registry <- idempotency,
    inHand <- {hold[w] : w \in Busy}

\* InMemoryJobQueue implements JobLedger (jobs.py:97-134, 167-221).
ImplementsLedger == Ledger!Spec

\* What max_retries says: the handler is called once, and once per retry.
CalledOncePerAttempt == \A w \in Worker : phase[w] # "recalling"

=============================================================================
