# TurboAPI: specifications, model checking and proofs

TurboAPI (`src/turbo/`) is an ASGI web framework for Python: one event loop,
coroutine tasks, plain functions run in threads, and no persistent state. What
is hard about it is what may happen between two awaits: requests that time
out, are cancelled or whose client leaves; a shutdown that overlaps them; tasks
(job workers, heartbeats, broadcasts) that share mutable state; user functions
that may raise anywhere. This directory holds TLA+ models of these parts,
translated from the source, TLC configurations that check them on small
instances, and TLAPS proofs of their main properties for all instances.

`PROJECT.json` lists components, runs, the source lines of every definition,
hazards and theorems.

## The system

| component | state | operations | modelled in |
|---|---|---|---|
| HTTP dispatch and drain (`app.py` 864-942) | `_sem`, `_inflight_http`, `_drain_event`, the task of each request | arrival, queueing, handling, timeout, exception mapping, sending, cancellation; the drain at shutdown | `Dispatch`, `AdmissionGate` |
| In-memory job queue (`jobs.py` 1-221) | job records, `_schedule`, `_idempotency`, `_active_jobs`, workers | enqueue, worker loop, retries, start, stop, join | `JobQueue`, `JobLedger` |
| Lifespan and state resources (`app.py` 645-760, 878-912) | `_state_resources`, the opened values, `app.state` | add and remove a resource, startup, shutdown, look-up by requests | `Lifespan` |
| ConnectionManager (`request.py` 307-395) | `_connections`, `_groups`, sockets known by `id()` | connect, add, remove, join, leave, disconnect, broadcast | `ConnectionManager` |
| WebSocket (`request.py` 85-305, `app.py` 945-973) | `accepted`, `closed`, `_last_activity`, heartbeat task | accept, send, receive with and without timeout, close, heartbeat; the dispatch around the handler | `WebSocket` |
| Dependency injection (`deps.py` 265-340, `app.py` 821-834) | per request: `dep_cache`, `cleanups`, the recursion of `resolve_callable` | resolve, share, open generators, call the handler, close | `Dependencies` |
| Sessions, CSRF (`middleware.py` 631-921, `request.py` 494-517) | `MemorySessionBackend._store` or the cookie itself; the secrets; per request a copy of the session | load, change, replace, clear, write back; token check; restart with a new secret | `Sessions` |
| Rate limit, response cache, header middleware, compression (`middleware.py` 20-600, 924-962) | `_counters`, `_store`; the answer on its way through the layers | down and up of each layer | `Stack` |
| Request body and multipart (`request.py` 519-776) | `_body`, `_form_multi`, the parser's buffer | body, form, stream, the chunked parser | `RequestBody` |
| Responses (`response.py` 62-85, 215-458) | what was sent; the file; the source of a stream | send, ranges and conditions, pings, background tasks | `Responses` |
| Router, redirects, mounts, cached OpenAPI document (`routing.py`, `app.py` 210-217, 295-344, 436-587, 775-806, 975-1078) | trees, `_routes`, `_route_by_handler`, mounts, `_openapi_cache` | route, websocket, include, mount, set an option; match, redirect | `Routing` |
| Override contexts (`app.py` 612-643) | `dependency_overrides` | nested and overlapping contexts | not modelled |
| Observability (`observability.py`) | Prometheus counters | record, render, merge | not modelled |
| Testing clients (`testing.py`) | cookies, queues, event loops | requests, WebSocket sessions | the cookie jar in `Sessions` |
| SQLAlchemy integration | the session of a request | begin, commit, roll back, close | not modelled |
| Security, models, OpenAPI generation, queue adapters, settings, pagination, tools | little or none | checks and conversions of one request's data | not modelled |

How they meet: the server calls `Turbo.__call__` once per connection, in a task
of its own. The lifespan connection opens the resources and, at shutdown, waits
in the drain for the count that the HTTP connections keep (`Dispatch`), then
closes the resources that their handlers look up in `app.state` (`Lifespan`).
An HTTP connection goes down through the ASGI middleware (`Stack`, with
`Sessions` as two layers of their own module), passes the semaphore, and then the
router (`Routing`), the resolution of dependencies, which may read the body
(`RequestBody`), the handler and the cleanups (`Dependencies`) run under one
timeout; the answer is sent (`Responses`) up through the same layers; a WebSocket connection does the same without semaphore, count
or timeout (`WebSocket`) and may be registered in a manager that other tasks
broadcast through (`ConnectionManager`). The job queue is independent of
requests but for `enqueue()`.

Each component's correctness, in short:

- dispatch: never more than `max_concurrency` requests inside, none overtaken,
  no permit lost; the drain ends, and when it succeeds the requests it waited
  for are gone;
- jobs: each job is run by one worker at a time, tried `max_retries + 1` times
  at most, never forgotten, due jobs are not slept through, `join()` and
  `stop()` mean what they say;
- lifespan: whatever raises, everything opened is closed, in one pass in reverse,
  no request holds a closed resource, and the answer to the server is true;
- manager: a broadcast reaches everybody who stays, prunes who is dead, and
  harms nobody else, even when an address is reused;
- WebSocket: `closed` is true exactly where it should be, no peer is left
  hanging, the heartbeat ends;
- dependencies: one value per dependency and request, closed after all its
  users and not forgotten;
- sessions: who follows the CSRF cookie is let in, whatever expired, was lost or
  restarted; nothing is found in a session that no response has set, and what
  was cleared stays so;
- middleware: the cache passes on only what is fresh, and nothing from or to a
  request with an `Authorization` header, the limit holds in every window, a
  client gets a coding it names and an origin that is its own;
- body: what is read is what was sent, however it is cut, the limits are exact,
  and a read ends;
- responses: the slice that was asked for, ended once, and no item skipped;
- router: the tree answers as the list of routes says, a refused registration
  hides a route behind a literal only, a redirect leads to its handler, the
  OpenAPI document is the current one.

## The modules

Common conventions. Everything runs on one event loop, so an action is what one
task does between two awaits that can suspend it; an `async with` on a free
lock, or code without an await, is part of the action around it. Exceptions are
choices: wherever user code or the server is awaited, an action lets it raise,
and the `except` and `finally` clauses of the code decide what follows.
Variables marked *history* record what properties speak of; no action reads
them. A definition whose comment says *mutant* or *a variant* is a copy of the
definition after it with a plausible slip: put in its place, it makes a
property fail, which shows that the property depends on that line of the code.
The specifications of `WebSocket` and `Routing` have names of their own
(`WSSpec`, `RoutingSpec`), as one module of proofs extends each of them together
with another component.

**Dispatch** has one action per stage of a request (`Arrive`, `Resume`,
`Expire`, `HandlerRaises`, `Mapped`, `Finish`, ...), the cancellations by the
server (`CancelQueued`, `CancelRunning`) and the drain (`Shutdown`,
`DrainSeesIdle`, `DrainTimesOut`). The semaphore is asyncio's (Python 3.11 and
later): a released permit goes to the first waiting future, whose task resumes
later and may be cancelled in between. A plain handler runs in a thread that no
timeout stops: `orphans` are the threads that outlive their request.
`AdmissionGate` is the abstraction, a bounded first-come-first-served gate;
`GateStage` maps the stages to it.

**JobQueue** has `Enqueue`, the worker's `Take`, `Sleep`, `TimesOut`, `Leave`,
the ends of an attempt (`Succeed`, `Retry`, `Fail`, `CallAgain`, `Abandon`), a
clock and the calls of `stop()`: each `Caller` walks the one list of workers
(`StopBegins`, `StopResumes`), awaiting the next task that is not done
(`Awaits`), and at its end clears the list, whatever another `stop()` or
`start()` has made of it meanwhile (`Returns`). A worker that has ended one job is `"ready"` and others may act before
it looks again, which the code does not allow: the model has more behaviours
than the code. `JobLedger` is the abstraction: what callers know of a record.
Handlers that call `stop()`, and a `stop()` that is itself cancelled, are left
out.

**Lifespan** follows one lifespan task through `"opening"`, `"starting"`,
`"draining"`, `"stopping"`, `"closing"` and the two nested except clauses
(`"undoing"`, `"clearing"`), with registration at any time, factories, cleanups
and handlers that raise, factories and cleanups that are called again when they
raised `TypeError` or `ValueError` (`FactoryAgain`, `CallCleanupAgain`),
exceptions that pass every `except Exception` (`Exit`), and requests that look resources up. The drain is one action that may
give up; `Dispatch` has its inside. Sending a lifespan message does not raise.

**ConnectionManager** knows a socket by its address, as the code does by
`id()`: `Free` gives the address of an unreferenced object to the next one.
`Begin` takes the snapshot of `_broadcast`; each frame awaited is a step
(`Sent`, `SendFails`), at whose end the loop runs on to the next target or, at
the last, to the pruning. The order in which a set of keys is worked through is
arbitrary. An empty group and an absent one are the same; several `close()`
calls under way on one socket are one.

**WebSocket** has one connection: the task with its handler, the heartbeat, the
peer and the server. Codes, reasons and contents are left out. The server may
refuse a frame only after the peer left, after a close frame, or before
`accept`. As in Python 3.12, `wait_for` awaits in the same task, so a message
that comes as the timeout fires is either received or left with the server.

**Dependencies** has one request: the recursion of `resolve_callable` is the
variable `stack`, a value is the position of the call that made it, and the
values a call was made from, directly or not, are its `args`. `Reuse` and
`Descend` are the two outcomes of the look-up in `dep_cache`, `Return` is the
call of a dependency whose parameters are there; `ResolutionFails`, `Forbidden`
and `CancelledInNext` are the ways out. Reading an ordinary parameter is part of
the failure only. All scope checks are the one failing step `Forbidden`. The
table of overrides does not change during the request.

**Sessions** has `SessionMiddleware` around `CSRFMiddleware` around handlers, for
clients with the cookie jar of `TestClient`. `Begin` is the way in (decode, load,
compare the token), `Respond` the way out (write back, set the cookies); between
them handlers call `SetValue`, `Replace` and `Clear` on their own copy, and other
requests of the client come and go. The copies are of one level, as `dict(data)`
makes them: a value is the request that set it, and what was changed inside it
(`ChangeInPlace`) is remembered with the value (`inside`), so that everybody who
holds it finds the change. A response is delivered late (`Deliver`) or
never (`Lose`); `Restart` rotates the secret and empties the store. Ids and
tokens are random: each is named after the request that drew it. `mode` is
"cookie" or "memory".

**Stack** has `MiddlewareStack.build_asgi`: a request goes down layer by layer,
may be answered by a layer, waits in the application, and its answer goes up.
Since no layer awaits anything but the one below, at most one request is on the
move (`Moving`). Headers are fields, bodies sizes; an `Accept-Encoding` is the
codings whose names occur in it, which is what the code looks for, beside those
the client accepts, which only properties read. `Orders` are the two stacks
checked, that of `examples/app.py` and one behind a proxy.

**RequestBody** has a body as a sequence of atoms: a boundary is three of them,
so that it can be split, and data may hold any beginning of one. `BeginRead` begins
a read, `Receive` cuts off a chunk of any size, `Disconnect` is the client's end;
each block of `_parse_multipart_stream` is an action. `TakeBody` and `Decode`
are the reads that do not parse, `EndForm` and `Fail` the two ends of one that
does. Up to `MaxReads` reads follow each other. Its names differ from those of
`Responses` (`BodyInit`, `Absent` for Python's `None`), so that one module can
extend both.

**Responses** has one response: `Prepare` is `prepare_for_request`, `SendChunk`
and `EndEarly` the loop of `FileResponse`, `SendItem`, `SendPing` and `SendLast`
those of the streams, `Break` an item or a server that raises, `FileChanges` the
rest of the world. A byte of a file is its offset, an item its number, so a
property can say what arrived. A `Range` header that cannot be read (several
ranges, another unit, malformed) is one value, `Bad`, that gets 416. It is run
as it stands.

**Routing** has the application's tables and every method that changes them:
`Route` and `Websocket` (`Routed` does the work, and may raise after the tree was
changed), `Include` (any of whose registrations may raise, and ends it), `Mount`, `MountStatic`, `SetDocOption`, and `ServeDoc`, the
request that fills the cache. `Add`, `Walk` and `Match` are the trie as recursive
functions over the segments, which come from the set `Segments`; `Answer` is what a request gets from `_dispatch_asgi` and
`_handle`. The reference definition `Chosen` knows the routes only, no tree.

## The runs

| run | instance | distinct states | shows |
|---|---|---|---|
| `Dispatch_check` | 4 requests, 1 permit, one plain handler, every failure, a drain with or without timeout | 274,466 | permits conserved and never idle beside a queue, the count covers everybody in the server, a successful drain is right, `Dispatch` implements `AdmissionGate`; everybody who queues leaves, the drain ends |
| `Dispatch_phantom` | 2 requests | violated | finding: a request cancelled in its handler or queue is counted for ever |
| `JobQueue_check` | 2 jobs, one retried once, 2 workers, 1 key, 2 callers of `stop()` that overlap each other and `start()`, handlers that swallow or throw cancellations | 58,726 | schedule, records and counter agree, nobody oversleeps, `join()` and `stop()` tell the truth, `JobQueue` implements `JobLedger`; queued jobs settle, `stop()` returns |
| `Lifespan_safety` | 3 resources, 2 startups, 1 startup and 1 shutdown handler, 1 request | 3,961,200 | no leak, closed in one pass, in reverse; requests find what is open; the answer is true |
| `ConnectionManager_safety` | 3 sockets, 2 addresses, 1 group, 1 broadcast at a time | 167,890 | everybody who stays is reached and kept, the dead are pruned |
| `WebSocket_live` | interval 2, idle timeout 0 or 2 ticks | 15,675 | returns closed, `closed` is true, the heartbeat ends and frees a handler from a silent peer |
| `Dependencies_safety` | every graph of 3 dependencies under 5 tables of overrides | 274,429 | closed after their users, all closed, one value for all, one call per request |
| `Sessions_safety` | 1 client, 4 requests, 1 restart, both modes | 3,548,425 | followers are accepted, only keys that were answered are found, the cleared stays cleared, a safe request repairs a torn pair of cookies |
| `Stack_safety` | 3 requests, 2 orders of layers, window and time to live of 2 ticks, one cache entry | 2,342,268 | the cache is honest, the quota holds, the answer fits the client |
| `RequestBody_check` | forms of up to two parts that nearly hold a boundary, three content types, chunks of up to 7 atoms, 3 reads | 112,712 | reads are what was sent, limits exact; every read ends |
| `Responses_safety` | files of 0 to 4 bytes in chunks of 2, every range, streams of up to 3 items and 2 pings | 90,668 | the slice asked for, well-formed, nothing skipped |
| `Routing_safety` | 12 patterns, 15 paths, 2 handlers, a bundle, 3 calls | 48,282 | the tree is its routes, only literals hide, paths and redirects land, the document is current |

The bounds, and why they are enough:

- *Requests and permits.* A lost wake-up needs a releaser, a task being woken
  and a newcomer; a wrong order needs two that queue; with a holder that is
  four. With one permit a release meets a queue, a cancellation of the one
  being woken and a newcomer; that several tasks being woken keep their order is
  proved, for any number of permits (`ServedInOrder`, `Refinement`).
- *Jobs and workers.* One worker in a handler, one asleep and one just started
  are the roles that interact; two jobs let one be due while another is
  retried. Two callers of `stop()` let one return, and clear the list, under the
  other. `Horizon`, `BaseDelay` and `PollTicks` are one tick each: what
  matters is which due time lies before which deadline. `Horizon` bounds the
  clock; due times beyond it are cut off there.
- *Resources.* Three show one that closes between two others, two startups
  show values left over from the first. `MaxListed` and `MaxRounds` bound them.
- *Sockets.* With three sockets on two addresses an address is reused while a
  broadcast has another in flight.
- *Ticks.* `Interval` and `Limits` are small; the clock stops at the largest
  limit, as idle time beyond it is all the same.
- *Dependencies.* A diamond (two users of one dependency, both used by the
  handler) needs three. `Graphs` has every combination of cached and uncached
  demands up to that size; `Overrides` has none, a replacement, one that leads
  back to itself, a swap and a chain. `MaxDepth` stands for Python's recursion
  limit: `Descend` stops there, and resolution can only fail.
- *Sessions.* Four requests are one that makes a session, two that meet and one
  that follows. `MaxAge`, `Horizon` and `MaxRestarts` are one and `Fallbacks` none:
  a cookie or an entry is valid, or expired, or signed with a key that is unknown
  after the restart. That a former key is still read is covered by the theorems
  only, which hold for any number of fallbacks. `MaxChanges` bounds what one handler does.
- *Layers.* Three requests fill a quota of two and meet its end, or miss twice
  and hit; two ticks let a window, an entry and an answer begin and end at
  different times; `Horizon` is one and a half of both. That no more than
  twice the quota passes in any window's length cannot fail with three requests
  and a quota of two: for this part of `Quota` the theorem (`LimitHolds`) speaks.
- *Bodies.* `Keep` is 6 atoms and chunks have up to 7, so that a boundary is
  split at every place and a flush happens in every position. `MaxReads` of
  three allow body, form, body in any order.
- *Files and streams.* Four bytes in chunks of two have a first, a middle and
  a last chunk for some range; three items have one before and one after a
  ping.
- *Routes.* Three registrations are two that conflict and one that goes on
  after it. The patterns have literals beside each converter, a catch-all that
  is final or not, and slashes at the end.

Symmetry is used in safety runs only, over constants that are interchangeable
in every definition (sockets, addresses, the requests of `Sessions` and
`Stack`).
`CHECK_DEADLOCK FALSE` is in every configuration: requests, queues and
connections end, and an application may be left alone for ever.

### Fairness

- `Dispatch`: tasks that are ready resume, timers fire, cancelled coroutine
  handlers unwind, exception handlers and sends end. Nothing is assumed of a
  handler that was not cancelled, nor of a thread. The event loop gives the
  first two; the others are what the framework itself relies on, since it puts
  its timeout on the handler only.
- `JobQueue`: time passes, ready workers act, and each attempt ends. Without
  the last no queue can promise anything; the code has no timeout on a job.
  `EveryJobSettles` excepts the deserted jobs and a pool without workers.
- `WebSocket`: time passes, an awaited frame of the heartbeat goes out or is
  refused (also to a peer that vanished: the server buffers it), and an event
  the server has is delivered. Nothing is assumed of handler or peer.
- `RequestBody`: the code runs on, and a client sends on or goes: the server
  notices a connection that is dead.
- The other modules have no fairness: nothing bounds a
  send to a slow peer or a user's own code, and no liveness is claimed.

## Proofs

The theorems hold for every value of the constants that the `ASSUME`s of the
modules allow: any number of requests, jobs, workers, sockets, resources and
clients, any graph of dependencies, any order of layers with one cache.

- `Dispatch_proofs`. `IInv` adds to the properties that tickets were given in
  the order of arrival (`TicketsGiven`), without which `InOrder` says nothing of
  the next arrival, that the event is set iff the count is zero (`CountInv`),
  and what each stage of the drain has seen (`DrainInv`). Conservation of
  permits is arithmetic over cardinalities of disjoint sets of requests. The
  theorems: `TypeCorrect`, `PermitsAreConserved` and `NoWakeUpIsLost` (together
  `PermitsAreSound`), `ServedInOrder`, `CountIsSafe` and `DrainIsSound` (together
  `DrainIsToldTruth`), and `Refinement` (each step of `Dispatch` is a step of
  `AdmissionGate` or a stutter).
- `JobQueue_proofs`. The strengthening says that a worker holds a job exactly
  while in its handler (`Holding`), that records never enqueued are blank
  (`Budget`, `Keys`), and where the calls of `stop()` are in the list of workers
  (`PoolSane`: every live worker that is not astray is listed, a call that no
  other has overtaken has only dead ones behind it, and such a call is under way
  while one is alive and the queue does not run).
  From it follow all safety properties, that an idempotency key names one job
  (`KeysAreUnique`), that retries are bounded (`AttemptsAreBounded`), that no
  job is run twice at once (`NeverRunTwice`), and `Refinement` to `JobLedger`.
  `BooksAlwaysAgree` and `CallersAreToldTruth` are the conjunctions the run
  checks.
- `ConnectionManager_proofs`. Besides the properties: one socket per address
  (`Addresses`), `_connections` maps an address to the socket that has it
  (`RightKeys`), and what a broadcast under way owes to whom (`CastsOK`). The
  action properties `SteadyStay` and `DeadPruned` follow from the invariant
  before the step.
- `WebSocket`, in `Dispatch_proofs` too. `ShutFirst` ties the two ends together:
  a recorded close frame and the stages in which `closed` may still be unset.
  `ReturnsClosed` and `ClosedIsSound`, together `CloseIsToldTruly`.
- `Lifespan_proofs`. While resources are closed, what is left (`todo`) is a
  prefix of what the startup listed (`values`, `Prefix`); what is in the prefix
  is open and in `app.state`, what is behind it is neither, and between the two
  is the cleanup in progress (`InCleanup`). With the names of a startup being
  different (`Names`) and each cleanup called once, or twice if it was called
  again (`CalledOnce`), the end of the list is the end of all that was opened
  (`AllClosedInOrder`). A request holds
  resources only while the application serves (`InUse`: `OpenWhileServed`), and
  what raised is remembered until it is reported (`Reported`: `TruthTold`).
- `Sessions_proofs`. Three arguments. *Whose*: under the keys of a session that
  the store, a cookie or a request holds are writes of one client and of started
  responses only, and only its requests have changed them in place (`Sane`,
  `OnlyAnswered`). *Where*: with a backend a write is under one
  session id for ever (`OneId`), so what `clear_session()` removes is nowhere
  else (`Forgotten`, `ClearedForGood`). *Which token*: a request that meets no
  other of its client works on what the client's cookies stand for, and leaves
  a session and a token that agree (`Repairs`, `Follows`); `NeverRefused` and
  `SafeRepairs` follow. The run has one client, the theorems any number of
  them: that nothing of another client's is ever found is only in the proof.
- `Stack_proofs`. `CacheIsHonest` follows one answer: an entry of the store
  expires within `ttl_seconds` of the moment its answer was begun (`Entries`),
  since a request misses before the application begins (`Timed`); a request that
  hits has missed nowhere (`Passed`, which needs `OneCache`: `since` is that of
  one instance), so the answer of another request is never stored again, and
  no layer above changes what the cache has looked at (`SameAnswer`).
  `LimitHolds`: the counter of a key is the number of requests let through in
  its window, and windows of a key that follow each other end at least `Window`
  apart (`Counted`), so no stretch of `Window` ticks meets three. Its
  hypothesis is `Window > 0`; a window of no length limits nothing.
  `AnswersFit`: what is at or above a cache on its way up has been written for
  nobody yet (`Within`, `Stored`), and above that each layer writes for the
  client it knows (`Client`). Its hypothesis is `CacheInnermost`: no CORS and no
  compression below a cache, as in `examples/app.py` and as the findings below
  require. Both hypotheses hold of the run's instance. `TypeCorrect` says that
  no counter exceeds its limit and the store never outgrows `max_entries`; it
  rests on one request being on the move at a time (`Alone`).
- `Dependencies`, in `Resolution_proofs`. The argument is about positions: a value is made from
  earlier ones (`Earlier`), cleanups are noted in the order of opening and
  belong to open generators (`Ordered`), every open generator of a request that
  goes on is noted (`Noted`), so what is closed is later than all that is open
  (`LastFirst`); `Nested` and `Stages` describe the stack. `ClosedInOrder`,
  `NothingForgotten` and `TypeCorrect`. `SharedAlike` is about what stands in
  `dep_cache` while calls are nested: a call cannot end while one of the same
  callable waits further out, because it would meet the demand that the outer
  one waits for (`NoOvertaking`, `Chained`). So no key is given a second value
  (`AllKept`, `FromCache`), and a callable that every demand caches is called
  once (`OncePerRequest`). The run has graphs of three dependencies, the
  theorem any graph, cyclic ones too.

- `Routing`, in `Resolution_proofs` too. A pattern has a way through the tree
  (`Way`: each dynamic segment replaced by one mark). The invariant (`Held`) says
  of each tree that it has every node before a node and a marker exactly where
  there is a dynamic child (`IsTree`), that each route known is at the end of its
  way, with its handler there and its markers on it (`RouteIn`), that no two routes have
  one way (`Apart`), that every handler in the tree is a route's (`Backed`), and,
  unless a registration was refused half way, that each node is on the way of one
  (`NoMore`). Three inductions do the rest: `Add` lays a way and only grows the
  tree (`WalkAll`, `Grows`), the look-up ends where the first route in order of
  preference ends (`FollowAll`, with `OneHidden` for the catch-all), and binds
  what that route's segments ask for (`FoundFits`). `TreeIsTheRoutes`: the tree
  answers as `Chosen`, which knows no tree; `OnlyLiteralsHide`: what refused
  registrations leave behind hides a route only where it is a literal on the
  path's way; `PathsAlwaysLand`: what a path is redirected to is answered by the
  route's handler; `DocIsCurrent`: the cached document has the
  routes and options of now. The run has twelve patterns, the theorems any set of
  them, of any length.
- `Responses`, in `Bodies_proofs`. `Framed` is the order of the messages: one
  start, before all else, and an end after which nothing comes. `FileRead` says that the status and
  the length sent are those of the slice asked for (`Decided`), and that what was
  received of it is its bytes in order up to the position of the reader (`Read`);
  `Streamed` that the items received are the first ones
  in order, with the pings between them. What is received is `FlattenSeq` of the
  bodies, and the induction is about one message more at its end
  (`FlattenAppend`, `ReceivedNext`). `FilesSentAsAsked`, `AnswersWellSent` and
  `StreamsComplete`, for files, chunks and streams of any size.
- `RequestBody`, in `Bodies_proofs` too. What the parser keeps and what has not
  arrived (`Unread`) are together always an end of the encoded form, and the
  invariant says which (`ParserAt`): before a boundary that of the parts left
  (`Coming`), behind one the same without it, in the data of a part so that what
  was taken of them and what is unread make up those data, the marker and the
  rest (`InData`). Then where the server cuts does not matter: of a text that
  goes on after the buffer, `Find` gives the place the whole of it would, or
  none because too little has come (`SearchIs`); a marker may be cut anywhere,
  but what `Flush` takes lies before it, since it keeps at least the length of
  one, and a piece over a limit belongs to a part that is over it (`FlushKeeps`).
  `Slack`, the 8 bytes of `request.py:723`, may be any number, 0 too. When
  nothing more comes, either all has been read or the client has gone
  (`EndMissed`), and then the parts are those sent up to the last, which may hold
  a beginning of the marker (`CutOff`). `Books` says what of the body is where
  between the reads. The encoding is a recursive definition, followed part by
  part (`LeftIs`). `FormsReadAsSent` and `FormLimitsExact`, for every form, limit
  and chunk. That no marker is in the data is an assumption on the forms
  (`FormsAreForms`: a client chooses a boundary that is not in what it sends);
  that none arises where data and marker meet is proved (`CleanData`).

Inductions over data rest on a lemma of the library that an order without
infinite descent has minimal elements (`WFMin`): each set of naturals has a
least one (`Least`), so a set with 0 that is closed under adding one has them all
(`SetInd`), and so the function that a recursive definition chooses exists and
has the value at n + 1 that its body gives for n (`RecExists`, by ever longer
pieces). Properties of a tree or a sequence are then sets of the numbers up to
which they hold.

Type correctness is proved for all of these but `WebSocket`, whose idle clock
ends at the maximum of a finite set of limits (`TypeCorrect`, `BodyTypesHold`; for
`Routing` and `Responses` it is a part of `RoutingInv` and `IInv`). Configurations
check what is built on the types; the type invariant of `WebSocket` was checked
once and is in no configuration.

For the proofs to be possible the models say what their constants are apart
from: `None` is no value, no number and no report (`NoneIsApart`,
`NoneIsNothing`, `AbsentIsNoForm`), an answer of the application has one content coding at most
(`AnswersCodedOnce`), and the segments, patterns, prefixes and markers of
`Routing` are what the code makes of them: no path is without a segment, a prefix
has lost the slash at its end (`app.py`, `rstrip("/")`), the document is on a path
of its own handler (`RoutingConstants`, `DocRegistered`). `Without`, `Front`, `Last` and `Preferred` say by choice
and index what `Remove` and `SelectSeq` say by recursion.

Only model-checked, and why:

- liveness and its fairness (`EveryRequestLeaves`, `DrainEnds`,
  `EveryJobSettles`, `StopReturns`, `BeatEnds`, `IdlePeerIsClosed`,
  `EveryReadEnds`): out of reach of the provers.

The finding is a counterexample of TLC.

## Findings and limitations

`Dispatch_phantom` is described under "findings" in `PROJECT.json`. Further
properties that one might expect of the code, or that its documents suggest, are
stated in the modules and refuted by TLC, on the instance of the component's
configuration where no other is named; no configuration is kept for them:

- `HandlersWithinLimit` (`Dispatch`; two requests with plain handlers, one
  permit): a request that times out gives its permit back while its thread still
  executes (`app.py:929`, `utils.py:17`; `README.md:30` speaks of max concurrency);
- `CalledOncePerAttempt` (`JobQueue`): a handler that raises `TypeError` or
  `ValueError` is called a second time (`jobs.py:74`);
- `StopIsFinal` (`JobQueue`): of two overlapping `stop()` calls one returns,
  `start()` adds workers, and the other clears the list with them in it
  (`jobs.py:154`): a third `stop()` returns while they are in a handler.
  `QuietWhenStopped` excepts those workers (`astray`);
- `CleanedOnce` (`Lifespan`): a cleanup that has done half its work and raises
  `TypeError` or `ValueError` is called again (`app.py:731`);
- `InsideAnswered` (`Sessions`): a handler that changes a value inside its session
  in place and is then cancelled has changed it in the store
  (`middleware.py:643`, `middleware.py:647`);
- `PrivateKept` and `SessionKept` (`Stack`): answers with `Cache-Control: private`
  (`middleware.py:587`), and those computed for a request with a session cookie
  but no `Authorization` header (`middleware.py:545`), are stored and served to
  others;
- `CodingAccepted` (`Stack`): the coding is looked for as a part of the text of
  `Accept-Encoding` (`middleware.py:273`), so `gzip;q=0` is sent gzip;
- `RedirectsAnswered` (`Routing`): one handler under "/a" and then "/b" is known
  under "/b" only, so "/a/" is redirected to "/a", which is a 404 (`app.py:802`);
- `IdlePeerIsClosed` (`WebSocket`) with `Interval = 1`, `Limits = {3}`: each ping
  resets the idle clock (`request.py:222`), so with the defaults of
  `request.py:244` a silent peer is never closed.

Other behaviour of the code that the models have and the properties except:

- a handler that ends with a `CancelledError` of its own takes its worker with
  it (`jobs.py:172`; the constant `Strays`), and a job whose worker was
  cancelled stays "running" for ever (`deserted`);
- `start()` called while `stop()` waits adds workers that nobody cancelled, and
  that `stop()` then waits for another (`Overlap`);
- a second startup forgets the resources of the first; an exception that is no
  `Exception` skips all closing;
- a failing resolution loses its cleanups, and one failing cleanup skips the
  rest (`broken`, `resolved`); a thread that was cancelled in `next()` opens a
  generator nobody closes;
- a WebSocket whose dependency raises is not closed (`escaped`);
- two requests of a client at a time may leave it with the session of one and
  the CSRF token of the other: its next unsafe request is refused, and the 403
  does not set the cookie that would repair it (`middleware.py:900`; `alone`,
  `SafeRequestRepairs`); changes to different keys of one session by two
  requests at a time are lost (`middleware.py:793`);
- the response cache must be inside compression and CORS, as in
  `examples/app.py`: its key has neither the accepted coding nor the origin
  (`middleware.py:516`), and the `vary_headers` that `docs/api-reference.md:428`
  lists does not exist;
- `body()` after `form()` of multipart data, and `body()` of a client that has
  gone, ask for chunks until the request's timeout (`request.py:527`; `Eaten`,
  `gone`);
- a ping cancels `__anext__()`, which ends an asynchronous generator: its
  remaining items never come (`response.py:303`; `closed`);
- a request that the drain gave up on may find a resource that is closed and
  still in `app.state` (`app.py:750`; `gaveUp`);
- a file that became shorter ends its response before its content-length
  (`response.py:453`);
- a handler registered under two literal paths is reached under the last only
  (`OneLiteral`), a literal that a refused registration left behind hides what
  is beside it (`Shadowed`), and a handler whose registration raised after `Router.add` is found
  without a plan (`app.py:360`; `bare`).

## Not modelled, and why

- Security, models and validation, OpenAPI generation, settings, pagination and
  tools compute on one caller's data: they have little or no state over time, and
  their difficulty (formats, Python types, cryptography) is not in the order of
  events. The queue adapters make one call of a library whose promises are not
  in this repository.
- Of modelled files: the compiled plan of a route and the validation of its
  body and response; host mounts and what static directories hold; `json()`,
  names and content types of the parts of a form, spooling of uploads;
  constructors of responses, negotiation, cache-control helpers, the text of an
  event; exempt paths and an awaited external backend of the sessions; the HTTP
  middleware that wraps the handler (`build_http`) instead of the ASGI
  application; WebSocket codes and reasons.
- Override contexts: `override_dependency` changes the dictionary in place while
  `override_dependencies` and `override_scope` put another object in its place
  when they end (`app.py:633`, `app.py:642`), so a request in flight keeps the
  table it began with or sees it change; `Dependencies` takes the table as given.
- Prometheus counters and their snapshot files, and the queues of
  `WebSocketTestSession`, are small and shared by few; they come first in what is
  left.

## Plan

1. Override contexts composed with `Dependencies`: a table that changes while a
   request resolves, and what its requests may still rely on.
2. `Metrics`: the counters shared by requests and worker processes;
   `TestSession`: the queues of the WebSocket test session.
3. A composition of `Dispatch` and `Lifespan` in which the drain is one action of
   both, and of `Responses` and `Dependencies` for streams that outlive the
   cleanups (`app.py:835`).

Hazards these have to meet beyond those in `PROJECT.json`:

- SQLAlchemy: `aclose()` throws `GeneratorExit`, so a failing handler does not
  set `failed` and the session commits (`integrations/sqlalchemy.py:24`);
- metrics: a request that raises is not recorded (`observability.py:453`);
- test clients: startup, each request and shutdown run in event loops of their
  own (`testing.py:36`).

Of the modelled parts, steps that a model has and no property claims anything
of: an exception that is no `Exception` in the middle of the startup
(`app.py:742`), a factory called again after a `TypeError` (`app.py:721`), a
peer that does not drain its socket during a broadcast (`request.py:389`), a
request cancelled while a thread is in `next()` (`deps.py:332`). Out of reach
of the bounds: the overflow of the backoff from attempt 1025 on (`jobs.py:25`).
