------------------------------- MODULE Stack --------------------------------
(***************************************************************************)
(* The ASGI middleware stack (src/turbo/middleware.py): requests go down   *)
(* through the layers to the application, each layer may answer instead,   *)
(* and the answer goes up again through the layers the request has passed. *)
(*                                                                         *)
(* No layer awaits anything but the layer below it, so a request holds the *)
(* event loop from its arrival to the application, and from there to the   *)
(* server.  Requests interleave while the application works on them: what  *)
(* a layer has read on the way down may be stale on the way up.            *)
(*                                                                         *)
(* A header is a field of the request or of the message, and a body is its *)
(* size.  `began', `by' and `credentials' are history of an answer: when   *)
(* the application started it, for which request, and what that showed.    *)
(*                                                                         *)
(* Of Accept-Encoding the code asks whether the name of a coding occurs in *)
(* it: `named' are the codings whose name does, `accepts' those it really  *)
(* accepts ("gzip;q=0" names gzip, "*" names none).                        *)
(*                                                                         *)
(* A WebSocket passes most layers untouched: its message stands for what   *)
(* the application sends it.                                               *)
(***************************************************************************)
EXTENDS Integers, FiniteSets, Sequences

CONSTANTS
    Request,
    None,
    Star,            \* the origin "*"
    Orders,         \* sequences of layers, outermost first
    Scopes,         \* for each order, the requests its clients may send
    Answers,        \* the answers the application may give
    MaxRequests, Window,          \* RateLimitMiddleware
    Ttl, MaxEntries,              \* ResponseCacheMiddleware
    MinSize,                      \* GZipMiddleware, CompressionMiddleware
    Prefer,         \* of CompressionMiddleware: the codings it can produce, best first
    AllowedOrigins, AllowedMethods, Credentials,  \* CORSMiddleware
    AllowedHosts,                 \* TrustedHostMiddleware
    TrustedProxies,               \* ProxyHeadersMiddleware
    Horizon         \* bound on the clock

Layers == {"proxy", "https", "hosts", "cors", "gzip", "compress", "limit", "cache"}
Packed == 1         \* size of a compressed body

ScopeFields == {"type", "method", "path", "client", "scheme", "host", "proto", "forwardedHost", "for",
                "origin", "asked", "named", "accepts", "credentials"}

ASSUME OrdersAreLayers == \A o \in Orders : o \in Seq(Layers)
\* One response cache in a stack: `since' is that of its only instance.
ASSUME OneCache ==
    \A o \in Orders : \A i, j \in DOMAIN o : o[i] = "cache" /\ o[j] = "cache" => i = j
ASSUME ScopesAreWhole == \A o \in Orders : \A s \in Scopes[o] : DOMAIN s = ScopeFields
ASSUME StackBounds == {MaxRequests, Window, Ttl, MaxEntries, MinSize, Horizon} \subseteq Nat
ASSUME NoneIsNothing == None # Star /\ None \notin AllowedOrigins \cup AllowedHosts /\ None \notin Int
\* The application codes an answer once at most.
ASSUME AnswersCodedOnce == \A a \in Answers : Len(a.coding) <= 1

VARIABLES
    stack,     \* MiddlewareStack._asgi_mws
    now,
    counters,  \* RateLimitMiddleware._counters
    cache,     \* ResponseCacheMiddleware._store
    phase,     \* where each request is: "down" and "up" within the stack
    at,        \* its layer
    scope,     \* its scope, as the layer at hand sees it
    since,     \* `now' of the cache for a request that missed
    began,     \* history: when the application started to work on it
    message,   \* its answer on the way up
    passed     \* history: when and under which key the limit let it through

vars == <<stack, now, counters, cache, phase, at, scope, since, began, message, passed>>

LimitKey(s) == <<s.client, s.path>>
CacheKey(s) == <<s.method, s.path>>
Known == UNION {Scopes[o] : o \in Orders}
LimitKeys == {<<c, s.path>> : c \in UNION {{s.client, s.for} : s \in Known}, s \in Known}
CacheKeys == {CacheKey(s) : s \in Known}

\* An answer as the application sends it, and one of a layer of its own.
Sent(a, r) == [by |-> r, began |-> began[r], status |-> a.status, size |-> a.size, length |-> a.size,
               coding |-> a.coding, cookie |-> a.cookie, control |-> a.control, stream |-> a.stream,
               events |-> a.events, credentials |-> scope[r].credentials, origin |-> None, vary |-> {}]
Own(status) == [by |-> None, began |-> None, status |-> status, size |-> 0, length |-> 0,
                coding |-> <<>>, cookie |-> FALSE, control |-> None, stream |-> FALSE,
                events |-> FALSE, credentials |-> None, origin |-> None, vary |-> {}]

\* _append_vary: a header named once.
Varying(m, header) == [m EXCEPT !.vary = @ \cup {header}]

Moving == {r \in Request : phase[r] \in {"down", "up"}}

-----------------------------------------------------------------------------

Init ==
    /\ stack \in Orders
    /\ now = 0
    /\ counters = [k \in LimitKeys |-> [count |-> 0, reset |-> None]]
    /\ cache = [k \in CacheKeys |-> None]
    /\ phase = [r \in Request |-> "idle"]
    /\ at = [r \in Request |-> 0]
    /\ scope = [r \in Request |-> None]
    /\ since = [r \in Request |-> None]
    /\ began = [r \in Request |-> None]
    /\ message = [r \in Request |-> None]
    /\ passed = [r \in Request |-> None]

Arrive(r) ==
    /\ phase[r] = "idle" /\ Moving = {}
    /\ \E s \in Scopes[stack] : scope' = [scope EXCEPT ![r] = s]
    /\ phase' = [phase EXCEPT ![r] = "down"]
    /\ at' = [at EXCEPT ![r] = 1]
    /\ UNCHANGED <<stack, now, counters, cache, since, began, message, passed>>

\* The request is at a layer of the kind on its way down.
Enters(r, layer) == phase[r] = "down" /\ at[r] <= Len(stack) /\ stack[at[r]] = layer

\* The layer calls the next one with scope s, or sends m itself.
Calls(r, s) ==
    /\ at' = [at EXCEPT ![r] = @ + 1]
    /\ scope' = [scope EXCEPT ![r] = s]
    /\ UNCHANGED <<stack, now, phase, began, message>>
Sends(r, m) ==
    /\ phase' = [phase EXCEPT ![r] = "up"]
    /\ at' = [at EXCEPT ![r] = @ - 1]
    /\ message' = [message EXCEPT ![r] = m]
    /\ UNCHANGED <<stack, now, began, scope>>

\* ProxyHeadersMiddleware: what a trusted proxy says of the client is believed.
Forwarded(s) ==
    [s EXCEPT !.scheme = IF s.proto # None THEN s.proto ELSE @,
              !.host = IF s.forwardedHost # None THEN s.forwardedHost ELSE @,
              !.client = IF s.for # None THEN s.for ELSE @]

ProxyDown(r) ==
    /\ Enters(r, "proxy")
    /\ Calls(r, IF scope[r].client \in TrustedProxies THEN Forwarded(scope[r]) ELSE scope[r])
    /\ UNCHANGED <<counters, cache, since, passed>>

\* HTTPSRedirectMiddleware, TrustedHostMiddleware: a WebSocket is closed.
HttpsDown(r) ==
    /\ Enters(r, "https")
    /\ IF scope[r].scheme \in {"https", "wss"} THEN Calls(r, scope[r])
       ELSE Sends(r, Own(IF scope[r].type = "websocket" THEN 1008 ELSE 307))
    /\ UNCHANGED <<counters, cache, since, passed>>

\* A pattern "*.x" stands for the hosts it matches.
Matches(pattern, host) == pattern \in {Star, host}

HostsDown(r) ==
    /\ Enters(r, "hosts")
    /\ IF \E p \in AllowedHosts : Matches(p, scope[r].host) THEN Calls(r, scope[r])
       ELSE Sends(r, Own(IF scope[r].type = "websocket" THEN 1008 ELSE 400))
    /\ UNCHANGED <<counters, cache, since, passed>>

\* CORSMiddleware: headers for an origin it allows, and the answer to a preflight
\* that asks for a method it allows; any other goes on to the application.
OriginAllowed(o) == o # None /\ (Star \in AllowedOrigins \/ o \in AllowedOrigins)
WithOrigin(m, o) ==
    IF ~OriginAllowed(o) THEN m
    ELSE IF Star \in AllowedOrigins /\ ~Credentials THEN [m EXCEPT !.origin = Star]
    ELSE Varying([m EXCEPT !.origin = o], "Origin")

MethodAllowed(method) == Star \in AllowedMethods \/ method \in AllowedMethods
Preflight(s) == s.type = "http" /\ s.method = "OPTIONS" /\ s.origin # None /\ s.asked # None

CorsDown(r) ==
    LET s == scope[r] IN
    /\ Enters(r, "cors")
    /\ IF Preflight(s) /\ OriginAllowed(s.origin) /\ MethodAllowed(s.asked)
       THEN Sends(r, WithOrigin(Own(200), s.origin)) ELSE Calls(r, s)
    /\ UNCHANGED <<counters, cache, since, passed>>

CompressDown(r) ==
    /\ Enters(r, "gzip") \/ Enters(r, "compress")
    /\ Calls(r, scope[r])
    /\ UNCHANGED <<counters, cache, since, passed>>

\* RateLimitMiddleware: the window of a key starts with its first request and,
\* once over, with the next.  Deciding and counting are one step.
CurrentKept(k) ==  \* mutant: the count starts again, its window does not
    IF counters[k].reset = None THEN [count |-> 0, reset |-> now + Window]
    ELSE IF now >= counters[k].reset THEN [counters[k] EXCEPT !.count = 0] ELSE counters[k]

Current(k) ==
    IF counters[k].reset = None \/ now >= counters[k].reset
    THEN [count |-> 0, reset |-> now + Window] ELSE counters[k]

LimitDown(r) ==
    LET k == LimitKey(scope[r]) IN
    /\ Enters(r, "limit")
    /\ \/ /\ scope[r].type # "http"
          /\ Calls(r, scope[r])
          /\ UNCHANGED <<counters, passed>>
       \/ /\ scope[r].type = "http" /\ Current(k).count >= MaxRequests
          /\ Sends(r, Own(429))
          /\ UNCHANGED <<counters, passed>>
       \/ /\ scope[r].type = "http" /\ Current(k).count < MaxRequests
          /\ counters' = [counters EXCEPT ![k] = [Current(k) EXCEPT !.count = @ + 1]]
          /\ passed' = [passed EXCEPT ![r] = 
                           [key |-> k, time |-> now, window |-> Current(k).reset]]
          /\ Calls(r, scope[r])
    /\ UNCHANGED <<cache, since>>

\* ResponseCacheMiddleware: requests it leaves alone, a hit, a miss.  Of the
\* credentials it knows the Authorization header only, not the session's cookie.
Bypasses(s) == s.type # "http" \/ s.method \notin {"GET", "HEAD"} \/ s.credentials = "authorization"
Fresh(k) == cache[k] # None /\ cache[k].expires > now

CacheDown(r) ==
    LET k == CacheKey(scope[r]) IN
    /\ Enters(r, "cache")
    /\ \/ /\ ~Bypasses(scope[r]) /\ Fresh(k)
          /\ Sends(r, cache[k].message)
          /\ UNCHANGED since
       \/ /\ ~Bypasses(scope[r]) /\ ~Fresh(k)
          /\ since' = [since EXCEPT ![r] = now]
          /\ Calls(r, scope[r])
       \/ /\ Bypasses(scope[r])
          /\ Calls(r, scope[r])
          /\ UNCHANGED since
    /\ UNCHANGED <<counters, cache, passed>>

\* The request reaches the application, which answers some time later or is
\* cancelled, and then nothing goes up.
Reach(r) ==
    /\ phase[r] = "down" /\ at[r] = Len(stack) + 1
    /\ phase' = [phase EXCEPT ![r] = "working"]
    /\ began' = [began EXCEPT ![r] = now]
    /\ UNCHANGED <<stack, now, counters, cache, at, scope, since, message, passed>>

Answer(r) ==
    /\ phase[r] = "working" /\ Moving = {}
    /\ phase' = [phase EXCEPT ![r] = "up"]
    /\ at' = [at EXCEPT ![r] = @ - 1]
    /\ \E a \in Answers : message' = [message EXCEPT ![r] = Sent(a, r)]
    /\ UNCHANGED <<stack, now, counters, cache, scope, since, began, passed>>

Leave(r) ==
    /\ phase' = [phase EXCEPT ![r] = "done"]
    /\ scope' = [scope EXCEPT ![r] = None]
    /\ since' = [since EXCEPT ![r] = None]
    /\ began' = [began EXCEPT ![r] = None]
    /\ message' = [message EXCEPT ![r] = None]
    /\ at' = [at EXCEPT ![r] = 0]
    /\ UNCHANGED <<stack, now, counters, cache, passed>>

Cancel(r) == phase[r] = "working" /\ Moving = {} /\ Leave(r)
Deliver(r) == phase[r] = "up" /\ at[r] = 0 /\ Leave(r)

-----------------------------------------------------------------------------

\* The answer is at a layer of the kind on its way up, and leaves it as m.
Returns(r, layer) == phase[r] = "up" /\ at[r] > 0 /\ stack[at[r]] = layer

Raises(r, m) ==
    /\ at' = [at EXCEPT ![r] = @ - 1]
    /\ message' = [message EXCEPT ![r] = m]
    /\ UNCHANGED <<stack, now, counters, phase, scope, began, passed>>

PassUp(r) ==
    /\ \E layer \in {"proxy", "https", "hosts", "limit"} : Returns(r, layer)
    /\ Raises(r, message[r])
    /\ UNCHANGED <<cache, since>>

CorsUp(r) ==
    /\ Returns(r, "cors")
    /\ Raises(r, IF scope[r].type = "http" THEN WithOrigin(message[r], scope[r].origin) ELSE message[r])
    /\ UNCHANGED <<cache, since>>

\* The coding a compressing layer has chosen, None for one it does not touch:
\* the first it prefers of those the request names, were it to refuse them.
Preferred(prefer, s, i) == prefer[i] \in s.named /\ \A j \in 1..(i - 1) : prefer[j] \notin s.named
Selected(prefer, s) ==
    IF s.type = "http" /\ \E i \in DOMAIN prefer : Preferred(prefer, s, i)
    THEN prefer[CHOOSE i \in DOMAIN prefer : Preferred(prefer, s, i)] ELSE None

Skipped(m) ==
    \/ m.stream \/ m.size < MinSize \/ m.coding # <<>>
    \/ m.status < 200 \/ m.status \in {204, 304} \/ m.events

\* A layer that captures an answer sends it as a whole, compressed or not.
CompressedTwice(m, e) ==  \* mutant: the coding it has is not looked at
    IF m.stream \/ m.size < MinSize THEN [m EXCEPT !.stream = FALSE]
    ELSE Varying([m EXCEPT !.coding = Append(@, e), !.size = Packed, !.length = Packed],
                 "Accept-Encoding")

Compressed(m, e) ==
    IF Skipped(m) THEN [m EXCEPT !.stream = FALSE]
    ELSE Varying([m EXCEPT !.coding = <<e>>, !.size = Packed, !.length = Packed], "Accept-Encoding")

CompressUp(r) ==
    \E layer \in {"gzip", "compress"} :
        LET coding == Selected(IF layer = "gzip" THEN <<"gzip">> ELSE Prefer, scope[r]) IN
        /\ Returns(r, layer)
        /\ Raises(r, IF coding = None THEN message[r] ELSE Compressed(message[r], coding))
        /\ UNCHANGED <<cache, since>>

\* Cache-Control: private is not looked for.
Storable(m) == ~m.stream /\ m.status = 200 /\ m.control # "no-store" /\ ~m.cookie

ExpiryLate(r) == now + Ttl  \* mutant: the clock is read when the answer is there

\* The entry lives from the moment the request missed.
Expiry(r) == since[r] + Ttl

\* _prune: the entry that expires first goes.
Pruned(c) ==
    LET held == {k \in CacheKeys : c[k] # None}
        first == {k \in held : \A j \in held : c[k].expires <= c[j].expires}
    IN  IF Cardinality(held) <= MaxEntries THEN {c} ELSE {[c EXCEPT ![k] = None] : k \in first}

CacheUp(r) ==
    LET m == message[r]
        entry == [expires |-> Expiry(r), message |-> m]
    IN  /\ Returns(r, "cache")
        /\ \/ /\ since[r] # None
              /\ IF Storable(m)
                 THEN cache' \in Pruned([cache EXCEPT ![CacheKey(scope[r])] = entry])
                 ELSE UNCHANGED cache
              /\ since' = [since EXCEPT ![r] = None]
              /\ Raises(r, [m EXCEPT !.stream = FALSE])
           \/ /\ since[r] = None
              /\ Raises(r, m)
              /\ UNCHANGED <<cache, since>>

\* A request on the move holds the event loop for less than a tick.
Tick ==
    /\ Moving = {} /\ now < Horizon /\ now' = now + 1
    /\ UNCHANGED <<stack, counters, cache, phase, at, scope, since, began, message, passed>>

Next ==
    \/ Tick
    \/ \E r \in Request :
        \/ Arrive(r) \/ Reach(r) \/ Answer(r) \/ Cancel(r) \/ Deliver(r)
        \/ ProxyDown(r) \/ HttpsDown(r) \/ HostsDown(r) \/ CorsDown(r)
        \/ CompressDown(r) \/ LimitDown(r) \/ CacheDown(r)
        \/ PassUp(r) \/ CorsUp(r) \/ CompressUp(r) \/ CacheUp(r)

Spec == Init /\ [][Next]_vars

-----------------------------------------------------------------------------

Leaving == {r \in Request : phase[r] = "up" /\ at[r] = 0}
Shared == {r \in Request : phase[r] = "up" /\ message[r].by \notin {None, r}}

\* What the cache serves to another request is never older than ttl_seconds,
\* counted from when the application began to compute it and however long it
\* took, even when two requests that missed overlap and the older answer is
\* stored last.
NothingStale == \A r \in Shared : now - message[r].began < Ttl

\* An answer that sets a cookie, says no-store or is an error is never served to
\* another request; nor is one computed for a request with an Authorization
\* header, and no request with one is given what is stored: whoever shares an
\* answer, neither he nor its first reader has shown that header.
NothingAuthorized ==
    \A r \in Shared :
        /\ ~message[r].cookie /\ message[r].control # "no-store" /\ message[r].status = 200
        /\ "authorization" \notin {message[r].credentials, scope[r].credentials}

\* ResponseCacheMiddleware passes on to others only what is fresh and, as far as
\* it looks, meant for everybody.
CacheHonest == NothingStale /\ NothingAuthorized

\* Refuted: nothing marked Cache-Control: private is served to another request.
PrivateKept == \A r \in Shared : message[r].control # "private"

\* Refuted: what was computed for a request with a session is served to none
\* without it.
SessionKept == \A r \in Shared : message[r].credentials # "session"

\* A key is let through at most MaxRequests times in a window of its own, and
\* so at most twice that in any Window ticks, wherever they start and however
\* many of its requests are still being worked on.
LetThrough(k) == {r \in Request : passed[r] # None /\ passed[r].key = k}
Quota ==
    \A k \in LimitKeys :
        /\ \A r \in LetThrough(k) :
              Cardinality({q \in LetThrough(k) : passed[q].window = passed[r].window}) <= MaxRequests
        /\ \A from \in 0..now :
              Cardinality({q \in LetThrough(k) : passed[q].time \in from..(from + Window - 1)})
                 <= 2 * MaxRequests

\* Through a compressing layer, CORS and a cache below both, a client gets a
\* coding whose name its own Accept-Encoding has, applied once, with its length
\* and the headers a shared cache needs, and its own origin is allowed if any.
RightForClient ==
    \A r \in Leaving :
        LET m == message[r]
            s == scope[r] IN
        /\ m.length = m.size
        /\ Len(m.coding) <= 1
        /\ "Accept-Encoding" \in m.vary => m.coding[1] \in s.named
        /\ m.origin \in {None, Star, s.origin}
        /\ m.origin \notin {None, Star} => "Origin" \in m.vary

\* Refuted: and it is a coding the client accepts ("gzip;q=0" is sent gzip).
CodingAccepted ==
    \A r \in Leaving :
        "Accept-Encoding" \in message[r].vary => message[r].coding[1] \in scope[r].accepts

TypeOK ==
    /\ stack \in Orders /\ now \in 0..Horizon
    /\ counters \in [LimitKeys -> [count : 0..MaxRequests, reset : Nat \cup {None}]]
    /\ \A k \in CacheKeys : cache[k] # None => cache[k].expires \in Nat /\ Storable(cache[k].message)
    /\ phase \in [Request -> {"idle", "down", "working", "up", "done"}]
    /\ at \in [Request -> 0..(Len(stack) + 1)]
    /\ \A r \in Request : phase[r] \notin {"idle", "done"} => DOMAIN scope[r] = ScopeFields
    /\ since \in [Request -> Nat \cup {None}] /\ began \in [Request -> Nat \cup {None}]
    /\ passed \in [Request -> [key : LimitKeys, time : Nat, window : Nat] \cup {None}]
    /\ Cardinality(Moving) <= 1
    /\ Cardinality({k \in CacheKeys : cache[k] # None}) <= MaxEntries

=============================================================================
