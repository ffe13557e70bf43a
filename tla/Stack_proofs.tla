---------------------------- MODULE Stack_proofs ----------------------------
(***************************************************************************)
(* For every stack of layers, clock, time to live and number of requests:  *)
(* what the response cache passes on is fresh and was computed for a       *)
(* request without an Authorization header, the limit holds, and the       *)
(* answer is right for its client.                                         *)
(*                                                                         *)
(* The argument follows one answer.  An entry of the store expires within  *)
(* Ttl of the moment its answer was begun (Entries), since the request     *)
(* missed before the application began (Timed).  A request that hits has   *)
(* not missed (Passed: only the layer at hand could have set `since', and  *)
(* there is one), so an answer of another request is never stored again;   *)
(* and no layer above changes what the cache has looked at (SameAnswer).   *)
(*                                                                         *)
(* The limit counts in windows that follow each other, and what a cache    *)
(* sees on the way up is still nobody's in particular: each has its part.  *)
(***************************************************************************)
EXTENDS Stack, FiniteSetTheorems, TLAPS

\* What the properties look at in an answer, and an answer that has it.
Looked == {"by", "began", "status", "cookie", "control", "credentials", "stream"}
Whole(m) == Looked \subseteq DOMAIN m
SameAnswer(m, n) ==
    /\ Whole(n)
    /\ n.by = m.by /\ n.began = m.began
    /\ n.status = m.status /\ n.cookie = m.cookie /\ n.control = m.control
    /\ n.credentials = m.credentials

Tables ==
    /\ stack \in Orders /\ now \in Int
    /\ DOMAIN cache = CacheKeys
    /\ DOMAIN phase = Request /\ DOMAIN at = Request /\ DOMAIN scope = Request
    /\ DOMAIN since = Request /\ DOMAIN began = Request /\ DOMAIN message = Request

\* What is stored may be shared, and expires within Ttl of its beginning.
Entries ==
    \A k \in CacheKeys : cache[k] # None =>
        /\ cache[k].expires \in Int
        /\ Whole(cache[k].message) /\ Storable(cache[k].message)
        /\ cache[k].message.by # None =>
              /\ cache[k].message.began \in Int /\ cache[k].expires <= cache[k].message.began + Ttl
              /\ cache[k].message.credentials # "authorization"

\* A request misses before the application begins to work on it, and shows no
\* Authorization header.
Timed(r) ==
    /\ phase[r] = "idle" => since[r] = None
    /\ since[r] # None =>
          since[r] \in Int /\ since[r] <= now /\ scope[r].credentials # "authorization"
    /\ phase[r] = "working" => began[r] \in Int /\ (since[r] # None => since[r] <= began[r])

\* On its way down a request has missed only in a cache it has left behind.
Passed(r) ==
    phase[r] = "down" =>
        /\ DOMAIN scope[r] = ScopeFields /\ CacheKey(scope[r]) \in CacheKeys
        /\ at[r] \in Nat \ {0}
        /\ since[r] # None => \E i \in 1..(at[r] - 1) : i \in DOMAIN stack /\ stack[i] = "cache"

\* Its answer on the way up is its own, or no older than Ttl and for everybody.
Fit(r) ==
    phase[r] = "up" =>
        LET m == message[r] IN
        /\ Whole(m)
        /\ m.by # None => m.began \in Int
        /\ m.by # None /\ since[r] # None =>
              m.by = r /\ since[r] <= m.began /\ m.credentials # "authorization"
        /\ m.by \notin {None, r} =>
              /\ now - m.began < Ttl
              /\ ~m.cookie /\ m.control # "no-store" /\ m.status = 200
              /\ "authorization" \notin {m.credentials, scope[r].credentials}

Sane(r) == Timed(r) /\ Passed(r) /\ Fit(r)

IInv == Tables /\ Entries /\ \A r \in Request : Sane(r)

LEMMA TtlIsNatural == Ttl \in Nat
  BY StackBounds

LEMMA InitIInv == Init => IInv
  BY DEF Init, IInv, Tables, Entries, Sane, Timed, Passed, Fit

\* A step that leaves a request alone, and neither clock nor stack moves.
LEMMA Untouched ==
    ASSUME NEW q, Sane(q), UNCHANGED <<now, stack>>,
           phase'[q] = phase[q], at'[q] = at[q], scope'[q] = scope[q], since'[q] = since[q],
           began'[q] = began[q], message'[q] = message[q]
    PROVE  Sane(q)'
  BY DEF Sane, Timed, Passed, Fit

\* What a step of request r leaves of the others.
Only(r) ==
    /\ UNCHANGED <<now, stack>>
    /\ \A q \in Request \ {r} :
          /\ phase'[q] = phase[q] /\ at'[q] = at[q] /\ scope'[q] = scope[q]
          /\ since'[q] = since[q] /\ began'[q] = began[q] /\ message'[q] = message[q]

LEMMA OneMoves ==
    ASSUME IInv, NEW r \in Request, Only(r), Tables', Entries', Sane(r)'
    PROVE  IInv'
<1>1. ASSUME NEW q \in Request \ {r} PROVE Sane(q)'
  <2>1. Sane(q)
    BY DEF IInv
  <2> QED BY <2>1, Untouched DEF Only
<1> QED BY <1>1 DEF IInv

\* Layers on the way down: a request that goes on, and one that is answered.
LEMMA Called ==
    ASSUME IInv, NEW r \in Request, NEW s, Calls(r, s), phase[r] = "down", at[r] <= Len(stack),
           DOMAIN s = ScopeFields, CacheKey(s) \in CacheKeys, s.credentials = scope[r].credentials,
           \/ UNCHANGED since
           \/ /\ since' = [since EXCEPT ![r] = now]
              /\ stack[at[r]] = "cache" /\ s.credentials # "authorization"
    PROVE  Sane(r)' /\ Only(r) /\ (UNCHANGED cache => Tables' /\ Entries')
<1>1. Tables /\ Entries /\ Sane(r)
  BY DEF IInv
<1>2. at'[r] = at[r] + 1 /\ scope'[r] = s /\ phase'[r] = "down" /\ UNCHANGED <<now, stack, began, message>>
  BY <1>1 DEF Calls, Tables
<1>3. Only(r) /\ (UNCHANGED cache => Tables' /\ Entries')
  BY <1>1 DEF Calls, Tables, Only, Entries
<1>4. at[r] \in DOMAIN stack
  BY <1>1, OrdersAreLayers DEF Tables, Sane, Passed
<1>5. Timed(r)'
  BY <1>1, <1>2 DEF Tables, Sane, Timed
<1>6. Passed(r)'
  <2>1. CASE UNCHANGED since
    BY <1>1, <1>2, <2>1 DEF Sane, Passed
  <2>2. CASE stack[at[r]] = "cache"
    <3>1. at[r] \in 1..(at'[r] - 1) /\ at'[r] \in Nat \ {0}
      BY <1>1, <1>2 DEF Sane, Passed
    <3> QED BY <1>2, <1>4, <2>2, <3>1 DEF Passed
  <2> QED BY <2>1, <2>2
<1>7. Fit(r)'
  BY <1>2 DEF Fit
<1> QED BY <1>3, <1>5, <1>6, <1>7 DEF Sane

LEMMA Answered ==
    ASSUME IInv, NEW r \in Request, NEW m, Sends(r, m), phase[r] = "down", UNCHANGED <<since, cache>>,
           Whole(m), m.by = None
    PROVE  IInv'
<1>1. Tables /\ Entries /\ Sane(r)
  BY DEF IInv
<1>2. message'[r] = m /\ phase'[r] = "up"
  BY <1>1 DEF Sends, Tables
<1>3. Only(r) /\ Tables' /\ Entries'
  BY <1>1 DEF Sends, Tables, Only, Entries
<1>4. Sane(r)'
  BY <1>1, <1>2 DEF Sends, Sane, Timed, Passed, Fit
<1> QED BY <1>3, <1>4, OneMoves

LEMMA OwnIsWhole == \A status : Whole(Own(status)) /\ Own(status).by = None
  BY DEF Own, Whole, Looked

LEMMA OriginKeeps ==
    ASSUME NEW m, Whole(m), NEW o
    PROVE  SameAnswer(m, WithOrigin(m, o))
  BY DEF WithOrigin, Varying, SameAnswer, Whole, Looked

LEMMA CompressedKeeps ==
    ASSUME NEW m, Whole(m), NEW e
    PROVE  SameAnswer(m, Compressed(m, e))
  BY DEF Compressed, Varying, SameAnswer, Whole, Looked

LEMMA ForwardedKeeps ==
    ASSUME NEW s, DOMAIN s = ScopeFields
    PROVE  /\ DOMAIN Forwarded(s) = ScopeFields /\ CacheKey(Forwarded(s)) = CacheKey(s)
           /\ Forwarded(s).credentials = s.credentials
  BY DEF Forwarded, ScopeFields, CacheKey

\* A layer that lets the request through, in a step that touches no entry.
LEMMA LetOn ==
    ASSUME IInv, NEW r \in Request, NEW s, Calls(r, s), phase[r] = "down", at[r] <= Len(stack),
           DOMAIN s = ScopeFields, CacheKey(s) = CacheKey(scope[r]), UNCHANGED cache,
           s.credentials = scope[r].credentials,
           \/ UNCHANGED since
           \/ /\ since' = [since EXCEPT ![r] = now]
              /\ stack[at[r]] = "cache" /\ s.credentials # "authorization"
    PROVE  IInv'
<1>1. CacheKey(s) \in CacheKeys
  BY DEF IInv, Sane, Passed
<1> QED BY <1>1, Called, OneMoves

LEMMA OfRequest == ASSUME IInv, NEW r \in Request, phase[r] = "down" PROVE DOMAIN scope[r] = ScopeFields
  BY DEF IInv, Sane, Passed

LEMMA ProxyStep == ASSUME IInv, NEW r \in Request, ProxyDown(r) PROVE IInv'
  BY LetOn, OfRequest, ForwardedKeeps DEF ProxyDown, Enters

LEMMA HttpsStep == ASSUME IInv, NEW r \in Request, HttpsDown(r) PROVE IInv'
  BY LetOn, OfRequest, Answered, OwnIsWhole DEF HttpsDown, Enters

LEMMA HostsStep == ASSUME IInv, NEW r \in Request, HostsDown(r) PROVE IInv'
  BY LetOn, OfRequest, Answered, OwnIsWhole DEF HostsDown, Enters

LEMMA CorsStep == ASSUME IInv, NEW r \in Request, CorsDown(r) PROVE IInv'
<1>1. /\ Whole(WithOrigin(Own(200), scope[r].origin))
      /\ WithOrigin(Own(200), scope[r].origin).by = None
  BY OwnIsWhole, OriginKeeps DEF SameAnswer
<1> QED BY <1>1, LetOn, OfRequest, Answered DEF CorsDown, Enters

LEMMA CompressStep == ASSUME IInv, NEW r \in Request, CompressDown(r) PROVE IInv'
  BY LetOn, OfRequest DEF CompressDown, Enters

LEMMA LimitStep == ASSUME IInv, NEW r \in Request, LimitDown(r) PROVE IInv'
<1>1. phase[r] = "down" /\ at[r] <= Len(stack) /\ UNCHANGED <<cache, since>>
  BY DEF LimitDown, Enters
<1>2. CASE Calls(r, scope[r])
  BY <1>1, <1>2, LetOn, OfRequest
<1>3. CASE Sends(r, Own(429))
  BY <1>1, <1>3, OwnIsWhole, Answered
<1> QED BY <1>2, <1>3 DEF LimitDown

\* A hit is for a request that has missed in no cache, and what it is given is
\* fresh and public; a miss is before the application begins.
LEMMA CacheStep == ASSUME IInv, NEW r \in Request, CacheDown(r) PROVE IInv'
<1> DEFINE k == CacheKey(scope[r])
           m == cache[k].message
<1>1. Tables /\ Entries /\ Sane(r) /\ Enters(r, "cache") /\ UNCHANGED <<counters, cache, passed>>
  BY DEF IInv, CacheDown
<1>2. phase[r] = "down" /\ at[r] <= Len(stack) /\ stack[at[r]] = "cache" /\ k \in CacheKeys
      /\ DOMAIN scope[r] = ScopeFields
  BY <1>1 DEF Enters, Sane, Passed
<1>3. ASSUME ~Bypasses(scope[r]), Fresh(k), Sends(r, m), UNCHANGED since PROVE IInv'
  <2>1. since[r] = None
    <3>1. at[r] \in Nat \ {0} /\ at[r] \in DOMAIN stack
      BY <1>1, <1>2, OrdersAreLayers DEF Tables, Sane, Passed
    <3>2. \A i \in 1..(at[r] - 1) : i \in DOMAIN stack => stack[i] # "cache"
      BY <1>1, <1>2, <3>1, OneCache DEF Tables
    <3> QED BY <1>1, <1>2, <3>2 DEF Sane, Passed
  <2>2. /\ cache[k].expires \in Int /\ cache[k].expires > now
        /\ Whole(m) /\ Storable(m) /\ scope[r].credentials # "authorization"
        /\ m.by # None => m.began \in Int /\ cache[k].expires <= m.began + Ttl
                            /\ m.credentials # "authorization"
    BY <1>1, <1>2, <1>3 DEF Entries, Fresh, Bypasses
  <2>3. message'[r] = m /\ phase'[r] = "up" /\ scope'[r] = scope[r] /\ since'[r] = None
        /\ now' = now /\ now \in Int
    BY <1>1, <1>3, <2>1 DEF Sends, Tables
  <2>4. Fit(r)'
    BY <2>2, <2>3, TtlIsNatural DEF Fit, Storable
  <2>5. Timed(r)' /\ Passed(r)'
    BY <2>3 DEF Timed, Passed
  <2>6. Only(r) /\ Tables' /\ Entries'
    BY <1>1, <1>3 DEF Sends, Tables, Only, Entries
  <2> QED BY <2>4, <2>5, <2>6, OneMoves DEF Sane
<1>4. ASSUME Calls(r, scope[r]),
             \/ since' = [since EXCEPT ![r] = now] /\ scope[r].credentials # "authorization"
             \/ UNCHANGED since
      PROVE  IInv'
  BY <1>1, <1>2, <1>4, LetOn
<1> QED BY <1>3, <1>4 DEF CacheDown, Bypasses

-----------------------------------------------------------------------------
\* The request comes, works and goes.

LEMMA ArriveStep == ASSUME IInv, NEW r \in Request, Arrive(r) PROVE IInv'
<1>1. Tables /\ Entries /\ Sane(r)
  BY DEF IInv
<1>2. PICK s \in Scopes[stack] : scope' = [scope EXCEPT ![r] = s]
  BY DEF Arrive
<1>3. DOMAIN s = ScopeFields /\ CacheKey(s) \in CacheKeys
  BY <1>1, ScopesAreWhole DEF Tables, CacheKeys, Known
<1>4. phase'[r] = "down" /\ at'[r] = 1 /\ scope'[r] = s /\ since'[r] = None
  BY <1>1, <1>2 DEF Arrive, Tables, Sane, Timed
<1>5. Sane(r)'
  BY <1>3, <1>4 DEF Sane, Timed, Passed, Fit
<1>6. Only(r) /\ Tables' /\ Entries'
  BY <1>1, <1>2 DEF Arrive, Tables, Only, Entries
<1> QED BY <1>5, <1>6, OneMoves

LEMMA ReachStep == ASSUME IInv, NEW r \in Request, Reach(r) PROVE IInv'
<1>1. Tables /\ Entries /\ Sane(r)
  BY DEF IInv
<1>2. Sane(r)'
  BY <1>1 DEF Reach, Tables, Sane, Timed, Passed, Fit
<1>3. Only(r) /\ Tables' /\ Entries'
  BY <1>1 DEF Reach, Tables, Only, Entries
<1> QED BY <1>2, <1>3, OneMoves

LEMMA AnswerStep == ASSUME IInv, NEW r \in Request, Answer(r) PROVE IInv'
<1>1. Tables /\ Entries /\ Sane(r)
  BY DEF IInv
<1>2. PICK a \in Answers : message' = [message EXCEPT ![r] = Sent(a, r)]
  BY DEF Answer
<1>3. /\ message'[r] = Sent(a, r) /\ phase'[r] = "up" /\ phase[r] = "working"
      /\ UNCHANGED <<now, since, began, scope>>
  BY <1>1, <1>2 DEF Answer, Tables
<1>4. /\ Whole(Sent(a, r)) /\ Sent(a, r).by = r /\ Sent(a, r).began = began[r]
      /\ Sent(a, r).credentials = scope[r].credentials
  BY DEF Whole, Looked, Sent
<1>5. Sane(r)'
  BY <1>1, <1>3, <1>4 DEF Sane, Timed, Passed, Fit
<1>6. Only(r) /\ Tables' /\ Entries'
  BY <1>1, <1>2 DEF Answer, Tables, Only, Entries
<1> QED BY <1>5, <1>6, OneMoves

LEMMA LeaveStep == ASSUME IInv, NEW r \in Request, Leave(r) PROVE IInv'
<1>1. Tables /\ Entries
  BY DEF IInv
<1>2. Sane(r)'
  BY <1>1 DEF Leave, Tables, Sane, Timed, Passed, Fit
<1>3. Only(r) /\ Tables' /\ Entries'
  BY <1>1 DEF Leave, Tables, Only, Entries
<1> QED BY <1>2, <1>3, OneMoves

LEMMA TickStep == ASSUME IInv, Tick PROVE IInv'
<1>1. Tables /\ Entries /\ \A q \in Request : Sane(q)
  BY DEF IInv
<1>2. \A q \in Request : phase[q] \notin {"down", "up"}
  BY DEF Tick, Moving
<1>3. Tables' /\ Entries'
  BY <1>1 DEF Tick, Tables, Entries
<1>4. \A q \in Request : Sane(q)'
  BY <1>1, <1>2 DEF Tick, Tables, Sane, Timed, Passed, Fit
<1> QED BY <1>3, <1>4 DEF IInv

-----------------------------------------------------------------------------
\* Layers on the way up.

LEMMA Raised ==
    ASSUME IInv, NEW r \in Request, NEW m, phase[r] = "up", Raises(r, m), UNCHANGED <<cache, since>>,
           SameAnswer(message[r], m)
    PROVE  IInv'
<1>1. Tables /\ Entries /\ Sane(r)
  BY DEF IInv
<1>2. message'[r] = m /\ UNCHANGED <<now, phase, scope, began, since>>
  BY <1>1 DEF Raises, Tables
<1>3. Sane(r)'
  BY <1>1, <1>2 DEF Sane, Timed, Passed, Fit, SameAnswer
<1>4. Only(r) /\ Tables' /\ Entries'
  BY <1>1 DEF Raises, Tables, Only, Entries
<1> QED BY <1>3, <1>4, OneMoves

LEMMA IsWhole ==
    ASSUME IInv, NEW r \in Request, phase[r] = "up"
    PROVE  Whole(message[r]) /\ SameAnswer(message[r], message[r])
  BY DEF IInv, Sane, Fit, SameAnswer

LEMMA PassUpStep == ASSUME IInv, NEW r \in Request, PassUp(r) PROVE IInv'
  BY Raised, IsWhole DEF PassUp, Returns

LEMMA CorsUpStep == ASSUME IInv, NEW r \in Request, CorsUp(r) PROVE IInv'
  BY Raised, IsWhole, OriginKeeps DEF CorsUp, Returns

LEMMA CompressUpStep == ASSUME IInv, NEW r \in Request, CompressUp(r) PROVE IInv'
<1>1. phase[r] = "up" /\ UNCHANGED <<cache, since>>
  BY DEF CompressUp, Returns
<1>2. PICK e : Raises(r, IF e = None THEN message[r] ELSE Compressed(message[r], e))
  BY DEF CompressUp
<1> QED BY <1>1, <1>2, Raised, IsWhole, CompressedKeeps

\* What is stored is the request's own, and `since' is before it was begun.
LEMMA CacheUpStep == ASSUME IInv, NEW r \in Request, CacheUp(r) PROVE IInv'
<1> DEFINE m == message[r]
           entry == [expires |-> Expiry(r), message |-> m]
           k == CacheKey(scope[r])
           c == [cache EXCEPT ![k] = entry]
<1>1. Tables /\ Entries /\ Sane(r) /\ phase[r] = "up" /\ Whole(m)
  BY DEF IInv, CacheUp, Returns, Sane, Fit
<1>2. ASSUME since[r] # None,
             IF Storable(m) THEN cache' \in Pruned(c) ELSE UNCHANGED cache,
             since' = [since EXCEPT ![r] = None],
             Raises(r, [m EXCEPT !.stream = FALSE])
      PROVE  IInv'
  <2>1. Tables' /\ Entries'
    <3>1. CASE UNCHANGED cache
      BY <1>1, <1>2, <3>1 DEF Tables, Entries, Raises
    <3>2. CASE Storable(m) /\ cache' \in Pruned(c)
      <4>1. /\ Expiry(r) \in Int
            /\ m.by # None => m.began \in Int /\ Expiry(r) <= m.began + Ttl
                           /\ m.credentials # "authorization"
        BY <1>1, <1>2, TtlIsNatural DEF Sane, Timed, Fit, Expiry
      <4>2. DOMAIN c = CacheKeys
        BY <1>1 DEF Tables
      <4>3. \A j \in CacheKeys : c[j] = cache[j] \/ c[j] = entry
        BY <1>1 DEF Tables
      <4>4. DOMAIN cache' = CacheKeys /\ \A j \in CacheKeys : cache'[j] = c[j] \/ cache'[j] = None
        <5> HIDE DEF c
        <5> QED BY <3>2, <4>2 DEF Pruned
      <4>5. \A j \in CacheKeys : cache'[j] # None => cache'[j] = cache[j] \/ cache'[j] = entry
        BY <4>3, <4>4
      <4>6. entry.expires = Expiry(r) /\ entry.message = m
        OBVIOUS
      <4>7. Entries'
        <5> HIDE DEF entry, m
        <5> QED BY <1>1, <1>2, <3>2, <4>1, <4>5, <4>6 DEF Entries
      <4>8. Tables'
        BY <1>1, <1>2, <4>4 DEF Tables, Raises
      <4> QED BY <4>7, <4>8
    <3> QED BY <1>2, <3>1, <3>2
  <2>2. SameAnswer(m, [m EXCEPT !.stream = FALSE])
    BY <1>1 DEF SameAnswer, Whole, Looked
  <2>3. /\ message'[r] = [m EXCEPT !.stream = FALSE] /\ since'[r] = None
        /\ UNCHANGED <<now, phase, scope, began>>
    BY <1>1, <1>2 DEF Raises, Tables
  <2>4. Sane(r)'
    BY <1>1, <1>2, <2>2, <2>3 DEF Sane, Timed, Passed, Fit, SameAnswer
  <2>5. Only(r)
    BY <1>1, <1>2 DEF Only, Raises, Tables
  <2> QED BY <2>1, <2>4, <2>5, OneMoves
<1>3. ASSUME Raises(r, m), UNCHANGED <<cache, since>> PROVE IInv'
  BY <1>1, <1>3, Raised, IsWhole
<1> QED BY <1>2, <1>3 DEF CacheUp

-----------------------------------------------------------------------------

LEMMA StutterStep == ASSUME IInv, UNCHANGED vars PROVE IInv'
  BY DEF IInv, vars, Tables, Entries, Sane, Timed, Passed, Fit

\* The strengthening holds of every stack: what the store holds is public and
\* dated by the request that missed, and so is what any request is given.
THEOREM Inductive == Spec => []IInv
<1>1. Init => IInv
  BY InitIInv
<1>2. IInv /\ [Next]_vars => IInv'
  <2> SUFFICES ASSUME IInv, [Next]_vars PROVE IInv'
    OBVIOUS
  <2>1. CASE UNCHANGED vars
    BY <2>1, StutterStep
  <2>2. CASE Tick
    BY <2>2, TickStep
  <2>3. ASSUME NEW r \in Request, Arrive(r) \/ Reach(r) \/ Answer(r) \/ Cancel(r) \/ Deliver(r)
        PROVE  IInv'
    BY <2>3, ArriveStep, ReachStep, AnswerStep, LeaveStep DEF Cancel, Deliver
  <2>4. ASSUME NEW r \in Request, 
               \/ ProxyDown(r) \/ HttpsDown(r) \/ HostsDown(r) \/ CorsDown(r)
               \/ CompressDown(r) \/ LimitDown(r) \/ CacheDown(r)
        PROVE  IInv'
    BY <2>4, ProxyStep, HttpsStep, HostsStep, CorsStep, CompressStep, LimitStep, CacheStep
  <2>5. ASSUME NEW r \in Request, PassUp(r) \/ CorsUp(r) \/ CompressUp(r) \/ CacheUp(r)
        PROVE  IInv'
    BY <2>5, PassUpStep, CorsUpStep, CompressUpStep, CacheUpStep
  <2> QED BY <2>1, <2>2, <2>3, <2>4, <2>5 DEF Next
<1> QED BY <1>1, <1>2, PTL DEF Spec

\* However requests that miss overlap and however long their answers take,
\* ResponseCacheMiddleware gives to another request nothing older than
\* ttl_seconds, no answer that sets a cookie, says no-store or is an error, and
\* none that was computed for a request with an Authorization header, nor
\* anything at all to one that has it.  Of sessions and Cache-Control: private
\* it promises nothing (SessionKept, PrivateKept).
THEOREM CacheIsHonest == Spec => []CacheHonest
<1>1. IInv => CacheHonest
  BY DEF IInv, Sane, Fit, CacheHonest, NothingStale, NothingAuthorized, Shared
<1> QED BY <1>1, Inductive, PTL

-----------------------------------------------------------------------------
(* The quota.  The windows of a key follow each other: the next begins when *)
(* the last is over, so the ends of two are Window apart at least, and a    *)
(* stretch of Window ticks meets no three of them.                          *)

InWindow(k, w) == {q \in LetThrough(k) : passed[q].window = w}

\* The window under way has counted every request it let through, and is the last.
Counting(k) ==
    LET c == counters[k] IN
    /\ DOMAIN c = {"count", "reset"}
    /\ IF c.reset = None THEN LetThrough(k) = {} ELSE
         /\ c.reset \in Int /\ c.reset <= now + Window
         /\ c.count \in Nat /\ c.count <= MaxRequests
         /\ Cardinality(InWindow(k, c.reset)) <= c.count
         /\ \A q \in LetThrough(k) :
              LET w == passed[q].window IN w = c.reset \/ w + Window <= c.reset

\* A request is let through within its window; windows are full at most, and apart.
InOwnWindow(k, q) ==
    LET w == passed[q].window IN
    /\ w \in Int /\ passed[q].time \in Int
    /\ passed[q].time < w /\ w <= passed[q].time + Window
    /\ Cardinality(InWindow(k, w)) <= MaxRequests
    /\ \A p \in LetThrough(k) :
         LET v == passed[p].window IN v = w \/ v + Window <= w \/ w + Window <= v

Counted(k) ==
    IsFiniteSet(LetThrough(k)) /\ Counting(k) /\ \A q \in LetThrough(k) : InOwnWindow(k, q)

QInv ==
    /\ now \in Int /\ DOMAIN counters = LimitKeys /\ DOMAIN passed = Request
    /\ \A k \in LimitKeys : Counted(k)

LEMMA QuotaBounds == Window \in Nat /\ MaxRequests \in Nat
  BY StackBounds

LEMMA QInit == Init => QInv
<1> SUFFICES ASSUME Init PROVE QInv
  OBVIOUS
<1>1. /\ now \in Int /\ DOMAIN counters = LimitKeys /\ DOMAIN passed = Request
      /\ \A k \in LimitKeys : counters[k].reset = None /\ DOMAIN counters[k] = {"count", "reset"}
      /\ \A r \in Request : passed[r] = None
  BY DEF Init
<1>2. \A k : LetThrough(k) = {}
  BY <1>1 DEF LetThrough
<1> QED
  BY <1>1, <1>2, FS_EmptySet DEF QInv, Counted, Counting

\* Part of a finite set is finite, and no larger.
LEMMA Fewer ==
    ASSUME NEW S, IsFiniteSet(S), NEW T \in SUBSET S
    PROVE  /\ IsFiniteSet(T) /\ Cardinality(T) \in Nat /\ Cardinality(S) \in Nat
           /\ Cardinality(T) <= Cardinality(S)
  BY FS_Subset, FS_CardinalityType

\* Two finite sets together are no larger than their sum.
LEMMA Together ==
    ASSUME NEW S, IsFiniteSet(S), NEW T, IsFiniteSet(T), NEW U, U \subseteq S \cup T
    PROVE  IsFiniteSet(U) /\ Cardinality(U) \in Nat /\ Cardinality(U) <= Cardinality(S) + Cardinality(T)
<1>1. /\ IsFiniteSet(S \cup T)
      /\ Cardinality(S \cup T) = Cardinality(S) + Cardinality(T) - Cardinality(S \cap T)
  BY FS_Union
<1>2. IsFiniteSet(S \cap T)
  BY Fewer
<1>3. /\ Cardinality(S) \in Nat /\ Cardinality(T) \in Nat /\ Cardinality(S \cap T) \in Nat
      /\ Cardinality(S \cup T) \in Nat
  BY <1>1, <1>2, FS_CardinalityType
<1>4. IsFiniteSet(U) /\ Cardinality(U) \in Nat /\ Cardinality(U) <= Cardinality(S \cup T)
  BY <1>1, Fewer
<1> QED
  BY <1>1, <1>3, <1>4

\* Whoever touches neither the table nor the record of it moves no window.
LEMMA SameCounts ==
    ASSUME QInv, UNCHANGED <<counters, passed>>, now' \in Int, now <= now'
    PROVE  QInv'
<1> SUFFICES ASSUME NEW k \in LimitKeys PROVE Counted(k)'
  BY DEF QInv
<1>1. Counted(k) /\ now \in Int
  BY DEF QInv
<1>2. LetThrough(k)' = LetThrough(k) /\ \A w : InWindow(k, w)' = InWindow(k, w)
  BY DEF LetThrough, InWindow
<1>3. Counting(k)'
  BY <1>1, <1>2, QuotaBounds DEF Counted, Counting, LetThrough, InWindow
<1>4. \A q \in LetThrough(k) : InOwnWindow(k, q)'
  BY <1>1, <1>2 DEF Counted, InOwnWindow, LetThrough, InWindow
<1> QED
  BY <1>1, <1>2, <1>3, <1>4 DEF Counted

\* A request that is let through is counted, in the window under way or, that
\* over, in one that begins now.
LEMMA LimitKeeps ==
    ASSUME QInv, Window > 0, NEW r \in Request, LimitDown(r)
    PROVE  QInv'
<1>0. PICK k, c : k = LimitKey(scope[r]) /\ c = Current(k)
  OBVIOUS
<1> DEFINE w == c.reset
<1>1. now' = now /\ now \in Int
  BY DEF LimitDown, Sends, Calls, QInv
<1>2. CASE UNCHANGED <<counters, passed>>
  BY <1>1, <1>2, SameCounts
<1>3. CASE /\ c.count < MaxRequests
           /\ counters' = [counters EXCEPT ![k] = [c EXCEPT !.count = @ + 1]]
           /\ passed' = [passed EXCEPT ![r] = [key |-> k, time |-> now, window |-> w]]
  <2>1. /\ DOMAIN counters' = LimitKeys /\ DOMAIN passed' = Request
        /\ \A j \in LimitKeys \ {k} : counters'[j] = counters[j]
        /\ \A q \in Request \ {r} : passed'[q] = passed[q]
        /\ passed'[r].key = k /\ passed'[r].time = now /\ passed'[r].window = w
    BY <1>3 DEF QInv
  <2>2. ASSUME NEW j \in LimitKeys, j # k PROVE Counted(j)'
    <3>1. Counted(j)
      BY DEF QInv
    <3> HIDE DEF w
    <3>2. /\ LetThrough(j)' = LetThrough(j) \ {r}
          /\ \A v : InWindow(j, v)' = InWindow(j, v) \ {r}
      BY <2>1, <2>2 DEF LetThrough, InWindow
    <3>3. \A v : IsFiniteSet(InWindow(j, v)) /\ Cardinality(InWindow(j, v)) \in Nat
      BY <3>1, Fewer DEF Counted, InWindow
    <3>4. \A v : /\ Cardinality(InWindow(j, v)') \in Nat
                /\ Cardinality(InWindow(j, v)') <= Cardinality(InWindow(j, v))
      BY <3>2, <3>3, Fewer
    <3>5. IsFiniteSet(LetThrough(j)')
      BY <3>1, <3>2, Fewer DEF Counted
    <3>6. Counting(j)'
      <4>1. Counting(j) /\ counters'[j] = counters[j]
        BY <3>1, <2>1, <2>2 DEF Counted
      <4>2. \A q \in LetThrough(j)' : q \in LetThrough(j) /\ passed'[q] = passed[q]
        BY <3>2, <2>1 DEF LetThrough
      <4> QED
        BY <4>1, <4>2, <3>2, <3>3, <3>4, <1>1, QuotaBounds DEF Counting
    <3>7. ASSUME NEW q \in LetThrough(j)' PROVE InOwnWindow(j, q)'
      <4>1. InOwnWindow(j, q) /\ passed'[q] = passed[q]
        BY <3>1, <3>2, <2>1 DEF Counted, LetThrough
      <4>2. \A p \in LetThrough(j)' : p \in LetThrough(j) /\ passed'[p] = passed[p]
        BY <3>2, <2>1 DEF LetThrough
      <4> QED
        BY <4>1, <4>2, <3>3, <3>4, QuotaBounds DEF InOwnWindow
    <3> QED
      BY <3>5, <3>6, <3>7 DEF Counted
  <2>3. ASSUME k \in LimitKeys PROVE Counted(k)'
    <3>1. Counted(k) /\ Counting(k) /\ DOMAIN counters[k] = {"count", "reset"}
      BY <2>3 DEF QInv, Counted, Counting
    <3>2. /\ w \in Int /\ now < w /\ w <= now + Window
          /\ c.count \in Nat /\ Cardinality(InWindow(k, w)) <= c.count
          /\ DOMAIN c = {"count", "reset"}
          /\ \A q \in LetThrough(k) : LET v == passed[q].window IN v = w \/ v + Window <= w
      <4>1. CASE counters[k].reset = None
        <5>1. LetThrough(k) = {} /\ InWindow(k, w) = {}
          BY <4>1, <3>1 DEF Counting, InWindow
        <5>2. c = [count |-> 0, reset |-> now + Window]
          BY <1>0, <4>1 DEF Current
        <5> QED
          BY <5>1, <5>2, <1>1, QuotaBounds, FS_EmptySet
      <4>2. CASE counters[k].reset # None /\ now >= counters[k].reset
        <5>1. c = [count |-> 0, reset |-> now + Window]
          BY <1>0, <4>2 DEF Current
        <5>2. w = now + Window /\ c.count = 0 /\ DOMAIN c = {"count", "reset"}
          BY <5>1
        <5>3. \A q \in LetThrough(k) : InOwnWindow(k, q)
          BY <3>1 DEF Counted
        <5>4. /\ counters[k].reset \in Int
              /\ \A q \in LetThrough(k) : passed[q].window \in Int /\ passed[q].window <= counters[k].reset
          BY <4>2, <3>1, <5>3, QuotaBounds DEF Counting, InOwnWindow
        <5> HIDE DEF w
        <5>5. \A q \in LetThrough(k) : passed[q].window # w /\ passed[q].window + Window <= w
          BY <5>2, <5>4, <4>2, <1>1, QuotaBounds
        <5>6. InWindow(k, w) = {}
          BY <5>5 DEF InWindow
        <5>7. w \in Int /\ now < w /\ w <= now + Window /\ c.count \in Nat
          BY <5>2, <1>1, QuotaBounds
        <5>8. Cardinality(InWindow(k, w)) <= c.count
          BY <5>2, <5>6, FS_EmptySet
        <5> QED
          BY <5>2, <5>5, <5>7, <5>8
      <4>3. CASE counters[k].reset # None /\ ~(now >= counters[k].reset)
        <5>1. c = counters[k]
          BY <1>0, <4>3 DEF Current
        <5> QED
          BY <5>1, <4>3, <3>1, <1>1 DEF Counting
      <4> QED
        BY <4>1, <4>2, <4>3
    <3>3. /\ counters'[k].reset = w /\ counters'[k].count = c.count + 1
          /\ DOMAIN counters'[k] = {"count", "reset"}
      <4>1. counters'[k] = [c EXCEPT !.count = @ + 1]
        BY <1>3, <2>3 DEF QInv
      <4> QED
        BY <3>2, <4>1
    <3>4. c.count < MaxRequests
      BY <1>3
    <3> HIDE DEF w
    <3>5. LetThrough(k)' \subseteq LetThrough(k) \cup {r}
      BY <2>1 DEF LetThrough
    <3>6. \A v : InWindow(k, v)' \subseteq InWindow(k, v) \cup (IF v = w THEN {r} ELSE {})
      BY <2>1, <3>5 DEF LetThrough, InWindow
    <3>7. IsFiniteSet({r}) /\ Cardinality({r}) = 1 /\ IsFiniteSet({}) /\ Cardinality({}) = 0
      BY FS_Singleton, FS_EmptySet
    <3>8. \A v : IsFiniteSet(InWindow(k, v)) /\ Cardinality(InWindow(k, v)) \in Nat
      BY <3>1, Fewer DEF Counted, InWindow
    <3>9. IsFiniteSet(LetThrough(k)')
      BY <3>1, <3>5, <3>7, Together DEF Counted
    <3>10. Cardinality(InWindow(k, w)') \in Nat /\ Cardinality(InWindow(k, w)') <= c.count + 1
      <4>1. InWindow(k, w)' \subseteq InWindow(k, w) \cup {r}
        BY <3>6
      <4>2. /\ Cardinality(InWindow(k, w)') \in Nat
            /\ Cardinality(InWindow(k, w)') <= Cardinality(InWindow(k, w)) + 1
        BY <4>1, <3>7, <3>8, Together
      <4> QED
        BY <4>2, <3>2, <3>8
    <3>11. \A v : v # w => /\ Cardinality(InWindow(k, v)') \in Nat
                           /\ Cardinality(InWindow(k, v)') <= Cardinality(InWindow(k, v))
      BY <3>6, <3>8, Fewer
    <3>12. \A q \in LetThrough(k)' :
             \/ q = r /\ passed'[q].window = w
             \/ q \in LetThrough(k) /\ passed'[q] = passed[q]
      BY <2>1, <3>5 DEF LetThrough
    <3>13. w # None
      BY <3>2, NoneIsNothing
    <3>14. Counting(k)'
      <4>1. c.count + 1 \in Nat /\ c.count + 1 <= MaxRequests /\ w <= now' + Window
        BY <3>2, <3>4, <1>1, QuotaBounds
      <4>2. \A q \in LetThrough(k)' : passed'[q].window = w \/ passed'[q].window + Window <= w
        BY <3>2, <3>12
      <4> QED
        BY <4>1, <4>2, <3>2, <3>3, <3>10, <3>13 DEF Counting
    <3>15. ASSUME NEW q \in LetThrough(k)' PROVE InOwnWindow(k, q)'
      <4>1. CASE passed'[q].window = w
        <5>1. passed'[q].time \in Int /\ passed'[q].time < w /\ w <= passed'[q].time + Window
          <6>1. CASE q = r
            BY <6>1, <2>1, <3>2, <1>1
          <6>2. CASE q \in LetThrough(k) /\ passed'[q] = passed[q]
            BY <6>2, <4>1, <3>1 DEF Counted, InOwnWindow
          <6> QED
            BY <6>1, <6>2, <3>12
        <5>2. \A p \in LetThrough(k)' : passed'[p].window = w \/ passed'[p].window + Window <= w
          BY <3>2, <3>12
        <5>3. Cardinality(InWindow(k, passed[q].window)') <= MaxRequests
          BY <4>1, <3>2, <3>4, <3>10, QuotaBounds DEF InWindow
        <5> QED
          BY <5>1, <5>2, <5>3, <4>1, <3>2 DEF InOwnWindow, InWindow
      <4>2. CASE passed'[q].window # w
        <5>1. q \in LetThrough(k) /\ passed'[q] = passed[q] /\ InOwnWindow(k, q)
          BY <4>2, <3>12, <3>1 DEF Counted
        <5>2. passed[q].window + Window <= w
          BY <5>1, <4>2, <3>2
        <5>3. \A p \in LetThrough(k)' :
                \/ passed'[p].window = w
                \/ p \in LetThrough(k) /\ passed'[p] = passed[p]
          BY <3>12
        <5> QED
          BY <5>1, <5>2, <5>3, <4>2, <3>8, <3>11, QuotaBounds DEF InOwnWindow
      <4> QED
        BY <4>1, <4>2
    <3> QED
      BY <3>9, <3>14, <3>15 DEF Counted
  <2>4. \A j \in LimitKeys : Counted(j)'
    BY <2>2, <2>3
  <2> QED
    BY <2>1, <2>4, <1>1 DEF QInv
<1> QED
  BY <1>0, <1>2, <1>3 DEF LimitDown

LEMMA QNext == ASSUME QInv, Window > 0, [Next]_vars PROVE QInv'
<1>1. CASE UNCHANGED <<counters, passed>> /\ now' \in Int /\ now <= now'
  BY <1>1, SameCounts
<1>2. now \in Int
  BY DEF QInv
<1>3. CASE Tick
  BY <1>1, <1>2, <1>3 DEF Tick
<1>4. CASE UNCHANGED vars
  BY <1>1, <1>2, <1>4 DEF vars
<1>5. ASSUME NEW r \in Request, Arrive(r) \/ Reach(r) \/ Answer(r) \/ Cancel(r) \/ Deliver(r)
      PROVE  QInv'
  BY <1>1, <1>2, <1>5 DEF Arrive, Reach, Answer, Cancel, Deliver, Leave
<1>6. ASSUME NEW r \in Request, ProxyDown(r) \/ HttpsDown(r) \/ HostsDown(r) \/ CorsDown(r)
                                \/ CompressDown(r) \/ CacheDown(r)
      PROVE  QInv'
  BY <1>1, <1>2, <1>6 DEF ProxyDown, HttpsDown, HostsDown, CorsDown, CompressDown, CacheDown, Calls, Sends
<1>7. ASSUME NEW r \in Request, PassUp(r) \/ CorsUp(r) \/ CompressUp(r) \/ CacheUp(r)
      PROVE  QInv'
  BY <1>1, <1>2, <1>7 DEF PassUp, CorsUp, CompressUp, CacheUp, Raises
<1>8. ASSUME NEW r \in Request, LimitDown(r)
      PROVE  QInv'
  BY <1>8, LimitKeeps
<1> QED
  BY <1>3, <1>4, <1>5, <1>6, <1>7, <1>8 DEF Next

\* In a stretch of Window ticks no three windows have let requests through.
LEMMA TwoWindows ==
    ASSUME QInv, NEW k \in LimitKeys, NEW from \in Int
    PROVE  Cardinality({q \in LetThrough(k) : passed[q].time \in from..(from + Window - 1)})
             <= 2 * MaxRequests
<1> DEFINE T == {q \in LetThrough(k) : passed[q].time \in from..(from + Window - 1)}
<1>1. Counted(k) /\ IsFiniteSet(LetThrough(k))
  BY DEF QInv, Counted
<1>2. \A q \in T : /\ q \in LetThrough(k) /\ InOwnWindow(k, q)
                  /\ from <= passed[q].time /\ passed[q].time <= from + Window - 1
  BY <1>1 DEF Counted, InOwnWindow
<1>3. \A w : IsFiniteSet(InWindow(k, w)) /\ Cardinality(InWindow(k, w)) \in Nat
  BY <1>1, Fewer DEF InWindow
<1>4. \A q \in T : /\ q \in InWindow(k, passed[q].window)
                  /\ Cardinality(InWindow(k, passed[q].window)) <= MaxRequests
  BY <1>2 DEF InWindow, InOwnWindow
<1> HIDE DEF T
<1>5. ASSUME T = {}
      PROVE  Cardinality(T) <= 2 * MaxRequests
  BY <1>5, FS_EmptySet, QuotaBounds
<1>6. ASSUME NEW q1 \in T, \A q \in T : passed[q].window = passed[q1].window
      PROVE  Cardinality(T) <= 2 * MaxRequests
  <2>1. T \subseteq InWindow(k, passed[q1].window)
    BY <1>4, <1>6
  <2>2. Cardinality(T) \in Nat /\ Cardinality(T) <= Cardinality(InWindow(k, passed[q1].window))
    BY <2>1, <1>3, Fewer
  <2> QED
    BY <2>2, <1>3, <1>4, QuotaBounds
<1>7. ASSUME NEW q1 \in T, NEW q2 \in T, passed[q2].window # passed[q1].window
      PROVE  Cardinality(T) <= 2 * MaxRequests
  <2>1. ASSUME NEW q \in T PROVE passed[q].window \in {passed[q1].window, passed[q2].window}
    <3>1. LET w == passed[q].window
              w1 == passed[q1].window
              w2 == passed[q2].window
              t == passed[q].time
              t1 == passed[q1].time
              t2 == passed[q2].time IN
          /\ w \in Int /\ w1 \in Int /\ w2 \in Int /\ t \in Int /\ t1 \in Int /\ t2 \in Int
          /\ t < w /\ w <= t + Window /\ t1 < w1 /\ w1 <= t1 + Window /\ t2 < w2 /\ w2 <= t2 + Window
          /\ from <= t /\ t <= from + Window - 1 /\ from <= t1 /\ t1 <= from + Window - 1
          /\ from <= t2 /\ t2 <= from + Window - 1
          /\ w = w1 \/ w + Window <= w1 \/ w1 + Window <= w
          /\ w = w2 \/ w + Window <= w2 \/ w2 + Window <= w
          /\ w1 + Window <= w2 \/ w2 + Window <= w1
      BY <1>2, <1>7 DEF InOwnWindow
    <3> QED
      BY <3>1, QuotaBounds
  <2>2. T \subseteq InWindow(k, passed[q1].window) \cup InWindow(k, passed[q2].window)
    BY <2>1, <1>4
  <2>3. Cardinality(T) \in Nat
        /\ Cardinality(T) <= Cardinality(InWindow(k, passed[q1].window))
                               + Cardinality(InWindow(k, passed[q2].window))
    BY <2>2, <1>3, Together
  <2> QED
    BY <2>3, <1>3, <1>4, QuotaBounds
<1> QED
  BY <1>5, <1>6, <1>7 DEF T

\* For every order of the layers, limit and window: RateLimitMiddleware lets no
\* key through more than max_requests times in a window, nor more than twice
\* that in any window_seconds.  (A window of no length limits nothing.)
THEOREM LimitHolds == ASSUME Window > 0 PROVE Spec => []Quota
<1>1. QInv => Quota
  <2> SUFFICES ASSUME QInv PROVE Quota
    OBVIOUS
  <2>1. ASSUME NEW k \in LimitKeys, NEW r \in LetThrough(k)
        PROVE  Cardinality({q \in LetThrough(k) : passed[q].window = passed[r].window}) <= MaxRequests
    BY DEF QInv, Counted, InOwnWindow, InWindow
  <2>2. ASSUME NEW k \in LimitKeys, NEW from \in 0..now
        PROVE  Cardinality({q \in LetThrough(k) : passed[q].time \in from..(from + Window - 1)})
                 <= 2 * MaxRequests
    BY TwoWindows
  <2> QED
    BY <2>1, <2>2 DEF Quota
<1>2. QInv /\ [Next]_vars => QInv'
  BY QNext
<1> QED
  BY <1>1, <1>2, QInit, PTL DEF Spec

-----------------------------------------------------------------------------
(* The client's answer.  What is at a cache, or above it on its way there,  *)
(* names no origin and varies by nothing, so what it has stored suits every *)
(* client; the layers above write for the client they have.                 *)

\* What the layers write into an answer, and an answer that has it.
Written == {"size", "length", "coding", "events", "origin", "vary"}
Full(m) == Whole(m) /\ Written \subseteq DOMAIN m

Plain(m) == m.vary = {} /\ m.origin = None
Measured(m) == m.length = m.size /\ Len(m.coding) <= 1

\* The answer m is right for a client whose request is s.
Right(m, s) ==
    /\ Measured(m)
    /\ "Accept-Encoding" \in m.vary => m.coding[1] \in s.named
    /\ m.origin \in {None, Star, s.origin}
    /\ m.origin \notin {None, Star} => "Origin" \in m.vary

Within(r) ==
    /\ phase[r] \in {"down", "working"} => at[r] \in 1..(Len(stack) + 1)
    /\ phase[r] = "up" => at[r] \in 0..Len(stack)

Client(r) ==
    phase[r] = "up" =>
        /\ Full(message[r]) /\ Right(message[r], scope[r])
        /\ \A i \in 1..at[r] : stack[i] = "cache" => Plain(message[r])

Stored ==
    \A k \in CacheKeys : cache[k] # None =>
        Full(cache[k].message) /\ Plain(cache[k].message) /\ Measured(cache[k].message)

RInv == Stored /\ \A r \in Request : Within(r) /\ Client(r)

\* No layer that writes into an answer is below a cache.
CacheInnermost ==
    \A o \in Orders : \A i, j \in DOMAIN o :
        i < j /\ o[i] = "cache" => o[j] \notin {"gzip", "compress", "cors"}

LEMMA Depth ==
    ASSUME IInv
    PROVE  Len(stack) \in Nat /\ DOMAIN stack = 1..Len(stack)
<1>1. stack \in Seq(Layers)
  BY OrdersAreLayers DEF IInv, Tables
<1> QED
  BY <1>1

LEMMA PlainIsRight ==
    ASSUME NEW m, Plain(m), Measured(m), NEW s
    PROVE  Right(m, s)
  BY DEF Plain, Right

\* What an application or a layer answers is plain.
LEMMA OwnIsPlain ==
    ASSUME NEW status
    PROVE  Full(Own(status)) /\ Plain(Own(status)) /\ Measured(Own(status))
<1>1. DOMAIN Own(status) = Looked \cup Written \cup {"length"}
  BY DEF Own, Looked, Written
<1>2. Own(status).length = Own(status).size /\ Own(status).coding = <<>>
  BY DEF Own
<1>3. Len(<<>>) = 0
  OBVIOUS
<1> QED
  BY <1>1, <1>2, <1>3 DEF Own, Full, Whole, Plain, Measured

LEMMA SentIsPlain ==
    ASSUME NEW a \in Answers, NEW r
    PROVE  Full(Sent(a, r)) /\ Plain(Sent(a, r)) /\ Measured(Sent(a, r))
<1>1. DOMAIN Sent(a, r) = Looked \cup Written \cup {"length"}
  BY DEF Sent, Looked, Written
<1>2. Sent(a, r).length = Sent(a, r).size /\ Sent(a, r).coding = a.coding
  BY DEF Sent
<1> QED
  BY <1>1, <1>2, AnswersCodedOnce DEF Sent, Full, Whole, Plain, Measured

\* A layer allows the origin of the request it has.
LEMMA OriginIsRight ==
    ASSUME NEW m, Full(m), NEW s, Right(m, s)
    PROVE  Full(WithOrigin(m, s.origin)) /\ Right(WithOrigin(m, s.origin), s)
<1>1. CASE WithOrigin(m, s.origin) = m
  BY <1>1
<1>2. CASE WithOrigin(m, s.origin) = [m EXCEPT !.origin = Star]
  BY <1>2 DEF Full, Whole, Looked, Written, Right, Measured
<1>3. CASE WithOrigin(m, s.origin) = Varying([m EXCEPT !.origin = s.origin], "Origin")
  BY <1>3 DEF Varying, Full, Whole, Looked, Written, Right, Measured
<1> QED
  BY <1>1, <1>2, <1>3 DEF WithOrigin

\* The coding that is chosen is one the client names.
LEMMA SelectedNamed ==
    ASSUME NEW prefer, NEW s, Selected(prefer, s) # None
    PROVE  Selected(prefer, s) \in s.named
  BY DEF Selected, Preferred

LEMMA CompressedIsRight ==
    ASSUME NEW m, Full(m), NEW s, Right(m, s), NEW e \in s.named
    PROVE  Full(Compressed(m, e)) /\ Right(Compressed(m, e), s)
<1>1. CASE Compressed(m, e) = [m EXCEPT !.stream = FALSE]
  BY <1>1 DEF Full, Whole, Looked, Written, Right, Measured
<1>2. CASE Compressed(m, e) = Varying([m EXCEPT !.coding = <<e>>, !.size = Packed, !.length = Packed],
                                      "Accept-Encoding")
  <2>1. Len(<<e>>) = 1 /\ <<e>>[1] = e
    OBVIOUS
  <2> DEFINE c == Compressed(m, e)
  <2>2. /\ DOMAIN c = DOMAIN m /\ c.coding = <<e>> /\ c.size = Packed /\ c.length = Packed
        /\ c.origin = m.origin /\ c.vary = m.vary \cup {"Accept-Encoding"}
    BY <1>2 DEF Varying, Full, Whole, Looked, Written
  <2> HIDE DEF c
  <2>3. Full(c) /\ Right(c, s)
    BY <2>1, <2>2 DEF Full, Whole, Right, Measured
  <2> QED
    BY <2>3 DEF c
<1> QED
  BY <1>1, <1>2 DEF Compressed

\* A step of request r that stores nothing.
LEMMA Served ==
    ASSUME IInv, RInv, NEW r \in Request, Only(r), UNCHANGED cache, Within(r)', Client(r)'
    PROVE  RInv'
<1>1. Stored'
  BY DEF RInv, Stored
<1>2. ASSUME NEW q \in Request \ {r} PROVE Within(q)' /\ Client(q)'
  <2>1. Within(q) /\ Client(q)
    BY DEF RInv
  <2> QED
    BY <2>1 DEF Only, Within, Client
<1> QED
  BY <1>1, <1>2 DEF RInv

LEMMA Goes ==
    ASSUME IInv, RInv, NEW r \in Request, NEW s, Calls(r, s), phase[r] = "down", at[r] <= Len(stack),
           UNCHANGED cache,
           \/ UNCHANGED since
           \/ since' = [since EXCEPT ![r] = now]
    PROVE  RInv'
<1>1. Within(r) /\ Tables /\ Len(stack) \in Nat
  BY Depth DEF RInv, IInv
<1>2. phase'[r] = "down" /\ at'[r] = at[r] + 1 /\ stack' = stack
  BY <1>1 DEF Calls, Tables
<1>3. Within(r)' /\ Client(r)'
  BY <1>1, <1>2 DEF Within, Client
<1>4. Only(r)
  BY <1>1 DEF Calls, Tables, Only
<1> QED
  BY <1>3, <1>4, Served

LEMMA Replies ==
    ASSUME IInv, RInv, NEW r \in Request, NEW m, Sends(r, m), phase[r] = "down", at[r] <= Len(stack),
           UNCHANGED <<cache, since>>, Full(m), Right(m, scope[r]),
           \A i \in 1..(at[r] - 1) : stack[i] = "cache" => Plain(m)
    PROVE  RInv'
<1>1. Within(r) /\ Tables /\ Len(stack) \in Nat
  BY Depth DEF RInv, IInv
<1>2. phase'[r] = "up" /\ at'[r] = at[r] - 1 /\ stack' = stack /\ message'[r] = m /\ scope'[r] = scope[r]
  BY <1>1 DEF Sends, Tables
<1>3. Within(r)' /\ Client(r)'
  BY <1>1, <1>2 DEF Within, Client
<1>4. Only(r)
  BY <1>1 DEF Sends, Tables, Only
<1> QED
  BY <1>3, <1>4, Served

LEMMA RepliesPlain ==
    ASSUME IInv, RInv, NEW r \in Request, NEW m, Sends(r, m), phase[r] = "down", at[r] <= Len(stack),
           UNCHANGED <<cache, since>>, Full(m), Plain(m), Measured(m)
    PROVE  RInv'
  BY Replies, PlainIsRight

\* A layer on the way up: one that writes has no cache above it.
LEMMA Rises ==
    ASSUME IInv, RInv, NEW r \in Request, NEW m, Raises(r, m), phase[r] = "up", at[r] > 0,
           Full(m), Right(m, scope[r]),
           \A i \in 1..(at[r] - 1) : stack[i] = "cache" => Plain(m),
           \A q \in Request \ {r} : since'[q] = since[q]
    PROVE  Within(r)' /\ Client(r)' /\ Only(r)
<1>1. Within(r) /\ Tables /\ Len(stack) \in Nat
  BY Depth DEF RInv, IInv
<1>2. phase'[r] = "up" /\ at'[r] = at[r] - 1 /\ stack' = stack /\ message'[r] = m /\ scope'[r] = scope[r]
  BY <1>1 DEF Raises, Tables
<1>3. Within(r)' /\ Client(r)'
  BY <1>1, <1>2 DEF Within, Client
<1>4. Only(r)
  BY <1>1 DEF Raises, Tables, Only
<1> QED
  BY <1>3, <1>4

LEMMA AtLayer ==
    ASSUME IInv, RInv, NEW r \in Request, phase[r] = "up", at[r] > 0
    PROVE  /\ at[r] \in DOMAIN stack /\ at[r] \in Nat /\ 1..(at[r] - 1) \subseteq DOMAIN stack
           /\ 1..(at[r] - 1) \subseteq 1..at[r]
           /\ Full(message[r]) /\ Right(message[r], scope[r])
           /\ \A i \in 1..at[r] : stack[i] = "cache" => Plain(message[r])
<1>1. Within(r) /\ Client(r) /\ Len(stack) \in Nat /\ DOMAIN stack = 1..Len(stack)
  BY Depth DEF RInv
<1>2. at[r] \in Nat /\ at[r] <= Len(stack)
  BY <1>1 DEF Within
<1> QED
  BY <1>1, <1>2 DEF Client

LEMMA NoCacheAbove ==
    ASSUME CacheInnermost, IInv, NEW j \in DOMAIN stack, stack[j] \in {"gzip", "compress", "cors"}
    PROVE  \A i \in 1..(j - 1) : stack[i] # "cache"
<1>1. stack \in Orders /\ Len(stack) \in Nat /\ DOMAIN stack = 1..Len(stack)
  BY Depth DEF IInv, Tables
<1>2. j \in Nat /\ \A i \in 1..(j - 1) : i \in DOMAIN stack /\ i < j
  BY <1>1
<1> QED
  BY <1>1, <1>2 DEF CacheInnermost

LEMMA RightDown ==
    ASSUME CacheInnermost, IInv, RInv, NEW r \in Request,
           \/ ProxyDown(r) \/ HttpsDown(r) \/ HostsDown(r) \/ CorsDown(r)
           \/ CompressDown(r) \/ LimitDown(r) \/ CacheDown(r)
    PROVE  RInv'
<1>1. /\ phase[r] = "down" /\ at[r] <= Len(stack) /\ UNCHANGED cache
      /\ at[r] \in DOMAIN stack /\ Tables /\ Entries /\ Passed(r)
  <2>1. phase[r] = "down" /\ at[r] <= Len(stack) /\ UNCHANGED cache
    BY DEF ProxyDown, HttpsDown, HostsDown, CorsDown, CompressDown, LimitDown, CacheDown, Enters
  <2>2. Within(r) /\ Len(stack) \in Nat /\ DOMAIN stack = 1..Len(stack)
    BY Depth DEF RInv
  <2> QED
    BY <2>1, <2>2 DEF Within, IInv, Sane
<1>2. CASE ProxyDown(r)
  BY <1>1, <1>2, Goes DEF ProxyDown
<1>3. CASE HttpsDown(r)
  BY <1>1, <1>3, Goes, RepliesPlain, OwnIsPlain DEF HttpsDown
<1>4. CASE HostsDown(r)
  BY <1>1, <1>4, Goes, RepliesPlain, OwnIsPlain DEF HostsDown
<1>5. CASE CorsDown(r)
  <2>1. CASE Calls(r, scope[r])
    BY <1>1, <1>5, <2>1, Goes DEF CorsDown
  <2>2. CASE Sends(r, WithOrigin(Own(200), scope[r].origin))
    <3>1. /\ Full(WithOrigin(Own(200), scope[r].origin))
          /\ Right(WithOrigin(Own(200), scope[r].origin), scope[r])
      BY OwnIsPlain, PlainIsRight, OriginIsRight
    <3>2. \A i \in 1..(at[r] - 1) : stack[i] # "cache"
      BY <1>1, <1>5, NoCacheAbove DEF CorsDown, Enters
    <3> QED
      BY <1>1, <1>5, <2>2, <3>1, <3>2, Replies DEF CorsDown
  <2> QED
    BY <1>5, <2>1, <2>2 DEF CorsDown
<1>6. CASE CompressDown(r)
  BY <1>1, <1>6, Goes DEF CompressDown
<1>7. CASE LimitDown(r)
  <2>1. CASE Calls(r, scope[r])
    BY <1>1, <1>7, <2>1, Goes DEF LimitDown
  <2>2. CASE Sends(r, Own(429))
    BY <1>1, <1>7, <2>2, RepliesPlain, OwnIsPlain DEF LimitDown
  <2> QED
    BY <1>7, <2>1, <2>2 DEF LimitDown
<1>8. CASE CacheDown(r)
  <2>1. CASE Calls(r, scope[r])
    BY <1>1, <1>8, <2>1, Goes DEF CacheDown
  <2>2. CASE Sends(r, cache[CacheKey(scope[r])].message) /\ Fresh(CacheKey(scope[r])) /\ UNCHANGED since
    <3>1. CacheKey(scope[r]) \in CacheKeys
      BY <1>1 DEF Passed
    <3>2. /\ Full(cache[CacheKey(scope[r])].message) /\ Plain(cache[CacheKey(scope[r])].message)
          /\ Measured(cache[CacheKey(scope[r])].message)
      BY <2>2, <3>1 DEF RInv, Stored, Fresh
    <3> QED
      BY <1>1, <2>2, <3>2, RepliesPlain
  <2> QED
    BY <1>8, <2>1, <2>2 DEF CacheDown
<1> QED
  BY <1>2, <1>3, <1>4, <1>5, <1>6, <1>7, <1>8

LEMMA RightUp ==
    ASSUME CacheInnermost, IInv, RInv, NEW r \in Request, PassUp(r) \/ CorsUp(r) \/ CompressUp(r)
    PROVE  RInv'
<1>1. phase[r] = "up" /\ at[r] > 0 /\ UNCHANGED <<cache, since>>
  BY DEF PassUp, CorsUp, CompressUp, Returns
<1>2. ASSUME NEW m, Raises(r, m), Full(m), Right(m, scope[r]),
             m = message[r] \/ \A i \in 1..(at[r] - 1) : stack[i] # "cache"
      PROVE  RInv'
  <2>1. \A i \in 1..(at[r] - 1) : stack[i] = "cache" => Plain(m)
    BY <1>1, <1>2, AtLayer
  <2> QED
    BY <1>1, <1>2, <2>1, Rises, Served
<1>3. Full(message[r]) /\ Right(message[r], scope[r])
  BY <1>1, AtLayer
<1>4. CASE PassUp(r)
  BY <1>2, <1>3, <1>4 DEF PassUp
<1>5. CASE CorsUp(r)
  <2>1. \A i \in 1..(at[r] - 1) : stack[i] # "cache"
    BY <1>1, <1>5, AtLayer, NoCacheAbove DEF CorsUp, Returns
  <2> QED
    BY <1>2, <1>3, <1>5, <2>1, OriginIsRight DEF CorsUp
<1>6. CASE CompressUp(r)
  <2>1. \A i \in 1..(at[r] - 1) : stack[i] # "cache"
    BY <1>1, <1>6, AtLayer, NoCacheAbove DEF CompressUp, Returns
  <2>2. PICK prefer :
          Raises(r, IF Selected(prefer, scope[r]) = None THEN message[r]
                    ELSE Compressed(message[r], Selected(prefer, scope[r])))
    BY <1>6 DEF CompressUp
  <2> QED
    BY <1>2, <1>3, <2>1, <2>2, SelectedNamed, CompressedIsRight
<1> QED
  BY <1>4, <1>5, <1>6

\* What is stored is plain: it is at the cache.
LEMMA RightStored ==
    ASSUME IInv, RInv, NEW r \in Request, CacheUp(r)
    PROVE  RInv'
<1> DEFINE m == message[r]
           n == [m EXCEPT !.stream = FALSE]
           k == CacheKey(scope[r])
           entry == [expires |-> Expiry(r), message |-> m]
           c == [cache EXCEPT ![k] = entry]
<1>1. /\ phase[r] = "up" /\ at[r] > 0 /\ stack[at[r]] = "cache" /\ Tables
      /\ DOMAIN since = Request /\ stack' = stack
  BY DEF CacheUp, Returns, IInv, Tables, Raises
<1>2. Full(m) /\ Right(m, scope[r]) /\ Plain(m) /\ at[r] \in 1..at[r]
  BY <1>1, AtLayer
<1>3. Full(n) /\ Right(n, scope[r]) /\ Plain(n)
  BY <1>2 DEF Full, Whole, Looked, Written, Right, Measured, Plain
<1>4. CASE Raises(r, m) /\ UNCHANGED <<cache, since>>
  BY <1>1, <1>2, <1>4, Rises, Served
<1>5. CASE /\ since' = [since EXCEPT ![r] = None]
           /\ IF Storable(m) THEN cache' \in Pruned(c) ELSE UNCHANGED cache
           /\ Raises(r, n)
  <2>1. \A q \in Request \ {r} : since'[q] = since[q]
    BY <1>1, <1>5
  <2>2. Within(r)' /\ Client(r)' /\ Only(r)
    BY <1>1, <1>3, <1>5, <2>1, Rises
  <2>3. CASE UNCHANGED cache
    BY <2>2, <2>3, Served
  <2>4. CASE cache' \in Pruned(c)
    <3>1. DOMAIN c = CacheKeys /\ \A j \in CacheKeys : c[j] = cache[j] \/ c[j] = entry
      BY <1>1 DEF Tables
    <3>2. \A j \in CacheKeys : cache'[j] = c[j] \/ cache'[j] = None
      <4> HIDE DEF c
      <4> QED
        BY <2>4, <3>1 DEF Pruned
    <3>3. entry.message = m
      OBVIOUS
    <3>4. Stored'
      <4> HIDE DEF entry, c, m
      <4> QED
        BY <1>2, <3>1, <3>2, <3>3 DEF RInv, Stored, Right
    <3>5. ASSUME NEW q \in Request \ {r} PROVE Within(q)' /\ Client(q)'
      <4>1. Within(q) /\ Client(q)
        BY DEF RInv
      <4> QED
        BY <4>1, <2>2 DEF Only, Within, Client
    <3> QED
      BY <2>2, <3>4, <3>5 DEF RInv
  <2> QED
    BY <1>5, <2>3, <2>4
<1> QED
  BY <1>4, <1>5 DEF CacheUp

LEMMA RightComes ==
    ASSUME IInv, RInv, NEW r \in Request, Arrive(r) \/ Reach(r) \/ Answer(r) \/ Cancel(r) \/ Deliver(r)
    PROVE  RInv'
<1>1. Tables /\ Within(r) /\ Len(stack) \in Nat
  BY Depth DEF IInv, RInv
<1>2. CASE Arrive(r)
  <2>1. phase'[r] = "down" /\ at'[r] = 1 /\ stack' = stack /\ UNCHANGED cache
    BY <1>1, <1>2 DEF Arrive, Tables
  <2>2. Only(r)
    BY <1>1, <1>2 DEF Arrive, Tables, Only
  <2> QED
    BY <1>1, <2>1, <2>2, Served DEF Within, Client
<1>3. CASE Reach(r)
  <2>1. phase'[r] = "working" /\ at'[r] = at[r] /\ phase[r] = "down" /\ stack' = stack /\ UNCHANGED cache
    BY <1>1, <1>3 DEF Reach, Tables
  <2>2. Only(r)
    BY <1>1, <1>3 DEF Reach, Tables, Only
  <2> QED
    BY <1>1, <2>1, <2>2, Served DEF Within, Client
<1>4. CASE Answer(r)
  <2>1. PICK a \in Answers : message' = [message EXCEPT ![r] = Sent(a, r)]
    BY <1>4 DEF Answer
  <2>2. /\ phase'[r] = "up" /\ at'[r] = at[r] - 1 /\ phase[r] = "working" /\ stack' = stack
        /\ UNCHANGED cache /\ message'[r] = Sent(a, r)
    BY <1>1, <1>4, <2>1 DEF Answer, Tables
  <2>3. Only(r)
    BY <1>1, <1>4, <2>1 DEF Answer, Tables, Only
  <2>4. Full(message'[r]) /\ Plain(message'[r]) /\ Right(message'[r], scope'[r])
    BY <2>2, SentIsPlain, PlainIsRight
  <2>5. Within(r)' /\ Client(r)'
    BY <1>1, <2>2, <2>4 DEF Within, Client
  <2> QED
    BY <2>2, <2>3, <2>5, Served
<1>5. CASE Leave(r)
  <2>1. phase'[r] = "done" /\ UNCHANGED cache
    BY <1>1, <1>5 DEF Leave, Tables
  <2>2. Only(r)
    BY <1>1, <1>5 DEF Leave, Tables, Only
  <2> QED
    BY <2>1, <2>2, Served DEF Within, Client
<1> QED
  BY <1>2, <1>3, <1>4, <1>5 DEF Cancel, Deliver

LEMMA RightNext == ASSUME CacheInnermost, IInv, RInv, [Next]_vars PROVE RInv'
<1>1. CASE UNCHANGED <<stack, cache, phase, at, scope, message>>
  BY <1>1 DEF RInv, Stored, Within, Client
<1>2. CASE Tick \/ UNCHANGED vars
  BY <1>1, <1>2 DEF Tick, vars
<1>3. ASSUME NEW r \in Request, PassUp(r) \/ CorsUp(r) \/ CompressUp(r) \/ CacheUp(r)
      PROVE  RInv'
  BY <1>3, RightUp, RightStored
<1> QED
  BY <1>2, <1>3, RightComes, RightDown DEF Next

\* For every order that has the response cache below the layers that write for
\* one client (CORSMiddleware, GZipMiddleware, CompressionMiddleware): however
\* requests overlap and whoever's answer the cache gives, each client gets one
\* coding it names, the length of what it gets, and its own origin allowed.
THEOREM AnswersFit == ASSUME CacheInnermost PROVE Spec => []RightForClient
<1>1. Init => RInv
  BY DEF Init, RInv, Stored, Within, Client
<1>2. IInv /\ RInv /\ [Next]_vars => RInv'
  BY RightNext
<1>3. RInv => RightForClient
  <2> SUFFICES ASSUME RInv, NEW r \in Leaving
               PROVE  Right(message[r], scope[r])
    BY DEF RightForClient, Right, Measured
  <2> QED
    BY DEF RInv, Client, Leaving
<1> QED
  BY <1>1, <1>2, <1>3, Inductive, PTL DEF Spec

-----------------------------------------------------------------------------
(* Types.  A proxy may put the client it speaks for in the place of its     *)
(* own, so the keys of the limit are over both (FromKnown).                 *)

FromKnown(r) ==
    phase[r] = "down" =>
        \E s \in Known :
            /\ scope[r].path = s.path /\ scope[r].for = s.for
            /\ scope[r].client \in {s.client, s.for}

\* What TypeOK says of one request.
Typed(r) ==
    /\ phase[r] \in {"idle", "down", "working", "up", "done"}
    /\ phase[r] \in {"idle", "done"} => at[r] = 0
    /\ phase[r] \notin {"idle", "done"} => DOMAIN scope[r] = ScopeFields
    /\ since[r] \in Nat \cup {None} /\ began[r] \in Nat \cup {None}
    /\ passed[r] \in [key : LimitKeys, time : Nat, window : Nat] \cup {None}
    /\ Within(r) /\ FromKnown(r)

Held == {k \in CacheKeys : cache[k] # None}
Alone == \A p, q \in Moving : p = q
Counter == [count : 0..MaxRequests, reset : Nat \cup {None}]

\* The tables of the requests are functions, and stay so.
Tabled ==
    /\ phase = [r \in Request |-> phase[r]] /\ at = [r \in Request |-> at[r]]
    /\ since = [r \in Request |-> since[r]] /\ began = [r \in Request |-> began[r]]
    /\ passed = [r \in Request |-> passed[r]]

LEMMA Updated ==
    ASSUME NEW f, f = [r \in Request |-> f[r]], NEW q, NEW e, NEW g, g = [f EXCEPT ![q] = e]
    PROVE  g = [r \in Request |-> g[r]]
  OBVIOUS

LEMMA TabledNext == ASSUME Tabled, [Next]_vars PROVE Tabled'
<1> DEFINE Either(f, g) == g = f \/ \E q \in Request : \E e : g = [f EXCEPT ![q] = e]
<1>1. /\ Either(phase, phase') /\ Either(at, at') /\ Either(since, since')
      /\ Either(began, began') /\ Either(passed, passed')
  <2>1. CASE Tick \/ UNCHANGED vars
    BY <2>1 DEF Tick, vars
  <2>2. ASSUME NEW r \in Request, Arrive(r) \/ Reach(r) \/ Answer(r) \/ Cancel(r) \/ Deliver(r)
        PROVE  /\ Either(phase, phase') /\ Either(at, at') /\ Either(since, since')
               /\ Either(began, began') /\ Either(passed, passed')
    BY <2>2 DEF Arrive, Reach, Answer, Cancel, Deliver, Leave
  <2>3. ASSUME NEW r \in Request,
               \/ ProxyDown(r) \/ HttpsDown(r) \/ HostsDown(r) \/ CorsDown(r)
               \/ CompressDown(r) \/ LimitDown(r) \/ CacheDown(r)
        PROVE  /\ Either(phase, phase') /\ Either(at, at') /\ Either(since, since')
               /\ Either(began, began') /\ Either(passed, passed')
    BY <2>3 DEF ProxyDown, HttpsDown, HostsDown, CorsDown, CompressDown, LimitDown, CacheDown, Calls, Sends
  <2>4. ASSUME NEW r \in Request, PassUp(r) \/ CorsUp(r) \/ CompressUp(r) \/ CacheUp(r)
        PROVE  /\ Either(phase, phase') /\ Either(at, at') /\ Either(since, since')
               /\ Either(began, began') /\ Either(passed, passed')
    BY <2>4 DEF PassUp, CorsUp, CompressUp, CacheUp, Raises
  <2> QED
    BY <2>1, <2>2, <2>3, <2>4 DEF Next
<1> QED
  BY <1>1, Updated DEF Tabled

TInv ==
    /\ now \in 0..Horizon
    /\ DOMAIN passed = Request
    /\ counters \in [LimitKeys -> Counter]
    /\ \A k \in CacheKeys : cache[k] # None => cache[k].expires \in Nat /\ Storable(cache[k].message)
    /\ IsFiniteSet(Held) /\ Cardinality(Held) <= MaxEntries
    /\ Alone
    /\ \A r \in Request : Typed(r)

LEMMA Bounds ==
    /\ MaxRequests \in Nat /\ Window \in Nat /\ Ttl \in Nat /\ MaxEntries \in Nat /\ Horizon \in Nat
  BY StackBounds

LEMMA TypesHold == IInv /\ TInv /\ Tabled => TypeOK
<1> SUFFICES ASSUME IInv, TInv, Tabled PROVE TypeOK
  OBVIOUS
<1>1. Tables /\ Len(stack) \in Nat
  BY Depth DEF IInv
<1>2. at \in [Request -> 0..(Len(stack) + 1)]
  <2>1. ASSUME NEW r \in Request PROVE at[r] \in 0..(Len(stack) + 1)
    BY <1>1 DEF TInv, Typed, Within
  <2> QED
    BY <2>1 DEF Tabled
<1>3. Cardinality(Moving) <= 1
  <2>1. CASE Moving = {}
    BY <2>1, FS_EmptySet
  <2>2. ASSUME NEW r \in Moving PROVE Cardinality(Moving) <= 1
    <3>1. Moving = {r}
      BY <2>2 DEF TInv, Alone
    <3> QED
      BY <3>1, FS_Singleton
  <2> QED
    BY <2>1, <2>2
<1>4. /\ phase \in [Request -> {"idle", "down", "working", "up", "done"}]
      /\ since \in [Request -> Nat \cup {None}] /\ began \in [Request -> Nat \cup {None}]
      /\ passed \in [Request -> [key : LimitKeys, time : Nat, window : Nat] \cup {None}]
      /\ \A r \in Request : phase[r] \notin {"idle", "done"} => DOMAIN scope[r] = ScopeFields
  <2>1. ASSUME NEW r \in Request
        PROVE  /\ phase[r] \in {"idle", "down", "working", "up", "done"}
               /\ since[r] \in Nat \cup {None} /\ began[r] \in Nat \cup {None}
               /\ passed[r] \in [key : LimitKeys, time : Nat, window : Nat] \cup {None}
               /\ phase[r] \notin {"idle", "done"} => DOMAIN scope[r] = ScopeFields
    BY DEF TInv, Typed
  <2> QED
    BY <2>1 DEF Tabled
<1> QED
  BY <1>1, <1>2, <1>3, <1>4 DEF TypeOK, TInv, Tables, Held, Counter

\* A step of request r that leaves the tables of the limit and the cache alone.
LEMMA OneTyped ==
    ASSUME IInv, TInv, NEW r \in Request, Only(r), Tables', Typed(r)',
           DOMAIN passed' = Request, \A q \in Request \ {r} : passed'[q] = passed[q],
           counters' \in [LimitKeys -> Counter], UNCHANGED cache,
           Moving = {} \/ r \in Moving \/ phase'[r] \notin {"down", "up"}
    PROVE  TInv'
<1>1. now' = now /\ stack' = stack /\ Tables
  BY DEF Only, IInv
<1>2. ASSUME NEW q \in Request \ {r} PROVE Typed(q)'
  <2>1. Typed(q)
    BY DEF TInv
  <2> QED
    BY <2>1 DEF Only, Typed, Within, FromKnown
<1>3. Alone'
  <2>1. \A q \in Moving' : q \in Moving \/ (q = r /\ phase'[r] \in {"down", "up"})
    BY DEF Moving, Only
  <2> QED
    BY <2>1 DEF TInv, Alone
<1>4. Counter' = Counter /\ LimitKeys' = LimitKeys
  BY DEF Counter, LimitKeys, Known
<1>5. Held' = Held
  BY DEF Held
<1> QED
  BY <1>1, <1>2, <1>3, <1>4, <1>5 DEF TInv

\* Down and up through the layers.
LEMMA TypedCall ==
    ASSUME IInv, TInv, NEW r \in Request, NEW s, Calls(r, s), phase[r] = "down", at[r] <= Len(stack),
           DOMAIN s = ScopeFields, s.path = scope[r].path, s.for = scope[r].for,
           s.client \in {scope[r].client, scope[r].for}, UNCHANGED cache,
           UNCHANGED since \/ since' = [since EXCEPT ![r] = now],
           DOMAIN passed' = Request, \A q \in Request \ {r} : passed'[q] = passed[q],
           passed'[r] \in [key : LimitKeys, time : Nat, window : Nat] \cup {None},
           counters' \in [LimitKeys -> Counter]
    PROVE  TInv'
<1>1. Tables /\ Typed(r) /\ Len(stack) \in Nat /\ now \in Nat
  BY Depth, Bounds DEF IInv, TInv
<1>2. /\ phase'[r] = "down" /\ at'[r] = at[r] + 1 /\ stack' = stack /\ scope'[r] = s
      /\ began'[r] = began[r] /\ since'[r] \in {since[r], now}
  BY <1>1 DEF Calls, Tables
<1>3. Within(r)' /\ FromKnown(r)'
  BY <1>1, <1>2 DEF Typed, Within, FromKnown
<1>4. Typed(r)'
  BY <1>1, <1>2, <1>3 DEF Typed
<1>5. Only(r) /\ Tables'
  BY <1>1 DEF Calls, Tables, Only
<1>6. r \in Moving
  BY DEF Moving
<1> QED
  BY <1>4, <1>5, <1>6, OneTyped

LEMMA TypedSend ==
    ASSUME IInv, TInv, NEW r \in Request, NEW m, Sends(r, m), phase[r] = "down", at[r] <= Len(stack),
           UNCHANGED <<cache, since, counters, passed>>
    PROVE  TInv'
<1>1. Tables /\ Typed(r) /\ Len(stack) \in Nat
  BY Depth DEF IInv, TInv
<1>2. /\ phase'[r] = "up" /\ at'[r] = at[r] - 1 /\ stack' = stack /\ UNCHANGED <<scope, began>>
  BY <1>1 DEF Sends, Tables
<1>3. Within(r)' /\ FromKnown(r)'
  BY <1>1, <1>2 DEF Typed, Within, FromKnown
<1>4. Typed(r)'
  BY <1>1, <1>2, <1>3 DEF Typed
<1>5. Only(r) /\ Tables'
  BY <1>1 DEF Sends, Tables, Only
<1>6. r \in Moving
  BY DEF Moving
<1> QED
  BY <1>4, <1>5, <1>6, OneTyped DEF TInv

LEMMA TypedRaise ==
    ASSUME IInv, TInv, NEW r \in Request, NEW m, Raises(r, m), phase[r] = "up", at[r] > 0,
           DOMAIN since' = Request, since'[r] \in {since[r], None},
           \A q \in Request \ {r} : since'[q] = since[q]
    PROVE  Typed(r)' /\ Only(r)
<1>1. Tables /\ Typed(r) /\ Len(stack) \in Nat
  BY Depth DEF IInv, TInv
<1>2. /\ phase'[r] = "up" /\ at'[r] = at[r] - 1 /\ stack' = stack /\ UNCHANGED <<scope, began, passed>>
  BY <1>1 DEF Raises, Tables
<1>3. Within(r)' /\ FromKnown(r)'
  BY <1>1, <1>2 DEF Typed, Within, FromKnown
<1>4. Typed(r)'
  BY <1>1, <1>2, <1>3 DEF Typed
<1>5. Only(r)
  BY <1>1 DEF Raises, Tables, Only
<1> QED
  BY <1>4, <1>5

LEMMA ForwardedFields ==
    ASSUME NEW s, DOMAIN s = ScopeFields
    PROVE  /\ DOMAIN Forwarded(s) = ScopeFields /\ Forwarded(s).path = s.path
           /\ Forwarded(s).for = s.for /\ Forwarded(s).client \in {s.client, s.for}
  BY DEF Forwarded, ScopeFields

LEMMA TypedDown ==
    ASSUME IInv, TInv, NEW r \in Request,
           \/ ProxyDown(r) \/ HttpsDown(r) \/ HostsDown(r) \/ CorsDown(r)
           \/ CompressDown(r) \/ LimitDown(r) \/ CacheDown(r)
    PROVE  TInv'
<1>1. /\ phase[r] = "down" /\ at[r] <= Len(stack) /\ UNCHANGED cache
      /\ Typed(r) /\ DOMAIN scope[r] = ScopeFields
  BY DEF ProxyDown, HttpsDown, HostsDown, CorsDown, CompressDown, LimitDown, CacheDown, Enters, TInv, Typed
<1>2. ASSUME NEW s, Calls(r, s), DOMAIN s = ScopeFields, s.path = scope[r].path, s.for = scope[r].for,
             s.client \in {scope[r].client, scope[r].for}, UNCHANGED <<counters, passed>>,
             UNCHANGED since \/ since' = [since EXCEPT ![r] = now]
      PROVE  TInv'
  <2>1. /\ DOMAIN passed' = Request /\ counters' \in [LimitKeys -> Counter] /\ passed' = passed
        /\ passed[r] \in [key : LimitKeys, time : Nat, window : Nat] \cup {None}
    BY <1>1, <1>2 DEF TInv, Typed
  <2> QED
    BY <1>1, <1>2, <2>1, TypedCall
<1>3. CASE ProxyDown(r)
  BY <1>1, <1>2, <1>3, ForwardedFields DEF ProxyDown
<1>4. CASE HttpsDown(r) \/ HostsDown(r) \/ CorsDown(r) \/ CompressDown(r)
  BY <1>1, <1>2, <1>4, TypedSend DEF HttpsDown, HostsDown, CorsDown, CompressDown
<1>5. CASE LimitDown(r)
  <2>1. CASE UNCHANGED <<counters, passed>>
    BY <1>1, <1>2, <1>5, <2>1, TypedSend DEF LimitDown
  <2>2. PICK k, c : k = LimitKey(scope[r]) /\ c = Current(k)
    OBVIOUS
  <2>3. CASE /\ c.count < MaxRequests
             /\ counters' = [counters EXCEPT ![k] = [c EXCEPT !.count = @ + 1]]
             /\ passed' = [passed EXCEPT ![r] = [key |-> k, time |-> now, window |-> c.reset]]
             /\ Calls(r, scope[r])
    <3>1. k \in LimitKeys
      <4>1. PICK s \in Known : scope[r].path = s.path /\ scope[r].client \in {s.client, s.for}
        BY <1>1 DEF Typed, FromKnown
      <4>2. scope[r].client \in UNION {{t.client, t.for} : t \in Known}
        BY <4>1
      <4> QED
        BY <2>2, <4>1, <4>2 DEF LimitKey, LimitKeys
    <3>2. now \in Nat /\ now + Window \in Nat /\ counters[k] \in Counter /\ MaxRequests \in Nat
      BY <3>1, Bounds DEF TInv
    <3>3. c \in Counter /\ c.reset \in Nat
      <4>1. CASE c = [count |-> 0, reset |-> now + Window]
        BY <4>1, <3>2 DEF Counter
      <4>2. CASE c = counters[k] /\ counters[k].reset # None
        BY <4>2, <3>2 DEF Counter
      <4> QED
        BY <2>2, <4>1, <4>2 DEF Current
    <3>4. [c EXCEPT !.count = @ + 1] \in Counter
      <4>1. PICK d \in Counter : d = c
        BY <3>3
      <4>2. d.count + 1 \in 0..MaxRequests
        BY <2>3, <3>2, <4>1 DEF Counter
      <4> QED
        BY <4>1, <4>2 DEF Counter
    <3>5. counters' \in [LimitKeys -> Counter]
      BY <2>3, <3>4 DEF TInv
    <3>6. /\ DOMAIN passed' = Request /\ \A q \in Request \ {r} : passed'[q] = passed[q]
          /\ passed'[r] \in [key : LimitKeys, time : Nat, window : Nat] \cup {None}
      BY <2>3, <3>1, <3>2, <3>3 DEF TInv
    <3> QED
      BY <1>1, <1>5, <2>3, <3>5, <3>6, TypedCall DEF LimitDown
  <2> QED
    BY <1>5, <2>1, <2>2, <2>3 DEF LimitDown
<1>6. CASE CacheDown(r)
  BY <1>1, <1>2, <1>6, TypedSend DEF CacheDown
<1> QED
  BY <1>3, <1>4, <1>5, <1>6

\* The store is pruned to max_entries whenever it has grown.
LEMMA PrunedHolds ==
    ASSUME NEW c, NEW k, NEW d \in Pruned(c), IsFiniteSet({j \in CacheKeys : c[j] # None} \ {k}),
           Cardinality({j \in CacheKeys : c[j] # None} \ {k}) <= MaxEntries, DOMAIN c = CacheKeys
    PROVE  /\ IsFiniteSet({j \in CacheKeys : d[j] # None})
           /\ Cardinality({j \in CacheKeys : d[j] # None}) <= MaxEntries
           /\ \A j \in CacheKeys : d[j] = c[j] \/ d[j] = None
<1> DEFINE held == {j \in CacheKeys : c[j] # None}
<1>1. IsFiniteSet(held) /\ Cardinality(held) \in Nat /\ Cardinality(held) <= MaxEntries + 1
  <2>1. held \subseteq (held \ {k}) \cup {k} /\ IsFiniteSet({k}) /\ Cardinality({k}) = 1
    BY FS_Singleton
  <2>2. /\ IsFiniteSet(held) /\ Cardinality(held) \in Nat
        /\ Cardinality(held) <= Cardinality(held \ {k}) + Cardinality({k})
    BY <2>1, Together
  <2>3. Cardinality(held \ {k}) \in Nat
    BY FS_CardinalityType
  <2> QED
    BY <2>1, <2>2, <2>3, Bounds
<1>2. CASE d = c /\ Cardinality(held) <= MaxEntries
  BY <1>1, <1>2
<1>3. ASSUME NEW f \in held, d = [c EXCEPT ![f] = None]
      PROVE  /\ IsFiniteSet({j \in CacheKeys : d[j] # None})
             /\ Cardinality({j \in CacheKeys : d[j] # None}) <= MaxEntries
             /\ \A j \in CacheKeys : d[j] = c[j] \/ d[j] = None
  <2>1. {j \in CacheKeys : d[j] # None} = held \ {f}
    BY <1>3
  <2> HIDE DEF held
  <2>2. IsFiniteSet(held \ {f}) /\ Cardinality(held \ {f}) = Cardinality(held) - 1
    BY <1>1, <1>3, FS_RemoveElement
  <2>3. Cardinality(held \ {f}) <= MaxEntries
    BY <1>1, <2>2, Bounds
  <2>4. \A j \in CacheKeys : d[j] = c[j] \/ d[j] = None
    BY <1>3
  <2> QED
    BY <2>1, <2>2, <2>3, <2>4
<1> QED
  BY <1>2, <1>3 DEF Pruned

LEMMA TypedUp ==
    ASSUME IInv, TInv, NEW r \in Request, PassUp(r) \/ CorsUp(r) \/ CompressUp(r) \/ CacheUp(r),
           Tables'
    PROVE  TInv'
<1>1. phase[r] = "up" /\ at[r] > 0 /\ Tables /\ r \in Moving
  BY DEF PassUp, CorsUp, CompressUp, CacheUp, Returns, IInv, Moving
<1>2. UNCHANGED <<counters, passed>>
  <2>1. ASSUME CacheUp(r) PROVE UNCHANGED <<counters, passed>>
    BY <2>1 DEF CacheUp, Raises
  <2> QED
    BY <2>1 DEF PassUp, CorsUp, CompressUp, Raises
<1>3. PICK m : Raises(r, m)
  BY DEF PassUp, CorsUp, CompressUp, CacheUp
<1>4. /\ DOMAIN since' = Request /\ since'[r] \in {since[r], None}
      /\ \A q \in Request \ {r} : since'[q] = since[q]
  <2>1. UNCHANGED since \/ since' = [since EXCEPT ![r] = None]
    BY DEF PassUp, CorsUp, CompressUp, CacheUp
  <2> QED
    BY <1>1, <2>1 DEF Tables
<1>5. Typed(r)' /\ Only(r)
  BY <1>1, <1>3, <1>4, TypedRaise
<1>6. CASE UNCHANGED cache
  BY <1>1, <1>2, <1>5, <1>6, OneTyped DEF TInv
<1>7. ASSUME CacheUp(r), since[r] # None, Storable(message[r]),
             NEW c,
             c = [cache EXCEPT ![CacheKey(scope[r])] =
                                   [expires |-> Expiry(r), message |-> message[r]]],
             cache' \in Pruned(c)
      PROVE  TInv'
  <2>1. PICK k : k = CacheKey(scope[r])
    OBVIOUS
  <2>2. DOMAIN c = CacheKeys /\ \A j \in CacheKeys \ {k} : c[j] = cache[j]
    BY <1>1, <1>7, <2>1 DEF Tables
  <2>3. \A j \in CacheKeys : c[j] # None /\ j = k =>
           c[j].expires = Expiry(r) /\ c[j].message = message[r]
    BY <1>1, <1>7, <2>1 DEF Tables
  <2>4. Expiry(r) \in Nat
    BY <1>7, Bounds DEF TInv, Typed, Expiry
  <2>5. {j \in CacheKeys : c[j] # None} \ {k} \subseteq Held
    BY <2>2 DEF Held
  <2>6. /\ IsFiniteSet({j \in CacheKeys : c[j] # None} \ {k})
        /\ Cardinality({j \in CacheKeys : c[j] # None} \ {k}) <= MaxEntries
    BY <2>5, Fewer, Bounds DEF TInv
  <2>7. /\ IsFiniteSet(Held') /\ Cardinality(Held') <= MaxEntries
        /\ \A j \in CacheKeys : cache'[j] = c[j] \/ cache'[j] = None
    <3>1. PICK d : d = cache' /\ d \in Pruned(c)
      BY <1>7
    <3>2. /\ IsFiniteSet({j \in CacheKeys : d[j] # None})
          /\ Cardinality({j \in CacheKeys : d[j] # None}) <= MaxEntries
          /\ \A j \in CacheKeys : d[j] = c[j] \/ d[j] = None
      BY <2>2, <2>6, <3>1, PrunedHolds
    <3> QED
      BY <3>1, <3>2 DEF Held
  <2>8. \A j \in CacheKeys : cache'[j] # None => cache'[j].expires \in Nat /\ Storable(cache'[j].message)
    BY <1>7, <2>2, <2>3, <2>4, <2>7 DEF TInv
  <2>9. ASSUME NEW q \in Request \ {r} PROVE Typed(q)'
    <3>1. Typed(q)
      BY DEF TInv
    <3> QED
      BY <1>2, <1>5, <3>1 DEF Only, Typed, Within, FromKnown
  <2>10. Alone'
    BY <1>1, <1>3, <1>5 DEF TInv, Alone, Moving, Only, Raises
  <2> QED
    BY <1>2, <1>5, <2>7, <2>8, <2>9, <2>10 DEF TInv, Only
<1> QED
  <2>1. UNCHANGED cache \/ (CacheUp(r) /\ since[r] # None /\ Storable(message[r]))
    BY DEF PassUp, CorsUp, CompressUp, CacheUp
  <2> QED
    BY <1>6, <1>7, <2>1 DEF CacheUp

LEMMA TypedComes ==
    ASSUME IInv, TInv, NEW r \in Request, Tables',
           Arrive(r) \/ Reach(r) \/ Answer(r) \/ Cancel(r) \/ Deliver(r)
    PROVE  TInv'
<1>1. Tables /\ Typed(r) /\ Len(stack) \in Nat /\ now \in Nat
  BY Depth DEF IInv, TInv
<1>2. UNCHANGED <<stack, now, counters, cache, passed>>
  BY DEF Arrive, Reach, Answer, Cancel, Deliver, Leave
<1>3. Only(r)
  BY <1>1 DEF Arrive, Reach, Answer, Cancel, Deliver, Leave, Tables, Only
<1>4. Moving = {} \/ r \in Moving \/ phase'[r] \notin {"down", "up"}
  BY <1>1 DEF Arrive, Reach, Answer, Cancel, Deliver, Leave, Moving, Tables
<1>5. Typed(r)'
  <2>1. CASE Arrive(r)
    <3>1. PICK s \in Scopes[stack] : scope' = [scope EXCEPT ![r] = s]
      BY <2>1 DEF Arrive
    <3>2. DOMAIN s = ScopeFields /\ s \in Known
      BY <1>1, ScopesAreWhole DEF Tables, Known
    <3>3. phase'[r] = "down" /\ at'[r] = 1 /\ scope'[r] = s /\ UNCHANGED <<since, began>>
      BY <1>1, <2>1, <3>1 DEF Arrive, Tables
    <3> QED
      BY <1>1, <1>2, <3>2, <3>3 DEF Typed, Within, FromKnown
  <2>2. CASE Reach(r)
    <3>1. /\ phase'[r] = "working" /\ phase[r] = "down" /\ began'[r] = now /\ at' = at
          /\ UNCHANGED <<since, scope>>
      BY <1>1, <2>2 DEF Reach, Tables
    <3> QED
      BY <1>1, <1>2, <3>1 DEF Typed, Within, FromKnown
  <2>3. CASE Answer(r)
    <3>1. /\ phase'[r] = "up" /\ phase[r] = "working" /\ at'[r] = at[r] - 1
          /\ UNCHANGED <<since, scope, began>>
      BY <1>1, <2>3 DEF Answer, Tables
    <3> QED
      BY <1>1, <1>2, <3>1 DEF Typed, Within, FromKnown
  <2>4. CASE Leave(r)
    <3>1. phase'[r] = "done" /\ at'[r] = 0 /\ since'[r] = None /\ began'[r] = None
      BY <1>1, <2>4 DEF Leave, Tables
    <3> QED
      BY <1>1, <1>2, <3>1 DEF Typed, Within, FromKnown
  <2> QED
    BY <2>1, <2>2, <2>3, <2>4 DEF Cancel, Deliver
<1> QED
  BY <1>2, <1>3, <1>4, <1>5, OneTyped DEF TInv

LEMMA TypedNext == ASSUME IInv, IInv', TInv, [Next]_vars PROVE TInv'
<1>1. Tables'
  BY DEF IInv
<1>2. CASE Tick
  <2>1. now' \in 0..Horizon
    BY <1>2, Bounds DEF Tick, TInv
  <2> QED
    BY <1>2, <2>1 DEF Tick, TInv, Typed, Within, FromKnown, Held, Alone, Moving
<1>3. CASE UNCHANGED vars
  BY <1>3 DEF vars, TInv, Typed, Within, FromKnown, Held, Alone, Moving
<1>4. ASSUME NEW r \in Request, Arrive(r) \/ Reach(r) \/ Answer(r) \/ Cancel(r) \/ Deliver(r)
      PROVE  TInv'
  BY <1>1, <1>4, TypedComes
<1>5. ASSUME NEW r \in Request,
             \/ ProxyDown(r) \/ HttpsDown(r) \/ HostsDown(r) \/ CorsDown(r)
             \/ CompressDown(r) \/ LimitDown(r) \/ CacheDown(r)
      PROVE  TInv'
  BY <1>5, TypedDown
<1>6. ASSUME NEW r \in Request, PassUp(r) \/ CorsUp(r) \/ CompressUp(r) \/ CacheUp(r)
      PROVE  TInv'
  BY <1>1, <1>6, TypedUp
<1> QED
  BY <1>2, <1>3, <1>4, <1>5, <1>6 DEF Next

\* Every variable keeps its type: no counter exceeds max_requests, no request is
\* let through under a key that is not counted, the store never outgrows
\* max_entries, and what it holds may be stored.
THEOREM TypeCorrect == Spec => []TypeOK
<1>1. Init => TInv
  <2> SUFFICES ASSUME Init PROVE TInv
    OBVIOUS
  <2>1. Held = {} /\ Moving = {}
    BY DEF Init, Held, Moving
  <2> QED
    BY <2>1, Bounds, FS_EmptySet DEF Init, TInv, Typed, Within, FromKnown, Counter, Alone
<1>2. IInv /\ IInv' /\ TInv /\ [Next]_vars => TInv'
  BY TypedNext
<1>3. Init => Tabled
  BY DEF Init, Tabled
<1> QED
  BY <1>1, <1>2, <1>3, TabledNext, TypesHold, Inductive, PTL DEF Spec

==============================================================================
