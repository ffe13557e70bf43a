------------------------------ MODULE Sessions ------------------------------
(***************************************************************************)
(* Sessions (src/turbo/middleware.py): SessionMiddleware around            *)
(* CSRFMiddleware around the application, for clients with a cookie jar    *)
(* (src/turbo/testing.py) that send several requests at a time.            *)
(*                                                                         *)
(* A request loads its session when it arrives, works on a copy of its own *)
(* (of one level: nested values are shared with the backend) and writes    *)
(* all of it back when its response starts.  Between the two               *)
(* other requests with the same cookies come and go; responses are lost or *)
(* overtaken on their way to the client; sessions expire; the process      *)
(* restarts with a new secret.                                             *)
(*                                                                         *)
(* Session ids and CSRF tokens are drawn at random by a request and never  *)
(* twice: each is named after the request that drew it.  The value stored  *)
(* under a key of a session is the request that wrote it.                  *)
(***************************************************************************)
EXTENDS Integers, FiniteSets

CONSTANTS
    Client,
    Request,
    Field,       \* keys of a session but for the CSRF token
    None,
    Cleared,     \* the cookie of a response that clears the session
    Modes,       \* "cookie" (no backend) and/or "memory" (MemorySessionBackend)
    MaxAge,      \* max_age in ticks
    Fallbacks,   \* how many former secrets stay in secret_key_fallbacks
    MaxRestarts, \* bound on restarts
    Horizon,     \* bound on the clock
    MaxChanges   \* bound on the changes a handler makes to its session

ASSUME NoneAbsent == None # Cleared /\ {None, Cleared} \cap (Request \cup Field) = {}
ASSUME SessionBounds == {MaxAge, Fallbacks, MaxRestarts, Horizon, MaxChanges} \subseteq Nat
ASSUME ModesKnown == Modes \subseteq {"cookie", "memory"}

VARIABLES
    mode,    \* which backend the middleware was built with
    now,
    secret,  \* number of the current secret, self._keys[0]
    store,   \* MemorySessionBackend._store
    jar,     \* TestClient._cookies of each client
    phase,   \* where each request is
    owner,   \* the client that sent it
    safe,    \* whether its method is in safe_methods
    scope,   \* what the middlewares keep in its scope until its response starts
    answer,  \* the Set-Cookie headers of its response
    refused, \* history: answered with 403
    alone,   \* history: no other request of its client was under way with it
    inside,  \* history: who has changed in place the value a request put under a key
    wrote,   \* history: the requests whose response has set a session
    erased   \* history: the writes a clear_session() has removed

server == <<mode, secret, store>>
request == <<phase, owner, safe, scope, answer>>
history == <<refused, alone, wrote, erased>>
vars == <<now, server, jar, request, history, inside>>

Session == [csrf : Request \cup {None}, data : [Field -> Request \cup {None}]]
Empty == [csrf |-> None, data |-> [f \in Field |-> None]]

\* turbo.session_id, turbo.session, turbo.csrf_token, turbo.session_dirty and
\* turbo.session_clear, the csrftoken cookie the request carried, and how often
\* its handler changed the session.
Scope == [sid : Request \cup {None}, session : Session, token : Request \cup {None},
          flag : {"clean", "dirty", "clear"}, cookie : Request \cup {None}, changes : 0..MaxChanges]

\* A signed cookie value: a session id, or in mode "cookie" the session itself.
Signed(v) == [value |-> v, key |-> secret]
Cookies == [session : [value : Request \cup Session, key : 0..MaxRestarts] \cup {None, Cleared},
            csrf : Request \cup {None}]
NoCookies == [session |-> None, csrf |-> None]

\* _decode_token: any of the keys will do.
Decoded(t) == IF t # None /\ t.key \in (secret - Fallbacks)..secret THEN t.value ELSE None

\* MemorySessionBackend.get, and the entry it pops when it has expired.
Expired(s) == store[s] # None /\ store[s].until # None /\ store[s].until <= now
Kept(s) == IF s # None /\ Expired(s) THEN [store EXCEPT ![s] = None] ELSE store
Fetched(s) == IF s = None \/ Expired(s) \/ store[s] = None THEN Empty ELSE store[s].session

\* The session a session cookie stands for: the backend's, or its own payload.
Loaded(t) ==
    LET value == Decoded(t)
    IN  IF mode = "memory" THEN Fetched(value) ELSE IF value = None THEN Empty ELSE value

\* MemorySessionBackend.set
Entry(s) == [session |-> s, until |-> IF MaxAge > 0 THEN now + MaxAge ELSE None]

UnderWay(c) == {r \in Request : owner[r] = c /\ phase[r] \in {"handling", "answered"}}
Writers(s) == {s.data[f] : f \in Field} \ {None}

-----------------------------------------------------------------------------

Init ==
    /\ mode \in Modes
    /\ now = 0
    /\ secret = 0
    /\ store = [r \in Request |-> None]
    /\ jar = [c \in Client |-> NoCookies]
    /\ phase = [r \in Request |-> "idle"]
    /\ owner = [r \in Request |-> None]
    /\ safe = [r \in Request |-> TRUE]
    /\ scope = [r \in Request |-> None]
    /\ answer = [r \in Request |-> NoCookies]
    /\ refused = {} /\ wrote = {} /\ erased = {}
    /\ alone = [r \in Request |-> TRUE]
    /\ inside = [r \in Request |-> [f \in Field |-> {}]]

TokenOfSession(loaded, cookie, r) ==  \* mutant: the cookie is not asked
    IF loaded.csrf # None THEN loaded.csrf ELSE r

\* The token of a request: the session's, else the cookie's, else a new one.
TokenOf(loaded, cookie, r) ==
    IF loaded.csrf # None THEN loaded.csrf ELSE IF cookie # None THEN cookie ELSE r

\* The client sends a request with its cookies and, when the method is unsafe,
\* with the token of its csrftoken cookie as header; both middlewares take it
\* in without an await that another request could use.
Begin(c, r, isSafe) ==
    LET value == Decoded(jar[c].session)
        loaded == Loaded(jar[c].session)
        tok == TokenOf(loaded, jar[c].csrf, r)
        denied == ~isSafe /\ jar[c].csrf # tok
        others == UnderWay(c)
    IN  /\ phase[r] = "idle"
        /\ ~isSafe => jar[c].csrf # None
        /\ phase' = [phase EXCEPT ![r] = "handling"]
        /\ owner' = [owner EXCEPT ![r] = c]
        /\ safe' = [safe EXCEPT ![r] = isSafe]
        /\ store' = IF mode = "memory" THEN Kept(value) ELSE store
        /\ scope' = [scope EXCEPT ![r] =
              [sid |-> IF mode = "memory" THEN value ELSE None,
               session |-> [loaded EXCEPT !.csrf = tok], token |-> tok,
               flag |-> IF loaded.csrf # tok THEN "dirty" ELSE "clean",
               cookie |-> jar[c].csrf, changes |-> 0]]
        /\ refused' = IF denied THEN refused \cup {r} ELSE refused
        /\ alone' = [s \in Request |-> IF s = r THEN others = {}
                                       ELSE alone[s] /\ s \notin others]
        /\ UNCHANGED <<mode, now, secret, jar, answer, wrote, erased, inside>>

\* set_session_value(), set_session() and clear_session() in the handler.
MayChange(r) == phase[r] = "handling" /\ r \notin refused /\ scope[r].changes < MaxChanges

Changed(r, s, f) == [scope[r] EXCEPT !.session = s, !.flag = f, !.changes = @ + 1]

ChangesTo(r, s, f) ==
    /\ MayChange(r)
    /\ scope' = [scope EXCEPT ![r] = Changed(r, s, f)]
    /\ UNCHANGED <<now, server, jar, phase, owner, safe, answer, history, inside>>

\* Mutant of SetValue: the store hands out its own dictionary, not a copy.
SetValueShared(r, k) ==
    /\ MayChange(r)
    /\ scope' = [scope EXCEPT ![r] = Changed(r, [@.session EXCEPT !.data[k] = r], "dirty")]
    /\ store' = IF scope[r].sid # None /\ store[scope[r].sid] # None
                THEN [store EXCEPT ![scope[r].sid].session.data[k] = r] ELSE store
    /\ UNCHANGED <<now, mode, secret, jar, phase, owner, safe, answer, history, inside>>

SetValue(r, k) == ChangesTo(r, [scope[r].session EXCEPT !.data[k] = r], "dirty")
Replace(r, k) == ChangesTo(r, [Empty EXCEPT !.data[k] = r], "dirty")
Clear(r) == ChangesTo(r, Empty, "clear")

\* A change inside a value, a dictionary or a list, that the handler found in
\* its session: the copies are copies of one level (dict(data)), and _store and
\* the other requests of the session hold that value too.  (In a cookie the
\* session is a text, and what it is decoded to is nobody else's.)
ChangeInPlace(r, k) ==
    LET w == scope[r].session.data[k] IN
    /\ MayChange(r) /\ mode = "memory" /\ w # None
    /\ inside' = [inside EXCEPT ![w][k] = @ \cup {r}]
    /\ scope' = [scope EXCEPT ![r].changes = @ + 1]
    /\ UNCHANGED <<now, server, jar, phase, owner, safe, answer, history>>

CsrfCookieNew(r) ==  \* mutant: set for a new token only
    IF r \notin refused /\ scope[r].token = r THEN r ELSE None

\* The response starts: CSRFMiddleware adds its cookie unless it refused the
\* request, SessionMiddleware writes the session back and adds its own.
CsrfCookie(r) ==
    IF r \notin refused /\ scope[r].cookie # scope[r].token THEN scope[r].token ELSE None

RemoveNothing(s) == store  \* mutant: the cookie is cleared, the entry stays

Remove(s) == IF mode = "memory" /\ s # None THEN [store EXCEPT ![s] = None] ELSE store

\* The session cookie of a response that sets the session, and the store with it.
IdOf(r) == IF scope[r].sid # None THEN scope[r].sid ELSE r
SessionCookie(r) == Signed(IF mode = "memory" THEN IdOf(r) ELSE scope[r].session)
Saved(r) == IF mode = "memory" THEN [store EXCEPT ![IdOf(r)] = Entry(scope[r].session)] ELSE store

Respond(r) ==
    /\ phase[r] = "handling"
    /\ phase' = [phase EXCEPT ![r] = "answered"]
    /\ scope' = [scope EXCEPT ![r] = None]
    /\ \/ /\ scope[r].flag = "clear"
          /\ store' = Remove(scope[r].sid)
          /\ answer' = [answer EXCEPT ![r] = [session |-> Cleared, csrf |-> CsrfCookie(r)]]
          /\ erased' = erased \cup IF mode = "memory" THEN Writers(Fetched(scope[r].sid)) ELSE {}
          /\ UNCHANGED wrote
       \/ /\ scope[r].flag = "dirty"
          /\ store' = Saved(r)
          /\ answer' = [answer EXCEPT ![r] = [session |-> SessionCookie(r), csrf |-> CsrfCookie(r)]]
          /\ wrote' = wrote \cup {r}
          /\ UNCHANGED erased
       \/ /\ scope[r].flag = "clean"
          /\ answer' = [answer EXCEPT ![r].csrf = CsrfCookie(r)]
          /\ UNCHANGED <<store, wrote, erased>>
    /\ UNCHANGED <<now, mode, secret, jar, owner, safe, refused, alone, inside>>

\* The client takes the cookies of a response: TestClient._update_cookie_jar.
Deliver(r) ==
    /\ phase[r] = "answered"
    /\ phase' = [phase EXCEPT ![r] = "done"]
    /\ jar' = [jar EXCEPT ![owner[r]] =
          [session |-> IF answer[r].session = Cleared THEN None
                       ELSE IF answer[r].session # None THEN answer[r].session ELSE @.session,
           csrf |-> IF answer[r].csrf # None THEN answer[r].csrf ELSE @.csrf]]
    /\ answer' = [answer EXCEPT ![r] = NoCookies]
    /\ UNCHANGED <<now, server, owner, safe, scope, history, inside>>

\* The handler is cancelled, or the response does not reach the client.
Lose(r) ==
    /\ phase[r] \in {"handling", "answered"}
    /\ phase' = [phase EXCEPT ![r] = "lost"]
    /\ scope' = [scope EXCEPT ![r] = None]
    /\ answer' = [answer EXCEPT ![r] = NoCookies]
    /\ UNCHANGED <<now, server, jar, owner, safe, history, inside>>

Tick == now < Horizon /\ now' = now + 1 /\ UNCHANGED <<server, jar, request, history, inside>>

\* The process ends and comes back with a new secret before the former ones.
Restart ==
    /\ secret < MaxRestarts
    /\ secret' = secret + 1
    /\ store' = [r \in Request |-> None]
    /\ inside' = [r \in Request |-> [f \in Field |-> {}]]
    /\ phase' = [r \in Request |-> IF phase[r] = "handling" THEN "lost" ELSE phase[r]]
    /\ scope' = [r \in Request |-> None]
    /\ UNCHANGED <<now, mode, jar, owner, safe, answer, history>>

Next ==
    \/ \E c \in Client, r \in Request, isSafe \in BOOLEAN : Begin(c, r, isSafe)
    \/ \E r \in Request, k \in Field : SetValue(r, k) \/ Replace(r, k) \/ ChangeInPlace(r, k)
    \/ \E r \in Request : Clear(r) \/ Respond(r) \/ Deliver(r) \/ Lose(r)
    \/ Tick
    \/ Restart

Spec == Init /\ [][Next]_vars

-----------------------------------------------------------------------------

TypeOK ==
    /\ mode \in Modes /\ now \in 0..Horizon /\ secret \in 0..MaxRestarts
    /\ store \in [Request -> [session : Session, until : Int \cup {None}] \cup {None}]
    /\ jar \in [Client -> Cookies] /\ answer \in [Request -> Cookies]
    /\ phase \in [Request -> {"idle", "handling", "answered", "done", "lost"}]
    /\ owner \in [Request -> Client \cup {None}] /\ safe \in [Request -> BOOLEAN]
    /\ scope \in [Request -> Scope \cup {None}]
    /\ \A r \in Request : scope[r] \in IF phase[r] = "handling" THEN Scope ELSE {None}
    /\ refused \subseteq Request /\ wrote \subseteq Request /\ erased \subseteq Request
    /\ alone \in [Request -> BOOLEAN]
    /\ inside \in [Request -> [Field -> SUBSET Request]]

\* A client that sends one request at a time and returns the token of its
\* csrftoken cookie is never refused: not after its session expired, was
\* cleared or replaced, not after a lost response, nor after a restart.  (Two
\* requests at a time may leave it with the session of one and the token of
\* the other, and then it is.)
FollowerAccepted ==
    \A r \in refused : \E s \in Request : owner[s] = owner[r] /\ ~alone[s]

\* However a client came to hold the session of one response and the token of
\* another, one safe request on its own brings the two together again.  The
\* 403 itself does not: CSRFMiddleware sends it without its cookie.
SafeRequestRepairs ==
    [][\A r \in Request :
          (phase[r] = "answered" /\ phase'[r] = "done" /\ safe[r] /\ alone[r])
             => Loaded(jar[owner[r]].session)'.csrf \in {None, jar'[owner[r]].csrf}]_vars

\* What a request finds under the keys of its session was put there by a
\* request of the same client whose response had started: by no handler that
\* was cancelled, and by no other client.  A value found there that others
\* have changed in place was changed by requests of the same client only.
OnlyAnsweredWrites ==
    \A r \in Request : phase[r] = "handling" =>
        /\ \A w \in Writers(scope[r].session) \ {r} : owner[w] = owner[r] /\ w \in wrote
        /\ \A k \in Field, q \in Request :
              scope[r].session.data[k] # None /\ q \in inside[scope[r].session.data[k]][k]
                  => owner[q] = owner[r]

\* Refuted: nor was what is found inside the values changed by a handler that
\* was cancelled.  A change in place is in _store at once (MemorySessionBackend).
InsideAnswered ==
    \A r \in Request, k \in Field : phase[r] = "handling" /\ scope[r].session.data[k] # None =>
        inside[scope[r].session.data[k]][k] \ {r} \subseteq wrote

\* A session that was cleared stays cleared for a client with one request at a
\* time, even when the response that clears the cookie is lost.
ClearedStaysCleared ==
    \A r \in Request : phase[r] = "handling" /\ Writers(scope[r].session) \cap erased # {} =>
        \E s \in Request : owner[s] = owner[r] /\ ~alone[s]

=============================================================================
