--------------------------- MODULE Sessions_proofs ---------------------------
(***************************************************************************)
(* Sessions for every number of clients, requests, secrets and ticks.      *)
(*                                                                         *)
(* Three arguments on one invariant.  Whose: every session that a store, a *)
(* cookie or a request holds has writes of one client only, and of started *)
(* responses (Sane).  Where: with a backend, a write is under one session  *)
(* id for ever (OneId), so what is cleared there is nowhere else           *)
(* (Forgotten).  Which token: as long as no other request of the client    *)
(* meets it, a request holds a session without a token or with its own,    *)
(* and so do the cookies it leaves behind (Repairs, Follows).              *)
(***************************************************************************)
EXTENDS Sessions, TLAPS

\* The requests of a client whose response has set a session; a client that
\* sends one request at a time.
Mine(c) == {s \in wrote : owner[s] = c}
Solo(c) == \A s \in Request : owner[s] = c => alone[s]

\* A session cookie that c may hold, by what was signed.
OwnValue(c, v) ==
    IF mode = "memory" THEN v \in Mine(c) ELSE v \in Session /\ Writers(v) \subseteq Mine(c)
OwnCookie(c, t) == t.key \in Int /\ t.key <= secret /\ OwnValue(c, t.value)

Tables ==
    /\ mode \in Modes /\ now \in Int /\ secret \in Int
    /\ phase \in [Request -> {"idle", "handling", "answered", "done", "lost"}]
    /\ owner \in [Request -> Client \cup {None}]
    /\ alone \in [Request -> BOOLEAN]
    /\ DOMAIN store = Request /\ DOMAIN jar = Client /\ DOMAIN scope = Request
    /\ DOMAIN answer = Request /\ DOMAIN safe = Request

Histories ==
    /\ \A r \in Request : phase[r] # "idle" => owner[r] \in Client
    /\ \A r \in Request : phase[r] = "idle" => alone[r]
    /\ wrote \subseteq {r \in Request : phase[r] \notin {"idle", "handling"}}
    /\ refused \subseteq {r \in Request : phase[r] # "idle" /\ ~safe[r]}
    /\ erased \subseteq wrote /\ (mode = "cookie" => erased = {})

\* Whose sessions are: in the store, in a jar, in a response, in a request.
Stored ==
    \A s \in Request : store[s] # None =>
        /\ s \in wrote /\ store[s].session \in Session /\ store[s].until \in Int \cup {None}
        /\ Writers(store[s].session) \subseteq Mine(owner[s])

Jars ==
    \A c \in Client :
        /\ jar[c].session # None => OwnCookie(c, jar[c].session)
        /\ jar[c].csrf \in Request \cup {None}

Answering(r) ==
    /\ phase[r] # "answered" => answer[r] = NoCookies
    /\ answer[r].session \notin {None, Cleared} => OwnCookie(owner[r], answer[r].session)
    /\ answer[r].csrf \in Request \cup {None}

Handling(r) ==
    phase[r] = "handling" =>
        /\ scope[r] \in Scope /\ scope[r].token # None
        /\ scope[r].sid # None => mode = "memory" /\ scope[r].sid \in Mine(owner[r])
        /\ Writers(scope[r].session) \ {r} \subseteq Mine(owner[r])

Sane == Tables /\ Histories /\ Stored /\ Jars /\ \A r \in Request : Answering(r) /\ Handling(r)

\* Of two requests of one client at a time, neither is alone.
Overlap ==
    \A q, r \in Request : q # r /\ owner[q] = owner[r] /\ {q, r} \subseteq UnderWay(owner[r]) => ~alone[r]

\* The session behind a cookie goes with the token.
Agrees(t, token) == Loaded(t).csrf \in {None, token}

\* A jar that has taken in a response.
Merged(j, a) ==
    [session |-> IF a.session = Cleared THEN None
                 ELSE IF a.session # None THEN a.session ELSE j.session,
     csrf |-> IF a.csrf # None THEN a.csrf ELSE j.csrf]

Alone(r) == alone[r] /\ r \notin refused

\* A request that meets no other and was not refused works on what the jar stands
\* for, under the jar's token if it had a matching one, and its response leaves
\* session and token in agreement.
Repairs(r) ==
    LET j == jar[owner[r]]
        m == Merged(j, answer[r]) IN
    /\ phase[r] = "handling" /\ Alone(r) =>
          /\ scope[r].cookie = j.csrf
          /\ scope[r].session.csrf \in {None, scope[r].token}
          /\ mode = "memory" => scope[r].sid = Decoded(j.session)
          /\ Agrees(j.session, scope[r].token)
          /\ Solo(owner[r]) /\ j.csrf # None => scope[r].token = j.csrf
    /\ phase[r] = "answered" /\ Alone(r) => Agrees(m.session, m.csrf)

\* A client with one request at a time has cookies that agree.
Follows(c) == Solo(c) /\ jar[c].csrf # None => Agrees(jar[c].session, jar[c].csrf)

\* Write w is in the session with id i, stored or in a request.
Under(w, i) ==
    \/ store[i] # None /\ w \in Writers(store[i].session)
    \/ \E r \in Request : phase[r] = "handling" /\ IdOf(r) = i /\ w \in Writers(scope[r].session)

OneId == mode = "memory" => \A w, i, j \in Request : Under(w, i) /\ Under(w, j) => i = j
Forgotten == mode = "memory" => \A w \in erased : Solo(owner[w]) => \A i \in Request : ~Under(w, i)

IInv ==
    /\ Sane /\ Overlap /\ OneId /\ Forgotten
    /\ \A r \in Request : Repairs(r)
    /\ \A c \in Client : Follows(c)
    /\ FollowerAccepted

USE NoneAbsent, SessionBounds, ModesKnown

-----------------------------------------------------------------------------
(* Sessions and writes.                                                    *)

LEMMA EmptyIsSession == Empty \in Session /\ Writers(Empty) = {} /\ Empty.csrf = None
  BY DEF Empty, Session, Writers

LEMMA TokenChanges ==
    ASSUME NEW s \in Session, NEW k \in Request \cup {None}
    PROVE  [s EXCEPT !.csrf = k] \in Session /\ Writers([s EXCEPT !.csrf = k]) = Writers(s)
  BY DEF Session, Writers

LEMMA ValueChanges ==
    ASSUME NEW s \in Session, NEW k \in Field, NEW r \in Request
    PROVE  LET n == [s EXCEPT !.data[k] = r] IN
           n \in Session /\ Writers(n) \subseteq Writers(s) \cup {r} /\ n.csrf = s.csrf
  BY DEF Session, Writers

\* What a cookie of client c stands for is a session of c.
LEMMA LoadedIsMine ==
    ASSUME Sane, NEW c \in Client, NEW t, t # None => OwnCookie(c, t)
    PROVE  /\ Loaded(t) \in Session /\ Writers(Loaded(t)) \subseteq Mine(c)
           /\ Decoded(t) # None => OwnValue(c, Decoded(t))
           /\ mode = "memory" => Decoded(t) \in Mine(c) \cup {None}
<1>1. Decoded(t) # None => OwnValue(c, Decoded(t))
  BY DEF Decoded, OwnCookie
<1>2. CASE mode = "memory"
  <2>1. Decoded(t) \in Mine(c) \cup {None}
    BY <1>1, <1>2 DEF OwnValue
  <2>2. \A v \in Mine(c) : Fetched(v) \in Session /\ Writers(Fetched(v)) \subseteq Mine(c)
    BY EmptyIsSession DEF Sane, Histories, Stored, Mine, Fetched
  <2>3. Fetched(None) = Empty
    BY DEF Fetched
  <2> QED BY <1>1, <1>2, <2>1, <2>2, <2>3, EmptyIsSession DEF Loaded
<1>3. CASE mode # "memory"
  BY <1>1, <1>3, EmptyIsSession DEF Loaded, OwnValue
<1> QED BY <1>2, <1>3

\* What a cookie of c stands for is lost to time, to an expired entry that is
\* popped and to a restart, and otherwise kept.
LEMMA LoadedIsKept ==
    ASSUME Sane, NEW c \in Client, NEW t, t # None => OwnCookie(c, t),
           mode' = mode, now' \in Int, now <= now', secret' \in Int, secret <= secret',
           \A v \in Mine(c) : store'[v] \in {store[v], None}
    PROVE  Loaded(t)' \in {Loaded(t), Empty}
<1>1. Decoded(t)' \in {Decoded(t), None}
  BY DEF Decoded, OwnCookie, Sane, Tables
<1>2. CASE mode = "memory"
  <2>1. Decoded(t) \in Mine(c) \cup {None}
    BY <1>2, LoadedIsMine
  <2>2. ASSUME NEW v \in Mine(c) PROVE Fetched(v)' \in {Fetched(v), Empty}
    BY <2>2 DEF Sane, Tables, Histories, Stored, Mine, Fetched, Expired, Empty
  <2>3. Fetched(None) = Empty /\ Fetched(None)' = Empty
    BY DEF Fetched, Empty
  <2> QED BY <1>1, <1>2, <2>1, <2>2, <2>3 DEF Loaded
<1>3. CASE mode # "memory"
  BY <1>1, <1>3 DEF Loaded, Empty
<1> QED BY <1>2, <1>3

LEMMA AgreesStill ==
    ASSUME Sane, NEW c \in Client, NEW t, t # None => OwnCookie(c, t),
           mode' = mode, now' \in Int, now <= now', secret' \in Int, secret <= secret',
           \A v \in Mine(c) : store'[v] \in {store[v], None},
           NEW k, Agrees(t, k)
    PROVE  Agrees(t, k)'
  BY LoadedIsKept, EmptyIsSession DEF Agrees

LEMMA InitIInv == Init => IInv
<1> SUFFICES ASSUME Init PROVE IInv
  OBVIOUS
<1> USE DEF Init
<1>1. Sane
  BY DEF Sane, Tables, Histories, Stored, Jars, Answering, Handling, NoCookies
<1>2. Overlap /\ OneId /\ Forgotten /\ FollowerAccepted
  BY DEF Overlap, OneId, Under, Forgotten, FollowerAccepted, UnderWay
<1>3. \A r \in Request : Repairs(r)
  BY DEF Repairs
<1>4. \A c \in Client : Follows(c)
  BY DEF Follows, NoCookies
<1> QED BY <1>1, <1>2, <1>3, <1>4 DEF IInv

-----------------------------------------------------------------------------
(* The step of one request that is under way.                              *)

\* What it leaves alone.
Moves(r) ==
    /\ phase[r] \in {"handling", "answered"}
    /\ \A q \in Request \ {r} :
          phase'[q] = phase[q] /\ scope'[q] = scope[q] /\ answer'[q] = answer[q]
    /\ UNCHANGED <<now, mode, secret, owner, safe, alone, refused>>
    /\ \A c \in Client : c # owner[r] => jar'[c] = jar[c]
    /\ \A s \in Request : owner[s] # owner[r] => store'[s] = store[s]
    /\ wrote \subseteq wrote'

\* It leaves other requests and clients as they were.
LEMMA OthersStay ==
    ASSUME IInv, NEW r \in Request, Moves(r)
    PROVE  /\ \A q \in Request \ {r} : (Answering(q) /\ Handling(q) /\ Repairs(q))'
           /\ \A c \in Client \ {owner[r]} : Follows(c)'
           /\ \A c \in Client \ {owner[r]} :
                  /\ jar'[c].session # None => OwnCookie(c, jar[c].session)'
                  /\ jar'[c].csrf \in Request \cup {None}
<1> USE DEF IInv, Moves
<1>1. Sane /\ Tables /\ Histories
  BY DEF Sane
<1>2. \A c : Mine(c) \subseteq Mine(c)' /\ Solo(c)' = Solo(c)
  BY DEF Mine, Solo
<1>3. ASSUME NEW c, NEW t, OwnCookie(c, t) PROVE OwnCookie(c, t)'
  BY <1>2, <1>3 DEF OwnCookie, OwnValue, Session, Writers
<1>4. ASSUME NEW c \in Client \ {owner[r]}, NEW v \in Mine(c) PROVE store'[v] = store[v]
  BY <1>1, <1>4 DEF Mine, Histories
<1>5. ASSUME NEW c \in Client \ {owner[r]}, NEW t, t # None => OwnCookie(c, t), NEW k, Agrees(t, k)
      PROVE  Agrees(t, k)'
  BY <1>1, <1>4, <1>5, AgreesStill DEF Tables
<1>6. ASSUME NEW q \in Request \ {r} PROVE (Answering(q) /\ Handling(q))'
  <2>1. Answering(q) /\ Handling(q)
    BY DEF Sane
  <2>2. /\ phase'[q] = phase[q] /\ scope'[q] = scope[q] /\ answer'[q] = answer[q]
        /\ owner'[q] = owner[q] /\ mode' = mode
    BY <1>1 DEF Tables
  <2>3. Answering(q)'
    BY <1>3, <2>1, <2>2 DEF Answering
  <2>4. Handling(q)'
    BY <1>2, <2>1, <2>2 DEF Handling, Writers, Scope, Session
  <2> QED BY <2>3, <2>4
<1>7. ASSUME NEW c \in Client \ {owner[r]} PROVE Follows(c)'
  BY <1>1, <1>2, <1>5 DEF Follows, Sane, Jars
<1>8. ASSUME NEW q \in Request \ {r} PROVE Repairs(q)'
  <2>1. /\ phase'[q] = phase[q] /\ scope'[q] = scope[q] /\ answer'[q] = answer[q]
        /\ owner'[q] = owner[q] /\ mode' = mode /\ Alone(q)' = Alone(q)
    BY <1>1 DEF Tables, Alone
  <2>2. CASE phase[q] \in {"handling", "answered"} /\ Alone(q)
    <3>1. owner[q] \in Client \ {owner[r]}
      BY <1>1, <2>2 DEF Overlap, UnderWay, Histories, Alone
    <3>2. PICK c \in Client \ {owner[r]} : c = owner[q]
      BY <3>1
    <3>3. PICK j, m : j = jar[c] /\ m = Merged(jar[c], answer[q])
      OBVIOUS
    <3>4. jar'[c] = j /\ Merged(jar[c], answer[q])' = m
      BY <1>1, <2>1, <3>2, <3>3 DEF Merged
    <3>5. Decoded(j.session)' = Decoded(j.session) /\ Solo(c)' = Solo(c)
      BY <1>2 DEF Decoded
    <3>6. CASE phase[q] = "handling"
      <4>1. j.session # None => OwnCookie(c, j.session)
        BY <3>3 DEF Sane, Jars
      <4>2. /\ scope[q].cookie = j.csrf
            /\ scope[q].session.csrf \in {None, scope[q].token}
            /\ mode = "memory" => scope[q].sid = Decoded(j.session)
            /\ Agrees(j.session, scope[q].token)
            /\ Solo(c) /\ j.csrf # None => scope[q].token = j.csrf
        BY <2>2, <3>2, <3>3, <3>6 DEF Repairs
      <4>3. PICK k : k = scope[q].token
        OBVIOUS
      <4>4. Agrees(j.session, k)'
        BY <1>5, <4>1, <4>2, <4>3
      <4> QED BY <2>1, <3>2, <3>4, <3>5, <3>6, <4>2, <4>3, <4>4 DEF Repairs
    <3>7. CASE phase[q] = "answered"
      <4>1. Answering(q)
        BY DEF Sane
      <4>2. m.session # None => OwnCookie(c, m.session)
        BY <3>2, <3>3, <4>1 DEF Sane, Jars, Merged, Answering
      <4>3. Agrees(m.session, m.csrf)
        BY <2>2, <3>2, <3>3, <3>7 DEF Repairs
      <4>4. Agrees(m.session, m.csrf)'
        BY <1>5, <4>2, <4>3
      <4> QED BY <2>1, <3>2, <3>3, <3>4, <3>7, <4>4 DEF Repairs
    <3> QED BY <2>2, <3>6, <3>7
  <2>3. CASE ~(phase[q] \in {"handling", "answered"} /\ Alone(q))
    BY <2>1, <2>3 DEF Repairs
  <2> QED BY <2>2, <2>3
<1>9. ASSUME NEW c \in Client \ {owner[r]}
      PROVE  /\ jar'[c].session # None => OwnCookie(c, jar[c].session)'
             /\ jar'[c].csrf \in Request \cup {None}
  BY <1>3, <1>9 DEF Sane, Jars
<1> QED BY <1>6, <1>7, <1>8, <1>9

\* A write is under the id it was under, or is the step's own.
LEMMA UnderOne ==
    ASSUME IInv, NEW r \in Request, Moves(r), erased' = erased,
           \A w, i \in Request :
               Under(w, i)' => Under(w, i) \/ (phase[r] = "handling" /\ w = r /\ i = IdOf(r))
    PROVE  OneId' /\ Forgotten'
<1>1. Histories /\ Stored
  BY DEF IInv, Sane
<1>2. \A i \in Request : phase[r] = "handling" /\ Under(r, i) => i = IdOf(r)
  <2> SUFFICES ASSUME NEW i \in Request, phase[r] = "handling", Under(r, i) PROVE i = IdOf(r)
    OBVIOUS
  <2>1. r \notin wrote
    BY <1>1 DEF Histories
  <2>2. \A s \in Request : store[s] # None => r \notin Writers(store[s].session)
    BY <1>1, <2>1 DEF Stored, Mine
  <2>3. \A q \in Request \ {r} : phase[q] = "handling" => r \notin Writers(scope[q].session)
    BY <2>1 DEF IInv, Sane, Handling, Mine
  <2> QED BY <2>2, <2>3 DEF Under
<1>3. OneId'
  BY <1>2 DEF IInv, OneId, Moves
<1>4. Forgotten'
  BY <1>1 DEF IInv, Forgotten, Moves, Solo, Histories
<1> QED BY <1>3, <1>4

LEMMA Moved ==
    ASSUME IInv, NEW r \in Request, Moves(r),
           Tables', Histories', Stored', (Answering(r) /\ Handling(r) /\ Repairs(r))',
           Follows(owner[r])', OneId', Forgotten',
           jar'[owner[r]].session # None => OwnCookie(owner[r], jar[owner[r]].session)',
           jar'[owner[r]].csrf \in Request \cup {None}
    PROVE  IInv'
<1>1. Sane'
  <2>1. owner' = owner
    BY DEF Moves
  <2>2. Jars'
    <3>1. PICK o : o = owner[r]
      OBVIOUS
    <3>2. \A c \in Client \ {o} :
              /\ jar'[c].session # None => OwnCookie(c, jar[c].session)'
              /\ jar'[c].csrf \in Request \cup {None}
      BY <3>1, OthersStay DEF Moves
    <3>3. /\ jar'[o].session # None => OwnCookie(o, jar[o].session)'
          /\ jar'[o].csrf \in Request \cup {None}
      BY <2>1, <3>1
    <3> QED BY <3>2, <3>3 DEF Jars
  <2> QED BY <2>2, OthersStay DEF Sane
<1>2. Overlap'
  BY DEF IInv, Sane, Tables, Overlap, Moves, UnderWay
<1>3. FollowerAccepted'
  BY DEF IInv, FollowerAccepted, Moves
<1>4. \A c \in Client : Follows(c)'
  <2>1. PICK o : o = owner[r]
    OBVIOUS
  <2>2. Follows(o)'
    BY <2>1 DEF Moves
  <2> QED BY <2>1, <2>2, OthersStay
<1> QED BY <1>1, <1>2, <1>3, <1>4, OthersStay DEF IInv

\* A handler's step that leaves its session as s.
Alters(r, s, f) ==
    /\ MayChange(r)
    /\ scope' = [scope EXCEPT ![r] = Changed(r, s, f)]
    /\ UNCHANGED <<now, server, jar, phase, owner, safe, answer, history>>

\* The handler works on a copy of its own.
LEMMA ChangeStep ==
    ASSUME IInv, NEW r \in Request, NEW s, NEW f \in {"clean", "dirty", "clear"},
           Alters(r, s, f), s \in Session, Writers(s) \subseteq Writers(scope[r].session) \cup {r},
           s.csrf \in {None, scope[r].session.csrf}
    PROVE  IInv'
<1>1. Sane /\ Tables /\ Histories /\ Stored /\ Jars /\ Answering(r) /\ Handling(r) /\ Repairs(r)
  BY DEF IInv, Sane
<1>2. /\ phase[r] = "handling" /\ r \notin refused /\ scope[r] \in Scope
      /\ scope[r].changes < MaxChanges
      /\ UNCHANGED <<now, mode, secret, store, jar, phase, owner, safe, answer>>
      /\ UNCHANGED <<refused, alone, wrote, erased>>
  BY <1>1 DEF Alters, MayChange, Handling, server, history
<1>3. /\ scope'[r] \in Scope /\ DOMAIN scope' = Request
      /\ \A q \in Request \ {r} : scope'[q] = scope[q]
      /\ scope'[r].sid = scope[r].sid /\ scope'[r].session = s
      /\ scope'[r].token = scope[r].token /\ scope'[r].cookie = scope[r].cookie
  <2>1. Changed(r, s, f) \in Scope
    <3>1. scope[r].changes + 1 \in 0..MaxChanges
      BY <1>2 DEF Scope
    <3> QED BY <1>2, <3>1 DEF Changed, Scope
  <2>2. scope' = [scope EXCEPT ![r] = Changed(r, s, f)]
    BY DEF Alters
  <2>3. scope'[r] = Changed(r, s, f)
    BY <1>1, <2>2 DEF Tables
  <2> QED BY <1>1, <1>2, <2>1, <2>2, <2>3 DEF Changed, Scope, Tables
<1>4. Moves(r)
  BY <1>1, <1>2, <1>3 DEF Moves, Tables
<1>5. Tables' /\ Histories' /\ Stored'
  BY <1>1, <1>2, <1>3 DEF Tables, Histories, Stored, Mine
<1>6. Answering(r)' /\ Handling(r)'
  BY <1>1, <1>2, <1>3 DEF Answering, Handling, OwnCookie, OwnValue, Mine, NoCookies
<1>7. Repairs(r)'
  BY <1>1, <1>2, <1>3 DEF Repairs, Agrees, Loaded, Decoded, Fetched, Expired, Solo, Alone
<1>8. Follows(owner[r])'
  BY <1>1, <1>2 DEF IInv, Follows, Agrees, Loaded, Decoded, Fetched, Expired, Solo, Histories
<1>9. \A w, i \in Request :
          Under(w, i)' => Under(w, i) \/ (phase[r] = "handling" /\ w = r /\ i = IdOf(r))
  <2>1. IdOf(r)' = IdOf(r) /\ \A q \in Request \ {r} : scope'[q] = scope[q] /\ IdOf(q)' = IdOf(q)
    BY <1>1, <1>3 DEF IdOf, Tables
  <2> QED BY <1>2, <1>3, <2>1 DEF Under
<1>10. OneId' /\ Forgotten'
  BY <1>2, <1>4, <1>9, UnderOne
<1>11. /\ jar'[owner[r]].session # None => OwnCookie(owner[r], jar[owner[r]].session)'
       /\ jar'[owner[r]].csrf \in Request \cup {None}
  BY <1>1, <1>2 DEF Histories, Jars, OwnCookie, OwnValue, Mine
<1> QED BY <1>4, <1>5, <1>6, <1>7, <1>8, <1>10, <1>11, Moved

LEMMA HandlerStep ==
    ASSUME IInv, NEW r \in Request,
           Clear(r) \/ \E k \in Field : SetValue(r, k) \/ Replace(r, k) \/ ChangeInPlace(r, k)
    PROVE  IInv'
<1>1. CASE Clear(r)
  BY <1>1, EmptyIsSession, ChangeStep DEF Clear, ChangesTo, Alters
<1>2. ASSUME NEW k \in Field, SetValue(r, k) PROVE IInv'
  <2>1. scope[r].session \in Session
    BY <1>2 DEF IInv, Sane, Handling, SetValue, ChangesTo, MayChange, Scope
  <2>2. PICK s : s = [scope[r].session EXCEPT !.data[k] = r]
    OBVIOUS
  <2>3. ChangesTo(r, s, "dirty")
    BY <1>2, <2>2 DEF SetValue
  <2>4. s \in Session /\ Writers(s) \subseteq Writers(scope[r].session) \cup {r} /\ s.csrf = scope[r].session.csrf
    BY <2>1, <2>2, ValueChanges
  <2> QED BY <2>3, <2>4, ChangeStep DEF ChangesTo, Alters
<1>3. ASSUME NEW k \in Field, Replace(r, k) PROVE IInv'
  <2>1. PICK s : s = [Empty EXCEPT !.data[k] = r]
    OBVIOUS
  <2>2. ChangesTo(r, s, "dirty")
    BY <1>3, <2>1 DEF Replace
  <2>3. s \in Session /\ Writers(s) \subseteq {r} /\ s.csrf = None
    BY <2>1, EmptyIsSession, ValueChanges
  <2> QED BY <2>2, <2>3, ChangeStep DEF ChangesTo, Alters
<1>4. ASSUME NEW k \in Field, ChangeInPlace(r, k) PROVE IInv'
  <2>1. scope[r] \in Scope /\ MayChange(r)
    BY <1>4 DEF IInv, Sane, Handling, ChangeInPlace, MayChange
  <2>2. PICK s, f : s = scope[r].session /\ f = scope[r].flag
    OBVIOUS
  <2>3. s \in Session /\ f \in {"clean", "dirty", "clear"} /\ s.csrf = scope[r].session.csrf
    BY <2>1, <2>2 DEF Scope
  <2>4. scope' = [scope EXCEPT ![r] = Changed(r, s, f)]
    <3>1. Changed(r, s, f) = [scope[r] EXCEPT !.changes = @ + 1]
      BY <2>1, <2>2 DEF Changed, Scope
    <3> QED BY <1>4, <3>1 DEF ChangeInPlace
  <2>5. UNCHANGED <<now, server, jar, phase, owner, safe, answer, history>>
    BY <1>4 DEF ChangeInPlace
  <2>6. Writers(s) \subseteq Writers(scope[r].session) \cup {r}
    BY <2>2
  <2> QED BY <2>1, <2>3, <2>4, <2>5, <2>6, ChangeStep DEF Alters
<1> QED BY <1>1, <1>2, <1>3, <1>4

-----------------------------------------------------------------------------
(* The response starts, arrives or is lost.                                *)

LEMMA NothingLoaded == Loaded(None) = Empty /\ Loaded(None)' = Empty
  BY DEF Loaded, Decoded, Fetched, Empty

\* A response that carries the token, and a session that agrees with it.
LEMMA Answered ==
    ASSUME IInv, NEW r \in Request, Moves(r), phase[r] = "handling", phase'[r] = "answered",
           jar' = jar, NEW k, k = scope[r].token, NEW j, j = jar[owner[r]], NEW a, a = answer'[r],
           a.csrf = CsrfCookie(r),
           Alone(r) => Agrees(j.session, k)',
           Alone(r) /\ a.session \notin {None, Cleared} => Agrees(a.session, k)'
    PROVE  Repairs(r)' /\ Follows(owner[r])'
<1>1. Sane /\ Handling(r) /\ Repairs(r) /\ Tables /\ Histories /\ k # None
  BY DEF IInv, Sane, Handling
<1>2. PICK c : c = owner[r] /\ c \in Client
  BY <1>1 DEF Histories
<1>3. owner'[r] = c /\ jar'[c] = j /\ Alone(r)' = Alone(r) /\ Solo(c)' = Solo(c)
  BY <1>2 DEF Moves, Alone, Solo
<1>4. Alone(r) => a.csrf \in {k, None} /\ (a.csrf = None => j.csrf = k)
  BY <1>1 DEF Repairs, CsrfCookie, Alone
<1>5. Repairs(r)'
  <2>1. PICK m : m = Merged(j, a)
    OBVIOUS
  <2>2. Alone(r) => m.csrf = k
    BY <1>1, <1>4, <2>1 DEF Merged
  <2>3. m.session \in {None, a.session, j.session}
        /\ (m.session = a.session => a.session \notin {None, Cleared} \/ m.session = None \/ m.session = j.session)
    BY <2>1 DEF Merged
  <2>4. Alone(r) => Agrees(m.session, k)'
    BY <2>3, NothingLoaded, EmptyIsSession DEF Agrees
  <2>5. Merged(jar[owner[r]], answer[r])' = m
    BY <1>2, <1>3, <2>1 DEF Merged
  <2> QED BY <1>3, <2>2, <2>4, <2>5 DEF Repairs
<1>6. Follows(c)'
  <2>1. Solo(c) => Alone(r)
    BY <1>1, <1>2 DEF Solo, Alone, IInv, FollowerAccepted
  <2>2. Solo(c) /\ j.csrf # None => k = j.csrf
    BY <1>1, <1>2, <2>1 DEF Repairs
  <2> QED BY <1>3, <2>1, <2>2 DEF Follows
<1> QED BY <1>2, <1>5, <1>6 DEF Moves

\* Facts about any response.
LEMMA Responding ==
    ASSUME IInv, NEW r \in Request, Respond(r)
    PROVE  /\ Sane /\ Tables /\ Histories /\ Stored /\ Jars
           /\ Answering(r) /\ Handling(r) /\ Repairs(r) /\ scope[r] \in Scope
           /\ phase[r] = "handling" /\ r \notin wrote /\ owner[r] \in Client
           /\ phase' = [phase EXCEPT ![r] = "answered"] /\ scope' = [scope EXCEPT ![r] = None]
           /\ UNCHANGED <<now, mode, secret, jar, owner, safe, refused, alone>>
           /\ mode = "memory" => IdOf(r) \in Mine(owner[r]) \cup {r}
           /\ mode = "memory" /\ scope[r].sid # None => scope[r].sid \in Mine(owner[r])
           /\ \A w, i \in Request :
                 (store'[i] # None => store'[i] = store[i]) => (Under(w, i)' => Under(w, i))
<1>1. /\ Sane /\ Tables /\ Histories /\ Stored /\ Jars
      /\ Answering(r) /\ Handling(r) /\ Repairs(r)
      /\ phase[r] = "handling"
      /\ phase' = [phase EXCEPT ![r] = "answered"] /\ scope' = [scope EXCEPT ![r] = None]
      /\ UNCHANGED <<now, mode, secret, jar, owner, safe, refused, alone>>
  BY DEF Respond, IInv, Sane
<1>2. r \notin wrote /\ owner[r] \in Client /\ scope[r] \in Scope
  BY <1>1 DEF Histories, Handling
<1>3. mode = "memory" => IdOf(r) \in Mine(owner[r]) \cup {r}
  BY <1>1 DEF Handling, IdOf
<1>4. \A q \in Request \ {r} : phase'[q] = phase[q] /\ scope'[q] = scope[q] /\ IdOf(q)' = IdOf(q)
  BY <1>1 DEF Tables, IdOf
<1>5. phase'[r] = "answered"
  BY <1>1 DEF Tables
<1>6. ASSUME NEW w, NEW i \in Request, store'[i] # None => store'[i] = store[i], Under(w, i)'
      PROVE  Under(w, i)
  BY <1>4, <1>5, <1>6 DEF Under
<1> QED BY <1>1, <1>2, <1>3, <1>6 DEF Handling

LEMMA CleanStep ==
    ASSUME IInv, NEW r \in Request, Respond(r), scope[r].flag = "clean",
           answer' = [answer EXCEPT ![r].csrf = CsrfCookie(r)], UNCHANGED <<store, wrote, erased>>
    PROVE  IInv'
<1>1. Moves(r) /\ phase'[r] = "answered"
  BY Responding DEF Moves, Tables
<1>2. PICK k, j, a : k = scope[r].token /\ j = jar[owner[r]] /\ a = answer'[r]
  OBVIOUS
<1>3. a.session = None /\ a.csrf = CsrfCookie(r)
  BY <1>2, Responding DEF Answering, Tables, NoCookies
<1>4. Alone(r) => Agrees(j.session, k)'
  <2>1. PICK c \in Client : c = owner[r]
    BY Responding
  <2>2. j.session # None => OwnCookie(c, j.session)
    BY <1>2, <2>1, Responding DEF Jars
  <2>3. Alone(r) => Agrees(j.session, k)
    BY <1>2, Responding DEF Repairs
  <2>4. /\ mode' = mode /\ now' = now /\ now \in Int /\ secret' = secret /\ secret \in Int /\ Sane
        /\ \A v \in Mine(c) : store'[v] \in {store[v], None}
    BY Responding DEF Tables
  <2> QED BY <2>1, <2>2, <2>3, <2>4, AgreesStill
<1>5. Repairs(r)' /\ Follows(owner[r])'
  BY <1>1, <1>2, <1>3, <1>4, Responding, Answered
<1>6. OneId' /\ Forgotten'
  BY <1>1, Responding, UnderOne
<1>7. Tables' /\ Histories' /\ Stored' /\ Handling(r)'
  BY <1>1, Responding DEF Tables, Histories, Stored, Handling, Mine
<1>8. Answering(r)'
  BY <1>1, <1>2, <1>3, Responding DEF Answering, CsrfCookie, Scope
<1>9. /\ jar'[owner[r]].session # None => OwnCookie(owner[r], jar[owner[r]].session)'
      /\ jar'[owner[r]].csrf \in Request \cup {None}
  BY Responding DEF Jars, OwnCookie, OwnValue, Mine
<1> QED BY <1>1, <1>5, <1>6, <1>7, <1>8, <1>9, Moved

LEMMA ClearStep ==
    ASSUME IInv, NEW r \in Request, Respond(r), scope[r].flag = "clear",
           store' = Remove(scope[r].sid),
           answer' = [answer EXCEPT ![r] = [session |-> Cleared, csrf |-> CsrfCookie(r)]],
           erased' = erased \cup IF mode = "memory" THEN Writers(Fetched(scope[r].sid)) ELSE {},
           wrote' = wrote
    PROVE  IInv'
<1>0. PICK k, j, a, c, s : k = scope[r].token /\ j = jar[owner[r]] /\ a = answer'[r]
                           /\ c = owner[r] /\ s = scope[r].sid
  OBVIOUS
<1>1. /\ c \in Client /\ phase'[r] = "answered"
      /\ store' = IF mode = "memory" /\ s # None THEN [store EXCEPT ![s] = None] ELSE store
      /\ mode = "memory" /\ s # None => s \in Mine(c)
      /\ \A i \in Request : store'[i] \in {store[i], None}
  BY <1>0, Responding DEF Remove, Tables
<1>2. Moves(r)
  BY <1>0, <1>1, Responding DEF Moves, Tables, Mine
<1>3. a = [session |-> Cleared, csrf |-> CsrfCookie(r)]
  BY <1>0, Responding DEF Tables
<1>4. Alone(r) => Agrees(j.session, k)'
  <2>1. j.session # None => OwnCookie(c, j.session)
    BY <1>0, <1>1, Responding DEF Jars
  <2>2. Alone(r) => Agrees(j.session, k)
    BY <1>0, Responding DEF Repairs
  <2>3. \A v \in Mine(c) : store'[v] \in {store[v], None}
    BY <1>1, Responding DEF Mine, Histories
  <2> QED BY <1>1, <2>1, <2>2, <2>3, Responding, AgreesStill DEF Tables
<1>5. Repairs(r)' /\ Follows(owner[r])'
  BY <1>0, <1>1, <1>2, <1>3, <1>4, Responding, Answered
<1>6. \A w, i \in Request : Under(w, i)' => Under(w, i)
  BY <1>1, Responding
<1>7. OneId'
  BY <1>6, Responding DEF IInv, OneId
\* Nobody else works with the id whose entry is removed.
<1>8. ASSUME mode = "memory", NEW w \in Writers(Fetched(s)), Solo(owner[w]) PROVE \A i \in Request : ~Under(w, i)'
  <2>1. s # None /\ store[s] # None /\ s \in Mine(c) /\ w \in Writers(store[s].session)
    BY <1>1, <1>8, EmptyIsSession DEF Fetched
  <2>2. s \in Request /\ owner[s] = c /\ s \in wrote /\ w \in Mine(c) /\ w \in Request
    BY <2>1, Responding DEF Mine, Stored, Histories
  <2>3. Under(w, s)
    BY <2>1 DEF Under
  <2>4. ASSUME NEW i \in Request, Under(w, i)' PROVE FALSE
    <3>1. i = s
      BY <1>6, <1>8, <2>2, <2>3, <2>4 DEF IInv, OneId
    <3>2. store'[s] = None
      BY <1>1, <1>8, <2>1, <2>2, Responding DEF Tables
    <3>3. PICK q \in Request : phase'[q] = "handling" /\ IdOf(q)' = s
      BY <2>4, <3>1, <3>2 DEF Under
    <3>4. q # r /\ phase[q] = "handling" /\ scope'[q] = scope[q]
      BY <1>1, <3>3, Responding DEF Tables
    <3>5. scope[q].sid = s
      BY <2>2, <3>3, <3>4, Responding DEF IdOf, Histories
    <3>6. owner[q] = c
      BY <2>1, <2>2, <3>4, <3>5 DEF IInv, Sane, Handling, Mine
    <3>7. ~alone[q]
      BY <1>0, <3>4, <3>6, Responding DEF IInv, Overlap, UnderWay
    <3> QED BY <1>8, <2>2, <3>6, <3>7 DEF Solo, Mine
  <2> QED BY <2>4
<1>9. Forgotten'
  BY <1>0, <1>6, <1>8, Responding DEF IInv, Forgotten, Histories, Solo
<1>10. erased' \subseteq wrote /\ (mode = "cookie" => erased' = {})
  BY <1>0, <1>1, LoadedIsMine, EmptyIsSession, Responding DEF Histories, Fetched, Stored, Mine
<1>11. Tables' /\ Histories' /\ Stored' /\ Handling(r)'
  BY <1>1, <1>2, <1>10, Responding DEF Tables, Histories, Stored, Handling, Mine
<1>12. Answering(r)'
  BY <1>0, <1>1, <1>3, Responding DEF Answering, CsrfCookie, Scope
<1>13. /\ jar'[owner[r]].session # None => OwnCookie(owner[r], jar[owner[r]].session)'
       /\ jar'[owner[r]].csrf \in Request \cup {None}
  BY Responding DEF Jars, OwnCookie, OwnValue, Mine
<1> QED BY <1>2, <1>5, <1>7, <1>9, <1>11, <1>12, <1>13, Moved

LEMMA DirtyStep ==
    ASSUME IInv, NEW r \in Request, Respond(r), scope[r].flag = "dirty",
           store' = Saved(r),
           answer' = [answer EXCEPT ![r] = [session |-> SessionCookie(r), csrf |-> CsrfCookie(r)]],
           wrote' = wrote \cup {r}, erased' = erased
    PROVE  IInv'
<1>0. PICK k, j, a, c, i, s :
          /\ k = scope[r].token /\ j = jar[owner[r]] /\ a = answer'[r] /\ c = owner[r]
          /\ i = IdOf(r) /\ s = scope[r].session
  OBVIOUS
<1>1. /\ c \in Client /\ phase'[r] = "answered" /\ s \in Session
      /\ store' = IF mode = "memory" THEN [store EXCEPT ![i] = Entry(s)] ELSE store
      /\ mode = "memory" => i \in Mine(c) \cup {r}
      /\ Writers(s) \subseteq Mine(c) \cup {r}
      /\ mode = "memory" => i \in Request /\ owner[i] = c /\ store'[i] = Entry(s)
  BY <1>0, Responding DEF Saved, Scope, Tables, Handling, Mine, Histories
<1>2. Moves(r)
  BY <1>0, <1>1, Responding DEF Moves, Tables, Mine
<1>3. /\ \A d : d # c => Mine(d)' = Mine(d)
      /\ Mine(c)' = Mine(c) \cup {r} /\ mode' = mode /\ now' = now /\ now \in Int
  BY <1>0, Responding DEF Mine, Tables
<1>4. a.session = [value |-> IF mode = "memory" THEN i ELSE s, key |-> secret] /\ a.csrf = CsrfCookie(r)
  BY <1>0, Responding DEF Tables, SessionCookie, Signed
<1>5. OwnCookie(c, a.session)'
  BY <1>0, <1>1, <1>3, <1>4, Responding DEF OwnCookie, OwnValue, Tables, Session, Writers
<1>6. Entry(s).session = s /\ Entry(s).until \in Int \cup {None}
  BY <1>3 DEF Entry
<1>7. Alone(r) => s.csrf \in {None, k}
  BY <1>0, Responding DEF Repairs
\* What is stored under the id, or signed, agrees with the token ...
<1>8. ASSUME mode = "memory" PROVE Fetched(i)' \in {s, Empty}
  BY <1>1, <1>6, <1>8 DEF Fetched, Empty
<1>9. Alone(r) => Agrees(a.session, k)'
  <2>1. CASE mode = "memory"
    BY <1>1, <1>3, <1>4, <1>7, <1>8, <2>1, EmptyIsSession, NothingLoaded
       DEF Agrees, Loaded, Decoded, Fetched, Empty
  <2>2. CASE mode # "memory"
    BY <1>1, <1>3, <1>4, <1>7, <2>2, EmptyIsSession, NothingLoaded DEF Agrees, Loaded, Decoded, Empty
  <2> QED BY <2>1, <2>2
\* ... and so does what the jar stands for: that id, if any.
<1>10. Alone(r) => Agrees(j.session, k)'
  <2>1. CASE mode = "memory"
    <3>1. Decoded(j.session)' = Decoded(j.session)
      BY Responding DEF Decoded
    <3>2. Alone(r) => Decoded(j.session) = scope[r].sid
      BY <1>0, <2>1, Responding DEF Repairs
    <3>3. Alone(r) => Decoded(j.session) \in {i, None}
      BY <1>0, <3>2 DEF IdOf
    <3>4. Fetched(None)' = Empty
      BY DEF Fetched, Empty
    <3> QED BY <1>3, <1>7, <1>8, <2>1, <3>1, <3>3, <3>4, EmptyIsSession DEF Agrees, Loaded
  <2>2. CASE mode # "memory"
    <3>1. Alone(r) => Agrees(j.session, k)
      BY <1>0, Responding DEF Repairs
    <3>2. Loaded(j.session)' = Loaded(j.session)
      BY <1>3, <2>2, Responding DEF Loaded, Decoded, Empty
    <3> QED BY <3>1, <3>2 DEF Agrees
  <2> QED BY <2>1, <2>2
<1>11. Repairs(r)' /\ Follows(owner[r])'
  BY <1>0, <1>1, <1>2, <1>4, <1>9, <1>10, Responding, Answered
<1>12. ASSUME NEW w \in Request, NEW n \in Request, Under(w, n)', mode = "memory" PROVE Under(w, n)
  <2>1. CASE n # i
    BY <1>1, <1>12, <2>1, Responding DEF Tables
  <2>2. CASE n = i
    <3>1. CASE w \in Writers(s)
      BY <1>0, <2>2, <3>1, Responding DEF Under
    <3>2. CASE w \notin Writers(s)
      <4>1. PICK q \in Request : phase'[q] = "handling" /\ IdOf(q)' = n /\ w \in Writers(scope'[q].session)
        BY <1>1, <1>6, <1>12, <2>2, <3>2 DEF Under
      <4>2. phase[q] = "handling" /\ scope'[q] = scope[q]
        BY <1>1, <4>1, Responding DEF Tables
      <4> QED BY <4>1, <4>2 DEF Under, IdOf
    <3> QED BY <3>1, <3>2
  <2> QED BY <2>1, <2>2
<1>13. OneId' /\ Forgotten'
  <2>1. CASE mode = "memory"
    BY <1>2, <1>12, <2>1, UnderOne
  <2>2. CASE mode # "memory"
    BY <1>3, <2>2 DEF OneId, Forgotten
  <2> QED BY <2>1, <2>2
<1>14. Tables' /\ Histories' /\ Handling(r)'
  BY <1>1, <1>2, Responding DEF Tables, Histories, Handling, Mine
<1>15. Stored'
  <2>1. \A d : Mine(d) \subseteq Mine(d)'
    BY <1>3
  <2> QED BY <1>1, <1>3, <1>6, <2>1, Responding DEF Stored, Tables, Mine, Histories
<1>16. Answering(r)'
  BY <1>0, <1>1, <1>4, <1>5, Responding DEF Answering, CsrfCookie, Scope
<1>17. /\ jar'[owner[r]].session # None => OwnCookie(owner[r], jar[owner[r]].session)'
       /\ jar'[owner[r]].csrf \in Request \cup {None}
  BY <1>0, <1>3, Responding DEF Jars, OwnCookie, OwnValue, Session, Writers
<1> QED BY <1>2, <1>11, <1>13, <1>14, <1>15, <1>16, <1>17, Moved

LEMMA RespondStep == ASSUME IInv, NEW r \in Request, Respond(r) PROVE IInv'
<1>1. CASE scope[r].flag = "clean"
  BY <1>1, CleanStep DEF Respond
<1>2. CASE scope[r].flag = "clear"
  BY <1>2, ClearStep DEF Respond
<1>3. CASE scope[r].flag = "dirty"
  BY <1>3, DirtyStep DEF Respond
<1> QED BY <1>1, <1>2, <1>3 DEF Respond

LEMMA DeliverStep == ASSUME IInv, NEW r \in Request, Deliver(r) PROVE IInv'
<1>0. PICK c, m : c = owner[r] /\ m = Merged(jar[owner[r]], answer[r])
  OBVIOUS
<1>1. /\ Sane /\ Tables /\ Histories /\ Stored /\ Jars /\ Answering(r) /\ Handling(r) /\ Repairs(r)
      /\ phase[r] = "answered" /\ phase' = [phase EXCEPT ![r] = "done"]
      /\ jar' = [jar EXCEPT ![c] = m] /\ answer' = [answer EXCEPT ![r] = NoCookies]
      /\ UNCHANGED <<now, mode, secret, store, owner, safe, scope, refused, alone, wrote, erased>>
      /\ c \in Client
  BY <1>0 DEF IInv, Sane, Deliver, Merged, Histories, server, history
<1>2. Moves(r) /\ phase'[r] = "done" /\ jar'[c] = m
  BY <1>0, <1>1 DEF Moves, Tables
<1>3. /\ m.session # None => OwnCookie(c, m.session) /\ OwnCookie(c, m.session)'
      /\ m.csrf \in Request \cup {None}
  BY <1>0, <1>1, SMTT(60) DEF Merged, Jars, Answering, OwnCookie, OwnValue, Mine, Session, Writers
<1>4. Repairs(r)'
  BY <1>2 DEF Repairs
<1>5. Follows(c)'
  <2>1. Solo(c) => Alone(r)
    BY <1>0, <1>1 DEF Solo, Alone, IInv, FollowerAccepted
  <2>2. Alone(r) => Agrees(m.session, m.csrf)
    BY <1>0, <1>1 DEF Repairs
  <2>3. \A v \in Mine(c) : store'[v] \in {store[v], None}
    BY <1>1
  <2>4. PICK k : k = m.csrf
    OBVIOUS
  <2>5. Alone(r) => Agrees(m.session, k)'
    BY <1>1, <1>3, <2>2, <2>3, <2>4, AgreesStill DEF Tables
  <2>6. Solo(c)' = Solo(c)
    BY <1>1 DEF Solo
  <2> QED BY <1>2, <2>1, <2>4, <2>5, <2>6 DEF Follows
<1>6. OneId' /\ Forgotten'
  <2>1. \A w, i \in Request : Under(w, i)' => Under(w, i)
    BY <1>1 DEF Under, IdOf, Tables
  <2> QED BY <1>1, <1>2, <2>1, UnderOne
<1>7. Tables' /\ Histories' /\ Stored' /\ Handling(r)' /\ Answering(r)'
  BY <1>1, <1>2 DEF Tables, Histories, Stored, Handling, Answering, Mine, NoCookies
<1> QED BY <1>0, <1>1, <1>2, <1>3, <1>4, <1>5, <1>6, <1>7, Moved

LEMMA LoseStep == ASSUME IInv, NEW r \in Request, Lose(r) PROVE IInv'
<1>1. /\ Sane /\ Tables /\ Histories /\ Stored /\ Jars /\ Answering(r) /\ Handling(r)
      /\ phase[r] \in {"handling", "answered"} /\ phase' = [phase EXCEPT ![r] = "lost"]
      /\ scope' = [scope EXCEPT ![r] = None] /\ answer' = [answer EXCEPT ![r] = NoCookies]
      /\ UNCHANGED <<now, mode, secret, store, jar, owner, safe, refused, alone, wrote, erased>>
  BY DEF IInv, Sane, Lose, server, history
<1>2. Moves(r) /\ phase'[r] = "lost"
  BY <1>1 DEF Moves, Tables
<1>3. Follows(owner[r])'
  BY <1>1 DEF IInv, Follows, Agrees, Loaded, Decoded, Fetched, Expired, Empty, Solo, Histories
<1>4. OneId' /\ Forgotten'
  <2>1. \A w, i \in Request : Under(w, i)' => Under(w, i)
    BY <1>1 DEF Under, IdOf, Tables
  <2> QED BY <1>1, <1>2, <2>1, UnderOne
<1>5. Tables' /\ Histories' /\ Stored' /\ (Handling(r) /\ Answering(r) /\ Repairs(r))'
  BY <1>1, <1>2 DEF Tables, Histories, Stored, Handling, Answering, Repairs, Mine, NoCookies
<1>6. /\ jar'[owner[r]].session # None => OwnCookie(owner[r], jar[owner[r]].session)'
      /\ jar'[owner[r]].csrf \in Request \cup {None}
  BY <1>1 DEF Jars, Histories, OwnCookie, OwnValue, Mine
<1> QED BY <1>2, <1>3, <1>4, <1>5, <1>6, Moved

-----------------------------------------------------------------------------
(* Time, restarts, and the next request.                                   *)

\* A step that writes nothing: entries may go, cookies may lose their meaning.
Ages ==
    /\ mode' = mode /\ now' \in Int /\ now <= now' /\ secret' \in Int /\ secret <= secret'
    /\ DOMAIN store' = Request /\ \A v \in Request : store'[v] \in {store[v], None}
    /\ UNCHANGED <<jar, answer, wrote, erased>>
    /\ \A q \in Request : phase[q] # "idle" => owner'[q] = owner[q] /\ safe'[q] = safe[q]
    /\ \A q \in Request : alone'[q] => alone[q]
    /\ refused \subseteq refused'

LEMMA AgesKeeps ==
    ASSUME IInv, Ages
    PROVE  /\ Stored' /\ Jars'
           /\ \A c \in Client : (Solo(c)' => Solo(c)) /\ Mine(c)' = Mine(c) /\ Follows(c)'
           /\ \A q \in Request :
                phase[q] # "idle" /\ phase'[q] = phase[q] =>
                    /\ Answering(q)'
                    /\ scope'[q] = scope[q] => Handling(q)'
                    /\ (scope'[q] = scope[q] /\ secret' = secret) \/ phase[q] # "handling" => Repairs(q)'
<1>1. Sane /\ Tables /\ Histories /\ Stored /\ Jars /\ \A q \in Request : Repairs(q)
  BY DEF IInv, Sane
<1>2. ASSUME NEW c \in Client PROVE (Solo(c)' => Solo(c)) /\ Mine(c)' = Mine(c)
  BY <1>1 DEF Ages, Solo, Mine, Histories
<1>3. ASSUME NEW c \in Client, NEW t, OwnCookie(c, t) PROVE OwnCookie(c, t)'
  BY <1>1, <1>2, <1>3 DEF OwnCookie, OwnValue, Session, Writers, Ages, Tables
<1>4. ASSUME NEW c \in Client, NEW t, t # None => OwnCookie(c, t), NEW k, Agrees(t, k)
      PROVE  Agrees(t, k)'
  <2>1. \A v \in Mine(c) : store'[v] \in {store[v], None}
    BY <1>1 DEF Ages, Mine, Histories
  <2> QED BY <1>1, <1>4, <2>1, AgreesStill DEF Ages
<1>5. Stored'
  BY <1>1, <1>2 DEF Stored, Ages, Mine, Histories, Session, Writers
<1>6. Jars'
  <2>1. jar' = jar
    BY DEF Ages
  <2> QED BY <1>1, <1>3, <2>1 DEF Jars
<1>7. ASSUME NEW c \in Client PROVE Follows(c)'
  <2>1. PICK t, k : t = jar[c].session /\ k = jar[c].csrf
    OBVIOUS
  <2>2. jar'[c].session = t /\ jar'[c].csrf = k
    BY <2>1 DEF Ages
  <2>3. Solo(c) /\ k # None => Agrees(t, k)'
    BY <1>1, <1>4, <2>1 DEF IInv, Follows, Jars
  <2> QED BY <1>2, <2>2, <2>3 DEF Follows
<1>8. ASSUME NEW q \in Request, phase[q] # "idle", phase'[q] = phase[q] PROVE Answering(q)'
  <2>1. PICK c, a : c \in Client /\ c = owner[q] /\ a = answer[q]
    BY <1>1, <1>8 DEF Histories
  <2>2. owner'[q] = c /\ answer'[q] = a
    BY <1>1, <1>8, <2>1 DEF Ages
  <2>3. Answering(q)
    BY DEF IInv, Sane
  <2> QED BY <1>3, <1>8, <2>1, <2>2, <2>3 DEF Answering, NoCookies
<1>9. ASSUME NEW q \in Request, phase[q] # "idle", phase'[q] = phase[q], scope'[q] = scope[q]
      PROVE  Handling(q)'
  <2>1. PICK c \in Client : c = owner[q]
    BY <1>1, <1>9 DEF Histories
  <2>2. Handling(q) /\ owner'[q] = c /\ mode' = mode /\ Mine(c)' = Mine(c)
    BY <1>1, <1>2, <1>9, <2>1 DEF Sane, Ages
  <2> QED BY <1>9, <2>1, <2>2 DEF Handling
<1>10. ASSUME NEW q \in Request, phase[q] # "idle", phase'[q] = phase[q],
              (scope'[q] = scope[q] /\ secret' = secret) \/ phase[q] # "handling"
       PROVE  Repairs(q)'
  <2>1. PICK c, a, j, m, k :
            c \in Client /\ c = owner[q] /\ a = answer[q] /\ j = jar[c] /\ m = Merged(j, a) /\ k = scope[q].token
    BY <1>1, <1>10 DEF Histories
  <2>2. owner'[q] = c /\ answer'[q] = a /\ jar'[c] = j /\ (Alone(q)' => Alone(q))
        /\ Merged(jar[owner[q]], answer[q])' = m
    BY <1>1, <1>10, <2>1 DEF Ages, Alone, Merged
  <2>3. (j.session # None => OwnCookie(c, j.session)) /\ (m.session # None => OwnCookie(c, m.session))
    BY <1>1, <2>1 DEF Jars, Answering, Sane, Merged
  <2>4. CASE phase[q] = "handling" /\ Alone(q)
    <3>1. Decoded(j.session)' = Decoded(j.session) /\ mode' = mode
      BY <1>10, <2>4 DEF Decoded, Ages
    <3>2. Agrees(j.session, k)'
      BY <1>1, <1>4, <2>1, <2>3, <2>4 DEF Repairs
    <3> QED BY <1>1, <1>2, <1>10, <2>1, <2>2, <2>4, <3>1, <3>2 DEF Repairs
  <2>5. CASE phase[q] = "answered" /\ Alone(q)
    <3>1. PICK n : n = m.csrf
      OBVIOUS
    <3>2. Agrees(m.session, n)'
      BY <1>1, <1>4, <2>1, <2>3, <2>5, <3>1 DEF Repairs
    <3> QED BY <1>10, <2>2, <2>5, <3>1, <3>2 DEF Repairs
  <2>6. CASE ~Alone(q) \/ phase[q] \notin {"handling", "answered"}
    BY <1>10, <2>2, <2>6 DEF Repairs
  <2> QED BY <2>4, <2>5, <2>6
<1> QED BY <1>2, <1>5, <1>6, <1>7, <1>8, <1>9, <1>10

LEMMA TickStep == ASSUME IInv, Tick PROVE IInv'
<1>1. /\ Sane /\ Tables /\ Histories /\ now' = now + 1
      /\ UNCHANGED <<mode, secret, store, jar, phase, owner, safe, scope, answer>>
      /\ UNCHANGED <<refused, alone, wrote, erased>>
  BY DEF IInv, Sane, Tick, server, request, history
<1>2. Ages
  BY <1>1 DEF Ages, Tables
<1>3. Tables' /\ Histories'
  BY <1>1 DEF Tables, Histories
<1>4. \A q \in Request : (Answering(q) /\ Handling(q) /\ Repairs(q))'
  <2>1. \A q \in Request : phase[q] = "idle" => (Answering(q) /\ Handling(q) /\ Repairs(q))'
    BY <1>1 DEF Sane, Answering, Handling, Repairs, NoCookies
  <2> QED BY <1>1, <1>2, <2>1, AgesKeeps
<1>5. Overlap' /\ OneId' /\ Forgotten' /\ FollowerAccepted'
  BY <1>1 DEF IInv, Overlap, UnderWay, OneId, Forgotten, Under, IdOf, Solo, FollowerAccepted
<1> QED BY <1>2, <1>3, <1>4, <1>5, AgesKeeps DEF IInv, Sane

LEMMA RestartStep == ASSUME IInv, Restart PROVE IInv'
<1>1. /\ Sane /\ Tables /\ Histories /\ secret' = secret + 1
      /\ store' = [r \in Request |-> None]
      /\ phase' = [r \in Request |-> IF phase[r] = "handling" THEN "lost" ELSE phase[r]]
      /\ scope' = [r \in Request |-> None]
      /\ UNCHANGED <<now, mode, jar, owner, safe, answer, refused, alone, wrote, erased>>
  BY DEF IInv, Sane, Restart, history
<1>2. Ages
  BY <1>1 DEF Ages, Tables
<1>3. Tables' /\ Histories'
  BY <1>1 DEF Tables, Histories
<1>4. ASSUME NEW q \in Request PROVE (Answering(q) /\ Handling(q) /\ Repairs(q))'
  <2>1. phase'[q] # "handling" /\ Handling(q)' /\ answer'[q] = answer[q] /\ Answering(q)
    BY <1>1 DEF Handling, Sane
  <2>2. CASE phase[q] \in {"handling", "idle"}
    BY <1>1, <2>1, <2>2 DEF Answering, Repairs, NoCookies
  <2>3. CASE phase[q] \notin {"handling", "idle"}
    BY <1>1, <1>2, <2>1, <2>3, AgesKeeps
  <2> QED BY <2>2, <2>3
<1>5. Overlap' /\ FollowerAccepted'
  BY <1>1 DEF IInv, Overlap, UnderWay, FollowerAccepted
<1>6. OneId' /\ Forgotten'
  BY <1>1 DEF OneId, Forgotten, Under
<1> QED BY <1>2, <1>3, <1>4, <1>5, <1>6, AgesKeeps DEF IInv, Sane

\* A request takes what its client's cookies stand for.
LEMMA BeginStep ==
    ASSUME IInv, NEW c \in Client, NEW r \in Request, NEW isSafe \in BOOLEAN, Begin(c, r, isSafe)
    PROVE  IInv'
<1>0. PICK value, loaded, t, k, tok, others :
          /\ t = jar[c].session /\ k = jar[c].csrf
          /\ value = Decoded(t) /\ loaded = Loaded(t)
          /\ tok = TokenOf(loaded, k, r) /\ others = UnderWay(c)
  OBVIOUS
<1>1. /\ Sane /\ Tables /\ Histories /\ Stored /\ Jars
      /\ phase[r] = "idle" /\ phase' = [phase EXCEPT ![r] = "handling"]
      /\ owner' = [owner EXCEPT ![r] = c] /\ safe' = [safe EXCEPT ![r] = isSafe]
      /\ store' = IF mode = "memory" THEN Kept(value) ELSE store
      /\ scope' = [scope EXCEPT ![r] =
              [sid |-> IF mode = "memory" THEN value ELSE None,
               session |-> [loaded EXCEPT !.csrf = tok], token |-> tok,
               flag |-> IF loaded.csrf # tok THEN "dirty" ELSE "clean",
               cookie |-> k, changes |-> 0]]
      /\ refused' = IF ~isSafe /\ k # tok THEN refused \cup {r} ELSE refused
      /\ alone' = [s \in Request |-> IF s = r THEN others = {} ELSE alone[s] /\ s \notin others]
      /\ UNCHANGED <<mode, now, secret, jar, answer, wrote, erased>>
      /\ ~isSafe => k # None
  BY <1>0 DEF IInv, Sane, Begin
<1>2. /\ loaded \in Session /\ Writers(loaded) \subseteq Mine(c)
      /\ mode = "memory" => value \in Mine(c) \cup {None}
      /\ t # None => OwnCookie(c, t)
      /\ k \in Request \cup {None}
  BY <1>0, <1>1, LoadedIsMine DEF Jars
<1>3. tok \in Request /\ tok # None /\ loaded.csrf \in {None, tok}
  BY <1>0, <1>2 DEF TokenOf, Session
<1>4. \A v \in Request : store'[v] \in {store[v], None} /\ DOMAIN store' = Request
  BY <1>1 DEF Kept, Tables
<1>5. /\ r \notin wrote /\ alone[r]
      /\ \A q \in Request \ {r} : phase'[q] = phase[q] /\ owner'[q] = owner[q] /\ scope'[q] = scope[q]
                                  /\ (alone'[q] <=> alone[q] /\ q \notin others)
      /\ phase'[r] = "handling" /\ owner'[r] = c /\ safe'[r] = isSafe /\ (alone'[r] <=> others = {})
  BY <1>1 DEF Tables, Histories
<1>6. Ages
  BY <1>1, <1>4, <1>5 DEF Ages, Tables
<1>7. PICK sc : sc = scope'[r]
  OBVIOUS
<1>8. /\ sc \in Scope /\ sc.token = tok /\ sc.cookie = k
      /\ sc.sid = (IF mode = "memory" THEN value ELSE None)
      /\ Writers(sc.session) = Writers(loaded) /\ sc.session.csrf = tok
      /\ sc.session \in Session
  <2>1. [loaded EXCEPT !.csrf = tok] \in Session
        /\ Writers([loaded EXCEPT !.csrf = tok]) = Writers(loaded)
    BY <1>2, <1>3, TokenChanges
  <2>2. sc.session = [loaded EXCEPT !.csrf = tok] /\ sc.session.csrf = tok
    BY <1>1, <1>2, <1>7 DEF Tables, Session
  <2>3. /\ sc = [sid |-> IF mode = "memory" THEN value ELSE None,
                 session |-> [loaded EXCEPT !.csrf = tok], token |-> tok,
                 flag |-> IF loaded.csrf # tok THEN "dirty" ELSE "clean",
                 cookie |-> k, changes |-> 0]
    BY <1>1, <1>7 DEF Tables
  <2>4. (IF mode = "memory" THEN value ELSE None) \in Request \cup {None}
    BY <1>1, <1>2 DEF Mine, Histories
  <2>5. sc \in Scope
    BY <1>2, <1>3, <2>1, <2>3, <2>4 DEF Scope
  <2> QED BY <2>1, <2>2, <2>3, <2>5
<1>9. Tables'
  BY <1>1, <1>4 DEF Tables
<1>10. Histories'
  <2>1. \A q \in Request : phase'[q] # "idle" => owner'[q] \in Client
    BY <1>1, <1>5 DEF Histories
  <2>2. \A q \in Request : phase'[q] = "idle" => alone'[q]
    BY <1>0, <1>1, <1>5 DEF Histories, UnderWay
  <2>3. \A q \in Request \ {r} : safe'[q] = safe[q]
    BY <1>1 DEF Tables
  <2>4. refused' \subseteq {q \in Request : phase'[q] # "idle" /\ ~safe'[q]}
    BY <1>1, <1>5, <2>3 DEF Histories
  <2> QED BY <1>1, <1>5, <2>1, <2>2, <2>4 DEF Histories
<1>11. Handling(r)' /\ Answering(r)'
  <2>1. Mine(c)' = Mine(c) /\ answer'[r] = answer[r] /\ Answering(r)
    BY <1>1, <1>6, AgesKeeps DEF Sane
  <2> QED BY <1>1, <1>2, <1>3, <1>5, <1>7, <1>8, <2>1 DEF Handling, Answering, NoCookies
<1>12. Solo(c)' /\ k # None => tok = k
  <2>1. Solo(c)' => Solo(c)
    BY <1>6, AgesKeeps
  <2>2. Solo(c) /\ k # None => loaded.csrf \in {None, k}
    BY <1>0 DEF IInv, Follows, Agrees
  <2> QED BY <1>0, <2>1, <2>2 DEF TokenOf
<1>13. Repairs(r)'
  <2>1. Agrees(t, tok)
    BY <1>0, <1>3 DEF Agrees
  <2>2. Agrees(t, tok)'
    <3>1. \A v \in Mine(c) : store'[v] \in {store[v], None}
      BY <1>1, <1>4 DEF Mine, Histories
    <3> QED BY <1>1, <1>2, <2>1, <3>1, AgreesStill DEF Tables
  <2>3. Decoded(t)' = value /\ mode' = mode /\ jar'[c].session = t /\ jar'[c].csrf = k
    BY <1>0, <1>1 DEF Decoded
  <2> QED BY <1>5, <1>7, <1>8, <1>12, <2>2, <2>3 DEF Repairs
<1>14. \A q \in Request : (Answering(q) /\ Handling(q) /\ Repairs(q))'
  <2>1. \A q \in Request \ {r} : phase[q] = "idle" => (Answering(q) /\ Handling(q) /\ Repairs(q))'
    BY <1>1, <1>5 DEF Sane, Answering, Handling, Repairs, NoCookies
  <2>2. \A q \in Request \ {r} : phase[q] # "idle" => (Answering(q) /\ Handling(q) /\ Repairs(q))'
    BY <1>1, <1>5, <1>6, AgesKeeps
  <2> QED BY <1>11, <1>13, <2>1, <2>2
<1>15. Overlap'
  <2> SUFFICES ASSUME NEW p \in Request, NEW q \in Request, p # q, owner'[p] = owner'[q],
                      {p, q} \subseteq UnderWay(owner[q])'
               PROVE  ~alone'[q]
    BY DEF Overlap
  <2>1. CASE q = r
    BY <1>0, <1>5, <2>1 DEF UnderWay
  <2>2. CASE p = r
    BY <1>0, <1>5, <2>2 DEF UnderWay
  <2>3. CASE p # r /\ q # r
    BY <1>5, <2>3 DEF IInv, Overlap, UnderWay
  <2> QED BY <2>1, <2>2, <2>3
<1>16. mode = "memory" => \A w, i \in Request : Under(w, i)' => Under(w, i)
  <2> SUFFICES ASSUME mode = "memory", NEW w \in Request, NEW i \in Request, Under(w, i)' PROVE Under(w, i)
    OBVIOUS
  <2>1. CASE store'[i] # None /\ w \in Writers(store'[i].session)
    BY <1>4, <2>1 DEF Under
  <2>2. CASE w \in Writers(sc.session) /\ IdOf(r)' = i
    <3>1. w \in Writers(Fetched(value))
      BY <1>0, <1>8, <2>2 DEF Loaded
    <3>2. value # None /\ store[value] # None /\ w \in Writers(store[value].session)
      BY <3>1, EmptyIsSession DEF Fetched
    <3>3. i = value
      BY <1>7, <1>8, <2>2, <3>2 DEF IdOf
    <3> QED BY <3>2, <3>3 DEF Under
  <2>3. ASSUME NEW q \in Request \ {r}, phase'[q] = "handling", IdOf(q)' = i, w \in Writers(scope'[q].session)
        PROVE  Under(w, i)
    BY <1>5, <2>3 DEF Under, IdOf
  <2> QED BY <1>7, <2>1, <2>2, <2>3 DEF Under
<1>17. OneId'
  BY <1>1, <1>16 DEF IInv, OneId
<1>18. Forgotten'
  <2> SUFFICES ASSUME mode = "memory", NEW w \in erased, Solo(owner[w])', NEW i \in Request, Under(w, i)'
               PROVE  FALSE
    BY <1>1 DEF Forgotten
  <2>1. PICK d \in Client : d = owner[w] /\ owner'[w] = d
    BY <1>1, <1>5 DEF Histories
  <2>2. Solo(d)
    BY <1>6, <2>1, AgesKeeps
  <2> QED BY <1>1, <1>16, <2>1, <2>2 DEF IInv, Forgotten, Histories
<1>19. FollowerAccepted'
  <2>1. ASSUME NEW q \in refused PROVE \E s \in Request : owner'[s] = owner'[q] /\ ~alone'[s]
    BY <1>1, <1>5, <2>1 DEF IInv, FollowerAccepted, Histories
  <2>2. ASSUME r \in refused' PROVE \E s \in Request : owner'[s] = owner'[r] /\ ~alone'[s]
    <3>1. r \notin refused /\ k # None /\ k # tok
      BY <1>1, <2>2 DEF Histories
    <3>2. ~Solo(c)'
      BY <1>12, <3>1
    <3> QED BY <1>5, <3>2 DEF Solo
  <2> QED BY <1>1, <2>1, <2>2 DEF FollowerAccepted
<1> QED BY <1>6, <1>9, <1>10, <1>14, <1>15, <1>17, <1>18, <1>19, AgesKeeps DEF IInv, Sane

-----------------------------------------------------------------------------
(* The theorems.                                                           *)

LEMMA NextStep == ASSUME IInv, [Next]_vars PROVE IInv'
<1>1. CASE UNCHANGED vars
  <2>1. /\ UNCHANGED <<now, mode, secret, store, jar, phase, owner, safe, scope, answer>>
        /\ UNCHANGED <<refused, alone, wrote, erased>>
    BY <1>1 DEF vars, server, request, history
  <2>2. Sane'
    BY <2>1 DEF IInv, Sane, Tables, Histories, Stored, Jars, Answering, Handling, OwnCookie,
                OwnValue, Mine
  <2>3. /\ \A r \in Request : Repairs(r)'
        /\ \A c \in Client : Follows(c)'
    <3>1. Ages
      BY <2>1 DEF IInv, Sane, Tables, Ages
    <3>2. \A r \in Request : phase[r] = "idle" => Repairs(r)'
      BY <2>1 DEF Repairs
    <3> QED BY <2>1, <3>1, <3>2, AgesKeeps
  <2>4. Overlap' /\ OneId' /\ Forgotten' /\ FollowerAccepted'
    BY <2>1 DEF IInv, Overlap, UnderWay, OneId, Forgotten, Under, IdOf, Solo, FollowerAccepted
  <2> QED BY <2>2, <2>3, <2>4 DEF IInv
<1>2. ASSUME NEW c \in Client, NEW r \in Request, NEW isSafe \in BOOLEAN, Begin(c, r, isSafe) PROVE IInv'
  BY <1>2, BeginStep
<1>3. ASSUME NEW r \in Request,
             Clear(r) \/ \E k \in Field : SetValue(r, k) \/ Replace(r, k) \/ ChangeInPlace(r, k)
      PROVE  IInv'
  BY <1>3, HandlerStep
<1>4. ASSUME NEW r \in Request, Respond(r) PROVE IInv'
  BY <1>4, RespondStep
<1>5. ASSUME NEW r \in Request, Deliver(r) PROVE IInv'
  BY <1>5, DeliverStep
<1>6. ASSUME NEW r \in Request, Lose(r) PROVE IInv'
  BY <1>6, LoseStep
<1>7. CASE Tick
  BY <1>7, TickStep
<1>8. CASE Restart
  BY <1>8, RestartStep
<1> QED BY <1>1, <1>2, <1>3, <1>4, <1>5, <1>6, <1>7, <1>8 DEF Next

\* The invariant holds of every number of clients, requests, keys and secrets.
THEOREM Inductive == Spec => []IInv
<1>1. IInv /\ [Next]_vars => IInv'
  BY NextStep
<1> QED BY InitIInv, <1>1, PTL DEF Spec

\* What was changed in place was changed by requests of the client whose it is.
InsideOwn ==
    /\ inside \in [Request -> [Field -> SUBSET Request]]
    /\ \A w, q \in Request, k \in Field : q \in inside[w][k] =>
          owner[q] = owner[w] /\ phase[q] # "idle" /\ phase[w] # "idle"

LEMMA InsideStep == ASSUME IInv, InsideOwn, [Next]_vars PROVE InsideOwn'
<1>t. Tables /\ Histories /\ \A r \in Request : Handling(r)
  BY DEF IInv, Sane
<1>1. CASE inside' \in {inside, [r \in Request |-> [f \in Field |-> {}]]}
  <2>1. \A q \in Request : phase[q] # "idle" => phase'[q] # "idle" /\ owner'[q] = owner[q]
    <3>1. CASE UNCHANGED vars
      BY <3>1 DEF vars, request
    <3>2. ASSUME NEW c \in Client, NEW r \in Request, NEW b \in BOOLEAN, Begin(c, r, b)
          PROVE  \A q \in Request : phase[q] # "idle" => phase'[q] # "idle" /\ owner'[q] = owner[q]
      BY <3>2, <1>t DEF Begin, Tables
    <3>3. ASSUME NEW r \in Request, NEW s, NEW f, ChangesTo(r, s, f)
          PROVE  UNCHANGED <<phase, owner>>
      BY <3>3 DEF ChangesTo
    <3>4. ASSUME NEW r \in Request, NEW k \in Field, ChangeInPlace(r, k)
          PROVE  UNCHANGED <<phase, owner>>
      BY <3>4 DEF ChangeInPlace
    <3>5. ASSUME NEW r \in Request, Respond(r) \/ Deliver(r) \/ Lose(r)
          PROVE  \A q \in Request : phase[q] # "idle" => phase'[q] # "idle" /\ owner'[q] = owner[q]
      BY <3>5, <1>t DEF Respond, Deliver, Lose, Tables
    <3>6. CASE Tick
      BY <3>6 DEF Tick, request
    <3>7. CASE Restart
      BY <3>7, <1>t DEF Restart, Tables
    <3> QED
      BY <3>1, <3>2, <3>3, <3>4, <3>5, <3>6, <3>7 DEF Next, SetValue, Replace, Clear
  <2>2. CASE inside' = inside
    BY <2>1, <2>2 DEF InsideOwn
  <2>3. CASE inside' = [r \in Request |-> [f \in Field |-> {}]]
    BY <2>3 DEF InsideOwn
  <2> QED BY <1>1, <2>2, <2>3
<1>2. ASSUME NEW r \in Request, NEW k \in Field, ChangeInPlace(r, k) PROVE InsideOwn'
  <2> DEFINE w == scope[r].session.data[k]
  <2>1. phase[r] = "handling" /\ w # None /\ inside' = [inside EXCEPT ![w][k] = @ \cup {r}]
    BY <1>2 DEF ChangeInPlace, MayChange
  <2>2. UNCHANGED <<phase, owner>>
    BY <1>2 DEF ChangeInPlace
  <2>3. w \in Request /\ w \in Writers(scope[r].session)
    BY <2>1, <1>t DEF Handling, Scope, Session, Writers
  <2>4. owner[w] = owner[r] /\ phase[w] # "idle"
    BY <2>1, <2>3, <1>t DEF Handling, Mine, Histories
  <2> HIDE DEF w
  <2>5. /\ inside' \in [Request -> [Field -> SUBSET Request]]
        /\ \A v \in Request, j \in Field : inside'[v][j] \subseteq inside[v][j] \cup {r}
        /\ \A v \in Request, j \in Field : v # w => inside'[v][j] = inside[v][j]
    BY <2>1, <2>3 DEF InsideOwn
  <2> QED BY <2>1, <2>2, <2>4, <2>5 DEF InsideOwn
<1>3. inside' \in {inside, [r \in Request |-> [f \in Field |-> {}]]}
      \/ \E r \in Request, k \in Field : ChangeInPlace(r, k)
  BY DEF Next, vars, Begin, SetValue, Replace, Clear, ChangesTo, Respond, Deliver, Lose, Tick, Restart
<1> QED BY <1>1, <1>2, <1>3

\* Under the keys of the session a handler is given there is no value that
\* another client put there, or a request whose response had not started; what
\* is inside the values was changed by requests of the same client only, those
\* whose response never started among them (SessionMiddleware's copies of one
\* level and its single write back).
THEOREM OnlyAnswered == Spec => []OnlyAnsweredWrites
<1>1. IInv /\ InsideOwn => OnlyAnsweredWrites
  <2> SUFFICES ASSUME IInv, InsideOwn, NEW r \in Request, phase[r] = "handling"
               PROVE  /\ \A w \in Writers(scope[r].session) \ {r} : owner[w] = owner[r] /\ w \in wrote
                      /\ \A k \in Field, q \in Request :
                            scope[r].session.data[k] # None /\ q \in inside[scope[r].session.data[k]][k]
                                => owner[q] = owner[r]
    BY DEF OnlyAnsweredWrites
  <2>1. Handling(r)
    BY DEF IInv, Sane
  <2>2. \A w \in Writers(scope[r].session) \ {r} : owner[w] = owner[r] /\ w \in wrote
    BY <2>1 DEF Handling, Mine
  <2>3. ASSUME NEW k \in Field, NEW q \in Request, scope[r].session.data[k] # None,
               q \in inside[scope[r].session.data[k]][k]
        PROVE  owner[q] = owner[r]
    <3> DEFINE w == scope[r].session.data[k]
    <3>1. w \in Request /\ w \in Writers(scope[r].session)
      BY <2>1, <2>3 DEF Handling, Scope, Session, Writers
    <3>2. owner[w] = owner[r]
      BY <2>2, <3>1
    <3> HIDE DEF w
    <3>3. q \in inside[w][k]
      BY <2>3 DEF w
    <3> QED BY <3>1, <3>2, <3>3 DEF InsideOwn
  <2> QED BY <2>2, <2>3
<1>2. Init => InsideOwn
  BY DEF Init, InsideOwn
<1>3. IInv /\ InsideOwn /\ [Next]_vars => InsideOwn'
  BY InsideStep
<1> QED BY <1>1, <1>2, <1>3, Inductive, PTL DEF Spec

\* CSRFMiddleware refuses no client that sends one request at a time and returns
\* the token of its cookie, whatever expired, was lost, cleared or restarted.
THEOREM NeverRefused == Spec => []FollowerAccepted
<1>1. IInv => FollowerAccepted
  BY DEF IInv
<1> QED BY <1>1, Inductive, PTL

\* What clear_session() removed is found by no later request of a client with
\* one request at a time, though the cookie that names it may still be there.
THEOREM ClearedForGood == Spec => []ClearedStaysCleared
<1>1. IInv => ClearedStaysCleared
  <2> SUFFICES ASSUME IInv, NEW r \in Request, phase[r] = "handling",
                      NEW w \in Writers(scope[r].session), w \in erased
               PROVE  \E s \in Request : owner[s] = owner[r] /\ ~alone[s]
    BY DEF ClearedStaysCleared
  <2>1. Histories /\ Handling(r) /\ Tables
    BY DEF IInv, Sane
  <2>2. mode = "memory" /\ w \in Request /\ w \in wrote /\ r \notin wrote
    BY <2>1 DEF Histories, Tables
  <2>3. owner[w] = owner[r]
    BY <2>1, <2>2 DEF Handling, Mine
  <2>4. IdOf(r) \in Request /\ Under(w, IdOf(r))
    BY <2>1 DEF Under, IdOf, Handling, Scope
  <2>5. ~Solo(owner[w])
    BY <2>2, <2>4 DEF IInv, Forgotten
  <2> QED BY <2>3, <2>5 DEF Solo
<1> QED BY <1>1, Inductive, PTL

\* One safe request on its own brings the session's token and the cookie's
\* together, however they came apart.
THEOREM SafeRepairs == Spec => SafeRequestRepairs
<1>1. IInv /\ IInv' /\ [Next]_vars =>
        [\A r \in Request :
            (phase[r] = "answered" /\ phase'[r] = "done" /\ safe[r] /\ alone[r])
               => Loaded(jar[owner[r]].session)'.csrf \in {None, jar'[owner[r]].csrf}]_vars
  <2> SUFFICES ASSUME IInv, Next, NEW r \in Request,
                      phase[r] = "answered", phase'[r] = "done", safe[r], alone[r]
               PROVE  Loaded(jar[owner[r]].session)'.csrf \in {None, jar'[owner[r]].csrf}
    OBVIOUS
  <2>1. Sane /\ Tables /\ Histories /\ Jars /\ Answering(r) /\ Repairs(r)
    BY DEF IInv, Sane
  <2>2. Deliver(r)
    <3>1. \A q \in Request \ {r} : ~Deliver(q)
      BY <2>1 DEF Deliver, Tables
    <3>2. \A c \in Client, q \in Request, b \in BOOLEAN : ~Begin(c, q, b)
      BY <2>1 DEF Begin, Tables
    <3>3. \A q \in Request : \A s, f : ~ChangesTo(q, s, f)
      BY DEF ChangesTo
    <3>4. \A q \in Request, k \in Field : ~SetValue(q, k) /\ ~Replace(q, k) /\ ~Clear(q)
      BY <3>3 DEF SetValue, Replace, Clear
    <3>5. \A q \in Request : ~Respond(q) /\ ~Lose(q) /\ ~Clear(q)
      BY <2>1, <3>3 DEF Respond, Lose, Clear, Tables
    <3>6. ~Tick /\ ~Restart
      BY <2>1 DEF Tick, Restart, request, Tables
    <3>7. \A q \in Request, k \in Field : ~ChangeInPlace(q, k)
      BY DEF ChangeInPlace
    <3> QED BY <3>1, <3>2, <3>4, <3>5, <3>6, <3>7 DEF Next
  <2>3. PICK c, m : c \in Client /\ c = owner[r] /\ m = Merged(jar[owner[r]], answer[r])
    BY <2>1 DEF Histories
  <2>4. /\ jar'[c] = m /\ owner'[r] = c
        /\ UNCHANGED <<now, mode, secret, store>>
    BY <2>1, <2>2, <2>3 DEF Deliver, Merged, Tables, server
  <2>5. m.session # None => OwnCookie(c, m.session)
    BY <2>1, <2>3 DEF Merged, Jars, Answering
  <2>6. Agrees(m.session, m.csrf)
    BY <2>1, <2>3 DEF Histories, Repairs, Alone
  <2>7. Loaded(m.session)' \in {Loaded(m.session), Empty}
    <3>1. PICK t : t = m.session
      OBVIOUS
    <3>2. Loaded(t)' \in {Loaded(t), Empty}
      BY <2>1, <2>3, <2>4, <2>5, <3>1, LoadedIsKept DEF IInv, Tables
    <3> QED BY <3>1, <3>2
  <2> QED BY <2>3, <2>4, <2>6, <2>7, EmptyIsSession DEF Agrees
<1> QED BY <1>1, Inductive, PTL DEF Spec, SafeRequestRepairs

-----------------------------------------------------------------------------
(* Types.  What the invariant above does not say: cookies and entries have no *)
(* fields but their own, and a request keeps a scope only in its handler.     *)

Entries == [session : Session, until : Int \cup {None}]

Shapes ==
    /\ now \in 0..Horizon /\ secret \in 0..MaxRestarts /\ safe \in [Request -> BOOLEAN]
    /\ store \in [Request -> Entries \cup {None}]
    /\ jar \in [Client -> Cookies] /\ answer \in [Request -> Cookies]
    /\ scope = [r \in Request |-> scope[r]]
    /\ \A r \in Request : phase[r] # "handling" => scope[r] = None

LEMMA InitShapes == Init => Shapes
<1>1. NoCookies \in Cookies
  BY DEF NoCookies, Cookies
<1> QED BY <1>1 DEF Init, Shapes

\* The cookies and the entry of a response, and what the client makes of them.
LEMMA ResponseShapes ==
    ASSUME IInv, Shapes, NEW r \in Request, Respond(r)
    PROVE  /\ answer' \in [Request -> Cookies]
           /\ store' \in [Request -> Entries \cup {None}]
<1>1. Tables /\ scope[r] \in Scope
  BY DEF IInv, Sane, Handling, Respond
<1>2. CsrfCookie(r) \in Request \cup {None} /\ IdOf(r) \in Request
  BY <1>1 DEF CsrfCookie, IdOf, Scope
<1>3. SessionCookie(r) \in [value : Request \cup Session, key : 0..MaxRestarts]
  BY <1>1, <1>2 DEF SessionCookie, Signed, Scope, Shapes
<1>4. Entry(scope[r].session) \in Entries
  BY <1>1 DEF Entry, Entries, Scope, Shapes
<1>5. Saved(r) \in [Request -> Entries \cup {None}]
  BY <1>2, <1>4 DEF Saved, Shapes
<1>6. Remove(scope[r].sid) \in [Request -> Entries \cup {None}]
  BY <1>1 DEF Remove, Shapes
<1>7. /\ [session |-> Cleared, csrf |-> CsrfCookie(r)] \in Cookies
      /\ [session |-> SessionCookie(r), csrf |-> CsrfCookie(r)] \in Cookies
      /\ [answer[r] EXCEPT !.csrf = CsrfCookie(r)] \in Cookies
  BY <1>2, <1>3 DEF Cookies, Shapes
<1> QED BY <1>5, <1>6, <1>7 DEF Respond, Shapes

LEMMA DeliveredShapes ==
    ASSUME Shapes, NEW r \in Request, Deliver(r)
    PROVE  jar' \in [Client -> Cookies] /\ answer' \in [Request -> Cookies]
<1>1. NoCookies \in Cookies
  BY DEF NoCookies, Cookies
<1>2. ASSUME NEW j \in Cookies
      PROVE  [session |-> IF answer[r].session = Cleared THEN None
                          ELSE IF answer[r].session # None THEN answer[r].session ELSE j.session,
              csrf |-> IF answer[r].csrf # None THEN answer[r].csrf ELSE j.csrf] \in Cookies
  BY DEF Shapes, Cookies
<1> QED BY <1>1, <1>2 DEF Deliver, Shapes

LEMMA ShapesStep == ASSUME IInv, Shapes, [Next]_vars PROVE Shapes'
<1> USE DEF server, request, history
<1>t. Tables
  BY DEF IInv, Sane
<1>1. CASE UNCHANGED vars
  BY <1>1 DEF vars, Shapes
<1>2. ASSUME NEW c \in Client, NEW r \in Request, NEW isSafe \in BOOLEAN, Begin(c, r, isSafe) PROVE Shapes'
  <2>1. \A v : Kept(v) \in [Request -> Entries \cup {None}]
    BY DEF Kept, Shapes
  <2>2. /\ store' \in [Request -> Entries \cup {None}]
        /\ safe' \in [Request -> BOOLEAN]
        /\ UNCHANGED <<now, secret, jar, answer>>
    BY <1>2, <2>1 DEF Begin, Shapes
  <2>3. \A q \in Request : phase'[q] # "handling" => q # r /\ phase'[q] = phase[q] /\ scope'[q] = scope[q]
    BY <1>2, <1>t DEF Begin, Tables
  <2>4. scope' = [q \in Request |-> scope'[q]]
    BY <1>2 DEF Begin, Shapes
  <2> QED BY <2>2, <2>3, <2>4 DEF Shapes
<1>3. ASSUME NEW r \in Request, NEW s, NEW f, ChangesTo(r, s, f) PROVE Shapes'
  BY <1>3, <1>t DEF ChangesTo, MayChange, Shapes, Tables
<1>9. ASSUME NEW r \in Request, NEW k \in Field, ChangeInPlace(r, k) PROVE Shapes'
  BY <1>9, <1>t DEF ChangeInPlace, MayChange, Shapes, Tables
<1>4. ASSUME NEW r \in Request, Respond(r) PROVE Shapes'
  <2>1. \A q \in Request : phase'[q] # "handling" => scope'[q] = None
    BY <1>4, <1>t DEF Respond, Shapes, Tables
  <2> QED BY <1>4, <2>1, ResponseShapes DEF Respond, Shapes
<1>5. ASSUME NEW r \in Request, Deliver(r) PROVE Shapes'
  <2>1. \A q \in Request : phase'[q] # "handling" => scope'[q] = None
    BY <1>5, <1>t DEF Deliver, Shapes, Tables
  <2> QED BY <1>5, <2>1, DeliveredShapes DEF Deliver, Shapes
<1>6. ASSUME NEW r \in Request, Lose(r) PROVE Shapes'
  <2>1. NoCookies \in Cookies
    BY DEF NoCookies, Cookies
  <2>2. answer' \in [Request -> Cookies]
    BY <1>6, <2>1 DEF Lose, Shapes
  <2>3. \A q \in Request : phase'[q] # "handling" => scope'[q] = None
    BY <1>6, <1>t DEF Lose, Shapes, Tables
  <2> QED BY <1>6, <2>2, <2>3 DEF Lose, Shapes
<1>7. CASE Tick
  BY <1>7 DEF Tick, Shapes
<1>8. CASE Restart
  BY <1>8 DEF Restart, Shapes
<1> QED
  BY <1>1, <1>2, <1>3, <1>4, <1>5, <1>6, <1>7, <1>8, <1>9 DEF Next, SetValue, Replace, Clear

\* Every variable of Sessions keeps its type: a cookie carries a session or an
\* id under a key that exists, and a request has a scope only in its handler.
THEOREM TypeCorrect == Spec => []TypeOK
<1>1. IInv /\ Shapes /\ InsideOwn => TypeOK
  <2> SUFFICES ASSUME IInv, Shapes, InsideOwn PROVE TypeOK
    OBVIOUS
  <2>1. Tables /\ Histories /\ \A r \in Request : Handling(r)
    BY DEF IInv, Sane
  <2>2. \A r \in Request : scope[r] \in IF phase[r] = "handling" THEN Scope ELSE {None}
    BY <2>1 DEF Handling, Shapes
  <2>3. scope \in [Request -> Scope \cup {None}]
    BY <2>2 DEF Shapes
  <2>4. refused \subseteq Request /\ wrote \subseteq Request /\ erased \subseteq Request
    BY <2>1 DEF Histories
  <2> QED BY <2>1, <2>2, <2>3, <2>4 DEF Tables, Shapes, Entries, InsideOwn, TypeOK
<1>2. IInv /\ Shapes /\ InsideOwn /\ [Next]_vars => Shapes' /\ InsideOwn'
  BY ShapesStep, InsideStep
<1>3. Init => InsideOwn
  BY DEF Init, InsideOwn
<1> QED BY <1>1, <1>2, <1>3, InitShapes, Inductive, PTL DEF Spec

==============================================================================
