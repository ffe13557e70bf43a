----------------------------- MODULE WebSocket -----------------------------
(***************************************************************************)
(* One WebSocket connection (src/turbo/request.py) with the three that     *)
(* have a hand in it: the task of _handle_websocket (src/turbo/app.py)     *)
(* with the handler it runs, the heartbeat task, and the peer.  Close      *)
(* codes, reasons and the contents of messages are left out.               *)
(*                                                                         *)
(* pc is where the task of _handle_websocket is:                           *)
(*   "resolving"  in router.match and resolve_dependencies                 *)
(*   "running"    in the handler's own code                                *)
(*   "accepting", "sending", "receiving", "closing"  in a call of the      *)
(*                handler's that awaits the server                         *)
(*   "awaiting"   in receive_with_idle_timeout, "expiring" in its close()  *)
(*   "failing"    in the close() of an except clause                       *)
(*   "cleaning"   in the finally clause, "leaving" in the last close()     *)
(*   "gone".                                                               *)
(***************************************************************************)
EXTENDS Naturals, FiniteSetsExt

CONSTANTS
    Interval,   \* the heartbeat's interval, in ticks
    Limits,     \* the values of idle_timeout, in ticks; 0 is none
    None

ASSUME Settings ==
    /\ Interval \in Nat \ {0} /\ Limits \subseteq Nat /\ IsFiniteSet(Limits)
    /\ None \notin {"handler", "beat"}

VARIABLES
    accepted, closed,
    idle,      \* the ticks since _last_activity, up to the largest limit
    pc,
    escaped,   \* an exception leaves, or is to leave, _handle_websocket
    beat,      \* the heartbeat: "none", "asleep", "pinging", "closing", "done"
    nap,       \* the ticks it still has to sleep
    limit,     \* its idle_timeout
    peer,      \* "there", "vanished" (silent without a word), "left"
    mail,      \* the server has a message of the peer's
    shutBy     \* history: who sent the first close frame

wsVars == <<accepted, closed, idle>>
taskVars == <<pc, escaped>>
beatVars == <<beat, nap, limit>>
peerVars == <<peer, mail>>
connectionVars == <<wsVars, taskVars, beatVars, peerVars, shutBy>>

MaxIdle == Max(Limits \cup {1})
Calling == {"accepting", "sending", "receiving", "awaiting", "closing", "expiring"}
Closing == {"closing", "expiring", "failing", "leaving"}

WSInit ==
    /\ accepted = FALSE /\ closed = FALSE /\ idle = 0
    /\ pc = "resolving" /\ escaped = FALSE
    /\ beat = "none" /\ nap = 0 /\ limit = 0
    /\ peer = "there" /\ mail = FALSE /\ shutBy = None

Touch == idle' = 0

-----------------------------------------------------------------------------
(* The peer, the server and the clock.                                     *)

PeerDoes(p, m) ==
    /\ peer = "there"
    /\ peer' = p /\ mail' = m
    /\ UNCHANGED <<wsVars, taskVars, beatVars, shutBy>>

Speak == ~mail /\ PeerDoes("there", TRUE)
Vanish == PeerDoes("vanished", mail)
Leave == PeerDoes("left", mail)

\* The server may refuse a message after the peer left or a close frame, and
\* a close frame after the peer left or another's close frame.
Refused == peer = "left" \/ shutBy # None
CloseRefused(who) == peer = "left" \/ shutBy \notin {None, who}

\* A close frame is handed to the server.
Shut(who) == shutBy' = IF shutBy = None THEN who ELSE shutBy

Tick ==
    /\ idle < MaxIdle \/ (beat = "asleep" /\ nap > 0)
    /\ idle' = IF idle < MaxIdle THEN idle + 1 ELSE idle
    /\ nap' = IF beat = "asleep" /\ nap > 0 THEN nap - 1 ELSE nap
    /\ UNCHANGED <<accepted, closed, taskVars, beat, limit, peerVars, shutBy>>

-----------------------------------------------------------------------------
(* The handler, and _handle_websocket around it.                           *)

Goto(p) == pc' = p /\ UNCHANGED escaped

Resolved ==
    /\ pc = "resolving" /\ Goto("running")
    /\ UNCHANGED <<wsVars, beatVars, peerVars, shutBy>>

NoRoute ==
    /\ pc = "resolving" /\ Goto("leaving") /\ Shut("handler")
    /\ UNCHANGED <<wsVars, beatVars, peerVars>>

\* Nothing around resolve_dependencies closes the socket.
ResolveFails ==
    /\ pc = "resolving"
    /\ pc' = "gone" /\ escaped' = TRUE
    /\ UNCHANGED <<wsVars, beatVars, peerVars, shutBy>>

\* An exception in the handler: caught there, or the except clauses' close().
Raise(isClosed) ==
    \/ Goto("running") /\ UNCHANGED shutBy
    \/ isClosed /\ Goto("cleaning") /\ UNCHANGED shutBy
    \/ ~isClosed /\ Goto("failing") /\ Shut("handler")

Fail ==
    /\ pc = "running" /\ Raise(closed)
    /\ UNCHANGED <<wsVars, beatVars, peerVars>>

Return ==
    /\ pc = "running" /\ Goto("cleaning")
    /\ UNCHANGED <<wsVars, beatVars, peerVars, shutBy>>

Accept ==
    /\ pc = "running" /\ ~accepted /\ Goto("accepting")
    /\ UNCHANGED <<wsVars, beatVars, peerVars, shutBy>>

Accepted ==
    /\ pc = "accepting" /\ Goto("running")
    /\ accepted' = TRUE /\ Touch
    /\ UNCHANGED <<closed, beatVars, peerVars, shutBy>>

Send ==
    /\ pc = "running" /\ Goto("sending")
    /\ UNCHANGED <<wsVars, beatVars, peerVars, shutBy>>

Sent ==
    /\ pc = "sending" /\ accepted /\ Goto("running")
    /\ Touch
    /\ UNCHANGED <<accepted, closed, beatVars, peerVars, shutBy>>

SendFails ==
    /\ pc \in {"accepting", "sending"}
    /\ Refused \/ (pc = "sending" /\ ~accepted)
    /\ Raise(closed)
    /\ UNCHANGED <<wsVars, beatVars, peerVars>>

\* receive(), or with timed its form with a timeout.
Receive(timed) ==
    /\ pc = "running"
    /\ Goto(IF timed THEN "awaiting" ELSE "receiving")
    /\ UNCHANGED <<wsVars, beatVars, peerVars, shutBy>>

Received ==
    /\ pc \in {"receiving", "awaiting"} /\ mail /\ Goto("running")
    /\ mail' = FALSE /\ Touch
    /\ UNCHANGED <<accepted, closed, beatVars, peer, shutBy>>

\* The disconnect event: returned by receive(), raised by receive_text().
Disconnected ==
    /\ pc \in {"receiving", "awaiting"} /\ ~mail
    /\ peer = "left" \/ shutBy # None
    /\ closed' = TRUE /\ Touch /\ Raise(TRUE)
    /\ UNCHANGED <<accepted, beatVars, peerVars>>

Expires ==
    /\ pc = "awaiting"
    /\ IF closed THEN Raise(TRUE) ELSE Goto("expiring") /\ Shut("handler")
    /\ UNCHANGED <<wsVars, beatVars, peerVars>>

Close ==
    /\ pc = "running" /\ ~closed
    /\ Goto("closing") /\ Shut("handler")
    /\ UNCHANGED <<wsVars, beatVars, peerVars>>

\* One of the four close() calls of the task has sent its frame ...
Closed ==
    /\ pc \in Closing
    /\ closed' = TRUE
    /\ CASE pc = "closing" -> Goto("running") /\ UNCHANGED shutBy
         [] pc = "expiring" -> Raise(TRUE)
         [] pc = "failing" -> Goto("cleaning") /\ UNCHANGED shutBy
         [] pc = "leaving" -> Goto("gone") /\ UNCHANGED shutBy
    /\ UNCHANGED <<accepted, idle, beatVars, peerVars>>

\* ... or is refused.
CloseFails ==
    /\ pc \in Closing /\ CloseRefused("handler")
    /\ CASE pc \in {"closing", "expiring"} -> Raise(closed)
         [] pc = "failing" -> pc' = "cleaning" /\ escaped' = TRUE /\ UNCHANGED shutBy
         [] pc = "leaving" -> pc' = "gone" /\ escaped' = TRUE /\ UNCHANGED shutBy
    /\ UNCHANGED <<wsVars, beatVars, peerVars>>

CleanedForGood ==  \* mutant: who returns is taken to have closed
    /\ pc = "cleaning" /\ Goto("gone")
    /\ UNCHANGED <<wsVars, beatVars, peerVars, shutBy>>

Cleaned ==
    /\ pc = "cleaning"
    /\ IF closed \/ escaped THEN Goto("gone") /\ UNCHANGED shutBy
                            ELSE Goto("leaving") /\ Shut("handler")
    /\ UNCHANGED <<wsVars, beatVars, peerVars>>

CleanupFails ==
    /\ pc = "cleaning"
    /\ pc' = "gone" /\ escaped' = TRUE
    /\ UNCHANGED <<wsVars, beatVars, peerVars, shutBy>>

\* The server cancels the task: no except clause here catches that.
Cancel ==
    /\ pc \in Calling \cup {"running", "failing", "leaving"}
    /\ pc' = IF pc = "leaving" THEN "gone" ELSE "cleaning"
    /\ escaped' = TRUE
    /\ UNCHANGED <<wsVars, beatVars, peerVars, shutBy>>

-----------------------------------------------------------------------------
(* The heartbeat.                                                          *)

StartBeat(l) ==
    /\ pc = "running" /\ beat = "none"
    /\ beat' = (IF closed THEN "done" ELSE "asleep")
    /\ nap' = Interval /\ limit' = l
    /\ UNCHANGED <<wsVars, taskVars, peerVars, shutBy>>

CancelBeat ==
    /\ pc = "running" /\ beat # "none"
    /\ beat' = "done"
    /\ UNCHANGED <<wsVars, taskVars, nap, limit, peerVars, shutBy>>

Awake == beat = "asleep" /\ nap = 0

BeatSleepsOn ==  \* mutant: a closed socket is skipped, not left
    /\ Awake /\ closed
    /\ nap' = Interval
    /\ UNCHANGED <<wsVars, taskVars, beat, limit, peerVars, shutBy>>

BeatSeesClosed ==
    /\ Awake /\ closed
    /\ beat' = "done"
    /\ UNCHANGED <<wsVars, taskVars, nap, limit, peerVars, shutBy>>

BeatWarns ==  \* mutant: one more ping instead of the close
    /\ Awake /\ ~closed /\ limit > 0 /\ idle >= limit
    /\ beat' = "pinging"
    /\ UNCHANGED <<wsVars, taskVars, nap, limit, peerVars, shutBy>>

BeatExpires ==
    /\ Awake /\ ~closed /\ limit > 0 /\ idle >= limit
    /\ beat' = "closing" /\ Shut("beat")
    /\ UNCHANGED <<wsVars, taskVars, nap, limit, peerVars>>

Ping ==
    /\ Awake /\ ~closed /\ ~(limit > 0 /\ idle >= limit)
    /\ beat' = "pinging"
    /\ UNCHANGED <<wsVars, taskVars, nap, limit, peerVars, shutBy>>

Pinged ==
    /\ beat = "pinging" /\ accepted
    /\ Touch
    /\ beat' = (IF closed THEN "done" ELSE "asleep")
    /\ nap' = Interval
    /\ UNCHANGED <<accepted, closed, taskVars, limit, peerVars, shutBy>>

PingFails ==
    /\ beat = "pinging" /\ (Refused \/ ~accepted)
    /\ beat' = "done"
    /\ UNCHANGED <<wsVars, taskVars, nap, limit, peerVars, shutBy>>

BeatCloses ==
    /\ beat = "closing"
    /\ closed' = TRUE /\ beat' = "done"
    /\ UNCHANGED <<accepted, idle, taskVars, nap, limit, peerVars, shutBy>>

BeatCloseFails ==
    /\ beat = "closing" /\ CloseRefused("beat")
    /\ beat' = "done"
    /\ UNCHANGED <<wsVars, taskVars, nap, limit, peerVars, shutBy>>

-----------------------------------------------------------------------------
HandlerNext ==
    \/ Resolved \/ NoRoute \/ ResolveFails \/ Fail \/ Return
    \/ Accept \/ Accepted \/ Send \/ Sent \/ SendFails
    \/ \E timed \in BOOLEAN : Receive(timed)
    \/ Received \/ Disconnected \/ Expires
    \/ Close \/ Closed \/ CloseFails \/ Cleaned \/ CleanupFails \/ Cancel
    \/ CancelBeat
    \/ \E l \in Limits : StartBeat(l)

BeatStep ==
    \/ BeatSeesClosed \/ BeatExpires \/ Ping \/ Pinged \/ PingFails
    \/ BeatCloses \/ BeatCloseFails

WSNext == Speak \/ Vanish \/ Leave \/ Tick \/ HandlerNext \/ BeatStep

WSSpec == WSInit /\ [][WSNext]_connectionVars

\* Time passes, a frame that is awaited goes out or is refused, an event the
\* server has is delivered; what the handler or the peer does is up to them.
WSFairSpec == WSSpec /\ WF_connectionVars(Tick) /\ WF_connectionVars(BeatStep) /\ WF_connectionVars(Received \/ Disconnected)

-----------------------------------------------------------------------------
WSTypeOK ==
    /\ {accepted, closed, escaped, mail} \subseteq BOOLEAN
    /\ idle \in 0..MaxIdle /\ nap \in 0..Interval /\ limit \in Limits \cup {0}
    /\ pc \in Calling \cup {"resolving", "running", "failing", "cleaning", "leaving", "gone"}
    /\ beat \in {"none", "asleep", "pinging", "closing", "done"}
    /\ peer \in {"there", "vanished", "left"}
    /\ shutBy \in {None, "handler", "beat"}

\* When _handle_websocket returns (app.py 945-973), whichever way the handler
\* ended and whatever the heartbeat did, the socket is closed, and a peer that
\* has not left has been sent a close frame.
NobodyLeftHanging ==
    pc = "gone" /\ ~escaped => closed /\ (peer = "left" \/ shutBy # None)

\* ws.closed is set only where the peer left or a close frame was sent: a
\* timeout of receive (237-242) or of the heartbeat (244-254) is no exception.
ClosedIsTrue == closed => peer = "left" \/ shutBy # None

\* What the two sides are left with: nobody waits for a close that will not
\* come, and none is believed that was not sent.
CloseIsTold == NobodyLeftHanging /\ ClosedIsTrue

\* The heartbeat does not outlive a connection that _handle_websocket ended.
BeatEnds == pc = "gone" /\ ~escaped ~> beat \in {"none", "done"}

\* With an idle_timeout not above its interval, the heartbeat of an accepted
\* socket frees a handler that waits for a peer gone silent, by closing the
\* socket (250-252).  Refuted for a longer one, as the defaults 20 s and 60 s
\* are: each ping is a touch(), and the idle time never reaches the limit.
IdlePeerIsClosed ==
    (/\ accepted /\ limit > 0 /\ peer = "vanished"
     /\ pc = "receiving" /\ beat \in {"asleep", "pinging", "closing"})
        ~> pc # "receiving"

=============================================================================
