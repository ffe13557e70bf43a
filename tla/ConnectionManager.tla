------------------------- MODULE ConnectionManager -------------------------
(***************************************************************************)
(* The ConnectionManager of src/turbo/request.py and the WebSockets in it. *)
(* A WebSocket is known by its id(), which is its address: once the object *)
(* is freed, the next WebSocket may be given the same one.  Everything but *)
(* the sending of a frame is one step of the event loop; a broadcast gives *)
(* way at each frame, and the loop between two frames is one action here.  *)
(***************************************************************************)
EXTENDS Naturals

CONSTANTS
    Socket,   \* the WebSocket objects
    Key,      \* the addresses
    Group,
    Caster,   \* the tasks that broadcast
    All,      \* group=None: everybody
    None

ASSUME Distinct == All \notin Group /\ None \notin Socket /\ None \notin Key

VARIABLES
    task,         \* the task of _handle_websocket: "new", "running", "gone"
    addr,         \* id(ws), None when there is no such object
    closed,       \* the sockets with ws.closed set
    connecting,   \* ... in connect(), awaiting accept()
    closing,      \* ... in close(), awaiting the close frame
    connections,  \* self._connections
    groups,       \* self._groups; a name not in it is an empty group here
    cast          \* the broadcasts, see Cast

sockVars == <<task, addr, closed, connecting, closing>>
mgrVars == <<connections, groups>>
vars == <<sockVars, mgrVars, cast>>

Cast ==
    [pc : {"idle", "sending", "done"},
     todo : SUBSET Key,                  \* the keys not looked at yet
     stale : SUBSET Key,
     key : Key \cup {None},              \* the socket awaited, and its key
     ws : Socket \cup {None},
     exclude : Socket \cup {None},
     reached : SUBSET Socket,            \* history: the frames sent
     owed : SUBSET Socket,               \* history: the targets that were open
                                         \* and connected all the time and did
                                         \* not fail
     doomed : SUBSET Socket]             \* history: the targets closed when it
                                         \* began
Resting ==
    [pc |-> "idle", todo |-> {}, stale |-> {}, key |-> None, ws |-> None, exclude |-> None,
     reached |-> {}, owed |-> {}, doomed |-> {}]

Init ==
    /\ task = [s \in Socket |-> "new"]
    /\ addr = [s \in Socket |-> None]
    /\ closed = {} /\ connecting = {} /\ closing = {}
    /\ connections = [k \in Key |-> None]
    /\ groups = [g \in Group |-> {}]
    /\ cast = [c \in Caster |-> Resting]

Object(s) == addr[s] # None
Connected(s) == Object(s) /\ connections[addr[s]] = s

\* What keeps the object from being freed.
Held(s) ==
    \/ task[s] = "running" \/ Connected(s) \/ s \in connecting \cup closing
    \/ \E c \in Caster : s \in {cast[c].ws, cast[c].exclude}

\* The history of the broadcasts when the sockets of S leave or close.
Forgiving(S) ==
    [c \in Caster |-> IF cast[c].pc = "sending" THEN [cast[c] EXCEPT !.owed = @ \ S] ELSE cast[c]]

-----------------------------------------------------------------------------
(* The connection: app.py's _handle_websocket makes the object, the server *)
(* or a close() ends it.                                                   *)

Arrive(s, k) ==
    /\ task[s] = "new"
    /\ \A o \in Socket : addr[o] # k
    /\ task' = [task EXCEPT ![s] = "running"]
    /\ addr' = [addr EXCEPT ![s] = k]
    /\ UNCHANGED <<closed, connecting, closing, mgrVars, cast>>

HandlerEnds(s) ==
    /\ task[s] = "running"
    /\ task' = [task EXCEPT ![s] = "gone"]
    /\ UNCHANGED <<addr, closed, connecting, closing, mgrVars, cast>>

Free(s) ==
    /\ Object(s) /\ ~Held(s)
    /\ addr' = [addr EXCEPT ![s] = None]
    /\ UNCHANGED <<task, closed, connecting, closing, mgrVars, cast>>

\* receive() sees the peer's disconnect.
PeerLeaves(s) ==
    /\ task[s] = "running"
    /\ closed' = closed \cup {s}
    /\ cast' = Forgiving({s})
    /\ UNCHANGED <<task, addr, connecting, closing, mgrVars>>

\* ws.close(), from the handler, its heartbeat or anybody else.
Close(s) ==
    /\ Object(s) /\ s \notin closed
    /\ closing' = closing \cup {s}
    /\ UNCHANGED <<task, addr, closed, connecting, mgrVars, cast>>

CloseSent(s) ==
    /\ s \in closing
    /\ closing' = closing \ {s}
    /\ closed' = closed \cup {s}
    /\ cast' = Forgiving({s})
    /\ UNCHANGED <<task, addr, connecting, mgrVars>>

CloseFails(s) ==
    /\ s \in closing
    /\ closing' = closing \ {s}
    /\ UNCHANGED <<task, addr, closed, connecting, mgrVars, cast>>

-----------------------------------------------------------------------------
(* The manager.                                                            *)

\* add(), and join() for each of the groups gs.
Enter(s, gs) ==
    /\ connections' = [connections EXCEPT ![addr[s]] = s]
    /\ groups' = [g \in Group |-> IF g \in gs THEN groups[g] \cup {addr[s]} ELSE groups[g]]

\* remove(), for the keys K.
Cut(K) ==
    /\ connections' = [k \in Key |-> IF k \in K THEN None ELSE connections[k]]
    /\ groups' = [g \in Group |-> groups[g] \ K]

Add(s, gs) ==
    /\ Object(s)
    /\ Enter(s, gs)
    /\ UNCHANGED <<sockVars, cast>>

Connect(s) ==
    /\ task[s] = "running" /\ s \notin connecting
    /\ connecting' = connecting \cup {s}
    /\ UNCHANGED <<task, addr, closed, closing, mgrVars, cast>>

ConnectSent(s, gs) ==
    /\ s \in connecting
    /\ connecting' = connecting \ {s}
    /\ Enter(s, gs)
    /\ UNCHANGED <<task, addr, closed, closing, cast>>

ConnectFails(s) ==
    /\ s \in connecting
    /\ connecting' = connecting \ {s}
    /\ UNCHANGED <<task, addr, closed, closing, mgrVars, cast>>

Leave(s, g) ==
    /\ Object(s)
    /\ groups' = [groups EXCEPT ![g] = @ \ {addr[s]}]
    /\ UNCHANGED <<sockVars, connections, cast>>

Remove(s) ==
    /\ Object(s)
    /\ Cut({addr[s]})
    /\ cast' = Forgiving({s})
    /\ UNCHANGED sockVars

Disconnect(s) ==
    /\ Object(s)
    /\ Cut({addr[s]})
    /\ cast' = Forgiving({s})
    /\ closing' = IF s \in closed THEN closing ELSE closing \cup {s}
    /\ UNCHANGED <<task, addr, closed, connecting>>

-----------------------------------------------------------------------------
(* _broadcast().                                                           *)

Dead(k) == connections[k] = None \/ connections[k] \in closed

ForgetsDead(b, dead) == [b EXCEPT !.todo = @ \ dead]  \* mutant: a bare continue

Skipped(b, dead) == [b EXCEPT !.todo = @ \ dead, !.stale = @ \cup dead]

\* On to the next key whose socket is there and open, in any order,
SendNext(c, b) ==
    /\ \E dead \in SUBSET {k \in b.todo : Dead(k)}, k \in {k \in b.todo : ~Dead(k)} :
          cast' = [cast EXCEPT ![c] =
                     [Skipped(b, dead) EXCEPT
                        !.pc = "sending", !.todo = @ \ {k}, !.key = k, !.ws = connections[k]]]
    /\ UNCHANGED mgrVars

\* or, when there is none, the removal of the stale ones.
Finish(c, b) ==
    LET f == Skipped(b, b.todo)
        lost == {k \in f.stale : connections[k] # None}
    IN  /\ \A k \in b.todo : Dead(k)
        /\ Cut(lost)
        /\ cast' = [Forgiving({connections[k] : k \in lost}) EXCEPT ![c] =
                      [f EXCEPT !.pc = "done", !.stale = {}, !.key = None, !.ws = None,
                                !.exclude = None]]

Proceed(c, b) == SendNext(c, b) \/ Finish(c, b)

Targets(to) == IF to = All THEN {k \in Key : connections[k] # None} ELSE groups[to]

Begin(c, to, exclude) ==
    LET keys == {k \in Targets(to) : exclude # None => k # addr[exclude]}
        there == {connections[k] : k \in keys} \ {None}
    IN  /\ cast[c].pc # "sending"
        /\ exclude # None => Object(exclude)
        /\ Proceed(c, [Resting EXCEPT !.todo = keys, !.exclude = exclude,
                                      !.owed = there \ closed, !.doomed = there \cap closed])
        /\ UNCHANGED sockVars

SentOnTrial(c) ==  \* mutant: a key is stale from before its frame
    /\ cast[c].pc = "sending"
    /\ Proceed(c, [cast[c] EXCEPT !.reached = @ \cup {cast[c].ws}, !.stale = @ \cup {cast[c].key}])
    /\ UNCHANGED sockVars

Sent(c) ==
    /\ cast[c].pc = "sending"
    /\ Proceed(c, [cast[c] EXCEPT !.reached = @ \cup {cast[c].ws}])
    /\ UNCHANGED sockVars

SendRaises(c) ==  \* mutant: the exception leaves the broadcast
    /\ cast[c].pc = "sending"
    /\ Finish(c, [cast[c] EXCEPT !.todo = {}, !.stale = @ \cup {cast[c].key},
                                 !.owed = @ \ {cast[c].ws}])
    /\ UNCHANGED sockVars

SendFails(c) ==
    /\ cast[c].pc = "sending"
    /\ Proceed(c, [cast[c] EXCEPT !.stale = @ \cup {cast[c].key}, !.owed = @ \ {cast[c].ws}])
    /\ UNCHANGED sockVars

-----------------------------------------------------------------------------
Next ==
    \/ \E s \in Socket :
          \/ \E k \in Key : Arrive(s, k)
          \/ HandlerEnds(s) \/ Free(s) \/ PeerLeaves(s)
          \/ Close(s) \/ CloseSent(s) \/ CloseFails(s)
          \/ Connect(s) \/ ConnectFails(s) \/ Remove(s) \/ Disconnect(s)
          \/ \E gs \in SUBSET Group : Add(s, gs) \/ ConnectSent(s, gs)
          \/ \E g \in Group : Leave(s, g)
    \/ \E c \in Caster :
          \/ \E to \in Group \cup {All}, x \in Socket \cup {None} : Begin(c, to, x)
          \/ Sent(c) \/ SendFails(c)

Spec == Init /\ [][Next]_vars

-----------------------------------------------------------------------------
TypeOK ==
    /\ task \in [Socket -> {"new", "running", "gone"}]
    /\ addr \in [Socket -> Key \cup {None}]
    /\ closed \subseteq Socket /\ connecting \subseteq Socket /\ closing \subseteq Socket
    /\ connections \in [Key -> Socket \cup {None}]
    /\ groups \in [Group -> SUBSET Key]
    /\ cast \in [Caster -> Cast]

\* Whoever is in a group is in _connections, whichever tasks join, leave,
\* remove and prune in between: _broadcast relies on it to find the members.
MembersAreConnected == \A g \in Group : \A k \in groups[g] : connections[k] # None

\* When a broadcast returns, each target that was connected and open all the
\* time and whose own frame did not fail has got the message, whatever became
\* of the other targets meanwhile.
EverybodyReached == \A c \in Caster : cast[c].pc = "done" => cast[c].owed \subseteq cast[c].reached

Returns(c) == cast'[c].pc = "done" /\ cast'[c] # cast[c]

\* ... and the removal of the stale ones, which goes by key, spares them, even
\* where a key was freed and given to another WebSocket during the broadcast.
SteadyStay ==
    [][\A c \in Caster : Returns(c) => \A s \in cast'[c].owed : connections'[addr'[s]] = s]_vars

\* A target that was closed when a broadcast began is in _connections no more
\* when it returns, even if it was removed and added again meanwhile.
DeadPruned ==
    [][\A c \in Caster : Returns(c) =>
          \A s \in cast'[c].doomed, k \in Key : connections'[k] # s]_vars

=============================================================================
