---------------------- MODULE ConnectionManager_proofs ----------------------
(***************************************************************************)
(* What holds of the ConnectionManager for any number of sockets, groups   *)
(* and broadcasts: the membership invariant, and what a broadcast promises *)
(* its targets although it tells them by keys that may change hands.       *)
(***************************************************************************)
EXTENDS ConnectionManager, TLAPS

\* No two objects share an address, and a socket gets one once.
Addresses ==
    /\ \A s, o \in Socket : addr[s] # None /\ addr[s] = addr[o] => s = o
    /\ \A s \in Socket : task[s] = "new" => addr[s] = None
    /\ \A s \in Socket : task[s] = "running" => addr[s] # None
    /\ \A s \in connecting \cup closing : addr[s] # None

RightKeys == \A k \in Key : connections[k] # None => addr[connections[k]] = k

\* Where a broadcast under way has got to with those it still owes the
\* message, and with those it has to prune.
OwedOK(b) ==
    \A s \in b.owed :
        /\ addr[s] # None /\ connections[addr[s]] = s /\ s \notin closed
        /\ addr[s] \notin b.stale
        /\ addr[s] \in b.todo \/ s = b.ws \/ s \in b.reached

DoomedOK(b) ==
    \A s \in b.doomed :
        s \in closed /\ task[s] # "new" /\ (addr[s] = None \/ addr[s] \in b.todo \cup b.stale)

SendingOK(b) ==
    /\ b.ws \in Socket /\ addr[b.ws] = b.key /\ b.key \in Key
    /\ OwedOK(b) /\ DoomedOK(b)

CastsOK == \A c \in Caster : cast[c].pc = "sending" => SendingOK(cast[c])

IInv ==
    /\ TypeOK /\ MembersAreConnected /\ EverybodyReached
    /\ Addresses /\ RightKeys /\ CastsOK

USE Distinct

-----------------------------------------------------------------------------
(* How a broadcast looks after a step of somebody else.                    *)

Undisturbed(c) ==
    /\ cast'[c].pc = cast[c].pc
    /\ cast[c].pc # "sending" => cast'[c] = cast[c]
    /\ cast'[c].todo = cast[c].todo /\ cast'[c].stale = cast[c].stale
    /\ cast'[c].key = cast[c].key /\ cast'[c].ws = cast[c].ws
    /\ cast'[c].exclude = cast[c].exclude /\ cast'[c].reached = cast[c].reached
    /\ cast'[c].doomed = cast[c].doomed
    /\ cast'[c].owed \subseteq cast[c].owed

LEMMA Spared ==
    ASSUME NEW b \in Cast, NEW S \in SUBSET Socket
    PROVE  /\ [b EXCEPT !.owed = @ \ S] \in Cast
           /\ [b EXCEPT !.owed = @ \ S].owed = b.owed \ S
  BY DEF Cast

\* Forgiving touches only what a broadcast owes, and only to forgive.
LEMMA Forgiven ==
    ASSUME cast \in [Caster -> Cast], NEW S \in SUBSET Socket,
           NEW new, new = Forgiving(S)
    PROVE  /\ new \in [Caster -> Cast]
           /\ \A c \in Caster : cast[c].pc # "sending" => new[c] = cast[c]
           /\ \A c \in Caster : cast[c].pc = "sending" =>
                 new[c] = [cast[c] EXCEPT !.owed = @ \ S]
<1>1. \A c \in Caster : cast[c].pc # "sending" => new[c] = cast[c]
  BY DEF Forgiving
<1>2. \A c \in Caster : cast[c].pc = "sending" => new[c] = [cast[c] EXCEPT !.owed = @ \ S]
  BY DEF Forgiving
<1>3. ASSUME NEW c \in Caster PROVE new[c] \in Cast
  <2>1. CASE cast[c].pc # "sending"
    BY <1>1, <2>1
  <2>2. CASE cast[c].pc = "sending"
    <3>1. PICK b \in Cast : b = cast[c]
      OBVIOUS
    <3>2. new[c] = [b EXCEPT !.owed = @ \ S]
      BY <1>2, <2>2, <3>1
    <3> QED BY <3>1, <3>2, Spared
  <2> QED BY <2>1, <2>2
<1>4. new = [c \in Caster |-> new[c]]
  BY DEF Forgiving
<1>5. new \in [Caster -> Cast]
  BY <1>3, <1>4
<1> QED BY <1>1, <1>2, <1>5

\* A step that forgives S, or leaves the broadcasts alone, disturbs none.
LEMMA StillUndisturbed ==
    ASSUME cast \in [Caster -> Cast], NEW S \in SUBSET Socket,
           cast' = Forgiving(S) \/ cast' = cast
    PROVE  /\ cast' \in [Caster -> Cast]
           /\ \A c \in Caster : Undisturbed(c)
           /\ cast' = Forgiving(S) => \A c \in Caster :
                 cast[c].pc = "sending" => cast'[c].owed = cast[c].owed \ S
<1>1. CASE cast' = cast
  <2>1. ASSUME cast' = Forgiving(S), NEW c \in Caster, cast[c].pc = "sending"
        PROVE  cast'[c].owed = cast[c].owed \ S
    <3>1. PICK b \in Cast : b = cast[c]
      BY <2>1
    <3>2. cast'[c] = [b EXCEPT !.owed = @ \ S]
      BY <2>1, <3>1, Forgiven
    <3> QED BY <3>1, <3>2, Spared
  <2> QED BY <1>1, <2>1 DEF Undisturbed
<1>2. CASE cast' = Forgiving(S)
  <2>1. /\ cast' \in [Caster -> Cast]
        /\ \A c \in Caster : cast[c].pc # "sending" => cast'[c] = cast[c]
        /\ \A c \in Caster : cast[c].pc = "sending" =>
              cast'[c] = [cast[c] EXCEPT !.owed = @ \ S]
    BY <1>2, Forgiven
  <2>2. ASSUME NEW c \in Caster PROVE Undisturbed(c)
    <3>1. CASE cast[c].pc # "sending"
      BY <2>1, <3>1 DEF Undisturbed
    <3>2. CASE cast[c].pc = "sending"
      BY <2>1, <3>2 DEF Undisturbed, Cast
    <3> QED BY <3>1, <3>2
  <2>3. \A c \in Caster : cast[c].pc = "sending" => cast'[c].owed = cast[c].owed \ S
    BY <2>1 DEF Cast
  <2> QED BY <2>1, <2>2, <2>3
<1> QED BY <1>1, <1>2

\* What such a step has to leave alone for the broadcasts to stay in order.
LEMMA CastsKept ==
    ASSUME IInv,
           \A c \in Caster : Undisturbed(c),
           \A c \in Caster : cast[c].pc = "sending" => addr'[cast[c].ws] = addr[cast[c].ws],
           \A c \in Caster : cast[c].pc = "sending" => \A s \in cast'[c].owed :
              addr'[s] = addr[s] /\ connections'[addr[s]] = s /\ s \notin closed',
           closed \subseteq closed',
           \A s \in Socket : task[s] # "new" =>
              task'[s] # "new" /\ (addr'[s] = addr[s] \/ addr'[s] = None)
    PROVE  CastsOK' /\ EverybodyReached'
<1>1. ASSUME NEW c \in Caster, cast'[c].pc = "sending" PROVE SendingOK(cast[c])'
  <2>1. cast[c].pc = "sending" /\ SendingOK(cast[c]) /\ Undisturbed(c)
    BY <1>1 DEF Undisturbed, IInv, CastsOK
  <2>2. OwedOK(cast[c])'
    BY <2>1 DEF Undisturbed, SendingOK, OwedOK
  <2>3. DoomedOK(cast[c])'
    <3>1. cast[c].doomed \subseteq Socket
      BY DEF IInv, TypeOK, Cast
    <3> QED BY <2>1, <3>1 DEF Undisturbed, SendingOK, DoomedOK
  <2> QED BY <2>1, <2>2, <2>3 DEF Undisturbed, SendingOK
<1>2. EverybodyReached'
  BY DEF IInv, EverybodyReached, Undisturbed
<1> QED BY <1>1, <1>2 DEF CastsOK

-----------------------------------------------------------------------------
(* The loop of _broadcast between two frames.                              *)

Promise ==
    \A c \in Caster : Returns(c) =>
        /\ \A s \in cast'[c].owed : connections'[addr'[s]] = s
        /\ \A s \in cast'[c].doomed, k \in Key : connections'[k] # s

\* What a broadcast has to be like when the loop goes on.
Ready(b) ==
    /\ b \in Cast
    /\ \A s \in b.owed :
          /\ addr[s] # None /\ connections[addr[s]] = s /\ s \notin closed
          /\ addr[s] \notin b.stale
          /\ addr[s] \in b.todo \/ s \in b.reached
    /\ DoomedOK(b)

LEMMA SkippedRecord ==
    ASSUME NEW b \in Cast, NEW dead \in SUBSET Key
    PROVE  /\ Skipped(b, dead) \in Cast
           /\ Skipped(b, dead).todo = b.todo \ dead
           /\ Skipped(b, dead).stale = b.stale \cup dead
           /\ Skipped(b, dead).owed = b.owed /\ Skipped(b, dead).reached = b.reached
           /\ Skipped(b, dead).doomed = b.doomed
  BY DEF Cast, Skipped

\* On to the next frame.
LEMMA SendingNext ==
    ASSUME IInv, NEW c \in Caster, NEW b, Ready(b), UNCHANGED sockVars, SendNext(c, b)
    PROVE  IInv' /\ Promise
<1>1. PICK dead \in SUBSET {k \in b.todo : Dead(k)}, k \in {k \in b.todo : ~Dead(k)} :
         cast' = [cast EXCEPT ![c] =
                    [Skipped(b, dead) EXCEPT
                       !.pc = "sending", !.todo = @ \ {k}, !.key = k, !.ws = connections[k]]]
  BY DEF SendNext
<1>2. UNCHANGED mgrVars
  BY DEF SendNext
<1>3. b \in Cast /\ b.todo \subseteq Key /\ dead \in SUBSET Key /\ k \in Key
  BY <1>1 DEF Ready, Cast
<1>4. connections[k] \in Socket /\ connections[k] \notin closed
  BY <1>1, <1>3 DEF Dead, IInv, TypeOK
<1>5. PICK f \in Cast : f = Skipped(b, dead)
  BY <1>3, SkippedRecord
<1>6. PICK s \in Socket : s = connections[k]
  BY <1>4
<1>7. cast \in [Caster -> Cast]
  BY DEF IInv, TypeOK
<1>8. cast'[c] = [f EXCEPT !.pc = "sending", !.todo = @ \ {k}, !.key = k, !.ws = s]
  BY <1>1, <1>5, <1>6, <1>7
<1>9. /\ cast'[c] \in Cast
      /\ cast'[c].pc = "sending" /\ cast'[c].todo = (b.todo \ dead) \ {k}
      /\ cast'[c].stale = b.stale \cup dead
      /\ cast'[c].key = k /\ cast'[c].ws = s
      /\ cast'[c].owed = b.owed /\ cast'[c].reached = b.reached /\ cast'[c].doomed = b.doomed
  <2>1. f.todo = b.todo \ dead /\ f.stale = b.stale \cup dead /\ f.owed = b.owed
        /\ f.reached = b.reached /\ f.doomed = b.doomed
    BY <1>3, <1>5, SkippedRecord
  <2>2. PICK n : n = cast'[c]
    OBVIOUS
  <2>3. n = [f EXCEPT !.pc = "sending", !.todo = @ \ {k}, !.key = k, !.ws = s]
    BY <1>8, <2>2
  <2>4. /\ n \in Cast
        /\ n.pc = "sending" /\ n.todo = f.todo \ {k} /\ n.stale = f.stale
        /\ n.key = k /\ n.ws = s
        /\ n.owed = f.owed /\ n.reached = f.reached /\ n.doomed = f.doomed
    BY <1>3, <2>3 DEF Cast
  <2> QED BY <2>1, <2>2, <2>4
<1>10. \A d \in Caster \ {c} : cast'[d] = cast[d]
  BY <1>1, <1>7
<1>11. cast' \in [Caster -> Cast]
  <2>1. cast' = [d \in Caster |-> cast'[d]]
    BY <1>1, <1>7
  <2> QED BY <1>7, <1>9, <1>10, <2>1
<1>12. OwedOK(cast[c])'
  <2>1. ASSUME NEW o \in b.owed PROVE addr[o] \notin dead
    <3>1. o \in Socket /\ connections[addr[o]] = o /\ o \notin closed
      BY <1>3, <2>1 DEF Ready, Cast
    <3>2. o # None
      BY <3>1
    <3> QED BY <3>1, <3>2 DEF Dead
  <2>2. ASSUME NEW o \in b.owed, addr[o] = k PROVE o = s
    BY <1>6, <2>2 DEF Ready
  <2> QED BY <1>2, <1>9, <2>1, <2>2 DEF OwedOK, Ready, sockVars, mgrVars
<1>13. DoomedOK(cast[c])'
  <2>1. ASSUME NEW o \in b.doomed PROVE addr[o] # k
    <3>1. o \in Socket /\ o \in closed
      BY <1>3 DEF Ready, DoomedOK, Cast
    <3>2. addr[s] = k /\ s \notin closed
      BY <1>3, <1>4, <1>6 DEF IInv, RightKeys
    <3> QED BY <1>3, <3>1, <3>2 DEF IInv, Addresses
  <2> QED BY <1>9, <2>1 DEF DoomedOK, Ready, sockVars
<1>14. SendingOK(cast[c])'
  <2>1. addr[s] = k
    BY <1>3, <1>6 DEF IInv, RightKeys
  <2> QED BY <1>3, <1>9, <1>12, <1>13, <2>1 DEF SendingOK, sockVars
<1>15. ASSUME NEW d \in Caster \ {c}, cast'[d].pc = "sending" PROVE SendingOK(cast[d])'
  BY <1>2, <1>10, <1>15 DEF IInv, CastsOK, SendingOK, OwedOK, DoomedOK, sockVars, mgrVars
<1>16. CastsOK'
  BY <1>14, <1>15 DEF CastsOK
<1>17. EverybodyReached'
  BY <1>9, <1>10 DEF IInv, EverybodyReached
<1>18. Promise
  BY <1>9, <1>10 DEF Promise, Returns
<1>19. (TypeOK /\ MembersAreConnected /\ Addresses /\ RightKeys)'
  BY <1>2, <1>11 DEF IInv, TypeOK, MembersAreConnected, Addresses, RightKeys, sockVars, mgrVars
<1> QED BY <1>16, <1>17, <1>18, <1>19 DEF IInv

\* On to the end: the stale keys are cut, whoever has them now.
LEMMA Finishing ==
    ASSUME IInv, NEW c \in Caster, NEW b, Ready(b), UNCHANGED sockVars, Finish(c, b)
    PROVE  IInv' /\ Promise
<1> DEFINE lost == {k \in Skipped(b, b.todo).stale : connections[k] # None}
           gone == {connections[k] : k \in lost}
<1>1. b \in Cast /\ b.todo \in SUBSET Key /\ b.stale \in SUBSET Key
  BY DEF Ready, Cast
<1>2. PICK f \in Cast :
        /\ f = Skipped(b, b.todo) /\ f.stale = b.stale \cup b.todo
        /\ f.owed = b.owed /\ f.reached = b.reached /\ f.doomed = b.doomed
  BY <1>1, SkippedRecord
<1>3. /\ lost = {k \in b.stale \cup b.todo : connections[k] # None}
      /\ lost \in SUBSET Key
  BY <1>1, <1>2
<1>4. PICK L \in SUBSET Key : L = lost
  BY <1>3
<1>5. gone = {connections[k] : k \in L} /\ gone \in SUBSET Socket
  BY <1>3, <1>4 DEF IInv, TypeOK
<1>6. PICK S \in SUBSET Socket : S = gone
  BY <1>5
<1>7. /\ \A k \in b.todo : Dead(k)
      /\ Cut(L)
      /\ cast' = [Forgiving(S) EXCEPT ![c] =
                    [f EXCEPT !.pc = "done", !.stale = {}, !.key = None, !.ws = None,
                              !.exclude = None]]
  BY <1>2, <1>4, <1>6 DEF Finish
<1>8. /\ connections' = [k \in Key |-> IF k \in L THEN None ELSE connections[k]]
      /\ groups' = [g \in Group |-> groups[g] \ L]
  BY <1>7 DEF Cut
<1>9. PICK others : others = Forgiving(S)
  OBVIOUS
<1>10. cast \in [Caster -> Cast]
  BY DEF IInv, TypeOK
<1>11. /\ others \in [Caster -> Cast]
       /\ \A d \in Caster : cast[d].pc # "sending" => others[d] = cast[d]
       /\ \A d \in Caster : cast[d].pc = "sending" => others[d] = [cast[d] EXCEPT !.owed = @ \ S]
  BY <1>9, <1>10, Forgiven
<1>12. cast'[c] = [f EXCEPT !.pc = "done", !.stale = {}, !.key = None, !.ws = None,
                            !.exclude = None]
  BY <1>7, <1>9, <1>11
<1>13. /\ cast'[c] \in Cast /\ cast'[c].pc = "done"
       /\ cast'[c].owed = b.owed /\ cast'[c].reached = b.reached /\ cast'[c].doomed = b.doomed
  <2>1. PICK n : n = cast'[c]
    OBVIOUS
  <2>2. n = [f EXCEPT !.pc = "done", !.stale = {}, !.key = None, !.ws = None, !.exclude = None]
    BY <1>12, <2>1
  <2>3. n \in Cast /\ n.pc = "done" /\ n.owed = f.owed /\ n.reached = f.reached /\ n.doomed = f.doomed
    BY <2>2 DEF Cast
  <2> QED BY <1>2, <2>1, <2>3
<1>14. \A d \in Caster \ {c} : cast'[d] = others[d]
  BY <1>7, <1>9, <1>11
<1>15. cast' \in [Caster -> Cast]
  <2>1. cast' = [d \in Caster |-> cast'[d]]
    BY <1>7, <1>9, <1>11
  <2> QED BY <1>11, <1>13, <1>14, <2>1
<1>16. ASSUME NEW d \in Caster \ {c}
       PROVE  /\ cast'[d].pc = cast[d].pc
              /\ cast[d].pc # "sending" => cast'[d] = cast[d]
              /\ cast[d].pc = "sending" =>
                   /\ cast'[d].todo = cast[d].todo /\ cast'[d].stale = cast[d].stale
                   /\ cast'[d].key = cast[d].key /\ cast'[d].ws = cast[d].ws
                   /\ cast'[d].reached = cast[d].reached /\ cast'[d].doomed = cast[d].doomed
                   /\ cast'[d].owed = cast[d].owed \ S
  <2>1. CASE cast[d].pc # "sending"
    BY <1>11, <1>14, <2>1
  <2>2. CASE cast[d].pc = "sending"
    BY <1>10, <1>11, <1>14, <2>2 DEF Cast
  <2> QED BY <2>1, <2>2
<1>17. ASSUME NEW s \in Socket, addr[s] # None, connections[addr[s]] = s, s \notin S
       PROVE  addr[s] \notin L /\ connections'[addr[s]] = s
  <2>1. addr[s] \in Key
    BY <1>17 DEF IInv, TypeOK
  <2>2. addr[s] \notin L
    BY <1>5, <1>6, <1>17
  <2> QED BY <1>8, <1>17, <2>1, <2>2
<1>18. ASSUME NEW d \in Caster, cast'[d].pc = "sending" PROVE SendingOK(cast[d])'
  <2>1. d # c /\ cast[d].pc = "sending"
    BY <1>13, <1>16, <1>18
  <2>2. SendingOK(cast[d])
    BY <2>1 DEF IInv, CastsOK
  <2>3. cast[d].owed \subseteq Socket
    BY <1>10 DEF Cast
  <2>4. ASSUME NEW s \in cast[d].owed \ S PROVE connections'[addr[s]] = s
    BY <1>17, <2>2, <2>3 DEF SendingOK, OwedOK
  <2>5. OwedOK(cast[d])'
    BY <1>16, <2>1, <2>2, <2>4 DEF SendingOK, OwedOK, sockVars
  <2>6. DoomedOK(cast[d])'
    BY <1>16, <2>1, <2>2 DEF SendingOK, DoomedOK, sockVars
  <2> QED BY <1>16, <2>1, <2>2, <2>5, <2>6 DEF SendingOK, sockVars
<1>19. CastsOK'
  BY <1>18 DEF CastsOK
<1>20. ASSUME NEW s \in b.owed
       PROVE  s \in b.reached /\ connections'[addr[s]] = s
  <2>1. /\ s \in Socket /\ addr[s] # None /\ connections[addr[s]] = s /\ s \notin closed
        /\ addr[s] \notin b.stale
        /\ addr[s] \in b.todo \/ s \in b.reached
    BY <1>1 DEF Ready, Cast
  <2>2. addr[s] \notin b.todo
    <3>1. s # None
      BY <2>1
    <3> QED BY <1>7, <2>1, <3>1 DEF Dead
  <2>3. addr[s] \notin L /\ addr[s] \in Key
    BY <1>3, <1>4, <2>1, <2>2 DEF IInv, TypeOK
  <2> QED BY <1>8, <2>1, <2>2, <2>3
<1>21. EverybodyReached'
  BY <1>13, <1>16, <1>20 DEF IInv, EverybodyReached
<1>22. ASSUME NEW s \in b.doomed, NEW k \in Key PROVE connections'[k] # s
  <2>1. /\ s \in Socket /\ s # None
        /\ addr[s] = None \/ addr[s] \in b.todo \cup b.stale
    BY <1>1 DEF Ready, DoomedOK, Cast
  <2>2. SUFFICES ASSUME k \notin L, connections[k] = s PROVE FALSE
    BY <1>8, <2>1
  <2>3. addr[s] = k
    BY <2>1, <2>2 DEF IInv, RightKeys
  <2> QED BY <1>3, <1>4, <2>1, <2>2, <2>3
<1>23. ASSUME NEW d \in Caster, Returns(d) PROVE d = c
  BY <1>16, <1>23 DEF Returns
<1>24. Promise
  BY <1>13, <1>20, <1>22, <1>23 DEF Promise, sockVars
<1>25. TypeOK'
  <2>1. connections' \in [Key -> Socket \cup {None}] /\ groups' \in [Group -> SUBSET Key]
    BY <1>8 DEF IInv, TypeOK
  <2> QED BY <1>15, <2>1 DEF IInv, TypeOK, sockVars
<1>26. (MembersAreConnected /\ Addresses /\ RightKeys)'
  BY <1>8 DEF IInv, TypeOK, MembersAreConnected, Addresses, RightKeys, sockVars
<1> QED BY <1>19, <1>21, <1>24, <1>25, <1>26 DEF IInv

\* Either way the loop keeps the invariant and the promise.
LEMMA Proceeding ==
    ASSUME IInv, NEW c \in Caster, NEW b, Ready(b), UNCHANGED sockVars, Proceed(c, b)
    PROVE  IInv' /\ Promise
  BY SendingNext, Finishing DEF Proceed

-----------------------------------------------------------------------------
(* Every action keeps the invariant.                                       *)

LEMMA BeginStep ==
    ASSUME IInv, NEW c \in Caster, NEW to \in Group \cup {All},
           NEW exclude \in Socket \cup {None}, Begin(c, to, exclude)
    PROVE  IInv' /\ Promise
<1> DEFINE keys == {k \in Targets(to) : exclude # None => k # addr[exclude]}
           there == {connections[k] : k \in keys} \ {None}
           b == [Resting EXCEPT !.todo = keys, !.exclude = exclude,
                                !.owed = there \ closed, !.doomed = there \cap closed]
<1>1. keys \in SUBSET Key
  BY DEF Targets, IInv, TypeOK
<1>2. there \in SUBSET Socket
  BY <1>1 DEF IInv, TypeOK
<1>3. /\ b \in Cast
      /\ b.todo = keys /\ b.stale = {} /\ b.owed = there \ closed /\ b.doomed = there \cap closed
  BY <1>1, <1>2 DEF Resting, Cast, IInv, TypeOK
<1>4. ASSUME NEW s \in there PROVE /\ addr[s] \in keys /\ connections[addr[s]] = s
                                   /\ addr[s] # None /\ task[s] # "new"
  <2>1. PICK k \in keys : s = connections[k]
    BY <1>4
  <2>2. k \in Key /\ s # None /\ s \in Socket
    BY <1>1, <1>2, <1>4, <2>1
  <2>3. addr[s] = k
    BY <2>1, <2>2 DEF IInv, RightKeys
  <2> QED BY <2>1, <2>2, <2>3 DEF IInv, Addresses
<1>5. Ready(b)
  <2> HIDE DEF keys, there, b
  <2> QED BY <1>3, <1>4 DEF Ready, DoomedOK
<1>6. Proceed(c, b) /\ UNCHANGED sockVars
  BY DEF Begin
<1> HIDE DEF b
<1> QED BY <1>5, <1>6, Proceeding

LEMMA SentStep ==
    ASSUME IInv, NEW c \in Caster, Sent(c)
    PROVE  IInv' /\ Promise
<1> DEFINE b == [cast[c] EXCEPT !.reached = @ \cup {cast[c].ws}]
<1>1. PICK d \in Cast : d = cast[c]
  BY DEF IInv, TypeOK
<1>2. SendingOK(d)
  BY <1>1 DEF Sent, IInv, CastsOK
<1>3. d.ws \in Socket
  BY <1>2 DEF SendingOK
<1>4. /\ b \in Cast /\ b.todo = d.todo /\ b.stale = d.stale /\ b.owed = d.owed
      /\ b.doomed = d.doomed /\ b.reached = d.reached \cup {d.ws}
  BY <1>1, <1>3 DEF Cast
<1>5. Ready(b)
  <2> HIDE DEF b
  <2> QED BY <1>2, <1>4 DEF Ready, DoomedOK, SendingOK, OwedOK
<1>6. Proceed(c, b) /\ UNCHANGED sockVars
  BY DEF Sent
<1> HIDE DEF b
<1> QED BY <1>5, <1>6, Proceeding

LEMMA SendFailsStep ==
    ASSUME IInv, NEW c \in Caster, SendFails(c)
    PROVE  IInv' /\ Promise
<1> DEFINE b == [cast[c] EXCEPT !.stale = @ \cup {cast[c].key}, !.owed = @ \ {cast[c].ws}]
<1>1. PICK d \in Cast : d = cast[c]
  BY DEF IInv, TypeOK
<1>2. SendingOK(d)
  BY <1>1 DEF SendFails, IInv, CastsOK
<1>3. d.ws \in Socket /\ d.key \in Key /\ addr[d.ws] = d.key
  BY <1>2 DEF SendingOK
<1>4. /\ b \in Cast /\ b.todo = d.todo /\ b.stale = d.stale \cup {d.key}
      /\ b.owed = d.owed \ {d.ws} /\ b.doomed = d.doomed /\ b.reached = d.reached
  BY <1>1, <1>3 DEF Cast
<1>5. ASSUME NEW s \in d.owed, s # d.ws PROVE addr[s] # d.key
  <2>1. s \in Socket /\ addr[s] # None
    BY <1>2, <1>5 DEF SendingOK, OwedOK, Cast
  <2> QED BY <1>3, <1>5, <2>1 DEF IInv, Addresses
<1>6. Ready(b)
  <2> HIDE DEF b
  <2> QED BY <1>2, <1>4, <1>5 DEF Ready, DoomedOK, SendingOK, OwedOK
<1>7. Proceed(c, b) /\ UNCHANGED sockVars
  BY DEF SendFails
<1> HIDE DEF b
<1> QED BY <1>6, <1>7, Proceeding

\* A step of no broadcast returns none of them.
LEMMA NobodyReturns ==
    ASSUME \A c \in Caster : Undisturbed(c)
    PROVE  Promise
  BY DEF Promise, Returns, Undisturbed

\* The steps that touch neither the manager nor ws.closed.
LEMMA SocketStep ==
    ASSUME IInv, NEW s \in Socket,
           \/ \E k \in Key : Arrive(s, k)
           \/ HandlerEnds(s) \/ Free(s) \/ Close(s) \/ CloseFails(s)
           \/ Connect(s) \/ ConnectFails(s)
    PROVE  IInv' /\ Promise
<1> USE DEF Arrive, HandlerEnds, Free, Close, CloseFails, Connect, ConnectFails
<1>1. cast' = cast /\ UNCHANGED mgrVars /\ closed' = closed
  OBVIOUS
<1>2. \A c \in Caster : Undisturbed(c)
  BY <1>1, StillUndisturbed DEF IInv, TypeOK
<1>3. TypeOK'
  BY <1>1 DEF IInv, TypeOK, mgrVars
<1>4. Addresses'
  BY DEF IInv, TypeOK, Addresses, Held, Object
<1>5. RightKeys'
  BY <1>1 DEF IInv, TypeOK, RightKeys, Addresses, Held, Connected, Object, mgrVars
<1>6. \A o \in Socket : task[o] # "new" =>
         task'[o] # "new" /\ (addr'[o] = addr[o] \/ addr'[o] = None)
  BY DEF IInv, TypeOK
<1>7. ASSUME NEW c \in Caster, cast[c].pc = "sending" PROVE addr'[cast[c].ws] = addr[cast[c].ws]
  <2>1. cast[c].ws \in Socket /\ addr[cast[c].ws] # None
    BY <1>7 DEF IInv, CastsOK, SendingOK
  <2> QED BY <1>7, <2>1 DEF IInv, TypeOK, Addresses, Held
<1>8. ASSUME NEW c \in Caster, cast[c].pc = "sending", NEW o \in cast[c].owed
      PROVE  addr'[o] = addr[o] /\ connections'[addr[o]] = o /\ o \notin closed'
  <2>1. o \in Socket /\ addr[o] # None /\ connections[addr[o]] = o /\ o \notin closed
    BY <1>8 DEF IInv, TypeOK, Cast, CastsOK, SendingOK, OwedOK
  <2>2. addr'[o] = addr[o]
    BY <2>1 DEF IInv, TypeOK, Addresses, Held, Connected
  <2> QED BY <1>1, <2>1, <2>2 DEF mgrVars
<1>9. CastsOK' /\ EverybodyReached'
  BY <1>1, <1>2, <1>6, <1>7, <1>8, CastsKept
<1>10. MembersAreConnected'
  BY <1>1 DEF IInv, MembersAreConnected, mgrVars
<1> QED BY <1>2, <1>3, <1>4, <1>5, <1>9, <1>10, NobodyReturns DEF IInv

\* The steps that close a socket.
LEMMA ClosedStep ==
    ASSUME IInv, NEW s \in Socket, PeerLeaves(s) \/ CloseSent(s)
    PROVE  IInv' /\ Promise
<1> USE DEF PeerLeaves, CloseSent
<1>1. /\ cast' = Forgiving({s}) /\ closed' = closed \cup {s}
      /\ UNCHANGED <<mgrVars, task, addr, connecting>> /\ closing' \subseteq closing
  OBVIOUS
<1>2. /\ cast' \in [Caster -> Cast]
      /\ \A c \in Caster : Undisturbed(c)
      /\ \A c \in Caster : cast[c].pc = "sending" => cast'[c].owed = cast[c].owed \ {s}
  BY <1>1, StillUndisturbed DEF IInv, TypeOK
<1>3. ASSUME NEW c \in Caster, cast[c].pc = "sending", NEW o \in cast'[c].owed
      PROVE  addr'[o] = addr[o] /\ connections'[addr[o]] = o /\ o \notin closed'
  <2>1. o \in cast[c].owed /\ o # s
    BY <1>2, <1>3
  <2>2. addr[o] # None /\ connections[addr[o]] = o /\ o \notin closed
    BY <1>3, <2>1 DEF IInv, CastsOK, SendingOK, OwedOK
  <2> QED BY <1>1, <2>1, <2>2 DEF mgrVars
<1>4. CastsOK' /\ EverybodyReached'
  BY <1>1, <1>2, <1>3, CastsKept
<1>5. TypeOK'
  BY <1>1, <1>2 DEF IInv, TypeOK, mgrVars
<1>6. (MembersAreConnected /\ Addresses /\ RightKeys)'
  BY <1>1 DEF IInv, MembersAreConnected, Addresses, RightKeys, mgrVars
<1> QED BY <1>2, <1>4, <1>5, <1>6, NobodyReturns DEF IInv

\* The steps that add a socket, to some groups or to none.
LEMMA EnterStep ==
    ASSUME IInv, NEW s \in Socket, NEW gs \in SUBSET Group, Add(s, gs) \/ ConnectSent(s, gs)
    PROVE  IInv' /\ Promise
<1> USE DEF Add, ConnectSent
<1>1. /\ cast' = cast /\ UNCHANGED <<task, addr, closed, closing>> /\ connecting' \subseteq connecting
      /\ connections' = [connections EXCEPT ![addr[s]] = s]
      /\ groups' = [g \in Group |-> IF g \in gs THEN groups[g] \cup {addr[s]} ELSE groups[g]]
  BY DEF Enter, sockVars
<1>2. addr[s] \in Key
  BY DEF IInv, TypeOK, Addresses, Object
<1>3. \A c \in Caster : Undisturbed(c)
  BY <1>1, StillUndisturbed DEF IInv, TypeOK
<1>4. ASSUME NEW c \in Caster, cast[c].pc = "sending", NEW o \in cast'[c].owed
      PROVE  addr'[o] = addr[o] /\ connections'[addr[o]] = o /\ o \notin closed'
  <2>1. o \in Socket /\ addr[o] # None /\ connections[addr[o]] = o /\ o \notin closed
    BY <1>1, <1>4 DEF IInv, TypeOK, Cast, CastsOK, SendingOK, OwedOK
  <2>2. addr[o] \in Key
    BY <2>1 DEF IInv, TypeOK
  <2>3. connections'[addr[o]] = o
    BY <1>1, <1>2, <2>1, <2>2 DEF IInv, TypeOK, Addresses
  <2> QED BY <1>1, <2>1, <2>3
<1>5. CastsOK' /\ EverybodyReached'
  BY <1>1, <1>3, <1>4, CastsKept
<1>6. TypeOK'
  BY <1>1, <1>2 DEF IInv, TypeOK
<1>7. MembersAreConnected'
  <2>1. \A k \in Key : connections[k] # None => connections'[k] # None
    BY <1>1, <1>2 DEF IInv, TypeOK
  <2>2. connections'[addr[s]] # None
    BY <1>1, <1>2 DEF IInv, TypeOK
  <2> QED BY <1>1, <2>1, <2>2 DEF IInv, TypeOK, MembersAreConnected
<1>8. (Addresses /\ RightKeys)'
  BY <1>1, <1>2 DEF IInv, TypeOK, Addresses, RightKeys
<1> QED BY <1>3, <1>5, <1>6, <1>7, <1>8, NobodyReturns DEF IInv

LEMMA LeaveStep ==
    ASSUME IInv, NEW s \in Socket, NEW g \in Group, Leave(s, g)
    PROVE  IInv' /\ Promise
<1>1. /\ cast' = cast /\ UNCHANGED <<sockVars, connections>>
      /\ groups' = [groups EXCEPT ![g] = @ \ {addr[s]}]
  BY DEF Leave
<1>2. \A c \in Caster : Undisturbed(c)
  BY <1>1, StillUndisturbed DEF IInv, TypeOK
<1>3. ASSUME NEW c \in Caster, cast[c].pc = "sending", NEW o \in cast'[c].owed
      PROVE  addr'[o] = addr[o] /\ connections'[addr[o]] = o /\ o \notin closed'
  BY <1>1, <1>3 DEF IInv, CastsOK, SendingOK, OwedOK, sockVars
<1>4. CastsOK' /\ EverybodyReached'
  BY <1>1, <1>2, <1>3, CastsKept DEF sockVars
<1>5. TypeOK' /\ MembersAreConnected'
  BY <1>1 DEF IInv, TypeOK, MembersAreConnected, sockVars
<1>6. (Addresses /\ RightKeys)'
  BY <1>1 DEF IInv, Addresses, RightKeys, sockVars
<1> QED BY <1>2, <1>4, <1>5, <1>6, NobodyReturns DEF IInv

\* The steps that remove a socket.
LEMMA CutStep ==
    ASSUME IInv, NEW s \in Socket, Remove(s) \/ Disconnect(s)
    PROVE  IInv' /\ Promise
<1> USE DEF Remove, Disconnect
<1>1. /\ cast' = Forgiving({s}) /\ UNCHANGED <<task, addr, closed, connecting>>
      /\ closing' \subseteq closing \cup {s}
      /\ connections' = [k \in Key |-> IF k \in {addr[s]} THEN None ELSE connections[k]]
      /\ groups' = [g \in Group |-> groups[g] \ {addr[s]}]
  BY DEF Cut, sockVars
<1>2. addr[s] \in Key
  BY DEF IInv, TypeOK, Object
<1>3. /\ cast' \in [Caster -> Cast]
      /\ \A c \in Caster : Undisturbed(c)
      /\ \A c \in Caster : cast[c].pc = "sending" => cast'[c].owed = cast[c].owed \ {s}
  BY <1>1, StillUndisturbed DEF IInv, TypeOK
<1>4. ASSUME NEW c \in Caster, cast[c].pc = "sending", NEW o \in cast'[c].owed
      PROVE  addr'[o] = addr[o] /\ connections'[addr[o]] = o /\ o \notin closed'
  <2>1. o \in Socket /\ o # s /\ addr[o] # None /\ connections[addr[o]] = o /\ o \notin closed
    BY <1>3, <1>4 DEF IInv, TypeOK, Cast, CastsOK, SendingOK, OwedOK
  <2>2. addr[o] \in Key /\ addr[o] # addr[s]
    BY <2>1 DEF IInv, TypeOK, Addresses
  <2> QED BY <1>1, <2>1, <2>2
<1>5. CastsOK' /\ EverybodyReached'
  BY <1>1, <1>3, <1>4, CastsKept
<1>6. TypeOK'
  BY <1>1, <1>2, <1>3 DEF IInv, TypeOK
<1>7. (MembersAreConnected /\ RightKeys)'
  BY <1>1 DEF IInv, TypeOK, MembersAreConnected, RightKeys
<1>8. Addresses'
  BY <1>1, <1>2 DEF IInv, TypeOK, Addresses
<1> QED BY <1>3, <1>5, <1>6, <1>7, <1>8, NobodyReturns DEF IInv

-----------------------------------------------------------------------------
(* The theorems.                                                           *)

LEMMA InitIInv == Init => IInv
<1> SUFFICES ASSUME Init PROVE IInv
  OBVIOUS
<1>1. TypeOK
  BY DEF Init, TypeOK, Resting, Cast
<1>2. \A c \in Caster : cast[c].pc = "idle"
  BY DEF Init, Resting
<1>3. EverybodyReached /\ CastsOK
  BY <1>2 DEF EverybodyReached, CastsOK
<1> QED BY <1>1, <1>3 DEF Init, IInv, MembersAreConnected, Addresses, RightKeys

LEMMA NextIInv == IInv /\ [Next]_vars => IInv' /\ Promise
<1> SUFFICES ASSUME IInv, [Next]_vars PROVE IInv' /\ Promise
  OBVIOUS
<1>1. ASSUME NEW s \in Socket,
             \/ \E k \in Key : Arrive(s, k)
             \/ HandlerEnds(s) \/ Free(s) \/ Close(s) \/ CloseFails(s)
             \/ Connect(s) \/ ConnectFails(s)
      PROVE  IInv' /\ Promise
  BY <1>1, SocketStep
<1>2. ASSUME NEW s \in Socket, PeerLeaves(s) \/ CloseSent(s) PROVE IInv' /\ Promise
  BY <1>2, ClosedStep
<1>3. ASSUME NEW s \in Socket, NEW gs \in SUBSET Group, Add(s, gs) \/ ConnectSent(s, gs)
      PROVE  IInv' /\ Promise
  BY <1>3, EnterStep
<1>4. ASSUME NEW s \in Socket, NEW g \in Group, Leave(s, g) PROVE IInv' /\ Promise
  BY <1>4, LeaveStep
<1>5. ASSUME NEW s \in Socket, Remove(s) \/ Disconnect(s) PROVE IInv' /\ Promise
  BY <1>5, CutStep
<1>6. ASSUME NEW c \in Caster, NEW to \in Group \cup {All}, NEW x \in Socket \cup {None},
             Begin(c, to, x)
      PROVE  IInv' /\ Promise
  BY <1>6, BeginStep
<1>7. ASSUME NEW c \in Caster, Sent(c) PROVE IInv' /\ Promise
  BY <1>7, SentStep
<1>8. ASSUME NEW c \in Caster, SendFails(c) PROVE IInv' /\ Promise
  BY <1>8, SendFailsStep
<1>9. CASE UNCHANGED vars
  <2>1. IInv'
    BY <1>9 DEF vars, sockVars, mgrVars, IInv, TypeOK, MembersAreConnected, EverybodyReached,
       Addresses, RightKeys, CastsOK, SendingOK, OwedOK, DoomedOK
  <2>2. Promise
    BY <1>9 DEF vars, Promise, Returns
  <2> QED BY <2>1, <2>2
<1>10. CASE Next
  BY <1>1, <1>2, <1>3, <1>4, <1>5, <1>6, <1>7, <1>8, <1>10 DEF Next
<1> QED BY <1>9, <1>10

\* The invariant holds in every reachable state.
THEOREM Inductive == Spec => []IInv
  BY InitIInv, NextIInv, PTL DEF Spec

\* Type correctness of sockets, manager and broadcasts.
THEOREM TypeCorrect == Spec => []TypeOK
  BY Inductive, PTL DEF IInv

\* A member of a group is always in _connections (join 346, remove 332,
\* leave 351 and the pruning of _broadcast keep the two together).
THEOREM GroupsAreConnected == Spec => []MembersAreConnected
  BY Inductive, PTL DEF IInv

\* A broadcast that returns has sent to all it owed the message.
THEOREM BroadcastIsComplete == Spec => []EverybodyReached
  BY Inductive, PTL DEF IInv

LEMMA PromiseSpares ==
    Promise => \A c \in Caster : Returns(c) => \A s \in cast'[c].owed : connections'[addr'[s]] = s
  BY DEF Promise

LEMMA PromisePrunes ==
    Promise => \A c \in Caster : Returns(c) =>
                  \A s \in cast'[c].doomed, k \in Key : connections'[k] # s
  BY DEF Promise

\* The pruning by key never hits a target that stayed, for any reuse of keys.
THEOREM PruningSparesTheSteady == Spec => SteadyStay
  BY Inductive, NextIInv, PromiseSpares, PTL DEF Spec, SteadyStay

\* The pruning by key never misses a target that was closed.
THEOREM PruningTakesTheDead == Spec => DeadPruned
  BY Inductive, NextIInv, PromisePrunes, PTL DEF Spec, DeadPruned

=============================================================================
