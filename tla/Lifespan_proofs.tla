--------------------------- MODULE Lifespan_proofs ---------------------------
(***************************************************************************)
(* Proofs about the lifespan, for every set of resources, any number of    *)
(* handlers, requests and startups.  The argument: while resources are     *)
(* closed, what is left to close (todo) is a prefix of what the startup    *)
(* listed (values); what is in the prefix is open and in app.state, what   *)
(* is behind it is closed and is not.                                      *)
(***************************************************************************)
EXTENDS Lifespan, SequenceTheorems, TLAPS

\* The names of a startup are different, and are those still to be opened too.
Names ==
    /\ \A i \in DOMAIN opened : opened[i][2] = round
    /\ \A i, j \in DOMAIN opened : i # j => opened[i][1] # opened[j][1]
    /\ pc = "opening" =>
        /\ round > 0 /\ IsInjective(todo)
        /\ \A i \in DOMAIN todo, j \in DOMAIN opened : todo[i] # opened[j][1]

\* A cleanup is called once at most, or twice, and of what was opened.
CalledOnce ==
    /\ ClosedOnce
    /\ \A v \in retried : closings[v] > 0
    /\ \A v \in Value : closings[v] > 0 =>
          v[2] <= round /\ (v[2] = round => v \in Range(opened))

Present(v) == v \in live /\ state[v[1]] = v /\ closings[v] = 0
Closed(v) == v \notin Closable /\ state[v[1]] # v

\* What is listed for the shutdown is open before anything is closed ...
Intact == pc \notin Unwinding \cup {"gone"} => \A i \in DOMAIN values : Present(values[i])

\* ... and closed from the last to the first.
Prefix ==
    pc \in Unwinding =>
        /\ todo \in Seq(Value) /\ Len(todo) <= Len(values)
        /\ \A i \in DOMAIN todo : todo[i] = values[i]
        /\ \A i \in DOMAIN todo : (i = Len(todo) => cleaning = "no") => Present(todo[i])
        /\ \A i \in DOMAIN values : i > Len(todo) => Closed(values[i])

\* The cleanup in progress is that of the last value left.
InCleanup ==
    /\ cleaning # "no" => pc \in Unwinding /\ todo # <<>> /\ Last(todo) \notin live
    /\ cleaning = "first" => closings[Last(todo)] = 1

\* The list is that of this startup until it is forgotten, all of it closed.
Listed ==
    /\ values # opened => values = <<>> /\ \A i \in DOMAIN opened : Closed(opened[i])
    /\ pc \in {"opening", "starting"} \/ Serving => values = opened
    /\ pc = "idle" /\ ~Serving => values = <<>>

\* app.state holds, under its name, what is open.
StateOpen ==
    /\ \A n \in Resource : state[n] # None => state[n][1] = n
    /\ pc # "gone" =>
        \A n \in HasCleanup :
            state[n] # None /\ ~(cleaning # "no" /\ Last(todo)[1] = n) => state[n] \in live

\* Requests are there while the application serves and until the drain ends.
InUse ==
    /\ \A r \in Request : using[r] # None => gaveUp \/ Serving \/ pc = "draining"
    /\ pc = "idle" /\ reply = "start failed" => \A r \in Request : using[r] = None
    /\ pc \in {"opening", "undoing", "starting", "clearing"} => \A r \in Request : using[r] = None
    /\ Serving \/ pc = "draining" =>
        \A r \in Request : using[r] # None =>
            \A v \in using[r] : v[1] \in HasCleanup => v \in live

\* What raised is remembered until it is reported.
Reported ==
    /\ pc # "idle" => reply = None
    /\ pc \in {"opening", "starting", "draining", "stopping"} => ~trouble
    /\ pc \in {"draining", "stopping"} => err = None
    /\ pc \in {"undoing", "clearing"} => trouble
    /\ pc = "closing" => (trouble <=> err # None \/ broke)

IInv ==
    /\ TypeOK /\ Names /\ CalledOnce /\ Intact /\ Prefix /\ InCleanup /\ Listed
    /\ StateOpen /\ InUse /\ Reported /\ ReverseOrder /\ ReportsTruth

-----------------------------------------------------------------------------
(* Sequences.                                                              *)

\* The empty list has no places.
LEMMA EmptyDomain ==
    ASSUME NEW S, NEW s \in Seq(S), s = <<>>
    PROVE  DOMAIN s = {}
  OBVIOUS

\* Dropping an element keeps the order and the typing of the others.
LEMMA RemoveAtFacts ==
    ASSUME NEW S, NEW s \in Seq(S), NEW k \in DOMAIN s
    PROVE  /\ RemoveAt(s, k) \in Seq(S)
           /\ Len(RemoveAt(s, k)) = Len(s) - 1
           /\ \A i \in DOMAIN RemoveAt(s, k) :
                RemoveAt(s, k)[i] = IF i < k THEN s[i] ELSE s[i + 1]
<1> DEFINE l == SubSeq(s, 1, k - 1)
           t == SubSeq(s, k + 1, Len(s))
<1>1. k \in 1..Len(s) /\ Len(s) \in Nat
  OBVIOUS
<1>2. l \in Seq(S) /\ Len(l) = k - 1 /\ \A i \in 1..(k - 1) : l[i] = s[i]
  BY <1>1, SubSeqProperties
<1>3. t \in Seq(S) /\ Len(t) = Len(s) - k /\ \A i \in 1..(Len(s) - k) : t[i] = s[k + i]
  BY <1>1, SubSeqProperties
<1> HIDE DEF l, t
<1>4. RemoveAt(s, k) = l \o t
  BY DEF RemoveAt, l, t
<1>5. l \o t \in Seq(S) /\ Len(l \o t) = Len(s) - 1
  BY <1>1, <1>2, <1>3
<1>6. \A i \in 1..(Len(s) - 1) : (l \o t)[i] = IF i < k THEN s[i] ELSE s[i + 1]
  BY <1>1, <1>2, <1>3
<1>7. DOMAIN (l \o t) = 1..(Len(s) - 1)
  BY <1>5, LenProperties
<1> QED
  BY <1>4, <1>5, <1>6, <1>7

\* The list without a name is a list of different names, that one not among them.
LEMMA WithoutFacts ==
    ASSUME NEW n \in Resource, registered \in Seq(Resource), IsInjective(registered)
    PROVE  /\ Without(n) \in Seq(Resource) /\ IsInjective(Without(n))
           /\ \A i \in DOMAIN Without(n) : Without(n)[i] # n
<1>1. CASE \A i \in 1..Len(registered) : registered[i] # n
  <2>1. Without(n) = registered
    BY <1>1 DEF Without, RemoveFirst
  <2>2. DOMAIN registered = 1..Len(registered)
    BY LenProperties
  <2> QED
    BY <1>1, <2>1, <2>2
<1>2. CASE \E i \in 1..Len(registered) : registered[i] = n
  <2> DEFINE k == SelectInSeq(registered, LAMBDA v : v = n)
  <2>1. PICK i \in 1..Len(registered) : registered[i] = n
    BY <1>2
  <2>2. \A j \in 1..Len(registered) : registered[j] = n => j = i
    BY <2>1 DEF IsInjective
  <2>3. {j \in 1..Len(registered) : registered[j] = n} = {i}
    BY <2>1, <2>2
  <2>4. Min({i}) = i
    BY DEF Min
  <2>5. k = i
    BY <2>3, <2>4 DEF SelectInSeq
  <2> HIDE DEF k
  <2>6. Without(n) = RemoveAt(registered, i)
    BY <1>2, <2>5 DEF Without, RemoveFirst, k
  <2>7. /\ RemoveAt(registered, i) \in Seq(Resource)
        /\ Len(RemoveAt(registered, i)) = Len(registered) - 1
        /\ \A j \in DOMAIN RemoveAt(registered, i) :
             RemoveAt(registered, i)[j] = IF j < i THEN registered[j] ELSE registered[j + 1]
    BY <2>1, RemoveAtFacts
  <2> DEFINE w == RemoveAt(registered, i)
             at(j) == IF j < i THEN j ELSE j + 1
  <2>8. DOMAIN w = 1..(Len(registered) - 1) /\ Len(registered) \in Nat
    BY <2>7
  <2>9. \A j \in DOMAIN w : w[j] = registered[at(j)]
    BY <2>7
  <2> HIDE DEF w
  <2>10. \A j \in DOMAIN w : at(j) \in 1..Len(registered) /\ at(j) # i
    BY <2>1, <2>8
  <2>11. \A j, m \in DOMAIN w : j # m => at(j) # at(m)
    BY <2>1, <2>8
  <2> HIDE DEF at
  <2>12. \A j \in DOMAIN w : w[j] # n
    BY <2>2, <2>9, <2>10
  <2>13. IsInjective(w)
    BY <2>9, <2>10, <2>11, LenProperties DEF IsInjective
  <2> QED
    BY <2>6, <2>7, <2>12, <2>13 DEF w
<1> QED
  BY <1>1, <1>2

\* The last element, and what is before it.
LEMMA FrontFacts ==
    ASSUME NEW S, NEW s \in Seq(S), s # <<>>
    PROVE  /\ Len(s) \in DOMAIN s /\ Last(s) = s[Len(s)] /\ Last(s) \in S
           /\ Front(s) \in Seq(S) /\ Len(Front(s)) = Len(s) - 1
           /\ \A i \in DOMAIN Front(s) : i \in DOMAIN s /\ i < Len(s) /\ Front(s)[i] = s[i]
<1>1. Len(s) \in Nat /\ Len(s) > 0 /\ DOMAIN s = 1..Len(s)
  BY EmptySeq, LenProperties
<1>2. /\ Front(s) \in Seq(S) /\ Len(Front(s)) = Len(s) - 1
      /\ \A i \in 1..(Len(s) - 1) : Front(s)[i] = s[i]
  BY <1>1, SubSeqProperties DEF Front
<1> QED
  BY <1>1, <1>2, ElementOfSeq DEF Last

\* The list with one element more.
LEMMA AppendFacts ==
    ASSUME NEW S, NEW s \in Seq(S), NEW v \in S
    PROVE  /\ Append(s, v) \in Seq(S) /\ Len(Append(s, v)) = Len(s) + 1
           /\ DOMAIN Append(s, v) = (DOMAIN s) \cup {Len(s) + 1}
           /\ Append(s, v)[Len(s) + 1] = v /\ Len(s) + 1 \notin DOMAIN s
           /\ \A i \in DOMAIN s : Append(s, v)[i] = s[i]
<1>1. Len(s) \in Nat /\ DOMAIN s = 1..Len(s)
  BY LenProperties
<1>2. /\ Append(s, v) \in Seq(S) /\ Len(Append(s, v)) = Len(s) + 1
      /\ \A i \in 1..Len(s) : Append(s, v)[i] = s[i]
      /\ Append(s, v)[Len(s) + 1] = v
  BY AppendProperties
<1>3. DOMAIN Append(s, v) = 1..(Len(s) + 1)
  BY <1>2, LenProperties
<1> QED
  BY <1>1, <1>2, <1>3

\* The list without its first element.
LEMMA TailFacts ==
    ASSUME NEW S, NEW s \in Seq(S), s # <<>>
    PROVE  /\ 1 \in DOMAIN s /\ Head(s) = s[1] /\ Head(s) \in S
           /\ Tail(s) \in Seq(S)
           /\ \A i \in DOMAIN Tail(s) : i + 1 \in DOMAIN s /\ i + 1 # 1 /\ Tail(s)[i] = s[i + 1]
<1>1. Len(s) \in Nat /\ Len(s) > 0 /\ DOMAIN s = 1..Len(s)
  BY EmptySeq, LenProperties
<1>2. /\ Tail(s) \in Seq(S) /\ Len(Tail(s)) = Len(s) - 1
      /\ \A i \in 1..Len(Tail(s)) : Tail(s)[i] = s[i + 1]
  BY HeadTailProperties
<1>3. DOMAIN Tail(s) = 1..(Len(s) - 1)
  BY <1>2, LenProperties
<1> QED
  BY <1>1, <1>2, <1>3, ElementOfSeq

-----------------------------------------------------------------------------
(* The initial states, and one lemma for each kind of step.                *)

\* Registration changes the list of the next startup, and no loop under way.
LEMMA RegistersKeeps ==
    ASSUME NEW n \in Resource, IInv, AddResource(n) \/ RemoveResource(n)
    PROVE  IInv'
<1>i. TypeOK /\ Names /\ CalledOnce /\ Intact /\ Prefix /\ InCleanup /\ Listed
      /\ StateOpen /\ InUse /\ Reported /\ ReverseOrder /\ ReportsTruth
  BY DEF IInv
<1>u. UNCHANGED <<values, state, pc, todo, left, remaking, cleaning, broke, err, reply,
                  round, live, closings, retried, opened, trouble, gaveUp, using>>
  BY DEF AddResource, RemoveResource, taskVars, history
<1>w. /\ Without(n) \in Seq(Resource) /\ IsInjective(Without(n))
      /\ \A i \in DOMAIN Without(n) : Without(n)[i] # n
  BY <1>i, WithoutFacts DEF TypeOK
<1>a. Append(Without(n), n) \in Seq(Resource) /\ IsInjective(Append(Without(n), n))
  <2> DEFINE s == Without(n)
  <2> HIDE DEF s
  <2>1. /\ Append(s, n) \in Seq(Resource) /\ DOMAIN Append(s, n) = (DOMAIN s) \cup {Len(s) + 1}
        /\ Append(s, n)[Len(s) + 1] = n /\ \A i \in DOMAIN s : Append(s, n)[i] = s[i]
    BY <1>w, AppendFacts DEF s
  <2>2. IsInjective(s) /\ \A i \in DOMAIN s : s[i] # n
    BY <1>w DEF s
  <2>3. IsInjective(Append(s, n))
    BY <2>1, <2>2 DEF IsInjective
  <2> QED
    BY <2>1, <2>3 DEF s
<1>r. registered' \in Seq(Resource) /\ IsInjective(registered')
  BY <1>w, <1>a DEF AddResource, RemoveResource
<1>1. TypeOK'
  BY <1>i, <1>u, <1>r DEF TypeOK
<1>2. Names'
  BY <1>i, <1>u DEF Names
<1>3. CalledOnce'
  BY <1>i, <1>u DEF CalledOnce, ClosedOnce, Value
<1>4. Intact'
  BY <1>i, <1>u DEF Intact, Present, Unwinding, Value
<1>5. Prefix'
  BY <1>i, <1>u DEF Prefix, Present, Closed, Closable, Unwinding
<1>6. InCleanup'
  BY <1>i, <1>u DEF InCleanup, Unwinding
<1>7. Listed'
  BY <1>i, <1>u DEF Listed, Closed, Closable, Serving, Unwinding
<1>8. StateOpen'
  BY <1>i, <1>u DEF StateOpen, Value
<1>9. InUse'
  BY <1>i, <1>u DEF InUse, Serving
<1>10. Reported'
  BY <1>i, <1>u DEF Reported, Unwinding
<1>11. ReverseOrder'
  BY <1>i, <1>u DEF ReverseOrder, Closable
<1>12. ReportsTruth'
  BY <1>i, <1>u DEF ReportsTruth
<1> QED
  BY <1>1, <1>2, <1>3, <1>4, <1>5, <1>6, <1>7, <1>8, <1>9, <1>10, <1>11, <1>12 DEF IInv

\* The handlers' turn comes when all is open.
LEMMA OpenedKeeps ==
    ASSUME IInv, Opened
    PROVE  IInv'
<1>i. TypeOK /\ Names /\ CalledOnce /\ Intact /\ Prefix /\ InCleanup /\ Listed
      /\ StateOpen /\ InUse /\ Reported /\ ReverseOrder /\ ReportsTruth
  BY DEF IInv
<1>u. UNCHANGED <<registered, values, state, todo, remaking, cleaning, broke, err, reply,
                  round, live, closings, retried, opened, trouble, gaveUp, using>>
  BY DEF Opened, appVars, history
<1>1. TypeOK'
  BY <1>i, <1>u, Bounds DEF TypeOK, Value, Unwinding, Opened, appVars, history
<1>2. Names'
  BY <1>i, <1>u DEF Names, Opened, appVars, history
<1>3. CalledOnce'
  BY <1>i, <1>u DEF CalledOnce, ClosedOnce, Value
<1>4. Intact'
  BY <1>i, <1>u DEF Intact, Present, Unwinding, Value, Opened, appVars, history
<1>5. Prefix'
  BY <1>i, <1>u DEF Prefix, Present, Closed, Closable, Unwinding, Opened, appVars, history
<1>6. InCleanup'
  BY <1>i, <1>u DEF InCleanup, Unwinding, Opened, appVars, history
<1>7. Listed'
  BY <1>i, <1>u DEF Listed, Closed, Closable, Serving, Unwinding, Opened, appVars, history
<1>8. StateOpen'
  BY <1>i, <1>u DEF StateOpen, Value, Opened, appVars, history
<1>9. InUse'
  BY <1>i, <1>u DEF InUse, Serving, Opened, appVars, history
<1>10. Reported'
  BY <1>i, <1>u DEF Reported, Unwinding, Opened, appVars, history
<1>11. ReverseOrder'
  BY <1>i, <1>u DEF ReverseOrder, Closable
<1>12. ReportsTruth'
  BY <1>i, <1>u DEF ReportsTruth
<1> QED
  BY <1>1, <1>2, <1>3, <1>4, <1>5, <1>6, <1>7, <1>8, <1>9, <1>10, <1>11, <1>12 DEF IInv

\* Handlers that return change nothing but their number.
LEMMA ReturnsKeeps ==
    ASSUME IInv, StartHandlerReturns \/ StopHandlerReturns
    PROVE  IInv'
<1>i. TypeOK /\ Names /\ CalledOnce /\ Intact /\ Prefix /\ InCleanup /\ Listed
      /\ StateOpen /\ InUse /\ Reported /\ ReverseOrder /\ ReportsTruth
  BY DEF IInv
<1>u. UNCHANGED <<registered, values, state, pc, todo, remaking, cleaning, broke, err,
                  reply, round, live, closings, retried, opened, trouble, gaveUp, using>>
  BY DEF StartHandlerReturns, StopHandlerReturns, appVars, history
<1>1. TypeOK'
  <2>0. left \in Nat
    BY <1>i DEF TypeOK
  <2>1. left' \in Nat
    BY <2>0 DEF StartHandlerReturns, StopHandlerReturns
  <2> QED
    BY <2>1, <1>i, <1>u DEF TypeOK
<1>2. Names'
  BY <1>i, <1>u DEF Names
<1>3. CalledOnce'
  BY <1>i, <1>u DEF CalledOnce, ClosedOnce, Value
<1>4. Intact'
  BY <1>i, <1>u DEF Intact, Present, Unwinding, Value
<1>5. Prefix'
  BY <1>i, <1>u DEF Prefix, Present, Closed, Closable, Unwinding
<1>6. InCleanup'
  BY <1>i, <1>u DEF InCleanup, Unwinding
<1>7. Listed'
  BY <1>i, <1>u DEF Listed, Closed, Closable, Serving, Unwinding
<1>8. StateOpen'
  BY <1>i, <1>u DEF StateOpen, Value
<1>9. InUse'
  BY <1>i, <1>u DEF InUse, Serving
<1>10. Reported'
  BY <1>i, <1>u DEF Reported, Unwinding
<1>11. ReverseOrder'
  BY <1>i, <1>u DEF ReverseOrder, Closable
<1>12. ReportsTruth'
  BY <1>i, <1>u DEF ReportsTruth
<1> QED
  BY <1>1, <1>2, <1>3, <1>4, <1>5, <1>6, <1>7, <1>8, <1>9, <1>10, <1>11, <1>12 DEF IInv

\* The message that the startup is complete tells the truth.
LEMMA StartedKeeps ==
    ASSUME IInv, Started
    PROVE  IInv'
<1>i. TypeOK /\ Names /\ CalledOnce /\ Intact /\ Prefix /\ InCleanup /\ Listed
      /\ StateOpen /\ InUse /\ Reported /\ ReverseOrder /\ ReportsTruth
  BY DEF IInv
<1>u. UNCHANGED <<registered, values, state, todo, left, remaking, cleaning, broke, err,
                  round, live, closings, retried, opened, trouble, gaveUp, using>>
  BY DEF Started, appVars, history
<1>1. TypeOK'
  BY <1>i, <1>u DEF TypeOK, Value, Unwinding, Started, appVars, history
<1>2. Names'
  BY <1>i, <1>u DEF Names, Started, appVars, history
<1>3. CalledOnce'
  BY <1>i, <1>u DEF CalledOnce, ClosedOnce, Value
<1>4. Intact'
  BY <1>i, <1>u DEF Intact, Present, Unwinding, Value, Started, appVars, history
<1>5. Prefix'
  BY <1>i, <1>u DEF Prefix, Present, Closed, Closable, Unwinding, Started, appVars, history
<1>6. InCleanup'
  BY <1>i, <1>u DEF InCleanup, Unwinding, Started, appVars, history
<1>7. Listed'
  BY <1>i, <1>u DEF Listed, Closed, Closable, Serving, Unwinding, Started, appVars, history
<1>8. StateOpen'
  BY <1>i, <1>u DEF StateOpen, Value, Started, appVars, history
<1>9. InUse'
  BY <1>i, <1>u DEF InUse, Serving, Started, appVars, history
<1>10. Reported'
  BY <1>i, <1>u DEF Reported, Unwinding, Started, appVars, history
<1>11. ReverseOrder'
  BY <1>i, <1>u DEF ReverseOrder, Closable
<1>12. ReportsTruth'
  <2>1. ~trouble
    BY <1>i DEF Reported, Started
  <2>2. reply' = "started"
    BY DEF Started
  <2>3. ~trouble'
    BY <2>1, <1>u
  <2> QED
    BY <2>2, <2>3 DEF ReportsTruth
<1> QED
  BY <1>1, <1>2, <1>3, <1>4, <1>5, <1>6, <1>7, <1>8, <1>9, <1>10, <1>11, <1>12 DEF IInv

\* A shutdown begins with what the startup left.
LEMMA ShutdownKeeps ==
    ASSUME IInv, Shutdown
    PROVE  IInv'
<1>i. TypeOK /\ Names /\ CalledOnce /\ Intact /\ Prefix /\ InCleanup /\ Listed
      /\ StateOpen /\ InUse /\ Reported /\ ReverseOrder /\ ReportsTruth
  BY DEF IInv
<1>u. UNCHANGED <<registered, values, state, todo, left, remaking, cleaning, broke, round,
                  live, closings, retried, opened, using>>
  BY DEF Shutdown, appVars
<1>1. TypeOK'
  BY <1>i, <1>u DEF TypeOK, Value, Unwinding, Shutdown, appVars
<1>2. Names'
  BY <1>i, <1>u DEF Names, Shutdown, appVars
<1>3. CalledOnce'
  BY <1>i, <1>u DEF CalledOnce, ClosedOnce, Value
<1>4. Intact'
  BY <1>i, <1>u DEF Intact, Present, Unwinding, Value, Shutdown, appVars
<1>5. Prefix'
  BY <1>i, <1>u DEF Prefix, Present, Closed, Closable, Unwinding, Shutdown, appVars
<1>6. InCleanup'
  BY <1>i, <1>u DEF InCleanup, Unwinding, Shutdown, appVars
<1>7. Listed'
  BY <1>i, <1>u DEF Listed, Closed, Closable, Serving, Unwinding, Shutdown, appVars
<1>8. StateOpen'
  BY <1>i, <1>u DEF StateOpen, Value, Shutdown, appVars
<1>9. InUse'
  BY <1>i, <1>u DEF InUse, Serving, Shutdown, appVars
<1>10. Reported'
  BY <1>i, <1>u DEF Reported, Unwinding, Shutdown, appVars
<1>11. ReverseOrder'
  BY <1>i, <1>u DEF ReverseOrder, Closable
<1>12. ReportsTruth'
  BY NoneIsApart DEF ReportsTruth, Shutdown
<1> QED
  BY <1>1, <1>2, <1>3, <1>4, <1>5, <1>6, <1>7, <1>8, <1>9, <1>10, <1>11, <1>12 DEF IInv

\* The drain ends with no request, or gives up.
LEMMA DrainedKeeps ==
    ASSUME IInv, Drained
    PROVE  IInv'
<1>i. TypeOK /\ Names /\ CalledOnce /\ Intact /\ Prefix /\ InCleanup /\ Listed
      /\ StateOpen /\ InUse /\ Reported /\ ReverseOrder /\ ReportsTruth
  BY DEF IInv
<1>u. UNCHANGED <<registered, values, state, todo, remaking, cleaning, broke, err, reply,
                  round, live, closings, retried, opened, trouble, using>>
  BY DEF Drained, appVars
<1>1. TypeOK'
  <2>1. left' \in Nat /\ gaveUp' \in BOOLEAN /\ pc' = "stopping" /\ pc = "draining"
    BY Bounds DEF Drained
  <2> QED
    BY <2>1, <1>i, <1>u DEF TypeOK, Unwinding
<1>2. Names'
  BY <1>i, <1>u DEF Names, Drained, appVars
<1>3. CalledOnce'
  BY <1>i, <1>u DEF CalledOnce, ClosedOnce, Value
<1>4. Intact'
  BY <1>i, <1>u DEF Intact, Present, Unwinding, Value, Drained, appVars
<1>5. Prefix'
  BY <1>i, <1>u DEF Prefix, Present, Closed, Closable, Unwinding, Drained, appVars
<1>6. InCleanup'
  BY <1>i, <1>u DEF InCleanup, Unwinding, Drained, appVars
<1>7. Listed'
  BY <1>i, <1>u DEF Listed, Closed, Closable, Serving, Unwinding, Drained, appVars
<1>8. StateOpen'
  BY <1>i, <1>u DEF StateOpen, Value, Drained, appVars
<1>9. InUse'
  BY <1>i, <1>u DEF InUse, Serving, Drained, appVars
<1>10. Reported'
  BY <1>i, <1>u DEF Reported, Unwinding, Drained, appVars
<1>11. ReverseOrder'
  BY <1>i, <1>u DEF ReverseOrder, Closable
<1>12. ReportsTruth'
  BY <1>i, <1>u DEF ReportsTruth
<1> QED
  BY <1>1, <1>2, <1>3, <1>4, <1>5, <1>6, <1>7, <1>8, <1>9, <1>10, <1>11, <1>12 DEF IInv

\* Whatever leaves the loops without a word leaves what they did.
LEMMA ExitKeeps ==
    ASSUME IInv, Exit
    PROVE  IInv'
<1>i. TypeOK /\ Names /\ CalledOnce /\ Intact /\ Prefix /\ InCleanup /\ Listed
      /\ StateOpen /\ InUse /\ Reported /\ ReverseOrder /\ ReportsTruth
  BY DEF IInv
<1>u. UNCHANGED <<registered, values, state, todo, left, broke, err, reply, round, live,
                  closings, retried, opened, trouble, gaveUp, using>>
  BY DEF Exit, appVars, history
<1>a. pc # "idle" /\ pc # "draining" /\ pc' = "gone"
  BY <1>i DEF Exit, InCleanup, Unwinding
<1>b. reply' = None
  BY <1>a, <1>i, <1>u DEF Reported
<1>1. TypeOK'
  BY <1>i, <1>u DEF TypeOK, Value, Unwinding, Exit, appVars, history
<1>2. Names'
  BY <1>i, <1>u DEF Names, Exit, appVars, history
<1>3. CalledOnce'
  BY <1>i, <1>u DEF CalledOnce, ClosedOnce, Value
<1>4. Intact'
  BY <1>i, <1>u DEF Intact, Present, Unwinding, Value, Exit, appVars, history
<1>5. Prefix'
  BY <1>i, <1>u DEF Prefix, Present, Closed, Closable, Unwinding, Exit, appVars, history
<1>6. InCleanup'
  BY <1>i, <1>u DEF InCleanup, Unwinding, Exit, appVars, history
<1>7. Listed'
  BY <1>i, <1>u DEF Listed, Closed, Closable, Serving, Unwinding, Exit, appVars, history
<1>8. StateOpen'
  BY <1>i, <1>u DEF StateOpen, Value, Exit, appVars, history
<1>9. InUse'
  <2>1. \A r \in Request : using[r] # None => gaveUp
    BY <1>i, <1>a DEF InUse, Serving
  <2>2. gaveUp' = gaveUp /\ using' = using
    BY <1>u
  <2> QED
    BY <2>1, <2>2, <1>a DEF InUse, Serving
<1>10. Reported'
  BY <1>a, <1>b DEF Reported
<1>11. ReverseOrder'
  BY <1>i, <1>u DEF ReverseOrder, Closable
<1>12. ReportsTruth'
  BY <1>i, <1>u DEF ReportsTruth
<1> QED
  BY <1>1, <1>2, <1>3, <1>4, <1>5, <1>6, <1>7, <1>8, <1>9, <1>10, <1>11, <1>12 DEF IInv

\* While resources are closed the list is that of this startup, and the last
\* value left shares its name with no other.
LEMMA LastLeft ==
    ASSUME IInv, pc \in Unwinding, todo # <<>>
    PROVE  /\ values = opened /\ values \in Seq(Value) /\ Len(todo) \in DOMAIN values
           /\ values[Len(todo)] = Last(todo) /\ Last(todo) \in Value
           /\ Len(todo) \in DOMAIN todo /\ todo[Len(todo)] = Last(todo)
           /\ Last(todo)[1] \in Resource /\ Last(todo)[2] = round /\ round \in Nat
           /\ Len(todo) \in Nat /\ DOMAIN todo = 1..Len(todo)
           /\ \A i \in DOMAIN values : i \in Nat
           /\ \A i \in DOMAIN values : values[i] \in Value /\ values[i][1] \in Resource
           /\ \A i \in DOMAIN values :
                i # Len(todo) => values[i][1] # Last(todo)[1] /\ values[i] # Last(todo)
           /\ \A i \in DOMAIN todo : todo[i] = values[i] /\ i \in DOMAIN values
           /\ \A i \in DOMAIN todo : i # Len(todo) => Present(todo[i])
           /\ \A i \in DOMAIN values : i > Len(todo) => Closed(values[i])
           /\ todo \in Seq(Value)
<1> DEFINE v == Last(todo)
           L == Len(todo)
<1>i. Names /\ Prefix /\ Listed /\ TypeOK
  BY DEF IInv
<1>b. /\ values = opened /\ values \in Seq(Value) /\ L \in DOMAIN values
      /\ values[L] = v /\ v \in Value
      /\ L \in DOMAIN todo /\ todo[L] = v
      /\ v[1] \in Resource /\ v[2] = round /\ round \in Nat /\ L \in Nat /\ DOMAIN todo = 1..L
      /\ \A i \in DOMAIN values : i \in Nat
  <2>1. todo \in Seq(Value) /\ L <= Len(values) /\ \A i \in DOMAIN todo : todo[i] = values[i]
    BY <1>i DEF Prefix
  <2>2. values \in Seq(Value) /\ round \in 0..MaxRounds /\ MaxRounds \in Nat
    BY <1>i, Bounds DEF TypeOK
  <2>3. L \in DOMAIN todo /\ v = todo[L] /\ v \in Value /\ L > 0 /\ L \in Nat /\ DOMAIN todo = 1..L
    BY <2>1, FrontFacts, LenProperties, EmptySeq
  <2>4. /\ L \in DOMAIN values /\ L \in 1..Len(values)
        /\ Len(values) \in Nat /\ DOMAIN values = 1..Len(values)
    BY <2>1, <2>2, <2>3, LenProperties
  <2>5. values # <<>>
    BY <2>4
  <2>6. values = opened
    BY <2>5, <1>i DEF Listed
  <2>7. v[2] = round
    BY <2>1, <2>3, <2>4, <2>6, <1>i DEF Names
  <2>8. v[1] \in Resource
    BY <2>3 DEF Value
  <2>9. round \in Nat /\ \A i \in DOMAIN values : i \in Nat
    BY <2>2, <2>4
  <2> QED
    BY <2>1, <2>2, <2>3, <2>4, <2>6, <2>7, <2>8, <2>9
<1>c. /\ \A i \in DOMAIN values : values[i] \in Value /\ values[i][1] \in Resource
      /\ \A i \in DOMAIN values : i # L => values[i][1] # v[1] /\ values[i] # v
  <2>1. \A i \in DOMAIN values : values[i] \in Value
    BY <1>b, ElementOfSeq
  <2>2. \A i \in DOMAIN values : i # L => values[i][1] # v[1]
    BY <1>b, <1>i DEF Names
  <2> QED
    BY <2>1, <2>2 DEF Value
<1>d. /\ \A i \in DOMAIN todo : todo[i] = values[i] /\ i \in DOMAIN values
      /\ \A i \in DOMAIN todo : i # L => Present(todo[i])
      /\ \A i \in DOMAIN values : i > L => Closed(values[i])
      /\ todo \in Seq(Value)
  <2>1. /\ \A i \in DOMAIN todo : todo[i] = values[i] /\ L <= Len(values)
        /\ \A i \in DOMAIN todo : i # L => Present(todo[i])
        /\ \A i \in DOMAIN values : i > L => Closed(values[i])
        /\ todo \in Seq(Value)
    BY <1>i DEF Prefix
  <2>2. \A i \in DOMAIN todo : i \in DOMAIN values
    BY <2>1, <1>b, LenProperties
  <2> QED
    BY <2>1, <2>2
<1> QED
  BY <1>b, <1>c, <1>d

\* A second call of a factory opens nothing yet.
LEMMA RemakeKeeps ==
    ASSUME IInv, FactoryAgain
    PROVE  IInv'
<1>i. TypeOK /\ Names /\ CalledOnce /\ Intact /\ Prefix /\ InCleanup /\ Listed
      /\ StateOpen /\ InUse /\ Reported /\ ReverseOrder /\ ReportsTruth
  BY DEF IInv
<1>u. UNCHANGED <<registered, values, state, pc, todo, left, cleaning, broke, err, reply,
                  round, live, closings, retried, opened, trouble, gaveUp, using>>
  BY DEF FactoryAgain, appVars, history
<1>1. TypeOK' /\ Names' /\ CalledOnce' /\ InCleanup'
  <2>1. remaking' = TRUE
    BY DEF FactoryAgain
  <2>2. TypeOK'
    BY <2>1, <1>i, <1>u DEF TypeOK
  <2>3. Names'
    BY <1>i, <1>u DEF Names
  <2>4. CalledOnce'
    BY <1>i, <1>u DEF CalledOnce, ClosedOnce
  <2>5. InCleanup'
    BY <1>i, <1>u DEF InCleanup
  <2> QED
    BY <2>2, <2>3, <2>4, <2>5
<1>2. Intact' /\ Prefix' /\ Listed' /\ StateOpen'
  BY <1>i, <1>u DEF Intact, Prefix, Listed, StateOpen, Present, Closed, Closable, Serving
<1>3. InUse' /\ Reported' /\ ReverseOrder' /\ ReportsTruth'
  BY <1>i, <1>u DEF InUse, Reported, ReverseOrder, ReportsTruth, Closable, Serving
<1> QED
  BY <1>1, <1>2, <1>3 DEF IInv

\* The second call of a cleanup is of one called once, and closes nothing else.
LEMMA AgainKeeps ==
    ASSUME IInv, CallCleanupAgain
    PROVE  IInv'
<1>i. TypeOK /\ Names /\ CalledOnce /\ Intact /\ Prefix /\ InCleanup /\ Listed
      /\ StateOpen /\ InUse /\ Reported /\ ReverseOrder /\ ReportsTruth
  BY DEF IInv
<1>u. UNCHANGED <<registered, values, state, pc, todo, left, remaking, broke, err, reply,
                  round, live, opened, trouble, gaveUp, using>>
  BY DEF CallCleanupAgain, appVars
<1> DEFINE v == Last(todo)
           L == Len(todo)
<1>a. /\ cleaning = "first" /\ cleaning' = "second" /\ pc \in Unwinding /\ todo # <<>>
      /\ closings' = [closings EXCEPT ![v] = @ + 1] /\ retried' = retried \cup {v}
  BY <1>i DEF CallCleanupAgain, InCleanup
<1>b. /\ values = opened /\ v \in Value /\ L \in DOMAIN values /\ values[L] = v
      /\ \A i \in DOMAIN values : i # L => values[i] \in Value /\ values[i] # v
      /\ \A i \in DOMAIN todo : i \in DOMAIN values /\ todo[i] = values[i]
  BY <1>a, LastLeft
<1>c. closings \in [Value -> Nat] /\ closings[v] = 1
  BY <1>a, <1>i DEF TypeOK, InCleanup
<1> HIDE DEF v, L
<1>d. /\ closings' \in [Value -> Nat] /\ closings'[v] = 2
      /\ \A w \in Value \ {v} : closings'[w] = closings[w]
  BY <1>a, <1>b, <1>c
<1>1. TypeOK'
  <2>1. retried' \subseteq Value
    BY <1>a, <1>b, <1>i DEF TypeOK
  <2> QED
    BY <2>1, <1>a, <1>d, <1>i, <1>u DEF TypeOK
<1>2. Names'
  BY <1>i, <1>u DEF Names
<1>3. CalledOnce'
  <2>1. ClosedOnce'
    BY <1>a, <1>b, <1>d, <1>i DEF CalledOnce, ClosedOnce
  <2>2. \A w \in retried' : closings'[w] > 0
    <3>1. \A w \in retried : w \in Value /\ closings[w] > 0
      BY <1>i DEF CalledOnce, TypeOK
    <3> QED
      BY <3>1, <1>a, <1>b, <1>d
  <2>3. \A w \in Value : closings'[w] > 0 => closings[w] > 0
    BY <1>c, <1>d
  <2> QED
    BY <2>1, <2>2, <2>3, <1>i, <1>u DEF CalledOnce
<1>4. Intact'
  BY <1>a, <1>u DEF Intact
<1>5. Prefix'
  <2>1. /\ todo \in Seq(Value) /\ L <= Len(values)
        /\ \A i \in DOMAIN todo : todo[i] = values[i]
        /\ \A i \in DOMAIN todo : i # L => Present(todo[i])
        /\ \A i \in DOMAIN values : i > L => Closed(values[i])
    BY <1>a, <1>i DEF Prefix, L
  <2>2. \A i \in DOMAIN todo : i # L => Present(todo[i])'
    BY <2>1, <1>b, <1>d, <1>u, SMTT(60) DEF Present
  <2>3. \A i \in DOMAIN values : i > L => Closed(values[i])'
    BY <2>1, <1>u DEF Closed, Closable
  <2> QED
    BY <2>1, <2>2, <2>3, <1>a, <1>u DEF Prefix, L
<1>6. InCleanup'
  BY <1>a, <1>i, <1>u DEF InCleanup
<1>7. Listed'
  BY <1>i, <1>u DEF Listed, Closed, Closable, Serving, Unwinding
<1>8. StateOpen'
  BY <1>a, <1>i, <1>u DEF StateOpen
<1>9. InUse'
  BY <1>i, <1>u DEF InUse, Serving
<1>10. Reported'
  BY <1>i, <1>u DEF Reported, Unwinding
<1>11. ReverseOrder'
  BY <1>i, <1>u DEF ReverseOrder, Closable
<1>12. ReportsTruth'
  BY <1>i, <1>u DEF ReportsTruth
<1> QED
  BY <1>1, <1>2, <1>3, <1>4, <1>5, <1>6, <1>7, <1>8, <1>9, <1>10, <1>11, <1>12 DEF IInv

\* Requests come while everything is open, look it up and leave.
LEMMA RequestKeeps ==
    ASSUME NEW r \in Request, IInv, Arrive(r) \/ LookUp(r) \/ Leave(r)
    PROVE  IInv'
<1>i. TypeOK /\ Names /\ CalledOnce /\ Intact /\ Prefix /\ InCleanup /\ Listed
      /\ StateOpen /\ InUse /\ Reported /\ ReverseOrder /\ ReportsTruth
  BY DEF IInv
<1>u. UNCHANGED <<registered, values, state, pc, todo, left, remaking, cleaning, broke, err,
                  reply, round, live, closings, retried, opened, trouble, gaveUp>>
  BY DEF Arrive, LookUp, Leave, appVars, taskVars, history
<1>a. \A n \in Resource : state[n] \in Value \cup {None}
  BY <1>i DEF TypeOK
<1>b. using \in [Request -> (SUBSET Value) \cup {None}]
  BY <1>i DEF TypeOK
<1>c. using' \in [Request -> (SUBSET Value) \cup {None}]
  BY <1>a, <1>b DEF Arrive, LookUp, Leave
<1>d. \A q \in Request \ {r} : using'[q] = using[q]
  BY <1>b DEF Arrive, LookUp, Leave
<1>1. TypeOK'
  BY <1>c, <1>i, <1>u DEF TypeOK
<1>2. Names'
  BY <1>i, <1>u DEF Names
<1>3. CalledOnce'
  BY <1>i, <1>u DEF CalledOnce, ClosedOnce, Value
<1>4. Intact'
  BY <1>i, <1>u DEF Intact, Present, Unwinding, Value
<1>5. Prefix'
  BY <1>i, <1>u DEF Prefix, Present, Closed, Closable, Unwinding
<1>6. InCleanup'
  BY <1>i, <1>u DEF InCleanup, Unwinding
<1>7. Listed'
  BY <1>i, <1>u DEF Listed, Closed, Closable, Serving, Unwinding
<1>8. StateOpen'
  BY <1>i, <1>u DEF StateOpen, Value
<1>9. InUse'
  <2> DEFINE Safe(v) == v[1] \in HasCleanup => v \in live
  <2>1. CASE Arrive(r)
    <3>1. using'[r] = {} /\ Serving
      BY <2>1, <1>b DEF Arrive
    <3> QED
      BY <3>1, <1>i, <1>u, <1>d DEF InUse, Serving
  <2>2. CASE LookUp(r)
    <3>1. PICK n \in Resource : state[n] # None /\ using'[r] = using[r] \cup {state[n]}
      BY <2>2, <1>b DEF LookUp
    <3>2. using[r] # None
      BY <2>2 DEF LookUp
    <3>3. state[n][1] = n
      BY <3>1, <1>i DEF StateOpen
    <3>4. Serving \/ pc = "draining" => cleaning = "no" /\ pc # "gone"
      BY <1>i DEF InCleanup, Serving, Unwinding
    <3>5. Serving \/ pc = "draining" => Safe(state[n])
      BY <3>1, <3>3, <3>4, <1>i DEF StateOpen
    <3> QED
      BY <3>1, <3>2, <3>5, <1>i, <1>u, <1>d DEF InUse, Serving
  <2>3. CASE Leave(r)
    <3>1. using'[r] = None
      BY <2>3, <1>b DEF Leave
    <3>2. \A q \in Request : using'[q] # None => using'[q] = using[q] /\ using[q] # None
      BY <3>1, <1>d
    <3>3. \A q \in Request : using[q] = None => using'[q] = None
      BY <3>1, <1>d
    <3> QED
      BY <3>2, <3>3, <1>i, <1>u DEF InUse, Serving
  <2> QED
    BY <2>1, <2>2, <2>3
<1>10. Reported'
  BY <1>i, <1>u DEF Reported, Unwinding
<1>11. ReverseOrder'
  BY <1>i, <1>u DEF ReverseOrder, Closable
<1>12. ReportsTruth'
  BY <1>i, <1>u DEF ReportsTruth
<1> QED
  BY <1>1, <1>2, <1>3, <1>4, <1>5, <1>6, <1>7, <1>8, <1>9, <1>10, <1>11, <1>12 DEF IInv

\* A loop of cleanups begins with all of the list before it.
LEMMA UnwindKeeps ==
    ASSUME IInv, FactoryRaises \/ StartHandlerRaises \/ StopHandlerRaises \/ StopHandlersDone
    PROVE  IInv'
<1>i. TypeOK /\ Names /\ CalledOnce /\ Intact /\ Prefix /\ InCleanup /\ Listed
      /\ StateOpen /\ InUse /\ Reported /\ ReverseOrder /\ ReportsTruth
  BY DEF IInv
<1>u. UNCHANGED <<registered, values, state, left, cleaning, reply, round, live, closings,
                  retried, opened, gaveUp, using>>
  BY DEF FactoryRaises, StartHandlerRaises, StopHandlerRaises, StopHandlersDone, Unwind,
     appVars
<1>a. /\ todo' = values /\ cleaning = "no"
      /\ pc \notin Unwinding \cup {"gone", "idle"} /\ pc' \in Unwinding
  BY <1>i DEF FactoryRaises, StartHandlerRaises, StopHandlerRaises, StopHandlersDone,
     Unwind, InCleanup, Unwinding
<1>b. values \in Seq(Value) /\ DOMAIN values = 1..Len(values) /\ Len(values) \in Nat
  BY <1>i, LenProperties DEF TypeOK
<1>c. reply' = None
  BY <1>a, <1>i, <1>u DEF Reported
<1>1. TypeOK'
  BY <1>i, <1>u DEF TypeOK, Value, Unwinding, FactoryRaises, StartHandlerRaises,
     StopHandlerRaises, StopHandlersDone, Unwind, appVars
<1>2. Names'
  BY <1>i, <1>u DEF Names, FactoryRaises, StartHandlerRaises, StopHandlerRaises,
     StopHandlersDone, Unwind, appVars
<1>3. CalledOnce'
  BY <1>i, <1>u DEF CalledOnce, ClosedOnce, Value
<1>4. Intact'
  BY <1>i, <1>u DEF Intact, Present, Unwinding, Value, FactoryRaises, StartHandlerRaises,
     StopHandlerRaises, StopHandlersDone, Unwind, appVars
<1>5. Prefix'
  <2>1. \A i \in DOMAIN values : Present(values[i])
    BY <1>a, <1>i DEF Intact
  <2>2. \A i \in DOMAIN values : Present(values[i])'
    BY <2>1, <1>u DEF Present
  <2> QED
    BY <2>2, <1>a, <1>b, <1>u DEF Prefix
<1>6. InCleanup'
  BY <1>i, <1>u DEF InCleanup, Unwinding, FactoryRaises, StartHandlerRaises,
     StopHandlerRaises, StopHandlersDone, Unwind, appVars
<1>7. Listed'
  BY <1>i, <1>u DEF Listed, Closed, Closable, Serving, Unwinding, FactoryRaises,
     StartHandlerRaises, StopHandlerRaises, StopHandlersDone, Unwind, appVars
<1>8. StateOpen'
  BY <1>a, <1>i, <1>u DEF StateOpen, Unwinding
<1>9. InUse'
  BY <1>i, <1>u DEF InUse, Serving, FactoryRaises, StartHandlerRaises, StopHandlerRaises,
     StopHandlersDone, Unwind, appVars
<1>10. Reported'
  <2>1. CASE FactoryRaises \/ StartHandlerRaises
    BY <2>1, <1>c DEF Reported, FactoryRaises, StartHandlerRaises, Unwind
  <2>2. CASE StopHandlerRaises
    BY <2>2, <1>c, NoneIsApart DEF Reported, StopHandlerRaises, Unwind
  <2>3. CASE StopHandlersDone
    <3>1. pc' = "closing" /\ err' = None /\ broke' = FALSE /\ ~trouble /\ trouble' = trouble
      BY <2>3, <1>i DEF Reported, StopHandlersDone, Unwind
    <3>2. ~trouble'
      BY <3>1
    <3>3. ~(err' # None \/ broke')
      BY <3>1
    <3> QED
      BY <3>1, <3>2, <3>3, <1>c DEF Reported
  <2> QED
    BY <2>1, <2>2, <2>3
<1>11. ReverseOrder'
  BY <1>i, <1>u DEF ReverseOrder, Closable
<1>12. ReportsTruth'
  BY <1>c, NoneIsApart DEF ReportsTruth
<1> QED
  BY <1>1, <1>2, <1>3, <1>4, <1>5, <1>6, <1>7, <1>8, <1>9, <1>10, <1>11, <1>12 DEF IInv

\* A startup begins with nothing opened under its number.
LEMMA StartupKeeps ==
    ASSUME IInv, Startup
    PROVE  IInv'
<1>i. TypeOK /\ Names /\ CalledOnce /\ Intact /\ Prefix /\ InCleanup /\ Listed
      /\ StateOpen /\ InUse /\ Reported /\ ReverseOrder /\ ReportsTruth
  BY DEF IInv
<1>u. UNCHANGED <<registered, state, left, remaking, cleaning, broke, live, closings,
                  retried, gaveUp, using>>
  BY DEF Startup
<1>a. /\ pc = "idle" /\ round < MaxRounds /\ round' = round + 1 /\ values' = <<>> /\ opened' = <<>>
      /\ pc' = "opening" /\ todo' = registered /\ reply' = None /\ trouble' = FALSE /\ err' = None
      /\ \A r \in Request : using[r] = None
  BY DEF Startup
<1>b. cleaning = "no"
  BY <1>a, <1>i DEF InCleanup, Unwinding
<1>c. round \in Nat /\ MaxRounds \in Nat /\ round' \in 0..MaxRounds /\ round' > 0
  <2>1. round \in 0..MaxRounds
    BY <1>i DEF TypeOK
  <2>2. MaxRounds \in Nat
    BY Bounds
  <2> QED
    BY <1>a, <2>1, <2>2
<1>e. DOMAIN opened' = {} /\ DOMAIN values' = {}
  BY <1>a
<1>1. TypeOK'
  <2>1. values' \in Seq(Value) /\ opened' \in Seq(Value)
    BY <1>a
  <2>2. todo' \in Seq(Resource)
    BY <1>a, <1>i DEF TypeOK
  <2>3. trouble' \in BOOLEAN
    BY <1>a
  <2> QED
    BY <2>1, <2>2, <2>3, <1>a, <1>c, <1>i, <1>u DEF TypeOK
<1>2. Names'
  BY <1>a, <1>c, <1>e, <1>i DEF Names, TypeOK
<1>3. CalledOnce'
  <2>1. \A v \in Value : closings[v] > 0 => v[2] <= round
    BY <1>i DEF CalledOnce
  <2>3. ClosedOnce' /\ \A v \in retried' : closings'[v] > 0
    BY <1>i, <1>u DEF CalledOnce, ClosedOnce, Value
  <2>2. \A v \in Value : v[2] \in Nat
    BY DEF Value
  <2> QED
    BY <2>1, <2>2, <2>3, <1>a, <1>c, <1>u DEF CalledOnce
<1>4. Intact'
  BY <1>e DEF Intact
<1>5. Prefix'
  BY <1>a DEF Prefix, Unwinding
<1>6. InCleanup'
  BY <1>b, <1>u DEF InCleanup
<1>7. Listed'
  BY <1>a, <1>e DEF Listed, Serving
<1>8. StateOpen'
  BY <1>a, <1>b, <1>i, <1>u DEF StateOpen
<1>9. InUse'
  BY <1>a, <1>u DEF InUse, Serving
<1>10. Reported'
  BY <1>a DEF Reported
<1>11. ReverseOrder'
  BY <1>e DEF ReverseOrder
<1>12. ReportsTruth'
  BY <1>a, NoneIsApart DEF ReportsTruth
<1> QED
  BY <1>1, <1>2, <1>3, <1>4, <1>5, <1>6, <1>7, <1>8, <1>9, <1>10, <1>11, <1>12 DEF IInv

\* What a factory returns is new, listed last, and in app.state under its name.
LEMMA OpenKeeps ==
    ASSUME IInv, Open
    PROVE  IInv'
<1>i. TypeOK /\ Names /\ CalledOnce /\ Intact /\ Prefix /\ InCleanup /\ Listed
      /\ StateOpen /\ InUse /\ Reported /\ ReverseOrder /\ ReportsTruth
  BY DEF IInv
<1>u. UNCHANGED <<registered, pc, left, cleaning, broke, err, reply, round, closings,
                  retried, trouble, gaveUp, using>>
  BY DEF Open
<1> DEFINE n == Head(todo)
           v == <<n, round>>
           k == Len(opened) + 1
<1>a. /\ pc = "opening" /\ todo # <<>> /\ values = opened /\ todo' = Tail(todo)
      /\ live' = live \cup {v}
  BY <1>i DEF Open, Listed
<1>b. /\ todo \in Seq(Resource) /\ opened \in Seq(Value) /\ round > 0 /\ round \in 1..MaxRounds
      /\ state \in [Resource -> Value \cup {None}]
  <2>1. todo \in Seq(Resource) /\ opened \in Seq(Value) /\ state \in [Resource -> Value \cup {None}]
    BY <1>a, <1>i DEF TypeOK
  <2>2. round > 0 /\ round \in 0..MaxRounds
    BY <1>a, <1>i DEF TypeOK, Names
  <2>3. MaxRounds \in Nat
    BY Bounds
  <2> QED
    BY <2>1, <2>2, <2>3
<1>c. /\ 1 \in DOMAIN todo /\ n = todo[1] /\ n \in Resource /\ Tail(todo) \in Seq(Resource)
      /\ \A i \in DOMAIN Tail(todo) :
           i + 1 \in DOMAIN todo /\ i + 1 # 1 /\ Tail(todo)[i] = todo[i + 1]
  BY <1>a, <1>b, TailFacts
<1>d. v \in Value
  BY <1>b, <1>c DEF Value
<1>e. /\ values' = opened' /\ opened' \in Seq(Value) /\ DOMAIN opened' = (DOMAIN opened) \cup {k}
      /\ opened'[k] = v /\ k \notin DOMAIN opened /\ \A i \in DOMAIN opened : opened'[i] = opened[i]
  <2>1. values' = Append(opened, v) /\ opened' = Append(opened, v)
    BY <1>a DEF Open
  <2> HIDE DEF n, v
  <2>2. /\ Append(opened, v) \in Seq(Value) /\ DOMAIN Append(opened, v) = (DOMAIN opened) \cup {k}
        /\ Append(opened, v)[k] = v /\ k \notin DOMAIN opened
        /\ \A i \in DOMAIN opened : Append(opened, v)[i] = opened[i]
    BY <1>b, <1>d, AppendFacts
  <2> QED
    BY <2>1, <2>2
<1>f. /\ state'[n] = v /\ state' \in [Resource -> Value \cup {None}]
      /\ \A m \in Resource \ {n} : state'[m] = state[m]
  BY <1>b, <1>c, <1>d DEF Open
<1>g. \A j \in DOMAIN opened : opened[j][1] # n /\ opened[j] \in Value /\ opened[j][1] \in Resource
  <2>1. \A j \in DOMAIN opened : opened[j][1] # n
    BY <1>a, <1>c, <1>i DEF Names
  <2>2. \A j \in DOMAIN opened : opened[j] \in Value
    BY <1>b, ElementOfSeq
  <2> QED
    BY <2>1, <2>2 DEF Value
<1>h. closings[v] = 0
  <2>1. closings[v] \in Nat
    BY <1>d, <1>i DEF TypeOK
  <2>2. CASE closings[v] > 0
    <3>1. v[2] = round
      OBVIOUS
    <3>2. v \in Range(opened)
      BY <2>2, <3>1, <1>d, <1>i DEF CalledOnce
    <3>3. PICK j \in DOMAIN opened : opened[j] = v
      BY <3>2 DEF Range
    <3> QED
      BY <3>3, <1>g
  <2> QED
    BY <2>1, <2>2
<1>l. cleaning = "no"
  BY <1>a, <1>i DEF InCleanup, Unwinding
<1> HIDE DEF k
<1>1. TypeOK'
  <2>1. live' \subseteq Value /\ remaking' \in BOOLEAN
    BY <1>a, <1>d, <1>i DEF TypeOK, Open
  <2> QED
    BY <2>1, <1>a, <1>c, <1>e, <1>f, <1>i, <1>u DEF TypeOK
<1>2. Names'
  <2>1. \A i \in DOMAIN opened' : opened'[i][2] = round'
    BY <1>e, <1>i, <1>u DEF Names
  <2>2. \A i, j \in DOMAIN opened' : i # j => opened'[i][1] # opened'[j][1]
    BY <1>e, <1>g, <1>i DEF Names
  <2>3. IsInjective(todo')
    <3>1. \A i, j \in DOMAIN todo : todo[i] = todo[j] => i = j
      BY <1>a, <1>i DEF Names, IsInjective
    <3>2. \A i \in DOMAIN Tail(todo) : i \in Nat
      BY <1>c, LenProperties
    <3> QED
      BY <3>1, <3>2, <1>a, <1>c DEF IsInjective
  <2>4. \A i \in DOMAIN todo', j \in DOMAIN opened' : todo'[i] # opened'[j][1]
    <3>1. \A i \in DOMAIN todo' : todo'[i] # n
      BY <1>a, <1>c, <1>i DEF Names, IsInjective
    <3>2. \A i \in DOMAIN todo', j \in DOMAIN opened : todo'[i] # opened[j][1]
      BY <1>a, <1>c, <1>i DEF Names
    <3> QED
      BY <3>1, <3>2, <1>e
  <2> QED
    BY <2>1, <2>2, <2>3, <2>4, <1>b, <1>u DEF Names
<1>3. CalledOnce'
  <2>1. \A w \in Range(opened) : w \in Range(opened')
    BY <1>e DEF Range
  <2> QED
    BY <2>1, <1>i, <1>u DEF CalledOnce, ClosedOnce
<1>4. Intact'
  <2>1. \A i \in DOMAIN opened : Present(opened[i])
    BY <1>a, <1>i DEF Intact, Unwinding
  <2>2. ASSUME NEW i \in DOMAIN opened
        PROVE  opened[i] \in live' /\ state'[opened[i][1]] = opened[i] /\ closings'[opened[i]] = 0
    <3>1. opened[i] \in live /\ state[opened[i][1]] = opened[i] /\ closings[opened[i]] = 0
      BY <2>1 DEF Present
    <3> QED
      BY <3>1, <1>a, <1>f, <1>g, <1>u
  <2>3. v \in live' /\ state'[v[1]] = v /\ closings'[v] = 0
    BY <1>a, <1>f, <1>h, <1>u
  <2>4. \A i \in DOMAIN opened' :
          opened'[i] \in live' /\ state'[opened'[i][1]] = opened'[i] /\ closings'[opened'[i]] = 0
    BY <2>2, <2>3, <1>e
  <2> QED
    BY <2>4, <1>e DEF Intact, Present
<1>5. Prefix'
  BY <1>a, <1>u DEF Prefix, Unwinding
<1>6. InCleanup'
  BY <1>l, <1>u DEF InCleanup
<1>7. Listed'
  BY <1>a, <1>e, <1>u DEF Listed
<1>8. StateOpen'
  <2>1. \A m \in Resource : state'[m] # None => state'[m][1] = m
    BY <1>f, <1>i DEF StateOpen
  <2>2. \A m \in HasCleanup : state'[m] # None => state'[m] \in live'
    BY <1>a, <1>f, <1>l, <1>i, Bounds DEF StateOpen
  <2> QED
    BY <2>1, <2>2 DEF StateOpen
<1>9. InUse'
  BY <1>a, <1>i, <1>u DEF InUse, Serving
<1>10. Reported'
  BY <1>i, <1>u DEF Reported, Unwinding
<1>11. ReverseOrder'
  <2>1. \A i \in DOMAIN opened : opened[i] \in live'
    BY <1>a, <1>i DEF Intact, Present, Unwinding
  <2>2. \A i \in DOMAIN opened' : opened'[i] \in live'
    BY <2>1, <1>a, <1>e
  <2> QED
    BY <2>2 DEF ReverseOrder
<1>12. ReportsTruth'
  BY <1>i, <1>u DEF ReportsTruth
<1> QED
  BY <1>1, <1>2, <1>3, <1>4, <1>5, <1>6, <1>7, <1>8, <1>9, <1>10, <1>11, <1>12 DEF IInv

\* The cleanup that is called is that of the last value open, for the first time.
LEMMA CleanupKeeps ==
    ASSUME IInv, CallCleanup
    PROVE  IInv'
<1>i. TypeOK /\ Names /\ CalledOnce /\ Intact /\ Prefix /\ InCleanup /\ Listed
      /\ StateOpen /\ InUse /\ Reported /\ ReverseOrder /\ ReportsTruth
  BY DEF IInv
<1>u. UNCHANGED <<registered, values, state, pc, todo, left, remaking, broke, err, reply,
                  round, retried, opened, trouble, gaveUp, using>>
  BY DEF CallCleanup, appVars
<1> DEFINE v == Last(todo)
           L == Len(todo)
<1>a. /\ pc \in Unwinding /\ todo # <<>> /\ cleaning = "no" /\ v[1] \in HasCleanup
      /\ cleaning' = "first" /\ live' = live \ {v} /\ closings' = [closings EXCEPT ![v] = @ + 1]
  BY DEF CallCleanup
<1>b. /\ values = opened /\ values \in Seq(Value) /\ L \in DOMAIN values
      /\ values[L] = v /\ v \in Value
      /\ L \in DOMAIN todo /\ todo[L] = v
      /\ v[1] \in Resource /\ v[2] = round /\ round \in Nat /\ L \in Nat /\ DOMAIN todo = 1..L
      /\ \A i \in DOMAIN values : i \in Nat
  BY <1>a, LastLeft
<1>c. /\ \A i \in DOMAIN values : values[i] \in Value /\ values[i][1] \in Resource
      /\ \A i \in DOMAIN values : i # L => values[i][1] # v[1] /\ values[i] # v
  BY <1>a, LastLeft
<1>d. /\ \A i \in DOMAIN todo : todo[i] = values[i] /\ i \in DOMAIN values
      /\ \A i \in DOMAIN todo : i # L => Present(todo[i])
      /\ \A i \in DOMAIN values : i > L => Closed(values[i])
      /\ todo \in Seq(Value)
  BY <1>a, LastLeft
<1>e. closings \in [Value -> Nat] /\ closings[v] = 0
  <2>1. closings \in [Value -> Nat]
    BY <1>i DEF TypeOK
  <2>2. Present(todo[L])
    BY <1>a, <1>b, <1>i DEF Prefix
  <2>3. todo[L] = v
    BY <1>b
  <2>4. closings[todo[L]] = 0
    BY <2>2 DEF Present
  <2> QED
    BY <2>1, <2>3, <2>4
<1> HIDE DEF v, L
<1>f. /\ closings' \in [Value -> Nat] /\ closings'[v] = 1
      /\ \A w \in Value \ {v} : closings'[w] = closings[w]
  BY <1>a, <1>b, <1>e
<1>1. TypeOK'
  <2>1. live' \subseteq Value
    BY <1>a, <1>i DEF TypeOK
  <2> QED
    BY <2>1, <1>a, <1>f, <1>i, <1>u DEF TypeOK
<1>2. Names'
  BY <1>i, <1>u DEF Names
<1>3. CalledOnce'
  <2>1. v \in Range(opened)
    BY <1>b DEF Range
  <2> QED
    <3>1. \A w \in retried : w \in Value /\ closings[w] > 0
      BY <1>i DEF CalledOnce, TypeOK
    <3>2. ClosedOnce'
      BY <1>b, <1>f, <1>i, <1>u DEF CalledOnce, ClosedOnce
    <3>3. \A w \in retried' : closings'[w] > 0
      BY <3>1, <1>b, <1>f, <1>u
    <3>4. \A w \in Value : closings'[w] > 0 => w = v \/ closings[w] > 0
      BY <1>f
    <3> QED
      BY <2>1, <3>2, <3>3, <3>4, <1>b, <1>i, <1>u DEF CalledOnce
<1>4. Intact'
  BY <1>a, <1>u DEF Intact
<1>5. Prefix'
  <2>1. ASSUME NEW i \in DOMAIN todo, i # L
        PROVE  todo[i] \in live' /\ state[todo[i][1]] = todo[i] /\ closings'[todo[i]] = 0
    <3>1. todo[i] \in live /\ state[todo[i][1]] = todo[i] /\ closings[todo[i]] = 0
      BY <2>1, <1>d DEF Present
    <3>2. todo[i] # v /\ todo[i] \in Value
      BY <2>1, <1>c, <1>d
    <3> QED
      BY <3>1, <3>2, <1>a, <1>f
  <2>2. \A i \in DOMAIN values : i > L =>
          (values[i] \notin live' \/ values[i][1] \notin HasCleanup) /\ state[values[i][1]] # values[i]
    BY <1>a, <1>d DEF Closed, Closable
  <2>3. todo \in Seq(Value) /\ L <= Len(values)
    BY <1>a, <1>i DEF Prefix, L
  <2>4. \A i \in DOMAIN todo : (i = Len(todo) => cleaning' = "no") => i # L
    BY <1>a DEF L
  <2> QED
    BY <2>1, <2>2, <2>3, <2>4, <1>d, <1>u DEF Prefix, Present, Closed, Closable, L
<1>6. InCleanup'
  BY <1>a, <1>f, <1>u DEF InCleanup, v
<1>7. Listed'
  BY <1>a, <1>b, <1>u DEF Listed, Serving, Unwinding
<1>8. StateOpen'
  <2>1. ASSUME NEW n \in HasCleanup, state[n] # None, n # v[1]
        PROVE  state[n] \in live'
    <3>1. state[n] \in live /\ state[n][1] = n
      BY <2>1, <1>a, <1>i, Bounds DEF StateOpen, Unwinding
    <3> QED
      BY <2>1, <3>1, <1>a
  <2> QED
    BY <2>1, <1>a, <1>i, <1>u DEF StateOpen, v
<1>9. InUse'
  BY <1>a, <1>i, <1>u DEF InUse, Serving, Unwinding
<1>10. Reported'
  BY <1>i, <1>u DEF Reported, Unwinding
<1>11. ReverseOrder'
  <2> SUFFICES ASSUME NEW i \in DOMAIN opened, NEW j \in DOMAIN opened, i < j,
                      opened[j] \in live', opened[j][1] \in HasCleanup,
                      opened[i][1] \in HasCleanup
               PROVE  opened[i] \in live'
    BY <1>u DEF ReverseOrder, Closable
  <2>1. opened[j] \in live /\ opened[i] \in live
    BY <1>a, <1>i DEF ReverseOrder, Closable
  <2>2. i # L
    <3>1. j > L => opened[j] \notin live
      BY <1>b, <1>d DEF Closed, Closable
    <3> QED
      BY <3>1, <2>1, <1>b
  <2> QED
    BY <2>1, <2>2, <1>a, <1>b, <1>c
<1>12. ReportsTruth'
  BY <1>i, <1>u DEF ReportsTruth
<1> QED
  BY <1>1, <1>2, <1>3, <1>4, <1>5, <1>6, <1>7, <1>8, <1>9, <1>10, <1>11, <1>12 DEF IInv

\* What was closed leaves the list and app.state.
LEMMA DropKeeps ==
    ASSUME IInv, CleanupEnds \/ CleanupRaises
    PROVE  IInv'
<1>i. TypeOK /\ Names /\ CalledOnce /\ Intact /\ Prefix /\ InCleanup /\ Listed
      /\ StateOpen /\ InUse /\ Reported /\ ReverseOrder /\ ReportsTruth
  BY DEF IInv
<1>u. UNCHANGED <<registered, values, pc, left, remaking, err, reply, round, live, closings,
                  retried, opened, gaveUp, using>>
  BY DEF CleanupEnds, CleanupRaises, Drop
<1> DEFINE v == Last(todo)
           L == Len(todo)
<1>a. /\ pc \in Unwinding /\ todo # <<>> /\ v \notin Closable
      /\ cleaning' = "no" /\ todo' = Front(todo) /\ state' = [state EXCEPT ![v[1]] = None]
  <2>1. cleaning' = "no" /\ todo' = Front(todo) /\ state' = [state EXCEPT ![v[1]] = None]
    BY DEF CleanupEnds, CleanupRaises, Drop
  <2>2. cleaning # "no" => pc \in Unwinding /\ todo # <<>> /\ v \notin live
    BY <1>i DEF InCleanup
  <2>3. cleaning # "no" \/ (pc \in Unwinding /\ todo # <<>> /\ v[1] \notin HasCleanup)
    BY DEF CleanupEnds, CleanupRaises
  <2>4. pc \in Unwinding /\ todo # <<>> /\ v \notin Closable
    BY <2>2, <2>3 DEF Closable
  <2> QED
    BY <2>1, <2>4
<1>h. /\ CleanupEnds => broke' = broke /\ trouble' = trouble
      /\ CleanupRaises => broke' = TRUE /\ trouble' = TRUE
  BY DEF CleanupEnds, CleanupRaises
<1>b. /\ values = opened /\ values \in Seq(Value) /\ L \in DOMAIN values
      /\ values[L] = v /\ v \in Value
      /\ L \in DOMAIN todo /\ todo[L] = v
      /\ v[1] \in Resource /\ v[2] = round /\ round \in Nat /\ L \in Nat /\ DOMAIN todo = 1..L
      /\ \A i \in DOMAIN values : i \in Nat
  BY <1>a, LastLeft
<1>c. /\ \A i \in DOMAIN values : values[i] \in Value /\ values[i][1] \in Resource
      /\ \A i \in DOMAIN values : i # L => values[i][1] # v[1] /\ values[i] # v
  BY <1>a, LastLeft
<1>d. /\ \A i \in DOMAIN todo : todo[i] = values[i] /\ i \in DOMAIN values
      /\ \A i \in DOMAIN todo : i # L => Present(todo[i])
      /\ \A i \in DOMAIN values : i > L => Closed(values[i])
      /\ todo \in Seq(Value)
  BY <1>a, LastLeft
<1> HIDE DEF v, L
<1>e. /\ state' \in [Resource -> Value \cup {None}] /\ state'[v[1]] = None
      /\ \A n \in Resource \ {v[1]} : state'[n] = state[n]
  BY <1>a, <1>b, <1>i DEF TypeOK
<1>f. /\ todo' \in Seq(Value) /\ Len(todo') = L - 1
      /\ \A i \in DOMAIN todo' : i \in DOMAIN todo /\ i # L /\ todo'[i] = todo[i]
  <2>1. /\ Front(todo) \in Seq(Value) /\ Len(Front(todo)) = L - 1
        /\ \A i \in DOMAIN Front(todo) : i \in DOMAIN todo /\ i < L /\ Front(todo)[i] = todo[i]
    BY <1>a, <1>d, FrontFacts DEF L
  <2>2. \A i \in DOMAIN todo : i \in Nat /\ (i < L => i # L)
    BY <1>b
  <2> QED
    BY <2>1, <2>2, <1>a
<1>g. reply' = None
  BY <1>a, <1>i, <1>u DEF Reported, Unwinding
<1>1. TypeOK'
  <2>1. todo' \in Seq(Value) /\ pc # "opening"
    BY <1>a, <1>f DEF Unwinding
  <2>2. broke' \in BOOLEAN /\ trouble' \in BOOLEAN
    BY <1>h, <1>i DEF TypeOK
  <2> QED
    BY <2>1, <2>2, <1>a, <1>e, <1>i, <1>u DEF TypeOK
<1>2. Names'
  BY <1>a, <1>i, <1>u DEF Names, Unwinding
<1>3. CalledOnce'
  BY <1>i, <1>u DEF CalledOnce, ClosedOnce, Value
<1>4. Intact'
  BY <1>a, <1>u DEF Intact
<1>5. Prefix'
  <2>1. ASSUME NEW i \in DOMAIN todo'
        PROVE  /\ todo'[i] \in live /\ state'[todo'[i][1]] = todo'[i]
               /\ closings[todo'[i]] = 0 /\ todo'[i] = values[i]
    <3>1. /\ i \in DOMAIN values /\ todo'[i] = values[i]
          /\ Present(todo[i]) /\ todo'[i] = todo[i] /\ i # L
      BY <1>d, <1>f
    <3>2. values[i][1] \in Resource \ {v[1]}
      BY <3>1, <1>c
    <3> QED
      BY <3>1, <3>2, <1>e DEF Present
  <2>2. ASSUME NEW i \in DOMAIN values, i > L - 1
        PROVE  values[i] \notin Closable /\ state'[values[i][1]] # values[i]
    <3>1. values[i] # None
      <4>1. values[i] \in Resource \X (1..MaxRounds)
        BY <1>c DEF Value
      <4>2. values[i] \in Resource \X Nat
        BY <4>1
      <4> QED
        BY <4>2, NoneIsApart
    <3>2. CASE i = L
      BY <3>1, <3>2, <1>a, <1>b, <1>e
    <3>3. CASE i > L
      BY <3>1, <3>3, <1>c, <1>d, <1>e DEF Closed
    <3> QED
      BY <2>2, <3>2, <3>3, <1>b
  <2>3. Len(todo') <= Len(values) /\ L - 1 \in Nat \cup {-1}
    <3>1. L \in Nat /\ L <= Len(values) /\ Len(values) \in Nat
      BY <1>a, <1>b, <1>i, LenProperties DEF Prefix, L
    <3> QED
      BY <3>1, <1>f
  <2> QED
    BY <2>1, <2>2, <2>3, <1>f, <1>u DEF Prefix, Present, Closed, Closable
<1>6. InCleanup'
  BY <1>a DEF InCleanup
<1>7. Listed'
  BY <1>a, <1>b, <1>u DEF Listed, Serving, Unwinding
<1>8. StateOpen'
  <2>1. \A n \in Resource : state'[n] # None => n # v[1] /\ state'[n] = state[n]
    BY <1>e
  <2>2. \A n \in HasCleanup : n \in Resource
    BY Bounds
  <2>3. \A n \in HasCleanup : state'[n] # None => state'[n] \in live
    BY <2>1, <2>2, <1>i, <1>a DEF StateOpen, Unwinding, v
  <2>4. \A n \in Resource : state'[n] # None => state'[n][1] = n
    BY <2>1, <1>i DEF StateOpen
  <2> QED
    BY <2>3, <2>4, <1>u DEF StateOpen
<1>9. InUse'
  BY <1>i, <1>u DEF InUse, Serving
<1>10. Reported'
  <2>1. pc' = pc /\ err' = err /\ pc # "idle"
    BY <1>a, <1>u DEF Unwinding
  <2>2. pc \in {"undoing", "clearing"} => trouble'
    BY <1>h, <1>i DEF Reported
  <2>3. pc = "closing" => (trouble' <=> err # None \/ broke')
    <3>1. CASE CleanupEnds
      BY <3>1, <1>h, <1>i DEF Reported
    <3>2. CASE CleanupRaises
      BY <3>2, <1>h
    <3> QED
      BY <3>1, <3>2
  <2> QED
    BY <2>1, <2>2, <2>3, <1>a, <1>g DEF Reported, Unwinding
<1>11. ReverseOrder'
  BY <1>i, <1>u DEF ReverseOrder, Closable
<1>12. ReportsTruth'
  BY <1>g, NoneIsApart DEF ReportsTruth
<1> QED
  BY <1>1, <1>2, <1>3, <1>4, <1>5, <1>6, <1>7, <1>8, <1>9, <1>10, <1>11, <1>12 DEF IInv

\* A loop of cleanups ends with nothing open, and what is told next is what happened.
LEMMA ClearedKeeps ==
    ASSUME IInv, Cleared
    PROVE  IInv'
<1>i. TypeOK /\ Names /\ CalledOnce /\ Intact /\ Prefix /\ InCleanup /\ Listed
      /\ StateOpen /\ InUse /\ Reported /\ ReverseOrder /\ ReportsTruth
  BY DEF IInv
<1>u. UNCHANGED <<registered, state, left, remaking, cleaning, round, live, closings,
                  retried, opened, trouble, gaveUp, using>>
  BY DEF Cleared, history
<1>a. /\ pc \in Unwinding /\ todo = <<>> /\ cleaning = "no" /\ values' = <<>> /\ broke' = FALSE
      /\ pc' = "clearing" \/ pc' = "idle"
      /\ todo' = <<>> /\ err' \in {err, "cleanup"}
  BY DEF Cleared
<1>b. \A i \in DOMAIN opened : Closed(opened[i])
  <2>1. CASE values = opened
    <3>1. opened \in Seq(Value) /\ \A i \in DOMAIN opened : i > Len(todo)
      <4>1. opened \in Seq(Value)
        BY <1>i DEF TypeOK
      <4>2. Len(todo) = 0
        BY <1>a
      <4> QED
        BY <4>1, <4>2, LenProperties
    <3> QED
      BY <3>1, <2>1, <1>a, <1>i DEF Prefix
  <2>2. CASE values # opened
    BY <2>2, <1>i DEF Listed
  <2> QED
    BY <2>1, <2>2
<1>e. /\ pc = "undoing" /\ pc' = "clearing" /\ reply' = None /\ trouble
      \/ /\ pc = "clearing" /\ pc' = "idle" /\ reply' = "start failed" /\ trouble
      \/ /\ pc = "closing" /\ pc' = "idle" /\ reply' = "stopped" /\ ~trouble
      \/ /\ pc = "closing" /\ pc' = "idle" /\ reply' = "stop failed" /\ trouble
  <2>1. CASE pc = "undoing"
    BY <2>1, <1>i DEF Cleared, Reported
  <2>2. CASE pc = "clearing"
    BY <2>2, <1>i DEF Cleared, Reported
  <2>3. CASE pc = "closing"
    <3>1. pc' = "idle" /\ err' = (IF err = None /\ broke THEN "cleanup" ELSE err)
          /\ reply' = IF err' = None THEN "stopped" ELSE "stop failed"
      BY <2>3 DEF Cleared
    <3>2. trouble <=> err # None \/ broke
      BY <2>3, <1>i DEF Reported
    <3>3. CASE err = None /\ ~broke
      BY <2>3, <3>1, <3>2, <3>3
    <3>4. CASE err # None \/ broke
      BY <2>3, <3>1, <3>2, <3>4, NoneIsApart
    <3> QED
      BY <3>3, <3>4
  <2> QED
    BY <2>1, <2>2, <2>3, <1>a DEF Unwinding
<1>f. trouble' = trouble
  BY <1>u
<1>g. pc = "closing" => \A r \in Request : using[r] # None => gaveUp
  BY <1>i DEF InUse, Serving
<1>1. TypeOK'
  <2>0. broke' \in BOOLEAN
    BY <1>a
  <2>1. values' \in Seq(Value) /\ todo' \in Seq(Value)
    BY <1>a
  <2>2. err' \in {None, "factory", "handler", "cleanup"}
    BY <1>a, <1>i DEF TypeOK
  <2>3. reply' \in {None, "started", "start failed", "stopped", "stop failed"}
    BY <1>e
  <2>4. pc' \in {"clearing", "idle"}
    BY <1>e
  <2> QED
    BY <2>0, <2>1, <2>2, <2>3, <2>4, <1>i, <1>u DEF TypeOK, Unwinding
<1>2. Names'
  BY <1>a, <1>i, <1>u DEF Names
<1>3. CalledOnce'
  BY <1>i, <1>u DEF CalledOnce, ClosedOnce, Value
<1>4. Intact'
  BY <1>a DEF Intact
<1>5. Prefix'
  <2>1. /\ DOMAIN values' = {} /\ DOMAIN todo' = {}
        /\ Len(todo') <= Len(values') /\ todo' \in Seq(Value)
    BY <1>a
  <2> QED
    BY <2>1 DEF Prefix
<1>6. InCleanup'
  BY <1>a, <1>u DEF InCleanup
<1>7. Listed'
  <2>1. pc' \notin {"opening", "starting"} /\ ~Serving'
    BY <1>e DEF Serving
  <2> QED
    BY <2>1, <1>a, <1>b, <1>u DEF Listed, Closed, Closable
<1>8. StateOpen'
  BY <1>a, <1>i, <1>u DEF StateOpen, Unwinding
<1>9. InUse'
  BY <1>e, <1>g, <1>i, <1>u DEF InUse, Serving
<1>10. Reported'
  BY <1>e, <1>f DEF Reported
<1>11. ReverseOrder'
  BY <1>i, <1>u DEF ReverseOrder, Closable
<1>12. ReportsTruth'
  BY <1>e, <1>f, NoneIsApart DEF ReportsTruth
<1> QED
  BY <1>1, <1>2, <1>3, <1>4, <1>5, <1>6, <1>7, <1>8, <1>9, <1>10, <1>11, <1>12 DEF IInv

\* Nothing is opened, listed or in use at first.
LEMMA InitHolds == Init => IInv
<1> SUFFICES ASSUME Init PROVE IInv
  OBVIOUS
<1>a. /\ registered \in Seq(Resource) /\ IsInjective(registered)
      /\ values = <<>> /\ opened = <<>> /\ todo = <<>> /\ state = Idle
      /\ pc = "idle" /\ left = 0 /\ remaking = FALSE /\ cleaning = "no" /\ broke = FALSE /\ err = None
      /\ reply = None /\ round = 0 /\ live = {} /\ trouble = FALSE /\ gaveUp = FALSE
      /\ retried = {} /\ closings = [v \in Value |-> 0] /\ using = [r \in Request |-> None]
  <2>1. \A s \in BoundedSeq(Resource, MaxListed) : s \in Seq(Resource)
    BY Bounds, SeqDef DEF BoundedSeq, SeqOf
  <2> QED
    BY <2>1 DEF Init
<1>b. DOMAIN values = {} /\ DOMAIN opened = {}
  BY <1>a
<1>c. \A v \in Value : closings[v] = 0
  BY <1>a
<1>1. TypeOK
  <2>1. values \in Seq(Value) /\ opened \in Seq(Value) /\ todo \in Seq(Value)
    BY <1>a
  <2>2. /\ state \in [Resource -> Value \cup {None}]
        /\ using \in [Request -> (SUBSET Value) \cup {None}]
    BY <1>a DEF Idle
  <2>3. closings \in [Value -> Nat] /\ live \subseteq Value /\ retried \subseteq Value
    BY <1>a
  <2>4. round \in 0..MaxRounds /\ left \in Nat
    BY <1>a, Bounds
  <2> QED
    BY <2>1, <2>2, <2>3, <2>4, <1>a DEF TypeOK
<1>2. Names /\ CalledOnce /\ Intact /\ Prefix /\ InCleanup /\ Listed
  <2>1. Names /\ Prefix /\ InCleanup
    BY <1>a, <1>b DEF Names, Prefix, InCleanup, Unwinding
  <2>2. CalledOnce /\ Intact
    BY <1>a, <1>b, <1>c DEF CalledOnce, ClosedOnce, Intact
  <2>3. Listed
    BY <1>a, <1>b, NoneIsApart DEF Listed, Serving
  <2> QED
    BY <2>1, <2>2, <2>3
<1>3. StateOpen /\ InUse /\ Reported /\ ReverseOrder /\ ReportsTruth
  <2>1. StateOpen
    BY <1>a, Bounds DEF StateOpen, Idle
  <2>2. InUse
    BY <1>a, NoneIsApart DEF InUse, Serving
  <2>3. Reported /\ ReverseOrder /\ ReportsTruth
    BY <1>a, <1>b, NoneIsApart DEF Reported, ReverseOrder, ReportsTruth
  <2> QED
    BY <2>1, <2>2, <2>3
<1> QED
  BY <1>1, <1>2, <1>3 DEF IInv

\* Every step, and every stutter, keeps the invariant.
LEMMA NextHolds == IInv /\ [Next]_vars => IInv'
<1> SUFFICES ASSUME IInv, [Next]_vars PROVE IInv'
  OBVIOUS
<1>1. CASE Starts
  BY <1>1, StartupKeeps, RemakeKeeps, OpenKeeps, OpenedKeeps, UnwindKeeps, ReturnsKeeps,
     StartedKeeps DEF Starts
<1>2. CASE Unwinds
  BY <1>2, CleanupKeeps, AgainKeeps, DropKeeps, ClearedKeeps DEF Unwinds
<1>3. CASE Stops
  BY <1>3, ShutdownKeeps, DrainedKeeps, ReturnsKeeps, UnwindKeeps DEF Stops
<1>4. CASE Exit
  BY <1>4, ExitKeeps
<1>5. CASE \E n \in Resource : AddResource(n) \/ RemoveResource(n)
  BY <1>5, RegistersKeeps
<1>6. CASE \E r \in Request : Arrive(r) \/ LookUp(r) \/ Leave(r)
  BY <1>6, RequestKeeps
<1>7. CASE UNCHANGED vars
  <2>1. UNCHANGED <<registered, values, state, pc, todo, left, remaking, cleaning, broke, err, reply,
                    round, live, closings, retried, opened, trouble, gaveUp, using>>
    BY <1>7 DEF vars, appVars, taskVars, history
  <2>2. (TypeOK /\ Names /\ CalledOnce /\ Intact)'
    BY <2>1, ZenonT(60) DEF IInv, TypeOK, Names, CalledOnce, ClosedOnce, Intact, Present
  <2>3. (Prefix /\ InCleanup /\ Listed /\ StateOpen)'
    BY <2>1 DEF IInv, Prefix, InCleanup, Listed, StateOpen, Present, Closed, Closable,
       Serving
  <2>4. (InUse /\ Reported /\ ReverseOrder /\ ReportsTruth)'
    BY <2>1 DEF IInv, InUse, Reported, ReverseOrder, ReportsTruth, Closable, Serving
  <2> QED
    BY <2>2, <2>3, <2>4 DEF IInv
<1> QED
  BY <1>1, <1>2, <1>3, <1>4, <1>5, <1>6, <1>7 DEF Next

-----------------------------------------------------------------------------
(* The theorems.                                                           *)

\* The invariant, and with it the types, holds in every state.
THEOREM Inductive == Spec => []IInv
  BY InitHolds, NextHolds, PTL DEF Spec

\* Whatever raises in a startup or a shutdown, and however many resources and
\* handlers there are: all that a startup opened is closed by the end of the
\* lifespan, the last first, and the cleaning loop meets no value twice: its
\* cleanup is called once, or twice if the first call raised TypeError or
\* ValueError (_shutdown_state_resources, _invoke_resource_cleanup).
THEOREM AllClosedInOrder == Spec => []ClosedAsOpened
<1>1. IInv => ClosedAsOpened
  <2> SUFFICES ASSUME IInv PROVE ClosedAsOpened
    OBVIOUS
  <2>1. NoLeak
    <3> SUFFICES ASSUME pc = "idle", reply \in {"start failed", "stopped", "stop failed"}
                 PROVE  \A v \in Range(opened) : v \notin Closable /\ state[v[1]] # v
      BY DEF NoLeak
    <3>1. values = <<>>
      BY DEF IInv, Listed, Serving
    <3>2. \A i \in DOMAIN opened : Closed(opened[i])
      <4>1. opened \in Seq(Value)
        BY DEF IInv, TypeOK
      <4>2. opened # <<>> => \A i \in DOMAIN opened : Closed(opened[i])
        BY <3>1 DEF IInv, Listed
      <4> QED
        BY <4>1, <4>2, EmptyDomain
    <3> QED
      BY <3>2 DEF Range, Closed
  <2>2. ClosedOnce
    BY DEF IInv, CalledOnce
  <2> QED
    BY <2>1, <2>2 DEF IInv, ClosedAsOpened
<1> QED
  BY <1>1, Inductive, PTL

\* What a request finds in app.state is open, from the end of the startup to
\* the end of the drain, whatever is registered or removed meanwhile.
THEOREM OpenWhileServed == Spec => []ServedOpen
<1>1. IInv => ServesWhatItOpened
  BY DEF IInv, ServesWhatItOpened, Listed, Intact, Present, Serving, Unwinding, Range
<1>2. IInv => UsesOpen
  BY DEF IInv, UsesOpen, InUse
<1> QED
  BY <1>1, <1>2, Inductive, PTL DEF ServedOpen

\* The server is told that a startup or a shutdown failed iff something raised.
THEOREM TruthTold == Spec => []ReportsTruth
<1>1. IInv => ReportsTruth
  BY DEF IInv
<1> QED
  BY <1>1, Inductive, PTL

\* Every variable of Lifespan keeps its type; the registered resources are
\* never listed twice.
THEOREM TypeCorrect == Spec => []TypeOK
<1>1. IInv => TypeOK
  BY DEF IInv
<1> QED
  BY <1>1, Inductive, PTL

==============================================================================
