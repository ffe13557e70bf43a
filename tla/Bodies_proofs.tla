---------------------------- MODULE Bodies_proofs ----------------------------
(***************************************************************************)
(* The bodies of responses and of requests.                                *)
(*                                                                         *)
(* Responses: for every size of file and chunk, every range, every number  *)
(* of items and pings, a response is well sent, a file is sent as asked,   *)
(* and a stream is complete.  The invariant says how far the sending has   *)
(* got: what the client has received is joined from the bodies sent so     *)
(* far, which is a recursive definition, reasoned about through a function *)
(* that exists and goes step by step (RecExists, FlattenAppend).           *)
(*                                                                         *)
(* RequestBody: for all forms, limits and chunks, a form is read as it was *)
(* sent, and refused if and only if it is over a limit.  The invariant     *)
(* says, for each block of the parser, which end of the encoded form is    *)
(* still to be looked at (ParserAt); a search in the buffer then finds     *)
(* what the whole of it would, or too little has come (SearchIs).          *)
(***************************************************************************)
EXTENDS Responses, RequestBody, WellFoundedInduction, SequenceTheorems, TLAPS

\* A set of numbers has a least element.
LEMMA Least == ASSUME NEW S \in SUBSET Nat, S # {} PROVE \E n \in S : \A m \in S : n <= m
<1>1. PICK R : R = {ss \in Nat \X Nat : ss[1] < ss[2]}
  OBVIOUS
<1>2. IsWellFoundedOn(R, Nat)
  BY <1>1, NatLessThanWellFounded DEF OpToRel
<1>3. PICK x \in S : \A y \in S : ~(<<y, x>> \in R)
  BY <1>2, WFMin
<1>4. ASSUME NEW y \in S PROVE x <= y
  <2>1. <<y, x>> \in Nat \X Nat /\ <<y,x>>[1] = y /\ <<y,x>>[2] = x
    OBVIOUS
  <2>2. ~(y < x)
    BY <1>1, <1>3, <2>1
  <2> QED BY <2>2
<1> QED BY <1>4

\* Induction: a set with 0 and, with a number, the next one, has them all.
LEMMA SetInd == ASSUME NEW S, 0 \in S, \A n \in Nat : n \in S => n + 1 \in S PROVE Nat \subseteq S
<1>1. SUFFICES ASSUME NEW k \in Nat, k \notin S PROVE FALSE
  OBVIOUS
<1>2. PICK D : D = Nat \ S
  OBVIOUS
<1>2a. PICK n \in D : \A m \in D : n <= m
  BY <1>1, <1>2, Least
<1>3. n # 0 /\ n - 1 \in Nat
  BY <1>2
<1>4. n - 1 \in S
  BY <1>2, <1>2a, <1>3
<1> QED BY <1>2, <1>2a, <1>3, <1>4

\* f goes from base through what F makes of it, step by step, up to n.
UpTo(f, F, base, V, n) ==
  f \in [0..n -> V] /\ f[0] = base /\ \A i \in 1..n : f[i] = F[<<i, f[i-1]>>]

\* A function defined by recursion over 0..n exists.
LEMMA RecExists ==
  ASSUME NEW n \in Nat, NEW V, NEW base \in V, NEW F \in [(1..n) \X V -> V]
  PROVE  \E f : UpTo(f, F, base, V, n)
<1>1. PICK S : S = {k \in Nat : k <= n => \E f : UpTo(f, F, base, V, k)}
  OBVIOUS
<1>2. 0 \in S
  <2>1. PICK f : f = [i \in 0..0 |-> base]
    OBVIOUS
  <2>2. UpTo(f, F, base, V, 0)
    BY <2>1 DEF UpTo
  <2> QED BY <1>1, <2>2
<1>3. ASSUME NEW k \in Nat, k \in S, k + 1 <= n PROVE \E f : UpTo(f, F, base, V, k + 1)
  <2>1. PICK f : UpTo(f, F, base, V, k)
    BY <1>1, <1>3
  <2>2. PICK v : v = F[<<k+1, f[k]>>]
    OBVIOUS
  <2>3. v \in V
    BY <2>1, <2>2, <1>3 DEF UpTo
  <2>4. PICK g : g = [i \in 0..(k+1) |-> IF i <= k THEN f[i] ELSE v]
    OBVIOUS
  <2>5. g \in [0..(k+1) -> V]
    BY <2>1, <2>3, <2>4 DEF UpTo
  <2>6. ASSUME NEW i \in 1..(k+1) PROVE g[i] = F[<<i, g[i-1]>>]
    <3>0. i - 1 \in 0..k /\ g[i-1] = f[i-1]
      BY <2>4
    <3>1. CASE i <= k
      BY <2>1, <2>4, <3>0, <3>1 DEF UpTo
    <3>2. CASE i = k+1
      <4>1. i - 1 = k
        BY <3>2
      <4>2. g[i] = v /\ g[i-1] = f[k]
        BY <2>4, <3>0, <3>2, <4>1
      <4> QED BY <2>2, <3>2, <4>2
    <3> QED BY <3>1, <3>2
  <2>7. g[0] = base
    BY <2>1, <2>4 DEF UpTo
  <2> QED BY <2>5, <2>6, <2>7 DEF UpTo
<1>4. \A k \in Nat : k \in S => k + 1 \in S
  <2>1. SUFFICES ASSUME NEW k \in Nat, k \in S PROVE k + 1 \in S
    OBVIOUS
  <2>2. k + 1 <= n => \E f : UpTo(f, F, base, V, k + 1)
    BY <1>3, <2>1
  <2>3. k + 1 \in Nat
    OBVIOUS
  <2> QED BY <1>1, <2>2, <2>3
<1>5. n \in S
  BY <1>2, <1>4, SetInd
<1> QED BY <1>1, <1>5

\* f joins the sequences one by one.
IsFlat(f, seqs) == \A i \in 1..Len(seqs) : f[i] = IF i = 1 THEN seqs[i] ELSE f[i-1] \o seqs[i]

\* FlattenSeq is that function at the end.
LEMMA FlattenIs ==
  ASSUME NEW T, NEW seqs \in Seq(Seq(T)), seqs # <<>>
  PROVE  \E f : IsFlat(f, seqs) /\ FlattenSeq(seqs) = f[Len(seqs)]
<1>1. PICK g : g = CHOOSE f : f = [i \in 1..Len(seqs) |-> IF i = 1 THEN seqs[i] ELSE f[i-1] \o seqs[i]]
  OBVIOUS
<1>1a. Len(seqs) \in Nat /\ \A i \in 1..Len(seqs) : seqs[i] \in Seq(T)
  OBVIOUS
<1>2. PICK F : F = [p \in (1..Len(seqs)) \X Seq(T) |-> p[2] \o seqs[p[1]]]
  OBVIOUS
<1>3. F \in [(1..Len(seqs)) \X Seq(T) -> Seq(T)]
  BY <1>1a, <1>2
<1>3a. <<>> \in Seq(T)
  OBVIOUS
<1>4. PICK h : UpTo(h, F, <<>>, Seq(T), Len(seqs))
  BY <1>1a, <1>3, <1>3a, RecExists
<1>5. PICK f : f = [i \in 1..Len(seqs) |-> h[i]]
  OBVIOUS
<1>6. ASSUME NEW i \in 1..Len(seqs) PROVE f[i] = IF i = 1 THEN seqs[i] ELSE f[i-1] \o seqs[i]
  <2>1. h[i] = F[<<i, h[i-1]>>] /\ h[i-1] \in Seq(T)
    <3>1. i - 1 \in 0..Len(seqs)
      BY <1>1a
    <3> QED BY <1>4, <3>1 DEF UpTo
  <2>2. h[i] = h[i-1] \o seqs[i]
    BY <1>2, <2>1
  <2>3. CASE i = 1
    <3>1. h[i-1] = <<>>
      BY <1>4, <2>3 DEF UpTo
    <3>2. seqs[i] \in Seq(T)
      BY <1>1a
    <3>3. <<>> \o seqs[i] = seqs[i]
      BY <3>2, ConcatEmptySeq
    <3> QED BY <1>5, <2>2, <2>3, <3>1, <3>3
  <2>4. CASE i # 1
    <3>1. i - 1 \in 1..Len(seqs)
      BY <1>1a, <2>4
    <3> QED BY <1>5, <2>2, <2>4, <3>1
  <2> QED BY <2>3, <2>4
<1>7. f = [i \in 1..Len(seqs) |-> IF i = 1 THEN seqs[i] ELSE f[i-1] \o seqs[i]]
  BY <1>5, <1>6
<1>8. g = [i \in 1..Len(seqs) |-> IF i = 1 THEN seqs[i] ELSE g[i-1] \o seqs[i]]
  BY <1>1, <1>7
<1>9. FlattenSeq(seqs) = g[Len(seqs)]
  BY <1>1 DEF FlattenSeq
<1> QED BY <1>8, <1>9 DEF IsFlat

\* Sequences that agree on their first n members give the same there.
LEMMA FlatUnique ==
  ASSUME NEW T, NEW s \in Seq(Seq(T)), NEW t \in Seq(Seq(T)), NEW f, NEW g,
         IsFlat(f, s), IsFlat(g, t), NEW n \in Nat, n <= Len(s), n <= Len(t),
         \A i \in 1..n : s[i] = t[i]
  PROVE  \A i \in 1..n : f[i] = g[i] /\ f[i] \in Seq(T)
<1>1. PICK S : S = {k \in Nat : k \in 1..n => f[k] = g[k] /\ f[k] \in Seq(T)}
  OBVIOUS
<1>2. 0 \in S
  BY <1>1
<1>3. ASSUME NEW k \in Nat, k \in S, k + 1 \in 1..n PROVE f[k+1] = g[k+1] /\ f[k+1] \in Seq(T)
  <2>1. k+1 \in 1..Len(s) /\ k+1 \in 1..Len(t) /\ s[k+1] = t[k+1] /\ s[k+1] \in Seq(T)
    BY <1>3
  <2>2. CASE k = 0
    BY <2>1, <2>2 DEF IsFlat
  <2>3. CASE k # 0
    <3>1. f[k] = g[k] /\ f[k] \in Seq(T)
      BY <1>1, <1>3, <2>3
    <3>2. f[k+1] = f[k] \o s[k+1] /\ g[k+1] = g[k] \o t[k+1]
      <4>1. k + 1 # 1 /\ (k + 1) - 1 = k
        BY <2>3
      <4> QED BY <2>1, <4>1 DEF IsFlat
    <3> QED BY <2>1, <3>1, <3>2
  <2> QED BY <2>2, <2>3
<1>4. \A k \in Nat : k \in S => k + 1 \in S
  <2>1. SUFFICES ASSUME NEW k \in Nat, k \in S PROVE k + 1 \in S
    OBVIOUS
  <2>2. k + 1 \in 1..n => f[k+1] = g[k+1] /\ f[k+1] \in Seq(T)
    BY <1>3, <2>1
  <2>3. k + 1 \in Nat
    OBVIOUS
  <2> QED BY <1>1, <2>2, <2>3
<1>5. Nat \subseteq S
  BY <1>2, <1>4, SetInd
<1> QED BY <1>1, <1>5

\* One sequence more is joined to what the others gave.
LEMMA FlattenAppend ==
  ASSUME NEW T, NEW s \in Seq(Seq(T)), NEW b \in Seq(T)
  PROVE  /\ FlattenSeq(s) \in Seq(T)
         /\ FlattenSeq(Append(s, b)) = FlattenSeq(s) \o b
<1>1. PICK t : t = Append(s, b)
  OBVIOUS
<1>2. t \in Seq(Seq(T)) /\ t # <<>> /\ Len(t) = Len(s) + 1 /\ t[Len(t)] = b
      /\ \A i \in 1..Len(s) : t[i] = s[i]
  <2>1. t \in Seq(Seq(T)) /\ t # <<>> /\ Len(t) = Len(s) + 1 /\ Len(s) \in Nat
    BY <1>1
  <2>2. \A i \in 1..Len(s) : t[i] = s[i]
    BY <1>1
  <2>3. t[Len(s) + 1] = b
    BY <1>1
  <2> QED BY <2>1, <2>2, <2>3
<1>3. PICK g : IsFlat(g, t) /\ FlattenSeq(t) = g[Len(t)]
  BY <1>2, FlattenIs
<1>4. CASE s = <<>>
  <2>1. FlattenSeq(s) = <<>>
    BY <1>4 DEF FlattenSeq
  <2>2. FlattenSeq(t) = b
    BY <1>2, <1>3, <1>4 DEF IsFlat
  <2> QED BY <1>1, <2>1, <2>2
<1>5. CASE s # <<>>
  <2>1. PICK f : IsFlat(f, s) /\ FlattenSeq(s) = f[Len(s)]
    BY <1>5, FlattenIs
  <2>2. Len(s) \in 1..Len(s) /\ Len(s) \in Nat
    BY <1>5
  <2>3. \A i \in 1..Len(s) : f[i] = g[i] /\ f[i] \in Seq(T)
    <3>1. Len(s) <= Len(s) /\ Len(s) <= Len(t) /\ \A i \in 1..Len(s) : s[i] = t[i]
      BY <1>2, <2>2
    <3> QED BY <1>2, <1>3, <2>1, <2>2, <3>1, FlatUnique
  <2>4. g[Len(t)] = g[Len(s)] \o b
    <3>1. Len(t) \in 1..Len(t) /\ Len(t) # 1 /\ Len(t) - 1 = Len(s)
      BY <1>2, <2>2
    <3> QED BY <1>2, <1>3, <3>1 DEF IsFlat
  <2> QED BY <1>1, <1>3, <2>1, <2>2, <2>3, <2>4
<1> QED BY <1>4, <1>5

-----------------------------------------------------------------------------

\* The bytes of the file that the answer is to have.
From == IF span = None THEN 0 ELSE span[1]
To == IF span = None THEN size - 1 ELSE span[2]

\* One start, then bodies that say that more follows, until the last.
Framed ==
    /\ phase \in {"returned", "prepared"} => sent = <<>>
    /\ phase \in {"sending", "sent", "done"} => sent # <<>>
    /\ \A i \in DOMAIN sent : (sent[i].type = "start") = (i = 1)
    /\ \A i \in 1..(Len(sent) - 1) : sent[i].more
    /\ sent # <<>> /\ ~Ended => sent[Len(sent)].more
    /\ Ended => ~sent[Len(sent)].more \/ disk < size
    /\ background = "ran" => phase = "done"

\* What prepare_for_request has made of the Range header.
Decided ==
    \/ status = 304
    \/ status = 416 /\ Asked = {}
    \/ status = 206 /\ span # None /\ length = To - From + 1 /\ Asked = From..To
    \/ status = 200 /\ span = None /\ length = size

\* The bytes sent are those from the first to where the file is read.
Read ==
    /\ From <= offset /\ offset + remaining = To + 1
    /\ Received = [i \in 1..(offset - From) |-> From + i - 1]
    /\ Ended /\ disk = size => remaining = 0

\* How far a file has got.
FileRead ==
    kind = "file" =>
        /\ phase = "returned" => status = 200 /\ span = None
        /\ phase # "returned" => Decided
        /\ sent # <<>> => sent[1].status = status /\ sent[1].length = length
        /\ phase \in {"sending", "sent", "done"} =>
              IF status \in {304, 416} THEN Received = <<>> ELSE Read

Given == {i \in DOMAIN Received : Received[i] # None}

\* How far a stream has got: each item taken was sent, in order.
Streamed ==
    kind \in {"stream", "events"} =>
        /\ taken <= items
        /\ \A i, j \in Given : i < j => Received[i] < Received[j]
        /\ {Received[i] : i \in Given} = 1..taken
        /\ closed => source = "generator" /\ pings > 0
        /\ Ended => closed \/ taken = items

IInv == TypeOK /\ Framed /\ FileRead /\ Streamed

-----------------------------------------------------------------------------

\* Without a message nothing is received.
LEMMA NothingReceived == ASSUME sent = <<>> PROVE Received = <<>>
<1>1. [i \in DOMAIN sent |-> sent[i].body] = <<>>
  OBVIOUS
<1> QED BY <1>1 DEF Received, FlattenSeq

\* What is received are bytes, items and pings.
LEMMA ReceivedType == ASSUME TypeOK PROVE Received \in Seq(Nat \cup {None})
<1>1. PICK T : T = Nat \cup {None}
  OBVIOUS
<1>2. PICK s : s = [i \in DOMAIN sent |-> sent[i].body]
  OBVIOUS
<1>3. sent \in Seq(Messages)
  BY DEF TypeOK
<1>4. s \in Seq(Seq(T))
  <2>1. \A i \in 1..Len(sent) : sent[i].body \in Seq(T)
    <3>1. \A i \in 1..Len(sent) : sent[i] \in Messages
      BY <1>3
    <3> QED BY <1>1, <3>1 DEF Messages
  <2>2. s = [i \in 1..Len(sent) |-> sent[i].body]
    BY <1>2, <1>3
  <2> QED BY <1>3, <2>1, <2>2
<1>5. <<>> \in Seq(T)
  OBVIOUS
<1> QED BY <1>1, <1>2, <1>4, <1>5, FlattenAppend DEF Received

\* A message more is so many bytes or items more.
LEMMA ReceivedNext ==
  ASSUME TypeOK, NEW m \in Messages, sent' = Append(sent, m)
  PROVE  Received' = Received \o m.body
<1>1. PICK T : T = Nat \cup {None}
  OBVIOUS
<1>2. PICK s : s = [i \in DOMAIN sent |-> sent[i].body]
  OBVIOUS
<1>3. sent \in Seq(Messages)
  BY DEF TypeOK
<1>4. s \in Seq(Seq(T)) /\ Len(s) = Len(sent) /\ m.body \in Seq(T)
  <2>1. m.body \in Seq(T) /\ \A i \in 1..Len(sent) : sent[i].body \in Seq(T)
    <3>1. \A i \in 1..Len(sent) : sent[i] \in Messages
      BY <1>3
    <3> QED BY <1>1, <3>1 DEF Messages
  <2>2. s = [i \in 1..Len(sent) |-> sent[i].body]
    BY <1>2, <1>3
  <2> QED BY <1>3, <2>1, <2>2
<1>5. [i \in DOMAIN sent' |-> sent'[i].body] = Append(s, m.body)
  <2>1. DOMAIN sent' = 1..(Len(sent) + 1) /\ sent'[Len(sent) + 1] = m
        /\ \A i \in 1..Len(sent) : sent'[i] = sent[i]
    BY <1>3
  <2>2. \A i \in 1..(Len(sent) + 1) : sent'[i].body = Append(s, m.body)[i]
    BY <1>2, <1>3, <1>4, <2>1
  <2>3. Append(s, m.body) = [i \in 1..(Len(sent) + 1) |-> Append(s, m.body)[i]]
    BY <1>4
  <2> QED BY <2>1, <2>2, <2>3
<1>6. FlattenSeq(Append(s, m.body)) = FlattenSeq(s) \o m.body
  BY <1>4, FlattenAppend
<1> QED BY <1>2, <1>5, <1>6 DEF Received

\* ... and no message more is nothing more.
LEMMA ReceivedSame == ASSUME UNCHANGED sent PROVE Received' = Received
  BY DEF Received

\* The messages of the responses are messages.
LEMMA MessageTypes ==
  ASSUME TypeOK
  PROVE  /\ Start \in Messages
         /\ \A b \in Seq(Nat \cup {None}), more \in BOOLEAN : Body(b, more) \in Messages
<1>1. Start \in Messages
  BY DEF TypeOK, Start, Messages
<1>2. ASSUME NEW b \in Seq(Nat \cup {None}), NEW more \in BOOLEAN PROVE Body(b, more) \in Messages
  BY <1>2 DEF Body, Messages
<1> QED BY <1>1, <1>2

\* A chunk of a file: the bytes from the offset on, none when there are none.
LEMMA ChunkIs ==
  ASSUME TypeOK
  PROVE  \E n \in Nat :
            /\ n = Len(Chunk) /\ n <= remaining
            /\ Chunk = [i \in 1..n |-> offset + i - 1]
            /\ Chunk \in Seq(Nat \cup {None})
            /\ Chunk = <<>> => n = 0
            /\ Chunk = <<>> /\ remaining > 0 => disk <= offset
<1>0. offset \in Nat /\ remaining \in Nat /\ disk \in Nat /\ ChunkSize \in Nat \ {0}
  BY ResponseBounds DEF TypeOK
<1>1. PICK there : there = (IF disk > offset THEN disk - offset ELSE 0) /\ there \in Nat
  <2>1. (IF disk > offset THEN disk - offset ELSE 0) \in Nat
    BY <1>0
  <2> QED BY <2>1
<1>2. PICK S : S = {ChunkSize, remaining, there}
  OBVIOUS
<1>3. PICK n \in S : \A m \in S : n <= m
  BY <1>0, <1>1, <1>2, Least
<1>4. Min(S) = n
  <2>1. \A y \in S : (\A m \in S : y <= m) => y = n
    BY <1>0, <1>1, <1>2, <1>3
  <2> QED BY <1>3, <2>1 DEF Min
<1>5. Chunk = [i \in 1..n |-> offset + i - 1]
  BY <1>1, <1>2, <1>4 DEF Chunk
<1>6. n \in Nat /\ n <= remaining /\ n <= ChunkSize /\ n <= there
  BY <1>0, <1>1, <1>2, <1>3
<1>7. Chunk \in Seq(Nat \cup {None}) /\ Len(Chunk) = n
  BY <1>0, <1>5, <1>6
<1>8. Chunk = <<>> /\ remaining > 0 => disk <= offset
  BY <1>0, <1>1, <1>2, <1>3, <1>7
<1> QED BY <1>5, <1>6, <1>7, <1>8

\* _parse_range finds the bytes that are asked for, or that there are none.
LEMMA ParseIs ==
  ASSUME TypeOK, kind = "file", range # None
  PROVE  LET p == ParseRange(range)
         IN IF p = None THEN Asked = {}
            ELSE /\ p \in Nat \X Nat /\ p[1] <= p[2] /\ p[2] < size
                 /\ Asked = p[1]..p[2]
<1>0. size \in Nat /\ range \in Ranges /\ None \notin Nat /\ None \notin Nat \X Nat
      /\ range.first \in Nat \cup {None} /\ range.last \in Nat \cup {None}
  <2>1. Numbers \subseteq Nat
    BY ResponseBounds DEF Numbers
  <2> QED BY <2>1, ResponseBounds DEF TypeOK, Ranges
<1>1. PICK first : first = IF range.first # None THEN range.first
                           ELSE IF range.last >= size THEN 0 ELSE size - range.last
  OBVIOUS
<1>2. PICK last : last = IF range.first = None \/ range.last = None THEN size - 1 ELSE range.last
  OBVIOUS
<1>3. PICK cut : cut = IF last < size THEN last ELSE size - 1
  OBVIOUS
<1>4. ParseRange(range) = IF range = Bad \/ (range.first = None /\ range.last <= 0)
                             \/ last < first \/ first >= size
                          THEN None ELSE <<first, cut>>
  BY <1>1, <1>2, <1>3 DEF ParseRange
<1>5. CASE range = Bad
  <2>1. range.first = None /\ range.last = None
    BY <1>5 DEF Bad
  <2>2. Asked = {}
    BY <2>1 DEF Asked
  <2> QED BY <1>4, <1>5, <2>2
<1>6. CASE range # Bad /\ range.first = None
  <2>1. range.last \in Nat
    BY <1>0, <1>6 DEF Bad, Ranges
  <2>2. Asked = {i \in 0..(size - 1) : i >= size - range.last}
    BY <1>0, <1>6, <2>1 DEF Asked
  <2>3. last = size - 1 /\ first = IF range.last >= size THEN 0 ELSE size - range.last
    BY <1>1, <1>2, <1>6
  <2>4. CASE range.last = 0 \/ size = 0
    <3>1. Asked = {}
      BY <1>0, <2>1, <2>2, <2>4
    <3>2. ParseRange(range) = None
      BY <1>0, <1>4, <1>6, <2>1, <2>3, <2>4
    <3> QED BY <3>1, <3>2
  <2>5. CASE range.last # 0 /\ size # 0
    <3>1. first \in Nat /\ first < size /\ first <= last /\ cut = last /\ last \in Nat
      BY <1>0, <1>3, <2>1, <2>3, <2>5
    <3>2. ParseRange(range) = <<first, last>>
      BY <1>0, <1>4, <1>6, <2>1, <2>5, <3>1
    <3>3. Asked = first..last
      BY <1>0, <2>1, <2>2, <2>3, <3>1
    <3>4. <<first, last>> # None
      BY <1>0, <3>1
    <3> QED BY <1>0, <2>3, <3>1, <3>2, <3>3, <3>4
  <2> QED BY <1>0, <2>1, <2>4, <2>5
<1>7. CASE range # Bad /\ range.first # None
  <2>1. range.first \in Nat /\ first = range.first
    BY <1>0, <1>1, <1>7
  <2>2. last = IF range.last = None THEN size - 1 ELSE range.last
    BY <1>2, <1>7
  <2>3. last \in Int /\ last >= -1 /\ cut \in Int /\ cut < size /\ cut <= last
        /\ (cut = last \/ cut = size - 1)
    BY <1>0, <1>3, <2>2
  <2>4. Asked = {i \in 0..(size - 1) : i >= first /\ i <= last}
    BY <1>0, <1>7, <2>1, <2>2 DEF Asked
  <2>5. CASE last < first \/ first >= size
    <3>1. Asked = {}
      BY <1>0, <2>1, <2>3, <2>4, <2>5
    <3> QED BY <1>4, <2>5, <3>1
  <2>6. CASE ~(last < first) /\ ~(first >= size)
    <3>1. ParseRange(range) = <<first, cut>>
      BY <1>4, <1>7, <2>6
    <3>2. first \in Nat /\ cut \in Nat /\ first <= cut
      BY <1>0, <2>1, <2>3, <2>6
    <3>3. Asked = first..cut
      BY <1>0, <2>3, <2>4, <3>2
    <3>4. <<first, cut>> # None
      BY <1>0, <3>2
    <3> QED BY <1>0, <2>3, <3>1, <3>2, <3>3, <3>4
  <2> QED BY <2>5, <2>6
<1> QED BY <1>5, <1>6, <1>7

-----------------------------------------------------------------------------

\* Type correctness.
LEMMA TypeInit == ASSUME Init PROVE TypeOK
<1>0. MaxSize \in Nat /\ MaxItems \in Nat
  BY ResponseBounds
<1>1. <<>> \in Seq(Messages)
  OBVIOUS
<1>2. kind \in {"plain", "stream", "events", "file"} /\ method \in {"GET", "HEAD"}
      /\ items \in Nat /\ size \in Nat /\ disk \in Nat
      /\ (kind = "file" => range \in Ranges \cup {None}) /\ known \in BOOLEAN
  <2>1. kind \in {"plain", "stream", "events", "file"} /\ items \in Nat
    BY <1>0 DEF Init
  <2>2. size \in Nat /\ (kind = "file" => range \in Ranges \cup {None}) /\ known \in BOOLEAN
    <3>1. CASE kind = "file"
      BY <1>0, <3>1 DEF Init
    <3>2. CASE kind # "file"
      <4>1. known = FALSE /\ size = 0
        BY <3>2 DEF Init
      <4> QED BY <3>2, <4>1
    <3> QED BY <3>1, <3>2
  <2>3. disk = size /\ method \in {"GET", "HEAD"}
    BY DEF Init
  <2> QED BY <2>1, <2>2, <2>3
<1>3. taken = 0 /\ closed = FALSE /\ pings = 0 /\ status = 200 /\ span = None /\ length = None
      /\ offset = 0 /\ remaining = 0 /\ sent = <<>> /\ background \in {"none", "waiting"}
      /\ phase = (IF kind = "file" THEN "returned" ELSE "prepared")
  BY DEF Init
<1> QED BY <1>1, <1>2, <1>3 DEF TypeOK

LEMMA TypeNext == ASSUME TypeOK, [Next]_vars PROVE TypeOK'
<1> USE DEF request, headers, file, stream
<1>0. /\ status \in {200, 206, 304, 416} /\ size \in Nat /\ offset \in Nat /\ remaining \in Nat
      /\ taken \in Nat /\ pings \in Nat /\ closed \in BOOLEAN /\ disk \in Nat
  BY DEF TypeOK
<1>a. \A m \in Messages : Append(sent, m) \in Seq(Messages)
  BY DEF TypeOK
<1>b. <<1>> \in Seq(Nat \cup {None}) /\ <<>> \in Seq(Nat \cup {None}) /\ Ping \in Seq(Nat \cup {None})
  BY DEF Ping
<1>c. \A b \in Seq(Nat \cup {None}), more \in BOOLEAN : Append(sent, Body(b, more)) \in Seq(Messages)
  BY <1>a, MessageTypes
<1>1. ASSUME Prepare PROVE TypeOK'
  <2>0. PICK p : p = ParseRange(range)
    OBVIOUS
  <2>p. range # None /\ p # None => p \in Nat \X Nat /\ p[1] <= p[2] /\ p[2] < size
    <3>1. kind = "file"
      BY <1>1 DEF Prepare, TypeOK
    <3> QED BY <2>0, <3>1, ParseIs
  <2>1. length' \in Nat \cup {None}
    BY <1>0, <1>1, <2>0, <2>p DEF Prepare
  <2>2. span' = None \/ (span' \in Nat \X Nat /\ span'[1] <= span'[2] /\ span'[2] < size)
    BY <1>1, <2>0, <2>p DEF Prepare
  <2> QED BY <1>1, <2>1, <2>2 DEF Prepare, TypeOK
<1>2. ASSUME SendStart PROVE TypeOK'
  <2>1. sent' \in Seq(Messages)
    BY <1>2, <1>a, MessageTypes DEF SendStart
  <2>2. offset' \in Nat /\ remaining' \in Nat
    BY <1>0, <1>2 DEF SendStart, TypeOK
  <2> QED BY <1>2, <2>1, <2>2 DEF SendStart, TypeOK
<1>3. ASSUME SendWhole PROVE TypeOK'
  <2>1. sent' \in Seq(Messages)
    BY <1>3, <1>b, <1>c DEF SendWhole, Finish
  <2>2. phase' = "sent"
    BY <1>3 DEF SendWhole, Finish
  <2> QED BY <1>3, <2>1, <2>2 DEF SendWhole, TypeOK
<1>4. ASSUME SendChunk PROVE TypeOK'
  <2>1. PICK n \in Nat : n = Len(Chunk) /\ n <= remaining /\ Chunk \in Seq(Nat \cup {None})
    BY ChunkIs
  <2>2. offset' \in Nat /\ remaining' \in Nat
    BY <1>0, <1>4, <2>1 DEF SendChunk
  <2>3. sent' \in Seq(Messages)
    <3>1. (remaining' > 0) \in BOOLEAN
      OBVIOUS
    <3> QED BY <1>4, <1>c, <2>1, <3>1 DEF SendChunk
  <2> QED BY <1>4, <2>2, <2>3 DEF SendChunk, TypeOK
<1>5. ASSUME EndEarly PROVE TypeOK'
  BY <1>5 DEF EndEarly, TypeOK
<1>6. ASSUME FileChanges PROVE TypeOK'
  <2>1. disk' \in Nat
    BY <1>6, ResponseBounds DEF FileChanges
  <2> QED BY <1>6, <2>1 DEF FileChanges, TypeOK
<1>7. ASSUME SendItem PROVE TypeOK'
  <2>1. taken' \in Nat /\ <<taken'>> \in Seq(Nat \cup {None})
    BY <1>0, <1>7 DEF SendItem
  <2>2. sent' \in Seq(Messages)
    BY <1>7, <1>c, <2>1 DEF SendItem
  <2>3. UNCHANGED <<request, headers, file, closed, pings, phase, background>>
    BY <1>7 DEF SendItem
  <2> QED BY <2>1, <2>2, <2>3 DEF TypeOK
<1>8. ASSUME SendPing PROVE TypeOK'
  <2>1. pings' \in Nat /\ Ping \in Seq(Nat \cup {None}) /\ closed' \in BOOLEAN
    BY <1>0, <1>8 DEF SendPing, Ping
  <2>2. sent' \in Seq(Messages)
    BY <1>8, <1>c, <2>1 DEF SendPing
  <2>3. UNCHANGED <<request, headers, file, taken, phase, background>>
    BY <1>8 DEF SendPing
  <2> QED BY <2>1, <2>2, <2>3 DEF TypeOK
<1>9. ASSUME SendLast PROVE TypeOK'
  <2>2. sent' \in Seq(Messages)
    BY <1>9, <1>b, <1>c DEF SendLast, Finish
  <2>3. phase' = "sent"
    BY <1>9 DEF SendLast, Finish
  <2> QED BY <1>9, <2>2, <2>3 DEF SendLast, TypeOK
<1>10. ASSUME Break PROVE TypeOK'
  BY <1>10 DEF Break, TypeOK
<1>11. ASSUME RunBackground PROVE TypeOK'
  BY <1>11 DEF RunBackground, TypeOK
<1>12. ASSUME UNCHANGED vars PROVE TypeOK'
  BY <1>12 DEF vars, TypeOK
<1> QED BY <1>1, <1>2, <1>3, <1>4, <1>5, <1>6, <1>7, <1>8, <1>9, <1>10, <1>11, <1>12 DEF Next

-----------------------------------------------------------------------------
(* The messages. *)

\* A message more: all before it say that more follows, and it is no start
\* unless it is the first.
LEMMA FramedAppend ==
  ASSUME TypeOK, Framed, ~Ended, NEW m \in Messages, sent' = Append(sent, m),
         (m.type = "start") = (sent = <<>>)
  PROVE  /\ sent' # <<>> /\ sent'[Len(sent')] = m
         /\ \A i \in DOMAIN sent' : (sent'[i].type = "start") = (i = 1)
         /\ \A i \in 1..(Len(sent') - 1) : sent'[i].more
         /\ sent # <<>> => sent'[1] = sent[1]
<1>1. sent \in Seq(Messages)
  BY DEF TypeOK
<1>2. /\ Len(sent') = Len(sent) + 1 /\ sent' # <<>> /\ sent'[Len(sent) + 1] = m
      /\ Len(sent) \in Nat /\ DOMAIN sent' = 1..(Len(sent) + 1) /\ DOMAIN sent = 1..Len(sent)
  BY <1>1
<1>3. \A i \in 1..Len(sent) : sent'[i] = sent[i]
  BY <1>1
<1>4. ASSUME NEW i \in DOMAIN sent' PROVE (sent'[i].type = "start") = (i = 1)
  <2>1. CASE i \in 1..Len(sent)
    BY <1>2, <1>3, <2>1 DEF Framed
  <2>2. CASE i = Len(sent) + 1
    <3>1. (sent = <<>>) = (i = 1)
      BY <1>1, <2>2
    <3> QED BY <1>2, <2>2, <3>1
  <2> QED BY <1>2, <2>1, <2>2
<1>5. ASSUME NEW i \in 1..(Len(sent') - 1) PROVE sent'[i].more
  <2>1. i \in 1..Len(sent) /\ sent # <<>>
    BY <1>1, <1>2
  <2>2. i \in 1..(Len(sent) - 1) \/ i = Len(sent)
    BY <2>1, <1>1
  <2> QED BY <1>3, <2>1, <2>2 DEF Framed
<1>6. sent # <<>> => 1 \in 1..Len(sent)
  BY <1>1
<1> QED BY <1>2, <1>3, <1>4, <1>5, <1>6

\* Every step keeps the messages in order.
LEMMA FramedNext == ASSUME TypeOK, Framed, FileRead, [Next]_vars PROVE Framed'
<1> USE DEF request, headers, file, stream, Ended
<1>a. <<1>> \in Seq(Nat \cup {None}) /\ <<>> \in Seq(Nat \cup {None}) /\ Ping \in Seq(Nat \cup {None})
  BY DEF Ping
<1>1. ASSUME Prepare PROVE Framed'
  BY <1>1 DEF Prepare, Framed
<1>2. ASSUME SendStart PROVE Framed'
  <2>1. Start \in Messages /\ Start.type = "start" /\ Start.more
    BY MessageTypes DEF Start
  <2>2. sent = <<>> /\ ~Ended /\ sent' = Append(sent, Start) /\ ~Ended' /\ phase' = "sending"
        /\ background' = background /\ phase = "prepared"
    BY <1>2 DEF SendStart, Framed
  <2> QED BY <2>1, <2>2, FramedAppend DEF Framed
<1>b. ASSUME NEW m, m.type = "body", m \in Messages, phase = "sending", sent' = Append(sent, m),
             IF m.more THEN phase' = "sending" ELSE phase' = "sent",
             background' = background
      PROVE  Framed'
  <2>1. sent # <<>> /\ ~Ended
    BY <1>b DEF Framed
  <2> QED BY <1>b, <2>1, FramedAppend DEF Framed
<1>c. \A b : Body(b, TRUE).more /\ ~Body(b, FALSE).more /\ Body(b, TRUE).type = "body"
             /\ Body(b, FALSE).type = "body"
  BY DEF Body
<1>3. ASSUME SendWhole PROVE Framed'
  BY <1>3, <1>a, <1>b, <1>c, MessageTypes DEF SendWhole, Finish
<1>4. ASSUME SendChunk PROVE Framed'
  <2>1. Chunk \in Seq(Nat \cup {None})
    BY ChunkIs
  <2>2. remaining' \in Nat
    BY <1>4, TypeNext DEF Next, TypeOK
  <2>0. phase' = (IF remaining' = 0 THEN "sent" ELSE phase) /\ phase = "sending"
        /\ sent' = Append(sent, Body(Chunk, remaining' > 0)) /\ background' = background
    BY <1>4 DEF SendChunk
  <2>3. CASE remaining' > 0
    <3>1. sent' = Append(sent, Body(Chunk, TRUE)) /\ phase' = "sending" /\ phase = "sending"
          /\ background' = background
      <4>1. (remaining' > 0) = TRUE
        BY <2>2, <2>3
      <4>2. sent' = Append(sent, Body(Chunk, TRUE))
        BY <2>0, <4>1
      <4>3. remaining' # 0
        BY <2>2, <2>3
      <4>4. phase' = phase
        BY <2>0, <4>3
      <4> QED BY <2>0, <4>2, <4>4
    <3> QED BY <1>b, <1>c, <2>1, <3>1, MessageTypes
  <2>4. CASE remaining' = 0
    <3>1. sent' = Append(sent, Body(Chunk, FALSE)) /\ phase' = "sent" /\ phase = "sending"
          /\ background' = background
      <4>1. (remaining' > 0) = FALSE
        BY <2>2, <2>4
      <4>2. sent' = Append(sent, Body(Chunk, FALSE))
        BY <2>0, <4>1
      <4> QED BY <2>0, <2>4, <4>2
    <3> QED BY <1>b, <1>c, <2>1, <3>1, MessageTypes
  <2> QED BY <2>2, <2>3, <2>4
<1>5. ASSUME EndEarly PROVE Framed'
  <2>1. disk <= offset
    BY <1>5, ChunkIs DEF EndEarly
  <2>2. status \in {200, 206}
    BY <1>5 DEF EndEarly, TypeOK
  <2>3. offset + remaining = To + 1
    BY <1>5, <2>2 DEF EndEarly, FileRead, Read
  <2>4. To < size /\ To \in Int
    BY DEF To, TypeOK
  <2>5. disk < size
    BY <1>5, <2>1, <2>3, <2>4 DEF EndEarly, TypeOK
  <2> QED BY <1>5, <2>5 DEF EndEarly, Framed
<1>6. ASSUME FileChanges PROVE Framed'
  BY <1>6 DEF FileChanges, Framed
<1>7. ASSUME SendItem PROVE Framed'
  <2>1. <<taken'>> \in Seq(Nat \cup {None})
    BY <1>7, TypeNext DEF Next, TypeOK
  <2> QED BY <1>7, <1>b, <1>c, <2>1, MessageTypes DEF SendItem
<1>8. ASSUME SendPing PROVE Framed'
  BY <1>8, <1>a, <1>b, <1>c, MessageTypes DEF SendPing
<1>9. ASSUME SendLast PROVE Framed'
  BY <1>9, <1>a, <1>b, <1>c, MessageTypes DEF SendLast, Finish
<1>10. ASSUME Break PROVE Framed'
  BY <1>10 DEF Break, Framed
<1>11. ASSUME RunBackground PROVE Framed'
  BY <1>11 DEF RunBackground, Framed
<1>12. ASSUME UNCHANGED vars PROVE Framed'
  BY <1>12 DEF vars, Framed
<1> QED BY <1>1, <1>2, <1>3, <1>4, <1>5, <1>6, <1>7, <1>8, <1>9, <1>10, <1>11, <1>12 DEF Next

-----------------------------------------------------------------------------
(* A file. *)

\* The first message stays the first.
LEMMA FirstStays ==
  ASSUME TypeOK, NEW m \in Messages, sent' = Append(sent, m)
  PROVE  sent' # <<>> /\ (IF sent = <<>> THEN sent'[1] = m ELSE sent'[1] = sent[1])
<1>1. sent \in Seq(Messages)
  BY DEF TypeOK
<1>2. CASE sent = <<>>
  BY <1>1, <1>2
<1>3. CASE sent # <<>>
  BY <1>1, <1>3
<1> QED BY <1>2, <1>3

\* Bytes that go on where the others ended.
LEMMA RunOn ==
  ASSUME NEW a \in Nat, NEW k \in Nat, NEW n \in Nat
  PROVE  [i \in 1..k |-> a + i - 1] \o [i \in 1..n |-> a + k + i - 1] = [i \in 1..(k + n) |-> a + i - 1]
<1>1. PICK s, t, u : /\ s = [i \in 1..k |-> a + i - 1] /\ t = [i \in 1..n |-> a + k + i - 1]
                     /\ u = [i \in 1..(k + n) |-> a + i - 1]
  OBVIOUS
<1>2. s \in Seq(Nat) /\ t \in Seq(Nat) /\ u \in Seq(Nat) /\ Len(s) = k /\ Len(t) = n /\ Len(u) = k + n
  BY <1>1
<1>3. /\ s \o t \in Seq(Nat) /\ Len(s \o t) = k + n
      /\ \A i \in 1..(k + n) : (s \o t)[i] = IF i <= k THEN s[i] ELSE t[i - k]
  <2>1. Len(s) + Len(t) = k + n
    BY <1>2
  <2> QED BY <1>2, <2>1, ConcatProperties
<1>4. ASSUME NEW i \in 1..(k + n) PROVE (s \o t)[i] = u[i]
  <2>1. CASE i <= k
    <3>1. (s \o t)[i] = s[i] /\ i \in 1..k
      BY <1>3, <2>1
    <3> QED BY <1>1, <3>1
  <2>2. CASE ~(i <= k)
    <3>1. (s \o t)[i] = t[i - k] /\ i - k \in 1..n
      <4>1. i - k \in 1..n
        BY <2>2
      <4> QED BY <1>3, <2>2, <4>1
    <3>2. t[i - k] = a + k + (i - k) - 1
      BY <1>1, <3>1
    <3> QED BY <1>1, <3>1, <3>2
  <2> QED BY <2>1, <2>2
<1>5. s \o t = u
  BY <1>2, <1>3, <1>4, SeqEqual
<1> QED BY <1>1, <1>5

\* Every step sends of a file what comes next.
LEMMA FileNext == ASSUME TypeOK, Framed, FileRead, [Next]_vars PROVE FileRead'
<1> USE DEF request, headers, file, stream, Ended
<1>1. SUFFICES ASSUME kind = "file" PROVE FileRead'
  <2>1. kind' = kind
    BY DEF Next, vars, Prepare, SendStart, SendWhole, SendChunk, EndEarly, FileChanges, SendItem,
           SendPing, SendLast, Break, RunBackground
  <2> QED BY <2>1 DEF FileRead
<1>2. size \in Nat /\ offset \in Nat /\ remaining \in Nat /\ From \in Nat /\ To \in Int /\ To < size
      /\ disk \in Nat
  BY DEF TypeOK, From, To
<1>a. ASSUME UNCHANGED <<request, headers>> PROVE From' = From /\ To' = To /\ Asked' = Asked
             /\ Decided' = Decided
  BY <1>a DEF From, To, Asked, Decided
<1>3. ASSUME Prepare PROVE FileRead'
  <2>1. phase' = "prepared" /\ sent' = sent /\ sent = <<>> /\ status = 200 /\ span = None
        /\ Asked' = Asked
    BY <1>1, <1>3 DEF Prepare, FileRead, Framed, Asked
  <2>2. Decided'
    <3>1. CASE known
      BY <1>3, <3>1 DEF Prepare, Decided
    <3>2. CASE ~known /\ method = "GET" /\ range # None /\ ParseRange(range) = None
      <4>1. Asked = {}
        BY <1>1, <3>2, ParseIs
      <4> QED BY <1>3, <2>1, <3>2, <4>1 DEF Prepare, Decided
    <3>3. CASE ~known /\ method = "GET" /\ range # None /\ ParseRange(range) # None
      <4>1. PICK p : p = ParseRange(range)
        OBVIOUS
      <4>2. Asked = p[1]..p[2] /\ p # None
        BY <1>1, <3>3, <4>1, ParseIs
      <4>3. status' = 206 /\ span' = p /\ length' = p[2] - p[1] + 1
        BY <1>3, <3>3, <4>1 DEF Prepare
      <4> QED BY <2>1, <4>2, <4>3 DEF Decided, From, To
    <3>4. CASE ~known /\ (method # "GET" \/ range = None)
      BY <1>3, <2>1, <3>4 DEF Prepare, Decided
    <3> QED BY <3>1, <3>2, <3>3, <3>4
  <2> QED BY <2>1, <2>2 DEF FileRead
<1>4. ASSUME SendStart PROVE FileRead'
  <2>1. phase' = "sending" /\ phase = "prepared" /\ sent' = Append(sent, Start) /\ sent = <<>>
        /\ offset' = From /\ remaining' = To - From + 1 /\ UNCHANGED <<request, headers, disk>>
    BY <1>4 DEF SendStart, From, To, Framed
  <2>2. From' = From /\ To' = To /\ Decided' = Decided
    BY <1>a, <2>1
  <2>3. Start \in Messages /\ Start.body = <<>> /\ Start.status = status /\ Start.length = length
    BY MessageTypes DEF Start
  <2>4. sent'[1] = Start
    BY <2>1, <2>3, FirstStays
  <2>5. Received' = <<>>
    BY <2>1, <2>3, NothingReceived, ReceivedNext
  <2>6. Read'
    <3>1. Received' = [i \in 1..(offset' - From) |-> From + i - 1]
      BY <1>2, <2>1, <2>5
    <3>2. From <= offset' /\ offset' + remaining' = To + 1
      BY <1>2, <2>1
    <3> QED BY <2>1, <2>2, <3>1, <3>2 DEF Read
  <2>7. Decided
    BY <1>1, <2>1 DEF FileRead
  <2> QED BY <2>1, <2>2, <2>3, <2>4, <2>5, <2>6, <2>7 DEF FileRead
<1>5. ASSUME SendWhole PROVE FileRead'
  <2>1. phase' = "sent" /\ phase = "sending" /\ sent' = Append(sent, Body(<<>>, FALSE))
        /\ (status \in {304, 416} \/ remaining = 0) /\ UNCHANGED <<request, headers, file>>
    BY <1>1, <1>5 DEF SendWhole, Finish
  <2>2. Body(<<>>, FALSE) \in Messages /\ Body(<<>>, FALSE).body = <<>> /\ sent # <<>>
    <3>1. <<>> \in Seq(Nat \cup {None})
      OBVIOUS
    <3> QED BY <2>1, <3>1, MessageTypes DEF Body, Framed
  <2>3. sent' # <<>> /\ sent'[1] = sent[1]
    BY <2>1, <2>2, FirstStays
  <2>4. Received' = Received
    <3>1. PICK r \in Seq(Nat \cup {None}) : r = Received
      BY ReceivedType
    <3>2. Received' = r \o <<>>
      BY <2>1, <2>2, <3>1, ReceivedNext
    <3> QED BY <3>1, <3>2
  <2>5. From' = From /\ To' = To /\ Decided' = Decided
    BY <1>a, <2>1
  <2>6. status \notin {304, 416} => Read /\ remaining = 0
    BY <1>1, <2>1 DEF FileRead
  <2>7. status \notin {304, 416} => Read'
    BY <2>1, <2>4, <2>5, <2>6 DEF Read
  <2> QED BY <1>1, <2>1, <2>2, <2>3, <2>4, <2>5, <2>7, ZenonT(60) DEF FileRead
<1>6. ASSUME SendChunk PROVE FileRead'
  <2>1. PICK n \in Nat : /\ n = Len(Chunk) /\ n <= remaining /\ Chunk \in Seq(Nat \cup {None})
                         /\ Chunk = [i \in 1..n |-> offset + i - 1]
    BY ChunkIs
  <2>2. PICK c : c = Chunk
    OBVIOUS
  <2>3. PICK m : m = Body(c, remaining' > 0)
    OBVIOUS
  <2>4. m \in Messages /\ m.body = c
    <3>1. (remaining' > 0) \in BOOLEAN
      OBVIOUS
    <3> QED BY <2>1, <2>2, <2>3, <3>1, MessageTypes DEF Body
  <2>5. phase = "sending" /\ phase' = (IF remaining' = 0 THEN "sent" ELSE "sending")
        /\ offset' = offset + n /\ remaining' = remaining - n /\ sent' = Append(sent, m)
        /\ status \notin {304, 416} /\ sent # <<>> /\ UNCHANGED <<request, headers, disk>>
    BY <1>6, <2>1, <2>2, <2>3 DEF SendChunk, Framed
  <2>6. sent' # <<>> /\ sent'[1] = sent[1]
    BY <2>4, <2>5, FirstStays
  <2>7. From' = From /\ To' = To /\ Decided' = Decided
    BY <1>a, <2>5
  <2>8. /\ From <= offset /\ offset + remaining = To + 1
        /\ Received = [i \in 1..(offset - From) |-> From + i - 1]
    BY <1>1, <2>5 DEF FileRead, Read
  <2>9. Received' = [i \in 1..(offset' - From) |-> From + i - 1]
    <3>1. Received' = Received \o c
      BY <2>4, <2>5, ReceivedNext
    <3>2. PICK k \in Nat : k = offset - From
      BY <1>2, <2>8
    <3>3. Received = [i \in 1..k |-> From + i - 1] /\ c = [i \in 1..n |-> From + k + i - 1]
      BY <1>2, <2>1, <2>2, <2>8, <3>2
    <3>4. offset' - From = k + n
      BY <1>2, <2>5, <3>2
    <3>5. From + k = offset
      BY <1>2, <2>8, <3>2
    <3>6. Received \o c = [i \in 1..(k + n) |-> From + i - 1]
      BY <1>2, <3>3, RunOn
    <3> QED BY <3>1, <3>4, <3>6
  <2>10. From <= offset' /\ offset' + remaining' = To + 1
    <3>1. n <= remaining
      BY <2>1
    <3> QED BY <1>2, <2>5, <2>8, <3>1
  <2>11. Read'
    BY <2>5, <2>7, <2>9, <2>10 DEF Read
  <2> QED BY <1>1, <2>5, <2>6, <2>7, <2>11 DEF FileRead
<1>7. ASSUME EndEarly PROVE FileRead'
  <2>1. disk <= offset /\ remaining > 0
    BY <1>7, ChunkIs DEF EndEarly
  <2>2. status \in {200, 206} /\ phase = "sending"
    BY <1>7 DEF EndEarly, TypeOK
  <2>3. offset + remaining = To + 1
    BY <1>1, <2>2 DEF FileRead, Read
  <2>4. disk # size
    BY <1>2, <2>1, <2>3
  <2>5. UNCHANGED <<request, headers, file, sent>> /\ phase' = "sent" /\ Received' = Received
    BY <1>7, ReceivedSame DEF EndEarly
  <2>6. From' = From /\ To' = To /\ Decided' = Decided
    BY <1>a, <2>5
  <2> QED BY <1>1, <2>2, <2>4, <2>5, <2>6 DEF FileRead, Read
<1>8. ASSUME FileChanges PROVE FileRead'
  <2>1. UNCHANGED <<request, headers, offset, remaining, phase, sent>> /\ Received' = Received
        /\ phase \in {"returned", "prepared", "sending"}
    BY <1>8, ReceivedSame DEF FileChanges
  <2>2. From' = From /\ To' = To /\ Decided' = Decided
    BY <1>a, <2>1
  <2> QED BY <1>1, <2>1, <2>2 DEF FileRead, Read
<1>9. ASSUME SendItem \/ SendPing \/ SendLast PROVE FALSE
  BY <1>1, <1>9 DEF SendItem, SendPing, SendLast
<1>10. ASSUME Break \/ RunBackground \/ UNCHANGED vars PROVE FileRead'
  <2>1. UNCHANGED <<request, headers, file, sent>> /\ Received' = Received
    BY <1>10, ReceivedSame DEF Break, RunBackground, vars
  <2>2. From' = From /\ To' = To /\ Decided' = Decided
    BY <1>a, <2>1
  <2>3. \/ phase' = "broken" /\ phase # "returned"
        \/ phase \in {"sent", "done"} /\ phase' \in {"sent", "done"}
        \/ phase' = phase
    BY <1>10 DEF Break, RunBackground, vars
  <2> QED BY <1>1, <2>1, <2>2, <2>3 DEF FileRead, Read
<1> QED BY <1>3, <1>4, <1>5, <1>6, <1>7, <1>8, <1>9, <1>10 DEF Next

-----------------------------------------------------------------------------
(* A stream. *)

\* Its messages carry an item, a ping or nothing.
LEMMA OneMore ==
  ASSUME TypeOK, NEW b \in {<<>>, Ping, <<taken + 1>>}, Received' = Received \o b,
         \A i, j \in Given : i < j => Received[i] < Received[j],
         {Received[i] : i \in Given} = 1..taken
  PROVE  /\ \A i, j \in Given' : i < j => Received'[i] < Received'[j]
         /\ {Received'[i] : i \in Given'} = 1..(IF b = <<taken + 1>> THEN taken + 1 ELSE taken)
<1>1. PICK r \in Seq(Nat \cup {None}) : r = Received
  BY ReceivedType
<1>2. PICK G : G = Given
  OBVIOUS
<1>3. /\ G = {i \in 1..Len(r) : r[i] # None} /\ taken \in Nat /\ None \notin Nat /\ Len(r) \in Nat
      /\ \A i, j \in G : i < j => r[i] < r[j]
      /\ {r[i] : i \in G} = 1..taken
  BY <1>1, <1>2, ResponseBounds DEF Given, TypeOK
<1>4. taken + 1 \in Nat /\ taken + 1 # None /\ <<taken + 1>> # <<>> /\ <<taken + 1>> # Ping
      /\ <<>> \in Seq(Nat \cup {None}) /\ Ping \in Seq(Nat \cup {None})
      /\ <<taken + 1>> \in Seq(Nat \cup {None})
  BY <1>3 DEF Ping
<1>5. CASE b = <<>>
  <2>1. Received' = r
    BY <1>1, <1>5
  <2> QED BY <1>1, <1>2, <1>3, <1>4, <1>5, <2>1 DEF Given
<1>6. ASSUME NEW x \in Nat \cup {None}, b = <<x>>
      PROVE  /\ Received' \in Seq(Nat \cup {None}) /\ DOMAIN Received' = 1..(Len(r) + 1)
             /\ \A i \in 1..Len(r) : Received'[i] = r[i]
             /\ Received'[Len(r) + 1] = x
  <2>1. Received' = Append(r, x)
    BY <1>1, <1>6, AppendIsConcat
  <2> QED BY <1>3, <2>1
<1>7. CASE b = Ping
  <2>1. DOMAIN Received' = 1..(Len(r) + 1) /\ Received'[Len(r) + 1] = None
        /\ \A i \in 1..Len(r) : Received'[i] = r[i]
    BY <1>6, <1>7 DEF Ping
  <2>2. Given' = G
    BY <1>3, <2>1 DEF Given
  <2>3. \A i \in G : Received'[i] = r[i]
    BY <1>3, <2>1
  <2>4. {Received'[i] : i \in Given'} = 1..taken
    BY <1>3, <2>2, <2>3
  <2>5. \A i, j \in Given' : i < j => Received'[i] < Received'[j]
    BY <1>3, <2>2, <2>3
  <2> QED BY <1>4, <1>7, <2>4, <2>5
<1>8. CASE b = <<taken + 1>>
  <2>1. DOMAIN Received' = 1..(Len(r) + 1) /\ Received'[Len(r) + 1] = taken + 1
        /\ \A i \in 1..Len(r) : Received'[i] = r[i]
    BY <1>4, <1>6, <1>8
  <2>2. Given' = G \cup {Len(r) + 1}
    BY <1>3, <1>4, <2>1 DEF Given
  <2>3. \A i \in G : Received'[i] = r[i] /\ i \in 1..Len(r) /\ r[i] \in 1..taken
    BY <1>3, <2>1
  <2>4. ASSUME NEW i \in Given', NEW j \in Given', i < j PROVE Received'[i] < Received'[j]
    <3>1. i \in G
      BY <1>3, <2>2, <2>3, <2>4
    <3>2. CASE j \in G
      BY <1>3, <2>3, <2>4, <3>1, <3>2
    <3>3. CASE j = Len(r) + 1
      BY <1>3, <2>1, <2>3, <3>1, <3>3, SMTT(60)
    <3> QED BY <2>2, <3>2, <3>3
  <2>5. {Received'[i] : i \in Given'} = (1..taken) \cup {taken + 1}
    <3>1. {Received'[i] : i \in Given'} = {Received'[i] : i \in G} \cup {taken + 1}
      BY <2>1, <2>2
    <3>2. {Received'[i] : i \in G} = {r[i] : i \in G}
      BY <2>3
    <3> QED BY <1>3, <3>1, <3>2
  <2>6. (1..taken) \cup {taken + 1} = 1..(taken + 1)
    BY <1>3
  <2> QED BY <1>8, <2>4, <2>5, <2>6
<1> QED BY <1>5, <1>7, <1>8

\* Nothing is sent of a stream at first.
LEMMA StreamedInit == ASSUME Init PROVE Streamed
<1>1. Received = <<>>
  BY NothingReceived DEF Init
<1>2. Given = {}
  BY <1>1 DEF Given
<1>3. kind \in {"stream", "events"} => items \in Nat
  BY ResponseBounds DEF Init
<1>4. taken = 0 /\ ~closed /\ ~Ended
  BY DEF Init, Ended
<1> QED BY <1>2, <1>3, <1>4 DEF Streamed

\* Every step sends of a stream what comes next.
LEMMA StreamedNext == ASSUME TypeOK, Streamed, [Next]_vars PROVE Streamed'
<1> USE DEF request, headers, file, stream, Ended
<1>1. SUFFICES ASSUME kind \in {"stream", "events"} PROVE Streamed'
  <2>1. kind' = kind
    BY DEF Next, vars, Prepare, SendStart, SendWhole, SendChunk, EndEarly, FileChanges, SendItem,
           SendPing, SendLast, Break, RunBackground
  <2> QED BY <2>1 DEF Streamed
<1>2. /\ taken <= items /\ taken \in Nat /\ items \in Nat /\ pings \in Nat
      /\ \A i, j \in Given : i < j => Received[i] < Received[j]
      /\ {Received[i] : i \in Given} = 1..taken
      /\ closed => source = "generator" /\ pings > 0
      /\ Ended => closed \/ taken = items
  BY <1>1 DEF Streamed, TypeOK
<1>3. ASSUME NEW b \in {<<>>, Ping, <<taken + 1>>}, NEW m \in Messages, m.body = b,
             sent' = Append(sent, m), taken' = (IF b = <<taken + 1>> THEN taken + 1 ELSE taken)
      PROVE  /\ \A i, j \in Given' : i < j => Received'[i] < Received'[j]
             /\ {Received'[i] : i \in Given'} = 1..taken'
  <2>1. Received' = Received \o b
    BY <1>3, ReceivedNext
  <2> QED BY <1>2, <1>3, <2>1, OneMore
<1>4. /\ <<>> \in Seq(Nat \cup {None}) /\ Ping \in Seq(Nat \cup {None})
      /\ <<taken + 1>> \in Seq(Nat \cup {None}) /\ <<taken + 1>> # <<>> /\ <<taken + 1>> # Ping
  BY <1>2, ResponseBounds DEF Ping
<1>5. ASSUME SendStart PROVE Streamed'
  <2>1. Start \in Messages /\ Start.body = <<>>
    BY MessageTypes DEF Start
  <2>2. sent' = Append(sent, Start) /\ taken' = taken /\ UNCHANGED <<request, stream>>
        /\ phase' = "sending"
    BY <1>5 DEF SendStart
  <2> QED BY <1>2, <1>3, <1>4, <2>1, <2>2 DEF Streamed
<1>6. ASSUME SendItem PROVE Streamed'
  <2>1. Body(<<taken + 1>>, TRUE) \in Messages /\ Body(<<taken + 1>>, TRUE).body = <<taken + 1>>
    BY <1>4, MessageTypes DEF Body
  <2>2. taken' = taken + 1 /\ sent' = Append(sent, Body(<<taken + 1>>, TRUE)) /\ taken < items
        /\ phase' = "sending" /\ UNCHANGED <<request, closed, pings>>
    BY <1>6 DEF SendItem
  <2>3. taken' <= items' /\ ~Ended'
    BY <1>2, <2>2
  <2>4. /\ \A i, j \in Given' : i < j => Received'[i] < Received'[j]
        /\ {Received'[i] : i \in Given'} = 1..taken'
    BY <1>3, <2>1, <2>2
  <2> QED BY <1>2, <2>2, <2>3, <2>4 DEF Streamed
<1>7. ASSUME SendPing PROVE Streamed'
  <2>1. Body(Ping, TRUE) \in Messages /\ Body(Ping, TRUE).body = Ping
    BY <1>4, MessageTypes DEF Body
  <2>2. taken' = taken /\ sent' = Append(sent, Body(Ping, TRUE)) /\ pings' = pings + 1
        /\ phase' = "sending" /\ closed' = (source = "generator") /\ UNCHANGED <<request>>
    BY <1>7 DEF SendPing
  <2>3. ~Ended' /\ (closed' => source' = "generator" /\ pings' > 0)
    <3>1. ~Ended' /\ pings' > 0
      BY <1>2, <2>2
    <3>2. closed' => source' = "generator"
      BY <2>2
    <3> QED BY <3>1, <3>2
  <2>4. /\ \A i, j \in Given' : i < j => Received'[i] < Received'[j]
        /\ {Received'[i] : i \in Given'} = 1..taken'
    BY <1>3, <1>4, <2>1, <2>2
  <2> QED BY <1>2, <2>2, <2>3, <2>4 DEF Streamed
<1>8. ASSUME SendLast PROVE Streamed'
  <2>1. Body(<<>>, FALSE) \in Messages /\ Body(<<>>, FALSE).body = <<>>
    BY <1>4, MessageTypes DEF Body
  <2>2. sent' = Append(sent, Body(<<>>, FALSE)) /\ (closed \/ taken = items)
        /\ UNCHANGED <<request, stream>>
    BY <1>8 DEF SendLast, Finish
  <2> QED BY <1>2, <1>3, <1>4, <2>1, <2>2 DEF Streamed
<1>9. ASSUME SendWhole \/ SendChunk \/ EndEarly \/ FileChanges PROVE FALSE
  BY <1>1, <1>9 DEF SendWhole, SendChunk, EndEarly, FileChanges
<1>10. ASSUME Prepare PROVE FALSE
  BY <1>1, <1>10 DEF Prepare, TypeOK
<1>11. ASSUME Break \/ RunBackground \/ UNCHANGED vars PROVE Streamed'
  <2>1. UNCHANGED <<request, stream, sent>> /\ Received' = Received /\ Given' = Given
        /\ (Ended' => Ended)
    BY <1>11, ReceivedSame DEF Break, RunBackground, vars, Given
  <2> QED BY <1>2, <2>1 DEF Streamed
<1> QED BY <1>5, <1>6, <1>7, <1>8, <1>9, <1>10, <1>11 DEF Next

-----------------------------------------------------------------------------
(* The theorems. *)

\* The invariant holds at first, after every step, and so always.
LEMMA IInvInit == ASSUME Init PROVE IInv
<1>1. TypeOK /\ Streamed
  BY TypeInit, StreamedInit
<1>2. sent = <<>> /\ background # "ran" /\ phase \in {"returned", "prepared"} /\ span = None
      /\ status = 200 /\ (kind = "file" => phase = "returned")
  BY DEF Init
<1>3. Framed
  BY <1>2 DEF Framed, Ended
<1>4. FileRead
  BY <1>2 DEF FileRead
<1> QED BY <1>1, <1>3, <1>4 DEF IInv

LEMMA IInvNext == ASSUME IInv, [Next]_vars PROVE IInv'
  BY TypeNext, FramedNext, FileNext, StreamedNext DEF IInv

LEMMA Invariant == Spec => []IInv
  BY IInvInit, IInvNext, PTL DEF Spec

\* A file that does not change is sent byte for byte: all of it, or the bytes
\* its Range header asks for, under the status and length that say so
\* (FileResponse.prepare_for_request, _parse_range, send).
THEOREM FilesSentAsAsked == Spec => []FileAsAsked
<1>1. ASSUME IInv PROVE FileAsAsked
  <2>1. SUFFICES ASSUME kind = "file", Ended, disk = size PROVE FileAsAsked
    BY DEF FileAsAsked
  <2>2. /\ Decided /\ sent[1].status = status /\ sent[1].length = length
        /\ IF status \in {304, 416} THEN Received = <<>> ELSE Read
    BY <1>1, <2>1 DEF IInv, FileRead, Framed, Ended
  <2>3. size \in Nat /\ From \in Nat /\ To \in Int /\ To < size /\ remaining \in Nat
        /\ status \in {200, 206, 304, 416}
    BY <1>1 DEF IInv, TypeOK, From, To
  <2>4. CASE status \in {304, 416}
    BY <2>2, <2>4 DEF FileAsAsked, Decided
  <2>5. CASE status \in {200, 206}
    <3>1. offset = To + 1 /\ From <= To + 1 /\ Received = [i \in 1..(offset - From) |-> From + i - 1]
      BY <1>1, <2>1, <2>2, <2>3, <2>5 DEF Read, IInv, TypeOK
    <3>2. PICK n \in Nat : n = To + 1 - From
      BY <2>3, <3>1
    <3>3. Received = [i \in 1..n |-> From + i - 1]
      <4>1. offset - From = n
        BY <2>3, <3>1, <3>2
      <4> QED BY <3>1, <4>1
    <3>4. Len(Received) = n
      BY <3>3
    <3>5. \A i \in 2..Len(Received) : Received[i] = Received[i - 1] + 1
      BY <2>3, <3>2, <3>3, <3>4
    <3>6. CASE status = 200
      <4>1. span = None /\ length = size /\ From = 0 /\ To = size - 1
        BY <2>2, <3>6 DEF Decided, From, To
      <4>2. n = size
        BY <2>3, <3>2, <4>1
      <4>3. Received = [i \in 1..size |-> i - 1]
        BY <3>3, <4>1, <4>2
      <4> QED BY <2>2, <3>4, <3>5, <3>6, <4>1, <4>2, <4>3 DEF FileAsAsked
    <3>7. CASE status = 206
      <4>1. length = To - From + 1 /\ Asked = From..To
        BY <2>2, <3>7 DEF Decided
      <4>2. length = n
        BY <2>3, <3>2, <4>1
      <4>3. ToSet(Received) = From..To
        <5>1. ToSet(Received) = {From + i - 1 : i \in 1..n}
          BY <3>3 DEF ToSet
        <5>2. ASSUME NEW b \in From..To PROVE b \in {From + i - 1 : i \in 1..n}
          <6>1. b - From + 1 \in 1..n /\ b = From + (b - From + 1) - 1
            BY <2>3, <3>2
          <6> QED BY <6>1
        <5>3. \A i \in 1..n : From + i - 1 \in From..To
          BY <2>3, <3>2
        <5> QED BY <5>1, <5>2, <5>3
      <4> QED BY <2>2, <3>4, <3>5, <3>7, <4>1, <4>2, <4>3 DEF FileAsAsked
    <3> QED BY <2>5, <3>6, <3>7
  <2> QED BY <2>3, <2>4, <2>5
<1> QED BY <1>1, Invariant, PTL

\* One start, then bodies of which only the last says so, then the background
\* task, once and never after a failure (send() and _run_background of every
\* response class).
THEOREM AnswersWellSent == Spec => []WellSent
<1>1. IInv => WellSent
  BY DEF IInv, Framed, WellSent, Ended
<1> QED BY <1>1, Invariant, PTL

\* A stream's items arrive each once and in order, and all of them when it
\* ends, unless a ping has closed its generator (StreamingResponse.send,
\* EventSourceResponse.send).
THEOREM StreamsComplete == Spec => []NothingSkipped
<1>1. ASSUME IInv PROVE NothingSkipped
  <2>1. SUFFICES ASSUME kind \in {"stream", "events"} PROVE NothingSkipped
    BY DEF NothingSkipped
  <2>2. /\ taken <= items /\ taken \in Nat /\ items \in Nat
        /\ \A i, j \in Given : i < j => Received[i] < Received[j]
        /\ {Received[i] : i \in Given} = 1..taken
        /\ Ended => taken = items \/ (source = "generator" /\ pings > 0)
    BY <1>1, <2>1 DEF IInv, Streamed, TypeOK
  <2>3. taken \in 0..items
    BY <2>2
  <2> QED BY <2>2, <2>3 DEF NothingSkipped, Given
<1> QED BY <1>1, Invariant, PTL

-----------------------------------------------------------------------------
(* RequestBody: what the invariant says.                                   *)

Atoms == Text \cup Heads
Piece == [head : Heads, data : Seq(Atoms)]  \* a part, or the beginning of one

\* What the parser has not looked at yet, and all of it that it has not gone by.
Ahead == IF feed = "wire" THEN wire ELSE IF mode = "preamble" /\ buffer # body THEN body ELSE <<>>
Unread == buffer \o Ahead

\* The first k parts are read.
Coming(k) == Left(given, Len(given) - k)

ParserModes == {"preamble", "delimited", "headers", "data", "seek"}

BodyTypes ==
    /\ given \in Forms
    /\ wire \in Seq(Atoms) /\ buffer \in Seq(Atoms)
    /\ ended \in BOOLEAN /\ gone \in BOOLEAN /\ failed \in BOOLEAN
    /\ total \in Nat
    /\ goal \in {Absent, "body", "form"} /\ feed \in {"wire", "body"}
    /\ mode \in {"idle", "stream", "decode"} \cup ParserModes
    /\ body = Absent \/ body \in Seq(Atoms)
    /\ parts \in Seq(Piece)
    /\ form = Absent \/ form \in Seq(Piece)

\* The parts ps are the first of those sent, and fit.
Intact(ps) ==
    /\ Len(ps) <= Len(given) /\ Len(ps) <= MaxFields
    /\ \A i \in 1..Len(ps) : ps[i] = given[i] /\ ~TooLong(given[i])

\* They are, but for the last, which broke off.
CutOff(ps) ==
    /\ Len(ps) \in 1..Len(given)
    /\ \A i \in 1..Len(ps) :
          /\ ps[i].head = given[i].head
          /\ IF i < Len(ps) THEN ps[i].data = given[i].data
             ELSE IsPrefix(ps[i].data, given[i].data \o Marker)

\* Headers may still have the end of the line before them.
AtHeaders ==
    LET k == Len(parts) p == given[k + 1]
        line == <<p.head>> \o (Blank \o (p.data \o (CRLF \o Coming(k + 1)))) IN
    IF k = Len(given) THEN Unread = <<"-", "-">> ELSE Unread \in {line, CRLF \o line}

InData ==
    LET k == Len(parts) p == given[k + 1] IN
    /\ k < Len(given) /\ k < MaxFields
    /\ part \in Piece /\ part.head = p.head
    /\ Len(part.data) <= Len(p.data)
    /\ part.data \o Unread = p.data \o (CRLF \o Coming(k + 1))

\* Where the parser is.
ParserAt ==
    mode \in ParserModes =>
        /\ goal = "form" /\ content = "multipart" /\ form = Absent /\ ~failed
        /\ mode = "preamble" => parts = <<>> /\ Unread = Coming(0)
                                /\ (feed = "body" => buffer \in {<<>>, body})
        /\ mode = "delimited" => Intact(parts) /\ Delim \o Unread = Coming(Len(parts))
        /\ mode = "headers" => Intact(parts) /\ AtHeaders
        /\ mode = "data" => Intact(parts) /\ InData
        /\ mode = "seek" => \/ Intact(parts) /\ Unread = Coming(Len(parts))
                            \/ CutOff(parts) /\ gone /\ feed = "wire" /\ buffer = <<>>

\* What has been read, and what is left to read.
Books ==
    /\ (mode = "idle") = (goal = Absent) /\ (goal # Absent => ~failed)
    /\ ended => wire = <<>> /\ ~gone
    /\ feed = "body" => body # Absent
    /\ feed = "wire" /\ mode \in ParserModes => body = Absent
    /\ form = Absent /\ ~failed /\ mode \notin ParserModes => parts = <<>>
    /\ body # Absent /\ ~Eaten => body = Encoded(given)
    /\ mode = "idle" /\ body = Absent /\ ~failed /\ ~Eaten => wire = Encoded(given)
    /\ mode = "stream" => body = Absent /\ (~Eaten => buffer \o wire = Encoded(given))
    /\ mode = "decode" => body # Absent
    /\ goal = "form" => form = Absent
    /\ goal = "form" /\ mode \notin ParserModes => content = "urlencoded"

\* The form that was read.
FormRead ==
    /\ form # Absent /\ content = "urlencoded" => form = given /\ Len(given) <= MaxFields
    /\ form # Absent /\ content = "multipart" => \/ Intact(form) /\ (gone \/ form = given)
                                                 \/ CutOff(form) /\ gone
    /\ form # Absent => content \in {"urlencoded", "multipart", "other"}

\* A form that is over a limit.
TooMuch ==
    \/ Len(given) > MaxFields
    \/ content = "multipart" /\ \E i \in DOMAIN given : TooLong(given[i])

Refused == failed => total > MaxBody \/ gone \/ TooMuch

BodyInv == BodyTypes /\ ParserAt /\ Books /\ FormRead /\ Refused

-----------------------------------------------------------------------------
(* Sequences, and where one is found in another.                           *)

\* What is joined from two sequences.
LEMMA CatIs ==
  ASSUME NEW T, NEW a \in Seq(T), NEW b \in Seq(T)
  PROVE  /\ a \o b \in Seq(T)
         /\ Len(a) \in Nat /\ Len(b) \in Nat /\ Len(a \o b) = Len(a) + Len(b)
         /\ \A i \in 1..Len(a) : (a \o b)[i] = a[i]
         /\ \A i \in 1..Len(b) : (a \o b)[Len(a) + i] = b[i]
<1>1. PICK Q : Q = a \o b
  OBVIOUS
<1>2. /\ Q \in Seq(T) /\ Len(Q) = Len(a) + Len(b)
      /\ \A i \in 1..(Len(a) + Len(b)) : Q[i] = IF i <= Len(a) THEN a[i] ELSE b[i - Len(a)]
  BY <1>1, ConcatProperties
<1>3. Len(a) \in Nat /\ Len(b) \in Nat
  OBVIOUS
<1>4. \A i \in 1..Len(a) : Q[i] = a[i]
  BY <1>2, <1>3
<1>5. ASSUME NEW i \in 1..Len(b) PROVE Q[Len(a) + i] = b[i]
  <2>1. Len(a) + i \in 1..(Len(a) + Len(b)) /\ ~(Len(a) + i <= Len(a)) /\ (Len(a) + i) - Len(a) = i
    BY <1>3
  <2> QED BY <1>2, <2>1
<1> QED BY <1>1, <1>2, <1>3, <1>4, <1>5

\* A sequence cut in two.
LEMMA CutAt ==
  ASSUME NEW T, NEW B \in Seq(T), NEW n \in 0..Len(B)
  PROVE  /\ SubSeq(B, 1, n) \in Seq(T) /\ Len(SubSeq(B, 1, n)) = n
         /\ \A i \in 1..n : SubSeq(B, 1, n)[i] = B[i]
         /\ After(B, n) \in Seq(T) /\ Len(After(B, n)) = Len(B) - n
         /\ SubSeq(B, 1, n) \o After(B, n) = B
<1>1. Len(B) \in Nat /\ \A i \in 1..Len(B) : B[i] \in T
  OBVIOUS
<1>2. SubSeq(B, 1, n) \in Seq(T) /\ Len(SubSeq(B, 1, n)) = n /\ \A i \in 1..n : SubSeq(B, 1, n)[i] = B[i]
  BY <1>1
<1>3. After(B, n) \in Seq(T) /\ Len(After(B, n)) = Len(B) - n
  BY <1>1 DEF After
<1>4. SubSeq(B, 1, n) \o After(B, n) = SubSeq(B, 1, Len(B))
  <2>1. 1 \in 1..(Len(B) + 1) /\ n \in (1 - 1)..Len(B) /\ Len(B) \in n..Len(B)
    BY <1>1
  <2> QED BY <2>1, ConcatAdjacentSubSeq DEF After
<1>5. SubSeq(B, 1, Len(B)) = B
  BY SubSeqFull
<1> QED BY <1>2, <1>3, <1>4, <1>5

\* Of two sequences with the same beginning the ends are the same.
LEMMA Cancel ==
  ASSUME NEW T, NEW P \in Seq(T), NEW X \in Seq(T), NEW Y \in Seq(T), P \o X = P \o Y
  PROVE  X = Y
<1>1. Len(P \o X) = Len(P) + Len(X) /\ Len(P \o Y) = Len(P) + Len(Y)
      /\ Len(P) \in Nat /\ Len(X) \in Nat /\ Len(Y) \in Nat
  BY CatIs
<1>2. Len(X) = Len(Y)
  BY <1>1
<1>3. ASSUME NEW i \in 1..Len(X) PROVE X[i] = Y[i]
  <2>1. (P \o X)[Len(P) + i] = X[i]
    BY CatIs
  <2>2. (P \o Y)[Len(P) + i] = Y[i]
    BY <1>2, CatIs
  <2> QED BY <2>1, <2>2
<1> QED BY <1>2, <1>3, SeqEqual

\* A sequence that begins with P, read as B and A.
LEMMA SplitAt ==
  ASSUME NEW T, NEW B \in Seq(T), NEW A \in Seq(T), NEW P \in Seq(T), NEW Y \in Seq(T)
  PROVE  B \o A = P \o Y /\ Len(P) <= Len(B) =>
         /\ SubSeq(B, 1, Len(P)) = P
         /\ After(B, Len(P)) \in Seq(T) /\ Len(After(B, Len(P))) = Len(B) - Len(P)
         /\ After(B, Len(P)) \o A = Y
<1>0. SUFFICES ASSUME B \o A = P \o Y, Len(P) <= Len(B)
      PROVE  /\ SubSeq(B, 1, Len(P)) = P
             /\ After(B, Len(P)) \in Seq(T) /\ Len(After(B, Len(P))) = Len(B) - Len(P)
             /\ After(B, Len(P)) \o A = Y
  OBVIOUS
<1>1. Len(P) \in 0..Len(B) /\ Len(B) \in Nat
  BY <1>0
<1>2. PICK Q, R : Q = SubSeq(B, 1, Len(P)) /\ R = After(B, Len(P))
  OBVIOUS
<1>3. /\ Q \in Seq(T) /\ Len(Q) = Len(P) /\ \A i \in 1..Len(P) : Q[i] = B[i]
      /\ R \in Seq(T) /\ Len(R) = Len(B) - Len(P) /\ Q \o R = B
  BY <1>1, <1>2, CutAt
<1>4. ASSUME NEW i \in 1..Len(P) PROVE Q[i] = P[i]
  <2>1. (B \o A)[i] = B[i]
    BY <1>1, CatIs
  <2>2. (P \o Y)[i] = P[i]
    BY CatIs
  <2> QED BY <1>0, <1>3, <2>1, <2>2
<1>5. Q = P
  BY <1>3, <1>4, SeqEqual
<1>6. P \o (R \o A) = P \o Y
  <2>1. (P \o R) \o A = P \o Y
    BY <1>0, <1>3, <1>5
  <2>2. (P \o R) \o A = P \o (R \o A)
    <3>1. P \in Seq(T) /\ R \in Seq(T) /\ A \in Seq(T)
      BY <1>3
    <3> QED BY <3>1
  <2> QED BY <2>1, <2>2
<1>7. R \o A \in Seq(T)
  BY <1>3, CatIs
<1>8. R \o A = Y
  BY <1>6, <1>7, Cancel
<1> QED BY <1>2, <1>3, <1>5, <1>8

\* The first of a set of numbers.
LEMMA FirstIs ==
  ASSUME NEW at \in SUBSET Nat, at # {}
  PROVE  First(at) \in at /\ \A j \in at : First(at) <= j
BY Least DEF First

\* s is in b at i.
At(b, s, i) == i + Len(s) - 1 <= Len(b) /\ \A k \in 1..Len(s) : b[i + k - 1] = s[k]

\* What SubSeq says of it.
LEMMA AtIs ==
  ASSUME NEW T, NEW b \in Seq(T), NEW s \in Seq(T), NEW i \in 1..(Len(b) - Len(s) + 1)
  PROVE  SubSeq(b, i, i + Len(s) - 1) = s <=> At(b, s, i)
<1>1. PICK t : t = SubSeq(b, i, i + Len(s) - 1)
  OBVIOUS
<1>2. t \in Seq(T) /\ Len(t) = Len(s) /\ \A k \in 1..Len(s) : t[k] = b[i + k - 1]
  BY <1>1
<1>3. t = s <=> \A k \in 1..Len(s) : t[k] = s[k]
  BY <1>2, SeqEqual
<1> QED BY <1>1, <1>2, <1>3 DEF At

\* Find returns the first place of s, or 0.
LEMMA FindIs ==
  ASSUME NEW T, NEW b \in Seq(T), NEW s \in Seq(T)
  PROVE  /\ Find(b, s) \in Nat
         /\ Find(b, s) > 0 => At(b, s, Find(b, s))
         /\ \A i \in Nat : i > 0 /\ At(b, s, i) => Find(b, s) > 0 /\ Find(b, s) <= i
<1>1. PICK at : at = {i \in 1..(Len(b) - Len(s) + 1) : SubSeq(b, i, i + Len(s) - 1) = s}
  OBVIOUS
<1>2. Find(b, s) = IF at = {} THEN 0 ELSE First(at)
  BY <1>1 DEF Find
<1>3. ASSUME NEW i \in Nat, i > 0, At(b, s, i) PROVE i \in at
  <2>1. i \in 1..(Len(b) - Len(s) + 1)
    BY <1>3 DEF At
  <2> QED BY <1>1, <1>3, <2>1, AtIs
<1>4. at \in SUBSET Nat /\ \A i \in at : i > 0 /\ At(b, s, i)
  BY <1>1, AtIs
<1>5. at # {} => First(at) \in at /\ \A j \in at : First(at) <= j
  BY <1>4, FirstIs
<1>6. CASE at = {}
  BY <1>2, <1>3, <1>6
<1>7. CASE at # {}
  <2>1. Find(b, s) \in at /\ Find(b, s) \in Nat /\ \A j \in at : Find(b, s) <= j
    BY <1>2, <1>4, <1>5, <1>7
  <2>2. Find(b, s) > 0 /\ At(b, s, Find(b, s))
    BY <1>4, <2>1
  <2> QED BY <1>3, <2>1, <2>2
<1> QED BY <1>6, <1>7

\* s is not found in D followed by s before the end of D.
Clean(D, s) == \A i \in 1..Len(D) : ~At(D \o s, s, i)

\* So it is found there, once enough has been read.
LEMMA SearchIs ==
  ASSUME NEW T, NEW B \in Seq(T), NEW A \in Seq(T), NEW D \in Seq(T), NEW s \in Seq(T), NEW Y \in Seq(T)
  PROVE  B \o A = D \o (s \o Y) /\ Clean(D, s) /\ s # <<>> =>
             Find(B, s) = IF Len(D) + Len(s) <= Len(B) THEN Len(D) + 1 ELSE 0
<1>0. SUFFICES ASSUME B \o A = D \o (s \o Y), Clean(D, s), s # <<>>
      PROVE  Find(B, s) = IF Len(D) + Len(s) <= Len(B) THEN Len(D) + 1 ELSE 0
  OBVIOUS
<1>1. PICK X, Z : X = B \o A /\ Z = D \o s
  OBVIOUS
<1>2. /\ Len(X) = Len(B) + Len(A) /\ Len(X) = Len(D) + Len(s) + Len(Y)
      /\ \A i \in 1..Len(B) : X[i] = B[i]
      /\ \A i \in 1..Len(D) : X[i] = D[i]
      /\ \A i \in 1..Len(s) : X[Len(D) + i] = s[i]
  <2>1. PICK W : W = s \o Y
    OBVIOUS
  <2>2. W \in Seq(T) /\ Len(W) = Len(s) + Len(Y) /\ \A i \in 1..Len(s) : W[i] = s[i]
    BY <2>1, CatIs
  <2>3. X = D \o W
    BY <1>0, <1>1, <2>1
  <2>4. /\ Len(X) = Len(D) + Len(W) /\ \A i \in 1..Len(D) : X[i] = D[i]
        /\ \A i \in 1..Len(W) : X[Len(D) + i] = W[i]
    <3>1. /\ Len(D \o W) = Len(D) + Len(W)
          /\ \A i \in 1..Len(D) : (D \o W)[i] = D[i]
          /\ \A i \in 1..Len(W) : (D \o W)[Len(D) + i] = W[i]
      <4>1. W \in Seq(T)
        BY <2>2
      <4> QED BY <4>1, CatIs
    <3> QED BY <2>3, <3>1
  <2>5. Len(X) = Len(B) + Len(A) /\ \A i \in 1..Len(B) : X[i] = B[i]
    BY <1>1, CatIs
  <2>6. \A i \in 1..Len(s) : i \in 1..Len(W)
    BY <2>2
  <2>7. ASSUME NEW i \in 1..Len(s) PROVE X[Len(D) + i] = s[i]
    BY <2>2, <2>4, <2>6
  <2>8. Len(X) = Len(D) + Len(s) + Len(Y)
    <3>1. Len(X) = Len(D) + Len(W) /\ Len(W) = Len(s) + Len(Y)
      BY <2>2, <2>4
    <3> QED BY <3>1
  <2> QED BY <2>4, <2>5, <2>7, <2>8
<1>3. /\ Len(Z) = Len(D) + Len(s)
      /\ \A i \in 1..Len(D) : Z[i] = D[i]
      /\ \A i \in 1..Len(s) : Z[Len(D) + i] = s[i]
  BY <1>1, CatIs
<1>5. Len(s) \in Nat /\ Len(s) > 0 /\ Len(D) \in Nat /\ Len(B) \in Nat /\ Len(A) \in Nat
  BY <1>0
<1>4. ASSUME NEW i \in 1..Len(Z) PROVE Z[i] = X[i]
  <2>1. CASE i <= Len(D)
    BY <1>2, <1>3, <2>1
  <2>2. CASE i > Len(D)
    <3>1. PICK j \in 1..Len(s) : i = Len(D) + j
      <4>1. i - Len(D) \in 1..Len(s) /\ i = Len(D) + (i - Len(D))
        BY <1>3, <1>5, <2>2
      <4> QED BY <4>1
    <3> QED BY <1>2, <1>3, <3>1
  <2> QED BY <2>1, <2>2
<1>6. ASSUME NEW i \in Nat, i > 0, At(B, s, i) PROVE i > Len(D)
  <2>1. SUFFICES ASSUME i <= Len(D) PROVE FALSE
    OBVIOUS
  <2>2. i + Len(s) - 1 <= Len(B) /\ i + Len(s) - 1 <= Len(Z)
    BY <1>3, <1>5, <1>6, <2>1 DEF At
  <2>3. ASSUME NEW k \in 1..Len(s) PROVE Z[i + k - 1] = s[k]
    <3>1. i + k - 1 \in 1..Len(B) /\ i + k - 1 \in 1..Len(Z)
      BY <1>3, <1>5, <1>6, <2>2
    <3>2. B[i + k - 1] = s[k]
      BY <1>6 DEF At
    <3> QED BY <1>2, <1>4, <3>1, <3>2
  <2>4. At(Z, s, i)
    BY <2>2, <2>3 DEF At
  <2>5. i \in 1..Len(D)
    BY <1>5, <1>6, <2>1
  <2> QED BY <1>0, <1>1, <2>4, <2>5 DEF Clean
<1>7. CASE Len(D) + Len(s) <= Len(B)
  <2>1. ASSUME NEW k \in 1..Len(s) PROVE B[(Len(D) + 1) + k - 1] = s[k]
    <3>1. (Len(D) + 1) + k - 1 = Len(D) + k /\ Len(D) + k \in 1..Len(B)
      BY <1>5, <1>7
    <3> QED BY <1>2, <3>1
  <2>2. At(B, s, Len(D) + 1)
    BY <1>5, <1>7, <2>1 DEF At
  <2>3. Find(B, s) \in Nat /\ Find(B, s) > 0 /\ Find(B, s) <= Len(D) + 1 /\ At(B, s, Find(B, s))
    <3>1. Len(D) + 1 \in Nat /\ Len(D) + 1 > 0
      BY <1>5
    <3>2. Find(B, s) \in Nat /\ Find(B, s) > 0 /\ Find(B, s) <= Len(D) + 1
      BY <2>2, <3>1, FindIs
    <3>3. At(B, s, Find(B, s))
      BY <3>2, FindIs
    <3> QED BY <3>2, <3>3
  <2>4. Find(B, s) > Len(D)
    BY <1>6, <2>3
  <2> QED BY <1>5, <1>7, <2>3, <2>4
<1>8. CASE ~(Len(D) + Len(s) <= Len(B))
  <2>1. ASSUME Find(B, s) > 0 PROVE FALSE
    <3>1. Find(B, s) \in Nat /\ At(B, s, Find(B, s))
      BY <2>1, FindIs
    <3>2. Find(B, s) > Len(D)
      BY <1>6, <2>1, <3>1
    <3> QED BY <1>5, <1>8, <3>1, <3>2 DEF At
  <2>2. Find(B, s) \in Nat
    BY FindIs
  <2> QED BY <1>8, <2>1, <2>2
<1> QED BY <1>7, <1>8

\* The lemmas above for the literals of the encoding, in the form they are cited.
LEMMA CatText ==
  \A a, b \in Seq(Text) :
      /\ a \o b \in Seq(Text)
      /\ Len(a) \in Nat /\ Len(b) \in Nat /\ Len(a \o b) = Len(a) + Len(b)
      /\ \A i \in 1..Len(a) : (a \o b)[i] = a[i]
      /\ \A i \in 1..Len(b) : (a \o b)[Len(a) + i] = b[i]
BY CatIs

Dashes == <<"-", "-">>

LEMMA Literals ==
  /\ CRLF \in Seq(Text) /\ Len(CRLF) = 2 /\ CRLF[1] = "CR" /\ CRLF[2] = "LF"
  /\ Delim \in Seq(Text) /\ Len(Delim) = 3 /\ Delim[1] = "-" /\ Delim[2] = "-" /\ Delim[3] = "b"
  /\ Dashes \in Seq(Text) /\ Len(Dashes) = 2 /\ Dashes[1] = "-" /\ Dashes[2] = "-"
BY DEF CRLF, Delim, Dashes, Text

LEMMA Joined ==
  /\ Blank \in Seq(Text) /\ Len(Blank) = 4
  /\ Blank[1] = "CR" /\ Blank[2] = "LF" /\ Blank[3] = "CR" /\ Blank[4] = "LF"
  /\ Marker \in Seq(Text) /\ Len(Marker) = 5
  /\ Marker[1] = "CR" /\ Marker[2] = "LF" /\ Marker[3] = "-" /\ Marker[4] = "-" /\ Marker[5] = "b"
<1>1. /\ Blank \in Seq(Text) /\ Len(Blank) = 4
      /\ \A i \in 1..2 : Blank[i] = CRLF[i]
      /\ \A i \in 1..2 : Blank[2 + i] = CRLF[i]
  <2>1. CRLF \in Seq(Text) /\ Len(CRLF) = 2
    BY Literals
  <2>2. /\ CRLF \o CRLF \in Seq(Text) /\ Len(CRLF \o CRLF) = Len(CRLF) + Len(CRLF)
        /\ \A i \in 1..Len(CRLF) : (CRLF \o CRLF)[i] = CRLF[i]
        /\ \A i \in 1..Len(CRLF) : (CRLF \o CRLF)[Len(CRLF) + i] = CRLF[i]
    BY <2>1, CatText, Zenon
  <2> QED BY <2>1, <2>2 DEF Blank
<1>2. /\ Marker \in Seq(Text) /\ Len(Marker) = 5
      /\ \A i \in 1..2 : Marker[i] = CRLF[i]
      /\ \A i \in 1..3 : Marker[2 + i] = Delim[i]
  <2>1. CRLF \in Seq(Text) /\ Len(CRLF) = 2 /\ Delim \in Seq(Text) /\ Len(Delim) = 3
    BY Literals
  <2>2. /\ CRLF \o Delim \in Seq(Text) /\ Len(CRLF \o Delim) = Len(CRLF) + Len(Delim)
        /\ \A i \in 1..Len(CRLF) : (CRLF \o Delim)[i] = CRLF[i]
        /\ \A i \in 1..Len(Delim) : (CRLF \o Delim)[Len(CRLF) + i] = Delim[i]
    BY <2>1, CatText, Zenon
  <2> QED BY <2>1, <2>2 DEF Marker
<1>3. /\ Blank[1] = CRLF[1] /\ Blank[2] = CRLF[2]
      /\ Blank[2 + 1] = CRLF[1] /\ Blank[2 + 2] = CRLF[2]
  BY <1>1
<1>4. /\ Marker[1] = CRLF[1] /\ Marker[2] = CRLF[2]
      /\ Marker[2 + 1] = Delim[1] /\ Marker[2 + 2] = Delim[2] /\ Marker[2 + 3] = Delim[3]
  BY <1>2
<1> QED BY <1>1, <1>2, <1>3, <1>4, Literals

LEMMA TextAtoms == Seq(Text) \subseteq Seq(Atoms) /\ Text \cap Heads = {} /\ "CR" \notin Heads /\ "LF" \notin Heads
<1>1. Text \subseteq Atoms
  BY DEF Atoms
<1>2. \A t \in Seq(Text) : t \in Seq(Atoms)
  BY <1>1
<1>3. Text \cap Heads = {} /\ "CR" \notin Heads /\ "LF" \notin Heads
  BY DEF Text, Heads
<1> QED BY <1>2, <1>3

LEMMA LiteralAtoms ==
  {CRLF, Delim, Dashes, Blank, Marker} \subseteq Seq(Atoms)
BY Literals, Joined, TextAtoms

LEMMA CatAtoms ==
  \A a, b \in Seq(Atoms) :
      /\ a \o b \in Seq(Atoms)
      /\ Len(a) \in Nat /\ Len(b) \in Nat /\ Len(a \o b) = Len(a) + Len(b)
      /\ \A i \in 1..Len(a) : (a \o b)[i] = a[i]
      /\ \A i \in 1..Len(b) : (a \o b)[Len(a) + i] = b[i]
BY CatIs

LEMMA AssocAtoms == \A a, b, c \in Seq(Atoms) : (a \o b) \o c = a \o (b \o c)
BY ConcatAssociative

LEMMA CancelAtoms == \A a, b, c \in Seq(Atoms) : a \o b = a \o c => b = c
BY Cancel

LEMMA SplitAtoms ==
  \A B, A, P, Y \in Seq(Atoms) :
      B \o A = P \o Y /\ Len(P) <= Len(B) =>
          /\ SubSeq(B, 1, Len(P)) = P
          /\ After(B, Len(P)) \in Seq(Atoms) /\ Len(After(B, Len(P))) = Len(B) - Len(P)
          /\ After(B, Len(P)) \o A = Y
BY SplitAt

LEMMA SearchAtoms ==
  \A B, A, D, s, Y \in Seq(Atoms) :
      B \o A = D \o (s \o Y) /\ Clean(D, s) /\ s # <<>> =>
          Find(B, s) = IF Len(D) + Len(s) <= Len(B) THEN Len(D) + 1 ELSE 0
BY SearchIs

\* The line that begins a part.
LEMMA HeadAtoms == \A h \in Heads : <<h>> \in Seq(Atoms) /\ Len(<<h>>) = 1 /\ <<h>>[1] = h
BY DEF Atoms

\* Nothing of data that a marker is not in looks like one, with one behind it.
LEMMA CleanData ==
  ASSUME NEW d \in Seq(Text), NEW e \in Seq(Text)
  PROVE  Find(d \o e, Marker) = 0 => Clean(e, Marker)
<1>0. SUFFICES ASSUME Find(d \o e, Marker) = 0, NEW i \in 1..Len(e), At(e \o Marker, Marker, i)
      PROVE  FALSE
  BY DEF Clean
<1>1. PICK D, Z : D = d \o e /\ Z = e \o Marker
  OBVIOUS
<1>2. /\ D \in Seq(Text) /\ Len(D) = Len(d) + Len(e) /\ Len(d) \in Nat /\ Len(e) \in Nat
      /\ \A k \in 1..Len(e) : D[Len(d) + k] = e[k]
  BY <1>1, CatIs
<1>3. /\ Len(Z) = Len(e) + 5
      /\ \A k \in 1..Len(e) : Z[k] = e[k]
      /\ \A k \in 1..5 : Z[Len(e) + k] = Marker[k]
  <2>1. Marker \in Seq(Text) /\ Len(Marker) = 5
    BY Joined
  <2>2. /\ Len(Z) = Len(e) + Len(Marker)
        /\ \A k \in 1..Len(e) : Z[k] = e[k]
        /\ \A k \in 1..Len(Marker) : Z[Len(e) + k] = Marker[k]
    BY <1>1, <2>1, CatText, Zenon
  <2> QED BY <2>1, <2>2
<1>4. \A k \in 1..5 : Z[i + k - 1] = Marker[k]
  BY <1>0, <1>1, Joined DEF At
<1>5. CASE i + 4 <= Len(e)
  <2>1. ASSUME NEW k \in 1..5 PROVE D[(Len(d) + i) + k - 1] = Marker[k]
    <3>1. i + k - 1 \in 1..Len(e) /\ (Len(d) + i) + k - 1 = Len(d) + (i + k - 1)
      BY <1>2, <1>5
    <3> QED BY <1>2, <1>3, <1>4, <3>1
  <2>2. Len(d) + i \in Nat /\ Len(d) + i > 0 /\ (Len(d) + i) + Len(Marker) - 1 <= Len(D)
    BY <1>2, <1>5, Joined
  <2>3. At(D, Marker, Len(d) + i)
    BY <2>1, <2>2, Joined DEF At
  <2>4. PICK m : m = Len(d) + i
    OBVIOUS
  <2>5. m \in Nat /\ m > 0 /\ At(D, Marker, m)
    BY <2>2, <2>3, <2>4
  <2>6. D \in Seq(Text) /\ Marker \in Seq(Text) /\ Find(D, Marker) = 0
    BY <1>0, <1>1, <1>2, Joined
  <2> QED BY <2>5, <2>6, FindIs
<1>6. CASE i + 4 > Len(e)
  <2>1. PICK k \in 2..5 : i + k - 1 = Len(e) + 1
    <3>1. (Len(e) + 2) - i \in 2..5 /\ i + ((Len(e) + 2) - i) - 1 = Len(e) + 1
      BY <1>2, <1>6
    <3> QED BY <3>1
  <2>2. Z[i + k - 1] = Marker[k] /\ Z[Len(e) + 1] = Marker[1]
    <3>1. k \in 1..5 /\ 1 \in 1..5
      OBVIOUS
    <3> QED BY <1>3, <1>4, <3>1
  <2> QED BY <2>1, <2>2, Joined
<1> QED BY <1>2, <1>5, <1>6

\* A header has no end of line in it, nor has one with the end of a line before it.
LEMMA CleanHead == ASSUME NEW h \in Heads PROVE Clean(<<h>>, Blank) /\ Clean(CRLF \o <<h>>, Blank)
<1>0. h # "CR"
  BY TextAtoms
<1>1. Clean(<<h>>, Blank)
  <2>1. SUFFICES ASSUME At(<<h>> \o Blank, Blank, 1) PROVE FALSE
    BY HeadAtoms DEF Clean
  <2>2. (<<h>> \o Blank)[1] = h
    BY HeadAtoms, LiteralAtoms, CatIs
  <2>3. (<<h>> \o Blank)[1 + 1 - 1] = Blank[1]
    BY <2>1, Joined DEF At
  <2> QED BY <1>0, <2>2, <2>3, Joined
<1>2. Clean(CRLF \o <<h>>, Blank)
  <2>1. PICK D : D = CRLF \o <<h>>
    OBVIOUS
  <2>2. D \in Seq(Atoms) /\ Len(D) = 3 /\ D[2] = "LF" /\ D[3] = h
    <3>1. /\ D \in Seq(Atoms) /\ Len(D) = 2 + 1
          /\ \A i \in 1..2 : D[i] = CRLF[i]
          /\ \A i \in 1..1 : D[2 + i] = <<h>>[i]
      <4>1. CRLF \in Seq(Atoms) /\ <<h>> \in Seq(Atoms) /\ Len(CRLF) = 2 /\ Len(<<h>>) = 1
        BY HeadAtoms, LiteralAtoms, Literals
      <4>2. PICK e : e = <<h>>
        OBVIOUS
      <4>3. e \in Seq(Atoms) /\ CRLF \in Seq(Atoms) /\ D = CRLF \o e
        BY <2>1, <4>1, <4>2
      <4>4. /\ D \in Seq(Atoms) /\ Len(D) = Len(CRLF) + Len(e)
            /\ \A i \in 1..Len(CRLF) : D[i] = CRLF[i]
            /\ \A i \in 1..Len(e) : D[Len(CRLF) + i] = e[i]
        BY <4>3, CatAtoms, Zenon
      <4> QED BY <4>1, <4>2, <4>4
    <3>2. D[2] = CRLF[2] /\ D[2 + 1] = <<h>>[1]
      BY <3>1
    <3> QED BY <3>1, <3>2, HeadAtoms, Literals
  <2>3. PICK Z : Z = D \o Blank
    OBVIOUS
  <2>4. Z[2] = "LF" /\ Z[3] = h
    <3>1. \A i \in 1..3 : Z[i] = D[i]
      <4>1. D \in Seq(Atoms) /\ Blank \in Seq(Atoms)
        BY <2>2, LiteralAtoms
      <4>2. \A i \in 1..Len(D) : Z[i] = D[i]
        BY <2>3, <4>1, CatIs
      <4> QED BY <2>2, <4>2
    <3> QED BY <2>2, <3>1
  <2>5. ASSUME NEW i \in 1..3, At(Z, Blank, i) PROVE FALSE
    <3>1. \A k \in 1..4 : Z[i + k - 1] = Blank[k]
      BY <2>5, Joined DEF At
    <3>2. CASE i = 1
      <4>1. Z[1 + 3 - 1] = Blank[3]
        BY <3>1, <3>2
      <4> QED BY <1>0, <2>4, <4>1, Joined
    <3>3. CASE i = 2
      <4>1. Z[2 + 1 - 1] = Blank[1]
        BY <3>1, <3>3
      <4> QED BY <2>4, <4>1, Joined
    <3>4. CASE i = 3
      <4>1. Z[3 + 1 - 1] = Blank[1]
        BY <3>1, <3>4
      <4> QED BY <1>0, <2>4, <4>1, Joined
    <3> QED BY <3>2, <3>3, <3>4
  <2> QED BY <2>1, <2>2, <2>3, <2>5 DEF Clean
<1> QED BY <1>1, <1>2

-----------------------------------------------------------------------------
(* What a client sends, part by part.                                      *)

PartOf(p, rest) == Delim \o (CRLF \o (<<p.head>> \o (Blank \o (p.data \o (CRLF \o rest)))))

\* A part is made of atoms.
LEMMA PartAtoms ==
  ASSUME NEW p \in Part, NEW rest \in Seq(Atoms)
  PROVE  /\ p.head \in Heads /\ p.data \in Seq(Text) /\ p.data \in Seq(Atoms)
         /\ CRLF \o rest \in Seq(Atoms)
         /\ p.data \o (CRLF \o rest) \in Seq(Atoms)
         /\ Blank \o (p.data \o (CRLF \o rest)) \in Seq(Atoms)
         /\ <<p.head>> \o (Blank \o (p.data \o (CRLF \o rest))) \in Seq(Atoms)
         /\ CRLF \o (<<p.head>> \o (Blank \o (p.data \o (CRLF \o rest)))) \in Seq(Atoms)
         /\ PartOf(p, rest) \in Seq(Atoms)
<1>1. p.head \in Heads /\ p.data \in Seq(Text)
  BY DEF Part
<1>2. p.data \in Seq(Atoms) /\ <<p.head>> \in Seq(Atoms)
  BY <1>1, TextAtoms, HeadAtoms
<1>3. \A a, b \in Seq(Atoms) : a \o b \in Seq(Atoms)
  BY CatIs
<1>4. CRLF \o rest \in Seq(Atoms)
  BY <1>3, LiteralAtoms
<1>5. p.data \o (CRLF \o rest) \in Seq(Atoms)
  BY <1>2, <1>3, <1>4
<1>6. Blank \o (p.data \o (CRLF \o rest)) \in Seq(Atoms)
  BY <1>3, <1>5, LiteralAtoms
<1>7. <<p.head>> \o (Blank \o (p.data \o (CRLF \o rest))) \in Seq(Atoms)
  BY <1>2, <1>3, <1>6
<1>8. CRLF \o (<<p.head>> \o (Blank \o (p.data \o (CRLF \o rest)))) \in Seq(Atoms)
  BY <1>3, <1>7, LiteralAtoms
<1>9. PartOf(p, rest) \in Seq(Atoms)
  BY <1>3, <1>8, LiteralAtoms DEF PartOf
<1> QED BY <1>1, <1>2, <1>4, <1>5, <1>6, <1>7, <1>8, <1>9

\* The last n parts of a form are the first of them and the others.
LEMMA LeftIs ==
  ASSUME NEW f \in Seq(Part), NEW n \in 0..Len(f)
  PROVE  /\ Left(f, n) \in Seq(Atoms)
         /\ n = 0 => Left(f, n) = Delim \o Dashes
         /\ n > 0 => Left(f, n) = PartOf(f[Len(f) - n + 1], Left(f, n - 1))
<1>1. PICK g : g = CHOOSE bytes : bytes = [m \in 0..Len(f) |->
                       IF m = 0 THEN Delim \o Dashes ELSE PartOf(f[Len(f) - m + 1], bytes[m - 1])]
  OBVIOUS
<1>2. Len(f) \in Nat /\ \A m \in 1..Len(f) : f[Len(f) - m + 1] \in Part
  <2>1. \A m \in 1..Len(f) : Len(f) - m + 1 \in 1..Len(f)
    OBVIOUS
  <2>2. \A k \in 1..Len(f) : f[k] \in Part
    OBVIOUS
  <2> QED BY <2>1, <2>2
<1>3. PICK F : F = [p \in (1..Len(f)) \X Seq(Atoms) |-> PartOf(f[Len(f) - p[1] + 1], p[2])]
  OBVIOUS
<1>4. F \in [(1..Len(f)) \X Seq(Atoms) -> Seq(Atoms)]
  BY <1>2, <1>3, PartAtoms
<1>5. Delim \o Dashes \in Seq(Atoms)
  BY LiteralAtoms, CatIs
<1>6. PICK h : UpTo(h, F, Delim \o Dashes, Seq(Atoms), Len(f))
  BY <1>2, <1>4, <1>5, RecExists
<1>7. h \in [0..Len(f) -> Seq(Atoms)] /\ h[0] = Delim \o Dashes
      /\ \A i \in 1..Len(f) : h[i] = F[<<i, h[i-1]>>]
  BY <1>6 DEF UpTo
<1>8. ASSUME NEW i \in 1..Len(f) PROVE h[i] = PartOf(f[Len(f) - i + 1], h[i - 1])
  <2>1. i - 1 \in 0..Len(f)
    BY <1>2
  <2>2. h[i - 1] \in Seq(Atoms) /\ <<i, h[i-1]>> \in (1..Len(f)) \X Seq(Atoms)
    BY <1>7, <2>1
  <2> QED BY <1>3, <1>7, <2>2
<1>9. h = [m \in 0..Len(f) |-> IF m = 0 THEN Delim \o Dashes ELSE PartOf(f[Len(f) - m + 1], h[m - 1])]
  BY <1>2, <1>7, <1>8
<1>10. g = [m \in 0..Len(f) |-> IF m = 0 THEN Delim \o Dashes ELSE PartOf(f[Len(f) - m + 1], g[m - 1])]
  BY <1>1, <1>9
<1>11. \A k \in 0..Len(f) : Left(f, k) = g[k]
  BY <1>1 DEF Left, PartOf, Dashes
<1>12. PICK S : S = {k \in Nat : k <= Len(f) => g[k] \in Seq(Atoms)}
  OBVIOUS
<1>13. 0 \in S
  BY <1>2, <1>5, <1>10, <1>12
<1>14. ASSUME NEW k \in Nat, k \in S PROVE k + 1 \in S
  <2>1. CASE k + 1 <= Len(f)
    <3>1. k + 1 \in 0..Len(f) /\ k + 1 # 0 /\ (k + 1) - 1 = k /\ k + 1 \in 1..Len(f) /\ k <= Len(f)
      BY <1>2, <2>1
    <3>2. g[k + 1] = PartOf(f[Len(f) - (k + 1) + 1], g[k])
      BY <1>10, <3>1
    <3>3. g[k] \in Seq(Atoms) /\ f[Len(f) - (k + 1) + 1] \in Part
      BY <1>2, <1>12, <1>14, <3>1
    <3>4. g[k + 1] \in Seq(Atoms)
      BY <3>2, <3>3, PartAtoms
    <3> QED BY <1>12, <3>4
  <2>2. CASE ~(k + 1 <= Len(f))
    BY <1>12, <2>2
  <2> QED BY <2>1, <2>2
<1>15. Nat \subseteq S
  BY <1>13, <1>14, SetInd
<1>16. g[n] \in Seq(Atoms)
  BY <1>2, <1>12, <1>15
<1>17. n > 0 => n - 1 \in 0..Len(f)
  BY <1>2
<1>18. n = 0 => g[n] = Delim \o Dashes
  BY <1>10
<1>19. n > 0 => g[n] = PartOf(f[Len(f) - n + 1], g[n - 1])
  <2>1. n \in 0..Len(f) /\ (n > 0 => n # 0)
    OBVIOUS
  <2>2. \A m \in 0..Len(f) : g[m] = IF m = 0 THEN Delim \o Dashes ELSE PartOf(f[Len(f) - m + 1], g[m - 1])
    BY <1>10, Zenon
  <2>3. g[n] = IF n = 0 THEN Delim \o Dashes ELSE PartOf(f[Len(f) - n + 1], g[n - 1])
    BY <2>1, <2>2, Zenon
  <2> QED BY <2>1, <2>3, Zenon
<1>20. Left(f, n) = g[n] /\ (n > 0 => Left(f, n - 1) = g[n - 1])
  BY <1>11, <1>17
<1> QED BY <1>16, <1>18, <1>19, <1>20

\* What is to come when k parts are read.
LEMMA ComingIs ==
  ASSUME given \in Forms, NEW k \in 0..Len(given)
  PROVE  /\ Coming(k) \in Seq(Atoms)
         /\ k = Len(given) => Coming(k) = Delim \o Dashes
         /\ k < Len(given) => /\ given[k + 1] \in Part /\ Find(given[k + 1].data, Marker) = 0
                              /\ Coming(k + 1) \in Seq(Atoms)
                              /\ Coming(k) = PartOf(given[k + 1], Coming(k + 1))
         /\ Coming(0) = Encoded(given)
<1>1. given \in Seq(Part) /\ Len(given) \in Nat /\ \A i \in 1..Len(given) : given[i] \in Part /\ Find(given[i].data, Marker) = 0
  <2>1. given \in Seq(Part) /\ \A i \in DOMAIN given : Find(given[i].data, Marker) = 0
    BY FormsAreForms
  <2> QED BY <2>1
<1>2. PICK n \in 0..Len(given) : n = Len(given) - k
  <2>1. Len(given) - k \in 0..Len(given)
    BY <1>1
  <2> QED BY <2>1
<1>3. Coming(k) \in Seq(Atoms) /\ (k = Len(given) => Coming(k) = Delim \o Dashes)
  BY <1>1, <1>2, LeftIs, SMTT(60) DEF Coming
<1>4. ASSUME k < Len(given)
      PROVE  /\ given[k + 1] \in Part /\ Find(given[k + 1].data, Marker) = 0
             /\ Coming(k + 1) \in Seq(Atoms)
             /\ Coming(k) = PartOf(given[k + 1], Coming(k + 1))
  <2>1. k + 1 \in 1..Len(given) /\ n > 0 /\ Len(given) - n + 1 = k + 1 /\ n - 1 = Len(given) - (k + 1)
        /\ n - 1 \in 0..Len(given)
    BY <1>1, <1>2, <1>4
  <2>2. Left(given, n) = PartOf(given[k + 1], Left(given, n - 1)) /\ Left(given, n - 1) \in Seq(Atoms)
    BY <1>1, <2>1, LeftIs
  <2>3. Coming(k) = Left(given, n) /\ Coming(k + 1) = Left(given, n - 1)
    BY <1>2, <2>1 DEF Coming
  <2>4. Left(given, n - 1) \in Seq(Atoms)
    BY <1>1, <2>1, LeftIs
  <2>5. given[k + 1] \in Part /\ Find(given[k + 1].data, Marker) = 0
    BY <1>1, <2>1
  <2>6. Coming(k) = PartOf(given[k + 1], Coming(k + 1)) /\ Coming(k + 1) \in Seq(Atoms)
    BY <2>2, <2>3, <2>4
  <2> QED BY <2>5, <2>6
<1>5. Coming(0) = Encoded(given)
  <2>1. Len(given) - 0 = Len(given)
    BY <1>1
  <2> QED BY <2>1 DEF Coming, Encoded
<1> QED BY <1>1, <1>3, <1>4, <1>5

-----------------------------------------------------------------------------
(* What the steps of the parser have in common.                            *)

\* Absent is not a body, nor a form, nor a read.
LEMMA AbsentIs == Absent \notin Seq(Atoms) /\ Absent \notin Seq(Piece) /\ Absent \notin {"body", "form"}
BY AbsentIsNoForm DEF Atoms, Piece

LEMMA GivenIs ==
  ASSUME given \in Forms
  PROVE  /\ given \in Seq(Part) /\ given \in Seq(Piece) /\ Len(given) \in Nat
         /\ Encoded(given) \in Seq(Atoms)
<1>1. given \in Seq(Part)
  BY FormsAreForms
<1>2. Part \subseteq Piece
  BY TextAtoms DEF Part, Piece
<1>3. given \in Seq(Piece) /\ Len(given) \in Nat
  BY <1>1, <1>2
<1>4. 0 \in 0..Len(given)
  BY <1>3
<1> QED BY <1>1, <1>3, <1>4, ComingIs

\* What is unread is the buffer and what comes after it.
LEMMA UnreadIs ==
  ASSUME BodyTypes, Books
  PROVE  Ahead \in Seq(Atoms) /\ Unread \in Seq(Atoms) /\ Len(parts) \in Nat
         /\ Len(Unread) = Len(buffer) + Len(Ahead)
         /\ \A i \in 1..Len(buffer) : Unread[i] = buffer[i]
<1>1. Ahead \in Seq(Atoms)
  BY DEF BodyTypes, Books, Ahead, ParserModes
<1>2. buffer \in Seq(Atoms) /\ Len(parts) \in Nat
  BY DEF BodyTypes
<1> QED BY <1>1, <1>2, CatIs DEF Unread

\* A step that stays in the parser changes nothing but where it is.
LEMMA GoesOn ==
  ASSUME BodyInv, mode \in ParserModes, mode' \in ParserModes, UNCHANGED <<parsing, goal, form, failed>>
  PROVE  Books' /\ FormRead' /\ Refused'
<1>1. Books'
  BY DEF BodyInv, Books, Eaten, ParserAt, ParserModes, parsing, client, network
<1>2. FormRead'
  BY DEF BodyInv, FormRead, ParserAt, parsing, client, network, Intact, CutOff, TooLong
<1>3. Refused'
  BY DEF BodyInv, Refused, TooMuch, parsing, client, network, TooLong
<1> QED BY <1>1, <1>2, <1>3

\* The form ends with what was parsed.
LEMMA Ends ==
  ASSUME BodyInv, mode \in ParserModes, EndForm, UNCHANGED parsing,
         \/ Intact(parts) /\ (gone \/ parts = given)
         \/ CutOff(parts) /\ gone
  PROVE  BodyInv'
<1>1. goal = "form" /\ content = "multipart" /\ form = Absent /\ ~failed
  BY DEF BodyInv, ParserAt
<1>2. BodyTypes'
  BY DEF BodyInv, BodyTypes, EndForm, parsing, client, network
<1>3. ParserAt'
  BY DEF EndForm, ParserAt, ParserModes
<1>4. form' # Absent
  BY AbsentIs DEF BodyInv, BodyTypes, EndForm
<1>5. Books'
  <2>1. body # Absent /\ ~Eaten' => body = Encoded(given)
    BY <1>1 DEF BodyInv, Books, Eaten
  <2>2. body = Absent => Eaten'
    BY <1>1, <1>4 DEF BodyInv, BodyTypes, Books, Eaten, parsing, client
  <2> QED BY <1>1, <1>4, <2>1, <2>2 DEF BodyInv, Books, EndForm, ParserModes, parsing, client, network
<1>6. FormRead'
  BY <1>1, <1>4 DEF BodyInv, FormRead, EndForm, parsing, client, network, Intact, CutOff, TooLong
<1>7. Refused'
  BY <1>1 DEF BodyInv, Refused, EndForm
<1> QED BY <1>2, <1>3, <1>5, <1>6, <1>7 DEF BodyInv

\* The form is refused.
LEMMA Refuses ==
  ASSUME BodyInv, mode \in ParserModes, Fail, UNCHANGED parsing, gone \/ TooMuch
  PROVE  BodyInv'
<1>1. form = Absent /\ ~failed
  BY DEF BodyInv, ParserAt
<1>2. BodyTypes'
  BY DEF BodyInv, BodyTypes, Fail, parsing, client, network
<1>3. ParserAt'
  BY DEF Fail, ParserAt, ParserModes
<1>4. Books'
  <2>1. mode' = "idle" /\ goal' = Absent /\ failed' = TRUE /\ form' = form
    BY DEF Fail
  <2>2. /\ UNCHANGED <<content, given, wire, ended, gone, feed, body>>
        /\ Books
    BY DEF BodyInv, parsing, client, network
  <2>3. Eaten' = Eaten
    BY <2>1, <2>2 DEF Eaten
  <2>4. "idle" \notin ParserModes
    BY DEF ParserModes
  <2>5. feed' = "body" => body' # Absent
    BY <2>2 DEF Books
  <2>6. ended' => wire' = <<>> /\ ~gone'
    BY <2>2 DEF Books
  <2>7. body' # Absent /\ ~Eaten' => body' = Encoded(given')
    BY <2>2, <2>3 DEF Books
  <2> QED BY <2>1, <2>4, <2>5, <2>6, <2>7, AbsentIs DEF Books
<1>5. FormRead'
  BY <1>1 DEF FormRead, Fail
<1>6. Refused'
  BY DEF Refused, TooMuch, TooLong, parsing, client, network
<1> QED BY <1>2, <1>3, <1>4, <1>5, <1>6 DEF BodyInv

\* Nothing is waited for any more.
LEMMA DryIs ==
  ASSUME BodyInv, mode \in ParserModes, Dry
  PROVE  Ahead = <<>> \/ gone
BY DEF BodyInv, BodyTypes, Books, Dry, Ahead

\* All the parts there are.
LEMMA WholeIs ==
  ASSUME BodyTypes, Intact(parts), Len(parts) = Len(given)
  PROVE  parts = given
<1>1. parts \in Seq(Piece) /\ given \in Seq(Piece)
  BY GivenIs DEF BodyTypes
<1>2. \A i \in 1..Len(parts) : parts[i] = given[i]
  BY DEF Intact
<1> QED BY <1>1, <1>2, SeqEqual

\* A boundary is next, then the line of a header or two dashes.
LEMMA ComingStarts ==
  ASSUME given \in Forms, NEW k \in 0..Len(given)
  PROVE  \E Y \in Seq(Atoms) :
             /\ Coming(k) = Delim \o Y
             /\ k = Len(given) => Y = Dashes
             /\ k < Len(given) => Y = CRLF \o (<<given[k + 1].head>> \o (Blank \o (given[k + 1].data \o (CRLF \o Coming(k + 1)))))
<1>1. CASE k = Len(given)
  <2>1. Coming(k) = Delim \o Dashes
    BY <1>1, ComingIs
  <2>2. ~(k < Len(given)) /\ Dashes \in Seq(Atoms)
    BY <1>1, GivenIs, LiteralAtoms
  <2> QED BY <1>1, <2>1, <2>2
<1>2. CASE k < Len(given)
  <2>1. given[k + 1] \in Part /\ Coming(k + 1) \in Seq(Atoms) /\ Coming(k) = PartOf(given[k + 1], Coming(k + 1))
    BY <1>2, ComingIs
  <2>2. CRLF \o (<<given[k + 1].head>> \o (Blank \o (given[k + 1].data \o (CRLF \o Coming(k + 1))))) \in Seq(Atoms)
    BY <2>1, PartAtoms
  <2>3. k # Len(given)
    BY <1>2, GivenIs
  <2> QED BY <2>1, <2>2, <2>3 DEF PartOf
<1>3. k = Len(given) \/ k < Len(given)
  BY GivenIs
<1> QED BY <1>1, <1>2, <1>3, Zenon

\* The data under way: what is read of them, and what is left, up to a marker.
LEMMA DataIs ==
  ASSUME BodyTypes, Books, InData
  PROVE  LET p == given[Len(parts) + 1] IN
         \E e \in Seq(Text), Y \in Seq(Atoms) :
             /\ p \in Part /\ part \in Piece /\ part.head = p.head
             /\ Len(parts) + 1 \in 0..Len(given)
             /\ p.data \in Seq(Text) /\ part.data \in Seq(Text) /\ e \in Seq(Atoms)
             /\ p.data = part.data \o e
             /\ Coming(Len(parts) + 1) = Delim \o Y
             /\ Unread = e \o (CRLF \o Coming(Len(parts) + 1))
             /\ Unread = e \o (Marker \o Y)
             /\ Clean(e, Marker)
<1>1. PICK k, p : k = Len(parts) /\ p = given[k + 1]
  OBVIOUS
<1>2. PICK d, R : d = part.data /\ R = CRLF \o Coming(k + 1)
  OBVIOUS
<1>3. given \in Forms /\ Len(given) \in Nat /\ k \in 0..Len(given) /\ k < Len(given) /\ k + 1 \in 0..Len(given)
  BY <1>1, GivenIs DEF BodyTypes, InData
<1>4. p \in Part /\ Find(p.data, Marker) = 0 /\ Coming(k + 1) \in Seq(Atoms)
  BY <1>1, <1>3, ComingIs
<1>5. p.data \in Seq(Text) /\ p.data \in Seq(Atoms) /\ R \in Seq(Atoms) /\ p.head \in Heads
  BY <1>2, <1>4, PartAtoms
<1>6. part \in Piece /\ part.head = p.head /\ d \in Seq(Atoms) /\ Len(d) <= Len(p.data) /\ d \o Unread = p.data \o R
  BY <1>1, <1>2 DEF InData, Piece
<1>7. Unread \in Seq(Atoms)
  BY UnreadIs
<1>8. PICK e : e = After(p.data, Len(d))
  OBVIOUS
<1>9. p.data \o R = d \o Unread
  BY <1>6
<1>10. SubSeq(p.data, 1, Len(d)) = d /\ e \o R = Unread /\ p.data = d \o e
  <2>1. PICK x, U : x = p.data /\ U = Unread
    OBVIOUS
  <2>2. x \in Seq(Atoms) /\ R \in Seq(Atoms) /\ d \in Seq(Atoms) /\ U \in Seq(Atoms)
        /\ x \o R = d \o U /\ Len(d) <= Len(x)
    BY <1>5, <1>6, <1>7, <1>9, <2>1
  <2>3. SubSeq(x, 1, Len(d)) = d
    BY <2>2, SplitAtoms, Zenon
  <2>4. After(x, Len(d)) \o R = U
    BY <2>2, SplitAtoms, Zenon
  <2>5. SubSeq(x, 1, Len(d)) \o After(x, Len(d)) = x
    <3>1. Len(d) \in 0..Len(x)
      BY <2>2
    <3> QED BY <2>2, <3>1, CutAt
  <2> QED BY <1>8, <2>1, <2>3, <2>4, <2>5
<1>11. d \in Seq(Text) /\ e \in Seq(Text)
  <2>1. Len(d) \in 0..Len(p.data)
    BY <1>5, <1>6
  <2>2. SubSeq(p.data, 1, Len(d)) \in Seq(Text) /\ After(p.data, Len(d)) \in Seq(Text)
    BY <1>5, <2>1, CutAt
  <2> QED BY <1>8, <1>10, <2>2
<1>12. e \in Seq(Atoms)
  BY <1>11, TextAtoms
<1>13. PICK Y \in Seq(Atoms) : Coming(k + 1) = Delim \o Y
  BY <1>3, ComingStarts
<1>14. Marker \o Y = R
  <2>1. CRLF \in Seq(Atoms) /\ Delim \in Seq(Atoms)
    BY LiteralAtoms
  <2>2. (CRLF \o Delim) \o Y = CRLF \o (Delim \o Y)
    BY <2>1, ConcatAssociative
  <2> QED BY <1>2, <1>13, <2>2 DEF Marker
<1>15. Clean(e, Marker)
  BY <1>4, <1>10, <1>11, CleanData
<1>16. Unread = e \o (CRLF \o Coming(k + 1)) /\ Unread = e \o (Marker \o Y)
  BY <1>2, <1>10, <1>14
<1>17. /\ p \in Part /\ part \in Piece /\ part.head = p.head
       /\ p.data \in Seq(Text) /\ part.data \in Seq(Text)
       /\ p.data = part.data \o e
  BY <1>2, <1>4, <1>5, <1>6, <1>10, <1>11
<1> QED BY <1>1, <1>3, <1>11, <1>12, <1>13, <1>15, <1>16, <1>17

-----------------------------------------------------------------------------
(* The steps of the parser.                                                *)

\* What has not been looked at stays so.
LEMMA AheadStays ==
  ASSUME BodyInv, mode \in ParserModes, mode' \in ParserModes, mode' # "preamble", UNCHANGED parsing,
         mode = "preamble" => buffer # <<>>
  PROVE  Ahead' = Ahead
<1>1. feed' = feed /\ wire' = wire /\ body' = body
  BY DEF parsing, network
<1>2. CASE feed = "wire"
  BY <1>1, <1>2 DEF Ahead
<1>3. CASE feed # "wire"
  <2>1. mode = "preamble" => buffer = body
    BY <1>3 DEF BodyInv, BodyTypes, ParserAt
  <2> QED BY <1>1, <1>3, <2>1 DEF Ahead
<1> QED BY <1>2, <1>3

\* The first boundary is what the form begins with.
LEMMA FindFirstKeeps == ASSUME BodyInv, FindFirst PROVE BodyInv'
<1>1. PICK B, A, i : B = buffer /\ A = Ahead /\ i = Find(buffer, Delim)
  OBVIOUS
<1>2. mode = "preamble" /\ i > 0 /\ mode' = "delimited" /\ buffer' = After(B, i + Len(Delim) - 1)
  BY <1>1 DEF FindFirst
<1>3. mode \in ParserModes /\ mode' \in ParserModes
  BY <1>2 DEF ParserModes
<1>4. UNCHANGED <<parsing, goal, part, parts, form, failed>>
  BY DEF FindFirst
<1>5. B \in Seq(Atoms) /\ A \in Seq(Atoms) /\ Unread = B \o A /\ given \in Forms
  BY <1>1, UnreadIs DEF BodyInv, BodyTypes, Unread
<1>6. parts = <<>> /\ Unread = Coming(0)
  BY <1>2, <1>3 DEF BodyInv, ParserAt
<1>7. PICK Y \in Seq(Atoms) : Coming(0) = Delim \o Y
  <2>1. 0 \in 0..Len(given)
    BY <1>5, GivenIs
  <2> QED BY <1>5, <2>1, ComingStarts
<1>8. Delim \in Seq(Atoms) /\ Len(Delim) = 3 /\ Delim # <<>> /\ <<>> \in Seq(Atoms) /\ Len(<<>>) = 0
  BY LiteralAtoms, Literals
<1>9. i = 1 /\ 3 <= Len(B)
  <2>1. B \o A = <<>> \o (Delim \o Y)
    BY <1>5, <1>6, <1>7, <1>8, CatIs, ConcatEmptySeq
  <2>2. Clean(<<>>, Delim)
    BY DEF Clean
  <2>3. /\ B \in Seq(Atoms) /\ A \in Seq(Atoms) /\ <<>> \in Seq(Atoms) /\ Delim \in Seq(Atoms)
        /\ Y \in Seq(Atoms) /\ B \o A = <<>> \o (Delim \o Y) /\ Clean(<<>>, Delim) /\ Delim # <<>>
    BY <1>5, <1>7, <1>8, <2>1, <2>2
  <2>4. Find(B, Delim) = IF Len(<<>>) + Len(Delim) <= Len(B) THEN Len(<<>>) + 1 ELSE 0
    BY <2>3, SearchAtoms, Zenon
  <2>5. i = IF Len(<<>>) + Len(Delim) <= Len(B) THEN Len(<<>>) + 1 ELSE 0
    BY <1>1, <2>4
  <2> QED BY <1>2, <1>8, <2>5
<1>10. buffer' = After(B, Len(Delim))
  BY <1>2, <1>8, <1>9
<1>11. B \o A = Delim \o Y /\ Len(Delim) <= Len(B)
  BY <1>5, <1>6, <1>7, <1>8, <1>9
<1>12. After(B, Len(Delim)) \o A = Y
  <2>1. PICK P : P = Delim
    OBVIOUS
  <2>2. /\ B \in Seq(Atoms) /\ A \in Seq(Atoms) /\ P \in Seq(Atoms) /\ Y \in Seq(Atoms)
        /\ B \o A = P \o Y /\ Len(P) <= Len(B)
    BY <1>5, <1>7, <1>8, <1>11, <2>1
  <2>3. After(B, Len(P)) \o A = Y
    BY <2>2, SplitAtoms, Zenon
  <2> QED BY <2>1, <2>3
<1>13. After(B, Len(Delim)) \in Seq(Atoms)
  BY <1>5, <1>7, <1>8, <1>11, SplitAtoms, Zenon
<1>14. Ahead' = A
  <2>1. buffer # <<>>
    BY <1>1, <1>9
  <2> QED BY <1>1, <1>2, <1>3, <1>4, <2>1, AheadStays
<1>15. Delim \o Unread' = Coming(Len(parts))'
  <2>1. Unread' = Y
    BY <1>10, <1>12, <1>14 DEF Unread
  <2>2. Coming(Len(parts))' = Coming(0)
    BY <1>4, <1>6 DEF Coming, parsing, client
  <2> QED BY <1>7, <2>1, <2>2
<1>16. Intact(parts)'
  BY <1>4, <1>5, <1>6, BodyBounds, GivenIs DEF Intact, parsing, client
<1>17. BodyTypes'
  BY <1>3, <1>4, <1>10, <1>13 DEF BodyInv, BodyTypes, parsing, client, network
<1>18. ParserAt'
  BY <1>2, <1>3, <1>4, <1>15, <1>16 DEF BodyInv, ParserAt, parsing, client
<1> QED BY <1>3, <1>4, <1>17, <1>18, GoesOn DEF BodyInv

\* Two dashes follow the last boundary and no other.
LEMMA DelimitedKeeps == ASSUME BodyInv, Delimited PROVE BodyInv'
<1>1. PICK B, A, k : B = buffer /\ A = Ahead /\ k = Len(parts)
  OBVIOUS
<1>2. mode = "delimited" /\ UNCHANGED parsing /\ mode \in ParserModes
  BY DEF Delimited, ParserModes
<1>3. B \in Seq(Atoms) /\ A \in Seq(Atoms) /\ Unread = B \o A /\ Unread \in Seq(Atoms) /\ given \in Forms
      /\ Len(Unread) = Len(B) + Len(A) /\ \A i \in 1..Len(B) : Unread[i] = B[i]
  BY <1>1, UnreadIs DEF BodyInv, BodyTypes, Unread
<1>4. Intact(parts) /\ Delim \o Unread = Coming(k)
  BY <1>1, <1>2 DEF BodyInv, ParserAt
<1>5. k \in 0..Len(given) /\ Len(given) \in Nat
  BY <1>1, <1>3, <1>4, GivenIs, UnreadIs DEF Intact, BodyInv
<1>6. PICK Y \in Seq(Atoms) :
          /\ Coming(k) = Delim \o Y
          /\ k = Len(given) => Y = Dashes
          /\ k < Len(given) => Y = CRLF \o (<<given[k + 1].head>> \o (Blank \o (given[k + 1].data \o (CRLF \o Coming(k + 1)))))
  BY <1>3, <1>5, ComingStarts
<1>7. Unread = Y
  <2>1. Delim \in Seq(Atoms) /\ Delim \o Unread = Delim \o Y
    BY <1>4, <1>6, LiteralAtoms
  <2> QED BY <1>3, <2>1, CancelAtoms, Zenon
<1>8. IsPrefix(Dashes, B) => k = Len(given)
  <2>1. SUFFICES ASSUME IsPrefix(Dashes, B), k < Len(given) PROVE FALSE
    BY <1>5
  <2>2. 2 <= Len(B) /\ B[1] = "-"
    <3>1. Len(Dashes) <= Len(B) /\ SubSeq(Dashes, 1, Len(Dashes)) = SubSeq(B, 1, Len(Dashes))
      BY <2>1 DEF IsPrefix
    <3>2. Len(Dashes) = 2 /\ Dashes \in Seq(Text) /\ Dashes[1] = "-"
      BY Literals
    <3>3. 2 \in 0..Len(B) /\ 2 \in 0..Len(Dashes) /\ 1 \in 1..2
      BY <1>3, <3>1, <3>2
    <3>4. SubSeq(B, 1, 2)[1] = B[1]
      BY <1>3, <3>3, CutAt
    <3>5. SubSeq(Dashes, 1, 2)[1] = Dashes[1]
      BY <3>2, <3>3, CutAt
    <3> QED BY <3>1, <3>2, <3>3, <3>4, <3>5
  <2>3. PICK W : W = <<given[k + 1].head>> \o (Blank \o (given[k + 1].data \o (CRLF \o Coming(k + 1))))
    OBVIOUS
  <2>4. W \in Seq(Atoms) /\ Unread = CRLF \o W
    <3>1. given[k + 1] \in Part /\ Coming(k + 1) \in Seq(Atoms)
      BY <1>3, <1>5, <2>1, ComingIs
    <3> QED BY <1>6, <1>7, <2>1, <2>3, <3>1, PartAtoms
  <2>5. Unread[1] = "CR"
    <3>1. CRLF \in Seq(Atoms) /\ 1 \in 1..Len(CRLF) /\ CRLF[1] = "CR"
      BY Literals, LiteralAtoms
    <3>2. \A i \in 1..Len(CRLF) : (CRLF \o W)[i] = CRLF[i]
      BY <2>4, <3>1, CatIs
    <3> QED BY <2>4, <3>1, <3>2
  <2>6. 1 \in 1..Len(B)
    BY <1>3, <2>2
  <2> QED BY <1>3, <2>2, <2>5, <2>6
<1>9. CASE IsPrefix(Dashes, B)
  <2>1. EndForm
    BY <1>1, <1>9 DEF Delimited, Dashes
  <2>2. parts = given
    BY <1>1, <1>4, <1>8, <1>9, WholeIs DEF BodyInv
  <2> QED BY <1>2, <1>4, <2>1, <2>2, Ends
<1>10. CASE ~IsPrefix(Dashes, B)
  <2>1. /\ mode' = "headers" /\ buffer' = IF IsPrefix(CRLF, B) THEN After(B, 2) ELSE B
        /\ UNCHANGED <<goal, part, parts, form, failed>>
    BY <1>1, <1>10 DEF Delimited, Dashes
  <2>2. mode' \in ParserModes /\ mode' # "preamble"
    BY <2>1 DEF ParserModes
  <2>3. Ahead' = A
    BY <1>1, <1>2, <2>2, AheadStays
  <2>4. PICK W : W = <<given[k + 1].head>> \o (Blank \o (given[k + 1].data \o (CRLF \o Coming(k + 1))))
    OBVIOUS
  <2>5. k < Len(given) => W \in Seq(Atoms) /\ Unread = CRLF \o W
    <3>1. SUFFICES ASSUME k < Len(given) PROVE W \in Seq(Atoms) /\ Unread = CRLF \o W
      OBVIOUS
    <3>2. given[k + 1] \in Part /\ Coming(k + 1) \in Seq(Atoms)
      BY <1>3, <1>5, <3>1, ComingIs
    <3> QED BY <1>6, <1>7, <2>4, <3>1, <3>2, PartAtoms
  <2>6. CRLF \in Seq(Atoms) /\ Len(CRLF) = 2 /\ CRLF[1] = "CR"
    BY Literals, LiteralAtoms
  <2>7. IsPrefix(CRLF, B) => 2 <= Len(B) /\ B[1] = "CR"
    <3>1. SUFFICES ASSUME Len(CRLF) <= Len(B), SubSeq(CRLF, 1, Len(CRLF)) = SubSeq(B, 1, Len(CRLF))
          PROVE  2 <= Len(B) /\ B[1] = "CR"
      BY DEF IsPrefix
    <3>2. 2 \in 0..Len(B) /\ 2 \in 0..Len(CRLF) /\ 1 \in 1..2
      BY <1>3, <2>6, <3>1
    <3>3. SubSeq(B, 1, 2)[1] = B[1]
      BY <1>3, <3>2, CutAt
    <3>4. SubSeq(CRLF, 1, 2)[1] = CRLF[1]
      BY <2>6, <3>2, CutAt
    <3> QED BY <2>6, <3>1, <3>2, <3>3, <3>4
  <2>8. buffer' \in Seq(Atoms) /\ (Unread' = Unread \/ (k < Len(given) /\ Unread' = W))
    <3>1. CASE ~IsPrefix(CRLF, B)
      BY <1>1, <1>3, <2>1, <2>3, <3>1 DEF Unread
    <3>2. CASE IsPrefix(CRLF, B)
      <4>1. k < Len(given)
        <5>1. SUFFICES ASSUME k = Len(given) PROVE FALSE
          BY <1>5
        <5>2. Unread[1] = "CR"
          <6>1. 1 \in 1..Len(B)
            BY <1>3, <2>7, <3>2
          <6> QED BY <1>3, <2>7, <3>2, <6>1
        <5> QED BY <1>6, <1>7, <5>1, <5>2, Literals
      <4>2. B \o A = CRLF \o W /\ Len(CRLF) <= Len(B) /\ W \in Seq(Atoms)
        BY <1>3, <2>5, <2>6, <2>7, <3>2, <4>1
      <4>3. After(B, Len(CRLF)) \in Seq(Atoms)
        BY <1>3, <2>6, <4>2, SplitAtoms, Zenon
      <4>4. After(B, Len(CRLF)) \o A = W
        <5>1. PICK P : P = CRLF
          OBVIOUS
        <5>2. /\ B \in Seq(Atoms) /\ A \in Seq(Atoms) /\ P \in Seq(Atoms) /\ W \in Seq(Atoms)
              /\ B \o A = P \o W /\ Len(P) <= Len(B)
          BY <1>3, <2>6, <4>2, <5>1
        <5>3. After(B, Len(P)) \o A = W
          BY <5>2, SplitAtoms, ZenonT(60)
        <5> QED BY <5>1, <5>3
      <4> QED BY <2>1, <2>3, <2>6, <3>2, <4>1, <4>3, <4>4 DEF Unread
    <3> QED BY <3>1, <3>2
  <2>9. AtHeaders'
    <3>1. /\ Len(parts)' = k /\ given' = given /\ Coming(k + 1)' = Coming(k + 1)
      BY <1>1, <1>2, <2>1 DEF Coming, parsing, client
    <3>2. k = Len(given) => Unread' = <<"-", "-">>
      BY <1>5, <1>6, <1>7, <2>8 DEF Dashes
    <3>3. k # Len(given) => Unread' \in {W, CRLF \o W}
      BY <1>5, <2>5, <2>8
    <3>4. AtHeaders' = IF k = Len(given) THEN Unread' = <<"-", "-">> ELSE Unread' \in {W, CRLF \o W}
      BY <2>4, <3>1 DEF AtHeaders
    <3> QED BY <3>2, <3>3, <3>4
  <2>10. Intact(parts)'
    BY <1>2, <1>4, <2>1 DEF Intact, TooLong, parsing, client
  <2>11. BodyTypes'
    BY <1>2, <2>1, <2>2, <2>8 DEF BodyInv, BodyTypes, parsing, client, network
  <2>12. ParserAt'
    BY <1>2, <2>1, <2>9, <2>10 DEF BodyInv, ParserAt, parsing, client
  <2> QED BY <1>2, <2>1, <2>2, <2>11, <2>12, GoesOn DEF BodyInv
<1> QED BY <1>9, <1>10

\* D is the header of p, perhaps with the end of a line before it, and Z what
\* follows it.
HeaderAt(p, D, Z) ==
    /\ Z = p.data \o (CRLF \o Coming(Len(parts) + 1))
    /\ Unread = D \o (Blank \o Z)
    /\ Clean(D, Blank)
    /\ \E n \in 1..Len(D) : D[n] = p.head /\ \A j \in 1..Len(D) : D[j] \in Heads => j = n

\* So the headers are.
LEMMA HeaderIs ==
  ASSUME BodyTypes, Books, AtHeaders, Intact(parts), Len(parts) < Len(given)
  PROVE  /\ given[Len(parts) + 1] \in Part /\ given[Len(parts) + 1].head \in Heads
         /\ \E D \in Seq(Atoms), Z \in Seq(Atoms) : HeaderAt(given[Len(parts) + 1], D, Z)
<1>1. PICK k, p : k = Len(parts) /\ p = given[k + 1]
  OBVIOUS
<1>2. k \in 0..Len(given) /\ k < Len(given) /\ Len(given) \in Nat /\ given \in Forms
  BY <1>1, GivenIs, UnreadIs DEF BodyTypes
<1>3. p \in Part /\ Coming(k + 1) \in Seq(Atoms)
  BY <1>1, <1>2, ComingIs
<1>4. PICK Z : Z = p.data \o (CRLF \o Coming(k + 1))
  OBVIOUS
<1>5. p.head \in Heads /\ Z \in Seq(Atoms) /\ Blank \o Z \in Seq(Atoms)
      /\ <<p.head>> \in Seq(Atoms) /\ CRLF \in Seq(Atoms)
  BY <1>3, <1>4, PartAtoms, HeadAtoms, LiteralAtoms
<1>6. Unread = <<p.head>> \o (Blank \o Z) \/ Unread = CRLF \o (<<p.head>> \o (Blank \o Z))
  <2>1. k # Len(given)
    BY <1>2
  <2> QED BY <1>1, <1>4, <2>1 DEF AtHeaders
<1>7. CASE Unread = <<p.head>> \o (Blank \o Z)
  <2>1. PICK D : D = <<p.head>>
    OBVIOUS
  <2>2. Clean(D, Blank) /\ D \in Seq(Atoms) /\ Len(D) = 1 /\ D[1] = p.head
    BY <1>5, <2>1, CleanHead, HeadAtoms
  <2>3. \E n \in 1..Len(D) : D[n] = p.head /\ \A j \in 1..Len(D) : D[j] \in Heads => j = n
    BY <2>2
  <2>4. HeaderAt(p, D, Z)
    BY <1>1, <1>4, <1>7, <2>1, <2>2, <2>3 DEF HeaderAt
  <2> QED BY <1>1, <1>3, <1>5, <2>2, <2>4
<1>8. CASE Unread = CRLF \o (<<p.head>> \o (Blank \o Z))
  <2>1. PICK e, D : e = <<p.head>> /\ D = CRLF \o e
    OBVIOUS
  <2>2. e \in Seq(Atoms) /\ Len(e) = 1 /\ e[1] = p.head /\ Clean(D, Blank)
    BY <1>5, <2>1, CleanHead, HeadAtoms
  <2>3. Len(CRLF) = 2 /\ CRLF[1] = "CR" /\ CRLF[2] = "LF"
    BY Literals
  <2>4. /\ D \in Seq(Atoms) /\ Len(D) = Len(CRLF) + Len(e)
        /\ \A i \in 1..Len(CRLF) : D[i] = CRLF[i]
        /\ \A i \in 1..Len(e) : D[Len(CRLF) + i] = e[i]
    BY <1>5, <2>1, <2>2, CatAtoms, Zenon
  <2>5. Len(D) = 3 /\ D[1] = "CR" /\ D[2] = "LF" /\ D[3] = p.head
    <3>1. D[1] = CRLF[1] /\ D[2] = CRLF[2] /\ D[2 + 1] = e[1] /\ Len(D) = 2 + 1
      BY <2>2, <2>3, <2>4
    <3> QED BY <2>2, <2>3, <3>1
  <2>6. 3 \in 1..Len(D) /\ \A j \in 1..Len(D) : D[j] \in Heads => j = 3
    BY <2>5, TextAtoms
  <2>7. Unread = D \o (Blank \o Z)
    <3>1. (CRLF \o e) \o (Blank \o Z) = CRLF \o (e \o (Blank \o Z))
      BY <1>5, <2>2, AssocAtoms, Zenon
    <3> QED BY <1>8, <2>1, <3>1
  <2>8. HeaderAt(p, D, Z)
    BY <1>1, <1>4, <2>2, <2>5, <2>6, <2>7 DEF HeaderAt
  <2> QED BY <1>1, <1>3, <1>5, <2>4, <2>8
<1> QED BY <1>6, <1>7, <1>8

\* The headers found are those of the next part, or it is one too many.
LEMMA ParseHeadersKeeps == ASSUME BodyInv, ParseHeaders PROVE BodyInv'
<1>1. PICK B, A, i, k, p : B = buffer /\ A = Ahead /\ i = Find(B, Blank) /\ k = Len(parts) /\ p = given[k + 1]
  OBVIOUS
<1>2. mode = "headers" /\ i > 0 /\ UNCHANGED parsing /\ mode \in ParserModes
  BY <1>1 DEF ParseHeaders, ParserModes
<1>3. B \in Seq(Atoms) /\ A \in Seq(Atoms) /\ Unread = B \o A /\ given \in Forms
      /\ Len(Unread) = Len(B) + Len(A) /\ (\A j \in 1..Len(B) : Unread[j] = B[j])
      /\ k \in Nat /\ Len(given) \in Nat /\ Len(A) \in Nat /\ Len(B) \in Nat
  BY <1>1, UnreadIs, GivenIs DEF BodyInv, BodyTypes, Unread
<1>4. Intact(parts) /\ AtHeaders /\ k <= Len(given)
  BY <1>1, <1>2 DEF BodyInv, ParserAt, Intact
<1>5. Blank \in Seq(Atoms) /\ Len(Blank) = 4 /\ Blank # <<>>
  BY LiteralAtoms, Joined
<1>6. k < Len(given)
  <2>1. SUFFICES ASSUME k = Len(given) PROVE FALSE
    BY <1>3, <1>4
  <2>2. Len(Unread) = 2
    BY <1>1, <1>4, <2>1 DEF AtHeaders
  <2>3. i \in Nat /\ At(B, Blank, i)
    BY <1>1, <1>2, <1>3, <1>5, FindIs
  <2>4. i + Len(Blank) - 1 <= Len(B)
    BY <2>3 DEF At
  <2> QED BY <1>2, <1>3, <1>5, <2>2, <2>3, <2>4
<1>7. PICK D \in Seq(Atoms), Z \in Seq(Atoms) :
          /\ p \in Part /\ p.head \in Heads
          /\ Z = p.data \o (CRLF \o Coming(k + 1))
          /\ Unread = D \o (Blank \o Z)
          /\ Clean(D, Blank)
          /\ \E n \in 1..Len(D) : D[n] = p.head /\ \A j \in 1..Len(D) : D[j] \in Heads => j = n
  BY <1>1, <1>4, <1>6, HeaderIs DEF BodyInv, HeaderAt
<1>8. PICK n \in 1..Len(D) : D[n] = p.head /\ \A j \in 1..Len(D) : D[j] \in Heads => j = n
  BY <1>7
<1>9. i = Len(D) + 1 /\ Len(D) + 4 <= Len(B)
  <2>1. /\ B \in Seq(Atoms) /\ A \in Seq(Atoms) /\ D \in Seq(Atoms) /\ Blank \in Seq(Atoms)
        /\ Z \in Seq(Atoms) /\ B \o A = D \o (Blank \o Z) /\ Clean(D, Blank) /\ Blank # <<>>
    BY <1>3, <1>5, <1>7
  <2>1a. Find(B, Blank) = IF Len(D) + Len(Blank) <= Len(B) THEN Len(D) + 1 ELSE 0
    BY <2>1, SearchAtoms, Zenon
  <2>2. i = IF Len(D) + Len(Blank) <= Len(B) THEN Len(D) + 1 ELSE 0
    BY <1>1, <2>1a
  <2> QED BY <1>2, <1>5, <2>2
<1>10. PICK P : P = D \o Blank
  OBVIOUS
<1>11. P \in Seq(Atoms) /\ Len(P) = Len(D) + 4 /\ \A j \in 1..Len(D) : P[j] = D[j]
  <2>1. /\ P \in Seq(Atoms) /\ Len(P) = Len(D) + Len(Blank) /\ \A j \in 1..Len(D) : P[j] = D[j]
    BY <1>5, <1>10, CatAtoms, Zenon
  <2> QED BY <1>5, <2>1
<1>12. B \o A = P \o Z /\ Len(P) <= Len(B)
  <2>1. (D \o Blank) \o Z = D \o (Blank \o Z)
    BY <1>5, AssocAtoms, Zenon
  <2> QED BY <1>3, <1>7, <1>9, <1>10, <1>11, <2>1
<1>13. /\ B \in Seq(Atoms) /\ A \in Seq(Atoms) /\ P \in Seq(Atoms) /\ Z \in Seq(Atoms)
       /\ B \o A = P \o Z /\ Len(P) <= Len(B)
  BY <1>3, <1>11, <1>12
<1>14. SubSeq(B, 1, Len(P)) = P
  BY <1>13, SplitAtoms, Zenon
<1>15. After(B, Len(P)) \o A = Z
  BY <1>13, SplitAtoms, ZenonT(60)
<1>16. After(B, Len(P)) \in Seq(Atoms)
  BY <1>13, SplitAtoms, Zenon
<1>17. \A j \in 1..Len(D) : B[j] = D[j]
  <2>1. Len(D) \in Nat /\ Len(P) \in 0..Len(B)
    BY <1>3, <1>11, <1>12
  <2>2. \A j \in 1..Len(P) : SubSeq(B, 1, Len(P))[j] = B[j]
    BY <1>3, <2>1, CutAt
  <2> QED BY <1>11, <1>14, <2>1, <2>2
<1>18. PICK named : named = {j \in 1..(i - 1) : B[j] \in Heads}
  OBVIOUS
<1>19. named = {n} /\ First(named) = n /\ B[First(named)] = p.head
  <2>1. named = {n}
    <3>1. 1..(i - 1) = 1..Len(D)
      BY <1>9
    <3>2. \A j \in 1..Len(D) : B[j] \in Heads <=> j = n
      BY <1>7, <1>8, <1>17
    <3> QED BY <1>18, <3>1, <3>2
  <2>2. n \in Nat
    OBVIOUS
  <2>3. First(named) \in named
    BY <2>1, <2>2, FirstIs
  <2> QED BY <1>8, <1>17, <2>1, <2>3
<1>20. CASE k + 1 > MaxFields
  <2>1. Fail
    BY <1>1, <1>18, <1>19, <1>20 DEF ParseHeaders
  <2>2. TooMuch
    <3>1. MaxFields \in Nat
      BY BodyBounds
    <3> QED BY <1>3, <1>6, <1>20, <3>1 DEF TooMuch
  <2> QED BY <1>2, <2>1, <2>2, Refuses
<1>21. CASE ~(k + 1 > MaxFields)
  <2>1. /\ part' = [head |-> p.head, data |-> <<>>]
        /\ buffer' = After(B, i + Len(Blank) - 1)
        /\ mode' = "data"
        /\ UNCHANGED <<goal, parts, form, failed>>
    BY <1>1, <1>18, <1>19, <1>21 DEF ParseHeaders
  <2>2. buffer' = After(B, Len(P))
    <3>1. i + Len(Blank) - 1 = Len(P)
      BY <1>5, <1>9, <1>11
    <3> QED BY <2>1, <3>1
  <2>3. mode' \in ParserModes /\ mode' # "preamble"
    BY <2>1 DEF ParserModes
  <2>4. Ahead' = A
    BY <1>1, <1>2, <2>3, AheadStays
  <2>5. Unread' = Z
    BY <1>15, <2>2, <2>4 DEF Unread
  <2>6. InData'
    <3>1. parts' = parts /\ given' = given /\ Coming(k + 1)' = Coming(k + 1)
      BY <1>2, <2>1 DEF Coming, parsing, client
    <3>2. part' \in Piece /\ part'.head = p.head /\ part'.data = <<>>
      BY <1>7, <2>1 DEF Piece
    <3>3. k < MaxFields
      BY <1>3, <1>21, BodyBounds, SMTT(60)
    <3>4. p.data \in Seq(Text) /\ Len(part'.data) <= Len(p.data)
      <4>1. p.data \in Seq(Text)
        BY <1>7 DEF Part
      <4> QED BY <3>2, <4>1
    <3>5. part'.data \o Unread' = p.data \o (CRLF \o Coming(k + 1))
      <4>1. <<>> \o Z = Z
        BY ConcatEmptySeq
      <4> QED BY <1>7, <2>5, <3>2, <4>1
    <3> QED BY <1>1, <1>6, <3>1, <3>2, <3>3, <3>4, <3>5 DEF InData
  <2>7. Intact(parts)'
    BY <1>2, <1>4, <2>1 DEF Intact, TooLong, parsing, client
  <2>8. BodyTypes'
    BY <1>2, <1>16, <2>1, <2>2, <2>3 DEF BodyInv, BodyTypes, parsing, client, network
  <2>9. ParserAt'
    BY <1>2, <2>1, <2>6, <2>7 DEF BodyInv, ParserAt, parsing, client
  <2> QED BY <1>2, <2>1, <2>3, <2>8, <2>9, GoesOn DEF BodyInv
<1> QED BY <1>20, <1>21

\* The next boundary, after the end of the line.
LEMMA NextPartKeeps == ASSUME BodyInv, NextPart PROVE BodyInv'
<1>1. PICK B, A, k : B = buffer /\ A = Ahead /\ k = Len(parts)
  OBVIOUS
<1>2. /\ mode = "seek" /\ IsPrefix(Delim, B) /\ mode \in ParserModes
      /\ buffer' = After(B, Len(Delim)) /\ mode' = "delimited"
      /\ UNCHANGED <<parsing, goal, part, parts, form, failed>>
  BY <1>1 DEF NextPart, ParserModes
<1>3. B \in Seq(Atoms) /\ A \in Seq(Atoms) /\ Unread = B \o A /\ given \in Forms /\ k \in Nat
  BY <1>1, UnreadIs DEF BodyInv, BodyTypes, Unread
<1>4. Delim \in Seq(Atoms) /\ Len(Delim) = 3 /\ Len(Delim) <= Len(B)
  BY <1>2, Literals, LiteralAtoms DEF IsPrefix
<1>5. Intact(parts) /\ Unread = Coming(k)
  <2>1. B # <<>>
    BY <1>3, <1>4
  <2> QED BY <1>1, <1>2, <2>1 DEF BodyInv, ParserAt
<1>6. k \in 0..Len(given)
  BY <1>1, <1>3, <1>5, GivenIs DEF Intact
<1>7. PICK Y \in Seq(Atoms) : Coming(k) = Delim \o Y
  BY <1>3, <1>6, ComingStarts
<1>8. PICK P : P = Delim
  OBVIOUS
<1>9. /\ B \in Seq(Atoms) /\ A \in Seq(Atoms) /\ P \in Seq(Atoms) /\ Y \in Seq(Atoms)
      /\ B \o A = P \o Y /\ Len(P) <= Len(B)
  BY <1>3, <1>4, <1>5, <1>7, <1>8
<1>10. After(B, Len(P)) \o A = Y
  BY <1>9, SplitAtoms, Zenon
<1>11. After(B, Len(P)) \in Seq(Atoms)
  BY <1>9, SplitAtoms, Zenon
<1>12. mode' \in ParserModes /\ mode' # "preamble"
  BY <1>2 DEF ParserModes
<1>13. Ahead' = A
  BY <1>1, <1>2, <1>12, AheadStays
<1>14. Delim \o Unread' = Coming(Len(parts))'
  <2>1. Unread' = Y
    BY <1>2, <1>8, <1>10, <1>13 DEF Unread
  <2>2. Coming(Len(parts))' = Coming(k)
    BY <1>1, <1>2 DEF Coming, parsing, client
  <2> QED BY <1>7, <2>1, <2>2
<1>15. Intact(parts)'
  BY <1>2, <1>5 DEF Intact, TooLong, parsing, client
<1>16. BodyTypes'
  BY <1>2, <1>8, <1>11, <1>12 DEF BodyInv, BodyTypes, parsing, client, network
<1>17. ParserAt'
  BY <1>2, <1>14, <1>15 DEF BodyInv, ParserAt, parsing, client
<1> QED BY <1>2, <1>12, <1>16, <1>17, GoesOn DEF BodyInv

\* A part that gets more data.
LEMMA LongerIs ==
  ASSUME part \in Piece, NEW d \in Seq(Atoms)
  PROVE  /\ Longer(d) \in Piece
         /\ Longer(d) = [head |-> part.head, data |-> part.data \o d]
<1>1. part.head \in Heads /\ part.data \in Seq(Atoms) /\ part = [head |-> part.head, data |-> part.data]
  BY DEF Piece
<1>2. Longer(d) = [head |-> part.head, data |-> part.data \o d]
  <2>1. part.data \o d \in Seq(Atoms)
    BY <1>1, CatIs
  <2>2. PICK x : x = part.data \o d
    OBVIOUS
  <2>3. [part EXCEPT !.data = x] = [head |-> part.head, data |-> x]
    BY <1>1
  <2> QED BY <2>2, <2>3 DEF Longer
<1>3. part.data \o d \in Seq(Atoms)
  BY <1>1, CatIs
<1> QED BY <1>1, <1>2, <1>3 DEF Piece

\* One of the parts sent is over a limit.
LEMMA OneTooLong ==
  ASSUME BodyInv, mode \in ParserModes, Len(parts) < Len(given), TooLong(given[Len(parts) + 1])
  PROVE  TooMuch
<1>1. content = "multipart"
  BY DEF BodyInv, ParserAt
<1>2. Len(parts) + 1 \in DOMAIN given
  BY GivenIs DEF BodyInv, BodyTypes
<1> QED BY <1>1, <1>2 DEF TooMuch

\* The first marker in the buffer is the one behind the part: the part is whole.
LEMMA FoundMarkerKeeps == ASSUME BodyInv, FoundMarker PROVE BodyInv'
<1>1. PICK B, A, i, k, p : B = buffer /\ A = Ahead /\ i = Find(B, Marker) /\ k = Len(parts) /\ p = given[k + 1]
  OBVIOUS
<1>2. /\ mode = "data" /\ i > 0 /\ UNCHANGED parsing /\ mode \in ParserModes
      /\ EndPart(SubSeq(B, 1, i - 1), After(B, i + 1))
  BY <1>1 DEF FoundMarker, ParserModes
<1>3. B \in Seq(Atoms) /\ A \in Seq(Atoms) /\ Unread = B \o A /\ given \in Forms
      /\ k \in Nat /\ Len(given) \in Nat /\ Len(B) \in Nat /\ parts \in Seq(Piece)
  BY <1>1, UnreadIs, GivenIs DEF BodyInv, BodyTypes, Unread
<1>4. Intact(parts) /\ InData
  BY <1>2 DEF BodyInv, ParserAt
<1>5. k < Len(given) /\ k < MaxFields
  BY <1>1, <1>4 DEF InData
<1>6. PICK e \in Seq(Text), Y \in Seq(Atoms) :
             /\ p \in Part /\ part \in Piece /\ part.head = p.head
             /\ k + 1 \in 0..Len(given)
             /\ p.data \in Seq(Text) /\ part.data \in Seq(Text) /\ e \in Seq(Atoms)
             /\ p.data = part.data \o e
             /\ Coming(k + 1) = Delim \o Y
             /\ Unread = e \o (CRLF \o Coming(k + 1))
             /\ Unread = e \o (Marker \o Y)
             /\ Clean(e, Marker)
  BY <1>1, <1>4, DataIs DEF BodyInv
<1>7. Marker \in Seq(Atoms) /\ Len(Marker) = 5 /\ Marker # <<>> /\ CRLF \in Seq(Atoms) /\ Len(CRLF) = 2
  BY LiteralAtoms, Joined, Literals
<1>8. i = Len(e) + 1 /\ Len(e) + 5 <= Len(B) /\ Len(e) \in Nat
  <2>1. /\ B \in Seq(Atoms) /\ A \in Seq(Atoms) /\ e \in Seq(Atoms) /\ Marker \in Seq(Atoms)
        /\ Y \in Seq(Atoms) /\ B \o A = e \o (Marker \o Y) /\ Clean(e, Marker) /\ Marker # <<>>
    BY <1>3, <1>6, <1>7
  <2>2. Find(B, Marker) = IF Len(e) + Len(Marker) <= Len(B) THEN Len(e) + 1 ELSE 0
    BY <2>1, SearchAtoms, Zenon
  <2>3. Len(e) \in Nat
    BY <1>6
  <2> QED BY <1>1, <1>2, <1>7, <2>2, <2>3
<1>9. SubSeq(B, 1, i - 1) = e
  <2>1. PICK X : X = Marker \o Y
    OBVIOUS
  <2>2. /\ B \in Seq(Atoms) /\ A \in Seq(Atoms) /\ e \in Seq(Atoms) /\ X \in Seq(Atoms)
        /\ B \o A = e \o X /\ Len(e) <= Len(B)
    <3>1. X \in Seq(Atoms)
      BY <1>6, <1>7, <2>1, CatAtoms, Zenon
    <3>2. B \o A = e \o X
      BY <1>3, <1>6, <2>1
    <3>3. Len(e) <= Len(B)
      BY <1>3, <1>8
    <3> QED BY <1>3, <1>6, <3>1, <3>2, <3>3
  <2>3. SubSeq(B, 1, Len(e)) = e
    BY <2>2, SplitAtoms, Zenon
  <2>4. i - 1 = Len(e)
    BY <1>8
  <2> QED BY <2>3, <2>4
<1>10. Longer(e) = p
  <2>1. Longer(e) = [head |-> p.head, data |-> p.data]
    BY <1>6, LongerIs
  <2> QED BY <1>6, <2>1 DEF Part
<1>11. CASE TooLong(p)
  <2>1. Fail
    BY <1>2, <1>9, <1>10, <1>11 DEF EndPart
  <2>2. TooMuch
    BY <1>1, <1>2, <1>5, <1>11, OneTooLong
  <2> QED BY <1>2, <2>1, <2>2, Refuses
<1>12. CASE ~TooLong(p)
  <2>1. /\ parts' = Append(parts, p)
        /\ part' = Absent
        /\ buffer' = After(B, i + 1)
        /\ mode' = "seek"
        /\ UNCHANGED <<goal, form, failed>>
    BY <1>2, <1>9, <1>10, <1>12 DEF EndPart
  <2>2. PICK P, R : P = e \o CRLF /\ R = Coming(k + 1)
    OBVIOUS
  <2>3. P \in Seq(Atoms) /\ Len(P) = Len(e) + Len(CRLF)
    BY <1>6, <1>7, <2>2, CatAtoms, Zenon
  <2>4. R \in Seq(Atoms)
    BY <1>3, <1>6, <2>2, ComingIs
  <2>5. B \o A = P \o R
    <3>1. (e \o CRLF) \o R = e \o (CRLF \o R)
      BY <1>6, <1>7, <2>4, AssocAtoms, Zenon
    <3> QED BY <1>3, <1>6, <2>2, <3>1
  <2>6. /\ B \in Seq(Atoms) /\ A \in Seq(Atoms) /\ P \in Seq(Atoms) /\ R \in Seq(Atoms)
        /\ B \o A = P \o R /\ Len(P) <= Len(B)
    BY <1>3, <1>7, <1>8, <2>3, <2>4, <2>5
  <2>7. After(B, Len(P)) \o A = R
    BY <2>6, SplitAtoms, ZenonT(60)
  <2>8. After(B, Len(P)) \in Seq(Atoms)
    BY <2>6, SplitAtoms, Zenon
  <2>9. buffer' = After(B, Len(P))
    <3>1. i + 1 = Len(P)
      BY <1>7, <1>8, <2>3
    <3> QED BY <2>1, <3>1
  <2>10. mode' \in ParserModes /\ mode' # "preamble"
    BY <2>1 DEF ParserModes
  <2>11. Ahead' = A
    BY <1>1, <1>2, <2>10, AheadStays
  <2>12. Len(parts') = k + 1 /\ parts' \in Seq(Piece) /\ (\A j \in 1..k : parts'[j] = parts[j]) /\ parts'[k + 1] = p
    <3>1. p \in Piece
      BY <1>6, TextAtoms DEF Part, Piece
    <3> QED BY <1>1, <1>3, <2>1, <3>1
  <2>13. Unread' = Coming(Len(parts))'
    <3>1. Unread' = R
      BY <2>7, <2>9, <2>11 DEF Unread
    <3>2. Coming(Len(parts))' = Coming(k + 1)
      BY <1>2, <2>12 DEF Coming, parsing, client
    <3> QED BY <2>2, <3>1, <3>2
  <2>14. Intact(parts)'
    <3>1. given' = given
      BY <1>2 DEF parsing, client
    <3>2. Len(parts') <= Len(given) /\ Len(parts') <= MaxFields
      BY <1>3, <1>5, <2>12, BodyBounds, SMTT(60)
    <3>3. ASSUME NEW j \in 1..Len(parts') PROVE parts'[j] = given[j] /\ ~TooLong(given[j])
      <4>1. CASE j \in 1..k
        BY <1>1, <1>4, <2>12, <4>1 DEF Intact
      <4>2. CASE j = k + 1
        BY <1>1, <1>12, <2>12, <4>2
      <4> QED BY <1>3, <2>12, <4>1, <4>2
    <3> QED BY <3>1, <3>2, <3>3 DEF Intact, TooLong
  <2>15. BodyTypes'
    BY <1>2, <2>1, <2>8, <2>9, <2>10, <2>12 DEF BodyInv, BodyTypes, parsing, client, network
  <2>16. ParserAt'
    BY <1>2, <2>1, <2>13, <2>14 DEF BodyInv, ParserAt, parsing, client
  <2> QED BY <1>2, <2>1, <2>10, <2>15, <2>16, GoesOn DEF BodyInv
<1> QED BY <1>11, <1>12

\* What is flushed lies before the marker, however much of it has come.
LEMMA FlushKeeps == ASSUME BodyInv, Flush PROVE BodyInv'
<1>1. PICK B, A, n, k, p, d : B = buffer /\ A = Ahead /\ n = Len(B) - Keep /\ k = Len(parts) /\ p = given[k + 1] /\ d = part.data
  OBVIOUS
<1>2. /\ mode = "data" /\ Find(B, Marker) = 0 /\ n > 0 /\ UNCHANGED parsing /\ mode \in ParserModes
      /\ IF TooLong(Longer(SubSeq(B, 1, n))) THEN Fail
         ELSE /\ part' = Longer(SubSeq(B, 1, n))
              /\ buffer' = After(B, n)
              /\ UNCHANGED <<goal, mode, parts, form, failed>>
  BY <1>1 DEF Flush, ParserModes
<1>3. B \in Seq(Atoms) /\ A \in Seq(Atoms) /\ Unread = B \o A /\ given \in Forms
      /\ k \in Nat /\ Len(given) \in Nat /\ Len(B) \in Nat
  BY <1>1, UnreadIs, GivenIs DEF BodyInv, BodyTypes, Unread
<1>4. Intact(parts) /\ InData
  BY <1>2 DEF BodyInv, ParserAt
<1>5. k < Len(given) /\ k < MaxFields /\ d \o Unread = p.data \o (CRLF \o Coming(k + 1))
  BY <1>1, <1>4 DEF InData
<1>6. PICK e \in Seq(Text), Y \in Seq(Atoms) :
             /\ p \in Part /\ part \in Piece /\ part.head = p.head
             /\ p.data \in Seq(Text) /\ d \in Seq(Text) /\ e \in Seq(Atoms)
             /\ p.data = d \o e
             /\ Unread = e \o (Marker \o Y)
             /\ Clean(e, Marker)
  BY <1>1, <1>4, DataIs DEF BodyInv
<1>7. Marker \in Seq(Atoms) /\ Len(Marker) = 5 /\ Marker # <<>> /\ d \in Seq(Atoms) /\ Len(d) \in Nat /\ Len(e) \in Nat
  <2>1. d \in Seq(Atoms) /\ Len(d) \in Nat /\ Len(e) \in Nat
    BY <1>6, TextAtoms
  <2>2. Marker \in Seq(Atoms) /\ Len(Marker) = 5 /\ Marker # <<>>
    BY LiteralAtoms, Joined
  <2> QED BY <2>1, <2>2
<1>8. n \in 1..Len(B) /\ n < Len(e)
  <2>1. /\ B \in Seq(Atoms) /\ A \in Seq(Atoms) /\ e \in Seq(Atoms) /\ Marker \in Seq(Atoms)
        /\ Y \in Seq(Atoms) /\ B \o A = e \o (Marker \o Y) /\ Clean(e, Marker) /\ Marker # <<>>
    BY <1>3, <1>6, <1>7
  <2>2. Find(B, Marker) = IF Len(e) + Len(Marker) <= Len(B) THEN Len(e) + 1 ELSE 0
    BY <2>1, SearchAtoms, Zenon
  <2>3. Len(e) + 5 > Len(B)
    BY <1>2, <1>3, <1>7, <2>2
  <2>4. Slack \in Nat
    BY BodyBounds
  <2>5. n = Len(B) - (5 + Slack)
    BY <1>1, <1>7 DEF Keep
  <2> QED BY <1>2, <1>3, <1>7, <2>3, <2>4, <2>5
<1>9. PICK C, R : C = SubSeq(B, 1, n) /\ R = After(B, n)
  OBVIOUS
<1>10. /\ C \in Seq(Atoms) /\ Len(C) = n /\ R \in Seq(Atoms) /\ C \o R = B
  <2>1. n \in 0..Len(B)
    BY <1>8
  <2> QED BY <1>3, <1>9, <2>1, CutAt
<1>11. C \o (R \o A) = B \o A
  <2>0. C \in Seq(Atoms) /\ R \in Seq(Atoms) /\ A \in Seq(Atoms)
    BY <1>3, <1>10
  <2>1. (C \o R) \o A = C \o (R \o A)
    BY <2>0, AssocAtoms, Zenon
  <2> QED BY <1>10, <2>1
<1>12. Longer(C) = [head |-> p.head, data |-> d \o C] /\ Longer(C) \in Piece
  BY <1>1, <1>6, <1>10, LongerIs
<1>13. Len(d \o C) = Len(d) + n /\ Len(p.data) = Len(d) + Len(e)
  <2>1. Len(d \o C) = Len(d) + Len(C)
    BY <1>7, <1>10, CatAtoms, Zenon
  <2>2. Len(d \o e) = Len(d) + Len(e)
    BY <1>6, <1>7, CatAtoms, Zenon
  <2> QED BY <1>6, <1>10, <2>1, <2>2
<1>14. CASE TooLong(Longer(C))
  <2>1. Fail
    BY <1>2, <1>9, <1>14
  <2>2. TooLong(p)
    <3>1. PICK x : x = Longer(C)
      OBVIOUS
    <3>2. x.head = p.head /\ Len(x.data) = Len(d) + n
      BY <1>12, <1>13, <3>1
    <3>3. Len(x.data) > MaxPartSize \/ (x.head = "file" /\ Len(x.data) > MaxFileSize)
      BY <1>14, <3>1 DEF TooLong
    <3>4. MaxPartSize \in Nat /\ MaxFileSize \in Nat
      BY BodyBounds
    <3>5. Len(p.data) > MaxPartSize \/ (p.head = "file" /\ Len(p.data) > MaxFileSize)
      BY <1>7, <1>8, <1>13, <3>2, <3>3, <3>4
    <3> QED BY <3>5 DEF TooLong
  <2>3. TooMuch
    BY <1>1, <1>2, <1>5, <2>2, OneTooLong
  <2> QED BY <1>2, <2>1, <2>3, Refuses
<1>15. CASE ~TooLong(Longer(C))
  <2>1. part' = Longer(C) /\ buffer' = R /\ UNCHANGED <<goal, mode, parts, form, failed>>
    BY <1>2, <1>9, <1>15
  <2>2. mode' \in ParserModes /\ mode' # "preamble" /\ mode' = "data"
    BY <1>2, <2>1
  <2>3. Ahead' = A
    BY <1>1, <1>2, <2>2, AheadStays
  <2>4. Unread' = R \o A
    BY <2>1, <2>3 DEF Unread
  <2>5. (d \o C) \o Unread' = p.data \o (CRLF \o Coming(k + 1))
    <3>1. PICK X : X = R \o A
      OBVIOUS
    <3>2. X \in Seq(Atoms)
      BY <1>3, <1>10, <3>1, CatAtoms, Zenon
    <3>3. (d \o C) \o X = d \o (C \o X)
      BY <1>7, <1>10, <3>2, AssocAtoms, ZenonT(60)
    <3>4. C \o X = Unread
      BY <1>3, <1>11, <3>1
    <3> QED BY <1>5, <2>4, <3>1, <3>3, <3>4
  <2>6. InData'
    <3>1. parts' = parts /\ given' = given /\ Coming(k + 1)' = Coming(k + 1)
      BY <1>2, <2>1 DEF Coming, parsing, client
    <3>2. part' \in Piece /\ part'.head = p.head /\ part'.data = d \o C
      BY <1>12, <2>1
    <3>3. Len(part'.data) <= Len(p.data)
      BY <1>7, <1>8, <1>13, <3>2
    <3> QED BY <1>1, <1>5, <2>5, <3>1, <3>2, <3>3 DEF InData
  <2>7. Intact(parts)'
    BY <1>2, <1>4, <2>1 DEF Intact, TooLong, parsing, client
  <2>8. BodyTypes'
    BY <1>2, <1>10, <2>1, <2>2 DEF BodyInv, BodyTypes, parsing, client, network
  <2>9. ParserAt'
    BY <1>2, <2>1, <2>2, <2>6, <2>7 DEF BodyInv, ParserAt, parsing, client
  <2> QED BY <1>2, <2>1, <2>2, <2>8, <2>9, GoesOn DEF BodyInv
<1> QED BY <1>14, <1>15

\* With nothing ahead, a search that fails has not got to what it is for.
LEMMA EndMissed ==
  ASSUME NEW B \in Seq(Atoms), NEW A \in Seq(Atoms), NEW D \in Seq(Atoms), NEW s \in Seq(Atoms), NEW Y \in Seq(Atoms),
         B \o A = D \o (s \o Y), Clean(D, s), s # <<>>, Find(B, s) = 0
  PROVE  A # <<>> /\ Len(B) < Len(D) + Len(s)
<1>1. Find(B, s) = IF Len(D) + Len(s) <= Len(B) THEN Len(D) + 1 ELSE 0
  BY SearchAtoms, Zenon
<1>2. Len(D) \in Nat /\ Len(s) \in Nat /\ Len(B) \in Nat /\ Len(Y) \in Nat /\ Len(A) \in Nat
  OBVIOUS
<1>3. Len(B) < Len(D) + Len(s)
  BY <1>1, <1>2
<1>4. PICK W, X : W = s \o Y /\ X = B \o A
  OBVIOUS
<1>5. W \in Seq(Atoms) /\ Len(W) = Len(s) + Len(Y)
  BY <1>4, CatAtoms, Zenon
<1>6. Len(X) = Len(D) + Len(W)
  <2>1. X = D \o W
    BY <1>4
  <2>2. Len(D \o W) = Len(D) + Len(W)
    BY <1>5, CatAtoms, Zenon
  <2> QED BY <2>1, <2>2
<1>7. Len(X) = Len(B) + Len(A)
  <2>1. Len(B \o A) = Len(B) + Len(A)
    BY CatAtoms, Zenon
  <2> QED BY <1>4, <2>1
<1>8. A # <<>>
  <2>1. Len(A) > 0
    BY <1>2, <1>3, <1>5, <1>6, <1>7
  <2> QED BY <2>1
<1> QED BY <1>3, <1>8

\* A part whose marker did not come.
LEMMA TornIs ==
  ASSUME BodyTypes, Books, InData, Intact(parts), Find(buffer, Marker) = 0
  PROVE  /\ Ahead # <<>> /\ Len(parts) \in Nat /\ Len(parts) + 1 <= Len(given)
         /\ Longer(buffer) \in Piece
         /\ Longer(buffer).head = given[Len(parts) + 1].head
         /\ IsPrefix(Longer(buffer).data, given[Len(parts) + 1].data \o Marker)
<1>1. PICK B, A, k, p, d : B = buffer /\ A = Ahead /\ k = Len(parts) /\ p = given[k + 1] /\ d = part.data
  OBVIOUS
<1>2. B \in Seq(Atoms) /\ A \in Seq(Atoms) /\ Unread = B \o A /\ Len(B) \in Nat
  BY <1>1, UnreadIs DEF BodyTypes, Unread
<1>3. k \in Nat /\ k + 1 <= Len(given)
  BY <1>1, UnreadIs, GivenIs DEF BodyTypes, InData
<1>4. PICK e \in Seq(Text), Y \in Seq(Atoms) :
             /\ p \in Part /\ part \in Piece /\ part.head = p.head
             /\ p.data \in Seq(Text) /\ d \in Seq(Text) /\ e \in Seq(Atoms)
             /\ p.data = d \o e
             /\ Unread = e \o (Marker \o Y)
             /\ Clean(e, Marker)
  BY <1>1, DataIs
<1>5. Marker \in Seq(Atoms) /\ Len(Marker) = 5 /\ Marker # <<>>
  BY LiteralAtoms, Joined
<1>6. d \in Seq(Atoms) /\ Len(d) \in Nat /\ Len(e) \in Nat
  BY <1>4, TextAtoms
<1>7. A # <<>> /\ Len(B) < Len(e) + 5
  <2>1. B \o A = e \o (Marker \o Y) /\ Find(B, Marker) = 0
    BY <1>1, <1>2, <1>4
  <2> QED BY <1>2, <1>4, <1>5, <2>1, EndMissed
<1>8. Longer(B) = [head |-> p.head, data |-> d \o B] /\ Longer(B) \in Piece
  BY <1>1, <1>2, <1>4, LongerIs
<1>9. PICK M, Q, X : M = Marker \o Y /\ Q = d \o B /\ X = p.data \o Marker
  OBVIOUS
<1>10. p.data \in Seq(Atoms)
  BY <1>4, TextAtoms
<1>11. M \in Seq(Atoms)
  BY <1>4, <1>5, <1>9, CatAtoms, Zenon
<1>12. Q \in Seq(Atoms) /\ Len(Q) = Len(d) + Len(B)
  BY <1>2, <1>6, <1>9, CatAtoms, Zenon
<1>13. X \in Seq(Atoms) /\ Len(X) = Len(p.data) + Len(Marker)
  BY <1>5, <1>9, <1>10, CatAtoms, Zenon
<1>14. Len(p.data) = Len(d) + Len(e)
  <2>1. Len(d \o e) = Len(d) + Len(e)
    BY <1>4, <1>6, CatAtoms, Zenon
  <2> QED BY <1>4, <2>1
<1>15. X \o Y = Q \o A
  <2>1. (p.data \o Marker) \o Y = p.data \o (Marker \o Y)
    BY <1>4, <1>5, <1>10, AssocAtoms, Zenon
  <2>2. (d \o e) \o M = d \o (e \o M)
    BY <1>4, <1>6, <1>11, AssocAtoms, Zenon
  <2>3. (d \o B) \o A = d \o (B \o A)
    BY <1>2, <1>6, AssocAtoms, Zenon
  <2>4. X \o Y = (d \o e) \o M
    BY <1>4, <1>9, <2>1
  <2>5. e \o M = B \o A
    BY <1>2, <1>4, <1>9
  <2> QED BY <1>9, <2>2, <2>3, <2>4, <2>5
<1>16. /\ X \in Seq(Atoms) /\ Y \in Seq(Atoms) /\ Q \in Seq(Atoms) /\ A \in Seq(Atoms)
       /\ X \o Y = Q \o A /\ Len(Q) <= Len(X)
  BY <1>2, <1>4, <1>5, <1>6, <1>7, <1>12, <1>13, <1>14, <1>15
<1>17. SubSeq(X, 1, Len(Q)) = Q
  BY <1>16, SplitAtoms, Zenon
<1>18. IsPrefix(Q, X)
  <2>1. SubSeq(Q, 1, Len(Q)) = Q
    BY <1>12, SubSeqFull
  <2> QED BY <1>16, <1>17, <2>1 DEF IsPrefix
<1>19. Longer(B).head = p.head /\ Longer(B).data = Q
  BY <1>8, <1>9
<1> QED BY <1>1, <1>3, <1>7, <1>8, <1>9, <1>18, <1>19

\* Without a further chunk the form is whole or the client has gone.
LEMMA EndOfStreamKeeps == ASSUME BodyInv, EndOfStream PROVE BodyInv'
<1>1. PICK B, A, k : B = buffer /\ A = Ahead /\ k = Len(parts)
  OBVIOUS
<1>2. mode \in {"preamble", "headers", "data", "seek"} /\ mode \in ParserModes /\ UNCHANGED parsing /\ Dry /\ Starved
  BY DEF EndOfStream, Starved, ParserModes
<1>3. B \in Seq(Atoms) /\ A \in Seq(Atoms) /\ Unread = B \o A /\ given \in Forms
      /\ k \in Nat /\ Len(given) \in Nat /\ BodyTypes /\ Books
  BY <1>1, UnreadIs, GivenIs DEF BodyInv, BodyTypes, Unread
<1>4. A = <<>> \/ gone
  BY <1>1, <1>2, DryIs
<1>5. Delim \in Seq(Atoms) /\ Len(Delim) = 3 /\ Delim # <<>> /\ Blank \in Seq(Atoms) /\ Blank # <<>>
  BY LiteralAtoms, Literals, Joined
<1>6. CASE mode = "preamble"
  <2>1. EndForm /\ Find(B, Delim) = 0
    BY <1>1, <1>2, <1>6 DEF EndOfStream, Starved
  <2>2. parts = <<>> /\ Unread = Coming(0)
    BY <1>2, <1>6 DEF BodyInv, ParserAt
  <2>3. Intact(parts)
    BY <1>3, <2>2, BodyBounds DEF Intact
  <2>4. PICK Y \in Seq(Atoms) : Coming(0) = Delim \o Y
    <3>1. 0 \in 0..Len(given)
      BY <1>3
    <3> QED BY <1>3, <3>1, ComingStarts
  <2>5. gone
    <3>1. <<>> \in Seq(Atoms) /\ Clean(<<>>, Delim)
      BY DEF Clean
    <3>2. Delim \o Y \in Seq(Atoms)
      BY <1>5, CatAtoms, Zenon
    <3>3. B \o A = <<>> \o (Delim \o Y)
      BY <1>3, <2>2, <2>4, <3>2, ConcatEmptySeq
    <3>4. A # <<>>
      BY <1>3, <1>5, <2>1, <3>1, <3>3, EndMissed
    <3> QED BY <1>4, <3>4
  <2> QED BY <1>2, <2>1, <2>3, <2>5, Ends
<1>7. CASE mode = "headers"
  <2>1. EndForm /\ Find(B, Blank) = 0
    BY <1>1, <1>2, <1>7 DEF EndOfStream, Starved
  <2>2. Intact(parts) /\ AtHeaders /\ k <= Len(given)
    BY <1>1, <1>2, <1>7 DEF BodyInv, ParserAt, Intact
  <2>3. CASE k = Len(given)
    <3>1. parts = given
      BY <1>1, <1>3, <2>2, <2>3, WholeIs
    <3> QED BY <1>2, <2>1, <2>2, <3>1, Ends
  <2>4. CASE k < Len(given)
    <3>1. PICK D \in Seq(Atoms), Z \in Seq(Atoms) : Unread = D \o (Blank \o Z) /\ Clean(D, Blank)
      BY <1>1, <1>3, <2>2, <2>4, HeaderIs DEF HeaderAt
    <3>2. B \o A = D \o (Blank \o Z)
      BY <1>3, <3>1
    <3>3. A # <<>>
      BY <1>3, <1>5, <2>1, <3>1, <3>2, EndMissed
    <3> QED BY <1>2, <1>4, <2>1, <2>2, <3>3, Ends
  <2> QED BY <1>3, <2>2, <2>3, <2>4
<1>8. CASE mode = "seek"
  <2>1. EndForm /\ ~IsPrefix(Delim, B)
    BY <1>1, <1>2, <1>8 DEF EndOfStream, Starved
  <2>2. CASE CutOff(parts) /\ gone
    BY <1>2, <2>1, <2>2, Ends
  <2>3. CASE Intact(parts) /\ Unread = Coming(k)
    <3>1. k \in 0..Len(given)
      BY <1>1, <1>3, <2>3 DEF Intact
    <3>2. PICK Y \in Seq(Atoms) : Coming(k) = Delim \o Y
      BY <1>3, <3>1, ComingStarts
    <3>3. gone
      <4>1. SUFFICES ASSUME A = <<>> PROVE FALSE
        BY <1>4
      <4>2. B \o A = B
        BY <1>3, <4>1, ConcatEmptySeq
      <4>3. PICK P, X : P = Delim /\ X = Delim \o Y
        OBVIOUS
      <4>4. B = X /\ X = P \o Y /\ P \in Seq(Atoms)
        BY <1>3, <1>5, <2>3, <3>2, <4>2, <4>3
      <4>5. X \in Seq(Atoms) /\ Len(X) = Len(P) + Len(Y) /\ Len(P) \in Nat /\ Len(Y) \in Nat
        BY <4>4, CatAtoms, Zenon
      <4>6. Len(P) <= Len(X)
        BY <4>5
      <4>7. X \o <<>> = P \o Y
        BY <4>4, <4>5, ConcatEmptySeq
      <4>8. SubSeq(X, 1, Len(P)) = P
        <5>1. /\ X \in Seq(Atoms) /\ <<>> \in Seq(Atoms) /\ P \in Seq(Atoms) /\ Y \in Seq(Atoms)
              /\ X \o <<>> = P \o Y /\ Len(P) <= Len(X)
          BY <4>4, <4>5, <4>6, <4>7
        <5> QED BY <5>1, SplitAtoms, Zenon
      <4>9. SubSeq(P, 1, Len(P)) = P
        BY <4>4, SubSeqFull
      <4>10. IsPrefix(P, X)
        BY <4>6, <4>8, <4>9 DEF IsPrefix
      <4> QED BY <2>1, <4>3, <4>4, <4>10
    <3> QED BY <1>2, <2>1, <2>3, <3>3, Ends
  <2> QED BY <1>1, <1>2, <1>8, <2>2, <2>3 DEF BodyInv, ParserAt
<1>9. CASE mode = "data"
  <2>1. EndPart(B, <<>>) /\ Find(B, Marker) = 0
    BY <1>1, <1>2, <1>9 DEF EndOfStream, Starved
  <2>2. Intact(parts) /\ InData
    BY <1>2, <1>9 DEF BodyInv, ParserAt
  <2>3. /\ A # <<>> /\ k + 1 <= Len(given)
        /\ Longer(B) \in Piece
        /\ Longer(B).head = given[k + 1].head
        /\ IsPrefix(Longer(B).data, given[k + 1].data \o Marker)
    BY <1>1, <1>3, <2>1, <2>2, TornIs
  <2>4. gone /\ feed = "wire"
    BY <1>1, <1>3, <1>4, <1>9, <2>3 DEF Ahead
  <2>5. CASE TooLong(Longer(B))
    <3>1. Fail
      BY <2>1, <2>5 DEF EndPart
    <3> QED BY <1>2, <2>4, <3>1, Refuses
  <2>6. CASE ~TooLong(Longer(B))
    <3>1. /\ parts' = Append(parts, Longer(B))
          /\ part' = Absent
          /\ buffer' = <<>>
          /\ mode' = "seek"
          /\ UNCHANGED <<goal, form, failed>>
      BY <2>1, <2>6 DEF EndPart
    <3>2. mode' \in ParserModes
      BY <3>1 DEF ParserModes
    <3>3. /\ parts' \in Seq(Piece) /\ Len(parts') = k + 1
          /\ (\A j \in 1..k : parts'[j] = parts[j]) /\ parts'[k + 1] = Longer(B)
      <4>1. parts \in Seq(Piece)
        BY <1>3 DEF BodyTypes
      <4>2. PICK x \in Piece : x = Longer(B)
        BY <2>3
      <4> QED BY <1>1, <3>1, <4>1, <4>2
    <3>4. given' = given /\ gone' = gone /\ feed' = feed
      BY <1>2 DEF parsing, client, network
    <3>5. CutOff(parts)'
      <4>1. Len(parts') \in 1..Len(given)
        BY <1>3, <2>3, <3>3
      <4>2. ASSUME NEW j \in 1..Len(parts')
            PROVE  /\ parts'[j].head = given[j].head
                   /\ IF j < Len(parts') THEN parts'[j].data = given[j].data
                      ELSE IsPrefix(parts'[j].data, given[j].data \o Marker)
        <5>1. CASE j \in 1..k
          <6>1. parts'[j] = given[j] /\ j < Len(parts')
            BY <1>1, <1>3, <2>2, <3>3, <5>1 DEF Intact
          <6> QED BY <6>1
        <5>2. CASE j = k + 1
          <6>1. ~(j < Len(parts')) /\ parts'[j] = Longer(B)
            BY <1>3, <3>3, <5>2
          <6> QED BY <2>3, <5>2, <6>1
        <5> QED BY <1>3, <3>3, <5>1, <5>2
      <4> QED BY <3>4, <4>1, <4>2 DEF CutOff
    <3>6. BodyTypes'
      <4>1. <<>> \in Seq(Atoms)
        OBVIOUS
      <4> QED BY <1>2, <1>3, <3>1, <3>2, <3>3, <4>1 DEF BodyTypes, parsing, client, network
    <3>7. ParserAt'
      <4>1. goal = "form" /\ content = "multipart" /\ form = Absent /\ ~failed
        BY <1>2 DEF BodyInv, ParserAt
      <4> QED BY <1>2, <2>4, <3>1, <3>4, <3>5, <4>1 DEF ParserAt, parsing, client
    <3> QED BY <1>2, <3>1, <3>2, <3>6, <3>7, GoesOn DEF BodyInv
  <2> QED BY <2>5, <2>6
<1> QED BY <1>2, <1>6, <1>7, <1>8, <1>9

-----------------------------------------------------------------------------
(* The reads, and what arrives.                                            *)

\* A read begins where the body has been left.
LEMMA BeginReadKeeps == ASSUME BodyInv, NEW g \in {"body", "form"}, BeginRead(g) PROVE BodyInv'
<1>1. /\ goal = Absent /\ mode = "idle" /\ ~failed
      /\ g = "body" => body = Absent
      /\ g = "form" => form = Absent
      /\ UNCHANGED <<content, given, wire, ended, gone, total, part, parts, body, failed>>
  BY DEF BeginRead, BodyInv, Books, client, network
<1>2. given \in Forms /\ wire \in Seq(Atoms) /\ <<>> \in Seq(Atoms) /\ <<>> \in Seq(Piece) /\ Absent \notin {"body", "form"}
  BY AbsentIs DEF BodyInv, BodyTypes
<1>3. Refused'
  BY <1>1 DEF BodyInv, Refused, TooMuch, TooLong
<1>4. CASE g = "form" /\ content = "other" /\ form' = <<>> /\ UNCHANGED <<goal, mode, feed, buffer>>
  <2>1. form' # Absent /\ ~Eaten /\ ~Eaten'
    BY <1>1, <1>2, <1>4, AbsentIs DEF Eaten
  <2>2. BodyTypes'
    BY <1>1, <1>2, <1>4 DEF BodyInv, BodyTypes
  <2>3. ParserAt'
    BY <1>1, <1>4 DEF ParserAt, ParserModes
  <2>4. Books'
    BY <1>1, <1>4, <2>1 DEF BodyInv, Books, ParserModes
  <2>5. FormRead'
    BY <1>1, <1>4 DEF FormRead
  <2> QED BY <1>3, <2>2, <2>3, <2>4, <2>5 DEF BodyInv
<1>5. CASE /\ g = "body" \/ content = "urlencoded"
           /\ goal' = g
           /\ mode' = IF body = Absent THEN "stream" ELSE "decode"
           /\ buffer' = <<>>
           /\ UNCHANGED <<feed, form>>
  <2>1. Eaten' = Eaten
    BY <1>1, <1>5 DEF Eaten
  <2>2. BodyTypes'
    BY <1>1, <1>2, <1>5 DEF BodyInv, BodyTypes
  <2>3. ParserAt'
    BY <1>1, <1>5 DEF ParserAt, ParserModes
  <2>4. <<>> \o wire = wire
    BY <1>2, ConcatEmptySeq
  <2>5. Books'
    <3>1. goal' # Absent /\ mode' # "idle" /\ mode' \notin ParserModes
      BY <1>2, <1>5 DEF ParserModes
    <3>2. form = Absent => parts = <<>>
      BY <1>1 DEF BodyInv, Books, ParserModes
    <3>3. body = Absent /\ ~Eaten => buffer' \o wire' = Encoded(given)
      BY <1>1, <1>5, <2>4 DEF BodyInv, Books
    <3> QED BY <1>1, <1>5, <2>1, <3>1, <3>2, <3>3 DEF BodyInv, Books
  <2>6. FormRead'
    BY <1>1, <1>5 DEF BodyInv, FormRead, Intact, CutOff, TooLong
  <2> QED BY <1>3, <2>2, <2>3, <2>5, <2>6 DEF BodyInv
<1>6. CASE /\ g = "form" /\ content = "multipart"
           /\ goal' = g /\ mode' = "preamble"
           /\ feed' = IF body = Absent THEN "wire" ELSE "body"
           /\ buffer' = <<>>
           /\ UNCHANGED form
  <2>1. form = Absent /\ ~Eaten /\ ~Eaten'
    BY <1>1, <1>6 DEF Eaten
  <2>2. BodyTypes'
    BY <1>1, <1>2, <1>6 DEF BodyInv, BodyTypes, ParserModes
  <2>3. parts = <<>>
    BY <1>1, <2>1 DEF BodyInv, Books, ParserModes
  <2>4. Unread' = Encoded(given)
    <3>1. CASE body = Absent
      <4>1. wire = Encoded(given)
        BY <1>1, <2>1, <3>1 DEF BodyInv, Books
      <4>2. Ahead' = wire
        BY <1>1, <1>6, <3>1 DEF Ahead
      <4>3. <<>> \o wire = wire
        BY <1>2, ConcatEmptySeq
      <4> QED BY <1>6, <4>1, <4>2, <4>3 DEF Unread
    <3>2. CASE body # Absent
      <4>1. body = Encoded(given) /\ body \in Seq(Atoms)
        BY <1>1, <2>1, <3>2 DEF BodyInv, Books, BodyTypes
      <4>2. Ahead' = body
        BY <1>1, <1>6, <3>2 DEF Ahead
      <4>3. <<>> \o body = body
        BY <4>1, ConcatEmptySeq
      <4> QED BY <1>6, <4>1, <4>2, <4>3 DEF Unread
    <3> QED BY <3>1, <3>2
  <2>5. Coming(0)' = Encoded(given)
    <3>1. 0 \in 0..Len(given)
      BY <1>2, GivenIs
    <3>2. Coming(0) = Encoded(given)
      BY <1>2, <3>1, ComingIs
    <3> QED BY <1>1, <3>2 DEF Coming
  <2>6. ParserAt'
    BY <1>1, <1>6, <2>1, <2>3, <2>4, <2>5 DEF ParserAt
  <2>7. Books'
    BY <1>1, <1>2, <1>6, <2>1 DEF BodyInv, Books, ParserModes
  <2>8. FormRead'
    BY <1>6, <2>1 DEF FormRead
  <2> QED BY <1>3, <2>2, <2>6, <2>7, <2>8 DEF BodyInv
<1> QED BY <1>4, <1>5, <1>6 DEF BeginRead

\* What was under way is where it was: something arrived, or the client went.
LEMMA ParserStays ==
  ASSUME BodyInv, mode \in ParserModes => Unread' = Unread,
         mode' \in ParserModes => mode' = mode,
         mode = "preamble" /\ feed = "body" => buffer' \in {<<>>, body},
         gone => gone' /\ buffer' = buffer,
         UNCHANGED <<content, given, goal, feed, part, parts, form, failed>>,
         mode \in ParserModes => body' = body
  PROVE  ParserAt'
<1>0. SUFFICES ASSUME mode' \in ParserModes PROVE ParserAt'
  BY DEF ParserAt
<1>1. mode' = mode /\ mode \in ParserModes /\ Unread' = Unread /\ body' = body
  BY <1>0
<1>2. \A j : Coming(j)' = Coming(j)
  BY DEF Coming
<1>3. Intact(parts)' = Intact(parts) /\ CutOff(parts)' = CutOff(parts)
  BY DEF Intact, CutOff, TooLong
<1>4. AtHeaders' = AtHeaders
  BY <1>1, <1>2 DEF AtHeaders
<1>5. InData' = InData
  BY <1>1, <1>2 DEF InData
<1>6. Coming(Len(parts))' = Coming(Len(parts)) /\ Coming(0)' = Coming(0)
  BY <1>2
<1> QED BY <1>1, <1>3, <1>4, <1>5, <1>6 DEF BodyInv, ParserAt

\* A chunk is only moved from the wire to the buffer.
LEMMA ReceiveKeeps == ASSUME BodyInv, NEW n \in 0..MaxChunk, Receive(n) PROVE BodyInv'
<1>1. /\ Starved /\ feed = "wire" /\ ~ended /\ ~gone /\ n <= Len(wire)
      /\ total' = total + n /\ wire' = After(wire, n)
      /\ ended' \in BOOLEAN /\ (ended' => n = Len(wire))
      /\ UNCHANGED <<content, given, gone, reads, feed>>
  BY DEF Receive, client
<1>2. wire \in Seq(Atoms) /\ buffer \in Seq(Atoms) /\ total \in Nat /\ Len(wire) \in Nat /\ n \in Nat
  BY BodyBounds DEF BodyInv, BodyTypes
<1>3. PICK C, R : C = SubSeq(wire, 1, n) /\ R = After(wire, n)
  OBVIOUS
<1>4. C \in Seq(Atoms) /\ R \in Seq(Atoms) /\ Len(R) = Len(wire) - n /\ C \o R = wire
  <2>1. n \in 0..Len(wire)
    BY <1>1, <1>2
  <2> QED BY <1>2, <1>3, <2>1, CutAt
<1>5. ended' => R = <<>>
  BY <1>1, <1>2, <1>4
<1>6. mode = "stream" \/ mode \in ParserModes
  BY <1>1 DEF Starved, ParserModes
<1>7. CASE Fail /\ UNCHANGED body /\ total + n > MaxBody
  <2>1. failed' = TRUE /\ goal' = Absent /\ mode' = "idle" /\ UNCHANGED <<buffer, part, parts, form, body>>
    BY <1>7 DEF Fail
  <2>2. BodyTypes'
    BY <1>1, <1>2, <1>3, <1>4, <2>1 DEF BodyInv, BodyTypes
  <2>3. ParserAt'
    BY <2>1 DEF ParserAt, ParserModes
  <2>4. Eaten' = Eaten
    BY <1>1, <2>1 DEF Eaten
  <2>5. Books'
    BY <1>1, <1>3, <1>5, <2>1, <2>4, AbsentIs DEF BodyInv, Books, ParserModes
  <2>6. FormRead'
    BY <1>1, <2>1 DEF BodyInv, FormRead, Intact, CutOff, TooLong
  <2>7. Refused'
    BY <1>1, <1>7 DEF Refused
  <2> QED BY <2>2, <2>3, <2>5, <2>6, <2>7 DEF BodyInv
<1>8. CASE /\ buffer' = buffer \o SubSeq(wire, 1, n)
           /\ mode' = IF mode = "stream" /\ ended' THEN "decode" ELSE mode
           /\ body' = IF mode = "stream" /\ ended' THEN buffer' ELSE body
           /\ UNCHANGED <<goal, part, parts, form, failed>>
  <2>1. buffer' = buffer \o C /\ wire' = R
    BY <1>1, <1>3, <1>8
  <2>2. buffer' \in Seq(Atoms)
    <3>1. buffer \o C \in Seq(Atoms)
      BY <1>2, <1>4, CatAtoms, Zenon
    <3> QED BY <2>1, <3>1
  <2>3. buffer' \o wire' = buffer \o wire
    <3>1. (buffer \o C) \o R = buffer \o (C \o R)
      BY <1>2, <1>4, AssocAtoms, Zenon
    <3> QED BY <1>4, <2>1, <3>1
  <2>4. Eaten' = Eaten
    BY <1>1, <1>8 DEF Eaten
  <2>5. BodyTypes'
    <3>1. total' \in Nat /\ wire' \in Seq(Atoms)
      BY <1>1, <1>2, <1>4, <2>1
    <3>2. body' = Absent \/ body' \in Seq(Atoms)
      BY <1>8, <2>2 DEF BodyInv, BodyTypes
    <3>3. mode' \in {"idle", "stream", "decode"} \cup ParserModes
      BY <1>8 DEF BodyInv, BodyTypes
    <3> QED BY <1>1, <1>8, <2>2, <3>1, <3>2, <3>3 DEF BodyInv, BodyTypes
  <2>6. ParserAt'
    <3>1. Unread' = Unread
      BY <1>1, <2>3 DEF Unread, Ahead
    <3>2. mode' \in ParserModes => mode' = mode
      BY <1>8 DEF ParserModes
    <3>3. mode \in ParserModes => body' = body
      BY <1>8 DEF ParserModes
    <3> QED BY <1>1, <1>8, <3>1, <3>2, <3>3, ParserStays
  <2>7. Books'
    <3>1. CASE mode = "stream" /\ ended'
      <4>1. mode' = "decode" /\ body' = buffer' /\ body' # Absent
        BY <1>8, <2>2, <3>1, AbsentIs
      <4>2. ~Eaten => body' = Encoded(given)
        <5>1. buffer' \o wire' = buffer'
          BY <1>5, <2>1, <2>2, <3>1, ConcatEmptySeq
        <5> QED BY <2>3, <3>1, <4>1, <5>1 DEF BodyInv, Books
      <4> QED BY <1>1, <1>5, <1>8, <2>1, <2>4, <3>1, <4>1, <4>2 DEF BodyInv, Books, ParserModes
    <3>2. CASE ~(mode = "stream" /\ ended')
      <4>1. mode' = mode /\ body' = body /\ UNCHANGED <<goal, parts, form, failed, content, given, gone, feed>>
        BY <1>1, <1>8, <3>2
      <4>2. mode # "idle" /\ mode # "decode"
        BY <1>6 DEF ParserModes
      <4>3. mode = "stream" => body = Absent /\ (~Eaten => buffer' \o wire' = Encoded(given))
        BY <2>3 DEF BodyInv, Books
      <4>4. ended' => wire' = <<>> /\ ~gone'
        BY <1>1, <1>5, <2>1
      <4> QED BY <2>4, <4>1, <4>2, <4>3, <4>4 DEF BodyInv, Books
    <3> QED BY <3>1, <3>2
  <2>8. FormRead'
    BY <1>1, <1>8 DEF BodyInv, FormRead, Intact, CutOff, TooLong
  <2>9. Refused'
    <3>1. total > MaxBody => total' > MaxBody
      BY <1>1, <1>2, BodyBounds
    <3> QED BY <1>1, <1>8, <3>1 DEF BodyInv, Refused, TooMuch, TooLong
  <2> QED BY <2>5, <2>6, <2>7, <2>8, <2>9 DEF BodyInv
<1> QED BY <1>7, <1>8 DEF Receive

\* Only what may be said of a form changes.
LEMMA DisconnectKeeps == ASSUME BodyInv, Disconnect PROVE BodyInv'
<1>1. /\ ~ended /\ ~gone /\ gone' = TRUE
      /\ UNCHANGED <<client, wire, ended, total, reads, goal, mode, feed, buffer, part, parts, body, form, failed>>
  BY DEF Disconnect
<1>2. BodyTypes'
  BY <1>1 DEF BodyInv, BodyTypes, client
<1>3. ParserAt'
  <2>1. Unread' = Unread
    BY <1>1 DEF Unread, Ahead
  <2>2. mode = "preamble" /\ feed = "body" => buffer' \in {<<>>, body}
    BY <1>1 DEF BodyInv, ParserAt, ParserModes
  <2> QED BY <1>1, <2>1, <2>2, ParserStays DEF client
<1>4. Books'
  BY <1>1 DEF BodyInv, Books, Eaten, client
<1>5. FormRead'
  BY <1>1 DEF BodyInv, FormRead, Intact, CutOff, TooLong, client
<1>6. Refused'
  BY <1>1 DEF Refused
<1> QED BY <1>2, <1>3, <1>4, <1>5, <1>6 DEF BodyInv

\* The cached body is the whole of it.
LEMMA TakeBodyKeeps == ASSUME BodyInv, TakeBody PROVE BodyInv'
<1>1. /\ feed = "body" /\ mode = "preamble" /\ buffer # body /\ buffer' = body /\ mode \in ParserModes
      /\ UNCHANGED <<client, network, reads, goal, mode, feed, part, parts, body, form, failed>>
  BY DEF TakeBody, ParserModes
<1>2. body \in Seq(Atoms) /\ buffer = <<>>
  BY <1>1 DEF BodyInv, BodyTypes, Books, ParserAt
<1>3. BodyTypes'
  BY <1>1, <1>2 DEF BodyInv, BodyTypes, client, network
<1>4. ParserAt'
  <2>1. Ahead = body /\ Ahead' = <<>>
    BY <1>1 DEF Ahead
  <2>2. <<>> \o body = body /\ body \o <<>> = body
    BY <1>2, ConcatEmptySeq
  <2>3. Unread' = Unread
    BY <1>1, <1>2, <2>1, <2>2 DEF Unread
  <2>4. parts = <<>> /\ Unread = Coming(0) /\ goal = "form" /\ content = "multipart" /\ form = Absent /\ ~failed
    BY <1>1 DEF BodyInv, ParserAt
  <2>5. Coming(0)' = Coming(0)
    BY <1>1 DEF Coming, client
  <2> QED BY <1>1, <2>3, <2>4, <2>5 DEF ParserAt, client
<1> QED BY <1>1, <1>3, <1>4, GoesOn DEF BodyInv, parsing

\* The end of a read that is not parsed.
LEMMA DecodeKeeps == ASSUME BodyInv, Decode PROVE BodyInv'
<1>1. /\ mode = "decode" /\ mode' = "idle" /\ goal' = Absent
      /\ UNCHANGED <<client, network, reads, feed, buffer, part, parts, body>>
      /\ IF goal = "form" THEN IF Len(given) > MaxFields
                               THEN failed' = TRUE /\ UNCHANGED form
                               ELSE form' = given /\ UNCHANGED failed
         ELSE UNCHANGED <<form, failed>>
  BY DEF Decode
<1>2. body # Absent /\ ~failed /\ given \in Seq(Piece) /\ given # Absent /\ Len(given) \in Nat /\ MaxFields \in Nat
  BY <1>1, GivenIs, AbsentIs, BodyBounds DEF BodyInv, BodyTypes, Books
<1>3. goal = "form" => content = "urlencoded" /\ form = Absent
  BY <1>1 DEF BodyInv, Books, ParserModes
<1>4. Eaten' = Eaten
  BY <1>1, <1>3 DEF Eaten, client
<1>5. BodyTypes'
  BY <1>1, <1>2 DEF BodyInv, BodyTypes, client, network
<1>6. ParserAt'
  BY <1>1 DEF ParserAt, ParserModes
<1>7. Books'
  BY <1>1, <1>2, <1>4, AbsentIs DEF BodyInv, Books, ParserModes, client, network
<1>8. FormRead'
  <2>1. CASE goal = "form"
    BY <1>1, <1>2, <1>3, <2>1 DEF BodyInv, FormRead, client, network
  <2>2. CASE goal # "form"
    BY <1>1, <2>2 DEF BodyInv, FormRead, Intact, CutOff, TooLong, client, network
  <2> QED BY <2>1, <2>2
<1>9. Refused'
  BY <1>1 DEF BodyInv, Refused, TooMuch, TooLong, client, network
<1> QED BY <1>5, <1>6, <1>7, <1>8, <1>9 DEF BodyInv

-----------------------------------------------------------------------------
LEMMA BodyInitKeeps == ASSUME BodyInit PROVE BodyInv
<1>1. /\ given \in Forms /\ wire = Encoded(given) /\ ended = FALSE /\ gone = FALSE /\ total = 0
      /\ goal = Absent /\ mode = "idle" /\ feed = "wire" /\ buffer = <<>> /\ part = Absent /\ parts = <<>>
      /\ body = Absent /\ form = Absent /\ failed = FALSE
  BY DEF BodyInit
<1>2. wire \in Seq(Atoms)
  BY <1>1, GivenIs
<1>3. BodyTypes
  <2>1. <<>> \in Seq(Atoms) /\ <<>> \in Seq(Piece)
    OBVIOUS
  <2>2. buffer \in Seq(Atoms) /\ parts \in Seq(Piece)
    BY <1>1, <2>1
  <2>3. /\ ended \in BOOLEAN /\ gone \in BOOLEAN /\ failed \in BOOLEAN /\ total \in Nat
        /\ goal \in {Absent, "body", "form"} /\ feed \in {"wire", "body"}
        /\ mode \in {"idle", "stream", "decode"} \cup ParserModes
    BY <1>1
  <2> QED BY <1>1, <1>2, <2>2, <2>3 DEF BodyTypes
<1>4. ParserAt /\ FormRead /\ Refused
  BY <1>1 DEF ParserAt, ParserModes, FormRead, Refused
<1>5. Books
  BY <1>1, AbsentIs DEF Books, ParserModes
<1> QED BY <1>3, <1>4, <1>5 DEF BodyInv

LEMMA BodyStutters == ASSUME BodyInv, UNCHANGED bodyVars PROVE BodyInv'
<1>1. UNCHANGED <<content, given, wire, ended, gone, total, reads, goal, mode, feed, buffer, part, parts, body, form, failed>>
  BY DEF bodyVars, client, network
<1>2. BodyTypes' /\ Books'
  BY <1>1 DEF BodyInv, BodyTypes, Books, Eaten
<1>3. ParserAt'
  <2>1. Unread' = Unread
    BY <1>1 DEF Unread, Ahead
  <2>2. mode = "preamble" /\ feed = "body" => buffer' \in {<<>>, body}
    BY <1>1 DEF BodyInv, ParserAt, ParserModes
  <2> QED BY <1>1, <2>1, <2>2, ParserStays
<1>4. FormRead'
  BY <1>1 DEF BodyInv, FormRead, Intact, CutOff, TooLong
<1>5. Refused'
  BY <1>1 DEF BodyInv, Refused, TooMuch, TooLong
<1> QED BY <1>2, <1>3, <1>4, <1>5 DEF BodyInv

\* The invariant holds whatever the chunks and the limits are.
LEMMA BodyInvariant == BodySpec => []BodyInv
<1>1. BodyInit => BodyInv
  BY BodyInitKeeps
<1>2. BodyInv /\ [BodyNext]_bodyVars => BodyInv'
  <2>0. SUFFICES ASSUME BodyInv, [BodyNext]_bodyVars PROVE BodyInv'
    OBVIOUS
  <2>1. ASSUME NEW g \in {"body", "form"}, BeginRead(g) PROVE BodyInv'
    BY <2>0, <2>1, BeginReadKeeps
  <2>2. ASSUME NEW n \in 0..MaxChunk, Receive(n) PROVE BodyInv'
    BY <2>0, <2>2, ReceiveKeeps
  <2>3. CASE Disconnect
    BY <2>0, <2>3, DisconnectKeeps
  <2>4. CASE TakeBody
    BY <2>0, <2>4, TakeBodyKeeps
  <2>5. CASE Decode
    BY <2>0, <2>5, DecodeKeeps
  <2>6. CASE FindFirst
    BY <2>0, <2>6, FindFirstKeeps
  <2>7. CASE Delimited
    BY <2>0, <2>7, DelimitedKeeps
  <2>8. CASE ParseHeaders
    BY <2>0, <2>8, ParseHeadersKeeps
  <2>9. CASE FoundMarker
    BY <2>0, <2>9, FoundMarkerKeeps
  <2>10. CASE Flush
    BY <2>0, <2>10, FlushKeeps
  <2>11. CASE NextPart
    BY <2>0, <2>11, NextPartKeeps
  <2>12. CASE EndOfStream
    BY <2>0, <2>12, EndOfStreamKeeps
  <2>13. CASE UNCHANGED bodyVars
    BY <2>0, <2>13, BodyStutters
  <2> QED BY <2>0, <2>1, <2>2, <2>3, <2>4, <2>5, <2>6, <2>7, <2>8, <2>9, <2>10, <2>11, <2>12, <2>13 DEF BodyNext, Parse
<1> QED BY <1>1, <1>2, PTL DEF BodySpec

\* What was read is what was sent.
LEMMA ReadsFollow == ASSUME BodyInv PROVE ReadsAreWhatWasSent
<1>1. given \in Seq(Part) /\ Len(given) \in Nat /\ (form # Absent => form \in Seq(Piece))
  BY GivenIs DEF BodyInv, BodyTypes
<1>2. body # Absent /\ ~Eaten => body = Encoded(given)
  BY DEF BodyInv, Books
<1>3. ASSUME form # Absent, content # "other"
      PROVE  /\ ended => form = given
             /\ Len(form) <= Len(given)
             /\ \A i \in DOMAIN form :
                   /\ form[i].head = given[i].head
                   /\ IF i < Len(form) THEN form[i].data = given[i].data
                      ELSE IsPrefix(form[i].data, given[i].data \o Marker)
  <2>1. ended => ~gone
    BY DEF BodyInv, Books
  <2>2. DOMAIN form = 1..Len(form) /\ Len(form) \in Nat
    BY <1>1, <1>3
  <2>3. form = given \/ Intact(form) \/ CutOff(form)
    BY <1>3 DEF BodyInv, FormRead
  <2>4. ended => form = given
    BY <1>3, <2>1 DEF BodyInv, FormRead
  <2>5. ASSUME NEW i \in 1..Len(given)
        PROVE  IsPrefix(given[i].data, given[i].data \o Marker)
    <3>1. PICK d, X : d = given[i].data /\ X = d \o Marker
      OBVIOUS
    <3>2. d \in Seq(Text)
      <4>1. given[i] \in Part
        BY <1>1
      <4> QED BY <3>1, <4>1 DEF Part
    <3>3. d \in Seq(Atoms) /\ Marker \in Seq(Atoms)
      BY <3>2, TextAtoms, LiteralAtoms
    <3>4. X \in Seq(Atoms) /\ Len(X) = Len(d) + Len(Marker) /\ Len(d) \in Nat /\ Len(Marker) \in Nat
      BY <3>1, <3>3, CatAtoms, Zenon
    <3>5. X \o <<>> = X /\ <<>> \in Seq(Atoms)
      BY <3>4, ConcatEmptySeq
    <3>6. /\ X \in Seq(Atoms) /\ <<>> \in Seq(Atoms) /\ d \in Seq(Atoms) /\ Marker \in Seq(Atoms)
          /\ X \o <<>> = d \o Marker /\ Len(d) <= Len(X)
      BY <3>1, <3>3, <3>4, <3>5
    <3>7. SubSeq(X, 1, Len(d)) = d
      BY <3>6, SplitAtoms, Zenon
    <3>8. SubSeq(d, 1, Len(d)) = d
      BY <3>3, SubSeqFull
    <3> QED BY <3>1, <3>6, <3>7, <3>8 DEF IsPrefix
  <2>6. CASE form = given \/ Intact(form)
    <3>1. Len(form) <= Len(given) /\ \A i \in 1..Len(form) : form[i] = given[i]
      BY <1>1, <2>6 DEF Intact
    <3>2. ASSUME NEW i \in 1..Len(form)
          PROVE  /\ form[i].head = given[i].head /\ form[i].data = given[i].data
                 /\ IsPrefix(form[i].data, given[i].data \o Marker)
      <4>1. i \in 1..Len(given) /\ form[i] = given[i]
        BY <1>1, <2>2, <3>1
      <4> QED BY <2>5, <4>1
    <3> QED BY <2>2, <2>4, <3>1, <3>2
  <2>7. CASE CutOff(form)
    <3>1. Len(form) <= Len(given)
      BY <1>1, <2>7 DEF CutOff
    <3> QED BY <2>2, <2>4, <2>7, <3>1 DEF CutOff
  <2> QED BY <2>3, <2>6, <2>7
<1> QED BY <1>2, <1>3 DEF ReadsAreWhatWasSent

\* What is over a limit is refused, and nothing else.
LEMMA LimitsFollow == ASSUME BodyInv PROVE LimitsExact
<1>1. given \in Seq(Part) /\ Len(given) \in Nat /\ MaxFields \in Nat
  BY GivenIs, BodyBounds DEF BodyInv, BodyTypes
<1>2. ASSUME NEW i \in DOMAIN given
      PROVE  TooLong(given[i]) <=>
             ~(Len(given[i].data) <= IF given[i].head = "file" /\ MaxFileSize < MaxPartSize
                                     THEN MaxFileSize ELSE MaxPartSize)
  <2>1. given[i] \in Part
    BY <1>1
  <2>2. Len(given[i].data) \in Nat /\ MaxFileSize \in Nat /\ MaxPartSize \in Nat
    BY <2>1, BodyBounds DEF Part
  <2> QED BY <2>2 DEF TooLong
<1>3. PICK fits \in BOOLEAN :
          fits <=> /\ Len(given) <= MaxFields
                   /\ content = "multipart" => \A i \in DOMAIN given :
                        Len(given[i].data) <= IF given[i].head = "file" /\ MaxFileSize < MaxPartSize
                                              THEN MaxFileSize ELSE MaxPartSize
  OBVIOUS
<1>4. TooMuch <=> ~fits
  BY <1>1, <1>2, <1>3 DEF TooMuch
<1>5. failed => total > MaxBody \/ ~fits \/ gone
  BY <1>4 DEF BodyInv, Refused
<1>6. form # Absent /\ ended /\ content # "other" => fits
  <2>0. SUFFICES ASSUME form # Absent, ended, content # "other" PROVE fits
    OBVIOUS
  <2>1. ~gone
    BY <2>0 DEF BodyInv, Books
  <2>2. CASE content = "urlencoded"
    BY <1>3, <2>0, <2>2 DEF BodyInv, FormRead
  <2>3. CASE content = "multipart"
    <3>1. Intact(form) /\ form = given
      BY <2>0, <2>1, <2>3 DEF BodyInv, FormRead
    <3>2. Len(given) <= MaxFields /\ \A i \in DOMAIN given : ~TooLong(given[i])
      BY <1>1, <3>1 DEF Intact
    <3> QED BY <1>1, <1>4, <3>2 DEF TooMuch
  <2> QED BY <2>0, <2>2, <2>3 DEF BodyInv, FormRead
<1> QED BY <1>3, <1>5, <1>6 DEF LimitsExact

\* Request.form() and body(), for every form, chunking and limit: a form that has
\* arrived is the one sent, of one that broke off the parts are those sent, and a
\* body is whole.
THEOREM FormsReadAsSent == BodySpec => []ReadsAreWhatWasSent
BY BodyInvariant, ReadsFollow, PTL

\* multipart_limits and max_body_bytes, for every value of theirs: a form that
\* arrives is refused with 413 if and only if it is over one of them.
THEOREM FormLimitsExact == BodySpec => []LimitsExact
BY BodyInvariant, LimitsFollow, PTL

\* The parts of a form, as far as they are read, are made of what was sent.
LEMMA PartsAre ==
  ASSUME given \in Forms, NEW ps \in Seq(Piece), Intact(ps) \/ CutOff(ps)
  PROVE  ps \in Seq(Part)
<1>1. given \in Seq(Part) /\ Len(given) \in Nat /\ Len(ps) \in Nat
  BY GivenIs
<1>2. ASSUME NEW i \in 1..Len(ps) PROVE ps[i] \in Part
  <2>1. i \in 1..Len(given) /\ ps[i] \in Piece
    BY <1>1 DEF Intact, CutOff
  <2>2. given[i] \in Part /\ given[i].head \in Heads /\ given[i].data \in Seq(Text)
    <3>1. PICK p \in Part : p = given[i]
      BY <1>1, <2>1
    <3>2. p.head \in Heads /\ p.data \in Seq(Text)
      BY DEF Part
    <3> QED BY <3>1, <3>2
  <2>3. CASE ps[i] = given[i]
    BY <2>2, <2>3
  <2>4. CASE ps[i] # given[i]
    <3>1. /\ ps[i].head = given[i].head
          /\ ps[i].data = given[i].data \/ IsPrefix(ps[i].data, given[i].data \o Marker)
      BY <2>4 DEF Intact, CutOff
    <3>2. PICK d, X : d = ps[i].data /\ X = given[i].data \o Marker
      OBVIOUS
    <3>3. d \in Seq(Atoms)
      BY <2>1, <3>2 DEF Piece
    <3>4. X \in Seq(Text)
      <4>1. Marker \in Seq(Text)
        BY Joined
      <4> QED BY <2>2, <3>2, <4>1, CatText, Zenon
    <3>5. d \in Seq(Text)
      <4>1. CASE d = given[i].data
        BY <2>2, <4>1
      <4>2. CASE IsPrefix(d, X)
        <5>1. Len(d) <= Len(X) /\ SubSeq(d, 1, Len(d)) = SubSeq(X, 1, Len(d))
          BY <4>2 DEF IsPrefix
        <5>2. SubSeq(d, 1, Len(d)) = d
          BY <3>3, SubSeqFull
        <5>3. Len(d) \in 0..Len(X)
          BY <3>3, <3>4, <5>1
        <5>4. SubSeq(X, 1, Len(d)) \in Seq(Text)
          BY <3>4, <5>3, CutAt
        <5> QED BY <5>1, <5>2, <5>4
      <4> QED BY <3>1, <3>2, <4>1, <4>2
    <3> QED BY <2>1, <2>2, <3>1, <3>2, <3>5 DEF Part, Piece
  <2> QED BY <2>3, <2>4
<1>3. ps = [i \in 1..Len(ps) |-> ps[i]]
  OBVIOUS
<1> QED BY <1>1, <1>2, <1>3

\* The parser's parts are well formed, and the reads within their bound.
PartsRead == content \in Kinds /\ reads \in 0..MaxReads /\ parts \in Seq(Part)

LEMMA PartsReadInit == BodyInit => PartsRead
<1>0. SUFFICES ASSUME BodyInit PROVE PartsRead
  OBVIOUS
<1>1. content \in Kinds /\ reads = 0 /\ parts = <<>>
  BY <1>0 DEF BodyInit
<1>2. <<>> \in Seq(Part)
  OBVIOUS
<1>3. 0 \in 0..MaxReads
  BY BodyBounds
<1> QED BY <1>1, <1>2, <1>3 DEF PartsRead

LEMMA PartsReadKeeps ==
  ASSUME BodyInv, BodyInv', PartsRead, [BodyNext]_bodyVars
  PROVE  PartsRead'
<1>1. parts' \in Seq(Part)
  <2>1. CASE mode' \in ParserModes
    <3>1. given' \in Forms /\ parts' \in Seq(Piece)
      BY DEF BodyInv, BodyTypes
    <3>2. parts' = <<>> \/ Intact(parts)' \/ CutOff(parts)'
      BY <2>1 DEF BodyInv, ParserAt, ParserModes
    <3>3. given' = given
      BY DEF BodyNext, BeginRead, Receive, Disconnect, TakeBody, Decode, Parse, FindFirst, Delimited, ParseHeaders,
             FoundMarker, Flush, NextPart, EndOfStream, parsing, client, network, bodyVars
    <3>4. parts' = <<>> \/ Intact(parts') \/ CutOff(parts')
      BY <3>2, <3>3 DEF Intact, CutOff, TooLong
    <3>5. <<>> \in Seq(Part)
      OBVIOUS
    <3> QED BY <3>1, <3>3, <3>4, <3>5, PartsAre
  <2>2. CASE mode' \notin ParserModes
    <3>1. UNCHANGED parts
      BY <2>2 DEF BodyNext, BeginRead, Receive, Disconnect, TakeBody, Decode, Parse, FindFirst, Delimited, ParseHeaders,
             FoundMarker, Flush, NextPart, EndOfStream, EndPart, EndForm, Fail, ParserModes, bodyVars
    <3> QED BY <3>1 DEF PartsRead
  <2> QED BY <2>1, <2>2
<1>2. content' = content
  BY DEF BodyNext, BeginRead, Receive, Disconnect, TakeBody, Decode, Parse, FindFirst, Delimited, ParseHeaders,
         FoundMarker, Flush, NextPart, EndOfStream, parsing, client, network, bodyVars
<1>3. reads' \in 0..MaxReads
  <2>1. CASE \E g \in {"body", "form"} : BeginRead(g)
    BY <2>1, BodyBounds DEF PartsRead, BeginRead
  <2>2. CASE UNCHANGED reads
    BY <2>2 DEF PartsRead
  <2> QED BY <2>1, <2>2 DEF BodyNext, Receive, Disconnect, TakeBody, Decode, Parse, FindFirst, Delimited, ParseHeaders,
             FoundMarker, Flush, NextPart, EndOfStream, parsing, bodyVars
<1> QED BY <1>1, <1>2, <1>3 DEF PartsRead

LEMMA BodyTypesFollow == ASSUME BodyInv, PartsRead PROVE BodyTypeOK
<1>1. mode = "data" => part \in Part
  <2>1. SUFFICES ASSUME mode = "data" PROVE part \in Part
    OBVIOUS
  <2>2. InData /\ BodyTypes /\ Books
    BY <2>1 DEF BodyInv, ParserAt, ParserModes
  <2>3. part \in Piece /\ part.data \in Seq(Text)
    BY <2>2, DataIs
  <2> QED BY <2>3 DEF Piece, Part
<1>2. (mode = "idle") = (goal = Absent)
  BY DEF BodyInv, Books
<1> QED BY <1>1, <1>2 DEF BodyInv, BodyTypes, ParserModes, PartsRead, BodyTypeOK

\* The state of a request and of its parser is well formed, its parts made of the
\* text that was sent.
THEOREM BodyTypesHold == BodySpec => []BodyTypeOK
<1>1. BodyInv /\ BodyInv' /\ PartsRead /\ [BodyNext]_bodyVars => PartsRead'
  BY PartsReadKeeps
<1>2. BodyInv /\ PartsRead => BodyTypeOK
  BY BodyTypesFollow
<1> QED BY <1>1, <1>2, PartsReadInit, BodyInvariant, PTL DEF BodySpec

=============================================================================
