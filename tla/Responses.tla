----------------------------- MODULE Responses ------------------------------
(***************************************************************************)
(* A response on its way to the server (src/turbo/response.py): Response,  *)
(* StreamingResponse, EventSourceResponse and FileResponse, each from the  *)
(* moment the handler has returned it to the end of its send().            *)
(*                                                                         *)
(* A byte of a file is its offset, an item of a stream its number.  While  *)
(* a response is sent the file may change, the items come when they come,  *)
(* and an item or the server may raise.                                    *)
(***************************************************************************)
EXTENDS Integers, Sequences, FiniteSets, SequencesExt

CONSTANTS
    None,
    MaxSize,     \* bound on the size of a file
    ChunkSize,   \* chunk_size of FileResponse
    MaxItems,    \* bound on the items of a stream
    MaxPings     \* bound on the pings between them

ASSUME ResponseBounds ==
    /\ {MaxSize, MaxItems, MaxPings} \subseteq Nat /\ ChunkSize \in Nat \ {0}
    /\ None \notin Nat \cup (Nat \X Nat) \cup [first : Nat, last : Nat]

Numbers == 0..(MaxSize + 1)
\* A Range header _parse_range cannot read: malformed, of several ranges or in
\* another unit.  It asks for nothing, and gets 416.
Bad == [first |-> None, last |-> None]
Ranges == [first : Numbers \cup {None}, last : Numbers \cup {None}]

\* The source of a stream: a plain iterable, an async generator, or an async
\* iterator that survives the cancellation of its __anext__.
Sources == {"iterable", "generator", "iterator"}

VARIABLES
    kind,        \* "plain", "stream", "events" or "file"
    source,      \* of a stream
    items,       \* of a stream
    taken,       \* how many of them were asked for
    closed,      \* the generator was closed by a cancellation
    pings,       \* sent so far
    method,      \* of the request
    range,       \* its Range header
    known,       \* its If-None-Match names the ETag
    size,        \* file_size, read when the response was made
    disk,        \* the size of the file now
    status,
    span,        \* range_start, range_end
    length,      \* the content-length header
    offset, remaining,  \* of the file being read
    phase,
    sent,        \* the messages the server has got
    background   \* "none", "waiting" or "ran"

request == <<kind, source, items, method, range, known, size>>
headers == <<status, span, length>>
file == <<disk, offset, remaining>>
stream == <<taken, closed, pings>>
vars == <<request, headers, file, stream, phase, sent, background>>

Start == [type |-> "start", status |-> status, length |-> length, body |-> <<>>, more |-> TRUE]
Body(b, m) == [type |-> "body", status |-> None, length |-> None, body |-> b, more |-> m]
Ping == <<None>>

-----------------------------------------------------------------------------

Init ==
    /\ \/ kind = "plain" /\ source = None /\ items = 0
       \/ kind \in {"stream", "events"} /\ source \in Sources /\ items \in 0..MaxItems
       \/ kind = "file" /\ source = None /\ items = 0
    /\ method \in {"GET", "HEAD"}
    /\ IF kind = "file" THEN range \in Ranges \cup {None} /\ known \in BOOLEAN /\ size \in 0..MaxSize
       ELSE range = None /\ known = FALSE /\ size = 0
    /\ disk = size
    /\ taken = 0 /\ closed = FALSE /\ pings = 0
    /\ status = 200 /\ span = None /\ length = None
    /\ offset = 0 /\ remaining = 0
    /\ phase = IF kind = "file" THEN "returned" ELSE "prepared"
    /\ sent = <<>>
    /\ background \in {"none", "waiting"}

RangeUncut(r) ==  \* mutant: the end is not cut to the size of the file
    LET first == IF r.first # None THEN r.first
                 ELSE IF r.last >= size THEN 0 ELSE size - r.last
        last == IF r.first = None \/ r.last = None THEN size - 1 ELSE r.last
    IN  IF r = Bad \/ (r.first = None /\ r.last <= 0) \/ last < first \/ first >= size THEN None
        ELSE <<first, last>>

\* _parse_range: first-last, first- or -suffix, None if nothing satisfies it.
ParseRange(r) ==
    LET first == IF r.first # None THEN r.first
                 ELSE IF r.last >= size THEN 0 ELSE size - r.last
        last == IF r.first = None \/ r.last = None THEN size - 1 ELSE r.last
    IN  IF r = Bad \/ (r.first = None /\ r.last <= 0) \/ last < first \/ first >= size THEN None
        ELSE <<first, IF last < size THEN last ELSE size - 1>>

\* FileResponse.prepare_for_request, before anything is sent.
Prepare ==
    /\ phase = "returned"
    /\ phase' = "prepared"
    /\ \/ /\ known
          /\ status' = 304 /\ span' = None /\ length' = None
       \/ /\ ~known /\ method = "GET" /\ range # None /\ ParseRange(range) = None
          /\ status' = 416 /\ span' = None /\ length' = 0
       \/ /\ ~known /\ method = "GET" /\ range # None /\ ParseRange(range) # None
          /\ status' = 206 /\ span' = ParseRange(range)
          /\ length' = span'[2] - span'[1] + 1
       \/ /\ ~known /\ (method # "GET" \/ range = None)
          /\ status' = status /\ span' = None /\ length' = size
    /\ UNCHANGED <<request, file, stream, sent, background>>

\* http.response.start; a file is opened after it.
SendStart ==
    LET from == IF span = None THEN 0 ELSE span[1]
        to == IF span = None THEN size - 1 ELSE span[2] IN
    /\ phase = "prepared"
    /\ phase' = "sending"
    /\ sent' = Append(sent, Start)
    /\ offset' = from
    /\ remaining' = to - from + 1
    /\ UNCHANGED <<request, headers, disk, stream, background>>

Finish(b) == phase' = "sent" /\ sent' = Append(sent, Body(b, FALSE))

\* Response.send, and FileResponse.send when there is nothing to read.
SendWhole ==
    /\ phase = "sending"
    /\ \/ kind = "plain" /\ Finish(<<1>>)
       \/ kind = "file" /\ (status \in {304, 416} \/ remaining = 0) /\ Finish(<<>>)
    /\ UNCHANGED <<request, headers, file, stream, background>>

\* One chunk of the file, as much of it as there still is.
Chunk ==
    LET there == IF disk > offset THEN disk - offset ELSE 0
    IN  [i \in 1..Min({ChunkSize, remaining, there}) |-> offset + i - 1]

SendChunkEarly ==  \* mutant: whether more follows is asked before the chunk is counted
    /\ kind = "file" /\ status \notin {304, 416}
    /\ phase = "sending" /\ remaining > 0 /\ Chunk # <<>>
    /\ offset' = offset + Len(Chunk)
    /\ remaining' = remaining - Len(Chunk)
    /\ sent' = Append(sent, Body(Chunk, remaining > 0))
    /\ phase' = IF remaining' = 0 THEN "sent" ELSE phase
    /\ UNCHANGED <<request, headers, disk, stream, background>>

SendChunk ==
    /\ kind = "file" /\ status \notin {304, 416}
    /\ phase = "sending" /\ remaining > 0 /\ Chunk # <<>>
    /\ offset' = offset + Len(Chunk)
    /\ remaining' = remaining - Len(Chunk)
    /\ sent' = Append(sent, Body(Chunk, remaining' > 0))
    /\ phase' = IF remaining' = 0 THEN "sent" ELSE phase
    /\ UNCHANGED <<request, headers, disk, stream, background>>

\* The file has become shorter: send() ends where the file does.
EndEarly ==
    /\ kind = "file" /\ status \notin {304, 416}
    /\ phase = "sending" /\ remaining > 0 /\ Chunk = <<>>
    /\ phase' = "sent"
    /\ UNCHANGED <<request, headers, file, stream, sent, background>>

\* At most one change is seen while a response is under way.
FileChanges ==
    /\ kind = "file" /\ disk = size /\ phase \in {"returned", "prepared", "sending"}
    /\ \E n \in 0..(MaxSize + 1) : disk' = n /\ n # disk
    /\ UNCHANGED <<request, headers, offset, remaining, stream, phase, sent, background>>

\* The next item of a stream or of an event source.
SendItem ==
    /\ kind \in {"stream", "events"} /\ phase = "sending"
    /\ ~closed /\ taken < items
    /\ taken' = taken + 1
    /\ sent' = Append(sent, Body(<<taken'>>, TRUE))
    /\ UNCHANGED <<request, headers, file, closed, pings, phase, background>>

\* No item within ping_interval: wait_for cancels __anext__, which ends a
\* generator, and a ping is sent instead.
SendPingLosing ==  \* mutant: an item that comes with the timeout is dropped
    /\ kind = "events" /\ source # "iterable" /\ phase = "sending" /\ pings < MaxPings
    /\ ~closed /\ taken < items
    /\ closed' = (source = "generator")
    /\ pings' = pings + 1
    /\ taken' = taken + 1
    /\ sent' = Append(sent, Body(Ping, TRUE))
    /\ UNCHANGED <<request, headers, file, phase, background>>

SendPing ==
    /\ kind = "events" /\ source # "iterable" /\ phase = "sending" /\ pings < MaxPings
    /\ ~closed
    /\ closed' = (source = "generator")
    /\ pings' = pings + 1
    /\ sent' = Append(sent, Body(Ping, TRUE))
    /\ UNCHANGED <<request, headers, file, taken, phase, background>>

SendLast ==
    /\ kind \in {"stream", "events"} /\ phase = "sending"
    /\ closed \/ taken = items
    /\ Finish(<<>>)
    /\ UNCHANGED <<request, headers, file, stream, background>>

\* An item, the file or the server raises: nothing more is sent.
Break ==
    /\ phase \in {"prepared", "sending"}
    /\ phase' = "broken"
    /\ UNCHANGED <<request, headers, file, stream, sent, background>>

\* _run_background
RunBackground ==
    /\ phase = "sent"
    /\ phase' = "done"
    /\ background' = IF background = "waiting" THEN "ran" ELSE background
    /\ UNCHANGED <<request, headers, file, stream, sent>>

Next ==
    \/ Prepare \/ SendStart \/ SendWhole \/ SendChunk \/ EndEarly \/ FileChanges
    \/ SendItem \/ SendPing \/ SendLast \/ Break \/ RunBackground

Spec == Init /\ [][Next]_vars

-----------------------------------------------------------------------------

Ended == phase \in {"sent", "done"}

Messages == [type : {"start", "body"}, status : {None, 200, 206, 304, 416}, length : Nat \cup {None},
             body : Seq(Nat \cup {None}), more : BOOLEAN]

TypeOK ==
    /\ kind \in {"plain", "stream", "events", "file"} /\ method \in {"GET", "HEAD"}
    /\ items \in Nat /\ taken \in Nat /\ pings \in Nat /\ closed \in BOOLEAN
    /\ known \in BOOLEAN /\ size \in Nat /\ disk \in Nat /\ offset \in Nat /\ remaining \in Nat
    /\ kind = "file" => range \in Ranges \cup {None}
    /\ status \in {200, 206, 304, 416} /\ length \in Nat \cup {None}
    /\ span = None \/ (span \in Nat \X Nat /\ span[1] <= span[2] /\ span[2] < size)
    /\ phase \in {"returned", "prepared", "sending", "sent", "done", "broken"}
    /\ phase = "returned" => kind = "file"
    /\ sent \in Seq(Messages)
    /\ background \in {"none", "waiting", "ran"}

\* What the client has got, whatever messages brought it.
Received == FlattenSeq([i \in DOMAIN sent |-> sent[i].body])

\* The bytes a Range header asks of a file, said without the code's words; none
\* if it is one that cannot be read.
Asked == {i \in 0..(size - 1) :
            IF range.first = None THEN range.last # None /\ i >= size - range.last
            ELSE i >= range.first /\ (range.last = None \/ i <= range.last)}

\* A file that does not change is sent byte for byte with its true length: the
\* whole of it, or exactly the bytes asked for with 206, or none with 416 when
\* the range names none.
FileAsAsked ==
    kind = "file" /\ Ended /\ disk = size =>
        LET answer == sent[1] IN
        /\ answer.status \in {200, 206} /\ Received # <<>> =>
              /\ answer.length = Len(Received)
              /\ \A i \in 2..Len(Received) : Received[i] = Received[i - 1] + 1
        /\ answer.status = 200 => Received = [i \in 1..size |-> i - 1]
        /\ answer.status = 206 => ToSet(Received) = Asked
        /\ answer.status = 416 => Received = <<>> /\ Asked = {}

\* The server gets one start and then bodies, of which the last and no other
\* says that it is the last; the background task runs after it, once, and not
\* when sending broke off.  (Of a file that shrank the last body is missing.)
WellSent ==
    /\ \A i \in DOMAIN sent : (sent[i].type = "start") = (i = 1)
    /\ \A i \in 1..(Len(sent) - 1) : sent[i].more
    /\ sent # <<>> /\ ~sent[Len(sent)].more => Ended
    /\ Ended => ~sent[Len(sent)].more \/ disk < size
    /\ background = "ran" => phase = "done"

\* A stream that has ended has sent all its items, each once and in order,
\* however many pings went between them - unless it comes from a generator,
\* which the first ping closes.
NothingSkipped ==
    LET given == {i \in DOMAIN Received : Received[i] # None} IN
    kind \in {"stream", "events"} =>
        /\ \A i, j \in given : i < j => Received[i] < Received[j]
        /\ \E n \in 0..items :
               /\ {Received[i] : i \in given} = 1..n
               /\ Ended => n = items \/ (source = "generator" /\ pings > 0)

=============================================================================
