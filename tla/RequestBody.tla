---------------------------- MODULE RequestBody -----------------------------
(***************************************************************************)
(* The body of a request (src/turbo/request.py) as its dependencies and    *)
(* its handler read it, one read after another: body(), and form(), which  *)
(* parses multipart data as the chunks arrive, however the server cuts     *)
(* them.  guarded_receive (src/turbo/app.py) counts what is read.          *)
(*                                                                         *)
(* The body is a sequence of atoms.  A boundary "--b" is three of them and *)
(* the headers of a part are one, which names it a field or a file; data   *)
(* may hold any beginning of a boundary.                                   *)
(***************************************************************************)
EXTENDS Integers, Sequences, SequencesExt

CONSTANTS
    Absent,
    Forms,         \* the forms a client may send: sequences of parts
    Kinds,         \* content types: "multipart", "urlencoded" and "other"
    Slack,         \* bytes kept back beyond the length of a boundary, 8 in the code
    MaxFields, MaxPartSize, MaxFileSize,  \* multipart_limits
    MaxBody,       \* max_body_bytes
    MaxChunk,      \* bound on the atoms of a chunk
    MaxReads       \* bound on the reads of a request

CRLF == <<"CR", "LF">>
Blank == CRLF \o CRLF
Delim == <<"-", "-", "b">>
Marker == CRLF \o Delim
Keep == Len(Marker) + Slack
Heads == {"field", "file"}
Text == {"CR", "LF", "-", "b", "x"}
Part == [head : Heads, data : Seq(Text)]

ASSUME BodyBounds == {Slack, MaxFields, MaxPartSize, MaxFileSize, MaxBody, MaxChunk, MaxReads} \subseteq Nat

VARIABLES
    content, given,  \* the content type, and the form the client sends
    wire,        \* what has not arrived yet
    ended,       \* the server has said that no more comes
    gone,        \* http.disconnect
    total,       \* of guarded_receive
    reads,       \* how many reads were begun
    goal,        \* the read under way: "body", "form" or Absent
    mode,        \* where it is
    feed,        \* whether the parser reads the cached body
    buffer,      \* buffer of the parser, chunks of stream()
    part, parts, \* the part under way, and out
    body, form,  \* Request._body, Request._form_multi
    failed       \* HTTPError 413

client == <<content, given>>
network == <<wire, ended, gone, total>>
bodyVars == <<client, network, reads, goal, mode, feed, buffer, part, parts, body, form, failed>>

\* What a client sends of a form whose last n parts are left.
Left(f, n) ==
    LET bytes[m \in 0..Len(f)] ==
            IF m = 0 THEN Delim \o <<"-", "-">>
            ELSE LET p == f[Len(f) - m + 1]
                 IN  Delim \o (CRLF \o (<<p.head>> \o (Blank \o (p.data \o (CRLF \o bytes[m - 1])))))
    IN  bytes[n]

Encoded(f) == Left(f, Len(f))

First(at) == CHOOSE i \in at : \A j \in at : i <= j

\* The index of the first occurrence of s in b, 0 if there is none.
Find(b, s) ==
    LET at == {i \in 1..(Len(b) - Len(s) + 1) : SubSeq(b, i, i + Len(s) - 1) = s}
    IN  IF at = {} THEN 0 ELSE First(at)

After(b, n) == SubSeq(b, n + 1, Len(b))

ASSUME FormsAreForms ==
    \A f \in Forms : f \in Seq(Part) /\ \A i \in DOMAIN f : Find(f[i].data, Marker) = 0

ASSUME AbsentIsNoForm == Absent \notin {"body", "form"} \cup Seq(Text \cup Heads) \cup Seq([head : Heads, data : Seq(Text \cup Heads)])

-----------------------------------------------------------------------------

BodyInit ==
    /\ content \in Kinds
    /\ given \in Forms
    /\ wire = Encoded(given)
    /\ ended = FALSE /\ gone = FALSE
    /\ total = 0
    /\ reads = 0
    /\ goal = Absent /\ mode = "idle" /\ feed = "wire"
    /\ buffer = <<>> /\ part = Absent /\ parts = <<>>
    /\ body = Absent /\ form = Absent
    /\ failed = FALSE

\* body() and form(): what is cached is returned at once.
BeginRead(g) ==
    /\ goal = Absent /\ ~failed /\ reads < MaxReads
    /\ g = "body" => body = Absent
    /\ g = "form" => form = Absent
    /\ reads' = reads + 1
    /\ \/ /\ g = "form" /\ content = "other"
          /\ form' = <<>>
          /\ UNCHANGED <<goal, mode, feed, buffer>>
       \/ /\ g = "body" \/ content = "urlencoded"
          /\ goal' = g
          /\ mode' = IF body = Absent THEN "stream" ELSE "decode"
          /\ buffer' = <<>>
          /\ UNCHANGED <<feed, form>>
       \/ /\ g = "form" /\ content = "multipart"
          /\ goal' = g /\ mode' = "preamble"
          /\ feed' = IF body = Absent THEN "wire" ELSE "body"
          /\ buffer' = <<>>
          /\ UNCHANGED form
    /\ UNCHANGED <<client, network, part, parts, body, failed>>

\* The parser cannot go on without another chunk, nor stream() ever.
Starved ==
    \/ mode = "stream"
    \/ mode = "preamble" /\ Find(buffer, Delim) = 0
    \/ mode = "headers" /\ Find(buffer, Blank) = 0
    \/ mode = "data" /\ Find(buffer, Marker) = 0 /\ Len(buffer) <= Keep
    \/ mode = "seek" /\ ~IsPrefix(Delim, buffer)

Fail ==
    /\ failed' = TRUE /\ goal' = Absent /\ mode' = "idle"
    /\ UNCHANGED <<buffer, part, parts, form>>

\* An http.request event with the next n atoms.
Receive(n) ==
    LET last == n = Len(wire) IN
    /\ Starved /\ feed = "wire" /\ ~ended /\ ~gone
    /\ n <= Len(wire) /\ n <= MaxChunk /\ (n = 0 => last)
    /\ total' = total + n
    /\ wire' = After(wire, n)
    /\ \/ ended' = last
       \/ last /\ n > 0 /\ ended' = FALSE
    /\ IF total + n > MaxBody THEN Fail /\ UNCHANGED body
       ELSE /\ buffer' = buffer \o SubSeq(wire, 1, n)
            /\ mode' = IF mode = "stream" /\ ended' THEN "decode" ELSE mode
            /\ body' = IF mode = "stream" /\ ended' THEN buffer' ELSE body
            /\ UNCHANGED <<goal, part, parts, form, failed>>
    /\ UNCHANGED <<client, gone, reads, feed>>

\* The client goes: every further event is http.disconnect.
Disconnect == ~ended /\ ~gone /\ gone' = TRUE
              /\ UNCHANGED <<client, wire, ended, total, reads, goal, mode, feed, buffer,
                             part, parts, body, form, failed>>

\* The parser takes the cached body as its only chunk.
TakeBody ==
    /\ feed = "body" /\ mode = "preamble" /\ buffer # body
    /\ buffer' = body
    /\ UNCHANGED <<client, network, reads, goal, mode, feed, part, parts, body, form, failed>>

\* What was awaited is there.
Decode ==
    /\ mode = "decode"
    /\ mode' = "idle" /\ goal' = Absent
    /\ IF goal = "form" THEN IF Len(given) > MaxFields
                             THEN failed' = TRUE /\ UNCHANGED form
                             ELSE form' = given /\ UNCHANGED failed
       ELSE UNCHANGED <<form, failed>>
    /\ UNCHANGED <<client, network, reads, feed, buffer, part, parts, body>>

-----------------------------------------------------------------------------
(* The multipart parser, one action per block of _parse_multipart_stream.  *)

parsing == <<client, network, reads, feed, body>>

EndForm ==
    /\ form' = parts /\ mode' = "idle" /\ goal' = Absent
    /\ UNCHANGED <<buffer, part, parts, failed>>

FindFirst ==
    LET i == Find(buffer, Delim) IN
    /\ mode = "preamble" /\ i > 0
    /\ buffer' = After(buffer, i + Len(Delim) - 1)
    /\ mode' = "delimited"
    /\ UNCHANGED <<parsing, goal, part, parts, form, failed>>

\* A boundary was read: the last one ends in "--", if that has arrived.
Delimited ==
    /\ mode = "delimited"
    /\ IF IsPrefix(<<"-", "-">>, buffer) THEN EndForm
       ELSE /\ mode' = "headers"
            /\ buffer' = IF IsPrefix(CRLF, buffer) THEN After(buffer, 2) ELSE buffer
            /\ UNCHANGED <<goal, part, parts, form, failed>>
    /\ UNCHANGED parsing

ParseHeaders ==
    LET i == Find(buffer, Blank)
        named == {j \in 1..(i - 1) : buffer[j] \in Heads} IN
    /\ mode = "headers" /\ i > 0
    /\ IF named = {} THEN EndForm
       ELSE IF Len(parts) + 1 > MaxFields THEN Fail
       ELSE /\ part' = [head |-> buffer[First(named)], data |-> <<>>]
            /\ buffer' = After(buffer, i + Len(Blank) - 1)
            /\ mode' = "data"
            /\ UNCHANGED <<goal, parts, form, failed>>
    /\ UNCHANGED parsing

TooLongPart(p) == Len(p.data) > MaxPartSize  \* mutant: max_file_size is forgotten

TooLong(p) == Len(p.data) > MaxPartSize \/ (p.head = "file" /\ Len(p.data) > MaxFileSize)

Longer(d) == [part EXCEPT !.data = @ \o d]

\* The end of a part: what precedes the marker belongs to it.
EndPart(d, rest) ==
    IF TooLong(Longer(d)) THEN Fail
    ELSE /\ parts' = Append(parts, Longer(d))
         /\ part' = Absent
         /\ buffer' = rest
         /\ mode' = "seek"
         /\ UNCHANGED <<goal, form, failed>>

FoundMarker ==
    LET i == Find(buffer, Marker) IN
    /\ mode = "data" /\ i > 0
    /\ EndPart(SubSeq(buffer, 1, i - 1), After(buffer, i + 1))
    /\ UNCHANGED parsing

FlushAll ==  \* mutant: nothing is kept back
    /\ mode = "data" /\ Find(buffer, Marker) = 0 /\ Len(buffer) > Keep
    /\ part' = Longer(buffer) /\ buffer' = <<>>
    /\ UNCHANGED <<parsing, goal, mode, parts, form, failed>>

\* All but the last Keep atoms cannot be the beginning of a marker.
Flush ==
    LET n == Len(buffer) - Keep IN
    /\ mode = "data" /\ Find(buffer, Marker) = 0 /\ n > 0
    /\ IF TooLong(Longer(SubSeq(buffer, 1, n))) THEN Fail
       ELSE /\ part' = Longer(SubSeq(buffer, 1, n))
            /\ buffer' = After(buffer, n)
            /\ UNCHANGED <<goal, mode, parts, form, failed>>
    /\ UNCHANGED parsing

NextPart ==
    /\ mode = "seek" /\ IsPrefix(Delim, buffer)
    /\ buffer' = After(buffer, Len(Delim))
    /\ mode' = "delimited"
    /\ UNCHANGED <<parsing, goal, part, parts, form, failed>>

DryEnded ==  \* mutant: http.disconnect is passed over, as stream() does
    IF feed = "body" THEN mode # "preamble" \/ buffer = body ELSE ended

\* No chunk comes any more, the client having sent all of them or gone.
Dry == IF feed = "body" THEN mode # "preamble" \/ buffer = body ELSE ended \/ gone

EndOfStream ==
    /\ Starved /\ mode # "stream" /\ Dry
    /\ IF mode = "data" THEN EndPart(buffer, <<>>) ELSE EndForm
    /\ UNCHANGED parsing

Parse == FindFirst \/ Delimited \/ ParseHeaders \/ FoundMarker \/ Flush \/ NextPart \/ EndOfStream

BodyNext ==
    \/ \E g \in {"body", "form"} : BeginRead(g)
    \/ \E n \in 0..MaxChunk : Receive(n)
    \/ Disconnect
    \/ TakeBody \/ Decode
    \/ Parse

\* The code runs on; a client sends on or goes.
BodyFairness ==
    /\ WF_bodyVars(TakeBody \/ Decode \/ Parse)
    /\ WF_bodyVars(Disconnect \/ \E n \in 0..MaxChunk : Receive(n))

BodySpec == BodyInit /\ [][BodyNext]_bodyVars /\ BodyFairness

-----------------------------------------------------------------------------

BodyTypeOK ==
    /\ content \in Kinds /\ given \in Forms
    /\ total \in Nat /\ reads \in 0..MaxReads
    /\ goal \in {Absent, "body", "form"} /\ feed \in {"wire", "body"}
    /\ mode \in {"idle", "stream", "decode", "preamble", "delimited", "headers", "data", "seek"}
    /\ (mode = "idle") = (goal = Absent)
    /\ parts \in Seq(Part) /\ (mode = "data" => part \in Part)

\* form() has taken chunks of the wire that body() will never see.
Eaten == form # Absent /\ content = "multipart" /\ feed = "wire"

\* Wherever the chunks are cut, and whether the body was read before or not, a
\* form that has arrived is the one the client sent; of one that broke off, the
\* parts are those sent, the last of them perhaps short or with the beginning of
\* the boundary that followed.  A body is returned whole or not at all, unless
\* form() had taken it from the wire before.
ReadsAreWhatWasSent ==
    /\ form # Absent /\ content # "other" =>
        /\ ended => form = given
        /\ Len(form) <= Len(given)
        /\ \A i \in DOMAIN form :
              /\ form[i].head = given[i].head
              /\ IF i < Len(form) THEN form[i].data = given[i].data
                 ELSE IsPrefix(form[i].data, given[i].data \o Marker)
    /\ body # Absent /\ ~Eaten => body = Encoded(given)

\* However it is cut, a form that arrives is refused with 413 when it is over a
\* limit and never else.
LimitsExact ==
    LET small(p) == Len(p.data) <= IF p.head = "file" /\ MaxFileSize < MaxPartSize
                                   THEN MaxFileSize ELSE MaxPartSize
        fits == Len(given) <= MaxFields /\ (content = "multipart" => \A i \in DOMAIN given : small(given[i]))
    IN  /\ failed => total > MaxBody \/ ~fits \/ gone
        /\ form # Absent /\ ended /\ content # "other" => fits

\* Every read ends, whatever the client does, but for two: body() of a client
\* that goes before the end, and body() after form() has emptied the wire.
EveryReadEnds ==
    goal # Absent ~> goal = Absent \/ (mode = "stream" /\ (gone \/ Eaten))

=============================================================================
