------------------------------ MODULE MCStack -------------------------------
(* Stack for TLC: the layers of examples/app.py in its order, and those in *)
(* front of an application behind a proxy.                                 *)
EXTENDS Stack, TLC

CONSTANTS r1, r2, r3, home, other

Symmetric == Permutations(Request)

MCPrefer == <<"gzip", "deflate">>
MCAllowedOrigins == {"o1"}
MCAllowedMethods == {"GET"}

Get == [type |-> "http", method |-> "GET", path |-> "/a", client |-> "c", scheme |-> "https",
        host |-> home, proto |-> None, forwardedHost |-> None, for |-> None,
        origin |-> None, asked |-> None, named |-> {}, accepts |-> {}, credentials |-> None]

Example == <<"cors", "gzip", "compress", "limit", "cache">>
Behind == <<"proxy", "https", "hosts", "limit", "cache">>
MCOrders == {Example, Behind}

MCScopes == [o \in MCOrders |->
    IF o = Example
    THEN {Get, [Get EXCEPT !.credentials = "authorization"],
          [Get EXCEPT !.method = "OPTIONS", !.origin = "o1", !.asked = "GET"],
          [Get EXCEPT !.method = "OPTIONS", !.origin = "o1", !.asked = "PATCH"],
          [Get EXCEPT !.path = "/b"],
          [Get EXCEPT !.origin = "o1", !.named = {"gzip"}],  \* gzip;q=0
          [Get EXCEPT !.origin = "o2", !.named = {"deflate"}, !.accepts = {"deflate"},
                      !.credentials = "session"]}
    ELSE {Get, [Get EXCEPT !.type = "websocket", !.scheme = "ws"],
          [Get EXCEPT !.client = "p", !.for = "c", !.proto = "http"],
          [Get EXCEPT !.client = "p", !.for = "c", !.proto = "https"],
          [Get EXCEPT !.client = "p", !.for = "d", !.forwardedHost = other]}]

Page == [status |-> 200, size |-> 3, coding |-> <<>>, cookie |-> FALSE, control |-> None,
         stream |-> FALSE, events |-> FALSE]

MCAnswers == {
    Page,
    [Page EXCEPT !.coding = <<"br">>],
    [Page EXCEPT !.cookie = TRUE],
    [Page EXCEPT !.control = "no-store", !.size = 1],
    [Page EXCEPT !.control = "private", !.events = TRUE],
    [Page EXCEPT !.stream = TRUE],
    [Page EXCEPT !.status = 204, !.size = 0]}

=============================================================================
