--------------------------- MODULE MCRequestBody ----------------------------
(* RequestBody for TLC: forms of up to two parts whose data come close to  *)
(* a boundary.                                                             *)
EXTENDS RequestBody

Data == {<<>>, <<"x">>, <<"CR", "LF", "-", "-">>, <<"CR", "CR", "LF">>, <<"-", "-", "b">>,
         <<"CR", "LF", "-", "x", "CR">>}
MCPart == [head : Heads, data : Data]
Long == [i \in 1..11 |-> "x"]
MCForms == {<<>>, <<[head |-> "field", data |-> Long]>>} \cup {<<p>> : p \in MCPart} \cup {<<p, q>> : p \in MCPart, q \in MCPart}
    \cup {[i \in 1..3 |-> [head |-> "field", data |-> <<>>]]}

=============================================================================
