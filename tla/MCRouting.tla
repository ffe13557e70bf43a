----------------------------- MODULE MCRouting ------------------------------
(* Routing for TLC: literal, int, str and path segments that share nodes. *)
EXTENDS Routing

MCSegments == {"", "a", "b", "c", "7", "doc", "{x}", "{x:str}", "{n:int}", "{p:path}"}

MCMarkers == [s \in {"{x}", "{x:str}", "{n:int}", "{p:path}"} |->
    CASE s \in {"{x}", "{x:str}"} -> [name |-> "x", conv |-> "str"]
      [] s = "{n:int}" -> [name |-> "n", conv |-> "int"]
      [] s = "{p:path}" -> [name |-> "p", conv |-> "path"]]

MCPatterns ==
    [method : {"GET"},
     path : {<<"a">>, <<"a", "">>, <<"{x}">>, <<"{n:int}">>, <<"a", "{x}">>, <<"a", "{p:path}">>,
             <<"{p:path}", "b">>, <<"{x}", "b">>, <<"{x:str}", "{x}">>, <<"a", "b">>, <<"c", "", "">>}]
    \cup {[method |-> "WS", path |-> <<"a">>]}

MCPaths == {<<"">>, <<"a">>, <<"a", "">>, <<"", "a">>, <<"b">>, <<"7">>, <<"a", "b">>, <<"a", "b", "">>,
            <<"b", "b">>, <<"a", "7">>, <<"a", "b", "a">>, <<"c", "", "">>, <<"c", "">>, <<"doc">>, <<"doc", "">>}

MCBundles == {<<[method |-> "GET", path |-> <<"">>, handler |-> "h", shown |-> TRUE],
                [method |-> "GET", path |-> <<"b">>, handler |-> "k", shown |-> FALSE]>>}

MCRoots == {<<"a">>}
MCDoc == <<"doc">>

=============================================================================
