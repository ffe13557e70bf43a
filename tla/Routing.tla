------------------------------ MODULE Routing -------------------------------
(***************************************************************************)
(* Routing (src/turbo/routing.py, and in src/turbo/app.py route(),         *)
(* websocket(), include_router(), the mounts, _handle up to the call of    *)
(* the handler, and the cached OpenAPI document).                          *)
(*                                                                         *)
(* A path is the sequence of what stands between its slashes: "/" is       *)
(* <<"">>, "/a" is <<"a">>, "/a/" is <<"a", "">>.  A node of a tree is     *)
(* named by the way to it from the root.  Registrations are synchronous    *)
(* but may come at any time, also between two requests, and may raise half *)
(* way.                                                                    *)
(***************************************************************************)
EXTENDS Integers, SequencesExt

CONSTANTS
    None,
    Segments,    \* what stands between two slashes, if anything: "" is one
    Methods,     \* "GET" ..., and "WS" for WebSocket routes
    Patterns,    \* what routes are registered under: [method, path]
    Paths,       \* the paths requests ask for
    Markers,     \* of a dynamic segment: its name and converter
    Numerals,    \* the segments int() reads
    Handlers,
    Bundles,     \* what APIRouters hold, their own prefix included: sequences of routes
    Roots,       \* of include_router, mount and mount_static
    DocPath,     \* openapi_url
    DocHandler,
    MaxCalls     \* bound on the calls that configure the application

Empty == ""  \* between two slashes, or after the last

ASSUME RoutingConstants ==
    /\ None \notin Handlers \cup Segments \cup Seq(Segments \cup {None})
    /\ DocHandler \notin Handlers \cup {None}
    /\ Empty \in Segments /\ DOMAIN Markers \subseteq Segments \ {Empty}
    /\ DocPath \in Paths /\ {"GET", "WS"} \subseteq Methods
    /\ \A path \in Paths : path \in Seq(Segments) /\ path # <<>>
    /\ \A p \in Patterns : p.method \in Methods /\ p.path \in Seq(Segments) /\ p.path # <<>>
    /\ \A bundle \in Bundles : bundle \in Seq([method : Methods, path : Seq(Segments),
                                             handler : Handlers, shown : BOOLEAN])
    /\ \A prefix \in Roots :  \* which have lost a slash at their end
           prefix \in Seq(Segments) /\ (prefix = <<>> \/ prefix[Len(prefix)] # Empty)
    /\ \A s \in DOMAIN Markers :
           /\ Markers[s].name # None /\ Markers[s].conv \in {"str", "int", "path"}
           /\ Markers[s] = [name |-> Markers[s].name, conv |-> Markers[s].conv]

VARIABLES
    table,    \* trees, _routes, _route_by_handler and _openapi_cache; bare: what only the
              \* trees know, of registrations that raised after Router.add
    refused,  \* a registration has raised
    subapps,  \* the prefixes of mounted applications in order
    statics,  \* and those of static directories
    option,   \* what the set_openapi_... methods have set
    count     \* of the calls that configured it

mounts == <<subapps, statics>>
routingVars == <<table, refused, mounts, option, count>>

\* f[x] = v, of a dict
With(f, x, v) == [y \in DOMAIN f \cup {x} |-> IF y = x THEN v ELSE f[y]]

Dyn == None  \* the step to a node's param child; a segment is the one to a static child

\* The segments of a path, the empty ones left out.
Real(path) ==
    LET real[i \in 0..Len(path)] ==
            IF i = 0 THEN <<>>
            ELSE IF path[i] = Empty THEN real[i - 1] ELSE Append(real[i - 1], path[i])
    IN  real[Len(path)]

Dynamic(path) == \E i \in DOMAIN path : path[i] \in DOMAIN Markers

-----------------------------------------------------------------------------
(* Router.add: the segments are laid one by one; what was laid stays when a *)
(* later one is refused.                                                    *)

NoParam == [name |-> None, conv |-> None]
FreshNode == [param |-> NoParam, handler |-> None]

Down(s, step) ==
    LET child == Append(s.node, step)
    IN [s EXCEPT !.node = child,
                 !.tree = IF child \in DOMAIN @ THEN @ ELSE With(@, child, FreshNode)]

LayOver(s, seg, final) ==  \* mutant: a later marker takes the node over
    IF ~s.ok THEN s
    ELSE IF seg \notin DOMAIN Markers THEN Down(s, seg)
    ELSE IF Markers[seg].conv = "path" /\ ~final THEN [s EXCEPT !.ok = FALSE]
    ELSE Down([s EXCEPT !.tree[s.node].param = Markers[seg]], Dyn)

LayFirst(s, seg, final) ==  \* mutant: the marker is laid before it is compared
    IF ~s.ok THEN s
    ELSE IF seg \notin DOMAIN Markers THEN Down(s, seg)
    ELSE IF Markers[seg].conv = "path" /\ ~final THEN [s EXCEPT !.ok = FALSE]
    ELSE IF s.tree[s.node].param \notin {NoParam, Markers[seg]}
         THEN [s EXCEPT !.tree[s.node].param = Markers[seg], !.ok = FALSE]
    ELSE Down([s EXCEPT !.tree[s.node].param = Markers[seg]], Dyn)

Lay(s, seg, final) ==
    IF ~s.ok THEN s
    ELSE IF seg \notin DOMAIN Markers THEN Down(s, seg)
    ELSE IF \/ Markers[seg].conv = "path" /\ ~final  \* it must be the final one
            \/ s.tree[s.node].param \notin {NoParam, Markers[seg]}
         THEN [s EXCEPT !.ok = FALSE]
    ELSE Down([s EXCEPT !.tree[s.node].param = Markers[seg]], Dyn)

Add(tree, path, handler) ==
    LET segs == Real(path)
        laid[i \in 0..Len(segs)] ==
            IF i = 0 THEN [tree |-> tree, node |-> <<>>, ok |-> TRUE]
            ELSE Lay(laid[i - 1], segs[i], i = Len(segs))
        end == laid[Len(segs)]
        free == end.ok /\ end.tree[end.node].handler = None
    IN [tree |-> IF free THEN [end.tree EXCEPT ![end.node].handler = handler] ELSE end.tree,
        ok |-> free]

-----------------------------------------------------------------------------
(* Router.match: a literal child first, without backtracking. *)

ValidFor(conv, seg) == conv = "str" \/ (conv = "int" /\ seg \in Numerals)

Fail(s) == [s EXCEPT !.node = None]

Walk(tree, segs, s, i) ==
    IF s.node = None \/ s.rest THEN s
    ELSE LET param == tree[s.node].param
             inner == Append(s.node, Dyn)
         IN IF Append(s.node, segs[i]) \in DOMAIN tree THEN [s EXCEPT !.node = Append(@, segs[i])]
            ELSE IF param = NoParam THEN Fail(s)
            ELSE IF param.conv = "path"
                 THEN [node |-> inner, rest |-> TRUE,
                       params |-> With(s.params, param.name, SubSeq(segs, i, Len(segs)))]
            ELSE IF ~ValidFor(param.conv, segs[i]) THEN Fail(s)
            ELSE [s EXCEPT !.node = inner, !.params = With(@, param.name, <<segs[i]>>)]

NoMatch == [handler |-> None, params |-> <<>>]

Match(method, path) ==
    LET tree == table.trees[method]
        segs == Real(path)
        walked[i \in 0..Len(segs)] ==
            IF i = 0 THEN [node |-> <<>>, params |-> <<>>, rest |-> FALSE]
            ELSE Walk(tree, segs, walked[i - 1], i)
        end == walked[Len(segs)]
    IN IF end.node = None THEN NoMatch
       ELSE IF tree[end.node].handler = None THEN NoMatch
       ELSE [handler |-> tree[end.node].handler, params |-> end.params]

-----------------------------------------------------------------------------
(* The registrations. *)

FreshTable == [trees |-> [m \in Methods |-> [n \in {<<>>} |-> FreshNode]], routes |-> <<>>,
               byHandler |-> <<>>, cache |-> None, bare |-> {}]

RoutedKeepingCache(t, r, plans) ==  \* mutant: the cached document is kept
    LET added == Add(t.trees[r.method], r.path, r.handler)
        laid == [t EXCEPT !.trees[r.method] = added.tree]
    IN IF added.ok /\ plans
       THEN [ok |-> TRUE,
             table |-> [laid EXCEPT !.routes = Append(@, r), !.byHandler = With(@, r.handler, r)]]
       ELSE [ok |-> FALSE, table |-> IF added.ok THEN [laid EXCEPT !.bare = @ \cup {r}] ELSE laid]

\* route() and websocket(): the tree first; the plan of the route (its
\* signature, its dependencies) may then raise, and the tree keeps the handler
Routed(t, r, plans) ==
    LET added == Add(t.trees[r.method], r.path, r.handler)
        laid == [t EXCEPT !.trees[r.method] = added.tree]
    IN IF added.ok /\ plans
       THEN [ok |-> TRUE,
             table |-> [laid EXCEPT !.routes = Append(@, r), !.byHandler = With(@, r.handler, r),
                                    !.cache = None]]
       ELSE [ok |-> FALSE, table |-> IF added.ok THEN [laid EXCEPT !.bare = @ \cup {r}] ELSE laid]

DocRoute == [method |-> "GET", path |-> DocPath, handler |-> DocHandler, shown |-> FALSE]

ASSUME DocRegistered == Routed(FreshTable, DocRoute, TRUE).ok  \* __init__ did not raise

RoutingInit ==
    /\ table = Routed(FreshTable, DocRoute, TRUE).table
    /\ refused = FALSE
    /\ subapps = <<>> /\ statics = <<>>
    /\ option = 0
    /\ count = 0

Counted == count < MaxCalls /\ count' = count + 1
Becomes(result) == table' = result.table /\ refused' = (refused \/ ~result.ok)

Register(r, plans) ==
    /\ Counted
    /\ Becomes(Routed(table, r, plans))
    /\ UNCHANGED <<mounts, option>>

Route(r, plans) == r.method # "WS" /\ Register(r, plans)
Websocket(r, plans) == r.method = "WS" /\ Register(r, plans)

\* include_router: route by route, up to the first that raises: it is refused,
\* or it is the one whose plan raises
Include(bundle, prefix, raising) ==
    /\ Counted
    /\ LET path(i) == IF prefix \o bundle[i].path = <<>> THEN <<Empty>> ELSE prefix \o bundle[i].path
           done[i \in 0..Len(bundle)] ==
               IF i = 0 THEN [ok |-> TRUE, table |-> table]
               ELSE IF done[i - 1].ok
                    THEN Routed(done[i - 1].table, [bundle[i] EXCEPT !.path = path(i)], i # raising)
               ELSE done[i - 1]
       IN Becomes(done[Len(bundle)])
    /\ UNCHANGED <<mounts, option>>

Mount(prefix) ==
    /\ Counted
    /\ subapps' = Append(subapps, prefix)
    /\ UNCHANGED <<table, refused, statics, option>>

MountStatic(prefix) ==
    /\ Counted
    /\ statics' = Append(statics, prefix)
    /\ UNCHANGED <<table, refused, subapps, option>>

\* every set_openapi_..., add_openapi_... and clear_openapi_... method
SetDocOption ==
    /\ Counted
    /\ option' = 1 - option
    /\ table' = [table EXCEPT !.cache = None]
    /\ UNCHANGED <<refused, mounts>>

-----------------------------------------------------------------------------
(* What a request is answered with: _dispatch_asgi and _handle. *)

Under(prefix, path) == IsPrefix(prefix, path)

Alternate(path) ==
    IF path = <<Empty>> THEN None
    ELSE IF Last(path) = Empty THEN Front(path)
    ELSE Append(path, Empty)

RegisteredAny(method, path) ==  \* mutant: the method is not compared
    \E i \in DOMAIN table.routes : table.routes[i].path = path

Registered(method, path) ==
    \E i \in DOMAIN table.routes : table.routes[i].method = method /\ table.routes[i].path = path

App(prefix, path) ==
    [kind |-> "app", prefix |-> prefix,
     path |-> IF path = prefix THEN <<Empty>> ELSE SubSeq(path, Len(prefix) + 1, Len(path))]

\* _select_mounted_app: the first that was mounted
AppFor(path) ==
    LET i == SelectInSeq(subapps, LAMBDA prefix : Under(prefix, path))
    IN App(subapps[i], path)

\* _serve_static answers for all below its prefixes, found or not.
Static(path) == \E i \in DOMAIN statics : Under(statics[i], path)

Served(method, path) ==
    LET m == Match(method, path)
        known == m.handler \in DOMAIN table.byHandler
    IN CASE m.handler = None -> [kind |-> "missing"]
         [] m.handler # None /\ ~known -> [kind |-> "bare", handler |-> m.handler]
         [] known /\ ~Dynamic(table.byHandler[m.handler].path)
                  /\ path # table.byHandler[m.handler].path /\ method # "WS" -> [kind |-> "missing"]
         [] OTHER -> [kind |-> "route", route |-> table.byHandler[m.handler], params |-> m.params]

\* The second redirect of _handle, for a path nothing matches, is not here:
\* the alternate has the same segments, so nothing matches it either, and a
\* static prefix that covers the one covers the other.
Answer(method, path) ==
    LET alt == Alternate(path)
    IN IF \E i \in DOMAIN subapps : Under(subapps[i], path) THEN AppFor(path)
       ELSE IF method = "WS" THEN Served(method, path)
       ELSE IF Static(path) THEN [kind |-> "static"]
       ELSE IF alt # None /\ Registered(method, alt) /\ ~Registered(method, path)
            THEN [kind |-> "redirect", to |-> alt]
       ELSE Served(method, path)

\* build_openapi over the routes shown, with the options of the moment
Document ==
    [routes |-> {table.routes[i] : i \in {j \in DOMAIN table.routes : table.routes[j].shown}},
     option |-> option]

ServeDoc ==
    /\ LET answer == Answer("GET", DocPath)
       IN answer.kind = "route" /\ answer.route.handler = DocHandler
    /\ table.cache = None
    /\ table' = [table EXCEPT !.cache = Document]
    /\ UNCHANGED <<refused, mounts, option, count>>

RoutingNext ==
    \/ \E p \in Patterns, h \in Handlers, plans \in BOOLEAN :
           LET r == [method |-> p.method, path |-> p.path, handler |-> h, shown |-> TRUE]
           IN Route(r, plans) \/ Websocket(r, plans)
    \/ \E bundle \in Bundles, prefix \in Roots :
           \E raising \in 0..Len(bundle) : Include(bundle, prefix, raising)
    \/ \E prefix \in Roots : Mount(prefix) \/ MountStatic(prefix)
    \/ SetDocOption
    \/ ServeDoc

RoutingSpec == RoutingInit /\ [][RoutingNext]_routingVars

-----------------------------------------------------------------------------
(* A reference for the match that knows no tree, only the set of routes. *)

Fits(pattern, segs) ==
    LET p == Real(pattern)
        n == Len(p)
        catchAll == n > 0 /\ p[n] \in DOMAIN Markers /\ Markers[p[n]].conv = "path"
    IN /\ IF catchAll THEN Len(segs) >= n ELSE Len(segs) = n
       /\ \A i \in 1..n :
              IF p[i] \in DOMAIN Markers
              THEN Markers[p[i]].conv = "path" \/ ValidFor(Markers[p[i]].conv, segs[i])
              ELSE p[i] = segs[i]

\* Two routes are alike up to a segment when they say the same until there.
Alike(p, q, n) ==
    \A j \in 1..n :
        \/ p[j] = q[j]
        \/ {p[j], q[j]} \subseteq DOMAIN Markers /\ Markers[p[j]] = Markers[q[j]]

\* A route is passed over when another, alike up to some segment, has a
\* literal there that the path has too.
PassedOver(pattern, others, segs) ==
    LET p == Real(pattern)
    IN \E o \in others, i \in DOMAIN p :
           LET q == Real(o)
           IN /\ i \in DOMAIN q /\ i \in DOMAIN segs
              /\ Alike(p, q, i - 1)
              /\ q[i] \notin DOMAIN Markers /\ q[i] = segs[i] /\ p[i] # q[i]

RoutesOf(method) == {r \in ToSet(table.routes) \cup table.bare : r.method = method}

Chosen(method, segs) ==
    LET all == RoutesOf(method)
    IN {r \in all : Fits(r.path, segs) /\ ~PassedOver(r.path, {o.path : o \in all}, segs)}

ParamsOf(pattern, segs) ==
    LET p == Real(pattern)
        marks == {i \in DOMAIN p : p[i] \in DOMAIN Markers}
    IN [name \in {Markers[p[i]].name : i \in marks} |->
            LET i == CHOOSE j \in marks : Markers[p[j]].name = name /\ \A k \in marks : k > j => Markers[p[k]].name # name
            IN IF Markers[p[i]].conv = "path" THEN SubSeq(segs, i, Len(segs)) ELSE <<segs[i]>>]

\* The tree finds what the routes say, in whatever order they were
\* registered and whatever was refused half way: a path is matched by the one
\* route that fits it and is not passed over for a literal, with the values of
\* that route's own parameters, and by nothing when there is no such route.
\* Only what a refused registration has left in the tree may hide a route
\* (Router.add, Router.match).
MatchIsTheRoutes ==
    \A m \in Methods, path \in Paths :
        LET found == Match(m, path)
            segs == Real(path)
        IN \/ \E r \in Chosen(m, segs) :
                  /\ Chosen(m, segs) = {r}
                  /\ found = [handler |-> r.handler, params |-> ParamsOf(r.path, segs)]
           \/ found = NoMatch /\ (refused \/ Chosen(m, segs) = {})

\* In the tree a literal stands where the route has a marker.
Shadowed(r, segs) ==
    LET p == Real(r.path)
        step(j) == IF p[j] \in DOMAIN Markers THEN Dyn ELSE p[j]
    IN \E i \in DOMAIN p :
           /\ p[i] \in DOMAIN Markers
           /\ Append([j \in 1..(i - 1) |-> step(j)], segs[i]) \in DOMAIN table.trees[r.method]

\* Registrations that are refused half way, however many, hide from a route no
\* path that fits it, but behind a literal node they have left: the markers
\* and handlers the tree had are as they were (Router.add).
HiddenByLiteralsOnly ==
    \A m \in Methods, path \in Paths :
        LET segs == Real(path)
            found == Match(m, path).handler
        IN \A r \in RoutesOf(m) : Fits(r.path, segs) => found = r.handler \/ Shadowed(r, segs)

\* A literal route whose handler has no other is reached: its own path is
\* answered by it, the path with the other slash sends there and nowhere
\* else, in one step; unless a mount covers the path.  (The route is looked
\* up by its handler: one that is registered twice has only its last route.
\* The other slash of "/a//" is "/a/", whose own other slash is "/a".)
LiteralReached ==
    \A i \in DOMAIN table.routes :
        LET r == table.routes[i]
            alt == Alternate(r.path)
            alone == \A j \in DOMAIN table.routes : table.routes[j].handler = r.handler => j = i
            covered == \E prefix \in ToSet(subapps \o statics) : Under(prefix, r.path)
        IN alone /\ ~Dynamic(r.path) /\ ~covered /\ r.method # "WS" =>
               /\ Answer(r.method, r.path) = [kind |-> "route", route |-> r, params |-> <<>>]
               /\ alt # None /\ Alternate(alt) = r.path => Answer(r.method, alt) = [kind |-> "redirect", to |-> r.path]

\* A redirect sends to the path of a route of the method, once, and there that
\* route's handler answers, whatever else has been registered, refused or
\* mounted; unless another literal path has the handler too, which may be the
\* only one it is known under (_route_by_handler).
OneLiteral(r) ==
    \A q \in ToSet(table.routes) : q.handler = r.handler => Dynamic(q.path) \/ q.path = r.path

AnsweredBy(r, method, path) ==
    LET a == Answer(method, path) IN a.kind = "route" /\ a.route.handler = r.handler

RedirectsLand ==
    \A m \in Methods \ {"WS"}, path \in Paths :
        LET a == Answer(m, path)
        IN a.kind = "redirect" =>
               /\ Answer(m, a.to).kind # "redirect"
               /\ \E r \in ToSet(table.routes) :
                      /\ r.method = m /\ r.path = a.to
                      /\ ~Dynamic(r.path) /\ OneLiteral(r) => AnsweredBy(r, m, a.to)

\* Refuted: it always leads to a route that answers (with one handler under
\* "/a" and then "/b", "/a/" is sent to "/a", which is not found).
RedirectsAnswered ==
    \A m \in Methods \ {"WS"}, path \in Paths :
        LET a == Answer(m, path) IN a.kind = "redirect" => Answer(m, a.to).kind = "route"

\* Paths of literal routes land on them, with either slash at their end, and
\* a redirect is answered where it leads: the two sides of _handle's look-ups in
\* _routes and _route_by_handler.
PathsLand == LiteralReached /\ RedirectsLand

\* The document that is served lists the routes and options of now, however
\* registrations, settings and requests for it interleave.
DocCurrent == table.cache \in {None, Document}

=============================================================================
