--------------------------- MODULE MCDependencies ---------------------------
(***************************************************************************)
(* Dependencies for TLC: every graph of three dependencies in which the    *)
(* handler has at most two demands, `audit` two, `user` one and `session`  *)
(* none.                                                                   *)
EXTENDS Dependencies, TLC

CONSTANTS session, user, audit

UpTo(n, S) == UNION {[1 .. k -> S] : k \in 0 .. n}

Demands(S) == [to : S, cache : BOOLEAN]

Trees ==
    {Endpoint :> e @@ audit :> a @@ user :> u @@ session :> <<>> :
        e \in UpTo(2, Demands(Dep)),
        a \in UpTo(2, Demands({user, session})),
        u \in UpTo(1, Demands({session}))}

Plain == [d \in Dep |-> d]

\* No override; the session overridden by another dependency; by one that may
\* demand it itself (its demand leads back to it, for ever); two that override
\* each other; an override that is itself overridden.
Tables ==
    {Plain,
     [Plain EXCEPT ![user] = session],
     [Plain EXCEPT ![session] = user],
     [Plain EXCEPT ![user] = session, ![session] = user],
     [Plain EXCEPT ![audit] = user, ![user] = session]}

=============================================================================
