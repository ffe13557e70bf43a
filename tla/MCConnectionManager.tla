------------------------ MODULE MCConnectionManager ------------------------
(* ConnectionManager for TLC: fewer addresses than sockets, so that an     *)
(* address is used twice.                                                  *)
EXTENDS ConnectionManager, TLC

Symmetric == Permutations(Socket) \cup Permutations(Key) \cup Permutations(Caster)

=============================================================================
