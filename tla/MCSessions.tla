----------------------------- MODULE MCSessions -----------------------------
(* Sessions for TLC: requests and clients are interchangeable.             *)
EXTENDS Sessions, TLC

CONSTANTS c1, c2, r1, r2, r3, r4

Symmetric == Permutations(Client) \cup Permutations(Request)

=============================================================================
