----------------------------- MODULE MCLifespan -----------------------------
(* Lifespan for TLC: three resources, so that the last of three may fail   *)
(* to open or one in the middle to close; one of them has no cleanup.      *)
EXTENDS Lifespan

CONSTANTS a, b, c, q

=============================================================================
