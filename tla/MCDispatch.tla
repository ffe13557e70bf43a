----------------------------- MODULE MCDispatch -----------------------------
(* Dispatch for TLC: the requests as model values.                         *)
EXTENDS Dispatch

CONSTANTS r1, r2, r3, r4

=============================================================================
