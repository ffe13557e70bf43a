----------------------------- MODULE MCJobQueue -----------------------------
(* JobQueue for TLC: up to three jobs, one of which may be retried.        *)
EXTENDS JobQueue

CONSTANTS j1, j2, j3, Retries

OneRetried == [j \in Job |-> IF j = j1 THEN Retries ELSE 0]

=============================================================================
