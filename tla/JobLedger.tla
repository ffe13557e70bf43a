----------------------------- MODULE JobLedger -----------------------------
(***************************************************************************)
(* What a job queue promises its callers, whatever its workers, its clock  *)
(* and its schedule do: a record is worked on by one holder at a time, it  *)
(* is tried at most max_retries + 1 times, it is given up only after that  *)
(* many tries, a settled record stays as it is, and an idempotency key     *)
(* names one job for ever.                                                 *)
(***************************************************************************)
EXTENDS Integers

CONSTANTS Job, Key, NoJob, NoKey, MaxRetries

VARIABLES state, tries, inHand, registry

ledger == <<state, tries, inHand, registry>>

Init ==
    /\ state = [j \in Job |-> "none"]
    /\ tries = [j \in Job |-> 0]
    /\ inHand = {}
    /\ registry = [k \in Key |-> NoJob]

Accept(j, k) ==
    /\ state[j] = "none"
    /\ state' = [state EXCEPT ![j] = "queued"]
    /\ \/ k = NoKey /\ registry' = registry
       \/ /\ k \in Key /\ registry[k] = NoJob
          /\ registry' = [registry EXCEPT ![k] = j]
    /\ UNCHANGED <<tries, inHand>>

Try(j) ==
    /\ state[j] = "queued" /\ j \notin inHand
    /\ tries[j] <= MaxRetries[j]
    /\ state' = [state EXCEPT ![j] = "running"]
    /\ tries' = [tries EXCEPT ![j] = @ + 1]
    /\ inHand' = inHand \cup {j}
    /\ UNCHANGED registry

\* The try ends: well, badly with tries left, or badly for good ...
Settle(j) ==
    /\ state[j] = "running" /\ j \in inHand
    /\ \E s \in {"succeeded", "queued", "failed"} :
        /\ s = "queued" => tries[j] <= MaxRetries[j]
        /\ s = "failed" => tries[j] > MaxRetries[j]
        /\ state' = [state EXCEPT ![j] = s]
    /\ inHand' = inHand \ {j}
    /\ UNCHANGED <<tries, registry>>

\* ... or its holder is gone, and the record is left as it is.
Forsake(j) ==
    /\ j \in inHand
    /\ inHand' = inHand \ {j}
    /\ UNCHANGED <<state, tries, registry>>

Next ==
    \E j \in Job :
        \/ \E k \in Key \cup {NoKey} : Accept(j, k)
        \/ Try(j) \/ Settle(j) \/ Forsake(j)

Spec == Init /\ [][Next]_ledger

=============================================================================
