--------------------------- MODULE AdmissionGate ---------------------------
(***************************************************************************)
(* What a Turbo application promises about admission: at most Capacity     *)
(* requests are inside at a time, the others queue, they are admitted in   *)
(* the order they came, and whoever queues may give up.                    *)
(***************************************************************************)
EXTENDS Integers, FiniteSets

CONSTANTS Req, Capacity

VARIABLES stage, place, entered

gateVars == <<stage, place, entered>>

Queue  == {r \in Req : stage[r] = "queued"}
Inside == {r \in Req : stage[r] = "inside"}
HasRoom == Cardinality(Inside) < Capacity

Init ==
    /\ stage = [r \in Req |-> "out"]
    /\ place = [r \in Req |-> 0]
    /\ entered = 0

Enter(r) ==
    /\ stage[r] = "out"
    /\ place' = [place EXCEPT ![r] = entered]
    /\ entered' = entered + 1
    /\ \/ HasRoom /\ Queue = {} /\ stage' = [stage EXCEPT ![r] = "inside"]
       \/ ~(HasRoom /\ Queue = {}) /\ stage' = [stage EXCEPT ![r] = "queued"]

Admit(r) ==
    /\ r \in Queue
    /\ HasRoom
    /\ \A q \in Queue : place[r] <= place[q]
    /\ stage' = [stage EXCEPT ![r] = "inside"]
    /\ UNCHANGED <<place, entered>>

Go(r) ==
    /\ r \in Queue \cup Inside
    /\ stage' = [stage EXCEPT ![r] = "gone"]
    /\ UNCHANGED <<place, entered>>

Next == \E r \in Req : Enter(r) \/ Admit(r) \/ Go(r)

Spec == Init /\ [][Next]_gateVars

=============================================================================
