-------------------------- MODULE BarrierPromise --------------------------
(***************************************************************************)
(* What a barrier promises: a member of the team leaves it for the k-th    *)
(* time only when every member has entered it k times.                     *)
(***************************************************************************)
EXTENDS Naturals

CONSTANT Everyone

VARIABLES
    members,      \* the threads of the team
    entered,      \* entered[t] : how often t has come to the barrier
    passed        \* passed[t]  : how often it has gone on

vars == <<members, entered, passed>>

Init ==
    /\ members \in SUBSET Everyone
    /\ entered = [t \in Everyone |-> 0]
    /\ passed = [t \in Everyone |-> 0]

Enter(t) ==
    /\ entered[t] = passed[t]
    /\ entered' = [entered EXCEPT ![t] = @ + 1]
    /\ UNCHANGED <<members, passed>>

Pass(t) ==
    /\ passed[t] < entered[t]
    /\ \A u \in members : entered[u] >= entered[t]
    /\ passed' = [passed EXCEPT ![t] = @ + 1]
    /\ UNCHANGED <<members, entered>>

Next == \E t \in members : Enter(t) \/ Pass(t)

Spec == Init /\ [][Next]_vars
===========================================================================
