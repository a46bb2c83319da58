------------------------- MODULE WorksharingLoops -------------------------
(***************************************************************************)
(* What the dispatcher promises to the program, whatever the schedule: a   *)
(* team executes the same worksharing loops in the same order; while a     *)
(* thread is in a loop it may be handed a block of consecutive iterations  *)
(* nobody else was handed; it leaves the loop only when no iteration is    *)
(* left to hand out.  Threads need not be in the same loop (nowait).       *)
(***************************************************************************)
EXTENDS Naturals

CONSTANTS
    Threads,      \* the threads of the team
    NumLoops      \* loops of a parallel region, numbered 0 .. NumLoops-1

VARIABLES
    trip,         \* trip[l] : the number of iterations of loop l
    left,         \* left[t] : the number of loops t has left in this region
    given         \* given[l][i] : how many times iteration i was handed out

vars == <<trip, left, given>>

Loops == 0 .. NumLoops - 1
Iterations(l) == 0 .. trip[l] - 1

\* A parallel region begins with all its loops untouched.
Untouched(n) == [l \in Loops |-> [i \in 0 .. n[l] - 1 |-> 0]]

Init ==
    /\ trip \in [Loops -> Nat]
    /\ left = [t \in Threads |-> 0]
    /\ given = Untouched(trip)

\* A block lo..hi of iterations nobody has goes to a thread in loop left[t].
HandOut(t) ==
    /\ left[t] < NumLoops
    /\ \E lo, hi \in Iterations(left[t]) :
          /\ lo <= hi
          /\ \A i \in lo .. hi : given[left[t]][i] = 0
          /\ given' = [given EXCEPT ![left[t]] =
                         [i \in Iterations(left[t]) |->
                            IF i \in lo .. hi THEN 1 ELSE given[left[t]][i]]]
    /\ UNCHANGED <<trip, left>>

Leave(t) ==
    /\ left[t] < NumLoops
    /\ \A i \in Iterations(left[t]) : given[left[t]][i] = 1
    /\ left' = [left EXCEPT ![t] = @ + 1]
    /\ UNCHANGED <<trip, given>>

\* The team joins and a new parallel region starts.
NewRegion ==
    /\ \A t \in Threads : left[t] = NumLoops
    /\ trip' \in [Loops -> Nat]
    /\ left' = [t \in Threads |-> 0]
    /\ given' = Untouched(trip')

Next == NewRegion \/ \E t \in Threads : HandOut(t) \/ Leave(t)

Spec == Init /\ [][Next]_vars
===========================================================================
