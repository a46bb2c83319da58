--------------------------- MODULE LockPromise ---------------------------
(***************************************************************************)
(* What omp_set_lock, omp_test_lock and omp_unset_lock promise, whatever   *)
(* the kind of the lock: one holder at a time, and for a fair lock the     *)
(* order in which the threads have joined the line.                        *)
(***************************************************************************)
EXTENDS Sequences, SequencesExt

CONSTANTS Threads, Nobody

VARIABLES fair, holder, line

vars == <<fair, holder, line>>

Init == fair \in BOOLEAN /\ holder = Nobody /\ line = << >>

Arrive(t) ==
    /\ holder # t /\ ~Contains(line, t)
    /\ line' = Append(line, t)
    /\ UNCHANGED <<fair, holder>>

Enter(t) ==
    /\ holder = Nobody /\ Contains(line, t)
    /\ fair => Head(line) = t
    /\ holder' = t
    /\ \E i \in 1 .. Len(line) : line[i] = t /\ line' = RemoveAt(line, i)
    /\ UNCHANGED fair

\* A thread that finds the lock free takes it without joining; it overtakes nobody
\* where the lock is fair.
EnterAtOnce(t) ==
    /\ holder = Nobody
    /\ fair => line = << >>
    /\ holder' = t
    /\ UNCHANGED <<fair, line>>

Leave(t) ==
    /\ holder = t
    /\ holder' = Nobody
    /\ UNCHANGED <<fair, line>>

Next == \E t \in Threads : Arrive(t) \/ Enter(t) \/ EnterAtOnce(t) \/ Leave(t)

Spec == Init /\ [][Next]_vars
=============================================================================
