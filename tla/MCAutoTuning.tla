--------------------------- MODULE MCAutoTuning ---------------------------
\* One loop of 32 iterations on a team of two, with a history of the searches.
EXTENDS AutoTuning

OneTrip == [p \in Places |-> 32]

VARIABLE tried          \* techniques the current search of each loop has selected

triedVars == <<tuningVars, tried>>

TriedInit == TuningInit /\ tried = [p \in Places |-> {}]

TriedBegin(p) ==
    /\ Begin(p)
    /\ tried' = [tried EXCEPT ![p] =
           IF rec'[p].searchTrials = 0 THEN {}
           ELSE IF rec[p].autoSearch = 1 THEN @ \cup {rec'[p].cDLS} ELSE @]

TriedEnd(p) == End(p) /\ UNCHANGED tried

\* The program executes each of its loops again and again.
TriedSpec ==
    /\ TriedInit /\ [][\E p \in Places : TriedBegin(p) \/ TriedEnd(p)]_triedVars
    /\ \A p \in Places : SF_triedVars(TriedBegin(p)) /\ WF_triedVars(TriedEnd(p))

\* The exhaustive search selects no technique twice, and it ends when it has
\* selected all of them, also when it starts again from the technique in use.
EachTriedOnce ==
    option = 3 => \A p \in Places : Cardinality(tried[p]) = rec[p].searchTrials
=============================================================================
