--------------------------- MODULE MCAutoSelect ---------------------------
\* Programs for TLC and the refinement to AutoTuning.
EXTENDS AutoSelect

CONSTANTS
    p1, p2,     \* places
    Percents    \* imbalances that the executions may measure

ASSUME PercentAssumption == Percents \subseteq Int

AutoLoop(p, n) == [place |-> p, auto |-> TRUE, trips |-> n, serial |-> FALSE, golden |-> n > 12]
PlainLoop(p, n) == [AutoLoop(p, n) EXCEPT !.auto = FALSE]
SerialPlain(p, n) == [PlainLoop(p, n) EXCEPT !.serial = TRUE]

\* Two auto loops, each executed twice, with a loop of one thread
\* between them that is not auto.
Alternating == <<AutoLoop(p1, 16), AutoLoop(p2, 8), SerialPlain(p2, 8), AutoLoop(p1, 16), AutoLoop(p2, 8)>>

\* An auto loop without iterations, then two others.
EmptyFirst == <<AutoLoop(p1, 0), AutoLoop(p2, 8), PlainLoop(p2, 8)>>

\* What they measure with the times of the run.
SomePercents == {-200, 0, 66, 133, 200}

TripsOf == [p \in Places |-> LET l == CHOOSE k \in DOMAIN Loops : Loops[k].place = p
                             IN  Loops[l].trips]

Tuning == INSTANCE AutoTuning WITH
    Policies <- {"explore_first"}, Trips <- TripsOf, Team <- NProc, Times <- Durations,
    Imbalances <- Percents, Rewards <- {"looptime"}, Stray <- {0},
    MaxTrials <- Len(Loops), MaxSteps <- 0,
    policy <- None, reward <- None, agent <- [p \in Places |-> None], chunkSizes <- << >>,
    current <- IF (autoEnter > 0 /\ ~Selecting) \/ Storing THEN autoLoopName ELSE None

\* The flags give each loop one selection and one measurement, in that order and in its
\* own record, as if the program executed its loops one at a time.
ImplementsTuning == Tuning!TuningSpec
=============================================================================
