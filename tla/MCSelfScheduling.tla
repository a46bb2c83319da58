------------------------- MODULE MCSelfScheduling -------------------------
\* Small teams and loops for TLC, with the formulas of ChunkSizes as sizes.
EXTENDS OrderedLoops

CONSTANTS Width, MaxTrip

\* ceil(r / (2 nproc)): FACa for small sigma.
HalfBatch == [r \in 1 .. MaxTrip |-> (r + 2 * NProc - 1) \div (2 * NProc)]

\* TAPER with v = 2: half the share of the remaining iterations, less one; for
\* few remaining iterations the formula gives nothing or less.
Taper == [r \in 1 .. MaxTrip |-> r \div (2 * NProc) - 1]

\* 0.55 + m ln 2 / ln m, truncated; ln 1 = 0 makes the first one infinite.
LogTable == [m \in 1 .. MaxTrip |->
    IF m = 1 THEN -(2 ^ (Width - 1)) ELSE IF m < 7 THEN 2 ELSE 3]

\* Threads of unequal weight: 1/2, 3/2, 1/2, ...
Halves == [t \in Threads |-> IF t % 2 = 0 THEN 1 ELSE 3]

F == INSTANCE ChunkSizes WITH
    FscSize <- 2, TapSize <- Taper, FacFirst <- HalfBatch, FacSize <- HalfBatch,
    LogSize <- LogTable, Weight <- Halves, WeightUnit <- 2, RndStart <- 1,
    FissStages <- 2

MCSizes(s, n, c, t, x) == F!PossibleSizes(s, n, c, t, x)
MCFirst(s, n, c, k) == F!FirstOfChunk(s, n, c, k)
MCPast(s, n, c, k) == F!PastOfChunk(s, n, c, k)
MCServed(s, n, c, k) == F!ServedChunk(s, n, c, k)

UpToTwelve == 0 .. 12

\* VISS loses iterations and has a run of its own.
SoundSchedules == (Index \cup CasLoop \cup AddOnce \cup Static) \ {"viss"}
===========================================================================
