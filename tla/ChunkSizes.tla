---------------------------- MODULE ChunkSizes ----------------------------
(***************************************************************************)
(* The chunk formulas of the schedules: the private parameters computed by *)
(* __kmp_dispatch_init_algorithm (n iterations, chunk argument c) and the  *)
(* size or bounds __kmp_dispatch_next_algorithm computes from them.        *)
(* Rational floating-point formulas are exact here; the values of those    *)
(* with roots, logarithms or profiled times are parameters.  A float that  *)
(* does not fit an integer converts to the least integer (x86).            *)
(***************************************************************************)
EXTENDS Integers

CONSTANTS
    NProc,      \* threads of the team
    Width,      \* bits of an unsigned iteration number
    FscSize,    \* FSC: the size from the profiled sigma and the overhead
    TapSize,    \* TAPER: TapSize[r], the size for r remaining iterations
    FacFirst,   \* FACa: FacFirst[n], the size of the first batch
    FacSize,    \* FACa: FacSize[r], the size of a batch with r remaining
    LogSize,    \* mFSC: LogSize[m], 0.55 + m ln 2 / ln m
    Weight,     \* WF: Weight[t] / WeightUnit, KMP_WEIGHTS
    WeightUnit,
    RndStart,   \* KMP_RND_START
    FissStages  \* KMP_FISS_STAGES, nproc - 1 if not set

Ceil(a, b) == -((-a) \div b)
LeastInt == -(2 ^ (Width - 1))
Signed(x) == ((x - LeastInt) % (2 ^ Width)) + LeastInt   \* wraps around

\* The test against the minimum chunk.
AtLeast(min_chunk, cs) == IF min_chunk > cs THEN min_chunk ELSE cs
---------------------------------------------------------------------------
(* Schedules whose chunk number gives the bounds of the chunk.             *)

\* dynamic: chunk number times chunk size, in unsigned arithmetic.
DynamicFirst(c, k) == (c * k) % (2 ^ Width)
DynamicPast(c, k) == ((DynamicFirst(c, k) + c - 1) % (2 ^ Width)) + 1

\* trapezoidal: first size, last size, number of chunks, decrement.
TssSize(n) == AtLeast(1, n \div (2 * NProc))
TssLast(n, c) == IF c > TssSize(n) THEN TssSize(n) ELSE c
TssCycles(n, c) == LET s == TssSize(n) + TssLast(n, c)
                   IN  AtLeast(2, (2 * n + s - 1) \div s)
TssDelta(n, c) == (TssSize(n) - TssLast(n, c)) \div (TssCycles(n, c) - 1)

TssFirst(n, c, k) == (k * (2 * TssSize(n) - (k - 1) * TssDelta(n, c))) \div 2

\* analytical guided: iterations left after k chunks, the crossover, the offset.
GuidedRemaining(n, k) == Ceil(n * (2 * NProc - 1) ^ k, (2 * NProc) ^ k)
Cross(n, c) ==
    LET below(i) == n * (2 * NProc - 1) ^ i <= (2 * c + 1) * NProc * (2 * NProc) ^ i
    IN  CHOOSE i \in 1 .. n : below(i) /\ ~below(i - 1)
GuidedOffset(n, c) == n - GuidedRemaining(n, Cross(n, c)) - Cross(n, c) * c
GuidedFirst(n, c, k) ==
    IF k < Cross(n, c) THEN n - GuidedRemaining(n, k) ELSE k * c + GuidedOffset(n, c)
GuidedPast(n, c, k) ==
    IF k < Cross(n, c) THEN n - GuidedRemaining(n, k + 1) ELSE GuidedFirst(n, c, k) + c

FirstOfChunk(s, n, c, k) ==
    CASE s \in {"dynamic", "profiling"} -> DynamicFirst(c, k)
      [] s = "fsc" -> DynamicFirst(AtLeast(c, FscSize), k)
      [] s = "trapezoidal" -> TssFirst(n, c, k)
      [] s = "guided_analytical" -> GuidedFirst(n, c, k)

PastOfChunk(s, n, c, k) ==
    CASE s \in {"dynamic", "profiling"} -> DynamicPast(c, k)
      [] s = "fsc" -> DynamicPast(AtLeast(c, FscSize), k)
      [] s = "trapezoidal" -> ((k + 1) * (2 * TssSize(n) - k * TssDelta(n, c))) \div 2
      [] s = "guided_analytical" -> GuidedPast(n, c, k)

ServedChunk(s, n, c, k) ==
    CASE s = "trapezoidal" -> k < TssCycles(n, c)
      [] s = "guided_analytical" -> k < Cross(n, c) \/ GuidedFirst(n, c, k) > 0
      [] OTHER -> TRUE
---------------------------------------------------------------------------
(* Schedules that compute a size and take it from the cursor.              *)

Batch(k) == k \div NProc

\* guided: the span is 1/(2 nproc) of the remaining iterations.
GuidedSpan(r) == r \div (2 * NProc)

\* guided_simd: the span rounded up to a multiple of the chunk.
SimdSpan(c, r) ==
    LET rem == GuidedSpan(r) % c
    IN  IF rem = 0 THEN GuidedSpan(r) ELSE GuidedSpan(r) + c - rem

\* FACa: every thread computes the batches by itself, from the last it knew.
FacaBatch(n, b) ==
    LET f[i \in 0 .. b] ==
          IF i = 0 THEN [remaining |-> n, chunk |-> FacFirst[n]]
          ELSE LET r == f[i - 1].remaining - NProc * f[i - 1].chunk
               IN  [remaining |-> r, chunk |-> IF r > 0 THEN FacSize[r] ELSE 0]
    IN  f[b]

\* FACa: the batches before this one cover the loop.
FacaStops(n, b) == FacaBatch(n, b).remaining <= 0

\* FAC2, FAC2b: half of what the batches before left, in closed form.
HalfOfBatch(n, b) == Ceil(n, NProc * 2 ^ (b + 1))

\* FAC2a, WF: the size of the first batch halved once per batch.
Halved(n, b) ==
    LET h[i \in 0 .. b] == IF i = 0 THEN Ceil(n, 2 * NProc) ELSE Ceil(h[i - 1], 2)
    IN  h[b]

\* VISS: ceil(tc / (viss_param * nproc)) divides integers; the sizes double.
VissSize(n, b) ==
    LET v == n \div (NProc * NProc)
    IN  IF b > 0 THEN (v * (2 ^ (b + 1) - 1)) \div (2 ^ b) ELSE v

\* FISS: first size and increment (more than one stage).
FissChunk(n, c) == AtLeast(c, n \div ((FissStages + 2) * NProc))
FissDelta(n) == (4 * n) \div ((FissStages + 2) * NProc * FissStages * (FissStages - 1))

\* TFSS: the mean of the sizes TSS would give to a batch.
TfssChunk(n) == Ceil(n, 2 * NProc)
TfssSteps(n) == Ceil(2 * n, TfssChunk(n) + 1)
TfssDeltas(n) == IF TfssSteps(n) = 1 THEN {LeastInt}      \* 0.0 / 0.0
                 ELSE {(TfssChunk(n) - 1) \div (TfssSteps(n) - 1)}
TfssMean(n, b, delta) ==
    LET temp == Signed(TfssChunk(n) - b * NProc * delta)
        head == IF temp >= 0 THEN temp ELSE TfssChunk(n) - (TfssSteps(n) - 1) * delta
        sum == Signed(NProc * head - delta * ((NProc * (NProc - 1)) \div 2))
    IN  sum \div NProc

\* PLS: a static part for the first nproc requests, then guided on the rest.
PlsStatic(n) == Ceil(n, 2 * NProc)
PlsSize(n, k) ==
    IF k < NProc THEN PlsStatic(n)
    ELSE Ceil((NProc - 1) ^ (k - NProc) * (n - NProc * PlsStatic(n)),
              NProc ^ (k - NProc + 1))

\* Every size thread t may compute: x is its request number or, for schedules
\* without one, the iterations remaining.  The empty set: no more is needed.
PossibleSizes(s, n, c, t, x) ==
    CASE s = "guided_iterative" -> {GuidedSpan(x)}
      [] s = "guided_simd" -> {SimdSpan(c, x)}
      [] s = "tap" -> {AtLeast(c, TapSize[x])}
      [] s = "faca" -> IF FacaStops(n, Batch(x)) THEN {}
                       ELSE {AtLeast(c, FacaBatch(n, Batch(x)).chunk)}
      [] s \in {"fac2", "fac2b"} -> {AtLeast(c, HalfOfBatch(n, Batch(x)))}
      [] s = "fac2a" -> {AtLeast(c, Halved(n, Batch(x)))}
      [] s = "wf" -> {AtLeast(c, Ceil(Weight[t] * Halved(n, Batch(x)), WeightUnit))}
      [] s = "rnd" -> RndStart .. c
      [] s = "viss" -> {VissSize(n, Batch(x))}
      [] s = "fiss" -> {FissChunk(n, c) + Batch(x) * FissDelta(n)}
      [] s = "mfsc" -> {AtLeast(c, LogSize[Ceil(n, NProc)])}
      [] s = "tfss" -> {AtLeast(c, TfssMean(n, Batch(x), d)) : d \in TfssDeltas(n)}
      [] s = "pls" -> {AtLeast(c, PlsSize(n, x))}
===========================================================================
