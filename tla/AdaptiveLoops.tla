--------------------------- MODULE AdaptiveLoops ---------------------------
(***************************************************************************)
(* The schedules of __kmp_dispatch_next_algorithm that measure the loop    *)
(* while it runs.  All take a chunk by compare-and-swap on the cursor; its *)
(* size comes from state that the threads of the team share:               *)
(*   awf        weights kept from one execution of the loop to the next    *)
(*   awf_b, _d  rates published after every chunk, halving batches         *)
(*   awf_c, _e  the same rates, sizes from the remaining iterations        *)
(*   bold       sums of the iterations and of the speeds under way         *)
(*   af, af_a   chunks cut into sub-chunks, measured one by one            *)
(* d, e and af_a differ from b, c and af in the moment a time is taken     *)
(* only.  Times are inputs: a measured rate or weight is any of a set.     *)
(* The team executes one loop Steps times, with its barrier.               *)
(***************************************************************************)
EXTENDS Integers, FiniteSetsExt

CONSTANTS
    NProc,        \* threads of the team
    Steps,        \* executions of the loop
    Schedules,    \* the schedules explored
    Trips,        \* the trip counts explored
    MinChunks,    \* the chunk arguments explored
    Rates,        \* the rates a thread may measure
    Weights,      \* the weights of AWF, in halves
    Mu, Overhead, \* BOLD: time of an iteration, and of taking a chunk
    FirstChunk,   \* AF: size of the first chunk (100)
    Divider       \* AF: KMP_DIVIDER, sub-chunks of a chunk

Threads == 0 .. NProc - 1
Batched == {"awf_b", "awf_d"}
Chunked == {"awf_c", "awf_e"}
Factoring == {"af", "af_a"}
Rated == Batched \cup Chunked

ASSUME SizesAssumption ==
    /\ NProc \in Nat \ {0, 1} /\ Steps \in Nat \ {0}
    /\ Schedules \subseteq {"awf", "bold"} \cup Rated \cup Factoring
    /\ Trips \subseteq Nat \ {0} /\ MinChunks \subseteq Nat \ {0}
ASSUME DataAssumption ==
    /\ Rates \subseteq Nat \ {0} /\ IsFiniteSet(Rates)
    /\ Weights \subseteq Nat \ {0} /\ Mu \in Nat \ {0} /\ Overhead \in Nat
    /\ Divider \in Nat \ {0} /\ FirstChunk \in Nat /\ FirstChunk >= Divider

\* The product of all rates, which each of them divides, and the sum over the
\* measured rates of what it divides into.
AllRates == ProductSet(Rates)
Scale(seen) == MapThenSumSet(LAMBDA i : AllRates \div seen[i], {i \in Threads : seen[i] # 0})

VARIABLES
    schedule, trip, minChunk,     \* the loop
    step,                         \* executions that have ended
    pc, left,                     \* each thread's place, executions it has left
    iteration, counter,           \* shared buffer: cursor, number of the next request
    rates,                        \* dbl_vector: 0 until a thread has measured
    bold_m, total_speed,          \* BOLD: iterations and speed of chunks under way
    AWFEnter, AWFWait, AWFCounter,
    data,                         \* AWFData of the loop
    pr, local,                    \* private descriptor, and locals of a call
    given                         \* history: given[l][i] = times i was handed out

loop == <<schedule, trip, minChunk>>
bold == <<bold_m, total_speed>>
flags == <<AWFEnter, AWFWait, AWFCounter>>
vars == <<loop, step, pc, left, iteration, counter, rates, bold, flags, data, pr, local, given>>

Executions == 0 .. Steps - 1
Iterations == 0 .. trip - 1
CeilDiv(a, b) == (a + b - 1) \div b
AtLeast(a, b) == IF a > b THEN a ELSE b
Total(f) == MapThenSumSet(LAMBDA t : f[t], Threads)

\* Weights are positive: 0 stands for the NaN of a division by zero.
NaN == 0
NoRecord == [timeStep |-> 0, workPerStep |-> [t \in Threads |-> 0],
             sumWorkPerStep |-> [t \in Threads |-> 0],
             weights |-> [t \in Threads |-> 2]]

\* What init_algorithm leaves in the private descriptor.
NewPrivate == [weight |-> 2, taken |-> 0,                  \* AWF; chunks taken
               mine |-> 0, speed |-> 0,                    \* BOLD: last chunk
               size |-> FirstChunk, remaining |-> FirstChunk,
               sub |-> FirstChunk \div Divider]
NoLocal == [number |-> 0, init |-> 0, size |-> 0, chunk |-> 0, at |-> 0,
            seen |-> [t \in Threads |-> 0]]

Init ==
    /\ schedule \in Schedules /\ trip \in Trips /\ minChunk \in MinChunks
    /\ step = 0
    /\ pc = [t \in Threads |-> "init"] /\ left = [t \in Threads |-> 0]
    /\ iteration = 0 /\ counter = 0
    /\ rates = [t \in Threads |-> 0]
    /\ bold_m = trip /\ total_speed = 0
    /\ AWFEnter = 0 /\ AWFWait = 1 /\ AWFCounter = 0
    /\ data = NoRecord
    /\ pr = [t \in Threads |-> NewPrivate]
    /\ local = [t \in Threads |-> NoLocal]
    /\ given = [l \in Executions |-> [i \in Iterations |-> 0]]

Go(t, place) == pc' = [pc EXCEPT ![t] = place]
---------------------------------------------------------------------------
(* Entering the loop.                                                      *)

Enter(t) ==
    /\ pc[t] = "init" /\ schedule # "awf"
    /\ pr' = [pr EXCEPT ![t] = NewPrivate]
    /\ Go(t, "next")
    /\ UNCHANGED <<loop, step, left, iteration, counter, rates, bold, flags, data, local, given>>

\* The first thread to count itself prepares the record of this execution.
AwfEnter(t) ==
    /\ pc[t] = "init" /\ schedule = "awf"
    /\ AWFEnter' = AWFEnter + 1
    /\ Go(t, IF AWFEnter = 0 THEN "record" ELSE "wait")
    /\ UNCHANGED <<loop, step, left, iteration, counter, rates, bold, AWFWait, AWFCounter, data, pr, local, given>>

AwfRecord(t) ==
    /\ pc[t] = "record"
    /\ data' = [data EXCEPT !.timeStep = @ + 1]
    /\ Go(t, "open")
    /\ UNCHANGED <<loop, step, left, iteration, counter, rates, bold, flags, pr, local, given>>

AwfOpen(t) ==
    /\ pc[t] = "open"
    /\ AWFWait' = AWFWait - 1
    /\ Go(t, "weigh")
    /\ UNCHANGED <<loop, step, left, iteration, counter, rates, bold, AWFEnter, AWFCounter, data, pr, local, given>>

AwfWeigh(t) ==
    /\ pc[t] = "weigh" \/ (pc[t] = "wait" /\ AWFWait # 1)
    /\ pr' = [pr EXCEPT ![t] = [NewPrivate EXCEPT !.weight = data.weights[t]]]
    /\ Go(t, "next")
    /\ UNCHANGED <<loop, step, left, iteration, counter, rates, bold, flags, data, local, given>>
---------------------------------------------------------------------------
(* The part of a request before the cursor is read.                        *)

\* A number for the request; after its first chunk a thread then shares the
\* rate it measured.
Number(t) ==
    /\ pc[t] = "next" /\ schedule \in {"awf"} \cup Rated
    /\ counter' = counter + 1
    /\ local' = [local EXCEPT ![t].number = counter]
    /\ Go(t, IF schedule \in Rated /\ pr[t].taken > 0 THEN "share" ELSE "read")
    /\ UNCHANGED <<loop, step, left, iteration, rates, bold, flags, data, pr, given>>

Share(t) ==
    /\ pc[t] = "share"
    /\ \E r \in Rates :
         /\ rates' = [rates EXCEPT ![t] = r]
         /\ local' = [local EXCEPT ![t].seen = [NoLocal.seen EXCEPT ![t] = r]]
    /\ Go(t, "gather")
    /\ UNCHANGED <<loop, step, left, iteration, counter, bold, flags, data, pr, given>>

\* The rates are copied one at a time, each under the mutex of its element.
Gather(t) ==
    LET i == local[t].at IN
    /\ pc[t] = "gather"
    /\ local' = [local EXCEPT ![t].seen[i] = IF i = t THEN @ ELSE rates[i],
                              ![t].at = IF i = NProc - 1 THEN 0 ELSE i + 1]
    /\ Go(t, IF i = NProc - 1 THEN "read" ELSE "gather")
    /\ UNCHANGED <<loop, step, left, iteration, counter, rates, bold, flags, data, pr, given>>

\* BOLD: the last chunk and its speed leave the sums, one after the other.
BoldDone(t) ==
    /\ pc[t] = "next" /\ schedule = "bold"
    /\ bold_m' = bold_m - pr[t].mine
    /\ Go(t, "slow")
    /\ UNCHANGED <<loop, step, left, iteration, counter, rates, total_speed, flags, data, pr, local, given>>

\* Mutant: the speed stays in the sum.
NoSpeed(t) == 0

OldSpeed(t) == pr[t].speed

BoldSlow(t) ==
    /\ pc[t] = "slow"
    /\ total_speed' = total_speed - OldSpeed(t)
    /\ Go(t, "read")
    /\ UNCHANGED <<loop, step, left, iteration, counter, rates, bold_m, flags, data, pr, local, given>>

\* AF: the time of the last sub-chunk joins the sums, which only give sizes.
Measure(t) ==
    /\ pc[t] = "next" /\ schedule \in Factoring
    /\ Go(t, "read")
    /\ UNCHANGED <<loop, step, left, iteration, counter, rates, bold, flags, data, pr, local, given>>
---------------------------------------------------------------------------
(* Sizes.  FirstSize is the base of AWF, halved (rounding up) batch by     *)
(* batch: the private cache of the last batch is left out.                 *)

FirstSize == CeilDiv(trip, 2 * NProc)
Halvings(batch) == IF batch > trip THEN trip ELSE batch    \* trip halvings leave 1
Base(t, remaining) ==
    IF schedule \in Chunked
      THEN IF pr[t].taken = 0 THEN FirstSize ELSE CeilDiv(remaining, 2 * NProc)
      ELSE CeilDiv(FirstSize, 2 ^ Halvings(local[t].number \div NProc))

\* Mutant: the thread does not count itself among those that have a rate.
OthersOnly(seen, t) == Cardinality({i \in Threads \ {t} : seen[i] # 0})

\* The threads known to have a rate.
Known(seen, t) == 1 + Cardinality({i \in Threads \ {t} : seen[i] # 0})

\* A thread's weight: the mean rate of those known over its own, scaled so that
\* the weights add up to their number.
Weighted(base, seen, t) == CeilDiv(base * Known(seen, t) * AllRates, seen[t] * Scale(seen))

\* Mutant: the rest of a chunk is never joined to its last sub-chunk.
NoJoin(t) == pr[t].sub

\* AF within a chunk: a rest smaller than a sub-chunk joins the last one.
SubChunk(t) ==
    LET rest == pr[t].remaining - pr[t].sub IN
    IF rest > 0 /\ rest < pr[t].sub THEN pr[t].remaining ELSE pr[t].sub

Finished(t) == pr[t].remaining = 0

\* The sizes t may compute when `remaining' iterations are left: for AF a new
\* chunk and its first sub-chunk.
Computed(t, remaining) ==
    LET weight == pr[t].weight
        base == Base(t, remaining)
        cut(c) == IF c >= Divider THEN c \div Divider ELSE c
        plain(sizes) == {[chunk |-> 0, size |-> AtLeast(s, minChunk)] : s \in sizes}
    IN CASE schedule = "awf" -> plain({IF weight = NaN THEN 0 ELSE CeilDiv(weight * base, 2)})
         [] schedule \in Rated -> plain({IF pr[t].taken = 0 THEN base
                                         ELSE Weighted(base, local[t].seen, t)})
         [] schedule = "bold" -> plain(IF remaining <= NProc THEN {1} ELSE 0 .. trip)
         [] schedule \in Factoring ->
              IF Finished(t)
                THEN {[chunk |-> c, size |-> AtLeast(cut(c), minChunk)] : c \in 1 .. remaining}
                ELSE {[chunk |-> pr[t].size, size |-> SubChunk(t)]}
---------------------------------------------------------------------------
(* Taking the chunk.                                                       *)

ReadCursor(t) ==
    /\ pc[t] = "read"
    /\ IF iteration < trip
         THEN /\ \E c \in Computed(t, trip - iteration) :
                   local' = [local EXCEPT ![t].init = iteration, ![t].size = c.size,
                                          ![t].chunk = c.chunk]
              /\ Go(t, "cas")
              /\ UNCHANGED left
         ELSE /\ local' = [local EXCEPT ![t] = NoLocal]
              /\ Go(t, IF schedule = "awf" THEN "account" ELSE "barrier")
              /\ left' = [left EXCEPT ![t] = IF schedule = "awf" THEN @ ELSE @ + 1]
    /\ UNCHANGED <<loop, step, iteration, counter, rates, bold, flags, data, pr, given>>

Speed(cs) == (1000 * cs) \div (cs * Mu + Overhead)

\* What a thread that got its chunk keeps of it.
Keep(t) ==
    LET size == local[t].size
        mine == CASE schedule = "bold" -> [pr[t] EXCEPT !.mine = size, !.speed = Speed(size)]
                  [] schedule \in Factoring ->
                       LET new == Finished(t)
                           from == IF new THEN local[t].chunk ELSE pr[t].remaining
                       IN [pr[t] EXCEPT !.size = local[t].chunk, !.remaining = from - size,
                                        !.sub = IF new THEN size ELSE @]
                  [] OTHER -> pr[t]
    IN pr' = [pr EXCEPT ![t] = [mine EXCEPT !.taken = @ + 1]]

\* Mutant: the chunk is taken although the cursor has moved.
CasAlways(t) == TRUE

CasHolds(t) == iteration = local[t].init

\* The compare-and-swap, and after it the thread's own bookkeeping.
Take(t) ==
    LET init == local[t].init
        limit == init + local[t].size
        end == IF limit > trip THEN trip ELSE limit
    IN
    /\ pc[t] = "cas"
    /\ IF ~CasHolds(t)
         THEN /\ Go(t, "read")
              /\ UNCHANGED <<iteration, data, pr, local, given>>
         ELSE /\ iteration' = limit
              /\ given' = [given EXCEPT ![step] =
                   [i \in Iterations |-> @[i] + (IF init <= i /\ i < end THEN 1 ELSE 0)]]
              /\ Keep(t)
              /\ data' = IF schedule = "awf" THEN [data EXCEPT !.workPerStep[t] = @ + end - init]
                                             ELSE data
              /\ local' = [local EXCEPT ![t] = NoLocal]
              /\ Go(t, IF schedule = "bold" THEN "speed" ELSE "next")
    /\ UNCHANGED <<loop, step, left, counter, rates, bold, flags>>

BoldSpeed(t) ==
    /\ pc[t] = "speed"
    /\ total_speed' = total_speed + pr[t].speed
    /\ Go(t, "next")
    /\ UNCHANGED <<loop, step, left, iteration, counter, rates, bold_m, flags, data, pr, local, given>>
---------------------------------------------------------------------------
(* Leaving the loop.                                                       *)

\* Mutant: the work of the step is not cleared.
NotCleared(t) == data.workPerStep[t]

\* The work that stays on the record of the step.
Cleared(t) == 0

\* AWF: later executions weigh more; the last thread to count itself goes on.
AwfAccount(t) ==
    /\ pc[t] = "account"
    /\ data' = [data EXCEPT !.sumWorkPerStep[t] = @ + data.timeStep * data.workPerStep[t],
                            !.workPerStep[t] = Cleared(t)]
    /\ AWFCounter' = AWFCounter + 1
    /\ IF AWFCounter = NProc - 1
         THEN Go(t, "reset") /\ UNCHANGED left
         ELSE Go(t, "barrier") /\ left' = [left EXCEPT ![t] = @ + 1]
    /\ UNCHANGED <<loop, step, iteration, counter, rates, bold, AWFEnter, AWFWait, pr, local, given>>

\* Mutant: the count of the threads that have left is kept.
KeepCount == UNCHANGED AWFCounter

ClearCount == AWFCounter' = 0

AwfReset(t) ==
    /\ pc[t] = "reset"
    /\ AWFEnter' = 0 /\ AWFWait' = 1 /\ ClearCount
    /\ Go(t, "update")
    /\ UNCHANGED <<loop, step, left, iteration, counter, rates, bold, data, pr, local, given>>

\* The new weights; a thread that never got work makes all of them NaN.
AwfUpdate(t) ==
    /\ pc[t] = "update"
    /\ IF \E i \in Threads : data.sumWorkPerStep[i] = 0
         THEN data' = [data EXCEPT !.weights = [i \in Threads |-> NaN]]
         ELSE \E w \in [Threads -> Weights] : data' = [data EXCEPT !.weights = w]
    /\ left' = [left EXCEPT ![t] = @ + 1]
    /\ Go(t, "barrier")
    /\ UNCHANGED <<loop, step, iteration, counter, rates, bold, flags, pr, local, given>>

\* The barrier at the end of the loop: the shared buffer was released by the
\* last thread out (DispatchBuffer) and is set up again by the first one in.
Barrier ==
    /\ \A t \in Threads : pc[t] = "barrier"
    /\ step < Steps
    /\ step' = step + 1
    /\ pc' = [t \in Threads |-> IF step' = Steps THEN "end" ELSE "init"]
    /\ iteration' = 0 /\ counter' = 0
    /\ rates' = [t \in Threads |-> 0]
    /\ bold_m' = trip /\ total_speed' = 0
    /\ UNCHANGED <<loop, left, flags, data, pr, local, given>>

Step(t) == \/ Enter(t) \/ AwfEnter(t) \/ AwfRecord(t) \/ AwfOpen(t) \/ AwfWeigh(t)
           \/ Number(t) \/ Share(t) \/ Gather(t) \/ BoldDone(t) \/ BoldSlow(t) \/ Measure(t)
           \/ ReadCursor(t) \/ Take(t) \/ BoldSpeed(t)
           \/ AwfAccount(t) \/ AwfReset(t) \/ AwfUpdate(t)

\* After the last execution nothing happens.
Finish == step = Steps /\ UNCHANGED vars

Next == Barrier \/ Finish \/ \E t \in Threads : Step(t)

Spec == Init /\ [][Next]_vars
---------------------------------------------------------------------------
\* Every variable has its type.
TypeOK ==
    /\ schedule \in Schedules /\ trip \in Trips /\ minChunk \in MinChunks
    /\ step \in 0 .. Steps
    /\ left \in [Threads -> 0 .. Steps]
    /\ iteration \in Nat /\ counter \in Nat
    /\ rates \in [Threads -> Rates \cup {0}]
    /\ bold_m \in Int /\ total_speed \in Int
    /\ AWFEnter \in 0 .. NProc /\ AWFWait \in {0, 1} /\ AWFCounter \in 0 .. NProc
    /\ data.timeStep \in 0 .. Steps
    /\ data.weights \in [Threads -> Weights \cup {2, NaN}]
    /\ given \in [Executions -> [Iterations -> Nat]]

Promise == INSTANCE WorksharingLoops WITH
             NumLoops <- Steps, trip <- [l \in Executions |-> trip]

\* Whatever the measurements, every execution hands out each iteration once, and
\* a thread leaves only when none is left.
KeepsPromise == Promise!Spec

\* AWF: between two executions the work on record is all the iterations, each
\* weighted by its execution, whoever got them.
WorkConserved ==
    (schedule = "awf" /\ \A t \in Threads : pc[t] = "barrier") =>
      /\ \A t \in Threads : data.workPerStep[t] = 0
      /\ 2 * Total(data.sumWorkPerStep) = trip * (step + 1) * (step + 2)

\* AWF-B to E: threads that know only rates equal to their own get an unweighted chunk.
EqualRatesEqualChunks ==
    schedule \in Rated => \A t \in Threads :
      LET seen == local[t].seen IN
      (pc[t] = "cas" /\ \A i \in Threads : seen[i] \in {0, seen[t]})
        => local[t].size = AtLeast(Base(t, trip - local[t].init), minChunk)

\* BOLD: the sums updated by separate atomic operations never lose a chunk:
\* bold_m covers what is not taken yet, and no speed stays behind a thread that left.
SumsBalance ==
    schedule = "bold" =>
      /\ total_speed >= 0
      /\ bold_m >= trip - iteration
      /\ (\A t \in Threads : pc[t] = "barrier") => total_speed = 0

\* AF: without a minimum the sub-chunks add up to their chunk exactly, so that
\* the thread notices its end and adapts again.
SubChunksFit ==
    (schedule \in Factoring /\ minChunk = 1) =>
      \A t \in Threads : pr[t].remaining \in 0 .. pr[t].size
===========================================================================
