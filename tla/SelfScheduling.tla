-------------------------- MODULE SelfScheduling --------------------------
(***************************************************************************)
(* How the threads of a team take chunks of one worksharing loop:          *)
(* __kmp_dispatch_next_algorithm, one case per schedule.  Many schedules   *)
(* differ only in the size of a chunk, few in how it is taken:             *)
(*   index    an atomic increment numbers the chunks, the number gives     *)
(*            the bounds (dynamic, FSC, profiling, TSS, analytical guided) *)
(*   cas      read the cursor, compute a size, compare-and-swap (guided,   *)
(*            TAP, FACa, FAC2, FAC2a, WF), some after taking a number      *)
(*   add      compute a size, then fetch-and-add it to the cursor (FAC2b,  *)
(*            RND, VISS, FISS, mFSC, TFSS, PLS), some after taking a number*)
(*   static   no shared state                                              *)
(* The sizes themselves are parameters here and formulas in ChunkSizes.    *)
(* FAC takes its chunks under a mutex and is in DispatchBuffer.            *)
(***************************************************************************)
EXTENDS Integers, FiniteSets

CONSTANTS
    NProc,             \* threads of the team
    Schedules,         \* the schedules explored
    Trips,             \* the trip counts explored
    Chunks,            \* the chunk arguments explored
    MaxNumber,         \* bound on the shared counters of one loop
    Sizes(_,_,_,_,_),  \* Sizes(s, n, c, t, x): sizes t may compute; x is its number
                       \* (numbered schedules) or the iterations remaining; none: stop
    First(_,_,_,_),    \* First(s, n, c, k): where chunk number k begins
    Past(_,_,_,_),     \* Past(s, n, c, k): one past its end, not yet cut at n
    Served(_,_,_,_)    \* Served(s, n, c, k): a chunk number k exists

Threads == 0 .. NProc - 1

Index == {"dynamic", "fsc", "profiling", "trapezoidal", "guided_analytical"}
Guided == {"guided_iterative", "guided_simd"}
CasLoop == Guided \cup {"tap", "faca", "fac2", "fac2a", "wf"}
AddOnce == {"fac2b", "rnd", "viss", "fiss", "mfsc", "tfss", "pls"}
Static == {"static_chunked", "static_balanced"}
Numbered == {"faca", "fac2", "fac2a", "wf", "fac2b", "viss", "fiss", "tfss", "pls"}

ASSUME TeamAssumption == NProc \in Nat \ {0, 1} /\ MaxNumber \in Nat
ASSUME LoopAssumption ==
    /\ Trips \subseteq Nat /\ Chunks \subseteq Nat \ {0}
    /\ Schedules \subseteq Index \cup CasLoop \cup AddOnce \cup Static
\* The point where guided changes to chunks of the given size (parm2).
Switch(c) == 2 * NProc * (c + 1)

\* What the size of a chunk is computed from: the number of the request, or
\* the iterations remaining.
Inputs(s, n, c) == IF s \in Numbered THEN 0 .. MaxNumber
                   ELSE IF s \in Guided THEN Switch(c) .. n ELSE 1 .. n

\* A guided loop below this many iterations per chunk is dynamic from the start.
Effective(s, n, c) ==
    IF s \in Guided \cup {"guided_analytical"} /\ (2 * c + 1) * NProc >= n
      THEN "dynamic" ELSE s

\* What init_algorithm leaves in the private descriptor: schedule, tc, parm1.
Descriptors == {<<Effective(s, n, c), n, IF s = "profiling" THEN 1 ELSE c>> :
                   s \in Schedules, n \in Trips, c \in Chunks}

\* Sizes stay within the loop and the chunk argument together, but those of FISS
\* grow with each batch.
Largest(s, n, c) == IF s = "fiss" THEN (n + c) * (MaxNumber + 1) ELSE n + c

\* What min_chunk guarantees: a size is never zero, except in VISS.
ASSUME SizeAssumption ==
    \A d \in Descriptors : d[1] \in CasLoop \cup AddOnce /\ d[2] > 0 =>
      \A t \in Threads : \A x \in Inputs(d[1], d[2], d[3]) :
        LET sizes == Sizes(d[1], d[2], d[3], t, x) IN
        /\ sizes \subseteq 0 .. Largest(d[1], d[2], d[3])
        /\ d[1] # "viss" => 0 \notin sizes
        /\ d[1] # "faca" => sizes # {}

VARIABLES
    schedule, tc, chunk,  \* the private descriptor: schedule, trip count, chunk
    iteration,            \* shared cursor, or the next chunk number
    counter,              \* shared number of the next request
    pc,                   \* where each thread is in its call of next
    local,                \* the locals of that call: request number, cursor read, size
    count,                \* static schedules: chunks the thread has had
    given,                \* history: given[i] = times iteration i was handed out
    lasts                 \* history: lasts[i] = chunks ending at i called the last

descr == <<schedule, tc, chunk>>
vars == <<descr, iteration, counter, pc, local, count, given, lasts>>

Iterations == 0 .. tc - 1

NoLocal == [number |-> 0, init |-> 0, size |-> 0]
Local == [number : 0 .. MaxNumber, init : Nat, size : Nat]

Init ==
    /\ \E d \in Descriptors : schedule = d[1] /\ tc = d[2] /\ chunk = d[3]
    /\ iteration = 0
    /\ counter = 0
    /\ pc = [t \in Threads |-> "next"]
    /\ local = [t \in Threads |-> NoLocal]
    /\ count = [t \in Threads |-> 0]
    /\ given = [i \in Iterations |-> 0]
    /\ lasts = [i \in Iterations |-> 0]
---------------------------------------------------------------------------
\* The chunk lo .. hi - 1, cut at the trip count, goes to a thread, with the
\* flag *p_last set to `last'.
Hand(lo, hi, last) ==
    LET end == IF hi >= tc THEN tc ELSE hi IN
    /\ given' = [i \in Iterations |-> given[i] + (IF lo <= i /\ i < end THEN 1 ELSE 0)]
    /\ lasts' = [i \in Iterations |-> lasts[i] + (IF last /\ i = end - 1 THEN 1 ELSE 0)]

\* next returns 0 to t.
Stop(t) ==
    /\ pc' = [pc EXCEPT ![t] = "left"]
    /\ local' = [local EXCEPT ![t] = NoLocal]
    /\ UNCHANGED <<given, lasts>>

\* next returns a chunk to t, which comes back for another one.
Return(t, lo, hi, last) ==
    /\ pc' = [pc EXCEPT ![t] = "next"]
    /\ local' = [local EXCEPT ![t] = NoLocal]
    /\ Hand(lo, hi, last)

ZeroTrip(t) ==
    /\ pc[t] = "next" /\ tc = 0
    /\ Stop(t)
    /\ UNCHANGED <<descr, iteration, counter, count>>

\* Index schedules: number the chunk, then derive its bounds.  A chunk that
\* turns out empty is skipped (the loop in analytical guided).
FetchIndex(t) ==
    LET k == iteration
        lo == First(schedule, tc, chunk, k)
        hi == Past(schedule, tc, chunk, k)
    IN
    /\ pc[t] = "next" /\ tc # 0 /\ schedule \in Index
    /\ k <= MaxNumber
    /\ iteration' = k + 1
    /\ IF Served(schedule, tc, chunk, k) /\ lo < tc
         THEN IF lo < hi THEN Return(t, lo, hi, hi >= tc)
                         ELSE UNCHANGED <<pc, local, given, lasts>>
         ELSE Stop(t)
    /\ UNCHANGED <<descr, counter, count>>

\* Numbered schedules: take a number first; the number tells the batch.
TakeNumber(t) ==
    /\ pc[t] = "next" /\ tc # 0 /\ schedule \in Numbered
    /\ counter <= MaxNumber
    /\ local' = [local EXCEPT ![t].number = counter]
    /\ counter' = counter + 1
    /\ pc' = [pc EXCEPT ![t] = "size"]
    /\ UNCHANGED <<descr, iteration, count, given, lasts>>

Ready(t) == pc[t] = IF schedule \in Numbered THEN "size" ELSE "next"
Computed(t, remaining) ==
    Sizes(schedule, tc, chunk, t, IF schedule \in Numbered THEN local[t].number ELSE remaining)

\* The loops around compare_and_swap: read the cursor and compute a size.
ReadCursor(t) ==
    LET remaining == tc - iteration IN
    /\ Ready(t) /\ tc # 0 /\ schedule \in CasLoop
    /\ \/ /\ remaining <= 0
          /\ Stop(t)
       \/ /\ remaining > 0 /\ schedule \in Guided /\ remaining < Switch(chunk)
          /\ pc' = [pc EXCEPT ![t] = "tail"]
          /\ UNCHANGED <<local, given, lasts>>
       \/ /\ remaining > 0 /\ ~(schedule \in Guided /\ remaining < Switch(chunk))
          /\ \/ Computed(t, remaining) = {} /\ Stop(t)
             \/ /\ \E cs \in Computed(t, remaining) :
                      local' = [local EXCEPT ![t].init = iteration, ![t].size = cs]
                /\ pc' = [pc EXCEPT ![t] = "cas"]
                /\ UNCHANGED <<given, lasts>>
    /\ UNCHANGED <<descr, iteration, counter, count>>

\* Variant: the compare-and-swap is tried again with the old value.
RetryStale(t) == UNCHANGED <<pc, local, iteration, given, lasts>>

\* Round the loop once more, with the same number.
Retry(t) ==
    /\ pc' = [pc EXCEPT ![t] = IF schedule \in Numbered THEN "size" ELSE "next"]
    /\ local' = [local EXCEPT ![t].init = 0, ![t].size = 0]
    /\ UNCHANGED <<iteration, given, lasts>>

\* Variant: the chunk is taken although the cursor has moved.
CasAlwaysSucceeds(t) ==
    /\ pc[t] = "cas"
    /\ iteration' = local[t].init + local[t].size
    /\ Return(t, local[t].init, local[t].init + local[t].size,
              schedule \notin Guided /\ local[t].init + local[t].size >= tc)
    /\ UNCHANGED <<descr, counter, count>>

\* Variant: the chunk that ends exactly at the trip count is not called the last.
CasLastOff(t) ==
    /\ pc[t] = "cas"
    /\ IF iteration = local[t].init
         THEN /\ iteration' = local[t].init + local[t].size
              /\ Return(t, local[t].init, local[t].init + local[t].size,
                        schedule \notin Guided /\ local[t].init + local[t].size > tc)
         ELSE Retry(t)
    /\ UNCHANGED <<descr, counter, count>>

\* compare_and_swap(&sh->u.s.iteration, init, init + cs): take the chunk if the
\* cursor has not moved, otherwise go round the loop, keeping the number.
\* Guided does not set the flag here: a chunk cut off below Switch remains.
Cas(t) ==
    /\ pc[t] = "cas"
    /\ IF iteration = local[t].init
         THEN /\ iteration' = local[t].init + local[t].size
              /\ Return(t, local[t].init, local[t].init + local[t].size,
                        schedule \notin Guided /\ local[t].init + local[t].size >= tc)
         ELSE Retry(t)
    /\ UNCHANGED <<descr, counter, count>>

\* Variant: a last chunk of the full size is taken for none.
TailDropsLast(t) ==
    LET remaining == tc - iteration IN
    /\ pc[t] = "tail"
    /\ iteration' = iteration + chunk
    /\ IF remaining <= chunk THEN Stop(t)
                            ELSE Return(t, iteration, iteration + chunk, FALSE)
    /\ UNCHANGED <<descr, counter, count>>

\* guided, few iterations left: fetch-and-add the chunk, then look what is left.
Tail(t) ==
    LET remaining == tc - iteration IN
    /\ pc[t] = "tail"
    /\ iteration' = iteration + chunk
    /\ IF remaining <= 0 THEN Stop(t)
                         ELSE Return(t, iteration, iteration + chunk, remaining <= chunk)
    /\ UNCHANGED <<descr, counter, count>>

\* Variant: the last chunk is not cut at the trip count.
AddNotCut(t) ==
    /\ Ready(t) /\ tc # 0 /\ schedule \in AddOnce
    /\ \E cs \in Computed(t, tc) :
          /\ iteration' = iteration + cs
          /\ IF cs > 0 THEN Return(t, iteration, iteration + cs, FALSE) ELSE Stop(t)
    /\ UNCHANGED <<descr, counter, count>>

\* fac2b ... pls: compute a size, fetch-and-add it; the flag stays 0.
AddChunk(t) ==
    /\ Ready(t) /\ tc # 0 /\ schedule \in AddOnce
    /\ \E cs \in Computed(t, tc) :
          LET start_index == iteration
              end_index == IF start_index + cs >= tc THEN tc - 1 ELSE start_index + cs - 1
          IN  /\ iteration' = start_index + cs
              /\ IF start_index <= end_index
                   THEN Return(t, start_index, start_index + cs, FALSE)
                   ELSE Stop(t)
    /\ UNCHANGED <<descr, counter, count>>

\* static_chunked, static_greedy: every NProc-th chunk, from the thread's number.
StaticChunked(t) ==
    LET lo == chunk * (count[t] + t) IN
    /\ pc[t] = "next" /\ tc # 0 /\ schedule = "static_chunked"
    /\ IF lo < tc
         THEN /\ count' = [count EXCEPT ![t] = @ + NProc]
              /\ Return(t, lo, lo + chunk, lo + chunk >= tc)
         ELSE Stop(t) /\ UNCHANGED count
    /\ UNCHANGED <<descr, iteration, counter>>

\* static_balanced: the first iteration of thread t's only chunk.
BalancedStart(t) ==
    t * (tc \div NProc) + (IF t < tc % NProc THEN t ELSE tc % NProc)

StaticBalanced(t) ==
    LET lo == IF tc < NProc THEN t ELSE BalancedStart(t)
        hi == IF tc < NProc THEN t + 1
              ELSE lo + tc \div NProc + (IF t < tc % NProc THEN 1 ELSE 0)
    IN
    /\ pc[t] = "next" /\ tc # 0 /\ schedule = "static_balanced"
    /\ IF count[t] = 0 /\ lo < tc
         THEN /\ count' = [count EXCEPT ![t] = 1]
              /\ Return(t, lo, hi, IF tc < NProc THEN t = tc - 1 ELSE t = NProc - 1)
         ELSE Stop(t) /\ UNCHANGED count
    /\ UNCHANGED <<descr, iteration, counter>>

ThreadStep(t) ==
    \/ ZeroTrip(t) \/ FetchIndex(t) \/ TakeNumber(t) \/ ReadCursor(t) \/ Cas(t)
    \/ Tail(t) \/ AddChunk(t) \/ StaticChunked(t) \/ StaticBalanced(t)

AllLeft == \A t \in Threads : pc[t] = "left"

Finished == AllLeft /\ UNCHANGED vars

Next == Finished \/ \E t \in Threads : ThreadStep(t)

Spec == Init /\ [][Next]_vars

\* A running thread keeps running.
FairSpec == Spec /\ \A t \in Threads : WF_vars(ThreadStep(t))
---------------------------------------------------------------------------
Typed ==
    /\ descr \in Descriptors
    /\ iteration \in Nat
    /\ schedule \in Index => iteration <= MaxNumber + 1
    /\ counter \in 0 .. MaxNumber + 1
    /\ pc \in [Threads -> {"next", "size", "cas", "tail", "left"}]
    /\ local \in [Threads -> Local]
    /\ count \in [Threads -> Nat]
    /\ given \in [Iterations -> Nat]
    /\ lasts \in [Iterations -> Nat]

\* No iteration is handed to two threads, or twice to one, whatever the schedule.
AtMostOnce == \A i \in Iterations : given[i] <= 1

\* Once next has returned 0 to every thread, every iteration has been handed
\* out: no schedule loses iterations, whichever thread was told to stop first.
AllHandedOut == AllLeft => \A i \in Iterations : given[i] = 1

\* The loop has one last chunk: the flag *p_last, on which lastprivate relies,
\* is set for the chunk that ends the loop and for no other.
LastFlag ==
    /\ \A i \in Iterations : lasts[i] <= (IF i = tc - 1 THEN 1 ELSE 0)
    /\ AllLeft /\ tc > 0 => lasts[tc - 1] = 1

\* The flag of the last chunk is right for every schedule that ever sets it: the
\* index schedules, the compare-and-swap loops and the static ones.
FlagSchedules == Index \cup CasLoop \cup Static
FlagIfSet == schedule \in FlagSchedules => LastFlag

\* Every thread is told to stop: the compare-and-swap loops end.
AllLeave == <>AllLeft

\* Where chunk number k begins, or the end of the loop.
Edge(s, n, c, k) ==
    IF Served(s, n, c, k) /\ First(s, n, c, k) < n THEN First(s, n, c, k) ELSE n

\* The cursor does not run away: a thread that finds it past the end moves it once
\* more, by one number or one chunk, and is told to stop.
Bounded ==
    IF schedule \in Index
      THEN iteration > NProc => Edge(schedule, tc, chunk, iteration - NProc - 1) < tc
      ELSE iteration <= tc + (NProc + 1) * Largest(schedule, tc, chunk)

\* Type invariant.
TypeOK == Typed /\ Bounded

\* Where the first iteration not handed out is.
Cursor == IF schedule \in Index THEN Edge(schedule, tc, chunk, iteration) ELSE iteration

\* Everything below the cursor has been handed out once, nothing above it; a
\* thread about to compare-and-swap has read a cursor that was right once and
\* wants at least one iteration; and once a thread has been told to stop, the
\* cursor is at the end (but FACa and VISS stop threads on other grounds).
CursorExact ==
    schedule \notin Static =>
        /\ \A i \in Iterations : given[i] = IF i < Cursor THEN 1 ELSE 0
        /\ \A t \in Threads : pc[t] = "cas" =>
              /\ schedule \in CasLoop
              /\ local[t].init <= iteration /\ local[t].init < tc
              /\ local[t].size > 0
        /\ \A t \in Threads : pc[t] = "tail" => schedule \in Guided
        /\ \A t \in Threads : pc[t] = "left" /\ schedule \notin {"faca", "viss"} => Cursor >= tc

SharesCursor == schedule \notin Static \cup {"faca", "viss"}

Promise == INSTANCE WorksharingLoops WITH
    NumLoops <- 1,
    trip <- [l \in {0} |-> tc],
    left <- [t \in Threads |-> IF pc[t] = "left" THEN 1 ELSE 0],
    given <- [l \in {0} |-> given]

\* The schedules that share a cursor keep the dispatcher's promise, that of
\* leaving no thread go before all is handed out included.  FACa is not one: a
\* thread may be told to stop while the last chunks are still being taken.
KeepsPromise ==
    /\ SharesCursor => Promise!Init
    /\ [][SharesCursor => Promise!Next]_(Promise!vars)
===========================================================================
