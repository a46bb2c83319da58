----------------------- MODULE SelfScheduling_proof -----------------------
(***************************************************************************)
(* Proofs about next, for every schedule, team, trip count and chunk: from *)
(* the sizes being positive and the chunk numbers dividing the loop        *)
(* (SizeAssumption, BlockAssumption) it follows that no interleaving hands *)
(* an iteration out twice or loses one, that one chunk is called the last, *)
(* and that the ordered regions are executed in the order of the loop.     *)
(***************************************************************************)
EXTENDS OrderedLoops, ContiguousChunks, FiniteSetTheorems, WellFoundedInduction,
        NaturalsInduction, TLAPS

PcValues == {"next", "size", "cas", "tail", "left"}
AllSchedules == Index \cup CasLoop \cup AddOnce \cup Static

\* What the private descriptor may contain.
LEMMA DescriptorFacts ==
    ASSUME descr \in Descriptors
    PROVE  tc \in Nat /\ chunk \in Nat \ {0} /\ schedule \in AllSchedules
<1>1. PICK s \in Schedules, n \in Trips, c \in Chunks :
        <<schedule, tc, chunk>> = <<Effective(s, n, c), n, IF s = "profiling" THEN 1 ELSE c>>
  BY DEF Descriptors, descr
<1>2. schedule = Effective(s, n, c) /\ tc = n /\ chunk = IF s = "profiling" THEN 1 ELSE c
  BY <1>1
<1>3. tc \in Nat /\ chunk \in Nat \ {0}
  BY <1>2, LoopAssumption
<1>4. schedule \in {"dynamic", s}
  BY <1>2 DEF Effective
<1> QED BY <1>3, <1>4, LoopAssumption DEF AllSchedules, Index

\* SizeAssumption for the loop at hand.
LEMMA SizeFacts ==
    ASSUME descr \in Descriptors, schedule \in CasLoop \cup AddOnce, tc > 0,
           NEW t \in Threads, NEW x \in Inputs(schedule, tc, chunk)
    PROVE  /\ Sizes(schedule, tc, chunk, t, x) \subseteq Nat
           /\ schedule # "viss" => 0 \notin Sizes(schedule, tc, chunk, t, x)
           /\ schedule # "faca" => Sizes(schedule, tc, chunk, t, x) # {}
<1>1. descr[1] = schedule /\ descr[2] = tc /\ descr[3] = chunk
  BY DEF descr
<1> HIDE DEF descr
<1>2. descr[1] \in CasLoop \cup AddOnce /\ descr[2] > 0 /\ x \in Inputs(descr[1], descr[2], descr[3])
  BY <1>1
<1>3. /\ Sizes(descr[1], descr[2], descr[3], t, x) \subseteq Nat
      /\ descr[1] # "viss" => 0 \notin Sizes(descr[1], descr[2], descr[3], t, x)
      /\ descr[1] # "faca" => Sizes(descr[1], descr[2], descr[3], t, x) # {}
  BY <1>2, SizeAssumption
<1> QED BY <1>1, <1>3

\* BlockAssumption for the loop at hand.
LEMMA EdgeFacts ==
    ASSUME descr \in Descriptors, schedule \in Index
    PROVE  /\ Edge(schedule, tc, chunk, 0) = 0
           /\ \A k \in 0 .. MaxNumber + 1 : Edge(schedule, tc, chunk, k) \in 0 .. tc
           /\ \A k \in 0 .. MaxNumber :
                /\ Edge(schedule, tc, chunk, k) < tc =>
                     /\ Past(schedule, tc, chunk, k) \in Nat
                     /\ Edge(schedule, tc, chunk, k) <= Past(schedule, tc, chunk, k)
                     /\ Edge(schedule, tc, chunk, k + 1) =
                          IF Past(schedule, tc, chunk, k) < tc
                            THEN Past(schedule, tc, chunk, k) ELSE tc
                /\ Edge(schedule, tc, chunk, k) = tc => Edge(schedule, tc, chunk, k + 1) = tc
<1>1. descr[1] = schedule /\ descr[2] = tc /\ descr[3] = chunk
  BY DEF descr
<1> HIDE DEF descr
<1> DEFINE edge(k) == Edge(descr[1], descr[2], descr[3], k)
           past(k) == Past(descr[1], descr[2], descr[3], k)
<1>2. /\ edge(0) = 0
      /\ \A k \in 0 .. MaxNumber + 1 : edge(k) \in 0 .. descr[2]
      /\ \A k \in 0 .. MaxNumber :
            /\ edge(k) < descr[2] => /\ past(k) \in Nat /\ edge(k) <= past(k)
                                     /\ edge(k + 1) = IF past(k) < descr[2] THEN past(k) ELSE descr[2]
            /\ edge(k) = descr[2] => edge(k + 1) = descr[2]
  BY <1>1, BlockAssumption
<1> QED BY <1>1, <1>2

\* Handing out a chunk keeps the histories functions on the iterations.
LEMMA HandTypes ==
    ASSUME NEW lo, NEW hi, NEW last, Hand(lo, hi, last),
           given \in [Iterations -> Nat], lasts \in [Iterations -> Nat]
    PROVE  given' \in [Iterations -> Nat] /\ lasts' \in [Iterations -> Nat]
<1> DEFINE end == IF hi >= tc THEN tc ELSE hi
           in(i) == lo <= i /\ i < end
           flagged(i) == last /\ i = end - 1
<1>1. /\ given' = [i \in Iterations |-> given[i] + (IF in(i) THEN 1 ELSE 0)]
      /\ lasts' = [i \in Iterations |-> lasts[i] + (IF flagged(i) THEN 1 ELSE 0)]
  BY DEF Hand
<1> HIDE DEF in, flagged
<1> QED BY <1>1

\* Handing out the chunk that begins at the first iteration not handed out.
LEMMA HandFacts ==
    ASSUME tc \in Nat, NEW lo \in Nat, NEW hi \in Nat, NEW last, lo <= hi, Hand(lo, hi, last),
           given \in [Iterations -> Nat], \A i \in Iterations : given[i] = IF i < lo THEN 1 ELSE 0
    PROVE  \A i \in Iterations : given'[i] = IF i < hi THEN 1 ELSE 0
<1> DEFINE end == IF hi >= tc THEN tc ELSE hi
<1>1. given' = [i \in Iterations |-> given[i] + (IF lo <= i /\ i < end THEN 1 ELSE 0)]
  BY DEF Hand
<1>2. ASSUME NEW i \in Iterations PROVE given'[i] = IF i < hi THEN 1 ELSE 0
  <2>1. i \in Nat /\ i < tc
    BY DEF Iterations
  <2>2. given'[i] = given[i] + (IF lo <= i /\ i < end THEN 1 ELSE 0)
    BY <1>1
  <2> QED BY <2>1, <2>2
<1> QED BY <1>2
---------------------------------------------------------------------------
(***************************************************************************)
(* Types.                                                                  *)
(***************************************************************************)
\* A loop begins with a descriptor from init and untouched shared counters.
LEMMA TypedInit == Init => Typed
<1> SUFFICES ASSUME Init PROVE Typed
  OBVIOUS
<1>1. PICK d \in Descriptors : schedule = d[1] /\ tc = d[2] /\ chunk = d[3]
  BY DEF Init
<1>2. d = <<d[1], d[2], d[3]>>
  BY DEF Descriptors
<1>3. descr \in Descriptors
  BY <1>1, <1>2 DEF descr
<1>4. NoLocal \in Local
  BY TeamAssumption DEF NoLocal, Local
<1> QED BY <1>3, <1>4, TeamAssumption DEF Init, Typed

\* What next changes when it returns to t, with or without a chunk.
LEMMA StopTypes ==
    ASSUME Typed, NEW t \in Threads, Stop(t), UNCHANGED descr
    PROVE  /\ pc' \in [Threads -> PcValues] /\ local' \in [Threads -> Local]
           /\ given' \in [Iterations' -> Nat] /\ lasts' \in [Iterations' -> Nat]
<1>1. NoLocal \in Local
  BY TeamAssumption DEF NoLocal, Local
<1>2. Iterations' = Iterations
  BY DEF descr, Iterations
<1> QED BY <1>1, <1>2 DEF Stop, Typed, PcValues

\* The same for a chunk, whatever its bounds.
LEMMA ReturnTypes ==
    ASSUME Typed, NEW t \in Threads, NEW lo, NEW hi, NEW last, Return(t, lo, hi, last),
           UNCHANGED descr
    PROVE  /\ pc' \in [Threads -> PcValues] /\ local' \in [Threads -> Local]
           /\ given' \in [Iterations' -> Nat] /\ lasts' \in [Iterations' -> Nat]
<1>1. NoLocal \in Local
  BY TeamAssumption DEF NoLocal, Local
<1>2. Iterations' = Iterations
  BY DEF descr, Iterations
<1>3. given \in [Iterations -> Nat] /\ lasts \in [Iterations -> Nat] /\ Hand(lo, hi, last)
  BY DEF Typed, Return
<1>4. given' \in [Iterations -> Nat] /\ lasts' \in [Iterations -> Nat]
  BY <1>3, HandTypes
<1>5. pc' \in [Threads -> PcValues] /\ local' \in [Threads -> Local]
  BY <1>1 DEF Return, Typed, PcValues
<1> QED BY <1>2, <1>4, <1>5

\* The number taken, or the iterations remaining, is one SizeAssumption is about.
LEMMA InputFacts ==
    ASSUME Typed, NEW t \in Threads, tc # 0,
           NEW remaining \in 1 .. tc, schedule \in Guided => remaining >= Switch(chunk)
    PROVE  (IF schedule \in Numbered THEN local[t].number ELSE remaining)
              \in Inputs(schedule, tc, chunk)
<1>1. tc \in Nat /\ chunk \in Nat \ {0} /\ tc > 0
  BY DescriptorFacts DEF Typed
<1>2. local[t].number \in 0 .. MaxNumber
  BY DEF Typed, Local
<1>3. Switch(chunk) \in Nat
  BY <1>1, TeamAssumption DEF Switch
<1>4. CASE schedule \in Numbered
  BY <1>2, <1>4 DEF Inputs
<1>5. CASE schedule \notin Numbered /\ schedule \in Guided
  <2>1. remaining \in Switch(chunk) .. tc
    BY <1>1, <1>3, <1>5
  <2> QED BY <1>5, <2>1 DEF Inputs
<1>6. CASE schedule \notin Numbered /\ schedule \notin Guided
  BY <1>6 DEF Inputs
<1> QED BY <1>4, <1>5, <1>6

\* What a thread may compute as a size is a natural number, and not 0.
LEMMA ComputedFacts ==
    ASSUME Typed, NEW t \in Threads, tc # 0, schedule \in CasLoop \cup AddOnce,
           NEW remaining \in 1 .. tc, schedule \in Guided => remaining >= Switch(chunk),
           NEW cs \in Computed(t, remaining)
    PROVE  cs \in Nat /\ (schedule # "viss" => cs > 0)
<1>1. tc \in Nat /\ tc > 0
  BY DescriptorFacts DEF Typed
<1> DEFINE x == IF schedule \in Numbered THEN local[t].number ELSE remaining
<1>2. x \in Inputs(schedule, tc, chunk)
  BY InputFacts
<1>3. cs \in Sizes(schedule, tc, chunk, t, x)
  BY DEF Computed
<1>4. descr \in Descriptors
  BY DEF Typed
<1> HIDE DEF x
<1> QED BY <1>1, <1>2, <1>3, <1>4, SizeFacts

\* Only FACa stops a thread because it computes no size.
LEMMA ComputedSome ==
    ASSUME Typed, NEW t \in Threads, tc # 0, schedule \in CasLoop \cup AddOnce,
           NEW remaining \in 1 .. tc, schedule \in Guided => remaining >= Switch(chunk),
           Computed(t, remaining) = {}
    PROVE  schedule = "faca"
<1>1. tc \in Nat /\ chunk \in Nat \ {0} /\ tc > 0
  BY DescriptorFacts DEF Typed
<1> DEFINE x == IF schedule \in Numbered THEN local[t].number ELSE remaining
<1>2. x \in Inputs(schedule, tc, chunk)
  BY InputFacts
<1>3. Sizes(schedule, tc, chunk, t, x) = {}
  BY DEF Computed
<1>4. descr \in Descriptors
  BY DEF Typed
<1> HIDE DEF x
<1> QED BY <1>1, <1>2, <1>3, <1>4, SizeFacts

\* The descriptor is private to a call of init: next does not change it.
LEMMA TypedFrame ==
    ASSUME Typed, UNCHANGED descr, iteration' \in Nat,
           schedule \in Index => iteration' <= MaxNumber + 1,
           counter' \in 0 .. MaxNumber + 1, count' \in [Threads -> Nat],
           pc' \in [Threads -> PcValues], local' \in [Threads -> Local],
           given' \in [Iterations' -> Nat], lasts' \in [Iterations' -> Nat]
    PROVE  Typed'
  BY DEF Typed, descr, PcValues

\* A step that returns to t, in terms of the variables it does not go through
\* Stop and Return.
LEMMA TypedReturn ==
    ASSUME Typed, UNCHANGED descr, iteration' \in Nat,
           schedule \in Index => iteration' <= MaxNumber + 1,
           counter' = counter, count' \in [Threads -> Nat], NEW t \in Threads,
           Stop(t) \/ \E lo, hi, last : Return(t, lo, hi, last)
    PROVE  Typed'
<1>1. /\ pc' \in [Threads -> PcValues] /\ local' \in [Threads -> Local]
      /\ given' \in [Iterations' -> Nat] /\ lasts' \in [Iterations' -> Nat]
  BY StopTypes, ReturnTypes
<1>2. counter' \in 0 .. MaxNumber + 1
  BY DEF Typed
<1> QED BY <1>1, <1>2, TypedFrame

\* Every step of next keeps the types; a compare-and-swap needs CursorExact to
\* know that no index schedule, whose cursor is bounded, is at it.
LEMMA TypedNext == Typed /\ CursorExact /\ [Next]_vars => Typed'
<1> SUFFICES ASSUME Typed, CursorExact, [Next]_vars PROVE Typed'
  OBVIOUS
<1> USE TeamAssumption
<1>0. /\ tc \in Nat /\ chunk \in Nat \ {0} /\ iteration \in Nat
      /\ schedule \in Index => iteration <= MaxNumber + 1
      /\ counter \in 0 .. MaxNumber + 1 /\ count \in [Threads -> Nat]
      /\ pc \in [Threads -> PcValues] /\ local \in [Threads -> Local]
      /\ given \in [Iterations -> Nat] /\ lasts \in [Iterations -> Nat]
  BY DescriptorFacts DEF Typed, PcValues
<1>1. ASSUME NEW t \in Threads, ThreadStep(t) PROVE Typed'
  <2>0. UNCHANGED descr /\ Iterations' = Iterations
    <3>1. UNCHANGED descr
      BY <1>1 DEF ThreadStep, ZeroTrip, FetchIndex, TakeNumber, ReadCursor, Cas, Tail,
                  AddChunk, StaticChunked, StaticBalanced
    <3> QED BY <3>1 DEF descr, Iterations
  <2>1. CASE ZeroTrip(t)
    BY <1>0, <2>0, <2>1, TypedReturn DEF ZeroTrip
  <2>2. CASE FetchIndex(t)
    <3>1. iteration' = iteration + 1 /\ counter' = counter /\ count' = count
          /\ iteration <= MaxNumber
      BY <1>0, <2>2 DEF FetchIndex
    <3>2. CASE UNCHANGED <<pc, local, given, lasts>>
      BY <1>0, <2>0, <3>1, <3>2, TypedFrame
    <3>3. CASE Stop(t) \/ \E lo, hi, last : Return(t, lo, hi, last)
      BY <1>0, <2>0, <3>1, <3>3, TypedReturn
    <3> QED BY <2>2, <3>2, <3>3 DEF FetchIndex
  <2>3. CASE TakeNumber(t)
    <3>1. /\ counter' \in 0 .. MaxNumber + 1 /\ counter \in 0 .. MaxNumber
          /\ UNCHANGED <<iteration, count, given, lasts>>
          /\ pc' \in [Threads -> PcValues]
      BY <1>0, <2>3 DEF TakeNumber, PcValues
    <3>2. local' \in [Threads -> Local]
      BY <1>0, <2>3, <3>1 DEF TakeNumber, Local
    <3> QED BY <1>0, <2>0, <3>1, <3>2, TypedFrame
  <2>4. CASE ReadCursor(t)
    <3>1. UNCHANGED <<iteration, counter, count>> /\ schedule \in CasLoop /\ tc # 0
      BY <2>4 DEF ReadCursor
    <3>2. CASE Stop(t)
      BY <1>0, <2>0, <3>1, <3>2, TypedReturn
    <3>3. CASE pc' = [pc EXCEPT ![t] = "tail"] /\ UNCHANGED <<local, given, lasts>>
      BY <1>0, <2>0, <3>1, <3>3, TypedFrame DEF PcValues
    <3>4. CASE /\ tc - iteration > 0
               /\ ~(schedule \in Guided /\ tc - iteration < Switch(chunk))
               /\ \E cs \in Computed(t, tc - iteration) :
                    local' = [local EXCEPT ![t].init = iteration, ![t].size = cs]
               /\ pc' = [pc EXCEPT ![t] = "cas"]
               /\ UNCHANGED <<given, lasts>>
      <4>1. PICK cs \in Computed(t, tc - iteration) :
              local' = [local EXCEPT ![t].init = iteration, ![t].size = cs]
        BY <3>4
      <4>2. Switch(chunk) \in Nat
        BY <1>0 DEF Switch
      <4>3. tc - iteration \in 1 .. tc
            /\ (schedule \in Guided => tc - iteration >= Switch(chunk))
        BY <1>0, <3>4, <4>2
      <4>4. cs \in Nat
        BY <3>1, <4>3, ComputedFacts
      <4>5. local' \in [Threads -> Local]
        BY <1>0, <4>1, <4>4 DEF Local
      <4> QED BY <1>0, <2>0, <3>1, <3>4, <4>5, TypedFrame DEF PcValues
    <3> QED BY <2>4, <3>2, <3>3, <3>4 DEF ReadCursor
  <2>5. CASE Cas(t)
    <3>1. UNCHANGED <<counter, count>> /\ pc[t] = "cas"
      BY <2>5 DEF Cas
    <3>2. schedule \notin Index
      BY <3>1 DEF CursorExact, Static, CasLoop, Guided, Index
    <3>3. CASE Retry(t)
      <4>1. pc' \in [Threads -> PcValues] /\ local' \in [Threads -> Local]
        BY <1>0, <3>3 DEF Retry, PcValues, Local
      <4> QED BY <1>0, <2>0, <3>1, <3>3, <4>1, TypedFrame DEF Retry
    <3>4. CASE iteration = local[t].init
      <4>1. local[t].init + local[t].size \in Nat
        BY <1>0 DEF Local
      <4>2. /\ iteration' = local[t].init + local[t].size
            /\ \E lo, hi, last : Return(t, lo, hi, last)
        BY <2>5, <3>4 DEF Cas
      <4> QED BY <1>0, <2>0, <3>1, <3>2, <4>1, <4>2, TypedReturn
    <3> QED BY <2>5, <3>3, <3>4 DEF Cas
  <2>6. CASE Tail(t)
    <3>1. UNCHANGED <<counter, count>> /\ pc[t] = "tail" /\ iteration' = iteration + chunk
      BY <2>6 DEF Tail
    <3>2. schedule \notin Index
      BY <3>1 DEF CursorExact, Static, Guided, Index
    <3>3. Stop(t) \/ \E lo, hi, last : Return(t, lo, hi, last)
      BY <2>6 DEF Tail
    <3> QED BY <1>0, <2>0, <3>1, <3>2, <3>3, TypedReturn
  <2>7. CASE AddChunk(t)
    <3>1. UNCHANGED <<counter, count>> /\ schedule \in AddOnce /\ tc \in 1 .. tc
      BY <1>0, <2>7 DEF AddChunk
    <3>2. schedule \notin Index /\ schedule \notin Guided
      BY <3>1 DEF AddOnce, Index, Guided
    <3>3. PICK cs \in Computed(t, tc) :
            /\ iteration' = iteration + cs
            /\ Stop(t) \/ \E lo, hi, last : Return(t, lo, hi, last)
      BY <2>7 DEF AddChunk
    <3>4. cs \in Nat
      BY <1>0, <3>1, <3>2, ComputedFacts
    <3> QED BY <1>0, <2>0, <3>1, <3>2, <3>3, <3>4, TypedReturn
  <2>8. CASE StaticChunked(t)
    <3>1. /\ UNCHANGED <<iteration, counter>>
          /\ Stop(t) \/ \E lo, hi, last : Return(t, lo, hi, last)
          /\ count' \in {count, [count EXCEPT ![t] = @ + NProc]}
      BY <2>8 DEF StaticChunked
    <3>2. count' \in [Threads -> Nat]
      BY <1>0, <3>1
    <3> QED BY <1>0, <2>0, <3>1, <3>2, TypedReturn
  <2>9. CASE StaticBalanced(t)
    <3>1. /\ UNCHANGED <<iteration, counter>>
          /\ Stop(t) \/ \E lo, hi, last : Return(t, lo, hi, last)
          /\ count' \in {count, [count EXCEPT ![t] = 1]}
      BY <2>9 DEF StaticBalanced
    <3>2. count' \in [Threads -> Nat]
      BY <1>0, <3>1
    <3> QED BY <1>0, <2>0, <3>1, <3>2, TypedReturn
  <2> QED BY <1>1, <2>1, <2>2, <2>3, <2>4, <2>5, <2>6, <2>7, <2>8, <2>9 DEF ThreadStep
<1>2. CASE UNCHANGED vars
  BY <1>0, <1>2, TypedFrame DEF vars, Iterations, descr
<1> QED BY <1>1, <1>2 DEF Next, Finished
---------------------------------------------------------------------------
(***************************************************************************)
(* The cursor.  A step either keeps what is below the cursor, or hands out *)
(* exactly what it passes over.                                            *)
(***************************************************************************)
\* CursorExact in parts: what is handed out; the threads about to take a chunk
\* by compare-and-swap or fetch-and-add; the threads told to stop.
GivenExact == \A i \in Iterations : given[i] = IF i < Cursor THEN 1 ELSE 0
Poised(t) == /\ pc[t] = "cas" => /\ schedule \in CasLoop
                                 /\ local[t].init <= iteration /\ local[t].init < tc
                                 /\ local[t].size > 0
             /\ pc[t] = "tail" => schedule \in Guided
StopsAtEnd == \A t \in Threads : pc[t] = "left" /\ schedule \notin {"faca", "viss"} => Cursor >= tc

\* The parts are CursorExact.
LEMMA CursorParts ==
    CursorExact <=> (schedule \notin Static => GivenExact /\ (\A t \in Threads : Poised(t)) /\ StopsAtEnd)
  BY DEF CursorExact, GivenExact, Poised, StopsAtEnd

\* The cursor is a number; that of an index schedule stays within the loop.
LEMMA CursorNat == Typed => Cursor \in Nat /\ (schedule \in Index => Cursor <= tc)
<1> SUFFICES ASSUME Typed PROVE Cursor \in Nat /\ (schedule \in Index => Cursor <= tc)
  OBVIOUS
<1>1. tc \in Nat /\ iteration \in Nat /\ descr \in Descriptors
  BY DescriptorFacts DEF Typed
<1>2. CASE schedule \in Index
  <2>1. iteration \in 0 .. MaxNumber + 1
    BY <1>1, <1>2, TeamAssumption DEF Typed
  <2>2. Edge(schedule, tc, chunk, iteration) \in 0 .. tc
    BY <1>1, <1>2, <2>1, EdgeFacts
  <2> QED BY <1>1, <1>2, <2>2 DEF Cursor
<1>3. CASE schedule \notin Index
  BY <1>1, <1>3 DEF Cursor
<1> QED BY <1>2, <1>3

\* The other threads are where they were, and their reading of the cursor is
\* still one of the past.
LEMMA OthersPoised ==
    ASSUME Typed, NEW t \in Threads, UNCHANGED descr, iteration' \in Nat, iteration <= iteration',
           NEW u \in Threads, pc'[u] = pc[u], local'[u] = local[u], Poised(u)
    PROVE  Poised(u)'
<1>1. iteration \in Nat /\ local[u].init \in Nat
  BY DEF Typed, Local
<1> QED BY <1>1 DEF Poised, descr

\* Where a chunk that goes out ends, the cursor is now.
PassesOver(hi) == Cursor' = hi \/ (hi >= tc /\ Cursor' >= tc)

\* A step that hands out what lies between the cursor and hi and moves the
\* cursor to hi keeps CursorExact.
LEMMA CursorReturn ==
    ASSUME Typed, Typed', CursorExact, schedule \notin Static, UNCHANGED descr,
           NEW t \in Threads, NEW hi \in Nat, NEW last, Return(t, Cursor, hi, last),
           Cursor <= hi, PassesOver(hi), iteration <= iteration'
    PROVE  CursorExact'
<1>0. /\ tc \in Nat /\ iteration \in Nat /\ iteration' \in Nat
      /\ given \in [Iterations -> Nat] /\ pc \in [Threads -> PcValues]
      /\ Cursor \in Nat /\ tc' = tc /\ Iterations' = Iterations
  BY DescriptorFacts, CursorNat DEF Typed, PcValues, descr, Iterations
<1>a. Cursor' \in Nat
  <2>1. (Typed => Cursor \in Nat /\ (schedule \in Index => Cursor <= tc))'
    BY CursorNat, PTL
  <2> QED BY <2>1
<1>1. GivenExact /\ (\A u \in Threads : Poised(u)) /\ StopsAtEnd
  BY CursorParts
<1>2. GivenExact'
  <2>1. \A i \in Iterations : given[i] = IF i < Cursor THEN 1 ELSE 0
    BY <1>1 DEF GivenExact
  <2>2. Hand(Cursor, hi, last)
    BY DEF Return
  <2> DEFINE lo == Cursor
  <2>3. lo \in Nat /\ lo <= hi /\ Hand(lo, hi, last) /\ \A i \in Iterations : given[i] = IF i < lo THEN 1 ELSE 0
    BY <1>0, <2>1, <2>2
  <2> HIDE DEF lo
  <2>4. \A i \in Iterations : given'[i] = IF i < hi THEN 1 ELSE 0
    BY <1>0, <2>3, HandFacts
  <2>5. ASSUME NEW i \in Iterations PROVE given'[i] = IF i < Cursor' THEN 1 ELSE 0
    <3>1. i \in Nat /\ i < tc
      BY <1>0 DEF Iterations
    <3> QED BY <1>0, <1>a, <2>4, <3>1 DEF PassesOver
  <2> QED BY <1>0, <2>5 DEF GivenExact
<1>3. ASSUME NEW u \in Threads PROVE Poised(u)'
  <2>1. CASE u = t
    BY <1>0, <2>1 DEF Return, Poised
  <2>2. CASE u # t
    <3>1. pc'[u] = pc[u] /\ local'[u] = local[u]
      BY <2>2 DEF Return, Typed
    <3> QED BY <1>0, <1>1, <3>1, OthersPoised
  <2> QED BY <2>1, <2>2
<1>4. StopsAtEnd'
  <2>1. ASSUME NEW u \in Threads, pc'[u] = "left", schedule' \notin {"faca", "viss"} PROVE Cursor' >= tc'
    <3>1. pc[u] = "left" /\ schedule \notin {"faca", "viss"}
      BY <1>0, <2>1 DEF Return, descr
    <3>2. Cursor >= tc
      BY <1>1, <3>1 DEF StopsAtEnd
    <3> QED BY <1>0, <1>a, <3>2 DEF PassesOver
  <2> QED BY <2>1 DEF StopsAtEnd
<1>5. schedule' = schedule
  BY DEF descr
<1> QED BY <1>2, <1>3, <1>4, <1>5 DEF CursorExact, GivenExact, Poised, StopsAtEnd

\* A step that hands nothing out may move the cursor beyond the end only, and
\* stops a thread only there.
LEMMA CursorKeep ==
    ASSUME Typed, Typed', CursorExact, schedule \notin Static, UNCHANGED descr,
           NEW t \in Threads, UNCHANGED given, iteration <= iteration', PassesOver(Cursor),
           \A u \in Threads \ {t} : pc'[u] = pc[u] /\ local'[u] = local[u],
           Poised(t)', pc'[t] = "left" /\ schedule \notin {"faca", "viss"} => Cursor >= tc
    PROVE  CursorExact'
<1>0. /\ tc \in Nat /\ iteration \in Nat /\ iteration' \in Nat
      /\ Cursor \in Nat /\ tc' = tc /\ Iterations' = Iterations
      /\ schedule' = schedule
  BY DescriptorFacts, CursorNat DEF Typed, descr, Iterations
<1>a. Cursor' \in Nat
  <2>1. (Typed => Cursor \in Nat /\ (schedule \in Index => Cursor <= tc))'
    BY CursorNat, PTL
  <2> QED BY <2>1
<1>1. GivenExact /\ (\A u \in Threads : Poised(u)) /\ StopsAtEnd
  BY CursorParts
<1>2. GivenExact'
  <2>1. ASSUME NEW i \in Iterations PROVE given'[i] = IF i < Cursor' THEN 1 ELSE 0
    <3>1. i \in Nat /\ i < tc /\ given[i] = IF i < Cursor THEN 1 ELSE 0
      BY <1>0, <1>1 DEF Iterations, GivenExact
    <3> QED BY <1>0, <1>a, <3>1 DEF PassesOver
  <2> QED BY <1>0, <2>1 DEF GivenExact
<1>3. ASSUME NEW u \in Threads PROVE Poised(u)'
  <2>1. CASE u # t
    BY <1>0, <1>1, <2>1, OthersPoised
  <2> QED BY <2>1
<1>4. StopsAtEnd'
  <2>1. ASSUME NEW u \in Threads, pc'[u] = "left", schedule' \notin {"faca", "viss"} PROVE Cursor' >= tc'
    <3>1. Cursor >= tc
      BY <1>0, <1>1, <2>1 DEF StopsAtEnd
    <3> QED BY <1>0, <1>a, <3>1 DEF PassesOver
  <2> QED BY <2>1 DEF StopsAtEnd
<1> QED BY <1>0, <1>2, <1>3, <1>4 DEF CursorExact, GivenExact, Poised, StopsAtEnd

\* At the start nothing is handed out and the cursor is at 0.
LEMMA CursorInit == Init => CursorExact
<1> SUFFICES ASSUME Init PROVE CursorExact
  OBVIOUS
<1>1. descr \in Descriptors
  BY TypedInit DEF Typed
<1>2. Cursor = 0
  BY <1>1, EdgeFacts DEF Init, Cursor
<1>3. \A i \in Iterations : given[i] = 0 /\ ~(i < 0)
  BY DEF Init, Iterations
<1> QED BY <1>2, <1>3 DEF Init, CursorExact

\* Every step of next keeps CursorExact: one case per action.
LEMMA CursorNext == Typed /\ Typed' /\ CursorExact /\ [Next]_vars => CursorExact'
<1> SUFFICES ASSUME Typed, Typed', CursorExact, [Next]_vars, schedule \notin Static PROVE CursorExact'
  BY DEF CursorExact, Next, Finished, ThreadStep, ZeroTrip, FetchIndex, TakeNumber, ReadCursor,
         Cas, Tail, AddChunk, StaticChunked, StaticBalanced, descr, vars
<1>0. /\ tc \in Nat /\ chunk \in Nat \ {0} /\ iteration \in Nat /\ iteration' \in Nat
      /\ Cursor \in Nat /\ descr \in Descriptors
      /\ local \in [Threads -> Local] /\ pc \in [Threads -> PcValues]
  BY DescriptorFacts, CursorNat DEF Typed, PcValues
<1>1. \A u \in Threads : Poised(u)
  BY CursorParts
<1>2. ASSUME NEW t \in Threads, ThreadStep(t) PROVE CursorExact'
  <2>0. UNCHANGED descr /\ schedule' = schedule /\ tc' = tc
    <3>1. UNCHANGED descr
      BY <1>2 DEF ThreadStep, ZeroTrip, FetchIndex, TakeNumber, ReadCursor, Cas, Tail,
                  AddChunk, StaticChunked, StaticBalanced
    <3> QED BY <3>1 DEF descr
  <2>a. UNCHANGED iteration => PassesOver(Cursor)
    BY <2>0 DEF PassesOver, Cursor, descr
  \* Where the cursor stays, or passes the end only, a thread may stop.
  <2>b. ASSUME Stop(t), iteration <= iteration', PassesOver(Cursor),
               schedule \notin {"faca", "viss"} => Cursor >= tc
        PROVE  CursorExact'
    <3>1. /\ UNCHANGED given /\ Poised(t)'
          /\ \A u \in Threads \ {t} : pc'[u] = pc[u] /\ local'[u] = local[u]
      BY <1>0, <2>b DEF Stop, Poised
    <3> QED BY <2>0, <2>b, <3>1, CursorKeep
  <2>1. CASE ZeroTrip(t)
    <3>1. UNCHANGED iteration /\ Stop(t) /\ Cursor >= tc
      BY <1>0, <2>1 DEF ZeroTrip
    <3> QED BY <1>0, <2>a, <2>b, <3>1
  <2>2. CASE FetchIndex(t)
    <3> DEFINE lo == First(schedule, tc, chunk, iteration)
               hi == Past(schedule, tc, chunk, iteration)
    <3>1. /\ iteration' = iteration + 1 /\ iteration <= iteration' /\ schedule \in Index
          /\ iteration \in 0 .. MaxNumber
      BY <1>0, <2>2, TeamAssumption DEF FetchIndex
    <3>2. /\ Cursor = Edge(schedule, tc, chunk, iteration)
          /\ Cursor' = Edge(schedule, tc, chunk, iteration + 1)
      BY <2>0, <3>1 DEF Cursor, descr
    <3>3. /\ Cursor < tc => hi \in Nat /\ Cursor <= hi /\ Cursor' = IF hi < tc THEN hi ELSE tc
          /\ Cursor = tc => Cursor' = tc
      BY <1>0, <3>1, <3>2, EdgeFacts
    <3>4. Cursor <= tc
      BY <3>1, CursorNat
    <3>5. CASE Served(schedule, tc, chunk, iteration) /\ lo < tc
      <4>1. Cursor = lo /\ hi \in Nat /\ lo <= hi /\ PassesOver(hi)
        BY <1>0, <3>2, <3>3, <3>5 DEF Edge, PassesOver
      <4>2. CASE lo < hi
        <5> DEFINE flag == hi >= tc
        <5>1. Return(t, lo, hi, flag)
          BY <2>2, <3>5, <4>2 DEF FetchIndex
        <5> HIDE DEF lo, hi, flag
        <5>2. Return(t, Cursor, hi, flag) /\ hi \in Nat /\ Cursor <= hi
          BY <4>1, <5>1
        <5> QED BY <2>0, <3>1, <4>1, <5>2, CursorReturn
      <4>3. CASE ~(lo < hi)
        <5>1. UNCHANGED <<pc, local, given>>
          BY <2>2, <3>5, <4>3 DEF FetchIndex
        <5>2. hi = Cursor
          BY <1>0, <4>1, <4>3
        <5>3. PassesOver(Cursor)
          BY <4>1, <5>2
        <5>4. Poised(t)'
          BY <1>0, <1>1, <2>0, <3>1, <5>1, OthersPoised
        <5>5. pc'[t] # "left"
          BY <2>2, <5>1 DEF FetchIndex
        <5> QED BY <2>0, <3>1, <5>1, <5>3, <5>4, <5>5, CursorKeep
      <4> QED BY <4>2, <4>3
    <3>6. CASE ~(Served(schedule, tc, chunk, iteration) /\ lo < tc)
      <4>1. Cursor = tc /\ PassesOver(Cursor)
        BY <3>2, <3>3, <3>6 DEF Edge, PassesOver
      <4>2. Stop(t)
        BY <2>2, <3>6 DEF FetchIndex
      <4> QED BY <1>0, <2>b, <3>1, <4>1, <4>2
    <3> QED BY <3>5, <3>6
  <2>3. CASE TakeNumber(t)
    <3>1. /\ UNCHANGED <<given, iteration>> /\ iteration <= iteration'
          /\ \A u \in Threads \ {t} : pc'[u] = pc[u] /\ local'[u] = local[u]
          /\ pc'[t] = "size"
      BY <1>0, <2>3 DEF TakeNumber
    <3>2. Poised(t)'
      BY <3>1 DEF Poised
    <3> QED BY <2>0, <2>a, <3>1, <3>2, CursorKeep
  <2>4. CASE ReadCursor(t)
    <3>1. /\ UNCHANGED iteration /\ iteration <= iteration' /\ PassesOver(Cursor)
          /\ schedule \in CasLoop
      BY <1>0, <2>4, <2>a DEF ReadCursor
    <3>2. Cursor = iteration
      BY <3>1 DEF Cursor, CasLoop, Guided, Index
    <3>3. CASE Stop(t) /\ tc - iteration <= 0
      BY <1>0, <2>b, <3>1, <3>2, <3>3
    <3>4. CASE Stop(t) /\ Computed(t, tc - iteration) = {} /\ tc - iteration > 0
               /\ ~(schedule \in Guided /\ tc - iteration < Switch(chunk))
      <4>1. Switch(chunk) \in Nat
        BY <1>0, TeamAssumption DEF Switch
      <4>2. tc # 0 /\ tc - iteration \in 1 .. tc
            /\ (schedule \in Guided => tc - iteration >= Switch(chunk))
        BY <1>0, <3>4, <4>1
      <4>3. schedule = "faca"
        BY <3>1, <3>4, <4>2, ComputedSome
      <4> QED BY <2>b, <3>1, <3>4, <4>3
    <3>5. CASE schedule \in Guided /\ pc' = [pc EXCEPT ![t] = "tail"] /\ UNCHANGED <<local, given>>
      <4>1. Poised(t)' /\ pc'[t] = "tail"
        BY <1>0, <2>0, <3>5 DEF Poised
      <4>2. \A u \in Threads \ {t} : pc'[u] = pc[u] /\ local'[u] = local[u]
        BY <1>0, <3>5
      <4> QED BY <2>0, <3>1, <3>5, <4>1, <4>2, CursorKeep
    <3>6. CASE /\ tc - iteration > 0
               /\ ~(schedule \in Guided /\ tc - iteration < Switch(chunk))
               /\ \E cs \in Computed(t, tc - iteration) :
                    local' = [local EXCEPT ![t].init = iteration, ![t].size = cs]
               /\ pc' = [pc EXCEPT ![t] = "cas"]
               /\ UNCHANGED given
      <4>1. PICK cs \in Computed(t, tc - iteration) :
              local' = [local EXCEPT ![t].init = iteration, ![t].size = cs]
        BY <3>6
      <4>2. Switch(chunk) \in Nat
        BY <1>0, TeamAssumption DEF Switch
      <4>3. tc # 0 /\ tc - iteration \in 1 .. tc
            /\ (schedule \in Guided => tc - iteration >= Switch(chunk))
        BY <1>0, <3>6, <4>2
      <4>4. schedule # "viss"
        BY <3>1 DEF CasLoop, Guided
      <4>5. cs \in Nat /\ cs > 0
        BY <3>1, <4>3, <4>4, ComputedFacts
      <4>6. /\ pc'[t] = "cas" /\ local'[t].init = iteration /\ local'[t].size = cs
            /\ \A u \in Threads \ {t} : pc'[u] = pc[u] /\ local'[u] = local[u]
        BY <1>0, <3>6, <4>1 DEF Local
      <4>7. Poised(t)'
        BY <1>0, <2>0, <3>1, <4>3, <4>5, <4>6 DEF Poised
      <4> QED BY <2>0, <3>1, <3>6, <4>6, <4>7, CursorKeep
    <3> QED BY <2>4, <3>3, <3>4, <3>5, <3>6 DEF ReadCursor
  <2>5. CASE Cas(t)
    <3>1. /\ schedule \in CasLoop /\ local[t].init <= iteration
          /\ local[t].init < tc /\ local[t].size > 0 /\ pc[t] = "cas"
          /\ local[t].init \in Nat /\ local[t].size \in Nat
      BY <1>0, <1>1, <2>5 DEF Cas, Poised, Local
    <3>2. Cursor = iteration /\ Cursor' = iteration'
      BY <2>0, <3>1 DEF Cursor, CasLoop, Guided, Index
    <3>3. CASE iteration = local[t].init
      <4> DEFINE hi == local[t].init + local[t].size
                 flag == schedule \notin Guided /\ hi >= tc
      <4>1. iteration' = hi /\ Return(t, local[t].init, hi, flag)
        BY <2>5, <3>3 DEF Cas
      <4>2. hi \in Nat /\ iteration <= hi
        BY <3>1, <3>3
      <4> HIDE DEF hi, flag
      <4>3. Return(t, Cursor, hi, flag) /\ Cursor <= hi /\ PassesOver(hi) /\ iteration <= iteration'
        BY <3>2, <3>3, <4>1, <4>2 DEF PassesOver
      <4> QED BY <2>0, <4>2, <4>3, CursorReturn
    <3>4. CASE iteration # local[t].init
      <4>1. Retry(t)
        BY <2>5, <3>4 DEF Cas
      <4>2. /\ UNCHANGED <<iteration, given>> /\ iteration <= iteration'
            /\ pc'[t] \in {"size", "next"}
            /\ \A u \in Threads \ {t} : pc'[u] = pc[u] /\ local'[u] = local[u]
        BY <1>0, <4>1 DEF Retry
      <4>3. Poised(t)' /\ pc'[t] # "left"
        BY <4>2 DEF Poised
      <4> QED BY <2>0, <2>a, <4>2, <4>3, CursorKeep
    <3> QED BY <3>3, <3>4
  <2>6. CASE Tail(t)
    <3>1. /\ schedule \in Guided /\ iteration' = iteration + chunk /\ iteration <= iteration'
      BY <1>0, <1>1, <2>6 DEF Tail, Poised
    <3>2. Cursor = iteration /\ Cursor' = iteration + chunk
      BY <2>0, <3>1 DEF Cursor, Guided, Index
    <3>3. CASE tc - iteration <= 0
      <4>1. Stop(t) /\ Cursor >= tc /\ PassesOver(Cursor)
        BY <1>0, <2>6, <3>2, <3>3 DEF Tail, PassesOver
      <4> QED BY <2>b, <3>1, <4>1
    <3>4. CASE tc - iteration > 0
      <4> DEFINE hi == iteration + chunk
                 flag == tc - iteration <= chunk
      <4>1. Return(t, iteration, hi, flag)
        BY <1>0, <2>6, <3>4 DEF Tail
      <4>2. hi \in Nat /\ iteration <= hi /\ Cursor' = hi
        BY <1>0, <3>2
      <4> HIDE DEF hi, flag
      <4>3. Return(t, Cursor, hi, flag) /\ Cursor <= hi /\ PassesOver(hi)
        BY <3>2, <4>1, <4>2 DEF PassesOver
      <4> QED BY <2>0, <3>1, <4>2, <4>3, CursorReturn
    <3> QED BY <1>0, <3>3, <3>4
  <2>7. CASE AddChunk(t)
    <3>1. schedule \in AddOnce /\ tc \in 1 .. tc /\ schedule \notin Index /\ schedule \notin Guided
      BY <1>0, <2>7 DEF AddChunk, AddOnce, Index, Guided
    <3>2. PICK cs \in Computed(t, tc) :
            LET end_index == IF iteration + cs >= tc THEN tc - 1 ELSE iteration + cs - 1
            IN  /\ iteration' = iteration + cs
                /\ IF iteration <= end_index THEN Return(t, iteration, iteration + cs, FALSE)
                                             ELSE Stop(t)
      BY <2>7 DEF AddChunk
    <3>3. cs \in Nat /\ (schedule # "viss" => cs > 0)
      BY <1>0, <3>1, ComputedFacts
    <3>4. Cursor = iteration /\ Cursor' = iteration + cs /\ iteration <= iteration'
      BY <1>0, <2>0, <3>1, <3>2, <3>3 DEF Cursor
    <3>5. CASE Return(t, iteration, iteration + cs, FALSE)
      <4>1. iteration + cs \in Nat /\ Cursor <= iteration + cs /\ PassesOver(iteration + cs)
        BY <1>0, <3>3, <3>4 DEF PassesOver
      <4> QED BY <2>0, <3>4, <3>5, <4>1, CursorReturn
    <3>6. CASE Stop(t) /\ (iteration >= tc \/ cs = 0)
      <4>1. PassesOver(Cursor) /\ (schedule \notin {"faca", "viss"} => Cursor >= tc)
        BY <1>0, <3>3, <3>4, <3>6 DEF PassesOver
      <4> QED BY <2>b, <3>4, <3>6, <4>1
    <3>7. CASE iteration < tc /\ cs > 0
      <4> DEFINE end_index == IF iteration + cs >= tc THEN tc - 1 ELSE iteration + cs - 1
      <4>1. iteration <= end_index
        BY <1>0, <3>3, <3>7
      <4>2. IF iteration <= end_index THEN Return(t, iteration, iteration + cs, FALSE) ELSE Stop(t)
        BY <3>2
      <4> QED BY <3>5, <4>1, <4>2
    <3>8. CASE Stop(t)
      BY <1>0, <3>3, <3>6, <3>7, <3>8
    <3> QED BY <3>2, <3>5, <3>8
  <2>8. CASE StaticChunked(t) \/ StaticBalanced(t)
    BY <2>8 DEF StaticChunked, StaticBalanced, Static
  <2> QED BY <1>2, <2>1, <2>2, <2>3, <2>4, <2>5, <2>6, <2>7, <2>8 DEF ThreadStep
<1>3. CASE UNCHANGED vars
  BY <1>3 DEF vars, descr, CursorExact, Cursor, Iterations
<1> QED BY <1>2, <1>3 DEF Next, Finished
---------------------------------------------------------------------------
(***************************************************************************)
(* The static schedules, which share nothing: each iteration belongs to    *)
(* one thread, which takes it once, in one of its turns.                   *)
(***************************************************************************)
\* The chunk of thread t in turn j of static_chunked, and its share under
\* static_balanced.
InTurn(t, j, i) == chunk * (t + NProc * j) <= i /\ i < chunk * (t + NProc * j) + chunk
ShareLo(t) == IF tc < NProc THEN t ELSE BalancedStart(t)
ShareHi(t) == IF tc < NProc THEN t + 1
              ELSE ShareLo(t) + tc \div NProc + (IF t < tc % NProc THEN 1 ELSE 0)
InShare(t, i) == ShareLo(t) <= i /\ i < ShareHi(t)

\* What thread t is to take, and what it has taken so far.
Owns(t, i) == IF schedule = "static_chunked" THEN \E j \in Nat : InTurn(t, j, i) ELSE InShare(t, i)
Taken(t, i) ==
    IF schedule = "static_chunked"
      THEN \E j \in Nat : NProc * j < count[t] /\ InTurn(t, j, i)
      ELSE count[t] # 0 /\ InShare(t, i)

\* An iteration has been handed out once if its owner has taken it, and called the
\* last if it is; who has left has taken all that it owns.
StaticInv ==
    schedule \in Static =>
      /\ \A t \in Threads : pc[t] \in {"next", "left"}
      /\ schedule = "static_chunked" => \A t \in Threads : \E m \in Nat : count[t] = NProc * m
      /\ \A i \in Iterations :
            /\ given[i] = IF \E t \in Threads : Taken(t, i) THEN 1 ELSE 0
            /\ lasts[i] = IF i = tc - 1 /\ \E t \in Threads : Taken(t, i) THEN 1 ELSE 0
      /\ \A t \in Threads : pc[t] = "left" => \A i \in Iterations : Owns(t, i) => Taken(t, i)

LEMMA MulMono ==
    ASSUME NEW q \in Nat, NEW a \in Nat, NEW b \in Nat
    PROVE  /\ q * a \in Nat /\ q * b \in Nat
           /\ a <= b => q * a <= q * b
           /\ a < b => q * a + q <= q * b
<1>1. q * a \in Nat /\ q * b \in Nat
  OBVIOUS
<1>2. ASSUME a < b PROVE q * a + q <= q * b
  <2>1. PICK d \in Nat : b = (a + 1) + d
    <3>1. b - (a + 1) \in Nat /\ b = (a + 1) + (b - (a + 1))
      BY <1>2
    <3> QED BY <3>1
  <2>2. q * b = (q * a + q) + q * d /\ q * d \in Nat
    BY <2>1
  <2> QED BY <1>1, <2>2
<1>3. a = b => q * a = q * b
  OBVIOUS
<1>4. a <= b => a = b \/ a < b
  OBVIOUS
<1> QED BY <1>1, <1>2, <1>3, <1>4

LEMMA DivRest ==
    ASSUME NEW c \in Nat, NEW m \in Nat \ {0}
    PROVE  \E k \in Nat, r \in Nat : r < m /\ c = m * k + r
<1> DEFINE k == c \div m
           r == c % m
<1>1. k \in Nat /\ r \in Nat /\ r < m /\ c = m * k + r
  OBVIOUS
<1> QED BY <1>1

\* Chunks of a loop do not overlap, and leave nothing out.
LEMMA TurnsApart ==
    ASSUME chunk \in Nat \ {0}, NEW i \in Nat, NEW t \in Threads, NEW u \in Threads,
           NEW j \in Nat, NEW k \in Nat, InTurn(t, j, i), InTurn(u, k, i)
    PROVE  t = u /\ j = k
<1>1. NProc \in Nat /\ t \in Nat /\ u \in Nat /\ t < NProc /\ u < NProc
  BY TeamAssumption DEF Threads
<1> DEFINE a == t + NProc * j
           b == u + NProc * k
<1>2. NProc * j \in Nat /\ NProc * k \in Nat
  BY <1>1
<1>3. a \in Nat /\ b \in Nat
  BY <1>1, <1>2
<1>4. chunk * a <= i /\ i < chunk * a + chunk /\ chunk * b <= i /\ i < chunk * b + chunk
  BY DEF InTurn
<1>5. a = b
  <2> HIDE DEF a, b
  <2>1. /\ chunk * a \in Nat /\ chunk * b \in Nat
        /\ a < b => chunk * a + chunk <= chunk * b
        /\ b < a => chunk * b + chunk <= chunk * a
    BY <1>3, MulMono
  <2> QED BY <1>3, <1>4, <2>1
<1>6. /\ j < k => NProc * j + NProc <= NProc * k
      /\ k < j => NProc * k + NProc <= NProc * j
  BY <1>1, MulMono
<1>7. j = k
  BY <1>1, <1>2, <1>5, <1>6
<1> QED BY <1>1, <1>2, <1>5, <1>7

LEMMA TurnsCover ==
    ASSUME chunk \in Nat \ {0}, NEW i \in Nat
    PROVE  \E t \in Threads : \E j \in Nat : InTurn(t, j, i)
<1>1. PICK k \in Nat, r \in Nat : r < chunk /\ i = chunk * k + r
  BY DivRest
<1>2. NProc \in Nat \ {0}
  BY TeamAssumption
<1>3. PICK j \in Nat, t \in Nat : t < NProc /\ k = NProc * j + t
  BY <1>2, DivRest
<1>4. t \in Threads
  BY <1>2, <1>3 DEF Threads
<1>5. t + NProc * j = k /\ chunk * k \in Nat
  BY <1>2, <1>3
<1>6. InTurn(t, j, i)
  BY <1>1, <1>5 DEF InTurn
<1> QED BY <1>4, <1>6

\* The least of some numbers.
LEMMA LeastOf ==
    ASSUME NEW S \in SUBSET Nat, S # {}
    PROVE  \E m \in S : \A x \in S : m <= x
<1>1. PICK m \in S : \A y \in S : <<y, m>> \notin OpToRel(<, Nat)
  BY NatLessThanWellFounded, WFMin
<1>2. ASSUME NEW x \in S PROVE m <= x
  <2>1. <<x, m>> \notin OpToRel(<, Nat)
    BY <1>1
  <2>2. x \in Nat /\ m \in Nat
    OBVIOUS
  <2>3. ~(x < m)
    BY <2>1, <2>2, Zenon DEF OpToRel
  <2> QED BY <2>2, <2>3
<1> QED BY <1>2

\* Shares follow each other: the last one ends at the end of the loop.
LEMMA SharesInOrder ==
    ASSUME tc \in Nat
    PROVE  /\ \A t \in Threads : ShareLo(t) \in Nat /\ ShareHi(t) \in Nat /\ ShareLo(t) < ShareHi(t)
           /\ ShareLo(0) = 0 /\ ShareHi(NProc - 1) >= tc
           /\ tc >= NProc => ShareHi(NProc - 1) = tc
           /\ \A t, u \in Threads : t < u => ShareHi(t) <= ShareLo(u)
           /\ \A t \in Threads : t # 0 => t - 1 \in Threads /\ ShareLo(t) = ShareHi(t - 1)
<1>1. NProc \in Nat /\ NProc > 1 /\ \A t \in Threads : t \in Nat /\ t < NProc
  BY TeamAssumption DEF Threads
<1>2. CASE tc < NProc
  BY <1>1, <1>2 DEF ShareLo, ShareHi, Threads
<1>3. CASE ~(tc < NProc)
  <2> DEFINE q == tc \div NProc
             r == tc % NProc
  <2>1. q \in Nat /\ r \in Nat /\ r < NProc /\ tc = NProc * q + r
    BY <1>1
  <2>2. \A t \in Threads : /\ ShareLo(t) = t * q + (IF t < r THEN t ELSE r)
                           /\ ShareHi(t) = ShareLo(t) + q + (IF t < r THEN 1 ELSE 0)
    BY <1>3 DEF ShareLo, ShareHi, BalancedStart
  <2> HIDE DEF q, r
  <2>3. q > 0
    BY <1>1, <1>3, <2>1
  <2>4. \A t, u \in Nat : /\ t * q \in Nat /\ t * q = q * t /\ u * q = q * u
                          /\ t < u => t * q + q <= u * q
    BY <2>1, MulMono
  <2>5. \A t \in Threads : ShareLo(t) \in Nat /\ ShareHi(t) \in Nat /\ ShareLo(t) < ShareHi(t)
    BY <1>1, <2>1, <2>2, <2>3, <2>4
  <2>6. ASSUME NEW t \in Threads, NEW u \in Threads, t < u PROVE ShareHi(t) <= ShareLo(u)
    BY <1>1, <2>1, <2>2, <2>4, <2>6
  <2>7. ASSUME NEW t \in Threads, t # 0 PROVE t - 1 \in Threads /\ ShareLo(t) = ShareHi(t - 1)
    <3>1. t - 1 \in Threads /\ t \in Nat
      BY <1>1, <2>7 DEF Threads
    <3>2. t * q = (t - 1) * q + q
      BY <2>1, <3>1
    <3> QED BY <1>1, <2>1, <2>2, <2>4, <3>1, <3>2
  <2>8. 0 \in Threads /\ ShareLo(0) = 0
    <3>1. 0 \in Threads
      BY <1>1 DEF Threads
    <3> QED BY <2>1, <2>2, <3>1
  <2>9. ShareHi(NProc - 1) = tc
    <3>1. NProc - 1 \in Threads
      BY <1>1 DEF Threads
    <3>2. NProc * q = (NProc - 1) * q + q
      BY <1>1, <2>1
    <3> QED BY <1>1, <2>1, <2>2, <2>4, <3>1, <3>2
  <2> QED BY <1>3, <2>1, <2>5, <2>6, <2>7, <2>8, <2>9
<1> QED BY <1>2, <1>3

LEMMA SharesApart ==
    ASSUME tc \in Nat, NEW i \in Nat, NEW t \in Threads, NEW u \in Threads, InShare(t, i), InShare(u, i)
    PROVE  t = u
<1>1. t \in Int /\ u \in Int
  BY TeamAssumption DEF Threads
<1>2. /\ ShareLo(t) \in Nat /\ ShareHi(t) \in Nat /\ ShareLo(u) \in Nat /\ ShareHi(u) \in Nat
      /\ t < u => ShareHi(t) <= ShareLo(u)
      /\ u < t => ShareHi(u) <= ShareLo(t)
  BY SharesInOrder
<1>3. ShareLo(t) <= i /\ i < ShareHi(t) /\ ShareLo(u) <= i /\ i < ShareHi(u)
  BY DEF InShare
<1> QED BY <1>1, <1>2, <1>3

LEMMA SharesCover ==
    ASSUME tc \in Nat, NEW i \in Nat, i < tc
    PROVE  \E t \in Threads : InShare(t, i)
<1>1. NProc \in Nat /\ NProc > 1 /\ Threads \subseteq Nat
  BY TeamAssumption DEF Threads
<1> DEFINE S == {t \in Threads : i < ShareHi(t)}
<1>2. NProc - 1 \in S
  <2>1. NProc - 1 \in Threads
    BY <1>1 DEF Threads
  <2>2. ShareHi(NProc - 1) \in Nat /\ ShareHi(NProc - 1) >= tc
    BY <2>1, SharesInOrder
  <2> QED BY <2>1, <2>2
<1>3. PICK t \in S : \A u \in S : t <= u
  <2>1. S \in SUBSET Nat /\ S # {}
    BY <1>1, <1>2
  <2> HIDE DEF S
  <2> QED BY <2>1, LeastOf
<1>4. t \in Threads /\ t \in Nat /\ i < ShareHi(t)
  BY <1>1
<1>5. CASE t = 0
  <2>1. ShareLo(t) = 0
    BY <1>5, SharesInOrder
  <2> QED BY <1>4, <2>1 DEF InShare
<1>6. CASE t # 0
  <2>1. t - 1 \in Threads /\ ShareLo(t) = ShareHi(t - 1) /\ ShareHi(t - 1) \in Nat
    BY <1>4, <1>6, SharesInOrder
  <2>2. ~(i < ShareHi(t - 1))
    BY <1>3, <1>4, <2>1
  <2> QED BY <1>4, <2>1, <2>2 DEF InShare
<1> QED BY <1>5, <1>6

\* Each iteration belongs to one thread, and a thread takes only what it owns.
LEMMA OwnedOnce ==
    ASSUME tc \in Nat, chunk \in Nat \ {0}, NEW i \in Iterations
    PROVE  /\ \E t \in Threads : Owns(t, i)
           /\ \A t, u \in Threads : Owns(t, i) /\ Owns(u, i) => t = u
           /\ \A t \in Threads : Taken(t, i) => Owns(t, i)
<1>1. i \in Nat /\ i < tc
  BY DEF Iterations
<1>2. CASE schedule = "static_chunked"
  <2>1. \E t \in Threads : Owns(t, i)
    BY <1>1, <1>2, TurnsCover DEF Owns
  <2>2. ASSUME NEW t \in Threads, NEW u \in Threads, Owns(t, i), Owns(u, i) PROVE t = u
    <3>1. PICK j \in Nat : InTurn(t, j, i)
      BY <1>2, <2>2 DEF Owns
    <3>2. PICK k \in Nat : InTurn(u, k, i)
      BY <1>2, <2>2 DEF Owns
    <3> QED BY <1>1, <3>1, <3>2, TurnsApart
  <2> QED BY <1>2, <2>1, <2>2 DEF Owns, Taken
<1>3. CASE schedule # "static_chunked"
  BY <1>1, <1>3, SharesApart, SharesCover DEF Owns, Taken
<1> QED BY <1>2, <1>3

LEMMA StaticInit == Init => StaticInv
<1> SUFFICES ASSUME Init, schedule \in Static PROVE StaticInv
  BY DEF StaticInv
<1>1. tc \in Nat /\ count = [t \in Threads |-> 0] /\ pc = [t \in Threads |-> "next"]
      /\ given = [i \in Iterations |-> 0] /\ lasts = [i \in Iterations |-> 0]
  BY TypedInit, DescriptorFacts DEF Init, Typed
<1>2. \A t \in Threads : count[t] = NProc * 0
  BY <1>1, TeamAssumption
<1>3. ASSUME NEW t \in Threads, NEW i \in Iterations PROVE ~Taken(t, i)
  <2>1. \A j \in Nat : ~(NProc * j < 0)
    BY TeamAssumption
  <2> QED BY <1>1, <2>1 DEF Taken
<1> QED BY <1>1, <1>2, <1>3 DEF StaticInv

\* Who stops leaves all as it was.
LEMMA StaticStop ==
    ASSUME Typed, StaticInv, schedule \in Static, NEW t \in Threads, Stop(t),
           UNCHANGED <<descr, count>>,
           \A i \in Iterations : Owns(t, i) => Taken(t, i)
    PROVE  StaticInv'
<1>1. UNCHANGED <<schedule, tc, chunk, count, given, lasts>> /\ Iterations' = Iterations
  BY DEF descr, Stop, Iterations
<1>2. \A u \in Threads : pc'[u] = IF u = t THEN "left" ELSE pc[u]
  BY DEF Stop, Typed
<1>3. /\ \A u \in Threads : pc[u] \in {"next", "left"}
      /\ schedule = "static_chunked" => \A u \in Threads : \E m \in Nat : count[u] = NProc * m
      /\ \A i \in Iterations :
            /\ given[i] = IF \E u \in Threads : Taken(u, i) THEN 1 ELSE 0
            /\ lasts[i] = IF i = tc - 1 /\ \E u \in Threads : Taken(u, i) THEN 1 ELSE 0
      /\ \A u \in Threads : pc[u] = "left" => \A i \in Iterations : Owns(u, i) => Taken(u, i)
  BY DEF StaticInv
<1>4. \A u, i : Owns(u, i)' <=> Owns(u, i)
  BY <1>1 DEF Owns, InTurn, InShare, ShareLo, ShareHi, BalancedStart
<1>5. \A u, i : Taken(u, i)' <=> Taken(u, i)
  BY <1>1 DEF Taken, InTurn, InShare, ShareLo, ShareHi, BalancedStart
<1>6. \A u \in Threads : pc'[u] = "left" => \A i \in Iterations : Owns(u, i)' => Taken(u, i)'
  BY <1>2, <1>3, <1>4, <1>5
<1>7. \A i \in Iterations :
            /\ given'[i] = IF \E u \in Threads : Taken(u, i)' THEN 1 ELSE 0
            /\ lasts'[i] = IF i = tc - 1 /\ \E u \in Threads : Taken(u, i)' THEN 1 ELSE 0
  BY <1>1, <1>3, <1>5
<1> QED BY <1>1, <1>2, <1>3, <1>6, <1>7 DEF StaticInv

\* Who takes a chunk takes iterations of its own, and is called the last if the
\* last one is among them.
LEMMA StaticTake ==
    ASSUME Typed, StaticInv, schedule \in Static, NEW t \in Threads, pc[t] = "next",
           UNCHANGED descr,
           NEW lo \in Nat, NEW hi \in Nat, NEW last, Return(t, lo, hi, last),
           last \in BOOLEAN, lo < tc, last => hi >= tc, tc - 1 < hi => last, lo < hi,
           \A u \in Threads : u # t => count'[u] = count[u],
           schedule = "static_chunked" => \E m \in Nat : count'[t] = NProc * m,
           \A i \in Iterations : /\ Taken(t, i)' <=> Taken(t, i) \/ (lo <= i /\ i < hi)
                                 /\ lo <= i /\ i < hi => Owns(t, i) /\ ~Taken(t, i)
    PROVE  StaticInv'
<1>0. tc \in Nat /\ chunk \in Nat \ {0} /\ given \in [Iterations -> Nat] /\ lasts \in [Iterations -> Nat]
  BY DescriptorFacts DEF Typed
<1>1. UNCHANGED <<schedule, tc, chunk>> /\ Iterations' = Iterations
  BY DEF descr, Iterations
<1>2. \A u \in Threads : pc'[u] = pc[u]
  BY DEF Return, Typed
<1>3. /\ \A u \in Threads : pc[u] \in {"next", "left"}
      /\ schedule = "static_chunked" => \A u \in Threads : \E m \in Nat : count[u] = NProc * m
      /\ \A i \in Iterations :
            /\ given[i] = IF \E u \in Threads : Taken(u, i) THEN 1 ELSE 0
            /\ lasts[i] = IF i = tc - 1 /\ \E u \in Threads : Taken(u, i) THEN 1 ELSE 0
      /\ \A u \in Threads : pc[u] = "left" => \A i \in Iterations : Owns(u, i) => Taken(u, i)
  BY DEF StaticInv
<1>4. \A u, i : Owns(u, i)' <=> Owns(u, i)
  BY <1>1 DEF Owns, InTurn, InShare, ShareLo, ShareHi, BalancedStart
<1>5. \A u \in Threads : \A i : u # t => (Taken(u, i)' <=> Taken(u, i))
  BY <1>1 DEF Taken, InTurn, InShare, ShareLo, ShareHi, BalancedStart
<1>6. \A u \in Threads : pc'[u] = "left" => \A i \in Iterations : Owns(u, i)' => Taken(u, i)'
  BY <1>2, <1>3, <1>4, <1>5
<1>7. ASSUME NEW i \in Iterations
      PROVE  /\ given'[i] = given[i] + (IF lo <= i /\ i < hi THEN 1 ELSE 0)
             /\ lasts'[i] = lasts[i] + (IF i = tc - 1 /\ lo <= i /\ i < hi THEN 1 ELSE 0)
  <2> DEFINE end == IF hi >= tc THEN tc ELSE hi
             in(k) == lo <= k /\ k < end
             flagged(k) == last /\ k = end - 1
  <2>1. /\ given' = [k \in Iterations |-> given[k] + (IF in(k) THEN 1 ELSE 0)]
        /\ lasts' = [k \in Iterations |-> lasts[k] + (IF flagged(k) THEN 1 ELSE 0)]
    BY DEF Return, Hand
  <2>2. i \in Nat /\ i < tc
    BY <1>0 DEF Iterations
  <2>3. (in(i) <=> lo <= i /\ i < hi) /\ (flagged(i) <=> i = tc - 1 /\ lo <= i /\ i < hi)
    BY <1>0, <2>2
  <2> HIDE DEF in, flagged
  <2> QED BY <2>1, <2>3
<1>8. ASSUME NEW i \in Iterations
      PROVE  /\ given'[i] = IF \E u \in Threads : Taken(u, i)' THEN 1 ELSE 0
             /\ lasts'[i] = IF i = tc - 1 /\ \E u \in Threads : Taken(u, i)' THEN 1 ELSE 0
  <2>1. CASE lo <= i /\ i < hi
    <3>1. \A u \in Threads : ~Taken(u, i)
      <4>1. Owns(t, i) /\ ~Taken(t, i)
        BY <2>1
      <4> QED BY <1>0, <4>1, OwnedOnce
    <3>2. given[i] = 0 /\ lasts[i] = 0
      BY <1>3, <3>1
    <3>3. Taken(t, i)'
      BY <2>1
    <3> QED BY <1>7, <2>1, <3>2, <3>3
  <2>2. CASE ~(lo <= i /\ i < hi)
    <3>1. given'[i] = given[i] /\ lasts'[i] = lasts[i]
      BY <1>0, <1>7, <2>2
    <3>2. \A u \in Threads : Taken(u, i)' <=> Taken(u, i)
      BY <1>5, <2>2
    <3> QED BY <1>3, <3>1, <3>2
  <2> QED BY <2>1, <2>2
<1>9. schedule = "static_chunked" => \A u \in Threads : \E m \in Nat : count'[u] = NProc * m
  BY <1>3
<1> QED BY <1>1, <1>2, <1>3, <1>6, <1>8, <1>9 DEF StaticInv

LEMMA ChunkedKeeps ==
    ASSUME Typed, StaticInv, NEW t \in Threads, StaticChunked(t)
    PROVE  StaticInv'
<1> DEFINE lo == chunk * (count[t] + t)
<1>0. /\ tc \in Nat /\ chunk \in Nat \ {0} /\ NProc \in Nat \ {0} /\ t \in Nat
      /\ count \in [Threads -> Nat] /\ pc[t] = "next" /\ UNCHANGED descr
      /\ schedule = "static_chunked" /\ schedule \in Static
  BY DescriptorFacts, TeamAssumption DEF Typed, Threads, StaticChunked, Static
<1>1. PICK m \in Nat : count[t] = NProc * m
  BY <1>0 DEF StaticInv
<1>2. NProc * m \in Nat /\ lo = chunk * (t + NProc * m)
  BY <1>0, <1>1
<1>3. lo \in Nat
  <2>1. count[t] + t \in Nat
    BY <1>0, <1>1
  <2> QED BY <1>0, <2>1, MulMono
<1>4. CASE lo < tc
  <2> DEFINE last == lo + chunk >= tc
  <2>1. count' = [count EXCEPT ![t] = @ + NProc] /\ Return(t, lo, lo + chunk, last)
    BY <1>4 DEF StaticChunked
  <2>2. count'[t] = NProc * (m + 1)
    BY <1>0, <1>1, <1>2, <2>1
  <2>3. \A u \in Threads : u # t => count'[u] = count[u]
    BY <1>0, <2>1
  <2>4. ASSUME NEW i \in Iterations
        PROVE  /\ Taken(t, i)' <=> Taken(t, i) \/ (lo <= i /\ i < lo + chunk)
               /\ lo <= i /\ i < lo + chunk => Owns(t, i) /\ ~Taken(t, i)
    <3>1. \A j : InTurn(t, j, i)' <=> InTurn(t, j, i)
      BY <1>0 DEF InTurn, descr
    <3>2. Taken(t, i)' <=> \E j \in Nat : NProc * j < NProc * (m + 1) /\ InTurn(t, j, i)
      BY <1>0, <2>2, <3>1 DEF Taken, descr
    <3>3. Taken(t, i) <=> \E j \in Nat : NProc * j < NProc * m /\ InTurn(t, j, i)
      BY <1>0, <1>1 DEF Taken
    <3>4. ASSUME NEW j \in Nat
          PROVE  (NProc * j < NProc * (m + 1) <=> j <= m) /\ (NProc * j < NProc * m <=> j < m)
      <4>1. NProc * (m + 1) = NProc * m + NProc
        BY <1>0
      <4>2. /\ NProc * j \in Nat /\ j < m => NProc * j + NProc <= NProc * m
            /\ m < j => NProc * m + NProc <= NProc * j
            /\ m = j => NProc * m = NProc * j
        BY <1>0, MulMono
      <4> QED BY <1>0, <1>2, <4>1, <4>2
    <3>5. InTurn(t, m, i) <=> lo <= i /\ i < lo + chunk
      BY <1>2 DEF InTurn
    <3>6. ASSUME NEW j \in Nat, InTurn(t, j, i), InTurn(t, m, i) PROVE j = m
      <4>1. i \in Nat
        BY <1>0 DEF Iterations
      <4> QED BY <1>0, <3>6, <4>1, TurnsApart
    <3>7. Taken(t, i)' <=> Taken(t, i) \/ InTurn(t, m, i)
      BY <3>2, <3>3, <3>4
    <3>8. InTurn(t, m, i) => ~Taken(t, i)
      BY <3>3, <3>4, <3>6
    <3>9. InTurn(t, m, i) => Owns(t, i)
      BY <1>0 DEF Owns
    <3> QED BY <3>5, <3>7, <3>8, <3>9
  <2>5. /\ lo + chunk \in Nat /\ last \in BOOLEAN /\ lo < lo + chunk
        /\ last => lo + chunk >= tc
        /\ tc - 1 < lo + chunk => last
    BY <1>0, <1>3
  <2>6. m + 1 \in Nat
    OBVIOUS
  <2> DEFINE hi == lo + chunk
  <2> HIDE DEF lo, hi, last
  <2>7. /\ Return(t, lo, hi, last) /\ hi \in Nat /\ lo < hi /\ (last => hi >= tc) /\ (tc - 1 < hi => last)
        /\ \A i \in Iterations : /\ Taken(t, i)' <=> Taken(t, i) \/ (lo <= i /\ i < hi)
                                 /\ lo <= i /\ i < hi => Owns(t, i) /\ ~Taken(t, i)
    BY <2>1, <2>4, <2>5 DEF hi
  <2> QED BY <1>0, <1>3, <1>4, <2>2, <2>3, <2>5, <2>6, <2>7, StaticTake
<1>5. CASE ~(lo < tc)
  <2>1. Stop(t) /\ UNCHANGED <<descr, count>>
    BY <1>0, <1>5 DEF StaticChunked
  <2>2. ASSUME NEW i \in Iterations, Owns(t, i) PROVE Taken(t, i)
    <3>1. PICK j \in Nat : InTurn(t, j, i)
      BY <1>0, <2>2 DEF Owns
    <3>2. i \in Nat /\ i < tc
      BY <1>0 DEF Iterations
    <3>3. NProc * j \in Nat /\ t + NProc * j \in Nat /\ count[t] + t \in Nat
      BY <1>0, <1>1, MulMono
    <3>4. chunk * (t + NProc * j) <= i
      BY <3>1 DEF InTurn
    <3>5. count[t] + t <= t + NProc * j => lo <= chunk * (t + NProc * j)
      BY <1>0, <3>3, MulMono
    <3>6. chunk * (t + NProc * j) \in Nat
      BY <1>0, <3>3, MulMono
    <3>7. NProc * j < count[t]
      <4> HIDE DEF lo
      <4> QED BY <1>0, <1>3, <1>5, <3>2, <3>3, <3>4, <3>5, <3>6
    <3> QED BY <1>0, <3>1, <3>7 DEF Taken
  <2> QED BY <1>0, <2>1, <2>2, StaticStop
<1> QED BY <1>4, <1>5

LEMMA BalancedKeeps ==
    ASSUME Typed, StaticInv, NEW t \in Threads, StaticBalanced(t)
    PROVE  StaticInv'
<1> DEFINE lo == ShareLo(t)
           hi == ShareHi(t)
           last == IF tc < NProc THEN t = tc - 1 ELSE t = NProc - 1
<1>0. /\ tc \in Nat /\ tc # 0 /\ chunk \in Nat \ {0} /\ NProc \in Nat \ {0} /\ t \in Nat /\ t < NProc
      /\ count \in [Threads -> Nat] /\ pc[t] = "next" /\ UNCHANGED descr
      /\ schedule = "static_balanced" /\ schedule \in Static
  BY DescriptorFacts, TeamAssumption DEF Typed, Threads, StaticBalanced, Static
<1>1. lo \in Nat /\ hi \in Nat /\ lo < hi
  BY <1>0, SharesInOrder
<1>2. IF count[t] = 0 /\ lo < tc
        THEN count' = [count EXCEPT ![t] = 1] /\ Return(t, lo, hi, last)
        ELSE Stop(t) /\ UNCHANGED count
  BY DEF StaticBalanced, ShareLo, ShareHi
<1>3. CASE count[t] = 0 /\ lo < tc
  <2>1. count' = [count EXCEPT ![t] = 1] /\ Return(t, lo, hi, last)
    BY <1>2, <1>3
  <2>2. \A u \in Threads : count'[u] = IF u = t THEN 1 ELSE count[u]
    BY <1>0, <2>1
  <2>3. /\ last => hi >= tc
        /\ tc - 1 < hi => last
    <3>1. CASE tc < NProc
      BY <1>0, <1>3, <3>1 DEF ShareLo, ShareHi
    <3>2. CASE ~(tc < NProc)
      <4>1. NProc - 1 \in Threads
        BY <1>0 DEF Threads
      <4>2. /\ ShareHi(NProc - 1) = tc /\ ShareLo(NProc - 1) \in Nat
            /\ ShareLo(NProc - 1) < ShareHi(NProc - 1)
            /\ t < NProc - 1 => hi <= ShareLo(NProc - 1)
        BY <1>0, <3>2, <4>1, SharesInOrder
      <4> QED BY <1>0, <1>1, <3>2, <4>2
    <3> QED BY <3>1, <3>2
  <2>4. last \in BOOLEAN
    OBVIOUS
  <2>5. ASSUME NEW i \in Iterations
        PROVE  /\ Taken(t, i)' <=> Taken(t, i) \/ (lo <= i /\ i < hi)
               /\ lo <= i /\ i < hi => Owns(t, i) /\ ~Taken(t, i)
    <3>1. InShare(t, i)' <=> InShare(t, i)
      BY <1>0 DEF InShare, ShareLo, ShareHi, BalancedStart, descr
    <3>2. Taken(t, i)' <=> InShare(t, i)
      BY <1>0, <2>2, <3>1 DEF Taken, descr
    <3>3. ~Taken(t, i)
      BY <1>0, <1>3 DEF Taken
    <3>4. InShare(t, i) <=> Owns(t, i)
      BY <1>0 DEF Owns
    <3> QED BY <3>2, <3>3, <3>4 DEF InShare
  <2> HIDE DEF lo, hi, last
  <2> QED BY <1>0, <1>1, <1>3, <2>1, <2>2, <2>3, <2>4, <2>5, StaticTake
<1>4. CASE ~(count[t] = 0 /\ lo < tc)
  <2>1. Stop(t) /\ UNCHANGED <<descr, count>>
    BY <1>0, <1>2, <1>4
  <2>2. ASSUME NEW i \in Iterations, Owns(t, i) PROVE Taken(t, i)
    <3>1. InShare(t, i) /\ i \in Nat /\ i < tc
      BY <1>0, <2>2 DEF Owns, Iterations
    <3>2. lo <= i
      BY <3>1 DEF InShare
    <3>3. count[t] # 0
      BY <1>0, <1>1, <1>4, <3>1, <3>2
    <3> QED BY <1>0, <3>1, <3>3 DEF Taken
  <2> QED BY <1>0, <2>1, <2>2, StaticStop
<1> QED BY <1>3, <1>4

LEMMA StaticNext == Typed /\ StaticInv /\ [Next]_vars => StaticInv'
<1> SUFFICES ASSUME Typed, StaticInv, [Next]_vars, schedule \in Static PROVE StaticInv'
  BY DEF StaticInv, Next, Finished, ThreadStep, ZeroTrip, FetchIndex, TakeNumber, ReadCursor,
         Cas, Tail, AddChunk, StaticChunked, StaticBalanced, descr, vars
<1>1. ASSUME NEW t \in Threads, ThreadStep(t) PROVE StaticInv'
  <2>1. CASE ZeroTrip(t)
    <3>1. Iterations = {}
      BY <2>1 DEF ZeroTrip, Iterations
    <3> QED BY <2>1, <3>1, StaticStop DEF ZeroTrip
  <2>2. CASE StaticChunked(t) \/ StaticBalanced(t)
    BY <2>2, ChunkedKeeps, BalancedKeeps
  <2>3. CASE FetchIndex(t) \/ TakeNumber(t) \/ ReadCursor(t) \/ Cas(t) \/ Tail(t) \/ AddChunk(t)
    <3>1. /\ pc[t] \in {"next", "left"}
          /\ schedule \notin Index \cup Numbered \cup CasLoop \cup AddOnce
      BY DEF StaticInv, Static, Index, Numbered, CasLoop, AddOnce, Guided
    <3> QED BY <2>3, <3>1 DEF FetchIndex, TakeNumber, ReadCursor, Cas, Tail, AddChunk
  <2> QED BY <1>1, <2>1, <2>2, <2>3 DEF ThreadStep
<1>2. CASE UNCHANGED vars
  BY <1>2 DEF vars, descr, StaticInv, Iterations, Owns, Taken, InTurn, InShare, ShareLo, ShareHi, BalancedStart
<1> QED BY <1>1, <1>2 DEF Next, Finished
---------------------------------------------------------------------------
(***************************************************************************)
(* FACa stops a thread where the requests before its own cover the loop,   *)
(* whether or not those chunks have been taken.  The requests that no      *)
(* thread has in hand have been taken in full, or come too late.           *)
(***************************************************************************)
InRequest(t) == pc[t] \in {"size", "cas"}
FacaSizes(t, k) == Sizes("faca", tc, chunk, t, k)
Settled == {k \in 0 .. counter - 1 : \A t \in Threads : InRequest(t) => local[t].number # k}

Apart ==
    \A t \in Threads : InRequest(t) =>
      /\ local[t].number < counter
      /\ \A u \in Threads : InRequest(u) /\ u # t => local[u].number # local[t].number

FacaInv ==
    schedule = "faca" =>
      /\ Apart
      /\ \A t \in Threads : pc[t] = "cas" => local[t].size \in FacaSizes(t, local[t].number)
      /\ \A t \in Threads : pc[t] = "left" =>
            iteration >= tc \/ \E k \in 0 .. counter - 1 : \E u \in Threads : FacaSizes(u, k) = {}
      /\ iteration >= tc \/ Cardinality(Planned(tc, chunk, Settled)) <= iteration

\* Finite sets: what a few requests plan.
LEMMA PlannedFinite ==
    ASSUME NEW n \in Nat, NEW c, NEW m \in Nat, NEW K \in SUBSET (0 .. m - 1)
    PROVE  IsFiniteSet(Planned(n, c, K))
<1>1. IsFiniteSet(0 .. m - 1) /\ IsFiniteSet(1 .. n)
  BY FS_Interval
<1>2. IsFiniteSet(K)
  BY <1>1, FS_Subset
<1>3. IsFiniteSet(K \X (1 .. n))
  BY <1>1, <1>2, FS_Product
<1>4. Planned(n, c, K) \subseteq K \X (1 .. n)
  BY DEF Planned
<1> QED BY <1>3, <1>4, FS_Subset

\* A larger set of requests plans no less.
LEMMA PlannedMonotone ==
    ASSUME NEW n \in Nat, NEW c, NEW m \in Nat, NEW L \in SUBSET (0 .. m - 1), NEW K \in SUBSET L
    PROVE  Cardinality(Planned(n, c, K)) <= Cardinality(Planned(n, c, L))
<1>1. IsFiniteSet(Planned(n, c, L))
  BY PlannedFinite
<1>2. Planned(n, c, K) \subseteq Planned(n, c, L)
  BY DEF Planned
<1> QED BY <1>1, <1>2, FS_Subset

\* A request with nothing to take plans nothing.
LEMMA PlannedNone ==
    ASSUME NEW n \in Nat, NEW c, NEW K, NEW k, NEW t \in Threads, Sizes("faca", n, c, t, k) = {}
    PROVE  Planned(n, c, K \cup {k}) = Planned(n, c, K)
<1>1. ASSUME NEW q \in Planned(n, c, K \cup {k}) PROVE q \in Planned(n, c, K)
  <2>1. q \in (K \cup {k}) \X (1 .. n) /\ Sizes("faca", n, c, t, q[1]) # {}
    BY DEF Planned
  <2>2. q[1] # k
    BY <2>1
  <2>3. q \in K \X (1 .. n)
    BY <2>1, <2>2
  <2> QED BY <2>3 DEF Planned
<1>2. Planned(n, c, K) \subseteq Planned(n, c, K \cup {k})
  BY DEF Planned
<1> QED BY <1>1, <1>2

\* A request plans at most what a thread takes with it.
LEMMA PlannedOne ==
    ASSUME NEW n \in Nat, NEW c, NEW m \in Nat, NEW K \in SUBSET (0 .. m - 1), NEW k \in 0 .. m - 1,
           NEW t \in Threads, NEW cs \in Nat, cs \in Sizes("faca", n, c, t, k)
    PROVE  Cardinality(Planned(n, c, K \cup {k})) <= Cardinality(Planned(n, c, K)) + cs
<1> DEFINE A == Planned(n, c, K)
           B == {k} \X (1 .. cs)
           W == Planned(n, c, K \cup {k})
<1>1. W \subseteq A \cup B
  <2> SUFFICES ASSUME NEW q \in W, q \notin A PROVE q \in B
    OBVIOUS
  <2>1. q \in (K \cup {k}) \X (1 .. n)
    BY DEF Planned
  <2>2. q[1] = k
    BY <2>1 DEF Planned
  <2>3. q[2] <= cs
    BY <2>2 DEF Planned
  <2>4. q[2] \in 1 .. cs
    BY <2>1, <2>3
  <2> QED BY <2>1, <2>2, <2>4
<1>2. IsFiniteSet(A)
  BY PlannedFinite
<1>3. IsFiniteSet(B) /\ Cardinality(B) = cs
  <2>1. IsFiniteSet({k}) /\ Cardinality({k}) = 1
    BY FS_Singleton
  <2>2. IsFiniteSet(1 .. cs) /\ Cardinality(1 .. cs) = cs
    BY FS_Interval
  <2>3. IsFiniteSet(B) /\ Cardinality(B) = 1 * cs
    BY <2>1, <2>2, FS_Product
  <2> QED BY <2>3
<1> HIDE DEF A, B, W
<1>4. /\ IsFiniteSet(A \cup B) /\ IsFiniteSet(A \cap B)
      /\ Cardinality(A \cup B) = Cardinality(A) + Cardinality(B) - Cardinality(A \cap B)
  BY <1>2, <1>3, FS_Union, FS_Intersection
<1>5. Cardinality(W) <= Cardinality(A \cup B) /\ Cardinality(A \cap B) \in Nat
      /\ Cardinality(A) \in Nat /\ Cardinality(W) \in Nat
  <2>1. IsFiniteSet(W)
    BY <1>1, <1>4, FS_Subset
  <2> QED BY <1>1, <1>2, <1>4, <2>1, FS_Subset, FS_CardinalityType
<1>6. Cardinality(W) <= Cardinality(A) + cs
  BY <1>3, <1>4, <1>5
<1> QED BY <1>6 DEF A, W

LEMMA FacaInit == Init => FacaInv
<1> SUFFICES ASSUME Init, schedule = "faca" PROVE FacaInv
  BY DEF FacaInv
<1>1. \A t \in Threads : pc[t] = "next"
  BY DEF Init
<1>2. counter = 0 /\ iteration = 0 /\ tc \in Nat
  BY TypedInit, DescriptorFacts DEF Init, Typed
<1>3. Planned(tc, chunk, Settled) = {}
  <2>1. Settled = {}
    BY <1>2 DEF Settled
  <2> QED BY <2>1 DEF Planned
<1>4. Cardinality(Planned(tc, chunk, Settled)) <= iteration
  BY <1>2, <1>3, FS_EmptySet
<1> QED BY <1>1, <1>4 DEF FacaInv, Apart, InRequest

\* The requests in hand, and those settled, in a step of thread t alone.
LEMMA FacaFrame ==
    ASSUME Typed, FacaInv, schedule = "faca", UNCHANGED <<descr, counter>>, iteration' \in Nat,
           iteration <= iteration', NEW t \in Threads, InRequest(t),
           \A u \in Threads \ {t} : pc'[u] = pc[u] /\ local'[u] = local[u],
           InRequest(t)' => local'[t].number = local[t].number,
           pc'[t] = "cas" => local'[t].size \in FacaSizes(t, local'[t].number),
           pc'[t] = "left" => iteration' >= tc \/ FacaSizes(t, local[t].number) = {},
           \/ iteration' >= tc
           \/ InRequest(t)'
           \/ FacaSizes(t, local[t].number) = {}
           \/ \E cs \in Nat : cs \in FacaSizes(t, local[t].number) /\ iteration' = iteration + cs
    PROVE  FacaInv'
<1> DEFINE k == local[t].number
<1>0. /\ tc \in Nat /\ iteration \in Nat /\ counter \in Nat /\ tc' = tc /\ chunk' = chunk
      /\ counter' = counter /\ schedule' = schedule
      /\ \A u \in Threads : local[u].number \in Nat
  BY DescriptorFacts DEF Typed, Local, descr
<1>1. /\ Apart
      /\ \A u \in Threads : pc[u] = "cas" => local[u].size \in FacaSizes(u, local[u].number)
      /\ \A u \in Threads : pc[u] = "left" =>
            iteration >= tc \/ \E x \in 0 .. counter - 1 : \E v \in Threads : FacaSizes(v, x) = {}
      /\ iteration >= tc \/ Cardinality(Planned(tc, chunk, Settled)) <= iteration
  BY DEF FacaInv
<1>2. \A u, x : FacaSizes(u, x)' = FacaSizes(u, x)
  BY <1>0 DEF FacaSizes
<1>3. /\ k \in 0 .. counter - 1
      /\ \A u \in Threads : u # t /\ InRequest(u) => local[u].number # k
  BY <1>0, <1>1 DEF Apart
<1>4. \A u \in Threads : u # t => (InRequest(u)' <=> InRequest(u)) /\ local'[u].number = local[u].number
  BY DEF InRequest
<1>5. Apart'
  BY <1>0, <1>1, <1>4 DEF Apart
<1>6. ASSUME NEW u \in Threads, pc'[u] = "cas"
      PROVE  local'[u].size \in FacaSizes(u, local'[u].number)
  <2>1. CASE u = t
    BY <1>6, <2>1
  <2>2. CASE u # t
    <3>1. pc'[u] = pc[u] /\ local'[u] = local[u]
      BY <2>2
    <3> QED BY <1>1, <1>6, <3>1
  <2> QED BY <2>1, <2>2
<1>7. ASSUME NEW u \in Threads, pc'[u] = "left"
      PROVE  iteration' >= tc \/ \E x \in 0 .. counter - 1 : \E v \in Threads : FacaSizes(v, x) = {}
  <2>1. CASE u = t
    BY <1>3, <1>7, <2>1
  <2>2. CASE u # t
    <3>1. pc[u] = "left"
      BY <1>7, <2>2
    <3> QED BY <1>0, <1>1, <3>1
  <2> QED BY <2>1, <2>2
<1>8. Settled \in SUBSET (0 .. counter - 1)
  BY DEF Settled
<1>9. IF InRequest(t)' THEN Settled' = Settled ELSE Settled' = Settled \cup {k}
  <2>1. CASE InRequest(t)'
    BY <1>0, <1>4, <2>1 DEF Settled
  <2>2. CASE ~InRequest(t)'
    <3>1. ASSUME NEW x PROVE x \in Settled' <=> x \in Settled \/ x = k
      BY <1>0, <1>3, <1>4, <2>2 DEF Settled
    <3> QED BY <2>2, <3>1
  <2> QED BY <2>1, <2>2
<1>10. iteration' >= tc \/ Cardinality(Planned(tc, chunk, Settled')) <= iteration'
  <2>1. CASE iteration >= tc
    BY <1>0, <2>1
  <2>2. CASE Cardinality(Planned(tc, chunk, Settled)) <= iteration
    <3> DEFINE old == Cardinality(Planned(tc, chunk, Settled))
    <3>1. old \in Nat /\ old <= iteration
      BY <1>0, <1>8, <2>2, PlannedFinite, FS_CardinalityType
    <3> HIDE DEF old
    <3>2. CASE InRequest(t)'
      BY <1>0, <1>9, <3>1, <3>2 DEF old
    <3>3. CASE ~InRequest(t)' /\ FacaSizes(t, k) = {}
      <4>1. Planned(tc, chunk, Settled \cup {k}) = Planned(tc, chunk, Settled)
        BY <1>0, <3>3, PlannedNone DEF FacaSizes
      <4>2. Settled' = Settled \cup {k}
        BY <1>9, <3>3
      <4>3. Cardinality(Planned(tc, chunk, Settled')) = old
        BY <4>1, <4>2 DEF old
      <4> QED BY <1>0, <3>1, <4>3
    <3>4. CASE ~InRequest(t)' /\ \E cs \in Nat : cs \in FacaSizes(t, k) /\ iteration' = iteration + cs
      <4>1. PICK cs \in Nat : cs \in FacaSizes(t, k) /\ iteration' = iteration + cs
        BY <3>4
      <4> DEFINE new == Cardinality(Planned(tc, chunk, Settled \cup {k}))
      <4>2. new <= old + cs
        BY <1>0, <1>3, <1>8, <4>1, PlannedOne DEF FacaSizes, old
      <4>3. new \in Nat
        <5>1. Settled \cup {k} \in SUBSET (0 .. counter - 1)
          BY <1>3, <1>8
        <5> QED BY <1>0, <5>1, PlannedFinite, FS_CardinalityType
      <4>4. new <= iteration'
        <5> HIDE DEF new
        <5> QED BY <1>0, <3>1, <4>1, <4>2, <4>3
      <4> QED BY <1>9, <3>4, <4>4
    <3>5. CASE iteration' >= tc
      BY <3>5
    <3> QED BY <3>2, <3>3, <3>4, <3>5
  <2> QED BY <1>1, <2>1, <2>2
<1> QED BY <1>0, <1>2, <1>5, <1>6, <1>7, <1>10 DEF FacaInv

LEMMA FacaNext == Typed /\ Typed' /\ CursorExact /\ FacaInv /\ [Next]_vars => FacaInv'
<1> SUFFICES ASSUME Typed, Typed', CursorExact, FacaInv, [Next]_vars, schedule = "faca" PROVE FacaInv'
  BY DEF FacaInv, Next, Finished, ThreadStep, ZeroTrip, FetchIndex, TakeNumber, ReadCursor,
         Cas, Tail, AddChunk, StaticChunked, StaticBalanced, descr, vars
<1>0. /\ tc \in Nat /\ iteration \in Nat /\ iteration' \in Nat /\ counter \in Nat
      /\ local \in [Threads -> Local] /\ pc \in [Threads -> PcValues]
      /\ \A t \in Threads : local[t].number \in Nat /\ local[t].number <= MaxNumber
  BY DescriptorFacts, TeamAssumption DEF Typed, PcValues, Local
<1>a. schedule \in CasLoop /\ schedule \in Numbered /\ schedule \notin Guided /\ schedule \notin Index
      /\ schedule \notin AddOnce /\ schedule \notin Static
  BY DEF CasLoop, Numbered, Guided, Index, AddOnce, Static
<1>b. \A t \in Threads : Poised(t)
  BY <1>a, CursorParts
<1>1. ASSUME NEW t \in Threads, ThreadStep(t) PROVE FacaInv'
  <2>0. UNCHANGED descr /\ schedule' = schedule /\ tc' = tc /\ chunk' = chunk
    <3>1. UNCHANGED descr
      BY <1>1 DEF ThreadStep, ZeroTrip, FetchIndex, TakeNumber, ReadCursor, Cas, Tail,
                  AddChunk, StaticChunked, StaticBalanced
    <3> QED BY <3>1 DEF descr
  <2>a. \A u, x : FacaSizes(u, x)' = FacaSizes(u, x)
    BY <2>0 DEF FacaSizes
  <2>1. CASE ZeroTrip(t)
    <3>1. /\ \A u \in Threads : pc'[u] = (IF u = t THEN "left" ELSE pc[u])
          /\ \A u \in Threads \ {t} : local'[u] = local[u]
          /\ pc[t] = "next" /\ tc = 0 /\ iteration' = iteration /\ counter' = counter
      BY <1>0, <2>1 DEF ZeroTrip, Stop
    <3>2. \A u \in Threads : InRequest(u)' <=> InRequest(u)
      BY <3>1 DEF InRequest
    <3>3. Apart'
      BY <3>1, <3>2 DEF Apart, FacaInv, InRequest
    <3>4. iteration' >= tc'
      BY <1>0, <2>0, <3>1
    <3>5. \A u \in Threads : pc'[u] = "cas" => local'[u].size \in FacaSizes(u, local'[u].number)
      BY <3>1 DEF FacaInv
    <3> QED BY <2>a, <3>3, <3>4, <3>5 DEF FacaInv
  <2>2. CASE TakeNumber(t)
    <3> DEFINE k == counter
    <3>1. /\ pc[t] = "next" /\ counter' = counter + 1 /\ iteration' = iteration
          /\ \A u \in Threads : pc'[u] = (IF u = t THEN "size" ELSE pc[u])
          /\ \A u \in Threads \ {t} : local'[u] = local[u]
          /\ local'[t].number = counter
      BY <1>0, <2>2 DEF TakeNumber, Local
    <3>2. InRequest(t)' /\ ~InRequest(t) /\ \A u \in Threads \ {t} : InRequest(u)' <=> InRequest(u)
      BY <3>1 DEF InRequest
    <3>3. Apart'
      BY <1>0, <3>1, <3>2 DEF Apart, FacaInv
    <3>4. Settled' = Settled
      <4>1. ASSUME NEW x PROVE x \in Settled' <=> x \in Settled
        BY <1>0, <3>1, <3>2 DEF Settled
      <4> QED BY <4>1
    <3>5. \A u \in Threads : pc'[u] = "cas" => local'[u].size \in FacaSizes(u, local'[u].number)
      BY <3>1 DEF FacaInv
    <3>6. \A u \in Threads : pc'[u] = "left" =>
             iteration' >= tc' \/ \E x \in 0 .. counter' - 1 : \E v \in Threads : FacaSizes(v, x) = {}
      <4>1. 0 .. counter - 1 \subseteq 0 .. counter' - 1
        BY <1>0, <3>1
      <4> QED BY <2>0, <3>1, <4>1 DEF FacaInv
    <3>7. iteration' >= tc' \/ Cardinality(Planned(tc', chunk', Settled')) <= iteration'
      BY <2>0, <3>1, <3>4 DEF FacaInv
    <3> QED BY <2>a, <3>3, <3>5, <3>6, <3>7 DEF FacaInv
  <2>3. CASE ReadCursor(t)
    <3>1. /\ pc[t] = "size" /\ iteration' = iteration /\ counter' = counter
          /\ Computed(t, tc - iteration) = FacaSizes(t, local[t].number)
          /\ InRequest(t)
      BY <1>a, <2>3 DEF ReadCursor, Ready, Computed, FacaSizes, InRequest
    <3>2. CASE Stop(t) /\ (tc - iteration <= 0 \/ FacaSizes(t, local[t].number) = {})
      <4>1. /\ pc'[t] = "left" /\ \A u \in Threads \ {t} : pc'[u] = pc[u] /\ local'[u] = local[u]
        BY <1>0, <3>2 DEF Stop
      <4>2. iteration' >= tc \/ FacaSizes(t, local[t].number) = {}
        BY <1>0, <3>1, <3>2
      <4>3. ~InRequest(t)'
        BY <4>1 DEF InRequest
      <4> QED BY <1>0, <2>0, <3>1, <4>1, <4>2, <4>3, FacaFrame
    <3>3. CASE /\ \E cs \in FacaSizes(t, local[t].number) :
                    local' = [local EXCEPT ![t].init = iteration, ![t].size = cs]
               /\ pc' = [pc EXCEPT ![t] = "cas"]
      <4>1. PICK cs \in FacaSizes(t, local[t].number) :
                    local' = [local EXCEPT ![t].init = iteration, ![t].size = cs]
        BY <3>3
      <4>2. /\ pc'[t] = "cas" /\ local'[t].number = local[t].number /\ local'[t].size = cs
            /\ \A u \in Threads \ {t} : pc'[u] = pc[u] /\ local'[u] = local[u]
        BY <1>0, <3>3, <4>1 DEF Local
      <4>3. InRequest(t)'
        BY <4>2 DEF InRequest
      <4> QED BY <1>0, <2>0, <3>1, <4>1, <4>2, <4>3, FacaFrame
    <3> QED BY <1>a, <2>3, <3>1, <3>2, <3>3 DEF ReadCursor
  <2>4. CASE Cas(t)
    <3>1. pc[t] = "cas" /\ counter' = counter /\ InRequest(t)
      BY <2>4 DEF Cas, InRequest
    <3>2. local[t].size \in FacaSizes(t, local[t].number) /\ local[t].size \in Nat
      BY <1>0, <3>1 DEF FacaInv, Local
    <3>3. CASE iteration = local[t].init
      <4>1. iteration' = iteration + local[t].size /\ pc'[t] = "next"
            /\ \A u \in Threads \ {t} : pc'[u] = pc[u] /\ local'[u] = local[u]
        BY <1>0, <2>4, <3>3 DEF Cas, Return
      <4>2. ~InRequest(t)' /\ iteration <= iteration'
        BY <1>0, <3>2, <4>1 DEF InRequest
      <4> QED BY <1>0, <2>0, <3>1, <3>2, <4>1, <4>2, FacaFrame
    <3>4. CASE iteration # local[t].init
      <4>1. iteration' = iteration /\ pc'[t] = "size" /\ local'[t].number = local[t].number
            /\ \A u \in Threads \ {t} : pc'[u] = pc[u] /\ local'[u] = local[u]
        BY <1>0, <1>a, <2>4, <3>4 DEF Cas, Retry, Local
      <4>2. InRequest(t)'
        BY <4>1 DEF InRequest
      <4> QED BY <1>0, <2>0, <3>1, <4>1, <4>2, FacaFrame
    <3> QED BY <3>3, <3>4
  <2>5. CASE FetchIndex(t) \/ Tail(t) \/ AddChunk(t) \/ StaticChunked(t) \/ StaticBalanced(t)
    BY <1>a, <1>b, <2>5 DEF FetchIndex, Tail, Poised, AddChunk, StaticChunked, StaticBalanced, Static
  <2> QED BY <1>1, <2>1, <2>2, <2>3, <2>4, <2>5 DEF ThreadStep
<1>2. CASE UNCHANGED vars
  BY <1>2 DEF vars, descr, FacaInv, Apart, InRequest, Settled, FacaSizes
<1> QED BY <1>1, <1>2 DEF Next, Finished

\* When all have left, FACa's cursor is at the end.
LEMMA FacaAtEnd ==
    ASSUME Typed, FacaInv, schedule = "faca", AllLeft
    PROVE  iteration >= tc
<1>0. tc \in Nat /\ iteration \in Nat /\ counter \in Nat /\ counter <= MaxNumber + 1
      /\ descr \in Descriptors /\ MaxNumber \in Nat
  BY DescriptorFacts, TeamAssumption DEF Typed
<1>1. Settled = 0 .. counter - 1
  BY DEF Settled, AllLeft, InRequest
<1> SUFFICES ASSUME ~(iteration >= tc) PROVE FALSE
  OBVIOUS
<1>2. 0 \in Threads
  BY TeamAssumption DEF Threads
<1>3. PICK k \in 0 .. counter - 1, u \in Threads : FacaSizes(u, k) = {}
  BY <1>2 DEF FacaInv, AllLeft
<1>4. tc <= Cardinality(Planned(tc, chunk, 0 .. k - 1))
  <2>1. descr[1] = schedule /\ descr[2] = tc /\ descr[3] = chunk
    BY DEF descr
  <2> HIDE DEF descr
  <2>2. descr[1] = "faca" /\ descr[2] > 0 /\ k \in 0 .. MaxNumber
    BY <1>0, <2>1
  <2>3. Sizes("faca", descr[2], descr[3], u, k) = {}
    BY <1>3, <2>1 DEF FacaSizes
  <2>4. descr[2] <= Cardinality(Planned(descr[2], descr[3], 0 .. k - 1))
    BY <1>0, <2>2, <2>3, FacaAssumption
  <2> QED BY <2>1, <2>4
<1>5. Cardinality(Planned(tc, chunk, 0 .. k - 1)) <= Cardinality(Planned(tc, chunk, 0 .. counter - 1))
  <2>1. 0 .. k - 1 \in SUBSET (0 .. counter - 1)
    BY <1>0
  <2> QED BY <1>0, <2>1, PlannedMonotone
<1>6. Cardinality(Planned(tc, chunk, 0 .. counter - 1)) <= iteration
  BY <1>1 DEF FacaInv
<1>7. /\ Cardinality(Planned(tc, chunk, 0 .. k - 1)) \in Nat
      /\ Cardinality(Planned(tc, chunk, 0 .. counter - 1)) \in Nat
  <2>1. k \in Nat /\ 0 .. k - 1 \in SUBSET (0 .. k - 1)
        /\ 0 .. counter - 1 \in SUBSET (0 .. counter - 1)
    BY <1>0
  <2> QED BY <1>0, <2>1, PlannedFinite, FS_CardinalityType
<1> QED BY <1>0, <1>4, <1>5, <1>6, <1>7
---------------------------------------------------------------------------
(***************************************************************************)
(* How far past the end the cursor goes: whoever moves it there leaves.    *)
(***************************************************************************)
Gone == Cardinality({t \in Threads : pc[t] = "left"})
AtEdge(k) == Edge(schedule, tc, chunk, k)

OverrunInv ==
    /\ schedule \in Index => \A k \in 0 .. iteration - 1 :
          AtEdge(k) = tc => AtEdge(iteration) = tc /\ iteration - k <= Gone
    /\ schedule \notin Index =>
          /\ iteration <= tc + (Gone + 1) * Largest(schedule, tc, chunk)
          /\ \A t \in Threads : pc[t] = "cas" => local[t].size <= Largest(schedule, tc, chunk)

LEMMA ThreadsCounted ==
    /\ IsFiniteSet(Threads) /\ Cardinality(Threads) = NProc
    /\ \A S \in SUBSET Threads : IsFiniteSet(S) /\ Cardinality(S) \in Nat /\ Cardinality(S) <= NProc
<1>1. IsFiniteSet(Threads) /\ Cardinality(Threads) = NProc
  BY FS_Interval, TeamAssumption DEF Threads
<1> QED BY <1>1, FS_Subset, FS_CardinalityType

LEMMA LargestNat ==
    ASSUME Typed
    PROVE  Largest(schedule, tc, chunk) \in Nat /\ chunk <= Largest(schedule, tc, chunk)
<1>1. tc \in Nat /\ chunk \in Nat /\ MaxNumber \in Nat
  BY DescriptorFacts, TeamAssumption DEF Typed
<1> DEFINE m == tc + chunk
<1>2. m \in Nat /\ chunk <= m
  BY <1>1
<1>3. m * (MaxNumber + 1) = m * MaxNumber + m /\ m * MaxNumber \in Nat
  <2> HIDE DEF m
  <2> QED BY <1>1, <1>2
<1>4. Largest(schedule, tc, chunk) \in {m, m * (MaxNumber + 1)}
  BY DEF Largest
<1> HIDE DEF m
<1> QED BY <1>1, <1>2, <1>3, <1>4

\* What a thread may compute is no larger.
LEMMA ComputedBound ==
    ASSUME Typed, NEW t \in Threads, tc # 0, schedule \in CasLoop \cup AddOnce,
           NEW remaining \in 1 .. tc, schedule \in Guided => remaining >= Switch(chunk),
           NEW cs \in Computed(t, remaining)
    PROVE  cs <= Largest(schedule, tc, chunk)
<1>1. tc \in Nat /\ tc > 0
  BY DescriptorFacts DEF Typed
<1> DEFINE x == IF schedule \in Numbered THEN local[t].number ELSE remaining
<1>2. x \in Inputs(schedule, tc, chunk)
  BY InputFacts
<1>3. cs \in Sizes(schedule, tc, chunk, t, x)
  BY DEF Computed
<1>4. descr \in Descriptors
  BY DEF Typed
<1> HIDE DEF x
<1>5. descr[1] = schedule /\ descr[2] = tc /\ descr[3] = chunk
  BY DEF descr
<1> HIDE DEF descr
<1>6. descr[1] \in CasLoop \cup AddOnce /\ descr[2] > 0 /\ x \in Inputs(descr[1], descr[2], descr[3])
  BY <1>1, <1>2, <1>5
<1>7. Sizes(descr[1], descr[2], descr[3], t, x) \subseteq 0 .. Largest(descr[1], descr[2], descr[3])
  BY <1>4, <1>6, SizeAssumption
<1>8. Sizes(schedule, tc, chunk, t, x) \subseteq 0 .. Largest(schedule, tc, chunk)
  BY <1>5, <1>7
<1> QED BY <1>3, <1>8

\* The count of the threads that have left, in a step of thread t.
LEMMA GoneCount ==
    ASSUME Typed, NEW t \in Threads, pc[t] # "left",
           \A u \in Threads \ {t} : pc'[u] = pc[u]
    PROVE  /\ Gone \in Nat /\ Gone' \in Nat /\ Gone <= Gone'
           /\ pc'[t] = "left" => Gone' = Gone + 1
<1> DEFINE S == {u \in Threads : pc[u] = "left"}
           T == {u \in Threads : pc'[u] = "left"}
<1>1. S \in SUBSET Threads /\ T \in SUBSET Threads /\ t \notin S
  OBVIOUS
<1>2. Gone = Cardinality(S) /\ Gone' = Cardinality(T)
  BY DEF Gone
<1>3. IF pc'[t] = "left" THEN T = S \cup {t} ELSE T = S
  OBVIOUS
<1> HIDE DEF S, T
<1>4. IsFiniteSet(S) /\ Cardinality(S) \in Nat
  BY <1>1, ThreadsCounted
<1>5. Cardinality(S \cup {t}) = Cardinality(S) + 1
  BY <1>1, <1>4, FS_AddElement
<1> DEFINE g == Gone
           h == Gone'
<1>6. g = Cardinality(S) /\ h = IF pc'[t] = "left" THEN g + 1 ELSE g
  BY <1>2, <1>3, <1>5
<1>7. g \in Nat
  BY <1>4, <1>6
<1> HIDE DEF g, h
<1>8. g \in Nat /\ h \in Nat /\ g <= h /\ (pc'[t] = "left" => h = g + 1)
  BY <1>6, <1>7
<1> QED BY <1>8 DEF g, h

LEMMA OverrunInit == Init => OverrunInv
<1> SUFFICES ASSUME Init PROVE OverrunInv
  OBVIOUS
<1>1. Typed /\ iteration = 0 /\ \A t \in Threads : pc[t] = "next"
  BY TypedInit DEF Init
<1>2. tc \in Nat /\ Largest(schedule, tc, chunk) \in Nat
  BY <1>1, LargestNat, DescriptorFacts DEF Typed
<1>3. Gone \in Nat
  BY ThreadsCounted DEF Gone
<1> DEFINE m == Largest(schedule, tc, chunk)
<1> HIDE DEF m
<1>4. m \in Nat => (Gone + 1) * m \in Nat
  BY <1>3
<1>5. iteration <= tc + (Gone + 1) * m
  BY <1>1, <1>2, <1>4 DEF m
<1>6. 0 .. iteration - 1 = {}
  BY <1>1
<1> QED BY <1>1, <1>5, <1>6 DEF OverrunInv, m

\* The cursor moves before the end, or a thread moves it once more and leaves.
LEMMA Overruns ==
    ASSUME Typed, Typed', OverrunInv, schedule \notin Index, UNCHANGED descr, NEW t \in Threads,
           pc[t] # "left", \A u \in Threads \ {t} : pc'[u] = pc[u] /\ local'[u] = local[u],
           NEW cs \in Nat, cs <= Largest(schedule, tc, chunk),
           iteration' = iteration \/ (iteration' = iteration + cs /\ (iteration < tc \/ pc'[t] = "left")),
           pc'[t] = "cas" => local'[t].size <= Largest(schedule, tc, chunk)
    PROVE  OverrunInv'
<1> DEFINE m == Largest(schedule, tc, chunk)
<1>0. /\ tc \in Nat /\ iteration \in Nat /\ m \in Nat
      /\ tc' = tc /\ schedule' = schedule /\ Largest(schedule, tc, chunk)' = m
  BY DescriptorFacts, LargestNat DEF Typed, descr
<1>1. /\ iteration <= tc + (Gone + 1) * m
      /\ \A u \in Threads : pc[u] = "cas" => local[u].size <= m
  BY DEF OverrunInv
<1>2. Gone \in Nat /\ Gone' \in Nat /\ Gone <= Gone' /\ (pc'[t] = "left" => Gone' = Gone + 1)
  BY GoneCount
<1>3. cs <= m /\ (pc'[t] = "cas" => local'[t].size <= m)
  OBVIOUS
<1> HIDE DEF m
<1> DEFINE g == Gone
           h == Gone'
<1>4. /\ (g + 1) * m = g * m + m /\ (h + 1) * m = h * m + m
      /\ g * m \in Nat /\ h * m \in Nat
      /\ g * m <= h * m
      /\ h = g + 1 => h * m = g * m + m
  <2>1. g \in Nat /\ h \in Nat /\ g <= h
    BY <1>2
  <2> HIDE DEF g, h
  <2>2. m * g = g * m /\ m * h = h * m
    BY <1>0, <2>1
  <2>3. m * g <= m * h
    BY <1>0, <2>1, MulMono
  <2> QED BY <1>0, <2>1, <2>2, <2>3
<1>5. iteration' <= tc + (h + 1) * m
  <2>1. iteration <= tc + (g + 1) * m /\ (pc'[t] = "left" => h = g + 1)
    BY <1>1, <1>2
  <2> HIDE DEF g, h
  <2> QED BY <1>0, <1>3, <1>4, <2>1
<1>6. ASSUME NEW u \in Threads, pc'[u] = "cas" PROVE local'[u].size <= m
  BY <1>1, <1>3, <1>6
<1> QED BY <1>0, <1>5, <1>6 DEF OverrunInv

\* Every step.
LEMMA OverrunNext ==
    Typed /\ Typed' /\ CursorExact /\ StaticInv /\ OverrunInv /\ [Next]_vars => OverrunInv'
<1> SUFFICES ASSUME Typed, Typed', CursorExact, StaticInv, OverrunInv, [Next]_vars PROVE OverrunInv'
  OBVIOUS
<1>0. /\ tc \in Nat /\ chunk \in Nat \ {0} /\ iteration \in Nat
      /\ schedule \in AllSchedules /\ descr \in Descriptors
      /\ local \in [Threads -> Local] /\ pc \in [Threads -> PcValues]
      /\ chunk <= Largest(schedule, tc, chunk) /\ Largest(schedule, tc, chunk) \in Nat
  BY DescriptorFacts, LargestNat DEF Typed, PcValues
<1>1. ASSUME NEW t \in Threads, ThreadStep(t) PROVE OverrunInv'
  <2>0. UNCHANGED descr /\ schedule' = schedule /\ tc' = tc /\ chunk' = chunk /\ pc[t] # "left"
    <3>1. UNCHANGED descr /\ pc[t] # "left"
      BY <1>1 DEF ThreadStep, ZeroTrip, FetchIndex, TakeNumber, ReadCursor, Cas, Tail,
                  AddChunk, StaticChunked, StaticBalanced, Ready
    <3> QED BY <3>1 DEF descr
  <2>a. \A k : AtEdge(k)' = Edge(schedule, tc, chunk, k)
    BY <2>0 DEF AtEdge
  <2>b. ASSUME schedule \in Index PROVE OverrunInv'
    <3>1. CASE ZeroTrip(t)
      <4>1. iteration' = iteration /\ \A u \in Threads \ {t} : pc'[u] = pc[u]
        BY <1>0, <3>1 DEF ZeroTrip, Stop
      <4>2. Gone \in Nat /\ Gone' \in Nat /\ Gone <= Gone'
        BY <2>0, <4>1, GoneCount
      <4>3. \A k \in 0 .. iteration - 1 : AtEdge(k) = tc => AtEdge(iteration) = tc /\ iteration - k <= Gone
        BY <2>b DEF OverrunInv
      <4>4. \A k \in 0 .. iteration' - 1 :
              Edge(schedule, tc, chunk, k) = tc =>
                Edge(schedule, tc, chunk, iteration') = tc /\ iteration' - k <= Gone'
        BY <1>0, <4>1, <4>2, <4>3 DEF AtEdge
      <4> QED BY <2>0, <2>b, <4>4 DEF OverrunInv, AtEdge
    <3>2. CASE FetchIndex(t)
      <4>1. iteration' = iteration + 1 /\ iteration \in 0 .. MaxNumber
            /\ \A u \in Threads \ {t} : pc'[u] = pc[u]
        BY <1>0, <3>2, TeamAssumption DEF FetchIndex, Stop, Return
      <4>2. Gone \in Nat /\ Gone' \in Nat /\ Gone <= Gone' /\ (pc'[t] = "left" => Gone' = Gone + 1)
        BY <2>0, <4>1, GoneCount
      <4>3. \A k \in 0 .. iteration - 1 : AtEdge(k) = tc => AtEdge(iteration) = tc /\ iteration - k <= Gone
        BY <2>b DEF OverrunInv
      <4>4. AtEdge(iteration) = tc => Edge(schedule, tc, chunk, iteration + 1) = tc /\ pc'[t] = "left"
        <5>1. AtEdge(iteration) = tc => Edge(schedule, tc, chunk, iteration + 1) = tc
          BY <1>0, <2>b, <4>1, EdgeFacts DEF AtEdge
        <5>2. AtEdge(iteration) = tc =>
                ~(Served(schedule, tc, chunk, iteration) /\ First(schedule, tc, chunk, iteration) < tc)
          BY <1>0 DEF AtEdge, Edge
        <5>3. AtEdge(iteration) = tc => Stop(t)
          BY <3>2, <5>2 DEF FetchIndex
        <5> QED BY <1>0, <5>1, <5>3 DEF Stop
      <4>5. ASSUME NEW k \in 0 .. iteration' - 1, AtEdge(k) = tc
            PROVE  Edge(schedule, tc, chunk, iteration') = tc /\ iteration' - k <= Gone'
        <5>1. CASE k = iteration
          BY <1>0, <4>1, <4>2, <4>4, <4>5, <5>1
        <5>2. CASE k # iteration
          <6>1. k \in 0 .. iteration - 1
            BY <1>0, <4>1, <5>2
          <6>2. AtEdge(iteration) = tc /\ iteration - k <= Gone
            BY <4>3, <4>5, <6>1
          <6> QED BY <1>0, <4>1, <4>2, <4>4, <6>1, <6>2
        <5> QED BY <5>1, <5>2
      <4> QED BY <2>0, <2>b, <4>5 DEF OverrunInv, AtEdge
    <3>3. CASE TakeNumber(t) \/ ReadCursor(t) \/ Cas(t) \/ Tail(t) \/ AddChunk(t)
               \/ StaticChunked(t) \/ StaticBalanced(t)
      <4>1. schedule \notin Numbered \cup CasLoop \cup AddOnce \cup Static
        BY <2>b DEF Index, Numbered, CasLoop, AddOnce, Static, Guided
      <4>2. Poised(t)
        BY <4>1, CursorParts
      <4> QED BY <3>3, <4>1, <4>2 DEF TakeNumber, ReadCursor, Cas, Tail, Poised, AddChunk,
                   StaticChunked, StaticBalanced, Static, CasLoop
    <3> QED BY <1>1, <3>1, <3>2, <3>3 DEF ThreadStep
  <2>c. ASSUME schedule \notin Index PROVE OverrunInv'
    <3>a. ASSUME iteration' = iteration, \A u \in Threads \ {t} : pc'[u] = pc[u] /\ local'[u] = local[u],
                 pc'[t] # "cas"
          PROVE  OverrunInv'
      BY <1>0, <2>0, <2>c, <3>a, Overruns
    <3>1. CASE ZeroTrip(t) \/ TakeNumber(t) \/ StaticChunked(t) \/ StaticBalanced(t)
      <4>1. /\ iteration' = iteration /\ \A u \in Threads \ {t} : pc'[u] = pc[u] /\ local'[u] = local[u]
            /\ pc'[t] # "cas"
        BY <1>0, <3>1 DEF ZeroTrip, TakeNumber, StaticChunked, StaticBalanced, Stop, Return
      <4> QED BY <3>a, <4>1
    <3>2. CASE ReadCursor(t)
      <4>1. iteration' = iteration /\ schedule \in CasLoop /\ tc # 0
            /\ \A u \in Threads \ {t} : pc'[u] = pc[u] /\ local'[u] = local[u]
        BY <1>0, <3>2 DEF ReadCursor, Stop
      <4>2. CASE pc'[t] # "cas"
        BY <3>a, <4>1, <4>2
      <4>3. CASE pc'[t] = "cas"
        <5>1. /\ tc - iteration > 0 /\ ~(schedule \in Guided /\ tc - iteration < Switch(chunk))
              /\ \E cs \in Computed(t, tc - iteration) :
                    local' = [local EXCEPT ![t].init = iteration, ![t].size = cs]
          BY <1>0, <3>2, <4>3 DEF ReadCursor, Stop
        <5>2. PICK cs \in Computed(t, tc - iteration) :
                    local' = [local EXCEPT ![t].init = iteration, ![t].size = cs]
          BY <5>1
        <5>3. Switch(chunk) \in Nat
          BY <1>0, TeamAssumption DEF Switch
        <5>4. tc - iteration \in 1 .. tc
              /\ (schedule \in Guided => tc - iteration >= Switch(chunk))
          BY <1>0, <5>1, <5>3
        <5>5. cs <= Largest(schedule, tc, chunk)
          BY <4>1, <5>4, ComputedBound
        <5>6. local'[t].size = cs
          BY <1>0, <5>2 DEF Local
        <5> QED BY <1>0, <2>0, <2>c, <4>1, <5>5, <5>6, Overruns
      <4> QED BY <4>2, <4>3
    <3>3. CASE Cas(t)
      <4>1. pc[t] = "cas" /\ local[t].size \in Nat /\ local[t].size <= Largest(schedule, tc, chunk)
        BY <1>0, <2>c, <3>3 DEF Cas, OverrunInv, Local
      <4>2. schedule \notin Static /\ local[t].init < tc
        BY <4>1 DEF CursorExact, StaticInv
      <4>3. /\ iteration' = iteration \/ (iteration' = iteration + local[t].size /\ iteration < tc)
            /\ \A u \in Threads \ {t} : pc'[u] = pc[u] /\ local'[u] = local[u]
            /\ pc'[t] # "cas"
        BY <1>0, <3>3, <4>2 DEF Cas, Retry, Return
      <4> QED BY <1>0, <2>0, <2>c, <4>1, <4>3, Overruns
    <3>4. CASE Tail(t)
      <4>1. /\ iteration' = iteration + chunk /\ (iteration < tc \/ pc'[t] = "left")
            /\ \A u \in Threads \ {t} : pc'[u] = pc[u] /\ local'[u] = local[u]
            /\ pc'[t] # "cas"
        BY <1>0, <3>4 DEF Tail, Stop, Return
      <4> QED BY <1>0, <2>0, <2>c, <4>1, Overruns
    <3>5. CASE AddChunk(t)
      <4>1. schedule \in AddOnce /\ tc \in 1 .. tc /\ schedule \notin Guided /\ tc # 0
        BY <1>0, <3>5 DEF AddChunk, AddOnce, Guided
      <4>2. PICK cs \in Computed(t, tc) :
              /\ iteration' = iteration + cs
              /\ IF iteration <= (IF iteration + cs >= tc THEN tc - 1 ELSE iteration + cs - 1)
                   THEN Return(t, iteration, iteration + cs, FALSE)
                   ELSE Stop(t)
        BY <3>5 DEF AddChunk
      <4>3. cs \in Nat /\ cs <= Largest(schedule, tc, chunk)
        BY <1>0, <4>1, ComputedFacts, ComputedBound
      <4>4. CASE iteration < tc /\ cs > 0
        <5>1. iteration <= (IF iteration + cs >= tc THEN tc - 1 ELSE iteration + cs - 1)
          BY <1>0, <4>3, <4>4
        <5>2. Return(t, iteration, iteration + cs, FALSE)
          BY <4>2, <5>1
        <5>3. (\A u \in Threads \ {t} : pc'[u] = pc[u] /\ local'[u] = local[u]) /\ pc'[t] # "cas"
          BY <1>0, <5>2 DEF Return
        <5> QED BY <1>0, <2>0, <2>c, <4>2, <4>3, <4>4, <5>3, Overruns
      <4>5. CASE ~(iteration < tc /\ cs > 0)
        <5>1. ~(iteration <= (IF iteration + cs >= tc THEN tc - 1 ELSE iteration + cs - 1))
          BY <1>0, <4>3, <4>5
        <5>2. Stop(t)
          BY <4>2, <5>1
        <5>3. (\A u \in Threads \ {t} : pc'[u] = pc[u] /\ local'[u] = local[u]) /\ pc'[t] = "left"
          BY <1>0, <5>2 DEF Stop
        <5> QED BY <1>0, <2>0, <2>c, <4>2, <4>3, <5>3, Overruns
      <4> QED BY <4>4, <4>5
    <3>6. CASE FetchIndex(t)
      BY <2>c, <3>6 DEF FetchIndex
    <3> QED BY <1>1, <3>1, <3>2, <3>3, <3>4, <3>5, <3>6 DEF ThreadStep
  <2> QED BY <2>b, <2>c
<1>2. CASE UNCHANGED vars
  BY <1>2 DEF vars, descr, OverrunInv, Gone, AtEdge
<1> QED BY <1>1, <1>2 DEF Next, Finished

\* Then the cursor is bounded.
LEMMA OverrunBounded == Typed /\ OverrunInv => Bounded
<1> SUFFICES ASSUME Typed, OverrunInv PROVE Bounded
  OBVIOUS
<1>0. tc \in Nat /\ iteration \in Nat /\ descr \in Descriptors /\ NProc \in Nat /\ MaxNumber \in Nat
  BY DescriptorFacts, TeamAssumption DEF Typed
<1>1. Gone \in Nat /\ Gone <= NProc
  BY ThreadsCounted DEF Gone
<1>2. CASE schedule \in Index
  <2> SUFFICES ASSUME iteration > NProc PROVE AtEdge(iteration - NProc - 1) < tc
    BY <1>2 DEF Bounded, AtEdge
  <2> DEFINE k == iteration - NProc - 1
  <2>1. k \in 0 .. iteration - 1 /\ k \in 0 .. MaxNumber + 1 /\ iteration - k = NProc + 1
    BY <1>0, <1>2 DEF Typed
  <2> HIDE DEF k
  <2>2. AtEdge(k) # tc
    BY <1>0, <1>1, <1>2, <2>1 DEF OverrunInv
  <2>3. AtEdge(k) \in 0 .. tc
    BY <1>0, <1>2, <2>1, EdgeFacts DEF AtEdge
  <2> QED BY <1>0, <2>2, <2>3 DEF k
<1>3. CASE schedule \notin Index
  <2> DEFINE m == Largest(schedule, tc, chunk)
             g == Gone
  <2>1. m \in Nat /\ g \in Nat /\ g <= NProc /\ iteration <= tc + (g + 1) * m
    BY <1>1, <1>3, LargestNat DEF OverrunInv
  <2>2. Bounded <=> iteration <= tc + (NProc + 1) * m
    BY <1>3 DEF Bounded
  <2> HIDE DEF m, g
  <2>3. (g + 1) * m <= (NProc + 1) * m /\ (g + 1) * m \in Nat /\ (NProc + 1) * m \in Nat
    <3>1. g + 1 \in Nat /\ NProc + 1 \in Nat /\ g + 1 <= NProc + 1
      BY <1>0, <2>1
    <3>2. m * (g + 1) <= m * (NProc + 1)
      BY <2>1, <3>1, MulMono
    <3> QED BY <2>1, <3>1, <3>2
  <2> QED BY <1>0, <2>1, <2>2, <2>3
<1> QED BY <1>2, <1>3
---------------------------------------------------------------------------
(***************************************************************************)
(* Results.                                                                *)
(***************************************************************************)
\* Whatever the interleaving of the threads in next, exactly the iterations below
\* the shared cursor have been handed out, each once, and a thread that got status
\* 0 left a cursor at the end (CursorExact; every shared schedule of next).
THEOREM SelfCursorExact == Spec => [](Typed /\ CursorExact)
<1>1. Init => Typed /\ CursorExact
  BY TypedInit, CursorInit
<1>2. Typed /\ CursorExact /\ [Next]_vars => (Typed /\ CursorExact)'
  BY TypedNext, CursorNext
<1> QED BY <1>1, <1>2, PTL DEF Spec

\* The static schedules keep an account of their own, whoever owns the iterations.
LEMMA StaticHolds == Spec => [](Typed /\ CursorExact /\ StaticInv)
<1>1. Init => StaticInv
  BY StaticInit
<1>2. Typed /\ StaticInv /\ [Next]_vars => StaticInv'
  BY StaticNext
<1> QED BY <1>1, <1>2, SelfCursorExact, PTL DEF Spec

\* And FACa one of the requests that are in no thread's hands.
LEMMA FacaHolds == Spec => [](Typed /\ CursorExact /\ FacaInv)
<1>1. Init => FacaInv
  BY FacaInit
<1>2. Typed /\ CursorExact /\ FacaInv /\ (Typed /\ CursorExact)' /\ [Next]_vars => FacaInv'
  BY FacaNext
<1> QED BY <1>1, <1>2, SelfCursorExact, PTL DEF Spec

\* No iteration goes to two threads, or twice to one, under any schedule of the
\* dispatcher, for any team, trip count, chunk argument and size formula that keeps
\* SizeAssumption and BlockAssumption.
THEOREM SelfAtMostOnce == Spec => []AtMostOnce
<1>1. Typed /\ CursorExact /\ StaticInv => AtMostOnce
  <2> SUFFICES ASSUME Typed, CursorExact, StaticInv, NEW i \in Iterations
               PROVE  given[i] <= 1
    BY DEF AtMostOnce
  <2>1. given[i] = 0 \/ given[i] = 1
    BY DEF CursorExact, StaticInv
  <2> QED BY <2>1
<1> QED BY <1>1, StaticHolds, PTL

\* When every thread has been told to stop, every iteration has been handed out:
\* under the static schedules each thread has been through its share, under FACa the
\* requests before the one that found nothing left have been taken too.  VISS, whose
\* chunks may be empty, is the exception.
THEOREM SelfAllHandedOut == Spec => [](schedule # "viss" => AllHandedOut)
<1>1. Typed /\ CursorExact /\ StaticInv /\ FacaInv => (schedule # "viss" => AllHandedOut)
  <2> SUFFICES ASSUME Typed, CursorExact, StaticInv, FacaInv, schedule # "viss", AllLeft,
                      NEW i \in Iterations
               PROVE  given[i] = 1
    BY DEF AllHandedOut
  <2>1. 0 \in Threads
    BY TeamAssumption DEF Threads
  <2>2. Cursor \in Nat /\ tc \in Nat /\ chunk \in Nat \ {0} /\ i \in Nat /\ i < tc
    BY CursorNat, DescriptorFacts DEF Typed, Iterations
  <2>3. CASE schedule \in Static
    <3>1. PICK t \in Threads : Owns(t, i)
      BY <2>2, OwnedOnce
    <3>2. Taken(t, i)
      BY <2>3, <3>1 DEF StaticInv, AllLeft
    <3> QED BY <2>3, <3>2 DEF StaticInv
  <2>4. CASE schedule \notin Static
    <3>1. Cursor >= tc
      <4>1. CASE schedule = "faca"
        BY <4>1, FacaAtEnd DEF Cursor, Index
      <4>2. CASE schedule # "faca"
        BY <2>1, <2>4, <4>2 DEF CursorExact, AllLeft
      <4> QED BY <4>1, <4>2
    <3>2. given[i] = IF i < Cursor THEN 1 ELSE 0
      BY <2>4 DEF CursorExact
    <3> QED BY <2>2, <3>1, <3>2
  <2> QED BY <2>3, <2>4
<1> QED BY <1>1, StaticHolds, FacaHolds, PTL

\* The shared cursor and the private records stay in their types, and the cursor
\* goes past the end of the loop by one number or one chunk of each thread.
THEOREM SelfTypes == Spec => []TypeOK
<1>1. Init => OverrunInv
  BY OverrunInit
<1>2. Typed /\ CursorExact /\ StaticInv /\ OverrunInv /\ Typed' /\ [Next]_vars => OverrunInv'
  BY OverrunNext
<1>3. Typed /\ OverrunInv => TypeOK
  BY OverrunBounded DEF TypeOK
<1> QED BY <1>1, <1>2, <1>3, StaticHolds, PTL DEF Spec
---------------------------------------------------------------------------
(***************************************************************************)
(* The promise of WorksharingLoops, for the schedules whose threads leave  *)
(* only at the end of the loop.  A step of next stutters, returns 0 or     *)
(* returns a chunk; what CursorExact says of the state after the step is   *)
(* then what the promise asks of the state before it.                      *)
(***************************************************************************)
Stutters == given' = given /\ \A u \in Threads : pc'[u] = "left" <=> pc[u] = "left"
Returns(t) == \E lo, hi \in Nat : lo < hi /\ lo < tc /\ \E last : Return(t, lo, hi, last)

\* The three kinds of steps.
LEMMA StepKinds ==
    ASSUME Typed, CursorExact, SharesCursor, NEW t \in Threads, ThreadStep(t)
    PROVE  UNCHANGED descr /\ pc[t] # "left" /\ (Stutters \/ Stop(t) \/ Returns(t))
<1>0. /\ tc \in Nat /\ chunk \in Nat \ {0} /\ iteration \in Nat /\ schedule \notin Static
      /\ pc \in [Threads -> PcValues] /\ local \in [Threads -> Local]
  BY DescriptorFacts DEF Typed, PcValues, SharesCursor
<1>a. Poised(t)
  BY <1>0, CursorParts
<1>b. UNCHANGED descr /\ pc[t] # "left"
  BY DEF ThreadStep, ZeroTrip, FetchIndex, TakeNumber, ReadCursor, Cas, Tail, AddChunk,
         StaticChunked, StaticBalanced, Ready
<1>1. CASE ZeroTrip(t)
  BY <1>b, <1>1 DEF ZeroTrip
<1>2. CASE FetchIndex(t)
  <2> DEFINE lo == First(schedule, tc, chunk, iteration)
             hi == Past(schedule, tc, chunk, iteration)
             flag == hi >= tc
             within == Served(schedule, tc, chunk, iteration) /\ lo < tc
  <2>1. schedule \in Index /\ iteration \in 0 .. MaxNumber /\ descr \in Descriptors
    BY <1>0, <1>2, TeamAssumption DEF FetchIndex, Typed
  <2>2. CASE within /\ lo < hi
    <3>1. Edge(schedule, tc, chunk, iteration) = lo
      BY <2>2 DEF Edge
    <3>2. lo \in 0 .. tc /\ hi \in Nat
      BY <2>1, <2>2, <3>1, TeamAssumption, EdgeFacts
    <3>3. Return(t, lo, hi, flag)
      BY <1>2, <2>2 DEF FetchIndex
    <3> HIDE DEF lo, hi, flag
    <3> QED BY <1>b, <2>2, <3>2, <3>3 DEF Returns
  <2>3. CASE within /\ ~(lo < hi)
    BY <1>2, <1>b, <2>3 DEF FetchIndex, Stutters
  <2>4. CASE ~within
    BY <1>2, <1>b, <2>4 DEF FetchIndex
  <2> QED BY <2>2, <2>3, <2>4
<1>3. CASE TakeNumber(t)
  BY <1>0, <1>b, <1>3 DEF TakeNumber, Stutters
<1>4. CASE ReadCursor(t)
  <2>1. \/ Stop(t)
        \/ given' = given /\ pc' \in {[pc EXCEPT ![t] = "tail"], [pc EXCEPT ![t] = "cas"]}
    BY <1>4 DEF ReadCursor
  <2> QED BY <1>0, <1>b, <2>1 DEF Stutters
<1>5. CASE Cas(t)
  <2> DEFINE lo == local[t].init
             hi == local[t].init + local[t].size
             flag == schedule \notin Guided /\ hi >= tc
  <2>1. lo \in Nat /\ hi \in Nat /\ lo < tc /\ lo < hi
    BY <1>0, <1>5, <1>a DEF Cas, Poised, Local
  <2>2. CASE iteration = lo
    <3>1. Return(t, lo, hi, flag)
      BY <1>5, <2>2 DEF Cas
    <3> HIDE DEF lo, hi, flag
    <3> QED BY <1>b, <2>1, <3>1 DEF Returns
  <2>3. CASE iteration # lo
    BY <1>0, <1>5, <1>b, <2>3 DEF Cas, Retry, Stutters
  <2> QED BY <2>2, <2>3
<1>6. CASE Tail(t)
  <2> DEFINE hi == iteration + chunk
             flag == tc - iteration <= chunk
  <2>1. CASE tc - iteration <= 0
    BY <1>6, <1>b, <2>1 DEF Tail
  <2>2. CASE ~(tc - iteration <= 0)
    <3>1. Return(t, iteration, hi, flag)
      BY <1>6, <2>2 DEF Tail
    <3>2. hi \in Nat /\ iteration < hi /\ iteration < tc
      BY <1>0, <2>2
    <3> HIDE DEF hi, flag
    <3> QED BY <1>0, <1>b, <3>1, <3>2 DEF Returns
  <2> QED BY <2>1, <2>2
<1>7. CASE AddChunk(t)
  <2>1. schedule \in AddOnce /\ tc # 0 /\ tc \in 1 .. tc /\ schedule \notin Guided /\ schedule # "viss"
    BY <1>0, <1>7 DEF AddChunk, AddOnce, Guided, SharesCursor
  <2>2. PICK cs \in Computed(t, tc) :
          LET end_index == IF iteration + cs >= tc THEN tc - 1 ELSE iteration + cs - 1
          IN  IF iteration <= end_index THEN Return(t, iteration, iteration + cs, FALSE) ELSE Stop(t)
    BY <1>7 DEF AddChunk
  <2>3. cs \in Nat /\ cs > 0
    BY <2>1, ComputedFacts
  <2> DEFINE end_index == IF iteration + cs >= tc THEN tc - 1 ELSE iteration + cs - 1
  <2>4. CASE iteration <= end_index
    <3> DEFINE hi == iteration + cs
    <3>1. Return(t, iteration, hi, FALSE)
      BY <2>2, <2>4
    <3>2. hi \in Nat /\ iteration < hi /\ iteration < tc
      BY <1>0, <2>3, <2>4
    <3> HIDE DEF hi
    <3> QED BY <1>0, <1>b, <3>1, <3>2 DEF Returns
  <2>5. CASE ~(iteration <= end_index)
    BY <1>b, <2>2, <2>5
  <2> QED BY <2>4, <2>5
<1>8. CASE StaticChunked(t) \/ StaticBalanced(t)
  BY <1>0, <1>8 DEF StaticChunked, StaticBalanced, Static
<1> QED BY <1>1, <1>2, <1>3, <1>4, <1>5, <1>6, <1>7, <1>8 DEF ThreadStep

\* The loop as the promise sees it.
Left == [t \in Threads |-> IF pc[t] = "left" THEN 1 ELSE 0]
Trip == [l \in {0} |-> tc]
Given == [l \in {0} |-> given]

\* A thread that is told to stop leaves a loop handed out completely.
LEMMA StopPromised ==
    ASSUME Typed, Typed', CursorExact', SharesCursor, UNCHANGED descr,
           NEW t \in Threads, pc[t] # "left", Stop(t)
    PROVE  Promise!Leave(t)
<1>1. /\ tc \in Nat /\ tc' = tc /\ schedule' = schedule /\ Iterations' = Iterations
      /\ pc \in [Threads -> PcValues]
  BY DescriptorFacts DEF Typed, PcValues, descr, Iterations
<1>2. pc' = [pc EXCEPT ![t] = "left"] /\ given' = given
  BY DEF Stop
<1>3. Cursor' \in Nat
  <2>1. (Typed => Cursor \in Nat /\ (schedule \in Index => Cursor <= tc))'
    BY CursorNat, PTL
  <2> QED BY <2>1
<1>4. Cursor' >= tc /\ \A i \in Iterations : given[i] = IF i < Cursor' THEN 1 ELSE 0
  BY <1>1, <1>2 DEF CursorExact, SharesCursor
<1>5. ASSUME NEW i \in Iterations PROVE given[i] = 1
  <2>1. i \in Nat /\ i < tc
    BY <1>1 DEF Iterations
  <2> QED BY <1>1, <1>3, <1>4, <2>1
<1>6. Left[t] = 0 /\ Trip[0] = tc /\ Given[0] = given
  BY DEF Left, Trip, Given
<1>7. Left' = [Left EXCEPT ![t] = Left[t] + 1]
  <2>1. \A u \in Threads : (IF pc'[u] = "left" THEN 1 ELSE 0)
                             = (IF u = t THEN Left[t] + 1 ELSE IF pc[u] = "left" THEN 1 ELSE 0)
    BY <1>1, <1>2, <1>6
  <2>2. Left' = [u \in Threads |-> IF u = t THEN Left[t] + 1 ELSE IF pc[u] = "left" THEN 1 ELSE 0]
    BY <2>1 DEF Left
  <2>3. Left \in [Threads -> {0, 1}] /\ \A u \in Threads : Left[u] = IF pc[u] = "left" THEN 1 ELSE 0
    BY DEF Left
  <2> QED BY <2>2, <2>3
<1>8. Trip' = Trip /\ Given' = Given
  BY <1>1, <1>2 DEF Trip, Given
<1>9. \A i \in 0 .. Trip[Left[t]] - 1 : Given[Left[t]][i] = 1
  BY <1>5, <1>6 DEF Iterations
<1> QED BY <1>6, <1>7, <1>8, <1>9 DEF Promise!Leave, Promise!Iterations, Left, Trip, Given

\* A chunk consists of iterations nobody was handed.
LEMMA ReturnPromised ==
    ASSUME Typed, Typed', CursorExact', SharesCursor, UNCHANGED descr,
           NEW t \in Threads, pc[t] # "left", Returns(t)
    PROVE  Promise!HandOut(t)
<1>1. /\ tc \in Nat /\ tc' = tc /\ schedule' = schedule /\ Iterations' = Iterations
      /\ pc \in [Threads -> PcValues] /\ given \in [Iterations -> Nat]
  BY DescriptorFacts DEF Typed, PcValues, descr, Iterations
<1>2. PICK lo \in Nat, hi \in Nat : lo < hi /\ lo < tc /\ \E last : Return(t, lo, hi, last)
  BY DEF Returns
<1> DEFINE end == IF hi >= tc THEN tc ELSE hi
           up == end - 1
<1>3. /\ pc' = [pc EXCEPT ![t] = "next"]
      /\ given' = [i \in Iterations |-> given[i] + (IF lo <= i /\ i < end THEN 1 ELSE 0)]
  BY <1>2 DEF Return, Hand
<1>4. lo \in Iterations /\ up \in Iterations /\ lo <= up
  BY <1>1, <1>2 DEF Iterations
<1>5. \A i \in Iterations : given'[i] \in {0, 1}
  BY <1>1 DEF CursorExact, SharesCursor
<1>6. ASSUME NEW i \in Iterations
      PROVE  /\ lo <= i /\ i < end <=> i \in lo .. up
             /\ given[i] \in Nat /\ (i \in lo .. up => given[i] = 0)
             /\ given'[i] = IF i \in lo .. up THEN 1 ELSE given[i]
  <2>1. i \in Nat /\ given[i] \in Nat
    BY <1>1 DEF Iterations
  <2>2. lo <= i /\ i < end <=> i \in lo .. up
    BY <1>1, <1>2, <2>1
  <2>3. given'[i] = given[i] + (IF lo <= i /\ i < end THEN 1 ELSE 0)
    BY <1>3
  <2>4. given'[i] \in {0, 1}
    BY <1>5
  <2> HIDE DEF end, up
  <2> QED BY <2>1, <2>2, <2>3, <2>4
<1>7. \A i \in lo .. up : i \in Iterations
  BY <1>1, <1>2, <1>4 DEF Iterations
<1> HIDE DEF end, up
<1>8. given' = [i \in Iterations |-> IF i \in lo .. up THEN 1 ELSE given[i]]
  <2>1. given' = [i \in Iterations |-> given'[i]]
    BY <1>3
  <2>2. [i \in Iterations |-> given'[i]] = [i \in Iterations |-> IF i \in lo .. up THEN 1 ELSE given[i]]
    BY <1>6
  <2> QED BY <2>1, <2>2
<1>9. Left[t] = 0 /\ Trip[0] = tc /\ Given[0] = given /\ 0 .. Trip[Left[t]] - 1 = Iterations
  BY DEF Left, Trip, Given, Iterations
<1>10. Left' = Left /\ Trip' = Trip
  BY <1>1, <1>3 DEF Left, Trip
<1>11. Given' = [Given EXCEPT ![Left[t]] =
                   [i \in 0 .. Trip[Left[t]] - 1 |-> IF i \in lo .. up THEN 1 ELSE Given[Left[t]][i]]]
  BY <1>8, <1>9 DEF Given
<1>12. \A i \in lo .. up : Given[Left[t]][i] = 0
  BY <1>6, <1>7, <1>9
<1>13. \E a, b \in 0 .. Trip[Left[t]] - 1 :
          /\ a <= b /\ \A i \in a .. b : Given[Left[t]][i] = 0
          /\ Given' = [Given EXCEPT ![Left[t]] =
                         [i \in 0 .. Trip[Left[t]] - 1 |->
                            IF i \in a .. b THEN 1 ELSE Given[Left[t]][i]]]
  BY <1>4, <1>9, <1>11, <1>12
<1>14. Left[t] < 1 /\ UNCHANGED <<Trip, Left>>
  BY <1>9, <1>10
<1>15. Promise!HandOut(t) <=>
         /\ Left[t] < 1
         /\ \E a, b \in 0 .. Trip[Left[t]] - 1 :
              /\ a <= b /\ \A i \in a .. b : Given[Left[t]][i] = 0
              /\ Given' = [Given EXCEPT ![Left[t]] =
                             [i \in 0 .. Trip[Left[t]] - 1 |->
                                IF i \in a .. b THEN 1 ELSE Given[Left[t]][i]]]
         /\ UNCHANGED <<Trip, Left>>
  BY DEF Promise!HandOut, Promise!Iterations, Left, Trip, Given
<1> QED BY <1>13, <1>14, <1>15

\* Every step keeps the promise.
LEMMA PromiseNext ==
    Typed /\ CursorExact /\ (Typed /\ CursorExact)' /\ [Next]_vars
      => [SharesCursor => Promise!Next]_(Promise!vars)
<1> SUFFICES ASSUME Typed, CursorExact, Typed', CursorExact', [Next]_vars, SharesCursor
             PROVE  Promise!Next \/ UNCHANGED <<Trip, Left, Given>>
  BY DEF Promise!vars, Trip, Left, Given
<1>1. ASSUME NEW t \in Threads, ThreadStep(t) PROVE Promise!Next \/ UNCHANGED <<Trip, Left, Given>>
  <2>1. UNCHANGED descr /\ pc[t] # "left" /\ (Stutters \/ Stop(t) \/ Returns(t))
    BY <1>1, StepKinds
  <2>2. CASE Stutters
    BY <2>1, <2>2 DEF Stutters, descr, Trip, Left, Given
  <2>3. CASE Stop(t)
    BY <2>1, <2>3, StopPromised DEF Promise!Next
  <2>4. CASE Returns(t)
    BY <2>1, <2>4, ReturnPromised DEF Promise!Next
  <2> QED BY <2>1, <2>2, <2>3, <2>4
<1>2. CASE UNCHANGED vars
  BY <1>2 DEF vars, descr, Trip, Left, Given
<1> QED BY <1>1, <1>2 DEF Next, Finished

\* The loop begins untouched.
LEMMA PromiseInit == Init => Promise!Init
<1> SUFFICES ASSUME Init PROVE Promise!Init
  OBVIOUS
<1>1. tc \in Nat
  BY TypedInit, DescriptorFacts DEF Typed
<1>2. pc = [t \in Threads |-> "next"] /\ given = [i \in Iterations |-> 0]
  BY DEF Init
<1>3. Left = [t \in Threads |-> 0] /\ Trip \in [{0} -> Nat] /\ Trip[0] = tc
  BY <1>1, <1>2 DEF Left, Trip
<1>4. Given = [l \in {0} |-> [i \in 0 .. Trip[l] - 1 |-> 0]]
  BY <1>2, <1>3 DEF Given, Iterations
<1>5. Promise!Loops = {0}
  BY DEF Promise!Loops
<1> QED BY <1>3, <1>4, <1>5 DEF Promise!Init, Promise!Untouched, Left, Trip, Given

\* A loop with a shared cursor, run by any team under any schedule but FACa and VISS,
\* is an execution of the dispatcher's promise: each chunk is a block of iterations
\* nobody was handed, and status 0 comes only when none is left.
THEOREM SelfKeepsPromise == Spec => KeepsPromise
<1>1. Init => (SharesCursor => Promise!Init)
  BY PromiseInit
<1>2. Typed /\ CursorExact /\ (Typed /\ CursorExact)' /\ [Next]_vars
        => [SharesCursor => Promise!Next]_(Promise!vars)
  BY PromiseNext
<1> QED BY <1>1, <1>2, SelfCursorExact, PTL DEF Spec, KeepsPromise
---------------------------------------------------------------------------
(***************************************************************************)
(* The flag of the last chunk, for the schedules that set it.              *)
(***************************************************************************)
SetsFlag == schedule \in Index \cup CasLoop

\* The chunk that ends the loop, and no other, has been called the last; and the
\* compare-and-swap of guided, which does not set the flag, never ends the loop.
LastExact ==
    SetsFlag =>
      /\ \A i \in Iterations : lasts[i] = IF i = tc - 1 /\ Cursor >= tc THEN 1 ELSE 0
      /\ \A t \in Threads : pc[t] = "cas" /\ schedule \in Guided => local[t].init + local[t].size < tc

\* A step keeps the flags and the cursor on its side of the end, or takes the
\* chunk at the cursor with the flag that tells whether it ends the loop.
KeepsFlags == lasts' = lasts /\ (Cursor' >= tc <=> Cursor >= tc)
TakesFlag(t) ==
    \E hi \in Nat : \E last \in BOOLEAN :
      /\ Cursor < tc /\ Return(t, Cursor, hi, last) /\ (last <=> hi >= tc)
      /\ (Cursor' >= tc <=> hi >= tc)

\* Every step is of these two kinds.
LEMMA FlagKinds ==
    ASSUME Typed, CursorExact, LastExact, SetsFlag, NEW t \in Threads, ThreadStep(t)
    PROVE  UNCHANGED descr /\ (KeepsFlags \/ TakesFlag(t))
<1>0. /\ tc \in Nat /\ chunk \in Nat \ {0} /\ iteration \in Nat /\ schedule \notin Static \cup AddOnce
      /\ Cursor \in Nat /\ descr \in Descriptors
      /\ pc \in [Threads -> PcValues] /\ local \in [Threads -> Local]
  BY DescriptorFacts, CursorNat DEF Typed, PcValues, SetsFlag, Static, AddOnce, Index, CasLoop, Guided
<1>a. Poised(t)
  BY <1>0, CursorParts
<1>b. UNCHANGED descr /\ tc' = tc /\ schedule' = schedule /\ chunk' = chunk
  <2>1. UNCHANGED descr
    BY DEF ThreadStep, ZeroTrip, FetchIndex, TakeNumber, ReadCursor, Cas, Tail, AddChunk,
           StaticChunked, StaticBalanced
  <2> QED BY <2>1 DEF descr
<1>c. iteration' = iteration => Cursor' = Cursor
  BY <1>b DEF Cursor
<1>1. CASE ZeroTrip(t)
  BY <1>b, <1>c, <1>1 DEF ZeroTrip, Stop, KeepsFlags
<1>2. CASE FetchIndex(t)
  <2> DEFINE lo == First(schedule, tc, chunk, iteration)
             hi == Past(schedule, tc, chunk, iteration)
             flag == hi >= tc
             within == Served(schedule, tc, chunk, iteration) /\ lo < tc
  <2>1. schedule \in Index /\ iteration' = iteration + 1 /\ iteration \in 0 .. MaxNumber
    BY <1>0, <1>2, TeamAssumption DEF FetchIndex
  <2>2. /\ Cursor = Edge(schedule, tc, chunk, iteration)
        /\ Cursor' = Edge(schedule, tc, chunk, iteration + 1)
    BY <1>b, <2>1 DEF Cursor
  <2>3. /\ Cursor < tc => hi \in Nat /\ Cursor <= hi /\ Cursor' = IF hi < tc THEN hi ELSE tc
        /\ Cursor = tc => Cursor' = tc
    BY <1>0, <2>1, <2>2, EdgeFacts
  <2>4. CASE within /\ lo < hi
    <3>1. Cursor = lo /\ Return(t, lo, hi, flag)
      BY <1>2, <2>2, <2>4 DEF FetchIndex, Edge
    <3>2. hi \in Nat /\ flag \in BOOLEAN /\ Cursor < tc /\ (flag <=> hi >= tc) /\ (Cursor' >= tc <=> hi >= tc)
      BY <1>0, <2>3, <2>4, <3>1
    <3> HIDE DEF lo, hi, flag
    <3> QED BY <1>b, <3>1, <3>2 DEF TakesFlag
  <2>5. CASE within /\ ~(lo < hi)
    <3>1. Cursor = lo /\ lasts' = lasts
      BY <1>2, <2>2, <2>5 DEF FetchIndex, Edge
    <3>2. Cursor' = Cursor
      BY <1>0, <2>3, <2>5, <3>1
    <3> QED BY <1>b, <3>1, <3>2 DEF KeepsFlags
  <2>6. CASE ~within
    <3>1. Cursor = tc /\ Stop(t)
      BY <1>2, <2>2, <2>6 DEF FetchIndex, Edge
    <3> QED BY <1>b, <2>3, <3>1 DEF Stop, KeepsFlags
  <2> QED BY <2>4, <2>5, <2>6
<1>3. CASE TakeNumber(t)
  BY <1>b, <1>c, <1>3 DEF TakeNumber, KeepsFlags
<1>4. CASE ReadCursor(t)
  <2>1. iteration' = iteration /\ lasts' = lasts
    BY <1>4 DEF ReadCursor, Stop
  <2> QED BY <1>b, <1>c, <2>1 DEF KeepsFlags
<1>5. CASE Cas(t)
  <2> DEFINE hi == local[t].init + local[t].size
             flag == schedule \notin Guided /\ hi >= tc
  <2>1. /\ hi \in Nat /\ local[t].init < tc /\ (schedule \in Guided => hi < tc)
        /\ schedule \in CasLoop
    BY <1>0, <1>5, <1>a DEF Cas, Poised, Local, LastExact, SetsFlag
  <2>2. Cursor = iteration /\ Cursor' = iteration'
    BY <1>b, <2>1 DEF Cursor, CasLoop, Guided, Index
  <2>3. CASE iteration = local[t].init
    <3>1. Return(t, Cursor, hi, flag) /\ Cursor' = hi
      BY <1>5, <2>2, <2>3 DEF Cas
    <3>2. flag \in BOOLEAN /\ Cursor < tc /\ (flag <=> hi >= tc)
      BY <1>0, <2>1, <2>2, <2>3
    <3> HIDE DEF hi, flag
    <3> QED BY <1>b, <2>1, <3>1, <3>2 DEF TakesFlag
  <2>4. CASE iteration # local[t].init
    BY <1>5, <1>b, <1>c, <2>4 DEF Cas, Retry, KeepsFlags
  <2> QED BY <2>3, <2>4
<1>6. CASE Tail(t)
  <2> DEFINE hi == iteration + chunk
             flag == tc - iteration <= chunk
  <2>1. schedule \in Guided /\ iteration' = hi
    BY <1>6, <1>a DEF Tail, Poised
  <2>2. Cursor = iteration /\ Cursor' = hi
    BY <1>b, <2>1 DEF Cursor, Guided, Index
  <2>3. CASE tc - iteration <= 0
    BY <1>0, <1>6, <1>b, <2>2, <2>3 DEF Tail, Stop, KeepsFlags
  <2>4. CASE ~(tc - iteration <= 0)
    <3>1. Return(t, Cursor, hi, flag)
      BY <1>6, <2>2, <2>4 DEF Tail
    <3>2. hi \in Nat /\ flag \in BOOLEAN /\ Cursor < tc /\ (flag <=> hi >= tc) /\ Cursor' = hi
      BY <1>0, <2>2, <2>4
    <3> HIDE DEF hi, flag
    <3> QED BY <1>b, <3>1, <3>2 DEF TakesFlag
  <2> QED BY <2>3, <2>4
<1>7. CASE AddChunk(t) \/ StaticChunked(t) \/ StaticBalanced(t)
  BY <1>0, <1>7 DEF AddChunk, StaticChunked, StaticBalanced, Static
<1> QED BY <1>1, <1>2, <1>3, <1>4, <1>5, <1>6, <1>7 DEF ThreadStep

\* A size computed by guided leaves something.
LEMMA GuidedFacts ==
    ASSUME Typed, NEW t \in Threads, tc # 0, schedule \in Guided,
           NEW remaining \in 1 .. tc, remaining >= Switch(chunk), NEW cs \in Computed(t, remaining)
    PROVE  cs \in Nat /\ cs < remaining
<1>1. descr[1] = schedule /\ descr[2] = tc /\ descr[3] = chunk /\ descr \in Descriptors /\ tc \in Nat
  BY DescriptorFacts DEF descr, Typed
<1> HIDE DEF descr
<1>2. schedule \notin Numbered /\ schedule \in CasLoop
  BY DEF Guided, Numbered, CasLoop
<1>3. remaining \in Inputs(schedule, tc, chunk) /\ cs \in Sizes(schedule, tc, chunk, t, remaining)
  <2>1. (IF schedule \in Numbered THEN local[t].number ELSE remaining) \in Inputs(schedule, tc, chunk)
    BY InputFacts
  <2> QED BY <1>2, <2>1 DEF Computed
<1>4. cs < remaining
  BY <1>1, <1>3, GuidedAssumption
<1>5. cs \in Nat
  BY <1>2, ComputedFacts
<1> QED BY <1>4, <1>5

\* No chunk has been called the last before the first one.
LEMMA LastInit == Init => LastExact
<1> SUFFICES ASSUME Init, SetsFlag PROVE LastExact
  BY DEF LastExact
<1>1. tc \in Nat /\ descr \in Descriptors
  BY TypedInit, DescriptorFacts DEF Typed
<1>2. Cursor = 0
  BY <1>1, EdgeFacts DEF Init, Cursor
<1>3. \A i \in Iterations : lasts[i] = 0 /\ ~(0 >= tc)
  BY <1>1 DEF Init, Iterations
<1> QED BY <1>2, <1>3 DEF Init, LastExact

\* Every step keeps the flags right.
LEMMA LastNext == Typed /\ Typed' /\ CursorExact /\ LastExact /\ [Next]_vars => LastExact'
<1> SUFFICES ASSUME Typed, Typed', CursorExact, LastExact, [Next]_vars, SetsFlag PROVE LastExact'
  BY DEF LastExact, SetsFlag, Next, Finished, ThreadStep, ZeroTrip, FetchIndex, TakeNumber,
         ReadCursor, Cas, Tail, AddChunk, StaticChunked, StaticBalanced, descr, vars
<1>0. /\ tc \in Nat /\ iteration \in Nat /\ chunk \in Nat \ {0}
      /\ Cursor \in Nat /\ lasts \in [Iterations -> Nat]
      /\ local \in [Threads -> Local] /\ pc \in [Threads -> PcValues]
  BY DescriptorFacts, CursorNat DEF Typed, PcValues
<1>1. ASSUME NEW t \in Threads, ThreadStep(t) PROVE LastExact'
  <2>1. UNCHANGED descr /\ (KeepsFlags \/ TakesFlag(t))
    BY <1>1, FlagKinds
  <2>2. tc' = tc /\ schedule' = schedule /\ Iterations' = Iterations
    BY <2>1 DEF descr, Iterations
  <2>3. \A i \in Iterations : lasts'[i] = IF i = tc - 1 /\ Cursor' >= tc THEN 1 ELSE 0
    <3>1. CASE KeepsFlags
      BY <3>1 DEF KeepsFlags, LastExact
    <3>2. CASE TakesFlag(t)
      <4>1. PICK hi \in Nat, last \in BOOLEAN :
              /\ Cursor < tc /\ Return(t, Cursor, hi, last) /\ (last <=> hi >= tc)
              /\ (Cursor' >= tc <=> hi >= tc)
        BY <3>2 DEF TakesFlag
      <4> DEFINE end == IF hi >= tc THEN tc ELSE hi
      <4>2. lasts' = [i \in Iterations |-> lasts[i] + (IF last /\ i = end - 1 THEN 1 ELSE 0)]
        BY <4>1 DEF Return, Hand
      <4>3. ASSUME NEW i \in Iterations PROVE lasts'[i] = IF i = tc - 1 /\ Cursor' >= tc THEN 1 ELSE 0
        <5>1. lasts[i] = 0 /\ i \in Nat
          BY <1>0, <4>1 DEF LastExact, Iterations
        <5>2. lasts'[i] = IF last /\ i = end - 1 THEN 1 ELSE 0
          BY <4>2, <5>1
        <5> QED BY <4>1, <5>1, <5>2
      <4> QED BY <4>3
    <3> QED BY <2>1, <3>1, <3>2
  <2>4. ASSUME NEW u \in Threads, pc'[u] = "cas", schedule \in Guided
        PROVE  local'[u].init + local'[u].size < tc
    <3>1. CASE pc'[u] = pc[u] /\ local'[u] = local[u]
      BY <2>4, <3>1 DEF LastExact
    <3>2. CASE ~(pc'[u] = pc[u] /\ local'[u] = local[u])
      <4>1. u = t /\ ReadCursor(t)
        BY <1>0, <1>1, <2>4, <3>2
           DEF ThreadStep, ZeroTrip, FetchIndex, TakeNumber, ReadCursor, Cas, Retry, Tail, AddChunk,
               StaticChunked, StaticBalanced, Return, Stop
      <4>2. Switch(chunk) \in Nat
        BY <1>0, TeamAssumption DEF Switch
      <4>3. /\ tc - iteration > 0 /\ tc # 0 /\ ~(tc - iteration < Switch(chunk))
            /\ \E cs \in Computed(t, tc - iteration) :
                 local' = [local EXCEPT ![t].init = iteration, ![t].size = cs]
        BY <1>0, <2>4, <4>1 DEF ReadCursor, Stop
      <4>4. PICK cs \in Computed(t, tc - iteration) :
              local' = [local EXCEPT ![t].init = iteration, ![t].size = cs]
        BY <4>3
      <4>5. tc - iteration \in 1 .. tc /\ tc - iteration >= Switch(chunk)
        BY <1>0, <4>2, <4>3
      <4>6. cs \in Nat /\ cs < tc - iteration
        BY <2>4, <4>3, <4>5, GuidedFacts
      <4>7. local'[u].init = iteration /\ local'[u].size = cs
        BY <1>0, <4>1, <4>4 DEF Local
      <4> QED BY <1>0, <4>6, <4>7
    <3> QED BY <3>1, <3>2
  <2> QED BY <2>2, <2>3, <2>4 DEF LastExact
<1>2. CASE UNCHANGED vars
  BY <1>2 DEF vars, descr, LastExact, SetsFlag, Cursor, Iterations
<1> QED BY <1>1, <1>2 DEF Next, Finished

\* lastprivate: exactly one chunk is called the last, the one that ends the loop,
\* under each schedule that ever sets the flag: the index schedules, the
\* compare-and-swap loops, FACa's included, and the static ones, for any team, trip
\* count and chunk.
THEOREM SelfLastFlag == Spec => []FlagIfSet
<1>1. Init => LastExact
  BY LastInit
<1>2. Typed /\ CursorExact /\ LastExact /\ (Typed /\ CursorExact)' /\ [Next]_vars => LastExact'
  BY LastNext
<1>3. Typed /\ CursorExact /\ StaticInv /\ FacaInv /\ LastExact => FlagIfSet
  <2> SUFFICES ASSUME Typed, CursorExact, StaticInv, FacaInv, LastExact, schedule \in FlagSchedules
               PROVE  LastFlag
    BY DEF FlagIfSet
  <2>1. tc \in Nat /\ chunk \in Nat \ {0} /\ 0 \in Threads
    BY DescriptorFacts, TeamAssumption DEF Typed, Threads
  <2>2. CASE schedule \in Static
    <3>1. \A i \in Iterations : lasts[i] = IF i = tc - 1 /\ \E t \in Threads : Taken(t, i) THEN 1 ELSE 0
      BY <2>2 DEF StaticInv
    <3>2. ASSUME AllLeft, tc > 0 PROVE lasts[tc - 1] = 1
      <4>1. tc - 1 \in Iterations
        BY <2>1, <3>2 DEF Iterations
      <4>2. PICK t \in Threads : Owns(t, tc - 1)
        BY <2>1, <4>1, OwnedOnce
      <4>3. Taken(t, tc - 1)
        BY <2>2, <3>2, <4>1, <4>2 DEF StaticInv, AllLeft
      <4> QED BY <3>1, <4>1, <4>3
    <3> QED BY <3>1, <3>2 DEF LastFlag
  <2>3. CASE schedule \notin Static
    <3>1. SetsFlag /\ schedule # "viss"
      BY <2>3 DEF SetsFlag, FlagSchedules, Static, Index, CasLoop, Guided
    <3>2. \A i \in Iterations : lasts[i] = IF i = tc - 1 /\ Cursor >= tc THEN 1 ELSE 0
      BY <3>1 DEF LastExact
    <3>3. ASSUME AllLeft, tc > 0 PROVE lasts[tc - 1] = 1
      <4>1. Cursor >= tc
        <5>1. CASE schedule = "faca"
          BY <3>3, <5>1, FacaAtEnd DEF Cursor, Index
        <5>2. CASE schedule # "faca"
          BY <2>1, <2>3, <3>1, <3>3, <5>2 DEF CursorExact, AllLeft
        <5> QED BY <5>1, <5>2
      <4>2. tc - 1 \in Iterations
        BY <2>1, <3>3 DEF Iterations
      <4> QED BY <3>2, <4>1, <4>2
    <3> QED BY <3>2, <3>3 DEF LastFlag
  <2> QED BY <2>2, <2>3
<1> QED BY <1>1, <1>2, <1>3, StaticHolds, FacaHolds, PTL DEF Spec
---------------------------------------------------------------------------
(* Ordered regions are executed in the order of the loop, for every team,  *)
(* trip count and schedule.  The proof needs of the dispatcher only that   *)
(* no iteration is handed out twice.                                       *)

Ordered == interface # "unordered"

\* What a step finds: the dispatcher's own invariant and the types.
Before == Typed /\ AtMostOnce /\ OrderedTyped /\ Ordered
Holds == Disjoint /\ InHand /\ Pending /\ CounterRight /\ SettledRight

\* A thread that a step of another one leaves alone.
Same(u) ==
    /\ ordered_lower'[u] = ordered_lower[u] /\ ordered_upper'[u] = ordered_upper[u]
    /\ ordered_bumped'[u] = ordered_bumped[u] /\ body'[u] = body[u] /\ at'[u] = at[u]

Keeps(u) == Chunk(u)' = Chunk(u) /\ Counted(u)' = Counted(u) /\ Through(u)' = Through(u)

\* The composition takes the steps of SelfScheduling.
LEMMA OrderedTakesSteps == OrderedSpec => Spec
<1>1. OrderedInit => Init
  BY DEF OrderedInit
<1>2. [OrderedNext]_allVars => [Next]_vars
  BY DEF OrderedNext, OrderedFinished, OrderedStep, Take, SkipRegion, Deo, Dxo, Finish,
         NextOfChunk, FinishChunk, Next, allVars
<1> QED BY <1>1, <1>2, PTL DEF OrderedSpec, Spec

LEMMA OrderedTypedInit == OrderedInit => OrderedTyped
<1> SUFFICES ASSUME OrderedInit PROVE OrderedTyped
  OBVIOUS
<1> QED BY OrderedAssumption DEF OrderedInit, OrderedTyped

LEMMA OrderedTypedNext == Typed /\ OrderedTyped /\ [OrderedNext]_allVars => OrderedTyped'
<1> SUFFICES ASSUME Typed, OrderedTyped, [OrderedNext]_allVars PROVE OrderedTyped'
  OBVIOUS
<1>0. tc \in Nat
  BY DescriptorFacts DEF Typed
<1>1. ASSUME NEW t \in Threads, Take(t) PROVE OrderedTyped'
  <2>1. CASE UNCHANGED orderedVars
    BY <2>1 DEF OrderedTyped, orderedVars
  <2>2. CASE \E lo, hi \in Iterations : lo <= hi /\ Begin(t, lo, hi)
    BY <1>0, <2>2 DEF OrderedTyped, Begin, Iterations
  <2> QED BY <1>1, <2>1, <2>2 DEF Take
<1>2. ASSUME NEW t \in Threads, SkipRegion(t) \/ Dxo(t) PROVE OrderedTyped'
  <2>1. settled' \subseteq Nat
    <3>1. at[t] \in Nat /\ settled \subseteq Nat
      BY DEF OrderedTyped
    <3>2. settled' = settled \cup {at[t]}
      BY <1>2 DEF SkipRegion, Dxo
    <3> QED BY <3>1, <3>2
  <2>2. ordered_iteration' \in Int /\ ordered_bumped' \in [Threads -> Nat]
    BY <1>2 DEF OrderedTyped, SkipRegion, Dxo
  <2> QED BY <1>2, <2>1, <2>2 DEF OrderedTyped, SkipRegion, Dxo
<1>3. ASSUME NEW t \in Threads, Deo(t) PROVE OrderedTyped'
  BY <1>3 DEF OrderedTyped, Deo
<1>4. ASSUME NEW t \in Threads, Finish(t) PROVE OrderedTyped'
  BY <1>4 DEF OrderedTyped, Finish, Advance
<1>5. ASSUME NEW t \in Threads, NextOfChunk(t) PROVE OrderedTyped'
  BY <1>5 DEF OrderedTyped, NextOfChunk, Advance
<1>6. ASSUME NEW t \in Threads, FinishChunk(t) PROVE OrderedTyped'
  BY <1>6 DEF OrderedTyped, FinishChunk, Advance
<1>7. CASE UNCHANGED allVars
  <2>1. UNCHANGED orderedVars
    BY <1>7 DEF allVars
  <2> QED BY <2>1 DEF OrderedTyped, orderedVars
<1> QED BY <1>1, <1>2, <1>3, <1>4, <1>5, <1>6, <1>7
          DEF OrderedNext, OrderedFinished, OrderedStep

\* The dispatcher only adds to what has been handed out.
LEMMA GivenGrows ==
    ASSUME Typed, NEW t \in Threads, ThreadStep(t), NEW i \in Iterations
    PROVE  given'[i] \in {given[i], given[i] + 1}
<1> USE DEF Typed
<1>1. ASSUME NEW lo, NEW hi, NEW last, Hand(lo, hi, last)
      PROVE  given'[i] \in {given[i], given[i] + 1}
  BY <1>1 DEF Hand
<1>2. CASE UNCHANGED given
  BY <1>2
<1>3. UNCHANGED given \/ \E lo, hi, last : Hand(lo, hi, last)
  <2>1. CASE ZeroTrip(t) \/ TakeNumber(t) \/ ReadCursor(t)
    BY <2>1 DEF ZeroTrip, TakeNumber, ReadCursor, Stop
  <2>2. CASE FetchIndex(t)
    BY <2>2 DEF FetchIndex, Stop, Return
  <2>3. CASE Cas(t)
    BY <2>3 DEF Cas, Retry, Return
  <2>4. CASE Tail(t)
    BY <2>4 DEF Tail, Stop, Return
  <2>5. CASE AddChunk(t)
    BY <2>5 DEF AddChunk, Stop, Return
  <2>6. CASE StaticChunked(t)
    BY <2>6 DEF StaticChunked, Stop, Return
  <2>7. CASE StaticBalanced(t)
    BY <2>7 DEF StaticBalanced, Stop, Return
  <2> QED BY <2>1, <2>2, <2>3, <2>4, <2>5, <2>6, <2>7 DEF ThreadStep
<1> QED BY <1>1, <1>2, <1>3

---------------------------------------------------------------------------
(***************************************************************************)
(* The steps of the invariant.                                             *)
(***************************************************************************)
\* Types of what is read of one thread.
LEMMA ThreadTypes ==
    ASSUME OrderedTyped, NEW t \in Threads
    PROVE  /\ ordered_lower[t] \in Nat /\ ordered_upper[t] \in Nat
           /\ ordered_bumped[t] \in Nat /\ at[t] \in Nat
           /\ body[t] \in {"out", "iteration", "region", "end"}
           /\ Counted(t) \in Int /\ Through(t) \in Int
           /\ ordered_iteration \in Int
<1>1. /\ ordered_lower[t] \in Nat /\ ordered_upper[t] \in Nat
      /\ ordered_bumped[t] \in Nat /\ at[t] \in Nat
      /\ body[t] \in {"out", "iteration", "region", "end"}
      /\ ordered_iteration \in Int
  BY DEF OrderedTyped
<1> QED BY <1>1 DEF Counted, Through

\* A thread left alone keeps its chunk and its place in it.
LEMMA SameKeeps ==
    ASSUME NEW u \in Threads, Same(u), UNCHANGED interface
    PROVE  Keeps(u)
BY DEF Keeps, Same, Chunk, Counted, Through

\* The counter moves through one chunk: for the other threads it stays right.
LEMMA OthersRight ==
    ASSUME OrderedTyped, Disjoint, NEW t \in Threads, ordered_iteration \in Chunk(t),
           ordered_iteration' \in ordered_iteration .. ordered_upper[t] + 1,
           UNCHANGED interface, NEW u \in Threads \ {t}, Same(u), Right(u), InHand
    PROVE  Right(u)'
<1> USE DEF Keeps
<1>1. CASE body[u] = "out"
  BY <1>1 DEF Right, Same
<1>2. CASE body[u] # "out"
  <2>1. body[t] # "out" /\ Chunk(t) = ordered_lower[t] .. ordered_upper[t]
        /\ Chunk(u) = ordered_lower[u] .. ordered_upper[u] /\ Chunk(t) \cap Chunk(u) = {}
    BY <1>2 DEF Chunk, Disjoint
  <2>2. ordered_lower[u] <= ordered_upper[u]
    BY <1>2, ThreadTypes DEF InHand
  <2>3. ordered_upper[t] < ordered_lower[u] \/ ordered_upper[u] < ordered_iteration
    <3>1. ordered_iteration \notin Chunk(u)
      BY <2>1
    <3>2. ordered_lower[u] \notin Chunk(t)
      BY <2>1, <2>2, ThreadTypes
    <3> QED BY <2>1, <3>1, <3>2, ThreadTypes
  <2>4. Counted(u)' = Counted(u) /\ Through(u)' = Through(u)
    BY SameKeeps
  <2>5. ordered_iteration \in Int /\ ordered_iteration' \in Int
    <3>1. ordered_iteration \in Int /\ ordered_upper[t] \in Nat
      BY DEF OrderedTyped
    <3> QED BY <3>1
  <2>6. /\ ordered_lower[u] \in Nat /\ ordered_upper[u] \in Nat /\ Counted(u) \in Int
        /\ ordered_upper[t] \in Nat
    BY ThreadTypes
  <2>7. Counted(u) <= Through(u)
    BY <1>2 DEF Right
  <2>8. \/ ordered_iteration' < ordered_lower[u] /\ Counted(u) = 0
        \/ ordered_iteration' = ordered_lower[u] + Counted(u)
        \/ /\ ordered_iteration' > ordered_upper[u]
           /\ ordered_lower[u] + Counted(u) = ordered_upper[u] + 1
    <3>1. CASE ordered_iteration < ordered_lower[u] /\ Counted(u) = 0
      BY <2>2, <2>3, <2>5, <2>6, <3>1
    <3>2. CASE ordered_iteration = ordered_lower[u] + Counted(u)
      <4>1. 0 <= Counted(u)
        BY <1>2, ThreadTypes DEF Counted, InHand
      <4>2. Counted(u) <= ordered_upper[u] - ordered_lower[u] + 1
        BY <1>2, <2>7, ThreadTypes DEF Through, InHand
      <4>3. ordered_iteration <= ordered_iteration'
        BY <2>5, <2>6
      <4> QED BY <2>3, <2>2, <2>5, <2>6, <3>2, <4>1, <4>2, <4>3
    <3>3. CASE /\ ordered_iteration > ordered_upper[u]
               /\ ordered_lower[u] + Counted(u) = ordered_upper[u] + 1
      BY <2>5, <2>6, <3>3
    <3> QED BY <1>2, <3>1, <3>2, <3>3 DEF Right
  <2>9. body[u] = "region" => ordered_iteration' >= ordered_lower[u]
    <3>1. body[u] = "region" => ordered_iteration >= ordered_lower[u]
      BY <1>2 DEF Right
    <3> QED BY <2>5, <2>6, <3>1
  <2> QED BY <1>2, <2>4, <2>7, <2>8, <2>9 DEF Right, Same
<1> QED BY <1>1, <1>2

\* What is left to show of a step of t that hands out nothing.
LEMMA InsideStep ==
    ASSUME Before, Holds, NEW t \in Threads, body[t] # "out", UNCHANGED <<vars, interface>>,
           \A u \in Threads \ {t} : Same(u),
           UNCHANGED <<ordered_lower, ordered_upper>>,
           \/ ordered_iteration' = ordered_iteration
           \/ /\ ordered_iteration \in Chunk(t)
              /\ ordered_iteration' \in ordered_iteration .. ordered_upper[t] + 1,
           \/ body'[t] # "out" /\ ordered_lower[t] <= at'[t] /\ at'[t] <= ordered_upper[t]
           \/ body'[t] = "out" /\ ordered_iteration' > ordered_upper[t],
           Right(t)',
           settled \subseteq settled', settled' \subseteq settled \cup {at[t]},
           \A i \in Chunk(t) : i < ordered_iteration' => i \in settled',
           body'[t] # "out" =>
             \A i \in Chunk(t) : i \in settled' <=> i < ordered_lower[t] + Through(t)'
    PROVE  Holds'
<1> USE DEF Keeps
<1>1. /\ \A u \in Threads \ {t} : Keeps(u)
      /\ Chunk(t) = ordered_lower[t] .. ordered_upper[t]
      /\ Chunk(t)' = IF body'[t] = "out" THEN {} ELSE Chunk(t)
  <2>1. \A u \in Threads \ {t} : Keeps(u)
    BY SameKeeps
  <2> QED BY <2>1 DEF Chunk
<1>2. UNCHANGED <<given, tc, schedule>>
  BY DEF vars, descr
<1>3. Disjoint'
  BY <1>1 DEF Holds, Disjoint
<1>4. InHand'
  <2>1. \A u \in Threads : \A i \in Chunk(u)' : i \in Iterations /\ given[i] = 1
    BY <1>1 DEF Holds, InHand, Chunk
  <2>2. \A u \in Threads : body'[u] # "out" =>
          ordered_lower'[u] <= at'[u] /\ at'[u] <= ordered_upper'[u]
    BY DEF Holds, InHand, Same
  <2> QED BY <1>2, <2>1, <2>2 DEF InHand, Iterations
<1>5. ordered_iteration \in Int /\ ordered_iteration' \in Int /\ ordered_iteration <= ordered_iteration'
      /\ ordered_upper[t] \in Nat /\ ordered_lower[t] \in Nat /\ at[t] \in Nat /\ tc \in Nat
  BY ThreadTypes, DescriptorFacts DEF Before, Typed
<1>6. Pending'
  <2> SUFFICES ASSUME NEW i \in Iterations, ordered_iteration' <= i, given[i] = 1
               PROVE  \E u \in Threads : i \in Chunk(u)'
    BY <1>2 DEF Pending, Iterations
  <2>1. PICK u \in Threads : i \in Chunk(u)
    BY <1>5 DEF Holds, Pending, Iterations
  <2>2. u # t \/ body'[t] # "out"
    BY <1>1, <1>5, <2>1
  <2> QED BY <1>1, <2>1, <2>2
<1>7. CounterRight'
  <2> SUFFICES ASSUME NEW u \in Threads \ {t} PROVE Right(u)'
    BY DEF CounterRight
  <2>1. Right(u)
    BY DEF Holds, CounterRight
  <2>2. CASE ordered_iteration' = ordered_iteration
    BY <1>1, <2>1, <2>2 DEF Right, Same
  <2> QED BY <2>1, <2>2, OthersRight DEF Before, Holds
<1>8. SettledRight'
  <2>1. \A i \in 0 .. ordered_iteration' - 1 : i \in settled'
    <3> SUFFICES ASSUME NEW i \in 0 .. ordered_iteration' - 1 PROVE i \in settled'
      OBVIOUS
    <3>1. CASE i < ordered_iteration
      BY <1>5, <3>1 DEF Holds, SettledRight
    <3>2. CASE i >= ordered_iteration
      BY <1>1, <1>5, <3>2
    <3> QED BY <1>5, <3>1, <3>2
  <2>2. at[t] \in Chunk(t)
    BY <1>1, <1>5 DEF Holds, InHand
  <2>3. \A i \in settled' : i \in Iterations /\ given[i] = 1
    BY <2>2 DEF Holds, SettledRight, InHand
  <2>4. ASSUME NEW u \in Threads, NEW i \in Chunk(u)'
        PROVE  i \in settled' <=> i < ordered_lower'[u] + Through(u)'
    <3>1. CASE u = t
      BY <1>1, <2>4, <3>1
    <3>2. CASE u # t
      <4>1. i \in Chunk(u) /\ i # at[t]
        <5>1. i \in Chunk(u)
          BY <1>1, <2>4, <3>2 DEF Keeps
        <5>2. Chunk(t) \cap Chunk(u) = {}
          BY <3>2 DEF Holds, Disjoint
        <5> QED BY <2>2, <5>1, <5>2
      <4>2. i \in settled' <=> i \in settled
        BY <4>1
      <4> QED BY <1>1, <3>2, <4>1, <4>2 DEF Holds, SettledRight
    <3> QED BY <3>1, <3>2
  <2> QED BY <1>2, <2>1, <2>3, <2>4 DEF SettledRight, Iterations
<1> QED BY <1>3, <1>4, <1>6, <1>7, <1>8 DEF Holds

\* The thread whose turn it is finds the counter where it has left it.
LEMMA AtItsTurn ==
    ASSUME Before, Holds, NEW t \in Threads, body[t] # "out", Turn(t),
           ordered_lower[t] + Counted(t) <= ordered_upper[t]
    PROVE  /\ ordered_iteration = ordered_lower[t] + Counted(t)
           /\ ordered_iteration \in Chunk(t)
<1>1. Right(t)
  BY DEF Holds, CounterRight
<1>2. ordered_iteration = ordered_lower[t] + Counted(t)
  BY <1>1, ThreadTypes DEF Right, Turn, Before
<1> QED BY <1>2, ThreadTypes DEF Chunk, Turn, Before

\* The facts about t that the steps of t start from.
LEMMA Standing ==
    ASSUME Before, Holds, NEW t \in Threads, body[t] # "out"
    PROVE  /\ ordered_lower[t] \in Nat /\ ordered_upper[t] \in Nat /\ at[t] \in Nat
           /\ ordered_bumped[t] \in Nat /\ ordered_iteration \in Int
           /\ Counted(t) \in Int /\ Through(t) \in Int
           /\ ordered_lower[t] <= at[t] /\ at[t] <= ordered_upper[t]
           /\ Counted(t) <= Through(t)
           /\ Chunk(t) = ordered_lower[t] .. ordered_upper[t]
           /\ at[t] \in Chunk(t)
           /\ \A i \in Chunk(t) : i \in settled <=> i < ordered_lower[t] + Through(t)
           /\ \A i \in Chunk(t) : i < ordered_iteration => i \in settled
<1>1. /\ ordered_lower[t] \in Nat /\ ordered_upper[t] \in Nat /\ at[t] \in Nat
      /\ ordered_bumped[t] \in Nat /\ ordered_iteration \in Int
      /\ Counted(t) \in Int /\ Through(t) \in Int
  BY ThreadTypes DEF Before
<1>2. /\ ordered_lower[t] <= at[t] /\ at[t] <= ordered_upper[t]
      /\ Counted(t) <= Through(t)
  BY DEF Holds, InHand, CounterRight, Right
<1>3. Chunk(t) = ordered_lower[t] .. ordered_upper[t]
  BY DEF Chunk
<1>4. \A i \in Chunk(t) : i < ordered_iteration => i \in settled
  BY <1>1, <1>3 DEF Holds, SettledRight
<1> QED BY <1>1, <1>2, <1>3, <1>4 DEF Holds, SettledRight

LEMMA SkipHolds == ASSUME Before, Holds, NEW t \in Threads, SkipRegion(t) PROVE Holds'
<1>1. /\ body[t] = "iteration" /\ body'[t] = "end" /\ at' = at
      /\ settled' = settled \cup {at[t]}
      /\ UNCHANGED <<vars, interface, ordered_iteration, ordered_lower, ordered_upper,
                     ordered_bumped>>
      /\ \A u \in Threads \ {t} : Same(u)
  BY DEF SkipRegion, Same, Before, OrderedTyped
<1>2. /\ Through(t)' = Through(t) + 1 /\ Counted(t)' = Counted(t)
      /\ Through(t) = at[t] - ordered_lower[t]
  BY <1>1, Standing DEF Through, Counted
<1>3. Right(t)'
  BY <1>1, <1>2, Standing DEF Right, Holds, CounterRight
<1>4. \A i \in Chunk(t) : i \in settled' <=> i < ordered_lower[t] + Through(t)'
  <2> SUFFICES ASSUME NEW i \in Chunk(t)
               PROVE  i \in settled' <=> i < ordered_lower[t] + Through(t)'
    OBVIOUS
  <2>1. /\ i \in Nat /\ ordered_lower[t] + Through(t) = at[t]
        /\ ordered_lower[t] + Through(t)' = at[t] + 1
    <3>1. ordered_lower[t] \in Nat /\ at[t] \in Nat /\ Chunk(t) \subseteq Nat
      BY <1>1, Standing
    <3> QED BY <1>2, <3>1
  <2>2. i \in settled <=> i < at[t]
    BY <1>1, <2>1, Standing
  <2>3. i \in settled' <=> i \in settled \/ i = at[t]
    BY <1>1
  <2> QED BY <1>1, <2>1, <2>2, <2>3, Standing
<1> QED BY <1>1, <1>3, <1>4, Standing, InsideStep

LEMMA DeoHolds == ASSUME Before, Holds, NEW t \in Threads, Deo(t) PROVE Holds'
<1>1. /\ body[t] = "iteration" /\ body'[t] = "region" /\ at' = at /\ settled' = settled
      /\ UNCHANGED <<vars, interface, ordered_iteration, ordered_lower, ordered_upper,
                     ordered_bumped>>
      /\ \A u \in Threads \ {t} : Same(u)
  BY DEF Deo, Same, Before, OrderedTyped
<1>2. Through(t)' = Through(t) /\ Counted(t)' = Counted(t)
  BY <1>1, Standing DEF Through, Counted
<1>3. Right(t)'
  BY <1>1, <1>2, Standing DEF Right, Holds, CounterRight, Deo, Turn
<1> QED BY <1>1, <1>2, <1>3, Standing, InsideStep

LEMMA DxoHolds == ASSUME Before, Holds, NEW t \in Threads, Dxo(t) PROVE Holds'
<1>1. /\ body[t] = "region" /\ body'[t] = "end" /\ at' = at
      /\ settled' = settled \cup {at[t]}
      /\ ordered_bumped'[t] = ordered_bumped[t] + 1 /\ ordered_iteration' = ordered_iteration + 1
      /\ UNCHANGED <<vars, interface, ordered_lower, ordered_upper>>
      /\ \A u \in Threads \ {t} : Same(u)
  BY DEF Dxo, Same, Before, OrderedTyped
<1>2. /\ Through(t)' = Through(t) + 1 /\ Counted(t)' = Counted(t) + 1
      /\ Through(t) = at[t] - ordered_lower[t]
  <2>1. ordered_lower[t] \in Nat /\ at[t] \in Nat /\ ordered_bumped[t] \in Nat
    BY <1>1, Standing
  <2>2. Counted(t)' = ordered_bumped[t] + 1
                      + (IF interface = "iteration" THEN at[t] - ordered_lower[t] ELSE 0)
    BY <1>1 DEF Counted
  <2>3. Through(t)' = at[t] - ordered_lower[t] + 1 /\ Through(t) = at[t] - ordered_lower[t] + 0
    BY <1>1 DEF Through
  <2> QED BY <2>1, <2>2, <2>3 DEF Counted
<1>3. /\ ordered_lower[t] \in Nat /\ ordered_upper[t] \in Nat /\ at[t] \in Nat
      /\ ordered_iteration \in Int /\ Counted(t) \in Int /\ Through(t) \in Int
      /\ ordered_lower[t] <= at[t] /\ at[t] <= ordered_upper[t] /\ Counted(t) <= Through(t)
      /\ Chunk(t) = ordered_lower[t] .. ordered_upper[t]
  BY <1>1, Standing
<1>4. ordered_iteration = ordered_lower[t] + Counted(t) /\ ordered_iteration \in Chunk(t)
  <2>1. Turn(t)
    BY <1>1 DEF Turn, Holds, CounterRight, Right
  <2>2. ordered_lower[t] + Counted(t) <= ordered_upper[t]
    BY <1>2, <1>3
  <2> QED BY <1>1, <2>1, <2>2, AtItsTurn
<1>5. Right(t)'
  <2>1. Counted(t)' <= Through(t)' /\ ordered_iteration' = ordered_lower'[t] + Counted(t)'
    <3>1. /\ ordered_lower[t] \in Nat /\ ordered_iteration \in Int
          /\ Counted(t) \in Int /\ Through(t) \in Int /\ Counted(t) <= Through(t)
      BY <1>1, Standing
    <3>2. ordered_iteration' = ordered_lower[t] + (Counted(t) + 1)
      BY <1>1, <1>4, <3>1
    <3> QED BY <1>1, <1>2, <3>1, <3>2
  <2> QED BY <1>1, <2>1 DEF Right
<1>6. \A i \in Chunk(t) : i \in settled' <=> i < ordered_lower[t] + Through(t)'
  <2> SUFFICES ASSUME NEW i \in Chunk(t)
               PROVE  i \in settled' <=> i < ordered_lower[t] + Through(t)'
    OBVIOUS
  <2>1. /\ i \in Nat /\ ordered_lower[t] + Through(t) = at[t]
        /\ ordered_lower[t] + Through(t)' = at[t] + 1
    <3>1. ordered_lower[t] \in Nat /\ at[t] \in Nat /\ Chunk(t) \subseteq Nat
      BY <1>1, Standing
    <3> QED BY <1>2, <3>1
  <2>2. i \in settled <=> i < at[t]
    BY <1>1, <2>1, Standing
  <2>3. i \in settled' <=> i \in settled \/ i = at[t]
    BY <1>1
  <2> QED BY <1>1, <2>1, <2>2, <2>3, Standing
<1>7. \A i \in Chunk(t) : i < ordered_iteration' => i \in settled'
  BY <1>1, <1>2, <1>4, <1>6, <1>3
<1>8. ordered_iteration' \in ordered_iteration .. ordered_upper[t] + 1
  BY <1>1, <1>4, <1>3
<1> QED BY <1>1, <1>4, <1>5, <1>6, <1>7, <1>8, Standing, InsideStep

LEMMA NextOfChunkHolds == ASSUME Before, Holds, NEW t \in Threads, NextOfChunk(t) PROVE Holds'
<1>1. /\ interface = "chunk" /\ body[t] = "end" /\ body'[t] = "iteration"
      /\ at[t] < ordered_upper[t] /\ at'[t] = at[t] + 1 /\ settled' = settled
      /\ UNCHANGED <<vars, interface, ordered_iteration, ordered_lower, ordered_upper,
                     ordered_bumped>>
      /\ \A u \in Threads \ {t} : Same(u)
  BY DEF NextOfChunk, Advance, Same, Before, OrderedTyped
<1>2. Through(t)' = Through(t) /\ Counted(t)' = Counted(t)
  <2>1. ordered_lower[t] \in Nat /\ at[t] \in Nat /\ ordered_bumped[t] \in Nat
    BY <1>1, Standing
  <2>2. /\ Through(t) = at[t] - ordered_lower[t] + 1
        /\ Through(t)' = at[t] + 1 - ordered_lower[t] + 0
    BY <1>1, <2>1 DEF Through
  <2>3. Counted(t)' = Counted(t)
    BY <1>1, <2>1 DEF Counted
  <2> QED BY <2>1, <2>2, <2>3
<1>3. Right(t)'
  BY <1>1, <1>2, Standing DEF Right, Holds, CounterRight
<1> QED BY <1>1, <1>2, <1>3, Standing, InsideStep

LEMMA FinishHolds == ASSUME Before, Holds, NEW t \in Threads, Finish(t) PROVE Holds'
<1>1. /\ interface = "iteration" /\ body[t] = "end"
      /\ settled' = settled /\ ordered_bumped'[t] = 0
      /\ UNCHANGED <<vars, interface, ordered_lower, ordered_upper>>
      /\ \A u \in Threads \ {t} : Same(u)
      /\ at'[t] = IF at[t] < ordered_upper[t] THEN at[t] + 1 ELSE at[t]
      /\ body'[t] = IF at[t] < ordered_upper[t] THEN "iteration" ELSE "out"
  BY DEF Finish, Advance, Same, Before, OrderedTyped
<1>2. /\ ordered_lower[t] \in Nat /\ ordered_upper[t] \in Nat /\ at[t] \in Nat
      /\ ordered_bumped[t] \in Nat /\ ordered_iteration \in Int
      /\ ordered_lower[t] <= at[t] /\ at[t] <= ordered_upper[t]
      /\ Chunk(t) = ordered_lower[t] .. ordered_upper[t]
  BY <1>1, Standing
<1>3. /\ Counted(t) = ordered_bumped[t] + (at[t] - ordered_lower[t])
      /\ Through(t) = at[t] - ordered_lower[t] + 1
      /\ Counted(t) <= Through(t)
  BY <1>1, Standing DEF Counted, Through
\* The iteration is counted, by its region or here.
<1>4. /\ \/ ordered_iteration' = ordered_iteration
         \/ /\ ordered_iteration \in Chunk(t)
            /\ ordered_iteration' \in ordered_iteration .. ordered_upper[t] + 1
      /\ \/ ordered_iteration' = at[t] + 1
         \/ ordered_iteration' > ordered_upper[t] /\ at[t] = ordered_upper[t]
  <2>1. CASE ordered_bumped[t] # 0
    <3>1. ordered_iteration' = ordered_iteration /\ Counted(t) = at[t] - ordered_lower[t] + 1
      BY <1>2, <1>3, <2>1 DEF Finish
    <3>2. \/ ordered_iteration = ordered_lower[t] + Counted(t)
          \/ /\ ordered_iteration > ordered_upper[t]
             /\ ordered_lower[t] + Counted(t) = ordered_upper[t] + 1
      BY <1>1, <1>2, <3>1 DEF Holds, CounterRight, Right
    <3> QED BY <1>2, <3>1, <3>2
  <2>2. CASE ordered_bumped[t] = 0
    <3>1. Turn(t) /\ ordered_iteration' = ordered_iteration + 1
      BY <2>2 DEF Finish
    <3>2. ordered_iteration = at[t]
      BY <1>1, <1>2, <1>3, <2>2, <3>1, AtItsTurn
    <3> QED BY <1>2, <3>1, <3>2
  <2> QED BY <2>1, <2>2
<1>5. Right(t)'
  <2>1. CASE at[t] < ordered_upper[t]
    <3>0. /\ at'[t] = at[t] + 1 /\ body'[t] = "iteration" /\ ordered_bumped'[t] = 0
          /\ interface' = "iteration" /\ ordered_lower'[t] = ordered_lower[t]
      BY <1>1, <2>1
    <3>1. /\ Counted(t)' = 0 + (at[t] + 1 - ordered_lower[t])
          /\ Through(t)' = at[t] + 1 - ordered_lower[t] + 0
      BY <1>2, <3>0 DEF Counted, Through
    <3>2. ordered_iteration' = ordered_lower'[t] + Counted(t)' /\ Counted(t)' <= Through(t)'
      BY <1>1, <1>2, <1>4, <2>1, <3>1
    <3> QED BY <1>1, <2>1, <3>2 DEF Right
  <2>2. CASE ~(at[t] < ordered_upper[t])
    BY <1>1, <2>2 DEF Right
  <2> QED BY <2>1, <2>2
<1>6. ASSUME NEW i \in Chunk(t) PROVE i \in settled <=> i < at[t] + 1
  <2>1. i \in settled <=> i < ordered_lower[t] + Through(t)
    BY <1>1, <1>6, Standing
  <2> QED BY <1>2, <1>3, <2>1
<1>7. body'[t] # "out" =>
        \A i \in Chunk(t) : i \in settled' <=> i < ordered_lower[t] + Through(t)'
  <2> SUFFICES ASSUME at[t] < ordered_upper[t], NEW i \in Chunk(t)
               PROVE  i \in settled' <=> i < ordered_lower[t] + Through(t)'
    BY <1>1
  <2>0. at'[t] = at[t] + 1 /\ body'[t] = "iteration" /\ ordered_lower'[t] = ordered_lower[t]
    BY <1>1
  <2>1. Through(t)' = at[t] + 1 - ordered_lower[t] + 0
    BY <1>2, <2>0 DEF Through
  <2> QED BY <1>1, <1>2, <1>6, <2>1
<1>8. \A i \in Chunk(t) : i < ordered_iteration' => i \in settled'
  <2> SUFFICES ASSUME NEW i \in Chunk(t), i < ordered_iteration' PROVE i \in settled
    BY <1>1
  <2> QED BY <1>2, <1>4, <1>6
<1>9. \/ body'[t] # "out" /\ ordered_lower[t] <= at'[t] /\ at'[t] <= ordered_upper[t]
      \/ body'[t] = "out" /\ ordered_iteration' > ordered_upper[t]
  BY <1>1, <1>2, <1>4
<1> QED BY <1>1, <1>4, <1>5, <1>7, <1>8, <1>9, InsideStep

LEMMA FinishChunkHolds == ASSUME Before, Holds, NEW t \in Threads, FinishChunk(t) PROVE Holds'
<1>1. /\ interface = "chunk" /\ body[t] = "end" /\ body'[t] = "out"
      /\ at[t] = ordered_upper[t] /\ settled' = settled /\ ordered_bumped'[t] = 0
      /\ UNCHANGED <<vars, interface, ordered_lower, ordered_upper>>
      /\ \A u \in Threads \ {t} : Same(u)
  <2>1. at[t] = ordered_upper[t] /\ at[t] \in Nat
    BY DEF FinishChunk, Before, OrderedTyped
  <2>2. ~(at[t] < ordered_upper[t])
    BY <2>1
  <2> QED BY <2>1, <2>2 DEF FinishChunk, Advance, Same, Before, OrderedTyped
<1>2. /\ ordered_lower[t] \in Nat /\ ordered_upper[t] \in Nat
      /\ ordered_bumped[t] \in Nat /\ ordered_iteration \in Int
      /\ ordered_lower[t] <= ordered_upper[t]
      /\ Chunk(t) = ordered_lower[t] .. ordered_upper[t]
  BY <1>1, Standing
<1>3. /\ Counted(t) = ordered_bumped[t] + 0
      /\ Through(t) = ordered_upper[t] - ordered_lower[t] + 1
      /\ Counted(t) <= Through(t)
  BY <1>1, Standing DEF Counted, Through
<1>4. /\ \/ ordered_iteration' = ordered_iteration
         \/ /\ ordered_iteration \in Chunk(t)
            /\ ordered_iteration' \in ordered_iteration .. ordered_upper[t] + 1
      /\ ordered_iteration' > ordered_upper[t]
  <2>1. CASE ordered_bumped[t] = ordered_upper[t] - ordered_lower[t] + 1
    <3>1. ordered_iteration' = ordered_iteration
      BY <2>1 DEF FinishChunk
    <3>2. \/ ordered_iteration = ordered_lower[t] + Counted(t)
          \/ ordered_iteration > ordered_upper[t]
      BY <1>1, <1>2, <1>3, <2>1 DEF Holds, CounterRight, Right
    <3> QED BY <1>2, <1>3, <2>1, <3>1, <3>2
  <2>2. CASE ordered_bumped[t] # ordered_upper[t] - ordered_lower[t] + 1
    <3>1. /\ Turn(t)
          /\ ordered_iteration' = ordered_iteration
                + (ordered_upper[t] - ordered_lower[t] + 1) - ordered_bumped[t]
      BY <2>2 DEF FinishChunk
    <3>2. ordered_lower[t] + Counted(t) <= ordered_upper[t]
      BY <1>2, <1>3, <2>2
    <3>3. ordered_iteration = ordered_lower[t] + ordered_bumped[t] /\ ordered_iteration \in Chunk(t)
      <4>1. ordered_iteration = ordered_lower[t] + Counted(t) /\ ordered_iteration \in Chunk(t)
        BY <1>1, <3>1, <3>2, AtItsTurn
      <4> QED BY <1>2, <1>3, <4>1
    <3>4. ordered_iteration' = ordered_upper[t] + 1
      BY <1>2, <3>1, <3>3
    <3> QED BY <1>2, <3>3, <3>4
  <2> QED BY <2>1, <2>2
<1>5. Right(t)'
  BY <1>1 DEF Right
<1>6. \A i \in Chunk(t) : i \in settled'
  <2> SUFFICES ASSUME NEW i \in Chunk(t) PROVE i \in settled
    BY <1>1
  <2>1. i \in settled <=> i < ordered_lower[t] + Through(t)
    BY <1>1, Standing
  <2> QED BY <1>2, <1>3, <2>1
<1> QED BY <1>1, <1>4, <1>5, <1>6, InsideStep

LEMMA TakeHolds ==
    ASSUME Before, Holds, Typed', AtMostOnce', OrderedTyped', NEW t \in Threads, Take(t)
    PROVE  Holds'
<1> USE DEF Keeps
<1> DEFINE handed == {i \in Iterations : given'[i] # given[i]}
<1>1. body[t] = "out" /\ ThreadStep(t)
  BY DEF Take
<1>2. UNCHANGED <<tc, schedule, chunk>>
  BY <1>1 DEF ThreadStep, ZeroTrip, FetchIndex, TakeNumber, ReadCursor, Cas, Tail, AddChunk,
              StaticChunked, StaticBalanced, descr
<1>3. \A i \in Iterations : given[i] \in {0, 1} /\ given'[i] \in {0, 1}
  <2> SUFFICES ASSUME NEW i \in Iterations PROVE given[i] \in {0, 1} /\ given'[i] \in {0, 1}
    OBVIOUS
  <2>1. i \in Iterations'
    BY <1>2 DEF Iterations
  <2>2. given[i] \in Nat /\ given'[i] \in Nat
    BY <2>1 DEF Before, Typed
  <2>3. given[i] <= 1 /\ given'[i] <= 1
    BY <2>1 DEF Before, AtMostOnce
  <2> QED BY <2>2, <2>3
<1>4. \A i \in Iterations : given'[i] \in {given[i], given[i] + 1}
  BY <1>1, GivenGrows DEF Before
<1>5. \A i \in Iterations : given'[i] = 1 <=> given[i] = 1 \/ i \in handed
  BY <1>3, <1>4
<1>6. \A i \in handed : given[i] = 0
  BY <1>3, <1>4
<1>7. CASE UNCHANGED orderedVars /\ handed = {}
  <2>1. \A i \in Iterations : given'[i] = 1 <=> given[i] = 1
    BY <1>5, <1>7
  <2>2. \A u \in Threads : Keeps(u)
    BY <1>7 DEF orderedVars, Chunk, Counted, Through
  <2>3. Iterations' = Iterations
    BY <1>2 DEF Iterations
  <2>4. Disjoint' /\ InHand'
    BY <1>7, <2>1, <2>2, <2>3 DEF Holds, Disjoint, InHand, orderedVars
  <2>5. Pending'
    BY <1>7, <2>1, <2>2, <2>3 DEF Holds, Pending, orderedVars
  <2>6. CounterRight'
    BY <1>7, <2>2 DEF Holds, CounterRight, Right, orderedVars
  <2>7. SettledRight'
    BY <1>7, <2>1, <2>2, <2>3 DEF Holds, SettledRight, orderedVars
  <2> QED BY <2>4, <2>5, <2>6, <2>7 DEF Holds
<1>8. ASSUME NEW lo \in Iterations, NEW hi \in Iterations, lo <= hi, handed = lo .. hi,
             Begin(t, lo, hi)
      PROVE  Holds'
  <2>1. /\ ordered_lower'[t] = lo /\ ordered_upper'[t] = hi /\ at'[t] = lo /\ body'[t] = "iteration"
        /\ ordered_bumped'[t] = 0
        /\ UNCHANGED <<interface, ordered_iteration, settled>>
        /\ \A u \in Threads \ {t} : Same(u)
    BY <1>1, <1>8 DEF Begin, Same, Before, OrderedTyped, Holds, CounterRight, Right
  <2>2. /\ Chunk(t)' = lo .. hi /\ Chunk(t) = {}
        /\ \A u \in Threads \ {t} : Keeps(u)
    <3>1. \A u \in Threads \ {t} : Keeps(u)
      BY <2>1, SameKeeps
    <3> QED BY <1>1, <2>1, <3>1 DEF Chunk
  <2>3. Iterations' = Iterations /\ Iterations \subseteq Nat /\ lo \in Nat /\ hi \in Nat
    <3>1. tc \in Nat
      BY DescriptorFacts DEF Before, Typed
    <3> QED BY <1>2, <3>1 DEF Iterations
  <2>4. \A u \in Threads \ {t} : Chunk(u) \cap (lo .. hi) = {}
    <3> SUFFICES ASSUME NEW u \in Threads \ {t}, NEW i \in Chunk(u), i \in lo .. hi PROVE FALSE
      OBVIOUS
    <3>1. body[u] # "out"
      BY DEF Chunk
    <3>2. given[i] = 1
      BY <3>1 DEF Holds, InHand
    <3> QED BY <1>6, <1>8, <3>2
  <2>5. Disjoint'
    <3> SUFFICES ASSUME NEW u \in Threads, NEW v \in Threads, u # v
                 PROVE  Chunk(u)' \cap Chunk(v)' = {}
      BY DEF Disjoint
    <3>1. CASE u = t
      BY <2>2, <2>4, <3>1
    <3>2. CASE v = t
      BY <2>2, <2>4, <3>2
    <3>3. CASE u # t /\ v # t
      BY <2>2, <3>3 DEF Holds, Disjoint
    <3> QED BY <3>1, <3>2, <3>3
  <2>6. InHand'
    <3> SUFFICES ASSUME NEW u \in Threads, body'[u] # "out"
                 PROVE  /\ ordered_lower'[u] <= at'[u] /\ at'[u] <= ordered_upper'[u]
                        /\ \A i \in Chunk(u)' : i \in Iterations /\ given'[i] = 1
      BY <2>3 DEF InHand
    <3>1. CASE u = t
      BY <1>5, <1>8, <2>1, <2>2, <2>3, <3>1
    <3>2. CASE u # t
      BY <1>5, <2>1, <2>2, <3>2 DEF Same, Holds, InHand
    <3> QED BY <3>1, <3>2
  <2>7. Pending'
    <3> SUFFICES ASSUME NEW i \in Iterations, ordered_iteration <= i, given'[i] = 1
                 PROVE  \E u \in Threads : i \in Chunk(u)'
      BY <2>1, <2>3 DEF Pending
    <3>1. CASE i \in handed
      BY <1>8, <2>2, <3>1
    <3>2. CASE given[i] = 1
      BY <2>2, <3>2 DEF Holds, Pending
    <3> QED BY <1>5, <3>1, <3>2
  <2>8. ordered_iteration <= lo
    <3> SUFFICES ASSUME ordered_iteration > lo PROVE FALSE
      BY <2>3, ThreadTypes DEF Before
    <3>1. ordered_iteration \in Int
      BY DEF Before, OrderedTyped
    <3>2. lo \in settled
      BY <2>3, <3>1 DEF Holds, SettledRight
    <3>3. given[lo] = 1
      BY <3>2 DEF Holds, SettledRight
    <3> QED BY <1>6, <1>8, <2>3, <3>3
  <2>9. CounterRight'
    <3> SUFFICES ASSUME NEW u \in Threads PROVE Right(u)'
      BY DEF CounterRight
    <3>1. CASE u = t
      <4>1. Counted(t)' = 0 /\ Through(t)' = 0
        BY <2>1, <2>3 DEF Counted, Through
      <4>2. ordered_iteration' < lo \/ ordered_iteration' = lo + 0
        BY <2>1, <2>3, <2>8 DEF Before, OrderedTyped
      <4> QED BY <2>1, <3>1, <4>1, <4>2 DEF Right
    <3>2. CASE u # t
      BY <2>1, <2>2, <3>2 DEF Right, Same, Holds, CounterRight
    <3> QED BY <3>1, <3>2
  <2>10. SettledRight'
    <3>1. \A i \in settled : i \in Iterations /\ given'[i] = 1
      BY <1>5 DEF Holds, SettledRight
    <3>2. ASSUME NEW u \in Threads, NEW i \in Chunk(u)'
          PROVE  i \in settled <=> i < ordered_lower'[u] + Through(u)'
      <4>1. CASE u = t
        <5>1. given[i] = 0 /\ i >= lo /\ i \in Nat
          BY <1>6, <1>8, <2>2, <2>3, <3>2, <4>1
        <5>2. i \notin settled
          BY <5>1 DEF Holds, SettledRight
        <5>3. ordered_lower'[u] + Through(u)' = lo
          BY <2>1, <2>3, <4>1 DEF Through
        <5> QED BY <2>3, <5>1, <5>2, <5>3
      <4>2. CASE u # t
        BY <2>1, <2>2, <3>2, <4>2 DEF Same, Holds, SettledRight
      <4> QED BY <4>1, <4>2
    <3> QED BY <2>1, <2>3, <3>1, <3>2 DEF SettledRight, Holds
  <2> QED BY <2>5, <2>6, <2>7, <2>9, <2>10 DEF Holds
<1> QED BY <1>7, <1>8 DEF Take, Before, Ordered
---------------------------------------------------------------------------
LEMMA OrderedHoldsInit == OrderedInit => OrderedInv
<1> SUFFICES ASSUME OrderedInit PROVE Holds /\ \A t \in Threads : body[t] = "out"
  BY DEF OrderedInv, Holds
<1>1. \A t \in Threads : body[t] = "out" /\ ordered_bumped[t] = 0 /\ Chunk(t) = {}
  BY DEF OrderedInit, Chunk
<1>2. \A i \in Iterations : given[i] = 0
  BY DEF OrderedInit, Init
<1>3. ordered_iteration = 0 /\ settled = {}
  BY DEF OrderedInit
<1>4. Disjoint /\ InHand /\ CounterRight
  BY <1>1 DEF Disjoint, InHand, CounterRight, Right
<1>5. Pending
  BY <1>2 DEF Pending
<1>6. SettledRight
  BY <1>1, <1>3 DEF SettledRight
<1> QED BY <1>1, <1>4, <1>5, <1>6 DEF Holds

LEMMA OrderedHoldsNext ==
    ASSUME Typed, AtMostOnce, OrderedTyped, OrderedInv, Typed', AtMostOnce', OrderedTyped',
           [OrderedNext]_allVars
    PROVE  OrderedInv'
<1> USE DEF Keeps
<1>1. UNCHANGED interface
  BY DEF OrderedNext, OrderedFinished, OrderedStep, Take, Begin, SkipRegion, Deo, Dxo, Finish,
         NextOfChunk, FinishChunk, allVars, orderedVars
<1>5. CASE ~Ordered
  <2>1. \A t \in Threads : body[t] = "out"
    BY <1>5 DEF OrderedInv, Ordered
  <2>2. UNCHANGED body
    BY <1>5, <2>1 DEF Ordered, OrderedNext, OrderedFinished, OrderedStep, Take, SkipRegion, Deo,
                      Dxo, Finish, NextOfChunk, FinishChunk, allVars, orderedVars
  <2> QED BY <1>1, <1>5, <2>1, <2>2 DEF OrderedInv, Ordered
<1> SUFFICES ASSUME Ordered PROVE Holds'
  BY <1>1, <1>5 DEF OrderedInv, Holds, Ordered
<1>2. Before /\ Holds
  BY DEF Before, OrderedInv, Holds, Ordered
<1>3. ASSUME NEW t \in Threads, OrderedStep(t) PROVE Holds'
  BY <1>2, <1>3, TakeHolds, SkipHolds, DeoHolds, DxoHolds, FinishHolds, NextOfChunkHolds,
     FinishChunkHolds DEF OrderedStep
<1>4. CASE UNCHANGED allVars
  <2>1. UNCHANGED <<given, tc>> /\ UNCHANGED orderedVars
    BY <1>4 DEF allVars, vars, descr
  <2>2. Iterations' = Iterations
    BY <2>1 DEF Iterations
  <2>3. \A u \in Threads : Keeps(u)
    BY <2>1 DEF orderedVars, Chunk, Counted, Through
  <2>4. Disjoint' /\ InHand' /\ Pending'
    BY <1>2, <2>1, <2>2, <2>3 DEF Holds, Disjoint, InHand, Pending, orderedVars
  <2>5. CounterRight'
    BY <1>2, <2>1, <2>3 DEF Holds, CounterRight, Right, orderedVars
  <2>6. SettledRight'
    BY <1>2, <2>1, <2>2, <2>3 DEF Holds, SettledRight, orderedVars
  <2> QED BY <2>4, <2>5, <2>6 DEF Holds
<1> QED BY <1>3, <1>4 DEF OrderedNext, OrderedFinished

\* While a region is executed the counter has reached its chunk, so everything
\* before the chunk is settled; within the chunk its thread goes in order.
LEMMA HoldsInOrder == OrderedTyped /\ OrderedInv => InOrder
<1> SUFFICES ASSUME OrderedTyped, Holds, NEW t \in Threads, body[t] = "region"
             PROVE  /\ \A i \in 0 .. at[t] - 1 : i \in settled
                    /\ at[t] \notin settled
  BY DEF InOrder, OrderedInv, Holds
<1>1. /\ ordered_lower[t] \in Nat /\ ordered_upper[t] \in Nat /\ at[t] \in Nat
      /\ ordered_iteration \in Int
      /\ ordered_lower[t] <= at[t] /\ at[t] <= ordered_upper[t]
      /\ ordered_iteration >= ordered_lower[t]
  BY DEF OrderedTyped, Holds, InHand, CounterRight, Right
<1>2. Chunk(t) = ordered_lower[t] .. ordered_upper[t] /\ Through(t) = at[t] - ordered_lower[t] + 0
  BY DEF Chunk, Through
<1>3. ASSUME NEW i \in Chunk(t) PROVE i \in settled <=> i < at[t]
  <2>1. i \in settled <=> i < ordered_lower[t] + Through(t)
    BY <1>3 DEF Holds, SettledRight
  <2> QED BY <1>1, <1>2, <2>1
<1>4. ASSUME NEW i \in 0 .. at[t] - 1 PROVE i \in settled
  <2>1. CASE i < ordered_lower[t]
    BY <1>1, <2>1 DEF Holds, SettledRight
  <2>2. CASE i >= ordered_lower[t]
    BY <1>1, <1>2, <1>3, <2>2
  <2> QED BY <1>1, <2>1, <2>2
<1>5. at[t] \notin settled
  BY <1>1, <1>2, <1>3
<1> QED BY <1>4, <1>5

\* Ordered regions are executed one at a time and in the order of the loop,
\* whichever iterations have one, whoever executes them and however the compiler
\* ends iterations, for every schedule (__kmp_dispatch_deo, __kmp_dispatch_dxo,
\* __kmp_dispatch_finish, __kmp_dispatch_finish_chunk).
THEOREM RegionsInOrder == OrderedSpec => []InOrder
<1> DEFINE All == Typed /\ AtMostOnce
           Both == OrderedTyped /\ OrderedInv
<1>1. OrderedSpec => []All
  BY OrderedTakesSteps, SelfCursorExact, SelfAtMostOnce, PTL
<1>2. OrderedInit => Both
  BY OrderedTypedInit, OrderedHoldsInit
<1>3. All /\ All' /\ Both /\ [OrderedNext]_allVars => Both'
  BY OrderedTypedNext, OrderedHoldsNext
<1>4. Both => InOrder
  BY HoldsInOrder
<1> HIDE DEF All, Both
<1> QED BY <1>1, <1>2, <1>3, <1>4, PTL DEF OrderedSpec
===========================================================================
