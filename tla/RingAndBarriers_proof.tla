---------------------- MODULE RingAndBarriers_proof ----------------------
(***************************************************************************)
(* The two places where a team meets between its loops: the ring of shared *)
(* dispatch buffers (kmp_dispatch.cpp), where a thread waits for the slot  *)
(* of its next loop, and the barrier (kmp_barrier.cpp), where it waits for *)
(* all others.  The two models share no variable, and the theorems about   *)
(* one use no assumption on the constants of the other.                    *)
(***************************************************************************)
EXTENDS DispatchBuffer, Barriers, SequenceTheorems, FiniteSetTheorems,
        WellFoundedInduction, TLAPS
---------------------------------------------------------------------------
(* The ring of dispatch buffers.                                           *)

\* Arithmetic of the ring: loops with one slot are NumBuffers apart.
LEMMA DivMod ==
    ASSUME NEW l \in Nat
    PROVE  /\ l \div NumBuffers \in Nat
           /\ Slot(l) \in 0 .. NumBuffers - 1
           /\ l = NumBuffers * (l \div NumBuffers) + Slot(l)
  BY RingAssumption DEF Slot

LEMMA MulStep ==
    ASSUME NEW q \in Int, NEW p \in Int, q < p
    PROVE  NumBuffers * q + NumBuffers <= NumBuffers * p
<1>1. PICK k \in Nat : p = q + 1 + k
  <2>1. p - q - 1 \in Nat /\ p = q + 1 + (p - q - 1)
    OBVIOUS
  <2> QED BY <2>1
<1>2. NumBuffers * (q + 1 + k) = NumBuffers * q + NumBuffers + NumBuffers * k
  BY RingAssumption
<1>3. NumBuffers * k \in Nat
  BY RingAssumption
<1> QED BY <1>1, <1>2, <1>3, RingAssumption

LEMMA SlotFacts ==
    /\ \A l \in Nat : Slot(l) \in Slots
    /\ \A b \in Slots : Slot(b) = b
    /\ \A l \in Nat : Slot(l + NumBuffers) = Slot(l)
    /\ \A l, m \in Nat : Slot(l) = Slot(m) /\ l < m => l + NumBuffers <= m
<1>1. \A l \in Nat : Slot(l) \in Slots
  BY RingAssumption DEF Slot, Slots
<1>2. \A b \in Slots : Slot(b) = b
  BY RingAssumption DEF Slot, Slots
<1>3. ASSUME NEW l \in Nat PROVE Slot(l + NumBuffers) = Slot(l)
  <2> DEFINE m == l + NumBuffers
             q == l \div NumBuffers
             p == m \div NumBuffers
  <2>1. m \in Nat
    BY RingAssumption
  <2>2. /\ q \in Nat /\ p \in Nat
        /\ Slot(l) \in 0 .. NumBuffers - 1 /\ Slot(m) \in 0 .. NumBuffers - 1
        /\ l = NumBuffers * q + Slot(l)
        /\ m = NumBuffers * p + Slot(m)
    BY <2>1, DivMod
  <2>3. NumBuffers * (q + 1) = NumBuffers * q + NumBuffers
    BY <2>2, RingAssumption
  <2>4. q + 1 < p => NumBuffers * (q + 1) + NumBuffers <= NumBuffers * p
    BY <2>2, MulStep
  <2>5. p < q + 1 => NumBuffers * p + NumBuffers <= NumBuffers * (q + 1)
    BY <2>2, MulStep
  <2>6. NumBuffers * p \in Int /\ NumBuffers * q \in Int
    BY <2>2, RingAssumption
  <2>7. p = q + 1
    <3> HIDE DEF p, q
    <3> QED BY <2>2, <2>3, <2>4, <2>5, <2>6, RingAssumption
  <2> HIDE DEF p, q
  <2> QED BY <2>2, <2>3, <2>6, <2>7, RingAssumption
<1>4. ASSUME NEW l \in Nat, NEW m \in Nat, Slot(l) = Slot(m), l < m
      PROVE  l + NumBuffers <= m
  <2> DEFINE q == l \div NumBuffers
             p == m \div NumBuffers
  <2>1. /\ q \in Nat /\ p \in Nat
        /\ Slot(l) \in 0 .. NumBuffers - 1
        /\ l = NumBuffers * q + Slot(l)
        /\ m = NumBuffers * p + Slot(l)
    BY <1>4, DivMod
  <2>2. q < p => NumBuffers * q + NumBuffers <= NumBuffers * p
    BY <2>1, MulStep
  <2>3. p < q => NumBuffers * p + NumBuffers <= NumBuffers * q
    BY <2>1, MulStep
  <2>4. NumBuffers * p \in Int /\ NumBuffers * q \in Int
    BY <2>1, RingAssumption
  <2> HIDE DEF p, q
  <2> QED BY <1>4, <2>1, <2>2, <2>3, <2>4, RingAssumption
<1> QED BY <1>1, <1>2, <1>3, <1>4

LEMMA LoopSlot == \A l \in Loops : Slot(l) \in Slots
  BY SlotFacts DEF Loops
---------------------------------------------------------------------------
LEMMA TypeInit == Init => TypeOK
  BY RingAssumption, RegionAssumption, LoopAssumption
  DEF Init, TypeOK, PcValues, Slots, Loops, Untouched

\* A thread that is not idle is in one of the region's loops.
LEMMA InLoop ==
    ASSUME TypeOK, NEW t \in Threads, pc[t] # "idle"
    PROVE  Loop(t) \in Loops /\ Buf(t) \in Slots
<1>1. Loop(t) \in Loops
  BY RingAssumption DEF TypeOK, Loop, Loops
<1>2. Loop(t) \in Nat
  BY <1>1, RingAssumption DEF Loops
<1> QED BY <1>1, <1>2, SlotFacts DEF Buf

\* Handing out iterations keeps the history a family of counters.
LEMMA GiveType ==
    ASSUME TypeOK, NEW l \in Loops, NEW lo, NEW hi, Give(l, lo, hi)
    PROVE  /\ given' = [m \in Loops |-> given'[m]]
           /\ \A m \in Loops : given'[m] \in [Iterations(m) -> Nat]
           /\ \A m \in Loops : \A i \in Iterations(m) :
                 given'[m][i] = IF m = l /\ i \in lo .. hi THEN given[m][i] + 1
                                ELSE given[m][i]
  BY DEF TypeOK, Give

LEMMA TypeNext == TypeOK /\ [Next]_vars => TypeOK'
<1> SUFFICES ASSUME TypeOK, [Next]_vars PROVE TypeOK'
  OBVIOUS
<1> USE RingAssumption, RegionAssumption, LoopAssumption, ChunkAssumption
<1>n. NProc \in Nat /\ NProc > 1
  BY ThreadsAssumption, FS_CardinalityType DEF NProc
<1>1. ASSUME NEW t \in Threads, Enter(t) PROVE TypeOK'
  BY <1>n, <1>1, InLoop, GiveType DEF Enter, TypeOK, PcValues, slotVars
<1>2. ASSUME NEW t \in Threads, FacTest(t) PROVE TypeOK'
  <2>1. CASE initialized[Buf(t)]
    BY <1>2, <2>1, InLoop DEF FacTest, TypeOK, PcValues
  <2>2. CASE ~initialized[Buf(t)]
    BY <1>2, <2>2, InLoop DEF FacTest, TypeOK, PcValues
  <2> QED BY <2>1, <2>2
<1>3. ASSUME NEW t \in Threads, FacSetup(t) PROVE TypeOK'
  BY <1>n, <1>3, InLoop, GiveType DEF FacSetup, TypeOK, PcValues, slotVars
<1>4. ASSUME NEW t \in Threads, BufferFree(t) PROVE TypeOK'
  BY <1>n, <1>4, InLoop, GiveType DEF BufferFree, TypeOK, PcValues, slotVars
<1>5. ASSUME NEW t \in Threads, NextZeroTrip(t) PROVE TypeOK'
  BY <1>n, <1>5, InLoop, GiveType DEF NextZeroTrip, TypeOK, PcValues, slotVars
<1>6. ASSUME NEW t \in Threads, NextDynamic(t) PROVE TypeOK'
  BY <1>n, <1>6, InLoop, GiveType DEF NextDynamic, TypeOK, PcValues, slotVars
<1>7. ASSUME NEW t \in Threads, NextFac(t) PROVE TypeOK'
  <2> DEFINE b == Buf(t)
             l == Loop(t)
             remaining == Trip[l] - iteration[b]
             cs == FacChunk(b, remaining)
  <2>1. l \in Loops /\ b \in Slots
    BY <1>7, InLoop DEF NextFac
  <2>2. CASE remaining > 0
    <3>1. remaining \in 1 .. Trip[l]
      BY <2>1, <2>2 DEF TypeOK
    <3>2. cs \in Nat
      BY <2>1, <3>1 DEF FacChunk, TypeOK
    <3>3. QueueAfter(b) \in Nat
      BY <1>n, <2>1 DEF QueueAfter, TypeOK
    <3>4. /\ iteration' = [iteration EXCEPT ![b] = iteration[b] + cs]
          /\ q_counter' = [q_counter EXCEPT ![b] = QueueAfter(b)]
          /\ chunk_size' = [chunk_size EXCEPT ![b] = cs]
          /\ Give(l, iteration[b], iteration[b] + cs - 1)
          /\ UNCHANGED <<pc, th_disp_index, buffer_index, num_done, initialized,
                         mtx, region>>
      BY <1>7, <2>2 DEF NextFac
    <3>5. /\ given' = [m \in Loops |-> given'[m]]
          /\ \A m \in Loops : given'[m] \in [Iterations(m) -> Nat]
      BY <2>1, <3>4, GiveType
    <3> HIDE DEF cs, b, l, remaining
    <3> QED BY <2>1, <3>2, <3>3, <3>4, <3>5 DEF TypeOK
  <2>3. CASE ~(remaining > 0)
    BY <1>7, <2>1, <2>3 DEF NextFac, TypeOK, PcValues
  <2> QED BY <2>2, <2>3
<1>8. ASSUME NEW t \in Threads, CountOut(t) PROVE TypeOK'
  BY <1>n, <1>8, InLoop, GiveType DEF CountOut, TypeOK, PcValues, slotVars
<1>9. ASSUME NEW t \in Threads, ClearCounters(t) PROVE TypeOK'
  BY <1>n, <1>9, InLoop, GiveType DEF ClearCounters, TypeOK, PcValues, slotVars
<1>10. ASSUME NEW t \in Threads, ClearFlag(t) PROVE TypeOK'
  BY <1>n, <1>10, InLoop, GiveType DEF ClearFlag, TypeOK, PcValues, slotVars
<1>11. ASSUME NEW t \in Threads, Release(t) PROVE TypeOK'
  BY <1>11, InLoop DEF Release, Renumber, TypeOK, PcValues
<1>12. CASE NewRegion
  BY <1>12 DEF NewRegion, TypeOK, PcValues, Untouched, Slots
<1>13. CASE UNCHANGED vars
  BY <1>13 DEF vars, slotVars, TypeOK
<1> QED BY <1>1, <1>2, <1>3, <1>4, <1>5, <1>6, <1>7, <1>8, <1>9, <1>10, <1>11, <1>12, <1>13 DEF Next, ThreadStep, Finished

\* TypeOK holds of the ring for every team, ring and list of loops.
THEOREM RingTyped == Spec => []TypeOK
  BY TypeInit, TypeNext, PTL DEF Spec
---------------------------------------------------------------------------
(***************************************************************************)
(* The steps of a thread, by what they do to the ring.  The lemmas below   *)
(* take a step of thread t that leaves the other threads where they are.   *)
(***************************************************************************)
Clr == {"clear", "clearflag", "release"}

StaysPut(u) == pc'[u] = pc[u] /\ th_disp_index'[u] = th_disp_index[u]

\* Steps that do not touch the slot's counters.
QuietMove(t) ==
    /\ UNCHANGED <<buffer_index, num_done, iteration, given>>
    /\ \A u \in Threads \ {t} : StaysPut(u)
    /\ \/ /\ pc[t] = "idle" /\ pc'[t] \in {"lock", "wait"}
          /\ th_disp_index'[t] = th_disp_index[t] + 1
       \/ /\ pc[t] \in {"lock", "setup"} /\ pc'[t] \in {"setup", "wait"}
          /\ th_disp_index'[t] = th_disp_index[t]
       \/ /\ pc[t] = "wait" /\ pc'[t] = "next"
          /\ buffer_index[Buf(t)] = Loop(t)
          /\ th_disp_index'[t] = th_disp_index[t]
       \/ /\ pc[t] = "clearflag" /\ pc'[t] = "release"
          /\ th_disp_index'[t] = th_disp_index[t]

LEMMA QuietPreserves ==
    ASSUME IInv, TypeOK', NEW t \in Threads, QuietMove(t)
    PROVE  IInv'
<1> USE RingAssumption DEF IInv
<1>1. UNCHANGED <<buffer_index, num_done, iteration, given>>
  BY DEF QuietMove
<1>2. \A u \in Threads : u # t => StaysPut(u)
  BY DEF QuietMove
<1>3. \A u \in Threads : Left(u)' = Left(u)
  BY <1>2 DEF QuietMove, StaysPut, Left, Loop, TypeOK
<1>4. \A u \in Threads : \A b \in Slots : CountedOut(u, b)' <=> CountedOut(u, b)
  BY <1>1, <1>2 DEF QuietMove, StaysPut, CountedOut, TypeOK
<1>5. \A u \in Threads :
         /\ pc'[u] \in Clr <=> pc[u] \in Clr
         /\ pc'[u] \in {"clearflag", "release"} <=> pc[u] \in {"clearflag", "release"}
         /\ pc'[u] = "status0" <=> pc[u] = "status0"
         /\ pc[u] # "idle" => Buf(u)' = Buf(u) /\ Loop(u)' = Loop(u)
  BY <1>2 DEF QuietMove, StaysPut, Buf, Loop, Clr
<1>6. \A b \in Slots : Cleared(b)' <=> Cleared(b)
  BY <1>5 DEF Cleared
<1>7. OneLoopPerSlot'
  <2> SUFFICES ASSUME NEW u \in Threads, pc'[u] \in Using
               PROVE  buffer_index[Buf(u)'] = Loop(u)'
    BY <1>1 DEF OneLoopPerSlot
  <2>1. CASE u # t
    BY <1>2, <1>5, <2>1 DEF OneLoopPerSlot, StaysPut, Using
  <2>2. CASE u = t
    BY <1>5, <2>2 DEF OneLoopPerSlot, QuietMove, Using
  <2> QED BY <2>1, <2>2
<1>8. Numbered' /\ NotPassed' /\ NotAhead'
  BY <1>1, <1>3 DEF Numbered, NotPassed, NotAhead
<1>9. Counts'
  BY <1>1, <1>4, <1>6 DEF Counts
<1>10. Clearing'
  <2> SUFFICES ASSUME NEW u \in Threads, pc'[u] \in Clr, NEW v \in Threads
               PROVE  /\ CountedOut(v, Buf(u))'
                      /\ v # u /\ pc'[v] \in Clr => Buf(v)' # Buf(u)'
    BY DEF Clearing, Clr
  <2>1. Buf(u)' = Buf(u) /\ Buf(u) \in Slots /\ pc[u] \in Clr
    BY <1>5, InLoop DEF Clr
  <2>2. CountedOut(v, Buf(u)) /\ (v # u /\ pc[v] \in Clr => Buf(v) # Buf(u))
    BY <2>1 DEF Clearing, Clr
  <2>3. CountedOut(v, Buf(u))'
    BY <1>1, <1>4, <2>1, <2>2 DEF CountedOut
  <2> QED BY <1>5, <2>1, <2>2, <2>3 DEF Clr
<1>11. SomeoneClears'
  BY <1>1, <1>4, <1>5 DEF SomeoneClears, Clr
<1>12. Exhausted'
  BY <1>1, <1>4, <1>5, <1>6 DEF Exhausted
<1>13. Fresh' /\ Handed'
  <2>1. \A l \in Loops : Slot(l) \in Slots
    BY SlotFacts DEF Loops
  <2> QED BY <1>1, <1>6, <2>1 DEF Fresh, Handed
<1> QED BY <1>7, <1>8, <1>9, <1>10, <1>11, <1>12, <1>13

\* t takes iterations, or finds that none are left: only the slot's iteration
\* counter moves, and only forward.
NextMove(t) ==
    /\ pc[t] = "next"
    /\ UNCHANGED <<buffer_index, num_done, th_disp_index>>
    /\ iteration' = [iteration EXCEPT ![Buf(t)] = iteration'[Buf(t)]]
    /\ iteration'[Buf(t)] >= iteration[Buf(t)]
    /\ \A u \in Threads \ {t} : StaysPut(u)
    /\ \/ /\ pc'[t] = "next"
          /\ iteration[Buf(t)] < Trip[Loop(t)]
          /\ iteration[Buf(t)] < iteration'[Buf(t)]
          /\ Give(Loop(t), iteration[Buf(t)], iteration'[Buf(t)] - 1)
       \/ /\ pc'[t] = "status0" /\ given' = given
          /\ iteration[Buf(t)] >= Trip[Loop(t)]

LEMMA NextPreserves ==
    ASSUME IInv, TypeOK', NEW t \in Threads, NextMove(t)
    PROVE  IInv'
<1> USE RingAssumption DEF IInv
<1> DEFINE b0 == Buf(t)
           l0 == Loop(t)
<1>1. UNCHANGED <<buffer_index, num_done, th_disp_index>>
  BY DEF NextMove
<1>2. \A u \in Threads : u # t => StaysPut(u)
  BY DEF NextMove
<1>3. /\ l0 \in Loops /\ b0 \in Slots /\ buffer_index[b0] = l0
      /\ pc[t] = "next" /\ pc'[t] \in {"next", "status0"}
      /\ Slot(l0) = b0
  BY InLoop DEF NextMove, OneLoopPerSlot, Using, Buf
<1>4. /\ \A b \in Slots : b # b0 => iteration'[b] = iteration[b]
      /\ iteration'[b0] >= iteration[b0]
      /\ \A b \in Slots : iteration[b] \in Nat /\ iteration'[b] \in Nat
  BY <1>3 DEF NextMove, TypeOK
<1>5. \A u \in Threads : Left(u)' >= Left(u)
  BY <1>1, <1>2, <1>3 DEF StaysPut, Left, Loop, TypeOK
<1>6. \A u \in Threads : \A b \in Slots : CountedOut(u, b)' <=> CountedOut(u, b)
  BY <1>1, <1>2, <1>3 DEF StaysPut, CountedOut
<1>7. \A u \in Threads :
         /\ pc'[u] \in Clr <=> pc[u] \in Clr
         /\ pc'[u] \in {"clearflag", "release"} <=> pc[u] \in {"clearflag", "release"}
         /\ pc'[u] = "status0" => pc[u] = "status0" \/ u = t
         /\ Buf(u)' = Buf(u) /\ Loop(u)' = Loop(u)
         /\ pc'[u] \in Using <=> pc[u] \in Using
  BY <1>1, <1>2, <1>3 DEF StaysPut, Buf, Loop, Clr, Using
<1>8. \A b \in Slots : Cleared(b)' <=> Cleared(b)
  BY <1>7 DEF Cleared
<1>9. ~CountedOut(t, b0)
  BY <1>3, SMTT(30) DEF CountedOut, Loop, TypeOK, Loops
<1>10. ~Cleared(b0)
  BY <1>9 DEF Cleared, Clearing
<1>11. OneLoopPerSlot'
  BY <1>1, <1>7 DEF OneLoopPerSlot
<1>12. Numbered'
  BY <1>1 DEF Numbered
<1>13. NotPassed'
  <2> SUFFICES ASSUME NEW u \in Threads, NEW b \in Slots, NEW l \in 0 .. buffer_index[b] - 1,
                      Slot(l) = b
               PROVE  l < Left(u)'
    BY <1>1 DEF NotPassed
  <2>1. l < Left(u)
    BY DEF NotPassed
  <2>2. Left(u) \in Int /\ Left(u)' \in Int /\ l \in Int
    BY DEF Left, Loop, TypeOK
  <2> QED BY <1>5, <2>1, <2>2
<1>20. NotAhead'
  <2> SUFFICES ASSUME NEW u \in Threads, NEW l \in 0 .. Left(u)' - 1
               PROVE  l <= buffer_index[Slot(l)]
    BY <1>1 DEF NotAhead
  <2>1. CASE l < Left(u)
    BY <2>1 DEF NotAhead, Left, Loop, TypeOK
  <2>2. CASE ~(l < Left(u))
    <3>1. u = t /\ l = l0
      BY <1>1, <1>2, <1>3, <2>2 DEF StaysPut, Left, Loop, TypeOK
    <3> QED BY <1>3, <3>1 DEF Loops
  <2> QED BY <2>1, <2>2
<1>14. Counts'
  BY <1>1, <1>6, <1>8 DEF Counts
<1>15. Clearing'
  <2> SUFFICES ASSUME NEW u \in Threads, pc'[u] \in Clr, NEW v \in Threads
               PROVE  /\ CountedOut(v, Buf(u))'
                      /\ v # u /\ pc'[v] \in Clr => Buf(v)' # Buf(u)'
    BY DEF Clearing, Clr
  <2>1. Buf(u)' = Buf(u) /\ Buf(u) \in Slots /\ pc[u] \in Clr
    BY <1>7, InLoop DEF Clr
  <2>2. CountedOut(v, Buf(u)) /\ (v # u /\ pc[v] \in Clr => Buf(v) # Buf(u))
    BY <2>1 DEF Clearing, Clr
  <2>3. CountedOut(v, Buf(u))'
    BY <1>1, <1>6, <2>1, <2>2 DEF CountedOut
  <2> QED BY <1>7, <2>1, <2>2, <2>3 DEF Clr
<1>16. SomeoneClears'
  BY <1>1, <1>6, <1>7 DEF SomeoneClears, Clr
<1>17. Exhausted'
  <2> SUFFICES ASSUME NEW b \in Slots, NEW u \in Threads,
                      buffer_index[b] \in Loops, ~Cleared(b),
                      CountedOut(u, b) \/ (pc'[u] = "status0" /\ Buf(u) = b)
               PROVE  iteration'[b] >= Trip[buffer_index[b]]
    BY <1>1, <1>6, <1>7, <1>8 DEF Exhausted
  <2>1. Trip[buffer_index[b]] \in Nat
    BY LoopAssumption
  <2>2. CASE CountedOut(u, b) \/ pc[u] = "status0"
    BY <1>4, <2>1, <2>2 DEF Exhausted
  <2>3. CASE ~CountedOut(u, b) /\ pc[u] # "status0"
    <3>1. u = t /\ b = b0 /\ iteration[b] >= Trip[buffer_index[b]]
      BY <1>3, <1>7, <2>3 DEF NextMove
    <3> QED BY <1>4, <2>1, <3>1
  <2> QED BY <2>2, <2>3
<1>18. Fresh'
  BY <1>1, <1>3, <1>4, <1>8, <1>10 DEF Fresh
<1>19. Handed'
  <2> SUFFICES ASSUME NEW l \in Loops, NEW i \in Iterations(l)
               PROVE  given'[l][i] = IF \/ l < buffer_index[Slot(l)]
                                        \/ /\ l = buffer_index[Slot(l)]
                                           /\ Cleared(Slot(l)) \/ i < iteration'[Slot(l)]
                                     THEN 1 ELSE 0
    <3>1. \A l \in Loops : Slot(l) \in Slots
      BY SlotFacts DEF Loops
    <3> QED BY <1>1, <1>8, <3>1 DEF Handed
  <2>1. Slot(l) \in Slots /\ l \in Nat /\ i \in Nat
    BY SlotFacts DEF Loops, Iterations
  <2>2. given[l][i] = IF \/ l < buffer_index[Slot(l)]
                         \/ /\ l = buffer_index[Slot(l)]
                            /\ Cleared(Slot(l)) \/ i < iteration[Slot(l)]
                      THEN 1 ELSE 0
    BY DEF Handed
  <2>3. CASE pc'[t] = "status0"
    <3>1. l = l0 => i < iteration[b0] /\ i < iteration'[b0]
      BY <1>3, <1>4, <2>1, <2>3, LoopAssumption DEF NextMove, Iterations
    <3>2. given' = given
      BY <2>3 DEF NextMove
    <3> HIDE DEF b0, l0
    <3> QED BY <1>3, <1>4, <2>1, <2>2, <3>1, <3>2
  <2>4. CASE pc'[t] = "next"
    <3>1. given'[l][i] = IF l = l0 /\ i \in iteration[b0] .. iteration'[b0] - 1
                         THEN given[l][i] + 1 ELSE given[l][i]
      BY <1>3, <2>4, GiveType DEF NextMove
    <3> HIDE DEF b0, l0
    <3> QED BY <1>3, <1>4, <1>10, <2>1, <2>2, <3>1
  <2> QED BY <1>3, <2>3, <2>4
<1> QED BY <1>11, <1>12, <1>13, <1>14, <1>15, <1>16, <1>17, <1>18, <1>19, <1>20

\* t counts itself out: it joins the threads CountedOut of the slot, and clears
\* the slot when it completes the team.
LEMMA CountOutPreserves ==
    ASSUME IInv, TypeOK', NEW t \in Threads, CountOut(t)
    PROVE  IInv'
<1> USE RingAssumption DEF IInv
<1>0. PICK b0 \in Slots, l0 \in Loops : b0 = Buf(t) /\ l0 = Loop(t)
  BY InLoop DEF CountOut
<1> DEFINE Out(b) == {u \in Threads : CountedOut(u, b)}
<1>1. /\ UNCHANGED <<buffer_index, iteration, th_disp_index, given>>
      /\ \A u \in Threads : u # t => StaysPut(u)
  BY DEF CountOut, StaysPut, TypeOK
<1>2. /\ l0 \in Loops /\ b0 \in Slots /\ buffer_index[b0] = l0
      /\ pc[t] = "status0"
      /\ pc'[t] = IF num_done[b0] = NProc - 1 THEN "clear" ELSE "idle"
  BY <1>0 DEF CountOut, LastOut, OneLoopPerSlot, Using, TypeOK
<1>3. /\ \A b \in Slots : b # b0 => num_done'[b] = num_done[b]
      /\ num_done'[b0] = num_done[b0] + 1
  BY <1>0 DEF CountOut, TypeOK
<1>4. \A u \in Threads : Left(u)' = Left(u)
  BY <1>1, <1>2 DEF StaysPut, Left, Loop
<1>5. \A u \in Threads :
         /\ pc'[u] \in Clr <=> pc[u] \in Clr \/ (u = t /\ pc'[t] = "clear")
         /\ pc'[u] \in {"clearflag", "release"} <=> pc[u] \in {"clearflag", "release"}
         /\ pc'[u] = "status0" => pc[u] = "status0"
         /\ Buf(u)' = Buf(u) /\ Loop(u)' = Loop(u)
         /\ pc'[u] \in Using => pc[u] \in Using
  BY <1>1, <1>2 DEF StaysPut, Buf, Loop, Clr, Using
<1>6. \A b \in Slots : Cleared(b)' <=> Cleared(b)
  BY <1>5 DEF Cleared
<1>7. ~CountedOut(t, b0) /\ CountedOut(t, b0)'
  BY <1>0, <1>1, <1>2, SMTT(30) DEF CountedOut, Loop, TypeOK, Loops
<1>8. \A u \in Threads : \A b \in Slots :
         CountedOut(u, b)' <=> CountedOut(u, b) \/ (u = t /\ b = b0)
  <2> SUFFICES ASSUME NEW u \in Threads, NEW b \in Slots
               PROVE  CountedOut(u, b)' <=> CountedOut(u, b) \/ (u = t /\ b = b0)
    OBVIOUS
  <2>1. CASE u # t
    BY <1>1, <2>1 DEF CountedOut, StaysPut
  <2>2. CASE u = t /\ b = b0
    BY <1>7, <2>2
  <2>3. CASE u = t /\ b # b0
    <3>1. buffer_index[b] + 1 # th_disp_index[t]
      BY <1>0, <1>2, <2>3 DEF Numbered, Buf, Loop, TypeOK
    <3> QED BY <1>1, <2>3, <3>1 DEF CountedOut
  <2> QED BY <2>1, <2>2, <2>3
<1>9. ~Cleared(b0) /\ \A u \in Threads : pc[u] \in Clr => Buf(u) # b0
  BY <1>0, <1>7 DEF Cleared, Clearing, Clr
<1>10. /\ \A b \in Slots : IsFiniteSet(Out(b))
       /\ Cardinality(Out(b0) \union {t}) = Cardinality(Out(b0)) + 1
       /\ \A b \in Slots : b # b0 => {u \in Threads : CountedOut(u, b)'} = Out(b)
       /\ {u \in Threads : CountedOut(u, b0)'} = Out(b0) \union {t}
  <2>1. \A b \in Slots : Out(b) \in SUBSET Threads
    OBVIOUS
  <2>2. \A b \in Slots : IsFiniteSet(Out(b))
    BY <2>1, FS_Subset, ThreadsAssumption
  <2>3. t \notin Out(b0)
    BY <1>7
  <2>4. Cardinality(Out(b0) \union {t}) = Cardinality(Out(b0)) + 1
    BY <1>2, <2>2, <2>3, FS_AddElement
  <2>5. \A b \in Slots : b # b0 => {u \in Threads : CountedOut(u, b)'} = Out(b)
    BY <1>8
  <2>6. {u \in Threads : CountedOut(u, b0)'} = Out(b0) \union {t}
    BY <1>2, <1>8
  <2> QED BY <2>2, <2>4, <2>5, <2>6
<1>11. num_done[b0] = Cardinality(Out(b0))
  BY <1>2, <1>9 DEF Counts
<1>12. OneLoopPerSlot' /\ Numbered' /\ NotPassed' /\ NotAhead'
  BY <1>1, <1>4, <1>5 DEF OneLoopPerSlot, Numbered, NotPassed, NotAhead
<1>13. Counts'
  <2> SUFFICES ASSUME NEW b \in Slots
               PROVE  num_done'[b] = IF Cleared(b) THEN 0
                                     ELSE Cardinality({u \in Threads : CountedOut(u, b)'})
    BY <1>6 DEF Counts
  <2>1. CASE b = b0
    BY <1>3, <1>9, <1>10, <1>11, <2>1
  <2>2. CASE b # b0
    BY <1>3, <1>10, <2>2 DEF Counts
  <2> QED BY <2>1, <2>2
<1>14. pc'[t] = "clear" => \A u \in Threads : CountedOut(u, b0)'
  <2> SUFFICES ASSUME num_done[b0] = NProc - 1
               PROVE  \A u \in Threads : CountedOut(u, b0)'
    BY <1>2
  <2>1. NProc \in Nat
    BY ThreadsAssumption, FS_CardinalityType DEF NProc
  <2>2. Cardinality(Out(b0) \union {t}) = Cardinality(Threads)
    BY <1>10, <1>11, <2>1 DEF NProc
  <2>3. Out(b0) \union {t} \in SUBSET Threads
    OBVIOUS
  <2>4. Out(b0) \union {t} = Threads
    BY <2>2, <2>3, FS_Subset, ThreadsAssumption
  <2> QED BY <1>10, <2>4
<1>15. Clearing'
  <2> SUFFICES ASSUME NEW u \in Threads, pc'[u] \in Clr, NEW v \in Threads
               PROVE  /\ CountedOut(v, Buf(u))'
                      /\ v # u /\ pc'[v] \in Clr => Buf(v)' # Buf(u)'
    BY DEF Clearing, Clr
  <2>1. Buf(u)' = Buf(u) /\ Buf(v)' = Buf(v)
    BY <1>5
  <2>2. CASE pc[u] \in Clr
    <3>1. Buf(u) \in Slots
      BY <2>2, InLoop DEF Clr
    <3>2. CountedOut(v, Buf(u)) /\ (v # u /\ pc[v] \in Clr => Buf(v) # Buf(u))
      BY <2>2 DEF Clearing, Clr
    <3>3. PICK c \in Slots : c = Buf(u)
      BY <3>1
    <3>4. CountedOut(v, c)'
      BY <1>8, <3>2, <3>3
    <3>5. CountedOut(v, Buf(u))'
      BY <2>1, <3>3, <3>4 DEF CountedOut
    <3> QED BY <1>0, <1>5, <1>9, <2>1, <2>2, <3>2, <3>5
  <2>3. CASE pc[u] \notin Clr
    <3>1. u = t /\ pc'[t] = "clear"
      BY <1>5, <2>3
    <3>2. CountedOut(v, Buf(u))'
      BY <1>0, <1>14, <2>1, <3>1 DEF CountedOut
    <3> QED BY <1>0, <1>5, <1>9, <2>1, <3>1, <3>2
  <2> QED BY <2>2, <2>3
<1>16. SomeoneClears'
  <2> SUFFICES ASSUME NEW b \in Slots, \A u \in Threads : CountedOut(u, b)'
               PROVE  \E u \in Threads : pc'[u] \in Clr /\ Buf(u)' = b
    BY DEF SomeoneClears, Clr
  <2>1. CASE b # b0
    <3>1. PICK u \in Threads : pc[u] \in Clr /\ Buf(u) = b
      BY <1>8, <2>1 DEF SomeoneClears, Clr
    <3> QED BY <1>5, <3>1
  <2>2. CASE b = b0
    <3>1. Out(b0) \union {t} = Threads
      BY <1>10, <2>2
    <3>2. Cardinality(Threads) = Cardinality(Out(b0)) + 1
      BY <1>10, <3>1
    <3>3. num_done[b0] \in Nat
      BY DEF TypeOK
    <3>4. num_done[b0] = NProc - 1
      BY <1>11, <3>2, <3>3 DEF NProc
    <3> QED BY <1>0, <1>2, <1>5, <2>2, <3>4 DEF Clr
  <2> QED BY <2>1, <2>2
<1>17. Exhausted'
  <2> SUFFICES ASSUME NEW b \in Slots, NEW u \in Threads,
                      buffer_index[b] \in Loops, ~Cleared(b),
                      CountedOut(u, b)' \/ (pc'[u] = "status0" /\ Buf(u) = b)
               PROVE  iteration[b] >= Trip[buffer_index[b]]
    BY <1>1, <1>5, <1>6 DEF Exhausted
  <2>1. CountedOut(u, b) \/ (pc[u] = "status0" /\ Buf(u) = b)
    BY <1>0, <1>2, <1>5, <1>8
  <2> QED BY <2>1 DEF Exhausted
<1>18. Fresh' /\ Handed'
  <2>1. \A l \in Loops : Slot(l) \in Slots
    BY SlotFacts DEF Loops
  <2> QED BY <1>1, <1>6, <2>1 DEF Fresh, Handed
<1> QED BY <1>12, <1>13, <1>15, <1>16, <1>17, <1>18

\* t clears the counters: the slot becomes Cleared, everything was handed out.
LEMMA ClearPreserves ==
    ASSUME IInv, TypeOK', NEW t \in Threads, ClearCounters(t)
    PROVE  IInv'
<1> USE RingAssumption DEF IInv
<1>0. PICK b0 \in Slots, l0 \in Loops : b0 = Buf(t) /\ l0 = Loop(t)
  BY InLoop DEF ClearCounters
<1>1. /\ UNCHANGED <<buffer_index, th_disp_index, given>>
      /\ \A u \in Threads : u # t => StaysPut(u)
  BY DEF ClearCounters, StaysPut, TypeOK
<1>2. /\ l0 \in Loops /\ b0 \in Slots /\ buffer_index[b0] = l0 /\ Slot(l0) = b0
      /\ pc[t] = "clear" /\ pc'[t] = "clearflag"
  BY <1>0 DEF ClearCounters, OneLoopPerSlot, Using, TypeOK, Buf
<1>3. /\ \A b \in Slots : b # b0 => num_done'[b] = num_done[b] /\ iteration'[b] = iteration[b]
      /\ num_done'[b0] = 0 /\ iteration'[b0] = 0
  BY <1>0 DEF ClearCounters, TypeOK
<1>4. \A u \in Threads : Left(u)' = Left(u)
  BY <1>1, <1>2 DEF StaysPut, Left, Loop
<1>5. \A u \in Threads :
         /\ pc'[u] \in Clr <=> pc[u] \in Clr
         /\ pc'[u] \in {"clearflag", "release"} <=> pc[u] \in {"clearflag", "release"} \/ u = t
         /\ pc'[u] = "status0" <=> pc[u] = "status0"
         /\ Buf(u)' = Buf(u) /\ Loop(u)' = Loop(u)
         /\ pc'[u] \in Using <=> pc[u] \in Using
  BY <1>1, <1>2 DEF StaysPut, Buf, Loop, Clr, Using
<1>6. /\ Cleared(b0)' /\ ~Cleared(b0)
      /\ \A b \in Slots : b # b0 => (Cleared(b)' <=> Cleared(b))
  <2>1. ~Cleared(b0)
    BY <1>0, <1>2 DEF Cleared, Clearing
  <2> QED BY <1>0, <1>2, <1>5, <2>1 DEF Cleared
<1>7. \A u \in Threads : \A b \in Slots : CountedOut(u, b)' <=> CountedOut(u, b)
  BY <1>1, <1>2 DEF CountedOut, StaysPut
<1>8. OneLoopPerSlot' /\ Numbered' /\ NotPassed' /\ NotAhead'
  BY <1>1, <1>4, <1>5 DEF OneLoopPerSlot, Numbered, NotPassed, NotAhead
<1>9. Counts'
  BY <1>3, <1>6, <1>7 DEF Counts
<1>10. Clearing'
  <2> SUFFICES ASSUME NEW u \in Threads, pc'[u] \in Clr, NEW v \in Threads
               PROVE  /\ CountedOut(v, Buf(u))'
                      /\ v # u /\ pc'[v] \in Clr => Buf(v)' # Buf(u)'
    BY DEF Clearing, Clr
  <2>1. Buf(u)' = Buf(u) /\ Buf(u) \in Slots /\ pc[u] \in Clr
    BY <1>5, InLoop DEF Clr
  <2>2. CountedOut(v, Buf(u)) /\ (v # u /\ pc[v] \in Clr => Buf(v) # Buf(u))
    BY <2>1 DEF Clearing, Clr
  <2>3. CountedOut(v, Buf(u))'
    BY <1>1, <1>7, <2>1, <2>2 DEF CountedOut
  <2> QED BY <1>5, <2>1, <2>2, <2>3 DEF Clr
<1>11. SomeoneClears'
  BY <1>1, <1>5, <1>7 DEF SomeoneClears, Clr
<1>12. Exhausted'
  BY <1>1, <1>3, <1>5, <1>6, <1>7 DEF Exhausted
<1>13. Fresh'
  BY <1>1, <1>3, <1>6 DEF Fresh
<1>14. iteration[b0] >= Trip[l0]
  BY <1>0, <1>2, <1>6 DEF Exhausted, Clearing
<1>15. Handed'
  <2> SUFFICES ASSUME NEW l \in Loops, NEW i \in Iterations(l)
               PROVE  given[l][i] = IF \/ l < buffer_index[Slot(l)]
                                       \/ /\ l = buffer_index[Slot(l)]
                                          /\ Cleared(Slot(l))' \/ i < iteration'[Slot(l)]
                                    THEN 1 ELSE 0
    <3>1. \A l \in Loops : Slot(l) \in Slots
      BY SlotFacts DEF Loops
    <3> QED BY <1>1, <3>1 DEF Handed
  <2>1. Slot(l) \in Slots /\ i \in Nat /\ i < Trip[l] /\ Trip[l] \in Nat
    <3>1. Trip[l] \in Nat
      BY LoopAssumption
    <3>2. i \in Nat /\ i < Trip[l]
      BY <3>1 DEF Iterations
    <3> QED BY <3>1, <3>2, LoopSlot
  <2>2. given[l][i] = IF \/ l < buffer_index[Slot(l)]
                         \/ /\ l = buffer_index[Slot(l)]
                            /\ Cleared(Slot(l)) \/ i < iteration[Slot(l)]
                      THEN 1 ELSE 0
    BY DEF Handed
  <2>3. CASE Slot(l) # b0
    BY <1>3, <1>6, <2>1, <2>2, <2>3
  <2>4. CASE Slot(l) = b0
    <3>1. l = buffer_index[b0] => i < iteration[b0]
      BY <1>2, <1>14, <2>1 DEF TypeOK
    <3>2. Cleared(Slot(l))'
      BY <1>6, <2>4 DEF Cleared
    <3> QED BY <2>2, <2>4, <3>1, <3>2
  <2> QED BY <2>3, <2>4
<1> QED BY <1>8, <1>9, <1>10, <1>11, <1>12, <1>13, <1>15

\* t hands the slot to the loop NumBuffers further on: nobody is in it yet.
LEMMA ReleasePreserves ==
    ASSUME IInv, TypeOK', NEW t \in Threads, Release(t)
    PROVE  IInv'
<1> USE RingAssumption DEF IInv
<1>0. PICK b0 \in Slots, l0 \in Loops : b0 = Buf(t) /\ l0 = Loop(t)
  BY InLoop DEF Release
<1>i. l0 \in Nat /\ \A u \in Threads : th_disp_index[u] \in Nat
  BY DEF TypeOK, Loops
<1>1. /\ UNCHANGED <<num_done, iteration, th_disp_index, given>>
      /\ \A u \in Threads : u # t => StaysPut(u)
  BY DEF Release, StaysPut, TypeOK
<1>2. /\ buffer_index[b0] = l0 /\ Slot(l0) = b0
      /\ pc[t] = "release" /\ pc'[t] = "idle"
  BY <1>0 DEF Release, OneLoopPerSlot, Using, TypeOK, Buf
<1>3. /\ \A b \in Slots : b # b0 => buffer_index'[b] = buffer_index[b]
      /\ buffer_index'[b0] = l0 + NumBuffers
  BY <1>0, <1>2 DEF Release, Renumber, TypeOK
<1>4. \A u \in Threads : Left(u)' = Left(u)
  BY <1>1, <1>2 DEF StaysPut, Left, Loop
<1>5. \A u \in Threads :
         /\ pc'[u] \in Clr <=> pc[u] \in Clr /\ u # t
         /\ pc'[u] \in {"clearflag", "release"} <=> pc[u] \in {"clearflag", "release"} /\ u # t
         /\ pc'[u] = "status0" <=> pc[u] = "status0"
         /\ Buf(u)' = Buf(u) /\ Loop(u)' = Loop(u)
         /\ pc'[u] \in Using <=> pc[u] \in Using /\ u # t
  BY <1>1, <1>2 DEF StaysPut, Buf, Loop, Clr, Using
<1>6. \A u \in Threads : CountedOut(u, b0)
  BY <1>0, <1>2 DEF Clearing
<1>7. \A u \in Threads : u # t /\ pc[u] \in Using => Buf(u) # b0
  <2> SUFFICES ASSUME NEW u \in Threads, u # t, pc[u] \in Using, Buf(u) = b0
               PROVE  FALSE
    OBVIOUS
  <2>1. Loop(u) = l0
    BY <1>2 DEF OneLoopPerSlot
  <2>2. pc[u] \in Clr
    BY <1>i, <1>2, <1>6, <2>1 DEF CountedOut, Loop, Using, Clr
  <2> QED BY <1>0, <1>2, <2>2 DEF Clearing, Clr
<1>8. /\ Cleared(b0) /\ ~Cleared(b0)'
      /\ \A b \in Slots : b # b0 => (Cleared(b)' <=> Cleared(b))
  BY <1>0, <1>2, <1>5, <1>7 DEF Cleared, Using
<1>9. \A u \in Threads : ~CountedOut(u, b0)'
  <2> SUFFICES ASSUME NEW u \in Threads, th_disp_index[u] >= l0 + NumBuffers + 1,
                      CountedOut(u, b0)'
               PROVE  FALSE
    BY <1>i, <1>1, <1>3 DEF CountedOut
  <2>1. l0 + NumBuffers \in Nat /\ Slot(l0 + NumBuffers) = b0
    BY <1>2, SlotFacts DEF Loops
  <2>2. ~(l0 + NumBuffers < Left(u))
    BY <1>i, <1>2, <2>1 DEF NotAhead, Left, Loop
  <2>3. pc[u] \in {"lock", "setup", "wait", "next"} /\ th_disp_index[u] = l0 + NumBuffers + 1
    BY <1>i, <2>1, <2>2 DEF Left, Loop
  <2> QED BY <1>i, <1>1, <1>2, <1>3, <2>3 DEF CountedOut, StaysPut
<1>10. \A u \in Threads : \A b \in Slots : b # b0 => (CountedOut(u, b)' <=> CountedOut(u, b))
  BY <1>1, <1>2, <1>3 DEF CountedOut, StaysPut
<1>11. OneLoopPerSlot'
  BY <1>3, <1>5, <1>7, InLoop DEF OneLoopPerSlot, Using
<1>12. Numbered'
  BY <1>2, <1>3, SlotFacts DEF Numbered, Loops
<1>13. NotPassed'
  <2> SUFFICES ASSUME NEW u \in Threads, NEW b \in Slots, NEW l \in 0 .. buffer_index'[b] - 1,
                      Slot(l) = b
               PROVE  l < Left(u)
    BY <1>4 DEF NotPassed
  <2>1. CASE b # b0
    BY <1>3, <2>1 DEF NotPassed
  <2>2. CASE b = b0 /\ l < l0
    BY <1>2, <2>2 DEF NotPassed, Loops
  <2>3. CASE b = b0 /\ ~(l < l0)
    <3>1. l = l0
      BY <1>2, <1>3, <2>3, SlotFacts DEF Loops
    <3>2. l0 < Left(u)
      BY <1>i, <1>2, <1>6 DEF CountedOut, Left, Loop
    <3> QED BY <3>1, <3>2
  <2> QED BY <2>1, <2>2, <2>3
<1>14. NotAhead'
  <2> SUFFICES ASSUME NEW u \in Threads, NEW l \in 0 .. Left(u) - 1
               PROVE  l <= buffer_index'[Slot(l)]
    BY <1>4 DEF NotAhead
  <2>1. l <= buffer_index[Slot(l)]
    BY DEF NotAhead
  <2>2. l \in Nat /\ Slot(l) \in Slots
    BY SlotFacts DEF Left, Loop, TypeOK
  <2> QED BY <1>2, <1>3, <2>1, <2>2 DEF Loops
<1>15. Counts'
  <2> SUFFICES ASSUME NEW b \in Slots
               PROVE  num_done[b] = IF Cleared(b)' THEN 0
                                    ELSE Cardinality({u \in Threads : CountedOut(u, b)'})
    BY <1>1 DEF Counts
  <2>1. CASE b = b0
    <3>1. {u \in Threads : CountedOut(u, b0)'} = {}
      BY <1>9
    <3>2. num_done[b0] = 0
      BY <1>8 DEF Counts
    <3> QED BY <1>8, <2>1, <3>1, <3>2, FS_EmptySet
  <2>2. CASE b # b0
    <3>1. {u \in Threads : CountedOut(u, b)'} = {u \in Threads : CountedOut(u, b)}
      BY <1>10, <2>2
    <3> QED BY <1>8, <2>2, <3>1 DEF Counts
  <2> QED BY <2>1, <2>2
<1>16. Clearing'
  <2> SUFFICES ASSUME NEW u \in Threads, pc'[u] \in Clr, NEW v \in Threads
               PROVE  /\ CountedOut(v, Buf(u))'
                      /\ v # u /\ pc'[v] \in Clr => Buf(v)' # Buf(u)'
    BY DEF Clearing, Clr
  <2>1. Buf(u)' = Buf(u) /\ Buf(v)' = Buf(v) /\ pc[u] \in Clr /\ u # t
    BY <1>5
  <2>2. PICK c \in Slots : c = Buf(u)
    BY <2>1, InLoop DEF Clr
  <2>3. c # b0
    BY <1>7, <2>1, <2>2 DEF Clr, Using
  <2>4. CountedOut(v, c) /\ (v # u /\ pc[v] \in Clr => Buf(v) # Buf(u))
    BY <2>1, <2>2 DEF Clearing, Clr
  <2>5. CountedOut(v, c)'
    BY <1>10, <2>3, <2>4
  <2>6. CountedOut(v, Buf(u))'
    BY <2>1, <2>2, <2>5 DEF CountedOut
  <2> QED BY <1>5, <2>1, <2>4, <2>6
<1>17. SomeoneClears'
  <2> SUFFICES ASSUME NEW b \in Slots, \A u \in Threads : CountedOut(u, b)'
               PROVE  \E u \in Threads : pc'[u] \in Clr /\ Buf(u)' = b
    BY DEF SomeoneClears, Clr
  <2>1. b # b0
    BY <1>9
  <2>2. PICK u \in Threads : pc[u] \in Clr /\ Buf(u) = b
    BY <1>10, <2>1 DEF SomeoneClears, Clr
  <2> QED BY <1>0, <1>5, <2>1, <2>2
<1>18. Exhausted'
  <2> SUFFICES ASSUME NEW b \in Slots, NEW u \in Threads,
                      buffer_index'[b] \in Loops, ~Cleared(b)',
                      CountedOut(u, b)' \/ (pc[u] = "status0" /\ Buf(u) = b)
               PROVE  iteration[b] >= Trip[buffer_index'[b]]
    BY <1>1, <1>5 DEF Exhausted
  <2>1. b # b0
    BY <1>2, <1>7, <1>9 DEF Using
  <2> QED BY <1>3, <1>8, <1>10, <2>1 DEF Exhausted
<1>19. Fresh'
  BY <1>1, <1>3, <1>8 DEF Fresh
<1>20. Handed'
  <2> SUFFICES ASSUME NEW l \in Loops, NEW i \in Iterations(l)
               PROVE  given[l][i] = IF \/ l < buffer_index'[Slot(l)]
                                       \/ /\ l = buffer_index'[Slot(l)]
                                          /\ Cleared(Slot(l))' \/ i < iteration[Slot(l)]
                                    THEN 1 ELSE 0
    <3>1. \A l \in Loops : Slot(l) \in Slots
      BY SlotFacts DEF Loops
    <3> QED BY <1>1, <3>1 DEF Handed
  <2>1. Slot(l) \in Slots /\ l \in Nat /\ i \in Nat
    BY SlotFacts DEF Loops, Iterations
  <2>2. given[l][i] = IF \/ l < buffer_index[Slot(l)]
                         \/ /\ l = buffer_index[Slot(l)]
                            /\ Cleared(Slot(l)) \/ i < iteration[Slot(l)]
                      THEN 1 ELSE 0
    BY DEF Handed
  <2>3. CASE Slot(l) # b0
    BY <1>3, <1>8, <2>1, <2>2, <2>3
  <2>4. CASE Slot(l) = b0
    <3>1. iteration[b0] = 0
      BY <1>8 DEF Fresh
    <3>2. l0 < l => l0 + NumBuffers <= l
      BY <1>2, <2>1, <2>4, SlotFacts DEF Loops
    <3>3. given[l][i] = IF l <= l0 THEN 1 ELSE 0
      BY <1>2, <1>8, <2>1, <2>2, <2>4, <3>1 DEF Loops
    <3>4. ~Cleared(Slot(l))'
      BY <1>8, <2>4 DEF Cleared
    <3> QED BY <1>3, <2>1, <2>4, <3>1, <3>2, <3>3, <3>4 DEF Loops
  <2> QED BY <2>3, <2>4
<1> QED BY <1>11, <1>12, <1>13, <1>14, <1>15, <1>16, <1>17, <1>18, <1>19, <1>20
---------------------------------------------------------------------------
LEMMA SlotBelow == \A l \in Nat : Slot(l) \in Slots /\ Slot(l) \in Nat /\ Slot(l) <= l
<1> SUFFICES ASSUME NEW l \in Nat
             PROVE  Slot(l) \in Slots /\ Slot(l) \in Nat /\ Slot(l) <= l
  OBVIOUS
<1>1. Slot(l) \in Slots /\ Slot(l) \in Nat
  BY SlotFacts DEF Slots
<1>2. Slot(Slot(l)) = Slot(l)
  BY <1>1, SlotFacts
<1>3. l < Slot(l) => l + NumBuffers <= Slot(l)
  BY <1>1, <1>2, SlotFacts
<1> QED BY <1>1, <1>3, RingAssumption DEF Slots

LEMMA InvInit == Init => IInv
<1> SUFFICES ASSUME Init PROVE IInv
  OBVIOUS
<1> USE RingAssumption, LoopAssumption DEF Init
<1>1. TypeOK
  BY TypeInit
<1>2. \A t \in Threads : \A b \in Slots : ~CountedOut(t, b)
  BY DEF CountedOut, Slots
<1>3. \A b \in Slots : ~Cleared(b)
  BY DEF Cleared
<1>5. OneLoopPerSlot /\ Clearing /\ Fresh
  BY DEF OneLoopPerSlot, Using, Clearing, Fresh
<1>6. Numbered
  BY SlotFacts DEF Numbered
<1>7. NotPassed
  <2> SUFFICES ASSUME NEW b \in Slots, NEW l \in 0 .. b - 1, Slot(l) = b PROVE FALSE
    BY DEF NotPassed
  <2> QED BY SlotBelow DEF Slots
<1>8. NotAhead
  BY DEF NotAhead, Left
<1>9. Counts
  <2>1. \A b \in Slots : {t \in Threads : CountedOut(t, b)} = {}
    BY <1>2
  <2> QED BY <1>3, <2>1, FS_EmptySet DEF Counts
<1>10. SomeoneClears
  <2>1. Threads # {}
    BY ThreadsAssumption, FS_EmptySet DEF NProc
  <2> QED BY <1>2, <2>1 DEF SomeoneClears
<1>11. Exhausted
  BY <1>2 DEF Exhausted
<1>12. Handed
  <2> SUFFICES ASSUME NEW l \in Loops, NEW i \in Iterations(l)
               PROVE  ~(\/ l < Slot(l)
                        \/ l = Slot(l) /\ (Cleared(Slot(l)) \/ i < 0))
    <3>1. \A l \in Loops : Slot(l) \in Slots
      BY SlotBelow DEF Loops
    <3>2. \A l \in Loops : buffer_index[Slot(l)] = Slot(l) /\ iteration[Slot(l)] = 0
      BY <3>1
    <3>3. \A l \in Loops : \A i \in Iterations(l) : given[l][i] = 0
      BY DEF Untouched
    <3> QED BY <3>2, <3>3 DEF Handed
  <2>1. l \in Nat /\ i \in Nat /\ Slot(l) \in Slots /\ Slot(l) \in Nat /\ Slot(l) <= l
    BY SlotBelow DEF Loops, Iterations
  <2> QED BY <1>3, <2>1
<1> QED BY <1>1, <1>5, <1>6, <1>7, <1>8, <1>9, <1>10, <1>11, <1>12 DEF IInv

\* Between two regions every slot is past the region's loops, so its counters
\* stand at zero and giving it its first number again is enough.
LEMMA NewRegionPreserves == IInv /\ TypeOK' /\ NewRegion => IInv'
<1> SUFFICES ASSUME IInv, TypeOK', NewRegion PROVE IInv'
  OBVIOUS
<1> USE RingAssumption, LoopAssumption DEF IInv
<1>1. /\ UNCHANGED <<pc, num_done, iteration>>
      /\ \A b \in Slots : buffer_index'[b] = b
      /\ \A t \in Threads : /\ pc[t] = "idle" /\ pc'[t] = "idle"
                             /\ th_disp_index[t] = NumLoops /\ th_disp_index'[t] = 0
      /\ given' = Untouched
  BY DEF NewRegion
<1>2. \A b \in Slots : buffer_index[b] \in Nat /\ buffer_index[b] \notin Loops
  <2> SUFFICES ASSUME NEW b \in Slots, buffer_index[b] \in Loops PROVE FALSE
    BY DEF TypeOK
  <2>1. \A t \in Threads : CountedOut(t, b)
    BY <1>1 DEF CountedOut, Loops
  <2> QED BY <1>1, <2>1 DEF SomeoneClears
<1>3. \A b \in Slots : ~Cleared(b) /\ ~Cleared(b)'
  BY <1>1 DEF Cleared
<1>4. \A t \in Threads : \A b \in Slots : ~CountedOut(t, b) /\ ~CountedOut(t, b)'
  BY <1>1, <1>2 DEF CountedOut, Loops, Slots
<1>5. \A b \in Slots : iteration'[b] = 0 /\ num_done'[b] = 0
  <2>1. \A b \in Slots : {t \in Threads : CountedOut(t, b)} = {}
    BY <1>4
  <2> QED BY <1>1, <1>2, <1>3, <2>1, FS_EmptySet DEF Fresh, Counts
<1>7. OneLoopPerSlot' /\ Clearing' /\ Fresh'
  BY <1>1, <1>5 DEF OneLoopPerSlot, Using, Clearing, Fresh
<1>8. Numbered'
  BY <1>1, SlotFacts DEF Numbered
<1>9. NotPassed'
  <2> SUFFICES ASSUME NEW b \in Slots, NEW l \in 0 .. b - 1, Slot(l) = b PROVE FALSE
    BY <1>1 DEF NotPassed
  <2> QED BY SlotBelow DEF Slots
<1>10. NotAhead'
  BY <1>1 DEF NotAhead, Left
<1>11. Counts'
  <2>1. \A b \in Slots : {t \in Threads : CountedOut(t, b)'} = {}
    BY <1>4
  <2> QED BY <1>3, <1>5, <2>1, FS_EmptySet DEF Counts
<1>12. SomeoneClears'
  <2>1. Threads # {}
    BY ThreadsAssumption, FS_EmptySet DEF NProc
  <2> QED BY <1>4, <2>1 DEF SomeoneClears
<1>13. Exhausted'
  BY <1>1, <1>4 DEF Exhausted
<1>14. Handed'
  <2> SUFFICES ASSUME NEW l \in Loops, NEW i \in Iterations(l)
               PROVE  ~(\/ l < Slot(l)
                        \/ l = Slot(l) /\ (Cleared(Slot(l))' \/ i < 0))
    <3>1. \A l \in Loops : Slot(l) \in Slots
      BY SlotBelow DEF Loops
    <3>2. \A l \in Loops : buffer_index'[Slot(l)] = Slot(l) /\ iteration'[Slot(l)] = 0
      BY <1>1, <1>5, <3>1
    <3>3. \A l \in Loops : \A i \in Iterations(l) : given'[l][i] = 0
      BY <1>1 DEF Untouched
    <3> QED BY <3>2, <3>3 DEF Handed
  <2>1. l \in Nat /\ i \in Nat /\ Slot(l) \in Nat /\ Slot(l) <= l
    BY SlotBelow DEF Loops, Iterations
  <2>2. ~Cleared(Slot(l))'
    BY <1>1 DEF Cleared
  <2> QED BY <2>1, <2>2
<1> QED BY <1>7, <1>8, <1>9, <1>10, <1>11, <1>12, <1>13, <1>14

\* Which move each action is.
LEMMA Moves ==
    ASSUME TypeOK, NEW t \in Threads
    PROVE  /\ Enter(t) \/ FacTest(t) \/ FacSetup(t) \/ BufferFree(t) \/ ClearFlag(t)
                => QuietMove(t)
           /\ NextZeroTrip(t) \/ NextDynamic(t) \/ NextFac(t) => NextMove(t)
<1> USE RingAssumption, LoopAssumption, ChunkAssumption
<1>1. ASSUME Enter(t) PROVE QuietMove(t)
  BY <1>1 DEF Enter, QuietMove, StaysPut, TypeOK, slotVars
<1>2. ASSUME FacTest(t) PROVE QuietMove(t)
  <2>1. CASE initialized[Buf(t)]
    BY <1>2, <2>1 DEF FacTest, QuietMove, StaysPut, TypeOK
  <2>2. CASE ~initialized[Buf(t)]
    BY <1>2, <2>2 DEF FacTest, QuietMove, StaysPut, TypeOK
  <2> QED BY <2>1, <2>2
<1>3. ASSUME FacSetup(t) PROVE QuietMove(t)
  BY <1>3 DEF FacSetup, QuietMove, StaysPut, TypeOK
<1>4. ASSUME BufferFree(t) PROVE QuietMove(t)
  BY <1>4 DEF BufferFree, QuietMove, StaysPut, TypeOK, slotVars
<1>5. ASSUME ClearFlag(t) PROVE QuietMove(t)
  BY <1>5 DEF ClearFlag, QuietMove, StaysPut, TypeOK
<1>6. ASSUME NextZeroTrip(t) PROVE NextMove(t)
  <2>1. Buf(t) \in Slots /\ Loop(t) \in Loops
    BY <1>6, InLoop DEF NextZeroTrip
  <2> QED BY <1>6, <2>1 DEF NextZeroTrip, NextMove, StaysPut, TypeOK, slotVars
<1>7. ASSUME NextDynamic(t) PROVE NextMove(t)
  <2>1. Buf(t) \in Slots /\ Loop(t) \in Loops
    BY <1>7, InLoop DEF NextDynamic
  <2>2. Trip[Loop(t)] \in Nat /\ iteration[Buf(t)] \in Nat
    BY <2>1 DEF TypeOK
  <2>3. /\ pc[t] = "next"
        /\ UNCHANGED <<buffer_index, num_done, th_disp_index>>
        /\ iteration' = [iteration EXCEPT ![Buf(t)] = iteration[Buf(t)] + 1]
        /\ iteration'[Buf(t)] = iteration[Buf(t)] + 1
        /\ \A u \in Threads \ {t} : StaysPut(u)
    BY <1>7, <2>1 DEF NextDynamic, StaysPut, TypeOK
  <2>6. iteration' = [iteration EXCEPT ![Buf(t)] = iteration'[Buf(t)]]
    BY <2>3
  <2>4. CASE iteration[Buf(t)] < Trip[Loop(t)]
    <3>1. pc'[t] = "next" /\ Give(Loop(t), iteration[Buf(t)], iteration'[Buf(t)] - 1)
      <4>1. pc' = pc /\ Give(Loop(t), iteration[Buf(t)], iteration[Buf(t)])
        BY <1>7, <2>4 DEF NextDynamic
      <4>2. iteration'[Buf(t)] - 1 = iteration[Buf(t)]
        BY <2>2, <2>3
      <4> QED BY <2>3, <4>1, <4>2
    <3>2. iteration[Buf(t)] < iteration'[Buf(t)]
      BY <2>2, <2>3
    <3> QED BY <2>2, <2>3, <2>4, <2>6, <3>1, <3>2 DEF NextMove
  <2>5. CASE ~(iteration[Buf(t)] < Trip[Loop(t)])
    <3>1. pc'[t] = "status0" /\ given' = given
      BY <1>7, <2>1, <2>5 DEF NextDynamic, TypeOK
    <3>2. iteration'[Buf(t)] >= iteration[Buf(t)] /\ iteration[Buf(t)] >= Trip[Loop(t)]
      BY <2>2, <2>3, <2>5
    <3> QED BY <2>3, <2>6, <3>1, <3>2 DEF NextMove
  <2> QED BY <2>4, <2>5
<1>8. ASSUME NextFac(t) PROVE NextMove(t)
  <2> DEFINE remaining == Trip[Loop(t)] - iteration[Buf(t)]
             cs == FacChunk(Buf(t), remaining)
  <2>1. Buf(t) \in Slots /\ Loop(t) \in Loops
    BY <1>8, InLoop DEF NextFac
  <2>2. Trip[Loop(t)] \in Nat /\ iteration[Buf(t)] \in Nat
    BY <2>1 DEF TypeOK
  <2>3. /\ pc[t] = "next"
        /\ UNCHANGED <<buffer_index, num_done, th_disp_index>>
        /\ \A u \in Threads \ {t} : StaysPut(u)
    BY <1>8, <2>1 DEF NextFac, StaysPut, TypeOK
  <2>4. CASE iteration[Buf(t)] < Trip[Loop(t)]
    <3>1. remaining \in 1 .. Trip[Loop(t)]
      BY <2>2, <2>4
    <3>5. remaining > 0
      BY <3>1
    <3>2. cs \in Nat \ {0}
      BY <2>1, <3>1 DEF FacChunk, TypeOK
    <3>3. /\ pc'[t] = "next"
          /\ iteration' = [iteration EXCEPT ![Buf(t)] = iteration[Buf(t)] + cs]
          /\ Give(Loop(t), iteration[Buf(t)], iteration[Buf(t)] + cs - 1)
      BY <1>8, <3>5 DEF NextFac, TypeOK
    <3>4. iteration'[Buf(t)] = iteration[Buf(t)] + cs
      <4> HIDE DEF cs, remaining
      <4> QED BY <2>1, <3>3 DEF TypeOK
    <3> HIDE DEF cs, remaining
    <3>6. iteration' = [iteration EXCEPT ![Buf(t)] = iteration'[Buf(t)]]
      BY <3>3, <3>4
    <3>7. Give(Loop(t), iteration[Buf(t)], iteration'[Buf(t)] - 1)
      <4>1. iteration'[Buf(t)] - 1 = iteration[Buf(t)] + cs - 1
        BY <2>2, <3>2, <3>4
      <4>2. Give(Loop(t), iteration[Buf(t)], iteration[Buf(t)] + cs - 1)
        BY <3>3
      <4> QED BY <4>1, <4>2
    <3>9. pc'[t] = "next"
      BY <3>3
    <3>8. iteration[Buf(t)] < iteration'[Buf(t)] /\ iteration'[Buf(t)] >= iteration[Buf(t)]
      BY <2>2, <3>2, <3>4
    <3> QED BY <2>2, <2>3, <2>4, <3>6, <3>7, <3>8, <3>9 DEF NextMove
  <2>5. CASE ~(iteration[Buf(t)] < Trip[Loop(t)])
    <3>3. ~(remaining > 0)
      BY <2>2, <2>5
    <3>1. pc'[t] = "status0" /\ given' = given /\ iteration' = iteration
      BY <1>8, <2>1, <3>3 DEF NextFac, TypeOK
    <3>2. iteration' = [iteration EXCEPT ![Buf(t)] = iteration'[Buf(t)]]
      BY <2>1, <3>1 DEF TypeOK
    <3> QED BY <2>2, <2>3, <2>5, <3>1, <3>2 DEF NextMove
  <2> QED BY <2>4, <2>5
<1> QED BY <1>1, <1>2, <1>3, <1>4, <1>5, <1>6, <1>7, <1>8

LEMMA InvNext == IInv /\ [Next]_vars => IInv'
<1> SUFFICES ASSUME IInv, [Next]_vars PROVE IInv'
  OBVIOUS
<1>1. TypeOK /\ TypeOK'
  BY TypeNext DEF IInv
<1>2. ASSUME NEW t \in Threads, ThreadStep(t) PROVE IInv'
  <2>1. CASE Enter(t) \/ FacTest(t) \/ FacSetup(t) \/ BufferFree(t) \/ ClearFlag(t)
    BY <1>1, <2>1, Moves, QuietPreserves
  <2>2. CASE NextZeroTrip(t) \/ NextDynamic(t) \/ NextFac(t)
    BY <1>1, <2>2, Moves, NextPreserves
  <2>3. CASE CountOut(t)
    BY <1>1, <2>3, CountOutPreserves
  <2>4. CASE ClearCounters(t)
    BY <1>1, <2>4, ClearPreserves
  <2>5. CASE Release(t)
    BY <1>1, <2>5, ReleasePreserves
  <2> QED BY <1>2, <2>1, <2>2, <2>3, <2>4, <2>5 DEF ThreadStep
<1>3. CASE NewRegion
  BY <1>1, <1>3, NewRegionPreserves
<1>4. CASE UNCHANGED vars
  BY <1>4 DEF vars, slotVars, IInv, TypeOK, OneLoopPerSlot, Numbered, NotPassed, NotAhead,
             Counts, Clearing, SomeoneClears, Exhausted, Fresh, Handed, CountedOut, Cleared,
             Left, Loop, Buf
<1> QED BY <1>2, <1>3, <1>4 DEF Next, Finished
---------------------------------------------------------------------------
LEMMA RingInductive == Spec => []IInv
  BY InvInit, InvNext, PTL DEF Spec

LEMMA AtMostOnceFromInv == IInv => AtMostOnce
  BY DEF IInv, Handed, AtMostOnce

LEMMA CompleteFromInv == IInv => LeftComplete
<1> SUFFICES ASSUME IInv, NEW t \in Threads, NEW l \in 0 .. Left(t) - 1,
                    NEW i \in Iterations(l)
             PROVE  given[l][i] = 1
  BY DEF LeftComplete
<1> USE RingAssumption, LoopAssumption DEF IInv
<1>1. l \in Loops /\ l \in Nat /\ th_disp_index[t] \in Nat
  BY DEF TypeOK, Left, Loop, Loops
<1>2. Slot(l) \in Slots /\ buffer_index[Slot(l)] \in Nat
  BY <1>1, SlotFacts DEF TypeOK
<1>3. l <= buffer_index[Slot(l)]
  BY DEF NotAhead
<1>4. l < Left(t) /\ (th_disp_index[t] > l)
  BY <1>1 DEF Left, Loop
<1>5. CASE l < buffer_index[Slot(l)]
  BY <1>1, <1>5 DEF Handed
<1>6. CASE l = buffer_index[Slot(l)]
  <2>1. CASE Cleared(Slot(l))
    BY <1>1, <1>6, <2>1 DEF Handed
  <2>2. CASE ~Cleared(Slot(l))
    <3>1. CountedOut(t, Slot(l)) \/ (pc[t] = "status0" /\ Buf(t) = Slot(l))
      <4>1. CASE th_disp_index[t] > l + 1
        BY <1>6, <4>1 DEF CountedOut
      <4>2. CASE th_disp_index[t] = l + 1
        <5>1. pc[t] \in PcValues
          BY DEF TypeOK
        <5>2. pc[t] \notin {"lock", "setup", "wait", "next"}
          BY <1>1, <1>4, <4>2 DEF Left, Loop
        <5>3. Loop(t) = l
          BY <1>1, <4>2 DEF Loop
        <5>4. Buf(t) = Slot(l)
          BY <5>3 DEF Buf
        <5>5. pc[t] \in {"idle", "clear", "clearflag", "release"} \/ pc[t] = "status0"
          BY <5>1, <5>2 DEF PcValues
        <5> QED BY <1>6, <4>2, <5>4, <5>5 DEF CountedOut
      <4> QED BY <1>1, <1>4, <4>1, <4>2
    <3>2. iteration[Slot(l)] >= Trip[l]
      BY <1>1, <1>2, <1>6, <2>2, <3>1 DEF Exhausted
    <3>3. i < iteration[Slot(l)]
      BY <1>1, <1>2, <3>2 DEF Iterations, TypeOK
    <3> QED BY <1>1, <1>6, <3>3 DEF Handed
  <2> QED BY <2>1, <2>2
<1> QED BY <1>1, <1>2, <1>3, <1>5, <1>6

LEMMA ClearAloneFromInv == IInv => ClearAlone
<1> SUFFICES ASSUME IInv, NEW t \in Threads, NEW u \in Threads, t # u,
                    pc[t] \in Clr, pc[u] \in Using, Buf(u) = Buf(t)
             PROVE  FALSE
  BY DEF ClearAlone, Clr
<1> USE DEF IInv
<1>1. buffer_index[Buf(t)] = Loop(t) /\ Loop(u) = Loop(t)
  BY DEF OneLoopPerSlot, Using, Clr
<1>2. CountedOut(u, Buf(t))
  BY DEF Clearing, Clr
<1>3. th_disp_index[u] \in Nat /\ th_disp_index[t] \in Nat
  BY DEF TypeOK
<1>4. pc[u] \in Clr
  BY <1>1, <1>2, <1>3 DEF CountedOut, Loop, Using, Clr
<1> QED BY <1>4 DEF Clearing, Clr

\* No iteration of any loop of any region is handed out twice, for every team,
\* ring and list of loops with or without nowait.
THEOREM RingAtMostOnce == Spec => []AtMostOnce
  BY RingInductive, AtMostOnceFromInv, PTL

\* A thread is told that a loop is exhausted only when all of it was handed out.
THEOREM RingLeftComplete == Spec => []LeftComplete
  BY RingInductive, CompleteFromInv, PTL

\* A slot serves one loop at a time.
THEOREM RingOneLoopPerSlot == Spec => []OneLoopPerSlot
<1>1. IInv => OneLoopPerSlot
  BY DEF IInv
<1> QED BY <1>1, RingInductive, PTL

\* The thread that clears a slot without the mutex is alone with it.
THEOREM RingClearAlone == Spec => []ClearAlone
  BY RingInductive, ClearAloneFromInv, PTL

\* The iteration counter goes back only when all threads have left the loop.
THEOREM RingCounterForward == Spec => CounterForward
<1> DEFINE Forward == \A b \in Slots : iteration'[b] < iteration[b] =>
                        \A t \in Threads : Left(t) > buffer_index[b]
<1>1. IInv /\ [Next]_vars => [Forward]_vars
  <2> SUFFICES ASSUME IInv, Next, NEW b \in Slots, iteration'[b] < iteration[b],
                      NEW u \in Threads
               PROVE  Left(u) > buffer_index[b]
    OBVIOUS
  <2> USE DEF IInv
  <2>1. iteration[b] \in Nat /\ th_disp_index[u] \in Nat /\ buffer_index[b] \in Nat
    BY DEF TypeOK
  <2>2. ~(iteration'[b] = iteration[b])
    BY <2>1
  <2>3. ASSUME NEW t \in Threads, ThreadStep(t) PROVE ClearCounters(t)
    <3>1. ASSUME QuietMove(t) PROVE FALSE
      BY <2>2, <3>1 DEF QuietMove
    <3>2. ASSUME NextMove(t) PROVE FALSE
      <4>1. Buf(t) \in Slots
        BY <3>2, InLoop DEF NextMove
      <4>2. iteration'[b] = iteration[b] \/ b = Buf(t)
        BY <3>2, <4>1 DEF NextMove, TypeOK
      <4>3. iteration'[Buf(t)] >= iteration[Buf(t)]
        BY <3>2 DEF NextMove
      <4>4. TypeOK'
        BY TypeNext
      <4>5. iteration'[b] \in Nat
        BY <4>4 DEF TypeOK
      <4> QED BY <2>1, <2>2, <4>2, <4>3, <4>5
    <3>3. ~CountOut(t) /\ ~Release(t)
      BY <2>2 DEF CountOut, Release
    <3> QED BY <2>3, <3>1, <3>2, <3>3, Moves DEF ThreadStep
  <2>4. ASSUME NEW t \in Threads, ClearCounters(t) PROVE Left(u) > buffer_index[b]
    <3>1. Buf(t) \in Slots /\ pc[t] = "clear"
      BY <2>4, InLoop DEF ClearCounters
    <3>2. b = Buf(t)
      BY <2>2, <2>4, <3>1 DEF ClearCounters, TypeOK
    <3>3. CountedOut(u, b)
      BY <3>1, <3>2 DEF Clearing
    <3> QED BY <2>1, <3>3 DEF CountedOut, Left, Loop
  <2>5. ~NewRegion /\ ~Finished
    BY <2>2 DEF NewRegion, Finished, vars, slotVars
  <2> QED BY <2>3, <2>4, <2>5 DEF Next
<1>2. IInv /\ [Next]_vars => [\A b \in Slots : iteration'[b] < iteration[b] =>
                              \A t \in Threads : Left(t) > buffer_index[b]]_vars
  BY <1>1
<1> QED BY <1>2, RingInductive, PTL DEF Spec, CounterForward
---------------------------------------------------------------------------
(***************************************************************************)
(* The ring implements the promise: taking a chunk is HandOut, finding the *)
(* loop exhausted is Leave, and every other step of a thread is a stutter. *)
(***************************************************************************)
LEMMA PromiseInit == Init => Promise!Init
<1> SUFFICES ASSUME Init PROVE Promise!Init
  OBVIOUS
<1>1. [t \in Threads |-> Left(t)] = [t \in Threads |-> 0]
  BY DEF Init, Left
<1>2. Trip \in [Promise!Loops -> Nat]
  BY LoopAssumption DEF Promise!Loops, Loops
<1>3. given = Promise!Untouched(Trip)
  BY DEF Init, Untouched, Promise!Untouched, Promise!Loops, Loops, Iterations
<1> QED BY <1>1, <1>2, <1>3 DEF Promise!Init

LEMMA PromiseNext == IInv /\ IInv' /\ [Next]_vars => [Promise!Next]_(Promise!vars)
<1> SUFFICES ASSUME IInv, IInv', [Next]_vars
             PROVE  Promise!Next \/ UNCHANGED Promise!vars
  BY DEF Promise!vars
<1> USE RingAssumption, LoopAssumption
<1>t. TypeOK
  BY DEF IInv
<1>1. ASSUME NEW t \in Threads, QuietMove(t) \/ CountOut(t) \/ ClearCounters(t) \/ Release(t)
      PROVE  UNCHANGED Promise!vars
  <2>1. given' = given
    BY <1>1 DEF QuietMove, CountOut, ClearCounters, Release
  <2>2. \A u \in Threads : Left(u)' = Left(u)
    <3>1. CASE QuietMove(t)
      BY <1>t, <3>1 DEF QuietMove, StaysPut, Left, Loop, TypeOK
    <3>2. CASE CountOut(t) \/ ClearCounters(t) \/ Release(t)
      BY <1>t, <3>2 DEF CountOut, ClearCounters, Release, Left, Loop, TypeOK
    <3> QED BY <1>1, <3>1, <3>2
  <2> QED BY <2>1, <2>2 DEF Promise!vars
<1>2. ASSUME NEW t \in Threads, NextMove(t) PROVE Promise!Next
  <2>0. PICK l \in Loops, b \in Slots : l = Loop(t) /\ b = Buf(t)
    BY <1>2, <1>t, InLoop DEF NextMove
  <2>1. /\ pc[t] = "next" /\ Left(t) = l /\ b = Slot(l) /\ buffer_index[b] = l
        /\ iteration[b] \in Nat /\ iteration'[b] \in Nat /\ Trip[l] \in Nat
    BY <1>2, <2>0 DEF NextMove, IInv, TypeOK, OneLoopPerSlot, Using, Left, Buf
  <2>2. l < NumLoops /\ l \in Nat
    BY DEF Loops
  <2>3. CASE pc'[t] = "status0"
    <3>1. /\ given' = given
          /\ \A u \in Threads : Left(u)' = IF u = t THEN l + 1 ELSE Left(u)
      BY <1>2, <1>t, <2>0, <2>1, <2>3, SMTT(30) DEF NextMove, StaysPut, Left, Loop, TypeOK, Loops
    <3>2. LeftComplete'
      <4>1. (IInv => LeftComplete)'
        BY CompleteFromInv, PTL
      <4> QED BY <4>1
    <3>3. \A i \in Iterations(l) : given[l][i] = 1
      BY <2>2, <3>1, <3>2 DEF LeftComplete
    <3>4. [u \in Threads |-> Left(u)]' = [[u \in Threads |-> Left(u)] EXCEPT ![t] = @ + 1]
      BY <2>1, <3>1
    <3>5. Promise!Leave(t)
      BY <2>1, <2>2, <3>1, <3>3, <3>4 DEF Promise!Leave, Promise!Iterations, Iterations
    <3> QED BY <3>5 DEF Promise!Next
  <2>4. CASE pc'[t] = "next"
    <3>1. /\ \A u \in Threads : Left(u)' = Left(u)
          /\ iteration[b] < Trip[l] /\ iteration[b] < iteration'[b]
          /\ Give(l, iteration[b], iteration'[b] - 1)
      BY <1>2, <1>t, <2>0, <2>4 DEF NextMove, StaysPut, Left, Loop, TypeOK
    <3>2. [u \in Threads |-> Left(u)]' = [u \in Threads |-> Left(u)]
      BY <3>1
    <3> DEFINE lo == iteration[b]
               hi == IF iteration'[b] <= Trip[l] THEN iteration'[b] - 1 ELSE Trip[l] - 1
    <3>3. lo \in Iterations(l) /\ hi \in Iterations(l) /\ lo <= hi
      BY <2>1, <3>1 DEF Iterations
    <3>4. ~Cleared(b)
      BY <1>t, <2>0, <2>1, SMTT(30) DEF IInv, Cleared, Clearing, CountedOut, Loop, TypeOK
    <3>5. \A i \in Iterations(l) : given[l][i] = IF i < iteration[b] THEN 1 ELSE 0
      BY <2>1, <2>2, <3>4 DEF IInv, Handed
    <3>6. \A i \in lo .. hi : i \in Iterations(l) /\ given[l][i] = 0
      BY <2>1, <3>3, <3>5 DEF Iterations
    <3>7. [i \in Iterations(l) |-> given[l][i] +
             (IF i \in iteration[b] .. iteration'[b] - 1 THEN 1 ELSE 0)]
          = [i \in Iterations(l) |-> IF i \in lo .. hi THEN 1 ELSE given[l][i]]
      <4> SUFFICES ASSUME NEW i \in Iterations(l)
                   PROVE  given[l][i] + (IF i \in iteration[b] .. iteration'[b] - 1 THEN 1 ELSE 0)
                          = IF i \in lo .. hi THEN 1 ELSE given[l][i]
        OBVIOUS
      <4>1. i \in Nat /\ i < Trip[l]
        BY <2>1 DEF Iterations
      <4>2. i \in iteration[b] .. iteration'[b] - 1 <=> i \in lo .. hi
        BY <2>1, <3>1, <4>1
      <4>3. given[l][i] \in Nat
        BY <3>5
      <4> QED BY <3>6, <4>2, <4>3
    <3>8. given' = [given EXCEPT ![l] =
                      [i \in Iterations(l) |-> IF i \in lo .. hi THEN 1 ELSE given[l][i]]]
      BY <3>1, <3>7 DEF Give
    <3> HIDE DEF lo, hi
    <3>9. Promise!HandOut(t)
      <4>1. [u \in Threads |-> Left(u)][t] = l
        BY <2>1
      <4>2. Promise!Iterations(l) = Iterations(l)
        BY DEF Promise!Iterations, Iterations
      <4>3. /\ lo <= hi
            /\ \A i \in lo .. hi : given[l][i] = 0
            /\ given' = [given EXCEPT ![l] =
                  [i \in Iterations(l) |-> IF i \in lo .. hi THEN 1 ELSE given[l][i]]]
        BY <3>3, <3>6, <3>8
      <4>4. \E x, y \in Iterations(l) :
              /\ x <= y
              /\ \A i \in x .. y : given[l][i] = 0
              /\ given' = [given EXCEPT ![l] =
                    [i \in Iterations(l) |-> IF i \in x .. y THEN 1 ELSE given[l][i]]]
        <5>1. lo \in Iterations(l) /\ hi \in Iterations(l)
          BY <3>3
        <5> USE <4>3, <5>1
        <5> WITNESS lo \in Iterations(l), hi \in Iterations(l)
        <5> QED OBVIOUS
      <4> DEFINE lf == [u \in Threads |-> Left(u)]
      <4>5. lf[t] < NumLoops /\ lf' = lf
        BY <2>2, <3>2, <4>1
      <4>6. \E x, y \in Promise!Iterations(lf[t]) :
              /\ x <= y
              /\ \A i \in x .. y : given[lf[t]][i] = 0
              /\ given' = [given EXCEPT ![lf[t]] =
                    [i \in Promise!Iterations(lf[t]) |->
                       IF i \in x .. y THEN 1 ELSE given[lf[t]][i]]]
        <5>1. lf[t] = l
          BY <4>1
        <5> HIDE DEF lf
        <5>2. Promise!Iterations(lf[t]) = Iterations(l)
          BY <4>2, <5>1
        <5>3. PICK x \in Iterations(l), y \in Iterations(l) :
                /\ x <= y
                /\ \A i \in x .. y : given[l][i] = 0
                /\ given' = [given EXCEPT ![l] =
                      [i \in Iterations(l) |-> IF i \in x .. y THEN 1 ELSE given[l][i]]]
          BY <4>4
        <5>4. x \in Promise!Iterations(lf[t]) /\ y \in Promise!Iterations(lf[t])
          BY <5>2
        <5>5. \A i \in x .. y : given[lf[t]][i] = 0
          BY <5>1, <5>3
        <5>6. [i \in Iterations(l) |-> IF i \in x .. y THEN 1 ELSE given[l][i]]
              = [i \in Promise!Iterations(lf[t]) |->
                   IF i \in x .. y THEN 1 ELSE given[lf[t]][i]]
          BY <5>1, <5>2
        <5>7. given' = [given EXCEPT ![lf[t]] =
                [i \in Promise!Iterations(lf[t]) |->
                   IF i \in x .. y THEN 1 ELSE given[lf[t]][i]]]
          BY <5>1, <5>3, <5>6
        <5> USE <5>3, <5>4, <5>5, <5>7
        <5> WITNESS x \in Promise!Iterations(lf[t]), y \in Promise!Iterations(lf[t])
        <5> QED OBVIOUS
      <4> QED BY <4>5, <4>6 DEF Promise!HandOut
    <3> QED BY <3>9 DEF Promise!Next
  <2> QED BY <1>2, <2>3, <2>4 DEF NextMove
<1>3. CASE NewRegion
  <2>1. \A t \in Threads : Left(t) = NumLoops /\ Left(t)' = 0
    BY <1>3 DEF NewRegion, Left
  <2>2. given' = Promise!Untouched(Trip)
    BY <1>3 DEF NewRegion, Untouched, Promise!Untouched, Promise!Loops, Loops, Iterations
  <2>4. Trip \in [Promise!Loops -> Nat]
    BY DEF Promise!Loops, Loops
  <2>3. Promise!NewRegion
    BY <2>1, <2>2, <2>4 DEF Promise!NewRegion
  <2> QED BY <2>3 DEF Promise!Next
<1>4. CASE UNCHANGED vars
  BY <1>4 DEF vars, slotVars, Promise!vars, Left, Loop
<1>5. ASSUME NEW t \in Threads, ThreadStep(t)
      PROVE  Promise!Next \/ UNCHANGED Promise!vars
  BY <1>1, <1>2, <1>5, <1>t, Moves DEF ThreadStep
<1> QED BY <1>3, <1>4, <1>5 DEF Next, Finished

\* Every behaviour of the ring keeps the dispatcher's promise: each iteration is
\* handed out once, and nobody leaves a loop before all of it is handed out.
THEOREM RingImplementsPromise == Spec => ImplementsPromise
<1>1. Init => Promise!Init
  BY PromiseInit
<1>2. IInv /\ IInv' /\ [Next]_vars => [Promise!Next]_(Promise!vars)
  BY PromiseNext
<1> QED BY <1>1, <1>2, RingInductive, PTL DEF Spec, ImplementsPromise, Promise!Spec
---------------------------------------------------------------------------
(* The barrier.                                                            *)

Spinning == {"spin", "suspend", "undo", "check", "asleep", "signalled"}
Releasing == {"add", "look", "resume"}

Typed ==
    /\ team \in Cases
    /\ stage \in [Everyone -> {"out", "gather", "notify", "await", "reset", "wake"}]
    /\ sub \in [Everyone -> Spinning \cup Releasing]
    /\ todo \in [Everyone -> Seq(Nat)]
    /\ flag \in [{"arrived", "go"} \X Everyone -> [n : Nat, sleep : BOOLEAN]]
    /\ team_arrived \in Nat /\ new_state \in [Everyone -> Nat]
    /\ data \in [Everyone -> [Everyone -> Nat]]
    /\ entered \in [Everyone -> Nat] /\ passed \in [Everyone -> Nat]

\* The children a thread has still to handle, each once, are children of its.
ToDo(t) == {todo[t][i] : i \in 1 .. Len(todo[t])}
Up(t) == Parent(team.gather, t)
From(t) == Parent(team.release, t)

Errand(t) ==
    /\ \A i, j \in 1 .. Len(todo[t]) : todo[t][i] = todo[t][j] => i = j
    /\ ToDo(t) \subseteq Members \ {0}
    /\ stage[t] = "gather" => \A k \in ToDo(t) : Up(k) = t
    /\ stage[t] = "wake" => \A k \in ToDo(t) : From(k) = t
    /\ stage[t] \in {"notify", "wake"} => sub[t] \in Releasing
    /\ stage[t] \notin {"notify", "wake"} => sub[t] \in Spinning
    /\ stage[t] = "wake" /\ todo[t] = <<>> => sub[t] = "add"

\* team_arrived is the number of barriers all have come to.  A thread has come to
\* that many, and may have come to the next one.
Ahead(t) == entered[t] = team_arrived + 1
Round(t) ==
    /\ entered[t] = team_arrived \/ Ahead(t)
    /\ stage[t] \in {"out", "reset", "wake"} => entered[t] = team_arrived
    /\ stage[t] = "gather" => Ahead(t) /\ new_state[t] = entered[t]
    /\ stage[t] = "notify" /\ sub[t] = "add" => Ahead(t)
    /\ t = 0 => stage[t] \in {"out", "gather", "wake"}
    /\ entered[t] = IF stage[t] = "out" THEN passed[t] ELSE passed[t] + 1

\* The thread has told its parent that its subtree has come, and waits or will.
Told(t) == stage[t] = "await" \/ (stage[t] = "notify" /\ sub[t] # "add")

\* b_arrived counts how often.
Arrival(t) ==
    entered[t] = IF stage[t] = "gather" \/ (stage[t] = "notify" /\ sub[t] = "add")
                 THEN flag[<<"arrived", t>>].n + 1 ELSE flag[<<"arrived", t>>].n

\* The thread has been gathered for the next barrier.
Taken(k) == Ahead(Up(k)) /\ (stage[Up(k)] = "gather" => k \notin ToDo(Up(k)))

\* The parent of the thread has released it from the last barrier.
Freed(k) ==
    LET p == From(k) IN
    \/ Ahead(p) \/ stage[p] = "out"
    \/ stage[p] = "wake" /\ (k \in ToDo(p) => k = Head(todo[p]) /\ sub[p] # "add")

\* b_go of a thread, from its parent's release to its own reset.
GoFlag(k) ==
    \/ /\ flag[<<"go", k>>].n = 0 /\ ~Freed(k)
       /\ ~Ahead(k) /\ Told(k)
    \/ /\ flag[<<"go", k>>].n = 1 /\ Freed(k)
       /\ ~Ahead(k) /\ (Told(k) \/ stage[k] = "reset")
    \/ /\ flag[<<"go", k>>].n = 0 /\ Freed(k)
       /\ Ahead(k) \/ stage[k] \in {"out", "wake"}

Flow == /\ \A t \in Members : Errand(t) /\ Round(t)
        /\ \A k \in Members \ {0} : /\ Arrival(k) /\ GoFlag(k)
                                    /\ Taken(k) => Ahead(k) /\ Told(k)

\* The share of each thread that has come is with exactly one that is not taken.
Live(t) == Ahead(t) /\ (t = 0 \/ ~Taken(t))
OwnShares ==
    \A t \in Members : Live(t) =>
        \A u \in Everyone : data[t][u] = 0 \/ (data[t][u] = 1 /\ u \in Members /\ Ahead(u))
NoneLost == \A u \in Members : Ahead(u) => \E t \in Members : Live(t) /\ data[t][u] = 1
NoneTwice ==
    \A t1, t2 \in Members : \A u \in Everyone :
        Live(t1) /\ Live(t2) /\ data[t1][u] = 1 /\ data[t2][u] = 1 => t1 = t2
Shares == OwnShares /\ NoneLost /\ NoneTwice

BarrierInv == Typed /\ Flow /\ Shares /\ ReductionComplete
---------------------------------------------------------------------------
(* Facts about numbers, lists and trees.                                   *)

\* A set of natural numbers that has a member has a least one.
LEMMA Least ==
    ASSUME NEW T \in SUBSET Nat, T # {}
    PROVE  \E x \in T : \A y \in T : x <= y
<1>1. PICK x \in T : \A y \in T : ~(<<y, x>> \in OpToRel(<, Nat))
  BY WFMin, NatLessThanWellFounded
<1>2. \A y \in T : ~(y < x)
  BY <1>1 DEF OpToRel
<1> QED
  BY <1>2

\* Handling the first of a list without repetitions takes it out of the set.
LEMMA FirstOut ==
    ASSUME NEW q \in Seq(Nat), q # <<>>,
           \A i, j \in 1 .. Len(q) : q[i] = q[j] => i = j
    PROVE  LET S == {q[i] : i \in 1 .. Len(q)}
               r == Tail(q)
           IN  /\ Head(q) \in S /\ r \in Seq(Nat)
               /\ {r[i] : i \in 1 .. Len(r)} = S \ {Head(q)}
               /\ \A i, j \in 1 .. Len(r) : r[i] = r[j] => i = j
<1>1. /\ Len(q) \in Nat \ {0} /\ Head(q) = q[1]
      /\ Tail(q) \in Seq(Nat) /\ Len(Tail(q)) = Len(q) - 1
      /\ \A i \in 1 .. Len(q) - 1 : Tail(q)[i] = q[i + 1]
  OBVIOUS
<1>2. \A i, j \in 1 .. Len(Tail(q)) : Tail(q)[i] = Tail(q)[j] => i = j
  BY <1>1
<1>3. ASSUME NEW x PROVE (\E i \in 1 .. Len(Tail(q)) : x = Tail(q)[i])
                         <=> (\E i \in 1 .. Len(q) : x = q[i]) /\ x # Head(q)
  <2>1. ASSUME NEW i \in 1 .. Len(Tail(q)), x = Tail(q)[i]
        PROVE  (\E j \in 1 .. Len(q) : x = q[j]) /\ x # Head(q)
    <3>1. i + 1 \in 1 .. Len(q) /\ x = q[i + 1] /\ 1 \in 1 .. Len(q) /\ i + 1 # 1
      BY <1>1, <2>1
    <3> QED
      BY <1>1, <3>1
  <2>2. ASSUME NEW i \in 1 .. Len(q), x = q[i], x # Head(q)
        PROVE  \E j \in 1 .. Len(Tail(q)) : x = Tail(q)[j]
    <3>1. i - 1 \in 1 .. Len(q) - 1 /\ (i - 1) + 1 = i
      BY <1>1, <2>2
    <3> QED
      BY <1>1, <2>2, <3>1
  <2> QED
    BY <2>1, <2>2
<1>4. {Tail(q)[i] : i \in 1 .. Len(Tail(q))} = {q[i] : i \in 1 .. Len(q)} \ {Head(q)}
  BY <1>3
<1>5. Head(q) \in {q[i] : i \in 1 .. Len(q)}
  <2>1. 1 \in 1 .. Len(q)
    BY <1>1
  <2> QED
    BY <1>1, <2>1
<1> QED
  BY <1>1, <1>2, <1>4, <1>5

LEMMA TeamFacts ==
    ASSUME Typed
    PROVE  /\ team.nproc \in Nat /\ 0 \in Members /\ Members \subseteq Everyone
           /\ Members \subseteq Nat /\ team.rounds \in Nat
           /\ \A k \in Members \ {0} : /\ Up(k) \in Members /\ Up(k) < k
                                       /\ From(k) \in Members /\ From(k) < k
           /\ \A t \in Members :
                 /\ Lists(GatherOrder(team, t), {k \in Members \ {0} : Up(k) = t})
                 /\ Lists(WakeOrder(team, t), {k \in Members \ {0} : From(k) = t})
<1>1. team \in Cases
  BY DEF Typed
<1>2. team.nproc \in 2 .. MaxProc /\ team.rounds \in Nat
  BY <1>1, CaseAssumption
<1>3. Members \ {0} = 1 .. team.nproc - 1
  BY <1>2 DEF Members
<1>4. /\ 0 \in Members /\ Members \subseteq Everyone /\ Members \subseteq Nat
  BY <1>2, CaseAssumption DEF Members, Everyone
<1>5. \A k \in Members \ {0} : Up(k) \in 0 .. k - 1 /\ From(k) \in 0 .. k - 1
  BY <1>1, TreeAssumption DEF Members, Up, From
<1>6. \A t \in Members :
         /\ Lists(GatherOrder(team, t), {k \in 1 .. team.nproc - 1 : Parent(team.gather, k) = t})
         /\ Lists(WakeOrder(team, t), {k \in 1 .. team.nproc - 1 : Parent(team.release, k) = t})
  BY <1>1, TreeAssumption DEF Members
<1>7. \A k \in Members \ {0} : Up(k) \in Members /\ From(k) \in Members /\ Up(k) < k /\ From(k) < k
  BY <1>2, <1>5 DEF Members
<1> QED
  BY <1>2, <1>3, <1>4, <1>6, <1>7 DEF Up, From

\* What a list of children names.
LEMMA Listed ==
    ASSUME NEW q, NEW S \in SUBSET Nat, Lists(q, S)
    PROVE  /\ q \in Seq(Nat) /\ {q[i] : i \in 1 .. Len(q)} = S
           /\ \A i, j \in 1 .. Len(q) : q[i] = q[j] => i = j
<1>1. q \in Seq(S) /\ Len(q) \in Nat /\ \A i \in 1 .. Len(q) : q[i] \in S
  BY DEF Lists
<1>2. q \in Seq(Nat)
  BY <1>1, SeqMonotonic
<1>3. \A k \in S : \E i \in 1 .. Len(q) : q[i] = k
  BY DEF Lists
<1>4. {q[i] : i \in 1 .. Len(q)} = S
  BY <1>1, <1>3
<1> QED
  BY <1>2, <1>4 DEF Lists
\* The next child of a thread, and what is left when it has been handled.
LEMMA NextChild ==
    ASSUME NEW t, todo[t] \in Seq(Nat), todo[t] # <<>>, Errand(t)
    PROVE  /\ Head(todo[t]) \in ToDo(t) /\ Tail(todo[t]) \in Seq(Nat)
           /\ {Tail(todo[t])[i] : i \in 1 .. Len(Tail(todo[t]))} = ToDo(t) \ {Head(todo[t])}
           /\ \A i, j \in 1 .. Len(Tail(todo[t])) : Tail(todo[t])[i] = Tail(todo[t])[j] => i = j
<1>1. \A i, j \in 1 .. Len(todo[t]) : todo[t][i] = todo[t][j] => i = j
  BY DEF Errand
<1> QED
  BY <1>1, FirstOut DEF ToDo
---------------------------------------------------------------------------
(* Types.                                                                  *)

LEMMA TypedInit == BarrierInit => Typed
<1> SUFFICES ASSUME BarrierInit PROVE Typed
  OBVIOUS
<1>1. <<>> \in Seq(Nat)
  OBVIOUS
<1>2. Off \in [n : Nat, sleep : BOOLEAN]
  BY DEF Off
<1>3. \A t \in Everyone : Alone(t) \in [Everyone -> Nat]
  BY DEF Alone
<1>4. team \in Cases /\ stage \in [Everyone -> {"out", "gather", "notify", "await", "reset", "wake"}]
      /\ sub \in [Everyone -> Spinning \cup Releasing] /\ todo \in [Everyone -> Seq(Nat)]
  BY <1>1 DEF BarrierInit, Spinning, Releasing
<1>5. flag \in [{"arrived", "go"} \X Everyone -> [n : Nat, sleep : BOOLEAN]]
  BY <1>2 DEF BarrierInit
<1>6. data \in [Everyone -> [Everyone -> Nat]]
  BY <1>3 DEF BarrierInit
<1> QED
  BY <1>4, <1>5, <1>6 DEF BarrierInit, Typed

Put(f, b) == [flag EXCEPT ![f].sleep = b]

\* The flag a waiting or releasing thread changes is a record like the others.
LEMMA FlagTyped ==
    ASSUME Typed, NEW f, NEW b \in BOOLEAN
    PROVE  /\ Put(f, b) \in [{"arrived", "go"} \X Everyone -> [n : Nat, sleep : BOOLEAN]]
           /\ \A g \in {"arrived", "go"} \X Everyone : Put(f, b)[g].n = flag[g].n
<1> DEFINE D == {"arrived", "go"} \X Everyone
           R == [n : Nat, sleep : BOOLEAN]
<1>1. flag \in [D -> R]
  BY DEF Typed
<1>2. \A r \in R : [r EXCEPT !.sleep = b] \in R /\ [r EXCEPT !.sleep = b].n = r.n
  OBVIOUS
<1> HIDE DEF D, R
<1>3. \A g \in D : Put(f, b)[g] = IF f = g THEN [flag[g] EXCEPT !.sleep = b] ELSE flag[g]
  BY <1>1 DEF Put
<1>4. \A g \in D : Put(f, b)[g] \in R /\ Put(f, b)[g].n = flag[g].n
  BY <1>1, <1>2, <1>3
<1>5. Put(f, b) \in [D -> R]
  BY <1>1, <1>4 DEF Put
<1> QED
  BY <1>4, <1>5 DEF D, R

LEMMA BumpTyped ==
    ASSUME Typed, NEW f \in {"arrived", "go"} \X Everyone
    PROVE  /\ [flag EXCEPT ![f].n = @ + 1] \in [{"arrived", "go"} \X Everyone -> [n : Nat, sleep : BOOLEAN]]
           /\ \A g \in {"arrived", "go"} \X Everyone :
                 [flag EXCEPT ![f].n = @ + 1][g].n = IF g = f THEN flag[g].n + 1 ELSE flag[g].n
<1> DEFINE D == {"arrived", "go"} \X Everyone
           R == [n : Nat, sleep : BOOLEAN]
           new == [flag EXCEPT ![f].n = @ + 1]
<1>1. flag \in [D -> R] /\ f \in D
  BY DEF Typed
<1>2. \A r \in R : [r EXCEPT !.n = @ + 1] \in R /\ [r EXCEPT !.n = @ + 1].n = r.n + 1
  OBVIOUS
<1> HIDE DEF D, R
<1>3. \A g \in D : new[g] = IF f = g THEN [flag[g] EXCEPT !.n = @ + 1] ELSE flag[g]
  BY <1>1
<1>4. \A g \in D : new[g] \in R /\ new[g].n = IF g = f THEN flag[g].n + 1 ELSE flag[g].n
  BY <1>1, <1>2, <1>3
<1>5. new \in [D -> R]
  BY <1>1, <1>4
<1> QED
  BY <1>4, <1>5 DEF D, R

\* What a thread does about its position keeps the types.
LEMMA GoTyped ==
    ASSUME Typed, NEW t \in Members,
           NEW s \in {"out", "gather", "notify", "await", "reset", "wake"},
           NEW u \in Spinning \cup Releasing, NEW q \in Seq(Nat), Go(t, s, u, q)
    PROVE  /\ stage' \in [Everyone -> {"out", "gather", "notify", "await", "reset", "wake"}]
           /\ sub' \in [Everyone -> Spinning \cup Releasing]
           /\ todo' \in [Everyone -> Seq(Nat)]
           /\ stage'[t] = s /\ sub'[t] = u /\ todo'[t] = q
           /\ \A v \in Everyone \ {t} : stage'[v] = stage[v] /\ sub'[v] = sub[v] /\ todo'[v] = todo[v]
<1>1. t \in Everyone
  BY TeamFacts
<1> QED
  BY <1>1 DEF Typed, Go
---------------------------------------------------------------------------
(* What a step has to do to keep the parts of the invariant, in terms of   *)
(* the thread that takes it.                                               *)

\* A thread the step leaves where it is, as far as the barrier goes.
Same(u) == /\ stage'[u] = stage[u] /\ todo'[u] = todo[u] /\ entered'[u] = entered[u]
           /\ passed'[u] = passed[u] /\ new_state'[u] = new_state[u]
           /\ sub'[u] = "add" <=> sub[u] = "add"
           /\ sub'[u] \in Spinning <=> sub[u] \in Spinning
           /\ sub'[u] \in Releasing <=> sub[u] \in Releasing

SameFlag(f) == flag'[f].n = flag[f].n

\* What does not touch the thread t's children and parent is as before.
LEMMA Frame ==
    ASSUME Typed, Flow, NEW t \in Int, team' = team, team_arrived' = team_arrived,
           \A u \in Members \ {t} : Same(u)
    PROVE  /\ \A u \in Members \ {t} : /\ Errand(u)' /\ Round(u)'
                                       /\ Ahead(u)' <=> Ahead(u)
                                       /\ Told(u)' <=> Told(u)
           /\ \A k \in Members \ {0} : Up(k) # t => (Taken(k)' <=> Taken(k))
           /\ \A k \in Members \ {0} : From(k) # t => (Freed(k)' <=> Freed(k))
           /\ \A k \in Members \ {0, t} : Up(k) # t => (Taken(k)' => Ahead(k)' /\ Told(k)')
<1>1. \A u \in Members \ {t} : (Ahead(u)' <=> Ahead(u)) /\ (Told(u)' <=> Told(u))
  BY DEF Same, Ahead, Told
<1>2. \A u : Up(u)' = Up(u) /\ From(u)' = From(u)
  BY DEF Up, From
<1>3. Members' = Members
  BY DEF Members
<1>4. \A u \in Members \ {t} : ToDo(u)' = ToDo(u)
  BY DEF Same, ToDo
<1>5. ASSUME NEW u \in Members \ {t} PROVE Errand(u)' /\ Round(u)'
  <2>1. Errand(u) /\ Round(u) /\ Same(u)
    BY DEF Flow
  <2>2. Errand(u)'
    BY <1>2, <1>3, <1>4, <2>1 DEF Errand, Same
  <2>3. Round(u)'
    BY <1>1, <2>1 DEF Round, Same
  <2> QED
    BY <2>2, <2>3
<1>7. \A k \in Members \ {0} : Up(k) \in Members /\ From(k) \in Members
  BY TeamFacts
<1>8. ASSUME NEW k \in Members \ {0}, Up(k) # t PROVE Taken(k)' <=> Taken(k)
  BY <1>1, <1>2, <1>4, <1>7, <1>8 DEF Taken, Same
<1>9. ASSUME NEW k \in Members \ {0}, From(k) # t PROVE Freed(k)' <=> Freed(k)
  BY <1>1, <1>2, <1>4, <1>7, <1>9 DEF Freed, Same
<1> QED
  BY <1>1, <1>5, <1>8, <1>9 DEF Flow

LEMMA FrameFlags ==
    ASSUME Typed, Flow, NEW t \in Int, team' = team, team_arrived' = team_arrived,
           \A u \in Members \ {t} : Same(u),
           NEW k \in Members \ {0, t}
    PROVE  /\ SameFlag(<<"arrived", k>>) => Arrival(k)'
           /\ SameFlag(<<"go", k>>) /\ From(k) # t => GoFlag(k)'
<1>1. (Ahead(k)' <=> Ahead(k)) /\ (Told(k)' <=> Told(k)) /\ (From(k) # t => (Freed(k)' <=> Freed(k)))
  BY Frame
<1>2. Arrival(k) /\ GoFlag(k) /\ Same(k)
  BY DEF Flow
<1>3. SameFlag(<<"arrived", k>>) => Arrival(k)'
  BY <1>2 DEF Arrival, Same, SameFlag
<1>4. SameFlag(<<"go", k>>) /\ From(k) # t => GoFlag(k)'
  BY <1>1, <1>2 DEF GoFlag, Same, SameFlag
<1> QED
  BY <1>3, <1>4

\* Shares stay where they are while nobody comes and nobody is taken.
LEMMA SharesFrame ==
    ASSUME Typed, Shares, team' = team, team_arrived' = team_arrived, data' = data,
           entered' = entered, \A k \in Members \ {0} : Taken(k)' <=> Taken(k)
    PROVE  Shares'
<1>1. Members' = Members
  BY DEF Members
<1>2. \A u : Ahead(u)' <=> Ahead(u)
  BY DEF Ahead
<1>3. \A u \in Members : Live(u)' <=> Live(u)
  BY <1>2 DEF Live
<1>4. OwnShares'
  BY <1>1, <1>2, <1>3 DEF Shares, OwnShares
<1>5. NoneLost'
  BY <1>1, <1>2, <1>3 DEF Shares, NoneLost
<1>6. NoneTwice'
  BY <1>1, <1>3 DEF Shares, NoneTwice
<1> QED
  BY <1>4, <1>5, <1>6 DEF Shares
---------------------------------------------------------------------------
(* Spinning, sleeping and waking do not matter to who passes.              *)

LEMMA Quiet ==
    ASSUME BarrierInv, Typed', \A u \in Members : Same(u),
           \A f \in {"arrived", "go"} \X Everyone : SameFlag(f),
           UNCHANGED <<team, team_arrived, data, stage, entered>>
    PROVE  BarrierInv'
<1>1. Members' = Members /\ Members \subseteq Everyone /\ -1 \notin Members
  BY TeamFacts DEF Members, BarrierInv
<1>2. \A k \in Members : SameFlag(<<"arrived", k>>) /\ SameFlag(<<"go", k>>)
  BY <1>1
<1>3. \A k \in Members \ {0} : Up(k) # -1 /\ From(k) # -1
  BY <1>1, TeamFacts DEF BarrierInv
<1>4. /\ \A u \in Members : Errand(u)' /\ Round(u)'
      /\ \A k \in Members \ {0} : /\ Arrival(k)' /\ GoFlag(k)' /\ (Taken(k)' <=> Taken(k))
                                  /\ Taken(k)' => Ahead(k)' /\ Told(k)'
  <2>1. \A u \in Members \ {-1} : Same(u)
    OBVIOUS
  <2>2. Typed /\ Flow /\ -1 \in Int /\ team' = team /\ team_arrived' = team_arrived
    BY DEF BarrierInv
  <2>3. \A k \in Members \ {0} : Arrival(k)' /\ GoFlag(k)'
    BY <1>1, <1>2, <1>3, <2>1, <2>2, FrameFlags
  <2> QED
    BY <1>1, <1>3, <2>1, <2>2, <2>3, Frame
<1>5. Flow'
  BY <1>1, <1>4 DEF Flow
<1>6. Shares'
  BY <1>4, SharesFrame DEF BarrierInv
<1>7. ReductionComplete'
  BY <1>1 DEF BarrierInv, ReductionComplete
<1> QED
  BY <1>5, <1>6, <1>7 DEF BarrierInv

\* A thread that waits is neither at add nor releasing, whatever it does to wait.
LEMMA Waiting ==
    ASSUME BarrierInv, NEW t \in Members, NEW b \in BOOLEAN, NEW u \in Spinning,
           sub[t] \in Spinning, sub' = [sub EXCEPT ![t] = u],
           flag' = flag \/ \E f : flag' = [flag EXCEPT ![f].sleep = b],
           UNCHANGED <<team, stage, todo, team_arrived, new_state, data, entered, passed>>
    PROVE  BarrierInv'
<1>1. Typed /\ t \in Everyone /\ Members \subseteq Everyone
  BY TeamFacts DEF BarrierInv
<1>2. /\ flag' \in [{"arrived", "go"} \X Everyone -> [n : Nat, sleep : BOOLEAN]]
      /\ \A f \in {"arrived", "go"} \X Everyone : SameFlag(f)
  <2>1. CASE flag' = flag
    BY <1>1, <2>1 DEF SameFlag, Typed
  <2>2. CASE \E f : flag' = [flag EXCEPT ![f].sleep = b]
    <3>1. PICK f : flag' = Put(f, b)
      BY <2>2 DEF Put
    <3> QED
      <4>1. /\ Put(f, b) \in [{"arrived", "go"} \X Everyone -> [n : Nat, sleep : BOOLEAN]]
            /\ \A g \in {"arrived", "go"} \X Everyone : Put(f, b)[g].n = flag[g].n
        BY <1>1, FlagTyped, ZenonT(40)
      <4> QED
        BY <3>1, <4>1 DEF SameFlag
  <2> QED
    BY <2>1, <2>2
<1>3. Typed'
  BY <1>1, <1>2 DEF Typed
<1>4. \A v \in Members : Same(v)
  BY <1>1 DEF Same, Typed, Spinning, Releasing
<1> QED
  BY <1>2, <1>3, <1>4, Quiet

LEMMA WaitingSteps ==
    ASSUME BarrierInv, NEW t \in Members,
           TimeOut(t) \/ SetSleeping(t) \/ FalseAlarm(t) \/ CondWait(t) \/ Spurious(t) \/ Relock(t)
    PROVE  BarrierInv'
<1> USE DEF Spinning, Stay
<1>1. CASE TimeOut(t)
  BY <1>1, Waiting DEF TimeOut
<1>2. CASE SetSleeping(t)
  BY <1>2, Waiting DEF SetSleeping, AfterBit
<1>3. CASE FalseAlarm(t)
  BY <1>3, Waiting DEF FalseAlarm
<1>4. CASE CondWait(t)
  <2>1. CASE flag[WaitFlag(t)].sleep
    BY <1>4, <2>1, Waiting DEF CondWait
  <2>2. CASE ~flag[WaitFlag(t)].sleep
    BY <1>4, <2>2, Waiting DEF CondWait
  <2> QED
    BY <2>1, <2>2
<1>5. CASE Spurious(t)
  BY <1>5, Waiting DEF Spurious
<1>6. CASE Relock(t)
  BY <1>6, Waiting DEF Relock
<1> QED
  BY <1>1, <1>2, <1>3, <1>4, <1>5, <1>6
---------------------------------------------------------------------------
(* Coming, gathering, and telling the parent.                              *)

LEMMA EnterKeeps ==
    ASSUME BarrierInv, NEW t \in Members, EnterBarrier(t)
    PROVE  BarrierInv'
<1> DEFINE S == {k \in Members \ {0} : Up(k) = t}
<1>1. /\ Typed /\ Flow /\ Shares /\ t \in Everyone /\ Members' = Members
      /\ Members \subseteq Everyone /\ Members \subseteq Nat /\ S \in SUBSET Nat
      /\ \A k \in Members \ {0} : Up(k) \in Members /\ Up(k) # k /\ From(k) \in Members /\ From(k) # k
  BY TeamFacts DEF BarrierInv, EnterBarrier, Members
<1>2. /\ GatherOrder(team, t) \in Seq(Nat)
      /\ {GatherOrder(team, t)[i] : i \in 1 .. Len(GatherOrder(team, t))} = S
      /\ \A i, j \in 1 .. Len(GatherOrder(team, t)) :
            GatherOrder(team, t)[i] = GatherOrder(team, t)[j] => i = j
  <2>1. Lists(GatherOrder(team, t), S)
    BY <1>1, TeamFacts
  <2> QED
    BY <1>1, <2>1, Listed
<1>3. /\ stage[t] = "out" /\ entered[t] = team_arrived /\ passed[t] = entered[t]
      /\ team_arrived \in Nat /\ \A u \in Members : entered[u] \in Nat
  BY <1>1 DEF EnterBarrier, Flow, Round, Typed
<1>4. /\ stage'[t] = "gather" /\ sub'[t] = "spin" /\ todo'[t] = GatherOrder(team, t)
      /\ entered'[t] = team_arrived + 1 /\ new_state'[t] = team_arrived + 1
      /\ passed' = passed /\ flag' = flag /\ team' = team /\ team_arrived' = team_arrived
  BY <1>1, <1>3 DEF EnterBarrier, Go, Typed
<1>5. Typed'
  <2>1. /\ stage' \in [Everyone -> {"out", "gather", "notify", "await", "reset", "wake"}]
        /\ sub' \in [Everyone -> Spinning \cup Releasing]
        /\ todo' \in [Everyone -> Seq(Nat)]
    BY <1>1, <1>2, GoTyped DEF EnterBarrier, Spinning
  <2>2. data' \in [Everyone -> [Everyone -> Nat]]
    BY <1>1 DEF EnterBarrier, Typed, Alone
  <2>3. entered' \in [Everyone -> Nat] /\ new_state' \in [Everyone -> Nat]
    BY <1>1, <1>3 DEF EnterBarrier, Typed
  <2> QED
    BY <1>1, <1>4, <2>1, <2>2, <2>3 DEF Typed
<1>6. \A u \in Members \ {t} : Same(u)
  BY <1>1 DEF Same, EnterBarrier, Go, Typed
<1>7. \A k \in Members : SameFlag(<<"arrived", k>>) /\ SameFlag(<<"go", k>>)
  BY <1>4 DEF SameFlag
<1>8. Ahead(t)' /\ ~Ahead(t) /\ ~Told(t) /\ t \in Int
  BY <1>1, <1>3, <1>4 DEF Ahead, Told
<1>9. ToDo(t)' = S /\ S \subseteq Members
  BY <1>2, <1>4 DEF ToDo
<1>10. \A u : Up(u)' = Up(u) /\ From(u)' = From(u)
  BY <1>4 DEF Up, From
<1>11. Errand(t)'
  BY <1>1, <1>2, <1>4, <1>9, <1>10 DEF Errand, Spinning
<1>12. Round(t)'
  BY <1>3, <1>4, <1>8 DEF Round
<1>13. t # 0 => Arrival(t)'
  BY <1>1, <1>3, <1>4 DEF Flow, Arrival
<1>14. \A k \in Members \ {0} : Taken(k)' <=> Taken(k)
  <2>1. ASSUME NEW k \in Members \ {0}, Up(k) = t PROVE ~Taken(k) /\ ~Taken(k)'
    BY <1>4, <1>8, <1>9, <1>10, <2>1 DEF Taken
  <2> QED
    BY <1>1, <1>4, <1>6, <2>1, Frame
<1>15. \A k \in Members \ {0} : Taken(k)' => Ahead(k)' /\ Told(k)'
  <2>1. \A k \in Members \ {0} : Taken(k) => Ahead(k) /\ Told(k)
    BY <1>1 DEF Flow
  <2> QED
    BY <1>1, <1>4, <1>6, <1>8, <1>14, <2>1, Frame
<1>16. \A k \in Members \ {0} : GoFlag(k)'
  <2>1. t # 0 => GoFlag(t)'
    <3>1. t # 0 => GoFlag(t) /\ (Freed(t)' <=> Freed(t))
      BY <1>1, <1>4, <1>6, Frame DEF Flow
    <3> QED
      BY <1>3, <1>4, <1>8, <3>1 DEF GoFlag
  <2>2. ASSUME NEW k \in Members \ {0, t} PROVE GoFlag(k)'
    <3>1. CASE From(k) # t
      BY <1>1, <1>4, <1>6, <1>7, <1>8, <3>1, FrameFlags
    <3>2. CASE From(k) = t
      <4>1. Freed(k) /\ Freed(k)'
        BY <1>3, <1>8, <1>10, <3>2 DEF Freed
      <4>2. GoFlag(k) /\ (Ahead(k)' <=> Ahead(k)) /\ (Told(k)' <=> Told(k)) /\ Same(k)
        BY <1>1, <1>4, <1>6, Frame DEF Flow
      <4> QED
        BY <1>4, <4>1, <4>2 DEF GoFlag, Same
    <3> QED
      BY <3>1, <3>2
  <2> QED
    BY <2>1, <2>2
<1>17. Flow'
  <2>1. /\ \A u \in Members \ {t} : Errand(u)' /\ Round(u)'
    BY <1>1, <1>4, <1>6, Frame
  <2>2. \A u \in Members \ {0, t} : Arrival(u)'
    BY <1>1, <1>4, <1>6, <1>7, <1>8, FrameFlags
  <2> QED
    BY <1>1, <1>11, <1>12, <1>13, <1>15, <1>16, <2>1, <2>2 DEF Flow
<1>18. Shares'
  <2>1. \A u \in Members : Ahead(u)' <=> Ahead(u) \/ u = t
    BY <1>1, <1>4, <1>6, <1>8, Frame
  <2>2. t # 0 => ~Taken(t)
    BY <1>1, <1>8 DEF Flow
  <2>3. \A u \in Members : Live(u)' <=> Live(u) \/ u = t
    BY <1>8, <1>14, <2>1, <2>2 DEF Live
  <2>4. ~Live(t) /\ \A u \in Members : Live(u) => data[u][t] = 0
    BY <1>1, <1>8 DEF Shares, OwnShares, Live
  <2>5. /\ \A u \in Everyone : data'[t][u] = IF u = t THEN 1 ELSE 0
        /\ \A v \in Members \ {t} : data'[v] = data[v]
    BY <1>1 DEF EnterBarrier, Typed, Alone
  <2>6. ASSUME NEW v \in Members, Live(v)', NEW u \in Everyone
        PROVE  data'[v][u] = 0 \/ (data'[v][u] = 1 /\ u \in Members /\ Ahead(u)')
    BY <1>1, <2>1, <2>3, <2>5, <2>6 DEF Shares, OwnShares
  <2>7. ASSUME NEW u \in Members, Ahead(u)' PROVE \E v \in Members : Live(v)' /\ data'[v][u] = 1
    <3>1. CASE u = t
      BY <1>1, <2>3, <2>5, <3>1
    <3>2. CASE u # t
      <4>1. PICK v \in Members : Live(v) /\ data[v][u] = 1
        BY <1>1, <2>1, <2>7, <3>2 DEF Shares, NoneLost
      <4> QED
        BY <2>3, <2>4, <2>5, <4>1
    <3> QED
      BY <3>1, <3>2
  <2>8. NoneTwice'
    <3> SUFFICES ASSUME NEW v \in Members, NEW w \in Members, NEW u \in Everyone,
                        Live(v)', Live(w)', data'[v][u] = 1, data'[w][u] = 1
                 PROVE  v = w
      BY <1>1 DEF NoneTwice
    <3>1. \A x \in Members \ {t} : Live(x)' /\ data'[x][u] = 1 => u # t /\ Live(x) /\ data[x][u] = 1
      BY <1>1, <2>3, <2>4, <2>5
    <3>2. data'[t][u] = 1 => u = t
      BY <2>5
    <3>3. CASE v = t \/ w = t
      BY <3>1, <3>2, <3>3
    <3>4. CASE v # t /\ w # t
      <4>1. Live(v) /\ data[v][u] = 1 /\ Live(w) /\ data[w][u] = 1
        BY <3>1, <3>4
      <4> QED
        BY <1>1, <4>1 DEF Shares, NoneTwice
    <3> QED
      BY <3>3, <3>4
  <2>9. OwnShares' /\ NoneLost'
    BY <1>1, <2>6, <2>7 DEF OwnShares, NoneLost
  <2> QED
    BY <2>8, <2>9 DEF Shares
<1>19. ReductionComplete'
  <2>1. CASE t = 0
    BY <1>4, <2>1 DEF ReductionComplete
  <2>2. CASE t # 0
    <3>1. stage'[0] = stage[0] /\ data'[0] = data[0]
      BY <1>1, <1>6, <2>2, TeamFacts DEF Same, EnterBarrier, Typed
    <3> QED
      BY <1>1, <3>1 DEF BarrierInv, ReductionComplete
  <2> QED
    BY <2>1, <2>2
<1> QED
  BY <1>5, <1>17, <1>18, <1>19 DEF BarrierInv

\* A step of t keeps the flow if it does so for t, its children and its flags.
LEMMA Move ==
    ASSUME Typed, Flow, NEW t \in Members, team' = team, team_arrived' = team_arrived,
           \A u \in Members \ {t} : Same(u),
           Errand(t)', Round(t)', t # 0 => Arrival(t)' /\ GoFlag(t)',
           \A k \in Members \ {0, t} : SameFlag(<<"arrived", k>>),
           \A k \in Members \ {0, t} : SameFlag(<<"go", k>>) \/ From(k) = t,
           \A k \in Members \ {0, t} : From(k) = t => GoFlag(k)',
           \A k \in Members \ {0, t} : Up(k) = t /\ Taken(k)' => Ahead(k) /\ Told(k),
           t # 0 /\ Taken(t) => Ahead(t)' /\ Told(t)'
    PROVE  Flow'
<1>1. /\ Members' = Members /\ t \in Int
      /\ \A k \in Members \ {0} : Up(k) # k /\ From(k) # k
  BY TeamFacts DEF Members
<1>2. /\ \A u \in Members \ {t} : /\ Errand(u)' /\ Round(u)'
                                  /\ Ahead(u)' <=> Ahead(u)
                                  /\ Told(u)' <=> Told(u)
      /\ \A k \in Members \ {0} : Up(k) # t => (Taken(k)' <=> Taken(k))
      /\ \A k \in Members \ {0, t} : Up(k) # t => (Taken(k)' => Ahead(k)' /\ Told(k)')
  BY <1>1, Frame
<1>3. ASSUME NEW k \in Members \ {0, t} PROVE Arrival(k)' /\ GoFlag(k)'
  BY <1>1, FrameFlags
<1>4. ASSUME NEW k \in Members \ {0} PROVE Taken(k)' => Ahead(k)' /\ Told(k)'
  <2>1. CASE k = t
    BY <1>1, <1>2, <2>1
  <2>2. CASE k # t
    BY <1>2, <2>2
  <2> QED
    BY <2>1, <2>2
<1> QED
  BY <1>1, <1>2, <1>3, <1>4 DEF Flow

\* A child has arrived in the barrier its parent gathers for.
LEMMA GatheredKeeps ==
    ASSUME BarrierInv, NEW t \in Members, Gathered(t)
    PROVE  BarrierInv'
<1> DEFINE k == Head(todo[t])
<1>1. /\ Typed /\ Flow /\ Shares /\ t \in Everyone /\ Members' = Members
      /\ Members \subseteq Everyone /\ Members \subseteq Nat /\ t \in Int
      /\ \A c \in Members \ {0} : Up(c) \in Members /\ Up(c) # c /\ From(c) \in Members /\ From(c) # c
  BY TeamFacts DEF BarrierInv, Gathered, Members
<1>2. /\ stage[t] = "gather" /\ todo[t] # <<>> /\ todo[t] \in Seq(Nat)
      /\ Errand(t) /\ Round(t) /\ new_state[t] = team_arrived + 1 /\ Ahead(t)
  BY <1>1 DEF Gathered, Flow, Round, Ahead, Typed
<1>3. /\ k \in ToDo(t) /\ Tail(todo[t]) \in Seq(Nat)
      /\ {Tail(todo[t])[i] : i \in 1 .. Len(Tail(todo[t]))} = ToDo(t) \ {k}
      /\ \A i, j \in 1 .. Len(Tail(todo[t])) : Tail(todo[t])[i] = Tail(todo[t])[j] => i = j
  BY <1>2, NextChild
<1>4. k \in Members \ {0} /\ Up(k) = t /\ k # t
  BY <1>1, <1>2, <1>3 DEF Errand
<1>5. Ahead(k) /\ Told(k)
  <2>1. flag[<<"arrived", k>>].n = team_arrived + 1
    BY <1>2, <1>4 DEF Gathered, Released, WaitFlag, Goal
  <2>2. Arrival(k) /\ Round(k) /\ Errand(k) /\ team_arrived \in Nat
    BY <1>1, <1>4 DEF Flow, Typed
  <2>3. /\ entered[k] = team_arrived + 1
        /\ ~(stage[k] = "gather" \/ (stage[k] = "notify" /\ sub[k] = "add"))
    BY <2>1, <2>2 DEF Arrival, Round, Ahead
  <2>4. stage[k] \in {"out", "gather", "notify", "await", "reset", "wake"}
    BY <1>1, <1>4 DEF Typed
  <2> QED
    BY <2>2, <2>3, <2>4 DEF Round, Ahead, Told
<1>6. /\ todo'[t] = Tail(todo[t]) /\ ToDo(t)' = ToDo(t) \ {k}
      /\ stage' = stage /\ sub' = sub /\ flag' = flag /\ entered' = entered /\ passed' = passed
      /\ team' = team /\ team_arrived' = team_arrived /\ new_state' = new_state
      /\ \A u \in Members \ {t} : Same(u)
  <2>1. /\ todo' = [todo EXCEPT ![t] = Tail(@)] /\ todo \in [Everyone -> Seq(Nat)]
        /\ UNCHANGED <<team, stage, sub, flag, team_arrived, new_state, entered, passed>>
    BY <1>1 DEF Gathered, Typed
  <2>2. todo'[t] = Tail(todo[t]) /\ \A u \in Members \ {t} : todo'[u] = todo[u]
    BY <1>1, <2>1
  <2>3. ToDo(t)' = {Tail(todo[t])[i] : i \in 1 .. Len(Tail(todo[t]))}
    BY <2>2 DEF ToDo
  <2> QED
    BY <1>3, <2>1, <2>2, <2>3 DEF Same
<1>7. data[t] \in [Everyone -> Nat] /\ data[k] \in [Everyone -> Nat]
  BY <1>1, <1>4 DEF Typed
<1>8. /\ \A u \in Everyone : data'[t][u] = data[t][u] + data[k][u]
      /\ \A v \in Everyone \ {t} : data'[v] = data[v]
      /\ data' \in [Everyone -> [Everyone -> Nat]]
  <2>1. Reduced(t, k) \in [Everyone -> Nat]
    BY <1>7 DEF Reduced
  <2> QED
    BY <1>1, <2>1 DEF Gathered, Typed, Reduced
<1>9. Typed'
  BY <1>1, <1>3, <1>6, <1>8 DEF Typed, Gathered
<1>10. \A u : /\ (Ahead(u)' <=> Ahead(u)) /\ (Told(u)' <=> Told(u))
              /\ Up(u)' = Up(u) /\ From(u)' = From(u)
  BY <1>6 DEF Ahead, Told, Up, From
<1>11. Errand(t)' /\ Round(t)'
  <2>1. Errand(t)'
    BY <1>1, <1>2, <1>3, <1>6, <1>10 DEF Errand
  <2>2. Round(t)'
    BY <1>2, <1>6, <1>10 DEF Round
  <2> QED
    BY <2>1, <2>2
<1>12. \A c \in Members \ {0} : Taken(c)' <=> Taken(c) \/ c = k
  <2>1. ASSUME NEW c \in Members \ {0}, Up(c) = t PROVE Taken(c)' <=> Taken(c) \/ c = k
    BY <1>2, <1>6, <1>10, <2>1 DEF Taken
  <2>2. ASSUME NEW c \in Members \ {0}, Up(c) # t PROVE Taken(c)' <=> Taken(c)
    BY <1>1, <1>6, <2>2, Frame
  <2> QED
    BY <1>4, <2>1, <2>2
<1>13. \A c \in Members \ {0} : Freed(c)' <=> Freed(c)
  <2>1. ASSUME NEW c \in Members \ {0}, From(c) = t PROVE Freed(c)' <=> Freed(c)
    BY <1>2, <1>6, <1>10, <2>1 DEF Freed
  <2>2. ASSUME NEW c \in Members \ {0}, From(c) # t PROVE Freed(c)' <=> Freed(c)
    BY <1>1, <1>6, <2>2, Frame
  <2> QED
    BY <2>1, <2>2
<1>14. \A c \in Members \ {0} : Arrival(c)' /\ GoFlag(c)'
  BY <1>1, <1>6, <1>10, <1>13 DEF Flow, Arrival, GoFlag
<1>15. Flow'
  <2>1. \A c \in Members \ {0} : Taken(c)' => Ahead(c)' /\ Told(c)'
    BY <1>1, <1>5, <1>10, <1>12 DEF Flow
  <2>2. \A u \in Members \ {t} : Errand(u)' /\ Round(u)'
    BY <1>1, <1>6, Frame
  <2> QED
    BY <1>1, <1>11, <1>14, <2>1, <2>2 DEF Flow
<1>16. Shares'
  <2>1. ~Taken(k) /\ (t # 0 => ~Taken(t))
    <3>1. ~Told(t)
      BY <1>2 DEF Told
    <3> QED
      BY <1>1, <1>2, <1>3, <1>4, <3>1 DEF Taken, Flow
  <2>2. Live(t) /\ Live(k) /\ \A u \in Members : Live(u)' <=> Live(u) /\ u # k
    BY <1>2, <1>4, <1>5, <1>10, <1>12, <2>1 DEF Live
  <2>3. \A u \in Everyone : /\ data[t][u] = 0 \/ (data[t][u] = 1 /\ u \in Members /\ Ahead(u))
                            /\ data[k][u] = 0 \/ (data[k][u] = 1 /\ u \in Members /\ Ahead(u))
                            /\ ~(data[t][u] = 1 /\ data[k][u] = 1)
    BY <1>1, <1>4, <2>2 DEF Shares, OwnShares, NoneTwice
  <2>4. /\ \A u \in Everyone : data'[t][u] = 1 <=> data[t][u] = 1 \/ data[k][u] = 1
        /\ \A u \in Everyone : data'[t][u] = 0 \/ (data'[t][u] = 1 /\ u \in Members /\ Ahead(u)')
    BY <1>8, <1>10, <2>3
  <2>5. OwnShares'
    BY <1>1, <1>8, <1>10, <2>2, <2>4 DEF Shares, OwnShares
  <2>6. NoneLost'
    <3> SUFFICES ASSUME NEW u \in Members, Ahead(u)' PROVE \E v \in Members : Live(v)' /\ data'[v][u] = 1
      BY <1>1 DEF NoneLost
    <3>1. PICK v \in Members : Live(v) /\ data[v][u] = 1
      BY <1>1, <1>10 DEF Shares, NoneLost
    <3>2. CASE v \in {t, k}
      BY <1>1, <1>4, <2>2, <2>4, <3>1, <3>2
    <3>3. CASE v \notin {t, k}
      BY <1>1, <1>8, <2>2, <3>1, <3>3
    <3> QED
      BY <3>2, <3>3
  <2>7. NoneTwice'
    <3> SUFFICES ASSUME NEW v \in Members, NEW w \in Members, NEW u \in Everyone,
                        Live(v)', Live(w)', data'[v][u] = 1, data'[w][u] = 1
                 PROVE  v = w
      BY <1>1 DEF NoneTwice
    <3>1. v # k /\ w # k /\ Live(v) /\ Live(w)
      BY <2>2
    <3>2. \A x \in Members \ {t} : data'[x] = data[x]
      BY <1>1, <1>8
    <3>3. \A x, y \in Members : Live(x) /\ Live(y) /\ data[x][u] = 1 /\ data[y][u] = 1 => x = y
      BY <1>1 DEF Shares, NoneTwice
    <3>4. CASE v = t /\ w # t
      BY <1>4, <2>2, <2>4, <3>1, <3>2, <3>3, <3>4
    <3>5. CASE v # t /\ w = t
      BY <1>4, <2>2, <2>4, <3>1, <3>2, <3>3, <3>5
    <3>6. CASE v # t /\ w # t
      BY <3>1, <3>2, <3>3, <3>6
    <3> QED
      BY <3>4, <3>5, <3>6
  <2> QED
    BY <2>5, <2>6, <2>7 DEF Shares
<1>17. ReductionComplete'
  <2>1. CASE t = 0
    BY <1>2, <1>6, <2>1 DEF ReductionComplete
  <2>2. CASE t # 0
    BY <1>1, <1>6, <1>8, <2>2, TeamFacts DEF BarrierInv, ReductionComplete
  <2> QED
    BY <2>1, <2>2
<1> QED
  BY <1>9, <1>15, <1>16, <1>17 DEF BarrierInv

\* A thread other than the master is about to tell its parent.
LEMMA NotifyKeeps ==
    ASSUME BarrierInv, NEW t \in Members, t # 0, AllGathered(t)
    PROVE  BarrierInv'
<1>1. /\ Typed /\ Flow /\ Shares /\ t \in Everyone /\ Members' = Members
      /\ Members \subseteq Everyone
      /\ \A c \in Members \ {0} : Up(c) # c /\ From(c) # c
  BY TeamFacts DEF BarrierInv, AllGathered, Members
<1>2. /\ stage[t] = "gather" /\ todo[t] = <<>> /\ Errand(t) /\ Round(t) /\ Ahead(t)
      /\ Arrival(t) /\ GoFlag(t) /\ ~Told(t)
  BY <1>1 DEF AllGathered, Flow, Round, Told
<1>3. /\ stage'[t] = "notify" /\ sub'[t] = "add" /\ todo'[t] = <<>>
      /\ UNCHANGED <<team, flag, team_arrived, new_state, data, entered, passed>>
  BY <1>1 DEF AllGathered, Go, Typed
<1>4. \A u \in Members \ {t} : Same(u)
  BY <1>1, <1>3 DEF AllGathered, Go, Typed, Same
<1>5. Typed'
  <2>1. <<>> \in Seq(Nat)
    OBVIOUS
  <2>2. /\ stage' \in [Everyone -> {"out", "gather", "notify", "await", "reset", "wake"}]
        /\ sub' \in [Everyone -> Spinning \cup Releasing]
        /\ todo' \in [Everyone -> Seq(Nat)]
    BY <1>1, <2>1, GoTyped DEF AllGathered, Releasing
  <2> QED
    BY <1>1, <1>3, <2>2 DEF Typed
<1>6. /\ \A u : (Ahead(u)' <=> Ahead(u)) /\ Up(u)' = Up(u) /\ From(u)' = From(u)
      /\ ~Told(t)' /\ ToDo(t) = {} /\ ToDo(t)' = {}
  BY <1>2, <1>3 DEF Ahead, Told, Up, From, ToDo
<1>7. \A c \in Members \ {0} : Taken(c)' <=> Taken(c)
  <2>1. ASSUME NEW c \in Members \ {0}, Up(c) = t PROVE Taken(c)' <=> Taken(c)
    BY <1>2, <1>3, <1>6, <2>1 DEF Taken
  <2>2. ASSUME NEW c \in Members \ {0}, Up(c) # t PROVE Taken(c)' <=> Taken(c)
    BY <1>1, <1>3, <1>4, <2>2, TeamFacts, Frame
  <2> QED
    BY <2>1, <2>2
<1>8. \A c \in Members \ {0} : Freed(c)' <=> Freed(c)
  <2>1. ASSUME NEW c \in Members \ {0}, From(c) = t PROVE Freed(c)' <=> Freed(c)
    BY <1>2, <1>3, <1>6, <2>1 DEF Freed
  <2>2. ASSUME NEW c \in Members \ {0}, From(c) # t PROVE Freed(c)' <=> Freed(c)
    BY <1>1, <1>3, <1>4, <2>2, TeamFacts, Frame
  <2> QED
    BY <2>1, <2>2
<1>9. Errand(t)' /\ Round(t)' /\ Arrival(t)' /\ GoFlag(t)'
  <2>1. Errand(t)'
    BY <1>3, <1>6 DEF Errand, Releasing
  <2>2. Round(t)' /\ Arrival(t)'
    BY <1>2, <1>3, <1>6 DEF Round, Arrival
  <2>3. GoFlag(t)'
    BY <1>2, <1>3, <1>6, <1>8 DEF GoFlag
  <2> QED
    BY <2>1, <2>2, <2>3
<1>10. \A c \in Members \ {0, t} : GoFlag(c)'
  <2>1. \A c \in Members \ {0, t} : GoFlag(c) /\ Same(c) /\ (Told(c)' <=> Told(c))
    BY <1>1, <1>4 DEF Flow, Same, Told
  <2> QED
    BY <1>3, <1>6, <1>8, <2>1 DEF GoFlag, Same
<1>11. Flow'
  <2>1. \A c \in Members : SameFlag(<<"arrived", c>>) /\ SameFlag(<<"go", c>>)
    BY <1>3 DEF SameFlag
  <2>2. \A c \in Members \ {0} : Taken(c) => Ahead(c) /\ Told(c)
    BY <1>1 DEF Flow
  <2> QED
    BY <1>1, <1>2, <1>3, <1>4, <1>7, <1>9, <1>10, <2>1, <2>2, Move
<1>12. Shares'
  BY <1>1, <1>3, <1>7, SharesFrame
<1>13. ReductionComplete'
  <2>1. stage'[0] = stage[0]
    BY <1>4, TeamFacts, <1>1 DEF Same
  <2> QED
    BY <1>1, <1>3, <2>1 DEF BarrierInv, ReductionComplete
<1> QED
  BY <1>5, <1>11, <1>12, <1>13 DEF BarrierInv

\* If somebody had not come to the barrier the master has gathered for, the one with
\* the smallest number would not be taken though its parent has come.
LEMMA AllHere ==
    ASSUME Typed, Flow, stage[0] = "gather", todo[0] = <<>>
    PROVE  \A k \in Members \ {0} : Ahead(k) /\ Told(k) /\ Taken(k)
<1> DEFINE T == {k \in Members \ {0} : ~(Ahead(k) /\ Told(k) /\ Taken(k))}
<1>1. /\ Members \subseteq Nat /\ 0 \in Members
      /\ \A k \in Members \ {0} : Up(k) \in Members /\ Up(k) < k
  BY TeamFacts
<1>2. Ahead(0) /\ ToDo(0) = {}
  BY <1>1 DEF Flow, Round, ToDo
<1>3. SUFFICES ASSUME T # {} PROVE FALSE
  OBVIOUS
<1>4. PICK k \in T : \A j \in T : k <= j
  <2>1. T \in SUBSET Nat
    BY <1>1
  <2> HIDE DEF T
  <2> QED
    BY <1>3, <2>1, Least
<1>5. k \in Members \ {0} /\ Up(k) \notin T /\ Up(k) \in Members
  <2>1. k \in Members \ {0} /\ Up(k) < k /\ Up(k) \in Nat /\ k \in Nat
    BY <1>1, <1>4
  <2> QED
    BY <1>1, <1>4, <2>1
<1>6. Taken(k)
  <2>1. CASE Up(k) = 0
    BY <1>2, <2>1 DEF Taken
  <2>2. CASE Up(k) # 0
    BY <1>5, <2>2 DEF Taken, Told
  <2> QED
    BY <2>1, <2>2
<1> QED
  BY <1>4, <1>5, <1>6 DEF Flow

\* The master has gathered everybody: the barrier is complete, its release begins.
LEMMA CompleteKeeps ==
    ASSUME BarrierInv, AllGathered(0)
    PROVE  BarrierInv'
<1> DEFINE S == {k \in Members \ {0} : From(k) = 0}
<1>1. /\ Typed /\ Flow /\ Shares /\ 0 \in Members /\ 0 \in Everyone /\ Members' = Members
      /\ Members \subseteq Everyone /\ Members \subseteq Nat /\ S \in SUBSET Nat
      /\ \A k \in Members \ {0} : From(k) \in Members
  BY TeamFacts DEF BarrierInv, AllGathered, Members
<1>2. /\ WakeOrder(team, 0) \in Seq(Nat)
      /\ {WakeOrder(team, 0)[i] : i \in 1 .. Len(WakeOrder(team, 0))} = S
      /\ \A i, j \in 1 .. Len(WakeOrder(team, 0)) :
            WakeOrder(team, 0)[i] = WakeOrder(team, 0)[j] => i = j
  <2>1. Lists(WakeOrder(team, 0), S)
    BY <1>1, TeamFacts
  <2> QED
    BY <1>1, <2>1, Listed
<1>3. /\ stage[0] = "gather" /\ todo[0] = <<>> /\ Errand(0) /\ Round(0) /\ Ahead(0)
      /\ team_arrived \in Nat /\ new_state[0] = team_arrived + 1
  BY <1>1 DEF AllGathered, Flow, Round, Typed, Ahead
<1>4. \A k \in Members \ {0} : Ahead(k) /\ Told(k) /\ Taken(k)
  BY <1>1, <1>3, AllHere
<1>5. /\ stage'[0] = "wake" /\ sub'[0] = "add" /\ todo'[0] = WakeOrder(team, 0)
      /\ team_arrived' = team_arrived + 1
      /\ UNCHANGED <<team, flag, new_state, data, entered, passed>>
  BY <1>1, <1>3 DEF AllGathered, Go, Typed
<1>6. \A u \in Members \ {0} : Same(u)
  BY <1>1, <1>5 DEF AllGathered, Go, Typed, Same
<1>7. Typed'
  <2>1. /\ stage' \in [Everyone -> {"out", "gather", "notify", "await", "reset", "wake"}]
        /\ sub' \in [Everyone -> Spinning \cup Releasing]
        /\ todo' \in [Everyone -> Seq(Nat)]
    BY <1>1, <1>2, GoTyped DEF AllGathered, Releasing
  <2> QED
    BY <1>1, <1>3, <1>5, <2>1 DEF Typed
<1>8. \A u : Up(u)' = Up(u) /\ From(u)' = From(u)
  BY <1>5 DEF Up, From
<1>9. ToDo(0)' = S
  BY <1>2, <1>5 DEF ToDo
<1>10. \A u \in Members : entered[u] = team_arrived + 1 /\ ~Ahead(u)' /\ entered'[u] = team_arrived'
  BY <1>3, <1>4, <1>5 DEF Ahead
<1>11. \A k \in Members \ {0} : Told(k)' /\ ~Taken(k)'
  BY <1>1, <1>4, <1>6, <1>8, <1>10, TeamFacts DEF Told, Same, Taken
<1>12. \A k \in Members \ {0} : ~Freed(k)'
  <2>1. ASSUME NEW k \in Members \ {0}, From(k) = 0 PROVE ~Freed(k)'
    BY <1>1, <1>5, <1>8, <1>9, <1>10, <2>1 DEF Freed
  <2>2. ASSUME NEW k \in Members \ {0}, From(k) # 0 PROVE ~Freed(k)'
    BY <1>1, <1>8, <1>10, <1>11, <2>2 DEF Freed, Told
  <2> QED
    BY <2>1, <2>2
<1>13. \A k \in Members \ {0} : GoFlag(k)'
  <2>1. \A k \in Members \ {0} : flag[<<"go", k>>].n = 0
    BY <1>1, <1>4 DEF Flow, GoFlag, Told
  <2> QED
    BY <1>1, <1>5, <1>10, <1>11, <1>12, <2>1 DEF GoFlag
<1>14. \A k \in Members \ {0} : Arrival(k)'
  BY <1>1, <1>5, <1>6 DEF Flow, Arrival, Same
<1>15. \A u \in Members : Errand(u)' /\ Round(u)'
  <2>1. Errand(0)'
    BY <1>1, <1>2, <1>5, <1>8, <1>9 DEF Errand, Releasing
  <2>2. Round(0)'
    BY <1>3, <1>5, <1>10 DEF Round
  <2>3. ASSUME NEW u \in Members \ {0} PROVE Errand(u)' /\ Round(u)'
    <3>1. Errand(u) /\ Round(u) /\ Same(u) /\ ToDo(u)' = ToDo(u) /\ Told(u) /\ Told(u)'
      BY <1>1, <1>4, <1>6, <1>11 DEF Flow, Same, ToDo
    <3>2. Errand(u)'
      BY <1>1, <1>8, <3>1 DEF Errand, Same
    <3>3. Round(u)'
      BY <1>10, <3>1 DEF Round, Same, Told
    <3> QED
      BY <3>2, <3>3
  <2> QED
    BY <2>1, <2>2, <2>3
<1>16. Flow'
  BY <1>1, <1>11, <1>13, <1>14, <1>15 DEF Flow
<1>17. Shares'
  BY <1>1, <1>10 DEF Shares, OwnShares, NoneLost, NoneTwice, Live
<1>18. ReductionComplete'
  <2>1. \A t \in Members : Live(t) <=> t = 0
    BY <1>3, <1>4 DEF Live
  <2>2. ASSUME NEW u \in Everyone PROVE data[0][u] = IF u \in Members THEN 1 ELSE 0
    <3>1. u \in Members => data[0][u] = 1
      BY <1>1, <1>3, <1>4, <2>1 DEF Shares, NoneLost
    <3>2. u \notin Members => data[0][u] = 0
      BY <1>1, <2>1 DEF Shares, OwnShares
    <3> QED
      BY <3>1, <3>2
  <2>3. data[0] \in [Everyone -> Nat]
    BY <1>1 DEF Typed
  <2>4. data[0] = [t \in Everyone |-> IF t \in Members THEN 1 ELSE 0]
    BY <2>2, <2>3
  <2> QED
    BY <1>1, <1>5, <2>4 DEF ReductionComplete
<1> QED
  BY <1>7, <1>16, <1>17, <1>18 DEF BarrierInv
---------------------------------------------------------------------------
(* Waking up, waking the children, and leaving.                            *)

\* A step of a thread that neither comes nor gathers moves nobody's share.
LEMMA Later ==
    ASSUME BarrierInv, NEW t \in Members, Typed',
           stage[t] # "gather", stage'[t] # "gather",
           UNCHANGED <<team, team_arrived, data, entered>>,
           \A u \in Members \ {t} : Same(u),
           Errand(t)', Round(t)', t # 0 => Arrival(t)' /\ GoFlag(t)',
           \A k \in Members \ {0, t} : SameFlag(<<"arrived", k>>),
           \A k \in Members \ {0, t} : SameFlag(<<"go", k>>) \/ From(k) = t,
           \A k \in Members \ {0, t} : From(k) = t =>
               GoFlag(k)' \/ (SameFlag(<<"go", k>>) /\ (Freed(k)' <=> Freed(k))),
           t # 0 /\ Taken(t) => Ahead(t)' /\ Told(t)',
           t = 0 /\ stage'[0] = "wake" => stage[0] = "wake"
    PROVE  BarrierInv'
<1>1. /\ Typed /\ Flow /\ Shares /\ Members' = Members /\ t \in Int /\ 0 \in Members
      /\ team' = team /\ team_arrived' = team_arrived
      /\ \A k \in Members \ {0} : Up(k) # k /\ From(k) # k
  BY TeamFacts DEF BarrierInv, Members
<1>2. \A u : (Ahead(u)' <=> Ahead(u)) /\ Up(u)' = Up(u)
  BY DEF Ahead, Up
<1>3. \A k \in Members \ {0} : Taken(k)' <=> Taken(k)
  <2>1. ASSUME NEW k \in Members \ {0}, Up(k) = t PROVE Taken(k)' <=> Taken(k)
    BY <1>2, <2>1 DEF Taken
  <2>2. ASSUME NEW k \in Members \ {0}, Up(k) # t PROVE Taken(k)' <=> Taken(k)
    BY <1>1, <2>2, Frame
  <2> QED
    BY <2>1, <2>2
<1>4. ASSUME NEW k \in Members \ {0, t}, From(k) = t PROVE GoFlag(k)'
  <2>1. CASE GoFlag(k)'
    BY <2>1
  <2>2. CASE SameFlag(<<"go", k>>) /\ (Freed(k)' <=> Freed(k))
    <3>1. GoFlag(k) /\ Same(k) /\ (Ahead(k)' <=> Ahead(k)) /\ (Told(k)' <=> Told(k))
      BY <1>1, <1>2 DEF Flow, Same, Told
    <3> QED
      BY <2>2, <3>1 DEF GoFlag, Same, SameFlag
  <2> QED
    BY <1>4, <2>1, <2>2
<1>5. \A k \in Members \ {0, t} : Up(k) = t /\ Taken(k)' => Ahead(k) /\ Told(k)
  BY <1>1, <1>3 DEF Flow
<1>6. Flow'
  BY <1>1, <1>4, <1>5, Move
<1>7. Shares'
  BY <1>1, <1>3, SharesFrame
<1>8. ReductionComplete'
  <2>1. stage'[0] = "wake" => stage[0] = "wake"
    BY <1>1 DEF Same
  <2> QED
    BY <1>1, <2>1 DEF BarrierInv, ReductionComplete
<1> QED
  BY <1>6, <1>7, <1>8 DEF BarrierInv

\* The parent has released the thread: b_go is 1 until the thread clears it.
LEMMA AwakeKeeps ==
    ASSUME BarrierInv, NEW t \in Members, Awake(t)
    PROVE  BarrierInv'
<1>1. /\ Typed /\ Flow /\ t \in Everyone /\ t \in Int /\ Members \subseteq Everyone
      /\ \A k \in Members \ {0} : Up(k) # k /\ From(k) # k
  BY TeamFacts DEF BarrierInv
<1>2. /\ stage[t] = "await" /\ t # 0 /\ flag[<<"go", t>>].n = 1
      /\ Errand(t) /\ Round(t) /\ Arrival(t) /\ GoFlag(t)
  BY <1>1 DEF Awake, Flow, Round, Released, WaitFlag, Goal
<1>3. ~Ahead(t) /\ Freed(t)
  BY <1>2 DEF GoFlag
<1>4. /\ stage'[t] = "reset" /\ sub'[t] = "spin" /\ todo'[t] = <<>>
      /\ UNCHANGED <<team, flag, team_arrived, new_state, data, entered, passed>>
      /\ \A u \in Members \ {t} : Same(u)
  BY <1>1 DEF Awake, Go, Typed, Same
<1>5. Typed'
  <2>1. <<>> \in Seq(Nat)
    OBVIOUS
  <2>2. /\ stage' \in [Everyone -> {"out", "gather", "notify", "await", "reset", "wake"}]
        /\ sub' \in [Everyone -> Spinning \cup Releasing]
        /\ todo' \in [Everyone -> Seq(Nat)]
    BY <1>1, <2>1, GoTyped DEF Awake, Spinning
  <2> QED
    BY <1>1, <1>4, <2>2 DEF Typed
<1>6. \A u : (Ahead(u)' <=> Ahead(u)) /\ From(u)' = From(u)
  BY <1>4 DEF Ahead, From
<1>7. Freed(t)'
  BY <1>1, <1>2, <1>3, <1>4, Frame
<1>8. \A k \in Members \ {0, t} : From(k) = t => ~Freed(k) /\ ~Freed(k)'
  BY <1>2, <1>3, <1>4, <1>6 DEF Freed
<1>9. Errand(t)'
  BY <1>4 DEF Errand, ToDo, Spinning
<1>10. Round(t)' /\ Arrival(t)' /\ GoFlag(t)'
  BY <1>2, <1>3, <1>4, <1>6, <1>7 DEF Round, Arrival, GoFlag
<1>11. ~Taken(t)
  BY <1>1, <1>2, <1>3 DEF Flow
<1>12. \A f : SameFlag(f)
  BY <1>4 DEF SameFlag
<1> QED
  BY <1>2, <1>4, <1>5, <1>8, <1>9, <1>10, <1>11, <1>12, Later

\* The thread clears its b_go before it wakes its own children.
LEMMA ResetKeeps ==
    ASSUME BarrierInv, NEW t \in Members, ResetGo(t)
    PROVE  BarrierInv'
<1> DEFINE S == {k \in Members \ {0} : From(k) = t}
           D == {"arrived", "go"} \X Everyone
<1>1. /\ Typed /\ Flow /\ t \in Everyone /\ t \in Int /\ Members \subseteq Everyone
      /\ S \in SUBSET Nat /\ Members' = Members
      /\ \A k \in Members \ {0} : Up(k) # k /\ From(k) # k
  BY TeamFacts DEF BarrierInv, ResetGo, Members
<1>2. /\ WakeOrder(team, t) \in Seq(Nat)
      /\ {WakeOrder(team, t)[i] : i \in 1 .. Len(WakeOrder(team, t))} = S
      /\ \A i, j \in 1 .. Len(WakeOrder(team, t)) :
            WakeOrder(team, t)[i] = WakeOrder(team, t)[j] => i = j
  <2>1. Lists(WakeOrder(team, t), S)
    BY <1>1, TeamFacts
  <2> QED
    BY <1>1, <2>1, Listed
<1>3. /\ stage[t] = "reset" /\ t # 0 /\ Errand(t) /\ Round(t) /\ Arrival(t) /\ GoFlag(t)
      /\ entered[t] = team_arrived /\ team_arrived \in Nat
  BY <1>1 DEF ResetGo, Flow, Round, Typed
<1>4. ~Ahead(t) /\ Freed(t)
  BY <1>3 DEF GoFlag, Ahead, Told
<1>5. /\ stage'[t] = "wake" /\ sub'[t] = "add" /\ todo'[t] = WakeOrder(team, t)
      /\ UNCHANGED <<team, team_arrived, new_state, data, entered, passed>>
      /\ \A u \in Members \ {t} : Same(u)
  BY <1>1 DEF ResetGo, Go, Typed, Same
<1>6. /\ flag' \in [D -> [n : Nat, sleep : BOOLEAN]]
      /\ flag'[<<"go", t>>].n = 0
      /\ \A f \in D : f # <<"go", t>> => flag'[f] = flag[f]
  <2>1. Off \in [n : Nat, sleep : BOOLEAN] /\ Off.n = 0
    BY DEF Off
  <2>2. flag \in [D -> [n : Nat, sleep : BOOLEAN]] /\ <<"go", t>> \in D
    BY <1>1 DEF Typed
  <2>3. flag' = [flag EXCEPT ![<<"go", t>>] = Off]
    BY DEF ResetGo, GoCleared
  <2> HIDE DEF D
  <2> QED
    BY <2>1, <2>2, <2>3
<1>7. Typed'
  <2>1. /\ stage' \in [Everyone -> {"out", "gather", "notify", "await", "reset", "wake"}]
        /\ sub' \in [Everyone -> Spinning \cup Releasing]
        /\ todo' \in [Everyone -> Seq(Nat)]
    BY <1>1, <1>2, GoTyped DEF ResetGo, Releasing
  <2> QED
    BY <1>1, <1>5, <1>6, <2>1 DEF Typed
<1>8. \A u : (Ahead(u)' <=> Ahead(u)) /\ From(u)' = From(u)
  BY <1>5 DEF Ahead, From
<1>9. ToDo(t)' = S
  BY <1>2, <1>5 DEF ToDo
<1>10. Freed(t)'
  BY <1>1, <1>3, <1>4, <1>5, Frame
<1>11. \A k \in Members \ {0, t} : From(k) = t => ~Freed(k) /\ ~Freed(k)'
  BY <1>3, <1>4, <1>5, <1>8, <1>9 DEF Freed
<1>12. \A k \in Members : SameFlag(<<"arrived", k>>) /\ (k # t => SameFlag(<<"go", k>>))
  BY <1>1, <1>6 DEF SameFlag
<1>13. Errand(t)'
  BY <1>1, <1>2, <1>5, <1>8, <1>9 DEF Errand, Releasing
<1>14. Round(t)' /\ Arrival(t)' /\ GoFlag(t)'
  BY <1>3, <1>4, <1>5, <1>6, <1>8, <1>10, <1>12 DEF Round, Arrival, GoFlag, SameFlag
<1>15. ~Taken(t)
  BY <1>1, <1>3, <1>4 DEF Flow
<1> QED
  BY <1>3, <1>5, <1>7, <1>11, <1>12, <1>13, <1>14, <1>15, Later

\* All children are released when the thread goes on.
LEMMA LeaveKeeps ==
    ASSUME BarrierInv, NEW t \in Members, LeaveBarrier(t)
    PROVE  BarrierInv'
<1>1. /\ Typed /\ Flow /\ t \in Everyone /\ t \in Int /\ Members \subseteq Everyone
      /\ \A k \in Members \ {0} : Up(k) # k /\ From(k) # k
  BY TeamFacts DEF BarrierInv
<1>2. /\ stage[t] = "wake" /\ todo[t] = <<>> /\ Errand(t) /\ Round(t)
      /\ t # 0 => Arrival(t) /\ GoFlag(t)
      /\ entered[t] = team_arrived /\ team_arrived \in Nat /\ entered[t] = passed[t] + 1
      /\ passed[t] \in Nat
  BY <1>1 DEF LeaveBarrier, Flow, Round, Typed
<1>3. ~Ahead(t) /\ ToDo(t) = {}
  BY <1>2 DEF Ahead, ToDo
<1>4. /\ stage'[t] = "out" /\ sub'[t] = "spin" /\ todo'[t] = <<>> /\ passed'[t] = passed[t] + 1
      /\ UNCHANGED <<team, flag, team_arrived, new_state, data, entered>>
      /\ \A u \in Members \ {t} : Same(u)
  BY <1>1 DEF LeaveBarrier, Go, Typed, Same
<1>5. Typed'
  <2>1. <<>> \in Seq(Nat)
    OBVIOUS
  <2>2. /\ stage' \in [Everyone -> {"out", "gather", "notify", "await", "reset", "wake"}]
        /\ sub' \in [Everyone -> Spinning \cup Releasing]
        /\ todo' \in [Everyone -> Seq(Nat)]
    BY <1>1, <2>1, GoTyped DEF LeaveBarrier, Spinning
  <2>3. passed' \in [Everyone -> Nat]
    BY <1>1, <1>2 DEF LeaveBarrier, Typed
  <2> QED
    BY <1>1, <1>4, <2>2, <2>3 DEF Typed
<1>6. \A u : (Ahead(u)' <=> Ahead(u)) /\ From(u)' = From(u)
  BY <1>4 DEF Ahead, From
<1>7. t # 0 => (Freed(t)' <=> Freed(t))
  BY <1>1, <1>4, Frame
<1>8. \A k \in Members \ {0, t} : From(k) = t => Freed(k) /\ Freed(k)'
  BY <1>2, <1>3, <1>4, <1>6 DEF Freed
<1>9. Errand(t)'
  BY <1>4 DEF Errand, ToDo, Spinning
<1>10. Round(t)'
  BY <1>2, <1>4, <1>6 DEF Round
<1>11. t # 0 => Arrival(t)' /\ GoFlag(t)' /\ ~Taken(t)
  BY <1>1, <1>2, <1>3, <1>4, <1>6, <1>7 DEF Flow, Arrival, GoFlag, Told
<1>12. \A f : SameFlag(f)
  BY <1>4 DEF SameFlag
<1> QED
  BY <1>2, <1>4, <1>5, <1>8, <1>9, <1>10, <1>11, <1>12, Later

\* b_arrived is counted up: the parent may gather the thread from now on.
LEMMA TellKeeps ==
    ASSUME BarrierInv, NEW t \in Members, Bump(t), stage[t] = "notify"
    PROVE  BarrierInv'
<1> DEFINE D == {"arrived", "go"} \X Everyone
<1>1. /\ Typed /\ Flow /\ t \in Everyone /\ t \in Int /\ Members \subseteq Everyone
      /\ \A k \in Members \ {0} : Up(k) # k /\ From(k) # k
  BY TeamFacts DEF BarrierInv
<1>2. /\ sub[t] = "add" /\ t # 0 /\ Errand(t) /\ Round(t) /\ Arrival(t) /\ GoFlag(t)
      /\ Ahead(t)
  BY <1>1 DEF Bump, Flow, Round
<1>3. /\ flag' \in [D -> [n : Nat, sleep : BOOLEAN]] /\ <<"arrived", t>> \in D
      /\ \A f \in D : flag'[f].n = IF f = <<"arrived", t>> THEN flag[f].n + 1 ELSE flag[f].n
  <2>1. <<"arrived", t>> \in D /\ flag' = [flag EXCEPT ![<<"arrived", t>>].n = @ + 1]
    BY <1>1 DEF Bump, OwnFlag
  <2> QED
    BY <1>1, <2>1, BumpTyped
<1>4. /\ sub'[t] = "look" /\ stage' = stage /\ todo' = todo
      /\ UNCHANGED <<team, team_arrived, new_state, data, entered, passed>>
      /\ \A u \in Members \ {t} : Same(u)
  BY <1>1 DEF Bump, Stay, Typed, Same
<1>5. Typed'
  <2>1. sub' \in [Everyone -> Spinning \cup Releasing]
    BY <1>1 DEF Bump, Stay, Typed, Releasing
  <2> QED
    BY <1>1, <1>3, <1>4, <2>1 DEF Typed
<1>6. \A u : (Ahead(u)' <=> Ahead(u)) /\ From(u)' = From(u) /\ Up(u)' = Up(u) /\ ToDo(u)' = ToDo(u)
  BY <1>4 DEF Ahead, From, Up, ToDo
<1>7. Freed(t)' <=> Freed(t)
  BY <1>1, <1>2, <1>4, Frame
<1>8. \A k \in Members \ {0, t} : From(k) = t => Freed(k) /\ Freed(k)'
  BY <1>2, <1>6 DEF Freed
<1>9. Errand(t)'
  <2>1. Members' = Members
    BY <1>4 DEF Members
  <2> QED
    BY <1>2, <1>4, <1>6, <2>1 DEF Errand, Releasing
<1>10. \A k \in Members : /\ <<"arrived", k>> \in D /\ <<"go", k>> \in D
                          /\ k # t => SameFlag(<<"arrived", k>>)
                          /\ SameFlag(<<"go", k>>)
  BY <1>1, <1>3 DEF SameFlag
<1>11. flag[<<"arrived", t>>].n \in Nat /\ entered[t] \in Nat
  BY <1>1, <1>3 DEF Typed
<1>12. Round(t)' /\ Arrival(t)' /\ GoFlag(t)'
  <2>1. Round(t)'
    BY <1>2, <1>4, <1>6 DEF Round
  <2>2. Arrival(t)'
    BY <1>2, <1>3, <1>4, <1>11 DEF Arrival
  <2>3. GoFlag(t)'
    BY <1>2, <1>6, <1>7, <1>10 DEF GoFlag, SameFlag
  <2> QED
    BY <2>1, <2>2, <2>3
<1>13. Ahead(t)' /\ Told(t)'
  BY <1>2, <1>4, <1>6 DEF Told
<1> QED
  BY <1>2, <1>4, <1>5, <1>8, <1>9, <1>10, <1>12, <1>13, Later

\* b_go of the next child is counted up.
LEMMA FreeKeeps ==
    ASSUME BarrierInv, NEW t \in Members, Bump(t), stage[t] = "wake"
    PROVE  BarrierInv'
<1> DEFINE D == {"arrived", "go"} \X Everyone
<1>1. /\ Typed /\ Flow /\ t \in Everyone /\ t \in Int /\ Members \subseteq Everyone
      /\ \A k \in Members \ {0} : Up(k) # k /\ From(k) # k
  BY TeamFacts DEF BarrierInv
<1>2. /\ sub[t] = "add" /\ todo[t] # <<>> /\ todo[t] \in Seq(Nat) /\ Errand(t) /\ Round(t)
      /\ entered[t] = team_arrived /\ team_arrived \in Nat
      /\ t # 0 => Arrival(t) /\ GoFlag(t)
  BY <1>1 DEF Bump, Releases, Flow, Round, Typed
<1>3. PICK h \in Members \ {0} : h = Head(todo[t]) /\ h \in ToDo(t) /\ From(h) = t /\ h # t
  <2>1. Head(todo[t]) \in ToDo(t)
    BY <1>2, NextChild
  <2> QED
    BY <1>1, <1>2, <2>1 DEF Errand
<1>4. /\ flag' \in [D -> [n : Nat, sleep : BOOLEAN]]
      /\ \A f \in D : flag'[f].n = IF f = <<"go", h>> THEN flag[f].n + 1 ELSE flag[f].n
  <2>1. <<"go", h>> \in D /\ flag' = [flag EXCEPT ![<<"go", h>>].n = @ + 1]
    BY <1>1, <1>3 DEF Bump, OwnFlag
  <2> QED
    BY <1>1, <2>1, BumpTyped
<1>5. /\ sub'[t] = "look" /\ stage' = stage /\ todo' = todo
      /\ UNCHANGED <<team, team_arrived, new_state, data, entered, passed>>
      /\ \A u \in Members \ {t} : Same(u)
  BY <1>1 DEF Bump, Stay, Typed, Same
<1>6. Typed'
  <2>1. sub' \in [Everyone -> Spinning \cup Releasing]
    BY <1>1 DEF Bump, Stay, Typed, Releasing
  <2> QED
    BY <1>1, <1>4, <1>5, <2>1 DEF Typed
<1>7. /\ \A u : /\ (Ahead(u)' <=> Ahead(u)) /\ From(u)' = From(u) /\ Up(u)' = Up(u)
                /\ ToDo(u)' = ToDo(u)
      /\ ~Ahead(t) /\ Members' = Members
  BY <1>2, <1>5 DEF Ahead, From, Up, ToDo, Members
<1>8. /\ \A k \in Members : k # h => SameFlag(<<"go", k>>)
      /\ \A k \in Members : SameFlag(<<"arrived", k>>)
      /\ flag'[<<"go", h>>].n = flag[<<"go", h>>].n + 1
  BY <1>1, <1>3, <1>4 DEF SameFlag
<1>9. GoFlag(h)'
  <2>1. ~Freed(h) /\ Freed(h)' /\ GoFlag(h)
    BY <1>1, <1>2, <1>3, <1>5, <1>7 DEF Freed, Flow
  <2>2. flag[<<"go", h>>].n = 0 /\ ~Ahead(h) /\ Told(h)
    BY <2>1 DEF GoFlag
  <2>3. Same(h)
    BY <1>3, <1>5
  <2>4. Told(h)'
    BY <2>2, <2>3 DEF Told, Same
  <2>5. flag'[<<"go", h>>].n = 1
    BY <1>8, <2>2
  <2> QED
    BY <1>7, <2>1, <2>2, <2>4, <2>5 DEF GoFlag
<1>10. \A k \in Members \ {0, t} : From(k) = t /\ k # h => (Freed(k)' <=> Freed(k))
  BY <1>2, <1>3, <1>5, <1>7 DEF Freed
<1>11. Errand(t)'
  BY <1>2, <1>5, <1>7 DEF Errand, Releasing
<1>12. Round(t)'
  BY <1>2, <1>5, <1>7 DEF Round
<1>13. t # 0 => Arrival(t)' /\ GoFlag(t)' /\ ~Taken(t)
  <2>1. ASSUME t # 0 PROVE Freed(t)' <=> Freed(t)
    BY <1>1, <1>5, <2>1, Frame
  <2>2. SameFlag(<<"go", t>>) /\ SameFlag(<<"arrived", t>>)
    BY <1>3, <1>8
  <2> QED
    BY <1>1, <1>2, <1>5, <1>7, <2>1, <2>2 DEF Flow, Arrival, GoFlag, Told, SameFlag
<1>14. \A k \in Members \ {0, t} : SameFlag(<<"go", k>>) \/ From(k) = t
  BY <1>3, <1>8
<1>15. \A k \in Members \ {0, t} : From(k) = t =>
           GoFlag(k)' \/ (SameFlag(<<"go", k>>) /\ (Freed(k)' <=> Freed(k)))
  <2> SUFFICES ASSUME NEW k \in Members \ {0, t}, From(k) = t
               PROVE  GoFlag(k)' \/ (SameFlag(<<"go", k>>) /\ (Freed(k)' <=> Freed(k)))
    OBVIOUS
  <2>1. k = h => GoFlag(k)'
    BY <1>9
  <2>2. k # h => SameFlag(<<"go", k>>) /\ (Freed(k)' <=> Freed(k))
    BY <1>8, <1>10
  <2> QED
    BY <2>1, <2>2
<1>16. stage[t] # "gather" /\ stage'[t] # "gather" /\ (t = 0 /\ stage'[0] = "wake" => stage[0] = "wake")
  BY <1>5
<1>17. \A k \in Members \ {0, t} : SameFlag(<<"arrived", k>>)
  BY <1>8
<1> HIDE DEF D
<1> QED
  BY <1>5, <1>6, <1>11, <1>12, <1>13, <1>14, <1>15, <1>16, <1>17, Later

\* A release is over, whether or not the waiter had to be woken.
LEMMA DoneKeeps ==
    ASSUME BarrierInv, NEW t \in Members, Typed', sub[t] \in {"look", "resume"},
           \A u \in Members \ {t} : Same(u), \A k \in Members : SameFlag(<<"go", k>>),
           \A k \in Members : SameFlag(<<"arrived", k>>),
           UNCHANGED <<team, team_arrived, new_state, data, entered, passed>>,
           IF stage[t] = "notify"
           THEN stage'[t] = "await" /\ sub'[t] = "spin" /\ todo'[t] \in {<<>>, todo[t]}
           ELSE stage'[t] = stage[t] /\ sub'[t] = "add" /\ todo'[t] = Tail(todo[t])
    PROVE  BarrierInv'
<1>1. /\ Typed /\ Flow /\ t \in Everyone /\ t \in Int /\ Members \subseteq Everyone
      /\ Members' = Members /\ todo[t] \in Seq(Nat)
      /\ \A k \in Members \ {0} : Up(k) # k /\ From(k) # k
  <2>1. Typed /\ Flow
    BY DEF BarrierInv
  <2>2. Members' = Members
    BY DEF Members
  <2>3. /\ t \in Everyone /\ t \in Int /\ Members \subseteq Everyone
        /\ \A k \in Members \ {0} : Up(k) # k /\ From(k) # k
    BY <2>1, TeamFacts
  <2>4. todo[t] \in Seq(Nat)
    BY <2>1, <2>3 DEF Typed
  <2> QED
    BY <2>1, <2>2, <2>3, <2>4
<1>2. /\ stage[t] \in {"notify", "wake"} /\ Errand(t) /\ Round(t)
      /\ t # 0 => Arrival(t) /\ GoFlag(t)
      /\ stage[t] = "wake" => todo[t] # <<>>
  BY <1>1 DEF Flow, Errand, Spinning
<1>3. \A u : (Ahead(u)' <=> Ahead(u)) /\ From(u)' = From(u) /\ Up(u)' = Up(u)
  BY DEF Ahead, From, Up
<1>4. t # 0 => (Freed(t)' <=> Freed(t))
  BY <1>1, Frame
<1>5. CASE stage[t] = "notify"
  <2>1. t # 0 /\ Told(t) /\ Told(t)' /\ stage'[t] = "await" /\ sub'[t] = "spin"
        /\ todo'[t] \in {<<>>, todo[t]}
    BY <1>2, <1>5 DEF Round, Told
  <2>2. ToDo(t)' \subseteq Members \ {0} /\ \A i, j \in 1 .. Len(todo'[t]) : todo'[t][i] = todo'[t][j] => i = j
    <3>1. CASE todo'[t] = todo[t]
      BY <1>2, <3>1 DEF Errand, ToDo
    <3>2. CASE todo'[t] = <<>>
      <4>1. Len(todo'[t]) = 0
        BY <3>2
      <4> QED
        BY <4>1 DEF ToDo
    <3> QED
      BY <2>1, <3>1, <3>2
  <2>3. Errand(t)'
    BY <1>1, <2>1, <2>2 DEF Errand, Spinning
  <2>4. Round(t)'
    BY <1>2, <1>3, <1>5, <2>1 DEF Round
  <2>5. Arrival(t)'
    BY <1>2, <1>5, <2>1 DEF Arrival, SameFlag
  <2>6. GoFlag(t)'
    BY <1>2, <1>3, <1>4, <1>5, <2>1 DEF GoFlag, SameFlag
  <2>7. \A k \in Members \ {0, t} : From(k) = t => (Freed(k)' <=> Freed(k))
    BY <1>3, <1>5, <2>1 DEF Freed
  <2>8. t # 0 /\ Taken(t) => Ahead(t)' /\ Told(t)'
    BY <1>1, <1>3, <2>1 DEF Flow
  <2> QED
    BY <1>5, <2>1, <2>3, <2>4, <2>5, <2>6, <2>7, <2>8, Later
<1>6. CASE stage[t] = "wake"
  <2> DEFINE h == Head(todo[t])
  <2>1. /\ stage'[t] = "wake" /\ sub'[t] = "add" /\ todo'[t] = Tail(todo[t]) /\ todo[t] # <<>>
    BY <1>2, <1>6
  <2>2. /\ h \in ToDo(t) /\ ToDo(t)' = ToDo(t) \ {h}
        /\ \A i, j \in 1 .. Len(todo'[t]) : todo'[t][i] = todo'[t][j] => i = j
    <3>1. /\ h \in ToDo(t)
          /\ {Tail(todo[t])[i] : i \in 1 .. Len(Tail(todo[t]))} = ToDo(t) \ {h}
          /\ \A i, j \in 1 .. Len(Tail(todo[t])) : Tail(todo[t])[i] = Tail(todo[t])[j] => i = j
      BY <1>1, <1>2, <2>1, NextChild
    <3>2. ToDo(t)' = {Tail(todo[t])[i] : i \in 1 .. Len(Tail(todo[t]))}
      BY <2>1 DEF ToDo
    <3> QED
      BY <2>1, <3>1, <3>2
  <2>3. Errand(t)'
    BY <1>1, <1>2, <1>3, <1>6, <2>1, <2>2 DEF Errand, Releasing
  <2>4. Round(t)'
    BY <1>2, <1>3, <1>6, <2>1 DEF Round
  <2>5. t # 0 => Arrival(t)' /\ GoFlag(t)' /\ ~Taken(t)
    BY <1>1, <1>2, <1>3, <1>4, <1>6, <2>1 DEF Flow, Arrival, GoFlag, Told, SameFlag
  <2>6. \A k \in Members \ {0, t} : From(k) = t => (Freed(k)' <=> Freed(k))
    BY <1>3, <1>6, <2>1, <2>2 DEF Freed
  <2>7. stage'[t] # "gather" /\ (t = 0 /\ stage'[0] = "wake" => stage[0] = "wake")
    BY <1>6, <2>1
  <2> QED
    BY <1>6, <2>3, <2>4, <2>5, <2>6, <2>7, Later
<1> QED
  BY <1>2, <1>5, <1>6

LEMMA LookKeeps ==
    ASSUME BarrierInv, NEW t \in Members, Look(t)
    PROVE  BarrierInv'
<1>1. /\ Typed /\ Flow /\ t \in Everyone /\ Members \subseteq Everyone /\ sub[t] = "look"
      /\ UNCHANGED <<team, flag, team_arrived, new_state, data, entered, passed>>
  BY TeamFacts DEF BarrierInv, Look
<1>2. \A f : SameFlag(f)
  BY <1>1 DEF SameFlag
<1>3. CASE AnySleeping(t)
  <2>1. sub' = [sub EXCEPT ![t] = "resume"] /\ UNCHANGED <<stage, todo>>
    BY <1>3 DEF Look, Stay
  <2>2. Typed'
    BY <1>1, <2>1 DEF Typed, Releasing
  <2>3. \A u \in Members : Same(u)
    BY <1>1, <2>1 DEF Typed, Same, Spinning, Releasing
  <2> QED
    BY <1>1, <1>2, <2>1, <2>2, <2>3, Quiet
<1>4. CASE ~AnySleeping(t)
  <2>1. ReleaseDone(t)
    BY <1>4 DEF Look
  <2>2. stage[t] \in {"notify", "wake"} /\ todo[t] \in Seq(Nat) /\ (stage[t] = "wake" => todo[t] # <<>>)
    BY <1>1 DEF Flow, Errand, Spinning, Typed
  <2>3. <<>> \in Seq(Nat) /\ (stage[t] = "wake" => Tail(todo[t]) \in Seq(Nat))
    BY <2>2
  <2>4. Typed'
    <3>1. /\ stage' \in [Everyone -> {"out", "gather", "notify", "await", "reset", "wake"}]
          /\ sub' \in [Everyone -> Spinning \cup Releasing]
          /\ todo' \in [Everyone -> Seq(Nat)]
      <4>1. CASE stage[t] = "notify"
        BY <1>1, <2>1, <2>3, <4>1, GoTyped DEF ReleaseDone, Spinning
      <4>2. CASE stage[t] = "wake"
        BY <1>1, <2>1, <2>3, <4>2, GoTyped DEF ReleaseDone, Releasing
      <4> QED
        BY <2>2, <4>1, <4>2
    <3> QED
      BY <1>1, <3>1 DEF Typed
  <2>5. \A u \in Members \ {t} : Same(u)
    BY <1>1, <2>1 DEF ReleaseDone, Go, Typed, Same
  <2>6. IF stage[t] = "notify"
        THEN stage'[t] = "await" /\ sub'[t] = "spin" /\ todo'[t] \in {<<>>, todo[t]}
        ELSE stage'[t] = stage[t] /\ sub'[t] = "add" /\ todo'[t] = Tail(todo[t])
    BY <1>1, <2>1, <2>2 DEF ReleaseDone, Go, Typed
  <2> QED
    BY <1>1, <1>2, <2>4, <2>5, <2>6, DoneKeeps
<1> QED
  BY <1>3, <1>4

LEMMA ResumeKeeps ==
    ASSUME BarrierInv, NEW t \in Members, Resume(t)
    PROVE  BarrierInv'
<1> DEFINE w == Waiter(t)
           after == IF stage[t] = "notify" THEN "spin" ELSE "add"
           slept == flag[OwnFlag(t)].sleep /\ sub[w] = "asleep"
           now == IF slept THEN "signalled" ELSE sub[w]
<1>1. /\ Typed /\ Flow /\ t \in Everyone /\ Members \subseteq Everyone /\ sub[t] = "resume"
      /\ \A k \in Members \ {0} : Up(k) \in Members /\ Up(k) # k /\ From(k) # k
      /\ UNCHANGED <<team, team_arrived, new_state, data, entered, passed>>
  BY TeamFacts DEF BarrierInv, Resume
<1>2. stage[t] \in {"notify", "wake"} /\ todo[t] \in Seq(Nat) /\ (stage[t] = "wake" => todo[t] # <<>>)
  BY <1>1 DEF Flow, Errand, Spinning, Typed
<1>3. w \in Members /\ w # t
  <2>1. CASE stage[t] = "notify"
    <3>1. t # 0
      BY <1>1, <2>1 DEF Flow, Round
    <3> QED
      BY <1>1, <2>1, <3>1 DEF Waiter, Up
  <2>2. CASE stage[t] = "wake"
    <3>1. Head(todo[t]) \in ToDo(t)
      BY <1>1, <1>2, <2>2, NextChild DEF Flow
    <3> QED
      BY <1>1, <2>2, <3>1 DEF Waiter, Flow, Errand
  <2> QED
    BY <1>2, <2>1, <2>2
<1>4. /\ flag' = Put(OwnFlag(t), FALSE)
      /\ sub' = [sub EXCEPT ![t] = after, ![w] = IF slept THEN "signalled" ELSE @]
      /\ stage' = [stage EXCEPT ![t] = IF @ = "notify" THEN "await" ELSE @]
      /\ todo' = [todo EXCEPT ![t] = IF stage[t] = "notify" THEN @ ELSE Tail(@)]
  BY DEF Resume, Put
<1>5. /\ flag' \in [{"arrived", "go"} \X Everyone -> [n : Nat, sleep : BOOLEAN]]
      /\ \A f \in {"arrived", "go"} \X Everyone : SameFlag(f)
  BY <1>1, <1>4, FlagTyped DEF SameFlag
<1>6. /\ sub \in [Everyone -> Spinning \cup Releasing] /\ sub[w] \in Spinning \cup Releasing
      /\ now \in Spinning \cup Releasing /\ after \in Spinning \cup Releasing
      /\ now = sub[w] \/ (sub[w] = "asleep" /\ now = "signalled")
      /\ w \in Everyone
  BY <1>1, <1>3 DEF Typed, Spinning, Releasing
<1>7. /\ sub' \in [Everyone -> Spinning \cup Releasing] /\ sub'[t] = after /\ sub'[w] = now
      /\ \A u \in Everyone \ {t, w} : sub'[u] = sub[u]
  <2> HIDE DEF w, after, slept
  <2> QED
    BY <1>1, <1>3, <1>4, <1>6
<1>8. /\ stage' \in [Everyone -> {"out", "gather", "notify", "await", "reset", "wake"}]
      /\ todo' \in [Everyone -> Seq(Nat)]
      /\ \A u \in Everyone \ {t} : stage'[u] = stage[u] /\ todo'[u] = todo[u]
      /\ IF stage[t] = "notify" THEN stage'[t] = "await" /\ todo'[t] = todo[t]
                                ELSE stage'[t] = stage[t] /\ todo'[t] = Tail(todo[t])
  <2>1. stage[t] = "wake" => Tail(todo[t]) \in Seq(Nat)
    BY <1>2
  <2> QED
    BY <1>1, <1>2, <1>4, <2>1 DEF Typed
<1>9. Typed'
  BY <1>1, <1>5, <1>7, <1>8 DEF Typed
<1>10. \A u \in Members \ {t} : Same(u)
  <2>1. now = sub[w] \/ (sub[w] = "asleep" /\ now = "signalled")
    BY <1>6
  <2>2. \A u \in Members \ {t} : sub'[u] = sub[u] \/ (sub[u] = "asleep" /\ sub'[u] = "signalled")
    BY <1>1, <1>7, <2>1
  <2> QED
    BY <1>1, <1>8, <2>2 DEF Same, Spinning, Releasing
<1>11. \A k \in Members : SameFlag(<<"go", k>>) /\ SameFlag(<<"arrived", k>>)
  BY <1>1, <1>5
<1>12. IF stage[t] = "notify"
       THEN stage'[t] = "await" /\ sub'[t] = "spin" /\ todo'[t] \in {<<>>, todo[t]}
       ELSE stage'[t] = stage[t] /\ sub'[t] = "add" /\ todo'[t] = Tail(todo[t])
  BY <1>7, <1>8
<1> QED
  BY <1>1, <1>9, <1>10, <1>11, <1>12, DoneKeeps
---------------------------------------------------------------------------
(* The invariant, and what follows from it.                                *)

LEMMA BarrierInvInit == BarrierInit => BarrierInv
<1> SUFFICES ASSUME BarrierInit PROVE BarrierInv
  OBVIOUS
<1>1. Typed
  BY TypedInit
<1>2. /\ 0 \in Members /\ Members \subseteq Everyone
      /\ \A k \in Members \ {0} : Up(k) \in Members /\ From(k) \in Members
  BY <1>1, TeamFacts
<1>3. /\ \A u \in Members : /\ stage[u] = "out" /\ sub[u] = "spin" /\ todo[u] = <<>>
                            /\ entered[u] = 0 /\ passed[u] = 0
      /\ team_arrived = 0
  BY <1>2 DEF BarrierInit
<1>4. ASSUME NEW u \in Members PROVE ~Ahead(u) /\ ToDo(u) = {} /\ Len(todo[u]) = 0
  <2>1. Len(todo[u]) = 0
    BY <1>3
  <2>2. ToDo(u) = {}
    BY <2>1 DEF ToDo
  <2>3. ~Ahead(u)
    BY <1>3 DEF Ahead
  <2> QED
    BY <2>1, <2>2, <2>3
<1>5. ASSUME NEW u \in Members PROVE Errand(u)
  <2>1. /\ stage[u] = "out" /\ sub[u] = "spin"
    BY <1>3
  <2> QED
    BY <1>4, <2>1 DEF Errand, Spinning
<1>6. \A u \in Members : Round(u)
  BY <1>3, <1>4 DEF Round
<1>7. \A k \in Members \ {0} : Arrival(k) /\ GoFlag(k) /\ ~Taken(k)
  <2>1. \A k \in Members \ {0} : flag[<<"arrived", k>>].n = 0 /\ flag[<<"go", k>>].n = 0
    <3>1. Off.n = 0
      BY DEF Off
    <3>2. \A k \in Members : flag[<<"arrived", k>>] = Off /\ flag[<<"go", k>>] = Off
      BY <1>2 DEF BarrierInit
    <3> QED
      BY <3>1, <3>2
  <2>2. \A k \in Members \ {0} : Freed(k) /\ ~Taken(k)
    BY <1>2, <1>3, <1>4 DEF Freed, Taken
  <2> QED
    BY <1>3, <2>1, <2>2 DEF Arrival, GoFlag
<1>8. Flow
  BY <1>5, <1>6, <1>7 DEF Flow
<1>9. Shares
  BY <1>2, <1>4 DEF Shares, OwnShares, NoneLost, NoneTwice, Live
<1>10. ReductionComplete
  BY <1>2, <1>3 DEF ReductionComplete
<1> QED
  BY <1>1, <1>8, <1>9, <1>10 DEF BarrierInv

LEMMA BarrierStutter == BarrierInv /\ UNCHANGED barrierVars => BarrierInv'
<1> SUFFICES ASSUME BarrierInv, UNCHANGED barrierVars PROVE BarrierInv'
  OBVIOUS
<1>1. Typed'
  BY DEF BarrierInv, Typed, barrierVars, flow
<1>2. /\ \A u \in Members : Same(u)
      /\ \A f \in {"arrived", "go"} \X Everyone : SameFlag(f)
  BY DEF barrierVars, flow, Same, SameFlag
<1> QED
  BY <1>1, <1>2, Quiet DEF barrierVars, flow

LEMMA BarrierInvNext == BarrierInv /\ [BarrierNext]_barrierVars => BarrierInv'
<1> SUFFICES ASSUME BarrierInv, [BarrierNext]_barrierVars PROVE BarrierInv'
  OBVIOUS
<1>1. CASE UNCHANGED barrierVars
  BY <1>1, BarrierStutter
<1>2. ASSUME NEW t \in Members, Step(t) \/ TimeOut(t) \/ Spurious(t) PROVE BarrierInv'
  <2>1. CASE AllGathered(t)
    BY <2>1, NotifyKeeps, CompleteKeeps
  <2>2. CASE Bump(t)
    <3>1. stage[t] \in {"notify", "wake"}
      BY <2>2 DEF Bump, Releases
    <3> QED
      BY <2>2, <3>1, TellKeeps, FreeKeeps
  <2> QED
    BY <1>2, <2>1, <2>2, EnterKeeps, GatheredKeeps, AwakeKeeps, ResetKeeps, LeaveKeeps,
       WaitingSteps, LookKeeps, ResumeKeeps DEF Step
<1> QED
  BY <1>1, <1>2 DEF BarrierNext, Finish

THEOREM BarrierInvariance == BarrierSpec => []BarrierInv
<1> QED
  BY BarrierInvInit, BarrierInvNext, PTL DEF BarrierSpec

\* When the master releases the team, the reduction holds the share of every thread
\* exactly once, for all teams, trees, sleepers and numbers of barriers.
THEOREM BarrierReduction == BarrierSpec => []ReductionComplete
<1>1. BarrierInv => ReductionComplete
  BY DEF BarrierInv
<1> QED
  BY <1>1, BarrierInvariance, PTL

\* Every step of a barrier is one its promise allows, or none of its business.
LEMMA PromiseStep ==
    ASSUME BarrierInv, [BarrierNext]_barrierVars
    PROVE  [Meeting!Next]_<<Members, entered, passed>>
<1>1. CASE UNCHANGED barrierVars
  BY <1>1 DEF barrierVars, flow, Members
<1>2. ASSUME NEW t \in Members, Step(t) \/ TimeOut(t) \/ Spurious(t)
      PROVE  [Meeting!Next]_<<Members, entered, passed>>
  <2>1. team' = team /\ Members' = Members
    BY <1>2 DEF Step, EnterBarrier, Gathered, AllGathered, Awake, ResetGo, LeaveBarrier,
       SetSleeping, FalseAlarm, CondWait, Relock, Bump, Look, Resume, TimeOut, Spurious, Members
  <2>2. CASE EnterBarrier(t)
    <3>1. entered[t] = passed[t]
      BY <2>2 DEF EnterBarrier, BarrierInv, Flow, Round
    <3>2. Meeting!Enter(t)
      BY <2>1, <2>2, <3>1 DEF EnterBarrier, Meeting!Enter
    <3> QED
      BY <3>2 DEF Meeting!Next
  <2>3. CASE LeaveBarrier(t)
    <3>1. /\ Round(t) /\ stage[t] = "wake" /\ team_arrived \in Nat /\ passed[t] \in Nat
          /\ t \in Everyone
      BY <2>3, TeamFacts DEF LeaveBarrier, BarrierInv, Flow, Typed
    <3>2. entered[t] = team_arrived /\ entered[t] = passed[t] + 1
      BY <3>1 DEF Round
    <3>3. \A u \in Members : entered[u] >= team_arrived
      BY <3>1 DEF BarrierInv, Flow, Round, Ahead
    <3>4. Meeting!Pass(t)
      BY <2>1, <2>3, <3>1, <3>2, <3>3 DEF LeaveBarrier, Meeting!Pass
    <3> QED
      BY <3>4 DEF Meeting!Next
  <2>4. CASE ~EnterBarrier(t) /\ ~LeaveBarrier(t)
    BY <1>2, <2>1, <2>4 DEF Step, Gathered, AllGathered, Awake, ResetGo,
       SetSleeping, FalseAlarm, CondWait, Relock, Bump, Look, Resume, TimeOut, Spurious
  <2> QED
    BY <2>2, <2>3, <2>4
<1> QED
  BY <1>1, <1>2 DEF BarrierNext, Finish

\* Nobody leaves a barrier before all have come to it.
THEOREM BarrierRefinement == BarrierSpec => ImplementsBarrier
<1>1. BarrierInit => Meeting!Init
  BY BarrierInvInit, TeamFacts DEF BarrierInit, Meeting!Init, BarrierInv
<1>2. BarrierInv /\ [BarrierNext]_barrierVars => [Meeting!Next]_<<Members, entered, passed>>
  BY PromiseStep
<1> QED
  BY <1>1, <1>2, BarrierInvariance, PTL DEF BarrierSpec, ImplementsBarrier, Meeting!Spec, Meeting!vars
=============================================================================
