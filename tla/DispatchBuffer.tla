-------------------------- MODULE DispatchBuffer --------------------------
(***************************************************************************)
(* The ring of shared dispatch buffers of a team (t_disp_buffer), used by  *)
(* __kmp_dispatch_init and __kmp_dispatch_next to run worksharing loops.   *)
(*                                                                         *)
(* Loop l of a parallel region uses slot l % NumBuffers.  A thread that    *)
(* meets the loop runs the schedule's own initialisation, waits until the  *)
(* slot carries the loop's number, and then takes chunks from it.  The     *)
(* last thread to find the loop exhausted clears the slot and renumbers it *)
(* for the loop NumBuffers further on.  Two schedules stand for the two    *)
(* ways of using a slot: "dynamic" (an atomic counter that needs no        *)
(* initialisation) and "fac" (a queue of equal chunks under a mutex, set   *)
(* up by whichever thread finds the flag `initialized' down).  Iterations  *)
(* are numbered from 0; "dynamic" hands out one at a time.                 *)
(***************************************************************************)
EXTENDS Integers, FiniteSets, FiniteSetsExt

CONSTANTS
    Threads,      \* the threads of the team
    NumBuffers,   \* KMP_DISP_NUM_BUFFERS
    NumLoops,     \* bound: the loops of one parallel region
    MaxRegions,   \* bound: the parallel regions the team executes
    Trip,         \* Trip[l]: iterations of loop l
    Kind,         \* Kind[l]: the schedule of loop l
    NoWait,       \* NoWait[l]: loop l is not followed by a barrier
    FacFirst,     \* FacFirst[n]: the chunk of FAC's first batch of n iterations
    FacSize,      \* FacSize[r]: the chunk of a later batch with r remaining
    MinChunk      \* the chunk argument of the schedule clause

Loops == 0 .. NumLoops - 1
Slots == 0 .. NumBuffers - 1
Iterations(l) == 0 .. Trip[l] - 1
Slot(l) == l % NumBuffers
NProc == Cardinality(Threads)

ASSUME ThreadsAssumption == IsFiniteSet(Threads) /\ NProc > 1
ASSUME RingAssumption == NumBuffers \in Nat \ {0} /\ NumLoops \in Nat \ {0}
ASSUME RegionAssumption == MaxRegions \in Nat \ {0}
ASSUME LoopAssumption ==
    /\ Trip \in [Loops -> Nat]
    /\ Kind \in [Loops -> {"dynamic", "fac"}]
    /\ NoWait \in [Loops -> BOOLEAN]
ASSUME ChunkAssumption ==
    /\ MinChunk \in Nat \ {0}
    /\ \A l \in Loops : \A r \in 1 .. Trip[l] : FacFirst[r] \in Nat /\ FacSize[r] \in Nat

VARIABLES
    pc,             \* where each thread is in init / next
    th_disp_index,  \* loops each thread has begun in this region
    buffer_index,   \* per slot: the loop that may use it
    num_done,       \* per slot: threads that found the loop exhausted
    iteration,      \* per slot: next iteration to hand out
    initialized,    \* per slot: the FAC set-up has been done
    mtx,            \* per slot: the mutex is held
    chunk_size,     \* per slot: size of the chunks in the FAC queue
    q_counter,      \* per slot: chunks left in the FAC queue
    region,         \* regions begun so far
    given           \* history: given[l][i] = times iteration i was handed out

slotVars == <<buffer_index, num_done, iteration, initialized, mtx, chunk_size, q_counter>>
vars == <<pc, th_disp_index, slotVars, region, given>>

Loop(t) == th_disp_index[t] - 1      \* my_buffer_index
Buf(t) == Slot(Loop(t))
Untouched == [l \in Loops |-> [i \in Iterations(l) |-> 0]]

Init ==
    /\ pc = [t \in Threads |-> "idle"]
    /\ th_disp_index = [t \in Threads |-> 0]
    /\ buffer_index = [b \in Slots |-> b]
    /\ num_done = [b \in Slots |-> 0]
    /\ iteration = [b \in Slots |-> 0]
    /\ initialized = [b \in Slots |-> FALSE]
    /\ mtx = [b \in Slots |-> FALSE]
    /\ chunk_size = [b \in Slots |-> 0]
    /\ q_counter = [b \in Slots |-> 0]
    /\ region = 1
    /\ given = Untouched
---------------------------------------------------------------------------
\* __kmp_dispatch_init.  The barrier at the end of a loop without nowait is
\* the guard: nobody begins the next loop before everybody left that one.
Enter(t) ==
    /\ pc[t] = "idle"
    /\ th_disp_index[t] < NumLoops
    /\ th_disp_index[t] > 0 /\ ~NoWait[Loop(t)] =>
          \A u \in Threads : /\ th_disp_index[u] >= th_disp_index[t]
                             /\ pc[u] = "idle" \/ th_disp_index[u] > th_disp_index[t]
    /\ th_disp_index' = [th_disp_index EXCEPT ![t] = @ + 1]
    /\ pc' = [pc EXCEPT ![t] = IF Kind[th_disp_index[t]] = "fac" THEN "lock" ELSE "wait"]
    /\ UNCHANGED <<slotVars, region, given>>

\* __kmp_dispatch_init_algorithm, case kmp_sch_fac: take the mutex and test.
FacTest(t) ==
    /\ pc[t] = "lock"
    /\ ~mtx[Buf(t)]
    /\ IF initialized[Buf(t)]
         THEN pc' = [pc EXCEPT ![t] = "wait"] /\ UNCHANGED mtx
         ELSE /\ pc' = [pc EXCEPT ![t] = "setup"]
              /\ mtx' = [mtx EXCEPT ![Buf(t)] = TRUE]
    /\ UNCHANGED <<th_disp_index, buffer_index, num_done, iteration, initialized,
                   chunk_size, q_counter, region, given>>

FacSetup(t) ==
    /\ pc[t] = "setup"
    /\ q_counter' = [q_counter EXCEPT ![Buf(t)] = NProc]
    /\ chunk_size' = [chunk_size EXCEPT ![Buf(t)] = 
                        IF Trip[Loop(t)] = 0 THEN 0 ELSE FacFirst[Trip[Loop(t)]]]
    /\ initialized' = [initialized EXCEPT ![Buf(t)] = TRUE]
    /\ mtx' = [mtx EXCEPT ![Buf(t)] = FALSE]
    /\ pc' = [pc EXCEPT ![t] = "wait"]
    /\ UNCHANGED <<th_disp_index, buffer_index, num_done, iteration, region, given>>

\* Variant: the wait for the slot is dropped.
NoWaitForBuffer(t) ==
    /\ pc[t] = "wait"
    /\ pc' = [pc EXCEPT ![t] = "next"]
    /\ UNCHANGED <<th_disp_index, slotVars, region, given>>

\* __kmp_wait_yield(&sh->buffer_index, my_buffer_index, __kmp_eq).
BufferFree(t) ==
    /\ pc[t] = "wait"
    /\ buffer_index[Buf(t)] = Loop(t)
    /\ pc' = [pc EXCEPT ![t] = "next"]
    /\ UNCHANGED <<th_disp_index, slotVars, region, given>>
---------------------------------------------------------------------------
\* The history of handing iterations lo .. hi of loop l to a thread.
Give(l, lo, hi) ==
    given' = [given EXCEPT ![l] =
                [i \in Iterations(l) |-> given[l][i] + (IF i \in lo .. hi THEN 1 ELSE 0)]]

\* __kmp_dispatch_next_algorithm, zero-trip loop: status 0 before the switch.
NextZeroTrip(t) ==
    /\ pc[t] = "next" /\ Trip[Loop(t)] = 0
    /\ pc' = [pc EXCEPT ![t] = "status0"]
    /\ UNCHANGED <<th_disp_index, slotVars, region, given>>

\* __kmp_dispatch_next_algorithm, case kmp_sch_dynamic_chunked.
NextDynamic(t) ==
    LET b == Buf(t)  l == Loop(t)  init == iteration[b] IN
    /\ pc[t] = "next" /\ Trip[l] # 0 /\ Kind[l] = "dynamic"
    /\ iteration' = [iteration EXCEPT ![b] = @ + 1]
    /\ IF init < Trip[l]
         THEN Give(l, init, init) /\ UNCHANGED pc
         ELSE pc' = [pc EXCEPT ![t] = "status0"] /\ UNCHANGED given
    /\ UNCHANGED <<th_disp_index, buffer_index, num_done, initialized, mtx,
                   chunk_size, q_counter, region>>

\* The chunk of the FAC queue, or the first of a new batch; min_chunk applied.
FacChunk(b, remaining) ==
    LET cs == IF q_counter[b] > 0 THEN chunk_size[b] ELSE FacSize[remaining]
    IN  IF MinChunk > cs THEN MinChunk ELSE cs

\* Variant: the queue is not refilled when a new batch begins.
QueueNotRefilled(b) == q_counter[b] - 1

\* The queue after one chunk: a new batch adds nproc - 1 chunks.
QueueAfter(b) == IF q_counter[b] > 0 THEN q_counter[b] - 1 ELSE NProc - 1

\* __kmp_dispatch_next_algorithm, case kmp_sch_fac: one critical section.
NextFac(t) ==
    LET b == Buf(t)  l == Loop(t)  init == iteration[b]
        remaining == Trip[l] - init
    IN
    /\ pc[t] = "next" /\ Trip[l] # 0 /\ Kind[l] = "fac" /\ ~mtx[b]
    /\ IF remaining > 0
         THEN LET cs == FacChunk(b, remaining) IN
              /\ iteration' = [iteration EXCEPT ![b] = init + cs]
              /\ q_counter' = [q_counter EXCEPT ![b] = QueueAfter(b)]
              /\ chunk_size' = [chunk_size EXCEPT ![b] = cs]
              /\ Give(l, init, init + cs - 1)
              /\ UNCHANGED pc
         ELSE /\ pc' = [pc EXCEPT ![t] = "status0"]
              /\ UNCHANGED <<iteration, q_counter, chunk_size, given>>
    /\ UNCHANGED <<th_disp_index, buffer_index, num_done, initialized, mtx, region>>

\* Variant: the last thread is recognised one too early.
LastOutTooEarly(b) == num_done[b] = NProc - 2

\* The test for the last thread of the team to find the loop exhausted.
LastOut(b) == num_done[b] = NProc - 1

\* __kmp_dispatch_next with status 0: count this thread out.
CountOut(t) ==
    /\ pc[t] = "status0"
    /\ num_done' = [num_done EXCEPT ![Buf(t)] = @ + 1]
    /\ pc' = [pc EXCEPT ![t] = IF LastOut(Buf(t)) THEN "clear" ELSE "idle"]
    /\ UNCHANGED <<th_disp_index, buffer_index, iteration, initialized, mtx,
                   chunk_size, q_counter, region, given>>

\* Variant: the iteration counter is not reset.
KeepIteration(t) ==
    /\ pc[t] = "clear"
    /\ num_done' = [num_done EXCEPT ![Buf(t)] = 0]
    /\ chunk_size' = [chunk_size EXCEPT ![Buf(t)] = 1]
    /\ pc' = [pc EXCEPT ![t] = "clearflag"]
    /\ UNCHANGED <<th_disp_index, buffer_index, iteration, initialized, mtx,
                   q_counter, region, given>>

\* The last thread out clears the slot, in the order of the stores, without
\* the mutex, and then releases it.
ClearCounters(t) ==
    /\ pc[t] = "clear"
    /\ num_done' = [num_done EXCEPT ![Buf(t)] = 0]
    /\ iteration' = [iteration EXCEPT ![Buf(t)] = 0]
    /\ chunk_size' = [chunk_size EXCEPT ![Buf(t)] = 1]
    /\ pc' = [pc EXCEPT ![t] = "clearflag"]
    /\ UNCHANGED <<th_disp_index, buffer_index, initialized, mtx, q_counter, region, given>>

\* Variant: the loop's number goes up by one instead of by the ring's size.
NextNumber(b) == buffer_index[b] + 1

\* The next loop that may use the slot.
Renumber(b) == buffer_index[b] + NumBuffers

ClearFlag(t) ==
    /\ pc[t] = "clearflag"
    /\ initialized' = [initialized EXCEPT ![Buf(t)] = FALSE]
    /\ pc' = [pc EXCEPT ![t] = "release"]
    /\ UNCHANGED <<th_disp_index, buffer_index, num_done, iteration, mtx,
                   chunk_size, q_counter, region, given>>

Release(t) ==
    /\ pc[t] = "release"
    /\ buffer_index' = [buffer_index EXCEPT ![Buf(t)] = Renumber(Buf(t))]
    /\ pc' = [pc EXCEPT ![t] = "idle"]
    /\ UNCHANGED <<th_disp_index, num_done, iteration, initialized, mtx,
                   chunk_size, q_counter, region, given>>

\* The join barrier, and the fork of the next region (__kmp_internal_fork and
\* __kmp_run_before_invoked_task): only the numbers are reset.
NewRegion ==
    /\ region < MaxRegions
    /\ \A t \in Threads : pc[t] = "idle" /\ th_disp_index[t] = NumLoops
    /\ region' = region + 1
    /\ th_disp_index' = [t \in Threads |-> 0]
    /\ buffer_index' = [b \in Slots |-> b]
    /\ given' = Untouched
    /\ UNCHANGED <<pc, num_done, iteration, initialized, mtx, chunk_size, q_counter>>

ThreadStep(t) ==
    \/ Enter(t) \/ FacTest(t) \/ FacSetup(t) \/ BufferFree(t)
    \/ NextZeroTrip(t) \/ NextDynamic(t) \/ NextFac(t) \/ CountOut(t)
    \/ ClearCounters(t) \/ ClearFlag(t) \/ Release(t)

\* The program has executed its last region: the threads are parked.
Finished ==
    /\ region = MaxRegions
    /\ \A t \in Threads : pc[t] = "idle" /\ th_disp_index[t] = NumLoops
    /\ UNCHANGED vars

Next == NewRegion \/ Finished \/ \E t \in Threads : ThreadStep(t)

Spec == Init /\ [][Next]_vars

\* Every thread keeps running; the spin of BufferFree yields and the mutex is
\* released by a thread that keeps running too, but std::mutex is not fair: a
\* thread that could lock it again and again may be passed over only finitely
\* often, because each critical section uses up iterations.
FairSpec == Spec /\ WF_vars(NewRegion) /\ \A t \in Threads : WF_vars(ThreadStep(t))
---------------------------------------------------------------------------
PcValues == {"idle", "lock", "setup", "wait", "next", "status0",
             "clear", "clearflag", "release"}

\* Type invariant of the ring and of the threads' positions.
TypeOK ==
    /\ pc \in [Threads -> PcValues]
    /\ th_disp_index \in [Threads -> 0 .. NumLoops]
    /\ \A t \in Threads : pc[t] # "idle" => th_disp_index[t] > 0
    /\ buffer_index \in [Slots -> Nat]
    /\ num_done \in [Slots -> Nat]
    /\ iteration \in [Slots -> Nat]
    /\ initialized \in [Slots -> BOOLEAN]
    /\ mtx \in [Slots -> BOOLEAN]
    /\ chunk_size \in [Slots -> Nat]
    /\ q_counter \in [Slots -> Nat]
    /\ region \in 1 .. MaxRegions
    /\ given = [l \in Loops |-> given[l]]
    /\ \A l \in Loops : given[l] \in [Iterations(l) -> Nat]

\* The number of loops a thread has left: next returned 0 for them.
Left(t) ==
    IF pc[t] \in {"lock", "setup", "wait", "next"} THEN Loop(t) ELSE th_disp_index[t]

Using == {"next", "status0", "clear", "clearflag", "release"}

\* No iteration of a loop is handed out twice, however the initialisation of
\* a loop overlaps with the end of the loop that used the slot before it.
AtMostOnce == \A l \in Loops : \A i \in Iterations(l) : given[l][i] <= 1

\* When dispatch_next tells one thread that the loop is exhausted, every
\* iteration has been handed to some thread.
LeftComplete ==
    \A t \in Threads : \A l \in 0 .. Left(t) - 1 : \A i \in Iterations(l) : given[l][i] = 1

\* A slot serves one loop at a time: whoever takes chunks from it, counts
\* itself out of it or clears it is in the loop whose number it carries.
OneLoopPerSlot ==
    \A t \in Threads : pc[t] \in Using => buffer_index[Buf(t)] = Loop(t)

\* The thread that clears a slot (without the mutex) is alone with it: all the
\* others have counted themselves out, none is already in the slot's next loop.
ClearAlone ==
    \A t, u \in Threads :
        /\ t # u
        /\ pc[t] \in {"clear", "clearflag", "release"}
        /\ pc[u] \in Using
        => Buf(u) # Buf(t)

\* A slot's iteration counter goes back only when every thread of the team has
\* been told that the slot's loop is exhausted.
CounterForward ==
    [][\A b \in Slots : iteration'[b] < iteration[b] =>
          \A t \in Threads : Left(t) > buffer_index[b]]_vars

\* Every thread gets through all the loops of all the regions: no thread spins
\* for ever on a slot, whatever the speeds of the others.
AllFinish ==
    <>(region = MaxRegions /\ \A t \in Threads : pc[t] = "idle" /\ th_disp_index[t] = NumLoops)

---------------------------------------------------------------------------
(***************************************************************************)
(* The inductive invariant behind the safety properties.                   *)
(***************************************************************************)
\* t has counted itself out of the loop whose number slot b carries.
CountedOut(t, b) ==
    \/ th_disp_index[t] > buffer_index[b] + 1
    \/ /\ th_disp_index[t] = buffer_index[b] + 1
       /\ pc[t] \in {"idle", "clear", "clearflag", "release"}

\* The slot's counters are cleared but it is not released yet.
Cleared(b) == \E t \in Threads : pc[t] \in {"clearflag", "release"} /\ Buf(t) = b

Numbered == \A b \in Slots : Slot(buffer_index[b]) = b

\* A slot does not pass a loop that some thread has yet to leave.
NotPassed == \A t \in Threads : \A b \in Slots : \A l \in 0 .. buffer_index[b] - 1 :
                Slot(l) = b => l < Left(t)

\* ... and no thread has left a loop that its slot has yet to reach.
NotAhead == \A t \in Threads : \A l \in 0 .. Left(t) - 1 : l <= buffer_index[Slot(l)]

Counts == \A b \in Slots :
    num_done[b] = IF Cleared(b) THEN 0
                  ELSE Cardinality({t \in Threads : CountedOut(t, b)})

\* The thread that clears is unique and everybody has counted out ...
Clearing == \A t \in Threads : pc[t] \in {"clear", "clearflag", "release"} =>
    \A u \in Threads :
        /\ CountedOut(u, Buf(t))
        /\ u # t /\ pc[u] \in {"clear", "clearflag", "release"} => Buf(u) # Buf(t)

\* ... and there is one as soon as everybody has.
SomeoneClears == \A b \in Slots :
    (\A t \in Threads : CountedOut(t, b)) =>
        \E t \in Threads : pc[t] \in {"clear", "clearflag", "release"} /\ Buf(t) = b

\* The iteration counter stands at the end of what was handed out.
Exhausted == \A b \in Slots : \A t \in Threads :
    /\ buffer_index[b] \in Loops
    /\ ~Cleared(b)
    /\ CountedOut(t, b) \/ (pc[t] = "status0" /\ Buf(t) = b)
    => iteration[b] >= Trip[buffer_index[b]]

Fresh == \A b \in Slots : Cleared(b) \/ buffer_index[b] \notin Loops => iteration[b] = 0

Handed == \A l \in Loops : \A i \in Iterations(l) :
    given[l][i] = IF \/ l < buffer_index[Slot(l)]
                     \/ /\ l = buffer_index[Slot(l)]
                        /\ Cleared(Slot(l)) \/ i < iteration[Slot(l)]
                  THEN 1 ELSE 0

IInv == /\ TypeOK /\ OneLoopPerSlot /\ Numbered /\ NotPassed /\ NotAhead /\ Counts
        /\ Clearing /\ SomeoneClears /\ Exhausted /\ Fresh /\ Handed
---------------------------------------------------------------------------
\* The ring implements the promise of WorksharingLoops.
Promise == INSTANCE WorksharingLoops WITH
    trip <- Trip, left <- [t \in Threads |-> Left(t)]
ImplementsPromise == Promise!Spec
===========================================================================
