---------------------------- MODULE StaticSteal ----------------------------
(***************************************************************************)
(* Static work stealing (kmp_sch_static_steal).  Each thread begins with   *)
(* its share of the loop's chunks, a range count .. ub - 1 in its private  *)
(* descriptor; when the range is empty it looks for a victim and takes a   *)
(* quarter of the victim's range from the end.  A descriptor belongs to a  *)
(* slot of the ring of dispatch buffers and is found through the pointer   *)
(* th_dispatch_pr_current; a counter in it tells thieves that its owner    *)
(* is ready.  Loops of 4-byte variables change a range by compare-and-swap *)
(* of the pair (count, ub); loops of 8-byte variables (Wide) use a lock    *)
(* per thread, made when the loop begins and destroyed by the last thread  *)
(* out.  Chunks are numbered from 0.                                       *)
(***************************************************************************)
EXTENDS Integers, FiniteSets

CONSTANTS
    NProc,        \* threads of the team
    NumBuffers,   \* KMP_DISP_NUM_BUFFERS
    Ntc,          \* Ntc[l]: the chunks of loop l, a sequence of loops 1 ..
    NoWait,       \* the loops are not followed by a barrier
    Wide,         \* the loops with an 8-byte variable
    Named         \* the loops whose clause names static_steal (it is not `runtime')

NumLoops == Cardinality(DOMAIN Ntc)
Threads == 0 .. NProc - 1
Loops == 1 .. NumLoops
Slots == 0 .. NumBuffers - 1
Slot(l) == (l - 1) % NumBuffers
Chunks == UNION {0 .. Ntc[l] - 1 : l \in Loops}

ASSUME TeamAssumption == NProc \in Nat \ {0, 1} /\ NumBuffers \in Nat \ {0}
\* With fewer chunks than threads the schedule is static_balanced.
ASSUME ChunksAssumption ==
    /\ NumLoops \in Nat /\ DOMAIN Ntc = Loops
    /\ \A l \in Loops : Ntc[l] \in Nat /\ Ntc[l] >= NProc
ASSUME KindAssumption == NoWait \in BOOLEAN /\ Wide \subseteq Loops /\ Named \subseteq Loops

VARIABLES
    pc,               \* where each thread is in init / next
    loop,             \* th_disp_index: loops each thread has begun
    range,            \* range[t][b]: count and ub of t's descriptor for slot b
    parm4,            \* parm4[t][b]: the victim to try first
    steal_counter,    \* static_steal_counter[t][b]
    pr_current,       \* th_dispatch_pr_current[t]: a slot, or Null
    steal_lock,       \* th_steal_lock[t] exists
    search,           \* the locals of the search for a victim
    buffer_index,     \* per slot: the loop that may use it
    num_done,         \* per slot: threads that found nothing more
    given             \* history: given[l][c] = times chunk c was executed in loop l

ringVars == <<buffer_index, num_done>>
vars == <<pc, loop, range, parm4, steal_counter, pr_current, steal_lock, search,
          ringVars, given>>

Null == -1
\* The n-th attempt begins with thread v.
Attempt(n, v) == [tries |-> n, victim |-> v, slot |-> Null, init |-> 0, limit |-> 0]
NoSearch == Attempt(0, 0)
Buf(t) == Slot(loop[t])
Own(t) == range[t][Buf(t)]
After(t) == (t + 1) % NProc
IsWide(t) == loop[t] \in Wide

Init ==
    /\ pc = [t \in Threads |-> "idle"]
    /\ loop = [t \in Threads |-> 0]
    /\ range = [t \in Threads |-> [b \in Slots |-> [count |-> 0, ub |-> 0]]]
    /\ parm4 = [t \in Threads |-> [b \in Slots |-> 0]]
    /\ steal_counter = [t \in Threads |-> [b \in Slots |-> 0]]
    /\ pr_current = [t \in Threads |-> Null]
    /\ steal_lock = [t \in Threads |-> FALSE]
    /\ search = [t \in Threads |-> NoSearch]
    /\ buffer_index = [b \in Slots |-> b + 1]
    /\ num_done = [b \in Slots |-> 0]
    /\ given = [l \in Loops |-> [c \in Chunks |-> 0]]
---------------------------------------------------------------------------
\* Variant: the shares are all of the smaller size.
ShareWithoutExtras(t, n) == [count |-> t * (n \div NProc), ub |-> (t + 1) * (n \div NProc)]

\* A thread's share of n chunks; the first threads get one of the extra chunks.
Share(t, n) ==
    LET small_chunk == n \div NProc
        extras == n % NProc
        init == t * small_chunk + (IF t < extras THEN t ELSE extras)
    IN  [count |-> init, ub |-> init + small_chunk + (IF t < extras THEN 1 ELSE 0)]

\* dispatch_init up to the wait: the descriptor is overwritten, the lock made.
\* The guard is the barrier at the end of the loop before.
Enter(t) ==
    /\ pc[t] = "idle" /\ loop[t] < NumLoops
    /\ NoWait \/ \A u \in Threads : loop[u] > loop[t] \/ (loop[u] = loop[t] /\ pc[u] = "idle")
    /\ loop' = [loop EXCEPT ![t] = @ + 1]
    /\ LET l == loop[t] + 1  b == Slot(l) IN
       /\ range' = [range EXCEPT ![t][b] = Share(t, Ntc[l])]
       /\ parm4' = [parm4 EXCEPT ![t][b] = After(t)]
    /\ steal_lock' = [steal_lock EXCEPT ![t] = IF loop[t] + 1 \in Wide THEN TRUE ELSE @]
    /\ pc' = [pc EXCEPT ![t] = "wait"]
    /\ UNCHANGED <<steal_counter, pr_current, search, ringVars, given>>

\* The slot is free for this loop; the descriptor can be found.
BufferFree(t) ==
    /\ pc[t] = "wait" /\ buffer_index[Buf(t)] = loop[t]
    /\ pr_current' = [pr_current EXCEPT ![t] = Buf(t)]
    /\ pc' = [pc EXCEPT ![t] = "ready"]
    /\ UNCHANGED <<loop, range, parm4, steal_counter, steal_lock, search, ringVars, given>>

\* The end of dispatch_init: others may steal from this thread since then.  The
\* test looks at the schedule of the clause, so not under schedule(runtime).
Ready(t) ==
    /\ pc[t] = "ready"
    /\ steal_counter' = [steal_counter EXCEPT ![t][Buf(t)] = IF loop[t] \in Named THEN @ + 1 ELSE @]
    /\ pc' = [pc EXCEPT ![t] = "next"]
    /\ UNCHANGED <<loop, range, parm4, pr_current, steal_lock, search, ringVars, given>>
---------------------------------------------------------------------------
\* Chunk c is returned to t, and executed as a chunk of t's loop.
Give(t, c) == given' = [given EXCEPT ![loop[t]][c] = @ + 1]

\* Begin the search with the remembered victim.
StartSearch(t) ==
    /\ pc' = [pc EXCEPT ![t] = "look"]
    /\ search' = [search EXCEPT ![t] = Attempt(1, parm4[t][Buf(t)])]

\* Variant: the last chunk of a range is not counted as one.
TakeAllButOne(t) ==
    /\ pc[t] = IF IsWide(t) THEN "own" ELSE "next"
    /\ IF Own(t).count + 1 < Own(t).ub
         THEN /\ range' = [range EXCEPT ![t][Buf(t)].count = @ + 1]
              /\ Give(t, Own(t).count)
              /\ pc' = [pc EXCEPT ![t] = "next"]
              /\ UNCHANGED search
         ELSE StartSearch(t) /\ UNCHANGED <<range, given>>
    /\ UNCHANGED <<loop, parm4, steal_counter, pr_current, steal_lock, ringVars>>

\* count++ on the own range, atomic through the compare-and-swap or the lock.
TakeOwn(t) ==
    /\ pc[t] = IF IsWide(t) THEN "own" ELSE "next"
    /\ range' = [range EXCEPT ![t][Buf(t)].count = @ + 1]
    /\ IF Own(t).count < Own(t).ub
         THEN /\ Give(t, Own(t).count)
              /\ pc' = [pc EXCEPT ![t] = "next"]
              /\ UNCHANGED search
         ELSE StartSearch(t) /\ UNCHANGED given
    /\ UNCHANGED <<loop, parm4, steal_counter, pr_current, steal_lock, ringVars>>

\* 8 bytes: an empty range is seen without the lock.
TestOwn(t) ==
    /\ pc[t] = "next" /\ IsWide(t)
    /\ IF Own(t).count < Own(t).ub
         THEN pc' = [pc EXCEPT ![t] = "own"] /\ UNCHANGED search
         ELSE StartSearch(t)
    /\ UNCHANGED <<loop, range, parm4, steal_counter, pr_current, steal_lock, ringVars, given>>

\* Variant: nproc attempts, one more than the thread has others.
NextTryOnceMore(t, first) ==
    IF search[t].tries = NProc
      THEN /\ pc' = [pc EXCEPT ![t] = "status0"]
           /\ search' = [search EXCEPT ![t] = NoSearch]
      ELSE /\ pc' = [pc EXCEPT ![t] = "look"]
           /\ search' = [search EXCEPT ![t] = Attempt(search[t].tries + 1, first)]

\* This attempt is over: nproc - 1 of them, each from the victim now remembered.
NextTry(t, first) ==
    IF search[t].tries + 1 = NProc
      THEN /\ pc' = [pc EXCEPT ![t] = "status0"]
           /\ search' = [search EXCEPT ![t] = NoSearch]
      ELSE /\ pc' = [pc EXCEPT ![t] = "look"]
           /\ search' = [search EXCEPT ![t] = Attempt(search[t].tries + 1, first)]

\* The victim's descriptor can be found and its counter is the thief's.
SameCounter(t, v) ==
    /\ pr_current[v] # Null
    /\ steal_counter[v][pr_current[v]] = steal_counter[t][Buf(t)]

\* Look at one thread, going round from parm4 to the one before it; the last one
\* may be the thief itself.
Look(t) ==
    LET v == search[t].victim
        start == parm4[t][Buf(t)]
        last == After(v) = start
    IN
    /\ pc[t] = "look"
    /\ \/ /\ ~SameCounter(t, v) \/ v = t
          /\ ~last
          /\ search' = [search EXCEPT ![t].victim = After(v)]
          /\ UNCHANGED <<pc, parm4>>
       \/ /\ ~SameCounter(t, v) /\ last
          /\ NextTry(t, start)
          /\ UNCHANGED parm4
       \/ /\ SameCounter(t, v) /\ (v # t \/ last)
          /\ pc' = [pc EXCEPT ![t] = IF IsWide(t) THEN "peek" ELSE "steal"]
          /\ search' = [search EXCEPT ![t].slot = pr_current[v]]
          /\ parm4' = IF IsWide(t) THEN parm4 ELSE [parm4 EXCEPT ![t][Buf(t)] = v]
    /\ UNCHANGED <<loop, range, steal_counter, pr_current, steal_lock, ringVars, given>>

\* What the thief has found: the pointer was read before and is not read again.
Victim(t) == range[search[t].victim][search[t].slot]

GiveUp(t) ==
    /\ parm4' = [parm4 EXCEPT ![t][Buf(t)] = After(search[t].victim)]
    /\ NextTry(t, After(search[t].victim))

\* 8 bytes: a range too short is seen without the lock.
Peek(t) ==
    /\ pc[t] = "peek"
    /\ IF Victim(t).count + 2 > Victim(t).ub
         THEN GiveUp(t)
         ELSE pc' = [pc EXCEPT ![t] = "steal"] /\ UNCHANGED <<search, parm4>>
    /\ UNCHANGED <<loop, range, steal_counter, pr_current, steal_lock, ringVars, given>>

\* Variant: the victim keeps what is stolen.
UbKept(r) == r.ub

\* What is left to the victim: three quarters, or one less of two or three.
UbLeft(r) ==
    LET remaining == r.ub - r.count
    IN  IF remaining > 3 THEN r.ub - remaining \div 4 ELSE r.ub - 1

\* Take the end of the victim's range, in one compare-and-swap or under its lock.
Steal(t) ==
    LET r == Victim(t) IN
    /\ pc[t] = "steal"
    /\ IF r.ub - r.count < 2
         THEN GiveUp(t) /\ UNCHANGED range
         ELSE /\ range' = [range EXCEPT ![search[t].victim][search[t].slot].ub = UbLeft(r)]
              /\ search' = [search EXCEPT ![t].init = UbLeft(r), ![t].limit = r.ub]
              /\ parm4' = [parm4 EXCEPT ![t][Buf(t)] = search[t].victim]
              /\ pc' = [pc EXCEPT ![t] = "install"]
    /\ UNCHANGED <<loop, steal_counter, pr_current, steal_lock, ringVars, given>>

\* The stolen chunks, but the first, become the own range.
Install(t) ==
    /\ pc[t] = "install"
    /\ range' = [range EXCEPT ![t][Buf(t)] = [count |-> search[t].init + 1,
                                              ub |-> search[t].limit]]
    /\ Give(t, search[t].init)
    /\ search' = [search EXCEPT ![t] = NoSearch]
    /\ pc' = [pc EXCEPT ![t] = "next"]
    /\ UNCHANGED <<loop, parm4, steal_counter, pr_current, steal_lock, ringVars>>
---------------------------------------------------------------------------
\* Variant: the last thread is recognised one too early.
LastOutTooEarly(b) == num_done[b] >= NProc - 2

\* Variant: the test is of the new value of the counter.
LastOutTooLate(b) == num_done[b] = NProc

LastOut(b) == num_done[b] = NProc - 1

\* dispatch_next with status 0.
CountOut(t) ==
    /\ pc[t] = "status0"
    /\ num_done' = [num_done EXCEPT ![Buf(t)] = @ + 1]
    /\ pc' = [pc EXCEPT ![t] = IF LastOut(Buf(t)) THEN "clear" ELSE "detach"]
    /\ UNCHANGED <<loop, range, parm4, steal_counter, pr_current, steal_lock, search,
                   buffer_index, given>>

\* The last thread out of a loop of 8-byte variables destroys the lock of every thread ...
DestroyLocks(t) ==
    /\ pc[t] = "clear"
    /\ steal_lock' = [u \in Threads |-> steal_lock[u] /\ ~IsWide(t)]
    /\ pc' = [pc EXCEPT ![t] = "release"]
    /\ UNCHANGED <<loop, range, parm4, steal_counter, pr_current, search, ringVars, given>>

\* ... and releases the slot.
Release(t) ==
    /\ pc[t] = "release"
    /\ num_done' = [num_done EXCEPT ![Buf(t)] = 0]
    /\ buffer_index' = [buffer_index EXCEPT ![Buf(t)] = @ + NumBuffers]
    /\ pc' = [pc EXCEPT ![t] = "detach"]
    /\ UNCHANGED <<loop, range, parm4, steal_counter, pr_current, steal_lock, search, given>>

\* The pointer is cleared after the thread has been counted.
Detach(t) ==
    /\ pc[t] = "detach"
    /\ pr_current' = [pr_current EXCEPT ![t] = Null]
    /\ pc' = [pc EXCEPT ![t] = "idle"]
    /\ UNCHANGED <<loop, range, parm4, steal_counter, steal_lock, search, ringVars, given>>

ThreadStep(t) ==
    \/ Enter(t) \/ BufferFree(t) \/ Ready(t) \/ TestOwn(t) \/ TakeOwn(t)
    \/ Look(t) \/ Peek(t) \/ Steal(t) \/ Install(t)
    \/ CountOut(t) \/ DestroyLocks(t) \/ Release(t) \/ Detach(t)

AllDone == \A t \in Threads : pc[t] = "idle" /\ loop[t] = NumLoops
Finished == AllDone /\ UNCHANGED vars

Next == Finished \/ \E t \in Threads : ThreadStep(t)

Spec == Init /\ [][Next]_vars

\* A running thread keeps running; the spin for the slot yields.
FairSpec == Spec /\ \A t \in Threads : WF_vars(ThreadStep(t))
---------------------------------------------------------------------------
Searching == {"look", "peek", "steal", "install"}
PcValues == Searching \cup {"idle", "wait", "ready", "next", "own", "status0", "clear",
                            "release", "detach"}
Ranges == [count : Nat, ub : Nat]
Searches == [tries : 0 .. NProc - 1, victim : Threads, slot : Slots \cup {Null},
             init : Nat, limit : Nat]

\* Type invariant.
TypeOK ==
    /\ pc \in [Threads -> PcValues]
    /\ loop \in [Threads -> 0 .. NumLoops]
    /\ \A t \in Threads : pc[t] # "idle" => loop[t] > 0
    /\ range \in [Threads -> [Slots -> Ranges]]
    /\ parm4 \in [Threads -> [Slots -> Threads]]
    /\ steal_counter \in [Threads -> [Slots -> Nat]]
    /\ pr_current \in [Threads -> Slots \cup {Null}]
    /\ steal_lock \in [Threads -> BOOLEAN]
    /\ search \in [Threads -> Searches]
    /\ buffer_index \in [Slots -> Nat]
    /\ num_done \in [Slots -> Nat]
    /\ given \in [Loops -> [Chunks -> Nat]]

\* No chunk is executed twice, and none that the loop does not have.
OnceOnly ==
    \A l \in Loops : \A c \in Chunks : given[l][c] <= (IF c < Ntc[l] THEN 1 ELSE 0)

\* A loop that every thread has left has been executed completely.
NothingLost ==
    \A l \in Loops :
        (\A t \in Threads : loop[t] > l \/ (loop[t] = l /\ pc[t] = "idle"))
        => \A c \in 0 .. Ntc[l] - 1 : given[l][c] = 1

Span(r) == r.count .. r.ub - 1

\* Chunk c of loop l is t's to execute, or to be stolen from: in the share of a
\* loop t has not begun, in its range, or just stolen and not yet installed.
Holds(t, l, c) ==
    \/ loop[t] < l /\ c \in Span(Share(t, Ntc[l]))
    \/ loop[t] = l /\ c \in Span(Own(t))
    \/ loop[t] = l /\ pc[t] = "install" /\ search[t].init <= c /\ c < search[t].limit

\* Each chunk is in one place: with one thread until it is executed, with none
\* afterwards.
OnePlace ==
    \A l \in Loops : \A c \in 0 .. Ntc[l] - 1 :
        /\ given[l][c] = IF \E t \in Threads : Holds(t, l, c) THEN 0 ELSE 1
        /\ \A t, u \in Threads : Holds(t, l, c) /\ Holds(u, l, c) => t = u

\* A thread stores its new range without a compare-and-swap.  That is safe: its
\* range is empty, so no thief takes from it until the store.
StoreAlone ==
    \A t \in Threads : pc[t] \in Searching => Own(t).count >= Own(t).ub

\* Every thread gets through all the loops: searches and spins end.
AllFinish == <>AllDone
===========================================================================
