--------------------------- MODULE OrderedLoops ---------------------------
(***************************************************************************)
(* A worksharing loop with the clause ordered.  The threads take chunks as *)
(* in SelfScheduling; an ordered region of a chunk waits until the shared  *)
(* counter ordered_iteration reaches the chunk's first iteration.  What    *)
(* adds to that counter is the end of a region (__kmp_dispatch_dxo), and,  *)
(* for iterations without one, the call that ends an iteration             *)
(* (__kmp_dispatch_finish, after each iteration) or a chunk                *)
(* (__kmp_dispatch_finish_chunk, from GNU code, before the next chunk).    *)
(***************************************************************************)
EXTENDS SelfScheduling

CONSTANTS
    Interfaces,   \* how the loop ends its iterations: a subset of AllInterfaces
    OrderedTrip   \* bound: iterations of a loop with the clause

AllInterfaces == {"unordered", "iteration", "chunk"}

ASSUME OrderedAssumption == Interfaces \subseteq AllInterfaces /\ OrderedTrip \in Nat

VARIABLES
    interface,          \* the interface of the loop; "unordered": no clause
    ordered_iteration,  \* shared: iterations done with, as far as the counter knows
    ordered_lower,      \* per thread: first iteration of its chunk
    ordered_upper,      \* per thread: last iteration of its chunk
    ordered_bumped,     \* per thread: regions executed since it was last reset
    body,               \* per thread: where it is in its chunk; "out": asking for one
    at,                 \* per thread: the iteration it executes
    settled             \* history: iterations that have no region ahead of them

orderedVars == <<interface, ordered_iteration, ordered_lower, ordered_upper,
                 ordered_bumped, body, at, settled>>
allVars == <<vars, orderedVars>>

OrderedInit ==
    /\ Init
    /\ interface \in Interfaces
    /\ interface # "unordered" => tc <= OrderedTrip
    /\ ordered_iteration = 0
    /\ ordered_lower = [t \in Threads |-> 1]
    /\ ordered_upper = [t \in Threads |-> 0]
    /\ ordered_bumped = [t \in Threads |-> 0]
    /\ body = [t \in Threads |-> "out"]
    /\ at = [t \in Threads |-> 0]
    /\ settled = {}
---------------------------------------------------------------------------
\* The chunk lo .. hi has just been handed to t: next_algorithm notes its bounds.
Begin(t, lo, hi) ==
    /\ ordered_lower' = [ordered_lower EXCEPT ![t] = lo]
    /\ ordered_upper' = [ordered_upper EXCEPT ![t] = hi]
    /\ at' = [at EXCEPT ![t] = lo]
    /\ body' = [body EXCEPT ![t] = "iteration"]
    /\ UNCHANGED <<interface, ordered_iteration, ordered_bumped, settled>>

\* A step of __kmp_dispatch_next; without the clause the chunk's body is not modelled.
Take(t) ==
    LET handed == {i \in Iterations : given'[i] # given[i]} IN
    /\ body[t] = "out"
    /\ ThreadStep(t)
    /\ IF interface = "unordered" \/ handed = {}
         THEN UNCHANGED orderedVars
         ELSE \E lo, hi \in Iterations : lo <= hi /\ handed = lo .. hi /\ Begin(t, lo, hi)

\* The wait of deo, finish and finish_chunk: kmp_ge(ordered_iteration, lower).
Turn(t) == ordered_iteration >= ordered_lower[t]

\* The iteration has no ordered region.
SkipRegion(t) ==
    /\ body[t] = "iteration"
    /\ body' = [body EXCEPT ![t] = "end"]
    /\ settled' = settled \cup {at[t]}
    /\ UNCHANGED <<vars, interface, ordered_iteration, ordered_lower, ordered_upper,
                   ordered_bumped, at>>

\* __kmp_dispatch_deo: enter the ordered region.
Deo(t) ==
    /\ body[t] = "iteration"
    /\ Turn(t)
    /\ body' = [body EXCEPT ![t] = "region"]
    /\ UNCHANGED <<vars, interface, ordered_iteration, ordered_lower, ordered_upper,
                   ordered_bumped, at, settled>>

\* __kmp_dispatch_dxo: leave it.
Dxo(t) ==
    /\ body[t] = "region"
    /\ body' = [body EXCEPT ![t] = "end"]
    /\ ordered_bumped' = [ordered_bumped EXCEPT ![t] = @ + 1]
    /\ ordered_iteration' = ordered_iteration + 1
    /\ settled' = settled \cup {at[t]}
    /\ UNCHANGED <<vars, interface, ordered_lower, ordered_upper, at>>

\* The program goes on to the chunk's next iteration, or asks for another chunk.
Advance(t) ==
    /\ at' = [at EXCEPT ![t] = IF @ < ordered_upper[t] THEN @ + 1 ELSE @]
    /\ body' = [body EXCEPT ![t] = IF at[t] < ordered_upper[t] THEN "iteration" ELSE "out"]

\* Variant: the iteration is counted once more, whatever the region has counted.
FinishAgain(t) ==
    /\ interface = "iteration" /\ body[t] = "end"
    /\ Turn(t)
    /\ ordered_iteration' = ordered_iteration + 1
    /\ ordered_bumped' = [ordered_bumped EXCEPT ![t] = 0]
    /\ Advance(t)
    /\ UNCHANGED <<vars, interface, ordered_lower, ordered_upper, settled>>

\* __kmp_dispatch_finish, after every iteration: one without a region is counted here.
Finish(t) ==
    /\ interface = "iteration" /\ body[t] = "end"
    /\ IF ordered_bumped[t] # 0
         THEN UNCHANGED ordered_iteration
         ELSE Turn(t) /\ ordered_iteration' = ordered_iteration + 1
    /\ ordered_bumped' = [ordered_bumped EXCEPT ![t] = 0]
    /\ Advance(t)
    /\ UNCHANGED <<vars, interface, ordered_lower, ordered_upper, settled>>

\* GNU code calls nothing between the iterations of a chunk.
NextOfChunk(t) ==
    /\ interface = "chunk" /\ body[t] = "end" /\ at[t] < ordered_upper[t]
    /\ Advance(t)
    /\ UNCHANGED <<vars, interface, ordered_iteration, ordered_lower, ordered_upper,
                   ordered_bumped, settled>>

\* __kmp_dispatch_finish_chunk: count the chunk's iterations without a region.
FinishChunk(t) ==
    LET inc == ordered_upper[t] - ordered_lower[t] + 1 IN
    /\ interface = "chunk" /\ body[t] = "end" /\ at[t] = ordered_upper[t]
    /\ IF ordered_bumped[t] = inc
         THEN UNCHANGED ordered_iteration
         ELSE /\ Turn(t)
              /\ ordered_iteration' = ordered_iteration + inc - ordered_bumped[t]
    /\ ordered_bumped' = [ordered_bumped EXCEPT ![t] = 0]
    /\ Advance(t)
    /\ UNCHANGED <<vars, interface, ordered_lower, ordered_upper, settled>>

OrderedStep(t) ==
    Take(t) \/ SkipRegion(t) \/ Deo(t) \/ Dxo(t) \/ Finish(t) \/ NextOfChunk(t) \/ FinishChunk(t)

OrderedFinished == AllLeft /\ UNCHANGED allVars

OrderedNext == OrderedFinished \/ \E t \in Threads : OrderedStep(t)

OrderedSpec == OrderedInit /\ [][OrderedNext]_allVars

\* A running thread keeps running; the wait for the counter yields.
OrderedFairSpec == OrderedSpec /\ \A t \in Threads : WF_allVars(OrderedStep(t))
---------------------------------------------------------------------------
\* Ordered regions are executed one at a time and in the order of the loop:
\* while one is executed none of the earlier iterations has its own still ahead,
\* whichever of them have a region and whoever executes them.
InOrder ==
    \A t \in Threads : body[t] = "region" =>
        /\ \A i \in 0 .. at[t] - 1 : i \in settled
        /\ at[t] \notin settled
---------------------------------------------------------------------------
(***************************************************************************)
(* The inductive invariant behind InOrder.                                 *)
(***************************************************************************)
Chunk(t) == IF body[t] = "out" THEN {} ELSE ordered_lower[t] .. ordered_upper[t]

\* The iterations of its chunk that t has added to the counter, and that it has
\* been through.
Counted(t) ==
    ordered_bumped[t] + (IF interface = "iteration" THEN at[t] - ordered_lower[t] ELSE 0)
Through(t) == at[t] - ordered_lower[t] + (IF body[t] = "end" THEN 1 ELSE 0)

OrderedTyped ==
    /\ interface \in AllInterfaces
    /\ ordered_iteration \in Int
    /\ ordered_lower \in [Threads -> Nat]
    /\ ordered_upper \in [Threads -> Nat]
    /\ ordered_bumped \in [Threads -> Nat]
    /\ body \in [Threads -> {"out", "iteration", "region", "end"}]
    /\ at \in [Threads -> Nat]
    /\ settled \subseteq Nat

\* The chunks in hand are disjoint parts of what has been handed out ...
Disjoint == \A t, u \in Threads : t # u => Chunk(t) \cap Chunk(u) = {}

InHand == \A t \in Threads : body[t] # "out" =>
    /\ ordered_lower[t] <= at[t] /\ at[t] <= ordered_upper[t]
    /\ \A i \in Chunk(t) : i \in Iterations /\ given[i] = 1

\* ... and what the counter has not passed yet is in one of them.
Pending == \A i \in Iterations :
    ordered_iteration <= i /\ given[i] = 1 => \E t \in Threads : i \in Chunk(t)

\* The counter is before a chunk nobody has counted from, within it as many
\* iterations as its thread has counted, or past a chunk counted completely.
Right(t) ==
    IF body[t] = "out" THEN ordered_bumped[t] = 0 ELSE
        /\ Counted(t) <= Through(t)
        /\ \/ ordered_iteration < ordered_lower[t] /\ Counted(t) = 0
           \/ ordered_iteration = ordered_lower[t] + Counted(t)
           \/ /\ ordered_iteration > ordered_upper[t]
              /\ ordered_lower[t] + Counted(t) = ordered_upper[t] + 1
        /\ body[t] = "region" => ordered_iteration >= ordered_lower[t]

CounterRight == \A t \in Threads : Right(t)

\* The counter passes only over settled iterations; those ahead of a thread in
\* its chunk, and those not handed out, are not settled.
SettledRight ==
    /\ \A i \in 0 .. ordered_iteration - 1 : i \in settled
    /\ \A i \in settled : i \in Iterations /\ given[i] = 1
    /\ \A t \in Threads : \A i \in Chunk(t) : i \in settled <=> i < ordered_lower[t] + Through(t)

\* A loop without an ordered clause does none of this.
OrderedInv ==
    IF interface = "unordered"
      THEN \A t \in Threads : body[t] = "out"
      ELSE Disjoint /\ InHand /\ Pending /\ CounterRight /\ SettledRight
===========================================================================
