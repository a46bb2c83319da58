------------------------- MODULE StaticSteal_proof -------------------------
(***************************************************************************)
(* Static stealing, for every team, ring and sequence of loops: the ranges *)
(* and the searches stay within the loop, and, with a barrier after every  *)
(* loop, each chunk is executed exactly once.                              *)
(***************************************************************************)
EXTENDS StaticSteal, TLAPS

\* Updates of the variables at one place keep their types.
LEMMA Updates ==
    ASSUME TypeOK, NEW t \in Threads
    PROVE  /\ \A b \in Slots : \A r \in Ranges :
                 [range EXCEPT ![t][b] = r] \in [Threads -> [Slots -> Ranges]]
           /\ \A b \in Slots : \A v \in Threads :
                 [parm4 EXCEPT ![t][b] = v] \in [Threads -> [Slots -> Threads]]
           /\ \A s \in Searches : [search EXCEPT ![t] = s] \in [Threads -> Searches]
<1>1. range \in [Threads -> [Slots -> Ranges]] /\ parm4 \in [Threads -> [Slots -> Threads]]
      /\ search \in [Threads -> Searches]
  BY DEF TypeOK
<1>2. \A b \in Slots : \A r \in Ranges :
         [range EXCEPT ![t][b] = r] \in [Threads -> [Slots -> Ranges]]
  BY <1>1
<1>3. \A b \in Slots : \A v \in Threads :
         [parm4 EXCEPT ![t][b] = v] \in [Threads -> [Slots -> Threads]]
  BY <1>1
<1>4. \A s \in Searches : [search EXCEPT ![t] = s] \in [Threads -> Searches]
  BY <1>1
<1> QED BY <1>2, <1>3, <1>4

LEMMA SlotType == \A l \in Nat : l > 0 => Slot(l) \in Slots
  BY TeamAssumption DEF Slot, Slots

LEMMA AfterType == \A t \in Threads : t \in Nat /\ After(t) \in Threads
  BY TeamAssumption DEF After, Threads

\* A share is a range of natural numbers.
LEMMA ShareType ==
    ASSUME NEW t \in Threads, NEW n \in Nat
    PROVE  Share(t, n) \in Ranges
<1> DEFINE q == n \div NProc
           e == n % NProc
<1>1. q \in Nat /\ e \in Nat /\ t \in Nat
  BY TeamAssumption DEF Threads
<1>2. t * q \in Nat
  <2> HIDE DEF q, e
  <2> QED BY <1>1
<1> DEFINE init == t * q + (IF t < e THEN t ELSE e)
           size == q + (IF t < e THEN 1 ELSE 0)
<1>3. init \in Nat /\ init + q + (IF t < e THEN 1 ELSE 0) \in Nat
  <2> HIDE DEF q, e
  <2> QED BY <1>1, <1>2
<1>4. Share(t, n) = [count |-> init, ub |-> init + q + (IF t < e THEN 1 ELSE 0)]
  BY DEF Share
<1> HIDE DEF q, e, init
<1> QED BY <1>3, <1>4 DEF Ranges

\* What a thief leaves its victim: it takes one chunk at least, from the end.
LEMMA UbLeftRange ==
    ASSUME NEW r \in Ranges, r.ub - r.count >= 2
    PROVE  UbLeft(r) \in Nat /\ r.count < UbLeft(r) /\ UbLeft(r) < r.ub
<1> DEFINE n == r.ub - r.count
<1>1. n \in Nat /\ n >= 2 /\ r.ub \in Nat /\ r.count \in Nat
  BY DEF Ranges
<1>2. /\ n \div 4 \in Nat /\ 4 * (n \div 4) <= n
      /\ n > 3 => n \div 4 >= 1
  <2> HIDE DEF n
  <2> QED BY <1>1
<1>3. UbLeft(r) = IF n > 3 THEN r.ub - n \div 4 ELSE r.ub - 1
  BY DEF UbLeft
<1> QED BY <1>1, <1>2, <1>3
---------------------------------------------------------------------------
\* A thief that reads a victim's range has its descriptor.
SlotKnown == \A t \in Threads : pc[t] \in {"peek", "steal"} => search[t].slot \in Slots

\* A thread that has found its range empty has not got a range since, in this
\* loop or, once idle, until it begins the next one.
Quiet(t) == loop[t] > 0 /\ pc[t] \notin {"wait", "ready", "next", "own"}
QuietEmpty == \A t \in Threads : Quiet(t) => Own(t).count >= Own(t).ub

IInv == TypeOK /\ SlotKnown /\ QuietEmpty

LEMMA Begin == Init => IInv
<1> SUFFICES ASSUME Init PROVE IInv
  OBVIOUS
<1>1. TypeOK
  BY TeamAssumption, ChunksAssumption
  DEF Init, TypeOK, PcValues, Threads, Slots, NoSearch, Attempt, Null, Searching, Ranges, Searches
<1>2. SlotKnown /\ QuietEmpty
  BY DEF Init, SlotKnown, QuietEmpty, Quiet
<1> QED BY <1>1, <1>2 DEF IInv

\* The descriptor of a thread in a loop.
LEMMA OwnType ==
    ASSUME TypeOK, NEW t \in Threads, pc[t] # "idle" \/ loop[t] > 0
    PROVE  /\ loop[t] \in Nat /\ Buf(t) \in Slots
           /\ Own(t) \in Ranges
<1>1. loop[t] \in Nat /\ loop[t] > 0
  BY ChunksAssumption DEF TypeOK
<1>2. Buf(t) \in Slots
  BY <1>1, SlotType DEF Buf
<1> QED BY <1>1, <1>2 DEF TypeOK, Own

LEMMA AttemptType ==
    ASSUME NEW n \in 0 .. NProc - 1, NEW v \in Threads
    PROVE  Attempt(n, v) \in Searches
  BY DEF Attempt, Searches

LEMMA NoSearchType == NoSearch \in Searches
  BY TeamAssumption, AttemptType DEF NoSearch, Threads

\* What one step changes in the locals of a search.
LEMMA Changed ==
    ASSUME TypeOK, NEW t \in Threads
    PROVE  /\ \A v \in Threads : [search EXCEPT ![t].victim = v] \in [Threads -> Searches]
           /\ \A b \in Slots \cup {Null} : [search EXCEPT ![t].slot = b] \in [Threads -> Searches]
           /\ \A i, j \in Nat :
                 [search EXCEPT ![t].init = i, ![t].limit = j] \in [Threads -> Searches]
<1>1. search[t] \in Searches /\ search \in [Threads -> Searches]
  BY DEF TypeOK
<1>2. \A v \in Threads : [search EXCEPT ![t].victim = v] \in [Threads -> Searches]
  BY <1>1 DEF Searches
<1>3. \A b \in Slots \cup {Null} : [search EXCEPT ![t].slot = b] \in [Threads -> Searches]
  BY <1>1 DEF Searches
<1>4. \A i, j \in Nat :
         [search EXCEPT ![t].init = i, ![t].limit = j] \in [Threads -> Searches]
  BY <1>1 DEF Searches
<1> QED BY <1>2, <1>3, <1>4

LEMMA SearchBegins ==
    ASSUME TypeOK, NEW t \in Threads, pc[t] # "idle", StartSearch(t)
    PROVE  pc' = [pc EXCEPT ![t] = "look"] /\ search' \in [Threads -> Searches]
<1>1. Buf(t) \in Slots
  BY OwnType
<1>2. parm4[t][Buf(t)] \in Threads
  BY <1>1 DEF TypeOK
<1>3. Attempt(1, parm4[t][Buf(t)]) \in Searches
  BY <1>2, AttemptType, TeamAssumption
<1> QED BY <1>3, Updates DEF StartSearch

LEMMA SearchGoesOn ==
    ASSUME TypeOK, NEW t \in Threads, NEW first \in Threads, NextTry(t, first)
    PROVE  /\ \/ pc' = [pc EXCEPT ![t] = "look"]
              \/ pc' = [pc EXCEPT ![t] = "status0"]
           /\ search' \in [Threads -> Searches]
<1>1. search[t] \in Searches /\ search[t].tries \in 0 .. NProc - 1
  BY DEF TypeOK, Searches
<1>2. CASE search[t].tries + 1 = NProc
  BY <1>2, NoSearchType, Updates DEF NextTry
<1>3. CASE search[t].tries + 1 # NProc
  <2>1. search[t].tries + 1 \in 0 .. NProc - 1
    BY <1>1, <1>3, TeamAssumption
  <2>2. Attempt(search[t].tries + 1, first) \in Searches
    BY <2>1, AttemptType
  <2> QED BY <1>3, <2>2, Updates DEF NextTry
<1> QED BY <1>2, <1>3

LEMMA GiveType ==
    ASSUME TypeOK, NEW t \in Threads, NEW c, Give(t, c)
    PROVE  given' \in [Loops -> [Chunks -> Nat]]
<1>1. given \in [Loops -> [Chunks -> Nat]]
  BY DEF TypeOK
<1> DEFINE l == loop[t]
           n == given[l][c] + 1
<1>2. given' = [given EXCEPT ![l] = [given[l] EXCEPT ![c] = n]]
  BY DEF Give
<1>3. l \in Loops => [given[l] EXCEPT ![c] = n] \in [Chunks -> Nat]
  <2>1. l \in Loops => given[l] \in [Chunks -> Nat]
    BY <1>1
  <2>2. l \in Loops /\ c \in Chunks => n \in Nat
    BY <2>1
  <2> HIDE DEF n, l
  <2> QED BY <2>1, <2>2
<1> HIDE DEF n, l
<1> QED BY <1>1, <1>2, <1>3
---------------------------------------------------------------------------
LEMMA TypeNext == TypeOK /\ SlotKnown /\ [Next]_vars => TypeOK'
<1> SUFFICES ASSUME TypeOK, SlotKnown, [Next]_vars PROVE TypeOK'
  OBVIOUS
<1>1. ASSUME NEW t \in Threads, Enter(t) PROVE TypeOK'
  <2>1. /\ loop[t] + 1 \in Loops /\ loop[t] + 1 \in Nat
        /\ loop[t] + 1 > 0 /\ loop[t] + 1 <= NumLoops
    BY <1>1, ChunksAssumption DEF TypeOK, PcValues, Enter, Loops
  <2>2. Share(t, Ntc[loop[t] + 1]) \in Ranges
    BY <2>1, ShareType, ChunksAssumption
  <2>3. After(t) \in Threads
    BY AfterType
  <2>4. range' \in [Threads -> [Slots -> Ranges]]
    BY <1>1, <2>2 DEF TypeOK, PcValues, Enter
  <2>5. parm4' \in [Threads -> [Slots -> Threads]]
    BY <1>1, <2>3 DEF TypeOK, PcValues, Enter
  <2>6. /\ loop' \in [Threads -> 0 .. NumLoops]
        /\ \A u \in Threads : pc'[u] # "idle" => loop'[u] > 0
    BY <1>1, <2>1 DEF TypeOK, PcValues, Enter
  <2> QED BY <1>1, <2>4, <2>5, <2>6, KindAssumption DEF TypeOK, PcValues, Enter, ringVars
<1>2. ASSUME NEW t \in Threads, BufferFree(t) PROVE TypeOK'
  <2>1. Buf(t) \in Slots
    BY <1>2, OwnType DEF BufferFree
  <2> QED BY <1>2, <2>1 DEF TypeOK, PcValues, BufferFree, ringVars
<1>3. ASSUME NEW t \in Threads, Ready(t) PROVE TypeOK'
  <2>1. Buf(t) \in Slots
    BY <1>3, OwnType DEF Ready
  <2>2. steal_counter[t][Buf(t)] \in Nat
    BY <2>1 DEF TypeOK
  <2>3. steal_counter' \in [Threads -> [Slots -> Nat]]
    BY <1>3, <2>1, <2>2 DEF TypeOK, PcValues, Ready
  <2> QED BY <1>3, <2>3 DEF TypeOK, PcValues, Ready, ringVars
<1>4. ASSUME NEW t \in Threads, TestOwn(t) PROVE TypeOK'
  <2>1. CASE StartSearch(t)
    <3>1. pc' = [pc EXCEPT ![t] = "look"] /\ search' \in [Threads -> Searches]
      BY <1>4, <2>1, SearchBegins DEF TestOwn
    <3> QED BY <1>4, <2>1, <3>1 DEF TypeOK, PcValues, TestOwn, ringVars, Searching
  <2>2. CASE pc' = [pc EXCEPT ![t] = "own"] /\ UNCHANGED search
    BY <1>4, <2>2 DEF TypeOK, PcValues, TestOwn, ringVars
  <2> QED BY <1>4, <2>1, <2>2 DEF TestOwn
<1>5. ASSUME NEW t \in Threads, TakeOwn(t) PROVE TypeOK'
  <2> DEFINE r == [Own(t) EXCEPT !.count = @ + 1]
  <2>1. pc[t] # "idle" /\ Buf(t) \in Slots /\ Own(t) \in Ranges
    BY <1>5, OwnType DEF TakeOwn
  <2>2. range' \in [Threads -> [Slots -> Ranges]]
    <3>1. r \in Ranges
      BY <2>1 DEF Ranges
    <3>2. range' = [range EXCEPT ![t][Buf(t)] = r]
      BY <1>5 DEF TakeOwn, Own
    <3> HIDE DEF r
    <3> QED BY <2>1, <3>1, <3>2, Updates
  <2>3. CASE StartSearch(t) /\ UNCHANGED given
    <3>1. pc' = [pc EXCEPT ![t] = "look"] /\ search' \in [Threads -> Searches]
      BY <2>1, <2>3, SearchBegins
    <3> QED BY <1>5, <2>1, <2>2, <2>3, <3>1 DEF TypeOK, PcValues, TakeOwn, ringVars, Searching
  <2>4. CASE Give(t, Own(t).count) /\ pc' = [pc EXCEPT ![t] = "next"] /\ UNCHANGED search
    <3>1. given' \in [Loops -> [Chunks -> Nat]]
      BY <2>4, GiveType
    <3> QED BY <1>5, <2>1, <2>2, <2>4, <3>1 DEF TypeOK, PcValues, TakeOwn, ringVars
  <2> QED BY <1>5, <2>3, <2>4 DEF TakeOwn
<1>6. ASSUME NEW t \in Threads, Look(t) PROVE TypeOK'
  <2> DEFINE v == search[t].victim
             start == parm4[t][Buf(t)]
  <2>1. pc[t] # "idle" /\ search[t] \in Searches /\ v \in Threads /\ After(v) \in Threads
    BY <1>6, AfterType DEF TypeOK, PcValues, Look, Searches
  <2>2. Buf(t) \in Slots
    BY <2>1, OwnType
  <2>3. start \in Threads
    BY <2>2 DEF TypeOK
  <2>4. CASE /\ search' = [search EXCEPT ![t].victim = After(v)]
             /\ UNCHANGED <<pc, parm4>>
    <3>1. search' \in [Threads -> Searches]
      BY <2>1, <2>4, Changed
    <3> QED BY <1>6, <2>4, <3>1 DEF TypeOK, PcValues, Look, ringVars
  <2>5. CASE NextTry(t, start) /\ UNCHANGED parm4
    <3>1. /\ pc' = [pc EXCEPT ![t] = "look"] \/ pc' = [pc EXCEPT ![t] = "status0"]
          /\ search' \in [Threads -> Searches]
      BY <2>3, <2>5, SearchGoesOn
    <3> QED BY <1>6, <2>1, <2>5, <3>1 DEF TypeOK, PcValues, Look, ringVars, Searching
  <2>6. CASE /\ SameCounter(t, v)
             /\ pc' = [pc EXCEPT ![t] = IF IsWide(t) THEN "peek" ELSE "steal"]
             /\ search' = [search EXCEPT ![t].slot = pr_current[v]]
             /\ parm4' = IF IsWide(t) THEN parm4 ELSE [parm4 EXCEPT ![t][Buf(t)] = v]
    <3>1. search' \in [Threads -> Searches]
      BY <2>1, <2>6, Changed DEF TypeOK
    <3>2. parm4' \in [Threads -> [Slots -> Threads]]
      BY <2>1, <2>2, <2>6, Updates DEF TypeOK
    <3> QED BY <1>6, <2>1, <2>6, <3>1, <3>2 DEF TypeOK, PcValues, Look, ringVars, Searching
  <2> QED BY <1>6, <2>4, <2>5, <2>6 DEF Look
<1>7. ASSUME NEW t \in Threads, GiveUp(t), pc[t] # "idle"
      PROVE  /\ parm4' \in [Threads -> [Slots -> Threads]]
             /\ pc' = [pc EXCEPT ![t] = "look"] \/ pc' = [pc EXCEPT ![t] = "status0"]
             /\ search' \in [Threads -> Searches]
  <2>1. After(search[t].victim) \in Threads
    BY AfterType DEF TypeOK, PcValues, Searches
  <2>2. Buf(t) \in Slots
    BY <1>7, OwnType
  <2>3. parm4' \in [Threads -> [Slots -> Threads]]
    BY <1>7, <2>1, <2>2, Updates DEF GiveUp
  <2> QED BY <1>7, <2>1, <2>3, SearchGoesOn DEF GiveUp
<1>8. ASSUME NEW t \in Threads, Peek(t) PROVE TypeOK'
  <2>1. pc[t] # "idle"
    BY <1>8 DEF Peek
  <2>2. CASE GiveUp(t)
    BY <1>7, <1>8, <2>1, <2>2 DEF TypeOK, PcValues, Peek, ringVars, Searching
  <2>3. CASE pc' = [pc EXCEPT ![t] = "steal"] /\ UNCHANGED <<search, parm4>>
    BY <1>8, <2>1, <2>3 DEF TypeOK, PcValues, Peek, ringVars, Searching
  <2> QED BY <1>8, <2>2, <2>3 DEF Peek
<1>9. ASSUME NEW t \in Threads, Steal(t) PROVE TypeOK'
  <2>1. /\ pc[t] # "idle" /\ search[t].slot \in Slots /\ search[t].victim \in Threads
        /\ Victim(t) \in Ranges
    BY <1>9 DEF Steal, TypeOK, SlotKnown, Victim, Searches
  <2>2. CASE Victim(t).ub - Victim(t).count < 2
    BY <1>7, <1>9, <2>1, <2>2 DEF TypeOK, PcValues, Steal, ringVars, Searching
  <2>3. CASE ~(Victim(t).ub - Victim(t).count < 2)
    <3>1. UbLeft(Victim(t)) \in Nat /\ Victim(t).ub \in Nat
      <4>1. Victim(t).ub \in Nat /\ Victim(t).count \in Nat
        BY <2>1 DEF Ranges
      <4>2. Victim(t).ub - Victim(t).count >= 2
        BY <2>3, <4>1
      <4> QED BY <2>1, <4>1, <4>2, UbLeftRange
    <3>2. range' \in [Threads -> [Slots -> Ranges]]
      <4> DEFINE r == [Victim(t) EXCEPT !.ub = UbLeft(Victim(t))]
      <4>1. r \in Ranges
        BY <2>1, <3>1 DEF Ranges
      <4>2. range' = [range EXCEPT ![search[t].victim][search[t].slot] = r]
        BY <1>9, <2>3 DEF Steal, Victim
      <4> HIDE DEF r
      <4> QED BY <2>1, <4>1, <4>2, Updates
    <3>3. search' \in [Threads -> Searches]
      <4>1. search' = [search EXCEPT ![t].init = UbLeft(Victim(t)), ![t].limit = Victim(t).ub]
        BY <1>9, <2>3 DEF Steal
      <4> QED BY <3>1, <4>1, Changed
    <3>4. parm4' \in [Threads -> [Slots -> Threads]]
      <4>1. Buf(t) \in Slots
        BY <2>1, OwnType
      <4>2. parm4' = [parm4 EXCEPT ![t][Buf(t)] = search[t].victim]
        BY <1>9, <2>3 DEF Steal
      <4> QED BY <2>1, <4>1, <4>2, Updates
    <3> QED BY <1>9, <2>1, <2>3, <3>2, <3>3, <3>4 DEF TypeOK, PcValues, Steal, ringVars, Searching
  <2> QED BY <2>2, <2>3
<1>10. ASSUME NEW t \in Threads, Install(t) PROVE TypeOK'
  <2>1. search[t].init + 1 \in Nat /\ search[t].limit \in Nat
    BY DEF TypeOK, PcValues, Searches
  <2>2. range' \in [Threads -> [Slots -> Ranges]]
    BY <1>10, <2>1 DEF TypeOK, PcValues, Install, Ranges
  <2>3. NoSearch \in Searches
    BY NoSearchType
  <2>4. given' \in [Loops -> [Chunks -> Nat]]
    BY <1>10, GiveType DEF Install
  <2> QED BY <1>10, <2>2, <2>3, <2>4 DEF TypeOK, PcValues, Install, ringVars
<1>11. ASSUME NEW t \in Threads, CountOut(t) PROVE TypeOK'
  <2>1. Buf(t) \in Slots
    BY <1>11, OwnType DEF CountOut
  <2>2. num_done[Buf(t)] + 1 \in Nat
    BY <2>1 DEF TypeOK
  <2> QED BY <1>11, <2>2 DEF TypeOK, PcValues, CountOut
<1>12. ASSUME NEW t \in Threads, DestroyLocks(t) PROVE TypeOK'
  BY <1>12 DEF TypeOK, PcValues, DestroyLocks, ringVars
<1>13. ASSUME NEW t \in Threads, Release(t) PROVE TypeOK'
  <2>1. Buf(t) \in Slots
    BY <1>13, OwnType DEF Release
  <2>2. buffer_index[Buf(t)] + NumBuffers \in Nat
    BY <2>1, TeamAssumption DEF TypeOK
  <2> QED BY <1>13, <2>2 DEF TypeOK, PcValues, Release
<1>14. ASSUME NEW t \in Threads, Detach(t) PROVE TypeOK'
  BY <1>14 DEF TypeOK, PcValues, Detach, ringVars
<1>15. CASE UNCHANGED vars
  BY <1>15 DEF TypeOK, PcValues, vars, ringVars
<1> QED BY <1>1, <1>2, <1>3, <1>4, <1>5, <1>6, <1>8, <1>9, <1>10, <1>11, <1>12,
           <1>13, <1>14, <1>15 DEF Next, Finished, ThreadStep
---------------------------------------------------------------------------
LEMMA SlotNext == TypeOK /\ SlotKnown /\ [Next]_vars => SlotKnown'
<1> SUFFICES ASSUME TypeOK, SlotKnown, [Next]_vars PROVE SlotKnown'
  OBVIOUS
<1>0. pc \in [Threads -> PcValues] /\ search \in [Threads -> Searches]
  BY DEF TypeOK
\* Every step but Look and Peek leaves the slots known, or the thread elsewhere.
<1>1. ASSUME NEW t \in Threads,
             \A u \in Threads \ {t} : pc'[u] = pc[u] /\ search'[u] = search[u],
             pc'[t] \in {"peek", "steal"} => search'[t].slot \in Slots
      PROVE  SlotKnown'
  BY <1>1 DEF SlotKnown
<1>2. ASSUME NEW t \in Threads, Enter(t) \/ BufferFree(t) \/ Ready(t) \/ Install(t)
             \/ CountOut(t) \/ DestroyLocks(t) \/ Release(t) \/ Detach(t)
      PROVE  SlotKnown'
  <2>1. \A u \in Threads \ {t} : pc'[u] = pc[u] /\ search'[u] = search[u]
    BY <1>0, <1>2 DEF Enter, BufferFree, Ready, Install, CountOut, DestroyLocks, Release, Detach
  <2>2. pc'[t] \notin {"peek", "steal"}
    BY <1>0, <1>2 DEF Enter, BufferFree, Ready, Install, CountOut, DestroyLocks, Release, Detach
  <2> QED BY <1>1, <2>1, <2>2
<1>3. ASSUME NEW t \in Threads, TestOwn(t) \/ TakeOwn(t) PROVE SlotKnown'
  <2>1. \A u \in Threads \ {t} : pc'[u] = pc[u] /\ search'[u] = search[u]
    BY <1>0, <1>3 DEF TestOwn, TakeOwn, StartSearch
  <2>2. pc'[t] \notin {"peek", "steal"}
    BY <1>0, <1>3 DEF TestOwn, TakeOwn, StartSearch
  <2> QED BY <1>1, <2>1, <2>2
<1>4. ASSUME NEW t \in Threads, NEW first, NextTry(t, first)
      PROVE  /\ \A u \in Threads \ {t} : pc'[u] = pc[u] /\ search'[u] = search[u]
             /\ pc'[t] \notin {"peek", "steal"}
  BY <1>0, <1>4 DEF NextTry
<1>5. ASSUME NEW t \in Threads, Look(t) PROVE SlotKnown'
  <2> DEFINE v == search[t].victim
  <2>1. v \in Threads
    BY <1>0 DEF Searches
  <2>2. CASE NextTry(t, parm4[t][Buf(t)])
    BY <1>1, <1>4, <2>2
  <2>3. CASE UNCHANGED pc /\ search' = [search EXCEPT ![t].victim = After(v)]
    BY <1>0, <1>1, <1>5, <2>3 DEF Look
  <2>4. CASE /\ SameCounter(t, v)
             /\ pc' = [pc EXCEPT ![t] = IF IsWide(t) THEN "peek" ELSE "steal"]
             /\ search' = [search EXCEPT ![t].slot = pr_current[v]]
    <3>1. pr_current[v] \in Slots
      BY <2>1, <2>4 DEF SameCounter, TypeOK
    <3>2. search'[t].slot = pr_current[v]
      BY <1>0, <2>4 DEF Searches
    <3> QED BY <1>0, <1>1, <2>4, <3>1, <3>2
  <2> QED BY <1>5, <2>2, <2>3, <2>4 DEF Look
<1>6. ASSUME NEW t \in Threads, Peek(t) PROVE SlotKnown'
  <2>1. CASE GiveUp(t)
    BY <1>1, <1>4, <2>1 DEF GiveUp
  <2>2. CASE pc' = [pc EXCEPT ![t] = "steal"] /\ UNCHANGED search
    BY <1>0, <1>1, <1>6, <2>2 DEF Peek, SlotKnown
  <2> QED BY <1>6, <2>1, <2>2 DEF Peek
<1>7. ASSUME NEW t \in Threads, Steal(t) PROVE SlotKnown'
  <2>1. CASE GiveUp(t)
    BY <1>1, <1>4, <2>1 DEF GiveUp
  <2>2. CASE /\ pc' = [pc EXCEPT ![t] = "install"]
             /\ search' = [search EXCEPT ![t].init = UbLeft(Victim(t)), ![t].limit = Victim(t).ub]
    <3>1. /\ \A u \in Threads \ {t} : pc'[u] = pc[u] /\ search'[u] = search[u]
          /\ pc'[t] = "install"
      BY <1>0, <2>2
    <3> QED BY <1>1, <3>1
  <2> QED BY <1>7, <2>1, <2>2 DEF Steal
<1>8. CASE UNCHANGED vars
  BY <1>8 DEF SlotKnown, vars
<1> QED BY <1>2, <1>3, <1>5, <1>6, <1>7, <1>8 DEF Next, Finished, ThreadStep
---------------------------------------------------------------------------
\* What keeps the store safe: no step of another thread moves a searching thread
\* into another loop, or makes its range longer.
LEMMA QuietNext == IInv /\ [Next]_vars => QuietEmpty'
<1> SUFFICES ASSUME IInv, [Next]_vars,
                    NEW t \in Threads, Quiet(t)'
             PROVE  (Own(t).count >= Own(t).ub)'
  BY DEF QuietEmpty
<1>0. TypeOK /\ SlotKnown /\ QuietEmpty /\ pc \in [Threads -> PcValues]
  BY DEF IInv, TypeOK
<1>1. loop \in [Threads -> Nat] /\ range \in [Threads -> [Slots -> Ranges]]
  BY <1>0, ChunksAssumption DEF TypeOK
<1>2. ASSUME NEW u \in Threads, Enter(u) PROVE (Own(t).count >= Own(t).ub)'
  <2>1. u # t /\ Quiet(t)
    BY <1>0, <1>2 DEF Enter, Quiet
  <2>2. loop'[t] = loop[t] /\ range'[t] = range[t]
    BY <1>1, <1>2, <2>1 DEF Enter
  <2> QED BY <1>0, <2>1, <2>2 DEF QuietEmpty, Own, Buf
<1>3. ASSUME Quiet(t), loop'[t] = loop[t], range'[t] = range[t]
      PROVE  (Own(t).count >= Own(t).ub)'
  BY <1>0, <1>3 DEF QuietEmpty, Own, Buf
<1>4. ASSUME NEW u \in Threads, BufferFree(u) \/ Ready(u) \/ CountOut(u) \/ DestroyLocks(u)
             \/ Release(u) \/ Detach(u) \/ Look(u) \/ Peek(u)
      PROVE  (Own(t).count >= Own(t).ub)'
  <2>1. loop' = loop /\ range' = range
    BY <1>4 DEF BufferFree, Ready, CountOut, DestroyLocks, Release, Detach, Look, Peek
  <2>2. Quiet(t)
    BY <1>0, <1>4 DEF BufferFree, Ready, CountOut, DestroyLocks, Release, Detach, Look, Peek,
       NextTry, GiveUp, Quiet
  <2> QED BY <1>3, <2>1, <2>2
<1>5. ASSUME NEW u \in Threads, TestOwn(u) PROVE (Own(t).count >= Own(t).ub)'
  <2>1. loop' = loop /\ range' = range
    BY <1>5 DEF TestOwn
  <2>2. CASE u # t
    <3>1. Quiet(t)
      BY <1>0, <1>5, <2>2 DEF TestOwn, StartSearch, Quiet
    <3> QED BY <1>3, <2>1, <3>1
  <2>3. CASE u = t
    <3>1. pc[t] # "idle" /\ ~(Own(t).count < Own(t).ub)
      BY <1>0, <1>5, <2>3 DEF TestOwn, Quiet
    <3>2. Own(t) \in Ranges
      BY <1>0, <3>1, OwnType
    <3> QED BY <2>1, <3>1, <3>2 DEF Own, Buf, Ranges
  <2> QED BY <2>2, <2>3
<1>6. ASSUME NEW u \in Threads, TakeOwn(u) PROVE (Own(t).count >= Own(t).ub)'
  <2>1. CASE u # t
    <3>1. Quiet(t)
      BY <1>0, <1>6, <2>1 DEF TakeOwn, StartSearch, Quiet
    <3>2. loop'[t] = loop[t] /\ range'[t] = range[t]
      BY <1>1, <1>6, <2>1 DEF TakeOwn
    <3> QED BY <1>3, <3>1, <3>2
  <2>2. CASE u = t
    <3>1. pc[t] # "idle" /\ ~(Own(t).count < Own(t).ub)
      BY <1>0, <1>6, <2>2 DEF TakeOwn, Quiet
    <3>2. Own(t) \in Ranges /\ Buf(t) \in Slots
      BY <1>0, <3>1, OwnType
    <3>3. /\ loop' = loop
          /\ range'[t][Buf(t)].count = Own(t).count + 1
          /\ range'[t][Buf(t)].ub = Own(t).ub
      BY <1>1, <1>6, <2>2, <3>2 DEF TakeOwn, Own, Ranges
    <3>4. Own(t).count \in Nat /\ Own(t).ub \in Nat
      BY <3>2 DEF Ranges
    <3>5. Own(t)' = range'[t][Buf(t)]
      BY <3>3 DEF Own, Buf
    <3> QED BY <3>1, <3>3, <3>4, <3>5
  <2> QED BY <2>1, <2>2
<1>7. ASSUME NEW u \in Threads, Steal(u) PROVE (Own(t).count >= Own(t).ub)'
  <2> DEFINE v == search[u].victim
             b == search[u].slot
  <2>1. /\ pc[u] = "steal" /\ b \in Slots /\ v \in Threads /\ loop' = loop
        /\ Victim(u) \in Ranges /\ Victim(u) = range[v][b]
    BY <1>0, <1>7 DEF Steal, TypeOK, SlotKnown, Victim, Searches
  <2>2. Quiet(t)
    BY <1>0, <1>7 DEF Steal, GiveUp, NextTry, Quiet
  <2>3. Own(t).count >= Own(t).ub
    BY <1>0, <2>2 DEF QuietEmpty
  <2>4. CASE Victim(u).ub - Victim(u).count < 2
    BY <1>3, <1>7, <2>1, <2>2, <2>4 DEF Steal
  <2>5. CASE ~(Victim(u).ub - Victim(u).count < 2)
    <3>1. v # t \/ b # Buf(t)
      <4>1. Victim(u).ub \in Nat /\ Victim(u).count \in Nat
        BY <2>1 DEF Ranges
      <4> QED BY <2>1, <2>3, <2>5, <4>1 DEF Own
    <3>2. range' = [range EXCEPT ![v][b].ub = UbLeft(Victim(u))]
      BY <1>7, <2>5 DEF Steal
    <3>3. range'[t][Buf(t)] = range[t][Buf(t)]
      <4>1. range'[t] = IF v = t THEN [range[t] EXCEPT ![b].ub = UbLeft(Victim(u))]
                                 ELSE range[t]
        BY <1>1, <3>2
      <4>2. Buf(t) \in Slots
        <5>1. loop[t] > 0
          BY <2>2 DEF Quiet
        <5> QED BY <1>0, <5>1, OwnType
      <4>3. range[t] \in [Slots -> Ranges]
        BY <1>1
      <4>4. Buf(t) # b => [range[t] EXCEPT ![b].ub = UbLeft(Victim(u))][Buf(t)] = range[t][Buf(t)]
        BY <4>2, <4>3
      <4> QED BY <3>1, <4>1, <4>4
    <3>4. range'[t][Buf(t)] = Own(t)
      BY <3>3 DEF Own
    <3>5. Own(t)' = range'[t][Buf(t)]
      BY <2>1 DEF Own, Buf
    <3> QED BY <2>3, <3>4, <3>5
  <2> QED BY <2>4, <2>5
<1>8. ASSUME NEW u \in Threads, Install(u) PROVE (Own(t).count >= Own(t).ub)'
  <2>1. u # t /\ Quiet(t)
    BY <1>0, <1>8 DEF Install, Quiet
  <2>2. loop'[t] = loop[t] /\ range'[t] = range[t]
    BY <1>1, <1>8, <2>1 DEF Install
  <2> QED BY <1>3, <2>1, <2>2
<1>9. CASE UNCHANGED vars
  BY <1>3, <1>9 DEF vars, Quiet
<1> QED BY <1>2, <1>4, <1>5, <1>6, <1>7, <1>8, <1>9 DEF Next, Finished, ThreadStep
---------------------------------------------------------------------------
LEMMA Invariance == Spec => []IInv
<1>1. IInv /\ [Next]_vars => IInv'
  BY TypeNext, SlotNext, QuietNext DEF IInv
<1> QED BY <1>1, Begin, PTL DEF Spec

\* Type correctness, for every team, ring and sequence of loops: in particular the
\* ranges keep natural bounds and a thief always holds its victim's descriptor.
THEOREM TypeCorrect == Spec => []TypeOK
<1>1. IInv => TypeOK
  BY DEF IInv
<1> QED BY <1>1, Invariance, PTL

\* A thread that searches for a victim has an empty range until it stores the
\* stolen one: the plain store in the 4-byte loop loses no thief's update, with
\* or without a barrier between the loops.
THEOREM StoreIsSafe == Spec => []StoreAlone
<1>1. IInv => StoreAlone
  BY DEF IInv, StoreAlone, QuietEmpty, Quiet, TypeOK, Searching
<1> QED BY <1>1, Invariance, PTL

---------------------------------------------------------------------------
(* With a barrier after every loop, each chunk is executed exactly once.   *)

LEMMA MulMono ==
    ASSUME NEW q \in Nat, NEW a \in Nat, NEW b \in Nat, a <= b
    PROVE  q * a \in Nat /\ q * b \in Nat /\ q * a <= q * b /\ (a < b => q * a + q <= q * b)
<1>1. PICK k \in Nat : b = a + k
  <2>1. b - a \in Nat /\ b = a + (b - a)
    OBVIOUS
  <2> QED BY <2>1
<1>2. q * (a + k) = q * a + q * k /\ q * k \in Nat /\ q * a \in Nat
  OBVIOUS
<1>3. CASE k = 0
  BY <1>1, <1>2, <1>3
<1>4. CASE k # 0
  <2>1. PICK j \in Nat : k = j + 1
    <3>1. k - 1 \in Nat /\ k = (k - 1) + 1
      BY <1>4
    <3> QED BY <3>1
  <2>2. q * (j + 1) = q * j + q /\ q * j \in Nat
    OBVIOUS
  <2>3. q * k = q * j + q
    BY <2>1, <2>2
  <2> QED BY <1>1, <1>2, <2>2, <2>3
<1> QED BY <1>3, <1>4

LEMMA DivRest ==
    ASSUME NEW c \in Nat, NEW m \in Nat, m > 0
    PROVE  \E k \in Nat, r \in Nat : r < m /\ c = m * k + r
<1> DEFINE k == c \div m
           r == c % m
<1>1. m \in Nat \ {0} /\ c \in Nat
  OBVIOUS
<1>2. k \in Nat /\ r \in Nat /\ r < m /\ c = m * k + r
  BY <1>1
<1> QED BY <1>2

\* A share in terms of the quotient q and the remainder e of n by the team's size.
ShareIs(q, e, n) ==
    \A t \in Threads :
        /\ t \in Nat /\ t < NProc /\ q * t \in Nat
        /\ Share(t, n).count = q * t + (IF t < e THEN t ELSE e)
        /\ Share(t, n).ub = q * t + (IF t < e THEN t ELSE e) + q + (IF t < e THEN 1 ELSE 0)

LEMMA Quotient ==
    ASSUME NEW n \in Nat, n >= NProc
    PROVE  \E q \in Nat, e \in Nat :
              q > 0 /\ e < NProc /\ n = q * NProc + e /\ ShareIs(q, e, n)
<1> DEFINE q == n \div NProc
           e == n % NProc
<1>1. NProc \in Nat /\ NProc > 1
  BY TeamAssumption
<1>2. q \in Nat /\ e \in Nat /\ e < NProc /\ n = NProc * q + e
  BY <1>1
<1>3. q > 0
  <2>1. q = 0 => NProc * q = 0
    BY <1>1
  <2> HIDE DEF q, e
  <2> QED BY <1>1, <1>2, <2>1
<1>4. NProc * q = q * NProc
  <2> HIDE DEF q
  <2> QED BY <1>1, <1>2
<1>5. ShareIs(q, e, n)
  <2> SUFFICES ASSUME NEW t \in Threads
               PROVE  /\ t \in Nat /\ t < NProc /\ q * t \in Nat
                      /\ Share(t, n).count = q * t + (IF t < e THEN t ELSE e)
                      /\ Share(t, n).ub = q * t + (IF t < e THEN t ELSE e) + q + (IF t < e THEN 1 ELSE 0)
    BY DEF ShareIs
  <2>1. t \in Nat /\ t < NProc
    BY <1>1 DEF Threads
  <2>2. q * t \in Nat /\ t * q = q * t
    <3> HIDE DEF q
    <3> QED BY <1>2, <2>1
  <2>3. Share(t, n) = [count |-> t * q + (IF t < e THEN t ELSE e),
                       ub |-> t * q + (IF t < e THEN t ELSE e) + q + (IF t < e THEN 1 ELSE 0)]
    BY DEF Share
  <2> HIDE DEF q, e
  <2> QED BY <2>1, <2>2, <2>3
<1> HIDE DEF q, e
<1> QED BY <1>2, <1>3, <1>4, <1>5

\* The shares of the team follow each other without overlap and end with the last chunk ...
LEMMA SharesApart ==
    ASSUME NEW n \in Nat, n >= NProc
    PROVE  /\ \A t \in Threads : Share(t, n).ub <= n
           /\ \A t, u \in Threads : t < u => Share(t, n).ub <= Share(u, n).count
<1>0. NProc \in Nat
  BY TeamAssumption
<1>1. PICK q \in Nat, e \in Nat :
         q > 0 /\ e < NProc /\ n = q * NProc + e /\ ShareIs(q, e, n)
  BY Quotient
<1>2. ASSUME NEW t \in Threads PROVE Share(t, n).ub <= n
  <2>1. t \in Nat /\ t < NProc /\ Share(t, n).ub = q * t + (IF t < e THEN t ELSE e) + q + (IF t < e THEN 1 ELSE 0)
    BY <1>1 DEF ShareIs
  <2>2. q * t + q <= q * NProc /\ q * t \in Nat /\ q * NProc \in Nat
    BY <1>0, <2>1, MulMono
  <2> QED BY <1>0, <1>1, <2>1, <2>2
<1>3. ASSUME NEW t \in Threads, NEW u \in Threads, t < u
      PROVE  Share(t, n).ub <= Share(u, n).count
  <2>1. /\ t \in Nat /\ u \in Nat
        /\ Share(t, n).ub = q * t + (IF t < e THEN t ELSE e) + q + (IF t < e THEN 1 ELSE 0)
        /\ Share(u, n).count = q * u + (IF u < e THEN u ELSE e)
    BY <1>1 DEF ShareIs
  <2>2. q * t + q <= q * u /\ q * t \in Nat /\ q * u \in Nat
    BY <1>3, <2>1, MulMono
  <2> QED BY <1>1, <1>3, <2>1, <2>2
<1> QED BY <1>2, <1>3

\* ... and leave none out.
LEMMA SharesCover ==
    ASSUME NEW n \in Nat, n >= NProc, NEW c \in 0 .. n - 1
    PROVE  \E t \in Threads : c \in Span(Share(t, n))
<1>0. NProc \in Nat /\ NProc > 1 /\ c \in Nat /\ c < n
  BY TeamAssumption
<1>1. PICK q \in Nat, e \in Nat :
         q > 0 /\ e < NProc /\ n = q * NProc + e /\ ShareIs(q, e, n)
  BY Quotient
<1>2. q * e \in Nat /\ q * NProc \in Nat
  BY <1>0, <1>1
<1>3. CASE c < q * e + e
  <2>1. PICK t \in Nat, r \in Nat : r < q + 1 /\ c = (q + 1) * t + r
    <3>1. q + 1 \in Nat /\ q + 1 > 0
      OBVIOUS
    <3> QED BY <1>0, <3>1, DivRest
  <2>2. (q + 1) * t = q * t + t /\ (q + 1) * e = q * e + e /\ q * t \in Nat
    OBVIOUS
  <2>3. t < e
    <3>1. e <= t => (q + 1) * e <= (q + 1) * t
      <4>1. q + 1 \in Nat
        OBVIOUS
      <4> QED BY <4>1, MulMono
    <3> QED BY <1>0, <1>2, <1>3, <2>1, <2>2, <3>1
  <2>4. t \in Threads
    BY <1>0, <1>1, <2>3 DEF Threads
  <2>5. Share(t, n).count = q * t + t /\ Share(t, n).ub = q * t + t + q + 1
    BY <1>1, <2>3, <2>4 DEF ShareIs
  <2>6. c \in q * t + t .. (q * t + t + q + 1) - 1
    BY <1>0, <2>1, <2>2
  <2> QED BY <2>4, <2>5, <2>6 DEF Span
<1>4. CASE ~(c < q * e + e)
  <2>1. c - e \in Nat /\ c - e >= q * e /\ c - e < q * NProc
    BY <1>0, <1>1, <1>2, <1>4
  <2>2. PICK t \in Nat, r \in Nat : r < q /\ c - e = q * t + r
    BY <1>1, <2>1, DivRest
  <2>3. q * t \in Nat
    OBVIOUS
  <2>4. e <= t
    <3>1. t < e => q * t + q <= q * e
      BY MulMono
    <3> QED BY <1>2, <2>1, <2>2, <2>3, <3>1
  <2>5. t < NProc
    <3>1. NProc <= t => q * NProc <= q * t
      BY <1>0, MulMono
    <3> QED BY <1>0, <1>2, <2>1, <2>2, <2>3, <3>1
  <2>6. t \in Threads
    BY <1>0, <2>5 DEF Threads
  <2>7. Share(t, n).count = q * t + e /\ Share(t, n).ub = q * t + e + q
    BY <1>1, <2>3, <2>4, <2>6 DEF ShareIs
  <2>8. c \in q * t + e .. (q * t + e + q) - 1
    BY <1>0, <1>1, <2>2, <2>3
  <2> QED BY <2>6, <2>7, <2>8 DEF Span
<1> QED BY <1>3, <1>4
---------------------------------------------------------------------------
\* With barriers, a thread is ahead of another by one loop at most, and then the
\* other has not begun it.
Bar == \A t, u \in Threads : loop[u] > loop[t] => loop[u] = loop[t] + 1 /\ pc[t] = "idle"

\* The descriptor that others can find belongs to the loop its owner is in.
Current ==
    \A v \in Threads :
        pr_current[v] # Null => pc[v] \notin {"idle", "wait"} /\ pr_current[v] = Buf(v)

\* So a thief's victim is in the thief's loop.
Target ==
    \A t \in Threads : pc[t] \in {"peek", "steal"} =>
        search[t].slot = Buf(t) /\ loop[search[t].victim] = loop[t]

\* Ranges and spoils are of chunks that the loop has.
Fits ==
    \A t \in Threads :
        /\ loop[t] > 0 => Own(t).ub <= Ntc[loop[t]]
        /\ pc[t] = "install" => search[t].init < search[t].limit
                                 /\ search[t].limit <= Ntc[loop[t]]

Beyond == \A l \in Loops : \A c \in Chunks : c >= Ntc[l] => given[l][c] = 0

OneAt(l, c) ==
    /\ given[l][c] = IF \E t \in Threads : Holds(t, l, c) THEN 0 ELSE 1
    /\ \A t, u \in Threads : Holds(t, l, c) /\ Holds(u, l, c) => t = u

OInv == IInv /\ Bar /\ Current /\ Target /\ Fits /\ Beyond /\ OnePlace
---------------------------------------------------------------------------
\* Steps of x that leave the chunks where they are.
Still(x) ==
    /\ range' = range /\ loop' = loop /\ given' = given
    /\ \A u \in Threads \ {x} : pc'[u] = pc[u] /\ search'[u] = search[u]
    /\ pc[x] \notin {"idle", "install"} /\ pc'[x] \notin {"wait", "install"}

Theft(x) == Steal(x) /\ ~(Victim(x).ub - Victim(x).count < 2)

LEMMA TryStill ==
    ASSUME TypeOK, NEW x \in Threads, NEW first, NextTry(x, first)
    PROVE  /\ \A u \in Threads \ {x} : pc'[u] = pc[u] /\ search'[u] = search[u]
           /\ pc'[x] \in {"status0", "look"}
<1>1. pc \in [Threads -> PcValues] /\ search \in [Threads -> Searches]
  BY DEF TypeOK
<1> QED BY <1>1 DEF NextTry

LEMMA PlainStill ==
    ASSUME TypeOK, NEW x \in Threads,
           BufferFree(x) \/ Ready(x) \/ TestOwn(x) \/ CountOut(x) \/ DestroyLocks(x)
           \/ Release(x) \/ Detach(x)
    PROVE  Still(x) /\ pc'[x] \notin {"peek", "steal"}
<1>1. pc \in [Threads -> PcValues] /\ search \in [Threads -> Searches]
  BY DEF TypeOK
<1>2. range' = range /\ loop' = loop /\ given' = given
  BY DEF BufferFree, Ready, TestOwn, CountOut, DestroyLocks, Release, Detach
<1>3. \A u \in Threads \ {x} : pc'[u] = pc[u] /\ search'[u] = search[u]
  BY <1>1 DEF BufferFree, Ready, TestOwn, CountOut, DestroyLocks, Release, Detach, StartSearch
<1>4. /\ pc[x] \notin {"idle", "install"}
      /\ pc'[x] \notin {"wait", "install", "peek", "steal"}
  BY <1>1 DEF BufferFree, Ready, TestOwn, CountOut, DestroyLocks, Release, Detach, StartSearch
<1> QED BY <1>2, <1>3, <1>4 DEF Still

LEMMA SearchStill ==
    ASSUME TypeOK, NEW x \in Threads, Look(x) \/ Peek(x) \/ (Steal(x) /\ ~Theft(x))
    PROVE  Still(x)
<1>1. pc \in [Threads -> PcValues] /\ search \in [Threads -> Searches]
  BY DEF TypeOK
<1>2. range' = range /\ loop' = loop /\ given' = given /\ pc[x] \notin {"idle", "install"}
  BY DEF Look, Peek, Steal, Theft
<1>3. CASE \E first : NextTry(x, first)
  BY <1>2, <1>3, TryStill DEF Still
<1>4. CASE Look(x) /\ ~\E first : NextTry(x, first)
  <2>1. pc[x] = "look"
    BY <1>4 DEF Look
  <2>2. CASE UNCHANGED pc /\ search' = [search EXCEPT ![x].victim = After(search[x].victim)]
    BY <1>1, <1>2, <2>1, <2>2 DEF Still
  <2>3. CASE /\ pc' = [pc EXCEPT ![x] = IF IsWide(x) THEN "peek" ELSE "steal"]
             /\ search' = [search EXCEPT ![x].slot = pr_current[search[x].victim]]
    BY <1>1, <1>2, <2>3 DEF Still
  <2> QED BY <1>4, <2>2, <2>3 DEF Look
<1>5. CASE Peek(x) /\ ~\E first : NextTry(x, first)
  <2>1. pc' = [pc EXCEPT ![x] = "steal"] /\ UNCHANGED search
    BY <1>5 DEF Peek, GiveUp
  <2> QED BY <1>1, <1>2, <2>1 DEF Still
<1>6. CASE Steal(x) /\ ~Theft(x) /\ ~\E first : NextTry(x, first)
  BY <1>6 DEF Steal, Theft, GiveUp
<1> QED BY <1>3, <1>4, <1>5, <1>6

\* The kinds of step.
LEMMA Steps ==
    ASSUME TypeOK, [Next]_vars
    PROVE  \/ UNCHANGED vars
           \/ \E x \in Threads : Enter(x) \/ TakeOwn(x) \/ Theft(x) \/ Install(x) \/ Still(x)
<1>1. CASE UNCHANGED vars
  BY <1>1
<1>2. CASE \E x \in Threads : ThreadStep(x)
  BY <1>2, PlainStill, SearchStill DEF ThreadStep
<1> QED BY <1>1, <1>2 DEF Next, Finished

LEMMA InLoop == ASSUME TypeOK, NEW x \in Threads, pc[x] # "idle" PROVE loop[x] \in Loops
<1>1. loop[x] \in 0 .. NumLoops /\ loop[x] > 0 /\ NumLoops \in Nat
  BY ChunksAssumption DEF TypeOK
<1>2. loop[x] \in 1 .. NumLoops
  BY <1>1
<1> QED BY <1>2 DEF Loops

\* What the other steps change.
LEMMA TakeOwnChanges ==
    ASSUME TypeOK, NEW x \in Threads, TakeOwn(x)
    PROVE  /\ loop' = loop /\ pc[x] \notin {"idle", "wait", "install"} /\ loop[x] \in Loops
           /\ \A u \in Threads \ {x} : pc'[u] = pc[u] /\ search'[u] = search[u] /\ range'[u] = range[u]
           /\ pc'[x] \in {"next", "look"}
           /\ Own(x) \in Ranges /\ Own(x)' = [count |-> Own(x).count + 1, ub |-> Own(x).ub]
           /\ IF Own(x).count < Own(x).ub THEN Give(x, Own(x).count) ELSE UNCHANGED given
<1>1. /\ pc \in [Threads -> PcValues] /\ search \in [Threads -> Searches]
      /\ range \in [Threads -> [Slots -> Ranges]]
  BY DEF TypeOK
<1>2. loop' = loop /\ pc[x] \notin {"idle", "wait", "install"}
  BY DEF TakeOwn
<1>3. loop[x] \in Nat /\ Buf(x) \in Slots /\ Own(x) \in Ranges
  BY <1>2, OwnType
<1>4. loop[x] \in Loops
  BY <1>2, InLoop
<1>5. \A u \in Threads \ {x} : pc'[u] = pc[u] /\ search'[u] = search[u]
  BY <1>1 DEF TakeOwn, StartSearch
<1>6. pc'[x] \in {"next", "look"}
  BY <1>1 DEF TakeOwn, StartSearch
<1>7. range' = [range EXCEPT ![x][Buf(x)].count = Own(x).count + 1]
  BY DEF TakeOwn, Own
<1>8. \A u \in Threads \ {x} : range'[u] = range[u]
  BY <1>1, <1>7
<1>9. range'[x][Buf(x)] = [count |-> Own(x).count + 1, ub |-> Own(x).ub]
  BY <1>1, <1>3, <1>7 DEF Own, Ranges
<1>10. Own(x)' = range'[x][Buf(x)]
  BY <1>2 DEF Own, Buf
<1>11. IF Own(x).count < Own(x).ub THEN Give(x, Own(x).count) ELSE UNCHANGED given
  BY DEF TakeOwn
<1> QED BY <1>2, <1>3, <1>4, <1>5, <1>6, <1>8, <1>9, <1>10, <1>11

LEMMA InstallChanges ==
    ASSUME TypeOK, NEW x \in Threads, Install(x)
    PROVE  /\ loop' = loop /\ pc[x] = "install" /\ loop[x] \in Loops
           /\ \A u \in Threads \ {x} : pc'[u] = pc[u] /\ search'[u] = search[u] /\ range'[u] = range[u]
           /\ pc'[x] = "next"
           /\ search[x].init \in Nat /\ search[x].limit \in Nat
           /\ Own(x)' = [count |-> search[x].init + 1, ub |-> search[x].limit]
           /\ Give(x, search[x].init)
<1>1. /\ pc \in [Threads -> PcValues] /\ search \in [Threads -> Searches]
      /\ range \in [Threads -> [Slots -> Ranges]]
  BY DEF TypeOK
<1>2. loop' = loop /\ pc[x] = "install" /\ Give(x, search[x].init)
  BY DEF Install
<1>3. loop[x] \in Nat /\ Buf(x) \in Slots
  BY <1>2, OwnType
<1>4. loop[x] \in Loops
  BY <1>2, InLoop
<1>5. \A u \in Threads \ {x} : pc'[u] = pc[u] /\ search'[u] = search[u] /\ range'[u] = range[u]
  BY <1>1 DEF Install
<1>6. pc'[x] = "next"
  BY <1>1 DEF Install
<1>7. range'[x][Buf(x)] = [count |-> search[x].init + 1, ub |-> search[x].limit]
  BY <1>1, <1>3 DEF Install
<1>8. Own(x)' = range'[x][Buf(x)]
  BY <1>2 DEF Own, Buf
<1>9. search[x].init \in Nat /\ search[x].limit \in Nat
  BY <1>1 DEF Searches
<1> QED BY <1>2, <1>4, <1>5, <1>6, <1>7, <1>8, <1>9

LEMMA EnterChanges ==
    ASSUME TypeOK, NEW x \in Threads, Enter(x)
    PROVE  /\ given' = given /\ search' = search /\ pr_current' = pr_current
           /\ pc[x] = "idle" /\ pc'[x] = "wait"
           /\ loop[x] \in Nat /\ loop'[x] = loop[x] + 1 /\ loop'[x] \in Loops
           /\ \A u \in Threads \ {x} : pc'[u] = pc[u] /\ loop'[u] = loop[u] /\ range'[u] = range[u]
           /\ Own(x)' = Share(x, Ntc[loop[x] + 1])
<1>1. /\ pc \in [Threads -> PcValues] /\ loop \in [Threads -> 0 .. NumLoops]
      /\ range \in [Threads -> [Slots -> Ranges]]
  BY DEF TypeOK
<1>2. given' = given /\ search' = search /\ pr_current' = pr_current /\ pc[x] = "idle"
  BY DEF Enter
<1>3. loop[x] \in Nat /\ loop[x] < NumLoops /\ loop'[x] = loop[x] + 1
  BY <1>1, ChunksAssumption DEF Enter
<1>4. loop'[x] \in Loops
  BY <1>3, ChunksAssumption DEF Loops
<1>5. \A u \in Threads \ {x} : pc'[u] = pc[u] /\ loop'[u] = loop[u] /\ range'[u] = range[u]
  BY <1>1 DEF Enter
<1>6. pc'[x] = "wait"
  BY <1>1 DEF Enter
<1>7. Slot(loop[x] + 1) \in Slots
  BY <1>3, SlotType
<1>8. range'[x][Slot(loop[x] + 1)] = Share(x, Ntc[loop[x] + 1])
  BY <1>1, <1>7 DEF Enter
<1>9. Own(x)' = range'[x][Slot(loop[x] + 1)]
  BY <1>3 DEF Own, Buf
<1> QED BY <1>2, <1>3, <1>4, <1>5, <1>6, <1>8, <1>9

LEMMA TheftChanges ==
    ASSUME TypeOK, SlotKnown, Target, NEW x \in Threads, Theft(x),
           NEW v \in Threads, v = search[x].victim
    PROVE  /\ loop' = loop /\ given' = given /\ pc[x] = "steal" /\ pc'[x] = "install"
           /\ loop[v] = loop[x] /\ loop[x] \in Loops
           /\ Own(v) \in Ranges /\ Own(v).ub - Own(v).count >= 2
           /\ \A u \in Threads \ {x} : pc'[u] = pc[u] /\ search'[u] = search[u]
           /\ \A u \in Threads \ {v} : range'[u] = range[u]
           /\ Own(v)' = [count |-> Own(v).count, ub |-> UbLeft(Own(v))]
           /\ search'[x].init = UbLeft(Own(v)) /\ search'[x].limit = Own(v).ub
<1>1. /\ pc \in [Threads -> PcValues] /\ search \in [Threads -> Searches]
      /\ range \in [Threads -> [Slots -> Ranges]]
  BY DEF TypeOK
<1>2. loop' = loop /\ given' = given /\ pc[x] = "steal"
  BY DEF Theft, Steal
<1>4. loop[x] \in Loops /\ Buf(x) \in Slots
  BY <1>2, InLoop, OwnType
<1>5. search[x].slot = Buf(x) /\ loop[v] = loop[x]
  BY <1>2 DEF Target
<1>6. Buf(v) = Buf(x) /\ Victim(x) = Own(v)
  BY <1>5 DEF Buf, Victim, Own
<1>7. Own(v) \in Ranges
  BY <1>1, <1>4, <1>6 DEF Own
<1>8. Own(v).ub - Own(v).count >= 2
  BY <1>6, <1>7 DEF Theft, Ranges
<1>9. /\ pc' = [pc EXCEPT ![x] = "install"]
      /\ range' = [range EXCEPT ![v][Buf(v)].ub = UbLeft(Own(v))]
      /\ search' = [search EXCEPT ![x].init = UbLeft(Own(v)), ![x].limit = Own(v).ub]
  BY <1>5, <1>6 DEF Theft, Steal
<1>10. /\ pc'[x] = "install"
       /\ \A u \in Threads \ {x} : pc'[u] = pc[u] /\ search'[u] = search[u]
  BY <1>1, <1>9
<1>11. \A u \in Threads \ {v} : range'[u] = range[u]
  BY <1>1, <1>9
<1>12. range'[v][Buf(v)] = [count |-> Own(v).count, ub |-> UbLeft(Own(v))]
  BY <1>1, <1>4, <1>6, <1>7, <1>9 DEF Own, Ranges
<1>13. Own(v)' = range'[v][Buf(v)]
  BY <1>2, <1>5 DEF Own, Buf
<1>14. search'[x].init = UbLeft(Own(v)) /\ search'[x].limit = Own(v).ub
  BY <1>1, <1>9 DEF Searches
<1> QED BY <1>2, <1>4, <1>5, <1>7, <1>8, <1>10, <1>11, <1>12, <1>13, <1>14

LEMMA OwnSame ==
    ASSUME NEW t \in Threads, range'[t] = range[t], loop'[t] = loop[t]
    PROVE  Own(t)' = Own(t)
  BY DEF Own, Buf

LEMMA Given ==
    ASSUME TypeOK, NEW x \in Threads, NEW d, loop[x] \in Loops, Give(x, d)
    PROVE  \A l \in Loops : \A c \in Chunks :
              given'[l][c] = IF l = loop[x] /\ c = d THEN given[l][c] + 1 ELSE given[l][c]
<1>1. given \in [Loops -> [Chunks -> Nat]]
  BY DEF TypeOK
<1> QED BY <1>1 DEF Give

LEMMA ChunkType ==
    ASSUME NEW l \in Loops
    PROVE  /\ Ntc[l] \in Nat /\ Ntc[l] >= NProc
           /\ \A c \in 0 .. Ntc[l] - 1 : c \in Nat /\ c < Ntc[l] /\ c \in Chunks
  BY ChunksAssumption DEF Chunks
---------------------------------------------------------------------------
\* The parts of the invariant, one by one.  The barrier is used here only.
LEMMA BarNext == ~NoWait /\ TypeOK /\ SlotKnown /\ Target /\ Bar /\ [Next]_vars => Bar'
<1> SUFFICES ASSUME ~NoWait, TypeOK, SlotKnown, Target, Bar, [Next]_vars,
                    NEW t \in Threads, NEW u \in Threads, loop'[u] > loop'[t]
             PROVE  loop'[u] = loop'[t] + 1 /\ pc'[t] = "idle"
  BY DEF Bar
<1>0. \A y \in Threads : loop[y] \in Nat
  BY ChunksAssumption DEF TypeOK
<1>1. CASE UNCHANGED vars
  BY <1>1 DEF vars, Bar
<1>2. ASSUME NEW x \in Threads, Enter(x) PROVE loop'[u] = loop'[t] + 1 /\ pc'[t] = "idle"
  <2>1. \A y \in Threads : loop[y] > loop[x] \/ (loop[y] = loop[x] /\ pc[y] = "idle")
    BY <1>2 DEF Enter
  <2>2. /\ loop'[x] = loop[x] + 1
        /\ \A y \in Threads \ {x} : loop'[y] = loop[y] /\ pc'[y] = pc[y]
    BY <1>2, EnterChanges
  <2>3. t # x
    BY <1>0, <2>2 DEF Bar
  <2>4. CASE u = x
    BY <1>0, <2>1, <2>2, <2>3, <2>4
  <2>5. CASE u # x
    BY <2>2, <2>3, <2>5 DEF Bar
  <2> QED BY <2>4, <2>5
<1>3. ASSUME NEW x \in Threads, pc[x] # "idle", loop' = loop,
             \A y \in Threads \ {x} : pc'[y] = pc[y]
      PROVE  loop'[u] = loop'[t] + 1 /\ pc'[t] = "idle"
  BY <1>3 DEF Bar
<1>4. ASSUME NEW x \in Threads, TakeOwn(x) PROVE loop'[u] = loop'[t] + 1 /\ pc'[t] = "idle"
  <2>1. pc[x] # "idle" /\ loop' = loop /\ \A y \in Threads \ {x} : pc'[y] = pc[y]
    BY <1>4, TakeOwnChanges
  <2> QED BY <2>1, <1>3
<1>5. ASSUME NEW x \in Threads, Theft(x) PROVE loop'[u] = loop'[t] + 1 /\ pc'[t] = "idle"
  <2>1. pc[x] # "idle" /\ loop' = loop /\ \A y \in Threads \ {x} : pc'[y] = pc[y]
    BY <1>5 DEF Theft, Steal, TypeOK
  <2> QED BY <2>1, <1>3
<1>6. ASSUME NEW x \in Threads, Install(x) PROVE loop'[u] = loop'[t] + 1 /\ pc'[t] = "idle"
  <2>1. pc[x] # "idle" /\ loop' = loop /\ \A y \in Threads \ {x} : pc'[y] = pc[y]
    BY <1>6, InstallChanges
  <2> QED BY <2>1, <1>3
<1>7. ASSUME NEW x \in Threads, Still(x) PROVE loop'[u] = loop'[t] + 1 /\ pc'[t] = "idle"
  BY <1>3, <1>7 DEF Still
<1> QED BY <1>1, <1>2, <1>4, <1>5, <1>6, <1>7, Steps

LEMMA CurrentNext == TypeOK /\ SlotKnown /\ Current /\ [Next]_vars => Current'
<1> SUFFICES ASSUME TypeOK, SlotKnown, Current, [Next]_vars, NEW v \in Threads,
                    pr_current'[v] # Null
             PROVE  pc'[v] \notin {"idle", "wait"} /\ pr_current'[v] = Buf(v)'
  BY DEF Current
<1>0. /\ pc \in [Threads -> PcValues] /\ pr_current \in [Threads -> Slots \cup {Null}]
      /\ loop \in [Threads -> 0 .. NumLoops]
  BY DEF TypeOK
<1>1. CASE UNCHANGED vars
  BY <1>1 DEF vars, Current, Buf
<1>2. ASSUME NEW x \in Threads, Enter(x)
      PROVE  pc'[v] \notin {"idle", "wait"} /\ pr_current'[v] = Buf(v)'
  <2>1. /\ pr_current' = pr_current /\ pc[x] = "idle"
        /\ \A y \in Threads \ {x} : loop'[y] = loop[y] /\ pc'[y] = pc[y]
    BY <1>2, EnterChanges
  <2>2. v # x
    BY <2>1 DEF Current
  <2> QED BY <2>1, <2>2 DEF Current, Buf
<1>3. ASSUME NEW x \in Threads, BufferFree(x)
      PROVE  pc'[v] \notin {"idle", "wait"} /\ pr_current'[v] = Buf(v)'
  BY <1>0, <1>3 DEF BufferFree, Current, Buf
<1>4. ASSUME NEW x \in Threads, Detach(x)
      PROVE  pc'[v] \notin {"idle", "wait"} /\ pr_current'[v] = Buf(v)'
  BY <1>0, <1>4 DEF Detach, Current, Buf
<1>5. ASSUME NEW x \in Threads, pr_current' = pr_current, loop' = loop,
             pc'[x] \notin {"idle", "wait"}, \A y \in Threads \ {x} : pc'[y] = pc[y]
      PROVE  pc'[v] \notin {"idle", "wait"} /\ pr_current'[v] = Buf(v)'
  BY <1>5 DEF Current, Buf
<1>6. ASSUME NEW x \in Threads,
             Ready(x) \/ TestOwn(x) \/ TakeOwn(x) \/ CountOut(x) \/ DestroyLocks(x)
             \/ Release(x) \/ Install(x)
      PROVE  pc'[v] \notin {"idle", "wait"} /\ pr_current'[v] = Buf(v)'
  <2>1. pr_current' = pr_current /\ loop' = loop
    BY <1>6 DEF Ready, TestOwn, TakeOwn, CountOut, DestroyLocks, Release, Install
  <2>2. \A y \in Threads \ {x} : pc'[y] = pc[y]
    BY <1>0, <1>6 DEF Ready, TestOwn, TakeOwn, CountOut, DestroyLocks, Release, Install, StartSearch
  <2>3. pc'[x] \notin {"idle", "wait"}
    BY <1>0, <1>6 DEF Ready, TestOwn, TakeOwn, CountOut, DestroyLocks, Release, Install, StartSearch
  <2> QED BY <1>5, <2>1, <2>2, <2>3
<1>7. ASSUME NEW x \in Threads, Look(x) \/ Peek(x) \/ Steal(x)
      PROVE  pc'[v] \notin {"idle", "wait"} /\ pr_current'[v] = Buf(v)'
  <2>1. pr_current' = pr_current /\ loop' = loop /\ pc[x] \notin {"idle", "wait"}
    BY <1>7 DEF Look, Peek, Steal
  <2>2. CASE \E first : NextTry(x, first)
    BY <1>5, <2>1, <2>2, TryStill
  <2>3. CASE ~\E first : NextTry(x, first)
    <3>1. pc' = pc \/ \E p \in {"peek", "steal", "install"} : pc' = [pc EXCEPT ![x] = p]
      BY <1>7, <2>3 DEF Look, Peek, Steal, GiveUp
    <3>2. pc'[x] \notin {"idle", "wait"} /\ \A y \in Threads \ {x} : pc'[y] = pc[y]
      BY <1>0, <2>1, <3>1
    <3> QED BY <1>5, <2>1, <3>2
  <2> QED BY <2>2, <2>3
<1> QED BY <1>1, <1>2, <1>3, <1>4, <1>6, <1>7 DEF Next, Finished, ThreadStep

LEMMA TargetNext == ~NoWait /\ TypeOK /\ SlotKnown /\ Bar /\ Current /\ Target /\ [Next]_vars => Target'
<1> SUFFICES ASSUME ~NoWait, TypeOK, SlotKnown, Bar, Current, Target, [Next]_vars,
                    NEW t \in Threads, pc'[t] \in {"peek", "steal"}
             PROVE  /\ search'[t].slot = Buf(t)'
                    /\ loop'[search'[t].victim] = loop'[t]
  BY DEF Target
<1> DEFINE Goal == /\ search'[t].slot = Buf(t)'
                   /\ loop'[search'[t].victim] = loop'[t]
<1>0. /\ pc \in [Threads -> PcValues] /\ search \in [Threads -> Searches]
      /\ loop \in [Threads -> 0 .. NumLoops]
      /\ \A y \in Threads : loop[y] \in Nat /\ search[y].victim \in Threads
  BY ChunksAssumption DEF TypeOK, Searches
<1>1. ASSUME pc[t] \in {"peek", "steal"}, search'[t] = search[t], loop' = loop
      PROVE  Goal
  BY <1>1 DEF Target, Buf
<1>2. CASE UNCHANGED vars
  BY <1>1, <1>2 DEF vars
<1>3. ASSUME NEW x \in Threads, Enter(x) PROVE Goal
  <2>1. /\ search' = search /\ pc[x] = "idle" /\ pc'[x] = "wait"
        /\ \A y \in Threads \ {x} : loop'[y] = loop[y] /\ pc'[y] = pc[y]
    BY <1>3, EnterChanges
  <2>2. \A y \in Threads : loop[y] > loop[x] \/ (loop[y] = loop[x] /\ pc[y] = "idle")
    BY <1>3 DEF Enter
  <2>3. t # x /\ pc[t] = pc'[t]
    BY <2>1
  <2>4. search[t].slot = Buf(t) /\ loop[search[t].victim] = loop[t]
    BY <2>3 DEF Target
  <2>5. search[t].victim # x
    BY <1>0, <2>2, <2>3, <2>4
  <2> QED BY <1>0, <2>1, <2>3, <2>4, <2>5 DEF Buf
<1>4. ASSUME NEW x \in Threads, Look(x), t = x, ~\E first : NextTry(x, first) PROVE Goal
  <2> DEFINE v == search[x].victim
  <2>1. /\ SameCounter(x, v) /\ pc[x] = "look" /\ loop' = loop
        /\ search' = [search EXCEPT ![x].slot = pr_current[v]]
    BY <1>0, <1>4 DEF Look
  <2>2. v \in Threads /\ pr_current[v] # Null
    BY <1>0, <2>1 DEF SameCounter
  <2>3. pc[v] # "idle" /\ pr_current[v] = Buf(v)
    BY <2>2 DEF Current
  <2>4. loop[v] = loop[x]
    <3> HIDE DEF v
    <3> QED BY <1>0, <2>1, <2>2, <2>3 DEF Bar
  <2>5. search'[x].slot = pr_current[v] /\ search'[x].victim = v
    BY <1>0, <2>1 DEF Searches
  <2>6. loop'[x] = loop[x] /\ loop'[v] = loop[v]
    BY <2>1
  <2> QED BY <1>4, <2>3, <2>4, <2>5, <2>6 DEF Buf
<1>5. ASSUME NEW x \in Threads, TakeOwn(x) PROVE Goal
  BY <1>1, <1>5, TakeOwnChanges
<1>6. ASSUME NEW x \in Threads, Install(x) PROVE Goal
  BY <1>1, <1>6, InstallChanges
<1>7. ASSUME NEW x \in Threads, Theft(x) PROVE Goal
  <2>1. /\ pc'[x] = "install" /\ loop' = loop
        /\ \A y \in Threads \ {x} : pc'[y] = pc[y] /\ search'[y] = search[y]
    BY <1>0, <1>7 DEF Theft, Steal
  <2> QED BY <1>1, <2>1
<1>8. ASSUME NEW x \in Threads, Still(x), t # x PROVE Goal
  BY <1>1, <1>8 DEF Still
<1>9. ASSUME NEW x \in Threads,
             BufferFree(x) \/ Ready(x) \/ TestOwn(x) \/ CountOut(x) \/ DestroyLocks(x)
             \/ Release(x) \/ Detach(x)
      PROVE  Goal
  BY <1>8, <1>9, PlainStill
<1>10. ASSUME NEW x \in Threads, Look(x) \/ Peek(x) \/ (Steal(x) /\ ~Theft(x)) PROVE Goal
  <2>1. CASE t # x
    BY <1>8, <1>10, <2>1, SearchStill
  <2>2. CASE t = x /\ Look(x)
    BY <1>4, <2>2, TryStill
  <2>3. CASE t = x /\ Peek(x)
    <3>1. ~GiveUp(x)
      BY <2>3, TryStill DEF GiveUp
    <3>2. pc[x] = "peek" /\ search' = search /\ loop' = loop
      BY <2>3, <3>1 DEF Peek
    <3> QED BY <1>1, <2>3, <3>2
  <2>4. CASE t = x /\ Steal(x) /\ ~Theft(x)
    BY <2>4, TryStill DEF Steal, Theft, GiveUp
  <2> QED BY <1>10, <2>1, <2>2, <2>3, <2>4
<1> QED BY <1>2, <1>3, <1>5, <1>6, <1>7, <1>9, <1>10 DEF Next, Finished, ThreadStep

LEMMA FitsNext == TypeOK /\ SlotKnown /\ Target /\ Fits /\ [Next]_vars => Fits'
<1> SUFFICES ASSUME TypeOK, SlotKnown, Target, Fits, [Next]_vars, NEW t \in Threads
             PROVE  /\ loop'[t] > 0 => Own(t)'.ub <= Ntc[loop'[t]]
                    /\ pc'[t] = "install" => search'[t].init < search'[t].limit
                                              /\ search'[t].limit <= Ntc[loop'[t]]
  BY DEF Fits
<1> DEFINE Range == loop'[t] > 0 => Own(t)'.ub <= Ntc[loop'[t]]
           Spoils == pc'[t] = "install" => search'[t].init < search'[t].limit
                                           /\ search'[t].limit <= Ntc[loop'[t]]
<1>1. ASSUME loop'[t] = loop[t], Own(t)'.ub = Own(t).ub PROVE Range
  BY <1>1 DEF Fits
<1>2. ASSUME loop'[t] = loop[t], pc'[t] = pc[t], search'[t] = search[t] PROVE Spoils
  BY <1>2 DEF Fits
<1>3. CASE UNCHANGED vars
  BY <1>1, <1>2, <1>3 DEF vars, Own, Buf
<1>4. ASSUME NEW x \in Threads, Enter(x) PROVE Range /\ Spoils
  <2>1. /\ search' = search /\ pc'[x] = "wait" /\ loop'[x] = loop[x] + 1 /\ loop'[x] \in Loops
        /\ \A y \in Threads \ {x} : pc'[y] = pc[y] /\ loop'[y] = loop[y] /\ range'[y] = range[y]
        /\ Own(x)' = Share(x, Ntc[loop[x] + 1])
    BY <1>4, EnterChanges
  <2>2. CASE t # x
    BY <1>1, <1>2, <2>1, <2>2, OwnSame
  <2>3. CASE t = x
    BY <2>1, <2>3, ChunkType, SharesApart
  <2> QED BY <2>2, <2>3
<1>5. ASSUME NEW x \in Threads, TakeOwn(x) PROVE Range /\ Spoils
  <2>1. CASE t # x
    BY <1>1, <1>2, <1>5, <2>1, TakeOwnChanges, OwnSame
  <2>2. CASE t = x
    BY <1>1, <1>5, <2>2, TakeOwnChanges
  <2> QED BY <2>1, <2>2
<1>6. ASSUME NEW x \in Threads, Install(x) PROVE Range /\ Spoils
  <2>1. CASE t # x
    BY <1>1, <1>2, <1>6, <2>1, InstallChanges, OwnSame
  <2>2. CASE t = x
    BY <1>6, <2>2, InstallChanges DEF Fits
  <2> QED BY <2>1, <2>2
<1>7. ASSUME NEW x \in Threads, Theft(x) PROVE Range /\ Spoils
  <2>1. PICK v \in Threads : v = search[x].victim
    BY DEF TypeOK, Searches
  <2>2. /\ loop' = loop /\ loop[v] = loop[x] /\ loop[x] \in Loops
        /\ Own(v) \in Ranges /\ Own(v).ub - Own(v).count >= 2
        /\ \A u \in Threads \ {x} : pc'[u] = pc[u] /\ search'[u] = search[u]
        /\ \A u \in Threads \ {v} : range'[u] = range[u]
        /\ Own(v)' = [count |-> Own(v).count, ub |-> UbLeft(Own(v))]
        /\ search'[x].init = UbLeft(Own(v)) /\ search'[x].limit = Own(v).ub
    BY <1>7, <2>1, TheftChanges
  <2>3. /\ UbLeft(Own(v)) \in Nat /\ UbLeft(Own(v)) < Own(v).ub
        /\ Own(v).ub \in Nat /\ Ntc[loop[v]] \in Nat
    BY <2>2, UbLeftRange, ChunkType DEF Ranges
  <2>4. loop[v] > 0 /\ Own(v).ub <= Ntc[loop[v]]
    BY <2>2 DEF Fits, Loops
  <2>5. Range
    <3>1. CASE t # v
      BY <1>1, <2>2, <3>1, OwnSame
    <3>2. CASE t = v
      BY <2>2, <2>3, <2>4, <3>2
    <3> QED BY <3>1, <3>2
  <2>6. Spoils
    <3>1. CASE t # x
      BY <1>2, <2>2, <3>1
    <3>2. CASE t = x
      BY <2>2, <2>3, <2>4, <3>2
    <3> QED BY <3>1, <3>2
  <2> QED BY <2>5, <2>6
<1>8. ASSUME NEW x \in Threads, Still(x) PROVE Range /\ Spoils
  BY <1>1, <1>2, <1>8, OwnSame DEF Still
<1> QED BY <1>3, <1>4, <1>5, <1>6, <1>7, <1>8, Steps

LEMMA BeyondNext == TypeOK /\ SlotKnown /\ Target /\ Fits /\ Beyond /\ [Next]_vars => Beyond'
<1> SUFFICES ASSUME TypeOK, SlotKnown, Target, Fits, Beyond, [Next]_vars,
                    NEW l \in Loops, NEW c \in Chunks, c >= Ntc[l]
             PROVE  given'[l][c] = 0
  BY DEF Beyond
<1>1. ASSUME given' = given PROVE given'[l][c] = 0
  BY <1>1 DEF Beyond
<1>2. ASSUME NEW x \in Threads, NEW d \in Nat, loop[x] \in Loops, Give(x, d), d < Ntc[loop[x]]
      PROVE  given'[l][c] = 0
  <2>1. ~(l = loop[x] /\ c = d)
    <3>1. Ntc[l] \in Nat
      BY ChunkType
    <3> QED BY <1>2, <3>1
  <2> QED BY <1>2, <2>1, Given DEF Beyond
<1>3. ASSUME NEW x \in Threads, TakeOwn(x) PROVE given'[l][c] = 0
  <2>1. /\ loop[x] \in Loops /\ Own(x) \in Ranges
        /\ IF Own(x).count < Own(x).ub THEN Give(x, Own(x).count) ELSE UNCHANGED given
    BY <1>3, TakeOwnChanges
  <2>2. Own(x).ub <= Ntc[loop[x]] /\ Ntc[loop[x]] \in Nat
    BY <2>1, ChunkType DEF Fits, Loops
  <2>3. Own(x).count \in Nat /\ Own(x).ub \in Nat
    BY <2>1 DEF Ranges
  <2> QED BY <1>1, <1>2, <2>1, <2>2, <2>3
<1>4. ASSUME NEW x \in Threads, Install(x) PROVE given'[l][c] = 0
  <2>1. /\ loop[x] \in Loops /\ pc[x] = "install" /\ Give(x, search[x].init)
        /\ search[x].init \in Nat /\ search[x].limit \in Nat
    BY <1>4, InstallChanges
  <2>2. /\ search[x].init < search[x].limit /\ search[x].limit <= Ntc[loop[x]]
        /\ Ntc[loop[x]] \in Nat
    BY <2>1, ChunkType DEF Fits
  <2> QED BY <1>2, <2>1, <2>2
<1>5. CASE UNCHANGED vars
  BY <1>1, <1>5 DEF vars
<1>6. ASSUME NEW x \in Threads, Enter(x) PROVE given'[l][c] = 0
  BY <1>1, <1>6 DEF Enter
<1>7. ASSUME NEW x \in Threads, Theft(x) PROVE given'[l][c] = 0
  BY <1>1, <1>7 DEF Theft, Steal
<1>8. ASSUME NEW x \in Threads, Still(x) PROVE given'[l][c] = 0
  BY <1>1, <1>8 DEF Still
<1> QED BY <1>3, <1>4, <1>5, <1>6, <1>7, <1>8, Steps
---------------------------------------------------------------------------
\* What a step does to one chunk: nothing, ...
LEMMA OneStill ==
    ASSUME NEW l, NEW c, OneAt(l, c), given'[l][c] = given[l][c],
           \A t \in Threads : Holds(t, l, c)' <=> Holds(t, l, c)
    PROVE  OneAt(l, c)'
  BY DEF OneAt

\* ... execute it, when one thread has it ...
LEMMA OneTaken ==
    ASSUME NEW l, NEW c, NEW x \in Threads, OneAt(l, c), given'[l][c] = given[l][c] + 1,
           Holds(x, l, c), ~Holds(x, l, c)',
           \A t \in Threads \ {x} : Holds(t, l, c)' <=> Holds(t, l, c)
    PROVE  OneAt(l, c)'
<1>1. given[l][c] = 0 /\ \A t \in Threads : Holds(t, l, c) => t = x
  BY DEF OneAt
<1>2. \A t \in Threads : ~Holds(t, l, c)'
  BY <1>1
<1>3. given'[l][c] = 1
  BY <1>1
<1> QED BY <1>2, <1>3 DEF OneAt

\* ... or move it from thread v to thread x.
LEMMA OneMoved ==
    ASSUME NEW l, NEW c, NEW v \in Threads, NEW x \in Threads, v # x,
           OneAt(l, c), given'[l][c] = given[l][c],
           Holds(v, l, c), ~Holds(v, l, c)', Holds(x, l, c)',
           \A t \in Threads \ {v, x} : Holds(t, l, c)' <=> Holds(t, l, c)
    PROVE  OneAt(l, c)'
<1>1. given[l][c] = 0 /\ \A t \in Threads : Holds(t, l, c) => t = v
  BY DEF OneAt
<1>2. \A t \in Threads : Holds(t, l, c)' => t = x
  BY <1>1
<1>3. \A t, u \in Threads : Holds(t, l, c)' /\ Holds(u, l, c)' => t = u
  BY <1>2
<1> QED BY <1>1, <1>3 DEF OneAt

\* Threads that a step leaves alone keep their chunks.
LEMMA HoldsSame ==
    ASSUME NEW t \in Threads, NEW l, NEW c, loop'[t] = loop[t], Own(t)' = Own(t),
           pc'[t] = pc[t], search'[t] = search[t]
    PROVE  Holds(t, l, c)' <=> Holds(t, l, c)
  BY DEF Holds

\* Its own chunks, for a thread in a loop: those of the range, and of the spoils.
LEMMA HoldsNow ==
    ASSUME TypeOK, NEW t \in Threads, NEW l \in Loops, NEW c \in Nat, loop[t] = l
    PROVE  Holds(t, l, c) <=> \/ Own(t).count <= c /\ c < Own(t).ub
                              \/ pc[t] = "install" /\ search[t].init <= c /\ c < search[t].limit
<1>1. l \in Nat /\ l > 0 /\ ~(loop[t] < l)
  BY ChunksAssumption DEF Loops
<1>2. Own(t).count \in Nat /\ Own(t).ub \in Nat
  BY <1>1, OwnType DEF Ranges
<1>3. c \in Span(Own(t)) <=> Own(t).count <= c /\ c < Own(t).ub
  BY <1>2 DEF Span
<1> QED BY <1>1, <1>3 DEF Holds

\* The same of the next state; the types of t's range and spoils are asked for.
LEMMA HoldsNext ==
    ASSUME NEW t \in Threads, NEW l \in Loops, NEW c \in Nat, loop'[t] = l,
           Own(t)'.count \in Nat, Own(t)'.ub \in Nat
    PROVE  Holds(t, l, c)' <=>
             \/ Own(t)'.count <= c /\ c < Own(t)'.ub
             \/ pc'[t] = "install" /\ search'[t].init <= c /\ c < search'[t].limit
<1>1. l \in Nat /\ ~(loop'[t] < l)
  BY ChunksAssumption DEF Loops
<1>2. c \in Span(Own(t))' <=> Own(t)'.count <= c /\ c < Own(t)'.ub
  BY DEF Span
<1> QED BY <1>1, <1>2 DEF Holds

\* A thread that does not move on keeps its chunks of the other loops.
LEMMA HoldsElsewhere ==
    ASSUME NEW t \in Threads, NEW l, NEW c, loop'[t] = loop[t], loop[t] # l
    PROVE  Holds(t, l, c)' <=> Holds(t, l, c)
  BY DEF Holds, Share
---------------------------------------------------------------------------
LEMMA EnterOne ==
    ASSUME IInv, NEW x \in Threads, Enter(x), NEW l \in Loops, NEW c \in Nat, OneAt(l, c)
    PROVE  OneAt(l, c)'
<1>1. /\ given' = given /\ search' = search /\ pc[x] = "idle" /\ pc'[x] = "wait"
      /\ loop[x] \in Nat /\ loop'[x] = loop[x] + 1
      /\ \A u \in Threads \ {x} : pc'[u] = pc[u] /\ loop'[u] = loop[u] /\ range'[u] = range[u]
      /\ Own(x)' = Share(x, Ntc[loop[x] + 1])
  BY EnterChanges DEF IInv
<1>2. \A u \in Threads \ {x} : Holds(u, l, c)' <=> Holds(u, l, c)
  BY <1>1, OwnSame, HoldsSame
<1>3. l \in Nat /\ l > 0
  BY ChunksAssumption DEF Loops
<1>4. Holds(x, l, c)' <=> Holds(x, l, c)
  <2>1. CASE loop[x] + 1 < l
    BY <1>1, <1>3, <2>1 DEF Holds, Share
  <2>2. CASE loop[x] + 1 = l
    <3>1. Holds(x, l, c) <=> c \in Span(Share(x, Ntc[l]))
      BY <1>1, <1>3, <2>2 DEF Holds
    <3>2. Holds(x, l, c)' <=> c \in Span(Share(x, Ntc[l]))
      <4>1. loop'[x] = l /\ ~(loop'[x] < l) /\ Own(x)' = Share(x, Ntc[l])
        BY <1>1, <1>3, <2>2
      <4>2. Span(Own(x))' = Span(Share(x, Ntc[l]))
        BY <4>1 DEF Span
      <4> QED BY <1>1, <4>1, <4>2 DEF Holds
    <3> QED BY <3>1, <3>2
  <2>3. CASE loop[x] = l
    <3>1. Own(x).count >= Own(x).ub
      BY <1>1, <1>3, <2>3 DEF IInv, QuietEmpty, Quiet
    <3>2. Own(x).count \in Nat /\ Own(x).ub \in Nat
      BY <1>3, <2>3, OwnType DEF IInv, Ranges
    <3>3. ~Holds(x, l, c)
      BY <1>1, <2>3, <3>1, <3>2, HoldsNow DEF IInv
    <3>4. ~Holds(x, l, c)'
      BY <1>1, <1>3, <2>3 DEF Holds
    <3> QED BY <3>3, <3>4
  <2>4. CASE loop[x] > l
    BY <1>1, <1>3, <2>4 DEF Holds
  <2> QED BY <1>1, <1>3, <2>1, <2>2, <2>3, <2>4
<1> QED BY <1>1, <1>2, <1>4, OneStill

LEMMA TakeOwnOne ==
    ASSUME IInv, NEW x \in Threads, TakeOwn(x), NEW l \in Loops, NEW c \in 0 .. Ntc[l] - 1,
           OneAt(l, c)
    PROVE  OneAt(l, c)'
<1>1. /\ loop' = loop /\ pc[x] \notin {"idle", "wait", "install"} /\ loop[x] \in Loops
      /\ \A u \in Threads \ {x} : pc'[u] = pc[u] /\ search'[u] = search[u] /\ range'[u] = range[u]
      /\ pc'[x] \in {"next", "look"}
      /\ Own(x) \in Ranges /\ Own(x)' = [count |-> Own(x).count + 1, ub |-> Own(x).ub]
      /\ IF Own(x).count < Own(x).ub THEN Give(x, Own(x).count) ELSE UNCHANGED given
  BY TakeOwnChanges DEF IInv
<1>2. \A u \in Threads \ {x} : Holds(u, l, c)' <=> Holds(u, l, c)
  BY <1>1, OwnSame, HoldsSame
<1>3. c \in Nat /\ c \in Chunks
  BY ChunkType
<1>4. CASE loop[x] # l
  <2>1. Holds(x, l, c)' <=> Holds(x, l, c)
    BY <1>1, <1>4, HoldsElsewhere
  <2>2. given'[l][c] = given[l][c]
    BY <1>1, <1>3, <1>4, Given DEF IInv
  <2> QED BY <1>2, <2>1, <2>2, OneStill
<1>5. CASE loop[x] = l
  <2>1. /\ Own(x).count \in Nat /\ Own(x).ub \in Nat
        /\ Own(x)'.count = Own(x).count + 1 /\ Own(x)'.ub = Own(x).ub
    BY <1>1 DEF Ranges
  <2>2. Holds(x, l, c) <=> Own(x).count <= c /\ c < Own(x).ub
    BY <1>1, <1>3, <1>5, HoldsNow DEF IInv
  <2>3. Own(x)'.count \in Nat /\ Own(x)'.ub \in Nat
    BY <2>1
  <2>4. Holds(x, l, c)' <=> Own(x).count + 1 <= c /\ c < Own(x).ub
    BY <1>1, <1>3, <1>5, <2>1, <2>3, HoldsNext
  <2>5. CASE Own(x).count < Own(x).ub /\ c = Own(x).count
    <3>1. given'[l][c] = given[l][c] + 1
      BY <1>1, <1>3, <1>5, <2>5, Given DEF IInv
    <3>2. Holds(x, l, c) /\ ~Holds(x, l, c)'
      BY <2>1, <2>2, <2>4, <2>5
    <3> QED BY <1>2, <3>1, <3>2, OneTaken
  <2>6. CASE ~(Own(x).count < Own(x).ub /\ c = Own(x).count)
    <3>1. given'[l][c] = given[l][c]
      BY <1>1, <1>3, <1>5, <2>6, Given DEF IInv
    <3>2. Holds(x, l, c)' <=> Holds(x, l, c)
      BY <1>3, <2>1, <2>2, <2>4, <2>6
    <3> QED BY <1>2, <3>1, <3>2, OneStill
  <2> QED BY <2>5, <2>6
<1> QED BY <1>4, <1>5

LEMMA InstallOne ==
    ASSUME IInv, Fits, NEW x \in Threads, Install(x), NEW l \in Loops,
           NEW c \in 0 .. Ntc[l] - 1, OneAt(l, c)
    PROVE  OneAt(l, c)'
<1>1. /\ loop' = loop /\ pc[x] = "install" /\ loop[x] \in Loops
      /\ \A u \in Threads \ {x} : pc'[u] = pc[u] /\ search'[u] = search[u] /\ range'[u] = range[u]
      /\ pc'[x] = "next"
      /\ search[x].init \in Nat /\ search[x].limit \in Nat
      /\ Own(x)' = [count |-> search[x].init + 1, ub |-> search[x].limit]
      /\ Give(x, search[x].init)
  BY InstallChanges DEF IInv
<1>2. \A u \in Threads \ {x} : Holds(u, l, c)' <=> Holds(u, l, c)
  BY <1>1, OwnSame, HoldsSame
<1>3. c \in Nat /\ c \in Chunks
  BY ChunkType
<1>4. CASE loop[x] # l
  <2>1. Holds(x, l, c)' <=> Holds(x, l, c)
    BY <1>1, <1>4, HoldsElsewhere
  <2>2. given'[l][c] = given[l][c]
    BY <1>1, <1>3, <1>4, Given DEF IInv
  <2> QED BY <1>2, <2>1, <2>2, OneStill
<1>5. CASE loop[x] = l
  <2>0. loop[x] > 0
    BY <1>1, ChunksAssumption DEF Loops
  <2>1. Own(x).count >= Own(x).ub /\ Own(x).count \in Nat /\ Own(x).ub \in Nat
    BY <1>1, <2>0, OwnType DEF IInv, QuietEmpty, Quiet, Ranges
  <2>2. Holds(x, l, c) <=> search[x].init <= c /\ c < search[x].limit
    BY <1>1, <1>3, <1>5, <2>1, HoldsNow DEF IInv
  <2>3. /\ Own(x)'.count = search[x].init + 1 /\ Own(x)'.ub = search[x].limit
        /\ Own(x)'.count \in Nat /\ Own(x)'.ub \in Nat
    BY <1>1
  <2>4. Holds(x, l, c)' <=> search[x].init + 1 <= c /\ c < search[x].limit
    BY <1>1, <1>3, <1>5, <2>3, HoldsNext
  <2>5. search[x].init < search[x].limit
    BY <1>1 DEF Fits
  <2>6. CASE c = search[x].init
    <3>1. given'[l][c] = given[l][c] + 1
      BY <1>1, <1>3, <1>5, <2>6, Given DEF IInv
    <3>2. Holds(x, l, c) /\ ~Holds(x, l, c)'
      BY <1>1, <2>2, <2>4, <2>5, <2>6
    <3> QED BY <1>2, <3>1, <3>2, OneTaken
  <2>7. CASE c # search[x].init
    <3>1. given'[l][c] = given[l][c]
      BY <1>1, <1>3, <1>5, <2>7, Given DEF IInv
    <3>2. Holds(x, l, c)' <=> Holds(x, l, c)
      BY <1>1, <1>3, <2>2, <2>4, <2>7
    <3> QED BY <1>2, <3>1, <3>2, OneStill
  <2> QED BY <2>6, <2>7
<1> QED BY <1>4, <1>5

LEMMA TheftOne ==
    ASSUME IInv, Target, NEW x \in Threads, Theft(x), NEW l \in Loops,
           NEW c \in 0 .. Ntc[l] - 1, OneAt(l, c)
    PROVE  OneAt(l, c)'
<1>1. PICK v \in Threads : v = search[x].victim
  BY DEF IInv, TypeOK, Searches
<1>2. /\ loop' = loop /\ given' = given /\ pc[x] = "steal" /\ pc'[x] = "install"
      /\ loop[v] = loop[x] /\ loop[x] \in Loops
      /\ Own(v) \in Ranges /\ Own(v).ub - Own(v).count >= 2
      /\ \A u \in Threads \ {x} : pc'[u] = pc[u] /\ search'[u] = search[u]
      /\ \A u \in Threads \ {v} : range'[u] = range[u]
      /\ Own(v)' = [count |-> Own(v).count, ub |-> UbLeft(Own(v))]
      /\ search'[x].init = UbLeft(Own(v)) /\ search'[x].limit = Own(v).ub
  BY <1>1, TheftChanges DEF IInv
<1>3. c \in Nat
  BY ChunkType
<1>4. given'[l][c] = given[l][c]
  BY <1>2
<1>5. loop[x] > 0
  BY <1>2, ChunksAssumption DEF Loops
<1>6. Own(x).count >= Own(x).ub /\ Own(x).count \in Nat /\ Own(x).ub \in Nat
  BY <1>2, <1>5, OwnType DEF IInv, QuietEmpty, Quiet, Ranges
<1>7. /\ Own(v).count \in Nat /\ Own(v).ub \in Nat
      /\ UbLeft(Own(v)) \in Nat /\ Own(v).count < UbLeft(Own(v)) /\ UbLeft(Own(v)) < Own(v).ub
  BY <1>2, UbLeftRange DEF Ranges
<1>8. v # x
  BY <1>6, <1>7, <1>2
<1>9. \A u \in Threads \ {v, x} : Holds(u, l, c)' <=> Holds(u, l, c)
  BY <1>2, OwnSame, HoldsSame
<1>10. CASE loop[x] # l
  <2>1. \A u \in {v, x} : Holds(u, l, c)' <=> Holds(u, l, c)
    BY <1>2, <1>10, HoldsElsewhere
  <2> QED BY <1>4, <1>9, <2>1, OneStill
<1>11. CASE loop[x] = l
  <2>1. ~Holds(x, l, c)
    BY <1>2, <1>3, <1>6, <1>11, HoldsNow DEF IInv
  <2>2. pc[v] = "install" => Own(v).count >= Own(v).ub
    BY <1>2, <1>5 DEF IInv, QuietEmpty, Quiet
  <2>3. pc[v] # "install" /\ pc'[v] # "install"
    BY <1>2, <1>7, <1>8, <2>2
  <2>4. Holds(v, l, c) <=> Own(v).count <= c /\ c < Own(v).ub
    BY <1>2, <1>3, <1>11, <2>3, HoldsNow DEF IInv
  <2>5. /\ Own(v)'.count = Own(v).count /\ Own(v)'.ub = UbLeft(Own(v))
        /\ Own(v)'.count \in Nat /\ Own(v)'.ub \in Nat
    BY <1>2, <1>7
  <2>6. Holds(v, l, c)' <=> Own(v).count <= c /\ c < UbLeft(Own(v))
    BY <1>2, <1>3, <1>11, <2>3, <2>5, HoldsNext
  <2>7. Own(x)' = Own(x)
    BY <1>2, <1>8, OwnSame
  <2>8. Holds(x, l, c)' <=> UbLeft(Own(v)) <= c /\ c < Own(v).ub
    BY <1>2, <1>3, <1>6, <1>11, <2>7, HoldsNext
  <2>9. CASE UbLeft(Own(v)) <= c /\ c < Own(v).ub
    <3>1. Holds(v, l, c) /\ ~Holds(v, l, c)' /\ Holds(x, l, c)'
      BY <1>3, <1>7, <2>4, <2>6, <2>8, <2>9
    <3> QED BY <1>4, <1>8, <1>9, <3>1, OneMoved
  <2>10. CASE ~(UbLeft(Own(v)) <= c /\ c < Own(v).ub)
    <3>1. Holds(v, l, c)' <=> Holds(v, l, c)
      BY <1>3, <1>7, <2>4, <2>6, <2>10
    <3>2. Holds(x, l, c)' <=> Holds(x, l, c)
      BY <2>1, <2>8, <2>10
    <3> QED BY <1>4, <1>9, <3>1, <3>2, OneStill
  <2> QED BY <2>9, <2>10
<1> QED BY <1>10, <1>11

LEMMA StillOne ==
    ASSUME IInv, NEW x \in Threads, Still(x), NEW l \in Loops, NEW c \in Nat, OneAt(l, c)
    PROVE  OneAt(l, c)'
<1>1. /\ range' = range /\ loop' = loop /\ given' = given
      /\ \A u \in Threads \ {x} : pc'[u] = pc[u] /\ search'[u] = search[u]
      /\ pc[x] # "install" /\ pc'[x] # "install"
  BY DEF Still
<1>2. \A u \in Threads : Own(u)' = Own(u)
  BY <1>1, OwnSame
<1>3. \A u \in Threads \ {x} : Holds(u, l, c)' <=> Holds(u, l, c)
  BY <1>1, <1>2, HoldsSame
<1>4. Holds(x, l, c)' <=> Holds(x, l, c)
  BY <1>1, <1>2 DEF Holds
<1> QED BY <1>1, <1>3, <1>4, OneStill

LEMMA OnePlaceNext == IInv /\ Target /\ Fits /\ OnePlace /\ [Next]_vars => OnePlace'
<1> SUFFICES ASSUME IInv, Target, Fits, OnePlace, [Next]_vars,
                    NEW l \in Loops, NEW c \in 0 .. Ntc[l] - 1
             PROVE  OneAt(l, c)'
  BY DEF OnePlace, OneAt
<1>1. OneAt(l, c) /\ c \in Nat
  BY ChunkType DEF OnePlace, OneAt
<1>2. CASE UNCHANGED vars
  BY <1>1, <1>2 DEF vars, OneAt, Holds, Own, Buf
<1>3. CASE \E x \in Threads : Enter(x) \/ TakeOwn(x) \/ Theft(x) \/ Install(x) \/ Still(x)
  BY <1>1, <1>3, EnterOne, TakeOwnOne, TheftOne, InstallOne, StillOne
<1> QED BY <1>2, <1>3, Steps DEF IInv

LEMMA OneBegin == Init => OInv
<1> SUFFICES ASSUME Init PROVE OInv
  OBVIOUS
<1>1. IInv
  BY Begin
<1>2. \A t \in Threads : loop[t] = 0 /\ pc[t] = "idle" /\ pr_current[t] = Null
  BY DEF Init
<1>3. Bar /\ Current /\ Target /\ Fits
  BY <1>2 DEF Bar, Current, Target, Fits
<1>4. Beyond
  BY DEF Init, Beyond
<1>5. ASSUME NEW l \in Loops, NEW c \in 0 .. Ntc[l] - 1 PROVE OneAt(l, c)
  <2>1. l \in Nat /\ l > 0 /\ Ntc[l] \in Nat /\ Ntc[l] >= NProc /\ c \in Nat /\ c \in Chunks
    BY ChunkType, ChunksAssumption DEF Loops
  <2>2. given[l][c] = 0
    BY <2>1 DEF Init
  <2>3. \A t \in Threads : Holds(t, l, c) <=> c \in Span(Share(t, Ntc[l]))
    BY <1>2, <2>1 DEF Holds
  <2>4. \E t \in Threads : Holds(t, l, c)
    BY <2>1, <2>3, SharesCover
  <2>5. ASSUME NEW t \in Threads, NEW u \in Threads, t < u PROVE ~(Holds(t, l, c) /\ Holds(u, l, c))
    <3>1. Share(t, Ntc[l]).ub <= Share(u, Ntc[l]).count
      BY <2>1, <2>5, SharesApart
    <3>2. /\ Share(t, Ntc[l]).ub \in Nat /\ Share(t, Ntc[l]).count \in Nat
          /\ Share(u, Ntc[l]).ub \in Nat /\ Share(u, Ntc[l]).count \in Nat
      BY <2>1, ShareType DEF Ranges
    <3> QED BY <2>1, <2>3, <3>1, <3>2 DEF Span
  <2>6. \A t, u \in Threads : t = u \/ t < u \/ u < t
    BY TeamAssumption DEF Threads
  <2> QED BY <2>2, <2>4, <2>5, <2>6 DEF OneAt
<1>6. OnePlace
  BY <1>5 DEF OnePlace, OneAt
<1> QED BY <1>1, <1>3, <1>4, <1>6 DEF OInv

LEMMA OneNext == ~NoWait /\ OInv /\ [Next]_vars => OInv'
<1> SUFFICES ASSUME ~NoWait, OInv, [Next]_vars PROVE OInv'
  OBVIOUS
<1>1. IInv /\ TypeOK /\ SlotKnown
  BY DEF OInv, IInv
<1>2. IInv'
  BY <1>1, TypeNext, SlotNext, QuietNext DEF IInv
<1>3. Bar' /\ Current' /\ Target'
  BY <1>1, BarNext, CurrentNext, TargetNext DEF OInv
<1>4. Fits' /\ Beyond' /\ OnePlace'
  BY <1>1, FitsNext, BeyondNext, OnePlaceNext DEF OInv
<1> QED BY <1>2, <1>3, <1>4 DEF OInv

LEMMA OneInvariance == ~NoWait => (Spec => []OInv)
<1> SUFFICES ASSUME ~NoWait PROVE Spec => []OInv
  OBVIOUS
<1>1. Init => OInv
  BY OneBegin
<1>2. OInv /\ [Next]_vars => OInv'
  BY OneNext
<1> QED BY <1>1, <1>2, PTL DEF Spec
---------------------------------------------------------------------------
(***************************************************************************)
(* With barriers, at any moment each chunk of each loop is with one thread *)
(* -- in its share, its range or what it has just stolen -- and has not    *)
(* been executed, or is with none and has been executed once.              *)
(***************************************************************************)
THEOREM EachInOnePlace == ~NoWait => (Spec => []OnePlace)
<1> SUFFICES ASSUME ~NoWait PROVE Spec => []OnePlace
  OBVIOUS
<1>1. OInv => OnePlace
  BY DEF OInv
<1>2. Spec => []OInv
  BY OneInvariance
<1> QED BY <1>1, <1>2, PTL

(***************************************************************************)
(* So no chunk is executed twice, and none past the end of the loop.       *)
(***************************************************************************)
THEOREM ExecutedOnceOnly == ~NoWait => (Spec => []OnceOnly)
<1> SUFFICES ASSUME ~NoWait PROVE Spec => []OnceOnly
  OBVIOUS
<1>1. OInv => OnceOnly
  <2> SUFFICES ASSUME OInv, NEW l \in Loops, NEW c \in Chunks
               PROVE  given[l][c] <= (IF c < Ntc[l] THEN 1 ELSE 0)
    BY DEF OnceOnly
  <2>1. c \in Nat /\ Ntc[l] \in Nat
    BY ChunkType DEF Chunks
  <2>2. CASE c < Ntc[l]
    <3>1. c \in 0 .. Ntc[l] - 1
      BY <2>1, <2>2
    <3>2. given[l][c] \in {0, 1}
      BY <3>1 DEF OInv, OnePlace
    <3> QED BY <2>2, <3>2
  <2>3. CASE ~(c < Ntc[l])
    BY <2>1, <2>3 DEF OInv, Beyond
  <2> QED BY <2>2, <2>3
<1>2. Spec => []OInv
  BY OneInvariance
<1> QED BY <1>1, <1>2, PTL

(***************************************************************************)
(* And when every thread has left a loop, all its chunks were executed.    *)
(***************************************************************************)
THEOREM ExecutedAll == ~NoWait => (Spec => []NothingLost)
<1> SUFFICES ASSUME ~NoWait PROVE Spec => []NothingLost
  OBVIOUS
<1>1. OInv => NothingLost
  <2> SUFFICES ASSUME OInv, NEW l \in Loops,
                      \A t \in Threads : loop[t] > l \/ (loop[t] = l /\ pc[t] = "idle"),
                      NEW c \in 0 .. Ntc[l] - 1
               PROVE  given[l][c] = 1
    BY DEF NothingLost
  <2>1. l \in Nat /\ l > 0 /\ c \in Nat
    BY ChunkType, ChunksAssumption DEF Loops
  <2>2. ASSUME NEW t \in Threads PROVE ~Holds(t, l, c)
    <3>1. loop[t] \in Nat
      BY ChunksAssumption DEF OInv, IInv, TypeOK
    <3>2. CASE loop[t] > l
      BY <2>1, <3>1, <3>2 DEF Holds
    <3>3. CASE loop[t] = l /\ pc[t] = "idle"
      <4>1. Own(t).count >= Own(t).ub
        BY <2>1, <3>3 DEF OInv, IInv, QuietEmpty, Quiet
      <4>2. Own(t).count \in Nat /\ Own(t).ub \in Nat
        BY <2>1, <3>3, OwnType DEF OInv, IInv, Ranges
      <4> QED BY <2>1, <3>3, <4>1, <4>2, HoldsNow DEF OInv, IInv
    <3> QED BY <3>2, <3>3
  <2>3. given[l][c] = IF \E t \in Threads : Holds(t, l, c) THEN 0 ELSE 1
    BY DEF OInv, OnePlace
  <2> QED BY <2>2, <2>3
<1>2. Spec => []OInv
  BY OneInvariance
<1> QED BY <1>1, <1>2, PTL
===========================================================================
