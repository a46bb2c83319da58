------------------------- MODULE AutoTuning_proof -------------------------
(***************************************************************************)
(* The searches of schedule(auto), for a portfolio of any size, any number *)
(* of loops, and whatever times and imbalances their executions measure.   *)
(* The exhaustive search selects each technique once: it goes round the    *)
(* portfolio from the technique in use, which the search before this one,  *)
(* ended or not begun, may have left anywhere, and what it has tried are   *)
(* the techniques behind the present one, as many as it has counted.  An   *)
(* agent that explores first tries each action in each state once: the     *)
(* walk its rule takes it on passes over every pair of the table.  And     *)
(* every search leaves a well-typed record, the fuzzy one included.  The   *)
(* team that does such a search, loop after loop, does what one thread     *)
(* would do, and gives every thread the technique selected for its loop.   *)
(***************************************************************************)
EXTENDS MCAutoTuning, MCAutoSelect, FiniteSetTheorems, WellFoundedInduction, NaturalsInduction, TLAPS

\* The n techniques up to c, going round.
Behind(c, n) == {x \in Dls : IF x <= c THEN c - x < n ELSE c - x + Size < n}

\* The record of a loop under the exhaustive search, and what has been tried.
InTurn(r, s) ==
    /\ r.searchTrials <= Size
    /\ r.searchTrials # 0 => r.cDLS \in Dls
    /\ s = Behind(r.cDLS, r.searchTrials)
    /\ Cardinality(s) = r.searchTrials

TurnInv ==
    option = 3 =>
        /\ rec \in [Places -> Records]
        /\ tried \in [Places -> SUBSET Dls]
        /\ \A p \in Places : InTurn(rec[p], tried[p])

LEMMA NextInTurn ==
    ASSUME NEW c \in Dls \cup {-1}
    PROVE  (c + 1) % Size = IF c = Size - 1 THEN 0 ELSE c + 1
BY SizeAssumption DEF Dls

LEMMA NothingBehind ==
    ASSUME NEW c \in Dls \cup {-1}
    PROVE  Behind(c, 0) = {}
BY SizeAssumption DEF Behind, Dls

\* The next technique is a new one, and then it is behind too.
LEMMA OneMore ==
    ASSUME NEW c \in Dls \cup {-1}, NEW n \in Nat, n < Size, n # 0 => c \in Dls,
           NEW d, d = (c + 1) % Size
    PROVE  d \in Dls /\ d \notin Behind(c, n) /\ Behind(d, n + 1) = Behind(c, n) \cup {d}
<1>1. d = IF c = Size - 1 THEN 0 ELSE c + 1
  BY NextInTurn
<1>2. d \in Dls /\ d \notin Behind(c, n)
  BY <1>1, SizeAssumption DEF Dls, Behind
<1>3. ASSUME NEW x \in Dls PROVE x \in Behind(d, n + 1) <=> x \in Behind(c, n) \/ x = d
  BY <1>1, SizeAssumption DEF Dls, Behind
<1> QED
  BY <1>2, <1>3 DEF Behind

LEMMA Counts ==
    ASSUME NEW s \in SUBSET Dls, NEW d \in Dls, d \notin s
    PROVE  Cardinality(s \cup {d}) = Cardinality(s) + 1
<1>1. IsFiniteSet(Dls)
  BY FS_Interval, SizeAssumption DEF Dls
<1> QED
  BY <1>1, FS_Subset, FS_AddElement

\* Choosing the chunk size touches nothing else of the record.
LEMMA ChunkOnly ==
    ASSUME NEW r \in Records, NEW n \in Nat, NEW p \in Nat \ {0}
    PROVE  /\ WithChunk(r, n, p) \in Records
           /\ WithChunk(r, n, p).cDLS = r.cDLS
           /\ WithChunk(r, n, p).searchTrials = r.searchTrials
<1> DEFINE v == IF r.cDLS = 0 THEN n \div p ELSE 1
<1>1. v \in Int
  OBVIOUS
<1>2. WithChunk(r, n, p) = [r EXCEPT !.cChunk = v]
  BY DEF WithChunk
<1> HIDE DEF v
<1> QED
  BY <1>1, <1>2 DEF Records

\* Going on to technique d, the k-th one tried, touches nothing else.
GoneTo(r, d, k) == [r EXCEPT !.cDLS = d, !.searchTrials = k]

LEMMA Turned ==
    ASSUME NEW r \in Records, NEW d \in Dls, NEW k \in Nat
    PROVE  /\ GoneTo(r, d, k) \in Records
           /\ GoneTo(r, d, k).cDLS = d
           /\ GoneTo(r, d, k).searchTrials = k
<1>1. [r EXCEPT !.cDLS = d] \in Records /\ [r EXCEPT !.cDLS = d].cDLS = d
  BY DEF Records
<1>2. ASSUME NEW g \in Records
      PROVE  LET e == [g EXCEPT !.searchTrials = k]
             IN  e \in Records /\ e.cDLS = g.cDLS /\ e.searchTrials = k
  BY DEF Records
<1>3. GoneTo(r, d, k) = [[r EXCEPT !.cDLS = d] EXCEPT !.searchTrials = k]
  BY DEF GoneTo, Records
<1> QED
  BY <1>1, <1>2, <1>3

\* One step of the exhaustive search.
LEMMA ExhaustiveKeeps ==
    ASSUME NEW r \in Records, NEW s \in SUBSET Dls, InTurn(r, s),
           NEW n \in Nat, NEW p \in Nat \ {0},
           NEW q, q = WithChunk(Exhaustive(r), n, p)
    PROVE  /\ q \in Records
           /\ IF q.searchTrials = 0 THEN InTurn(q, {})
              ELSE s \cup {q.cDLS} \in SUBSET Dls /\ InTurn(q, s \cup {q.cDLS})
<1>1. Noted(r) \in Records /\ Noted(r).cDLS = r.cDLS /\ Noted(r).searchTrials = r.searchTrials
  BY DEF Noted, Records
<1>2. r.searchTrials \in Nat /\ r.cDLS \in Dls \cup {-1} /\ n \div p \in Int
  BY DEF Records
<1>3. CASE r.searchTrials < Size
  <2> DEFINE d == (r.cDLS + 1) % Size
             e == GoneTo(Noted(r), d, r.searchTrials + 1)
  <2>1. Exhaustive(r) = e
    <3>1. Exhaustive(r) = [Noted(r) EXCEPT !.cDLS = (@ + 1) % Size, !.searchTrials = @ + 1]
      BY <1>3 DEF Exhaustive
    <3> QED
      BY <1>1, <3>1, Zenon DEF GoneTo
  <2>2. d \in Dls /\ d \notin s /\ Behind(d, r.searchTrials + 1) = s \cup {d}
    BY <1>2, <1>3, OneMore DEF InTurn
  <2>3. q \in Records /\ q.cDLS = d /\ q.searchTrials = r.searchTrials + 1
    <3>1. r.searchTrials + 1 \in Nat
      BY <1>2
    <3>2. e \in Records /\ e.cDLS = d /\ e.searchTrials = r.searchTrials + 1
      <4>1. Noted(r) \in Records /\ d \in Dls
        BY <1>1, <2>2
      <4> DEFINE k == r.searchTrials + 1
      <4> HIDE DEF d, k
      <4>2. k \in Nat
        BY <3>1 DEF k
      <4>3. GoneTo(Noted(r), d, k) \in Records /\ GoneTo(Noted(r), d, k).cDLS = d
            /\ GoneTo(Noted(r), d, k).searchTrials = k
        BY <4>1, <4>2, Turned
      <4> QED
        BY <4>3 DEF k
    <3> HIDE DEF d, e
    <3> QED
      BY <2>1, <3>2, ChunkOnly
  <2>4. Cardinality(s \cup {d}) = r.searchTrials + 1
    BY <2>2, Counts DEF InTurn
  <2> QED
    BY <1>2, <1>3, <2>2, <2>3, <2>4, SizeAssumption DEF InTurn
<1>4. CASE ~(r.searchTrials < Size)
  <2>1. q \in Records /\ q.searchTrials = 0
    <3>1. /\ Noted(r).bestDLS \in Dls \cup {-1} /\ Noted(r).bestChunk \in Int
      BY <1>1 DEF Records
    <3>2. Exhaustive(r) \in Records /\ Exhaustive(r).searchTrials = 0
      BY <1>1, <1>4, <3>1 DEF Exhaustive, Records
    <3> QED
      BY <3>2, ChunkOnly
  <2>2. Behind(q.cDLS, 0) = {}
    BY <2>1, NothingBehind DEF Records
  <2> QED
    BY <2>1, <2>2, FS_EmptySet, SizeAssumption DEF InTurn
<1> QED
  BY <1>3, <1>4

LEMMA TurnInit == TriedInit => TurnInv
<1> SUFFICES ASSUME TriedInit PROVE TurnInv
  OBVIOUS
<1>1. NewRecord \in Records
  BY DEF NewRecord, Records
<1>2. InTurn(NewRecord, {})
  BY NothingBehind, FS_EmptySet, SizeAssumption DEF InTurn, NewRecord
<1> QED
  BY <1>1, <1>2 DEF TriedInit, TuningInit, TurnInv

LEMMA TurnBegin ==
    ASSUME TurnInv, option = 3, NEW p \in Places, TriedBegin(p)
    PROVE  TurnInv'
<1>1. /\ rec \in [Places -> Records] /\ tried \in [Places -> SUBSET Dls]
      /\ \A o \in Places : InTurn(rec[o], tried[o])
  BY DEF TurnInv
<1>2. Trips[p] \in Nat /\ Team \in Nat \ {0}
  BY TuningAssumption
<1>3. CASE rec[p].autoSearch # 1
  <2>1. rec' = rec
    BY <1>3 DEF TriedBegin, Begin, Search
  <2>2. tried' = [tried EXCEPT ![p] = IF rec[p].searchTrials = 0 THEN {} ELSE tried[p]]
    BY <1>3, <2>1 DEF TriedBegin
  <2>3. rec[p].searchTrials = 0 => tried[p] = {}
    BY <1>1, NothingBehind DEF InTurn, Records
  <2>4. tried' = tried
    BY <1>1, <2>2, <2>3
  <2> QED
    BY <1>1, <2>1, <2>4 DEF TurnInv
<1>4. CASE rec[p].autoSearch = 1
  <2>1. PICK q \in Searched(option, rec[p], Trips[p], Team) : rec' = [rec EXCEPT ![p] = q]
    BY <1>4 DEF TriedBegin, Begin, Search, Learns, SearchPlain
  <2>2. q = WithChunk(Exhaustive(rec[p]), Trips[p], Team)
    BY <2>1 DEF Searched
  <2>3. tried' = [tried EXCEPT ![p] = IF q.searchTrials = 0 THEN {} ELSE tried[p] \cup {q.cDLS}]
    BY <1>1, <1>4, <2>1 DEF TriedBegin
  <2>4. /\ q \in Records
        /\ IF q.searchTrials = 0 THEN InTurn(q, {})
           ELSE tried[p] \cup {q.cDLS} \in SUBSET Dls /\ InTurn(q, tried[p] \cup {q.cDLS})
    <3> DEFINE r == rec[p]
               s == tried[p]
               n == Trips[p]
    <3>1. r \in Records /\ s \in SUBSET Dls /\ InTurn(r, s)
      BY <1>1
    <3>2. n \in Nat /\ q = WithChunk(Exhaustive(r), n, Team)
      BY <1>2, <2>2
    <3> HIDE DEF r, s, n
    <3>3. /\ q \in Records
          /\ IF q.searchTrials = 0 THEN InTurn(q, {})
             ELSE s \cup {q.cDLS} \in SUBSET Dls /\ InTurn(q, s \cup {q.cDLS})
      BY <1>2, <3>1, <3>2, ExhaustiveKeeps
    <3> QED
      BY <3>3 DEF s
  <2> QED
    BY <1>1, <2>1, <2>3, <2>4 DEF TurnInv
<1> QED
  BY <1>3, <1>4

LEMMA TurnEnd ==
    ASSUME TurnInv, option = 3, NEW p \in Places, TriedEnd(p)
    PROVE  TurnInv'
<1>1. PICK time \in Times, lb \in Imbalances :
          rec' = [rec EXCEPT ![p] = Measured(rec[p], time, lb)]
  BY DEF TriedEnd, End, TurnInv
<1>2. time \in Int /\ lb \in Int
  BY TuningAssumption
<1>3. rec[p] \in Records
  BY DEF TurnInv
<1>4. /\ Measured(rec[p], time, lb) \in Records
      /\ Measured(rec[p], time, lb).cDLS = rec[p].cDLS
      /\ Measured(rec[p], time, lb).searchTrials = rec[p].searchTrials
  BY <1>2, <1>3 DEF Measured, Records
<1> QED
  BY <1>1, <1>4 DEF TurnInv, InTurn, TriedEnd

LEMMA TurnNext == TurnInv /\ [\E p \in Places : TriedBegin(p) \/ TriedEnd(p)]_triedVars => TurnInv'
<1>1. ASSUME NEW p \in Places, TriedBegin(p) \/ TriedEnd(p), TurnInv PROVE TurnInv'
  <2>1. option' = option
    BY <1>1 DEF TriedBegin, TriedEnd, Begin, End
  <2>2. CASE option = 3
    BY <1>1, <2>2, TurnBegin, TurnEnd
  <2> QED
    BY <2>1, <2>2 DEF TurnInv
<1>2. TurnInv /\ UNCHANGED triedVars => TurnInv'
  BY DEF triedVars, tuningVars, TurnInv
<1> QED
  BY <1>1, <1>2

\* The exhaustive search selects no technique of the portfolio twice before it has
\* selected all of them, also when it begins again at the technique in use after the
\* imbalance has grown.
THEOREM ExhaustiveTriesEachOnce == TriedSpec => []EachTriedOnce
<1>1. TriedInit => TurnInv
  BY TurnInit
<1>2. TurnInv /\ [\E p \in Places : TriedBegin(p) \/ TriedEnd(p)]_triedVars => TurnInv'
  BY TurnNext
<1>3. TurnInv => EachTriedOnce
  BY DEF TurnInv, InTurn, EachTriedOnce
<1> QED
  BY <1>1, <1>2, <1>3, PTL DEF TriedSpec
---------------------------------------------------------------------------
(*************************************************************************)
(* The walk of explore first: with d states, it goes from state to state, *)
(* and tries in each the first action not tried, which is the next state. *)
(* After j jumps the rows below j are full; state j is the hub, from which *)
(* it goes to each later state and back; the last state leads on to the  *)
(* next hub by a jump.                                                   *)
(*************************************************************************)
\* Action x of state s has been tried: p actions in the hub, and the way back to
\* the hub in the states below r.
Been(d, j, p, r, s, x) ==
    IF s = d - 1 THEN 1 <= x /\ x <= j
    ELSE IF s < j THEN TRUE
    ELSE IF s = j THEN x < p
    ELSE IF s < r THEN x <= j ELSE x < j

Exactly(d, V, j, p, r) ==
    \A s, x \in 0 .. d - 1 : <<s, x>> \in V <=> Been(d, j, p, r, s, x)

AtHub(d, V, s, j) == s = j /\ j < d - 1 /\ \E p \in j .. d - 1 : Exactly(d, V, j, p, p)
AtSpoke(d, V, s, j) == j < s /\ s < d - 1 /\ Exactly(d, V, j, s + 1, s)
AtLast(d, V, s, j) == s = d - 1 /\ j <= d - 1 /\ Exactly(d, V, j, d, d - 1)
AllTried(d, V) == \A s, x \in 0 .. d - 1 : <<s, x>> \in V

OnWalk(d, V, s, j) == AtHub(d, V, s, j) \/ AtSpoke(d, V, s, j) \/ AtLast(d, V, s, j)

Full(d, V, s) == \A x \in 0 .. d - 1 : <<s, x>> \in V
FirstOf(d, V, s, f) == /\ f \in 0 .. d - 1 /\ <<s, f>> \notin V
                       /\ \A y \in 0 .. d - 1 : <<s, y>> \notin V => f <= y

\* One step of the walk: the first action f not tried, or a jump.
LEMMA Walks ==
    ASSUME NEW d \in Nat \ {0}, NEW V, NEW s \in 0 .. d - 1, NEW j \in Nat, OnWalk(d, V, s, j)
    PROVE  \E f \in 0 .. d - 1 : \E k \in Nat, n \in 0 .. d - 1 :
             /\ FirstOf(d, V, s, f)
             /\ IF Full(d, V, f) THEN k = j + 1 /\ n = (f + k) % d ELSE k = j /\ n = f
             /\ <<s, n>> \notin V
             /\ OnWalk(d, V \cup {<<s, n>>}, n, k) \/ AllTried(d, V \cup {<<s, n>>})
<1> DEFINE W(n) == V \cup {<<s, n>>}
<1>w. \A n, u, x : <<u, x>> \in W(n) <=> <<u, x>> \in V \/ (u = s /\ x = n)
  OBVIOUS
<1>1. ASSUME s = j, j < d - 1, NEW p \in j .. d - 1, Exactly(d, V, j, p, p)
      PROVE  /\ FirstOf(d, V, s, p) /\ ~Full(d, V, p) /\ <<s, p>> \notin V
             /\ OnWalk(d, W(p), p, j)
  <2>0. p \in 0 .. d - 1 /\ p \in Nat /\ s \in Nat
    BY <1>1
  <2>s. s = j /\ j < d - 1 /\ j <= p
    BY <1>1
  <2>1. FirstOf(d, V, s, p) /\ <<s, p>> \notin V
    BY <1>1, <2>0 DEF FirstOf, Exactly, Been
  <2>2. ~Full(d, V, p)
    <3>1. CASE p = d - 1
      <4>1. 0 \in 0 .. d - 1 /\ <<p, 0>> \notin V
        BY <1>1, <2>0, <3>1 DEF Exactly, Been
      <4> QED BY <4>1 DEF Full
    <3>2. CASE p < d - 1
      <4>1. d - 1 \in 0 .. d - 1 /\ <<p, d - 1>> \notin V
        BY <1>1, <2>0, <3>2 DEF Exactly, Been
      <4> QED BY <4>1 DEF Full
    <3> QED BY <2>0, <3>1, <3>2
  <2>3. CASE p = j
    <3>1. Exactly(d, W(p), j, p + 1, p + 1)
      <4>1. ASSUME NEW u \in 0 .. d - 1, NEW x \in 0 .. d - 1
            PROVE  <<u, x>> \in W(p) <=> Been(d, j, p + 1, p + 1, u, x)
        <5>1. <<u, x>> \in V <=> Been(d, j, p, p, u, x)
          BY <1>1 DEF Exactly
        <5>2. Been(d, j, p + 1, p + 1, u, x) <=> Been(d, j, p, p, u, x) \/ (u = s /\ x = p)
          BY <2>s, <2>0, <2>3 DEF Been
        <5> HIDE DEF W
        <5> QED BY <1>w, <5>1, <5>2
      <4> QED BY <4>1 DEF Exactly
    <3> QED BY <2>s, <2>0, <2>1, <2>2, <2>3, <3>1 DEF OnWalk, AtHub
  <2>4. CASE j < p /\ p < d - 1
    <3>1. Exactly(d, W(p), j, p + 1, p)
      <4>1. ASSUME NEW u \in 0 .. d - 1, NEW x \in 0 .. d - 1
            PROVE  <<u, x>> \in W(p) <=> Been(d, j, p + 1, p, u, x)
        <5>1. <<u, x>> \in V <=> Been(d, j, p, p, u, x)
          BY <1>1 DEF Exactly
        <5>2. Been(d, j, p + 1, p, u, x) <=> Been(d, j, p, p, u, x) \/ (u = s /\ x = p)
          BY <2>s, <2>0, <2>4 DEF Been
        <5> HIDE DEF W
        <5> QED BY <1>w, <5>1, <5>2
      <4> QED BY <4>1 DEF Exactly
    <3> QED BY <2>1, <2>2, <2>0, <2>4, <3>1 DEF OnWalk, AtSpoke
  <2>5. CASE j < p /\ p = d - 1
    <3>1. Exactly(d, W(p), j, d, d - 1)
      <4>1. ASSUME NEW u \in 0 .. d - 1, NEW x \in 0 .. d - 1
            PROVE  <<u, x>> \in W(p) <=> Been(d, j, d, d - 1, u, x)
        <5>1. <<u, x>> \in V <=> Been(d, j, p, p, u, x)
          BY <1>1 DEF Exactly
        <5>2. Been(d, j, d, d - 1, u, x) <=> Been(d, j, p, p, u, x) \/ (u = s /\ x = p)
          BY <2>s, <2>0, <2>5 DEF Been
        <5> HIDE DEF W
        <5> QED BY <1>w, <5>1, <5>2
      <4> QED BY <4>1 DEF Exactly
    <3> QED BY <2>1, <2>2, <2>0, <2>s, <2>5, <3>1 DEF OnWalk, AtLast
  <2>6. j <= p /\ p <= d - 1
    BY <1>1
  <2> QED BY <2>0, <2>1, <2>2, <2>3, <2>4, <2>5, <2>6
<1>2. ASSUME AtSpoke(d, V, s, j)
      PROVE  /\ j \in 0 .. d - 1 /\ FirstOf(d, V, s, j) /\ ~Full(d, V, j) /\ <<s, j>> \notin V
             /\ OnWalk(d, W(j), j, j)
  <2>0. j \in 0 .. d - 1 /\ j < s /\ s < d - 1 /\ Exactly(d, V, j, s + 1, s)
    BY <1>2 DEF AtSpoke
  <2>1. FirstOf(d, V, s, j) /\ <<s, j>> \notin V
    BY <2>0 DEF FirstOf, Exactly, Been
  <2>2. ~Full(d, V, j)
    <3>1. d - 1 \in 0 .. d - 1 /\ <<j, d - 1>> \notin V
      BY <2>0 DEF Exactly, Been
    <3> QED BY <3>1 DEF Full
  <2>3. Exactly(d, W(j), j, s + 1, s + 1)
    <3>1. ASSUME NEW u \in 0 .. d - 1, NEW x \in 0 .. d - 1
          PROVE  <<u, x>> \in W(j) <=> Been(d, j, s + 1, s + 1, u, x)
      <4>1. <<u, x>> \in V <=> Been(d, j, s + 1, s, u, x)
        BY <2>0 DEF Exactly
      <4>2. Been(d, j, s + 1, s + 1, u, x) <=> Been(d, j, s + 1, s, u, x) \/ (u = s /\ x = j)
        BY <2>0 DEF Been
      <4> HIDE DEF W
      <4> QED BY <1>w, <4>1, <4>2
    <3> QED BY <3>1 DEF Exactly
  <2>4. s + 1 \in j .. d - 1 /\ j < d - 1
    BY <2>0
  <2>5. AtHub(d, W(j), j, j)
    BY <2>3, <2>4 DEF AtHub
  <2> QED BY <2>0, <2>1, <2>2, <2>5 DEF OnWalk
<1>3. ASSUME AtLast(d, V, s, j)
      PROVE  /\ FirstOf(d, V, s, 0) /\ (Full(d, V, 0) <=> d # 1)
             /\ (0 + (j + 1)) % d = IF j < d - 1 THEN j + 1 ELSE 0
             /\ j < d - 1 => <<s, j + 1>> \notin V /\ OnWalk(d, W(j + 1), j + 1, j + 1)
             /\ j = d - 1 => <<s, 0>> \notin V /\ AllTried(d, W(0))
  <2>0. s = d - 1 /\ j \in 0 .. d - 1 /\ Exactly(d, V, j, d, d - 1) /\ 0 \in 0 .. d - 1
    BY <1>3 DEF AtLast
  <2>1. FirstOf(d, V, s, 0) /\ <<s, 0>> \notin V
    BY <2>0 DEF FirstOf, Exactly, Been
  <2>2. CASE d = 1
    <3>1. s = 0 /\ j = 0 /\ ~Full(d, V, 0)
      BY <2>0, <2>1, <2>2 DEF Full
    <3>2. (0 + (j + 1)) % d = 0
      BY <2>2, <3>1
    <3>3. AllTried(d, W(0))
      BY <2>2, <3>1 DEF AllTried
    <3> QED BY <2>1, <2>2, <3>1, <3>2, <3>3
  <2>3. CASE d # 1
    <3>1. Full(d, V, 0)
      <4>1. \A x \in 0 .. d - 1 : Been(d, j, d, d - 1, 0, x)
        BY <2>0, <2>3 DEF Been
      <4> QED BY <2>0, <4>1 DEF Full, Exactly
    <3>2. (0 + (j + 1)) % d = IF j < d - 1 THEN j + 1 ELSE 0
      <4>1. 0 + (j + 1) = j + 1 /\ j + 1 \in Nat /\ j + 1 <= d
        BY <2>0
      <4> QED BY <4>1
    <3>3. ASSUME j < d - 1
          PROVE  <<s, j + 1>> \notin V /\ OnWalk(d, W(j + 1), j + 1, j + 1)
      <4>1. <<s, j + 1>> \notin V
        BY <2>0, <3>3 DEF Exactly, Been
      <4>2. ASSUME NEW u \in 0 .. d - 1, NEW x \in 0 .. d - 1
            PROVE  <<u, x>> \in W(j + 1) <=> Been(d, j, d, d - 1, u, x) \/ (u = s /\ x = j + 1)
        <5>1. <<u, x>> \in V <=> Been(d, j, d, d - 1, u, x)
          BY <2>0 DEF Exactly
        <5> HIDE DEF W
        <5> QED BY <1>w, <5>1
      <4>3. CASE j + 1 < d - 1
        <5>1. Exactly(d, W(j + 1), j + 1, j + 1, j + 1)
          <6>1. ASSUME NEW u \in 0 .. d - 1, NEW x \in 0 .. d - 1
                PROVE  Been(d, j + 1, j + 1, j + 1, u, x)
                         <=> Been(d, j, d, d - 1, u, x) \/ (u = s /\ x = j + 1)
            BY <2>0, <4>3 DEF Been
          <6> QED BY <4>2, <6>1 DEF Exactly
        <5>2. j + 1 \in j + 1 .. d - 1
          BY <2>0, <4>3
        <5> QED BY <4>1, <4>3, <5>1, <5>2 DEF OnWalk, AtHub
      <4>4. CASE j + 1 = d - 1
        <5>1. Exactly(d, W(j + 1), j + 1, d, d - 1)
          <6>1. ASSUME NEW u \in 0 .. d - 1, NEW x \in 0 .. d - 1
                PROVE  Been(d, j + 1, d, d - 1, u, x)
                         <=> Been(d, j, d, d - 1, u, x) \/ (u = s /\ x = j + 1)
            BY <2>0, <4>4 DEF Been
          <6> QED BY <4>2, <6>1 DEF Exactly
        <5>2. j + 1 <= d - 1
          BY <2>0, <4>4
        <5> QED BY <4>1, <4>4, <5>1, <5>2 DEF OnWalk, AtLast
      <4> QED BY <2>0, <3>3, <4>3, <4>4, <4>1
    <3>4. ASSUME j = d - 1 PROVE AllTried(d, W(0))
      <4>1. ASSUME NEW u \in 0 .. d - 1, NEW x \in 0 .. d - 1
            PROVE  <<u, x>> \in W(0)
        <5>1. <<u, x>> \in V <=> Been(d, j, d, d - 1, u, x)
          BY <2>0 DEF Exactly
        <5>2. Been(d, j, d, d - 1, u, x) \/ (u = s /\ x = 0)
          BY <2>0, <3>4 DEF Been
        <5> HIDE DEF W
        <5> QED BY <1>w, <5>1, <5>2
      <4> QED BY <4>1 DEF AllTried
    <3> QED BY <2>1, <2>3, <3>1, <3>2, <3>3, <3>4
  <2> QED BY <2>2, <2>3
<1>4. CASE AtHub(d, V, s, j)
  <2>1. PICK p \in j .. d - 1 : Exactly(d, V, j, p, p)
    BY <1>4 DEF AtHub
  <2>2. s = j /\ j < d - 1
    BY <1>4 DEF AtHub
  <2>3. p \in 0 .. d - 1
    BY <2>1
  <2>4. /\ FirstOf(d, V, s, p) /\ ~Full(d, V, p) /\ <<s, p>> \notin V
        /\ OnWalk(d, W(p), p, j)
    BY <1>1, <2>1, <2>2
  <2> QED BY <2>3, <2>4
<1>5. CASE AtSpoke(d, V, s, j)
  BY <1>2, <1>5
<1>6. CASE AtLast(d, V, s, j)
  <2>1. 0 \in 0 .. d - 1 /\ j + 1 \in Nat /\ (j < d - 1 \/ j = d - 1)
    BY <1>6 DEF AtLast
  <2>2. CASE j < d - 1
    <3>1. j + 1 \in 0 .. d - 1 /\ d # 1
      BY <2>2
    <3>2. /\ FirstOf(d, V, s, 0) /\ Full(d, V, 0) /\ j + 1 = (0 + (j + 1)) % d
          /\ <<s, j + 1>> \notin V /\ OnWalk(d, W(j + 1), j + 1, j + 1)
      BY <1>3, <1>6, <2>2, <3>1
    <3> QED BY <2>1, <3>1, <3>2
  <2>3. CASE j = d - 1
    <3>1. /\ FirstOf(d, V, s, 0) /\ (Full(d, V, 0) <=> d # 1) /\ 0 = (0 + (j + 1)) % d
          /\ <<s, 0>> \notin V /\ AllTried(d, W(0))
      BY <1>3, <1>6, <2>3
    <3> QED BY <2>1, <3>1
  <2> QED BY <2>1, <2>2, <2>3
<1> QED BY <1>4, <1>5, <1>6 DEF OnWalk
---------------------------------------------------------------------------
AgentRecords ==
    [dim : Nat \ {0}, policy : Policies, step : Nat, state : Nat, low : Int, high : Int,
     visited : SUBSET (Nat \X Nat), noOnes : Nat, jumpIndex : Nat]

\* An agent has counted the pairs it has tried, and explore first is on its walk or
\* has been everywhere.
Exact(a) ==
    /\ a \in AgentRecords
    /\ a.state \in Actions(a)
    /\ a.visited \subseteq Actions(a) \X Actions(a)
    /\ a.noOnes = Cardinality(a.visited)
    /\ a.policy = "explore_first" =>
         OnWalk(a.dim, a.visited, a.state, a.jumpIndex) \/ AllTried(a.dim, a.visited)

LEMMA Pairs ==
    ASSUME NEW d \in Nat, NEW V \in SUBSET ((0 .. d - 1) \X (0 .. d - 1))
    PROVE  IsFiniteSet(V) /\ Cardinality(V) \in Nat /\ (AllTried(d, V) => Cardinality(V) = d * d)
<1>1. IsFiniteSet(0 .. d - 1) /\ Cardinality(0 .. d - 1) = d
  BY FS_Interval
<1>2. /\ IsFiniteSet((0 .. d - 1) \X (0 .. d - 1))
      /\ Cardinality((0 .. d - 1) \X (0 .. d - 1)) = d * d
  BY <1>1, FS_Product
<1>3. IsFiniteSet(V) /\ Cardinality(V) \in Nat
  BY <1>2, FS_Subset, FS_CardinalityType
<1>4. AllTried(d, V) => V = (0 .. d - 1) \X (0 .. d - 1)
  BY DEF AllTried
<1> QED BY <1>2, <1>3, <1>4

\* A counted agent is exploring as long as there is something to explore.
LEMMA StillOnWalk ==
    ASSUME NEW a, Exact(a), a.policy = "explore_first", Exploring(a)
    PROVE  OnWalk(a.dim, a.visited, a.state, a.jumpIndex)
<1> DEFINE d == a.dim
           V == a.visited
<1>1. d \in Nat /\ V \in SUBSET ((0 .. d - 1) \X (0 .. d - 1))
  BY DEF Exact, AgentRecords, Actions
<1>2. ~(Cardinality(V) = d * d)
  <2>1. d * d \in Nat
    BY <1>1
  <2>2. Cardinality(V) < d * d
    BY DEF Exact, Exploring
  <2> HIDE DEF d, V
  <2>3. Cardinality(V) \in Nat
    BY <1>1, Pairs
  <2> QED BY <2>1, <2>2, <2>3
<1>3. ~AllTried(d, V)
  <2> HIDE DEF d, V
  <2> QED BY <1>1, <1>2, Pairs
<1> QED BY <1>3 DEF Exact

\* An agent that has stopped exploring has been everywhere.
LEMMA Unfinished ==
    ASSUME NEW a, Exact(a), a.policy = "explore_first", ~Exploring(a)
    PROVE  AllTried(a.dim, a.visited)
<1> DEFINE d == a.dim
           V == a.visited
           s == a.state
           j == a.jumpIndex
           P == (0 .. d - 1) \X (0 .. d - 1)
<1>1. /\ d \in Nat \ {0} /\ s \in 0 .. d - 1 /\ j \in Nat
      /\ V \in SUBSET P /\ Cardinality(V) = a.noOnes /\ a.noOnes \in Nat
  BY DEF Exact, AgentRecords, Actions
<1>2. d * d <= Cardinality(V) /\ d * d \in Nat
  <2>1. d * d \in Nat
    BY <1>1
  <2>2. ~(a.noOnes < d * d)
    BY DEF Exploring
  <2> QED BY <1>1, <2>1, <2>2
<1>3. IsFiniteSet(P) /\ Cardinality(P) = d * d
  <2> HIDE DEF d
  <2>1. IsFiniteSet(0 .. d - 1) /\ Cardinality(0 .. d - 1) = d
    BY <1>1, FS_Interval
  <2> QED BY <2>1, FS_Product
<1> HIDE DEF d, V, P
<1>4. Cardinality(V) <= Cardinality(P) /\ (Cardinality(P) = Cardinality(V) => P = V)
  BY <1>1, <1>3, FS_Subset
<1>5. P = V
  BY <1>1, <1>2, <1>3, <1>4
<1> QED BY <1>5 DEF AllTried, P, V, d

\* What explore first looks at, in terms of the walk.
LEMMA Looks ==
    ASSUME NEW a, NEW s, NEW f, a.dim \in Nat, FirstOf(a.dim, a.visited, s, f)
    PROVE  FirstFresh(a, s) = f /\ ~RowFull(a, s)
           /\ (Jump(a, s) <=> Full(a.dim, a.visited, f))
<1>1. f \in Fresh(a, s) /\ \A y \in Fresh(a, s) : f <= y
  BY DEF FirstOf, Fresh, Actions
<1>2. ~RowFull(a, s)
  BY DEF FirstOf, RowFull, Actions
<1>3. \A g \in Fresh(a, s) : (\A y \in Fresh(a, s) : g <= y) => g = f
  <2>1. \A g \in Fresh(a, s) : g \in Int
    BY DEF Fresh, Actions
  <2>2. f \in Int
    BY <1>1, <2>1
  <2> QED BY <1>1, <2>1, <2>2
<1>4. FirstFresh(a, s) = f
  BY <1>1, <1>2, <1>3 DEF FirstFresh
<1>5. f < a.dim
  BY DEF FirstOf
<1> QED BY <1>2, <1>4, <1>5 DEF Jump, RowFull, Full, Actions

\* The action SARSA looks the next value up with is one of the agent.
LEMMA SecondWithin ==
    ASSUME NEW a, Exact(a)
    PROVE  SecondActions(a, a.state) \subseteq Actions(a)
<1>1. CASE a.policy = "explore_first" /\ Exploring(a)
  <2> DEFINE d == a.dim
             V == a.visited
             s == a.state
             j == a.jumpIndex
  <2>1. d \in Nat \ {0} /\ s \in 0 .. d - 1 /\ j \in Nat
    BY DEF Exact, AgentRecords, Actions
  <2>2. OnWalk(d, V, s, j)
    BY <1>1, StillOnWalk
  <2>3. PICK f \in 0 .. d - 1 : FirstOf(d, V, s, f)
    <3> HIDE DEF d, V, s, j
    <3> QED BY <2>1, <2>2, Walks
  <2>4. FirstFresh(a, s) = f
    BY <2>1, <2>3, Looks
  <2>5. Explored(a, s, j) \in 0 .. d - 1
    <3>1. (f + j) % d \in 0 .. d - 1
      <4>1. f + j \in Int
        BY <2>1
      <4> HIDE DEF d, j
      <4> QED BY <2>1, <4>1
    <3> QED BY <2>3, <2>4, <3>1 DEF Explored
  <2> QED BY <1>1, <2>5 DEF SecondActions, Actions
<1>2. CASE ~(a.policy = "explore_first" /\ Exploring(a))
  BY <1>2 DEF SecondActions
<1> QED BY <1>1, <1>2

\* A pair more, a time step more.
GoesTo(a, k, n) ==
    [a EXCEPT !.jumpIndex = k, !.noOnes = a.noOnes + 1, !.visited = a.visited \cup {<<a.state, n>>}]
Arrives(a, n) == [a EXCEPT !.step = a.step + 1, !.state = n]

LEMMA Arrived ==
    ASSUME NEW a \in AgentRecords, NEW n \in Nat
    PROVE  /\ Arrives(a, n) \in AgentRecords /\ Arrives(a, n).state = n
           /\ Arrives(a, n).dim = a.dim /\ Arrives(a, n).policy = a.policy
           /\ Arrives(a, n).visited = a.visited /\ Arrives(a, n).noOnes = a.noOnes
           /\ Arrives(a, n).jumpIndex = a.jumpIndex
<1>1. a.step + 1 \in Nat
  BY DEF AgentRecords
<1> DEFINE t == a.step + 1
<1>2. Arrives(a, n) = [a EXCEPT !.step = t, !.state = n]
  BY DEF Arrives
<1> HIDE DEF t
<1> QED BY <1>1, <1>2 DEF AgentRecords, t

OnePairMore(a, g, k, n) ==
    /\ g \in AgentRecords /\ g.state = a.state /\ g.dim = a.dim /\ g.policy = a.policy
    /\ g.visited = a.visited \cup {<<a.state, n>>} /\ g.noOnes = a.noOnes + 1
    /\ g.jumpIndex = k

LEMMA Gone ==
    ASSUME NEW a \in AgentRecords, NEW k \in Nat, NEW n \in Nat
    PROVE  OnePairMore(a, GoesTo(a, k, n), k, n)
<1> DEFINE c == a.noOnes + 1
           W == a.visited \cup {<<a.state, n>>}
<1>1. c \in Nat /\ W \in SUBSET (Nat \X Nat)
  BY DEF AgentRecords
<1>2. GoesTo(a, k, n) = [a EXCEPT !.jumpIndex = k, !.noOnes = c, !.visited = W]
  BY DEF GoesTo
<1>3. c = a.noOnes + 1 /\ W = a.visited \cup {<<a.state, n>>}
  OBVIOUS
<1> HIDE DEF c, W
<1>4. /\ GoesTo(a, k, n) \in AgentRecords /\ GoesTo(a, k, n).state = a.state
      /\ GoesTo(a, k, n).dim = a.dim /\ GoesTo(a, k, n).policy = a.policy
      /\ GoesTo(a, k, n).visited = W /\ GoesTo(a, k, n).noOnes = c
      /\ GoesTo(a, k, n).jumpIndex = k
  BY <1>1, <1>2 DEF AgentRecords
<1> QED BY <1>3, <1>4 DEF OnePairMore

LEMMA RewardedKeeps ==
    ASSUME NEW a, Exact(a), NEW signal \in Int
    PROVE  Exact(Rewarded(a, signal)) /\ Rewarded(a, signal).dim = a.dim
           /\ Rewarded(a, signal).policy = a.policy
<1> DEFINE low == IF Good(a, signal) /\ signal < a.low THEN signal ELSE a.low
           high == IF Bad(a, signal) /\ signal > a.high THEN signal ELSE a.high
<1>0. a \in AgentRecords
  BY DEF Exact
<1>1. low \in Int /\ high \in Int
  BY <1>0 DEF AgentRecords
<1>2. Rewarded(a, signal) = [a EXCEPT !.low = low, !.high = high]
  BY DEF Rewarded
<1> HIDE DEF low, high
<1>3. /\ Rewarded(a, signal) \in AgentRecords
      /\ Rewarded(a, signal).dim = a.dim /\ Rewarded(a, signal).policy = a.policy
      /\ Rewarded(a, signal).visited = a.visited /\ Rewarded(a, signal).noOnes = a.noOnes
      /\ Rewarded(a, signal).jumpIndex = a.jumpIndex /\ Rewarded(a, signal).state = a.state
  BY <1>0, <1>1, <1>2 DEF AgentRecords
<1> QED BY <1>3 DEF Exact, Actions

\* A step of explore first while it explores: along the walk.
LEMMA ExploresOn ==
    ASSUME NEW a, Exact(a), a.policy = "explore_first", Exploring(a)
    PROVE  \E k \in Nat, n \in Actions(a) :
             Marked(a) = GoesTo(a, k, n) /\ NextActions(a) = {n}
             /\ Exact(Arrives(GoesTo(a, k, n), n))
<1> DEFINE d == a.dim
           V == a.visited
           s == a.state
           j == a.jumpIndex
<1>0. a \in AgentRecords
  BY DEF Exact
<1>1. /\ d \in Nat \ {0} /\ s \in 0 .. d - 1 /\ j \in Nat
      /\ V \in SUBSET ((0 .. d - 1) \X (0 .. d - 1)) /\ a.noOnes = Cardinality(V)
  BY DEF Exact, AgentRecords, Actions
<1>2. OnWalk(d, V, s, j)
  BY StillOnWalk
<1>3. PICK f \in 0 .. d - 1 : \E k \in Nat, n \in 0 .. d - 1 :
             /\ FirstOf(d, V, s, f)
             /\ IF Full(d, V, f) THEN k = j + 1 /\ n = (f + k) % d ELSE k = j /\ n = f
             /\ <<s, n>> \notin V
             /\ OnWalk(d, V \cup {<<s, n>>}, n, k) \/ AllTried(d, V \cup {<<s, n>>})
  <2> HIDE DEF d, V, s, j
  <2> QED BY <1>1, <1>2, Walks
<1>4. PICK k \in Nat, n \in 0 .. d - 1 :
             /\ FirstOf(d, V, s, f)
             /\ IF Full(d, V, f) THEN k = j + 1 /\ n = (f + k) % d ELSE k = j /\ n = f
             /\ <<s, n>> \notin V
             /\ OnWalk(d, V \cup {<<s, n>>}, n, k) \/ AllTried(d, V \cup {<<s, n>>})
  BY <1>3
<1>5. FirstFresh(a, s) = f /\ ~RowFull(a, s) /\ (Jump(a, s) <=> Full(d, V, f))
  BY <1>1, <1>4, Looks
<1>6. (IF Jump(a, s) THEN j + 1 ELSE j) = k /\ Explored(a, s, k) = n
  BY <1>4, <1>5 DEF Explored
<1>7. NextActions(a) = {n}
  BY <1>6 DEF NextActions
<1>8. Marked(a) = GoesTo(a, k, n)
  <2>1. Marked(a) = [a EXCEPT !.jumpIndex = k, !.noOnes = @ + 1, !.visited = @ \cup {<<s, n>>}]
    BY <1>5, <1>6 DEF Marked
  <2> QED BY <1>0, <2>1, Zenon DEF GoesTo
<1>9. Exact(Arrives(GoesTo(a, k, n), n))
  <2> DEFINE g == GoesTo(a, k, n)
             h == Arrives(g, n)
  <2>0. n \in Nat
    BY <1>1
  <2>1. /\ g \in AgentRecords /\ g.dim = d /\ g.policy = a.policy /\ g.jumpIndex = k
        /\ g.visited = V \cup {<<s, n>>} /\ g.noOnes = a.noOnes + 1
    <3>1. OnePairMore(a, g, k, n)
      BY <1>0, <2>0, Gone
    <3> HIDE DEF g
    <3> QED BY <3>1 DEF OnePairMore
  <2>2. /\ h \in AgentRecords /\ h.dim = d /\ h.policy = a.policy /\ h.jumpIndex = k
        /\ h.visited = V \cup {<<s, n>>} /\ h.noOnes = a.noOnes + 1 /\ h.state = n
    <3> HIDE DEF g
    <3> QED BY <2>0, <2>1, Arrived
  <2>3. Cardinality(V \cup {<<s, n>>}) = Cardinality(V) + 1
    <3>1. IsFiniteSet(V)
      <4> HIDE DEF V, d
      <4> QED BY <1>1, Pairs
    <3> QED BY <1>4, <3>1, FS_AddElement
  <2>4. V \cup {<<s, n>>} \subseteq (0 .. d - 1) \X (0 .. d - 1)
    BY <1>1
  <2> HIDE DEF d, V, s, g, h
  <2>5. Exact(h)
    BY <1>1, <1>4, <2>2, <2>3, <2>4 DEF Exact, Actions
  <2> QED BY <2>5 DEF h, g
<1> QED BY <1>7, <1>8, <1>9 DEF Actions

\* Any step of an agent.
LEMMA SteppedKeeps ==
    ASSUME NEW a, Exact(a), NEW signal \in Int, NEW c \in Stepped(a, signal)
    PROVE  Exact(c) /\ c.dim = a.dim
<1> DEFINE b == Rewarded(a, signal)
           m == IF b.policy = "explore_first" /\ Exploring(b) THEN Marked(b) ELSE b
<1>1. Exact(b) /\ b.dim = a.dim
  BY RewardedKeeps
<1>2. PICK x \in NextActions(b) : c = [m EXCEPT !.step = @ + 1, !.state = x]
  BY DEF Stepped
<1>3. m \in AgentRecords => c = Arrives(m, x)
  BY <1>2, Zenon DEF Arrives
<1>4. CASE b.policy = "explore_first" /\ Exploring(b)
  <2> HIDE DEF b
  <2>1. PICK k \in Nat, n \in Actions(b) :
             Marked(b) = GoesTo(b, k, n) /\ NextActions(b) = {n}
             /\ Exact(Arrives(GoesTo(b, k, n), n))
    BY <1>1, <1>4, ExploresOn
  <2>2. x = n /\ m = GoesTo(b, k, n)
    BY <1>2, <1>4, <2>1
  <2>3. b \in AgentRecords /\ n \in Nat
    BY <1>1 DEF Exact, AgentRecords, Actions
  <2>4. m \in AgentRecords /\ m.dim = b.dim
    BY <2>2, <2>3, Gone DEF OnePairMore
  <2>5. c = Arrives(m, x)
    BY <1>3, <2>4
  <2>6. Arrives(m, x).dim = m.dim
    <3> HIDE DEF m
    <3> QED BY <2>2, <2>3, <2>4, Arrived
  <2> QED BY <1>1, <2>1, <2>2, <2>4, <2>5, <2>6
<1>5. CASE ~(b.policy = "explore_first" /\ Exploring(b))
  <2>1. m = b /\ NextActions(b) = Actions(b)
    BY <1>5 DEF NextActions
  <2>2. b \in AgentRecords
    BY <1>1 DEF Exact
  <2>3. c = Arrives(b, x)
    BY <1>3, <2>1, <2>2
  <2> HIDE DEF b, m
  <2>4. x \in Nat /\ x \in Actions(b)
    BY <2>1, <1>2, <2>2 DEF Actions, AgentRecords
  <2>5. /\ c \in AgentRecords /\ c.state = x /\ c.dim = b.dim /\ c.policy = b.policy
        /\ c.visited = b.visited /\ c.noOnes = b.noOnes /\ c.jumpIndex = b.jumpIndex
    BY <2>2, <2>3, <2>4, Arrived
  <2>6. c.policy = "explore_first" => AllTried(c.dim, c.visited)
    BY <1>1, <1>5, <2>5, Unfinished
  <2> QED BY <1>1, <2>4, <2>5, <2>6 DEF Exact, Actions
<1> QED BY <1>4, <1>5

\* A new agent has not begun its walk.
LEMMA NewExact ==
    ASSUME NEW d \in Nat \ {0}, NEW q \in Policies
    PROVE  Exact(NewAgent(d, q)) /\ NewAgent(d, q).dim = d
<1>1. NewAgent(d, q) \in AgentRecords
  BY DEF NewAgent, AgentRecords
<1>2. OnWalk(d, {}, 0, 0)
  <2>1. CASE d = 1
    <3>1. Exactly(d, {}, 0, d, d - 1)
      BY <2>1 DEF Exactly, Been
    <3> QED BY <2>1, <3>1 DEF OnWalk, AtLast
  <2>2. CASE d # 1
    <3>1. Exactly(d, {}, 0, 0, 0) /\ 0 \in 0 .. d - 1 /\ 0 < d - 1
      BY <2>2 DEF Exactly, Been
    <3> QED BY <3>1 DEF OnWalk, AtHub
  <2> QED BY <2>1, <2>2
<1>3. Cardinality({}) = 0
  BY FS_EmptySet
<1> QED BY <1>1, <1>2, <1>3 DEF Exact, NewAgent, Actions
---------------------------------------------------------------------------
LEMMA LeastOf ==
    ASSUME NEW T \in SUBSET Nat, T # {}
    PROVE  \E x \in T : \A y \in T : x <= y
<1>1. PICK x \in T : \A y \in T : ~(<<y, x>> \in OpToRel(<, Nat))
  BY WFMin, NatLessThanWellFounded
<1>2. \A y \in T : ~(y < x)
  BY <1>1 DEF OpToRel
<1> QED BY <1>2

LEMMA Power ==
    ASSUME NEW i \in Nat
    PROVE  2 ^ i \in Nat \ {0}
<1>1. IsFiniteSet(1 .. i) /\ Cardinality(1 .. i) = i
  BY FS_Interval
<1>2. IsFiniteSet(SUBSET (1 .. i)) /\ Cardinality(SUBSET (1 .. i)) = 2 ^ i
  BY <1>1, FS_SUBSET
<1>3. 2 ^ i \in Nat /\ (2 ^ i = 0 <=> SUBSET (1 .. i) = {})
  BY <1>2, FS_CardinalityType, FS_EmptySet
<1>4. {} \in SUBSET (1 .. i)
  OBVIOUS
<1> QED BY <1>3, <1>4

\* An int has a logarithm, and that of 4 or more is at least 2.
LEMMA Logarithm ==
    ASSUME NEW x \in Nat, x >= 4, x < 2 ^ 31
    PROVE  Log2Of(x) \in 2 .. 30
<1> DEFINE T == {i \in 0 .. 30 : x < 2 ^ (i + 1)}
<1>1. T \in SUBSET Nat /\ 30 \in T
  OBVIOUS
<1>2. PICK k \in T : \A i \in T : k <= i
  BY <1>1, LeastOf
<1>3. 2 ^ k <= x
  <2>1. CASE k = 0
    BY <2>1
  <2>2. CASE k # 0
    <3>1. k - 1 \in 0 .. 30 /\ k - 1 \notin T /\ (k - 1) + 1 = k
      BY <1>2, <2>2
    <3>2. ~(x < 2 ^ k)
      BY <3>1
    <3>3. 2 ^ k \in Nat
      BY <1>2, Power
    <3> QED BY <3>2, <3>3
  <2> QED BY <2>1, <2>2
<1>4. k \in 0 .. 30 /\ 2 ^ k <= x /\ x < 2 ^ (k + 1)
  BY <1>2, <1>3
<1> HIDE DEF T
<1>5. /\ Log2Of(x) \in 0 .. 30
      /\ x < 2 ^ (Log2Of(x) + 1)
  BY <1>4 DEF Log2Of
<1>6. Log2Of(x) # 0 /\ Log2Of(x) # 1
  <2>1. 2 ^ 1 = 2 /\ 2 ^ 2 = 4 /\ 0 + 1 = 1 /\ 1 + 1 = 2
    OBVIOUS
  <2>2. ASSUME Log2Of(x) = 0 PROVE FALSE
    <3>1. x < 2 ^ (0 + 1)
      BY <1>5, <2>2
    <3> QED BY <2>1, <3>1
  <2>3. ASSUME Log2Of(x) = 1 PROVE FALSE
    <3>1. x < 2 ^ (1 + 1)
      BY <1>5, <2>3
    <3> QED BY <2>1, <3>1
  <2> QED BY <2>2, <2>3
<1> QED BY <1>5, <1>6

LEMMA Dimensions ==
    ASSUME NEW p \in Places, option \in Options
    PROVE  Dimension(p) \in Nat \ {0}
<1>1. CASE option = 15
  <2> DEFINE n == Trips[p]
  <2>1. n \in Nat /\ n >= 4 * Team /\ n < 2 ^ 31 /\ Team \in Nat \ {0}
    BY <1>1, TuningAssumption
  <2> HIDE DEF n
  <2>2. n \div Team \in Nat /\ n \div Team >= 4 /\ n \div Team <= n
    BY <2>1
  <2>3. n \div Team < 2 ^ 31
    BY <2>1, <2>2
  <2>4. Log2Of(n \div Team) \in 2 .. 30
    BY <2>2, <2>3, Logarithm
  <2> QED BY <1>1, <2>4 DEF Dimension, ChunkCount, n
<1>2. CASE option # 15
  BY <1>2, SizeAssumption DEF Dimension
<1> QED BY <1>1, <1>2

\* Every chunk size in a table is an integer.
IntTable(table) == \A x \in DOMAIN table : table[x] \in Int

LEMMA Tables ==
    ASSUME NEW d \in Nat, NEW n \in Nat
    PROVE  IntTable(ChunkSizes(d, n, Team))
<1>1. ASSUME NEW i \in 0 .. d - 1 PROVE n \div (2 ^ (i + 1) * Team) \in Int
  <2> DEFINE q == 2 ^ (i + 1)
  <2>1. q \in Nat \ {0}
    BY Power
  <2> HIDE DEF q
  <2>2. q * Team \in Nat \ {0}
    BY <2>1, TuningAssumption
  <2> QED BY <2>2 DEF q
<1> QED BY <1>1 DEF IntTable, ChunkSizes

---------------------------------------------------------------------------
\* The memberships of the fuzzy sets are not negative, so that the areas are not.
LEMMA OfImbalance ==
    \A lb \in Int, hole \in Nat :
        LBISHigh(lb) \in Nat /\ LBISModerate(lb, hole) \in Nat /\ LBISLow(lb) \in Nat
  BY DEF LBISHigh, LBISModerate, LBISLow
LEMMA OfItsChange ==
    \A dlb \in Int : DlbISDegraded(dlb) \in Nat /\ DlbISImproved(dlb) \in Nat
                      /\ DlbISNoChange(dlb) \in Nat
  BY DEF DlbISDegraded, DlbISImproved, DlbISNoChange
LEMMA OfTime ==
    \A ms \in Int, hole \in Nat :
        TparISLong(ms) \in Nat /\ TparISMedium(ms, hole) \in Nat /\ TparISShort(ms) \in Nat
  BY DEF TparISLong, TparISMedium, TparISShort
LEMMA OfTimeChange ==
    \A dt \in Int, hole \in Nat :
        /\ DTparISNoChange(dt, hole) \in Nat /\ DTparISDegraded(dt) \in Nat
        /\ DTparISImproved(dt) \in Nat
  BY DEF DTparISNoChange, DTparISDegraded, DTparISImproved

LEMMA OfTwo == \A a, b \in Nat : Least(a, b) \in Nat /\ Most(a, b) \in Nat
  BY DEF Least, Most

\* A technique moved by any amount and cut is one of the portfolio.
LEMMA WithinDls == \A d \in Int : Within(d) \in Dls
  BY SizeAssumption DEF Within, Dls

LEMMA FirstWithin ==
    ASSUME NEW ms \in Int, NEW lb \in Int, NEW hole \in Nat, NEW f, f = FirstAreas(FirstRules(ms, lb, hole)),
           FirstTotal(f) # 0
    PROVE  Within(FirstSelected(f)) \in Dls
<1> DEFINE w == FirstRules(ms, lb, hole)
<1>1. w.simple \in Nat /\ w.moderate \in Nat /\ w.aggressive \in Nat
  <2>1. /\ w.simple = Most(TparISShort(ms), LBISLow(lb))
        /\ w.moderate = Most(Most(Least(TparISMedium(ms, hole), LBISHigh(lb)),
                                  Least(TparISMedium(ms, hole), LBISModerate(lb, hole))),
                             Least(TparISLong(ms), LBISModerate(lb, hole)))
        /\ w.aggressive = Least(LBISHigh(lb), TparISLong(ms))
    BY DEF FirstRules
  <2>2. TparISLong(ms) \in Nat /\ TparISMedium(ms, hole) \in Nat /\ TparISShort(ms) \in Nat
    BY OfTime, Zenon
  <2>3. LBISHigh(lb) \in Nat /\ LBISModerate(lb, hole) \in Nat /\ LBISLow(lb) \in Nat
    BY OfImbalance, Zenon
  <2> HIDE DEF w
  <2>4. w.simple \in Nat /\ w.aggressive \in Nat
    BY <2>1, <2>2, <2>3, OfTwo, Zenon
  <2>5. /\ Least(TparISMedium(ms, hole), LBISHigh(lb)) \in Nat
        /\ Least(TparISMedium(ms, hole), LBISModerate(lb, hole)) \in Nat
        /\ Least(TparISLong(ms), LBISModerate(lb, hole)) \in Nat
    BY <2>2, <2>3, OfTwo, Zenon
  <2>6. Most(Least(TparISMedium(ms, hole), LBISHigh(lb)), Least(TparISMedium(ms, hole), LBISModerate(lb, hole))) \in Nat
    BY <2>5, OfTwo, Zenon
  <2>7. w.moderate \in Nat
    <3>1. Most(Most(Least(TparISMedium(ms, hole), LBISHigh(lb)), Least(TparISMedium(ms, hole), LBISModerate(lb, hole))),
               Least(TparISLong(ms), LBISModerate(lb, hole))) \in Nat
      BY <2>5, <2>6, OfTwo, Zenon
    <3> QED BY <2>1, <3>1
  <2> QED BY <2>4, <2>7
<1> HIDE DEF w
<1>2. /\ f.simple \in Nat /\ f.moderate \in Nat /\ f.aggressive \in Nat
  BY <1>1 DEF FirstAreas, w
<1>3. FirstTotal(f) \in Nat \ {0}
  BY <1>2 DEF FirstTotal
<1>4. FirstSelected(f) \in Int
  BY <1>2, <1>3 DEF FirstSelected
<1> QED BY <1>4, WithinDls

LEMMA DeltaWeights ==
    ASSUME NEW ms \in Int, NEW lb \in Int, NEW dt \in Int, NEW dlb \in Int, NEW hole \in Nat
    PROVE  LET w == DeltaRules(ms, lb, dt, dlb, hole)
           IN  w.same \in Nat /\ w.more \in Nat /\ w.less \in Nat
<1> DEFINE w == DeltaRules(ms, lb, dt, dlb, hole)
<1>1. w.same \in Nat /\ w.more \in Nat /\ w.less \in Nat
  <2>1. /\ w.same = Most(Most(Least(DTparISNoChange(dt, hole), DlbISNoChange(dlb)),
                              LBISLow(lb)), DTparISImproved(dt))
        /\ w.more = Most(Most(Least(LBISHigh(lb), TparISLong(ms)),
                              Least(DTparISDegraded(dt), DlbISDegraded(dlb))),
                         Least(DTparISNoChange(dt, hole), DlbISDegraded(dlb)))
        /\ w.less = Most(Most(Most(Least(DTparISDegraded(dt), DlbISImproved(dlb)),
                                   Least(DTparISDegraded(dt), DlbISNoChange(dlb))),
                              Most(Least(DTparISNoChange(dt, hole), DlbISImproved(dlb)),
                                   TparISShort(ms))),
                         Least(DTparISDegraded(dt), LBISLow(lb)))
    BY DEF DeltaRules
  <2>2. TparISLong(ms) \in Nat /\ TparISMedium(ms, hole) \in Nat /\ TparISShort(ms) \in Nat
    BY OfTime, Zenon
  <2>3. LBISHigh(lb) \in Nat /\ LBISModerate(lb, hole) \in Nat /\ LBISLow(lb) \in Nat
    BY OfImbalance, Zenon
  <2>4. DlbISDegraded(dlb) \in Nat /\ DlbISImproved(dlb) \in Nat /\ DlbISNoChange(dlb) \in Nat
    BY OfItsChange, Zenon
  <2>5. /\ DTparISNoChange(dt, hole) \in Nat /\ DTparISDegraded(dt) \in Nat
        /\ DTparISImproved(dt) \in Nat
    BY OfTimeChange
  <2> HIDE DEF w
  <2>6. w.same \in Nat
    <3>1. Least(DTparISNoChange(dt, hole), DlbISNoChange(dlb)) \in Nat
      BY <2>4, <2>5, OfTwo, Zenon
    <3>2. Most(Least(DTparISNoChange(dt, hole), DlbISNoChange(dlb)), LBISLow(lb)) \in Nat
      BY <2>3, <3>1, OfTwo, Zenon
    <3>3. Most(Most(Least(DTparISNoChange(dt, hole), DlbISNoChange(dlb)), LBISLow(lb)),
               DTparISImproved(dt)) \in Nat
      BY <2>5, <3>2, OfTwo, Zenon
    <3> QED BY <2>1, <3>3
  <2>7. w.more \in Nat
    <3>1. /\ Least(LBISHigh(lb), TparISLong(ms)) \in Nat
          /\ Least(DTparISDegraded(dt), DlbISDegraded(dlb)) \in Nat
          /\ Least(DTparISNoChange(dt, hole), DlbISDegraded(dlb)) \in Nat
      BY <2>2, <2>3, <2>4, <2>5, OfTwo, Zenon
    <3>2. Most(Least(LBISHigh(lb), TparISLong(ms)),
               Least(DTparISDegraded(dt), DlbISDegraded(dlb))) \in Nat
      BY <3>1, OfTwo, Zenon
    <3>3. Most(Most(Least(LBISHigh(lb), TparISLong(ms)),
                    Least(DTparISDegraded(dt), DlbISDegraded(dlb))),
               Least(DTparISNoChange(dt, hole), DlbISDegraded(dlb))) \in Nat
      BY <3>1, <3>2, OfTwo, Zenon
    <3> QED BY <2>1, <3>3
  <2>8. w.less \in Nat
    <3>1. /\ Least(DTparISDegraded(dt), DlbISImproved(dlb)) \in Nat
          /\ Least(DTparISDegraded(dt), DlbISNoChange(dlb)) \in Nat
          /\ Least(DTparISNoChange(dt, hole), DlbISImproved(dlb)) \in Nat
          /\ Least(DTparISDegraded(dt), LBISLow(lb)) \in Nat
      BY <2>3, <2>4, <2>5, OfTwo, Zenon
    <3>2. /\ Most(Least(DTparISDegraded(dt), DlbISImproved(dlb)),
                  Least(DTparISDegraded(dt), DlbISNoChange(dlb))) \in Nat
          /\ Most(Least(DTparISNoChange(dt, hole), DlbISImproved(dlb)), TparISShort(ms)) \in Nat
      BY <2>2, <3>1, OfTwo, Zenon
    <3>3. Most(Most(Least(DTparISDegraded(dt), DlbISImproved(dlb)),
                    Least(DTparISDegraded(dt), DlbISNoChange(dlb))),
               Most(Least(DTparISNoChange(dt, hole), DlbISImproved(dlb)), TparISShort(ms))) \in Nat
      BY <3>2, OfTwo, Zenon
    <3>4. Most(Most(Most(Least(DTparISDegraded(dt), DlbISImproved(dlb)),
                         Least(DTparISDegraded(dt), DlbISNoChange(dlb))),
                    Most(Least(DTparISNoChange(dt, hole), DlbISImproved(dlb)), TparISShort(ms))),
               Least(DTparISDegraded(dt), LBISLow(lb))) \in Nat
      BY <3>1, <3>3, OfTwo, Zenon
    <3> QED BY <2>1, <3>4
  <2> QED BY <2>6, <2>7, <2>8
<1> QED BY <1>1

LEMMA DeltaWithin ==
    ASSUME NEW ms \in Int, NEW lb \in Int, NEW dt \in Int, NEW dlb \in Int,
           NEW hole \in Nat, NEW c \in Int,
           NEW f, f = DeltaAreas(DeltaRules(ms, lb, dt, dlb, hole)), DeltaTotal(f) # 0
    PROVE  Within(DeltaSelected(c, f)) \in Dls
<1> DEFINE w == DeltaRules(ms, lb, dt, dlb, hole)
<1>1. w.same \in Nat /\ w.more \in Nat /\ w.less \in Nat
  BY DeltaWeights
<1> HIDE DEF w
<1>2. f.same \in Nat /\ f.more \in Nat /\ f.less \in Nat
  BY <1>1 DEF DeltaAreas, w
<1>3. DeltaTotal(f) \in Nat \ {0}
  BY <1>2 DEF DeltaTotal
<1>4. DeltaSelected(c, f) \in Int
  BY <1>2, <1>3 DEF DeltaSelected
<1> QED BY <1>4, WithinDls
---------------------------------------------------------------------------
\* Under the fuzzy search a loop has been measured, or its record is as new.
Timed(r) == r.cTime > 0 \/ (r.cTime = -1 /\ r.cLB = -1 /\ r.bestTime = -1 /\ r.bestLB = -1)

LEMMA ChunkTimed ==
    ASSUME NEW r \in Records, Timed(r), NEW n \in Nat, NEW p \in Nat \ {0}
    PROVE  Timed(WithChunk(r, n, p))
<1> DEFINE v == IF r.cDLS = 0 THEN n \div p ELSE 1
<1>1. WithChunk(r, n, p) = [r EXCEPT !.cChunk = v]
  BY DEF WithChunk
<1> HIDE DEF v
<1> QED BY <1>1 DEF Records, Timed

LEMMA ExhaustiveTyped ==
    ASSUME NEW r \in Records
    PROVE  Exhaustive(r) \in Records
<1>1. Noted(r) \in Records
  BY DEF Noted, Records
<1>2. Noted(r).cDLS = r.cDLS /\ Noted(r).searchTrials = r.searchTrials
  BY DEF Noted, Records
<1>3. CASE r.searchTrials < Size
  <2> DEFINE d == (r.cDLS + 1) % Size
             k == r.searchTrials + 1
  <2>1. Exhaustive(r) = GoneTo(Noted(r), d, k)
    <3>1. Exhaustive(r) = [Noted(r) EXCEPT !.cDLS = (@ + 1) % Size, !.searchTrials = @ + 1]
      BY <1>3 DEF Exhaustive
    <3> QED BY <1>1, <1>2, <3>1, Zenon DEF GoneTo
  <2>2. d \in Dls /\ k \in Nat
    <3>1. r.cDLS \in Dls \cup {-1} /\ r.searchTrials \in Nat
      BY DEF Records
    <3>2. d = IF r.cDLS = Size - 1 THEN 0 ELSE r.cDLS + 1
      BY <3>1, NextInTurn
    <3> QED BY <3>1, <3>2, SizeAssumption DEF Dls
  <2> HIDE DEF d, k
  <2> QED BY <1>1, <2>1, <2>2, Turned
<1>4. CASE ~(r.searchTrials < Size)
  <2>1. Noted(r).bestDLS \in Dls \cup {-1} /\ Noted(r).bestChunk \in Int
    BY <1>1 DEF Records
  <2> QED BY <1>1, <1>4, <2>1 DEF Exhaustive, Records
<1> QED BY <1>3, <1>4

LEMMA BinaryTyped ==
    ASSUME NEW r \in Records
    PROVE  Binary(r) \in Records
<1>1. /\ r.cDLS \in Int /\ r.searchTrials \in Nat /\ r.cLB \in Int /\ r.bestLB \in Int
      /\ r.autoSearch \in {0, 1} /\ r.cDLS \in Dls \cup {-1} /\ r.cChunk \in Int
  BY DEF Records, Dls
<1>2. Step(r) \in Int
  <2>1. 2 ^ r.searchTrials \in Nat \ {0} /\ 2 * Size \in Nat
    BY <1>1, Power, SizeAssumption
  <2> QED BY <2>1 DEF Step
<1>3. Within(Moved(r)) \in Dls
  <2>1. Moved(r) \in Int
    BY <1>1, <1>2 DEF Moved
  <2> QED BY <2>1, WithinDls
<1> DEFINE d == Within(Moved(r))
           k == (IF Step(r) = 0 THEN 0 ELSE r.searchTrials) + 1
           s == IF Step(r) = 0 THEN 0 ELSE r.autoSearch
           e == [r EXCEPT !.cDLS = d, !.bestLB = r.cLB, !.bestDLS = r.cDLS,
                          !.bestChunk = r.cChunk, !.searchTrials = k, !.autoSearch = s]
<1>4. d \in Dls /\ k \in Nat /\ s \in {0, 1}
  BY <1>1, <1>3
<1>5. Binary(r) = e
  BY DEF Binary
<1> HIDE DEF d, k, s
<1>6. e \in Records
  BY <1>1, <1>4 DEF Records
<1> QED BY <1>5, <1>6

LEMMA RandomTyped ==
    ASSUME NEW r \in Records, NEW q \in RandomSearch(r)
    PROVE  q \in Records
<1>1. r.searchTrials + 1 \in Nat
  BY DEF Records
<1> DEFINE k == r.searchTrials + 1
<1>2. \/ \E d \in Dls : q = [r EXCEPT !.cDLS = d, !.bestDLS = r.cDLS, !.bestLB = r.cLB,
                                      !.bestChunk = r.cChunk, !.searchTrials = k]
      \/ q = [r EXCEPT !.searchTrials = k]
  BY DEF RandomSearch, Jumps
<1>3. k \in Nat
  BY <1>1
<1> HIDE DEF k
<1> QED BY <1>2, <1>3 DEF Records

LEMMA SelectedDls ==
    ASSUME NEW r \in Records, Timed(r), NEW hole \in Nat
    PROVE  Selected(r, hole) \subseteq Dls
<1>0. /\ r.cTime \in Int /\ r.cLB \in Int /\ r.bestTime \in Int /\ r.bestLB \in Int
      /\ r.cDLS \in Int
  BY DEF Records, Dls
<1>1. CASE FirstTime(r)
  <2> DEFINE f == FirstAreas(FirstRules(r.cTime, r.cLB, hole))
  <2>1. Selected(r, hole) = IF FirstTotal(f) = 0 THEN Dls ELSE {Within(FirstSelected(f))}
    BY <1>1 DEF Selected
  <2>2. FirstTotal(f) # 0 => Within(FirstSelected(f)) \in Dls
    BY <1>0, FirstWithin
  <2> HIDE DEF f
  <2> QED BY <2>1, <2>2
<1>2. CASE ~FirstTime(r)
  <2> DEFINE t == TimeChange(r)
             l == r.cLB - r.bestLB
             f == DeltaAreas(DeltaRules(r.cTime, r.cLB, t, l, hole))
  <2>1. Selected(r, hole) = IF DeltaTotal(f) = 0 THEN Dls ELSE {Within(DeltaSelected(r.cDLS, f))}
    BY <1>2 DEF Selected
  <2>2. t \in Int /\ l \in Int
    <3>1. r.cTime \in Nat \ {0}
      BY <1>0, <1>2 DEF Timed, FirstTime
    <3> QED BY <1>0, <3>1 DEF TimeChange
  <2>3. f = DeltaAreas(DeltaRules(r.cTime, r.cLB, t, l, hole))
    OBVIOUS
  <2> HIDE DEF t, l, f
  <2>4. DeltaTotal(f) # 0 => Within(DeltaSelected(r.cDLS, f)) \in Dls
    BY <1>0, <2>2, <2>3, DeltaWithin
  <2> QED BY <2>1, <2>4
<1> QED BY <1>1, <1>2

LEMMA FuzzyTyped ==
    ASSUME NEW r \in Records, Timed(r), NEW q \in Fuzzy(r)
    PROVE  q \in Records /\ Timed(q)
<1> DEFINE k == r.searchTrials + 1
           e(d) == [r EXCEPT !.searchTrials = k, !.bestLB = r.cLB, !.bestDLS = r.cDLS,
                             !.bestChunk = r.cChunk, !.bestTime = r.cTime, !.cDLS = d]
<1>1. \E d \in Selected(r, 0) \cup Selected(r, 1000) : q = e(d)
  <2>1. Fuzzy(r) = {e(d) : d \in Selected(r, 0) \cup Selected(r, 1000)}
    BY Zenon DEF Fuzzy
  <2> HIDE DEF e
  <2> QED BY <2>1
<1>2. Selected(r, 0) \subseteq Dls /\ Selected(r, 1000) \subseteq Dls
  BY SelectedDls
<1> HIDE DEF e
<1>3. PICK d \in Dls : q = e(d)
  BY <1>1, <1>2
<1>4. k \in Nat
  BY DEF Records
<1> HIDE DEF k
<1>5. e(d) \in Records
  BY <1>4 DEF Records, e
<1>6. e(d).cTime = r.cTime /\ e(d).cLB = r.cLB /\ e(d).bestTime = r.cTime /\ e(d).bestLB = r.cLB
  BY DEF Records, e
<1> QED BY <1>3, <1>5, <1>6 DEF Timed

\* A search finds a record.
LEMMA SearchedTyped ==
    ASSUME NEW o \in 2 .. 5, NEW r \in Records, o = 5 => Timed(r),
           NEW n \in Nat, NEW p \in Nat \ {0}, NEW q \in Searched(o, r, n, p)
    PROVE  q \in Records /\ (o = 5 => Timed(q))
<1>1. CASE o = 2
  <2>1. PICK s \in RandomSearch(r) : q = WithChunk(s, n, p)
    BY <1>1 DEF Searched
  <2>2. s \in Records
    BY RandomTyped
  <2> QED BY <1>1, <2>1, <2>2, ChunkOnly
<1>2. CASE o = 3
  <2>1. q = WithChunk(Exhaustive(r), n, p)
    BY <1>2 DEF Searched
  <2> QED BY <1>2, <2>1, ExhaustiveTyped, ChunkOnly
<1>3. CASE o = 4
  <2>1. q = WithChunk(Binary(r), n, p)
    BY <1>3 DEF Searched
  <2> QED BY <1>3, <2>1, BinaryTyped, ChunkOnly
<1>4. CASE o = 5
  <2>1. PICK s \in Fuzzy(r) : q = WithChunk(s, n, p)
    BY <1>4 DEF Searched
  <2>2. s \in Records /\ Timed(s)
    BY <1>4, FuzzyTyped
  <2> QED BY <2>1, <2>2, ChunkOnly, ChunkTimed
<1> QED BY <1>1, <1>2, <1>3, <1>4

\* So does an agent.
LEMMA TranslatedTyped ==
    ASSUME NEW r \in Records, NEW p \in Places, NEW table, IntTable(table),
           option \in Options, NEW x \in 0 .. Dimension(p) - 1, NEW q \in Translated(r, p, table, x)
    PROVE  q \in Records
<1>1. CASE option = 15
  <2>1. PICK c \in Entry(table, x) : q = [r EXCEPT !.cDLS = SS, !.cChunk = c]
    BY <1>1 DEF Translated
  <2>2. c \in Int
    BY TuningAssumption DEF Entry, IntTable
  <2> QED BY <2>1, <2>2, TuningAssumption DEF Records
<1>2. CASE option # 15
  <2>1. q = WithChunk([r EXCEPT !.cDLS = x], Trips[p], Team)
    BY <1>2 DEF Translated
  <2>2. x \in Dls
    BY <1>2 DEF Dimension, Dls
  <2>3. [r EXCEPT !.cDLS = x] \in Records
    BY <2>2 DEF Records
  <2> QED BY <2>1, <2>3, TuningAssumption, ChunkOnly
<1> QED BY <1>1, <1>2
---------------------------------------------------------------------------
AgentInv ==
    /\ TypeOK
    /\ IntTable(chunkSizes)
    /\ agent \in [Places -> AgentRecords \cup {None}]
    /\ \A p \in Places : agent[p] # None => Exact(agent[p])
    /\ Learns => policy \in Policies
    /\ option = 5 => \A p \in Places : Timed(rec[p])

LEMMA AgentInit == TuningInit => AgentInv
<1> SUFFICES ASSUME TuningInit PROVE AgentInv
  OBVIOUS
<1>1. NewRecord \in Records /\ Timed(NewRecord)
  BY DEF NewRecord, Records, Timed
<1>2. IntTable(chunkSizes)
  BY DEF TuningInit, IntTable
<1>3. \A p \in Places : rec[p] = NewRecord /\ agent[p] = None
  BY DEF TuningInit
<1>4. TypeOK
  BY <1>1, <1>3 DEF TuningInit, TypeOK
<1> QED BY <1>1, <1>2, <1>3, <1>4 DEF TuningInit, AgentInv

\* What the search of the loop at p leaves, the rest unchanged.
LEMMA Replaced ==
    ASSUME AgentInv, NEW p \in Places, NEW q \in Records, option = 5 => Timed(q),
           rec' = [rec EXCEPT ![p] = q], NEW a \in AgentRecords \cup {None},
           agent' = [agent EXCEPT ![p] = a], a # None => Exact(a) /\ a.dim = Dimension(p),
           IntTable(chunkSizes'), current' \in Places \cup {None},
           UNCHANGED <<option, policy, reward>>
    PROVE  AgentInv'
<1>1. rec \in [Places -> Records] /\ agent \in [Places -> AgentRecords \cup {None}]
  BY DEF AgentInv, TypeOK
<1>2. /\ rec' \in [Places -> Records] /\ agent' \in [Places -> AgentRecords \cup {None}]
      /\ \A o \in Places : /\ rec'[o] = IF o = p THEN q ELSE rec[o]
                           /\ agent'[o] = IF o = p THEN a ELSE agent[o]
  BY <1>1
<1>3. option' = option /\ policy' = policy /\ reward' = reward
  OBVIOUS
<1>4. \A o \in Places : Dimension(o)' = Dimension(o)
  BY <1>3 DEF Dimension
<1>5. TypeOK'
  BY <1>2, <1>3, <1>4 DEF TypeOK, AgentInv
<1>6. \A o \in Places : agent'[o] # None => Exact(agent'[o])
  BY <1>2 DEF AgentInv
<1>7. option = 5 => \A o \in Places : Timed(rec'[o])
  BY <1>2 DEF AgentInv
<1> QED BY <1>2, <1>3, <1>5, <1>6, <1>7 DEF AgentInv, Learns

LEMMA AgentBegin ==
    ASSUME AgentInv, NEW p \in Places, Begin(p)
    PROVE  AgentInv'
<1>0. /\ rec \in [Places -> Records] /\ agent \in [Places -> AgentRecords \cup {None}]
      /\ option \in Options /\ option \in 2 .. 15 /\ rec[p] \in Records
      /\ agent[p] \in AgentRecords \cup {None} /\ IntTable(chunkSizes)
      /\ agent[p] # None => Exact(agent[p]) /\ agent[p].dim = Dimension(p)
      /\ option = 5 => Timed(rec[p])
      /\ Learns => policy \in Policies
  BY TuningAssumption DEF AgentInv, TypeOK
<1>1. /\ current' \in Places \cup {None} /\ UNCHANGED <<option, policy, reward>> /\ Search(p)
  BY DEF Begin
<1>2. Dimension(p) \in Nat \ {0} /\ Trips[p] \in Nat /\ Team \in Nat \ {0}
  BY <1>0, Dimensions, TuningAssumption
<1>same. agent' = agent => agent' = [agent EXCEPT ![p] = agent[p]]
  BY <1>0
<1>3. CASE rec[p].autoSearch # 1
  <2>1. rec' = [rec EXCEPT ![p] = rec[p]] /\ agent' = [agent EXCEPT ![p] = agent[p]]
        /\ chunkSizes' = chunkSizes
    BY <1>0, <1>1, <1>3 DEF Search
  <2> QED BY <1>0, <1>1, <2>1, Replaced
<1>4. CASE rec[p].autoSearch = 1 /\ Learns /\ CreateAgent(p)
  <2> DEFINE table == IF option = 15 THEN ChunkSizes(Dimension(p), Trips[p], Team) ELSE chunkSizes
             a == NewAgent(Dimension(p), policy)
  <2>1. agent' = [agent EXCEPT ![p] = a] /\ chunkSizes' = table
        /\ \E r \in Translated(rec[p], p, table, 0) : rec' = [rec EXCEPT ![p] = r]
    BY <1>4 DEF CreateAgent
  <2>2. Exact(a) /\ a.dim = Dimension(p)
    BY <1>0, <1>2, <1>4, NewExact
  <2>3. IntTable(table)
    BY <1>0, <1>2, Tables
  <2> HIDE DEF table, a
  <2>4. PICK r \in Translated(rec[p], p, table, 0) : rec' = [rec EXCEPT ![p] = r]
    BY <2>1
  <2>5. r \in Records
    <3>1. 0 \in 0 .. Dimension(p) - 1
      BY <1>2
    <3> QED BY <1>0, <2>3, <3>1, TranslatedTyped
  <2>6. a \in AgentRecords /\ option # 5
    BY <1>0, <1>4, <2>2 DEF Exact, Learns
  <2> QED BY <1>1, <2>1, <2>2, <2>3, <2>4, <2>5, <2>6, Replaced
<1>5. CASE rec[p].autoSearch = 1 /\ Learns /\ AskAgent(p)
  <2> DEFINE signal == Signal(rec[p])
             best == IF Good(agent[p], signal) THEN WithBest(rec[p]) ELSE rec[p]
  <2>1. PICK a \in Stepped(agent[p], signal) :
             /\ agent' = [agent EXCEPT ![p] = a]
             /\ \E r \in Translated(best, p, chunkSizes, a.state) : rec' = [rec EXCEPT ![p] = r]
    BY <1>5 DEF AskAgent
  <2>2. signal \in Int
    BY <1>0 DEF Signal, Records
  <2>3. best \in Records
    <3>1. WithBest(rec[p]) \in Records
      BY <1>0 DEF WithBest, Records
    <3> QED BY <1>0, <3>1
  <2>4. Exact(agent[p]) /\ agent[p].dim = Dimension(p)
    BY <1>0, <1>5 DEF AskAgent
  <2> HIDE DEF signal, best
  <2>5. Exact(a) /\ a.dim = Dimension(p)
    BY <2>1, <2>2, <2>4, SteppedKeeps
  <2>6. a.state \in 0 .. Dimension(p) - 1 /\ a \in AgentRecords
    BY <2>5 DEF Exact, Actions
  <2>7. PICK r \in Translated(best, p, chunkSizes, a.state) : rec' = [rec EXCEPT ![p] = r]
    BY <2>1
  <2>8. r \in Records
    BY <1>0, <2>3, <2>6, TranslatedTyped
  <2>9. option # 5 /\ chunkSizes' = chunkSizes
    BY <1>5 DEF Learns, AskAgent
  <2> QED BY <1>0, <1>1, <2>1, <2>5, <2>6, <2>7, <2>8, <2>9, Replaced
<1>6. CASE rec[p].autoSearch = 1 /\ ~Learns /\ SearchPlain(p)
  <2>1. PICK q \in Searched(option, rec[p], Trips[p], Team) : rec' = [rec EXCEPT ![p] = q]
    BY <1>6 DEF SearchPlain
  <2>2. agent' = [agent EXCEPT ![p] = agent[p]] /\ chunkSizes' = chunkSizes
    BY <1>6, <1>same DEF SearchPlain
  <2>3. option \in 2 .. 5
    BY <1>0, <1>6 DEF Learns
  <2>4. q \in Records /\ (option = 5 => Timed(q))
    BY <1>0, <1>2, <2>3, SearchedTyped
  <2> QED BY <1>0, <1>1, <2>1, <2>2, <2>4, Replaced
<1> QED BY <1>1, <1>3, <1>4, <1>5, <1>6 DEF Search

\* What the end of a loop stores.
LEMMA MeasuredTyped ==
    ASSUME NEW r \in Records, NEW time \in Nat \ {0}, NEW lb \in Int
    PROVE  /\ Measured(r, time, lb) \in Records /\ Timed(Measured(r, time, lb))
           /\ Measured(r, time, lb).searchTrials = r.searchTrials
<1> DEFINE z == IF lb > r.cLB + 10 THEN 1 ELSE r.autoSearch
           q == [r EXCEPT !.cTime = time, !.cLB = lb, !.autoSearch = z]
<1>1. Measured(r, time, lb) = q
  BY DEF Measured
<1>2. z \in {0, 1} /\ time \in Int
  BY DEF Records
<1> HIDE DEF z
<1>3. q \in Records
  BY <1>2 DEF Records
<1>4. q.cTime = time /\ q.searchTrials = r.searchTrials
  BY DEF Records
<1> QED BY <1>1, <1>3, <1>4 DEF Timed

LEMMA AgentEnd ==
    ASSUME AgentInv, NEW p \in Places, End(p)
    PROVE  AgentInv'
<1>0. /\ rec \in [Places -> Records] /\ agent \in [Places -> AgentRecords \cup {None}]
      /\ rec[p] \in Records
      /\ agent[p] \in AgentRecords \cup {None} /\ IntTable(chunkSizes)
      /\ agent[p] # None => Exact(agent[p]) /\ agent[p].dim = Dimension(p)
  BY DEF AgentInv, TypeOK
<1>1. PICK time \in Times, lb \in Imbalances :
          rec' = [rec EXCEPT ![p] = Measured(rec[p], time, lb)]
  BY <1>0 DEF End
<1>2. time \in Nat \ {0} /\ lb \in Int
  BY TuningAssumption
<1>3. Measured(rec[p], time, lb) \in Records /\ Timed(Measured(rec[p], time, lb))
  BY <1>0, <1>2, MeasuredTyped
<1>5. agent' = [agent EXCEPT ![p] = agent[p]] /\ chunkSizes' = chunkSizes
      /\ current' \in Places \cup {None} /\ UNCHANGED <<option, policy, reward>>
  BY <1>0 DEF End
<1> QED BY <1>0, <1>1, <1>3, <1>5, Replaced

LEMMA AgentNext == AgentInv /\ [TuningNext]_tuningVars => AgentInv'
<1>1. ASSUME AgentInv, UNCHANGED tuningVars PROVE AgentInv'
  <2>1. UNCHANGED <<option, policy, reward, rec, agent, chunkSizes, current>>
    BY <1>1 DEF tuningVars
  <2>2. TypeOK'
    BY <1>1, <2>1 DEF AgentInv, TypeOK, Dimension
  <2> QED BY <1>1, <2>1, <2>2 DEF AgentInv, Learns
<1> QED BY <1>1, AgentBegin, AgentEnd DEF TuningNext

\* Every search leaves a well-typed record, with a technique of the portfolio, and
\* every agent keeps the dimension of its loop: for any portfolio, loops and
\* measurements, the binary search's jumps beyond the ends, the fuzzy search's
\* quotients of areas and of times and the shared table of chunk sizes included.
THEOREM TuningTypes == TuningSpec => []TypeOK
<1>1. AgentInv => TypeOK
  BY DEF AgentInv
<1> QED BY <1>1, AgentInit, AgentNext, PTL DEF TuningSpec

\* Explore first tries each action in each state exactly once, whatever the number
\* of states: its jumps never land on a pair already counted, it is never left in a
\* state with nothing to try while it explores, and the action the second call of a
\* time step chooses is one of the agent's.
THEOREM AgentsExploreEachOnce == TuningSpec => []ExploresEachOnce
<1>1. AgentInv => ExploresEachOnce
  <2> SUFFICES ASSUME AgentInv, NEW p \in Places, agent[p] # None
               PROVE  /\ agent[p].noOnes = Cardinality(agent[p].visited)
                      /\ agent[p].state \in Actions(agent[p])
                      /\ SecondActions(agent[p], agent[p].state) \subseteq Actions(agent[p])
    BY DEF ExploresEachOnce
  <2>1. Exact(agent[p])
    BY DEF AgentInv
  <2>2. SecondActions(agent[p], agent[p].state) \subseteq Actions(agent[p])
    BY <2>1, SecondWithin
  <2> QED BY <2>1, <2>2 DEF Exact
<1> QED BY <1>1, AgentInit, AgentNext, PTL DEF TuningSpec
---------------------------------------------------------------------------
(***************************************************************************)
(* The flags of schedule(auto) give every thread the technique selected    *)
(* for its own loop, in a team of any size and a program of any length,    *)
(* when loops end with a barrier and those under AUTO have iterations and  *)
(* are executed by the whole team.                                         *)
(***************************************************************************)
Regular ==
    /\ Barrier
    /\ Len(Loops) \in Nat /\ DOMAIN Loops = 1 .. Len(Loops)
    /\ \A l \in DOMAIN Loops : Loops[l].auto => ~Loops[l].serial /\ Loops[l].trips # 0

AutoPlaces == {"choose", "admit", "wait", "adopt", "count", "reset", "store"}

Typed ==
    /\ loop \in [Threads -> 1 .. Len(Loops) + 1]
    /\ pc \in [Threads -> {"out", "start", "flag", "enter", "work"} \cup AutoPlaces]
    /\ \A t \in Threads : pc[t] # "out" => loop[t] \in DOMAIN Loops
    /\ DOMAIN sched = Threads
    /\ AUTO_FLAG \in {0, 1} /\ autoWait \in {0, 1} /\ autoEnter \in Nat

\* Whoever is in a loop is not ahead of anybody, and a thread is ahead of another by
\* the loop that one is in and serialized loops.
Together ==
    \A t, u \in Threads :
        /\ pc[t] # "out" => loop[t] <= loop[u]
        /\ \A l \in DOMAIN Loops : loop[u] < l /\ l < loop[t] => Loops[l].serial

\* The threads that are through with an auto loop others are still to finish.
UnderAuto(l) == l \in DOMAIN Loops /\ Loops[l].auto
Ahead(t) == \E u \in Threads : loop[u] < loop[t] /\ UnderAuto(loop[u])

\* The flag is up while a thread is past SetFlag in an auto loop, and then that loop
\* is next for whoever is not ahead.
Raised ==
    /\ \A t \in Threads : pc[t] \in AutoPlaces => This(t).auto
    /\ \A t \in Threads : pc[t] \in AutoPlaces \cup {"enter", "work"} /\ This(t).auto =>
          AUTO_FLAG = 1 \/ At(t, "store")
    /\ AUTO_FLAG = 1 => \A t \in Threads : Ahead(t) \/ UnderAuto(loop[t])

Entered(t) == pc[t] \in AutoPlaces \/ (At(t, "work") /\ This(t).auto) \/ Ahead(t)
Admitted(t) == Entered(t) /\ pc[t] \notin {"choose", "admit", "wait"}

\* One thread selects, before any other is let in, ...
OneSelects ==
    /\ ~Storing /\ autoEnter = 0 => \A t \in Threads : ~Entered(t)
    /\ ~Storing /\ autoWait = 1 => \A t \in Threads : ~Admitted(t)
    /\ \A t, u \in Threads :
          pc[t] \in {"choose", "admit"} /\ pc[u] \in {"choose", "admit"} => t = u
    /\ autoWait = 0 => /\ autoEnter # 0
                       /\ \A t \in Threads : pc[t] \notin {"choose", "admit"}

\* ... and from then on the name is that of the loop the threads are in.
Named ==
    /\ \A t \in Threads : At(t, "admit") => autoLoopName = This(t).place
    /\ autoWait = 0 => /\ AUTO_FLAG = 1
                       /\ \A t \in Threads : Ahead(t) \/ autoLoopName = This(t).place

\* The counter of times says how many are through with the loop; the thread that
\* stores the measurement is the last one.
Counted == {t \in Threads : Ahead(t) \/ At(t, "reset")}

LastStores ==
    /\ ~Storing => autoThreadCount = Cardinality(Counted)
    /\ Storing => autoThreadCount = 0 /\ autoEnter = 0 /\ autoWait = 1 /\ AUTO_FLAG = 0
    /\ \A t, u \in Threads : pc[t] \in {"reset", "store"} /\ u # t => Ahead(u)

SelectInv ==
    Typed /\ Together /\ Raised /\ OneSelects /\ Named /\ LastStores /\ OwnSchedule
---------------------------------------------------------------------------
LEMMA InitSelect == ASSUME Regular PROVE Init => SelectInv
<1> SUFFICES ASSUME Init PROVE SelectInv
  OBVIOUS
<1> USE DEF Init
<1>1. Typed
  BY DEF Regular, Typed
<1>2. Together
  BY DEF Regular, Together
<1>3. \A t \in Threads : ~Ahead(t) /\ ~Entered(t) /\ ~Admitted(t)
  BY DEF Ahead, Entered, Admitted, AutoPlaces, At
<1>4. ~Storing
  BY DEF Storing, At
<1>5. Raised /\ OneSelects /\ Named /\ OwnSchedule
  BY <1>3, <1>4 DEF Raised, OneSelects, Named, OwnSchedule, AutoPlaces, At, Working
<1>6. Counted = {}
  BY <1>3 DEF Counted, At
<1>7. LastStores
  BY <1>4, <1>6, FS_EmptySet DEF LastStores
<1> QED
  BY <1>1, <1>2, <1>5, <1>7 DEF SelectInv

\* A thread in a loop is ahead of nobody; in an auto loop, it and the threads that
\* are not ahead have come to the same loop.
LEMMA Abreast ==
    ASSUME Typed, Together, NEW t \in Threads, pc[t] # "out"
    PROVE  /\ ~Ahead(t)
           /\ UnderAuto(loop[t]) => \A u \in Threads : ~Ahead(u) => loop[u] = loop[t]
BY DEF Typed, Together, Ahead

LEMMA AheadKept ==
    ASSUME UNCHANGED loop
    PROVE  \A t \in Threads : Ahead(t)' <=> Ahead(t)
BY DEF Ahead, UnderAuto

LEMMA LeaveTyped ==
    ASSUME Regular, Typed, NEW t \in Threads, loop[t] \in DOMAIN Loops, Leave(t),
           UNCHANGED <<AUTO_FLAG, autoEnter, autoWait, sched>>
    PROVE  Typed'
<1>1. loop' \in [Threads -> 1 .. Len(Loops) + 1]
  <2>1. loop[t] + 1 \in 1 .. Len(Loops) + 1
    BY DEF Regular
  <2> QED
    BY <2>1 DEF Leave, Typed
<1>2. pc' \in [Threads -> {"out", "start", "flag", "enter", "work"} \cup AutoPlaces]
  BY DEF Leave, Go, Typed
<1>3. \A u \in Threads : pc'[u] # "out" => loop'[u] \in DOMAIN Loops
  BY DEF Leave, Go, Typed
<1> QED
  BY <1>1, <1>2, <1>3 DEF Typed

\* Leaving a loop that is not under AUTO puts nobody ahead or behind.
LEMMA LeaveOther ==
    ASSUME Regular, Typed, Together, NEW t \in Threads, loop[t] \in DOMAIN Loops, Leave(t),
           ~Loops[loop[t]].auto, pc[t] # "out" \/ Loops[loop[t]].serial
    PROVE  Typed' => Together' /\ \A u \in Threads : Ahead(u)' <=> Ahead(u)
<1> QED
  BY DEF Regular, Typed, Together, Ahead, UnderAuto, Leave, Go
---------------------------------------------------------------------------
(* A step of the selection.                                                *)

\* What a step of a thread within its loop leaves alone.
LEMMA WithinLoop ==
    ASSUME Regular, Typed, Together, UNCHANGED loop, Typed',
           NEW t \in Threads, \A u \in Threads : u # t => pc'[u] = pc[u],
           pc[t] # "out" \/ \A u \in Threads : loop[t] <= loop[u]
    PROVE  Together'
BY DEF Together, Typed

LEMMA EnterTimerKeeps ==
    ASSUME Regular, SelectInv, NEW t \in Threads, EnterTimer(t) \/ StartTimer(t)
    PROVE  SelectInv'
<1> USE DEF SelectInv, EnterTimer, StartTimer, At, Go
<1>1. Typed'
  BY DEF Typed, flags, MayEnter, Regular
<1>2. Together'
  BY <1>1, WithinLoop DEF MayEnter, Regular, Typed
<1>3. \A u \in Threads : Ahead(u)' <=> Ahead(u)
  BY AheadKept
<1>4. \A u \in Threads : (Entered(u)' <=> Entered(u)) /\ (Admitted(u)' <=> Admitted(u))
  BY <1>3 DEF Entered, Admitted, AutoPlaces, Typed, This, MayEnter
<1>5. Storing' <=> Storing
  BY DEF Storing, Typed, MayEnter
<1>6. Raised' /\ OneSelects' /\ Named'
  BY <1>3, <1>4, <1>5 DEF Raised, OneSelects, Named, AutoPlaces, Typed, This, MayEnter, flags
<1>7. Counted' = Counted
  BY <1>3 DEF Counted, Typed, MayEnter
<1>8. LastStores'
  BY <1>3, <1>5, <1>7 DEF LastStores, Typed, MayEnter, flags
<1>9. OwnSchedule'
  BY DEF OwnSchedule, Working, Typed, MayEnter, This
<1> QED
  BY <1>1, <1>2, <1>6, <1>8, <1>9

LEMMA SetFlagKeeps ==
    ASSUME Regular, SelectInv, NEW t \in Threads, SetFlag(t)
    PROVE  SelectInv'
<1> USE DEF SelectInv, SetFlag, At, Go
<1>1. Typed'
  BY DEF Typed
<1>2. Together'
  BY <1>1, WithinLoop
<1>3. \A u \in Threads : Ahead(u)' <=> Ahead(u)
  BY AheadKept
<1>4. \A u \in Threads : (Entered(u)' <=> Entered(u)) /\ (Admitted(u)' <=> Admitted(u))
  BY <1>3 DEF Entered, Admitted, AutoPlaces, Typed, This
<1>5. ~Storing /\ ~Storing'
  BY Abreast DEF Storing, Typed, LastStores
<1>6. Raised'
  BY <1>3, Abreast DEF Raised, AutoPlaces, Typed, This, UnderAuto
<1>7. OneSelects' /\ Named'
  BY <1>3, <1>4, <1>5 DEF OneSelects, Named, Typed, This
<1>8. Counted' = Counted
  BY <1>3 DEF Counted, Typed
<1>9. LastStores'
  BY <1>3, <1>5, <1>8 DEF LastStores, Typed, timer
<1>10. OwnSchedule'
  BY DEF OwnSchedule, Working, Typed, This
<1> QED
  BY <1>1, <1>2, <1>6, <1>7, <1>9, <1>10

\* A thread that passes the selection by, or has to wait at it.
LEMMA EnterPlainKeeps ==
    ASSUME Regular, SelectInv, NEW t \in Threads, EnterPlain(t)
    PROVE  SelectInv'
<1> USE DEF SelectInv, EnterPlain, At, Go
<1>1. Typed'
  BY DEF Typed, flags
<1>2. Together'
  BY <1>1, WithinLoop
<1>3. \A u \in Threads : Ahead(u)' <=> Ahead(u)
  BY AheadKept
<1>4. ~This(t).auto
  BY DEF Raised
<1>5. \A u \in Threads : (Entered(u)' <=> Entered(u)) /\ (Admitted(u)' <=> Admitted(u))
  BY <1>3, <1>4 DEF Entered, Admitted, AutoPlaces, Typed, This
<1>6. Storing' <=> Storing
  BY DEF Storing, Typed
<1>7. Raised' /\ OneSelects' /\ Named'
  BY <1>3, <1>4, <1>5, <1>6 DEF Raised, OneSelects, Named, AutoPlaces, Typed, This, flags
<1>8. Counted' = Counted
  BY <1>3 DEF Counted, Typed
<1>9. LastStores'
  BY <1>3, <1>6, <1>8 DEF LastStores, Typed, flags, timer
<1>10. OwnSchedule'
  BY <1>4 DEF OwnSchedule, Working, Typed, This
<1> QED
  BY <1>1, <1>2, <1>7, <1>9, <1>10

LEMMA EnterAutoKeeps ==
    ASSUME Regular, SelectInv, NEW t \in Threads, EnterAuto(t)
    PROVE  SelectInv'
<1> USE DEF SelectInv, EnterAuto, At, Go
<1>1. Typed'
  BY DEF Typed, AutoPlaces
<1>2. Together'
  BY <1>1, WithinLoop
<1>3. \A u \in Threads : Ahead(u)' <=> Ahead(u)
  BY AheadKept
<1>4. ~Ahead(t) /\ This(t).auto
  BY Abreast DEF Raised, UnderAuto, This
<1>5. ~Storing /\ ~Storing'
  BY <1>4 DEF Storing, Typed, LastStores
<1>6. Raised'
  BY <1>3, <1>4 DEF Raised, AutoPlaces, Typed, This
<1>7. \A u \in Threads : Entered(u) => Entered(u)'
  BY <1>3 DEF Entered, AutoPlaces, Typed, This
<1>8. \A u \in Threads : Admitted(u)' <=> Admitted(u)
  BY <1>3, <1>4 DEF Admitted, Entered, AutoPlaces, Typed, This
<1>9. autoEnter = 0 => autoWait = 1 /\ \A u \in Threads : ~Entered(u)
  BY <1>5 DEF OneSelects, Typed
<1>10. OneSelects'
  BY <1>5, <1>8, <1>9 DEF OneSelects, Typed, First, Entered, AutoPlaces
<1>11. Named'
  BY <1>3 DEF Named, Typed, This, First
<1>12. Counted' = Counted
  BY <1>3 DEF Counted, Typed, First
<1>13. LastStores'
  BY <1>3, <1>5, <1>12 DEF LastStores, Typed, timer, First
<1>14. OwnSchedule'
  BY DEF OwnSchedule, Working, Typed, This, First
<1> QED
  BY <1>1, <1>2, <1>6, <1>10, <1>11, <1>13, <1>14

\* The selection itself changes the record before anybody has adopted it.
LEMMA ChooseKeeps ==
    ASSUME Regular, SelectInv, NEW t \in Threads, Choose(t)
    PROVE  SelectInv'
<1> USE DEF SelectInv, Choose, At, Go
<1>1. Typed'
  BY DEF Typed, AutoPlaces, flags
<1>2. Together'
  BY <1>1, WithinLoop
<1>3. \A u \in Threads : Ahead(u)' <=> Ahead(u)
  BY AheadKept
<1>4. ~Ahead(t) /\ This(t).auto /\ autoWait = 1
  BY Abreast DEF Raised, AutoPlaces, OneSelects, Typed
<1>5. ~Storing
  BY <1>4 DEF Storing, Typed, LastStores
<1>6. ~Storing'
  BY <1>5 DEF Storing, Typed
<1>7. \A u \in Threads : (Entered(u)' <=> Entered(u)) /\ (Admitted(u)' <=> Admitted(u))
  BY <1>3 DEF Entered, Admitted, AutoPlaces, Typed, This
<1>8. Raised'
  BY <1>3, <1>4 DEF Raised, AutoPlaces, Typed, This, flags
<1>9. OneSelects'
  BY <1>5, <1>6, <1>7 DEF OneSelects, Typed, flags
<1>10. \A u \in Threads : u # t => pc[u] # "admit"
  BY DEF OneSelects
<1>11. Named'
  BY <1>3, <1>4, <1>10 DEF Named, Typed, This, flags
<1>12. Counted' = Counted
  BY <1>3 DEF Counted, Typed
<1>13. LastStores'
  BY <1>3, <1>5, <1>6, <1>12 DEF LastStores, Typed, timer, flags
<1>14. \A u \in Threads : ~Admitted(u)
  BY <1>4, <1>5 DEF OneSelects
<1>15. OwnSchedule'
  BY <1>14 DEF OwnSchedule, Working, Typed, This, Admitted, Entered
<1> QED
  BY <1>1, <1>2, <1>8, <1>9, <1>11, <1>13, <1>15

LEMMA AdmitKeeps ==
    ASSUME Regular, SelectInv, NEW t \in Threads, Admit(t)
    PROVE  SelectInv'
<1> USE DEF SelectInv, Admit, At, Go
<1>1. autoWait = 1 /\ autoWait' = 0 /\ This(t).auto /\ loop[t] \in DOMAIN Loops
  BY DEF Typed, OneSelects, Raised, AutoPlaces, This
<1>2. Typed'
  BY <1>1 DEF Typed, AutoPlaces
<1>3. Together'
  BY <1>2, WithinLoop
<1>4. \A u \in Threads : Ahead(u)' <=> Ahead(u)
  BY AheadKept
<1>5. ~Ahead(t) /\ \A u \in Threads : ~Ahead(u) => loop[u] = loop[t]
  BY <1>1, Abreast DEF UnderAuto, This
<1>6. ~Storing
  BY <1>5 DEF Storing, Typed, LastStores
<1>7. ~Storing'
  BY <1>6 DEF Storing, Typed
<1>8. Raised'
  BY <1>1, <1>4 DEF Raised, AutoPlaces, Typed, This
<1>9. Entered(t)
  BY DEF Entered, AutoPlaces
<1>10. \A u \in Threads : u # t => pc[u] \notin {"choose", "admit"}
  BY DEF OneSelects
<1>11. autoEnter # 0
  BY <1>6, <1>9 DEF OneSelects
<1>12. OneSelects'
  BY <1>1, <1>10, <1>11, <1>7 DEF OneSelects, Typed
<1>13. AUTO_FLAG = 1
  BY <1>1 DEF Raised, AutoPlaces
<1>14. Named'
  BY <1>1, <1>4, <1>5, <1>10, <1>13 DEF Named, Typed, This
<1>15. Counted' = Counted
  BY <1>4 DEF Counted, Typed
<1>16. LastStores'
  BY <1>4, <1>6, <1>7, <1>15 DEF LastStores, Typed, timer
<1>17. OwnSchedule'
  BY DEF OwnSchedule, Working, Typed, This
<1> QED
  BY <1>2, <1>3, <1>8, <1>12, <1>14, <1>16, <1>17

LEMMA WaitKeeps ==
    ASSUME Regular, SelectInv, NEW t \in Threads, Wait(t)
    PROVE  SelectInv'
<1> USE DEF SelectInv, Wait, At, Go
<1>1. Typed'
  BY DEF Typed, AutoPlaces, flags
<1>2. Together'
  BY <1>1, WithinLoop
<1>3. \A u \in Threads : Ahead(u)' <=> Ahead(u)
  BY AheadKept
<1>4. autoWait = 0 /\ autoWait' = 0
  BY DEF Typed, flags
<1>5. ~Storing /\ ~Storing'
  BY <1>4 DEF Storing, Typed, LastStores
<1>6. Raised'
  BY <1>3 DEF Raised, AutoPlaces, Typed, This, flags
<1>7. OneSelects'
  BY <1>4 DEF OneSelects, Typed, flags
<1>8. Named'
  BY <1>3 DEF Named, Typed, This, flags
<1>9. Counted' = Counted
  BY <1>3 DEF Counted, Typed
<1>10. LastStores'
  BY <1>3, <1>5, <1>9 DEF LastStores, Typed, timer, flags
<1>11. OwnSchedule'
  BY DEF OwnSchedule, Working, Typed, This
<1> QED
  BY <1>1, <1>2, <1>6, <1>7, <1>8, <1>10, <1>11

\* Whoever adopts what is in the record that is named adopts from its own loop's.
LEMMA AdoptKeeps ==
    ASSUME Regular, SelectInv, NEW t \in Threads, Adopt(t)
    PROVE  SelectInv'
<1> USE DEF SelectInv, Adopt, At, Go
<1>1. Typed'
  BY DEF Typed, flags
<1>2. Together'
  BY <1>1, WithinLoop
<1>3. \A u \in Threads : Ahead(u)' <=> Ahead(u)
  BY AheadKept
<1>4. ~Ahead(t) /\ This(t).auto
  BY Abreast DEF Raised, AutoPlaces
<1>5. ~Storing
  BY <1>4 DEF Storing, Typed, LastStores
<1>6. ~Storing'
  BY <1>5 DEF Storing, Typed
<1>7. Admitted(t)
  BY DEF Admitted, Entered, AutoPlaces
<1>8. autoWait = 0 /\ autoLoopName = This(t).place
  BY <1>4, <1>5, <1>7 DEF OneSelects, Typed, Named
<1>9. Raised'
  BY <1>3 DEF Raised, AutoPlaces, Typed, This, flags
<1>10. OneSelects' /\ Named'
  BY <1>3, <1>8 DEF OneSelects, Named, Typed, This, flags
<1>11. Counted' = Counted
  BY <1>3 DEF Counted, Typed
<1>12. LastStores'
  BY <1>3, <1>5, <1>6, <1>11 DEF LastStores, Typed, timer, flags
<1>13. OwnSchedule'
  BY <1>4, <1>8 DEF OwnSchedule, Working, Typed, This, Adopted
<1> QED
  BY <1>1, <1>2, <1>9, <1>10, <1>12, <1>13
---------------------------------------------------------------------------
(* A step out of a loop, or on the way there.                              *)

\* A loop that is not measured leaves the flags and the counters alone.
LEMMA PassKeeps ==
    ASSUME Regular, SelectInv, NEW t \in Threads, Skip(t) \/ Pass(t)
    PROVE  SelectInv'
<1> USE DEF SelectInv, Skip, Pass, At
<1>1. loop[t] \in DOMAIN Loops /\ ~This(t).auto
  <2>1. CASE Skip(t)
    BY <2>1 DEF Regular, Typed, This
  <2>2. CASE Pass(t)
    BY <2>2, Abreast DEF Regular, Typed, Raised, UnderAuto, Unmeasured, This, AutoPlaces
  <2> QED
    BY <2>1, <2>2
<1>2. Typed'
  <2>1. Leave(t) /\ UNCHANGED <<AUTO_FLAG, autoEnter, autoWait, sched>>
    BY DEF flags
  <2> QED
    BY <1>1, <2>1, LeaveTyped
<1>3. Together' /\ \A u \in Threads : Ahead(u)' <=> Ahead(u)
  BY <1>1, <1>2, LeaveOther DEF This
<1>4. \A u \in Threads : (Entered(u)' <=> Entered(u)) /\ (Admitted(u)' <=> Admitted(u))
  BY <1>1, <1>3 DEF Entered, Admitted, AutoPlaces, Typed, This, Leave, Go
<1>5. Storing' <=> Storing
  BY DEF Storing, Typed, Leave, Go
<1>6. Raised'
  BY <1>1, <1>3 DEF Raised, AutoPlaces, Typed, This, Leave, Go, flags, UnderAuto
<1>7. OneSelects'
  BY <1>3, <1>4, <1>5 DEF OneSelects, Typed, Leave, Go, flags
<1>8. Named'
  BY <1>1, <1>3, <1>6 DEF Named, Raised, Typed, This, Leave, Go, flags, UnderAuto
<1>9. Counted' = Counted
  BY <1>3 DEF Counted, Typed, Leave, Go
<1>10. LastStores'
  BY <1>3, <1>5, <1>9 DEF LastStores, Typed, timer, flags, Leave, Go
<1>11. OwnSchedule'
  BY DEF OwnSchedule, Working, Typed, This, Leave, Go
<1> QED
  BY <1>2, <1>3, <1>6, <1>7, <1>8, <1>10, <1>11

LEMMA AddTimeKeeps ==
    ASSUME Regular, SelectInv, NEW t \in Threads, AddTime(t)
    PROVE  SelectInv'
<1> USE DEF SelectInv, AddTime, At, Go
<1>1. ~Ahead(t) /\ This(t).auto
  BY Abreast DEF Raised, Unmeasured, UnderAuto, This, Typed
<1>2. Typed'
  BY DEF Typed, AutoPlaces, flags
<1>3. Together'
  BY <1>2, WithinLoop
<1>4. \A u \in Threads : Ahead(u)' <=> Ahead(u)
  BY AheadKept
<1>5. \A u \in Threads : (Entered(u)' <=> Entered(u)) /\ (Admitted(u)' <=> Admitted(u))
  BY <1>1, <1>4 DEF Entered, Admitted, AutoPlaces, Typed, This
<1>6. Storing' <=> Storing
  BY DEF Storing, Typed
<1>7. Raised'
  BY <1>1, <1>4 DEF Raised, AutoPlaces, Typed, This, flags
<1>8. OneSelects' /\ Named'
  BY <1>4, <1>5, <1>6 DEF OneSelects, Named, Typed, This, flags
<1>9. Counted' = Counted
  BY <1>4 DEF Counted, Typed
<1>10. LastStores'
  BY <1>4, <1>6, <1>9 DEF LastStores, Typed, flags
<1>11. OwnSchedule'
  BY DEF OwnSchedule, Working, Typed, This
<1> QED
  BY <1>2, <1>3, <1>7, <1>8, <1>10, <1>11

\* The counter is one short of the team exactly when all the others are through.
LEMMA Counting ==
    ASSUME NEW t \in Threads, t \notin Counted
    PROVE  /\ Cardinality(Counted \cup {t}) = Cardinality(Counted) + 1
           /\ Cardinality(Counted) \in Nat
           /\ Cardinality(Counted) = NProc - 1 <=> Counted \cup {t} = Threads
<1>1. IsFiniteSet(Threads) /\ Cardinality(Threads) = NProc
  BY FS_Interval, AutoAssumption DEF Threads
<1>2. Counted \cup {t} \subseteq Threads
  BY DEF Counted
<1>3. IsFiniteSet(Counted) /\ Cardinality(Counted) \in Nat
  BY <1>1, <1>2, FS_Subset, FS_CardinalityType
<1>4. Cardinality(Counted \cup {t}) = Cardinality(Counted) + 1
  BY <1>3, FS_AddElement
<1>5. Cardinality(Counted \cup {t}) = NProc <=> Counted \cup {t} = Threads
  BY <1>1, <1>2, FS_Subset
<1> QED
  BY <1>3, <1>4, <1>5, AutoAssumption

LEMMA CountTimeKeeps ==
    ASSUME Regular, SelectInv, NEW t \in Threads, CountTime(t)
    PROVE  SelectInv'
<1> USE DEF SelectInv, At
<1>1. pc[t] = "count" /\ autoThreadCount' = autoThreadCount + 1
  BY DEF CountTime
<1>2. ~Ahead(t) /\ This(t).auto /\ loop[t] \in DOMAIN Loops
  BY <1>1, Abreast DEF Raised, AutoPlaces, Typed
<1>3. \A u \in Threads : ~Ahead(u) => loop[u] = loop[t]
  BY <1>1, <1>2, Abreast DEF UnderAuto, This
<1>4. ~Storing /\ t \notin Counted
  BY <1>1, <1>2 DEF Storing, LastStores, Counted
<1>5. autoThreadCount = Cardinality(Counted)
  BY <1>4 DEF LastStores
<1>6. autoWait = 0
  BY <1>1, <1>4 DEF OneSelects, Typed, Admitted, Entered, AutoPlaces
<1>7. \A u \in Threads : u # t => pc'[u] = pc[u]
  BY DEF CountTime, Go, Leave, Typed
<1>8. CASE autoThreadCount = NProc - 1
  <2>1. pc' = [pc EXCEPT ![t] = "reset"] /\ UNCHANGED <<loop, flags, autoLoopName, rec, sched>>
    BY <1>8 DEF CountTime, Go
  <2>2. Counted \cup {t} = Threads
    BY <1>4, <1>5, <1>8, Counting
  <2>3. \A u \in Threads : u # t => Ahead(u)
    BY <2>2, <1>2 DEF Counted, LastStores
  <2>4. Typed'
    BY <1>2, <2>1 DEF Typed, AutoPlaces, flags
  <2>5. Together'
    BY <2>1, <2>4, <1>1, WithinLoop
  <2>6. \A u \in Threads : Ahead(u)' <=> Ahead(u)
    BY <2>1, AheadKept
  <2>7. ~Storing'
    BY <2>1, <1>4 DEF Storing, Typed
  <2>8. Raised'
    BY <2>1, <2>6, <1>1, <1>2 DEF Raised, AutoPlaces, Typed, This, flags
  <2>9. OneSelects' /\ Named'
    BY <2>1, <2>6, <1>6 DEF OneSelects, Named, Typed, This, flags
  <2>10. Counted' = Counted \cup {t}
    BY <2>1, <2>6 DEF Counted, Typed
  <2>11. LastStores'
    BY <2>1, <2>3, <2>6, <2>7, <2>10, <1>1, <1>4, <1>5, <1>7, Counting DEF LastStores
  <2>12. OwnSchedule'
    BY <2>1 DEF OwnSchedule, Working, Typed, This
  <2> QED
    BY <2>4, <2>5, <2>8, <2>9, <2>11, <2>12
<1>9. CASE autoThreadCount # NProc - 1
  <2>1. Leave(t) /\ UNCHANGED <<flags, autoLoopName, rec, sched>>
    BY <1>9 DEF CountTime
  <2>2. PICK v \in Threads : v # t /\ ~Ahead(v) /\ ~At(v, "reset")
    BY <1>4, <1>5, <1>9, Counting DEF Counted
  <2>3. loop[v] = loop[t]
    BY <2>2, <1>3
  <2>4. Typed'
    BY <2>1, <1>2, LeaveTyped DEF flags
  <2>5. Together'
    BY <2>1, <2>4, <1>1 DEF Together, Typed, Leave, Go, Regular
  <2>6. \A u \in Threads : Ahead(u)' <=> Ahead(u) \/ u = t
    <3>1. loop' = [loop EXCEPT ![t] = loop[t] + 1] /\ UnderAuto(loop[t])
      BY <2>1, <1>2 DEF Leave, UnderAuto, This
    <3>2. Ahead(t)'
      BY <3>1, <2>2, <2>3 DEF Ahead, UnderAuto, Typed, Regular
    <3>3. ASSUME NEW u \in Threads, u # t PROVE Ahead(u)' <=> Ahead(u)
      BY <3>1, <3>3, <2>2, <2>3 DEF Ahead, UnderAuto, Typed, Regular
    <3> QED
      BY <3>2, <3>3
  <2>7. ~Storing'
    BY <2>1, <1>4 DEF Storing, Typed, Leave, Go
  <2>8. Raised'
    BY <2>1, <2>6, <1>1, <1>2 DEF Raised, AutoPlaces, Typed, This, flags, Leave, Go, UnderAuto
  <2>9. OneSelects' /\ Named'
    BY <2>1, <2>6, <1>6 DEF OneSelects, Named, Typed, This, flags, Leave, Go
  <2>10. Counted' = Counted \cup {t}
    BY <2>1, <2>6 DEF Counted, Typed, Leave, Go
  <2>11. LastStores'
    BY <2>1, <2>6, <2>7, <2>10, <1>1, <1>4, <1>5, <1>7, Counting DEF LastStores, Leave, Go, Typed
  <2>12. OwnSchedule'
    BY <2>1 DEF OwnSchedule, Working, Typed, This, Leave, Go
  <2> QED
    BY <2>4, <2>5, <2>8, <2>9, <2>11, <2>12
<1> QED
  BY <1>8, <1>9

\* The last thread lowers the flags when nobody else is in the loop, ...
LEMMA ResetKeeps ==
    ASSUME Regular, SelectInv, NEW t \in Threads, Reset(t)
    PROVE  SelectInv'
<1> USE DEF SelectInv, Reset, At, Go, LowerFlags
<1>1. \A u \in Threads : u # t => Ahead(u) /\ pc[u] = "out"
  BY Abreast DEF LastStores
<1>2. Typed'
  BY DEF Typed, AutoPlaces
<1>3. Together'
  BY <1>2, WithinLoop
<1>4. \A u \in Threads : Ahead(u)' <=> Ahead(u)
  BY AheadKept
<1>5. Storing'
  BY DEF Storing, Typed
<1>6. Raised'
  BY <1>1, <1>4 DEF Raised, AutoPlaces, Typed, This
<1>7. OneSelects' /\ Named'
  BY <1>1, <1>5 DEF OneSelects, Named, Typed
<1>8. LastStores'
  BY <1>1, <1>4, <1>5 DEF LastStores, Typed
<1>9. OwnSchedule'
  BY DEF OwnSchedule, Working, Typed, This
<1> QED
  BY <1>2, <1>3, <1>6, <1>7, <1>8, <1>9

\* ... and when it has stored the measurement too, nobody is ahead any more.
LEMMA StoreKeeps ==
    ASSUME Regular, SelectInv, NEW t \in Threads, Store(t)
    PROVE  SelectInv'
<1> USE DEF SelectInv, Store, At
<1>1. \A u \in Threads : u # t => Ahead(u) /\ pc[u] = "out" /\ loop[u] > loop[t]
  BY Abreast DEF LastStores, Typed, Together, Ahead, UnderAuto
<1>2. Storing /\ loop[t] \in DOMAIN Loops
  BY DEF Storing, Typed
<1>3. pc' = [pc EXCEPT ![t] = "out"] /\ loop' = [loop EXCEPT ![t] = loop[t] + 1]
  BY DEF Leave, Go
<1>4. Typed'
  BY <1>2, LeaveTyped DEF flags
<1>5. \A u \in Threads : pc'[u] = "out"
  BY <1>1, <1>3 DEF Typed
<1>6. Together'
  BY <1>1, <1>3, <1>4, <1>5 DEF Together, Typed, Regular
<1>7. ASSUME NEW u \in Threads PROVE ~Ahead(u)'
  BY <1>1, <1>2, <1>3, <1>4 DEF Together, Ahead, UnderAuto, Typed, Regular
<1>8. autoEnter' = 0 /\ autoWait' = 1 /\ AUTO_FLAG' = 0 /\ autoThreadCount' = 0
  BY <1>2 DEF LastStores, flags, timer
<1>9. ~Storing' /\ \A u \in Threads : ~Entered(u)' /\ ~Admitted(u)'
  BY <1>5, <1>7 DEF Storing, Entered, Admitted, AutoPlaces
<1>10. Raised' /\ OneSelects' /\ Named' /\ OwnSchedule'
  BY <1>5, <1>8, <1>9 DEF Raised, OneSelects, Named, OwnSchedule, Working, AutoPlaces
<1>11. Counted' = {}
  BY <1>5, <1>7 DEF Counted
<1>12. LastStores'
  BY <1>5, <1>8, <1>9, <1>11, FS_EmptySet DEF LastStores
<1> QED
  BY <1>4, <1>6, <1>10, <1>12
---------------------------------------------------------------------------
LEMMA SelectStep == ASSUME Regular PROVE SelectInv /\ [Next]_vars => SelectInv'
<1> SUFFICES ASSUME SelectInv, [Next]_vars PROVE SelectInv'
  OBVIOUS
<1>1. CASE UNCHANGED vars
  BY <1>1 DEF vars, flags, timer, SelectInv, Typed, Together, Raised, OneSelects, Named,
              LastStores, OwnSchedule, Ahead, Entered, Admitted, Counted, Storing, Working,
              At, This, UnderAuto
<1>2. ASSUME NEW t \in Threads, ThreadStep(t) PROVE SelectInv'
  <2>1. CASE Spin(t)
    BY <2>1, <1>1 DEF Spin
  <2> QED
    BY <1>2, <2>1, EnterTimerKeeps, SetFlagKeeps, EnterPlainKeeps, EnterAutoKeeps, ChooseKeeps,
       AdmitKeeps, WaitKeeps, AdoptKeeps, PassKeeps, AddTimeKeeps, CountTimeKeeps, ResetKeeps,
       StoreKeeps DEF ThreadStep
<1> QED
  BY <1>1, <1>2 DEF Next

\* A thread at work in a loop under AUTO uses the technique that was selected for
\* that loop, and any other loop keeps its own schedule: in any team, with any
\* option and any times, for every program whose loops end with a barrier and
\* whose loops under AUTO have iterations.  Both conditions are needed: a loop
\* without iterations leaves the flags of __kmp_dispatch_init_algorithm up.
THEOREM AutoOwnSchedule == ASSUME Regular PROVE Spec => []OwnSchedule
<1>1. Init => SelectInv
  BY InitSelect
<1>2. SelectInv /\ [Next]_vars => SelectInv'
  BY SelectStep
<1>3. SelectInv => OwnSchedule
  BY DEF SelectInv
<1> QED
  BY <1>1, <1>2, <1>3, PTL DEF Spec
---------------------------------------------------------------------------
(***************************************************************************)
(* Seen by its records, the team does what one thread would do that        *)
(* executes the loops one after the other: AutoSelect implements           *)
(* AutoTuning.  What is selected and not measured yet is on its way.       *)
(***************************************************************************)

\* The operators of the search are those of the abstract module.
LEMMA SameExhaustive == \A r : Tuning!Exhaustive(r) = Exhaustive(r)
<1>1. \A r : Tuning!Noted(r) = Noted(r)
  BY Zenon DEF Tuning!Noted, Noted, Tuning!Faster, Faster
<1> QED BY <1>1, Zenon DEF Tuning!Exhaustive, Exhaustive

LEMMA SameBinary == \A r : Tuning!Binary(r) = Binary(r)
<1>1. \A d : Tuning!Within(d) = Within(d)
  BY Zenon DEF Tuning!Within, Within
<1>2. \A r : Tuning!Step(r) = Step(r)
  BY Zenon DEF Tuning!Step, Step
<1>3. \A r : Tuning!Moved(r) = Moved(r)
  BY <1>2, Zenon DEF Tuning!Moved, Moved, Tuning!BaseLB, BaseLB
<1> QED BY <1>1, <1>2, <1>3, Zenon DEF Tuning!Binary, Binary

LEMMA SameRandom == \A r : Tuning!RandomSearch(r) = RandomSearch(r)
<1>1. \A r : (Tuning!MayJump(r) <=> MayJump(r)) /\ (Tuning!MayStay(r) <=> MayStay(r))
  BY Zenon DEF Tuning!MayJump, MayJump, Tuning!MayStay, MayStay
<1>2. \A r : Tuning!Jumps(r) = Jumps(r)
  BY Zenon DEF Tuning!Jumps, Jumps, Tuning!Dls, Dls
<1> QED BY <1>1, <1>2, Zenon DEF Tuning!RandomSearch, RandomSearch

LEMMA SameFirstRules == \A m, b, h : Tuning!FirstRules(m, b, h) = FirstRules(m, b, h)
<1>1. \A x, y : Tuning!Most(x, y) = Most(x, y) /\ Tuning!Least(x, y) = Least(x, y)
  BY Zenon DEF Tuning!Most, Most, Tuning!Least, Least
<1>2. \A x : /\ Tuning!TparISShort(x) = TparISShort(x) /\ Tuning!TparISLong(x) = TparISLong(x)
             /\ Tuning!LBISHigh(x) = LBISHigh(x)
             /\ \A h : Tuning!TparISMedium(x, h) = TparISMedium(x, h)
  BY SMT DEF Tuning!TparISShort, TparISShort, Tuning!TparISLong, TparISLong,
             Tuning!TparISMedium, TparISMedium, Tuning!LBISHigh, LBISHigh
<1>3. \A x : /\ Tuning!LBISLow(x) = LBISLow(x)
             /\ \A h : Tuning!LBISModerate(x, h) = LBISModerate(x, h)
  BY SMT DEF Tuning!LBISModerate, LBISModerate, Tuning!LBISLow, LBISLow
<1> QED BY <1>1, <1>2, <1>3, SMT DEF Tuning!FirstRules, FirstRules

LEMMA SameDeltaRules ==
    \A m, b, t, d, h : Tuning!DeltaRules(m, b, t, d, h) = DeltaRules(m, b, t, d, h)
<1>1. \A x, y : Tuning!Most(x, y) = Most(x, y) /\ Tuning!Least(x, y) = Least(x, y)
  BY Zenon DEF Tuning!Most, Most, Tuning!Least, Least
<1>2. \A x : /\ Tuning!TparISShort(x) = TparISShort(x) /\ Tuning!TparISLong(x) = TparISLong(x)
             /\ Tuning!LBISHigh(x) = LBISHigh(x) /\ Tuning!LBISLow(x) = LBISLow(x)
  BY SMT DEF Tuning!TparISShort, TparISShort, Tuning!TparISLong, TparISLong,
             Tuning!LBISHigh, LBISHigh, Tuning!LBISLow, LBISLow
<1>3. \A x : /\ Tuning!DlbISDegraded(x) = DlbISDegraded(x)
             /\ Tuning!DlbISImproved(x) = DlbISImproved(x)
             /\ Tuning!DlbISNoChange(x) = DlbISNoChange(x)
             /\ Tuning!DTparISDegraded(x) = DTparISDegraded(x)
             /\ Tuning!DTparISImproved(x) = DTparISImproved(x)
  BY Zenon DEF Tuning!DlbISDegraded, DlbISDegraded, Tuning!DlbISImproved, DlbISImproved,
               Tuning!DlbISNoChange, DlbISNoChange, Tuning!DTparISDegraded, DTparISDegraded,
               Tuning!DTparISImproved, DTparISImproved
<1>4. \A x, h : Tuning!DTparISNoChange(x, h) = DTparISNoChange(x, h)
  BY SMT DEF Tuning!DTparISNoChange, DTparISNoChange
<1> QED BY <1>1, <1>2, <1>3, <1>4, SMTT(30) DEF Tuning!DeltaRules, DeltaRules

LEMMA SameFuzzy == \A r : Tuning!Fuzzy(r) = Fuzzy(r)
<1>1. \A d : Tuning!Within(d) = Within(d)
  BY Zenon DEF Tuning!Within, Within
<1>2. \A w : Tuning!FirstAreas(w) = FirstAreas(w) /\ Tuning!DeltaAreas(w) = DeltaAreas(w)
  BY Zenon DEF Tuning!FirstAreas, FirstAreas, Tuning!DeltaAreas, DeltaAreas
<1>3. \A a : Tuning!FirstTotal(a) = FirstTotal(a) /\ Tuning!DeltaTotal(a) = DeltaTotal(a)
  BY Zenon DEF Tuning!FirstTotal, FirstTotal, Tuning!DeltaTotal, DeltaTotal
<1>4. \A a : Tuning!FirstSelected(a) = FirstSelected(a)
  BY <1>3, Zenon DEF Tuning!FirstSelected, FirstSelected
<1>5. \A d, a : Tuning!DeltaSelected(d, a) = DeltaSelected(d, a)
  BY <1>3, Zenon DEF Tuning!DeltaSelected, DeltaSelected
<1>6. \A r : Tuning!FirstTime(r) = FirstTime(r) /\ Tuning!TimeChange(r) = TimeChange(r)
  BY Zenon DEF Tuning!FirstTime, FirstTime, Tuning!TimeChange, TimeChange
<1>7. \A r, h : Tuning!Selected(r, h) = Selected(r, h)
  BY <1>1, <1>2, <1>3, <1>4, <1>5, <1>6, SameFirstRules, SameDeltaRules, Zenon
  DEF Tuning!Selected, Selected, Tuning!Dls, Dls
<1> QED BY <1>7, Zenon DEF Tuning!Fuzzy, Fuzzy

LEMMA SameSearched == \A o, r, n, p : Tuning!Searched(o, r, n, p) = Searched(o, r, n, p)
<1>1. \A r, n, p : Tuning!WithChunk(r, n, p) = WithChunk(r, n, p)
  BY Zenon DEF Tuning!WithChunk, WithChunk
<1> QED
  BY <1>1, SameExhaustive, SameBinary, SameRandom, SameFuzzy, Zenon DEF Tuning!Searched, Searched
---------------------------------------------------------------------------
\* Each place has one trip count, and the imbalances are among those that may come out.
SameTrips == \A l, m \in DOMAIN Loops :
                 Loops[l].place = Loops[m].place => Loops[l].trips = Loops[m].trips
Measurable == \A d \in Durations, s \in Int : Imbalance(d, s, NProc) \in Percents

\* A loop is selected and not measured yet, and its place.
Busy == (autoEnter > 0 /\ ~Selecting) \/ Storing
Now == IF Busy THEN autoLoopName ELSE None

\* The records are those of a search that has tried no more than loops have begun.
MeasureInv ==
    /\ option \in 2 .. 5
    /\ rec \in [Places -> Records] /\ (option = 5 => \A p \in Places : Timed(rec[p]))
    /\ \A p \in Places, t \in Threads :
           rec[p].searchTrials <= loop[t] - (IF Busy THEN 0 ELSE 1)
    /\ autoMeanThreadTime \in Int /\ mine \in [Threads -> Nat]
    /\ \A t \in Threads : pc[t] \in {"count", "reset"} => mine[t] \in Durations
    /\ Storing => /\ result.time \in Durations /\ result.lb \in Percents
                  /\ autoLoopName \in Places

LEMMA InitMeasure == ASSUME Regular PROVE Init => MeasureInv /\ ~Busy
<1> SUFFICES ASSUME Init PROVE MeasureInv /\ ~Busy
  OBVIOUS
<1>1. NewRecord \in Records /\ Timed(NewRecord) /\ NewRecord.searchTrials = 0
  BY DEF NewRecord, Records, Timed
<1>2. ~Storing /\ ~Busy
  BY DEF Init, Storing, Busy, At
<1>3. \A p \in Places : rec[p] = NewRecord
  BY DEF Init
<1>4. rec \in [Places -> Records] /\ option \in 2 .. 5
  BY <1>1 DEF Init
<1> QED BY <1>1, <1>2, <1>3, <1>4 DEF Init, MeasureInv

\* Neither the thread that selects nor the one that stores takes part in a step.
LEMMA BusyKept ==
    ASSUME Typed, NEW t \in Threads, \A u \in Threads : u # t => pc'[u] = pc[u],
           pc[t] \notin {"choose", "store"}, pc'[t] \notin {"choose", "store"},
           autoEnter' = autoEnter
    PROVE  (Busy' <=> Busy) /\ (Storing' <=> Storing)
<1>1. Selecting' <=> Selecting
  BY DEF Selecting, At
<1>2. Storing' <=> Storing
  BY DEF Storing, At
<1> QED BY <1>1, <1>2 DEF Busy

\* What such a step has to leave alone.
LEMMA Unmeasuring ==
    ASSUME Typed, MeasureInv, Busy' <=> Busy, Storing' <=> Storing,
           \A u \in Threads : loop'[u] \in Int /\ loop'[u] >= loop[u],
           autoMeanThreadTime' \in Int, mine' \in [Threads -> Nat],
           \A u \in Threads : pc'[u] \in {"count", "reset"} => mine'[u] \in Durations,
           UNCHANGED <<option, rec, result, autoLoopName>>
    PROVE  MeasureInv' /\ UNCHANGED <<option, rec, Now>>
<1>1. UNCHANGED Now
  BY DEF Now
<1>2. ASSUME NEW p \in Places, NEW u \in Threads
      PROVE  rec'[p].searchTrials <= loop'[u] - (IF Busy' THEN 0 ELSE 1)
  <2>1. /\ rec[p].searchTrials \in Nat /\ loop[u] \in Int
        /\ rec[p].searchTrials <= loop[u] - (IF Busy THEN 0 ELSE 1)
    BY DEF MeasureInv, Records, Typed
  <2> DEFINE z == IF Busy THEN 0 ELSE 1
  <2>2. z \in Int /\ z = (IF Busy' THEN 0 ELSE 1)
    OBVIOUS
  <2> HIDE DEF z
  <2>3. rec'[p].searchTrials = rec[p].searchTrials /\ loop'[u] \in Int /\ loop'[u] >= loop[u]
    OBVIOUS
  <2> QED BY <2>1, <2>2, <2>3 DEF z
<1> QED BY <1>1, <1>2 DEF MeasureInv

Quiet(t) ==
    \/ Skip(t) \/ EnterTimer(t) \/ StartTimer(t) \/ SetFlag(t) \/ EnterPlain(t)
    \/ Admit(t) \/ Spin(t) \/ Wait(t) \/ Adopt(t) \/ Pass(t) \/ AddTime(t) \/ CountTime(t)

LEMMA QuietStep ==
    ASSUME Regular, SelectInv, MeasureInv, NEW t \in Threads, Quiet(t)
    PROVE  MeasureInv' /\ UNCHANGED <<option, rec, Now>>
<1>0. Typed /\ \A u \in Threads : loop[u] \in Int
  BY DEF SelectInv, Typed
<1>1. /\ \A u \in Threads : u # t => pc'[u] = pc[u]
      /\ pc[t] \notin {"choose", "store"} /\ pc'[t] \notin {"choose", "store"}
      /\ autoEnter' = autoEnter
  BY <1>0 DEF Typed, Quiet, Skip, EnterTimer, StartTimer, SetFlag, EnterPlain, Admit, Spin, Wait,
     Adopt, Pass, AddTime, CountTime, At, Go, Leave, MayEnter, flags, vars
<1>2. UNCHANGED <<option, rec, result, autoLoopName>>
  BY DEF Quiet, Skip, EnterTimer, StartTimer, SetFlag, EnterPlain, Admit, Spin, Wait,
     Adopt, Pass, AddTime, CountTime, timer, vars
<1>3. \A u \in Threads : loop'[u] \in Int /\ loop'[u] >= loop[u]
  BY <1>0 DEF Typed, Quiet, Skip, EnterTimer, StartTimer, SetFlag, EnterPlain, Admit, Spin, Wait,
     Adopt, Pass, AddTime, CountTime, Leave, vars
<1>4. /\ autoMeanThreadTime' \in Int /\ mine' \in [Threads -> Nat]
      /\ \A u \in Threads : pc'[u] \in {"count", "reset"} => mine'[u] \in Durations
  <2>1. CASE AddTime(t)
    <3>1. PICK d \in Durations : autoMeanThreadTime' = autoMeanThreadTime + d
                                 /\ mine' = [mine EXCEPT ![t] = d]
      BY <2>1 DEF AddTime
    <3>2. d \in Nat
      BY AutoAssumption
    <3>3. pc' = [pc EXCEPT ![t] = "count"]
      BY <2>1 DEF AddTime, Go
    <3> QED BY <1>0, <3>1, <3>2, <3>3 DEF MeasureInv, Typed
  <2>2. CASE ~AddTime(t)
    <3>1. autoMeanThreadTime' = autoMeanThreadTime /\ mine' = mine
      BY <2>2 DEF Quiet, Skip, EnterTimer, StartTimer, SetFlag, EnterPlain, Admit, Spin, Wait,
         Adopt, Pass, CountTime, timer, vars
    <3>2. pc'[t] \in {"count", "reset"} => pc[t] \in {"count", "reset"}
      BY <1>0, <2>2 DEF Typed, Quiet, Skip, EnterTimer, StartTimer, SetFlag, EnterPlain, Admit,
         Spin, Wait, Adopt, Pass, CountTime, At, Go, Leave, MayEnter, vars
    <3> QED BY <1>1, <3>1, <3>2 DEF MeasureInv
  <2> QED BY <2>1, <2>2
<1> QED BY <1>0, <1>1, <1>2, <1>3, <1>4, BusyKept, Unmeasuring
---------------------------------------------------------------------------
\* A search goes at most one trial further.
LEMMA OneTrialMore ==
    ASSUME NEW o \in 2 .. 5, NEW r \in Records, o = 5 => Timed(r),
           NEW n \in Nat, NEW p \in Nat \ {0}, NEW q \in Searched(o, r, n, p)
    PROVE  q.searchTrials <= r.searchTrials + 1
<1>0. r.searchTrials \in Nat /\ "searchTrials" \in DOMAIN r
  BY DEF Records
<1>1. CASE o = 2
  <2>1. PICK s \in RandomSearch(r) : q = WithChunk(s, n, p)
    BY <1>1 DEF Searched
  <2>2. s.searchTrials = r.searchTrials + 1
    <3> DEFINE k == r.searchTrials + 1
    <3>1. \/ \E d \in Dls : s = [r EXCEPT !.cDLS = d, !.bestDLS = r.cDLS, !.bestLB = r.cLB,
                                        !.bestChunk = r.cChunk, !.searchTrials = k]
          \/ s = [r EXCEPT !.searchTrials = k]
      BY DEF RandomSearch, Jumps
    <3>0. k \in Nat
      BY <1>0
    <3> HIDE DEF k
    <3>2. s.searchTrials = k
      BY <3>0, <3>1 DEF Records
    <3> QED BY <3>2 DEF k
  <2>3. s \in Records
    BY RandomTyped
  <2>4. q.searchTrials = s.searchTrials
    BY <2>1, <2>3, ChunkOnly
  <2> QED BY <1>0, <2>2, <2>4
<1>2. CASE o = 3
  <2>1. q = WithChunk(Exhaustive(r), n, p)
    BY <1>2 DEF Searched
  <2>2. Exhaustive(r) \in Records
    BY ExhaustiveTyped
  <2>3. Noted(r) \in Records /\ Noted(r).searchTrials = r.searchTrials
    BY DEF Noted, Records
  <2>4. Exhaustive(r).searchTrials \in {0, r.searchTrials + 1}
    <3> DEFINE k == r.searchTrials + 1
               d == (Noted(r).cDLS + 1) % Size
    <3>1. \/ Exhaustive(r) = [Noted(r) EXCEPT !.cDLS = d, !.searchTrials = k]
          \/ Exhaustive(r) = [Noted(r) EXCEPT !.cDLS = Noted(r).bestDLS,
                 !.cChunk = Noted(r).bestChunk, !.searchTrials = 0, !.autoSearch = 0]
      BY <2>3, Zenon DEF Exhaustive
    <3>0. k \in Nat
      BY <1>0
    <3> HIDE DEF k, d
    <3>2. Exhaustive(r).searchTrials \in {0, k}
      BY <3>0, <2>3, <3>1 DEF Records
    <3> QED BY <3>2 DEF k
  <2>5. q.searchTrials = Exhaustive(r).searchTrials
    BY <2>1, <2>2, ChunkOnly
  <2> QED BY <1>0, <2>4, <2>5
<1>3. CASE o = 4
  <2>1. q = WithChunk(Binary(r), n, p)
    BY <1>3 DEF Searched
  <2>2. Binary(r) \in Records
    BY BinaryTyped
  <2>3. Binary(r).searchTrials = (IF Step(r) = 0 THEN 0 ELSE r.searchTrials) + 1
    <3> DEFINE k == (IF Step(r) = 0 THEN 0 ELSE r.searchTrials) + 1
               z == IF Step(r) = 0 THEN 0 ELSE r.autoSearch
               d == Within(Moved(r))
    <3>1. Binary(r) = [r EXCEPT !.cDLS = d, !.bestLB = r.cLB, !.bestDLS = r.cDLS,
                                !.bestChunk = r.cChunk, !.searchTrials = k, !.autoSearch = z]
      BY DEF Binary
    <3>0. k \in Nat
      BY <1>0
    <3> HIDE DEF k, z, d
    <3>2. Binary(r).searchTrials = k
      BY <3>0, <3>1 DEF Records
    <3> QED BY <3>2 DEF k
  <2>4. q.searchTrials = Binary(r).searchTrials
    BY <2>1, <2>2, ChunkOnly
  <2> QED BY <1>0, <2>3, <2>4
<1>4. CASE o = 5
  <2>1. PICK s \in Fuzzy(r) : q = WithChunk(s, n, p)
    BY <1>4 DEF Searched
  <2>2. s \in Records
    BY <1>4, FuzzyTyped
  <2>3. s.searchTrials = r.searchTrials + 1
    <3> DEFINE k == r.searchTrials + 1
               e(d) == [r EXCEPT !.searchTrials = k, !.bestLB = r.cLB, !.bestDLS = r.cDLS,
                                 !.bestChunk = r.cChunk, !.bestTime = r.cTime, !.cDLS = d]
    <3>1. Fuzzy(r) = {e(d) : d \in Selected(r, 0) \cup Selected(r, 1000)}
      BY Zenon DEF Fuzzy
    <3> HIDE DEF e
    <3>2. PICK d : s = e(d)
      BY <3>1
    <3>0. k \in Nat
      BY <1>0
    <3> HIDE DEF k
    <3>3. e(d).searchTrials = k
      BY <3>0 DEF e, Records
    <3> QED BY <3>2, <3>3 DEF k
  <2>4. q.searchTrials = s.searchTrials
    BY <2>1, <2>2, ChunkOnly
  <2> QED BY <1>0, <2>3, <2>4
<1> QED BY <1>1, <1>2, <1>3, <1>4

\* Reaching the selection begins nothing yet.
LEMMA EnterAutoStep ==
    ASSUME Regular, SelectInv, MeasureInv, NEW t \in Threads, EnterAuto(t)
    PROVE  MeasureInv' /\ UNCHANGED <<option, rec, Now>>
<1>0. Typed /\ ~Ahead(t) /\ At(t, "enter") /\ OneSelects /\ LastStores
  BY Abreast DEF SelectInv, EnterAuto, At
<1>1. ~Storing
  BY <1>0 DEF Storing, LastStores, At
<1>2. pc' = [pc EXCEPT ![t] = IF autoEnter = 0 THEN "choose" ELSE "wait"]
      /\ autoEnter' = autoEnter + 1
  BY DEF EnterAuto, Go, First
<1>3. ~Storing'
  BY <1>0, <1>1, <1>2 DEF Storing, At, Typed
<1>4. Busy' <=> Busy
  <2>1. CASE autoEnter = 0
    <3>1. Selecting'
      BY <1>0, <1>2, <2>1 DEF Selecting, At, Typed
    <3> QED BY <1>1, <1>3, <2>1, <3>1 DEF Busy
  <2>2. CASE autoEnter # 0
    <3>1. Selecting' <=> Selecting
      BY <1>0, <1>2, <2>2 DEF Selecting, At, Typed
    <3>2. autoEnter > 0 /\ autoEnter' > 0
      BY <1>0, <1>2, <2>2 DEF Typed
    <3> QED BY <1>1, <1>3, <3>1, <3>2 DEF Busy
  <2> QED BY <2>1, <2>2
<1>5. UNCHANGED <<option, rec, result, autoLoopName, loop, mine, autoMeanThreadTime>>
  BY DEF EnterAuto, timer
<1>6. \A u \in Threads : pc'[u] \in {"count", "reset"} => mine'[u] \in Durations
  BY <1>0, <1>2, <1>5 DEF Typed, MeasureInv
<1>7. \A u \in Threads : loop'[u] \in Int /\ loop'[u] >= loop[u]
  BY <1>0, <1>5 DEF Typed
<1>8. autoMeanThreadTime' \in Int /\ mine' \in [Threads -> Nat]
  BY <1>5 DEF MeasureInv
<1> QED BY <1>0, <1>1, <1>3, <1>4, <1>5, <1>6, <1>7, <1>8, Unmeasuring

\* The last thread in a loop leaves the others nothing to do with it.
LEMMA ResetStep ==
    ASSUME Regular, Measurable, SelectInv, MeasureInv, NEW t \in Threads, Reset(t)
    PROVE  MeasureInv' /\ UNCHANGED <<option, rec, Now>>
<1>0. /\ Typed /\ ~Ahead(t) /\ At(t, "reset") /\ OneSelects /\ LastStores /\ Raised /\ Named
      /\ \A u \in Threads : u # t => Ahead(u) /\ pc[u] = "out"
  BY Abreast DEF SelectInv, Reset, At, LastStores
<1>1. ~Storing /\ ~Selecting
  BY <1>0 DEF Storing, Selecting, At
<1>2. Entered(t) /\ Admitted(t)
  BY <1>0 DEF Entered, Admitted, AutoPlaces, At
<1>3. autoEnter > 0 /\ autoWait = 0
  BY <1>0, <1>1, <1>2 DEF OneSelects, Typed
<1>4. Busy
  BY <1>1, <1>3 DEF Busy
<1>5. pc' = [pc EXCEPT ![t] = "store"]
  BY DEF Reset, Go
<1>6. Storing' /\ Busy'
  BY <1>0, <1>5 DEF Storing, Busy, At, Typed
<1>7. UNCHANGED <<option, rec, autoLoopName, loop, mine>>
  BY DEF Reset
<1>8. autoLoopName \in Places
  <2>1. autoLoopName = This(t).place
    BY <1>0, <1>3 DEF Named
  <2>2. loop[t] \in DOMAIN Loops
    BY <1>0 DEF Typed, At
  <2> QED BY <2>1, <2>2, AutoAssumption DEF This
<1>9. result'.time \in Durations /\ result'.lb \in Percents
  <2>1. mine[t] \in Durations /\ autoMeanThreadTime \in Int
    BY <1>0 DEF MeasureInv, At
  <2>2. autoThreadCount = NProc
    <3>1. Counted = Threads
      BY <1>0 DEF Counted
    <3>2. Cardinality(0 .. NProc - 1) = NProc
      BY FS_Interval, AutoAssumption
    <3> QED BY <1>0, <1>1, <3>1, <3>2 DEF LastStores, Threads
  <2> QED BY <2>1, <2>2 DEF Reset, Measurable
<1>10. autoMeanThreadTime' = 0
  BY DEF Reset
<1>11. \A u \in Threads : pc'[u] \in {"count", "reset"} => pc[u] \in {"count", "reset"}
  BY <1>0, <1>5 DEF Typed
<1>12. \A p \in Places, u \in Threads :
          rec'[p].searchTrials <= loop'[u] - (IF Busy' THEN 0 ELSE 1)
  BY <1>4, <1>6, <1>7 DEF MeasureInv
<1>13. MeasureInv'
  BY <1>6, <1>7, <1>8, <1>9, <1>10, <1>11, <1>12 DEF MeasureInv
<1> QED BY <1>4, <1>6, <1>7, <1>13 DEF Now
---------------------------------------------------------------------------
\* The thread that selects begins the loop, ...
LEMMA ChooseStep ==
    ASSUME Regular, SameTrips, SelectInv, MeasureInv, NEW t \in Threads, Choose(t)
    PROVE  MeasureInv' /\ Tuning!Begin(This(t).place)
<1> DEFINE p == This(t).place
           r == rec[p]
           n == This(t).trips
<1>0. /\ Typed /\ At(t, "choose") /\ OneSelects /\ LastStores /\ Raised /\ ~Ahead(t)
      /\ loop[t] \in DOMAIN Loops
  BY Abreast DEF SelectInv, Choose, At, Typed
<1>1. ~Storing /\ Selecting
  BY <1>0 DEF Storing, Selecting, LastStores, At
<1>2. ~Busy
  BY <1>1 DEF Busy
<1>3. pc' = [pc EXCEPT ![t] = "admit"] /\ autoEnter' = autoEnter /\ autoLoopName' = p
      /\ UNCHANGED <<option, loop, mine, autoMeanThreadTime>>
  BY DEF Choose, Go, flags, timer
<1>4. autoEnter > 0
  BY <1>0, <1>1 DEF OneSelects, Entered, AutoPlaces, At, Typed
<1>5. ~Storing' /\ ~Selecting'
  BY <1>0, <1>1, <1>3 DEF Storing, Selecting, OneSelects, At, Typed
<1>6. Busy'
  BY <1>3, <1>4, <1>5 DEF Busy
<1>7. p \in Places /\ n \in Nat /\ This(t).auto /\ ~This(t).serial
  BY <1>0, AutoAssumption DEF This, Regular, Raised, AutoPlaces, At
<1>8. Workers(loop[t]) = NProc /\ NProc \in Nat \ {0}
  BY <1>7, AutoAssumption DEF Workers, This
<1>9. TripsOf[p] = n
  BY <1>0, <1>7 DEF TripsOf, SameTrips, This
<1>10. r \in Records /\ option \in 2 .. 5 /\ (option = 5 => Timed(r)) /\ r.searchTrials \in Nat
  BY <1>7 DEF MeasureInv, Records
<1>11. r.searchTrials < Len(Loops)
  <2>1. r.searchTrials <= loop[t] - 1
    BY <1>2, <1>7 DEF MeasureInv
  <2>2. loop[t] <= Len(Loops) /\ loop[t] \in Int /\ Len(Loops) \in Nat
    BY <1>0 DEF Regular
  <2> QED BY <1>10, <2>1, <2>2
<1>12. IF r.autoSearch = 1 THEN \E q \in Searched(option, r, n, NProc) :
                                    rec' = [rec EXCEPT ![p] = q]
                           ELSE rec' = rec
  BY <1>8 DEF Choose
<1> HIDE DEF p, r, n
<1>13. MeasureInv'
  <2>1. rec' \in [Places -> Records] /\ (option' = 5 => \A o \in Places : Timed(rec'[o]))
        /\ \A o \in Places : rec'[o].searchTrials <= rec[o].searchTrials + 1
    <3>0. /\ rec \in [Places -> Records] /\ (option = 5 => \A o \in Places : Timed(rec[o]))
          /\ option' = option /\ \A o \in Places : rec[o].searchTrials \in Nat
      BY <1>3 DEF MeasureInv, Records
    <3>1. CASE r.autoSearch = 1
      <4>1. PICK q \in Searched(option, r, n, NProc) : rec' = [rec EXCEPT ![p] = q]
        BY <1>12, <3>1
      <4>2. q \in Records /\ (option = 5 => Timed(q))
        BY <1>7, <1>8, <1>10, SearchedTyped
      <4>3. q.searchTrials <= r.searchTrials + 1
        BY <1>7, <1>8, <1>10, OneTrialMore
      <4>4. \A o \in Places : rec'[o] = IF o = p THEN q ELSE rec[o]
        BY <3>0, <4>1
      <4> QED BY <1>7, <3>0, <4>1, <4>2, <4>3, <4>4 DEF r
    <3>2. CASE r.autoSearch # 1
      BY <1>12, <3>0, <3>2
    <3> QED BY <3>1, <3>2
  <2>2. ASSUME NEW o \in Places, NEW u \in Threads
        PROVE  rec'[o].searchTrials <= loop'[u] - (IF Busy' THEN 0 ELSE 1)
    <3>1. rec[o].searchTrials <= loop[u] - 1 /\ rec'[o].searchTrials <= rec[o].searchTrials + 1
      BY <1>2, <2>1 DEF MeasureInv
    <3>2. rec[o].searchTrials \in Nat /\ rec'[o].searchTrials \in Nat /\ loop[u] \in Int
      BY <1>0, <2>1 DEF MeasureInv, Records, Typed
    <3> QED BY <1>3, <1>6, <3>1, <3>2
  <2>3. \A u \in Threads : pc'[u] \in {"count", "reset"} => mine'[u] \in Durations
    BY <1>0, <1>3 DEF MeasureInv, Typed
  <2> QED BY <1>3, <1>5, <2>1, <2>2, <2>3 DEF MeasureInv
<1>14. Tuning!Search(p)
  <2>1. CASE r.autoSearch = 1
    <3>1. PICK q \in Searched(option, r, n, NProc) : rec' = [rec EXCEPT ![p] = q]
      BY <1>12, <2>1
    <3>2. q \in Tuning!Searched(option, rec[p], TripsOf[p], NProc)
      BY <1>9, SameSearched, Zenon DEF r
    <3>3. Tuning!SearchPlain(p)
      BY <1>11, <3>1, <3>2 DEF Tuning!SearchPlain, r
    <3>4. ~(option >= 6)
      BY <1>10
    <3> QED BY <2>1, <3>3, <3>4 DEF Tuning!Search, Tuning!Learns, r
  <2>2. CASE r.autoSearch # 1
    BY <1>12, <2>2 DEF Tuning!Search, r
  <2> QED BY <2>1, <2>2
<1> QED BY <1>1, <1>2, <1>3, <1>5, <1>6, <1>13, <1>14 DEF Tuning!Begin, Busy, p

\* ... and the one that stores ends it.
LEMMA StoreStep ==
    ASSUME Regular, SelectInv, MeasureInv, NEW t \in Threads, Store(t)
    PROVE  MeasureInv' /\ autoLoopName \in Places /\ Tuning!End(autoLoopName)
<1>0. /\ Typed /\ At(t, "store") /\ LastStores /\ Together
      /\ \A u \in Threads : u # t => Ahead(u) /\ pc[u] = "out" /\ loop[u] > loop[t]
  BY Abreast DEF SelectInv, Store, At, LastStores, Typed, Together, Ahead, UnderAuto
<1>1. Storing /\ Busy /\ autoEnter = 0
  BY <1>0 DEF Storing, Busy, LastStores
<1>2. /\ pc' = [pc EXCEPT ![t] = "out"] /\ loop' = [loop EXCEPT ![t] = loop[t] + 1]
      /\ UNCHANGED <<option, autoEnter, autoLoopName, autoMeanThreadTime, mine>>
  BY DEF Store, Leave, Go, flags, timer
<1>3. ~Storing' /\ ~Busy'
  BY <1>0, <1>1, <1>2 DEF Storing, Busy, At, Typed
<1> DEFINE p == autoLoopName
           q == Measured(rec[p], result.time, result.lb)
<1>4. p \in Places /\ result.time \in Durations /\ result.lb \in Percents
  BY <1>1 DEF MeasureInv
<1>5. rec' = [rec EXCEPT ![p] = q]
  BY DEF Store
<1>6. rec \in [Places -> Records] /\ (option = 5 => \A o \in Places : Timed(rec[o]))
  BY DEF MeasureInv
<1>7. q \in Records /\ Timed(q) /\ q.searchTrials = rec[p].searchTrials
  BY <1>4, <1>6, AutoAssumption, PercentAssumption, MeasuredTyped
<1>8. Tuning!Measured(rec[p], result.time, result.lb) = q
  BY Zenon DEF Tuning!Measured, Measured
<1> HIDE DEF q
<1>9. Tuning!End(p)
  <2>1. \E time \in Durations, lb \in Percents :
            rec' = [rec EXCEPT ![p] = Tuning!Measured(rec[p], time, lb)]
    BY <1>4, <1>5, <1>8
  <2> QED BY <1>1, <1>2, <1>3, <2>1 DEF Tuning!End, Busy
<1>10. \A o \in Places : rec'[o] = IF o = p THEN q ELSE rec[o]
  BY <1>5, <1>6
<1>11. ASSUME NEW o \in Places, NEW u \in Threads
       PROVE  rec'[o].searchTrials <= loop'[u] - (IF Busy' THEN 0 ELSE 1)
  <2>1. rec'[o].searchTrials = rec[o].searchTrials /\ rec[o].searchTrials \in Nat
    BY <1>4, <1>6, <1>7, <1>10 DEF Records
  <2>2. rec[o].searchTrials <= loop[t] /\ loop[t] \in Int /\ loop[u] \in Int
    BY <1>0, <1>1 DEF MeasureInv, Typed
  <2>3. loop'[u] = IF u = t THEN loop[t] + 1 ELSE loop[u]
    BY <1>0, <1>2 DEF Typed
  <2> QED BY <1>0, <1>3, <2>1, <2>2, <2>3
<1>12. rec' \in [Places -> Records] /\ (option' = 5 => \A o \in Places : Timed(rec'[o]))
  BY <1>2, <1>4, <1>5, <1>6, <1>7, <1>10
<1>13. \A u \in Threads : pc'[u] \in {"count", "reset"} => mine'[u] \in Durations
  BY <1>0, <1>2 DEF MeasureInv, Typed
<1>14. MeasureInv'
  BY <1>2, <1>3, <1>11, <1>12, <1>13 DEF MeasureInv
<1> QED BY <1>4, <1>9, <1>14
---------------------------------------------------------------------------
LEMMA TuningStep ==
    ASSUME Regular, SameTrips, Measurable
    PROVE  SelectInv /\ MeasureInv /\ [Next]_vars
               => MeasureInv' /\ [Tuning!TuningNext]_(Tuning!tuningVars)
<1> SUFFICES ASSUME SelectInv, MeasureInv, [Next]_vars
             PROVE  MeasureInv' /\ [Tuning!TuningNext]_(Tuning!tuningVars)
  OBVIOUS
<1>0. UNCHANGED <<option, rec, Now>> => UNCHANGED Tuning!tuningVars
  BY DEF Tuning!tuningVars, Now, Busy
<1>1. CASE UNCHANGED vars
  <2>1. (Busy' <=> Busy) /\ (Storing' <=> Storing)
    BY <1>1 DEF vars, flags, Busy, Storing, Selecting, At
  <2>2. MeasureInv' /\ UNCHANGED <<option, rec, Now>>
    BY <1>1, <2>1 DEF vars, timer, MeasureInv, Now
  <2> QED BY <1>0, <2>2
<1>2. ASSUME NEW t \in Threads, ThreadStep(t)
      PROVE  MeasureInv' /\ [Tuning!TuningNext]_(Tuning!tuningVars)
  <2>1. CASE Quiet(t)
    BY <1>0, <2>1, QuietStep
  <2>2. CASE EnterAuto(t)
    BY <1>0, <2>2, EnterAutoStep
  <2>3. CASE Reset(t)
    BY <1>0, <2>3, ResetStep
  <2>4. CASE Choose(t)
    <3>1. MeasureInv' /\ Tuning!Begin(This(t).place)
      BY <2>4, ChooseStep
    <3>2. This(t).place \in Places
      BY <2>4, AutoAssumption DEF SelectInv, Typed, Choose, At, This
    <3> QED BY <3>1, <3>2 DEF Tuning!TuningNext
  <2>5. CASE Store(t)
    BY <2>5, StoreStep DEF Tuning!TuningNext
  <2> QED BY <1>2, <2>1, <2>2, <2>3, <2>4, <2>5 DEF ThreadStep, Quiet
<1> QED BY <1>1, <1>2 DEF Next

\* The team keeps the promise of the search, loop after loop: one thread selects from
\* what the last execution of the same loop measured, before anybody works, and one
\* stores what this one has measured, after all have (__kmp_dispatch_init_algorithm
\* 1472-1545, end_auto_loop_timer).  As for AutoOwnSchedule loops end with a barrier and
\* those under AUTO have iterations; a place has the same number of them each time, and
\* Percents has whatever imbalance comes out.
THEOREM AutoImplementsTuning ==
    ASSUME Regular, SameTrips, Measurable
    PROVE  Spec => ImplementsTuning
<1>1. Init => SelectInv /\ MeasureInv /\ Tuning!TuningInit
  <2> SUFFICES ASSUME Init PROVE SelectInv /\ MeasureInv /\ Tuning!TuningInit
    OBVIOUS
  <2>1. SelectInv /\ MeasureInv /\ ~Busy
    BY InitSelect, InitMeasure
  <2>2. option \in Options /\ ~(option >= 6)
    BY DEF Init
  <2>3. Tuning!NewRecord = NewRecord
    BY Zenon DEF Tuning!NewRecord, NewRecord
  <2>4. Tuning!TuningInit
    BY <2>1, <2>2, <2>3 DEF Init, Tuning!TuningInit, Tuning!Learns, Busy
  <2> QED BY <2>1, <2>4
<1>2. SelectInv /\ [Next]_vars => SelectInv'
  BY SelectStep
<1>3. SelectInv /\ MeasureInv /\ [Next]_vars
          => MeasureInv' /\ [Tuning!TuningNext]_(Tuning!tuningVars)
  BY TuningStep
<1> QED BY <1>1, <1>2, <1>3, PTL DEF Spec, ImplementsTuning, Tuning!TuningSpec
===========================================================================
