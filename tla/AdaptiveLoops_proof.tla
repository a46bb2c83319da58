------------------------ MODULE AdaptiveLoops_proof ------------------------
(***************************************************************************)
(* Proof that the adaptive schedules keep the dispatcher's promise, for    *)
(* every team, loop, and set of measured rates and weights.  The invariant *)
(* ties the history to the cursor: what is below it has been handed out    *)
(* once, what is above it not at all, and a thread that has left saw it    *)
(* past the end.  That a size is positive needs the measured rates, which  *)
(* a thread has shared before it computes a size from them (Measured).     *)
(* On top of it: equal rates give equal chunks, BOLD's sums balance, and   *)
(* AWF's record conserves the work.                                        *)
(***************************************************************************)
EXTENDS AdaptiveLoops, FiniteSetTheorems, WellFoundedInduction, NaturalsInduction, TLAPS

Places == {"init", "record", "open", "weigh", "wait", "next", "share", "gather", "slow",
           "read", "cas", "speed", "account", "reset", "update", "barrier", "end"}
PrivateType == [weight : Weights \cup {2, NaN}, taken : Nat, mine : Nat, speed : Int,
                size : Nat, remaining : Int, sub : Nat \ {0}]
LocalType == [number : Nat, init : Nat, size : Nat, chunk : Nat, at : Threads,
              seen : [Threads -> Rates \cup {0}]]
DataType == [timeStep : Nat, workPerStep : [Threads -> Int], sumWorkPerStep : [Threads -> Int],
             weights : [Threads -> Weights \cup {2, NaN}]]

LoopTyped ==
    /\ schedule \in Schedules /\ trip \in Trips /\ minChunk \in MinChunks
    /\ step \in 0 .. Steps /\ iteration \in Nat /\ counter \in Nat
    /\ given \in [Executions -> [Iterations -> {0, 1}]]
ThreadsTyped ==
    /\ pc \in [Threads -> Places]
    /\ left \in [Threads -> Nat]
    /\ rates \in [Threads -> Rates \cup {0}]
    /\ data \in DataType
    /\ pr \in [Threads -> PrivateType]
    /\ local \in [Threads -> LocalType]
Typed == LoopTyped /\ ThreadsTyped

\* A thread that computes a size from the rates has measured its own.
Measured == \A t \in Threads :
    (schedule \in Rated /\ pr[t].taken > 0 /\ pc[t] \in {"gather", "slow", "read", "cas"})
        => local[t].seen[t] # 0

\* A chunk about to be taken has a size.
Sized == \A t \in Threads : pc[t] = "cas" => local[t].size > 0

\* What has been handed out is what is below the cursor, and the executions before.
Counted == \A l \in Executions : \A i \in Iterations :
    given[l][i] = IF l < step \/ (l = step /\ i < iteration) THEN 1 ELSE 0

\* A thread that has left saw the cursor past the end.
Exhausted == \A t \in Threads :
    pc[t] \in {"account", "reset", "update", "barrier"} => iteration >= trip

\* The executions a thread has left, and the end.
InStep == \A t \in Threads :
    /\ left[t] = step + (IF pc[t] = "barrier" THEN 1 ELSE 0)
    /\ pc[t] = "end" <=> step = Steps

IInv == Typed /\ Measured /\ Sized /\ Counted /\ Exhausted /\ InStep
---------------------------------------------------------------------------
(***************************************************************************)
(* Sums and products over finite sets, as the library's folds compute      *)
(* them.  Induction on a set is done on a smallest counterexample: the     *)
(* provers take facts about sets where they cannot take a predicate.       *)
(***************************************************************************)
\* A set of natural numbers that has a member has a least one.
LEMMA Least ==
    ASSUME NEW T \in SUBSET Nat, T # {}
    PROVE  \E x \in T : \A y \in T : x <= y
<1>1. PICK x \in T : \A y \in T : ~(<<y, x>> \in OpToRel(<, Nat))
  BY WFMin, NatLessThanWellFounded
<1>2. \A y \in T : ~(y < x)
  BY <1>1 DEF OpToRel
<1> QED BY <1>2

\* Induction on finite sets, without a predicate: among some subsets of a finite set
\* there is one that none of them is by one member smaller than.
LEMMA Smallest ==
    ASSUME NEW S, IsFiniteSet(S), NEW T \in SUBSET (SUBSET S), T # {}
    PROVE  \E s \in T : \A x \in s : s \ {x} \notin T
<1>1. \A s \in T : IsFiniteSet(s) /\ Cardinality(s) \in Nat
  BY FS_Subset, FS_CardinalityType
<1>2. PICK K : K = {Cardinality(s) : s \in T}
  OBVIOUS
<1>3. K \in SUBSET Nat /\ K # {}
  BY <1>1, <1>2
<1>4. PICK n \in K : \A m \in K : n <= m
  BY <1>3, Least
<1>5. PICK s \in T : n = Cardinality(s)
  BY <1>2, <1>4
<1>6. ASSUME NEW x \in s, s \ {x} \in T PROVE FALSE
  <2>1. Cardinality(s \ {x}) = Cardinality(s) - 1
    BY <1>1, FS_RemoveElement
  <2>2. Cardinality(s) <= Cardinality(s \ {x})
    BY <1>2, <1>4, <1>5, <1>6
  <2> QED BY <1>1, <2>1, <2>2
<1> QED BY <1>6

\* A table of what the library's folds compute, subset by subset: f combines the
\* member picked with what the rest gives.
Pick(s) == CHOOSE x \in s : TRUE
Table(g, f, b, S) == g = [s \in SUBSET S |-> IF s = {} THEN b ELSE f[<<Pick(s), g[s \ {Pick(s)}]>>]]

LEMMA PickIs == \A s : s # {} => Pick(s) \in s
  BY DEF Pick

\* Such a table exists.
LEMMA TableExists ==
    ASSUME NEW S, IsFiniteSet(S), NEW f \in [S \X Int -> Int], NEW b \in Int
    PROVE  \E g \in [SUBSET S -> Int] : Table(g, f, b, S)
<1> DEFINE Upto(n) == {s \in SUBSET S : Cardinality(s) <= n}
           Good(n, g) == \A s \in Upto(n) :
                            g[s] = IF s = {} THEN b ELSE f[<<Pick(s), g[s \ {Pick(s)}]>>]
<1>1. \A s \in SUBSET S : /\ IsFiniteSet(s) /\ Cardinality(s) \in Nat
                          /\ Cardinality(s) <= Cardinality(S)
  BY FS_Subset, FS_CardinalityType
<1>2. PICK T : T = {n \in Nat : ~ \E g \in [SUBSET S -> Int] : Good(n, g)}
  OBVIOUS
<1>3. T = {}
  <2>1. SUFFICES ASSUME T # {} PROVE FALSE
    OBVIOUS
  <2>2. PICK n \in T : \A m \in T : n <= m
    BY <1>2, <2>1, Least
  <2>3. n \in Nat /\ ~ \E g \in [SUBSET S -> Int] : Good(n, g)
    BY <1>2, <2>2
  <2>4. CASE n = 0
    <3>1. PICK g : g = [s \in SUBSET S |-> b]
      OBVIOUS
    <3>2. \A s \in Upto(0) : s = {}
      <4>1. ASSUME NEW s \in Upto(0) PROVE s = {}
        <5>1. Cardinality(s) = 0 /\ IsFiniteSet(s)
          BY <1>1
        <5> QED BY <5>1, FS_EmptySet
      <4> QED BY <4>1
    <3>3. Good(0, g)
      BY <3>1, <3>2
    <3>4. g \in [SUBSET S -> Int]
      BY <3>1
    <3> QED BY <2>3, <2>4, <3>3, <3>4
  <2>5. CASE n # 0
    <3>1. n - 1 \in Nat /\ n - 1 \notin T
      <4>1. n - 1 \in Nat /\ ~(n <= n - 1)
        BY <2>3, <2>5
      <4> QED BY <2>2, <4>1
    <3>2. PICK g \in [SUBSET S -> Int] : Good(n - 1, g)
      BY <1>2, <3>1
    <3> HIDE DEF Good
    <3>3. PICK h : h = [s \in SUBSET S |-> IF s = {} THEN b ELSE f[<<Pick(s), g[s \ {Pick(s)}]>>]]
      OBVIOUS
    <3>4. h \in [SUBSET S -> Int]
      <4>1. ASSUME NEW s \in SUBSET S, s # {} PROVE f[<<Pick(s), g[s \ {Pick(s)}]>>] \in Int
        <5>1. Pick(s) \in S /\ s \ {Pick(s)} \in SUBSET S
          BY <4>1, PickIs
        <5> QED BY <5>1
      <4> QED BY <3>3, <4>1
    <3>5. ASSUME NEW s \in Upto(n - 1) PROVE h[s] = g[s]
      <4>1. s \in SUBSET S
        OBVIOUS
      <4> QED BY <3>2, <3>3, <4>1 DEF Good
    <3> HIDE DEF Upto
    <3>6. ASSUME NEW s \in Upto(n), s # {} PROVE h[s \ {Pick(s)}] = g[s \ {Pick(s)}]
      <4>1. s \in SUBSET S /\ Cardinality(s) <= n /\ Pick(s) \in s /\ IsFiniteSet(s)
        BY <1>1, <3>6, PickIs DEF Upto
      <4>2. Cardinality(s \ {Pick(s)}) = Cardinality(s) - 1
        BY <4>1, FS_RemoveElement
      <4>3. s \ {Pick(s)} \in Upto(n - 1)
        BY <1>1, <2>3, <4>1, <4>2 DEF Upto
      <4> QED BY <3>5, <4>3
    <3>7. Good(n, h)
      <4>1. ASSUME NEW s \in Upto(n)
            PROVE  h[s] = IF s = {} THEN b ELSE f[<<Pick(s), h[s \ {Pick(s)}]>>]
        <5>1. s \in SUBSET S
          BY DEF Upto
        <5> QED BY <3>3, <3>6, <5>1
      <4> QED BY <4>1 DEF Good
    <3> QED BY <2>3, <3>4, <3>7
  <2> QED BY <2>4, <2>5
<1>4. Cardinality(S) \in Nat
  BY FS_CardinalityType
<1>5. PICK g \in [SUBSET S -> Int] : Good(Cardinality(S), g)
  BY <1>2, <1>3, <1>4
<1>6. Upto(Cardinality(S)) = SUBSET S
  BY <1>1
<1> HIDE DEF Upto
<1>7. \A s \in SUBSET S : g[s] = IF s = {} THEN b ELSE f[<<Pick(s), g[s \ {Pick(s)}]>>]
  BY <1>5, <1>6
<1>8. Table(g, f, b, S)
  <2>1. g = [s \in SUBSET S |-> g[s]]
    OBVIOUS
  <2> QED BY <1>7, <2>1 DEF Table
<1> QED BY <1>8

\* What MapThenSumSet computes: the table of the sums of f over the subsets of S.
Sums(g, f, S) == g = [s \in SUBSET S |-> IF s = {} THEN 0 ELSE f[Pick(s)] + g[s \ {Pick(s)}]]
SumTable(f, S) == CHOOSE g : Sums(g, f, S)

LEMMA SumTableIs ==
    ASSUME NEW S, IsFiniteSet(S), NEW f \in [S -> Int]
    PROVE  Sums(SumTable(f, S), f, S)
<1> DEFINE add == [p \in S \X Int |-> f[p[1]] + p[2]]
<1>1. add \in [S \X Int -> Int]
  OBVIOUS
<1>2. \A x \in S : \A v \in Int : add[<<x, v>>] = f[x] + v
  OBVIOUS
<1> HIDE DEF add
<1>3. PICK g \in [SUBSET S -> Int] : Table(g, add, 0, S)
  <2>1. 0 \in Int
    OBVIOUS
  <2> QED BY <1>1, <2>1, TableExists
<1>4. ASSUME NEW s \in SUBSET S, s # {}
      PROVE  add[<<Pick(s), g[s \ {Pick(s)}]>>] = f[Pick(s)] + g[s \ {Pick(s)}]
  <2>1. Pick(s) \in S /\ s \ {Pick(s)} \in SUBSET S
    BY <1>4, PickIs
  <2> QED BY <1>2, <2>1
<1>5. Sums(g, f, S)
  BY <1>3, <1>4 DEF Sums, Table
<1> QED BY <1>5 DEF SumTable

LEMMA SumStep ==
    \A S, f, g : Sums(g, f, S) => \A s \in SUBSET S : s # {} =>
      /\ Pick(s) \in s /\ s \ {Pick(s)} \in SUBSET S
      /\ g[s] = f[Pick(s)] + g[s \ {Pick(s)}]
<1> SUFFICES ASSUME NEW S, NEW f, NEW g, Sums(g, f, S), NEW s \in SUBSET S, s # {}
             PROVE  /\ Pick(s) \in s /\ s \ {Pick(s)} \in SUBSET S
                    /\ g[s] = f[Pick(s)] + g[s \ {Pick(s)}]
  OBVIOUS
<1>1. g[s] = f[Pick(s)] + g[s \ {Pick(s)}]
  BY DEF Sums
<1> QED BY <1>1, PickIs

LEMMA SumEmpty ==
    ASSUME NEW S, NEW f, NEW g, Sums(g, f, S)
    PROVE  g[{}] = 0
  BY DEF Sums

LEMMA SumInt ==
    ASSUME NEW S, IsFiniteSet(S), NEW f \in [S -> Int], NEW g, Sums(g, f, S)
    PROVE  \A s \in SUBSET S : g[s] \in Int
<1>1. PICK T : T = {s \in SUBSET S : g[s] \notin Int}
  OBVIOUS
<1>3. \A s \in SUBSET S : s # {} =>
             /\ Pick(s) \in s /\ s \ {Pick(s)} \in SUBSET S
             /\ g[s] = f[Pick(s)] + g[s \ {Pick(s)}]
  BY SumStep
<1>2. ASSUME T # {} PROVE FALSE
  <2>1. PICK s \in T : \A x \in s : s \ {x} \notin T
    BY <1>1, <1>2, Smallest
  <2>2. s \in SUBSET S /\ g[s] \notin Int
    BY <1>1
  <2>3. s # {}
    BY <2>2, SumEmpty
  <2>4. /\ Pick(s) \in s /\ s \ {Pick(s)} \in SUBSET S
        /\ g[s] = f[Pick(s)] + g[s \ {Pick(s)}]
    BY <1>3, <2>2, <2>3
  <2>5. g[s \ {Pick(s)}] \in Int
    BY <1>1, <2>1, <2>4
  <2>6. f[Pick(s)] \in Int
    BY <2>2, <2>4
  <2> QED BY <2>2, <2>4, <2>5, <2>6
<1> QED BY <1>1, <1>2

\* Two functions that differ at one place have sums that differ as much.
LEMMA SumShift ==
    ASSUME NEW S, IsFiniteSet(S), NEW f \in [S -> Int], NEW h \in [S -> Int], NEW u \in S,
           \A x \in S \ {u} : h[x] = f[x],
           NEW g, Sums(g, f, S), NEW k, Sums(k, h, S)
    PROVE  \A s \in SUBSET S : k[s] = g[s] + (IF u \in s THEN h[u] - f[u] ELSE 0)
<1>1. PICK T : T = {s \in SUBSET S : k[s] # g[s] + (IF u \in s THEN h[u] - f[u] ELSE 0)}
  OBVIOUS
<1>0. \A s \in SUBSET S : g[s] \in Int /\ k[s] \in Int
  BY SumInt
<1>3. \A s \in SUBSET S : s # {} =>
             /\ Pick(s) \in s /\ s \ {Pick(s)} \in SUBSET S
             /\ g[s] = f[Pick(s)] + g[s \ {Pick(s)}]
  BY SumStep
<1>4. \A s \in SUBSET S : s # {} =>
             /\ Pick(s) \in s /\ s \ {Pick(s)} \in SUBSET S
             /\ k[s] = h[Pick(s)] + k[s \ {Pick(s)}]
  <2>1. \A F, K : Sums(K, F, S) => \A s \in SUBSET S : s # {} =>
          /\ Pick(s) \in s /\ s \ {Pick(s)} \in SUBSET S
          /\ K[s] = F[Pick(s)] + K[s \ {Pick(s)}]
    BY SumStep
  <2>2. Sums(k, h, S)
    OBVIOUS
  <2> QED BY ONLY <2>1, <2>2
<1>2. ASSUME T # {} PROVE FALSE
  <2>1. PICK s \in T : \A x \in s : s \ {x} \notin T
    BY <1>1, <1>2, Smallest
  <2>2. s \in SUBSET S /\ k[s] # g[s] + (IF u \in s THEN h[u] - f[u] ELSE 0)
    BY <1>1
  <2>3. s # {}
    <3>1. g[{}] = 0 /\ k[{}] = 0
      BY SumEmpty
    <3> QED BY <2>2, <3>1
  <2> DEFINE p == Pick(s)
             r == s \ {p}
  <2>4. p \in s /\ r \in SUBSET S /\ g[s] = f[p] + g[r]
    BY <1>3, <2>2, <2>3
  <2>5. k[s] = h[p] + k[r]
    BY <1>4, <2>2, <2>3
  <2>6. k[r] = g[r] + (IF u \in r THEN h[u] - f[u] ELSE 0)
    BY <1>1, <2>1, <2>4
  <2>7. f[p] \in Int /\ h[p] \in Int /\ f[u] \in Int /\ h[u] \in Int /\ g[r] \in Int /\ k[r] \in Int
    BY <1>0, <2>2, <2>4
  <2>8. u \in r <=> u \in s /\ u # p
    OBVIOUS
  <2> HIDE DEF p, r
  <2>9. CASE p = u
    BY <2>2, <2>4, <2>5, <2>6, <2>7, <2>8, <2>9
  <2>10. CASE p # u
    <3>1. h[p] = f[p]
      BY <2>2, <2>4, <2>10
    <3> QED BY <2>2, <2>4, <2>5, <2>6, <2>7, <2>8, <2>10, <3>1
  <2> QED BY <2>9, <2>10
<1> QED BY <1>1, <1>2

\* A sum of natural numbers is at least as much as each of them.
LEMMA SumCovers ==
    ASSUME NEW S, IsFiniteSet(S), NEW f \in [S -> Nat], NEW g, Sums(g, f, S)
    PROVE  \A s \in SUBSET S : g[s] \in Nat /\ \A x \in s : f[x] <= g[s]
<1>1. PICK T : T = {s \in SUBSET S : ~ (g[s] \in Nat /\ \A x \in s : f[x] <= g[s])}
  OBVIOUS
<1>3. \A s \in SUBSET S : s # {} =>
             /\ Pick(s) \in s /\ s \ {Pick(s)} \in SUBSET S
             /\ g[s] = f[Pick(s)] + g[s \ {Pick(s)}]
  BY SumStep
<1>2. ASSUME T # {} PROVE FALSE
  <2>1. PICK s \in T : \A x \in s : s \ {x} \notin T
    BY <1>1, <1>2, Smallest
  <2>2. s \in SUBSET S /\ ~ (g[s] \in Nat /\ \A x \in s : f[x] <= g[s])
    BY <1>1
  <2>3. s # {}
    BY <2>2, SumEmpty
  <2> DEFINE p == Pick(s)
             r == s \ {p}
  <2>4. p \in s /\ r \in SUBSET S /\ g[s] = f[p] + g[r]
    BY <1>3, <2>2, <2>3
  <2>5. g[r] \in Nat /\ \A x \in r : f[x] <= g[r]
    BY <1>1, <2>1, <2>4
  <2>6. f[p] \in Nat /\ \A x \in s : f[x] \in Nat
    BY <2>2, <2>4
  <2>7. \A x \in s : x = p \/ x \in r
    OBVIOUS
  <2> HIDE DEF p, r
  <2> QED BY <2>2, <2>4, <2>5, <2>6, <2>7
<1> QED BY <1>1, <1>2

\* The sum of equal numbers is their number times one of them.
LEMMA SumConstant ==
    ASSUME NEW S, IsFiniteSet(S), NEW c \in Int, NEW f \in [S -> {c}], NEW g, Sums(g, f, S)
    PROVE  \A s \in SUBSET S : g[s] = Cardinality(s) * c
<1>1. PICK T : T = {s \in SUBSET S : g[s] # Cardinality(s) * c}
  OBVIOUS
<1>3. \A s \in SUBSET S : s # {} =>
             /\ Pick(s) \in s /\ s \ {Pick(s)} \in SUBSET S
             /\ g[s] = f[Pick(s)] + g[s \ {Pick(s)}]
  BY SumStep
<1>2. ASSUME T # {} PROVE FALSE
  <2>1. PICK s \in T : \A x \in s : s \ {x} \notin T
    BY <1>1, <1>2, Smallest
  <2>2. s \in SUBSET S /\ g[s] # Cardinality(s) * c
    BY <1>1
  <2>3. s # {}
    <3>1. Cardinality({}) = 0
      BY FS_EmptySet
    <3>2. g[{}] = 0
      BY SumEmpty
    <3> QED BY <2>2, <3>1, <3>2
  <2> DEFINE p == Pick(s)
             r == s \ {p}
             n == Cardinality(s)
  <2>4. p \in s /\ r \in SUBSET S /\ g[s] = f[p] + g[r]
    BY <1>3, <2>2, <2>3
  <2>5. g[r] = Cardinality(r) * c
    BY <1>1, <2>1, <2>4
  <2>6. IsFiniteSet(s) /\ n \in Nat
    BY <2>2, FS_Subset, FS_CardinalityType
  <2>7. Cardinality(r) = n - 1
    BY <2>4, <2>6, FS_RemoveElement
  <2>8. f[p] = c
    BY <2>2, <2>4
  <2> HIDE DEF p, r, n
  <2>9. c + (n - 1) * c = n * c
    BY <2>6
  <2> QED BY <2>2, <2>4, <2>5, <2>7, <2>8, <2>9 DEF n
<1> QED BY <1>1, <1>2

LEMMA ThreadsFinite == IsFiniteSet(Threads) /\ Cardinality(Threads) = NProc
<1>1. NProc \in Nat /\ NProc > 1
  BY SizesAssumption
<1> QED BY <1>1, FS_Interval DEF Threads

LEMMA TotalIs ==
    ASSUME NEW f
    PROVE  Total(f) = SumTable(f, Threads)[Threads]
  BY DEF Total, MapThenSumSet, MapThenFoldSet, SumTable, Sums, Pick

\* The sum over the threads follows the change of one of them.
LEMMA TotalShift ==
    ASSUME NEW f \in [Threads -> Int], NEW h \in [Threads -> Int], NEW u \in Threads,
           \A x \in Threads \ {u} : h[x] = f[x]
    PROVE  Total(f) \in Int /\ Total(h) = Total(f) + h[u] - f[u]
<1>1. Sums(SumTable(f, Threads), f, Threads) /\ Sums(SumTable(h, Threads), h, Threads)
  BY ThreadsFinite, SumTableIs
<1>2. \A s \in SUBSET Threads : SumTable(h, Threads)[s] =
         SumTable(f, Threads)[s] + (IF u \in s THEN h[u] - f[u] ELSE 0)
  BY <1>1, ThreadsFinite, SumShift
<1>3. SumTable(f, Threads)[Threads] \in Int
  BY <1>1, ThreadsFinite, SumInt
<1>4. Total(h) = Total(f) + (h[u] - f[u])
  BY <1>2, TotalIs
<1>5. Total(f) \in Int
  BY <1>3, TotalIs
<1> QED BY <1>4, <1>5

LEMMA TotalCovers ==
    ASSUME NEW f \in [Threads -> Nat]
    PROVE  Total(f) \in Nat /\ \A t \in Threads : f[t] <= Total(f)
<1>1. f \in [Threads -> Int]
  OBVIOUS
<1>2. Sums(SumTable(f, Threads), f, Threads)
  BY <1>1, ThreadsFinite, SumTableIs
<1>3. /\ SumTable(f, Threads)[Threads] \in Nat
      /\ \A t \in Threads : f[t] <= SumTable(f, Threads)[Threads]
  BY <1>2, ThreadsFinite, SumCovers
<1> QED BY <1>3, TotalIs

LEMMA TotalZero ==
    ASSUME NEW f \in [Threads -> {0}]
    PROVE  Total(f) = 0
<1>1. f \in [Threads -> Int]
  OBVIOUS
<1>2. Sums(SumTable(f, Threads), f, Threads)
  BY <1>1, ThreadsFinite, SumTableIs
<1>3. SumTable(f, Threads)[Threads] = Cardinality(Threads) * 0
  <2>1. \A s \in SUBSET Threads : SumTable(f, Threads)[s] = Cardinality(s) * 0
    BY <1>2, ThreadsFinite, SumConstant
  <2> QED BY <2>1
<1>4. Cardinality(Threads) \in Nat
  BY ThreadsFinite, SizesAssumption
<1> QED BY <1>3, <1>4, TotalIs

\* The product of the rates.
Multiplied(g) == g = [s \in SUBSET Rates |-> IF s = {} THEN 1 ELSE Pick(s) * g[s \ {Pick(s)}]]
ProductTable == CHOOSE g : Multiplied(g)

LEMMA AllRatesTable == AllRates = ProductTable[Rates]
  BY DEF AllRates, ProductSet, FoldSet, MapThenFoldSet, ProductTable, Multiplied, Pick

LEMMA ProductTableIs == Multiplied(ProductTable)
<1> DEFINE times == [p \in Rates \X Int |-> p[1] * p[2]]
<1>0. Rates \subseteq Int /\ IsFiniteSet(Rates)
  BY DataAssumption
<1>1. times \in [Rates \X Int -> Int]
  <2>1. ASSUME NEW p \in Rates \X Int PROVE p[1] * p[2] \in Int
    <3>1. p[1] \in Int /\ p[2] \in Int
      BY <1>0
    <3>2. \A a, b \in Int : a * b \in Int
      OBVIOUS
    <3> QED BY <3>1, <3>2
  <2> QED BY <2>1
<1>2. \A x \in Rates : \A v \in Int : times[<<x, v>>] = x * v
  OBVIOUS
<1> HIDE DEF times
<1>3. PICK g \in [SUBSET Rates -> Int] : Table(g, times, 1, Rates)
  <2>1. 1 \in Int
    OBVIOUS
  <2> QED BY <1>0, <1>1, <2>1, TableExists
<1>4. ASSUME NEW s \in SUBSET Rates, s # {}
      PROVE  times[<<Pick(s), g[s \ {Pick(s)}]>>] = Pick(s) * g[s \ {Pick(s)}]
  <2>1. Pick(s) \in Rates /\ s \ {Pick(s)} \in SUBSET Rates
    BY <1>4, PickIs
  <2> QED BY <1>2, <2>1
<1>5. Multiplied(g)
  BY <1>3, <1>4 DEF Multiplied, Table
<1> QED BY <1>5 DEF ProductTable

LEMMA Commute == \A a, b, c \in Int : a * (b * c) = b * (a * c)
  OBVIOUS

\* Each rate divides it.
LEMMA Divides ==
    \A s \in SUBSET Rates : /\ ProductTable[s] \in Nat \ {0}
                            /\ \A r \in s : \E k \in Nat \ {0} : ProductTable[s] = r * k
<1> DEFINE g == ProductTable
           Right(s) == g[s] \in Nat \ {0} /\ \A r \in s : \E k \in Nat \ {0} : g[s] = r * k
<1>0. Rates \subseteq Nat \ {0} /\ IsFiniteSet(Rates)
  BY DataAssumption
<1>1. PICK T : T = {s \in SUBSET Rates : ~ Right(s)}
  OBVIOUS
<1>3. /\ g[{}] = 1
      /\ \A s \in SUBSET Rates : s # {} =>
           Pick(s) \in s /\ s \ {Pick(s)} \in SUBSET Rates /\ g[s] = Pick(s) * g[s \ {Pick(s)}]
  <2>1. g[{}] = 1
    BY ProductTableIs DEF Multiplied
  <2>2. ASSUME NEW s \in SUBSET Rates, s # {} PROVE g[s] = Pick(s) * g[s \ {Pick(s)}]
    BY <2>2, ProductTableIs DEF Multiplied
  <2>3. \A s \in SUBSET Rates : s # {} => Pick(s) \in s /\ s \ {Pick(s)} \in SUBSET Rates
    BY PickIs
  <2> QED BY <2>1, <2>2, <2>3
<1>2. ASSUME T # {} PROVE FALSE
  <2>0. T \in SUBSET (SUBSET Rates) /\ T # {}
    BY <1>1, <1>2
  <2>1. PICK s \in T : \A x \in s : s \ {x} \notin T
    <3>1. IsFiniteSet(Rates)
      BY <1>0
    <3> QED BY <2>0, <3>1, Smallest
  <2>2. s \in SUBSET Rates /\ ~Right(s)
    BY <1>1
  <2>3. s # {}
    <3>1. ASSUME s = {} PROVE Right(s)
      <4>1. g[s] = 1
        BY <1>3, <3>1
      <4>2. 1 \in Nat \ {0}
        OBVIOUS
      <4>3. \A x \in s : \E k \in Nat \ {0} : g[s] = x * k
        BY <3>1
      <4> QED BY <4>1, <4>2, <4>3
    <3> QED BY <2>2, <3>1
  <2> DEFINE p == Pick(s)
             r == s \ {p}
  <2> HIDE DEF g
  <2>4. p \in s /\ r \in SUBSET Rates /\ g[s] = p * g[r]
    BY <1>3, <2>2, <2>3
  <2>5. Right(r)
    BY <1>1, <2>1, <2>4
  <2>6. p \in Nat \ {0}
    BY <1>0, <2>2, <2>4
  <2>7. g[s] \in Nat \ {0}
    <3>1. g[r] \in Nat \ {0}
      BY <2>5
    <3>2. \A a, b \in Nat \ {0} : a * b \in Nat \ {0}
      OBVIOUS
    <3> HIDE DEF p, r
    <3> QED BY <2>4, <2>6, <3>1, <3>2
  <2>8. ASSUME NEW x \in s PROVE \E k \in Nat \ {0} : g[s] = x * k
    <3>1. CASE x = p
      BY <2>4, <2>5, <3>1
    <3>2. CASE x # p
      <4>1. x \in r /\ x \in Nat \ {0}
        BY <1>0, <2>2, <3>2
      <4>2. PICK k \in Nat \ {0} : g[r] = x * k
        BY <2>5, <4>1
      <4> HIDE DEF p, r
      <4>3. p * (x * k) = x * (p * k) /\ p * k \in Nat \ {0}
        <5>1. p * (x * k) = x * (p * k)
          BY <2>6, <4>1, Commute
        <5>2. \A a, b \in Nat \ {0} : a * b \in Nat \ {0}
          OBVIOUS
        <5> QED BY <2>6, <5>1, <5>2
      <4> QED BY <2>4, <4>2, <4>3
    <3> QED BY <3>1, <3>2
  <2> QED BY <2>2, <2>7, <2>8
<1> QED BY <1>1, <1>2

LEMMA Exact == \A r, k \in Nat \ {0} : (r * k) \div r = k
<1>1. \A r, k \in Nat \ {0} : \A q \in Int : q * r <= r * k /\ r * k < (q + 1) * r => q = k
  OBVIOUS
<1> QED BY <1>1

\* What AllRates divided by a rate gives.
LEMMA RateShare ==
    ASSUME NEW r \in Rates
    PROVE  /\ AllRates \in Nat \ {0} /\ AllRates \div r \in Nat \ {0}
           /\ r * (AllRates \div r) = AllRates /\ r \in Nat \ {0}
<1>1. AllRates \in Nat \ {0} /\ \E k \in Nat \ {0} : AllRates = r * k
  BY Divides, AllRatesTable
<1>2. PICK k \in Nat \ {0} : AllRates = r * k
  BY <1>1
<1>3. r \in Nat \ {0}
  BY DataAssumption
<1>4. (r * k) \div r = k
  BY <1>3, Exact
<1> QED BY <1>1, <1>2, <1>3, <1>4

ScaleTable(seen) ==
    CHOOSE g : g = [s \in SUBSET {i \in Threads : seen[i] # 0} |->
                      IF s = {} THEN 0 ELSE (AllRates \div seen[Pick(s)]) + g[s \ {Pick(s)}]]

LEMMA ScaleFolds ==
    ASSUME NEW seen
    PROVE  Scale(seen) = ScaleTable(seen)[{i \in Threads : seen[i] # 0}]
  BY DEF Scale, MapThenSumSet, MapThenFoldSet, ScaleTable, Pick

\* The scale is the sum of the shares of the threads that have measured.
LEMMA ScaleIs ==
    ASSUME NEW seen \in [Threads -> Rates \cup {0}], NEW K, K = {i \in Threads : seen[i] # 0},
           NEW share, share = [i \in K |-> AllRates \div seen[i]]
    PROVE  /\ IsFiniteSet(K) /\ share \in [K -> Nat \ {0}]
           /\ Sums(ScaleTable(seen), share, K) /\ Scale(seen) = ScaleTable(seen)[K]
<1>1. IsFiniteSet(K)
  BY ThreadsFinite, FS_Subset
<1>2. share \in [K -> Nat \ {0}]
  <2>1. ASSUME NEW i \in K PROVE AllRates \div seen[i] \in Nat \ {0}
    <3>1. seen[i] \in Rates
      OBVIOUS
    <3> QED BY <3>1, RateShare
  <2> QED BY <2>1
<1>3. share \in [K -> Int]
  BY <1>2
<1>4. Sums(SumTable(share, K), share, K)
  BY <1>1, <1>3, SumTableIs
<1> DEFINE ToScale(g) == g = [s \in SUBSET K |->
              IF s = {} THEN 0 ELSE (AllRates \div seen[Pick(s)]) + g[s \ {Pick(s)}]]
<1>5. ASSUME NEW g PROVE ToScale(g) <=> Sums(g, share, K)
  <2>1. ASSUME NEW s \in SUBSET K, s # {} PROVE share[Pick(s)] = AllRates \div seen[Pick(s)]
    <3>1. Pick(s) \in K
      BY <2>1, PickIs
    <3> QED BY <3>1
  <2>2. [s \in SUBSET K |-> IF s = {} THEN 0 ELSE share[Pick(s)] + g[s \ {Pick(s)}]]
          = [s \in SUBSET K |->
               IF s = {} THEN 0 ELSE (AllRates \div seen[Pick(s)]) + g[s \ {Pick(s)}]]
    BY <2>1
  <2> QED BY <2>2 DEF Sums
<1>6. ScaleTable(seen) = CHOOSE g : ToScale(g)
  BY DEF ScaleTable
<1>7. ToScale(SumTable(share, K))
  BY <1>4, <1>5
<1> HIDE DEF ToScale
<1>8. ToScale(ScaleTable(seen))
  BY <1>6, <1>7
<1>9. Sums(ScaleTable(seen), share, K)
  BY <1>5, <1>8
<1> QED BY <1>1, <1>2, <1>9, ScaleFolds

LEMMA ScalePositive ==
    ASSUME NEW seen \in [Threads -> Rates \cup {0}], NEW t \in Threads, seen[t] # 0
    PROVE  Scale(seen) \in Nat \ {0}
<1>1. PICK K : K = {i \in Threads : seen[i] # 0}
  OBVIOUS
<1>2. PICK share : share = [i \in K |-> AllRates \div seen[i]]
  OBVIOUS
<1>3. /\ IsFiniteSet(K) /\ share \in [K -> Nat \ {0}]
      /\ Sums(ScaleTable(seen), share, K) /\ Scale(seen) = ScaleTable(seen)[K]
  BY <1>1, <1>2, ScaleIs
<1>4. share \in [K -> Nat] /\ t \in K /\ share[t] \in Nat \ {0}
  BY <1>1, <1>3
<1>5. ScaleTable(seen)[K] \in Nat /\ share[t] <= ScaleTable(seen)[K]
  BY <1>3, <1>4, SumCovers
<1> QED BY <1>3, <1>4, <1>5

LEMMA KnownIs ==
    ASSUME NEW seen, NEW t \in Threads, seen[t] # 0
    PROVE  /\ Known(seen, t) = Cardinality({i \in Threads : seen[i] # 0})
           /\ Known(seen, t) \in Nat \ {0}
<1>1. PICK K : K = {i \in Threads : seen[i] # 0}
  OBVIOUS
<1>2. IsFiniteSet(K) /\ t \in K
  BY <1>1, ThreadsFinite, FS_Subset
<1>3. {i \in Threads \ {t} : seen[i] # 0} = K \ {t}
  BY <1>1
<1>4. Cardinality(K) \in Nat /\ Cardinality(K \ {t}) = Cardinality(K) - 1 /\ Cardinality(K \ {t}) \in Nat
  BY <1>2, FS_RemoveElement, FS_CardinalityType
<1>5. Known(seen, t) = 1 + (Cardinality(K) - 1)
  BY <1>3, <1>4 DEF Known
<1> QED BY <1>1, <1>4, <1>5

LEMMA Regroup == \A r, n, q \in Int : r * (n * q) = n * (r * q)
  OBVIOUS
LEMMA Associate == \A b, n, a \in Int : (b * n) * a = b * (n * a)
  OBVIOUS
LEMMA RoundsUp == \A b \in Int : \A m \in Nat \ {0} : CeilDiv(b * m, m) = b
<1>1. ASSUME NEW b \in Int, NEW m \in Nat \ {0} PROVE (b * m + m - 1) \div m = b
  <2>1. b * m \in Int
    OBVIOUS
  <2>2. \A q \in Int : q * m <= b * m + m - 1 /\ b * m + m - 1 < (q + 1) * m => q = b
    OBVIOUS
  <2> QED BY <2>1, <2>2
<1> QED BY <1>1 DEF CeilDiv

\* A thread that knows only rates equal to its own has weight one.
LEMMA EqualWeight ==
    ASSUME NEW base \in Int, NEW t \in Threads, NEW seen \in [Threads -> Rates \cup {0}],
           seen[t] # 0, \A i \in Threads : seen[i] \in {0, seen[t]}
    PROVE  Weighted(base, seen, t) = base
<1>1. PICK K : K = {i \in Threads : seen[i] # 0}
  OBVIOUS
<1>2. PICK share : share = [i \in K |-> AllRates \div seen[i]]
  OBVIOUS
<1> DEFINE r == seen[t]
           q == AllRates \div seen[t]
           n == Cardinality(K)
<1>3. /\ IsFiniteSet(K) /\ share \in [K -> Nat \ {0}]
      /\ Sums(ScaleTable(seen), share, K) /\ Scale(seen) = ScaleTable(seen)[K]
  BY <1>1, <1>2, ScaleIs
<1>4. r \in Nat \ {0} /\ q \in Nat \ {0} /\ AllRates \in Nat \ {0} /\ r * q = AllRates
  <2>1. r \in Rates
    OBVIOUS
  <2> QED BY <2>1, RateShare
<1>5. share \in [K -> {q}]
  BY <1>1, <1>2
<1>6. ScaleTable(seen)[K] = Cardinality(K) * q
  <2>1. q \in Int /\ K \in SUBSET K
    BY <1>4
  <2> HIDE DEF q
  <2> QED BY <1>3, <1>5, <2>1, SumConstant
<1>7. Known(seen, t) = n /\ n \in Nat \ {0}
  BY <1>1, KnownIs
<1> HIDE DEF r, q, n
<1>8. Scale(seen) = n * q
  BY <1>3, <1>6 DEF n
<1>9. r * (n * q) = n * AllRates /\ n * AllRates \in Nat \ {0}
  <2>1. r * (n * q) = n * (r * q)
    BY <1>4, <1>7, Regroup
  <2>2. \A a, b \in Nat \ {0} : a * b \in Nat \ {0}
    OBVIOUS
  <2> QED BY <1>4, <1>7, <2>1, <2>2
<1>10. (base * n) * AllRates = base * (n * AllRates)
  BY <1>4, <1>7, Associate
<1>11. CeilDiv(base * (n * AllRates), n * AllRates) = base
  BY <1>9, RoundsUp
<1> QED BY <1>7, <1>8, <1>9, <1>10, <1>11 DEF Weighted, r

LEMMA PowerOfTwo ==
    ASSUME NEW i \in Nat
    PROVE  2 ^ i \in Nat \ {0}
<1>1. IsFiniteSet(1 .. i) /\ Cardinality(1 .. i) = i
  BY FS_Interval
<1>2. IsFiniteSet(SUBSET (1 .. i)) /\ Cardinality(SUBSET (1 .. i)) = 2 ^ i
  BY <1>1, FS_SUBSET
<1>3. 2 ^ i \in Nat /\ (2 ^ i = 0 <=> SUBSET (1 .. i) = {})
  BY <1>2, FS_CardinalityType, FS_EmptySet
<1>4. {} \in SUBSET (1 .. i)
  OBVIOUS
<1> QED BY <1>3, <1>4
---------------------------------------------------------------------------
(***************************************************************************)
(* Sizes.                                                                  *)
(***************************************************************************)
LEMMA Parameters ==
    /\ NProc \in Nat /\ NProc > 1 /\ Steps \in Nat /\ Steps > 0 /\ 0 \in Threads
    /\ \A n \in Trips : n \in Nat /\ n > 0
    /\ \A n \in MinChunks : n \in Nat /\ n > 0
    /\ \A n \in Rates : n \in Nat /\ n > 0
    /\ \A n \in Weights : n \in Nat /\ n > 0
    /\ Divider \in Nat /\ Divider > 0 /\ FirstChunk \in Nat /\ FirstChunk >= Divider
    /\ Mu \in Nat /\ Mu > 0 /\ Overhead \in Nat
  BY SizesAssumption, DataAssumption DEF Threads

LEMMA Quotient == \A a \in Int, b \in Nat \ {0} : a \div b \in Int /\ CeilDiv(a, b) \in Int
  BY DEF CeilDiv

LEMMA Products == \A a, b \in Nat \ {0} : a * b \in Nat \ {0}
  OBVIOUS

\* At least the minimum chunk.
LEMMA AtLeastPositive ==
    ASSUME NEW a \in Int, NEW b \in Nat, b > 0
    PROVE  AtLeast(a, b) \in Nat /\ AtLeast(a, b) > 0
  BY DEF AtLeast

LEMMA FirstSizeInt == trip \in Trips => FirstSize \in Int
<1>1. 2 * NProc \in Nat \ {0}
  BY Parameters
<1> QED BY <1>1, Quotient, Parameters DEF FirstSize

\* The base of AWF is a number.
LEMMA BaseInt ==
    ASSUME trip \in Trips, NEW t \in Threads, local[t].number \in Nat, NEW remaining \in Int
    PROVE  Base(t, remaining) \in Int
<1>1. FirstSize \in Int
  BY FirstSizeInt
<1>2. CeilDiv(remaining, 2 * NProc) \in Int
  <2>1. 2 * NProc \in Nat \ {0}
    BY Parameters
  <2> QED BY <2>1, Quotient
<1>3. CeilDiv(FirstSize, 2 ^ Halvings(local[t].number \div NProc)) \in Int
  <2>1. local[t].number \div NProc \in Nat
    BY Parameters
  <2>2. Halvings(local[t].number \div NProc) \in 0 .. trip
    BY <2>1, Parameters DEF Halvings
  <2>3. 2 ^ Halvings(local[t].number \div NProc) \in Nat \ {0}
    BY <2>2, PowerOfTwo, Parameters
  <2> QED BY <2>3, <1>1, Quotient
<1> QED BY <1>1, <1>2, <1>3 DEF Base

\* So is a weighted base, once the thread has measured its rate.
LEMMA WeightedInt ==
    ASSUME NEW base \in Int, NEW t \in Threads,
           NEW seen \in [Threads -> Rates \cup {0}], seen[t] # 0
    PROVE  Weighted(base, seen, t) \in Int
<1>1. Known(seen, t) \in Int
  <2>1. IsFiniteSet(Threads)
    BY FS_Interval, Parameters DEF Threads
  <2>2. IsFiniteSet({i \in Threads \ {t} : seen[i] # 0})
    BY <2>1, FS_Subset
  <2>3. Cardinality({i \in Threads \ {t} : seen[i] # 0}) \in Nat
    BY <2>2, FS_CardinalityType
  <2> QED BY <2>3 DEF Known
<1>2. AllRates \in Int /\ Scale(seen) \in Nat \ {0}
  <2>1. seen[t] \in Rates
    OBVIOUS
  <2> QED BY <2>1, RateShare, ScalePositive
<1>3. seen[t] \in Nat \ {0}
  BY Parameters
<1>4. seen[t] * Scale(seen) \in Nat \ {0}
  BY <1>2, <1>3, Products
<1>5. base * Known(seen, t) * AllRates \in Int
  BY <1>1, <1>2
<1> QED BY <1>4, <1>5, Quotient DEF Weighted

\* Every size that a thread computes is positive.
LEMMA ComputedFacts ==
    ASSUME Typed, Measured, NEW t \in Threads, pc[t] = "read",
           NEW remaining \in Nat, remaining > 0, NEW c \in Computed(t, remaining)
    PROVE  c.size \in Nat /\ c.size > 0 /\ c.chunk \in Nat
<1> DEFINE base == Base(t, remaining)
           plain(sizes) == {[chunk |-> 0, size |-> AtLeast(s, minChunk)] : s \in sizes}
           cut(n) == IF n >= Divider THEN n \div Divider ELSE n
<1>0. pr[t] \in PrivateType /\ local[t] \in LocalType /\ trip \in Nat /\ minChunk \in Nat /\ minChunk > 0
  BY Parameters DEF Typed, LoopTyped, ThreadsTyped
<1>1. base \in Int
  <2>1. local[t].number \in Nat /\ trip \in Trips
    BY <1>0 DEF LocalType, Typed, LoopTyped
  <2> QED BY <2>1, BaseInt
<1> HIDE DEF base
<1>2. ASSUME NEW sizes \in SUBSET Int, c \in plain(sizes)
      PROVE  c.size \in Nat /\ c.size > 0 /\ c.chunk \in Nat
  <2>1. PICK s \in sizes : c = [chunk |-> 0, size |-> AtLeast(s, minChunk)]
    BY <1>2
  <2>2. AtLeast(s, minChunk) \in Nat /\ AtLeast(s, minChunk) > 0
    BY <1>0, AtLeastPositive
  <2> QED BY <2>1, <2>2
<1> HIDE DEF plain
<1>3. CASE schedule = "awf"
  <2> DEFINE size == IF pr[t].weight = NaN THEN 0 ELSE CeilDiv(pr[t].weight * base, 2)
  <2>1. pr[t].weight \in Int
    BY <1>0, Parameters DEF PrivateType, NaN
  <2>2. pr[t].weight * base \in Int
    BY <2>1, <1>1
  <2>3. size \in Int
    BY <2>2, Quotient
  <2>4. c \in plain({size})
    <3>1. schedule \notin Rated \cup Factoring \cup {"bold"}
      BY <1>3 DEF Rated, Batched, Chunked, Factoring
    <3>2. Computed(t, remaining) = plain({size})
      BY <1>3, <3>1 DEF Computed, base, plain
    <3> QED BY <3>2
  <2> HIDE DEF size
  <2> QED BY <2>3, <2>4, <1>2
<1>4. CASE schedule \in Rated
  <2> DEFINE size == IF pr[t].taken = 0 THEN base ELSE Weighted(base, local[t].seen, t)
  <2>1. size \in Int
    <3>1. CASE pr[t].taken = 0
      BY <3>1, <1>1
    <3>2. CASE pr[t].taken # 0
      <4>1. local[t].seen[t] # 0
        BY <3>2, <1>0, <1>4 DEF Measured, PrivateType
      <4>2. local[t].seen \in [Threads -> Rates \cup {0}]
        BY <1>0 DEF LocalType
      <4>3. Weighted(base, local[t].seen, t) \in Int
        BY <4>1, <4>2, <1>1, WeightedInt
      <4> QED BY <3>2, <4>3
    <3> QED BY <3>1, <3>2
  <2>2. c \in plain({size})
    <3>1. schedule # "awf" /\ schedule # "bold" /\ schedule \notin Factoring
      BY <1>4 DEF Rated, Batched, Chunked, Factoring
    <3>2. Computed(t, remaining) = plain({size})
      BY <1>4, <3>1 DEF Computed, base, plain
    <3> QED BY <3>2
  <2> HIDE DEF size
  <2> QED BY <2>1, <2>2, <1>2
<1>5. CASE schedule = "bold"
  <2>1. c \in plain(IF remaining <= NProc THEN {1} ELSE 0 .. trip)
    <3>1. schedule # "awf" /\ schedule \notin Rated /\ schedule \notin Factoring
      BY <1>5 DEF Rated, Batched, Chunked, Factoring
    <3>2. Computed(t, remaining) = plain(IF remaining <= NProc THEN {1} ELSE 0 .. trip)
      BY <1>5, <3>1 DEF Computed, plain
    <3> QED BY <3>2
  <2>2. (IF remaining <= NProc THEN {1} ELSE 0 .. trip) \in SUBSET Int
    BY <1>0
  <2> HIDE DEF plain
  <2> QED BY <2>1, <2>2, <1>2
<1>6. CASE schedule \in Factoring /\ Finished(t)
  <2>1. PICK n \in 1 .. remaining : c = [chunk |-> n, size |-> AtLeast(cut(n), minChunk)]
    BY <1>6 DEF Computed, Factoring, Rated, Batched, Chunked
  <2>2. cut(n) \in Int
    BY Parameters, Quotient
  <2>3. AtLeast(cut(n), minChunk) \in Nat /\ AtLeast(cut(n), minChunk) > 0
    BY <2>2, <1>0, AtLeastPositive
  <2> HIDE DEF cut
  <2> QED BY <2>1, <2>3
<1>7. CASE schedule \in Factoring /\ ~Finished(t)
  <2>1. c = [chunk |-> pr[t].size, size |-> SubChunk(t)]
    BY <1>7 DEF Computed, Factoring, Rated, Batched, Chunked
  <2>2. pr[t].sub \in Nat /\ pr[t].sub > 0 /\ pr[t].remaining \in Int /\ pr[t].size \in Nat
    BY <1>0 DEF PrivateType
  <2>3. SubChunk(t) \in Nat /\ SubChunk(t) > 0
    BY <2>2 DEF SubChunk
  <2> QED BY <2>1, <2>2, <2>3
<1> QED BY <1>3, <1>4, <1>5, <1>6, <1>7, SizesAssumption DEF Typed, LoopTyped
---------------------------------------------------------------------------
(***************************************************************************)
(* The invariant is inductive.                                             *)
(***************************************************************************)
LEMMA PrivateTyped == NewPrivate \in PrivateType
<1>1. FirstChunk \div Divider \in Nat \ {0}
  <2>1. ASSUME NEW a \in Nat, NEW b \in Nat, b > 0, a >= b PROVE a \div b \in Nat \ {0}
    BY <2>1
  <2> QED BY <2>1, Parameters
<1> QED BY <1>1, Parameters DEF NewPrivate, PrivateType

LEMMA LocalTyped == NoLocal \in LocalType
  BY Parameters DEF NoLocal, LocalType

LEMMA InvInit == Init => IInv
<1> SUFFICES ASSUME Init PROVE IInv
  OBVIOUS
<1>1. trip \in Nat /\ trip > 0 /\ Steps \in Nat /\ Steps > 0
  BY Parameters DEF Init
<1>2. data \in DataType
  BY DEF Init, NoRecord, DataType
<1>3. Typed
  BY <1>1, <1>2, PrivateTyped, LocalTyped
     DEF Init, Typed, LoopTyped, ThreadsTyped, Places
<1>4. Measured /\ Sized /\ Exhausted
  BY DEF Init, Measured, Sized, Exhausted
<1>5. Counted
  BY <1>1 DEF Init, Counted, Executions, Iterations
<1>6. InStep
  BY <1>1 DEF Init, InStep
<1> QED BY <1>3, <1>4, <1>5, <1>6 DEF IInv

\* A step of t that neither takes a chunk nor learns that none is left.
LEMMA Quiet ==
    ASSUME IInv, NEW t \in Threads,
           NEW q \in Places \ {"account", "reset", "update", "barrier", "end", "cas"},
           UNCHANGED <<loop, step, left, iteration, given>>,
           pc[t] \notin {"barrier", "end"}, pc' = [pc EXCEPT ![t] = q],
           counter' \in Nat, rates' \in [Threads -> Rates \cup {0}], data' \in DataType,
           pr' \in [Threads -> PrivateType], local' \in [Threads -> LocalType],
           \A u \in Threads \ {t} : pr'[u] = pr[u] /\ local'[u] = local[u],
           (schedule \in Rated /\ pr'[t].taken > 0 /\ q \in {"gather", "slow", "read"})
              => local'[t].seen[t] # 0
    PROVE  IInv'
<1>0. /\ schedule' = schedule /\ trip' = trip /\ minChunk' = minChunk /\ step' = step
      /\ left' = left /\ iteration' = iteration /\ given' = given
  BY DEF loop
<1>1. pc \in [Threads -> Places] /\ pc' \in [Threads -> Places] /\ pc'[t] = q
      /\ \A u \in Threads \ {t} : pc'[u] = pc[u]
  BY DEF IInv, Typed, ThreadsTyped
<1>2. Typed'
  BY <1>0, <1>1 DEF IInv, Typed, LoopTyped, ThreadsTyped, Iterations
<1>3. Measured'
  BY <1>0, <1>1 DEF IInv, Measured
<1>4. Sized'
  BY <1>1 DEF IInv, Sized
<1>5. Counted'
  BY <1>0 DEF IInv, Counted, Iterations
<1>6. Exhausted'
  BY <1>0, <1>1 DEF IInv, Exhausted
<1>7. InStep'
  BY <1>0, <1>1 DEF IInv, InStep
<1> QED BY <1>2, <1>3, <1>4, <1>5, <1>6, <1>7 DEF IInv

\* What holds of a thread between two steps.
LEMMA ThreadFacts ==
    ASSUME IInv, NEW t \in Threads
    PROVE  /\ pr[t] \in PrivateType /\ local[t] \in LocalType /\ data \in DataType
           /\ pr \in [Threads -> PrivateType] /\ local \in [Threads -> LocalType]
           /\ rates \in [Threads -> Rates \cup {0}] /\ counter \in Nat /\ iteration \in Nat
           /\ trip \in Nat /\ trip > 0 /\ step \in 0 .. Steps /\ minChunk \in Nat
  BY Parameters DEF IInv, Typed, LoopTyped, ThreadsTyped

\* Entering the loop, and the record of AWF.
LEMMA EnterKeeps ==
    ASSUME IInv, NEW t \in Threads, Enter(t) \/ AwfEnter(t) \/ AwfRecord(t) \/ AwfOpen(t) \/ AwfWeigh(t)
    PROVE  IInv'
<1>0. /\ pr \in [Threads -> PrivateType] /\ local \in [Threads -> LocalType] /\ data \in DataType
      /\ rates \in [Threads -> Rates \cup {0}] /\ counter \in Nat
  BY ThreadFacts
<1>1. CASE Enter(t)
  <2>1. pr' = [pr EXCEPT ![t] = NewPrivate]
    BY <1>1 DEF Enter
  <2>2. pr' \in [Threads -> PrivateType] /\ \A u \in Threads \ {t} : pr'[u] = pr[u]
    BY <2>1, <1>0, PrivateTyped
  <2>3. "next" \in Places \ {"account", "reset", "update", "barrier", "end", "cas"}
    BY DEF Places
  <2> QED BY <1>0, <1>1, <2>2, <2>3, Quiet DEF Enter, Go
<1>2. CASE AwfEnter(t)
  <2>1. \A q \in {"record", "wait"} :
          q \in Places \ {"account", "reset", "update", "barrier", "end", "cas"}
    BY DEF Places
  <2>2. PICK q \in {"record", "wait"} : pc' = [pc EXCEPT ![t] = q]
    BY <1>2 DEF AwfEnter, Go
  <2> QED BY <1>0, <1>2, <2>1, <2>2, Quiet DEF AwfEnter
<1>3. CASE AwfRecord(t)
  <2>1. data' = [data EXCEPT !.timeStep = data.timeStep + 1]
    BY <1>3 DEF AwfRecord
  <2>2. data' \in DataType
    BY <2>1, <1>0 DEF DataType
  <2>3. "open" \in Places \ {"account", "reset", "update", "barrier", "end", "cas"}
    BY DEF Places
  <2> QED BY <1>0, <1>3, <2>2, <2>3, Quiet DEF AwfRecord, Go
<1>4. CASE AwfOpen(t)
  <2>1. "weigh" \in Places \ {"account", "reset", "update", "barrier", "end", "cas"}
    BY DEF Places
  <2> QED BY <1>0, <1>4, <2>1, Quiet DEF AwfOpen, Go
<1>5. CASE AwfWeigh(t)
  <2> DEFINE new == [NewPrivate EXCEPT !.weight = data.weights[t]]
  <2>1. data.weights[t] \in Weights \cup {2, NaN}
    BY <1>0 DEF DataType
  <2>2. new \in PrivateType
    BY <2>1, PrivateTyped DEF PrivateType
  <2>3. pr' = [pr EXCEPT ![t] = new]
    BY <1>5 DEF AwfWeigh
  <2> HIDE DEF new
  <2>4. pr' \in [Threads -> PrivateType] /\ \A u \in Threads \ {t} : pr'[u] = pr[u]
    BY <2>2, <2>3, <1>0
  <2>5. "next" \in Places \ {"account", "reset", "update", "barrier", "end", "cas"}
    BY DEF Places
  <2> QED BY <1>0, <1>5, <2>4, <2>5, Quiet DEF AwfWeigh, Go
<1> QED BY <1>1, <1>2, <1>3, <1>4, <1>5

\* What Number does to the local variables of t.
LEMMA NumberKeeps ==
    ASSUME IInv, NEW t \in Threads, Number(t)
    PROVE  IInv'
<1> DEFINE q == IF schedule \in Rated /\ pr[t].taken > 0 THEN "share" ELSE "read"
<1>0. /\ pr \in [Threads -> PrivateType] /\ local \in [Threads -> LocalType] /\ data \in DataType
      /\ rates \in [Threads -> Rates \cup {0}] /\ counter \in Nat
  BY ThreadFacts
<1>1. /\ pc[t] = "next" /\ counter' = counter + 1 /\ pc' = [pc EXCEPT ![t] = q]
      /\ UNCHANGED <<loop, step, left, iteration, given, rates, data, pr>>
  BY DEF Number, Go
<1>2. local' = [local EXCEPT ![t] = [local[t] EXCEPT !.number = counter]]
  BY DEF Number
<1>3. [local[t] EXCEPT !.number = counter] \in LocalType
  BY <1>0 DEF LocalType
<1>4. local' \in [Threads -> LocalType] /\ \A u \in Threads \ {t} : local'[u] = local[u]
  BY <1>0, <1>2, <1>3
<1>5. q \in Places \ {"account", "reset", "update", "barrier", "end", "cas"}
  BY DEF Places
<1>6. ~(schedule \in Rated /\ pr'[t].taken > 0 /\ q \in {"gather", "slow", "read"})
  <2>1. pr' = pr
    BY <1>1
  <2>2. schedule \in Rated /\ pr[t].taken > 0 => q = "share"
    OBVIOUS
  <2> HIDE DEF q
  <2> QED BY <2>1, <2>2
<1> HIDE DEF q
<1>7. counter' \in Nat /\ rates' = rates /\ data' = data /\ pr' = pr
  BY <1>0, <1>1
<1> QED BY <1>0, <1>1, <1>4, <1>5, <1>6, <1>7, Quiet

LEMMA ShareKeeps ==
    ASSUME IInv, NEW t \in Threads, Share(t)
    PROVE  IInv'
<1>0. /\ pr \in [Threads -> PrivateType] /\ local \in [Threads -> LocalType] /\ data \in DataType
      /\ rates \in [Threads -> Rates \cup {0}] /\ counter \in Nat
  BY ThreadFacts
<1>1. PICK r \in Rates :
        /\ rates' = [rates EXCEPT ![t] = r]
        /\ local' = [local EXCEPT ![t].seen = [NoLocal.seen EXCEPT ![t] = r]]
  BY DEF Share
<1> DEFINE seen == [NoLocal.seen EXCEPT ![t] = r]
<1>2. seen \in [Threads -> Rates \cup {0}] /\ seen[t] = r /\ r # 0
  BY Parameters DEF NoLocal
<1>3. local' = [local EXCEPT ![t] = [local[t] EXCEPT !.seen = seen]]
  BY <1>1
<1> HIDE DEF seen
<1>4. [local[t] EXCEPT !.seen = seen] \in LocalType /\ [local[t] EXCEPT !.seen = seen].seen = seen
  BY <1>0, <1>2 DEF LocalType
<1>5. /\ local' \in [Threads -> LocalType] /\ \A u \in Threads \ {t} : local'[u] = local[u]
      /\ local'[t].seen[t] # 0
  BY <1>0, <1>2, <1>3, <1>4
<1>6. rates' \in [Threads -> Rates \cup {0}]
  BY <1>0, <1>1
<1>7. "gather" \in Places \ {"account", "reset", "update", "barrier", "end", "cas"}
  BY DEF Places
<1> QED BY <1>0, <1>5, <1>6, <1>7, Quiet DEF Share, Go

LEMMA GatherKeeps ==
    ASSUME IInv, NEW t \in Threads, Gather(t)
    PROVE  IInv'
<1> DEFINE i == local[t].at
           q == IF i = NProc - 1 THEN "read" ELSE "gather"
           next == IF i = NProc - 1 THEN 0 ELSE i + 1
           rate == IF i = t THEN local[t].seen[i] ELSE rates[i]
           seen == [local[t].seen EXCEPT ![i] = rate]
           new == [local[t] EXCEPT !.seen = seen, !.at = next]
<1>0. /\ pr \in [Threads -> PrivateType] /\ local \in [Threads -> LocalType] /\ data \in DataType
      /\ rates \in [Threads -> Rates \cup {0}] /\ counter \in Nat
  BY ThreadFacts
<1>1. /\ pc[t] = "gather" /\ pc' = [pc EXCEPT ![t] = q]
      /\ UNCHANGED <<loop, step, left, iteration, counter, rates, data, pr, given>>
  BY DEF Gather, Go
<1>2. local' = [local EXCEPT ![t] = new]
  BY <1>0 DEF Gather, LocalType
<1>3. i \in Threads /\ local[t].seen \in [Threads -> Rates \cup {0}]
  BY <1>0 DEF LocalType
<1>4. next \in Threads
  BY <1>3, Parameters DEF Threads
<1>5. rate \in Rates \cup {0}
  BY <1>0, <1>3
<1>6. seen \in [Threads -> Rates \cup {0}] /\ seen[t] = local[t].seen[t]
  BY <1>3, <1>5
<1> HIDE DEF next, seen, i, q, rate
<1>7. new \in LocalType /\ new.seen = seen
  <2>1. local[t] \in LocalType
    BY <1>0
  <2> QED BY <2>1, <1>4, <1>6 DEF LocalType
<1> HIDE DEF new
<1>8. /\ local' \in [Threads -> LocalType] /\ \A u \in Threads \ {t} : local'[u] = local[u]
      /\ local'[t].seen[t] = local[t].seen[t]
  BY <1>0, <1>2, <1>6, <1>7
<1>9. (schedule \in Rated /\ pr'[t].taken > 0) => local'[t].seen[t] # 0
  BY <1>1, <1>8 DEF IInv, Measured
<1> USE DEF q
<1>10. q \in Places \ {"account", "reset", "update", "barrier", "end", "cas"}
  BY DEF Places
<1> HIDE DEF q
<1> QED BY <1>0, <1>1, <1>8, <1>9, <1>10, Quiet

\* BOLD's sums, and the measurements of AF.
LEMMA SumsKeep ==
    ASSUME IInv, NEW t \in Threads, BoldDone(t) \/ BoldSlow(t) \/ Measure(t) \/ BoldSpeed(t)
    PROVE  IInv'
<1>0. /\ pr \in [Threads -> PrivateType] /\ local \in [Threads -> LocalType] /\ data \in DataType
      /\ rates \in [Threads -> Rates \cup {0}] /\ counter \in Nat
  BY ThreadFacts
<1>1. PICK q \in {"slow", "next", "read"} :
        /\ UNCHANGED <<loop, step, left, iteration, counter, rates, data, pr, local, given>>
        /\ pc[t] \in {"next", "slow", "speed"} /\ pc' = [pc EXCEPT ![t] = q]
        /\ q # "next" => pc[t] = "slow" \/ schedule \in {"bold"} \cup Factoring
  <2>1. CASE BoldDone(t)
    BY <2>1 DEF BoldDone, Go
  <2>2. CASE BoldSlow(t)
    BY <2>2 DEF BoldSlow, Go
  <2>3. CASE Measure(t)
    BY <2>3 DEF Measure, Go
  <2>4. CASE BoldSpeed(t)
    BY <2>4 DEF BoldSpeed, Go
  <2> QED BY <2>1, <2>2, <2>3, <2>4
<1>2. q \in Places \ {"account", "reset", "update", "barrier", "end", "cas"}
  BY DEF Places
<1>3. pr' = pr /\ local' = local
  BY <1>1
<1>4. (schedule \in Rated /\ pr'[t].taken > 0 /\ q \in {"gather", "slow", "read"})
         => local'[t].seen[t] # 0
  BY <1>1, <1>3 DEF IInv, Measured, Rated, Batched, Chunked, Factoring
<1> QED BY <1>0, <1>1, <1>2, <1>3, <1>4, Quiet

\* A step of t that knows that no iteration is left.
LEMMA Leaving ==
    ASSUME IInv, NEW t \in Threads, NEW q \in {"account", "reset", "update", "barrier"},
           UNCHANGED <<loop, step, iteration, counter, rates, pr, given>>,
           iteration >= trip, pc[t] \notin {"barrier", "end"}, pc' = [pc EXCEPT ![t] = q],
           left' = [left EXCEPT ![t] = left[t] + (IF q = "barrier" THEN 1 ELSE 0)],
           data' \in DataType, local' \in [Threads -> LocalType],
           \A u \in Threads \ {t} : local'[u] = local[u]
    PROVE  IInv'
<1>0. /\ schedule' = schedule /\ trip' = trip /\ minChunk' = minChunk /\ step' = step
      /\ iteration' = iteration /\ counter' = counter /\ rates' = rates /\ pr' = pr /\ given' = given
  BY DEF loop
<1>1. /\ pc \in [Threads -> Places] /\ left \in [Threads -> Nat] /\ q \in Places
      /\ step \in Nat
  BY Parameters DEF IInv, Typed, LoopTyped, ThreadsTyped, Places
<1>2. /\ pc' \in [Threads -> Places] /\ pc'[t] = q
      /\ \A u \in Threads \ {t} : pc'[u] = pc[u] /\ left'[u] = left[u]
      /\ left'[t] = left[t] + (IF q = "barrier" THEN 1 ELSE 0)
      /\ left' \in [Threads -> Nat]
  BY <1>1
<1>3. Typed'
  BY <1>0, <1>2 DEF IInv, Typed, LoopTyped, ThreadsTyped, Iterations
<1>4. Measured'
  BY <1>0, <1>2 DEF IInv, Measured
<1>5. Sized'
  BY <1>2 DEF IInv, Sized
<1>6. Counted'
  BY <1>0 DEF IInv, Counted, Iterations
<1>7. Exhausted'
  BY <1>0, <1>2 DEF IInv, Exhausted
<1>8. InStep'
  <2>1. left[t] = step /\ step # Steps
    BY <1>1 DEF IInv, InStep
  <2> QED BY <1>0, <1>1, <1>2, <2>1 DEF IInv, InStep
<1> QED BY <1>3, <1>4, <1>5, <1>6, <1>7, <1>8 DEF IInv

LEMMA ReadKeeps ==
    ASSUME IInv, NEW t \in Threads, ReadCursor(t)
    PROVE  IInv'
<1>0. /\ pr \in [Threads -> PrivateType] /\ local \in [Threads -> LocalType] /\ data \in DataType
      /\ iteration \in Nat /\ trip \in Nat /\ left \in [Threads -> Nat] /\ pc \in [Threads -> Places]
  BY ThreadFacts DEF IInv, Typed, ThreadsTyped
<1>1. pc[t] = "read" /\ UNCHANGED <<loop, step, iteration, counter, rates, data, pr, given>>
  BY DEF ReadCursor
<1>2. CASE iteration < trip
  <2>1. PICK c \in Computed(t, trip - iteration) :
          local' = [local EXCEPT ![t].init = iteration, ![t].size = c.size, ![t].chunk = c.chunk]
    BY <1>2 DEF ReadCursor
  <2>2. pc' = [pc EXCEPT ![t] = "cas"] /\ left' = left
    BY <1>2 DEF ReadCursor, Go
  <2>3. c.size \in Nat /\ c.size > 0 /\ c.chunk \in Nat
    <3>1. trip - iteration \in Nat /\ trip - iteration > 0
      BY <1>0, <1>2
    <3> QED BY <3>1, <1>1, ComputedFacts DEF IInv
  <2> DEFINE new == [local[t] EXCEPT !.init = iteration, !.size = c.size, !.chunk = c.chunk]
  <2>4. local' = [local EXCEPT ![t] = new]
    BY <2>1, <1>0 DEF LocalType
  <2>5. new \in LocalType /\ new.size = c.size /\ new.seen = local[t].seen
    <3>1. local[t] \in LocalType
      BY <1>0
    <3> QED BY <3>1, <1>0, <2>3 DEF LocalType
  <2> HIDE DEF new
  <2>6. /\ local' \in [Threads -> LocalType] /\ \A u \in Threads \ {t} : local'[u] = local[u]
        /\ local'[t].size > 0 /\ local'[t].seen[t] = local[t].seen[t]
    BY <1>0, <2>3, <2>4, <2>5
  <2>7. /\ pc' \in [Threads -> Places] /\ pc'[t] = "cas" /\ \A u \in Threads \ {t} : pc'[u] = pc[u]
    BY <1>0, <2>2 DEF Places
  <2>8. /\ schedule' = schedule /\ trip' = trip /\ minChunk' = minChunk /\ step' = step
        /\ iteration' = iteration /\ counter' = counter /\ rates' = rates /\ pr' = pr
        /\ given' = given /\ data' = data
    BY <1>1 DEF loop
  <2>9. Typed'
    BY <2>2, <2>6, <2>7, <2>8 DEF IInv, Typed, LoopTyped, ThreadsTyped, Iterations
  <2>10. Measured'
    BY <1>1, <2>6, <2>7, <2>8 DEF IInv, Measured
  <2>11. Sized'
    BY <2>6, <2>7 DEF IInv, Sized
  <2>12. Counted' /\ Exhausted'
    BY <2>7, <2>8 DEF IInv, Counted, Exhausted, Iterations
  <2>13. InStep'
    BY <1>1, <2>2, <2>7, <2>8 DEF IInv, InStep
  <2> QED BY <2>9, <2>10, <2>11, <2>12, <2>13 DEF IInv
<1>3. CASE ~(iteration < trip)
  <2> DEFINE q == IF schedule = "awf" THEN "account" ELSE "barrier"
  <2>1. /\ local' = [local EXCEPT ![t] = NoLocal] /\ pc' = [pc EXCEPT ![t] = q]
        /\ left' = [left EXCEPT ![t] = IF schedule = "awf" THEN left[t] ELSE left[t] + 1]
    BY <1>3 DEF ReadCursor, Go
  <2>2. local' \in [Threads -> LocalType] /\ \A u \in Threads \ {t} : local'[u] = local[u]
    BY <1>0, <2>1, LocalTyped
  <2>3. left' = [left EXCEPT ![t] = left[t] + (IF q = "barrier" THEN 1 ELSE 0)]
    <3>1. left[t] \in Nat
      BY <1>0
    <3>2. q = "barrier" <=> schedule # "awf"
      OBVIOUS
    <3> HIDE DEF q
    <3>3. (IF schedule = "awf" THEN left[t] ELSE left[t] + 1)
             = left[t] + (IF q = "barrier" THEN 1 ELSE 0)
      BY <3>1, <3>2
    <3> QED BY <2>1, <3>3
  <2>4. q \in {"account", "reset", "update", "barrier"} /\ iteration >= trip
    BY <1>0, <1>3
  <2> HIDE DEF q
  <2>5. data' \in DataType
    BY <1>0, <1>1
  <2> QED BY <1>1, <2>1, <2>2, <2>3, <2>4, <2>5, Leaving
<1> QED BY <1>2, <1>3

\* Where a thread stands after reading the cursor, and what it then asks for.
LEMMA ReadFacts ==
    ASSUME IInv, NEW t \in Threads, ReadCursor(t)
    PROVE  /\ UNCHANGED <<loop, pr>> /\ pc[t] = "read"
           /\ \A u \in Threads \ {t} : pc'[u] = pc[u] /\ local'[u] = local[u]
           /\ IF iteration < trip
                THEN /\ pc'[t] = "cas"
                     /\ \E c \in Computed(t, trip - iteration) :
                          local'[t].size = c.size /\ local'[t].chunk = c.chunk
                ELSE pc'[t] \in {"account", "barrier"} /\ (schedule # "awf" => pc'[t] = "barrier")
<1>0. pc \in [Threads -> Places] /\ local \in [Threads -> LocalType]
  BY DEF IInv, Typed, ThreadsTyped
<1>1. UNCHANGED <<loop, pr>> /\ pc[t] = "read"
  BY DEF ReadCursor
<1>2. CASE iteration < trip
  <2>1. PICK c \in Computed(t, trip - iteration) :
          local' = [local EXCEPT ![t].init = iteration, ![t].size = c.size, ![t].chunk = c.chunk]
    BY <1>2 DEF ReadCursor
  <2>2. pc' = [pc EXCEPT ![t] = "cas"]
    BY <1>2 DEF ReadCursor, Go
  <2> DEFINE new == [local[t] EXCEPT !.init = iteration, !.size = c.size, !.chunk = c.chunk]
  <2>3. local' = [local EXCEPT ![t] = new]
    BY <2>1, <1>0 DEF LocalType
  <2>4. new.size = c.size /\ new.chunk = c.chunk
    BY <1>0 DEF LocalType
  <2> HIDE DEF new
  <2> QED BY <1>0, <1>1, <1>2, <2>2, <2>3, <2>4
<1>3. CASE ~(iteration < trip)
  <2>1. /\ local' = [local EXCEPT ![t] = NoLocal]
        /\ pc' = [pc EXCEPT ![t] = IF schedule = "awf" THEN "account" ELSE "barrier"]
    BY <1>3 DEF ReadCursor, Go
  <2> QED BY <1>0, <1>1, <1>3, <2>1
<1> QED BY <1>2, <1>3

\* The record of AWF at the end of an execution.
LEMMA RecordKeeps ==
    ASSUME IInv, NEW t \in Threads, AwfAccount(t) \/ AwfReset(t) \/ AwfUpdate(t)
    PROVE  IInv'
<1>0. /\ local \in [Threads -> LocalType] /\ data \in DataType /\ left \in [Threads -> Nat]
  BY ThreadFacts DEF IInv, Typed, ThreadsTyped
<1>1. pc[t] \in {"account", "reset", "update"}
  BY DEF AwfAccount, AwfReset, AwfUpdate
<1>2. iteration >= trip /\ pc[t] \notin {"barrier", "end"}
  BY <1>1 DEF IInv, Exhausted
<1>3. UNCHANGED <<loop, step, iteration, counter, rates, pr, given, local>>
  BY DEF AwfAccount, AwfReset, AwfUpdate
<1>4. data' \in DataType
  <2>1. CASE AwfAccount(t)
    <3>1. /\ data.timeStep * data.workPerStep[t] \in Int /\ data.sumWorkPerStep[t] \in Int
          /\ data.workPerStep \in [Threads -> Int] /\ data.sumWorkPerStep \in [Threads -> Int]
      BY <1>0 DEF DataType
    <3> DEFINE sum == data.sumWorkPerStep[t] + data.timeStep * data.workPerStep[t]
               first == [data EXCEPT !.sumWorkPerStep[t] = sum]
    <3>2. sum \in Int
      BY <3>1
    <3>3. data' = [first EXCEPT !.workPerStep[t] = 0]
      BY <2>1 DEF AwfAccount, Cleared
    <3> HIDE DEF sum
    <3>4. first \in DataType
      <4>1. [data.sumWorkPerStep EXCEPT ![t] = sum] \in [Threads -> Int]
        BY <3>1, <3>2
      <4> QED BY <1>0, <4>1 DEF DataType
    <3> HIDE DEF first
    <3>5. [first.workPerStep EXCEPT ![t] = 0] \in [Threads -> Int]
      BY <3>4 DEF DataType
    <3> QED BY <3>3, <3>4, <3>5 DEF DataType
  <2>2. CASE AwfReset(t)
    BY <2>2, <1>0 DEF AwfReset
  <2>3. CASE AwfUpdate(t)
    <3>1. PICK w \in [Threads -> Weights \cup {2, NaN}] : data' = [data EXCEPT !.weights = w]
      BY <2>3 DEF AwfUpdate
    <3> QED BY <1>0, <3>1 DEF DataType
  <2> QED BY <2>1, <2>2, <2>3
<1>5. PICK q \in {"account", "reset", "update", "barrier"} :
        /\ pc' = [pc EXCEPT ![t] = q]
        /\ left' = [left EXCEPT ![t] = left[t] + (IF q = "barrier" THEN 1 ELSE 0)]
  <2>1. CASE AwfAccount(t)
    BY <2>1, <1>0 DEF AwfAccount, Go
  <2>2. CASE AwfReset(t)
    BY <2>2, <1>0 DEF AwfReset, Go
  <2>3. CASE AwfUpdate(t)
    BY <2>3, <1>0 DEF AwfUpdate, Go
  <2> QED BY <2>1, <2>2, <2>3
<1>6. local' \in [Threads -> LocalType] /\ \A u \in Threads \ {t} : local'[u] = local[u]
  BY <1>0, <1>3
<1> QED BY <1>2, <1>3, <1>4, <1>5, <1>6, Leaving

\* What a thread keeps of a chunk has its type.
LEMMA KeepTyped ==
    ASSUME IInv, NEW t \in Threads, Keep(t), local[t].size > 0
    PROVE  pr' \in [Threads -> PrivateType] /\ \A u \in Threads \ {t} : pr'[u] = pr[u]
<1> DEFINE size == local[t].size
           new == Finished(t)
           from == IF new THEN local[t].chunk ELSE pr[t].remaining
           bold1 == [pr[t] EXCEPT !.mine = size, !.speed = Speed(size)]
           af1 == [pr[t] EXCEPT !.size = local[t].chunk, !.remaining = from - size,
                                !.sub = IF new THEN size ELSE pr[t].sub]
           mine == CASE schedule = "bold" -> bold1
                     [] schedule \in Factoring -> af1
                     [] OTHER -> pr[t]
<1>0. pr[t] \in PrivateType /\ local[t] \in LocalType /\ pr \in [Threads -> PrivateType]
  BY ThreadFacts
<1>1. size \in Nat \ {0} /\ local[t].chunk \in Nat /\ pr[t].remaining \in Int /\ pr[t].sub \in Nat \ {0}
  BY <1>0 DEF LocalType, PrivateType
<1>2. pr' = [pr EXCEPT ![t] = [mine EXCEPT !.taken = @ + 1]]
  BY DEF Keep
<1>3. Speed(size) \in Int
  <2>1. size * Mu \in Nat \ {0}
    BY <1>1, Parameters, Products
  <2>2. size * Mu + Overhead \in Nat \ {0}
    BY <2>1, Parameters
  <2>3. 1000 * size \in Int
    BY <1>1
  <2> QED BY <2>2, <2>3, Quotient DEF Speed
<1>4. bold1 \in PrivateType
  BY <1>0, <1>1, <1>3 DEF PrivateType
<1>5. af1 \in PrivateType
  <2>1. from - size \in Int /\ (IF new THEN size ELSE pr[t].sub) \in Nat \ {0}
    BY <1>1
  <2> QED BY <1>0, <1>1, <2>1 DEF PrivateType
<1> HIDE DEF bold1, af1
<1>6. mine \in {bold1, af1, pr[t]}
  BY DEF Factoring
<1>7. mine \in PrivateType
  BY <1>0, <1>4, <1>5, <1>6
<1> HIDE DEF mine
<1>8. [mine EXCEPT !.taken = @ + 1] \in PrivateType
  BY <1>7 DEF PrivateType
<1> QED BY <1>0, <1>2, <1>8

\* The chunk taken begins at the first iteration not handed out.
LEMMA Taken ==
    ASSUME IInv, NEW t \in Threads, Take(t), CasHolds(t)
    PROVE  /\ step \in Executions /\ local[t].size \in Nat /\ local[t].size > 0
           /\ iteration' = iteration + local[t].size
           /\ given' = [given EXCEPT ![step] = [i \in Iterations |->
                          IF iteration <= i /\ i < iteration' THEN 1 ELSE given[step][i]]]
<1>0. /\ local[t] \in LocalType /\ iteration \in Nat /\ trip \in Nat /\ step \in 0 .. Steps
  BY ThreadFacts
<1>1. pc[t] = "cas" /\ local[t].init = iteration
  BY DEF Take, CasHolds
<1>2. local[t].size \in Nat /\ local[t].size > 0 /\ step # Steps
  BY <1>0, <1>1 DEF IInv, Sized, InStep, LocalType
<1>3. step \in Executions
  BY <1>0, <1>2, Parameters DEF Executions
<1> DEFINE limit == iteration + local[t].size
           end == IF limit > trip THEN trip ELSE limit
<1>4. iteration' = limit
  BY <1>1 DEF Take
<1>5. given' = [given EXCEPT ![step] = [i \in Iterations |->
                   given[step][i] + (IF iteration <= i /\ i < end THEN 1 ELSE 0)]]
  BY <1>1 DEF Take
<1>6. ASSUME NEW i \in Iterations
      PROVE  given[step][i] + (IF iteration <= i /\ i < end THEN 1 ELSE 0)
               = IF iteration <= i /\ i < limit THEN 1 ELSE given[step][i]
  <2>1. i \in Nat /\ i < trip
    BY <1>0 DEF Iterations
  <2>2. given[step][i] = IF i < iteration THEN 1 ELSE 0
    BY <1>0, <1>3 DEF IInv, Counted
  <2> QED BY <1>0, <1>2, <2>1, <2>2
<1> HIDE DEF limit, end
<1>7. [i \in Iterations |-> given[step][i] + (IF iteration <= i /\ i < end THEN 1 ELSE 0)]
        = [i \in Iterations |-> IF iteration <= i /\ i < limit THEN 1 ELSE given[step][i]]
  BY <1>6
<1>8. given' = [given EXCEPT ![step] = [i \in Iterations |->
                   IF iteration <= i /\ i < limit THEN 1 ELSE given[step][i]]]
  BY <1>5, <1>7
<1> QED BY <1>2, <1>3, <1>4, <1>8 DEF limit

LEMMA TakeKeeps ==
    ASSUME IInv, NEW t \in Threads, Take(t)
    PROVE  IInv'
<1>0. /\ pr \in [Threads -> PrivateType] /\ local \in [Threads -> LocalType] /\ data \in DataType
      /\ rates \in [Threads -> Rates \cup {0}] /\ counter \in Nat /\ iteration \in Nat /\ trip \in Nat
      /\ pc \in [Threads -> Places]
  BY ThreadFacts DEF IInv, Typed, ThreadsTyped
<1>1. pc[t] = "cas" /\ UNCHANGED <<loop, step, left, counter, rates>>
  BY DEF Take
<1>2. CASE ~CasHolds(t)
  <2>1. pc' = [pc EXCEPT ![t] = "read"] /\ UNCHANGED <<iteration, data, pr, local, given>>
    BY <1>2 DEF Take, Go
  <2>2. "read" \in Places \ {"account", "reset", "update", "barrier", "end", "cas"}
    BY DEF Places
  <2>3. (schedule \in Rated /\ pr'[t].taken > 0) => local'[t].seen[t] # 0
    <3>1. pr' = pr /\ local' = local
      BY <2>1
    <3> QED BY <1>1, <3>1 DEF IInv, Measured
  <2> QED BY <1>0, <1>1, <2>1, <2>2, <2>3, Quiet
<1>3. CASE CasHolds(t)
  <2> DEFINE q == IF schedule = "bold" THEN "speed" ELSE "next"
  <2>1. /\ step \in Executions /\ local[t].size \in Nat /\ local[t].size > 0
        /\ iteration' = iteration + local[t].size
        /\ given' = [given EXCEPT ![step] = [i \in Iterations |->
                       IF iteration <= i /\ i < iteration' THEN 1 ELSE given[step][i]]]
    BY <1>3, Taken
  <2>2. pc' = [pc EXCEPT ![t] = q] /\ local' = [local EXCEPT ![t] = NoLocal] /\ Keep(t)
    BY <1>3 DEF Take, Go
  <2>3. pr' \in [Threads -> PrivateType] /\ \A u \in Threads \ {t} : pr'[u] = pr[u]
    BY <2>1, <2>2, KeepTyped
  <2>4. local' \in [Threads -> LocalType] /\ \A u \in Threads \ {t} : local'[u] = local[u]
    BY <1>0, <2>2, LocalTyped
  <2>5. q \in Places /\ q \in {"speed", "next"}
    BY DEF Places
  <2> HIDE DEF q
  <2>6. pc' \in [Threads -> Places] /\ pc'[t] = q /\ \A u \in Threads \ {t} : pc'[u] = pc[u]
    BY <1>0, <2>2, <2>5
  <2>7. /\ schedule' = schedule /\ trip' = trip /\ minChunk' = minChunk /\ step' = step
        /\ counter' = counter /\ rates' = rates /\ left' = left
    BY <1>1 DEF loop
  <2>8. data' \in DataType
    <3> DEFINE work == local[t].init
               end == IF work + local[t].size > trip THEN trip ELSE work + local[t].size
               done == data.workPerStep[t] + end - work
    <3>1. CASE schedule = "awf"
      <4>1. local[t].init \in Nat /\ data.workPerStep \in [Threads -> Int]
        BY <1>0 DEF LocalType, DataType
      <4>2. done \in Int
        BY <4>1, <1>0, <2>1
      <4>3. data' = [data EXCEPT !.workPerStep[t] = done]
        BY <1>3, <3>1 DEF Take
      <4> HIDE DEF done
      <4>4. [data.workPerStep EXCEPT ![t] = done] \in [Threads -> Int]
        BY <4>1, <4>2
      <4> QED BY <1>0, <4>3, <4>4 DEF DataType
    <3>2. CASE schedule # "awf"
      BY <1>0, <1>3, <3>2 DEF Take
    <3> QED BY <3>1, <3>2
  <2>9. given' \in [Executions -> [Iterations -> {0, 1}]]
    <3>1. given \in [Executions -> [Iterations -> {0, 1}]]
      BY DEF IInv, Typed, LoopTyped
    <3>2. [i \in Iterations |-> IF iteration <= i /\ i < iteration' THEN 1 ELSE given[step][i]]
             \in [Iterations -> {0, 1}]
      BY <2>1, <3>1
    <3> QED BY <2>1, <3>1, <3>2
  <2>10. Typed'
    <3>1. iteration' \in Nat
      BY <1>0, <2>1
    <3> QED BY <2>3, <2>4, <2>6, <2>7, <2>8, <2>9, <3>1
            DEF IInv, Typed, LoopTyped, ThreadsTyped, Iterations
  <2>11. Measured'
    BY <2>3, <2>4, <2>5, <2>6, <2>7 DEF IInv, Measured
  <2>12. Sized'
    BY <2>4, <2>5, <2>6 DEF IInv, Sized
  <2>13. Counted'
    <3>1. given \in [Executions -> [Iterations -> {0, 1}]] /\ step \in Nat
      BY ThreadFacts, Parameters DEF IInv, Typed, LoopTyped
    <3>2. ASSUME NEW l \in Executions, NEW i \in Iterations
          PROVE  given'[l][i] = IF l < step \/ (l = step /\ i < iteration') THEN 1 ELSE 0
      <4>1. l \in Nat /\ i \in Nat
        BY <1>0, Parameters DEF Executions, Iterations
      <4>2. given[l][i] = IF l < step \/ (l = step /\ i < iteration) THEN 1 ELSE 0
        BY DEF IInv, Counted
      <4>3. CASE l # step
        BY <4>1, <4>2, <4>3, <3>1, <2>1
      <4>4. CASE l = step
        <5>1. given'[l][i] = IF iteration <= i /\ i < iteration' THEN 1 ELSE given[l][i]
          BY <4>4, <3>1, <2>1
        <5> QED BY <5>1, <4>1, <4>2, <4>4, <3>1, <2>1, <1>0
      <4> QED BY <4>3, <4>4
    <3> QED BY <3>2, <2>7 DEF Counted, Iterations
  <2>14. Exhausted'
    BY <1>0, <2>1, <2>5, <2>6, <2>7 DEF IInv, Exhausted
  <2>15. InStep'
    BY <1>1, <2>5, <2>6, <2>7 DEF IInv, InStep
  <2> QED BY <2>10, <2>11, <2>12, <2>13, <2>14, <2>15 DEF IInv
<1> QED BY <1>2, <1>3

\* The barrier: everything below the cursor has been handed out.
LEMMA BarrierKeeps == IInv /\ Barrier => IInv'
<1> SUFFICES ASSUME IInv, Barrier PROVE IInv'
  OBVIOUS
<1>0. /\ iteration \in Nat /\ trip \in Nat /\ step \in 0 .. Steps /\ Steps \in Nat /\ 0 \in Threads
      /\ given \in [Executions -> [Iterations -> {0, 1}]] /\ left \in [Threads -> Nat]
  BY Parameters DEF IInv, Typed, LoopTyped, ThreadsTyped
<1>1. /\ \A t \in Threads : pc[t] = "barrier"
      /\ step < Steps /\ step' = step + 1
      /\ pc' = [t \in Threads |-> IF step' = Steps THEN "end" ELSE "init"]
      /\ iteration' = 0 /\ counter' = 0 /\ rates' = [t \in Threads |-> 0]
  BY DEF Barrier
<1>2. /\ schedule' = schedule /\ trip' = trip /\ minChunk' = minChunk /\ left' = left
      /\ data' = data /\ pr' = pr /\ local' = local /\ given' = given
  BY DEF Barrier, loop
<1>3. pc' \in [Threads -> Places] /\ \A t \in Threads : pc'[t] \in {"end", "init"}
  BY <1>1 DEF Places
<1>4. Typed'
  BY <1>0, <1>1, <1>2, <1>3 DEF IInv, Typed, LoopTyped, ThreadsTyped, Iterations
<1>5. Measured' /\ Sized' /\ Exhausted'
  BY <1>3 DEF Measured, Sized, Exhausted
<1>6. Counted'
  <2>1. ASSUME NEW l \in Executions, NEW i \in Iterations
        PROVE  given'[l][i] = IF l < step' \/ (l = step' /\ i < iteration') THEN 1 ELSE 0
    <3>1. l \in Nat /\ i \in Nat /\ i < trip
      BY <1>0 DEF Executions, Iterations
    <3>2. iteration >= trip
      BY <1>0, <1>1 DEF IInv, Exhausted
    <3>3. given[l][i] = IF l < step \/ (l = step /\ i < iteration) THEN 1 ELSE 0
      BY DEF IInv, Counted
    <3> QED BY <1>0, <1>1, <1>2, <3>1, <3>2, <3>3
  <2> QED BY <2>1, <1>2 DEF Counted, Iterations
<1>7. InStep'
  <2>1. ASSUME NEW t \in Threads
        PROVE  /\ left'[t] = step' + (IF pc'[t] = "barrier" THEN 1 ELSE 0)
               /\ pc'[t] = "end" <=> step' = Steps
    <3>1. left[t] = step + 1
      BY <1>1 DEF IInv, InStep
    <3> QED BY <1>0, <1>1, <1>2, <3>1
  <2> QED BY <2>1 DEF InStep
<1> QED BY <1>4, <1>5, <1>6, <1>7 DEF IInv

LEMMA InvNext == IInv /\ [Next]_vars => IInv'
<1> SUFFICES ASSUME IInv, [Next]_vars PROVE IInv'
  OBVIOUS
<1>1. ASSUME NEW t \in Threads, Step(t) PROVE IInv'
  BY <1>1, EnterKeeps, NumberKeeps, ShareKeeps, GatherKeeps, SumsKeep, ReadKeeps, TakeKeeps,
     RecordKeeps DEF Step
<1>2. CASE UNCHANGED vars
  <2>1. /\ schedule' = schedule /\ trip' = trip /\ minChunk' = minChunk /\ step' = step
        /\ pc' = pc /\ left' = left /\ iteration' = iteration /\ counter' = counter
        /\ rates' = rates /\ data' = data /\ pr' = pr /\ local' = local /\ given' = given
    BY <1>2 DEF vars, loop
  <2>2. Typed'
    BY <2>1 DEF IInv, Typed, LoopTyped, ThreadsTyped, Iterations
  <2>3. Measured' /\ Sized' /\ Counted' /\ Exhausted' /\ InStep'
    BY <2>1 DEF IInv, Measured, Sized, Counted, Exhausted, InStep, Iterations
  <2> QED BY <2>2, <2>3 DEF IInv
<1> QED BY <1>1, <1>2, BarrierKeeps DEF Next, Finish

LEMMA Inductive == Spec => []IInv
  BY InvInit, InvNext, PTL DEF Spec
---------------------------------------------------------------------------
(***************************************************************************)
(* The promise.                                                            *)
(***************************************************************************)
LEMMA PromiseInit == Init => Promise!Init
<1> SUFFICES ASSUME Init PROVE Promise!Init
  OBVIOUS
<1>1. trip \in Nat
  BY Parameters DEF Init
<1>2. given = [l \in Executions |-> [i \in Iterations |-> 0]] /\ left = [t \in Threads |-> 0]
  BY DEF Init
<1>3. Promise!Loops = Executions
  BY DEF Promise!Loops, Executions
<1>4. Promise!Untouched([l \in Executions |-> trip])
        = [l \in Executions |-> [i \in Iterations |-> 0]]
  BY <1>3 DEF Promise!Untouched, Iterations
<1> QED BY <1>1, <1>2, <1>3, <1>4 DEF Promise!Init

\* A thread that leaves knows that everything has been handed out.
LEMMA LeavePromised ==
    ASSUME IInv, NEW t \in Threads, iteration >= trip, pc[t] \notin {"barrier", "end"},
           trip' = trip, given' = given, left' = [left EXCEPT ![t] = left[t] + 1]
    PROVE  Promise!Leave(t)
<1>1. left[t] = step /\ step # Steps /\ step \in 0 .. Steps /\ trip \in Nat /\ iteration \in Nat
  BY ThreadFacts DEF IInv, InStep
<1>2. step \in Executions /\ left[t] < Steps
  BY <1>1, Parameters DEF Executions
<1>3. ASSUME NEW i \in Iterations PROVE given[step][i] = 1
  <2>1. i < iteration
    BY <1>1 DEF Iterations
  <2> QED BY <1>2, <2>1 DEF IInv, Counted
<1>4. Promise!Iterations(left[t]) = Iterations
  BY <1>1, <1>2 DEF Promise!Iterations, Iterations
<1> QED BY <1>1, <1>2, <1>3, <1>4 DEF Promise!Leave

\* A thread that takes a chunk is handed out iterations nobody was.
LEMMA TakePromised ==
    ASSUME IInv, NEW t \in Threads, Take(t), CasHolds(t)
    PROVE  Promise!HandOut(t) \/ given' = given
<1>0. /\ step \in Executions /\ local[t].size \in Nat /\ local[t].size > 0
      /\ iteration' = iteration + local[t].size
      /\ given' = [given EXCEPT ![step] = [i \in Iterations |->
                     IF iteration <= i /\ i < iteration' THEN 1 ELSE given[step][i]]]
  BY Taken
<1>1. /\ left[t] = step /\ trip \in Nat /\ iteration \in Nat /\ trip' = trip /\ left' = left
      /\ given \in [Executions -> [Iterations -> {0, 1}]] /\ step < Steps
  <2>1. trip \in Nat /\ iteration \in Nat
    BY ThreadFacts
  <2>2. pc[t] = "cas" /\ trip' = trip /\ left' = left
    BY DEF Take, loop
  <2>3. left[t] = step
    <3>1. step \in Nat
      BY <1>0, Parameters DEF Executions
    <3> QED BY <2>2, <3>1 DEF IInv, InStep
  <2>4. given \in [Executions -> [Iterations -> {0, 1}]]
    BY DEF IInv, Typed, LoopTyped
  <2>5. step < Steps
    BY <1>0, Parameters DEF Executions
  <2> QED BY <2>1, <2>2, <2>3, <2>4, <2>5
<1>2. Promise!Iterations(left[t]) = Iterations
  BY <1>0, <1>1 DEF Promise!Iterations, Iterations
<1>3. CASE iteration < trip
  <2> DEFINE hi == IF iteration' > trip THEN trip - 1 ELSE iteration' - 1
  <2>1. iteration \in Iterations /\ hi \in Iterations /\ iteration <= hi
    BY <1>0, <1>1, <1>3 DEF Iterations
  <2>2. ASSUME NEW i \in iteration .. hi PROVE given[step][i] = 0
    <3>1. i \in Iterations /\ ~(i < iteration)
      BY <1>1, <2>1 DEF Iterations
    <3> QED BY <1>0, <1>1, <3>1, Parameters DEF IInv, Counted, Executions
  <2>3. ASSUME NEW i \in Iterations
        PROVE  (IF iteration <= i /\ i < iteration' THEN 1 ELSE given[step][i])
                 = IF i \in iteration .. hi THEN 1 ELSE given[step][i]
    BY <1>0, <1>1 DEF Iterations
  <2> HIDE DEF hi
  <2>4. [i \in Iterations |-> IF iteration <= i /\ i < iteration' THEN 1 ELSE given[step][i]]
          = [i \in Iterations |-> IF i \in iteration .. hi THEN 1 ELSE given[step][i]]
    BY <2>3
  <2>5. given' = [given EXCEPT ![left[t]] =
                    [i \in Iterations |-> IF i \in iteration .. hi THEN 1 ELSE given[left[t]][i]]]
    <3> DEFINE new == [i \in Iterations |-> IF i \in iteration .. hi THEN 1 ELSE given[step][i]]
    <3>1. given' = [given EXCEPT ![step] = new]
      BY <1>0, <2>4
    <3>2. left[t] = step
      BY <1>1
    <3> QED BY <3>1, <3>2
  <2>6. /\ left[t] < Steps /\ UNCHANGED <<trip, left>>
        /\ [l \in Executions |-> trip]' = [l \in Executions |-> trip]
    BY <1>1
  <2>7. \A i \in iteration .. hi : given[left[t]][i] = 0
    BY <1>1, <2>2
  <2>8. \E lo, up \in Promise!Iterations(left[t]) :
          /\ lo <= up /\ \A i \in lo .. up : given[left[t]][i] = 0
          /\ given' = [given EXCEPT ![left[t]] = [i \in Promise!Iterations(left[t]) |->
                         IF i \in lo .. up THEN 1 ELSE given[left[t]][i]]]
    BY <1>2, <2>1, <2>5, <2>7
  <2> QED BY <2>6, <2>8 DEF Promise!HandOut
<1>4. CASE iteration >= trip
  <2>1. ASSUME NEW i \in Iterations
        PROVE  (IF iteration <= i /\ i < iteration' THEN 1 ELSE given[step][i]) = given[step][i]
    BY <1>1, <1>4 DEF Iterations
  <2>2. [i \in Iterations |-> IF iteration <= i /\ i < iteration' THEN 1 ELSE given[step][i]]
          = given[step]
    BY <1>0, <1>1, <2>1
  <2> QED BY <1>0, <1>1, <2>2
<1> QED BY <1>1, <1>3, <1>4

LEMMA PromiseNext == IInv /\ [Next]_vars => [Promise!Next]_(Promise!vars)
<1> SUFFICES ASSUME IInv, [Next]_vars
             PROVE  Promise!Next \/ (trip' = trip /\ left' = left /\ given' = given)
  BY DEF Promise!vars
<1>1. ASSUME NEW t \in Threads, Step(t)
      PROVE  Promise!Next \/ (trip' = trip /\ left' = left /\ given' = given)
  <2>1. CASE Enter(t) \/ AwfEnter(t) \/ AwfRecord(t) \/ AwfOpen(t) \/ AwfWeigh(t)
    BY <2>1 DEF Enter, AwfEnter, AwfRecord, AwfOpen, AwfWeigh, loop
  <2>2. CASE Number(t) \/ Share(t) \/ Gather(t) \/ BoldDone(t) \/ BoldSlow(t) \/ Measure(t)
    BY <2>2 DEF Number, Share, Gather, BoldDone, BoldSlow, Measure, loop
  <2>3. CASE ReadCursor(t)
    <3>1. pc[t] = "read" /\ trip' = trip /\ given' = given
      BY <2>3 DEF ReadCursor, loop
    <3>2. CASE iteration < trip \/ schedule = "awf"
      <4>1. left \in [Threads -> Nat]
        BY DEF IInv, Typed, ThreadsTyped
      <4>2. left' = left
        BY <2>3, <3>2, <4>1 DEF ReadCursor
      <4> QED BY <3>1, <4>2
    <3>3. CASE ~(iteration < trip) /\ schedule # "awf"
      <4>1. left' = [left EXCEPT ![t] = left[t] + 1]
        BY <2>3, <3>3 DEF ReadCursor
      <4>2. iteration >= trip
        BY <3>3, ThreadFacts
      <4> QED BY <3>1, <4>1, <4>2, LeavePromised DEF Promise!Next
    <3> QED BY <3>2, <3>3
  <2>4. CASE Take(t)
    <3>1. trip' = trip /\ left' = left
      BY <2>4 DEF Take, loop
    <3>2. CASE CasHolds(t)
      BY <2>4, <3>1, <3>2, TakePromised DEF Promise!Next
    <3>3. CASE ~CasHolds(t)
      BY <2>4, <3>1, <3>3 DEF Take
    <3> QED BY <3>2, <3>3
  <2>5. CASE BoldSpeed(t) \/ AwfReset(t)
    BY <2>5 DEF BoldSpeed, AwfReset, loop
  <2>6. CASE AwfAccount(t) \/ AwfUpdate(t)
    <3>1. pc[t] \in {"account", "update"} /\ trip' = trip /\ given' = given
      BY <2>6 DEF AwfAccount, AwfUpdate, loop
    <3>2. iteration >= trip
      BY <3>1 DEF IInv, Exhausted
    <3>3. left' = left \/ left' = [left EXCEPT ![t] = left[t] + 1]
      BY <2>6 DEF AwfAccount, AwfUpdate
    <3> QED BY <3>1, <3>2, <3>3, LeavePromised DEF Promise!Next
  <2> QED BY <1>1, <2>1, <2>2, <2>3, <2>4, <2>5, <2>6 DEF Step
<1>2. CASE Barrier \/ Finish \/ UNCHANGED vars
  BY <1>2 DEF Barrier, Finish, vars, loop
<1> QED BY <1>1, <1>2 DEF Next

\* The adaptive schedules keep the dispatcher's promise, whatever is measured: every
\* execution of the loop hands out each iteration once, in blocks, and a thread is
\* told to leave only when none is left.
THEOREM AdaptiveKeepsPromise == Spec => KeepsPromise
<1>1. Init => Promise!Init
  BY PromiseInit
<1>2. IInv /\ [Next]_vars => [Promise!Next]_(Promise!vars)
  BY PromiseNext
<1> QED BY <1>1, <1>2, Inductive, PTL DEF Spec, KeepsPromise, Promise!Spec
---------------------------------------------------------------------------
\* What a step of one thread leaves alone, and which steps lead to the compare-and-swap.
LEMMA StepFrame ==
    ASSUME IInv, NEW t \in Threads, Step(t)
    PROVE  /\ schedule' = schedule /\ trip' = trip /\ minChunk' = minChunk /\ step' = step
           /\ \A u \in Threads \ {t} : pc'[u] = pc[u] /\ pr'[u] = pr[u] /\ local'[u] = local[u]
           /\ pc'[t] = "cas" => ReadCursor(t)
<1>0. /\ pc \in [Threads -> Places] /\ pr \in [Threads -> PrivateType]
      /\ local \in [Threads -> LocalType]
  BY DEF IInv, Typed, ThreadsTyped
<1>1. CASE Enter(t) \/ AwfEnter(t) \/ AwfRecord(t) \/ AwfOpen(t) \/ AwfWeigh(t)
  BY <1>0, <1>1 DEF Enter, AwfEnter, AwfRecord, AwfOpen, AwfWeigh, Go, loop
<1>2. CASE Number(t) \/ Share(t)
  BY <1>0, <1>2 DEF Number, Share, Go, loop
<1>3. CASE Gather(t)
  <2>1. /\ \A u \in Threads \ {t} : local'[u] = local[u]
        /\ pc' = [pc EXCEPT ![t] = IF local[t].at = NProc - 1 THEN "read" ELSE "gather"]
        /\ UNCHANGED <<loop, step, pr>>
    <3>1. PICK n : local' = [local EXCEPT ![t] = n]
      BY <1>0, <1>3 DEF Gather
    <3>2. /\ pc' = [pc EXCEPT ![t] = IF local[t].at = NProc - 1 THEN "read" ELSE "gather"]
          /\ UNCHANGED <<loop, step, pr>>
      BY <1>3 DEF Gather, Go
    <3> QED BY <1>0, <3>1, <3>2
  <2> QED BY <1>0, <2>1 DEF loop
<1>4. CASE BoldDone(t) \/ BoldSlow(t) \/ Measure(t) \/ BoldSpeed(t)
  BY <1>0, <1>4 DEF BoldDone, BoldSlow, Measure, BoldSpeed, Go, loop
<1>5. CASE ReadCursor(t)
  <2>1. UNCHANGED <<loop, pr, step>>
    BY <1>5 DEF ReadCursor
  <2> QED BY <1>5, <2>1, ReadFacts DEF loop
<1>6. CASE Take(t)
  <2>1. \A u \in Threads \ {t} : pr'[u] = pr[u]
    <3>1. CASE CasHolds(t)
      <4>1. Keep(t)
        BY <1>6, <3>1 DEF Take
      <4>2. PICK n : pr' = [pr EXCEPT ![t] = n]
        BY <4>1 DEF Keep
      <4> QED BY <1>0, <4>2
    <3>2. CASE ~CasHolds(t)
      BY <1>6, <3>2 DEF Take
    <3> QED BY <3>1, <3>2
  <2>2. \A u \in Threads \ {t} : pc'[u] = pc[u] /\ local'[u] = local[u]
    BY <1>0, <1>6 DEF Take, Go
  <2>3. pc'[t] # "cas" /\ UNCHANGED <<loop, step>>
    BY <1>0, <1>6 DEF Take, Go
  <2> QED BY <2>1, <2>2, <2>3 DEF loop
<1>7. CASE AwfAccount(t) \/ AwfReset(t) \/ AwfUpdate(t)
  BY <1>0, <1>7 DEF AwfAccount, AwfReset, AwfUpdate, Go, loop
<1> QED BY <1>1, <1>2, <1>3, <1>4, <1>5, <1>6, <1>7 DEF Step

\* Between executions every thread starts again.
LEMMA BarrierFrame ==
    ASSUME IInv, Barrier
    PROVE  /\ schedule' = schedule /\ trip' = trip /\ minChunk' = minChunk /\ step' = step + 1
           /\ pr' = pr /\ local' = local /\ data' = data /\ iteration' = 0
           /\ AWFEnter' = AWFEnter /\ AWFWait' = AWFWait /\ AWFCounter' = AWFCounter
           /\ bold_m' = trip /\ total_speed' = 0
           /\ \A t \in Threads : pc[t] = "barrier"
           /\ pc' = [t \in Threads |-> IF step' = Steps THEN "end" ELSE "init"]
  BY DEF Barrier, loop, flags
---------------------------------------------------------------------------
(***************************************************************************)
(* The sub-chunks of AF and AF_a.  When no minimum is asked for, what      *)
(* remains of a chunk is nothing or at least one more sub-chunk, so that   *)
(* it never runs below zero, where a thread would not notice the end.      *)
(***************************************************************************)
Fits(p) ==
    /\ p.remaining \in 0 .. p.size
    /\ p.remaining = 0 \/ p.sub <= p.remaining

\* The first sub-chunk of a chunk c.
Cut(c) == IF c >= Divider THEN c \div Divider ELSE c

\* What a thread is about to take.
Asked(p, l) ==
    IF p.remaining = 0
      THEN l.chunk > 0 /\ l.size = Cut(l.chunk)
      ELSE /\ l.chunk = p.size
           /\ l.size = IF p.remaining - p.sub > 0 /\ p.remaining - p.sub < p.sub
                         THEN p.remaining ELSE p.sub

FitInv ==
    (schedule \in Factoring /\ minChunk = 1) => \A t \in Threads :
      /\ pc[t] \in {"init", "next", "read", "cas", "barrier", "end"}
      /\ Fits(pr[t])
      /\ pc[t] = "cas" => Asked(pr[t], local[t])

LEMMA CutFits ==
    ASSUME NEW c \in Nat, c > 0
    PROVE  /\ Cut(c) \in Nat /\ Cut(c) > 0 /\ Cut(c) <= c
           /\ c - Cut(c) = 0 \/ Cut(c) <= c - Cut(c)
<1> DEFINE q == c \div Divider
<1>1. Divider \in Nat /\ Divider > 0
  BY Parameters
<1>2. CASE c < Divider
  BY <1>1, <1>2 DEF Cut
<1>3. CASE c >= Divider
  <2>1. q \in Nat /\ q > 0 /\ q * Divider <= c
    BY <1>1, <1>3
  <2>2. CASE Divider = 1
    BY <1>3, <2>1, <2>2 DEF Cut
  <2>3. CASE Divider >= 2
    <3>1. q * Divider >= 2 * q
      BY <1>1, <2>1, <2>3
    <3> QED BY <1>1, <1>3, <2>1, <3>1 DEF Cut
  <2> QED BY <1>1, <2>2, <2>3
<1> QED BY <1>1, <1>2, <1>3

LEMMA NewFits == Fits(NewPrivate)
<1>1. CASE FirstChunk > 0
  BY <1>1, CutFits, Parameters DEF Fits, NewPrivate, Cut
<1>2. CASE FirstChunk = 0
  BY <1>2, Parameters DEF Fits, NewPrivate
<1> QED BY <1>1, <1>2, Parameters

LEMMA FitInit == Init => FitInv
  BY NewFits DEF Init, FitInv

LEMMA FactoringOnly ==
    schedule \in Factoring => schedule \notin {"awf", "bold"} \cup Rated
  BY DEF Factoring, Rated, Batched, Chunked

\* Reading the cursor, a thread asks for the next sub-chunk of its chunk, or for the
\* first of a new one.
LEMMA ReadFits ==
    ASSUME IInv, FitInv, NEW t \in Threads, ReadCursor(t), schedule \in Factoring, minChunk = 1
    PROVE  FitInv'
<1>1. schedule \notin {"awf", "bold"} \cup Rated
  BY FactoringOnly
<1>2. trip \in Nat /\ iteration \in Nat
  BY ThreadFacts
<1>3. /\ UNCHANGED <<loop, pr>> /\ pc[t] = "read"
      /\ \A u \in Threads \ {t} : pc'[u] = pc[u] /\ local'[u] = local[u]
  BY ReadFacts
<1>4. CASE iteration < trip
  <2>1. PICK c \in Computed(t, trip - iteration) :
            local'[t].size = c.size /\ local'[t].chunk = c.chunk
    BY <1>4, ReadFacts
  <2>2. pc'[t] = "cas"
    BY <1>4, ReadFacts
  <2>3. c \in IF Finished(t)
              THEN {[chunk |-> n, size |-> AtLeast(Cut(n), 1)] : n \in 1 .. trip - iteration}
              ELSE {[chunk |-> pr[t].size, size |-> SubChunk(t)]}
    BY <1>1, <2>1 DEF Computed, Cut
  <2>4. Asked(pr[t], local'[t])
    <3>1. CASE Finished(t)
      <4>1. PICK n \in 1 .. trip - iteration : c = [chunk |-> n, size |-> AtLeast(Cut(n), 1)]
        BY <2>3, <3>1
      <4>2. n \in Nat /\ n > 0
        BY <1>2
      <4>3. AtLeast(Cut(n), 1) = Cut(n)
        BY <4>2, CutFits DEF AtLeast
      <4> QED BY <2>1, <3>1, <4>1, <4>2, <4>3 DEF Asked, Finished
    <3>2. CASE ~Finished(t)
      BY <2>1, <2>3, <3>2 DEF Asked, Finished, SubChunk
    <3> QED BY <3>1, <3>2
  <2> QED BY <1>3, <2>2, <2>4 DEF FitInv, loop
<1>5. CASE ~(iteration < trip)
  BY <1>1, <1>3, <1>5, ReadFacts DEF FitInv, loop
<1> QED BY <1>4, <1>5

\* Taking it leaves nothing or another sub-chunk.
LEMMA KeepFits ==
    ASSUME NEW p \in PrivateType, NEW l \in LocalType, Fits(p), Asked(p, l)
    PROVE  LET new == p.remaining = 0
               from == IF new THEN l.chunk ELSE p.remaining
           IN  Fits([p EXCEPT !.size = l.chunk, !.remaining = from - l.size,
                              !.sub = IF new THEN l.size ELSE p.sub, !.taken = p.taken + 1])
<1>1. p.remaining \in Int /\ p.size \in Nat /\ p.sub \in Nat /\ p.sub > 0
      /\ l.chunk \in Nat /\ l.size \in Nat
  BY DEF PrivateType, LocalType
<1>2. CASE p.remaining = 0
  BY <1>1, <1>2, CutFits DEF Fits, Asked, PrivateType
<1>3. CASE p.remaining # 0
  BY <1>1, <1>3 DEF Fits, Asked, PrivateType
<1> QED BY <1>2, <1>3

LEMMA TakeFits ==
    ASSUME IInv, FitInv, schedule \in Factoring, minChunk = 1, NEW t \in Threads, Take(t)
    PROVE  FitInv'
<1>1. schedule \notin {"awf", "bold"} \cup Rated
  BY FactoringOnly
<1>2. UNCHANGED loop /\ pc[t] = "cas" /\ Fits(pr[t]) /\ Asked(pr[t], local[t])
  BY DEF Take, FitInv
<1>3. pr[t] \in PrivateType /\ local[t] \in LocalType
  BY DEF IInv, Typed, ThreadsTyped
<1>4. CASE ~CasHolds(t)
  BY <1>2, <1>4 DEF Take, Go, FitInv, loop, IInv, Typed, ThreadsTyped
<1>5. CASE CasHolds(t)
  <2>1. pc' = [pc EXCEPT ![t] = "next"]
    BY <1>1, <1>5 DEF Take, Go
  <2>2. Keep(t)
    BY <1>5 DEF Take
  <2>3. Fits(pr'[t]) /\ \A u \in Threads : u # t => pr'[u] = pr[u]
    <3> DEFINE new == pr[t].remaining = 0
               from == IF new THEN local[t].chunk ELSE pr[t].remaining
               kept == [pr[t] EXCEPT !.size = local[t].chunk,
                                     !.remaining = from - local[t].size,
                                     !.sub = IF new THEN local[t].size ELSE pr[t].sub,
                                     !.taken = pr[t].taken + 1]
    <3>1. pr' = [pr EXCEPT ![t] =
                   [[pr[t] EXCEPT !.size = local[t].chunk,
                                  !.remaining = from - local[t].size,
                                  !.sub = IF new THEN local[t].size ELSE pr[t].sub]
                      EXCEPT !.taken = pr[t].taken + 1]]
      BY <1>1, <1>3, <2>2 DEF Keep, Finished, PrivateType
    <3>2. Fits(kept)
      BY <1>2, <1>3, KeepFits
    <3> QED BY <3>1, <3>2 DEF IInv, Typed, ThreadsTyped
  <2>4. \A u \in Threads : u # t => local'[u] = local[u] /\ pc'[u] = pc[u]
    BY <1>5, <2>1 DEF Take, IInv, Typed, ThreadsTyped
  <2> QED BY <1>2, <2>1, <2>3, <2>4 DEF FitInv, loop, IInv, Typed, ThreadsTyped
<1> QED BY <1>4, <1>5

LEMMA FitNext == IInv /\ FitInv /\ [Next]_vars => FitInv'
<1> SUFFICES ASSUME IInv, FitInv, [Next]_vars, schedule' \in Factoring, minChunk' = 1
             PROVE  FitInv'
  BY DEF FitInv
<1>1. schedule \in Factoring /\ minChunk = 1
  <2>1. ASSUME NEW t \in Threads, Step(t) PROVE schedule' = schedule /\ minChunk' = minChunk
    BY <2>1, StepFrame
  <2>2. CASE Barrier
    BY <2>2, BarrierFrame
  <2> QED BY <2>1, <2>2 DEF Next, Finish, vars, loop
<1>2. schedule \notin {"awf", "bold"} \cup Rated
  BY <1>1, FactoringOnly
<1>3. \A t \in Threads : pc[t] \in {"init", "next", "read", "cas", "barrier", "end"}
  BY <1>1 DEF FitInv
<1>4. ASSUME NEW t \in Threads, Step(t) PROVE FitInv'
  <2>1. Enter(t) \/ Measure(t) \/ ReadCursor(t) \/ Take(t)
    BY <1>2, <1>3, <1>4 DEF Step, AwfEnter, AwfRecord, AwfOpen, AwfWeigh, Number, Share, Gather,
           BoldDone, BoldSlow, BoldSpeed, AwfAccount, AwfReset, AwfUpdate
  <2>2. CASE Enter(t)
    BY <1>1, <2>2, NewFits DEF Enter, Go, FitInv, IInv, Typed, ThreadsTyped
  <2>3. CASE Measure(t)
    BY <1>1, <2>3 DEF Measure, Go, FitInv, IInv, Typed, ThreadsTyped
  <2> QED BY <1>1, <2>1, <2>2, <2>3, ReadFits, TakeFits
<1>5. CASE Barrier
  BY <1>1, <1>5 DEF Barrier, FitInv, IInv, Typed, ThreadsTyped
<1>6. CASE UNCHANGED vars
  BY <1>6 DEF vars, loop, FitInv
<1> QED BY <1>4, <1>5, <1>6 DEF Next, Finish

\* AF and AF_a with no minimum: what a thread has left of its chunk stays between
\* nothing and the chunk, for every team, divider and sizes computed from what was
\* measured, so that the thread comes to the end of the chunk and adapts again.
THEOREM AdaptiveSubChunksFit == Spec => []SubChunksFit
<1>1. Init => FitInv
  BY FitInit
<1>2. IInv /\ FitInv /\ [Next]_vars => FitInv'
  BY FitNext
<1>3. FitInv => SubChunksFit
  BY DEF FitInv, SubChunksFit, Fits
<1> QED BY <1>1, <1>2, <1>3, Inductive, PTL DEF Spec
---------------------------------------------------------------------------
(***************************************************************************)
(* AWF-B to E: the size a thread is about to take is the one that its      *)
(* rates gave when it read the cursor.                                     *)
(***************************************************************************)
WeighedInv ==
    schedule \in Rated => \A t \in Threads : pc[t] = "cas" =>
      LET base == Base(t, trip - local[t].init)
      IN  local[t].size = AtLeast(IF pr[t].taken = 0 THEN base
                                    ELSE Weighted(base, local[t].seen, t), minChunk)

LEMMA WeighedRead ==
    ASSUME IInv, NEW t \in Threads, ReadCursor(t), iteration < trip, schedule \in Rated
    PROVE  LET base == Base(t, trip - local'[t].init)
           IN  /\ local'[t].size = AtLeast(IF pr[t].taken = 0 THEN base
                                             ELSE Weighted(base, local'[t].seen, t), minChunk)
               /\ local'[t].number = local[t].number
<1>0. local \in [Threads -> LocalType]
  BY DEF IInv, Typed, ThreadsTyped
<1>1. PICK c \in Computed(t, trip - iteration) :
         local' = [local EXCEPT ![t].init = iteration, ![t].size = c.size, ![t].chunk = c.chunk]
  BY DEF ReadCursor
<1> DEFINE new == [local[t] EXCEPT !.init = iteration, !.size = c.size, !.chunk = c.chunk]
<1>2. local' = [local EXCEPT ![t] = new]
  BY <1>0, <1>1 DEF LocalType
<1>3. /\ new.size = c.size /\ new.init = iteration /\ new.seen = local[t].seen
      /\ new.number = local[t].number
  BY <1>0 DEF LocalType
<1> HIDE DEF new
<1>4. local'[t] = new
  BY <1>0, <1>2
<1> DEFINE base == Base(t, trip - iteration)
           size == IF pr[t].taken = 0 THEN base ELSE Weighted(base, local[t].seen, t)
<1>5. c.size = AtLeast(size, minChunk)
  <2>1. schedule # "awf" /\ schedule # "bold" /\ schedule \notin Factoring
    BY DEF Rated, Batched, Chunked, Factoring
  <2>2. Computed(t, trip - iteration) = {[chunk |-> 0, size |-> AtLeast(s, minChunk)] : s \in {size}}
    BY <2>1 DEF Computed
  <2> HIDE DEF size
  <2> QED BY <2>2
<1> QED BY <1>3, <1>4, <1>5

LEMMA WeighedNext == IInv /\ WeighedInv /\ [Next]_vars => WeighedInv'
<1> SUFFICES ASSUME IInv, WeighedInv, [Next]_vars PROVE WeighedInv'
  OBVIOUS
<1>1. ASSUME NEW t \in Threads, Step(t) PROVE WeighedInv'
  <2>1. /\ schedule' = schedule /\ trip' = trip /\ minChunk' = minChunk /\ step' = step
        /\ \A u \in Threads \ {t} : pc'[u] = pc[u] /\ pr'[u] = pr[u] /\ local'[u] = local[u]
        /\ pc'[t] = "cas" => ReadCursor(t)
    BY <1>1, StepFrame
  <2>2. SUFFICES ASSUME schedule \in Rated, NEW u \in Threads, pc'[u] = "cas"
                 PROVE  (LET base == Base(u, trip - local[u].init)
                         IN  local[u].size = AtLeast(IF pr[u].taken = 0 THEN base
                                    ELSE Weighted(base, local[u].seen, u), minChunk))'
    BY <2>1 DEF WeighedInv
  <2>3. CASE u # t
    <3>1. pc[u] = "cas" /\ pr'[u] = pr[u] /\ local'[u] = local[u]
      BY <2>1, <2>2, <2>3
    <3> QED BY <2>1, <2>2, <3>1 DEF WeighedInv, Base, FirstSize, Halvings
  <2>4. CASE u = t
    <3>1. ReadCursor(t) /\ pr' = pr /\ pc'[t] = "cas"
      BY <2>1, <2>2, <2>4 DEF ReadCursor
    <3>2. iteration < trip
      BY <3>1, <2>2, ReadFacts
    <3> QED BY <2>1, <2>2, <2>4, <3>1, <3>2, WeighedRead DEF Base, FirstSize, Halvings
  <2> QED BY <2>3, <2>4
<1>2. CASE Barrier
  BY <1>2, BarrierFrame DEF WeighedInv
<1>3. CASE UNCHANGED vars
  BY <1>3 DEF vars, loop, WeighedInv, Base, FirstSize, Halvings
<1> QED BY <1>1, <1>2, <1>3 DEF Next, Finish

LEMMA WeighedEqual == IInv /\ WeighedInv => EqualRatesEqualChunks
<1> SUFFICES ASSUME IInv, WeighedInv, schedule \in Rated, NEW t \in Threads, pc[t] = "cas",
                    \A i \in Threads : local[t].seen[i] \in {0, local[t].seen[t]}
             PROVE  local[t].size = AtLeast(Base(t, trip - local[t].init), minChunk)
  BY DEF EqualRatesEqualChunks
<1>1. local[t] \in LocalType /\ pr[t] \in PrivateType /\ trip \in Trips
  BY DEF IInv, Typed, LoopTyped, ThreadsTyped
<1>2. local[t].number \in Nat /\ local[t].init \in Nat /\ trip \in Nat
      /\ local[t].seen \in [Threads -> Rates \cup {0}] /\ pr[t].taken \in Nat
  BY <1>1, Parameters DEF LocalType, PrivateType
<1> DEFINE base == Base(t, trip - local[t].init)
<1>3. base \in Int
  BY <1>1, <1>2, BaseInt
<1> HIDE DEF base
<1>4. local[t].size = AtLeast(IF pr[t].taken = 0 THEN base
                                ELSE Weighted(base, local[t].seen, t), minChunk)
  BY DEF WeighedInv, base
<1>5. CASE pr[t].taken = 0
  BY <1>4, <1>5 DEF base
<1>6. CASE pr[t].taken # 0
  <2>1. local[t].seen[t] # 0
    BY <1>2, <1>6 DEF IInv, Measured
  <2>2. Weighted(base, local[t].seen, t) = base
    BY <1>2, <1>3, <2>1, EqualWeight
  <2> QED BY <1>4, <1>6, <2>2 DEF base
<1> QED BY <1>5, <1>6

\* AWF-B to E: a thread that knows only rates equal to its own takes a chunk of the
\* unweighted size, for every team, loop and set of rates.
THEOREM AdaptiveEqualRates == Spec => []EqualRatesEqualChunks
<1>1. Init => WeighedInv
  BY DEF Init, WeighedInv
<1> QED BY <1>1, WeighedNext, WeighedEqual, Inductive, PTL DEF Spec
---------------------------------------------------------------------------
(***************************************************************************)
(* BOLD: what separate atomic operations do to the two sums.  Between      *)
(* them, each sum is what it should be and what threads still owe it.      *)
(***************************************************************************)
\* The iterations that t took and has not yet reported as done, and the speed it
\* has added and not yet taken back.
Undone == [t \in Threads |-> IF pc[t] \in {"speed", "next"} THEN pr[t].mine ELSE 0]
Running == [t \in Threads |-> IF pc[t] \in {"next", "slow"} THEN pr[t].speed ELSE 0]

BoldPlaces == {"init", "next", "slow", "read", "cas", "speed", "barrier", "end"}
BoldInv ==
    schedule = "bold" =>
      /\ \A t \in Threads : pc[t] \in BoldPlaces /\ pr[t].speed \in Nat
      /\ bold_m = trip - iteration + Total(Undone)
      /\ total_speed = Total(Running)

LEMMA BoldFunctions ==
    ASSUME IInv, BoldInv, schedule = "bold"
    PROVE  /\ Undone \in [Threads -> Nat] /\ Undone \in [Threads -> Int]
           /\ Running \in [Threads -> Nat] /\ Running \in [Threads -> Int]
           /\ trip \in Nat /\ iteration \in Nat
<1>1. \A t \in Threads : pr[t].mine \in Nat /\ pr[t].speed \in Nat
  <2>1. \A t \in Threads : pr[t] \in PrivateType
    BY DEF IInv, Typed, ThreadsTyped
  <2>2. \A p \in PrivateType : p.mine \in Nat
    BY DEF PrivateType
  <2> QED BY <2>1, <2>2 DEF BoldInv
<1>2. trip \in Nat /\ iteration \in Nat
  BY Parameters DEF IInv, Typed, LoopTyped
<1> QED BY <1>1, <1>2 DEF Undone, Running

\* A step of t changes its own terms only.
LEMMA BoldShift ==
    ASSUME IInv, BoldInv, schedule = "bold", NEW t \in Threads, Step(t),
           pr'[t].speed \in Nat, pr'[t].mine \in Nat, pc'[t] \in BoldPlaces,
           bold_m' = bold_m + (iteration - iteration') + (Undone'[t] - Undone[t]),
           total_speed' = total_speed + (Running'[t] - Running[t]), iteration' \in Nat
    PROVE  BoldInv'
<1>0. /\ Undone \in [Threads -> Nat] /\ Undone \in [Threads -> Int]
      /\ Running \in [Threads -> Nat] /\ Running \in [Threads -> Int]
      /\ trip \in Nat /\ iteration \in Nat
  BY BoldFunctions
<1>1. /\ schedule' = schedule /\ trip' = trip
      /\ \A u \in Threads \ {t} : pc'[u] = pc[u] /\ pr'[u] = pr[u]
  BY StepFrame
<1>2. \A u \in Threads \ {t} : Undone'[u] = Undone[u] /\ Running'[u] = Running[u]
  BY <1>1 DEF Undone, Running
<1>3. Undone'[t] \in Nat /\ Running'[t] \in Nat
  BY DEF Undone, Running
<1>4. Undone' \in [Threads -> Int] /\ Running' \in [Threads -> Int]
  <2>1. \A u \in Threads : Undone'[u] \in Int /\ Running'[u] \in Int
    BY <1>0, <1>2, <1>3
  <2>2. Undone' = [u \in Threads |-> Undone'[u]] /\ Running' = [u \in Threads |-> Running'[u]]
    BY DEF Undone, Running
  <2> QED BY <2>1, <2>2
<1>5. Total(Undone) \in Int /\ Total(Undone') = Total(Undone) + Undone'[t] - Undone[t]
  BY <1>0, <1>2, <1>4, TotalShift
<1>6. Total(Running) \in Int /\ Total(Running') = Total(Running) + Running'[t] - Running[t]
  BY <1>0, <1>2, <1>4, TotalShift
<1>7. bold_m = trip - iteration + Total(Undone) /\ total_speed = Total(Running)
  BY DEF BoldInv
<1>8. Undone[t] \in Int /\ Running[t] \in Int
  BY <1>0
<1>9. bold_m' = trip - iteration' + Total(Undone') /\ total_speed' = Total(Running')
  BY <1>0, <1>3, <1>5, <1>6, <1>7, <1>8
<1>10. \A u \in Threads : pc'[u] \in BoldPlaces /\ pr'[u].speed \in Nat
  BY <1>1 DEF BoldInv
<1>11. Total(Undone)' = Total(Undone') /\ Total(Running)' = Total(Running')
  BY DEF Total, MapThenSumSet, MapThenFoldSet
<1> QED BY <1>1, <1>9, <1>10, <1>11 DEF BoldInv

LEMMA SpeedNat ==
    ASSUME NEW cs \in Nat, cs > 0
    PROVE  Speed(cs) \in Nat
<1>1. cs * Mu \in Nat \ {0}
  BY Parameters, Products
<1>2. cs * Mu + Overhead \in Nat /\ cs * Mu + Overhead > 0
  BY <1>1, Parameters
<1>3. \A a \in Nat : \A b \in Nat : b > 0 => a \div b \in Nat
  OBVIOUS
<1>4. 1000 * cs \in Nat
  OBVIOUS
<1> QED BY <1>2, <1>3, <1>4 DEF Speed

LEMMA BoldOnly == schedule = "bold" => schedule \notin {"awf"} \cup Rated \cup Factoring
  BY DEF Factoring, Rated, Batched, Chunked

\* What the thread that takes a chunk remembers for the sums.
LEMMA BoldKept ==
    ASSUME IInv, schedule = "bold", NEW t \in Threads, Take(t), CasHolds(t)
    PROVE  /\ pr'[t].mine = local[t].size /\ pr'[t].speed = Speed(local[t].size)
           /\ local[t].size \in Nat /\ local[t].size > 0 /\ iteration' = iteration + local[t].size
<1>1. local[t].size \in Nat /\ local[t].size > 0 /\ iteration' = iteration + local[t].size
  BY Taken
<1>2. pr[t] \in PrivateType /\ pr \in [Threads -> PrivateType]
  BY ThreadFacts
<1> DEFINE first == [pr[t] EXCEPT !.mine = local[t].size, !.speed = Speed(local[t].size)]
<1>3. pr' = [pr EXCEPT ![t] = [first EXCEPT !.taken = @ + 1]]
  <2>1. Keep(t)
    BY DEF Take
  <2> DEFINE new == Finished(t)
             from == IF new THEN local[t].chunk ELSE pr[t].remaining
             other == [pr[t] EXCEPT !.size = local[t].chunk, !.remaining = from - local[t].size,
                                    !.sub = IF new THEN local[t].size ELSE pr[t].sub]
             mine == CASE schedule = "bold" -> first
                       [] schedule \in Factoring -> other
                       [] OTHER -> pr[t]
  <2>2. pr' = [pr EXCEPT ![t] = [mine EXCEPT !.taken = @ + 1]]
    BY <2>1 DEF Keep
  <2>3. mine = first
    <3> HIDE DEF other, first
    <3>1. schedule \notin Factoring
      BY BoldOnly
    <3> QED BY <3>1
  <2> HIDE DEF mine, first
  <2> QED BY <2>2, <2>3
<1>4. [first EXCEPT !.taken = @ + 1].mine = local[t].size
      /\ [first EXCEPT !.taken = @ + 1].speed = Speed(local[t].size)
  BY <1>2 DEF PrivateType
<1> HIDE DEF first
<1> QED BY <1>1, <1>2, <1>3, <1>4

LEMMA BoldStep ==
    ASSUME IInv, BoldInv, schedule = "bold", NEW t \in Threads, Step(t)
    PROVE  BoldInv'
<1>0. /\ pc \in [Threads -> Places] /\ pr \in [Threads -> PrivateType] /\ iteration \in Nat
      /\ pr[t].speed \in Nat /\ pr[t].mine \in Nat /\ pc[t] \in BoldPlaces
      /\ schedule \notin {"awf"} \cup Rated \cup Factoring
  <2>1. /\ pc \in [Threads -> Places] /\ pr \in [Threads -> PrivateType] /\ iteration \in Nat
    BY DEF IInv, Typed, LoopTyped, ThreadsTyped
  <2>2. pr[t].mine \in Nat
    BY <2>1 DEF PrivateType
  <2> QED BY <2>1, <2>2, BoldOnly DEF BoldInv
<1>1. /\ Undone \in [Threads -> Int] /\ Running \in [Threads -> Int]
      /\ trip \in Nat /\ bold_m \in Int /\ total_speed \in Int
  <2>1. Total(Undone) \in Nat /\ Total(Running) \in Nat
    BY BoldFunctions, TotalCovers
  <2> QED BY <2>1, BoldFunctions DEF BoldInv
<1>2. Enter(t) \/ BoldDone(t) \/ BoldSlow(t) \/ ReadCursor(t) \/ Take(t) \/ BoldSpeed(t)
  BY <1>0 DEF Step, BoldPlaces, AwfEnter, AwfRecord, AwfOpen, AwfWeigh, Number, Share, Gather,
              Measure, AwfAccount, AwfReset, AwfUpdate
<1>3. /\ Undone[t] = IF pc[t] \in {"speed", "next"} THEN pr[t].mine ELSE 0
      /\ Running[t] = IF pc[t] \in {"next", "slow"} THEN pr[t].speed ELSE 0
      /\ Undone'[t] = IF pc'[t] \in {"speed", "next"} THEN pr'[t].mine ELSE 0
      /\ Running'[t] = IF pc'[t] \in {"next", "slow"} THEN pr'[t].speed ELSE 0
  BY DEF Undone, Running
<1>4. CASE Enter(t)
  <2>1. pr'[t] = NewPrivate /\ pc[t] = "init" /\ pc'[t] = "next"
        /\ bold_m' = bold_m /\ total_speed' = total_speed /\ iteration' = iteration
    BY <1>0, <1>4 DEF Enter, Go, bold
  <2>2. pr'[t].mine = 0 /\ pr'[t].speed = 0
    BY <2>1 DEF NewPrivate
  <2>3. Undone[t] = 0 /\ Undone'[t] = 0 /\ Running[t] = 0 /\ Running'[t] = 0
    BY <1>3, <2>1, <2>2
  <2> QED BY <1>0, <1>1, <2>1, <2>2, <2>3, BoldShift DEF BoldPlaces
<1>5. CASE BoldDone(t)
  <2>1. pr' = pr /\ pc[t] = "next" /\ pc'[t] = "slow" /\ bold_m' = bold_m - pr[t].mine
        /\ total_speed' = total_speed /\ iteration' = iteration
    BY <1>0, <1>5 DEF BoldDone, Go
  <2>2. Undone[t] = pr[t].mine /\ Undone'[t] = 0 /\ Running'[t] = Running[t] /\ Running[t] \in Nat
    BY <1>0, <1>3, <2>1
  <2> QED BY <1>0, <1>1, <2>1, <2>2, BoldShift DEF BoldPlaces
<1>6. CASE BoldSlow(t)
  <2>1. pr' = pr /\ pc[t] = "slow" /\ pc'[t] = "read" /\ bold_m' = bold_m
        /\ total_speed' = total_speed - pr[t].speed /\ iteration' = iteration
    BY <1>0, <1>6 DEF BoldSlow, OldSpeed, Go
  <2>2. Undone[t] = 0 /\ Undone'[t] = 0 /\ Running'[t] = 0 /\ Running[t] = pr[t].speed
    BY <1>0, <1>3, <2>1
  <2> QED BY <1>0, <1>1, <2>1, <2>2, BoldShift DEF BoldPlaces
<1>7. CASE ReadCursor(t)
  <2>1. pr' = pr /\ pc[t] = "read" /\ pc'[t] \in {"cas", "barrier"} /\ bold_m' = bold_m
        /\ total_speed' = total_speed /\ iteration' = iteration
    BY <1>0, <1>7, ReadFacts DEF ReadCursor, bold
  <2>2. Undone[t] = 0 /\ Undone'[t] = 0 /\ Running'[t] = 0 /\ Running[t] = 0
    BY <1>0, <1>3, <2>1
  <2> QED BY <1>0, <1>1, <2>1, <2>2, BoldShift DEF BoldPlaces
<1>8. CASE Take(t) /\ CasHolds(t)
  <2>1. /\ pr'[t].mine = local[t].size /\ pr'[t].speed = Speed(local[t].size)
        /\ local[t].size \in Nat /\ local[t].size > 0 /\ iteration' = iteration + local[t].size
    BY <1>8, BoldKept
  <2>2. pc[t] = "cas" /\ pc'[t] = "speed" /\ bold_m' = bold_m /\ total_speed' = total_speed
    BY <1>0, <1>8 DEF Take, Go, bold
  <2>3. Speed(local[t].size) \in Nat
    BY <2>1, SpeedNat
  <2>4. Undone[t] = 0 /\ Undone'[t] = local[t].size /\ Running'[t] = 0 /\ Running[t] = 0
    BY <1>3, <2>1, <2>2
  <2> QED BY <1>0, <1>1, <2>1, <2>2, <2>3, <2>4, BoldShift DEF BoldPlaces
<1>9. CASE Take(t) /\ ~CasHolds(t)
  <2>1. pr' = pr /\ pc[t] = "cas" /\ pc'[t] = "read" /\ bold_m' = bold_m
        /\ total_speed' = total_speed /\ iteration' = iteration
    BY <1>0, <1>9 DEF Take, Go, bold
  <2>2. Undone[t] = 0 /\ Undone'[t] = 0 /\ Running'[t] = 0 /\ Running[t] = 0
    BY <1>3, <2>1
  <2> QED BY <1>0, <1>1, <2>1, <2>2, BoldShift DEF BoldPlaces
<1>10. CASE BoldSpeed(t)
  <2>1. pr' = pr /\ pc[t] = "speed" /\ pc'[t] = "next" /\ bold_m' = bold_m
        /\ total_speed' = total_speed + pr[t].speed /\ iteration' = iteration
    BY <1>0, <1>10 DEF BoldSpeed, Go
  <2>2. /\ Undone'[t] = Undone[t] /\ Undone[t] \in Nat
        /\ Running[t] = 0 /\ Running'[t] = pr[t].speed
    BY <1>0, <1>3, <2>1
  <2> QED BY <1>0, <1>1, <2>1, <2>2, BoldShift DEF BoldPlaces
<1> QED BY <1>2, <1>4, <1>5, <1>6, <1>7, <1>8, <1>9, <1>10

\* Before and between executions nothing is under way.
LEMMA BoldNothing ==
    ASSUME \A t \in Threads : pc[t] \in {"init", "read", "cas", "barrier", "end"}
    PROVE  Total(Undone) = 0 /\ Total(Running) = 0
<1>1. Undone \in [Threads -> {0}] /\ Running \in [Threads -> {0}]
  BY DEF Undone, Running
<1> QED BY <1>1, TotalZero

LEMMA BoldNext == IInv /\ BoldInv /\ [Next]_vars => BoldInv'
<1> SUFFICES ASSUME IInv, BoldInv, [Next]_vars PROVE BoldInv'
  OBVIOUS
<1>1. ASSUME NEW t \in Threads, Step(t) PROVE BoldInv'
  <2>1. schedule' = schedule
    BY <1>1, StepFrame
  <2>2. CASE schedule # "bold"
    BY <2>1, <2>2 DEF BoldInv
  <2> QED BY <1>1, <2>2, BoldStep
<1>2. CASE Barrier
  <2>1. /\ schedule' = schedule /\ trip' = trip /\ iteration' = 0 /\ bold_m' = trip
        /\ total_speed' = 0 /\ pr' = pr
        /\ pc' = [t \in Threads |-> IF step' = Steps THEN "end" ELSE "init"]
    BY <1>2, BarrierFrame
  <2>2. \A t \in Threads : pc'[t] \in {"init", "end"}
    BY <2>1
  <2>3. Undone' \in [Threads -> {0}] /\ Running' \in [Threads -> {0}]
    BY <2>2 DEF Undone, Running
  <2>4. Total(Undone') = 0 /\ Total(Running') = 0
    BY <2>3, TotalZero
  <2>5. Total(Undone)' = 0 /\ Total(Running)' = 0
    <3>1. Total(Undone)' = Total(Undone') /\ Total(Running)' = Total(Running')
      BY DEF Total, MapThenSumSet, MapThenFoldSet
    <3> QED BY <2>4, <3>1
  <2>6. trip \in Nat
    BY Parameters DEF IInv, Typed, LoopTyped
  <2> QED BY <2>1, <2>2, <2>5, <2>6 DEF BoldInv, BoldPlaces
<1>3. CASE UNCHANGED vars
  <2>1. /\ schedule' = schedule /\ trip' = trip /\ iteration' = iteration /\ bold_m' = bold_m
        /\ total_speed' = total_speed /\ pr' = pr /\ pc' = pc
    BY <1>3 DEF vars, loop, bold
  <2>2. Undone' = Undone /\ Running' = Running
    BY <2>1 DEF Undone, Running
  <2>3. Total(Undone)' = Total(Undone) /\ Total(Running)' = Total(Running)
    <3>1. Total(Undone)' = Total(Undone') /\ Total(Running)' = Total(Running')
      BY DEF Total, MapThenSumSet, MapThenFoldSet
    <3> QED BY <2>2, <3>1
  <2> QED BY <2>1, <2>3 DEF BoldInv
<1> QED BY <1>1, <1>2, <1>3 DEF Next, Finish

LEMMA BoldInit == Init => BoldInv
<1> SUFFICES ASSUME Init PROVE BoldInv
  OBVIOUS
<1>1. \A t \in Threads : pc[t] = "init" /\ pr[t].speed = 0
  BY DEF Init, NewPrivate
<1>2. Total(Undone) = 0 /\ Total(Running) = 0
  BY <1>1, BoldNothing
<1>3. trip \in Nat /\ iteration = 0 /\ bold_m = trip /\ total_speed = 0
  BY Parameters DEF Init
<1> QED BY <1>1, <1>2, <1>3 DEF BoldInv, BoldPlaces

LEMMA BoldBalance == IInv /\ BoldInv => SumsBalance
<1> SUFFICES ASSUME IInv, BoldInv, schedule = "bold" PROVE SumsBalance
  BY DEF SumsBalance
<1>1. Total(Undone) \in Nat /\ Total(Running) \in Nat /\ trip \in Nat /\ iteration \in Nat
  BY BoldFunctions, TotalCovers
<1>2. bold_m = trip - iteration + Total(Undone) /\ total_speed = Total(Running)
  BY DEF BoldInv
<1>3. (\A t \in Threads : pc[t] = "barrier") => Total(Running) = 0
  BY BoldNothing
<1> QED BY <1>1, <1>2, <1>3 DEF SumsBalance

\* BOLD: the sums that threads update by separate atomic operations never lose a
\* chunk, for every team and loop and whatever sizes are computed.
THEOREM AdaptiveSumsBalance == Spec => []SumsBalance
  BY BoldInit, BoldNext, BoldBalance, Inductive, PTL DEF Spec
---------------------------------------------------------------------------
(***************************************************************************)
(* AWF: an execution of the loop goes through phases.  One thread writes   *)
(* the record of the execution before any other works, and the last one    *)
(* to account closes it.                                                   *)
(***************************************************************************)
Entered == {t \in Threads : pc[t] # "init"}
Accounted == {t \in Threads : pc[t] = "barrier"}
Unmarked == AWFEnter = 0 /\ AWFWait = 1 /\ AWFCounter = 0

AwfFresh == Unmarked /\ data.timeStep = step /\ iteration = 0 /\ \A t \in Threads : pc[t] = "init"
AwfRecording(p) ==
    /\ AWFEnter = Cardinality(Entered) /\ AWFEnter # 0 /\ AWFWait = 1 /\ AWFCounter = 0
    /\ iteration = 0 /\ data.timeStep = step + (IF pc[p] = "open" THEN 1 ELSE 0)
    /\ pc[p] \in {"record", "open"} /\ \A u \in Threads \ {p} : pc[u] \in {"init", "wait"}
AwfWorking ==
    /\ AWFEnter = Cardinality(Entered) /\ AWFEnter # 0 /\ AWFWait = 0
    /\ AWFCounter = Cardinality(Accounted) /\ AWFCounter < NProc /\ data.timeStep = step + 1
    /\ \A t \in Threads :
         pc[t] \in {"init", "wait", "weigh", "next", "read", "cas", "account", "barrier"}
AwfResetting(p) ==
    /\ AWFEnter \in 0 .. NProc /\ AWFWait = 0 /\ AWFCounter = NProc /\ data.timeStep = step + 1
    /\ pc[p] = "reset" /\ \A u \in Threads \ {p} : pc[u] = "barrier"
AwfClosed(p) ==
    /\ Unmarked /\ data.timeStep = step + 1
    /\ pc[p] \in {"update", "barrier"} /\ \A u \in Threads \ {p} : pc[u] = "barrier"
AwfEnded == Unmarked /\ data.timeStep = step /\ iteration = 0 /\ \A t \in Threads : pc[t] = "end"

PhaseInv ==
    schedule = "awf" =>
      \/ AwfFresh \/ AwfWorking \/ AwfEnded
      \/ \E p \in Threads : AwfRecording(p) \/ AwfResetting(p) \/ AwfClosed(p)

LEMMA EnteredFinite ==
    /\ IsFiniteSet(Entered) /\ Cardinality(Entered) \in 0 .. NProc
    /\ IsFiniteSet(Accounted) /\ Cardinality(Accounted) \in 0 .. NProc
<1>1. Entered \in SUBSET Threads /\ Accounted \in SUBSET Threads
  BY DEF Entered, Accounted
<1>2. /\ IsFiniteSet(Entered) /\ Cardinality(Entered) <= NProc
      /\ IsFiniteSet(Accounted) /\ Cardinality(Accounted) <= NProc
  BY <1>1, ThreadsFinite, FS_Subset
<1>3. Cardinality(Entered) \in Nat /\ Cardinality(Accounted) \in Nat
  BY <1>2, FS_CardinalityType
<1> QED BY <1>2, <1>3, Parameters

\* A thread that moves on, once the execution is open, and neither enters nor leaves.
LEMMA WorkingMoves ==
    ASSUME AwfWorking, pc \in [Threads -> Places], NEW t \in Threads,
           pc[t] \in {"wait", "weigh", "next", "read", "cas", "account"},
           NEW q \in {"next", "read", "cas", "account"}, pc' = [pc EXCEPT ![t] = q],
           UNCHANGED flags, data'.timeStep = data.timeStep, step' = step
    PROVE  AwfWorking'
<1>1. Entered' = Entered /\ Accounted' = Accounted
  BY DEF Entered, Accounted
<1> QED BY <1>1 DEF AwfWorking, flags

LEMMA AwfEnterPhase ==
    ASSUME IInv, PhaseInv, schedule = "awf", NEW t \in Threads, AwfEnter(t)
    PROVE  PhaseInv'
<1>0. /\ pc \in [Threads -> Places] /\ pc[t] = "init" /\ AWFEnter' = AWFEnter + 1
      /\ pc' = [pc EXCEPT ![t] = IF AWFEnter = 0 THEN "record" ELSE "wait"]
      /\ schedule' = schedule /\ step' = step /\ iteration' = iteration /\ data' = data
      /\ AWFWait' = AWFWait /\ AWFCounter' = AWFCounter
  BY DEF AwfEnter, Go, loop, IInv, Typed, ThreadsTyped
<1>1. Entered' = Entered \cup {t} /\ t \notin Entered
  BY <1>0 DEF Entered
<1>2. Cardinality(Entered') = Cardinality(Entered) + 1
  <2>1. IsFiniteSet(Entered)
    BY EnteredFinite
  <2> QED BY <1>1, <2>1, FS_AddElement
<1>3. CASE AwfFresh
  <2>1. pc' = [pc EXCEPT ![t] = "record"] /\ AWFEnter' = 1
    BY <1>0, <1>3 DEF AwfFresh, Unmarked
  <2>2. Entered = {}
    BY <1>3 DEF AwfFresh, Entered
  <2>3. Cardinality(Entered') = 1
    BY <1>2, <2>2, FS_EmptySet
  <2>4. AwfRecording(t)'
    BY <1>0, <1>3, <2>1, <2>3 DEF AwfFresh, AwfRecording, Unmarked, IInv, Typed, LoopTyped
  <2> QED BY <2>4 DEF PhaseInv
<1>4. ASSUME NEW p \in Threads, AwfRecording(p) PROVE PhaseInv'
  <2>1. pc' = [pc EXCEPT ![t] = "wait"] /\ p # t
    BY <1>0, <1>4 DEF AwfRecording
  <2>2. AwfRecording(p)'
    BY <1>0, <1>2, <1>4, <2>1, EnteredFinite DEF AwfRecording
  <2> QED BY <2>2 DEF PhaseInv
<1>5. CASE AwfWorking
  <2>1. pc' = [pc EXCEPT ![t] = "wait"]
    BY <1>0, <1>5 DEF AwfWorking
  <2>2. Accounted' = Accounted
    BY <1>0, <2>1 DEF Accounted
  <2>3. AwfWorking'
    BY <1>0, <1>2, <1>5, <2>1, <2>2, EnteredFinite DEF AwfWorking
  <2> QED BY <2>3 DEF PhaseInv
<1>6. ~AwfEnded /\ \A p \in Threads : ~AwfResetting(p) /\ ~AwfClosed(p)
  BY <1>0 DEF AwfEnded, AwfResetting, AwfClosed
<1> QED BY <1>3, <1>4, <1>5, <1>6 DEF PhaseInv

LEMMA AwfRecordPhase ==
    ASSUME IInv, PhaseInv, schedule = "awf", NEW t \in Threads, AwfRecord(t) \/ AwfOpen(t)
    PROVE  PhaseInv'
<1>0. /\ pc \in [Threads -> Places] /\ pc[t] \in {"record", "open"} /\ data \in DataType
      /\ schedule' = schedule /\ step' = step /\ iteration' = iteration
      /\ AWFEnter' = AWFEnter /\ AWFCounter' = AWFCounter /\ step \in Nat
  <2>1. step \in Nat
    BY Parameters DEF IInv, Typed, LoopTyped
  <2> QED BY <2>1 DEF AwfRecord, AwfOpen, loop, flags, IInv, Typed, ThreadsTyped
<1>1. PICK p \in Threads : AwfRecording(p)
  BY <1>0 DEF PhaseInv, AwfFresh, AwfWorking, AwfEnded, AwfResetting, AwfClosed
<1>2. p = t
  BY <1>0, <1>1 DEF AwfRecording
<1>3. CASE AwfRecord(t)
  <2>1. pc[t] = "record" /\ pc' = [pc EXCEPT ![t] = "open"] /\ AWFWait' = AWFWait
        /\ data' = [data EXCEPT !.timeStep = @ + 1]
    BY <1>3 DEF AwfRecord, Go, flags
  <2>2. data'.timeStep = step + 1
    BY <1>0, <1>1, <1>2, <2>1 DEF DataType, AwfRecording
  <2>3. Entered' = Entered
    BY <1>0, <2>1 DEF Entered
  <2>4. AwfRecording(t)'
    BY <1>0, <1>1, <1>2, <2>1, <2>2, <2>3 DEF AwfRecording
  <2> QED BY <2>4 DEF PhaseInv
<1>4. CASE AwfOpen(t)
  <2>1. pc[t] = "open" /\ pc' = [pc EXCEPT ![t] = "weigh"] /\ AWFWait' = AWFWait - 1 /\ data' = data
    BY <1>4 DEF AwfOpen, Go
  <2>2. Entered' = Entered /\ Accounted' = {}
    BY <1>0, <1>1, <1>2, <2>1 DEF Entered, Accounted, AwfRecording
  <2>3. Cardinality(Accounted') = 0
    BY <2>2, FS_EmptySet
  <2>4. AwfWorking'
    BY <1>0, <1>1, <1>2, <2>1, <2>2, <2>3, Parameters DEF AwfRecording, AwfWorking
  <2> QED BY <2>4 DEF PhaseInv
<1> QED BY <1>3, <1>4

\* A thread at one of these places: the execution is open.
LEMMA AtWork ==
    ASSUME PhaseInv, schedule = "awf", NEW t \in Threads,
           pc[t] \in {"weigh", "next", "read", "cas", "account"} \/ (pc[t] = "wait" /\ AWFWait # 1)
    PROVE  AwfWorking
<1>1. ~AwfFresh /\ ~AwfEnded
  BY DEF AwfFresh, AwfEnded
<1>2. ASSUME NEW p \in Threads, AwfRecording(p) \/ AwfResetting(p) \/ AwfClosed(p) PROVE FALSE
  BY <1>2 DEF AwfRecording, AwfResetting, AwfClosed, Unmarked
<1> QED BY <1>1, <1>2 DEF PhaseInv

LEMMA TakePlaces ==
    ASSUME IInv, schedule = "awf", NEW t \in Threads, Take(t)
    PROVE  /\ \E q \in {"read", "next"} : pc' = [pc EXCEPT ![t] = q]
           /\ data'.timeStep = data.timeStep /\ UNCHANGED flags /\ step' = step /\ pc[t] = "cas"
           /\ schedule' = schedule
<1>1. data \in DataType
  BY DEF IInv, Typed, ThreadsTyped
<1>2. CASE CasHolds(t)
  <2>1. PICK n : data' = [data EXCEPT !.workPerStep[t] = n]
    BY <1>2 DEF Take
  <2>2. data'.timeStep = data.timeStep
    BY <1>1, <2>1 DEF DataType
  <2>3. pc' = [pc EXCEPT ![t] = "next"]
    BY <1>2 DEF Take, Go
  <2> QED BY <2>2, <2>3 DEF Take, loop
<1>3. CASE ~CasHolds(t)
  <2>1. pc' = [pc EXCEPT ![t] = "read"] /\ data' = data
    BY <1>3 DEF Take, Go
  <2> QED BY <2>1 DEF Take, loop
<1> QED BY <1>2, <1>3

LEMMA AwfWorkPhase ==
    ASSUME IInv, PhaseInv, schedule = "awf", NEW t \in Threads,
           AwfWeigh(t) \/ Number(t) \/ ReadCursor(t) \/ Take(t)
    PROVE  PhaseInv'
<1>0. pc \in [Threads -> Places] /\ schedule \notin Rated
  BY DEF IInv, Typed, ThreadsTyped, Rated, Batched, Chunked
<1>1. /\ pc[t] \in {"wait", "weigh", "next", "read", "cas", "account"}
      /\ \E q \in {"next", "read", "cas", "account"} : pc' = [pc EXCEPT ![t] = q]
      /\ data'.timeStep = data.timeStep /\ UNCHANGED flags /\ step' = step
      /\ schedule' = schedule
  <2>1. CASE AwfWeigh(t)
    BY <2>1 DEF AwfWeigh, Go, loop
  <2>2. CASE Number(t)
    BY <1>0, <2>2 DEF Number, Go, loop
  <2>3. CASE ReadCursor(t)
    BY <2>3 DEF ReadCursor, Go, loop
  <2>4. CASE Take(t)
    BY <2>4, TakePlaces
  <2> QED BY <2>1, <2>2, <2>3, <2>4
<1>2. AwfWorking
  <2>1. CASE AwfWeigh(t)
    BY <2>1, AtWork DEF AwfWeigh
  <2>2. CASE ~AwfWeigh(t)
    <3>1. pc[t] \in {"next", "read", "cas"}
      BY <2>2 DEF Number, ReadCursor, Take
    <3> QED BY <3>1, AtWork
  <2> QED BY <2>1, <2>2
<1>3. AwfWorking'
  BY <1>0, <1>1, <1>2, WorkingMoves
<1> QED BY <1>3 DEF PhaseInv

LEMMA AwfAccountPhase ==
    ASSUME IInv, PhaseInv, schedule = "awf", NEW t \in Threads, AwfAccount(t)
    PROVE  PhaseInv'
<1>0. /\ pc \in [Threads -> Places] /\ data \in DataType /\ pc[t] = "account"
      /\ schedule' = schedule /\ step' = step /\ AWFCounter' = AWFCounter + 1
      /\ AWFEnter' = AWFEnter /\ AWFWait' = AWFWait
  BY DEF AwfAccount, loop, IInv, Typed, ThreadsTyped
<1>1. data'.timeStep = data.timeStep
  <2>1. PICK m, n : data' = [[data EXCEPT !.sumWorkPerStep[t] = m] EXCEPT !.workPerStep[t] = n]
    BY DEF AwfAccount
  <2>2. [data EXCEPT !.sumWorkPerStep[t] = m].timeStep = data.timeStep
    BY <1>0 DEF DataType
  <2> QED BY <1>0, <2>1, <2>2 DEF DataType
<1>2. AwfWorking
  BY <1>0, AtWork
<1>3. IsFiniteSet(Accounted) /\ t \notin Accounted /\ Accounted \in SUBSET Threads
  BY <1>0, EnteredFinite DEF Accounted
<1>4. IsFiniteSet(Accounted \cup {t}) /\ Cardinality(Accounted \cup {t}) = Cardinality(Accounted) + 1
  BY <1>3, FS_AddElement
<1>5. CASE AWFCounter = NProc - 1
  <2>1. pc' = [pc EXCEPT ![t] = "reset"]
    BY <1>5 DEF AwfAccount, Go
  <2>2. Cardinality(Accounted \cup {t}) = NProc
    BY <1>2, <1>4, <1>5, Parameters DEF AwfWorking
  <2>3. Accounted \cup {t} = Threads
    BY <1>3, <2>2, ThreadsFinite, FS_Subset
  <2>4. \A u \in Threads \ {t} : pc'[u] = "barrier"
    BY <1>0, <2>1, <2>3 DEF Accounted
  <2>5. AWFEnter \in 0 .. NProc
    BY <1>2, EnteredFinite DEF AwfWorking
  <2>6. AwfResetting(t)'
    BY <1>0, <1>1, <1>2, <1>5, <2>1, <2>4, <2>5, Parameters DEF AwfResetting, AwfWorking
  <2> QED BY <2>6 DEF PhaseInv
<1>6. CASE AWFCounter # NProc - 1
  <2>1. pc' = [pc EXCEPT ![t] = "barrier"]
    BY <1>6 DEF AwfAccount, Go
  <2>2. Accounted' = Accounted \cup {t} /\ Entered' = Entered
    BY <1>0, <2>1 DEF Accounted, Entered
  <2>3. AWFCounter \in Nat
    BY <1>2, EnteredFinite DEF AwfWorking
  <2>4. AwfWorking'
    BY <1>0, <1>1, <1>2, <1>4, <1>6, <2>1, <2>2, <2>3, Parameters DEF AwfWorking
  <2> QED BY <2>4 DEF PhaseInv
<1> QED BY <1>5, <1>6

LEMMA AwfClosePhase ==
    ASSUME IInv, PhaseInv, schedule = "awf", NEW t \in Threads, AwfReset(t) \/ AwfUpdate(t)
    PROVE  PhaseInv'
<1>0. /\ pc \in [Threads -> Places] /\ data \in DataType /\ pc[t] \in {"reset", "update"}
      /\ schedule' = schedule /\ step' = step
  BY DEF AwfReset, AwfUpdate, loop, IInv, Typed, ThreadsTyped
<1>1. PICK p \in Threads : AwfResetting(p) \/ AwfClosed(p)
  BY <1>0 DEF PhaseInv, AwfFresh, AwfWorking, AwfEnded, AwfRecording
<1>2. p = t
  BY <1>0, <1>1 DEF AwfResetting, AwfClosed
<1>3. CASE AwfReset(t)
  <2>1. pc[t] = "reset" /\ pc' = [pc EXCEPT ![t] = "update"] /\ Unmarked' /\ data' = data
    BY <1>3 DEF AwfReset, ClearCount, Unmarked, Go
  <2>2. AwfClosed(t)'
    BY <1>0, <1>1, <1>2, <2>1 DEF AwfResetting, AwfClosed
  <2> QED BY <2>2 DEF PhaseInv
<1>4. CASE AwfUpdate(t)
  <2>1. pc[t] = "update" /\ pc' = [pc EXCEPT ![t] = "barrier"] /\ UNCHANGED flags
    BY <1>4 DEF AwfUpdate, Go
  <2>2. data'.timeStep = data.timeStep
    <3>1. PICK w : data' = [data EXCEPT !.weights = w]
      BY <1>4 DEF AwfUpdate
    <3> QED BY <1>0, <3>1 DEF DataType
  <2>3. AwfClosed(t)'
    BY <1>0, <1>1, <1>2, <2>1, <2>2 DEF AwfResetting, AwfClosed, Unmarked, flags
  <2> QED BY <2>3 DEF PhaseInv
<1> QED BY <1>3, <1>4

\* When all threads are at the barrier, the record is closed.
LEMMA AllAtBarrier ==
    ASSUME PhaseInv, schedule = "awf", \A t \in Threads : pc[t] = "barrier"
    PROVE  Unmarked /\ data.timeStep = step + 1
<1>1. ~AwfFresh /\ ~AwfEnded
  BY Parameters DEF AwfFresh, AwfEnded
<1>2. ~AwfWorking
  <2>1. Accounted = Threads
    BY DEF Accounted
  <2>2. Cardinality(Accounted) = NProc
    BY <2>1, ThreadsFinite
  <2> QED BY <2>2, Parameters DEF AwfWorking
<1>3. \A p \in Threads : ~AwfRecording(p) /\ ~AwfResetting(p)
  BY DEF AwfRecording, AwfResetting
<1> QED BY <1>1, <1>2, <1>3 DEF PhaseInv, AwfClosed

LEMMA PhaseNext == IInv /\ PhaseInv /\ [Next]_vars => PhaseInv'
<1> SUFFICES ASSUME IInv, PhaseInv, [Next]_vars, schedule' = "awf" PROVE PhaseInv'
  BY DEF PhaseInv
<1>1. schedule = "awf"
  <2>1. ASSUME NEW t \in Threads, Step(t) PROVE schedule' = schedule
    BY <2>1, StepFrame
  <2>2. CASE Barrier
    BY <2>2, BarrierFrame
  <2> QED BY <2>1, <2>2 DEF Next, Finish, vars, loop
<1>2. ASSUME NEW t \in Threads, Step(t) PROVE PhaseInv'
  <2>1. pc[t] \notin {"share", "gather", "slow", "speed"}
    <3>1. ASSUME NEW p \in Threads, AwfRecording(p) \/ AwfResetting(p) \/ AwfClosed(p)
          PROVE  pc[t] \in {"record", "open", "init", "wait", "reset", "update", "barrier"}
      BY <3>1 DEF AwfRecording, AwfResetting, AwfClosed
    <3> QED BY <1>1, <3>1 DEF PhaseInv, AwfFresh, AwfWorking, AwfEnded
  <2>2. schedule \notin Factoring /\ schedule # "bold"
    BY <1>1 DEF Factoring
  <2>3. \/ AwfEnter(t) \/ AwfRecord(t) \/ AwfOpen(t) \/ AwfWeigh(t) \/ Number(t) \/ ReadCursor(t)
        \/ Take(t) \/ AwfAccount(t) \/ AwfReset(t) \/ AwfUpdate(t)
    BY <1>1, <1>2, <2>1, <2>2
       DEF Step, Enter, Share, Gather, BoldDone, BoldSlow, Measure, BoldSpeed
  <2> QED BY <1>1, <2>3, AwfEnterPhase, AwfRecordPhase, AwfWorkPhase, AwfAccountPhase, AwfClosePhase
<1>3. CASE Barrier
  <2>1. /\ schedule' = schedule /\ step' = step + 1 /\ data' = data /\ iteration' = 0
        /\ AWFEnter' = AWFEnter /\ AWFWait' = AWFWait /\ AWFCounter' = AWFCounter
        /\ \A t \in Threads : pc[t] = "barrier"
        /\ pc' = [t \in Threads |-> IF step' = Steps THEN "end" ELSE "init"]
    BY <1>3, BarrierFrame
  <2>2. Unmarked' /\ data'.timeStep = step'
    BY <1>1, <2>1, AllAtBarrier DEF Unmarked
  <2>3. CASE step' = Steps
    BY <2>1, <2>2, <2>3 DEF PhaseInv, AwfEnded
  <2>4. CASE step' # Steps
    BY <2>1, <2>2, <2>4 DEF PhaseInv, AwfFresh
  <2> QED BY <2>3, <2>4
<1>4. CASE UNCHANGED vars
  <2>1. schedule' = schedule /\ step' = step /\ data' = data /\ iteration' = iteration /\ pc' = pc
        /\ AWFEnter' = AWFEnter /\ AWFWait' = AWFWait /\ AWFCounter' = AWFCounter
    BY <1>4 DEF vars, loop, flags
  <2>2. Entered' = Entered /\ Accounted' = Accounted
    BY <2>1 DEF Entered, Accounted
  <2>3. \A p \in Threads : /\ AwfRecording(p) => AwfRecording(p)'
                           /\ AwfResetting(p) => AwfResetting(p)'
                           /\ AwfClosed(p) => AwfClosed(p)'
    BY <2>1, <2>2 DEF AwfRecording, AwfResetting, AwfClosed, Unmarked
  <2>4. AwfFresh => AwfFresh'
    BY <2>1 DEF AwfFresh, Unmarked
  <2>5. AwfWorking => AwfWorking'
    BY <2>1, <2>2 DEF AwfWorking
  <2>6. AwfEnded => AwfEnded'
    BY <2>1 DEF AwfEnded, Unmarked
  <2> QED BY <1>1, <2>3, <2>4, <2>5, <2>6 DEF PhaseInv
<1> QED BY <1>2, <1>3, <1>4 DEF Next, Finish

LEMMA PhaseInit == Init => PhaseInv
  BY DEF Init, NoRecord, PhaseInv, AwfFresh, Unmarked
---------------------------------------------------------------------------
(***************************************************************************)
(* AWF: the work on record, of this execution and summed over them, is     *)
(* what the cursor says was handed out.                                    *)
(***************************************************************************)
Handed == IF iteration < trip THEN iteration ELSE trip
Busy == {"next", "read", "cas", "account"}
Work == data.workPerStep
Summed == data.sumWorkPerStep

\* s iterations weighted and summed, w of the execution n not yet weighted, h of d
\* iterations handed out.
Recorded(s, w, n, d, h) == 2 * (s + (n + 1) * w) = d * (n * (n + 1)) + 2 * ((n + 1) * h)

WorkInv ==
    /\ \A t \in Threads : pc[t] = "cas" => local[t].init < trip
    /\ schedule = "awf" =>
         /\ \A t \in Threads : pc[t] \notin Busy => Work[t] = 0
         /\ Recorded(Total(Summed), Total(Work), step, trip, Handed)

LEMMA WorkTyped ==
    ASSUME IInv
    PROVE  /\ Work \in [Threads -> Int] /\ Summed \in [Threads -> Int] /\ data \in DataType
           /\ step \in Nat /\ trip \in Nat /\ trip > 0 /\ iteration \in Nat /\ Handed \in Nat
           /\ Total(Work) \in Int /\ Total(Summed) \in Int
<1>1. data \in DataType /\ step \in Nat /\ trip \in Nat /\ trip > 0 /\ iteration \in Nat
  BY Parameters DEF IInv, Typed, LoopTyped, ThreadsTyped
<1>2. Work \in [Threads -> Int] /\ Summed \in [Threads -> Int]
  BY <1>1 DEF Work, Summed, DataType
<1>3. Handed \in Nat
  BY <1>1 DEF Handed
<1>4. 0 \in Threads
  BY Parameters
<1>5. Total(Work) \in Int
  BY <1>2, <1>4, TotalShift
<1>6. Total(Summed) \in Int
  BY <1>2, <1>4, TotalShift
<1> QED BY <1>1, <1>2, <1>3, <1>5, <1>6

LEMMA TotalsPrime ==
    Total(Work)' = Total(Work') /\ Total(Summed)' = Total(Summed')
  BY DEF Total, MapThenSumSet, MapThenFoldSet

\* The rewriting rules for a chunk taken, work accounted and the next execution.
LEMMA RecordedTaken ==
    ASSUME NEW s \in Int, NEW w \in Int, NEW n \in Nat, NEW d \in Nat, NEW h \in Int, NEW c \in Int,
           Recorded(s, w, n, d, h)
    PROVE  Recorded(s, w + c, n, d, h + c)
<1>1. (n + 1) * (w + c) = (n + 1) * w + (n + 1) * c /\ (n + 1) * (h + c) = (n + 1) * h + (n + 1) * c
  OBVIOUS
<1>2. (n + 1) * w \in Int /\ (n + 1) * c \in Int /\ (n + 1) * h \in Int /\ d * (n * (n + 1)) \in Int
  OBVIOUS
<1> QED BY <1>1, <1>2 DEF Recorded

LEMMA RecordedAccounted ==
    ASSUME NEW s \in Int, NEW w \in Int, NEW n \in Nat, NEW d \in Nat, NEW h \in Int, NEW c \in Int,
           Recorded(s, w, n, d, h)
    PROVE  Recorded(s + (n + 1) * c, w - c, n, d, h)
<1>1. (n + 1) * (w - c) = (n + 1) * w - (n + 1) * c
  OBVIOUS
<1>2. (n + 1) * w \in Int /\ (n + 1) * c \in Int /\ (n + 1) * h \in Int /\ d * (n * (n + 1)) \in Int
  OBVIOUS
<1> QED BY <1>1, <1>2 DEF Recorded

LEMMA RecordedDone ==
    ASSUME NEW s \in Int, NEW n \in Nat, NEW d \in Nat, Recorded(s, 0, n, d, d)
    PROVE  2 * s = d * (n + 1) * (n + 2) /\ Recorded(s, 0, n + 1, d, 0)
<1>1. 2 * s = d * (n * (n + 1)) + 2 * ((n + 1) * d)
  BY DEF Recorded
<1>2. d * (n * (n + 1)) + 2 * ((n + 1) * d) = d * ((n + 1) * (n + 2))
  OBVIOUS
<1>3. d * ((n + 1) * (n + 2)) = (d * (n + 1)) * (n + 2)
  OBVIOUS
<1>4. (n + 1) + 1 = n + 2
  OBVIOUS
<1>5. 2 * (s + (n + 2) * 0) = 2 * s /\ 2 * ((n + 2) * 0) = 0 /\ d * ((n + 1) * (n + 2)) \in Int
  OBVIOUS
<1> QED BY <1>1, <1>2, <1>3, <1>4, <1>5 DEF Recorded

\* A step of t that changes neither the work nor the cursor.
LEMMA WorkSame ==
    ASSUME IInv, WorkInv, schedule = "awf", NEW t \in Threads, Step(t),
           Work' = Work, Summed' = Summed, iteration' = iteration,
           pc'[t] \in Busy \/ pc[t] \notin Busy,
           pc'[t] = "cas" => local'[t].init < trip
    PROVE  WorkInv'
<1>1. /\ schedule' = schedule /\ trip' = trip /\ step' = step
      /\ \A u \in Threads \ {t} : pc'[u] = pc[u] /\ local'[u] = local[u]
  BY StepFrame
<1>2. Total(Work)' = Total(Work) /\ Total(Summed)' = Total(Summed)
  BY TotalsPrime
<1>3. Handed' = Handed
  BY <1>1 DEF Handed
<1>4. \A u \in Threads : pc'[u] = "cas" => local'[u].init < trip'
  BY <1>1 DEF WorkInv
<1>5. \A u \in Threads : pc'[u] \notin Busy => Work'[u] = 0
  BY <1>1 DEF WorkInv
<1>6. Recorded(Total(Summed), Total(Work), step, trip, Handed)'
  BY <1>1, <1>2, <1>3 DEF WorkInv, Recorded
<1> QED BY <1>4, <1>5, <1>6 DEF WorkInv

LEMMA WorkTaken ==
    ASSUME IInv, WorkInv, schedule = "awf", NEW t \in Threads, Take(t), CasHolds(t)
    PROVE  WorkInv'
<1>0. /\ Work \in [Threads -> Int] /\ Summed \in [Threads -> Int] /\ data \in DataType
      /\ step \in Nat /\ trip \in Nat /\ trip > 0 /\ iteration \in Nat /\ Handed \in Nat
      /\ Total(Work) \in Int /\ Total(Summed) \in Int
  BY WorkTyped
<1>1. /\ schedule' = schedule /\ trip' = trip /\ step' = step
      /\ \A u \in Threads \ {t} : pc'[u] = pc[u] /\ local'[u] = local[u]
  <2>1. Step(t)
    BY DEF Step
  <2> QED BY <2>1, StepFrame
<1>2. /\ pc[t] = "cas" /\ local[t].init = iteration /\ iteration < trip /\ pc'[t] = "next"
  <2>1. pc[t] = "cas" /\ local[t].init = iteration /\ pc' = [pc EXCEPT ![t] = "next"]
    BY DEF Take, CasHolds, Go
  <2> QED BY <2>1 DEF WorkInv, IInv, Typed, ThreadsTyped
<1>3. /\ local[t].size \in Nat /\ local[t].size > 0 /\ iteration' = iteration + local[t].size
  BY Taken
<1>20. Recorded(Total(Summed), Total(Work), step, trip, Handed)
  BY DEF WorkInv
<1> DEFINE limit == iteration + local[t].size
           end == IF limit > trip THEN trip ELSE limit
           gain == Work[t] + end - iteration
<1>4. data' = [data EXCEPT !.workPerStep[t] = gain]
  <2>1. data' = [data EXCEPT !.workPerStep[t] = @ + end - iteration]
    BY <1>2 DEF Take
  <2> QED BY <2>1, <1>0 DEF Work, DataType
<1>5. gain \in Int /\ end \in Int
  BY <1>0, <1>3
<1>6. Handed' = end /\ Handed = iteration
  BY <1>0, <1>1, <1>2, <1>3 DEF Handed
<1> HIDE DEF limit, end
<1> HIDE DEF gain
<1>7. Work' = [Work EXCEPT ![t] = gain] /\ Summed' = Summed
  BY <1>0, <1>4 DEF Work, Summed, DataType
<1>8. Work' \in [Threads -> Int] /\ Work'[t] = gain /\ \A u \in Threads \ {t} : Work'[u] = Work[u]
  BY <1>0, <1>5, <1>7
<1>9. Total(Work') = Total(Work) + Work'[t] - Work[t]
  BY <1>0, <1>8, TotalShift
<1>10. Total(Work') = Total(Work) + (end - iteration) /\ end - iteration \in Int
  BY <1>0, <1>5, <1>8, <1>9 DEF gain
<1>11. Recorded(Total(Summed), Total(Work) + (end - iteration), step, trip,
                Handed + (end - iteration))
  <2>1. PICK c \in Int : c = end - iteration
    BY <1>10
  <2>2. Recorded(Total(Summed), Total(Work) + c, step, trip, Handed + c)
    <3>1. Handed \in Int
      BY <1>0
    <3> QED BY <1>0, <1>20, <3>1, RecordedTaken, Zenon
  <2> QED BY <2>1, <2>2
<1>12. Handed + (end - iteration) = Handed'
  BY <1>0, <1>5, <1>6
<1>13. Recorded(Total(Summed), Total(Work), step, trip, Handed)'
  BY <1>1, <1>7, <1>10, <1>11, <1>12, TotalsPrime DEF Recorded
<1>14. \A u \in Threads : pc'[u] \notin Busy => Work'[u] = 0
  BY <1>1, <1>2, <1>8 DEF WorkInv, Busy
<1>15. \A u \in Threads : pc'[u] = "cas" => local'[u].init < trip'
  BY <1>1, <1>2 DEF WorkInv
<1> QED BY <1>13, <1>14, <1>15 DEF WorkInv

LEMMA WorkAccounted ==
    ASSUME IInv, PhaseInv, WorkInv, schedule = "awf", NEW t \in Threads, AwfAccount(t)
    PROVE  WorkInv'
<1>0. /\ Work \in [Threads -> Int] /\ Summed \in [Threads -> Int] /\ data \in DataType
      /\ step \in Nat /\ trip \in Nat /\ trip > 0 /\ iteration \in Nat /\ Handed \in Nat
      /\ Total(Work) \in Int /\ Total(Summed) \in Int
  BY WorkTyped
<1>1. /\ schedule' = schedule /\ trip' = trip /\ step' = step /\ iteration' = iteration
      /\ \A u \in Threads \ {t} : pc'[u] = pc[u] /\ local'[u] = local[u]
  <2>1. Step(t)
    BY DEF Step
  <2> QED BY <2>1, StepFrame DEF AwfAccount
<1>2. pc[t] = "account" /\ pc'[t] \in {"reset", "barrier"}
  BY DEF AwfAccount, Go, IInv, Typed, ThreadsTyped
<1>3. data.timeStep = step + 1
  <2>1. AwfWorking
    BY <1>2, AtWork
  <2> QED BY <2>1 DEF AwfWorking
<1>20. Recorded(Total(Summed), Total(Work), step, trip, Handed)
  BY DEF WorkInv
<1> DEFINE new == Summed[t] + (step + 1) * Work[t]
           first == [data EXCEPT !.sumWorkPerStep[t] = new]
<1>4. data' = [first EXCEPT !.workPerStep[t] = 0]
  <2>1. data' = [[data EXCEPT !.sumWorkPerStep[t] = @ + data.timeStep * data.workPerStep[t]]
                    EXCEPT !.workPerStep[t] = 0]
    BY DEF AwfAccount, Cleared
  <2>2. [data EXCEPT !.sumWorkPerStep[t] = @ + data.timeStep * data.workPerStep[t]] = first
    BY <1>0, <1>3 DEF Work, Summed, DataType
  <2> QED BY <2>1, <2>2
<1>5. (step + 1) * Work[t] \in Int /\ new \in Int
  BY <1>0
<1> HIDE DEF new
<1>6. first.sumWorkPerStep = [Summed EXCEPT ![t] = new] /\ first.workPerStep = Work
      /\ DOMAIN first = DOMAIN data
  BY <1>0 DEF Work, Summed, DataType
<1>7. DOMAIN data = {"timeStep", "workPerStep", "sumWorkPerStep", "weights"}
  BY <1>0 DEF DataType
<1> HIDE DEF first
<1>8. Summed' = [Summed EXCEPT ![t] = new] /\ Work' = [Work EXCEPT ![t] = 0]
  BY <1>4, <1>6, <1>7 DEF Work, Summed
<1>9. /\ Work' \in [Threads -> Int] /\ Work'[t] = 0 /\ \A u \in Threads \ {t} : Work'[u] = Work[u]
      /\ Summed' \in [Threads -> Int] /\ Summed'[t] = new
      /\ \A u \in Threads \ {t} : Summed'[u] = Summed[u]
  BY <1>0, <1>5, <1>8
<1>10. Total(Work') = Total(Work) + Work'[t] - Work[t]
  BY <1>0, <1>9, TotalShift
<1>11. Total(Summed') = Total(Summed) + Summed'[t] - Summed[t]
  BY <1>0, <1>9, TotalShift
<1>12. Work[t] \in Int /\ Summed[t] \in Int
  BY <1>0
<1>13. Total(Work') = Total(Work) - Work[t]
       /\ Total(Summed') = Total(Summed) + (step + 1) * Work[t]
  BY <1>0, <1>5, <1>9, <1>10, <1>11, <1>12 DEF new
<1>14. Recorded(Total(Summed) + (step + 1) * Work[t], Total(Work) - Work[t], step, trip, Handed)
  <2>1. PICK c \in Int : c = Work[t]
    BY <1>12
  <2>2. Recorded(Total(Summed) + (step + 1) * c, Total(Work) - c, step, trip, Handed)
    <3>1. Handed \in Int
      BY <1>0
    <3> QED BY <1>0, <1>20, <3>1, RecordedAccounted, Zenon
  <2> QED BY <2>1, <2>2
<1>15. Handed' = Handed
  BY <1>1 DEF Handed
<1>16. Recorded(Total(Summed), Total(Work), step, trip, Handed)'
  BY <1>1, <1>13, <1>14, <1>15, TotalsPrime DEF Recorded
<1>17. \A u \in Threads : pc'[u] \notin Busy => Work'[u] = 0
  BY <1>1, <1>2, <1>9 DEF WorkInv, Busy
<1>18. \A u \in Threads : pc'[u] = "cas" => local'[u].init < trip'
  BY <1>1, <1>2 DEF WorkInv
<1> QED BY <1>16, <1>17, <1>18 DEF WorkInv

\* The other steps of an execution of AWF.
LEMMA WorkStep ==
    ASSUME IInv, PhaseInv, WorkInv, schedule = "awf", NEW t \in Threads, Step(t)
    PROVE  WorkInv'
<1>0. /\ pc \in [Threads -> Places] /\ data \in DataType /\ local \in [Threads -> LocalType]
      /\ schedule \notin Rated \cup Factoring \cup {"bold"}
  BY DEF IInv, Typed, ThreadsTyped, Rated, Batched, Chunked, Factoring
<1>1. pc[t] \notin {"share", "gather", "slow", "speed"}
  <2>1. ASSUME NEW p \in Threads, AwfRecording(p) \/ AwfResetting(p) \/ AwfClosed(p)
        PROVE  pc[t] \in {"record", "open", "init", "wait", "reset", "update", "barrier"}
    BY <2>1 DEF AwfRecording, AwfResetting, AwfClosed
  <2> QED BY <2>1 DEF PhaseInv, AwfFresh, AwfWorking, AwfEnded
<1>2. \/ AwfEnter(t) \/ AwfRecord(t) \/ AwfOpen(t) \/ AwfWeigh(t) \/ Number(t) \/ ReadCursor(t)
      \/ Take(t) \/ AwfAccount(t) \/ AwfReset(t) \/ AwfUpdate(t)
  BY <1>0, <1>1 DEF Step, Enter, Share, Gather, BoldDone, BoldSlow, Measure, BoldSpeed
<1>3. CASE AwfEnter(t) \/ AwfOpen(t) \/ AwfWeigh(t) \/ Number(t) \/ AwfReset(t)
  <2>1. /\ data' = data /\ iteration' = iteration /\ pc'[t] # "cas"
        /\ pc'[t] \in Busy \/ pc[t] \notin Busy
    BY <1>0, <1>3 DEF AwfEnter, AwfOpen, AwfWeigh, Number, AwfReset, Go, Busy
  <2>2. Work' = Work /\ Summed' = Summed
    BY <2>1 DEF Work, Summed
  <2> QED BY <2>1, <2>2, WorkSame
<1>4. CASE AwfRecord(t) \/ AwfUpdate(t)
  <2>1. /\ iteration' = iteration /\ pc'[t] # "cas" /\ pc[t] \notin Busy
    BY <1>0, <1>4 DEF AwfRecord, AwfUpdate, Go, Busy
  <2>2. Work' = Work /\ Summed' = Summed
    <3>1. CASE AwfRecord(t)
      <4>1. data' = [data EXCEPT !.timeStep = @ + 1]
        BY <3>1 DEF AwfRecord
      <4> QED BY <1>0, <4>1 DEF Work, Summed, DataType
    <3>2. CASE AwfUpdate(t)
      <4>1. PICK w : data' = [data EXCEPT !.weights = w]
        BY <3>2 DEF AwfUpdate
      <4> QED BY <1>0, <4>1 DEF Work, Summed, DataType
    <3> QED BY <1>4, <3>1, <3>2
  <2> QED BY <2>1, <2>2, WorkSame
<1>5. CASE ReadCursor(t)
  <2>1. data' = data /\ iteration' = iteration /\ pc[t] = "read"
    BY <1>5 DEF ReadCursor
  <2>2. pc'[t] \in {"cas", "account"} /\ (pc'[t] = "cas" => local'[t].init < trip)
    <3>1. CASE iteration < trip
      <4>1. PICK a, b : local' = [local EXCEPT ![t].init = iteration, ![t].size = a, ![t].chunk = b]
        BY <1>5, <3>1 DEF ReadCursor
      <4>2. local'[t].init = iteration
        BY <1>0, <4>1 DEF LocalType
      <4>3. pc'[t] = "cas"
        BY <1>5, <3>1, ReadFacts
      <4> QED BY <3>1, <4>2, <4>3
    <3>2. CASE ~(iteration < trip)
      <4>1. pc' = [pc EXCEPT ![t] = "account"]
        BY <1>5, <3>2 DEF ReadCursor, Go
      <4> QED BY <1>0, <4>1
    <3> QED BY <3>1, <3>2
  <2>3. Work' = Work /\ Summed' = Summed /\ pc'[t] \in Busy
    BY <2>1, <2>2 DEF Work, Summed, Busy
  <2> QED BY <2>1, <2>2, <2>3, WorkSame
<1>6. CASE Take(t) /\ CasHolds(t)
  BY <1>6, WorkTaken
<1>7. CASE Take(t) /\ ~CasHolds(t)
  <2>1. data' = data /\ iteration' = iteration /\ pc'[t] = "read"
    BY <1>0, <1>7 DEF Take, Go
  <2>2. Work' = Work /\ Summed' = Summed /\ pc'[t] \in Busy
    BY <2>1 DEF Work, Summed, Busy
  <2> QED BY <2>1, <2>2, WorkSame
<1>8. CASE AwfAccount(t)
  BY <1>8, WorkAccounted
<1> QED BY <1>2, <1>3, <1>4, <1>5, <1>6, <1>7, <1>8

\* The work on record when an execution ends.
LEMMA WorkAtBarrier ==
    ASSUME IInv, PhaseInv, WorkInv, schedule = "awf", \A t \in Threads : pc[t] = "barrier"
    PROVE  /\ \A t \in Threads : Work[t] = 0
           /\ Total(Work) = 0 /\ Recorded(Total(Summed), 0, step, trip, trip)
<1>1. \A t \in Threads : Work[t] = 0
  BY DEF WorkInv, Busy
<1>2. Work \in [Threads -> {0}]
  <2>1. Work \in [Threads -> Int]
    BY WorkTyped
  <2> QED BY <1>1, <2>1
<1>3. Total(Work) = 0
  BY <1>2, TotalZero
<1>4. Handed = trip
  <2>1. iteration >= trip /\ iteration \in Nat /\ trip \in Nat
    BY WorkTyped, Parameters DEF IInv, Exhausted
  <2> QED BY <2>1 DEF Handed
<1> QED BY <1>1, <1>3, <1>4 DEF WorkInv

LEMMA WorkNext == IInv /\ PhaseInv /\ WorkInv /\ [Next]_vars => WorkInv'
<1> SUFFICES ASSUME IInv, PhaseInv, WorkInv, [Next]_vars PROVE WorkInv'
  OBVIOUS
<1>1. ASSUME NEW t \in Threads, Step(t) PROVE WorkInv'
  <2>1. CASE schedule = "awf"
    BY <1>1, <2>1, WorkStep
  <2>2. CASE schedule # "awf"
    <3>1. /\ schedule' = schedule /\ trip' = trip
          /\ \A u \in Threads \ {t} : pc'[u] = pc[u] /\ local'[u] = local[u]
          /\ pc'[t] = "cas" => ReadCursor(t)
      BY <1>1, StepFrame
    <3>2. ASSUME pc'[t] = "cas" PROVE local'[t].init < trip
      <4>1. ReadCursor(t)
        BY <3>1, <3>2
      <4>2. iteration < trip
        BY <3>2, <4>1, ReadFacts
      <4>3. PICK a, b : local' = [local EXCEPT ![t].init = iteration, ![t].size = a, ![t].chunk = b]
        BY <4>1, <4>2 DEF ReadCursor
      <4>4. local'[t].init = iteration
        BY <4>3 DEF IInv, Typed, ThreadsTyped, LocalType
      <4> QED BY <4>2, <4>4
    <3> QED BY <2>2, <3>1, <3>2 DEF WorkInv
  <2> QED BY <2>1, <2>2
<1>2. CASE Barrier
  <2>1. /\ schedule' = schedule /\ trip' = trip /\ step' = step + 1 /\ data' = data
        /\ iteration' = 0 /\ \A t \in Threads : pc[t] = "barrier"
        /\ pc' = [t \in Threads |-> IF step' = Steps THEN "end" ELSE "init"]
    BY <1>2, BarrierFrame
  <2>2. \A t \in Threads : pc'[t] # "cas"
    BY <2>1
  <2>3. CASE schedule # "awf"
    BY <2>1, <2>2, <2>3 DEF WorkInv
  <2>4. CASE schedule = "awf"
    <3>1. /\ \A t \in Threads : Work[t] = 0
          /\ Total(Work) = 0 /\ Recorded(Total(Summed), 0, step, trip, trip)
      BY <2>1, <2>4, WorkAtBarrier
    <3>2. Recorded(Total(Summed), 0, step + 1, trip, 0)
      BY <3>1, WorkTyped, RecordedDone
    <3>3. Work' = Work /\ Summed' = Summed /\ Handed' = 0
      BY <2>1, WorkTyped DEF Work, Summed, Handed
    <3>4. Recorded(Total(Summed), Total(Work), step, trip, Handed)'
      BY <2>1, <3>1, <3>2, <3>3, TotalsPrime DEF Recorded
    <3> QED BY <2>2, <3>1, <3>3, <3>4 DEF WorkInv
  <2> QED BY <2>3, <2>4
<1>3. CASE UNCHANGED vars
  <2>1. schedule' = schedule /\ trip' = trip /\ step' = step /\ data' = data /\ pc' = pc
        /\ iteration' = iteration /\ local' = local
    BY <1>3 DEF vars, loop
  <2>2. Work' = Work /\ Summed' = Summed /\ Handed' = Handed
    BY <2>1 DEF Work, Summed, Handed
  <2>3. Total(Work)' = Total(Work) /\ Total(Summed)' = Total(Summed)
    BY <2>2, TotalsPrime
  <2> QED BY <2>1, <2>2, <2>3 DEF WorkInv, Recorded
<1> QED BY <1>1, <1>2, <1>3 DEF Next, Finish

LEMMA WorkInit == Init => WorkInv
<1> SUFFICES ASSUME Init PROVE WorkInv
  OBVIOUS
<1>1. Work \in [Threads -> {0}] /\ Summed \in [Threads -> {0}]
  BY DEF Init, NoRecord, Work, Summed
<1>2. Total(Work) = 0 /\ Total(Summed) = 0
  BY <1>1, TotalZero
<1>3. Handed = 0 /\ step = 0 /\ trip \in Nat
  BY Parameters DEF Init, Handed
<1>4. Recorded(0, 0, 0, trip, 0)
  BY <1>3 DEF Recorded
<1>5. \A t \in Threads : pc[t] = "init"
  BY DEF Init
<1> QED BY <1>1, <1>2, <1>3, <1>4, <1>5 DEF WorkInv

LEMMA WorkKept == IInv /\ PhaseInv /\ WorkInv => WorkConserved
<1> SUFFICES ASSUME IInv, PhaseInv, WorkInv, schedule = "awf",
                    \A t \in Threads : pc[t] = "barrier"
             PROVE  /\ \A t \in Threads : Work[t] = 0
                    /\ 2 * Total(Summed) = trip * (step + 1) * (step + 2)
  BY DEF WorkConserved, Work, Summed
<1>1. /\ \A t \in Threads : Work[t] = 0
      /\ Total(Work) = 0 /\ Recorded(Total(Summed), 0, step, trip, trip)
  BY WorkAtBarrier
<1> QED BY <1>1, WorkTyped, RecordedDone

\* AWF: between two executions the work on record is all the iterations, weighted by
\* their execution, for every team and loop and however many times it runs.
THEOREM AdaptiveWorkConserved == Spec => []WorkConserved
  BY PhaseInit, PhaseNext, WorkInit, WorkNext, WorkKept, Inductive, PTL DEF Spec
---------------------------------------------------------------------------
(***************************************************************************)
(* The types of the shared variables.                                      *)
(***************************************************************************)
\* No other schedule touches the record of AWF, and the sums stay numbers.
PlainInv ==
    /\ bold_m \in Int /\ total_speed \in Int
    /\ schedule # "awf" =>
         /\ Unmarked /\ data.timeStep = 0
         /\ \A t \in Threads :
              pc[t] \notin {"record", "open", "weigh", "wait", "account", "reset", "update"}

LEMMA PlainStep ==
    ASSUME IInv, PlainInv, NEW t \in Threads, Step(t)
    PROVE  PlainInv'
<1>0. /\ pc \in [Threads -> Places] /\ pr[t] \in PrivateType /\ pr[t].mine \in Int
      /\ pr[t].speed \in Int
  <2>1. pc \in [Threads -> Places] /\ pr[t] \in PrivateType
    BY DEF IInv, Typed, ThreadsTyped
  <2> QED BY <2>1 DEF PrivateType
<1>1. bold_m' \in Int /\ total_speed' \in Int
  <2>1. CASE BoldDone(t)
    BY <1>0, <2>1 DEF BoldDone, PlainInv
  <2>2. CASE BoldSlow(t)
    BY <1>0, <2>2 DEF BoldSlow, OldSpeed, PlainInv
  <2>3. CASE BoldSpeed(t)
    BY <1>0, <2>3 DEF BoldSpeed, PlainInv
  <2>4. CASE ~BoldDone(t) /\ ~BoldSlow(t) /\ ~BoldSpeed(t)
    <3>1. UNCHANGED bold
      BY <2>4 DEF Step, Enter, AwfEnter, AwfRecord, AwfOpen, AwfWeigh, Number, Share, Gather,
                  Measure, ReadCursor, Take, AwfAccount, AwfReset, AwfUpdate
    <3> QED BY <3>1 DEF bold, PlainInv
  <2> QED BY <2>1, <2>2, <2>3, <2>4
<1>2. schedule' = schedule /\ \A u \in Threads \ {t} : pc'[u] = pc[u]
  BY StepFrame
<1>3. ASSUME schedule # "awf"
      PROVE  /\ Unmarked' /\ data'.timeStep = 0
             /\ pc'[t] \notin {"record", "open", "weigh", "wait", "account", "reset", "update"}
  <2>1. /\ Unmarked /\ data.timeStep = 0
        /\ pc[t] \notin {"record", "open", "weigh", "wait", "account", "reset", "update"}
    BY <1>3 DEF PlainInv
  <2>2. \/ Enter(t) \/ Number(t) \/ Share(t) \/ Gather(t) \/ BoldDone(t) \/ BoldSlow(t)
        \/ Measure(t) \/ ReadCursor(t) \/ Take(t) \/ BoldSpeed(t)
    BY <1>3, <2>1 DEF Step, AwfEnter, AwfRecord, AwfOpen, AwfWeigh, AwfAccount, AwfReset, AwfUpdate
  <2>3. UNCHANGED flags /\ data' = data
    BY <1>3, <2>2 DEF Enter, Number, Share, Gather, BoldDone, BoldSlow, Measure, ReadCursor, Take,
                      BoldSpeed
  <2>4. \E q \in {"next", "share", "gather", "read", "slow", "cas", "barrier", "speed"} :
           pc' = [pc EXCEPT ![t] = q]
    BY <1>3, <2>2 DEF Enter, Number, Share, Gather, BoldDone, BoldSlow, Measure, ReadCursor, Take,
                      BoldSpeed, Go
  <2> QED BY <1>0, <2>1, <2>3, <2>4 DEF Unmarked, flags
<1>4. schedule' # "awf" =>
         /\ Unmarked' /\ data'.timeStep = 0
         /\ \A u \in Threads :
              pc'[u] \notin {"record", "open", "weigh", "wait", "account", "reset", "update"}
  BY <1>2, <1>3 DEF PlainInv
<1> QED BY <1>1, <1>4 DEF PlainInv

LEMMA PlainNext == IInv /\ PlainInv /\ [Next]_vars => PlainInv'
<1> SUFFICES ASSUME IInv, PlainInv, [Next]_vars PROVE PlainInv'
  OBVIOUS
<1>1. CASE Barrier
  <2>1. /\ schedule' = schedule /\ data' = data /\ bold_m' = trip /\ total_speed' = 0
        /\ AWFEnter' = AWFEnter /\ AWFWait' = AWFWait /\ AWFCounter' = AWFCounter
        /\ pc' = [t \in Threads |-> IF step' = Steps THEN "end" ELSE "init"]
    BY <1>1, BarrierFrame
  <2>2. trip \in Int
    BY Parameters DEF IInv, Typed, LoopTyped
  <2> QED BY <2>1, <2>2 DEF PlainInv, Unmarked
<1>2. CASE UNCHANGED vars
  BY <1>2 DEF vars, loop, flags, bold, PlainInv, Unmarked
<1> QED BY <1>1, <1>2, PlainStep DEF Next, Finish

LEMMA PlainInit == Init => PlainInv
<1> SUFFICES ASSUME Init PROVE PlainInv
  OBVIOUS
<1>1. trip \in Int
  BY Parameters DEF Init
<1> QED BY <1>1 DEF Init, NoRecord, PlainInv, Unmarked

LEMMA TypesHold == IInv /\ PhaseInv /\ PlainInv => TypeOK
<1> SUFFICES ASSUME IInv, PhaseInv, PlainInv PROVE TypeOK
  OBVIOUS
<1>1. /\ schedule \in Schedules /\ trip \in Trips /\ minChunk \in MinChunks
      /\ step \in 0 .. Steps /\ iteration \in Nat /\ counter \in Nat
      /\ rates \in [Threads -> Rates \cup {0}] /\ bold_m \in Int /\ total_speed \in Int
  BY DEF IInv, Typed, LoopTyped, ThreadsTyped, PlainInv
<1>2. data.weights \in [Threads -> Weights \cup {2, NaN}]
  BY DEF IInv, Typed, ThreadsTyped, DataType
<1>3. given \in [Executions -> [Iterations -> Nat]]
  <2>1. given \in [Executions -> [Iterations -> {0, 1}]]
    BY DEF IInv, Typed, LoopTyped
  <2>2. \A l \in Executions : given[l] \in [Iterations -> Nat]
    BY <2>1
  <2> QED BY <2>1, <2>2
<1>4. left \in [Threads -> 0 .. Steps]
  <2>1. left \in [Threads -> Nat] /\ Steps \in Nat
    BY Parameters DEF IInv, Typed, ThreadsTyped
  <2>2. ASSUME NEW t \in Threads PROVE left[t] \in 0 .. Steps
    <3>1. /\ left[t] = step + (IF pc[t] = "barrier" THEN 1 ELSE 0)
          /\ pc[t] = "end" <=> step = Steps
      BY DEF IInv, InStep
    <3> QED BY <1>1, <2>1, <3>1
  <2> QED BY <2>1, <2>2
<1>5. /\ AWFEnter \in 0 .. NProc /\ AWFWait \in {0, 1} /\ AWFCounter \in 0 .. NProc
      /\ data.timeStep \in 0 .. Steps
  <2>0. NProc \in Nat /\ Steps \in Nat /\ 0 \in Threads
    BY Parameters
  <2>1. CASE schedule # "awf"
    BY <2>0, <2>1 DEF PlainInv, Unmarked
  <2>2. CASE schedule = "awf"
    <3>1. \A t \in Threads : pc[t] # "end" => step + 1 \in 0 .. Steps
      BY <1>1, <2>0 DEF IInv, InStep
    <3>2. CASE AwfFresh \/ AwfEnded
      BY <1>1, <2>0, <3>2 DEF AwfFresh, AwfEnded, Unmarked
    <3>3. CASE AwfWorking
      <4>1. pc[0] # "end"
        BY <2>0, <3>3 DEF AwfWorking
      <4>2. step + 1 \in 0 .. Steps
        BY <2>0, <3>1, <4>1
      <4> QED BY <3>3, <4>2, EnteredFinite DEF AwfWorking
    <3>4. ASSUME NEW p \in Threads, AwfRecording(p)
          PROVE  /\ AWFEnter \in 0 .. NProc /\ AWFWait \in {0, 1} /\ AWFCounter \in 0 .. NProc
                 /\ data.timeStep \in 0 .. Steps
      <4>1. step + 1 \in 0 .. Steps
        BY <3>1, <3>4 DEF AwfRecording
      <4> QED BY <1>1, <2>0, <3>4, <4>1, EnteredFinite DEF AwfRecording
    <3>5. ASSUME NEW p \in Threads, AwfResetting(p) \/ AwfClosed(p)
          PROVE  /\ AWFEnter \in 0 .. NProc /\ AWFWait \in {0, 1} /\ AWFCounter \in 0 .. NProc
                 /\ data.timeStep \in 0 .. Steps
      <4>1. step + 1 \in 0 .. Steps
        BY <3>1, <3>5 DEF AwfResetting, AwfClosed
      <4> QED BY <1>1, <2>0, <3>5, <4>1 DEF AwfResetting, AwfClosed, Unmarked
    <3> QED BY <2>2, <3>2, <3>3, <3>4, <3>5 DEF PhaseInv
  <2> QED BY <2>1, <2>2
<1> QED BY <1>1, <1>2, <1>3, <1>4, <1>5 DEF TypeOK

\* Every variable keeps its type: no thread leaves more executions than there are, and
\* the counts of threads that enter and leave an execution of AWF stay within the team.
THEOREM AdaptiveTypes == Spec => []TypeOK
  BY PhaseInit, PhaseNext, PlainInit, PlainNext, TypesHold, Inductive, PTL DEF Spec
===========================================================================
