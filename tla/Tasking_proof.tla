---------------------------- MODULE Tasking_proof ----------------------------
(***************************************************************************)
(* No task is used after it was freed (kmp_tasking.cpp), for every team,   *)
(* program of tasks, dependences and groups, and initial deque size.       *)
(*                                                                         *)
(* The code never asks whether a parent or a group is still there: it      *)
(* relies on counters that several threads update.  Inv says what each of  *)
(* them counts.  The references of a task are itself, until its execution  *)
(* is over, its children that are not freed, and the threads about to drop *)
(* the reference of a freed child; the count of an open group is the       *)
(* number of its tasks that have not left it.  This needs to know which    *)
(* task each thread executes and on which stack (Shape, Doing, Idle), that *)
(* a created task is in one place, a hand, a deque or a thief's loot, so   *)
(* that it is executed once (InOnePlace, Thieves), and, as tasks with      *)
(* dependences are released by others, that npred counts the entries of a  *)
(* task among the successors of the nodes before it (Predecessors).        *)
(***************************************************************************)
EXTENDS Tasking, SequenceTheorems, FiniteSetTheorems, TLAPS
---------------------------------------------------------------------------
(* The inductive invariant, part by part.                                  *)

\* The members of a sequence, and that none is in it twice.
Elems(s) == {s[i] : i \in 1 .. Len(s)}
Once(s) == \A i, j \in 1 .. Len(s) : s[i] = s[j] => i = j

Statuses == {"none", "created", "running", "complete", "freed"}
Busy == {"run", "link", "push", "rob", "robbed", "spent"}
Ending == {"ungroup", "unhash", "release", "notify"}

NodeType == [live : BOOLEAN, npred : Int, succ : Seq(Explicit)]
EntryType == [out : Seq(Explicit), ins : Seq(Explicit), mtxs : Seq(Explicit), last : {"ins", "mtxs"}]
LinkType == [todo : Seq(Explicit), next : Nat \ {0}, n : Int]
GroupType == [open : BOOLEAN, count : Int, parent : Groups \cup {Nobody}]
DequeType == [tasks : Seq(Explicit), cap : Int]

Typed ==
    /\ prog \in Programs
    /\ pc \in [Tasks -> Nat] /\ \A k \in Tasks : pc[k] \in 1 .. Len(Body(k)) + 1
    /\ status \in [Tasks -> Statuses]
    /\ at \in [Tasks -> Busy \cup Ending \cup {"climb"}]
    /\ stack \in [Implicit -> Seq(Tasks)]
    /\ refs \in [Tasks -> Int]
    /\ group \in [Tasks -> Groups \cup {Nobody}] /\ groups \in [Groups -> GroupType]
    /\ deque \in [{0, 1} -> [Implicit -> DequeType]]
    /\ loot \in [Implicit -> Explicit \cup {Nobody}]
    /\ climb \in [Implicit -> Tasks \cup {Nobody}]
    /\ mine \in [Implicit -> {0, 1, Nobody}] /\ parity \in [Implicit -> {0, 1}]
    /\ phase \in [Implicit -> {"none", "gather", "drain", "open", "await"}]
    /\ node \in [Tasks -> NodeType]
    /\ table \in [Tasks -> [Addrs -> EntryType]]
    /\ links \in [Implicit -> LinkType]

\* Each thread executes its implicit task and explicit ones, each on one stack, once.
Shape ==
    /\ \A t \in Threads : /\ t \in Elems(stack[t]) /\ Once(stack[t])
                          /\ Elems(stack[t]) \subseteq {t} \cup Explicit
    /\ \A t, u \in Threads : \A k \in Elems(stack[t]) : k \in Elems(stack[u]) => t = u

\* What a thread does with a task of its stack fits the state of that task; only the
\* current one is within an operation, or notifies those that depend on it.
Fits(t, k) ==
    /\ at[k] \in Busy => status[k] = "running"
    /\ at[k] \in Ending => status[k] = "complete" /\ k \in Explicit
    /\ at[k] \in {"ungroup", "unhash"} => climb[t] = k
    /\ at[k] = "climb" => /\ k \in Explicit /\ climb[t] \in Explicit
                          /\ status[k] = IF climb[t] = k THEN "complete" ELSE "freed"
    /\ k # Cur(t) => at[k] \in {"run", "notify"}
Doing == \A t \in Threads : \A k \in Elems(stack[t]) : Fits(t, k)

OffStack(k) == \A t \in Threads : k \notin Elems(stack[t])
Idle == /\ \A k \in Tasks : status[k] \in {"none", "created"} => at[k] = "run" /\ pc[k] = 1
        /\ \A k \in Explicit : status[k] \in {"none", "created"} => OffStack(k)
        /\ \A k \in Implicit : status[k] \in {"none", "running"}

Thieves == \A t \in Threads :
    /\ loot[t] # Nobody <=> At(t, "robbed")
    /\ At(t, "rob") \/ At(t, "robbed") => mine[t] \in {0, 1}

InBarrier == \A t \in Threads : phase[t] # "none" => Op(t) = "barrier"

\* Where a created task can be: in the hand of the thread that creates it, queued, looted.
InHand(t, c) == (At(t, "link") \/ At(t, "push")) /\ Fresh(Cur(t)) = c
Lies(c, x, p, t) ==
    \/ x = "hand" /\ p = 0 /\ t \in Threads /\ InHand(t, c)
    \/ x = "queue" /\ p \in {0, 1} /\ t \in Implicit /\ c \in Elems(deque[p][t].tasks)
    \/ x = "loot" /\ p = 0 /\ t \in Threads /\ loot[t] = c
Lying(c) == \E x, p, t : Lies(c, x, p, t)

InOnePlace ==
    /\ \A c \in Explicit : Lying(c) => status[c] = "created"
    /\ \A c \in Explicit : \A x, p, t, y, q, u :
           Lies(c, x, p, t) /\ Lies(c, y, q, u) => x = y /\ p = q /\ t = u
    /\ \A p \in {0, 1}, t \in Implicit : Once(deque[p][t].tasks)
    /\ \A t \in Threads : At(t, "link") \/ At(t, "push") =>
           /\ pc[Cur(t)] > 1
           /\ Fresh(Cur(t)) \in Explicit
           /\ Body(Cur(t))[pc[Cur(t)] - 1] = [op |-> "task", arg |-> Fresh(Cur(t))]

\* The entries of c among the successors of other nodes, counted from the back.
Entries(c) == {x \in Tasks \X Nat : /\ x[2] \in 1 .. Len(node[x[1]].succ)
                                    /\ node[x[1]].succ[Len(node[x[1]].succ) + 1 - x[2]] = c}
Linking(t, c) == At(t, "link") /\ Fresh(Cur(t)) = c
Pending(c) == node[c].live /\ ~Lying(c) /\ status[c] = "created"
EntryCount(c, n) == IsFiniteSet(Entries(c)) /\ Cardinality(Entries(c)) = n
Predecessors ==
    /\ \A t \in Threads : \A c \in Explicit : Linking(t, c) =>
           ~node[c].live /\ EntryCount(c, node[c].npred + links[t].n + 1)
    /\ \A c \in Explicit : Entries(c) # {} =>
           \/ \E t \in Threads : Linking(t, c)
           \/ Pending(c) /\ EntryCount(c, node[c].npred)
    /\ \A c \in Explicit : status[c] = "none" => ~node[c].live

SpawnedBefore(c) == \E p \in Tasks : \E i \in 1 .. pc[p] - 1 : Is(Body(p), i, "task", c)
Spawning == \A c \in Explicit : status[c] # "none" => SpawnedBefore(c) /\ Spawner(c) # c

Live(k) == status[k] \in {"created", "running", "complete"}
Whole(k) == \/ status[k] \in {"created", "running"}
            \/ status[k] = "complete" /\ ~OffStack(k)
Dropping(t, k) == At(t, "climb") /\ climb[t] = k /\ Cur(t) # k
Children(k) == {c \in Explicit : Live(c) /\ Spawner(c) = k}
Holders(k) == {x \in {k} : Whole(k)} \cup Children(k) \cup {t \in Threads : Dropping(t, k)}
ReferenceCounts == \A k \in Explicit :
    /\ IsFiniteSet(Holders(k))
    /\ IF Live(k) THEN refs[k] = Cardinality(Holders(k)) ELSE Holders(k) = {}

\* The group of a task at position i of its body.
OpenedAt(k, g, i) == Is(Body(k), i, "group", g)
\* g is what the innermost of the groups open before i is, or the home if none is.
GroupAt(home, k, i, g) ==
    LET open == OpenAt(Body(k), i) IN
    \/ open = {} /\ g = home[k]
    \/ \E b \in 1 .. i - 1 : /\ OpenedAt(k, g, b) /\ g \in open
                             /\ open = OpenAt(Body(k), b) \cup {g}
Member(k) == \/ status[k] \in {"created", "running"}
             \/ status[k] = "complete" /\ at[k] = "ungroup"
Members(home, g) == {k \in Explicit : Member(k) /\ home[k] = g}
GroupState(home) ==
    /\ home \in [Tasks -> Groups \cup {Nobody}]
    /\ \A k \in Tasks : status[k] # "none" => GroupAt(home, k, pc[k], group[k])
    /\ \A k \in Tasks : \A b \in 1 .. pc[k] - 1 : \A g \in OpenAt(Body(k), pc[k]) :
           OpenedAt(k, g, b) => groups[g].open /\ GroupAt(home, k, b, groups[g].parent)
    /\ \A g \in Groups : groups[g].open =>
           \E k \in Tasks : \E b \in 1 .. pc[k] - 1 : OpenedAt(k, g, b)
    /\ \A g \in Groups :
         /\ IsFiniteSet(Members(home, g))
         /\ IF groups[g].open THEN groups[g].count = Cardinality(Members(home, g))
            ELSE Members(home, g) = {}
    /\ \A k \in Implicit : home[k] = Nobody
    /\ \A k \in Tasks : at[k] = "ungroup" =>
           ~OffStack(k) /\ group[k] = home[k] /\ group[k] # Nobody
GroupsInv == \E home : GroupState(home)

StackInv == Shape /\ Doing /\ Idle /\ Thieves /\ InBarrier
Inv == Typed /\ StackInv /\ InOnePlace /\ Predecessors /\ Spawning /\ ReferenceCounts /\ GroupsInv
---------------------------------------------------------------------------
(* Programs, and sequences.                                                *)

LEMMA Numbers == Explicit \cap Implicit = {} /\ Nobody \notin Explicit /\ Nobody \notin Implicit
                 /\ Nobody \notin Groups
<1>1. Nobody \notin Implicit /\ Nobody \notin Nat BY DEF Nobody, Implicit
<1> QED BY <1>1, ProgramAssumption

LEMMA ThreadTasks ==
    ASSUME prog \in Programs
    PROVE  Threads \subseteq Implicit /\ Threads \subseteq Tasks /\ 0 \in Threads
           /\ Implicit \subseteq Tasks /\ Explicit \subseteq Tasks
<1>1. MaxProc \in Nat /\ prog.nproc \in 2 .. MaxProc BY ProgramAssumption
<1>2. Threads \subseteq Implicit /\ 0 \in Threads BY <1>1 DEF Threads, Implicit
<1> QED BY <1>2 DEF Tasks

LEMMA Bodies ==
    ASSUME prog \in Programs, NEW k \in Tasks
    PROVE  /\ Body(k) \in Seq(Ops) /\ Len(Body(k)) \in Nat /\ DOMAIN Body(k) = 1 .. Len(Body(k))
           /\ \A i \in 1 .. Len(Body(k)) :
                /\ Body(k)[i] \in Ops
                /\ Body(k)[i] = [op |-> Body(k)[i].op, arg |-> Body(k)[i].arg]
                /\ Body(k)[i].op = "task" => Body(k)[i].arg \in Explicit
                /\ Body(k)[i].op \in {"group", "endgroup"} => Body(k)[i].arg \in Groups
<1>1. prog.body \in [Tasks -> Seq(Ops)] BY ProgramAssumption
<1>2. Body(k) \in Seq(Ops) BY <1>1 DEF Body
<1>3. /\ Len(Body(k)) \in Nat /\ DOMAIN Body(k) = 1 .. Len(Body(k))
      /\ \A i \in 1 .. Len(Body(k)) : Body(k)[i] \in Ops
  BY <1>2
<1>4. ASSUME NEW o \in Ops
      PROVE  /\ o = [op |-> o.op, arg |-> o.arg]
             /\ o.op = "task" => o.arg \in Explicit
             /\ o.op \in {"group", "endgroup"} => o.arg \in Groups
  BY <1>4 DEF Ops
<1> QED BY <1>2, <1>3, <1>4

LEMMA OnePlace ==
    ASSUME prog \in Programs, NEW j \in Tasks, NEW k \in Tasks, NEW a, NEW b, NEW c,
           NEW o \in {"task", "group"}, Is(Body(j), a, o, c), Is(Body(k), b, o, c)
    PROVE  j = k /\ a = b
<1>1. /\ a \in DOMAIN prog.body[j] /\ b \in DOMAIN prog.body[k]
      /\ prog.body[j][a] = [op |-> o, arg |-> c] /\ prog.body[k][b] = [op |-> o, arg |-> c]
  BY DEF Is, Body
<1>2. prog.body[j][a] = prog.body[k][b] /\ prog.body[j][a].op \in {"task", "group"} BY <1>1
<1> QED BY <1>1, <1>2, ProgramAssumption

LEMMA Spawners ==
    ASSUME prog \in Programs, NEW p \in Tasks, NEW i, NEW c, Is(Body(p), i, "task", c)
    PROVE  Spawner(c) = p
<1> DEFINE P(q) == \E n \in DOMAIN Body(q) : Body(q)[n] = [op |-> "task", arg |-> c]
<1>1. P(p) BY DEF Is
<1>2. \A q \in Tasks : P(q) => \E n : Is(Body(q), n, "task", c) BY DEF Is
<1>3. \A q \in Tasks : P(q) => q = p
  <2>1. SUFFICES ASSUME NEW q \in Tasks, P(q) PROVE q = p
    OBVIOUS
  <2>2. PICK n : Is(Body(q), n, "task", c) BY <1>2, <2>1
  <2> QED BY <2>2, OnePlace
<1>4. Spawner(c) = CHOOSE q \in Tasks : P(q) BY DEF Spawner
<1> HIDE DEF P
<1> QED BY <1>1, <1>3, <1>4

---------------------------------------------------------------------------
LEMMA ElemsOf ==
    ASSUME NEW S, NEW s \in Seq(S)
    PROVE  /\ Elems(s) \subseteq S
           /\ s # <<>> => /\ Head(s) \in Elems(s) /\ Head(s) \in S /\ Tail(s) \in Seq(S)
                          /\ Last(s) \in Elems(s) /\ Last(s) \in S
           /\ s = <<>> <=> Elems(s) = {}
           /\ s = <<>> <=> Len(s) = 0
<1>1. Len(s) \in Nat /\ \A i \in 1 .. Len(s) : s[i] \in S OBVIOUS
<1>2. s = <<>> <=> Len(s) = 0 BY EmptySeq
<1>3. Elems(s) \subseteq S BY <1>1 DEF Elems
<1>4. ASSUME s # <<>> PROVE /\ Head(s) \in Elems(s) /\ Head(s) \in S /\ Tail(s) \in Seq(S)
                            /\ Last(s) \in Elems(s) /\ Last(s) \in S
  <2>1. 1 \in 1 .. Len(s) /\ Len(s) \in 1 .. Len(s) BY <1>1, <1>2, <1>4
  <2>2. Head(s) = s[1] /\ Last(s) = s[Len(s)] BY <1>4 DEF Last
  <2>3. Tail(s) \in Seq(S) BY <1>4
  <2> QED BY <1>1, <2>1, <2>2, <2>3 DEF Elems
<1>5. s = <<>> => Elems(s) = {} BY <1>1, <1>2 DEF Elems
<1> QED BY <1>2, <1>3, <1>4, <1>5

LEMMA Consed ==
    ASSUME NEW S, NEW s \in Seq(S), NEW k \in S
    PROVE  /\ <<k>> \o s \in Seq(S) /\ <<k>> \o s # <<>> /\ Head(<<k>> \o s) = k
           /\ Len(<<k>> \o s) = Len(s) + 1
           /\ \A i \in 1 .. Len(s) : (<<k>> \o s)[i + 1] = s[i]
           /\ (<<k>> \o s)[1] = k
           /\ Elems(<<k>> \o s) = {k} \cup Elems(s)
           /\ Once(s) /\ k \notin Elems(s) => Once(<<k>> \o s)
<1> DEFINE r == <<k>> \o s
<1>1. Len(s) \in Nat /\ <<k>> \in Seq(S) /\ Len(<<k>>) = 1 /\ <<k>>[1] = k OBVIOUS
<1>2. r \in Seq(S) BY <1>1
<1>3. Len(r) = Len(s) + 1 BY <1>1
<1>4. r[1] = k BY <1>1
<1>5. \A i \in 1 .. Len(s) : r[i + 1] = s[i]
  <2>1. SUFFICES ASSUME NEW i \in 1 .. Len(s) PROVE r[i + 1] = s[i]
    OBVIOUS
  <2>2. i + 1 \in 1 .. Len(<<k>>) + Len(s) /\ i + 1 > Len(<<k>>) /\ i + 1 - Len(<<k>>) = i BY <1>1
  <2> QED BY <1>1, <2>2
<1>6. \A j \in 1 .. Len(r) : j = 1 \/ (j - 1 \in 1 .. Len(s) /\ r[j] = s[j - 1])
  <2>1. SUFFICES ASSUME NEW j \in 1 .. Len(r), j # 1
                 PROVE  j - 1 \in 1 .. Len(s) /\ r[j] = s[j - 1]
    OBVIOUS
  <2>2. j - 1 \in 1 .. Len(s) /\ (j - 1) + 1 = j BY <1>1, <1>3, <2>1
  <2> QED BY <1>5, <2>2
<1>7. r # <<>> /\ Head(r) = k
  <2>1. r # <<>> BY <1>1, <1>2, <1>3, EmptySeq
  <2> QED BY <1>2, <1>4, <2>1
<1> HIDE DEF r
<1>8. Elems(r) = {k} \cup Elems(s)
  <2>1. Elems(r) \subseteq {k} \cup Elems(s) BY <1>4, <1>6 DEF Elems
  <2>2. k \in Elems(r) BY <1>1, <1>3, <1>4 DEF Elems
  <2>3. \A i \in 1 .. Len(s) : i + 1 \in 1 .. Len(r) BY <1>1, <1>3
  <2>4. Elems(s) \subseteq Elems(r) BY <1>5, <2>3 DEF Elems
  <2> QED BY <2>1, <2>2, <2>4
<1>9. ASSUME Once(s), k \notin Elems(s) PROVE Once(r)
  <2>1. \A i \in 1 .. Len(s) : s[i] # k BY <1>9 DEF Elems
  <2>2. SUFFICES ASSUME NEW i \in 1 .. Len(r), NEW j \in 1 .. Len(r), r[i] = r[j] PROVE i = j
    BY DEF Once
  <2>3. CASE i = 1 \/ j = 1 BY <1>4, <1>6, <2>1, <2>2, <2>3
  <2>4. CASE i # 1 /\ j # 1
    <3>1. i - 1 \in 1 .. Len(s) /\ j - 1 \in 1 .. Len(s) /\ s[i - 1] = s[j - 1] BY <1>6, <2>2, <2>4
    <3>2. i - 1 = j - 1 BY <1>9, <3>1 DEF Once
    <3> QED BY <1>1, <1>3, <3>2
  <2> QED BY <2>3, <2>4
<1> QED BY <1>2, <1>3, <1>4, <1>5, <1>7, <1>8, <1>9 DEF r

\* One end of a sequence removed: the tail, and the front.
LEMMA Tailed ==
    ASSUME NEW S, NEW s \in Seq(S), s # <<>>
    PROVE  /\ Tail(s) \in Seq(S) /\ Len(Tail(s)) = Len(s) - 1
           /\ \A i \in 1 .. Len(s) - 1 : Tail(s)[i] = s[i + 1]
           /\ Elems(Tail(s)) \subseteq Elems(s)
           /\ Once(s) => Once(Tail(s)) /\ Elems(Tail(s)) = Elems(s) \ {Head(s)}
<1>1. Len(s) \in Nat /\ Len(s) # 0 BY EmptySeq
<1>2. Tail(s) \in Seq(S) /\ Len(Tail(s)) = Len(s) - 1 /\ Head(s) = s[1] BY <1>1
<1>3. \A i \in 1 .. Len(s) - 1 : Tail(s)[i] = s[i + 1] BY <1>1
<1> DEFINE r == Tail(s)
<1> HIDE DEF r
<1>4. /\ Len(r) = Len(s) - 1 /\ \A i \in 1 .. Len(r) : r[i] = s[i + 1] /\ i + 1 \in 1 .. Len(s)
  BY <1>1, <1>2, <1>3 DEF r
<1>5. Elems(r) \subseteq Elems(s) BY <1>4 DEF Elems
<1>6. ASSUME Once(s) PROVE Once(r) /\ Elems(r) = Elems(s) \ {Head(s)}
  <2>1. Once(r)
    <3>1. SUFFICES ASSUME NEW i \in 1 .. Len(r), NEW j \in 1 .. Len(r), r[i] = r[j] PROVE i = j
      BY DEF Once
    <3>2. i + 1 = j + 1 BY <1>4, <1>6, <3>1 DEF Once
    <3> QED BY <1>1, <1>4, <3>2
  <2>2. 1 \in 1 .. Len(s) BY <1>1
  <2>3. \A i \in 1 .. Len(r) : r[i] # Head(s)
    <3>1. SUFFICES ASSUME NEW i \in 1 .. Len(r), r[i] = s[1] PROVE FALSE BY <1>2
    <3>2. i + 1 = 1 BY <1>4, <1>6, <2>2, <3>1 DEF Once
    <3> QED BY <1>1, <1>4, <3>2
  <2>4. \A i \in 1 .. Len(s) : i = 1 \/ (i - 1 \in 1 .. Len(r) /\ r[i - 1] = s[i])
    <3>1. SUFFICES ASSUME NEW i \in 1 .. Len(s), i # 1 PROVE i - 1 \in 1 .. Len(r) /\ r[i - 1] = s[i]
      OBVIOUS
    <3>2. i - 1 \in 1 .. Len(r) /\ (i - 1) + 1 = i BY <1>1, <1>4, <3>1
    <3> QED BY <1>4, <3>2
  <2>5. Elems(s) \ {Head(s)} \subseteq Elems(r) BY <1>2, <2>4 DEF Elems
  <2>6. Head(s) \notin Elems(r) BY <2>3 DEF Elems
  <2> QED BY <1>5, <2>1, <2>5, <2>6
<1> QED BY <1>2, <1>3, <1>5, <1>6 DEF r

LEMMA Fronted ==
    ASSUME NEW S, NEW s \in Seq(S), s # <<>>
    PROVE  /\ Front(s) \in Seq(S)
           /\ Once(s) => Once(Front(s)) /\ Elems(Front(s)) = Elems(s) \ {Last(s)}
<1>1. Len(s) \in Nat /\ Len(s) # 0 BY EmptySeq
<1>2. Front(s) = SubSeq(s, 1, Len(s) - 1) BY DEF Front
<1>3. Front(s) \in Seq(S) /\ Len(Front(s)) = Len(s) - 1
  <2> DEFINE n == Len(s) - 1
  <2>1. 1 \in Int /\ n \in Int /\ n >= 0 /\ \A i \in 1 .. n : s[i] \in S BY <1>1
  <2> HIDE DEF n
  <2>2. SubSeq(s, 1, n) \in Seq(S) /\ Len(SubSeq(s, 1, n)) = IF 1 <= n THEN n - 1 + 1 ELSE 0
    BY <2>1, SubSeqProperties
  <2>3. Len(SubSeq(s, 1, n)) = n BY <2>1, <2>2
  <2> QED BY <1>2, <2>2, <2>3 DEF n
<1>4. \A i \in 1 .. Len(s) - 1 : Front(s)[i] = s[i] BY <1>1, <1>2
<1> DEFINE r == Front(s)
<1> HIDE DEF r
<1>5. Len(r) = Len(s) - 1 /\ \A i \in 1 .. Len(r) : r[i] = s[i] /\ i \in 1 .. Len(s) /\ i # Len(s)
  BY <1>1, <1>3, <1>4 DEF r
<1>6. ASSUME Once(s) PROVE Once(r) /\ Elems(r) = Elems(s) \ {Last(s)}
  <2>1. Once(r) BY <1>5, <1>6 DEF Once
  <2>2. Len(s) \in 1 .. Len(s) BY <1>1
  <2>3. \A i \in 1 .. Len(r) : r[i] # Last(s) BY <1>5, <1>6, <2>2 DEF Once, Last
  <2>4. \A i \in 1 .. Len(s) : i = Len(s) \/ (i \in 1 .. Len(r) /\ r[i] = s[i]) BY <1>1, <1>5
  <2>5. Elems(s) \ {Last(s)} \subseteq Elems(r) BY <2>4 DEF Elems, Last
  <2>6. Elems(r) \subseteq Elems(s) /\ Last(s) \notin Elems(r) BY <1>5, <2>3 DEF Elems
  <2> QED BY <2>1, <2>5, <2>6
<1> QED BY <1>3, <1>6 DEF r

LEMMA Appended ==
    ASSUME NEW S, NEW s \in Seq(S), NEW k \in S
    PROVE  /\ Append(s, k) \in Seq(S)
           /\ Elems(Append(s, k)) = Elems(s) \cup {k}
           /\ Once(s) /\ k \notin Elems(s) => Once(Append(s, k))
<1> DEFINE r == Append(s, k)
<1>1. Len(s) \in Nat /\ r \in Seq(S) /\ Len(r) = Len(s) + 1 /\ r[Len(s) + 1] = k
      /\ \A i \in 1 .. Len(s) : r[i] = s[i]
  OBVIOUS
<1> HIDE DEF r
<1>2. \A i \in 1 .. Len(r) : i = Len(s) + 1 \/ i \in 1 .. Len(s) BY <1>1
<1>3. \A i \in 1 .. Len(s) : i \in 1 .. Len(r) BY <1>1
<1>4. Len(s) + 1 \in 1 .. Len(r) BY <1>1
<1>5. Elems(r) = Elems(s) \cup {k} BY <1>1, <1>2, <1>3, <1>4 DEF Elems
<1>6. ASSUME Once(s), k \notin Elems(s) PROVE Once(r)
  <2>1. \A i \in 1 .. Len(s) : s[i] # k BY <1>6 DEF Elems
  <2>2. SUFFICES ASSUME NEW i \in 1 .. Len(r), NEW j \in 1 .. Len(r), r[i] = r[j] PROVE i = j
    BY DEF Once
  <2> QED BY <1>1, <1>2, <1>6, <2>1, <2>2 DEF Once
<1> QED BY <1>1, <1>5, <1>6 DEF r
---------------------------------------------------------------------------
(* What the steps do to the stacks of the threads.                         *)

LEMMA Tops ==
    ASSUME Typed, Shape, NEW t \in Threads
    PROVE  /\ t \in Implicit /\ t \in Tasks /\ stack[t] \in Seq(Tasks) /\ stack[t] # <<>>
           /\ Cur(t) \in Tasks /\ Cur(t) \in Elems(stack[t]) /\ Cur(t) \in {t} \cup Explicit
           /\ \A w : At(t, w) <=> at[Cur(t)] = w
           /\ \A u \in Threads : Cur(u) = Cur(t) => u = t
           /\ Elems(stack[t]) \subseteq Tasks
<1>1. t \in Implicit /\ t \in Tasks BY ThreadTasks DEF Typed
<1>2. stack[t] \in Seq(Tasks) /\ t \in Elems(stack[t]) /\ Elems(stack[t]) \subseteq {t} \cup Explicit
  BY <1>1 DEF Typed, Shape
<1>3. stack[t] # <<>> BY <1>2, ElemsOf
<1>4. Cur(t) \in Tasks /\ Cur(t) \in Elems(stack[t]) BY <1>2, <1>3, ElemsOf DEF Cur
<1>5. \A w : At(t, w) <=> at[Cur(t)] = w BY <1>3 DEF At
<1>6. ASSUME NEW u \in Threads, Cur(u) = Cur(t) PROVE u = t
  <2>1. u \in Implicit BY ThreadTasks DEF Typed
  <2>2. stack[u] \in Seq(Tasks) /\ u \in Elems(stack[u]) BY <2>1 DEF Typed, Shape
  <2>3. stack[u] # <<>> BY <2>2, ElemsOf
  <2>4. Cur(u) \in Elems(stack[u]) BY <2>2, <2>3, ElemsOf DEF Cur
  <2> QED BY <1>4, <1>6, <2>4 DEF Shape
<1> QED BY <1>1, <1>2, <1>3, <1>4, <1>5, <1>6, ElemsOf

\* Below the current task the stack stays as it is.
LEMMA FitsBelow ==
    ASSUME NEW t, NEW k, Fits(t, k), k # Cur(t), at'[k] = at[k], status'[k] = status[k]
    PROVE  Fits(t, k)'
<1>1. at'[k] \in {"run", "notify"} BY DEF Fits
<1>2. at'[k] \in Busy => status'[k] = "running" BY DEF Fits
<1>3. at'[k] \in Ending => status'[k] = "complete" /\ k \in Explicit BY DEF Fits
<1> QED BY <1>1, <1>2, <1>3 DEF Fits

LEMMA OtherStack ==
    ASSUME Typed, Shape, Doing, NEW t \in Threads, NEW u \in Threads, u # t,
           stack'[u] = stack[u], climb'[u] = climb[u],
           \A k \in Elems(stack[u]) : at'[k] = at[k] /\ status'[k] = status[k]
    PROVE  \A k \in Elems(stack[u])' : Fits(u, k)'
<1>1. Elems(stack[u])' = Elems(stack[u]) BY DEF Elems
<1>2. SUFFICES ASSUME NEW k \in Elems(stack[u]) PROVE Fits(u, k)'
  BY <1>1
<1>3. Fits(u, k) BY DEF Doing
<1>4. Cur(u)' = Cur(u) BY DEF Cur
<1> QED BY <1>3, <1>4 DEF Fits

\* What a step of thread t may do to tasks other than its current one.
Untouched(t, k) == at'[k] = at[k] /\ pc'[k] = pc[k]
Bystander(k) ==
    \/ status'[k] = status[k]
    \/ k \in Explicit /\ status[k] = "none" /\ status'[k] = "created"
    \/ k \in Explicit /\ status[k] \in {"running", "complete"} /\ OffStack(k) /\ status'[k] = "freed"

LEMMA OnStack ==
    ASSUME Typed, Shape, Doing, Idle, NEW t \in Threads, NEW k \in Elems(stack[t])
    PROVE  k \in Tasks /\ status[k] \notin {"none", "created"} /\ (Bystander(k) => status'[k] = status[k])
<1>1. k \in Tasks BY Tops
<1>2. ~OffStack(k) BY DEF OffStack
<1>3. at[k] \in Busy \cup Ending \cup {"climb"} BY <1>1 DEF Typed
<1>4. status[k] \in {"running", "complete", "freed"} BY <1>3 DEF Doing, Fits
<1> QED BY <1>1, <1>2, <1>4 DEF Bystander

LEMMA SameStack ==
    ASSUME Typed, Shape, Doing, Idle, NEW t \in Threads, prog' = prog, stack' = stack,
           \A u \in Threads : u # t => climb'[u] = climb[u],
           \A k \in Tasks : k # Cur(t) => Untouched(t, k) /\ Bystander(k),
           status'[Cur(t)] \in {"running", "complete", "freed"},
           Cur(t) \in Implicit => status'[Cur(t)] = "running",
           Fits(t, Cur(t))'
    PROVE  Shape' /\ Doing' /\ Idle' /\ \A k : OffStack(k)' <=> OffStack(k)
<1>1. Threads' = Threads BY DEF Threads
<1>2. \A u : Elems(stack[u])' = Elems(stack[u]) /\ Cur(u)' = Cur(u) BY DEF Cur, Elems
<1>3. \A k : OffStack(k)' <=> OffStack(k) BY <1>1, <1>2 DEF OffStack
<1>4. Shape' BY <1>1, <1>2 DEF Shape, Once
<1>5. Doing'
  <2>1. SUFFICES ASSUME NEW u \in Threads, NEW k \in Elems(stack[u]) PROVE Fits(u, k)'
    BY <1>1, <1>2 DEF Doing
  <2>2. CASE k = Cur(t)
    <3>1. Cur(t) \in Elems(stack[t]) BY Tops
    <3>2. k \in Elems(stack[t]) /\ k \in Elems(stack[u]) BY <2>1, <2>2, <3>1
    <3>3. u = t BY <3>2 DEF Shape
    <3> QED BY <1>2, <2>2, <3>3
  <2>3. CASE k # Cur(t)
    <3>1. k \in Tasks /\ at'[k] = at[k] /\ status'[k] = status[k] BY <2>3, OnStack DEF Untouched
    <3>2. Fits(u, k) BY DEF Doing
    <3>3. CASE u = t BY <2>3, <3>1, <3>2, <3>3, FitsBelow
    <3>4. CASE u # t BY <3>1, <3>2, <3>4, <1>2 DEF Fits
    <3> QED BY <3>3, <3>4
  <2> QED BY <2>2, <2>3
<1>6. Idle'
  <2>0. Cur(t) \in Tasks BY Tops
  <2>1. \A k \in Tasks : status'[k] \in {"none", "created"} =>
            k # Cur(t) /\ status[k] \in {"none", "created"}
    BY DEF Bystander
  <2>2. \A k \in Tasks : status'[k] \in {"none", "created"} => at'[k] = "run" /\ pc'[k] = 1
    BY <2>1 DEF Idle, Untouched
  <2>3. \A k \in Explicit : status'[k] \in {"none", "created"} => OffStack(k)'
    BY <2>1, <1>3 DEF Idle, Tasks
  <2>4. \A k \in Implicit : status'[k] \in {"none", "running"}
    BY Numbers, <2>1 DEF Idle, Bystander, Tasks
  <2> QED BY <2>2, <2>3, <2>4 DEF Idle
<1> QED BY <1>3, <1>4, <1>5, <1>6

LEMMA Invoked ==
    ASSUME Typed, Shape, Doing, Idle, NEW t \in Threads, NEW k \in Explicit, prog' = prog, Invoke(t, k),
           status[k] = "created", climb' = climb, pc' = pc,
           \/ at' = at /\ at[Cur(t)] \in {"run", "notify"}
           \/ at' = [at EXCEPT ![Cur(t)] = "run"] /\ status[Cur(t)] = "running"
    PROVE  /\ Shape' /\ Doing' /\ Idle'
           /\ Cur(t)' = k /\ at'[k] = "run" /\ \A u \in Threads : u # t => Cur(u)' = Cur(u)
           /\ \A j \in Tasks : j # k => (OffStack(j)' <=> OffStack(j))
           /\ ~OffStack(k)' /\ OffStack(k)
           /\ stack' \in [Implicit -> Seq(Tasks)] /\ status' \in [Tasks -> Statuses]
<1>1. Threads' = Threads BY DEF Threads
<1>0. /\ t \in Implicit /\ stack[t] \in Seq(Tasks) /\ Cur(t) \in Tasks /\ k \in Tasks
      /\ Cur(t) \in Elems(stack[t]) /\ stack[t] # <<>>
  BY Tops DEF Tasks
<1>2. stack' = [stack EXCEPT ![t] = <<k>> \o stack[t]] /\ status' = [status EXCEPT ![k] = "running"]
  BY DEF Invoke
<1>3. /\ stack'[t] = <<k>> \o stack[t] /\ \A u \in Threads : u # t => stack'[u] = stack[u]
      /\ status'[k] = "running" /\ \A j \in Tasks : j # k => status'[j] = status[j]
  BY <1>0, <1>2, ThreadTasks DEF Typed
<1>4. /\ stack'[t] \in Seq(Tasks) /\ Head(stack'[t]) = k
      /\ Elems(stack'[t]) = {k} \cup Elems(stack[t])
      /\ Once(stack[t]) /\ k \notin Elems(stack[t]) => Once(stack'[t])
  BY <1>0, <1>3, Consed
<1>5. OffStack(k) BY DEF Idle
<1>6. k \notin Elems(stack[t]) BY <1>5 DEF OffStack
<1>7. stack' \in [Implicit -> Seq(Tasks)] /\ status' \in [Tasks -> Statuses]
  <2>1. status' \in [Tasks -> Statuses] BY <1>2 DEF Typed, Statuses
  <2>2. stack' \in [Implicit -> Seq(Tasks)] BY <1>0, <1>2, <1>3, <1>4 DEF Typed
  <2> QED BY <2>1, <2>2
<1>8. Cur(t)' = k /\ \A u \in Threads : u # t => Cur(u)' = Cur(u) BY <1>3, <1>4 DEF Cur
<1>9. k # Cur(t) BY <1>0, <1>6
<1>10. /\ at'[k] = "run" /\ \A j \in Tasks : j # Cur(t) => at'[j] = at[j]
       /\ at'[Cur(t)] \in {"run", "notify"}
       /\ at'[Cur(t)] = at[Cur(t)] \/ (at'[Cur(t)] = "run" /\ status[Cur(t)] = "running")
  <2>1. at[k] = "run"
    <3>1. status[k] \in {"none", "created"} OBVIOUS
    <3> QED BY <1>0, <3>1 DEF Idle
  <2>2. DOMAIN at = Tasks /\ at = [j \in Tasks |-> at[j]] BY DEF Typed
  <2>3. CASE at' = at /\ at[Cur(t)] \in {"run", "notify"} BY <2>1, <2>3
  <2>4. CASE at' = [at EXCEPT ![Cur(t)] = "run"] /\ status[Cur(t)] = "running"
    BY <1>0, <1>9, <2>1, <2>2, <2>4
  <2> QED BY <2>3, <2>4
<1>11. \A u \in Threads : u # t => Elems(stack'[u]) = Elems(stack[u]) BY <1>3
<1>12. \A j \in Tasks : j # k => (OffStack(j)' <=> OffStack(j))
  BY <1>1, <1>4, <1>11 DEF OffStack
<1>13. ~OffStack(k)' BY <1>1, <1>4 DEF OffStack
<1>14. Shape'
  <2>1. ASSUME NEW u \in Threads
        PROVE  u \in Elems(stack'[u]) /\ Once(stack'[u]) /\ Elems(stack'[u]) \subseteq {u} \cup Explicit
    <3>1. CASE u = t BY <1>4, <1>6, <3>1 DEF Shape
    <3>2. CASE u # t BY <1>3, <3>2 DEF Shape
    <3> QED BY <3>1, <3>2
  <2>2. ASSUME NEW u \in Threads, NEW v \in Threads, NEW j \in Elems(stack'[u]), j \in Elems(stack'[v])
        PROVE  u = v
    <3>1. CASE j = k
      <4>1. \A w \in Threads : k \notin Elems(stack[w]) BY <1>5 DEF OffStack
      <4> QED BY <1>11, <2>2, <3>1, <4>1
    <3>2. CASE j # k
      <4>1. j \in Elems(stack[u]) BY <1>4, <1>11, <2>2, <3>2
      <4>2. j \in Elems(stack[v]) BY <1>4, <1>11, <2>2, <3>2
      <4> QED BY <4>1, <4>2 DEF Shape
    <3> QED BY <3>1, <3>2
  <2> QED BY <1>1, <2>1, <2>2 DEF Shape
<1>15. Doing'
  <2>1. SUFFICES ASSUME NEW u \in Threads, NEW j \in Elems(stack'[u]) PROVE Fits(u, j)'
    BY <1>1 DEF Doing
  <2>2. CASE j = k
    <3>1. u = t
      <4>1. \A w \in Threads : k \notin Elems(stack[w]) BY <1>5 DEF OffStack
      <4> QED BY <1>11, <2>1, <2>2, <4>1
    <3> QED BY <1>3, <1>8, <1>10, <2>2, <3>1 DEF Fits, Busy, Ending
  <2>3. CASE j # k /\ u = t /\ j # Cur(t)
    <3>1. j \in Elems(stack[t]) /\ j \in Tasks BY <1>4, <2>1, <2>3, Tops
    <3>2. Fits(t, j) BY <3>1 DEF Doing
    <3>3. at'[j] = at[j] /\ status'[j] = status[j] BY <1>3, <1>10, <2>3, <3>1
    <3> QED BY <2>3, <3>2, <3>3, FitsBelow
  <2>4. CASE j # k /\ u = t /\ j = Cur(t)
    <3>1. Fits(t, Cur(t)) BY <1>0 DEF Doing
    <3>2. status'[j] = status[j] BY <1>0, <1>3, <2>4
    <3>3. CASE at'[Cur(t)] = at[Cur(t)] BY <1>8, <1>10, <2>4, <3>1, <3>2, <3>3 DEF Fits
    <3>4. CASE at'[Cur(t)] = "run" /\ status[Cur(t)] = "running"
      BY <2>4, <3>2, <3>4 DEF Fits, Busy, Ending
    <3> QED BY <1>10, <3>3, <3>4
  <2>5. CASE j # k /\ u # t
    <3>1. j \in Elems(stack[u]) /\ j \in Tasks BY <1>11, <2>1, <2>5, Tops
    <3>2. j # Cur(t) BY <1>0, <2>5, <3>1 DEF Shape
    <3>3. Fits(u, j) BY <3>1 DEF Doing
    <3>4. at'[j] = at[j] /\ status'[j] = status[j] /\ Cur(u)' = Cur(u)
      BY <1>3, <1>8, <1>10, <2>5, <3>1, <3>2
    <3> QED BY <3>3, <3>4 DEF Fits
  <2> QED BY <2>2, <2>3, <2>4, <2>5
<1>16. Idle'
  <2>1. status[Cur(t)] \notin {"none", "created"} BY <1>0, OnStack
  <2>2. \A j \in Tasks : status'[j] \in {"none", "created"} =>
            j # k /\ j # Cur(t) /\ status[j] \in {"none", "created"}
    BY <1>3, <2>1
  <2>3. \A j \in Tasks : status'[j] \in {"none", "created"} => at'[j] = "run" /\ pc'[j] = 1
    BY <1>10, <2>2 DEF Idle
  <2>4. \A j \in Explicit : status'[j] \in {"none", "created"} => OffStack(j)'
    BY <1>12, <2>2 DEF Idle, Tasks
  <2>5. \A j \in Implicit : status'[j] \in {"none", "running"}
    BY Numbers, <1>3 DEF Idle, Tasks
  <2> QED BY <2>3, <2>4, <2>5 DEF Idle
<1> QED BY <1>5, <1>7, <1>8, <1>10, <1>12, <1>13, <1>14, <1>15, <1>16

LEMMA Popped ==
    ASSUME Typed, Shape, Doing, Idle, NEW t \in Threads, prog' = prog,
           stack' = [stack EXCEPT ![t] = Tail(@)], at[Cur(t)] = "climb", at' = at, pc' = pc,
           \A u \in Threads : u # t => climb'[u] = climb[u],
           \A k \in Tasks : k # Cur(t) => Bystander(k),
           status'[Cur(t)] \in {"complete", "freed"}
    PROVE  /\ Shape' /\ Doing' /\ Idle'
           /\ at'[Cur(t)'] \in {"run", "notify"} /\ \A u \in Threads : u # t => Cur(u)' = Cur(u)
           /\ \A j \in Tasks : j # Cur(t) => (OffStack(j)' <=> OffStack(j))
           /\ \A j \in Tasks : j = Cur(t) => OffStack(j)'
           /\ stack' \in [Implicit -> Seq(Tasks)]
<1>0. PICK c : c = Cur(t)
  OBVIOUS
<1>1. Threads' = Threads BY DEF Threads
<1>2. /\ t \in Implicit /\ stack[t] \in Seq(Tasks) /\ c \in Tasks /\ c \in Elems(stack[t])
      /\ stack[t] # <<>> /\ c = Head(stack[t]) /\ t \in Tasks
  BY <1>0, Tops DEF Cur
<1>3. Fits(t, c) BY <1>2 DEF Doing
<1>4. c \in Explicit /\ c # t BY <1>0, <1>2, <1>3, Numbers DEF Fits
<1>5. /\ stack'[t] = Tail(stack[t]) /\ \A u \in Threads : u # t => stack'[u] = stack[u]
  BY <1>2, ThreadTasks DEF Typed
<1>6. Once(stack[t]) BY DEF Shape
<1>7. /\ stack'[t] \in Seq(Tasks) /\ Once(stack'[t]) /\ Elems(stack'[t]) = Elems(stack[t]) \ {c}
  BY <1>2, <1>5, <1>6, Tailed
<1>8. t \in Elems(stack'[t]) BY <1>4, <1>7 DEF Shape
<1>9. stack'[t] # <<>> /\ Head(stack'[t]) \in Elems(stack'[t])
  <2>1. PICK s \in Seq(Tasks) : s = stack'[t] BY <1>7
  <2>2. Elems(s) # {} BY <1>8, <2>1
  <2>3. s # <<>> /\ Head(s) \in Elems(s) BY <2>2, ElemsOf
  <2> QED BY <2>1, <2>3
<1>10. Cur(t)' = Head(stack'[t]) /\ \A u \in Threads : u # t => Cur(u)' = Cur(u) BY <1>5 DEF Cur
<1>11. \A u \in Threads : u # t => Elems(stack'[u]) = Elems(stack[u]) BY <1>5
<1>12. \A u \in Threads : Elems(stack'[u]) \subseteq Elems(stack[u]) \ {c}
  <2>1. \A u \in Threads : u # t => c \notin Elems(stack[u]) BY <1>2 DEF Shape
  <2> QED BY <1>7, <1>11, <2>1
<1>13. OffStack(c)' BY <1>1, <1>12 DEF OffStack
<1>14. \A j \in Tasks : j # c => (OffStack(j)' <=> OffStack(j)) BY <1>1, <1>7, <1>11 DEF OffStack
<1>15. stack' \in [Implicit -> Seq(Tasks)] BY <1>2, <1>5, <1>7 DEF Typed
<1>16. Shape'
  <2>1. ASSUME NEW u \in Threads
        PROVE  u \in Elems(stack'[u]) /\ Once(stack'[u]) /\ Elems(stack'[u]) \subseteq {u} \cup Explicit
    <3>1. CASE u = t BY <1>7, <1>8, <3>1 DEF Shape
    <3>2. CASE u # t BY <1>5, <3>2 DEF Shape
    <3> QED BY <3>1, <3>2
  <2>2. ASSUME NEW u \in Threads, NEW v \in Threads, NEW j \in Elems(stack'[u]), j \in Elems(stack'[v])
        PROVE  u = v
    BY <1>12, <2>2 DEF Shape
  <2> QED BY <1>1, <2>1, <2>2 DEF Shape
<1>17. ASSUME NEW u \in Threads, NEW j \in Elems(stack'[u])
       PROVE  j # c /\ j \in Tasks /\ j \in Elems(stack[u]) /\ status'[j] = status[j]
  <2>1. j # c /\ j \in Elems(stack[u]) BY <1>12, <1>17
  <2>2. j \in Tasks BY <2>1, Tops
  <2>3. Bystander(j) BY <1>0, <2>1, <2>2
  <2> QED BY <2>1, <2>2, <2>3, OnStack
<1>18. \A j \in Elems(stack'[t]) : at'[j] \in {"run", "notify"}
  <2>1. SUFFICES ASSUME NEW j \in Elems(stack'[t]) PROVE at'[j] \in {"run", "notify"}
    OBVIOUS
  <2>2. j # c /\ j \in Elems(stack[t]) BY <1>17
  <2> QED BY <1>0, <2>2 DEF Doing, Fits
<1>19. Doing'
  <2>1. SUFFICES ASSUME NEW u \in Threads, NEW j \in Elems(stack'[u]) PROVE Fits(u, j)'
    BY <1>1 DEF Doing
  <2>2. j # c /\ j \in Elems(stack[u]) /\ status'[j] = status[j] BY <1>17
  <2>3. Fits(u, j) BY <2>2 DEF Doing
  <2>4. CASE u = t
    <3>1. at'[j] \in {"run", "notify"} BY <1>18, <2>4
    <3> QED BY <1>0, <2>2, <2>3, <2>4, <3>1, FitsBelow
  <2>5. CASE u # t BY <1>10, <2>2, <2>3, <2>5 DEF Fits
  <2> QED BY <2>4, <2>5
<1>20. Idle'
  <2>1. \A j \in Tasks : status'[j] \in {"none", "created"} => j # c /\ status[j] \in {"none", "created"}
    BY <1>0 DEF Bystander
  <2>2. \A j \in Tasks : status'[j] \in {"none", "created"} => at'[j] = "run" /\ pc'[j] = 1
    BY <2>1 DEF Idle
  <2>3. \A j \in Explicit : status'[j] \in {"none", "created"} => OffStack(j)'
    BY <2>1, <1>14 DEF Idle, Tasks
  <2>4. \A j \in Implicit : status'[j] \in {"none", "running"}
    BY Numbers, <1>0, <1>4 DEF Idle, Bystander, Tasks
  <2> QED BY <2>2, <2>3, <2>4 DEF Idle
<1>21. at'[Cur(t)'] \in {"run", "notify"} BY <1>9, <1>10, <1>18
<1> QED BY <1>0, <1>10, <1>13, <1>14, <1>15, <1>16, <1>19, <1>20, <1>21

LEMMA OpsOf ==
    ASSUME Typed, NEW k \in Tasks
    PROVE  /\ pc[k] \in 1 .. Len(Body(k)) + 1 /\ pc[k] \in Nat /\ Len(Body(k)) \in Nat
           /\ Op(k) = "end" <=> pc[k] = Len(Body(k)) + 1
           /\ Op(k) # "end" => /\ pc[k] \in DOMAIN Body(k) /\ pc[k] + 1 \in 1 .. Len(Body(k)) + 1
                               /\ Is(Body(k), pc[k], Op(k), Arg(k))
           /\ Op(k) = "task" => Arg(k) \in Explicit
           /\ Op(k) \in {"group", "endgroup"} => Arg(k) \in Groups
<1>1. /\ Body(k) \in Seq(Ops) /\ Len(Body(k)) \in Nat /\ DOMAIN Body(k) = 1 .. Len(Body(k))
      /\ \A i \in 1 .. Len(Body(k)) :
                /\ Body(k)[i] \in Ops
                /\ Body(k)[i] = [op |-> Body(k)[i].op, arg |-> Body(k)[i].arg]
                /\ Body(k)[i].op = "task" => Body(k)[i].arg \in Explicit
                /\ Body(k)[i].op \in {"group", "endgroup"} => Body(k)[i].arg \in Groups
  BY Bodies DEF Typed
<1>2. pc[k] \in 1 .. Len(Body(k)) + 1 BY DEF Typed
<1>3. Ends(k) <=> pc[k] = Len(Body(k)) + 1 BY <1>1, <1>2 DEF Ends
<1>4. CASE Ends(k) BY <1>1, <1>2, <1>3, <1>4 DEF Op
<1>5. CASE ~Ends(k)
  <2>1. pc[k] \in 1 .. Len(Body(k)) BY <1>1, <1>2, <1>3, <1>5
  <2>2. Op(k) = Body(k)[pc[k]].op /\ Arg(k) = Body(k)[pc[k]].arg BY <1>5 DEF Op, Arg
  <2>3. Body(k)[pc[k]].op # "end" BY <1>1, <2>1 DEF Ops
  <2> QED BY <1>1, <1>2, <1>3, <1>5, <2>1, <2>2, <2>3 DEF Is
<1> QED BY <1>4, <1>5

LEMMA CurFits ==
    ASSUME Typed, Shape, Doing, NEW t \in Threads
    PROVE  /\ Fits(t, Cur(t))
           /\ \A w \in Busy : At(t, w) => status[Cur(t)] = "running"
           /\ \A w \in Ending : At(t, w) => status[Cur(t)] = "complete" /\ Cur(t) \in Explicit
           /\ At(t, "climb") => Cur(t) \in Explicit /\ climb[t] \in Explicit
           /\ at[Cur(t)] \in Busy \cup Ending \cup {"climb"}
<1>1. Cur(t) \in Elems(stack[t]) /\ Cur(t) \in Tasks /\ \A w : At(t, w) <=> at[Cur(t)] = w BY Tops
<1>2. Fits(t, Cur(t)) BY <1>1 DEF Doing
<1>3. at[Cur(t)] \in Busy \cup Ending \cup {"climb"} BY <1>1 DEF Typed
<1> QED BY <1>1, <1>2, <1>3 DEF Fits

LEMMA SpawnsNew ==
    ASSUME Typed, Spawning, NEW k \in Tasks, Op(k) = "task", status[k] # "none"
    PROVE  /\ Arg(k) \in Explicit /\ status[Arg(k)] = "none" /\ Arg(k) # k
           /\ Spawner(Arg(k)) = k /\ Is(Body(k), pc[k], "task", Arg(k))
<1>1. Arg(k) \in Explicit /\ Is(Body(k), pc[k], "task", Arg(k)) BY OpsOf
<1>2. Spawner(Arg(k)) = k BY <1>1, Spawners DEF Typed
<1>3. ASSUME status[Arg(k)] # "none" PROVE FALSE
  <2>1. SpawnedBefore(Arg(k)) BY <1>1, <1>3 DEF Spawning
  <2>0. PICK p \in Tasks : \E i \in 1 .. pc[p] - 1 : Is(Body(p), i, "task", Arg(k))
    BY <2>1 DEF SpawnedBefore
  <2>2. PICK i \in 1 .. pc[p] - 1 : Is(Body(p), i, "task", Arg(k)) BY <2>0
  <2>3. p = k /\ i = pc[k] BY <1>1, <2>2, OnePlace DEF Typed
  <2> QED BY <2>2, <2>3, OpsOf
<1> QED BY <1>1, <1>2, <1>3

LEMMA LyingCreated ==
    ASSUME InOnePlace, NEW c \in Explicit, NEW x, NEW p, NEW t, Lies(c, x, p, t)
    PROVE  status[c] = "created"
BY DEF InOnePlace, Lying

\* What __kmp_omp_task does, with the types that follow.
LEMMA Submitted ==
    ASSUME Typed, NEW t \in Implicit, NEW k \in Explicit, Submit(t, k)
    PROVE  /\ mine[t] \in {0, 1}
           /\ \/ Invoke(t, k) /\ UNCHANGED deque
              \/ /\ UNCHANGED <<stack, status>>
                 /\ deque' \in [{0, 1} -> [Implicit -> DequeType]]
                 /\ deque'[mine[t]][t].tasks = Append(deque[mine[t]][t].tasks, k)
                 /\ \A p \in {0, 1}, u \in Implicit : p # mine[t] \/ u # t =>
                        deque'[p][u].tasks = deque[p][u].tasks
<1> DEFINE p == mine[t]  d == deque[p][t]
<1>1. p \in {0, 1} BY DEF Submit, Typed
<1>2. d \in DequeType BY <1>1 DEF Typed
<1>3. CASE Invoke(t, k) /\ UNCHANGED deque BY <1>1, <1>3
<1>4. ASSUME NEW n \in Int,
             deque' = [deque EXCEPT ![p][t] = [tasks |-> Append(d.tasks, k), cap |-> n]]
      PROVE  /\ deque' \in [{0, 1} -> [Implicit -> DequeType]]
             /\ deque'[p][t].tasks = Append(d.tasks, k)
             /\ \A q \in {0, 1}, u \in Implicit : q # p \/ u # t => deque'[q][u].tasks = deque[q][u].tasks
  <2> DEFINE e == [tasks |-> Append(d.tasks, k), cap |-> n]
  <2>1. d.tasks \in Seq(Explicit) BY <1>2 DEF DequeType
  <2>2. e \in DequeType /\ e.tasks = Append(d.tasks, k)
    <3> HIDE DEF d, p
    <3>1. Append(d.tasks, k) \in Seq(Explicit) BY <2>1
    <3> QED BY <1>4, <3>1 DEF DequeType
  <2>3. deque \in [{0, 1} -> [Implicit -> DequeType]] BY DEF Typed
  <2>4. deque' = [deque EXCEPT ![p][t] = e] BY <1>4
  <2> HIDE DEF e, d, p
  <2>5. deque' = [deque EXCEPT ![p] = [deque[p] EXCEPT ![t] = e]] BY <2>4
  <2>6. [deque[p] EXCEPT ![t] = e] \in [Implicit -> DequeType] BY <1>1, <2>2, <2>3
  <2>7. deque' \in [{0, 1} -> [Implicit -> DequeType]] BY <1>1, <2>3, <2>5, <2>6
  <2>8. deque'[p][t] = e BY <1>1, <2>3, <2>5
  <2>9. \A q \in {0, 1}, u \in Implicit : q # p \/ u # t => deque'[q][u] = deque[q][u]
    BY <1>1, <2>3, <2>5
  <2> QED BY <2>2, <2>7, <2>8, <2>9
<1>5. d.cap \in Int /\ 2 * d.cap \in Int BY <1>2 DEF DequeType
<1>6. CASE UNCHANGED <<stack, status>> /\ \E n \in {d.cap, 2 * d.cap} :
              deque' = [deque EXCEPT ![p][t] = [tasks |-> Append(d.tasks, k), cap |-> n]]
  <2> HIDE DEF d, p
  <2>1. PICK n \in {d.cap, 2 * d.cap} :
              deque' = [deque EXCEPT ![p][t] = [tasks |-> Append(d.tasks, k), cap |-> n]]
    BY <1>6
  <2>2. n \in Int BY <1>5
  <2>3. /\ deque' \in [{0, 1} -> [Implicit -> DequeType]]
        /\ deque'[p][t].tasks = Append(d.tasks, k)
        /\ \A q \in {0, 1}, u \in Implicit : q # p \/ u # t => deque'[q][u].tasks = deque[q][u].tasks
    BY <1>4, <2>1, <2>2
  <2> QED BY <1>1, <1>6, <2>3 DEF d, p
<1>7. \/ Invoke(t, k) /\ UNCHANGED deque
      \/ UNCHANGED <<stack, status>> /\ \E n \in {d.cap, 2 * d.cap} :
              deque' = [deque EXCEPT ![p][t] = [tasks |-> Append(d.tasks, k), cap |-> n]]
  BY DEF Submit
<1> QED BY <1>3, <1>6, <1>7

\* A deque loses its first or its last task: the tasks that it is left with.
LeftWith(p, t, s) == deque' = [deque EXCEPT ![p][t].tasks = s]
LEMMA Taken ==
    ASSUME Typed, NEW p \in {0, 1}, NEW t \in Implicit, NEW s \in Seq(Explicit), LeftWith(p, t, s)
    PROVE  /\ deque' \in [{0, 1} -> [Implicit -> DequeType]]
           /\ deque'[p][t].tasks = s
           /\ \A q \in {0, 1}, u \in Implicit : q # p \/ u # t => deque'[q][u].tasks = deque[q][u].tasks
<1> DEFINE e == [deque[p][t] EXCEPT !.tasks = s]
<1>1. deque \in [{0, 1} -> [Implicit -> DequeType]] BY DEF Typed
<1>2. deque[p][t] \in DequeType BY <1>1
<1>3. e \in DequeType /\ e.tasks = s BY <1>2 DEF DequeType
<1>4. deque' = [deque EXCEPT ![p] = [deque[p] EXCEPT ![t] = e]] BY DEF LeftWith
<1> HIDE DEF e
<1>5. [deque[p] EXCEPT ![t] = e] \in [Implicit -> DequeType] BY <1>1, <1>3
<1>6. deque' \in [{0, 1} -> [Implicit -> DequeType]] BY <1>1, <1>4, <1>5
<1>7. deque'[p][t] = e BY <1>1, <1>4
<1>8. \A q \in {0, 1}, u \in Implicit : q # p \/ u # t => deque'[q][u] = deque[q][u]
  BY <1>1, <1>4
<1> QED BY <1>3, <1>6, <1>7, <1>8

\* The last reference of a task that a thread drops on behalf of a child.
LEMMA LastReference ==
    ASSUME Inv, NEW t \in Threads, At(t, "climb")
    PROVE  /\ climb[t] \in Explicit /\ Live(climb[t]) /\ Cur(t) \in Explicit
           /\ climb[t] = Cur(t) => status[Cur(t)] = "complete"
           /\ climb[t] # Cur(t) => status[Cur(t)] = "freed"
           /\ refs[climb[t]] = 1 =>
                /\ status[climb[t]] = "complete" /\ Children(climb[t]) = {}
                /\ climb[t] # Cur(t) => OffStack(climb[t])
                /\ \A u \in Threads : Dropping(u, climb[t]) => u = t
           /\ refs[climb[t]] = 1 => Holders(climb[t]) = {IF climb[t] = Cur(t) THEN climb[t] ELSE t}
<1> DEFINE c == climb[t]
<1>1. Typed /\ Shape /\ Doing /\ ReferenceCounts BY DEF Inv, StackInv
<1>2. Cur(t) \in Explicit /\ c \in Explicit /\ Cur(t) \in Elems(stack[t]) BY <1>1, CurFits, Tops
<1>3. /\ climb[t] = Cur(t) => status[Cur(t)] = "complete"
      /\ climb[t] # Cur(t) => status[Cur(t)] = "freed"
  BY <1>1, CurFits, Tops DEF Fits
<1>4. Holders(c) = {x \in {c} : Whole(c)} \cup Children(c) \cup {u \in Threads : Dropping(u, c)}
  BY DEF Holders
<1> DEFINE h == IF c = Cur(t) THEN c ELSE t
<1>5. h \in Holders(c)
  <2>1. CASE c = Cur(t)
    <3>1. ~OffStack(c) BY <1>2, <2>1 DEF OffStack
    <3>2. Whole(c) BY <1>3, <2>1, <3>1 DEF Whole
    <3> QED BY <1>4, <2>1, <3>2
  <2>2. CASE c # Cur(t)
    <3>1. Dropping(t, c) BY <2>2 DEF Dropping
    <3> QED BY <1>4, <2>2, <3>1
  <2> QED BY <2>1, <2>2
<1> HIDE DEF h
<1>6. Live(c) /\ IsFiniteSet(Holders(c)) /\ refs[c] = Cardinality(Holders(c))
  BY <1>1, <1>2, <1>5 DEF ReferenceCounts
<1>7. ASSUME refs[c] = 1
      PROVE  /\ status[c] = "complete" /\ Children(c) = {}
             /\ c # Cur(t) => OffStack(c)
             /\ \A u \in Threads : Dropping(u, c) => u = t
             /\ Holders(c) = {h}
  <2>1. PICK x : Holders(c) = {x} BY <1>6, <1>7, FS_Singleton
  <2>2. Holders(c) = {h} BY <1>5, <2>1
  <2>3. Children(c) = {}
    <3>1. Children(c) \subseteq {h} BY <1>4, <2>2
    <3>2. t \notin Explicit BY <1>1, ThreadTasks, Numbers DEF Typed
    <3>3. SUFFICES ASSUME h \in Children(c) PROVE FALSE BY <3>1
    <3>4. h = c /\ h = Cur(t) BY <3>2, <3>3 DEF h, Children
    <3>5. Spawner(c) = c /\ status[c] # "none" BY <3>3, <3>4 DEF Children, Live
    <3> QED BY <1>2, <3>5 DEF Inv, Spawning
  <2>4. CASE c = Cur(t)
    <3>1. \A u \in Threads : Dropping(u, c) => u = c BY <1>4, <2>2, <2>4 DEF h
    <3>2. \A u \in Threads : u # c BY <1>1, <1>2, ThreadTasks, Numbers DEF Typed
    <3> QED BY <1>3, <2>2, <2>3, <2>4, <3>1, <3>2
  <2>5. CASE c # Cur(t)
    <3>1. t \notin Explicit BY <1>1, ThreadTasks, Numbers DEF Typed
    <3>2. h = t /\ t # c BY <1>2, <2>5, <3>1 DEF h
    <3>3. ~Whole(c) BY <1>4, <2>2, <3>2
    <3>4. status[c] = "complete" /\ OffStack(c) BY <1>6, <3>3 DEF Whole, Live
    <3>5. \A u \in Threads : Dropping(u, c) => u = t BY <1>4, <2>2, <3>2
    <3> QED BY <2>2, <2>3, <2>5, <3>4, <3>5
  <2> QED BY <2>4, <2>5
<1> QED BY <1>2, <1>3, <1>6, <1>7 DEF h

Stacks == Shape /\ Doing /\ Idle

LEMMA StacksStill ==
    ASSUME Stacks, UNCHANGED <<prog, pc, status, at, stack, climb>>
    PROVE  Stacks' /\ \A k : OffStack(k)' <=> OffStack(k)
<1>1. Threads' = Threads BY DEF Threads
<1>2. \A u : Elems(stack[u])' = Elems(stack[u]) /\ Cur(u)' = Cur(u) BY DEF Cur, Elems
<1>3. \A k : OffStack(k)' <=> OffStack(k) BY <1>1, <1>2 DEF OffStack
<1>4. Shape' BY <1>1, <1>2 DEF Stacks, Shape, Once
<1>5. \A t, k : Fits(t, k)' <=> Fits(t, k) BY <1>2 DEF Fits
<1>6. Doing' BY <1>1, <1>2, <1>5 DEF Stacks, Doing
<1>7. Idle' BY <1>3 DEF Stacks, Idle
<1> QED BY <1>3, <1>4, <1>6, <1>7 DEF Stacks

\* The current task of a thread goes on: in its body, or within an operation.
LEMMA StacksTurn ==
    ASSUME Inv, NEW t \in Threads, prog' = prog, stack' = stack, NEW w,
           at' = [at EXCEPT ![Cur(t)] = w],
           \A u \in Threads : u # t => climb'[u] = climb[u],
           \A k \in Tasks : k # Cur(t) => pc'[k] = pc[k] /\ Bystander(k),
           \/ w \in Busy /\ status'[Cur(t)] = "running"
           \/ w \in Ending /\ w \notin {"ungroup", "unhash"} /\ status'[Cur(t)] = "complete" /\ Cur(t) \in Explicit
           \/ /\ w \in {"ungroup", "unhash", "climb"} /\ status'[Cur(t)] = "complete" /\ Cur(t) \in Explicit
              /\ climb'[t] = Cur(t)
    PROVE  Stacks' /\ \A k : OffStack(k)' <=> OffStack(k)
<1>1. Typed /\ Shape /\ Doing /\ Idle BY DEF Inv, StackInv
<1>2. Cur(t) \in Tasks /\ Cur(t) \in Elems(stack[t]) BY <1>1, Tops
<1>3. at'[Cur(t)] = w /\ \A k \in Tasks : k # Cur(t) => at'[k] = at[k]
  <2>1. DOMAIN at = Tasks BY <1>1 DEF Typed
  <2> QED BY <1>2, <2>1
<1>4. Cur(t)' = Cur(t) BY DEF Cur
<1>5. Cur(t) \in Explicit \/ status'[Cur(t)] = "running" OBVIOUS
<1>6. status'[Cur(t)] \in {"running", "complete", "freed"} OBVIOUS
<1>7. Fits(t, Cur(t))' BY <1>3, <1>4 DEF Fits, Busy, Ending
<1>8. Cur(t) \in Implicit => status'[Cur(t)] = "running" BY <1>5, Numbers
<1>9. \A k \in Tasks : k # Cur(t) => Untouched(t, k) /\ Bystander(k) BY <1>3 DEF Untouched
<1>10. Shape' /\ Doing' /\ Idle' /\ \A k : OffStack(k)' <=> OffStack(k)
  BY <1>1, <1>6, <1>7, <1>8, <1>9, SameStack
<1> QED BY <1>10 DEF Stacks

LEMMA InvParts ==
    ASSUME Inv
    PROVE  /\ Typed /\ Shape /\ Doing /\ Idle /\ Thieves /\ InBarrier /\ Stacks
           /\ InOnePlace /\ Predecessors /\ Spawning /\ ReferenceCounts /\ GroupsInv
BY DEF Inv, StackInv, Stacks

LEMMA Advances ==
    ASSUME Inv, NEW t \in Threads, At(t, "run"), UNCHANGED <<prog, status, at, stack, climb>>,
           \A k \in Tasks : k # Cur(t) => pc'[k] = pc[k]
    PROVE  Stacks' /\ \A k : OffStack(k)' <=> OffStack(k)
<1>1. Typed /\ Shape /\ Doing BY InvParts
<1>2. at[Cur(t)] = "run" /\ status[Cur(t)] = "running" /\ "run" \in Busy BY <1>1, Tops, CurFits DEF Busy
<1>3. at' = [at EXCEPT ![Cur(t)] = "run"]
  <2>1. at = [j \in Tasks |-> at[j]] BY <1>1 DEF Typed
  <2> QED BY <1>2, <2>1
<1>4. \A k \in Tasks : k # Cur(t) => pc'[k] = pc[k] /\ Bystander(k) BY DEF Bystander
<1> QED BY <1>2, <1>3, <1>4, StacksTurn

LEMMA PcMoves ==
    ASSUME Typed, NEW j \in Tasks, pc' = [pc EXCEPT ![j] = @ + 1]
    PROVE  pc'[j] = pc[j] + 1 /\ \A k \in Tasks : k # j => pc'[k] = pc[k]
BY DEF Typed

LEMMA AllocStacks ==
    ASSUME Inv, NEW t \in Threads, Alloc(t)
    PROVE  Stacks' /\ \A k : OffStack(k)' <=> OffStack(k)
<1> DEFINE k == Cur(t)  c == Arg(k)
<1>1. Typed /\ Shape /\ Doing /\ Spawning BY InvParts
<1>2. k \in Tasks /\ at[k] = "run" /\ status[k] = "running" /\ Op(k) = "task"
  BY <1>1, Tops, CurFits DEF Alloc, Busy
<1>3. c \in Explicit /\ status[c] = "none" /\ c # k BY <1>1, <1>2, SpawnsNew
<1>4. \E w \in {"link", "push"} : at' = [at EXCEPT ![k] = w] BY DEF Alloc, Set
<1>5. status' = [status EXCEPT ![c] = "created"] /\ prog' = prog /\ stack' = stack /\ climb' = climb
      /\ pc' = [pc EXCEPT ![k] = @ + 1]
  BY DEF Alloc
<1> HIDE DEF c
<1>6. status'[k] = "running" /\ \A j \in Tasks : j # k => Bystander(j)
  <2>1. c \in Tasks BY <1>3 DEF Tasks
  <2>2. status'[c] = "created" /\ \A j \in Tasks : j # c => status'[j] = status[j]
    BY <1>5, <2>1, <1>1 DEF Typed
  <2> QED BY <1>2, <1>3, <2>2 DEF Bystander
<1>7. \A j \in Tasks : j # k => pc'[j] = pc[j] BY <1>1, <1>2, <1>5, PcMoves
<1>8. PICK w \in {"link", "push"} : at' = [at EXCEPT ![k] = w] BY <1>4
<1>9. w \in Busy BY <1>8 DEF Busy
<1> HIDE DEF k
<1> QED BY <1>5, <1>6, <1>7, <1>8, <1>9, StacksTurn DEF k

\* The current task only turns to something else.
LEMMA Turns ==
    ASSUME Inv, NEW t \in Threads, NEW w, Set(t, w), prog' = prog, stack' = stack, pc' = pc,
           status' = status,
           \A u \in Threads : u # t => climb'[u] = climb[u],
           \/ w \in Busy /\ status[Cur(t)] = "running"
           \/ w \in Ending /\ w \notin {"ungroup", "unhash"} /\ status[Cur(t)] = "complete" /\ Cur(t) \in Explicit
           \/ /\ w \in {"ungroup", "unhash", "climb"} /\ status[Cur(t)] = "complete" /\ Cur(t) \in Explicit
              /\ climb'[t] = Cur(t)
    PROVE  Stacks' /\ \A k : OffStack(k)' <=> OffStack(k)
<1>1. \A k \in Tasks : k # Cur(t) => pc'[k] = pc[k] /\ Bystander(k) BY DEF Bystander
<1> QED BY <1>1, StacksTurn DEF Set

LEMMA TurnsBusy ==
    ASSUME Inv, NEW t \in Threads, NEW w \in Busy, NEW v \in Busy, At(t, v), Set(t, w),
           UNCHANGED <<prog, stack, pc, status, climb>>
    PROVE  Stacks' /\ \A k : OffStack(k)' <=> OffStack(k)
<1>1. status[Cur(t)] = "running" BY InvParts, CurFits
<1> QED BY <1>1, Turns

LEMMA SettleStacks ==
    ASSUME Inv, NEW t \in Threads, Settle(t) PROVE Stacks' /\ \A k : OffStack(k)' <=> OffStack(k)
<1>1. At(t, "link") /\ UNCHANGED <<prog, stack, pc, status, climb>> BY DEF Settle, counters
<1>2. PICK w \in {"run", "push"} : Set(t, w) BY DEF Settle
<1> QED BY <1>1, <1>2, TurnsBusy DEF Busy

LEMMA RobStacks ==
    ASSUME Inv, NEW t \in Threads, NEW v \in Threads, Rob(t, v) \/ RobNothing(t, v)
    PROVE  Stacks' /\ \A k : OffStack(k)' <=> OffStack(k)
<1>1. At(t, "rob") /\ UNCHANGED <<prog, stack, pc, status, climb>> BY DEF Rob, RobNothing, counters
<1>2. PICK w \in {"robbed", "run", "spent"} : Set(t, w) BY DEF Rob, RobNothing, GoesOn
<1> QED BY <1>1, <1>2, TurnsBusy DEF Busy

LEMMA SpentStacks ==
    ASSUME Inv, NEW t \in Threads, Spent(t) PROVE Stacks' /\ \A k : OffStack(k)' <=> OffStack(k)
<1>1. At(t, "spent") /\ UNCHANGED <<prog, stack, pc, status, climb>> /\ Set(t, "run") BY DEF Spent, counters
<1> QED BY <1>1, TurnsBusy DEF Busy

LEMMA FinishStacks ==
    ASSUME Inv, NEW t \in Threads, Finish(t) PROVE Stacks' /\ \A k : OffStack(k)' <=> OffStack(k)
<1>1. Typed /\ Shape /\ Doing BY InvParts
<1>2. Cur(t) \in Tasks /\ t \in Implicit BY <1>1, Tops
<1>3. /\ Cur(t) \in Explicit /\ status' = [status EXCEPT ![Cur(t)] = "complete"]
      /\ climb' = [climb EXCEPT ![t] = Cur(t)] /\ UNCHANGED <<prog, stack, pc>>
  BY DEF Finish
<1>4. PICK w \in {"ungroup", "unhash", "release", "climb"} : Set(t, w)
  BY DEF Finish, Ended, AfterGroup, AfterHash
<1>5. status'[Cur(t)] = "complete" /\ \A k \in Tasks : k # Cur(t) => status'[k] = status[k]
  BY <1>1, <1>2, <1>3 DEF Typed
<1>6. climb'[t] = Cur(t) /\ \A u \in Threads : u # t => climb'[u] = climb[u]
  BY <1>1, <1>2, <1>3, ThreadTasks DEF Typed
<1>7. \A k \in Tasks : k # Cur(t) => pc'[k] = pc[k] /\ Bystander(k) BY <1>3, <1>5 DEF Bystander
<1>8. w \in Ending \cup {"climb"} BY <1>4 DEF Ending
<1> QED BY <1>3, <1>4, <1>5, <1>6, <1>7, <1>8, StacksTurn DEF Set

LEMMA LeaveGroupStacks ==
    ASSUME Inv, NEW t \in Threads, LeaveGroup(t) PROVE Stacks' /\ \A k : OffStack(k)' <=> OffStack(k)
<1>1. Typed /\ Shape /\ Doing BY InvParts
<1>2. At(t, "ungroup") /\ UNCHANGED <<prog, stack, pc, status, climb>> BY DEF LeaveGroup
<1>3. PICK w \in {"unhash", "release", "climb"} : Set(t, w) BY DEF LeaveGroup, AfterGroup, AfterHash
<1>4. status[Cur(t)] = "complete" /\ Cur(t) \in Explicit /\ climb[t] = Cur(t)
  <2>1. "ungroup" \in Ending BY DEF Ending
  <2>2. Fits(t, Cur(t)) /\ at[Cur(t)] = "ungroup" BY <1>1, <1>2, CurFits, Tops
  <2> QED BY <1>1, <1>2, <2>1, <2>2, CurFits DEF Fits
<1>5. (w \in Ending /\ w \notin {"ungroup", "unhash"}) \/ w \in {"unhash", "climb"} BY <1>3 DEF Ending
<1> QED BY <1>2, <1>3, <1>4, <1>5, Turns

LEMMA FreeHashStacks ==
    ASSUME Inv, NEW t \in Threads, FreeHash(t) PROVE Stacks' /\ \A k : OffStack(k)' <=> OffStack(k)
<1>1. Typed /\ Shape /\ Doing BY InvParts
<1>2. At(t, "unhash") /\ UNCHANGED <<prog, stack, pc, status, climb>> BY DEF FreeHash, counters
<1>3. PICK w \in {"release", "climb"} : Set(t, w) BY DEF FreeHash, AfterHash
<1>4. status[Cur(t)] = "complete" /\ Cur(t) \in Explicit /\ climb[t] = Cur(t)
  <2>1. "unhash" \in Ending BY DEF Ending
  <2>2. Fits(t, Cur(t)) /\ at[Cur(t)] = "unhash" BY <1>1, <1>2, CurFits, Tops
  <2> QED BY <1>1, <1>2, <2>1, <2>2, CurFits DEF Fits
<1>5. (w \in Ending /\ w \notin {"ungroup", "unhash"}) \/ w = "climb" BY <1>3 DEF Ending
<1> QED BY <1>2, <1>3, <1>4, <1>5, Turns

LEMMA ReleaseNodeStacks ==
    ASSUME Inv, NEW t \in Threads, ReleaseNode(t) PROVE Stacks' /\ \A k : OffStack(k)' <=> OffStack(k)
<1>1. At(t, "release") /\ UNCHANGED <<prog, stack, pc, status, climb>> /\ Set(t, "notify")
  BY DEF ReleaseNode, counters
<1>2. "release" \in Ending /\ "notify" \in Ending BY DEF Ending
<1>3. status[Cur(t)] = "complete" /\ Cur(t) \in Explicit BY <1>1, <1>2, InvParts, CurFits
<1> QED BY <1>1, <1>2, <1>3, Turns

LEMMA NotifiedStacks ==
    ASSUME Inv, NEW t \in Threads, Notified(t) PROVE Stacks' /\ \A k : OffStack(k)' <=> OffStack(k)
<1>1. /\ At(t, "notify") /\ UNCHANGED <<prog, stack, pc, status>> /\ Set(t, "climb")
      /\ climb' = [climb EXCEPT ![t] = Cur(t)]
  BY DEF Notified
<1>2. Typed /\ Shape /\ Doing BY InvParts
<1>3. status[Cur(t)] = "complete" /\ Cur(t) \in Explicit BY <1>1, <1>2, CurFits DEF Ending
<1>4. climb'[t] = Cur(t) /\ \A u \in Threads : u # t => climb'[u] = climb[u]
  BY <1>1, <1>2, Tops, ThreadTasks DEF Typed
<1> QED BY <1>1, <1>3, <1>4, Turns

LEMMA AdvanceStacks ==
    ASSUME Inv, NEW t \in Threads,
           \/ Open(t) \/ TaskWait(t) \/ EndGroup(t)
           \/ InPhase(t, "open") /\ ReleaseAll /\ t = 0
           \/ Leave(t)
    PROVE  Stacks' /\ \A k : OffStack(k)' <=> OffStack(k)
<1>1. Typed /\ Shape /\ Doing BY InvParts
<1>2. Cur(t) \in Tasks BY <1>1, Tops
<1>3. /\ At(t, "run") /\ UNCHANGED <<prog, status, at, stack, climb>>
      /\ pc' = [pc EXCEPT ![Cur(t)] = @ + 1]
  BY DEF Open, TaskWait, EndGroup, ReleaseAll, Leave, Sync, InPhase, counters
<1>4. \A k \in Tasks : k # Cur(t) => pc'[k] = pc[k] BY <1>1, <1>2, <1>3, PcMoves
<1> QED BY <1>3, <1>4, Advances

LEMMA OwnTakes ==
    ASSUME Inv, NEW t \in Threads, Own(t)
    PROVE  /\ mine[t] \in {0, 1} /\ At(t, "run") /\ t \in Implicit
           /\ UNCHANGED <<prog, pc, group, incomplete, refs, groups, climb, loot, prey, team, node, table, links>>
           /\ \/ /\ deque[mine[t]][t].tasks # <<>>
                 /\ deque' = [deque EXCEPT ![mine[t]][t].tasks = Front(deque[mine[t]][t].tasks)]
                 /\ Invoke(t, Last(deque[mine[t]][t].tasks))
                 /\ Last(deque[mine[t]][t].tasks) \in Explicit
                 /\ status[Last(deque[mine[t]][t].tasks)] = "created"
                 /\ Lies(Last(deque[mine[t]][t].tasks), "queue", mine[t], t)
                 /\ at' = at
              \/ Set(t, "rob") /\ UNCHANGED <<deque, stack, status>>
<1> DEFINE p == mine[t]  q == deque[p][t].tasks
<1>1. Typed /\ Shape /\ Doing BY InvParts
<1>2. t \in Implicit BY <1>1, Tops
<1>3. p \in {0, 1} BY <1>1, <1>2 DEF Own, Typed
<1>4. At(t, "run") BY DEF Own, Waits, InPhase
<1>5. q \in Seq(Explicit) BY <1>1, <1>2, <1>3 DEF Typed, DequeType
<1>6. UNCHANGED <<prog, pc, group, incomplete, refs, groups, climb, loot, prey, team, node, table, links>>
  BY DEF Own, counters
<1>7. \/ /\ q # <<>> /\ deque' = [deque EXCEPT ![p][t].tasks = Front(q)]
         /\ Invoke(t, Last(q)) /\ at' = at
      \/ Set(t, "rob") /\ UNCHANGED <<deque, stack, status>>
  BY DEF Own
<1>8. ASSUME q # <<>>
      PROVE  Last(q) \in Explicit /\ status[Last(q)] = "created" /\ Lies(Last(q), "queue", p, t)
  <2>1. Last(q) \in Explicit /\ Last(q) \in Elems(q) BY <1>5, <1>8, ElemsOf
  <2>2. Lies(Last(q), "queue", p, t) BY <1>2, <1>3, <2>1 DEF Lies
  <2> QED BY <2>1, <2>2, InvParts, LyingCreated
<1> HIDE DEF p, q
<1> QED BY <1>2, <1>3, <1>4, <1>6, <1>7, <1>8 DEF p, q

LEMMA OwnStacks ==
    ASSUME Inv, NEW t \in Threads, Own(t) PROVE Stacks'
<1> DEFINE k == Last(deque[mine[t]][t].tasks)
<1>0. Typed /\ Shape /\ Doing /\ Idle BY InvParts
<1>1. At(t, "run") /\ at[Cur(t)] = "run" /\ UNCHANGED <<prog, pc, climb>> BY <1>0, OwnTakes, Tops
<1>2. \/ Invoke(t, k) /\ k \in Explicit /\ status[k] = "created" /\ at' = at
      \/ Set(t, "rob") /\ UNCHANGED <<stack, status>>
  BY OwnTakes
<1> HIDE DEF k
<1>3. CASE Invoke(t, k) /\ k \in Explicit /\ status[k] = "created" /\ at' = at
  <2>1. Shape' /\ Doing' /\ Idle' BY <1>0, <1>1, <1>3, Invoked
  <2> QED BY <2>1 DEF Stacks
<1>4. CASE Set(t, "rob") /\ UNCHANGED <<stack, status>> BY <1>1, <1>4, TurnsBusy DEF Busy
<1> QED BY <1>2, <1>3, <1>4

LEMMA RobbedTakes ==
    ASSUME Inv, NEW t \in Threads, Robbed(t)
    PROVE  /\ t \in Implicit /\ At(t, "robbed") /\ loot[t] \in Explicit /\ status[loot[t]] = "created"
           /\ Lies(loot[t], "loot", 0, t)
           /\ Invoke(t, loot[t]) /\ Set(t, "run") /\ loot' = [loot EXCEPT ![t] = Nobody]
           /\ UNCHANGED <<prog, pc, group, counters, deque, team, deps>>
<1>1. Typed /\ Shape /\ Thieves BY InvParts
<1>2. t \in Implicit BY <1>1, Tops
<1>3. At(t, "robbed") BY DEF Robbed
<1>4. loot[t] # Nobody BY <1>1, <1>3 DEF Thieves
<1>5. loot[t] \in Explicit BY <1>1, <1>2, <1>4 DEF Typed
<1>6. Lies(loot[t], "loot", 0, t) BY DEF Lies
<1>7. status[loot[t]] = "created" BY <1>5, <1>6, InvParts, LyingCreated
<1> QED BY <1>2, <1>3, <1>5, <1>6, <1>7 DEF Robbed

LEMMA RobbedStacks ==
    ASSUME Inv, NEW t \in Threads, Robbed(t) PROVE Stacks'
<1>0. Typed /\ Shape /\ Doing /\ Idle BY InvParts
<1>1. /\ At(t, "robbed") /\ UNCHANGED <<prog, pc, climb>> /\ Invoke(t, loot[t]) /\ Set(t, "run")
      /\ loot[t] \in Explicit /\ status[loot[t]] = "created"
  BY RobbedTakes DEF counters
<1>2. status[Cur(t)] = "running" BY <1>0, <1>1, CurFits DEF Busy
<1>3. at' = [at EXCEPT ![Cur(t)] = "run"] BY <1>1 DEF Set
<1>4. Shape' /\ Doing' /\ Idle' BY <1>0, <1>1, <1>2, <1>3, Invoked
<1> QED BY <1>4 DEF Stacks

LEMMA PushTakes ==
    ASSUME Inv, NEW t \in Threads, Push(t)
    PROVE  /\ t \in Implicit /\ At(t, "push") /\ Fresh(Cur(t)) \in Explicit
           /\ status[Fresh(Cur(t))] = "created" /\ Lies(Fresh(Cur(t)), "hand", 0, t)
           /\ status[Cur(t)] = "running"
           /\ Submit(t, Fresh(Cur(t))) /\ Set(t, "run")
           /\ UNCHANGED <<prog, pc, group, counters, loot, prey, mine, parity, finished, phase,
                   arrived, go, node, table, links>>
<1>1. Typed /\ Shape /\ Doing /\ InOnePlace BY InvParts
<1>2. t \in Implicit BY <1>1, Tops
<1>3. At(t, "push") BY DEF Push
<1>4. Fresh(Cur(t)) \in Explicit BY <1>1, <1>3 DEF InOnePlace
<1>5. Lies(Fresh(Cur(t)), "hand", 0, t) BY <1>3 DEF Lies, InHand
<1>6. status[Fresh(Cur(t))] = "created" BY <1>1, <1>4, <1>5, LyingCreated
<1>7. status[Cur(t)] = "running" BY <1>1, <1>3, CurFits DEF Busy
<1> QED BY <1>2, <1>3, <1>4, <1>5, <1>6, <1>7 DEF Push

LEMMA PushStacks ==
    ASSUME Inv, NEW t \in Threads, Push(t) PROVE Stacks'
<1> DEFINE k == Fresh(Cur(t))
<1>0. Typed /\ Shape /\ Doing /\ Idle BY InvParts
<1>1. /\ t \in Implicit /\ k \in Explicit /\ status[k] = "created" /\ status[Cur(t)] = "running"
      /\ At(t, "push") /\ Submit(t, k) /\ Set(t, "run") /\ UNCHANGED <<prog, pc, climb>>
  BY PushTakes DEF counters
<1>2. at' = [at EXCEPT ![Cur(t)] = "run"] BY <1>1 DEF Set
<1> HIDE DEF k
<1>3. Invoke(t, k) \/ UNCHANGED <<stack, status>> BY <1>0, <1>1, Submitted
<1>4. CASE Invoke(t, k)
  <2>1. Shape' /\ Doing' /\ Idle' BY <1>0, <1>1, <1>2, <1>4, Invoked
  <2> QED BY <2>1 DEF Stacks
<1>5. CASE UNCHANGED <<stack, status>> BY <1>1, <1>5, TurnsBusy DEF Busy
<1> QED BY <1>3, <1>4, <1>5

LEMMA Notifies ==
    ASSUME Inv, NEW t \in Threads, Notify(t)
    PROVE  LET k == Cur(t)  s == Head(node[k].succ) IN
           /\ t \in Implicit /\ k \in Explicit /\ k \in Tasks /\ at[k] = "notify" /\ s \in Explicit /\ s \in Tasks
           /\ node[k].succ # <<>> /\ node[k].succ \in Seq(Explicit)
           /\ <<k, Len(node[k].succ)>> \in Entries(s)
           /\ UNCHANGED <<prog, pc, at, group, counters, loot, prey, mine, parity, finished, phase,
                          arrived, go, table, links>>
           /\ \/ /\ node[s].npred - 1 = 0 /\ node[s].live /\ Submit(t, s)
                 /\ status[s] = "created" /\ ~Lying(s) /\ EntryCount(s, node[s].npred)
              \/ /\ ~ (node[s].npred - 1 = 0 /\ node[s].live)
                 /\ UNCHANGED <<deque, stack, status>>
<1> DEFINE k == Cur(t)  s == Head(node[k].succ)  n == Len(node[k].succ)
<1>1. Typed /\ Shape /\ Doing /\ Predecessors BY InvParts
<1>2. t \in Implicit /\ k \in Tasks /\ at[k] = "notify" BY <1>1, Tops DEF Notify
<1>3. k \in Explicit BY <1>1, CurFits DEF Notify, Ending
<1>4. node[k].succ # <<>> /\ node[k].succ \in Seq(Explicit) BY <1>1, <1>2 DEF Notify, Typed, NodeType
<1>5. s \in Explicit /\ s \in Tasks BY <1>4, ElemsOf DEF Tasks
<1>6. <<k, n>> \in Entries(s)
  <2>1. n \in Nat /\ n # 0 BY <1>4, EmptySeq
  <2>2. n \in 1 .. n /\ n + 1 - n = 1 BY <2>1
  <2>3. node[k].succ[1] = s BY <1>4
  <2> HIDE DEF s
  <2>4. <<k, n>> \in Tasks \X Nat BY <1>2, <2>1
  <2>5. <<k, n>>[1] = k /\ <<k, n>>[2] = n OBVIOUS
  <2> QED BY <2>2, <2>3, <2>4, <2>5 DEF Entries
<1>7. UNCHANGED <<prog, pc, at, group, counters, loot, prey, mine, parity, finished, phase,
                          arrived, go, table, links>>
  BY DEF Notify
<1>8. \/ node[s].npred - 1 = 0 /\ node[s].live /\ Submit(t, s)
      \/ ~ (node[s].npred - 1 = 0 /\ node[s].live) /\ UNCHANGED <<deque, stack, status>>
  BY DEF Notify
<1>9. ASSUME node[s].live PROVE status[s] = "created" /\ ~Lying(s) /\ EntryCount(s, node[s].npred)
  <2>1. ~ \E u \in Threads : Linking(u, s) BY <1>1, <1>5, <1>9 DEF Linking, Predecessors
  <2> QED BY <1>1, <1>5, <1>6, <2>1 DEF Predecessors, Pending
<1> HIDE DEF k, s, n
<1> QED BY <1>2, <1>3, <1>4, <1>5, <1>6, <1>7, <1>8, <1>9 DEF k, s, n

LEMMA NotifyStacks ==
    ASSUME Inv, NEW t \in Threads, Notify(t) PROVE Stacks'
<1> DEFINE s == Head(node[Cur(t)].succ)
<1>0. Typed /\ Shape /\ Doing /\ Idle /\ Stacks BY InvParts
<1>1. /\ t \in Implicit /\ s \in Explicit /\ UNCHANGED <<prog, pc, at, climb>> /\ at[Cur(t)] = "notify"
      /\ (Submit(t, s) /\ status[s] = "created") \/ UNCHANGED <<stack, status>>
  BY Notifies DEF counters
<1> HIDE DEF s
<1>2. CASE UNCHANGED <<stack, status>> BY <1>0, <1>1, <1>2, StacksStill
<1>3. CASE Submit(t, s) /\ status[s] = "created"
  <2>1. Invoke(t, s) \/ UNCHANGED <<stack, status>> BY <1>0, <1>1, <1>3, Submitted
  <2>2. CASE Invoke(t, s)
    <3>1. Shape' /\ Doing' /\ Idle' BY <1>0, <1>1, <1>3, <2>2, Invoked
    <3> QED BY <3>1 DEF Stacks
  <2> QED BY <1>2, <2>1, <2>2
<1> QED BY <1>1, <1>2, <1>3

LEMMA Frees ==
    ASSUME Inv, NEW t \in Threads, FreeAncestors(t)
    PROVE  LET c == climb[t]
               up == refs[c] = 1 /\ Spawner(c) \in Explicit
           IN
           /\ t \in Implicit /\ c \in Explicit /\ c \in Tasks /\ Cur(t) \in Explicit /\ Cur(t) \in Tasks
           /\ at[Cur(t)] = "climb" /\ UNCHANGED <<prog, pc, at, group, incomplete, groups, queues, team, deps>>
           /\ refs'[c] = refs[c] - 1 /\ \A k \in Tasks : k # c => refs'[k] = refs[k]
           /\ refs' \in [Tasks -> Int]
           /\ IF refs[c] = 1 THEN status'[c] = "freed" /\ \A k \in Tasks : k # c => status'[k] = status[k]
              ELSE status' = status
           /\ status' \in [Tasks -> Statuses]
           /\ climb'[t] = IF up THEN Spawner(c) ELSE Nobody
           /\ \A u \in Threads : u # t => climb'[u] = climb[u]
           /\ stack' = IF up THEN stack ELSE [stack EXCEPT ![t] = Tail(@)]
           /\ \A k \in Tasks : k # Cur(t) => Bystander(k)
           /\ status'[Cur(t)] \in {"complete", "freed"}
<1> DEFINE c == climb[t]
<1>1. Typed /\ Shape /\ Doing BY InvParts
<1>2. t \in Implicit /\ Cur(t) \in Tasks /\ At(t, "climb") /\ at[Cur(t)] = "climb"
  BY <1>1, Tops DEF FreeAncestors
<1>3. /\ c \in Explicit /\ Cur(t) \in Explicit
      /\ c = Cur(t) => status[Cur(t)] = "complete"
      /\ c # Cur(t) => status[Cur(t)] = "freed"
      /\ refs[c] = 1 => status[c] = "complete" /\ (c # Cur(t) => OffStack(c))
  BY <1>2, LastReference
<1>4. c \in Tasks BY <1>3 DEF Tasks
<1>5. /\ UNCHANGED <<prog, pc, at, group, incomplete, groups, queues, team, deps>>
      /\ refs' = [refs EXCEPT ![c] = @ - 1]
      /\ status' = IF refs[c] = 1 THEN [status EXCEPT ![c] = "freed"] ELSE status
      /\ climb' = [climb EXCEPT ![t] = IF refs[c] = 1 /\ Spawner(c) \in Explicit THEN Spawner(c) ELSE Nobody]
      /\ stack' = IF refs[c] = 1 /\ Spawner(c) \in Explicit THEN stack ELSE [stack EXCEPT ![t] = Tail(@)]
  BY DEF FreeAncestors
<1>6. /\ refs \in [Tasks -> Int] /\ status \in [Tasks -> Statuses] /\ climb \in [Implicit -> Tasks \cup {Nobody}]
      /\ "freed" \in Statuses
  BY <1>1 DEF Typed, Statuses
<1> HIDE DEF c
<1>7. refs'[c] = refs[c] - 1 /\ (\A k \in Tasks : k # c => refs'[k] = refs[k]) /\ refs' \in [Tasks -> Int]
  BY <1>4, <1>5, <1>6
<1>8. /\ IF refs[c] = 1 THEN status'[c] = "freed" /\ \A k \in Tasks : k # c => status'[k] = status[k]
         ELSE status' = status
      /\ status' \in [Tasks -> Statuses]
  BY <1>4, <1>5, <1>6
<1>9. climb'[t] = IF refs[c] = 1 /\ Spawner(c) \in Explicit THEN Spawner(c) ELSE Nobody
  BY <1>2, <1>5, <1>6
<1>10. \A u \in Threads : u # t => climb'[u] = climb[u] BY <1>1, <1>5, <1>6, ThreadTasks DEF Typed
<1>11. \A k \in Tasks : k # Cur(t) => Bystander(k) BY <1>3, <1>8 DEF Bystander
<1>12. status'[Cur(t)] \in {"complete", "freed"} BY <1>2, <1>3, <1>8
<1> QED BY <1>2, <1>3, <1>4, <1>5, <1>7, <1>8, <1>9, <1>10, <1>11, <1>12 DEF c

LEMMA FreeStacks ==
    ASSUME Inv, NEW t \in Threads, FreeAncestors(t) PROVE Stacks'
<1> DEFINE c == climb[t]  up == refs[c] = 1 /\ Spawner(c) \in Explicit
<1>1. Typed /\ Shape /\ Doing /\ Idle BY InvParts
<1>2. /\ t \in Implicit /\ c \in Explicit /\ Cur(t) \in Explicit /\ Cur(t) \in Tasks
      /\ at[Cur(t)] = "climb" /\ UNCHANGED <<prog, pc, at>>
      /\ \A u \in Threads : u # t => climb'[u] = climb[u]
      /\ \A k \in Tasks : k # Cur(t) => Bystander(k)
      /\ status'[Cur(t)] \in {"complete", "freed"}
      /\ stack' = IF up THEN stack ELSE [stack EXCEPT ![t] = Tail(@)]
      /\ climb'[t] = IF up THEN Spawner(c) ELSE Nobody
      /\ IF refs[c] = 1 THEN status'[c] = "freed" /\ \A k \in Tasks : k # c => status'[k] = status[k]
         ELSE status' = status
  BY Frees
<1>3. CASE ~up
  <2>1. stack' = [stack EXCEPT ![t] = Tail(@)] BY <1>2, <1>3
  <2>2. Shape' /\ Doing' /\ Idle' BY <1>1, <1>2, <2>1, Popped
  <2> QED BY <2>2 DEF Stacks
<1>4. CASE up
  <2>1. stack' = stack /\ climb'[t] = Spawner(c) /\ Spawner(c) \in Explicit /\ status'[c] = "freed"
        /\ \A k \in Tasks : k # c => status'[k] = status[k]
    BY <1>2, <1>4
  <2>2. Cur(t)' = Cur(t) BY <2>1 DEF Cur
  <2>3. c # Cur(t) => status[Cur(t)] = "freed" BY <1>1, <1>2, Tops, LastReference
  <2>4. status'[Cur(t)] = "freed" BY <1>2, <2>1, <2>3
  <2>5. Spawner(c) # Cur(t)
    <3>1. At(t, "climb") BY <1>1, <1>2, Tops
    <3>2. Live(c) BY <3>1, LastReference
    <3>3. Spawner(c) # c BY <1>2, <3>2, InvParts DEF Spawning, Live
    <3>4. CASE c = Cur(t) BY <3>3, <3>4
    <3>5. CASE c # Cur(t)
      <4>1. ~Live(Cur(t)) BY <2>3, <3>5 DEF Live
      <4>2. Holders(Cur(t)) = {} BY <1>2, <4>1, InvParts DEF ReferenceCounts
      <4>3. c \notin Children(Cur(t)) BY <4>2 DEF Holders
      <4> QED BY <1>2, <3>2, <4>3 DEF Children
    <3> QED BY <3>4, <3>5
  <2>6. Fits(t, Cur(t))' BY <1>2, <2>1, <2>2, <2>4, <2>5 DEF Fits, Busy, Ending
  <2>7. Cur(t) \notin Implicit BY <1>2, Numbers
  <2>8. \A k \in Tasks : k # Cur(t) => Untouched(t, k) /\ Bystander(k) BY <1>2 DEF Untouched
  <2>9. Shape' /\ Doing' /\ Idle' BY <1>1, <1>2, <2>1, <2>4, <2>6, <2>7, <2>8, SameStack
  <2> QED BY <2>9 DEF Stacks
<1> QED BY <1>3, <1>4
---------------------------------------------------------------------------
(* The nodes and tables of the dependences keep their types.               *)

\* The state with which each of the invariants below has to do.
TypedNodes == /\ node \in [Tasks -> NodeType] /\ table \in [Tasks -> [Addrs -> EntryType]]
              /\ links \in [Implicit -> LinkType]

LEMMA EntryTypes ==
    ASSUME NEW e \in EntryType, NEW kind, NEW c \in Explicit, kind \in {"in", "out", "mtx"}
    PROVE  Links(e, kind) \in Seq(Explicit) /\ After(e, kind, c) \in EntryType
<1>1. /\ e.out \in Seq(Explicit) /\ e.ins \in Seq(Explicit) /\ e.mtxs \in Seq(Explicit)
      /\ e.last \in {"ins", "mtxs"}
  BY DEF EntryType
<1>2. /\ <<c>> \in Seq(Explicit) /\ <<>> \in Seq(Explicit)
      /\ \A s \in Seq(Explicit) : <<c>> \o s \in Seq(Explicit)
  OBVIOUS
<1>3. Links(e, kind) \in Seq(Explicit) BY <1>1 DEF Links
<1>5. CASE kind = "out"
  <2>1. After(e, kind, c) = [e EXCEPT !.out = <<c>>, !.ins = <<>>, !.mtxs = <<>>] BY <1>5 DEF After
  <2>2. <<c>> \in Seq(Explicit) /\ <<>> \in Seq(Explicit) BY <1>2
  <2>3. [e EXCEPT !.out = <<c>>, !.ins = <<>>, !.mtxs = <<>>] \in EntryType BY <2>2 DEF EntryType
  <2> QED BY <1>3, <2>1, <2>3
<1>6. CASE kind = "in"
  <2> DEFINE o == IF e.mtxs # <<>> THEN <<>> ELSE e.out
             i == <<c>> \o (IF e.mtxs # <<>> /\ e.last = "mtxs" THEN <<>> ELSE e.ins)
  <2>1. After(e, kind, c) = [e EXCEPT !.out = o, !.ins = i, !.last = "ins"] BY <1>6 DEF After
  <2>2. o \in Seq(Explicit) /\ i \in Seq(Explicit) BY <1>1, <1>2
  <2> HIDE DEF o, i
  <2>3. [e EXCEPT !.out = o, !.ins = i, !.last = "ins"] \in EntryType BY <2>2 DEF EntryType
  <2> QED BY <1>3, <2>1, <2>3
<1>7. CASE kind = "mtx"
  <2> DEFINE o == IF e.ins # <<>> THEN <<>> ELSE e.out
             m == <<c>> \o (IF e.ins # <<>> /\ e.last = "ins" THEN <<>> ELSE e.mtxs)
  <2>1. After(e, kind, c) = [e EXCEPT !.out = o, !.mtxs = m, !.last = "mtxs"] BY <1>7 DEF After
  <2>2. o \in Seq(Explicit) /\ m \in Seq(Explicit) BY <1>1, <1>2
  <2> HIDE DEF o, m
  <2>3. [e EXCEPT !.out = o, !.mtxs = m, !.last = "mtxs"] \in EntryType BY <2>2 DEF EntryType
  <2> QED BY <1>3, <2>1, <2>3
<1> QED BY <1>5, <1>6, <1>7

LEMMA DepTypes ==
    ASSUME prog \in Programs, NEW c \in Explicit
    PROVE  /\ prog.deps[c] \in Seq(Deps) /\ Len(prog.deps[c]) \in Nat
           /\ \A n \in 1 .. Len(prog.deps[c]) :
                /\ prog.deps[c][n].addr \in Addrs
                /\ Merged(prog.deps[c], prog.deps[c][n].addr) \in {"in", "out", "mtx"}
<1>1. prog.deps[c] \in Seq(Deps) BY ProgramAssumption
<1>2. SUFFICES ASSUME NEW n \in 1 .. Len(prog.deps[c])
               PROVE  /\ prog.deps[c][n].addr \in Addrs
                      /\ Merged(prog.deps[c], prog.deps[c][n].addr) \in {"in", "out", "mtx"}
  BY <1>1
<1> DEFINE ds == prog.deps[c]  a == ds[n].addr
           kinds == {ds[i].kind : i \in {j \in DOMAIN ds : ds[j].addr = a}}
<1>3. \A i \in DOMAIN ds : ds[i] \in Deps BY <1>1
<1>4. kinds \subseteq {"in", "out", "mtx"} BY <1>3 DEF Deps
<1>5. a \in Addrs BY <1>1, <1>2, <1>3 DEF Deps
<1>6. Merged(ds, a) = IF \E kind \in kinds : kinds = {kind} THEN CHOOSE kind \in kinds : TRUE ELSE "out"
  BY DEF Merged
<1> HIDE DEF kinds
<1>7. Merged(ds, a) \in {"in", "out", "mtx"} BY <1>4, <1>6
<1> QED BY <1>5, <1>7

LEMMA NodeTypes ==
    ASSUME NEW e \in NodeType
    PROVE  /\ \A n \in Int : LET f == [e EXCEPT !.npred = n] IN
                f \in NodeType /\ f.live = e.live /\ f.succ = e.succ /\ f.npred = n
           /\ \A b \in BOOLEAN : LET f == [e EXCEPT !.live = b] IN
                f \in NodeType /\ f.live = b /\ f.succ = e.succ /\ f.npred = e.npred
           /\ \A s \in Seq(Explicit) : LET f == [e EXCEPT !.succ = s] IN
                f \in NodeType /\ f.live = e.live /\ f.succ = s /\ f.npred = e.npred
BY DEF NodeType

LEMMA NodesAlloc ==
    ASSUME Inv, NEW t \in Threads, Alloc(t) PROVE TypedNodes'
<1>1. Typed /\ Shape /\ Doing /\ Spawning BY InvParts
<1>2. links' = [links EXCEPT ![t] = [todo |-> <<>>, next |-> 1, n |-> 0]] /\ table' = table
      /\ node' = [node EXCEPT ![Arg(Cur(t))].npred = -1]
  BY DEF Alloc
<1>3. [todo |-> <<>>, next |-> 1, n |-> 0] \in LinkType BY DEF LinkType
<1>4. links' \in [Implicit -> LinkType] BY <1>1, <1>2, <1>3 DEF Typed
<1>5. node' \in [Tasks -> NodeType]
  <2> DEFINE c == Arg(Cur(t))
  <2>1. node \in [Tasks -> NodeType] BY <1>1 DEF Typed
  <2>2. node' = [node EXCEPT ![c].npred = -1] BY <1>2
  <2> HIDE DEF c
  <2>3. \A k \in Tasks : [node[k] EXCEPT !.npred = -1] \in NodeType
    <3>1. -1 \in Int OBVIOUS
    <3> QED BY <2>1, <3>1, NodeTypes
  <2> QED BY <2>1, <2>2, <2>3
<1> QED BY <1>1, <1>2, <1>4, <1>5 DEF TypedNodes, Typed

LEMMA Hands ==
    ASSUME Inv, NEW t \in Threads, At(t, "link") \/ At(t, "push")
    PROVE  /\ Fresh(Cur(t)) \in Explicit /\ Cur(t) \in Tasks /\ t \in Implicit /\ pc[Cur(t)] > 1
           /\ status[Fresh(Cur(t))] = "created" /\ Lies(Fresh(Cur(t)), "hand", 0, t)
           /\ Is(Body(Cur(t)), pc[Cur(t)] - 1, "task", Fresh(Cur(t)))
           /\ Spawner(Fresh(Cur(t))) = Cur(t) /\ status[Cur(t)] = "running"
<1>1. Typed /\ Shape /\ Doing /\ InOnePlace BY InvParts
<1>2. t \in Implicit /\ Cur(t) \in Tasks BY <1>1, Tops
<1>3. /\ Fresh(Cur(t)) \in Explicit /\ pc[Cur(t)] > 1
      /\ Body(Cur(t))[pc[Cur(t)] - 1] = [op |-> "task", arg |-> Fresh(Cur(t))]
  BY <1>1 DEF InOnePlace
<1>4. Lies(Fresh(Cur(t)), "hand", 0, t) BY DEF Lies, InHand
<1>5. status[Fresh(Cur(t))] = "created" BY <1>1, <1>3, <1>4, LyingCreated
<1>6. pc[Cur(t)] - 1 \in DOMAIN Body(Cur(t))
  <2>1. pc[Cur(t)] \in 1 .. Len(Body(Cur(t))) + 1 /\ Len(Body(Cur(t))) \in Nat BY <1>1, <1>2, OpsOf
  <2>2. pc[Cur(t)] - 1 \in 1 .. Len(Body(Cur(t))) BY <1>3, <2>1
  <2> QED BY <1>1, <1>2, <2>2, Bodies DEF Typed
<1>7. Is(Body(Cur(t)), pc[Cur(t)] - 1, "task", Fresh(Cur(t))) BY <1>3, <1>6 DEF Is
<1>8. Spawner(Fresh(Cur(t))) = Cur(t) BY <1>1, <1>2, <1>7, Spawners DEF Typed
<1>9. status[Cur(t)] = "running" BY <1>1, CurFits DEF Busy
<1> QED BY <1>2, <1>3, <1>4, <1>5, <1>7, <1>8, <1>9

LEMMA NodesDepend ==
    ASSUME Inv, NEW t \in Threads, Depend(t) PROVE TypedNodes'
<1> DEFINE k == Cur(t)  c == Fresh(k)  n == links[t].next
           a == prog.deps[c][n].addr  kind == Merged(prog.deps[c], a)
<1>1. Typed BY InvParts
<1>2. At(t, "link") /\ n <= Len(prog.deps[c]) BY DEF Depend
<1>3. c \in Explicit /\ k \in Tasks /\ t \in Implicit BY <1>2, Hands
<1>4. links \in [Implicit -> LinkType] /\ table \in [Tasks -> [Addrs -> EntryType]] BY <1>1 DEF Typed
<1>5. n \in Nat \ {0} /\ links[t] \in LinkType /\ n + 1 \in Nat \ {0} BY <1>3, <1>4 DEF LinkType
<1>7. node' = node BY DEF Depend
<1>8. \/ First(prog.deps[c], n) /\ links' = [links EXCEPT ![t].todo = Links(table[k][a], kind), ![t].next = n + 1]
         /\ table' = [table EXCEPT ![k][a] = After(@, kind, c)]
      \/ links' = [links EXCEPT ![t].next = n + 1] /\ table' = table
  BY Zenon DEF Depend
<1>9. CASE links' = [links EXCEPT ![t].next = n + 1] /\ table' = table
  <2>1. links' \in [Implicit -> LinkType] BY <1>3, <1>4, <1>5, <1>9 DEF LinkType
  <2> QED BY <1>1, <1>7, <1>9, <2>1 DEF TypedNodes, Typed
<1>10. ASSUME a \in Addrs, kind \in {"in", "out", "mtx"},
              links' = [links EXCEPT ![t].todo = Links(table[k][a], kind), ![t].next = n + 1],
              table' = [table EXCEPT ![k][a] = After(@, kind, c)]
       PROVE  TypedNodes'
  <2> HIDE DEF k, c, a, kind, n
  <2>1. table[k][a] \in EntryType BY <1>3, <1>4, <1>10
  <2>2. Links(table[k][a], kind) \in Seq(Explicit) /\ After(table[k][a], kind, c) \in EntryType
    BY <1>3, <1>10, <2>1, EntryTypes
  <2>3. links' \in [Implicit -> LinkType]
    <3> DEFINE s == Links(table[k][a], kind)
    <3>1. s \in Seq(Explicit) /\ links' = [links EXCEPT ![t].todo = s, ![t].next = n + 1] BY <1>10, <2>2
    <3> HIDE DEF s
    <3> QED BY <1>3, <1>4, <1>5, <3>1 DEF LinkType
  <2>4. table' \in [Tasks -> [Addrs -> EntryType]]
    <3> DEFINE e == After(table[k][a], kind, c)
    <3>1. e \in EntryType /\ table' = [table EXCEPT ![k][a] = e] BY <1>10, <2>2
    <3> HIDE DEF e
    <3> QED BY <1>3, <1>4, <3>1, <1>10
  <2> QED BY <1>1, <1>7, <2>3, <2>4 DEF TypedNodes, Typed
<1>11. ASSUME First(prog.deps[c], n), n \in 1 .. Len(prog.deps[c])
       PROVE  a \in Addrs /\ kind \in {"in", "out", "mtx"}
  <2>1. prog \in Programs BY <1>1 DEF Typed
  <2> HIDE DEF k, c, n
  <2>2. \A m \in 1 .. Len(prog.deps[c]) :
                /\ prog.deps[c][m].addr \in Addrs
                /\ Merged(prog.deps[c], prog.deps[c][m].addr) \in {"in", "out", "mtx"}
    BY <1>3, <2>1, DepTypes
  <2> QED BY <1>11, <2>2
<1>12. Len(prog.deps[c]) \in Nat
  <2> HIDE DEF c
  <2> QED BY <1>1, <1>3, DepTypes DEF Typed
<1> HIDE DEF k, c, n, a, kind
<1>13. n \in 1 .. Len(prog.deps[c]) BY <1>2, <1>5, <1>12
<1> QED BY <1>8, <1>9, <1>10, <1>11, <1>13

LEMMA LinkTakes ==
    ASSUME Inv, NEW t \in Threads, Link(t)
    PROVE  LET j == Head(links[t].todo)  c == Fresh(Cur(t))  d == IF node[j].live THEN 1 ELSE 0 IN
           /\ j \in Explicit /\ j \in Tasks /\ c \in Explicit /\ c \in Tasks /\ t \in Implicit
           /\ links' \in [Implicit -> LinkType] /\ links'[t].n = links[t].n + d
           /\ \A u \in Implicit : u # t => links'[u] = links[u]
           /\ node' = IF node[j].live THEN [node EXCEPT ![j].succ = <<c>> \o @] ELSE node
           /\ node' \in [Tasks -> NodeType]
           /\ \A k \in Tasks : node'[k].live = node[k].live /\ node'[k].npred = node[k].npred
           /\ node[j].live => /\ node'[j].succ = <<c>> \o node[j].succ
                              /\ \A k \in Tasks : k # j => node'[k] = node[k]
           /\ UNCHANGED <<prog, body, counters, queues, team, table, mtx>>
<1> DEFINE j == Head(links[t].todo)  c == Fresh(Cur(t))  d == IF node[j].live THEN 1 ELSE 0
<1>1. Typed BY InvParts
<1>2. /\ At(t, "link") /\ links[t].todo # <<>> /\ UNCHANGED <<prog, body, counters, queues, team, table, mtx>>
      /\ links' = [links EXCEPT ![t].todo = Tail(@), ![t].n = @ + d]
      /\ node' = [node EXCEPT ![j].succ = IF node[j].live THEN <<c>> \o @ ELSE @]
  BY DEF Link, StillLive
<1>3. t \in Implicit /\ c \in Explicit /\ c \in Tasks BY <1>2, Hands DEF Tasks
<1>4. /\ links \in [Implicit -> LinkType] /\ links[t] \in LinkType /\ node \in [Tasks -> NodeType]
      /\ links[t].todo \in Seq(Explicit) /\ links[t].n \in Int
  BY <1>1, <1>3 DEF Typed, LinkType
<1>5. /\ j \in Explicit /\ j \in Tasks /\ Tail(links[t].todo) \in Seq(Explicit)
  BY <1>2, <1>4, ElemsOf DEF Tasks
<1> HIDE DEF j, c
<1>6. links[t].n + d \in Int BY <1>4
<1> HIDE DEF d
<1>7. links' = [links EXCEPT ![t].todo = Tail(links[t].todo), ![t].n = links[t].n + d] BY <1>2
<1>8. /\ links' \in [Implicit -> LinkType] /\ links'[t].n = links[t].n + d
      /\ \A u \in Implicit : u # t => links'[u] = links[u]
  <2> DEFINE s == Tail(links[t].todo)  n == links[t].n + d  e == [links[t] EXCEPT !.todo = s, !.n = n]
  <2>1. s \in Seq(Explicit) /\ n \in Int BY <1>5, <1>6
  <2>2. e \in LinkType /\ e.n = n
    <3> HIDE DEF s, n
    <3> QED BY <1>4, <2>1 DEF LinkType
  <2>3. links' = [links EXCEPT ![t] = e] BY <1>4, <1>7 DEF LinkType
  <2> HIDE DEF e
  <2> QED BY <1>3, <1>4, <2>2, <2>3
<1>9. node[j] \in NodeType /\ node[j].succ \in Seq(Explicit) BY <1>4, <1>5 DEF NodeType
<1>10. CASE ~node[j].live
  <2>1. node' = [node EXCEPT ![j].succ = node[j].succ] BY <1>2, <1>10
  <2>2. [node[j] EXCEPT !.succ = node[j].succ] = node[j] BY <1>9 DEF NodeType
  <2>3. node' = node BY <1>4, <1>5, <2>1, <2>2
  <2> QED BY <1>2, <1>3, <1>4, <1>5, <1>8, <1>10, <2>3 DEF j, c, d
<1>11. CASE node[j].live
  <2> DEFINE s == <<c>> \o node[j].succ
  <2>1. s \in Seq(Explicit) BY <1>3, <1>9
  <2>2. node' = [node EXCEPT ![j].succ = <<c>> \o @] BY <1>2, <1>11
  <2>3. node' = [node EXCEPT ![j] = [node[j] EXCEPT !.succ = s]] BY <1>4, <1>5, <2>2
  <2> HIDE DEF s
  <2>4. LET f == [node[j] EXCEPT !.succ = s] IN
                f \in NodeType /\ f.live = node[j].live /\ f.succ = s /\ f.npred = node[j].npred
    BY <1>9, <2>1, NodeTypes
  <2>5. node' \in [Tasks -> NodeType] /\ node'[j] = [node[j] EXCEPT !.succ = s]
        /\ \A k \in Tasks : k # j => node'[k] = node[k]
    BY <1>4, <1>5, <2>3, <2>4
  <2>6. node'[j].succ = <<c>> \o node[j].succ BY <2>4, <2>5 DEF s
  <2>7. \A k \in Tasks : node'[k].live = node[k].live /\ node'[k].npred = node[k].npred
    BY <2>4, <2>5
  <2> QED BY <1>2, <1>3, <1>5, <1>8, <1>11, <2>2, <2>5, <2>6, <2>7, Zenon DEF j, c, d
<1> QED BY <1>10, <1>11, Zenon

LEMMA SettleTakes ==
    ASSUME Inv, NEW t \in Threads, Settle(t)
    PROVE  LET c == Fresh(Cur(t))  left == node[c].npred + links[t].n + 1 IN
           /\ c \in Explicit /\ c \in Tasks /\ t \in Implicit /\ left \in Int /\ At(t, "link")
           /\ node' \in [Tasks -> NodeType] /\ node'[c].npred = left /\ node'[c].live
           /\ \A k \in Tasks : node'[k].succ = node[k].succ
           /\ \A k \in Tasks : k # c => node'[k] = node[k]
           /\ Set(t, IF left > 0 THEN "run" ELSE "push")
           /\ UNCHANGED <<prog, pc, status, stack, group, counters, queues, team, table, links, mtx>>
<1> DEFINE c == Fresh(Cur(t))  left == node[c].npred + links[t].n + 1
<1>1. Typed BY InvParts
<1>2. At(t, "link") BY DEF Settle
<1>3. t \in Implicit /\ c \in Explicit /\ c \in Tasks BY <1>2, Hands DEF Tasks
<1>4. node' = [node EXCEPT ![c].npred = left, ![c].live = TRUE] BY DEF Settle
<1>5. Set(t, IF left > 0 THEN "run" ELSE "push")
       /\ UNCHANGED <<prog, pc, status, stack, group, counters, queues, team, table, links, mtx>>
  BY DEF Settle
<1> HIDE DEF c
<1>6. left \in Int /\ node \in [Tasks -> NodeType] /\ node[c] \in NodeType
  BY <1>1, <1>3 DEF Typed, NodeType, LinkType
<1> DEFINE e == [node[c] EXCEPT !.npred = left, !.live = TRUE]
<1>7. e \in NodeType /\ e.npred = left /\ e.live /\ e.succ = node[c].succ
  <2> HIDE DEF left
  <2> QED BY <1>6 DEF NodeType
<1>8. node' = [node EXCEPT ![c] = e] BY <1>3, <1>4, <1>6 DEF NodeType
<1> HIDE DEF e
<1>9. node' \in [Tasks -> NodeType] /\ node'[c] = e /\ \A k \in Tasks : k # c => node'[k] = node[k]
  BY <1>3, <1>6, <1>7, <1>8
<1>10. \A k \in Tasks : node'[k].succ = node[k].succ BY <1>7, <1>9
<1> HIDE DEF left
<1> QED BY <1>2, <1>3, <1>5, <1>6, <1>7, <1>9, <1>10 DEF c, left

LEMMA ReleaseTakes ==
    ASSUME Inv, NEW t \in Threads, ReleaseNode(t)
    PROVE  LET k == Cur(t) IN
           /\ k \in Explicit /\ k \in Tasks /\ t \in Implicit /\ status[k] = "complete"
           /\ node' \in [Tasks -> NodeType] /\ ~node'[k].live
           /\ \A j \in Tasks : node'[j].succ = node[j].succ /\ node'[j].npred = node[j].npred
           /\ \A j \in Tasks : j # k => node'[j] = node[j]
<1> DEFINE k == Cur(t)
<1>1. Typed /\ Shape /\ Doing BY InvParts
<1>2. /\ k \in Tasks /\ t \in Implicit /\ k \in Explicit /\ status[k] = "complete"
  <2>1. k \in Tasks /\ t \in Implicit BY <1>1, Tops
  <2>2. At(t, "release") /\ "release" \in Ending BY DEF ReleaseNode, Ending
  <2> QED BY <1>1, <2>1, <2>2, CurFits
<1>3. node' = [node EXCEPT ![k].live = FALSE] BY DEF ReleaseNode
<1> HIDE DEF k
<1>4. node \in [Tasks -> NodeType] /\ node[k] \in NodeType BY <1>1, <1>2 DEF Typed
<1> DEFINE e == [node[k] EXCEPT !.live = FALSE]
<1>5. e \in NodeType /\ ~e.live /\ e.npred = node[k].npred /\ e.succ = node[k].succ BY <1>4, NodeTypes
<1>6. node' = [node EXCEPT ![k] = e] BY <1>3
<1> HIDE DEF e
<1>7. node' \in [Tasks -> NodeType] /\ node'[k] = e /\ \A j \in Tasks : j # k => node'[j] = node[j]
  BY <1>2, <1>4, <1>5, <1>6
<1> QED BY <1>2, <1>5, <1>7 DEF k

\* The table of the task that ends is empty, the others are as before.
LEMMA FreeHashTakes ==
    ASSUME Inv, NEW t \in Threads, FreeHash(t)
    PROVE  /\ UNCHANGED <<prog, pc, status, stack, group, counters, queues, team, node, links>>
           /\ table' = [table EXCEPT ![Cur(t)] = [a \in Addrs |-> NewEntry]]
           /\ table' \in [Tasks -> [Addrs -> EntryType]]
           /\ Cur(t) \in Explicit /\ Cur(t) \in Tasks /\ status[Cur(t)] = "complete"
<1>1. Typed /\ Shape /\ Doing BY InvParts
<1>2. /\ UNCHANGED <<prog, pc, status, stack, group, counters, queues, team, node, links>>
      /\ table' = [table EXCEPT ![Cur(t)] = [a \in Addrs |-> NewEntry]]
  BY DEF FreeHash
<1>3. Cur(t) \in Tasks BY <1>1, Tops
<1>4. Cur(t) \in Explicit /\ status[Cur(t)] = "complete" BY <1>1, CurFits DEF FreeHash, Ending
<1>5. NewEntry \in EntryType BY DEF NewEntry, EntryType
<1>6. table' \in [Tasks -> [Addrs -> EntryType]] BY <1>1, <1>2, <1>3, <1>5 DEF Typed
<1> QED BY <1>2, <1>3, <1>4, <1>6

LEMMA NotifyNodes ==
    ASSUME Inv, NEW t \in Threads, Notify(t)
    PROVE  LET k == Cur(t)  s == Head(node[k].succ) IN
           /\ node' \in [Tasks -> NodeType]
           /\ node'[s].npred = node[s].npred - 1 /\ node'[k].succ = Tail(node[k].succ)
           /\ \A j \in Tasks : j # s => node'[j].npred = node[j].npred
           /\ \A j \in Tasks : j # k => node'[j].succ = node[j].succ
           /\ \A j \in Tasks : node'[j].live = node[j].live
<1> DEFINE k == Cur(t)  s == Head(node[k].succ)
<1>1. Typed BY InvParts
<1>2. /\ k \in Tasks /\ s \in Tasks /\ node[k].succ # <<>> /\ node[k].succ \in Seq(Explicit) BY Notifies
<1>3. node' = [node EXCEPT ![s].npred = node[s].npred - 1, ![k].succ = Tail(@)] BY DEF Notify
<1> HIDE DEF k, s
<1>4. node \in [Tasks -> NodeType] /\ node[s].npred \in Int /\ Tail(node[k].succ) \in Seq(Explicit)
  BY <1>1, <1>2 DEF Typed, NodeType
<1> DEFINE n == node[s].npred - 1  f == [node EXCEPT ![s].npred = n]
<1>5. n \in Int BY <1>4
<1> HIDE DEF n
<1>6. /\ f \in [Tasks -> NodeType] /\ f[s].npred = n
      /\ \A j \in Tasks : f[j].live = node[j].live /\ f[j].succ = node[j].succ
      /\ \A j \in Tasks : j # s => f[j].npred = node[j].npred
  <2> DEFINE e == [node[s] EXCEPT !.npred = n]
  <2>1. e \in NodeType /\ e.npred = n /\ e.live = node[s].live /\ e.succ = node[s].succ
    BY <1>2, <1>4, <1>5, NodeTypes
  <2>2. f = [node EXCEPT ![s] = e] OBVIOUS
  <2> HIDE DEF e, f
  <2>3. f \in [Tasks -> NodeType] /\ f[s] = e /\ \A j \in Tasks : j # s => f[j] = node[j]
    BY <1>2, <1>4, <2>1, <2>2
  <2> QED BY <2>1, <2>3
<1>7. node' = [f EXCEPT ![k].succ = Tail(@)] BY <1>3 DEF n
<1> HIDE DEF f
<1>8. f[k].succ = node[k].succ /\ f[k] \in NodeType BY <1>2, <1>6
<1> DEFINE r == Tail(node[k].succ)  e == [f[k] EXCEPT !.succ = r]
<1>9. node' = [f EXCEPT ![k] = e] BY <1>7, <1>8
<1>10. e \in NodeType /\ e.live = f[k].live /\ e.succ = r /\ e.npred = f[k].npred
  <2>1. r \in Seq(Explicit) BY <1>4
  <2> HIDE DEF r
  <2> QED BY <1>8, <2>1, NodeTypes
<1> HIDE DEF e
<1>11. node' \in [Tasks -> NodeType] /\ node'[k] = e /\ \A j \in Tasks : j # k => node'[j] = f[j]
  BY <1>2, <1>6, <1>9, <1>10
<1>12. /\ node'[s].npred = n /\ node'[k].succ = r
       /\ \A j \in Tasks : j # s => node'[j].npred = node[j].npred
       /\ \A j \in Tasks : j # k => node'[j].succ = node[j].succ
       /\ \A j \in Tasks : node'[j].live = node[j].live
  BY <1>2, <1>6, <1>10, <1>11
<1> QED BY <1>11, <1>12 DEF k, s, n, r

LEMMA NodesStep ==
    ASSUME Inv, NEW t \in Threads, Step(t) \/ (\E v \in Threads : Rob(t, v) \/ RobNothing(t, v))
    PROVE  TypedNodes'
<1>0. TypedNodes BY InvParts DEF TypedNodes, Typed
<1>1. CASE Alloc(t) BY <1>1, NodesAlloc
<1>2. CASE Depend(t) BY <1>2, NodesDepend
<1>3. CASE Link(t)
  <2>1. node' \in [Tasks -> NodeType] /\ links' \in [Implicit -> LinkType] /\ table' = table BY <1>3, LinkTakes
  <2> QED BY <1>0, <2>1 DEF TypedNodes
<1>4. CASE Settle(t)
  <2>1. node' \in [Tasks -> NodeType] /\ links' = links /\ table' = table BY <1>4, SettleTakes
  <2> QED BY <1>0, <2>1 DEF TypedNodes
<1>5. CASE ReleaseNode(t)
  <2>1. node' \in [Tasks -> NodeType] /\ links' = links /\ table' = table
    BY <1>5, ReleaseTakes, Zenon DEF ReleaseNode
  <2> QED BY <1>0, <2>1 DEF TypedNodes
<1>6. CASE Notify(t)
  <2>1. node' \in [Tasks -> NodeType] /\ links' = links /\ table' = table
    BY <1>6, NotifyNodes, Zenon DEF Notify
  <2> QED BY <1>0, <2>1 DEF TypedNodes
<1>a. CASE FreeHash(t)
  <2>1. UNCHANGED <<node, links>> /\ table' \in [Tasks -> [Addrs -> EntryType]] BY <1>a, FreeHashTakes
  <2> QED BY <1>0, <2>1 DEF TypedNodes
<1>7. ASSUME UNCHANGED <<node, table, links>> PROVE TypedNodes' BY <1>0, <1>7 DEF TypedNodes
<1>8. CASE Push(t) \/ Own(t) BY <1>7, <1>8 DEF Push, Own
<1>9. CASE Open(t) \/ Forget(t) \/ Robbed(t) \/ Spent(t) \/ TaskWait(t) \/ EndGroup(t) \/ Finish(t)
  BY <1>7, <1>9 DEF Open, Forget, Robbed, Spent, TaskWait, EndGroup, Finish, deps
<1>10. CASE LeaveGroup(t) \/ Notified(t) \/ FreeAncestors(t) \/ Arrive(t) \/ Leave(t)
  BY <1>7, <1>10 DEF LeaveGroup, Notified, FreeAncestors, Arrive, Leave, deps
<1>11. CASE \E v \in Threads : Rob(t, v) \/ RobNothing(t, v)
  BY <1>7, <1>11, Zenon DEF Rob, RobNothing, deps
<1> QED BY <1>1, <1>2, <1>3, <1>4, <1>5, <1>6, <1>a, <1>8, <1>9, <1>10, <1>11 DEF Step

LEMMA NodesMaster == ASSUME Inv, Master \/ UNCHANGED vars PROVE TypedNodes'
<1>1. TypedNodes BY InvParts DEF TypedNodes, Typed
<1>2. UNCHANGED <<node, table, links>> BY DEF Master, Gathered, Drained, ReleaseAll, vars, deps
<1> QED BY <1>1, <1>2 DEF TypedNodes
---------------------------------------------------------------------------
(* States, positions, deques and counters keep their types.                *)

Ats == Busy \cup Ending \cup {"climb"}
TypedStacks == /\ status \in [Tasks -> Statuses] /\ at \in [Tasks -> Ats]
               /\ stack \in [Implicit -> Seq(Tasks)] /\ climb \in [Implicit -> Tasks \cup {Nobody}]

LEMMA SetTyped ==
    ASSUME Typed, NEW t, NEW w \in Ats, Set(t, w)
    PROVE  at' \in [Tasks -> Ats]
BY DEF Typed, Set, Ats

LEMMA InvokeTyped ==
    ASSUME Typed, Shape, NEW t \in Threads, NEW k \in Explicit, Invoke(t, k)
    PROVE  status' \in [Tasks -> Statuses] /\ stack' \in [Implicit -> Seq(Tasks)]
<1>1. t \in Implicit /\ stack[t] \in Seq(Tasks) /\ k \in Tasks BY Tops DEF Tasks
<1>2. <<k>> \o stack[t] \in Seq(Tasks) BY <1>1, Consed
<1>3. stack' = [stack EXCEPT ![t] = <<k>> \o stack[t]] /\ status' = [status EXCEPT ![k] = "running"]
  BY DEF Invoke
<1> QED BY <1>1, <1>2, <1>3 DEF Typed, Statuses

LEMMA TypedStacksStep ==
    ASSUME Inv, NEW t \in Threads, Step(t) \/ (\E v \in Threads : Rob(t, v) \/ RobNothing(t, v))
    PROVE  TypedStacks'
<1>0. TypedStacks /\ Typed /\ Shape BY InvParts DEF TypedStacks, Typed, Ats
<1>a. /\ "run" \in Ats /\ "link" \in Ats /\ "push" \in Ats /\ "rob" \in Ats /\ "robbed" \in Ats
      /\ "spent" \in Ats /\ "ungroup" \in Ats /\ "unhash" \in Ats /\ "release" \in Ats /\ "notify" \in Ats /\ "climb" \in Ats
  BY DEF Ats, Busy, Ending
<1>b. t \in Implicit /\ Cur(t) \in Tasks BY <1>0, Tops
<1>1. ASSUME UNCHANGED <<status, at, stack, climb>> PROVE TypedStacks' BY <1>0, <1>1 DEF TypedStacks
<1>2. ASSUME UNCHANGED <<status, stack, climb>>, NEW w \in Ats, Set(t, w) PROVE TypedStacks'
  BY <1>0, <1>2, SetTyped DEF TypedStacks
<1>3. ASSUME UNCHANGED climb, at' \in [Tasks -> Ats], NEW k \in Explicit, Invoke(t, k) PROVE TypedStacks'
  BY <1>0, <1>3, InvokeTyped DEF TypedStacks
<1>4. CASE Alloc(t)
  <2>1. UNCHANGED <<stack, climb>> /\ status' = [status EXCEPT ![Arg(Cur(t))] = "created"] BY <1>4 DEF Alloc
  <2>2. status' \in [Tasks -> Statuses] BY <1>0, <2>1 DEF TypedStacks, Statuses
  <2>3. PICK w \in {"link", "push"} : Set(t, w) BY <1>4 DEF Alloc
  <2>4. at' \in [Tasks -> Ats] BY <1>0, <1>a, <2>3, SetTyped
  <2> QED BY <1>0, <2>1, <2>2, <2>4 DEF TypedStacks
<1>5. CASE Depend(t) \/ Link(t) \/ Open(t) \/ Forget(t) \/ TaskWait(t) \/ EndGroup(t) \/ Arrive(t) \/ Leave(t)
  BY <1>1, <1>5, Zenon DEF Depend, Link, Open, Forget, TaskWait, EndGroup, Arrive, Leave, body, counters
<1>6. CASE Settle(t) \/ Spent(t) \/ LeaveGroup(t) \/ FreeHash(t) \/ ReleaseNode(t)
           \/ \E v \in Threads : RobNothing(t, v) \/ Rob(t, v)
  <2>1. UNCHANGED <<status, stack, climb>>
    BY <1>6, Zenon DEF Settle, Spent, LeaveGroup, FreeHash, ReleaseNode, RobNothing, Rob, counters
  <2>2. PICK w \in {"run", "push", "unhash", "release", "climb", "notify", "spent", "robbed"} : Set(t, w)
    BY <1>6, Zenon DEF Settle, Spent, LeaveGroup, FreeHash, ReleaseNode, RobNothing, Rob, GoesOn,
                       AfterGroup, AfterHash
  <2> QED BY <1>2, <1>a, <2>1, <2>2
<1>7. CASE Push(t)
  <2>1. /\ Fresh(Cur(t)) \in Explicit /\ Submit(t, Fresh(Cur(t))) /\ Set(t, "run") /\ UNCHANGED climb
    BY <1>7, PushTakes DEF counters
  <2>2. Invoke(t, Fresh(Cur(t))) \/ UNCHANGED <<stack, status>> BY <1>0, <1>b, <2>1, Submitted
  <2> QED BY <1>0, <1>2, <1>3, <1>a, <2>1, <2>2, SetTyped
<1>8. CASE Own(t)
  <2> DEFINE k == Last(deque[mine[t]][t].tasks)
  <2>1. UNCHANGED climb /\ (\/ Invoke(t, k) /\ k \in Explicit /\ at' = at
                            \/ Set(t, "rob") /\ UNCHANGED <<stack, status>>)
    BY <1>8, OwnTakes
  <2> HIDE DEF k
  <2> QED BY <1>0, <1>2, <1>3, <1>a, <2>1 DEF TypedStacks
<1>9. CASE Robbed(t)
  <2>1. Invoke(t, loot[t]) /\ loot[t] \in Explicit /\ Set(t, "run") /\ UNCHANGED climb
    BY <1>9, RobbedTakes DEF counters
  <2> QED BY <1>0, <1>3, <1>a, <2>1, SetTyped
<1>10. CASE Finish(t)
  <2>1. PICK w \in {"ungroup", "unhash", "release", "climb"} : Set(t, w)
    BY <1>10 DEF Finish, Ended, AfterGroup, AfterHash
  <2>2. /\ UNCHANGED stack /\ status' = [status EXCEPT ![Cur(t)] = "complete"]
        /\ climb' = [climb EXCEPT ![t] = Cur(t)]
    BY <1>10 DEF Finish
  <2>3. at' \in [Tasks -> Ats] BY <1>0, <1>a, <2>1, SetTyped
  <2> QED BY <1>0, <1>b, <2>2, <2>3 DEF TypedStacks, Statuses
<1>11. CASE Notify(t)
  <2> DEFINE s == Head(node[Cur(t)].succ)
  <2>1. UNCHANGED <<at, climb>> /\ s \in Explicit /\ (Submit(t, s) \/ UNCHANGED <<stack, status>>)
    BY <1>11, Notifies DEF counters
  <2> HIDE DEF s
  <2>2. Invoke(t, s) \/ UNCHANGED <<stack, status>> BY <1>0, <1>b, <2>1, Submitted
  <2> QED BY <1>0, <1>1, <1>3, <2>1, <2>2 DEF TypedStacks
<1>12. CASE Notified(t)
  <2>1. Set(t, "climb") /\ climb' = [climb EXCEPT ![t] = Cur(t)] /\ UNCHANGED <<stack, status>>
    BY <1>12 DEF Notified
  <2>2. at' \in [Tasks -> Ats] BY <1>0, <1>a, <2>1, SetTyped
  <2> QED BY <1>0, <1>b, <2>1, <2>2 DEF TypedStacks
<1>13. CASE FreeAncestors(t)
  <2> DEFINE c == climb[t]  up == refs[c] = 1 /\ Spawner(c) \in Explicit
  <2>1. /\ at' = at /\ status' \in [Tasks -> Statuses]
        /\ stack' = IF up THEN stack ELSE [stack EXCEPT ![t] = Tail(@)]
    BY <1>13, Frees
  <2>2. climb' = [climb EXCEPT ![t] = IF up THEN Spawner(c) ELSE Nobody] BY <1>13 DEF FreeAncestors
  <2>3. up => Spawner(c) \in Tasks BY DEF Tasks
  <2> HIDE DEF up, c
  <2>4. climb' \in [Implicit -> Tasks \cup {Nobody}] BY <1>0, <1>b, <2>2, <2>3 DEF TypedStacks
  <2>5. stack[t] \in Seq(Tasks) /\ stack[t] # <<>> BY <1>0, Tops
  <2>6. Tail(stack[t]) \in Seq(Tasks) BY <2>5
  <2>7. stack' \in [Implicit -> Seq(Tasks)] BY <1>0, <1>b, <2>1, <2>6 DEF TypedStacks
  <2> QED BY <1>0, <2>1, <2>4, <2>7 DEF TypedStacks
<1> QED BY <1>4, <1>5, <1>6, <1>7, <1>8, <1>9, <1>10, <1>11, <1>12, <1>13 DEF Step

LEMMA TypedStacksMaster == ASSUME Inv, Master \/ UNCHANGED vars PROVE TypedStacks'
<1>1. TypedStacks BY InvParts DEF TypedStacks, Typed, Ats
<1>2. UNCHANGED <<status, at, stack, climb>>
  BY DEF Master, Gathered, Drained, ReleaseAll, vars, body, counters
<1> QED BY <1>1, <1>2 DEF TypedStacks

\* The position in a body, and the phases of a barrier.
TypedBodies == /\ prog \in Programs /\ pc \in [Tasks -> Nat]
               /\ \A k \in Tasks : pc[k] \in 1 .. Len(Body(k)) + 1
               /\ phase \in [Implicit -> {"none", "gather", "drain", "open", "await"}]
               /\ InBarrier

LEMMA BodiesStill ==
    ASSUME Inv, UNCHANGED <<prog, pc, phase>> PROVE TypedBodies'
<1>1. TypedBodies BY InvParts DEF TypedBodies, Typed
<1>2. Threads' = Threads /\ \A k : Body(k)' = Body(k) BY DEF Threads, Body
<1>3. \A k : Op(k)' = Op(k) BY <1>2 DEF Op, Ends
<1>4. InBarrier' BY <1>1, <1>2, <1>3 DEF TypedBodies, InBarrier
<1> QED BY <1>1, <1>2, <1>4 DEF TypedBodies

LEMMA BodiesAdvance ==
    ASSUME Inv, NEW t \in Threads, UNCHANGED prog, pc' = [pc EXCEPT ![Cur(t)] = @ + 1],
           Op(Cur(t)) # "end",
           \/ UNCHANGED phase /\ Op(Cur(t)) # "barrier"
           \/ phase' = [phase EXCEPT ![t] = "none"] /\ Cur(t) = t
    PROVE  TypedBodies'
<1>0. Typed /\ Shape /\ InBarrier /\ TypedBodies BY InvParts DEF TypedBodies, Typed
<1>1. Threads' = Threads /\ \A k : Body(k)' = Body(k) BY DEF Threads, Body
<1>2. Cur(t) \in Tasks /\ t \in Implicit BY <1>0, Tops
<1>3. pc[Cur(t)] \in Nat /\ pc[Cur(t)] + 1 \in 1 .. Len(Body(Cur(t))) + 1 BY <1>0, <1>2, OpsOf
<1>4. pc' \in [Tasks -> Nat] /\ \A k \in Tasks : pc'[k] \in 1 .. Len(Body(k)) + 1
  BY <1>0, <1>2, <1>3 DEF TypedBodies
<1>5. phase' \in [Implicit -> {"none", "gather", "drain", "open", "await"}]
  BY <1>0, <1>2 DEF TypedBodies
<1>6. \A k \in Tasks : k # Cur(t) => Op(k)' = Op(k)
  BY <1>0, <1>1, <1>2 DEF Op, Ends, TypedBodies
<1>7. InBarrier'
  <2>1. SUFFICES ASSUME NEW u \in Threads, phase'[u] # "none" PROVE Op(u)' = "barrier"
    BY <1>1 DEF InBarrier
  <2>2. u \in Tasks /\ u \in Implicit BY <1>0, Tops
  <2>3. phase'[u] = phase[u] BY <1>0, <1>2, <2>1, <2>2 DEF TypedBodies
  <2>4. Op(u) = "barrier" BY <1>0, <2>1, <2>3 DEF InBarrier
  <2>5. CASE UNCHANGED phase /\ Op(Cur(t)) # "barrier" BY <1>6, <2>2, <2>4, <2>5
  <2>6. CASE phase' = [phase EXCEPT ![t] = "none"] /\ Cur(t) = t
    <3>1. u # t BY <1>0, <1>2, <2>1, <2>6 DEF TypedBodies
    <3> QED BY <1>6, <2>2, <2>4, <2>6, <3>1
  <2> QED BY <2>5, <2>6
<1> QED BY <1>0, <1>1, <1>4, <1>5, <1>7 DEF TypedBodies

\* A thread goes from one phase of a barrier to the next.
LEMMA BodiesPhase ==
    ASSUME Inv, NEW t \in Threads, UNCHANGED <<prog, pc>>, Op(t) = "barrier",
           NEW w \in {"gather", "drain", "open", "await"}, phase' = [phase EXCEPT ![t] = w]
    PROVE  TypedBodies'
<1>0. TypedBodies /\ Typed /\ Shape BY InvParts DEF TypedBodies, Typed
<1>1. Threads' = Threads /\ \A k : Body(k)' = Body(k) BY DEF Threads, Body
<1>2. \A k : Op(k)' = Op(k) BY <1>1 DEF Op, Ends
<1>3. phase' \in [Implicit -> {"none", "gather", "drain", "open", "await"}]
  BY <1>0 DEF TypedBodies
<1>4. InBarrier'
  <2>1. SUFFICES ASSUME NEW u \in Threads, phase'[u] # "none" PROVE Op(u) = "barrier"
    BY <1>1, <1>2 DEF InBarrier
  <2>2. CASE u # t
    <3>1. u \in Implicit BY <1>0, Tops
    <3>2. phase'[u] = phase[u] BY <1>0, <2>2, <3>1 DEF TypedBodies
    <3> QED BY <1>0, <2>1, <3>2 DEF TypedBodies, InBarrier
  <2> QED BY <2>2
<1> QED BY <1>0, <1>1, <1>3, <1>4 DEF TypedBodies

LEMMA BodiesStep ==
    ASSUME Inv, NEW t \in Threads, Step(t) \/ (\E v \in Threads : Rob(t, v) \/ RobNothing(t, v))
    PROVE  TypedBodies'
<1>1. CASE Alloc(t) \/ Open(t) \/ TaskWait(t) \/ EndGroup(t)
  <2>1. UNCHANGED <<prog, phase>> /\ pc' = [pc EXCEPT ![Cur(t)] = @ + 1]
    BY <1>1 DEF Alloc, Open, TaskWait, EndGroup, team
  <2>2. Op(Cur(t)) \in {"task", "group", "taskwait", "endgroup"}
    BY <1>1 DEF Alloc, Open, TaskWait, EndGroup
  <2> QED BY <2>1, <2>2, BodiesAdvance
<1>2. CASE Leave(t)
  <2>1. InPhase(t, "await") /\ UNCHANGED prog /\ pc' = [pc EXCEPT ![t] = @ + 1]
        /\ phase' = [phase EXCEPT ![t] = "none"]
    BY <1>2 DEF Leave, Sync
  <2>2. Cur(t) = t /\ phase[t] = "await" BY <2>1 DEF InPhase
  <2>3. Op(t) = "barrier" BY <2>2, InvParts DEF InBarrier
  <2> QED BY <2>1, <2>2, <2>3, BodiesAdvance
<1>3. CASE Arrive(t)
  <2>1. Op(t) = "barrier" /\ UNCHANGED <<prog, pc>> BY <1>3 DEF Arrive, body
  <2>2. PICK w \in {"gather", "await"} : phase' = [phase EXCEPT ![t] = w] BY <1>3 DEF Arrive
  <2> QED BY <2>1, <2>2, BodiesPhase, Zenon
<1>4. CASE Depend(t) \/ Link(t) \/ Settle(t) \/ Push(t) \/ Forget(t) \/ Own(t) \/ Robbed(t) \/ Spent(t)
  BY <1>4, BodiesStill, Zenon DEF Depend, Link, Settle, Push, Forget, Own, Robbed, Spent, body, team
<1>5. CASE Finish(t) \/ LeaveGroup(t) \/ FreeHash(t) \/ ReleaseNode(t) \/ Notify(t) \/ Notified(t) \/ FreeAncestors(t)
  BY <1>5, BodiesStill DEF Finish, LeaveGroup, FreeHash, ReleaseNode, Notify, Notified, FreeAncestors, body, team
<1>6. CASE \E v \in Threads : Rob(t, v) \/ RobNothing(t, v)
  BY <1>6, BodiesStill DEF Rob, RobNothing, body, team
<1> QED BY <1>1, <1>2, <1>3, <1>4, <1>5, <1>6 DEF Step

LEMMA BodiesMaster == ASSUME Inv, Master \/ UNCHANGED vars PROVE TypedBodies'
<1>0. 0 \in Threads BY InvParts, ThreadTasks DEF Typed
<1>1. CASE Gathered \/ Drained
  <2>1. UNCHANGED <<prog, pc>> /\ (InPhase(0, "gather") \/ InPhase(0, "drain"))
    BY <1>1 DEF Gathered, Drained, body
  <2>2. Op(0) = "barrier" BY <1>0, <2>1, InvParts DEF InPhase, InBarrier
  <2>3. PICK w \in {"drain", "open"} : phase' = [phase EXCEPT ![0] = w] BY <1>1 DEF Gathered, Drained
  <2> QED BY <1>0, <2>1, <2>2, <2>3, BodiesPhase
<1>2. CASE ReleaseAll
  <2>1. InPhase(0, "open") /\ UNCHANGED prog /\ pc' = [pc EXCEPT ![0] = @ + 1]
        /\ phase' = [phase EXCEPT ![0] = "none"]
    BY <1>2 DEF ReleaseAll, Sync
  <2>2. Cur(0) = 0 /\ phase[0] = "open" BY <2>1 DEF InPhase
  <2>3. Op(0) = "barrier" BY <1>0, <2>2, InvParts DEF InBarrier
  <2> QED BY <1>0, <2>1, <2>2, <2>3, BodiesAdvance
<1>3. CASE UNCHANGED vars BY <1>3, BodiesStill DEF vars, body, team
<1> QED BY <1>1, <1>2, <1>3 DEF Master

Acts(t) == Step(t) \/ \E v \in Threads : Rob(t, v) \/ RobNothing(t, v)

\* A step of a thread changes nothing of what another thread is doing.
Keeps(u) ==
    /\ stack'[u] = stack[u] /\ Cur(u)' = Cur(u) /\ at'[Cur(u)] = at[Cur(u)] /\ pc'[Cur(u)] = pc[Cur(u)]
    /\ loot'[u] = loot[u] /\ climb'[u] = climb[u] /\ links'[u] = links[u] /\ mine'[u] = mine[u]

\* The variables that change at one index.
OneStack(t) == stack' = stack \/ (\E s : stack' = [stack EXCEPT ![t] = s])
OneAt(t) == at' = at \/ (\E w : at' = [at EXCEPT ![Cur(t)] = w])
OnePc(t) == pc' = pc \/ (\E n : pc' = [pc EXCEPT ![Cur(t)] = n])
OneLoot(t) == loot' = loot \/ (\E k : loot' = [loot EXCEPT ![t] = k])
OneClimb(t) == climb' = climb \/ (\E k : climb' = [climb EXCEPT ![t] = k])
OneLinks(t) == links' = links \/ (\E l : links' = [links EXCEPT ![t] = l])
OneMine(t) == mine' = mine \/ (\E p : mine' = [mine EXCEPT ![t] = p])
OneEach(t) == /\ OneStack(t) /\ OneAt(t) /\ OnePc(t) /\ OneLoot(t) /\ OneClimb(t) /\ OneLinks(t) /\ OneMine(t)

LEMMA OneThread ==
    ASSUME Inv, NEW t \in Threads, OneEach(t), NEW u \in Threads, u # t
    PROVE  Keeps(u)
<1>0. Typed /\ Shape BY InvParts
<1>1. t \in Implicit /\ u \in Implicit /\ Cur(t) \in Tasks /\ Cur(u) \in Tasks /\ Cur(u) # Cur(t)
  BY <1>0, Tops
<1>2. stack'[u] = stack[u] BY <1>0, <1>1 DEF OneEach, OneStack, Typed
<1>3. Cur(u)' = Cur(u) BY <1>2 DEF Cur
<1>4. at'[Cur(u)] = at[Cur(u)] BY <1>0, <1>1 DEF OneEach, OneAt, Typed
<1>5. pc'[Cur(u)] = pc[Cur(u)] BY <1>0, <1>1 DEF OneEach, OnePc, Typed
<1>6. loot'[u] = loot[u] BY <1>0, <1>1 DEF OneEach, OneLoot, Typed
<1>7. climb'[u] = climb[u] BY <1>0, <1>1 DEF OneEach, OneClimb, Typed
<1>8. links'[u] = links[u] BY <1>0, <1>1 DEF OneEach, OneLinks, Typed
<1>9. mine'[u] = mine[u] BY <1>0, <1>1 DEF OneEach, OneMine, Typed
<1> QED BY <1>2, <1>3, <1>4, <1>5, <1>6, <1>7, <1>8, <1>9 DEF Keeps

\* How a full or a partial submission changes the stack.
LEMMA SubmitStack ==
    ASSUME NEW t, NEW k, Submit(t, k) PROVE OneStack(t)
BY DEF Submit, Invoke, OneStack

LEMMA StepOne == ASSUME Inv, NEW t \in Threads, Acts(t) PROVE OneEach(t)
<1>1. CASE Alloc(t)
  BY <1>1 DEF Alloc, Set, queues, team, OneEach, OneStack, OneAt, OnePc, OneLoot, OneClimb, OneLinks, OneMine
<1>2. CASE Depend(t)
  <2>1. UNCHANGED <<body, counters, queues, team>> BY <1>2 DEF Depend
  <2> DEFINE k == Cur(t)  c == Fresh(k)  n == links[t].next
             a == prog.deps[c][n].addr  kind == Merged(prog.deps[c], a)
  <2>2. \/ links' = [links EXCEPT ![t].todo = Links(table[k][a], kind), ![t].next = n + 1]
        \/ links' = [links EXCEPT ![t].next = n + 1]
    BY <1>2, Zenon DEF Depend
  <2>3. \A s, m : [links EXCEPT ![t].todo = s, ![t].next = m]
                  = [links EXCEPT ![t] = [links[t] EXCEPT !.todo = s, !.next = m]]
    <3>1. links \in [Implicit -> LinkType] /\ t \in Implicit BY InvParts, Tops DEF Typed
    <3>2. links[t] \in LinkType BY <3>1
    <3> QED BY <3>1, <3>2 DEF LinkType
  <2>4. \A m : [links EXCEPT ![t].next = m] = [links EXCEPT ![t] = [links[t] EXCEPT !.next = m]]
    OBVIOUS
  <2> HIDE DEF k, c, n, a, kind
  <2>5. OneLinks(t) BY <2>2, <2>3, <2>4, Zenon DEF OneLinks
  <2> QED BY <2>1, <2>5 DEF body, counters, queues, team, OneEach, OneStack, OneAt, OnePc, OneLoot, OneClimb, OneMine
<1>3. CASE Link(t)
  <2>1. UNCHANGED <<body, counters, queues, team>> BY <1>3 DEF Link
  <2>2. links' = [links EXCEPT ![t] = links'[t]]
    <3>1. /\ links' \in [Implicit -> LinkType] /\ \A u \in Implicit : u # t => links'[u] = links[u]
          /\ t \in Implicit
      BY <1>3, LinkTakes
    <3>2. links \in [Implicit -> LinkType] BY InvParts DEF Typed
    <3> QED BY <3>1, <3>2
  <2>3. OneLinks(t) BY <2>2 DEF OneLinks
  <2> QED BY <2>1, <2>3 DEF body, counters, queues, team, OneEach, OneStack, OneAt, OnePc, OneLoot, OneClimb, OneMine
<1>4. CASE Settle(t)
  BY <1>4 DEF Settle, Set, counters, queues, team, OneEach, OneStack, OneAt, OnePc, OneLoot, OneClimb, OneLinks, OneMine
<1>5. CASE Push(t)
  <2>1. OneStack(t) BY <1>5, SubmitStack DEF Push
  <2> QED BY <1>5, <2>1 DEF Push, Set, counters, OneEach, OneAt, OnePc, OneLoot, OneClimb, OneLinks, OneMine
<1>6. CASE Open(t) \/ TaskWait(t) \/ EndGroup(t)
  BY <1>6 DEF Open, TaskWait, EndGroup, counters, queues, team, deps, OneEach, OneStack, OneAt, OnePc, OneLoot, OneClimb, OneLinks, OneMine
<1>7. CASE Forget(t) \/ Arrive(t)
  BY <1>7 DEF Forget, Arrive, body, counters, queues, deps, OneEach, OneStack, OneAt, OnePc, OneLoot, OneClimb, OneLinks, OneMine
<1>8. CASE Own(t)
  <2>1. OneStack(t) /\ OneAt(t) BY <1>8, OwnTakes DEF Invoke, Set, OneStack, OneAt
  <2> QED BY <1>8, <2>1 DEF Own, counters, team, OneEach, OnePc, OneLoot, OneClimb, OneLinks, OneMine
<1>9. CASE Robbed(t)
  BY <1>9 DEF Robbed, Invoke, Set, counters, team, deps, OneEach, OneStack, OneAt, OnePc, OneLoot, OneClimb, OneLinks, OneMine
<1>10. CASE Spent(t)
  BY <1>10 DEF Spent, Set, counters, queues, deps, OneEach, OneStack, OneAt, OnePc, OneLoot, OneClimb, OneLinks, OneMine
<1>11. CASE Finish(t)
  BY <1>11 DEF Finish, Set, queues, team, OneEach, OneStack, OneAt, OnePc, OneLoot, OneClimb, OneLinks, OneMine
<1>12. CASE LeaveGroup(t) \/ FreeHash(t) \/ ReleaseNode(t) \/ Notified(t)
  BY <1>12 DEF LeaveGroup, FreeHash, ReleaseNode, Notified, Set, counters, queues, team, deps, OneEach, OneStack, OneAt, OnePc, OneLoot, OneClimb, OneLinks, OneMine
<1>13. CASE Notify(t)
  <2>1. OneStack(t) BY <1>13, SubmitStack DEF Notify, OneStack
  <2> QED BY <1>13, <2>1 DEF Notify, counters, OneEach, OneAt, OnePc, OneLoot, OneClimb, OneLinks, OneMine
<1>14. CASE FreeAncestors(t)
  BY <1>14 DEF FreeAncestors, queues, team, deps, OneEach, OneStack, OneAt, OnePc, OneLoot, OneClimb, OneLinks, OneMine
<1>15. CASE Leave(t)
  <2>1. InPhase(t, "await") /\ Sync(t) BY <1>15 DEF Leave
  <2>2. Cur(t) = t BY <2>1 DEF InPhase
  <2>3. OnePc(t) /\ OneMine(t) BY <2>1, <2>2 DEF Sync, OnePc, OneMine
  <2> QED BY <1>15, <2>3 DEF Leave, counters, queues, deps, OneEach, OneStack, OneAt, OneLoot, OneClimb, OneLinks
<1>16. CASE \E v \in Threads : Rob(t, v) \/ RobNothing(t, v)
  BY <1>16 DEF Rob, RobNothing, Set, counters, queues, team, deps, OneEach, OneStack, OneAt, OnePc, OneLoot, OneClimb, OneLinks, OneMine
<1> QED BY <1>1, <1>2, <1>3, <1>4, <1>5, <1>6, <1>7, <1>8, <1>9, <1>10, <1>11, <1>12, <1>13, <1>14, <1>15, <1>16 DEF Acts, Step

LEMMA OthersKeep == ASSUME Inv, NEW t \in Threads, Acts(t), NEW u \in Threads, u # t PROVE Keeps(u)
BY StepOne, OneThread

\* What the master does of the barrier does not disturb the tasks.
LEMMA MasterKeeps ==
    ASSUME Inv, Master
    PROVE  /\ 0 \in Threads /\ UNCHANGED <<prog, status, at, stack, counters, queues, deps, group>>
           /\ Cur(0) = 0 /\ At(0, "run")
           /\ (pc' = pc) \/ (pc' = [pc EXCEPT ![0] = @ + 1] /\ Op(0) = "barrier")
           /\ (mine' = mine \/ (\E p \in {0, 1, Nobody} : mine' = [mine EXCEPT ![0] = p]))
           /\ (parity' = parity \/ (\E p \in {0, 1} : parity' = [parity EXCEPT ![0] = p]))
           /\ \A u \in Threads : u # 0 => Keeps(u)
<1>0. Typed /\ Shape /\ InBarrier BY InvParts
<1>1. 0 \in Threads /\ 0 \in Implicit BY <1>0, ThreadTasks DEF Typed
<1>2. UNCHANGED <<prog, status, at, stack, counters, queues, deps, group>>
  BY DEF Master, Gathered, Drained, ReleaseAll, body
<1>3. Cur(0) = 0 /\ At(0, "run") BY DEF Master, Gathered, Drained, ReleaseAll, InPhase
<1>4. (pc' = pc) \/ (pc' = [pc EXCEPT ![0] = @ + 1] /\ Op(0) = "barrier")
  <2>1. CASE Gathered \/ Drained BY <2>1 DEF Gathered, Drained, body
  <2>2. CASE ReleaseAll
    <3>1. phase[0] = "open" /\ pc' = [pc EXCEPT ![0] = @ + 1] BY <2>2 DEF ReleaseAll, InPhase, Sync
    <3> QED BY <1>0, <1>1, <3>1 DEF InBarrier
  <2> QED BY <2>1, <2>2 DEF Master
<1>5. parity[0] \in {0, 1} BY <1>0, <1>1 DEF Typed
<1>6. 1 - parity[0] \in {0, 1} BY <1>5
<1>7. mine' = mine \/ (\E p \in {0, 1, Nobody} : mine' = [mine EXCEPT ![0] = p])
  BY <1>6 DEF Master, Gathered, Drained, ReleaseAll, Sync
<1>8. parity' = parity \/ (\E p \in {0, 1} : parity' = [parity EXCEPT ![0] = p])
  BY <1>6 DEF Master, Gathered, Drained, ReleaseAll, Sync
<1>9. OneEach(0)
  <2>1. UNCHANGED <<stack, at, loot, climb, links>> BY <1>2 DEF counters, queues, deps
  <2>2. OneStack(0) /\ OneAt(0) /\ OneLoot(0) /\ OneClimb(0) /\ OneLinks(0)
    BY <2>1 DEF OneStack, OneAt, OneLoot, OneClimb, OneLinks
  <2>3. OneMine(0) /\ OnePc(0) BY <1>3, <1>4, <1>7 DEF OneMine, OnePc
  <2> QED BY <2>2, <2>3 DEF OneEach
<1>10. \A u \in Threads : u # 0 => Keeps(u) BY <1>1, <1>9, OneThread
<1> QED BY <1>1, <1>2, <1>3, <1>4, <1>7, <1>8, <1>10

TypedQueues == /\ deque \in [{0, 1} -> [Implicit -> DequeType]] /\ loot \in [Implicit -> Explicit \cup {Nobody}]
               /\ mine \in [Implicit -> {0, 1, Nobody}] /\ parity \in [Implicit -> {0, 1}]

LEMMA RobTakes ==
    ASSUME Inv, NEW t \in Threads, NEW v \in Threads, Rob(t, v)
    PROVE  LET p == mine[t]  q == deque[p][v].tasks IN
           /\ p \in {0, 1} /\ t \in Implicit /\ v \in Implicit /\ At(t, "rob")
           /\ q \in Seq(Explicit) /\ q # <<>> /\ Head(q) \in Explicit /\ Tail(q) \in Seq(Explicit)
           /\ Lies(Head(q), "queue", p, v) /\ status[Head(q)] = "created"
           /\ deque' = [deque EXCEPT ![p][v].tasks = Tail(q)]
           /\ loot' = [loot EXCEPT ![t] = Head(q)] /\ Set(t, "robbed")
           /\ UNCHANGED <<prog, pc, status, stack, group, counters, mine, parity, phase,
                          arrived, go, node, table, links>>
<1> DEFINE p == mine[t]  q == deque[p][v].tasks
<1>0. Typed /\ Shape /\ Thieves BY InvParts
<1>1. t \in Implicit /\ v \in Implicit BY <1>0, Tops
<1>2. At(t, "rob") /\ q # <<>> BY DEF Rob
<1>3. p \in {0, 1} BY <1>0, <1>2 DEF Thieves
<1>4. q \in Seq(Explicit) BY <1>0, <1>1, <1>3 DEF Typed, DequeType
<1>5. /\ deque' = [deque EXCEPT ![p][v].tasks = Tail(q)]
      /\ loot' = [loot EXCEPT ![t] = Head(q)] /\ Set(t, "robbed")
      /\ UNCHANGED <<prog, pc, status, stack, group, counters, mine, parity, phase,
                          arrived, go, node, table, links>>
  BY DEF Rob
<1>6. /\ Head(q) \in Explicit /\ Tail(q) \in Seq(Explicit) /\ Head(q) \in Elems(q)
  BY <1>2, <1>4, ElemsOf
<1>7. Lies(Head(q), "queue", p, v) BY <1>1, <1>3, <1>6 DEF Lies
<1>8. status[Head(q)] = "created" BY <1>6, <1>7, InvParts, LyingCreated
<1> HIDE DEF q, p
<1> QED BY <1>1, <1>2, <1>3, <1>4, <1>5, <1>6, <1>7, <1>8 DEF q, p

LEMMA QueuesStep == ASSUME Inv, NEW t \in Threads, Acts(t) PROVE TypedQueues'
<1>0. TypedQueues /\ Typed /\ Shape BY InvParts DEF TypedQueues, Typed
<1>b. t \in Implicit BY <1>0, Tops
<1>1. ASSUME UNCHANGED <<deque, loot, mine, parity>> PROVE TypedQueues' BY <1>0, <1>1 DEF TypedQueues
<1>2. CASE Push(t)
  <2>1. Fresh(Cur(t)) \in Explicit /\ Submit(t, Fresh(Cur(t))) /\ UNCHANGED <<loot, mine, parity>>
    BY <1>2, PushTakes
  <2>2. deque' \in [{0, 1} -> [Implicit -> DequeType]] \/ UNCHANGED deque BY <1>0, <1>b, <2>1, Submitted
  <2> QED BY <1>0, <2>1, <2>2 DEF TypedQueues
<1>3. CASE Notify(t)
  <2> DEFINE s == Head(node[Cur(t)].succ)
  <2>1. s \in Explicit /\ (Submit(t, s) \/ UNCHANGED deque) /\ UNCHANGED <<loot, mine, parity>>
    BY <1>3, Notifies
  <2> HIDE DEF s
  <2>2. deque' \in [{0, 1} -> [Implicit -> DequeType]] \/ UNCHANGED deque BY <1>0, <1>b, <2>1, Submitted
  <2> QED BY <1>0, <2>1, <2>2 DEF TypedQueues
<1>4. CASE Own(t)
  <2> DEFINE p == mine[t]  q == deque[p][t].tasks
  <2>1. p \in {0, 1} /\ UNCHANGED <<loot, mine, parity>>
        /\ (UNCHANGED deque \/ (q # <<>> /\ deque' = [deque EXCEPT ![p][t].tasks = Front(q)]))
    BY <1>4, OwnTakes DEF team
  <2>2. q \in Seq(Explicit) BY <1>0, <1>b, <2>1 DEF Typed, DequeType
  <2>3. CASE q # <<>> /\ deque' = [deque EXCEPT ![p][t].tasks = Front(q)]
    <3> DEFINE s == Front(q)
    <3>1. s \in Seq(Explicit) /\ LeftWith(p, t, s) BY <2>2, <2>3, Fronted DEF LeftWith
    <3> HIDE DEF s, p
    <3>2. deque' \in [{0, 1} -> [Implicit -> DequeType]] BY <1>0, <1>b, <2>1, <3>1, Taken
    <3> QED BY <1>0, <2>1, <3>2 DEF TypedQueues
  <2> QED BY <1>1, <2>1, <2>3
<1>5. CASE \E v \in Threads : Rob(t, v)
  <2>1. PICK v \in Threads : Rob(t, v) BY <1>5
  <2> DEFINE p == mine[t]  q == deque[p][v].tasks
  <2>2. /\ p \in {0, 1} /\ v \in Implicit /\ Tail(q) \in Seq(Explicit) /\ Head(q) \in Explicit
        /\ deque' = [deque EXCEPT ![p][v].tasks = Tail(q)]
        /\ loot' = [loot EXCEPT ![t] = Head(q)] /\ UNCHANGED <<mine, parity>>
    BY <2>1, RobTakes
  <2> DEFINE s == Tail(q)
  <2>3. s \in Seq(Explicit) /\ LeftWith(p, v, s) BY <2>2 DEF LeftWith
  <2> HIDE DEF s, p, q
  <2>4. deque' \in [{0, 1} -> [Implicit -> DequeType]] BY <1>0, <2>2, <2>3, Taken
  <2> QED BY <1>0, <1>b, <2>2, <2>4 DEF TypedQueues
<1>6. CASE Robbed(t)
  <2>1. loot' = [loot EXCEPT ![t] = Nobody] /\ UNCHANGED <<deque, mine, parity>> BY <1>6 DEF Robbed, team
  <2> QED BY <1>0, <2>1 DEF TypedQueues
<1>7. CASE Forget(t)
  BY <1>0, <1>7 DEF Forget, queues, TypedQueues
<1>8. CASE Leave(t)
  <2>1. UNCHANGED <<deque, loot>> /\ parity' = [parity EXCEPT ![t] = 1 - parity[t]]
        /\ mine' = [mine EXCEPT ![t] = 1 - parity[t]]
    BY <1>8 DEF Leave, Sync, queues
  <2>2. 1 - parity[t] \in {0, 1}
    <3>1. parity[t] \in {0, 1} BY <1>0, <1>b DEF Typed
    <3> QED BY <3>1
  <2> QED BY <1>0, <2>1, <2>2 DEF TypedQueues
<1>9. CASE Alloc(t) \/ Depend(t) \/ Link(t) \/ Settle(t) \/ Open(t) \/ Spent(t) \/ TaskWait(t) \/ EndGroup(t)
  BY <1>1, <1>9, Zenon DEF Alloc, Depend, Link, Settle, Open, Spent, TaskWait, EndGroup, queues, team
<1>10. CASE Finish(t) \/ LeaveGroup(t) \/ FreeHash(t) \/ ReleaseNode(t) \/ Notified(t) \/ FreeAncestors(t) \/ Arrive(t)
  BY <1>1, <1>10 DEF Finish, LeaveGroup, FreeHash, ReleaseNode, Notified, FreeAncestors, Arrive, queues, team
<1>11. CASE \E v \in Threads : RobNothing(t, v)
  BY <1>1, <1>11 DEF RobNothing, queues, team
<1> QED BY <1>2, <1>3, <1>4, <1>5, <1>6, <1>7, <1>8, <1>9, <1>10, <1>11 DEF Acts, Step

LEMMA QueuesMaster == ASSUME Inv, Master \/ UNCHANGED vars PROVE TypedQueues'
<1>0. TypedQueues BY InvParts DEF TypedQueues, Typed
<1>1. CASE Master BY <1>0, <1>1, MasterKeeps DEF TypedQueues, queues
<1>2. CASE UNCHANGED vars BY <1>0, <1>2 DEF TypedQueues, vars, queues, team
<1> QED BY <1>1, <1>2

LEMMA StacksStep == ASSUME Inv, NEW t \in Threads, Acts(t) PROVE Stacks'
<1>1. CASE Depend(t) \/ Link(t) \/ Forget(t) \/ Arrive(t)
  BY <1>1, InvParts, StacksStill, Zenon DEF Depend, Link, Forget, Arrive, body, counters
<1>2. CASE Open(t) \/ TaskWait(t) \/ EndGroup(t) \/ Leave(t) BY <1>2, AdvanceStacks
<1>3. CASE Own(t) \/ Robbed(t) \/ Push(t) \/ Notify(t) \/ FreeAncestors(t)
  BY <1>3, OwnStacks, RobbedStacks, PushStacks, NotifyStacks, FreeStacks
<1>4. CASE Alloc(t) \/ Settle(t) \/ Spent(t) \/ Finish(t)
  BY <1>4, AllocStacks, SettleStacks, SpentStacks, FinishStacks
<1>5. CASE LeaveGroup(t) \/ FreeHash(t) \/ ReleaseNode(t) \/ Notified(t)
  BY <1>5, LeaveGroupStacks, FreeHashStacks, ReleaseNodeStacks, NotifiedStacks
<1>6. CASE \E v \in Threads : Rob(t, v) \/ RobNothing(t, v) BY <1>6, RobStacks
<1> QED BY <1>1, <1>2, <1>3, <1>4, <1>5, <1>6 DEF Acts, Step

LEMMA StacksMaster == ASSUME Inv, Master \/ UNCHANGED vars PROVE Stacks' /\ \A k : OffStack(k)' <=> OffStack(k)
<1>1. CASE Gathered \/ Drained
  BY <1>1, InvParts, StacksStill DEF Gathered, Drained, body, counters
<1>2. CASE ReleaseAll
  <2>1. InPhase(0, "open") BY <1>2 DEF ReleaseAll
  <2>2. 0 \in Threads BY InvParts, ThreadTasks DEF Typed
  <2> QED BY <1>2, <2>1, <2>2, AdvanceStacks
<1>3. CASE UNCHANGED vars BY <1>3, InvParts, StacksStill DEF vars, body, counters
<1> QED BY <1>1, <1>2, <1>3 DEF Master

\* The groups open at the end of one, which is the group of the task.
LEMMA InnerGroup ==
    ASSUME Inv, NEW home, GroupState(home), NEW k \in Tasks, status[k] # "none", Op(k) = "endgroup"
    PROVE  /\ group[k] = Arg(k) /\ group[k] \in Groups
           /\ \E b \in 1 .. pc[k] - 1 :
                 OpenedAt(k, group[k], b) /\ group[k] \in OpenAt(Body(k), pc[k])
                 /\ OpenAt(Body(k), pc[k]) = OpenAt(Body(k), b) \cup {group[k]}
<1> DEFINE open == OpenAt(Body(k), pc[k])  h == Arg(k)  g == group[k]
<1>0. Typed BY InvParts
<1>1. pc[k] \in DOMAIN Body(k) /\ Body(k)[pc[k]].op = "endgroup" /\ h = Body(k)[pc[k]].arg /\ pc[k] \in Nat
  BY <1>0, OpsOf DEF Op, Arg
<1>2. Structured(Body(k)) BY <1>0, ProgramAssumption DEF Body, Typed
<1>3. PICK b \in 1 .. pc[k] - 1 : Is(Body(k), b, "group", h) /\ open = OpenAt(Body(k), b) \cup {h}
  BY <1>1, <1>2 DEF Structured
<1>4. h \in open BY <1>3
<1>5. GroupAt(home, k, pc[k], g) BY DEF GroupState
<1>6. PICK c \in 1 .. pc[k] - 1 : OpenedAt(k, g, c) /\ g \in open /\ open = OpenAt(Body(k), c) \cup {g}
  BY <1>4, <1>5 DEF GroupAt
<1>7. g \in Groups BY <1>6 DEF OpenAt
<1>8. \A i, x : x \in OpenAt(Body(k), i) => \E e \in 1 .. i - 1 : Is(Body(k), e, "group", x)
  BY DEF OpenAt
<1>9. g = h
  <2>1. SUFFICES ASSUME g # h PROVE FALSE OBVIOUS
  <2>2. g \in OpenAt(Body(k), b) /\ h \in OpenAt(Body(k), c) BY <1>3, <1>4, <1>6, <2>1
  <2>3. PICK d \in 1 .. b - 1 : Is(Body(k), d, "group", g) BY <1>8, <2>2
  <2>4. PICK e \in 1 .. c - 1 : Is(Body(k), e, "group", h) BY <1>8, <2>2
  <2>5. prog \in Programs BY <1>0 DEF Typed
  <2>6. d = c BY <1>6, <2>3, <2>5, OnePlace DEF OpenedAt
  <2>7. e = b BY <1>3, <2>4, <2>5, OnePlace
  <2>8. b \in Int /\ c \in Int /\ d < b /\ e < c BY <1>1, <2>3, <2>4
  <2> QED BY <2>6, <2>7, <2>8
<1> QED BY <1>6, <1>7, <1>9

\* The references, and the groups.
TypedCounts == /\ refs \in [Tasks -> Int]
               /\ group \in [Tasks -> Groups \cup {Nobody}] /\ groups \in [Groups -> GroupType]

LEMMA CountTypes ==
    ASSUME NEW r \in GroupType
    PROVE  /\ \A n \in Int : LET f == [r EXCEPT !.count = n] IN
                f \in GroupType /\ f.open = r.open /\ f.count = n /\ f.parent = r.parent
           /\ \A b \in BOOLEAN : LET f == [r EXCEPT !.open = b] IN
                f \in GroupType /\ f.open = b /\ f.count = r.count /\ f.parent = r.parent
BY DEF GroupType

\* Another count of a group, and its end.
LEMMA CountOf ==
    ASSUME Typed, NEW g \in Groups, NEW d \in Int, groups' = [groups EXCEPT ![g].count = @ + d]
    PROVE  /\ groups' \in [Groups -> GroupType]
           /\ groups'[g].count = groups[g].count + d
           /\ \A h \in Groups : groups'[h].open = groups[h].open /\ groups'[h].parent = groups[h].parent
                                /\ (h # g => groups'[h].count = groups[h].count)
<1>1. groups \in [Groups -> GroupType] BY DEF Typed
<1>2. groups[g] \in GroupType /\ groups[g].count \in Int BY <1>1 DEF GroupType
<1> DEFINE r == [groups[g] EXCEPT !.count = groups[g].count + d]
<1>3. groups[g].count + d \in Int BY <1>2
<1>4. r \in GroupType /\ r.open = groups[g].open /\ r.count = groups[g].count + d /\ r.parent = groups[g].parent
  BY <1>2, <1>3, CountTypes
<1>5. groups' = [groups EXCEPT ![g] = r] OBVIOUS
<1> HIDE DEF r
<1> QED BY <1>1, <1>4, <1>5

LEMMA EndOf ==
    ASSUME Typed, NEW g \in Groups, groups' = [groups EXCEPT ![g].open = FALSE]
    PROVE  /\ groups' \in [Groups -> GroupType] /\ ~groups'[g].open
           /\ \A h \in Groups : /\ groups'[h].count = groups[h].count
                                /\ groups'[h].parent = groups[h].parent
                                /\ h # g => groups'[h].open = groups[h].open
<1>1. groups \in [Groups -> GroupType] BY DEF Typed
<1>2. groups[g] \in GroupType BY <1>1
<1> DEFINE r == [groups[g] EXCEPT !.open = FALSE]
<1>3. r \in GroupType /\ r.open = FALSE /\ r.count = groups[g].count /\ r.parent = groups[g].parent
  BY <1>2, CountTypes
<1>4. groups' = [groups EXCEPT ![g] = r] OBVIOUS
<1> HIDE DEF r
<1> QED BY <1>1, <1>3, <1>4

\* A task is created.
LEMMA AllocTakes ==
    ASSUME Inv, NEW t \in Threads, Alloc(t)
    PROVE  LET k == Cur(t)  c == Arg(k) IN
           /\ t \in Implicit /\ k \in Tasks /\ c \in Explicit /\ c \in Tasks /\ At(t, "run") /\ Op(k) = "task"
           /\ status[k] = "running" /\ status[c] = "none" /\ c # k /\ Spawner(c) = k
           /\ Is(Body(k), pc[k], "task", c)
           /\ UNCHANGED <<prog, stack, climb, queues, team, table, mtx>>
           /\ pc'[k] = pc[k] + 1 /\ \A j \in Tasks : j # k => pc'[j] = pc[j]
           /\ status'[c] = "created" /\ \A j \in Tasks : j # c => status'[j] = status[j]
           /\ refs' = References(k, c) /\ groups' = Counted(k)
           /\ group' = [group EXCEPT ![c] = group[k]]
           /\ links'[t].n = 0
           /\ node'[c].npred = -1 /\ node'[c].live = node[c].live
           /\ \A j \in Tasks : node'[j].succ = node[j].succ
           /\ \A j \in Tasks : j # c => node'[j] = node[j]
           /\ Set(t, "link") \/ Set(t, "push")
           /\ \A u \in Threads : u # t => Keeps(u)
<1> DEFINE k == Cur(t)  c == Arg(k)
<1>0. Typed /\ Shape /\ Doing /\ Spawning BY InvParts
<1>1. t \in Implicit /\ k \in Tasks BY <1>0, Tops
<1>2. At(t, "run") /\ Op(k) = "task" BY DEF Alloc
<1>3. status[k] = "running" BY <1>0, <1>2, CurFits DEF Busy
<1>4. c \in Explicit /\ c \in Tasks /\ status[c] = "none" /\ c # k /\ Spawner(c) = k /\ Is(Body(k), pc[k], "task", c)
  BY <1>0, <1>1, <1>2, <1>3, SpawnsNew DEF Tasks
<1>5. /\ UNCHANGED <<prog, stack, climb, queues, team, table, mtx>>
      /\ pc' = [pc EXCEPT ![k] = @ + 1] /\ status' = [status EXCEPT ![c] = "created"]
      /\ refs' = References(k, c) /\ groups' = Counted(k)
      /\ group' = [group EXCEPT ![c] = group[k]]
      /\ links' = [links EXCEPT ![t] = [todo |-> <<>>, next |-> 1, n |-> 0]]
      /\ node' = [node EXCEPT ![c].npred = -1]
      /\ Set(t, "link") \/ Set(t, "push")
  BY DEF Alloc
<1>6. Acts(t) BY DEF Acts, Step
<1>7. \A u \in Threads : u # t => Keeps(u) BY <1>6, OthersKeep
<1>8. pc'[k] = pc[k] + 1 /\ \A j \in Tasks : j # k => pc'[j] = pc[j] BY <1>0, <1>1, <1>5, PcMoves
<1>9. links'[t].n = 0 BY <1>0, <1>1, <1>5 DEF Typed
<1>10. /\ node'[c].npred = -1 /\ node'[c].live = node[c].live
       /\ \A j \in Tasks : node'[j].succ = node[j].succ
       /\ \A j \in Tasks : j # c => node'[j] = node[j]
  <2>1. node \in [Tasks -> NodeType] BY <1>0 DEF Typed
  <2>2. node[c] \in NodeType BY <1>4, <2>1
  <2> DEFINE r == [node[c] EXCEPT !.npred = -1]
  <2>3. node' = [node EXCEPT ![c] = r] BY <1>5
  <2>4. r.npred = -1 /\ r.live = node[c].live /\ r.succ = node[c].succ BY <2>2, NodeTypes
  <2> HIDE DEF r, c
  <2> QED BY <1>4, <2>1, <2>3, <2>4
<1>11. status'[c] = "created" /\ \A j \in Tasks : j # c => status'[j] = status[j]
  BY <1>0, <1>4, <1>5 DEF Typed
<1> HIDE DEF k, c
<1> QED BY <1>1, <1>2, <1>3, <1>4, <1>5, <1>7, <1>8, <1>9, <1>10, <1>11 DEF k, c

LEMMA CountsStep == ASSUME Inv, NEW t \in Threads, Acts(t) PROVE TypedCounts'
<1>0. Typed /\ Shape /\ Doing /\ TypedCounts BY InvParts DEF Typed, TypedCounts
<1>b. t \in Implicit /\ Cur(t) \in Tasks BY <1>0, Tops
<1>1. ASSUME UNCHANGED <<refs, group, groups>> PROVE TypedCounts' BY <1>0, <1>1 DEF TypedCounts
<1>2. CASE Alloc(t)
  <2> DEFINE k == Cur(t)  c == Arg(k)
  <2>1. c \in Tasks /\ refs' = References(k, c) /\ groups' = Counted(k)
        /\ group' = [group EXCEPT ![c] = group[k]]
    BY <1>2, AllocTakes
  <2>2. refs' \in [Tasks -> Int] BY <1>0, <2>1 DEF References, TypedCounts
  <2>3. group' \in [Tasks -> Groups \cup {Nobody}] BY <1>0, <1>b, <2>1 DEF TypedCounts
  <2>4. groups' \in [Groups -> GroupType]
    <3>1. CASE group[k] = Nobody BY <1>0, <2>1, <3>1 DEF Counted, TypedCounts
    <3>2. CASE group[k] # Nobody
      <4>1. group[k] \in Groups BY <1>0, <1>b, <3>2 DEF TypedCounts
      <4> DEFINE g == group[k]  d == 1
      <4>2. g \in Groups /\ d \in Int /\ groups' = [groups EXCEPT ![g].count = @ + d]
        BY <2>1, <3>2, <4>1 DEF Counted
      <4> HIDE DEF g, d
      <4> QED BY <1>0, <4>2, CountOf
    <3> QED BY <3>1, <3>2
  <2> QED BY <2>2, <2>3, <2>4 DEF TypedCounts
<1>3. CASE Open(t)
  <2> DEFINE k == Cur(t)  g == Arg(k)  r == [open |-> TRUE, count |-> 0, parent |-> group[k]]
  <2>1. Op(k) = "group" /\ groups' = [groups EXCEPT ![g] = r] /\ group' = [group EXCEPT ![k] = g]
        /\ UNCHANGED refs
    BY <1>3 DEF Open
  <2>2. g \in Groups BY <1>0, <1>b, <2>1, OpsOf
  <2>3. r \in GroupType BY <1>0, <1>b DEF GroupType, TypedCounts
  <2> HIDE DEF r, g
  <2> QED BY <1>0, <1>b, <2>1, <2>2, <2>3 DEF TypedCounts
<1>4. CASE EndGroup(t)
  <2> DEFINE k == Cur(t)  g == group[k]
  <2>1. At(t, "run") /\ Op(k) = "endgroup" /\ UNCHANGED refs
        /\ group' = [group EXCEPT ![k] = groups[g].parent]
        /\ groups' = [groups EXCEPT ![g].open = FALSE]
    BY <1>4 DEF EndGroup
  <2>2. status[k] = "running" BY <1>0, <2>1, CurFits DEF Busy
  <2>3. g \in Groups BY <1>b, <2>1, <2>2, InvParts, InnerGroup DEF GroupsInv
  <2>4. groups[g].parent \in Groups \cup {Nobody} BY <1>0, <2>3 DEF TypedCounts, GroupType
  <2>5. groups' \in [Groups -> GroupType] BY <1>0, <2>1, <2>3, EndOf
  <2> QED BY <1>0, <1>b, <2>1, <2>4, <2>5 DEF TypedCounts
<1>5. CASE LeaveGroup(t)
  <2> DEFINE g == group[Cur(t)]
  <2>1. At(t, "ungroup") /\ groups' = [groups EXCEPT ![g].count = @ - 1] /\ UNCHANGED <<refs, group>>
    BY <1>5 DEF LeaveGroup
  <2>2. at[Cur(t)] = "ungroup" BY <2>1 DEF At
  <2>3. g \in Groups
    <3>1. PICK home : GroupState(home) BY InvParts DEF GroupsInv
    <3>2. g # Nobody BY <1>b, <2>2, <3>1 DEF GroupState
    <3> QED BY <1>0, <1>b, <3>2 DEF TypedCounts
  <2> DEFINE d == -1
  <2>4. d \in Int /\ groups' = [groups EXCEPT ![g].count = @ + d]
    <3>1. groups[g].count \in Int BY <1>0, <2>3 DEF TypedCounts, GroupType
    <3>2. groups[g].count - 1 = groups[g].count + d BY <3>1
    <3>3. groups' = [groups EXCEPT ![g].count = groups[g].count - 1] BY <2>1
    <3>4. d \in Int OBVIOUS
    <3> HIDE DEF d
    <3>5. groups' = [groups EXCEPT ![g].count = groups[g].count + d] BY <3>2, <3>3
    <3>6. groups' = [groups EXCEPT ![g].count = @ + d] BY <3>5
    <3> QED BY <3>4, <3>6
  <2> HIDE DEF g, d
  <2>5. groups' \in [Groups -> GroupType] BY <1>0, <2>3, <2>4, CountOf
  <2> QED BY <1>0, <2>1, <2>5 DEF TypedCounts
<1>6. CASE FreeAncestors(t)
  BY <1>0, <1>6, Frees DEF TypedCounts
<1>7. CASE Own(t) \/ Robbed(t) \/ Push(t) \/ Notify(t)
  BY <1>1, <1>7, OwnTakes, RobbedTakes, PushTakes, Notifies, Zenon DEF counters
<1>8. CASE Depend(t) \/ Link(t) \/ Settle(t) \/ Forget(t) \/ Spent(t) \/ TaskWait(t)
  BY <1>1, <1>8, Zenon DEF Depend, Link, Settle, Forget, Spent, TaskWait, body, counters
<1>9. CASE Finish(t) \/ FreeHash(t) \/ ReleaseNode(t) \/ Notified(t) \/ Arrive(t) \/ Leave(t)
  BY <1>1, <1>9 DEF Finish, FreeHash, ReleaseNode, Notified, Arrive, Leave, body, counters
<1>10. CASE \E v \in Threads : Rob(t, v) \/ RobNothing(t, v)
  BY <1>1, <1>10 DEF Rob, RobNothing, counters
<1> QED BY <1>2, <1>3, <1>4, <1>5, <1>6, <1>7, <1>8, <1>9, <1>10 DEF Acts, Step

LEMMA TypedNext ==
    ASSUME Inv, Next \/ UNCHANGED vars PROVE Typed' /\ InBarrier' /\ Stacks'
<1>1. ASSUME TypedNodes', TypedStacks', TypedBodies', TypedQueues', TypedCounts'
      PROVE  Typed' /\ InBarrier'
  BY <1>1 DEF TypedNodes, TypedStacks, TypedBodies, TypedQueues, TypedCounts, Typed, Ats
<1>2. CASE \E t \in Threads : Acts(t)
  <2>1. PICK t \in Threads : Acts(t) BY <1>2
  <2>2. Step(t) \/ (\E v \in Threads : Rob(t, v) \/ RobNothing(t, v)) BY <2>1 DEF Acts
  <2> QED BY <1>1, <2>1, <2>2, NodesStep, TypedStacksStep, BodiesStep, QueuesStep, CountsStep, StacksStep
<1>3. CASE Master \/ UNCHANGED vars
  <2>1. TypedCounts'
    <3>1. UNCHANGED <<refs, group, groups>> BY <1>3 DEF Master, Gathered, Drained, ReleaseAll, vars, body, counters
    <3>2. TypedCounts BY InvParts DEF Typed, TypedCounts
    <3> QED BY <3>1, <3>2 DEF TypedCounts
  <2> QED BY <1>1, <1>3, <2>1, NodesMaster, TypedStacksMaster, BodiesMaster, QueuesMaster, StacksMaster
<1> QED BY <1>2, <1>3 DEF Next, Finished, Acts
---------------------------------------------------------------------------
(* The thread that steps, and the others; what a thief holds.              *)

\* What holds after a step by the lemmas above.
Stepped(t) == Inv /\ t \in Threads /\ Acts(t) /\ Typed' /\ Stacks'

LEMMA SteppedOf == ASSUME Inv, NEW t \in Threads, Acts(t) PROVE Stepped(t)
<1>1. Next BY DEF Acts, Next
<1> QED BY <1>1, TypedNext DEF Stepped

LEMMA SameProgram ==
    ASSUME Inv, NEW t \in Threads, Acts(t)
    PROVE  prog' = prog /\ Threads' = Threads /\ \A k : Body(k)' = Body(k)
<1>1. prog' = prog
  <2>1. CASE Alloc(t) \/ Depend(t) \/ Link(t) \/ Settle(t) \/ Push(t) \/ Open(t) \/ Forget(t)
    BY <2>1, Zenon DEF Alloc, Depend, Link, Settle, Push, Open, Forget
  <2>2. CASE Own(t) \/ Robbed(t) \/ Spent(t) \/ TaskWait(t) \/ EndGroup(t) \/ Finish(t) \/ LeaveGroup(t)
    BY <2>2 DEF Own, Robbed, Spent, TaskWait, EndGroup, Finish, LeaveGroup
  <2>3. CASE FreeHash(t) \/ ReleaseNode(t) \/ Notify(t) \/ Notified(t) \/ FreeAncestors(t) \/ Arrive(t) \/ Leave(t)
    BY <2>3 DEF FreeHash, ReleaseNode, Notify, Notified, FreeAncestors, Arrive, Leave
  <2>4. CASE \E v \in Threads : Rob(t, v) \/ RobNothing(t, v) BY <2>4 DEF Rob, RobNothing
  <2> QED BY <2>1, <2>2, <2>3, <2>4 DEF Acts, Step
<1> QED BY <1>1 DEF Threads, Body

\* Where a thread is after a step.
LEMMA AtNext ==
    ASSUME Typed', Shape', prog' = prog, NEW t \in Threads
    PROVE  /\ \A w : At(t, w)' <=> at'[Cur(t)'] = w
           /\ Cur(t)' \in Tasks /\ t \in Implicit
<1>1. t \in Threads' /\ t \in Implicit
  <2>1. prog \in Programs BY DEF Typed
  <2> QED BY <2>1, ThreadTasks DEF Threads
<1>2. t \in Elems(stack'[t]) BY <1>1 DEF Shape
<1>3. stack'[t] \in Seq(Tasks) BY <1>1 DEF Typed
<1>4. stack'[t] # <<>> BY <1>2, <1>3, ElemsOf
<1>5. Head(stack'[t]) \in Tasks BY <1>3, <1>4, ElemsOf
<1> QED BY <1>1, <1>4, <1>5 DEF At, Cur

LEMMA OthersAt ==
    ASSUME NEW t, Stepped(t), NEW u \in Threads, u # t
    PROVE  /\ Keeps(u) /\ \A w : At(u, w)' <=> At(u, w)
<1>1. Keeps(u) BY OthersKeep DEF Stepped
<1>2. \A w : At(u, w)' <=> at'[Cur(u)'] = w BY AtNext, SameProgram DEF Stepped, Stacks
<1>3. \A w : At(u, w) <=> at[Cur(u)] = w BY InvParts, Tops DEF Stepped
<1> QED BY <1>1, <1>2, <1>3 DEF Keeps

\* A thread that turns to something else stays with its task.
LEMMA TurnedTo ==
    ASSUME NEW t, Stepped(t), NEW w, Set(t, w), stack' = stack
    PROVE  Cur(t)' = Cur(t) /\ \A v : At(t, v)' <=> v = w
<1>1. Cur(t)' = Cur(t) BY DEF Cur
<1>2. \A v : At(t, v)' <=> at'[Cur(t)'] = v BY AtNext, SameProgram DEF Stepped, Stacks
<1>3. at'[Cur(t)] = w
  <2>1. Cur(t) \in Tasks BY InvParts, Tops DEF Stepped
  <2> QED BY <2>1, InvParts DEF Stepped, Typed, Set
<1> QED BY <1>1, <1>2, <1>3

LEMMA StaysAt ==
    ASSUME NEW t, Stepped(t), UNCHANGED <<at, stack>>
    PROVE  Cur(t)' = Cur(t) /\ \A v : At(t, v)' <=> At(t, v)
<1>1. Cur(t)' = Cur(t) BY DEF Cur
<1> QED BY <1>1 DEF At

\* A thread that invokes a task runs it.
LEMMA InvokesAt ==
    ASSUME NEW t, Stepped(t), NEW k \in Explicit, Invoke(t, k), status[k] = "created", pc' = pc, climb' = climb,
           \/ at' = at /\ at[Cur(t)] \in {"run", "notify"}
           \/ at' = [at EXCEPT ![Cur(t)] = "run"] /\ status[Cur(t)] = "running"
    PROVE  Cur(t)' = k /\ \A v : At(t, v)' <=> v = "run"
<1>1. Cur(t)' = k /\ at'[k] = "run" BY InvParts, SameProgram, Invoked DEF Stepped
<1>2. \A v : At(t, v)' <=> at'[Cur(t)'] = v BY AtNext, SameProgram DEF Stepped, Stacks
<1> QED BY <1>1, <1>2

\* Where a thread turns.
Quiet == {"run", "spent", "ungroup", "unhash", "release", "notify", "climb"}
LEMMA Quietly ==
    ASSUME NEW t, Stepped(t),
           \/ Open(t) \/ Forget(t) \/ TaskWait(t) \/ EndGroup(t) \/ Arrive(t) \/ Leave(t)
           \/ Spent(t) \/ Finish(t) \/ LeaveGroup(t) \/ FreeHash(t) \/ ReleaseNode(t) \/ Notified(t) \/ FreeAncestors(t)
           \/ \E v \in Threads : RobNothing(t, v)
    PROVE  /\ ~At(t, "robbed") /\ \E w \in Quiet : At(t, w)'
           /\ UNCHANGED <<deque, loot>> /\ \A c \in Tasks : status[c] = "created" => status'[c] = "created"
<1>0. Typed /\ Shape /\ t \in Threads /\ Cur(t) \in Tasks BY InvParts, Tops DEF Stepped
<1>1. CASE Open(t) \/ Forget(t) \/ TaskWait(t) \/ EndGroup(t) \/ Arrive(t) \/ Leave(t)
  <2>1. At(t, "run")
    <3>1. CASE Forget(t) BY <3>1 DEF Forget, Waits, InPhase
    <3> QED BY <1>1, <3>1 DEF Open, TaskWait, EndGroup, Arrive, Leave, InPhase
  <2>2. UNCHANGED <<at, stack, status, deque, loot>>
    BY <1>1 DEF Open, Forget, TaskWait, EndGroup, Arrive, Leave, body, queues
  <2>3. At(t, "run")' BY <2>1, <2>2, StaysAt
  <2> QED BY <2>1, <2>2, <2>3 DEF At, Quiet
<1>2. CASE Spent(t) \/ FreeHash(t) \/ ReleaseNode(t) \/ LeaveGroup(t) \/ Notified(t) \/ \E v \in Threads : RobNothing(t, v)
  <2>1. PICK w \in Quiet : Set(t, w)
    BY <1>2 DEF Spent, FreeHash, ReleaseNode, LeaveGroup, Notified, RobNothing, GoesOn, Quiet,
                AfterGroup, AfterHash
  <2>2. ~At(t, "robbed")
    BY <1>2 DEF Spent, FreeHash, ReleaseNode, LeaveGroup, Notified, RobNothing, At
  <2>3. UNCHANGED <<stack, status, deque, loot>>
    BY <1>2 DEF Spent, FreeHash, ReleaseNode, LeaveGroup, Notified, RobNothing, queues
  <2>4. At(t, w)' BY <2>1, <2>3, TurnedTo
  <2> QED BY <2>2, <2>3, <2>4
<1>3. CASE Finish(t)
  <2>1. PICK w \in Quiet : Set(t, w) BY <1>3 DEF Finish, Ended, AfterGroup, AfterHash, Quiet
  <2>2. UNCHANGED <<stack, deque, loot>> /\ At(t, "run") /\ status' = [status EXCEPT ![Cur(t)] = "complete"]
    BY <1>3 DEF Finish, queues
  <2>3. status[Cur(t)] = "running" BY <1>0, <2>2, InvParts, CurFits DEF Stepped, Busy
  <2>4. \A c \in Tasks : status[c] = "created" => status'[c] = "created" BY <1>0, <2>2, <2>3 DEF Typed
  <2>5. At(t, w)' BY <2>1, <2>2, TurnedTo
  <2> QED BY <2>2, <2>4, <2>5 DEF At
<1>4. CASE FreeAncestors(t)
  <2>1. At(t, "climb") BY <1>4 DEF FreeAncestors
  <2> DEFINE c == climb[t]
  <2>2. UNCHANGED <<at, deque, loot, pc, prog>> /\ c \in Tasks
        /\ \A k \in Tasks : status'[k] = status[k] \/ (k = c /\ refs[c] = 1)
    BY <1>0, <1>4, Frees DEF Stepped, queues
  <2>3. refs[c] = 1 => status[c] = "complete" BY <1>0, <2>1, LastReference DEF Stepped
  <2>4. \A k \in Tasks : status[k] = "created" => status'[k] = "created" BY <2>2, <2>3
  <2>5. \E w \in Quiet : At(t, w)'
    <3>1. /\ stack' = stack \/ stack' = [stack EXCEPT ![t] = Tail(@)]
          /\ at[Cur(t)] = "climb" /\ \A u \in Threads : u # t => climb'[u] = climb[u]
          /\ \A k \in Tasks : k # Cur(t) => Bystander(k)
          /\ status'[Cur(t)] \in {"complete", "freed"}
      BY <1>0, <1>4, Frees DEF Stepped
    <3>2. CASE stack' = stack BY <2>1, <2>2, <3>2, StaysAt DEF Quiet
    <3>3. CASE stack' = [stack EXCEPT ![t] = Tail(@)]
      <4>1. at'[Cur(t)'] \in {"run", "notify"}
        BY <1>0, <2>2, <3>1, <3>3, InvParts, Popped DEF Stepped
      <4>2. \A v : At(t, v)' <=> at'[Cur(t)'] = v BY <1>0, AtNext, SameProgram DEF Stepped, Stacks
      <4> QED BY <4>1, <4>2 DEF Quiet
    <3> QED BY <3>1, <3>2, <3>3
  <2> QED BY <2>1, <2>2, <2>4, <2>5 DEF At
<1> QED BY <1>1, <1>2, <1>3, <1>4

Thief(t) == /\ loot[t] # Nobody <=> At(t, "robbed")
            /\ At(t, "rob") \/ At(t, "robbed") => mine[t] \in {0, 1}

LEMMA ThievesOf ==
    ASSUME NEW t, Stepped(t), Thief(t)' PROVE Thieves'
<1>1. SUFFICES ASSUME NEW u \in Threads PROVE Thief(u)'
  BY SameProgram DEF Thief, Thieves, Stepped
<1>2. CASE u # t
  <2>1. Thief(u) BY InvParts DEF Thief, Thieves, Stepped
  <2> QED BY <1>2, <2>1, OthersAt DEF Keeps, Thief
<1> QED BY <1>2

LEMMA ThievesStep == ASSUME Inv, NEW t \in Threads, Acts(t) PROVE Thieves'
<1>0. Stepped(t) /\ t \in Implicit /\ Typed /\ Thieves BY SteppedOf, InvParts, Tops
<1>t. Thief(t) BY <1>0 DEF Thieves, Thief
<1>a. ASSUME NEW w, w \notin {"rob", "robbed"}, At(t, w)', \A v : At(t, v)' <=> v = w, loot'[t] = Nobody
      PROVE  Thieves'
  BY <1>0, <1>a, ThievesOf DEF Thief
<1>b. \A w : At(t, w)' => \A v : At(t, v)' <=> v = w
  BY <1>0, AtNext, SameProgram DEF Stepped, Stacks
<1>1. CASE \/ Open(t) \/ Forget(t) \/ TaskWait(t) \/ EndGroup(t) \/ Arrive(t) \/ Leave(t)
           \/ Spent(t) \/ Finish(t) \/ LeaveGroup(t) \/ FreeHash(t) \/ ReleaseNode(t) \/ Notified(t) \/ FreeAncestors(t)
           \/ \E v \in Threads : RobNothing(t, v)
  <2>1. ~At(t, "robbed") /\ loot' = loot BY <1>0, <1>1, Quietly
  <2>2. PICK w \in Quiet : At(t, w)' BY <1>0, <1>1, Quietly
  <2>3. loot'[t] = Nobody BY <1>t, <2>1 DEF Thief
  <2> QED BY <1>a, <1>b, <2>2, <2>3 DEF Quiet
<1>2. CASE Alloc(t) \/ Settle(t)
  <2>1. PICK w \in {"link", "push", "run"} : Set(t, w) BY <1>2 DEF Alloc, Settle
  <2>2. UNCHANGED <<stack, loot>> /\ ~At(t, "robbed") BY <1>2 DEF Alloc, Settle, queues, At
  <2>3. At(t, w)' BY <1>0, <2>1, <2>2, TurnedTo
  <2> QED BY <1>a, <1>b, <1>t, <2>2, <2>3 DEF Thief
<1>3. CASE Depend(t) \/ Link(t)
  <2>1. UNCHANGED <<at, stack, loot>> /\ At(t, "link") /\ ~At(t, "robbed")
    BY <1>3, Zenon DEF Depend, Link, body, queues, At
  <2>2. At(t, "link")' BY <1>0, <2>1, StaysAt
  <2> QED BY <1>a, <1>b, <1>t, <2>1, <2>2 DEF Thief
<1>4. CASE Push(t)
  <2> DEFINE c == Fresh(Cur(t))
  <2>1. /\ At(t, "push") /\ c \in Explicit /\ status[c] = "created" /\ status[Cur(t)] = "running"
        /\ Submit(t, c) /\ Set(t, "run") /\ UNCHANGED <<pc, loot, climb>>
    BY <1>4, PushTakes DEF counters
  <2> HIDE DEF c
  <2>2. Invoke(t, c) \/ stack' = stack BY <1>0, <2>1, Submitted
  <2>3. CASE Invoke(t, c)
    <3>1. At(t, "run")' BY <1>0, <2>1, <2>3, InvokesAt DEF Set
    <3> QED BY <1>a, <1>b, <1>t, <2>1, <3>1 DEF Thief, At
  <2>4. CASE stack' = stack
    <3>1. At(t, "run")' BY <1>0, <2>1, <2>4, TurnedTo
    <3> QED BY <1>a, <1>b, <1>t, <2>1, <3>1 DEF Thief, At
  <2> QED BY <2>2, <2>3, <2>4
<1>5. CASE Notify(t)
  <2> DEFINE s == Head(node[Cur(t)].succ)
  <2>1. /\ at[Cur(t)] = "notify" /\ s \in Explicit /\ UNCHANGED <<pc, at, loot, climb>>
        /\ \/ Submit(t, s) /\ status[s] = "created"
           \/ UNCHANGED <<deque, stack, status>>
    BY <1>5, Notifies DEF counters
  <2> HIDE DEF s
  <2>2. (Invoke(t, s) /\ status[s] = "created") \/ stack' = stack BY <1>0, <2>1, Submitted
  <2>a. At(t, "notify") BY <1>5 DEF Notify
  <2>3. CASE Invoke(t, s) /\ status[s] = "created"
    <3>1. At(t, "run")' BY <1>0, <2>1, <2>3, InvokesAt
    <3> QED BY <1>a, <1>b, <1>t, <2>a, <2>1, <3>1 DEF Thief, At
  <2>4. CASE stack' = stack
    <3>1. At(t, "notify")' BY <1>0, <2>a, <2>1, <2>4, StaysAt
    <3> QED BY <1>a, <1>b, <1>t, <2>a, <2>1, <3>1 DEF Thief, At
  <2> QED BY <2>2, <2>3, <2>4
<1>6. CASE Own(t)
  <2> DEFINE k == Last(deque[mine[t]][t].tasks)
  <2>1. /\ mine[t] \in {0, 1} /\ At(t, "run") /\ UNCHANGED <<pc, loot, mine, climb>>
        /\ \/ Invoke(t, k) /\ k \in Explicit /\ status[k] = "created" /\ at' = at
           \/ Set(t, "rob") /\ UNCHANGED stack
    BY <1>6, OwnTakes DEF team
  <2> HIDE DEF k
  <2>2. CASE Invoke(t, k) /\ k \in Explicit /\ status[k] = "created" /\ at' = at
    <3>1. at[Cur(t)] = "run" BY <2>1 DEF At
    <3>2. At(t, "run")' BY <1>0, <2>1, <2>2, <3>1, InvokesAt
    <3> QED BY <1>a, <1>b, <1>t, <2>1, <3>2 DEF Thief, At
  <2>3. CASE Set(t, "rob") /\ UNCHANGED stack
    <3>1. \A v : At(t, v)' <=> v = "rob" BY <1>0, <2>3, TurnedTo
    <3> QED BY <1>0, <1>t, <2>1, <3>1, ThievesOf DEF Thief, At
  <2> QED BY <2>1, <2>2, <2>3
<1>7. CASE Robbed(t)
  <2>1. /\ loot[t] \in Explicit /\ status[loot[t]] = "created" /\ Invoke(t, loot[t]) /\ Set(t, "run")
        /\ loot' = [loot EXCEPT ![t] = Nobody] /\ UNCHANGED <<pc, climb>> /\ At(t, "robbed")
    BY <1>7, RobbedTakes DEF counters
  <2>2. status[Cur(t)] = "running" BY <1>0, <2>1, InvParts, CurFits DEF Busy
  <2>3. At(t, "run")' BY <1>0, <2>1, <2>2, InvokesAt DEF Set
  <2>4. loot'[t] = Nobody BY <1>0, <2>1 DEF Typed
  <2> QED BY <1>a, <1>b, <2>3, <2>4
<1>8. CASE \E v \in Threads : Rob(t, v)
  <2>1. PICK v \in Threads : Rob(t, v) BY <1>8
  <2> DEFINE k == Head(deque[mine[t]][v].tasks)
  <2>2. /\ mine[t] \in {0, 1} /\ k \in Explicit /\ loot' = [loot EXCEPT ![t] = k] /\ Set(t, "robbed")
        /\ UNCHANGED <<mine, stack>>
    BY <2>1, RobTakes
  <2> HIDE DEF k
  <2>3. \A w : At(t, w)' <=> w = "robbed" BY <1>0, <2>2, TurnedTo
  <2>4. loot'[t] = k /\ k # Nobody BY <1>0, <2>2, Numbers DEF Typed
  <2> QED BY <1>0, <2>2, <2>3, <2>4, ThievesOf DEF Thief
<1> QED BY <1>1, <1>2, <1>3, <1>4, <1>5, <1>6, <1>7, <1>8 DEF Acts, Step

LEMMA ThievesMaster == ASSUME Inv, Master \/ UNCHANGED vars PROVE Thieves'
<1>0. Typed /\ Thieves BY InvParts
<1>1. CASE Master
  <2>1. /\ 0 \in Threads /\ 0 \in Implicit /\ UNCHANGED <<prog, at, stack, loot>> /\ At(0, "run")
        /\ (mine' = mine \/ (\E p \in {0, 1, Nobody} : mine' = [mine EXCEPT ![0] = p]))
    BY <1>0, <1>1, MasterKeeps, ThreadTasks DEF queues, Typed
  <2>2. Threads' = Threads /\ \A u, w : At(u, w)' <=> At(u, w) BY <2>1 DEF Threads, At, Cur
  <2>3. \A u \in Threads : u # 0 => mine'[u] = mine[u] BY <1>0, <2>1, ThreadTasks DEF Typed
  <2>4. ~At(0, "rob") /\ ~At(0, "robbed") BY <2>1 DEF At
  <2> QED BY <1>0, <2>1, <2>2, <2>3, <2>4 DEF Thieves
<1>2. CASE UNCHANGED vars
  BY <1>0, <1>2 DEF Thieves, vars, body, queues, team, Threads, At, Cur
<1> QED BY <1>1, <1>2
---------------------------------------------------------------------------
(* A created task is in one place.                                         *)

Hand(t) == At(t, "link") \/ At(t, "push") =>
               /\ pc[Cur(t)] > 1
               /\ Fresh(Cur(t)) \in Explicit
               /\ Body(Cur(t))[pc[Cur(t)] - 1] = [op |-> "task", arg |-> Fresh(Cur(t))]

\* A step moves at most task c0, to a place (x0, p0, t0).
Moves(c0, x0, p0, t0) == \A c \in Explicit : \A x, p, t :
    Lies(c, x, p, t)' => \/ c = c0 /\ x = x0 /\ p = p0 /\ t = t0
                         \/ c # c0 /\ Lies(c, x, p, t)

\* No other task than c0 is anywhere now that was not.
OnlyNew(c0) == \A c \in Explicit : Lying(c)' => Lying(c) \/ c = c0

LEMMA Places ==
    ASSUME NEW t, Stepped(t), NEW c0, NEW x0, NEW p0, NEW t0, Moves(c0, x0, p0, t0),
           \A c \in Explicit : status[c] = "created" => status'[c] = "created" \/ c = c0,
           c0 \in Explicit /\ Lies(c0, x0, p0, t0)' => status'[c0] = "created",
           \A p \in {0, 1}, u \in Implicit : Once(deque'[p][u].tasks),
           Hand(t)'
    PROVE  InOnePlace' /\ OnlyNew(c0)
<1>0. InOnePlace BY InvParts DEF Stepped
<1>1. \A c \in Explicit : Lying(c)' => status'[c] = "created"
  <2>1. SUFFICES ASSUME NEW c \in Explicit, NEW x, NEW p, NEW u, Lies(c, x, p, u)'
                 PROVE  status'[c] = "created"
    BY DEF Lying
  <2>2. CASE c = c0 BY <2>1, <2>2 DEF Moves
  <2>3. CASE c # c0
    <3>1. Lies(c, x, p, u) BY <2>1, <2>3 DEF Moves
    <3> QED BY <1>0, <2>3, <3>1, LyingCreated
  <2> QED BY <2>2, <2>3
<1>2. \A c \in Explicit : \A x, p, u, y, q, v :
           Lies(c, x, p, u)' /\ Lies(c, y, q, v)' => x = y /\ p = q /\ u = v
  BY <1>0 DEF InOnePlace, Moves
<1>3. \A u \in Threads : Hand(u)'
  <2>1. SUFFICES ASSUME NEW u \in Threads, u # t PROVE Hand(u)' OBVIOUS
  <2>2. Hand(u) BY <1>0 DEF InOnePlace, Hand
  <2>3. Keeps(u) /\ \A w : At(u, w)' <=> At(u, w) BY <2>1, OthersAt
  <2>4. \A k : Body(k)' = Body(k) BY SameProgram DEF Stepped
  <2>5. Fresh(Cur(u))' = Fresh(Cur(u)) /\ Body(Cur(u))' = Body(Cur(u)) BY <2>3, <2>4 DEF Fresh, Keeps, Body
  <2>6. pc'[Cur(u)'] = pc[Cur(u)] BY <2>3 DEF Keeps
  <2> QED BY <2>2, <2>3, <2>5, <2>6 DEF Hand
<1>4. Threads' = Threads BY SameProgram DEF Stepped
<1>5. OnlyNew(c0) BY DEF OnlyNew, Lying, Moves
<1> QED BY <1>1, <1>2, <1>3, <1>4, <1>5 DEF InOnePlace, Hand

\* What the others have in their hands.
LEMMA OtherHands ==
    ASSUME NEW t, Stepped(t), NEW u \in Threads, u # t, NEW c, InHand(u, c)' PROVE InHand(u, c)
<1>3. Keeps(u) /\ \A w : At(u, w)' <=> At(u, w) BY OthersAt
<1>4. \A k : Body(k)' = Body(k) BY SameProgram DEF Stepped
<1>5. Fresh(Cur(u))' = Fresh(Cur(u)) BY <1>3, <1>4 DEF Fresh, Keeps, Body
<1> QED BY <1>3, <1>5 DEF InHand

\* The moves, from what is in the queues, the loot and the hand of the thread.
LEMMA MovesOf ==
    ASSUME NEW t, Stepped(t), NEW c0, NEW x0, NEW p0, NEW t0,
           \A c \in Explicit : InHand(t, c)' =>
               (c = c0 /\ x0 = "hand" /\ p0 = 0 /\ t0 = t) \/ (c # c0 /\ InHand(t, c)),
           \A p \in {0, 1}, u \in Implicit : \A c \in Elems(deque'[p][u].tasks) :
               (c = c0 /\ x0 = "queue" /\ p0 = p /\ t0 = u) \/ (c # c0 /\ c \in Elems(deque[p][u].tasks)),
           \A u \in Threads : \A c \in Explicit : loot'[u] = c =>
               (c = c0 /\ x0 = "loot" /\ p0 = 0 /\ t0 = u) \/ (c # c0 /\ loot[u] = c),
           \A u \in Threads : u # t => ~InHand(u, c0)
    PROVE  Moves(c0, x0, p0, t0)
<1>1. Threads' = Threads BY SameProgram DEF Stepped
<1>2. SUFFICES ASSUME NEW c \in Explicit, NEW x, NEW p, NEW u, Lies(c, x, p, u)'
               PROVE  (c = c0 /\ x = x0 /\ p = p0 /\ u = t0) \/ (c # c0 /\ Lies(c, x, p, u))
  BY DEF Moves
<1>3. CASE x = "hand" /\ p = 0 /\ u \in Threads /\ InHand(u, c)'
  <2>1. CASE u = t BY <1>3, <2>1 DEF Lies
  <2>2. CASE u # t
    <3>1. InHand(u, c) BY <1>3, <2>2, OtherHands
    <3> QED BY <1>3, <2>2, <3>1 DEF Lies
  <2> QED BY <2>1, <2>2
<1>4. CASE x = "queue" /\ p \in {0, 1} /\ u \in Implicit /\ c \in Elems(deque'[p][u].tasks)
  BY <1>4 DEF Lies
<1>5. CASE x = "loot" /\ p = 0 /\ u \in Threads /\ loot'[u] = c
  BY <1>5 DEF Lies
<1> QED BY <1>1, <1>2, <1>3, <1>4, <1>5 DEF Lies, Elems

\* Nothing moves.
LEMMA NothingMoves ==
    ASSUME NEW t, Stepped(t), UNCHANGED <<deque, loot>>,
           \A c \in Explicit : status[c] = "created" => status'[c] = "created",
           \/ ~At(t, "link")' /\ ~At(t, "push")'
           \/ /\ At(t, "link") \/ At(t, "push")
              /\ Cur(t)' = Cur(t) /\ pc'[Cur(t)] = pc[Cur(t)]
    PROVE  InOnePlace' /\ OnlyNew(Nobody)
<1>0. InOnePlace /\ t \in Threads BY InvParts DEF Stepped
<1>1. \A k : Body(k)' = Body(k) BY <1>0, SameProgram DEF Stepped
<1>2. At(t, "link")' \/ At(t, "push")' =>
        /\ At(t, "link") \/ At(t, "push")
        /\ Cur(t)' = Cur(t) /\ pc'[Cur(t)] = pc[Cur(t)] /\ Fresh(Cur(t))' = Fresh(Cur(t))
        /\ Body(Cur(t))' = Body(Cur(t))
  BY <1>1 DEF Fresh, Body
<1>3. \A c : InHand(t, c)' => InHand(t, c) BY <1>2 DEF InHand
<1>4. Hand(t) BY <1>0 DEF InOnePlace, Hand
<1>5. Hand(t)' BY <1>2, <1>4 DEF Hand
<1>6. \A p \in {0, 1}, u \in Implicit : Once(deque'[p][u].tasks) BY <1>0 DEF InOnePlace
<1>7. \A c \in Explicit : c # Nobody BY Numbers
<1>8. \A p \in {0, 1}, u \in Implicit : deque[p][u].tasks \in Seq(Explicit)
  BY InvParts DEF Stepped, Typed, DequeType
<1>9. \A p \in {0, 1}, u \in Implicit : Elems(deque[p][u].tasks) \subseteq Explicit BY <1>8, ElemsOf
<1>10. \A u \in Threads : ~InHand(u, Nobody)
  BY <1>0, <1>7 DEF InOnePlace, InHand
<1>11. Moves(Nobody, "none", 0, 0)
  <2>1. \A p \in {0, 1}, u \in Implicit : \A c \in Elems(deque'[p][u].tasks) :
               c # Nobody /\ c \in Elems(deque[p][u].tasks)
    BY <1>7, <1>9
  <2> QED BY <1>3, <1>7, <1>10, <2>1, MovesOf
<1> QED BY <1>5, <1>6, <1>7, <1>11, Places

\* A task is in one place at most.
LEMMA OnlyPlace ==
    ASSUME Inv, NEW c \in Explicit, NEW x, NEW p, NEW t, Lies(c, x, p, t)
    PROVE  /\ \A u \in Threads : InHand(u, c) => x = "hand" /\ p = 0 /\ t = u
           /\ \A q \in {0, 1}, u \in Implicit : c \in Elems(deque[q][u].tasks) => x = "queue" /\ p = q /\ t = u
           /\ \A u \in Threads : loot[u] = c => x = "loot" /\ p = 0 /\ t = u
<1>1. \A y, q, u : Lies(c, y, q, u) => x = y /\ p = q /\ t = u BY InvParts DEF InOnePlace
<1>2. \A u \in Threads : InHand(u, c) => Lies(c, "hand", 0, u) BY DEF Lies
<1>3. \A q \in {0, 1}, u \in Implicit : c \in Elems(deque[q][u].tasks) => Lies(c, "queue", q, u) BY DEF Lies
<1>4. \A u \in Threads : loot[u] = c => Lies(c, "loot", 0, u) BY DEF Lies
<1> QED BY <1>1, <1>2, <1>3, <1>4

LEMMA LyingOf ==
    ASSUME Inv, NEW c \in Explicit, ~Lying(c)
    PROVE  /\ \A u \in Threads : ~InHand(u, c)
           /\ \A q \in {0, 1}, u \in Implicit : c \notin Elems(deque[q][u].tasks)
           /\ \A u \in Threads : loot[u] # c
<1>2. \A u \in Threads : InHand(u, c) => Lies(c, "hand", 0, u) BY DEF Lies
<1>3. \A q \in {0, 1}, u \in Implicit : c \in Elems(deque[q][u].tasks) => Lies(c, "queue", q, u) BY DEF Lies
<1>4. \A u \in Threads : loot[u] = c => Lies(c, "loot", 0, u) BY DEF Lies
<1> QED BY <1>2, <1>3, <1>4 DEF Lying

LEMMA Queued ==
    ASSUME Inv, NEW p \in {0, 1}, NEW t \in Implicit
    PROVE  /\ deque[p][t].tasks \in Seq(Explicit) /\ Elems(deque[p][t].tasks) \subseteq Explicit
           /\ Once(deque[p][t].tasks)
<1>1. deque[p][t].tasks \in Seq(Explicit) BY InvParts DEF Typed, DequeType
<1> QED BY <1>1, ElemsOf, InvParts DEF InOnePlace

\* A task goes from a queue, or from nowhere, to its execution.
LEMMA GoneFrom ==
    ASSUME NEW t, Stepped(t), NEW c0 \in Explicit, status'[c0] = "running",
           \A c \in Tasks : c # c0 => status'[c] = status[c],
           ~At(t, "link")' /\ ~At(t, "push")',
           \A u \in Threads : u # t => ~InHand(u, c0),
           \A p \in {0, 1}, u \in Implicit :
              Once(deque'[p][u].tasks) /\ Elems(deque'[p][u].tasks) \subseteq Elems(deque[p][u].tasks) \ {c0},
           \A u \in Threads : loot'[u] = Nobody \/ (loot'[u] = loot[u] /\ loot[u] # c0)
    PROVE  InOnePlace' /\ OnlyNew(c0)
<1>1. Hand(t)' BY DEF Hand
<1>2. \A c : ~InHand(t, c)' BY DEF InHand
<1>3. Moves(c0, "none", 0, 0)
  <2>1. \A u \in Threads : \A c \in Explicit : loot'[u] = c => c # c0 /\ loot[u] = c BY Numbers
  <2> QED BY <1>2, <2>1, MovesOf
<1>4. ~Lies(c0, "none", 0, 0)' BY DEF Lies
<1>5. \A c \in Explicit : status[c] = "created" => status'[c] = "created" \/ c = c0 BY DEF Tasks
<1> QED BY <1>1, <1>3, <1>4, <1>5, Places

\* A task goes to the end of a queue.
LEMMA GoneTo ==
    ASSUME NEW t, Stepped(t), NEW c0 \in Explicit, status[c0] = "created", status' = status, loot' = loot,
           NEW p0 \in {0, 1}, t \in Implicit,
           ~At(t, "link")' /\ ~At(t, "push")',
           \A u \in Threads : u # t => ~InHand(u, c0),
           \A p \in {0, 1}, u \in Implicit : c0 \notin Elems(deque[p][u].tasks),
           \A u \in Threads : loot[u] # c0,
           deque'[p0][t].tasks = Append(deque[p0][t].tasks, c0),
           \A p \in {0, 1}, u \in Implicit : p # p0 \/ u # t => deque'[p][u].tasks = deque[p][u].tasks
    PROVE  InOnePlace' /\ OnlyNew(c0)
<1>1. Hand(t)' BY DEF Hand
<1>2. \A c : ~InHand(t, c)' BY DEF InHand
<1>3. \A p \in {0, 1}, u \in Implicit : Once(deque[p][u].tasks) /\ deque[p][u].tasks \in Seq(Explicit)
  BY Queued DEF Stepped
<1> DEFINE s == deque[p0][t].tasks
<1>4. s \in Seq(Explicit) /\ Once(s) /\ c0 \notin Elems(s) /\ deque'[p0][t].tasks = Append(s, c0) BY <1>3
<1> HIDE DEF s
<1>5. Elems(deque'[p0][t].tasks) = Elems(s) \cup {c0} /\ Once(deque'[p0][t].tasks)
  BY <1>4, Appended
<1>6. \A p \in {0, 1}, u \in Implicit : Once(deque'[p][u].tasks) BY <1>3, <1>5
<1>7. \A p \in {0, 1}, u \in Implicit : \A c \in Elems(deque'[p][u].tasks) :
               (c = c0 /\ p0 = p /\ t = u) \/ (c # c0 /\ c \in Elems(deque[p][u].tasks))
  <2>1. SUFFICES ASSUME NEW p \in {0, 1}, NEW u \in Implicit, NEW c \in Elems(deque'[p][u].tasks)
                 PROVE  (c = c0 /\ p0 = p /\ t = u) \/ (c # c0 /\ c \in Elems(deque[p][u].tasks))
    OBVIOUS
  <2>2. CASE p = p0 /\ u = t BY <1>4, <1>5, <2>1, <2>2 DEF s
  <2>3. CASE ~(p = p0 /\ u = t)
    <3>1. deque'[p][u].tasks = deque[p][u].tasks BY <2>3
    <3> QED BY <2>1, <2>3, <3>1
  <2> QED BY <2>2, <2>3
<1>8. Moves(c0, "queue", p0, t)
  <2>1. \A c \in Explicit : InHand(t, c)' => FALSE BY <1>2
  <2>2. \A u \in Threads : \A c \in Explicit : loot'[u] = c => c # c0 /\ loot[u] = c OBVIOUS
  <2>3. PICK x0 : x0 = "queue" OBVIOUS
  <2>4. \A p \in {0, 1}, u \in Implicit : \A c \in Elems(deque'[p][u].tasks) :
               (c = c0 /\ x0 = "queue" /\ p0 = p /\ t = u) \/ (c # c0 /\ c \in Elems(deque[p][u].tasks))
    BY <1>7, <2>3
  <2>5. Moves(c0, x0, p0, t) BY <2>1, <2>2, <2>4, MovesOf, Zenon
  <2> QED BY <2>3, <2>5
<1> QED BY <1>1, <1>6, <1>8, Places

\* A submitted task is executed, or queued.
LEMMA PlacesSubmitted ==
    ASSUME NEW t, Stepped(t), NEW c0 \in Explicit, status[c0] = "created", Submit(t, c0), loot' = loot,
           ~At(t, "link")' /\ ~At(t, "push")',
           \A u \in Threads : u # t => ~InHand(u, c0),
           \A p \in {0, 1}, u \in Implicit : c0 \notin Elems(deque[p][u].tasks),
           \A u \in Threads : loot[u] # c0
    PROVE  InOnePlace' /\ OnlyNew(c0)
<1>0. t \in Threads /\ t \in Implicit /\ Typed BY InvParts, Tops DEF Stepped
<1>1. PICK p0 \in {0, 1} : p0 = mine[t] BY <1>0, Submitted
<1>2. CASE Invoke(t, c0) /\ UNCHANGED deque
  <2>1. c0 \in Tasks BY DEF Tasks
  <2>2. status'[c0] = "running" /\ \A c \in Tasks : c # c0 => status'[c] = status[c]
    BY <1>0, <1>2, <2>1 DEF Invoke, Typed
  <2>3. \A p \in {0, 1}, u \in Implicit :
              Once(deque'[p][u].tasks) /\ Elems(deque'[p][u].tasks) \subseteq Elems(deque[p][u].tasks) \ {c0}
    BY <1>2, Queued DEF Stepped
  <2> QED BY <2>2, <2>3, GoneFrom
<1>3. CASE /\ UNCHANGED <<stack, status>>
           /\ deque'[p0][t].tasks = Append(deque[p0][t].tasks, c0)
           /\ \A p \in {0, 1}, u \in Implicit : p # p0 \/ u # t =>
                        deque'[p][u].tasks = deque[p][u].tasks
  BY <1>0, <1>3, GoneTo
<1> QED BY <1>0, <1>1, <1>2, <1>3, Submitted

\* A task that comes to be in a place: it is created, or its last predecessor is done.
Brought(t, c) ==
    \/ Alloc(t) /\ c = Arg(Cur(t))
    \/ /\ Notify(t) /\ c = Head(node[Cur(t)].succ)
       /\ node[c].npred - 1 = 0 /\ node[c].live

LEMMA InOnePlaceStep ==
    ASSUME Inv, NEW t \in Threads, Acts(t)
    PROVE  InOnePlace' /\ \A c \in Explicit : Lying(c)' => Lying(c) \/ Brought(t, c)
<1>0. Stepped(t) /\ t \in Implicit /\ Typed /\ Shape /\ Thieves BY SteppedOf, InvParts, Tops
<1>b. \A w : At(t, w)' => \A v : At(t, v)' <=> v = w
  BY <1>0, AtNext, SameProgram DEF Stepped, Stacks
<1>e. Explicit \subseteq Tasks /\ Cur(t) \in Tasks BY <1>0, Tops DEF Tasks
<1>n. ASSUME OnlyNew(Nobody) PROVE \A c \in Explicit : Lying(c)' => Lying(c) \/ Brought(t, c)
  BY <1>n, Numbers DEF OnlyNew
<1>l. ASSUME NEW k, NEW x, NEW p, NEW u, Lies(k, x, p, u), OnlyNew(k)
      PROVE  \A c \in Explicit : Lying(c)' => Lying(c) \/ Brought(t, c)
  BY <1>l DEF OnlyNew, Lying
<1>1. CASE \/ Open(t) \/ Forget(t) \/ TaskWait(t) \/ EndGroup(t) \/ Arrive(t) \/ Leave(t)
           \/ Spent(t) \/ Finish(t) \/ LeaveGroup(t) \/ FreeHash(t) \/ ReleaseNode(t) \/ Notified(t) \/ FreeAncestors(t)
           \/ \E v \in Threads : RobNothing(t, v)
  <2>1. UNCHANGED <<deque, loot>> /\ \A c \in Explicit : status[c] = "created" => status'[c] = "created"
    BY <1>0, <1>1, <1>e, Quietly
  <2>2. PICK w \in Quiet : At(t, w)' BY <1>0, <1>1, Quietly
  <2>3. ~At(t, "link")' /\ ~At(t, "push")' BY <1>b, <2>2 DEF Quiet
  <2> QED BY <1>0, <2>1, <2>3, NothingMoves, <1>n
<1>2. CASE Alloc(t)
  <2> DEFINE k == Cur(t)
  <2>0. PICK c : c = Arg(k) OBVIOUS
  <2>1. /\ c \in Explicit /\ status[c] = "none" /\ Is(Body(k), pc[k], "task", c)
        /\ UNCHANGED <<stack, deque, loot>> /\ pc'[k] = pc[k] + 1 /\ (Set(t, "link") \/ Set(t, "push"))
        /\ status'[c] = "created" /\ \A j \in Tasks : j # c => status'[j] = status[j]
    BY <1>2, <2>0, AllocTakes DEF queues
  <2>2. Cur(t)' = k /\ (At(t, "link")' \/ At(t, "push")') BY <1>0, <2>1, TurnedTo
  <2>3. pc[k] \in Nat /\ pc[k] > 0
    <3>1. pc[k] \in 1 .. Len(Body(k)) + 1 BY <1>0, <1>e DEF Typed
    <3>2. Len(Body(k)) \in Nat BY <1>0, <1>e, Bodies DEF Typed
    <3> QED BY <3>1, <3>2
  <2>4. \A j : Body(j)' = Body(j) BY SameProgram
  <2>5. Body(k)[pc[k]] = [op |-> "task", arg |-> c] BY <2>1 DEF Is
  <2>6. Fresh(Cur(t))' = c
    <3>1. Fresh(Cur(t))' = Body(k)[pc'[k] - 1].arg BY <2>2, <2>4 DEF Fresh, Body
    <3>2. pc'[k] - 1 = pc[k] BY <2>1, <2>3
    <3> QED BY <2>5, <3>1, <3>2
  <2>7. Hand(t)'
    <3>1. pc'[Cur(t)'] > 1 /\ pc'[Cur(t)'] - 1 = pc[k] BY <2>1, <2>2, <2>3
    <3>2. Body(Cur(t))' = Body(k) BY <2>2, <2>4 DEF Body
    <3> QED BY <2>1, <2>5, <2>6, <3>1, <3>2 DEF Hand
  <2>8. ~Lying(c) BY <2>1, InvParts DEF InOnePlace
  <2>9. Moves(c, "hand", 0, t)
    <3>1. \A d \in Explicit : InHand(t, d)' => d = c BY <2>6 DEF InHand
    <3>2. \A p \in {0, 1}, u \in Implicit : \A d \in Elems(deque'[p][u].tasks) : d # c /\ d \in Elems(deque[p][u].tasks)
      BY <2>1, <2>8, LyingOf
    <3>3. \A u \in Threads : \A d \in Explicit : loot'[u] = d => d # c /\ loot[u] = d BY <2>1, <2>8, LyingOf
    <3>4. \A u \in Threads : u # t => ~InHand(u, c) BY <2>1, <2>8, LyingOf
    <3> QED BY <1>0, <3>1, <3>2, <3>3, <3>4, MovesOf
  <2>10. \A p \in {0, 1}, u \in Implicit : Once(deque'[p][u].tasks) BY <2>1, Queued
  <2>11. \A d \in Explicit : status[d] = "created" => status'[d] = "created" \/ d = c BY <1>e, <2>1
  <2>12. InOnePlace' /\ OnlyNew(c) BY <1>0, <2>1, <2>7, <2>9, <2>10, <2>11, Places
  <2>13. \A d \in Explicit : Lying(d)' => Lying(d) \/ Brought(t, d) BY <1>2, <2>0, <2>12 DEF OnlyNew, Brought
  <2> QED BY <2>12, <2>13
<1>3. CASE Settle(t)
  <2>1. /\ At(t, "link") /\ UNCHANGED <<pc, status, stack, deque, loot>>
    BY <1>3, SettleTakes DEF queues
  <2>2. PICK w \in {"run", "push"} : Set(t, w) BY <1>3 DEF Settle
  <2>3. Cur(t)' = Cur(t) BY <1>0, <2>1, <2>2, TurnedTo
  <2> QED BY <1>0, <2>1, <2>3, NothingMoves, <1>n
<1>4. CASE Depend(t) \/ Link(t)
  <2>1. UNCHANGED <<at, stack, status, pc, loot, deque>> /\ At(t, "link")
    BY <1>4, Zenon DEF Depend, Link, body, queues
  <2>2. Cur(t)' = Cur(t) BY <1>0, <2>1, StaysAt
  <2> QED BY <1>0, <2>1, <2>2, NothingMoves, <1>n
<1>5. CASE Push(t)
  <2>0. PICK c : c = Fresh(Cur(t)) OBVIOUS
  <2>1. /\ At(t, "push") /\ c \in Explicit /\ status[c] = "created" /\ status[Cur(t)] = "running"
        /\ Submit(t, c) /\ Set(t, "run") /\ UNCHANGED <<pc, loot, climb>> /\ Lies(c, "hand", 0, t)
    BY <1>5, <2>0, PushTakes DEF counters
  <2>2. Invoke(t, c) \/ stack' = stack BY <1>0, <2>1, Submitted
  <2>3. At(t, "run")'
    <3>1. CASE Invoke(t, c) BY <1>0, <2>1, <3>1, InvokesAt DEF Set
    <3>2. CASE stack' = stack BY <1>0, <2>1, <3>2, TurnedTo
    <3> QED BY <2>2, <3>1, <3>2
  <2>4. ~At(t, "link")' /\ ~At(t, "push")' BY <1>b, <2>3
  <2>5. /\ \A u \in Threads : u # t => ~InHand(u, c)
        /\ \A p \in {0, 1}, u \in Implicit : c \notin Elems(deque[p][u].tasks)
        /\ \A u \in Threads : loot[u] # c
    BY <2>1, OnlyPlace
  <2>6. InOnePlace' /\ OnlyNew(c) BY <1>0, <2>1, <2>4, <2>5, PlacesSubmitted
  <2> QED BY <1>l, <2>1, <2>6
<1>6. CASE Notify(t)
  <2>0. PICK s : s = Head(node[Cur(t)].succ) OBVIOUS
  <2>1. /\ at[Cur(t)] = "notify" /\ s \in Explicit /\ UNCHANGED <<pc, at, loot, climb>>
        /\ \/ /\ Submit(t, s) /\ status[s] = "created" /\ ~Lying(s)
              /\ node[s].npred - 1 = 0 /\ node[s].live
           \/ UNCHANGED <<deque, stack, status>>
    BY <1>6, <2>0, Notifies DEF counters
  <2>a. At(t, "notify") BY <1>6 DEF Notify
  <2>2. CASE UNCHANGED <<deque, stack, status>>
    <3>1. At(t, "notify")' BY <1>0, <2>a, <2>1, <2>2, StaysAt
    <3>2. ~At(t, "link")' /\ ~At(t, "push")' BY <1>b, <3>1
    <3> QED BY <1>0, <2>1, <2>2, <3>2, NothingMoves, <1>n
  <2>3. CASE Submit(t, s) /\ status[s] = "created" /\ ~Lying(s) /\ node[s].npred - 1 = 0 /\ node[s].live
    <3>1. Invoke(t, s) \/ stack' = stack BY <1>0, <2>1, <2>3, Submitted
    <3>2. At(t, "run")' \/ At(t, "notify")'
      <4>1. CASE Invoke(t, s) BY <1>0, <2>1, <2>3, <4>1, InvokesAt
      <4>2. CASE stack' = stack BY <1>0, <2>a, <2>1, <4>2, StaysAt
      <4> QED BY <3>1, <4>1, <4>2
    <3>3. ~At(t, "link")' /\ ~At(t, "push")' BY <1>b, <3>2
    <3>4. /\ \A u \in Threads : u # t => ~InHand(u, s)
          /\ \A p \in {0, 1}, u \in Implicit : s \notin Elems(deque[p][u].tasks)
          /\ \A u \in Threads : loot[u] # s
      BY <2>1, <2>3, LyingOf
    <3>5. InOnePlace' /\ OnlyNew(s) BY <1>0, <2>1, <2>3, <3>3, <3>4, PlacesSubmitted
    <3>6. \A d \in Explicit : Lying(d)' => Lying(d) \/ Brought(t, d)
      BY <1>6, <2>0, <2>3, <3>5 DEF OnlyNew, Brought
    <3> QED BY <3>5, <3>6
  <2> QED BY <2>1, <2>2, <2>3
<1>7. CASE Own(t)
  <2>p. PICK p \in {0, 1} : p = mine[t] BY <1>7, OwnTakes
  <2> DEFINE q == deque[p][t].tasks
  <2>0. PICK k : k = Last(q) OBVIOUS
  <2>1. /\ At(t, "run") /\ UNCHANGED <<pc, loot, mine, climb>>
        /\ \/ /\ Invoke(t, k) /\ k \in Explicit /\ status[k] = "created" /\ at' = at
              /\ q # <<>> /\ deque' = [deque EXCEPT ![p][t].tasks = Front(q)]
              /\ Lies(k, "queue", p, t)
           \/ Set(t, "rob") /\ UNCHANGED <<stack, deque, status>>
    BY <1>7, <2>p, <2>0, OwnTakes DEF team
  <2>2. CASE /\ Invoke(t, k) /\ k \in Explicit /\ status[k] = "created" /\ at' = at
             /\ q # <<>> /\ deque' = [deque EXCEPT ![p][t].tasks = Front(q)]
             /\ Lies(k, "queue", p, t)
    <3>1. at[Cur(t)] = "run" BY <2>1 DEF At
    <3>2. At(t, "run")' BY <1>0, <2>1, <2>2, <3>1, InvokesAt
    <3>3. ~At(t, "link")' /\ ~At(t, "push")' BY <1>b, <3>2
    <3>4. status'[k] = "running" /\ \A c \in Tasks : c # k => status'[c] = status[c]
      BY <1>0, <1>e, <2>2 DEF Invoke, Typed
    <3> DEFINE s == Front(q)
    <3>5. s \in Seq(Explicit) /\ Once(s) /\ Elems(s) = Elems(q) \ {k}
      BY <1>0, <2>0, <2>2, Queued, Fronted
    <3>a. s \in Seq(Explicit) BY <3>5
    <3>6. LeftWith(p, t, s) BY <2>2 DEF LeftWith
    <3> HIDE DEF s
    <3>7. deque'[p][t].tasks = s /\ \A r \in {0, 1}, u \in Implicit : r # p \/ u # t => deque'[r][u].tasks = deque[r][u].tasks
      BY <1>0, <3>a, <3>6, Taken
    <3>8. /\ \A u \in Threads : ~InHand(u, k)
          /\ \A r \in {0, 1}, u \in Implicit : r # p \/ u # t => k \notin Elems(deque[r][u].tasks)
          /\ \A u \in Threads : loot[u] # k
      BY <2>2, OnlyPlace
    <3>9. \A r \in {0, 1}, u \in Implicit :
              Once(deque'[r][u].tasks) /\ Elems(deque'[r][u].tasks) \subseteq Elems(deque[r][u].tasks) \ {k}
      <4>1. SUFFICES ASSUME NEW r \in {0, 1}, NEW u \in Implicit
                     PROVE  Once(deque'[r][u].tasks) /\ Elems(deque'[r][u].tasks) \subseteq Elems(deque[r][u].tasks) \ {k}
        OBVIOUS
      <4>2. CASE r = p /\ u = t BY <3>5, <3>7, <4>2
      <4>3. CASE r # p \/ u # t BY <3>7, <3>8, <4>3, Queued
      <4> QED BY <4>2, <4>3
    <3> QED BY <1>0, <2>1, <2>2, <3>3, <3>4, <3>8, <3>9, GoneFrom, <1>l
  <2>3. CASE Set(t, "rob") /\ UNCHANGED <<stack, deque, status>>
    <3>1. At(t, "rob")' BY <1>0, <2>3, TurnedTo
    <3>2. ~At(t, "link")' /\ ~At(t, "push")' BY <1>b, <3>1
    <3> QED BY <1>0, <2>1, <2>3, <3>2, NothingMoves, <1>n
  <2> QED BY <2>1, <2>2, <2>3
<1>8. CASE Robbed(t)
  <2>0. PICK k : k = loot[t] OBVIOUS
  <2>1. /\ k \in Explicit /\ status[k] = "created" /\ Invoke(t, k) /\ Set(t, "run")
        /\ loot' = [loot EXCEPT ![t] = Nobody] /\ UNCHANGED <<pc, climb, deque>> /\ At(t, "robbed")
        /\ Lies(k, "loot", 0, t)
    BY <1>8, <2>0, RobbedTakes DEF counters
  <2>2. status[Cur(t)] = "running" BY <1>0, <2>1, InvParts, CurFits DEF Busy
  <2>3. At(t, "run")' BY <1>0, <2>1, <2>2, InvokesAt DEF Set
  <2>4. ~At(t, "link")' /\ ~At(t, "push")' BY <1>b, <2>3
  <2>5. status'[k] = "running" /\ \A c \in Tasks : c # k => status'[c] = status[c]
    BY <1>0, <1>e, <2>1 DEF Invoke, Typed
  <2>6. /\ \A u \in Threads : ~InHand(u, k)
        /\ \A r \in {0, 1}, u \in Implicit : k \notin Elems(deque[r][u].tasks)
        /\ \A u \in Threads : u # t => loot[u] # k
    BY <2>1, OnlyPlace
  <2>7. \A u \in Threads : loot'[u] = Nobody \/ (loot'[u] = loot[u] /\ loot[u] # k)
    <3>1. Threads \subseteq Implicit BY <1>0, ThreadTasks DEF Typed
    <3> QED BY <1>0, <2>1, <2>6, <3>1 DEF Typed
  <2>8. \A r \in {0, 1}, u \in Implicit :
              Once(deque'[r][u].tasks) /\ Elems(deque'[r][u].tasks) \subseteq Elems(deque[r][u].tasks) \ {k}
    BY <2>1, <2>6, Queued
  <2> QED BY <1>0, <2>1, <2>4, <2>5, <2>6, <2>7, <2>8, GoneFrom, <1>l
<1>9. CASE \E v \in Threads : Rob(t, v)
  <2>0. PICK v \in Threads : Rob(t, v) BY <1>9
  <2>p. PICK p \in {0, 1} : p = mine[t] BY <2>0, RobTakes
  <2> DEFINE q == deque[p][v].tasks
  <2>k. PICK k : k = Head(q) OBVIOUS
  <2>1. /\ v \in Implicit /\ k \in Explicit /\ loot' = [loot EXCEPT ![t] = k] /\ Set(t, "robbed")
        /\ UNCHANGED <<mine, stack, status>> /\ q # <<>> /\ deque' = [deque EXCEPT ![p][v].tasks = Tail(q)]
        /\ Lies(k, "queue", p, v) /\ status[k] = "created"
    BY <2>0, <2>p, <2>k, RobTakes
  <2>2. At(t, "robbed")' BY <1>0, <2>1, TurnedTo
  <2>3. ~At(t, "link")' /\ ~At(t, "push")' BY <1>b, <2>2
  <2> DEFINE s == Tail(q)
  <2>5. s \in Seq(Explicit) /\ Once(s) /\ Elems(s) = Elems(q) \ {k}
    BY <2>k, <2>1, Queued, Tailed
  <2>a. s \in Seq(Explicit) /\ v \in Implicit /\ Typed BY <1>0, <2>1, <2>5
  <2>6. LeftWith(p, v, s) BY <2>1 DEF LeftWith
  <2> HIDE DEF s
  <2>7. deque'[p][v].tasks = s /\ \A r \in {0, 1}, u \in Implicit : r # p \/ u # v => deque'[r][u].tasks = deque[r][u].tasks
    BY <2>a, <2>6, Taken
  <2>8. /\ \A u \in Threads : ~InHand(u, k)
        /\ \A r \in {0, 1}, u \in Implicit : r # p \/ u # v => k \notin Elems(deque[r][u].tasks)
        /\ \A u \in Threads : loot[u] # k
    BY <2>1, OnlyPlace
  <2>9. \A r \in {0, 1}, u \in Implicit :
            Once(deque'[r][u].tasks) /\ Elems(deque'[r][u].tasks) \subseteq Elems(deque[r][u].tasks) \ {k}
    <3>1. SUFFICES ASSUME NEW r \in {0, 1}, NEW u \in Implicit
                   PROVE  Once(deque'[r][u].tasks) /\ Elems(deque'[r][u].tasks) \subseteq Elems(deque[r][u].tasks) \ {k}
      OBVIOUS
    <3>2. CASE r = p /\ u = v BY <2>5, <2>7, <3>2
    <3>3. CASE r # p \/ u # v BY <2>7, <2>8, <3>3, Queued
    <3> QED BY <3>2, <3>3
  <2>10. Moves(k, "loot", 0, t)
    <3>1. \A c \in Explicit : ~InHand(t, c)' BY <2>3 DEF InHand
    <3>2. \A r \in {0, 1}, u \in Implicit : \A c \in Elems(deque'[r][u].tasks) : c # k /\ c \in Elems(deque[r][u].tasks)
      BY <2>9
    <3>3. \A u \in Threads : \A c \in Explicit : loot'[u] = c => (c = k /\ t = u) \/ (c # k /\ loot[u] = c)
      <4>1. Threads \subseteq Implicit BY <1>0, ThreadTasks DEF Typed
      <4>2. \A u \in Threads : loot'[u] = IF u = t THEN k ELSE loot[u] BY <1>0, <2>1, <4>1 DEF Typed
      <4> QED BY <2>8, <4>2
    <3>4. PICK x0 : x0 = "loot" OBVIOUS
    <3>5. \A u \in Threads : \A c \in Explicit : loot'[u] = c =>
              (c = k /\ x0 = "loot" /\ t = u) \/ (c # k /\ loot[u] = c)
      BY <3>3, <3>4
    <3>6. Moves(k, x0, 0, t) BY <1>0, <2>8, <3>1, <3>2, <3>5, MovesOf
    <3> QED BY <3>4, <3>6
  <2>11. Hand(t)' BY <2>3 DEF Hand
  <2>12. \A r \in {0, 1}, u \in Implicit : Once(deque'[r][u].tasks) BY <2>9
  <2>13. InOnePlace' /\ OnlyNew(k) BY <1>0, <2>1, <2>10, <2>11, <2>12, Places
  <2> QED BY <1>l, <2>1, <2>13
<1> QED BY <1>1, <1>2, <1>3, <1>4, <1>5, <1>6, <1>7, <1>8, <1>9 DEF Acts, Step

LEMMA InOnePlaceMaster ==
    ASSUME Inv, Master \/ UNCHANGED vars PROVE InOnePlace' /\ \A c : Lying(c)' <=> Lying(c)
<1>0. Typed /\ InOnePlace BY InvParts
<1>1. UNCHANGED <<prog, at, stack, status, deque, loot>>
  BY DEF Master, Gathered, Drained, ReleaseAll, vars, body, queues
<1>2. Threads' = Threads /\ (\A k : Body(k)' = Body(k)) /\ \A u, w : At(u, w)' <=> At(u, w)
  BY <1>1 DEF Threads, At, Cur, Body
<1>3. \A u \in Threads : At(u, "link") \/ At(u, "push") => pc'[Cur(u)] = pc[Cur(u)]
  <2>1. CASE Master
    <3>1. /\ 0 \in Threads /\ Cur(0) = 0 /\ At(0, "run")
          /\ pc' = pc \/ pc' = [pc EXCEPT ![0] = @ + 1]
      BY <2>1, MasterKeeps
    <3>2. SUFFICES ASSUME NEW u \in Threads, At(u, "link") \/ At(u, "push") PROVE pc'[Cur(u)] = pc[Cur(u)] OBVIOUS
    <3>3. u # 0 BY <3>1, <3>2 DEF At
    <3>4. Cur(u) # 0 /\ Cur(u) \in Tasks BY <3>1, <3>3, InvParts, Tops
    <3> QED BY <1>0, <3>1, <3>4 DEF Typed
  <2>2. CASE UNCHANGED vars BY <2>2 DEF vars, body
  <2> QED BY <2>1, <2>2
<1>4. \A u : Cur(u)' = Cur(u) BY <1>1 DEF Cur
<1>5. \A u \in Threads : At(u, "link") \/ At(u, "push") => Fresh(Cur(u))' = Fresh(Cur(u))
  BY <1>2, <1>3, <1>4 DEF Fresh, Body
<1>6. \A c, x, p, u : Lies(c, x, p, u)' <=> Lies(c, x, p, u)
  BY <1>1, <1>2, <1>5 DEF Lies, InHand
<1>7. \A c : Lying(c)' <=> Lying(c) BY <1>6 DEF Lying
<1>8. \A u \in Threads : At(u, "link") \/ At(u, "push") =>
        pc'[Cur(u)'] = pc[Cur(u)] /\ Body(Cur(u))' = Body(Cur(u))
  BY <1>2, <1>3, <1>4 DEF Body
<1>9. (\A u \in Threads : Hand(u))'
  <2>1. \A u \in Threads : Hand(u) BY <1>0 DEF InOnePlace, Hand
  <2> QED BY <1>2, <1>5, <1>8, <2>1 DEF Hand
<1>10. (\A c \in Explicit : Lying(c) => status[c] = "created")' BY <1>0, <1>1, <1>7 DEF InOnePlace
<1>11. (\A c \in Explicit : \A x, p, u, y, q, v :
           Lies(c, x, p, u) /\ Lies(c, y, q, v) => x = y /\ p = q /\ u = v)'
  BY <1>0, <1>6 DEF InOnePlace
<1>12. (\A p \in {0, 1}, u \in Implicit : Once(deque[p][u].tasks))' BY <1>0, <1>1 DEF InOnePlace
<1> QED BY <1>7, <1>9, <1>10, <1>11, <1>12 DEF InOnePlace, Hand
---------------------------------------------------------------------------
(* The predecessors that a task still waits for are counted.               *)

\* A created task stays created unless it is executed, from its place.
LEMMA StatusStep ==
    ASSUME Inv, NEW t \in Threads, Acts(t)
    PROVE  /\ \A c \in Explicit : status[c] = "created" => status'[c] = "created" \/ Lying(c) \/ Brought(t, c)
           /\ \A c \in Tasks : status'[c] = "none" => status[c] = "none"
<1>0. Stepped(t) /\ Typed /\ Shape /\ t \in Implicit BY SteppedOf, InvParts, Tops
<1>e. Explicit \subseteq Tasks /\ Cur(t) \in Tasks BY <1>0, Tops DEF Tasks
<1>g. ASSUME status' = status
      PROVE  /\ \A c \in Explicit : status[c] = "created" => status'[c] = "created" \/ Lying(c) \/ Brought(t, c)
             /\ \A c \in Tasks : status'[c] = "none" => status[c] = "none"
  BY <1>g
<1>h. ASSUME NEW k \in Explicit, Invoke(t, k), Lying(k) \/ Brought(t, k)
      PROVE  /\ \A c \in Explicit : status[c] = "created" => status'[c] = "created" \/ Lying(c) \/ Brought(t, c)
             /\ \A c \in Tasks : status'[c] = "none" => status[c] = "none"
  <2>1. status'[k] = "running" /\ \A c \in Tasks : c # k => status'[c] = status[c]
    BY <1>0, <1>e, <1>h DEF Invoke, Typed
  <2> QED BY <1>e, <1>h, <2>1
<1>1. CASE \/ Open(t) \/ Forget(t) \/ TaskWait(t) \/ EndGroup(t) \/ Arrive(t) \/ Leave(t)
           \/ Depend(t) \/ Link(t) \/ Settle(t) \/ Spent(t) \/ LeaveGroup(t) \/ FreeHash(t) \/ ReleaseNode(t) \/ Notified(t)
           \/ \E v \in Threads : Rob(t, v) \/ RobNothing(t, v)
  <2>1. status' = status
    <3>1. CASE Open(t) \/ Forget(t) \/ TaskWait(t) \/ EndGroup(t) \/ Arrive(t) \/ Leave(t)
      BY <3>1 DEF Open, Forget, TaskWait, EndGroup, Arrive, Leave, body
    <3>2. CASE Depend(t) \/ Link(t) \/ Settle(t) \/ Spent(t) \/ LeaveGroup(t) \/ FreeHash(t) \/ ReleaseNode(t) \/ Notified(t)
      BY <3>2, Zenon DEF Depend, Link, Settle, Spent, LeaveGroup, FreeHash, ReleaseNode, Notified, body
    <3>3. CASE \E v \in Threads : Rob(t, v) \/ RobNothing(t, v) BY <3>3 DEF Rob, RobNothing
    <3> QED BY <1>1, <3>1, <3>2, <3>3
  <2> QED BY <1>g, <2>1
<1>2. CASE Alloc(t)
  <2>0. PICK c : c = Arg(Cur(t)) OBVIOUS
  <2>1. status[c] = "none" /\ status'[c] = "created" /\ \A j \in Tasks : j # c => status'[j] = status[j]
    BY <1>2, <2>0, AllocTakes
  <2> QED BY <1>e, <2>1
<1>3. CASE Finish(t)
  <2>1. \A c \in Tasks : status[c] = "created" => status'[c] = "created" BY <1>0, <1>3, Quietly
  <2>2. status' = [status EXCEPT ![Cur(t)] = "complete"] BY <1>3 DEF Finish
  <2>3. \A c \in Tasks : status'[c] = "none" => status[c] = "none" BY <1>0, <2>2 DEF Typed
  <2> QED BY <1>e, <2>1, <2>3
<1>4. CASE FreeAncestors(t)
  <2>1. \A c \in Tasks : status[c] = "created" => status'[c] = "created" BY <1>0, <1>4, Quietly
  <2>2. PICK c : c = climb[t] OBVIOUS
  <2>3. IF refs[c] = 1 THEN status'[c] = "freed" /\ \A k \in Tasks : k # c => status'[k] = status[k]
        ELSE status' = status
    BY <1>4, <2>2, Frees
  <2>4. \A k \in Tasks : status'[k] = "none" => status[k] = "none" BY <2>3
  <2> QED BY <1>e, <2>1, <2>4
<1>5. CASE Own(t)
  <2>0. PICK p \in {0, 1} : p = mine[t] BY <1>5, OwnTakes
  <2>1. PICK k : k = Last(deque[p][t].tasks) OBVIOUS
  <2>2. (Invoke(t, k) /\ k \in Explicit /\ Lies(k, "queue", p, t)) \/ status' = status
    BY <1>5, <2>0, <2>1, OwnTakes
  <2> QED BY <1>g, <1>h, <2>2 DEF Lying
<1>6. CASE Robbed(t)
  <2>1. PICK k : k = loot[t] OBVIOUS
  <2>2. Invoke(t, k) /\ k \in Explicit /\ Lies(k, "loot", 0, t) BY <1>6, <2>1, RobbedTakes
  <2> QED BY <1>h, <2>2 DEF Lying
<1>7. CASE Push(t)
  <2>1. PICK k : k = Fresh(Cur(t)) OBVIOUS
  <2>2. Submit(t, k) /\ k \in Explicit /\ Lies(k, "hand", 0, t) BY <1>7, <2>1, PushTakes
  <2>3. Invoke(t, k) \/ status' = status BY <1>0, <2>2, Submitted
  <2> QED BY <1>g, <1>h, <2>2, <2>3 DEF Lying
<1>8. CASE Notify(t)
  <2>1. PICK s : s = Head(node[Cur(t)].succ) OBVIOUS
  <2>2. /\ s \in Explicit
        /\ (Submit(t, s) /\ node[s].npred - 1 = 0 /\ node[s].live) \/ status' = status
    BY <1>8, <2>1, Notifies
  <2>3. (Invoke(t, s) /\ node[s].npred - 1 = 0 /\ node[s].live) \/ status' = status BY <1>0, <2>2, Submitted
  <2> QED BY <1>8, <1>g, <1>h, <2>1, <2>2, <2>3 DEF Brought
<1> QED BY <1>1, <1>2, <1>3, <1>4, <1>5, <1>6, <1>7, <1>8 DEF Acts, Step

LEMMA PendingKept ==
    ASSUME Inv, NEW t \in Threads, Acts(t), NEW c \in Explicit, Pending(c), ~Brought(t, c), node'[c].live
    PROVE  Pending(c)'
BY InOnePlaceStep, StatusStep DEF Pending

LEMMA SameEntries ==
    ASSUME \A k \in Tasks : node'[k].succ = node[k].succ
    PROVE  \A c : Entries(c)' = Entries(c)
<1>1. ASSUME NEW c PROVE Entries(c)' = Entries(c)
  <2>1. \A x \in Tasks \X Nat : node'[x[1]].succ = node[x[1]].succ OBVIOUS
  <2> QED BY <2>1 DEF Entries
<1> QED BY <1>1

\* The other threads go on linking.
LEMMA Linkers ==
    ASSUME Inv, NEW t \in Threads, Acts(t), NEW u \in Threads, u # t
    PROVE  /\ links'[u] = links[u] /\ Fresh(Cur(u))' = Fresh(Cur(u)) /\ (At(u, "link")' <=> At(u, "link"))
           /\ \A c : Linking(u, c)' <=> Linking(u, c)
<1>1. Keeps(u) /\ \A w : At(u, w)' <=> At(u, w) BY SteppedOf, OthersAt
<1>2. \A k : Body(k)' = Body(k) BY SameProgram
<1>3. Fresh(Cur(u))' = Fresh(Cur(u)) BY <1>1, <1>2 DEF Fresh, Keeps, Body
<1> QED BY <1>1, <1>3 DEF Keeps, Linking

\* No two threads link the same task.
LEMMA OneLinker ==
    ASSUME Inv, NEW t \in Threads, NEW u \in Threads, NEW c, InHand(t, c), InHand(u, c)
    PROVE  t = u /\ c \in Explicit /\ status[c] = "created"
<1>1. c \in Explicit BY InvParts DEF InHand, InOnePlace
<1>2. Lies(c, "hand", 0, t) /\ Lies(c, "hand", 0, u) BY DEF Lies
<1> QED BY <1>1, <1>2, InvParts, LyingCreated DEF InOnePlace

LinkSame(t) ==
    \/ ~At(t, "link") /\ ~At(t, "link")'
    \/ /\ At(t, "link") /\ At(t, "link")' /\ Cur(t)' = Cur(t) /\ pc'[Cur(t)] = pc[Cur(t)]
       /\ links'[t].n = links[t].n

LEMMA LinkKept ==
    ASSUME Inv, NEW t \in Threads, Acts(t), LinkSame(t)
    PROVE  \A u \in Threads : /\ At(u, "link")' <=> At(u, "link")
                              /\ At(u, "link") => links'[u].n = links[u].n /\ Fresh(Cur(u))' = Fresh(Cur(u))
                              /\ \A c : Linking(u, c)' <=> Linking(u, c)
<1>1. SUFFICES ASSUME NEW u \in Threads
               PROVE  /\ At(u, "link")' <=> At(u, "link")
                      /\ At(u, "link") => links'[u].n = links[u].n /\ Fresh(Cur(u))' = Fresh(Cur(u))
                      /\ \A c : Linking(u, c)' <=> Linking(u, c)
  OBVIOUS
<1>2. CASE u # t BY <1>2, Linkers
<1>3. CASE u = t /\ At(t, "link")
  <2>1. \A k : Body(k)' = Body(k) BY SameProgram
  <2>2. Fresh(Cur(t))' = Fresh(Cur(t)) BY <1>3, <2>1 DEF Fresh, Body, LinkSame
  <2> QED BY <1>3, <2>2 DEF LinkSame, Linking
<1>4. CASE u = t /\ ~At(t, "link") BY <1>4 DEF LinkSame, Linking
<1> QED BY <1>2, <1>3, <1>4

\* Steps that neither link nor notify.
LEMMA PredecessorsKept ==
    ASSUME Inv, NEW t \in Threads, Acts(t), LinkSame(t), ~Alloc(t), ~Notify(t),
           \A k \in Tasks : /\ node'[k].succ = node[k].succ /\ node'[k].npred = node[k].npred
                            /\ node'[k].live = node[k].live
    PROVE  Predecessors'
<1>0. Predecessors /\ Typed BY InvParts
<1>1. Threads' = Threads BY SameProgram
<1>2. \A c : Entries(c)' = Entries(c) BY SameEntries
<1>4. \A u \in Threads : /\ At(u, "link")' <=> At(u, "link")
                         /\ At(u, "link") => links'[u].n = links[u].n /\ Fresh(Cur(u))' = Fresh(Cur(u))
                         /\ \A c : Linking(u, c)' <=> Linking(u, c)
  BY LinkKept
<1>6. ASSUME NEW u \in Threads, NEW c \in Explicit, Linking(u, c)'
      PROVE  ~node'[c].live /\ EntryCount(c, node[c].npred + links[u].n + 1)'
  <2>1. Linking(u, c) /\ At(u, "link") /\ c \in Tasks BY <1>4, <1>6 DEF Linking, Tasks
  <2>2. ~node[c].live /\ EntryCount(c, node[c].npred + links[u].n + 1) BY <1>0, <2>1 DEF Predecessors
  <2>3. node'[c].npred + links'[u].n + 1 = node[c].npred + links[u].n + 1 BY <1>4, <2>1
  <2> QED BY <1>2, <2>1, <2>2, <2>3 DEF EntryCount
<1>7. ASSUME NEW c \in Explicit, Entries(c)' # {}
      PROVE  (\E u \in Threads : Linking(u, c)') \/ (Pending(c)' /\ EntryCount(c, node[c].npred)')
  <2>1. c \in Tasks BY DEF Tasks
  <2>2. ~Brought(t, c) BY DEF Brought
  <2>3. CASE \E u \in Threads : Linking(u, c) BY <1>4, <2>3
  <2>4. CASE Pending(c) /\ EntryCount(c, node[c].npred)
    <3>1. Pending(c)' BY <2>1, <2>2, <2>4, PendingKept DEF Pending
    <3> QED BY <1>2, <2>1, <2>4, <3>1 DEF EntryCount
  <2> QED BY <1>0, <1>2, <1>7, <2>3, <2>4 DEF Predecessors
<1>8. ASSUME NEW c \in Explicit, status'[c] = "none" PROVE ~node'[c].live
  BY <1>0, <1>8, StatusStep DEF Predecessors, Tasks
<1> QED BY <1>1, <1>6, <1>7, <1>8 DEF Predecessors

\* The entries of a node, told by what is left of its successors.
LEMMA EntryOf ==
    ASSUME NEW c, NEW k \in Tasks, NEW i \in Nat
    PROVE  <<k, i>> \in Entries(c) <=> i \in 1 .. Len(node[k].succ)
                                       /\ node[k].succ[Len(node[k].succ) + 1 - i] = c
<1>1. <<k, i>> \in Tasks \X Nat /\ <<k, i>>[1] = k /\ <<k, i>>[2] = i OBVIOUS
<1> QED BY <1>1 DEF Entries

LEMMA EntryNext ==
    ASSUME NEW c, NEW k \in Tasks, NEW i \in Nat
    PROVE  (<<k, i>> \in Entries(c))' <=> i \in 1 .. Len(node'[k].succ)
                                       /\ node'[k].succ[Len(node'[k].succ) + 1 - i] = c
<1>1. <<k, i>> \in Tasks \X Nat /\ <<k, i>>[1] = k /\ <<k, i>>[2] = i OBVIOUS
<1> QED BY <1>1 DEF Entries

LEMMA PairsOnly == \A c : Entries(c) \subseteq Tasks \X Nat /\ Entries(c)' \subseteq Tasks \X Nat
BY DEF Entries

LEMMA SamePairs ==
    ASSUME NEW A, NEW B, A \subseteq Tasks \X Nat, B \subseteq Tasks \X Nat,
           \A k \in Tasks, i \in Nat : <<k, i>> \in A <=> <<k, i>> \in B
    PROVE  A = B
<1>1. \A x \in Tasks \X Nat : \E k \in Tasks, i \in Nat : x = <<k, i>> OBVIOUS
<1> QED BY <1>1

\* A new successor is entered behind those there are.
LEMMA EntryAdded ==
    ASSUME Typed, NEW j \in Tasks, NEW c \in Explicit, node'[j].succ = <<c>> \o node[j].succ,
           \A k \in Tasks : k # j => node'[k].succ = node[k].succ
    PROVE  \E e : /\ e \notin Entries(c) /\ Entries(c)' = Entries(c) \cup {e}
                  /\ \A d : d # c => Entries(d)' = Entries(d)
<1>0. PICK s, L : s = node[j].succ /\ L = Len(s) OBVIOUS
<1>1. s \in Seq(Explicit) BY <1>0 DEF Typed, NodeType
<1>2. L \in Nat BY <1>0, <1>1
<1>3. /\ Len(node'[j].succ) = L + 1 /\ node'[j].succ[1] = c
      /\ \A i \in 1 .. L : node'[j].succ[i + 1] = s[i]
  BY <1>0, <1>1, Consed
<1>e. \A d : \A i \in Nat : <<j, i>> \in Entries(d) <=> i \in 1 .. L /\ s[L + 1 - i] = d
  BY <1>0, EntryOf
<1>f. \A d : \A i \in Nat : <<j, i>> \in Entries(d)' <=> i \in 1 .. L + 1 /\ node'[j].succ[(L + 1) + 1 - i] = d
  <2>1. SUFFICES ASSUME NEW d, NEW i \in Nat
                 PROVE  <<j, i>> \in Entries(d)' <=> i \in 1 .. L + 1 /\ node'[j].succ[(L + 1) + 1 - i] = d
    OBVIOUS
  <2>2. <<j, i>> \in Entries(d)' <=> i \in 1 .. Len(node'[j].succ)
                                       /\ node'[j].succ[Len(node'[j].succ) + 1 - i] = d
    BY EntryNext
  <2>3. PICK m : m = Len(node'[j].succ) OBVIOUS
  <2>4. m = L + 1 BY <1>3, <2>3
  <2> QED BY <2>2, <2>3, <2>4
<1> DEFINE e == <<j, L + 1>>
<1>4. ASSUME NEW d, NEW k \in Tasks, NEW i \in Nat
      PROVE  <<k, i>> \in Entries(d)' <=> <<k, i>> \in Entries(d) \/ (<<k, i>> = e /\ d = c)
  <2>1. CASE k # j
    <3>1. node'[k].succ = node[k].succ BY <2>1
    <3> QED BY <2>1, <3>1, EntryOf, EntryNext
  <2>2. CASE k = j /\ i \in 1 .. L
    <3>1. L + 1 - i \in 1 .. L /\ (L + 1 - i) + 1 = (L + 1) + 1 - i /\ i \in 1 .. L + 1 /\ i # L + 1
      BY <1>2, <2>2
    <3>2. node'[j].succ[(L + 1) + 1 - i] = s[L + 1 - i] BY <1>3, <3>1
    <3> QED BY <1>e, <1>f, <2>2, <3>1, <3>2
  <2>3. CASE k = j /\ i = L + 1
    <3>1. i \notin 1 .. L /\ i \in 1 .. L + 1 /\ (L + 1) + 1 - i = 1 BY <1>2, <2>3
    <3>2. <<k, i>> = e BY <2>3
    <3>3. <<k, i>> \notin Entries(d) BY <1>e, <2>3, <3>1
    <3>a. <<j, i>> \in Entries(d)' <=> node'[j].succ[(L + 1) + 1 - i] = d BY <1>f, <3>1
    <3>4. <<k, i>> \in Entries(d)' <=> c = d BY <1>3, <2>3, <3>1, <3>a
    <3> QED BY <3>2, <3>3, <3>4
  <2>4. CASE k = j /\ i \notin 1 .. L + 1
    <3>1. i \notin 1 .. L /\ i # L + 1 BY <1>2, <2>4
    <3> QED BY <1>e, <1>f, <2>4, <3>1
  <2>5. i \in 1 .. L \/ i = L + 1 \/ i \notin 1 .. L + 1 BY <1>2
  <2> QED BY <2>1, <2>2, <2>3, <2>4, <2>5
<1>5. L + 1 \in Nat /\ L + 1 \notin 1 .. L BY <1>2
<1>6. e \notin Entries(c) BY <1>5, <1>e
<1>p. e \in Tasks \X Nat BY <1>5
<1> HIDE DEF e
<1>8. ASSUME NEW d, d # c PROVE Entries(d)' = Entries(d) BY <1>4, <1>8, PairsOnly, SamePairs
<1>9. Entries(c)' = Entries(c) \cup {e} BY <1>4, <1>p, PairsOnly, SamePairs
<1> QED BY <1>6, <1>8, <1>9

\* The first of the successors was the last to be entered.
LEMMA EntryDropped ==
    ASSUME Typed, NEW k \in Tasks, node[k].succ # <<>>, node'[k].succ = Tail(node[k].succ), NEW c,
           c = Head(node[k].succ),
           \A j \in Tasks : j # k => node'[j].succ = node[j].succ
    PROVE  \E e : /\ e \in Entries(c) /\ Entries(c)' = Entries(c) \ {e}
                  /\ \A d : d # c => Entries(d)' = Entries(d)
<1>0. PICK s, L : s = node[k].succ /\ L = Len(s) OBVIOUS
<1>1. s \in Seq(Explicit) /\ s # <<>> BY <1>0 DEF Typed, NodeType
<1>2. L \in Nat /\ L > 0 /\ c = s[1] BY <1>0, <1>1
<1>3. Len(node'[k].succ) = L - 1 /\ \A i \in 1 .. L - 1 : node'[k].succ[i] = s[i + 1]
  BY <1>0, <1>1, Tailed
<1>e. \A d : \A i \in Nat : <<k, i>> \in Entries(d) <=> i \in 1 .. L /\ s[L + 1 - i] = d
  BY <1>0, EntryOf
<1>f. \A d : \A i \in Nat : <<k, i>> \in Entries(d)' <=> i \in 1 .. L - 1 /\ node'[k].succ[(L - 1) + 1 - i] = d
  <2>1. SUFFICES ASSUME NEW d, NEW i \in Nat
                 PROVE  <<k, i>> \in Entries(d)' <=> i \in 1 .. L - 1 /\ node'[k].succ[(L - 1) + 1 - i] = d
    OBVIOUS
  <2>2. <<k, i>> \in Entries(d)' <=> i \in 1 .. Len(node'[k].succ)
                                       /\ node'[k].succ[Len(node'[k].succ) + 1 - i] = d
    BY EntryNext
  <2>3. PICK m : m = Len(node'[k].succ) OBVIOUS
  <2>4. m = L - 1 BY <1>3, <2>3
  <2> QED BY <2>2, <2>3, <2>4
<1> DEFINE e == <<k, L>>
<1>4. ASSUME NEW d, NEW j \in Tasks, NEW i \in Nat
      PROVE  <<j, i>> \in Entries(d)' <=> <<j, i>> \in Entries(d) /\ <<j, i>> # e
  <2>1. CASE j # k
    <3>1. node'[j].succ = node[j].succ BY <2>1
    <3> QED BY <2>1, <3>1, EntryOf, EntryNext
  <2>2. CASE j = k /\ i \in 1 .. L - 1
    <3>1. L - i \in 1 .. L - 1 /\ (L - i) + 1 = L + 1 - i /\ (L - 1) + 1 - i = L - i /\ i \in 1 .. L /\ i # L
      BY <1>2, <2>2
    <3>2. node'[k].succ[L - i] = s[(L - i) + 1] BY <1>3, <3>1
    <3>3. node'[k].succ[(L - 1) + 1 - i] = s[L + 1 - i] BY <3>1, <3>2
    <3>4. <<j, i>> # e BY <2>2, <3>1
    <3> QED BY <1>e, <1>f, <2>2, <3>1, <3>3, <3>4
  <2>3. CASE j = k /\ i = L
    <3>1. i \notin 1 .. L - 1 BY <1>2, <2>3
    <3> QED BY <1>f, <2>3, <3>1
  <2>4. CASE j = k /\ i \notin 1 .. L
    <3>1. i \notin 1 .. L - 1 BY <1>2, <2>4
    <3> QED BY <1>e, <1>f, <2>4, <3>1
  <2>5. i \in 1 .. L - 1 \/ i = L \/ i \notin 1 .. L BY <1>2
  <2> QED BY <2>1, <2>2, <2>3, <2>4, <2>5
<1>5. L \in 1 .. L /\ L + 1 - L = 1 BY <1>2
<1>6. e \in Entries(c) BY <1>2, <1>5, <1>e
<1>7. \A d : d # c => e \notin Entries(d) BY <1>2, <1>5, <1>e
<1> HIDE DEF e
<1>8. ASSUME NEW d, d # c PROVE Entries(d)' = Entries(d)
  <2>1. \A j \in Tasks, i \in Nat : <<j, i>> \in Entries(d)' <=> <<j, i>> \in Entries(d) BY <1>4, <1>7, <1>8, Zenon
  <2> QED BY <2>1, PairsOnly, SamePairs
<1>9. Entries(c)' = Entries(c) \ {e} BY <1>4, PairsOnly, SamePairs
<1> QED BY <1>6, <1>8, <1>9

\* Nodes that no other follows yet.
LEMMA NoEntries ==
    ASSUME Inv, NEW c \in Explicit, Entries(c) # {}
    PROVE  /\ status[c] = "created"
           /\ (\E u \in Threads : Linking(u, c)) \/ (Pending(c) /\ EntryCount(c, node[c].npred))
<1>1. (\E u \in Threads : Linking(u, c)) \/ (Pending(c) /\ EntryCount(c, node[c].npred))
  BY InvParts DEF Predecessors
<1>2. ASSUME NEW u \in Threads, Linking(u, c) PROVE status[c] = "created"
  <2>1. InHand(u, c) BY <1>2 DEF Linking, InHand
  <2> QED BY <2>1, OneLinker
<1> QED BY <1>1, <1>2 DEF Pending

\* The parts of the invariant after a step.
LEMMA PredecessorsOf ==
    ASSUME Inv, NEW t \in Threads, Acts(t),
           \A u \in Threads : \A c \in Explicit : Linking(u, c)' =>
               ~node'[c].live /\ EntryCount(c, node[c].npred + links[u].n + 1)',
           \A c \in Explicit : Entries(c)' # {} =>
               (\E u \in Threads : Linking(u, c)') \/ (Pending(c)' /\ EntryCount(c, node[c].npred)'),
           \A c \in Explicit : node'[c].live => node[c].live \/ status'[c] # "none"
    PROVE  Predecessors'
<1>1. Threads' = Threads BY SameProgram
<1>2. \A c \in Explicit : status'[c] = "none" => ~node'[c].live
  BY InvParts, StatusStep DEF Predecessors, Tasks
<1> QED BY <1>1, <1>2 DEF Predecessors

LEMMA PredecessorsAlloc == ASSUME Inv, NEW t \in Threads, Alloc(t) PROVE Predecessors'
<1>0. Acts(t) /\ Stepped(t) /\ Predecessors /\ Typed BY SteppedOf, InvParts DEF Acts, Step
<1>c. PICK n : n = Arg(Cur(t)) OBVIOUS
<1>1. /\ At(t, "run") /\ n \in Explicit /\ status[n] = "none" /\ stack' = stack /\ t \in Implicit
      /\ links'[t].n = 0 /\ node'[n].npred = -1 /\ node'[n].live = node[n].live
      /\ \A j \in Tasks : node'[j].succ = node[j].succ
      /\ \A j \in Tasks : j # n => node'[j] = node[j]
      /\ Set(t, "link") \/ Set(t, "push")
      /\ Is(Body(Cur(t)), pc[Cur(t)], "task", n)
      /\ pc'[Cur(t)] = pc[Cur(t)] + 1
  BY <1>c, AllocTakes
<1>2. \A c : Entries(c)' = Entries(c) BY <1>1, SameEntries
<1>3. Entries(n) = {} BY <1>1, NoEntries
<1>4. ~node[n].live BY <1>0, <1>1 DEF Predecessors
<1>5. \A c : Linking(t, c)' => c = n
  <2>1. Cur(t)' = Cur(t) BY <1>0, <1>1, TurnedTo
  <2>2. \A j : Body(j)' = Body(j) BY <1>0, SameProgram
  <2>3. Fresh(Cur(t))' = Body(Cur(t))[pc'[Cur(t)] - 1].arg BY <2>1, <2>2 DEF Fresh, Body
  <2>4. pc[Cur(t)] \in Nat BY <1>0, InvParts, Tops DEF Typed
  <2>5. pc'[Cur(t)] - 1 = pc[Cur(t)] BY <1>1, <2>4
  <2>6. Body(Cur(t))[pc[Cur(t)]].arg = n BY <1>1 DEF Is
  <2> QED BY <2>3, <2>5, <2>6 DEF Linking
<1>6. ASSUME NEW u \in Threads, NEW c \in Explicit, Linking(u, c)'
      PROVE  ~node'[c].live /\ EntryCount(c, node[c].npred + links[u].n + 1)'
  <2>1. CASE u = t
    <3>1. c = n BY <1>5, <1>6, <2>1
    <3>2. node'[n].npred + links'[t].n + 1 = 0 BY <1>1
    <3> QED BY <1>1, <1>2, <1>3, <1>4, <2>1, <3>1, <3>2, FS_EmptySet DEF EntryCount
  <2>2. CASE u # t
    <3>1. Linking(u, c) /\ links'[u] = links[u] BY <1>0, <1>6, <2>2, Linkers
    <3>2. InHand(u, c) BY <3>1 DEF Linking, InHand
    <3>3. status[c] = "created" BY <3>2, OneLinker
    <3>4. c # n /\ c \in Tasks BY <1>1, <3>3 DEF Tasks
    <3>5. node'[c] = node[c] BY <1>1, <3>4
    <3>6. ~node[c].live /\ EntryCount(c, node[c].npred + links[u].n + 1) BY <1>0, <3>1 DEF Predecessors
    <3> QED BY <1>2, <3>1, <3>5, <3>6 DEF EntryCount
  <2> QED BY <2>1, <2>2
<1>7. ASSUME NEW c \in Explicit, Entries(c)' # {}
      PROVE  (\E u \in Threads : Linking(u, c)') \/ (Pending(c)' /\ EntryCount(c, node[c].npred)')
  <2>1. c # n /\ c \in Tasks /\ Entries(c) # {} BY <1>2, <1>3, <1>7 DEF Tasks
  <2>2. node'[c] = node[c] BY <1>1, <2>1
  <2>3. CASE \E u \in Threads : Linking(u, c)
    <3>1. PICK u \in Threads : Linking(u, c) BY <2>3
    <3>2. u # t BY <1>1, <3>1 DEF Linking, At
    <3> QED BY <1>0, <3>1, <3>2, Linkers
  <2>4. CASE Pending(c) /\ EntryCount(c, node[c].npred)
    <3>1. ~Brought(t, c)
      <4>1. ~Notify(t) BY <1>1 DEF Notify, At
      <4> QED BY <1>c, <2>1, <4>1 DEF Brought
    <3>2. Pending(c)' BY <1>0, <2>2, <2>4, <3>1, PendingKept DEF Pending
    <3> QED BY <1>2, <2>2, <2>4, <3>2 DEF EntryCount
  <2> QED BY <2>1, <2>3, <2>4, NoEntries
<1>8. \A c \in Explicit : node'[c].live => node[c].live
  BY <1>1 DEF Tasks
<1> QED BY <1>0, <1>6, <1>7, <1>8, PredecessorsOf

LEMMA PredecessorsLink == ASSUME Inv, NEW t \in Threads, Link(t) PROVE Predecessors'
<1>0. Acts(t) /\ Stepped(t) /\ Predecessors /\ Typed BY SteppedOf, InvParts DEF Acts, Step
<1>c. PICK j, n, d : /\ j = Head(links[t].todo) /\ n = Fresh(Cur(t))
                     /\ d = IF node[j].live THEN 1 ELSE 0
  OBVIOUS
<1>1. /\ j \in Explicit /\ j \in Tasks /\ n \in Explicit /\ n \in Tasks /\ t \in Implicit
      /\ links'[t].n = links[t].n + d
      /\ node' = IF node[j].live THEN [node EXCEPT ![j].succ = <<n>> \o @] ELSE node
      /\ \A k \in Tasks : node'[k].live = node[k].live /\ node'[k].npred = node[k].npred
      /\ node[j].live => /\ node'[j].succ = <<n>> \o node[j].succ
                         /\ \A k \in Tasks : k # j => node'[k] = node[k]
      /\ UNCHANGED <<at, stack, pc>>
  BY <1>c, LinkTakes, Zenon DEF body
<1>2. At(t, "link") BY DEF Link
<1>3. Cur(t)' = Cur(t) /\ At(t, "link")' BY <1>0, <1>1, <1>2, StaysAt
<1>4. Linking(t, n) /\ Linking(t, n)' /\ \A c : Linking(t, c)' => c = n
  <2>1. \A k : Body(k)' = Body(k) BY <1>0, SameProgram
  <2>2. Fresh(Cur(t))' = Fresh(Cur(t)) BY <1>1, <1>3, <2>1 DEF Fresh, Body
  <2> QED BY <1>c, <1>2, <1>3, <2>2 DEF Linking
<1>5. \A u \in Threads : Linking(u, n) => u = t
  BY <1>4, OneLinker DEF Linking, InHand
<1>6. d = 0 => \A c : Entries(c)' = Entries(c)
  <2>1. d = 0 => ~node[j].live BY <1>c
  <2> QED BY <1>1, <2>1, SameEntries
<1>7. d # 0 => \E e : /\ e \notin Entries(n) /\ Entries(n)' = Entries(n) \cup {e}
                      /\ \A c : c # n => Entries(c)' = Entries(c)
  <2>1. d # 0 => node[j].live BY <1>c
  <2>2. d # 0 => \A k \in Tasks : k # j => node'[k].succ = node[k].succ BY <1>1, <2>1
  <2> QED BY <1>0, <1>1, <2>1, <2>2, EntryAdded
<1>8. \A c : c # n => Entries(c)' = Entries(c) BY <1>6, <1>7
<1>9. ASSUME NEW u \in Threads, NEW c \in Explicit, Linking(u, c)'
      PROVE  ~node'[c].live /\ EntryCount(c, node[c].npred + links[u].n + 1)'
  <2>1. CASE u = t
    <3>1. c = n BY <1>4, <1>9, <2>1
    <3>2. ~node[n].live /\ EntryCount(n, node[n].npred + links[t].n + 1) BY <1>0, <1>1, <1>4 DEF Predecessors
    <3>3. node[n].npred \in Int /\ links[t].n \in Int BY <1>0, <1>1 DEF Typed, NodeType, LinkType
    <3>4. IsFiniteSet(Entries(n)) /\ Cardinality(Entries(n)) = node[n].npred + links[t].n + 1
      BY <3>2 DEF EntryCount
    <3>5. IsFiniteSet(Entries(n)') /\ Cardinality(Entries(n)') = Cardinality(Entries(n)) + d
      <4>1. CASE d = 0 
        <5>1. Cardinality(Entries(n)) \in Int BY <3>3, <3>4
        <5> QED BY <1>6, <3>4, <4>1, <5>1
      <4>2. CASE d = 1
        <5>1. PICK e : e \notin Entries(n) /\ Entries(n)' = Entries(n) \cup {e} BY <1>7, <4>2
        <5> QED BY <3>4, <4>2, <5>1, FS_AddElement
      <4> QED BY <1>c, <4>1, <4>2
    <3>6. d \in {0, 1} BY <1>c
    <3>7. node'[n].npred + links'[t].n + 1 = Cardinality(Entries(n)) + d BY <1>1, <3>3, <3>4, <3>6
    <3> QED BY <1>1, <2>1, <3>1, <3>2, <3>5, <3>7 DEF EntryCount
  <2>2. CASE u # t
    <3>1. Linking(u, c) /\ links'[u] = links[u] BY <1>0, <1>9, <2>2, Linkers
    <3>2. c # n /\ c \in Tasks BY <1>5, <2>2, <3>1 DEF Tasks
    <3>3. ~node[c].live /\ EntryCount(c, node[c].npred + links[u].n + 1) BY <1>0, <3>1 DEF Predecessors
    <3> QED BY <1>1, <1>8, <3>1, <3>2, <3>3 DEF EntryCount
  <2> QED BY <2>1, <2>2
<1>10. ASSUME NEW c \in Explicit, Entries(c)' # {}
      PROVE  (\E u \in Threads : Linking(u, c)') \/ (Pending(c)' /\ EntryCount(c, node[c].npred)')
  <2>1. CASE c = n BY <1>4, <2>1
  <2>2. CASE c # n
    <3>0. c \in Tasks BY DEF Tasks
    <3>1. Entries(c) # {} /\ Entries(c)' = Entries(c) BY <1>8, <1>10, <2>2
    <3>2. CASE \E u \in Threads : Linking(u, c)
      <4>1. PICK u \in Threads : Linking(u, c) BY <3>2
      <4>2. u # t BY <1>4, <2>2, <4>1 DEF Linking
      <4> QED BY <1>0, <4>1, <4>2, Linkers
    <3>3. CASE Pending(c) /\ EntryCount(c, node[c].npred)
      <4>1. ~Brought(t, c) BY <1>2 DEF Brought, Alloc, Notify, At
      <4>2. Pending(c)' BY <1>0, <1>1, <3>0, <3>3, <4>1, PendingKept DEF Pending
      <4> QED BY <1>1, <3>0, <3>1, <3>3, <4>2 DEF EntryCount
    <3> QED BY <3>1, <3>2, <3>3, NoEntries
  <2> QED BY <2>1, <2>2
<1>11. \A c \in Explicit : node'[c].live => node[c].live BY <1>1 DEF Tasks
<1> QED BY <1>0, <1>9, <1>10, <1>11, PredecessorsOf

LEMMA PredecessorsSettle == ASSUME Inv, NEW t \in Threads, Settle(t) PROVE Predecessors'
<1>0. Acts(t) /\ Stepped(t) /\ Predecessors /\ Typed BY SteppedOf, InvParts DEF Acts, Step
<1>c. PICK n, left : n = Fresh(Cur(t)) /\ left = node[n].npred + links[t].n + 1 OBVIOUS
<1>1. /\ n \in Explicit /\ n \in Tasks /\ t \in Implicit /\ left \in Int /\ At(t, "link")
      /\ node'[n].npred = left /\ node'[n].live
      /\ \A k \in Tasks : node'[k].succ = node[k].succ
      /\ \A k \in Tasks : k # n => node'[k] = node[k]
      /\ Set(t, IF left > 0 THEN "run" ELSE "push")
      /\ UNCHANGED <<pc, status, stack, deque, loot, links>>
  BY <1>c, SettleTakes DEF queues
<1>2. \A c : Entries(c)' = Entries(c) BY <1>1, SameEntries
<1>3. PICK w \in {"run", "push"} : Set(t, w) /\ (left > 0 => w = "run") BY <1>1
<1>4. Cur(t)' = Cur(t) /\ At(t, w)' /\ \A v : At(t, v)' <=> v = w BY <1>0, <1>1, <1>3, TurnedTo
<1>5. \A c : ~Linking(t, c)' BY <1>4 DEF Linking
<1>6. Linking(t, n) /\ InHand(t, n) BY <1>c, <1>1 DEF Linking, InHand
<1>7. \A u \in Threads : InHand(u, n) => u = t BY <1>6, OneLinker
<1>8. status[n] = "created" BY <1>6, OneLinker
<1>9. EntryCount(n, left) BY <1>0, <1>c, <1>1, <1>6 DEF Predecessors
<1>10. ASSUME NEW u \in Threads, NEW c \in Explicit, Linking(u, c)'
      PROVE  ~node'[c].live /\ EntryCount(c, node[c].npred + links[u].n + 1)'
  <2>1. u # t BY <1>5, <1>10
  <2>2. Linking(u, c) /\ links'[u] = links[u] BY <1>0, <1>10, <2>1, Linkers
  <2>3. InHand(u, c) BY <2>2 DEF Linking, InHand
  <2>4. c # n /\ c \in Tasks BY <1>7, <2>1, <2>3 DEF Tasks
  <2>5. node'[c] = node[c] BY <1>1, <2>4
  <2>6. ~node[c].live /\ EntryCount(c, node[c].npred + links[u].n + 1) BY <1>0, <2>2 DEF Predecessors
  <2> QED BY <1>2, <2>2, <2>5, <2>6 DEF EntryCount
<1>11. ASSUME NEW c \in Explicit, Entries(c)' # {}
      PROVE  (\E u \in Threads : Linking(u, c)') \/ (Pending(c)' /\ EntryCount(c, node[c].npred)')
  <2>0. c \in Tasks /\ Entries(c) # {} BY <1>2, <1>11 DEF Tasks
  <2>1. CASE c = n
    <3>1. left > 0
      <4>1. IsFiniteSet(Entries(n)) /\ Cardinality(Entries(n)) = left BY <1>9 DEF EntryCount
      <4>2. Cardinality(Entries(n)) \in Nat BY <4>1, FS_CardinalityType
      <4>3. Cardinality(Entries(n)) # 0 BY <2>0, <2>1, <4>1, FS_EmptySet
      <4> QED BY <4>1, <4>2, <4>3
    <3>2. ~InHand(t, n)' BY <1>3, <1>4, <3>1 DEF InHand
    <3>3. \A u \in Threads : ~InHand(u, n)' BY <1>0, <1>7, <3>2, OtherHands
    <3>4. /\ \A q \in {0, 1}, u \in Implicit : n \notin Elems(deque[q][u].tasks)
          /\ \A u \in Threads : loot[u] # n
      <4>1. Lies(n, "hand", 0, t) BY <1>6 DEF Lies
      <4> QED BY <1>1, <4>1, OnlyPlace
    <3>5. ~Lying(n)'
      <4>1. SUFFICES ASSUME NEW x, NEW p, NEW u, Lies(n, x, p, u)' PROVE FALSE BY DEF Lying
      <4>2. Threads' = Threads /\ deque' = deque /\ loot' = loot BY <1>0, <1>1, SameProgram
      <4> QED BY <3>3, <3>4, <4>1, <4>2 DEF Lies, Elems
    <3>6. Pending(n)' BY <1>1, <1>8, <3>5 DEF Pending
    <3> QED BY <1>1, <1>2, <1>9, <2>1, <3>6 DEF EntryCount
  <2>2. CASE c # n
    <3>1. node'[c] = node[c] BY <1>1, <2>0, <2>2
    <3>2. CASE \E u \in Threads : Linking(u, c)
      <4>1. PICK u \in Threads : Linking(u, c) BY <3>2
      <4>2. u # t BY <1>c, <2>2, <4>1 DEF Linking
      <4> QED BY <1>0, <4>1, <4>2, Linkers
    <3>3. CASE Pending(c) /\ EntryCount(c, node[c].npred)
      <4>1. ~Brought(t, c) BY <1>1 DEF Brought, Alloc, Notify, At
      <4>2. Pending(c)' BY <1>0, <3>1, <3>3, <4>1, PendingKept DEF Pending
      <4> QED BY <1>2, <3>1, <3>3, <4>2 DEF EntryCount
    <3> QED BY <2>0, <3>2, <3>3, NoEntries
  <2> QED BY <2>1, <2>2
<1>12. \A c \in Explicit : node'[c].live => node[c].live \/ status'[c] # "none"
  BY <1>1, <1>8 DEF Tasks
<1> QED BY <1>0, <1>10, <1>11, <1>12, PredecessorsOf

LEMMA PredecessorsNotify == ASSUME Inv, NEW t \in Threads, Notify(t) PROVE Predecessors'
<1>0. Acts(t) /\ Stepped(t) /\ Predecessors /\ Typed /\ Shape BY SteppedOf, InvParts DEF Acts, Step
<1>c. PICK k, s : k = Cur(t) /\ s = Head(node[k].succ) OBVIOUS
<1>1. /\ t \in Implicit /\ k \in Tasks /\ at[k] = "notify" /\ s \in Explicit /\ s \in Tasks
      /\ node[k].succ # <<>> /\ <<k, Len(node[k].succ)>> \in Entries(s)
      /\ UNCHANGED <<pc, at, climb, links>>
      /\ \/ Submit(t, s) /\ status[s] = "created"
         \/ UNCHANGED <<deque, stack, status>>
  BY <1>c, Notifies DEF counters
<1>2. /\ node'[s].npred = node[s].npred - 1 /\ node'[k].succ = Tail(node[k].succ)
      /\ \A j \in Tasks : j # s => node'[j].npred = node[j].npred
      /\ \A j \in Tasks : j # k => node'[j].succ = node[j].succ
      /\ \A j \in Tasks : node'[j].live = node[j].live
  BY <1>c, NotifyNodes
<1>3. PICK e : /\ e \in Entries(s) /\ Entries(s)' = Entries(s) \ {e}
               /\ \A c : c # s => Entries(c)' = Entries(c)
  <2>1. node[k].succ # <<>> /\ k \in Tasks BY <1>1
  <2>2. node'[k].succ = Tail(node[k].succ) /\ \A j \in Tasks : j # k => node'[j].succ = node[j].succ BY <1>2
  <2>3. s = Head(node[k].succ) /\ Typed BY <1>0, <1>c
  <2> QED BY <2>1, <2>2, <2>3, EntryDropped
<1>4. ~At(t, "link") BY <1>c, <1>1 DEF At
<1>5. ~At(t, "link")'
  <2>1. (Invoke(t, s) /\ status[s] = "created") \/ stack' = stack BY <1>0, <1>1, Submitted
  <2>2. CASE Invoke(t, s) /\ status[s] = "created" BY <1>0, <1>c, <1>1, <2>2, InvokesAt
  <2>3. CASE stack' = stack BY <1>0, <1>1, <1>4, <2>3, StaysAt
  <2> QED BY <2>1, <2>2, <2>3
<1>6. \A u \in Threads : \A c : Linking(u, c)' <=> Linking(u, c)
  BY <1>0, <1>4, <1>5, Linkers DEF Linking
<1>7. \A n \in Int : EntryCount(s, n) => IsFiniteSet(Entries(s)') /\ Cardinality(Entries(s)') = n - 1
  BY <1>3, FS_RemoveElement DEF EntryCount
<1>8. \A j \in Tasks : node[j].npred \in Int BY <1>0 DEF Typed, NodeType
<1>9. ASSUME NEW u \in Threads, NEW c \in Explicit, Linking(u, c)'
      PROVE  ~node'[c].live /\ EntryCount(c, node[c].npred + links[u].n + 1)'
  <2>1. Linking(u, c) /\ links' = links /\ c \in Tasks BY <1>1, <1>6, <1>9 DEF Tasks
  <2>2. ~node[c].live /\ EntryCount(c, node[c].npred + links[u].n + 1) BY <1>0, <2>1 DEF Predecessors
  <2>3. ~node'[c].live BY <1>2, <2>1, <2>2
  <2>4. CASE c = s
    <3>1. links[u].n \in Int
      <4>1. u \in Implicit BY <1>0, Tops
      <4> QED BY <1>0, <4>1 DEF Typed, LinkType
    <3>2. PICK n \in Int : n = node[s].npred + links[u].n + 1 BY <1>1, <1>8, <3>1
    <3>3. IsFiniteSet(Entries(s)') /\ Cardinality(Entries(s)') = n - 1
      BY <1>7, <2>2, <2>4, <3>2
    <3>4. n - 1 = node'[s].npred + links'[u].n + 1
      BY <1>1, <1>2, <1>8, <3>1, <3>2
    <3> QED BY <2>3, <2>4, <3>3, <3>4 DEF EntryCount
  <2>5. CASE c # s
    <3>1. Entries(c)' = Entries(c) /\ node'[c].npred = node[c].npred BY <1>2, <1>3, <2>1, <2>5
    <3> QED BY <2>1, <2>2, <2>3, <3>1 DEF EntryCount
  <2> QED BY <2>4, <2>5
<1>10. ASSUME NEW c \in Explicit, Entries(c)' # {}
      PROVE  (\E u \in Threads : Linking(u, c)') \/ (Pending(c)' /\ EntryCount(c, node[c].npred)')
  <2>0. c \in Tasks /\ Entries(c) # {} BY <1>3, <1>10 DEF Tasks
  <2>1. CASE \E u \in Threads : Linking(u, c) BY <1>6, <2>1
  <2>2. CASE Pending(c) /\ EntryCount(c, node[c].npred)
    <3>1. IsFiniteSet(Entries(c)') /\ Cardinality(Entries(c)') = node'[c].npred
      <4>1. CASE c = s BY <1>1, <1>2, <1>7, <1>8, <2>2, <4>1
      <4>2. CASE c # s
        <5>1. Entries(c)' = Entries(c) /\ node'[c].npred = node[c].npred BY <1>2, <1>3, <2>0, <4>2
        <5> QED BY <2>2, <5>1 DEF EntryCount
      <4> QED BY <4>1, <4>2
    <3>2. ~Brought(t, c)
      <4>1. SUFFICES ASSUME c = s, node[s].npred - 1 = 0 PROVE FALSE
        BY <1>c, <1>1 DEF Brought, Alloc, At
      <4>2. Cardinality(Entries(s)') = 0 /\ IsFiniteSet(Entries(s)') BY <1>2, <3>1, <4>1
      <4>3. Entries(s)' = {} BY <4>2, FS_EmptySet
      <4> QED BY <1>10, <4>1, <4>3
    <3>3. Pending(c)' BY <1>0, <1>2, <2>0, <2>2, <3>2, PendingKept DEF Pending
    <3> QED BY <3>1, <3>3 DEF EntryCount
  <2> QED BY <2>0, <2>1, <2>2, NoEntries
<1>11. \A c \in Explicit : node'[c].live => node[c].live BY <1>2 DEF Tasks
<1> QED BY <1>0, <1>9, <1>10, <1>11, PredecessorsOf

\* Only tasks with dependences are linked.
LEMMA NotLinking ==
    ASSUME Inv, NEW t \in Threads, Acts(t), ~Alloc(t), ~Depend(t), ~Link(t), ~Settle(t)
    PROVE  ~At(t, "link") /\ ~At(t, "link")'
<1>0. Stepped(t) /\ Typed /\ Shape /\ t \in Implicit BY SteppedOf, InvParts, Tops
<1>b. \A w : At(t, w)' => \A v : At(t, v)' <=> v = w
  BY <1>0, AtNext, SameProgram DEF Stepped, Stacks
<1>1. CASE \/ Open(t) \/ Forget(t) \/ TaskWait(t) \/ EndGroup(t) \/ Arrive(t) \/ Leave(t)
           \/ Spent(t) \/ Finish(t) \/ LeaveGroup(t) \/ FreeHash(t) \/ ReleaseNode(t) \/ Notified(t) \/ FreeAncestors(t)
           \/ \E v \in Threads : RobNothing(t, v)
  <2>1. PICK w \in Quiet : At(t, w)' BY <1>0, <1>1, Quietly
  <2>2. ~At(t, "link")' BY <1>b, <2>1 DEF Quiet
  <2>3. ~At(t, "link")
    <3>1. CASE Forget(t) BY <3>1 DEF Forget, Waits, InPhase, At
    <3>2. CASE Open(t) \/ TaskWait(t) \/ EndGroup(t) \/ Arrive(t) \/ Leave(t) \/ Spent(t) \/ Finish(t)
      BY <3>2 DEF Open, TaskWait, EndGroup, Arrive, Leave, InPhase, Spent, Finish, At
    <3>3. CASE LeaveGroup(t) \/ FreeHash(t) \/ ReleaseNode(t) \/ Notified(t) \/ FreeAncestors(t) \/ \E v \in Threads : RobNothing(t, v)
      BY <3>3 DEF LeaveGroup, FreeHash, ReleaseNode, Notified, FreeAncestors, RobNothing, At
    <3> QED BY <1>1, <3>1, <3>2, <3>3
  <2> QED BY <2>2, <2>3
<1>2. CASE Push(t)
  <2>0. PICK c : c = Fresh(Cur(t)) OBVIOUS
  <2>1. /\ At(t, "push") /\ c \in Explicit /\ status[c] = "created" /\ status[Cur(t)] = "running"
        /\ Submit(t, c) /\ Set(t, "run") /\ UNCHANGED <<pc, climb>>
    BY <1>2, <2>0, PushTakes DEF counters
  <2>2. Invoke(t, c) \/ stack' = stack BY <1>0, <2>1, Submitted
  <2>3. At(t, "run")'
    <3>1. CASE Invoke(t, c) BY <1>0, <2>1, <3>1, InvokesAt DEF Set
    <3>2. CASE stack' = stack BY <1>0, <2>1, <3>2, TurnedTo
    <3> QED BY <2>2, <3>1, <3>2
  <2> QED BY <1>b, <2>1, <2>3 DEF At
<1>3. CASE Notify(t)
  <2>0. PICK s : s = Head(node[Cur(t)].succ) OBVIOUS
  <2>1. /\ at[Cur(t)] = "notify" /\ s \in Explicit /\ UNCHANGED <<pc, at, climb>>
        /\ \/ Submit(t, s) /\ status[s] = "created"
           \/ UNCHANGED <<deque, stack, status>>
    BY <1>3, <2>0, Notifies DEF counters
  <2>a. At(t, "notify") BY <1>3 DEF Notify
  <2>2. (Invoke(t, s) /\ status[s] = "created") \/ stack' = stack BY <1>0, <2>1, Submitted
  <2>3. At(t, "run")' \/ At(t, "notify")'
    <3>1. CASE Invoke(t, s) /\ status[s] = "created" BY <1>0, <2>1, <3>1, InvokesAt
    <3>2. CASE stack' = stack BY <1>0, <2>a, <2>1, <3>2, StaysAt
    <3> QED BY <2>2, <3>1, <3>2
  <2> QED BY <1>b, <2>a, <2>3 DEF At
<1>4. CASE Own(t)
  <2>0. PICK p \in {0, 1} : p = mine[t] BY <1>4, OwnTakes
  <2>1. PICK k : k = Last(deque[p][t].tasks) OBVIOUS
  <2>2. /\ At(t, "run") /\ UNCHANGED <<pc, climb>>
        /\ \/ Invoke(t, k) /\ k \in Explicit /\ status[k] = "created" /\ at' = at
           \/ Set(t, "rob") /\ UNCHANGED <<stack, deque, status>>
    BY <1>4, <2>0, <2>1, OwnTakes
  <2>3. at[Cur(t)] = "run" BY <2>2 DEF At
  <2>4. At(t, "run")' \/ At(t, "rob")'
    <3>1. CASE Invoke(t, k) /\ k \in Explicit /\ status[k] = "created" /\ at' = at
      BY <1>0, <2>2, <2>3, <3>1, InvokesAt
    <3>2. CASE Set(t, "rob") /\ UNCHANGED <<stack, deque, status>> BY <1>0, <3>2, TurnedTo
    <3> QED BY <2>2, <3>1, <3>2
  <2> QED BY <1>b, <2>2, <2>4 DEF At
<1>5. CASE Robbed(t)
  <2>0. PICK k : k = loot[t] OBVIOUS
  <2>1. /\ k \in Explicit /\ status[k] = "created" /\ Invoke(t, k) /\ Set(t, "run")
        /\ UNCHANGED <<pc, climb>> /\ At(t, "robbed")
    BY <1>5, <2>0, RobbedTakes DEF counters
  <2>2. status[Cur(t)] = "running" BY <1>0, <2>1, InvParts, CurFits DEF Busy
  <2>3. At(t, "run")' BY <1>0, <2>1, <2>2, InvokesAt DEF Set
  <2> QED BY <1>b, <2>1, <2>3 DEF At
<1>6. CASE \E v \in Threads : Rob(t, v)
  <2>0. PICK v \in Threads : Rob(t, v) BY <1>6
  <2>1. At(t, "rob") /\ Set(t, "robbed") /\ stack' = stack BY <2>0, RobTakes
  <2>2. At(t, "robbed")' BY <1>0, <2>1, TurnedTo
  <2> QED BY <1>b, <2>1, <2>2 DEF At
<1> QED BY <1>1, <1>2, <1>3, <1>4, <1>5, <1>6 DEF Acts, Step

LEMMA PredecessorsDepend == ASSUME Inv, NEW t \in Threads, Depend(t) PROVE Predecessors'
<1>0. Acts(t) /\ Stepped(t) /\ Typed /\ Shape BY SteppedOf, InvParts DEF Acts, Step
<1>1. UNCHANGED <<at, stack, pc, node>> /\ At(t, "link") BY DEF Depend, body
<1>2. Cur(t)' = Cur(t) /\ At(t, "link")' BY <1>0, <1>1, StaysAt
<1>3. links'[t].n = links[t].n
  <2>1. t \in Implicit /\ links \in [Implicit -> LinkType] BY <1>0, Tops DEF Typed
  <2>2. links[t] \in LinkType BY <2>1
  <2>3. PICK s, m : links' = [links EXCEPT ![t].todo = s, ![t].next = m] \/ links' = [links EXCEPT ![t].next = m]
    BY DEF Depend
  <2>4. [links EXCEPT ![t].todo = s, ![t].next = m][t].n = links[t].n
    BY <2>1, <2>2 DEF LinkType
  <2>5. [links EXCEPT ![t].next = m][t].n = links[t].n
    BY <2>1, <2>2 DEF LinkType
  <2> QED BY <2>3, <2>4, <2>5
<1>4. LinkSame(t) BY <1>1, <1>2, <1>3 DEF LinkSame
<1>5. ~Alloc(t) /\ ~Notify(t) BY <1>1 DEF Alloc, Notify, At
<1> QED BY <1>0, <1>1, <1>4, <1>5, PredecessorsKept

LEMMA PredecessorsRelease == ASSUME Inv, NEW t \in Threads, ReleaseNode(t) PROVE Predecessors'
<1>0. Acts(t) /\ Stepped(t) /\ Predecessors /\ Typed BY SteppedOf, InvParts DEF Acts, Step
<1>c. PICK k : k = Cur(t) OBVIOUS
<1>1. /\ k \in Explicit /\ k \in Tasks /\ status[k] = "complete" /\ ~node'[k].live
      /\ \A j \in Tasks : node'[j].succ = node[j].succ /\ node'[j].npred = node[j].npred
      /\ \A j \in Tasks : j # k => node'[j] = node[j]
  BY <1>c, ReleaseTakes
<1>2. \A c : Entries(c)' = Entries(c) BY <1>1, SameEntries
<1>3. At(t, "release") BY DEF ReleaseNode
<1>4. ~Alloc(t) /\ ~Depend(t) /\ ~Link(t) /\ ~Settle(t) /\ ~Notify(t)
  BY <1>3 DEF Alloc, Depend, Link, Settle, Notify, At
<1>5. ~At(t, "link") /\ ~At(t, "link")' BY <1>0, <1>4, NotLinking
<1>6. \A u \in Threads : /\ \A c : Linking(u, c)' <=> Linking(u, c)
                         /\ \A c : Linking(u, c) => links'[u].n = links[u].n
  BY <1>0, <1>5, LinkKept DEF LinkSame, Linking
<1>7. ASSUME NEW u \in Threads, NEW c \in Explicit, Linking(u, c)'
      PROVE  ~node'[c].live /\ EntryCount(c, node[c].npred + links[u].n + 1)'
  <2>1. Linking(u, c) /\ links'[u].n = links[u].n /\ c \in Tasks BY <1>6, <1>7 DEF Tasks
  <2>2. ~node[c].live /\ EntryCount(c, node[c].npred + links[u].n + 1) BY <1>0, <2>1 DEF Predecessors
  <2>3. ~node'[c].live BY <1>1, <2>1, <2>2
  <2> QED BY <1>1, <1>2, <2>1, <2>2, <2>3 DEF EntryCount
<1>8. ASSUME NEW c \in Explicit, Entries(c)' # {}
      PROVE  (\E u \in Threads : Linking(u, c)') \/ (Pending(c)' /\ EntryCount(c, node[c].npred)')
  <2>1. c \in Tasks /\ Entries(c) # {} /\ status[c] = "created" BY <1>2, <1>8, NoEntries DEF Tasks
  <2>2. c # k BY <1>1, <2>1
  <2>3. node'[c] = node[c] BY <1>1, <2>1, <2>2
  <2>4. CASE \E u \in Threads : Linking(u, c) BY <1>6, <2>4
  <2>5. CASE Pending(c) /\ EntryCount(c, node[c].npred)
    <3>1. ~Brought(t, c) BY <1>4 DEF Brought
    <3>2. Pending(c)' BY <1>0, <2>3, <2>5, <3>1, PendingKept DEF Pending
    <3> QED BY <1>2, <2>3, <2>5, <3>2 DEF EntryCount
  <2> QED BY <2>1, <2>4, <2>5, NoEntries
<1>9. \A c \in Explicit : node'[c].live => node[c].live BY <1>1 DEF Tasks
<1> QED BY <1>0, <1>7, <1>8, <1>9, PredecessorsOf

LEMMA PredecessorsStep == ASSUME Inv, NEW t \in Threads, Acts(t) PROVE Predecessors'
<1>1. CASE Alloc(t) \/ Depend(t) \/ Link(t) \/ Settle(t) \/ Notify(t) \/ ReleaseNode(t)
  BY <1>1, PredecessorsAlloc, PredecessorsDepend, PredecessorsLink, PredecessorsSettle, PredecessorsNotify,
     PredecessorsRelease
<1>2. CASE ~(Alloc(t) \/ Depend(t) \/ Link(t) \/ Settle(t) \/ Notify(t) \/ ReleaseNode(t))
  <2>1. LinkSame(t) BY <1>2, NotLinking DEF LinkSame
  <2>2. node' = node
    <3>1. CASE Push(t) \/ Open(t) \/ Forget(t) \/ Own(t) \/ Robbed(t) \/ Spent(t) \/ TaskWait(t) \/ EndGroup(t)
      BY <3>1 DEF Push, Open, Forget, Own, Robbed, Spent, TaskWait, EndGroup, deps
    <3>2. CASE Finish(t) \/ LeaveGroup(t) \/ FreeHash(t) \/ Notified(t) \/ FreeAncestors(t) \/ Arrive(t) \/ Leave(t)
      BY <3>2 DEF Finish, LeaveGroup, FreeHash, Notified, FreeAncestors, Arrive, Leave, deps
    <3>3. CASE \E v \in Threads : Rob(t, v) \/ RobNothing(t, v) BY <3>3 DEF Rob, RobNothing, deps
    <3> QED BY <1>2, <3>1, <3>2, <3>3 DEF Acts, Step
  <2> QED BY <1>2, <2>1, <2>2, PredecessorsKept
<1> QED BY <1>1, <1>2

LEMMA PredecessorsMaster == ASSUME Inv, Master \/ UNCHANGED vars PROVE Predecessors'
<1>0. Typed /\ Predecessors BY InvParts
<1>1. UNCHANGED <<prog, at, stack, status, node, links>>
  BY DEF Master, Gathered, Drained, ReleaseAll, vars, body, deps
<1>2. Threads' = Threads /\ (\A k : Body(k)' = Body(k)) /\ \A u, w : At(u, w)' <=> At(u, w)
  BY <1>1 DEF Threads, At, Cur, Body
<1>3. \A u \in Threads : At(u, "link") => pc'[Cur(u)] = pc[Cur(u)]
  <2>1. CASE Master
    <3>1. /\ 0 \in Threads /\ Cur(0) = 0 /\ At(0, "run")
          /\ pc' = pc \/ pc' = [pc EXCEPT ![0] = @ + 1]
      BY <2>1, MasterKeeps
    <3>2. SUFFICES ASSUME NEW u \in Threads, At(u, "link") PROVE pc'[Cur(u)] = pc[Cur(u)] OBVIOUS
    <3>3. u # 0 BY <3>1, <3>2 DEF At
    <3>4. Cur(u) # 0 /\ Cur(u) \in Tasks BY <3>1, <3>3, InvParts, Tops
    <3> QED BY <1>0, <3>1, <3>4 DEF Typed
  <2>2. CASE UNCHANGED vars BY <2>2 DEF vars, body
  <2> QED BY <2>1, <2>2
<1>4. \A u : Cur(u)' = Cur(u) BY <1>1 DEF Cur
<1>5. \A u \in Threads : At(u, "link") => Fresh(Cur(u))' = Fresh(Cur(u))
  BY <1>2, <1>3, <1>4 DEF Fresh, Body
<1>6. \A u \in Threads : \A c : Linking(u, c)' <=> Linking(u, c) BY <1>2, <1>5 DEF Linking
<1>7. \A c : Entries(c)' = Entries(c) BY <1>1, SameEntries
<1>8. \A c : Pending(c)' <=> Pending(c) BY <1>1, InOnePlaceMaster DEF Pending
<1>9. \A u \in Threads : \A c \in Explicit : Linking(u, c)' =>
               ~node'[c].live /\ EntryCount(c, node[c].npred + links[u].n + 1)'
  BY <1>0, <1>1, <1>6, <1>7 DEF Predecessors, EntryCount
<1>10. \A c \in Explicit : Entries(c)' # {} =>
               (\E u \in Threads : Linking(u, c)') \/ (Pending(c)' /\ EntryCount(c, node[c].npred)')
  BY <1>0, <1>1, <1>6, <1>7, <1>8 DEF Predecessors, EntryCount
<1>11. \A c \in Explicit : status'[c] = "none" => ~node'[c].live BY <1>0, <1>1 DEF Predecessors
<1> QED BY <1>2, <1>9, <1>10, <1>11 DEF Predecessors
---------------------------------------------------------------------------
(* How tasks go on, and where they were spawned.                           *)

\* What a thread does but for the references it drops: it stays, turns or invokes a task.
LEMMA Course ==
    ASSUME NEW t, Stepped(t), ~FreeAncestors(t)
    PROVE  /\ ~At(t, "climb")
           /\ \/ UNCHANGED <<stack, at>>
              \/ /\ stack' = stack
                 /\ \E w : Set(t, w) /\ (w = "climb" => Finish(t) \/ LeaveGroup(t) \/ FreeHash(t) \/ Notified(t))
              \/ \E k \in Explicit : status[k] = "created" /\ Invoke(t, k) /\ Cur(t)' = k /\ At(t, "run")'
<1>0. Inv /\ t \in Threads /\ Acts(t) /\ Typed /\ t \in Implicit BY InvParts, Tops DEF Stepped
<1>1. CASE Open(t) \/ Forget(t) \/ TaskWait(t) \/ EndGroup(t) \/ Arrive(t) \/ Leave(t) \/ Depend(t) \/ Link(t)
  <2>1. ~At(t, "climb")
    <3>1. CASE Forget(t) BY <3>1 DEF Forget, Waits, InPhase, At
    <3> QED BY <1>1, <3>1, Zenon DEF Open, TaskWait, EndGroup, Arrive, Leave, InPhase, Depend, Link, At
  <2> QED BY <1>1, <2>1, Zenon DEF Open, Forget, TaskWait, EndGroup, Arrive, Leave, Depend, Link, body
<1>2. CASE Alloc(t) \/ Settle(t) \/ Spent(t) \/ ReleaseNode(t) \/ \E v \in Threads : Rob(t, v) \/ RobNothing(t, v)
  <2>1. PICK w \in {"run", "link", "push", "notify", "robbed", "spent"} : Set(t, w)
    BY <1>2 DEF Alloc, Settle, Spent, ReleaseNode, Rob, RobNothing, GoesOn
  <2>2. w # "climb" BY <2>1
  <2> QED BY <1>2, <2>1, <2>2 DEF Alloc, Settle, Spent, ReleaseNode, Rob, RobNothing, At
<1>3. CASE Finish(t) \/ LeaveGroup(t) \/ FreeHash(t) \/ Notified(t)
  <2>1. \E w : Set(t, w) BY <1>3 DEF Finish, LeaveGroup, FreeHash, Notified
  <2>2. stack' = stack /\ ~At(t, "climb") BY <1>3 DEF Finish, LeaveGroup, FreeHash, Notified, At
  <2> QED BY <1>3, <2>1, <2>2
<1>4. CASE Push(t)
  <2>0. PICK c : c = Fresh(Cur(t)) OBVIOUS
  <2>1. /\ At(t, "push") /\ c \in Explicit /\ status[c] = "created" /\ status[Cur(t)] = "running"
        /\ Submit(t, c) /\ Set(t, "run") /\ UNCHANGED <<pc, climb>>
    BY <1>0, <1>4, <2>0, PushTakes DEF counters
  <2>2. CASE Invoke(t, c)
    <3>1. At(t, "run")' /\ Cur(t)' = c BY <1>0, <2>1, <2>2, InvokesAt DEF Set
    <3> QED BY <2>1, <2>2, <3>1 DEF At
  <2>3. CASE stack' = stack BY <2>1, <2>3 DEF At
  <2> QED BY <1>0, <2>1, <2>2, <2>3, Submitted
<1>5. CASE Notify(t)
  <2>0. PICK s : s = Head(node[Cur(t)].succ) OBVIOUS
  <2>1. /\ at[Cur(t)] = "notify" /\ s \in Explicit /\ UNCHANGED <<pc, at, climb>>
        /\ \/ Submit(t, s) /\ status[s] = "created"
           \/ UNCHANGED <<deque, stack, status>>
    BY <1>0, <1>5, <2>0, Notifies DEF counters
  <2>a. At(t, "notify") BY <1>5 DEF Notify
  <2>2. (Invoke(t, s) /\ status[s] = "created") \/ stack' = stack BY <1>0, <2>1, Submitted
  <2>3. CASE Invoke(t, s) /\ status[s] = "created"
    <3>1. At(t, "run")' /\ Cur(t)' = s BY <1>0, <2>1, <2>3, InvokesAt
    <3> QED BY <2>a, <2>1, <2>3, <3>1 DEF At
  <2>4. CASE stack' = stack BY <2>a, <2>1, <2>4 DEF At
  <2> QED BY <2>2, <2>3, <2>4
<1>6. CASE Own(t)
  <2>0. PICK p \in {0, 1} : p = mine[t] BY <1>0, <1>6, OwnTakes
  <2>1. PICK k : k = Last(deque[p][t].tasks) OBVIOUS
  <2>2. /\ At(t, "run") /\ UNCHANGED <<pc, climb>>
        /\ \/ Invoke(t, k) /\ k \in Explicit /\ status[k] = "created" /\ at' = at
           \/ Set(t, "rob") /\ UNCHANGED <<stack, deque, status>>
    BY <1>0, <1>6, <2>0, <2>1, OwnTakes DEF counters
  <2>3. at[Cur(t)] = "run" /\ ~At(t, "climb") BY <2>2 DEF At
  <2>4. CASE Invoke(t, k) /\ k \in Explicit /\ status[k] = "created" /\ at' = at
    <3>1. At(t, "run")' /\ Cur(t)' = k BY <1>0, <2>2, <2>3, <2>4, InvokesAt
    <3> QED BY <2>3, <2>4, <3>1
  <2>5. CASE Set(t, "rob") /\ UNCHANGED <<stack, deque, status>> BY <2>3, <2>5
  <2> QED BY <2>2, <2>4, <2>5
<1>7. CASE Robbed(t)
  <2>0. PICK k : k = loot[t] OBVIOUS
  <2>1. /\ k \in Explicit /\ status[k] = "created" /\ Invoke(t, k) /\ Set(t, "run")
        /\ UNCHANGED <<pc, climb>> /\ At(t, "robbed")
    BY <1>0, <1>7, <2>0, RobbedTakes DEF counters
  <2>2. status[Cur(t)] = "running" BY <1>0, <2>1, InvParts, CurFits DEF Busy
  <2>3. At(t, "run")' /\ Cur(t)' = k BY <1>0, <2>1, <2>2, InvokesAt DEF Set
  <2> QED BY <2>1, <2>3 DEF At
<1> QED BY <1>0, <1>1, <1>2, <1>3, <1>4, <1>5, <1>6, <1>7 DEF Acts, Step

\* How the states of tasks change.
StatusMoves(t, c) ==
    \/ status'[c] = status[c]
    \/ Alloc(t) /\ c = Arg(Cur(t)) /\ status[c] = "none" /\ status'[c] = "created"
    \/ status[c] = "created" /\ status'[c] = "running" /\ ~Finish(t) /\ ~FreeAncestors(t) /\ ~Alloc(t)
    \/ Finish(t) /\ c = Cur(t) /\ status[c] = "running" /\ status'[c] = "complete"
    \/ FreeAncestors(t) /\ c = climb[t] /\ refs[c] = 1 /\ status[c] = "complete" /\ status'[c] = "freed"

LEMMA StatusOf ==
    ASSUME Inv, NEW t \in Threads, Acts(t), NEW c \in Tasks PROVE StatusMoves(t, c)
<1>0. Typed /\ Shape /\ t \in Implicit /\ Cur(t) \in Tasks BY InvParts, Tops
<1>1. CASE Alloc(t)
  <2>1. PICK d : d = Arg(Cur(t)) OBVIOUS
  <2>2. status[d] = "none" /\ status'[d] = "created" /\ \A j \in Tasks : j # d => status'[j] = status[j]
    BY <1>1, <2>1, AllocTakes
  <2> QED BY <1>1, <2>1, <2>2 DEF StatusMoves
<1>2. CASE Finish(t)
  <2>1. status' = [status EXCEPT ![Cur(t)] = "complete"] /\ At(t, "run") BY <1>2 DEF Finish
  <2>2. status[Cur(t)] = "running" BY <1>0, <2>1, InvParts, CurFits DEF Busy
  <2>3. status'[Cur(t)] = "complete" /\ (c # Cur(t) => status'[c] = status[c]) BY <1>0, <2>1 DEF Typed
  <2> QED BY <1>2, <2>2, <2>3 DEF StatusMoves
<1>3. CASE FreeAncestors(t)
  <2>0. At(t, "climb") BY <1>3 DEF FreeAncestors
  <2>1. PICK d : d = climb[t] OBVIOUS
  <2>2. IF refs[d] = 1 THEN status'[d] = "freed" /\ \A k \in Tasks : k # d => status'[k] = status[k]
        ELSE status' = status
    BY <1>3, <2>1, Frees
  <2>3. refs[d] = 1 => status[d] = "complete" BY <2>0, <2>1, LastReference
  <2> QED BY <1>3, <2>1, <2>2, <2>3 DEF StatusMoves
<1>4. CASE ~Alloc(t) /\ ~Finish(t) /\ ~FreeAncestors(t)
  <2>1. status' = status \/ \E k \in Explicit : Invoke(t, k) /\ status[k] = "created"
    <3>1. CASE Open(t) \/ Forget(t) \/ TaskWait(t) \/ EndGroup(t) \/ Arrive(t) \/ Leave(t)
      BY <3>1 DEF Open, Forget, TaskWait, EndGroup, Arrive, Leave, body
    <3>2. CASE Depend(t) \/ Link(t) \/ Settle(t) \/ Spent(t) \/ LeaveGroup(t) \/ FreeHash(t) \/ ReleaseNode(t) \/ Notified(t)
      BY <3>2, Zenon DEF Depend, Link, Settle, Spent, LeaveGroup, FreeHash, ReleaseNode, Notified, body
    <3>3. CASE \E v \in Threads : Rob(t, v) \/ RobNothing(t, v) BY <3>3 DEF Rob, RobNothing
    <3>4. CASE Push(t)
      <4>0. PICK k : k = Fresh(Cur(t)) OBVIOUS
      <4>1. k \in Explicit /\ status[k] = "created" /\ Submit(t, k) BY <3>4, <4>0, PushTakes
      <4> QED BY <1>0, <4>1, Submitted
    <3>5. CASE Notify(t)
      <4>0. PICK s : s = Head(node[Cur(t)].succ) OBVIOUS
      <4>1. s \in Explicit /\ ((Submit(t, s) /\ status[s] = "created") \/ status' = status)
        BY <3>5, <4>0, Notifies
      <4> QED BY <1>0, <4>1, Submitted
    <3>6. CASE Own(t) BY <3>6, OwnTakes
    <3>7. CASE Robbed(t) BY <3>7, RobbedTakes
    <3> QED BY <1>4, <3>1, <3>2, <3>3, <3>4, <3>5, <3>6, <3>7 DEF Acts, Step
  <2>2. CASE \E k \in Explicit : Invoke(t, k) /\ status[k] = "created"
    <3>1. PICK k \in Explicit : Invoke(t, k) /\ status[k] = "created" BY <2>2
    <3>2. k \in Tasks BY DEF Tasks
    <3>3. status'[k] = "running" /\ (c # k => status'[c] = status[c]) BY <1>0, <3>1, <3>2 DEF Invoke, Typed
    <3> QED BY <1>4, <3>1, <3>3 DEF StatusMoves
  <2> QED BY <2>1, <2>2 DEF StatusMoves
<1> QED BY <1>1, <1>2, <1>3, <1>4

\* Positions only advance.
LEMMA PcGrows ==
    ASSUME Inv, NEW t \in Threads, Acts(t), NEW k \in Tasks
    PROVE  pc'[k] = pc[k] \/ (pc'[k] = pc[k] + 1 /\ k = Cur(t))
<1>0. Typed /\ Shape /\ Cur(t) \in Tasks BY InvParts, Tops
<1>1. CASE Alloc(t) \/ Open(t) \/ TaskWait(t) \/ EndGroup(t)
  <2>1. pc' = [pc EXCEPT ![Cur(t)] = @ + 1] BY <1>1 DEF Alloc, Open, TaskWait, EndGroup
  <2> QED BY <1>0, <2>1, PcMoves
<1>2. CASE Leave(t)
  <2>1. pc' = [pc EXCEPT ![Cur(t)] = @ + 1] BY <1>2 DEF Leave, Sync, InPhase
  <2> QED BY <1>0, <2>1, PcMoves
<1>3. CASE Depend(t) \/ Link(t) \/ Settle(t) \/ Push(t) \/ Forget(t) \/ Own(t) \/ Robbed(t) \/ Spent(t)
  BY <1>3, Zenon DEF Depend, Link, Settle, Push, Forget, Own, Robbed, Spent, body
<1>4. CASE Finish(t) \/ LeaveGroup(t) \/ FreeHash(t) \/ ReleaseNode(t) \/ Notify(t) \/ Notified(t) \/ FreeAncestors(t) \/ Arrive(t)
  BY <1>4 DEF Finish, LeaveGroup, FreeHash, ReleaseNode, Notify, Notified, FreeAncestors, Arrive, body
<1>5. CASE \E v \in Threads : Rob(t, v) \/ RobNothing(t, v) BY <1>5 DEF Rob, RobNothing
<1> QED BY <1>1, <1>2, <1>3, <1>4, <1>5 DEF Acts, Step

LEMMA SpawningKept ==
    ASSUME Inv, prog' = prog, \A k \in Tasks : pc'[k] = pc[k] \/ pc'[k] = pc[k] + 1,
           NEW c \in Explicit, status[c] # "none"
    PROVE  SpawnedBefore(c)' /\ (Spawner(c) # c)'
<1>1. SpawnedBefore(c) /\ Spawner(c) # c BY InvParts DEF Spawning
<1>2. PICK p \in Tasks : \E i \in 1 .. pc[p] - 1 : Is(Body(p), i, "task", c) BY <1>1 DEF SpawnedBefore
<1>3. PICK i \in 1 .. pc[p] - 1 : Is(Body(p), i, "task", c) BY <1>2
<1>4. pc[p] \in Nat BY InvParts DEF Typed
<1>5. i \in 1 .. pc'[p] - 1 BY <1>3, <1>4
<1>6. Body(p)' = Body(p) BY DEF Body
<1>7. Spawner(c)' = Spawner(c) BY DEF Spawner, Body
<1> QED BY <1>1, <1>3, <1>5, <1>6, <1>7 DEF SpawnedBefore

LEMMA SpawningStep == ASSUME Inv, NEW t \in Threads, Acts(t) PROVE Spawning'
<1>0. prog' = prog /\ (\A k \in Tasks : pc'[k] = pc[k] \/ pc'[k] = pc[k] + 1) BY SameProgram, PcGrows
<1>1. SUFFICES ASSUME NEW c \in Explicit, status'[c] # "none"
               PROVE  SpawnedBefore(c)' /\ (Spawner(c) # c)'
  BY DEF Spawning
<1>2. CASE status[c] # "none" BY <1>0, <1>2, SpawningKept
<1>3. CASE status[c] = "none"
  <2>0. c \in Tasks BY DEF Tasks
  <2>1. Alloc(t) /\ c = Arg(Cur(t)) BY <1>1, <1>3, <2>0, StatusOf DEF StatusMoves
  <2>2. PICK k : k = Cur(t) OBVIOUS
  <2>3. k \in Tasks /\ Is(Body(k), pc[k], "task", c) /\ pc'[k] = pc[k] + 1 /\ Spawner(c) = k /\ c # k
    BY <2>1, <2>2, AllocTakes
  <2>4. pc[k] \in 1 .. Len(Body(k)) + 1 /\ Len(Body(k)) \in Nat BY <2>3, InvParts, OpsOf
  <2>5. pc[k] \in 1 .. pc'[k] - 1 BY <2>3, <2>4
  <2>6. Body(k)' = Body(k) /\ Spawner(c)' = Spawner(c) BY <1>0 DEF Body, Spawner
  <2> QED BY <2>3, <2>5, <2>6 DEF SpawnedBefore
<1> QED BY <1>2, <1>3

LEMMA SpawningMaster == ASSUME Inv, Master \/ UNCHANGED vars PROVE Spawning'
<1>1. prog' = prog /\ status' = status BY DEF Master, Gathered, Drained, ReleaseAll, vars, body
<1>2. \A k \in Tasks : pc'[k] = pc[k] \/ pc'[k] = pc[k] + 1
  <2>1. CASE Master
    <3>1. pc' = pc \/ pc' = [pc EXCEPT ![0] = @ + 1] BY <2>1, MasterKeeps
    <3>2. pc \in [Tasks -> Nat] BY InvParts DEF Typed
    <3> QED BY <3>1, <3>2
  <2>2. CASE UNCHANGED vars BY <2>2 DEF vars, body
  <2> QED BY <2>1, <2>2
<1> QED BY <1>1, <1>2, SpawningKept DEF Spawning
---------------------------------------------------------------------------
(* The references of a task are counted.                                   *)

\* Of the references of a task: those that hold it, one by one.
Held(k) == /\ IsFiniteSet(Holders(k))
           /\ IF Live(k) THEN refs[k] = Cardinality(Holders(k)) ELSE Holders(k) = {}
LEMMA HeldAll == ReferenceCounts <=> \A k \in Explicit : Held(k)
BY DEF ReferenceCounts, Held

LEMMA HoldersKept ==
    ASSUME NEW k, prog' = prog, Whole(k)' <=> Whole(k),
           \A c \in Explicit : Live(c)' /\ Spawner(c) = k <=> Live(c) /\ Spawner(c) = k,
           \A u \in Threads : Dropping(u, k)' <=> Dropping(u, k)
    PROVE  Holders(k)' = Holders(k)
<1>1. Threads' = Threads /\ \A c : Spawner(c)' = Spawner(c) BY DEF Threads, Spawner, Body
<1>2. Children(k)' = Children(k) BY <1>1 DEF Children
<1> QED BY <1>1, <1>2 DEF Holders

LEMMA HeldKept ==
    ASSUME NEW k, Held(k), Holders(k)' = Holders(k), Live(k)' <=> Live(k), Live(k) => refs'[k] = refs[k]
    PROVE  Held(k)'
<1>1. PICK H : H = Holders(k) OBVIOUS
<1>2. Holders(k)' = H BY <1>1
<1> QED BY <1>1, <1>2 DEF Held

LEMMA WholeSame ==
    ASSUME NEW t, Stepped(t), ~FreeAncestors(t), ~Alloc(t), NEW k \in Tasks
    PROVE  Whole(k)' <=> Whole(k)
<1>0. Inv /\ t \in Threads /\ Acts(t) /\ Typed /\ Shape /\ t \in Implicit BY InvParts, Tops DEF Stepped
<1>1. Threads' = Threads BY <1>0, SameProgram
<1>2. StatusMoves(t, k) BY <1>0, StatusOf
<1>3. CASE stack' = stack
  <2>1. OffStack(k)' <=> OffStack(k) BY <1>1, <1>3 DEF OffStack, Elems
  <2>2. k = Cur(t) => ~OffStack(k) BY <1>0, Tops DEF OffStack
  <2> QED BY <1>2, <2>1, <2>2 DEF Whole, StatusMoves
<1>4. CASE \E j \in Explicit : status[j] = "created" /\ Invoke(t, j)
  <2>1. PICK j \in Explicit : status[j] = "created" /\ Invoke(t, j) BY <1>4
  <2>2. stack'[t] = <<j>> \o stack[t] /\ (\A u \in Threads : u # t => stack'[u] = stack[u]) /\ j \in Tasks
        /\ stack[t] \in Seq(Tasks)
    BY <1>0, <2>1 DEF Invoke, Typed, Tasks
  <2>3. Elems(stack'[t]) = {j} \cup Elems(stack[t]) BY <2>2, Consed
  <2>4. k # j => (OffStack(k)' <=> OffStack(k)) BY <1>0, <1>1, <2>2, <2>3 DEF OffStack
  <2>5. status'[j] = "running" BY <1>0, <2>1, <2>2 DEF Invoke, Typed
  <2>6. ~(Finish(t) /\ k = Cur(t) /\ status'[k] = "complete" /\ status[k] = "running")
    <3>1. SUFFICES ASSUME Finish(t), k = Cur(t), status'[k] = "complete" PROVE FALSE OBVIOUS
    <3>2. stack' = stack BY <3>1 DEF Finish
    <3>3. Len(stack'[t]) = Len(stack[t]) + 1 /\ Len(stack[t]) \in Nat BY <2>2, Consed
    <3> QED BY <3>2, <3>3
  <2> QED BY <1>2, <2>1, <2>4, <2>5, <2>6 DEF Whole, StatusMoves
<1> QED BY <1>3, <1>4, Course

LEMMA LiveSame ==
    ASSUME NEW t, Stepped(t), ~FreeAncestors(t), ~Alloc(t), NEW k \in Tasks
    PROVE  Live(k)' <=> Live(k)
BY StatusOf DEF Stepped, StatusMoves, Live

LEMMA DroppingOthers ==
    ASSUME NEW t, Stepped(t), NEW u \in Threads, u # t, NEW k
    PROVE  Dropping(u, k)' <=> Dropping(u, k)
BY OthersAt DEF Dropping, Keeps

LEMMA DroppingSame ==
    ASSUME NEW t, Stepped(t), ~FreeAncestors(t), NEW u \in Threads, NEW k
    PROVE  Dropping(u, k)' <=> Dropping(u, k)
<1>0. Inv /\ t \in Threads /\ Acts(t) /\ Typed /\ Shape /\ Doing /\ t \in Implicit BY InvParts, Tops DEF Stepped
<1>a. Typed' /\ Shape' /\ prog' = prog BY <1>0, SameProgram DEF Stepped, Stacks
<1>1. CASE u = t
  <2>1. ~At(t, "climb") BY Course
  <2>2. ~Dropping(t, k)'
    <3>1. CASE UNCHANGED <<stack, at>>
      <4>1. ~At(t, "climb")' BY <2>1, <3>1, StaysAt
      <4> QED BY <4>1 DEF Dropping
    <3>2. CASE /\ stack' = stack
               /\ \E w : Set(t, w) /\ (w = "climb" => Finish(t) \/ LeaveGroup(t) \/ FreeHash(t) \/ Notified(t))
      <4>1. PICK w : Set(t, w) /\ (w = "climb" => Finish(t) \/ LeaveGroup(t) \/ FreeHash(t) \/ Notified(t)) BY <3>2
      <4>2. Cur(t)' = Cur(t) /\ (At(t, "climb")' <=> "climb" = w) BY <3>2, <4>1, TurnedTo
      <4>3. CASE Finish(t) \/ Notified(t)
        <5>1. climb' = [climb EXCEPT ![t] = Cur(t)] BY <4>3 DEF Finish, Notified
        <5>2. climb'[t] = Cur(t) BY <1>0, <5>1 DEF Typed
        <5> QED BY <4>2, <5>2 DEF Dropping
      <4>4. CASE LeaveGroup(t) \/ FreeHash(t)
        <5>1. climb' = climb /\ (At(t, "ungroup") \/ At(t, "unhash")) BY <4>4 DEF LeaveGroup, FreeHash, counters
        <5>2. climb[t] = Cur(t) BY <1>0, <5>1, CurFits DEF Fits, At
        <5> QED BY <4>2, <5>1, <5>2 DEF Dropping
      <4> QED BY <4>1, <4>2, <4>3, <4>4 DEF Dropping
    <3>3. CASE At(t, "run")'
      <4>1. at'[Cur(t)'] = "run" BY <1>0, <1>a, <3>3, AtNext
      <4>2. ~At(t, "climb")' BY <1>0, <1>a, <4>1, AtNext
      <4> QED BY <4>2 DEF Dropping
    <3> QED BY <3>1, <3>2, <3>3, Course
  <2> QED BY <1>1, <2>1, <2>2 DEF Dropping
<1>2. CASE u # t BY <1>2, DroppingOthers
<1> QED BY <1>1, <1>2

LEMMA RefsSame ==
    ASSUME NEW t, Acts(t), ~FreeAncestors(t), ~Alloc(t) PROVE refs' = refs
<1>1. CASE Open(t) \/ Forget(t) \/ TaskWait(t) \/ EndGroup(t) \/ Arrive(t) \/ Leave(t) \/ Depend(t) \/ Link(t)
  BY <1>1, Zenon DEF Open, Forget, TaskWait, EndGroup, Arrive, Leave, Depend, Link, counters
<1>2. CASE Settle(t) \/ Spent(t) \/ FreeHash(t) \/ ReleaseNode(t) \/ \E v \in Threads : Rob(t, v) \/ RobNothing(t, v)
  BY <1>2 DEF Settle, Spent, FreeHash, ReleaseNode, Rob, RobNothing, counters
<1>3. CASE Finish(t) \/ LeaveGroup(t) \/ Notified(t) BY <1>3 DEF Finish, LeaveGroup, Notified
<1>4. CASE Push(t) \/ Notify(t) \/ Own(t) \/ Robbed(t) BY <1>4 DEF Push, Notify, Own, Robbed, counters
<1> QED BY <1>1, <1>2, <1>3, <1>4 DEF Acts, Step

LEMMA ReferencesKept ==
    ASSUME NEW t, Stepped(t), ~FreeAncestors(t), ~Alloc(t) PROVE ReferenceCounts'
<1>0. Inv /\ t \in Threads /\ Acts(t) BY DEF Stepped
<1>1. SUFFICES ASSUME NEW k \in Explicit PROVE Held(k)' BY HeldAll DEF ReferenceCounts, Held
<1>2. k \in Tasks BY DEF Tasks
<1>3. prog' = prog /\ refs' = refs BY <1>0, SameProgram, RefsSame
<1>4. Whole(k)' <=> Whole(k) BY <1>2, WholeSame
<1>5. \A c \in Explicit : Live(c)' <=> Live(c) BY LiveSame DEF Tasks
<1>6. \A u \in Threads : Dropping(u, k)' <=> Dropping(u, k) BY DroppingSame
<1>7. Holders(k)' = Holders(k) BY <1>3, <1>4, <1>5, <1>6, HoldersKept
<1>8. Held(k) BY <1>0, InvParts, HeldAll
<1> QED BY <1>1, <1>3, <1>5, <1>7, <1>8, HeldKept

LEMMA ReferencesAlloc ==
    ASSUME NEW t, Stepped(t), Alloc(t) PROVE ReferenceCounts'
<1>0. Inv /\ t \in Threads /\ Acts(t) /\ Typed /\ Shape /\ t \in Implicit BY InvParts, Tops DEF Stepped
<1>a. PICK k \in Tasks : k = Cur(t) BY <1>0, Tops
<1>b. PICK c \in Explicit : c = Arg(k) BY <1>0, <1>a, AllocTakes
<1>1. /\ status[k] = "running" /\ status[c] = "none" /\ c # k /\ Spawner(c) = k /\ prog' = prog /\ stack' = stack
      /\ status'[c] = "created" /\ \A j \in Tasks : j # c => status'[j] = status[j]
      /\ refs' = References(k, c) /\ c \in Tasks
  BY <1>0, <1>a, <1>b, AllocTakes
<1>2. ~FreeAncestors(t)
  <2>1. at[k] = "run" BY <1>a DEF Alloc, At
  <2> QED BY <1>a, <2>1 DEF FreeAncestors, At
<1>3. \A u \in Threads : \A j : Dropping(u, j)' <=> Dropping(u, j) BY <1>2, DroppingSame
<1>4. Threads' = Threads /\ \A j : Spawner(j)' = Spawner(j) BY <1>1 DEF Threads, Spawner, Body
<1>5. /\ \A j \in Explicit : j # c => (Live(j)' <=> Live(j)) /\ (Whole(j)' <=> Whole(j))
      /\ Live(c)' /\ ~Live(c) /\ Whole(c)'
  <2>1. \A j : OffStack(j)' <=> OffStack(j) BY <1>1, <1>4 DEF OffStack
  <2>2. \A j \in Explicit : j # c => status'[j] = status[j] BY <1>1 DEF Tasks
  <2> QED BY <1>1, <2>1, <2>2 DEF Live, Whole
<1>6. SUFFICES ASSUME NEW j \in Explicit PROVE Held(j)' BY HeldAll DEF ReferenceCounts, Held
<1>7. j \in Tasks BY DEF Tasks
<1>8. Held(j) BY <1>0, InvParts, HeldAll
<1>9. CASE j = c
  <2>1. Holders(c) = {} BY <1>5, <1>8, <1>9 DEF Held
  <2>2. Children(c)' = {}
    <3>1. ASSUME NEW x \in Explicit, Live(x)', Spawner(x)' = c PROVE FALSE
      <4>1. x # c BY <1>1, <1>4, <3>1
      <4>2. Live(x) /\ Spawner(x) = c BY <1>4, <1>5, <3>1, <4>1
      <4>3. x \in Children(c) BY <4>2 DEF Children
      <4> QED BY <2>1, <4>3 DEF Holders
    <3> QED BY <3>1 DEF Children
  <2>3. \A u \in Threads : ~Dropping(u, c)' BY <1>3, <2>1 DEF Holders
  <2>4. Holders(c)' = {c} BY <1>4, <1>5, <2>2, <2>3 DEF Holders
  <2>5. refs'[c] = 1 BY <1>1 DEF References
  <2>6. PICK H : H = {c} OBVIOUS
  <2>7. Cardinality(H) = 1 /\ IsFiniteSet(H) BY <2>6, FS_Singleton
  <2>8. Holders(c)' = H BY <2>4, <2>6
  <2> QED BY <1>9, <2>5, <2>7, <2>8, <1>5 DEF Held
<1>10. CASE j # c /\ j = k
  <2>1. c \notin Holders(j)
    <3>1. c \notin Threads BY <1>0, Numbers, ThreadTasks DEF Typed
    <3> QED BY <1>5, <1>10, <3>1 DEF Holders, Children
  <2>2. Children(j)' = Children(j) \cup {c} BY <1>1, <1>4, <1>5, <1>10 DEF Children
  <2>3. Holders(j)' = Holders(j) \cup {c} BY <1>3, <1>4, <1>5, <1>10, <2>2 DEF Holders
  <2>4. Live(j) /\ Live(j)' BY <1>1, <1>5, <1>10 DEF Live
  <2>5. PICK H : H = Holders(j) OBVIOUS
  <2>6. IsFiniteSet(H) /\ refs[j] = Cardinality(H) /\ c \notin H BY <1>8, <2>1, <2>4, <2>5 DEF Held
  <2>7. PICK G : G = H \cup {c} OBVIOUS
  <2>8. IsFiniteSet(G) /\ Cardinality(G) = Cardinality(H) + 1 BY <2>6, <2>7, FS_AddElement
  <2>9. refs'[j] = refs[j] + 1 BY <1>1, <1>7, <1>10 DEF References
  <2>10. Holders(j)' = G BY <2>3, <2>5, <2>7
  <2> QED BY <2>4, <2>6, <2>8, <2>9, <2>10 DEF Held
<1>11. CASE j # c /\ j # k
  <2>1. refs'[j] = refs[j] BY <1>1, <1>7, <1>11 DEF References
  <2>2. \A x \in Explicit : Live(x)' /\ Spawner(x) = j <=> Live(x) /\ Spawner(x) = j BY <1>1, <1>5, <1>11
  <2>3. Holders(j)' = Holders(j) BY <1>1, <1>3, <1>5, <1>11, <2>2, HoldersKept
  <2> QED BY <1>5, <1>8, <1>11, <2>1, <2>3, HeldKept
<1> QED BY <1>9, <1>10, <1>11

\* A reference to c is dropped on behalf of k0; the last one is the turn of p.
LEMMA FreeFacts ==
    ASSUME NEW t, Stepped(t), FreeAncestors(t), NEW c, c = climb[t], NEW k0, k0 = Cur(t),
           NEW up, up = (refs[c] = 1 /\ Spawner(c) \in Explicit)
    PROVE  /\ t \in Implicit /\ c \in Explicit /\ c \in Tasks /\ k0 \in Explicit /\ k0 \in Tasks /\ prog' = prog
           /\ Spawner(c) # c /\ Live(c) /\ status[k0] = IF c = k0 THEN "complete" ELSE "freed"
           /\ up => Live(Spawner(c)) /\ Spawner(c) # k0 /\ Spawner(c) \in Explicit /\ c \in Holders(Spawner(c))
           /\ refs'[c] = refs[c] - 1 /\ \A j \in Explicit : j # c => refs'[j] = refs[j]
           /\ \A j \in Explicit : Live(j)' <=> Live(j) /\ ~ (j = c /\ refs[c] = 1)
           /\ \A j \in Explicit : Whole(j)' <=> Whole(j) /\ ~ (j = c /\ (c = k0 \/ refs[c] = 1))
           /\ \A j : Dropping(t, j) <=> j = c /\ c # k0
           /\ \A j : Dropping(t, j)' <=> up /\ j = Spawner(c)
           /\ \A u \in Threads : u # t => \A j : Dropping(u, j)' <=> Dropping(u, j)
<1>0. Inv /\ t \in Threads /\ Acts(t) /\ Typed /\ Shape /\ Doing /\ Idle /\ t \in Implicit /\ At(t, "climb")
      /\ Typed' /\ Shape' /\ prog' = prog
  BY InvParts, Tops, SameProgram DEF Stepped, Stacks, FreeAncestors
<1>1. c \in Explicit /\ c \in Tasks /\ k0 \in Explicit /\ k0 \in Tasks BY <1>0, Frees
<1>2. at[k0] = "climb" /\ at' = at /\ pc' = pc BY <1>0, Frees
<1>3. refs'[c] = refs[c] - 1 /\ \A j \in Tasks : j # c => refs'[j] = refs[j] BY <1>0, Frees
<1>4. IF refs[c] = 1 THEN status'[c] = "freed" /\ \A k \in Tasks : k # c => status'[k] = status[k]
      ELSE status' = status
  BY <1>0, Frees
<1>5. climb'[t] = IF up THEN Spawner(c) ELSE Nobody BY <1>0, Frees
<1>6. \A u \in Threads : u # t => climb'[u] = climb[u] BY <1>0, Frees
<1>7. stack' = IF up THEN stack ELSE [stack EXCEPT ![t] = Tail(@)] BY <1>0, Frees
<1>8. (\A k \in Tasks : k # k0 => Bystander(k)) /\ status'[k0] \in {"complete", "freed"} BY <1>0, Frees
<1>9. Threads' = Threads BY <1>0 DEF Threads
<1>10. Live(c) /\ (c = k0 => status[k0] = "complete") /\ (c # k0 => status[k0] = "freed")
  BY <1>0, LastReference
<1>11. Spawner(c) # c BY <1>0, <1>1, <1>10, InvParts DEF Spawning, Live
<1>12. up => Live(Spawner(c)) /\ Spawner(c) # k0 /\ Spawner(c) \in Explicit /\ c \in Holders(Spawner(c))
  <2>1. SUFFICES ASSUME up PROVE Live(Spawner(c)) /\ Spawner(c) # k0 /\ Spawner(c) \in Explicit /\ c \in Holders(Spawner(c))
    OBVIOUS
  <2>2. PICK p \in Explicit : p = Spawner(c) BY <2>1
  <2>3. c \in Holders(p) BY <1>1, <1>10, <2>2 DEF Holders, Children
  <2>4. Held(p) BY <1>0, InvParts, HeldAll
  <2>5. Live(p) BY <2>3, <2>4 DEF Held
  <2>6. p # k0 BY <1>10, <1>11, <2>2, <2>5 DEF Live
  <2> QED BY <2>2, <2>3, <2>5, <2>6
<1>13. \A j \in Explicit : Live(j)' <=> Live(j) /\ ~ (j = c /\ refs[c] = 1) BY <1>1, <1>4, <1>10 DEF Live, Tasks
<1>14. ~OffStack(k0) BY <1>0, Tops DEF OffStack
<1>15. CASE up
  <2>1. stack' = stack /\ climb'[t] = Spawner(c) /\ refs[c] = 1 BY <1>5, <1>7, <1>15
  <2>2. \A j : OffStack(j)' <=> OffStack(j) BY <1>9, <2>1 DEF OffStack
  <2>3. Cur(t)' = k0 BY <2>1 DEF Cur
  <2>4. At(t, "climb")' BY <1>0, <1>2, <2>3, AtNext
  <2>5. \A j \in Explicit : Whole(j)' <=> Whole(j) /\ ~ (j = c /\ (c = k0 \/ refs[c] = 1))
    BY <1>1, <1>4, <2>1, <2>2 DEF Whole, Tasks
  <2>6. \A j : Dropping(t, j)' <=> j = Spawner(c) BY <1>12, <1>15, <2>1, <2>3, <2>4 DEF Dropping
  <2>7. \A j : Dropping(t, j) <=> j = c /\ c # k0 BY <1>0 DEF Dropping
  <2>8. \A u \in Threads : u # t => \A j : Dropping(u, j)' <=> Dropping(u, j) BY DroppingOthers
  <2> QED BY <1>0, <1>1, <1>3, <1>10, <1>11, <1>12, <1>13, <1>15, <2>5, <2>6, <2>7, <2>8 DEF Tasks
<1>16. CASE ~up
  <2>1. stack' = [stack EXCEPT ![t] = Tail(@)] BY <1>7, <1>16
  <2>2. /\ at'[Cur(t)'] \in {"run", "notify"}
        /\ \A j \in Tasks : j # k0 => (OffStack(j)' <=> OffStack(j))
        /\ \A j \in Tasks : j = k0 => OffStack(j)'
    BY <1>0, <1>2, <1>6, <1>8, <2>1, Popped
  <2>3. ~At(t, "climb")' BY <1>0, <2>2, AtNext
  <2>5. \A j \in Explicit : Whole(j)' <=> Whole(j) /\ ~ (j = c /\ (c = k0 \/ refs[c] = 1))
    <3>1. SUFFICES ASSUME NEW j \in Explicit PROVE Whole(j)' <=> Whole(j) /\ ~ (j = c /\ (c = k0 \/ refs[c] = 1))
      OBVIOUS
    <3>2. j \in Tasks BY DEF Tasks
    <3>3. CASE j = c BY <1>4, <1>10, <2>2, <3>2, <3>3 DEF Whole
    <3>4. CASE j # c
      <4>1. status'[j] = status[j] BY <1>4, <3>2, <3>4
      <4>2. j = k0 => status[j] = "freed" BY <1>10, <3>4
      <4> QED BY <2>2, <3>2, <3>4, <4>1, <4>2 DEF Whole
    <3> QED BY <3>3, <3>4
  <2>6. \A j : ~Dropping(t, j)' BY <2>3 DEF Dropping
  <2>7. \A j : Dropping(t, j) <=> j = c /\ c # k0 BY <1>0 DEF Dropping
  <2>8. \A u \in Threads : u # t => \A j : Dropping(u, j)' <=> Dropping(u, j) BY DroppingOthers
  <2> QED BY <1>0, <1>1, <1>3, <1>10, <1>11, <1>12, <1>13, <1>16, <2>5, <2>6, <2>7, <2>8 DEF Tasks
<1> QED BY <1>15, <1>16

LEMMA ReferencesFree ==
    ASSUME NEW t, Stepped(t), FreeAncestors(t) PROVE ReferenceCounts'
<1>0. Inv /\ t \in Threads /\ At(t, "climb") BY DEF Stepped, FreeAncestors
<1>a. PICK c : c = climb[t] OBVIOUS
<1>b. PICK k0 : k0 = Cur(t) OBVIOUS
<1>c. PICK up : up = (refs[c] = 1 /\ Spawner(c) \in Explicit) OBVIOUS
<1>d. PICK p : p = Spawner(c) OBVIOUS
<1>1. /\ t \in Implicit /\ c \in Explicit /\ c \in Tasks /\ k0 \in Explicit /\ k0 \in Tasks /\ prog' = prog
      /\ p # c /\ Live(c) /\ status[k0] = IF c = k0 THEN "complete" ELSE "freed"
      /\ up => Live(p) /\ p # k0 /\ p \in Explicit /\ c \in Holders(p)
      /\ refs'[c] = refs[c] - 1 /\ \A j \in Explicit : j # c => refs'[j] = refs[j]
  BY <1>a, <1>b, <1>c, <1>d, FreeFacts
<1>2. \A j \in Explicit : Live(j)' <=> Live(j) /\ ~ (j = c /\ refs[c] = 1) BY <1>a, <1>b, <1>c, FreeFacts
<1>3. \A j \in Explicit : Whole(j)' <=> Whole(j) /\ ~ (j = c /\ (c = k0 \/ refs[c] = 1))
  BY <1>a, <1>b, <1>c, FreeFacts
<1>4. /\ \A j : Dropping(t, j) <=> j = c /\ c # k0
      /\ \A j : Dropping(t, j)' <=> up /\ j = p
      /\ \A u \in Threads : u # t => \A j : Dropping(u, j)' <=> Dropping(u, j)
  BY <1>a, <1>b, <1>c, <1>d, FreeFacts
<1>5. Threads' = Threads /\ (\A j : Spawner(j)' = Spawner(j)) /\ Threads \cap Explicit = {}
  BY <1>0, <1>1, InvParts, Numbers, ThreadTasks DEF Threads, Spawner, Body, Typed
<1>6. SUFFICES ASSUME NEW j \in Explicit PROVE Held(j)' BY HeldAll DEF ReferenceCounts, Held
<1>7. Held(j) BY <1>0, InvParts, HeldAll
<1>8. CASE j = c /\ refs[c] = 1
  <2>0. j = c /\ refs[j] = 1 BY <1>8
  <2>1. Children(j) = {} /\ \A u \in Threads : Dropping(u, j) => u = t
    BY <1>0, <2>0, <1>a, <1>b, LastReference
  <2>2. ~Whole(j)' /\ ~Live(j)' BY <2>0, <1>2, <1>3
  <2>3. Children(j)' = {} BY <1>2, <1>5, <2>1 DEF Children
  <2>4. \A u \in Threads : ~Dropping(u, j)' BY <1>1, <1>4, <2>0, <2>1
  <2>5. Holders(j)' = {} BY <1>5, <2>2, <2>3, <2>4 DEF Holders
  <2> QED BY <2>2, <2>5, FS_EmptySet DEF Held
<1>9. CASE j = c /\ refs[c] # 1
  <2>0. PICK drop : drop = IF c = k0 THEN c ELSE t OBVIOUS
  <2>1. ~up BY <1>9, <1>c
  <2>2. Children(c)' = Children(c) BY <1>2, <1>5, <1>9 DEF Children
  <2>3. \A u \in Threads : Dropping(u, c)' <=> Dropping(u, c) /\ u # t BY <1>4, <2>1
  <2>4. c \notin Children(c) BY <1>1, <1>d DEF Children
  <2>5. drop \in Holders(c)
    <3>1. CASE c = k0
      <4>1. status[c] = "complete" /\ ~OffStack(c)
        BY <1>0, <1>1, <1>b, <3>1, InvParts, Tops DEF OffStack
      <4> QED BY <2>0, <3>1, <4>1 DEF Holders, Whole
    <3>2. CASE c # k0 BY <1>0, <1>4, <2>0, <3>2 DEF Holders
    <3> QED BY <3>1, <3>2
  <2>6. Holders(c)' = Holders(c) \ {drop}
    <3>1. CASE c = k0
      <4>1. ~Whole(c)' BY <1>1, <1>3, <3>1
      <4>2. \A u \in Threads : Dropping(u, c)' <=> Dropping(u, c) BY <1>4, <2>3, <3>1
      <4>3. c \notin Threads BY <1>1, <1>5
      <4> QED BY <1>5, <2>0, <2>2, <2>4, <3>1, <4>1, <4>2, <4>3 DEF Holders
    <3>2. CASE c # k0
      <4>1. Whole(c)' <=> Whole(c) BY <1>1, <1>3, <1>9, <3>2
      <4>2. t \notin Explicit /\ t # c BY <1>0, <1>1, <1>5
      <4> QED BY <1>5, <2>0, <2>2, <2>3, <3>2, <4>1, <4>2 DEF Holders, Children
    <3> QED BY <3>1, <3>2
  <2>7. PICK H : H = Holders(c) OBVIOUS
  <2>8. IsFiniteSet(H) /\ refs[c] = Cardinality(H) /\ drop \in H BY <1>1, <1>7, <1>9, <2>5, <2>7 DEF Held
  <2>9. PICK G : G = H \ {drop} OBVIOUS
  <2>10. IsFiniteSet(G) /\ Cardinality(G) = Cardinality(H) - 1 BY <2>8, <2>9, FS_RemoveElement
  <2>11. Holders(c)' = G BY <2>6, <2>7, <2>9
  <2>12. Live(c)' BY <1>1, <1>2, <1>9
  <2> QED BY <1>1, <1>9, <2>8, <2>10, <2>11, <2>12 DEF Held
<1>10. CASE j # c /\ up /\ j = p
  <2>1. Holders(j)' = (Holders(j) \ {c}) \cup {t}
    <3>1. Children(j)' = Children(j) \ {c} BY <1>1, <1>2, <1>5, <1>10, <1>c, <1>d DEF Children
    <3>2. \A u \in Threads : Dropping(u, j)' <=> Dropping(u, j) \/ u = t BY <1>4, <1>10
    <3>3. Whole(j)' <=> Whole(j) BY <1>3, <1>10
    <3>4. c \notin Threads /\ t \in Threads BY <1>0, <1>1, <1>5
    <3> QED BY <1>5, <1>10, <3>1, <3>2, <3>3, <3>4 DEF Holders
  <2>2. c \in Holders(j) BY <1>1, <1>10
  <2>3. t \notin Holders(j)
    <3>1. t \notin Explicit BY <1>0, <1>5
    <3>2. ~Dropping(t, j) BY <1>4, <1>10
    <3> QED BY <3>1, <3>2 DEF Holders, Children
  <2>4. Live(j) /\ Live(j)' BY <1>1, <1>2, <1>10
  <2>5. PICK H : H = Holders(j) OBVIOUS
  <2>6. IsFiniteSet(H) /\ refs[j] = Cardinality(H) /\ c \in H /\ t \notin H BY <1>7, <2>2, <2>3, <2>4, <2>5 DEF Held
  <2>7. PICK F : F = H \ {c} OBVIOUS
  <2>8. PICK G : G = F \cup {t} OBVIOUS
  <2>9. IsFiniteSet(F) /\ Cardinality(F) = Cardinality(H) - 1 /\ t \notin F BY <2>6, <2>7, FS_RemoveElement
  <2>10. IsFiniteSet(G) /\ Cardinality(G) = Cardinality(F) + 1 BY <2>8, <2>9, FS_AddElement
  <2>11. Holders(j)' = G BY <2>1, <2>5, <2>7, <2>8
  <2>12. Cardinality(H) \in Nat BY <2>6, FS_CardinalityType
  <2>13. Cardinality(G) = Cardinality(H) BY <2>9, <2>10, <2>12
  <2>14. refs'[j] = refs[j] BY <1>1, <1>10
  <2> QED BY <2>4, <2>6, <2>10, <2>11, <2>13, <2>14 DEF Held
<1>11. CASE j # c /\ ~ (up /\ j = p)
  <2>1. \A x \in Explicit : Live(x)' /\ Spawner(x) = j <=> Live(x) /\ Spawner(x) = j
    BY <1>2, <1>11, <1>c, <1>d
  <2>2. \A u \in Threads : Dropping(u, j)' <=> Dropping(u, j) BY <1>4, <1>11
  <2>3. (Whole(j)' <=> Whole(j)) /\ (Live(j)' <=> Live(j)) /\ refs'[j] = refs[j] BY <1>1, <1>2, <1>3, <1>11
  <2>4. Holders(j)' = Holders(j) BY <1>1, <2>1, <2>2, <2>3, HoldersKept
  <2> QED BY <1>7, <2>3, <2>4, HeldKept
<1> QED BY <1>8, <1>9, <1>10, <1>11

LEMMA ReferencesStep == ASSUME Inv, NEW t \in Threads, Acts(t) PROVE ReferenceCounts'
<1>1. Stepped(t) BY SteppedOf
<1> QED BY <1>1, ReferencesKept, ReferencesAlloc, ReferencesFree

LEMMA ReferencesMaster == ASSUME Inv, Master \/ UNCHANGED vars PROVE ReferenceCounts'
<1>1. SUFFICES ASSUME NEW k \in Explicit PROVE Held(k)' BY HeldAll DEF ReferenceCounts, Held
<1>2. UNCHANGED <<prog, status, at, stack, climb, refs>>
  BY DEF Master, Gathered, Drained, ReleaseAll, vars, body, counters
<1>3. \A j : OffStack(j)' <=> OffStack(j) BY <1>2 DEF OffStack, Threads
<1>4. \A j : (Live(j)' <=> Live(j)) /\ (Whole(j)' <=> Whole(j)) BY <1>2, <1>3 DEF Live, Whole
<1>5. \A u \in Threads : Dropping(u, k)' <=> Dropping(u, k) BY <1>2 DEF Dropping, At, Cur
<1>6. Holders(k)' = Holders(k) BY <1>2, <1>4, <1>5, HoldersKept
<1>7. Held(k) BY InvParts, HeldAll
<1> QED BY <1>2, <1>4, <1>6, <1>7, HeldKept
---------------------------------------------------------------------------
(* The tasks of a group are counted, and its parent is kept.               *)

\* The groups open behind an operation.
LEMMA OpenNext ==
    ASSUME NEW ops, NEW n \in Nat, DOMAIN ops = 1 .. n, NEW i \in 1 .. n,
           NEW o, NEW a, Is(ops, i, o, a)
    PROVE  /\ o \notin {"group", "endgroup"} => OpenAt(ops, i + 1) = OpenAt(ops, i)
           /\ o = "group" /\ a \in Groups => OpenAt(ops, i + 1) = OpenAt(ops, i) \cup {a}
           /\ o = "endgroup" => OpenAt(ops, i + 1) = OpenAt(ops, i) \ {a}
<1>1. 1 .. (i + 1) - 1 = (1 .. i - 1) \cup {i} OBVIOUS
<1>2. \A b \in 1 .. i - 1 : b .. (i + 1) - 1 = (b .. i - 1) \cup {i} OBVIOUS
<1>3. i .. (i + 1) - 1 = {i} OBVIOUS
<1>4. \A p, g : Is(ops, i, p, g) <=> p = o /\ g = a BY DEF Is
<1>5. \A g \in Groups : g \in OpenAt(ops, i + 1) <=>
         \/ \E b \in 1 .. i - 1 : /\ Is(ops, b, "group", g) /\ ~Is(ops, i, "endgroup", g)
                                  /\ \A e \in b .. i - 1 : ~Is(ops, e, "endgroup", g)
         \/ Is(ops, i, "group", g) /\ ~Is(ops, i, "endgroup", g)
  BY <1>1, <1>2, <1>3 DEF OpenAt
<1>6. \A g \in Groups : g \in OpenAt(ops, i) <=>
         \E b \in 1 .. i - 1 : Is(ops, b, "group", g) /\ \A e \in b .. i - 1 : ~Is(ops, e, "endgroup", g)
  BY DEF OpenAt
<1>7. \A g \in Groups : g \in OpenAt(ops, i + 1) <=>
         \/ g \in OpenAt(ops, i) /\ ~(o = "endgroup" /\ g = a)
         \/ o = "group" /\ g = a
  BY <1>4, <1>5, <1>6
<1>8. OpenAt(ops, i + 1) \subseteq Groups /\ OpenAt(ops, i) \subseteq Groups BY DEF OpenAt
<1> QED BY <1>7, <1>8

LEMMA OpenFirst == ASSUME NEW ops PROVE OpenAt(ops, 1) = {}
BY DEF OpenAt

\* What is open does not hold of a group before it is opened.
LEMMA NotYetOpen ==
    ASSUME prog \in Programs, NEW k \in Tasks, NEW g, NEW b \in Nat, OpenedAt(k, g, b)
    PROVE  g \notin OpenAt(Body(k), b)
<1>1. SUFFICES ASSUME g \in OpenAt(Body(k), b) PROVE FALSE OBVIOUS
<1>2. PICK d \in 1 .. b - 1 : Is(Body(k), d, "group", g) BY <1>1 DEF OpenAt
<1>3. d = b BY <1>2, OnePlace DEF OpenedAt
<1> QED BY <1>3

LEMMA GroupAtMoves ==
    ASSUME NEW home, NEW k, NEW i \in Int, NEW j \in Int, i <= j, NEW g, GroupAt(home, k, i, g),
           OpenAt(Body(k), j) = OpenAt(Body(k), i)
    PROVE  GroupAt(home, k, j, g)
<1>1. CASE OpenAt(Body(k), i) = {} /\ g = home[k] BY <1>1 DEF GroupAt
<1>2. CASE ~ (OpenAt(Body(k), i) = {} /\ g = home[k])
  <2>1. PICK b \in 1 .. i - 1 : /\ OpenedAt(k, g, b) /\ g \in OpenAt(Body(k), i)
                                /\ OpenAt(Body(k), i) = OpenAt(Body(k), b) \cup {g}
    BY <1>2 DEF GroupAt
  <2>2. b \in 1 .. j - 1 OBVIOUS
  <2> QED BY <2>1, <2>2 DEF GroupAt
<1> QED BY <1>1, <1>2

\* A task that goes on past no start or end of a group.
Neutral(k) == pc'[k] = pc[k] \/ (pc'[k] = pc[k] + 1 /\ Op(k) \in {"task", "taskwait", "barrier"})
LEMMA Positions ==
    ASSUME Typed, NEW k \in Tasks, Neutral(k)
    PROVE  /\ OpenAt(Body(k), pc'[k]) = OpenAt(Body(k), pc[k])
           /\ \A home, g : GroupAt(home, k, pc[k], g) => GroupAt(home, k, pc'[k], g)
           /\ \A b \in 1 .. pc'[k] - 1 : \A g : OpenedAt(k, g, b) => b \in 1 .. pc[k] - 1
           /\ 1 .. pc[k] - 1 \subseteq 1 .. pc'[k] - 1
<1>1. PICK ops : ops = Body(k) OBVIOUS
<1>2. pc[k] \in 1 .. Len(ops) + 1 /\ Len(ops) \in Nat /\ DOMAIN ops = 1 .. Len(ops)
  BY <1>1, OpsOf, Bodies DEF Typed
<1>3. PICK i \in Nat : i = pc[k] BY <1>2
<1>4. PICK j \in Nat : j = pc'[k] BY <1>2 DEF Neutral
<1>5. CASE j = i
  <2>1. \A home, g : GroupAt(home, k, i, g) => GroupAt(home, k, j, g) BY <1>5
  <2> QED BY <1>1, <1>3, <1>4, <1>5, <2>1
<1>6. CASE j = i + 1 /\ Op(k) \in {"task", "taskwait", "barrier"}
  <2>1. Op(k) # "end" BY <1>6
  <2>2. i \in 1 .. Len(ops) /\ Is(ops, i, Op(k), Arg(k)) BY <1>1, <1>2, <1>3, <2>1, OpsOf
  <2>3. OpenAt(ops, j) = OpenAt(ops, i) BY <1>2, <1>6, <2>2, OpenNext
  <2>4. \A home, g : GroupAt(home, k, i, g) => GroupAt(home, k, j, g) BY <1>1, <1>6, <2>3, GroupAtMoves
  <2>5. \A g : ~OpenedAt(k, g, i) BY <1>1, <1>6, <2>2 DEF OpenedAt, Is
  <2>6. \A b \in 1 .. j - 1 : b # i => b \in 1 .. i - 1 BY <1>6
  <2>7. \A b \in 1 .. j - 1 : \A g : OpenedAt(k, g, b) => b \in 1 .. i - 1 BY <2>5, <2>6
  <2>8. 1 .. i - 1 \subseteq 1 .. j - 1 BY <1>6
  <2> QED BY <1>1, <1>3, <1>4, <2>3, <2>4, <2>7, <2>8
<1> QED BY <1>3, <1>4, <1>5, <1>6 DEF Neutral

\* The parts of the state of the groups.
LEMMA GroupStateParts ==
    ASSUME NEW home, GroupState(home)
    PROVE  /\ home \in [Tasks -> Groups \cup {Nobody}]
           /\ \A k \in Tasks : status[k] # "none" => GroupAt(home, k, pc[k], group[k])
           /\ \A k \in Tasks : \A b \in 1 .. pc[k] - 1 : \A g \in OpenAt(Body(k), pc[k]) :
                  OpenedAt(k, g, b) => groups[g].open /\ GroupAt(home, k, b, groups[g].parent)
           /\ \A g \in Groups : groups[g].open => \E k \in Tasks : \E b \in 1 .. pc[k] - 1 : OpenedAt(k, g, b)
           /\ \A g \in Groups :
                /\ IsFiniteSet(Members(home, g))
                /\ IF groups[g].open THEN groups[g].count = Cardinality(Members(home, g))
                   ELSE Members(home, g) = {}
           /\ \A k \in Implicit : home[k] = Nobody
           /\ \A k \in Tasks : at[k] = "ungroup" => ~OffStack(k) /\ group[k] = home[k] /\ group[k] # Nobody
BY DEF GroupState

LEMMA GroupStateNext ==
    ASSUME prog' = prog, NEW home \in [Tasks -> Groups \cup {Nobody}],
           \A k \in Tasks : status'[k] # "none" => GroupAt(home, k, pc'[k], group'[k]),
           \A k \in Tasks : \A b \in 1 .. pc'[k] - 1 : \A g \in OpenAt(Body(k), pc'[k]) :
                  OpenedAt(k, g, b) => groups'[g].open /\ GroupAt(home, k, b, groups'[g].parent),
           \A g \in Groups : groups'[g].open => \E k \in Tasks : \E b \in 1 .. pc'[k] - 1 : OpenedAt(k, g, b),
           \A g \in Groups :
                /\ IsFiniteSet(Members(home, g)')
                /\ IF groups'[g].open THEN groups'[g].count = Cardinality(Members(home, g)')
                   ELSE Members(home, g)' = {},
           \A k \in Implicit : home[k] = Nobody,
           \A k \in Tasks : at'[k] = "ungroup" => ~OffStack(k)' /\ group'[k] = home[k] /\ group'[k] # Nobody
    PROVE  GroupState(home)'
<1>1. \A k : Body(k)' = Body(k) BY DEF Body
<1>2. \A k, g, b : OpenedAt(k, g, b)' <=> OpenedAt(k, g, b) BY <1>1 DEF OpenedAt
<1>3. \A k \in Tasks : (status[k] # "none" => GroupAt(home, k, pc[k], group[k]))'
  BY <1>1 DEF GroupAt, OpenedAt
<1>4. \A k \in Tasks : (\A b \in 1 .. pc[k] - 1 : \A g \in OpenAt(Body(k), pc[k]) :
                  OpenedAt(k, g, b) => groups[g].open /\ GroupAt(home, k, b, groups[g].parent))'
  <2>1. \A k, b : \A g : GroupAt(home, k, b, groups[g].parent)' <=> GroupAt(home, k, b, groups'[g].parent)
    BY <1>1 DEF GroupAt, OpenedAt
  <2> QED BY <1>1, <1>2, <2>1
<1>5. (\A g \in Groups : groups[g].open => \E k \in Tasks : \E b \in 1 .. pc[k] - 1 : OpenedAt(k, g, b))'
  BY <1>2
<1> QED BY <1>3, <1>4, <1>5 DEF GroupState

\* A task that has not ended is in a group that is open, or in none.
LEMMA InOpenGroup ==
    ASSUME Typed, NEW home, GroupState(home), NEW k \in Tasks, status[k] \in {"created", "running"},
           group[k] # Nobody
    PROVE  group[k] \in Groups /\ groups[group[k]].open
<1>1. PICK g : g = group[k] OBVIOUS
<1>2. g \in Groups BY <1>1 DEF Typed
<1>3. PICK i \in Nat : i = pc[k] BY DEF Typed
<1>4. GroupAt(home, k, i, g) BY <1>1, <1>3, GroupStateParts
<1>5. CASE OpenAt(Body(k), i) = {} /\ g = home[k]
  <2>1. k \in Explicit BY <1>1, <1>5, GroupStateParts DEF Tasks
  <2>2. k \in Members(home, g) BY <1>5, <2>1 DEF Members, Member
  <2> QED BY <1>1, <1>2, <2>2, GroupStateParts
<1>6. CASE ~ (OpenAt(Body(k), i) = {} /\ g = home[k])
  <2>1. PICK b \in 1 .. i - 1 : OpenedAt(k, g, b) /\ g \in OpenAt(Body(k), i) BY <1>4, <1>6 DEF GroupAt
  <2>2. groups[g].open BY <1>3, <2>1, GroupStateParts
  <2> QED BY <1>1, <1>2, <2>2
<1> QED BY <1>5, <1>6

\* Only the end of a task takes it to the end of its group.
LEMMA AtMoves ==
    ASSUME NEW t, Stepped(t), ~Finish(t), ~LeaveGroup(t)
    PROVE  \A k \in Tasks : at'[k] = "ungroup" <=> at[k] = "ungroup"
<1>0. Inv /\ t \in Threads /\ Acts(t) /\ Typed /\ Shape /\ Doing /\ t \in Implicit BY InvParts, Tops DEF Stepped
<1>1. at' = at \/ \E w \in Ats : w # "ungroup" /\ at[Cur(t)] # "ungroup" /\ Set(t, w)
  <2>1. CASE Open(t) \/ Forget(t) \/ TaskWait(t) \/ EndGroup(t) \/ Arrive(t) \/ Leave(t) \/ Depend(t) \/ Link(t)
             \/ FreeAncestors(t) \/ Notify(t)
    BY <2>1, Zenon DEF Open, Forget, TaskWait, EndGroup, Arrive, Leave, Depend, Link, body, FreeAncestors, Notify
  <2>2. CASE Alloc(t) \/ Settle(t) \/ Spent(t) \/ FreeHash(t) \/ ReleaseNode(t) \/ Push(t) \/ Robbed(t) \/ Notified(t)
             \/ \E v \in Threads : Rob(t, v) \/ RobNothing(t, v)
    <3>1. \E w \in Ats : w # "ungroup" /\ Set(t, w)
      BY <2>2, Zenon DEF Alloc, Settle, Spent, FreeHash, ReleaseNode, Push, Robbed, Notified, Rob, RobNothing, GoesOn, Ats, Busy, Ending, AfterHash
    <3>2. at[Cur(t)] # "ungroup"
      BY <2>2 DEF Alloc, Settle, Spent, FreeHash, ReleaseNode, Push, Robbed, Notified, Rob, RobNothing, At
    <3> QED BY <3>1, <3>2
  <2>3. CASE Own(t)
    <3>1. At(t, "run") /\ (at' = at \/ Set(t, "rob")) BY <1>0, <2>3, OwnTakes
    <3> QED BY <3>1 DEF At, Ats, Busy
  <2> QED BY <1>0, <2>1, <2>2, <2>3 DEF Acts, Step
<1> QED BY <1>0, <1>1 DEF Set, Typed

\* A task that leaves its group is being executed.
LEMMA StaysOnStack ==
    ASSUME NEW t, Stepped(t), NEW k \in Tasks, ~OffStack(k), at[k] = "ungroup"
    PROVE  ~OffStack(k)'
<1>0. Inv /\ t \in Threads /\ Acts(t) /\ Typed /\ Shape /\ Doing /\ Idle /\ t \in Implicit
  BY InvParts, Tops DEF Stepped
<1>1. Threads' = Threads /\ prog' = prog BY <1>0, SameProgram
<1>2. CASE stack' = stack BY <1>1, <1>2 DEF OffStack
<1>3. CASE ~FreeAncestors(t) /\ \E j \in Explicit : Invoke(t, j)
  <2>1. PICK j \in Explicit : Invoke(t, j) BY <1>3
  <2>2. stack'[t] = <<j>> \o stack[t] /\ (\A u \in Threads : u # t => stack'[u] = stack[u]) /\ j \in Tasks
        /\ stack[t] \in Seq(Tasks)
    BY <1>0, <2>1 DEF Invoke, Typed, Tasks
  <2>3. Elems(stack'[t]) = {j} \cup Elems(stack[t]) BY <2>2, Consed
  <2>4. \A u \in Threads : u # t => Elems(stack'[u]) = Elems(stack[u]) BY <2>2
  <2> QED BY <1>0, <1>1, <2>3, <2>4 DEF OffStack
<1>4. CASE FreeAncestors(t)
  <2>1. PICK c : c = climb[t] OBVIOUS
  <2>2. /\ at[Cur(t)] = "climb" /\ at' = at /\ pc' = pc
        /\ (stack' = stack \/ stack' = [stack EXCEPT ![t] = Tail(@)])
        /\ \A u \in Threads : u # t => climb'[u] = climb[u]
        /\ \A j \in Tasks : j # Cur(t) => Bystander(j)
        /\ status'[Cur(t)] \in {"complete", "freed"}
    BY <1>0, <1>4, Frees
  <2>3. CASE stack' = [stack EXCEPT ![t] = Tail(@)]
    <3>1. \A j \in Tasks : j # Cur(t) => (OffStack(j)' <=> OffStack(j)) BY <1>0, <1>1, <2>2, <2>3, Popped
    <3> QED BY <2>2, <3>1
  <2> QED BY <1>2, <2>2, <2>3
<1> QED BY <1>2, <1>3, <1>4, Course

\* Which tasks are in their group.
LEMMA MembersMove ==
    ASSUME NEW t, Stepped(t), ~Alloc(t), ~Finish(t), ~LeaveGroup(t), NEW home, GroupState(home),
           NEW k \in Explicit
    PROVE  Member(k)' <=> Member(k)
<1>0. Inv /\ t \in Threads /\ Acts(t) /\ k \in Tasks BY DEF Stepped, Tasks
<1>1. StatusMoves(t, k) BY <1>0, StatusOf
<1>2. at'[k] = "ungroup" <=> at[k] = "ungroup" BY <1>0, AtMoves
<1>3. ~ (FreeAncestors(t) /\ k = climb[t] /\ refs[k] = 1 /\ at[k] = "ungroup")
  <2>1. SUFFICES ASSUME FreeAncestors(t), k = climb[t], refs[k] = 1, at[k] = "ungroup" PROVE FALSE OBVIOUS
  <2>2. At(t, "climb") BY <2>1 DEF FreeAncestors
  <2>3. k # Cur(t) BY <2>1, <2>2 DEF At
  <2>4. OffStack(k) BY <1>0, <2>1, <2>2, <2>3, LastReference
  <2> QED BY <1>0, <2>1, <2>4, GroupStateParts
<1> QED BY <1>1, <1>2, <1>3 DEF StatusMoves, Member

\* What a thread does that is neither the start nor the end of a group.
GroupsSame(t) == UNCHANGED <<group, groups>> /\ \A k \in Tasks : Neutral(k)
LEMMA GroupsSameOf ==
    ASSUME NEW t, Stepped(t), ~Alloc(t), ~LeaveGroup(t), ~Open(t), ~EndGroup(t)
    PROVE  GroupsSame(t)
<1>0. Inv /\ t \in Threads /\ Acts(t) /\ Typed /\ Shape /\ Cur(t) \in Tasks BY InvParts, Tops DEF Stepped
<1>1. UNCHANGED <<group, groups>>
  <2>1. CASE Forget(t) \/ TaskWait(t) \/ Arrive(t) \/ Leave(t) \/ Depend(t) \/ Link(t)
    BY <2>1, Zenon DEF Forget, TaskWait, Arrive, Leave, Depend, Link, counters, body
  <2>2. CASE Settle(t) \/ Spent(t) \/ FreeHash(t) \/ ReleaseNode(t) \/ \E v \in Threads : Rob(t, v) \/ RobNothing(t, v)
    BY <2>2 DEF Settle, Spent, FreeHash, ReleaseNode, Rob, RobNothing, counters
  <2>3. CASE Finish(t) \/ Notified(t) \/ FreeAncestors(t) BY <2>3 DEF Finish, Notified, FreeAncestors
  <2>4. CASE Push(t) \/ Notify(t) \/ Own(t) \/ Robbed(t) BY <2>4 DEF Push, Notify, Own, Robbed, counters
  <2> QED BY <1>0, <2>1, <2>2, <2>3, <2>4 DEF Acts, Step
<1>2. \A k \in Tasks : Neutral(k)
  <2>1. SUFFICES ASSUME NEW k \in Tasks, pc'[k] = pc[k] + 1, k = Cur(t), pc'[k] # pc[k]
                 PROVE  Op(k) \in {"task", "taskwait", "barrier"}
    BY <1>0, PcGrows DEF Neutral
  <2>2. TaskWait(t) \/ Leave(t)
    <3>1. pc' # pc BY <2>1
    <3>2. ~ (Depend(t) \/ Link(t) \/ Settle(t) \/ Push(t) \/ Forget(t) \/ Own(t) \/ Robbed(t) \/ Spent(t))
      BY <3>1, Zenon DEF Depend, Link, Settle, Push, Forget, Own, Robbed, Spent, body
    <3>3. ~ (Finish(t) \/ LeaveGroup(t) \/ FreeHash(t) \/ ReleaseNode(t) \/ Notify(t) \/ Notified(t) \/ FreeAncestors(t) \/ Arrive(t))
      BY <3>1 DEF Finish, LeaveGroup, FreeHash, ReleaseNode, Notify, Notified, FreeAncestors, Arrive, body
    <3>4. ~ (\E v \in Threads : Rob(t, v) \/ RobNothing(t, v)) BY <3>1 DEF Rob, RobNothing
    <3> QED BY <1>0, <3>2, <3>3, <3>4 DEF Acts, Step
  <2>3. CASE TaskWait(t) BY <2>1, <2>3 DEF TaskWait
  <2>4. CASE Leave(t)
    <3>1. k = t /\ phase[t] = "await" BY <2>1, <2>4 DEF Leave, InPhase
    <3>2. Op(t) = "barrier" BY <1>0, <3>1, InvParts DEF InBarrier
    <3> QED BY <3>1, <3>2
  <2> QED BY <2>2, <2>3, <2>4
<1> QED BY <1>1, <1>2 DEF GroupsSame

\* The open groups and what they were opened in, if no group starts or ends.
LEMMA ParentsKept ==
    ASSUME Typed, NEW home, GroupState(home), prog' = prog, \A k \in Tasks : Neutral(k),
           \A g \in Groups : groups'[g].open = groups[g].open /\ groups'[g].parent = groups[g].parent
    PROVE  /\ \A k \in Tasks : \A b \in 1 .. pc'[k] - 1 : \A g \in OpenAt(Body(k), pc'[k]) :
                  OpenedAt(k, g, b) => groups'[g].open /\ GroupAt(home, k, b, groups'[g].parent)
           /\ \A g \in Groups : groups'[g].open => \E k \in Tasks : \E b \in 1 .. pc'[k] - 1 : OpenedAt(k, g, b)
<1>1. ASSUME NEW k \in Tasks, NEW b \in 1 .. pc'[k] - 1, NEW g \in OpenAt(Body(k), pc'[k]), OpenedAt(k, g, b)
      PROVE  groups'[g].open /\ GroupAt(home, k, b, groups'[g].parent)
  <2>1. b \in 1 .. pc[k] - 1 /\ g \in OpenAt(Body(k), pc[k]) BY <1>1, Positions
  <2>2. groups[g].open /\ GroupAt(home, k, b, groups[g].parent) BY <1>1, <2>1, GroupStateParts
  <2>3. g \in Groups BY <1>1 DEF OpenAt
  <2> QED BY <2>2, <2>3
<1>2. ASSUME NEW g \in Groups, groups'[g].open
      PROVE  \E k \in Tasks : \E b \in 1 .. pc'[k] - 1 : OpenedAt(k, g, b)
  <2>1. PICK k \in Tasks : \E b \in 1 .. pc[k] - 1 : OpenedAt(k, g, b) BY <1>2, GroupStateParts
  <2>2. 1 .. pc[k] - 1 \subseteq 1 .. pc'[k] - 1 BY Positions
  <2> QED BY <2>1, <2>2
<1> QED BY <1>1, <1>2

LEMMA GroupsFrame ==
    ASSUME NEW t, Stepped(t), GroupsSame(t), NEW home, GroupState(home),
           \A k \in Tasks : status'[k] # "none" => status[k] # "none",
           \A g \in Groups : Members(home, g)' = Members(home, g),
           \A k \in Tasks : at'[k] = "ungroup" => ~OffStack(k)' /\ group[k] = home[k] /\ group[k] # Nobody
    PROVE  GroupState(home)'
<1>0. Inv /\ t \in Threads /\ Acts(t) /\ Typed BY InvParts DEF Stepped
<1>1. prog' = prog BY <1>0, SameProgram
<1>2. group' = group /\ groups' = groups /\ \A k \in Tasks : Neutral(k) BY DEF GroupsSame
<1>3. \A k \in Tasks : status'[k] # "none" => GroupAt(home, k, pc'[k], group'[k])
  <2>1. SUFFICES ASSUME NEW k \in Tasks, status'[k] # "none" PROVE GroupAt(home, k, pc'[k], group[k]) BY <1>2
  <2>2. GroupAt(home, k, pc[k], group[k]) BY <2>1, GroupStateParts
  <2> QED BY <1>0, <1>2, <2>2, Positions
<1>4. /\ \A k \in Tasks : \A b \in 1 .. pc'[k] - 1 : \A g \in OpenAt(Body(k), pc'[k]) :
            OpenedAt(k, g, b) => groups'[g].open /\ GroupAt(home, k, b, groups'[g].parent)
      /\ \A g \in Groups : groups'[g].open => \E k \in Tasks : \E b \in 1 .. pc'[k] - 1 : OpenedAt(k, g, b)
  BY <1>0, <1>1, <1>2, ParentsKept
<1>5. \A g \in Groups :
        /\ IsFiniteSet(Members(home, g)')
        /\ IF groups'[g].open THEN groups'[g].count = Cardinality(Members(home, g)')
           ELSE Members(home, g)' = {}
  <2>1. ASSUME NEW g \in Groups
        PROVE  /\ IsFiniteSet(Members(home, g)')
               /\ IF groups'[g].open THEN groups'[g].count = Cardinality(Members(home, g)')
                  ELSE Members(home, g)' = {}
    <3>1. PICK M : M = Members(home, g) OBVIOUS
    <3>2. Members(home, g)' = M BY <3>1
    <3>3. IsFiniteSet(M) /\ IF groups[g].open THEN groups[g].count = Cardinality(M) ELSE M = {}
      BY <3>1, GroupStateParts
    <3> QED BY <1>2, <3>2, <3>3
  <2> QED BY <2>1
<1>6. \A k \in Tasks : at'[k] = "ungroup" => ~OffStack(k)' /\ group'[k] = home[k] /\ group'[k] # Nobody BY <1>2
<1>7. home \in [Tasks -> Groups \cup {Nobody}] /\ \A k \in Implicit : home[k] = Nobody BY GroupStateParts
<1> QED BY <1>1, <1>3, <1>4, <1>5, <1>6, <1>7, GroupStateNext

LEMMA GroupsKept ==
    ASSUME NEW t, Stepped(t), ~Alloc(t), ~Finish(t), ~LeaveGroup(t), ~Open(t), ~EndGroup(t),
           NEW home, GroupState(home)
    PROVE  GroupState(home)'
<1>0. Inv /\ t \in Threads /\ Acts(t) BY DEF Stepped
<1>1. GroupsSame(t) BY GroupsSameOf
<1>2. \A k \in Tasks : status'[k] # "none" => status[k] # "none" BY <1>0, StatusOf DEF StatusMoves
<1>3. \A k \in Explicit : Member(k)' <=> Member(k) BY MembersMove
<1>4. \A g \in Groups : Members(home, g)' = Members(home, g) BY <1>3 DEF Members
<1>5. ASSUME NEW k \in Tasks, at'[k] = "ungroup"
      PROVE  ~OffStack(k)' /\ group[k] = home[k] /\ group[k] # Nobody
  <2>1. at[k] = "ungroup" BY <1>5, AtMoves
  <2>2. ~OffStack(k) /\ group[k] = home[k] /\ group[k] # Nobody BY <2>1, GroupStateParts
  <2> QED BY <2>1, <2>2, StaysOnStack
<1> QED BY <1>1, <1>2, <1>4, <1>5, GroupsFrame

\* At the end of its body a task is in the group it was created in.
LEMMA EndsAtHome ==
    ASSUME Typed, NEW home, GroupState(home), NEW k \in Tasks, status[k] # "none", Op(k) = "end"
    PROVE  group[k] = home[k]
<1>1. pc[k] = Len(Body(k)) + 1 BY OpsOf
<1>2. OpenAt(Body(k), pc[k]) = {} BY <1>1, ProgramAssumption DEF Typed, Body, Structured
<1>3. GroupAt(home, k, pc[k], group[k]) BY GroupStateParts
<1> QED BY <1>2, <1>3 DEF GroupAt

LEMMA GroupsFinish ==
    ASSUME NEW t, Stepped(t), Finish(t), NEW home, GroupState(home) PROVE GroupState(home)'
<1>0. Inv /\ t \in Threads /\ Acts(t) /\ Typed /\ Shape /\ Doing /\ t \in Implicit BY InvParts, Tops DEF Stepped
<1>a. PICK k : k = Cur(t) OBVIOUS
<1>1. k \in Explicit /\ k \in Tasks /\ Op(k) = "end" /\ At(t, "run") /\ at[k] = "run" /\ stack' = stack
  BY <1>a DEF Finish, Tasks, At
<1>2. status[k] = "running" BY <1>0, <1>1, <1>a, CurFits DEF Busy
<1>3. status'[k] = "complete" /\ \A j \in Tasks : j # k => status'[j] = status[j]
  BY <1>0, <1>1, <1>a DEF Finish, Typed
<1>4. at'[k] = Ended(k) /\ \A j \in Tasks : j # k => at'[j] = at[j]
  BY <1>0, <1>1, <1>a DEF Finish, Set, Typed
<1>5. group[k] = home[k] BY <1>0, <1>1, <1>2, EndsAtHome
<1>6. at'[k] = "ungroup" <=> group[k] # Nobody BY <1>4 DEF Ended, AfterGroup, AfterHash
<1>7. ~Alloc(t) /\ ~LeaveGroup(t) /\ ~Open(t) /\ ~EndGroup(t)
  BY <1>1, <1>a DEF Alloc, LeaveGroup, Open, EndGroup, At
<1>8. GroupsSame(t) BY <1>7, GroupsSameOf
<1>9. \A j \in Tasks : status'[j] # "none" => status[j] # "none" BY <1>2, <1>3
<1>10. \A g \in Groups : Members(home, g)' = Members(home, g)
  <2>1. \A j \in Explicit : j # k => (Member(j)' <=> Member(j)) BY <1>3, <1>4 DEF Member, Tasks
  <2>2. Member(k) /\ (home[k] # Nobody => Member(k)') BY <1>2, <1>3, <1>5, <1>6 DEF Member
  <2>3. Nobody \notin Groups BY Numbers
  <2> QED BY <2>1, <2>2, <2>3 DEF Members
<1>11. ASSUME NEW j \in Tasks, at'[j] = "ungroup"
       PROVE  ~OffStack(j)' /\ group[j] = home[j] /\ group[j] # Nobody
  <2>1. Threads' = Threads BY <1>0, SameProgram
  <2>2. OffStack(j)' <=> OffStack(j) BY <1>1, <2>1 DEF OffStack
  <2>3. CASE j = k
    <3>1. ~OffStack(k) BY <1>0, <1>a, Tops DEF OffStack
    <3> QED BY <1>5, <1>6, <1>11, <2>2, <2>3, <3>1
  <2>4. CASE j # k BY <1>4, <1>11, <2>2, <2>4, GroupStateParts
  <2> QED BY <2>3, <2>4
<1> QED BY <1>8, <1>9, <1>10, <1>11, GroupsFrame

LEMMA GroupsLeave ==
    ASSUME NEW t, Stepped(t), LeaveGroup(t), NEW home, GroupState(home) PROVE GroupState(home)'
<1>0. Inv /\ t \in Threads /\ Acts(t) /\ Typed /\ Shape /\ Doing /\ t \in Implicit BY InvParts, Tops DEF Stepped
<1>a. PICK k \in Tasks : k = Cur(t) BY <1>0, Tops
<1>b. PICK g : g = group[k] OBVIOUS
<1>1. at[k] = "ungroup" /\ UNCHANGED <<prog, pc, status, stack, group>> BY <1>a DEF LeaveGroup, At
<1>2. status[k] = "complete" /\ k \in Explicit BY <1>0, <1>1, <1>a, CurFits DEF Ending, At, Fits
<1>3. g = home[k] /\ g \in Groups BY <1>0, <1>1, <1>b, GroupStateParts DEF Typed
<1>4. at'[k] # "ungroup" /\ \A j \in Tasks : j # k => at'[j] = at[j]
  <2>1. PICK w \in {"unhash", "release", "climb"} : Set(t, w) BY DEF LeaveGroup, AfterGroup, AfterHash
  <2>2. at' = [at EXCEPT ![k] = w] BY <1>a, <2>1 DEF Set
  <2> QED BY <1>0, <2>1, <2>2 DEF Typed
<1>5. PICK d \in Int : d = -1 OBVIOUS
<1>6. groups' = [groups EXCEPT ![g].count = @ + d]
  <2>1. groups' = [groups EXCEPT ![g].count = @ - 1] BY <1>a, <1>b DEF LeaveGroup
  <2>2. groups[g].count \in Int BY <1>0, <1>3 DEF Typed, GroupType
  <2>3. groups[g].count - 1 = groups[g].count + d BY <1>5, <2>2
  <2> QED BY <2>1, <2>3
<1>7. /\ groups'[g].count = groups[g].count + d
      /\ \A h \in Groups : groups'[h].open = groups[h].open /\ groups'[h].parent = groups[h].parent
                           /\ (h # g => groups'[h].count = groups[h].count)
  BY <1>0, <1>3, <1>6, CountOf
<1>8. \A j \in Tasks : Neutral(j) BY <1>1 DEF Neutral
<1>9. \A j \in Tasks : status'[j] # "none" => GroupAt(home, j, pc'[j], group'[j]) BY <1>1, GroupStateParts
<1>10. /\ \A j \in Tasks : \A b \in 1 .. pc'[j] - 1 : \A h \in OpenAt(Body(j), pc'[j]) :
            OpenedAt(j, h, b) => groups'[h].open /\ GroupAt(home, j, b, groups'[h].parent)
       /\ \A h \in Groups : groups'[h].open => \E j \in Tasks : \E b \in 1 .. pc'[j] - 1 : OpenedAt(j, h, b)
  BY <1>0, <1>1, <1>7, <1>8, ParentsKept
<1>11. ASSUME NEW h \in Groups
       PROVE  /\ IsFiniteSet(Members(home, h)')
              /\ IF groups'[h].open THEN groups'[h].count = Cardinality(Members(home, h)')
                 ELSE Members(home, h)' = {}
  <2>1. PICK M : M = Members(home, h) OBVIOUS
  <2>2. IsFiniteSet(M) /\ IF groups[h].open THEN groups[h].count = Cardinality(M) ELSE M = {}
    BY <2>1, GroupStateParts
  <2>3. \A j \in Explicit : j # k => (Member(j)' <=> Member(j)) BY <1>1, <1>4 DEF Member, Tasks
  <2>4. Member(k) /\ ~Member(k)' BY <1>1, <1>2, <1>4 DEF Member
  <2>5. CASE h = g
    <3>1. PICK G : G = M \ {k} OBVIOUS
    <3>2. Members(home, h)' = G BY <1>2, <2>1, <2>3, <2>4, <3>1 DEF Members
    <3>3. k \in M BY <1>2, <1>3, <2>1, <2>4, <2>5 DEF Members
    <3>4. IsFiniteSet(G) /\ Cardinality(G) = Cardinality(M) - 1 BY <2>2, <3>1, <3>3, FS_RemoveElement
    <3>5. groups[h].open /\ groups[h].count = Cardinality(M) BY <2>2, <3>3
    <3>6. Cardinality(M) \in Nat BY <2>2, FS_CardinalityType
    <3>7. groups'[h].open /\ groups'[h].count = Cardinality(G) BY <1>5, <1>7, <2>5, <3>4, <3>5, <3>6
    <3> QED BY <3>2, <3>4, <3>7
  <2>6. CASE h # g
    <3>1. Members(home, h)' = M BY <1>3, <2>1, <2>3, <2>6 DEF Members
    <3> QED BY <1>7, <2>2, <2>6, <3>1
  <2> QED BY <2>5, <2>6
<1>12. ASSUME NEW j \in Tasks, at'[j] = "ungroup"
       PROVE  ~OffStack(j)' /\ group'[j] = home[j] /\ group'[j] # Nobody
  <2>1. at[j] = "ungroup" BY <1>4, <1>12
  <2>2. ~OffStack(j) /\ group[j] = home[j] /\ group[j] # Nobody BY <2>1, GroupStateParts
  <2> QED BY <1>1, <2>1, <2>2, StaysOnStack
<1>13. home \in [Tasks -> Groups \cup {Nobody}] /\ \A j \in Implicit : home[j] = Nobody BY GroupStateParts
<1> QED BY <1>1, <1>9, <1>10, <1>11, <1>12, <1>13, GroupStateNext

LEMMA GroupsOpen ==
    ASSUME NEW t, Stepped(t), Open(t), NEW home, GroupState(home) PROVE GroupState(home)'
<1>0. Inv /\ t \in Threads /\ Acts(t) /\ Typed /\ Shape /\ Doing /\ t \in Implicit BY InvParts, Tops DEF Stepped
<1>a. PICK k \in Tasks : k = Cur(t) BY <1>0, Tops
<1>b. PICK g : g = Arg(k) OBVIOUS
<1>c. PICK i \in Nat : i = pc[k] BY <1>0 DEF Typed
<1>d. PICK r : r = group[k] OBVIOUS
<1>1. at[k] = "run" /\ Op(k) = "group" /\ UNCHANGED <<prog, status, at, stack>> BY <1>a DEF Open, At
<1>2. g \in Groups /\ Is(Body(k), i, "group", g) BY <1>0, <1>1, <1>b, <1>c, OpsOf
<1>e. i \in 1 .. Len(Body(k)) /\ Len(Body(k)) \in Nat /\ DOMAIN Body(k) = 1 .. Len(Body(k))
  BY <1>0, <1>1, <1>c, OpsOf, Bodies DEF Typed
<1>3. pc'[k] = i + 1 /\ \A j \in Tasks : j # k => pc'[j] = pc[j]
  <2>1. pc' = [pc EXCEPT ![k] = @ + 1] BY <1>a DEF Open
  <2> QED BY <1>0, <1>c, <2>1, PcMoves
<1>4. group'[k] = g /\ \A j \in Tasks : j # k => group'[j] = group[j]
  BY <1>0, <1>a, <1>b DEF Open, Typed
<1>5. /\ groups'[g].open /\ groups'[g].count = 0 /\ groups'[g].parent = r
      /\ \A h \in Groups : h # g => groups'[h] = groups[h]
  <2>1. groups' = [groups EXCEPT ![g] = [open |-> TRUE, count |-> 0, parent |-> r]] BY <1>a, <1>b, <1>d DEF Open
  <2>2. groups'[g] = [open |-> TRUE, count |-> 0, parent |-> r] /\ \A h \in Groups : h # g => groups'[h] = groups[h]
    BY <1>0, <1>2, <2>1 DEF Typed
  <2> QED BY <2>2
<1>6. OpenAt(Body(k), i + 1) = OpenAt(Body(k), i) \cup {g} BY <1>2, <1>e, OpenNext
<1>7. \A j \in Tasks : \A b : OpenedAt(j, g, b) => j = k /\ b = i
  BY <1>0, <1>2, OnePlace DEF OpenedAt, Typed
<1>8. ~groups[g].open /\ Members(home, g) = {}
  <2>1. ~groups[g].open
    <3>1. SUFFICES ASSUME groups[g].open PROVE FALSE OBVIOUS
    <3>2. PICK j \in Tasks : \E b \in 1 .. pc[j] - 1 : OpenedAt(j, g, b) BY <1>2, <3>1, GroupStateParts
    <3>3. PICK b \in 1 .. pc[j] - 1 : OpenedAt(j, g, b) BY <3>2
    <3>4. j = k /\ b = i BY <1>7, <3>3
    <3> QED BY <1>c, <3>3, <3>4
  <2> QED BY <1>2, <2>1, GroupStateParts
<1>9. status[k] = "running" BY <1>0, <1>1, <1>a, CurFits DEF Busy, At, Fits
<1>10. GroupAt(home, k, i, r) BY <1>9, <1>c, <1>d, GroupStateParts
<1>11. ASSUME NEW j \in Tasks, status'[j] # "none" PROVE GroupAt(home, j, pc'[j], group'[j])
  <2>1. CASE j = k
    <3>1. GroupAt(home, k, i + 1, g)
      <4>1. i \in 1 .. (i + 1) - 1 BY <1>e
      <4> QED BY <1>2, <1>6, <4>1 DEF GroupAt, OpenedAt
    <3> QED BY <1>3, <1>4, <2>1, <3>1
  <2>2. CASE j # k BY <1>1, <1>3, <1>4, <1>11, <2>2, GroupStateParts
  <2> QED BY <2>1, <2>2
<1>12. ASSUME NEW j \in Tasks, NEW b \in 1 .. pc'[j] - 1, NEW h \in OpenAt(Body(j), pc'[j]), OpenedAt(j, h, b)
       PROVE  groups'[h].open /\ GroupAt(home, j, b, groups'[h].parent)
  <2>0. h \in Groups BY <1>12 DEF OpenAt
  <2>1. CASE h = g BY <1>5, <1>7, <1>10, <1>12, <2>1
  <2>2. CASE h # g
    <3>1. CASE j = k
      <4>1. b \in 1 .. i BY <1>3, <3>1
      <4>2. b # i
        <5>1. SUFFICES ASSUME b = i PROVE FALSE OBVIOUS
        <5>2. Is(Body(k), i, "group", h) BY <1>12, <3>1, <5>1 DEF OpenedAt
        <5>3. h = g BY <1>2, <5>2 DEF Is
        <5> QED BY <2>2, <5>3
      <4>3. b \in 1 .. pc[j] - 1 BY <1>c, <3>1, <4>1, <4>2
      <4>4. h \in OpenAt(Body(j), pc[j]) BY <1>3, <1>6, <1>c, <2>2, <3>1
      <4> QED BY <1>5, <1>12, <2>0, <2>2, <4>3, <4>4, GroupStateParts
    <3>2. CASE j # k
      <4>1. pc'[j] = pc[j] BY <1>3, <3>2
      <4> QED BY <1>5, <1>12, <2>0, <2>2, <4>1, GroupStateParts
    <3> QED BY <3>1, <3>2
  <2> QED BY <2>1, <2>2
<1>13. ASSUME NEW h \in Groups, groups'[h].open PROVE \E j \in Tasks : \E b \in 1 .. pc'[j] - 1 : OpenedAt(j, h, b)
  <2>1. CASE h = g
    <3>1. i \in 1 .. pc'[k] - 1 BY <1>3, <1>e
    <3> QED BY <1>2, <2>1, <3>1 DEF OpenedAt
  <2>2. CASE h # g
    <3>1. PICK j \in Tasks : \E b \in 1 .. pc[j] - 1 : OpenedAt(j, h, b) BY <1>5, <1>13, <2>2, GroupStateParts
    <3>2. PICK b \in 1 .. pc[j] - 1 : OpenedAt(j, h, b) BY <3>1
    <3>3. pc[j] \in Nat /\ (pc'[j] = pc[j] \/ pc'[j] = pc[j] + 1) BY <1>0, <1>3, <1>c DEF Typed
    <3>4. b \in 1 .. pc'[j] - 1 BY <3>3
    <3> QED BY <3>2, <3>4
  <2> QED BY <2>1, <2>2
<1>14. ASSUME NEW h \in Groups
       PROVE  /\ IsFiniteSet(Members(home, h)')
              /\ IF groups'[h].open THEN groups'[h].count = Cardinality(Members(home, h)')
                 ELSE Members(home, h)' = {}
  <2>1. PICK M : M = Members(home, h) OBVIOUS
  <2>2. IsFiniteSet(M) /\ IF groups[h].open THEN groups[h].count = Cardinality(M) ELSE M = {}
    BY <2>1, GroupStateParts
  <2>3. Members(home, h)' = M BY <1>1, <2>1 DEF Members, Member
  <2>4. CASE h = g
    <3>1. M = {} BY <1>8, <2>1, <2>4
    <3>2. Cardinality(M) = 0 BY <3>1, FS_EmptySet
    <3> QED BY <1>5, <2>2, <2>3, <2>4, <3>2
  <2>5. CASE h # g BY <1>5, <2>2, <2>3, <2>5
  <2> QED BY <2>4, <2>5
<1>15. ASSUME NEW j \in Tasks, at'[j] = "ungroup"
       PROVE  ~OffStack(j)' /\ group'[j] = home[j] /\ group'[j] # Nobody
  <2>1. at[j] = "ungroup" /\ j # k BY <1>1, <1>15
  <2>2. ~OffStack(j) /\ group[j] = home[j] /\ group[j] # Nobody BY <2>1, GroupStateParts
  <2> QED BY <1>4, <2>1, <2>2, StaysOnStack
<1>16. home \in [Tasks -> Groups \cup {Nobody}] /\ \A j \in Implicit : home[j] = Nobody BY GroupStateParts
<1> QED BY <1>1, <1>11, <1>12, <1>13, <1>14, <1>15, <1>16, GroupStateNext

LEMMA GroupsEnd ==
    ASSUME NEW t, Stepped(t), EndGroup(t), NEW home, GroupState(home) PROVE GroupState(home)'
<1>0. Inv /\ t \in Threads /\ Acts(t) /\ Typed /\ Shape /\ Doing /\ t \in Implicit BY InvParts, Tops DEF Stepped
<1>a. PICK k \in Tasks : k = Cur(t) BY <1>0, Tops
<1>b. PICK g : g = group[k] OBVIOUS
<1>c. PICK i \in Nat : i = pc[k] BY <1>0 DEF Typed
<1>1. at[k] = "run" /\ Op(k) = "endgroup" /\ UNCHANGED <<prog, status, at, stack>> BY <1>a DEF EndGroup, At
<1>2. status[k] = "running" BY <1>0, <1>1, <1>a, CurFits DEF Busy, At, Fits
<1>3. g = Arg(k) /\ g \in Groups
      /\ \E b \in 1 .. i - 1 : OpenedAt(k, g, b) /\ g \in OpenAt(Body(k), i)
                               /\ OpenAt(Body(k), i) = OpenAt(Body(k), b) \cup {g}
  BY <1>0, <1>1, <1>2, <1>b, <1>c, InnerGroup
<1>d. PICK b0 \in 1 .. i - 1 : OpenedAt(k, g, b0) /\ g \in OpenAt(Body(k), i)
                               /\ OpenAt(Body(k), i) = OpenAt(Body(k), b0) \cup {g}
  BY <1>3
<1>e. i \in 1 .. Len(Body(k)) /\ Len(Body(k)) \in Nat /\ DOMAIN Body(k) = 1 .. Len(Body(k))
      /\ Is(Body(k), i, "endgroup", g)
  BY <1>0, <1>1, <1>3, <1>c, OpsOf, Bodies DEF Typed
<1>4. pc'[k] = i + 1 /\ \A j \in Tasks : j # k => pc'[j] = pc[j]
  <2>1. pc' = [pc EXCEPT ![k] = @ + 1] BY <1>a DEF EndGroup
  <2> QED BY <1>0, <1>c, <2>1, PcMoves
<1>f. PICK r : r = groups[g].parent OBVIOUS
<1>5. group'[k] = r /\ \A j \in Tasks : j # k => group'[j] = group[j]
  BY <1>0, <1>a, <1>b, <1>f DEF EndGroup, Typed
<1>6. /\ ~groups'[g].open
      /\ \A h \in Groups : /\ groups'[h].count = groups[h].count
                           /\ groups'[h].parent = groups[h].parent
                           /\ h # g => groups'[h].open = groups[h].open
  <2>1. groups' = [groups EXCEPT ![g].open = FALSE] BY <1>a, <1>b DEF EndGroup
  <2> QED BY <1>0, <1>3, <2>1, EndOf
<1>7. groups[g].open /\ GroupAt(home, k, b0, r) BY <1>c, <1>d, <1>f, GroupStateParts
<1>8. Members(home, g) = {}
  <2>1. groups[g].count = 0
    <3>1. Done(t) BY DEF EndGroup
    <3>2. Op(Cur(t)) = "endgroup" BY <1>1, <1>a
    <3>3. groups[group[Cur(t)]].count = 0 BY <3>1, <3>2 DEF Done
    <3> QED BY <1>a, <1>b, <3>3
  <2>2. PICK M : M = Members(home, g) OBVIOUS
  <2>3. IsFiniteSet(M) /\ Cardinality(M) = 0 BY <1>3, <1>7, <2>1, <2>2, GroupStateParts
  <2> QED BY <2>2, <2>3, FS_EmptySet
<1>9. OpenAt(Body(k), i + 1) = OpenAt(Body(k), b0) /\ OpenAt(Body(k), i + 1) = OpenAt(Body(k), i) \ {g}
  <2>1. OpenAt(Body(k), i + 1) = OpenAt(Body(k), i) \ {g} BY <1>e, OpenNext
  <2>2. g \notin OpenAt(Body(k), b0) BY <1>0, <1>d, NotYetOpen DEF Typed
  <2> QED BY <1>d, <2>1, <2>2
<1>10. \A j \in Tasks : \A b : OpenedAt(j, g, b) => j = k
  BY <1>0, <1>d, OnePlace DEF OpenedAt, Typed
<1>11. ASSUME NEW j \in Tasks, status'[j] # "none" PROVE GroupAt(home, j, pc'[j], group'[j])
  <2>1. CASE j = k
    <3>1. b0 <= i + 1 /\ b0 \in Int /\ i + 1 \in Int OBVIOUS
    <3>2. GroupAt(home, k, i + 1, r) BY <1>7, <1>9, <3>1, GroupAtMoves
    <3> QED BY <1>4, <1>5, <2>1, <3>2
  <2>2. CASE j # k BY <1>1, <1>4, <1>5, <1>11, <2>2, GroupStateParts
  <2> QED BY <2>1, <2>2
<1>12. ASSUME NEW j \in Tasks, NEW b \in 1 .. pc'[j] - 1, NEW h \in OpenAt(Body(j), pc'[j]), OpenedAt(j, h, b)
       PROVE  groups'[h].open /\ GroupAt(home, j, b, groups'[h].parent)
  <2>0. h \in Groups BY <1>12 DEF OpenAt
  <2>1. CASE j = k
    <3>1. h # g /\ h \in OpenAt(Body(j), pc[j]) BY <1>4, <1>9, <1>c, <2>1
    <3>2. b \in 1 .. i BY <1>4, <2>1
    <3>3. b # i BY <1>12, <1>e, <2>1 DEF OpenedAt, Is
    <3>4. b \in 1 .. pc[j] - 1 BY <1>c, <2>1, <3>2, <3>3
    <3> QED BY <1>6, <1>12, <2>0, <3>1, <3>4, GroupStateParts
  <2>2. CASE j # k
    <3>1. pc'[j] = pc[j] /\ h # g BY <1>4, <1>10, <1>12, <2>2
    <3> QED BY <1>6, <1>12, <2>0, <3>1, GroupStateParts
  <2> QED BY <2>1, <2>2
<1>13. ASSUME NEW h \in Groups, groups'[h].open PROVE \E j \in Tasks : \E b \in 1 .. pc'[j] - 1 : OpenedAt(j, h, b)
  <2>1. groups[h].open BY <1>6, <1>13
  <2>2. PICK j \in Tasks : \E b \in 1 .. pc[j] - 1 : OpenedAt(j, h, b) BY <2>1, GroupStateParts
  <2>3. PICK b \in 1 .. pc[j] - 1 : OpenedAt(j, h, b) BY <2>2
  <2>4. pc[j] \in Nat /\ (pc'[j] = pc[j] \/ pc'[j] = pc[j] + 1) BY <1>0, <1>4, <1>c DEF Typed
  <2>5. b \in 1 .. pc'[j] - 1 BY <2>4
  <2> QED BY <2>3, <2>5
<1>14. ASSUME NEW h \in Groups
       PROVE  /\ IsFiniteSet(Members(home, h)')
              /\ IF groups'[h].open THEN groups'[h].count = Cardinality(Members(home, h)')
                 ELSE Members(home, h)' = {}
  <2>1. PICK M : M = Members(home, h) OBVIOUS
  <2>2. IsFiniteSet(M) /\ IF groups[h].open THEN groups[h].count = Cardinality(M) ELSE M = {}
    BY <2>1, GroupStateParts
  <2>3. Members(home, h)' = M BY <1>1, <2>1 DEF Members, Member
  <2>4. CASE h = g BY <1>6, <1>8, <2>1, <2>2, <2>3, <2>4
  <2>5. CASE h # g BY <1>6, <2>2, <2>3, <2>5
  <2> QED BY <2>4, <2>5
<1>15. ASSUME NEW j \in Tasks, at'[j] = "ungroup"
       PROVE  ~OffStack(j)' /\ group'[j] = home[j] /\ group'[j] # Nobody
  <2>1. at[j] = "ungroup" /\ j # k BY <1>1, <1>15
  <2>2. ~OffStack(j) /\ group[j] = home[j] /\ group[j] # Nobody BY <2>1, GroupStateParts
  <2> QED BY <1>5, <2>1, <2>2, StaysOnStack
<1>16. home \in [Tasks -> Groups \cup {Nobody}] /\ \A j \in Implicit : home[j] = Nobody BY GroupStateParts
<1> QED BY <1>1, <1>11, <1>12, <1>13, <1>14, <1>15, <1>16, GroupStateNext

LEMMA GroupsAlloc ==
    ASSUME NEW t, Stepped(t), Alloc(t), NEW home, GroupState(home)
    PROVE  \E home1 : /\ home1 = [home EXCEPT ![Arg(Cur(t))] = group[Cur(t)]]
                      /\ GroupState(home1)'
<1>0. Inv /\ t \in Threads /\ Acts(t) /\ Typed /\ Shape /\ Doing /\ t \in Implicit BY InvParts, Tops DEF Stepped
<1>a. PICK k \in Tasks : k = Cur(t) BY <1>0, Tops
<1>b. PICK c \in Explicit : c = Arg(k) BY <1>0, <1>a, AllocTakes
<1>c. PICK r : r = group[k] OBVIOUS
<1>1. /\ status[k] = "running" /\ status[c] = "none" /\ c # k /\ prog' = prog /\ stack' = stack
      /\ pc'[k] = pc[k] + 1 /\ \A j \in Tasks : j # k => pc'[j] = pc[j]
      /\ status'[c] = "created" /\ \A j \in Tasks : j # c => status'[j] = status[j]
      /\ groups' = Counted(k) /\ group' = [group EXCEPT ![c] = group[k]]
      /\ Op(k) = "task" /\ At(t, "run") /\ c \in Tasks /\ c \notin Implicit
  BY <1>0, <1>a, <1>b, Numbers, AllocTakes
<1>2. r \in Groups \cup {Nobody} /\ (r # Nobody => r \in Groups /\ groups[r].open)
  BY <1>0, <1>1, <1>c, InOpenGroup DEF Typed
<1>3. PICK home1 : home1 = [home EXCEPT ![c] = r] OBVIOUS
<1>4. /\ home1 \in [Tasks -> Groups \cup {Nobody}] /\ home1[c] = r /\ \A j \in Tasks : j # c => home1[j] = home[j]
      /\ \A j \in Implicit : home1[j] = Nobody
  <2>1. home \in [Tasks -> Groups \cup {Nobody}] /\ \A j \in Implicit : home[j] = Nobody BY GroupStateParts
  <2>2. \A j \in Implicit : j \in Tasks /\ j # c BY <1>1 DEF Tasks
  <2> QED BY <1>1, <1>2, <1>3, <2>1, <2>2
<1>5. group'[c] = r /\ \A j \in Tasks : j # c => group'[j] = group[j] BY <1>0, <1>1, <1>c DEF Typed
<1>6. \A j \in Tasks : Neutral(j) BY <1>1 DEF Neutral
<1>d. ~Finish(t) /\ ~LeaveGroup(t)
  <2>1. at[k] = "run" BY <1>1, <1>a DEF At
  <2> QED BY <1>1, <1>a, <2>1 DEF Finish, LeaveGroup, At
<1>7. /\ \A h \in Groups : groups'[h].open = groups[h].open /\ groups'[h].parent = groups[h].parent
      /\ \A h \in Groups : h # r => groups'[h].count = groups[h].count
      /\ r # Nobody => groups'[r].count = groups[r].count + 1
  <2>1. CASE r = Nobody BY <1>1, <1>c, <2>1, Numbers DEF Counted
  <2>2. CASE r # Nobody
    <3>1. PICK d \in Int : d = 1 OBVIOUS
    <3>2. groups' = [groups EXCEPT ![r].count = @ + d] BY <1>1, <1>c, <2>2, <3>1 DEF Counted
    <3> QED BY <1>0, <1>2, <2>2, <3>1, <3>2, CountOf
  <2> QED BY <2>1, <2>2
<1>8. pc[c] = 1 /\ pc'[c] = 1 /\ at[c] = "run"
  BY <1>0, <1>1, InvParts DEF Idle
<1>9. \A j \in Tasks : j # c => \A i, g : GroupAt(home, j, i, g) => GroupAt(home1, j, i, g)
  BY <1>4 DEF GroupAt
<1>10. ASSUME NEW j \in Tasks, status'[j] # "none" PROVE GroupAt(home1, j, pc'[j], group'[j])
  <2>1. CASE j = c BY <1>4, <1>5, <1>8, <2>1, OpenFirst DEF GroupAt
  <2>2. CASE j # c
    <3>1. GroupAt(home, j, pc[j], group[j]) BY <1>1, <1>10, <2>2, GroupStateParts
    <3>2. GroupAt(home, j, pc'[j], group[j]) BY <1>0, <1>6, <3>1, Positions
    <3> QED BY <1>5, <1>9, <2>2, <3>2
  <2> QED BY <2>1, <2>2
<1>11. /\ \A j \in Tasks : \A b \in 1 .. pc'[j] - 1 : \A h \in OpenAt(Body(j), pc'[j]) :
            OpenedAt(j, h, b) => groups'[h].open /\ GroupAt(home, j, b, groups'[h].parent)
       /\ \A h \in Groups : groups'[h].open => \E j \in Tasks : \E b \in 1 .. pc'[j] - 1 : OpenedAt(j, h, b)
  BY <1>0, <1>1, <1>6, <1>7, ParentsKept
<1>12. ASSUME NEW j \in Tasks, NEW b \in 1 .. pc'[j] - 1, NEW h \in OpenAt(Body(j), pc'[j]), OpenedAt(j, h, b)
       PROVE  groups'[h].open /\ GroupAt(home1, j, b, groups'[h].parent)
  <2>1. j # c BY <1>8
  <2> QED BY <1>9, <1>11, <1>12, <2>1
<1>13. ASSUME NEW h \in Groups
       PROVE  /\ IsFiniteSet(Members(home1, h)')
              /\ IF groups'[h].open THEN groups'[h].count = Cardinality(Members(home1, h)')
                 ELSE Members(home1, h)' = {}
  <2>1. PICK M : M = Members(home, h) OBVIOUS
  <2>2. IsFiniteSet(M) /\ IF groups[h].open THEN groups[h].count = Cardinality(M) ELSE M = {}
    BY <2>1, GroupStateParts
  <2>a. \A j \in Tasks : j # c => (at'[j] = "ungroup" <=> at[j] = "ungroup")
    BY <1>d, AtMoves
  <2>3. \A j \in Explicit : j # c => (Member(j)' <=> Member(j)) BY <1>1, <2>a DEF Member, Tasks
  <2>4. ~Member(c) /\ Member(c)' BY <1>1 DEF Member
  <2>5. \A j \in Explicit : j # c => home1[j] = home[j] BY <1>4 DEF Tasks
  <2>6. c \notin M BY <2>1, <2>4 DEF Members
  <2>7. CASE h = r
    <3>1. PICK G : G = M \cup {c} OBVIOUS
    <3>2. Members(home1, h)' = G BY <1>4, <2>1, <2>3, <2>4, <2>5, <2>7, <3>1 DEF Members
    <3>3. IsFiniteSet(G) /\ Cardinality(G) = Cardinality(M) + 1 BY <2>2, <2>6, <3>1, FS_AddElement
    <3>4. h # Nobody BY Numbers
    <3>5. groups[h].open /\ groups[h].count = Cardinality(M) BY <1>2, <2>2, <2>7, <3>4
    <3> QED BY <1>7, <2>7, <3>2, <3>3, <3>4, <3>5
  <2>8. CASE h # r
    <3>1. Members(home1, h)' = M BY <1>4, <2>1, <2>3, <2>4, <2>5, <2>8 DEF Members
    <3> QED BY <1>7, <2>2, <2>8, <3>1
  <2> QED BY <2>7, <2>8
<1>14. ASSUME NEW j \in Tasks, at'[j] = "ungroup"
       PROVE  ~OffStack(j)' /\ group'[j] = home1[j] /\ group'[j] # Nobody
  <2>1. at[j] = "ungroup" BY <1>d, <1>14, AtMoves
  <2>2. j # c BY <1>8, <2>1
  <2>3. ~OffStack(j) /\ group[j] = home[j] /\ group[j] # Nobody BY <2>1, GroupStateParts
  <2> QED BY <1>4, <1>5, <2>1, <2>2, <2>3, StaysOnStack
<1>15. GroupState(home1)' BY <1>1, <1>4, <1>10, <1>11, <1>12, <1>13, <1>14, GroupStateNext
<1> QED BY <1>a, <1>b, <1>c, <1>3, <1>15
---------------------------------------------------------------------------
(* The invariant holds.                                                    *)

LEMMA GroupsStep == ASSUME Inv, NEW t \in Threads, Acts(t) PROVE GroupsInv'
<1>1. Stepped(t) BY SteppedOf
<1>2. PICK home : GroupState(home) BY InvParts DEF GroupsInv
<1>3. CASE Alloc(t)
  <2>1. PICK home1 : GroupState(home1)' BY <1>1, <1>2, <1>3, GroupsAlloc
  <2> QED BY <2>1 DEF GroupsInv
<1>4. CASE ~Alloc(t)
  <2>1. GroupState(home)' BY <1>1, <1>2, <1>4, GroupsKept, GroupsFinish, GroupsLeave, GroupsOpen, GroupsEnd
  <2> QED BY <2>1 DEF GroupsInv
<1> QED BY <1>3, <1>4

LEMMA GroupsStay ==
    ASSUME Inv, Master \/ UNCHANGED vars, NEW home, GroupState(home) PROVE GroupState(home)'
<1>0. Typed BY InvParts
<1>2. UNCHANGED <<prog, status, at, stack, group, groups>>
  BY DEF Master, Gathered, Drained, ReleaseAll, vars, body, counters
<1>3. \A k \in Tasks : Neutral(k)
  <2>1. CASE Master
    <3>1. pc' = pc \/ (pc' = [pc EXCEPT ![0] = @ + 1] /\ Op(0) = "barrier") BY <2>1, MasterKeeps
    <3>2. 0 \in Tasks BY <1>0, ThreadTasks DEF Typed
    <3>3. CASE pc' = [pc EXCEPT ![0] = @ + 1] /\ Op(0) = "barrier"
      <4>1. pc'[0] = pc[0] + 1 /\ \A k \in Tasks : k # 0 => pc'[k] = pc[k] BY <1>0, <3>2, <3>3, PcMoves
      <4> QED BY <3>3, <4>1 DEF Neutral
    <3> QED BY <3>1, <3>3 DEF Neutral
  <2>2. CASE UNCHANGED vars BY <2>2 DEF vars, body, Neutral
  <2> QED BY <2>1, <2>2
<1>4. ASSUME NEW k \in Tasks, status'[k] # "none" PROVE GroupAt(home, k, pc'[k], group'[k])
  <2>1. GroupAt(home, k, pc[k], group[k]) BY <1>2, <1>4, GroupStateParts
  <2> QED BY <1>0, <1>2, <1>3, <2>1, Positions
<1>5. /\ \A k \in Tasks : \A b \in 1 .. pc'[k] - 1 : \A g \in OpenAt(Body(k), pc'[k]) :
            OpenedAt(k, g, b) => groups'[g].open /\ GroupAt(home, k, b, groups'[g].parent)
      /\ \A g \in Groups : groups'[g].open => \E k \in Tasks : \E b \in 1 .. pc'[k] - 1 : OpenedAt(k, g, b)
  BY <1>0, <1>2, <1>3, ParentsKept
<1>6. ASSUME NEW g \in Groups
      PROVE  /\ IsFiniteSet(Members(home, g)')
             /\ IF groups'[g].open THEN groups'[g].count = Cardinality(Members(home, g)')
                ELSE Members(home, g)' = {}
  <2>1. PICK M : M = Members(home, g) OBVIOUS
  <2>2. Members(home, g)' = M BY <1>2, <2>1 DEF Members, Member
  <2> QED BY <1>2, <2>1, <2>2, GroupStateParts
<1>7. \A k : OffStack(k)' <=> OffStack(k) BY <1>2 DEF OffStack, Threads
<1>8. \A k \in Tasks : at'[k] = "ungroup" => ~OffStack(k)' /\ group'[k] = home[k] /\ group'[k] # Nobody
  BY <1>2, <1>7, GroupStateParts
<1>9. home \in [Tasks -> Groups \cup {Nobody}] /\ \A k \in Implicit : home[k] = Nobody BY GroupStateParts
<1> QED BY <1>2, <1>4, <1>5, <1>6, <1>8, <1>9, GroupStateNext

LEMMA GroupsMaster == ASSUME Inv, Master \/ UNCHANGED vars PROVE GroupsInv'
<1>1. PICK home : GroupState(home) BY InvParts DEF GroupsInv
<1> QED BY <1>1, GroupsStay DEF GroupsInv

LEMMA InvNext == ASSUME Inv, Next \/ UNCHANGED vars PROVE Inv'
<1>1. CASE \E t \in Threads : Acts(t)
  <2>1. PICK t \in Threads : Acts(t) BY <1>1
  <2>2. Thieves' /\ InOnePlace' /\ Predecessors' BY <2>1, ThievesStep, InOnePlaceStep, PredecessorsStep
  <2>3. Spawning' /\ ReferenceCounts' /\ GroupsInv' BY <2>1, SpawningStep, ReferencesStep, GroupsStep
  <2>4. Typed' /\ InBarrier' /\ Stacks' BY TypedNext
  <2> QED BY <2>2, <2>3, <2>4 DEF Inv, StackInv, Stacks
<1>2. CASE Master \/ UNCHANGED vars
  <2>2. Thieves' /\ InOnePlace' /\ Predecessors' BY <1>2, ThievesMaster, InOnePlaceMaster, PredecessorsMaster
  <2>3. Spawning' /\ ReferenceCounts' /\ GroupsInv' BY <1>2, SpawningMaster, ReferencesMaster, GroupsMaster
  <2>4. Typed' /\ InBarrier' /\ Stacks' BY TypedNext
  <2> QED BY <2>2, <2>3, <2>4 DEF Inv, StackInv, Stacks
<1> QED BY <1>1, <1>2 DEF Next, Finished, Acts

LEMMA InvInit == ASSUME Init PROVE Inv
<1>0. prog \in Programs /\ Threads \subseteq Implicit /\ Threads \subseteq Tasks /\ Implicit \subseteq Tasks
      /\ Explicit \subseteq Tasks /\ Explicit \cap Implicit = {} /\ Nobody \notin Explicit
  BY ThreadTasks, Numbers DEF Init
<1>1. \A t \in Threads : stack[t] = <<t>> BY <1>0 DEF Init
<1>2. \A t : Elems(<<t>>) = {t} /\ Once(<<t>>) BY DEF Elems, Once
<1>3. Elems(<<>>) = {} /\ Once(<<>>) BY DEF Elems, Once
<1>4. \A t \in Threads : Cur(t) = t /\ (\A w : At(t, w) <=> w = "run")
  <2>1. \A k \in Tasks : at[k] = "run" BY DEF Init
  <2>2. \A t : Head(<<t>>) = t /\ <<t>> # <<>> OBVIOUS
  <2> QED BY <1>0, <1>1, <2>1, <2>2 DEF Cur, At
<1>5. \A k \in Tasks : /\ pc[k] = 1 /\ at[k] = "run" /\ group[k] = Nobody
                       /\ status[k] = IF k \in Threads THEN "running" ELSE "none"
                       /\ node[k] = [live |-> FALSE, npred |-> 0, succ |-> <<>>]
  BY DEF Init
<1>6. \A k \in Explicit : status[k] = "none" BY <1>0, <1>5
<1>7. Typed
  <2>1. prog \in Programs BY <1>0
  <2>2. pc \in [Tasks -> Nat] /\ \A k \in Tasks : pc[k] \in 1 .. Len(Body(k)) + 1
    <3>1. \A k \in Tasks : Len(Body(k)) \in Nat BY <1>0, Bodies
    <3>2. pc = [k \in Tasks |-> 1] BY DEF Init
    <3> QED BY <3>1, <3>2
  <2>3. status \in [Tasks -> Statuses] /\ at \in [Tasks -> Busy \cup Ending \cup {"climb"}]
    BY DEF Init, Statuses, Busy
  <2>4. stack \in [Implicit -> Seq(Tasks)]
    <3>1. \A t \in Implicit : (IF t \in Threads THEN <<t>> ELSE <<>>) \in Seq(Tasks) BY <1>0
    <3>2. stack = [t \in Implicit |-> IF t \in Threads THEN <<t>> ELSE <<>>] BY DEF Init
    <3> QED BY <3>1, <3>2
  <2>5. refs \in [Tasks -> Int] /\ group \in [Tasks -> Groups \cup {Nobody}] BY DEF Init
  <2>6. groups \in [Groups -> GroupType] BY DEF Init, GroupType
  <2>7. deque \in [{0, 1} -> [Implicit -> DequeType]]
    <3>1. [tasks |-> <<>>, cap |-> DequeSize] \in DequeType BY DequeAssumption DEF DequeType
    <3>2. deque = [p \in {0, 1} |-> [t \in Implicit |-> [tasks |-> <<>>, cap |-> DequeSize]]] BY DEF Init
    <3> QED BY <3>1, <3>2
  <2>8. loot \in [Implicit -> Explicit \cup {Nobody}] /\ climb \in [Implicit -> Tasks \cup {Nobody}] BY DEF Init
  <2>9. mine \in [Implicit -> {0, 1, Nobody}] /\ parity \in [Implicit -> {0, 1}] BY DEF Init
  <2>10. phase \in [Implicit -> {"none", "gather", "drain", "open", "await"}] BY DEF Init
  <2>11. node \in [Tasks -> NodeType]
    <3>1. [live |-> FALSE, npred |-> 0, succ |-> <<>>] \in NodeType BY DEF NodeType
    <3>2. node = [k \in Tasks |-> [live |-> FALSE, npred |-> 0, succ |-> <<>>]] BY DEF Init
    <3> QED BY <3>1, <3>2
  <2>12. table \in [Tasks -> [Addrs -> EntryType]]
    <3>1. NewEntry \in EntryType BY DEF NewEntry, EntryType
    <3>2. table = [k \in Tasks |-> [a \in Addrs |-> NewEntry]] BY DEF Init
    <3> QED BY <3>1, <3>2
  <2>13. links \in [Implicit -> LinkType]
    <3>1. [todo |-> <<>>, next |-> 1, n |-> 0] \in LinkType BY DEF LinkType
    <3>2. links = [t \in Implicit |-> [todo |-> <<>>, next |-> 1, n |-> 0]] BY DEF Init
    <3> QED BY <3>1, <3>2
  <2> QED BY <2>1, <2>2, <2>3, <2>4, <2>5, <2>6, <2>7, <2>8, <2>9, <2>10, <2>11, <2>12, <2>13 DEF Typed
<1>8. Shape BY <1>1, <1>2 DEF Shape
<1>9. Doing
  <2>1. ASSUME NEW t \in Threads, NEW k \in Elems(stack[t]) PROVE Fits(t, k)
    <3>1. k = t BY <1>1, <1>2, <2>1
    <3>2. at[k] = "run" /\ status[k] = "running" /\ k = Cur(t) BY <1>0, <1>4, <1>5, <3>1
    <3> QED BY <3>2 DEF Fits, Ending
  <2> QED BY <2>1 DEF Doing
<1>10. Idle
  <2>1. \A k \in Explicit : OffStack(k) BY <1>0, <1>1, <1>2 DEF OffStack
  <2> QED BY <1>0, <1>5, <2>1 DEF Idle
<1>11. Thieves
  <2>1. \A t \in Threads : loot[t] = Nobody /\ mine[t] = 0 BY <1>0 DEF Init
  <2> QED BY <1>4, <2>1 DEF Thieves
<1>12. InBarrier BY <1>0 DEF InBarrier, Init
<1>13. \A c \in Explicit : \A x, p, t : ~Lies(c, x, p, t)
  <2>1. \A t \in Threads : \A c : ~InHand(t, c) BY <1>4 DEF InHand
  <2>2. \A p \in {0, 1}, t \in Implicit : deque[p][t].tasks = <<>> BY DEF Init
  <2>3. \A t \in Threads : loot[t] = Nobody BY <1>0 DEF Init
  <2> QED BY <1>0, <1>3, <2>1, <2>2, <2>3 DEF Lies
<1>14. InOnePlace
  <2>1. \A p \in {0, 1}, t \in Implicit : deque[p][t].tasks = <<>> BY DEF Init
  <2>2. \A t \in Threads : ~At(t, "link") /\ ~At(t, "push") BY <1>4
  <2>3. \A c : c \in Explicit => ~Lying(c) BY <1>13 DEF Lying
  <2> QED BY <1>3, <1>13, <2>1, <2>2, <2>3 DEF InOnePlace
<1>15. Predecessors
  <2>1. \A k \in Tasks : node[k].succ = <<>> /\ ~node[k].live BY <1>5
  <2>2. \A c : Entries(c) = {} BY <2>1 DEF Entries
  <2>3. \A t \in Threads : \A c : ~Linking(t, c) BY <1>4 DEF Linking
  <2> QED BY <1>0, <2>1, <2>2, <2>3 DEF Predecessors
<1>16. Spawning BY <1>6 DEF Spawning
<1>17. ReferenceCounts
  <2>1. \A k \in Explicit : ~Live(k) /\ ~Whole(k) BY <1>6 DEF Live, Whole
  <2>2. \A t \in Threads : \A k : ~Dropping(t, k) BY <1>4 DEF Dropping
  <2>3. \A k \in Explicit : Holders(k) = {} BY <2>1, <2>2 DEF Holders, Children
  <2> QED BY <2>1, <2>3, FS_EmptySet DEF ReferenceCounts
<1>18. GroupsInv
  <2>1. PICK home : home = [k \in Tasks |-> Nobody] OBVIOUS
  <2>2. \A k \in Tasks : home[k] = Nobody BY <2>1
  <2>3. \A k \in Tasks : GroupAt(home, k, pc[k], group[k]) BY <1>5, <2>2, OpenFirst DEF GroupAt
  <2>4. \A k \in Tasks : 1 .. pc[k] - 1 = {} BY <1>5
  <2>5. \A g \in Groups : ~groups[g].open BY DEF Init
  <2>6. \A g \in Groups : Members(home, g) = {} BY <1>6 DEF Members, Member
  <2>7. home \in [Tasks -> Groups \cup {Nobody}] BY <2>1
  <2>8. GroupState(home) BY <1>0, <1>5, <2>2, <2>3, <2>4, <2>5, <2>6, <2>7, FS_EmptySet DEF GroupState
  <2> QED BY <2>8 DEF GroupsInv
<1> QED BY <1>7, <1>8, <1>9, <1>10, <1>11, <1>12, <1>14, <1>15, <1>16, <1>17, <1>18 DEF Inv, StackInv

LEMMA Safe == ASSUME Inv PROVE NoUseAfterFree
<1>0. Typed /\ Shape /\ Doing /\ Idle BY InvParts
<1>1. PICK home : GroupState(home) BY InvParts DEF GroupsInv
<1>2. ASSUME NEW k \in Explicit, status[k] \in {"created", "running", "complete"}
      PROVE  /\ status[Spawner(k)] # "freed"
             /\ status[k] # "complete" /\ group[k] # Nobody => groups[group[k]].open
  <2>1. k \in Tasks BY DEF Tasks
  <2>2. PICK p \in Tasks : \E i \in 1 .. pc[p] - 1 : Is(Body(p), i, "task", k)
    BY <1>2, InvParts DEF Spawning, SpawnedBefore
  <2>3. Spawner(k) = p BY <1>0, <2>2, Spawners DEF Typed
  <2>4. p \in Implicit => status[p] # "freed" BY <1>0 DEF Idle
  <2>5. p \in Explicit => status[p] # "freed"
    <3>1. SUFFICES ASSUME p \in Explicit PROVE Live(p) BY DEF Live
    <3>2. k \in Holders(p) BY <1>2, <2>3 DEF Holders, Children, Live
    <3>3. Held(p) BY <3>1, InvParts, HeldAll
    <3> QED BY <3>2, <3>3 DEF Held
  <2>6. status[k] # "complete" /\ group[k] # Nobody => groups[group[k]].open
    BY <1>0, <1>1, <1>2, <2>1, InOpenGroup
  <2> QED BY <2>3, <2>4, <2>5, <2>6 DEF Tasks
<1>3. ASSUME NEW t \in Threads, At(t, "climb") PROVE status[climb[t]] # "freed"
  BY <1>3, LastReference DEF Live
<1>4. ASSUME NEW t \in Threads, At(t, "ungroup") PROVE groups[group[Cur(t)]].open
  <2>1. PICK k : k = Cur(t) OBVIOUS
  <2>2. k \in Tasks /\ at[k] = "ungroup" BY <1>0, <1>4, <2>1, Tops
  <2>3. status[k] = "complete" /\ k \in Explicit BY <1>0, <1>4, <2>1, CurFits DEF Ending
  <2>4. group[k] = home[k] /\ group[k] # Nobody BY <1>1, <2>2, GroupStateParts
  <2>5. PICK g \in Groups : g = group[k] BY <1>0, <2>2, <2>4 DEF Typed
  <2>6. k \in Members(home, g) BY <2>2, <2>3, <2>4, <2>5 DEF Members, Member
  <2>7. groups[g].open BY <1>1, <2>6, GroupStateParts
  <2> QED BY <2>1, <2>5, <2>7
<1> QED BY <1>2, <1>3, <1>4 DEF NoUseAfterFree

\* A task is freed when nobody can reach it any more (__kmp_free_task_and_ancestors,
\* kmp_tasking.cpp 741-806): not while it is created, running or complete, not while a
\* child of it has to give back its reference, not while a thread climbs to it; and the
\* group a task belongs to is not ended before the task has left it.
THEOREM NothingFreedInUse == Spec => []NoUseAfterFree
<1>1. Init => Inv BY InvInit
<1>2. Inv /\ [Next]_vars => Inv' BY InvNext
<1>3. Inv => NoUseAfterFree BY Safe
<1> QED BY <1>1, <1>2, <1>3, PTL DEF Spec
=============================================================================
