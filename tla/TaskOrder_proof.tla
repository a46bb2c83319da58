-------------------------- MODULE TaskOrder_proof --------------------------
(***************************************************************************)
(* Tasks start in the order of their dependences, exclude each other where *)
(* they ask for it as long as the task that spawned them has not ended, a  *)
(* taskwait waits for all children and the end of a group for all          *)
(* descendants, for every team, program of tasks and initial deque size    *)
(* (kmp_taskdeps.cpp, kmp_tasking.cpp).                                    *)
(*                                                                         *)
(* The table of dependences keeps, for each address, only the last writer  *)
(* and the readers since (or the holders of a lock): a new task is linked  *)
(* behind those, and must follow the others because the links do.  OrderInv*)
(* says why that is enough.  Among the siblings entered so far, those the  *)
(* table still names cover all the others that a new one has to follow     *)
(* (TablesInv); a sibling that c has to follow is over, or one that        *)
(* follows it, or itself, has c among its successors (PendingOrder), or is *)
(* still to be linked (LinkOrder).  When the last predecessor has notified *)
(* c, nobody has c among his successors, and what remains is that all its  *)
(* predecessors are over (ClearedOrder).                                   *)
(*                                                                         *)
(* A group counts only the tasks spawned with it as their innermost group. *)
(* The others inside it belong to groups nested in it, or opened by tasks  *)
(* that are over: such groups are closed, and have no members (EndsInv).   *)
(***************************************************************************)
EXTENDS Tasking_proof, WellFoundedInduction
---------------------------------------------------------------------------
(* The invariant.                                                          *)

Over(k) == status[k] \in {"complete", "freed"}
Begun(k) == status[k] \in {"running", "complete", "freed"}
Spawns(p, i, c) == Is(Body(p), i, "task", c)

\* c is ordered, on address a, after its sibling j: c writes, or it is of another kind
\* than one of the siblings from j on.
On(c, a) == \E n \in DOMAIN prog.deps[c] : prog.deps[c][n].addr = a
KindOn(c, a) == Merged(prog.deps[c], a)
Behind(c, j, a) ==
    \E p \in Tasks : \E l \in DOMAIN Body(p) : \E i \in 1 .. l - 1 :
        /\ Spawns(p, i, j) /\ Spawns(p, l, c) /\ On(j, a) /\ On(c, a)
        /\ \/ KindOn(c, a) = "out"
           \/ \E m \in Explicit : \E h \in i .. l - 1 :
                  Spawns(p, h, m) /\ On(m, a) /\ KindOn(m, a) # KindOn(c, a)
Prior(c, j) == \E a \in Addrs : Behind(c, j, a)

\* Thread t has dealt with the dependence of c on address a.
Made(t, c, a) ==
    \E n \in DOMAIN prog.deps[c] : n < links[t].next /\ prog.deps[c][n].addr = a

\* j is a child of p and has been in p's table for address a.
Entered(p, a, j) == /\ \E i \in 1 .. pc[p] - 1 : Spawns(p, i, j)
                    /\ On(j, a)
                    /\ \A t \in Threads : Linking(t, j) => Made(t, j, a)
Entereds(p, a) == {j \in Explicit : Entered(p, a, j)}

\* c waits for j, or for a sibling that itself is ordered after j.
Behindhand(c, j) == \E i \in Explicit : c \in Elems(node[i].succ) /\ (i = j \/ Prior(i, j))
Follows(c, j) == Over(j) \/ Behindhand(c, j)
ToLink(t, j) == \E i \in Elems(links[t].todo) : i = j \/ Prior(i, j)

\* c has begun, or nothing but a free thread is needed for that.
Cleared(c) == Begun(c) \/ (Lying(c) /\ \A t \in Threads : ~Linking(t, c))

\* The children a task has passed exist, and are live once their links are made.
Created ==
    \A p \in Tasks : \A i \in 1 .. pc[p] - 1 : \A c : Spawns(p, i, c) => status[c] # "none"
Settled == \A c \in Explicit :
    prog.deps[c] # <<>> /\ status[c] # "none" /\ (\A t \in Threads : ~Linking(t, c))
        => node[c].live \/ Over(c)

\* What c has to follow is over when c begins, and until then will bring c on.
ClearedOrder == \A c, j \in Explicit : Cleared(c) /\ Prior(c, j) => Over(j)
PendingOrder == \A c, j \in Explicit : Pending(c) /\ Prior(c, j) => Follows(c, j)
LinkOrder == \A t \in Threads : \A c, j \in Explicit : \A a \in Addrs :
    Linking(t, c) /\ Made(t, c, a) /\ Behind(c, j, a) => Follows(c, j) \/ ToLink(t, j)
TodoEarlier == \A t \in Threads : \A c \in Explicit : Linking(t, c) =>
    \A i \in Elems(links[t].todo) :
        prog.deps[i] # <<>> /\ \E h \in 1 .. pc[Cur(t)] - 2 : Spawns(Cur(t), h, i)

\* What an entry e of p's table says of the siblings S that have been in it: a new
\* one of some kind is linked behind tasks that cover all it has to follow.
From(p, j, m) == \E i, h \in DOMAIN Body(p) : Spawns(p, i, j) /\ Spawns(p, h, m) /\ i <= h
Against(p, a, S, kind, j) ==
    kind = "out" \/ \E m \in S : From(p, j, m) /\ KindOn(m, a) # kind
Among(s, S, a, kind) == \A i \in Elems(s) : i \in S /\ KindOn(i, a) = kind
Covered(a, e, j, kind) == \E i \in Elems(Links(e, kind)) : i = j \/ Behind(i, j, a)
Table(p, a, e, S) ==
    /\ Among(e.out, S, a, "out") /\ Among(e.ins, S, a, "in") /\ Among(e.mtxs, S, a, "mtx")
    /\ \A kind \in {"in", "out", "mtx"} :
         \A j \in S : Against(p, a, S, kind, j) => Covered(a, e, j, kind)
TablesInv == \A p \in Tasks, a \in Addrs : ~Over(p) => Table(p, a, table[p][a], Entereds(p, a))

OrderInv ==
    Created /\ Settled /\ ClearedOrder /\ PendingOrder /\ LinkOrder /\ TodoEarlier /\ TablesInv
---------------------------------------------------------------------------
(* Siblings and their dependences.                                         *)

LEMMA Place ==
    ASSUME prog \in Programs, NEW p \in Tasks, NEW q \in Tasks, NEW i, NEW j, NEW c,
           Spawns(p, i, c), Spawns(q, j, c)
    PROVE  p = q /\ i = j
BY OnePlace DEF Spawns

LEMMA SpawnsTask ==
    ASSUME prog \in Programs, NEW p \in Tasks, NEW i, NEW c, Spawns(p, i, c)
    PROVE  i \in DOMAIN Body(p) /\ i \in 1 .. Len(Body(p)) /\ i \in Nat /\ c \in Explicit
<1>1. i \in DOMAIN Body(p) /\ Body(p)[i] = [op |-> "task", arg |-> c] BY DEF Spawns, Is
<1>2. DOMAIN Body(p) = 1 .. Len(Body(p)) BY Bodies
<1>3. Body(p)[i].op = "task" /\ Body(p)[i].arg = c BY <1>1
<1> QED BY <1>1, <1>2, <1>3, Bodies

\* Only siblings are ordered.
LEMMA BehindEarlier ==
    ASSUME prog \in Programs, NEW c, NEW j, NEW a, Behind(c, j, a), NEW p \in Tasks, NEW l, Spawns(p, l, c)
    PROVE  /\ On(j, a) /\ On(c, a) /\ l \in DOMAIN Body(p) /\ l \in Nat
           /\ \E i \in 1 .. l - 1 : Spawns(p, i, j)
<1>1. PICK q \in Tasks : \E k \in DOMAIN Body(q) : \E i \in 1 .. k - 1 :
          Spawns(q, i, j) /\ Spawns(q, k, c) /\ On(j, a) /\ On(c, a)
  BY DEF Behind
<1>2. PICK k \in DOMAIN Body(q) : \E i \in 1 .. k - 1 :
          Spawns(q, i, j) /\ Spawns(q, k, c) /\ On(j, a) /\ On(c, a)
  BY <1>1
<1>3. q = p /\ k = l BY <1>2, Place
<1>4. l \in Nat BY SpawnsTask
<1> QED BY <1>2, <1>3, <1>4

\* What is behind a sibling is behind those before it on the address.
LEMMA BehindMore ==
    ASSUME prog \in Programs, NEW c, NEW i, NEW j, NEW a, Behind(c, i, a),
           NEW p \in Tasks, NEW h, NEW k, Spawns(p, h, i), Spawns(p, k, j), k <= h, On(j, a)
    PROVE  Behind(c, j, a)
<1>0. PICK q \in Tasks : \E l \in DOMAIN Body(q) : \E x \in 1 .. l - 1 :
        /\ Spawns(q, x, i) /\ Spawns(q, l, c) /\ On(i, a) /\ On(c, a)
        /\ \/ KindOn(c, a) = "out"
           \/ \E m \in Explicit : \E y \in x .. l - 1 :
                  Spawns(q, y, m) /\ On(m, a) /\ KindOn(m, a) # KindOn(c, a)
  BY DEF Behind
<1>1. PICK l \in DOMAIN Body(q) : \E x \in 1 .. l - 1 :
        /\ Spawns(q, x, i) /\ Spawns(q, l, c) /\ On(i, a) /\ On(c, a)
        /\ \/ KindOn(c, a) = "out"
           \/ \E m \in Explicit : \E y \in x .. l - 1 :
                  Spawns(q, y, m) /\ On(m, a) /\ KindOn(m, a) # KindOn(c, a)
  BY <1>0
<1>5. PICK x \in 1 .. l - 1 :
        /\ Spawns(q, x, i) /\ Spawns(q, l, c) /\ On(i, a) /\ On(c, a)
        /\ \/ KindOn(c, a) = "out"
           \/ \E m \in Explicit : \E y \in x .. l - 1 :
                  Spawns(q, y, m) /\ On(m, a) /\ KindOn(m, a) # KindOn(c, a)
  BY <1>1
<1>2. q = p /\ x = h BY <1>5, Place
<1>3. k \in Nat /\ k >= 1 /\ h \in Nat /\ l \in Nat
  <2>1. k \in 1 .. Len(Body(p)) /\ h \in Nat /\ Len(Body(p)) \in Nat BY SpawnsTask, Bodies
  <2>2. l \in Nat BY <1>5, SpawnsTask
  <2> QED BY <2>1, <2>2
<1>4. k \in 1 .. l - 1 BY <1>5, <1>2, <1>3
<1>6. x .. l - 1 \subseteq k .. l - 1 BY <1>5, <1>2, <1>3
<1>7. \/ KindOn(c, a) = "out"
      \/ \E m \in Explicit : \E y \in k .. l - 1 :
             Spawns(p, y, m) /\ On(m, a) /\ KindOn(m, a) # KindOn(c, a)
  BY <1>5, <1>2, <1>6
<1> QED BY <1>5, <1>2, <1>4, <1>7 DEF Behind

LEMMA BehindTwice ==
    ASSUME prog \in Programs, NEW c, NEW i, NEW j, NEW a, Behind(c, i, a), Behind(i, j, a)
    PROVE  Behind(c, j, a)
<1>0. PICK p \in Tasks : \E h \in DOMAIN Body(p) : \E k \in 1 .. h - 1 :
          Spawns(p, k, j) /\ Spawns(p, h, i) /\ On(j, a)
  BY DEF Behind
<1>1. PICK h \in DOMAIN Body(p) : \E k \in 1 .. h - 1 :
          Spawns(p, k, j) /\ Spawns(p, h, i) /\ On(j, a)
  BY <1>0
<1>2. PICK k \in 1 .. h - 1 : Spawns(p, k, j) /\ Spawns(p, h, i) /\ On(j, a) BY <1>1
<1>4. h \in Nat BY <1>2, SpawnsTask
<1>3. k <= h BY <1>2, <1>4
<1> QED BY <1>2, <1>3, BehindMore

\* A task is behind the siblings before it of another kind, and if it writes behind all.
LEMMA BehindKind ==
    ASSUME prog \in Programs, NEW p \in Tasks, NEW i, NEW l, NEW c, NEW j, NEW a,
           Spawns(p, i, j), Spawns(p, l, c), i < l, On(j, a), On(c, a),
           KindOn(c, a) = "out" \/ KindOn(j, a) # KindOn(c, a)
    PROVE  Behind(c, j, a)
<1>1. i \in Nat /\ i >= 1 /\ l \in Nat /\ l \in DOMAIN Body(p) /\ j \in Explicit
  <2>1. i \in 1 .. Len(Body(p)) /\ i \in Nat /\ j \in Explicit BY SpawnsTask
  <2>2. l \in Nat /\ l \in DOMAIN Body(p) BY SpawnsTask
  <2> QED BY <2>1, <2>2
<1>2. i \in 1 .. l - 1 /\ i \in i .. l - 1 BY <1>1
<1> QED BY <1>1, <1>2 DEF Behind

\* The order depends on the program only.
LEMMA SameOrder ==
    ASSUME prog' = prog
    PROVE  /\ \A p, i, c : Spawns(p, i, c)' <=> Spawns(p, i, c)
           /\ \A c, a : (On(c, a)' <=> On(c, a)) /\ KindOn(c, a)' = KindOn(c, a)
           /\ \A c, j, a : Behind(c, j, a)' <=> Behind(c, j, a)
           /\ \A c, j : Prior(c, j)' <=> Prior(c, j)
<1>1. \A p : Body(p)' = Body(p) BY DEF Body
<1>2. \A p, i, c : Spawns(p, i, c)' <=> Spawns(p, i, c) BY <1>1 DEF Spawns, Is
<1>3. \A c, a : (On(c, a)' <=> On(c, a)) /\ KindOn(c, a)' = KindOn(c, a) BY DEF On, KindOn
<1>4. \A c, j, a : Behind(c, j, a)' <=> Behind(c, j, a) BY <1>1, <1>2, <1>3 DEF Behind
<1> QED BY <1>2, <1>3, <1>4 DEF Prior
---------------------------------------------------------------------------
(* A step.                                                                 *)

Goes(t) == Stepped(t) /\ Inv' /\ OrderInv

LEMMA GoesOf ==
    ASSUME Inv, OrderInv, NEW t \in Threads, Acts(t)
    PROVE  Goes(t)
<1>1. Next BY DEF Acts, Next
<1> QED BY <1>1, SteppedOf, InvNext DEF Goes

LEMMA Basics ==
    ASSUME NEW t, Goes(t)
    PROVE  /\ Inv /\ t \in Threads /\ Acts(t) /\ prog \in Programs /\ prog' = prog /\ Threads' = Threads
           /\ Typed /\ Shape /\ Doing /\ Idle /\ InOnePlace /\ Predecessors /\ Spawning
           /\ Typed' /\ Shape' /\ Doing' /\ Idle' /\ InOnePlace' /\ Predecessors' /\ Spawning'
           /\ OrderInv /\ Cur(t) \in Tasks
           /\ Explicit \subseteq Tasks
           /\ \A k : Body(k)' = Body(k)
<1>1. Inv /\ Inv' /\ t \in Threads /\ Acts(t) /\ OrderInv BY DEF Goes, Stepped
<1>2. Inv' => /\ Typed' /\ Shape' /\ Doing' /\ Idle' /\ InOnePlace' /\ Predecessors' /\ Spawning'
  BY DEF Inv, StackInv
<1>3. prog \in Programs BY <1>1, InvParts DEF Typed
<1>4. Cur(t) \in Tasks BY <1>1, InvParts, Tops
<1> QED BY <1>1, <1>2, <1>3, <1>4, InvParts, SameProgram, ThreadTasks

\* Over is for good, and begun tasks go on.
LEMMA OverKept ==
    ASSUME NEW t, Goes(t), NEW k \in Tasks
    PROVE  /\ Over(k) => Over(k)'
           /\ Begun(k) => Begun(k)'
           /\ status'[k] = "none" => status[k] = "none"
           /\ status'[k] # "none" => status[k] # "none" \/ (Alloc(t) /\ k = Arg(Cur(t)))
<1>1. StatusMoves(t, k) BY Basics, StatusOf
<1> QED BY <1>1 DEF StatusMoves, Over, Begun

LEMMA PcStep ==
    ASSUME NEW t, Goes(t), NEW k \in Tasks
    PROVE  \/ pc'[k] = pc[k]
           \/ pc'[k] = pc[k] + 1 /\ k = Cur(t) /\ (Alloc(t) \/ Op(k) # "task")
<1>0. Inv /\ t \in Threads /\ Acts(t) /\ Typed /\ Shape BY Basics
<1>1. pc'[k] = pc[k] \/ (pc'[k] = pc[k] + 1 /\ k = Cur(t)) BY <1>0, PcGrows
<1>2. SUFFICES ASSUME pc'[k] = pc[k] + 1, k = Cur(t), ~Alloc(t), pc'[k] # pc[k] PROVE Op(k) # "task" BY <1>1
<1>3. CASE Open(t) \/ EndGroup(t) \/ TaskWait(t) BY <1>2, <1>3 DEF Open, EndGroup, TaskWait
<1>4. CASE Leave(t)
  <2>1. Cur(t) = t /\ phase[t] # "none" BY <1>4 DEF Leave, InPhase
  <2>2. Op(t) = "barrier" BY <1>0, <2>1, InvParts DEF InBarrier
  <2> QED BY <1>2, <2>1, <2>2
<1>5. CASE ~Open(t) /\ ~EndGroup(t) /\ ~TaskWait(t) /\ ~Leave(t)
  <2>1. pc' = pc
    <3>1. CASE Depend(t) \/ Link(t) \/ Settle(t) \/ Push(t) \/ Forget(t) BY <3>1 DEF Depend, Link, Settle, Push, Forget, body
    <3>2. CASE Own(t) \/ Robbed(t) \/ Spent(t) \/ Finish(t) \/ LeaveGroup(t) \/ FreeHash(t)
      BY <3>2 DEF Own, Robbed, Spent, Finish, LeaveGroup, FreeHash
    <3>3. CASE ReleaseNode(t) \/ Notify(t) \/ Notified(t) \/ FreeAncestors(t) \/ Arrive(t)
      BY <3>3 DEF ReleaseNode, Notify, Notified, FreeAncestors, Arrive, body
    <3>4. CASE \E v \in Threads : Rob(t, v) \/ RobNothing(t, v) BY <3>4 DEF Rob, RobNothing
    <3> QED BY <1>0, <1>2, <1>5, <3>1, <3>2, <3>3, <3>4 DEF Acts, Step
  <2> QED BY <1>2, <2>1
<1> QED BY <1>3, <1>4, <1>5

\* Who links, and what: other threads go on, and only three steps begin or end it.
LEMMA LinkingStays ==
    ASSUME NEW t, Goes(t), ~Alloc(t), ~Settle(t), NEW u \in Threads, NEW c
    PROVE  /\ Linking(u, c)' <=> Linking(u, c)
           /\ Linking(u, c) => Cur(u)' = Cur(u) /\ pc'[Cur(u)] = pc[Cur(u)]
<1>0. Inv /\ t \in Threads /\ Acts(t) /\ Stepped(t) BY Basics DEF Goes
<1>1. CASE u # t
  <2>1. Keeps(u) BY <1>0, <1>1, OthersAt
  <2> QED BY <1>0, <1>1, <2>1, Linkers DEF Keeps
<1>2. CASE u = t /\ (Depend(t) \/ Link(t))
  <2>1. UNCHANGED <<prog, pc, at, stack>> BY <1>2 DEF Depend, Link, body
  <2>2. Cur(t)' = Cur(t) /\ (At(t, "link")' <=> At(t, "link")) BY <2>1 DEF Cur, At
  <2> QED BY <1>2, <2>1, <2>2 DEF Linking, Fresh, Body
<1>3. CASE u = t /\ ~Depend(t) /\ ~Link(t)
  <2>1. ~At(t, "link") /\ ~At(t, "link")' BY <1>0, <1>3, NotLinking
  <2> QED BY <1>3, <2>1 DEF Linking
<1> QED BY <1>1, <1>2, <1>3

LEMMA LinkingSame ==
    ASSUME UNCHANGED <<prog, pc, at, stack>>
    PROVE  \A u, c : Linking(u, c)' <=> Linking(u, c)
<1>1. \A u : Cur(u)' = Cur(u) BY DEF Cur
<1>2. \A u : At(u, "link")' <=> At(u, "link") BY <1>1 DEF At
<1>3. \A k : Fresh(k)' = Fresh(k) BY DEF Fresh, Body
<1> QED BY <1>1, <1>2, <1>3 DEF Linking

LEMMA LinkTypes ==
    ASSUME NEW e \in LinkType, NEW s, NEW n
    PROVE  /\ LET f == [e EXCEPT !.todo = s, !.next = n] IN f.todo = s /\ f.next = n /\ f.n = e.n
           /\ LET f == [e EXCEPT !.todo = s, !.n = n] IN f.todo = s /\ f.next = e.next /\ f.n = n
           /\ LET f == [e EXCEPT !.next = n] IN f.todo = e.todo /\ f.next = n /\ f.n = e.n
BY DEF LinkType

LEMMA NodeSame ==
    ASSUME NEW t, Goes(t), ~Alloc(t), ~Link(t), ~Settle(t), ~ReleaseNode(t), ~Notify(t)
    PROVE  node' = node
<1>0. Inv /\ t \in Threads /\ Acts(t) BY Basics
<1>1. CASE Depend(t) \/ Open(t) \/ Push(t) \/ Forget(t) \/ EndGroup(t) \/ TaskWait(t) \/ Leave(t)
  BY <1>1 DEF Depend, Push, Forget, Open, EndGroup, TaskWait, Leave, deps
<1>2. CASE Own(t) \/ Robbed(t) \/ Spent(t) \/ Finish(t) \/ LeaveGroup(t) \/ FreeHash(t)
  BY <1>2 DEF Own, Robbed, Spent, Finish, LeaveGroup, FreeHash, deps
<1>3. CASE Notified(t) \/ FreeAncestors(t) \/ Arrive(t)
  BY <1>3 DEF Notified, FreeAncestors, Arrive, deps
<1>4. CASE \E v \in Threads : Rob(t, v) \/ RobNothing(t, v) BY <1>4 DEF Rob, RobNothing, deps
<1> QED BY <1>0, <1>1, <1>2, <1>3, <1>4 DEF Acts, Step

\* Only Link and Notify change successors, only Settle and ReleaseNode whether a node lives.
LEMMA NodesStay ==
    ASSUME NEW t, Goes(t), NEW k \in Tasks
    PROVE  /\ ~Link(t) /\ ~Notify(t) => node'[k].succ = node[k].succ
           /\ ~Settle(t) /\ ~ReleaseNode(t) => node'[k].live = node[k].live
<1>0. Inv /\ t \in Threads /\ Acts(t) BY Basics
<1>1. CASE Alloc(t) BY <1>0, <1>1, AllocTakes
<1>2. CASE Settle(t) BY <1>0, <1>2, SettleTakes
<1>3. CASE ReleaseNode(t) BY <1>0, <1>3, ReleaseTakes
<1>4. CASE Link(t) BY <1>0, <1>4, LinkTakes
<1>5. CASE Notify(t) BY <1>0, <1>5, NotifyNodes
<1> QED BY <1>1, <1>2, <1>3, <1>4, <1>5, NodeSame

\* Who links a task spawns it, just before.
LEMMA LinkerOf ==
    ASSUME Inv, NEW u \in Threads, NEW c, Linking(u, c)
    PROVE  /\ c \in Explicit /\ status[c] = "created" /\ Cur(u) \in Tasks /\ pc[Cur(u)] > 1
           /\ Spawns(Cur(u), pc[Cur(u)] - 1, c)
           /\ \A p \in Tasks : \A i : Spawns(p, i, c) => Cur(u) = p /\ i = pc[p] - 1
<1>1. At(u, "link") /\ Fresh(Cur(u)) = c BY DEF Linking
<1>2. /\ c \in Explicit /\ Cur(u) \in Tasks /\ pc[Cur(u)] > 1 /\ status[c] = "created"
      /\ Is(Body(Cur(u)), pc[Cur(u)] - 1, "task", c)
  BY <1>1, Hands
<1>3. prog \in Programs BY InvParts DEF Typed
<1>4. Spawns(Cur(u), pc[Cur(u)] - 1, c) BY <1>2 DEF Spawns
<1>5. ASSUME NEW p \in Tasks, NEW i, Spawns(p, i, c) PROVE Cur(u) = p /\ i = pc[p] - 1
  BY <1>2, <1>3, <1>4, <1>5, Place
<1> QED BY <1>2, <1>4, <1>5

LEMMA LinkerRuns ==
    ASSUME Inv, NEW u \in Threads, NEW c, Linking(u, c)
    PROVE  ~Over(Cur(u))
<1>1. Typed /\ Shape /\ Doing BY InvParts
<1>2. At(u, "link") BY DEF Linking
<1>3. status[Cur(u)] = "running" BY <1>1, <1>2, CurFits DEF Busy
<1> QED BY <1>3 DEF Over

\* The siblings before a task that is linked are not linked.
LEMMA EarlierLinked ==
    ASSUME Inv, NEW t \in Threads, NEW c, Linking(t, c), NEW i, NEW j, Spawns(Cur(t), i, j),
           i # pc[Cur(t)] - 1, NEW u \in Threads
    PROVE  ~Linking(u, j)
<1>1. SUFFICES ASSUME Linking(u, j) PROVE FALSE OBVIOUS
<1>2. Typed /\ Shape BY InvParts
<1>3. Cur(t) \in Tasks BY <1>2, Tops
<1>4. i = pc[Cur(t)] - 1 BY <1>1, <1>3, LinkerOf
<1> QED BY <1>4

LEMMA InTail ==
    ASSUME NEW S, NEW s \in Seq(S), s # <<>>, NEW x \in Elems(s), x # Head(s)
    PROVE  x \in Elems(Tail(s))
<1>1. PICK i \in 1 .. Len(s) : x = s[i] BY DEF Elems
<1>2. Len(s) \in Nat /\ Len(Tail(s)) = Len(s) - 1 BY Tailed
<1>3. i # 1 BY <1>1
<1>4. PICK h \in 1 .. Len(Tail(s)) : h + 1 = i
  <2>1. i - 1 \in 1 .. Len(Tail(s)) /\ (i - 1) + 1 = i BY <1>2, <1>3
  <2> QED BY <2>1
<1>5. h \in 1 .. Len(s) - 1 BY <1>2
<1>6. Tail(s)[h] = s[h + 1] BY <1>5, Tailed
<1> QED BY <1>1, <1>4, <1>6 DEF Elems

\* What a task follows it goes on to follow: a successor is taken off the list of a task
\* that is over, and so are those before that one.
LEMMA FollowsKept ==
    ASSUME NEW t, Goes(t), NEW c \in Explicit, NEW j \in Explicit, Follows(c, j)
    PROVE  Follows(c, j)'
<1>0. /\ Inv /\ t \in Threads /\ Explicit \subseteq Tasks /\ OrderInv /\ prog' = prog BY Basics
<1>1. CASE Over(j) BY <1>0, <1>1, OverKept DEF Follows
<1>2. ASSUME NEW i \in Explicit, c \in Elems(node[i].succ), i = j \/ Prior(i, j) PROVE Follows(c, j)'
  <2>0. Prior(i, j)' <=> Prior(i, j) BY <1>0, SameOrder
  <2>1. CASE c \in Elems(node'[i].succ)
    <3>1. Elems(node[i].succ)' = Elems(node'[i].succ) BY DEF Elems
    <3> QED BY <1>2, <2>0, <2>1, <3>1 DEF Follows, Behindhand
  <2>2. CASE Link(t)
    <3>1. PICK k : k = Head(links[t].todo) OBVIOUS
    <3>2. PICK d : d = Fresh(Cur(t)) OBVIOUS
    <3>3. /\ k \in Explicit /\ d \in Explicit /\ node' = IF node[k].live THEN [node EXCEPT ![k].succ = <<d>> \o @] ELSE node
          /\ node[k].live => node'[k].succ = <<d>> \o node[k].succ /\ \A x \in Tasks : x # k => node'[x] = node[x]
      BY <1>0, <2>2, <3>1, <3>2, LinkTakes
    <3>4. CASE ~node[k].live \/ i # k BY <1>0, <1>2, <2>1, <3>3, <3>4
    <3>5. CASE node[k].live /\ i = k
      <4>1. node[i].succ \in Seq(Explicit) BY <1>0, InvParts DEF Typed, NodeType
      <4>2. Elems(<<d>> \o node[i].succ) = {d} \cup Elems(node[i].succ) BY <3>3, <4>1, Consed
      <4> QED BY <1>2, <2>1, <3>3, <3>5, <4>2
    <3> QED BY <3>4, <3>5
  <2>3. CASE Notify(t)
    <3>1. PICK k : k = Cur(t) OBVIOUS
    <3>2. k \in Explicit /\ k \in Tasks /\ node[k].succ # <<>> /\ node[k].succ \in Seq(Explicit) /\ at[k] = "notify"
      BY <1>0, <2>3, <3>1, Notifies
    <3>3. node'[k].succ = Tail(node[k].succ) /\ \A x \in Tasks : x # k => node'[x].succ = node[x].succ
      BY <1>0, <2>3, <3>1, NotifyNodes
    <3>4. CASE i # k BY <1>0, <1>2, <2>1, <3>3, <3>4
    <3>5. CASE i = k
      <4>1. status[k] = "complete"
        <5>1. Typed /\ Shape /\ Doing /\ At(t, "notify") BY <1>0, <2>3, Basics DEF Notify
        <5> QED BY <1>0, <3>1, <5>1, CurFits DEF Ending
      <4>2. Over(j)
        <5>1. CASE i = j BY <3>5, <4>1, <5>1 DEF Over
        <5>2. CASE Prior(i, j) BY <1>0, <3>2, <3>5, <4>1, <5>2 DEF OrderInv, ClearedOrder, Cleared, Begun
        <5> QED BY <1>2, <5>1, <5>2
      <4> QED BY <1>0, <4>2, OverKept DEF Follows
    <3> QED BY <3>4, <3>5
  <2>4. CASE ~Link(t) /\ ~Notify(t) BY <1>0, <1>2, <2>1, <2>4, NodesStay
  <2> QED BY <2>1, <2>2, <2>3, <2>4
<1> QED BY <1>1, <1>2 DEF Follows, Behindhand

LEMMA CreatedStep == ASSUME NEW t, Goes(t) PROVE Created'
<1>0. /\ Inv /\ t \in Threads /\ OrderInv /\ prog' = prog /\ prog \in Programs /\ Typed /\ Typed'
      /\ Explicit \subseteq Tasks /\ Cur(t) \in Tasks
  BY Basics
<1>1. SUFFICES ASSUME NEW p \in Tasks, NEW i \in 1 .. pc'[p] - 1, NEW c, Spawns(p, i, c)'
               PROVE  status'[c] # "none"
  BY DEF Created
<1>2. Spawns(p, i, c) BY <1>0, <1>1, SameOrder
<1>3. c \in Explicit /\ c \in Tasks BY <1>0, <1>2, SpawnsTask
<1>4. pc[p] \in Nat /\ i \in Nat BY <1>0 DEF Typed
<1>5. CASE i \in 1 .. pc[p] - 1 BY <1>0, <1>2, <1>3, <1>5, OverKept DEF OrderInv, Created
<1>6. CASE i \notin 1 .. pc[p] - 1
  <2>1. pc'[p] = pc[p] + 1 /\ p = Cur(t) /\ (Alloc(t) \/ Op(p) # "task") BY <1>6, PcStep
  <2>2. i = pc[p] BY <1>4, <1>6, <2>1
  <2>3. Body(p)[i].op = "task" /\ Body(p)[i].arg = c /\ i \in DOMAIN Body(p) BY <1>2 DEF Spawns, Is
  <2>4. Op(p) = "task" /\ Arg(p) = c
    <3>1. ~Ends(p) BY <1>2, <1>0, <1>3, <2>2, SpawnsTask, OpsOf DEF Ends
    <3> QED BY <2>2, <2>3, <3>1 DEF Op, Arg
  <2>5. Alloc(t) /\ c = Arg(Cur(t)) BY <2>1, <2>4
  <2> QED BY <1>0, <2>5, AllocTakes
<1> QED BY <1>5, <1>6

\* No task is linked that was not, but by Alloc; nor is one settled, but by Settle.
LEMMA LinkingEnds ==
    ASSUME NEW t, Goes(t), NEW c \in Explicit, status[c] # "none"
    PROVE  /\ (\A u \in Threads : ~Linking(u, c)) => \A u \in Threads : ~Linking(u, c)'
           /\ ~Settle(t) /\ (\E u \in Threads : Linking(u, c)) => \E u \in Threads : Linking(u, c)'
<1>0. Inv /\ t \in Threads /\ Acts(t) /\ Stepped(t) /\ prog' = prog BY Basics DEF Goes
<1>1. CASE ~Alloc(t) /\ ~Settle(t) BY <1>1, LinkingStays
<1>2. \A u \in Threads : u # t => (Linking(u, c)' <=> Linking(u, c)) BY <1>0, Linkers
<1>3. CASE Alloc(t)
  <2>1. At(t, "run") /\ ~At(t, "link") BY <1>3 DEF Alloc, At
  <2>2. Cur(t)' = Cur(t) /\ pc'[Cur(t)] = pc[Cur(t)] + 1 /\ status[Arg(Cur(t))] = "none" /\ pc[Cur(t)] \in Nat
    <3>1. stack' = stack BY <1>0, <1>3, AllocTakes
    <3>2. pc'[Cur(t)] = pc[Cur(t)] + 1 /\ status[Arg(Cur(t))] = "none" /\ Cur(t) \in Tasks BY <1>0, <1>3, AllocTakes
    <3>3. pc[Cur(t)] \in Nat BY <1>0, <3>2, InvParts DEF Typed
    <3> QED BY <3>1, <3>2, <3>3 DEF Cur
  <2>3. Fresh(Cur(t))' = Arg(Cur(t)) BY <1>0, <2>2 DEF Fresh, Arg, Body
  <2>4. ~Linking(t, c) /\ ~Linking(t, c)' BY <2>1, <2>2, <2>3 DEF Linking
  <2> QED BY <1>2, <2>4, <1>0
<1>4. CASE Settle(t)
  <2>1. stack' = stack /\ \E w \in {"run", "push"} : Set(t, w) BY <1>0, <1>4, SettleTakes DEF body
  <2>2. ~At(t, "link")' BY <1>0, <2>1, TurnedTo
  <2> QED BY <1>0, <1>2, <1>4, <2>2 DEF Linking
<1> QED BY <1>1, <1>3, <1>4

LEMMA SettledStep == ASSUME NEW t, Goes(t) PROVE Settled'
<1>0. /\ Inv /\ t \in Threads /\ OrderInv /\ prog' = prog /\ prog \in Programs /\ Typed /\ Shape /\ Threads' = Threads
      /\ Explicit \subseteq Tasks /\ Cur(t) \in Tasks /\ Acts(t) /\ Stepped(t)
  BY Basics DEF Goes
<1>1. SUFFICES ASSUME NEW c \in Explicit, prog.deps[c] # <<>>, status'[c] # "none",
                      \A u \in Threads : ~Linking(u, c)'
               PROVE  node'[c].live \/ Over(c)'
  BY <1>0 DEF Settled
<1>2. CASE Alloc(t) /\ c = Arg(Cur(t))
  <2>1. Set(t, "link") /\ stack' = stack BY <1>1, <1>2 DEF Alloc
  <2>2. Cur(t)' = Cur(t) /\ At(t, "link")' BY <1>0, <2>1, TurnedTo
  <2>3. pc'[Cur(t)] = pc[Cur(t)] + 1 /\ pc[Cur(t)] \in Nat BY <1>0, <1>2, AllocTakes DEF Typed
  <2>4. Fresh(Cur(t))' = Arg(Cur(t)) BY <1>0, <2>2, <2>3 DEF Fresh, Arg, Body
  <2>5. Linking(t, c)' BY <1>2, <2>2, <2>4 DEF Linking
  <2> QED BY <1>0, <1>1, <2>5
<1>3. CASE Settle(t) /\ c = Fresh(Cur(t)) BY <1>0, <1>3, SettleTakes
<1>4. CASE ~ (Alloc(t) /\ c = Arg(Cur(t))) /\ ~ (Settle(t) /\ c = Fresh(Cur(t)))
  <2>1. status[c] # "none" BY <1>0, <1>1, <1>4, OverKept
  <2>2. \A u \in Threads : ~Linking(u, c)
    <3>1. CASE ~Settle(t) BY <1>1, <2>1, <3>1, LinkingEnds
    <3>2. CASE Settle(t)
      <4>1. ~Linking(t, c) BY <1>4, <3>2 DEF Linking
      <4> QED BY <1>0, <1>1, <4>1, Linkers
    <3> QED BY <3>1, <3>2
  <2>3. node[c].live \/ Over(c) BY <1>0, <1>1, <2>1, <2>2 DEF OrderInv, Settled
  <2>4. CASE Over(c) BY <1>0, <2>4, OverKept
  <2>5. CASE node[c].live
    <3>1. CASE Settle(t) BY <1>0, <1>4, <2>5, <3>1, SettleTakes
    <3>2. CASE ReleaseNode(t)
      <4>1. CASE c = Cur(t)
        <5>1. status[c] = "complete" BY <1>0, <3>2, <4>1, ReleaseTakes
        <5> QED BY <1>0, <5>1, OverKept DEF Over
      <4>2. CASE c # Cur(t) BY <1>0, <2>5, <3>2, <4>2, ReleaseTakes
      <4> QED BY <4>1, <4>2
    <3>3. CASE ~Settle(t) /\ ~ReleaseNode(t) BY <1>0, <2>5, <3>3, NodesStay
    <3> QED BY <3>1, <3>2, <3>3
  <2> QED BY <2>3, <2>4, <2>5
<1> QED BY <1>2, <1>3, <1>4

\* A task on the list of another has an entry there.
LEMMA EntryAmong ==
    ASSUME Typed, NEW i \in Tasks, NEW c \in Elems(node[i].succ)
    PROVE  \E e \in Entries(c) : e[1] = i
<1>1. PICK s : s = node[i].succ OBVIOUS
<1>2. s \in Seq(Explicit) BY <1>1 DEF Typed, NodeType
<1>3. PICK n \in 1 .. Len(s) : c = s[n] BY <1>1 DEF Elems
<1>4. Len(s) \in Nat BY <1>2
<1>5. PICK m \in 1 .. Len(s) : Len(s) + 1 - m = n /\ m \in Nat
  <2>1. Len(s) + 1 - n \in 1 .. Len(s) /\ Len(s) + 1 - (Len(s) + 1 - n) = n BY <1>3, <1>4
  <2> QED BY <1>4, <2>1
<1>6. <<i, m>> \in Entries(c) BY <1>1, <1>3, <1>5, EntryOf
<1> QED BY <1>6

LEMMA NotAmong ==
    ASSUME Typed, NEW i \in Tasks, NEW c, Entries(c) = {}
    PROVE  c \notin Elems(node[i].succ)
BY EntryAmong

\* When the last dependence of a task has been dealt with it follows all it must.
LEMMA SettleFollows ==
    ASSUME NEW t, Goes(t), Settle(t), NEW c, c = Fresh(Cur(t)), NEW j \in Explicit, Prior(c, j)
    PROVE  c \in Explicit /\ Linking(t, c) /\ Follows(c, j)
<1>0. Inv /\ t \in Threads /\ OrderInv /\ prog \in Programs /\ Typed BY Basics
<1>1. c \in Explicit /\ At(t, "link") /\ t \in Implicit BY <1>0, SettleTakes
<1>2. Linking(t, c) BY <1>1 DEF Linking
<1>3. links[t].todo = <<>> /\ links[t].next > Len(prog.deps[c]) BY DEF Settle
<1>4. PICK a \in Addrs : Behind(c, j, a) BY DEF Prior
<1>5. PICK n \in DOMAIN prog.deps[c] : prog.deps[c][n].addr = a
  <2>1. On(c, a) BY <1>4 DEF Behind
  <2> QED BY <2>1 DEF On
<1>6. n \in 1 .. Len(prog.deps[c]) /\ Len(prog.deps[c]) \in Nat BY <1>0, <1>1, <1>5, DepTypes
<1>7. links[t].next \in Nat BY <1>0, <1>1 DEF Typed, LinkType
<1>8. n < links[t].next BY <1>3, <1>6, <1>7
<1>9. Made(t, c, a) BY <1>5, <1>8 DEF Made
<1>10. ~ToLink(t, j) BY <1>3 DEF ToLink, Elems
<1> QED BY <1>0, <1>1, <1>2, <1>4, <1>9, <1>10 DEF OrderInv, LinkOrder

\* A task comes to run, or to where it can be run, from nothing it has to wait for: when
\* it is created without dependences, when they are all dealt with and none is left, or
\* when the last of those it follows gives notice.
LEMMA NewlyCleared ==
    ASSUME NEW t, Goes(t), NEW c \in Explicit, Cleared(c)', ~Cleared(c)
    PROVE  \/ prog.deps[c] = <<>>
           \/ Settle(t) /\ c = Fresh(Cur(t)) /\ node[c].npred + links[t].n + 1 <= 0
           \/ Notify(t) /\ c = Head(node[Cur(t)].succ) /\ node[c].npred - 1 = 0 /\ node[c].live
<1>0. /\ Inv /\ t \in Threads /\ OrderInv /\ prog' = prog /\ prog \in Programs /\ Typed /\ Shape /\ Threads' = Threads
      /\ Explicit \subseteq Tasks /\ Cur(t) \in Tasks /\ Acts(t) /\ Stepped(t) /\ InOnePlace /\ InOnePlace'
  BY Basics DEF Goes
<1>1. SUFFICES ASSUME ~ (Notify(t) /\ c = Head(node[Cur(t)].succ) /\ node[c].npred - 1 = 0 /\ node[c].live),
                      prog.deps[c] # <<>>
               PROVE  Settle(t) /\ c = Fresh(Cur(t)) /\ node[c].npred + links[t].n + 1 <= 0
  OBVIOUS
<1>2. ~Begun(c) BY DEF Cleared
<1>3. ~ (Alloc(t) /\ c = Arg(Cur(t)))
  <2>1. SUFFICES ASSUME Alloc(t), c = Arg(Cur(t)) PROVE FALSE OBVIOUS
  <2>2. Set(t, "link") /\ stack' = stack BY <1>1, <2>1 DEF Alloc
  <2>3. Cur(t)' = Cur(t) /\ At(t, "link")' BY <1>0, <2>2, TurnedTo
  <2>4. pc'[Cur(t)] = pc[Cur(t)] + 1 /\ pc[Cur(t)] \in Nat /\ status'[c] = "created" BY <1>0, <2>1, AllocTakes DEF Typed
  <2>5. Fresh(Cur(t))' = Arg(Cur(t)) BY <1>0, <2>3, <2>4 DEF Fresh, Arg, Body
  <2>6. Linking(t, c)' BY <2>1, <2>3, <2>5 DEF Linking
  <2> QED BY <1>0, <2>4, <2>6 DEF Cleared, Begun
<1>4. ~Brought(t, c) BY <1>1, <1>3 DEF Brought
<1>5. status[c] = "created" /\ Lying(c)
  <2>1. CASE Begun(c)'
    <3>1. StatusMoves(t, c) BY <1>0, StatusOf
    <3>2. status[c] = "created" /\ status'[c] = "running" BY <1>2, <2>1, <3>1 DEF StatusMoves, Begun
    <3> QED BY <1>0, <1>4, <3>2, StatusStep
  <2>2. CASE ~Begun(c)'
    <3>1. Lying(c)' BY <2>2 DEF Cleared
    <3>2. Lying(c) BY <1>0, <1>4, <3>1, InOnePlaceStep
    <3> QED BY <1>0, <3>2 DEF InOnePlace
  <2> QED BY <2>1, <2>2
<1>6. PICK u \in Threads : Linking(u, c) BY <1>5 DEF Cleared
<1>7. Settle(t)
  <2>1. SUFFICES ASSUME ~Settle(t) PROVE FALSE OBVIOUS
  <2>2. PICK v \in Threads : Linking(v, c)' BY <1>5, <1>6, <2>1, LinkingEnds
  <2>3. Lying(c)'
    <3>1. Lies(c, "hand", 0, v)' BY <1>0, <2>2 DEF Linking, InHand, Lies
    <3> QED BY <3>1 DEF Lying
  <2>4. ~Begun(c)' BY <1>0, <2>3 DEF InOnePlace, Begun
  <2> QED BY <1>0, <2>2, <2>4 DEF Cleared
<1>8. u = t
  <2>1. SUFFICES ASSUME u # t PROVE FALSE OBVIOUS
  <2>2. Linking(u, c)' BY <1>0, <1>6, <2>1, Linkers
  <2>3. status' = status BY <1>0, <1>7, SettleTakes
  <2> QED BY <1>0, <1>2, <2>2, <2>3 DEF Cleared, Begun
<1>9. c = Fresh(Cur(t)) BY <1>6, <1>8 DEF Linking
<1>10. node[c].npred + links[t].n + 1 <= 0
  <2>1. SUFFICES ASSUME ~ (node[c].npred + links[t].n + 1 <= 0) PROVE FALSE OBVIOUS
  <2>2. node[c].npred + links[t].n + 1 \in Int BY <1>0, <1>7, <1>9, SettleTakes
  <2>3. Set(t, "run") /\ stack' = stack /\ UNCHANGED <<pc, status, deque, loot>>
    BY <1>0, <1>7, <1>9, <2>1, <2>2, SettleTakes DEF queues
  <2>4. ~At(t, "push")' /\ ~At(t, "link")' BY <1>0, <2>3, TurnedTo
  <2>5. Lying(c)' BY <1>2, <2>3 DEF Cleared, Begun
  <2>6. Lies(c, "hand", 0, t) BY <1>0, <1>6, <1>8 DEF Linking, Lies, InHand
  <2>7. PICK x, p, v : Lies(c, x, p, v)' BY <2>5 DEF Lying
  <2>8. CASE x = "hand"
    <3>1. v \in Threads /\ InHand(v, c)' BY <1>0, <2>7, <2>8 DEF Lies
    <3>2. v # t BY <2>4, <3>1 DEF InHand
    <3>3. InHand(v, c) BY <1>0, <3>1, <3>2, OtherHands
    <3> QED BY <1>0, <2>6, <3>1, <3>2, <3>3, OnlyPlace
  <2>9. CASE x # "hand"
    <3>1. Lies(c, x, p, v) BY <1>0, <2>3, <2>7, <2>9 DEF Lies
    <3> QED BY <1>0, <2>6, <2>9, <3>1 DEF InOnePlace
  <2> QED BY <2>8, <2>9
<1> QED BY <1>7, <1>9, <1>10

LEMMA ClearedStep == ASSUME NEW t, Goes(t) PROVE ClearedOrder'
<1>0. /\ Inv /\ t \in Threads /\ OrderInv /\ prog' = prog /\ prog \in Programs /\ Typed /\ Shape
      /\ Explicit \subseteq Tasks /\ Cur(t) \in Tasks /\ Acts(t) /\ Predecessors
  BY Basics
<1>1. SUFFICES ASSUME NEW c \in Explicit, NEW j \in Explicit, Cleared(c)', Prior(c, j) PROVE Over(j)
  <2>1. \A c, j : Prior(c, j)' <=> Prior(c, j) BY <1>0, SameOrder
  <2> QED BY <1>0, <1>1, <2>1, OverKept DEF ClearedOrder
<1>2. CASE Cleared(c) BY <1>0, <1>1, <1>2 DEF OrderInv, ClearedOrder
<1>3. CASE prog.deps[c] = <<>>
  <2>1. PICK a \in Addrs : Behind(c, j, a) BY <1>1 DEF Prior
  <2>2. On(c, a) BY <2>1 DEF Behind
  <2> QED BY <1>3, <2>2 DEF On
<1>4. CASE Settle(t) /\ c = Fresh(Cur(t)) /\ node[c].npred + links[t].n + 1 <= 0
  <2>1. Linking(t, c) /\ Follows(c, j) BY <1>1, <1>4, SettleFollows
  <2>2. EntryCount(c, node[c].npred + links[t].n + 1) BY <1>0, <2>1 DEF Predecessors
  <2>3. PICK n : n = node[c].npred + links[t].n + 1 OBVIOUS
  <2>4. IsFiniteSet(Entries(c)) /\ Cardinality(Entries(c)) = n /\ n <= 0 BY <1>4, <2>2, <2>3 DEF EntryCount
  <2>5. Cardinality(Entries(c)) \in Nat BY <2>4, FS_CardinalityType
  <2>6. Cardinality(Entries(c)) = 0 BY <2>4, <2>5
  <2>7. Entries(c) = {} BY <2>4, <2>6, FS_EmptySet
  <2>8. ~Behindhand(c, j)
    <3>1. SUFFICES ASSUME NEW i \in Explicit, c \in Elems(node[i].succ) PROVE FALSE BY DEF Behindhand
    <3> QED BY <1>0, <2>7, <3>1, NotAmong
  <2> QED BY <2>1, <2>8 DEF Follows
<1>5. CASE Notify(t) /\ c = Head(node[Cur(t)].succ) /\ node[c].npred - 1 = 0 /\ node[c].live
  <2>1. PICK k : k = Cur(t) OBVIOUS
  <2>2. /\ k \in Explicit /\ k \in Tasks /\ at[k] = "notify" /\ <<k, Len(node[k].succ)>> \in Entries(c)
        /\ status[c] = "created" /\ ~Lying(c) /\ EntryCount(c, node[c].npred)
    BY <1>0, <1>5, <2>1, Notifies
  <2>3. status[k] = "complete"
    <3>1. At(t, "notify") BY <1>5 DEF Notify
    <3> QED BY <1>0, <2>1, <3>1, CurFits, Basics DEF Ending
  <2>4. Follows(c, j) BY <1>0, <1>1, <1>5, <2>2 DEF OrderInv, PendingOrder, Pending
  <2>5. ASSUME NEW i \in Explicit, c \in Elems(node[i].succ) PROVE i = k
    <3>1. PICK e \in Entries(c) : e[1] = i BY <1>0, <2>5, EntryAmong
    <3>2. node[c].npred = 1
      <4>1. node[c].npred \in Int BY <1>0, <1>1 DEF Typed, NodeType
      <4> QED BY <1>5, <4>1
    <3>3. IsFiniteSet(Entries(c)) /\ Cardinality(Entries(c)) = 1 BY <2>2, <3>2 DEF EntryCount
    <3>4. PICK x : Entries(c) = {x} BY <3>3, FS_Singleton
    <3>5. e = <<k, Len(node[k].succ)>> BY <2>2, <3>1, <3>4
    <3> QED BY <3>1, <3>5
  <2>6. CASE Over(j) BY <2>6
  <2>7. ASSUME NEW i \in Explicit, c \in Elems(node[i].succ), i = j \/ Prior(i, j) PROVE Over(j)
    <3>1. i = k BY <2>5, <2>7
    <3>2. CASE i = j BY <2>3, <3>1, <3>2 DEF Over
    <3>3. CASE Prior(i, j) BY <1>0, <2>2, <2>3, <3>1, <3>3 DEF OrderInv, ClearedOrder, Cleared, Begun
    <3> QED BY <2>7, <3>2, <3>3
  <2> QED BY <2>4, <2>6, <2>7 DEF Follows, Behindhand
<1> QED BY <1>1, <1>2, <1>3, <1>4, <1>5, NewlyCleared

\* The nodes a table links a new task behind cover all that the task is behind.
LEMMA DependCovers ==
    ASSUME Inv, OrderInv, NEW t \in Threads, NEW c, Linking(t, c), NEW k, k = Cur(t), NEW a \in Addrs,
           NEW kind, kind = KindOn(c, a), NEW j \in Explicit, Behind(c, j, a), On(c, a)
    PROVE  Covered(a, table[k][a], j, kind)
<1>0. prog \in Programs /\ Typed /\ Shape BY InvParts DEF Typed
<1>1. k \in Tasks /\ c \in Explicit /\ pc[k] > 1 /\ Spawns(k, pc[k] - 1, c) BY LinkerOf
<1>2. PICK p \in Tasks : \E l \in DOMAIN Body(p) : \E i \in 1 .. l - 1 :
        /\ Spawns(p, i, j) /\ Spawns(p, l, c) /\ On(j, a)
        /\ \/ KindOn(c, a) = "out"
           \/ \E m \in Explicit : \E h \in i .. l - 1 :
                  Spawns(p, h, m) /\ On(m, a) /\ KindOn(m, a) # KindOn(c, a)
  BY DEF Behind
<1>3. PICK l \in DOMAIN Body(p) : \E i \in 1 .. l - 1 :
        /\ Spawns(p, i, j) /\ Spawns(p, l, c) /\ On(j, a)
        /\ \/ KindOn(c, a) = "out"
           \/ \E m \in Explicit : \E h \in i .. l - 1 :
                  Spawns(p, h, m) /\ On(m, a) /\ KindOn(m, a) # KindOn(c, a)
  BY <1>2
<1>4. PICK i \in 1 .. l - 1 :
        /\ Spawns(p, i, j) /\ Spawns(p, l, c) /\ On(j, a)
        /\ \/ KindOn(c, a) = "out"
           \/ \E m \in Explicit : \E h \in i .. l - 1 :
                  Spawns(p, h, m) /\ On(m, a) /\ KindOn(m, a) # KindOn(c, a)
  BY <1>3
<1>5. p = k /\ l = pc[k] - 1 BY <1>0, <1>1, <1>4, Place
<1>6. pc[k] \in Nat /\ l \in Nat /\ i \in Nat BY <1>0, <1>1, <1>5 DEF Typed
<1>7. ASSUME NEW x \in Explicit, NEW h \in 1 .. l - 1, Spawns(k, h, x), On(x, a) PROVE x \in Entereds(k, a)
  <2>1. h # pc[k] - 1 /\ h \in 1 .. pc[k] - 1 BY <1>5, <1>6, <1>7
  <2>2. \A u \in Threads : ~Linking(u, x) BY <1>7, <2>1, EarlierLinked
  <2> QED BY <1>7, <2>1, <2>2 DEF Entered, Entereds
<1>8. j \in Entereds(k, a) BY <1>4, <1>5, <1>7
<1>9. Against(k, a, Entereds(k, a), kind, j)
  <2>1. CASE KindOn(c, a) = "out" BY <2>1 DEF Against
  <2>2. ASSUME NEW m \in Explicit, NEW h \in i .. l - 1, Spawns(p, h, m), On(m, a), KindOn(m, a) # KindOn(c, a)
        PROVE  Against(k, a, Entereds(k, a), kind, j)
    <3>1. h \in 1 .. l - 1 /\ i <= h BY <1>4, <1>6, <2>2
    <3>2. m \in Entereds(k, a) BY <1>5, <1>7, <2>2, <3>1
    <3>3. From(k, j, m)
      <4>1. i \in DOMAIN Body(k) /\ h \in DOMAIN Body(k) BY <1>0, <1>1, <1>4, <1>5, <2>2, SpawnsTask
      <4> QED BY <1>4, <1>5, <2>2, <3>1, <4>1 DEF From
    <3> QED BY <2>2, <3>2, <3>3 DEF Against
  <2> QED BY <1>4, <2>1, <2>2
<1>10. kind \in {"in", "out", "mtx"}
  <2>1. PICK n \in DOMAIN prog.deps[c] : prog.deps[c][n].addr = a BY DEF On
  <2> QED BY <1>0, <1>1, <2>1, DepTypes DEF KindOn
<1>11. ~Over(k) BY LinkerRuns
<1> QED BY <1>1, <1>8, <1>9, <1>10, <1>11 DEF OrderInv, TablesInv, Table

LEMMA PendingStep == ASSUME NEW t, Goes(t) PROVE PendingOrder'
<1>0. /\ Inv /\ t \in Threads /\ OrderInv /\ prog' = prog /\ prog \in Programs /\ Typed /\ Shape
      /\ Explicit \subseteq Tasks /\ Cur(t) \in Tasks /\ Acts(t) /\ Predecessors
  BY Basics
<1>1. SUFFICES ASSUME NEW c \in Explicit, NEW j \in Explicit, Pending(c)', Prior(c, j) PROVE Follows(c, j)
  <2>1. \A c, j : Prior(c, j)' <=> Prior(c, j) BY <1>0, SameOrder
  <2> QED BY <1>1, <2>1, FollowsKept DEF PendingOrder
<1>2. CASE Pending(c) BY <1>0, <1>1, <1>2 DEF OrderInv, PendingOrder
<1>3. CASE Settle(t) /\ c = Fresh(Cur(t)) BY <1>1, <1>3, SettleFollows
<1>4. CASE ~Pending(c) /\ ~ (Settle(t) /\ c = Fresh(Cur(t)))
  <2>1. node[c].live
    <3>1. CASE Settle(t) BY <1>0, <1>1, <1>4, <3>1, SettleTakes DEF Pending
    <3>2. CASE ReleaseNode(t) BY <1>0, <1>1, <3>2, ReleaseTakes DEF Pending
    <3>3. CASE ~Settle(t) /\ ~ReleaseNode(t) BY <1>0, <1>1, <3>3, NodesStay DEF Pending
    <3> QED BY <3>1, <3>2, <3>3
  <2>2. status[c] = "created"
    <3>1. StatusMoves(t, c) BY <1>0, StatusOf
    <3>2. status[c] # "none" /\ status'[c] = "created" BY <1>0, <1>1, <2>1 DEF Predecessors, Pending
    <3> QED BY <3>1, <3>2 DEF StatusMoves
  <2>3. \A u \in Threads : ~Linking(u, c) BY <1>0, <2>1 DEF Predecessors
  <2>4. Cleared(c) BY <1>4, <2>1, <2>2, <2>3 DEF Pending, Cleared
  <2> QED BY <1>0, <1>1, <2>4 DEF OrderInv, ClearedOrder, Follows
<1> QED BY <1>2, <1>3, <1>4

\* What a task is linked to, or is to be linked to.
LEMMA LinkOrderStep == ASSUME NEW t, Goes(t) PROVE LinkOrder'
<1>0. /\ Inv /\ t \in Threads /\ OrderInv /\ prog' = prog /\ prog \in Programs /\ Typed /\ Shape /\ Threads' = Threads
      /\ Explicit \subseteq Tasks /\ Cur(t) \in Tasks /\ Acts(t) /\ Stepped(t) /\ t \in Implicit
  BY Basics, ThreadTasks DEF Goes
<1>1. /\ \A c, j, a : Behind(c, j, a)' <=> Behind(c, j, a)
      /\ \A c, j : Prior(c, j)' <=> Prior(c, j)
  BY <1>0, SameOrder
<1>2. SUFFICES ASSUME NEW u \in Threads, NEW c \in Explicit, NEW j \in Explicit, NEW a \in Addrs,
                      Linking(u, c)', Made(u, c, a)', Behind(c, j, a)
               PROVE  Follows(c, j)' \/ ToLink(u, j)'
  BY <1>0, <1>1 DEF LinkOrder
<1>3. ASSUME Linking(u, c), Made(u, c, a), links'[u].todo = links[u].todo PROVE Follows(c, j)' \/ ToLink(u, j)'
  <2>1. Follows(c, j) \/ ToLink(u, j) BY <1>0, <1>2, <1>3 DEF OrderInv, LinkOrder
  <2>2. ToLink(u, j) => ToLink(u, j)' BY <1>1, <1>3 DEF ToLink, Elems
  <2> QED BY <2>1, <2>2, FollowsKept
<1>4. CASE u # t
  <2>1. links'[u] = links[u] /\ Linking(u, c) BY <1>0, <1>2, <1>4, Linkers
  <2>2. Made(u, c, a) BY <1>0, <1>2, <2>1 DEF Made
  <2> QED BY <1>3, <2>1, <2>2
<1>5. CASE u = t /\ Alloc(t)
  <2>1. links'[t].next = 1 BY <1>0, <1>5 DEF Alloc, Typed
  <2>2. PICK n \in DOMAIN prog.deps[c] : n < 1 BY <1>0, <1>2, <1>5, <2>1 DEF Made
  <2>3. n \in 1 .. Len(prog.deps[c]) BY <1>0, <2>2, DepTypes
  <2> QED BY <2>2, <2>3
<1>6. CASE u = t /\ Depend(t)
  <2>1. Linking(t, c) /\ At(t, "link") /\ c = Fresh(Cur(t))
    <3>1. UNCHANGED <<prog, pc, at, stack>> BY <1>6 DEF Depend, body
    <3> QED BY <1>2, <1>6, <3>1, LinkingSame DEF Linking
  <2>2. PICK k : k = Cur(t) OBVIOUS
  <2>3. PICK n : n = links[t].next OBVIOUS
  <2>4. PICK b : b = prog.deps[c][n].addr OBVIOUS
  <2>5. PICK kind : kind = Merged(prog.deps[c], b) OBVIOUS
  <2>6. /\ links[t].todo = <<>> /\ n <= Len(prog.deps[c]) /\ UNCHANGED <<prog, body, counters, queues, team, node, mtx>>
        /\ IF First(prog.deps[c], n)
           THEN links' = [links EXCEPT ![t].todo = Links(table[k][b], kind), ![t].next = n + 1]
           ELSE links' = [links EXCEPT ![t].next = n + 1]
    BY <1>6, <2>1, <2>2, <2>3, <2>4, <2>5 DEF Depend
  <2>7. n \in Nat \ {0} /\ n \in 1 .. Len(prog.deps[c]) /\ Len(prog.deps[c]) \in Nat
        /\ links'[t].next = n + 1
    <3>1. n \in Nat \ {0} BY <1>0, <2>3 DEF Typed, LinkType
    <3>2. Len(prog.deps[c]) \in Nat BY <1>0, DepTypes
    <3>3. links \in [Implicit -> LinkType] /\ links[t] \in LinkType BY <1>0 DEF Typed
    <3>4. CASE First(prog.deps[c], n)
      <4>1. links'[t] = [links[t] EXCEPT !.todo = Links(table[k][b], kind), !.next = n + 1] BY <1>0, <2>6, <3>3, <3>4
      <4> QED BY <2>6, <3>1, <3>2, <3>3, <4>1, LinkTypes
    <3>5. CASE ~First(prog.deps[c], n)
      <4>1. links'[t] = [links[t] EXCEPT !.next = n + 1] BY <1>0, <2>6, <3>3, <3>5
      <4> QED BY <2>6, <3>1, <3>2, <3>3, <4>1, LinkTypes
    <3> QED BY <3>4, <3>5
  <2>8. CASE Made(t, c, a)
    <3>1. Follows(c, j) \/ ToLink(t, j) BY <1>0, <1>2, <2>1, <2>8 DEF OrderInv, LinkOrder
    <3>2. ~ToLink(t, j) BY <2>6 DEF ToLink, Elems
    <3> QED BY <3>1, <3>2, FollowsKept
  <2>9. CASE ~Made(t, c, a)
    <3>1. PICK m \in DOMAIN prog.deps[c] : m < n + 1 /\ prog.deps[c][m].addr = a
      BY <1>0, <1>2, <1>6, <2>7 DEF Made
    <3>2. m \in Nat BY <1>0, <3>1, DepTypes
    <3>3. m = n /\ a = b BY <2>3, <2>4, <2>7, <2>9, <3>1, <3>2 DEF Made
    <3>4. First(prog.deps[c], n)
      <4>1. SUFFICES ASSUME NEW x \in 1 .. n - 1, prog.deps[c][x].addr = prog.deps[c][n].addr PROVE FALSE BY DEF First
      <4>2. x \in DOMAIN prog.deps[c] /\ x < n
        <5>1. DOMAIN prog.deps[c] = 1 .. Len(prog.deps[c]) BY <1>0, DepTypes
        <5> QED BY <2>7, <5>1
      <4> QED BY <2>3, <2>4, <2>9, <3>3, <4>1, <4>2 DEF Made
    <3>5. links'[t].todo = Links(table[k][b], kind)
      <4>1. links \in [Implicit -> LinkType] /\ links[t] \in LinkType BY <1>0 DEF Typed
      <4>2. links'[t] = [links[t] EXCEPT !.todo = Links(table[k][b], kind), !.next = n + 1] BY <1>0, <2>6, <3>4, <4>1
      <4> QED BY <4>1, <4>2, LinkTypes
    <3>6. Covered(b, table[k][b], j, kind)
      <4>1. On(c, a) /\ kind = KindOn(c, a) BY <2>5, <3>1, <3>3 DEF On, KindOn
      <4> QED BY <1>0, <1>2, <2>1, <2>2, <3>3, <4>1, DependCovers
    <3>7. PICK i \in Elems(Links(table[k][b], kind)) : i = j \/ Behind(i, j, b) BY <3>6 DEF Covered
    <3>8. i \in Elems(links[t].todo)' BY <3>5, <3>7 DEF Elems
    <3>9. i = j \/ Prior(i, j)' BY <1>1, <1>2, <3>3, <3>7 DEF Prior
    <3> QED BY <1>6, <3>8, <3>9 DEF ToLink
  <2> QED BY <2>8, <2>9
<1>7. CASE u = t /\ Link(t)
  <2>1. Linking(t, c) /\ c = Fresh(Cur(t))
    <3>1. UNCHANGED <<prog, pc, at, stack>> BY <1>7 DEF Link, body
    <3> QED BY <1>2, <1>7, <3>1, LinkingSame DEF Linking
  <2>2. PICK s : s = links[t].todo OBVIOUS
  <2>3. s # <<>> /\ s \in Seq(Explicit) BY <1>0, <1>7, <2>2 DEF Link, Typed, LinkType
  <2>4. links'[t].todo = Tail(s) /\ links'[t].next = links[t].next
    <3>1. links \in [Implicit -> LinkType] /\ links[t] \in LinkType BY <1>0 DEF Typed
    <3>2. PICK d : d = IF StillLive(Head(s)) THEN 1 ELSE 0 OBVIOUS
    <3>3. links' = [links EXCEPT ![t].todo = Tail(@), ![t].n = @ + d] BY <1>7, <2>2, <3>2 DEF Link
    <3>4. links'[t] = [links[t] EXCEPT !.todo = Tail(s), !.n = links[t].n + d] BY <1>0, <2>2, <3>1, <3>3
    <3> QED BY <3>1, <3>4, LinkTypes
  <2>5. Made(t, c, a) BY <1>0, <1>2, <1>7, <2>4 DEF Made
  <2>6. Follows(c, j) \/ ToLink(t, j) BY <1>0, <1>2, <2>1, <2>5 DEF OrderInv, LinkOrder
  <2>7. CASE Follows(c, j) BY <2>7, FollowsKept
  <2>8. ASSUME NEW i \in Elems(s), i = j \/ Prior(i, j) PROVE Follows(c, j)' \/ ToLink(t, j)'
    <3>1. CASE i # Head(s)
      <4>1. i \in Elems(Tail(s)) BY <2>3, <2>8, <3>1, InTail
      <4>2. i \in Elems(links[t].todo)' BY <2>4, <4>1 DEF Elems
      <4> QED BY <1>1, <2>8, <4>2 DEF ToLink
    <3>2. CASE i = Head(s) /\ node[i].live
      <4>0. i \in Explicit BY <2>3, <3>2, ElemsOf
      <4>1. node'[i].succ = <<c>> \o node[i].succ BY <1>0, <1>7, <2>1, <2>2, <3>2, LinkTakes
      <4>2. node[i].succ \in Seq(Explicit) BY <1>0, <4>0 DEF Typed, NodeType
      <4>3. Elems(<<c>> \o node[i].succ) = {c} \cup Elems(node[i].succ) BY <4>2, Consed
      <4>4. c \in Elems(node[i].succ)' BY <4>1, <4>3 DEF Elems
      <4>5. i = j \/ Prior(i, j)' BY <1>1, <2>8
      <4> QED BY <4>0, <4>4, <4>5 DEF Follows, Behindhand
    <3>3. CASE i = Head(s) /\ ~node[i].live
      <4>0. i \in Explicit BY <2>3, <3>3, ElemsOf
      <4>1. prog.deps[i] # <<>> /\ \E h \in 1 .. pc[Cur(t)] - 2 : Spawns(Cur(t), h, i)
        BY <1>0, <2>1, <2>2, <2>8 DEF OrderInv, TodoEarlier
      <4>2. PICK h \in 1 .. pc[Cur(t)] - 2 : Spawns(Cur(t), h, i) BY <4>1
      <4>3. pc[Cur(t)] \in Nat BY <1>0 DEF Typed
      <4>4. h \in 1 .. pc[Cur(t)] - 1 /\ h # pc[Cur(t)] - 1 BY <4>3
      <4>5. status[i] # "none" BY <1>0, <4>2, <4>4 DEF OrderInv, Created
      <4>6. \A v \in Threads : ~Linking(v, i) BY <1>0, <2>1, <4>2, <4>4, EarlierLinked
      <4>7. Over(i) BY <1>0, <3>3, <4>0, <4>1, <4>5, <4>6 DEF OrderInv, Settled
      <4>8. Over(j)
        <5>1. CASE i = j BY <4>7, <5>1
        <5>2. CASE Prior(i, j) BY <1>0, <4>0, <4>7, <5>2 DEF OrderInv, ClearedOrder, Cleared, Begun, Over
        <5> QED BY <2>8, <5>1, <5>2
      <4> QED BY <1>0, <4>8, OverKept DEF Follows
    <3> QED BY <3>1, <3>2, <3>3
  <2> QED BY <1>7, <2>2, <2>6, <2>7, <2>8 DEF ToLink
<1>8. CASE u = t /\ ~Alloc(t) /\ ~Depend(t) /\ ~Link(t)
  <2>1. CASE Settle(t)
    <3>1. stack' = stack /\ \E w \in {"run", "push"} : Set(t, w) BY <1>0, <2>1, SettleTakes DEF body
    <3>2. ~At(t, "link")' BY <1>0, <3>1, TurnedTo
    <3> QED BY <1>2, <1>8, <3>2 DEF Linking
  <2>2. CASE ~Settle(t)
    <3>1. ~At(t, "link")' BY <1>0, <1>8, <2>2, NotLinking
    <3> QED BY <1>2, <1>8, <3>1 DEF Linking
  <2> QED BY <2>1, <2>2
<1> QED BY <1>4, <1>5, <1>6, <1>7, <1>8

LEMMA AllocLinks ==
    ASSUME NEW t, Goes(t), Alloc(t), NEW c, c = Arg(Cur(t)), prog.deps[c] # <<>>
    PROVE  Linking(t, c)' /\ links'[t].next = 1
<1>0. Inv /\ t \in Threads /\ t \in Implicit /\ Stepped(t) /\ prog' = prog /\ Typed
  BY Basics, ThreadTasks DEF Goes
<1>1. Set(t, "link") /\ stack' = stack BY DEF Alloc
<1>2. Cur(t)' = Cur(t) /\ At(t, "link")' BY <1>0, <1>1, TurnedTo
<1>3. pc'[Cur(t)] = pc[Cur(t)] + 1 /\ pc[Cur(t)] \in Nat BY <1>0, AllocTakes DEF Typed
<1>4. Fresh(Cur(t))' = Arg(Cur(t)) BY <1>0, <1>2, <1>3 DEF Fresh, Arg, Body
<1>5. links'[t].next = 1 BY <1>0 DEF Alloc, Typed
<1> QED BY <1>2, <1>4, <1>5 DEF Linking

\* While a task is linked its dependences are taken one after the other.
LEMMA NextMoves ==
    ASSUME NEW t, Goes(t), NEW c, Linking(t, c), NEW d, Linking(t, d)'
    PROVE  links'[t].next = links[t].next \/ (Depend(t) /\ links'[t].next = links[t].next + 1)
<1>0. Inv /\ t \in Threads /\ t \in Implicit /\ Acts(t) /\ Typed /\ Stepped(t) BY Basics, ThreadTasks DEF Goes
<1>1. links \in [Implicit -> LinkType] /\ links[t] \in LinkType BY <1>0 DEF Typed
<1>2. At(t, "link") /\ At(t, "link")' BY DEF Linking
<1>3. CASE Depend(t)
  <2>1. PICK s, n : /\ n = links[t].next + 1
                    /\ \/ links' = [links EXCEPT ![t].todo = s, ![t].next = n]
                       \/ links' = [links EXCEPT ![t].next = n]
    BY <1>3 DEF Depend
  <2>2. CASE links' = [links EXCEPT ![t].todo = s, ![t].next = n]
    <3>1. links'[t] = [links[t] EXCEPT !.todo = s, !.next = n] BY <1>0, <1>1, <2>2
    <3> QED BY <1>1, <1>3, <2>1, <3>1, LinkTypes
  <2>3. CASE links' = [links EXCEPT ![t].next = n]
    <3>1. links'[t] = [links[t] EXCEPT !.next = n] BY <1>0, <1>1, <2>3
    <3> QED BY <1>1, <1>3, <2>1, <3>1, LinkTypes
  <2> QED BY <2>1, <2>2, <2>3
<1>4. CASE Link(t)
  <2>1. PICK s, d1 : links' = [links EXCEPT ![t].todo = s, ![t].n = d1] BY <1>4 DEF Link
  <2>2. links'[t] = [links[t] EXCEPT !.todo = s, !.n = d1] BY <1>0, <1>1, <2>1
  <2> QED BY <1>1, <2>2, LinkTypes
<1>5. CASE Settle(t) BY <1>5 DEF Settle
<1>6. ~Alloc(t) BY <1>2 DEF Alloc, At
<1> QED BY <1>0, <1>2, <1>3, <1>4, <1>5, <1>6, NotLinking

LEMMA LinkerNext ==
    ASSUME NEW t, Goes(t), NEW u \in Threads, NEW v \in Threads, NEW c, Linking(u, c)', Linking(v, c)', c \in Explicit
    PROVE  u = v
<1>1. InOnePlace' /\ Threads' = Threads BY Basics
<1>2. Lies(c, "hand", 0, u)' /\ Lies(c, "hand", 0, v)' BY <1>1 DEF Lies, InHand, Linking
<1> QED BY <1>1, <1>2 DEF InOnePlace

---------------------------------------------------------------------------
(* The tables.                                                             *)

\* The step that puts c into the entry of address a in the table of k.
Enters(t, k, c, a) ==
    /\ Depend(t) /\ k = Cur(t) /\ c = Fresh(k) /\ First(prog.deps[c], links[t].next)
    /\ a = prog.deps[c][links[t].next].addr

LEMMA EntersOf ==
    ASSUME NEW t, Goes(t), NEW k, NEW c, NEW a, Enters(t, k, c, a)
    PROVE  /\ k \in Tasks /\ c \in Explicit /\ a \in Addrs /\ Linking(t, c) /\ Linking(t, c)' /\ On(c, a)
           /\ KindOn(c, a) \in {"in", "out", "mtx"}
           /\ Spawns(k, pc[k] - 1, c) /\ pc[k] \in Nat /\ pc[k] > 1 /\ pc' = pc
           /\ ~Made(t, c, a) /\ Made(t, c, a)' /\ \A b : b # a => (Made(t, c, b)' <=> Made(t, c, b))
           /\ links'[t].todo = Links(table[k][a], KindOn(c, a))
           /\ table' = [table EXCEPT ![k][a] = After(@, KindOn(c, a), c)]
<1>0. /\ Inv /\ t \in Threads /\ OrderInv /\ prog' = prog /\ prog \in Programs /\ Typed /\ t \in Implicit
  BY Basics, ThreadTasks
<1>1. PICK n : n = links[t].next OBVIOUS
<1>2. /\ Depend(t) /\ k = Cur(t) /\ c = Fresh(k) /\ First(prog.deps[c], n) /\ a = prog.deps[c][n].addr
  BY <1>1 DEF Enters
<1>3. /\ At(t, "link") /\ n <= Len(prog.deps[c]) /\ UNCHANGED <<prog, body>>
      /\ links' = [links EXCEPT ![t].todo = Links(table[k][a], KindOn(c, a)), ![t].next = n + 1]
      /\ table' = [table EXCEPT ![k][a] = After(@, KindOn(c, a), c)]
  BY <1>1, <1>2 DEF Depend, KindOn
<1>4. Linking(t, c) /\ Linking(t, c)'
  <2>1. Linking(t, c) BY <1>2, <1>3 DEF Linking
  <2> QED BY <1>3, <2>1, LinkingSame DEF body
<1>5. k \in Tasks /\ c \in Explicit /\ pc[k] > 1 /\ Spawns(k, pc[k] - 1, c) /\ pc[k] \in Nat
  BY <1>0, <1>2, <1>4, LinkerOf DEF Typed
<1>6. links \in [Implicit -> LinkType] /\ links[t] \in LinkType /\ n \in Nat \ {0}
  BY <1>0, <1>1 DEF Typed, LinkType
<1>7. links'[t] = [links[t] EXCEPT !.todo = Links(table[k][a], KindOn(c, a)), !.next = n + 1]
  BY <1>0, <1>3, <1>6
<1>8. links'[t].todo = Links(table[k][a], KindOn(c, a)) /\ links'[t].next = n + 1 BY <1>6, <1>7, LinkTypes
<1>9. /\ DOMAIN prog.deps[c] = 1 .. Len(prog.deps[c]) /\ Len(prog.deps[c]) \in Nat /\ n \in DOMAIN prog.deps[c]
      /\ a \in Addrs /\ KindOn(c, a) \in {"in", "out", "mtx"}
  <2>1. DOMAIN prog.deps[c] = 1 .. Len(prog.deps[c]) /\ Len(prog.deps[c]) \in Nat BY <1>0, <1>5, DepTypes
  <2>2. n \in 1 .. Len(prog.deps[c]) BY <1>3, <1>6, <2>1
  <2> QED BY <1>0, <1>2, <1>5, <2>1, <2>2, DepTypes DEF KindOn
<1>10. On(c, a) BY <1>2, <1>9 DEF On
<1>11. ~Made(t, c, a)
  <2>1. SUFFICES ASSUME NEW m \in DOMAIN prog.deps[c], m < n, prog.deps[c][m].addr = a PROVE FALSE
    BY <1>1 DEF Made
  <2>2. m \in 1 .. n - 1 BY <1>6, <1>9, <2>1
  <2> QED BY <1>2, <2>1, <2>2 DEF First
<1>12. Made(t, c, a)' BY <1>0, <1>2, <1>6, <1>8, <1>9 DEF Made
<1>13. ASSUME NEW b, b # a PROVE Made(t, c, b)' <=> Made(t, c, b)
  <2>1. \A m \in DOMAIN prog.deps[c] : m < n + 1 /\ prog.deps[c][m].addr = b <=> m < n /\ prog.deps[c][m].addr = b
    BY <1>2, <1>6, <1>9, <1>13
  <2> QED BY <1>0, <1>1, <1>8, <2>1 DEF Made
<1>14. pc' = pc BY <1>3 DEF body
<1> QED BY <1>3, <1>4, <1>5, <1>8, <1>9, <1>10, <1>11, <1>12, <1>13, <1>14

\* Which tasks are entered changes in that step only.
LEMMA EnteredMoves ==
    ASSUME NEW t, Goes(t), NEW p \in Tasks, NEW a \in Addrs, NEW j \in Explicit
    PROVE  Entered(p, a, j)' <=> Entered(p, a, j) \/ Enters(t, p, j, a)
<1>0. /\ Inv /\ t \in Threads /\ OrderInv /\ prog' = prog /\ prog \in Programs /\ Typed /\ Typed' /\ Threads' = Threads
      /\ Acts(t) /\ Stepped(t) /\ t \in Implicit /\ Cur(t) \in Tasks /\ Explicit \subseteq Tasks
  BY Basics, ThreadTasks DEF Goes
<1>1. /\ \A q, i, c : Spawns(q, i, c)' <=> Spawns(q, i, c)
      /\ \A c, b : On(c, b)' <=> On(c, b)
  BY <1>0, SameOrder
<1>2. pc[p] \in Nat /\ pc'[p] \in Nat BY <1>0 DEF Typed
<1>6. links[t].next \in Nat
  <2>1. links[t] \in LinkType BY <1>0 DEF Typed
  <2> QED BY <2>1 DEF LinkType
<1>7. DOMAIN prog.deps[j] = 1 .. Len(prog.deps[j]) /\ Len(prog.deps[j]) \in Nat BY <1>0, DepTypes
<1>3. ASSUME Enters(t, p, j, a) PROVE Entered(p, a, j)'
  <2>1. /\ Linking(t, j)' /\ On(j, a) /\ Spawns(p, pc[p] - 1, j) /\ pc' = pc /\ Made(t, j, a)' /\ pc[p] > 1
        /\ Linking(t, j)
    BY <1>3, EntersOf
  <2>2. pc[p] - 1 \in 1 .. pc[p] - 1 BY <1>2, <2>1
  <2>3. \A u \in Threads : Linking(u, j)' => u = t
    <3>1. SUFFICES ASSUME NEW u \in Threads, Linking(u, j)', u # t PROVE FALSE OBVIOUS
    <3>2. Linking(u, j) BY <1>0, <3>1, Linkers
    <3> QED BY <1>0, <2>1, <3>1, <3>2, OneLinker DEF InHand, Linking
  <2> QED BY <1>0, <1>1, <2>1, <2>2, <2>3 DEF Entered
<1>4. ASSUME Entered(p, a, j) PROVE Entered(p, a, j)'
  <2>1. PICK i \in 1 .. pc[p] - 1 : Spawns(p, i, j) BY <1>4 DEF Entered
  <2>2. i \in 1 .. pc'[p] - 1 /\ On(j, a)
    <3>1. pc'[p] = pc[p] \/ pc'[p] = pc[p] + 1 BY PcStep
    <3> QED BY <1>2, <1>4, <2>1, <3>1 DEF Entered
  <2>3. status[j] # "none" BY <1>0, <2>1 DEF OrderInv, Created
  <2>4. ASSUME NEW u \in Threads, Linking(u, j)' PROVE Made(u, j, a)'
    <3>1. PICK v \in Threads : Linking(v, j) BY <2>3, <2>4, LinkingEnds
    <3>2. CASE u # t
      <4>1. Linking(u, j) /\ links'[u] = links[u] BY <1>0, <2>4, <3>2, Linkers
      <4>2. Made(u, j, a) BY <1>4, <4>1, <2>4 DEF Entered
      <4> QED BY <1>0, <4>1, <4>2 DEF Made
    <3>3. CASE u = t
      <4>1. v = t
        <5>1. SUFFICES ASSUME v # t PROVE FALSE OBVIOUS
        <5>2. Linking(v, j)' BY <1>0, <3>1, <5>1, Linkers
        <5> QED BY <2>4, <3>3, <5>1, <5>2, LinkerNext
      <4>2. Made(t, j, a) BY <1>4, <3>1, <4>1 DEF Entered
      <4>3. PICK m \in DOMAIN prog.deps[j] : m < links[t].next /\ prog.deps[j][m].addr = a BY <4>2 DEF Made
      <4>4. m \in Nat /\ links[t].next \in Nat BY <1>6, <1>7, <4>3
      <4>5. links'[t].next = links[t].next \/ links'[t].next = links[t].next + 1
        BY <2>4, <3>1, <3>3, <4>1, NextMoves
      <4> QED BY <1>0, <3>3, <4>3, <4>4, <4>5 DEF Made
    <3> QED BY <3>2, <3>3
  <2> QED BY <1>0, <1>1, <2>1, <2>2, <2>4 DEF Entered
<1>5. ASSUME Entered(p, a, j)', ~Entered(p, a, j) PROVE Enters(t, p, j, a)
  <2>1. PICK i \in 1 .. pc'[p] - 1 : Spawns(p, i, j) BY <1>1, <1>5 DEF Entered
  <2>2. On(j, a) BY <1>1, <1>5 DEF Entered
  <2>3. CASE i \notin 1 .. pc[p] - 1
    <3>1. pc'[p] = pc[p] + 1 /\ p = Cur(t) /\ (Alloc(t) \/ Op(p) # "task") BY <2>1, <2>3, PcStep
    <3>2. i = pc[p] BY <1>2, <2>1, <2>3, <3>1
    <3>3. Op(p) = "task" /\ Arg(p) = j
      <4>1. Body(p)[i].op = "task" /\ Body(p)[i].arg = j /\ i \in DOMAIN Body(p) BY <2>1 DEF Spawns, Is
      <4>2. ~Ends(p) BY <1>0, <2>1, <3>2, SpawnsTask, OpsOf DEF Ends
      <4> QED BY <3>2, <4>1, <4>2 DEF Op, Arg
    <3>4. Alloc(t) /\ j = Arg(Cur(t)) BY <3>1, <3>3
    <3>5. prog.deps[j] # <<>> BY <2>2 DEF On
    <3>6. Linking(t, j)' /\ links'[t].next = 1 BY <3>4, <3>5, AllocLinks
    <3>7. Made(t, j, a)' BY <1>0, <1>5, <3>6 DEF Entered
    <3>8. PICK m \in DOMAIN prog.deps[j] : m < 1 BY <1>0, <3>6, <3>7 DEF Made
    <3>9. m \in 1 .. Len(prog.deps[j]) BY <1>0, <3>8, DepTypes
    <3> QED BY <3>8, <3>9
  <2>4. CASE i \in 1 .. pc[p] - 1
    <3>1. PICK u \in Threads : Linking(u, j) /\ ~Made(u, j, a) BY <1>5, <2>1, <2>2, <2>4 DEF Entered
    <3>2. CASE u # t
      <4>1. Linking(u, j)' /\ links'[u] = links[u] BY <1>0, <3>1, <3>2, Linkers
      <4>2. Made(u, j, a)' BY <1>0, <1>5, <4>1 DEF Entered
      <4> QED BY <1>0, <3>1, <4>1, <4>2 DEF Made
    <3>3. CASE u = t
      <4>1. ~Settle(t)
        <5>1. SUFFICES ASSUME Settle(t) PROVE FALSE OBVIOUS
        <5>2. links[t].next > Len(prog.deps[j]) BY <3>1, <3>3, <5>1 DEF Settle, Linking
        <5>3. PICK m \in DOMAIN prog.deps[j] : prog.deps[j][m].addr = a BY <2>2 DEF On
        <5>4. m \in 1 .. Len(prog.deps[j]) /\ links[t].next \in Nat /\ Len(prog.deps[j]) \in Nat
          BY <1>6, <1>7, <5>3
        <5>5. m < links[t].next BY <5>2, <5>4
        <5> QED BY <3>1, <3>3, <5>3, <5>5 DEF Made
      <4>2. ~Alloc(t) BY <3>1, <3>3 DEF Alloc, Linking, At
      <4>3. Linking(t, j)' BY <3>1, <3>3, <4>1, <4>2, LinkingStays
      <4>4. Made(t, j, a)' BY <1>0, <1>5, <4>3 DEF Entered
      <4>5. links'[t].next = links[t].next \/ (Depend(t) /\ links'[t].next = links[t].next + 1)
        BY <3>1, <3>3, <4>3, NextMoves
      <4>6. PICK m \in DOMAIN prog.deps[j] : m < links'[t].next /\ prog.deps[j][m].addr = a BY <1>0, <4>4 DEF Made
      <4>7. m \in 1 .. Len(prog.deps[j]) /\ links[t].next \in Nat /\ Len(prog.deps[j]) \in Nat
        BY <1>6, <1>7, <4>6
      <4>8. Depend(t) /\ m = links[t].next
        <5>1. ~ (m < links[t].next) BY <3>1, <3>3, <4>6 DEF Made
        <5> QED BY <4>5, <4>6, <4>7, <5>1
      <4>9. First(prog.deps[j], m)
        <5>1. SUFFICES ASSUME NEW x \in 1 .. m - 1, prog.deps[j][x].addr = prog.deps[j][m].addr PROVE FALSE BY DEF First
        <5>2. x \in DOMAIN prog.deps[j] /\ x < m
          <6>1. DOMAIN prog.deps[j] = 1 .. Len(prog.deps[j]) BY <1>0, DepTypes
          <6> QED BY <4>7, <6>1
        <5> QED BY <3>1, <3>3, <4>6, <4>8, <5>1, <5>2 DEF Made
      <4>10. p = Cur(t) /\ j = Fresh(Cur(t)) BY <1>0, <2>1, <3>1, <3>3, LinkerOf DEF Linking
      <4> QED BY <4>6, <4>8, <4>9, <4>10 DEF Enters
    <3> QED BY <3>2, <3>3
  <2> QED BY <2>3, <2>4
<1> QED BY <1>3, <1>4, <1>5

\* The entry of an address once another task has been entered: the tasks of it cover
\* all those before that a task of the kind may have to wait for.
LEMMA TableAdd ==
    ASSUME prog \in Programs, NEW p \in Tasks, NEW a, NEW e \in EntryType, NEW S, S \subseteq Explicit,
           NEW c \in Explicit, NEW l, Spawns(p, l, c), On(c, a),
           \A j \in S : On(j, a) /\ \E i \in Nat : i < l /\ Spawns(p, i, j),
           NEW kind \in {"in", "out", "mtx"}, kind = KindOn(c, a), Table(p, a, e, S)
    PROVE  Table(p, a, After(e, kind, c), S \cup {c})
<1>0. PICK f \in EntryType : f = After(e, kind, c) BY EntryTypes
<1>1. /\ e.out \in Seq(Explicit) /\ e.ins \in Seq(Explicit) /\ e.mtxs \in Seq(Explicit) /\ e.last \in {"ins", "mtxs"}
  BY DEF EntryType
<1>2. /\ kind = "out" => f.out = <<c>> /\ f.ins = <<>> /\ f.mtxs = <<>>
      /\ kind = "in" => /\ f.out = IF e.mtxs # <<>> THEN <<>> ELSE e.out
                        /\ f.ins = <<c>> \o (IF e.mtxs # <<>> /\ e.last = "mtxs" THEN <<>> ELSE e.ins)
                        /\ f.mtxs = e.mtxs /\ f.last = "ins"
      /\ kind = "mtx" => /\ f.out = IF e.ins # <<>> THEN <<>> ELSE e.out
                         /\ f.mtxs = <<c>> \o (IF e.ins # <<>> /\ e.last = "ins" THEN <<>> ELSE e.mtxs)
                         /\ f.ins = e.ins /\ f.last = "mtxs"
  BY <1>0 DEF After, EntryType
<1>3. \A s \in Seq(Explicit) : Elems(<<c>> \o s) = {c} \cup Elems(s) /\ <<c>> \o s # <<>> BY Consed
<1>4. Elems(<<>>) = {} /\ <<>> \in Seq(Explicit) BY DEF Elems
<1>5. Elems(<<c>>) = {c} /\ <<c>> # <<>> BY DEF Elems
<1>6. /\ Among(e.out, S, a, "out") /\ Among(e.ins, S, a, "in") /\ Among(e.mtxs, S, a, "mtx")
      /\ \A j \in S : Covered(a, e, j, "out")
      /\ \A k \in {"in", "mtx"} : \A j \in S : Against(p, a, S, k, j) => Covered(a, e, j, k)
  BY DEF Table, Against
<1>7. ASSUME NEW j \in S, kind = "out" \/ KindOn(j, a) # kind PROVE Behind(c, j, a)
  <2>1. PICK i \in Nat : i < l /\ Spawns(p, i, j) /\ On(j, a) BY <1>7
  <2> QED BY <1>7, <2>1, BehindKind
\* All of S are covered by the sequence that now holds c.
<1>8. ASSUME NEW s \in Seq(Explicit), c \in Elems(s),
             NEW other \in {"in", "mtx"}, kind # other,
             \A i \in Elems(Links(e, "out")) : i \in Elems(s) \/ (i \in S /\ KindOn(i, a) # kind),
             NEW j \in S \cup {c}
      PROVE  \E i \in Elems(s) : i = j \/ Behind(i, j, a)
  <2>1. CASE j = c BY <1>8, <2>1
  <2>2. CASE j \in S
    <3>1. PICK i \in Elems(Links(e, "out")) : i = j \/ Behind(i, j, a) BY <1>6, <2>2 DEF Covered
    <3>2. CASE i \in Elems(s) BY <3>1, <3>2
    <3>3. CASE i \in S /\ KindOn(i, a) # kind
      <4>1. Behind(c, i, a) BY <1>7, <3>3
      <4>2. Behind(c, j, a) BY <3>1, <4>1, BehindTwice
      <4> QED BY <1>8, <4>2
    <3> QED BY <1>8, <3>1, <3>2, <3>3
  <2> QED BY <1>8, <2>1, <2>2
\* c is last: none of S is against another kind because of c alone, nor is c.
<1>9. ASSUME NEW j \in S \cup {c}, Against(p, a, S \cup {c}, kind, j), kind # "out"
      PROVE  j \in S /\ Against(p, a, S, kind, j)
  <2>1. PICK m \in S \cup {c} : From(p, j, m) /\ KindOn(m, a) # kind BY <1>9 DEF Against
  <2>2. m \in S BY <2>1
  <2>3. j # c
    <3>1. SUFFICES ASSUME j = c PROVE FALSE OBVIOUS
    <3>2. PICK x, y \in DOMAIN Body(p) : Spawns(p, x, c) /\ Spawns(p, y, m) /\ x <= y BY <2>1, <3>1 DEF From
    <3>3. PICK i \in Nat : i < l /\ Spawns(p, i, m) BY <2>2
    <3>4. x = l /\ y = i BY <3>2, <3>3, Place
    <3>5. l \in Nat BY SpawnsTask
    <3> QED BY <3>2, <3>3, <3>4, <3>5
  <2> QED BY <2>1, <2>2, <2>3 DEF Against
<1>10. CASE kind = "out"
  <2>1. \A k \in {"in", "out", "mtx"} : Links(f, k) = <<c>> BY <1>2, <1>10 DEF Links
  <2>2. \A j \in S : Behind(c, j, a) BY <1>7, <1>10
  <2>3. \A k \in {"in", "out", "mtx"} : \A j \in S \cup {c} : Covered(a, f, j, k) BY <1>5, <2>1, <2>2 DEF Covered
  <2>4. Among(f.out, S \cup {c}, a, "out") /\ Among(f.ins, S \cup {c}, a, "in") /\ Among(f.mtxs, S \cup {c}, a, "mtx")
    BY <1>2, <1>4, <1>5, <1>10 DEF Among
  <2> QED BY <1>0, <2>3, <2>4 DEF Table
<1>11. CASE kind = "in"
  <2>1. PICK s \in Seq(Explicit) : s = IF e.mtxs # <<>> /\ e.last = "mtxs" THEN <<>> ELSE e.ins BY <1>1, <1>4
  <2>2. f.ins = <<c>> \o s /\ f.mtxs = e.mtxs /\ f.last = "ins" BY <1>2, <1>11, <2>1
  <2>3. Elems(f.ins) = {c} \cup Elems(s) /\ f.ins # <<>> /\ f.ins \in Seq(Explicit) BY <1>0, <1>3, <2>2 DEF EntryType
  <2>4. Links(f, "out") = f.ins /\ Links(f, "mtx") = f.ins BY <2>2, <2>3 DEF Links
  <2>5. Links(f, "in") = Links(e, "in") BY <1>2, <1>11 DEF Links
  <2>6. \A i \in Elems(Links(e, "out")) : i \in Elems(f.ins) \/ (i \in S /\ KindOn(i, a) # kind)
    <3>1. SUFFICES ASSUME NEW i \in Elems(Links(e, "out")) PROVE i \in Elems(f.ins) \/ (i \in S /\ KindOn(i, a) # kind)
      OBVIOUS
    <3>2. CASE Links(e, "out") = e.out BY <1>6, <1>11, <3>1, <3>2 DEF Among
    <3>3. CASE Links(e, "out") = e.mtxs BY <1>6, <1>11, <3>1, <3>3 DEF Among
    <3>4. CASE Links(e, "out") = e.ins /\ e.last = "ins" BY <2>1, <2>3, <3>1, <3>4
    <3> QED BY <3>2, <3>3, <3>4 DEF Links
  <2>7. \A j \in S \cup {c} : Covered(a, f, j, "out") /\ Covered(a, f, j, "mtx")
    BY <1>8, <1>11, <2>3, <2>4, <2>6 DEF Covered
  <2>8. \A j \in S \cup {c} : Against(p, a, S \cup {c}, "in", j) => Covered(a, f, j, "in")
    <3>1. \A j : Covered(a, f, j, "in") <=> Covered(a, e, j, "in") BY <2>5 DEF Covered
    <3> QED BY <1>6, <1>9, <1>11, <3>1
  <2>9. Among(f.out, S \cup {c}, a, "out") BY <1>2, <1>4, <1>6, <1>11 DEF Among
  <2>10. Among(f.ins, S \cup {c}, a, "in")
    <3>1. Elems(s) \subseteq Elems(e.ins) BY <1>4, <2>1
    <3> QED BY <1>6, <1>11, <2>3, <3>1 DEF Among
  <2>11. Among(f.mtxs, S \cup {c}, a, "mtx") BY <1>6, <2>2 DEF Among
  <2> QED BY <1>0, <2>7, <2>8, <2>9, <2>10, <2>11 DEF Table
<1>12. CASE kind = "mtx"
  <2>1. PICK s \in Seq(Explicit) : s = IF e.ins # <<>> /\ e.last = "ins" THEN <<>> ELSE e.mtxs BY <1>1, <1>4
  <2>2. f.mtxs = <<c>> \o s /\ f.ins = e.ins /\ f.last = "mtxs" BY <1>2, <1>12, <2>1
  <2>3. Elems(f.mtxs) = {c} \cup Elems(s) /\ f.mtxs # <<>> /\ f.mtxs \in Seq(Explicit) BY <1>0, <1>3, <2>2 DEF EntryType
  <2>4. Links(f, "out") = f.mtxs /\ Links(f, "in") = f.mtxs BY <2>2, <2>3 DEF Links
  <2>5. Links(f, "mtx") = Links(e, "mtx") BY <1>2, <1>12 DEF Links
  <2>6. \A i \in Elems(Links(e, "out")) : i \in Elems(f.mtxs) \/ (i \in S /\ KindOn(i, a) # kind)
    <3>1. SUFFICES ASSUME NEW i \in Elems(Links(e, "out")) PROVE i \in Elems(f.mtxs) \/ (i \in S /\ KindOn(i, a) # kind)
      OBVIOUS
    <3>2. CASE Links(e, "out") = e.out BY <1>6, <1>12, <3>1, <3>2 DEF Among
    <3>3. CASE Links(e, "out") = e.ins BY <1>6, <1>12, <3>1, <3>3 DEF Among
    <3>4. CASE Links(e, "out") = e.mtxs /\ e.last = "mtxs" BY <2>1, <2>3, <3>1, <3>4
    <3> QED BY <1>1, <3>2, <3>3, <3>4 DEF Links
  <2>7. \A j \in S \cup {c} : Covered(a, f, j, "out") /\ Covered(a, f, j, "in")
    BY <1>8, <1>12, <2>3, <2>4, <2>6 DEF Covered
  <2>8. \A j \in S \cup {c} : Against(p, a, S \cup {c}, "mtx", j) => Covered(a, f, j, "mtx")
    <3>1. \A j : Covered(a, f, j, "mtx") <=> Covered(a, e, j, "mtx") BY <2>5 DEF Covered
    <3> QED BY <1>6, <1>9, <1>12, <3>1
  <2>9. Among(f.out, S \cup {c}, a, "out") BY <1>2, <1>4, <1>6, <1>12 DEF Among
  <2>10. Among(f.mtxs, S \cup {c}, a, "mtx")
    <3>1. Elems(s) \subseteq Elems(e.mtxs) BY <1>4, <2>1
    <3> QED BY <1>6, <1>12, <2>3, <3>1 DEF Among
  <2>11. Among(f.ins, S \cup {c}, a, "in") BY <1>6, <2>2 DEF Among
  <2> QED BY <1>0, <2>7, <2>8, <2>9, <2>10, <2>11 DEF Table
<1> QED BY <1>10, <1>11, <1>12

LEMMA TableKept ==
    ASSUME NEW t, Goes(t), NEW p \in Tasks, NEW a \in Addrs, ~ \E c : Enters(t, p, c, a),
           ~ (FreeHash(t) /\ p = Cur(t))
    PROVE  table'[p][a] = table[p][a]
<1>0. Inv /\ t \in Threads /\ Acts(t) /\ Typed BY Basics
<1>1. CASE Depend(t)
  <2>1. PICK k : k = Cur(t) OBVIOUS
  <2>2. PICK c : c = Fresh(k) OBVIOUS
  <2>3. PICK b : b = prog.deps[c][links[t].next].addr OBVIOUS
  <2>4. \/ table' = table
        \/ First(prog.deps[c], links[t].next) /\ \E e : table' = [table EXCEPT ![k][b] = e]
    BY <1>1, <2>1, <2>2, <2>3 DEF Depend
  <2>5. CASE First(prog.deps[c], links[t].next) /\ \E e : table' = [table EXCEPT ![k][b] = e]
    <3>1. Enters(t, k, c, b) BY <1>1, <2>1, <2>2, <2>3, <2>5 DEF Enters
    <3>2. p # k \/ a # b BY <3>1
    <3> QED BY <1>0, <2>5, <3>2 DEF Typed
  <2> QED BY <2>4, <2>5
<1>2. CASE Alloc(t) \/ Link(t) \/ Settle(t) \/ Push(t) \/ Forget(t) \/ Open(t) \/ EndGroup(t) \/ TaskWait(t) \/ Leave(t)
  BY <1>2 DEF Alloc, Link, Settle, Push, Forget, Open, EndGroup, TaskWait, Leave, deps
<1>3. CASE Own(t) \/ Robbed(t) \/ Spent(t) \/ Finish(t) \/ LeaveGroup(t)
  BY <1>3 DEF Own, Robbed, Spent, Finish, LeaveGroup, deps
<1>4. CASE ReleaseNode(t) \/ Notify(t) \/ Notified(t) \/ FreeAncestors(t) \/ Arrive(t)
  BY <1>4 DEF ReleaseNode, Notify, Notified, FreeAncestors, Arrive, deps
<1>5. CASE \E v \in Threads : Rob(t, v) \/ RobNothing(t, v) BY <1>5 DEF Rob, RobNothing, deps
<1>6. CASE FreeHash(t) BY <1>0, <1>6, FreeHashTakes DEF Typed
<1> QED BY <1>0, <1>1, <1>2, <1>3, <1>4, <1>5, <1>6 DEF Acts, Step

\* Whether a table is in order depends on the program, its entry and who is entered.
LEMMA TableSame ==
    ASSUME prog' = prog, NEW p, NEW a, NEW e, e = table'[p][a], NEW S, S = Entereds(p, a)', Table(p, a, e, S)
    PROVE  Table(p, a, table[p][a], Entereds(p, a))'
<1>1. /\ \A q, i, c : Spawns(q, i, c)' <=> Spawns(q, i, c)
      /\ \A c, b : KindOn(c, b)' = KindOn(c, b)
      /\ \A c, j, b : Behind(c, j, b)' <=> Behind(c, j, b)
      /\ Body(p)' = Body(p)
  BY SameOrder DEF Body
<1>2. \A s, kind : Among(s, S, a, kind)' <=> Among(s, S, a, kind) BY <1>1 DEF Among
<1>3. \A j, kind : Covered(a, e, j, kind)' <=> Covered(a, e, j, kind) BY <1>1 DEF Covered
<1>4. \A j, m : From(p, j, m)' <=> From(p, j, m) BY <1>1 DEF From
<1>5. \A j, kind : Against(p, a, S, kind, j)' <=> Against(p, a, S, kind, j) BY <1>1, <1>4 DEF Against
<1>6. Table(p, a, e, S)' BY <1>2, <1>3, <1>5 DEF Table
<1> QED BY <1>6 DEF Table, Among, Against, Covered

LEMMA TablesStep == ASSUME NEW t, Goes(t) PROVE TablesInv'
<1>0. /\ Inv /\ t \in Threads /\ OrderInv /\ prog' = prog /\ prog \in Programs /\ Typed
      /\ Acts(t) /\ t \in Implicit /\ Cur(t) \in Tasks /\ Explicit \subseteq Tasks
  BY Basics, ThreadTasks
<1>1. SUFFICES ASSUME NEW p \in Tasks, NEW a \in Addrs, ~Over(p)' PROVE Table(p, a, table[p][a], Entereds(p, a))'
  BY DEF TablesInv
<1>2. PICK e : e = table'[p][a] OBVIOUS
<1>3. PICK S : S = Entereds(p, a)' OBVIOUS
<1>4. PICK d \in EntryType : d = table[p][a] BY <1>0 DEF Typed
<1>8. ~Over(p) /\ ~ (FreeHash(t) /\ p = Cur(t))
  <2>1. ~Over(p) BY <1>1, OverKept
  <2> QED BY <1>0, <2>1, FreeHashTakes DEF Over
<1>5. Table(p, a, d, Entereds(p, a)) BY <1>0, <1>4, <1>8 DEF OrderInv, TablesInv
<1>6. CASE ~ \E c : Enters(t, p, c, a)
  <2>1. S = Entereds(p, a)
    <3>1. \A j \in Explicit : Entered(p, a, j)' <=> Entered(p, a, j) BY <1>6, EnteredMoves
    <3> QED BY <1>3, <3>1 DEF Entereds
  <2>2. e = d BY <1>0, <1>2, <1>4, <1>6, <1>8, TableKept
  <2> QED BY <1>0, <1>2, <1>3, <1>5, <2>1, <2>2, TableSame
<1>7. ASSUME NEW c, Enters(t, p, c, a) PROVE Table(p, a, e, S)
  <2>1. /\ c \in Explicit /\ On(c, a) /\ KindOn(c, a) \in {"in", "out", "mtx"} /\ Linking(t, c)
        /\ Spawns(p, pc[p] - 1, c) /\ pc[p] \in Nat
        /\ table' = [table EXCEPT ![p][a] = After(@, KindOn(c, a), c)] /\ ~Made(t, c, a)
    BY <1>7, EntersOf
  <2>2. e = After(d, KindOn(c, a), c) BY <1>0, <1>2, <1>4, <2>1 DEF Typed
  <2>3. S = Entereds(p, a) \cup {c}
    <3>1. \A j \in Explicit : Enters(t, p, j, a) => j = c BY <1>7 DEF Enters
    <3>2. \A j \in Explicit : Entered(p, a, j)' <=> Entered(p, a, j) \/ j = c BY <1>7, <3>1, EnteredMoves
    <3> QED BY <1>3, <2>1, <3>2 DEF Entereds
  <2>4. PICK l : l = pc[p] - 1 OBVIOUS
  <2>5. ASSUME NEW j \in Entereds(p, a) PROVE On(j, a) /\ \E i \in Nat : i < l /\ Spawns(p, i, j)
    <3>1. PICK i \in 1 .. pc[p] - 1 : Spawns(p, i, j) BY <2>5 DEF Entereds, Entered
    <3>2. i # l
      <4>1. SUFFICES ASSUME i = l PROVE FALSE OBVIOUS
      <4>2. j = c BY <2>1, <2>4, <3>1, <4>1 DEF Spawns, Is
      <4> QED BY <1>0, <2>1, <2>5, <4>2 DEF Entereds, Entered
    <3> QED BY <2>1, <2>4, <2>5, <3>1, <3>2 DEF Entereds, Entered
  <2>6. Entereds(p, a) \subseteq Explicit BY DEF Entereds
  <2> QED BY <1>0, <1>5, <2>1, <2>2, <2>3, <2>4, <2>5, <2>6, TableAdd
<1> QED BY <1>0, <1>2, <1>3, <1>6, <1>7, TableSame

\* What a task is to be linked to was spawned before it.
LEMMA TodoStep == ASSUME NEW t, Goes(t) PROVE TodoEarlier'
<1>0. /\ Inv /\ t \in Threads /\ OrderInv /\ prog' = prog /\ prog \in Programs /\ Typed /\ Shape /\ Threads' = Threads
      /\ Explicit \subseteq Tasks /\ Cur(t) \in Tasks /\ Acts(t) /\ Stepped(t) /\ t \in Implicit
  BY Basics, ThreadTasks DEF Goes
<1>1. SUFFICES ASSUME NEW u \in Threads, NEW c \in Explicit, Linking(u, c)', NEW i \in Elems(links'[u].todo)
               PROVE  prog.deps[i] # <<>> /\ \E h \in 1 .. pc'[Cur(u)'] - 2 : Spawns(Cur(u)', h, i)
  <2>1. \A q, n, d : Spawns(q, n, d)' <=> Spawns(q, n, d) BY <1>0, SameOrder
  <2> QED BY <1>0, <1>1, <2>1 DEF TodoEarlier, Elems, Spawns, Body
<1>2. ASSUME Linking(u, c), Cur(u)' = Cur(u), pc'[Cur(u)] = pc[Cur(u)], i \in Elems(links[u].todo)
      PROVE  prog.deps[i] # <<>> /\ \E h \in 1 .. pc'[Cur(u)'] - 2 : Spawns(Cur(u)', h, i)
  BY <1>0, <1>2 DEF OrderInv, TodoEarlier
<1>3. CASE u # t
  <2>1. Linking(u, c) /\ Keeps(u) BY <1>0, <1>1, <1>3, Linkers, OthersAt
  <2> QED BY <1>1, <1>2, <2>1 DEF Keeps
<1>4. CASE u = t /\ Alloc(t)
  <2>1. links'[t].todo = <<>> BY <1>0, <1>4 DEF Alloc, Typed
  <2> QED BY <1>1, <1>4, <2>1 DEF Elems
<1>5. CASE u = t /\ (Depend(t) \/ Link(t))
  <2>1. UNCHANGED <<prog, pc, at, stack>> BY <1>5 DEF Depend, Link, body
  <2>2. Linking(t, c) BY <1>1, <1>5, <2>1, LinkingSame
  <2>3. Cur(t)' = Cur(t) BY <2>1 DEF Cur
  <2>4. links \in [Implicit -> LinkType] /\ links[t] \in LinkType BY <1>0 DEF Typed
  <2>5. CASE Link(t)
    <3>1. PICK s : s = links[t].todo OBVIOUS
    <3>2. s # <<>> /\ s \in Seq(Explicit) BY <2>4, <2>5, <3>1 DEF Link, LinkType
    <3>3. PICK d : links' = [links EXCEPT ![t].todo = Tail(@), ![t].n = d] BY <2>5 DEF Link
    <3>4. links'[t] = [links[t] EXCEPT !.todo = Tail(s), !.n = d] BY <1>0, <2>4, <3>1, <3>3
    <3>5. links'[t].todo = Tail(s) BY <2>4, <3>4, LinkTypes
    <3>6. i \in Elems(s) BY <1>1, <1>5, <3>2, <3>5, Tailed
    <3> QED BY <1>2, <1>5, <2>1, <2>2, <2>3, <3>1, <3>6
  <2>6. CASE Depend(t) /\ ~First(prog.deps[c], links[t].next)
    <3>1. PICK n : links' = [links EXCEPT ![t].next = n] BY <2>2, <2>6 DEF Depend, Linking
    <3>2. links'[t] = [links[t] EXCEPT !.next = n] BY <1>0, <2>4, <3>1
    <3>4. links[t].todo = <<>> BY <2>6 DEF Depend
    <3>3. links'[t].todo = <<>> BY <2>4, <3>2, <3>4, LinkTypes
    <3> QED BY <1>1, <1>5, <3>3 DEF Elems
  <2>7. CASE Depend(t) /\ First(prog.deps[c], links[t].next)
    <3>1. PICK k : k = Cur(t) OBVIOUS
    <3>2. PICK a : a = prog.deps[c][links[t].next].addr OBVIOUS
    <3>3. Enters(t, k, c, a) BY <2>2, <2>7, <3>1, <3>2 DEF Enters, Linking
    <3>4. /\ k \in Tasks /\ a \in Addrs /\ KindOn(c, a) \in {"in", "out", "mtx"} /\ Spawns(k, pc[k] - 1, c)
          /\ links'[t].todo = Links(table[k][a], KindOn(c, a)) /\ ~Made(t, c, a) /\ pc[k] \in Nat
      BY <3>3, EntersOf
    <3>11. ~Over(k) BY <1>0, <2>2, <3>1, LinkerRuns
    <3>5. Table(k, a, table[k][a], Entereds(k, a)) BY <1>0, <3>4, <3>11 DEF OrderInv, TablesInv
    <3>6. i \in Entereds(k, a) BY <1>1, <1>5, <3>4, <3>5 DEF Table, Among, Links
    <3>7. PICK h \in 1 .. pc[k] - 1 : Spawns(k, h, i) BY <3>6 DEF Entereds, Entered
    <3>8. h # pc[k] - 1
      <4>1. SUFFICES ASSUME h = pc[k] - 1 PROVE FALSE OBVIOUS
      <4>2. i = c BY <3>4, <3>7, <4>1 DEF Spawns, Is
      <4> QED BY <1>0, <2>2, <3>4, <3>6, <4>2 DEF Entereds, Entered
    <3>9. h \in 1 .. pc[k] - 2 BY <3>4, <3>7, <3>8
    <3>10. prog.deps[i] # <<>> BY <3>6 DEF Entereds, Entered, On
    <3> QED BY <1>5, <2>1, <2>3, <3>1, <3>7, <3>9, <3>10
  <2> QED BY <1>5, <2>5, <2>6, <2>7
<1>6. CASE u = t /\ ~Alloc(t) /\ ~Depend(t) /\ ~Link(t)
  <2>1. CASE Settle(t)
    <3>1. stack' = stack /\ \E w \in {"run", "push"} : Set(t, w) BY <1>0, <2>1, SettleTakes DEF body
    <3>2. ~At(t, "link")' BY <1>0, <3>1, TurnedTo
    <3> QED BY <1>1, <1>6, <3>2 DEF Linking
  <2>2. CASE ~Settle(t)
    <3>1. ~At(t, "link")' BY <1>0, <1>6, <2>2, NotLinking
    <3> QED BY <1>1, <1>6, <3>1 DEF Linking
  <2> QED BY <2>1, <2>2
<1> QED BY <1>3, <1>4, <1>5, <1>6

LEMMA OrderStep == ASSUME NEW t, Goes(t) PROVE OrderInv'
BY CreatedStep, SettledStep, ClearedStep, PendingStep, LinkOrderStep, TodoStep, TablesStep DEF OrderInv

\* The steps of the master in the barrier, and stuttering, leave all this alone.
LEMMA OrderFrame ==
    ASSUME Inv, OrderInv, Inv', Master \/ UNCHANGED vars
    PROVE  OrderInv'
<1>1. UNCHANGED <<prog, status, at, stack, node, table, links>>
  <2>1. CASE Master
    <3>1. UNCHANGED <<prog, status, at, stack, deps>> BY <2>1, MasterKeeps
    <3> QED BY <3>1 DEF deps
  <2>2. CASE UNCHANGED vars BY <2>2 DEF vars, body, deps
  <2> QED BY <2>1, <2>2
<1>2. Typed /\ Shape /\ prog \in Programs /\ Threads' = Threads /\ \A c : Lying(c)' <=> Lying(c)
  BY <1>1, InvParts, InOnePlaceMaster DEF Typed, Threads
<1>3. \A p \in Tasks : pc'[p] = pc[p] \/ (pc'[p] = pc[p] + 1 /\ p = 0 /\ Op(0) = "barrier" /\ Cur(0) = 0 /\ At(0, "run"))
  <2>1. CASE Master
    <3>1. pc' = pc \/ (pc' = [pc EXCEPT ![0] = @ + 1] /\ Op(0) = "barrier" /\ Cur(0) = 0 /\ At(0, "run"))
      BY <2>1, MasterKeeps
    <3> QED BY <1>2, <3>1 DEF Typed
  <2>2. CASE UNCHANGED vars BY <2>2 DEF vars, body
  <2> QED BY <2>1, <2>2
<1>4. /\ \A q, i, c : Spawns(q, i, c)' <=> Spawns(q, i, c)
      /\ \A c, a : (On(c, a)' <=> On(c, a)) /\ KindOn(c, a)' = KindOn(c, a)
      /\ \A c, j, a : Behind(c, j, a)' <=> Behind(c, j, a)
      /\ \A c, j : Prior(c, j)' <=> Prior(c, j)
      /\ \A k : Body(k)' = Body(k)
  BY <1>1, SameOrder DEF Body
<1>5. \A u \in Threads : /\ Cur(u)' = Cur(u) /\ (At(u, "link")' <=> At(u, "link")) /\ Cur(u) \in Tasks
                         /\ At(u, "link") => pc'[Cur(u)] = pc[Cur(u)]
  <2>1. SUFFICES ASSUME NEW u \in Threads
                 PROVE  /\ Cur(u)' = Cur(u) /\ (At(u, "link")' <=> At(u, "link")) /\ Cur(u) \in Tasks
                        /\ At(u, "link") => pc'[Cur(u)] = pc[Cur(u)]
    OBVIOUS
  <2>2. Cur(u)' = Cur(u) /\ Cur(u) \in Tasks BY <1>1, <1>2, <2>1, Tops DEF Cur
  <2>3. At(u, "link")' <=> At(u, "link") BY <1>1, <2>2 DEF At
  <2>4. At(u, "link") => pc'[Cur(u)] = pc[Cur(u)]
    <3>1. SUFFICES ASSUME At(u, "link"), Cur(u) = 0, Cur(0) = 0, At(0, "run") PROVE FALSE BY <1>3, <2>2
    <3> QED BY <1>2, <2>2, <3>1 DEF At
  <2> QED BY <2>2, <2>3, <2>4
<1>6. \A u \in Threads : \A c : Linking(u, c)' <=> Linking(u, c)
  <2>1. SUFFICES ASSUME NEW u \in Threads, NEW c PROVE Linking(u, c)' <=> Linking(u, c) OBVIOUS
  <2>2. At(u, "link") => Fresh(Cur(u))' = Fresh(Cur(u)) BY <1>4, <1>5 DEF Fresh
  <2> QED BY <1>5, <2>2 DEF Linking
<1>7. /\ \A c : (Over(c)' <=> Over(c)) /\ (Begun(c)' <=> Begun(c)) /\ (Cleared(c)' <=> Cleared(c))
      /\ \A c : (Pending(c)' <=> Pending(c))
      /\ \A t, c, a : Made(t, c, a)' <=> Made(t, c, a)
      /\ \A c, j : Follows(c, j)' <=> Follows(c, j)
      /\ \A t, j : ToLink(t, j)' <=> ToLink(t, j)
  <2>1. \A c : (Over(c)' <=> Over(c)) /\ (Begun(c)' <=> Begun(c)) BY <1>1 DEF Over, Begun
  <2>2. \A c : Cleared(c)' <=> Cleared(c) BY <1>2, <1>6, <2>1 DEF Cleared
  <2>3. \A c : (Pending(c)' <=> Pending(c)) BY <1>1, <1>2 DEF Pending
  <2>4. \A t, c, a : Made(t, c, a)' <=> Made(t, c, a) BY <1>1 DEF Made
  <2>5. \A c, j : Follows(c, j)' <=> Follows(c, j) BY <1>1, <1>4, <2>1 DEF Follows, Behindhand, Elems
  <2>6. \A t, j : ToLink(t, j)' <=> ToLink(t, j) BY <1>1, <1>4 DEF ToLink, Elems
  <2> QED BY <2>1, <2>2, <2>3, <2>4, <2>5, <2>6
<1>8. \A p \in Tasks : \A i, c : i \in 1 .. pc'[p] - 1 /\ Spawns(p, i, c) => i \in 1 .. pc[p] - 1
  <2>1. SUFFICES ASSUME NEW p \in Tasks, NEW i, NEW c, i \in 1 .. pc'[p] - 1, Spawns(p, i, c), i \notin 1 .. pc[p] - 1
                 PROVE  FALSE
    OBVIOUS
  <2>2. pc[p] \in Nat BY <1>2, <2>1 DEF Typed
  <2>3. i = pc[p] /\ p = 0 /\ Op(0) = "barrier" BY <1>3, <2>1, <2>2
  <2>4. Body(p)[i].op = "task" BY <2>1 DEF Spawns, Is
  <2>5. Op(p) \in {"end", "task"} BY <2>3, <2>4 DEF Op
  <2> QED BY <2>3, <2>5
<1>9. \A p \in Tasks : \A i, c : i \in 1 .. pc[p] - 1 => i \in 1 .. pc'[p] - 1
  <2>1. \A p \in Tasks : pc[p] \in Nat /\ (pc'[p] = pc[p] \/ pc'[p] = pc[p] + 1) BY <1>2, <1>3 DEF Typed
  <2> QED BY <2>1
<1>10. \A p \in Tasks : \A a, j : Entered(p, a, j)' <=> Entered(p, a, j)
  BY <1>2, <1>4, <1>6, <1>7, <1>8, <1>9 DEF Entered
<1>11. Created' BY <1>1, <1>4, <1>8 DEF OrderInv, Created
<1>12. Settled' BY <1>1, <1>2, <1>6, <1>7 DEF OrderInv, Settled
<1>13. ClearedOrder' BY <1>4, <1>7 DEF OrderInv, ClearedOrder
<1>14. PendingOrder' BY <1>4, <1>7 DEF OrderInv, PendingOrder
<1>15. LinkOrder' BY <1>2, <1>4, <1>6, <1>7 DEF OrderInv, LinkOrder
<1>16. TodoEarlier'
  <2>1. SUFFICES ASSUME NEW u \in Threads, NEW c \in Explicit, Linking(u, c), NEW i \in Elems(links[u].todo)
                 PROVE  prog.deps[i] # <<>> /\ \E h \in 1 .. pc[Cur(u)] - 2 : Spawns(Cur(u), h, i)
    <3>1. \A u \in Threads : \A c : Linking(u, c)' => Linking(u, c) /\ pc'[Cur(u)'] = pc[Cur(u)] BY <1>5, <1>6 DEF Linking
    <3> QED BY <1>1, <1>2, <1>4, <1>5, <2>1, <3>1 DEF TodoEarlier, Elems
  <2> QED BY <2>1 DEF OrderInv, TodoEarlier
<1>17. TablesInv'
  <2>1. SUFFICES ASSUME NEW p \in Tasks, NEW a \in Addrs, ~Over(p)'
                 PROVE  Table(p, a, table[p][a], Entereds(p, a))'
    BY DEF TablesInv
  <2>2. Entereds(p, a)' = Entereds(p, a) BY <1>10 DEF Entereds
  <2>4. ~Over(p) BY <1>7, <2>1
  <2>3. Table(p, a, table[p][a], Entereds(p, a)) BY <2>4 DEF OrderInv, TablesInv
  <2> QED BY <1>1, <2>2, <2>3, TableSame
<1> QED BY <1>11, <1>12, <1>13, <1>14, <1>15, <1>16, <1>17 DEF OrderInv

LEMMA OrderNext == ASSUME Inv, OrderInv, Next \/ UNCHANGED vars PROVE OrderInv'
<1>1. Inv' BY InvNext
<1>2. ASSUME NEW t \in Threads, Acts(t) PROVE OrderInv' BY <1>2, GoesOf, OrderStep
<1>3. Next => Master \/ UNCHANGED vars \/ \E t \in Threads : Acts(t) BY DEF Next, Finished, Acts
<1> QED BY <1>1, <1>2, <1>3, OrderFrame

LEMMA OrderInit == ASSUME Init PROVE OrderInv
<1>0. Inv BY InvInit
<1>1. /\ prog \in Programs /\ Threads \subseteq Tasks /\ Threads \subseteq Implicit /\ Explicit \cap Implicit = {}
      /\ Explicit \subseteq Tasks
  BY ThreadTasks, Numbers DEF Init
<1>2. /\ \A k \in Tasks : pc[k] = 1 /\ at[k] = "run" /\ node[k].succ = <<>> /\ ~node[k].live
      /\ \A c \in Explicit : status[c] = "none"
      /\ \A k \in Tasks, a \in Addrs : table[k][a] = NewEntry
  BY <1>1 DEF Init
<1>3. \A c \in Explicit : ~Lying(c) BY <1>0, <1>2, InvParts DEF InOnePlace
<1>4. \A u \in Threads : \A c \in Explicit : ~Linking(u, c)
  <2>1. \A u \in Threads, c \in Explicit : Linking(u, c) => Lies(c, "hand", 0, u) BY DEF Linking, Lies, InHand
  <2> QED BY <1>3, <2>1 DEF Lying
<1>5. \A c \in Explicit : ~Cleared(c) /\ ~Pending(c) BY <1>2, <1>3 DEF Cleared, Begun, Pending
<1>6. Created BY <1>2 DEF Created
<1>7. Settled BY <1>2 DEF Settled
<1>8. ClearedOrder /\ PendingOrder BY <1>5 DEF ClearedOrder, PendingOrder
<1>9. LinkOrder /\ TodoEarlier BY <1>4 DEF LinkOrder, TodoEarlier
<1>10. TablesInv
  <2>1. SUFFICES ASSUME NEW p \in Tasks, NEW a \in Addrs PROVE Table(p, a, table[p][a], Entereds(p, a))
    BY DEF TablesInv
  <2>2. Entereds(p, a) = {} BY <1>2 DEF Entereds, Entered
  <2>3. Elems(<<>>) = {} BY DEF Elems
  <2> QED BY <1>2, <2>2, <2>3 DEF Table, Among, NewEntry
<1> QED BY <1>6, <1>7, <1>8, <1>9, <1>10 DEF OrderInv

---------------------------------------------------------------------------
(* Tasks that exclude each other, and the children a task waits for.       *)

LEMMA SpawnedSpot ==
    ASSUME prog \in Programs, NEW k \in Spawned
    PROVE  k \in Explicit /\ Spawner(k) \in Tasks /\ Spawns(Spawner(k), SpawnedAt(k), k) /\ SpawnedAt(k) \in Nat
<1>1. k \in Explicit BY DEF Spawned
<1>2. PICK p \in Tasks : \E i \in DOMAIN Body(p) : Body(p)[i] = [op |-> "task", arg |-> k] BY DEF Spawned
<1>3. PICK i \in DOMAIN Body(p) : Is(Body(p), i, "task", k) BY <1>2 DEF Is
<1>4. Spawner(k) = p BY <1>3, Spawners
<1>5. \E x \in DOMAIN Body(Spawner(k)) : Body(Spawner(k))[x] = [op |-> "task", arg |-> k] BY <1>3, <1>4 DEF Is
<1>6. SpawnedAt(k) \in DOMAIN Body(Spawner(k)) /\ Body(Spawner(k))[SpawnedAt(k)] = [op |-> "task", arg |-> k]
  BY <1>5 DEF SpawnedAt
<1>7. Spawns(Spawner(k), SpawnedAt(k), k) BY <1>6 DEF Spawns, Is
<1> QED BY <1>1, <1>4, <1>7, SpawnsTask

\* A task that runs, or that a thief is about to run, holds the locks of its addresses,
\* unless they are destroyed; that they are only when the task has ended that spawned it.
LockType == [live : BOOLEAN, by : [Addrs -> Tasks \cup {Nobody}]]
Holds(k) == mtx[Spawner(k)].live => \A a \in MutexOf(k) : mtx[Spawner(k)].by[a] = k
Taking(k) == status[k] = "running" \/ \E t \in Threads : loot[t] = k
Excluded ==
    /\ mtx \in [Tasks -> LockType]
    /\ \A p \in Tasks : mtx[p].live \/ Over(p)
    /\ \A k \in Spawned : Taking(k) => Holds(k)

\* The count of a task is the number of its children that are not complete.
Kids(k) == {c \in Explicit : status[c] \in {"created", "running"} /\ Spawner(c) = k}
ChildrenCounted ==
    /\ incomplete \in [Tasks -> Nat]
    /\ \A k \in Tasks : IsFiniteSet(Kids(k)) /\ incomplete[k] = Cardinality(Kids(k))

\* A step changes the locks to take those of one task, which are free, to give back
\* those of a task that ends, or to destroy those of its table.
Takes(q) == /\ Lock(q)
            /\ mtx[Spawner(q)].live => \A a \in MutexOf(q) : mtx[Spawner(q)].by[a] = Nobody

LEMMA LockTypes ==
    ASSUME NEW e \in LockType, NEW s
    PROVE  /\ [e EXCEPT !.by = s].by = s /\ [e EXCEPT !.by = s].live = e.live
           /\ [e EXCEPT !.live = FALSE].by = e.by /\ [e EXCEPT !.live = FALSE].live = FALSE
           /\ s \in [Addrs -> Tasks \cup {Nobody}] => [e EXCEPT !.by = s] \in LockType
           /\ [e EXCEPT !.live = FALSE] \in LockType
BY DEF LockType

LEMMA Locking ==
    ASSUME mtx \in [Tasks -> LockType], NEW q \in Tasks, Lock(q)
    PROVE  /\ mtx' \in [Tasks -> LockType]
           /\ \A p \in Tasks : /\ mtx'[p].live = mtx[p].live
                              /\ \A a \in Addrs : mtx'[p].by[a] =
                                   IF p = Spawner(q) /\ mtx[p].live /\ a \in MutexOf(q) THEN q ELSE mtx[p].by[a]
<1>1. PICK r : r = Spawner(q) OBVIOUS
<1>2. PICK s : s = [a \in Addrs |-> IF mtx[r].live /\ a \in MutexOf(q) THEN q ELSE mtx[r].by[a]] OBVIOUS
<1>3. mtx' = [mtx EXCEPT ![r].by = s] BY <1>1, <1>2 DEF Lock
<1>4. CASE r \in Tasks
  <2>1. mtx[r] \in LockType BY <1>4
  <2>2. mtx[r].by \in [Addrs -> Tasks \cup {Nobody}] BY <2>1 DEF LockType
  <2>3. s \in [Addrs -> Tasks \cup {Nobody}] BY <1>2, <2>2
  <2>4. PICK g : g = [mtx[r] EXCEPT !.by = s] OBVIOUS
  <2>5. g \in LockType /\ g.by = s /\ g.live = mtx[r].live BY <2>1, <2>3, <2>4, LockTypes
  <2>6. mtx' = [mtx EXCEPT ![r] = g] BY <1>3, <2>4
  <2>7. mtx' \in [Tasks -> LockType] BY <2>5, <2>6
  <2>8. mtx'[r] = g /\ \A p \in Tasks : p # r => mtx'[p] = mtx[p] BY <1>4, <2>6
  <2> QED BY <1>1, <1>2, <2>5, <2>7, <2>8
<1>5. CASE r \notin Tasks
  <2>1. mtx' = mtx BY <1>3, <1>5
  <2> QED BY <1>1, <1>5, <2>1
<1> QED BY <1>4, <1>5

LEMMA Unlocking ==
    ASSUME mtx \in [Tasks -> LockType], NEW q \in Tasks, Unlock(q)
    PROVE  /\ mtx' \in [Tasks -> LockType]
           /\ \A p \in Tasks : /\ mtx'[p].live = mtx[p].live
                              /\ \A a \in Addrs : mtx[p].by[a] # q => mtx'[p].by[a] = mtx[p].by[a]
<1>1. PICK r : r = Spawner(q) OBVIOUS
<1>2. PICK s : s = [a \in Addrs |-> IF mtx[r].by[a] = q THEN Nobody ELSE mtx[r].by[a]] OBVIOUS
<1>3. mtx' = [mtx EXCEPT ![r].by = s] BY <1>1, <1>2 DEF Unlock
<1>4. CASE r \in Tasks
  <2>1. mtx[r] \in LockType BY <1>4
  <2>2. mtx[r].by \in [Addrs -> Tasks \cup {Nobody}] BY <2>1 DEF LockType
  <2>3. s \in [Addrs -> Tasks \cup {Nobody}] BY <1>2, <2>2
  <2>4. PICK g : g = [mtx[r] EXCEPT !.by = s] OBVIOUS
  <2>5. g \in LockType /\ g.by = s /\ g.live = mtx[r].live BY <2>1, <2>3, <2>4, LockTypes
  <2>6. mtx' = [mtx EXCEPT ![r] = g] BY <1>3, <2>4
  <2>7. mtx' \in [Tasks -> LockType] BY <2>5, <2>6
  <2>8. mtx'[r] = g /\ \A p \in Tasks : p # r => mtx'[p] = mtx[p] BY <1>4, <2>6
  <2> QED BY <1>1, <1>2, <2>5, <2>7, <2>8
<1>5. CASE r \notin Tasks
  <2>1. mtx' = mtx BY <1>3, <1>5
  <2> QED BY <2>1
<1> QED BY <1>4, <1>5

LEMMA Unhashing ==
    ASSUME mtx \in [Tasks -> LockType], NEW q \in Tasks, mtx' = [mtx EXCEPT ![q].live = FALSE]
    PROVE  /\ mtx' \in [Tasks -> LockType]
           /\ \A p \in Tasks : p # q => mtx'[p] = mtx[p]
           /\ mtx'[q].live = FALSE /\ mtx'[q].by = mtx[q].by
<1>1. mtx'[q] = [mtx[q] EXCEPT !.live = FALSE] /\ \A p \in Tasks : p # q => mtx'[p] = mtx[p] OBVIOUS
<1>2. mtx[q] \in LockType OBVIOUS
<1>3. mtx'[q].live = FALSE /\ mtx'[q].by = mtx[q].by /\ mtx'[q] \in LockType BY <1>1, <1>2, LockTypes
<1>4. mtx' \in [Tasks -> LockType] BY <1>1, <1>3
<1> QED BY <1>1, <1>3, <1>4

LEMMA SubmitLocks ==
    ASSUME NEW t, NEW q, Submit(t, q)
    PROVE  (Takes(q) /\ Invoke(t, q)) \/ (mtx' = mtx /\ status' = status)
BY DEF Submit, Allowed, Takes

LEMMA LocksMove ==
    ASSUME NEW t, Goes(t), NEW k \in Tasks
    PROVE  /\ mtx' = mtx \/ Finish(t) \/ FreeHash(t) \/ \E q \in Explicit : Takes(q)
           /\ Taking(k)' => (Taking(k) /\ ~ (Finish(t) /\ k = Cur(t))) \/ Takes(k)
<1>0. /\ Inv /\ t \in Threads /\ Typed /\ Acts(t) /\ Stepped(t) /\ Threads' = Threads /\ t \in Implicit
      /\ Threads \subseteq Implicit /\ Explicit \subseteq Tasks /\ loot \in [Implicit -> Explicit \cup {Nobody}]
      /\ status \in [Tasks -> Statuses] /\ Nobody \notin Explicit /\ Nobody \notin Tasks
  BY Basics, ThreadTasks, Numbers DEF Goes, Typed, Tasks
<1>1. ASSUME NEW q \in Explicit, Submit(t, q), loot' = loot, ~Finish(t)
      PROVE  /\ mtx' = mtx \/ \E x \in Explicit : Takes(x)
             /\ Taking(k)' => Taking(k) \/ Takes(k)
  <2>1. CASE Takes(q) /\ Invoke(t, q)
    <3>1. \A x \in Tasks : x # q => status'[x] = status[x] BY <1>0, <2>1 DEF Invoke
    <3> QED BY <1>0, <1>1, <2>1, <3>1 DEF Taking
  <2>2. CASE mtx' = mtx /\ status' = status BY <1>0, <1>1, <2>2 DEF Taking
  <2> QED BY <1>1, <2>1, <2>2, SubmitLocks
<1>2. CASE Push(t)
  <2>1. Submit(t, Fresh(Cur(t))) /\ Fresh(Cur(t)) \in Explicit /\ loot' = loot /\ At(t, "push")
    BY <1>0, <1>2, PushTakes
  <2>2. ~Finish(t) BY <2>1 DEF Finish, At
  <2> QED BY <1>1, <2>1, <2>2
<1>3. CASE Notify(t)
  <2>1. PICK q \in Explicit : q = Head(node[Cur(t)].succ) BY <1>0, <1>3, Notifies
  <2>2. loot' = loot /\ (Submit(t, q) \/ (mtx' = mtx /\ status' = status)) BY <1>3, <2>1 DEF Notify
  <2>3. ~Finish(t) BY <1>3 DEF Notify, Finish, At
  <2>4. CASE Submit(t, q) BY <1>1, <2>2, <2>3, <2>4
  <2>5. CASE mtx' = mtx /\ status' = status BY <1>0, <2>2, <2>3, <2>5 DEF Taking
  <2> QED BY <2>2, <2>4, <2>5
<1>4. CASE Own(t)
  <2>1. loot' = loot /\ ~Finish(t)
    <3>1. loot' = loot BY <1>0, <1>4, OwnTakes
    <3>2. SUFFICES ASSUME Finish(t) PROVE FALSE BY <3>1
    <3>3. Op(Cur(t)) = "end" /\ Cur(t) \in Explicit /\ Waits(t) BY <1>4, <3>2 DEF Own, Finish
    <3>4. Cur(t) # t BY <1>0, <3>3, Numbers
    <3> QED BY <3>3, <3>4 DEF Waits, InPhase
  <2>2. PICK q : q = Last(deque[mine[t]][t].tasks) OBVIOUS
  <2>3. CASE status' = status /\ mtx' = mtx BY <1>0, <2>1, <2>3 DEF Taking
  <2>4. CASE deque[mine[t]][t].tasks # <<>> /\ Allowed(t, q, Constrained(t)) /\ Invoke(t, q) /\ Lock(q)
    <3>1. q \in Explicit
      <4>1. mine[t] \in {0, 1} BY <1>0, <1>4, OwnTakes
      <4>2. deque[mine[t]][t].tasks \in Seq(Explicit) BY <1>0, <4>1, Queued
      <4> QED BY <2>2, <2>4, <4>2, ElemsOf
    <3>2. Takes(q) BY <2>4 DEF Takes, Allowed
    <3>3. \A x \in Tasks : x # q => status'[x] = status[x] BY <1>0, <2>4, <3>1 DEF Invoke
    <3> QED BY <1>0, <2>1, <3>1, <3>2, <3>3 DEF Taking
  <2> QED BY <1>4, <2>2, <2>3, <2>4 DEF Own
<1>5. CASE \E v \in Threads : Rob(t, v)
  <2>1. PICK v \in Threads : Rob(t, v) BY <1>5
  <2>2. PICK q : q = Head(deque[mine[t]][v].tasks) OBVIOUS
  <2>3. /\ q \in Explicit /\ loot' = [loot EXCEPT ![t] = q] /\ status' = status /\ At(t, "rob")
    BY <1>0, <2>1, <2>2, RobTakes
  <2>4. Takes(q) BY <2>1, <2>2 DEF Rob, Takes, Allowed
  <2>5. ~Finish(t) BY <2>3 DEF Finish, At
  <2>6. \A u \in Threads : loot'[u] = IF u = t THEN q ELSE loot[u] BY <1>0, <2>3
  <2> QED BY <1>0, <2>3, <2>4, <2>5, <2>6 DEF Taking
<1>6. CASE Robbed(t)
  <2>1. /\ loot[t] \in Explicit /\ Invoke(t, loot[t]) /\ loot' = [loot EXCEPT ![t] = Nobody] /\ mtx' = mtx /\ At(t, "robbed")
    BY <1>0, <1>6, RobbedTakes DEF deps
  <2>2. \A u \in Threads : loot'[u] = IF u = t THEN Nobody ELSE loot[u] BY <1>0, <2>1
  <2>3. \A x \in Tasks : x # loot[t] => status'[x] = status[x] BY <1>0, <2>1 DEF Invoke
  <2>4. ~Finish(t) BY <2>1 DEF Finish, At
  <2> QED BY <1>0, <2>1, <2>2, <2>3, <2>4 DEF Taking
<1>7. CASE Finish(t)
  <2>1. loot' = loot /\ status' = [status EXCEPT ![Cur(t)] = "complete"] /\ Cur(t) \in Explicit /\ At(t, "run")
    BY <1>7 DEF Finish, queues
  <2>2. status'[Cur(t)] = "complete" /\ \A x \in Tasks : x # Cur(t) => status'[x] = status[x] BY <1>0, <2>1
  <2>3. \A u \in Threads : loot[u] # Cur(t)
    <3>1. SUFFICES ASSUME NEW u \in Threads, loot[u] = Cur(t) PROVE FALSE OBVIOUS
    <3>2. Lies(Cur(t), "loot", 0, u) BY <3>1 DEF Lies
    <3>3. status[Cur(t)] = "created" BY <1>0, <2>1, <3>2, InvParts, LyingCreated
    <3>4. status[Cur(t)] = "running" BY <1>0, <2>1, InvParts, CurFits DEF Busy
    <3> QED BY <3>3, <3>4
  <2> QED BY <1>0, <1>7, <2>1, <2>2, <2>3 DEF Taking
<1>9. CASE FreeHash(t)
  <2>1. loot' = loot /\ status' = status /\ At(t, "unhash") BY <1>9 DEF FreeHash, queues
  <2>2. ~Finish(t) BY <2>1 DEF Finish, At
  <2> QED BY <1>0, <1>9, <2>1, <2>2 DEF Taking
<1>8. CASE /\ ~Push(t) /\ ~Notify(t) /\ ~Own(t) /\ ~(\E v \in Threads : Rob(t, v)) /\ ~Robbed(t)
           /\ ~Finish(t) /\ ~FreeHash(t)
  <2>1. mtx' = mtx /\ loot' = loot
    <3>1. CASE Alloc(t) \/ Depend(t) \/ Link(t) \/ Settle(t) \/ Open(t) \/ Forget(t)
      BY <3>1 DEF Alloc, Depend, Link, Settle, Open, Forget, queues, deps
    <3>2. CASE Spent(t) \/ TaskWait(t) \/ EndGroup(t) \/ LeaveGroup(t) \/ ReleaseNode(t)
      BY <3>2 DEF Spent, TaskWait, EndGroup, LeaveGroup, ReleaseNode, queues, deps
    <3>3. CASE Notified(t) \/ FreeAncestors(t) \/ Arrive(t) \/ Leave(t)
      BY <3>3 DEF Notified, FreeAncestors, Arrive, Leave, queues, deps
    <3>4. CASE \E v \in Threads : RobNothing(t, v) BY <3>4 DEF RobNothing, queues, deps
    <3> QED BY <1>0, <1>8, <3>1, <3>2, <3>3, <3>4 DEF Acts, Step
  <2>2. status'[k] = "running" => status[k] = "running"
    <3>1. CASE Alloc(t) BY <1>0, <3>1, AllocTakes
    <3>2. CASE FreeAncestors(t) BY <1>0, <3>2, Frees
    <3>3. CASE ~Alloc(t) /\ ~FreeAncestors(t)
      <4>1. status' = status
        <5>1. CASE Depend(t) \/ Link(t) \/ Settle(t) \/ Open(t) \/ Forget(t) \/ Spent(t) \/ TaskWait(t)
          BY <5>1 DEF Depend, Link, Settle, Open, Forget, Spent, TaskWait, body
        <5>2. CASE EndGroup(t) \/ LeaveGroup(t) \/ ReleaseNode(t) \/ Notified(t) \/ Arrive(t) \/ Leave(t)
          BY <5>2 DEF EndGroup, LeaveGroup, ReleaseNode, Notified, Arrive, Leave, body
        <5>3. CASE \E v \in Threads : RobNothing(t, v) BY <5>3 DEF RobNothing
        <5> QED BY <1>0, <1>8, <3>3, <5>1, <5>2, <5>3 DEF Acts, Step
      <4> QED BY <4>1
    <3> QED BY <3>1, <3>2, <3>3
  <2> QED BY <1>0, <1>8, <2>1, <2>2 DEF Taking
<1> QED BY <1>2, <1>3, <1>4, <1>5, <1>6, <1>7, <1>8, <1>9

LEMMA ExcludedStep == ASSUME NEW t, Goes(t), Excluded PROVE Excluded'
<1>0. /\ prog' = prog /\ prog \in Programs /\ Inv /\ t \in Threads /\ Nobody \notin Explicit /\ Explicit \subseteq Tasks
      /\ mtx \in [Tasks -> LockType] /\ Cur(t) \in Tasks
  BY Basics, Numbers DEF Excluded
<1>1. /\ \A k : MutexOf(k)' = MutexOf(k) /\ Spawner(k)' = Spawner(k) /\ MutexOf(k) \subseteq Addrs
      /\ Spawned' = Spawned /\ Spawned \subseteq Explicit
  BY <1>0 DEF MutexOf, Spawner, Spawned, Body
<1>2. CASE Finish(t)
  <2>1. Unlock(Cur(t)) BY <1>2 DEF Finish
  <2>2. /\ mtx' \in [Tasks -> LockType]
        /\ \A p \in Tasks : /\ mtx'[p].live = mtx[p].live
                           /\ \A a \in Addrs : mtx[p].by[a] # Cur(t) => mtx'[p].by[a] = mtx[p].by[a]
    BY <1>0, <2>1, Unlocking
  <2>3. \A p \in Tasks : (mtx[p].live \/ Over(p))' BY <2>2, OverKept DEF Excluded
  <2>4. ASSUME NEW k \in Spawned, Taking(k)' PROVE Holds(k)'
    <3>1. Spawner(k) \in Tasks BY <1>0, <2>4, SpawnedSpot
    <3>2. CASE Takes(k)
      <4>1. Lock(k) BY <3>2 DEF Takes
      <4> QED BY <1>0, <1>1, <3>1, <4>1, Locking DEF Holds
    <3>3. CASE Taking(k) /\ k # Cur(t) BY <1>1, <2>2, <2>4, <3>1, <3>3 DEF Excluded, Holds
    <3> QED BY <1>0, <1>1, <1>2, <2>4, <3>2, <3>3, LocksMove
  <2> QED BY <1>1, <2>2, <2>3, <2>4 DEF Excluded
<1>3. CASE FreeHash(t)
  <2>1. mtx' = [mtx EXCEPT ![Cur(t)].live = FALSE] BY <1>3 DEF FreeHash
  <2>2. /\ mtx' \in [Tasks -> LockType]
        /\ \A p \in Tasks : p # Cur(t) => mtx'[p] = mtx[p]
        /\ mtx'[Cur(t)].live = FALSE
    BY <1>0, <2>1, Unhashing
  <2>3. Over(Cur(t)) BY <1>0, <1>3, FreeHashTakes DEF Over
  <2>4. ASSUME NEW p \in Tasks PROVE (mtx[p].live \/ Over(p))'
    <3>1. Over(p) => Over(p)' BY <2>4, OverKept
    <3>2. CASE p = Cur(t) BY <2>3, <3>1, <3>2
    <3>3. CASE p # Cur(t)
      <4>1. mtx'[p] = mtx[p] BY <2>2, <2>4, <3>3
      <4>2. mtx[p].live \/ Over(p) BY <2>4 DEF Excluded
      <4> QED BY <3>1, <4>1, <4>2
    <3> QED BY <3>2, <3>3
  <2>5. ASSUME NEW k \in Spawned, Taking(k)' PROVE Holds(k)'
    <3>1. Spawner(k) \in Tasks BY <1>0, <2>5, SpawnedSpot
    <3>2. CASE Takes(k)
      <4>1. Lock(k) BY <3>2 DEF Takes
      <4> QED BY <1>0, <1>1, <3>1, <4>1, Locking DEF Holds
    <3>3. CASE Taking(k)
      <4>1. Holds(k) BY <2>5, <3>3 DEF Excluded
      <4>2. CASE Spawner(k) = Cur(t) BY <1>1, <2>2, <4>2 DEF Holds
      <4>3. CASE Spawner(k) # Cur(t)
        <5>1. mtx'[Spawner(k)] = mtx[Spawner(k)] BY <2>2, <3>1, <4>3
        <5> QED BY <1>1, <4>1, <5>1 DEF Holds
      <4> QED BY <4>2, <4>3
    <3> QED BY <1>0, <1>1, <2>5, <3>2, <3>3, LocksMove
  <2> QED BY <1>1, <2>2, <2>4, <2>5 DEF Excluded
<1>4. CASE mtx' = mtx /\ ~Finish(t)
  <2>1. \A p \in Tasks : (mtx[p].live \/ Over(p))' BY <1>4, OverKept DEF Excluded
  <2>2. ASSUME NEW k \in Spawned, Taking(k)' PROVE Holds(k)'
    <3>1. Spawner(k) \in Tasks BY <1>0, <2>2, SpawnedSpot
    <3>2. CASE Takes(k)
      <4>1. Lock(k) BY <3>2 DEF Takes
      <4> QED BY <1>0, <1>1, <3>1, <4>1, Locking DEF Holds
    <3>3. CASE Taking(k) BY <1>1, <1>4, <2>2, <3>3 DEF Excluded, Holds
    <3> QED BY <1>0, <1>1, <2>2, <3>2, <3>3, LocksMove
  <2> QED BY <1>0, <1>1, <1>4, <2>1, <2>2 DEF Excluded
<1>5. ASSUME NEW q \in Explicit, Takes(q), ~Finish(t) PROVE Excluded'
  <2>1. Lock(q) BY <1>5 DEF Takes
  <2>2. /\ mtx' \in [Tasks -> LockType]
        /\ \A p \in Tasks : /\ mtx'[p].live = mtx[p].live
                           /\ \A a \in Addrs : mtx'[p].by[a] =
                                IF p = Spawner(q) /\ mtx[p].live /\ a \in MutexOf(q) THEN q ELSE mtx[p].by[a]
    BY <1>0, <1>5, <2>1, Locking
  <2>3. \A p \in Tasks : (mtx[p].live \/ Over(p))' BY <2>2, OverKept DEF Excluded
  <2>4. ASSUME NEW k \in Spawned, Taking(k)' PROVE Holds(k)'
    <3>1. Spawner(k) \in Tasks BY <1>0, <2>4, SpawnedSpot
    <3>2. CASE Takes(k)
      <4>1. Lock(k) BY <3>2 DEF Takes
      <4> QED BY <1>0, <1>1, <3>1, <4>1, Locking DEF Holds
    <3>3. CASE Taking(k)
      <4>1. SUFFICES ASSUME mtx[Spawner(k)].live, NEW a \in MutexOf(k) PROVE mtx'[Spawner(k)].by[a] = k
        BY <1>1, <2>2, <2>4, <3>1 DEF Holds
      <4>2. a \in Addrs /\ mtx[Spawner(k)].by[a] = k /\ k # Nobody BY <1>0, <1>1, <2>4, <3>3, <4>1 DEF Excluded, Holds
      <4>3. ~ (Spawner(k) = Spawner(q) /\ a \in MutexOf(q)) BY <1>5, <4>1, <4>2 DEF Takes
      <4> QED BY <2>2, <3>1, <4>2, <4>3
    <3> QED BY <1>0, <1>1, <2>4, <3>2, <3>3, LocksMove
  <2> QED BY <1>1, <2>2, <2>3, <2>4 DEF Excluded
<1> QED BY <1>0, <1>2, <1>3, <1>4, <1>5, LocksMove

LEMMA CountedStep == ASSUME NEW t, Goes(t), ChildrenCounted PROVE ChildrenCounted'
<1>0. /\ Inv /\ t \in Threads /\ Typed /\ Acts(t) /\ prog' = prog /\ prog \in Programs /\ Explicit \subseteq Tasks
      /\ Spawning /\ Cur(t) \in Tasks
  BY Basics
<1>1. \A c : Spawner(c)' = Spawner(c) BY <1>0 DEF Spawner, Body
<1>2. CASE Alloc(t)
  <2>1. PICK k \in Tasks : k = Cur(t) BY <1>0
  <2>2. PICK c : c = Arg(k) OBVIOUS
  <2>3. /\ c \in Explicit /\ status[c] = "none" /\ Spawner(c) = k /\ status'[c] = "created"
        /\ \A j \in Tasks : j # c => status'[j] = status[j]
    BY <1>0, <1>2, <2>1, <2>2, AllocTakes
  <2>4. incomplete' = [incomplete EXCEPT ![k] = @ + 1] BY <1>2, <2>1 DEF Alloc
  <2>5. Kids(k)' = Kids(k) \cup {c} /\ c \notin Kids(k) BY <1>0, <1>1, <2>3 DEF Kids
  <2>6. \A j \in Tasks : j # k => Kids(j)' = Kids(j) BY <1>0, <1>1, <2>3 DEF Kids
  <2>7. IsFiniteSet(Kids(k)) /\ Cardinality(Kids(k)) = incomplete[k] /\ incomplete[k] \in Nat BY <2>1 DEF ChildrenCounted
  <2>8. IsFiniteSet(Kids(k)') /\ Cardinality(Kids(k)') = incomplete[k] + 1 BY <2>5, <2>7, FS_AddElement
  <2>9. incomplete' \in [Tasks -> Nat] /\ incomplete'[k] = incomplete[k] + 1
        /\ \A j \in Tasks : j # k => incomplete'[j] = incomplete[j]
    BY <2>4, <2>7 DEF ChildrenCounted
  <2>10. ASSUME NEW j \in Tasks PROVE IsFiniteSet(Kids(j)') /\ incomplete'[j] = Cardinality(Kids(j)')
    <3>1. CASE j = k BY <2>8, <2>9, <3>1
    <3>2. CASE j # k BY <2>6, <2>9, <3>2 DEF ChildrenCounted
    <3> QED BY <3>1, <3>2
  <2> QED BY <2>9, <2>10 DEF ChildrenCounted
<1>3. CASE Finish(t)
  <2>1. PICK c : c = Cur(t) OBVIOUS
  <2>2. PICK k : k = Spawner(c) OBVIOUS
  <2>3. c \in Explicit /\ status[c] = "running"
    <3>1. At(t, "run") /\ c \in Explicit BY <1>3, <2>1 DEF Finish
    <3> QED BY <1>0, <2>1, <3>1, InvParts, CurFits DEF Busy
  <2>4. k \in Tasks
    <3>1. PICK p \in Tasks : \E i \in 1 .. pc[p] - 1 : Is(Body(p), i, "task", c)
      BY <1>0, <2>3 DEF Spawning, SpawnedBefore
    <3> QED BY <1>0, <2>2, <3>1, Spawners
  <2>5. /\ status' = [status EXCEPT ![c] = "complete"] /\ incomplete' = [incomplete EXCEPT ![k] = @ - 1]
    BY <1>3, <2>1, <2>2 DEF Finish
  <2>6. status'[c] = "complete" /\ \A j \in Tasks : j # c => status'[j] = status[j] BY <1>0, <2>3, <2>5 DEF Typed
  <2>7. Kids(k)' = Kids(k) \ {c} /\ c \in Kids(k) BY <1>0, <1>1, <2>2, <2>3, <2>6 DEF Kids
  <2>8. \A j \in Tasks : j # k => Kids(j)' = Kids(j) BY <1>0, <1>1, <2>2, <2>6 DEF Kids
  <2>9. IsFiniteSet(Kids(k)) /\ Cardinality(Kids(k)) = incomplete[k] /\ incomplete[k] \in Nat BY <2>4 DEF ChildrenCounted
  <2>10. IsFiniteSet(Kids(k)') /\ Cardinality(Kids(k)') = incomplete[k] - 1 BY <2>7, <2>9, FS_RemoveElement
  <2>11. Cardinality(Kids(k)') \in Nat BY <2>10, FS_CardinalityType
  <2>12. incomplete[k] - 1 \in Nat BY <2>10, <2>11
  <2>13. incomplete' \in [Tasks -> Nat] /\ incomplete'[k] = incomplete[k] - 1
         /\ \A j \in Tasks : j # k => incomplete'[j] = incomplete[j]
    BY <2>4, <2>5, <2>12 DEF ChildrenCounted
  <2>14. ASSUME NEW j \in Tasks PROVE IsFiniteSet(Kids(j)') /\ incomplete'[j] = Cardinality(Kids(j)')
    <3>1. CASE j = k BY <2>10, <2>13, <3>1
    <3>2. CASE j # k BY <2>8, <2>13, <3>2 DEF ChildrenCounted
    <3> QED BY <3>1, <3>2
  <2> QED BY <2>13, <2>14 DEF ChildrenCounted
<1>4. CASE ~Alloc(t) /\ ~Finish(t)
  <2>1. \A c \in Explicit : status'[c] \in {"created", "running"} <=> status[c] \in {"created", "running"}
    <3>1. SUFFICES ASSUME NEW c \in Explicit
                   PROVE  status'[c] \in {"created", "running"} <=> status[c] \in {"created", "running"}
      OBVIOUS
    <3>2. StatusMoves(t, c) BY <1>0, StatusOf
    <3> QED BY <1>4, <3>2 DEF StatusMoves
  <2>2. \A k : Kids(k)' = Kids(k) BY <1>1, <2>1 DEF Kids
  <2>3. incomplete' = incomplete
    <3>1. CASE Depend(t) \/ Link(t) \/ Settle(t) \/ Push(t) \/ Open(t) \/ Forget(t)
      BY <3>1 DEF Depend, Link, Settle, Push, Open, Forget, counters
    <3>2. CASE Own(t) \/ Robbed(t) \/ Spent(t) \/ TaskWait(t) \/ EndGroup(t) \/ LeaveGroup(t)
      BY <3>2 DEF Own, Robbed, Spent, TaskWait, EndGroup, LeaveGroup, counters
    <3>3. CASE FreeHash(t) \/ ReleaseNode(t) \/ Notify(t) \/ Notified(t) \/ FreeAncestors(t) \/ Arrive(t) \/ Leave(t)
      BY <3>3 DEF FreeHash, ReleaseNode, Notify, Notified, FreeAncestors, Arrive, Leave, counters
    <3>4. CASE \E v \in Threads : Rob(t, v) \/ RobNothing(t, v) BY <3>4 DEF Rob, RobNothing, counters
    <3> QED BY <1>0, <1>4, <3>1, <3>2, <3>3, <3>4 DEF Acts, Step
  <2> QED BY <2>2, <2>3 DEF ChildrenCounted
<1> QED BY <1>2, <1>3, <1>4

---------------------------------------------------------------------------
(* What the promise asks of each step.                                     *)

\* The status as the promise sees it: a task that is freed is complete.
Kept == [k \in Tasks |-> IF status[k] = "freed" THEN "complete" ELSE status[k]]

LEMMA PromiseNames ==
    /\ Promise!Tasks = Tasks /\ Promise!Threads = Threads /\ Promise!Spawned = Spawned
    /\ \A k : Promise!Body(k) = Body(k) /\ Promise!Spawner(k) = Spawner(k) /\ Promise!SpawnedAt(k) = SpawnedAt(k)
    /\ Promise!vars = <<prog, Kept, pc>>
<1>1. Promise!Tasks = Tasks BY DEF Promise!Tasks, Tasks, Promise!Implicit, Implicit
<1>2. \A k : Promise!Body(k) = Body(k) BY DEF Promise!Body, Body
<1>3. Promise!Threads = Threads BY DEF Promise!Threads, Threads
<1>4. Promise!Spawned = Spawned BY DEF Promise!Spawned, Spawned, Promise!Body, Body, Promise!Tasks, Tasks, Promise!Implicit, Implicit
<1>5. \A k : Promise!Spawner(k) = Spawner(k)
  BY DEF Promise!Spawner, Spawner, Promise!Body, Body, Promise!Tasks, Tasks, Promise!Implicit, Implicit
<1>6. \A k : Promise!SpawnedAt(k) = SpawnedAt(k)
  BY <1>5 DEF Promise!SpawnedAt, SpawnedAt, Promise!Body, Body
<1>7. Promise!vars = <<prog, Kept, pc>> BY DEF Promise!vars, Kept
<1> QED BY <1>1, <1>2, <1>3, <1>4, <1>5, <1>6, <1>7

\* What dependences on one address amount to.
LEMMA KindOf ==
    ASSUME prog \in Programs, NEW k \in Explicit, NEW n \in DOMAIN prog.deps[k], NEW a, a = prog.deps[k][n].addr
    PROVE  a \in Addrs /\ On(k, a) /\ KindOn(k, a) \in {prog.deps[k][n].kind, "out"}
<1>1. n \in 1 .. Len(prog.deps[k]) /\ a \in Addrs BY DepTypes
<1>2. On(k, a) BY DEF On
<1>3. PICK kinds : kinds = {prog.deps[k][i].kind : i \in {j \in DOMAIN prog.deps[k] : prog.deps[k][j].addr = a}} OBVIOUS
<1>4. prog.deps[k][n].kind \in kinds BY <1>3
<1>5. KindOn(k, a) = IF \E kind \in kinds : kinds = {kind} THEN CHOOSE kind \in kinds : TRUE ELSE "out"
  BY <1>3 DEF KindOn, Merged
<1>6. KindOn(k, a) \in {prog.deps[k][n].kind, "out"}
  <2>1. CASE \E kind \in kinds : kinds = {kind} BY <1>4, <1>5, <2>1
  <2>2. CASE ~ \E kind \in kinds : kinds = {kind} BY <1>5, <2>2
  <2> QED BY <2>1, <2>2
<1> QED BY <1>1, <1>2, <1>6

LEMMA BeforePrior ==
    ASSUME prog \in Programs, NEW k \in Spawned, NEW j \in Promise!Before(k)
    PROVE  j \in Explicit /\ j # k /\ Prior(k, j)
<1>1. /\ j \in Spawned /\ j # k /\ Spawner(j) = Spawner(k) /\ SpawnedAt(j) < SpawnedAt(k) /\ Promise!Ordered(j, k)
  BY PromiseNames DEF Promise!Before, Promise!Siblings
<1>2. PICK p \in Tasks : p = Spawner(k) /\ Spawns(p, SpawnedAt(j), j) /\ Spawns(p, SpawnedAt(k), k) /\ j \in Explicit /\ k \in Explicit
  BY <1>1, SpawnedSpot
<1>3. PICK m \in DOMAIN prog.deps[j], n \in DOMAIN prog.deps[k] :
         /\ prog.deps[j][m].addr = prog.deps[k][n].addr
         /\ prog.deps[j][m].kind = "out" \/ prog.deps[j][m].kind # prog.deps[k][n].kind
  BY <1>1 DEF Promise!Ordered
<1>4. PICK a : a = prog.deps[k][n].addr OBVIOUS
<1>5. /\ a \in Addrs /\ On(k, a) /\ On(j, a) /\ KindOn(k, a) \in {prog.deps[k][n].kind, "out"}
      /\ KindOn(j, a) \in {prog.deps[j][m].kind, "out"}
  BY <1>2, <1>3, <1>4, KindOf
<1>6. KindOn(k, a) = "out" \/ KindOn(j, a) # KindOn(k, a) BY <1>3, <1>5
<1>7. Behind(k, j, a) BY <1>1, <1>2, <1>5, <1>6, BehindKind
<1> QED BY <1>1, <1>2, <1>5, <1>7 DEF Prior

\* Two tasks that exclude each other need one lock of their spawner's table, or one is
\* behind the other.
LEMMA ApartKinds ==
    ASSUME prog \in Programs, NEW k \in Spawned, NEW j \in Promise!Apart(k)
    PROVE  /\ j \in Explicit /\ k \in Explicit /\ j # k /\ j \in Spawned /\ Spawner(j) = Spawner(k)
           /\ (\E a : a \in MutexOf(j) /\ a \in MutexOf(k)) \/ Prior(k, j) \/ Prior(j, k)
<1>1. j \in Spawned /\ j # k /\ Spawner(j) = Spawner(k) /\ Promise!Excludes(j, k)
  BY PromiseNames DEF Promise!Apart, Promise!Siblings
<1>2. PICK p \in Tasks : /\ p = Spawner(k) /\ Spawns(p, SpawnedAt(j), j) /\ Spawns(p, SpawnedAt(k), k)
                         /\ j \in Explicit /\ k \in Explicit /\ SpawnedAt(j) \in Nat /\ SpawnedAt(k) \in Nat
  BY <1>1, SpawnedSpot
<1>3. PICK m \in DOMAIN prog.deps[j], n \in DOMAIN prog.deps[k] :
         prog.deps[j][m] = prog.deps[k][n] /\ prog.deps[j][m].kind = "mtx"
  BY <1>1 DEF Promise!Excludes
<1>4. PICK a : a = prog.deps[k][n].addr OBVIOUS
<1>5. a \in Addrs /\ On(k, a) /\ On(j, a) /\ KindOn(k, a) \in {"mtx", "out"} /\ KindOn(j, a) \in {"mtx", "out"}
  BY <1>2, <1>3, <1>4, KindOf
<1>6. CASE KindOn(k, a) = "mtx" /\ KindOn(j, a) = "mtx" BY <1>1, <1>2, <1>5, <1>6 DEF MutexOf, KindOn
<1>7. CASE ~ (KindOn(k, a) = "mtx" /\ KindOn(j, a) = "mtx")
  <2>1. SpawnedAt(j) # SpawnedAt(k)
    <3>1. SUFFICES ASSUME SpawnedAt(j) = SpawnedAt(k) PROVE FALSE OBVIOUS
    <3> QED BY <1>1, <1>2, <3>1 DEF Spawns, Is
  <2>2. CASE SpawnedAt(j) < SpawnedAt(k)
    <3>1. Behind(k, j, a) BY <1>2, <1>5, <1>7, <2>2, BehindKind
    <3> QED BY <1>1, <1>2, <1>5, <3>1 DEF Prior
  <2>3. CASE SpawnedAt(k) < SpawnedAt(j)
    <3>1. Behind(j, k, a) BY <1>2, <1>5, <1>7, <2>3, BehindKind
    <3> QED BY <1>1, <1>2, <1>5, <3>1 DEF Prior
  <2> QED BY <1>2, <2>1, <2>2, <2>3
<1> QED BY <1>6, <1>7

\* A task that is spawned before the point its spawner is at has been created.
LEMMA SpawnedOf ==
    ASSUME Inv, NEW c \in Explicit, status[c] # "none"
    PROVE  c \in Spawned
<1>1. PICK p \in Tasks : \E i \in 1 .. pc[p] - 1 : Is(Body(p), i, "task", c) BY InvParts DEF Spawning, SpawnedBefore
<1> QED BY <1>1 DEF Spawned, Is

\* Start of the promise, where tasks exclude each other until their spawner ends.
Starts(k) ==
    /\ Kept[k] = "created" /\ \A j \in Promise!Before(k) : Kept[j] = "complete"
    /\ Kept[Spawner(k)] = "running" => \A j \in Promise!Apart(k) : Kept[j] # "running"
    /\ Kept' = [Kept EXCEPT ![k] = "running"]
    /\ UNCHANGED <<prog, pc>>

LEMMA StartKeeps ==
    ASSUME NEW t, Goes(t), Excluded', NEW q \in Explicit, Invoke(t, q), status[q] = "created", UNCHANGED <<prog, pc>>
    PROVE  Starts(q)
<1>0. /\ Inv /\ t \in Threads /\ Typed /\ OrderInv /\ prog \in Programs /\ Explicit \subseteq Tasks
  BY Basics
<1>1. ClearedOrder' BY OrderStep DEF OrderInv
<1>2. status'[q] = "running" /\ \A k \in Tasks : k # q => status'[k] = status[k] BY <1>0 DEF Invoke, Typed
<1>3. q \in Spawned BY <1>0, SpawnedOf
<1>4. \A c, j : Prior(c, j)' <=> Prior(c, j) BY <1>0, SameOrder
<1>5. ASSUME NEW c \in Explicit, status'[c] = "running", NEW j \in Explicit, Prior(c, j) PROVE Over(j)'
  BY <1>1, <1>4, <1>5 DEF ClearedOrder, Cleared, Begun
<1>6. ASSUME NEW j \in Promise!Before(q) PROVE Kept[j] = "complete"
  <2>1. j \in Explicit /\ j # q /\ Prior(q, j) BY <1>0, <1>3, <1>6, BeforePrior
  <2>2. Over(j)' BY <1>2, <1>5, <2>1
  <2> QED BY <1>0, <1>2, <2>1, <2>2 DEF Over, Kept
<1>7. ASSUME Kept[Spawner(q)] = "running", NEW j \in Promise!Apart(q), Kept[j] = "running" PROVE FALSE
  <2>1. /\ j \in Explicit /\ j # q /\ j \in Spawned /\ Spawner(j) = Spawner(q)
        /\ (\E a : a \in MutexOf(j) /\ a \in MutexOf(q)) \/ Prior(q, j) \/ Prior(j, q)
    BY <1>0, <1>3, <1>7, ApartKinds
  <2>2. status[j] = "running" BY <1>0, <1>7, <2>1 DEF Kept
  <2>3. status'[j] = "running" BY <1>0, <1>2, <2>1, <2>2
  <2>4. CASE Prior(q, j) BY <1>2, <1>5, <2>1, <2>3, <2>4 DEF Over
  <2>5. CASE Prior(j, q) BY <1>2, <1>5, <2>1, <2>3, <2>5 DEF Over
  <2>6. ASSUME NEW a, a \in MutexOf(j), a \in MutexOf(q) PROVE FALSE
    <3>1. /\ Spawned' = Spawned /\ Spawner(j)' = Spawner(j) /\ Spawner(q)' = Spawner(q)
          /\ MutexOf(j)' = MutexOf(j) /\ MutexOf(q)' = MutexOf(q)
      BY DEF MutexOf, Spawned, Spawner, Body
    <3>2. Holds(j)' /\ Holds(q)' BY <1>2, <1>3, <2>1, <2>3, <3>1 DEF Excluded, Taking
    <3>3. Spawner(q) \in Tasks BY <1>0, <1>3, SpawnedSpot
    <3>4. status[Spawner(q)] = "running" BY <1>7, <3>3 DEF Kept
    <3>5. status'[Spawner(q)] = "running" BY <1>0, <1>2, <3>3, <3>4
    <3>6. mtx'[Spawner(q)].live BY <3>3, <3>5 DEF Excluded, Over
    <3> QED BY <2>1, <2>6, <3>1, <3>2, <3>6 DEF Holds
  <2> QED BY <2>1, <2>4, <2>5, <2>6
<1>8. Kept[q] = "created" BY <1>0 DEF Kept
<1>9. Kept' = [Kept EXCEPT ![q] = "running"] BY <1>0, <1>2 DEF Kept
<1> QED BY <1>6, <1>7, <1>8, <1>9 DEF Starts

---------------------------------------------------------------------------
(* Descendants, and the tasks inside a group.                              *)

LEMMA LeastOf ==
    ASSUME NEW T \in SUBSET Nat, T # {}
    PROVE  \E x \in T : \A y \in T : x <= y
<1>1. PICK x \in T : \A y \in T : ~(<<y, x>> \in OpToRel(<, Nat))
  BY WFMin, NatLessThanWellFounded
<1>2. \A y \in T : ~(y < x) BY <1>1 DEF OpToRel
<1> QED BY <1>2

LEMMA SpawnedAfter ==
    ASSUME prog \in Programs, NEW k \in Spawned
    PROVE  Spawner(k) \in Tasks /\ k \in Explicit /\ k \in Nat /\ Spawner(k) \in Int /\ Spawner(k) < k
<1>1. PICK p \in Tasks : p = Spawner(k) /\ Spawns(p, SpawnedAt(k), k) /\ k \in Explicit BY SpawnedSpot
<1>2. PICK i \in DOMAIN prog.body[p] : prog.body[p][i] = [op |-> "task", arg |-> k] BY <1>1 DEF Spawns, Is, Body
<1>3. prog.body[p][i].op = "task" /\ prog.body[p][i].arg = k BY <1>2
<1>4. k > p BY <1>2, <1>3, ProgramAssumption
<1>5. k \in Nat /\ p \in Int BY <1>1, ProgramAssumption DEF Tasks, Implicit
<1> QED BY <1>1, <1>4, <1>5

\* The recursive function of Lineage exists: the smallest sets closed under Spawner.
Step1(f) == [k \in Tasks |-> IF k \in Spawned THEN {k} \cup f[Spawner(k)] ELSE {k}]
LEMMA Ascends ==
    ASSUME prog \in Programs
    PROVE  \E f : f = Step1(f)
<1> DEFINE Closed(S) == \A j \in S : j \in Spawned => Spawner(j) \in S
           Up(k) == {a \in Tasks : \A S \in SUBSET Tasks : k \in S /\ Closed(S) => a \in S}
           f == [k \in Tasks |-> Up(k)]
<1>1. ASSUME NEW k \in Tasks PROVE k \in Up(k) OBVIOUS
<1>2. ASSUME NEW k \in Tasks, k \notin Spawned PROVE Up(k) = {k}
  <2>1. {k} \in SUBSET Tasks /\ Closed({k}) BY <1>2
  <2>2. \A a \in Up(k) : a = k BY <2>1
  <2> QED BY <1>1, <2>2
<1>3. ASSUME NEW k \in Spawned PROVE k \in Tasks /\ Spawner(k) \in Tasks /\ Up(k) = {k} \cup Up(Spawner(k))
  <2>1. PICK q \in Tasks : q = Spawner(k) /\ k \in Tasks BY SpawnedAfter DEF Tasks
  <2>2. Up(q) \subseteq Tasks /\ \A j \in Up(q) : j \in Spawned => Spawner(j) \in Up(q)
    <3>1. SUFFICES ASSUME NEW j \in Up(q), j \in Spawned PROVE Spawner(j) \in Up(q) OBVIOUS
    <3>2. Spawner(j) \in Tasks BY <3>1, SpawnedAfter
    <3>3. ASSUME NEW S \in SUBSET Tasks, q \in S, Closed(S) PROVE Spawner(j) \in S
      <4>1. j \in S BY <3>1, <3>3
      <4> QED BY <3>1, <3>3, <4>1
    <3> QED BY <3>2, <3>3
  <2>3. PICK T \in SUBSET Tasks : T = {k} \cup Up(q) BY <2>1, <2>2
  <2>4. Closed(T) BY <1>1, <2>1, <2>2, <2>3
  <2>5. Up(k) \subseteq T
    <3>1. ASSUME NEW a \in Up(k) PROVE a \in T BY <2>3, <2>4, <3>1
    <3> QED BY <3>1
  <2>6. ASSUME NEW a \in Up(q) PROVE a \in Up(k)
    <3>1. ASSUME NEW S \in SUBSET Tasks, k \in S, Closed(S) PROVE a \in S
      <4>1. q \in S BY <1>3, <2>1, <3>1
      <4> QED BY <2>6, <3>1, <4>1
    <3> QED BY <2>6, <3>1
  <2> QED BY <1>1, <2>1, <2>3, <2>5, <2>6
<1>4. \A k \in Tasks : f[k] = Up(k) OBVIOUS
<1> HIDE DEF Up
<1>5. \A k \in Tasks : f[k] = IF k \in Spawned THEN {k} \cup f[Spawner(k)] ELSE {k}
  BY <1>2, <1>3, <1>4
<1>6. f = Step1(f) BY <1>5 DEF Step1
<1> QED BY <1>6

\* The tasks that a task descends from are itself and those its spawner descends from.
LEMMA Lineages ==
    ASSUME prog \in Programs, NEW k \in Spawned
    PROVE  Lineage[k] \cap Spawned = {k} \cup (IF Spawner(k) \in Spawned THEN Lineage[Spawner(k)] \cap Spawned ELSE {})
<1> DEFINE up == CHOOSE f : f = [j \in Tasks |-> IF j \in Spawned THEN {j} \cup f[Spawner(j)] ELSE {j}]
<1>1. up = [j \in Tasks |-> IF j \in Spawned THEN {j} \cup up[Spawner(j)] ELSE {j}] BY Ascends DEF Step1
<1>2. Lineage = [j \in Spawned |-> up[j]] BY DEF Lineage
<1> HIDE DEF up
<1>3. \A j \in Tasks : up[j] = IF j \in Spawned THEN {j} \cup up[Spawner(j)] ELSE {j} BY <1>1
<1>4. Spawner(k) \in Tasks /\ k \in Tasks BY SpawnedAfter DEF Tasks
<1>5. up[k] = {k} \cup up[Spawner(k)] BY <1>3, <1>4
<1>6. Lineage[k] = up[k] /\ (Spawner(k) \in Spawned => Lineage[Spawner(k)] = up[Spawner(k)]) BY <1>2
<1>7. Spawner(k) \notin Spawned => up[Spawner(k)] = {Spawner(k)} BY <1>3, <1>4
<1> QED BY <1>5, <1>6, <1>7

\* A task that is over has come to the end of its body; an open group is open at the
\* point its task has reached; a task is at home in the group in which it was spawned.
OverEnded == \A k \in Explicit : Over(k) => pc[k] > Len(Body(k))
OpenWithin == \A k \in Tasks : \A g \in Groups : \A b \in 1 .. pc[k] - 1 :
    OpenedAt(k, g, b) /\ groups[g].open => g \in OpenAt(Body(k), pc[k])
AtHome(home) == \A p \in Tasks : \A i : \A c \in Explicit :
    Spawns(p, i, c) /\ status[c] # "none" => GroupAt(home, p, i, home[c])
HomesInv == \E home : GroupState(home) /\ AtHome(home)
EndsInv == OverEnded /\ OpenWithin /\ HomesInv

LEMMA OverEndedStep == ASSUME NEW t, Goes(t), OverEnded PROVE OverEnded'
<1>0. Inv /\ t \in Threads /\ Acts(t) /\ Typed /\ Explicit \subseteq Tasks /\ Cur(t) \in Tasks
      /\ \A k : Body(k)' = Body(k)
  BY Basics
<1>1. SUFFICES ASSUME NEW k \in Explicit, Over(k)' PROVE pc'[k] > Len(Body(k)) BY <1>0 DEF OverEnded
<1>2. k \in Tasks /\ pc[k] \in Nat /\ Len(Body(k)) \in Nat BY <1>0, OpsOf
<1>3. pc[k] > Len(Body(k))
  <2>1. CASE Over(k) BY <2>1 DEF OverEnded
  <2>2. CASE ~Over(k)
    <3>1. StatusMoves(t, k) BY <1>0, <1>2, StatusOf
    <3>2. Finish(t) /\ k = Cur(t) BY <1>1, <2>2, <3>1 DEF StatusMoves, Over
    <3>3. Op(k) = "end" BY <3>2 DEF Finish
    <3>4. pc[k] = Len(Body(k)) + 1 BY <1>0, <1>2, <3>3, OpsOf
    <3> QED BY <1>2, <3>4
  <2> QED BY <2>1, <2>2
<1>4. pc'[k] = pc[k] \/ pc'[k] = pc[k] + 1 BY <1>0, <1>2, PcGrows
<1> QED BY <1>2, <1>3, <1>4

LEMMA WithinKept ==
    ASSUME Typed, OpenWithin, prog' = prog, \A k \in Tasks : Neutral(k),
           \A g \in Groups : groups'[g].open = groups[g].open
    PROVE  OpenWithin'
<1>0. \A k : Body(k)' = Body(k) BY DEF Body
<1>1. \A k, g, b : OpenedAt(k, g, b)' <=> OpenedAt(k, g, b) BY <1>0 DEF OpenedAt
<1>2. SUFFICES ASSUME NEW k \in Tasks, NEW g \in Groups, NEW b \in 1 .. pc'[k] - 1,
                      OpenedAt(k, g, b), groups'[g].open
               PROVE  g \in OpenAt(Body(k), pc'[k])
  BY <1>0, <1>1 DEF OpenWithin
<1>3. b \in 1 .. pc[k] - 1 /\ OpenAt(Body(k), pc'[k]) = OpenAt(Body(k), pc[k]) BY <1>2, Positions
<1> QED BY <1>2, <1>3 DEF OpenWithin

LEMMA OpenWithinStep == ASSUME NEW t, Goes(t), OpenWithin PROVE OpenWithin'
<1>0. Inv /\ t \in Threads /\ Acts(t) /\ Typed /\ Shape /\ Doing /\ Cur(t) \in Tasks /\ prog' = prog /\ prog \in Programs
      /\ Stepped(t) /\ \A k : Body(k)' = Body(k)
  BY Basics DEF Goes
<1>1. PICK k \in Tasks : k = Cur(t) BY <1>0
<1>2. PICK i \in Nat : i = pc[k] BY <1>0 DEF Typed
<1>3. \A j, g, b : OpenedAt(j, g, b)' <=> OpenedAt(j, g, b) BY <1>0 DEF OpenedAt
<1>4. CASE Alloc(t)
  <2>1. groups' = Counted(k) /\ Op(k) = "task" /\ pc'[k] = pc[k] + 1 /\ \A j \in Tasks : j # k => pc'[j] = pc[j]
    BY <1>0, <1>1, <1>4, AllocTakes
  <2>2. \A j \in Tasks : Neutral(j) BY <2>1 DEF Neutral
  <2>3. \A g \in Groups : groups'[g].open = groups[g].open
    <3>1. CASE group[k] = Nobody BY <2>1, <3>1 DEF Counted
    <3>2. CASE group[k] # Nobody
      <4>1. PICK d \in Int : d = 1 OBVIOUS
      <4>2. groups' = [groups EXCEPT ![group[k]].count = @ + d] BY <2>1, <3>2, <4>1 DEF Counted
      <4>3. group[k] \in Groups BY <1>0, <3>2 DEF Typed
      <4> QED BY <1>0, <4>2, <4>3, CountOf
    <3> QED BY <3>1, <3>2
  <2> QED BY <1>0, <2>2, <2>3, WithinKept
<1>5. CASE LeaveGroup(t)
  <2>1. at[k] = "ungroup" /\ UNCHANGED <<prog, pc>> /\ groups' = [groups EXCEPT ![group[k]].count = @ - 1]
    BY <1>1, <1>5 DEF LeaveGroup, At
  <2>2. \A j \in Tasks : Neutral(j) BY <2>1 DEF Neutral
  <2>3. \A g \in Groups : groups'[g].open = groups[g].open BY <1>0, <2>1 DEF Typed, GroupType
  <2> QED BY <1>0, <2>2, <2>3, WithinKept
<1>6. CASE Open(t)
  <2>1. PICK g0 : g0 = Arg(k) OBVIOUS
  <2>2. Op(k) = "group" BY <1>1, <1>6 DEF Open
  <2>3. g0 \in Groups /\ Is(Body(k), i, "group", g0) BY <1>0, <1>2, <2>1, <2>2, OpsOf
  <2>4. i \in 1 .. Len(Body(k)) /\ Len(Body(k)) \in Nat /\ DOMAIN Body(k) = 1 .. Len(Body(k))
    BY <1>0, <1>2, <2>2, OpsOf, Bodies
  <2>5. pc'[k] = i + 1 /\ \A j \in Tasks : j # k => pc'[j] = pc[j]
    <3>1. pc' = [pc EXCEPT ![k] = @ + 1] BY <1>1, <1>6 DEF Open
    <3> QED BY <1>0, <1>2, <3>1, PcMoves
  <2>6. \A h \in Groups : h # g0 => groups'[h] = groups[h]
    <3>1. PICK r : r = [open |-> TRUE, count |-> 0, parent |-> group[k]] OBVIOUS
    <3>2. groups' = [groups EXCEPT ![g0] = r] BY <1>1, <1>6, <2>1, <3>1 DEF Open
    <3> QED BY <1>0, <3>2 DEF Typed
  <2>7. OpenAt(Body(k), i + 1) = OpenAt(Body(k), i) \cup {g0} BY <2>3, <2>4, OpenNext
  <2>8. SUFFICES ASSUME NEW j \in Tasks, NEW g \in Groups, NEW b \in 1 .. pc'[j] - 1,
                        OpenedAt(j, g, b), groups'[g].open
                 PROVE  g \in OpenAt(Body(j), pc'[j])
    BY <1>0, <1>3 DEF OpenWithin
  <2>9. CASE g = g0
    <3>1. j = k BY <1>0, <2>3, <2>8, <2>9, OnePlace DEF OpenedAt
    <3> QED BY <2>5, <2>7, <2>9, <3>1
  <2>10. CASE g # g0
    <3>1. groups[g].open BY <2>6, <2>8, <2>10
    <3>2. b \in 1 .. pc[j] - 1
      <4>1. CASE j # k BY <2>5, <2>8, <4>1
      <4>2. CASE j = k
        <5>1. b # i BY <2>3, <2>8, <2>10, <4>2 DEF OpenedAt, Is
        <5> QED BY <1>2, <2>5, <2>8, <4>2, <5>1
      <4> QED BY <4>1, <4>2
    <3>3. g \in OpenAt(Body(j), pc[j]) BY <2>8, <3>1, <3>2 DEF OpenWithin
    <3> QED BY <1>2, <2>5, <2>7, <3>3
  <2> QED BY <2>9, <2>10
<1>7. CASE EndGroup(t)
  <2>1. Op(k) = "endgroup" /\ At(t, "run") BY <1>1, <1>7 DEF EndGroup
  <2>2. status[k] = "running" BY <1>0, <1>1, <2>1, CurFits DEF Busy
  <2>3. PICK g0 : g0 = group[k] OBVIOUS
  <2>4. g0 = Arg(k) /\ g0 \in Groups
    <3>1. PICK home : GroupState(home) BY <1>0, InvParts DEF GroupsInv
    <3> QED BY <1>0, <2>1, <2>2, <2>3, <3>1, InnerGroup
  <2>5. i \in 1 .. Len(Body(k)) /\ Len(Body(k)) \in Nat /\ DOMAIN Body(k) = 1 .. Len(Body(k))
        /\ Is(Body(k), i, "endgroup", g0)
    BY <1>0, <1>2, <2>1, <2>4, OpsOf, Bodies
  <2>6. pc'[k] = i + 1 /\ \A j \in Tasks : j # k => pc'[j] = pc[j]
    <3>1. pc' = [pc EXCEPT ![k] = @ + 1] BY <1>1, <1>7 DEF EndGroup
    <3> QED BY <1>0, <1>2, <3>1, PcMoves
  <2>7. ~groups'[g0].open /\ \A h \in Groups : h # g0 => groups'[h].open = groups[h].open
    <3>1. groups' = [groups EXCEPT ![g0].open = FALSE] BY <1>1, <1>7, <2>3 DEF EndGroup
    <3> QED BY <1>0, <2>4, <3>1, EndOf
  <2>8. OpenAt(Body(k), i + 1) = OpenAt(Body(k), i) \ {g0} BY <2>5, OpenNext
  <2>9. SUFFICES ASSUME NEW j \in Tasks, NEW g \in Groups, NEW b \in 1 .. pc'[j] - 1,
                        OpenedAt(j, g, b), groups'[g].open
                 PROVE  g \in OpenAt(Body(j), pc'[j])
    BY <1>0, <1>3 DEF OpenWithin
  <2>10. g # g0 /\ groups[g].open BY <2>7, <2>9
  <2>11. b \in 1 .. pc[j] - 1
    <3>1. CASE j # k BY <2>6, <2>9, <3>1
    <3>2. CASE j = k
      <4>1. b # i BY <2>5, <2>9, <3>2 DEF OpenedAt, Is
      <4> QED BY <1>2, <2>6, <2>9, <3>2, <4>1
    <3> QED BY <3>1, <3>2
  <2>12. g \in OpenAt(Body(j), pc[j]) BY <2>9, <2>10, <2>11 DEF OpenWithin
  <2> QED BY <1>2, <2>6, <2>8, <2>10, <2>12
<1>8. CASE ~Alloc(t) /\ ~LeaveGroup(t) /\ ~Open(t) /\ ~EndGroup(t)
  <2>1. GroupsSame(t) BY <1>0, <1>8, GroupsSameOf
  <2> QED BY <1>0, <2>1, WithinKept DEF GroupsSame
<1> QED BY <1>4, <1>5, <1>6, <1>7, <1>8

LEMMA HomesStep == ASSUME NEW t, Goes(t), HomesInv PROVE HomesInv'
<1>0. /\ Inv /\ t \in Threads /\ Acts(t) /\ Typed /\ Idle /\ Spawning /\ Cur(t) \in Tasks /\ prog' = prog
      /\ prog \in Programs /\ Stepped(t) /\ (\A k : Body(k)' = Body(k)) /\ Explicit \subseteq Tasks
  BY Basics DEF Goes
<1>1. PICK home : GroupState(home) /\ AtHome(home) BY DEF HomesInv
<1>2. \A p, i, c : Spawns(p, i, c)' <=> Spawns(p, i, c) BY <1>0 DEF Spawns
<1>3. \A h, p, i, g : GroupAt(h, p, i, g)' <=> GroupAt(h, p, i, g)
  BY <1>0 DEF GroupAt, OpenedAt
<1>4. CASE ~Alloc(t)
  <2>1. GroupState(home)' BY <1>0, <1>1, <1>4, GroupsKept, GroupsFinish, GroupsLeave, GroupsOpen, GroupsEnd
  <2>2. \A c \in Explicit : status'[c] # "none" => status[c] # "none" BY <1>0, <1>4, OverKept
  <2>3. AtHome(home)' BY <1>1, <1>2, <1>3, <2>2 DEF AtHome
  <2> QED BY <2>1, <2>3 DEF HomesInv
<1>5. CASE Alloc(t)
  <2>1. PICK k \in Tasks : k = Cur(t) BY <1>0
  <2>2. PICK d : d = Arg(k) OBVIOUS
  <2>3. PICK r : r = group[k] OBVIOUS
  <2>4. /\ d \in Explicit /\ d \in Tasks /\ d # k /\ Is(Body(k), pc[k], "task", d) /\ status[d] = "none" /\ status[k] = "running"
        /\ \A j \in Tasks : j # d => status'[j] = status[j]
    BY <1>0, <1>5, <2>1, <2>2, AllocTakes
  <2>5. PICK home1 : home1 = [home EXCEPT ![d] = r] /\ GroupState(home1)'
    BY <1>0, <1>1, <1>5, <2>1, <2>2, <2>3, GroupsAlloc
  <2>6. home \in [Tasks -> Groups \cup {Nobody}] BY <1>1, GroupStateParts
  <2>7. home1[d] = r /\ \A j \in Tasks : j # d => home1[j] = home[j] BY <2>4, <2>5, <2>6
  <2>8. \A p \in Tasks : p # d => \A i, g : GroupAt(home, p, i, g) => GroupAt(home1, p, i, g)
    BY <2>7 DEF GroupAt
  <2>9. ASSUME NEW p \in Tasks, NEW i, NEW c \in Explicit, Spawns(p, i, c), status'[c] # "none"
        PROVE  GroupAt(home1, p, i, home1[c])
    <3>1. CASE c = d
      <4>1. p = k /\ i = pc[k] BY <1>0, <2>4, <2>9, <3>1, Place DEF Spawns
      <4>2. GroupAt(home, k, pc[k], r) BY <1>1, <2>3, <2>4, GroupStateParts
      <4> QED BY <2>4, <2>7, <2>8, <3>1, <4>1, <4>2
    <3>2. CASE c # d
      <4>1. c \in Tasks /\ status[c] # "none" BY <1>0, <2>4, <2>9, <3>2
      <4>2. GroupAt(home, p, i, home[c]) BY <1>1, <2>9, <4>1 DEF AtHome
      <4>3. p # d
        <5>1. SUFFICES ASSUME p = d PROVE FALSE OBVIOUS
        <5>2. SpawnedBefore(c) BY <1>0, <4>1 DEF Spawning
        <5>3. PICK q \in Tasks : \E h \in 1 .. pc[q] - 1 : Is(Body(q), h, "task", c) BY <5>2 DEF SpawnedBefore
        <5>4. PICK h \in 1 .. pc[q] - 1 : Spawns(q, h, c) BY <5>3 DEF Spawns
        <5>5. q = d BY <1>0, <2>9, <5>1, <5>4, Place
        <5>6. pc[d] = 1 BY <1>0, <2>4 DEF Idle
        <5> QED BY <5>4, <5>5, <5>6
      <4> QED BY <2>7, <2>8, <3>2, <4>1, <4>2, <4>3
    <3> QED BY <3>1, <3>2
  <2>10. AtHome(home1)' BY <1>2, <1>3, <2>9 DEF AtHome
  <2> QED BY <2>5, <2>10 DEF HomesInv
<1> QED BY <1>4, <1>5

LEMMA EndsFrame == ASSUME Inv, EndsInv, Master \/ UNCHANGED vars PROVE EndsInv'
<1>0. Typed /\ prog \in Programs BY InvParts DEF Typed
<1>1. UNCHANGED <<prog, status, groups>>
  BY DEF Master, Gathered, Drained, ReleaseAll, vars, body, counters
<1>2. \A k : Body(k)' = Body(k) BY <1>1 DEF Body
<1>3. \A k \in Tasks : Neutral(k) /\ pc'[k] >= pc[k]
  <2>1. CASE Master
    <3>1. pc' = pc \/ (pc' = [pc EXCEPT ![0] = @ + 1] /\ Op(0) = "barrier") BY <2>1, MasterKeeps
    <3>2. 0 \in Tasks /\ \A k \in Tasks : pc[k] \in Nat BY <1>0, ThreadTasks DEF Typed
    <3>3. CASE pc' = [pc EXCEPT ![0] = @ + 1] /\ Op(0) = "barrier"
      <4>1. pc'[0] = pc[0] + 1 /\ \A k \in Tasks : k # 0 => pc'[k] = pc[k] BY <1>0, <3>2, <3>3, PcMoves
      <4> QED BY <3>2, <3>3, <4>1 DEF Neutral
    <3> QED BY <3>1, <3>2, <3>3 DEF Neutral
  <2>2. CASE UNCHANGED vars BY <1>0, <2>2 DEF vars, body, Neutral, Typed
  <2> QED BY <2>1, <2>2
<1>4. OverEnded'
  <2>1. ASSUME NEW k \in Explicit, Over(k)' PROVE pc'[k] > Len(Body(k))
    <3>1. Over(k) BY <1>1, <2>1 DEF Over
    <3>2. k \in Tasks /\ pc[k] \in Nat /\ Len(Body(k)) \in Nat BY <1>0, OpsOf DEF Tasks
    <3>3. pc[k] > Len(Body(k)) BY <3>1 DEF EndsInv, OverEnded
    <3>4. pc'[k] = pc[k] \/ pc'[k] = pc[k] + 1 BY <1>3, <3>2 DEF Neutral
    <3> QED BY <3>2, <3>3, <3>4
  <2> QED BY <1>2, <2>1 DEF OverEnded
<1>5. OpenWithin' BY <1>0, <1>1, <1>3, WithinKept DEF EndsInv
<1>6. HomesInv'
  <2>1. PICK home : GroupState(home) /\ AtHome(home) BY DEF EndsInv, HomesInv
  <2>2. GroupState(home)' BY <2>1, GroupsStay
  <2>3. \A p, i, c : Spawns(p, i, c)' <=> Spawns(p, i, c) BY <1>2 DEF Spawns
  <2>4. \A p, i, g : GroupAt(home, p, i, g)' <=> GroupAt(home, p, i, g) BY <1>2 DEF GroupAt, OpenedAt
  <2>5. AtHome(home)' BY <1>1, <2>1, <2>3, <2>4 DEF AtHome
  <2> QED BY <2>2, <2>5 DEF HomesInv
<1> QED BY <1>4, <1>5, <1>6 DEF EndsInv

LEMMA EndsInit == ASSUME Init PROVE EndsInv
<1>0. Inv /\ Typed /\ prog \in Programs BY InvInit, InvParts DEF Init
<1>1. \A k \in Explicit : status[k] = "none"
  BY <1>0, ThreadTasks, Numbers DEF Init
<1>2. \A g \in Groups : ~groups[g].open BY DEF Init
<1>3. OverEnded BY <1>1 DEF OverEnded, Over
<1>4. OpenWithin BY <1>2 DEF OpenWithin
<1>5. HomesInv
  <2>1. PICK home : GroupState(home) BY <1>0, InvParts DEF GroupsInv
  <2>2. AtHome(home) BY <1>1 DEF AtHome
  <2> QED BY <2>1, <2>2 DEF HomesInv
<1> QED BY <1>3, <1>4, <1>5 DEF EndsInv
LEMMA PromiseLineage ==
    /\ Promise!Lineage = Lineage
    /\ \A g, p, i : /\ Promise!Opens(g, p, i) <=> Is(Body(p), i, "group", g)
                    /\ Promise!Ends(g, p, i) <=> Is(Body(p), i, "endgroup", g)
<1>1. Promise!Lineage = Lineage
  BY DEF Promise!Lineage, Lineage, Promise!Spawned, Spawned, Promise!Spawner, Spawner, Promise!Body, Body,
         Promise!Tasks, Tasks, Promise!Implicit, Implicit
<1>2. \A g, p, i : /\ Promise!Opens(g, p, i) <=> Is(Body(p), i, "group", g)
                   /\ Promise!Ends(g, p, i) <=> Is(Body(p), i, "endgroup", g)
  BY PromiseNames DEF Promise!Opens, Promise!Ends, Is
<1> QED BY <1>1, <1>2

\* A task inside a group is spawned there, or by one that is inside.
Between(g, k) ==
    \E i, j \in 1 .. Len(Body(Spawner(k))) :
        /\ Is(Body(Spawner(k)), i, "group", g) /\ Is(Body(Spawner(k)), j, "endgroup", g)
        /\ SpawnedAt(k) \in i .. j
LEMMA InsideIs ==
    ASSUME NEW g, NEW x
    PROVE  x \in Promise!Inside(g) <=> x \in Spawned /\ \E a \in Lineage[x] \cap Spawned : Between(g, a)
<1> DEFINE there(a) == \E i, j \in 1 .. Len(Body(Spawner(a))) :
        Promise!Opens(g, Spawner(a), i) /\ Promise!Ends(g, Spawner(a), j) /\ SpawnedAt(a) \in i .. j
<1>1. x \in Promise!Inside(g) <=> x \in Spawned /\ \E a \in Lineage[x] \cap Spawned : there(a)
  BY PromiseNames, PromiseLineage DEF Promise!Inside
<1>2. \A a : there(a) <=> Between(g, a) BY PromiseLineage DEF Between
<1> HIDE DEF there
<1> QED BY <1>1, <1>2

LEMMA InsideOf ==
    ASSUME prog \in Programs, NEW g, NEW k \in Promise!Inside(g)
    PROVE  k \in Spawned /\ (Between(g, k) \/ (Spawner(k) \in Spawned /\ Spawner(k) \in Promise!Inside(g)))
<1>1. k \in Spawned BY InsideIs
<1>2. PICK a \in Lineage[k] \cap Spawned : Between(g, a) BY InsideIs
<1>3. a = k \/ (Spawner(k) \in Spawned /\ a \in Lineage[Spawner(k)] \cap Spawned) BY <1>1, <1>2, Lineages
<1> QED BY <1>1, <1>2, <1>3, InsideIs

\* The end of a group that a task has come to is the first, and what it has spawned
\* between the start of the group and its end it has spawned there.
LEMMA EndsHere ==
    ASSUME prog \in Programs, NEW p \in Tasks, NEW g \in Groups, NEW b \in Nat, NEW i \in Nat,
           OpenedAt(p, g, b), Is(Body(p), i, "endgroup", g), g \in OpenAt(Body(p), i),
           NEW k \in Spawned, Between(g, k)
    PROVE  Spawner(k) = p /\ SpawnedAt(k) \in Nat /\ b < SpawnedAt(k) /\ SpawnedAt(k) < i
<1>1. PICK q \in Tasks : q = Spawner(k) /\ Spawns(q, SpawnedAt(k), k) /\ SpawnedAt(k) \in Nat BY SpawnedSpot
<1>2. PICK c, j \in 1 .. Len(Body(q)) :
        Is(Body(q), c, "group", g) /\ Is(Body(q), j, "endgroup", g) /\ SpawnedAt(k) \in c .. j
  BY <1>1 DEF Between
<1>3. q = p /\ c = b BY <1>2, OnePlace DEF OpenedAt
<1>4. SpawnedAt(k) # b /\ SpawnedAt(k) # j BY <1>1, <1>2, <1>3 DEF Spawns, Is
<1>5. j <= i
  <2>1. Structured(Body(p)) BY ProgramAssumption DEF Body
  <2>2. j \in DOMAIN Body(p) /\ Body(p)[j].op = "endgroup" /\ Body(p)[j].arg = g BY <1>2, <1>3 DEF Is
  <2>3. PICK e \in 1 .. j - 1 : Is(Body(p), e, "group", g) /\ OpenAt(Body(p), j) = OpenAt(Body(p), e) \cup {g}
    BY <2>1, <2>2 DEF Structured
  <2>4. g \in OpenAt(Body(p), j) BY <2>3
  <2>5. PICK f \in 1 .. j - 1 : Is(Body(p), f, "group", g) /\ \A x \in f .. j - 1 : ~Is(Body(p), x, "endgroup", g)
    BY <2>4 DEF OpenAt
  <2>6. f = b BY <2>5, OnePlace DEF OpenedAt
  <2>7. PICK h \in 1 .. i - 1 : Is(Body(p), h, "group", g) BY DEF OpenAt
  <2>8. h = b BY <2>7, OnePlace DEF OpenedAt
  <2>9. b < i BY <2>7, <2>8
  <2>10. ~(i \in b .. j - 1) BY <2>5, <2>6
  <2> QED BY <1>2, <2>9, <2>10
<1>6. j \in Nat /\ b <= SpawnedAt(k) /\ SpawnedAt(k) <= j BY <1>1, <1>2, <1>3
<1> QED BY <1>1, <1>3, <1>4, <1>5, <1>6

\* Task c is over, and its group is g or closed.
Cleaned(home, g, c) ==
    Over(c) /\ home[c] \in Groups /\ (home[c] = g \/ ~groups[home[c]].open)

LEMMA MembersOver ==
    ASSUME Typed, NEW home, GroupState(home), NEW g, Members(home, g) = {}, NEW c \in Explicit,
           status[c] # "none", home[c] \in Groups, home[c] = g \/ ~groups[home[c]].open
    PROVE  Cleaned(home, g, c)
<1>1. Members(home, home[c]) = {} BY GroupStateParts
<1>2. ~Member(c) BY <1>1 DEF Members
<1>3. status[c] \in {"none", "created", "running", "complete", "freed"} BY DEF Typed, Statuses, Tasks
<1> QED BY <1>2, <1>3 DEF Member, Over, Cleaned

LEMMA SpawnedHere ==
    ASSUME Inv, OpenWithin, NEW home, GroupState(home), AtHome(home), Created,
           NEW p \in Tasks, NEW g \in Groups, NEW b \in 1 .. pc[p] - 1, OpenedAt(p, g, b),
           g \in OpenAt(Body(p), pc[p]), OpenAt(Body(p), pc[p]) = OpenAt(Body(p), b) \cup {g},
           Is(Body(p), pc[p], "endgroup", g), Members(home, g) = {},
           NEW c \in Spawned, Between(g, c)
    PROVE  Cleaned(home, g, c)
<1>0. Typed /\ prog \in Programs /\ c \in Explicit /\ pc[p] \in Nat BY InvParts, SpawnedSpot DEF Typed
<1>1. PICK s \in Nat : s = SpawnedAt(c) /\ b < s /\ s < pc[p] /\ Spawner(c) = p /\ Spawns(p, s, c)
  BY <1>0, EndsHere, SpawnedSpot
<1>2. s \in 1 .. pc[p] - 1 BY <1>0, <1>1
<1>3. status[c] # "none" BY <1>1, <1>2 DEF Created
<1>4. PICK h : h = home[c] /\ GroupAt(home, p, s, h) BY <1>0, <1>1, <1>3 DEF AtHome
<1>5. g \in OpenAt(Body(p), s)
  <2>1. PICK f \in 1 .. pc[p] - 1 : Is(Body(p), f, "group", g)
                                    /\ \A x \in f .. pc[p] - 1 : ~Is(Body(p), x, "endgroup", g)
    BY DEF OpenAt
  <2>2. f = b BY <1>0, <2>1, OnePlace DEF OpenedAt
  <2>3. b \in 1 .. s - 1 /\ b .. s - 1 \subseteq b .. pc[p] - 1 BY <1>0, <1>1
  <2> QED BY <2>1, <2>2, <2>3 DEF OpenAt
<1>6. PICK d \in 1 .. s - 1 : OpenedAt(p, h, d) /\ h \in OpenAt(Body(p), s)
                              /\ OpenAt(Body(p), s) = OpenAt(Body(p), d) \cup {h}
  BY <1>4, <1>5 DEF GroupAt
<1>7. h \in Groups BY <1>6 DEF OpenAt
<1>8. h = g \/ ~groups[h].open
  <2>1. SUFFICES ASSUME h # g, groups[h].open PROVE FALSE OBVIOUS
  <2>2. d \in 1 .. pc[p] - 1 /\ d \in Nat /\ b \in Nat BY <1>0, <1>1
  <2>3. h \in OpenAt(Body(p), pc[p]) BY <1>6, <1>7, <2>1, <2>2 DEF OpenWithin
  <2>4. h \in OpenAt(Body(p), b) /\ g \in OpenAt(Body(p), d) BY <1>5, <1>6, <2>1, <2>3
  <2>5. PICK e \in 1 .. b - 1 : Is(Body(p), e, "group", h) BY <2>4 DEF OpenAt
  <2>6. PICK f \in 1 .. d - 1 : Is(Body(p), f, "group", g) BY <2>4 DEF OpenAt
  <2>7. e = d /\ f = b BY <1>0, <1>6, <2>5, <2>6, OnePlace DEF OpenedAt
  <2> QED BY <2>2, <2>5, <2>6, <2>7
<1> QED BY <1>0, <1>3, <1>4, <1>7, <1>8, MembersOver

LEMMA SpawnedByCleaned ==
    ASSUME Inv, OverEnded, OpenWithin, NEW home, GroupState(home), AtHome(home), Created,
           NEW g \in Groups, Members(home, g) = {},
           NEW c \in Spawned, Spawner(c) \in Spawned, Cleaned(home, g, Spawner(c))
    PROVE  Cleaned(home, g, c)
<1>0. Typed /\ prog \in Programs /\ c \in Explicit BY InvParts, SpawnedSpot DEF Typed
<1>1. PICK p \in Explicit : p = Spawner(c) /\ p \in Tasks BY <1>0, SpawnedSpot
<1>2. PICK s \in Nat : s = SpawnedAt(c) /\ Spawns(p, s, c) /\ s \in 1 .. Len(Body(p)) BY <1>0, <1>1, SpawnedSpot, SpawnsTask
<1>3. pc[p] = Len(Body(p)) + 1 /\ Len(Body(p)) \in Nat
  <2>1. pc[p] > Len(Body(p)) BY <1>1 DEF OverEnded, Cleaned
  <2>2. pc[p] \in 1 .. Len(Body(p)) + 1 /\ pc[p] \in Nat /\ Len(Body(p)) \in Nat BY <1>0, <1>1, OpsOf
  <2> QED BY <2>1, <2>2
<1>4. s \in 1 .. pc[p] - 1 BY <1>2, <1>3
<1>5. status[c] # "none" BY <1>1, <1>2, <1>4 DEF Created
<1>6. PICK h : h = home[c] /\ GroupAt(home, p, s, h) BY <1>0, <1>1, <1>2, <1>5 DEF AtHome
<1>7. OpenAt(Body(p), pc[p]) = {}
  <2>1. Structured(Body(p)) BY <1>0, <1>1, ProgramAssumption DEF Body
  <2> QED BY <1>3, <2>1 DEF Structured
<1>8. CASE h = home[p]
  <2>1. home[c] \in Groups /\ (home[c] = g \/ ~groups[home[c]].open) BY <1>1, <1>6, <1>8 DEF Cleaned
  <2> QED BY <1>0, <1>5, <2>1, MembersOver
<1>9. CASE h # home[p]
  <2>1. PICK d \in 1 .. s - 1 : OpenedAt(p, h, d) /\ h \in OpenAt(Body(p), s) BY <1>6, <1>9 DEF GroupAt
  <2>2. h \in Groups /\ d \in 1 .. pc[p] - 1 BY <1>3, <1>4, <2>1 DEF OpenAt
  <2>3. ~groups[h].open BY <1>1, <1>7, <2>1, <2>2 DEF OpenWithin
  <2> QED BY <1>0, <1>5, <1>6, <2>2, <2>3, MembersOver
<1> QED BY <1>8, <1>9

\* When a task leaves a group, all that were spawned inside it, and their descendants,
\* are over: none is a member, and the groups of those spawned by members are closed.
LEMMA GroupOver ==
    ASSUME Inv, Created, EndsInv, NEW t \in Threads, EndGroup(t), NEW k \in Promise!Inside(Arg(Cur(t)))
    PROVE  Over(k) /\ k \in Explicit
<1>0. Typed /\ prog \in Programs /\ Shape /\ Doing BY InvParts DEF Typed
<1>1. PICK p \in Tasks : p = Cur(t) BY <1>0, Tops
<1>2. at[p] = "run" /\ Op(p) = "endgroup" /\ At(t, "run") BY <1>1 DEF EndGroup, At
<1>3. status[p] = "running" BY <1>0, <1>1, <1>2, CurFits DEF Busy
<1>4. PICK home : GroupState(home) /\ AtHome(home) BY DEF EndsInv, HomesInv
<1>5. PICK g : g = Arg(p) OBVIOUS
<1>6. g = group[p] /\ g \in Groups
      /\ \E b \in 1 .. pc[p] - 1 : OpenedAt(p, g, b) /\ g \in OpenAt(Body(p), pc[p])
                                   /\ OpenAt(Body(p), pc[p]) = OpenAt(Body(p), b) \cup {g}
  BY <1>2, <1>3, <1>4, <1>5, InnerGroup
<1>7. PICK b \in 1 .. pc[p] - 1 : OpenedAt(p, g, b) /\ g \in OpenAt(Body(p), pc[p])
                                  /\ OpenAt(Body(p), pc[p]) = OpenAt(Body(p), b) \cup {g}
  BY <1>6
<1>8. Is(Body(p), pc[p], "endgroup", g) BY <1>0, <1>2, <1>5, OpsOf
<1>9. Members(home, g) = {}
  <2>1. groups[g].count = 0
    <3>1. Done(t) BY DEF EndGroup
    <3>2. groups[group[Cur(t)]].count = 0 BY <1>1, <1>2, <3>1 DEF Done
    <3> QED BY <1>1, <1>6, <3>2
  <2>2. groups[g].open BY <1>4, <1>7, GroupStateParts
  <2>3. PICK M : M = Members(home, g) OBVIOUS
  <2>4. IsFiniteSet(M) /\ Cardinality(M) = 0 BY <1>4, <1>6, <2>1, <2>2, <2>3, GroupStateParts
  <2> QED BY <2>3, <2>4, FS_EmptySet
<1>10. ASSUME NEW c \in Spawned, Between(g, c) PROVE Cleaned(home, g, c)
  BY <1>4, <1>6, <1>7, <1>8, <1>9, <1>10, SpawnedHere DEF EndsInv
<1>11. ASSUME NEW c \in Spawned, Spawner(c) \in Spawned, Cleaned(home, g, Spawner(c)) PROVE Cleaned(home, g, c)
  BY <1>4, <1>6, <1>9, <1>11, SpawnedByCleaned DEF EndsInv
<1>12. \A c \in Promise!Inside(g) : Cleaned(home, g, c)
  <2>1. PICK T : T = {c \in Promise!Inside(g) : ~Cleaned(home, g, c)} OBVIOUS
  <2>2. SUFFICES ASSUME T # {} PROVE FALSE BY <2>1
  <2>3. T \in SUBSET Nat BY <1>0, <2>1, InsideOf, SpawnedAfter
  <2>4. PICK x \in T : \A y \in T : x <= y BY <2>2, <2>3, LeastOf
  <2>5. x \in Spawned /\ (Between(g, x) \/ (Spawner(x) \in Spawned /\ Spawner(x) \in Promise!Inside(g)))
    BY <1>0, <2>1, <2>4, InsideOf
  <2>6. Spawner(x) \in Spawned /\ Spawner(x) \in Promise!Inside(g) BY <1>10, <2>1, <2>4, <2>5
  <2>7. x \in Nat /\ Spawner(x) \in Int /\ Spawner(x) < x BY <1>0, <2>5, SpawnedAfter
  <2>8. Cleaned(home, g, Spawner(x)) BY <2>1, <2>4, <2>6, <2>7
  <2>9. Cleaned(home, g, x) BY <1>11, <2>5, <2>6, <2>8
  <2> QED BY <2>1, <2>4, <2>9
<1>13. k \in Spawned BY <1>0, InsideOf
<1> QED BY <1>0, <1>1, <1>5, <1>12, <1>13, SpawnedSpot DEF Cleaned
---------------------------------------------------------------------------
(* The steps.                                                              *)

\* The step of a task that the theorem leaves out: it passes a barrier.
Skips(k) ==
    /\ Kept[k] = "running" /\ pc[k] \in DOMAIN Body(k) /\ Body(k)[pc[k]].op = "barrier"
    /\ pc' = [pc EXCEPT ![k] = @ + 1]
    /\ UNCHANGED <<prog, Kept>>
InOrder(k) ==
    Promise!Create(k) \/ Starts(k) \/ Promise!Pass(k) \/ Promise!End(k) \/ Skips(k)

LEMMA CreateKeeps == ASSUME NEW t, Goes(t), Alloc(t) PROVE \E k \in Tasks : Promise!Create(k)
<1>0. Inv /\ t \in Threads /\ Typed /\ Cur(t) \in Tasks /\ Explicit \subseteq Tasks BY Basics
<1>1. PICK k \in Tasks : k = Cur(t) BY <1>0
<1>2. PICK c : c = Arg(k) OBVIOUS
<1>3. /\ c \in Explicit /\ c \in Tasks /\ Op(k) = "task" /\ status[k] = "running" /\ c # k
      /\ status'[c] = "created" /\ \A j \in Tasks : j # c => status'[j] = status[j]
  BY <1>0, <1>1, <1>2, AllocTakes
<1>4. prog' = prog /\ pc' = [pc EXCEPT ![k] = @ + 1] BY <1>1 DEF Alloc
<1>5. pc[k] \in DOMAIN Body(k) /\ Body(k)[pc[k]].op = "task" /\ Body(k)[pc[k]].arg = c
  <2>1. ~Ends(k) BY <1>3 DEF Op
  <2>2. Body(k)[pc[k]].op = "task" BY <1>3, <2>1 DEF Op
  <2> QED BY <1>0, <1>2, <1>3, <2>2, OpsOf DEF Arg
<1>6. Kept[k] = "running" /\ Kept' = [Kept EXCEPT ![c] = "created"] BY <1>3 DEF Kept
<1>7. Promise!Create(k) BY <1>4, <1>5, <1>6, PromiseNames DEF Promise!Create, Kept
<1> QED BY <1>7

LEMMA EndKeeps == ASSUME NEW t, Goes(t), Finish(t) PROVE \E k \in Tasks : Promise!End(k)
<1>0. Inv /\ t \in Threads /\ Typed /\ Shape /\ Doing /\ Cur(t) \in Tasks /\ Explicit \subseteq Tasks BY Basics
<1>1. PICK k \in Tasks : k = Cur(t) BY <1>0
<1>2. k \in Explicit /\ Op(k) = "end" /\ At(t, "run") /\ UNCHANGED <<prog, pc>> /\ status' = [status EXCEPT ![k] = "complete"]
  BY <1>1 DEF Finish
<1>3. status[k] = "running" BY <1>0, <1>1, <1>2, CurFits DEF Busy
<1>4. pc[k] = Len(Body(k)) + 1 BY <1>0, <1>2, OpsOf
<1>5. Kept[k] = "running" /\ Kept' = [Kept EXCEPT ![k] = "complete"] BY <1>0, <1>2, <1>3 DEF Kept, Typed
<1>6. Promise!End(k) BY <1>2, <1>4, <1>5, PromiseNames DEF Promise!End, Kept
<1> QED BY <1>6

\* A task goes on in its body without waiting, at a taskwait when its children are
\* over, and at the end of a group when all inside it are.
LEMMA PassKeeps ==
    ASSUME NEW t, Goes(t), ChildrenCounted, EndsInv,
           Open(t) \/ TaskWait(t) \/ EndGroup(t) \/ Leave(t)
    PROVE  Promise!Pass(Cur(t)) \/ Skips(Cur(t))
<1>0. Inv /\ t \in Threads /\ Typed /\ Shape /\ Doing /\ Cur(t) \in Tasks /\ Explicit \subseteq Tasks /\ OrderInv
      /\ prog \in Programs
  BY Basics
<1>1. PICK k \in Tasks : k = Cur(t) BY <1>0
<1>2. At(t, "run") /\ UNCHANGED <<prog, status>> /\ pc' = [pc EXCEPT ![k] = @ + 1]
  <2>1. CASE Leave(t) BY <1>1, <2>1 DEF Leave, InPhase, Sync
  <2> QED BY <1>1, <2>1 DEF Open, TaskWait, EndGroup
<1>3. status[k] = "running" /\ Kept[k] = "running" /\ Kept' = Kept
  <2>1. status[k] = "running" BY <1>0, <1>1, <1>2, CurFits DEF Busy
  <2> QED BY <1>2, <2>1 DEF Kept
<1>4. ASSUME NEW o, Op(k) = o, o # "end" PROVE pc[k] \in DOMAIN Body(k) /\ Body(k)[pc[k]].op = o
  BY <1>0, <1>4, OpsOf DEF Op
<1>5. CASE Open(t)
  <2>1. Op(k) = "group" BY <1>1, <1>5 DEF Open
  <2>2. pc[k] \in DOMAIN Body(k) /\ Body(k)[pc[k]].op = "group" BY <1>4, <2>1
  <2> QED BY <1>1, <1>2, <1>3, <2>2, PromiseNames DEF Promise!Pass, Kept
<1>6. CASE TaskWait(t)
  <2>1. Op(k) = "taskwait" /\ incomplete[k] = 0 BY <1>1, <1>6 DEF TaskWait, Done
  <2>2. pc[k] \in DOMAIN Body(k) /\ Body(k)[pc[k]].op = "taskwait" BY <1>4, <2>1
  <2>3. Kids(k) = {} BY <2>1, FS_EmptySet DEF ChildrenCounted
  <2>4. ASSUME NEW j \in Spawned, Spawner(j) = k, SpawnedAt(j) < pc[k] PROVE Kept[j] = "complete"
    <3>1. Spawns(k, SpawnedAt(j), j) /\ SpawnedAt(j) \in 1 .. Len(Body(k)) /\ j \in Explicit
      BY <1>0, <2>4, SpawnedSpot, SpawnsTask
    <3>2. SpawnedAt(j) \in 1 .. pc[k] - 1 BY <1>0, <2>4, <3>1, OpsOf
    <3>3. status[j] # "none" BY <1>0, <3>1, <3>2 DEF OrderInv, Created
    <3>4. status[j] \notin {"created", "running"} BY <2>3, <2>4, <3>1 DEF Kids
    <3>5. status[j] \in {"complete", "freed"} BY <1>0, <3>1, <3>3, <3>4 DEF Typed, Statuses
    <3> QED BY <1>0, <3>1, <3>5 DEF Kept
  <2>5. Promise!Complete({j \in Promise!Spawned : Promise!Spawner(j) = k /\ Promise!SpawnedAt(j) < pc[k]})
    BY <2>4, PromiseNames DEF Promise!Complete, Kept
  <2> QED BY <1>1, <1>2, <1>3, <2>2, <2>5, PromiseNames DEF Promise!Pass, Kept
<1>7. CASE EndGroup(t)
  <2>1. Op(k) = "endgroup" BY <1>1, <1>7 DEF EndGroup
  <2>2. pc[k] \in DOMAIN Body(k) /\ Body(k)[pc[k]].op = "endgroup" BY <1>4, <2>1
  <2>3. PICK g : g = Arg(k) OBVIOUS
  <2>4. \A c \in Promise!Inside(g) : Over(c) /\ c \in Explicit
    BY <1>0, <1>1, <1>7, <2>3, GroupOver DEF OrderInv
  <2>5. Body(k)[pc[k]].arg = g BY <2>3 DEF Arg
  <2>6. \A c \in Promise!Inside(g) : Kept[c] = "complete" BY <1>0, <2>4 DEF Kept, Over
  <2>7. Promise!Complete(Promise!Inside(Body(k)[pc[k]].arg)) BY <2>5, <2>6 DEF Promise!Complete, Kept
  <2> QED BY <1>1, <1>2, <1>3, <2>2, <2>7, PromiseNames DEF Promise!Pass, Kept
<1>8. CASE Leave(t)
  <2>1. k = t /\ phase[t] # "none" BY <1>1, <1>8 DEF Leave, InPhase
  <2>2. Op(k) = "barrier" BY <1>0, <2>1, InvParts DEF InBarrier
  <2> QED BY <1>1, <1>2, <1>3, <1>4, <2>2 DEF Skips
<1> QED BY <1>5, <1>6, <1>7, <1>8

\* A step that only frees tasks, or none, is invisible.
LEMMA Unseen ==
    ASSUME UNCHANGED <<prog, pc>>, \A k \in Tasks : status'[k] = status[k] \/ (status[k] = "complete" /\ status'[k] = "freed")
    PROVE  UNCHANGED Promise!vars
<1>1. Kept' = Kept BY DEF Kept
<1> QED BY <1>1, PromiseNames DEF Promise!vars, Kept

LEMMA InOrderStep ==
    ASSUME NEW t, Goes(t), Excluded, ChildrenCounted, EndsInv
    PROVE  (\E k \in Tasks : InOrder(k)) \/ UNCHANGED Promise!vars
<1>0. Inv /\ t \in Threads /\ Acts(t) /\ Typed /\ Cur(t) \in Tasks /\ Explicit \subseteq Tasks /\ Excluded'
  BY Basics, ExcludedStep
<1>1. ASSUME NEW q \in Explicit, Invoke(t, q), status[q] = "created", UNCHANGED <<prog, pc>>
      PROVE  \E k \in Tasks : InOrder(k)
  BY <1>0, <1>1, StartKeeps DEF InOrder
<1>2. ASSUME NEW q \in Explicit, Submit(t, q), status[q] = "created", UNCHANGED <<prog, pc>>
      PROVE  (\E k \in Tasks : InOrder(k)) \/ UNCHANGED Promise!vars
  BY <1>1, <1>2, SubmitLocks, Unseen
<1>3. CASE Alloc(t) BY <1>3, CreateKeeps DEF InOrder
<1>4. CASE Finish(t) BY <1>4, EndKeeps DEF InOrder
<1>5. CASE Open(t) \/ TaskWait(t) \/ EndGroup(t) \/ Leave(t) BY <1>0, <1>5, PassKeeps DEF InOrder
<1>6. CASE Push(t) BY <1>0, <1>2, <1>6, PushTakes
<1>7. CASE Robbed(t) BY <1>0, <1>1, <1>7, RobbedTakes
<1>8. CASE Own(t)
  <2>1. PICK q : q = Last(deque[mine[t]][t].tasks) OBVIOUS
  <2>2. UNCHANGED <<prog, pc>> /\ mine[t] \in {0, 1} /\ t \in Implicit BY <1>0, <1>8, OwnTakes
  <2>3. CASE deque[mine[t]][t].tasks # <<>> /\ Invoke(t, q)
    <3>1. deque[mine[t]][t].tasks \in Seq(Explicit) BY <1>0, <2>2, Queued
    <3>2. q \in Elems(deque[mine[t]][t].tasks) /\ q \in Explicit BY <2>1, <2>3, <3>1, ElemsOf
    <3>3. Lies(q, "queue", mine[t], t) BY <2>2, <3>2 DEF Lies
    <3>4. status[q] = "created" BY <1>0, <3>2, <3>3, InvParts, LyingCreated
    <3> QED BY <1>1, <2>2, <2>3, <3>2, <3>4
  <2>4. CASE status' = status BY <2>2, <2>4, Unseen
  <2> QED BY <1>8, <2>1, <2>3, <2>4 DEF Own
<1>9. CASE Notify(t)
  <2>1. PICK q \in Explicit : q = Head(node[Cur(t)].succ) BY <1>0, <1>9, Notifies
  <2>2. /\ UNCHANGED <<prog, pc>>
        /\ (Submit(t, q) /\ status[q] = "created") \/ status' = status
    BY <1>0, <1>9, <2>1, Notifies
  <2> QED BY <1>2, <2>2, Unseen
<1>10. CASE FreeAncestors(t)
  <2>1. UNCHANGED <<prog, pc>> BY <1>0, <1>10, Frees
  <2>2. ~Alloc(t) /\ ~Finish(t) BY <1>10 DEF FreeAncestors, Alloc, Finish, At
  <2>3. ASSUME NEW k \in Tasks PROVE status'[k] = status[k] \/ (status[k] = "complete" /\ status'[k] = "freed")
    <3>1. StatusMoves(t, k) BY <1>0, StatusOf
    <3> QED BY <1>10, <2>2, <3>1 DEF StatusMoves
  <2> QED BY <2>1, <2>3, Unseen
<1>11. CASE Depend(t) \/ Link(t) \/ Settle(t) \/ Forget(t) \/ Spent(t) \/ LeaveGroup(t) \/ FreeHash(t)
  BY <1>11, Unseen DEF Depend, Link, Settle, Forget, Spent, LeaveGroup, FreeHash, body
<1>12. CASE ReleaseNode(t) \/ Notified(t) \/ Arrive(t) \/ \E v \in Threads : Rob(t, v) \/ RobNothing(t, v)
  BY <1>12, Unseen DEF ReleaseNode, Notified, Arrive, Rob, RobNothing, body
<1> QED BY <1>0, <1>3, <1>4, <1>5, <1>6, <1>7, <1>8, <1>9, <1>10, <1>11, <1>12 DEF Acts, Step

\* The master only moves its own implicit task, past a barrier.
LEMMA InOrderMaster ==
    ASSUME Inv, Master \/ UNCHANGED vars
    PROVE  InOrder(0) \/ UNCHANGED Promise!vars
<1>1. CASE UNCHANGED vars BY <1>1, Unseen DEF vars, body
<1>2. CASE Master
  <2>1. /\ 0 \in Threads /\ UNCHANGED <<prog, status>> /\ Cur(0) = 0 /\ At(0, "run")
        /\ pc' = pc \/ (pc' = [pc EXCEPT ![0] = @ + 1] /\ Op(0) = "barrier")
    BY <1>2, MasterKeeps
  <2>2. Typed /\ Shape /\ Doing /\ 0 \in Tasks BY <2>1, InvParts, ThreadTasks DEF Typed
  <2>3. CASE pc' = pc BY <2>1, <2>3, Unseen
  <2>4. CASE pc' = [pc EXCEPT ![0] = @ + 1] /\ Op(0) = "barrier"
    <3>1. status[0] = "running" BY <2>1, <2>2, CurFits DEF Busy
    <3>2. Kept[0] = "running" /\ Kept' = Kept BY <2>1, <2>2, <3>1 DEF Kept
    <3>3. pc[0] \in DOMAIN Body(0) /\ Body(0)[pc[0]].op = "barrier" BY <2>2, <2>4, OpsOf DEF Op
    <3>4. Skips(0) BY <2>1, <2>4, <3>2, <3>3 DEF Skips
    <3> QED BY <3>4 DEF InOrder
  <2> QED BY <2>1, <2>3, <2>4
<1> QED BY <1>1, <1>2

LEMMA CountsFrame ==
    ASSUME Inv, Excluded, ChildrenCounted, Master \/ UNCHANGED vars
    PROVE  Excluded' /\ ChildrenCounted'
<1>1. UNCHANGED <<prog, status, mtx, loot, incomplete>>
  <2>1. CASE Master
    <3>1. UNCHANGED <<prog, status, counters, queues, deps>> BY <2>1, MasterKeeps
    <3> QED BY <3>1 DEF counters, queues, deps
  <2>2. CASE UNCHANGED vars BY <2>2 DEF vars, body, counters, queues, deps
  <2> QED BY <2>1, <2>2
<1>2. Threads' = Threads /\ Spawned' = Spawned /\ \A k : MutexOf(k)' = MutexOf(k) /\ Spawner(k)' = Spawner(k)
  BY <1>1 DEF Threads, MutexOf, Spawner, Spawned, Body
<1>3. Excluded' BY <1>1, <1>2 DEF Excluded, Taking, Holds, Over
<1>4. \A k : Kids(k)' = Kids(k) BY <1>1, <1>2 DEF Kids
<1> QED BY <1>1, <1>3, <1>4 DEF ChildrenCounted

InOrderInv == Inv /\ OrderInv /\ Excluded /\ ChildrenCounted /\ EndsInv

LEMMA InOrderInit == ASSUME Init PROVE InOrderInv /\ Promise!Init
<1>1. /\ prog \in Programs /\ Threads \subseteq Tasks /\ Threads \subseteq Implicit /\ Explicit \cap Implicit = {}
      /\ Explicit \subseteq Tasks /\ Nobody \notin Explicit
  BY ThreadTasks, Numbers DEF Init
<1>2. /\ \A k \in Explicit : status[k] = "none"
      /\ \A t \in Threads : loot[t] = Nobody
      /\ incomplete = [k \in Tasks |-> 0]
  BY <1>1 DEF Init
<1>3. Excluded
  <2>1. mtx \in [Tasks -> LockType] /\ \A p \in Tasks : mtx[p].live BY DEF Init, LockType
  <2>2. Spawned \subseteq Explicit BY DEF Spawned
  <2> QED BY <1>1, <1>2, <2>1, <2>2 DEF Excluded, Taking
<1>4. \A k : Kids(k) = {} BY <1>2 DEF Kids
<1>5. ChildrenCounted BY <1>2, <1>4, FS_EmptySet DEF ChildrenCounted
<1>6. Kept = [k \in Tasks |-> IF k \in Threads THEN "running" ELSE "none"] BY DEF Init, Kept
<1>7. Promise!Init BY <1>1, <1>6, PromiseNames DEF Promise!Init, Kept, Init
<1> QED BY <1>3, <1>5, <1>7, InvInit, OrderInit, EndsInit DEF InOrderInv

LEMMA InOrderNext ==
    ASSUME InOrderInv, Next \/ UNCHANGED vars
    PROVE  InOrderInv' /\ ((\E k \in Tasks : InOrder(k)) \/ UNCHANGED Promise!vars)
<1>1. Inv /\ OrderInv /\ Excluded /\ ChildrenCounted /\ EndsInv /\ Inv' /\ OrderInv' BY InvNext, OrderNext DEF InOrderInv
<1>2. ASSUME NEW t \in Threads, Acts(t)
      PROVE  /\ Excluded' /\ ChildrenCounted' /\ EndsInv'
             /\ (\E k \in Tasks : InOrder(k)) \/ UNCHANGED Promise!vars
  <2>1. Goes(t) BY <1>1, <1>2, GoesOf
  <2>2. EndsInv' BY <1>1, <2>1, OverEndedStep, OpenWithinStep, HomesStep DEF EndsInv
  <2> QED BY <1>1, <2>1, <2>2, ExcludedStep, CountedStep, InOrderStep
<1>3. CASE Master \/ UNCHANGED vars
  <2>1. 0 \in Tasks BY <1>1, InvParts, ThreadTasks DEF Typed
  <2> QED BY <1>1, <1>3, <2>1, CountsFrame, EndsFrame, InOrderMaster DEF InOrderInv
<1>4. Next => Master \/ UNCHANGED vars \/ \E t \in Threads : Acts(t) BY DEF Next, Finished, Acts
<1> QED BY <1>1, <1>2, <1>3, <1>4 DEF InOrderInv

\* Every step is one that tasking promises (kmp_taskdeps.cpp 245-442, kmp_taskdeps.h
\* 92-140, kmp_tasking.cpp 257-296 and 1827-1930) or invisible: a task is created where
\* its spawner stands, starts once, after the siblings before it on which it depends
\* have completed and, as long as the task that spawned them has not ended (an implicit
\* task does not), while none of those that exclude it runs, passes a taskwait when
\* its children are complete and the end of a group when all tasks inside it are
\* (__kmpc_end_taskgroup, 2249-2341), and ends at the end of its body.  What the promise
\* asks of a barrier is left out here (Skips).
THEOREM TasksInOrder == Spec => Promise!Init /\ [][\E k \in Tasks : InOrder(k)]_(Promise!vars)
<1>1. Init => InOrderInv /\ Promise!Init BY InOrderInit
<1>2. InOrderInv /\ [Next]_vars => InOrderInv' BY InOrderNext
<1>3. InOrderInv /\ [Next]_vars => [\E k \in Tasks : InOrder(k)]_(Promise!vars) BY InOrderNext
<1> QED BY <1>1, <1>2, <1>3, PTL DEF Spec

\* As the promise puts it, in one state.
SiblingsInOrder ==
    \A k \in Spawned : Begun(k) =>
        /\ \A j \in Promise!Before(k) : Over(j)
        /\ status[k] = "running" /\ status[Spawner(k)] = "running" =>
               \A j \in Promise!Apart(k) : status[j] # "running"

LEMMA InOrderState == ASSUME InOrderInv PROVE SiblingsInOrder
<1>0. Inv /\ ClearedOrder /\ Excluded /\ prog \in Programs
  BY InvParts DEF InOrderInv, OrderInv, Typed
<1>1. ASSUME NEW c \in Explicit, NEW j \in Explicit, Begun(c), Prior(c, j) PROVE Over(j)
  BY <1>0, <1>1 DEF ClearedOrder, Cleared
<1>2. ASSUME NEW k \in Spawned, Begun(k), NEW j \in Promise!Before(k) PROVE Over(j)
  BY <1>0, <1>1, <1>2, BeforePrior, SpawnedSpot
<1>3. ASSUME NEW k \in Spawned, NEW j \in Promise!Apart(k), status[k] = "running", status[j] = "running",
             status[Spawner(k)] = "running"
      PROVE  FALSE
  <2>1. /\ j \in Explicit /\ k \in Explicit /\ j # k /\ j \in Spawned /\ Spawner(j) = Spawner(k)
        /\ (\E a : a \in MutexOf(j) /\ a \in MutexOf(k)) \/ Prior(k, j) \/ Prior(j, k)
    BY <1>0, <1>3, ApartKinds
  <2>2. ~Prior(k, j) /\ ~Prior(j, k) BY <1>1, <1>3, <2>1 DEF Begun, Over
  <2>3. Holds(j) /\ Holds(k) BY <1>0, <1>3, <2>1 DEF Excluded, Taking
  <2>4. mtx[Spawner(k)].live
    <3>1. Spawner(k) \in Tasks BY <1>0, <1>3, SpawnedSpot
    <3> QED BY <1>0, <1>3, <3>1 DEF Excluded, Over
  <2> QED BY <2>1, <2>2, <2>3, <2>4 DEF Holds
<1> QED BY <1>2, <1>3 DEF SiblingsInOrder

\* At no time has a task begun while a sibling it depends on is not over, and no two
\* tasks run that exclude each other on an address as long as the task that spawned
\* them runs, which an implicit task always does.  When it has ended they may: its
\* locks are freed with its table (kmp_taskdeps.h 57-101).
THEOREM TasksStayInOrder == Spec => []SiblingsInOrder
<1>1. Init => InOrderInv BY InOrderInit
<1>2. InOrderInv /\ [Next]_vars => InOrderInv' BY InOrderNext
<1>3. InOrderInv => SiblingsInOrder BY InOrderState
<1> QED BY <1>1, <1>2, <1>3, PTL DEF Spec
=============================================================================
