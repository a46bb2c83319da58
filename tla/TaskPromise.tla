---------------------------- MODULE TaskPromise ----------------------------
(***************************************************************************)
(* What tasking promises: a task starts once, after the siblings it        *)
(* depends on; taskwait waits for the children, the end of a group for     *)
(* all descendants, a barrier for all tasks of its region.                 *)
(***************************************************************************)
EXTENDS TaskPrograms

VARIABLES
    status,      \* none, created, running, complete
    pc           \* position of each task in its body

vars == <<prog, status, pc>>

Complete(S) == \A k \in S : status[k] = "complete"

\* Two dependences on one address order their tasks unless both only read, or both
\* ask for mutual exclusion, which forbids only that they run at the same time.
Ordered(j, k) ==
    \E a \in DOMAIN prog.deps[j], b \in DOMAIN prog.deps[k] :
        LET d == prog.deps[j][a]
            e == prog.deps[k][b]
        IN  d.addr = e.addr /\ (d.kind = "out" \/ d.kind # e.kind)
Excludes(j, k) ==
    \E a \in DOMAIN prog.deps[j], b \in DOMAIN prog.deps[k] :
        prog.deps[j][a] = prog.deps[k][b] /\ prog.deps[j][a].kind = "mtx"

Siblings(k) == {j \in Spawned \ {k} : Spawner(j) = Spawner(k)}
Before(k) == {j \in Siblings(k) : SpawnedAt(j) < SpawnedAt(k) /\ Ordered(j, k)}
Apart(k) == {j \in Siblings(k) : Excludes(j, k)}

\* The tasks spawned inside group g, and their descendants.
Opens(g, p, i) == i \in DOMAIN Body(p) /\ Body(p)[i] = [op |-> "group", arg |-> g]
Ends(g, p, i) == i \in DOMAIN Body(p) /\ Body(p)[i] = [op |-> "endgroup", arg |-> g]
Inside(g) == {k \in Spawned : \E a \in Lineage[k] \cap Spawned : \E i, j \in 1 .. Len(Body(Spawner(a))) :
                 Opens(g, Spawner(a), i) /\ Ends(g, Spawner(a), j) /\ SpawnedAt(a) \in i .. j}

\* The tasks that belong before the barrier at position i of the implicit tasks.
Barriers(p, i) == Cardinality({b \in 1 .. i - 1 : Body(p)[b].op = "barrier"})
Region(n) == {k \in Spawned : \E a \in Lineage[k] \cap Spawned :
                 Spawner(a) \in Implicit /\ Barriers(Spawner(a), SpawnedAt(a)) <= n}

Init ==
    /\ prog \in Programs
    /\ status = [k \in Tasks |-> IF k \in Threads THEN "running" ELSE "none"]
    /\ pc = [k \in Tasks |-> 1]

Create(k) ==
    /\ status[k] = "running" /\ pc[k] \in DOMAIN Body(k) /\ Body(k)[pc[k]].op = "task"
    /\ status' = [status EXCEPT ![Body(k)[pc[k]].arg] = "created"]
    /\ pc' = [pc EXCEPT ![k] = @ + 1]
    /\ UNCHANGED prog

Start(k) ==
    /\ status[k] = "created"
    /\ Complete(Before(k)) /\ \A j \in Apart(k) : status[j] # "running"
    /\ status' = [status EXCEPT ![k] = "running"]
    /\ UNCHANGED <<prog, pc>>

Pass(k) ==
    /\ status[k] = "running" /\ pc[k] \in DOMAIN Body(k)
    /\ LET o == Body(k)[pc[k]] IN
         \/ o.op = "group"
         \/ o.op = "taskwait" /\ Complete({j \in Spawned : Spawner(j) = k /\ SpawnedAt(j) < pc[k]})
         \/ o.op = "endgroup" /\ Complete(Inside(o.arg))
         \/ o.op = "barrier" /\ Complete(Region(Barriers(k, pc[k])))
    /\ pc' = [pc EXCEPT ![k] = @ + 1]
    /\ UNCHANGED <<prog, status>>

End(k) ==
    /\ k \in Explicit /\ status[k] = "running" /\ pc[k] = Len(Body(k)) + 1
    /\ status' = [status EXCEPT ![k] = "complete"]
    /\ UNCHANGED <<prog, pc>>

Next == \E k \in Tasks : Create(k) \/ Start(k) \/ Pass(k) \/ End(k)

Spec == Init /\ [][Next]_vars
===========================================================================
