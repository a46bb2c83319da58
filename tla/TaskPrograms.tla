---------------------------- MODULE TaskPrograms ----------------------------
(***************************************************************************)
(* What the threads of a team are asked to do: each thread t executes its  *)
(* implicit task, number t, and a task spawns others, waits for its        *)
(* children, opens and ends task groups; implicit tasks meet at barriers.  *)
(* The dependences of a task order it after siblings spawned before it.    *)
(***************************************************************************)
EXTENDS Integers, FiniteSets, Sequences

CONSTANTS
    MaxProc,     \* threads of the largest team, 0 is the master
    Explicit,    \* the tasks that are spawned
    Groups,      \* the task groups
    Addrs,       \* the addresses dependences name
    Programs     \* records [nproc, body, deps]

Implicit == 0 .. MaxProc - 1
Tasks == Implicit \cup Explicit
Nobody == -1

Ops == [op : {"task"}, arg : Explicit] \cup [op : {"group", "endgroup"}, arg : Groups]
       \cup [op : {"taskwait", "barrier"}, arg : {0}]

\* A dependence names an address and is in, out (or inout), or mutexinoutset, of
\* which a task of the model has at most one.
Deps == [addr : Addrs, kind : {"in", "out", "mtx"}]

\* The groups that a body has opened, and not ended, before position i.
Is(ops, i, o, a) == i \in DOMAIN ops /\ ops[i] = [op |-> o, arg |-> a]
OpenAt(ops, i) == {g \in Groups : \E b \in 1 .. i - 1 :
                      Is(ops, b, "group", g) /\ \A e \in b .. i - 1 : ~Is(ops, e, "endgroup", g)}

\* Groups are blocks: the end of a group leaves open what was open at its start.
Structured(ops) ==
    /\ OpenAt(ops, Len(ops) + 1) = {}
    /\ \A i \in DOMAIN ops : ops[i].op = "endgroup" =>
         \E b \in 1 .. i - 1 : /\ Is(ops, b, "group", ops[i].arg)
                              /\ OpenAt(ops, i) = OpenAt(ops, b) \cup {ops[i].arg}

\* A task is spawned, and a group opened, at one place of the program, and tasks are
\* numbered after the task that spawns them.
ASSUME ProgramAssumption ==
    /\ MaxProc \in Nat
    /\ Explicit \subseteq Nat \ Implicit /\ Nobody \notin Groups
    /\ \A p \in Programs :
         /\ p.nproc \in 2 .. MaxProc
         /\ p.body \in [Tasks -> Seq(Ops)] /\ p.deps \in [Explicit -> Seq(Deps)]
         /\ \A k \in Explicit :
              Cardinality({d \in 1 .. Len(p.deps[k]) : p.deps[k][d].kind = "mtx"}) <= 1
         /\ \A k \in Tasks : Structured(p.body[k])
         /\ \A j, k \in Tasks : \A a \in DOMAIN p.body[j], b \in DOMAIN p.body[k] :
              p.body[j][a] = p.body[k][b] /\ p.body[j][a].op \in {"task", "group"}
                  => j = k /\ a = b
         /\ \A k \in Tasks : \A a \in DOMAIN p.body[k] :
              p.body[k][a].op = "task" => p.body[k][a].arg > k

VARIABLE prog    \* the member of Programs at work

Threads == 0 .. prog.nproc - 1
Body(k) == prog.body[k]

\* Where task k is spawned: the task, and the position in its body.
Spawner(k) == CHOOSE p \in Tasks : \E i \in DOMAIN Body(p) :
                  Body(p)[i] = [op |-> "task", arg |-> k]
SpawnedAt(k) == CHOOSE i \in DOMAIN Body(Spawner(k)) :
                  Body(Spawner(k))[i] = [op |-> "task", arg |-> k]
Spawned == {k \in Explicit : \E p \in Tasks : \E i \in DOMAIN Body(p) :
                  Body(p)[i] = [op |-> "task", arg |-> k]}

\* k and the tasks it descends from.
Lineage == LET up[k \in Tasks] == IF k \in Spawned THEN {k} \cup up[Spawner(k)] ELSE {k}
           IN  [k \in Spawned |-> up[k]]
===========================================================================
