------------------------------ MODULE Tasking ------------------------------
(***************************************************************************)
(* Explicit tasks (kmp_tasking.cpp, kmp_taskdeps.h): deques with stealing, *)
(* taskwait and taskgroup, the reference counts that free a task, and the  *)
(* two task teams that alternate from barrier to barrier.  A thread looks  *)
(* for tasks whenever its task waits; the last barrier of a region ends    *)
(* when no thread has anything left (tt_unfinished_threads).               *)
(***************************************************************************)
EXTENDS TaskPrograms, TaskDeps

CONSTANT DequeSize    \* INITIAL_TASK_DEQUE_SIZE

ASSUME DequeAssumption == DequeSize \in Nat \ {0}

VARIABLES
    pc,          \* position of each task in its body
    status,      \* none, created, running, complete, freed
    at,          \* what the thread does on behalf of each task it executes
    stack,       \* the tasks a thread executes, the current one first
    incomplete,  \* td_incomplete_child_tasks
    refs,        \* td_allocated_child_tasks
    group,       \* td_taskgroup
    groups,      \* [open, count, parent] of each task group
    deque,       \* td_deque of each thread in both task teams, and its capacity
    tt,          \* t_task_team: [active, found, unfinished]
    mine,        \* th_task_team
    parity,      \* th_task_state
    finished,    \* thread_finished, of the wait at a barrier
    phase,       \* of each thread in a barrier: none, gather, drain, open, await
    arrived, go, \* the threads that have come, and those released
    loot, prey,  \* the task a thief holds the victim's deque for
    climb,       \* the task whose references are dropped next
    node,        \* [live, npred, succ] of each task with dependences
    table,       \* td_dephash
    links,       \* [todo, next, n] of the task being created: the nodes to link it
                 \* behind, the next dependence, the predecessors so far
    mtx          \* mtx_lock of each address in each table: [live, by], there or
                 \* destroyed, and who holds it

body == <<pc, status, at, stack, group>>
counters == <<incomplete, refs, groups, climb>>
queues == <<deque, loot, prey>>
team == <<tt, mine, parity, finished, phase, arrived, go>>
deps == <<node, table, links, mtx>>
vars == <<prog, body, counters, queues, team, deps>>
---------------------------------------------------------------------------
Cur(t) == Head(stack[t])
Ends(k) == pc[k] > Len(Body(k))
Op(k) == IF Ends(k) THEN "end" ELSE Body(k)[pc[k]].op
Arg(k) == Body(k)[pc[k]].arg
At(t, where) == stack[t] # <<>> /\ at[Cur(t)] = where
Workers == Threads \ {0}

Init ==
    /\ prog \in Programs
    /\ pc = [k \in Tasks |-> 1]
    /\ status = [k \in Tasks |-> IF k \in Threads THEN "running" ELSE "none"]
    /\ at = [k \in Tasks |-> "run"]
    /\ stack = [t \in Implicit |-> IF t \in Threads THEN <<t>> ELSE <<>>]
    /\ incomplete = [k \in Tasks |-> 0] /\ refs = [k \in Tasks |-> 0]
    /\ group = [k \in Tasks |-> Nobody]
    /\ groups = [g \in Groups |-> [open |-> FALSE, count |-> 0, parent |-> Nobody]]
    /\ deque = [p \in {0, 1} |-> [t \in Implicit |-> [tasks |-> <<>>, cap |-> DequeSize]]]
    /\ tt = [p \in {0, 1} |-> [active |-> TRUE, found |-> FALSE, unfinished |-> prog.nproc]]
    /\ mine = [t \in Implicit |-> 0] /\ parity = [t \in Implicit |-> 0]
    /\ finished = [t \in Implicit |-> FALSE] /\ phase = [t \in Implicit |-> "none"]
    /\ arrived = {} /\ go = {}
    /\ loot = [t \in Implicit |-> Nobody] /\ prey = [t \in Implicit |-> Nobody]
    /\ climb = [t \in Implicit |-> Nobody]
    /\ node = [k \in Tasks |-> [live |-> FALSE, npred |-> 0, succ |-> <<>>]]
    /\ table = [k \in Tasks |-> [a \in Addrs |-> NewEntry]]
    /\ links = [t \in Implicit |-> [todo |-> <<>>, next |-> 1, n |-> 0]]
    /\ mtx = [k \in Tasks |-> [live |-> TRUE, by |-> [a \in Addrs |-> Nobody]]]
---------------------------------------------------------------------------
(* Which tasks a thread may execute, and the deques.                       *)

Length(p, t) == Len(deque[p][t].tasks)
Locked(p, v) == \E u \in Threads : prey[u] = v /\ mine[u] = p

\* A thief that still holds the lock has not yet counted its task out.
NTasks(p, t) == Length(p, t) + (IF Locked(p, t) THEN 1 ELSE 0)

\* The locks of k are in the table of the task that spawned it, and go with it.
MutexOf(k) == {a \in Addrs : Merged(prog.deps[k], a) = "mtx"}
Lock(k) == mtx' = [mtx EXCEPT ![Spawner(k)].by =
              [a \in Addrs |-> IF mtx[Spawner(k)].live /\ a \in MutexOf(k) THEN k ELSE @[a]]]
Unlock(k) == mtx' = [mtx EXCEPT ![Spawner(k)].by =
                [a \in Addrs |-> IF @[a] = k THEN Nobody ELSE @[a]]]

\* A tied task that waits only lets its thread execute its own descendants.
Descends(t, k, constrained) ==
    constrained /\ (Cur(t) \in Explicit \/ Op(Cur(t)) \in {"taskwait", "endgroup"})
        => Cur(t) \in Lineage[k]

\* The answers of __kmp_task_is_allowed.  A lock that is destroyed is freed memory,
\* and the test of it gives either answer.
Allowed(t, k, constrained) ==
    /\ Descends(t, k, constrained)
    /\ mtx[Spawner(k)].live => \A a \in MutexOf(k) : mtx[Spawner(k)].by[a] = Nobody
Refused(t, k, constrained) ==
    \/ ~Descends(t, k, constrained)
    \/ \E a \in MutexOf(k) : mtx[Spawner(k)].live => mtx[Spawner(k)].by[a] # Nobody

Set(t, where) == at' = [at EXCEPT ![Cur(t)] = where]
Invoke(t, k) == /\ stack' = [stack EXCEPT ![t] = <<k>> \o @]
                /\ status' = [status EXCEPT ![k] = "running"]

\* __kmp_omp_task: queue task k, or execute it now if the deque is full.  A full
\* deque grows for a task that may not be executed here.
Submit(t, k) ==
    LET p == mine[t]
        d == deque[p][t]
        full == NTasks(p, t) >= d.cap
    IN
    /\ p # Nobody
    /\ tt' = [tt EXCEPT ![p].found = TRUE]
    /\ \/ /\ full /\ Allowed(t, k, TRUE)
          /\ Invoke(t, k) /\ Lock(k) /\ UNCHANGED deque
       \/ /\ full => Refused(t, k, TRUE)
          /\ ~Locked(p, t)
          /\ deque' = [deque EXCEPT ![p][t] = [tasks |-> Append(d.tasks, k),
                                               cap |-> IF full THEN 2 * d.cap ELSE d.cap]]
          /\ UNCHANGED <<stack, status, mtx>>
---------------------------------------------------------------------------
(* A task spawns another one.                                              *)

\* Mutant: a task holds no reference to its parent.
NoReference(k, child) == [refs EXCEPT ![child] = 1]

References(k, child) ==
    [j \in Tasks |-> CASE j = child -> 1
                       [] j = k /\ k \in Explicit -> refs[j] + 1
                       [] OTHER -> refs[j]]

\* A task belongs to the group of its parent.
Counted(k) == IF group[k] = Nobody THEN groups ELSE [groups EXCEPT ![group[k]].count = @ + 1]

Alloc(t) ==
    LET k == Cur(t)
        c == Arg(k)
        depends == prog.deps[c] # <<>>
    IN
    /\ At(t, "run") /\ Op(k) = "task"
    /\ pc' = [pc EXCEPT ![k] = @ + 1]
    /\ status' = [status EXCEPT ![c] = "created"]
    /\ incomplete' = [incomplete EXCEPT ![k] = @ + 1]
    /\ refs' = References(k, c)
    /\ group' = [group EXCEPT ![c] = group[k]] /\ groups' = Counted(k)
    /\ links' = [links EXCEPT ![t] = [todo |-> <<>>, next |-> 1, n |-> 0]]
    /\ node' = [node EXCEPT ![c].npred = -1]
    /\ Set(t, IF depends THEN "link" ELSE "push")
    /\ UNCHANGED <<prog, stack, climb, queues, team, table, mtx>>

Fresh(k) == Body(k)[pc[k] - 1].arg

\* The next dependence: what to link the node behind, and the entry with the node.
Depend(t) ==
    LET k == Cur(t)
        c == Fresh(k)
        n == links[t].next
        a == prog.deps[c][n].addr
        kind == Merged(prog.deps[c], a)
    IN
    /\ At(t, "link") /\ links[t].todo = <<>> /\ n <= Len(prog.deps[c])
    /\ IF First(prog.deps[c], n)
       THEN /\ links' = [links EXCEPT ![t].todo = Links(table[k][a], kind), ![t].next = n + 1]
            /\ table' = [table EXCEPT ![k][a] = After(@, kind, c)]
       ELSE /\ links' = [links EXCEPT ![t].next = n + 1]
            /\ UNCHANGED table
    /\ UNCHANGED <<prog, body, counters, queues, team, node, mtx>>

\* Mutant: the new node is linked behind a task that is done.
LinkAlways(j) == TRUE

StillLive(j) == node[j].live

\* Under the lock of a predecessor: become its successor unless it is done.
Link(t) ==
    LET j == Head(links[t].todo) IN
    /\ At(t, "link") /\ links[t].todo # <<>>
    /\ links' = [links EXCEPT ![t].todo = Tail(@),
                              ![t].n = @ + (IF StillLive(j) THEN 1 ELSE 0)]
    /\ node' = [node EXCEPT ![j].succ = IF StillLive(j) THEN <<Fresh(Cur(t))>> \o @ ELSE @]
    /\ UNCHANGED <<prog, body, counters, queues, team, table, mtx>>

\* All predecessors are known: whoever brings their number to zero queues the task.
Settle(t) ==
    LET c == Fresh(Cur(t))
        left == node[c].npred + links[t].n + 1
    IN
    /\ At(t, "link") /\ links[t].todo = <<>> /\ links[t].next > Len(prog.deps[c])
    /\ node' = [node EXCEPT ![c].npred = left, ![c].live = TRUE]
    /\ Set(t, IF left > 0 THEN "run" ELSE "push")
    /\ UNCHANGED <<prog, pc, status, stack, group, counters, queues, team, table, links, mtx>>

Push(t) ==
    /\ At(t, "push")
    /\ Submit(t, Fresh(Cur(t)))
    /\ Set(t, "run")
    /\ UNCHANGED <<prog, pc, group, counters, loot, prey, mine, parity, finished, phase,
                   arrived, go, node, table, links>>

Open(t) ==
    LET k == Cur(t)  g == Arg(k) IN
    /\ At(t, "run") /\ Op(k) = "group"
    /\ groups' = [groups EXCEPT ![g] = [open |-> TRUE, count |-> 0, parent |-> group[k]]]
    /\ group' = [group EXCEPT ![k] = g]
    /\ pc' = [pc EXCEPT ![k] = @ + 1]
    /\ UNCHANGED <<prog, status, at, stack, incomplete, refs, climb, queues, team, deps>>
---------------------------------------------------------------------------
(* Waiting: at a taskwait, at the end of a group, and within a barrier.    *)

InPhase(t, ph) == At(t, "run") /\ Cur(t) = t /\ phase[t] = ph
Waits(t) == \/ At(t, "run") /\ Op(Cur(t)) \in {"taskwait", "endgroup"}
            \/ \E ph \in {"gather", "drain", "await"} : InPhase(t, ph)
Done(t) ==
    CASE Op(Cur(t)) = "taskwait" -> incomplete[Cur(t)] = 0
      [] Op(Cur(t)) = "endgroup" -> groups[group[Cur(t)]].count = 0
      [] OTHER -> CASE phase[t] = "gather" -> arrived = Workers
                    [] phase[t] = "drain" -> tt[parity[t]].unfinished = 0
                    [] phase[t] = "await" -> t \in go

\* Within a barrier a thread takes any task; the waits of tasks are constrained.
Constrained(t) == Op(Cur(t)) # "barrier"

\* final_spin: the thread has nothing left to do but tasks.
Final(t) == Cur(t) = t /\ phase[t] \in {"drain", "await"}

\* __kmp_wait_template leaves a task team that is no longer active.
Forget(t) ==
    /\ Waits(t) /\ ~Done(t) /\ ~Constrained(t)
    /\ mine[t] # Nobody /\ ~tt[mine[t]].active
    /\ mine' = [mine EXCEPT ![t] = Nobody]
    /\ UNCHANGED <<prog, body, counters, queues, deps, tt, parity, finished, phase, arrived, go>>

\* The newest task of the own deque, or else a search elsewhere.
Own(t) ==
    LET p == mine[t]  q == deque[p][t].tasks IN
    /\ Waits(t) /\ ~Done(t) /\ p # Nobody
    /\ ~Constrained(t) => tt[p].active /\ tt[p].found
    /\ NTasks(p, t) # 0 => ~Locked(p, t)
    /\ \/ /\ q # <<>> /\ Allowed(t, Last(q), Constrained(t))
          /\ deque' = [deque EXCEPT ![p][t].tasks = Front(@)]
          /\ Invoke(t, Last(q)) /\ Lock(Last(q))
          /\ UNCHANGED at
       \/ /\ q # <<>> => Refused(t, Last(q), Constrained(t))
          /\ Set(t, "rob") /\ UNCHANGED <<deque, stack, status, mtx>>
    /\ UNCHANGED <<prog, pc, group, counters, loot, prey, team, node, table, links>>

\* The search has failed; only at the end of a region that means something.
GoesOn(t) == IF Final(t) /\ ~finished[t] THEN "spent" ELSE "run"

\* Mutant: the thief does not count itself in again.
StillFinished(t) == tt[mine[t]].unfinished

CountedIn(t) == tt[mine[t]].unfinished + (IF Final(t) /\ finished[t] THEN 1 ELSE 0)

\* The oldest task of another thread.  A thread that had finished counts itself in
\* again before the owner of the deque can see that the task is gone.  (Every wait has a
\* thread_finished of its own, which only the end of a barrier sets.)
Rob(t, v) ==
    LET p == mine[t]  q == deque[p][v].tasks IN
    /\ At(t, "rob") /\ v # t
    /\ q # <<>> /\ ~Locked(p, v) /\ Allowed(t, Head(q), Constrained(t))
    /\ deque' = [deque EXCEPT ![p][v].tasks = Tail(@)]
    /\ Lock(Head(q))
    /\ loot' = [loot EXCEPT ![t] = Head(q)] /\ prey' = [prey EXCEPT ![t] = v]
    /\ tt' = [tt EXCEPT ![p].unfinished = CountedIn(t)]
    /\ finished' = [finished EXCEPT ![t] = @ /\ ~Final(t)]
    /\ Set(t, "robbed")
    /\ UNCHANGED <<prog, pc, status, stack, group, counters, mine, parity, phase,
                   arrived, go, node, table, links>>

\* Nothing to take from v.
RobNothing(t, v) ==
    LET p == mine[t]  q == deque[p][v].tasks IN
    /\ At(t, "rob") /\ v # t
    /\ \/ NTasks(p, v) = 0
       \/ q # <<>> /\ ~Locked(p, v) /\ Refused(t, Head(q), Constrained(t))
    /\ Set(t, GoesOn(t))
    /\ UNCHANGED <<prog, pc, status, stack, group, counters, queues, team, deps>>

Robbed(t) ==
    /\ At(t, "robbed")
    /\ Invoke(t, loot[t]) /\ Set(t, "run")
    /\ loot' = [loot EXCEPT ![t] = Nobody] /\ prey' = [prey EXCEPT ![t] = Nobody]
    /\ UNCHANGED <<prog, pc, group, counters, deque, team, deps>>

\* The thread counts itself out of the region.
Spent(t) ==
    /\ At(t, "spent")
    /\ IF incomplete[t] = 0
       THEN /\ tt' = [tt EXCEPT ![mine[t]].unfinished = @ - 1]
            /\ finished' = [finished EXCEPT ![t] = TRUE]
       ELSE UNCHANGED <<tt, finished>>
    /\ Set(t, "run")
    /\ UNCHANGED <<prog, pc, status, stack, group, counters, queues, mine, parity, phase,
                   arrived, go, deps>>

TaskWait(t) ==
    /\ At(t, "run") /\ Op(Cur(t)) = "taskwait" /\ Done(t)
    /\ pc' = [pc EXCEPT ![Cur(t)] = @ + 1]
    /\ UNCHANGED <<prog, status, at, stack, group, counters, queues, team, deps>>

EndGroup(t) ==
    LET k == Cur(t)  g == group[k] IN
    /\ At(t, "run") /\ Op(k) = "endgroup" /\ Done(t)
    /\ group' = [group EXCEPT ![k] = groups[g].parent]
    /\ groups' = [groups EXCEPT ![g].open = FALSE]
    /\ pc' = [pc EXCEPT ![k] = @ + 1]
    /\ UNCHANGED <<prog, status, at, stack, incomplete, refs, climb, queues, team, deps>>
---------------------------------------------------------------------------
(* A task ends.                                                            *)

\* What __kmp_release_deps has to do for k: it frees the table of one that has spawned
\* a task with dependences, and releases one that has some itself.
Hashed(k) == \E i \in DOMAIN Body(k) :
                 Body(k)[i].op = "task" /\ prog.deps[Body(k)[i].arg] # <<>>
AfterHash(k) == IF prog.deps[k] # <<>> THEN "release" ELSE "climb"
AfterGroup(k) == IF Hashed(k) THEN "unhash" ELSE AfterHash(k)
Ended(k) == IF group[k] # Nobody THEN "ungroup" ELSE AfterGroup(k)

Finish(t) ==
    LET k == Cur(t)  parent == Spawner(k) IN
    /\ At(t, "run") /\ k \in Explicit /\ Op(k) = "end"
    /\ Unlock(k)
    /\ status' = [status EXCEPT ![k] = "complete"]
    /\ incomplete' = [incomplete EXCEPT ![parent] = @ - 1]
    /\ climb' = [climb EXCEPT ![t] = k]
    /\ Set(t, Ended(k))
    /\ UNCHANGED <<prog, pc, stack, group, refs, groups, queues, team, node, table, links>>

LeaveGroup(t) ==
    LET k == Cur(t) IN
    /\ At(t, "ungroup")
    /\ groups' = [groups EXCEPT ![group[k]].count = @ - 1]
    /\ Set(t, AfterGroup(k))
    /\ UNCHANGED <<prog, pc, status, stack, group, incomplete, refs, climb, queues, team, deps>>

\* The table is freed with its locks, though children of the task hold or want them.
FreeHash(t) ==
    LET k == Cur(t) IN
    /\ At(t, "unhash")
    /\ table' = [table EXCEPT ![k] = [a \in Addrs |-> NewEntry]]
    /\ mtx' = [mtx EXCEPT ![k].live = FALSE]
    /\ Set(t, AfterHash(k))
    /\ UNCHANGED <<prog, pc, status, stack, group, counters, queues, team, node, links>>

\* No successor can be added from here on.
ReleaseNode(t) ==
    /\ At(t, "release")
    /\ node' = [node EXCEPT ![Cur(t)].live = FALSE]
    /\ Set(t, "notify")
    /\ UNCHANGED <<prog, pc, status, stack, group, counters, queues, team, table, links, mtx>>

Notify(t) ==
    LET k == Cur(t)  s == Head(node[k].succ)  left == node[s].npred - 1 IN
    /\ At(t, "notify") /\ node[k].succ # <<>>
    /\ node' = [node EXCEPT ![s].npred = left, ![k].succ = Tail(@)]
    /\ IF left = 0 /\ node[s].live THEN Submit(t, s)
       ELSE UNCHANGED <<deque, stack, status, mtx, tt>>
    /\ UNCHANGED <<prog, pc, at, group, counters, loot, prey, mine, parity, finished, phase,
                   arrived, go, table, links>>

Notified(t) ==
    /\ At(t, "notify") /\ node[Cur(t)].succ = <<>>
    /\ Set(t, "climb") /\ climb' = [climb EXCEPT ![t] = Cur(t)]
    /\ UNCHANGED <<prog, pc, status, stack, group, incomplete, refs, groups, queues, team, deps>>

\* Drop a reference, and free the task and go on with its parent if it was the last.
FreeAncestors(t) ==
    LET c == climb[t]  last == refs[c] = 1
        up == last /\ Spawner(c) \in Explicit
    IN
    /\ At(t, "climb")
    /\ refs' = [refs EXCEPT ![c] = @ - 1]
    /\ status' = IF last THEN [status EXCEPT ![c] = "freed"] ELSE status
    /\ climb' = [climb EXCEPT ![t] = IF up THEN Spawner(c) ELSE Nobody]
    /\ IF up THEN UNCHANGED stack ELSE stack' = [stack EXCEPT ![t] = Tail(@)]
    /\ UNCHANGED <<prog, pc, at, group, incomplete, groups, queues, team, deps>>
---------------------------------------------------------------------------
(* The barrier, gathered and released by flags, and the task teams.        *)

\* __kmp_task_team_setup: prepare the team of the next region while this one ends.
SetUp(p) == IF tt[p].active THEN tt[p]
            ELSE [active |-> TRUE, found |-> FALSE, unfinished |-> prog.nproc]

Arrive(t) ==
    /\ InPhase(t, "none") /\ Op(t) = "barrier"
    /\ IF t = 0
       THEN /\ tt' = [tt EXCEPT ![1 - parity[t]] = SetUp(1 - parity[t])]
            /\ phase' = [phase EXCEPT ![t] = "gather"]
            /\ UNCHANGED arrived
       ELSE /\ arrived' = arrived \cup {t}
            /\ phase' = [phase EXCEPT ![t] = "await"]
            /\ UNCHANGED tt
    /\ finished' = [finished EXCEPT ![t] = FALSE]
    /\ UNCHANGED <<prog, body, counters, queues, deps, mine, parity, go>>

\* All have come.  The master waits for tasks only if there were any.
Gathered ==
    /\ InPhase(0, "gather") /\ Done(0)
    /\ arrived' = {}
    /\ phase' = [phase EXCEPT ![0] = IF tt[parity[0]].found THEN "drain" ELSE "open"]
    /\ UNCHANGED <<prog, body, counters, queues, deps, tt, mine, parity, finished, go>>

Drained ==
    /\ InPhase(0, "drain") /\ Done(0)
    /\ tt' = [tt EXCEPT ![parity[0]].active = FALSE]
    /\ mine' = [mine EXCEPT ![0] = Nobody]
    /\ phase' = [phase EXCEPT ![0] = "open"]
    /\ UNCHANGED <<prog, body, counters, queues, deps, parity, finished, arrived, go>>

\* __kmp_task_team_sync at the end of the barrier.
Sync(t) == /\ parity' = [parity EXCEPT ![t] = 1 - @]
           /\ mine' = [mine EXCEPT ![t] = 1 - parity[t]]
           /\ phase' = [phase EXCEPT ![t] = "none"]
           /\ pc' = [pc EXCEPT ![t] = @ + 1]

ReleaseAll ==
    /\ InPhase(0, "open")
    /\ go' = Workers
    /\ Sync(0)
    /\ UNCHANGED <<prog, status, at, stack, group, counters, queues, deps, tt, finished, arrived>>

Leave(t) ==
    /\ InPhase(t, "await") /\ Done(t)
    /\ go' = go \ {t}
    /\ Sync(t)
    /\ UNCHANGED <<prog, status, at, stack, group, counters, queues, deps, tt, finished, arrived>>
---------------------------------------------------------------------------
Step(t) ==
    \/ Alloc(t) \/ Depend(t) \/ Link(t) \/ Settle(t) \/ Push(t) \/ Open(t)
    \/ Forget(t) \/ Own(t) \/ Robbed(t) \/ Spent(t) \/ TaskWait(t) \/ EndGroup(t)
    \/ Finish(t) \/ LeaveGroup(t) \/ FreeHash(t) \/ ReleaseNode(t) \/ Notify(t) \/ Notified(t)
    \/ FreeAncestors(t) \/ Arrive(t) \/ Leave(t)

Master == Gathered \/ Drained \/ ReleaseAll

\* All bodies are done.
AllDone == \A t \in Threads : Ends(t)
Finished == AllDone /\ UNCHANGED vars

Next == \/ Finished \/ Master
        \/ \E t \in Threads : Step(t) \/ \E v \in Threads : Rob(t, v) \/ RobNothing(t, v)

Spec == Init /\ [][Next]_vars

\* Threads go on, and a thread that looks for tasks again and again tries every
\* victim (__kmp_get_random) and gets the lock of its deque.
FairSpec ==
    /\ Spec /\ WF_vars(Master)
    /\ \A t \in Implicit :
         /\ WF_vars(t \in Threads /\ Step(t))
         /\ WF_vars(t \in Threads /\ \E v \in Threads : Rob(t, v) \/ RobNothing(t, v))
         /\ \A v \in Implicit : SF_vars({t, v} \subseteq Threads /\ Rob(t, v))
---------------------------------------------------------------------------
Promise == INSTANCE TaskPromise WITH
    status <- [k \in Tasks |-> IF status[k] = "freed" THEN "complete" ELSE status[k]]

\* Tasks start after those they depend on, taskwait, groups and barriers wait for
\* all they must, wherever the tasks are executed and whoever steals them.
ImplementsTasks == Promise!Spec

\* A task that is not freed keeps its ancestors, and its group; the task whose
\* references a thread drops is there.
NoUseAfterFree ==
    /\ \A k \in Explicit : status[k] \in {"created", "running", "complete"} =>
           /\ status[Spawner(k)] # "freed"
           /\ status[k] # "complete" /\ group[k] # Nobody => groups[group[k]].open
    /\ \A t \in Threads : At(t, "climb") => status[climb[t]] # "freed"
    /\ \A t \in Threads : At(t, "ungroup") => groups[group[Cur(t)]].open

\* A task that has acquired the lock of an address runs beside no other task that
\* needs this lock: "negative num_locks means all locks acquired successfully"
\* (kmp_tasking.cpp 292), "to check if two tasks run simultaneously"
\* (omp50_task_depend_mtx2.c 28).
HolderAlone ==
    \A j, k \in Spawned : \A a \in MutexOf(j) \cap MutexOf(k) :
        j # k /\ Spawner(j) = Spawner(k) /\ status[j] = "running" /\ status[k] = "running"
            => mtx[Spawner(j)].by[a] # j

\* All bodies come to their end.
AllEnd == <>AllDone
=============================================================================
