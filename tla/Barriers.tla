------------------------------ MODULE Barriers ------------------------------
(***************************************************************************)
(* The barrier of a team: kmp_barrier.cpp gathers the threads along a tree *)
(* to the master and releases them along another one; a thread that waits  *)
(* for a flag spins and may then sleep on a condition variable, and the    *)
(* thread that releases the flag wakes it (kmp_wait_release.h, and suspend *)
(* and resume of z_Linux_util.cpp).                                        *)
(* A flag counts in steps of 4 and keeps a sleep bit: here [n, sleep].     *)
(***************************************************************************)
EXTENDS Integers, FiniteSetsExt, SequencesExt

CONSTANTS
    MaxProc,       \* threads of the largest team, 0 is the master
    Cases,         \* the teams explored: [nproc, gather, release, sleepers, rounds]
    SkipPerLevel   \* hierarchical: distance of the children at each level

Everyone == 0 .. MaxProc - 1
None == MaxProc

\* A tree: its kind and the logarithm of its branching factor.
Trees == [kind : {"linear", "tree", "hyper", "hierarchical"}, bits : Nat \ {0}]

\* sleepers are the threads whose blocktime may end, rounds the barriers executed.
ASSUME CaseAssumption ==
    /\ MaxProc \in Nat
    /\ \A c \in Cases : /\ c.nproc \in 2 .. MaxProc /\ c.rounds \in Nat
                         /\ c.sleepers \subseteq Everyone
                         /\ {c.gather, c.release} \subseteq Trees
ASSUME SkipAssumption ==
    /\ SkipPerLevel \in Seq(Nat \ {0}) /\ Len(SkipPerLevel) > 1
    /\ SkipPerLevel[1] = 1 /\ SkipPerLevel[Len(SkipPerLevel)] >= MaxProc

VARIABLES
    team,          \* the member of Cases at work
    stage,         \* gather, notify (the parent), await, reset, wake (the children)
    sub,           \* position within a wait or a release
    todo,          \* the children still to be gathered or woken
    flag,          \* b_arrived and b_go of every thread
    team_arrived,  \* b_arrived of the team
    new_state,     \* the value a thread waits for while it gathers
    mx,            \* owner of each thread's th_suspend_mx
    data,          \* reduce_data: how often each thread's share is in it
    entered, passed

flow == <<stage, sub, todo>>
barrierVars == <<team, flow, flag, team_arrived, new_state, mx, data, entered, passed>>
---------------------------------------------------------------------------
(* The trees of a team of n threads, each a record p of a kind and of bits. *)

Depth == Len(SkipPerLevel)
Skip(d) == SkipPerLevel[d + 1]

\* The level of a thread in the hierarchy: the root of a subtree at all levels below.
MyLevel(t) == IF t = 0 THEN Depth - 1
              ELSE Min({d \in 0 .. Depth - 2 : d = Depth - 2 \/ t % Skip(d + 1) # 0})

\* Distance of the first level of the hypercube at which t has a nonzero digit.
HyperLevel(p, t) == Min({l \in 0 .. MaxProc : l % p.bits = 0 /\ t % (2 ^ (l + p.bits)) # 0})

Parent(p, t) ==
    CASE p.kind = "linear" -> 0
      [] p.kind = "tree" -> (t - 1) \div 2 ^ p.bits
      [] p.kind = "hyper" -> t - (t % (2 ^ (HyperLevel(p, t) + p.bits)))
      [] p.kind = "hierarchical" ->
           IF MyLevel(t) = Depth - 2 THEN 0 ELSE t - (t % Skip(MyLevel(t) + 1))

\* The children at one level of the hypercube and of the hierarchy, cut at the size
\* of the team.
HyperKids(p, n, t, l) ==
    {k \in 1 .. n - 1 : /\ l % p.bits = 0 /\ t % (2 ^ (l + p.bits)) = 0
                        /\ \E c \in 1 .. 2 ^ p.bits - 1 : k = t + c * 2 ^ l}
LevelKids(n, t, d) ==
    {k \in 1 .. n - 1 : t < k /\ k < t + Skip(d + 1) /\ (k - t) % Skip(d) = 0}

Kids(p, n, t) ==
    CASE p.kind = "linear" -> IF t = 0 THEN 1 .. n - 1 ELSE {}
      [] p.kind = "tree" -> {k \in 1 .. n - 1 : t * 2 ^ p.bits < k /\ k <= (t + 1) * 2 ^ p.bits}
      [] p.kind = "hyper" -> UNION {HyperKids(p, n, t, l) : l \in 0 .. n}
      [] p.kind = "hierarchical" -> UNION {LevelKids(n, t, d) : d \in 0 .. MyLevel(t) - 1}

Members == 0 .. team.nproc - 1

\* Children are gathered in the order of their numbers.  The hypercube wakes them
\* in reverse, the hierarchy from the highest level down.
GatherOrder(c, t) == SetToSortSeq(Kids(c.gather, c.nproc, t), <)
WakeOrder(c, t) ==
    LET kids == Kids(c.release, c.nproc, t) IN
    CASE c.release.kind \in {"linear", "tree"} -> SetToSortSeq(kids, <)
      [] c.release.kind = "hyper" -> SetToSortSeq(kids, >)
      [] c.release.kind = "hierarchical" -> SetToSortSeq(kids, LAMBDA a, b :
           IF MyLevel(a) = MyLevel(b) THEN a < b ELSE MyLevel(a) > MyLevel(b))

\* q names each member of S once.
Lists(q, S) == /\ q \in Seq(S) /\ \A k \in S : \E i \in 1 .. Len(q) : q[i] = k
               /\ \A i, j \in 1 .. Len(q) : q[i] = q[j] => i = j

\* The trees are trees: the children a thread handles, each once, are those that
\* take it for their parent, whose number is smaller.
ASSUME TreeAssumption ==
    \A c \in Cases : \A t \in 0 .. c.nproc - 1 :
        /\ \A p \in {c.gather, c.release} : t # 0 => Parent(p, t) \in 0 .. t - 1
        /\ Lists(GatherOrder(c, t), {k \in 1 .. c.nproc - 1 : Parent(c.gather, k) = t})
        /\ Lists(WakeOrder(c, t), {k \in 1 .. c.nproc - 1 : Parent(c.release, k) = t})

---------------------------------------------------------------------------
Off == [n |-> 0, sleep |-> FALSE]
Alone(t) == [u \in Everyone |-> IF u = t THEN 1 ELSE 0]

BarrierInit ==
    /\ team \in Cases
    /\ stage = [t \in Everyone |-> "out"] /\ sub = [t \in Everyone |-> "spin"]
    /\ todo = [t \in Everyone |-> <<>>]
    /\ flag = [f \in {"arrived", "go"} \X Everyone |-> Off]
    /\ team_arrived = 0 /\ new_state = [t \in Everyone |-> 0]
    /\ mx = [t \in Everyone |-> None]
    /\ data = [t \in Everyone |-> Alone(t)]
    /\ entered = [t \in Everyone |-> 0] /\ passed = [t \in Everyone |-> 0]

Go(t, s, u, q) == /\ stage' = [stage EXCEPT ![t] = s]
                  /\ sub' = [sub EXCEPT ![t] = u]
                  /\ todo' = [todo EXCEPT ![t] = q]
Stay(t, u) == sub' = [sub EXCEPT ![t] = u] /\ UNCHANGED <<stage, todo>>

\* The flag t waits for, and the value that ends the wait.
Waits(t) == stage[t] = "await" \/ (stage[t] = "gather" /\ todo[t] # <<>>)
WaitFlag(t) == IF stage[t] = "await" THEN <<"go", t>> ELSE <<"arrived", Head(todo[t])>>
Goal(t) == IF stage[t] = "await" THEN 1 ELSE new_state[t]
Released(t) == flag[WaitFlag(t)] = [n |-> Goal(t), sleep |-> FALSE]

\* The flag t releases, and the thread that may sleep on it.
Releases(t) == stage[t] = "notify" \/ (stage[t] = "wake" /\ todo[t] # <<>>)
OwnFlag(t) == IF stage[t] = "notify" THEN <<"arrived", t>> ELSE <<"go", Head(todo[t])>>
Waiter(t) == IF stage[t] = "notify" THEN Parent(team.gather, t) ELSE Head(todo[t])
---------------------------------------------------------------------------
(* The barrier.                                                            *)

EnterBarrier(t) ==
    /\ stage[t] = "out" /\ entered[t] < team.rounds
    /\ entered' = [entered EXCEPT ![t] = @ + 1]
    /\ new_state' = [new_state EXCEPT ![t] = team_arrived + 1]
    /\ data' = [data EXCEPT ![t] = Alone(t)]
    /\ Go(t, "gather", "spin", GatherOrder(team, t))
    /\ UNCHANGED <<team, flag, team_arrived, mx, passed>>

\* Mutant: the share of the child replaces the one of the parent.
Replaced(t, k) == data[k]

Reduced(t, k) == [u \in Everyone |-> data[t][u] + data[k][u]]

\* A child has arrived: its share is reduced.
Gathered(t) ==
    /\ stage[t] = "gather" /\ todo[t] # <<>> /\ sub[t] = "spin" /\ Released(t)
    /\ data' = [data EXCEPT ![t] = Reduced(t, Head(todo[t]))]
    /\ todo' = [todo EXCEPT ![t] = Tail(@)]
    /\ UNCHANGED <<team, stage, sub, flag, team_arrived, new_state, mx, entered, passed>>

\* The subtree of t is there: the master turns to the release, the others notify.
AllGathered(t) ==
    /\ stage[t] = "gather" /\ todo[t] = <<>>
    /\ IF t = 0 THEN Go(t, "wake", "add", WakeOrder(team, t)) /\ team_arrived' = new_state[t]
                ELSE Go(t, "notify", "add", <<>>) /\ UNCHANGED team_arrived
    /\ UNCHANGED <<team, flag, new_state, mx, data, entered, passed>>

Awake(t) ==
    /\ stage[t] = "await" /\ sub[t] = "spin" /\ Released(t)
    /\ Go(t, "reset", "spin", <<>>)
    /\ UNCHANGED <<team, flag, team_arrived, new_state, mx, data, entered, passed>>

\* Mutant: b_go keeps its value.
GoKept(t) == flag[<<"go", t>>]

GoCleared(t) == Off

\* b_go is reset by a plain store before the children are woken.
ResetGo(t) ==
    /\ stage[t] = "reset"
    /\ flag' = [flag EXCEPT ![<<"go", t>>] = GoCleared(t)]
    /\ Go(t, "wake", "add", WakeOrder(team, t))
    /\ UNCHANGED <<team, team_arrived, new_state, mx, data, entered, passed>>

LeaveBarrier(t) ==
    /\ stage[t] = "wake" /\ todo[t] = <<>>
    /\ passed' = [passed EXCEPT ![t] = @ + 1]
    /\ Go(t, "out", "spin", <<>>)
    /\ UNCHANGED <<team, flag, team_arrived, new_state, mx, data, entered>>
---------------------------------------------------------------------------
(* __kmp_wait_template and __kmp_suspend_template.                         *)

\* The blocktime is over while the flag is not released.
TimeOut(t) ==
    /\ Waits(t) /\ sub[t] = "spin" /\ t \in team.sleepers /\ ~Released(t)
    /\ Stay(t, "suspend")
    /\ UNCHANGED <<team, flag, team_arrived, new_state, mx, data, entered, passed>>

\* Mutant: the flag is not looked at again.
SleepAnyway(t) == "check"

\* What follows the sleep bit depends on the value the flag had before.
AfterBit(t) == IF Released(t) THEN "undo" ELSE "check"

SetSleeping(t) ==
    /\ sub[t] = "suspend" /\ mx[t] = None
    /\ mx' = [mx EXCEPT ![t] = t]
    /\ flag' = [flag EXCEPT ![WaitFlag(t)].sleep = TRUE]
    /\ Stay(t, AfterBit(t))
    /\ UNCHANGED <<team, team_arrived, new_state, data, entered, passed>>

FalseAlarm(t) ==
    /\ sub[t] = "undo"
    /\ flag' = [flag EXCEPT ![WaitFlag(t)].sleep = FALSE]
    /\ mx' = [mx EXCEPT ![t] = None]
    /\ Stay(t, "spin")
    /\ UNCHANGED <<team, team_arrived, new_state, data, entered, passed>>

\* Asleep while the sleep bit is set; the wait gives the mutex back.
CondWait(t) ==
    /\ sub[t] = "check"
    /\ mx' = [mx EXCEPT ![t] = None]
    /\ Stay(t, IF flag[WaitFlag(t)].sleep THEN "asleep" ELSE "spin")
    /\ UNCHANGED <<team, flag, team_arrived, new_state, data, entered, passed>>

\* A condition variable may wake a thread that nobody signalled.
Spurious(t) ==
    /\ sub[t] = "asleep"
    /\ Stay(t, "signalled")
    /\ UNCHANGED <<team, flag, team_arrived, new_state, mx, data, entered, passed>>

Relock(t) ==
    /\ sub[t] = "signalled" /\ mx[t] = None
    /\ mx' = [mx EXCEPT ![t] = t]
    /\ Stay(t, "check")
    /\ UNCHANGED <<team, flag, team_arrived, new_state, data, entered, passed>>
---------------------------------------------------------------------------
(* __kmp_release_template and __kmp_resume_template.                       *)

ReleaseDone(t) == IF stage[t] = "notify" THEN Go(t, "await", "spin", <<>>)
                                   ELSE Go(t, "wake", "add", Tail(todo[t]))

Bump(t) ==
    /\ Releases(t) /\ sub[t] = "add"
    /\ flag' = [flag EXCEPT ![OwnFlag(t)].n = @ + 1]
    /\ Stay(t, "look")
    /\ UNCHANGED <<team, team_arrived, new_state, mx, data, entered, passed>>

AnySleeping(t) == flag[OwnFlag(t)].sleep

Look(t) ==
    /\ sub[t] = "look"
    /\ IF AnySleeping(t) THEN Stay(t, "resume") ELSE ReleaseDone(t)
    /\ UNCHANGED <<team, flag, team_arrived, new_state, mx, data, entered, passed>>

\* Under the waiter's mutex: clear the bit, and signal if it was still set.
Resume(t) ==
    LET w == Waiter(t)
        after == IF stage[t] = "notify" THEN "spin" ELSE "add"
        slept == flag[OwnFlag(t)].sleep /\ sub[w] = "asleep"
    IN
    /\ sub[t] = "resume" /\ mx[w] = None
    /\ flag' = [flag EXCEPT ![OwnFlag(t)].sleep = FALSE]
    /\ sub' = [sub EXCEPT ![t] = after, ![w] = IF slept THEN "signalled" ELSE @]
    /\ stage' = [stage EXCEPT ![t] = IF @ = "notify" THEN "await" ELSE @]
    /\ todo' = [todo EXCEPT ![t] = IF stage[t] = "notify" THEN @ ELSE Tail(@)]
    /\ UNCHANGED <<team, team_arrived, new_state, mx, data, entered, passed>>
---------------------------------------------------------------------------
Step(t) == \/ EnterBarrier(t) \/ Gathered(t) \/ AllGathered(t) \/ Awake(t) \/ ResetGo(t)
           \/ LeaveBarrier(t) \/ SetSleeping(t) \/ FalseAlarm(t) \/ CondWait(t) \/ Relock(t)
           \/ Bump(t) \/ Look(t) \/ Resume(t)

\* All barriers are done.
Finish == (\A t \in Members : passed[t] = team.rounds) /\ UNCHANGED barrierVars

BarrierNext == Finish \/ \E t \in Members : Step(t) \/ TimeOut(t) \/ Spurious(t)

BarrierSpec == BarrierInit /\ [][BarrierNext]_barrierVars

\* Threads go on when they can, and a thread that asks again and again for a mutex
\* that is free again and again gets it.  Nothing says that a wait times out, or that
\* a sleeping thread wakes by itself.
BarrierFairSpec ==
    /\ BarrierSpec
    /\ \A t \in Everyone : WF_barrierVars(t \in Members /\ Step(t))
    /\ \A t \in Everyone : SF_barrierVars(t \in Members /\ Resume(t))
---------------------------------------------------------------------------
Meeting == INSTANCE BarrierPromise WITH members <- Members

\* No thread goes on before all have come, whatever trees connect them and
\* whoever sleeps.
ImplementsBarrier == Meeting!Spec

\* When the master releases the team, the share of every thread of this barrier is
\* in its reduction exactly once.
ReductionComplete ==
    stage[0] = "wake" => data[0] = [t \in Everyone |-> IF t \in Members THEN 1 ELSE 0]

\* Nobody sleeps for ever: all barriers are passed.
AllPass == <>(\A t \in Members : passed[t] = team.rounds)
===========================================================================
