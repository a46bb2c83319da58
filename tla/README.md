# LB4OMP: a verification project

LB4OMP is the LLVM OpenMP runtime extended with about twenty further loop
schedules, with timers and profiling, and with automatic selection of the
schedule. This directory holds TLA+ modules translated from its source, the
TLC instances that check them and theorems checked by TLAPS.

    tlc -workers 2 -config MCRing.cfg MCDispatchBuffer      # a run
    tlapm RingAndBarriers_proof.tla                         # the proofs

Line numbers are those of `src/runtime/src/kmp_dispatch.cpp` unless another
file is named.

## 1. The system

### 1.1 Components

| component | state | operations | with whom | hard behaviour |
|---|---|---|---|---|
| dispatch buffers (`__kmp_dispatch_init`, `_next`, 2899-3140, 6279-6550) | ring of `KMP_DISP_NUM_BUFFERS` shared slots per team: `buffer_index`, `num_done`, `iteration`, `initialized`, `mtx`, queue of FAC | begin a loop, take a chunk, count out, clear, release | every schedule; fork/join | threads several `nowait` loops apart share a slot; the set-up runs before the wait for the slot; the last one out clears without the mutex |
| taking chunks (`__kmp_dispatch_next_algorithm`, 3289-6225) | shared cursor and request counter of the slot; private descriptor of the thread | one case per schedule | dispatch buffers, chunk formulas | races on the cursor, the size computed from a value read before, private recomputation of batches, wrap around |
| chunk formulas (init_algorithm, 1239-2835) | private parameters | one block per schedule | taking chunks | rounding, division by zero, overflow |
| static stealing (1570-1615, 3401-3628) | a range per thread; per-thread lock for 8-byte loops | take from the own range, steal from another | dispatch buffers | owner and thief race; `nowait`: a victim that is in another loop, locks destroyed under a faster thread |
| adaptive schedules awf*, bold, af* (2286-2787, 4856-6089) | weights, speeds, means and variances, partly process-wide vectors | take a chunk, record its time | timers | rates published while others compute from them; NaN weights; sums that must balance |
| AUTO (90-107, 271-1108, 1471-1541) | process-wide flags, one record per loop | select, search, start and stop the timer | all schedules | process-wide spin flag, timer started before the flag, resets skipped |
| learning agents (`reinforcement-learning/`) | tables of values, current trial | search, reward, decay | AUTO | phases of trials, a chunk table shared by all loops |
| profiling and timing (184-268, 1111-1235, 6090-6174) | process-wide maps and vectors | read, record, print | FSC, TAP, FAC, BOLD | spin on a ready flag; statistics computed while others still record |
| ordered (`kmp_dispatch.h` 378-555, 3146-3283) | `ordered_iteration` of the slot, the thread's own bounds | deo, dxo, finish | dispatch buffers | an iteration not accounted for blocks everybody |
| hierarchical scheduling (`kmp_dispatch_hier.h`) | buffers per layer | init, next | dispatch buffers | built only on request |
| static schedules (`kmp_sched.cpp`) | none | bounds and stride of a thread | - | arithmetic |
| barriers (`kmp_barrier.cpp`) | arrived and go flags per thread | gather, release | waiting, tasking | values of flags over generations; four trees |
| waiting (`kmp_wait_release.h`, `z_Linux_util.cpp`) | sleep bit, condition variable | wait, suspend, resume | barriers, tasking | lost wake-ups |
| locks (`kmp_lock.cpp`) | tickets, queues, futex words, polling areas | acquire, release, test, nested | user code, `critical` | hand-over, queue manipulation without a lock, areas freed while polled |
| tasking (`kmp_tasking.cpp`) | deques, task teams, counters of children and references | push, take, steal, finish, taskwait, groups | barriers, dependences | last child racing the parent, two task teams alternating, full deques |
| dependences (`kmp_taskdeps.cpp`, `.h`) | hash of addresses, nodes with counts | check, release | tasking | a predecessor finishing while an edge to it is added |
| fork and join (`kmp_runtime.cpp`) | teams, hot team, thread pool | fork, join, resize | all | reuse of a team's arrays |
| doacross, entry points (`kmp_csupport.cpp`) | flags per iteration in a ring | init, wait, post, fini | dispatch buffers | second ring with its own numbering |
| cancellation (`kmp_cancel.cpp`) | request per team | cancel, cancellation point | barriers, dispatch buffers | loop left without counting out |
| offloading (`libomptarget/src`) | maps of host to device memory with counts | map, unmap, launch | plugins | counts under concurrent regions |

Settings, affinity, allocation, atomics, threadprivate, the tool interface,
GNU entry points, the legacy task queues, message catalogues and third-party
code are sequential, generated or input and output; `PROJECT.json` lists each
with its reason.

### 1.2 How they interact

A compiled loop calls `__kmpc_dispatch_init_*` once per thread and then
`__kmpc_dispatch_next_*` until it returns 0. `init` numbers the loop
(`th_disp_index`), picks slot `number % KMP_DISP_NUM_BUFFERS` of the team's ring,
lets the schedule compute its parameters (init_algorithm; AUTO may replace the
schedule here) and waits until the slot's `buffer_index` is the loop's number.
`next` runs one case of next_algorithm on the slot. A thread that gets status 0
increments `num_done`; the one that completes the team clears the slot and adds
the size of the ring to `buffer_index`. With `nowait` a fast thread is in the
next loops meanwhile. Nothing but the fork of the next parallel region resets
the numbers.

Threads meet at barriers, where they also execute what tasks are left; a thread
that waits (for a flag, a counter, its children) looks for tasks, then sleeps.
Tasks go through the deque of the thread that spawns or releases them, and are
stolen from its other end. A task with dependences is queued by whoever
completes the last of its predecessors. Locks serve user code, `critical`, and
the runtime itself (the deques, the nodes of dependences, 8-byte stealing).

### 1.3 What makes a component correct

* the dispatcher: every iteration of every loop is executed exactly once; a
  thread leaves a loop only when nothing is left to hand out; one chunk is the
  last; every thread gets through. This is `WorksharingLoops`, and it is
  what every schedule, old or new, owes the program;
* the ring: a slot serves one loop at a time, whoever clears it is alone;
* adaptive schedules: besides the promise, what they share of their
  measurements loses nothing and equal threads get equal chunks;
* AUTO: all threads of one execution of a loop use one schedule, the one that
  the search has selected from what the last execution measured;
* locks: one holder at a time, in the order of arrival where the lock is fair;
* barriers and waiting: nobody passes early, nobody sleeps for ever, the
  reduction has each share once;
* tasking: every task runs once, after its predecessors, before the taskwait,
  group and barrier that wait for it; no task is freed while it is needed;
* ordered: the ordered regions run in iteration order and none waits for ever.

`PROJECT.json` lists under `hazards` the places where the code could go wrong in
a way a test would hardly reach.

## 2. The modules

    WorksharingLoops            what the dispatcher promises
      ^ refined by     ^ refined by              ^ refined by
    DispatchBuffer   SelfScheduling <- sizes - ChunkSizes     AdaptiveLoops
      ^                 ^     ^                                 ^
    MC, (1)           _proof  ContiguousChunks                _proof, MC
                        ^
                      OrderedLoops <- MCSelfScheduling <- MCContiguous
                      (proofs in SelfScheduling_proof)

    StaticSteal (_proof, MC)

    AutoSearch, Agents <- AutoTuning <- refined by - AutoSelect (MC)
                            ^                            ^
                          MCAutoTuning <- AutoTuning_proof
                      (AutoTuning and AutoSelect over AutoRecords)

    LockPromise    <- refined by - Locks     (MC, Locks_proof)
    BarrierPromise <- refined by - Barriers  (MC, (1))
    TaskPromise    <- refined by - Tasking   (MC, Tasking_proof <- TaskOrder_proof)
                                             both over TaskPrograms; Tasking uses TaskDeps

    (1) the proofs of both are in RingAndBarriers_proof

`DispatchBuffer` models many loops and two schedules; `SelfScheduling` and
`AdaptiveLoops` one loop and all the schedules. They meet in the abstract module:
the first shows that a slot behaves, loop after loop, as if it were alone, the
others what threads do in one loop. `OrderedLoops` puts the bodies of the chunks
into `SelfScheduling`'s loop, for the clause `ordered`. `StaticSteal` models many loops of the
schedule that hands out nothing from the slot: its threads keep their own ranges
and use the ring only to meet and to part. Each of the other components has an
abstract module that says what its callers rely on. The names of actions and
state are those of the code.

### 2.1 WorksharingLoops, DispatchBuffer

The promise of `__kmpc_dispatch_next` (its comment, 6793-6806): a block of
iterations nobody has (`HandOut`), or 0 when nothing is left (`Leave`), with
threads free to be in different loops.

| model | code |
|---|---|
| `Enter` | `init`: `th_disp_index++`, choice of slot, 2998-3006; the barrier of a loop without `nowait` is its guard |
| `FacTest`, `FacSetup` | FAC's critical section in init_algorithm, 2052-2060, before the wait |
| `BufferFree` | the spin `buffer_index == my_buffer_index`, 3038 |
| `NextZeroTrip`, `NextDynamic`, `NextFac` | next_algorithm, 3323, 3697, 4155 |
| `CountOut`, `ClearCounters`, `ClearFlag`, `Release` | `next` with status 0, 6444-6504, in the order of the stores |
| `NewRegion` | the fork of the next region, `kmp_runtime.cpp` 7279-7294 |

Two schedules stand for the two ways of using a slot: "dynamic" needs no set-up,
"fac" is set up by the first thread under the slot's mutex and keeps a queue of
equal chunks. `mtx` is held across two steps only in the set-up; the other
critical sections are one step because everything they touch is touched only
under the mutex, except by the thread that clears, and `ClearAlone` says that it
is alone. The stores to `num_done`, `iteration` and `chunk_size` are one step:
only threads in the slot's loop read them, and they are gone. The FAC set-up
also writes `counter` and `batch`, which FAC only counts for its debug output.
`given` is a history variable.

FAC's set-up is done, or skipped, before the wait for the slot (3011, 3038): with
`nowait` a thread may find `initialized` still up from the loop that occupies the
slot, skip the set-up, and take its chunks after the flag was cleared. Nothing is lost
or handed out twice (`RingImplementsPromise` covers it), but the first chunk sizes are
those left by the earlier loop.

### 2.2 SelfScheduling, ChunkSizes, ContiguousChunks

One loop; `schedule`, `tc` and `chunk` are what init_algorithm leaves in the
private descriptor (`Descriptors`, with guided turned into dynamic for short
loops). Most schedules differ in a size only, so the ways of taking a chunk are
actions and the sizes a parameter:

| model | code |
|---|---|
| `FetchIndex` | dynamic 3697, FSC 4029, TSS 3981, analytical guided 3885, profiling 6090: number the chunk, derive its bounds |
| `TakeNumber` | the increment of `counter` before the batch is computed (4237) |
| `ReadCursor`, `Cas`, `Retry` | the loops around compare-and-swap: guided 3741, simd 3810, TAP 4100, FACa 4227, FAC2 4323, FAC2a 4389, WF 4468 |
| `Tail` | guided below `parm2` iterations: fetch-and-add (3758, 3832) |
| `AddChunk` | FAC2b 4550, RND 4589, VISS 4627, FISS 4671, mFSC 4710, TFSS 4745, PLS 4804 |
| `StaticChunked`, `StaticBalanced` | 3654 and 3631 with 1616 |

`ChunkSizes` holds the formulas, exact where the code uses rational floating
point (the instances are far below the precision of a double), with parameters
where it uses roots, logarithms, profiled times or random numbers. Integer
overflow is kept where it happens (`Width` bits; a conversion that does not fit
gives the least integer, as on x86). `ContiguousChunks` states what index
schedules need of their formulas: chunk k ends where chunk k+1 begins, and no
number is served after the end; that guided's compare-and-swap leaves something; and
that FACa stops a thread only where the requests before its own cover the loop.

`OrderedLoops` extends it. A chunk just taken is executed iteration by
iteration; each may have an ordered region or not (`SkipRegion` is the user's code).

| model | code |
|---|---|
| `Take` | next_algorithm, and the chunk's bounds noted for a loop with the clause, e.g. 3732-3735 |
| `Deo`, `Dxo` | entering and leaving a region, `kmp_dispatch.h` 421-554 |
| `Finish` | `__kmp_dispatch_finish`, 3145-3204: called after each iteration by the `__kmpc_dispatch_fini` entry points |
| `NextOfChunk`, `FinishChunk` | GNU code calls nothing between iterations, and `__kmp_dispatch_finish_chunk`, 3208-3284, with the next request |

`interface` says which of the two the loop's compiler uses; it is chosen in
`OrderedInit`, and "unordered" leaves `SelfScheduling` as it is. `settled` is history:
the iterations whose region is over or will not come.

### 2.3 StaticSteal

A thread's chunks are the range `count .. ub - 1` of its private descriptor for
the slot of the loop (`range[t][slot]`); chunks are numbered from 0, the
conversion to iterations is left out.

| model | code |
|---|---|
| `Enter` | the share and `parm4`, 1570-1605; the lock of an 8-byte loop, 1600-1603; loop number and slot, 2998-3006 |
| `BufferFree` | the wait for the slot and `th_dispatch_pr_current`, 3031-3052 |
| `Ready` | `static_steal_counter`, 3112-3126, incremented only when the clause itself names the schedule |
| `TakeOwn` | the compare-and-swap on `(count, ub)`, 3493-3520; with the lock, 3413-3424 |
| `TestOwn` | the test of an 8-byte range before the lock |
| `Look` | one turn of the search for a victim, 3425-3453 and 3522-3553 |
| `Peek`, `Steal` | the test before the lock, 3453-3456; the quarter taken from the end, 3458-3483 and 3554-3578 |
| `Install` | the stolen range stored in the own descriptor, 3484-3490 and 3576-3585 |
| `CountOut`, `DestroyLocks`, `Release`, `Detach` | `next` with status 0, 6444-6521 |

A thief reads the victim's pointer, tests it, and takes from what it pointed to
in a later step (`search[t].slot`); `Detach` comes after the thread was counted,
so a thief may still see the descriptor of a thread that is out. A range of a
4-byte loop is one 64-bit word, which is why reading and replacing it is one
step; the compare-and-swap that fails and reads again is a stutter. Under the
lock of an 8-byte range nothing else touches it except the tests before the lock,
which have steps of their own. The store of `Install` is under the lock in an
8-byte loop but a plain store (an exchange on 32-bit x86) in a 4-byte one.

### 2.4 AdaptiveLoops

The eight schedules that measure the loop while it runs, for a loop that the team
executes `Steps` times, with its barrier.

| model | code |
|---|---|
| `AwfEnter`, `AwfRecord`, `AwfOpen`, `AwfWeigh` | the record of AWF in init_algorithm, 2303-2366: the first thread makes or renews it, the others wait, then all weigh their measurements |
| `Number`, `Share`, `Gather` | awf_b to awf_e, af: the request is numbered, the own rate published, the others' rates read one by one |
| `BoldSlow`, `BoldDone`, `BoldSpeed` | the shared sums of BOLD, moved by fetch-and-add before and after the chunk is taken |
| `ReadCursor`, `Take` | the loops around compare-and-swap; `Computed` gives the size |
| `SubChunk` | AF hands out a chunk in pieces and measures each |
| `AwfAccount`, `AwfReset`, `AwfUpdate` | the last thread out of an AWF loop stores what was measured and lowers the flag |

Times are inputs: a rate or a weight is any member of a small set, read where the
code reads the clock. Weights count in halves, and 0 stands for the NaN of a
thread that measured nothing (the code tests for it). The first chunk of AF is
`FirstChunk` instead of 100, so that a loop of few iterations gets past it.

### 2.5 AutoSearch, Agents, AutoRecords, AutoTuning, AutoSelect

`AutoSearch` keeps the code's record of a loop (`LoopData`) and the four
searches; `Agents` the phases of the learning policies; `AutoRecords` the map of
records the whole process shares. `AutoTuning` puts them in order: `Begin(p)` selects
a technique for the place p, `End(p)` stores what the execution measured. It is what
`AutoSelect` is shown to implement: the same search, done by a team with process-wide
flags (`AUTO_FLAG`, `autoEnter`, `autoWait`, `autoLoopName`, `autoThreadCount`) around
it.

| model | code |
|---|---|
| `EnterTimer`, `StartTimer`, `SetFlag` | init_auto_loop_timer 1004-1031, the flag 1366-1376 |
| `EnterPlain`, `EnterAuto`, `Choose`, `Admit` | the first thread selects, 1472-1512; `Choose` is `Begin` |
| `Wait`, `Adopt` | the others spin on `autoWait` and copy the choice, 1513-1544 |
| `AddTime`, `CountTime`, `Reset`, `Store` | end_auto_loop_timer, 1034-1107; `Store` is `End` |
| `Exhaustive`, `Binary`, `RandomSearch`, `Fuzzy` | 309-358, 367-428, 430-468, 723-900 |
| `CreateAgent`, `AskAgent` | `kmp_agent_provider.cpp` and `agents/kmp_agent.h` |

Times are whole milliseconds, imbalances whole percents. Three of the fuzzy membership
functions return nothing at the end of an interval (`DTparISNoChange` for a difference of
exactly 10, `TparISMedium` for 10 seconds, `LBISModerate` for 5 percent): what comes out
there is a parameter `hole` of the rules, 0 or 1000. The learned values are
not modelled: where the code takes the best action of a table, any action may
come out.

### 2.6 Locks, LockPromise

The five kinds of user lock, one chosen in `Init`; every load, store and
compare-and-swap of a shared word is a step. `CallSet`, `CallTest`, `NoteOwner`,
`Again` and `CallUnset` are the entry points with their owner, depth and checks;
the rest is one group of actions per kind, named after the kind. `line` is
history: who has joined, at the instruction after which nobody overtakes. A
futex is a set of sleepers in the kernel, woken one at a time or by a signal.
The polling areas of a DRDPA lock are a sequence of arrays of which some have
been freed; reading outside the live ones may return anything.

### 2.7 Barriers, BarrierPromise

Gather and release along the four trees (`Parent`, `Kids`), each with its own
way to reset and raise flags; a flag is its count and its sleep bit.
`EnterBarrier`, `Gathered`, `AllGathered`, `Awake`, `ResetGo`, `LeaveBarrier` are
the walk of a thread through both phases. `TimeOut`, `SetSleeping`, `FalseAlarm`,
`CondWait`, `Spurious`, `Relock` are the suspension of a waiting thread
(`z_Linux_util.cpp` 1428-1527), `Look` and `Resume` the thread that wakes it:
the releaser adds to the flag first and looks at the sleep bit of what it
replaced, the sleeper sets the bit first and looks at the count of what it replaced.
`TreeAssumption` says what the four constructions have to be: the list of children a
thread handles names, each once, the threads that take it for their parent, and a
parent's number is smaller. TLC evaluates it on the teams of the run, and `TreesFit`
compares children and parents in teams of 2 to 8 threads.

### 2.8 TaskPrograms, TaskPromise, TaskDeps, Tasking

A program (`TaskPrograms`) is a list of operations per task: spawn, taskwait,
open and end a group, barrier. `TaskPromise` says in which order tasks may start
and waits may end; `Tasking` executes the same programs with the runtime's data.
`TaskDeps` is the pure part of dependences: what an address remembers and behind
which nodes a new task is linked. A task of the model is one instance: it is spawned
at one place of the program, a group is opened at one place, and groups are blocks
(`ProgramAssumption`, from the directives the calls are compiled from). Tasks are
numbered after the task that spawns them, which the order of creation always allows.

| model | code |
|---|---|
| `Alloc`, `Depend`, `Link`, `Settle`, `Push` | spawning: the counters, one dependence after another, the nodes to link behind, the node's own count, the deque (full: executed at once, or the deque doubled) |
| `Own`, `Rob`, `RobNothing`, `Robbed`, `Spent`, `GoesOn` | `__kmp_execute_tasks_template`: the own deque, a victim, the counting of threads with nothing left |
| `Descends`, `Allowed`, `Refused` | `__kmp_task_is_allowed`: the task scheduling constraint on what a waiting task may execute, and the locks of mutexinoutset |
| `Lock`, `Unlock` | those locks are taken with the task, by its thread or a thief, and released when it ends |
| `TaskWait`, `EndGroup` | the two waits |
| `Finish`, `LeaveGroup`, `FreeHash`, `ReleaseNode`, `Notify`, `FreeAncestors` | the end of a task, step by step (`__kmp_task_finish`; `__kmp_release_deps` frees the table, then marks the node, then notifies) |
| `Arrive`, `Gathered`, `Drained`, `Sync`, `ReleaseAll`, `Leave` | a barrier with the two task teams of alternating parity |

The lock of an address belongs to the table of the task that spawned those who ask for it
(`mtx[p].by[a]`), and is freed with the table when that task ends, whether its children
hold it or not (`FreeHash`, `mtx[p].live`). What the test of a freed lock says depends on
what became of the memory: the model lets it say either, `Allowed` or `Refused`. What
else a use of freed memory may do (a release of the freed lock writes to it) is not
modelled. The table of an implicit task is emptied only when its region is over
(`kmp_tasking.cpp` 777-793, 1104-1120), when nobody uses it, which no action shows.

## 3. The runs

| run | instance | shows |
|---|---|---|
| `ring` | 3 threads, 2 slots, 4 nowait loops of both kinds, 2 regions | `OneLoopPerSlot`, `ClearAlone`, `AllFinish`, the refinement `ImplementsPromise` |
| `self` | 2 threads, 0..12 iterations, chunks 1..3, 20 schedules, with `ordered` 0..6 iterations and both interfaces | `CursorExact`, `FlagIfSet`, `InOrder`, `AllLeave` (which includes that no region waits for ever), the refinement `KeepsPromise` |
| `steal` | 3 threads, loops of 3 and 4 chunks, one 8-byte, one 4-byte, in one slot, barriers | `OnePlace`, `StoreAlone`, `NothingLost`, `AllFinish` |
| `adaptive` | 2 threads, the loop twice, 1, 5 or 7 iterations, 8 schedules | `KeepsPromise`, `WorkConserved`, `EqualRatesEqualChunks`, `SumsBalance`, `SubChunksFit` |
| `tuning` | one loop again and again, portfolio of 4, all searches and two policies, any measurement from the sets | `EachTriedOnce`, `ExploresEachOnce`, `SearchEnds` |
| `auto` | 2 threads, 5 loops of 2 places, one of them serialized, 2 searches, barriers | `OwnSchedule`, `AllFinish`, the refinement `ImplementsTuning` |
| `locks` | 3 threads, one comes twice, 5 kinds, simple and nestable, with and without checks | `NeverMistaken`, `PollsInArea`, `AllServed`, the refinement `ImplementsLock` |
| `barrier` | teams of 3 to 5, six pairs of trees, sleepers, two rounds | `ReductionComplete`, `AllPass`, the refinement `ImplementsBarrier` |
| `tasking` | thirteen programs for 2 or 3 threads | `NoUseAfterFree`, `AllEnd`, the refinement `ImplementsTasks` |

Where a module states a type invariant its run checks it. Three runs end in a
violation, each a disagreement with a comment of the code:

| run | finding |
|---|---|
| `self_viss` | an integer division makes the chunk zero: loops shorter than the square of the team lose all iterations (2217) |
| `locks_area` | `omp_test_lock` of a DRDPA lock reads the pointer before the mask, the opposite of what the comment it refers to asks for (`kmp_lock.cpp` 2282, 2416): it may index the old area with the new mask, or an area that was freed |
| `tasking_mutex` | two tasks spawned by a task, with the same `mutexinoutset` address: one is stolen and runs, holding the lock; the task that spawned them ends, and `__kmp_release_deps` frees its table and the lock with it (`kmp_taskdeps.h` 57-101, called at `kmp_tasking.cpp` 892); the other one tests the freed lock (285) and starts, so that two tasks run at once of which only one may (`HolderAlone`), although "negative num_locks means all locks acquired successfully" (292). Children of an implicit task, or of one that waits for them before it ends, are safe; that is as far as `TasksInOrder` and `TasksStayInOrder` go |

### Bounds

*ring.* Two slots and four loops make each slot be used three times counting the
next region, so that a thread can be in a slot's loop while another is still in
the one before; the loops mix kinds and contain an empty one. Two regions are
needed for what the fork does not reset, a third thread where two may be ahead
of one.

*self.* Twelve iterations pass through all the phases: several batches, the
switch of guided, TSS with a decrement, chunks cut at the end; fewer than the
team and zero are included. Loops with the clause have at most six (`OrderedTrip`):
three chunks of two iterations, or one longer than the other, with every choice of
regions, so that a counter may pass from chunk to chunk and lag behind in one.
`MaxNumber` bounds the shared counters above what a
run can reach: a thread stops at its first refusal. `Width`, 6 bits, plays the 32
bits of the loop variable; no run reaches a product that wraps around. (With 4
bits, three threads and chunks of 6 `BlockAssumption` fails: chunk numbers that
wrap around come back into the loop.) More threads are covered by the theorems.

*steal.* Three threads are the fewest with two thieves of one victim, or a thief
that is stolen from; 4 chunks give them unequal shares and one share of two
chunks, the shortest that can be stolen from. The thefts of the run are of single
chunks; ranges from which a quarter is taken are covered by the theorems. The loop
before, in the same slot, makes counters and pointers differ from the initial ones.

*adaptive.* Seven iterations get two threads past the first chunk and into the
rates; two executions let AWF use what the first one recorded.

*tuning, auto.* A portfolio of four (three) techniques exercises first, last and
middle; two durations let a later technique be better or worse than the earlier
ones, and `Percents` has the imbalances that come of them (TLC evaluates
`ImplementsTuning` with these). The places of `auto` alternate, so that flags meet the
record of another loop.

*locks.* Three threads make a line with a middle, one that comes twice meets its
own leftovers. The run of the DRDPA lock keeps `Oversubscribed` at `{FALSE}`: the
area only grows; the order of reads in `omp_test_lock` first matters with four
threads, which is `locks_area`.

*barrier.* Five threads fill no tree of branching two or four. The asleep are few
in each team because their interleavings multiply; each tree has a team in which
some thread sleeps. That parents and children agree (`TreesFit`) is evaluated for
all teams up to eight.

*tasking.* The deque holds two tasks instead of 256 (`DequeSize`), so that it is
full and grows. The programs are chosen one per hazard and named for it in
`MCTasking`: a grandchild that outlives a taskwait, a group over a child's child,
a full deque of released successors, mutual exclusion, a region reused by the
task team of the region before last, a thief between two barriers, mutual exclusion of
two tasks whose spawner waits for them while a third one names the address in another
table, children ordered by a table that is freed before they run. `tasking_mutex` has
a program of its own, on which mutual exclusion fails. The dependence table itself is checked
against the order of conflicting accesses for all lists of five tasks on an
address and of three on two (`DependencesComplete`).

### Fairness

Each `FairSpec` asks weak fairness of each thread's next step: an OpenMP thread
that is not blocked keeps running, and the spin of `__kmp_wait_yield` yields.
The join and the next fork happen when all threads have arrived. Beyond that:

* the `std::mutex` of FAC is not fair, but each critical section uses up
  iterations, so nobody is passed over for ever; compare-and-swap loops end because a
  failed one means that another thread moved the cursor;
* test-and-set and futex locks promise no order; in `locks` they serve everybody
  because each thread comes a bounded number of times;
* `Barriers` asks strong fairness of `Resume`, which needs the sleeper's mutex
  that the sleeper takes again and again after spurious wake-ups. Nothing says
  that a wait times out or that a sleeper wakes by itself;
* `Tasking` asks strong fairness of a theft per thief and victim: the random
  victim (`__kmp_get_random`) is each of the team again and again, and the deque's lock is a
  ticket lock;
* `AdaptiveLoops` and the searches are checked for safety; what ends them is
  that each step uses up iterations or the portfolio. `SearchEnds`, of the
  exhaustive and the binary search, needs that the program executes its loop
  again and again (`TriedSpec`).

## 4. The proofs

For any number of threads, slots, loops, trip counts, kinds of loop, chunk
formulas, measurements and rounds within the `ASSUME`s of the module:

| theorem | what |
|---|---|
| `RingTyped` | `TypeOK` of the ring |
| `RingAtMostOnce`, `RingLeftComplete` | exactly once: never twice, and complete when a thread leaves |
| `RingOneLoopPerSlot`, `RingClearAlone` | a slot serves one loop; the clearing thread is alone |
| `RingCounterForward` | an action property: a cursor goes back only when all have left |
| `RingImplementsPromise` | the ring refines `WorksharingLoops` |
| `SelfCursorExact` | below the shared cursor everything was handed out once, above nothing |
| `SelfAtMostOnce`, `SelfAllHandedOut` | no iteration is handed out twice under any schedule, the static ones included; none is lost under any but VISS |
| `SelfTypes` | `TypeOK`: the cursor passes the end by at most one number or chunk of each thread |
| `SelfKeepsPromise` | each schedule with a shared cursor, but FACa and VISS, refines `WorksharingLoops` |
| `SelfLastFlag` | exactly one chunk is called the last, the one that ends the loop, under each schedule that sets the flag (`FlagIfSet`) |
| `RegionsInOrder` | ordered regions one at a time and in the order of the loop (`InOrder`), every schedule |
| `AdaptiveKeepsPromise` | each adaptive schedule refines `WorksharingLoops` |
| `AdaptiveSubChunksFit` | what a thread has left of an AF or AF_a chunk stays between nothing and the chunk (`SubChunksFit`) |
| `AdaptiveWorkConserved` | between two executions AWF's record has every iteration once, weighted by its execution (`WorkConserved`) |
| `AdaptiveSumsBalance` | BOLD's sums cover what is not taken, and nothing stays behind (`SumsBalance`) |
| `AdaptiveEqualRates` | threads that know equal rates take unweighted chunks (`EqualRatesEqualChunks`) |
| `AdaptiveTypes` | `TypeOK` of the adaptive schedules |
| `AutoOwnSchedule` | under AUTO each thread uses the technique selected for its own loop (`OwnSchedule`), when the program is `Regular` |
| `AutoImplementsTuning` | AUTO's team does, loop after loop, the search that one thread would do (`ImplementsTuning`), when the program is `Regular`, the trip counts are `SameTrips`, and `Percents` has each imbalance (`Measurable`) |
| `ExhaustiveTriesEachOnce` | the exhaustive search selects no technique twice in a round (`EachTriedOnce`) |
| `AgentsExploreEachOnce` | explore first tries each action in each state once and counts right (`ExploresEachOnce`), for any number of states |
| `TuningTypes` | `TypeOK` of the searches, the fuzzy one and the agents included |
| `TypeCorrect` | `TypeOK` of static stealing |
| `StoreIsSafe` | a thief's own range is empty until it stores the stolen one (`StoreAlone`), barriers or not |
| `EachInOnePlace` | with barriers, a chunk is with exactly one thread until executed (`OnePlace`) |
| `ExecutedOnceOnly`, `ExecutedAll` | with barriers, each chunk is executed exactly once |
| `BarrierRefinement` | nobody leaves a barrier before all have come (`ImplementsBarrier`), any team and trees |
| `BarrierReduction` | the reduction has each thread's share exactly once when the master releases the team (`ReductionComplete`) |
| `NothingFreedInUse` | no task is freed while it runs, is queued, has a child, or is about to be reached from one that ends (`NoUseAfterFree`), any team and program |
| `TasksInOrder` | the runtime creates, starts, passes and ends tasks as `TaskPromise` allows, but for the barriers, which `Skips` passes unconditionally, and for tasks that exclude each other, which do as long as the task that spawned them has not ended (`Starts`); any team and program |
| `TasksStayInOrder` | the siblings a begun task depends on are over, and while the task that spawned them runs no two tasks run that exclude each other |
| `LockExcludes` | locks have one holder at a time (DRDPA locks where `OnlyGrows`, here and in the next four) |
| `LockNeverMistaken` | reading the owner field without the lock misleads nobody (`NeverMistaken`) |
| `PollsStayInArea` | the threads that wait for a DRDPA lock poll words that are there (`PollsInArea`) while the area is replaced and the last one freed |
| `LockRefinement` | locks keep the promise of a lock (`ImplementsLock`): ticket, queuing and DRDPA locks serve the threads in the order in which they have joined, and the test overtakes nobody |
| `LockTypes` | `TypeOK`: the nesting within its bounds, the sleepers' bit apart from the owner, the polled areas and the queue well formed |

**The ring.** `OneLoopPerSlot` alone is not inductive: that the slot cannot be
renumbered under a thread follows only from the count `num_done` being exactly
the number of threads that have counted themselves out of that slot's loop
(`Counts`), from their all having done so when one clears (`Clearing`) and from
there always being one to do it (`SomeoneClears`); `NotPassed` and `NotAhead` tie
the slots' numbers to the threads' positions across loops that share no slot.
`Handed` then says what each loop has handed out in terms of its slot's cursor,
and the properties are corollaries. The steps of chunk taking are abstracted to
`NextMove` (the cursor moves forward over what is handed out), so a further
schedule needs one lemma. The arithmetic of the ring (two loops in one slot are
`NumBuffers` apart) is in `SlotFacts`.

**Self-scheduling.** `CursorExact` is inductive together with `Typed`. Its assumptions
are `SizeAssumption` (a size is a natural number, at most the loop and the chunk
argument together, more under FISS, and not zero except in VISS: what the minimum chunk
is for) and, of `ContiguousChunks`, `BlockAssumption`, `GuidedAssumption` (used for the
flag of the last chunk only) and `FacaAssumption` (for FACa's end only); TLC evaluates
them on the real formulas in every run that has them. The refinement reads `CursorExact`
in the state after a step: that no iteration has been handed out twice there, and that
all have when a thread stops, is what the promise asks of the state before. FACa and
VISS may stop a thread while others still take chunks, which the promise does not allow
(VISS loses iterations, a finding). `LastExact` ties the flag to the cursor: exactly the
chunk that moves it past the end is called the last. Guided sets the flag in its second
phase alone, so it also says that no pending compare-and-swap of the first would get
there.

FACa stops a thread when its own request, numbered long before, comes after a batch that
covers the loop, while the requests before it may not have moved the cursor yet. `FacaInv`
counts what must have been taken: the requests that no thread has in hand (`Settled`)
have moved the cursor by at least what they plan (`Planned`), or it is at the end; and a
request belongs to one thread (`Apart`). When all threads have left, every request is settled.

The static schedules share no cursor. `StaticInv` says that what has been handed out is
what the threads have taken of their own (`Taken`), and that who has left has nothing of
its own ahead; `OwnedOnce` is the arithmetic: the turns of `StaticChunked` and the shares of
`StaticBalanced` cover the loop and do not overlap.

A thread that finds the cursor past the end leaves, so the threads that have left bound
how far past it can be (`OverrunInv`, which counts them in `Gone`).

**Ordered regions.** Each step of `OrderedLoops` is a step of `SelfScheduling` or leaves
its variables alone, so no iteration is handed out twice under any schedule, which is
all that the proof needs of the dispatcher. `InOrder` needs to know what
`ordered_iteration` stands for, which no single step says: a thread waits only for its
chunk to be reached, not for its iteration. `OrderedInv` says that chunks in hand are
disjoint (`Disjoint`, `InHand`), that whatever was handed out and not counted yet is in
one of them (`Pending`), and that the counter is before a chunk nobody has counted from,
as many iterations into a chunk as its thread has counted, or past a chunk counted
completely (`CounterRight`). So the counter can be inside one chunk only, its thread
alone may be in a region, and all before it is settled (`SettledRight`).

**Adaptive schedules.** The size of a chunk depends on what others have
published, so the invariant first has to show that a size is positive: a thread
that computes one from rates has gathered its own (`Measured`, and `Sized` at the
compare-and-swap), so that no division by a zero sum happens and the result is
at least the minimum. `Counted` then ties the history to the cursor of the
current execution, `Exhausted` says that who has left saw it past the end, and
`InStep` that no thread is in another execution than its team. The refinement
follows step by step.
`SumsBalance` and `WorkConserved` are about sums over all threads that several
threads change at different moments. Each becomes exact once it says what the threads
still owe: a chunk taken and not reported (`Undone`), a speed added and not taken
back (`Running`); for AWF, the work of this execution not weighted yet (`Recorded`).
AWF also needs its phases (`PhaseInv`): one thread writes the record before any other
works, the count of those that have left finds the last one, who is then alone.
What the library's folds compute is proved, not assumed: a table of the sums over all
subsets exists (`TableExists`), a sum follows the change of one term (`SumShift`),
covers each term (`SumCovers`) and is a multiple when all are equal (`SumConstant`); and
each rate divides the product of them all (`Divides`). Each is an induction on
finite sets, done on a smallest counterexample (`Smallest`). The rates are a finite set
(`DataAssumption`), or they would have no product.
`SubChunksFit` needs, besides, that a sub-chunk is cut from what is left before it is
taken, and that the last one takes all of it (`Fits`, and `Asked` while a
compare-and-swap for the next chunk is pending).

**AUTO.** The flags are reset by the last thread of a loop while the first may be
on its way to the next, so `AutoOwnSchedule` needs to know who is `Ahead`: threads
that are through with an AUTO loop others are still in, which, with a barrier at its
end, are never two loops on (`Together`). `SelectInv` then says that the flag is up
exactly for the loop the others are in (`Raised`), that one thread selects before any
other is let in (`OneSelects`), that the name is that loop's from then on
(`Named`), and that the counter of times counts who is through, so that the thread
that resets the flags is the last (`LastStores`). `Regular` is the theorem's
hypothesis: a barrier ends each loop, and loops under AUTO have iterations and are
executed by the whole team. The code gives no reason to expect the property without it:
an AUTO loop that has no iterations (3325 returns before the bookkeeping) or is
serialized is not measured and leaves the flags as they are, so that the next loop
runs under a technique chosen for another, and `nowait` mixes the flags of two loops
(hazards).
`AutoImplementsTuning` maps a loop that is selected and not measured yet (`Busy`) to the
one in which the search of a single thread is. `SelectInv` says when that is; `MeasureInv`
adds what the records need: typed, with no more trials than loops begun (the bound of the
search), and a stored time and imbalance that are measured ones. Each step of a thread
then selects, stores, or changes nothing the search sees. A place needs one trip count
(`SameTrips`), because the search has a chunk size for it; `Measurable` says only that the
constant `Percents` is not too small, as it is when it is the integers. The operators of
the instance are shown to be those of the module one by one (`SameExhaustive`, ...).
The exhaustive search begins where the last one ended, anywhere in the portfolio.
`TurnInv` says that the techniques tried are those `Behind` the present one, going
round, as many as were counted; the next is then a new one until the count is the
size of the portfolio.

**The searches.** Explore first takes in each state the first action not tried and goes
to the state of that name. `OnWalk` says where that leads: from a hub j to each later
state and back (`AtHub`, `AtSpoke`), until the last state (`AtLast`), whose first
untried action leads to a full state, from which a jump of j + 1 lands on the next hub.
`Been` is the table of what has been tried at each of these points, `Walks` one step
along them. `Exact` adds that as many pairs are counted as have been visited, so that,
by cardinality, exploration ends when and only when no pair is left (`Unfinished`): a
second choice always finds an action (`SecondWithin`) and no pair is counted twice.
`AgentsExploreEachOnce` is its consequence. `TuningTypes` also has to show that no
search leaves the portfolio: fuzzy memberships are not negative, whatever was measured
(`DeltaWeights`), so that the total of the areas divides their weighted sum where it is
not 0; a time the fuzzy search divides by was stored first (`Timed`); a logarithm for
the table of chunk sizes exists (`Logarithm`). Its assumption is that of the module: a
trip count fits an `int`, as the argument of `auto_DLS_Search` does
(kmp_dispatch.cpp:922).

**Static stealing.** The invariant has two layers. `IInv` (types, `SlotKnown`,
`QuietEmpty`) needs no barrier: from the moment a thread finds its range empty
until it installs a stolen one, or begins the next loop, the range stays empty,
because a thief takes only from ranges of two chunks or more. That is why the
plain store of `Install` is safe. `OInv` adds what barriers give: threads are in
the same loop or idle (`Bar`, the only place where `~NoWait` is used), a pointer
that others can find is to the owner's current descriptor (`Current`), so a
thief's victim is in the thief's loop (`Target`), and ranges stay within the loop
(`Fits`). `OnePlace` is then preserved because each step leaves a chunk where it
is, moves it from the victim to the thief, or executes it (`OneStill`, `OneMoved`,
`OneTaken`), and it holds initially because the shares follow each other without
gap or overlap (`SharesApart`, `SharesCover`, about the quotient and the rest for
any number of chunks and threads). With `nowait` `Target` fails: the readiness
counter is one per slot, and a thief takes chunks of its victim's next loop (a
hazard of the list).

**Locks.** One invariant per kind says who has the lock in terms of its words: the
word itself (`TasInv`), the word without the sleepers' bit (`FutexInv`), the
distinct tickets between the one served and the next (`TicketInv`). The queue of a
queuing lock is changed by threads that hold nothing, so `QueueInv` describes it
at every point of every change: at most one thread has the lock or has been woken
to take it (`OneHas`); the ends of the line wait in it (`Ends`); links made, and
links about to be made by a thread that has joined but not linked itself, lead
from and to each thread at most once (`Links`); and a thread that gives the lock
back knows the head, which nothing leads to or from once it has been taken out
(`Handover`). The steps of the code are instances of twelve lemmas about the queue
(`Join`, `Advance`, `Wake`, ...). `OwnerHolds` turns mutual exclusion into
`NeverMistaken`. The refinement relates these words to the history `line` (`LineInv`):
the tickets of the line increase, and the queue in memory is the line, link by link,
without the thread at its front once the holder has taken it out to wake it (`Chain`);
a thread that has joined and not linked itself knows the one before it. So whoever is
woken is at the front. With the order in which `omp_test_lock` reads pointer and mask a
DRDPA lock keeps none of this (`locks_area`), and an area that shrinks is read with the
mask of a larger one; so the theorems are about DRDPA locks that nobody tests, in a
process that is not oversubscribed (`OnlyGrows`; `Covered` says so for all kinds).
There the tickets in use are those from the ticket f whose turn it is (`DrdpaTickets`),
no word of any area is past f, and while nobody has the lock only the present area
says f (`DrdpaWords`): a thread that reads its ticket, or a later one, has found its
turn. It reads in the present area or in the one before, which is freed only when a
ticket is served that was taken after the replacement (`DrdpaReads`), and with a mask
no larger than the area (`DrdpaAreas`). That a larger size exists among the powers of
two that are tried (`GrownIs`) takes counting: no more tickets are in use than threads
(`FewWait`), and a set of n members has more than n subsets (`PowerOfTwo`).

**Tasking.** A task is freed by whoever drops its last reference, and then its parent is
reached through it. `ReferenceCounts` says what the count of a task counts: the task
itself while it is not over, its children that are not freed, and the threads that climb
to it from a child just freed (`Dropping`); a task has these holders only while it is
live, so nothing that is reached is freed. To keep it, each task must be in one place:
on one stack, once (`Shape`), where only the current task is within an operation
(`Doing`); or created and lying in the hand of who spawns it, in one deque, with one
thief (`InOnePlace`), or waiting for predecessors. The last is what makes dependences
matter for memory: `Predecessors` says that a node's count is the number of its entries
among the successors of others, plus those not counted yet while the links are being made
(`Linking`), so that exactly one of the tasks that end finds it zero, and queues the task
once. For groups the invariant needs history that the runtime does not keep: the group a
task was in when it began (`home`, under a quantifier in `GroupsInv`). The count of an open
group is that of the tasks at home in it, and the group of a task at a point of its body is
the innermost open there (`GroupAt`), which the nesting of the blocks gives back at each
end. So a group is not closed while a task still has to leave it.

**The order of tasks.** A task is linked behind those its table of dependences still names,
and must follow all that were ever entered. `TablesInv` says why the few are enough: among
the siblings entered for an address, the last writer or the present readers (or holders)
cover each other one, being it or ordered after it. So whatever a task c has to follow
(`Prior`) is over, or stands, itself or by a sibling ordered after it, among those that
have c for a successor (`PendingOrder`), or among those c is still to be linked behind
(`LinkOrder`). A node that ends hands this on: its own predecessors are over. When the
last one has notified c, nobody has c for a successor, and what is left of the
disjunction is that all predecessors are over (`ClearedOrder`). That links are made only
between siblings, and while their spawner is in `Depend`, keeps the tables of different
tasks apart. A table is freed when its task ends, and nothing is asked of it then: no child is entered
any more, and the links are made. The locks go with it. A task that runs, or that a thief
has taken, holds its locks unless they are freed, and they are freed only when the task
that spawned it is over (`Excluded`); so siblings that exclude each other do not run at
once while their spawner runs. The count of children is that of the children not over
(`ChildrenCounted`, for the taskwait).

**The end of a group.** The count of a group says only that no task at home in it is left;
the promise is about all descendants. A task inside a group g was spawned there, or by a
task inside g. One spawned there is at home in g or in a group nested in it that its
spawner has ended since (`OpenWithin`: a group still open is open where its task stands).
If its spawner is inside g and over, the spawner has come to its end (`OverEnded`), has
created it, and has ended all groups it opened: so it is at home where the spawner is, or
in a group that is closed (`AtHome`). A closed group has no members, and g has none when
its count is zero. So the smallest task inside g that were not over could be neither.
Numbers grow from spawner to child, which `Lineages` needs as well: the recursive function
that says what a task descends from exists, and unfolds (`Ascends`).

**Barriers.** `BarrierInv` gives each thread a place relative to `team_arrived`, the
number of barriers all have come to: it has come to that many or to one more
(`Ahead`), in each stage only so far (`Round`). `Arrival` says what `b_arrived`
counts, and `GoFlag` that `b_go` is 1 exactly from the parent's release (`Freed`)
to the thread's own plain store. Freed threads may come back and be gathered for the
next barrier while the parent still wakes their siblings, which is why `Freed` and
`Taken` are about positions and lists of children rather than about stages.
When the master has gathered its own children, the smallest thread that has not come
would have a parent that has, and could not have let it go without it (`AllHere`, by
the least number principle): so all have come. `Shares` says that each share that
has come is with exactly one thread nobody has gathered yet (`NoneLost`, `NoneTwice`);
then all are with the master. Sleeping and waking leave all of this alone (`Quiet`):
that the sleep bit is set, cleared or late matters to liveness only.

Only model-checked: liveness (`AllFinish`, `AllLeave`, `AllServed`, `AllPass`, `AllEnd`,
`SearchEnds`; out of the prover's reach, as is ENABLED), DRDPA locks that are tested or
shrink, what
barriers wait for (the rest of `ImplementsTasks`), and what the recursive formulas compute
(`BlockAssumption` for TSS and analytical guided, `FacaAssumption`,
`DependencesComplete`). The library's induction theorems have an operator as parameter,
which no installed prover instantiates. `Least`, from the well-foundedness of `<`, takes
a set instead: a proof by smallest counterexample, which serves for the sums over
threads, the tree of a barrier and powers of two.

## 5. Not modelled

The memory model: steps are sequentially consistent. (The stores at the end of a
loop are separated by full fences in the code, counters and lock words are changed
by locked instructions.) Within the modelled components:

* dispatcher: teams of one thread, hierarchical scheduling, cancellation,
  negative and non-unit strides (iterations are numbered from 0; the
  trip count is the input). FISS with two threads divides by zero and is left out;
* ordered: serialized teams, the checks of the nesting, and the clause together
  with an adaptive schedule (which notes the bounds of a chunk in the same way) or
  with stealing; the counter is reset with the slot's other counters (6499), which
  `ClearCounters` of the ring stands for;
* adaptive schedules: `nowait` (the process-wide vectors of two loops mix: a
  hazard), loops without iterations, the clock;
* AUTO: `nowait` and loops without iterations, which leave the flags as they are
  (hazards); the learned tables, the moments recorded for rewards;
* locks: hardware transactions, creation and destruction, indirect tables;
* barriers: on-core waiting of the hierarchical barrier, fork and join barriers,
  the thread pool;
* tasking: untied, final, undeferred, proxy and priority tasks, taskloop,
  reductions, cancellation, threads that sleep while they look for tasks, waits for
  dependences, several mutexinoutset dependences of one task, reference counts of
  nodes, the effects of a freed lock other than a wrong answer.

Whole components that are left out, with the reason, are in `PROJECT.json`:
those that are sequential (settings, affinity, static schedules), generated
(atomics), reports (tool interface, profiling output), other machines
(offloading) or wrappers. They make up most of the lines of the repository,
which is why the mapped share of it is small.

## 6. What is left

1. Theorems about `LockExists` and the promise of the dispatcher for static stealing.
2. The rest of tasking's promise as a theorem: a barrier waits for all tasks of its region.
   It needs that no thread counts itself out with a task in its deque that nobody else
   executes, and so has to leave out tasks whose lock is freed (`tasking_mutex`): its
   answer may refuse them for ever.
3. Doacross (a second ring), cancellation of loops, fork and join with the hot
   team, hierarchical scheduling, the mapping tables of the offloading library.
