---------------------------- MODULE AutoSelect ----------------------------
(***************************************************************************)
(* schedule(auto) inside a team: the first thread to reach a loop selects  *)
(* the technique, the others wait for it, and the last one to finish       *)
(* stores what was measured and resets the flags.  All of these flags are  *)
(* variables of the process, not of the loop or the team.                  *)
(***************************************************************************)
EXTENDS AutoRecords, FiniteSets, Sequences

CONSTANTS
    NProc,          \* threads of the team
    Loops,          \* the program, a sequence of loops:
                    \*   [place, auto, trips, serial, golden]
    Barrier,        \* TRUE if every loop ends with a barrier
    Durations       \* times a thread may measure, milliseconds

Threads == 0 .. NProc - 1

ASSUME AutoAssumption ==
    /\ NProc \in Nat \ {0, 1} /\ Barrier \in BOOLEAN
    /\ Durations \subseteq Nat \ {0} /\ None \notin Places
    /\ \A l \in DOMAIN Loops :
         /\ Loops[l].place \in Places /\ Loops[l].auto \in BOOLEAN
         /\ Loops[l].serial \in BOOLEAN
         /\ Loops[l].golden \in BOOLEAN /\ Loops[l].trips \in Nat

VARIABLES
    AUTO_FLAG,              \* 1 while a loop runs under AUTO
    autoEnter,              \* threads that have reached the selection
    autoWait,               \* 1 while the others have to wait for it
    autoLoopName,           \* place of the loop whose record is in use
    autoTimerFirstEntry,    \* not 0 when the timer has been started
    timerOf,                \* the loop in which autoTimerInit was set
    autoMeanThreadTime,     \* sum of the threads' times
    autoThreadCount,        \* threads that have added theirs
    result,                 \* autoTimerEnd and autoLBPercentIm
    loop, pc,               \* each thread's loop and place in the code
    sched,                  \* the schedule each thread uses
    mine                    \* time[tid], what each thread measured

flags == <<AUTO_FLAG, autoEnter, autoWait>>
timer == <<autoTimerFirstEntry, timerOf, autoMeanThreadTime, autoThreadCount, result>>
vars == <<option, flags, autoLoopName, timer, rec, loop, pc, sched, mine>>

Own == [dls |-> -1, chunk |-> 0]        \* the schedule the loop asks for

Init ==
    /\ option \in Options \cap (2 .. 5)       \* the searches without agents
    /\ AUTO_FLAG = 0 /\ autoEnter = 0 /\ autoWait = 1 /\ autoLoopName = None
    /\ autoTimerFirstEntry = 0 /\ timerOf = 0
    /\ autoMeanThreadTime = -1 /\ autoThreadCount = 0
    /\ result = [time |-> 0, lb |-> 0]
    /\ rec = [p \in Places |-> NewRecord]
    /\ loop = [t \in Threads |-> 1]
    /\ pc = [t \in Threads |-> "out"]
    /\ sched = [t \in Threads |-> Own]
    /\ mine = [t \in Threads |-> 0]

At(t, l) == pc[t] = l
Go(t, l) == pc' = [pc EXCEPT ![t] = l]
This(t) == Loops[loop[t]]
Leave(t) == /\ loop' = [loop EXCEPT ![t] = @ + 1]
            /\ Go(t, "out")
---------------------------------------------------------------------------
(* __kmp_dispatch_init_algorithm.                                          *)

\* A loop in a serialized region is executed by one thread alone.
Skip(t) ==
    /\ At(t, "out") /\ loop[t] <= Len(Loops)
    /\ This(t).serial /\ t # 0
    /\ Leave(t)
    /\ UNCHANGED <<option, flags, autoLoopName, timer, rec, sched, mine>>

MayEnter(t) ==
    /\ At(t, "out") /\ loop[t] <= Len(Loops)
    /\ ~This(t).serial \/ t = 0
    /\ Barrier => \A u \in Threads : loop[u] >= loop[t]

\* AUTO_iLoopTimer: only a thread that finds the flag up starts the timer.
EnterTimer(t) ==
    /\ MayEnter(t)
    /\ IF AUTO_FLAG = 1
       THEN /\ autoTimerFirstEntry' = autoTimerFirstEntry + 1
            /\ Go(t, IF autoTimerFirstEntry = 0 THEN "start" ELSE "flag")
       ELSE /\ Go(t, "flag")
            /\ UNCHANGED autoTimerFirstEntry
    /\ UNCHANGED <<option, flags, autoLoopName, timerOf, autoMeanThreadTime,
                   autoThreadCount, result, rec, loop, sched, mine>>

StartTimer(t) ==
    /\ At(t, "start")
    /\ autoTimerFirstEntry' = 1
    /\ timerOf' = loop[t]
    /\ Go(t, "flag")
    /\ UNCHANGED <<option, flags, autoLoopName, autoMeanThreadTime, autoThreadCount,
                   result, rec, loop, sched, mine>>

SetFlag(t) ==
    /\ At(t, "flag")
    /\ AUTO_FLAG' = IF This(t).auto THEN 1 ELSE AUTO_FLAG
    /\ Go(t, "enter")
    /\ UNCHANGED <<option, autoEnter, autoWait, autoLoopName, timer, rec, loop, sched, mine>>

\* Without the flag the loop keeps its own schedule.
EnterPlain(t) ==
    /\ At(t, "enter") /\ AUTO_FLAG = 0
    /\ sched' = [sched EXCEPT ![t] = Own]
    /\ Go(t, "work")
    /\ UNCHANGED <<option, flags, autoLoopName, timer, rec, loop, mine>>

\* Mutant: the test of the counter lets a second thread through.
FirstTwo(n) == n <= 1
First(n) == n = 0

EnterAuto(t) ==
    /\ At(t, "enter") /\ AUTO_FLAG = 1
    /\ autoEnter' = autoEnter + 1
    /\ Go(t, IF First(autoEnter) THEN "choose" ELSE "wait")
    /\ UNCHANGED <<option, AUTO_FLAG, autoWait, autoLoopName, timer, rec, loop, sched, mine>>

Workers(l) == IF Loops[l].serial THEN 1 ELSE NProc

Choose(t) ==
    /\ At(t, "choose")
    /\ autoLoopName' = This(t).place
    /\ LET p == This(t).place
       IN  IF rec[p].autoSearch = 1
           THEN \E r \in Searched(option, rec[p], This(t).trips, Workers(loop[t])) :
                    rec' = [rec EXCEPT ![p] = r]
           ELSE UNCHANGED rec
    /\ Go(t, "admit")
    /\ UNCHANGED <<option, flags, timer, loop, sched, mine>>

Admit(t) ==
    /\ At(t, "admit")
    /\ autoWait' = autoWait - 1
    /\ Go(t, "adopt")
    /\ UNCHANGED <<option, AUTO_FLAG, autoEnter, autoLoopName, timer, rec, loop, sched, mine>>

Spin(t) == At(t, "wait") /\ autoWait = 1 /\ UNCHANGED vars

Wait(t) ==
    /\ At(t, "wait") /\ autoWait # 1
    /\ Go(t, "adopt")
    /\ UNCHANGED <<option, flags, autoLoopName, timer, rec, loop, sched, mine>>

Golden == -1        \* stands for goldenChunkSize, a function of the loop and the team

\* The technique, and the chunk unless it is 0; the golden chunk replaces both.
Adopted(t) ==
    [dls |-> rec[autoLoopName].cDLS,
     chunk |-> IF AUTO_FLAG = 1 /\ This(t).golden THEN Golden
               ELSE IF rec[autoLoopName].cChunk > 0 THEN rec[autoLoopName].cChunk
               ELSE Own.chunk]

Adopt(t) ==
    /\ At(t, "adopt")
    /\ sched' = [sched EXCEPT ![t] = Adopted(t)]
    /\ Go(t, "work")
    /\ UNCHANGED <<option, flags, autoLoopName, timer, rec, loop, mine>>
---------------------------------------------------------------------------
(* The end of the loop, and end_auto_loop_timer.                           *)

\* No iterations, or one thread alone, and the end of the loop passes AUTO by.
Unmeasured(t) == AUTO_FLAG = 0 \/ This(t).trips = 0 \/ This(t).serial

Pass(t) ==
    /\ At(t, "work") /\ Unmeasured(t)
    /\ Leave(t)
    /\ UNCHANGED <<option, flags, autoLoopName, timer, rec, sched, mine>>

AddTime(t) ==
    /\ At(t, "work") /\ ~Unmeasured(t)
    /\ \E d \in Durations :
        /\ autoMeanThreadTime' = autoMeanThreadTime + d
        /\ mine' = [mine EXCEPT ![t] = d]
    /\ Go(t, "count")
    /\ UNCHANGED <<option, flags, autoLoopName, autoTimerFirstEntry, timerOf,
                   autoThreadCount, result, rec, loop, sched>>

\* (max - mean) / max * P / (P - 1) * 100, with two integer divisions.
Imbalance(last, total, count) ==
    ((last - total \div count) * (NProc \div (NProc - 1)) * 100) \div last

CountTime(t) ==
    /\ At(t, "count")
    /\ autoThreadCount' = autoThreadCount + 1
    /\ IF autoThreadCount = NProc - 1
       THEN Go(t, "reset") /\ UNCHANGED loop
       ELSE Leave(t)
    /\ UNCHANGED <<option, flags, autoLoopName, autoTimerFirstEntry, timerOf,
                   autoMeanThreadTime, result, rec, sched, mine>>

\* Mutant: the wait is raised once too often.
LowerWithTwo == autoEnter' = 0 /\ autoWait' = 2 /\ AUTO_FLAG' = 0
LowerFlags == autoEnter' = 0 /\ autoWait' = 1 /\ AUTO_FLAG' = 0

\* The last thread; it measured the time that counts.
Reset(t) ==
    /\ At(t, "reset")
    /\ result' = [time |-> mine[t],
                  lb |-> Imbalance(mine[t], autoMeanThreadTime, autoThreadCount)]
    /\ autoThreadCount' = 0 /\ autoMeanThreadTime' = 0 /\ autoTimerFirstEntry' = 0
    /\ LowerFlags
    /\ Go(t, "store")
    /\ UNCHANGED <<option, autoLoopName, timerOf, rec, loop, sched, mine>>

Store(t) ==
    /\ At(t, "store")
    /\ rec' = [rec EXCEPT ![autoLoopName] = Measured(@, result.time, result.lb)]
    /\ Leave(t)
    /\ UNCHANGED <<option, flags, autoLoopName, timer, sched, mine>>

ThreadStep(t) ==
    \/ Skip(t) \/ EnterTimer(t) \/ StartTimer(t) \/ SetFlag(t) \/ EnterPlain(t)
    \/ EnterAuto(t) \/ Choose(t) \/ Admit(t) \/ Spin(t) \/ Wait(t)
    \/ Adopt(t) \/ Pass(t) \/ AddTime(t) \/ CountTime(t) \/ Reset(t) \/ Store(t)

Done == \A t \in Threads : loop[t] > Len(Loops)

Next == (\E t \in Threads : ThreadStep(t)) \/ (Done /\ UNCHANGED vars)

Spec == Init /\ [][Next]_vars
FairSpec == Spec /\ \A t \in Threads : WF_vars(ThreadStep(t))
---------------------------------------------------------------------------
Working(t) == At(t, "work")

\* A thread at work in an auto loop uses what was selected for its own loop, from
\* that loop's record; a loop with a schedule of its own keeps it.
OwnSchedule ==
    \A t \in Threads : Working(t) =>
        sched[t].dls = IF This(t).auto THEN rec[This(t).place].cDLS ELSE Own.dls

\* The time stored in a record began in the execution of the loop it ended in.
TimeIsOwn == \A t \in Threads : At(t, "store") => timerOf = loop[t]

\* Every thread gets through every loop.
AllFinish == <>Done

\* Seen by the records, the team executes one loop after the other: one selection at
\* its begin, by one thread, and one measurement at its end.
Selecting == \E t \in Threads : At(t, "choose")
Storing == \E t \in Threads : At(t, "store")
=============================================================================
