---------------------------- MODULE AutoTuning ----------------------------
(***************************************************************************)
(* schedule(auto) as a program sees it, one execution of a loop after the  *)
(* other: Begin selects the technique from the loop's record, End stores   *)
(* what the execution measured.  AutoSelect shows that the threads of a    *)
(* team implement it.                                                      *)
(***************************************************************************)
EXTENDS AutoRecords, Agents

CONSTANTS
    Trips,          \* Trips[p], iterations of the loop at p
    Team,           \* threads of the team
    Times,          \* measured loop times, milliseconds
    Imbalances,     \* measured load imbalances, percent
    Rewards,        \* subset of {"looptime", "loadimbalance"}
    Stray,          \* what a read past the chunk table may return
    MaxTrials,      \* bound on the trials of a search (2 and 5 never end)
    MaxSteps        \* bound on the steps of an agent

ASSUME TuningAssumption ==
    /\ Team \in Nat \ {0, 1} /\ Options \subseteq 2 .. 15
    /\ Times \subseteq Nat \ {0} /\ Imbalances \subseteq Int
    /\ \A p \in Places : Trips[p] \in Nat \ {0} /\ Trips[p] \div 2 ^ 30 < 2  \* an int
    /\ Stray \subseteq Int /\ SS \in Dls
    /\ 15 \in Options => \A p \in Places : Trips[p] >= 4 * Team
    /\ None \notin Places

VARIABLES
    policy, reward, \* KMP_RL_POLICY, KMP_RL_REWARD; None without agents
    agent,          \* AgentProvider's agents, None before the first search
    chunkSizes,     \* the chunk table, one for all loops
    current         \* the loop in execution

tuningVars == <<option, policy, reward, rec, agent, chunkSizes, current>>

Learns == option >= 6

TuningInit ==
    /\ option \in Options
    /\ IF Learns THEN policy \in Policies /\ reward \in Rewards
       ELSE policy = None /\ reward = None
    /\ rec = [p \in Places |-> NewRecord]
    /\ agent = [p \in Places |-> None]
    /\ chunkSizes = << >>
    /\ current = None
---------------------------------------------------------------------------
Dimension(p) == IF option = 15 THEN ChunkCount(Trips[p], Team) ELSE Size

\* An action of an agent as a technique, or as a chunk of dynamic.
Entry(table, x) == IF x \in DOMAIN table THEN {table[x]} ELSE Stray

Translated(r, p, table, x) ==
    IF option = 15
    THEN {[r EXCEPT !.cDLS = SS, !.cChunk = c] : c \in Entry(table, x)}
    ELSE {WithChunk([r EXCEPT !.cDLS = x], Trips[p], Team)}

\* The first search of a loop makes its agent and, for option 15, a new table.
CreateAgent(p) ==
    LET table == IF option = 15 THEN ChunkSizes(Dimension(p), Trips[p], Team)
                 ELSE chunkSizes
    IN  /\ agent[p] = None
        /\ agent' = [agent EXCEPT ![p] = NewAgent(Dimension(p), policy)]
        /\ chunkSizes' = table
        /\ \E r \in Translated(rec[p], p, table, 0) : rec' = [rec EXCEPT ![p] = r]

Signal(r) == IF reward = "looptime" THEN r.cTime ELSE r.cLB

WithBest(r) == [r EXCEPT !.bestTime = r.cTime, !.bestDLS = r.cDLS, !.bestLB = r.cLB,
                         !.bestChunk = r.cChunk]

AskAgent(p) ==
    /\ agent[p] # None
    /\ agent[p].step < MaxSteps
    /\ \E a \in Stepped(agent[p], Signal(rec[p])) :
        /\ agent' = [agent EXCEPT ![p] = a]
        /\ LET best == IF Good(agent[p], Signal(rec[p])) THEN WithBest(rec[p]) ELSE rec[p]
           IN  \E r \in Translated(best, p, chunkSizes, a.state) :
                   rec' = [rec EXCEPT ![p] = r]
    /\ UNCHANGED chunkSizes

SearchPlain(p) ==
    /\ rec[p].searchTrials < MaxTrials
    /\ \E r \in Searched(option, rec[p], Trips[p], Team) : rec' = [rec EXCEPT ![p] = r]
    /\ UNCHANGED <<agent, chunkSizes>>

\* What the first thread to arrive does.
Search(p) ==
    IF rec[p].autoSearch # 1 THEN UNCHANGED <<rec, agent, chunkSizes>>
    ELSE IF Learns THEN CreateAgent(p) \/ AskAgent(p) ELSE SearchPlain(p)

Begin(p) ==
    /\ current = None
    /\ Search(p)
    /\ current' = p
    /\ UNCHANGED <<option, policy, reward>>

\* What the last thread to finish does.
End(p) ==
    /\ current = p
    /\ \E time \in Times, lb \in Imbalances :
           rec' = [rec EXCEPT ![p] = Measured(@, time, lb)]
    /\ current' = None
    /\ UNCHANGED <<option, policy, reward, agent, chunkSizes>>

TuningNext == \E p \in Places : Begin(p) \/ End(p)

TuningSpec == TuningInit /\ [][TuningNext]_tuningVars
---------------------------------------------------------------------------
Records ==
    [autoSearch : {0, 1}, cDLS : Dls \cup {-1}, bestDLS : Dls \cup {-1},
     searchTrials : Nat, cChunk : Int, bestChunk : Int, cTime : Int, bestTime : Int,
     cLB : Int, bestLB : Int]

\* Every record is well typed and every agent has the dimension of its loop.
TypeOK ==
    /\ option \in Options /\ policy \in Policies \cup {None} /\ reward \in Rewards \cup {None}
    /\ rec \in [Places -> Records]
    /\ \A p \in Places : agent[p] # None => agent[p].dim = Dimension(p)
    /\ current \in Places \cup {None}

\* Explore first tries each action in each state exactly once: every counted trial
\* is a new pair, and no chosen action or state lies outside the agent's table.
ExploresEachOnce ==
    \A p \in Places : agent[p] # None =>
        /\ agent[p].noOnes = Cardinality(agent[p].visited)
        /\ agent[p].state \in Actions(agent[p])
        /\ SecondActions(agent[p], agent[p].state) \subseteq Actions(agent[p])

\* The exhaustive and the binary search come to an end.
SearchEnds ==
    option \in {3, 4} => \A p \in Places : rec[p].autoSearch = 1 ~> rec[p].autoSearch = 0
=============================================================================
