------------------------------ MODULE Agents ------------------------------
(***************************************************************************)
(* schedule(auto) with reinforcement learning, options 6 to 15: one agent  *)
(* per loop, created by the first search.  The learned values are not      *)
(* modelled: where the code takes the best action of its table, any action *)
(* may come out.  What is modelled is the exploration, the classes of the  *)
(* rewards, the best values they store, and the table of chunk sizes that  *)
(* all chunk learners share.                                               *)
(***************************************************************************)
EXTENDS Integers, FiniteSets

CONSTANT Policies       \* subset of {"explore_first", "epsilon_greedy", "softmax"}

\* An agent with dim states and actions.  low starts at 999 milliseconds.
NewAgent(dim, policy) ==
    [dim |-> dim, policy |-> policy, step |-> 0, state |-> 0, low |-> 999, high |-> 0,
     visited |-> {}, noOnes |-> 0, jumpIndex |-> 0]

Actions(a) == 0 .. a.dim - 1
---------------------------------------------------------------------------
(* ExploreFirstPolicy::policy.                                             *)
Exploring(a) == a.noOnes < a.dim * a.dim

RowFull(a, s) == \A x \in Actions(a) : <<s, x>> \in a.visited

Fresh(a, s) == {x \in Actions(a) : <<s, x>> \notin a.visited}

\* The first action not tried in state s; if that would lead to a state where
\* all is tried, a jump.  A row without one leaves the loop with dim.
FirstFresh(a, s) == IF RowFull(a, s) THEN a.dim
                    ELSE CHOOSE x \in Fresh(a, s) : \A y \in Fresh(a, s) : x <= y

\* Mutant: no look at what is left to try in the next state.
JumpNever(a, s) == FALSE
Jump(a, s) == FirstFresh(a, s) < a.dim /\ RowFull(a, FirstFresh(a, s))

Explored(a, s, jump) ==
    IF Jump(a, s) THEN (FirstFresh(a, s) + jump) % a.dim ELSE FirstFresh(a, s)

\* The first call in a time step marks what it chose.
Marked(a) ==
    LET jump == IF Jump(a, a.state) THEN a.jumpIndex + 1 ELSE a.jumpIndex
        next == Explored(a, a.state, jump)
    IN  IF RowFull(a, a.state) THEN a
        ELSE [a EXCEPT !.jumpIndex = jump, !.noOnes = @ + 1,
                       !.visited = @ \cup {<<a.state, next>>}]

\* Actions the policy may choose in the agent's state.
NextActions(a) ==
    IF a.policy = "explore_first" /\ Exploring(a)
    THEN {Explored(a, a.state, IF Jump(a, a.state) THEN a.jumpIndex + 1 ELSE a.jumpIndex)}
    ELSE Actions(a)

\* The index SARSA reads with, a second call in the same time step.
SecondActions(a, next) ==
    IF a.policy = "explore_first" /\ Exploring(a)
    THEN {Explored(a, next, a.jumpIndex)} ELSE Actions(a)
---------------------------------------------------------------------------
(* The rewards for the loop time and the load imbalance.                   *)
Good(a, signal) == 100 * signal < 105 * a.low
Bad(a, signal) == ~Good(a, signal) /\ 10 * signal > 9 * a.high

Rewarded(a, signal) ==
    [a EXCEPT !.low = IF Good(a, signal) /\ signal < @ THEN signal ELSE @,
              !.high = IF Bad(a, signal) /\ signal > @ THEN signal ELSE @]

\* Agent::step: reward, choice of the next action, which is the next state.
Stepped(a, signal) ==
    LET b == Rewarded(a, signal)
        c == IF b.policy = "explore_first" /\ Exploring(b) THEN Marked(b) ELSE b
    IN  {[c EXCEPT !.step = @ + 1, !.state = x] : x \in NextActions(b)}
---------------------------------------------------------------------------
(* Option 15: the sizes n / (2 p), n / (4 p), ... of dim chunks.           *)
Log2Of(x) == CHOOSE k \in 0 .. 30 : 2 ^ k <= x /\ x < 2 ^ (k + 1)
ChunkCount(n, p) == Log2Of(n \div p) - 1
ChunkSizes(dim, n, p) == [i \in 0 .. dim - 1 |-> n \div (2 ^ (i + 1) * p)]
=============================================================================
