----------------------------- MODULE MCBarriers -----------------------------
EXTENDS Barriers

\* Two threads per core, two cores per socket, two sockets.
TwoByTwo == <<1, 2, 4, 8>>

\* A tree of branching factor two or four.
Two(k) == [kind |-> k, bits |-> 1]
Four(k) == [kind |-> k, bits |-> 2]

Team(n, g, r, s, k) == [nproc |-> n, gather |-> g, release |-> r, sleepers |-> s, rounds |-> k]

\* Small teams that sleep, and larger ones, of sizes that fill no tree, that spin.
Teams ==
    { Team(3, Two("linear"), Two("linear"), {0, 1, 2}, 2),
      Team(4, Two("tree"), Two("hyper"), {0, 3}, 2),
      Team(4, Two("hyper"), Two("tree"), {2}, 2),
      Team(4, Two("hierarchical"), Two("hierarchical"), {2, 3}, 2),
      Team(5, Four("hyper"), Two("hierarchical"), {}, 1),
      Team(5, Four("tree"), Four("hyper"), {}, 1) }

\* In teams of every size the children a thread waits for are those that notify it.
ASSUME TreesFit ==
    \A n \in 2 .. 8 : \A t \in 0 .. n - 1 :
    \A p \in [kind : {"linear", "tree", "hyper", "hierarchical"}, bits : 1 .. 3] :
        Kids(p, n, t) = {k \in 1 .. n - 1 : Parent(p, k) = t}
===========================================================================
