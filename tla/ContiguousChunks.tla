------------------------- MODULE ContiguousChunks -------------------------
(***************************************************************************)
(* Chunk numbers divide a loop without gaps or overlaps.  This is what the *)
(* formulas of dynamic, FSC, TSS and analytical guided have to guarantee,  *)
(* and what fails when chunk number times chunk size wraps around.  The    *)
(* formulas of guided have to leave something for its last phase.          *)
(***************************************************************************)
EXTENDS SelfScheduling

\* Numbers begin at the beginning; a chunk ends where the next one begins; and
\* after the end of the loop no number is served.
ASSUME BlockAssumption ==
    \A d \in Descriptors : d[1] \in Index =>
      LET edge(k) == Edge(d[1], d[2], d[3], k)
          past(k) == Past(d[1], d[2], d[3], k)
      IN
      /\ edge(0) = 0
      /\ \A k \in 0 .. MaxNumber + 1 : edge(k) \in 0 .. d[2]
      /\ \A k \in 0 .. MaxNumber :
            /\ edge(k) < d[2] => /\ past(k) \in Nat /\ edge(k) <= past(k)
                                 /\ edge(k + 1) = IF past(k) < d[2] THEN past(k) ELSE d[2]
            /\ edge(k) = d[2] => edge(k + 1) = d[2]

\* Guided leaves iterations to the chunks of the given size: the compare-and-swap,
\* which never sets the flag of the last chunk, does not take all that remains.
ASSUME GuidedAssumption ==
    \A d \in Descriptors : d[1] \in Guided /\ d[2] > 0 =>
      \A t \in Threads : \A x \in Inputs(d[1], d[2], d[3]) :
        \A cs \in Sizes(d[1], d[2], d[3], t, x) : cs < x

\* The iterations that the requests numbered K plan to take under FACa, counted for
\* each request by the smallest size a thread may compute from it.
Planned(n, c, K) ==
    {q \in K \X (1 .. n) :
        \A t \in Threads : LET sizes == Sizes("faca", n, c, t, q[1])
                           IN  sizes # {} /\ \A cs \in sizes : q[2] <= cs}

\* FACa stops a thread only where the requests before its own cover the loop.
ASSUME FacaAssumption ==
    \A d \in Descriptors : d[1] = "faca" /\ d[2] > 0 =>
      \A t \in Threads : \A k \in 0 .. MaxNumber :
        Sizes("faca", d[2], d[3], t, k) = {} => d[2] <= Cardinality(Planned(d[2], d[3], 0 .. k - 1))
===========================================================================
