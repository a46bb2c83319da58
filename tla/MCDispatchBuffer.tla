------------------------ MODULE MCDispatchBuffer ------------------------
\* Small teams for TLC.  Two slots and four loops make every slot be reused
\* twice; the loops mix the two kinds, long, short and empty.
EXTENDS DispatchBuffer, TLC

CONSTANTS t1, t2, t3

TwoThreads == {t1, t2}
ThreeThreads == {t1, t2, t3}
\* FAC for b = 1/2: the divisor of the first batch is 2 nproc; for so few
\* iterations rounding up gives the same sizes in the later batches.
HalfBatch == [r \in 1 .. 5 |-> (r + 2 * NProc - 1) \div (2 * NProc)]

MixedTrip == <<4, 3, 0, 5>>
MixedKind == <<"fac", "dynamic", "fac", "fac">>
FromZero(s) == [l \in Loops |-> s[l + 1]]

TripMixed == FromZero(MixedTrip)
KindMixed == FromZero(MixedKind)
AllNoWait == [l \in Loops |-> TRUE]
==========================================================================
