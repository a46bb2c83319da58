------------------------------ MODULE MCLocks ------------------------------
EXTENDS Locks

\* The first thread asks twice.
FirstTwice == [t \in Threads |-> IF t = 1 THEN 2 ELSE 1]
=============================================================================
