------------------------------ MODULE TaskDeps ------------------------------
(***************************************************************************)
(* The dependence table of kmp_taskdeps.cpp.  For each address a task      *)
(* remembers the last child that writes it, the children that read it      *)
(* since, and those that exclude each other on it; a new child is linked   *)
(* behind some of them, and the rest must follow from the links.           *)
(***************************************************************************)
EXTENDS Integers, SequencesExt

\* An entry as __kmp_dephash_find creates it; out holds at most one node.
NewEntry == [out |-> <<>>, ins |-> <<>>, mtxs |-> <<>>, last |-> "ins"]

\* Dependences of one task on the same address are merged into the first of them,
\* the others are void.
First(deps, n) == \A m \in 1 .. n - 1 : deps[m].addr # deps[n].addr
Merged(deps, a) ==
    LET kinds == {deps[i].kind : i \in {j \in DOMAIN deps : deps[j].addr = a}}
    IN  IF \E kind \in kinds : kinds = {kind} THEN CHOOSE kind \in kinds : TRUE ELSE "out"
\* The nodes a new node is linked behind.
Links(e, kind) ==
    CASE kind = "out" -> IF e.ins = <<>> /\ e.mtxs = <<>> THEN e.out
                         ELSE IF e.last = "ins" THEN e.ins ELSE e.mtxs
      [] kind = "in" -> IF e.mtxs # <<>> THEN e.mtxs ELSE e.out
      [] kind = "mtx" -> IF e.ins # <<>> THEN e.ins ELSE e.out

\* The entry once the node has been added.
After(e, kind, node) ==
    CASE kind = "out" -> [e EXCEPT !.out = <<node>>, !.ins = <<>>, !.mtxs = <<>>]
      [] kind = "in" ->
           [e EXCEPT !.out = IF e.mtxs # <<>> THEN <<>> ELSE @,
                     !.ins = <<node>> \o (IF e.mtxs # <<>> /\ e.last = "mtxs" THEN <<>> ELSE @),
                     !.last = "ins"]
      [] kind = "mtx" ->
           [e EXCEPT !.out = IF e.ins # <<>> THEN <<>> ELSE @,
                     !.mtxs = <<node>> \o (IF e.ins # <<>> /\ e.last = "ins" THEN <<>> ELSE @),
                     !.last = "mtxs"]
===========================================================================
