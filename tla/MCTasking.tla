------------------------------ MODULE MCTasking ------------------------------
EXTENDS Tasking

Task(k) == [op |-> "task", arg |-> k]
Group(g) == [op |-> "group", arg |-> g]
EndGroupOf(g) == [op |-> "endgroup", arg |-> g]
Wait == [op |-> "taskwait", arg |-> 0]
Barrier == [op |-> "barrier", arg |-> 0]
In(a) == [addr |-> a, kind |-> "in"]
Out(a) == [addr |-> a, kind |-> "out"]
Mutex(a) == [addr |-> a, kind |-> "mtx"]

Program(n, bodies, orders) ==
    [nproc |-> n,
     body |-> [k \in Tasks |-> IF k \in DOMAIN bodies THEN bodies[k] ELSE <<>>],
     deps |-> [k \in Explicit |-> IF k \in DOMAIN orders THEN orders[k] ELSE <<>>]]
NoOrder == [k \in {} |-> <<>>]

\* A taskwait over a child that leaves a grandchild behind, and a second region.
Nested == Program(2,
    0 :> <<Task(4), Wait, Barrier, Task(7), Barrier>> @@
    1 :> <<Task(6), Barrier, Barrier>> @@ 4 :> <<Task(5)>>, NoOrder)

\* A group around a task and its child, in a worker's task.
Grouped == Program(2,
    0 :> <<Barrier>> @@ 1 :> <<Task(4), Task(7), Barrier>> @@
    4 :> <<Group(11), Task(5), EndGroupOf(11)>> @@ 5 :> <<Task(6)>>, NoOrder)

\* More tasks than the deque holds, ordered by dependences.
Ordered == Program(2,
    0 :> <<Task(4), Task(5), Task(6), Task(7), Wait, Barrier>> @@ 1 :> <<Barrier>>,
    4 :> <<Out(21)>> @@ 5 :> <<In(21)>> @@ 6 :> <<In(21)>> @@ 7 :> <<Out(21), In(21)>>)

Excluded == Program(2,
    0 :> <<Task(4), Task(5), Task(6), Task(7), Barrier>> @@ 1 :> <<Barrier>>,
    4 :> <<Out(21)>> @@ 5 :> <<Mutex(21)>> @@ 6 :> <<Mutex(21)>> @@ 7 :> <<In(21)>>)

\* Three threads, work found by one of them only.
Three == Program(3,
    0 :> <<Barrier>> @@ 1 :> <<Task(4), Barrier>> @@ 2 :> <<Barrier>> @@
    4 :> <<Task(5), Task(6)>>, NoOrder)

\* Successors that find the deque full and may not be executed at once.
Growing == Program(2,
    0 :> <<Task(7), Task(4), Task(5), Task(6), Wait, Barrier>> @@ 1 :> <<Barrier>>,
    4 :> <<Out(21)>> @@ 5 :> <<In(21)>> @@ 6 :> <<In(21)>>)

\* A task that waits for its children while others are queued below them.
Waiting == Program(2,
    0 :> <<Task(4), Task(7), Barrier>> @@ 1 :> <<Task(8), Barrier>> @@
    4 :> <<Task(5), Task(6), Wait>>, NoOrder)

\* A child that outlives the task that spawned it, on another thread, in two regions.
Outlived == Program(3,
    0 :> <<Barrier, Task(7), Barrier>> @@ 1 :> <<Task(4), Barrier, Barrier>> @@
    2 :> <<Barrier, Barrier>> @@ 4 :> <<Task(5)>>, NoOrder)

\* The task team of the first region serves the third one again.
Regions == Program(2,
    0 :> <<Task(4), Barrier, Barrier, Task(5), Barrier>> @@
    1 :> <<Barrier, Barrier, Barrier>>, NoOrder)

\* Three threads share the tasks behind a writer.
Spread == Program(3,
    0 :> <<Task(4), Task(5), Task(6), Wait, Barrier>> @@ 1 :> <<Barrier>> @@ 2 :> <<Barrier>>,
    4 :> <<Out(21)>> @@ 5 :> <<In(21)>> @@ 6 :> <<Mutex(21)>>)

\* A worker waits for a stolen child in the second region, as a thief between barriers.
Later == Program(2,
    0 :> <<Barrier, Task(7), Barrier>> @@
    1 :> <<Task(6), Barrier, Task(4), Wait, Barrier>> @@ 4 :> <<Task(5)>>, NoOrder)

\* A task that waits for the two it has spawned to exclude each other; the task beside
\* it names the same address in another table.
Sheltered == Program(2,
    0 :> <<Task(4), Task(7), Barrier>> @@ 1 :> <<Barrier>> @@
    4 :> <<Task(5), Task(6), Wait>>,
    5 :> <<Mutex(21)>> @@ 6 :> <<Mutex(21)>> @@ 7 :> <<Mutex(21)>>)

\* A task that ends, and frees its table, before the children it has ordered.
Orphaned == Program(2,
    0 :> <<Task(4), Barrier>> @@ 1 :> <<Barrier>> @@ 4 :> <<Task(5), Task(6)>>,
    4 :> <<Out(21)>> @@ 5 :> <<Out(21)>> @@ 6 :> <<In(21)>>)

Cases == {Spread, Regions, Nested, Grouped, Ordered, Excluded, Growing, Waiting, Three,
          Outlived, Later, Sheltered, Orphaned}

\* Two tasks spawned by a task of which only one may run at a time.
Excluding == {Program(3,
    0 :> <<Barrier>> @@ 1 :> <<Task(4), Barrier>> @@ 2 :> <<Barrier>> @@
    4 :> <<Task(5), Task(6)>>, 5 :> <<Mutex(21)>> @@ 6 :> <<Mutex(21)>>)}

\* The table after all dependences of a node, and its links, as Depend makes them.
Filtered(ds) ==
    LET first == {i \in DOMAIN ds : First(ds, i)}
    IN  [n \in 1 .. Cardinality(first) |->
            LET i == SetToSortSeq(first, <)[n]
            IN  [addr |-> ds[i].addr, kind |-> Merged(ds, ds[i].addr)]]
Process(entries, ds, n) ==
    FoldLeft(LAMBDA acc, d :
                 [table |-> [acc.table EXCEPT ![d.addr] = After(@, d.kind, n)],
                  links |-> acc.links \o Links(acc.table[d.addr], d.kind)],
             [table |-> entries, links |-> <<>>], Filtered(ds))

\* What the links of siblings with these dependences order: each sibling is behind
\* exactly those spawned before it with which it conflicts.
Tables(list) ==
    LET upto[n \in 0 .. Len(list)] ==
            IF n = 0 THEN [table |-> [a \in {1, 2} |-> NewEntry], links |-> <<>>]
            ELSE Process(upto[n - 1].table, list[n], n)
    IN  upto
Conflict(deps1, deps2) ==
    \E d \in Range(Filtered(deps1)), e \in Range(Filtered(deps2)) :
        d.addr = e.addr /\ (d.kind = "out" \/ d.kind # e.kind)
LinksOrder(list) ==
    LET tables == Tables(list)
        linked == [n \in 1 .. Len(list) |-> Range(tables[n].links)]
        behind[n \in 1 .. Len(list)] == linked[n] \cup UNION {behind[j] : j \in linked[n]}
    IN  \A n \in 1 .. Len(list) : \A j \in 1 .. n - 1 :
            /\ Conflict(list[j], list[n]) => j \in behind[n]
            /\ j \in linked[n] => Conflict(list[j], list[n])

Kinds == {"in", "out", "mtx"}
OnOne == {<<[addr |-> 1, kind |-> k]>> : k \in Kinds}
OnTwo == OnOne \cup {<<[addr |-> 1, kind |-> p[1]], [addr |-> q, kind |-> p[2]]>> :
                        p \in Kinds \X Kinds, q \in {1, 2}}
ASSUME DependencesComplete ==
    /\ \A n \in 1 .. 5 : \A list \in [1 .. n -> OnOne] : LinksOrder(list)
    /\ \A list \in [1 .. 3 -> OnTwo] : LinksOrder(list)
===========================================================================
