---------------------------- MODULE Locks_proof ----------------------------
(***************************************************************************)
(* Mutual exclusion of the locks, for any number of threads that ask any   *)
(* number of times; what follows for the owner field, which threads read   *)
(* without holding the lock; the area that the threads of a DRDPA lock     *)
(* poll; and the promise of a lock, with the order in which a fair one     *)
(* serves.  A DRDPA lock is covered where nobody tests it and the process  *)
(* is not oversubscribed.                                                  *)
(***************************************************************************)
EXTENDS Locks, SequenceTheorems, FiniteSetTheorems, WellFoundedInduction, TLAPS

AllKinds == {"tas", "futex", "ticket", "queuing", "drdpa"}

\* Two threads are never in possession of the lock at once.
MutualExclusion == \A t, u \in Threads : Inside(t) /\ Inside(u) => t = u

Shared == {"idle", "got", "held"}
TasPlaces == {"tasRead", "tasCas", "tasTest", "tasRelease"}
FutexPlaces == {"futexCas", "futexMark", "futexWait", "futexSleep", "futexTest",
                "futexRelease", "futexWake"}
TicketPlaces == {"ticketTake", "ticketWait", "ticketTest", "ticketTestServing",
                 "ticketTestCas", "ticketRelease"}
QueuePlaces == {"queueSet", "queueHead", "queueFirst", "queueGrab", "queueTail",
                "queueJoin", "queueLink", "queueSpin", "queueTest", "queueTestCas",
                "releaseHead", "releaseFree", "releaseTail", "releaseLast",
                "releaseNext", "releaseUnlink", "releaseWake"}
DrdpaPlaces == {"drdpaTake", "drdpaMask", "drdpaPolls", "drdpaSpin", "drdpaServe",
                "drdpaGrow", "drdpaNewPolls", "drdpaNewMask", "drdpaCleanup",
                "drdpaRelease"}
Places == Shared \cup TasPlaces \cup FutexPlaces \cup TicketPlaces \cup QueuePlaces
          \cup DrdpaPlaces

Typed ==
    /\ kind \in AllKinds /\ nestable \in BOOLEAN /\ checked \in BOOLEAN
    /\ pc \in [Threads -> Places] /\ owner_id \in Threads \cup {0}
    /\ val \in [Threads -> Int] /\ aux \in [Threads -> Int] /\ ticket \in [Threads -> Int]

\* Away from the words that are owner and lock at once, the owner field names the
\* thread between NoteOwner and the call that gives the lock back.
OwnerHolds ==
    ~Words => /\ \A t \in Threads : owner_id = t => At(t, "held") /\ KeepsOwner
              /\ \A t \in Threads : At(t, "held") /\ KeepsOwner => owner_id = t

TasHas(t) == pc[t] \in {"got", "held", "tasRelease"}

TasInv ==
    /\ \A t \in Threads : pc[t] \in Shared \cup TasPlaces
    /\ \A t \in Threads : TasHas(t) <=> poll = t

FutexHas(t) == pc[t] \in {"got", "held", "futexRelease"}

\* The word without the bit for the sleepers is the holder.
FutexInv ==
    /\ \A t \in Threads : pc[t] \in Shared \cup FutexPlaces
    /\ poll \in Nat /\ waker \in [Threads -> {0, 1}]
    /\ poll \div 2 = 0 => poll = 0
    /\ \A t \in Threads : FutexHas(t) <=> poll \div 2 = t
    /\ \A t \in Threads : At(t, "futexMark") => val[t] # 0 /\ val[t] % 2 = 0

TicketHas(t) == pc[t] \in {"got", "held", "ticketRelease"}
InTicketLine(t) == TicketHas(t) \/ At(t, "ticketWait")

\* The tickets in use are those from the one being served to the last one taken.
TicketInv ==
    /\ \A t \in Threads : pc[t] \in Shared \cup TicketPlaces
    /\ next_ticket \in Nat /\ now_serving \in Nat /\ now_serving <= next_ticket
    /\ \A t \in Threads :
          InTicketLine(t) => now_serving <= ticket[t] /\ ticket[t] < next_ticket
    /\ \A t, u \in Threads :
          InTicketLine(t) /\ InTicketLine(u) /\ ticket[t] = ticket[u] => t = u
    /\ \A t \in Threads : TicketHas(t) => ticket[t] = now_serving
    /\ \A t \in Threads : At(t, "ticketTestCas") => ticket[t] <= now_serving

InQueue(t) == pc[t] \in {"queueLink", "queueSpin"} /\ spin_here[t]
Spins(t) == At(t, "queueSpin") /\ spin_here[t]
QueueHas(t) ==
    \/ pc[t] \in {"got", "held", "releaseHead", "releaseFree", "releaseTail", "releaseLast",
                  "releaseNext", "releaseUnlink", "releaseWake"}
    \/ At(t, "queueSpin") /\ ~spin_here[t]

QueueTyped ==
    /\ \A t \in Threads : pc[t] \in Shared \cup QueuePlaces
    /\ head_id \in Threads \cup {-1, 0} /\ tail_id \in Threads \cup {0}
    /\ next_waiting \in [Threads -> Threads \cup {0}]
    /\ spin_here \in [Threads -> BOOLEAN]

OneHas ==
    /\ \A t, u \in Threads : QueueHas(t) /\ QueueHas(u) => t = u
    /\ head_id = 0 => \A t \in Threads : ~QueueHas(t)

\* The ends of the line wait in it; a line that has no head has no tail.
Ends ==
    /\ tail_id = 0 <=> head_id \in {-1, 0}
    /\ head_id \in Threads => Spins(head_id)
    /\ tail_id \in Threads => InQueue(tail_id) /\ next_waiting[tail_id] = 0
    /\ \A t \in Threads :
          pc[t] \in {"queueHead", "queueFirst", "queueGrab", "queueTail", "queueJoin",
                     "queueLink"} => spin_here[t]

\* The links made, and those about to be made, lead from threads of the line to
\* threads of the line, and from and to each at most once.
Links ==
    /\ \A a \in Threads : next_waiting[a] # 0 =>
          InQueue(a) /\ next_waiting[a] # a /\ Spins(next_waiting[a])
    /\ \A a, b \in Threads :
          next_waiting[a] # 0 /\ next_waiting[a] = next_waiting[b] => a = b
    /\ \A u \in Threads : pc[u] \in {"queueJoin", "queueLink"} => aux[u] \in Threads
    /\ \A u \in Threads : At(u, "queueLink") =>
          /\ InQueue(aux[u]) /\ aux[u] # u /\ aux[u] # tail_id
          /\ next_waiting[aux[u]] = 0
    /\ \A u, w \in Threads :
          At(u, "queueLink") /\ At(w, "queueLink") /\ aux[u] = aux[w] => u = w

\* A thread that gives the lock back knows the head of the line; once it has advanced
\* the head, nothing leads to or from the thread that it is about to wake.
Handover ==
    /\ \A t \in Threads :
          pc[t] \in {"releaseTail", "releaseLast", "releaseNext"} =>
             val[t] \in Threads /\ head_id = val[t]
    /\ \A t \in Threads : At(t, "releaseNext") => val[t] # tail_id
    /\ \A t \in Threads : pc[t] \in {"releaseUnlink", "releaseWake"} =>
          /\ val[t] \in Threads /\ Spins(val[t]) /\ val[t] \notin {head_id, tail_id}
          /\ \A a \in Threads : next_waiting[a] # val[t]
          /\ \A w \in Threads : At(w, "queueLink") => aux[w] # val[t]
    /\ \A t \in Threads : At(t, "releaseWake") => next_waiting[val[t]] = 0
    /\ head_id \in Threads =>
          \A a \in Threads : next_waiting[a] = head_id =>
             \E t \in Threads : At(t, "releaseUnlink") /\ val[t] = a

QueueInv == QueueTyped /\ OneHas /\ Ends /\ Links /\ Handover

\* The areas of a DRDPA lock only grow where nobody tests it and the process is not
\* oversubscribed.
OnlyGrows == "drdpa" \notin Tests /\ TRUE \notin Oversubscribed

DrdpaHas(t) == pc[t] \in {"got", "held", "drdpaServe", "drdpaGrow", "drdpaNewPolls",
                          "drdpaNewMask", "drdpaCleanup", "drdpaRelease"}
InDrdpaLine(t) == DrdpaHas(t) \/ pc[t] \in {"drdpaMask", "drdpaPolls", "drdpaSpin"}

\* The tickets in use are those from f, the one whose turn it is, to the last one taken.
DrdpaTickets(f) ==
    /\ f \in Nat /\ next_ticket \in Nat /\ now_serving \in Nat /\ f <= next_ticket
    /\ \A t \in Threads : InDrdpaLine(t) =>
          ticket[t] \in Nat /\ f <= ticket[t] /\ ticket[t] < next_ticket
    /\ \A t, u \in Threads :
          InDrdpaLine(t) /\ InDrdpaLine(u) /\ ticket[t] = ticket[u] => t = u
    /\ \A k \in f .. next_ticket - 1 : \E u \in Threads : InDrdpaLine(u) /\ ticket[u] = k
    /\ \A t \in Threads : DrdpaHas(t) => ticket[t] = f
    /\ \A t \in Threads : DrdpaHas(t) /\ pc[t] # "drdpaServe" => now_serving = f

Areas == UNION {[0 .. m -> Nat] : m \in Nat}

\* The highest index of an area.
Top(a) == Cardinality(DOMAIN a) - 1

\* No word of an area is past the ticket f, and while nobody has the lock only the
\* present area says that it is the turn of f.
DrdpaWords(f) ==
    \A a \in 1 .. Len(areas) : \A i \in 0 .. Top(areas[a]) :
       /\ areas[a][i] <= f
       /\ a # polls /\ (\A t \in Threads : ~DrdpaHas(t)) => areas[a][i] < f

\* Two areas at most can be read: the present one and, by those who came before it was
\* replaced, the last one.
DrdpaAreas ==
    /\ areas \in Seq(Areas) /\ polls \in 1 .. Len(areas)
    /\ old_polls \in 0 .. Len(areas) /\ old_polls # polls
    /\ freed \subseteq 1 .. Len(areas) /\ polls \notin freed /\ old_polls \notin freed
    /\ mask \in 0 .. Top(areas[polls]) /\ cleanup_ticket \in Nat
DrdpaReads ==
    /\ \A t \in Threads : At(t, "drdpaPolls") => aux[t] \in 0 .. Top(areas[polls])
    /\ \A t \in Threads : At(t, "drdpaSpin") =>
          /\ val[t] = polls \/ (val[t] = old_polls /\ old_polls # 0)
          /\ aux[t] \in 0 .. Top(areas[val[t]])
          /\ val[t] = old_polls =>
                \/ ticket[t] < cleanup_ticket
                \/ \E u \in Threads : pc[u] \in {"drdpaNewMask", "drdpaCleanup"}

\* The holder replaces the present area, and nothing else is about to be freed.
DrdpaGrows ==
    /\ \A t \in Threads :
          pc[t] \in {"drdpaServe", "drdpaGrow", "drdpaNewPolls"} => val[t] = polls
    /\ \A t \in Threads : At(t, "drdpaNewPolls") =>
          /\ old_polls = 0 /\ polls < Len(areas) /\ Len(areas) \notin freed
          /\ Top(areas[polls]) <= Top(areas[Len(areas)]) /\ aux[t] = Top(areas[Len(areas)])
    /\ \A t \in Threads : At(t, "drdpaNewMask") => aux[t] = Top(areas[polls])

DrdpaInv ==
    /\ \A t \in Threads : pc[t] \in Shared \cup DrdpaPlaces
    /\ \E f \in Nat : DrdpaTickets(f) /\ DrdpaWords(f)
    /\ DrdpaAreas /\ DrdpaReads /\ DrdpaGrows

IInv ==
    /\ Typed /\ OwnerHolds
    /\ kind = "tas" => TasInv
    /\ kind = "futex" => FutexInv
    /\ kind = "ticket" => TicketInv
    /\ kind = "queuing" => QueueInv
    /\ kind = "drdpa" => OnlyGrows /\ DrdpaInv
---------------------------------------------------------------------------
(***************************************************************************)
(* The owner field.                                                        *)
(***************************************************************************)
LEMMA AreaSize ==
    ASSUME NEW m \in Nat, NEW a, DOMAIN a = 0 .. m
    PROVE  Top(a) = m
<1>1. Cardinality(0 .. m) = m + 1
    BY FS_Interval
<1>2. QED
    BY <1>1 DEF Top

\* What an area is made of.
LEMMA AreaIs ==
    ASSUME NEW a \in Areas
    PROVE  Top(a) \in Nat /\ a \in [0 .. Top(a) -> Nat] /\ DOMAIN a = 0 .. Top(a)
           /\ Cardinality(DOMAIN a) = Top(a) + 1
<1>1. PICK m \in Nat : a \in [0 .. m -> Nat]
    BY DEF Areas
<1>2. DOMAIN a = 0 .. m
    BY <1>1
<1>3. Top(a) = m
    BY <1>2, AreaSize
<1>4. Cardinality(DOMAIN a) = m + 1
    BY <1>2, FS_Interval
<1>5. QED
    BY <1>1, <1>2, <1>3, <1>4

LEMMA InitInv ==
    ASSUME Init, kind = "drdpa" => OnlyGrows
    PROVE  IInv
<1>1. Typed
    BY LocksAssumption DEF Init, Typed, AllKinds, Places, Shared
<1>8. OwnerHolds
    BY DEF Init, OwnerHolds, At, Threads
<1>2. kind = "tas" => TasInv
    BY DEF Init, TasInv, TasHas, Shared, Threads
<1>3. kind = "futex" => FutexInv
  <2>1. 0 \div 2 = 0
    OBVIOUS
  <2>2. QED
    BY <2>1 DEF Init, FutexInv, FutexHas, Shared, At, Threads
<1>4. kind = "ticket" => TicketInv
    BY DEF Init, TicketInv, TicketHas, InTicketLine, Shared, At, Threads
<1>5. QueueTyped /\ OneHas /\ Ends
    BY DEF Init, QueueTyped, OneHas, QueueHas, Ends, Spins, InQueue, Shared, At, Threads
<1>6. Links /\ Handover
    BY DEF Init, Links, Handover, Threads, At
<1>7. DrdpaInv
  <2>1. \A t \in Threads : pc[t] = "idle"
    BY DEF Init
  <2>2. areas = << [i \in {0} |-> 0] >> /\ Len(areas) = 1 /\ areas[1] = [i \in {0} |-> 0]
        /\ polls = 1 /\ mask = 0 /\ old_polls = 0 /\ freed = {} /\ cleanup_ticket = 0
    BY DEF Init
  <2>3. DOMAIN areas[1] = 0 .. 0
    BY <2>2
  <2>4. Top(areas[1]) = 0
    BY <2>3, AreaSize
  <2>5. areas \in Seq(Areas)
    <3>1. areas[1] \in [0 .. 0 -> Nat]
      BY <2>2
    <3>2. areas[1] \in Areas
      BY <3>1 DEF Areas
    <3>3. QED
      BY <2>2, <3>2
  <2>6. DrdpaAreas
    BY <2>2, <2>4, <2>5 DEF DrdpaAreas
  <2>7. DrdpaTickets(0)
    BY <2>1 DEF Init, DrdpaTickets, InDrdpaLine, DrdpaHas
  <2>8. DrdpaWords(0)
    BY <2>2, <2>4 DEF DrdpaWords
  <2>9. DrdpaReads /\ DrdpaGrows
    BY <2>1 DEF DrdpaReads, DrdpaGrows, At
  <2>10. QED
    BY <2>1, <2>6, <2>7, <2>8, <2>9 DEF DrdpaInv, Shared
<1>9. QED
    BY <1>1, <1>2, <1>3, <1>4, <1>5, <1>6, <1>7, <1>8 DEF IInv, QueueInv

\* A step of one kind of lock that neither enters nor leaves "held" keeps the owner.
LEMMA OwnerKept ==
    ASSUME OwnerHolds, UNCHANGED <<kind, nestable, checked, owner_id>>,
           \A u \in Threads : At(u, "held")' <=> At(u, "held")
    PROVE  OwnerHolds'
BY DEF OwnerHolds, KeepsOwner, Words

\* Where a thread is tells the kind of the lock.
LEMMA KindOf ==
    ASSUME IInv, NEW t \in Threads
    PROVE  /\ pc[t] \in TasPlaces => kind = "tas"
           /\ pc[t] \in FutexPlaces => kind = "futex"
           /\ pc[t] \in TicketPlaces => kind = "ticket"
           /\ pc[t] \in QueuePlaces => kind = "queuing"
           /\ pc[t] \in DrdpaPlaces => kind = "drdpa"
           /\ pc[t] \notin {"mistaken", "drdpaTest", "drdpaTestPolls", "drdpaTestMask",
                             "drdpaTestRead", "drdpaTestCas", "drdpaTestServe"}
<1>1. /\ kind = "tas" => pc[t] \in Shared \cup TasPlaces
      /\ kind = "futex" => pc[t] \in Shared \cup FutexPlaces
      /\ kind = "ticket" => pc[t] \in Shared \cup TicketPlaces
    BY DEF IInv, TasInv, FutexInv, TicketInv
<1>2. /\ kind = "queuing" => pc[t] \in Shared \cup QueuePlaces
      /\ kind = "drdpa" => pc[t] \in Shared \cup DrdpaPlaces
    BY DEF IInv, QueueInv, QueueTyped, DrdpaInv
<1>3. kind \in AllKinds
    BY DEF IInv, Typed
<1>4. CASE kind = "tas"
    BY <1>1, <1>4 DEF Shared, TasPlaces, FutexPlaces, TicketPlaces, QueuePlaces, DrdpaPlaces
<1>5. CASE kind = "futex"
    BY <1>1, <1>5 DEF Shared, TasPlaces, FutexPlaces, TicketPlaces, QueuePlaces, DrdpaPlaces
<1>6. CASE kind = "ticket"
    BY <1>1, <1>6 DEF Shared, TasPlaces, FutexPlaces, TicketPlaces, QueuePlaces, DrdpaPlaces
<1>7. CASE kind = "queuing"
    BY <1>2, <1>7 DEF Shared, TasPlaces, FutexPlaces, TicketPlaces, QueuePlaces, DrdpaPlaces
<1>8. CASE kind = "drdpa"
    BY <1>2, <1>8 DEF Shared, TasPlaces, FutexPlaces, TicketPlaces, QueuePlaces, DrdpaPlaces
<1>9. QED
    BY <1>3, <1>4, <1>5, <1>6, <1>7, <1>8 DEF AllKinds

\* A thread between omp_set_lock and omp_unset_lock is the owner where one is kept; one
\* outside is not.
LEMMA OwnerRight ==
    ASSUME IInv, NEW t \in Threads
    PROVE  /\ At(t, "idle") => ~TakenForOwner(t)
           /\ At(t, "held") /\ checked => Owner = t
<1>1. CASE kind = "tas"
    BY <1>1 DEF IInv, TasInv, TasHas, Owner, TakenForOwner, At
<1>2. CASE kind = "futex"
    BY <1>2 DEF IInv, FutexInv, FutexHas, Owner, TakenForOwner, At
<1>3. CASE kind \in {"ticket", "queuing", "drdpa"}
    BY <1>3 DEF IInv, OwnerHolds, KeepsOwner, Words, Owner, TakenForOwner, At
<1>4. QED
    BY <1>1, <1>2, <1>3 DEF IInv, Typed, AllKinds
---------------------------------------------------------------------------
(***************************************************************************)
(* The entry points: what they do to every kind.                           *)
(***************************************************************************)

\* The steps from and to "idle", "got" and "held" that all the kinds share.
SharedMove(t) ==
    \/ At(t, "idle") /\ Go(t, Entry)
    \/ At(t, "idle") /\ kind \in Tests /\ Go(t, TestEntry)
    \/ At(t, "got") /\ Go(t, "held")
    \/ At(t, "held") /\ Go(t, Exit)
    \/ UNCHANGED pc

LEMMA SharedMoves ==
    ASSUME IInv, NEW t \in Threads,
           CallSet(t) \/ CallTest(t) \/ NoteOwner(t) \/ Again(t) \/ CallUnset(t)
    PROVE  SharedMove(t) /\ UNCHANGED <<lock, local, word, tickets, queue, area>>
<1>1. CASE CallSet(t)
    BY <1>1, OwnerRight DEF CallSet, SharedMove
<1>2. CASE CallTest(t)
    BY <1>2, OwnerRight DEF CallTest, SharedMove
<1>3. CASE NoteOwner(t)
    BY <1>3 DEF NoteOwner, SharedMove
<1>4. CASE Again(t)
    BY <1>4 DEF Again, SharedMove
<1>5. CASE CallUnset(t)
    BY <1>5, OwnerRight DEF CallUnset, SharedMove
<1>6. QED
    BY <1>1, <1>2, <1>3, <1>4, <1>5

LEMMA SharedTas ==
    ASSUME kind = "tas", pc \in [Threads -> Places], TasInv, NEW t \in Threads,
           SharedMove(t), UNCHANGED <<lock, word>>
    PROVE  TasInv'
BY DEF TasInv, TasHas, Shared, TasPlaces, SharedMove, Entry, TestEntry, Exit, At, Go, word

LEMMA SharedFutex ==
    ASSUME kind = "futex", pc \in [Threads -> Places], FutexInv, NEW t \in Threads,
           SharedMove(t), UNCHANGED <<lock, local, word>>
    PROVE  FutexInv'
<1>1. ASSUME NEW u \in Threads
      PROVE  /\ FutexHas(u)' <=> FutexHas(u)
             /\ At(u, "futexMark")' <=> At(u, "futexMark")
             /\ pc'[u] \in Shared \cup FutexPlaces
  <2>1. CASE u = t
    BY <2>1 DEF FutexInv, FutexHas, SharedMove, Entry, TestEntry, Exit, At, Go, Shared,
                FutexPlaces
  <2>2. CASE u # t
    BY <2>2 DEF FutexInv, FutexHas, SharedMove, At, Go
  <2>3. QED
    BY <2>1, <2>2
<1>2. QED
    BY <1>1 DEF FutexInv, word, local

LEMMA SharedTicket ==
    ASSUME kind = "ticket", pc \in [Threads -> Places], TicketInv, NEW t \in Threads,
           SharedMove(t), UNCHANGED <<lock, local, tickets>>
    PROVE  TicketInv'
<1>1. ASSUME NEW u \in Threads
      PROVE  /\ TicketHas(u)' <=> TicketHas(u)
             /\ InTicketLine(u)' <=> InTicketLine(u)
             /\ At(u, "ticketTestCas")' <=> At(u, "ticketTestCas")
             /\ pc'[u] \in Shared \cup TicketPlaces
  <2>1. CASE u = t
    BY <2>1 DEF TicketInv, TicketHas, InTicketLine, SharedMove, Entry, TestEntry, Exit, At,
                Go, Shared, TicketPlaces
  <2>2. CASE u # t
    BY <2>2 DEF TicketInv, TicketHas, InTicketLine, SharedMove, At, Go
  <2>3. QED
    BY <2>1, <2>2
<1>2. UNCHANGED <<ticket, next_ticket, now_serving>>
    BY DEF local, tickets
<1>3. QED
    BY <1>1, <1>2 DEF TicketInv

LEMMA SharedQueue ==
    ASSUME kind = "queuing", pc \in [Threads -> Places], QueueInv, NEW t \in Threads,
           SharedMove(t), UNCHANGED <<lock, local, queue>>
    PROVE  QueueInv'
<1>1. ASSUME NEW u \in Threads
      PROVE  /\ QueueHas(u)' <=> QueueHas(u)
             /\ pc'[u] \in Shared \cup QueuePlaces
             /\ \A l \in QueuePlaces \ {"queueSet", "queueTest", "releaseHead"} :
                   At(u, l)' <=> At(u, l)
  <2>1. UNCHANGED spin_here
    BY DEF queue
  <2>2. CASE u = t
    BY <2>1, <2>2 DEF QueueInv, QueueTyped, QueueHas, SharedMove, Entry, TestEntry, Exit,
                      At, Go, Shared, QueuePlaces
  <2>3. CASE u # t
    BY <2>1, <2>3 DEF QueueInv, QueueTyped, QueueHas, SharedMove, At, Go
  <2>4. QED
    BY <2>2, <2>3
<1>2. UNCHANGED <<val, aux, head_id, tail_id, next_waiting, spin_here>>
    BY DEF local, queue
<1>3. ASSUME NEW u \in Threads
      PROVE  /\ InQueue(u)' <=> InQueue(u)
             /\ Spins(u)' <=> Spins(u)
    BY <1>1, <1>2 DEF InQueue, Spins, QueuePlaces, At
<1>4. QueueTyped' /\ OneHas'
    BY <1>1, <1>2 DEF QueueInv, QueueTyped, OneHas
<1>5. Ends'
    BY <1>1, <1>2, <1>3 DEF QueueInv, QueueTyped, Ends, QueuePlaces, At
<1>6. Links'
    BY <1>1, <1>2, <1>3 DEF QueueInv, QueueTyped, Links, QueuePlaces, At
<1>7. Handover'
    BY <1>1, <1>2, <1>3 DEF QueueInv, QueueTyped, Handover, QueuePlaces, At
<1>8. QED
    BY <1>4, <1>5, <1>6, <1>7 DEF QueueInv

LEMMA SharedDrdpa ==
    ASSUME kind = "drdpa", OnlyGrows, pc \in [Threads -> Places], DrdpaInv, NEW t \in Threads,
           SharedMove(t), UNCHANGED <<lock, local, tickets, area>>
    PROVE  DrdpaInv'
<1>1. ASSUME NEW u \in Threads
      PROVE  /\ DrdpaHas(u)' <=> DrdpaHas(u)
             /\ InDrdpaLine(u)' <=> InDrdpaLine(u)
             /\ pc'[u] \in Shared \cup DrdpaPlaces
             /\ \A l \in DrdpaPlaces \ {"drdpaTake", "drdpaRelease"} : At(u, l)' <=> At(u, l)
  <2>1. CASE u = t
    BY <2>1 DEF DrdpaInv, DrdpaHas, InDrdpaLine, SharedMove, OnlyGrows, Entry, Exit, At, Go,
                Shared, DrdpaPlaces
  <2>2. CASE u # t
    BY <2>2 DEF DrdpaInv, DrdpaHas, InDrdpaLine, SharedMove, At, Go
  <2>3. QED
    BY <2>1, <2>2
<1>2. /\ UNCHANGED <<val, aux, ticket, next_ticket, now_serving>>
      /\ UNCHANGED <<areas, freed, polls, mask, old_polls, cleanup_ticket>>
    BY DEF local, tickets, area
<1>3. PICK f \in Nat : DrdpaTickets(f) /\ DrdpaWords(f)
    BY DEF DrdpaInv
<1>4. \A u \in Threads : pc'[u] = "drdpaServe" <=> pc[u] = "drdpaServe"
    BY <1>1 DEF At, DrdpaPlaces
<1>5. DrdpaTickets(f)'
    BY <1>1, <1>2, <1>3, <1>4 DEF DrdpaTickets
<1>6. DrdpaWords(f)'
    BY <1>1, <1>2, <1>3 DEF DrdpaWords, Top
<1>7. DrdpaAreas'
    BY <1>2 DEF DrdpaInv, DrdpaAreas, Top
<1>8. DrdpaReads' /\ DrdpaGrows'
    BY <1>1, <1>2 DEF DrdpaInv, DrdpaReads, DrdpaGrows, DrdpaPlaces, At, Top
<1>9. QED
    BY <1>1, <1>5, <1>6, <1>7, <1>8 DEF DrdpaInv

LEMMA SharedStep ==
    ASSUME IInv, NEW t \in Threads,
           CallSet(t) \/ CallTest(t) \/ NoteOwner(t) \/ Again(t) \/ CallUnset(t)
    PROVE  IInv'
<1>1. SharedMove(t) /\ UNCHANGED <<lock, local, word, tickets, queue, area>>
    BY SharedMoves
<1>2. UNCHANGED <<kind, nestable, checked, val, aux, ticket, poll>>
    BY <1>1 DEF lock, local, word
<1>3. Typed'
  <2>1. pc' \in [Threads -> Places]
    <3>1. kind \in AllKinds /\ (kind \in Tests => kind # "drdpa") /\ pc \in [Threads -> Places]
      BY DEF IInv, Typed, OnlyGrows
    <3>2. Entry \in Places /\ Exit \in Places
      BY <3>1 DEF AllKinds, Entry, Exit, Places, TasPlaces, FutexPlaces, TicketPlaces,
                  QueuePlaces, DrdpaPlaces
    <3>3. kind \in Tests => TestEntry \in Places
      BY <3>1 DEF AllKinds, TestEntry, Places, TasPlaces, FutexPlaces, TicketPlaces,
                  QueuePlaces
    <3>4. "held" \in Places
      BY DEF Places, Shared
    <3>5. QED
      BY <1>1, <3>1, <3>2, <3>3, <3>4 DEF SharedMove, Go
  <2>2. owner_id' \in Threads \cup {0}
    BY DEF IInv, Typed, CallSet, CallTest, NoteOwner, Again, CallUnset, nest
  <2>3. QED
    BY <1>2, <2>1, <2>2 DEF IInv, Typed
<1>4. OwnerHolds'
  <2>1. SUFFICES ASSUME ~Words PROVE OwnerHolds'
    BY <1>2 DEF OwnerHolds, Words
  <2>2. KeepsOwner' <=> KeepsOwner
    BY <1>2 DEF KeepsOwner, Words
  <2>3. ASSUME NEW u \in Threads, u # t
        PROVE  /\ At(u, "held")' <=> At(u, "held")
               /\ (At(t, "got") \/ At(t, "held")) => ~At(u, "held")
    <3>1. At(u, "held")' <=> At(u, "held")
      BY <1>1, <2>3 DEF IInv, Typed, SharedMove, At, Go
    <3>2. CASE kind = "ticket"
      BY <2>3, <3>1, <3>2 DEF IInv, TicketInv, TicketHas, InTicketLine, At
    <3>3. CASE kind = "queuing"
      BY <2>3, <3>1, <3>3 DEF IInv, QueueInv, OneHas, QueueHas, At
    <3>4. CASE kind = "drdpa"
      BY <2>3, <3>1, <3>4 DEF IInv, DrdpaInv, DrdpaTickets, DrdpaHas, InDrdpaLine, At
    <3>5. QED
      BY <2>1, <3>1, <3>2, <3>3, <3>4 DEF IInv, Typed, AllKinds, Words
  <2>4. CASE CallSet(t) \/ CallTest(t)
    <3>1. UNCHANGED owner_id /\ (At(t, "held")' <=> At(t, "held"))
      BY <2>4, OwnerRight DEF IInv, Typed, CallSet, CallTest, nest, At, Go, Entry,
                              TestEntry,
                              AllKinds
    <3>2. QED
      BY <1>2, <2>3, <3>1, OwnerKept DEF IInv
  <2>5. CASE NoteOwner(t)
    <3>1. At(t, "got") /\ At(t, "held")' /\ owner_id' = (IF KeepsOwner THEN t ELSE owner_id)
      BY <2>1, <2>5 DEF IInv, Typed, NoteOwner, nest, At, Go
    <3>2. owner_id # t
      BY <2>1, <3>1 DEF IInv, OwnerHolds, At
    <3>3. QED
      BY <2>1, <2>2, <2>3, <3>1, <3>2 DEF IInv, OwnerHolds
  <2>6. CASE Again(t)
    <3>1. UNCHANGED <<owner_id, pc>>
      BY <2>6 DEF Again
    <3>2. QED
      BY <1>2, <3>1, OwnerKept DEF IInv, At
  <2>7. CASE CallUnset(t)
    <3>1. At(t, "held")
      BY <2>7 DEF CallUnset
    <3>2. CASE UNCHANGED <<owner_id, pc>>
      BY <1>2, <3>2, OwnerKept DEF IInv, At
    <3>3. CASE ~UNCHANGED <<owner_id, pc>>
      <4>1. ~At(t, "held")' /\ owner_id' = (IF KeepsOwner THEN 0 ELSE owner_id)
        BY <2>1, <2>7, <3>3, OwnerRight DEF IInv, Typed, AllKinds, CallUnset,
                                            ClearsOwner, At,
                                            Go, Exit, Words, nest
      <4>2. ~KeepsOwner => owner_id # t
        BY <2>1 DEF IInv, OwnerHolds
      <4>3. 0 \notin Threads
        BY DEF Threads
      <4>4. QED
        BY <2>1, <2>2, <2>3, <3>1, <4>1, <4>2, <4>3 DEF IInv, OwnerHolds
    <3>4. QED
      BY <3>2, <3>3
  <2>8. QED
    BY <2>4, <2>5, <2>6, <2>7
<1>5. QED
    BY <1>1, <1>2, <1>3, <1>4, SharedTas, SharedFutex, SharedTicket, SharedQueue,
       SharedDrdpa
       DEF IInv, Typed
---------------------------------------------------------------------------
(***************************************************************************)
(* Test-and-set: the word names the holder.                                *)
(***************************************************************************)
LEMMA TasStep ==
    ASSUME IInv, NEW t \in Threads,
           TasRead(t) \/ TasCas(t) \/ TasTest(t) \/ TasRelease(t)
    PROVE  IInv'
<1>1. kind = "tas" /\ pc[t] \in TasPlaces
    BY KindOf DEF TasRead, TasCas, TasTest, TasRelease, At, TasPlaces
<1>2. /\ UNCHANGED <<kind, nestable, checked, owner_id, val, aux, ticket>>
      /\ \E l \in TasPlaces \cup {"idle", "got"} : Go(t, l)
    BY DEF TasRead, TasCas, TasTest, TasRelease, lock, nest, local, Got, TasPlaces
<1>3. Typed'
    BY <1>2 DEF IInv, Typed, Go, Places, Shared, TasPlaces
<1>4. \A u \in Threads : At(u, "held")' <=> At(u, "held")
    BY <1>1, <1>2 DEF IInv, Typed, At, Go, TasPlaces
<1>5. OwnerHolds'
    BY <1>2, <1>4, OwnerKept DEF IInv
<1>6. t # 0 /\ pc \in [Threads -> Places]
    BY DEF Threads, IInv, Typed
<1>7. TasInv'
  <2>1. CASE TasRead(t)
    BY <1>1, <1>6, <2>1 DEF IInv, TasInv, TasHas, TasRead, word, At, Go, Shared, TasPlaces
  <2>2. CASE TasCas(t) \/ TasTest(t)
    <3>1. CASE poll = 0
      <4>1. poll' = t /\ Go(t, "got")
        BY <2>2, <3>1 DEF TasCas, TasTest, CasFindsFree, Got
      <4>2. \A u \in Threads : ~TasHas(u)
        BY <1>1, <3>1 DEF IInv, TasInv, Threads
      <4>3. QED
        BY <1>1, <1>6, <4>1, <4>2 DEF IInv, TasInv, TasHas, Go, Shared
    <3>2. CASE poll # 0
      <4>1. UNCHANGED poll /\ (Go(t, "idle") \/ Go(t, "tasRead")) /\ ~TasHas(t)
        BY <2>2, <3>2 DEF TasCas, TasTest, CasFindsFree, TasHas, At
      <4>2. QED
        BY <1>1, <1>6, <4>1 DEF IInv, TasInv, TasHas, Go, Shared, TasPlaces
    <3>3. QED
      BY <3>1, <3>2
  <2>3. CASE TasRelease(t)
    BY <1>1, <1>6, <2>3 DEF IInv, TasInv, TasHas, TasRelease, At, Go, Shared, TasPlaces,
                            Threads
  <2>4. QED
    BY <2>1, <2>2, <2>3
<1>8. QED
    BY <1>1, <1>2, <1>3, <1>5, <1>7 DEF IInv
---------------------------------------------------------------------------
(***************************************************************************)
(* Futex: the word without the sleepers' bit names the holder.             *)
(***************************************************************************)
LEMMA HalfOfWord ==
    /\ \A h \in Nat, b \in {0, 1} : (2 * h + b) \div 2 = h /\ 2 * h + b \in Nat
    /\ \A w \in Nat : w % 2 = 0 => (w + 1) \div 2 = w \div 2
    /\ 0 \div 2 = 0
OBVIOUS

LEMMA FutexStep ==
    ASSUME IInv, NEW t \in Threads,
           \/ FutexCas(t) \/ FutexMark(t) \/ FutexWait(t) \/ FutexWoken(t)
           \/ FutexTest(t) \/ FutexRelease(t) \/ FutexWake(t) \/ FutexSignal(t)
    PROVE  IInv'
<1>1. kind = "futex" /\ pc[t] \in FutexPlaces
    BY KindOf DEF FutexCas, FutexMark, FutexWait, FutexWoken, FutexTest, FutexRelease,
                  FutexWake, FutexSignal, At, FutexPlaces
<1>2. /\ UNCHANGED <<kind, nestable, checked, owner_id>>
      /\ \E l \in FutexPlaces \cup {"idle", "got"} : Go(t, l)
    BY DEF FutexCas, FutexMark, FutexWait, FutexWoken, FutexTest, FutexRelease, FutexWake,
           FutexSignal, lock, nest, Got, Idle, FutexPlaces
<1>3. \A u \in Threads : At(u, "held")' <=> At(u, "held")
    BY <1>1, <1>2 DEF IInv, Typed, At, Go, FutexPlaces
<1>4. OwnerHolds'
    BY <1>2, <1>3, OwnerKept DEF IInv
<1>5. /\ t \in Nat \ {0} /\ pc \in [Threads -> Places] /\ FutexInv
      /\ val \in [Threads -> Int]
    BY <1>1 DEF Threads, IInv, Typed
<1>6. Typed'
  <2>1. /\ val' \in [Threads -> Int] /\ aux' \in [Threads -> Int]
        /\ ticket' \in [Threads -> Int]
    BY <1>5 DEF IInv, Typed, FutexInv, FutexCas, FutexMark, FutexWait, FutexWoken,
                FutexTest,
                FutexRelease, FutexWake, FutexSignal, Idle, local, Set
  <2>2. QED
    BY <1>2, <2>1 DEF IInv, Typed, Go, Places, Shared, FutexPlaces
<1>7. FutexInv'
  <2>1. CASE FutexCas(t)
    <3>1. CASE poll = 0
      <4>1. poll' = 2 * t + waker[t] /\ waker' = Set(waker, t, 0) /\ Go(t, "got")
            /\ UNCHANGED val
        BY <2>1, <3>1 DEF FutexCas, Got
      <4>2. poll' \in Nat /\ poll' \div 2 = t
        BY <1>5, <4>1, HalfOfWord DEF FutexInv
      <4>3. \A u \in Threads : ~FutexHas(u)
        BY <1>5, <3>1, HalfOfWord DEF FutexInv, Threads
      <4>4. \A u \in Threads : FutexHas(u)' <=> u = t
        BY <1>5, <4>1, <4>3 DEF FutexHas, Go
      <4>5. QED
        BY <1>5, <4>1, <4>2, <4>4 DEF FutexInv, Shared, Set, At, Go
    <3>2. CASE poll # 0
      <4>1. /\ val' = Set(val, t, poll) /\ UNCHANGED <<poll, waker>>
            /\ Go(t, IF poll % 2 = 1 THEN "futexWait" ELSE "futexMark")
        BY <2>1, <3>2 DEF FutexCas
      <4>2. \A u \in Threads : FutexHas(u)' <=> FutexHas(u)
        BY <1>5, <2>1, <4>1 DEF FutexCas, FutexHas, At, Go
      <4>3. \A u \in Threads : pc'[u] \in Shared \cup FutexPlaces
        BY <1>5, <4>1 DEF FutexInv, FutexPlaces, Go
      <4>4. poll % 2 \in {0, 1}
        BY <1>5 DEF FutexInv
      <4>5. \A u \in Threads : At(u, "futexMark")' => val'[u] # 0 /\ val'[u] % 2 = 0
        BY <1>5, <3>2, <4>1, <4>4 DEF FutexInv, At, Go, Set
      <4>6. QED
        BY <1>5, <4>1, <4>2, <4>3, <4>5 DEF FutexInv
    <3>3. QED
      BY <3>1, <3>2
  <2>2. CASE FutexMark(t)
    <3>1. \A u \in Threads : FutexHas(u)' <=> FutexHas(u)
      BY <1>5, <2>2 DEF FutexMark, FutexHas, At, Go
    <3>2. poll' \in Nat /\ poll' \div 2 = poll \div 2 /\ (poll' \div 2 = 0 => poll' = 0)
      <4>1. CASE poll = val[t]
        BY <1>5, <2>2, <4>1, HalfOfWord DEF FutexInv, FutexMark
      <4>2. CASE poll # val[t]
        BY <1>5, <2>2, <4>2 DEF FutexInv, FutexMark
      <4>3. QED
        BY <4>1, <4>2
    <3>3. UNCHANGED waker
      BY <2>2 DEF FutexMark
    <3>4. \A u \in Threads :
             /\ pc'[u] \in Shared \cup FutexPlaces
             /\ At(u, "futexMark")' => u # t /\ At(u, "futexMark")
             /\ u # t => val'[u] = val[u]
      BY <1>5, <2>2 DEF FutexInv, FutexMark, FutexPlaces, At, Go, Set
    <3>5. \A u \in Threads : At(u, "futexMark")' => val'[u] # 0 /\ val'[u] % 2 = 0
      BY <1>5, <3>4 DEF FutexInv
    <3>6. \A u \in Threads : FutexHas(u)' <=> poll' \div 2 = u
      BY <1>5, <3>1, <3>2 DEF FutexInv
    <3>7. QED
      BY <1>5, <3>2, <3>3, <3>4, <3>5, <3>6 DEF FutexInv
  <2>3. CASE FutexWait(t) \/ FutexWoken(t) \/ FutexWake(t) \/ FutexSignal(t)
    <3>1. \A u \in Threads :
             /\ FutexHas(u)' <=> FutexHas(u)
             /\ pc'[u] \in Shared \cup FutexPlaces
             /\ At(u, "futexMark")' => u # t /\ At(u, "futexMark")
             /\ u # t => val'[u] = val[u]
      BY <1>5, <2>3 DEF FutexInv, FutexHas, FutexWait, FutexWoken, FutexWake, FutexSignal,
                        Idle,
                        local, At, Go, Set, Shared, FutexPlaces
    <3>2. UNCHANGED poll /\ waker' \in [Threads -> {0, 1}]
      BY <1>5, <2>3 DEF FutexInv, FutexWait, FutexWoken, FutexWake, FutexSignal, AfterSleep,
                        Set, word
    <3>3. QED
      BY <1>5, <3>1, <3>2 DEF FutexInv
  <2>4. CASE FutexTest(t)
    <3>1. UNCHANGED <<val, waker>>
      BY <2>4 DEF FutexTest, local
    <3>2. CASE poll = 0
      <4>1. poll' = 2 * t /\ Go(t, "got")
        BY <2>4, <3>2 DEF FutexTest, Got
      <4>2. poll' \in Nat /\ poll' \div 2 = t
        BY <1>5, <4>1
      <4>3. \A u \in Threads : FutexHas(u)' <=> u = t
        BY <1>5, <3>2, <4>1, HalfOfWord DEF FutexInv, FutexHas, Threads, Go
      <4>4. QED
        BY <1>5, <3>1, <4>1, <4>2, <4>3 DEF FutexInv, Shared, At, Go
    <3>3. CASE poll # 0
      <4>1. UNCHANGED poll /\ Go(t, "idle") /\ At(t, "futexTest")
        BY <2>4, <3>3 DEF FutexTest
      <4>2. QED
        BY <1>5, <3>1, <4>1 DEF FutexInv, FutexHas, Shared, At, Go
    <3>4. QED
      BY <3>2, <3>3
  <2>5. CASE FutexRelease(t)
    <3>1. poll' = 0 /\ FutexHas(t) /\ UNCHANGED waker
      BY <2>5 DEF FutexRelease, FutexHas, At
    <3>2. \A u \in Threads :
             /\ u # t => ~FutexHas(u) /\ pc'[u] = pc[u] /\ val'[u] = val[u]
             /\ pc'[t] \in {"idle", "futexWake"}
      BY <1>5, <2>5, <3>1 DEF FutexInv, FutexRelease, Idle, Go, Set, local
    <3>3. \A u \in Threads : ~FutexHas(u)'
      BY <3>2 DEF FutexHas
    <3>4. QED
      BY <1>5, <3>1, <3>2, <3>3, HalfOfWord DEF FutexInv, Shared, FutexPlaces, At, Threads
  <2>6. QED
    BY <2>1, <2>2, <2>3, <2>4, <2>5
<1>8. QED
    BY <1>1, <1>2, <1>4, <1>6, <1>7 DEF IInv
---------------------------------------------------------------------------
(***************************************************************************)
(* Ticket.                                                                 *)
(***************************************************************************)
LEMMA TicketStep ==
    ASSUME IInv, NEW t \in Threads,
           \/ TicketTake(t) \/ TicketWait(t) \/ TicketTest(t) \/ TicketTestServing(t)
           \/ TicketTestCas(t) \/ TicketRelease(t)
    PROVE  IInv'
<1>1. kind = "ticket" /\ pc[t] \in TicketPlaces
    BY KindOf DEF TicketTake, TicketWait, TicketTest, TicketTestServing, TicketTestCas,
                  TicketRelease, At, TicketPlaces
<1>2. /\ UNCHANGED <<kind, nestable, checked, owner_id>>
      /\ \E l \in TicketPlaces \cup {"idle", "got"} : Go(t, l)
    BY DEF TicketTake, TicketWait, TicketTest, TicketTestServing, TicketTestCas,
           TicketRelease, lock, nest, Got, Idle, TicketPlaces
<1>3. \A u \in Threads : At(u, "held")' <=> At(u, "held")
    BY <1>1, <1>2 DEF IInv, Typed, At, Go, TicketPlaces
<1>4. OwnerHolds'
    BY <1>2, <1>3, OwnerKept DEF IInv
<1>5. /\ pc \in [Threads -> Places] /\ TicketInv /\ ticket \in [Threads -> Int]
    BY <1>1 DEF IInv, Typed
<1>6. Typed'
  <2>1. /\ val' \in [Threads -> Int] /\ aux' \in [Threads -> Int]
        /\ ticket' \in [Threads -> Int]
    BY <1>5 DEF IInv, Typed, TicketInv, TicketTake, TicketWait, TicketTest,
                TicketTestServing,
                TicketTestCas, TicketRelease, Idle, local, Set
  <2>2. QED
    BY <1>2, <2>1 DEF IInv, Typed, Go, Places, Shared, TicketPlaces
<1>7. TicketInv'
  <2>1. CASE TicketTake(t)
    BY <1>5, <2>1 DEF TicketInv, TicketHas, InTicketLine, TicketTake, At, Go, Set, Shared,
                      TicketPlaces
  <2>2. CASE TicketWait(t)
    BY <1>5, <2>2 DEF TicketInv, TicketHas, InTicketLine, TicketWait, Got, local, tickets,
                      At,
                      Go, Shared, TicketPlaces
  <2>3. CASE TicketTest(t)
    BY <1>5, <2>3 DEF TicketInv, TicketHas, InTicketLine, TicketTest, tickets, At, Go, Set,
                      Shared, TicketPlaces
  <2>4. CASE TicketTestServing(t)
    BY <1>5, <2>4 DEF TicketInv, TicketHas, InTicketLine, TicketTestServing, ServedNow,
                      Idle,
                      local, tickets, At, Go, Set, Shared, TicketPlaces
  <2>5. CASE TicketTestCas(t)
    BY <1>5, <2>5 DEF TicketInv, TicketHas, InTicketLine, TicketTestCas, Got, Idle, local,
                      At,
                      Go, Set, Shared, TicketPlaces
  <2>6. CASE TicketRelease(t)
    BY <1>5, <2>6 DEF TicketInv, TicketHas, InTicketLine, TicketRelease, Idle, At, Go, Set,
                      Shared, TicketPlaces
  <2>7. QED
    BY <2>1, <2>2, <2>3, <2>4, <2>5, <2>6
<1>8. QED
    BY <1>1, <1>2, <1>4, <1>6, <1>7 DEF IInv
---------------------------------------------------------------------------
(***************************************************************************)
(* Queuing.  The lemmas are about what a step does to the queue; the steps *)
(* of the code are instances of them.                                      *)
(***************************************************************************)
Outside == {"idle", "queueSet", "queueHead", "queueFirst", "queueGrab", "queueTail",
            "queueJoin", "queueTest", "queueTestCas"}
Releasing == {"releaseHead", "releaseFree", "releaseTail", "releaseLast", "releaseNext"}

\* A thread outside stays outside.
LEMMA Quiet ==
    ASSUME QueueInv, pc \in [Threads -> Places], val \in [Threads -> Int],
           aux \in [Threads -> Int], NEW t \in Threads,
           pc[t] \in Outside,
           NEW l \in Outside,
           Go(t, l),
           UNCHANGED <<val, head_id, tail_id, next_waiting>>,
           spin_here' \in [Threads -> BOOLEAN],
           aux' \in [Threads -> Int],
           \A u \in Threads : u # t => spin_here'[u] = spin_here[u] /\ aux'[u] = aux[u],
           l \notin {"idle", "queueSet", "queueTest", "queueTestCas"} => spin_here'[t],
           l = "queueJoin" => aux'[t] \in Threads
    PROVE  QueueInv'
<1>1. ASSUME NEW u \in Threads
      PROVE  /\ InQueue(u)' <=> InQueue(u)
             /\ Spins(u)' <=> Spins(u)
             /\ QueueHas(u)' <=> QueueHas(u)
             /\ At(u, "queueLink")' <=> At(u, "queueLink")
             /\ At(u, "queueLink") => aux'[u] = aux[u]
             /\ \A p \in QueuePlaces \ Outside : At(u, p)' <=> At(u, p)
  <2>1. CASE u = t
    BY <2>1 DEF InQueue, Spins, QueueHas, At, Go, Outside, QueuePlaces
  <2>2. CASE u # t
    BY <2>2 DEF InQueue, Spins, QueueHas, At, Go
  <2>3. QED
    BY <2>1, <2>2
<1>2. QueueTyped'
    BY DEF QueueInv, QueueTyped, Go, Shared, QueuePlaces, Outside
<1>3. OneHas'
    BY <1>1 DEF QueueInv, OneHas
<1>4. Ends'
  <2>1. \A u \in Threads :
           pc'[u] \in {"queueHead", "queueFirst", "queueGrab", "queueTail", "queueJoin",
                      "queueLink"} => spin_here'[u]
    BY DEF QueueInv, Ends, Go, Outside
  <2>2. QED
    BY <1>1, <2>1 DEF QueueInv, Ends
<1>5. Links'
  <2>1. \A u \in Threads : pc'[u] \in {"queueJoin", "queueLink"} => aux'[u] \in Threads
    BY DEF QueueInv, Links, Go, Outside
  <2>2. QED
    BY <1>1, <2>1 DEF QueueInv, QueueTyped, Links, InQueue, Spins, At
<1>6. Handover'
    BY <1>1 DEF QueueInv, QueueTyped, Handover, At, QueuePlaces, Outside
<1>7. QED
    BY <1>2, <1>3, <1>4, <1>5, <1>6 DEF QueueInv

\* The free lock is taken.
LEMMA Take ==
    ASSUME QueueInv, pc \in [Threads -> Places], val \in [Threads -> Int],
           aux \in [Threads -> Int], NEW t \in Threads,
           pc[t] \in Outside,
           head_id = 0,
           head_id' = -1,
           Go(t, "got"),
           UNCHANGED <<val, aux, tail_id, next_waiting>>,
           spin_here' = Set(spin_here, t, FALSE) \/ UNCHANGED spin_here
    PROVE  QueueInv'
<1>1. \A u \in Threads : ~QueueHas(u)
    BY DEF QueueInv, OneHas
<1>2. ASSUME NEW u \in Threads
      PROVE  /\ InQueue(u)' <=> InQueue(u)
             /\ Spins(u)' <=> Spins(u)
             /\ QueueHas(u)' <=> u = t
             /\ At(u, "queueLink")' <=> At(u, "queueLink")
             /\ \A p \in QueuePlaces \ Outside : At(u, p)' <=> At(u, p)
             /\ pc'[u] \in Outside => pc'[u] = pc[u] /\ spin_here'[u] = spin_here[u]
  <2>1. CASE u = t
    BY <2>1 DEF QueueInv, QueueTyped, InQueue, Spins, QueueHas, At, Go, Set, Outside,
                QueuePlaces
  <2>2. CASE u # t
    BY <1>1, <2>2 DEF QueueInv, QueueTyped, InQueue, Spins, QueueHas, At, Go, Set
  <2>3. QED
    BY <2>1, <2>2
<1>3. QueueTyped'
    BY DEF QueueInv, QueueTyped, Go, Set, Shared, QueuePlaces
<1>4. OneHas'
    BY <1>2 DEF OneHas
<1>5. Ends'
    BY <1>2 DEF QueueInv, Ends, InQueue, Spins, At, Threads, Outside, QueuePlaces
<1>6. Links'
  <2>1. \A u \in Threads : pc'[u] \in {"queueJoin", "queueLink"} => aux'[u] \in Threads
    BY DEF QueueInv, Links, Go
  <2>2. \A u \in Threads :
           /\ InQueue(u)' <=> InQueue(u)
           /\ Spins(u)' <=> Spins(u)
           /\ At(u, "queueLink")' <=> At(u, "queueLink")
    BY <1>2
  <2>3. \A a \in Threads : next_waiting[a] # 0 =>
           InQueue(a)' /\ next_waiting[a] # a /\ Spins(next_waiting[a])'
    <3>1. SUFFICES ASSUME NEW a \in Threads, next_waiting[a] # 0
          PROVE  InQueue(a)' /\ next_waiting[a] # a /\ Spins(next_waiting[a])'
      OBVIOUS
    <3>2. /\ InQueue(a) /\ next_waiting[a] # a
          /\ Spins(next_waiting[a]) /\ next_waiting[a] \in Threads
      BY <3>1 DEF QueueInv, QueueTyped, Links
    <3>3. QED
      BY <2>2, <3>2 DEF InQueue, Spins, At
  <2>4. \A u \in Threads : At(u, "queueLink") =>
           /\ InQueue(aux[u])' /\ aux[u] # u /\ aux[u] # tail_id
           /\ next_waiting[aux[u]] = 0
    BY <2>2 DEF QueueInv, Links, InQueue, At
  <2>5. QED
    BY <2>1, <2>2, <2>3, <2>4 DEF QueueInv, Links, InQueue, Spins, At
<1>7. Handover'
    BY <1>1, <1>2 DEF QueueInv, Handover, QueueHas, At, Threads, Outside, QueuePlaces
<1>8. QED
    BY <1>3, <1>4, <1>5, <1>6, <1>7 DEF QueueInv

\* The first to wait is the line.
LEMMA First ==
    ASSUME QueueInv, pc \in [Threads -> Places], val \in [Threads -> Int],
           aux \in [Threads -> Int], NEW t \in Threads,
           At(t, "queueFirst"),
           head_id = -1,
           head_id' = t,
           tail_id' = t,
           Go(t, "queueSpin"),
           UNCHANGED <<val, aux, next_waiting, spin_here>>
    PROVE  QueueInv'
<1>1. QueueTyped'
    BY DEF QueueInv, QueueTyped, Go, Set, Shared, QueuePlaces, Outside
<1>2. OneHas'
    BY DEF QueueInv, OneHas, QueueHas, Ends, At, Go, Threads
<1>3. Ends'
    BY DEF QueueInv, Ends, Links, InQueue, Spins, At, Go
<1>4. Links'
    BY DEF QueueInv, Links, InQueue, Spins, At, Go
<1>5. Handover'
    BY DEF QueueInv, Links, Handover, Spins, At, Go, Threads
<1>6. QED
    BY <1>1, <1>2, <1>3, <1>4, <1>5 DEF QueueInv

\* A thread joins behind the tail, without the link.
LEMMA Join ==
    ASSUME QueueInv, pc \in [Threads -> Places], val \in [Threads -> Int],
           aux \in [Threads -> Int], NEW t \in Threads,
           At(t, "queueJoin"),
           tail_id = aux[t],
           tail_id' = t,
           Go(t, "queueLink"),
           UNCHANGED <<val, aux, head_id, next_waiting, spin_here>>
    PROVE  QueueInv'
<1>1. QueueTyped'
    BY DEF QueueInv, QueueTyped, Go, Set, Shared, QueuePlaces, Outside
<1>2. OneHas'
    BY DEF QueueInv, OneHas, QueueHas, At, Go
<1>3. Ends'
    BY DEF QueueInv, Ends, Links, InQueue, Spins, At, Go, Threads
<1>4. Links'
    BY DEF QueueInv, Ends, Links, InQueue, Spins, At, Go
<1>5. Handover'
    BY DEF QueueInv, Ends, Handover, Spins, At, Go
<1>6. QED
    BY <1>1, <1>2, <1>3, <1>4, <1>5 DEF QueueInv

\* The link is made.
LEMMA Link ==
    ASSUME QueueInv, pc \in [Threads -> Places], val \in [Threads -> Int],
           aux \in [Threads -> Int], NEW t \in Threads,
           At(t, "queueLink"),
           next_waiting' = Set(next_waiting, aux[t], t),
           Go(t, "queueSpin"),
           UNCHANGED <<val, aux, head_id, tail_id, spin_here>>
    PROVE  QueueInv'
<1>1. QueueTyped'
    BY DEF QueueInv, QueueTyped, Go, Set, Shared, QueuePlaces, Outside
<1>2. OneHas'
    BY DEF QueueInv, OneHas, QueueHas, Ends, At, Go
<1>3. Ends'
    BY DEF QueueInv, Ends, Links, InQueue, Spins, At, Go, Set
<1>4. Links'
  <2>1. /\ aux[t] \in Threads /\ aux[t] # t /\ InQueue(aux[t]) /\ next_waiting[aux[t]] = 0
        /\ \A a \in Threads : next_waiting[a] # t
    BY DEF QueueInv, Links, Spins, At, Threads
  <2>2. \A a \in Threads :
           /\ InQueue(a)' <=> InQueue(a)
           /\ Spins(a) => Spins(a)'
           /\ next_waiting'[a] = IF a = aux[t] THEN t ELSE next_waiting[a]
    BY <2>1 DEF QueueInv, QueueTyped, InQueue, Spins, At, Go, Set
  <2>3. Spins(t)'
    BY DEF QueueInv, Ends, Spins, At, Go
  <2>4. \A u \in Threads : At(u, "queueLink")' <=> At(u, "queueLink") /\ u # t
    BY DEF At, Go
  <2>5. \A u \in Threads : pc'[u] = "queueJoin" <=> pc[u] = "queueJoin"
    BY DEF At, Go
  <2>6. \A a \in Threads : next_waiting'[a] # 0 =>
           InQueue(a)' /\ next_waiting'[a] # a /\ Spins(next_waiting[a])'
    BY <2>1, <2>2, <2>3 DEF QueueInv, QueueTyped, Links, InQueue, Spins
  <2>7. \A u \in Threads : At(u, "queueLink")' =>
           /\ InQueue(aux[u])' /\ aux'[u] # u /\ aux'[u] # tail_id'
           /\ next_waiting'[aux'[u]] = 0
    <3>1. SUFFICES ASSUME NEW u \in Threads, At(u, "queueLink"), u # t
          PROVE  /\ InQueue(aux[u])' /\ aux[u] # u /\ aux[u] # tail_id
                 /\ next_waiting'[aux[u]] = 0
      BY <2>4
    <3>2. /\ aux[u] \in Threads /\ aux[u] # u /\ InQueue(aux[u]) /\ aux[u] # tail_id
          /\ next_waiting[aux[u]] = 0 /\ aux[u] # aux[t]
      BY <3>1 DEF QueueInv, Links, At
    <3>3. QED
      BY <2>2, <3>2 DEF InQueue
  <2>8. QED
    BY <2>1, <2>2, <2>4, <2>5, <2>6, <2>7 DEF QueueInv, Links, At, InQueue, Spins
<1>5. Handover'
    BY DEF QueueInv, Ends, Handover, Spins, At, Go, Set
<1>6. QED
    BY <1>1, <1>2, <1>3, <1>4, <1>5 DEF QueueInv

\* A woken thread has the lock.
LEMMA Woken ==
    ASSUME QueueInv, pc \in [Threads -> Places], val \in [Threads -> Int],
           aux \in [Threads -> Int], NEW t \in Threads,
           At(t, "queueSpin"),
           ~spin_here[t],
           Go(t, "got"),
           UNCHANGED <<val, aux, head_id, tail_id, next_waiting, spin_here>>
    PROVE  QueueInv'
<1>1. QueueTyped'
    BY DEF QueueInv, QueueTyped, Go, Set, Shared, QueuePlaces, Outside
<1>2. OneHas'
    BY DEF QueueInv, OneHas, QueueHas, At, Go
<1>3. Ends'
    BY DEF QueueInv, Ends, InQueue, Spins, At, Go
<1>4. Links'
    BY DEF QueueInv, Links, InQueue, Spins, At, Go
<1>5. Handover'
    BY DEF QueueInv, Handover, Spins, At, Go
<1>6. QED
    BY <1>1, <1>2, <1>3, <1>4, <1>5 DEF QueueInv
\* The holder that gives the lock back looks at the ends of the line.
LEMMA Looks ==
    ASSUME QueueInv, pc \in [Threads -> Places], val \in [Threads -> Int],
           aux \in [Threads -> Int], NEW t \in Threads,
           pc[t] \in Releasing,
           NEW l \in Releasing,
           Go(t, l),
           UNCHANGED <<aux, head_id, tail_id, next_waiting, spin_here>>,
           \A u \in Threads : u # t => val'[u] = val[u],
           l \in {"releaseTail", "releaseLast", "releaseNext"} =>
               val'[t] \in Threads /\ head_id = val'[t],
           l = "releaseNext" => val'[t] # tail_id
    PROVE  QueueInv'
<1>1. QueueTyped'
    BY DEF QueueInv, QueueTyped, Handover, Go, Set, At, Shared, QueuePlaces, Releasing
<1>2. OneHas'
    BY DEF QueueInv, OneHas, QueueHas, At, Go, Releasing
<1>3. Ends'
    BY DEF QueueInv, Ends, InQueue, Spins, At, Go, Releasing
<1>4. Links'
    BY DEF QueueInv, Links, InQueue, Spins, At, Go, Releasing
<1>5. Handover'
    BY DEF QueueInv, Ends, Links, Handover, Spins, At, Go, Set, Releasing
<1>6. QED
    BY <1>1, <1>2, <1>3, <1>4, <1>5 DEF QueueInv

\* The lock is free.
LEMMA Freed ==
    ASSUME QueueInv, pc \in [Threads -> Places], val \in [Threads -> Int],
           aux \in [Threads -> Int], NEW t \in Threads,
           At(t, "releaseFree"),
           head_id = -1,
           head_id' = 0,
           Go(t, "idle"),
           UNCHANGED <<tail_id, next_waiting, spin_here>>,
           val' = Set(val, t, 0),
           aux' = Set(aux, t, 0)
    PROVE  QueueInv'
<1>1. QueueTyped'
    BY DEF QueueInv, QueueTyped, Handover, Go, Set, At, Shared, QueuePlaces, Releasing
<1>2. OneHas'
    BY DEF QueueInv, OneHas, QueueHas, At, Go
<1>3. Ends'
    BY DEF QueueInv, Ends, Go, Threads
<1>4. Links'
    BY DEF QueueInv, Links, InQueue, Spins, At, Go, Set
<1>5. Handover'
    BY DEF QueueInv, Handover, Spins, At, Go, Set, Threads
<1>6. QED
    BY <1>1, <1>2, <1>3, <1>4, <1>5 DEF QueueInv

\* The last of the line is taken out of it.
LEMMA Emptied ==
    ASSUME QueueInv, pc \in [Threads -> Places], val \in [Threads -> Int],
           aux \in [Threads -> Int], NEW t \in Threads,
           At(t, "releaseLast"),
           head_id = val[t],
           tail_id = val[t],
           head_id' = -1,
           tail_id' = 0,
           Go(t, "releaseUnlink"),
           UNCHANGED <<val, aux, next_waiting, spin_here>>
    PROVE  QueueInv'
<1>1. QueueTyped'
    BY DEF QueueInv, QueueTyped, Handover, Go, Set, At, Shared, QueuePlaces, Releasing
<1>2. OneHas'
    BY DEF QueueInv, OneHas, QueueHas, At, Go
<1>3. Ends'
    BY DEF QueueInv, Ends, Go, Threads
<1>4. Links'
    BY DEF QueueInv, Links, InQueue, Spins, At, Go, Threads
<1>5. Handover'
    BY DEF QueueInv, OneHas, QueueHas, Ends, Links, Handover, Spins, At, Go, Threads
<1>6. QED
    BY <1>1, <1>2, <1>3, <1>4, <1>5 DEF QueueInv

\* The head of the line is taken out of it.
LEMMA Advance ==
    ASSUME QueueInv, pc \in [Threads -> Places], val \in [Threads -> Int],
           aux \in [Threads -> Int], NEW t \in Threads,
           At(t, "releaseNext"),
           next_waiting[val[t]] # 0,
           head_id' = next_waiting[val[t]],
           Go(t, "releaseUnlink"),
           UNCHANGED <<val, aux, tail_id, next_waiting, spin_here>>
    PROVE  QueueInv'
<1>1. QueueTyped'
    BY DEF QueueInv, QueueTyped, Handover, Go, Set, At, Shared, QueuePlaces, Releasing
<1>2. OneHas'
    BY DEF QueueInv, OneHas, QueueHas, At, Go
<1>3. Ends'
    BY DEF QueueInv, QueueTyped, Ends, Links, Handover, InQueue, Spins, At, Go, Threads
<1>4. Links'
    BY DEF QueueInv, Links, InQueue, Spins, At, Go
<1>5. Handover'
    BY DEF QueueInv, OneHas, QueueHas, Ends, Links, Handover, Spins, At, Go
<1>6. QED
    BY <1>1, <1>2, <1>3, <1>4, <1>5 DEF QueueInv

\* Its link is cut.
LEMMA Unlink ==
    ASSUME QueueInv, pc \in [Threads -> Places], val \in [Threads -> Int],
           aux \in [Threads -> Int], NEW t \in Threads,
           At(t, "releaseUnlink"),
           next_waiting' = Set(next_waiting, val[t], 0),
           Go(t, "releaseWake"),
           UNCHANGED <<val, aux, head_id, tail_id, spin_here>>
    PROVE  QueueInv'
<1>1. QueueTyped'
    BY DEF QueueInv, QueueTyped, Handover, Go, Set, At, Shared, QueuePlaces, Releasing
<1>2. OneHas'
    BY DEF QueueInv, OneHas, QueueHas, At, Go
<1>3. Ends'
    BY DEF QueueInv, Ends, InQueue, Spins, At, Go, Set
<1>4. Links'
    BY DEF QueueInv, Links, InQueue, Spins, At, Go, Set
<1>5. Handover'
    BY DEF QueueInv, QueueTyped, Handover, Spins, At, Go, Set, Threads
<1>6. QED
    BY <1>1, <1>2, <1>3, <1>4, <1>5 DEF QueueInv

\* The lock is handed over.
LEMMA Wake ==
    ASSUME QueueInv, pc \in [Threads -> Places], val \in [Threads -> Int],
           aux \in [Threads -> Int], NEW t \in Threads,
           At(t, "releaseWake"),
           spin_here' = Set(spin_here, val[t], FALSE),
           Go(t, "idle"),
           UNCHANGED <<head_id, tail_id, next_waiting>>,
           val' = Set(val, t, 0),
           aux' = Set(aux, t, 0)
    PROVE  QueueInv'
<1>1. QueueTyped'
    BY DEF QueueInv, QueueTyped, Handover, Go, Set, At, Shared, QueuePlaces, Releasing
<1>2. OneHas'
    BY DEF QueueInv, OneHas, QueueHas, At, Go, Set
<1>3. Ends'
    BY DEF QueueInv, Ends, Handover, InQueue, Spins, At, Go, Set
<1>4. Links'
    BY DEF QueueInv, Links, Handover, InQueue, Spins, At, Go, Set
<1>5. Handover'
    BY DEF QueueInv, OneHas, QueueHas, Handover, At, Go
<1>6. QED
    BY <1>1, <1>2, <1>3, <1>4, <1>5 DEF QueueInv

LEMMA QueueStep ==
    ASSUME IInv, NEW t \in Threads,
           \/ QueueSet(t) \/ QueueHead(t) \/ QueueFirst(t) \/ QueueGrab(t) \/ QueueTail(t)
           \/ QueueJoin(t) \/ QueueLink(t) \/ QueueSpin(t) \/ QueueTest(t) \/ QueueTestCas(t)
           \/ ReleaseHead(t) \/ ReleaseFree(t) \/ ReleaseTail(t) \/ ReleaseLast(t)
           \/ ReleaseNext(t) \/ ReleaseUnlink(t) \/ ReleaseWake(t)
    PROVE  IInv'
<1>1. kind = "queuing" /\ pc[t] \in QueuePlaces
    BY KindOf DEF QueueSet, QueueHead, QueueFirst, QueueGrab, QueueTail, QueueJoin, QueueLink,
                  QueueSpin, QueueTest, QueueTestCas, ReleaseHead, ReleaseFree, ReleaseTail,
                  ReleaseLast, ReleaseNext, ReleaseUnlink, ReleaseWake, At, QueuePlaces
<1>2. UNCHANGED <<kind, nestable, checked, owner_id>>
    BY DEF QueueSet, QueueHead, QueueFirst, QueueGrab, QueueTail, QueueJoin, QueueLink,
           QueueSpin, QueueTest, QueueTestCas, ReleaseHead, ReleaseFree, ReleaseTail,
           ReleaseLast, ReleaseNext, ReleaseUnlink, ReleaseWake, lock, nest
<1>3. \E l \in QueuePlaces \cup {"idle", "got"} : Go(t, l)
    BY DEF QueueSet, QueueHead, QueueFirst, QueueGrab, QueueTail, QueueJoin, QueueLink,
           QueueSpin, QueueTest, QueueTestCas, ReleaseHead, ReleaseFree, ReleaseTail,
           ReleaseLast, ReleaseNext, ReleaseUnlink, ReleaseWake, Got, Idle, QueuePlaces
<1>4. \A u \in Threads : At(u, "held")' <=> At(u, "held")
    BY <1>1, <1>3 DEF IInv, Typed, At, Go, QueuePlaces
<1>5. OwnerHolds'
    BY <1>2, <1>4, OwnerKept DEF IInv
<1>6. /\ pc \in [Threads -> Places] /\ val \in [Threads -> Int] /\ aux \in [Threads -> Int]
      /\ ticket \in [Threads -> Int] /\ QueueInv
    BY <1>1 DEF IInv, Typed
<1>7. head_id \in Threads \cup {-1, 0} /\ tail_id \in Threads \cup {0}
      /\ spin_here \in [Threads -> BOOLEAN]
    BY <1>6 DEF QueueInv, QueueTyped
<1>8. Typed'
  <2>1. val' \in [Threads -> Int] /\ aux' \in [Threads -> Int] /\ ticket' \in [Threads -> Int]
    BY <1>6, <1>7 DEF QueueSet, QueueHead, QueueFirst, QueueGrab, QueueTail, QueueJoin,
           QueueLink, QueueSpin, QueueTest, QueueTestCas, ReleaseHead, ReleaseFree,
           ReleaseTail, ReleaseLast, ReleaseNext, ReleaseUnlink, ReleaseWake, Idle, Set, local,
           Threads
  <2>2. QueuePlaces \cup {"idle", "got"} \subseteq Places
    BY DEF Places, Shared
  <2>3. pc' \in [Threads -> Places]
    BY <1>3, <1>6, <2>2 DEF Go
  <2>4. QED
    BY <1>2, <2>1, <2>3 DEF IInv, Typed
<1>9. QueueInv'
  <2>1. CASE QueueSet(t) \/ QueueHead(t) \/ QueueTail(t) \/ QueueTest(t)
    <3>1. CASE QueueSet(t)
      <4>1. /\ At(t, "queueSet") /\ Go(t, "queueHead") /\ spin_here' = Set(spin_here, t, TRUE)
            /\ UNCHANGED <<val, aux, head_id, tail_id, next_waiting>>
        BY <3>1 DEF QueueSet, local
      <4>2. /\ spin_here' \in [Threads -> BOOLEAN] /\ spin_here'[t]
            /\ \A u \in Threads : u # t => spin_here'[u] = spin_here[u]
        BY <1>7, <4>1 DEF Set
      <4>3. QED
        BY <1>6, <4>1, <4>2, Quiet DEF At, Outside
    <3>2. CASE QueueHead(t)
      <4>1. /\ At(t, "queueHead")
            /\ \E l \in {"queueFirst", "queueGrab", "queueTail"} : Go(t, l)
            /\ UNCHANGED <<val, aux, head_id, tail_id, next_waiting, spin_here>>
        BY <3>2 DEF QueueHead, local, queue
      <4>2. spin_here[t]
        BY <1>6, <4>1 DEF QueueInv, Ends, At
      <4>3. QED
        BY <1>6, <1>7, <4>1, <4>2, Quiet DEF At, Outside
    <3>3. CASE QueueTail(t)
      <4>1. /\ At(t, "queueTail") /\ aux' = Set(aux, t, tail_id)
            /\ Go(t, IF tail_id = 0 THEN "queueHead" ELSE "queueJoin")
            /\ UNCHANGED <<val, head_id, tail_id, next_waiting, spin_here>>
        BY <3>3 DEF QueueTail, queue
      <4>2. spin_here[t]
        BY <1>6, <4>1 DEF QueueInv, Ends, At
      <4>3. /\ aux' \in [Threads -> Int] /\ aux'[t] = tail_id
            /\ \A u \in Threads : u # t => aux'[u] = aux[u]
        BY <1>6, <1>7, <4>1 DEF Set, Threads
      <4>4. QED
        BY <1>6, <1>7, <4>1, <4>2, <4>3, Quiet DEF At, Outside
    <3>4. CASE QueueTest(t)
      <4>1. /\ At(t, "queueTest") /\ (Go(t, "queueTestCas") \/ Go(t, "idle"))
            /\ UNCHANGED <<val, aux, head_id, tail_id, next_waiting, spin_here>>
        BY <3>4 DEF QueueTest, local, queue
      <4>2. QED
        BY <1>6, <1>7, <4>1, Quiet DEF At, Outside
    <3>5. QED
      BY <2>1, <3>1, <3>2, <3>3, <3>4
  <2>2. CASE QueueFirst(t) \/ QueueJoin(t) \/ QueueGrab(t) \/ QueueTestCas(t)
    <3>1. CASE UNCHANGED <<head_id, tail_id, spin_here>>
      <4>1. \/ At(t, "queueFirst") /\ Go(t, "queueHead")
            \/ At(t, "queueJoin") /\ Go(t, "queueHead")
            \/ At(t, "queueGrab") /\ Go(t, "queueHead")
            \/ At(t, "queueTestCas") /\ Go(t, "idle")
        <5>1. CASE QueueFirst(t)
          BY <3>1, <5>1 DEF QueueFirst, Threads
        <5>2. CASE QueueJoin(t)
          <6>1. tail_id # t
            BY <1>6, <5>2 DEF QueueJoin, QueueInv, Ends, InQueue, At
          <6>2. QED
            BY <3>1, <5>2, <6>1 DEF QueueJoin
        <5>3. CASE QueueGrab(t) \/ QueueTestCas(t)
          <6>1. head_id = 0 => head_id' = -1
            BY <5>3 DEF QueueGrab, QueueTestCas
          <6>2. -1 # 0
            OBVIOUS
          <6>3. head_id # 0
            BY <3>1, <6>1, <6>2
          <6>4. QED
            BY <5>3, <6>3 DEF QueueGrab, QueueTestCas
        <5>4. QED
          BY <2>2, <5>1, <5>2, <5>3
      <4>2. At(t, "queueTestCas") \/ spin_here[t]
        BY <1>6, <4>1 DEF QueueInv, Ends, At
      <4>3. UNCHANGED <<val, aux, next_waiting>>
        BY <2>2 DEF QueueFirst, QueueJoin, QueueGrab, QueueTestCas, local, queue
      <4>4. QED
        BY <1>6, <1>7, <3>1, <4>1, <4>2, <4>3, Quiet DEF At, Outside
    <3>2. CASE ~UNCHANGED <<head_id, tail_id, spin_here>>
      <4>1. CASE QueueFirst(t)
        <5>1. /\ At(t, "queueFirst") /\ head_id = -1 /\ head_id' = t /\ tail_id' = t
              /\ Go(t, "queueSpin") /\ UNCHANGED <<val, aux, next_waiting, spin_here>>
          BY <3>2, <4>1 DEF QueueFirst, local
        <5>2. QED
          BY <1>6, <5>1, First
      <4>2. CASE QueueJoin(t)
        <5>1. /\ At(t, "queueJoin") /\ tail_id = aux[t] /\ tail_id' = t
              /\ Go(t, "queueLink") /\ UNCHANGED <<val, aux, head_id, next_waiting, spin_here>>
          BY <3>2, <4>2 DEF QueueJoin, local
        <5>2. QED
          BY <1>6, <5>1, Join
      <4>3. CASE QueueGrab(t) \/ QueueTestCas(t)
        <5>1. /\ pc[t] \in Outside /\ head_id = 0 /\ head_id' = -1 /\ Go(t, "got")
              /\ UNCHANGED <<val, aux, tail_id, next_waiting>>
              /\ spin_here' = Set(spin_here, t, FALSE) \/ UNCHANGED spin_here
          BY <3>2, <4>3 DEF QueueGrab, QueueTestCas, Got, local, At, Outside
        <5>2. QED
          BY <1>6, <5>1, Take
      <4>4. QED
        BY <2>2, <4>1, <4>2, <4>3
    <3>3. QED
      BY <3>1, <3>2
  <2>3. CASE QueueLink(t)
    BY <1>6, <2>3, Link DEF QueueLink, local
  <2>4. CASE QueueSpin(t)
    BY <1>6, <2>4, Woken DEF QueueSpin, Got, local, queue
  <2>5. CASE ReleaseHead(t) \/ ReleaseTail(t)
    <3>1. UNCHANGED <<aux, head_id, tail_id, next_waiting, spin_here>>
      BY <2>5 DEF ReleaseHead, ReleaseTail, local, queue
    <3>2. CASE ReleaseHead(t)
      <4>1. /\ At(t, "releaseHead") /\ val' = Set(val, t, head_id)
            /\ Go(t, IF head_id = -1 THEN "releaseFree" ELSE "releaseTail")
        BY <3>2 DEF ReleaseHead
      <4>2. head_id # 0
        BY <1>6, <4>1 DEF QueueInv, OneHas, QueueHas, At
      <4>3. val'[t] = head_id /\ \A u \in Threads : u # t => val'[u] = val[u]
        BY <1>6, <4>1 DEF Set
      <4>4. QED
        BY <1>6, <1>7, <3>1, <4>1, <4>2, <4>3, Looks DEF At, Releasing
    <3>3. CASE ReleaseTail(t)
      <4>1. /\ At(t, "releaseTail") /\ UNCHANGED val
            /\ Go(t, IF val[t] = tail_id THEN "releaseLast" ELSE "releaseNext")
        BY <3>3 DEF ReleaseTail, local
      <4>2. val[t] \in Threads /\ head_id = val[t]
        BY <1>6, <4>1 DEF QueueInv, Handover, At
      <4>3. QED
        BY <1>6, <3>1, <4>1, <4>2, Looks DEF At, Releasing
    <3>4. QED
      BY <2>5, <3>2, <3>3
  <2>6. CASE ReleaseFree(t)
    <3>1. CASE head_id = -1
      BY <1>6, <2>6, <3>1, Freed DEF ReleaseFree, Idle
    <3>2. CASE head_id # -1
      <4>1. /\ At(t, "releaseFree") /\ Go(t, "releaseHead")
            /\ UNCHANGED <<val, aux, head_id, tail_id, next_waiting, spin_here>>
        BY <2>6, <3>2 DEF ReleaseFree, local
      <4>2. QED
        BY <1>6, <4>1, Looks DEF At, Releasing
    <3>3. QED
      BY <3>1, <3>2
  <2>7. CASE ReleaseLast(t)
    <3>1. CASE head_id = val[t] /\ tail_id = val[t]
      BY <1>6, <2>7, <3>1, Emptied DEF ReleaseLast, local
    <3>2. CASE ~(head_id = val[t] /\ tail_id = val[t])
      <4>1. /\ At(t, "releaseLast") /\ Go(t, "releaseHead")
            /\ UNCHANGED <<val, aux, head_id, tail_id, next_waiting, spin_here>>
        BY <2>7, <3>2 DEF ReleaseLast, local
      <4>2. QED
        BY <1>6, <4>1, Looks DEF At, Releasing
    <3>3. QED
      BY <3>1, <3>2
  <2>8. CASE ReleaseNext(t)
    BY <1>6, <2>8, Advance DEF ReleaseNext, Linked, local
  <2>9. CASE ReleaseUnlink(t)
    BY <1>6, <2>9, Unlink DEF ReleaseUnlink, Unlinked, local
  <2>10. CASE ReleaseWake(t)
    BY <1>6, <2>10, Wake DEF ReleaseWake, Idle
  <2>11. QED
    BY <2>1, <2>2, <2>3, <2>4, <2>5, <2>6, <2>7, <2>8, <2>9, <2>10
<1>10. QED
    BY <1>1, <1>2, <1>5, <1>8, <1>9 DEF IInv
---------------------------------------------------------------------------
(***************************************************************************)
(* DRDPA.  The holder's ticket is the one whose turn it is; no word of any *)
(* area is past it, and a thread polls an area that is not yet freed.      *)
(***************************************************************************)
\* Only one thread moves.
Others(t) ==
    \A u \in Threads : u # t =>
        pc'[u] = pc[u] /\ val'[u] = val[u] /\ aux'[u] = aux[u] /\ ticket'[u] = ticket[u]

DrdpaTyped ==
    /\ OnlyGrows /\ pc \in [Threads -> Places] /\ DrdpaInv
    /\ val \in [Threads -> Int] /\ aux \in [Threads -> Int] /\ ticket \in [Threads -> Int]

\* Each lemma is about one step of the code.  What it proves is what the step needs to
\* keep the kind's part of the invariant and the types.
DrdpaKept ==
    /\ val' \in [Threads -> Int] /\ aux' \in [Threads -> Int] /\ ticket' \in [Threads -> Int]
    /\ DrdpaInv'

LEMMA OneHasDrdpa ==
    ASSUME NEW f, DrdpaTickets(f), NEW t \in Threads, NEW u \in Threads,
           DrdpaHas(t), DrdpaHas(u)
    PROVE  t = u
BY DEF DrdpaTickets, InDrdpaLine

LEMMA TakeDrdpa ==
    ASSUME DrdpaTyped, NEW t \in Threads, DrdpaTake(t)
    PROVE  DrdpaKept
<1>1. /\ pc[t] = "drdpaTake" /\ pc'[t] = "drdpaMask" /\ Others(t)
      /\ ticket'[t] = next_ticket /\ next_ticket' = next_ticket + 1
      /\ UNCHANGED <<val, aux, now_serving>>
      /\ UNCHANGED <<areas, freed, polls, mask, old_polls, cleanup_ticket>>
    BY DEF DrdpaTyped, DrdpaTake, Others, At, Go, Set, area
<1>2. PICK f \in Nat : DrdpaTickets(f) /\ DrdpaWords(f)
    BY DEF DrdpaTyped, DrdpaInv
<1>3. \A u \in Threads : /\ DrdpaHas(u)' <=> DrdpaHas(u)
                         /\ InDrdpaLine(u)' <=> u = t \/ InDrdpaLine(u)
                         /\ \A l \in DrdpaPlaces \ {"drdpaTake", "drdpaMask"} :
                                At(u, l)' <=> At(u, l)
    BY <1>1 DEF DrdpaHas, InDrdpaLine, Others, At
<1>4. ticket' \in [Threads -> Int] /\ \A u \in Threads : u # t => ticket'[u] = ticket[u]
    BY <1>1, <1>2 DEF DrdpaTyped, DrdpaTake, Set, DrdpaTickets, Others
<1>5. ~InDrdpaLine(t)
    BY <1>1 DEF InDrdpaLine, DrdpaHas
<1>6. DrdpaTickets(f)'
    BY <1>1, <1>2, <1>3, <1>4, <1>5 DEF DrdpaTickets, DrdpaPlaces, InDrdpaLine, At
<1>7. DrdpaWords(f)'
    BY <1>1, <1>2, <1>3 DEF DrdpaWords, Top
<1>8. DrdpaAreas' /\ DrdpaReads' /\ DrdpaGrows'
  <2>1. DrdpaAreas'
    BY <1>1 DEF DrdpaTyped, DrdpaInv, DrdpaAreas, Top
  <2>2. DrdpaReads'
    BY <1>1, <1>3, <1>4 DEF DrdpaTyped, DrdpaInv, DrdpaReads, Top, DrdpaPlaces, At
  <2>3. DrdpaGrows'
    BY <1>1, <1>3 DEF DrdpaTyped, DrdpaInv, DrdpaGrows, Top, DrdpaPlaces, At
  <2>4. QED
    BY <2>1, <2>2, <2>3
<1>9. \A u \in Threads : pc'[u] \in Shared \cup DrdpaPlaces
    BY <1>1 DEF DrdpaTyped, DrdpaInv, Others, DrdpaPlaces
<1>10. QED
    BY <1>1, <1>2, <1>4, <1>6, <1>7, <1>8, <1>9 DEF DrdpaKept, DrdpaInv, DrdpaTyped

LEMMA MaskDrdpa ==
    ASSUME DrdpaTyped, NEW t \in Threads, DrdpaMask(t)
    PROVE  DrdpaKept
<1>1. /\ pc[t] = "drdpaMask" /\ pc'[t] = "drdpaPolls" /\ Others(t)
      /\ aux'[t] = mask /\ UNCHANGED <<val, ticket, next_ticket, now_serving>>
      /\ UNCHANGED <<areas, freed, polls, mask, old_polls, cleanup_ticket>>
    BY DEF DrdpaTyped, DrdpaMask, Others, At, Go, Set, area, tickets
<1>2. PICK f \in Nat : DrdpaTickets(f) /\ DrdpaWords(f)
    BY DEF DrdpaTyped, DrdpaInv
<1>3. \A u \in Threads : /\ DrdpaHas(u)' <=> DrdpaHas(u)
                         /\ InDrdpaLine(u)' <=> InDrdpaLine(u)
                         /\ \A l \in DrdpaPlaces \ {"drdpaMask", "drdpaPolls"} :
                                At(u, l)' <=> At(u, l)
    BY <1>1 DEF DrdpaHas, InDrdpaLine, Others, At
<1>4. aux' \in [Threads -> Int] /\ mask \in 0 .. Top(areas[polls])
  <2>1. Top(areas[polls]) \in Nat /\ mask \in 0 .. Top(areas[polls])
    <3>1. areas \in Seq(Areas) /\ polls \in 1 .. Len(areas) /\ mask \in 0 .. Top(areas[polls])
      BY DEF DrdpaTyped, DrdpaInv, DrdpaAreas
    <3>2. areas[polls] \in Areas
      BY <3>1
    <3>3. QED
      BY <3>1, <3>2, AreaIs
  <2>2. QED
    BY <2>1 DEF DrdpaTyped, DrdpaMask, Set
<1>5. DrdpaTickets(f)'
    BY <1>1, <1>2, <1>3 DEF DrdpaTickets, DrdpaPlaces, At
<1>6. DrdpaWords(f)'
    BY <1>1, <1>2, <1>3 DEF DrdpaWords, Top
<1>7. DrdpaAreas'
    BY <1>1 DEF DrdpaTyped, DrdpaInv, DrdpaAreas, Top
<1>8. DrdpaReads'
    BY <1>1, <1>3, <1>4 DEF DrdpaTyped, DrdpaInv, DrdpaReads, Top, DrdpaPlaces, At, Others
<1>9. DrdpaGrows'
    BY <1>1, <1>3 DEF DrdpaTyped, DrdpaInv, DrdpaGrows, Top, DrdpaPlaces, At, Others
<1>10. \A u \in Threads : pc'[u] \in Shared \cup DrdpaPlaces
    BY <1>1 DEF DrdpaTyped, DrdpaInv, Others, DrdpaPlaces
<1>11. QED
    BY <1>1, <1>2, <1>4, <1>5, <1>6, <1>7, <1>8, <1>9, <1>10
       DEF DrdpaKept, DrdpaInv, DrdpaTyped

LEMMA PollsDrdpa ==
    ASSUME DrdpaTyped, NEW t \in Threads, DrdpaPolls(t)
    PROVE  DrdpaKept
<1>1. /\ pc[t] = "drdpaPolls" /\ pc'[t] = "drdpaSpin" /\ Others(t)
      /\ val'[t] = polls /\ UNCHANGED <<aux, ticket, next_ticket, now_serving>>
      /\ UNCHANGED <<areas, freed, polls, mask, old_polls, cleanup_ticket>>
    BY DEF DrdpaTyped, DrdpaPolls, Others, At, Go, Set, area, tickets
<1>2. PICK f \in Nat : DrdpaTickets(f) /\ DrdpaWords(f)
    BY DEF DrdpaTyped, DrdpaInv
<1>3. \A u \in Threads : /\ DrdpaHas(u)' <=> DrdpaHas(u)
                         /\ InDrdpaLine(u)' <=> InDrdpaLine(u)
                         /\ \A l \in DrdpaPlaces \ {"drdpaPolls", "drdpaSpin"} :
                                At(u, l)' <=> At(u, l)
    BY <1>1 DEF DrdpaHas, InDrdpaLine, Others, At
<1>4. val' \in [Threads -> Int] /\ old_polls # polls
    BY DEF DrdpaTyped, DrdpaInv, DrdpaAreas, DrdpaPolls, Set
<1>5. DrdpaTickets(f)'
    BY <1>1, <1>2, <1>3 DEF DrdpaTickets, DrdpaPlaces, At
<1>6. DrdpaWords(f)'
    BY <1>1, <1>2, <1>3 DEF DrdpaWords, Top
<1>7. DrdpaAreas'
    BY <1>1 DEF DrdpaTyped, DrdpaInv, DrdpaAreas, Top
<1>8. DrdpaReads'
  <2>1. ASSUME NEW u \in Threads, At(u, "drdpaPolls")'
        PROVE  aux'[u] \in 0 .. Top(areas[polls])
    BY <1>1, <2>1 DEF DrdpaTyped, DrdpaInv, DrdpaReads, At, Others
  <2>2. ASSUME NEW u \in Threads, At(u, "drdpaSpin")', u # t
        PROVE  /\ val'[u] = polls \/ (val'[u] = old_polls /\ old_polls # 0)
               /\ aux'[u] \in 0 .. Top(areas[val'[u]])
               /\ val'[u] = old_polls =>
                     \/ ticket'[u] < cleanup_ticket
                     \/ \E w \in Threads : pc[w] \in {"drdpaNewMask", "drdpaCleanup"}
    BY <1>1, <2>2 DEF DrdpaTyped, DrdpaInv, DrdpaReads, At, Others
  <2>3. aux[t] \in 0 .. Top(areas[polls])
    BY <1>1 DEF DrdpaTyped, DrdpaInv, DrdpaReads, At
  <2>4. \A w \in Threads : pc[w] \in {"drdpaNewMask", "drdpaCleanup"} =>
                           pc'[w] \in {"drdpaNewMask", "drdpaCleanup"}
    BY <1>1 DEF Others
  <2>5. UNCHANGED <<polls, old_polls, areas, cleanup_ticket, aux>> /\ val'[t] = polls
    BY <1>1
  <2>6. QED
    BY <2>1, <2>2, <2>3, <2>4, <2>5, <1>4 DEF DrdpaReads, Top
<1>9. DrdpaGrows'
    BY <1>1, <1>3 DEF DrdpaTyped, DrdpaInv, DrdpaGrows, Top, DrdpaPlaces, At, Others
<1>10. \A u \in Threads : pc'[u] \in Shared \cup DrdpaPlaces
    BY <1>1 DEF DrdpaTyped, DrdpaInv, Others, DrdpaPlaces
<1>11. QED
    BY <1>1, <1>2, <1>4, <1>5, <1>6, <1>7, <1>8, <1>9, <1>10
       DEF DrdpaKept, DrdpaInv, DrdpaTyped
---------------------------------------------------------------------------
\* A thread that polls reads a word of an area that is there.
LEMMA SpinsInArea ==
    ASSUME DrdpaTyped, NEW t \in Threads, At(t, "drdpaSpin")
    PROVE  /\ InArea(t) /\ val[t] \in 1 .. Len(areas)
           /\ Index(t) \in 0 .. Top(areas[val[t]])
<1>1. PICK f \in Nat : DrdpaTickets(f)
    BY DEF DrdpaTyped, DrdpaInv
<1>2. /\ val[t] = polls \/ (val[t] = old_polls /\ old_polls # 0)
      /\ aux[t] \in 0 .. Top(areas[val[t]])
    BY DEF DrdpaTyped, DrdpaInv, DrdpaReads
<1>3. /\ areas \in Seq(Areas) /\ polls \in 1 .. Len(areas)
      /\ old_polls \in 0 .. Len(areas) /\ polls \notin freed /\ old_polls \notin freed
    BY DEF DrdpaTyped, DrdpaInv, DrdpaAreas
<1>4. val[t] \in 1 .. Len(areas) /\ val[t] \notin freed
    BY <1>2, <1>3
<1>5. areas[val[t]] \in Areas
    BY <1>3, <1>4
<1>6. Top(areas[val[t]]) \in Nat /\ DOMAIN areas[val[t]] = 0 .. Top(areas[val[t]])
    BY <1>5, AreaIs
<1>7. ticket[t] \in Nat
    BY <1>1 DEF DrdpaTickets, InDrdpaLine, At
<1>8. Index(t) \in 0 .. aux[t]
    BY <1>2, <1>6, <1>7 DEF Index
<1>9. Index(t) \in 0 .. Top(areas[val[t]])
    BY <1>2, <1>6, <1>8
<1>10. QED
    BY <1>4, <1>6, <1>9 DEF InArea

\* The thread that finds that it is its turn is the one with the lowest ticket, the lock is
\* free, and the area it polls is the present one.
LEMMA ReachedFirst ==
    ASSUME DrdpaTyped, NEW t \in Threads, At(t, "drdpaSpin"), Reached(t),
           NEW f \in Nat, DrdpaTickets(f), DrdpaWords(f)
    PROVE  ticket[t] = f /\ (\A u \in Threads : ~DrdpaHas(u)) /\ val[t] = polls
<1>1. InArea(t) /\ val[t] \in 1 .. Len(areas) /\ Index(t) \in 0 .. Top(areas[val[t]])
    BY SpinsInArea
<1>2. areas[val[t]][Index(t)] >= ticket[t]
    BY <1>1 DEF Reached
<1>3. areas[val[t]][Index(t)] \in Nat /\ areas[val[t]][Index(t)] <= f
  <2>1. areas[val[t]] \in Areas
    BY <1>1 DEF DrdpaTyped, DrdpaInv, DrdpaAreas
  <2>2. QED
    BY <1>1, <2>1, AreaIs DEF DrdpaWords
<1>4. ticket[t] \in Nat /\ f <= ticket[t] /\ InDrdpaLine(t) /\ ~DrdpaHas(t)
    BY DEF DrdpaTickets, InDrdpaLine, DrdpaHas, At
<1>5. ticket[t] = f
    BY <1>2, <1>3, <1>4
<1>6. \A u \in Threads : ~DrdpaHas(u)
    BY <1>4, <1>5 DEF DrdpaTickets, InDrdpaLine
<1>7. val[t] = polls
    BY <1>1, <1>2, <1>3, <1>5, <1>6 DEF DrdpaWords
<1>8. QED
    BY <1>5, <1>6, <1>7

LEMMA SpinDrdpa ==
    ASSUME DrdpaTyped, NEW t \in Threads, DrdpaSpin(t)
    PROVE  DrdpaKept
<1>1. /\ pc[t] = "drdpaSpin" /\ Others(t)
      /\ pc'[t] \in {"drdpaServe", "drdpaMask"}
      /\ pc'[t] = "drdpaServe" => Reached(t)
      /\ UNCHANGED <<val, aux, ticket, next_ticket, now_serving>>
      /\ UNCHANGED <<areas, freed, polls, mask, old_polls, cleanup_ticket>>
    BY DEF DrdpaTyped, DrdpaSpin, Others, At, Go, area, tickets, local
<1>2. PICK f \in Nat : DrdpaTickets(f) /\ DrdpaWords(f)
    BY DEF DrdpaTyped, DrdpaInv
<1>3. \A u \in Threads : /\ DrdpaHas(u)' <=> DrdpaHas(u) \/ (u = t /\ pc'[t] = "drdpaServe")
                         /\ InDrdpaLine(u)' <=> InDrdpaLine(u)
                         /\ u # t => pc'[u] = pc[u]
    BY <1>1 DEF DrdpaHas, InDrdpaLine, Others
<1>4. pc'[t] = "drdpaServe" =>
         ticket[t] = f /\ (\A u \in Threads : ~DrdpaHas(u)) /\ val[t] = polls
    BY <1>1, <1>2, ReachedFirst DEF At
<1>5. DrdpaTickets(f)'
    BY <1>1, <1>2, <1>3, <1>4 DEF DrdpaTickets
<1>6. DrdpaWords(f)'
    BY <1>1, <1>2, <1>3 DEF DrdpaWords, Top
<1>7. DrdpaAreas'
    BY <1>1 DEF DrdpaTyped, DrdpaInv, DrdpaAreas, Top
<1>8. DrdpaReads'
    BY <1>1, <1>3 DEF DrdpaTyped, DrdpaInv, DrdpaReads, Top, At
<1>9. DrdpaGrows'
    BY <1>1, <1>3, <1>4 DEF DrdpaTyped, DrdpaInv, DrdpaGrows, Top, At
<1>10. \A u \in Threads : pc'[u] \in Shared \cup DrdpaPlaces
    BY <1>1 DEF DrdpaTyped, DrdpaInv, Others, DrdpaPlaces
<1>11. QED
    BY <1>1, <1>2, <1>5, <1>6, <1>7, <1>8, <1>9, <1>10
       DEF DrdpaKept, DrdpaInv, DrdpaTyped

\* The last area is freed only when the threads that may poll it have been served.
LEMMA ServeDrdpa ==
    ASSUME DrdpaTyped, NEW t \in Threads, DrdpaServe(t)
    PROVE  DrdpaKept
<1>1. /\ pc[t] = "drdpaServe" /\ pc'[t] = "drdpaGrow" /\ Others(t)
      /\ now_serving' = ticket[t]
      /\ UNCHANGED <<val, aux, ticket, next_ticket, areas, polls, mask>>
    BY DEF DrdpaTyped, DrdpaServe, Others, At, Go, local
<1>2. PICK f \in Nat : DrdpaTickets(f) /\ DrdpaWords(f)
    BY DEF DrdpaTyped, DrdpaInv
<1>3. \A u \in Threads : /\ DrdpaHas(u)' <=> DrdpaHas(u)
                         /\ InDrdpaLine(u)' <=> InDrdpaLine(u)
                         /\ u # t => pc'[u] = pc[u]
    BY <1>1 DEF DrdpaHas, InDrdpaLine, Others
<1>4. DrdpaHas(t) /\ ticket[t] = f
    BY <1>1, <1>2 DEF DrdpaHas, DrdpaTickets
<1>5. \A u \in Threads : DrdpaHas(u) => u = t
    BY <1>2, <1>4, OneHasDrdpa
<1>6. DrdpaTickets(f)'
    BY <1>1, <1>2, <1>3, <1>4, <1>5 DEF DrdpaTickets
<1>7. DrdpaWords(f)'
    BY <1>1, <1>2, <1>3 DEF DrdpaWords, Top
<1>8. \A u \in Threads : pc'[u] \in Shared \cup DrdpaPlaces
    BY <1>1 DEF DrdpaTyped, DrdpaInv, Others, DrdpaPlaces
<1>9. DrdpaAreas' /\ DrdpaReads' /\ DrdpaGrows'
  <2>1. \A u \in Threads : pc'[u] \notin {"drdpaNewPolls", "drdpaNewMask", "drdpaCleanup"}
    BY <1>1, <1>3, <1>5 DEF DrdpaHas
  <2>2. \A u \in Threads : pc'[u] \in {"drdpaServe", "drdpaGrow", "drdpaNewPolls"} =>
                           val'[u] = polls
    BY <1>1, <1>3, <1>5 DEF DrdpaTyped, DrdpaInv, DrdpaGrows, DrdpaHas
  <2>3. DrdpaGrows'
    BY <1>1, <2>1, <2>2 DEF DrdpaGrows, At
  <2>4. CASE CanFree(t)
    <3>1. freed' = freed \cup {old_polls} /\ old_polls' = 0 /\ cleanup_ticket' = 0
      BY <2>4 DEF DrdpaServe
    <3>2. DrdpaAreas'
      BY <1>1, <2>4, <3>1 DEF DrdpaTyped, DrdpaInv, DrdpaAreas, Top, CanFree
    <3>3. \A u \in Threads : At(u, "drdpaSpin")' => At(u, "drdpaSpin") /\ val[u] = polls
      <4>1. ASSUME NEW u \in Threads, At(u, "drdpaSpin")'
            PROVE  At(u, "drdpaSpin") /\ val[u] = polls
        <5>1. At(u, "drdpaSpin") /\ u # t
          BY <1>1, <1>3, <4>1 DEF At
        <5>2. ticket[u] \in Nat /\ f <= ticket[u]
          BY <1>2, <5>1 DEF DrdpaTickets, InDrdpaLine, At
        <5>3. \A w \in Threads : pc[w] \notin {"drdpaNewMask", "drdpaCleanup"}
          BY <1>1, <1>5 DEF DrdpaHas
        <5>4. cleanup_ticket <= f /\ cleanup_ticket \in Nat
          BY <1>4, <2>4 DEF CanFree, DrdpaTyped, DrdpaInv, DrdpaAreas
        <5>5. val[u] # old_polls
          BY <1>2, <5>1, <5>2, <5>3, <5>4 DEF DrdpaTyped, DrdpaInv, DrdpaReads
        <5>6. QED
          BY <5>1, <5>5 DEF DrdpaTyped, DrdpaInv, DrdpaReads
      <4>2. QED
        BY <4>1
    <3>4. polls # 0
      BY DEF DrdpaTyped, DrdpaInv, DrdpaAreas
    <3>5. DrdpaReads'
      BY <1>1, <1>3, <3>1, <3>3, <3>4 DEF DrdpaTyped, DrdpaInv, DrdpaReads, Top, At
    <3>6. QED
      BY <2>3, <3>2, <3>5
  <2>5. CASE ~CanFree(t)
    <3>1. UNCHANGED <<freed, old_polls, cleanup_ticket>>
      BY <2>5 DEF DrdpaServe
    <3>2. DrdpaAreas'
      BY <1>1, <3>1 DEF DrdpaTyped, DrdpaInv, DrdpaAreas, Top
    <3>3. DrdpaReads'
      BY <1>1, <1>3, <3>1 DEF DrdpaTyped, DrdpaInv, DrdpaReads, Top, At
    <3>4. QED
      BY <2>3, <3>2, <3>3
  <2>6. QED
    BY <2>4, <2>5
<1>10. QED
    BY <1>1, <1>2, <1>6, <1>7, <1>8, <1>9 DEF DrdpaKept, DrdpaInv, DrdpaTyped

LEMMA NewPollsDrdpa ==
    ASSUME DrdpaTyped, NEW t \in Threads, DrdpaNewPolls(t)
    PROVE  DrdpaKept
<1>1. /\ pc[t] = "drdpaNewPolls" /\ pc'[t] = "drdpaNewMask" /\ Others(t)
      /\ old_polls' = val[t] /\ polls' = Len(areas)
      /\ UNCHANGED <<val, aux, ticket, next_ticket, now_serving>>
      /\ UNCHANGED <<areas, freed, mask, cleanup_ticket>>
    BY DEF DrdpaTyped, DrdpaNewPolls, Others, At, Go, local, tickets
<1>2. PICK f \in Nat : DrdpaTickets(f) /\ DrdpaWords(f)
    BY DEF DrdpaTyped, DrdpaInv
<1>3. \A u \in Threads : /\ DrdpaHas(u)' <=> DrdpaHas(u)
                         /\ InDrdpaLine(u)' <=> InDrdpaLine(u)
                         /\ u # t => pc'[u] = pc[u]
    BY <1>1 DEF DrdpaHas, InDrdpaLine, Others
<1>4. DrdpaHas(t) /\ \A u \in Threads : DrdpaHas(u) => u = t
    BY <1>1, <1>2, OneHasDrdpa DEF DrdpaHas
<1>5. /\ val[t] = polls /\ old_polls = 0 /\ polls < Len(areas) /\ Len(areas) \notin freed
      /\ Top(areas[polls]) <= Top(areas[Len(areas)]) /\ aux[t] = Top(areas[Len(areas)])
    BY <1>1 DEF DrdpaTyped, DrdpaInv, DrdpaGrows, At
<1>6. /\ areas \in Seq(Areas) /\ polls \in 1 .. Len(areas) /\ freed \subseteq 1 .. Len(areas)
      /\ polls \notin freed /\ mask \in 0 .. Top(areas[polls]) /\ cleanup_ticket \in Nat
    BY DEF DrdpaTyped, DrdpaInv, DrdpaAreas
<1>7. Len(areas) \in 1 .. Len(areas) /\ Len(areas) # polls
    BY <1>5, <1>6
<1>8. Top(areas[polls]) \in Nat /\ Top(areas[Len(areas)]) \in Nat
    BY <1>6, <1>7, AreaIs
<1>9. DrdpaTickets(f)'
    BY <1>1, <1>2, <1>3, <1>4 DEF DrdpaTickets
<1>10. DrdpaWords(f)'
    BY <1>1, <1>2, <1>3, <1>4 DEF DrdpaWords, Top
<1>11. DrdpaAreas'
    BY <1>1, <1>5, <1>6, <1>7, <1>8 DEF DrdpaAreas, Top
<1>12. DrdpaReads'
  <2>1. ASSUME NEW u \in Threads, At(u, "drdpaPolls")'
        PROVE  aux[u] \in 0 .. Top(areas[Len(areas)])
    <3>1. aux[u] \in 0 .. Top(areas[polls])
      BY <1>1, <1>3, <2>1 DEF DrdpaTyped, DrdpaInv, DrdpaReads, At
    <3>2. QED
      BY <1>5, <1>8, <3>1
  <2>2. ASSUME NEW u \in Threads, At(u, "drdpaSpin")'
        PROVE  val[u] = polls /\ aux[u] \in 0 .. Top(areas[val[u]])
    BY <1>1, <1>3, <1>5, <2>2 DEF DrdpaTyped, DrdpaInv, DrdpaReads, At
  <2>3. polls # 0
    BY <1>6
  <2>4. QED
    BY <1>1, <1>5, <2>1, <2>2, <2>3 DEF DrdpaReads, Top
<1>13. DrdpaGrows'
  <2>1. \A u \in Threads : /\ pc'[u] \notin {"drdpaServe", "drdpaGrow", "drdpaNewPolls"}
                           /\ pc'[u] = "drdpaNewMask" => u = t
    BY <1>1, <1>3, <1>4 DEF DrdpaHas
  <2>2. QED
    BY <1>1, <1>5, <2>1 DEF DrdpaGrows, At, Top
<1>14. \A u \in Threads : pc'[u] \in Shared \cup DrdpaPlaces
    BY <1>1 DEF DrdpaTyped, DrdpaInv, Others, DrdpaPlaces
<1>15. QED
    BY <1>1, <1>2, <1>9, <1>10, <1>11, <1>12, <1>13, <1>14 DEF DrdpaKept, DrdpaInv, DrdpaTyped

LEMMA NewMaskDrdpa ==
    ASSUME DrdpaTyped, NEW t \in Threads, DrdpaNewMask(t)
    PROVE  DrdpaKept
<1>1. /\ pc[t] = "drdpaNewMask" /\ pc'[t] = "drdpaCleanup" /\ Others(t)
      /\ mask' = aux[t] /\ UNCHANGED <<val, aux, ticket, next_ticket, now_serving>>
      /\ UNCHANGED <<areas, freed, polls, old_polls, cleanup_ticket>>
    BY DEF DrdpaTyped, DrdpaNewMask, Others, At, Go, local, tickets
<1>2. PICK f \in Nat : DrdpaTickets(f) /\ DrdpaWords(f)
    BY DEF DrdpaTyped, DrdpaInv
<1>3. \A u \in Threads : /\ DrdpaHas(u)' <=> DrdpaHas(u)
                         /\ InDrdpaLine(u)' <=> InDrdpaLine(u)
                         /\ u # t => pc'[u] = pc[u]
    BY <1>1 DEF DrdpaHas, InDrdpaLine, Others
<1>4. DrdpaHas(t) /\ \A u \in Threads : DrdpaHas(u) => u = t
    BY <1>1, <1>2, OneHasDrdpa DEF DrdpaHas
<1>5. Top(areas[polls]) \in Nat /\ aux[t] = Top(areas[polls])
    BY <1>1, AreaIs DEF DrdpaTyped, DrdpaInv, DrdpaAreas, DrdpaGrows, At
<1>6. DrdpaTickets(f)'
    BY <1>1, <1>2, <1>3, <1>4 DEF DrdpaTickets
<1>7. DrdpaWords(f)'
    BY <1>1, <1>2, <1>3 DEF DrdpaWords, Top
<1>8. DrdpaAreas'
    BY <1>1, <1>5 DEF DrdpaTyped, DrdpaInv, DrdpaAreas, Top
<1>9. DrdpaReads'
    BY <1>1, <1>3 DEF DrdpaTyped, DrdpaInv, DrdpaReads, Top, At
<1>10. DrdpaGrows'
    BY <1>1, <1>3 DEF DrdpaTyped, DrdpaInv, DrdpaGrows, Top, At
<1>11. \A u \in Threads : pc'[u] \in Shared \cup DrdpaPlaces
    BY <1>1 DEF DrdpaTyped, DrdpaInv, Others, DrdpaPlaces
<1>12. QED
    BY <1>1, <1>2, <1>6, <1>7, <1>8, <1>9, <1>10, <1>11 DEF DrdpaKept, DrdpaInv, DrdpaTyped

\* Every thread that may poll the last area has a ticket before the next one.
LEMMA CleanupDrdpa ==
    ASSUME DrdpaTyped, NEW t \in Threads, DrdpaCleanup(t)
    PROVE  DrdpaKept
<1>1. /\ pc[t] = "drdpaCleanup" /\ pc'[t] = "got" /\ Others(t)
      /\ cleanup_ticket' = next_ticket
      /\ UNCHANGED <<val, aux, ticket, next_ticket, now_serving>>
      /\ UNCHANGED <<areas, freed, polls, mask, old_polls>>
    BY DEF DrdpaTyped, DrdpaCleanup, CleanupAt, Got, Others, At, Go, local, tickets
<1>2. PICK f \in Nat : DrdpaTickets(f) /\ DrdpaWords(f)
    BY DEF DrdpaTyped, DrdpaInv
<1>3. \A u \in Threads : /\ DrdpaHas(u)' <=> DrdpaHas(u)
                         /\ InDrdpaLine(u)' <=> InDrdpaLine(u)
                         /\ u # t => pc'[u] = pc[u]
    BY <1>1 DEF DrdpaHas, InDrdpaLine, Others
<1>4. next_ticket \in Nat /\ \A u \in Threads : At(u, "drdpaSpin") => ticket[u] < next_ticket
    BY <1>2 DEF DrdpaTickets, InDrdpaLine, At
<1>5. DrdpaTickets(f)'
    BY <1>1, <1>2, <1>3 DEF DrdpaTickets
<1>6. DrdpaWords(f)'
    BY <1>1, <1>2, <1>3 DEF DrdpaWords, Top
<1>7. DrdpaAreas'
    BY <1>1, <1>4 DEF DrdpaTyped, DrdpaInv, DrdpaAreas, Top
<1>8. DrdpaReads'
    BY <1>1, <1>3, <1>4 DEF DrdpaTyped, DrdpaInv, DrdpaReads, Top, At
<1>9. DrdpaGrows'
    BY <1>1, <1>3 DEF DrdpaTyped, DrdpaInv, DrdpaGrows, Top, At
<1>10. \A u \in Threads : pc'[u] \in Shared \cup DrdpaPlaces
    BY <1>1 DEF DrdpaTyped, DrdpaInv, Others, Shared
<1>11. QED
    BY <1>1, <1>2, <1>5, <1>6, <1>7, <1>8, <1>9, <1>10 DEF DrdpaKept, DrdpaInv, DrdpaTyped

\* The turn passes to the next ticket.
LEMMA ReleaseDrdpa ==
    ASSUME DrdpaTyped, NEW t \in Threads, DrdpaRelease(t)
    PROVE  DrdpaKept
<1>1. /\ pc[t] = "drdpaRelease" /\ pc'[t] = "idle" /\ Others(t)
      /\ UNCHANGED <<next_ticket, now_serving>>
      /\ UNCHANGED <<freed, polls, mask, old_polls, cleanup_ticket>>
    BY DEF DrdpaTyped, DrdpaRelease, Idle, Others, At, Go, Set, tickets
<1>2. PICK f \in Nat : DrdpaTickets(f) /\ DrdpaWords(f)
    BY DEF DrdpaTyped, DrdpaInv
<1>3. \A u \in Threads : u # t => pc'[u] = pc[u] /\ ticket'[u] = ticket[u]
                                  /\ val'[u] = val[u] /\ aux'[u] = aux[u]
    BY <1>1 DEF Others
<1>4. DrdpaHas(t) /\ InDrdpaLine(t) /\ ticket[t] = f /\ now_serving = f
      /\ \A u \in Threads : DrdpaHas(u) => u = t
    BY <1>1, <1>2, OneHasDrdpa DEF DrdpaHas, InDrdpaLine, DrdpaTickets
<1>5. \A u \in Threads : /\ ~DrdpaHas(u)'
                         /\ InDrdpaLine(u)' <=> u # t /\ InDrdpaLine(u)
    BY <1>1, <1>3, <1>4 DEF DrdpaHas, InDrdpaLine
<1>6. /\ areas \in Seq(Areas) /\ polls \in 1 .. Len(areas)
      /\ mask \in 0 .. Top(areas[polls])
    BY DEF DrdpaTyped, DrdpaInv, DrdpaAreas
<1>7. areas[polls] \in Areas
    BY <1>6
<1>8. Top(areas[polls]) \in Nat /\ areas[polls] \in [0 .. Top(areas[polls]) -> Nat]
    BY <1>7, AreaIs
<1>9. PICK j \in 0 .. Top(areas[polls]) :
          areas' = [areas EXCEPT ![polls] = [areas[polls] EXCEPT ![j] = f + 1]]
  <2>1. (f + 1) % (mask + 1) \in 0 .. mask
    BY <1>6, <1>8
  <2>2. areas' = [areas EXCEPT ![polls] =
                     [areas[polls] EXCEPT ![(now_serving + 1) % (mask + 1)] = now_serving + 1]]
    BY DEF DrdpaRelease
  <2>3. (f + 1) % (mask + 1) \in 0 .. Top(areas[polls])
    BY <1>6, <1>8, <2>1
  <2>4. QED
    BY <1>4, <2>2, <2>3
<1>10. PICK a : a = [areas[polls] EXCEPT ![j] = f + 1]
    OBVIOUS
<1>11. a \in [0 .. Top(areas[polls]) -> Nat] /\ areas' = [areas EXCEPT ![polls] = a]
    BY <1>8, <1>9, <1>10
<1>12. a \in Areas /\ Top(a) = Top(areas[polls])
  <2>1. a \in Areas
    BY <1>8, <1>11 DEF Areas
  <2>2. DOMAIN a = 0 .. Top(areas[polls])
    BY <1>11
  <2>3. QED
    BY <1>8, <2>1, <2>2, AreaSize
<1>13. /\ areas' \in Seq(Areas) /\ Len(areas') = Len(areas)
       /\ \A b \in 1 .. Len(areas) : areas'[b] = IF b = polls THEN a ELSE areas[b]
    BY <1>6, <1>11, <1>12
<1>14. \A b \in 1 .. Len(areas) : Top(areas'[b]) = Top(areas[b])
    BY <1>12, <1>13
<1>15. DrdpaTickets(f + 1)'
  <2>1. f + 1 \in Nat /\ f + 1 <= next_ticket
    BY <1>2, <1>4 DEF DrdpaTickets
  <2>2. \A u \in Threads : InDrdpaLine(u)' => f + 1 <= ticket[u]
    BY <1>2, <1>4, <1>5 DEF DrdpaTickets
  <2>3. \A k \in f + 1 .. next_ticket - 1 : \E u \in Threads : InDrdpaLine(u)' /\ ticket[u] = k
    <3>1. ASSUME NEW k \in f + 1 .. next_ticket - 1
          PROVE  \E u \in Threads : InDrdpaLine(u)' /\ ticket[u] = k
      <4>1. k \in f .. next_ticket - 1 /\ k # f
        BY <1>2 DEF DrdpaTickets
      <4>2. PICK u \in Threads : InDrdpaLine(u) /\ ticket[u] = k
        BY <1>2, <4>1 DEF DrdpaTickets
      <4>3. QED
        BY <1>4, <1>5, <4>1, <4>2
    <3>2. QED
      BY <3>1
  <2>4. QED
    BY <1>1, <1>2, <1>3, <1>5, <2>1, <2>2, <2>3 DEF DrdpaTickets
<1>16. DrdpaWords(f + 1)'
  <2>1. ASSUME NEW b \in 1 .. Len(areas), NEW i \in 0 .. Top(areas[b])
        PROVE  areas'[b][i] <= f + 1 /\ (b # polls => areas'[b][i] < f + 1)
    <3>1. areas[b] \in Areas
      BY <1>6
    <3>2. areas[b][i] \in Nat /\ areas[b][i] <= f
      BY <1>2, <3>1, AreaIs DEF DrdpaWords
    <3>3. CASE b = polls
      BY <1>8, <1>10, <1>13, <3>2, <3>3
    <3>4. CASE b # polls
      BY <1>13, <3>2, <3>4
    <3>5. QED
      BY <3>3, <3>4
  <2>2. UNCHANGED polls
    BY <1>1
  <2>3. QED
    BY <1>13, <1>14, <2>1, <2>2 DEF DrdpaWords
<1>17. DrdpaAreas'
    BY <1>1, <1>13, <1>14 DEF DrdpaTyped, DrdpaInv, DrdpaAreas
<1>18. DrdpaReads'
  <2>1. ASSUME NEW u \in Threads, At(u, "drdpaPolls")'
        PROVE  aux'[u] \in 0 .. Top(areas[polls])
    BY <1>1, <1>3, <2>1 DEF DrdpaTyped, DrdpaInv, DrdpaReads, At
  <2>2. ASSUME NEW u \in Threads, At(u, "drdpaSpin")'
        PROVE  /\ val'[u] = polls \/ (val'[u] = old_polls /\ old_polls # 0)
               /\ aux'[u] \in 0 .. Top(areas[val'[u]])
               /\ val'[u] = old_polls =>
                     \/ ticket'[u] < cleanup_ticket
                     \/ \E w \in Threads : pc'[w] \in {"drdpaNewMask", "drdpaCleanup"}
    <3>1. u # t /\ At(u, "drdpaSpin") /\ val'[u] = val[u] /\ aux'[u] = aux[u]
          /\ ticket'[u] = ticket[u]
      BY <1>1, <1>3, <2>2 DEF At
    <3>2. \A w \in Threads : pc[w] \notin {"drdpaNewMask", "drdpaCleanup"}
      BY <1>1, <1>4 DEF DrdpaHas
    <3>3. QED
      BY <3>1, <3>2 DEF DrdpaTyped, DrdpaInv, DrdpaReads
  <2>3. \A u \in Threads : At(u, "drdpaSpin")' => val'[u] \in 1 .. Len(areas)
    <3>1. Len(areas) \in Nat /\ polls \in 1 .. Len(areas) /\ old_polls \in 0 .. Len(areas)
      BY <1>6 DEF DrdpaTyped, DrdpaInv, DrdpaAreas
    <3>2. QED
      BY <2>2, <3>1
  <2>4. QED
    BY <1>1, <1>6, <1>14, <2>1, <2>2, <2>3 DEF DrdpaReads
<1>19. DrdpaGrows'
  <2>1. \A u \in Threads :
           pc'[u] \notin {"drdpaServe", "drdpaGrow", "drdpaNewPolls", "drdpaNewMask"}
    BY <1>5 DEF DrdpaHas
  <2>2. QED
    BY <2>1 DEF DrdpaGrows, At
<1>20. \A u \in Threads : pc'[u] \in Shared \cup DrdpaPlaces
    BY <1>1 DEF DrdpaTyped, DrdpaInv, Others, Shared
<1>21. val' \in [Threads -> Int] /\ aux' \in [Threads -> Int] /\ ticket' \in [Threads -> Int]
    BY DEF DrdpaTyped, DrdpaRelease, Idle, Set
<1>22. f + 1 \in Nat
    OBVIOUS
<1>23. QED
    BY <1>15, <1>16, <1>17, <1>18, <1>19, <1>20, <1>21, <1>22 DEF DrdpaKept, DrdpaInv

\* A set of natural numbers that has a member has a least one.
LEMMA Least ==
    ASSUME NEW T \in SUBSET Nat, T # {}
    PROVE  \E x \in T : \A y \in T : x <= y
<1>1. PICK x \in T : \A y \in T : ~(<<y, x>> \in OpToRel(<, Nat))
    BY WFMin, NatLessThanWellFounded
<1>2. \A y \in T : ~(y < x)
    BY <1>1 DEF OpToRel
<1>3. QED
    BY <1>2

\* As many subsets as a power of two, and a subset for each member and one more.
LEMMA PowerOfTwo ==
    ASSUME NEW i \in Nat
    PROVE  2 ^ i \in Nat /\ i < 2 ^ i
<1>1. IsFiniteSet(1 .. i) /\ Cardinality(1 .. i) = i
    BY FS_Interval
<1>2. IsFiniteSet(SUBSET (1 .. i)) /\ Cardinality(SUBSET (1 .. i)) = 2 ^ i
    BY <1>1, FS_SUBSET
<1>3. 2 ^ i \in Nat
    BY <1>2, FS_CardinalityType
<1>4. PICK g : g = [x \in 0 .. i |-> IF x = 0 THEN {} ELSE {x}]
    OBVIOUS
<1>5. g \in Injection(0 .. i, SUBSET (1 .. i))
  <2>1. \A x \in 0 .. i : g[x] \in SUBSET (1 .. i)
    BY <1>4
  <2>2. g \in [0 .. i -> SUBSET (1 .. i)]
    BY <1>4, <2>1
  <2>3. \A x, y \in 0 .. i : g[x] = g[y] => x = y
    BY <1>4
  <2>4. QED
    BY <2>2, <2>3 DEF Injection, IsInjective
<1>6. Cardinality(0 .. i) <= 2 ^ i
    BY <1>2, <1>5, FS_Injection
<1>7. Cardinality(0 .. i) = i + 1
    BY FS_Interval
<1>8. QED
    BY <1>3, <1>6, <1>7

\* The smallest size that is large enough exists, and is one of those that are tried.
LEMMA GrownIs ==
    ASSUME NEW n \in Nat \ {0}, NEW w \in Nat, w < NThreads
    PROVE  Grown(n, w) \in Nat /\ w < Grown(n, w)
<1>1. PICK K : K = {n * 2 ^ i : i \in 1 .. NThreads}
    OBVIOUS
<1>2. NThreads \in Nat \ {0}
    BY LocksAssumption
<1>3. K \in SUBSET Nat
    BY <1>1, <1>2, PowerOfTwo
<1>4. PICK T : T = {k \in K : k > w}
    OBVIOUS
<1>5. T # {}
  <2>1. 2 ^ NThreads \in Nat /\ w < 2 ^ NThreads
    BY <1>2, PowerOfTwo
  <2>2. \A p \in Nat : p <= n * p
    OBVIOUS
  <2>3. n * 2 ^ NThreads \in K
    BY <1>1, <1>2
  <2>4. n * 2 ^ NThreads \in Nat /\ w < n * 2 ^ NThreads
    BY <1>3, <2>1, <2>2, <2>3
  <2>5. QED
    BY <1>4, <2>3, <2>4
<1>6. PICK k \in T : \A j \in T : k <= j
    BY <1>3, <1>4, <1>5, Least
<1>7. k \in K /\ k > w /\ \A j \in K : j > w => k <= j
    BY <1>4, <1>6
<1>8. Grown(n, w) \in K /\ Grown(n, w) > w
    BY <1>1, <1>7 DEF Grown
<1>9. QED
    BY <1>3, <1>8

\* There are no more tickets in use than threads.
LEMMA FewWait ==
    ASSUME NEW f \in Nat, DrdpaTickets(f)
    PROVE  next_ticket - f <= NThreads
<1>1. PICK S : S = f .. next_ticket - 1
    OBVIOUS
<1>2. next_ticket \in Nat /\ f <= next_ticket /\ NThreads \in Nat
    BY LocksAssumption DEF DrdpaTickets
<1>3. IsFiniteSet(S) /\ Cardinality(S) = next_ticket - f
  <2>1. Cardinality(S) = IF f > next_ticket - 1 THEN 0 ELSE next_ticket - 1 - f + 1
    BY <1>1, <1>2, FS_Interval
  <2>2. IsFiniteSet(S)
    BY <1>1, <1>2, FS_Interval
  <2>3. QED
    BY <1>2, <2>1, <2>2
<1>4. IsFiniteSet(Threads) /\ Cardinality(Threads) = NThreads
    BY <1>2, FS_Interval DEF Threads
<1>5. PICK g : g = [k \in S |-> CHOOSE u \in Threads : InDrdpaLine(u) /\ ticket[u] = k]
    OBVIOUS
<1>6. \A k \in S : g[k] \in Threads /\ ticket[g[k]] = k
    BY <1>1, <1>5 DEF DrdpaTickets
<1>7. g \in Injection(S, Threads)
  <2>1. g \in [S -> Threads]
    BY <1>5, <1>6
  <2>2. \A j, k \in S : g[j] = g[k] => j = k
    BY <1>6
  <2>3. QED
    BY <2>1, <2>2 DEF Injection, IsInjective
<1>8. Cardinality(S) <= Cardinality(Threads)
    BY <1>4, <1>7, FS_Injection
<1>9. QED
    BY <1>3, <1>4, <1>8

LEMMA GrowDrdpa ==
    ASSUME DrdpaTyped, NEW t \in Threads, DrdpaGrow(t)
    PROVE  DrdpaKept
<1>1. PICK over \in Oversubscribed :
          IF old_polls = 0 /\ (IF over THEN NumPolls > 1 ELSE Waiting(t) > NumPolls)
          THEN /\ areas' = Append(areas, NewArea(t, over))
               /\ aux' = Set(aux, t, Cardinality(DOMAIN NewArea(t, over)) - 1)
               /\ Go(t, "drdpaNewPolls")
          ELSE Got(t) /\ UNCHANGED <<areas, aux>>
    BY DEF DrdpaGrow
<1>2. over = FALSE
    BY LocksAssumption DEF DrdpaTyped, OnlyGrows
<1>3. /\ pc[t] = "drdpaGrow" /\ UNCHANGED <<val, ticket, next_ticket, now_serving>>
      /\ UNCHANGED <<freed, polls, mask, old_polls, cleanup_ticket>>
    BY DEF DrdpaGrow, At, tickets
<1>4. /\ pc'[t] \in {"drdpaNewPolls", "got"} /\ Others(t)
    BY <1>1, <1>3 DEF DrdpaTyped, Others, Go, Got, Set
<1>5. PICK f \in Nat : DrdpaTickets(f) /\ DrdpaWords(f)
    BY DEF DrdpaTyped, DrdpaInv
<1>6. \A u \in Threads : /\ DrdpaHas(u)' <=> DrdpaHas(u)
                         /\ InDrdpaLine(u)' <=> InDrdpaLine(u)
                         /\ u # t => pc'[u] = pc[u]
    BY <1>3, <1>4 DEF DrdpaHas, InDrdpaLine, Others
<1>7. /\ DrdpaHas(t) /\ ticket[t] = f /\ \A u \in Threads : DrdpaHas(u) => u = t
    BY <1>3, <1>5, OneHasDrdpa DEF DrdpaHas, DrdpaTickets
<1>8. DrdpaTickets(f)'
    BY <1>3, <1>4, <1>5, <1>6, <1>7 DEF DrdpaTickets
<1>9. \A u \in Threads : pc'[u] \in Shared \cup DrdpaPlaces
    BY <1>4 DEF DrdpaTyped, DrdpaInv, Others, DrdpaPlaces, Shared
<1>10. val' \in [Threads -> Int] /\ ticket' \in [Threads -> Int]
    BY <1>3 DEF DrdpaTyped
<1>11. CASE UNCHANGED <<areas, aux>> /\ pc'[t] = "got"
  <2>1. DrdpaWords(f)'
    BY <1>3, <1>5, <1>6, <1>11 DEF DrdpaWords, Top
  <2>2. DrdpaAreas'
    BY <1>3, <1>11 DEF DrdpaTyped, DrdpaInv, DrdpaAreas, Top
  <2>3. DrdpaReads'
    BY <1>3, <1>6, <1>11 DEF DrdpaTyped, DrdpaInv, DrdpaReads, Top, At
  <2>4. DrdpaGrows'
    BY <1>3, <1>6, <1>11 DEF DrdpaTyped, DrdpaInv, DrdpaGrows, Top, At
  <2>5. QED
    BY <1>8, <1>9, <1>10, <1>11, <2>1, <2>2, <2>3, <2>4 DEF DrdpaKept, DrdpaInv, DrdpaTyped
<1>12. CASE /\ old_polls = 0 /\ Waiting(t) > NumPolls /\ pc'[t] = "drdpaNewPolls"
            /\ areas' = Append(areas, NewArea(t, FALSE))
            /\ aux' = Set(aux, t, Cardinality(DOMAIN NewArea(t, FALSE)) - 1)
  <2>1. /\ areas \in Seq(Areas) /\ polls \in 1 .. Len(areas) /\ freed \subseteq 1 .. Len(areas)
        /\ polls \notin freed /\ mask \in 0 .. Top(areas[polls]) /\ cleanup_ticket \in Nat
    BY DEF DrdpaTyped, DrdpaInv, DrdpaAreas
  <2>2. areas[polls] \in Areas
    BY <2>1
  <2>3. /\ Top(areas[polls]) \in Nat /\ areas[polls] \in [0 .. Top(areas[polls]) -> Nat]
        /\ NumPolls = Top(areas[polls]) + 1
    BY <2>2, AreaIs DEF NumPolls
  <2>4. Waiting(t) \in Nat /\ Waiting(t) < NThreads
    <3>1. next_ticket - f <= NThreads /\ next_ticket \in Nat /\ ticket[t] = f
          /\ f < next_ticket
      BY <1>5, <1>7, FewWait DEF DrdpaTickets, InDrdpaLine
    <3>2. QED
      BY <3>1, LocksAssumption DEF Waiting
  <2>5. PICK g : g = Grown(NumPolls, Waiting(t))
    OBVIOUS
  <2>6. g \in Nat /\ Waiting(t) < g
    BY <2>3, <2>4, <2>5, GrownIs
  <2>7. g - 1 \in Nat /\ NumPolls <= g - 1
    BY <1>12, <2>3, <2>4, <2>6
  <2>8. val[t] = polls
    BY <1>3 DEF DrdpaTyped, DrdpaInv, DrdpaGrows
  <2>9. PICK a : a = NewArea(t, FALSE)
    OBVIOUS
  <2>10. a = [i \in 0 .. g - 1 |-> IF i < NumPolls THEN areas[polls][i] ELSE 0]
    BY <2>5, <2>8, <2>9 DEF NewArea
  <2>11. a \in [0 .. g - 1 -> Nat] /\ a \in Areas
    <3>1. \A i \in 0 .. g - 1 : i < NumPolls => i \in 0 .. Top(areas[polls])
      BY <2>3, <2>6
    <3>2. a \in [0 .. g - 1 -> Nat]
      BY <2>3, <2>10, <3>1
    <3>3. QED
      BY <2>7, <3>2 DEF Areas
  <2>12. DOMAIN a = 0 .. g - 1 /\ Top(a) = g - 1 /\ Cardinality(DOMAIN a) = g
    <3>1. DOMAIN a = 0 .. g - 1
      BY <2>11
    <3>2. Top(a) = g - 1
      BY <2>7, <3>1, AreaSize
    <3>3. Top(a) = Cardinality(DOMAIN a) - 1 /\ Cardinality(DOMAIN a) = Top(a) + 1
      BY <2>11, AreaIs DEF Top
    <3>4. QED
      BY <2>6, <3>1, <3>2, <3>3
  <2>13. /\ areas' \in Seq(Areas) /\ Len(areas') = Len(areas) + 1 /\ areas'[Len(areas')] = a
         /\ \A b \in 1 .. Len(areas) : areas'[b] = areas[b]
    <3>1. areas' = Append(areas, a)
      BY <1>12, <2>9
    <3>2. QED
      BY <2>1, <2>11, <3>1
  <2>14. /\ aux'[t] = g - 1 /\ aux' \in [Threads -> Int]
    <3>1. aux' = Set(aux, t, Cardinality(DOMAIN a) - 1)
      BY <1>12, <2>9
    <3>2. aux' = Set(aux, t, g - 1)
      BY <2>12, <3>1
    <3>3. aux \in [Threads -> Int] /\ g - 1 \in Int
      BY <2>7 DEF DrdpaTyped
    <3>4. QED
      BY <3>2, <3>3 DEF Set
  <2>15. Len(areas) \in Nat /\ Len(areas') \in 1 .. Len(areas') /\ Len(areas') \notin freed
         /\ polls < Len(areas') /\ polls \in 1 .. Len(areas')
    BY <2>1, <2>13
  <2>16. DrdpaWords(f)'
    <3>1. ASSUME NEW b \in 1 .. Len(areas'), NEW i \in 0 .. Top(areas'[b])
          PROVE  areas'[b][i] <= f
      <4>1. CASE b \in 1 .. Len(areas)
        BY <1>5, <2>13, <3>1, <4>1 DEF DrdpaWords
      <4>2. CASE b = Len(areas')
        <5>1. i \in 0 .. g - 1 /\ areas'[b] = a
          BY <2>12, <2>13, <3>1, <4>2
        <5>2. CASE i < NumPolls
          <6>1. i \in 0 .. Top(areas[polls]) /\ areas'[b][i] = areas[polls][i]
            BY <2>3, <2>10, <5>1, <5>2
          <6>2. QED
            BY <1>5, <2>1, <6>1 DEF DrdpaWords
        <5>3. CASE ~(i < NumPolls)
          BY <2>10, <5>1, <5>3
        <5>4. QED
          BY <5>2, <5>3
      <4>3. QED
        BY <2>13, <2>15, <3>1, <4>1, <4>2
    <3>2. DrdpaHas(t)'
      BY <1>6, <1>7
    <3>3. QED
      BY <3>1, <3>2 DEF DrdpaWords
  <2>17. DrdpaAreas'
    <3>1. areas'[polls] = areas[polls] /\ 0 \notin freed
      BY <2>1, <2>13
    <3>2. freed \subseteq 1 .. Len(areas')
      BY <2>1, <2>13, <2>15
    <3>3. old_polls \in 0 .. Len(areas') /\ old_polls # polls /\ old_polls \notin freed
      BY <1>12, <2>1, <2>15, <3>1
    <3>4. UNCHANGED <<freed, polls, mask, old_polls, cleanup_ticket>>
      BY <1>3
    <3>5. mask \in 0 .. Top(areas'[polls])
      BY <2>1, <3>1
    <3>6. QED
      BY <2>1, <2>13, <2>15, <3>2, <3>3, <3>4, <3>5 DEF DrdpaAreas
  <2>18. DrdpaReads'
    <3>1. \A u \in Threads : At(u, "drdpaPolls")' =>
             u # t /\ aux'[u] = aux[u] /\ aux[u] \in 0 .. Top(areas[polls])
      BY <1>4, <1>6, <1>12 DEF DrdpaTyped, DrdpaInv, DrdpaReads, At, Others
    <3>2. \A u \in Threads : At(u, "drdpaSpin")' =>
             u # t /\ aux'[u] = aux[u] /\ val[u] = polls /\ aux[u] \in 0 .. Top(areas[polls])
      BY <1>4, <1>6, <1>12 DEF DrdpaTyped, DrdpaInv, DrdpaReads, At, Others
    <3>3. areas'[polls] = areas[polls] /\ UNCHANGED <<polls, val, old_polls>> /\ polls # 0
      BY <1>3, <2>1, <2>13
    <3>4. Top(areas'[polls]) = Top(areas[polls])
      BY <3>3
    <3>5. QED
      BY <1>12, <3>1, <3>2, <3>3, <3>4 DEF DrdpaReads
  <2>19. DrdpaGrows'
    <3>1. \A u \in Threads : /\ pc'[u] \notin {"drdpaServe", "drdpaGrow", "drdpaNewMask"}
                             /\ pc'[u] = "drdpaNewPolls" => u = t
      BY <1>6, <1>7, <1>12 DEF DrdpaHas
    <3>2. /\ areas'[polls] = areas[polls] /\ UNCHANGED <<polls, val, old_polls, freed>>
      BY <1>3, <2>1, <2>13
    <3>3. Top(areas'[polls]) <= Top(areas'[Len(areas')])
          /\ aux'[t] = Top(areas'[Len(areas')])
      BY <2>3, <2>7, <2>12, <2>13, <2>14, <3>2
    <3>4. QED
      BY <1>12, <2>8, <2>15, <3>1, <3>2, <3>3 DEF DrdpaGrows, At
  <2>20. QED
    BY <1>8, <1>9, <1>10, <2>14, <2>16, <2>17, <2>18, <2>19 DEF DrdpaKept, DrdpaInv
<1>13. QED
    BY <1>1, <1>2, <1>3, <1>11, <1>12 DEF DrdpaTyped, Go, Got

LEMMA DrdpaStep ==
    ASSUME IInv, NEW t \in Threads,
           \/ DrdpaTake(t) \/ DrdpaMask(t) \/ DrdpaPolls(t) \/ DrdpaSpin(t) \/ DrdpaServe(t)
           \/ DrdpaGrow(t) \/ DrdpaNewPolls(t) \/ DrdpaNewMask(t) \/ DrdpaCleanup(t)
           \/ DrdpaRelease(t)
    PROVE  IInv'
<1>1. kind = "drdpa" /\ pc[t] \in DrdpaPlaces
    BY KindOf DEF DrdpaTake, DrdpaMask, DrdpaPolls, DrdpaSpin, DrdpaServe, DrdpaGrow,
                  DrdpaNewPolls, DrdpaNewMask, DrdpaCleanup, DrdpaRelease, At, DrdpaPlaces
<1>2. /\ UNCHANGED <<kind, nestable, checked, owner_id>>
      /\ \E l \in DrdpaPlaces \cup {"idle", "got"} : Go(t, l)
  <2>1. CASE \/ DrdpaTake(t) \/ DrdpaMask(t) \/ DrdpaPolls(t) \/ DrdpaSpin(t)
             \/ DrdpaServe(t)
    BY <2>1 DEF DrdpaTake, DrdpaMask, DrdpaPolls, DrdpaSpin, DrdpaServe, lock, nest,
                DrdpaPlaces
  <2>2. CASE DrdpaGrow(t)
    BY <2>2 DEF DrdpaGrow, Got, lock, nest, DrdpaPlaces
  <2>3. CASE DrdpaNewPolls(t) \/ DrdpaNewMask(t) \/ DrdpaCleanup(t) \/ DrdpaRelease(t)
    BY <2>3 DEF DrdpaNewPolls, DrdpaNewMask, DrdpaCleanup, DrdpaRelease, Got, Idle, lock,
                nest, DrdpaPlaces
  <2>4. QED
    BY <2>1, <2>2, <2>3
<1>3. pc' \in [Threads -> Places] /\ \A u \in Threads : At(u, "held")' <=> At(u, "held")
    BY <1>1, <1>2 DEF IInv, Typed, At, Go, DrdpaPlaces, Places, Shared
<1>4. OwnerHolds'
    BY <1>2, <1>3, OwnerKept DEF IInv
<1>5. DrdpaTyped
    BY <1>1 DEF IInv, Typed, DrdpaTyped
<1>6. DrdpaKept
    BY <1>5, TakeDrdpa, MaskDrdpa, PollsDrdpa, SpinDrdpa, ServeDrdpa, GrowDrdpa,
       NewPollsDrdpa, NewMaskDrdpa, CleanupDrdpa, ReleaseDrdpa
<1>7. Typed'
    BY <1>2, <1>3, <1>6 DEF IInv, Typed, DrdpaKept
<1>8. QED
    BY <1>1, <1>2, <1>4, <1>5, <1>6, <1>7 DEF IInv, DrdpaKept, DrdpaTyped
---------------------------------------------------------------------------
(***************************************************************************)
(* The theorems.                                                           *)
(***************************************************************************)
LEMMA Stutter ==
    ASSUME IInv, UNCHANGED vars
    PROVE  IInv'
<1>1. UNCHANGED <<kind, nestable, checked, pc, owner_id, val, aux, ticket, poll, waker,
                  next_ticket, now_serving, head_id, tail_id, next_waiting, spin_here>>
    BY DEF vars, lock, local, nest, word, tickets, queue
<1>2. Typed' /\ OwnerHolds'
    BY <1>1 DEF IInv, Typed, OwnerHolds, Words, KeepsOwner, At
<1>3. kind = "tas" => TasInv'
    BY <1>1 DEF IInv, TasInv, TasHas
<1>4. kind = "futex" => FutexInv'
    BY <1>1 DEF IInv, FutexInv, FutexHas, At
<1>5. kind = "ticket" => TicketInv'
    BY <1>1 DEF IInv, TicketInv, TicketHas, InTicketLine, At
<1>6. kind = "queuing" => QueueInv'
    BY <1>1 DEF IInv, QueueInv, QueueTyped, OneHas, QueueHas, Ends, Links, Handover, InQueue,
                Spins, At
<1>7. ASSUME kind = "drdpa"
      PROVE  DrdpaInv'
  <2>1. UNCHANGED <<areas, freed, polls, mask, old_polls, cleanup_ticket>>
    BY DEF vars, area
  <2>2. PICK f \in Nat : DrdpaTickets(f) /\ DrdpaWords(f)
    BY <1>7 DEF IInv, DrdpaInv
  <2>3. DrdpaTickets(f)'
    BY <1>1, <2>2 DEF DrdpaTickets, InDrdpaLine, DrdpaHas
  <2>4. DrdpaWords(f)'
    BY <1>1, <2>1, <2>2 DEF DrdpaWords, DrdpaHas, Top
  <2>5. DrdpaAreas' /\ DrdpaReads' /\ DrdpaGrows'
    BY <1>1, <1>7, <2>1 DEF IInv, DrdpaInv, DrdpaAreas, DrdpaReads, DrdpaGrows, Top, At
  <2>6. QED
    BY <1>1, <1>7, <2>3, <2>4, <2>5 DEF IInv, DrdpaInv
<1>8. QED
    BY <1>1, <1>2, <1>3, <1>4, <1>5, <1>6, <1>7 DEF IInv

LEMMA KindKept ==
    ASSUME [Next]_vars
    PROVE  UNCHANGED kind
<1>1. CASE UNCHANGED vars
    BY <1>1 DEF vars, lock
<1>2. CASE \E t \in Threads : ThreadStep(t) \/ FutexSignal(t)
  <2>1. PICK t \in Threads : ThreadStep(t) \/ FutexSignal(t)
    BY <1>2
  <2>2. CASE \/ CallSet(t) \/ CallTest(t) \/ NoteOwner(t) \/ Again(t) \/ CallUnset(t)
             \/ TasRead(t) \/ TasCas(t) \/ TasTest(t) \/ TasRelease(t)
    BY <2>2 DEF lock, CallSet, CallTest, NoteOwner, Again, CallUnset, TasRead, TasCas,
                TasTest, TasRelease
  <2>3. CASE \/ FutexCas(t) \/ FutexMark(t) \/ FutexWait(t) \/ FutexWoken(t)
             \/ FutexTest(t) \/ FutexRelease(t) \/ FutexWake(t) \/ FutexSignal(t)
             \/ TicketTake(t) \/ TicketWait(t) \/ TicketTest(t) \/ TicketTestServing(t)
             \/ TicketTestCas(t) \/ TicketRelease(t)
    BY <2>3 DEF lock, FutexCas, FutexMark, FutexWait, FutexWoken, FutexTest, FutexRelease,
                FutexWake, FutexSignal, TicketTake, TicketWait, TicketTest,
                TicketTestServing, TicketTestCas, TicketRelease
  <2>4. CASE \/ QueueSet(t) \/ QueueHead(t) \/ QueueFirst(t) \/ QueueGrab(t)
             \/ QueueTail(t) \/ QueueJoin(t) \/ QueueLink(t) \/ QueueSpin(t)
             \/ QueueTest(t) \/ QueueTestCas(t)
    BY <2>4 DEF lock, QueueSet, QueueHead, QueueFirst, QueueGrab, QueueTail, QueueJoin,
                QueueLink, QueueSpin, QueueTest, QueueTestCas
  <2>5. CASE \/ ReleaseHead(t) \/ ReleaseFree(t) \/ ReleaseTail(t) \/ ReleaseLast(t)
             \/ ReleaseNext(t) \/ ReleaseUnlink(t) \/ ReleaseWake(t)
    BY <2>5 DEF lock, ReleaseHead, ReleaseFree, ReleaseTail, ReleaseLast, ReleaseNext,
                ReleaseUnlink, ReleaseWake
  <2>6. CASE \/ DrdpaTake(t) \/ DrdpaMask(t) \/ DrdpaPolls(t) \/ DrdpaSpin(t)
             \/ DrdpaServe(t) \/ DrdpaGrow(t) \/ DrdpaNewPolls(t) \/ DrdpaNewMask(t)
             \/ DrdpaCleanup(t) \/ DrdpaTest(t) \/ DrdpaTestPolls(t) \/ DrdpaTestMask(t)
             \/ DrdpaTestRead(t) \/ DrdpaTestCas(t) \/ DrdpaTestServe(t)
             \/ DrdpaRelease(t)
    BY <2>6 DEF lock, DrdpaTake, DrdpaMask, DrdpaPolls, DrdpaSpin, DrdpaServe, DrdpaGrow,
                DrdpaNewPolls, DrdpaNewMask, DrdpaCleanup, DrdpaTest, DrdpaTestPolls,
                DrdpaTestMask, DrdpaTestRead, DrdpaTestCas, DrdpaTestServe, DrdpaRelease
  <2>7. QED
    BY <2>1, <2>2, <2>3, <2>4, <2>5, <2>6 DEF ThreadStep
<1>3. QED
    BY <1>1, <1>2 DEF Next, vars, lock

LEMMA NextInv ==
    ASSUME IInv, [Next]_vars
    PROVE  IInv'
<1>1. CASE UNCHANGED vars
    BY <1>1, Stutter
<1>2. CASE \E t \in Threads : ThreadStep(t) \/ FutexSignal(t)
  <2>1. PICK t \in Threads : ThreadStep(t) \/ FutexSignal(t)
    BY <1>2
  <2>2. pc[t] \notin {"drdpaTest", "drdpaTestPolls", "drdpaTestMask", "drdpaTestRead",
                      "drdpaTestCas", "drdpaTestServe"}
    BY KindOf
  <2>3. ~( \/ DrdpaTest(t) \/ DrdpaTestPolls(t) \/ DrdpaTestMask(t) \/ DrdpaTestRead(t)
           \/ DrdpaTestCas(t) \/ DrdpaTestServe(t))
    BY <2>2 DEF At, DrdpaTest, DrdpaTestPolls, DrdpaTestMask, DrdpaTestRead, DrdpaTestCas,
                DrdpaTestServe
  <2>4. QED
    BY <2>1, <2>3, SharedStep, TasStep, FutexStep, TicketStep, QueueStep, DrdpaStep
       DEF ThreadStep
<1>3. QED
    BY <1>1, <1>2 DEF Next

LEMMA OneInside ==
    ASSUME IInv
    PROVE  MutualExclusion
<1>1. SUFFICES ASSUME NEW t \in Threads, NEW u \in Threads, Inside(t), Inside(u)
      PROVE  t = u
    BY DEF MutualExclusion
<1>2. pc[t] \in {"got", "held"} \cup DrdpaPlaces /\ pc[u] \in {"got", "held"} \cup DrdpaPlaces
    BY <1>1, KindOf DEF Inside, DrdpaPlaces
<1>3. kind # "drdpa" => pc[t] \in {"got", "held"} /\ pc[u] \in {"got", "held"}
    BY <1>2, KindOf
<1>4. CASE kind = "tas"
    BY <1>3, <1>4 DEF IInv, TasInv, TasHas
<1>5. CASE kind = "futex"
    BY <1>3, <1>5 DEF IInv, FutexInv, FutexHas
<1>6. CASE kind = "ticket"
    BY <1>3, <1>6 DEF IInv, TicketInv, TicketHas, InTicketLine
<1>7. CASE kind = "queuing"
    BY <1>3, <1>7 DEF IInv, QueueInv, OneHas, QueueHas
<1>8. CASE kind = "drdpa"
  <2>1. DrdpaHas(t) /\ DrdpaHas(u)
    BY <1>1, <1>8, KindOf DEF Inside, DrdpaHas
  <2>2. QED
    BY <1>8, <2>1, OneHasDrdpa DEF IInv, DrdpaInv
<1>9. QED
    BY <1>4, <1>5, <1>6, <1>7, <1>8 DEF IInv, Typed, AllKinds

\* What is proved is about every kind of lock; of a DRDPA lock where its areas only grow.
Covered == kind = "drdpa" => OnlyGrows

Proved == Covered => IInv

LEMMA AlwaysProved == Spec => []Proved
<1>1. Init => Proved
    BY InitInv DEF Proved, Covered
<1>2. Proved /\ [Next]_vars => Proved'
    BY NextInv, KindKept DEF Proved, Covered, OnlyGrows
<1>3. QED
    BY <1>1, <1>2, PTL DEF Spec

\* Two threads are never in possession of a lock at once, however omp_set_lock,
\* omp_test_lock and omp_unset_lock interleave.
THEOREM LockExcludes == Spec => [](Covered => MutualExclusion)
<1>1. Proved => (Covered => MutualExclusion)
    BY OneInside DEF Proved
<1>2. QED
    BY <1>1, AlwaysProved, PTL

\* The owner field of such a lock, read by omp_set_lock, omp_test_lock and omp_unset_lock,
\* never makes a thread take itself for the owner, nor the owner for somebody else.
THEOREM LockNeverMistaken == Spec => [](Covered => NeverMistaken)
<1>1. Proved => (Covered => NeverMistaken)
    BY KindOf DEF Proved, NeverMistaken, At
<1>2. QED
    BY <1>1, AlwaysProved, PTL

\* While the area of a DRDPA lock is replaced and the last one freed, the threads that wait
\* poll words that are there.
THEOREM PollsStayInArea == Spec => [](Covered => PollsInArea)
<1>1. Proved => (Covered => PollsInArea)
  <2>1. SUFFICES ASSUME Proved, Covered, NEW t \in Threads,
                        pc[t] \in {"drdpaSpin", "drdpaTestRead"}
        PROVE  InArea(t)
    BY DEF PollsInArea
  <2>2. IInv
    BY <2>1 DEF Proved
  <2>3. At(t, "drdpaSpin") /\ kind = "drdpa"
    BY <2>1, <2>2, KindOf DEF At, DrdpaPlaces
  <2>4. DrdpaTyped
    BY <2>2, <2>3 DEF IInv, Typed, DrdpaTyped
  <2>5. QED
    BY <2>3, <2>4, SpinsInArea
<1>2. QED
    BY <1>1, AlwaysProved, PTL
---------------------------------------------------------------------------
(***************************************************************************)
(* The line of the threads that wait, in the order in which they joined.   *)
(***************************************************************************)
\* The thread has joined the line and has not been served.
Queued(t) == pc[t] \in {"tasRead", "tasCas", "futexCas", "futexMark", "futexWait",
                        "futexSleep", "ticketWait", "queueLink", "queueSpin", "drdpaMask",
                        "drdpaPolls", "drdpaSpin"}

Distinct(q) == \A i, j \in 1 .. Len(q) : q[i] = q[j] => i = j

Members ==
    /\ line \in Seq(Threads) /\ Distinct(line)
    /\ \A t \in Threads : Queued(t) <=> Contains(line, t)

TicketOrder == \A i, j \in 1 .. Len(line) : i < j => ticket[line[i]] < ticket[line[j]]

\* The thread that has been woken, or is about to be.
Called(u) ==
    \/ At(u, "queueSpin") /\ ~spin_here[u]
    \/ \E t \in Threads : pc[t] \in {"releaseUnlink", "releaseWake"} /\ val[t] = u

HeadAt(i) == i \in 1 .. Len(line) /\ line[i] = head_id

SomeCalled == \E u \in Threads : Called(u)

\* The queue of the lock is the line, without the thread at its front that has been
\* taken out to be woken; who has not linked itself knows the one before.
Chain ==
    /\ \A u \in Threads : Called(u) => 1 \in 1 .. Len(line) /\ line[1] = u
    /\ head_id \in Threads => IF SomeCalled THEN HeadAt(2) ELSE HeadAt(1)
    /\ head_id \notin Threads => Len(line) = IF SomeCalled THEN 1 ELSE 0
    /\ tail_id \in Threads => Len(line) \in 1 .. Len(line) /\ tail_id = line[Len(line)]
    /\ \A i \in 1 .. Len(line) - 1 :
          \/ i = 1 /\ SomeCalled
          \/ next_waiting[line[i]] = line[i + 1]
          \/ At(line[i + 1], "queueLink") /\ aux[line[i + 1]] = line[i]

LineInv ==
    /\ Members
    /\ kind \in {"ticket", "drdpa"} => TicketOrder
    /\ kind = "queuing" => Chain

LEMMA Appending ==
    ASSUME NEW q \in Seq(Threads), Distinct(q), NEW t \in Threads, ~Contains(q, t)
    PROVE  /\ Append(q, t) \in Seq(Threads) /\ Distinct(Append(q, t))
           /\ Len(Append(q, t)) = Len(q) + 1 /\ Append(q, t)[Len(q) + 1] = t
           /\ \A i \in 1 .. Len(q) : Append(q, t)[i] = q[i]
           /\ \A u \in Threads : Contains(Append(q, t), u) <=> Contains(q, u) \/ u = t
<1>1. /\ Append(q, t) \in Seq(Threads) /\ Len(q) \in Nat
      /\ Len(Append(q, t)) = Len(q) + 1 /\ Append(q, t)[Len(q) + 1] = t
      /\ \A i \in 1 .. Len(q) : Append(q, t)[i] = q[i]
    OBVIOUS
<1>2. \A i \in 1 .. Len(q) : q[i] # t
    BY DEF Contains
<1>3. Distinct(Append(q, t))
  <2>1. SUFFICES ASSUME NEW i \in 1 .. Len(q) + 1, NEW j \in 1 .. Len(q) + 1,
                        Append(q, t)[i] = Append(q, t)[j]
        PROVE  i = j
    BY <1>1 DEF Distinct
  <2>2. \A k \in 1 .. Len(q) + 1 : k \in 1 .. Len(q) \/ k = Len(q) + 1
    BY <1>1
  <2>3. QED
    BY <1>1, <1>2, <2>1, <2>2 DEF Distinct
<1>4. ASSUME NEW u \in Threads
      PROVE  Contains(Append(q, t), u) <=> Contains(q, u) \/ u = t
  <2>1. /\ \A k \in 1 .. Len(q) + 1 : k \in 1 .. Len(q) \/ k = Len(q) + 1
        /\ \A k \in 1 .. Len(q) : k \in 1 .. Len(q) + 1
        /\ Len(q) + 1 \in 1 .. Len(q) + 1
    BY <1>1
  <2>2. QED
    BY <1>1, <2>1 DEF Contains
<1>5. QED
    BY <1>1, <1>3, <1>4

LEMMA Removing ==
    ASSUME NEW q \in Seq(Threads), Distinct(q), NEW i \in 1 .. Len(q)
    PROVE  /\ RemoveAt(q, i) \in Seq(Threads) /\ Distinct(RemoveAt(q, i))
           /\ Len(RemoveAt(q, i)) = Len(q) - 1
           /\ \A j \in 1 .. Len(q) - 1 :
                 RemoveAt(q, i)[j] = IF j < i THEN q[j] ELSE q[j + 1]
           /\ \A u \in Threads : Contains(RemoveAt(q, i), u) <=> Contains(q, u) /\ u # q[i]
<1> DEFINE a == SubSeq(q, 1, i - 1)
           b == SubSeq(q, i + 1, Len(q))
           r == RemoveAt(q, i)
<1>1. Len(q) \in Nat /\ i \in Nat /\ 1 <= i /\ i <= Len(q)
    OBVIOUS
<1>2. /\ a \in Seq(Threads) /\ Len(a) = i - 1 /\ \A j \in 1 .. i - 1 : a[j] = q[j]
  <2>1. \A j \in 1 .. i - 1 : j \in 1 .. Len(q)
    BY <1>1
  <2>2. QED
    BY <1>1, <2>1, SubSeqProperties, ElementOfSeq
<1>3. /\ b \in Seq(Threads) /\ Len(b) = Len(q) - i
      /\ \A j \in 1 .. Len(q) - i : b[j] = q[i + j]
  <2>1. \A j \in i + 1 .. Len(q) : j \in 1 .. Len(q)
    BY <1>1
  <2>2. QED
    BY <1>1, <2>1, SubSeqProperties, ElementOfSeq
<1>0. r = a \o b
    BY DEF RemoveAt
<1> HIDE DEF a, b, r
<1>4. /\ r \in Seq(Threads) /\ Len(r) = Len(q) - 1
      /\ \A j \in 1 .. Len(q) - 1 : r[j] = IF j <= i - 1 THEN a[j] ELSE b[j - (i - 1)]
  <2>1. /\ r \in Seq(Threads) /\ Len(r) = Len(a) + Len(b)
        /\ \A j \in 1 .. Len(a) + Len(b) :
              r[j] = IF j <= Len(a) THEN a[j] ELSE b[j - Len(a)]
    BY <1>0, <1>2, <1>3, ConcatProperties
  <2>2. Len(a) + Len(b) = Len(q) - 1 /\ Len(a) = i - 1
    BY <1>1, <1>2, <1>3
  <2>3. QED
    BY <2>1, <2>2
<1>5. ASSUME NEW j \in 1 .. Len(q) - 1
      PROVE  r[j] = IF j < i THEN q[j] ELSE q[j + 1]
  <2>1. CASE j < i
    BY <1>1, <1>2, <1>4, <2>1
  <2>2. CASE ~(j < i)
    <3>1. j - (i - 1) \in 1 .. Len(q) - i /\ i + (j - (i - 1)) = j + 1 /\ ~(j <= i - 1)
      BY <1>1, <2>2
    <3>2. b[j - (i - 1)] = q[j + 1]
      BY <1>3, <3>1
    <3>3. r[j] = b[j - (i - 1)]
      BY <1>4, <3>1
    <3>4. QED
      BY <2>2, <3>2, <3>3
  <2>3. QED
    BY <2>1, <2>2
<1>6. Distinct(r)
  <2>1. SUFFICES ASSUME NEW j \in 1 .. Len(q) - 1, NEW k \in 1 .. Len(q) - 1, r[j] = r[k]
        PROVE  j = k
    BY <1>4 DEF Distinct
  <2>2. j \in 1 .. Len(q) /\ j + 1 \in 1 .. Len(q) /\ k \in 1 .. Len(q) /\ k + 1 \in 1 .. Len(q)
    BY <1>1
  <2>3. CASE j < i /\ k < i
    BY <1>5, <2>1, <2>2, <2>3 DEF Distinct
  <2>4. CASE j < i /\ ~(k < i)
    <3>1. q[j] = q[k + 1]
      BY <1>5, <2>1, <2>4
    <3>2. j = k + 1
      BY <2>2, <3>1 DEF Distinct
    <3>3. QED
      BY <1>1, <2>4, <3>2
  <2>5. CASE ~(j < i) /\ k < i
    <3>1. q[j + 1] = q[k]
      BY <1>5, <2>1, <2>5
    <3>2. j + 1 = k
      BY <2>2, <3>1 DEF Distinct
    <3>3. QED
      BY <1>1, <2>5, <3>2
  <2>6. CASE ~(j < i) /\ ~(k < i)
    <3>1. q[j + 1] = q[k + 1]
      BY <1>5, <2>1, <2>6
    <3>2. j + 1 = k + 1
      BY <2>2, <3>1 DEF Distinct
    <3>3. QED
      BY <3>2
  <2>7. QED
    BY <2>3, <2>4, <2>5, <2>6
<1>7. ASSUME NEW u \in Threads
      PROVE  Contains(r, u) <=> Contains(q, u) /\ u # q[i]
  <2>1. ASSUME Contains(r, u)
        PROVE  Contains(q, u) /\ u # q[i]
    <3>1. PICK j \in 1 .. Len(q) - 1 : r[j] = u
      BY <1>4, <2>1 DEF Contains
    <3>2. j \in 1 .. Len(q) /\ j + 1 \in 1 .. Len(q)
      BY <1>1
    <3>3. CASE j < i
      <4>1. q[j] = u
        BY <1>5, <3>1, <3>3
      <4>2. j # i
        BY <3>3
      <4>3. QED
        BY <3>2, <4>1, <4>2 DEF Contains, Distinct
    <3>4. CASE ~(j < i)
      <4>1. q[j + 1] = u
        BY <1>5, <3>1, <3>4
      <4>2. j + 1 # i
        BY <1>1, <3>4
      <4>3. QED
        BY <3>2, <4>1, <4>2 DEF Contains, Distinct
    <3>5. QED
      BY <3>3, <3>4
  <2>2. ASSUME Contains(q, u), u # q[i]
        PROVE  Contains(r, u)
    <3>1. PICK j \in 1 .. Len(q) : q[j] = u
      BY <2>2 DEF Contains
    <3>2. j < i \/ i < j
      BY <1>1, <2>2, <3>1
    <3>3. CASE j < i
      <4>1. j \in 1 .. Len(q) - 1
        BY <1>1, <3>3
      <4>2. r[j] = u
        BY <1>5, <3>1, <3>3, <4>1
      <4>3. QED
        BY <1>4, <4>1, <4>2 DEF Contains
    <3>4. CASE i < j
      <4>1. j - 1 \in 1 .. Len(q) - 1 /\ ~(j - 1 < i) /\ (j - 1) + 1 = j
        BY <1>1, <3>4
      <4>2. r[j - 1] = u
        BY <1>5, <3>1, <4>1
      <4>3. QED
        BY <1>4, <4>1, <4>2 DEF Contains
    <3>5. QED
      BY <3>2, <3>3, <3>4
  <2>3. QED
    BY <2>1, <2>2
<1>8. QED
    BY <1>4, <1>5, <1>6, <1>7 DEF r

\* What a step of t means for the line and for the lock.
Stays(t) == UNCHANGED line /\ (Queued(t)' <=> Queued(t)) /\ (Inside(t)' <=> Inside(t))
Comes(t) == Joined(t) /\ ~Queued(t) /\ Queued(t)' /\ ~Inside(t) /\ ~Inside(t)'
TakesTurn(t) == Served(t) /\ Queued(t) /\ ~Queued(t)' /\ ~Inside(t) /\ Inside(t)'
TakesAtOnce(t) == UNCHANGED line /\ ~Queued(t) /\ ~Queued(t)' /\ ~Inside(t) /\ Inside(t)'
GivesBack(t) == UNCHANGED line /\ ~Queued(t) /\ ~Queued(t)' /\ Inside(t) /\ ~Inside(t)'

LineMove(t) ==
    /\ \A u \in Threads : u # t => pc'[u] = pc[u]
    /\ Stays(t) \/ Comes(t) \/ TakesTurn(t) \/ TakesAtOnce(t) \/ GivesBack(t)

LEMMA SharedLine ==
    ASSUME IInv, NEW t \in Threads,
           CallSet(t) \/ CallTest(t) \/ NoteOwner(t) \/ Again(t) \/ CallUnset(t)
    PROVE  LineMove(t)
<1>1. pc \in [Threads -> Places] /\ kind \in AllKinds
    BY DEF IInv, Typed
<1>2. \A u \in Threads : u # t => pc'[u] = pc[u]
    BY <1>1, SharedMoves DEF SharedMove, Go
<1>3. CASE CallSet(t)
  <2>1. pc[t] = "idle" /\ pc'[t] = Entry
    BY <1>1, <1>3, OwnerRight DEF CallSet, At, Go
  <2>2. CASE Words
    <3>1. Entry \in {"tasRead", "futexCas"}
      BY <2>2 DEF Words, Entry
    <3>2. line' = Append(line, t)
      BY <1>3, <2>1, <2>2, OwnerRight DEF CallSet, At
    <3>3. QED
      BY <1>2, <2>1, <3>1, <3>2 DEF LineMove, Comes, Joined, Queued, Inside
  <2>3. CASE ~Words
    <3>1. Entry \in {"ticketTake", "queueSet", "drdpaTake"}
      BY <1>1, <2>3 DEF AllKinds, Words, Entry
    <3>2. UNCHANGED line
      BY <1>3, <2>3 DEF CallSet
    <3>3. QED
      BY <1>2, <2>1, <3>1, <3>2 DEF LineMove, Stays, Queued, Inside
  <2>4. QED
    BY <2>2, <2>3
<1>4. CASE CallTest(t)
  <2>1. pc[t] = "idle" /\ pc'[t] = TestEntry /\ UNCHANGED line
    BY <1>1, <1>4, OwnerRight DEF CallTest, At, Go
  <2>2. TestEntry \in {"tasTest", "futexTest", "ticketTest", "queueTest"}
    BY <1>1, <1>4 DEF AllKinds, TestEntry, CallTest, IInv, OnlyGrows
  <2>3. QED
    BY <1>2, <2>1, <2>2 DEF LineMove, Stays, Queued, Inside
<1>5. CASE NoteOwner(t) \/ Again(t)
    BY <1>1, <1>2, <1>5 DEF NoteOwner, Again, At, Go, LineMove, Stays, Queued, Inside
<1>6. CASE CallUnset(t)
  <2>1. /\ pc[t] = "held" /\ UNCHANGED line
        /\ pc'[t] = Exit \/ UNCHANGED pc
    BY <1>1, <1>6, OwnerRight DEF CallUnset, At, Go
  <2>2. Exit \in {"tasRelease", "futexRelease", "ticketRelease", "releaseHead",
                  "drdpaRelease"}
    BY <1>1 DEF AllKinds, Exit
  <2>3. CASE UNCHANGED pc
    BY <1>2, <2>1, <2>3 DEF LineMove, Stays, Queued, Inside
  <2>4. CASE pc'[t] = Exit
    BY <1>2, <2>1, <2>2, <2>4 DEF LineMove, GivesBack, Queued, Inside
  <2>5. QED
    BY <2>1, <2>3, <2>4
<1>7. QED
    BY <1>3, <1>4, <1>5, <1>6

LEMMA WordLine ==
    ASSUME pc \in [Threads -> Places], NEW t \in Threads,
           \/ TasRead(t) \/ TasCas(t) \/ TasTest(t) \/ TasRelease(t)
           \/ FutexCas(t) \/ FutexMark(t) \/ FutexWait(t) \/ FutexWoken(t)
           \/ FutexTest(t) \/ FutexRelease(t) \/ FutexWake(t) \/ FutexSignal(t)
    PROVE  LineMove(t)
<1>1. \A u \in Threads : u # t => pc'[u] = pc[u]
    BY DEF TasRead, TasCas, TasTest, TasRelease, FutexCas, FutexMark, FutexWait, FutexWoken,
           FutexTest, FutexRelease, FutexWake, FutexSignal, Got, Idle, Go
<1>2. CASE TasRead(t) \/ TasRelease(t)
    BY <1>1, <1>2 DEF TasRead, TasRelease, At, Go, LineMove, Stays, Queued, Inside
<1>3. CASE TasCas(t)
  <2>1. CASE poll = 0
    BY <1>1, <1>3, <2>1 DEF TasCas, CasFindsFree, Got, At, Go, LineMove, TakesTurn, Queued,
                            Inside
  <2>2. CASE poll # 0
    BY <1>1, <1>3, <2>2 DEF TasCas, CasFindsFree, At, Go, LineMove, Stays, Queued, Inside
  <2>3. QED
    BY <2>1, <2>2
<1>4. CASE TasTest(t) \/ FutexTest(t)
  <2>1. CASE poll = 0
    BY <1>1, <1>4, <2>1 DEF TasTest, FutexTest, Got, At, Go, LineMove, TakesAtOnce, Queued,
                            Inside
  <2>2. CASE poll # 0
    BY <1>1, <1>4, <2>2 DEF TasTest, FutexTest, At, Go, LineMove, Stays, Queued, Inside
  <2>3. QED
    BY <2>1, <2>2
<1>5. CASE FutexCas(t)
  <2>1. CASE poll = 0
    BY <1>1, <1>5, <2>1 DEF FutexCas, Got, At, Go, LineMove, TakesTurn, Queued, Inside
  <2>2. CASE poll # 0
    BY <1>1, <1>5, <2>2 DEF FutexCas, At, Go, LineMove, Stays, Queued, Inside
  <2>3. QED
    BY <2>1, <2>2
<1>6. CASE FutexMark(t) \/ FutexWait(t) \/ FutexWoken(t) \/ FutexSignal(t)
    BY <1>1, <1>6 DEF FutexMark, FutexWait, FutexWoken, FutexSignal, At, Go, LineMove, Stays,
                      Queued, Inside
<1>7. CASE FutexRelease(t) \/ FutexWake(t)
    BY <1>1, <1>7 DEF FutexRelease, FutexWake, Idle, At, Go, LineMove, Stays, Queued, Inside
<1>8. QED
    BY <1>2, <1>3, <1>4, <1>5, <1>6, <1>7

LEMMA TicketLine ==
    ASSUME pc \in [Threads -> Places], NEW t \in Threads,
           \/ TicketTake(t) \/ TicketWait(t) \/ TicketTest(t) \/ TicketTestServing(t)
           \/ TicketTestCas(t) \/ TicketRelease(t)
    PROVE  LineMove(t)
<1>1. \A u \in Threads : u # t => pc'[u] = pc[u]
    BY DEF TicketTake, TicketWait, TicketTest, TicketTestServing, TicketTestCas,
           TicketRelease, Got, Idle, Go
<1>2. CASE TicketTake(t)
    BY <1>1, <1>2 DEF TicketTake, At, Go, LineMove, Comes, Queued, Inside
<1>3. CASE TicketWait(t)
    BY <1>1, <1>3 DEF TicketWait, Got, At, Go, LineMove, TakesTurn, Queued, Inside
<1>4. CASE TicketTestCas(t)
  <2>1. CASE next_ticket = ticket[t]
    BY <1>1, <1>4, <2>1 DEF TicketTestCas, Got, At, Go, LineMove, TakesAtOnce, Queued, Inside
  <2>2. CASE next_ticket # ticket[t]
    BY <1>1, <1>4, <2>2 DEF TicketTestCas, Idle, At, Go, LineMove, Stays, Queued, Inside
  <2>3. QED
    BY <2>1, <2>2
<1>5. CASE TicketTest(t) \/ TicketTestServing(t) \/ TicketRelease(t)
    BY <1>1, <1>5 DEF TicketTest, TicketTestServing, TicketRelease, Idle, At, Go, LineMove,
                      Stays, Queued, Inside
<1>6. QED
    BY <1>2, <1>3, <1>4, <1>5

LEMMA DrdpaLine ==
    ASSUME pc \in [Threads -> Places], NEW t \in Threads,
           \/ DrdpaTake(t) \/ DrdpaMask(t) \/ DrdpaPolls(t) \/ DrdpaSpin(t) \/ DrdpaServe(t)
           \/ DrdpaGrow(t) \/ DrdpaNewPolls(t) \/ DrdpaNewMask(t) \/ DrdpaCleanup(t)
           \/ DrdpaRelease(t)
    PROVE  /\ LineMove(t) /\ ~TakesAtOnce(t)
           /\ TakesTurn(t) => DrdpaSpin(t) /\ pc'[t] = "drdpaServe"
<1>1. CASE DrdpaTake(t)
    BY <1>1 DEF DrdpaTake, At, Go, LineMove, Comes, TakesAtOnce, TakesTurn, Queued, Inside
<1>2. CASE DrdpaMask(t) \/ DrdpaPolls(t)
    BY <1>2 DEF DrdpaMask, DrdpaPolls, At, Go, LineMove, Stays, TakesAtOnce, TakesTurn,
                Queued, Inside
<1>3. CASE DrdpaSpin(t)
  <2>1. /\ pc[t] = "drdpaSpin" /\ \A u \in Threads : u # t => pc'[u] = pc[u]
        /\ \/ pc'[t] = "drdpaServe" /\ Served(t)
           \/ pc'[t] = "drdpaMask" /\ UNCHANGED line
    BY <1>3 DEF DrdpaSpin, At, Go
  <2>2. QED
    BY <1>3, <2>1 DEF LineMove, TakesTurn, Stays, TakesAtOnce, Queued, Inside
<1>4. CASE \/ DrdpaServe(t) \/ DrdpaNewPolls(t) \/ DrdpaNewMask(t) \/ DrdpaCleanup(t)
           \/ DrdpaRelease(t)
    BY <1>4 DEF DrdpaServe, DrdpaNewPolls, DrdpaNewMask, DrdpaCleanup, DrdpaRelease, Got,
                Idle, At, Go, LineMove, Stays, TakesAtOnce, TakesTurn, Queued, Inside
<1>5. CASE DrdpaGrow(t)
  <2>1. /\ pc[t] = "drdpaGrow" /\ \A u \in Threads : u # t => pc'[u] = pc[u]
        /\ pc'[t] \in {"drdpaNewPolls", "got"} /\ UNCHANGED line
    BY <1>5 DEF DrdpaGrow, Got, At, Go
  <2>2. QED
    BY <2>1 DEF LineMove, TakesTurn, Stays, TakesAtOnce, Queued, Inside
<1>6. QED
    BY <1>1, <1>2, <1>3, <1>4, <1>5

LEMMA QueueLine ==
    ASSUME pc \in [Threads -> Places], NEW t \in Threads,
           \/ QueueSet(t) \/ QueueHead(t) \/ QueueFirst(t) \/ QueueGrab(t)
           \/ QueueTail(t) \/ QueueJoin(t) \/ QueueLink(t) \/ QueueSpin(t)
           \/ QueueTest(t) \/ QueueTestCas(t)
           \/ ReleaseHead(t) \/ ReleaseFree(t) \/ ReleaseTail(t) \/ ReleaseLast(t)
           \/ ReleaseNext(t) \/ ReleaseUnlink(t) \/ ReleaseWake(t)
    PROVE  LineMove(t)
<1>1. \A u \in Threads : u # t => pc'[u] = pc[u]
    BY DEF QueueSet, QueueHead, QueueFirst, QueueGrab, QueueTail, QueueJoin, QueueLink,
           QueueSpin, QueueTest, QueueTestCas, ReleaseHead, ReleaseFree, ReleaseTail,
           ReleaseLast, ReleaseNext, ReleaseUnlink, ReleaseWake, Got, Idle, Go
<1>2. CASE QueueSet(t) \/ QueueHead(t) \/ QueueTail(t) \/ QueueLink(t) \/ QueueTest(t)
    BY <1>1, <1>2 DEF QueueSet, QueueHead, QueueTail, QueueLink, QueueTest, At, Go, LineMove,
                      Stays, Queued, Inside
<1>3. CASE QueueFirst(t) \/ QueueJoin(t)
  <2>1. CASE pc'[t] \in {"queueSpin", "queueLink"} /\ Joined(t)
    BY <1>1, <1>3, <2>1 DEF QueueFirst, QueueJoin, At, LineMove, Comes, Queued, Inside
  <2>2. CASE pc'[t] = "queueHead" /\ UNCHANGED line
    BY <1>1, <1>3, <2>2 DEF QueueFirst, QueueJoin, At, LineMove, Stays, Queued, Inside
  <2>3. QED
    BY <1>3, <2>1, <2>2 DEF QueueFirst, QueueJoin, Go
<1>4. CASE QueueGrab(t) \/ QueueTestCas(t)
  <2>1. CASE head_id = 0
    BY <1>1, <1>4, <2>1 DEF QueueGrab, QueueTestCas, Got, At, Go, LineMove, TakesAtOnce,
                            Queued, Inside
  <2>2. CASE head_id # 0
    BY <1>1, <1>4, <2>2 DEF QueueGrab, QueueTestCas, At, Go, LineMove, Stays, Queued, Inside
  <2>3. QED
    BY <2>1, <2>2
<1>5. CASE QueueSpin(t)
    BY <1>1, <1>5 DEF QueueSpin, Got, At, Go, LineMove, TakesTurn, Queued, Inside
<1>6. CASE \/ ReleaseHead(t) \/ ReleaseFree(t) \/ ReleaseTail(t) \/ ReleaseLast(t)
           \/ ReleaseNext(t) \/ ReleaseUnlink(t) \/ ReleaseWake(t)
    BY <1>1, <1>6 DEF ReleaseHead, ReleaseFree, ReleaseTail, ReleaseLast, ReleaseNext,
                      ReleaseUnlink, ReleaseWake, Idle, At, Go, LineMove, Stays, Queued, Inside
<1>7. QED
    BY <1>2, <1>3, <1>4, <1>5, <1>6

\* Whatever the step, the line stays the list of those who wait.
LEMMA MembersKept ==
    ASSUME Members, NEW t \in Threads, LineMove(t)
    PROVE  Members'
<1>1. \A u \in Threads : u # t => (Queued(u)' <=> Queued(u))
    BY DEF LineMove, Queued
<1>2. CASE Stays(t) \/ TakesAtOnce(t) \/ GivesBack(t)
    BY <1>1, <1>2 DEF Stays, TakesAtOnce, GivesBack, Members, Distinct, Contains
<1>3. CASE Comes(t)
  <2>1. /\ line' \in Seq(Threads) /\ Distinct(line')
        /\ \A u \in Threads : Contains(line', u) <=> Contains(line, u) \/ u = t
    BY <1>3, Appending DEF Comes, Joined, Members
  <2>2. QED
    BY <1>1, <1>3, <2>1 DEF Comes, Members, Distinct, Contains
<1>4. CASE TakesTurn(t)
  <2>1. PICK i \in 1 .. Len(line) : line[i] = t /\ line' = RemoveAt(line, i)
    BY <1>4 DEF TakesTurn, Served
  <2>2. /\ line' \in Seq(Threads) /\ Distinct(line')
        /\ \A u \in Threads : Contains(line', u) <=> Contains(line, u) /\ u # t
    BY <2>1, Removing DEF Members
  <2>3. QED
    BY <1>1, <1>4, <2>2 DEF TakesTurn, Members, Distinct, Contains
<1>5. QED
    BY <1>2, <1>3, <1>4 DEF LineMove

\* A thread of the line, by its place in it.
LEMMA InLine ==
    ASSUME Members, NEW i \in 1 .. Len(line)
    PROVE  line[i] \in Threads /\ Queued(line[i])
<1>1. line[i] \in Threads
    BY DEF Members
<1>2. QED
    BY <1>1 DEF Members, Contains

\* Tickets grow along the line: a ticket is taken as the line is joined.
LEMMA OrderKept ==
    ASSUME Members, TicketOrder, ticket \in [Threads -> Int], NEW t \in Threads,
           \A i \in 1 .. Len(line) : ticket[line[i]] < next_ticket,
           \/ Joined(t) /\ ~Queued(t) /\ ticket' = Set(ticket, t, next_ticket)
           \/ Served(t) /\ UNCHANGED ticket
           \/ UNCHANGED <<line, ticket>>
           \/ /\ UNCHANGED line /\ ~Queued(t)
              /\ \A u \in Threads : u # t => ticket'[u] = ticket[u]
    PROVE  TicketOrder'
<1>1. \A i \in 1 .. Len(line) : line[i] \in Threads /\ (~Queued(t) => line[i] # t)
    BY InLine
<1>2. Len(line) \in Nat
    BY DEF Members
<1>3. CASE Joined(t) /\ ~Queued(t) /\ ticket' = Set(ticket, t, next_ticket)
  <2>1. line' = Append(line, t)
    BY <1>3 DEF Joined
  <2>2. \A i \in 1 .. Len(line) : line[i] # t
    BY <1>1, <1>3
  <2>3. ~Contains(line, t)
    BY <2>2 DEF Contains
  <2>4. /\ Len(line') = Len(line) + 1 /\ line'[Len(line) + 1] = t
        /\ \A i \in 1 .. Len(line) : line'[i] = line[i]
    BY <2>1, <2>3, Appending DEF Members
  <2>5. /\ ticket'[t] = next_ticket
        /\ \A i \in 1 .. Len(line) : ticket'[line[i]] = ticket[line[i]]
    BY <1>1, <1>3, <2>2 DEF Set
  <2>6. SUFFICES ASSUME NEW i \in 1 .. Len(line) + 1, NEW j \in 1 .. Len(line) + 1, i < j
        PROVE  ticket'[line'[i]] < ticket'[line'[j]]
    BY <2>4 DEF TicketOrder
  <2>7. i \in 1 .. Len(line)
    BY <1>2, <2>6
  <2>8. CASE j \in 1 .. Len(line)
    BY <2>4, <2>5, <2>6, <2>7, <2>8 DEF TicketOrder
  <2>9. CASE j = Len(line) + 1
    BY <2>4, <2>5, <2>7, <2>9
  <2>10. QED
    BY <1>2, <2>8, <2>9
<1>4. CASE Served(t) /\ UNCHANGED ticket
  <2>1. PICK k \in 1 .. Len(line) : line[k] = t /\ line' = RemoveAt(line, k)
    BY <1>4 DEF Served
  <2>2. UNCHANGED ticket
    BY <1>4
  <2>3. /\ Len(line') = Len(line) - 1
        /\ \A i \in 1 .. Len(line) - 1 : line'[i] = IF i < k THEN line[i] ELSE line[i + 1]
    <3>1. line \in Seq(Threads) /\ Distinct(line)
      BY DEF Members
    <3>2. /\ Len(RemoveAt(line, k)) = Len(line) - 1
          /\ \A i \in 1 .. Len(line) - 1 :
                RemoveAt(line, k)[i] = IF i < k THEN line[i] ELSE line[i + 1]
      BY <3>1, Removing
    <3>3. QED
      BY <2>1, <3>2
  <2>4. SUFFICES ASSUME NEW i \in 1 .. Len(line) - 1, NEW j \in 1 .. Len(line) - 1, i < j
        PROVE  ticket[line'[i]] < ticket[line'[j]]
    BY <2>2, <2>3 DEF TicketOrder
  <2>5. /\ i \in 1 .. Len(line) /\ i + 1 \in 1 .. Len(line)
        /\ j \in 1 .. Len(line) /\ j + 1 \in 1 .. Len(line)
        /\ i + 1 < j + 1 /\ i < j + 1
    BY <1>2, <2>4
  <2>6. /\ line'[i] = line[i] \/ (line'[i] = line[i + 1] /\ ~(i < k))
        /\ line'[j] = line[j + 1] \/ (line'[j] = line[j] /\ j < k)
    BY <2>3
  <2>7. ~(i < k) => ~(j < k)
    BY <2>1, <2>4
  <2>8. QED
    BY <2>4, <2>5, <2>6, <2>7 DEF TicketOrder
<1>5. CASE UNCHANGED <<line, ticket>>
    BY <1>5 DEF TicketOrder
<1>6. CASE /\ UNCHANGED line /\ ~Queued(t)
           /\ \A u \in Threads : u # t => ticket'[u] = ticket[u]
  <2>1. \A i \in 1 .. Len(line) : ticket'[line[i]] = ticket[line[i]]
    BY <1>1, <1>6
  <2>2. QED
    BY <1>6, <2>1 DEF TicketOrder
<1>7. QED
    BY <1>3, <1>4, <1>5, <1>6

\* The lowest ticket of the line is at its front.
LEMMA LowestFirst ==
    ASSUME Members, TicketOrder, NEW i \in 1 .. Len(line), ticket \in [Threads -> Int],
           \A j \in 1 .. Len(line) : ticket[line[i]] <= ticket[line[j]]
    PROVE  Head(line) = line[i]
<1>1. Len(line) \in Nat /\ line \in Seq(Threads)
    BY DEF Members
<1>2. 1 \in 1 .. Len(line) /\ (i = 1 \/ 1 < i)
    BY <1>1
<1>3. line[1] \in Threads /\ line[i] \in Threads
    BY <1>2, InLine
<1>4. 1 < i => ticket[line[1]] < ticket[line[i]]
    BY <1>2 DEF TicketOrder
<1>5. ticket[line[1]] \in Int /\ ticket[line[i]] \in Int
    BY <1>3
<1>6. i = 1
    BY <1>2, <1>4, <1>5
<1>7. QED
    BY <1>1, <1>6

\* Who is in the line of a ticket or DRDPA lock waits with a ticket that has been taken.
LEMMA LineTickets ==
    ASSUME kind = "ticket", TicketInv, Members, NEW i \in 1 .. Len(line)
    PROVE  /\ line[i] \in Threads /\ now_serving <= ticket[line[i]]
           /\ ticket[line[i]] < next_ticket
<1>1. line[i] \in Threads /\ Queued(line[i])
    BY InLine
<1>2. At(line[i], "ticketWait")
    BY <1>1 DEF TicketInv, Shared, TicketPlaces, Queued, At
<1>3. QED
    BY <1>1, <1>2 DEF TicketInv, InTicketLine

LEMMA DrdpaLineTickets ==
    ASSUME DrdpaInv, Members, NEW f \in Nat, DrdpaTickets(f), NEW i \in 1 .. Len(line)
    PROVE  /\ line[i] \in Threads /\ f <= ticket[line[i]] /\ ticket[line[i]] < next_ticket
<1>1. line[i] \in Threads /\ Queued(line[i])
    BY InLine
<1>2. InDrdpaLine(line[i])
    BY <1>1 DEF DrdpaInv, Shared, DrdpaPlaces, Queued, InDrdpaLine
<1>3. QED
    BY <1>1, <1>2 DEF DrdpaTickets

LEMMA TicketOrderKept ==
    ASSUME kind = "ticket", TicketInv, Members, TicketOrder, pc \in [Threads -> Places],
           ticket \in [Threads -> Int], NEW t \in Threads,
           \/ TicketTake(t) \/ TicketWait(t) \/ TicketTest(t) \/ TicketTestServing(t)
           \/ TicketTestCas(t) \/ TicketRelease(t)
    PROVE  TicketOrder'
<1>1. \A i \in 1 .. Len(line) : ticket[line[i]] < next_ticket
    BY LineTickets
<1>2. CASE TicketTake(t)
  <2>1. Joined(t) /\ ~Queued(t) /\ ticket' = Set(ticket, t, next_ticket)
    BY <1>2 DEF TicketTake, Queued, At
  <2>2. QED
    BY <1>1, <2>1, OrderKept
<1>3. CASE TicketWait(t)
    BY <1>1, <1>3, OrderKept DEF TicketWait, local
<1>4. CASE TicketTest(t) \/ TicketTestServing(t) \/ TicketTestCas(t) \/ TicketRelease(t)
  <2>1. /\ ~Queued(t) /\ UNCHANGED line
        /\ \A u \in Threads : u # t => ticket'[u] = ticket[u]
    BY <1>4 DEF TicketTest, TicketTestServing, TicketTestCas, TicketRelease, Idle, Set, local,
                At, Queued
  <2>2. QED
    BY <1>1, <2>1, OrderKept
<1>5. QED
    BY <1>2, <1>3, <1>4

LEMMA DrdpaOrderKept ==
    ASSUME DrdpaInv, Members, TicketOrder, ticket \in [Threads -> Int], NEW t \in Threads,
           \/ DrdpaTake(t) \/ DrdpaMask(t) \/ DrdpaPolls(t) \/ DrdpaSpin(t) \/ DrdpaServe(t)
           \/ DrdpaGrow(t) \/ DrdpaNewPolls(t) \/ DrdpaNewMask(t) \/ DrdpaCleanup(t)
           \/ DrdpaRelease(t)
    PROVE  TicketOrder'
<1>1. \A i \in 1 .. Len(line) : ticket[line[i]] < next_ticket
    BY DrdpaLineTickets DEF DrdpaInv
<1>2. CASE DrdpaTake(t)
  <2>1. Joined(t) /\ ~Queued(t) /\ ticket' = Set(ticket, t, next_ticket)
    BY <1>2 DEF DrdpaTake, Queued, At
  <2>2. QED
    BY <1>1, <2>1, OrderKept
<1>3. CASE DrdpaSpin(t)
    BY <1>1, <1>3, OrderKept DEF DrdpaSpin, local
<1>4. CASE DrdpaRelease(t)
  <2>1. /\ ~Queued(t) /\ UNCHANGED line
        /\ \A u \in Threads : u # t => ticket'[u] = ticket[u]
    BY <1>4 DEF DrdpaRelease, Idle, Set, At, Queued
  <2>2. QED
    BY <1>1, <2>1, OrderKept
<1>5. CASE \/ DrdpaMask(t) \/ DrdpaPolls(t) \/ DrdpaServe(t) \/ DrdpaGrow(t)
           \/ DrdpaNewPolls(t) \/ DrdpaNewMask(t) \/ DrdpaCleanup(t)
  <2>1. UNCHANGED <<line, ticket>>
    BY <1>5 DEF DrdpaMask, DrdpaPolls, DrdpaServe, DrdpaGrow, DrdpaNewPolls, DrdpaNewMask,
                DrdpaCleanup, local
  <2>2. QED
    BY <1>1, <2>1, OrderKept
<1>6. QED
    BY <1>2, <1>3, <1>4, <1>5

\* Nothing of the queue changes but the words of an empty one.
LEMMA ChainSame ==
    ASSUME Members, Chain, UNCHANGED <<line, tail_id, next_waiting>>,
           head_id' = head_id \/ (head_id \notin Threads /\ head_id' \notin Threads),
           \A u \in Threads : Called(u)' <=> Called(u),
           \A u \in Threads : At(u, "queueLink") => At(u, "queueLink")' /\ aux'[u] = aux[u]
    PROVE  Chain'
<1>1. Len(line) \in Nat /\ \A i \in 1 .. Len(line) : line[i] \in Threads
    BY InLine DEF Members
<1>2. SomeCalled' <=> SomeCalled
    BY DEF SomeCalled
<1>3. /\ \A u \in Threads : Called(u)' => 1 \in 1 .. Len(line') /\ line'[1] = u
      /\ head_id' \in Threads => IF SomeCalled' THEN HeadAt(2)' ELSE HeadAt(1)'
      /\ head_id' \notin Threads => Len(line') = IF SomeCalled' THEN 1 ELSE 0
      /\ tail_id' \in Threads => Len(line') \in 1 .. Len(line') /\ tail_id' = line'[Len(line')]
    BY <1>2 DEF Chain, HeadAt
<1>4. ASSUME NEW i \in 1 .. Len(line) - 1
      PROVE  \/ i = 1 /\ SomeCalled'
             \/ next_waiting'[line[i]] = line[i + 1]
             \/ At(line[i + 1], "queueLink")' /\ aux'[line[i + 1]] = line[i]
  <2>1. line[i + 1] \in Threads
    BY <1>1
  <2>2. QED
    BY <1>2, <2>1 DEF Chain, At
<1>5. QED
    BY <1>3, <1>4 DEF Chain, At

\* While the holder does not hand the lock over, nobody is woken.
LEMMA NoneCalled ==
    ASSUME QueueInv, NEW t \in Threads, QueueHas(t),
           pc[t] \notin {"queueSpin", "releaseUnlink", "releaseWake"},
           NEW u \in Threads
    PROVE  ~Called(u)
BY DEF QueueInv, OneHas, QueueHas, Called, At

LEMMA SomeoneHas ==
    ASSUME SomeCalled
    PROVE  \E t \in Threads : QueueHas(t)
BY DEF SomeCalled, Called, QueueHas, At

\* A step that neither wakes nor is woken changes nobody's call.
LEMMA CalledKept ==
    ASSUME NEW t \in Threads, \A u \in Threads : u # t => pc'[u] = pc[u],
           \A u \in Threads : u # t => spin_here'[u] = spin_here[u] /\ val'[u] = val[u],
           pc[t] \notin {"releaseUnlink", "releaseWake"},
           pc'[t] \notin {"releaseUnlink", "releaseWake"},
           pc[t] = "queueSpin" => spin_here[t],
           pc'[t] = "queueSpin" => spin_here'[t]
    PROVE  \A u \in Threads : Called(u)' <=> Called(u)
BY DEF Called, At

\* (-1,0) -> (t,t)
LEMMA ChainFirst ==
    ASSUME QueueInv, Members, Chain, NEW t \in Threads,
           pc \in [Threads -> Places], At(t, "queueFirst"), head_id = -1,
           head_id' = t, tail_id' = t, Joined(t), Go(t, "queueSpin"),
           UNCHANGED <<next_waiting, spin_here, val, aux>>
    PROVE  Chain'
<1>1. ~Queued(t) /\ spin_here[t]
    BY DEF Queued, At, QueueInv, Ends
<1>2. \A u \in Threads : Called(u)' <=> Called(u)
    BY <1>1, CalledKept DEF At, Go
<1>3. SomeCalled' <=> SomeCalled
    BY <1>2 DEF SomeCalled
<1>4. /\ Len(line') = Len(line) + 1 /\ line'[Len(line) + 1] = t
      /\ \A i \in 1 .. Len(line) : line'[i] = line[i]
  <2>1. line \in Seq(Threads) /\ Distinct(line) /\ ~Contains(line, t)
    BY <1>1 DEF Members
  <2>2. QED
    BY <2>1, Appending DEF Joined
<1>5. Len(line) = IF SomeCalled THEN 1 ELSE 0
    BY DEF Chain, Threads
<1>6. /\ Len(line') = (IF SomeCalled THEN 2 ELSE 1) /\ line'[Len(line')] = t
      /\ SomeCalled => line'[1] = line[1]
    BY <1>4, <1>5
<1>7. \A u \in Threads : Called(u)' => 1 \in 1 .. Len(line') /\ line'[1] = u
  <2>1. \A u \in Threads : Called(u) => SomeCalled /\ line[1] = u
    BY DEF SomeCalled, Chain
  <2>2. QED
    BY <1>2, <1>6, <2>1
<1>8. IF SomeCalled THEN HeadAt(2)' ELSE HeadAt(1)'
    BY <1>6 DEF HeadAt
<1>9. Len(line') \in 1 .. Len(line') /\ \A i \in 1 .. Len(line') - 1 : i = 1 /\ SomeCalled
    BY <1>6
<1>10. QED
    BY <1>3, <1>6, <1>7, <1>8, <1>9 DEF Chain

\* (h,u) -> (h,t)
LEMMA ChainJoin ==
    ASSUME QueueInv, Members, Chain, NEW t \in Threads,
           pc \in [Threads -> Places], At(t, "queueJoin"), tail_id = aux[t],
           tail_id' = t, Joined(t), Go(t, "queueLink"),
           UNCHANGED <<head_id, next_waiting, spin_here, val, aux>>
    PROVE  Chain'
<1>1. ~Queued(t) /\ tail_id \in Threads /\ head_id \in Threads
    BY DEF Queued, At, QueueInv, QueueTyped, Ends, Links, Threads
<1>2. \A u \in Threads : Called(u)' <=> Called(u)
    BY <1>1, CalledKept DEF At, Go
<1>3. SomeCalled' <=> SomeCalled
    BY <1>2 DEF SomeCalled
<1>4. /\ Len(line') = Len(line) + 1 /\ line'[Len(line) + 1] = t
      /\ \A i \in 1 .. Len(line) : line'[i] = line[i]
      /\ Len(line) \in Nat
  <2>1. line \in Seq(Threads) /\ Distinct(line) /\ ~Contains(line, t)
    BY <1>1 DEF Members
  <2>2. QED
    BY <2>1, Appending DEF Joined
<1>5. \A u \in Threads : Called(u)' => 1 \in 1 .. Len(line') /\ line'[1] = u
    BY <1>2, <1>4 DEF Chain
<1>6. /\ HeadAt(1) => HeadAt(1)'
      /\ HeadAt(2) => HeadAt(2)'
    BY <1>4 DEF HeadAt
<1>7. Len(line') \in 1 .. Len(line') /\ tail_id' = line'[Len(line')]
    BY <1>4
<1>8. ASSUME NEW i \in 1 .. Len(line') - 1
      PROVE  \/ i = 1 /\ SomeCalled'
             \/ next_waiting'[line'[i]] = line'[i + 1]
             \/ pc'[line'[i + 1]] = "queueLink" /\ aux'[line'[i + 1]] = line'[i]
  <2>1. i \in 1 .. Len(line)
    BY <1>4
  <2>2. CASE i = Len(line)
    <3>1. line'[i] = aux[t] /\ line'[i + 1] = t
      BY <1>1, <1>4, <2>1, <2>2 DEF Chain
    <3>2. At(t, "queueLink")'
      BY DEF Go, At
    <3>3. QED
      BY <3>1, <3>2 DEF At
  <2>3. CASE i # Len(line)
    <3>1. i \in 1 .. Len(line) - 1 /\ i + 1 \in 1 .. Len(line)
      BY <1>4, <2>1, <2>3
    <3>2. line'[i] = line[i] /\ line'[i + 1] = line[i + 1] /\ line[i + 1] \in Threads
      BY <1>4, <2>1, <3>1, InLine
    <3>3. At(line[i + 1], "queueLink") => pc'[line[i + 1]] = "queueLink"
      BY <3>2 DEF At, Go
    <3>4. QED
      BY <1>3, <3>1, <3>2, <3>3 DEF Chain, At
  <2>4. QED
    BY <2>2, <2>3
<1>9. head_id' \in Threads => IF SomeCalled' THEN HeadAt(2)' ELSE HeadAt(1)'
    BY <1>1, <1>3, <1>6 DEF Chain
<1>10. QED
    BY <1>1, <1>5, <1>7, <1>8, <1>9 DEF Chain, At

\* The thread links itself behind the one that was the tail.
LEMMA ChainLink ==
    ASSUME QueueInv, Members, Chain, NEW t \in Threads,
           pc \in [Threads -> Places], At(t, "queueLink"),
           next_waiting' = Set(next_waiting, aux[t], t), Go(t, "queueSpin"),
           UNCHANGED <<line, head_id, tail_id, spin_here, val, aux>>
    PROVE  Chain'
<1>1. /\ spin_here[t] /\ aux[t] \in Threads /\ next_waiting[aux[t]] = 0
      /\ next_waiting \in [Threads -> Threads \cup {0}] /\ Len(line) \in Nat
    BY DEF At, QueueInv, QueueTyped, Ends, Links, Members
<1>2. \A u \in Threads : Called(u)' <=> Called(u)
    BY <1>1, CalledKept DEF At, Go
<1>3. SomeCalled' <=> SomeCalled
    BY <1>2 DEF SomeCalled
<1>4. ASSUME NEW i \in 1 .. Len(line) - 1
      PROVE  \/ i = 1 /\ SomeCalled
             \/ next_waiting'[line[i]] = line[i + 1]
             \/ pc'[line[i + 1]] = "queueLink" /\ aux[line[i + 1]] = line[i]
  <2>1. i \in 1 .. Len(line) /\ i + 1 \in 1 .. Len(line)
    BY <1>1
  <2>2. line[i] \in Threads /\ line[i + 1] \in Threads
    BY <2>1, InLine
  <2>3. CASE line[i] = aux[t]
    <3>1. next_waiting[line[i]] # line[i + 1]
      BY <1>1, <2>2, <2>3 DEF Threads
    <3>2. At(line[i + 1], "queueLink") /\ aux[line[i + 1]] = aux[t] => line[i + 1] = t
      BY <2>2 DEF QueueInv, Links
    <3>3. next_waiting'[line[i]] = t
      BY <1>1, <2>3 DEF Set
    <3>4. QED
      BY <2>3, <3>1, <3>2, <3>3 DEF Chain
  <2>4. CASE line[i] # aux[t]
    <3>1. next_waiting'[line[i]] = next_waiting[line[i]]
      BY <1>1, <2>2, <2>4 DEF Set
    <3>2. At(line[i + 1], "queueLink") /\ aux[line[i + 1]] = line[i] =>
             pc'[line[i + 1]] = "queueLink"
      BY <2>2, <2>4 DEF At, Go
    <3>3. QED
      BY <3>1, <3>2 DEF Chain, At
  <2>5. QED
    BY <2>3, <2>4
<1>5. /\ \A u \in Threads : Called(u)' => 1 \in 1 .. Len(line') /\ line'[1] = u
      /\ head_id' \in Threads => IF SomeCalled' THEN HeadAt(2)' ELSE HeadAt(1)'
      /\ head_id' \notin Threads => Len(line') = IF SomeCalled' THEN 1 ELSE 0
      /\ tail_id' \in Threads => Len(line') \in 1 .. Len(line') /\ tail_id' = line'[Len(line')]
    BY <1>2, <1>3 DEF Chain, HeadAt
<1>6. QED
    BY <1>3, <1>4, <1>5 DEF Chain, At

\* The thread that has been woken is at the front; it leaves, and nobody else is woken.
LEMMA ChainSpin ==
    ASSUME QueueInv, Members, Chain, NEW t \in Threads,
           pc \in [Threads -> Places], At(t, "queueSpin"), ~spin_here[t],
           Go(t, "got"), Served(t),
           UNCHANGED <<head_id, tail_id, next_waiting, spin_here, val, aux>>
    PROVE  Chain' /\ Head(line) = t
<1>1. Called(t) /\ SomeCalled /\ Len(line) \in Nat
    BY DEF Called, SomeCalled, Members
<1>2. 1 \in 1 .. Len(line) /\ line[1] = t
    BY <1>1 DEF Chain
<1>3. /\ Len(line') = Len(line) - 1
      /\ \A i \in 1 .. Len(line) - 1 : line'[i] = line[i + 1]
  <2>1. PICK i \in 1 .. Len(line) : line[i] = t /\ line' = RemoveAt(line, i)
    BY DEF Served
  <2>2. i = 1 /\ line \in Seq(Threads) /\ Distinct(line)
    BY <1>2, <2>1 DEF Members, Distinct
  <2>3. /\ Len(RemoveAt(line, 1)) = Len(line) - 1
        /\ \A j \in 1 .. Len(line) - 1 :
              RemoveAt(line, 1)[j] = IF j < 1 THEN line[j] ELSE line[j + 1]
    BY <1>2, <2>2, Removing
  <2>4. \A j \in 1 .. Len(line) - 1 : ~(j < 1)
    BY <1>1
  <2>5. QED
    BY <2>1, <2>2, <2>3, <2>4
<1>4. ~SomeCalled' /\ \A u \in Threads : ~Called(u)'
  <2>1. \A u \in Threads : u # t => ~QueueHas(u)
    BY DEF QueueInv, OneHas, QueueHas
  <2>2. \A u \in Threads : ~Called(u)'
    BY <2>1 DEF Called, QueueHas, At, Go
  <2>3. QED
    BY <2>2 DEF SomeCalled
<1>5. head_id \in Threads => HeadAt(1)'
  <2>1. SUFFICES ASSUME HeadAt(2) PROVE HeadAt(1)'
    BY <1>1 DEF Chain
  <2>2. 2 \in 1 .. Len(line) /\ 1 \in 1 .. Len(line) - 1 /\ 1 + 1 = 2
    BY <1>1, <2>1 DEF HeadAt
  <2>3. line'[1] = line[2] /\ 1 \in 1 .. Len(line')
    BY <1>3, <2>2
  <2>4. QED
    BY <2>1, <2>3 DEF HeadAt
<1>6. head_id \notin Threads => Len(line') = 0
    BY <1>1, <1>3 DEF Chain
<1>7. tail_id \in Threads => Len(line') \in 1 .. Len(line') /\ tail_id = line'[Len(line')]
  <2>1. SUFFICES ASSUME tail_id \in Threads
        PROVE  Len(line') \in 1 .. Len(line') /\ tail_id = line'[Len(line')]
    OBVIOUS
  <2>2. head_id \in Threads
    BY <2>1 DEF QueueInv, QueueTyped, Ends, Threads
  <2>3. 2 \in 1 .. Len(line) /\ tail_id = line[Len(line)]
    BY <1>1, <2>1, <2>2 DEF Chain, HeadAt
  <2>4. Len(line) - 1 \in 1 .. Len(line) - 1 /\ Len(line) - 1 + 1 = Len(line)
    BY <1>1, <2>3
  <2>5. QED
    BY <1>3, <2>3, <2>4
<1>8. ASSUME NEW i \in 1 .. Len(line') - 1
      PROVE  \/ next_waiting[line'[i]] = line'[i + 1]
             \/ pc'[line'[i + 1]] = "queueLink" /\ aux[line'[i + 1]] = line'[i]
  <2>1. /\ i \in 1 .. Len(line) - 1 /\ i + 1 \in 1 .. Len(line) - 1 /\ i + 1 # 1
        /\ i + 1 \in 1 .. Len(line) /\ (i + 1) + 1 \in 1 .. Len(line)
    BY <1>1, <1>3
  <2>2. line'[i] = line[i + 1] /\ line'[i + 1] = line[(i + 1) + 1]
    BY <1>3, <2>1
  <2>3. line[(i + 1) + 1] \in Threads /\ line[(i + 1) + 1] # t
    BY <1>2, <2>1, InLine DEF Members, Distinct
  <2>4. \/ next_waiting[line[i + 1]] = line[(i + 1) + 1]
        \/ At(line[(i + 1) + 1], "queueLink") /\ aux[line[(i + 1) + 1]] = line[i + 1]
    BY <2>1 DEF Chain
  <2>5. At(line[(i + 1) + 1], "queueLink") => pc'[line[(i + 1) + 1]] = "queueLink"
    BY <2>3 DEF At, Go
  <2>6. QED
    BY <2>2, <2>4, <2>5 DEF At
<1>9. Chain'
    BY <1>4, <1>5, <1>6, <1>7, <1>8 DEF Chain, At
<1>10. QED
    BY <1>1, <1>2, <1>9

\* While the holder advances the head, the line is the queue.
LEMMA HeadFirst ==
    ASSUME QueueInv, Members, Chain, NEW t \in Threads,
           pc[t] \in {"releaseLast", "releaseNext"}
    PROVE  /\ HeadAt(1) /\ val[t] = head_id /\ head_id \in Threads /\ ~SomeCalled
           /\ tail_id \in Threads /\ tail_id = line[Len(line)] /\ Len(line) \in Nat
<1>1. \A u \in Threads : ~Called(u)
    BY NoneCalled DEF QueueHas
<1>2. ~SomeCalled
    BY <1>1 DEF SomeCalled
<1>3. val[t] = head_id /\ head_id \in Threads
    BY DEF QueueInv, Handover
<1>4. tail_id \in Threads
    BY <1>3 DEF QueueInv, QueueTyped, Ends, Threads
<1>5. QED
    BY <1>2, <1>3, <1>4 DEF Chain, Members

\* From now on the thread that was the head, and no other, is about to be woken.
LEMMA CalledNow ==
    ASSUME NEW t \in Threads, pc \in [Threads -> Places], ~SomeCalled, val[t] \in Threads,
           pc[t] \in {"releaseLast", "releaseNext"}, Go(t, "releaseUnlink"),
           UNCHANGED <<val, spin_here>>
    PROVE  SomeCalled' /\ \A u \in Threads : Called(u)' <=> u = val[t]
<1>1. ASSUME NEW u \in Threads
      PROVE  Called(u)' <=> u = val[t]
  <2>1. ~Called(u)
    BY DEF SomeCalled
  <2>2. At(u, "queueSpin")' /\ ~spin_here'[u] => At(u, "queueSpin") /\ ~spin_here[u]
    BY DEF At, Go
  <2>3. \A x \in Threads : x # t => pc'[x] = pc[x]
    BY DEF Go
  <2>4. pc'[t] = "releaseUnlink"
    BY DEF Go
  <2>5. QED
    BY <2>1, <2>2, <2>3, <2>4 DEF Called
<1>2. QED
    BY <1>1 DEF SomeCalled

\* (h,h) -> (-1,0)
LEMMA ChainLast ==
    ASSUME QueueInv, Members, Chain, NEW t \in Threads,
           pc \in [Threads -> Places], At(t, "releaseLast"), tail_id = val[t],
           head_id' = -1, tail_id' = 0, Go(t, "releaseUnlink"),
           UNCHANGED <<line, next_waiting, spin_here, val, aux>>
    PROVE  Chain'
<1>1. /\ HeadAt(1) /\ val[t] = head_id /\ head_id \in Threads /\ ~SomeCalled
      /\ tail_id \in Threads /\ tail_id = line[Len(line)] /\ Len(line) \in Nat
    BY HeadFirst DEF At
<1>2. SomeCalled' /\ \A u \in Threads : Called(u)' <=> u = val[t]
    BY <1>1, CalledNow DEF At
<1>3. 1 \in 1 .. Len(line) /\ Len(line) \in 1 .. Len(line) /\ line[1] = val[t]
    BY <1>1 DEF HeadAt
<1>4. Len(line) = 1
    BY <1>1, <1>3 DEF Members, Distinct
<1>5. \A i \in 1 .. Len(line') - 1 : FALSE
    BY <1>4
<1>6. head_id' \notin Threads /\ tail_id' \notin Threads
    BY DEF Threads
<1>7. QED
    BY <1>2, <1>3, <1>4, <1>5, <1>6 DEF Chain

\* (h,u) -> (h',u)
LEMMA ChainNext ==
    ASSUME QueueInv, Members, Chain, NEW t \in Threads,
           pc \in [Threads -> Places], At(t, "releaseNext"), next_waiting[val[t]] # 0,
           head_id' = next_waiting[val[t]], Go(t, "releaseUnlink"),
           UNCHANGED <<line, tail_id, next_waiting, spin_here, val, aux>>
    PROVE  Chain'
<1>1. /\ HeadAt(1) /\ val[t] = head_id /\ head_id \in Threads /\ ~SomeCalled
      /\ tail_id \in Threads /\ tail_id = line[Len(line)] /\ Len(line) \in Nat
    BY HeadFirst DEF At
<1>2. SomeCalled' /\ \A u \in Threads : Called(u)' <=> u = val[t]
    BY <1>1, CalledNow DEF At
<1>3. 1 \in 1 .. Len(line) /\ line[1] = val[t]
    BY <1>1 DEF HeadAt
<1>4. val[t] # tail_id
    BY DEF QueueInv, Handover
<1>5. /\ 1 \in 1 .. Len(line) - 1 /\ 1 + 1 = 2 /\ 2 \in 1 .. Len(line)
      /\ Len(line) \in 1 .. Len(line)
    BY <1>1, <1>3, <1>4
<1>6. line[2] = head_id'
  <2>1. line[2] \in Threads
    BY <1>5, InLine
  <2>2. At(line[2], "queueLink") => next_waiting[aux[line[2]]] = 0
    BY <2>1 DEF QueueInv, Links
  <2>3. \/ next_waiting[line[1]] = line[2]
        \/ At(line[2], "queueLink") /\ aux[line[2]] = line[1]
    BY <1>1, <1>5 DEF Chain
  <2>4. QED
    BY <1>3, <2>2, <2>3
<1>7. HeadAt(2)' /\ head_id' \in Threads
    BY <1>5, <1>6, InLine DEF HeadAt
<1>8. ASSUME NEW i \in 1 .. Len(line) - 1
      PROVE  \/ next_waiting[line[i]] = line[i + 1]
             \/ pc'[line[i + 1]] = "queueLink" /\ aux[line[i + 1]] = line[i]
  <2>1. line[i + 1] \in Threads
    BY <1>1, InLine
  <2>2. At(line[i + 1], "queueLink") => pc'[line[i + 1]] = "queueLink"
    BY <2>1 DEF At, Go
  <2>3. QED
    BY <1>1, <2>2 DEF Chain
<1>9. QED
    BY <1>1, <1>2, <1>3, <1>5, <1>7, <1>8 DEF Chain, At

\* The thread about to be woken is unlinked.
LEMMA ChainUnlink ==
    ASSUME QueueInv, Members, Chain, NEW t \in Threads,
           pc \in [Threads -> Places], At(t, "releaseUnlink"),
           next_waiting' = Set(next_waiting, val[t], 0), Go(t, "releaseWake"),
           UNCHANGED <<line, head_id, tail_id, spin_here, val, aux>>
    PROVE  Chain'
<1>1. /\ val[t] \in Threads /\ next_waiting \in [Threads -> Threads \cup {0}]
      /\ Len(line) \in Nat
    BY DEF At, QueueInv, QueueTyped, Handover, Members
<1>2. \A u \in Threads : Called(u)' <=> Called(u)
  <2>1. \A x \in Threads : x # t => pc'[x] = pc[x]
    BY DEF Go
  <2>2. pc'[t] = "releaseWake"
    BY DEF Go
  <2>3. QED
    BY <2>1, <2>2 DEF Called, At
<1>3. Called(val[t]) /\ SomeCalled /\ SomeCalled'
    BY <1>1, <1>2 DEF Called, SomeCalled, At
<1>4. 1 \in 1 .. Len(line) /\ line[1] = val[t]
    BY <1>1, <1>3 DEF Chain
<1>5. ASSUME NEW i \in 1 .. Len(line) - 1, i # 1
      PROVE  \/ next_waiting'[line[i]] = line[i + 1]
             \/ pc'[line[i + 1]] = "queueLink" /\ aux[line[i + 1]] = line[i]
  <2>1. i \in 1 .. Len(line) /\ line[i] \in Threads /\ line[i + 1] \in Threads
    BY <1>1, InLine
  <2>2. line[i] # val[t]
    BY <1>4, <1>5, <2>1 DEF Members, Distinct
  <2>3. next_waiting'[line[i]] = next_waiting[line[i]]
    BY <1>1, <2>1, <2>2 DEF Set
  <2>4. At(line[i + 1], "queueLink") => pc'[line[i + 1]] = "queueLink"
    BY <2>1 DEF At, Go
  <2>5. QED
    BY <1>5, <2>3, <2>4 DEF Chain, At
<1>6. /\ \A u \in Threads : Called(u)' => 1 \in 1 .. Len(line') /\ line'[1] = u
      /\ head_id' \in Threads => IF SomeCalled' THEN HeadAt(2)' ELSE HeadAt(1)'
      /\ head_id' \notin Threads => Len(line') = IF SomeCalled' THEN 1 ELSE 0
      /\ tail_id' \in Threads => Len(line') \in 1 .. Len(line') /\ tail_id' = line'[Len(line')]
    BY <1>2, <1>3 DEF Chain, HeadAt
<1>7. QED
    BY <1>3, <1>5, <1>6 DEF Chain, At

LEMMA ChainKept ==
    ASSUME QueueInv, Members, Chain, NEW t \in Threads,
           pc \in [Threads -> Places], val \in [Threads -> Int], aux \in [Threads -> Int],
           \/ QueueSet(t) \/ QueueHead(t) \/ QueueFirst(t) \/ QueueGrab(t)
           \/ QueueTail(t) \/ QueueJoin(t) \/ QueueLink(t) \/ QueueSpin(t)
           \/ QueueTest(t) \/ QueueTestCas(t)
           \/ ReleaseHead(t) \/ ReleaseFree(t) \/ ReleaseTail(t) \/ ReleaseLast(t)
           \/ ReleaseNext(t) \/ ReleaseUnlink(t) \/ ReleaseWake(t)
    PROVE  Chain'
<1>1. spin_here \in [Threads -> BOOLEAN]
    BY DEF QueueInv, QueueTyped
<1>2. 0 \notin Threads /\ -1 \notin Threads
    BY DEF Threads
<1>3. CASE QueueSet(t) \/ QueueHead(t) \/ QueueTail(t) \/ QueueTest(t)
           \/ QueueGrab(t) \/ QueueTestCas(t) \/ ReleaseHead(t) \/ ReleaseFree(t)
           \/ ReleaseTail(t)
  <2>1. /\ UNCHANGED <<line, tail_id, next_waiting>>
        /\ head_id' = head_id \/ (head_id \notin Threads /\ head_id' \notin Threads)
        /\ pc[t] \notin {"queueSpin", "queueLink", "releaseUnlink", "releaseWake"}
        /\ pc'[t] \notin {"queueSpin", "releaseUnlink", "releaseWake"}
        /\ \A u \in Threads : u # t => pc'[u] = pc[u]
    BY <1>2, <1>3 DEF QueueSet, QueueHead, QueueTail, QueueTest, QueueGrab, QueueTestCas,
            ReleaseHead, ReleaseFree, ReleaseTail, Got, Idle, At, Go, queue
  <2>2. \A u \in Threads : u # t =>
           spin_here'[u] = spin_here[u] /\ val'[u] = val[u] /\ aux'[u] = aux[u]
    BY <1>1, <1>3 DEF QueueSet, QueueHead, QueueTail, QueueTest, QueueGrab, QueueTestCas,
            ReleaseHead, ReleaseFree, ReleaseTail, Got, Idle, Set, queue, local
  <2>3. \A u \in Threads : Called(u)' <=> Called(u)
    BY <2>1, <2>2, CalledKept
  <2>4. \A u \in Threads : At(u, "queueLink") => At(u, "queueLink")' /\ aux'[u] = aux[u]
    BY <2>1, <2>2 DEF At
  <2>5. QED
    BY <2>1, <2>3, <2>4, ChainSame
<1>4. CASE QueueFirst(t) \/ QueueJoin(t)
  <2>1. spin_here[t]
    BY <1>4 DEF QueueFirst, QueueJoin, At, QueueInv, Ends
  <2>2. CASE QueueFirst(t) /\ head_id = -1 /\ tail_id = 0
    BY <2>2, ChainFirst DEF QueueFirst, local
  <2>3. CASE QueueJoin(t) /\ tail_id = aux[t]
    BY <2>3, ChainJoin DEF QueueJoin, local
  <2>4. CASE /\ Go(t, "queueHead") /\ UNCHANGED <<head_id, tail_id, line, next_waiting, spin_here>>
             /\ UNCHANGED local /\ pc[t] \in {"queueFirst", "queueJoin"}
    <3>1. /\ \A u \in Threads : u # t => pc'[u] = pc[u]
          /\ pc'[t] = "queueHead" /\ UNCHANGED <<val, aux, spin_here>>
      BY <2>4 DEF Go, local
    <3>2. \A u \in Threads : Called(u)' <=> Called(u)
      BY <2>4, <3>1, CalledKept
    <3>3. \A u \in Threads : At(u, "queueLink") => At(u, "queueLink")' /\ aux'[u] = aux[u]
      BY <2>4, <3>1 DEF At
    <3>4. QED
      BY <2>4, <3>2, <3>3, ChainSame
  <2>5. QED
    BY <1>4, <2>2, <2>3, <2>4 DEF QueueFirst, QueueJoin, At
<1>5. CASE QueueLink(t)
    BY <1>5, ChainLink DEF QueueLink, local
<1>6. CASE QueueSpin(t)
    BY <1>6, ChainSpin DEF QueueSpin, Got, local, queue
<1>7. CASE ReleaseLast(t)
  <2>1. CASE head_id = val[t] /\ tail_id = val[t]
    BY <1>7, <2>1, ChainLast DEF ReleaseLast, local
  <2>2. CASE ~(head_id = val[t] /\ tail_id = val[t])
    <3>1. /\ \A u \in Threads : u # t => pc'[u] = pc[u]
          /\ pc[t] = "releaseLast" /\ pc'[t] = "releaseHead"
          /\ UNCHANGED <<val, aux, spin_here, head_id, tail_id, next_waiting, line>>
      BY <1>7, <2>2 DEF ReleaseLast, At, Go, local
    <3>2. \A u \in Threads : Called(u)' <=> Called(u)
      BY <3>1, CalledKept
    <3>3. \A u \in Threads : At(u, "queueLink") => At(u, "queueLink")' /\ aux'[u] = aux[u]
      BY <3>1 DEF At
    <3>4. QED
      BY <3>1, <3>2, <3>3, ChainSame
  <2>3. QED
    BY <2>1, <2>2
<1>8. CASE ReleaseNext(t)
    BY <1>8, ChainNext DEF ReleaseNext, Linked, local
<1>9. CASE ReleaseUnlink(t)
    BY <1>9, ChainUnlink DEF ReleaseUnlink, Unlinked, local
<1>10. CASE ReleaseWake(t)
  <2>1. /\ pc[t] = "releaseWake" /\ pc'[t] = "idle" /\ spin_here' = Set(spin_here, val[t], FALSE)
        /\ \A u \in Threads : u # t => pc'[u] = pc[u] /\ val'[u] = val[u] /\ aux'[u] = aux[u]
        /\ UNCHANGED <<line, head_id, tail_id, next_waiting>>
    BY <1>10 DEF ReleaseWake, Idle, At, Go, Set
  <2>2. val[t] \in Threads /\ Spins(val[t])
    BY <2>1 DEF QueueInv, Handover
  <2>3. /\ ~spin_here'[val[t]]
        /\ \A u \in Threads : u # val[t] => spin_here'[u] = spin_here[u]
    BY <1>1, <2>1, <2>2 DEF Set
  <2>4. val[t] # t /\ pc'[val[t]] = "queueSpin"
    BY <2>1, <2>2 DEF Spins, At
  <2>5. ASSUME NEW u \in Threads
        PROVE  Called(u)' <=> Called(u)
    <3>1. CASE u = val[t]
      BY <2>1, <2>3, <2>4, <3>1 DEF Called, At
    <3>2. CASE u # val[t]
      BY <2>1, <2>3, <3>2 DEF Called, At
    <3>3. QED
      BY <3>1, <3>2
  <2>6. \A u \in Threads : At(u, "queueLink") => At(u, "queueLink")' /\ aux'[u] = aux[u]
    BY <2>1 DEF At
  <2>7. QED
    BY <2>1, <2>5, <2>6, ChainSame
<1>11. QED
    BY <1>3, <1>4, <1>5, <1>6, <1>7, <1>8, <1>9, <1>10

LEMMA InitLine ==
    ASSUME Init
    PROVE  LineInv
<1>1. /\ line = << >> /\ Len(line) = 0 /\ head_id = 0 /\ tail_id = 0
      /\ \A t \in Threads : pc[t] = "idle"
    BY DEF Init
<1>2. Members
    BY <1>1 DEF Members, Distinct, Contains, Queued
<1>3. TicketOrder
    BY <1>1 DEF TicketOrder
<1>4. ~SomeCalled /\ \A u \in Threads : ~Called(u)
    BY <1>1 DEF SomeCalled, Called, At
<1>5. Chain
    BY <1>1, <1>4 DEF Chain, Threads
<1>6. QED
    BY <1>2, <1>3, <1>5 DEF LineInv

\* A fair lock serves the one at the front, and only an empty line is overtaken.
Turn(t) == Fair => /\ TakesTurn(t) => Head(line) = t
                   /\ TakesAtOnce(t) => line = << >>

LEMMA TicketTurn ==
    ASSUME kind = "ticket", TicketInv, Members, TicketOrder, pc \in [Threads -> Places],
           ticket \in [Threads -> Int], NEW t \in Threads,
           \/ TicketTake(t) \/ TicketWait(t) \/ TicketTest(t) \/ TicketTestServing(t)
           \/ TicketTestCas(t) \/ TicketRelease(t)
    PROVE  Turn(t)
<1>1. Len(line) \in Nat /\ line \in Seq(Threads)
    BY DEF Members
<1>2. \A i \in 1 .. Len(line) : line[i] \in Threads /\ now_serving <= ticket[line[i]]
                                 /\ ticket[line[i]] < next_ticket
    BY LineTickets
<1>3. TakesTurn(t) => Head(line) = t
  <2>1. SUFFICES ASSUME TakesTurn(t) PROVE Head(line) = t
    OBVIOUS
  <2>2. TicketWait(t)
    BY <2>1 DEF TakesTurn, Queued, TicketTake, TicketTest, TicketTestServing, TicketTestCas,
                TicketRelease, At
  <2>3. PICK i \in 1 .. Len(line) : line[i] = t
    BY <2>1 DEF TakesTurn, Served
  <2>4. now_serving = ticket[t]
    BY <2>2 DEF TicketWait
  <2>5. QED
    BY <1>2, <2>3, <2>4, LowestFirst
<1>4. TakesAtOnce(t) => line = << >>
  <2>1. SUFFICES ASSUME TakesAtOnce(t), line # << >> PROVE FALSE
    OBVIOUS
  <2>2. /\ TicketTestCas(t) /\ next_ticket = ticket[t]
    <3>1. ~Queued(t) /\ ~Inside(t) /\ Inside(t)'
      BY <2>1 DEF TakesAtOnce
    <3>2. CASE TicketWait(t) \/ TicketRelease(t) \/ TicketTake(t) \/ TicketTest(t)
               \/ TicketTestServing(t)
      BY <3>1, <3>2 DEF Queued, Inside, TicketWait, TicketRelease, TicketTake, TicketTest,
                        TicketTestServing, Idle, At, Go
    <3>3. CASE TicketTestCas(t)
      BY <3>1, <3>3 DEF Inside, TicketTestCas, Idle, At, Go
    <3>4. QED
      BY <3>2, <3>3
  <2>3. ticket[t] <= now_serving
    BY <2>2 DEF TicketTestCas, TicketInv
  <2>4. 1 \in 1 .. Len(line)
    BY <1>1, <2>1
  <2>5. ticket[line[1]] \in Int /\ next_ticket \in Nat /\ now_serving \in Nat
    BY <1>2, <2>4 DEF TicketInv
  <2>6. QED
    BY <1>2, <2>2, <2>3, <2>4, <2>5
<1>5. QED
    BY <1>3, <1>4 DEF Turn

LEMMA DrdpaTurn ==
    ASSUME DrdpaTyped, Members, TicketOrder, NEW t \in Threads,
           \/ DrdpaTake(t) \/ DrdpaMask(t) \/ DrdpaPolls(t) \/ DrdpaSpin(t) \/ DrdpaServe(t)
           \/ DrdpaGrow(t) \/ DrdpaNewPolls(t) \/ DrdpaNewMask(t) \/ DrdpaCleanup(t)
           \/ DrdpaRelease(t)
    PROVE  Turn(t)
<1>1. ~TakesAtOnce(t) /\ (TakesTurn(t) => DrdpaSpin(t) /\ pc'[t] = "drdpaServe")
    BY DrdpaLine DEF DrdpaTyped
<1>2. SUFFICES ASSUME TakesTurn(t) PROVE Head(line) = t
    BY <1>1 DEF Turn
<1>3. At(t, "drdpaSpin") /\ Reached(t)
    BY <1>1, <1>2 DEF DrdpaSpin, DrdpaTyped, At, Go
<1>4. PICK f \in Nat : DrdpaTickets(f) /\ DrdpaWords(f)
    BY DEF DrdpaTyped, DrdpaInv
<1>5. ticket[t] = f
    BY <1>3, <1>4, ReachedFirst
<1>6. PICK i \in 1 .. Len(line) : line[i] = t
    BY <1>2 DEF TakesTurn, Served
<1>7. \A j \in 1 .. Len(line) : f <= ticket[line[j]]
    BY <1>4, DrdpaLineTickets DEF DrdpaTyped
<1>8. QED
    BY <1>5, <1>6, <1>7, LowestFirst DEF DrdpaTyped

LEMMA QueueTurn ==
    ASSUME QueueInv, Members, Chain, NEW t \in Threads,
           pc \in [Threads -> Places],
           \/ QueueSet(t) \/ QueueHead(t) \/ QueueFirst(t) \/ QueueGrab(t)
           \/ QueueTail(t) \/ QueueJoin(t) \/ QueueLink(t) \/ QueueSpin(t)
           \/ QueueTest(t) \/ QueueTestCas(t)
           \/ ReleaseHead(t) \/ ReleaseFree(t) \/ ReleaseTail(t) \/ ReleaseLast(t)
           \/ ReleaseNext(t) \/ ReleaseUnlink(t) \/ ReleaseWake(t)
    PROVE  Turn(t)
<1>1. pc'[t] = "got" => QueueSpin(t) \/ ((QueueGrab(t) \/ QueueTestCas(t)) /\ head_id = 0)
    BY DEF QueueSet, QueueHead, QueueFirst, QueueGrab, QueueTail, QueueJoin, QueueLink,
           QueueTest, QueueTestCas, ReleaseHead, ReleaseFree, ReleaseTail,
           ReleaseLast, ReleaseNext, ReleaseUnlink, ReleaseWake, Idle, Go
<1>2. ASSUME ~Inside(t), Inside(t)'
      PROVE  pc'[t] = "got"
    BY <1>2 DEF Inside, QueueSet, QueueHead, QueueFirst, QueueGrab, QueueTail, QueueJoin,
           QueueLink, QueueSpin, QueueTest, QueueTestCas, ReleaseHead, ReleaseFree, ReleaseTail,
           ReleaseLast, ReleaseNext, ReleaseUnlink, ReleaseWake, Idle, Got, Go
<1>3. TakesTurn(t) => Head(line) = t
  <2>1. SUFFICES ASSUME TakesTurn(t) PROVE Head(line) = t
    OBVIOUS
  <2>2. QueueSpin(t)
    BY <1>1, <1>2, <2>1 DEF TakesTurn, Queued, QueueGrab, QueueTestCas, At
  <2>3. QED
    BY <2>2, ChainSpin DEF QueueSpin, Got, local, queue
<1>4. TakesAtOnce(t) => line = << >>
  <2>1. SUFFICES ASSUME TakesAtOnce(t) PROVE line = << >>
    OBVIOUS
  <2>2. head_id = 0
    BY <1>1, <1>2, <2>1 DEF TakesAtOnce, Queued, QueueSpin, At
  <2>3. ~SomeCalled
    BY <2>2, SomeoneHas DEF QueueInv, OneHas
  <2>4. Len(line) = 0 /\ line \in Seq(Threads)
    BY <2>2, <2>3 DEF Chain, Threads, Members
  <2>5. QED
    BY <2>4
<1>5. QED
    BY <1>3, <1>4 DEF Turn

\* What the step of a thread does to the line.
LEMMA LineStep ==
    ASSUME IInv, LineInv, NEW t \in Threads, ThreadStep(t) \/ FutexSignal(t)
    PROVE  LineInv' /\ LineMove(t) /\ Turn(t) /\ UNCHANGED kind
<1>1. /\ pc \in [Threads -> Places] /\ val \in [Threads -> Int] /\ aux \in [Threads -> Int]
      /\ ticket \in [Threads -> Int] /\ Members
    BY DEF IInv, Typed, LineInv
<1>2. UNCHANGED kind
    BY KindKept DEF Next
<1>3. CASE CallSet(t) \/ CallTest(t) \/ NoteOwner(t) \/ Again(t) \/ CallUnset(t)
  <2>1. /\ LineMove(t) /\ SharedMove(t)
        /\ UNCHANGED <<ticket, aux, head_id, tail_id, next_waiting, spin_here, val>>
    BY <1>3, SharedLine, SharedMoves DEF local, queue
  <2>2. ASSUME Fair
        PROVE  UNCHANGED line
    BY <1>3, <2>2 DEF CallSet, CallTest, NoteOwner, Again, CallUnset, Fair
  <2>3. kind \in {"ticket", "drdpa"} => TicketOrder'
    BY <2>1, <2>2 DEF LineInv, TicketOrder, Fair, Words
  <2>4. ASSUME kind = "queuing"
        PROVE  Chain'
    <3>1. /\ pc[t] \in {"idle", "got", "held"}
          /\ pc'[t] \in {"queueSet", "queueTest", "held", "releaseHead", "idle", "got"}
          /\ \A u \in Threads : u # t => pc'[u] = pc[u]
      <4>1. CASE UNCHANGED pc
        <5>1. pc[t] \in {"idle", "got", "held"}
          BY <1>3 DEF CallSet, CallTest, NoteOwner, Again, CallUnset, At
        <5>2. QED
          BY <4>1, <5>1
      <4>2. CASE ~UNCHANGED pc
        BY <1>1, <2>1, <2>4, <4>2 DEF SharedMove, Entry, TestEntry, Exit, At, Go
      <4>3. QED
        BY <4>1, <4>2
    <3>2. \A u \in Threads : Called(u)' <=> Called(u)
      BY <2>1, <3>1, CalledKept
    <3>3. \A u \in Threads : At(u, "queueLink") => At(u, "queueLink")' /\ aux'[u] = aux[u]
      BY <2>1, <3>1 DEF At
    <3>4. QED
      BY <1>1, <2>1, <2>2, <2>4, <3>2, <3>3, ChainSame DEF LineInv, Fair, Words
  <2>5. Turn(t)
    <3>1. ~Inside(t)' \/ Inside(t)
      <4>1. CASE UNCHANGED pc
        BY <4>1 DEF Inside
      <4>2. CASE ~UNCHANGED pc
        <5>1. kind \in AllKinds
          BY DEF IInv, Typed
        <5>2. pc[t] = "idle" => pc'[t] \notin {"got", "held", "drdpaServe", "drdpaGrow",
                 "drdpaNewPolls", "drdpaNewMask", "drdpaCleanup", "drdpaTestServe"}
          BY <1>1, <2>1, <4>2, <5>1 DEF SharedMove, AllKinds, Entry, TestEntry, At, Go
        <5>3. pc[t] # "idle" => pc[t] \in {"got", "held"}
          BY <2>1, <4>2 DEF SharedMove, At
        <5>4. QED
          BY <5>2, <5>3 DEF Inside
      <4>3. QED
        BY <4>1, <4>2
    <3>2. QED
      BY <3>1 DEF Turn, TakesTurn, TakesAtOnce
  <2>6. Members'
    BY <1>1, <2>1, MembersKept
  <2>7. QED
    BY <1>2, <2>1, <2>3, <2>4, <2>5, <2>6 DEF LineInv
<1>4. CASE \/ TasRead(t) \/ TasCas(t) \/ TasTest(t) \/ TasRelease(t)
           \/ FutexCas(t) \/ FutexMark(t) \/ FutexWait(t) \/ FutexWoken(t)
           \/ FutexTest(t) \/ FutexRelease(t) \/ FutexWake(t) \/ FutexSignal(t)
  <2>1. Words
    <3>1. pc[t] \in TasPlaces \cup FutexPlaces
      BY <1>4 DEF TasRead, TasCas, TasTest, TasRelease, FutexCas, FutexMark, FutexWait,
                  FutexWoken, FutexTest, FutexRelease, FutexWake, FutexSignal, At, TasPlaces,
                  FutexPlaces
    <3>2. QED
      BY <3>1, KindOf DEF Words
  <2>2. LineMove(t)
    BY <1>1, <1>4, WordLine
  <2>3. Members'
    BY <1>1, <2>2, MembersKept
  <2>4. QED
    BY <1>2, <2>1, <2>2, <2>3 DEF LineInv, Turn, Fair, Words
<1>5. CASE \/ TicketTake(t) \/ TicketWait(t) \/ TicketTest(t) \/ TicketTestServing(t)
           \/ TicketTestCas(t) \/ TicketRelease(t)
  <2>1. kind = "ticket"
    <3>1. pc[t] \in TicketPlaces
      BY <1>5 DEF TicketTake, TicketWait, TicketTest, TicketTestServing, TicketTestCas,
                  TicketRelease, At, TicketPlaces
    <3>2. QED
      BY <3>1, KindOf
  <2>2. LineMove(t) /\ Members'
    BY <1>1, <1>5, TicketLine, MembersKept
  <2>3. TicketInv /\ TicketOrder
    BY <2>1 DEF IInv, LineInv
  <2>4. TicketOrder' /\ Turn(t)
    BY <1>1, <1>5, <2>1, <2>3, TicketOrderKept, TicketTurn
  <2>5. QED
    BY <1>2, <2>1, <2>2, <2>4 DEF LineInv
<1>6. CASE \/ QueueSet(t) \/ QueueHead(t) \/ QueueFirst(t) \/ QueueGrab(t)
           \/ QueueTail(t) \/ QueueJoin(t) \/ QueueLink(t) \/ QueueSpin(t)
           \/ QueueTest(t) \/ QueueTestCas(t)
           \/ ReleaseHead(t) \/ ReleaseFree(t) \/ ReleaseTail(t) \/ ReleaseLast(t)
           \/ ReleaseNext(t) \/ ReleaseUnlink(t) \/ ReleaseWake(t)
  <2>1. kind = "queuing"
    <3>1. pc[t] \in QueuePlaces
      BY <1>6 DEF QueueSet, QueueHead, QueueFirst, QueueGrab, QueueTail, QueueJoin, QueueLink,
           QueueSpin, QueueTest, QueueTestCas, ReleaseHead, ReleaseFree, ReleaseTail,
           ReleaseLast, ReleaseNext, ReleaseUnlink, ReleaseWake, At, QueuePlaces
    <3>2. QED
      BY <3>1, KindOf
  <2>2. LineMove(t) /\ Members'
    BY <1>1, <1>6, QueueLine, MembersKept
  <2>3. QueueInv /\ Chain
    BY <2>1 DEF IInv, LineInv
  <2>4. Chain' /\ Turn(t)
    BY <1>1, <1>6, <2>3, ChainKept, QueueTurn
  <2>5. QED
    BY <1>2, <2>1, <2>2, <2>4 DEF LineInv
<1>7. CASE \/ DrdpaTake(t) \/ DrdpaMask(t) \/ DrdpaPolls(t) \/ DrdpaSpin(t)
           \/ DrdpaServe(t) \/ DrdpaGrow(t) \/ DrdpaNewPolls(t) \/ DrdpaNewMask(t)
           \/ DrdpaCleanup(t) \/ DrdpaRelease(t)
  <2>1. kind = "drdpa"
    <3>1. pc[t] \in DrdpaPlaces
      BY <1>7 DEF DrdpaTake, DrdpaMask, DrdpaPolls, DrdpaSpin, DrdpaServe, DrdpaGrow,
                  DrdpaNewPolls, DrdpaNewMask, DrdpaCleanup, DrdpaRelease, At, DrdpaPlaces
    <3>2. QED
      BY <3>1, KindOf
  <2>2. LineMove(t) /\ Members'
    BY <1>1, <1>7, DrdpaLine, MembersKept
  <2>3. DrdpaTyped /\ TicketOrder
    BY <1>1, <2>1 DEF IInv, LineInv, DrdpaTyped
  <2>4. TicketOrder' /\ Turn(t)
    BY <1>1, <1>7, <2>3, DrdpaOrderKept, DrdpaTurn DEF DrdpaTyped
  <2>5. QED
    BY <1>2, <2>1, <2>2, <2>4 DEF LineInv
<1>8. ~( \/ DrdpaTest(t) \/ DrdpaTestPolls(t) \/ DrdpaTestMask(t) \/ DrdpaTestRead(t)
         \/ DrdpaTestCas(t) \/ DrdpaTestServe(t))
    BY KindOf DEF At, DrdpaTest, DrdpaTestPolls, DrdpaTestMask, DrdpaTestRead, DrdpaTestCas,
                  DrdpaTestServe
<1>9. QED
    BY <1>3, <1>4, <1>5, <1>6, <1>7, <1>8 DEF ThreadStep

\* The holder of a set with at most one member.
Bearer(S) == IF S = {} THEN 0 ELSE CHOOSE t \in S : TRUE

LEMMA BearerIs ==
    ASSUME NEW S \in SUBSET Threads, \A t, u \in S : t = u
    PROVE  /\ \A t \in S : Bearer(S) = t
           /\ Bearer(S) \in S \cup {0}
           /\ S = {} => Bearer(S) = 0
BY DEF Bearer

\* Every step is one the promise of a lock allows, or none of its business.
LEMMA PromiseStep ==
    ASSUME IInv, IInv', LineInv, NEW t \in Threads, LineMove(t), Turn(t), UNCHANGED kind
    PROVE  [Promise!Next]_<<Fair, Bearer(Holders), line>>
<1> DEFINE held == Bearer(Holders)
           next == Bearer(Holders')
<1>1. held' = next /\ Fair' = Fair
    BY DEF Fair, Words, Bearer
<1>2. /\ \A u \in Threads : u # t => (Inside(u)' <=> Inside(u))
      /\ Holders = {u \in Threads : Inside(u)} /\ Holders' = {u \in Threads : Inside(u)'}
    BY DEF LineMove, Inside, Holders
<1>3. \A u, w \in Threads : Inside(u) /\ Inside(w) => u = w
    BY OneInside DEF MutualExclusion
<1>4. \A u, w \in Threads : Inside(u)' /\ Inside(w)' => u = w
  <2>1. MutualExclusion'
    BY OneInside, PTL
  <2>2. QED
    BY <2>1 DEF MutualExclusion
<1>5. /\ \A u \in Holders : held = u
      /\ Holders = {} => held = 0
      /\ held \in Holders \cup {0}
    BY <1>2, <1>3, BearerIs
<1>6. /\ \A u \in Holders' : next = u
      /\ Holders' = {} => next = 0
    BY <1>2, <1>4, BearerIs
<1>7. 0 \notin Threads
    BY DEF Threads
<1>8. /\ \A u \in Threads : Contains(line, u) <=> Queued(u)
      /\ line \in Seq(Threads)
    BY DEF LineInv, Members
<1> HIDE DEF held, next
<1>9. CASE Stays(t)
  <2>1. Holders' = Holders
    BY <1>2, <1>9 DEF Stays
  <2>2. held' = held
    BY <2>1, <1>1 DEF held, next
  <2>3. QED
    BY <1>1, <1>9, <2>2 DEF Stays, held
<1>10. CASE Comes(t)
  <2>1. Holders' = Holders /\ t \notin Holders
    BY <1>2, <1>10 DEF Comes
  <2>2. held' = held /\ held # t
    BY <1>1, <1>5, <1>7, <2>1 DEF held, next
  <2>3. ~Contains(line, t) /\ line' = Append(line, t)
    BY <1>8, <1>10 DEF Comes, Joined
  <2>4. Promise!Arrive(t)
    BY <1>1, <2>2, <2>3 DEF Promise!Arrive, Promise!Contains, Contains, held, Bearer
  <2>5. QED
    BY <2>4 DEF Promise!Next
<1>11. CASE TakesTurn(t) \/ TakesAtOnce(t)
  <2>1. Inside(t)' /\ ~Inside(t)
    BY <1>11 DEF TakesTurn, TakesAtOnce
  <2>2. Holders = {} /\ t \in Holders'
    BY <1>2, <1>4, <2>1
  <2>3. held = 0 /\ held' = t
    BY <1>1, <1>5, <1>6, <2>2
  <2>4. CASE TakesTurn(t)
    <3>1. \E i \in 1 .. Len(line) : line[i] = t /\ line' = RemoveAt(line, i)
      BY <2>4 DEF TakesTurn, Served
    <3>2. Contains(line, t)
      BY <3>1 DEF Contains
    <3>3. Fair => Head(line) = t
      BY <2>4 DEF Turn
    <3>4. Promise!Enter(t)
      BY <1>1, <2>3, <3>1, <3>2, <3>3 DEF Promise!Enter, Promise!Contains, Promise!RemoveAt,
                                          Contains, RemoveAt, held, Bearer
    <3>5. QED
      BY <3>4 DEF Promise!Next
  <2>5. CASE TakesAtOnce(t)
    <3>1. (Fair => line = << >>) /\ UNCHANGED line
      BY <2>5 DEF Turn, TakesAtOnce
    <3>2. Promise!EnterAtOnce(t)
      BY <1>1, <2>3, <3>1 DEF Promise!EnterAtOnce, held, Bearer
    <3>3. QED
      BY <3>2 DEF Promise!Next
  <2>6. QED
    BY <1>11, <2>4, <2>5
<1>12. CASE GivesBack(t)
  <2>1. t \in Holders /\ ~Inside(t)' /\ UNCHANGED line
    BY <1>2, <1>12 DEF GivesBack
  <2>2. Holders' = {}
    BY <1>2, <1>3, <2>1
  <2>3. held = t /\ held' = 0
    BY <1>1, <1>5, <1>6, <2>1, <2>2
  <2>4. Promise!Leave(t)
    BY <1>1, <2>1, <2>3 DEF Promise!Leave, held, Bearer
  <2>5. QED
    BY <2>4 DEF Promise!Next
<1>13. QED
    BY <1>9, <1>10, <1>11, <1>12 DEF LineMove

LEMMA LineNext ==
    ASSUME IInv, LineInv, [Next]_vars
    PROVE  IInv' /\ LineInv' /\ [Promise!Next]_<<Fair, Bearer(Holders), line>>
<1>1. IInv'
    BY NextInv
<1>2. CASE UNCHANGED vars
  <2>1. UNCHANGED <<kind, pc, line, val, aux, ticket, head_id, tail_id, next_waiting, spin_here>>
    BY <1>2 DEF vars, lock, local, queue
  <2>2. LineInv'
    BY <2>1 DEF LineInv, Members, Distinct, Queued, TicketOrder, Chain, SomeCalled, Called,
                HeadAt, At
  <2>3. UNCHANGED <<Fair, Bearer(Holders), line>>
    BY <2>1 DEF Fair, Words, Bearer, Holders, Inside
  <2>4. QED
    BY <1>1, <2>2, <2>3
<1>3. CASE \E t \in Threads : ThreadStep(t) \/ FutexSignal(t)
  <2>1. PICK t \in Threads : ThreadStep(t) \/ FutexSignal(t)
    BY <1>3
  <2>2. LineInv' /\ LineMove(t) /\ Turn(t) /\ UNCHANGED kind
    BY <2>1, LineStep
  <2>3. QED
    BY <1>1, <2>2, PromiseStep
<1>4. QED
    BY <1>2, <1>3 DEF Next

\* A lock has one holder at a time, who has asked for it; a ticket, queuing or DRDPA lock
\* serves the threads in the order in which they have joined its line, and omp_test_lock
\* overtakes nobody there.
THEOREM LockRefinement == Spec /\ Covered => ImplementsLock
<1>1. Init /\ Covered => IInv /\ LineInv /\ Promise!Init
  <2>1. ASSUME Init
        PROVE  Promise!Init
    <3>1. Holders = {} /\ line = << >>
      BY <2>1 DEF Init, Holders, Inside
    <3>2. QED
      BY <3>1 DEF Promise!Init, Fair
  <2>2. QED
    BY <2>1, InitInv, InitLine DEF Covered
<1>2. IInv /\ LineInv /\ [Next]_vars =>
         IInv' /\ LineInv' /\ [Promise!Next]_<<Fair, Bearer(Holders), line>>
    BY LineNext
<1>3. [Promise!Next]_<<Fair, Bearer(Holders), line>> => [Promise!Next]_(Promise!vars)
    BY DEF Promise!vars, Bearer
<1>4. QED
    BY <1>1, <1>2, <1>3, PTL DEF Spec, ImplementsLock, Promise!Spec
---------------------------------------------------------------------------
(***************************************************************************)
(* Type correctness.                                                       *)
(***************************************************************************)
\* What TypeOK says beyond the invariant: how often a thread still asks, how deep the
\* lock is nested, and the word that the kernel knows.
Depth ==
    /\ \A t \in Threads : left[t] \in 0 .. Rounds[t]
    /\ depth_locked \in 0 .. MaxDepth
    /\ nestable => \A t \in Threads : At(t, "held") => depth_locked # 0
WordType ==
    poll \in 0 .. 2 * NThreads + 1 /\ sleepers \subseteq Threads /\ waker \in [Threads -> {0, 1}]
TicketType ==
    next_ticket \in Nat /\ now_serving \in Nat /\ ticket \in [Threads -> Nat]
QueueType ==
    /\ head_id \in Threads \cup {-1, 0} /\ tail_id \in Threads \cup {0}
    /\ next_waiting \in [Threads -> Threads \cup {0}]
    /\ spin_here \in [Threads -> BOOLEAN]
AreaType ==
    /\ areas \in Seq(Areas) /\ polls \in 1 .. Len(areas) /\ old_polls \in 0 .. Len(areas)
    /\ mask \in Nat /\ cleanup_ticket \in Nat
Types == kind \in Kinds /\ Depth /\ WordType /\ TicketType /\ QueueType /\ AreaType

LEMMA InitTypes ==
    ASSUME Init, IInv
    PROVE  Types
<1>1. Depth
    BY LocksAssumption DEF Init, Depth, At
<1>2. WordType /\ TicketType /\ QueueType
    BY LocksAssumption DEF Init, WordType, TicketType, QueueType
<1>3. AreaType
  <2>1. [i \in {0} |-> 0] \in [0 .. 0 -> Nat]
    OBVIOUS
  <2>2. [i \in {0} |-> 0] \in Areas
    BY <2>1 DEF Areas
  <2>3. QED
    BY <2>2 DEF Init, AreaType
<1>4. QED
    BY <1>1, <1>2, <1>3 DEF Init, Types

\* The words of the other kinds of lock stay as they are.
LEMMA SharedTypes ==
    ASSUME IInv, Types, NEW t \in Threads,
           CallSet(t) \/ CallTest(t) \/ NoteOwner(t) \/ Again(t) \/ CallUnset(t)
    PROVE  Types'
<1>1. UNCHANGED <<lock, local, word, tickets, queue, area>>
    BY SharedMoves
<1>2. WordType' /\ TicketType' /\ QueueType' /\ AreaType' /\ kind' \in Kinds
    BY <1>1 DEF Types, WordType, TicketType, QueueType, AreaType, lock, local, word, tickets,
                queue, area
<1>3. /\ pc \in [Threads -> Places] /\ MaxDepth \in Nat \ {0} /\ UNCHANGED nestable
      /\ \A u \in Threads : left[u] \in 0 .. Rounds[u] /\ Rounds[u] \in Nat
      /\ depth_locked \in 0 .. MaxDepth
      /\ nestable => \A u \in Threads : At(u, "held") => depth_locked # 0
    BY <1>1, LocksAssumption DEF IInv, Typed, Types, Depth, lock
<1>4. \A u \in Threads : At(t, "held") /\ At(u, "held") => u = t
    BY OneInside DEF MutualExclusion, Inside, At
<1>5. \A u \in Threads : left'[u] \in 0 .. Rounds[u]
  <2>1. CASE UNCHANGED left
    BY <1>3, <2>1
  <2>2. CASE left' = [left EXCEPT ![t] = @ - 1] /\ left[t] > 0
    <3>1. ASSUME NEW u \in Threads
          PROVE  left'[u] = left[u] \/ (u = t /\ left'[u] = left[u] - 1)
                 \/ (u = t /\ left'[u] = left[u])
      BY <2>2
    <3>2. QED
      BY <1>3, <2>2, <3>1
  <2>3. QED
    BY <2>1, <2>2 DEF CallSet, CallTest, NoteOwner, Again, CallUnset
<1>6. CASE CallSet(t) \/ CallTest(t)
  <2>1. UNCHANGED depth_locked
    BY <1>6 DEF CallSet, CallTest, nest
  <2>2. \A u \in Threads : At(u, "held")' => At(u, "held")
    <3>1. kind \in AllKinds /\ (kind \in Tests => kind # "drdpa")
      BY DEF IInv, Typed, OnlyGrows
    <3>2. pc'[t] # "held" /\ \A u \in Threads : u # t => pc'[u] = pc[u]
      BY <1>3, <1>6, <3>1 DEF CallSet, CallTest, Go, Entry, TestEntry, AllKinds
    <3>3. QED
      BY <3>2 DEF At
  <2>3. QED
    BY <1>2, <1>3, <1>5, <2>1, <2>2 DEF Types, Depth
<1>7. CASE NoteOwner(t)
  <2>1. CASE nestable
    <3>1. depth_locked' = 1
      BY <1>7, <2>1 DEF NoteOwner, KeepsOwner
    <3>2. QED
      BY <1>2, <1>3, <1>5, <3>1 DEF Types, Depth
  <2>2. CASE ~nestable
    <3>1. UNCHANGED depth_locked
      BY <1>7, <2>2 DEF NoteOwner, nest
    <3>2. QED
      BY <1>2, <1>3, <1>5, <2>2, <3>1 DEF Types, Depth
  <2>3. QED
    BY <2>1, <2>2
<1>8. CASE Again(t)
  <2>1. depth_locked' = depth_locked + 1 /\ depth_locked < MaxDepth
    BY <1>8 DEF Again
  <2>2. QED
    BY <1>2, <1>3, <1>5, <2>1 DEF Types, Depth
<1>9. CASE CallUnset(t)
  <2>1. /\ At(t, "held") /\ ~(checked /\ Owner # t)
    BY <1>9, OwnerRight DEF CallUnset
  <2>2. /\ depth_locked' = IF nestable THEN depth_locked - 1 ELSE depth_locked
        /\ IF nestable /\ depth_locked' # 0 THEN UNCHANGED pc ELSE Go(t, Exit)
    BY <1>9, <2>1 DEF CallUnset, GivenBack
  <2>3. CASE ~nestable
    BY <1>2, <1>3, <1>5, <2>2, <2>3 DEF Types, Depth
  <2>4. CASE nestable
    <3>1. depth_locked' \in 0 .. MaxDepth
      BY <1>3, <2>1, <2>2, <2>4
    <3>2. depth_locked' = 0 => \A u \in Threads : ~At(u, "held")'
      <4>1. Exit # "held"
        BY DEF IInv, Typed, AllKinds, Exit
      <4>2. depth_locked' = 0 => Go(t, Exit)
        BY <2>2
      <4>3. QED
        BY <1>3, <1>4, <2>1, <4>1, <4>2 DEF Go, At
    <3>3. QED
      BY <1>2, <1>3, <1>5, <2>4, <3>1, <3>2 DEF Types, Depth
  <2>5. QED
    BY <2>3, <2>4
<1>10. QED
    BY <1>6, <1>7, <1>8, <1>9

\* A step of one kind enters and leaves neither "held" nor the counts of the calls.
LEMMA DepthSame ==
    ASSUME Depth, pc \in [Threads -> Places], UNCHANGED <<left, depth_locked, nestable>>,
           NEW t \in Threads, ~At(t, "held"), \E l \in Places \ {"held"} : Go(t, l)
    PROVE  Depth'
BY DEF Depth, At, Go

LEMMA TasTypes ==
    ASSUME IInv, Types, NEW t \in Threads,
           TasRead(t) \/ TasCas(t) \/ TasTest(t) \/ TasRelease(t)
    PROVE  Types'
<1>1. /\ UNCHANGED <<lock, left, local, nest, sleepers, waker, tickets, queue, area>>
      /\ ~At(t, "held") /\ \E l \in {"idle", "got", "tasRead", "tasCas"} : Go(t, l)
    BY DEF TasRead, TasCas, TasTest, TasRelease, Got, word, At
<1>2. \E l \in Places \ {"held"} : Go(t, l)
    BY <1>1 DEF Places, Shared, TasPlaces
<1>3. UNCHANGED <<kind, left, depth_locked, nestable>>
    BY <1>1 DEF lock, nest
<1>4. Depth'
    BY <1>1, <1>2, <1>3, DepthSame DEF Types, IInv, Typed
<1>5. WordType'
  <2>1. UNCHANGED poll \/ poll' = t \/ poll' = 0
    BY DEF TasRead, TasCas, TasTest, TasRelease, word
  <2>2. QED
    BY <1>1, <2>1, LocksAssumption DEF Types, WordType, Threads
<1>6. TicketType' /\ QueueType' /\ AreaType'
    BY <1>1 DEF Types, TicketType, QueueType, AreaType, tickets, queue, area, local
<1>7. QED
    BY <1>3, <1>4, <1>5, <1>6 DEF Types

LEMMA FutexTypes ==
    ASSUME IInv, Types, NEW t \in Threads,
           \/ FutexCas(t) \/ FutexMark(t) \/ FutexWait(t) \/ FutexWoken(t) \/ FutexSignal(t)
           \/ FutexTest(t) \/ FutexRelease(t) \/ FutexWake(t)
    PROVE  Types'
<1>1. /\ UNCHANGED <<lock, left, nest, tickets, queue, area>> /\ ~At(t, "held")
      /\ \E l \in FutexPlaces \cup {"idle", "got"} : Go(t, l)
    BY DEF FutexCas, FutexMark, FutexWait, FutexWoken, FutexSignal, FutexTest, FutexRelease,
           FutexWake, Got, Idle, At, FutexPlaces
<1>2. \E l \in Places \ {"held"} : Go(t, l)
    BY <1>1 DEF Places, Shared, FutexPlaces
<1>3. UNCHANGED <<kind, left, depth_locked, nestable>>
    BY <1>1 DEF lock, nest
<1>4. Depth'
    BY <1>1, <1>2, <1>3, DepthSame DEF Types, IInv, Typed
<1>5. sleepers' \subseteq Threads /\ waker' \in [Threads -> {0, 1}]
    BY DEF Types, WordType, FutexCas, FutexMark, FutexWait, FutexWoken, FutexSignal, FutexTest,
           FutexRelease, FutexWake, AfterSleep, Set, word
<1>6. poll' \in 0 .. 2 * NThreads + 1
  <2>1. NThreads \in Nat /\ poll \in 0 .. 2 * NThreads + 1 /\ t \in 1 .. NThreads
        /\ waker[t] \in {0, 1}
    BY LocksAssumption DEF Types, WordType, Threads
  <2>2. CASE FutexCas(t)
    <3>1. poll' = poll \/ poll' = 2 * t + waker[t]
      BY <2>2 DEF FutexCas
    <3>2. QED
      BY <2>1, <3>1
  <2>3. CASE FutexMark(t)
    <3>1. poll' = poll \/ (poll = val[t] /\ poll' = poll + 1)
      BY <2>3 DEF FutexMark
    <3>2. val[t] % 2 = 0
      BY <2>3, KindOf DEF FutexMark, IInv, FutexInv, FutexPlaces, At
    <3>3. QED
      BY <2>1, <3>1, <3>2
  <2>4. CASE FutexTest(t)
    <3>1. poll' = poll \/ poll' = 2 * t
      BY <2>4 DEF FutexTest
    <3>2. QED
      BY <2>1, <3>1
  <2>5. CASE \/ FutexWait(t) \/ FutexWoken(t) \/ FutexSignal(t) \/ FutexRelease(t)
             \/ FutexWake(t)
    <3>1. poll' = poll \/ poll' = 0
      BY <2>5 DEF FutexWait, FutexWoken, FutexSignal, FutexRelease, FutexWake
    <3>2. QED
      BY <2>1, <3>1
  <2>6. QED
    BY <2>2, <2>3, <2>4, <2>5
<1>7. ticket' \in [Threads -> Nat]
    BY DEF Types, TicketType, FutexCas, FutexMark, FutexWait, FutexWoken, FutexSignal,
           FutexTest, FutexRelease, FutexWake, Idle, Set, local
<1>8. TicketType' /\ QueueType' /\ AreaType'
    BY <1>1, <1>7 DEF Types, TicketType, QueueType, AreaType, tickets, queue, area
<1>9. QED
    BY <1>3, <1>4, <1>5, <1>6, <1>8 DEF Types, WordType

LEMMA TicketTypes ==
    ASSUME IInv, Types, NEW t \in Threads,
           \/ TicketTake(t) \/ TicketWait(t) \/ TicketTest(t) \/ TicketTestServing(t)
           \/ TicketTestCas(t) \/ TicketRelease(t)
    PROVE  Types'
<1>1. /\ UNCHANGED <<lock, left, nest, word, queue, area>> /\ ~At(t, "held")
      /\ \E l \in TicketPlaces \cup {"idle", "got"} : Go(t, l)
    BY DEF TicketTake, TicketWait, TicketTest, TicketTestServing, TicketTestCas,
           TicketRelease, Got, Idle, At, TicketPlaces
<1>2. \E l \in Places \ {"held"} : Go(t, l)
    BY <1>1 DEF Places, Shared, TicketPlaces
<1>3. UNCHANGED <<kind, left, depth_locked, nestable>>
    BY <1>1 DEF lock, nest
<1>4. Depth'
    BY <1>1, <1>2, <1>3, DepthSame DEF Types, IInv, Typed
<1>5. TicketType'
    BY DEF Types, TicketType, TicketTake, TicketWait, TicketTest, TicketTestServing,
           TicketTestCas, TicketRelease, Idle, Set, local, tickets
<1>6. WordType' /\ QueueType' /\ AreaType'
    BY <1>1 DEF Types, WordType, QueueType, AreaType, word, queue, area
<1>7. QED
    BY <1>3, <1>4, <1>5, <1>6 DEF Types

LEMMA QueueTypes ==
    ASSUME IInv, Types, NEW t \in Threads,
           \/ QueueSet(t) \/ QueueHead(t) \/ QueueFirst(t) \/ QueueGrab(t)
           \/ QueueTail(t) \/ QueueJoin(t) \/ QueueLink(t) \/ QueueSpin(t)
           \/ QueueTest(t) \/ QueueTestCas(t)
           \/ ReleaseHead(t) \/ ReleaseFree(t) \/ ReleaseTail(t) \/ ReleaseLast(t)
           \/ ReleaseNext(t) \/ ReleaseUnlink(t) \/ ReleaseWake(t)
    PROVE  Types'
<1>1. /\ UNCHANGED <<lock, left, nest, word, tickets, area>> /\ ~At(t, "held")
      /\ \E l \in QueuePlaces \cup {"idle", "got"} : Go(t, l)
      /\ ticket' = ticket \/ ticket' = Set(ticket, t, 0)
  <2>1. CASE QueueSet(t) \/ QueueHead(t) \/ QueueFirst(t) \/ QueueGrab(t) \/ QueueTail(t)
    BY <2>1 DEF QueueSet, QueueHead, QueueFirst, QueueGrab, QueueTail, Got, At, QueuePlaces,
                local
  <2>2. CASE QueueJoin(t) \/ QueueLink(t) \/ QueueSpin(t) \/ QueueTest(t) \/ QueueTestCas(t)
    BY <2>2 DEF QueueJoin, QueueLink, QueueSpin, QueueTest, QueueTestCas, Got, At,
                QueuePlaces, local
  <2>3. CASE \/ ReleaseHead(t) \/ ReleaseFree(t) \/ ReleaseTail(t) \/ ReleaseLast(t)
             \/ ReleaseNext(t) \/ ReleaseUnlink(t) \/ ReleaseWake(t)
    BY <2>3 DEF ReleaseHead, ReleaseFree, ReleaseTail, ReleaseLast, ReleaseNext,
                ReleaseUnlink, ReleaseWake, Idle, At, QueuePlaces, local
  <2>4. QED
    BY <2>1, <2>2, <2>3
<1>2. \E l \in Places \ {"held"} : Go(t, l)
    BY <1>1 DEF Places, Shared, QueuePlaces
<1>3. UNCHANGED <<kind, left, depth_locked, nestable>>
    BY <1>1 DEF lock, nest
<1>4. Depth'
    BY <1>1, <1>2, <1>3, DepthSame DEF Types, IInv, Typed
<1>5. QueueType'
  <2>1. kind = "queuing" /\ IInv'
    <3>1. pc[t] \in QueuePlaces
      BY DEF QueueSet, QueueHead, QueueFirst, QueueGrab, QueueTail, QueueJoin, QueueLink,
             QueueSpin, QueueTest, QueueTestCas, ReleaseHead, ReleaseFree, ReleaseTail,
             ReleaseLast, ReleaseNext, ReleaseUnlink, ReleaseWake, At, QueuePlaces
    <3>2. QED
      BY <3>1, KindOf, QueueStep
  <2>2. QueueTyped'
    BY <1>3, <2>1 DEF IInv, QueueInv
  <2>3. QED
    BY <2>2 DEF QueueTyped, QueueType
<1>6. WordType' /\ AreaType'
    BY <1>1 DEF Types, WordType, AreaType, word, area
<1>7. TicketType'
    BY <1>1 DEF Types, TicketType, tickets, Set
<1>8. QED
    BY <1>3, <1>4, <1>5, <1>6, <1>7 DEF Types

LEMMA DrdpaTypes ==
    ASSUME IInv, Types, NEW t \in Threads,
           \/ DrdpaTake(t) \/ DrdpaMask(t) \/ DrdpaPolls(t) \/ DrdpaSpin(t) \/ DrdpaServe(t)
           \/ DrdpaGrow(t) \/ DrdpaNewPolls(t) \/ DrdpaNewMask(t) \/ DrdpaCleanup(t)
           \/ DrdpaRelease(t)
    PROVE  Types'
<1>1. /\ UNCHANGED <<lock, left, nest, word, queue>> /\ ~At(t, "held")
      /\ \E l \in DrdpaPlaces \cup {"idle", "got"} : Go(t, l)
      /\ ticket' = ticket \/ ticket' = Set(ticket, t, 0) \/ ticket' = Set(ticket, t, next_ticket)
  <2>1. CASE DrdpaTake(t) \/ DrdpaMask(t) \/ DrdpaPolls(t) \/ DrdpaSpin(t) \/ DrdpaServe(t)
    BY <2>1 DEF DrdpaTake, DrdpaMask, DrdpaPolls, DrdpaSpin, DrdpaServe, At, DrdpaPlaces,
                local
  <2>2. CASE DrdpaGrow(t)
    BY <2>2 DEF DrdpaGrow, Got, At, DrdpaPlaces
  <2>3. CASE DrdpaNewPolls(t) \/ DrdpaNewMask(t) \/ DrdpaCleanup(t) \/ DrdpaRelease(t)
    BY <2>3 DEF DrdpaNewPolls, DrdpaNewMask, DrdpaCleanup, DrdpaRelease, Got, Idle, At,
                DrdpaPlaces, local
  <2>4. QED
    BY <2>1, <2>2, <2>3
<1>2. \E l \in Places \ {"held"} : Go(t, l)
    BY <1>1 DEF Places, Shared, DrdpaPlaces
<1>3. UNCHANGED <<kind, left, depth_locked, nestable>>
    BY <1>1 DEF lock, nest
<1>4. Depth'
    BY <1>1, <1>2, <1>3, DepthSame DEF Types, IInv, Typed
<1>5. WordType' /\ QueueType'
    BY <1>1 DEF Types, WordType, QueueType, word, queue
<1>6. kind = "drdpa" /\ IInv'
  <2>1. pc[t] \in DrdpaPlaces
    BY DEF DrdpaTake, DrdpaMask, DrdpaPolls, DrdpaSpin, DrdpaServe, DrdpaGrow, DrdpaNewPolls,
           DrdpaNewMask, DrdpaCleanup, DrdpaRelease, At, DrdpaPlaces
  <2>2. QED
    BY <2>1, KindOf, DrdpaStep
<1>7. DrdpaInv'
    BY <1>3, <1>6 DEF IInv
<1>8. TicketType'
  <2>1. next_ticket' \in Nat /\ now_serving' \in Nat
    BY <1>7 DEF DrdpaInv, DrdpaTickets
  <2>2. QED
    BY <1>1, <2>1 DEF Types, TicketType, Set
<1>9. AreaType'
  <2>1. /\ areas' \in Seq(Areas) /\ polls' \in 1 .. Len(areas')
        /\ old_polls' \in 0 .. Len(areas') /\ mask' \in 0 .. Top(areas[polls])'
        /\ cleanup_ticket' \in Nat
    BY <1>7 DEF DrdpaInv, DrdpaAreas
  <2>2. mask' \in Nat
    BY <2>1
  <2>3. QED
    BY <2>1, <2>2 DEF AreaType
<1>10. QED
    BY <1>3, <1>4, <1>5, <1>8, <1>9 DEF Types

LEMMA NextTypes ==
    ASSUME IInv, Types, [Next]_vars
    PROVE  Types'
<1>1. CASE UNCHANGED vars
    BY <1>1 DEF vars, lock, local, nest, word, tickets, queue, area, Types, Depth, WordType,
                TicketType, QueueType, AreaType, At
<1>2. CASE \E t \in Threads : ThreadStep(t) \/ FutexSignal(t)
  <2>1. PICK t \in Threads : ThreadStep(t) \/ FutexSignal(t)
    BY <1>2
  <2>2. ~( \/ DrdpaTest(t) \/ DrdpaTestPolls(t) \/ DrdpaTestMask(t) \/ DrdpaTestRead(t)
           \/ DrdpaTestCas(t) \/ DrdpaTestServe(t))
    BY KindOf DEF At, DrdpaTest, DrdpaTestPolls, DrdpaTestMask, DrdpaTestRead, DrdpaTestCas,
                  DrdpaTestServe
  <2>3. QED
    BY <2>1, <2>2, SharedTypes, TasTypes, FutexTypes, TicketTypes, QueueTypes, DrdpaTypes
       DEF ThreadStep
<1>3. QED
    BY <1>1, <1>2 DEF Next

\* The words of a lock hold what they are meant to: the depth of a nestable lock stays
\* within its bound and never falls below zero, the bit for the sleepers does not spill
\* into the owner of a futex lock, and the line lists threads.
THEOREM LockTypes == Spec => [](Covered => TypeOK)
<1>1. Init => (Covered => IInv /\ LineInv /\ Types)
    BY InitInv, InitLine, InitTypes DEF Covered
<1>2. (Covered => IInv /\ LineInv /\ Types) /\ [Next]_vars =>
         (Covered => IInv /\ LineInv /\ Types)'
    BY LineNext, NextTypes, KindKept DEF Covered, OnlyGrows
<1>3. (Covered => IInv /\ LineInv /\ Types) => (Covered => TypeOK)
  <2>1. ASSUME IInv, LineInv, Types
        PROVE  TypeOK
    <3>1. /\ kind \in Kinds /\ nestable \in BOOLEAN /\ checked \in BOOLEAN
          /\ val \in [Threads -> Int] /\ aux \in [Threads -> Int]
          /\ owner_id \in Threads \cup {0}
      BY <2>1 DEF IInv, Typed, Types
    <3>2. \A i \in DOMAIN line : line[i] \in Threads
      BY <2>1 DEF LineInv, Members
    <3>3. polls \in DOMAIN areas
      BY <2>1 DEF Types, AreaType
    <3>4. QED
      BY <2>1, <3>1, <3>2, <3>3 DEF TypeOK, Types, Depth, WordType, TicketType, QueueType,
                                    AreaType
  <2>2. QED
    BY <2>1
<1>4. QED
    BY <1>1, <1>2, <1>3, PTL DEF Spec
=============================================================================
