------------------------------- MODULE Locks -------------------------------
(***************************************************************************)
(* The user locks of kmp_lock.cpp: test-and-set, futex, ticket, queuing    *)
(* and DRDPA, simple or nestable, with and without the consistency checks. *)
(* Every load, store and compare-and-swap of a shared word is a step.  The *)
(* kind of the lock is chosen once, in Init.  Threads are numbered from 1, *)
(* as in the lock words (gtid + 1).                                        *)
(***************************************************************************)
EXTENDS Integers, FiniteSets, Sequences, SequencesExt

CONSTANTS
    NThreads,
    Kinds,          \* subset of {"tas", "futex", "ticket", "queuing", "drdpa"}
    Rounds,         \* Rounds[t]: times t asks for the lock; bounds the tickets
    MaxDepth,       \* nesting of a nestable lock
    Tests,          \* kinds on which the threads also call omp_test_lock
    Oversubscribed  \* what a thread may find when it compares the threads of the
                    \*   process with its processors: subset of BOOLEAN

Threads == 1 .. NThreads

ASSUME LocksAssumption ==
    /\ NThreads \in Nat \ {0} /\ Rounds \in [Threads -> Nat] /\ MaxDepth \in Nat \ {0}
    /\ Kinds \subseteq {"tas", "futex", "ticket", "queuing", "drdpa"}
    /\ Tests \subseteq Kinds /\ Oversubscribed \subseteq BOOLEAN

VARIABLES
    kind, nestable, checked,    \* the lock, and KMP_CONSISTENCY_CHECK
    pc, left,                   \* place in the code; rounds left
    val, aux, ticket,           \* what a thread has read, and its ticket
    owner_id, depth_locked,
    poll, sleepers, waker,      \* futex and test-and-set: the word, the kernel's
                                \*   queue, and bit 0 of a thread's gtid_code
    next_ticket, now_serving,
    head_id, tail_id, next_waiting, spin_here,              \* queuing
    areas, freed, polls, mask, old_polls, cleanup_ticket,   \* DRDPA
    line                        \* history: who has joined, in order

lock == <<kind, nestable, checked>>
local == <<val, aux, ticket>>
nest == <<owner_id, depth_locked>>
word == <<poll, sleepers, waker>>
tickets == <<next_ticket, now_serving>>
queue == <<head_id, tail_id, next_waiting, spin_here>>
area == <<areas, freed, polls, mask, old_polls, cleanup_ticket>>
vars == <<lock, pc, left, local, nest, word, tickets, queue, area, line>>

Init ==
    /\ kind \in Kinds /\ nestable \in BOOLEAN /\ checked \in BOOLEAN
    /\ pc = [t \in Threads |-> "idle"] /\ left = Rounds
    /\ val = [t \in Threads |-> 0] /\ aux = [t \in Threads |-> 0]
    /\ ticket = [t \in Threads |-> 0]
    /\ owner_id = 0 /\ depth_locked = 0
    /\ poll = 0 /\ sleepers = {} /\ waker = [t \in Threads |-> 0]
    /\ next_ticket = 0 /\ now_serving = 0
    /\ head_id = 0 /\ tail_id = 0
    /\ next_waiting = [t \in Threads |-> 0] /\ spin_here = [t \in Threads |-> FALSE]
    /\ areas = << [i \in {0} |-> 0] >> /\ freed = {} /\ polls = 1 /\ mask = 0
    /\ old_polls = 0 /\ cleanup_ticket = 0
    /\ line = << >>

At(t, l) == pc[t] = l
Go(t, l) == pc' = [pc EXCEPT ![t] = l]
Set(f, t, v) == [f EXCEPT ![t] = v]
Joined(t) == line' = Append(line, t)
Served(t) == \E i \in 1 .. Len(line) : line[i] = t /\ line' = RemoveAt(line, i)

Words == kind \in {"tas", "futex"}
Fair == ~Words
Owner == CASE kind = "tas" -> poll [] kind = "futex" -> poll \div 2 [] OTHER -> owner_id
---------------------------------------------------------------------------
(* The entry points, and the owner and depth they keep.                    *)

Entry == CASE kind = "tas" -> "tasRead" [] kind = "futex" -> "futexCas"
           [] kind = "ticket" -> "ticketTake" [] kind = "queuing" -> "queueSet"
           [] kind = "drdpa" -> "drdpaTake"
TestEntry == CASE kind = "tas" -> "tasTest" [] kind = "futex" -> "futexTest"
               [] kind = "ticket" -> "ticketTest" [] kind = "queuing" -> "queueTest"
               [] kind = "drdpa" -> "drdpaTest"

\* omp_set_lock and omp_test_lock of a thread that does not hold the lock. If the owner
\* field says that it does, a nestable lock is entered once more by mistake and a
\* checked one stops the program.
TakenForOwner(t) == Owner = t /\ (nestable \/ checked)

CallSet(t) ==
    /\ At(t, "idle") /\ left[t] > 0
    /\ left' = [left EXCEPT ![t] = @ - 1]
    /\ Go(t, IF TakenForOwner(t) THEN "mistaken" ELSE Entry)
    /\ line' = IF Words /\ ~TakenForOwner(t) THEN Append(line, t) ELSE line
    /\ UNCHANGED <<lock, local, nest, word, tickets, queue, area>>

CallTest(t) ==
    /\ At(t, "idle") /\ left[t] > 0 /\ kind \in Tests
    /\ left' = [left EXCEPT ![t] = @ - 1]
    /\ Go(t, IF nestable /\ TakenForOwner(t) THEN "mistaken" ELSE TestEntry)
    /\ UNCHANGED <<lock, local, nest, word, tickets, queue, area, line>>

\* The lock is taken: a nestable lock, or a checked one, notes its owner.
KeepsOwner == nestable \/ (checked /\ ~Words)

NoteOwner(t) ==
    /\ At(t, "got")
    /\ IF KeepsOwner
       THEN /\ owner_id' = IF Words THEN owner_id ELSE t
            /\ depth_locked' = IF nestable THEN 1 ELSE depth_locked
       ELSE UNCHANGED nest
    /\ Go(t, "held")
    /\ UNCHANGED <<lock, left, local, word, tickets, queue, area, line>>

\* The holder takes a nestable lock again, by omp_set_nest_lock or the test.
Again(t) ==
    /\ At(t, "held") /\ nestable /\ Owner = t /\ depth_locked < MaxDepth /\ left[t] > 0
    /\ left' = [left EXCEPT ![t] = @ - 1]
    /\ depth_locked' = depth_locked + 1
    /\ UNCHANGED <<lock, pc, local, owner_id, word, tickets, queue, area, line>>

Exit == CASE kind = "tas" -> "tasRelease" [] kind = "futex" -> "futexRelease"
          [] kind = "ticket" -> "ticketRelease" [] kind = "queuing" -> "releaseHead"
          [] kind = "drdpa" -> "drdpaRelease"

\* The depth at which a nestable lock is given back.
GivenBack(d) == d = 0

\* Mutant: a simple lock with checks keeps its last owner.
ClearsNested == nestable

ClearsOwner == KeepsOwner

\* omp_unset_lock: the checks, the depth, and the owner cleared before the lock.
CallUnset(t) ==
    /\ At(t, "held")
    /\ IF checked /\ Owner # t
       THEN Go(t, "mistaken") /\ UNCHANGED nest
       ELSE /\ depth_locked' = IF nestable THEN depth_locked - 1 ELSE depth_locked
            /\ IF nestable /\ ~GivenBack(depth_locked')
               THEN UNCHANGED <<pc, owner_id>>
               ELSE /\ owner_id' = IF ClearsOwner THEN 0 ELSE owner_id
                    /\ Go(t, Exit)
    /\ UNCHANGED <<lock, left, local, word, tickets, queue, area, line>>

Got(t) == Go(t, "got")
Idle(t) == /\ Go(t, "idle")
           /\ val' = Set(val, t, 0) /\ aux' = Set(aux, t, 0) /\ ticket' = Set(ticket, t, 0)
---------------------------------------------------------------------------
(* Test-and-set.                                                           *)

TasRead(t) ==
    /\ At(t, "tasRead") /\ poll = 0
    /\ Go(t, "tasCas")
    /\ UNCHANGED <<lock, left, local, nest, word, tickets, queue, area, line>>

CasFindsFree == poll = 0

TasCas(t) ==
    /\ At(t, "tasCas")
    /\ IF CasFindsFree THEN poll' = t /\ Got(t) /\ Served(t)
       ELSE Go(t, "tasRead") /\ UNCHANGED <<poll, line>>
    /\ UNCHANGED <<lock, left, local, nest, sleepers, waker, tickets, queue, area>>

TasTest(t) ==
    /\ At(t, "tasTest")
    /\ IF poll = 0 THEN poll' = t /\ Got(t) ELSE Go(t, "idle") /\ UNCHANGED poll
    /\ UNCHANGED <<lock, left, local, nest, sleepers, waker, tickets, queue, area, line>>

TasRelease(t) ==
    /\ At(t, "tasRelease")
    /\ poll' = 0
    /\ Go(t, "idle")
    /\ UNCHANGED <<lock, left, local, nest, sleepers, waker, tickets, queue, area, line>>
---------------------------------------------------------------------------
(* Futex: 2 gtid_code with bit 0 for "somebody may sleep".                 *)

FutexCas(t) ==
    /\ At(t, "futexCas")
    /\ IF poll = 0
       THEN /\ poll' = 2 * t + waker[t]
            /\ waker' = Set(waker, t, 0)
            /\ Got(t) /\ Served(t)
            /\ UNCHANGED val
       ELSE /\ val' = Set(val, t, poll)
            /\ Go(t, IF poll % 2 = 1 THEN "futexWait" ELSE "futexMark")
            /\ UNCHANGED <<poll, waker, line>>
    /\ UNCHANGED <<lock, left, aux, ticket, nest, sleepers, tickets, queue, area>>

FutexMark(t) ==
    /\ At(t, "futexMark")
    /\ IF poll = val[t]
       THEN /\ poll' = poll + 1 /\ val' = Set(val, t, poll + 1)
            /\ Go(t, "futexWait")
       ELSE Go(t, "futexCas") /\ UNCHANGED <<poll, val>>
    /\ UNCHANGED <<lock, left, aux, ticket, nest, sleepers, waker, tickets, queue, area,
                   line>>

\* The kernel puts the thread to sleep only if the word has not changed.
FutexWait(t) ==
    /\ At(t, "futexWait")
    /\ IF poll = val[t]
       THEN sleepers' = sleepers \cup {t} /\ Go(t, "futexSleep")
       ELSE Go(t, "futexCas") /\ UNCHANGED sleepers
    /\ UNCHANGED <<lock, left, local, nest, poll, waker, tickets, queue, area, line>>

\* Mutants: the bit is not kept; it is added instead of set.
AfterSleepNothing(t) == waker
AfterSleepAdds(t) == Set(waker, t, waker[t] + 1)

\* Woken, it must keep the bit: it does not know how many still sleep.
AfterSleep(t) == Set(waker, t, 1)

FutexWoken(t) ==
    /\ At(t, "futexSleep") /\ t \notin sleepers
    /\ waker' = AfterSleep(t)
    /\ Go(t, "futexCas")
    /\ UNCHANGED <<lock, left, local, nest, poll, sleepers, tickets, queue, area, line>>

\* A signal ends the wait with an error.
FutexSignal(t) ==
    /\ At(t, "futexSleep") /\ t \in sleepers
    /\ sleepers' = sleepers \ {t}
    /\ Go(t, "futexCas")
    /\ UNCHANGED <<lock, left, local, nest, poll, waker, tickets, queue, area, line>>

FutexTest(t) ==
    /\ At(t, "futexTest")
    /\ IF poll = 0 THEN poll' = 2 * t /\ Got(t) ELSE Go(t, "idle") /\ UNCHANGED poll
    /\ UNCHANGED <<lock, left, local, nest, sleepers, waker, tickets, queue, area, line>>

FutexRelease(t) ==
    /\ At(t, "futexRelease")
    /\ poll' = 0
    /\ IF poll % 2 = 1 THEN Go(t, "futexWake") /\ UNCHANGED local ELSE Idle(t)
    /\ UNCHANGED <<lock, left, nest, sleepers, waker, tickets, queue, area, line>>

FutexWake(t) ==
    /\ At(t, "futexWake")
    /\ \/ \E u \in sleepers : sleepers' = sleepers \ {u}
       \/ sleepers = {} /\ UNCHANGED sleepers
    /\ Idle(t)
    /\ UNCHANGED <<lock, left, nest, poll, waker, tickets, queue, area, line>>
---------------------------------------------------------------------------
(* Ticket.                                                                 *)

TicketTake(t) ==
    /\ At(t, "ticketTake")
    /\ ticket' = Set(ticket, t, next_ticket)
    /\ next_ticket' = next_ticket + 1
    /\ Joined(t)
    /\ Go(t, "ticketWait")
    /\ UNCHANGED <<lock, left, val, aux, nest, word, now_serving, queue, area>>

TicketWait(t) ==
    /\ At(t, "ticketWait") /\ now_serving = ticket[t]
    /\ Got(t) /\ Served(t)
    /\ UNCHANGED <<lock, left, local, nest, word, tickets, queue, area>>

TicketTest(t) ==
    /\ At(t, "ticketTest")
    /\ ticket' = Set(ticket, t, next_ticket)
    /\ Go(t, "ticketTestServing")
    /\ UNCHANGED <<lock, left, val, aux, nest, word, tickets, queue, area, line>>

\* Mutant: the test looks at the next ticket only.
ServedAnyway(t) == TRUE

ServedNow(t) == now_serving = ticket[t]

TicketTestServing(t) ==
    /\ At(t, "ticketTestServing")
    /\ IF ServedNow(t) THEN Go(t, "ticketTestCas") /\ UNCHANGED local
       ELSE Idle(t)
    /\ UNCHANGED <<lock, left, nest, word, tickets, queue, area, line>>

TicketTestCas(t) ==
    /\ At(t, "ticketTestCas")
    /\ IF next_ticket = ticket[t]
       THEN next_ticket' = next_ticket + 1 /\ Got(t) /\ UNCHANGED local
       ELSE Idle(t) /\ UNCHANGED next_ticket
    /\ UNCHANGED <<lock, left, nest, word, now_serving, queue, area, line>>

TicketRelease(t) ==
    /\ At(t, "ticketRelease")
    /\ now_serving' = now_serving + 1
    /\ Idle(t)
    /\ UNCHANGED <<lock, left, nest, word, next_ticket, queue, area, line>>
---------------------------------------------------------------------------
(* Queuing: (head, tail) is (0,0) free, (-1,0) held, or the line's ends.   *)

QueueSet(t) ==
    /\ At(t, "queueSet")
    /\ spin_here' = Set(spin_here, t, TRUE)
    /\ Go(t, "queueHead")
    /\ UNCHANGED <<lock, left, local, nest, word, tickets, head_id, tail_id, next_waiting,
                   area, line>>

QueueHead(t) ==
    /\ At(t, "queueHead")
    /\ Go(t, IF head_id = -1 THEN "queueFirst"
             ELSE IF head_id = 0 THEN "queueGrab" ELSE "queueTail")
    /\ UNCHANGED <<lock, left, local, nest, word, tickets, queue, area, line>>

\* (-1,0) -> (t,t)
QueueFirst(t) ==
    /\ At(t, "queueFirst")
    /\ IF head_id = -1 /\ tail_id = 0
       THEN head_id' = t /\ tail_id' = t /\ Joined(t) /\ Go(t, "queueSpin")
       ELSE Go(t, "queueHead") /\ UNCHANGED <<head_id, tail_id, line>>
    /\ UNCHANGED <<lock, left, local, nest, word, tickets, next_waiting, spin_here, area>>

\* (0,0) -> (-1,0)
QueueGrab(t) ==
    /\ At(t, "queueGrab")
    /\ IF head_id = 0
       THEN head_id' = -1 /\ spin_here' = Set(spin_here, t, FALSE) /\ Got(t)
       ELSE Go(t, "queueHead") /\ UNCHANGED <<head_id, spin_here>>
    /\ UNCHANGED <<lock, left, local, nest, word, tickets, tail_id, next_waiting, area, line>>

QueueTail(t) ==
    /\ At(t, "queueTail")
    /\ aux' = Set(aux, t, tail_id)
    /\ Go(t, IF tail_id = 0 THEN "queueHead" ELSE "queueJoin")
    /\ UNCHANGED <<lock, left, val, ticket, nest, word, tickets, queue, area, line>>

\* (h,u) -> (h,t)
QueueJoin(t) ==
    /\ At(t, "queueJoin")
    /\ IF tail_id = aux[t]
       THEN tail_id' = t /\ Joined(t) /\ Go(t, "queueLink")
       ELSE Go(t, "queueHead") /\ UNCHANGED <<tail_id, line>>
    /\ UNCHANGED <<lock, left, local, nest, word, tickets, head_id, next_waiting, spin_here,
                   area>>

QueueLink(t) ==
    /\ At(t, "queueLink")
    /\ next_waiting' = Set(next_waiting, aux[t], t)
    /\ Go(t, "queueSpin")
    /\ UNCHANGED <<lock, left, local, nest, word, tickets, head_id, tail_id, spin_here, area,
                   line>>

QueueSpin(t) ==
    /\ At(t, "queueSpin") /\ ~spin_here[t]
    /\ Got(t) /\ Served(t)
    /\ UNCHANGED <<lock, left, local, nest, word, tickets, queue, area>>

QueueTest(t) ==
    /\ At(t, "queueTest")
    /\ Go(t, IF head_id = 0 THEN "queueTestCas" ELSE "idle")
    /\ UNCHANGED <<lock, left, local, nest, word, tickets, queue, area, line>>

QueueTestCas(t) ==
    /\ At(t, "queueTestCas")
    /\ IF head_id = 0 THEN head_id' = -1 /\ Got(t) ELSE Go(t, "idle") /\ UNCHANGED head_id
    /\ UNCHANGED <<lock, left, local, nest, word, tickets, tail_id, next_waiting, spin_here,
                   area, line>>

ReleaseHead(t) ==
    /\ At(t, "releaseHead")
    /\ val' = Set(val, t, head_id)
    /\ Go(t, IF head_id = -1 THEN "releaseFree" ELSE "releaseTail")
    /\ UNCHANGED <<lock, left, aux, ticket, nest, word, tickets, queue, area, line>>

\* (-1,0) -> (0,0)
ReleaseFree(t) ==
    /\ At(t, "releaseFree")
    /\ IF head_id = -1 THEN head_id' = 0 /\ Idle(t)
       ELSE Go(t, "releaseHead") /\ UNCHANGED <<head_id, local>>
    /\ UNCHANGED <<lock, left, nest, word, tickets, tail_id, next_waiting, spin_here, area,
                   line>>

ReleaseTail(t) ==
    /\ At(t, "releaseTail")
    /\ Go(t, IF val[t] = tail_id THEN "releaseLast" ELSE "releaseNext")
    /\ UNCHANGED <<lock, left, local, nest, word, tickets, queue, area, line>>

\* (h,h) -> (-1,0)
ReleaseLast(t) ==
    /\ At(t, "releaseLast")
    /\ IF head_id = val[t] /\ tail_id = val[t]
       THEN head_id' = -1 /\ tail_id' = 0 /\ Go(t, "releaseUnlink")
       ELSE Go(t, "releaseHead") /\ UNCHANGED <<head_id, tail_id>>
    /\ UNCHANGED <<lock, left, local, nest, word, tickets, next_waiting, spin_here, area, line>>

\* (h,u) -> (h',u): the thread behind h may not have linked itself yet.
Linked(h) == next_waiting[h] # 0

ReleaseNext(t) ==
    /\ At(t, "releaseNext") /\ Linked(val[t])
    /\ head_id' = next_waiting[val[t]]
    /\ Go(t, "releaseUnlink")
    /\ UNCHANGED <<lock, left, local, nest, word, tickets, tail_id, next_waiting, spin_here,
                   area, line>>

Unlinked(h) == Set(next_waiting, h, 0)

ReleaseUnlink(t) ==
    /\ At(t, "releaseUnlink")
    /\ next_waiting' = Unlinked(val[t])
    /\ Go(t, "releaseWake")
    /\ UNCHANGED <<lock, left, local, nest, word, tickets, head_id, tail_id, spin_here, area,
                   line>>

ReleaseWake(t) ==
    /\ At(t, "releaseWake")
    /\ spin_here' = Set(spin_here, val[t], FALSE)
    /\ Idle(t)
    /\ UNCHANGED <<lock, left, nest, word, tickets, head_id, tail_id, next_waiting, area, line>>
---------------------------------------------------------------------------
(* DRDPA: a ticket lock that polls one of several words; the polling area  *)
(* grows with the number of waiting threads and shrinks when the process   *)
(* is oversubscribed.                                                      *)

DrdpaTake(t) ==
    /\ At(t, "drdpaTake")
    /\ ticket' = Set(ticket, t, next_ticket)
    /\ next_ticket' = next_ticket + 1
    /\ Joined(t)
    /\ Go(t, "drdpaMask")
    /\ UNCHANGED <<lock, left, val, aux, nest, word, now_serving, queue, area>>

DrdpaMask(t) ==
    /\ At(t, "drdpaMask")
    /\ aux' = Set(aux, t, mask)
    /\ Go(t, "drdpaPolls")
    /\ UNCHANGED <<lock, left, val, ticket, nest, word, tickets, queue, area, line>>

DrdpaPolls(t) ==
    /\ At(t, "drdpaPolls")
    /\ val' = Set(val, t, polls)
    /\ Go(t, "drdpaSpin")
    /\ UNCHANGED <<lock, left, aux, ticket, nest, word, tickets, queue, area, line>>

Index(t) == ticket[t] % (aux[t] + 1)       \* ticket & mask
InArea(t) == val[t] \notin freed /\ Index(t) \in DOMAIN areas[val[t]]

\* A read outside the area may return anything.
Reached(t) == ~InArea(t) \/ areas[val[t]][Index(t)] >= ticket[t]
NotReached(t) == ~InArea(t) \/ areas[val[t]][Index(t)] < ticket[t]

DrdpaSpin(t) ==
    /\ At(t, "drdpaSpin")
    /\ \/ Reached(t) /\ Go(t, "drdpaServe") /\ Served(t)
       \/ NotReached(t) /\ Go(t, "drdpaMask") /\ UNCHANGED line
    /\ UNCHANGED <<lock, left, local, nest, word, tickets, queue, area>>

CanFree(t) == old_polls # 0 /\ ticket[t] >= cleanup_ticket

DrdpaServe(t) ==
    /\ At(t, "drdpaServe")
    /\ now_serving' = ticket[t]
    /\ IF CanFree(t)
       THEN freed' = freed \cup {old_polls} /\ old_polls' = 0 /\ cleanup_ticket' = 0
       ELSE UNCHANGED <<freed, old_polls, cleanup_ticket>>
    /\ Go(t, "drdpaGrow")
    /\ UNCHANGED <<lock, left, local, nest, word, next_ticket, queue, areas, polls, mask, line>>

NumPolls == Cardinality(DOMAIN areas[polls])
Waiting(t) == next_ticket - ticket[t] - 1

\* Twice the size until it exceeds the number of waiting threads.
Grown(n, w) == CHOOSE k \in {n * 2 ^ i : i \in 1 .. NThreads} :
                   k > w /\ \A j \in {n * 2 ^ i : i \in 1 .. NThreads} : j > w => k <= j

NewArea(t, over) ==
    IF over THEN [i \in {0} |-> ticket[t]]
    ELSE [i \in 0 .. Grown(NumPolls, Waiting(t)) - 1 |->
             IF i < NumPolls THEN areas[val[t]][i] ELSE 0]

DrdpaGrow(t) ==
    /\ At(t, "drdpaGrow")
    /\ \E over \in Oversubscribed :
          IF old_polls = 0 /\ (IF over THEN NumPolls > 1 ELSE Waiting(t) > NumPolls)
          THEN /\ areas' = Append(areas, NewArea(t, over))
               /\ aux' = Set(aux, t, Cardinality(DOMAIN NewArea(t, over)) - 1)
               /\ Go(t, "drdpaNewPolls")
          ELSE Got(t) /\ UNCHANGED <<areas, aux>>
    /\ UNCHANGED <<lock, left, val, ticket, nest, word, tickets, queue, freed, polls, mask,
                   old_polls, cleanup_ticket, line>>

DrdpaNewPolls(t) ==
    /\ At(t, "drdpaNewPolls")
    /\ old_polls' = val[t] /\ polls' = Len(areas)
    /\ Go(t, "drdpaNewMask")
    /\ UNCHANGED <<lock, left, local, nest, word, tickets, queue, areas, freed, mask,
                   cleanup_ticket, line>>

DrdpaNewMask(t) ==
    /\ At(t, "drdpaNewMask")
    /\ mask' = aux[t]
    /\ Go(t, "drdpaCleanup")
    /\ UNCHANGED <<lock, left, local, nest, word, tickets, queue, areas, freed, polls,
                   old_polls, cleanup_ticket, line>>

\* Mutant: the next holder frees the area although later threads still poll it.
CleanupNext(t) == ticket[t] + 1

CleanupAt(t) == next_ticket

DrdpaCleanup(t) ==
    /\ At(t, "drdpaCleanup")
    /\ cleanup_ticket' = CleanupAt(t)
    /\ Got(t)
    /\ UNCHANGED <<lock, left, local, nest, word, tickets, queue, areas, freed, polls, mask,
                   old_polls, line>>

\* omp_test_lock reads the pointer before the mask.
DrdpaTest(t) ==
    /\ At(t, "drdpaTest")
    /\ ticket' = Set(ticket, t, next_ticket)
    /\ Go(t, "drdpaTestPolls")
    /\ UNCHANGED <<lock, left, val, aux, nest, word, tickets, queue, area, line>>

DrdpaTestPolls(t) ==
    /\ At(t, "drdpaTestPolls")
    /\ val' = Set(val, t, polls)
    /\ Go(t, "drdpaTestMask")
    /\ UNCHANGED <<lock, left, aux, ticket, nest, word, tickets, queue, area, line>>

DrdpaTestMask(t) ==
    /\ At(t, "drdpaTestMask")
    /\ aux' = Set(aux, t, mask)
    /\ Go(t, "drdpaTestRead")
    /\ UNCHANGED <<lock, left, val, ticket, nest, word, tickets, queue, area, line>>

DrdpaTestRead(t) ==
    /\ At(t, "drdpaTestRead")
    /\ \/ /\ ~InArea(t) \/ areas[val[t]][Index(t)] = ticket[t]
          /\ Go(t, "drdpaTestCas") /\ UNCHANGED local
       \/ /\ ~InArea(t) \/ areas[val[t]][Index(t)] # ticket[t]
          /\ Idle(t)
    /\ UNCHANGED <<lock, left, nest, word, tickets, queue, area, line>>

DrdpaTestCas(t) ==
    /\ At(t, "drdpaTestCas")
    /\ IF next_ticket = ticket[t]
       THEN next_ticket' = next_ticket + 1 /\ Go(t, "drdpaTestServe") /\ UNCHANGED local
       ELSE Idle(t) /\ UNCHANGED next_ticket
    /\ UNCHANGED <<lock, left, nest, word, now_serving, queue, area, line>>

DrdpaTestServe(t) ==
    /\ At(t, "drdpaTestServe")
    /\ now_serving' = ticket[t]
    /\ Got(t)
    /\ UNCHANGED <<lock, left, local, nest, word, next_ticket, queue, area, line>>

\* The holder is the only one that changes what it reads here.
DrdpaRelease(t) ==
    /\ At(t, "drdpaRelease")
    /\ areas' = [areas EXCEPT ![polls][(now_serving + 1) % (mask + 1)] = now_serving + 1]
    /\ Idle(t)
    /\ UNCHANGED <<lock, left, nest, word, tickets, queue, freed, polls, mask, old_polls,
                   cleanup_ticket, line>>
---------------------------------------------------------------------------
ThreadStep(t) ==
    \/ CallSet(t) \/ CallTest(t) \/ NoteOwner(t) \/ Again(t) \/ CallUnset(t)
    \/ TasRead(t) \/ TasCas(t) \/ TasTest(t) \/ TasRelease(t)
    \/ FutexCas(t) \/ FutexMark(t) \/ FutexWait(t) \/ FutexWoken(t)
    \/ FutexTest(t) \/ FutexRelease(t) \/ FutexWake(t)
    \/ TicketTake(t) \/ TicketWait(t) \/ TicketTest(t) \/ TicketTestServing(t)
    \/ TicketTestCas(t) \/ TicketRelease(t)
    \/ QueueSet(t) \/ QueueHead(t) \/ QueueFirst(t) \/ QueueGrab(t) \/ QueueTail(t)
    \/ QueueJoin(t) \/ QueueLink(t) \/ QueueSpin(t) \/ QueueTest(t) \/ QueueTestCas(t)
    \/ ReleaseHead(t) \/ ReleaseFree(t) \/ ReleaseTail(t) \/ ReleaseLast(t)
    \/ ReleaseNext(t) \/ ReleaseUnlink(t) \/ ReleaseWake(t)
    \/ DrdpaTake(t) \/ DrdpaMask(t) \/ DrdpaPolls(t) \/ DrdpaSpin(t) \/ DrdpaServe(t)
    \/ DrdpaGrow(t) \/ DrdpaNewPolls(t) \/ DrdpaNewMask(t) \/ DrdpaCleanup(t)
    \/ DrdpaTest(t) \/ DrdpaTestPolls(t) \/ DrdpaTestMask(t) \/ DrdpaTestRead(t)
    \/ DrdpaTestCas(t) \/ DrdpaTestServe(t) \/ DrdpaRelease(t)

Done == \A t \in Threads : At(t, "idle") /\ left[t] = 0

Next == (\E t \in Threads : ThreadStep(t) \/ FutexSignal(t))
        \/ (Done /\ UNCHANGED vars)

Spec == Init /\ [][Next]_vars

\* A running thread keeps running and gives the lock back in the end.
FairSpec ==
    /\ Spec
    /\ \A t \in Threads : WF_vars(ThreadStep(t))
---------------------------------------------------------------------------
Inside(t) == pc[t] \in {"got", "held", "drdpaServe", "drdpaGrow", "drdpaNewPolls",
                        "drdpaNewMask", "drdpaCleanup", "drdpaTestServe"}
Holders == {t \in Threads : Inside(t)}

\* The lock's words, the owner and the depth are well typed.
TypeOK ==
    /\ kind \in Kinds /\ nestable \in BOOLEAN /\ checked \in BOOLEAN
    /\ \A t \in Threads : left[t] \in 0 .. Rounds[t]
    /\ val \in [Threads -> Int] /\ aux \in [Threads -> Int] /\ ticket \in [Threads -> Nat]
    /\ owner_id \in Threads \cup {0} /\ depth_locked \in 0 .. MaxDepth
    /\ poll \in 0 .. 2 * NThreads + 1 /\ sleepers \subseteq Threads
    /\ waker \in [Threads -> {0, 1}]
    /\ next_ticket \in Nat /\ now_serving \in Nat
    /\ head_id \in Threads \cup {-1, 0} /\ tail_id \in Threads \cup {0}
    /\ next_waiting \in [Threads -> Threads \cup {0}]
    /\ spin_here \in [Threads -> BOOLEAN]
    /\ polls \in DOMAIN areas /\ old_polls \in 0 .. Len(areas) /\ mask \in Nat
    /\ cleanup_ticket \in Nat
    /\ \A i \in DOMAIN line : line[i] \in Threads

\* The owner field, read without holding the lock, never makes a thread take itself
\* for the owner: the checks do not stop a program that uses its lock correctly, and
\* no nestable lock is entered by a thread that does not hold it.
NeverMistaken == \A t \in Threads : ~At(t, "mistaken")

\* No thread reads the words it polls in an area that has been freed or is too small.
PollsInArea ==
    \A t \in Threads : pc[t] \in {"drdpaSpin", "drdpaTestRead"} => InArea(t)

Promise == INSTANCE LockPromise WITH
    Nobody <- 0, fair <- Fair,
    holder <- IF Holders = {} THEN 0 ELSE CHOOSE t \in Holders : TRUE

\* Every kind keeps the promise of a lock, the ticket, queuing and DRDPA locks in the
\* order in which the threads have joined.
ImplementsLock == Promise!Spec

\* Every thread gets the lock as often as it asks for it.
AllServed == <>Done
=============================================================================
