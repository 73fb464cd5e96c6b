--------------------------- MODULE PromisingQueue ---------------------------
(***************************************************************************)
(* The priority queue of carving candidates that the threads of a recovery *)
(* share: a growing array kept as a binary heap, with the smallest         *)
(* priority on top, under a mutex.  Every operation is one action but      *)
(* dequeue, which may wait on not_empty in between.                        *)
(*                                                                         *)
(* The array holds pointers, and the priority is in what they point to: a  *)
(* candidate is enqueued by the thread that holds it, and only then.       *)
(***************************************************************************)
EXTENDS Naturals, Sequences

CONSTANTS
  Threads,
  Candidates,    \* CarveStates, told apart by uuid
  Priorities,
  InitialCap     \* initial_capacity

ASSUME QueueParameters ==
  /\ Threads \cap {"queue", "removed"} = {}
  /\ Priorities \subseteq Nat
  /\ InitialCap \in Nat \ {0}

VARIABLES
  entries,    \* the heap; element i here is entries[i - 1] in the code
  capacity,
  shutdown,
  priority,   \* CarveState.priority
  place,      \* who has each candidate: a thread, the queue, or nobody any more
  pc,         \* a thread is out of the queue, in dequeue or waits in it
  freed

qvars == <<entries, capacity, shutdown, priority, place, pc, freed>>

Queued == {entries[i] : i \in 1 .. Len(entries)}

TypeOK ==
  /\ entries \in Seq(Candidates)
  /\ capacity \in Nat
  /\ Len(entries) <= capacity
  /\ shutdown \in BOOLEAN
  /\ priority \in [Candidates -> Priorities]
  /\ place \in [Candidates -> Threads \cup {"queue", "removed"}]
  /\ pc \in [Threads -> {"out", "dequeue", "not_empty"}]
  /\ freed \in BOOLEAN

-----------------------------------------------------------------------------
(* The heap. *)

Swap(h, i, j) == [h EXCEPT ![i] = h[j], ![j] = h[i]]

\* A heap and an index in it: what a loop goes on from.
Positions == Seq(Candidates) \X (Nat \ {0})

\* index is in the array.
HeapifyUp(prio, heap, index) ==
  LET up[p \in Positions] ==
        LET h == p[1]  i == p[2]  parent == i \div 2 IN
        IF i \in 2 .. Len(h) /\ prio[h[i]] < prio[h[parent]]
          THEN up[<<Swap(h, i, parent), parent>>]
          ELSE h
  IN  up[<<heap, index>>]

\* Of two indexes, j if it is in the heap and its candidate precedes i's.
Smaller(prio, h, i, j) == IF j <= Len(h) /\ prio[h[j]] < prio[h[i]] THEN j ELSE i

HeapifyDown(prio, heap, index) ==
  LET down[p \in Positions] ==
        LET h == p[1]  i == p[2]
            smallest == Smaller(prio, h, Smaller(prio, h, i, 2 * i), 2 * i + 1)
        IN  IF smallest # i THEN down[<<Swap(h, i, smallest), smallest>>] ELSE h
  IN  down[<<heap, index>>]

\* The element at index is replaced by the last one, which moves.
Without(h, index) ==
  LET front == SubSeq(h, 1, Len(h) - 1) IN
  IF index < Len(h) THEN [front EXCEPT ![index] = h[Len(h)]] ELSE front

\* Mutant of RemoveAt: what moved to index may belong further up.
RemoveAtDown(prio, h, index) ==
  IF index < Len(h) THEN HeapifyDown(prio, Without(h, index), index) ELSE Without(h, index)

\* promising_queue_remove's repair of the heap.
RemoveAt(prio, h, index) ==
  IF index < Len(h)
    THEN HeapifyUp(prio, HeapifyDown(prio, Without(h, index), index), index)
    ELSE Without(h, index)

\* The index of candidate c, which is in the heap.
IndexOf(c) == CHOOSE i \in 1 .. Len(entries) : entries[i] = c

-----------------------------------------------------------------------------
(* The operations. *)

Woken(t) == [pc EXCEPT ![t] = "dequeue"]

\* pthread_cond_signal: one waiting thread, if there is one, tests again.
Signalled ==
  LET waiting == {t \in Threads : pc[t] = "not_empty"} IN
  IF waiting = {} THEN {pc} ELSE {Woken(t) : t \in waiting}

SpuriousWakeup(t) ==
  /\ ~ freed
  /\ pc[t] = "not_empty"
  /\ pc' = Woken(t)
  /\ UNCHANGED <<entries, capacity, shutdown, priority, place, freed>>

\* A thread may call.
Idle(t) == pc[t] = "out" /\ ~ freed

\* promising_queue_enqueue and _requeue.  A queue that is shut down refuses
\* the candidate, and so does one that cannot grow: nothing changes then.
Enqueue(t, c) ==
  /\ Idle(t)
  /\ place[c] = t
  /\ ~ shutdown
  /\ capacity' = IF Len(entries) = capacity THEN capacity * 2 ELSE capacity
  /\ entries' = HeapifyUp(priority, Append(entries, c), Len(entries) + 1)
  /\ place' = [place EXCEPT ![c] = "queue"]
  /\ pc' \in Signalled
  /\ UNCHANGED <<shutdown, priority, freed>>

CallDequeue(t) ==
  /\ Idle(t)
  /\ pc' = [pc EXCEPT ![t] = "dequeue"]
  /\ UNCHANGED <<entries, capacity, shutdown, priority, place, freed>>

\* Nothing to take: wait, or return ERASECURE_ERROR_NOT_FOUND on shutdown.
DequeueNothing(t) ==
  /\ pc[t] = "dequeue"
  /\ ~ freed
  /\ entries = <<>>
  /\ pc' = [pc EXCEPT ![t] = IF shutdown THEN "out" ELSE "not_empty"]
  /\ UNCHANGED <<entries, capacity, shutdown, priority, place, freed>>

\* Mutant of DequeueFirst: the last element is left on top.
DequeueUnrepaired(t) ==
  /\ pc[t] = "dequeue"
  /\ ~ freed
  /\ entries # <<>>
  /\ entries' = Without(entries, 1)
  /\ place' = [place EXCEPT ![entries[1]] = t]
  /\ pc' = [pc EXCEPT ![t] = "out"]
  /\ UNCHANGED <<capacity, shutdown, priority, freed>>

DequeueFirst(t) ==
  /\ pc[t] = "dequeue"
  /\ ~ freed
  /\ entries # <<>>
  /\ entries' = HeapifyDown(priority, Without(entries, 1), 1)
  /\ place' = [place EXCEPT ![entries[1]] = t]
  /\ pc' = [pc EXCEPT ![t] = "out"]
  /\ UNCHANGED <<capacity, shutdown, priority, freed>>

\* promising_queue_remove and _kill of a candidate that is in the queue; of
\* another they change nothing.
Remove(t, c) ==
  /\ Idle(t)
  /\ c \in Queued
  /\ entries' = RemoveAt(priority, entries, IndexOf(c))
  /\ place' = [place EXCEPT ![c] = "removed"]
  /\ UNCHANGED <<capacity, shutdown, priority, pc, freed>>

UpdatePriority(t, c, p) ==
  /\ Idle(t)
  /\ c \in Queued
  /\ priority' = [priority EXCEPT ![c] = p]
  /\ entries' = LET i == IndexOf(c) IN
                HeapifyUp(priority', HeapifyDown(priority', entries, i), i)
  /\ UNCHANGED <<capacity, shutdown, place, pc, freed>>

\* Mutant of Shutdown: one waiting thread is woken, not all.
ShutdownSignals(t) ==
  /\ Idle(t)
  /\ shutdown' = TRUE
  /\ pc' \in Signalled
  /\ UNCHANGED <<entries, capacity, priority, place, freed>>

Released == [t \in Threads |-> IF pc[t] = "not_empty" THEN "dequeue" ELSE pc[t]]

Shutdown(t) ==
  /\ Idle(t)
  /\ shutdown' = TRUE
  /\ pc' = Released
  /\ UNCHANGED <<entries, capacity, priority, place, freed>>

\* promising_queue_destroy: shut down, release the waiting threads and free
\* the array in one go.  It waits for no thread, so the owner may call it only
\* when none is inside.
Destroy ==
  /\ ~ freed
  /\ \A t \in Threads : pc[t] = "out"
  /\ shutdown' = TRUE
  /\ pc' = Released
  /\ entries' = <<>>
  /\ freed' = TRUE
  /\ UNCHANGED <<capacity, priority, place>>

\* A thread changes the priority of a candidate it holds.
SetPriority(t, c, p) ==
  /\ place[c] = t
  /\ priority' = [priority EXCEPT ![c] = p]
  /\ UNCHANGED <<entries, capacity, shutdown, place, pc, freed>>

-----------------------------------------------------------------------------
Init ==
  /\ entries = <<>>
  /\ capacity = InitialCap
  /\ shutdown = FALSE
  /\ priority \in [Candidates -> Priorities]
  /\ place \in [Candidates -> Threads]
  /\ pc = [t \in Threads |-> "out"]
  /\ freed = FALSE

Dequeue(t) == DequeueNothing(t) \/ DequeueFirst(t)

Next ==
  \/ \E t \in Threads :
       \/ CallDequeue(t) \/ Dequeue(t) \/ SpuriousWakeup(t) \/ Shutdown(t)
       \/ \E c \in Candidates : Enqueue(t, c) \/ Remove(t, c)
       \/ \E c \in Candidates, p \in Priorities : UpdatePriority(t, c, p) \/ SetPriority(t, c, p)
  \/ Destroy

Spec == Init /\ [][Next]_qvars

\* A thread that need not wait gets the mutex in time.
FairSpec == Spec /\ \A t \in Threads : WF_qvars(Dequeue(t))

-----------------------------------------------------------------------------
(* What the queue must guarantee. *)

\* The array is a heap for the priorities the candidates have now, and holds
\* each of the candidates that were put into it once.
HeapOrdered ==
  /\ TypeOK
  /\ \A i \in 2 .. Len(entries) : priority[entries[i \div 2]] <= priority[entries[i]]
  /\ \A i, j \in 1 .. Len(entries) : entries[i] = entries[j] => i = j
  /\ ~ freed => Queued = {c \in Candidates : place[c] = "queue"}

\* promising_queue_dequeue hands out a candidate that no other in the queue
\* precedes, whatever was enqueued, removed or given another priority before.
MostUrgentFirst ==
  [][\A c \in Queued :
       place'[c] \in Threads => \A d \in Queued : priority[c] <= priority[d]]_qvars

\* No wakeup is lost: a thread does not sit in dequeue beside a candidate, nor
\* in a queue that was shut down.
DequeueReturns ==
  \A t \in Threads :
    /\ (pc[t] # "out" /\ entries # <<>>) ~> (pc[t] = "out" \/ entries = <<>>)
    /\ (pc[t] # "out" /\ shutdown) ~> (pc[t] = "out")
=============================================================================
