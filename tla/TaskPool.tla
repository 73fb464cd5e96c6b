------------------------------ MODULE TaskPool ------------------------------
(***************************************************************************)
(* What worker_pool.h promises, without threads, locks or a ring: tasks    *)
(* are taken first in, first out, each is run once, a client that waits    *)
(* for idle stays until all it had submitted has run, and a pool that is   *)
(* destroyed has nothing left to do.                                       *)
(***************************************************************************)
EXTENDS Naturals, Sequences

CONSTANTS Tasks, Clients

VARIABLES
  capacity,   \* max_queue_size
  pending,    \* the sequence of accepted tasks that are yet to be run
  running,
  finished,
  owed,       \* for a client, what has to run before its wait_idle may return
  phase       \* of the pool

tvars == <<capacity, pending, running, finished, owed, phase>>

Queued == {pending[i] : i \in 1 .. Len(pending)}

Init ==
  /\ capacity \in Nat \ {0}
  /\ pending = <<>>
  /\ running = {}
  /\ finished = {}
  /\ owed = [c \in Clients |-> {}]
  /\ phase = "open"

Accept(x) ==
  /\ phase = "open"
  /\ x \notin Queued \cup running \cup finished
  /\ Len(pending) < capacity
  /\ pending' = Append(pending, x)
  /\ UNCHANGED <<capacity, running, finished, owed, phase>>

Take ==
  /\ phase # "freed"
  /\ pending # <<>>
  /\ pending' = Tail(pending)
  /\ running' = running \cup {Head(pending)}
  /\ UNCHANGED <<capacity, finished, owed, phase>>

Finish(x) ==
  /\ x \in running
  /\ running' = running \ {x}
  /\ finished' = finished \cup {x}
  /\ UNCHANGED <<capacity, pending, owed, phase>>

StartWaiting(c) ==
  /\ phase = "open"
  /\ owed' = [owed EXCEPT ![c] = Queued \cup running]
  /\ UNCHANGED <<capacity, pending, running, finished, phase>>

StopWaiting(c) ==
  /\ owed[c] \subseteq finished
  /\ owed' = [owed EXCEPT ![c] = {}]
  /\ UNCHANGED <<capacity, pending, running, finished, phase>>

Close ==
  /\ phase = "open"
  /\ phase' = "joining"
  /\ UNCHANGED <<capacity, pending, running, finished, owed>>

Free ==
  /\ phase = "joining"
  /\ pending = <<>>
  /\ running = {}
  /\ phase' = "freed"
  /\ UNCHANGED <<capacity, pending, running, finished, owed>>

Next ==
  \/ \E x \in Tasks : Accept(x) \/ Finish(x)
  \/ \E c \in Clients : StartWaiting(c) \/ StopWaiting(c)
  \/ Take \/ Close \/ Free

Spec == Init /\ [][Next]_tvars
=============================================================================
