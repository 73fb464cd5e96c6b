----------------------------- MODULE WorkerPool -----------------------------
(***************************************************************************)
(* The thread pool of the recovery engine: worker_pool_create, _submit,    *)
(* _wait_idle, _destroy and the loop of its threads.                       *)
(*                                                                         *)
(* All of the pool's state is accessed with its mutex held, so the code    *)
(* from taking the mutex to releasing it, or to waiting on a condition, is *)
(* one action.  A thread that waits on a condition has the condition's     *)
(* name for its pc; a signal, or nothing at all (POSIX allows a wakeup     *)
(* without a signal), sends it back to the test of its while loop.         *)
(***************************************************************************)
EXTENDS Naturals, Sequences, FiniteSets

CONSTANTS
  Workers,     \* the pool's threads
  Clients,     \* other threads that use the pool
  Waiters,     \* the clients that call worker_pool_wait_idle
  Tasks,       \* calls of a task function, each submitted at most once
  Spawners,    \* tasks that submit tasks to the pool themselves
  QueueSizes,  \* the values of max_queue_size
  NoTask

ASSUME PoolParameters ==
  /\ IsFiniteSet(Workers) /\ Workers # {}
  /\ Workers \cap Clients = {}
  /\ Waiters \subseteq Clients
  /\ Spawners \subseteq Tasks
  /\ QueueSizes \subseteq Nat \ {0}
  /\ NoTask \notin Tasks

Threads == Workers \cup Clients

VARIABLES
  queue, queue_size, head, tail, count,   \* the ring of tasks
  shutdown,
  active_tasks,
  pc,         \* where each thread is
  task,       \* the task a worker runs
  arg,        \* the task a thread is submitting
  phase,      \* what the owner of the pool is at: using, destroying or rid of it
  offered,    \* the tasks that were ever submitted
  finished,   \* the tasks that were run
  owed        \* for a client in wait_idle, what was unfinished when it called

ring == <<queue, queue_size, head, tail, count>>
pvars == <<ring, shutdown, active_tasks, pc, task, arg, phase, offered, finished, owed>>

Conditions == {"not_empty", "not_full", "is_idle"}

TypeOK ==
  /\ queue_size \in QueueSizes
  /\ queue \in [0 .. queue_size - 1 -> Tasks \cup {NoTask}]
  /\ head \in 0 .. queue_size - 1
  /\ tail \in 0 .. queue_size - 1
  /\ count \in 0 .. queue_size
  /\ shutdown \in BOOLEAN
  /\ active_tasks \in Nat
  /\ pc \in [Threads -> {"fetch", "task", "finish", "exit", "out", "submit", "wait_idle", "left"}
                          \cup Conditions]
  /\ task \in [Workers -> Tasks \cup {NoTask}]
  /\ arg \in [Threads -> Tasks \cup {NoTask}]
  /\ phase \in {"open", "joining", "freed"}
  /\ offered \subseteq Tasks
  /\ finished \subseteq Tasks
  /\ owed \in [Clients -> SUBSET Tasks]

-----------------------------------------------------------------------------
(* pthread condition variables. *)

\* Where a thread that waits on a condition goes when woken: to its test.
Test(cond) ==
  CASE cond = "not_empty" -> "fetch"
    [] cond = "not_full"  -> "submit"
    [] cond = "is_idle"   -> "wait_idle"

Waiting(p, cond) == {t \in Threads : p[t] = cond}

\* What pthread_cond_signal makes of the program counters p: one of the
\* waiting threads is woken, if there is one.
Signal(p, cond) ==
  IF Waiting(p, cond) = {}
    THEN {p}
    ELSE {[p EXCEPT ![t] = Test(cond)] : t \in Waiting(p, cond)}

Broadcast(p, cond) ==
  [t \in Threads |-> IF p[t] = cond THEN Test(cond) ELSE p[t]]

SpuriousWakeup(t) ==
  /\ pc[t] \in Conditions
  /\ pc' = [pc EXCEPT ![t] = Test(pc[t])]
  /\ UNCHANGED <<ring, shutdown, active_tasks, task, arg, phase, offered, finished, owed>>

-----------------------------------------------------------------------------
(* The pool's threads. *)

\* The tasks in the ring, in the order they will be run.
Pending == [i \in 1 .. count |-> queue[(head + i - 1) % queue_size]]

\* The tasks that are being run.
Running == {task[w] : w \in {v \in Workers : pc[v] \in {"task", "submit", "not_full"}}}

Unfinished == {Pending[i] : i \in 1 .. count} \cup Running

\* Mutant of FetchTask: the task is not counted as active before the mutex is
\* released.
FetchUncounted(w) ==
  /\ pc[w] = "fetch"
  /\ count > 0
  /\ task' = [task EXCEPT ![w] = queue[head]]
  /\ head' = (head + 1) % queue_size
  /\ count' = count - 1
  /\ pc' \in Signal([pc EXCEPT ![w] = "task"], "not_full")
  /\ UNCHANGED <<queue, queue_size, tail, shutdown, active_tasks, arg, phase,
                 offered, finished, owed>>

\* Take a task off the ring and go to run it.
FetchTask(w) ==
  /\ pc[w] = "fetch"
  /\ count > 0
  /\ task' = [task EXCEPT ![w] = queue[head]]
  /\ head' = (head + 1) % queue_size
  /\ count' = count - 1
  /\ active_tasks' = active_tasks + 1
  /\ pc' \in Signal([pc EXCEPT ![w] = "task"], "not_full")
  /\ UNCHANGED <<queue, queue_size, tail, shutdown, arg, phase, offered, finished, owed>>

\* Mutant of FetchNothing: a thread leaves on shutdown with tasks in the ring.
FetchQuits(w) ==
  /\ pc[w] = "fetch"
  /\ \/ count = 0 /\ ~ shutdown /\ pc' = [pc EXCEPT ![w] = "not_empty"]
     \/ shutdown /\ pc' = [pc EXCEPT ![w] = "exit"]
  /\ UNCHANGED <<ring, shutdown, active_tasks, task, arg, phase, offered, finished, owed>>

\* With an empty ring, wait for a task or leave.
FetchNothing(w) ==
  /\ pc[w] = "fetch"
  /\ count = 0
  /\ pc' = [pc EXCEPT ![w] = IF shutdown THEN "exit" ELSE "not_empty"]
  /\ UNCHANGED <<ring, shutdown, active_tasks, task, arg, phase, offered, finished, owed>>

\* task.fn returns.
TaskReturns(w) ==
  /\ pc[w] = "task"
  /\ pc' = [pc EXCEPT ![w] = "finish"]
  /\ finished' = finished \cup {task[w]}
  /\ UNCHANGED <<ring, shutdown, active_tasks, task, arg, phase, offered, owed>>

\* Discount the task and, with nothing left to do, signal is_idle.
FinishTask(w) ==
  /\ pc[w] = "finish"
  /\ active_tasks' = active_tasks - 1
  /\ task' = [task EXCEPT ![w] = NoTask]
  /\ LET p == [pc EXCEPT ![w] = "fetch"] IN
       IF count = 0 /\ active_tasks' = 0
         THEN pc' \in Signal(p, "is_idle")
         ELSE pc' = p
  /\ UNCHANGED <<ring, shutdown, arg, phase, offered, finished, owed>>

Worker(w) == FetchTask(w) \/ FetchNothing(w) \/ TaskReturns(w) \/ FinishTask(w)

-----------------------------------------------------------------------------
(* worker_pool_submit, called by a client or by a task that runs. *)

\* Where the caller of worker_pool_submit was.
Caller(t) == IF t \in Workers THEN "task" ELSE "out"

CallSubmit(t, x) ==
  /\ pc[t] = Caller(t)
  /\ t \in Workers => task[t] \in Spawners
  /\ x \notin offered
  /\ offered' = offered \cup {x}
  /\ arg' = [arg EXCEPT ![t] = x]
  /\ pc' = [pc EXCEPT ![t] = "submit"]
  /\ UNCHANGED <<ring, shutdown, active_tasks, task, phase, finished, owed>>

\* The ring is full.
SubmitWaits(t) ==
  /\ pc[t] = "submit"
  /\ count = queue_size
  /\ ~ shutdown
  /\ pc' = [pc EXCEPT ![t] = "not_full"]
  /\ UNCHANGED <<ring, shutdown, active_tasks, task, arg, phase, offered, finished, owed>>

\* The pool is shutting down: ERASECURE_ERR_GENERIC.
SubmitRefused(t) ==
  /\ pc[t] = "submit"
  /\ shutdown
  /\ pc' = [pc EXCEPT ![t] = Caller(t)]
  /\ arg' = [arg EXCEPT ![t] = NoTask]
  /\ UNCHANGED <<ring, shutdown, active_tasks, task, phase, offered, finished, owed>>

\* Mutant of SubmitAccepted: the room is not tested again after the wait.
SubmitUntested(t) ==
  /\ pc[t] = "submit"
  /\ ~ shutdown
  /\ queue' = [queue EXCEPT ![tail] = arg[t]]
  /\ tail' = (tail + 1) % queue_size
  /\ count' = count + 1
  /\ arg' = [arg EXCEPT ![t] = NoTask]
  /\ pc' \in Signal([pc EXCEPT ![t] = Caller(t)], "not_empty")
  /\ UNCHANGED <<queue_size, head, shutdown, active_tasks, task, phase, offered, finished, owed>>

\* Mutant of SubmitAccepted: the wrong condition is signalled.
SubmitSignalsNotFull(t) ==
  /\ pc[t] = "submit"
  /\ count < queue_size
  /\ ~ shutdown
  /\ queue' = [queue EXCEPT ![tail] = arg[t]]
  /\ tail' = (tail + 1) % queue_size
  /\ count' = count + 1
  /\ arg' = [arg EXCEPT ![t] = NoTask]
  /\ pc' \in Signal([pc EXCEPT ![t] = Caller(t)], "not_full")
  /\ UNCHANGED <<queue_size, head, shutdown, active_tasks, task, phase, offered, finished, owed>>

\* Put the task into the ring and signal not_empty: ERASECURE_SUCCESS.
SubmitAccepted(t) ==
  /\ pc[t] = "submit"
  /\ count < queue_size
  /\ ~ shutdown
  /\ queue' = [queue EXCEPT ![tail] = arg[t]]
  /\ tail' = (tail + 1) % queue_size
  /\ count' = count + 1
  /\ arg' = [arg EXCEPT ![t] = NoTask]
  /\ pc' \in Signal([pc EXCEPT ![t] = Caller(t)], "not_empty")
  /\ UNCHANGED <<queue_size, head, shutdown, active_tasks, task, phase, offered, finished, owed>>

Submit(t) == SubmitWaits(t) \/ SubmitRefused(t) \/ SubmitAccepted(t)

-----------------------------------------------------------------------------
(* worker_pool_wait_idle. *)

CallWaitIdle(c) ==
  /\ pc[c] = "out"
  /\ pc' = [pc EXCEPT ![c] = "wait_idle"]
  /\ owed' = [owed EXCEPT ![c] = Unfinished]
  /\ UNCHANGED <<ring, shutdown, active_tasks, task, arg, phase, offered, finished>>

WaitIdle(c) ==
  /\ pc[c] = "wait_idle"
  /\ IF count > 0 \/ active_tasks > 0
       THEN pc' = [pc EXCEPT ![c] = "is_idle"] /\ UNCHANGED owed
       ELSE pc' = [pc EXCEPT ![c] = "out"] /\ owed' = [owed EXCEPT ![c] = {}]
  /\ UNCHANGED <<ring, shutdown, active_tasks, task, arg, phase, offered, finished>>

\* A client has made its last call.
Leave(c) ==
  /\ pc[c] = "out"
  /\ pc' = [pc EXCEPT ![c] = "left"]
  /\ UNCHANGED <<ring, shutdown, active_tasks, task, arg, phase, offered, finished, owed>>

-----------------------------------------------------------------------------
(* worker_pool_destroy, which the owner calls when no client uses the pool. *)

\* Mutant of Destroy: only one of the threads is woken.
DestroySignals ==
  /\ phase = "open"
  /\ \A c \in Clients : pc[c] = "left"
  /\ phase' = "joining"
  /\ shutdown' = TRUE
  /\ pc' \in Signal(pc, "not_empty")
  /\ UNCHANGED <<ring, active_tasks, task, arg, offered, finished, owed>>

Destroy ==
  /\ phase = "open"
  /\ \A c \in Clients : pc[c] = "left"
  /\ phase' = "joining"
  /\ shutdown' = TRUE
  /\ pc' = Broadcast(pc, "not_empty")
  /\ UNCHANGED <<ring, active_tasks, task, arg, offered, finished, owed>>

\* All the threads are joined and the pool is freed.
Join ==
  /\ phase = "joining"
  /\ \A w \in Workers : pc[w] = "exit"
  /\ phase' = "freed"
  /\ UNCHANGED <<ring, shutdown, active_tasks, pc, task, arg, offered, finished, owed>>

-----------------------------------------------------------------------------
\* worker_pool_create: empty, its threads about to take the mutex.
Init ==
  /\ queue_size \in QueueSizes
  /\ queue = [i \in 0 .. queue_size - 1 |-> NoTask]
  /\ head = 0 /\ tail = 0 /\ count = 0
  /\ shutdown = FALSE
  /\ active_tasks = 0
  /\ pc = [t \in Threads |-> IF t \in Workers THEN "fetch" ELSE "out"]
  /\ task = [w \in Workers |-> NoTask]
  /\ arg = [t \in Threads |-> NoTask]
  /\ phase = "open"
  /\ offered = {}
  /\ finished = {}
  /\ owed = [c \in Clients |-> {}]

\* Once the pool is freed nothing more happens.
Freed == phase = "freed" /\ UNCHANGED pvars

Next ==
  \/ \E w \in Workers : Worker(w)
  \/ \E t \in Threads : SpuriousWakeup(t) \/ Submit(t) \/ \E x \in Tasks : CallSubmit(t, x)
  \/ \E c \in Clients : WaitIdle(c) \/ Leave(c)
  \/ \E c \in Waiters : CallWaitIdle(c)
  \/ Destroy \/ Join \/ Freed

Spec == Init /\ [][Next]_pvars

\* Threads get the mutex and the processor in time, and task functions return.
\* No thread has to call anything, and no wakeup comes without a signal.
Fairness ==
  /\ \A w \in Workers : WF_pvars(Worker(w))
  /\ \A t \in Threads : WF_pvars(Submit(t))
  /\ \A c \in Clients : WF_pvars(WaitIdle(c))
  /\ WF_pvars(Join)

FairSpec == Spec /\ Fairness

-----------------------------------------------------------------------------
(* What the pool must guarantee. *)

\* The ring's indexes agree with its count, and active_tasks is the number of
\* threads between the two critical sections of their loop: if it ran ahead,
\* worker_pool_wait_idle would never return; if it fell behind, size_t would
\* wrap or wait_idle would return with a task half run.
PoolConsistent ==
  /\ TypeOK
  /\ tail = (head + count) % queue_size
  /\ active_tasks =
       Cardinality({w \in Workers : pc[w] \in {"task", "submit", "not_full", "finish"}})

\* worker_pool_destroy frees the pool when the last thread has left it, with
\* every task that was accepted run and no submission under way.
FreedUnused ==
  phase = "freed" =>
    /\ count = 0 /\ active_tasks = 0
    /\ \A t \in Threads : pc[t] \in {"exit", "left"} /\ arg[t] = NoTask

Promise == INSTANCE TaskPool WITH capacity <- queue_size, pending <- Pending, running <- Running

\* The pool keeps the promises of worker_pool.h: first in first out, each task
\* once, wait_idle not before the caller's tasks are done, destroy not before
\* everything is.
KeepsPromises == Promise!Spec

\* Every task that is accepted is run, in spite of lost or stolen wakeups and
\* of a shutdown.
AcceptedIsRun == \A x \in Tasks : (x \in Unfinished) ~> (x \in finished)

\* worker_pool.h: worker_pool_wait_idle waits "for all submitted tasks to
\* complete", so it returns once they have.
WaitIdleReturns == \A c \in Clients : (pc[c] = "wait_idle") ~> (pc[c] = "out")

\* Every call returns: a submission that waits for room, a wait for idle, and
\* the destruction of the pool.
CallsReturn ==
  /\ \A t \in Threads : (pc[t] = "submit") ~> (pc[t] = Caller(t))
  /\ WaitIdleReturns
  /\ (phase = "joining") ~> (phase = "freed")
=============================================================================
