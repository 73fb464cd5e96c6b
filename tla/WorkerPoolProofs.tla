--------------------------- MODULE WorkerPoolProofs --------------------------
(***************************************************************************)
(* The thread pool, for any number of threads, clients and tasks and for a *)
(* ring of any size: its counters agree, it is freed unused, and it keeps  *)
(* the promises of TaskPool.                                               *)
(*                                                                         *)
(* A wakeup changes where a thread waits and nothing else, so a thread is  *)
(* followed through the stages of its call: its pc, or where its pc goes   *)
(* when it is woken.                                                       *)
(*                                                                         *)
(* The invariant has six parts, and a step of a proof that establishes one *)
(* of them after an action bears its letter: t (Typed), c (Counted), s     *)
(* (Staged), o (OnePlace), l (Closing), w (Owing); r is about Running.     *)
(***************************************************************************)
EXTENDS WorkerPool, FiniteSetTheorems, SequenceTheorems, TLAPS

Stage(s) == IF s \in Conditions THEN Test(s) ELSE s
stage == [t \in Threads |-> Stage(pc[t])]

Points == {"fetch", "task", "finish", "exit", "out", "submit", "wait_idle", "left"}
            \cup Conditions

\* Threads that run a task function, that count as active, that submit.
Runners == {w \in Workers : stage[w] \in {"task", "submit"}}
Active == {w \in Workers : stage[w] \in {"task", "submit", "finish"}}
Submitters == {t \in Threads : stage[t] = "submit"}

\* TypeOK but for the count of active tasks, which is not typed by itself.
Typed ==
  /\ queue_size \in QueueSizes
  /\ queue \in [0 .. queue_size - 1 -> Tasks \cup {NoTask}]
  /\ head \in 0 .. queue_size - 1 /\ tail \in 0 .. queue_size - 1
  /\ count \in 0 .. queue_size
  /\ shutdown \in BOOLEAN
  /\ pc \in [Threads -> Points]
  /\ task \in [Workers -> Tasks \cup {NoTask}]
  /\ arg \in [Threads -> Tasks \cup {NoTask}]
  /\ phase \in {"open", "joining", "freed"}
  /\ offered \subseteq Tasks /\ finished \subseteq Tasks
  /\ owed \in [Clients -> SUBSET Tasks]

Counted ==
  /\ tail = (head + count) % queue_size
  /\ active_tasks = Cardinality(Active)

\* Which stages a thread goes through, and what it has in hand in them.
Staged ==
  /\ \A w \in Workers : stage[w] \in {"fetch", "task", "submit", "finish", "exit"}
  /\ \A c \in Clients : stage[c] \in {"out", "submit", "wait_idle", "left"}
  /\ \A w \in Runners : task[w] \in Tasks
  /\ \A t \in Threads : IF t \in Submitters THEN arg[t] \in Tasks ELSE arg[t] = NoTask

\* A task that was submitted is in one place at most: with the thread that
\* submits it, in one slot of the ring, with one thread that runs it, or done.
OnePlace ==
  /\ finished \subseteq offered
  /\ \A i \in 1 .. count : Pending[i] \in offered \ finished
  /\ \A w \in Runners : task[w] \in offered \ finished
  /\ \A t \in Submitters : arg[t] \in offered \ finished
  /\ \A i, j \in 1 .. count : Pending[i] = Pending[j] => i = j
  /\ \A v, w \in Runners : task[v] = task[w] => v = w
  /\ \A s, t \in Submitters : arg[s] = arg[t] => s = t
  /\ \A i \in 1 .. count, w \in Runners : Pending[i] # task[w]
  /\ \A i \in 1 .. count, t \in Submitters : Pending[i] # arg[t]
  /\ \A w \in Runners, t \in Submitters : task[w] # arg[t]

\* Nobody submits to a pool that is shut down, and its threads leave it empty.
Closing ==
  /\ shutdown <=> phase # "open"
  /\ shutdown => \A c \in Clients : stage[c] = "left"
  /\ \A w \in Workers : stage[w] = "exit" => shutdown /\ count = 0
  /\ phase = "freed" => \A w \in Workers : stage[w] = "exit"

\* What a client waits for is accounted for.
Owing == \A c \in Clients : owed[c] \subseteq Unfinished \cup finished

PoolInv == Typed /\ Counted /\ Staged /\ OnePlace /\ Closing /\ Owing

-----------------------------------------------------------------------------
(* Wakeups. *)

\* A wakeup leads to a test, and tests wait for nothing.
LEMMA TestIsStage ==
  ASSUME NEW cond \in Conditions
  PROVE  /\ Test(cond) \in Points \ Conditions
         /\ Stage(Test(cond)) = Test(cond) /\ Stage(cond) = Test(cond)
BY DEF Test, Stage, Conditions, Points

\* pthread_cond_signal changes no stage.
LEMMA SignalKeepsStages ==
  ASSUME NEW p \in [Threads -> Points], NEW cond \in Conditions, NEW q \in Signal(p, cond)
  PROVE  q \in [Threads -> Points] /\ \A t \in Threads : Stage(q[t]) = Stage(p[t])
<1>1. CASE q = p
  BY <1>1
<1>2. ASSUME NEW t \in Waiting(p, cond), q = [p EXCEPT ![t] = Test(cond)]
      PROVE  q \in [Threads -> Points] /\ \A u \in Threads : Stage(q[u]) = Stage(p[u])
  BY <1>2, TestIsStage DEF Waiting
<1> QED
  BY <1>1, <1>2 DEF Signal

\* A broadcast wakes threads: it changes no stage.
LEMMA BroadcastKeepsStages ==
  ASSUME NEW p \in [Threads -> Points], NEW cond \in Conditions
  PROVE  /\ Broadcast(p, cond) \in [Threads -> Points]
         /\ \A t \in Threads : Stage(Broadcast(p, cond)[t]) = Stage(p[t])
BY TestIsStage DEF Broadcast

\* What a step does to the stages: thread t goes to stage s, or none does.
Goes(t, s) == stage'[t] = s /\ \A u \in Threads \ {t} : stage'[u] = stage[u]
Stays == \A u \in Threads : stage'[u] = stage[u]

\* A step that moves one thread and signals moves one thread's stage.
LEMMA MoveAndSignal ==
  ASSUME Typed, NEW t \in Threads, NEW at \in Points, NEW cond \in Conditions,
         pc' \in Signal([pc EXCEPT ![t] = at], cond)
  PROVE  pc' \in [Threads -> Points] /\ Goes(t, Stage(at))
<1>1. [pc EXCEPT ![t] = at] \in [Threads -> Points]
  BY DEF Typed
<1>2. /\ pc' \in [Threads -> Points]
      /\ \A u \in Threads : Stage(pc'[u]) = Stage([pc EXCEPT ![t] = at][u])
  BY <1>1, SignalKeepsStages
<1> QED
  BY <1>2 DEF stage, Typed, Goes

\* A thread that moves on: the stages of the others stay.
LEMMA Move ==
  ASSUME Typed, NEW t \in Threads, NEW at \in Points, pc' = [pc EXCEPT ![t] = at]
  PROVE  pc' \in [Threads -> Points] /\ Goes(t, Stage(at))
BY DEF Typed, stage, Goes

\* A stage that is not waited in is the pc.
LEMMA StageOfPc ==
  ASSUME NEW t \in Threads
  PROVE  /\ pc[t] \notin Conditions => stage[t] = pc[t]
         /\ pc[t] = "not_empty" => stage[t] = "fetch"
         /\ pc[t] = "not_full" => stage[t] = "submit"
         /\ pc[t] = "is_idle" => stage[t] = "wait_idle"
BY DEF stage, Stage, Test, Conditions

\* The stage of every place a thread can be in.
LEMMA StageOf ==
  /\ \A s \in {"task", "fetch", "finish", "exit", "out", "submit", "wait_idle", "left"} : Stage(s) = s
  /\ Stage("not_empty") = "fetch" /\ Stage("not_full") = "submit" /\ Stage("is_idle") = "wait_idle"
BY DEF Stage, Test, Conditions

-----------------------------------------------------------------------------
(* The ring. *)

\* Going b slots on from slot a of a ring of q slots passes its end once at most.
Wraps(q, a, b) == (a + b) % q = IF a + b < q THEN a + b ELSE a + b - q

\* Positions of the ring, counted from any of them, modulo its size.
LEMMA RingWraps ==
  ASSUME NEW q \in Nat \ {0}, NEW a \in 0 .. q - 1, NEW b \in 0 .. q
  PROVE  Wraps(q, a, b)
BY DEF Wraps

\* The slot of the i-th task in the ring.
LEMMA PendingTasks ==
  ASSUME Typed
  PROVE  /\ Pending \in Seq(Tasks \cup {NoTask}) /\ Len(Pending) = count
         /\ \A i \in 1 .. count :
              /\ (head + i - 1) % queue_size \in 0 .. queue_size - 1
              /\ (head + i - 1) % queue_size =
                   IF head + i - 1 < queue_size THEN head + i - 1 ELSE head + i - 1 - queue_size
              /\ Pending[i] = queue[(head + i - 1) % queue_size]
<1>1. queue_size \in Nat \ {0}
  BY PoolParameters DEF Typed
<1>2. ASSUME NEW i \in 1 .. count
      PROVE  /\ (head + i - 1) % queue_size \in 0 .. queue_size - 1
             /\ (head + i - 1) % queue_size =
                  IF head + i - 1 < queue_size THEN head + i - 1 ELSE head + i - 1 - queue_size
  <2>1. i - 1 \in 0 .. queue_size /\ head + (i - 1) = head + i - 1
    BY <1>1 DEF Typed
  <2>2. Wraps(queue_size, head, i - 1)
    BY <1>1, <2>1, RingWraps DEF Typed
  <2> QED
    BY <1>1, <2>1, <2>2 DEF Typed, Wraps
<1> QED
  BY <1>1, <1>2 DEF Pending, Typed

\* An empty ring has no pending task.
LEMMA EmptyRing == ASSUME Typed, count = 0 PROVE Pending = <<>>
<1>1. Pending \in Seq(Tasks \cup {NoTask}) /\ Len(Pending) = 0
  BY PendingTasks
<1> QED
  BY <1>1, EmptySeq

\* Taking from the ring takes the oldest task.
LEMMA TakeFromRing ==
  ASSUME Typed, tail = (head + count) % queue_size, count > 0,
         head' = (head + 1) % queue_size, count' = count - 1,
         UNCHANGED <<queue, queue_size, tail>>
  PROVE  /\ Pending' = Tail(Pending) /\ Pending # <<>> /\ Head(Pending) = queue[head]
         /\ head' \in 0 .. queue_size - 1 /\ count' \in 0 .. queue_size
         /\ tail' = (head' + count') % queue_size'
<1>1. queue_size \in Nat \ {0} /\ head \in 0 .. queue_size - 1 /\ count \in 1 .. queue_size
  BY PoolParameters DEF Typed
<1>2. head' = (IF head + 1 < queue_size THEN head + 1 ELSE head + 1 - queue_size)
  <2>1. Wraps(queue_size, head, 1)
    BY <1>1, RingWraps
  <2> QED
    BY <2>1 DEF Wraps
<1>3. head' \in 0 .. queue_size - 1 /\ count' \in 0 .. queue_size
  BY <1>1, <1>2
<1>4. (head' + count') % queue_size = (head + count) % queue_size
  <2>1. Wraps(queue_size, head, count)
    BY <1>1, RingWraps
  <2>2. Wraps(queue_size, head', count')
    BY <1>1, <1>3, RingWraps
  <2> QED
    BY <1>1, <1>2, <2>1, <2>2 DEF Wraps
<1>5. ASSUME NEW i \in 1 .. count - 1
      PROVE  (head' + i - 1) % queue_size = (head + (i + 1) - 1) % queue_size
  <2>1. Wraps(queue_size, head, i)
    BY <1>1, RingWraps
  <2>2. Wraps(queue_size, head', i - 1)
    BY <1>1, <1>3, RingWraps
  <2>3. head' + i - 1 = head' + (i - 1) /\ head + (i + 1) - 1 = head + i
    BY <1>1, <1>3
  <2> QED
    BY <1>1, <1>2, <1>3, <2>1, <2>2, <2>3 DEF Wraps
<1>6. Len(Pending) = count /\ Pending \in Seq(Tasks \cup {NoTask})
  BY PendingTasks
<1>7. Pending' = [i \in 1 .. count - 1 |-> queue[(head + (i + 1) - 1) % queue_size]]
  BY <1>5 DEF Pending
<1>8. /\ Pending # <<>> /\ Tail(Pending) \in Seq(Tasks \cup {NoTask})
      /\ Len(Tail(Pending)) = count - 1
      /\ \A i \in 1 .. count - 1 : Tail(Pending)[i] = Pending[i + 1]
  <2>1. Pending # <<>>
    BY <1>1, <1>6
  <2> QED
    BY <1>6, <2>1, HeadTailProperties
<1>9. ASSUME NEW i \in 1 .. count - 1
      PROVE  Pending[i + 1] = queue[(head + (i + 1) - 1) % queue_size]
  <2>1. i + 1 \in 1 .. count
    BY <1>1
  <2> QED
    BY <2>1, PendingTasks
<1>10. Pending' = Tail(Pending)
  <2>1. Pending' = [i \in 1 .. count - 1 |-> Pending[i + 1]]
    BY <1>7, <1>9
  <2>2. \A i \in 1 .. count - 1 : Pending[i + 1] \in Tasks \cup {NoTask}
    BY <1>1, <1>6
  <2>3. Pending' \in Seq(Tasks \cup {NoTask}) /\ Len(Pending') = count - 1
    BY <1>1, <2>1, <2>2
  <2> QED
    BY <1>8, <2>1, <2>3, SeqEqual
<1>11. Pending[1] = queue[head]
  <2>1. (head + 1 - 1) % queue_size = head
    BY <1>1
  <2>2. 1 \in 1 .. count
    BY <1>1
  <2> QED
    BY <2>1, <2>2, PendingTasks
<1> QED
  BY <1>3, <1>4, <1>6, <1>8, <1>10, <1>11

\* Putting into the ring makes the task the youngest, and moves no other.
LEMMA PutIntoRing ==
  ASSUME Typed, tail = (head + count) % queue_size, count < queue_size, NEW x \in Tasks,
         queue' = [queue EXCEPT ![tail] = x],
         tail' = (tail + 1) % queue_size, count' = count + 1,
         UNCHANGED <<queue_size, head>>
  PROVE  /\ Pending' = Append(Pending, x)
         /\ queue' \in [0 .. queue_size - 1 -> Tasks \cup {NoTask}]
         /\ tail' \in 0 .. queue_size - 1 /\ count' \in 0 .. queue_size
         /\ tail' = (head' + count') % queue_size'
<1>1. /\ queue_size \in Nat \ {0} /\ head \in 0 .. queue_size - 1
      /\ tail \in 0 .. queue_size - 1 /\ count \in 0 .. queue_size - 1
  BY PoolParameters DEF Typed
<1>2. tail' = (IF tail + 1 < queue_size THEN tail + 1 ELSE tail + 1 - queue_size)
  <2>1. Wraps(queue_size, tail, 1)
    BY <1>1, RingWraps
  <2> QED
    BY <2>1 DEF Wraps
<1>3. tail' \in 0 .. queue_size - 1 /\ count' \in 0 .. queue_size
  BY <1>1, <1>2
<1>4. tail = IF head + count < queue_size THEN head + count ELSE head + count - queue_size
  <2>1. Wraps(queue_size, head, count)
    BY <1>1, RingWraps
  <2> QED
    BY <2>1 DEF Wraps
<1>5. tail' = (head' + count') % queue_size'
  <2>1. Wraps(queue_size, head, count + 1)
    BY <1>1, RingWraps
  <2> QED
    BY <1>1, <1>2, <1>4, <2>1 DEF Wraps
<1>6. Len(Pending) = count /\ Pending \in Seq(Tasks \cup {NoTask})
  BY PendingTasks
<1>7. queue' \in [0 .. queue_size - 1 -> Tasks \cup {NoTask}] /\ queue'[tail] = x
  BY <1>1 DEF Typed
<1>8. ASSUME NEW i \in 1 .. count + 1
      PROVE  queue'[(head + i - 1) % queue_size] = IF i <= count THEN Pending[i] ELSE x
  <2>1. CASE i <= count
    <3>1. i \in 1 .. count
      BY <1>1, <2>1
    <3>2. /\ (head + i - 1) % queue_size \in 0 .. queue_size - 1
          /\ (head + i - 1) % queue_size =
               IF head + i - 1 < queue_size THEN head + i - 1 ELSE head + i - 1 - queue_size
          /\ Pending[i] = queue[(head + i - 1) % queue_size]
      BY <3>1, PendingTasks
    <3>3. (head + i - 1) % queue_size # tail
      BY <1>1, <1>4, <3>1, <3>2
    <3> QED
      BY <2>1, <3>2, <3>3 DEF Typed
  <2>2. CASE i = count + 1
    <3>1. head + i - 1 = head + count /\ ~ (i <= count)
      BY <1>1, <2>2
    <3> QED
      BY <1>7, <3>1
  <2> QED
    BY <1>1, <2>1, <2>2
<1>9. Pending' = [i \in 1 .. count + 1 |-> IF i <= count THEN Pending[i] ELSE x]
  BY <1>8 DEF Pending
<1>10. Pending' = Append(Pending, x)
  <2>1. \A i \in 1 .. count + 1 : (IF i <= count THEN Pending[i] ELSE x) \in Tasks \cup {NoTask}
    BY <1>1, <1>6
  <2>2. Pending' \in Seq(Tasks \cup {NoTask}) /\ Len(Pending') = count + 1
    BY <1>1, <1>9, <2>1
  <2>3. /\ Append(Pending, x) \in Seq(Tasks \cup {NoTask}) /\ Len(Append(Pending, x)) = count + 1
        /\ \A i \in 1 .. count + 1 :
             Append(Pending, x)[i] = IF i <= count THEN Pending[i] ELSE x
    BY <1>1, <1>6, AppendProperties
  <2> QED
    BY <1>9, <2>2, <2>3, SeqEqual
<1> QED
  BY <1>3, <1>5, <1>7, <1>10

\* A step that leaves the ring alone leaves the pending tasks alone.
LEMMA RingUnchanged ==
  ASSUME UNCHANGED ring
  PROVE  UNCHANGED <<Pending, queue, queue_size, head, tail, count>>
BY DEF ring, Pending

-----------------------------------------------------------------------------
(* The steps. *)

\* The tasks that run, by stages.
LEMMA RunningByStage == Typed => Running = {task[w] : w \in Runners}
<1> SUFFICES ASSUME Typed PROVE Running = {task[w] : w \in Runners}
  OBVIOUS
<1>1. \A w \in Workers : stage[w] \in {"task", "submit"}
                           <=> pc[w] \in {"task", "submit", "not_full"}
  BY DEF Typed, stage, Stage, Test, Conditions, Points, Threads
<1> QED
  BY <1>1 DEF Running, Runners

\* RunningByStage, of the state after a step.
LEMMA RunningByStageNext == Typed' => (Running = {task[w] : w \in Runners})'
BY RunningByStage, PTL

\* By their pc, the active threads include those that wait for room.
LEMMA ActiveByStage ==
  Typed => Active = {w \in Workers : pc[w] \in {"task", "submit", "not_full", "finish"}}
BY DEF Typed, stage, Stage, Test, Conditions, Points, Threads, Active

\* A client that waits stays accounted for while nothing unfinished is lost.
LEMMA OwingKept ==
  ASSUME Owing, UNCHANGED owed, Unfinished \cup finished \subseteq (Unfinished \cup finished)'
  PROVE  Owing'
BY DEF Owing

\* There are finitely many workers, so the active ones can be counted.
LEMMA ActiveIsFinite == IsFiniteSet(Active) /\ Cardinality(Active) \in Nat
BY PoolParameters, FS_Subset, FS_CardinalityType DEF Active

\* The thread takes the oldest task and runs it.
FetchTaskDoes(w) ==
  /\ pc' \in [Threads -> Points] /\ stage[w] = "fetch" /\ Goes(w, "task")
  /\ Pending' = Tail(Pending) /\ Pending # <<>> /\ Head(Pending) = Pending[1]
  /\ Pending \in Seq(Tasks \cup {NoTask}) /\ Len(Pending) = count /\ count > 0
  /\ head' \in 0 .. queue_size - 1 /\ count' \in 0 .. queue_size
  /\ tail' = (head' + count') % queue_size'
  /\ 1 \in 1 .. count
  /\ \A i \in 1 .. count' : i + 1 \in 1 .. count /\ Pending'[i] = Pending[i + 1]
  /\ Pending[1] \in offered \ finished
  /\ task' = [task EXCEPT ![w] = Pending[1]] /\ task'[w] = Pending[1]
  /\ \A v \in Runners : task'[v] = task[v] /\ v # w
  /\ Runners' = Runners \cup {w} /\ Submitters' = Submitters
  /\ w \notin Active /\ Active' = Active \cup {w}

\* A worker that finds a task takes the one at the head of the ring.
LEMMA FetchTaskEffect ==
  ASSUME PoolInv, NEW w \in Workers, FetchTask(w)
  PROVE  FetchTaskDoes(w)
<1>1. /\ Typed /\ Counted /\ OnePlace
      /\ w \in Threads /\ stage[w] = "fetch" /\ queue_size \in Nat \ {0}
  BY StageOfPc, PoolParameters DEF PoolInv, FetchTask, Threads, Conditions, Typed
<1>2. pc' \in [Threads -> Points] /\ Goes(w, "task")
  BY <1>1, MoveAndSignal, StageOf DEF FetchTask, Points, Conditions
<1>3. /\ Pending' = Tail(Pending) /\ Pending # <<>> /\ Head(Pending) = queue[head]
      /\ head' \in 0 .. queue_size - 1 /\ count' \in 0 .. queue_size
      /\ tail' = (head' + count') % queue_size'
  BY <1>1, TakeFromRing DEF FetchTask, Counted
<1>4. /\ Pending \in Seq(Tasks \cup {NoTask}) /\ Len(Pending) = count /\ count > 0
      /\ 1 \in 1 .. count /\ Pending[1] = queue[head]
      /\ \A i \in 1 .. count' : i + 1 \in 1 .. count /\ Pending'[i] = Pending[i + 1]
  BY <1>1, <1>3, PendingTasks, HeadTailProperties DEF FetchTask, Typed
<1>5. Runners' = Runners \cup {w} /\ w \notin Active /\ Submitters' = Submitters
  BY <1>1, <1>2 DEF Runners, Active, Submitters, Goes, Threads
<1>6. Active' = Active \cup {w}
  BY <1>1, <1>2 DEF Active, Goes, Threads
<1>7. task' = [task EXCEPT ![w] = Pending[1]] /\ Pending[1] \in offered \ finished
  BY <1>1, <1>4 DEF FetchTask, OnePlace
<1>8. /\ \A v \in Runners : task'[v] = task[v] /\ v # w
      /\ task'[w] = Pending[1]
  BY <1>1, <1>5, <1>7 DEF Runners, Active, Typed
<1> QED
  BY <1>1, <1>2, <1>3, <1>4, <1>5, <1>6, <1>7, <1>8 DEF FetchTaskDoes

\* Taking a task off the ring keeps the invariant.
LEMMA FetchTaskKeeps ==
  ASSUME PoolInv, NEW w \in Workers, FetchTask(w)
  PROVE  PoolInv'
<1>1. Typed /\ Counted /\ Staged /\ OnePlace /\ Closing /\ Owing /\ w \in Threads
  BY DEF PoolInv, Threads
<1>2. FetchTaskDoes(w)
  BY FetchTaskEffect
<1>t. Typed'
  <2>1. task' \in [Workers -> Tasks \cup {NoTask}]
    BY <1>1, <1>2 DEF Typed, FetchTaskDoes
  <2> QED
    BY <1>1, <1>2, <2>1 DEF Typed, FetchTask, FetchTaskDoes
<1>c. Counted'
  <2>1. Cardinality(Active \cup {w}) = Cardinality(Active) + 1
    BY <1>2, ActiveIsFinite, FS_AddElement DEF FetchTaskDoes
  <2> QED
    BY <1>1, <1>2, <2>1 DEF Counted, FetchTask, FetchTaskDoes
<1>s. Staged'
  BY <1>1, <1>2 DEF Staged, Goes, FetchTask, FetchTaskDoes, Threads, Typed
<1>o. OnePlace'
  <2> USE DEF FetchTaskDoes
  <2>1. UNCHANGED <<offered, finished, arg>>
    BY DEF FetchTask
  <2>2. /\ \A i \in 1 .. count' : Pending'[i] \in offered \ finished
        /\ \A i, j \in 1 .. count' : Pending'[i] = Pending'[j] => i = j
        /\ \A i \in 1 .. count' : Pending'[i] # Pending[1]
        /\ \A i \in 1 .. count', v \in Runners : Pending'[i] # task[v]
        /\ \A i \in 1 .. count', t \in Submitters : Pending'[i] # arg[t]
    <3>1. /\ \A i \in 1 .. count' : i + 1 \in 1 .. count /\ Pending'[i] = Pending[i + 1]
          /\ 1 \in 1 .. count /\ \A i \in 1 .. count' : i \in Int /\ i + 1 # 1
      BY <1>2
    <3> HIDE DEF FetchTaskDoes
    <3> QED
      BY <1>1, <3>1 DEF OnePlace
  <2>3. /\ \A v \in Runners' : task'[v] \in offered \ finished
        /\ \A u, v \in Runners' : task'[u] = task'[v] => u = v
        /\ \A i \in 1 .. count', v \in Runners' : Pending'[i] # task'[v]
        /\ \A v \in Runners', t \in Submitters' : task'[v] # arg[t]
    BY <1>1, <1>2, <2>2 DEF OnePlace
  <2> QED
    BY <1>1, <1>2, <2>1, <2>2, <2>3 DEF OnePlace
<1>l. Closing'
  <2>1. \A v \in Workers : stage[v] # "exit" /\ stage'[v] # "exit"
    BY <1>1, <1>2 DEF Closing, FetchTaskDoes, Goes, Threads
  <2>2. phase' # "freed" /\ UNCHANGED <<shutdown, phase>>
    BY <1>1, <2>1 DEF Closing, FetchTask
  <2>3. \A c \in Clients : stage'[c] = stage[c]
    BY <1>2, PoolParameters DEF FetchTaskDoes, Goes, Threads
  <2> QED
    BY <1>1, <2>1, <2>2, <2>3 DEF Closing
<1>w. Owing'
  <2>1. Running = {task[v] : v \in Runners} /\ Running' = {task'[v] : v \in Runners'}
    BY <1>1, <1>t, RunningByStage, RunningByStageNext
  <2>2. ASSUME NEW i \in 1 .. count
        PROVE  Pending[i] \in Unfinished'
    <3>1. CASE i = 1
      BY <1>2, <2>1, <3>1 DEF Unfinished, FetchTaskDoes
    <3>2. CASE i # 1
      <4>1. i - 1 \in 1 .. count' /\ Pending'[i - 1] = Pending[i]
        <5>1. i - 1 \in 1 .. count' /\ (i - 1) + 1 = i
          BY <1>1, <3>2 DEF Typed, FetchTask
        <5> QED
          BY <1>2, <5>1 DEF FetchTaskDoes
      <4> QED
        BY <4>1 DEF Unfinished
    <3> QED
      BY <3>1, <3>2
  <2>3. Running \subseteq Running'
    BY <1>2, <2>1 DEF FetchTaskDoes
  <2> QED
    BY <1>1, <2>2, <2>3, OwingKept DEF Unfinished, FetchTask
<1> QED
  BY <1>t, <1>c, <1>s, <1>o, <1>l, <1>w DEF PoolInv

\* A step that only moves a thread between a condition and its test.
LEMMA WaitingKeeps ==
  ASSUME PoolInv, pc' \in [Threads -> Points], Stays,
         UNCHANGED <<ring, shutdown, active_tasks, task, arg, phase, offered, finished, owed>>
  PROVE  PoolInv' /\ Running' = Running
<1>1. Typed /\ Counted /\ Staged /\ OnePlace /\ Closing /\ Owing
  BY DEF PoolInv
<1>2. UNCHANGED <<Pending, queue, queue_size, head, tail, count>>
  BY RingUnchanged
<1>3. Runners' = Runners /\ Active' = Active /\ Submitters' = Submitters
  BY DEF Stays, Runners, Active, Submitters, Threads
<1>t. Typed'
  BY <1>1, <1>2 DEF Typed
<1>r. Running' = Running
  BY <1>1, <1>3, <1>t, RunningByStage, RunningByStageNext
<1>c. Counted'
  BY <1>1, <1>2, <1>3 DEF Counted
<1>s. Staged'
  BY <1>1, <1>3 DEF Staged, Stays, Threads
<1>o. OnePlace'
  BY <1>1, <1>2, <1>3 DEF OnePlace
<1>l. Closing'
  BY <1>1, <1>2 DEF Closing, Stays, Threads
<1>w. Owing'
  BY <1>1, <1>2, <1>r, OwingKept DEF Unfinished
<1> QED
  BY <1>t, <1>r, <1>c, <1>s, <1>o, <1>l, <1>w DEF PoolInv

\* So does finding none, whether the worker waits or exits.
LEMMA FetchNothingKeeps ==
  ASSUME PoolInv, NEW w \in Workers, FetchNothing(w)
  PROVE  PoolInv' /\ Running' = Running /\ UNCHANGED Pending
<1>1. /\ Typed /\ Counted /\ Staged /\ OnePlace /\ Closing /\ Owing
      /\ w \in Threads /\ stage[w] = "fetch"
  BY StageOfPc DEF PoolInv, Threads, FetchNothing, Conditions
<1>2. UNCHANGED <<Pending, queue, queue_size, head, tail, count>>
  BY RingUnchanged DEF FetchNothing
<1>3. CASE ~ shutdown
  <2>1. pc' \in [Threads -> Points] /\ Goes(w, "fetch")
    BY <1>1, <1>3, Move, StageOf DEF FetchNothing, Points, Conditions
  <2>2. Stays
    BY <1>1, <2>1 DEF Stays, Goes
  <2> QED
    BY <1>2, <2>1, <2>2, WaitingKeeps DEF FetchNothing
<1>4. CASE shutdown
  <2>1. pc' \in [Threads -> Points] /\ Goes(w, "exit")
    BY <1>1, <1>4, Move, StageOf DEF FetchNothing, Points
  <2>2. Runners' = Runners /\ Active' = Active /\ Submitters' = Submitters
    BY <1>1, <2>1 DEF Goes, Runners, Active, Submitters, Threads
  <2>3. UNCHANGED <<shutdown, active_tasks, task, arg, phase, offered, finished, owed>>
    BY DEF FetchNothing
  <2>t. Typed'
    BY <1>1, <1>2, <2>1, <2>3 DEF Typed
  <2>r. Running' = Running
    BY <1>1, <2>2, <2>3, <2>t, RunningByStage, RunningByStageNext
  <2>c. Counted'
    BY <1>1, <1>2, <2>2, <2>3 DEF Counted
  <2>s. Staged'
    BY <1>1, <2>1, <2>2, <2>3 DEF Staged, Goes, Threads
  <2>o. OnePlace'
    BY <1>1, <1>2, <2>2, <2>3 DEF OnePlace
  <2>l. Closing'
    <3>1. \A c \in Clients : stage'[c] = stage[c]
      BY <2>1, PoolParameters DEF Goes, Threads
    <3>2. \A v \in Workers : stage'[v] = "exit" => stage[v] = "exit" \/ v = w
      BY <2>1 DEF Goes, Threads
    <3>3. \A v \in Workers : stage[v] = "exit" => stage'[v] = "exit"
      BY <1>1, <2>1 DEF Goes, Threads
    <3>4. count = 0
      BY DEF FetchNothing
    <3> QED
      BY <1>1, <1>2, <1>4, <2>3, <3>1, <3>2, <3>3, <3>4 DEF Closing
  <2>w. Owing'
    BY <1>1, <1>2, <2>3, <2>r, OwingKept DEF Unfinished
  <2> QED
    BY <1>2, <2>t, <2>r, <2>c, <2>s, <2>o, <2>l, <2>w DEF PoolInv
<1> QED
  BY <1>3, <1>4

\* The task has run: the thread has it still, but no longer runs it.
TaskReturnsDoes(w) ==
  /\ pc' \in [Threads -> Points] /\ stage[w] = "task" /\ Goes(w, "finish")
  /\ w \in Runners /\ Runners' = Runners \ {w} /\ Active' = Active /\ Submitters' = Submitters
  /\ UNCHANGED <<Pending, queue, queue_size, head, tail, count>>

\* A task function that returns leaves its thread about to count down.
LEMMA TaskReturnsEffect ==
  ASSUME PoolInv, NEW w \in Workers, TaskReturns(w)
  PROVE  TaskReturnsDoes(w)
<1>1. Typed /\ Staged /\ w \in Threads /\ stage[w] = "task"
  BY StageOfPc DEF PoolInv, Threads, TaskReturns, Conditions
<1>2. UNCHANGED <<Pending, queue, queue_size, head, tail, count>>
  BY RingUnchanged DEF TaskReturns
<1>3. pc' \in [Threads -> Points] /\ Goes(w, "finish")
  BY <1>1, Move, StageOf DEF TaskReturns, Points
<1>4. w \in Runners /\ Runners' = Runners \ {w} /\ Active' = Active /\ Submitters' = Submitters
  BY <1>1, <1>3 DEF Goes, Runners, Active, Submitters, Threads
<1> QED
  BY <1>1, <1>2, <1>3, <1>4 DEF TaskReturnsDoes

\* Its task is done, and was in no other place.
LEMMA TaskReturnsKeeps ==
  ASSUME PoolInv, NEW w \in Workers, TaskReturns(w)
  PROVE  PoolInv'
<1>1. /\ Typed /\ Counted /\ Staged /\ OnePlace /\ Closing /\ Owing /\ w \in Threads
      /\ task[w] \in offered \ finished /\ task[w] \in Tasks
  BY TaskReturnsEffect DEF PoolInv, Threads, TaskReturnsDoes, Staged, OnePlace
<1>2. TaskReturnsDoes(w)
  BY TaskReturnsEffect
<1>3. /\ finished' = finished \cup {task[w]}
      /\ UNCHANGED <<shutdown, active_tasks, task, arg, phase, offered, owed>>
  BY DEF TaskReturns
<1>t. Typed'
  BY <1>1, <1>2, <1>3 DEF Typed, TaskReturnsDoes
<1>c. Counted'
  BY <1>1, <1>2, <1>3 DEF Counted, TaskReturnsDoes
<1>s. Staged'
  BY <1>1, <1>2, <1>3 DEF Staged, Goes, TaskReturnsDoes, Threads
<1>o. OnePlace'
  BY <1>1, <1>2, <1>3 DEF OnePlace, TaskReturnsDoes
<1>l. Closing'
  <2>1. /\ \A c \in Clients : stage'[c] = stage[c]
        /\ \A v \in Workers : stage'[v] = "exit" <=> stage[v] = "exit"
    BY <1>2, PoolParameters DEF Goes, Threads, TaskReturnsDoes
  <2> QED
    BY <1>1, <1>2, <1>3, <2>1 DEF Closing, TaskReturnsDoes
<1>w. Owing'
  <2>1. Running = {task[v] : v \in Runners} /\ Running' = {task'[v] : v \in Runners'}
    BY <1>1, <1>t, RunningByStage, RunningByStageNext
  <2>2. Running \subseteq Running' \cup finished'
    BY <1>2, <1>3, <2>1 DEF TaskReturnsDoes
  <2> QED
    BY <1>1, <1>2, <1>3, <2>2, OwingKept DEF Unfinished, TaskReturnsDoes
<1> QED
  BY <1>t, <1>c, <1>s, <1>o, <1>l, <1>w DEF PoolInv

\* Counting a task down keeps the count that of the active threads.
LEMMA FinishTaskKeeps ==
  ASSUME PoolInv, NEW w \in Workers, FinishTask(w)
  PROVE  PoolInv' /\ Running' = Running /\ UNCHANGED Pending
<1>1. /\ Typed /\ Counted /\ Staged /\ OnePlace /\ Closing /\ Owing
      /\ w \in Threads /\ stage[w] = "finish"
  BY StageOfPc DEF PoolInv, Threads, FinishTask, Conditions
<1>2. UNCHANGED <<Pending, queue, queue_size, head, tail, count>>
  BY RingUnchanged DEF FinishTask
<1>3. pc' \in [Threads -> Points] /\ Goes(w, "fetch")
  <2>1. \/ pc' \in Signal([pc EXCEPT ![w] = "fetch"], "is_idle")
        \/ pc' = [pc EXCEPT ![w] = "fetch"]
    BY DEF FinishTask
  <2> QED
    BY <1>1, <2>1, Move, MoveAndSignal, StageOf DEF Points, Conditions
<1>4. /\ Runners' = Runners /\ Submitters' = Submitters
      /\ w \in Active /\ Active' = Active \ {w} /\ w \notin Runners
  BY <1>1, <1>3 DEF Goes, Runners, Active, Submitters, Threads
<1>5. /\ active_tasks' = active_tasks - 1 /\ task' = [task EXCEPT ![w] = NoTask]
      /\ UNCHANGED <<shutdown, arg, phase, offered, finished, owed>>
  BY DEF FinishTask
<1>6. \A v \in Runners : task'[v] = task[v]
  BY <1>1, <1>4, <1>5 DEF Typed, Runners
<1>t. Typed'
  <2>1. task' \in [Workers -> Tasks \cup {NoTask}]
    BY <1>1, <1>5 DEF Typed
  <2> QED
    BY <1>1, <1>2, <1>3, <1>5, <2>1 DEF Typed
<1>r. Running' = Running
  BY <1>1, <1>4, <1>6, <1>t, RunningByStage, RunningByStageNext
<1>c. Counted'
  <2>1. Cardinality(Active \ {w}) = Cardinality(Active) - 1
    BY <1>4, ActiveIsFinite, FS_RemoveElement
  <2> QED
    BY <1>1, <1>2, <1>4, <1>5, <2>1 DEF Counted
<1>s. Staged'
  BY <1>1, <1>3, <1>4, <1>5, <1>6 DEF Staged, Goes, Threads
<1>o. OnePlace'
  BY <1>1, <1>2, <1>4, <1>5, <1>6 DEF OnePlace
<1>l. Closing'
  <2>1. /\ \A c \in Clients : stage'[c] = stage[c]
        /\ \A v \in Workers : stage'[v] = "exit" <=> stage[v] = "exit"
    BY <1>1, <1>3, PoolParameters DEF Goes, Threads
  <2> QED
    BY <1>1, <1>2, <1>5, <2>1 DEF Closing
<1>w. Owing'
  BY <1>1, <1>2, <1>5, <1>r, OwingKept DEF Unfinished
<1> QED
  BY <1>2, <1>t, <1>r, <1>c, <1>s, <1>o, <1>l, <1>w DEF PoolInv

\* A thread that calls worker_pool_submit runs a task or is a client.
LEMMA CallerStage ==
  ASSUME NEW t \in Threads
  PROVE  /\ Caller(t) \in Points \ Conditions /\ Stage(Caller(t)) = Caller(t)
         /\ t \in Workers => Caller(t) = "task"
         /\ t \in Clients => Caller(t) = "out"
BY PoolParameters, StageOf DEF Caller, Points, Conditions, Threads

\* A call to submit brings in a task that is nowhere in the pool.
LEMMA CallSubmitKeeps ==
  ASSUME PoolInv, NEW t \in Threads, NEW x \in Tasks, CallSubmit(t, x)
  PROVE  PoolInv' /\ Running' = Running /\ UNCHANGED Pending
<1>1. /\ Typed /\ Counted /\ Staged /\ OnePlace /\ Closing /\ Owing
      /\ stage[t] = Caller(t)
  BY StageOfPc, CallerStage DEF PoolInv, CallSubmit
<1>2. UNCHANGED <<Pending, queue, queue_size, head, tail, count>>
  BY RingUnchanged DEF CallSubmit
<1>3. pc' \in [Threads -> Points] /\ Goes(t, "submit")
  BY <1>1, Move, StageOf DEF CallSubmit, Points
<1>4. /\ x \notin offered /\ offered' = offered \cup {x} /\ arg' = [arg EXCEPT ![t] = x]
      /\ UNCHANGED <<shutdown, active_tasks, task, phase, finished, owed>>
  BY DEF CallSubmit
<1>5. /\ Runners' = Runners /\ Active' = Active
      /\ t \notin Submitters /\ Submitters' = Submitters \cup {t}
  BY <1>1, <1>3, CallerStage DEF Goes, Runners, Active, Submitters, Threads, Staged
<1>6. arg'[t] = x /\ \A u \in Threads \ {t} : arg'[u] = arg[u]
  BY <1>1, <1>4 DEF Typed
<1>t. Typed'
  <2>1. arg' \in [Threads -> Tasks \cup {NoTask}] /\ offered' \subseteq Tasks
    BY <1>1, <1>4 DEF Typed
  <2> QED
    BY <1>1, <1>2, <1>3, <1>4, <2>1 DEF Typed
<1>r. Running' = Running
  BY <1>1, <1>4, <1>5, <1>t, RunningByStage, RunningByStageNext
<1>c. Counted'
  BY <1>1, <1>2, <1>4, <1>5 DEF Counted
<1>s. Staged'
  <2>1. /\ \A w \in Workers : stage'[w] \in {"fetch", "task", "submit", "finish", "exit"}
        /\ \A c \in Clients : stage'[c] \in {"out", "submit", "wait_idle", "left"}
    BY <1>1, <1>3 DEF Staged, Goes, Threads
  <2> QED
    BY <1>1, <1>4, <1>5, <1>6, <2>1 DEF Staged
<1>o. OnePlace'
  <2>1. \A u \in Submitters : u # t /\ arg'[u] = arg[u] /\ arg[u] # x
    BY <1>1, <1>4, <1>5, <1>6 DEF OnePlace, Submitters
  <2> QED
    BY <1>1, <1>2, <1>4, <1>5, <1>6, <2>1 DEF OnePlace
<1>l. Closing'
  <2>1. \A w \in Workers : stage'[w] = "exit" <=> stage[w] = "exit"
    BY <1>1, <1>3, CallerStage DEF Goes, Threads
  <2>2. shutdown => \A c \in Clients : stage'[c] = stage[c]
    BY <1>1, <1>3, CallerStage DEF Closing, Goes, Threads
  <2> QED
    BY <1>1, <1>2, <1>4, <2>1, <2>2 DEF Closing
<1>w. Owing'
  BY <1>1, <1>2, <1>4, <1>r, OwingKept DEF Unfinished
<1> QED
  BY <1>2, <1>t, <1>r, <1>c, <1>s, <1>o, <1>l, <1>w DEF PoolInv

\* Waiting for room changes nothing but where the thread waits.
LEMMA SubmitWaitsKeeps ==
  ASSUME PoolInv, NEW t \in Threads, SubmitWaits(t)
  PROVE  PoolInv' /\ Running' = Running /\ UNCHANGED Pending
<1>1. Typed /\ stage[t] = "submit"
  BY StageOfPc DEF PoolInv, SubmitWaits, Conditions
<1>2. pc' \in [Threads -> Points] /\ Goes(t, "submit")
  BY <1>1, Move, StageOf DEF SubmitWaits, Points, Conditions
<1>3. Stays
  BY <1>1, <1>2 DEF Stays, Goes
<1> QED
  BY <1>2, <1>3, WaitingKeeps, RingUnchanged DEF SubmitWaits

\* The thread is back where it called from, with nothing in hand.
SubmitEnds(t) ==
  /\ pc' \in [Threads -> Points] /\ stage[t] = "submit" /\ Goes(t, Caller(t))
  /\ Runners' = Runners /\ Active' = Active
  /\ t \in Submitters /\ Submitters' = Submitters \ {t}
  /\ arg[t] \in Tasks /\ arg'[t] = NoTask /\ \A u \in Threads \ {t} : arg'[u] = arg[u]
  /\ arg' \in [Threads -> Tasks \cup {NoTask}]

\* A call to submit that returns, with its task in the ring or refused.
LEMMA SubmitEffect ==
  ASSUME PoolInv, NEW t \in Threads, SubmitRefused(t) \/ SubmitAccepted(t)
  PROVE  SubmitEnds(t)
<1>1. Typed /\ Staged /\ stage[t] = "submit"
  BY StageOfPc DEF PoolInv, SubmitRefused, SubmitAccepted, Conditions
<1>2. pc' \in [Threads -> Points] /\ Goes(t, Caller(t))
  <2>1. \/ pc' \in Signal([pc EXCEPT ![t] = Caller(t)], "not_empty")
        \/ pc' = [pc EXCEPT ![t] = Caller(t)]
    BY DEF SubmitRefused, SubmitAccepted
  <2>2. Caller(t) \in Points /\ Stage(Caller(t)) = Caller(t) /\ "not_empty" \in Conditions
    BY CallerStage DEF Conditions
  <2>3. CASE pc' = [pc EXCEPT ![t] = Caller(t)]
    BY <1>1, <2>2, <2>3, Move
  <2>4. CASE pc' \in Signal([pc EXCEPT ![t] = Caller(t)], "not_empty")
    BY <1>1, <2>2, <2>4, MoveAndSignal
  <2> QED
    BY <2>1, <2>3, <2>4
<1>3. /\ Runners' = Runners /\ Active' = Active
      /\ t \in Submitters /\ Submitters' = Submitters \ {t}
  BY <1>1, <1>2, CallerStage DEF Goes, Runners, Active, Submitters, Threads
<1>4. arg' = [arg EXCEPT ![t] = NoTask]
  BY DEF SubmitRefused, SubmitAccepted
<1>5. /\ arg[t] \in Tasks /\ arg'[t] = NoTask /\ \A u \in Threads \ {t} : arg'[u] = arg[u]
      /\ arg' \in [Threads -> Tasks \cup {NoTask}]
  BY <1>1, <1>3, <1>4 DEF Typed, Staged
<1> QED
  BY <1>1, <1>2, <1>3, <1>5 DEF SubmitEnds

\* What ending a submission means for the stages, whatever became of the task.
LEMMA SubmitEndsStages ==
  ASSUME PoolInv, NEW t \in Threads, SubmitEnds(t), UNCHANGED task
  PROVE  /\ Staged'
         /\ \A w \in Workers : stage'[w] = "exit" <=> stage[w] = "exit"
         /\ shutdown => \A c \in Clients : stage'[c] = stage[c]
<1>1. Staged /\ Closing
  BY DEF PoolInv
<1>2. /\ \A w \in Workers : stage'[w] \in {"fetch", "task", "submit", "finish", "exit"}
      /\ \A c \in Clients : stage'[c] \in {"out", "submit", "wait_idle", "left"}
  BY <1>1, CallerStage DEF Staged, Goes, SubmitEnds, Threads
<1>3. \A w \in Workers : stage'[w] = "exit" <=> stage[w] = "exit"
  BY CallerStage DEF Goes, SubmitEnds, Threads
<1>4. shutdown => \A c \in Clients : stage'[c] = stage[c]
  BY <1>1 DEF Closing, Goes, SubmitEnds, Threads
<1>5. Staged'
  BY <1>1, <1>2 DEF Staged, SubmitEnds
<1> QED
  BY <1>3, <1>4, <1>5

\* A pool that is shut down refuses the task and keeps the invariant.
LEMMA SubmitRefusedKeeps ==
  ASSUME PoolInv, NEW t \in Threads, SubmitRefused(t)
  PROVE  PoolInv' /\ Running' = Running /\ UNCHANGED Pending
<1>1. Typed /\ Counted /\ Staged /\ OnePlace /\ Closing /\ Owing
  BY DEF PoolInv
<1>2. UNCHANGED <<Pending, queue, queue_size, head, tail, count>>
  BY RingUnchanged DEF SubmitRefused
<1>3. SubmitEnds(t)
  BY SubmitEffect
<1>4. UNCHANGED <<shutdown, active_tasks, task, phase, offered, finished, owed>>
  BY DEF SubmitRefused
<1>5. /\ Staged'
      /\ \A w \in Workers : stage'[w] = "exit" <=> stage[w] = "exit"
      /\ shutdown => \A c \in Clients : stage'[c] = stage[c]
  BY <1>3, <1>4, SubmitEndsStages
<1>t. Typed'
  BY <1>1, <1>2, <1>3, <1>4 DEF Typed, SubmitEnds
<1>r. Running' = Running
  BY <1>1, <1>3, <1>4, <1>t, RunningByStage, RunningByStageNext DEF SubmitEnds
<1>c. Counted'
  BY <1>1, <1>2, <1>3, <1>4 DEF Counted, SubmitEnds
<1>o. OnePlace'
  <2>1. \A u \in Submitters' : u \in Submitters /\ arg'[u] = arg[u]
    BY <1>3 DEF SubmitEnds, Submitters
  <2> QED
    BY <1>1, <1>2, <1>3, <1>4, <2>1 DEF OnePlace, SubmitEnds
<1>l. Closing'
  BY <1>1, <1>2, <1>4, <1>5 DEF Closing
<1>w. Owing'
  BY <1>1, <1>2, <1>4, <1>r, OwingKept DEF Unfinished
<1> QED
  BY <1>2, <1>5, <1>t, <1>r, <1>c, <1>o, <1>l, <1>w DEF PoolInv

\* The task moves from the thread's hand into the ring.
SubmitAcceptedDoes(t) ==
  /\ Pending' = Append(Pending, arg[t]) /\ count' = count + 1
  /\ Pending \in Seq(Tasks \cup {NoTask}) /\ Len(Pending) = count
  /\ queue' \in [0 .. queue_size - 1 -> Tasks \cup {NoTask}]
  /\ tail' \in 0 .. queue_size - 1 /\ count' \in 0 .. queue_size
  /\ tail' = (head' + count') % queue_size'
  /\ count' \in 1 .. count' /\ Pending'[count'] = arg[t]
  /\ \A i \in 1 .. count' \ {count'} : i \in 1 .. count /\ Pending'[i] = Pending[i]
  /\ \A i \in 1 .. count : i \in 1 .. count' /\ Pending'[i] = Pending[i]

\* The task goes behind the last one of the ring.
LEMMA SubmitAcceptedEffect ==
  ASSUME PoolInv, NEW t \in Threads, SubmitAccepted(t)
  PROVE  SubmitAcceptedDoes(t)
<1>1. Typed /\ Counted /\ arg[t] \in Tasks /\ count \in Nat
  BY SubmitEffect, PoolParameters DEF PoolInv, SubmitEnds, Typed
<1>2. /\ Pending' = Append(Pending, arg[t])
      /\ queue' \in [0 .. queue_size - 1 -> Tasks \cup {NoTask}]
      /\ tail' \in 0 .. queue_size - 1 /\ count' \in 0 .. queue_size
      /\ tail' = (head' + count') % queue_size'
  BY <1>1, PutIntoRing DEF SubmitAccepted, Counted
<1>3. count' = count + 1
  BY DEF SubmitAccepted
<1>4. Pending \in Seq(Tasks \cup {NoTask}) /\ Len(Pending) = count
  BY <1>1, PendingTasks
<1>5. Pending'[count + 1] = arg[t] /\ \A i \in 1 .. count : Pending'[i] = Pending[i]
  BY <1>1, <1>2, <1>4, AppendProperties
<1>6. /\ count' \in 1 .. count'
      /\ \A i \in 1 .. count' \ {count'} : i \in 1 .. count
      /\ \A i \in 1 .. count : i \in 1 .. count'
  BY <1>1, <1>3
<1> QED
  BY <1>2, <1>3, <1>4, <1>5, <1>6 DEF SubmitAcceptedDoes

\* Accepting a task keeps the invariant.
LEMMA SubmitAcceptedKeeps ==
  ASSUME PoolInv, NEW t \in Threads, SubmitAccepted(t)
  PROVE  PoolInv' /\ Running' = Running
<1>1. Typed /\ Counted /\ Staged /\ OnePlace /\ Closing /\ Owing
  BY DEF PoolInv
<1>2. SubmitAcceptedDoes(t)
  BY SubmitAcceptedEffect
<1>3. SubmitEnds(t)
  BY SubmitEffect
<1>4. /\ ~ shutdown
      /\ UNCHANGED <<queue_size, head, shutdown, active_tasks, task, phase, offered, finished, owed>>
  BY DEF SubmitAccepted
<1>5. /\ Staged'
      /\ \A w \in Workers : stage'[w] = "exit" <=> stage[w] = "exit"
  BY <1>3, <1>4, SubmitEndsStages
<1>t. Typed'
  BY <1>1, <1>2, <1>3, <1>4 DEF Typed, SubmitEnds, SubmitAcceptedDoes
<1>r. Running' = Running
  BY <1>1, <1>3, <1>4, <1>t, RunningByStage, RunningByStageNext DEF SubmitEnds
<1>c. Counted'
  BY <1>1, <1>2, <1>3, <1>4 DEF Counted, SubmitEnds, SubmitAcceptedDoes
<1>o. OnePlace'
  <2>1. /\ \A u \in Submitters' : u \in Submitters /\ u # t /\ arg'[u] = arg[u]
        /\ t \in Submitters /\ Runners' = Runners
    BY <1>3 DEF SubmitEnds, Submitters
  <2>2. \A i \in 1 .. count' : \/ i \in 1 .. count /\ Pending'[i] = Pending[i]
                               \/ i = count' /\ Pending'[i] = arg[t]
    BY <1>2 DEF SubmitAcceptedDoes
  <2> QED
    BY <1>1, <1>4, <2>1, <2>2 DEF OnePlace
<1>l. Closing'
  BY <1>1, <1>4, <1>5 DEF Closing
<1>w. Owing'
  <2>1. {Pending[i] : i \in 1 .. count} \subseteq {Pending'[i] : i \in 1 .. count'}
    BY <1>2 DEF SubmitAcceptedDoes
  <2> QED
    BY <1>1, <1>4, <1>r, <2>1, OwingKept DEF Unfinished
<1> QED
  BY <1>5, <1>t, <1>r, <1>c, <1>o, <1>l, <1>w DEF PoolInv

\* A spurious wakeup changes no stage.
LEMMA SpuriousWakeupKeeps ==
  ASSUME PoolInv, NEW t \in Threads, SpuriousWakeup(t)
  PROVE  PoolInv' /\ Running' = Running /\ UNCHANGED Pending
<1>1. Typed /\ Test(pc[t]) \in Points /\ Stage(Test(pc[t])) = stage[t]
  BY TestIsStage DEF PoolInv, SpuriousWakeup, stage
<1>2. pc' \in [Threads -> Points] /\ Goes(t, stage[t])
  BY <1>1, Move DEF SpuriousWakeup
<1>3. Stays
  BY <1>2 DEF Stays, Goes
<1> QED
  BY <1>2, <1>3, WaitingKeeps, RingUnchanged DEF SpuriousWakeup

\* A client moves, and what it is owed is accounted for.
LEMMA ClientMoves ==
  ASSUME PoolInv, NEW c \in Clients, NEW at \in {"out", "wait_idle", "left"},
         pc' \in [Threads -> Points], Goes(c, at), stage[c] \in {"out", "wait_idle"},
         UNCHANGED <<ring, shutdown, active_tasks, task, arg, phase, offered, finished>>,
         NEW o \in {owed[c], {}, Unfinished}, owed' = [owed EXCEPT ![c] = o]
  PROVE  PoolInv' /\ Running' = Running /\ UNCHANGED Pending
<1>1. /\ Typed /\ Counted /\ Staged /\ OnePlace /\ Closing /\ Owing
      /\ c \in Threads /\ c \notin Workers /\ ~ shutdown
  BY PoolParameters DEF PoolInv, Closing, Threads
<1>2. UNCHANGED <<Pending, queue, queue_size, head, tail, count>>
  BY RingUnchanged
<1>3. Runners' = Runners /\ Active' = Active /\ Submitters' = Submitters
  BY <1>1 DEF Goes, Runners, Active, Submitters, Threads
<1>4. Unfinished \in SUBSET Tasks
  <2>1. Running = {task[w] : w \in Runners}
    BY <1>1, RunningByStage
  <2> QED
    BY <1>1, <2>1 DEF Unfinished, OnePlace, Typed
<1>t. Typed'
  <2>1. owed' \in [Clients -> SUBSET Tasks]
    BY <1>1, <1>4 DEF Typed
  <2> QED
    BY <1>1, <1>2, <2>1 DEF Typed
<1>r. Running' = Running
  BY <1>1, <1>3, <1>t, RunningByStage, RunningByStageNext
<1>c. Counted'
  BY <1>1, <1>2, <1>3 DEF Counted
<1>s. Staged'
  <2>1. /\ \A w \in Workers : stage'[w] = stage[w]
        /\ \A d \in Clients : stage'[d] \in {"out", "submit", "wait_idle", "left"}
    BY <1>1 DEF Staged, Goes, Threads
  <2> QED
    BY <1>1, <1>3, <2>1 DEF Staged
<1>o. OnePlace'
  BY <1>1, <1>2, <1>3 DEF OnePlace
<1>l. Closing'
  <2>1. \A w \in Workers : stage'[w] = stage[w]
    BY <1>1 DEF Goes, Threads
  <2> QED
    BY <1>1, <1>2, <2>1 DEF Closing
<1>w. Owing'
  <2>1. UNCHANGED <<Unfinished, finished>>
    BY <1>2, <1>r DEF Unfinished
  <2>2. \A d \in Clients : owed'[d] = owed[d] \/ owed'[d] = {} \/ owed'[d] = Unfinished
    BY <1>1 DEF Typed
  <2> QED
    BY <1>1, <2>1, <2>2 DEF Owing
<1> QED
  BY <1>2, <1>t, <1>r, <1>c, <1>s, <1>o, <1>l, <1>w DEF PoolInv

\* A client that starts to wait is owed the tasks that are unfinished.
LEMMA CallWaitIdleKeeps ==
  ASSUME PoolInv, NEW c \in Clients, CallWaitIdle(c)
  PROVE  /\ PoolInv' /\ Running' = Running /\ UNCHANGED Pending
         /\ ~ shutdown
<1>1. Typed /\ Closing /\ c \in Threads /\ stage[c] = "out"
  BY StageOfPc DEF PoolInv, CallWaitIdle, Conditions, Threads
<1>2. pc' \in [Threads -> Points] /\ Goes(c, "wait_idle")
  BY <1>1, Move, StageOf DEF CallWaitIdle, Points
<1> QED
  BY <1>1, <1>2, ClientMoves DEF CallWaitIdle, Closing

\* wait_idle returns when nothing is unfinished.
LEMMA WaitIdleKeeps ==
  ASSUME PoolInv, NEW c \in Clients, WaitIdle(c)
  PROVE  /\ PoolInv' /\ Running' = Running /\ UNCHANGED Pending
         /\ owed' = owed \/ (owed' = [owed EXCEPT ![c] = {}] /\ owed[c] \subseteq finished)
<1>1. /\ Typed /\ Counted /\ Staged /\ Owing /\ c \in Threads /\ stage[c] = "wait_idle"
      /\ count \in Nat /\ Cardinality(Active) \in Nat
  BY StageOfPc, ActiveIsFinite, PoolParameters DEF PoolInv, WaitIdle, Conditions, Threads, Typed
<1>2. CASE count > 0 \/ active_tasks > 0
  <2>1. pc' \in [Threads -> Points] /\ Goes(c, "wait_idle")
    BY <1>1, <1>2, Move, StageOf DEF WaitIdle, Points, Conditions
  <2>2. Stays
    BY <1>1, <2>1 DEF Stays, Goes
  <2>3. UNCHANGED <<ring, shutdown, active_tasks, task, arg, phase, offered, finished, owed>>
    BY <1>2 DEF WaitIdle
  <2> QED
    BY <2>1, <2>2, <2>3, WaitingKeeps, RingUnchanged
<1>3. CASE ~ (count > 0 \/ active_tasks > 0)
  <2>1. pc' \in [Threads -> Points] /\ Goes(c, "out")
    BY <1>1, <1>3, Move, StageOf DEF WaitIdle, Points
  <2>2. /\ owed' = [owed EXCEPT ![c] = {}]
        /\ UNCHANGED <<ring, shutdown, active_tasks, task, arg, phase, offered, finished>>
    BY <1>3 DEF WaitIdle
  <2>3. PoolInv' /\ Running' = Running /\ UNCHANGED Pending
    BY <1>1, <2>1, <2>2, ClientMoves
  <2>4. owed[c] \subseteq finished
    <3>1. count = 0 /\ Active = {}
      BY <1>1, <1>3, ActiveIsFinite, FS_EmptySet DEF Counted
    <3>2. Running = {}
      BY <1>1, <3>1, RunningByStage DEF Runners, Active
    <3> QED
      BY <1>1, <3>1, <3>2 DEF Owing, Unfinished
  <2> QED
    BY <2>2, <2>3, <2>4
<1> QED
  BY <1>2, <1>3

\* A client that leaves the pool keeps the invariant.
LEMMA LeaveKeeps ==
  ASSUME PoolInv, NEW c \in Clients, Leave(c)
  PROVE  PoolInv' /\ Running' = Running /\ UNCHANGED Pending
<1>1. Typed /\ c \in Threads /\ stage[c] = "out"
  BY StageOfPc DEF PoolInv, Leave, Conditions, Threads
<1>2. pc' \in [Threads -> Points] /\ Goes(c, "left")
  BY <1>1, Move, StageOf DEF Leave, Points
<1>3. owed' = [owed EXCEPT ![c] = owed[c]]
  BY <1>1 DEF Leave, Typed
<1> QED
  BY <1>1, <1>2, <1>3, ClientMoves DEF Leave

\* worker_pool_destroy and the end of the pool: no stage changes.
LEMMA EndingKeeps ==
  ASSUME PoolInv, Destroy \/ Join
  PROVE  PoolInv' /\ Running' = Running /\ UNCHANGED Pending
<1>1. Typed /\ Counted /\ Staged /\ OnePlace /\ Closing /\ Owing
  BY DEF PoolInv
<1>2. pc' \in [Threads -> Points] /\ Stays
  <2>1. CASE Destroy
    BY <1>1, <2>1, BroadcastKeepsStages DEF Destroy, Typed, Stays, stage, Conditions
  <2>2. CASE Join
    BY <1>1, <2>2 DEF Join, Typed, Stays, stage
  <2> QED
    BY <2>1, <2>2
<1>3. UNCHANGED <<ring, active_tasks, task, arg, offered, finished, owed>>
  BY DEF Destroy, Join
<1>4. UNCHANGED <<Pending, queue, queue_size, head, tail, count>>
  BY <1>3, RingUnchanged
<1>5. Runners' = Runners /\ Active' = Active /\ Submitters' = Submitters
  BY <1>2 DEF Stays, Runners, Active, Submitters, Threads
<1>t. Typed'
  <2>1. shutdown' \in BOOLEAN /\ phase' \in {"open", "joining", "freed"}
    BY <1>1 DEF Destroy, Join, Typed
  <2> QED
    BY <1>1, <1>2, <1>3, <1>4, <2>1 DEF Typed
<1>r. Running' = Running
  BY <1>1, <1>3, <1>5, <1>t, RunningByStage, RunningByStageNext
<1>c. Counted'
  BY <1>1, <1>3, <1>4, <1>5 DEF Counted
<1>s. Staged'
  BY <1>1, <1>2, <1>3, <1>5 DEF Staged, Stays, Threads
<1>o. OnePlace'
  BY <1>1, <1>3, <1>4, <1>5 DEF OnePlace
<1>l. Closing'
  <2>1. CASE Destroy
    <3>1. \A c \in Clients : stage'[c] = "left"
      BY <1>2, <2>1, StageOfPc DEF Destroy, Stays, Threads, Conditions
    <3>2. shutdown' /\ phase' = "joining" /\ ~ shutdown
      BY <1>1, <2>1 DEF Destroy, Closing
    <3> QED
      BY <1>1, <1>2, <1>4, <3>1, <3>2 DEF Closing, Stays, Threads
  <2>2. CASE Join
    <3>1. \A w \in Workers : stage'[w] = "exit"
      BY <1>2, <2>2, StageOfPc DEF Join, Stays, Threads, Conditions
    <3>2. shutdown' /\ phase' = "freed" /\ shutdown
      BY <1>1, <2>2 DEF Join, Closing
    <3> QED
      BY <1>1, <1>2, <1>4, <3>1, <3>2 DEF Closing, Stays, Threads
  <2> QED
    BY <2>1, <2>2
<1>w. Owing'
  BY <1>1, <1>3, <1>4, <1>r, OwingKept DEF Unfinished
<1> QED
  BY <1>4, <1>t, <1>r, <1>c, <1>s, <1>o, <1>l, <1>w DEF PoolInv

-----------------------------------------------------------------------------
(* The theorems. *)

\* The pool starts in the invariant.
LEMMA InitPoolInv == Init => PoolInv
<1> SUFFICES ASSUME Init PROVE PoolInv
  OBVIOUS
<1>1. queue_size \in Nat \ {0}
  BY PoolParameters DEF Init
<1>2. /\ \A w \in Workers : stage[w] = "fetch"
      /\ \A c \in Clients : stage[c] = "out"
  BY PoolParameters, StageOf DEF Init, stage, Threads
<1>3. Runners = {} /\ Active = {} /\ Submitters = {}
  BY <1>2 DEF Runners, Active, Submitters, Threads
<1>t. Typed
  <2>1. /\ queue \in [0 .. queue_size - 1 -> Tasks \cup {NoTask}]
        /\ head \in 0 .. queue_size - 1 /\ tail \in 0 .. queue_size - 1
        /\ count \in 0 .. queue_size
    BY <1>1 DEF Init
  <2>2. /\ pc \in [Threads -> Points] /\ task \in [Workers -> Tasks \cup {NoTask}]
        /\ arg \in [Threads -> Tasks \cup {NoTask}] /\ owed \in [Clients -> SUBSET Tasks]
    BY DEF Init, Points
  <2> QED
    BY <2>1, <2>2 DEF Init, Typed
<1>c. Counted
  BY <1>1, <1>3, FS_EmptySet DEF Init, Counted
<1>s. Staged
  BY <1>2, <1>3 DEF Init, Staged, Threads
<1>o. OnePlace
  BY <1>3 DEF Init, OnePlace
<1>l. Closing
  BY <1>2 DEF Init, Closing
<1>w. Owing
  BY DEF Init, Owing
<1> QED
  BY <1>t, <1>c, <1>s, <1>o, <1>l, <1>w DEF PoolInv

\* Every step keeps the invariant.
LEMMA NextPoolInv == PoolInv /\ [Next]_pvars => PoolInv'
<1> SUFFICES ASSUME PoolInv, [Next]_pvars PROVE PoolInv'
  OBVIOUS
<1>1. ASSUME NEW w \in Workers, Worker(w)
      PROVE  PoolInv'
  BY <1>1, FetchTaskKeeps, FetchNothingKeeps, TaskReturnsKeeps, FinishTaskKeeps DEF Worker
<1>2. ASSUME NEW t \in Threads, SpuriousWakeup(t) \/ Submit(t) \/ \E x \in Tasks : CallSubmit(t, x)
      PROVE  PoolInv'
  BY <1>2, SpuriousWakeupKeeps, SubmitWaitsKeeps, SubmitRefusedKeeps, SubmitAcceptedKeeps,
     CallSubmitKeeps DEF Submit
<1>3. ASSUME NEW c \in Clients, WaitIdle(c) \/ Leave(c) \/ (c \in Waiters /\ CallWaitIdle(c))
      PROVE  PoolInv'
  BY <1>3, WaitIdleKeeps, LeaveKeeps, CallWaitIdleKeeps
<1>4. CASE Destroy \/ Join
  BY <1>4, EndingKeeps
<1>5. CASE UNCHANGED pvars
  BY <1>5, WaitingKeeps DEF pvars, PoolInv, Typed, Stays, stage
<1> QED
  BY <1>1, <1>2, <1>3, <1>4, <1>5, PoolParameters DEF Next, Freed

\* The inductive invariant holds of every state.
LEMMA PoolInvariant == Spec => []PoolInv
BY InitPoolInv, NextPoolInv, PTL DEF Spec

\* The ring's indexes agree with its count, whatever its size, and active_tasks
\* counts the threads between the two critical sections of worker_thread.
THEOREM PoolIsConsistent == Spec => []PoolConsistent
<1>1. PoolInv => PoolConsistent
  <2> SUFFICES ASSUME PoolInv PROVE PoolConsistent
    OBVIOUS
  <2>1. Typed /\ Counted /\ active_tasks \in Nat
    BY ActiveIsFinite DEF PoolInv, Counted
  <2>2. TypeOK
    BY <2>1 DEF Typed, TypeOK, Points
  <2> QED
    BY <2>1, <2>2, ActiveByStage DEF PoolConsistent, Counted
<1> QED
  BY <1>1, PoolInvariant, PTL

\* When worker_pool_destroy frees the pool, no thread is inside it and every task
\* that was accepted has been run.
THEOREM FreedIsUnused == Spec => []FreedUnused
<1>1. PoolInv => FreedUnused
  <2> SUFFICES ASSUME PoolInv, phase = "freed"
               PROVE  /\ count = 0 /\ active_tasks = 0
                      /\ \A t \in Threads : pc[t] \in {"exit", "left"} /\ arg[t] = NoTask
    BY DEF FreedUnused
  <2>1. Typed /\ Counted /\ Staged /\ Closing
    BY DEF PoolInv
  <2>2. /\ \A w \in Workers : stage[w] = "exit"
        /\ \A c \in Clients : stage[c] = "left"
    BY <2>1 DEF Closing
  <2>3. count = 0
    BY <2>1, <2>2, PoolParameters DEF Closing
  <2>4. Active = {} /\ Submitters = {}
    BY <2>2 DEF Active, Submitters, Threads
  <2>5. \A t \in Threads : pc[t] \in {"exit", "left"}
    BY <2>2 DEF stage, Stage, Test, Conditions, Threads
  <2> QED
    BY <2>1, <2>3, <2>4, <2>5, FS_EmptySet DEF Counted, Staged
<1> QED
  BY <1>1, PoolInvariant, PTL

-----------------------------------------------------------------------------
(* The refinement of TaskPool. *)

\* Nothing the promise speaks of changes.
LEMMA Stutters ==
  ASSUME UNCHANGED <<ring, finished, owed, phase>>, Running' = Running, UNCHANGED Pending
  PROVE  UNCHANGED Promise!tvars
BY DEF Promise!tvars, ring

\* Every step of the pool is a step of its promise, or changes nothing in it.
LEMMA StepKeepsPromises == PoolInv /\ [Next]_pvars => [Promise!Next]_(Promise!tvars)
<1> SUFFICES ASSUME PoolInv, [Next]_pvars PROVE [Promise!Next]_(Promise!tvars)
  OBVIOUS
<1>0. /\ Typed /\ Staged /\ OnePlace /\ Closing /\ PoolInv'
      /\ Len(Pending) = count /\ count \in Nat
      /\ Running = {task[v] : v \in Runners} /\ Running' = {task'[v] : v \in Runners'}
      /\ Promise!Queued = {Pending[i] : i \in 1 .. count}
  <2>1. Typed /\ Typed' /\ PoolInv'
    BY NextPoolInv DEF PoolInv
  <2>2. Len(Pending) = count
    BY <2>1, PendingTasks
  <2>3. Running = {task[v] : v \in Runners} /\ Running' = {task'[v] : v \in Runners'}
    BY <2>1, RunningByStage, RunningByStageNext
  <2>4. count \in Nat
    BY <2>1, PoolParameters DEF Typed
  <2>5. Promise!Queued = {Pending[i] : i \in 1 .. count}
    BY <2>2 DEF Promise!Queued
  <2> QED
    BY <2>1, <2>2, <2>3, <2>4, <2>5 DEF PoolInv
<1>1. ASSUME NEW w \in Workers, FetchTask(w)
      PROVE  Promise!Take
  <2>1. FetchTaskDoes(w)
    BY <1>1, FetchTaskEffect
  <2>2. phase # "freed"
    BY <1>0, <2>1 DEF Closing, FetchTaskDoes
  <2>3. Running' = Running \cup {Head(Pending)}
    BY <1>0, <2>1 DEF FetchTaskDoes
  <2> QED
    BY <1>1, <2>1, <2>2, <2>3 DEF Promise!Take, FetchTaskDoes, FetchTask
<1>2. ASSUME NEW w \in Workers, TaskReturns(w)
      PROVE  task[w] \in Tasks /\ Promise!Finish(task[w])
  <2>1. TaskReturnsDoes(w)
    BY <1>2, TaskReturnsEffect
  <2>2. UNCHANGED <<task, queue_size, owed, phase>> /\ finished' = finished \cup {task[w]}
    BY <1>2 DEF TaskReturns, ring
  <2>3. task[w] \in Running /\ Running' = Running \ {task[w]}
    BY <1>0, <2>1, <2>2 DEF TaskReturnsDoes, OnePlace
  <2>4. task[w] \in Tasks
    BY <1>0, <2>1 DEF TaskReturnsDoes, Staged
  <2> QED
    BY <2>1, <2>2, <2>3, <2>4 DEF Promise!Finish, TaskReturnsDoes
<1>3. ASSUME NEW w \in Workers, FetchNothing(w) \/ FinishTask(w)
      PROVE  UNCHANGED Promise!tvars
  BY <1>3, FetchNothingKeeps, FinishTaskKeeps, Stutters DEF FetchNothing, FinishTask
<1>4. ASSUME NEW t \in Threads, SubmitAccepted(t)
      PROVE  arg[t] \in Tasks /\ Promise!Accept(arg[t])
  <2>1. SubmitAcceptedDoes(t) /\ SubmitEnds(t) /\ Running' = Running
    BY <1>4, SubmitAcceptedEffect, SubmitEffect, SubmitAcceptedKeeps
  <2>2. phase = "open" /\ count < queue_size /\ UNCHANGED <<queue_size, finished, owed, phase>>
    BY <1>0, <1>4 DEF SubmitAccepted, Closing
  <2>3. arg[t] \notin Promise!Queued \cup Running \cup finished
    BY <1>0, <2>1 DEF SubmitEnds, OnePlace
  <2>4. arg[t] \in Tasks /\ Pending' = Append(Pending, arg[t])
    BY <2>1 DEF SubmitEnds, SubmitAcceptedDoes
  <2> QED
    BY <1>0, <2>1, <2>2, <2>3, <2>4 DEF Promise!Accept
<1>5. ASSUME NEW t \in Threads, SubmitWaits(t) \/ SubmitRefused(t) \/ SpuriousWakeup(t)
      PROVE  UNCHANGED Promise!tvars
  BY <1>5, SubmitWaitsKeeps, SubmitRefusedKeeps, SpuriousWakeupKeeps, Stutters
     DEF SubmitWaits, SubmitRefused, SpuriousWakeup
<1>6. ASSUME NEW t \in Threads, NEW x \in Tasks, CallSubmit(t, x)
      PROVE  UNCHANGED Promise!tvars
  BY <1>6, CallSubmitKeeps, Stutters DEF CallSubmit
<1>7. ASSUME NEW c \in Clients, CallWaitIdle(c)
      PROVE  Promise!StartWaiting(c)
  BY <1>0, <1>7, CallWaitIdleKeeps
     DEF CallWaitIdle, Promise!StartWaiting, Closing, Unfinished, ring
<1>8. ASSUME NEW c \in Clients, WaitIdle(c)
      PROVE  Promise!StopWaiting(c) \/ UNCHANGED Promise!tvars
  <2>1. /\ Running' = Running /\ UNCHANGED <<Pending, ring, finished, phase>>
        /\ owed' = owed \/ (owed' = [owed EXCEPT ![c] = {}] /\ owed[c] \subseteq finished)
    BY <1>8, WaitIdleKeeps DEF WaitIdle
  <2> QED
    BY <2>1 DEF Promise!StopWaiting, Promise!tvars, ring
<1>9. ASSUME NEW c \in Clients, Leave(c)
      PROVE  UNCHANGED Promise!tvars
  BY <1>9, LeaveKeeps, Stutters DEF Leave
<1>10. ASSUME Destroy
       PROVE  Promise!Close
  <2>1. Running' = Running /\ UNCHANGED Pending
    BY <1>10, EndingKeeps
  <2> QED
    BY <1>10, <2>1 DEF Destroy, Promise!Close, ring
<1>11. ASSUME Join
       PROVE  Promise!Free
  <2>1. phase = "joining" /\ phase' = "freed" /\ UNCHANGED <<queue_size, finished, owed>>
    BY <1>11 DEF Join, ring
  <2>2. \A w \in Workers : stage[w] = "exit"
    BY <1>11, StageOfPc DEF Join, Threads, Conditions
  <2>3. count = 0 /\ Pending = <<>>
    <3>1. count = 0
      BY <1>0, <2>2, PoolParameters DEF Closing
    <3> QED
      BY <1>0, <3>1, EmptyRing
  <2>4. Running = {}
    BY <1>0, <2>2 DEF Runners
  <2>5. Running' = Running /\ UNCHANGED Pending
    BY <1>11, EndingKeeps
  <2> QED
    BY <2>1, <2>3, <2>4, <2>5 DEF Promise!Free
<1>12. CASE UNCHANGED pvars
  BY <1>12 DEF pvars, ring, Promise!tvars, Pending, Running
<1> QED
  BY <1>1, <1>2, <1>3, <1>4, <1>5, <1>6, <1>7, <1>8, <1>9, <1>10, <1>11, <1>12, PoolParameters
     DEF Next, Freed, Worker, Submit, Promise!Next

\* The pool keeps the promises of worker_pool.h: tasks are taken first in, first
\* out, each is run once, worker_pool_wait_idle stays until what its caller had
\* submitted is done, and worker_pool_destroy until everything is.
THEOREM PoolKeepsPromises == Spec => KeepsPromises
<1>1. Init => Promise!Init
  <2> SUFFICES ASSUME Init PROVE Promise!Init
    OBVIOUS
  <2>1. Pending = <<>>
    BY InitPoolInv, EmptyRing DEF Init, PoolInv
  <2>2. Running = {}
    BY DEF Init, Running, Threads
  <2> QED
    BY <2>1, <2>2, PoolParameters DEF Init, Promise!Init
<1> QED
  BY <1>1, PoolInvariant, StepKeepsPromises, PTL DEF Spec, KeepsPromises, Promise!Spec
=============================================================================
