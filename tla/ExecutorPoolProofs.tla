-------------------------- MODULE ExecutorPoolProofs --------------------------
(***************************************************************************)
(* Proofs about ExecutorPool, for any number of threads and tasks and any   *)
(* delay: one executor at a time serves the queue, tasks are started in the *)
(* order they were given, and the destructor leaves no executor behind.     *)
(***************************************************************************)
EXTENDS ExecutorPool, FiniteSetTheorems, SequenceTheorems, TLAPS

\* The parts of TypeOK, by the variables they are about.
QueueTyped ==
    /\ clock \in 0 .. MaxClock
    /\ delayTasks \in Seq(Tasks)
    /\ due \in [Tasks -> 0 .. MaxClock]

PoolTyped ==
    /\ scheduler \in Executors \cup {0}
    /\ idle \subseteq Executors /\ busy \subseteq Executors /\ idle \cap busy = {}

Labels == {"new", "wait", "loop", "pop", "run", "idle", "timed", "release", "exited"}

ExecutorsTyped ==
    /\ epc \in [Executors -> Labels]
    /\ waits \subseteq Executors
    /\ running \in [Executors -> {"RUNNING", "IS_STOPPING", "STOPPED"}]
    /\ currentTask \in [Executors -> Tasks \cup {0}]

ThreadsTyped ==
    /\ tpc \in [Threads -> {"idle", "push", "lock", "bind"}]
    /\ task \in [Threads -> Tasks \cup {0}]
    /\ made \in 0 .. MaxTasks
    /\ earlier \in [Tasks -> SUBSET Tasks]
    /\ ended \subseteq Tasks /\ started \subseteq Tasks

DestructorTyped ==
    /\ dpc \in {"alive", "clean", "take", "stop", "await", "pool", "done"}
    /\ picked \in Executors \cup {0}
    /\ dpc \in {"stop", "await"} => picked \in Executors

\* The thread that has mtx_ binds the scheduler_.
Binding ==
    /\ mtx \in Threads \cup {NoThread}
    /\ \A t \in Threads : tpc[t] = "bind" <=> mtx = t
    /\ mtx # NoThread => scheduler \in Executors

\* Threads schedule tasks of their own, which have been made and are not yet ended.
OwnTasks ==
    /\ ended \subseteq 1 .. made
    /\ \A t \in Threads : tpc[t] # "idle" => task[t] \in 1 .. made /\ task[t] \notin ended
    /\ \A t, u \in Threads : t # u /\ tpc[t] # "idle" /\ tpc[u] # "idle" => task[t] # task[u]

\* Executors that Pool::Get has made, and tasks for which it may have made one.
Made == {e \in Executors : epc[e] # "new"}
Served == ended \cup {task[t] : t \in {u \in Threads : tpc[u] = "bind"}}

\* Every executor was made for a task of its own, so there is always one more to be made.
EnoughExecutors == Cardinality(Made) <= Cardinality(Served)

TypeInv ==
    /\ QueueTyped /\ PoolTyped /\ ExecutorsTyped /\ ThreadsTyped /\ DestructorTyped
    /\ Binding /\ OwnTasks /\ EnoughExecutors

\* An executor takes tasks while its waits_ is set.
TakesWhileBound == \A e \in Executors : epc[e] \in {"pop", "run"} => e \in waits

\* Before the destructor an executor that works is bound, and it is the scheduler_.
OnlyScheduler ==
    dpc = "alive" =>
        /\ waits \subseteq {scheduler}
        /\ \A e \in Executors : /\ running[e] # "IS_STOPPING"
                                /\ epc[e] \in {"loop", "idle"} => e \in waits

\* After an orderly exit nothing is scheduled, and at most one executor is still bound.
OrderlyEnd ==
    OrderlyExit /\ dpc # "alive" =>
        /\ \A t \in Threads : tpc[t] = "idle"
        /\ \A e, f \in waits : e = f

BoundInv == TakesWhileBound /\ OnlyScheduler /\ OrderlyEnd

\* An executor that runs has its node in the pool.
HasNode == \A e \in Executors : epc[e] \notin {"new", "exited"} => e \in busy \cup idle

\* The destructor ends when the pool is empty.
DoneEmpty == OrderlyExit /\ dpc = "done" => busy \cup idle = {}

Queued == {delayTasks[a] : a \in 1 .. Len(delayTasks)}

\* Tasks that are known to the queue have been made, and what came before them has ended.
KnownTasks ==
    /\ Queued \subseteq 1 .. made /\ started \subseteq 1 .. made
    /\ \A i \in Tasks : earlier[i] \subseteq ended

\* A task whose Schedule is past Push has been started or is in the queue.
Pushed ==
    dpc = "alive" =>
        /\ ended \subseteq started \cup Queued
        /\ \A t \in Threads : tpc[t] \in {"lock", "bind"} => task[t] \in started \cup Queued

\* In the queue a task is behind those that were given before it and are due no later.
QueueOrder ==
    \A a, b \in 1 .. Len(delayTasks) :
        delayTasks[b] \in earlier[delayTasks[a]] /\ due[delayTasks[b]] <= due[delayTasks[a]]
            => b < a

OrderInv == KnownTasks /\ Pushed /\ QueueOrder /\ OrderKept

-----------------------------------------------------------------------------
(***************************************************************************)
(* The queue and the supply of executors                                   *)
(***************************************************************************)

\* Where the tasks are after an insertion.
LEMMA InsertedElements ==
  ASSUME delayTasks \in Seq(Tasks), NEW id \in Tasks, NEW k \in 0 .. Len(delayTasks)
  PROVE  /\ Inserted(k, id) \in Seq(Tasks)
         /\ Len(Inserted(k, id)) = Len(delayTasks) + 1
         /\ \A a \in 1 .. k : Inserted(k, id)[a] = delayTasks[a]
         /\ Inserted(k, id)[k + 1] = id
         /\ \A a \in k + 2 .. Len(delayTasks) + 1 : Inserted(k, id)[a] = delayTasks[a - 1]
  <1> DEFINE n == Len(delayTasks)
             before == SubSeq(delayTasks, 1, k)
             after == SubSeq(delayTasks, k + 1, n)
  <1>1. n \in Nat /\ k \in Nat /\ k <= n /\ \A a \in 1 .. n : delayTasks[a] \in Tasks
    OBVIOUS
  <1>2. /\ before \in Seq(Tasks) /\ Len(before) = k
        /\ \A a \in 1 .. k : before[a] = delayTasks[a]
    <2>1. /\ before \in Seq(Tasks) /\ Len(before) = IF 1 <= k THEN k - 1 + 1 ELSE 0
          /\ \A a \in 1 .. k - 1 + 1 : before[a] = delayTasks[1 + a - 1]
      BY <1>1, SubSeqProperties
    <2> QED
      BY <1>1, <2>1
  <1>3. /\ after \in Seq(Tasks) /\ Len(after) = n - k
        /\ \A a \in 1 .. n - k : after[a] = delayTasks[k + a]
    <2>1. \A a \in k + 1 .. n : delayTasks[a] \in Tasks
      BY <1>1
    <2>2. /\ after \in Seq(Tasks) /\ Len(after) = IF k + 1 <= n THEN n - (k + 1) + 1 ELSE 0
          /\ \A a \in 1 .. n - (k + 1) + 1 : after[a] = delayTasks[k + 1 + a - 1]
      BY <1>1, <2>1, SubSeqProperties
    <2> QED
      BY <1>1, <2>2
  <1> HIDE DEF before, after, n
  <1>4. <<id>> \in Seq(Tasks) /\ Len(<<id>>) = 1 /\ <<id>>[1] = id
    OBVIOUS
  <1> DEFINE front == before \o <<id>>
  <1>5. /\ front \in Seq(Tasks) /\ Len(front) = k + 1
        /\ \A a \in 1 .. k + 1 : front[a] = IF a <= k THEN before[a] ELSE <<id>>[a - k]
    BY <1>1, <1>2, <1>4, ConcatProperties
  <1>7. Inserted(k, id) = front \o after
    BY DEF Inserted, before, after, n
  <1> HIDE DEF front
  <1>6. /\ front \o after \in Seq(Tasks)
        /\ Len(front \o after) = k + 1 + (n - k)
        /\ \A a \in 1 .. k + 1 + (n - k) :
              (front \o after)[a] = IF a <= k + 1 THEN front[a] ELSE after[a - (k + 1)]
    <2>1. /\ front \o after \in Seq(Tasks)
          /\ Len(front \o after) = Len(front) + Len(after)
          /\ \A a \in 1 .. Len(front) + Len(after) :
                (front \o after)[a] = IF a <= Len(front) THEN front[a] ELSE after[a - Len(front)]
      BY <1>3, <1>5, ConcatProperties
    <2>2. Len(front) = k + 1 /\ Len(after) = n - k
      BY <1>3, <1>5
    <2> QED
      BY <2>1, <2>2
  <1>8. \A a \in 1 .. k : Inserted(k, id)[a] = delayTasks[a]
    BY <1>1, <1>2, <1>5, <1>6, <1>7
  <1>9. Inserted(k, id)[k + 1] = id
    <2>1. /\ k + 1 \in 1 .. k + 1 /\ ~(k + 1 <= k) /\ k + 1 - k = 1 /\ k + 1 <= k + 1
          /\ k + 1 \in 1 .. k + 1 + (n - k)
      BY <1>1
    <2> QED
      BY <1>4, <1>5, <1>6, <1>7, <2>1
  <1>10. \A a \in k + 2 .. n + 1 : Inserted(k, id)[a] = delayTasks[a - 1]
    <2> TAKE a \in k + 2 .. n + 1
    <2>1. a - (k + 1) \in 1 .. n - k /\ k + (a - (k + 1)) = a - 1 /\ a \in 1 .. k + 1 + (n - k)
             /\ ~(a <= k + 1)
      BY <1>1
    <2> QED
      BY <1>3, <1>6, <1>7, <2>1
  <1>11. Inserted(k, id) \in Seq(Tasks) /\ Len(Inserted(k, id)) = n + 1
    BY <1>1, <1>6, <1>7
  <1> QED
    BY <1>8, <1>9, <1>10, <1>11 DEF n

\* The tasks are as many as the executors.
LEMMA Supply ==
  /\ IsFiniteSet(Tasks) /\ Cardinality(Tasks) = MaxTasks
  /\ Executors = Tasks
  <1>1. MaxTasks \in Int /\ 1 \in Int /\ MaxTasks >= 1
    BY PoolAssumption
  <1>2. IsFiniteSet(1 .. MaxTasks) /\ Cardinality(1 .. MaxTasks) = MaxTasks
    BY <1>1, FS_Interval
  <1> QED
    BY <1>2 DEF Tasks, Executors

\* The sets that are counted are finite.
LEMMA Finite ==
  ASSUME TypeInv
  PROVE  /\ Served \subseteq Tasks /\ IsFiniteSet(Served) /\ Cardinality(Served) \in Nat
         /\ Made \subseteq Tasks /\ IsFiniteSet(Made) /\ Cardinality(Made) \in Nat
  <1>1. Served \subseteq Tasks
    <2>1. 1 .. made \subseteq Tasks
      BY PoolAssumption DEF TypeInv, ThreadsTyped, Tasks
    <2> QED
      BY <2>1 DEF TypeInv, Served, OwnTasks
  <1>2. Made \subseteq Tasks
    BY Supply DEF Made
  <1> QED
    BY <1>1, <1>2, Supply, FS_Subset, FS_CardinalityType

\* A thread that needs an executor finds an idle one, or one that can be made.
LEMMA FreshIsNew ==
  ASSUME TypeInv, NEW t \in Threads, tpc[t] = "lock"
  PROVE  FreshExecutor \in Executors /\ epc[FreshExecutor] = "new"
  <1>1. task[t] \in Tasks /\ task[t] \notin Served
    BY DEF TypeInv, OwnTasks, Served, ThreadsTyped, Tasks
  <1>2. Cardinality(Served) # Cardinality(Tasks) /\ Cardinality(Served) <= Cardinality(Tasks)
    BY <1>1, Finite, Supply, FS_Subset
  <1>3. Cardinality(Served) < MaxTasks
    BY <1>2, Finite, Supply, PoolAssumption
  <1>4. Made # Executors
    BY <1>3, Finite, Supply, PoolAssumption DEF TypeInv, EnoughExecutors
  <1>5. \E e \in Executors : epc[e] = "new"
    BY <1>4 DEF Made
  <1> QED
    BY <1>5 DEF FreshExecutor

-----------------------------------------------------------------------------
(***************************************************************************)
(* Type correctness                                                        *)
(***************************************************************************)

\* The initial values have their types.
LEMMA InitType == Init => TypeInv
  <1> SUFFICES ASSUME Init PROVE TypeInv
    OBVIOUS
  <1>1. QueueTyped /\ PoolTyped /\ ExecutorsTyped /\ ThreadsTyped /\ DestructorTyped
    BY PoolAssumption DEF Init, QueueTyped, PoolTyped, ExecutorsTyped, ThreadsTyped,
                          DestructorTyped, Labels
  <1>2. Binding /\ OwnTasks
    BY PoolAssumption DEF Init, Binding, OwnTasks
  <1>3. Made = {} /\ Served = {}
    BY DEF Init, Made, Served
  <1>4. EnoughExecutors
    BY <1>3, FS_EmptySet DEF EnoughExecutors
  <1> QED
    BY <1>1, <1>2, <1>4 DEF TypeInv

\* What the threads have is theirs as long as only executors and the destructor move.
LEMMA ThreadsStill ==
  ASSUME TypeInv, UNCHANGED <<threadVars, mtx>>, Made' = Made,
         mtx # NoThread => scheduler' = scheduler
  PROVE  Binding' /\ OwnTasks' /\ EnoughExecutors'
  <1>1. UNCHANGED <<tpc, task, made, ended>>
    BY DEF threadVars
  <1>2. Served' = Served
    BY <1>1 DEF Served
  <1>3. Binding'
    BY <1>1 DEF TypeInv, Binding
  <1>4. OwnTasks'
    BY <1>1 DEF TypeInv, OwnTasks
  <1>5. EnoughExecutors'
    BY <1>2 DEF TypeInv, EnoughExecutors
  <1> QED
    BY <1>3, <1>4, <1>5

\* A step of an executor moves that executor only, and makes no other.
LEMMA ExecutorMoves ==
  ASSUME TypeInv, NEW e \in Executors, NEW label \in Labels \ {"new"},
         epc[e] # "new", EGoto(e, label)
  PROVE  /\ epc' \in [Executors -> Labels] /\ epc'[e] = label
         /\ \A f \in Executors \ {e} : epc'[f] = epc[f]
         /\ Made' = Made
  <1>1. epc' = [epc EXCEPT ![e] = label] /\ epc \in [Executors -> Labels]
    BY DEF EGoto, TypeInv, ExecutorsTyped
  <1> QED
    BY <1>1 DEF Made

\* Every step of an executor keeps the types.
LEMMA RunType ==
  ASSUME TypeInv, NEW e \in Executors, Run(e)
  PROVE  TypeInv'
  <1>t. /\ QueueTyped /\ PoolTyped /\ ExecutorsTyped /\ ThreadsTyped /\ DestructorTyped
    BY DEF TypeInv
  <1>m. ASSUME NEW label \in Labels \ {"new"}, epc[e] # "new", EGoto(e, label),
               UNCHANGED <<threadVars, mtx>>, mtx # NoThread => scheduler' = scheduler
        PROVE  epc' \in [Executors -> Labels] /\ Binding' /\ OwnTasks' /\ EnoughExecutors'
    BY <1>m, ExecutorMoves, ThreadsStill
  <1>l. {"loop", "pop", "idle", "run", "timed", "release", "exited", "wait"}
           \subseteq Labels \ {"new"}
    BY DEF Labels
  <1>1. CASE Wake(e) \/ Loop(e) \/ Timeout(e)
    <2>1. epc' \in [Executors -> Labels] /\ Binding' /\ OwnTasks' /\ EnoughExecutors'
      BY <1>1, <1>m, <1>l DEF Wake, Loop, Timeout, poolVars
    <2>2. UNCHANGED <<queueVars, poolVars, waits, running, currentTask, threadVars,
                      destructorVars, started>>
      BY <1>1 DEF Wake, Loop, Timeout
    <2> QED
      BY <1>t, <2>1, <2>2 DEF TypeInv, QueueTyped, PoolTyped, ExecutorsTyped, ThreadsTyped,
         DestructorTyped, queueVars, poolVars, threadVars, destructorVars
  <1>2. CASE Pop(e)
    <2>1. epc' \in [Executors -> Labels] /\ Binding' /\ OwnTasks' /\ EnoughExecutors'
      BY <1>2, <1>m, <1>l DEF Pop, poolVars
    <2>2. UNCHANGED <<clock, due, poolVars, waits, running, threadVars, destructorVars>>
      BY <1>2 DEF Pop
    <2>3. \/ UNCHANGED <<currentTask, delayTasks, started>>
          \/ /\ delayTasks # <<>> /\ delayTasks' = Tail(delayTasks)
             /\ currentTask' = [currentTask EXCEPT ![e] = Head(delayTasks)]
             /\ started' = started \cup {Head(delayTasks)}
      BY <1>2 DEF Pop
    <2>4. delayTasks # <<>> => Head(delayTasks) \in Tasks /\ Tail(delayTasks) \in Seq(Tasks)
      BY <1>t, HeadTailProperties DEF QueueTyped
    <2>5. /\ delayTasks' \in Seq(Tasks) /\ started' \subseteq Tasks
          /\ currentTask' \in [Executors -> Tasks \cup {0}]
      BY <1>t, <2>3, <2>4 DEF QueueTyped, ThreadsTyped, ExecutorsTyped
    <2> QED
      BY <1>t, <2>1, <2>2, <2>5 DEF TypeInv, QueueTyped, PoolTyped, ExecutorsTyped, ThreadsTyped,
         DestructorTyped, poolVars, threadVars, destructorVars
  <1>3. CASE Finish(e)
    <2>1. epc' \in [Executors -> Labels] /\ Binding' /\ OwnTasks' /\ EnoughExecutors'
      BY <1>3, <1>m, <1>l DEF Finish, poolVars
    <2>2. currentTask' \in [Executors -> Tasks \cup {0}]
      BY <1>3, <1>t DEF Finish, ExecutorsTyped
    <2> QED
      BY <1>3, <1>t, <2>1, <2>2 DEF Finish, TypeInv, QueueTyped, PoolTyped, ExecutorsTyped,
         ThreadsTyped, DestructorTyped, queueVars, poolVars, threadVars, destructorVars
  <1>4. CASE Idle(e)
    <2>1. epc' \in [Executors -> Labels] /\ Binding' /\ OwnTasks' /\ EnoughExecutors'
      BY <1>4, <1>m, <1>l DEF Idle
    <2>2. PoolTyped'
      BY <1>4, <1>t DEF Idle, PoolTyped
    <2>3. ExecutorsTyped'
      BY <1>4, <1>t, <2>1 DEF Idle, ExecutorsTyped
    <2> QED
      BY <1>4, <1>t, <2>1, <2>2, <2>3 DEF Idle, TypeInv, QueueTyped, ThreadsTyped,
         DestructorTyped, queueVars, threadVars, destructorVars
  <1>5. CASE Release(e)
    <2>1. epc' \in [Executors -> Labels] /\ Binding' /\ OwnTasks' /\ EnoughExecutors'
      BY <1>5, <1>m, <1>l DEF Release
    <2>2. PoolTyped'
      BY <1>5, <1>t DEF Release, PoolTyped
    <2>3. ExecutorsTyped'
      BY <1>5, <1>t, <2>1 DEF Release, ExecutorsTyped
    <2> QED
      BY <1>5, <1>t, <2>1, <2>2, <2>3 DEF Release, TypeInv, QueueTyped, ThreadsTyped,
         DestructorTyped, queueVars, threadVars, destructorVars
  <1> QED
    BY <1>1, <1>2, <1>3, <1>4, <1>5 DEF Run

\* The clock and the destructor keep the types.
LEMMA DestructorType ==
  ASSUME TypeInv, Tick \/ Destroy \/ Destructor
  PROVE  TypeInv'
  <1>t. /\ QueueTyped /\ PoolTyped /\ ExecutorsTyped /\ ThreadsTyped /\ DestructorTyped
    BY DEF TypeInv
  <1>1. /\ UNCHANGED <<epc, threadVars, mtx, waits, currentTask, started, idle, busy, due>>
        /\ mtx # NoThread => scheduler' = scheduler
    BY DEF Tick, Destroy, Destructor, Clean, TakeScheduler, Stop, Await, PoolClean, queueVars,
           poolVars, executorVars
  <1>2. Binding' /\ OwnTasks' /\ EnoughExecutors'
    BY <1>1, ThreadsStill DEF Made
  <1>3. QueueTyped'
    <2>1. clock' \in 0 .. MaxClock
      BY <1>t, PoolAssumption DEF Tick, Destroy, Destructor, Clean, TakeScheduler, Stop, Await,
         PoolClean, queueVars, QueueTyped
    <2>2. delayTasks' = delayTasks \/ delayTasks' = <<>>
      BY DEF Tick, Destroy, Destructor, Clean, TakeScheduler, Stop, Await, PoolClean, queueVars
    <2>3. delayTasks' \in Seq(Tasks)
      <3>1. <<>> \in Seq(Tasks)
        OBVIOUS
      <3>2. delayTasks \in Seq(Tasks)
        BY <1>t DEF QueueTyped
      <3> QED
        BY <2>2, <3>1, <3>2, Zenon
    <2> QED
      BY <1>1, <1>t, <2>1, <2>3 DEF QueueTyped
  <1>4. PoolTyped' /\ ThreadsTyped'
    BY <1>1, <1>t DEF Tick, Destroy, Destructor, Clean, TakeScheduler, Stop, Await, PoolClean,
       poolVars, PoolTyped, ThreadsTyped, threadVars
  <1>5. ExecutorsTyped'
    <2>1. running' \in [Executors -> {"RUNNING", "IS_STOPPING", "STOPPED"}]
      BY <1>t DEF Tick, Destroy, Destructor, Clean, TakeScheduler, Stop, Await, PoolClean,
         executorVars, ExecutorsTyped
    <2> QED
      BY <1>1, <1>t, <2>1 DEF ExecutorsTyped
  <1>6. DestructorTyped'
    BY <1>t DEF Tick, Destroy, Destructor, Clean, TakeScheduler, Stop, Await, PoolClean,
       destructorVars, DestructorTyped, PoolTyped
  <1> QED
    BY <1>2, <1>3, <1>4, <1>5, <1>6 DEF TypeInv

\* A new task belongs to the thread that schedules it.
LEMMA NewTaskType ==
  ASSUME TypeInv, NEW t \in Threads, NEW delay \in Nat, NewTask(t, delay)
  PROVE  TypeInv'
  <1>t. /\ QueueTyped /\ PoolTyped /\ ExecutorsTyped /\ ThreadsTyped /\ DestructorTyped
    BY DEF TypeInv
  <1>1. /\ tpc[t] = "idle" /\ made < MaxTasks /\ clock + delay <= MaxClock
        /\ made' = made + 1
        /\ due' = [due EXCEPT ![made + 1] = clock + delay]
        /\ earlier' = [earlier EXCEPT ![made + 1] = ended]
        /\ task' = [task EXCEPT ![t] = made + 1]
        /\ tpc' = [tpc EXCEPT ![t] = "push"]
        /\ UNCHANGED <<clock, delayTasks, poolVars, executorVars, destructorVars, ended, started>>
    BY DEF NewTask
  <1>2. made \in Nat /\ made + 1 \in Tasks /\ made' \in 0 .. MaxTasks
           /\ clock + delay \in 0 .. MaxClock
    BY <1>1, <1>t, PoolAssumption DEF ThreadsTyped, QueueTyped, Tasks
  <1>3. QueueTyped'
    BY <1>1, <1>2, <1>t DEF QueueTyped
  <1>4. ThreadsTyped'
    BY <1>1, <1>2, <1>t DEF ThreadsTyped
  <1>5. PoolTyped' /\ ExecutorsTyped' /\ DestructorTyped'
    BY <1>1, <1>t DEF PoolTyped, ExecutorsTyped, DestructorTyped, poolVars, executorVars,
                      destructorVars
  <1>6. /\ \A u \in Threads \ {t} : tpc'[u] = tpc[u] /\ task'[u] = task[u]
        /\ tpc'[t] = "push" /\ task'[t] = made + 1
    BY <1>1, <1>t DEF ThreadsTyped
  <1>7. Binding'
    BY <1>1, <1>6 DEF TypeInv, Binding, poolVars
  <1>8. OwnTasks'
    <2>1. made + 1 \in 1 .. made' /\ made + 1 \notin 1 .. made /\ 1 .. made \subseteq 1 .. made'
      BY <1>1, <1>2
    <2> QED
      BY <1>1, <1>6, <2>1 DEF TypeInv, OwnTasks
  <1>9. EnoughExecutors'
    <2>1. Made' = Made
      BY <1>1 DEF Made, executorVars
    <2>2. Served' = Served
      <3>1. \A u \in Threads : tpc'[u] = "bind" <=> tpc[u] = "bind"
        BY <1>1, <1>6
      <3>2. \A u \in Threads : tpc[u] = "bind" => task'[u] = task[u]
        BY <1>1, <1>6
      <3>3. {task'[u] : u \in {v \in Threads : tpc'[v] = "bind"}} =
            {task[u] : u \in {v \in Threads : tpc[v] = "bind"}}
        BY <3>1, <3>2
      <3> QED
        BY <1>1, <3>3 DEF Served
    <2> QED
      BY <2>1, <2>2 DEF TypeInv, EnoughExecutors
  <1> QED
    BY <1>3, <1>4, <1>5, <1>7, <1>8, <1>9 DEF TypeInv

\* A thread that comes back has ended its task.
LEMMA ReturnEnds ==
  ASSUME TypeInv, NEW t \in Threads, tpc[t] # "idle", Return(t), made' = made
  PROVE  /\ tpc' \in [Threads -> {"idle", "push", "lock", "bind"}]
         /\ task' \in [Threads -> Tasks \cup {0}] /\ ended' \subseteq Tasks
         /\ tpc'[t] = "idle"
         /\ \A u \in Threads \ {t} : tpc'[u] = tpc[u] /\ task'[u] = task[u]
         /\ OwnTasks'
         /\ Served' = Served \cup {task[t]}
  <1>t. ThreadsTyped /\ OwnTasks
    BY DEF TypeInv
  <1>1. /\ tpc' = [tpc EXCEPT ![t] = "idle"] /\ task' = [task EXCEPT ![t] = 0]
        /\ ended' = ended \cup {task[t]}
    BY DEF Return
  <1>2. task[t] \in Tasks /\ task[t] \in 1 .. made
    BY <1>t, PoolAssumption DEF ThreadsTyped, OwnTasks, Tasks
  <1>3. /\ tpc'[t] = "idle"
        /\ \A u \in Threads \ {t} : tpc'[u] = tpc[u] /\ task'[u] = task[u]
    BY <1>1, <1>t DEF ThreadsTyped
  <1>4. OwnTasks'
    <2>1. ended' \subseteq 1 .. made'
      BY <1>1, <1>2, <1>t DEF OwnTasks
    <2>2. ASSUME NEW u \in Threads, tpc'[u] # "idle"
          PROVE  u # t /\ tpc[u] # "idle" /\ task'[u] = task[u] /\ task[u] # task[t]
      BY <1>3, <1>t, <2>2 DEF OwnTasks
    <2>3. ASSUME NEW u \in Threads, tpc'[u] # "idle"
          PROVE  task'[u] \in 1 .. made' /\ task'[u] \notin ended'
      BY <1>1, <2>2, <2>3, <1>t DEF OwnTasks
    <2>4. ASSUME NEW u \in Threads, NEW v \in Threads, u # v, tpc'[u] # "idle", tpc'[v] # "idle"
          PROVE  task'[u] # task'[v]
      BY <2>2, <2>4, <1>t DEF OwnTasks
    <2> QED
      BY <2>1, <2>3, <2>4 DEF OwnTasks
  <1>5. Served' = Served \cup {task[t]}
    <2>1. \A x : x \in Served' <=> x \in ended' \/ \E u \in Threads : tpc'[u] = "bind" /\ x = task'[u]
      BY DEF Served
    <2>2. \A x : x \in Served <=> x \in ended \/ \E u \in Threads : tpc[u] = "bind" /\ x = task[u]
      BY DEF Served
    <2>3. ASSUME NEW x PROVE x \in Served' <=> x \in Served \cup {task[t]}
      BY <1>1, <1>3, <2>1, <2>2
    <2> QED
      BY <2>3
  <1> QED
    BY <1>1, <1>2, <1>3, <1>4, <1>5, <1>t DEF ThreadsTyped

\* Pool::Get makes one executor the scheduler_, an idle one or a new one.
LEMMA GetGives ==
  ASSUME TypeInv, NEW t \in Threads, tpc[t] = "lock", Get
  PROVE  /\ scheduler' \in Executors
         /\ idle' = idle \ {scheduler'} /\ busy' = busy \cup {scheduler'}
         /\ epc' \in [Executors -> Labels]
         /\ \A f \in Executors \ {scheduler'} : epc'[f] = epc[f]
         /\ epc'[scheduler'] = IF epc[scheduler'] = "new" THEN "wait" ELSE epc[scheduler']
         /\ Made' = Made \cup {scheduler'}
  <1> DEFINE e == IF idle # {} THEN CHOOSE i \in idle : TRUE ELSE FreshExecutor
  <1>1. e \in Executors
    BY FreshIsNew DEF TypeInv, PoolTyped
  <1> HIDE DEF e
  <1>2. /\ idle' = idle \ {e} /\ busy' = busy \cup {e} /\ scheduler' = e
        /\ IF epc[e] = "new" THEN EGoto(e, "wait") ELSE UNCHANGED epc
    BY DEF Get, e
  <1>3. epc \in [Executors -> Labels] /\ "wait" \in Labels
    BY DEF TypeInv, ExecutorsTyped, Labels
  <1>4. /\ epc' \in [Executors -> Labels]
        /\ \A f \in Executors \ {e} : epc'[f] = epc[f]
        /\ epc'[e] = IF epc[e] = "new" THEN "wait" ELSE epc[e]
    BY <1>1, <1>2, <1>3 DEF EGoto
  <1>5. Made' = Made \cup {e}
    BY <1>1, <1>4 DEF Made
  <1> QED
    BY <1>1, <1>2, <1>4, <1>5

\* Every step of a thread keeps the types.
LEMMA ScheduleType ==
  ASSUME TypeInv, NEW t \in Threads, ScheduleStep(t)
  PROVE  TypeInv'
  <1>t. /\ QueueTyped /\ PoolTyped /\ ExecutorsTyped /\ ThreadsTyped /\ DestructorTyped
        /\ Binding /\ OwnTasks /\ EnoughExecutors
    BY DEF TypeInv
  <1>1. CASE Push(t)
    <2>1. /\ tpc[t] = "push" /\ tpc' = [tpc EXCEPT ![t] = "lock"]
          /\ UNCHANGED <<clock, due, poolVars, executorVars, task, made, earlier, ended,
                         destructorVars, started>>
      BY <1>1 DEF Push
    <2>2. task[t] \in Tasks
      BY <1>t, <2>1, PoolAssumption DEF ThreadsTyped, OwnTasks, Tasks
    <2>3. PICK k \in 0 .. Len(delayTasks) : delayTasks' = Inserted(k, task[t])
      BY <1>1 DEF Push
    <2>4. delayTasks' \in Seq(Tasks)
      BY <1>t, <2>2, <2>3, InsertedElements DEF QueueTyped
    <2>5. QueueTyped' /\ PoolTyped' /\ ExecutorsTyped' /\ DestructorTyped'
      BY <1>t, <2>1, <2>4 DEF QueueTyped, PoolTyped, ExecutorsTyped, DestructorTyped, poolVars,
         executorVars, destructorVars
    <2>6. ThreadsTyped'
      BY <1>t, <2>1 DEF ThreadsTyped
    <2>7. /\ \A u \in Threads \ {t} : tpc'[u] = tpc[u]
          /\ tpc'[t] = "lock"
      BY <1>t, <2>1 DEF ThreadsTyped
    <2>8. Binding'
      BY <1>t, <2>1, <2>7 DEF Binding, poolVars
    <2>9. OwnTasks'
      BY <1>t, <2>1, <2>7 DEF OwnTasks
    <2>10. EnoughExecutors'
      <3>1. Made' = Made
        BY <2>1 DEF Made, executorVars
      <3>2. {u \in Threads : tpc'[u] = "bind"} = {u \in Threads : tpc[u] = "bind"}
        BY <2>1, <2>7
      <3>3. Served' = Served
        BY <2>1, <3>2 DEF Served
      <3> QED
        BY <1>t, <3>1, <3>3 DEF EnoughExecutors
    <2> QED
      BY <2>5, <2>6, <2>8, <2>9, <2>10 DEF TypeInv
  <1>2. CASE Lock(t)
    <2>1. /\ tpc[t] = "lock" /\ mtx = NoThread
          /\ UNCHANGED <<queueVars, waits, running, currentTask, made, earlier, destructorVars,
                         started>>
      BY <1>2 DEF Lock
    <2>2. QueueTyped' /\ DestructorTyped'
      BY <1>t, <2>1 DEF QueueTyped, DestructorTyped, queueVars, destructorVars
    <2>3. task[t] \in Tasks /\ task[t] \notin Served
      BY <1>t, <2>1, PoolAssumption DEF ThreadsTyped, OwnTasks, Tasks, Served
    <2>4. Cardinality(Served \cup {task[t]}) = Cardinality(Served) + 1
      BY <2>3, Finite, FS_AddElement
    <2>5. CASE Return(t) /\ UNCHANGED <<poolVars, epc>>
      <3>1. /\ tpc' \in [Threads -> {"idle", "push", "lock", "bind"}]
            /\ task' \in [Threads -> Tasks \cup {0}] /\ ended' \subseteq Tasks
            /\ tpc'[t] = "idle"
            /\ \A u \in Threads \ {t} : tpc'[u] = tpc[u]
            /\ OwnTasks' /\ Served' = Served \cup {task[t]}
        BY <2>1, <2>5, ReturnEnds
      <3>2. ThreadsTyped' /\ PoolTyped' /\ ExecutorsTyped'
        BY <1>t, <2>1, <2>5, <3>1 DEF ThreadsTyped, PoolTyped, ExecutorsTyped, poolVars
      <3>3. Binding'
        BY <1>t, <2>1, <2>5, <3>1 DEF Binding, poolVars
      <3>4. Made' = Made
        BY <2>5 DEF Made
      <3>5. EnoughExecutors'
        BY <1>t, <2>4, <3>1, <3>4, Finite DEF EnoughExecutors
      <3> QED
        BY <2>2, <3>1, <3>2, <3>3, <3>5 DEF TypeInv
    <2>6. CASE Get /\ mtx' = t /\ tpc' = [tpc EXCEPT ![t] = "bind"] /\ UNCHANGED <<task, ended>>
      <3>1. /\ scheduler' \in Executors
            /\ idle' = idle \ {scheduler'} /\ busy' = busy \cup {scheduler'}
            /\ epc' \in [Executors -> Labels]
            /\ Made' = Made \cup {scheduler'}
        BY <2>1, <2>6, GetGives
      <3>2. PoolTyped'
        BY <1>t, <3>1 DEF PoolTyped
      <3>3. ThreadsTyped' /\ ExecutorsTyped'
        BY <1>t, <2>1, <2>6, <3>1 DEF ThreadsTyped, ExecutorsTyped
      <3>4. tpc'[t] = "bind" /\ \A u \in Threads \ {t} : tpc'[u] = tpc[u]
        BY <1>t, <2>6 DEF ThreadsTyped
      <3>5. Binding'
        BY <1>t, <2>1, <2>6, <3>1, <3>4, PoolAssumption DEF Binding
      <3>6. OwnTasks'
        BY <1>t, <2>1, <2>6, <3>4 DEF OwnTasks
      <3>7. Served' = Served \cup {task[t]}
        <4>1. \A u \in Threads : tpc'[u] = "bind" <=> u = t \/ tpc[u] = "bind"
          BY <2>1, <3>4
        <4>2. \A x : x \in Served' <=> x \in ended' \/ \E u \in Threads : tpc'[u] = "bind" /\ x = task'[u]
          BY DEF Served
        <4>3. \A x : x \in Served <=> x \in ended \/ \E u \in Threads : tpc[u] = "bind" /\ x = task[u]
          BY DEF Served
        <4>4. ASSUME NEW x PROVE x \in Served' <=> x \in Served \cup {task[t]}
          <5>1. ended' = ended /\ task' = task
            BY <2>6
          <5>2. ASSUME x \in Served' PROVE x \in Served \cup {task[t]}
            BY <4>1, <4>2, <4>3, <5>1, <5>2
          <5>3. ASSUME x \in Served PROVE x \in Served'
            BY <4>1, <4>2, <4>3, <5>1, <5>3
          <5>4. task[t] \in Served'
            BY <4>1, <4>2, <5>1
          <5> QED
            BY <5>2, <5>3, <5>4
        <4> QED
          BY <4>4
      <3>8. Cardinality(Made') <= Cardinality(Made) + 1
        <4>1. IsFiniteSet(Made) /\ Cardinality(Made) \in Nat
          BY Finite
        <4>2. Cardinality(Made \cup {scheduler'}) =
                 IF scheduler' \in Made THEN Cardinality(Made) ELSE Cardinality(Made) + 1
          BY <4>1, FS_AddElement
        <4> QED
          BY <3>1, <4>1, <4>2
      <3>9. EnoughExecutors'
        <4>1. IsFiniteSet(Made') /\ Cardinality(Made') \in Nat
          BY <3>1, Finite, FS_AddElement, FS_CardinalityType
        <4> QED
          BY <1>t, <2>4, <3>7, <3>8, <4>1, Finite DEF EnoughExecutors
      <3> QED
        BY <2>2, <3>2, <3>3, <3>5, <3>6, <3>9 DEF TypeInv
    <2> QED
      BY <1>2, <2>5, <2>6 DEF Lock
  <1>3. CASE Bind(t)
    <2>1. /\ tpc[t] = "bind" /\ waits' = waits \cup {scheduler} /\ mtx' = NoThread /\ Return(t)
          /\ UNCHANGED <<queueVars, scheduler, idle, busy, epc, running, currentTask, made,
                         earlier, destructorVars, started>>
      BY <1>3 DEF Bind
    <2>2. mtx = t /\ scheduler \in Executors
      BY <1>t, <2>1, PoolAssumption DEF Binding
    <2>3. /\ tpc' \in [Threads -> {"idle", "push", "lock", "bind"}]
          /\ task' \in [Threads -> Tasks \cup {0}] /\ ended' \subseteq Tasks
          /\ tpc'[t] = "idle"
          /\ \A u \in Threads \ {t} : tpc'[u] = tpc[u]
          /\ OwnTasks' /\ Served' = Served \cup {task[t]}
      BY <2>1, ReturnEnds
    <2>4. QueueTyped' /\ PoolTyped' /\ DestructorTyped'
      BY <1>t, <2>1 DEF QueueTyped, PoolTyped, DestructorTyped, queueVars, destructorVars
    <2>5. ThreadsTyped' /\ ExecutorsTyped'
      BY <1>t, <2>1, <2>2, <2>3 DEF ThreadsTyped, ExecutorsTyped
    <2>6. Binding'
      BY <1>t, <2>1, <2>2, <2>3, PoolAssumption DEF Binding
    <2>7. EnoughExecutors'
      <3>1. Made' = Made
        BY <2>1 DEF Made
      <3>2. task[t] \in Served
        BY <2>1 DEF Served
      <3>3. Served' = Served
        BY <2>3, <3>2
      <3> QED
        BY <1>t, <3>1, <3>3 DEF EnoughExecutors
    <2> QED
      BY <2>3, <2>4, <2>5, <2>6, <2>7 DEF TypeInv
  <1> QED
    BY <1>1, <1>2, <1>3 DEF ScheduleStep

\* Every step keeps the types.
LEMMA NextType == TypeInv /\ [Next]_vars => TypeInv'
  <1> SUFFICES ASSUME TypeInv, [Next]_vars PROVE TypeInv'
    OBVIOUS
  <1>1. CASE UNCHANGED vars
    <2>1. Made' = Made
      BY <1>1 DEF Made, vars, executorVars
    <2>2. Binding' /\ OwnTasks' /\ EnoughExecutors'
      BY <1>1, <2>1, ThreadsStill DEF vars, poolVars
    <2> QED
      BY <1>1, <2>2 DEF TypeInv, QueueTyped, PoolTyped, ExecutorsTyped, ThreadsTyped,
         DestructorTyped, vars, queueVars, poolVars, executorVars, threadVars, destructorVars
  <1>2. CASE Tick \/ Destroy \/ Destructor
    BY <1>2, DestructorType
  <1>3. ASSUME NEW t \in Threads, Execute(t) \/ ScheduleDelayed(t) PROVE TypeInv'
    <2>1. \E delay \in Nat : NewTask(t, delay)
      BY <1>3, PoolAssumption DEF Execute, ScheduleDelayed
    <2> QED
      BY <2>1, NewTaskType
  <1>4. ASSUME NEW t \in Threads, ScheduleStep(t) PROVE TypeInv'
    BY <1>4, ScheduleType
  <1>5. ASSUME NEW e \in Executors, Run(e) PROVE TypeInv'
    BY <1>5, RunType
  <1> QED
    BY <1>1, <1>2, <1>3, <1>4, <1>5 DEF Next

\* The types are invariant.
LEMMA TypeInvariant == Spec => []TypeInv
  BY InitType, NextType, PTL DEF Spec

\* The variables keep their types, a node of the pool is idle or busy and never both, and
\* the thread that holds mtx_ is about to bind the scheduler_ (executor_pool.h:165-195,
\* pool.h:28-107); Pool::Get never needs more executors than tasks were scheduled.
THEOREM TypeCorrect == Spec => []TypeOK
  <1>1. TypeInv => TypeOK
    BY DEF TypeInv, QueueTyped, PoolTyped, ExecutorsTyped, ThreadsTyped, DestructorTyped, Binding,
           Labels, TypeOK
  <1> QED
    BY <1>1, TypeInvariant, PTL

-----------------------------------------------------------------------------
(***************************************************************************)
(* One executor at a time                                                  *)
(***************************************************************************)

\* Nothing is bound at first.
LEMMA InitBound == Init => BoundInv
  BY DEF Init, BoundInv, TakesWhileBound, OnlyScheduler, OrderlyEnd

\* Steps of the queue, the threads and the destructor that leave the executors and their
\* bindings alone.
LEMMA BoundStill ==
  ASSUME TypeInv, BoundInv, UNCHANGED executorVars,
         dpc' = "alive" => dpc = "alive" /\ scheduler' = scheduler,
         OrderlyExit /\ dpc' # "alive" => \A t \in Threads : tpc'[t] = "idle"
  PROVE  BoundInv'
  <1>1. UNCHANGED <<epc, waits, running>>
    BY DEF executorVars
  <1>2. TakesWhileBound' /\ OnlyScheduler'
    BY <1>1 DEF BoundInv, TakesWhileBound, OnlyScheduler
  <1>3. \A e, f \in waits : dpc = "alive" \/ OrderlyExit => e = f
    BY DEF BoundInv, OnlyScheduler, OrderlyEnd
  <1>4. OrderlyEnd'
    BY <1>1, <1>3 DEF OrderlyEnd
  <1> QED
    BY <1>2, <1>4 DEF BoundInv

\* A step of an executor keeps one executor bound.
LEMMA RunBound ==
  ASSUME TypeInv, BoundInv, NEW e \in Executors, Run(e)
  PROVE  BoundInv'
  <1>t. epc \in [Executors -> Labels] /\ waits \subseteq Executors
    BY DEF TypeInv, ExecutorsTyped
  <1>u. /\ UNCHANGED <<tpc, dpc, mtx>> /\ waits' \subseteq waits
        /\ \A f \in Executors \ {e} : epc'[f] = epc[f] /\ running'[f] = running[f]
                                       /\ (f \in waits => f \in waits')
    <2>1. CASE Wake(e) \/ Loop(e) \/ Pop(e) \/ Finish(e) \/ Timeout(e)
      BY <1>t, <2>1 DEF Wake, Loop, Pop, Finish, Timeout, EGoto, threadVars, destructorVars, poolVars
    <2>2. CASE Idle(e)
      BY <1>t, <2>2 DEF Idle, EGoto, threadVars, destructorVars, poolVars
    <2>3. CASE Release(e)
      BY <1>t, <2>3 DEF Release, EGoto, threadVars, destructorVars, TypeInv, ExecutorsTyped
    <2> QED
      BY <2>1, <2>2, <2>3 DEF Run
  <1>e. /\ epc'[e] \in {"pop", "run"} => e \in waits'
        /\ dpc = "alive" /\ epc'[e] \in {"loop", "idle"} => e \in waits'
    <2>b. /\ epc[e] \in {"pop", "run"} => e \in waits
          /\ dpc = "alive" => running[e] # "IS_STOPPING" /\ (epc[e] \in {"loop", "idle"} => e \in waits)
      BY DEF BoundInv, TakesWhileBound, OnlyScheduler
    <2>1. CASE Wake(e)
      BY <1>t, <2>b, <2>1 DEF Wake, EGoto
    <2>2. CASE Loop(e)
      BY <1>t, <2>b, <2>2 DEF Loop, EGoto
    <2>3. CASE Pop(e)
      BY <1>t, <2>b, <2>3 DEF Pop, EGoto
    <2>4. CASE Finish(e)
      BY <1>t, <2>b, <2>4 DEF Finish, EGoto
    <2>5. CASE Idle(e)
      BY <1>t, <2>b, <2>5 DEF Idle, EGoto
    <2>6. CASE Timeout(e) \/ Release(e)
      BY <1>t, <2>6 DEF Timeout, Release, EGoto
    <2> QED
      BY <2>1, <2>2, <2>3, <2>4, <2>5, <2>6 DEF Run
  <1>r. running'[e] = "IS_STOPPING" => running[e] = "IS_STOPPING"
    BY DEF Run, Wake, Loop, Pop, Finish, Idle, Timeout, Release, TypeInv, ExecutorsTyped
  <1>s. dpc = "alive" => waits' \subseteq {scheduler'}
    <2>b. dpc = "alive" => waits \subseteq {scheduler}
      BY DEF BoundInv, OnlyScheduler
    <2>1. CASE Idle(e)
      <3>1. dpc = "alive" => e \in waits /\ running[e] # "IS_STOPPING"
        BY <2>1 DEF Idle, BoundInv, OnlyScheduler
      <3>2. dpc = "alive" => waits = {e}
        BY <2>b, <3>1
      <3>3. CASE delayTasks = <<>>
        BY <2>1, <3>2, <3>3 DEF Idle
      <3>4. CASE delayTasks # <<>>
        BY <2>1, <2>b, <3>4, <1>u DEF Idle
      <3> QED
        BY <3>3, <3>4
    <2>2. CASE ~Idle(e)
      <3>1. scheduler' = scheduler
        BY <2>2 DEF Run, Wake, Loop, Pop, Finish, Timeout, Release, poolVars
      <3> QED
        BY <1>u, <2>b, <3>1
    <2> QED
      BY <2>1, <2>2
  <1>1. TakesWhileBound'
    BY <1>u, <1>e DEF BoundInv, TakesWhileBound
  <1>2. OnlyScheduler'
    BY <1>u, <1>e, <1>r, <1>s DEF BoundInv, OnlyScheduler
  <1>3. OrderlyEnd'
    BY <1>u DEF BoundInv, OrderlyEnd
  <1> QED
    BY <1>1, <1>2, <1>3 DEF BoundInv

\* A thread binds an executor only when there is no scheduler_, so nothing is bound.
LEMMA ScheduleBound ==
  ASSUME TypeInv, BoundInv, NEW t \in Threads, ScheduleStep(t)
  PROVE  BoundInv'
  <1>t. /\ epc \in [Executors -> Labels] /\ waits \subseteq Executors
        /\ tpc \in [Threads -> {"idle", "push", "lock", "bind"}]
    BY DEF TypeInv, ExecutorsTyped, ThreadsTyped
  <1>d. UNCHANGED <<dpc, running>> /\ tpc[t] # "idle"
    BY DEF ScheduleStep, Push, Lock, Bind, executorVars, destructorVars
  <1>o. OrderlyExit => dpc = "alive"
    BY <1>d DEF BoundInv, OrderlyEnd
  <1>1. CASE UNCHANGED <<epc, waits, scheduler>>
    <2>1. TakesWhileBound' /\ OnlyScheduler'
      BY <1>1, <1>d DEF BoundInv, TakesWhileBound, OnlyScheduler
    <2>2. OrderlyEnd'
      BY <1>d, <1>o DEF OrderlyEnd
    <2> QED
      BY <2>1, <2>2 DEF BoundInv
  <1>2. CASE scheduler = 0 /\ Get /\ waits' = waits
    <2>1. \A f \in Executors : epc'[f] = epc[f] \/ epc'[f] = "wait"
      BY <1>2, <1>t DEF Get, EGoto
    <2>2. dpc = "alive" => waits = {}
      BY <1>2, <1>t, PoolAssumption DEF BoundInv, OnlyScheduler, Executors
    <2>3. TakesWhileBound'
      BY <1>2, <2>1 DEF BoundInv, TakesWhileBound
    <2>4. OnlyScheduler'
      BY <1>2, <1>d, <2>1, <2>2 DEF BoundInv, OnlyScheduler
    <2>5. OrderlyEnd'
      BY <1>d, <1>o DEF OrderlyEnd
    <2> QED
      BY <2>3, <2>4, <2>5 DEF BoundInv
  <1>3. CASE Bind(t)
    <2>1. waits' = waits \cup {scheduler} /\ UNCHANGED <<epc, scheduler>>
      BY <1>3 DEF Bind
    <2>2. TakesWhileBound' /\ OnlyScheduler'
      BY <2>1, <1>d DEF BoundInv, TakesWhileBound, OnlyScheduler
    <2>3. OrderlyEnd'
      BY <1>d, <1>o DEF OrderlyEnd
    <2> QED
      BY <2>2, <2>3 DEF BoundInv
  <1>4. CASE Push(t)
    BY <1>1, <1>4 DEF Push, executorVars, poolVars
  <1>5. CASE Lock(t)
    BY <1>1, <1>2, <1>5 DEF Lock, poolVars
  <1> QED
    BY <1>3, <1>4, <1>5 DEF ScheduleStep

\* Every step keeps one executor bound.
LEMMA NextBound == TypeInv /\ BoundInv /\ [Next]_vars => BoundInv'
  <1> SUFFICES ASSUME TypeInv, BoundInv, [Next]_vars PROVE BoundInv'
    OBVIOUS
  <1>o. OrderlyExit /\ dpc # "alive" => \A t \in Threads : tpc[t] = "idle"
    BY DEF BoundInv, OrderlyEnd
  <1>1. CASE UNCHANGED vars
    <2>1. UNCHANGED <<executorVars, dpc, scheduler, tpc>>
      BY <1>1 DEF vars, executorVars, destructorVars, poolVars, threadVars
    <2> QED
      BY <1>o, <2>1, BoundStill
  <1>2. CASE Tick
    <2>1. UNCHANGED <<executorVars, dpc, scheduler, tpc>>
      BY <1>2 DEF Tick, destructorVars, poolVars, threadVars
    <2> QED
      BY <1>o, <2>1, BoundStill
  <1>3. ASSUME NEW t \in Threads, NEW delay, NewTask(t, delay),
               dpc = "alive" \/ ~OrderlyExit
        PROVE  BoundInv'
    <2>1. UNCHANGED <<executorVars, dpc, scheduler>>
      BY <1>3 DEF NewTask, destructorVars, poolVars
    <2> QED
      BY <1>3, <2>1, BoundStill
  <1>4. ASSUME NEW t \in Threads, Execute(t) \/ ScheduleDelayed(t) PROVE BoundInv'
    BY <1>3, <1>4 DEF Execute, ScheduleDelayed
  <1>5. ASSUME NEW t \in Threads, ScheduleStep(t) PROVE BoundInv'
    BY <1>5, ScheduleBound
  <1>6. ASSUME NEW e \in Executors, Run(e) PROVE BoundInv'
    BY <1>6, RunBound
  <1>7. CASE Destroy
    <2>1. UNCHANGED <<executorVars, tpc>> /\ dpc' # "alive"
      BY <1>7 DEF Destroy, threadVars
    <2> QED
      BY <1>7, <2>1, BoundStill DEF Destroy
  <1>8. CASE Clean \/ TakeScheduler \/ Await \/ PoolClean
    <2>1. UNCHANGED <<executorVars, tpc>> /\ dpc' # "alive" /\ dpc # "alive"
      BY <1>8 DEF Clean, TakeScheduler, Await, PoolClean, threadVars
    <2> QED
      BY <1>o, <2>1, BoundStill
  <1>9. CASE Stop
    <2>1. UNCHANGED <<epc, waits, tpc>> /\ dpc' # "alive" /\ dpc # "alive"
      BY <1>9 DEF Stop, threadVars
    <2> QED
      BY <2>1 DEF BoundInv, TakesWhileBound, OnlyScheduler, OrderlyEnd
  <1> QED
    BY <1>1, <1>2, <1>4, <1>5, <1>6, <1>7, <1>8, <1>9 DEF Next, Destructor

\* The bindings are invariant.
LEMMA BoundInvariant == Spec => []BoundInv
  BY TypeInvariant, InitBound, NextBound, PTL DEF Spec

\* No two tasks run at the same time and no two executors serve the queue
\* (executor_pool.h:176-193), for any number of threads, until the destructor begins, and
\* after that as well when it began with no Schedule under way: Pool::Get(true) ignores
\* the capability of the pool, but it is reached only when there is no scheduler_, and
\* then every executor has given its binding back.
THEOREM OneAtATimeHolds == Spec => []OneAtATime
  <1>1. TypeInv /\ BoundInv => OneAtATime
    <2> SUFFICES ASSUME TypeInv, BoundInv, OrderlyExit \/ dpc = "alive"
                 PROVE  Cardinality({e \in Executors : e \in waits \/ epc[e] = "run"}) <= 1
      BY DEF OneAtATime
    <2> DEFINE B == {e \in Executors : e \in waits \/ epc[e] = "run"}
    <2>1. \A e, f \in B : e = f
      BY DEF BoundInv, TakesWhileBound, OnlyScheduler, OrderlyEnd
    <2>2. CASE B = {}
      BY <2>2, FS_EmptySet
    <2>3. CASE B # {}
      <3>1. PICK e : B = {e}
        BY <2>1, <2>3
      <3>2. Cardinality(B) = 1
        BY <3>1, FS_Singleton
      <3> QED
        BY <3>2
    <2> QED
      BY <2>2, <2>3
  <1> QED
    BY <1>1, TypeInvariant, BoundInvariant, PTL

-----------------------------------------------------------------------------
(***************************************************************************)
(* Nobody is left when the destructor ends                                 *)
(***************************************************************************)

\* The pool begins without executors.
LEMMA InitNode == Init => HasNode /\ DoneEmpty
  BY DEF Init, HasNode, DoneEmpty

\* Nodes follow the executors through Pool::Idle and Pool::Release.
LEMMA RunNode ==
  ASSUME TypeInv, HasNode, DoneEmpty, NEW e \in Executors, Run(e)
  PROVE  HasNode' /\ DoneEmpty'
  <1>t. epc \in [Executors -> Labels] /\ dpc' = dpc
    BY DEF TypeInv, ExecutorsTyped, Run, Wake, Loop, Pop, Finish, Idle, Timeout, Release,
           destructorVars
  <1>1. \A f \in Executors \ {e} : epc'[f] = epc[f]
    BY <1>t DEF Run, Wake, Loop, Pop, Finish, Idle, Timeout, Release, EGoto
  <1>2. epc[e] \notin {"new", "exited"}
    BY DEF Run, Wake, Loop, Pop, Finish, Idle, Timeout, Release
  <1>3. e \in busy \cup idle
    BY <1>2 DEF HasNode
  <1>4. CASE Wake(e) \/ Loop(e) \/ Pop(e) \/ Finish(e) \/ Timeout(e)
    <2>1. UNCHANGED <<busy, idle>>
      BY <1>4 DEF Wake, Loop, Pop, Finish, Timeout, poolVars
    <2> QED
      BY <1>t, <1>1, <1>3, <2>1 DEF HasNode, DoneEmpty
  <1>5. CASE Idle(e)
    <2>1. busy' \cup idle' = busy \cup idle
      BY <1>3, <1>5 DEF Idle
    <2> QED
      BY <1>t, <1>1, <1>3, <2>1 DEF HasNode, DoneEmpty
  <1>6. CASE Release(e) /\ e \in idle
    <2>1. busy' = busy /\ idle' = idle \ {e} /\ epc'[e] = "exited"
      BY <1>t, <1>6 DEF Release, EGoto
    <2> QED
      BY <1>t, <1>1, <2>1 DEF HasNode, DoneEmpty
  <1>7. CASE Release(e) /\ e \notin idle
    <2>1. UNCHANGED <<busy, idle>>
      BY <1>7 DEF Release
    <2> QED
      BY <1>t, <1>1, <1>3, <2>1 DEF HasNode, DoneEmpty
  <1> QED
    BY <1>4, <1>5, <1>6, <1>7 DEF Run

\* An executor is never without a node, and the destructor ends with an empty pool.
LEMMA NextNode ==
  TypeInv /\ BoundInv /\ HasNode /\ DoneEmpty /\ [Next]_vars => HasNode' /\ DoneEmpty'
  <1> SUFFICES ASSUME TypeInv, BoundInv, HasNode, DoneEmpty, [Next]_vars
               PROVE  HasNode' /\ DoneEmpty'
    OBVIOUS
  <1>s. ASSUME UNCHANGED <<epc, busy, idle>>, dpc' = "done" => dpc = "done" \/ busy \cup idle = {}
        PROVE  HasNode' /\ DoneEmpty'
    BY <1>s DEF HasNode, DoneEmpty
  <1>1. CASE UNCHANGED vars
    BY <1>1, <1>s DEF vars, executorVars, poolVars, destructorVars
  <1>2. CASE Tick
    BY <1>2, <1>s DEF Tick, executorVars, poolVars, destructorVars
  <1>3. ASSUME NEW t \in Threads, Execute(t) \/ ScheduleDelayed(t) PROVE HasNode' /\ DoneEmpty'
    BY <1>3, <1>s DEF Execute, ScheduleDelayed, NewTask, executorVars, poolVars, destructorVars
  <1>4. ASSUME NEW t \in Threads, ScheduleStep(t) PROVE HasNode' /\ DoneEmpty'
    <2>d. UNCHANGED dpc /\ tpc[t] # "idle"
      BY <1>4 DEF ScheduleStep, Push, Lock, Bind, destructorVars
    <2>o. ~(OrderlyExit /\ dpc' = "done")
      BY <2>d DEF BoundInv, OrderlyEnd
    <2>1. CASE UNCHANGED <<epc, busy, idle>>
      BY <1>s, <2>1, <2>d
    <2>2. CASE tpc[t] = "lock" /\ Get
      <3>1. /\ busy' \cup idle' = busy \cup idle \cup {scheduler'}
            /\ \A f \in Executors \ {scheduler'} : epc'[f] = epc[f]
        BY <2>2 DEF Get, EGoto, TypeInv, ExecutorsTyped
      <3> QED
        BY <2>o, <3>1 DEF HasNode, DoneEmpty
    <2> QED
      BY <1>4, <2>1, <2>2 DEF ScheduleStep, Push, Lock, Bind, executorVars, poolVars
  <1>5. ASSUME NEW e \in Executors, Run(e) PROVE HasNode' /\ DoneEmpty'
    BY <1>5, RunNode
  <1>6. CASE Destroy \/ Destructor
    BY <1>6, <1>s DEF Destroy, Destructor, Clean, TakeScheduler, Stop, Await, PoolClean,
                     executorVars, poolVars
  <1> QED
    BY <1>1, <1>2, <1>3, <1>4, <1>5, <1>6 DEF Next

\* No executor uses the pool after its destructor (executor_pool.h:55-75), when no Schedule
\* is under way as it begins: Pool::Clean looks at the busy list and the idle list until
\* both are empty, and an executor is in one of them until its release_ callback.
THEOREM NoneAfterDestroyHolds == Spec => []NoneAfterDestroy
  <1>1. Spec => [](HasNode /\ DoneEmpty)
    BY TypeInvariant, BoundInvariant, InitNode, NextNode, PTL DEF Spec
  <1>2. HasNode /\ DoneEmpty => NoneAfterDestroy
    BY DEF HasNode, DoneEmpty, NoneAfterDestroy
  <1> QED
    BY <1>1, <1>2, PTL

-----------------------------------------------------------------------------
(***************************************************************************)
(* The order of the tasks                                                  *)
(***************************************************************************)

\* There is no task at first.
LEMMA InitOrder == Init => OrderInv
  <1> SUFFICES ASSUME Init PROVE OrderInv
    OBVIOUS
  <1>1. delayTasks = <<>> /\ Len(delayTasks) = 0
    BY DEF Init
  <1>2. Queued = {}
    BY <1>1 DEF Queued
  <1>3. KnownTasks /\ Pushed /\ OrderKept
    BY <1>2 DEF Init, KnownTasks, Pushed, OrderKept
  <1>4. QueueOrder
    BY <1>1 DEF QueueOrder
  <1> QED
    BY <1>3, <1>4 DEF OrderInv

\* Steps that leave the queue alone.
LEMMA OrderStill ==
  ASSUME TypeInv, OrderInv, UNCHANGED <<delayTasks, due, earlier, started, made>>,
         ended \subseteq ended', dpc' = "alive" => dpc = "alive",
         dpc = "alive" => /\ ended' \subseteq started \cup Queued
                          /\ \A t \in Threads : tpc'[t] \in {"lock", "bind"} =>
                                                   task'[t] \in started \cup Queued
  PROVE  OrderInv'
  <1>1. Queued' = Queued
    BY DEF Queued
  <1>2. KnownTasks'
    BY <1>1 DEF OrderInv, KnownTasks
  <1>3. Pushed'
    BY <1>1 DEF Pushed
  <1>4. QueueOrder' /\ OrderKept'
    BY DEF OrderInv, QueueOrder, OrderKept
  <1> QED
    BY <1>2, <1>3, <1>4 DEF OrderInv

\* A new task is in nobody's past.
LEMMA NewTaskOrder ==
  ASSUME TypeInv, OrderInv, NEW t \in Threads, NEW delay \in Nat, NewTask(t, delay)
  PROVE  OrderInv'
  <1>t. /\ made \in Nat /\ made + 1 \in Tasks /\ made + 1 \notin 1 .. made
        /\ 1 .. made \subseteq 1 .. made + 1
        /\ due \in [Tasks -> 0 .. MaxClock] /\ earlier \in [Tasks -> SUBSET Tasks]
        /\ tpc \in [Threads -> {"idle", "push", "lock", "bind"}]
        /\ ended \subseteq 1 .. made /\ 1 .. made \subseteq Tasks
    BY PoolAssumption DEF NewTask, TypeInv, QueueTyped, ThreadsTyped, OwnTasks, Tasks
  <1>u. /\ UNCHANGED <<delayTasks, started, ended, dpc>> /\ made' = made + 1
        /\ \A i \in 1 .. made : due'[i] = due[i] /\ earlier'[i] = earlier[i]
        /\ \A i \in Tasks : earlier'[i] = earlier[i] \/ earlier'[i] = ended
        /\ \A u \in Threads : tpc'[u] \in {"lock", "bind"} => tpc'[u] = tpc[u] /\ task'[u] = task[u]
    BY <1>t DEF NewTask, destructorVars, TypeInv, ThreadsTyped
  <1>q. Queued' = Queued
    BY <1>u DEF Queued
  <1>1. KnownTasks'
    <2>1. Queued \subseteq 1 .. made /\ started \subseteq 1 .. made
      BY DEF OrderInv, KnownTasks
    <2>2. \A i \in Tasks : earlier'[i] \subseteq ended'
      BY <1>u DEF OrderInv, KnownTasks
    <2> QED
      BY <1>t, <1>u, <1>q, <2>1, <2>2 DEF KnownTasks
  <1>2. Pushed'
    BY <1>u, <1>q DEF OrderInv, Pushed
  <1>k. \A i \in 1 .. made : \A j \in earlier[i] : j \in 1 .. made
    BY <1>t DEF OrderInv, KnownTasks
  <1>3. QueueOrder'
    <2>1. \A a \in 1 .. Len(delayTasks) : delayTasks[a] \in 1 .. made
      BY DEF OrderInv, KnownTasks, Queued
    <2>2. \A a \in 1 .. Len(delayTasks) : due'[delayTasks[a]] = due[delayTasks[a]]
                                          /\ earlier'[delayTasks[a]] = earlier[delayTasks[a]]
      BY <1>u, <2>1
    <2> QED
      BY <1>u, <2>2 DEF OrderInv, QueueOrder
  <1>4. OrderKept'
    <2>1. started \subseteq 1 .. made
      BY DEF OrderInv, KnownTasks
    <2>2. \A i \in started : earlier'[i] = earlier[i] /\ due'[i] = due[i]
                             /\ \A j \in earlier[i] : due'[j] = due[j]
      BY <1>u, <1>k, <2>1
    <2> QED
      BY <1>u, <2>2 DEF OrderInv, OrderKept
  <1> QED
    BY <1>1, <1>2, <1>3, <1>4 DEF OrderInv

\* A task is put behind every task in the queue that is due no later, and no task has one
\* in its past whose Schedule has not ended.
LEMMA PushOrder ==
  ASSUME TypeInv, OrderInv, NEW t \in Threads, Push(t)
  PROVE  OrderInv'
  <1> DEFINE id == task[t]
             n == Len(delayTasks)
  <1>t. /\ delayTasks \in Seq(Tasks) /\ n \in Nat /\ id \in Tasks /\ id \in 1 .. made
        /\ id \notin ended
        /\ \A a \in 1 .. n : delayTasks[a] \in Tasks
        /\ tpc \in [Threads -> {"idle", "push", "lock", "bind"}]
    BY PoolAssumption, SMTT(30) DEF Push, TypeInv, QueueTyped, ThreadsTyped, OwnTasks, Tasks
  <1>u. /\ UNCHANGED <<due, earlier, started, made, ended, task, dpc>>
        /\ tpc' = [tpc EXCEPT ![t] = "lock"]
    BY DEF Push, destructorVars
  <1>p. PICK k \in 0 .. n :
           /\ \A a \in 1 .. n : a <= k <=> due[delayTasks[a]] <= due[id]
           /\ delayTasks' = Inserted(k, id)
    BY DEF Push
  <1>e. /\ Len(delayTasks') = n + 1 /\ k \in Nat /\ k <= n
        /\ \A a \in 1 .. k : delayTasks'[a] = delayTasks[a]
        /\ delayTasks'[k + 1] = id
        /\ \A a \in k + 2 .. n + 1 : delayTasks'[a] = delayTasks[a - 1]
    BY <1>t, <1>p, InsertedElements
  <1> HIDE DEF id, n
  <1>q. Queued' = Queued \cup {id}
    <2>1. ASSUME NEW x \in Queued PROVE x \in Queued'
      <3>1. PICK a \in 1 .. n : x = delayTasks[a]
        BY <2>1 DEF Queued, n
      <3>2. CASE a <= k
        <4>1. a \in 1 .. k /\ a \in 1 .. n + 1
          BY <1>t, <1>e, <3>2
        <4> QED
          BY <1>e, <3>1, <4>1 DEF Queued
      <3>3. CASE ~(a <= k)
        <4>1. a + 1 \in k + 2 .. n + 1 /\ a + 1 \in 1 .. n + 1 /\ a + 1 - 1 = a
          BY <1>t, <1>e, <3>3
        <4>2. delayTasks'[a + 1] = delayTasks[a]
          BY <1>e, <4>1
        <4> QED
          BY <1>e, <3>1, <4>1, <4>2 DEF Queued
      <3> QED
        BY <3>2, <3>3
    <2>2. id \in Queued'
      <3>1. k + 1 \in 1 .. n + 1
        BY <1>t, <1>e
      <3> QED
        BY <1>e, <3>1 DEF Queued
    <2>3. ASSUME NEW x \in Queued' PROVE x \in Queued \cup {id}
      <3>1. PICK a \in 1 .. n + 1 : x = delayTasks'[a]
        BY <1>e, <2>3 DEF Queued
      <3>2. \/ a \in 1 .. k /\ a \in 1 .. n
            \/ a = k + 1
            \/ a \in k + 2 .. n + 1 /\ a - 1 \in 1 .. n
        BY <1>t, <1>e
      <3> QED
        BY <1>e, <3>1, <3>2 DEF Queued, n
    <2> QED
      BY <2>1, <2>2, <2>3
  <1>1. KnownTasks'
    BY <1>t, <1>u, <1>q DEF OrderInv, KnownTasks
  <1>2. Pushed'
    <2>1. \A u \in Threads : u # t => tpc'[u] = tpc[u]
      BY <1>t, <1>u
    <2> QED
      BY <1>u, <1>q, <2>1 DEF OrderInv, Pushed, id
  <1>3. QueueOrder'
    <2>1. SUFFICES ASSUME NEW a \in 1 .. n + 1, NEW b \in 1 .. n + 1,
                          delayTasks'[b] \in earlier[delayTasks'[a]],
                          due[delayTasks'[b]] <= due[delayTasks'[a]]
                   PROVE  b < a
      BY <1>u, <1>e DEF QueueOrder
    <2>2. \A c \in 1 .. n + 1 :
             \/ c \in 1 .. k /\ c \in 1 .. n /\ delayTasks'[c] = delayTasks[c]
             \/ c = k + 1 /\ delayTasks'[c] = id
             \/ c \in k + 2 .. n + 1 /\ c - 1 \in 1 .. n /\ delayTasks'[c] = delayTasks[c - 1]
      <3> TAKE c \in 1 .. n + 1
      <3>1. \/ c \in 1 .. k /\ c \in 1 .. n
            \/ c = k + 1
            \/ c \in k + 2 .. n + 1 /\ c - 1 \in 1 .. n
        BY <1>t, <1>e
      <3> QED
        BY <1>e, <3>1
    <2>3. \A c \in 1 .. n + 1 : delayTasks'[c] \in Tasks
      BY <1>t, <2>2
    <2>4. delayTasks'[b] # id
      BY <1>t, <2>1, <2>3 DEF OrderInv, KnownTasks
    <2>o. \A c, d \in 1 .. n :
             delayTasks[d] \in earlier[delayTasks[c]] /\ due[delayTasks[d]] <= due[delayTasks[c]]
                => d < c
      BY DEF OrderInv, QueueOrder, n
    <2>5. CASE a \in 1 .. k /\ a \in 1 .. n /\ delayTasks'[a] = delayTasks[a]
      <3>1. CASE b \in 1 .. k /\ b \in 1 .. n /\ delayTasks'[b] = delayTasks[b]
        BY <2>1, <2>o, <2>5, <3>1
      <3>2. CASE b \in k + 2 .. n + 1 /\ b - 1 \in 1 .. n /\ delayTasks'[b] = delayTasks[b - 1]
        <4>1. b - 1 < a
          BY <2>1, <2>o, <2>5, <3>2
        <4> QED
          BY <1>t, <1>e, <2>5, <3>2, <4>1
      <3> QED
        BY <2>2, <2>4, <3>1, <3>2
    <2>6. CASE a = k + 1 /\ delayTasks'[a] = id
      <3>1. CASE b \in 1 .. k
        BY <1>e, <2>6, <3>1
      <3>2. CASE b \in k + 2 .. n + 1 /\ b - 1 \in 1 .. n /\ delayTasks'[b] = delayTasks[b - 1]
        <4>1. b - 1 <= k
          BY <1>p, <2>1, <2>6, <3>2
        <4> QED
          BY <1>t, <1>e, <3>2, <4>1
      <3> QED
        BY <2>2, <2>4, <3>1, <3>2
    <2>7. CASE a \in k + 2 .. n + 1 /\ a - 1 \in 1 .. n /\ delayTasks'[a] = delayTasks[a - 1]
      <3>1. CASE b \in 1 .. k
        BY <1>t, <1>e, <2>7, <3>1
      <3>2. CASE b \in k + 2 .. n + 1 /\ b - 1 \in 1 .. n /\ delayTasks'[b] = delayTasks[b - 1]
        <4>1. b - 1 < a - 1
          BY <2>1, <2>o, <2>7, <3>2
        <4> QED
          BY <1>t, <4>1
      <3> QED
        BY <2>2, <2>4, <3>1, <3>2
    <2> QED
      BY <2>2, <2>5, <2>6, <2>7
  <1>4. OrderKept'
    BY <1>u DEF OrderInv, OrderKept
  <1> QED
    BY <1>1, <1>2, <1>3, <1>4 DEF OrderInv

\* The task that is taken has nothing in the queue before it that should have gone first.
LEMMA PopOrder ==
  ASSUME TypeInv, OrderInv, NEW e \in Executors, Pop(e)
  PROVE  OrderInv'
  <1>u. UNCHANGED <<due, earlier, made, ended, tpc, task, dpc>>
    BY DEF Pop, threadVars, destructorVars
  <1>1. CASE UNCHANGED <<delayTasks, started>>
    <2>1. dpc = "alive" => /\ ended' \subseteq started \cup Queued
                           /\ \A t \in Threads : tpc'[t] \in {"lock", "bind"} =>
                                                    task'[t] \in started \cup Queued
      BY <1>u DEF OrderInv, Pushed
    <2> QED
      BY <1>1, <1>u, <2>1, OrderStill
  <1>2. CASE /\ delayTasks # <<>> /\ delayTasks' = Tail(delayTasks)
             /\ started' = started \cup {Head(delayTasks)}
    <2> DEFINE n == Len(delayTasks)
               h == delayTasks[1]
    <2>t. /\ delayTasks \in Seq(Tasks) /\ n \in Nat /\ n >= 1
          /\ \A a \in 1 .. n : delayTasks[a] \in Tasks
      BY <1>2, EmptySeq DEF TypeInv, QueueTyped
    <2>e. /\ Head(delayTasks) = h /\ h \in Tasks
          /\ Len(delayTasks') = n - 1
          /\ \A a \in 1 .. n - 1 : delayTasks'[a] = delayTasks[a + 1]
      BY <1>2, <2>t, HeadTailProperties
    <2> HIDE DEF n, h
    <2>q. Queued = Queued' \cup {h}
      <3>1. ASSUME NEW x \in Queued PROVE x \in Queued' \cup {h}
        <4>1. PICK a \in 1 .. n : x = delayTasks[a]
          BY <3>1 DEF Queued, n
        <4>2. CASE a = 1
          BY <4>1, <4>2 DEF h
        <4>3. CASE a # 1
          <5>1. a - 1 \in 1 .. n - 1 /\ a - 1 + 1 = a
            BY <2>t, <4>3
          <5>2. delayTasks'[a - 1] = x
            BY <2>e, <4>1, <5>1
          <5> QED
            BY <2>e, <5>1, <5>2 DEF Queued
        <4> QED
          BY <4>2, <4>3
      <3>2. ASSUME NEW x \in Queued' PROVE x \in Queued
        <4>1. PICK a \in 1 .. n - 1 : x = delayTasks'[a]
          BY <2>e, <3>2 DEF Queued
        <4>2. a + 1 \in 1 .. n /\ x = delayTasks[a + 1]
          BY <2>t, <2>e, <4>1
        <4> QED
          BY <4>2 DEF Queued, n
      <3>3. h \in Queued
        <4>1. 1 \in 1 .. n
          BY <2>t
        <4> QED
          BY <4>1 DEF Queued, n, h
      <3> QED
        BY <3>1, <3>2, <3>3
    <2>1. KnownTasks'
      BY <1>2, <1>u, <2>e, <2>q DEF OrderInv, KnownTasks
    <2>2. Pushed'
      <3>1. started' \cup Queued' = started \cup Queued
        BY <1>2, <2>e, <2>q
      <3> QED
        BY <1>u, <3>1 DEF OrderInv, Pushed
    <2>3. QueueOrder'
      <3>1. SUFFICES ASSUME NEW a \in 1 .. n - 1, NEW b \in 1 .. n - 1,
                            delayTasks'[b] \in earlier[delayTasks'[a]],
                            due[delayTasks'[b]] <= due[delayTasks'[a]]
                     PROVE  b < a
        BY <1>u, <2>e DEF QueueOrder
      <3>2. /\ a + 1 \in 1 .. n /\ b + 1 \in 1 .. n
            /\ delayTasks'[a] = delayTasks[a + 1] /\ delayTasks'[b] = delayTasks[b + 1]
        BY <2>t, <2>e
      <3>3. b + 1 < a + 1
        BY <3>1, <3>2 DEF OrderInv, QueueOrder, n
      <3> QED
        BY <2>t, <3>3
    <2>4. OrderKept'
      <3> SUFFICES ASSUME dpc = "alive", NEW i \in started', NEW j \in earlier[i],
                          due[j] <= due[i]
                   PROVE  j \in started'
        BY <1>u DEF OrderKept
      <3>1. CASE i \in started
        BY <1>2, <3>1 DEF OrderInv, OrderKept
      <3>2. CASE i = h
        <4>1. j \in started \cup Queued
          BY <2>e, <3>2 DEF OrderInv, KnownTasks, Pushed
        <4>2. j \notin Queued
          <5>1. SUFFICES ASSUME NEW b \in 1 .. n, j = delayTasks[b] PROVE FALSE
            BY DEF Queued, n
          <5>2. 1 \in 1 .. n
            BY <2>t
          <5>3. b < 1
            BY <3>2, <5>1, <5>2 DEF OrderInv, QueueOrder, n, h
          <5> QED
            BY <2>t, <5>3
        <4> QED
          BY <1>2, <4>1, <4>2
      <3> QED
        BY <1>2, <2>e, <3>1, <3>2
    <2> QED
      BY <2>1, <2>2, <2>3, <2>4 DEF OrderInv
  <1> QED
    BY <1>1, <1>2 DEF Pop

\* Every step keeps the order.
LEMMA NextOrder == TypeInv /\ OrderInv /\ [Next]_vars => OrderInv'
  <1> SUFFICES ASSUME TypeInv, OrderInv, [Next]_vars PROVE OrderInv'
    OBVIOUS
  <1>p. dpc = "alive" => /\ ended \subseteq started \cup Queued
                         /\ \A t \in Threads : tpc[t] \in {"lock", "bind"} =>
                                                  task[t] \in started \cup Queued
    BY DEF OrderInv, Pushed
  <1>s. ASSUME UNCHANGED <<delayTasks, due, earlier, started, made, ended, tpc, task>>,
               dpc' = "alive" => dpc = "alive"
        PROVE  OrderInv'
    BY <1>p, <1>s, OrderStill
  <1>1. CASE UNCHANGED vars
    BY <1>1, <1>s DEF vars, queueVars, threadVars, destructorVars
  <1>2. CASE Tick
    BY <1>2, <1>s DEF Tick, threadVars, destructorVars
  <1>3. ASSUME NEW t \in Threads, Execute(t) \/ ScheduleDelayed(t) PROVE OrderInv'
    <2>1. \E delay \in Nat : NewTask(t, delay)
      BY <1>3, PoolAssumption DEF Execute, ScheduleDelayed
    <2> QED
      BY <2>1, NewTaskOrder
  <1>4. ASSUME NEW t \in Threads, Lock(t) \/ Bind(t) PROVE OrderInv'
    <2>1. /\ UNCHANGED <<delayTasks, due, earlier, started, made, dpc>>
          /\ tpc[t] \in {"lock", "bind"}
          /\ \/ Return(t)
             \/ tpc' = [tpc EXCEPT ![t] = "bind"] /\ UNCHANGED <<task, ended>>
      BY <1>4 DEF Lock, Bind, queueVars, destructorVars
    <2>2. tpc \in [Threads -> {"idle", "push", "lock", "bind"}] /\ task \in [Threads -> Tasks \cup {0}]
      BY DEF TypeInv, ThreadsTyped
    <2>3. /\ ended' = ended \/ ended' = ended \cup {task[t]}
          /\ \A u \in Threads : tpc'[u] \in {"lock", "bind"} =>
                                   tpc[u] \in {"lock", "bind"} /\ task'[u] = task[u]
      BY <2>1, <2>2 DEF Return
    <2> QED
      BY <1>p, <2>1, <2>3, OrderStill
  <1>5. ASSUME NEW t \in Threads, Push(t) PROVE OrderInv'
    BY <1>5, PushOrder
  <1>6. ASSUME NEW e \in Executors, Run(e) PROVE OrderInv'
    <2>1. CASE Pop(e)
      BY <2>1, PopOrder
    <2>2. CASE ~Pop(e)
      <3>1. UNCHANGED <<queueVars, threadVars, destructorVars, started>>
        BY <1>6, <2>2 DEF Run, Wake, Loop, Finish, Idle, Timeout, Release
      <3> QED
        BY <1>s, <3>1 DEF queueVars, threadVars, destructorVars
    <2> QED
      BY <2>1, <2>2
  <1>7. CASE Destroy \/ TakeScheduler \/ Stop \/ Await \/ PoolClean
    <2>1. UNCHANGED <<queueVars, threadVars, started>> /\ dpc' # "alive"
      BY <1>7 DEF Destroy, TakeScheduler, Stop, Await, PoolClean
    <2> QED
      BY <1>s, <2>1 DEF queueVars, threadVars
  <1>8. CASE Clean
    <2>1. /\ delayTasks' = <<>> /\ dpc' # "alive" /\ Len(delayTasks') = 0
          /\ UNCHANGED <<made, started, earlier, ended>>
      BY <1>8 DEF Clean, threadVars
    <2>2. Queued' = {}
      BY <2>1 DEF Queued
    <2>3. KnownTasks' /\ Pushed' /\ OrderKept'
      BY <2>1, <2>2 DEF OrderInv, KnownTasks, Pushed, OrderKept
    <2>4. QueueOrder'
      BY <2>1 DEF QueueOrder
    <2> QED
      BY <2>3, <2>4 DEF OrderInv
  <1> QED
    BY <1>1, <1>2, <1>3, <1>4, <1>5, <1>6, <1>7, <1>8 DEF Next, ScheduleStep, Destructor

\* Tasks are started in the order they were given (priority_queue.h:45-75), whatever
\* threads schedule them and with whatever delays: a task whose Schedule had ended before
\* that of another one began, and that is due no later, is started before it.
THEOREM OrderKeptHolds == Spec => []OrderKept
  <1>1. Spec => []OrderInv
    BY TypeInvariant, InitOrder, NextOrder, PTL DEF Spec
  <1>2. OrderInv => OrderKept
    BY DEF OrderInv
  <1> QED
    BY <1>1, <1>2, PTL
=============================================================================
