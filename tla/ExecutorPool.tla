----------------------------- MODULE ExecutorPool -----------------------------
(***************************************************************************)
(* ExecutorPool(1, 0), on which preferences run their load, flush and        *)
(* notification tasks: executor_pool.h, executor.h, pool.h and              *)
(* priority_queue.h under frameworks/native/include.                        *)
(*                                                                         *)
(* With max = 1 there is no execs_: one executor, the scheduler_, takes the  *)
(* tasks from delayTasks_ and runs them.  It goes idle when the queue is     *)
(* empty, is bound again by the next task, and ends after two idle seconds.  *)
(* An executor holds its mutex_ except while it waits or runs a task, so    *)
(* Bind and Stop find it there.                                             *)
(*                                                                         *)
(* External: threads are scheduled fairly, tasks end, the clock advances.    *)
(***************************************************************************)
EXTENDS Naturals, Sequences, FiniteSets

CONSTANTS
    Threads,
    NoThread,
    MaxTasks,       \* bound: tasks given to the pool
    TASK_EXEC_TIME, \* the delay of a flush
    OrderlyExit,    \* the destructor starts when no Schedule is under way, and an
                    \* executor does not time out between its choice and its Stop
    MaxClock        \* bound: the clock

ASSUME PoolAssumption ==
    /\ NoThread \notin Threads
    /\ MaxTasks \in Nat \ {0}
    /\ TASK_EXEC_TIME \in Nat /\ MaxClock \in Nat
    /\ OrderlyExit \in BOOLEAN

Tasks == 1 .. MaxTasks

\* Every Schedule makes one executor at most.
Executors == 1 .. MaxTasks

VARIABLES
    clock,
    delayTasks,     \* task ids in the order of their times
    due,            \* the time of each task
    mtx,            \* ExecutorPool::mtx_: a thread that binds, or NoThread
    scheduler,      \* scheduler_, 0 for nullptr
    idle, busy,     \* the nodes of Pool
    epc,            \* where each executor is in Run
    waits,          \* executors whose waits_ is set
    running,        \* RUNNING, IS_STOPPING or STOPPED
    currentTask,
    tpc, task,      \* each thread, and the task it schedules
    dpc, picked,    \* the destructor, and the executor it stops
    made,           \* tasks made
    earlier,        \* history: tasks whose Schedule had ended when this one's began
    ended,          \* history: tasks whose Schedule has ended
    started         \* history: tasks that have been started

queueVars == <<clock, delayTasks, due>>
poolVars == <<mtx, scheduler, idle, busy>>
executorVars == <<epc, waits, running, currentTask>>
threadVars == <<tpc, task, made, earlier, ended>>
destructorVars == <<dpc, picked>>
vars == <<queueVars, poolVars, executorVars, threadVars, destructorVars, started>>

Init ==
    /\ clock = 0
    /\ delayTasks = <<>>
    /\ due = [i \in Tasks |-> 0]
    /\ mtx = NoThread
    /\ scheduler = 0
    /\ idle = {} /\ busy = {}
    /\ epc = [e \in Executors |-> "new"]
    /\ waits = {}
    /\ running = [e \in Executors |-> "RUNNING"]
    /\ currentTask = [e \in Executors |-> 0]
    /\ tpc = [t \in Threads |-> "idle"]
    /\ task = [t \in Threads |-> 0]
    /\ dpc = "alive"
    /\ picked = 0
    /\ made = 0
    /\ earlier = [i \in Tasks |-> {}]
    /\ ended = {}
    /\ started = {}

\* An executor that holds its mutex_; Pop waits with it.
Holding(e) == epc[e] \in {"loop", "pop", "idle", "release"}

EGoto(e, label) == epc' = [epc EXCEPT ![e] = label]

Tick ==
    /\ clock < MaxClock
    /\ clock' = clock + 1
    /\ UNCHANGED <<delayTasks, due, poolVars, executorVars, threadVars, destructorVars,
                   started>>

-----------------------------------------------------------------------------
(***************************************************************************)
(* Execute and Schedule                                                    *)
(***************************************************************************)

\* GenTaskId and the time of the task.
NewTask(t, delay) ==
    /\ tpc[t] = "idle" /\ made < MaxTasks /\ clock + delay <= MaxClock
    /\ made' = made + 1
    /\ due' = [due EXCEPT ![made + 1] = clock + delay]
    /\ earlier' = [earlier EXCEPT ![made + 1] = ended]
    /\ task' = [task EXCEPT ![t] = made + 1]
    /\ tpc' = [tpc EXCEPT ![t] = "push"]
    /\ UNCHANGED <<clock, delayTasks, poolVars, executorVars, destructorVars, ended,
                   started>>

\* Refused once the destructor has begun.
Execute(t) == dpc = "alive" /\ NewTask(t, 0)

\* Schedule with a delay does not look at poolStatus.
ScheduleDelayed(t) ==
    /\ dpc = "alive" \/ (~OrderlyExit /\ dpc # "done")
    /\ NewTask(t, TASK_EXEC_TIME)

\* The queue with a task after its first k ones.
Inserted(k, id) ==
    SubSeq(delayTasks, 1, k) \o <<id>> \o SubSeq(delayTasks, k + 1, Len(delayTasks))

\* Mutant: a task goes before the tasks of the same time.
PushBeforeEqual(t) ==
    LET id == task[t] IN
    /\ tpc[t] = "push"
    /\ \E k \in 0 .. Len(delayTasks) :
          /\ \A a \in 1 .. Len(delayTasks) : a <= k <=> due[delayTasks[a]] < due[id]
          /\ delayTasks' = Inserted(k, id)
    /\ tpc' = [tpc EXCEPT ![t] = "lock"]
    /\ UNCHANGED <<clock, due, poolVars, executorVars, task, made, earlier, ended,
                   destructorVars, started>>

\* PriorityQueue::Push: emplace puts a task after the tasks of the same time.
Push(t) ==
    LET id == task[t] IN
    /\ tpc[t] = "push"
    /\ \E k \in 0 .. Len(delayTasks) :
          /\ \A a \in 1 .. Len(delayTasks) : a <= k <=> due[delayTasks[a]] <= due[id]
          /\ delayTasks' = Inserted(k, id)
    /\ tpc' = [tpc EXCEPT ![t] = "lock"]
    /\ UNCHANGED <<clock, due, poolVars, executorVars, task, made, earlier, ended,
                   destructorVars, started>>

Return(t) ==
    /\ tpc' = [tpc EXCEPT ![t] = "idle"]
    /\ task' = [task EXCEPT ![t] = 0]
    /\ ended' = ended \cup {task[t]}

FreshExecutor == CHOOSE e \in Executors : epc[e] = "new"

\* Pool::Get(true): an idle executor, or a new one whatever the capability is.
Get ==
    LET e == IF idle # {} THEN CHOOSE i \in idle : TRUE ELSE FreshExecutor IN
    /\ idle' = idle \ {e}
    /\ busy' = busy \cup {e}
    /\ scheduler' = e
    /\ IF epc[e] = "new" THEN EGoto(e, "wait") ELSE UNCHANGED epc

\* Mutant: scheduler_ is not looked at.
LockBindsAnother(t) ==
    /\ tpc[t] = "lock" /\ mtx = NoThread
    /\ Get
    /\ mtx' = t
    /\ tpc' = [tpc EXCEPT ![t] = "bind"]
    /\ UNCHANGED <<queueVars, waits, running, currentTask, task, made, earlier, ended,
                   destructorVars, started>>

\* Under mtx_: nothing to do while there is a scheduler_.
Lock(t) ==
    /\ tpc[t] = "lock" /\ mtx = NoThread
    /\ \/ /\ scheduler # 0
          /\ Return(t)
          /\ UNCHANGED <<poolVars, epc>>
       \/ /\ scheduler = 0
          /\ Get
          /\ mtx' = t
          /\ tpc' = [tpc EXCEPT ![t] = "bind"]
          /\ UNCHANGED <<task, ended>>
    /\ UNCHANGED <<queueVars, waits, running, currentTask, made, earlier, destructorVars, started>>

Bind(t) ==
    /\ tpc[t] = "bind" /\ ~Holding(scheduler)
    /\ waits' = waits \cup {scheduler}
    /\ mtx' = NoThread
    /\ Return(t)
    /\ UNCHANGED <<queueVars, scheduler, idle, busy, epc, running, currentTask, made, earlier,
                   destructorVars, started>>

-----------------------------------------------------------------------------
(***************************************************************************)
(* Executor::Run                                                           *)
(***************************************************************************)

\* condition_.wait, and wait_until when Bind comes in time.
Wake(e) ==
    /\ \/ epc[e] = "wait" /\ (running[e] = "IS_STOPPING" \/ e \in waits)
       \/ epc[e] = "timed" /\ e \in waits
    /\ EGoto(e, "loop")
    /\ UNCHANGED <<queueVars, poolVars, waits, running, currentTask, threadVars, destructorVars, started>>

\* The condition of the inner loop.
Loop(e) ==
    /\ epc[e] = "loop"
    /\ EGoto(e, IF running[e] = "RUNNING" /\ e \in waits /\ delayTasks # <<>>
                THEN "pop" ELSE "idle")
    /\ UNCHANGED <<queueVars, poolVars, waits, running, currentTask, threadVars, destructorVars, started>>

\* PriorityQueue::Pop: the first task when it is due, INVALID_TSK from an emptied queue.
Pop(e) ==
    /\ epc[e] = "pop"
    /\ \/ /\ delayTasks # <<>> /\ due[Head(delayTasks)] <= clock
          /\ currentTask' = [currentTask EXCEPT ![e] = Head(delayTasks)]
          /\ delayTasks' = Tail(delayTasks)
          /\ started' = started \cup {Head(delayTasks)}
       \/ delayTasks = <<>> /\ UNCHANGED <<currentTask, delayTasks, started>>
    /\ EGoto(e, "run")
    /\ UNCHANGED <<clock, due, poolVars, waits, running, threadVars, destructorVars>>

\* The task ends, and PriorityQueue::Finish.
Finish(e) ==
    /\ epc[e] = "run"
    /\ currentTask' = [currentTask EXCEPT ![e] = 0]
    /\ EGoto(e, "loop")
    /\ UNCHANGED <<queueVars, poolVars, waits, running, threadVars, destructorVars,
                   started>>

\* Mutant: the queue is not looked at again under mtx_.
IdleNoRecheck(e) ==
    /\ epc[e] = "idle" /\ mtx = NoThread
    /\ scheduler' = 0
    /\ busy' = busy \ {e}
    /\ idle' = idle \cup {e}
    /\ waits' = waits \ {e}
    /\ EGoto(e, IF running[e] = "RUNNING" THEN "timed" ELSE "release")
    /\ UNCHANGED <<queueVars, mtx, running, currentTask, threadVars, destructorVars,
                   started>>

\* Mutant: Pool::Idle leaves the node in the busy list.
IdleStaysBusy(e) ==
    /\ epc[e] = "idle" /\ mtx = NoThread
    /\ delayTasks = <<>>
    /\ scheduler' = 0
    /\ idle' = idle \cup {e}
    /\ waits' = waits \ {e}
    /\ EGoto(e, IF running[e] = "RUNNING" THEN "timed" ELSE "release")
    /\ UNCHANGED <<queueVars, mtx, busy, running, currentTask, threadVars, destructorVars, started>>

\* The idle_ callback, under mtx_, and what Run makes of its answer.
Idle(e) ==
    /\ epc[e] = "idle" /\ mtx = NoThread
    /\ IF delayTasks = <<>>
       THEN /\ scheduler' = 0
            /\ busy' = busy \ {e}
            /\ idle' = IF e \in busy THEN idle \cup {e} ELSE idle
       ELSE UNCHANGED <<scheduler, busy, idle>>
    /\ IF delayTasks # <<>> /\ running[e] = "RUNNING"
       THEN EGoto(e, "loop") /\ UNCHANGED waits
       ELSE /\ waits' = waits \ {e}
            /\ EGoto(e, IF running[e] = "RUNNING" THEN "timed" ELSE "release")
    /\ UNCHANGED <<queueVars, mtx, running, currentTask, threadVars, destructorVars,
                   started>>

\* Two seconds without a Bind; a Stop does not shorten them.
Timeout(e) ==
    /\ epc[e] = "timed" /\ e \notin waits
    /\ ~(OrderlyExit /\ dpc = "stop" /\ picked = e)
    /\ EGoto(e, "release")
    /\ UNCHANGED <<queueVars, poolVars, waits, running, currentTask, threadVars, destructorVars, started>>

\* Mutant: Pool::Release leaves the node in the list.
ReleaseKeepsNode(e) ==
    /\ epc[e] = "release"
    /\ IF e \in idle
       THEN /\ EGoto(e, "exited")
            /\ running' = [running EXCEPT ![e] = "STOPPED"]
       ELSE EGoto(e, "wait") /\ UNCHANGED running
    /\ UNCHANGED <<queueVars, poolVars, waits, currentTask, threadVars, destructorVars,
                   started>>

\* The release_ callback: an executor that was taken from the idle list goes on.
Release(e) ==
    /\ epc[e] = "release"
    /\ IF e \in idle
       THEN /\ idle' = idle \ {e}
            /\ EGoto(e, "exited")
            /\ running' = [running EXCEPT ![e] = "STOPPED"]
       ELSE EGoto(e, "wait") /\ UNCHANGED <<idle, running>>
    /\ UNCHANGED <<queueVars, mtx, scheduler, busy, waits, currentTask, threadVars,
                   destructorVars, started>>

-----------------------------------------------------------------------------
(***************************************************************************)
(* ~ExecutorPool                                                           *)
(***************************************************************************)

Destroy ==
    /\ dpc = "alive"
    /\ OrderlyExit => \A t \in Threads : tpc[t] = "idle"
    /\ dpc' = "clean"
    /\ UNCHANGED <<queueVars, poolVars, executorVars, threadVars, picked, started>>

\* delayTasks_.Clean()
Clean ==
    /\ dpc = "clean"
    /\ delayTasks' = <<>>
    /\ dpc' = "take"
    /\ UNCHANGED <<clock, due, poolVars, executorVars, threadVars, picked, started>>

TakeScheduler ==
    /\ dpc = "take" /\ mtx = NoThread
    /\ picked' = scheduler
    /\ scheduler' = 0
    /\ dpc' = IF scheduler = 0 THEN "pool" ELSE "stop"
    /\ UNCHANGED <<queueVars, mtx, idle, busy, executorVars, threadVars, started>>

\* Stop(true), which overwrites whatever running_ was.
Stop ==
    /\ dpc = "stop" /\ ~Holding(picked)
    /\ running' = [running EXCEPT ![picked] = "IS_STOPPING"]
    /\ dpc' = "await"
    /\ UNCHANGED <<queueVars, poolVars, epc, waits, currentTask, threadVars, picked,
                   started>>

Await ==
    /\ dpc = "await" /\ running[picked] = "STOPPED"
    /\ dpc' = "pool"
    /\ UNCHANGED <<queueVars, poolVars, executorVars, threadVars, picked, started>>

\* Mutant: only busy executors are stopped.
PoolCleanBusyOnly ==
    /\ dpc = "pool"
    /\ \/ busy # {} /\ picked' \in busy /\ dpc' = "stop"
       \/ busy = {} /\ dpc' = "done" /\ UNCHANGED picked
    /\ UNCHANGED <<queueVars, poolVars, executorVars, threadVars, started>>

\* Pool::Clean, without the mutex of the pool: busy executors first.
PoolClean ==
    /\ dpc = "pool"
    /\ \/ /\ picked' \in (IF busy # {} THEN busy ELSE idle)
          /\ OrderlyExit => epc[picked'] # "release"
          /\ dpc' = "stop"
       \/ busy \cup idle = {} /\ dpc' = "done" /\ UNCHANGED picked
    /\ UNCHANGED <<queueVars, poolVars, executorVars, threadVars, started>>

-----------------------------------------------------------------------------

ScheduleStep(t) == Push(t) \/ Lock(t) \/ Bind(t)

Run(e) ==
    \/ Wake(e) \/ Loop(e) \/ Pop(e) \/ Finish(e) \/ Idle(e) \/ Timeout(e) \/ Release(e)

Destructor == Clean \/ TakeScheduler \/ Stop \/ Await \/ PoolClean

Next ==
    \/ Tick
    \/ \E t \in Threads : Execute(t) \/ ScheduleDelayed(t) \/ ScheduleStep(t)
    \/ \E e \in Executors : Run(e)
    \/ Destroy \/ Destructor

\* Threads are scheduled, tasks end and time passes; nobody has to call anything.
Fairness ==
    /\ WF_vars(Tick)
    /\ \A t \in Threads : WF_vars(ScheduleStep(t))
    /\ \A e \in Executors : WF_vars(Run(e))
    /\ WF_vars(Destructor)

Spec == Init /\ [][Next]_vars /\ Fairness

-----------------------------------------------------------------------------

\* The variables keep their types; a node is idle or busy, and the thread that has
\* mtx_ is about to bind the scheduler_.
TypeOK ==
    /\ clock \in 0 .. MaxClock
    /\ delayTasks \in Seq(Tasks)
    /\ due \in [Tasks -> 0 .. MaxClock]
    /\ mtx \in {t \in Threads : tpc[t] = "bind"} \cup {NoThread}
    /\ scheduler \in Executors \cup {0}
    /\ idle \subseteq Executors /\ busy \subseteq Executors /\ idle \cap busy = {}
    /\ epc \in [Executors -> {"new", "wait", "loop", "pop", "run", "idle", "timed", "release",
                              "exited"}]
    /\ waits \subseteq Executors
    /\ running \in [Executors -> {"RUNNING", "IS_STOPPING", "STOPPED"}]
    /\ currentTask \in [Executors -> Tasks \cup {0}]
    /\ tpc \in [Threads -> {"idle", "push", "lock", "bind"}]
    /\ task \in [Threads -> Tasks \cup {0}]
    /\ dpc \in {"alive", "clean", "take", "stop", "await", "pool", "done"}
    /\ picked \in Executors \cup {0}
    /\ made \in 0 .. MaxTasks
    /\ earlier \in [Tasks -> SUBSET Tasks]
    /\ ended \subseteq Tasks /\ started \subseteq Tasks

\* No two tasks run at the same time, and no two executors serve the queue
\* (executor_pool.h:176-193): flushes and notifications never overlap, although Get(true)
\* may make executors beyond the capability of the pool.  A Schedule that comes after the
\* destructor has taken the scheduler_ away makes a second one.
OneAtATime ==
    OrderlyExit \/ dpc = "alive" =>
        Cardinality({e \in Executors : e \in waits \/ epc[e] = "run"}) <= 1

\* Tasks run in the order they were given (priority_queue.h:45-75): a task whose
\* Schedule had ended before that of another one began, and that is due no later, is not
\* overtaken.  Notifications reach the observers in the order of the changes.
OrderKept ==
    dpc = "alive" =>
        \A i \in started : \A j \in earlier[i] : due[j] <= due[i] => j \in started

\* No executor uses the pool after its destructor (executor_pool.h:55-75), if the
\* destructor begins when no Schedule is under way.
NoneAfterDestroy ==
    OrderlyExit /\ dpc = "done" => \A e \in Executors : epc[e] \in {"new", "exited"}

\* Every task that has been scheduled is run, unless the pool is destroyed first
\* (executor_pool.h:165-195): a task that is pushed while the executor goes idle, or
\* times out, is not forgotten.
EveryTaskRuns ==
    \A i \in Tasks : i \in ended ~> (i \in started \/ dpc # "alive")

\* The destructor ends (executor_pool.h:55-75), if no Schedule is under way when it
\* begins and the executor it stops has not just timed out.
DestructorEnds == (OrderlyExit /\ dpc = "clean") ~> dpc = "done"
=============================================================================
