SPECIFICATION Spec
CONSTANTS
    t1 = t1
    t2 = t2
    Threads = {t1, t2}
    NoThread = NoThread
    MaxTasks = 3
    TASK_EXEC_TIME = 1
    OrderlyExit = TRUE
    MaxClock = 2
CHECK_DEADLOCK FALSE
INVARIANT TypeOK
INVARIANT OneAtATime
INVARIANT OrderKept
INVARIANT NoneAfterDestroy
PROPERTY EveryTaskRuns
PROPERTY DestructorEnds
