SPECIFICATION Spec
CONSTANTS
    t1 = t1
    t2 = t2
    Threads = {t1, t2}
    NoThread = NoThread
    NoFile = NoFile
    MaxInstances = 3
    MaxCalls = 6
    MaxFaults = 1
CHECK_DEADLOCK FALSE
INVARIANT TypeOK
INVARIANT CachedIsActive
INVARIANT OneStorageType
INVARIANT DeletedStaysDeleted
INVARIANT CachedHasFile
