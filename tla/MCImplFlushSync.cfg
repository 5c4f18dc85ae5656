SPECIFICATION Spec
CONSTANTS
    c1 = c1
    k1 = k1
    v1 = v1
    Clients = {c1}
    Loader = Loader
    Executor = Executor
    Keys = {k1}
    Values = {v1}
    NoValue = NoValue
    NoThread = NoThread
    Ops = {"Put", "Flush", "FlushSync"}
    MaxCalls = 3
    MaxStorageChanges = 0
    MaxTimeouts = 0
    MaxWriteFaults = 0
INVARIANT FlushSyncSaves
CHECK_DEADLOCK FALSE
