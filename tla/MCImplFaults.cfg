SPECIFICATION Spec
CONSTANTS
    c1 = c1
    c2 = c2
    k1 = k1
    v1 = v1
    v2 = v2
    Clients = {c1, c2}
    Loader = Loader
    Executor = Executor
    Keys = {k1}
    Values = {v1, v2}
    NoValue = NoValue
    NoThread = NoThread
    Ops = {"Put", "Delete", "Clear", "Get", "Flush", "FlushSync"}
    MaxCalls = 3
    MaxStorageChanges = 1
    MaxTimeouts = 1
    MaxWriteFaults = 1
SYMMETRY Symmetry
INVARIANT TypeOK
INVARIANT OneFlushUnderWay
INVARIANT DirtyTracked
CHECK_DEADLOCK FALSE
