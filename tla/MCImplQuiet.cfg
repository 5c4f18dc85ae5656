SPECIFICATION Spec
CONSTANTS
    c1 = c1
    c2 = c2
    k1 = k1
    k2 = k2
    v1 = v1
    Clients = {c1, c2}
    Loader = Loader
    Executor = Executor
    Keys = {k1, k2}
    Values = {v1}
    NoValue = NoValue
    NoThread = NoThread
    Ops = {"Put", "Delete", "Clear", "Get", "Flush", "FlushSync"}
    MaxCalls = 4
    MaxStorageChanges = 0
    MaxTimeouts = 0
    MaxWriteFaults = 1
INVARIANT TokenIsServed
INVARIANT ObserverInSync
INVARIANT NoBlindWrite
PROPERTY ImplementsStore
CHECK_DEADLOCK FALSE
