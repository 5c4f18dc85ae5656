SPECIFICATION FairSpec
CONSTANTS
    c1 = c1
    c2 = c2
    k1 = k1
    v1 = v1
    Clients = {c1, c2}
    Loader = Loader
    Executor = Executor
    Keys = {k1}
    Values = {v1}
    NoValue = NoValue
    NoThread = NoThread
    Ops = {"Put", "Clear", "Flush", "FlushSync"}
    MaxCalls = 4
    MaxStorageChanges = 0
    MaxTimeouts = 0
    MaxWriteFaults = 1
PROPERTY CallsReturn
PROPERTY FlushTakesModified
CHECK_DEADLOCK FALSE
