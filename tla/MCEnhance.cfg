SPECIFICATION Spec
CONSTANTS
    p1 = p1
    p2 = p2
    k1 = k1
    k2 = k2
    v1 = v1
    v2 = v2
    Procs = {p1, p2}
    Keys = {k1, k2}
    LargeValues = {v1}
    SmallValues = {v2}
    NoValue = NoValue
    Damages = {"none", "repairable", "beyond"}
    MaxCalls = 6
    MaxFaults = 1
CHECK_DEADLOCK FALSE
INVARIANT TypeOK
INVARIANT CacheCurrent
INVARIANT VersionGuards
INVARIANT OpensAgain
