SPECIFICATION Spec
CONSTANTS
    k1 = k1
    k2 = k2
    f1 = f1
    f2 = f2
    g1 = g1
    Keys = {k1, k2}
    Callbacks = {f1, f2}
    NdkObservers = {g1}
    Mixes <- SmallMixes
    MaxObs = 3
    MaxChanges = 1
    MaxFaults = 1
SYMMETRY Symmetry
CHECK_DEADLOCK FALSE
INVARIANT TypeOK
INVARIANT AskedIsRegistered
INVARIANT SilentAfterOff
INVARIANT HeardWhenQuiet
