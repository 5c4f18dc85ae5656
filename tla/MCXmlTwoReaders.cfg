SPECIFICATION Spec
CONSTANTS
    p1 = p1
    p2 = p2
    d1 = d1
    d2 = d2
    Procs = {p1, p2}
    Docs = {d1, d2}
    Torn = Torn
    NoFile = NoFile
    Scenarios = {{"shared", "cutShort", "read"}}
    MaxFaults = 0
INVARIANT SavedIsReadable
