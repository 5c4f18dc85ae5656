SPECIFICATION Spec
CONSTANTS
    p1 = p1
    p2 = p2
    d1 = d1
    d2 = d2
    d3 = d3
    d4 = d4
    Procs = {p1, p2}
    Docs = {d1, d2, d3, d4}
    Torn = Torn
    NoFile = NoFile
    Scenarios = {
        {"save", "read", "cutShort", "noLockFile", "rename", "toBroken", "restore",
         "open", "write", "short", "fsync", "removeBak", "removeFile", "readMain",
         "readOther", "readBak", "lock", "power"},
        {"save", "read", "delete", "cutShort", "noLockFile", "rename", "toBroken",
         "restore", "open", "write", "short", "fsync", "removeFile", "readMain",
         "readOther", "readBak", "lock", "power"},
        {"save", "read", "cutShort", "noLockFile", "rename", "toBroken", "restore",
         "open", "write", "short", "fsync", "removeBak", "removeFile", "readMain",
         "readOther", "readBak", "lock", "kill"},
        {"save", "read", "delete", "cutShort", "noLockFile", "rename", "toBroken",
         "restore", "open", "write", "short", "fsync", "removeFile", "readMain",
         "readOther", "readBak", "lock", "kill"},
        {"save", "read", "lateLoad", "noLockFile", "rename", "toBroken", "restore",
         "open", "write", "short", "fsync", "removeBak", "removeFile", "readMain",
         "readOther", "readBak", "lock"},
        {"save", "read", "delete", "lateLoad", "noLockFile", "rename", "toBroken",
         "restore", "open", "write", "short", "fsync", "removeFile", "readMain",
         "readOther", "readBak", "lock"},
        {"shared", "lateLoad", "save", "read", "rename", "toBroken", "restore",
         "open", "write", "short", "fsync", "removeBak", "removeFile", "readMain",
         "readOther", "readBak"}}
    MaxFaults = 3
INVARIANT TypeOK
INVARIANT Recoverable
PROPERTY OnlyCopyKept
