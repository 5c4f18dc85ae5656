------------------------ MODULE PreferencesImplProofs ------------------------
(***************************************************************************)
(* Proofs about PreferencesImpl, for any number of clients, keys and calls  *)
(* and any faults: type correctness, the token protocol of Flush and        *)
(* FlushSync, and that no change is forgotten.                              *)
(***************************************************************************)
EXTENDS PreferencesImpl, TLAPS

-----------------------------------------------------------------------------
(***************************************************************************)
(* Type correctness.                                                        *)
(***************************************************************************)

\* The default call record, with which threads start, is a call.
LEMMA IdleType == Idle \in Calls
  BY SomethingToStore DEF Idle, Calls, AllOps, NoKey, NoArg

\* The empty map is a map.
LEMMA EmptyMapType == EmptyMap \in Maps
  BY DEF EmptyMap, Maps

\* Changing one key of a map gives a map.
LEMMA UpdateType ==
    ASSUME NEW m \in Maps, NEW k \in Keys, NEW v \in Values \cup {NoValue}
    PROVE  [m EXCEPT ![k] = v] \in Maps
  BY DEF Maps

\* Reading a file into a map gives a map.
LEMMA ReadType ==
    ASSUME NEW m \in Maps, file \in Maps
    PROVE  ReadSettingXml(m) \in Maps
  BY DEF Maps, ReadSettingXml

\* PreLoad assigns three members, each within its type.
LEMMA PreLoadType ==
    ASSUME TypesOK, NEW verdict, PreLoad(verdict)
    PROVE  /\ valuesCache' \in Maps
           /\ isNeverUnlock' \in BOOLEAN
           /\ loadResult' \in BOOLEAN
  BY ReadType DEF TypesOK, PreLoad, ReloadFromDisk

\* The initial values have their types.
LEMMA InitType == Init => TypesOK
  <1> SUFFICES ASSUME Init PROVE TypesOK
    OBVIOUS
  <1>1. call \in [Clients -> Calls]
    BY IdleType DEF Init
  <1>2. pc \in [Threads -> PCs]
    BY DEF Init, PCs
  <1>3. budget \in [{"calls", "storage", "timeouts", "faults"} -> Nat]
    BY BoundsAssumption DEF Init
  <1>4. storage \in {"open", "nokey", "hidden"}
    BY DEF Init
  <1> QED
    BY <1>1, <1>2, <1>3, <1>4, EmptyMapType DEF Init, TypesOK

\* Every action leaves every variable in its type.
LEMMA StepType == TypesOK /\ [Next]_vars => TypesOK'
  <1> SUFFICES ASSUME TypesOK, [Next]_vars PROVE TypesOK'
    OBVIOUS
  <1> USE EmptyMapType
  <1> USE DEF TypesOK, memberVars, localVars, lockVars, threadVars, worldVars,
              Goto, At, Spend, Threads, Flushers, PCs
  <1>1. CASE LoadFromDisk
    BY <1>1, ZenonT(40) DEF LoadFromDisk, ReadSettingXml, Maps
  <1>2. CASE FlushTask
    BY <1>2 DEF FlushTask
  <1>3. ASSUME NEW c \in Clients, AwaitLoadFile(c) PROVE TypesOK'
    <2>1. CASE AwaitLoaded(c)
      BY <2>1 DEF AwaitLoaded
    <2>2. CASE AwaitNotLoaded(c)
      BY <2>2 DEF AwaitNotLoaded
    <2>3. CASE AwaitLock(c)
      BY <2>3 DEF AwaitLock
    <2>4. CASE WaitEnds(c)
      BY <2>4 DEF WaitEnds
    <2>5. CASE AwaitPreLoad(c)
      <3>1. PICK verdict \in BOOLEAN : PreLoad(verdict)
        BY <2>5 DEF AwaitPreLoad
      <3> QED
        BY <2>5, <3>1, PreLoadType DEF AwaitPreLoad
    <2> QED
      BY <1>3, <2>1, <2>2, <2>3, <2>4, <2>5 DEF AwaitLoadFile
  <1>4. ASSUME NEW c \in Clients, CacheOp(c) PROVE TypesOK'
    <2>1. CASE Get(c)
      BY <2>1 DEF Get, Return
    <2>2. CASE Clear(c)
      BY <2>2 DEF Clear, Return
    <2>3. CASE LockCache(c)
      BY <2>3 DEF LockCache
    <2>4. CASE Put(c)
      <3>1. call[c].key \in Keys /\ call[c].value \in Values
        BY DEF Calls
      <3>2. valuesCache' \in Maps
        BY <2>4, <3>1, UpdateType DEF Put
      <3>3. modifiedKeys' \in SUBSET Keys /\ isCleared' \in BOOLEAN
        BY <2>4, <3>1 DEF Put, Present
      <3> QED
        BY <2>4, <3>2, <3>3, ZenonT(40) DEF Put, Return
    <2>5. CASE Delete(c)
      <3>1. call[c].key \in Keys
        BY DEF Calls
      <3>a. [valuesCache EXCEPT ![call[c].key] = NoValue] \in Maps
        BY <3>1, UpdateType
      <3>2. valuesCache' \in Maps
        BY <2>5, <3>a DEF Delete
      <3>3. modifiedKeys' \in SUBSET Keys
        BY <2>5, <3>1 DEF Delete
      <3> QED
        BY <2>5, <3>2, <3>3, ZenonT(40) DEF Delete, Return
    <2> QED
      BY <1>4, <2>1, <2>2, <2>3, <2>4, <2>5 DEF CacheOp
  <1>5. ASSUME NEW c \in Clients, StartFlush(c) PROVE TypesOK'
    <2>1. CASE PushRefused(c)
      BY <2>1 DEF PushRefused, FlushEnds
    <2>2. CASE Flush(c)
      BY <2>2 DEF Flush, Return
    <2>3. CASE FlushSync(c)
      BY <2>3 DEF FlushSync
    <2> QED
      BY <1>5, <2>1, <2>2, <2>3 DEF StartFlush
  <1>6. ASSUME NEW t \in Flushers, RunFlush(t) PROVE TypesOK'
    <2>1. CASE FlushCheck(t)
      BY <2>1 DEF FlushCheck
    <2>2. CASE FlushPreLoad(t)
      <3>1. PICK verdict \in BOOLEAN :
               /\ PreLoad(verdict)
               /\ IF verdict THEN Goto(t, "flushLock") /\ UNCHANGED result
                             ELSE FlushEnds(t, "ok")
        BY <2>2 DEF FlushPreLoad
      <3> QED
        BY <2>2, <3>1, PreLoadType DEF FlushPreLoad, FlushEnds
    <2>3. CASE FlushLock(t)
      BY <2>3 DEF FlushLock, FlushEnds
    <2>4. CASE WriteSnapshot(t)
      BY <2>4 DEF WriteSnapshot
    <2>5. CASE WriteTake(t)
      BY <2>5, ZenonT(40) DEF WriteTake, FlushEnds, Present
    <2>6. CASE WriteSucceeds(t)
      BY <2>6 DEF WriteSucceeds
    <2>7. CASE WriteFails(t)
      <3>1. budget' \in [{"calls", "storage", "timeouts", "faults"} -> Nat]
        BY <2>7 DEF WriteFails
      <3>2. file' \in Maps /\ fileExists' \in BOOLEAN
        BY <2>7 DEF WriteFails
      <3> QED
        BY <2>7, <3>1, <3>2 DEF WriteFails, FlushEnds
    <2>8. CASE NotifyPreferencesObserver(t)
      <3>1. observed' \in Maps
        BY <2>8 DEF NotifyPreferencesObserver, Maps
      <3> QED
        BY <2>8, <3>1 DEF NotifyPreferencesObserver, FlushEnds
    <2> QED
      BY <1>6, <2>1, <2>2, <2>3, <2>4, <2>5, <2>6, <2>7, <2>8 DEF RunFlush
  <1>7. ASSUME NEW c \in Clients, Invoke(c) PROVE TypesOK'
    BY <1>7 DEF Invoke, Invocations
  <1>8. ASSUME NEW c \in Clients, WaitTimesOut(c) PROVE TypesOK'
    BY <1>8 DEF WaitTimesOut
  <1>9. ASSUME NEW s \in {"open", "nokey", "hidden"}, StorageChanges(s)
        PROVE  TypesOK'
    BY <1>9 DEF StorageChanges
  <1>10. CASE UNCHANGED vars
    BY <1>10 DEF vars
  <1> QED
    BY <1>1, <1>2, <1>3, <1>4, <1>5, <1>6, <1>7, <1>8, <1>9, <1>10
    DEF Next, Progress, Environment

\* Nobody owns a mutex at the start.
LEMMA InitLocks == Init => LocksHeld
  BY ThreadsDistinct DEF Init, LocksHeld

\* A step in which nobody but u moves, and which moves u to where its locks say.
LEMMA MovedLocks ==
    ASSUME TypesOK, LocksHeld, NEW u \in Threads, NEW label, Goto(u, label),
           mutex' = mutex \/ {mutex, mutex'} = {u, NoThread},
           cacheMutex' = cacheMutex \/ {cacheMutex, cacheMutex'} = {u, NoThread},
           mutex' = u <=> label \in {"snapshot", "take", "write", "notify"},
           cacheMutex' = u <=> label \in {"apply", "take"}
    PROVE  LocksHeld'
  <1>1. /\ pc'[u] = label
        /\ \A t \in Threads : t # u => pc'[t] = pc[t]
    BY DEF TypesOK, Goto
  <1>2. \A t \in Threads : t # u => (mutex' = t <=> mutex = t) /\ (cacheMutex' = t <=> cacheMutex = t)
    BY ThreadsDistinct
  <1> QED BY <1>1, <1>2 DEF LocksHeld

\* Every step takes a mutex where it enters the section of code that holds it, and gives it
\* back where it leaves.
LEMMA StepLocks == TypesOK /\ LocksHeld /\ [Next]_vars => LocksHeld'
  <1> SUFFICES ASSUME TypesOK, LocksHeld, [Next]_vars PROVE LocksHeld'
    OBVIOUS
  <1> USE ThreadsDistinct
  <1>a. Loader \in Threads /\ Executor \in Threads /\ Clients \subseteq Threads
        /\ Flushers \subseteq Threads
    BY DEF Threads, Flushers
  <1>b. \A t \in Threads : /\ pc[t] \notin {"snapshot", "take", "write", "notify"} => mutex # t
                           /\ pc[t] \in {"snapshot", "take", "write", "notify"} => mutex = t
                           /\ pc[t] \notin {"apply", "take"} => cacheMutex # t
                           /\ pc[t] \in {"apply", "take"} => cacheMutex = t
    BY DEF LocksHeld
  <1>1. CASE LoadFromDisk
    BY <1>1, <1>a, <1>b, MovedLocks DEF LoadFromDisk, At, lockVars
  <1>2. CASE FlushTask
    BY <1>2, <1>a, <1>b, MovedLocks DEF FlushTask, At, lockVars
  <1>3. ASSUME NEW c \in Clients, AwaitLoadFile(c) PROVE LocksHeld'
    <2>1. /\ UNCHANGED lockVars /\ pc[c] \in {"await", "awaitLock", "wait", "preLoad"}
          /\ \E l \in {"cache", "preLoad", "awaitLock", "wait"} : Goto(c, l)
      BY <1>3 DEF AwaitLoadFile, AwaitLoaded, AwaitNotLoaded, AwaitLock, WaitEnds, AwaitPreLoad, At
    <2>2. PICK l \in {"cache", "preLoad", "awaitLock", "wait"} : Goto(c, l)
      BY <2>1
    <2> QED BY <1>a, <1>b, <2>1, <2>2, MovedLocks DEF lockVars
  <1>4. ASSUME NEW c \in Clients, CacheOp(c) PROVE LocksHeld'
    <2>1. CASE Get(c) \/ Clear(c)
      <3>1. UNCHANGED lockVars /\ pc[c] = "cache" /\ Goto(c, "idle")
        BY <2>1 DEF Get, Clear, Return, At
      <3> QED BY <1>a, <1>b, <3>1, MovedLocks DEF lockVars
    <2>2. CASE LockCache(c)
      BY <1>a, <1>b, <2>2, MovedLocks DEF LockCache, At
    <2>3. CASE Put(c) \/ Delete(c)
      <3>1. mutex' = mutex /\ cacheMutex' = NoThread /\ pc[c] = "apply" /\ Goto(c, "idle")
        BY <2>3 DEF Put, Delete, Return, At
      <3> QED BY <1>a, <1>b, <3>1, MovedLocks
    <2> QED BY <1>4, <2>1, <2>2, <2>3 DEF CacheOp
  <1>5. ASSUME NEW c \in Clients, StartFlush(c) PROVE LocksHeld'
    <2>1. /\ UNCHANGED lockVars /\ pc[c] = "push"
          /\ Goto(c, "idle") \/ Goto(c, "flushCheck")
      BY <1>5 DEF StartFlush, PushRefused, FlushEnds, Flush, FlushSync, Return, At
    <2>2. CASE Goto(c, "idle")
      BY <1>a, <1>b, <2>1, <2>2, MovedLocks DEF lockVars
    <2>3. CASE Goto(c, "flushCheck")
      BY <1>a, <1>b, <2>1, <2>3, MovedLocks DEF lockVars
    <2> QED BY <2>1, <2>2, <2>3
  <1>6. ASSUME NEW t \in Flushers, RunFlush(t) PROVE LocksHeld'
    <2>1. CASE FlushCheck(t) \/ FlushPreLoad(t)
      <3>1. /\ UNCHANGED lockVars /\ pc[t] \in {"flushCheck", "flushPreLoad"}
            /\ \E l \in {"idle", "flushLock", "flushPreLoad"} : Goto(t, l)
        BY <2>1 DEF FlushCheck, FlushPreLoad, FlushEnds, At
      <3>2. PICK l \in {"idle", "flushLock", "flushPreLoad"} : Goto(t, l)
        BY <3>1
      <3> QED BY <1>a, <1>b, <3>1, <3>2, MovedLocks DEF lockVars
    <2>2. CASE FlushLock(t)
      <3>1. /\ cacheMutex' = cacheMutex /\ pc[t] = "flushLock" /\ mutex = NoThread
            /\ \/ mutex' = t /\ Goto(t, "snapshot")
               \/ mutex' = mutex /\ Goto(t, "idle")
        BY <2>2 DEF FlushLock, FlushEnds, At
      <3> QED BY <1>a, <1>b, <3>1, MovedLocks
    <2>3. CASE WriteSnapshot(t)
      BY <1>a, <1>b, <2>3, MovedLocks DEF WriteSnapshot, At
    <2>4. CASE WriteTake(t)
      <3>1. /\ cacheMutex' = NoThread /\ pc[t] = "take"
            /\ \/ mutex' = NoThread /\ Goto(t, "idle")
               \/ mutex' = mutex /\ Goto(t, "write")
        BY <2>4 DEF WriteTake, FlushEnds, At
      <3> QED BY <1>a, <1>b, <3>1, MovedLocks
    <2>5. CASE WriteSucceeds(t)
      BY <1>a, <1>b, <2>5, MovedLocks DEF WriteSucceeds, At, lockVars
    <2>6. CASE WriteFails(t) \/ NotifyPreferencesObserver(t)
      <3>1. /\ cacheMutex' = cacheMutex /\ pc[t] \in {"write", "notify"}
            /\ mutex' = NoThread /\ Goto(t, "idle")
        BY <2>6 DEF WriteFails, NotifyPreferencesObserver, FlushEnds, At
      <3> QED BY <1>a, <1>b, <3>1, MovedLocks
    <2> QED BY <1>6, <2>1, <2>2, <2>3, <2>4, <2>5, <2>6 DEF RunFlush
  <1>7. ASSUME NEW c \in Clients, Invoke(c) \/ WaitTimesOut(c) PROVE LocksHeld'
    <2>1. /\ UNCHANGED lockVars /\ pc[c] \in {"idle", "wait"}
          /\ \E l \in {"push", "await", "cache"} : Goto(c, l)
      BY <1>7 DEF Invoke, WaitTimesOut, At
    <2>2. PICK l \in {"push", "await", "cache"} : Goto(c, l)
      BY <2>1
    <2> QED BY <1>a, <1>b, <2>1, <2>2, MovedLocks DEF lockVars
  <1>8. CASE UNCHANGED vars \/ \E s \in {"open", "nokey", "hidden"} : StorageChanges(s)
    BY <1>8 DEF StorageChanges, vars, lockVars, threadVars, LocksHeld
  <1> QED
    BY <1>1, <1>2, <1>3, <1>4, <1>5, <1>6, <1>7, <1>8 DEF Next, Progress, Environment

\* Every reachable state is well typed: queue_ never holds more than the one token its
\* capacity allows, and mutex_ and cacheMutex_ are owned by exactly the thread inside the
\* code that holds them (preferences_impl.cpp:268-308, 323-338, 371-375).
THEOREM TypeCorrect == Spec => []TypeOK
  <1>1. TypesOK /\ LocksHeld /\ [Next]_vars => (TypesOK /\ LocksHeld)'
    BY StepType, StepLocks
  <1>2. TypesOK /\ LocksHeld => TypeOK
    BY DEF TypeOK
  <1> QED
    BY InitType, InitLocks, <1>1, <1>2, PTL DEF Spec

-----------------------------------------------------------------------------
(***************************************************************************)
(* The token protocol.  OneFlushUnderWay is inductive by itself, given the  *)
(* types: a push needs an empty queue, and an empty queue means that nobody *)
(* is between push and pop.                                                 *)
(***************************************************************************)

\* No flush is scheduled or under way at the start.
LEMMA InitToken == Init => OneFlushUnderWay
  <1> SUFFICES ASSUME Init PROVE OneFlushUnderWay
    OBVIOUS
  <1>1. \A t \in Flushers : pc[t] = "idle"
    BY ThreadsDistinct DEF Init, Flushers, Threads
  <1>2. FlushOwners = {}
    BY <1>1 DEF FlushOwners
  <1> QED
    BY <1>2 DEF Init, OneFlushUnderWay

\* No step starts a second flush or takes another flush's token.
LEMMA StepToken ==
    TypesOK /\ OneFlushUnderWay /\ [Next]_vars => OneFlushUnderWay'
  <1> SUFFICES ASSUME TypesOK, OneFlushUnderWay, [Next]_vars
               PROVE  OneFlushUnderWay'
    OBVIOUS
  <1> USE ThreadsDistinct
  <1> USE DEF TypesOK, OneFlushUnderWay, FlushOwners, memberVars, localVars,
              lockVars, threadVars, worldVars, Goto, At, Threads, Flushers
  <1>1. CASE LoadFromDisk
    BY <1>1 DEF LoadFromDisk
  <1>2. CASE FlushTask
    BY <1>2 DEF FlushTask
  <1>3. ASSUME NEW c \in Clients, AwaitLoadFile(c) PROVE OneFlushUnderWay'
    BY <1>3 DEF AwaitLoadFile, AwaitLoaded, AwaitNotLoaded, AwaitLock,
                WaitEnds, AwaitPreLoad
  <1>4. ASSUME NEW c \in Clients, CacheOp(c) PROVE OneFlushUnderWay'
    BY <1>4 DEF CacheOp, Get, Clear, LockCache, Put, Delete, Return
  <1>5. ASSUME NEW c \in Clients, StartFlush(c) PROVE OneFlushUnderWay'
    <2>1. CASE PushRefused(c)
      BY <2>1 DEF PushRefused, FlushEnds
    <2>2. CASE Flush(c)
      BY <2>2 DEF Flush, Return
    <2>3. CASE FlushSync(c)
      BY <2>3 DEF FlushSync
    <2> QED
      BY <1>5, <2>1, <2>2, <2>3 DEF StartFlush
  <1>6. ASSUME NEW t \in Flushers, RunFlush(t) PROVE OneFlushUnderWay'
    <2>1. CASE FlushCheck(t)
      BY <2>1 DEF FlushCheck
    <2>2. CASE FlushPreLoad(t)
      BY <2>2 DEF FlushPreLoad, FlushEnds
    <2>3. CASE FlushLock(t)
      BY <2>3 DEF FlushLock, FlushEnds
    <2>4. CASE WriteSnapshot(t)
      BY <2>4 DEF WriteSnapshot
    <2>5. CASE WriteTake(t)
      BY <2>5 DEF WriteTake, FlushEnds
    <2>6. CASE WriteSucceeds(t)
      BY <2>6 DEF WriteSucceeds
    <2>7. CASE WriteFails(t)
      BY <2>7 DEF WriteFails, FlushEnds
    <2>8. CASE NotifyPreferencesObserver(t)
      BY <2>8 DEF NotifyPreferencesObserver, FlushEnds
    <2> QED
      BY <1>6, <2>1, <2>2, <2>3, <2>4, <2>5, <2>6, <2>7, <2>8 DEF RunFlush
  <1>7. ASSUME NEW c \in Clients, Invoke(c) PROVE OneFlushUnderWay'
    BY <1>7 DEF Invoke
  <1>8. ASSUME NEW c \in Clients, WaitTimesOut(c) PROVE OneFlushUnderWay'
    BY <1>8 DEF WaitTimesOut
  <1>9. ASSUME NEW s \in {"open", "nokey", "hidden"}, StorageChanges(s)
        PROVE  OneFlushUnderWay'
    BY <1>9 DEF StorageChanges
  <1>10. CASE UNCHANGED vars
    BY <1>10 DEF vars
  <1> QED
    BY <1>1, <1>2, <1>3, <1>4, <1>5, <1>6, <1>7, <1>8, <1>9, <1>10
    DEF Next, Progress, Environment

\* Flush and FlushSync never start a second flush while one has its token in
\* queue_, and the flush that has pushed the token finds it there.
THEOREM TokenProtocol == Spec => []OneFlushUnderWay
  <1>1. TypesOK /\ OneFlushUnderWay /\ [Next]_vars => (TypesOK /\ OneFlushUnderWay)'
    BY StepType, StepToken
  <1> QED
    BY InitType, InitToken, <1>1, PTL DEF Spec

-----------------------------------------------------------------------------
(***************************************************************************)
(* No change is forgotten.  DirtyTracked is not inductive: a write that     *)
(* succeeds makes the file the snapshot, so what the cache has gained since *)
(* the snapshot must be marked; and a reload merges the file into a cache   *)
(* that was filled before the file could be read, so everything in such a   *)
(* cache must be marked.  The locals of WriteToDiskFile belong to the one   *)
(* thread that owns mutex_.                                                 *)
(***************************************************************************)

\* mutex_ is owned by the thread inside WriteToDiskFile.
WriterOwnsMutex ==
    \A t \in Flushers :
        pc[t] \in {"snapshot", "take", "write", "notify"} => mutex = t

\* Without a write under way there are no keysModified.
LocalsFresh ==
    (\A t \in Flushers : pc[t] \notin {"write", "notify"}) => keysModified = {}

\* What has changed since the snapshot is marked.
SinceSnapshot ==
    \A t \in Flushers : pc[t] \in {"write", "notify"} =>
        \A k \in Keys : valuesCache[k] # writeToDiskMap[k] => k \in modifiedKeys

\* After a successful write the file is the snapshot.
FileIsSnapshot ==
    \A t \in Flushers : pc[t] = "notify" => file = writeToDiskMap /\ loadResult

\* Before the file has been read, all that is cached is marked.
BeforeLoad ==
    (~loadResult /\ ~writeFailed) =>
        \A k \in Keys : valuesCache[k] # NoValue =>
                            k \in modifiedKeys \cup keysModified

TrackInv ==
    /\ WriterOwnsMutex
    /\ LocalsFresh
    /\ SinceSnapshot
    /\ FileIsSnapshot
    /\ BeforeLoad
    /\ DirtyTracked

\* Nothing is cached at the start.
LEMMA InitTrack == Init => TrackInv
  <1> SUFFICES ASSUME Init PROVE TrackInv
    OBVIOUS
  <1>1. \A t \in Flushers : pc[t] = "idle"
    BY ThreadsDistinct DEF Init, Flushers, Threads
  <1> QED
    BY <1>1 DEF Init, TrackInv, WriterOwnsMutex, LocalsFresh, SinceSnapshot,
                FileIsSnapshot, BeforeLoad, DirtyTracked, EmptyMap

\* PreLoad, which runs while nobody writes: a reload merges the file into a
\* cache that is marked throughout.
LEMMA PreLoadTrack ==
    ASSUME TypesOK, TrackInv, NEW verdict, PreLoad(verdict),
           UNCHANGED <<modifiedKeys, keysModified, writeToDiskMap, file,
                       writeFailed, mutex>>,
           NEW u \in Flushers,
           \A t \in Flushers \ {u} : pc'[t] = pc[t],
           pc'[u] \notin {"snapshot", "take", "write", "notify"}
    PROVE  TrackInv'
  <1> USE DEF TrackInv, PreLoad
  <1>1. \A t \in Flushers : pc[t] \notin {"snapshot", "take", "write", "notify"}
    BY ThreadsDistinct DEF WriterOwnsMutex, Flushers, Threads
  <1>2. \A t \in Flushers : pc'[t] \notin {"snapshot", "take", "write", "notify"}
    BY <1>1
  <1>3. keysModified' = {}
    BY <1>1 DEF LocalsFresh
  <1>4. (BeforeLoad /\ DirtyTracked)'
    <2>1. CASE UNCHANGED <<valuesCache, loadResult>>
      BY <2>1 DEF BeforeLoad, DirtyTracked
    <2>2. CASE /\ ~loadResult
               /\ valuesCache' = ReadSettingXml(valuesCache)
               /\ loadResult' = TRUE
      BY <2>2 DEF BeforeLoad, DirtyTracked, ReadSettingXml
    <2> QED
      BY <2>1, <2>2 DEF ReloadFromDisk
  <1> QED
    BY <1>2, <1>3, <1>4 DEF WriterOwnsMutex, LocalsFresh, SinceSnapshot,
                            FileIsSnapshot

\* Every step keeps track of what is not in the file.
LEMMA StepTrack == TypesOK /\ TrackInv /\ [Next]_vars => TrackInv'
  <1> SUFFICES ASSUME TypesOK, TrackInv, [Next]_vars PROVE TrackInv'
    OBVIOUS
  <1> USE ThreadsDistinct
  <1> USE DEF memberVars, localVars, lockVars, threadVars, worldVars, Goto, At
  <1>a. pc \in [Threads -> PCs]
    BY DEF TypesOK
  <1>b. Flushers \subseteq Threads /\ Clients \subseteq Flushers
    BY DEF Flushers, Threads
  <1>c. Loader \notin Flushers /\ Executor \in Flushers
    BY DEF Flushers
  \* Steps that leave everything TrackInv speaks of alone, but for the pc of a
  \* thread that is not, and does not get, inside WriteToDiskFile.
  <1>d. ASSUME NEW u \in Threads, NEW label, Goto(u, label),
               u \in Flushers =>
                  label \notin {"snapshot", "take", "write", "notify"}
                  /\ pc[u] \notin {"snapshot", "take", "write", "notify"},
               UNCHANGED <<valuesCache, modifiedKeys, keysModified,
                           writeToDiskMap, file, writeFailed, loadResult, mutex>>
        PROVE  TrackInv'
    <2>1. \A t \in Flushers : pc'[t] = pc[t]
               \/ (pc'[t] \notin {"snapshot", "take", "write", "notify"}
                   /\ pc[t] \notin {"snapshot", "take", "write", "notify"})
      BY <1>a, <1>b, <1>d
    <2> QED
      BY <2>1, <1>d DEF TrackInv, WriterOwnsMutex, LocalsFresh, SinceSnapshot,
                        FileIsSnapshot, BeforeLoad, DirtyTracked
  <1>1. CASE LoadFromDisk
    <2>1. \A t \in Flushers : pc'[t] = pc[t]
      BY <1>1, <1>a, <1>b, <1>c DEF LoadFromDisk
    <2>2. \A t \in Flushers : pc[t] \notin {"snapshot", "take", "write", "notify"}
      BY <1>1, <1>b DEF LoadFromDisk, TrackInv, WriterOwnsMutex
    <2>3. keysModified' = {}
      BY <1>1, <2>2 DEF LoadFromDisk, TrackInv, LocalsFresh
    <2>4. (BeforeLoad /\ DirtyTracked)'
      BY <1>1 DEF LoadFromDisk, TrackInv, BeforeLoad, DirtyTracked,
                  ReadSettingXml, EmptyMap
    <2> QED
      BY <2>1, <2>2, <2>3, <2>4 DEF TrackInv, WriterOwnsMutex, LocalsFresh,
                                    SinceSnapshot, FileIsSnapshot
  <1>2. CASE FlushTask
    BY <1>2, <1>b, <1>c, <1>d DEF FlushTask
  <1>3. ASSUME NEW c \in Clients, AwaitLoadFile(c) PROVE TrackInv'
    <2>1. CASE AwaitLoaded(c) \/ AwaitNotLoaded(c) \/ AwaitLock(c) \/ WaitEnds(c)
      BY <2>1, <1>b, <1>d DEF AwaitLoaded, AwaitNotLoaded, AwaitLock, WaitEnds
    <2>2. CASE AwaitPreLoad(c)
      <3>1. PICK verdict \in BOOLEAN : PreLoad(verdict)
        BY <2>2 DEF AwaitPreLoad
      <3>2. /\ \A t \in Flushers \ {c} : pc'[t] = pc[t]
            /\ pc'[c] = "cache"
        BY <2>2, <1>a, <1>b DEF AwaitPreLoad
      <3> QED
        BY <2>2, <3>1, <3>2, <1>b, PreLoadTrack DEF AwaitPreLoad
    <2> QED
      BY <1>3, <2>1, <2>2 DEF AwaitLoadFile
  <1>4. ASSUME NEW c \in Clients, CacheOp(c) PROVE TrackInv'
    <2>1. CASE Get(c) \/ Clear(c) \/ LockCache(c)
      BY <2>1, <1>b, <1>d DEF Get, Clear, LockCache, Return
    <2>2. ASSUME Put(c) \/ Delete(c) PROVE TrackInv'
      <3>1. call[c].key \in Keys /\ call[c].value \in Values
        BY DEF TypesOK, Calls
      <3>2. /\ modifiedKeys \subseteq modifiedKeys'
            /\ \A k \in Keys : valuesCache'[k] # valuesCache[k] => k \in modifiedKeys'
        <4>1. CASE Put(c)
          BY <4>1, <3>1 DEF Put, TypesOK, Maps, Present, EmptyMap
        <4>2. CASE Delete(c)
          BY <4>2, <3>1 DEF Delete, TypesOK, Maps
        <4> QED
          BY <2>2, <4>1, <4>2
      <3>3. \A t \in Flushers : pc'[t] = pc[t]
               \/ (pc'[t] \notin {"snapshot", "take", "write", "notify"}
                   /\ pc[t] \notin {"snapshot", "take", "write", "notify"})
        BY <2>2, <1>a, <1>b DEF Put, Delete, Return
      <3>4. UNCHANGED <<keysModified, writeToDiskMap, file, writeFailed,
                        loadResult, mutex>>
        BY <2>2 DEF Put, Delete
      <3> QED
        BY <3>2, <3>3, <3>4
        DEF TrackInv, WriterOwnsMutex, LocalsFresh, SinceSnapshot,
            FileIsSnapshot, BeforeLoad, DirtyTracked
    <2> QED
      BY <1>4, <2>1, <2>2 DEF CacheOp
  <1>5. ASSUME NEW c \in Clients, StartFlush(c) PROVE TrackInv'
    BY <1>5, <1>b, <1>d DEF StartFlush, PushRefused, Flush, FlushSync, Return,
                            FlushEnds
  <1>6. ASSUME NEW t \in Flushers, RunFlush(t) PROVE TrackInv'
    <2>0. /\ \A u \in Flushers \ {t} : \A label : Goto(t, label) => pc'[u] = pc[u]
          /\ \A label : Goto(t, label) => pc'[t] = label
      BY <1>a, <1>b
    \* If t owns mutex_ no other thread is inside WriteToDiskFile.
    <2>m. ASSUME pc[t] \in {"snapshot", "take", "write", "notify"}
          PROVE  \A u \in Flushers \ {t} :
                    pc[u] \notin {"snapshot", "take", "write", "notify"}
      BY <2>m DEF TrackInv, WriterOwnsMutex
    <2>1. CASE FlushCheck(t)
      BY <2>1, <1>b, <1>d DEF FlushCheck
    <2>2. CASE FlushPreLoad(t)
      <3>1. PICK verdict \in BOOLEAN :
               /\ PreLoad(verdict)
               /\ IF verdict THEN Goto(t, "flushLock") /\ UNCHANGED result
                             ELSE FlushEnds(t, "ok")
        BY <2>2 DEF FlushPreLoad
      <3>2. /\ \A u \in Flushers \ {t} : pc'[u] = pc[u]
            /\ pc'[t] \in {"flushLock", "idle"}
        BY <3>1, <1>a, <1>b DEF FlushEnds
      <3> QED
        BY <2>2, <3>1, <3>2, PreLoadTrack DEF FlushPreLoad
    <2>3. CASE FlushLock(t)
      <3>1. CASE queue = 1
        <4>1. \A u \in Flushers : pc[u] \notin {"snapshot", "take", "write", "notify"}
          BY <2>3, <1>b DEF FlushLock, TrackInv, WriterOwnsMutex
        <4>2. /\ \A u \in Flushers \ {t} : pc'[u] = pc[u]
              /\ pc'[t] = "snapshot"
              /\ mutex' = t
          BY <2>3, <3>1, <1>a, <1>b DEF FlushLock
        <4> QED
          BY <2>3, <4>1, <4>2
          DEF FlushLock, TrackInv, WriterOwnsMutex, LocalsFresh, SinceSnapshot,
              FileIsSnapshot, BeforeLoad, DirtyTracked
      <3>2. CASE queue # 1
        BY <2>3, <3>2, <1>b, <1>d DEF FlushLock, FlushEnds
      <3> QED
        BY <3>1, <3>2
    <2>4. CASE WriteSnapshot(t)
      <3>1. /\ \A u \in Flushers \ {t} : pc'[u] = pc[u]
            /\ pc[t] = "snapshot"
            /\ pc'[t] = "take"
        BY <2>4, <1>a, <1>b DEF WriteSnapshot
      <3> QED
        BY <2>4, <3>1
        DEF WriteSnapshot, TrackInv, WriterOwnsMutex, LocalsFresh,
            SinceSnapshot, FileIsSnapshot, BeforeLoad, DirtyTracked
    <2>5. CASE WriteTake(t)
      <3>0. pc[t] = "take" /\ \A u \in Flushers :
                                 pc[u] \notin {"write", "notify"}
        BY <2>5, <2>m DEF WriteTake
      <3>1. keysModified = {}
        BY <3>0 DEF TrackInv, LocalsFresh
      <3>2. UNCHANGED <<file, loadResult, writeFailed>>
        BY <2>5 DEF WriteTake
      <3> DEFINE dirty == IF sawCleared THEN modifiedKeys \cup Present(valuesCache)
                                        ELSE modifiedKeys
      <3>3. \A k \in Keys : valuesCache'[k] # valuesCache[k] => k \in dirty
        BY <2>5 DEF WriteTake, Present, EmptyMap
      <3>4. CASE dirty = {}
        <4>1. /\ \A u \in Flushers \ {t} : pc'[u] = pc[u]
              /\ pc'[t] = "idle"
              /\ UNCHANGED <<keysModified, writeToDiskMap>>
          BY <2>5, <3>4, <1>a, <1>b DEF WriteTake, FlushEnds
        <4>2. modifiedKeys = {} /\ modifiedKeys' = {}
          BY <2>5, <3>4 DEF WriteTake
        <4>3. \A k \in Keys : valuesCache'[k] = valuesCache[k]
          BY <3>3, <3>4
        <4> QED
          BY <3>0, <3>1, <3>2, <4>1, <4>2, <4>3, <2>m
          DEF TrackInv, WriterOwnsMutex, LocalsFresh, SinceSnapshot,
              FileIsSnapshot, BeforeLoad, DirtyTracked
      <3>5. CASE dirty # {}
        <4>1. /\ \A u \in Flushers \ {t} : pc'[u] = pc[u]
              /\ pc'[t] = "write"
              /\ keysModified' = dirty
              /\ writeToDiskMap' = valuesCache'
              /\ mutex' = mutex
          BY <2>5, <3>5, <1>a, <1>b DEF WriteTake
        <4>2. (BeforeLoad /\ DirtyTracked)'
          BY <3>1, <3>2, <3>3, <4>1 DEF TrackInv, BeforeLoad, DirtyTracked
        <4>3. (WriterOwnsMutex /\ LocalsFresh /\ SinceSnapshot /\ FileIsSnapshot)'
          BY <3>0, <4>1, <2>m DEF TrackInv, WriterOwnsMutex, LocalsFresh,
                             SinceSnapshot, FileIsSnapshot
        <4> QED
          BY <4>2, <4>3 DEF TrackInv
      <3> QED
        BY <3>4, <3>5
    <2>6. CASE WriteSucceeds(t)
      <3>1. /\ \A u \in Flushers \ {t} : pc'[u] = pc[u]
            /\ pc[t] = "write"
            /\ pc'[t] = "notify"
        BY <2>6, <1>a, <1>b DEF WriteSucceeds
      <3> QED
        BY <2>6, <2>m, <3>1
        DEF WriteSucceeds, TrackInv, WriterOwnsMutex, LocalsFresh,
            SinceSnapshot, FileIsSnapshot, BeforeLoad, DirtyTracked
    <2>7. CASE WriteFails(t)
      <3>1. /\ \A u \in Flushers \ {t} : pc'[u] = pc[u]
            /\ pc[t] = "write"
            /\ pc'[t] = "idle"
        BY <2>7, <1>a, <1>b DEF WriteFails, FlushEnds
      <3> QED
        BY <2>7, <2>m, <3>1
        DEF WriteFails, TrackInv, WriterOwnsMutex, LocalsFresh,
            SinceSnapshot, FileIsSnapshot, BeforeLoad, DirtyTracked
    <2>8. CASE NotifyPreferencesObserver(t)
      <3>1. /\ \A u \in Flushers \ {t} : pc'[u] = pc[u]
            /\ pc[t] = "notify"
            /\ pc'[t] = "idle"
        BY <2>8, <1>a, <1>b DEF NotifyPreferencesObserver, FlushEnds
      <3> QED
        BY <2>8, <2>m, <3>1
        DEF NotifyPreferencesObserver, TrackInv, WriterOwnsMutex, LocalsFresh,
            SinceSnapshot, FileIsSnapshot, BeforeLoad, DirtyTracked
    <2> QED
      BY <1>6, <2>1, <2>2, <2>3, <2>4, <2>5, <2>6, <2>7, <2>8 DEF RunFlush
  <1>7. ASSUME NEW c \in Clients, Invoke(c) PROVE TrackInv'
    BY <1>7, <1>b, <1>d DEF Invoke
  <1>8. ASSUME NEW c \in Clients, WaitTimesOut(c) PROVE TrackInv'
    BY <1>8, <1>b, <1>d DEF WaitTimesOut
  <1>9. CASE UNCHANGED vars \/ \E s \in {"open", "nokey", "hidden"} : StorageChanges(s)
    BY <1>9 DEF vars, StorageChanges, TrackInv, WriterOwnsMutex, LocalsFresh,
                SinceSnapshot, FileIsSnapshot, BeforeLoad, DirtyTracked
  <1> QED
    BY <1>1, <1>2, <1>3, <1>4, <1>5, <1>6, <1>7, <1>8, <1>9
    DEF Next, Progress, Environment

\* No change is forgotten: whatever clients, the load task, reloads and flushes
\* do, a key whose cached value is not in the file is marked for a write, as
\* long as no write has failed.
THEOREM NoChangeForgotten == Spec => []DirtyTracked
  <1>1. TypesOK /\ TrackInv /\ [Next]_vars => (TypesOK /\ TrackInv)'
    BY StepType, StepTrack
  <1>2. TrackInv => DirtyTracked
    BY DEF TrackInv
  <1> QED
    BY InitType, InitTrack, <1>1, <1>2, PTL DEF Spec
=============================================================================
