------------------------ MODULE PreferencesStoreProofs ------------------------
(***************************************************************************)
(* Proofs about PreferencesImpl while the storage stays open, for any       *)
(* number of clients, keys and calls and any write faults: a token is       *)
(* served, a file is read before it is overwritten, an observer knows the   *)
(* file, and PreferencesImpl implements PreferencesStore.                   *)
(***************************************************************************)
EXTENDS PreferencesImplProofs

\* The storage is open and has been since the start.
StorageOpen == storage = "open" /\ ~ isNeverUnlock /\ budget.storage = 0

\* No wait for the load task exceeds WAIT_TIME.
OnTime == budget.timeouts = 0

-----------------------------------------------------------------------------
(***************************************************************************)
(* The environment                                                         *)
(***************************************************************************)

\* An environment that may not change the storage never does.
LEMMA StepOpen == TypesOK /\ StorageOpen /\ [Next]_vars => StorageOpen'
  <1> SUFFICES ASSUME TypesOK, StorageOpen, [Next]_vars PROVE StorageOpen'
    OBVIOUS
  <1> USE DEF StorageOpen, memberVars, localVars, lockVars, threadVars, worldVars
  <1>1. CASE LoadFromDisk
    BY <1>1 DEF LoadFromDisk, ParentAccessible
  <1>2. CASE FlushTask
    BY <1>2 DEF FlushTask
  <1>3. ASSUME NEW c \in Clients, AwaitLoadFile(c) PROVE StorageOpen'
    BY <1>3 DEF AwaitLoadFile, AwaitLoaded, AwaitNotLoaded, AwaitLock, WaitEnds, AwaitPreLoad,
                PreLoad, ReloadFromDisk
  <1>4. ASSUME NEW c \in Clients, CacheOp(c) PROVE StorageOpen'
    BY <1>4 DEF CacheOp, Get, Clear, LockCache, Put, Delete
  <1>5. ASSUME NEW c \in Clients, StartFlush(c) PROVE StorageOpen'
    BY <1>5 DEF StartFlush, PushRefused, Flush, FlushSync
  <1>6. ASSUME NEW t \in Flushers, RunFlush(t) PROVE StorageOpen'
    <2>1. CASE FlushCheck(t) \/ FlushPreLoad(t) \/ FlushLock(t)
      BY <2>1 DEF FlushCheck, FlushPreLoad, FlushLock, PreLoad, ReloadFromDisk
    <2>2. CASE WriteSnapshot(t) \/ WriteTake(t) \/ WriteSucceeds(t)
                 \/ NotifyPreferencesObserver(t)
      BY <2>2 DEF WriteSnapshot, WriteTake, WriteSucceeds, NotifyPreferencesObserver
    <2>3. CASE WriteFails(t)
      BY <2>3 DEF WriteFails, Spend, TypesOK
    <2> QED
      BY <1>6, <2>1, <2>2, <2>3 DEF RunFlush
  <1>7. ASSUME NEW c \in Clients, Invoke(c) \/ WaitTimesOut(c) PROVE StorageOpen'
    BY <1>7 DEF Invoke, WaitTimesOut, Spend, TypesOK
  <1>8. ASSUME NEW s \in {"open", "nokey", "hidden"}, StorageChanges(s) PROVE FALSE
    BY <1>8 DEF StorageChanges, Spend
  <1>9. CASE UNCHANGED vars
    BY <1>9 DEF vars
  <1> QED
    BY <1>1, <1>2, <1>3, <1>4, <1>5, <1>6, <1>7, <1>8, <1>9 DEF Next, Progress, Environment

\* An environment in which no wait times out stays one.
LEMMA StepOnTime == TypesOK /\ OnTime /\ [Next]_vars => OnTime'
  <1> SUFFICES ASSUME TypesOK, OnTime, [Next]_vars PROVE OnTime'
    OBVIOUS
  <1> USE DEF OnTime, TypesOK, Spend, worldVars
  <1>1. ASSUME UNCHANGED budget PROVE OnTime'
    BY <1>1
  <1>2. CASE LoadFromDisk \/ FlushTask
    BY <1>2 DEF LoadFromDisk, FlushTask
  <1>3. ASSUME NEW c \in Clients, AwaitLoadFile(c) \/ CacheOp(c) \/ StartFlush(c) PROVE OnTime'
    BY <1>1, <1>3 DEF AwaitLoadFile, AwaitLoaded, AwaitNotLoaded, AwaitLock, WaitEnds,
         AwaitPreLoad, CacheOp, Get, Clear, LockCache, Put, Delete, StartFlush, PushRefused,
         Flush, FlushSync
  <1>4. ASSUME NEW t \in Flushers, RunFlush(t) PROVE OnTime'
    BY <1>4 DEF RunFlush, FlushCheck, FlushPreLoad, FlushLock, WriteSnapshot, WriteTake,
         WriteSucceeds, WriteFails, NotifyPreferencesObserver
  <1>5. ASSUME NEW c \in Clients, Invoke(c) \/ WaitTimesOut(c) PROVE OnTime'
    BY <1>5 DEF Invoke, WaitTimesOut
  <1>6. ASSUME NEW s \in {"open", "nokey", "hidden"}, StorageChanges(s) PROVE OnTime'
    BY <1>6 DEF StorageChanges
  <1>7. CASE UNCHANGED vars
    BY <1>7 DEF vars
  <1> QED
    BY <1>2, <1>3, <1>4, <1>5, <1>6, <1>7 DEF Next, Progress, Environment

\* PreLoad never fails while the storage is open.
LEMMA PreLoadSucceeds ==
  ASSUME TypesOK, StorageOpen, NEW verdict \in BOOLEAN, PreLoad(verdict)
  PROVE  verdict = TRUE
  BY DEF TypesOK, StorageOpen, PreLoad, ReloadFromDisk, FileAccessible, FileReadable

-----------------------------------------------------------------------------
(***************************************************************************)
(* The token                                                               *)
(***************************************************************************)

TokenInv == TypesOK /\ StorageOpen /\ OneFlushUnderWay /\ TokenIsServed

\* The token has no flush only when a flush gives up, which an open storage excludes.
LEMMA StepServed == TokenInv /\ [Next]_vars => TokenInv'
  <1> SUFFICES ASSUME TokenInv, [Next]_vars PROVE TokenIsServed'
    BY StepType, StepOpen, StepToken DEF TokenInv
  <1>1. TypesOK /\ StorageOpen /\ OneFlushUnderWay /\ TokenIsServed
    BY DEF TokenInv
  <1> USE ThreadsDistinct, <1>1
  <1> USE DEF TypesOK, TokenIsServed, FlushOwners, memberVars, localVars, lockVars, threadVars,
              worldVars, Goto, At, Threads, Flushers
  <1>2. CASE LoadFromDisk
    BY <1>2 DEF LoadFromDisk
  <1>3. CASE FlushTask
    BY <1>3 DEF FlushTask
  <1>4. ASSUME NEW c \in Clients, AwaitLoadFile(c) PROVE TokenIsServed'
    BY <1>4 DEF AwaitLoadFile, AwaitLoaded, AwaitNotLoaded, AwaitLock, WaitEnds, AwaitPreLoad
  <1>5. ASSUME NEW c \in Clients, CacheOp(c) PROVE TokenIsServed'
    BY <1>5 DEF CacheOp, Get, Clear, LockCache, Put, Delete, Return
  <1>6. ASSUME NEW c \in Clients, StartFlush(c) PROVE TokenIsServed'
    <2>1. CASE PushRefused(c)
      BY <2>1 DEF PushRefused, FlushEnds
    <2>2. CASE Flush(c)
      BY <2>2 DEF Flush, Return, OneFlushUnderWay
    <2>3. CASE FlushSync(c)
      BY <2>3 DEF FlushSync
    <2> QED
      BY <1>6, <2>1, <2>2, <2>3 DEF StartFlush
  <1>7. ASSUME NEW t \in Flushers, RunFlush(t) PROVE TokenIsServed'
    <2>1. CASE FlushCheck(t)
      BY <2>1 DEF FlushCheck
    <2>2. CASE FlushPreLoad(t)
      BY <2>2, PreLoadSucceeds DEF FlushPreLoad
    <2>3. CASE FlushLock(t)
      BY <2>3 DEF FlushLock, FlushEnds
    <2>4. CASE WriteSnapshot(t)
      BY <2>4 DEF WriteSnapshot
    <2>5. CASE WriteTake(t)
      BY <2>5 DEF WriteTake, FlushEnds
    <2>6. CASE WriteSucceeds(t)
      BY <2>6 DEF WriteSucceeds
    <2>7. CASE WriteFails(t)
      BY <2>7 DEF WriteFails, FlushEnds
    <2>8. CASE NotifyPreferencesObserver(t)
      BY <2>8 DEF NotifyPreferencesObserver, FlushEnds
    <2> QED
      BY <1>7, <2>1, <2>2, <2>3, <2>4, <2>5, <2>6, <2>7, <2>8 DEF RunFlush
  <1>8. ASSUME NEW c \in Clients, Invoke(c) PROVE TokenIsServed'
    BY <1>8 DEF Invoke
  <1>9. ASSUME NEW c \in Clients, WaitTimesOut(c) PROVE TokenIsServed'
    BY <1>9 DEF WaitTimesOut
  <1>10. ASSUME NEW s \in {"open", "nokey", "hidden"}, StorageChanges(s) PROVE TokenIsServed'
    BY <1>10 DEF StorageChanges
  <1>11. CASE UNCHANGED vars
    BY <1>11 DEF vars
  <1> QED
    BY <1>2, <1>3, <1>4, <1>5, <1>6, <1>7, <1>8, <1>9, <1>10, <1>11
    DEF Next, Progress, Environment

\* At the start the storage is open if it may not change.
LEMMA InitOpen ==
  ASSUME MaxStorageChanges = 0
  PROVE  Init => StorageOpen
  BY DEF Init, StorageOpen

\* While the storage stays open, a token in queue_, on the strength of which Flush and
\* FlushSync return without doing anything, has a flush that will serve it
\* (preferences_impl.cpp:353-399), however late the load task is.
THEOREM TokenIsServedHolds ==
  ASSUME MaxStorageChanges = 0
  PROVE  Spec => []TokenIsServed
  <1>1. Init => TokenInv
    BY InitType, InitOpen, InitToken DEF TokenInv, TokenIsServed, Init
  <1>2. TokenInv => TokenIsServed
    BY DEF TokenInv
  <1> QED
    BY <1>1, <1>2, StepServed, PTL DEF Spec

-----------------------------------------------------------------------------
(***************************************************************************)
(* The load                                                                *)
(***************************************************************************)

\* Until the load task has run nothing is cached and no client is past AwaitLoadFile, so
\* no flush finds anything to write.
BeforeLoaded ==
    ~ loaded =>
        /\ ~ loadResult /\ valuesCache = EmptyMap /\ modifiedKeys = {}
        /\ ~ isCleared /\ ~ sawCleared
        /\ \A t \in Flushers : pc[t] \notin {"preLoad", "cache", "apply", "write", "notify"}

\* The load task has read the file if there is one.
FileIsRead == loaded => loadResult \/ ~ fileExists

\* A file that is not there holds nothing.
NoFileIsEmpty == fileExists \/ file = EmptyMap

LoadInv ==
    /\ TypesOK /\ TrackInv /\ StorageOpen /\ OnTime
    /\ BeforeLoaded /\ FileIsRead /\ NoFileIsEmpty

\* At the start nothing is loaded.
LEMMA InitLoad ==
  ASSUME MaxStorageChanges = 0, MaxTimeouts = 0
  PROVE  Init => LoadInv
  <1> SUFFICES ASSUME Init PROVE LoadInv
    OBVIOUS
  <1>1. \A t \in Flushers : pc[t] = "idle"
    BY ThreadsDistinct DEF Init, Flushers, Threads
  <1>2. OnTime
    BY DEF Init, OnTime
  <1> QED
    BY <1>1, <1>2, InitType, InitTrack, InitOpen
    DEF Init, LoadInv, BeforeLoaded, FileIsRead, NoFileIsEmpty

\* After the load PreLoad finds nothing to read any more.
LEMMA PreLoadIdle ==
  ASSUME LoadInv, NEW verdict \in BOOLEAN, PreLoad(verdict)
  PROVE  UNCHANGED <<valuesCache, isNeverUnlock, loadResult>>
  BY DEF LoadInv, StorageOpen, FileIsRead, PreLoad, FileAccessible

\* Every step keeps to the order of load and use.
LEMMA StepLoad == LoadInv /\ [Next]_vars => LoadInv'
  <1> SUFFICES ASSUME LoadInv, [Next]_vars
               PROVE  BeforeLoaded' /\ FileIsRead' /\ NoFileIsEmpty'
    BY StepType, StepTrack, StepOpen, StepOnTime DEF LoadInv
  <1>1. TypesOK /\ StorageOpen /\ OnTime /\ BeforeLoaded /\ FileIsRead /\ NoFileIsEmpty
    BY DEF LoadInv
  <1>2. pc \in [Threads -> PCs] /\ Flushers \subseteq Threads /\ Clients \subseteq Flushers
    BY <1>1 DEF TypesOK, Flushers, Threads
  <1> USE ThreadsDistinct, <1>1, <1>2
  <1> USE DEF BeforeLoaded, FileIsRead, NoFileIsEmpty, memberVars, localVars, lockVars,
              threadVars, worldVars, Goto, At
  <1>3. CASE LoadFromDisk
    BY <1>3 DEF LoadFromDisk, FileReadable, StorageOpen
  <1>4. CASE FlushTask
    BY <1>4 DEF FlushTask, Flushers
  <1>5. ASSUME NEW c \in Clients, AwaitLoadFile(c)
        PROVE  BeforeLoaded' /\ FileIsRead' /\ NoFileIsEmpty'
    BY <1>5, PreLoadIdle DEF AwaitLoadFile, AwaitLoaded, AwaitNotLoaded, AwaitLock, WaitEnds,
         AwaitPreLoad
  <1>6. ASSUME NEW c \in Clients, CacheOp(c)
        PROVE  BeforeLoaded' /\ FileIsRead' /\ NoFileIsEmpty'
    <2>1. loaded
      BY <1>6 DEF CacheOp, Get, Clear, LockCache, Put, Delete
    <2>2. UNCHANGED <<loaded, loadResult, fileExists, file>>
      BY <1>6 DEF CacheOp, Get, Clear, LockCache, Put, Delete
    <2> QED
      BY <2>1, <2>2
  <1>7. ASSUME NEW c \in Clients, StartFlush(c)
        PROVE  BeforeLoaded' /\ FileIsRead' /\ NoFileIsEmpty'
    BY <1>7 DEF StartFlush, PushRefused, Flush, FlushSync, FlushEnds, Return
  <1>8. ASSUME NEW t \in Flushers, RunFlush(t)
        PROVE  BeforeLoaded' /\ FileIsRead' /\ NoFileIsEmpty'
    <2>1. CASE FlushCheck(t) \/ FlushLock(t)
      BY <2>1 DEF FlushCheck, FlushLock, FlushEnds
    <2>2. CASE FlushPreLoad(t)
      BY <2>2, PreLoadIdle DEF FlushPreLoad, FlushEnds
    <2>3. CASE WriteSnapshot(t)
      BY <2>3 DEF WriteSnapshot
    <2>4. CASE WriteTake(t)
      <3>1. CASE loaded
        BY <2>4, <3>1 DEF WriteTake
      <3>2. CASE ~ loaded
        BY <2>4, <3>2 DEF WriteTake, FlushEnds
      <3> QED
        BY <3>1, <3>2
    <2>5. CASE WriteSucceeds(t)
      <3>1. loaded
        BY <2>5 DEF WriteSucceeds
      <3> QED
        BY <2>5, <3>1 DEF WriteSucceeds
    <2>6. CASE WriteFails(t)
      <3>1. loaded
        BY <2>6 DEF WriteFails
      <3> QED
        BY <2>6, <3>1 DEF WriteFails
    <2>7. CASE NotifyPreferencesObserver(t)
      BY <2>7 DEF NotifyPreferencesObserver, FlushEnds
    <2> QED
      BY <1>8, <2>1, <2>2, <2>3, <2>4, <2>5, <2>6, <2>7 DEF RunFlush
  <1>9. ASSUME NEW c \in Clients, Invoke(c)
        PROVE  BeforeLoaded' /\ FileIsRead' /\ NoFileIsEmpty'
    BY <1>9 DEF Invoke
  <1>10. ASSUME NEW c \in Clients, WaitTimesOut(c) PROVE FALSE
    BY <1>10 DEF WaitTimesOut, Spend, OnTime
  <1>11. CASE UNCHANGED vars \/ \E s \in {"open", "nokey", "hidden"} : StorageChanges(s)
    BY <1>11 DEF vars, StorageChanges
  <1> QED
    BY <1>3, <1>4, <1>5, <1>6, <1>7, <1>8, <1>9, <1>10, <1>11 DEF Next, Progress, Environment

\* WriteToDiskFile never replaces a file whose contents it has not read
\* (preferences_impl.cpp:318-351), while the storage stays open and the load is on time.
THEOREM NoBlindWriteHolds ==
  ASSUME MaxStorageChanges = 0, MaxTimeouts = 0
  PROVE  Spec => []NoBlindWrite
  <1>1. LoadInv => NoBlindWrite
    BY DEF LoadInv, BeforeLoaded, FileIsRead, NoBlindWrite, At
  <1> QED
    BY <1>1, InitLoad, StepLoad, PTL DEF Spec

-----------------------------------------------------------------------------
(***************************************************************************)
(* The observer                                                            *)
(***************************************************************************)

\* What is about to be written differs from the file in keysModified only.
SnapshotBased ==
    ~ writeFailed => \A t \in Flushers : pc[t] = "write" =>
        \A k \in Keys : writeToDiskMap[k] # file[k] => k \in keysModified

\* What the observer has not been told is what the write under way is about to tell.
ObserverTracked ==
    ~ writeFailed => \A k \in Keys : observed[k] # file[k] =>
        k \in keysModified /\ \E t \in Flushers : pc[t] = "notify"

SyncInv == LoadInv /\ SnapshotBased /\ ObserverTracked

\* Every step keeps the observer informed.
LEMMA StepSync == SyncInv /\ [Next]_vars => SyncInv'
  <1> SUFFICES ASSUME SyncInv, [Next]_vars PROVE SnapshotBased' /\ ObserverTracked'
    BY StepLoad DEF SyncInv
  <1>1. LoadInv /\ SnapshotBased /\ ObserverTracked
    BY DEF SyncInv
  <1>2. pc \in [Threads -> PCs] /\ Flushers \subseteq Threads /\ Clients \subseteq Flushers
    BY <1>1 DEF LoadInv, TypesOK, Flushers, Threads
  <1> USE ThreadsDistinct
  <1> USE DEF memberVars, localVars, lockVars, threadVars, worldVars, Goto, At
  \* A thread that neither is nor comes inside a write disturbs nothing.
  <1>3. ASSUME NEW u \in Threads, NEW label, Goto(u, label),
               u \in Flushers => /\ label \notin {"write", "notify"}
                                 /\ pc[u] \notin {"write", "notify"},
               UNCHANGED <<keysModified, writeToDiskMap, file, observed, writeFailed>>
        PROVE  SnapshotBased' /\ ObserverTracked'
    <2>1. \A t \in Flushers : /\ pc'[t] = "write" => pc[t] = "write"
                              /\ pc'[t] = "notify" <=> pc[t] = "notify"
      BY <1>2, <1>3
    <2> QED
      BY <1>1, <1>3, <2>1 DEF SnapshotBased, ObserverTracked
  <1>4. CASE LoadFromDisk \/ FlushTask
    BY <1>2, <1>3, <1>4 DEF LoadFromDisk, FlushTask, Flushers, Threads
  <1>5. ASSUME NEW c \in Clients, AwaitLoadFile(c) \/ CacheOp(c) \/ StartFlush(c) \/ Invoke(c)
                                    \/ WaitTimesOut(c)
        PROVE  SnapshotBased' /\ ObserverTracked'
    <2>1. CASE AwaitLoadFile(c) \/ WaitTimesOut(c)
      BY <1>2, <1>3, <2>1 DEF AwaitLoadFile, AwaitLoaded, AwaitNotLoaded, AwaitLock, WaitEnds,
           AwaitPreLoad, WaitTimesOut
    <2>2. CASE CacheOp(c)
      BY <1>2, <1>3, <2>2 DEF CacheOp, Get, Clear, LockCache, Put, Delete, Return
    <2>3. CASE StartFlush(c) \/ Invoke(c)
      BY <1>2, <1>3, <2>3 DEF StartFlush, PushRefused, Flush, FlushSync, FlushEnds, Return,
           Invoke
    <2> QED
      BY <1>5, <2>1, <2>2, <2>3
  <1>6. ASSUME NEW t \in Flushers, RunFlush(t) PROVE SnapshotBased' /\ ObserverTracked'
    <2>1. CASE FlushCheck(t) \/ FlushPreLoad(t) \/ FlushLock(t) \/ WriteSnapshot(t)
      BY <1>2, <1>3, <2>1 DEF FlushCheck, FlushPreLoad, FlushLock, WriteSnapshot, FlushEnds
    <2>2. ASSUME pc[t] \in {"snapshot", "take", "write", "notify"}
          PROVE  \A u \in Flushers \ {t} : pc[u] \notin {"snapshot", "take", "write", "notify"}
      BY <1>1, <2>2 DEF LoadInv, TrackInv, WriterOwnsMutex
    <2>3. CASE WriteTake(t)
      <3> DEFINE dirty == IF sawCleared THEN modifiedKeys \cup Present(valuesCache)
                                        ELSE modifiedKeys
      <3>1. pc[t] = "take" /\ UNCHANGED <<file, observed, writeFailed>>
        BY <2>3 DEF WriteTake
      <3>2. keysModified = {} /\ \A u \in Flushers : pc[u] # "notify"
        BY <1>1, <2>2, <3>1 DEF LoadInv, TrackInv, LocalsFresh
      <3>3. CASE dirty = {}
        BY <1>2, <1>3, <2>3, <3>1, <3>3 DEF WriteTake, FlushEnds
      <3>4. CASE dirty # {}
        <4>1. loaded
          BY <1>1, <3>4 DEF LoadInv, BeforeLoaded
        <4>2. /\ \A u \in Flushers \ {t} : pc'[u] = pc[u]
              /\ pc'[t] = "write"
              /\ keysModified' = dirty /\ writeToDiskMap' = valuesCache'
          BY <1>2, <2>3, <3>4 DEF WriteTake
        <4>3. ASSUME ~ writeFailed, NEW k \in Keys, valuesCache'[k] # file[k] PROVE k \in dirty
          <5>1. CASE valuesCache'[k] # valuesCache[k]
            BY <2>3, <5>1 DEF WriteTake, Present, EmptyMap
          <5>2. CASE valuesCache[k] # file[k] /\ loadResult
            BY <1>1, <3>2, <4>3, <5>2 DEF LoadInv, TrackInv, DirtyTracked
          <5>3. CASE valuesCache[k] # file[k] /\ ~ loadResult
            <6>1. file[k] = NoValue
              BY <1>1, <4>1, <5>3 DEF LoadInv, FileIsRead, NoFileIsEmpty, EmptyMap
            <6> QED
              BY <1>1, <3>2, <4>3, <5>3, <6>1 DEF LoadInv, TrackInv, BeforeLoad
          <5> QED
            BY <4>3, <5>1, <5>2, <5>3
        <4>4. SnapshotBased'
          BY <3>1, <4>2, <4>3 DEF SnapshotBased
        <4>5. ObserverTracked'
          BY <1>1, <3>1, <3>2 DEF ObserverTracked
        <4> QED
          BY <4>4, <4>5
      <3> QED
        BY <3>3, <3>4
    <2>4. CASE WriteSucceeds(t)
      <3>1. /\ pc[t] = "write" /\ pc'[t] = "notify"
            /\ \A u \in Flushers \ {t} : pc'[u] = pc[u]
            /\ file' = writeToDiskMap
            /\ UNCHANGED <<keysModified, writeToDiskMap, observed, writeFailed>>
        BY <1>2, <2>4 DEF WriteSucceeds
      <3>2. \A u \in Flushers : pc[u] # "notify"
        BY <2>2, <3>1
      <3> QED
        BY <1>1, <3>1, <3>2 DEF SnapshotBased, ObserverTracked
    <2>5. CASE WriteFails(t)
      BY <2>5 DEF WriteFails, SnapshotBased, ObserverTracked
    <2>6. CASE NotifyPreferencesObserver(t)
      <3>1. /\ pc[t] = "notify" /\ pc'[t] = "idle"
            /\ \A u \in Flushers \ {t} : pc'[u] = pc[u]
            /\ UNCHANGED <<file, writeFailed>>
            /\ observed' = [k \in Keys |-> IF k \in keysModified THEN writeToDiskMap[k]
                                                                 ELSE observed[k]]
        BY <1>2, <2>6 DEF NotifyPreferencesObserver, FlushEnds
      <3>2. \A u \in Flushers : pc'[u] # "write"
        BY <2>2, <3>1
      <3>3. file = writeToDiskMap
        BY <1>1, <3>1 DEF LoadInv, TrackInv, FileIsSnapshot
      <3> QED
        BY <1>1, <3>1, <3>2, <3>3 DEF SnapshotBased, ObserverTracked
    <2> QED
      BY <1>6, <2>1, <2>3, <2>4, <2>5, <2>6 DEF RunFlush
  <1>7. CASE UNCHANGED vars \/ \E s \in {"open", "nokey", "hidden"} : StorageChanges(s)
    BY <1>1, <1>7 DEF vars, StorageChanges, SnapshotBased, ObserverTracked
  <1> QED
    BY <1>4, <1>5, <1>6, <1>7 DEF Next, Progress, Environment

\* An observer of all keys that applies every OnChange it gets knows the file exactly
\* whenever no flush is inside WriteToDiskFile (preferences_impl.cpp:318-351, 445-484), while the
\* storage stays open, the load is on time and no write has failed.
THEOREM ObserverInSyncHolds ==
  ASSUME MaxStorageChanges = 0, MaxTimeouts = 0
  PROVE  Spec => []ObserverInSync
  <1>1. Init => SyncInv
    <2> SUFFICES ASSUME Init PROVE SyncInv
      OBVIOUS
    <2>1. \A t \in Flushers : pc[t] = "idle"
      BY ThreadsDistinct DEF Init, Flushers, Threads
    <2> QED
      BY <2>1, InitLoad DEF Init, SyncInv, SnapshotBased, ObserverTracked
  <1>2. SyncInv => ObserverInSync
    <2> SUFFICES ASSUME SyncInv, Writers = {}, ~ writeFailed PROVE observed = file
      BY DEF ObserverInSync
    <2>1. \A t \in Flushers : pc[t] # "notify"
      BY DEF Writers
    <2>2. \A k \in Keys : observed[k] = file[k]
      BY <2>1 DEF SyncInv, ObserverTracked
    <2>3. observed \in Maps /\ file \in Maps
      BY DEF SyncInv, LoadInv, TypesOK
    <2> QED
      BY <2>2, <2>3 DEF Maps
  <1> QED
    BY <1>1, <1>2, StepSync, PTL DEF Spec

-----------------------------------------------------------------------------
(***************************************************************************)
(* Refinement: PreferencesImpl implements PreferencesStore.  A call takes   *)
(* effect when it changes the cache under cacheMutex_, or sets isCleared_;  *)
(* saving begins when WriteToDiskFile reads isCleared_ and ends with the    *)
(* write.                                                                  *)
(***************************************************************************)

\* Who reads isCleared_ to change the cache later has cacheMutex_ until then.
CacheOwners == \A t \in Flushers : pc[t] \in {"apply", "take"} => cacheMutex = t

\* A clear that was seen is still in force.
SeenStands == sawCleared => isCleared

RefineInv == LoadInv /\ CacheOwners /\ SeenStands

\* Every step keeps cacheMutex_ with the thread between its read and its change.
LEMMA StepRefine == RefineInv /\ [Next]_vars => RefineInv'
  <1> SUFFICES ASSUME RefineInv, [Next]_vars PROVE CacheOwners' /\ SeenStands'
    BY StepLoad DEF RefineInv
  <1>1. pc \in [Threads -> PCs] /\ Flushers \subseteq Threads /\ Clients \subseteq Flushers
    BY DEF RefineInv, LoadInv, TypesOK, Flushers, Threads
  <1>2. CacheOwners /\ SeenStands
    BY DEF RefineInv
  <1> USE ThreadsDistinct, <1>1, <1>2
  <1> USE DEF CacheOwners, SeenStands, memberVars, localVars, lockVars, threadVars, worldVars,
              Goto, At
  <1>3. ASSUME NEW u \in Threads, NEW label, Goto(u, label),
               u \in Flushers => label \notin {"apply", "take"},
               UNCHANGED <<cacheMutex, sawCleared>>, isCleared => isCleared'
        PROVE  CacheOwners' /\ SeenStands'
    BY <1>3
  <1>4. CASE LoadFromDisk \/ FlushTask
    BY <1>3, <1>4 DEF LoadFromDisk, FlushTask, Flushers, Threads
  <1>5. ASSUME NEW c \in Clients, AwaitLoadFile(c) \/ WaitTimesOut(c)
        PROVE  CacheOwners' /\ SeenStands'
    BY <1>3, <1>5 DEF AwaitLoadFile, AwaitLoaded, AwaitNotLoaded, AwaitLock, WaitEnds,
         AwaitPreLoad, WaitTimesOut
  <1>6. ASSUME NEW c \in Clients, CacheOp(c) PROVE CacheOwners' /\ SeenStands'
    <2>1. CASE Get(c) \/ Clear(c)
      BY <1>3, <2>1 DEF Get, Clear, Return
    <2>2. CASE LockCache(c)
      BY <2>2, <1>1 DEF LockCache, Flushers, Threads
    <2>3. CASE Put(c) \/ Delete(c)
      BY <2>3 DEF Put, Delete, Return
    <2> QED
      BY <1>6, <2>1, <2>2, <2>3 DEF CacheOp
  <1>7. ASSUME NEW c \in Clients, StartFlush(c) \/ Invoke(c) PROVE CacheOwners' /\ SeenStands'
    BY <1>3, <1>7 DEF StartFlush, PushRefused, Flush, FlushSync, FlushEnds, Return, Invoke
  <1>8. ASSUME NEW t \in Flushers, RunFlush(t) PROVE CacheOwners' /\ SeenStands'
    <2>1. CASE FlushCheck(t) \/ FlushPreLoad(t) \/ FlushLock(t)
      BY <1>3, <2>1 DEF FlushCheck, FlushPreLoad, FlushLock, FlushEnds
    <2>2. CASE WriteSnapshot(t)
      BY <2>2 DEF WriteSnapshot, Flushers, Threads
    <2>3. CASE WriteTake(t)
      BY <2>3 DEF WriteTake, FlushEnds
    <2>4. CASE WriteSucceeds(t) \/ WriteFails(t) \/ NotifyPreferencesObserver(t)
      BY <1>3, <2>4 DEF WriteSucceeds, WriteFails, NotifyPreferencesObserver, FlushEnds
    <2> QED
      BY <1>8, <2>1, <2>2, <2>3, <2>4 DEF RunFlush
  <1>9. CASE UNCHANGED vars \/ \E s \in {"open", "nokey", "hidden"} : StorageChanges(s)
    BY <1>9 DEF vars, StorageChanges
  <1> QED
    BY <1>4, <1>5, <1>6, <1>7, <1>8, <1>9 DEF Next, Progress, Environment

\* A step of a thread that is not saving, nor begins to, leaves the snapshot alone.
LEMMA SnapshotKept ==
  ASSUME RefineInv, NEW u \in Threads, NEW label, pc' = [pc EXCEPT ![u] = label],
         u \in Flushers => /\ label \notin {"take", "write"}
                           /\ pc[u] \notin {"take", "write"},
         UNCHANGED writeToDiskMap,
         UNCHANGED <<sawCleared, valuesCache>> \/ \A t \in Flushers : pc[t] # "take"
  PROVE  UNCHANGED <<SavingNow, SnapshotNow>>
  <1>1. pc \in [Threads -> PCs] /\ Flushers \subseteq Threads
    BY DEF RefineInv, LoadInv, TypesOK, Flushers, Threads
  <1>2. \A t \in Flushers : /\ pc'[t] = "take" <=> pc[t] = "take"
                            /\ pc'[t] = "write" <=> pc[t] = "write"
    BY <1>1
  <1> QED
    BY <1>2 DEF SavingNow, SnapshotNow, At

\* Every step of PreferencesImpl is a step of PreferencesStore or changes nothing of it.
LEMMA StepStore == RefineInv /\ [Next]_vars => [Store!Next]_Store!vars
  <1> SUFFICES ASSUME RefineInv, [Next]_vars PROVE [Store!Next]_Store!vars
    OBVIOUS
  <1>1. /\ pc \in [Threads -> PCs] /\ Flushers \subseteq Threads /\ Clients \subseteq Flushers
        /\ valuesCache \in Maps /\ file \in Maps /\ call \in [Clients -> Calls]
    BY DEF RefineInv, LoadInv, TypesOK, Flushers, Threads
  <1>2. LoadInv /\ CacheOwners /\ SeenStands /\ TrackInv
    BY DEF RefineInv, LoadInv
  <1> USE ThreadsDistinct
  <1> USE DEF memberVars, localVars, lockVars, threadVars, worldVars, Goto, At
  <1>3. ASSUME UNCHANGED <<loaded, Effective, SavingNow, SnapshotNow, file>>
        PROVE  [Store!Next]_Store!vars
    BY <1>3 DEF Store!vars
  \* Steps that change neither the cache nor the file and are not about saving.
  <1>4. ASSUME NEW u \in Threads, NEW label, Goto(u, label),
               u \in Flushers => /\ label \notin {"take", "write"}
                                 /\ pc[u] \notin {"take", "write"},
               UNCHANGED <<loaded, isCleared, valuesCache, writeToDiskMap, file>>,
               UNCHANGED sawCleared \/ \A t \in Flushers : pc[t] # "take"
        PROVE  [Store!Next]_Store!vars
    <2>1. UNCHANGED <<SavingNow, SnapshotNow>>
      BY <1>4, SnapshotKept
    <2> QED
      BY <1>3, <1>4, <2>1 DEF Effective
  <1>5. CASE LoadFromDisk
    <2>1. /\ ~ loaded /\ loaded' /\ valuesCache = EmptyMap /\ ~ isCleared /\ ~ isCleared'
          /\ UNCHANGED file
      BY <1>2, <1>5 DEF LoadFromDisk, LoadInv, BeforeLoaded
    <2>2. \A t \in Flushers : pc[t] \notin {"snapshot", "take", "write", "notify"}
      BY <1>1, <1>2, <1>5 DEF LoadFromDisk, TrackInv, WriterOwnsMutex
    <2>3. UNCHANGED <<SavingNow, SnapshotNow>>
      BY <1>5, <2>2, SnapshotKept DEF LoadFromDisk, Flushers, Threads
    <2>4. valuesCache' = file
      <3>1. CASE fileExists
        <4>1. valuesCache' = ReadSettingXml(EmptyMap)
          BY <1>2, <1>5, <3>1 DEF LoadFromDisk, FileReadable, LoadInv, StorageOpen
        <4>2. ReadSettingXml(EmptyMap) = file
          BY <1>1 DEF ReadSettingXml, EmptyMap, Maps
        <4> QED
          BY <4>1, <4>2
      <3>2. CASE ~ fileExists
        BY <1>2, <1>5, <2>1, <3>2 DEF LoadFromDisk, FileReadable, LoadInv, NoFileIsEmpty
      <3> QED
        BY <3>1, <3>2
    <2>5. Store!Load
      BY <2>1, <2>3, <2>4 DEF Store!Load, Effective
    <2> QED
      BY <2>5 DEF Store!Next
  <1>6. CASE FlushTask
    BY <1>1, <1>4, <1>6 DEF FlushTask, Threads
  <1>7. ASSUME NEW c \in Clients, AwaitLoadFile(c) \/ WaitTimesOut(c) \/ StartFlush(c)
                                    \/ Invoke(c)
        PROVE  [Store!Next]_Store!vars
    <2>1. CASE AwaitLoaded(c) \/ AwaitNotLoaded(c) \/ AwaitLock(c) \/ WaitEnds(c)
                 \/ WaitTimesOut(c)
      BY <1>1, <1>4, <2>1 DEF AwaitLoaded, AwaitNotLoaded, AwaitLock, WaitEnds, WaitTimesOut
    <2>2. CASE AwaitPreLoad(c)
      BY <1>1, <1>2, <1>4, <2>2, PreLoadIdle DEF AwaitPreLoad
    <2>3. CASE StartFlush(c) \/ Invoke(c)
      BY <1>1, <1>4, <2>3 DEF StartFlush, PushRefused, Flush, FlushSync, FlushEnds, Return,
           Invoke
    <2> QED
      BY <1>7, <2>1, <2>2, <2>3 DEF AwaitLoadFile
  <1>8. ASSUME NEW c \in Clients, CacheOp(c) PROVE [Store!Next]_Store!vars
    <2>1. loaded /\ loaded' = loaded /\ UNCHANGED file
      BY <1>1, <1>2, <1>8 DEF CacheOp, Get, Clear, LockCache, Put, Delete, LoadInv, BeforeLoaded
    <2>2. CASE Get(c)
      BY <1>1, <1>4, <2>2 DEF Get, Return
    <2>3. CASE LockCache(c)
      <3>1. \A t \in Flushers : pc[t] # "take"
        BY <1>1, <1>2, <2>3 DEF LockCache, CacheOwners
      <3> QED
        BY <1>1, <1>4, <2>3, <3>1 DEF LockCache
    <2>4. CASE Clear(c)
      <3>1. UNCHANGED <<SavingNow, SnapshotNow>>
        BY <1>1, <2>4, SnapshotKept DEF Clear, Return
      <3>2. Effective' = EmptyMap
        BY <2>4 DEF Clear, Effective
      <3>3. Store!Clear
        BY <2>1, <3>1, <3>2 DEF Store!Clear, Store!EmptyMap, EmptyMap
      <3> QED
        BY <3>3 DEF Store!Next
    <2>5. CASE Put(c) \/ Delete(c)
      <3>1. \A t \in Flushers : pc[t] # "take"
        BY <1>1, <1>2, <2>5 DEF Put, Delete, CacheOwners
      <3>2. UNCHANGED <<SavingNow, SnapshotNow>>
        BY <1>1, <2>5, <3>1, SnapshotKept DEF Put, Delete, Return
      <3>3. call[c].key \in Keys /\ call[c].value \in Values
        BY <1>1 DEF Calls
      <3>4. CASE Put(c) /\ (sawCleared \/ ~ isCleared)
        <4>1. Effective' = [Effective EXCEPT ![call[c].key] = call[c].value]
          BY <1>1, <1>2, <3>3, <3>4 DEF Put, Effective, SeenStands, Maps
        <4>2. Store!Put(call[c].key, call[c].value)
          BY <2>1, <3>2, <4>1 DEF Store!Put
        <4> QED
          BY <3>3, <4>2 DEF Store!Next
      <3>5. CASE Delete(c) /\ ~ isCleared
        <4>1. Effective' = [Effective EXCEPT ![call[c].key] = NoValue]
          BY <1>1, <1>2, <3>3, <3>5 DEF Delete, Effective, SeenStands, Maps
        <4>2. Store!Delete(call[c].key)
          BY <2>1, <3>2, <4>1 DEF Store!Delete
        <4> QED
          BY <3>3, <4>2 DEF Store!Next
      <3>6. CASE isCleared /\ isCleared'
        BY <1>3, <2>1, <3>2, <3>6 DEF Effective
      <3> QED
        BY <1>2, <2>5, <3>4, <3>5, <3>6 DEF Put, Delete, SeenStands
    <2> QED
      BY <1>8, <2>2, <2>3, <2>4, <2>5 DEF CacheOp
  <1>9. ASSUME NEW t \in Flushers, RunFlush(t) PROVE [Store!Next]_Store!vars
    <2>1. ASSUME pc[t] \in {"snapshot", "take", "write", "notify"}
          PROVE  \A u \in Flushers \ {t} : pc[u] \notin {"snapshot", "take", "write", "notify"}
      BY <1>2, <2>1 DEF TrackInv, WriterOwnsMutex
    <2>2. CASE FlushCheck(t) \/ FlushLock(t)
      BY <1>1, <1>4, <2>2 DEF FlushCheck, FlushLock, FlushEnds
    <2>3. CASE FlushPreLoad(t)
      BY <1>1, <1>2, <1>4, <2>3, PreLoadIdle DEF FlushPreLoad, FlushEnds
    <2>4. CASE WriteSnapshot(t)
      <3>1. /\ pc[t] = "snapshot" /\ pc'[t] = "take"
            /\ \A u \in Flushers \ {t} : pc'[u] = pc[u]
            /\ sawCleared' = isCleared /\ UNCHANGED <<loaded, isCleared, valuesCache, file>>
        BY <1>1, <2>4 DEF WriteSnapshot
      <3>2. ~ SavingNow /\ SavingNow' /\ SnapshotNow' = Effective
        BY <2>1, <3>1 DEF SavingNow, SnapshotNow, Effective
      <3>3. Store!BeginSave
        BY <3>1, <3>2 DEF Store!BeginSave, Effective
      <3> QED
        BY <3>3 DEF Store!Next
    <2>5. CASE WriteTake(t)
      <3> DEFINE cache == IF sawCleared THEN EmptyMap ELSE valuesCache
      <3>1. /\ pc[t] = "take" /\ UNCHANGED <<loaded, file>> /\ valuesCache' = cache
            /\ isCleared' = (isCleared /\ ~ sawCleared)
        BY <2>5 DEF WriteTake
      <3>2. SavingNow /\ SnapshotNow = cache
        BY <3>1 DEF SavingNow, SnapshotNow
      <3>3. UNCHANGED Effective
        BY <1>2, <3>1 DEF Effective, SeenStands
      <3>4. CASE pc' = [pc EXCEPT ![t] = "idle"]
        <4>1. ~ SavingNow' /\ SnapshotNow' = EmptyMap
          BY <1>1, <2>1, <3>1, <3>4 DEF SavingNow, SnapshotNow
        <4>2. Store!AbandonSave
          BY <3>1, <3>2, <3>3, <4>1 DEF Store!AbandonSave, Store!EmptyMap, EmptyMap
        <4> QED
          BY <4>2 DEF Store!Next
      <3>5. CASE pc' = [pc EXCEPT ![t] = "write"] /\ writeToDiskMap' = cache
        <4>1. SavingNow' /\ SnapshotNow' = cache
          BY <1>1, <2>1, <3>1, <3>5 DEF SavingNow, SnapshotNow
        <4> QED
          BY <1>3, <3>1, <3>2, <3>3, <4>1
      <3> QED
        BY <2>5, <3>4, <3>5 DEF WriteTake, FlushEnds
    <2>6. ASSUME pc[t] = "write", NEW label \in {"notify", "idle"}, Goto(t, label)
          PROVE  /\ SavingNow /\ SnapshotNow = writeToDiskMap
                 /\ ~ SavingNow' /\ SnapshotNow' = EmptyMap
      <3>1. \A u \in Flushers : pc[u] # "take" /\ pc'[u] \notin {"take", "write"}
        BY <1>1, <2>1, <2>6
      <3> QED
        BY <2>6, <3>1 DEF SavingNow, SnapshotNow
    <2>7. CASE WriteSucceeds(t)
      <3>1. /\ SavingNow /\ SnapshotNow = writeToDiskMap
            /\ ~ SavingNow' /\ SnapshotNow' = EmptyMap
        BY <2>6, <2>7 DEF WriteSucceeds
      <3>2. loaded
        BY <1>2, <2>7 DEF WriteSucceeds, LoadInv, BeforeLoaded
      <3>3. Store!EndSave
        BY <2>7, <3>1, <3>2 DEF WriteSucceeds, Store!EndSave, Effective, Store!EmptyMap, EmptyMap
      <3> QED
        BY <3>3 DEF Store!Next
    <2>8. CASE WriteFails(t)
      <3>1. /\ SavingNow /\ SnapshotNow = writeToDiskMap
            /\ ~ SavingNow' /\ SnapshotNow' = EmptyMap
        BY <2>6, <2>8 DEF WriteFails, FlushEnds
      <3>2. Store!AbandonSave
        BY <2>8, <3>1 DEF WriteFails, Store!AbandonSave, Effective, Store!EmptyMap, EmptyMap
      <3> QED
        BY <3>2 DEF Store!Next
    <2>9. CASE NotifyPreferencesObserver(t)
      <3>1. /\ pc[t] = "notify" /\ pc' = [pc EXCEPT ![t] = "idle"]
            /\ UNCHANGED <<loaded, isCleared, valuesCache, file>>
        BY <2>9 DEF NotifyPreferencesObserver, FlushEnds
      <3>2. \A u \in Flushers : pc[u] \notin {"take", "write"} /\ pc'[u] \notin {"take", "write"}
        BY <1>1, <2>1, <3>1
      <3> QED
        BY <1>3, <3>1, <3>2 DEF SavingNow, SnapshotNow, Effective
    <2> QED
      BY <1>9, <2>2, <2>3, <2>4, <2>5, <2>7, <2>8, <2>9 DEF RunFlush
  <1>10. CASE UNCHANGED vars \/ \E s \in {"open", "nokey", "hidden"} : StorageChanges(s)
    BY <1>3, <1>10 DEF vars, StorageChanges, Effective, SavingNow, SnapshotNow
  <1> QED
    BY <1>5, <1>6, <1>7, <1>8, <1>9, <1>10 DEF Next, Progress, Environment

\* PreferencesImpl implements PreferencesStore while the storage stays open and the load
\* task is on time (preferences_impl.cpp, against the contract in preferences.h): however
\* clients, the load task and flushes interleave, and whichever writes fail, every call
\* takes effect at one moment, and the file only ever becomes a snapshot of what clients saw.
THEOREM ImplementsStoreHolds ==
  ASSUME MaxStorageChanges = 0, MaxTimeouts = 0
  PROVE  Spec => ImplementsStore
  <1>1. Init => RefineInv /\ Store!Init
    <2> SUFFICES ASSUME Init PROVE RefineInv /\ Store!Init
      OBVIOUS
    <2>1. \A t \in Flushers : pc[t] = "idle"
      BY ThreadsDistinct DEF Init, Flushers, Threads
    <2>2. RefineInv
      BY <2>1, InitLoad DEF Init, RefineInv, CacheOwners, SeenStands
    <2>3. Store!Init
      BY <2>1 DEF Init, Store!Init, Effective, SavingNow, SnapshotNow, At, Store!EmptyMap,
           EmptyMap, Store!Maps, Maps
    <2> QED
      BY <2>2, <2>3
  <1> QED
    BY <1>1, StepRefine, StepStore, PTL DEF Spec, ImplementsStore, Store!Spec
=============================================================================
