--------------------------- MODULE PreferencesImpl ---------------------------
(***************************************************************************)
(* One PreferencesImpl instance (frameworks/native/src/preferences_impl.cpp)*)
(* shared by client threads, the asynchronous load task and the delayed    *)
(* flush task.  The control is the code's: every lock, unlocked read, early *)
(* return and error path.  The data is abstract: a map of preferences is a *)
(* total function from Keys to Values plus NoValue.                        *)
(*                                                                         *)
(* The file is the map an intact XML file decodes to; how it survives      *)
(* crashes, corruption and the .bak file is the business of XmlFile.  One   *)
(* process owns the file here, so every access to it is under mutex_.       *)
(***************************************************************************)
EXTENDS Integers

CONSTANTS
    Clients,            \* client threads that call the Preferences API
    Loader,             \* the thread that runs the LoadFromDisk task
    Executor,           \* the one thread of the static executorPool_
    Keys, Values,
    NoValue,            \* marks a key that a map does not contain
    NoThread,           \* owner of a free mutex
    Ops,                \* the API calls that clients make
    \* Bounds, each the number of times the environment may do the thing:
    MaxCalls,           \* API calls, of all clients together
    MaxStorageChanges,  \* times the storage is locked, hidden or unlocked
    MaxTimeouts,        \* waits for the load task that exceed WAIT_TIME
    MaxWriteFaults      \* writes that fail although the storage is open

AllOps == {"Put", "Delete", "Clear", "Get", "Flush", "FlushSync"}

Threads == Clients \cup {Loader, Executor}

\* Threads that may run a flush: FlushSync runs it itself, Flush schedules it.
Flushers == Clients \cup {Executor}

ASSUME ThreadsDistinct ==
    /\ Loader \notin Clients
    /\ Executor \notin Clients
    /\ Loader # Executor
    /\ NoThread \notin Threads

ASSUME NoValueIsNoValue == NoValue \notin Values

ASSUME SomethingToStore == Keys # {} /\ Values # {}

ASSUME OpsAssumption == Ops \subseteq AllOps

ASSUME BoundsAssumption ==
    /\ MaxCalls \in Nat
    /\ MaxStorageChanges \in Nat
    /\ MaxTimeouts \in Nat
    /\ MaxWriteFaults \in Nat

Maps == [Keys -> Values \cup {NoValue}]

EmptyMap == [k \in Keys |-> NoValue]

Present(m) == {k \in Keys : m[k] # NoValue}

\* Arguments of a call that takes none.
NoKey == CHOOSE k \in Keys : TRUE
NoArg == CHOOSE v \in Values : TRUE

\* What a call looks like to the thread that runs it.
Calls == [name : AllOps, key : Keys, value : Values]

Idle == [name |-> "Get", key |-> NoKey, value |-> NoArg]

\* The calls that clients make.
Invocations ==
    {i \in Calls : /\ i.name \in Ops
                   /\ i.name \in {"Put", "Delete"} \/ i.key = NoKey
                   /\ i.name = "Put" \/ i.value = NoArg}

VARIABLES
    \* members of PreferencesImpl
    loaded, isNeverUnlock, loadResult, isCleared, valuesCache, modifiedKeys,
    queue,              \* SafeBlockQueue of capacity 1: number of tokens in it
    mutex, cacheMutex,  \* who owns mutex_, who owns cacheMutex_ exclusively
    \* the locals of WriteToDiskFile, which runs under mutex_
    keysModified, writeToDiskMap,
    \* threads
    pc, call,
    sawCleared,         \* isCleared_ as read by the owner of cacheMutex_
    result,             \* what a client's FlushSync has returned
    scheduled,          \* flush tasks handed to executorPool_ and not started
    \* the world outside
    fileExists, file,   \* the preferences file and the map it decodes to
    storage,            \* what the file system lets the process do
    observed,           \* the map an observer of all keys has rebuilt
    writeFailed,        \* history: some WriteSettingXml has returned false
    budget              \* what is left of each bound

memberVars == <<loaded, isNeverUnlock, loadResult, isCleared, valuesCache,
                modifiedKeys, queue>>
localVars  == <<keysModified, writeToDiskMap>>
lockVars   == <<mutex, cacheMutex>>
threadVars == <<pc, call, sawCleared, result, scheduled>>
worldVars  == <<fileExists, file, storage, observed, writeFailed, budget>>

vars == <<memberVars, localVars, lockVars, threadVars, worldVars>>

PCs == {"idle",
        "await", "awaitLock", "wait", "preLoad", "cache", "apply",
        "push", "flushCheck", "flushPreLoad", "flushLock", "snapshot", "take",
        "write", "notify",
        "load", "ended"}

Init ==
    /\ loaded = FALSE
    /\ isNeverUnlock = FALSE
    /\ loadResult = FALSE
    /\ isCleared = FALSE
    /\ valuesCache = EmptyMap
    /\ modifiedKeys = {}
    /\ queue = 0
    /\ mutex = NoThread
    /\ cacheMutex = NoThread
    /\ keysModified = {}
    /\ writeToDiskMap = EmptyMap
    /\ pc = [t \in Threads |-> IF t = Loader THEN "load" ELSE "idle"]
    /\ call = [c \in Clients |-> Idle]
    /\ sawCleared = FALSE
    /\ result = [c \in Clients |-> "none"]
    /\ scheduled = 0
    /\ fileExists \in BOOLEAN
    /\ file \in Maps
    /\ fileExists \/ file = EmptyMap
    /\ storage \in IF MaxStorageChanges = 0 THEN {"open"}
                                            ELSE {"open", "nokey", "hidden"}
    /\ observed = file
    /\ writeFailed = FALSE
    /\ budget = [calls    |-> MaxCalls,    storage |-> MaxStorageChanges,
                 timeouts |-> MaxTimeouts, faults  |-> MaxWriteFaults]

Goto(t, label) == pc' = [pc EXCEPT ![t] = label]

At(t, label) == pc[t] = label

Spend(what) ==
    /\ budget[what] > 0
    /\ budget' = [budget EXCEPT ![what] = @ - 1]

-----------------------------------------------------------------------------
(***************************************************************************)
(* The file system.  "open": files can be read and written.  "nokey": the  *)
(* file is visible but its key is not available (errno 126, 128), so that  *)
(* neither reading nor writing works.  "hidden": the parent directory is    *)
(* not accessible.                                                          *)
(***************************************************************************)

\* Access(options_.filePath) == 0
FileAccessible == fileExists /\ storage # "hidden"

ParentAccessible == storage # "hidden"

\* ReadSettingXml succeeds
FileReadable == fileExists /\ storage = "open"

StorageChanges(s) ==
    /\ s # storage
    /\ Spend("storage")
    /\ storage' = s
    /\ UNCHANGED <<memberVars, localVars, lockVars, threadVars,
                   fileExists, file, observed, writeFailed>>

-----------------------------------------------------------------------------
(***************************************************************************)
(* Loading.                                                                 *)
(***************************************************************************)

\* The map that ReadSettingXml leaves in conMap: it inserts what the file
\* holds and never overwrites a key that conMap already has.
ReadSettingXml(conMap) ==
    [k \in Keys |-> IF conMap[k] # NoValue THEN conMap[k] ELSE file[k]]

\* Faulty variant: a failed load neither sets loaded_ nor notifies.
LoadFromDiskSilentOnFailure ==
    /\ At(Loader, "load")
    /\ mutex = NoThread
    /\ ~loaded
    /\ IF FileReadable
         THEN /\ cacheMutex = NoThread
              /\ valuesCache' = ReadSettingXml(EmptyMap)
              /\ loadResult' = TRUE
              /\ isNeverUnlock' = FALSE
         ELSE /\ isNeverUnlock' = (isNeverUnlock \/ ~ParentAccessible)
              /\ UNCHANGED <<valuesCache, loadResult>>
    /\ loaded' = FileReadable
    /\ Goto(Loader, "ended")
    /\ UNCHANGED <<isCleared, modifiedKeys, queue, localVars, lockVars,
                   call, sawCleared, result, scheduled, worldVars>>

\* The LoadFromDisk task: everything but the first test of loaded_ is under
\* mutex_, and nobody else reads the file or isNeverUnlock_ without it.
LoadFromDisk ==
    /\ At(Loader, "load")
    /\ mutex = NoThread
    /\ ~loaded
    /\ IF FileReadable
         THEN /\ cacheMutex = NoThread
              /\ valuesCache' = ReadSettingXml(EmptyMap)
              /\ loadResult' = TRUE
              /\ isNeverUnlock' = FALSE
         ELSE /\ isNeverUnlock' = (isNeverUnlock \/ ~ParentAccessible)
              /\ UNCHANGED <<valuesCache, loadResult>>
    /\ loaded' = TRUE
    /\ Goto(Loader, "ended")
    /\ UNCHANGED <<isCleared, modifiedKeys, queue, localVars, lockVars,
                   call, sawCleared, result, scheduled, worldVars>>

\* ReloadFromDisk, called by PreLoad under mutex_; it holds cacheMutex_
\* throughout.  The verdict is what it returns.
ReloadFromDisk(verdict) ==
    \/ /\ loadResult
       /\ verdict = FALSE
       /\ UNCHANGED <<valuesCache, isNeverUnlock, loadResult>>
    \/ /\ ~loadResult
       /\ cacheMutex = NoThread
       /\ verdict = FileReadable
       /\ IF FileReadable
            THEN /\ valuesCache' = ReadSettingXml(valuesCache)
                 /\ isNeverUnlock' = FALSE
                 /\ loadResult' = TRUE
            ELSE UNCHANGED <<valuesCache, isNeverUnlock, loadResult>>

\* The part of PreLoad that follows its unlocked test of loadResult_.
PreLoad(verdict) ==
    /\ mutex = NoThread
    /\ IF loaded /\ (isNeverUnlock \/ ~loadResult) /\ FileAccessible
         THEN ReloadFromDisk(verdict)
         ELSE /\ verdict = TRUE
              /\ UNCHANGED <<valuesCache, isNeverUnlock, loadResult>>

-----------------------------------------------------------------------------
(***************************************************************************)
(* AwaitLoadFile, the prologue of Get, Put, Delete and Clear.               *)
(***************************************************************************)

\* loaded_.load() is true and PreLoad reads loadResult_ without the mutex.
AwaitLoaded(c) ==
    /\ At(c, "await")
    /\ loaded
    /\ Goto(c, IF loadResult THEN "cache" ELSE "preLoad")
    /\ UNCHANGED <<memberVars, localVars, lockVars, call, sawCleared, result,
                   scheduled, worldVars>>

AwaitNotLoaded(c) ==
    /\ At(c, "await")
    /\ ~loaded
    /\ Goto(c, "awaitLock")
    /\ UNCHANGED <<memberVars, localVars, lockVars, call, sawCleared, result,
                   scheduled, worldVars>>

\* Faulty variant: does not wait for the load task.
AwaitLockNoWait(c) ==
    /\ At(c, "awaitLock")
    /\ mutex = NoThread
    /\ Goto(c, "cache")
    /\ UNCHANGED <<memberVars, localVars, lockVars, call, sawCleared, result,
                   scheduled, worldVars>>

\* Takes mutex_, tests loaded_ again and waits on cond_, which releases it.
AwaitLock(c) ==
    /\ At(c, "awaitLock")
    /\ mutex = NoThread
    /\ Goto(c, IF loaded THEN "cache" ELSE "wait")
    /\ UNCHANGED <<memberVars, localVars, lockVars, call, sawCleared, result,
                   scheduled, worldVars>>

\* The load task has notified cond_.
WaitEnds(c) ==
    /\ At(c, "wait")
    /\ mutex = NoThread
    /\ loaded
    /\ Goto(c, "cache")
    /\ UNCHANGED <<memberVars, localVars, lockVars, call, sawCleared, result,
                   scheduled, worldVars>>

\* WAIT_TIME passed before the load task ran: logged, and the call goes on.
WaitTimesOut(c) ==
    /\ At(c, "wait")
    /\ mutex = NoThread
    /\ ~loaded
    /\ Spend("timeouts")
    /\ Goto(c, "cache")
    /\ UNCHANGED <<memberVars, localVars, lockVars, call, sawCleared, result,
                   scheduled, fileExists, file, storage, observed,
                   writeFailed>>

\* AwaitLoadFile ignores what PreLoad returns.
AwaitPreLoad(c) ==
    /\ At(c, "preLoad")
    /\ \E verdict \in BOOLEAN : PreLoad(verdict)
    /\ Goto(c, "cache")
    /\ UNCHANGED <<loaded, isCleared, modifiedKeys, queue, localVars,
                   lockVars, call, sawCleared, result, scheduled, worldVars>>

-----------------------------------------------------------------------------
(***************************************************************************)
(* The calls that work on the cache.                                        *)
(***************************************************************************)

\* A client enters an API call.
Invoke(c) ==
    /\ At(c, "idle")
    /\ Spend("calls")
    /\ \E i \in Invocations :
          /\ call' = [call EXCEPT ![c] = i]
          /\ Goto(c, IF i.name \in {"Flush", "FlushSync"} THEN "push" ELSE "await")
    /\ result' = [result EXCEPT ![c] = "none"]
    /\ UNCHANGED <<memberVars, localVars, lockVars, sawCleared, scheduled,
                   fileExists, file, storage, observed, writeFailed>>

Return(c) == Goto(c, "idle") /\ UNCHANGED result

\* Get, GetAll, HasKey, GetValue...: the shared lock keeps writers out, so the
\* answer is the one at the moment isCleared_ is read.
Get(c) ==
    /\ At(c, "cache")
    /\ call[c].name = "Get"
    /\ cacheMutex = NoThread
    /\ Return(c)
    /\ UNCHANGED <<memberVars, localVars, lockVars, call, sawCleared,
                   scheduled, worldVars>>

\* Clear only sets the flag, and takes no lock to do it.
Clear(c) ==
    /\ At(c, "cache")
    /\ call[c].name = "Clear"
    /\ isCleared' = TRUE
    /\ Return(c)
    /\ UNCHANGED <<loaded, isNeverUnlock, loadResult, valuesCache,
                   modifiedKeys, queue, localVars, lockVars, call, sawCleared,
                   scheduled, worldVars>>

\* Put and Delete take cacheMutex_ and read isCleared_ ...
LockCache(c) ==
    /\ At(c, "cache")
    /\ call[c].name \in {"Put", "Delete"}
    /\ cacheMutex = NoThread
    /\ cacheMutex' = c
    /\ sawCleared' = isCleared
    /\ Goto(c, "apply")
    /\ UNCHANGED <<memberVars, localVars, mutex, call, result, scheduled,
                   worldVars>>

\* Faulty variant: after a clear, only the new key is marked.
PutForgetsCleared(c) ==
    /\ At(c, "apply")
    /\ call[c].name = "Put"
    /\ LET k == call[c].key
           v == call[c].value
       IN  IF sawCleared
             THEN /\ modifiedKeys' = modifiedKeys \cup {k}
                  /\ valuesCache' = [EmptyMap EXCEPT ![k] = v]
                  /\ isCleared' = FALSE
             ELSE /\ IF valuesCache[k] = v
                       THEN UNCHANGED <<valuesCache, modifiedKeys>>
                       ELSE /\ valuesCache' = [valuesCache EXCEPT ![k] = v]
                            /\ modifiedKeys' = modifiedKeys \cup {k}
                  /\ UNCHANGED isCleared
    /\ cacheMutex' = NoThread
    /\ sawCleared' = FALSE
    /\ Return(c)
    /\ UNCHANGED <<loaded, isNeverUnlock, loadResult, queue, localVars, mutex,
                   call, scheduled, worldVars>>

\* ... and then change the cache: a Clear may come in between.
Put(c) ==
    /\ At(c, "apply")
    /\ call[c].name = "Put"
    /\ LET k == call[c].key
           v == call[c].value
       IN  IF sawCleared
             THEN /\ modifiedKeys' = modifiedKeys \cup Present(valuesCache) \cup {k}
                  /\ valuesCache' = [EmptyMap EXCEPT ![k] = v]
                  /\ isCleared' = FALSE
             ELSE /\ IF valuesCache[k] = v
                       THEN UNCHANGED <<valuesCache, modifiedKeys>>
                       ELSE /\ valuesCache' = [valuesCache EXCEPT ![k] = v]
                            /\ modifiedKeys' = modifiedKeys \cup {k}
                  /\ UNCHANGED isCleared
    /\ cacheMutex' = NoThread
    /\ sawCleared' = FALSE
    /\ Return(c)
    /\ UNCHANGED <<loaded, isNeverUnlock, loadResult, queue, localVars, mutex,
                   call, scheduled, worldVars>>

Delete(c) ==
    /\ At(c, "apply")
    /\ call[c].name = "Delete"
    /\ LET k == call[c].key
       IN  IF sawCleared \/ valuesCache[k] = NoValue
             THEN UNCHANGED <<valuesCache, modifiedKeys>>
             ELSE /\ valuesCache' = [valuesCache EXCEPT ![k] = NoValue]
                  /\ modifiedKeys' = modifiedKeys \cup {k}
    /\ cacheMutex' = NoThread
    /\ sawCleared' = FALSE
    /\ Return(c)
    /\ UNCHANGED <<loaded, isNeverUnlock, loadResult, isCleared, queue,
                   localVars, mutex, call, scheduled, worldVars>>

-----------------------------------------------------------------------------
(***************************************************************************)
(* Flushing.  The token in queue_ stands for "a flush is on its way".       *)
(***************************************************************************)

\* The flush of thread t is over; FlushSync returns code to its caller.
FlushEnds(t, code) ==
    /\ Goto(t, "idle")
    /\ result' = IF t \in Clients /\ call[t].name = "FlushSync"
                   THEN [result EXCEPT ![t] = code] ELSE result

\* Flush and FlushSync: PushNoWait fails when a token is there, and then both
\* return at once, FlushSync with E_OK.
PushRefused(c) ==
    /\ At(c, "push")
    /\ queue = 1
    /\ FlushEnds(c, "ok")
    /\ UNCHANGED <<memberVars, localVars, lockVars, call, sawCleared,
                   scheduled, worldVars>>

\* Faulty variant: the queue takes any number of tokens.
FlushNoCapacity(c) ==
    /\ At(c, "push")
    /\ call[c].name = "Flush"
    /\ queue' = queue + 1
    /\ scheduled' = scheduled + 1
    /\ Return(c)
    /\ UNCHANGED <<loaded, isNeverUnlock, loadResult, isCleared, valuesCache,
                   modifiedKeys, localVars, lockVars, call, sawCleared,
                   worldVars>>

\* Faulty variant: pushes the token and schedules no task.
FlushNotScheduled(c) ==
    /\ At(c, "push")
    /\ call[c].name = "Flush"
    /\ queue = 0
    /\ queue' = 1
    /\ UNCHANGED scheduled
    /\ Return(c)
    /\ UNCHANGED <<loaded, isNeverUnlock, loadResult, isCleared, valuesCache,
                   modifiedKeys, localVars, lockVars, call, sawCleared,
                   worldVars>>

\* Flush: pushes the token and schedules the task.
Flush(c) ==
    /\ At(c, "push")
    /\ call[c].name = "Flush"
    /\ queue = 0
    /\ queue' = 1
    /\ scheduled' = scheduled + 1
    /\ Return(c)
    /\ UNCHANGED <<loaded, isNeverUnlock, loadResult, isCleared, valuesCache,
                   modifiedKeys, localVars, lockVars, call, sawCleared,
                   worldVars>>

\* Faulty variant: flushes although a token is there.
FlushSyncNoCapacity(c) ==
    /\ At(c, "push")
    /\ call[c].name = "FlushSync"
    /\ queue' = 1
    /\ Goto(c, "flushCheck")
    /\ UNCHANGED <<loaded, isNeverUnlock, loadResult, isCleared, valuesCache,
                   modifiedKeys, localVars, lockVars, call, sawCleared, result,
                   scheduled, worldVars>>

\* FlushSync: pushes the token and goes on in the caller's thread.
FlushSync(c) ==
    /\ At(c, "push")
    /\ call[c].name = "FlushSync"
    /\ queue = 0
    /\ queue' = 1
    /\ Goto(c, "flushCheck")
    /\ UNCHANGED <<loaded, isNeverUnlock, loadResult, isCleared, valuesCache,
                   modifiedKeys, localVars, lockVars, call, sawCleared, result,
                   scheduled, worldVars>>

\* TASK_EXEC_TIME has passed: the pool's thread starts the task.  The instance is alive; the
\* task of a released one finds its weak_ptr expired and returns.
FlushTask ==
    /\ At(Executor, "idle")
    /\ scheduled > 0
    /\ scheduled' = scheduled - 1
    /\ Goto(Executor, "flushCheck")
    /\ UNCHANGED <<memberVars, localVars, lockVars, call, sawCleared, result,
                   worldVars>>

\* PreLoad's unlocked read of loadResult_.
FlushCheck(t) ==
    /\ At(t, "flushCheck")
    /\ Goto(t, IF loadResult THEN "flushLock" ELSE "flushPreLoad")
    /\ UNCHANGED <<memberVars, localVars, lockVars, call, sawCleared, result,
                   scheduled, worldVars>>

\* If PreLoad fails the flush is given up: E_OK, and the token stays.
FlushPreLoad(t) ==
    /\ At(t, "flushPreLoad")
    /\ \E verdict \in BOOLEAN :
          /\ PreLoad(verdict)
          /\ IF verdict THEN Goto(t, "flushLock") /\ UNCHANGED result
                        ELSE FlushEnds(t, "ok")
    /\ UNCHANGED <<loaded, isCleared, modifiedKeys, queue, localVars,
                   lockVars, call, sawCleared, scheduled, worldVars>>

\* Faulty variant: leaves the token in the queue.
FlushLockKeepsToken(t) ==
    /\ At(t, "flushLock")
    /\ mutex = NoThread
    /\ IF queue = 1
         THEN /\ queue' = queue
              /\ mutex' = t
              /\ Goto(t, "snapshot")
              /\ UNCHANGED result
         ELSE /\ FlushEnds(t, "ok")
              /\ UNCHANGED <<queue, mutex>>
    /\ UNCHANGED <<loaded, isNeverUnlock, loadResult, isCleared, valuesCache,
                   modifiedKeys, localVars, cacheMutex, call, sawCleared,
                   scheduled, worldVars>>

\* Takes mutex_ and the token; without a token there is nothing to do.
FlushLock(t) ==
    /\ At(t, "flushLock")
    /\ mutex = NoThread
    /\ IF queue = 1
         THEN /\ queue' = 0
              /\ mutex' = t
              /\ Goto(t, "snapshot")
              /\ UNCHANGED result
         ELSE /\ FlushEnds(t, "ok")
              /\ UNCHANGED <<queue, mutex>>
    /\ UNCHANGED <<loaded, isNeverUnlock, loadResult, isCleared, valuesCache,
                   modifiedKeys, localVars, cacheMutex, call, sawCleared,
                   scheduled, worldVars>>

\* WriteToDiskFile takes cacheMutex_ and reads isCleared_ ...
WriteSnapshot(t) ==
    /\ At(t, "snapshot")
    /\ cacheMutex = NoThread
    /\ cacheMutex' = t
    /\ sawCleared' = isCleared
    /\ Goto(t, "take")
    /\ UNCHANGED <<memberVars, localVars, mutex, call, result, scheduled,
                   worldVars>>

\* Faulty variant: resets isCleared_ whether or not it was seen.
WriteTakeResetsClear(t) ==
    /\ At(t, "take")
    /\ LET cache == IF sawCleared THEN EmptyMap ELSE valuesCache
           dirty == IF sawCleared THEN modifiedKeys \cup Present(valuesCache)
                                     ELSE modifiedKeys
       IN  /\ valuesCache' = cache
           /\ modifiedKeys' = {}
           /\ IF dirty = {}
                THEN /\ FlushEnds(t, "ok")
                     /\ mutex' = NoThread
                     /\ UNCHANGED localVars
                ELSE /\ Goto(t, "write")
                     /\ keysModified' = dirty
                     /\ writeToDiskMap' = cache
                     /\ UNCHANGED <<mutex, result>>
    /\ isCleared' = FALSE
    /\ cacheMutex' = NoThread
    /\ sawCleared' = FALSE
    /\ UNCHANGED <<loaded, isNeverUnlock, loadResult, queue, call,
                   scheduled, worldVars>>

\* ... carries out the clear, and moves the modified keys and a copy of the
\* cache out.  With nothing modified the file is left alone.
WriteTake(t) ==
    /\ At(t, "take")
    /\ LET cache == IF sawCleared THEN EmptyMap ELSE valuesCache
           dirty == IF sawCleared THEN modifiedKeys \cup Present(valuesCache)
                                     ELSE modifiedKeys
       IN  /\ valuesCache' = cache
           /\ modifiedKeys' = {}
           /\ IF dirty = {}
                THEN /\ FlushEnds(t, "ok")
                     /\ mutex' = NoThread
                     /\ UNCHANGED localVars
                ELSE /\ Goto(t, "write")
                     /\ keysModified' = dirty
                     /\ writeToDiskMap' = cache
                     /\ UNCHANGED <<mutex, result>>
    /\ isCleared' = (isCleared /\ ~sawCleared)
    /\ cacheMutex' = NoThread
    /\ sawCleared' = FALSE
    /\ UNCHANGED <<loaded, isNeverUnlock, loadResult, queue, call,
                   scheduled, worldVars>>

\* Faulty variant: drops the keys marked since the snapshot too.
WriteSucceedsUnmarks(t) ==
    /\ At(t, "write")
    /\ storage = "open"
    /\ fileExists' = TRUE
    /\ file' = writeToDiskMap
    /\ isNeverUnlock' = FALSE
    /\ loadResult' = TRUE
    /\ modifiedKeys' = {}
    /\ Goto(t, "notify")
    /\ UNCHANGED <<loaded, isCleared, valuesCache, queue,
                   localVars, lockVars, call, sawCleared, result, scheduled,
                   storage, observed, writeFailed, budget>>

\* WriteSettingXml returns true.
WriteSucceeds(t) ==
    /\ At(t, "write")
    /\ storage = "open"
    /\ fileExists' = TRUE
    /\ file' = writeToDiskMap
    /\ isNeverUnlock' = FALSE
    /\ loadResult' = TRUE
    /\ Goto(t, "notify")
    /\ UNCHANGED <<loaded, isCleared, valuesCache, modifiedKeys, queue,
                   localVars, lockVars, call, sawCleared, result, scheduled,
                   storage, observed, writeFailed, budget>>

\* WriteSettingXml returns false: SaveXmlFile has put the old file back, or
\* has lost it because the backup could not be read.  Nothing else is undone.
WriteFails(t) ==
    /\ At(t, "write")
    /\ IF storage = "open" THEN Spend("faults") ELSE UNCHANGED budget
    /\ \/ UNCHANGED <<fileExists, file>>
       \/ fileExists' = FALSE /\ file' = EmptyMap
    /\ writeFailed' = TRUE
    /\ keysModified' = {}
    /\ writeToDiskMap' = EmptyMap
    /\ mutex' = NoThread
    /\ FlushEnds(t, "error")
    /\ UNCHANGED <<memberVars, cacheMutex, call, sawCleared, scheduled,
                   storage, observed>>

\* NotifyPreferencesObserver: the observer is told the modified keys with the
\* values written, still under mutex_.
NotifyPreferencesObserver(t) ==
    /\ At(t, "notify")
    /\ observed' = [k \in Keys |-> IF k \in keysModified THEN writeToDiskMap[k]
                                                         ELSE observed[k]]
    /\ keysModified' = {}
    /\ writeToDiskMap' = EmptyMap
    /\ mutex' = NoThread
    /\ FlushEnds(t, "ok")
    /\ UNCHANGED <<memberVars, cacheMutex, call, sawCleared, scheduled,
                   fileExists, file, storage, writeFailed, budget>>

-----------------------------------------------------------------------------
AwaitLoadFile(c) ==
    \/ AwaitLoaded(c)
    \/ AwaitNotLoaded(c)
    \/ AwaitLock(c)
    \/ WaitEnds(c)
    \/ AwaitPreLoad(c)

CacheOp(c) ==
    \/ Get(c)
    \/ Clear(c)
    \/ LockCache(c)
    \/ Put(c)
    \/ Delete(c)

StartFlush(c) ==
    \/ PushRefused(c)
    \/ Flush(c)
    \/ FlushSync(c)

RunFlush(t) ==
    \/ FlushCheck(t)
    \/ FlushPreLoad(t)
    \/ FlushLock(t)
    \/ WriteSnapshot(t)
    \/ WriteTake(t)
    \/ WriteSucceeds(t)
    \/ WriteFails(t)
    \/ NotifyPreferencesObserver(t)

\* Steps that a running thread takes by itself.
Progress ==
    \/ LoadFromDisk
    \/ FlushTask
    \/ \E c \in Clients : AwaitLoadFile(c) \/ CacheOp(c) \/ StartFlush(c)
    \/ \E t \in Flushers : RunFlush(t)

\* Steps of the environment.
Environment ==
    \/ \E c \in Clients : Invoke(c) \/ WaitTimesOut(c)
    \/ \E s \in {"open", "nokey", "hidden"} : StorageChanges(s)

Next == Progress \/ Environment

Spec == Init /\ [][Next]_vars

\* Every thread that can move does: the scheduler is fair to the load task,
\* to the pool's thread and to each client inside a call.  Nothing makes a
\* client call, storage change or a wait time out.
Fairness ==
    /\ WF_vars(LoadFromDisk)
    /\ WF_vars(FlushTask)
    /\ \A c \in Clients : WF_vars(AwaitLoadFile(c) \/ CacheOp(c) \/ StartFlush(c))
    /\ \A t \in Flushers : WF_vars(RunFlush(t))

FairSpec == Spec /\ Fairness

-----------------------------------------------------------------------------
(***************************************************************************)
(* Properties.                                                              *)
(***************************************************************************)

\* What Get and GetAll would answer: isCleared_ hides the whole cache.
Effective == IF isCleared THEN EmptyMap ELSE valuesCache

\* Flushes that have pushed their token and not popped it yet.
FlushOwners ==
    {t \in Flushers : pc[t] \in {"flushCheck", "flushPreLoad", "flushLock"}}

\* Threads inside WriteToDiskFile or NotifyPreferencesObserver.
Writers ==
    {t \in Flushers : pc[t] \in {"snapshot", "take", "write", "notify"}}

\* Every variable has its type.
TypesOK ==
    /\ loaded \in BOOLEAN
    /\ isNeverUnlock \in BOOLEAN
    /\ loadResult \in BOOLEAN
    /\ isCleared \in BOOLEAN
    /\ valuesCache \in Maps
    /\ modifiedKeys \in SUBSET Keys
    /\ queue \in {0, 1}
    /\ mutex \in Threads \cup {NoThread}
    /\ cacheMutex \in Threads \cup {NoThread}
    /\ keysModified \in SUBSET Keys
    /\ writeToDiskMap \in Maps
    /\ pc \in [Threads -> PCs]
    /\ call \in [Clients -> Calls]
    /\ sawCleared \in BOOLEAN
    /\ result \in [Clients -> {"none", "ok", "error"}]
    /\ scheduled \in Nat
    /\ fileExists \in BOOLEAN
    /\ file \in Maps
    /\ storage \in {"open", "nokey", "hidden"}
    /\ observed \in Maps
    /\ writeFailed \in BOOLEAN
    /\ budget \in [{"calls", "storage", "timeouts", "faults"} -> Nat]

\* mutex_ is owned by exactly the thread inside WriteToDiskFile or
\* NotifyPreferencesObserver, and cacheMutex_ by the one between its read of isCleared_
\* and its change of the cache.
LocksHeld ==
    \A t \in Threads :
        /\ mutex = t <=> pc[t] \in {"snapshot", "take", "write", "notify"}
        /\ cacheMutex = t <=> pc[t] \in {"apply", "take"}

\* Every variable has its type (queue_ never holds more than its one token), and a mutex is
\* owned by exactly the thread that is where the code holds it across steps
\* (preferences_impl.cpp:268-308, 323-338, 371-375).
TypeOK == TypesOK /\ LocksHeld

\* The token protocol of Flush and FlushSync: however clients interleave, at
\* most one flush is between its push and its pop or scheduled to be, and its
\* token is still in queue_ when it comes to pop it.
OneFlushUnderWay ==
    /\ scheduled <= 1
    /\ \A t, u \in FlushOwners : t = u
    /\ scheduled = 1 => FlushOwners = {}
    /\ scheduled = 1 \/ FlushOwners # {} => queue = 1

\* While the storage stays open the converse holds too: a token in queue_, on
\* the strength of which Flush and FlushSync return without doing anything, has
\* a flush that will serve it.
TokenIsServed ==
    queue = 1 => scheduled = 1 \/ FlushOwners # {}

\* No change is forgotten: once the file has been read or written, and as long
\* as no write has failed, a key whose cached value is not the one in the file
\* is marked in modifiedKeys_, or in the keysModified of the write under way.
DirtyTracked ==
    (loadResult /\ ~writeFailed) =>
        \A k \in Keys : valuesCache[k] # file[k] =>
                            k \in modifiedKeys \cup keysModified

\* An observer of all keys that applies every OnChange it gets knows the file
\* exactly whenever no flush is inside WriteToDiskFile.
ObserverInSync ==
    (Writers = {} /\ ~writeFailed) => observed = file

\* WriteToDiskFile never replaces a file whose contents it has not read, so a
\* key that only the file holds survives a flush.
NoBlindWrite ==
    \A t \in Flushers : At(t, "write") => loadResult \/ ~fileExists

\* FlushSync answers E_OK only if what its caller sees is in the file (stated
\* for a single client, as others may write after the answer, and for a file
\* that could be read, as before that the caller does not see it).
FlushSyncSaves ==
    \A c \in Clients :
        (Clients = {c} /\ loadResult /\ At(c, "idle") /\ result[c] = "ok")
            => file = Effective

\* Every API call returns: no thread waits for ever for mutex_, cacheMutex_ or
\* cond_.
CallsReturn ==
    \A c \in Clients : pc[c] # "idle" ~> pc[c] = "idle"

\* A key that is modified when Flush or FlushSync is called is eventually taken
\* to be written, unless the storage is taken away.  The instance stays alive: the task of
\* Flush writes nothing for an instance that has been released (preferences_impl.cpp:363-366).
FlushTakesModified ==
    \A c \in Clients, k \in Keys :
        (At(c, "push") /\ k \in modifiedKeys /\ storage = "open")
            ~> (k \notin modifiedKeys \/ storage # "open")

-----------------------------------------------------------------------------
(***************************************************************************)
(* The mapping under which PreferencesImpl implements PreferencesStore.     *)
(***************************************************************************)

\* Saving begins when WriteToDiskFile reads isCleared_, not when it copies the
\* cache: a Clear between the two is not part of the snapshot.
SavingNow == \E t \in Flushers : pc[t] \in {"take", "write"}

SnapshotNow ==
    IF \E t \in Flushers : At(t, "take")
      THEN IF sawCleared THEN EmptyMap ELSE valuesCache
      ELSE IF SavingNow THEN writeToDiskMap ELSE EmptyMap

Store == INSTANCE PreferencesStore
           WITH store <- Effective, saving <- SavingNow,
                snapshot <- SnapshotNow, saved <- file

\* PreferencesImpl implements PreferencesStore while the load task is on time
\* and the storage stays open: clients see their own changes only, each of
\* them at one moment, and the file only ever becomes a snapshot of what
\* clients saw.
ImplementsStore == Store!Spec
=============================================================================
