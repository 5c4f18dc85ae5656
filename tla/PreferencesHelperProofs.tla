----------------------- MODULE PreferencesHelperProofs -----------------------
(***************************************************************************)
(* Proofs about PreferencesHelper, for any number of threads, instances,    *)
(* calls and failures: the cache of instances and the files of its path     *)
(* agree, and deleted data come back only through an instance that had left  *)
(* the cache.                                                               *)
(***************************************************************************)
EXTENDS PreferencesHelper, TLAPS

\* A thread that makes an instance has prefsCacheMutex_ and finds no entry.
Entering ==
    \A t \in Threads : pc[t] \in {"inner", "init"} =>
        prefsCacheMutex = t /\ prefsCache = 0 /\ made < MaxInstances

\* A thread that closes a handle was given an instance.
Closing == \A t \in Threads : pc[t] = "ndkFlush" => held[t] # 0

\* The conjuncts of TypeOK about the places of threads.
ThreadsTyped ==
    /\ pc \in [Threads -> Labels]
    /\ prefsCacheMutex \in {u \in Threads : pc[u] \in {"inner", "init"}} \cup {NoThread}
    /\ fileLock \in {u \in Threads : pc[u] \in Deleting} \cup {NoThread}

TypeInv == TypeOK /\ Entering /\ Closing

-----------------------------------------------------------------------------
(***************************************************************************)
(* Type correctness.  made stays within its bound because the thread that   *)
(* makes an instance is alone.                                              *)
(***************************************************************************)

\* The initial values have their types.
LEMMA InitType == Init => TypeInv
  <1> SUFFICES ASSUME Init PROVE TypeInv
    OBVIOUS
  <1>1. \A t \in Threads : pc[t] = "idle" /\ held[t] = 0
    BY DEF Init
  <1>2. Entering /\ Closing
    BY <1>1 DEF Entering, Closing
  <1>3. /\ doc \in [Instances -> Ages] /\ kind \in [Instances -> Types]
        /\ type \in [Threads -> Types] /\ held \in [Threads -> 0 .. made]
        /\ xml \in Ages /\ db \in Ages
    BY NoFileAssumption DEF Init, Ages, Types
  <1>4. /\ prefsCache \in 0 .. made /\ made \in 0 .. MaxInstances /\ deletions \in Nat
        /\ calls \in 0 .. MaxCalls /\ faults \in 0 .. MaxFaults
    BY BoundsAssumption DEF Init
  <1>5. pc \in [Threads -> Labels]
    BY DEF Init, Labels
  <1> QED
    BY <1>2, <1>3, <1>4, <1>5 DEF Init, TypeInv, TypeOK

\* Every action leaves every variable in its type.
LEMMA StepType == TypeInv /\ [Next]_vars => TypeInv'
  <1> SUFFICES ASSUME TypeInv, [Next]_vars PROVE TypeInv'
    OBVIOUS
  <1> USE ThreadsAssumption, BoundsAssumption, NoFileAssumption
  <1> USE DEF TypeInv, TypeOK, Entering, Closing, Ages, Instances, Types, Deleting, Labels,
              ThreadsTyped, fileVars, cacheVars, instanceVars, threadVars, configVars, boundVars,
              Goto, Call, MayFail, NoFault
  <1>1. ASSUME NEW t \in Threads, GetPreferences(t) PROVE TypeInv'
    <2>1. PICK y \in Types : type' = [type EXCEPT ![t] = y]
      BY <1>1 DEF GetPreferences
    <2>2. held' \in [Threads -> 0 .. made'] /\ calls' \in 0 .. MaxCalls
      BY <1>1 DEF GetPreferences
    <2>4. ThreadsTyped'
      BY <1>1 DEF GetPreferences
    <2>3. Entering' /\ Closing'
      BY <1>1 DEF GetPreferences
    <2> QED
      BY <1>1, <2>1, <2>2, <2>3, <2>4 DEF GetPreferences
  <1>2. ASSUME NEW t \in Threads, GetPreferencesInner(t) PROVE TypeInv'
    <2>1. \A y \in Chosen(t) : y \in Types
      BY DEF Chosen
    <2>2. type' \in [Threads -> Types]
      <3>1. CASE UNCHANGED type
        BY <3>1
      <3>2. CASE \E y \in Chosen(t) : type' = [type EXCEPT ![t] = y]
        BY <2>1, <3>2
      <3> QED
        BY <1>2, <3>1, <3>2 DEF GetPreferencesInner
    <2>3. ThreadsTyped'
      <3>1. pc[t] = "inner" /\ prefsCacheMutex = t /\ fileLock' = fileLock
        BY <1>2 DEF GetPreferencesInner
      <3>2. CASE pc' = [pc EXCEPT ![t] = "init"] /\ UNCHANGED prefsCacheMutex
        BY <3>1, <3>2
      <3>3. CASE pc' = [pc EXCEPT ![t] = "idle"] /\ prefsCacheMutex' = NoThread
        BY <3>1, <3>3
      <3> QED
        BY <1>2, <3>2, <3>3 DEF GetPreferencesInner
    <2>4. Entering' /\ Closing'
      BY <1>2 DEF GetPreferencesInner
    <2> QED
      BY <1>2, <2>2, <2>3, <2>4 DEF GetPreferencesInner
  <1>3. ASSUME NEW t \in Threads, InitInstance(t) PROVE TypeInv'
    <2>1. /\ made' = made + 1 /\ made < MaxInstances /\ prefsCacheMutex = t
          /\ made + 1 \in Instances
      BY <1>3 DEF InitInstance
    <2>2. /\ made' \in 0 .. MaxInstances /\ prefsCache' \in 0 .. made'
          /\ active' \cup loaded' \cup modified' \cup pending' \cup detached' \cup during' \subseteq 1 .. made'
      BY <1>3, <2>1 DEF InitInstance
    <2>3. kind' \in [Instances -> Types] /\ held' \in [Threads -> 0 .. made']
      BY <1>3, <2>1 DEF InitInstance
    <2>4. db' \in Ages /\ strayWrite' \in BOOLEAN
      BY <1>3 DEF InitInstance, DeletionUnderWay
    <2>5. /\ pc' \in [Threads -> Labels]
          /\ fileLock' \in {u \in Threads : pc'[u] \in Deleting} \cup {NoThread}
      BY <1>3 DEF InitInstance
    <2>6. \A u \in Threads : pc'[u] \notin {"inner", "init"}
      BY <1>3, <2>1 DEF InitInstance
    <2> QED
      BY <1>3, <2>1, <2>2, <2>3, <2>4, <2>5, <2>6 DEF InitInstance
  <1>4. ASSUME NEW t \in Threads, InitFails(t) PROVE TypeInv'
    BY <1>4 DEF InitFails
  <1>5. ASSUME NEW t \in Threads, Put(t) \/ Flush(t) PROVE TypeInv'
    <2>1. /\ doc' \in [Instances -> Ages] /\ modified' \subseteq 1 .. made
          /\ pending' \subseteq 1 .. made /\ calls' \in 0 .. MaxCalls
      <3>1. held[t] \in Instances /\ held[t] \in 1 .. made
        BY <1>5 DEF Put, Flush
      <3>2. UNCHANGED doc \/ \E age \in Ages : doc' = [doc EXCEPT ![held[t]] = age]
        BY <1>5, <3>1 DEF Put, Flush
      <3>3. doc' \in [Instances -> Ages]
        BY <3>1, <3>2
      <3>4. modified' \subseteq modified \cup {held[t]} /\ pending' \subseteq pending \cup {held[t]}
        BY <1>5 DEF Put, Flush
      <3> QED
        BY <1>5, <3>1, <3>3, <3>4 DEF Put, Flush
    <2>3. pc' = pc /\ UNCHANGED <<prefsCacheMutex, prefsCache, made, held, fileLock>>
      BY <1>5 DEF Put, Flush
    <2>2. ThreadsTyped' /\ Entering' /\ Closing'
      BY <2>3
    <2> QED
      BY <1>5, <2>1, <2>2 DEF Put, Flush
  <1>6. ASSUME NEW t \in Threads, RemovePreferencesFromCache(t) PROVE TypeInv'
    BY <1>6 DEF RemovePreferencesFromCache, CloseDbFails, CloseAndErase
  <1>7. ASSUME NEW t \in Threads, OH_Preferences_Close(t) PROVE TypeInv'
    BY <1>7 DEF OH_Preferences_Close
  <1>8. ASSUME NEW t \in Threads, NdkFlush(t) PROVE TypeInv'
    <2>1. held[t] \in Instances
      BY <1>8 DEF NdkFlush
    <2>3. xml' \in Ages /\ strayWrite' \in BOOLEAN /\ modified' \subseteq modified
      BY <1>8, <2>1 DEF NdkFlush, WriteToDiskFile
    <2>2. ThreadsTyped'
      BY <1>8 DEF NdkFlush
    <2> QED
      BY <1>8, <2>2, <2>3 DEF NdkFlush
  <1>9. ASSUME NEW t \in Threads, NdkRemove(t) PROVE TypeInv'
    <2>1. /\ prefsCache' \in 0 .. made /\ active' \subseteq active
          /\ faults' \in 0 .. MaxFaults
      BY <1>9 DEF NdkRemove, CloseDbFails, CloseAndErase
    <2>4. held' \in [Threads -> 0 .. made]
      <3>1. UNCHANGED held \/ held' = [held EXCEPT ![t] = 0]
        BY <1>9 DEF NdkRemove
      <3>2. 0 \in 0 .. made
        OBVIOUS
      <3> QED
        BY <3>1, <3>2
    <2>2. ThreadsTyped'
      BY <1>9 DEF NdkRemove
    <2>3. Entering' /\ Closing'
      BY <1>9 DEF NdkRemove
    <2> QED
      BY <1>9, <2>1, <2>2, <2>3, <2>4 DEF NdkRemove
  <1>10. ASSUME NEW t \in Threads, DeletePreferences(t) PROVE TypeInv'
    <2>1. /\ prefsCache' \in 0 .. made /\ active' \subseteq active
          /\ calls' \in 0 .. MaxCalls /\ faults' \in 0 .. MaxFaults
      BY <1>10 DEF DeletePreferences, CloseDbFails, CloseAndErase
    <2>2. /\ pc' \in [Threads -> Labels]
          /\ prefsCacheMutex = NoThread
          /\ fileLock' \in {u \in Threads : pc'[u] \in Deleting} \cup {NoThread}
          /\ Entering' /\ Closing'
      BY <1>10 DEF DeletePreferences
    <2> QED
      BY <1>10, <2>1, <2>2 DEF DeletePreferences
  <1>11. ASSUME NEW t \in Threads, DeleteLock(t) PROVE TypeInv'
    BY <1>11 DEF DeleteLock
  <1>12. ASSUME NEW t \in Threads, RemoveXml(t) PROVE TypeInv'
    BY <1>12 DEF RemoveXml
  <1>13. ASSUME NEW t \in Threads, RemoveDb(t) PROVE TypeInv'
    <2>1. /\ db' \in Ages /\ detached' \subseteq 1 .. made /\ faults' \in 0 .. MaxFaults
      BY <1>13 DEF RemoveDb
    <2>2. /\ ThreadsTyped'
          /\ Entering' /\ Closing'
      BY <1>13 DEF RemoveDb, Unlock
    <2> QED
      BY <1>13, <2>1, <2>2 DEF RemoveDb
  <1>14. ASSUME NEW t \in Threads, DeleteCheck(t) PROVE TypeInv'
    BY <1>14 DEF DeleteCheck, Unlock
  <1>15. ASSUME NEW i \in Instances, Load(i) PROVE TypeInv'
    BY <1>15 DEF Load
  <1>16. ASSUME NEW i \in Instances, FlushTask(i) PROVE TypeInv'
    <2>1. xml' \in Ages /\ strayWrite' \in BOOLEAN /\ modified' \subseteq modified
      BY <1>16 DEF FlushTask, WriteToDiskFile
    <2> QED
      BY <1>16, <2>1 DEF FlushTask
  <1>17. CASE UNCHANGED vars
    BY <1>17 DEF vars
  <1> QED
    BY <1>1, <1>2, <1>3, <1>4, <1>5, <1>6, <1>7, <1>8, <1>9, <1>10, <1>11, <1>12,
       <1>13, <1>14, <1>15, <1>16, <1>17
    DEF Next, Step

\* Every variable keeps its type and each lock is held by a thread that is inside
\* (preferences_helper.cpp:163-225, 228-275), for any number of threads.
THEOREM TypeCorrect == Spec => []TypeOK
  <1>1. TypeInv => TypeOK
    BY DEF TypeInv
  <1> QED
    BY <1>1, InitType, StepType, PTL DEF Spec

-----------------------------------------------------------------------------
(***************************************************************************)
(* The cache                                                               *)
(***************************************************************************)

\* While files are being removed the cache holds at most an instance made meanwhile.
DeletionHides == DeletionUnderWay /\ prefsCache # 0 => prefsCache \in during

CacheInv == TypeInv /\ CachedIsActive /\ DeletionHides /\ CachedHasFile

\* The cache starts empty.
LEMMA InitCache == Init => CacheInv
  BY InitType DEF Init, CacheInv, CachedIsActive, DeletionHides, CachedHasFile

\* Only the first step of DeletePreferences starts a deletion.
LEMMA DeletionStarts ==
  ASSUME TypeInv, [Next]_vars, ~ DeletionUnderWay, DeletionUnderWay'
  PROVE  \E t \in Threads : DeletePreferences(t) /\ prefsCache' = 0
  <1> USE DEF TypeInv, TypeOK, DeletionUnderWay, Deleting, Goto, Call, threadVars, vars
  <1>1. PICK u \in Threads : pc[u] \notin Deleting /\ pc'[u] \in Deleting
    OBVIOUS
  <1>2. ASSUME NEW t \in Threads, Step(t)
        PROVE  DeletePreferences(t) /\ prefsCache' = 0
    <2>1. CASE DeletePreferences(t)
      BY <1>1, <2>1 DEF DeletePreferences, CloseAndErase
    <2>2. CASE GetPreferences(t) \/ GetPreferencesInner(t) \/ InitInstance(t) \/ InitFails(t)
      BY <1>1, <2>2 DEF GetPreferences, GetPreferencesInner, InitInstance, InitFails
    <2>3. CASE Put(t) \/ Flush(t) \/ RemovePreferencesFromCache(t) \/ OH_Preferences_Close(t)
                 \/ NdkFlush(t) \/ NdkRemove(t)
      BY <1>1, <2>3 DEF Put, Flush, RemovePreferencesFromCache, OH_Preferences_Close, NdkFlush,
                        NdkRemove
    <2>4. CASE DeleteLock(t) \/ RemoveXml(t) \/ RemoveDb(t) \/ DeleteCheck(t)
      BY <1>1, <2>4 DEF DeleteLock, RemoveXml, RemoveDb, DeleteCheck
    <2> QED
      BY <1>2, <2>1, <2>2, <2>3, <2>4 DEF Step
  <1>3. ASSUME NEW i \in Instances, Load(i) \/ FlushTask(i) PROVE FALSE
    BY <1>1, <1>3 DEF Load, FlushTask
  <1>4. CASE UNCHANGED vars
    BY <1>1, <1>4
  <1> QED
    BY <1>2, <1>3, <1>4 DEF Next

\* Every step keeps the cache consistent.
LEMMA StepCache == CacheInv /\ [Next]_vars => CacheInv'
  <1> SUFFICES ASSUME CacheInv, [Next]_vars PROVE CacheInv'
    OBVIOUS
  <1>1. TypeInv /\ TypeInv'
    BY StepType DEF CacheInv
  <1> USE DEF CacheInv, CachedIsActive, DeletionHides, CachedHasFile, fileVars, cacheVars,
              instanceVars, threadVars
  <1>2. ASSUME NEW t \in Threads, InitInstance(t) PROVE CacheInv'
    <2>1. /\ prefsCache = 0 /\ prefsCache' = made + 1 /\ active' = active \cup {made + 1}
          /\ made \in Nat /\ detached' = detached /\ detached \subseteq 1 .. made
      BY <1>1, <1>2 DEF InitInstance, TypeInv, TypeOK, Entering
    <2>2. CachedIsActive' /\ CachedHasFile'
      BY <2>1
    <2>3. DeletionUnderWay' => made + 1 \in during'
      BY <1>1, <1>2 DEF InitInstance, DeletionUnderWay, Goto, TypeInv, TypeOK, Deleting
    <2> QED
      BY <1>1, <2>1, <2>2, <2>3
  <1>3. ASSUME NEW t \in Threads, RemoveDb(t) PROVE CacheInv'
    <2>1. DeletionUnderWay
      BY <1>3 DEF RemoveDb, DeletionUnderWay, Deleting
    <2>2. UNCHANGED <<prefsCache, active, during>> /\ detached' \subseteq detached \cup active
      BY <1>3 DEF RemoveDb
    <2> QED
      BY <1>1, <2>1, <2>2
  <1>4. ASSUME prefsCache' = 0, active' = active \ {prefsCache}, TypeInv, UNCHANGED detached
        PROVE  CacheInv'
    <2>1. 0 \notin detached
      BY <1>4 DEF TypeInv, TypeOK
    <2> QED
      BY <1>1, <1>4, <2>1
  <1>5. ASSUME UNCHANGED <<prefsCache, active, detached, during>> PROVE CacheInv'
    <2>1. DeletionUnderWay' /\ prefsCache' # 0 => DeletionUnderWay
      BY <1>1, DeletionStarts
    <2> QED
      BY <1>1, <1>5, <2>1
  <1>6. ASSUME NEW t \in Threads, Step(t) PROVE CacheInv'
    <2>1. CASE GetPreferences(t) \/ GetPreferencesInner(t) \/ InitFails(t) \/ Put(t)
                 \/ Flush(t) \/ OH_Preferences_Close(t) \/ NdkFlush(t) \/ DeleteLock(t)
                 \/ RemoveXml(t) \/ DeleteCheck(t)
      BY <1>5, <2>1 DEF GetPreferences, GetPreferencesInner, InitFails, Put, Flush,
           OH_Preferences_Close, NdkFlush, DeleteLock, RemoveXml, DeleteCheck
    <2>2. CASE RemovePreferencesFromCache(t) \/ NdkRemove(t) \/ DeletePreferences(t)
      BY <1>1, <1>4, <1>5, <2>2
      DEF RemovePreferencesFromCache, NdkRemove, DeletePreferences, CloseAndErase
    <2> QED
      BY <1>2, <1>3, <1>6, <2>1, <2>2 DEF Step
  <1>7. ASSUME NEW i \in Instances, Load(i) \/ FlushTask(i) PROVE CacheInv'
    BY <1>5, <1>7 DEF Load, FlushTask
  <1>8. CASE UNCHANGED vars
    BY <1>5, <1>8 DEF vars
  <1> QED
    BY <1>6, <1>7, <1>8 DEF Next

\* GetPreferences never hands out a closed instance, nor a second one beside a database
\* that could not be closed (preferences_helper.cpp:172-200, 220, 295-306).
THEOREM CachedIsActiveHolds == Spec => []CachedIsActive
  <1>1. CacheInv => CachedIsActive
    BY DEF CacheInv
  <1> QED
    BY <1>1, InitCache, StepCache, PTL DEF Spec

\* DeletePreferences never takes away the file of a database in use, unless it was opened
\* during the deletion (preferences_helper.cpp:237-246, 267).
THEOREM CachedHasFileHolds == Spec => []CachedHasFile
  <1>1. CacheInv => CachedHasFile
    BY DEF CacheInv
  <1> QED
    BY <1>1, InitCache, StepCache, PTL DEF Spec

-----------------------------------------------------------------------------
(***************************************************************************)
(* One storage type                                                        *)
(***************************************************************************)

\* Only where GSKV is supported is there a database.
DbSupported == db # NoFile => supported

\* Only an XML instance has a flush task.
FlushedAreXml == \A i \in pending : kind[i] = "xml"

\* What GetPreferencesInner has found still holds when the instance is made.
ChoiceStands ==
    \A t \in Threads : pc[t] = "init" =>
        IF type[t] = "gskv" THEN supported /\ (xml = NoFile \/ strayWrite)
        ELSE db = NoFile \/ strayWrite

\* Beside the cached XML instance there is no database.
CachedXmlAlone ==
    prefsCache # 0 /\ kind[prefsCache] = "xml" /\ ~ strayWrite => db = NoFile

StorageInv ==
    CacheInv /\ DbSupported /\ FlushedAreXml /\ ChoiceStands /\ CachedXmlAlone /\ OneStorageType

\* At first there is one file at most.
LEMMA InitStorage == Init => StorageInv
  <1> SUFFICES ASSUME Init PROVE StorageInv
    OBVIOUS
  <1>1. CacheInv
    BY InitCache
  <1>2. \A t \in Threads : pc[t] = "idle"
    BY DEF Init
  <1> QED
    BY <1>1, <1>2 DEF Init, StorageInv, DbSupported, FlushedAreXml, ChoiceStands,
                      CachedXmlAlone, OneStorageType

\* A write of the file comes from the cached instance, which is an XML one, or is stray.
LEMMA SaveStorage ==
  ASSUME StorageInv, NEW i \in Instances, kind[i] = "xml", WriteToDiskFile(i), CacheInv',
         UNCHANGED <<db, prefsCache, kind, supported, type>>, pending' \subseteq pending,
         \A t \in Threads : pc'[t] = "init" => pc[t] = "init"
  PROVE  StorageInv'
  <1> USE DEF StorageInv, WriteToDiskFile
  <1>1. i # 0
    BY BoundsAssumption DEF Instances
  <1>2. strayWrite => strayWrite'
    OBVIOUS
  <1>3. ASSUME NEW t \in Threads, pc[t] = "init", xml' # xml PROVE strayWrite'
    <2>1. prefsCache = 0
      BY <1>3 DEF CacheInv, TypeInv, Entering
    <2> QED
      BY <1>1, <1>3, <2>1
  <1>4. ChoiceStands'
    BY <1>2, <1>3 DEF ChoiceStands
  <1>5. DbSupported' /\ FlushedAreXml' /\ CachedXmlAlone'
    BY <1>2 DEF DbSupported, FlushedAreXml, CachedXmlAlone
  <1>6. OneStorageType'
    BY <1>1, <1>2 DEF OneStorageType, CachedXmlAlone
  <1> QED
    BY <1>4, <1>5, <1>6

\* Every step keeps the two storage types apart.
LEMMA StepStorage == StorageInv /\ [Next]_vars => StorageInv'
  <1> SUFFICES ASSUME StorageInv, [Next]_vars PROVE StorageInv'
    OBVIOUS
  <1>1. CacheInv /\ CacheInv'
    BY StepCache DEF StorageInv
  <1>2. TypeInv /\ TypeInv'
    BY <1>1 DEF CacheInv
  <1> USE DEF StorageInv, DbSupported, FlushedAreXml, CachedXmlAlone, OneStorageType,
              fileVars, cacheVars, instanceVars, threadVars, configVars
  <1>3. ASSUME NEW t \in Threads, GetPreferencesInner(t) PROVE StorageInv'
    <2>1. ASSUME NEW y \in Chosen(t), type' = [type EXCEPT ![t] = y]
          PROVE  IF y = "gskv" THEN supported /\ xml = NoFile ELSE db = NoFile \/ strayWrite
      BY <2>1 DEF Chosen
    <2>2. ChoiceStands'
      BY <1>2, <1>3, <2>1 DEF GetPreferencesInner, ChoiceStands, Goto, TypeInv, TypeOK
    <2> QED
      BY <1>1, <1>3, <2>2 DEF GetPreferencesInner
  <1>4. ASSUME NEW t \in Threads, InitInstance(t) PROVE StorageInv'
    <2>1. /\ pc[t] = "init" /\ prefsCache' = made + 1 /\ made + 1 \in Instances
          /\ prefsCacheMutex = t /\ pending' = pending /\ pending \subseteq 1 .. made
          /\ made \in Nat
      BY <1>2, <1>4 DEF InitInstance, TypeInv, TypeOK, Entering, Instances
    <2>2. ChoiceStands'
      <3>1. \A u \in Threads : pc'[u] # "init"
        BY <1>2, <1>4, <2>1 DEF InitInstance, Goto, TypeInv, TypeOK, Entering
      <3> QED
        BY <3>1 DEF ChoiceStands
    <2>3. FlushedAreXml'
      BY <1>2, <1>4, <2>1 DEF InitInstance, TypeInv, TypeOK
    <2>4. DbSupported' /\ OneStorageType'
      BY <1>4, <2>1 DEF InitInstance, ChoiceStands
    <2>5. CachedXmlAlone'
      BY <1>2, <1>4, <2>1 DEF InitInstance, ChoiceStands, TypeInv, TypeOK
    <2> QED
      BY <1>1, <2>2, <2>3, <2>4, <2>5
  <1>5. ASSUME NEW t \in Threads, NdkFlush(t) PROVE StorageInv'
    <2>1. held[t] \in Instances
      BY <1>2, <1>5, BoundsAssumption DEF NdkFlush, TypeInv, TypeOK, Closing, Instances
    <2>2. \A u \in Threads : pc'[u] = "init" => pc[u] = "init"
      BY <1>2, <1>5 DEF NdkFlush, Goto, TypeInv, TypeOK
    <2>3. CASE kind[held[t]] = "xml" /\ WriteToDiskFile(held[t])
      BY <1>1, <1>5, <2>1, <2>2, <2>3, SaveStorage DEF NdkFlush
    <2>4. CASE UNCHANGED <<xml, strayWrite>>
      BY <1>1, <1>5, <2>2, <2>4 DEF NdkFlush, ChoiceStands
    <2> QED
      BY <1>5, <2>3, <2>4 DEF NdkFlush
  <1>6. ASSUME NEW i \in Instances, FlushTask(i) PROVE StorageInv'
    BY <1>1, <1>6, SaveStorage DEF FlushTask
  <1>7. ASSUME NEW t \in Threads, Put(t) \/ Flush(t) PROVE StorageInv'
    BY <1>1, <1>2, <1>7 DEF Put, Flush, Call, Goto, ChoiceStands, TypeInv, TypeOK
  <1>8. ASSUME UNCHANGED <<kind, pending, supported, strayWrite>>,
               xml' \in {xml, NoFile}, db' \in {db, NoFile}, prefsCache' \in {prefsCache, 0},
               \A t \in Threads : pc'[t] = "init" => pc[t] = "init" /\ type'[t] = type[t]
        PROVE  StorageInv'
    <2>1. ChoiceStands'
      BY <1>8 DEF ChoiceStands
    <2> QED
      BY <1>1, <1>8, <2>1
  <1>9. ASSUME NEW t \in Threads, NEW label \in Labels \ {"init"}, Goto(t, label),
               \A u \in Threads \ {t} : type'[u] = type[u]
        PROVE  \A u \in Threads : pc'[u] = "init" => pc[u] = "init" /\ type'[u] = type[u]
    BY <1>2, <1>9 DEF Goto, TypeInv, TypeOK
  <1>10. ASSUME NEW t \in Threads, Step(t) PROVE StorageInv'
    <2>1. CASE GetPreferences(t)
      BY <1>2, <1>8, <1>9, <2>1 DEF GetPreferences, Call, Labels, TypeInv, TypeOK
    <2>2. CASE InitFails(t) \/ OH_Preferences_Close(t) \/ DeleteLock(t)
      BY <1>8, <1>9, <2>2 DEF InitFails, OH_Preferences_Close, DeleteLock, Call, Labels, Deleting
    <2>4. CASE RemoveXml(t) \/ RemoveDb(t) \/ DeleteCheck(t)
      <3>1. UNCHANGED <<kind, pending, supported, strayWrite, prefsCache, type>>
        BY <2>4 DEF RemoveXml, RemoveDb, DeleteCheck
      <3>2. xml' \in {xml, NoFile} /\ db' \in {db, NoFile}
        BY <2>4 DEF RemoveXml, RemoveDb, DeleteCheck
      <3>3. \E label \in Labels \ {"init"} : Goto(t, label)
        BY <2>4 DEF RemoveXml, RemoveDb, DeleteCheck, Labels, Deleting
      <3> QED
        BY <1>8, <1>9, <3>1, <3>2, <3>3
    <2>3. CASE RemovePreferencesFromCache(t) \/ NdkRemove(t) \/ DeletePreferences(t)
      BY <1>8, <1>9, <2>3 DEF RemovePreferencesFromCache, NdkRemove, DeletePreferences,
           CloseAndErase, Call, Labels, Deleting
    <2> QED
      BY <1>3, <1>4, <1>5, <1>7, <1>10, <2>1, <2>2, <2>3, <2>4 DEF Step
  <1>11. ASSUME NEW i \in Instances, Load(i) PROVE StorageInv'
    BY <1>8, <1>11 DEF Load
  <1>12. CASE UNCHANGED vars
    BY <1>8, <1>12 DEF vars
  <1> QED
    BY <1>6, <1>10, <1>11, <1>12 DEF Next

\* A path never holds an XML file beside a database unless an instance that has left the
\* cache, or was made during a deletion, has written (preferences_helper.cpp:142, 151).
THEOREM OneStorageTypeHolds == Spec => []OneStorageType
  <1>1. StorageInv => OneStorageType
    BY DEF StorageInv
  <1> QED
    BY <1>1, InitStorage, StepStorage, PTL DEF Spec

-----------------------------------------------------------------------------
(***************************************************************************)
(* Deleted data                                                            *)
(***************************************************************************)

\* When DeletePreferences looks at what is left, the database is gone.
DbGone == (\E t \in Threads : pc[t] = "check") /\ ~ strayWrite => db = NoFile

\* An instance that is not made yet holds nothing.
UnmadeHoldNothing == \A i \in Instances : i > made => doc[i] = NoFile

\* The cached instance holds nothing that was deleted.
CachedIsFresh ==
    prefsCache # 0 /\ prefsCache \notin during /\ ~ strayWrite =>
        (doc[prefsCache] # NoFile => doc[prefsCache] >= deletions)

AgeInv ==
    CacheInv /\ DbGone /\ UnmadeHoldNothing /\ CachedIsFresh /\ DeletedStaysDeleted

\* At first nothing has been deleted.
LEMMA InitAge == Init => AgeInv
  <1> SUFFICES ASSUME Init PROVE AgeInv
    OBVIOUS
  <1>1. CacheInv
    BY InitCache
  <1>2. \A t \in Threads : pc[t] = "idle"
    BY DEF Init
  <1> QED
    BY <1>1, <1>2 DEF Init, AgeInv, DbGone, UnmadeHoldNothing, CachedIsFresh,
                      DeletedStaysDeleted

\* A write of the file comes from the cached instance, which holds nothing deleted, or is
\* stray.
LEMMA SaveAge ==
  ASSUME AgeInv, NEW i \in Instances, WriteToDiskFile(i), CacheInv',
         UNCHANGED <<db, deletions, prefsCache, doc, during, made>>,
         \A t \in Threads : pc'[t] = "check" => pc[t] = "check"
  PROVE  AgeInv'
  <1> USE DEF AgeInv
  <1>1. strayWrite => strayWrite'
    BY DEF WriteToDiskFile
  <1>2. DbGone' /\ UnmadeHoldNothing' /\ CachedIsFresh'
    BY <1>1 DEF DbGone, UnmadeHoldNothing, CachedIsFresh
  <1>3. deletions \in Nat /\ i # 0
    BY BoundsAssumption DEF CacheInv, TypeInv, TypeOK, Instances
  <1>4. DeletedStaysDeleted'
    <2> SUFFICES ASSUME ~ strayWrite', NEW age \in {xml', db} \ {NoFile} PROVE age >= deletions
      BY DEF DeletedStaysDeleted
    <2>1. CASE UNCHANGED xml
      BY <1>1, <2>1 DEF DeletedStaysDeleted
    <2>2. CASE i \in modified
      <3>1. i = prefsCache /\ i \notin during /\ ~ strayWrite
        BY <2>2 DEF WriteToDiskFile
      <3>2. xml' = (IF doc[i] = NoFile THEN deletions ELSE doc[i])
        BY <2>2 DEF WriteToDiskFile
      <3>3. xml' >= deletions
        BY <1>3, <3>1, <3>2 DEF CachedIsFresh
      <3> QED
        BY <3>1, <3>3 DEF DeletedStaysDeleted
    <2> QED
      BY <2>1, <2>2 DEF WriteToDiskFile
  <1> QED
    BY <1>2, <1>4

\* Every step keeps what was deleted away.
LEMMA StepAge == AgeInv /\ [Next]_vars => AgeInv'
  <1> SUFFICES ASSUME AgeInv, [Next]_vars PROVE AgeInv'
    OBVIOUS
  <1>1. CacheInv /\ CacheInv'
    BY StepCache DEF AgeInv
  <1>2. TypeInv /\ TypeInv'
    BY <1>1 DEF CacheInv
  <1> USE DEF AgeInv, DbGone, UnmadeHoldNothing, CachedIsFresh, DeletedStaysDeleted,
              fileVars, cacheVars, instanceVars, threadVars
  <1>3. ASSUME NEW t \in Threads, InitInstance(t) PROVE AgeInv'
    <2>1. /\ prefsCache' = made + 1 /\ made' = made + 1 /\ made \in Nat
          /\ made + 1 \in Instances /\ UNCHANGED <<xml, deletions, doc>>
          /\ (strayWrite => strayWrite')
      BY <1>2, <1>3 DEF InitInstance, TypeInv, TypeOK, Entering, Instances
    <2>4. UnmadeHoldNothing' /\ CachedIsFresh'
      BY <2>1 DEF Instances
    <2>2. DbGone'
      BY <1>2, <1>3 DEF InitInstance, Goto, DeletionUnderWay, Deleting, TypeInv, TypeOK
    <2>3. DeletedStaysDeleted'
      BY <1>2, <1>3, <2>1 DEF InitInstance, TypeInv, TypeOK
    <2> QED
      BY <1>1, <2>2, <2>3, <2>4
  <1>4. ASSUME NEW i \in Instances, i <= made, doc' \in [Instances -> Ages],
               \A j \in Instances \ {i} : doc'[j] = doc[j],
               doc'[i] \in {doc[i], xml, deletions},
               UNCHANGED <<xml, db, deletions, prefsCache, made, during, strayWrite>>,
               \A t \in Threads : pc'[t] = "check" => pc[t] = "check"
        PROVE  AgeInv'
    <2>1. deletions \in Nat /\ made \in Nat /\ prefsCache \in 0 .. made /\ xml \in Ages
      BY <1>2 DEF TypeInv, TypeOK
    <2>2. UnmadeHoldNothing'
      BY <1>4, <2>1 DEF Instances
    <2>3. CachedIsFresh'
      <3> SUFFICES ASSUME prefsCache # 0, prefsCache \notin during, ~ strayWrite,
                          doc'[prefsCache] # NoFile
                   PROVE  doc'[prefsCache] >= deletions
        BY <1>4
      <3>1. CASE prefsCache # i
        <4>1. prefsCache \in Instances
          BY <1>2, <2>1, BoundsAssumption DEF TypeInv, TypeOK, Instances
        <4> QED
          BY <1>4, <3>1, <4>1
      <3>2. CASE prefsCache = i
        BY <1>4, <2>1, <3>2
      <3> QED
        BY <3>1, <3>2
    <2> QED
      BY <1>1, <1>4, <2>2, <2>3
  <1>5. ASSUME NEW t \in Threads, NdkFlush(t) PROVE AgeInv'
    <2>1. \A u \in Threads : pc'[u] = "check" => pc[u] = "check"
      BY <1>2, <1>5 DEF NdkFlush, Goto, TypeInv, TypeOK
    <2>4. held[t] \in Instances
      BY <1>2, <1>5, BoundsAssumption DEF NdkFlush, TypeInv, TypeOK, Closing, Instances
    <2>2. CASE WriteToDiskFile(held[t])
      BY <1>1, <1>5, <2>1, <2>2, <2>4, SaveAge DEF NdkFlush
    <2>3. CASE UNCHANGED <<xml, strayWrite>>
      BY <1>1, <1>5, <2>1, <2>3 DEF NdkFlush
    <2> QED
      BY <1>5, <2>2, <2>3 DEF NdkFlush
  <1>6. ASSUME NEW i \in Instances, FlushTask(i) PROVE AgeInv'
    BY <1>1, <1>6, SaveAge DEF FlushTask
  <1>7. ASSUME NEW t \in Threads, RemoveDb(t) PROVE AgeInv'
    <2>1. UNCHANGED <<xml, deletions, prefsCache, made, doc, during, strayWrite>>
      BY <1>7 DEF RemoveDb
    <2>2. \/ db' = NoFile
          \/ UNCHANGED db /\ \A u \in Threads : pc'[u] = "check" => pc[u] = "check"
      BY <1>2, <1>7 DEF RemoveDb, Goto, TypeInv, TypeOK
    <2> QED
      BY <1>1, <2>1, <2>2
  <1>8. ASSUME NEW t \in Threads, DeleteCheck(t) PROVE AgeInv'
    <2>1. /\ pc[t] = "check" /\ DeletionUnderWay
          /\ UNCHANGED <<xml, db, prefsCache, made, doc, during, strayWrite>>
      BY <1>2, <1>8 DEF DeleteCheck, DeletionUnderWay, Deleting, TypeInv, TypeOK
    <2>2. prefsCache = 0 \/ prefsCache \in during
      BY <1>1, <2>1 DEF CacheInv, DeletionHides
    <2>3. \A u \in Threads : pc'[u] = "check" => pc[u] = "check"
      BY <1>2, <1>8 DEF DeleteCheck, Goto, TypeInv, TypeOK
    <2>4. deletions' = deletions \/ xml = NoFile
      BY <1>8 DEF DeleteCheck
    <2> QED
      BY <1>1, <2>1, <2>2, <2>3, <2>4
  <1>9. ASSUME UNCHANGED <<db, deletions, made, doc, during, strayWrite>>,
               xml' \in {xml, NoFile}, prefsCache' \in {prefsCache, 0},
               \A t \in Threads : pc'[t] = "check" => pc[t] = "check"
        PROVE  AgeInv'
    BY <1>1, <1>9
  <1>10. ASSUME NEW t \in Threads, NEW label \in Labels \ {"check"}, Goto(t, label)
         PROVE  \A u \in Threads : pc'[u] = "check" => pc[u] = "check"
    BY <1>2, <1>10 DEF Goto, TypeInv, TypeOK
  <1>11. ASSUME NEW t \in Threads, Step(t) PROVE AgeInv'
    <2>1. CASE GetPreferences(t) \/ GetPreferencesInner(t) \/ InitFails(t) \/ Flush(t)
                 \/ OH_Preferences_Close(t) \/ DeleteLock(t)
      <3>1. UNCHANGED <<xml, db, deletions, prefsCache, made, doc, during, strayWrite>>
        BY <2>1 DEF GetPreferences, GetPreferencesInner, InitFails, Flush,
                    OH_Preferences_Close, DeleteLock
      <3>2. \E label \in Labels \ {"check"} : Goto(t, label)
        BY <2>1 DEF GetPreferences, GetPreferencesInner, InitFails, Flush,
                    OH_Preferences_Close, DeleteLock, Call, Labels, Deleting
      <3> QED
        BY <1>9, <1>10, <3>1, <3>2
    <2>2. CASE RemovePreferencesFromCache(t) \/ NdkRemove(t) \/ DeletePreferences(t)
      BY <1>9, <1>10, <2>2 DEF RemovePreferencesFromCache, NdkRemove, DeletePreferences,
           CloseAndErase, Call, Labels, Deleting
    <2>3. CASE RemoveXml(t)
      BY <1>9, <1>10, <2>3 DEF RemoveXml, Labels, Deleting
    <2>4. CASE Put(t)
      <3>1. /\ held[t] \in Instances /\ held[t] <= made /\ doc \in [Instances -> Ages]
            /\ doc' \in [Instances -> Ages]
        BY <1>2, <2>4, BoundsAssumption DEF Put, TypeInv, TypeOK, Instances
      <3>2. /\ \A j \in Instances \ {held[t]} : doc'[j] = doc[j]
            /\ doc'[held[t]] \in {doc[held[t]], deletions}
        BY <2>4, <3>1 DEF Put
      <3>3. /\ UNCHANGED <<xml, db, deletions, prefsCache, made, during, strayWrite>>
            /\ Goto(t, "idle")
        BY <2>4 DEF Put, Call
      <3> QED
        BY <1>4, <1>10, <3>1, <3>2, <3>3 DEF Labels
    <2> QED
      BY <1>3, <1>5, <1>7, <1>8, <1>11, <2>1, <2>2, <2>3, <2>4 DEF Step
  <1>12. ASSUME NEW i \in Instances, Load(i) PROVE AgeInv'
    <2>1. /\ doc \in [Instances -> Ages] /\ doc' \in [Instances -> Ages] /\ i <= made
      BY <1>2, <1>12 DEF Load, TypeInv, TypeOK
    <2>2. /\ \A j \in Instances \ {i} : doc'[j] = doc[j]
          /\ doc'[i] \in {doc[i], xml}
          /\ UNCHANGED <<xml, db, deletions, prefsCache, made, during, strayWrite, pc>>
      BY <1>12, <2>1 DEF Load
    <2> QED
      BY <1>4, <2>1, <2>2
  <1>13. CASE UNCHANGED vars
    BY <1>9, <1>13 DEF vars
  <1> QED
    BY <1>6, <1>11, <1>12, <1>13 DEF Next

\* After a successful DeletePreferences the files hold only what was stored later, unless
\* an instance that has left the cache, or was made during the deletion, has written
\* (preferences_helper.cpp:228-275).
THEOREM DeletedStaysDeletedHolds == Spec => []DeletedStaysDeleted
  <1>1. AgeInv => DeletedStaysDeleted
    BY DEF AgeInv
  <1> QED
    BY <1>1, InitAge, StepAge, PTL DEF Spec
=============================================================================
