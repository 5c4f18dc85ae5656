-------------------------- MODULE PreferencesHelper --------------------------
(***************************************************************************)
(* PreferencesHelper (frameworks/native/src/preferences_helper.cpp) for one  *)
(* path of one process: the cache of instances under prefsCacheMutex_, the  *)
(* choice between an XML file and a GSKV database, deletion and removal from *)
(* the cache; and OH_Preferences_Open, _Close and _DeletePreferences of the  *)
(* NDK on top of it.                                                        *)
(*                                                                         *)
(* Threads keep the instances they were given: an instance that has left    *)
(* the cache lives on, and its XML file is written by tasks that were       *)
(* scheduled before.  Contents are abstracted to their age: the number of    *)
(* deletions that had been completed when the oldest of them was stored.    *)
(* Loading and saving are atomic, as PreferencesFileLock makes them inside a *)
(* process (module XmlFile has their steps).  A load that found no file may  *)
(* be made up for by PreLoad once another instance has written one (module  *)
(* PreferencesImpl); that write is stray, and the reload is left out here.   *)
(***************************************************************************)
EXTENDS Naturals, FiniteSets

CONSTANTS
    Threads,
    NoThread,
    NoFile,
    MaxInstances,   \* bound: instances made
    MaxCalls,       \* bound: calls made
    MaxFaults       \* bound: failures of the database, of a removal, of the file lock

ASSUME ThreadsAssumption == NoThread \notin Threads
ASSUME BoundsAssumption == MaxInstances \in Nat /\ MaxCalls \in Nat /\ MaxFaults \in Nat
ASSUME NoFileAssumption == NoFile \notin Nat

VARIABLES
    prefsCache,     \* the cached instance, 0 if there is none
    prefsCacheMutex,
    xml, db,        \* the age of what the file and the database hold, or NoFile
    deletions,      \* successful DeletePreferences so far
    made,           \* how many instances have been made
    kind,           \* "xml" or "gskv" for each instance
    active,         \* instances whose isActive_ or db_ is set
    loaded, doc,    \* loaded_ of an XML instance, and what it holds in memory
    modified,       \* XML instances with modifiedKeys_
    pending,        \* XML instances with a flush task
    detached,       \* GSKV instances whose database file was removed
    pc, held,       \* for each thread: where it is, and the instance it was given
    type,           \* the storage type it asks for, then the one it gets
    fileLock,       \* the thread in DeletePreferences that has the file lock
    trusted, supported, \* IsInTrustList, IsStorageTypeSupported(GSKV)
    during,         \* history: instances made while a deletion was under way
    strayWrite,     \* history: such an instance, or one not in the cache, has written;
                    \*   opening a database is a write of it
    calls, faults

fileVars == <<xml, db, deletions>>
cacheVars == <<prefsCache, prefsCacheMutex>>
instanceVars == <<made, kind, active, loaded, doc, modified, pending, detached, during>>
threadVars == <<pc, held, type, fileLock>>
configVars == <<trusted, supported>>
boundVars == <<calls, faults>>
vars == <<fileVars, cacheVars, instanceVars, threadVars, configVars, strayWrite, boundVars>>

Types == {"xml", "gskv"}
Instances == 1 .. MaxInstances

Deleting == {"lockFile", "removeXml", "removeDb", "check"}
Labels == {"idle", "inner", "init", "ndkFlush", "ndkRemove"} \cup Deleting

Init ==
    /\ prefsCache = 0
    /\ prefsCacheMutex = NoThread
    /\ xml \in {NoFile, 0}
    /\ db \in {NoFile, 0}
    /\ xml = NoFile \/ db = NoFile
    /\ deletions = 0
    /\ made = 0
    /\ kind = [i \in Instances |-> "xml"]
    /\ active = {}
    /\ loaded = {}
    /\ doc = [i \in Instances |-> NoFile]
    /\ modified = {}
    /\ pending = {}
    /\ detached = {}
    /\ pc = [t \in Threads |-> "idle"]
    /\ held = [t \in Threads |-> 0]
    /\ type = [t \in Threads |-> "xml"]
    /\ fileLock = NoThread
    /\ trusted \in BOOLEAN
    /\ supported \in BOOLEAN
    /\ db = 0 => supported
    /\ during = {}
    /\ strayWrite = FALSE
    /\ calls = 0
    /\ faults = 0

Goto(t, label) == pc' = [pc EXCEPT ![t] = label]

Call(t, label) ==
    /\ pc[t] = "idle" /\ calls < MaxCalls
    /\ calls' = calls + 1
    /\ Goto(t, label)

MayFail == faults < MaxFaults /\ faults' = faults + 1

NoFault == UNCHANGED faults

DeletionUnderWay == \E t \in Threads : pc[t] \in Deleting

-----------------------------------------------------------------------------
(***************************************************************************)
(* GetPreferences and OH_Preferences_Open                                  *)
(***************************************************************************)

\* Locks prefsCacheMutex_ and returns what is in the cache, if anything is.
GetPreferences(t) ==
    /\ prefsCacheMutex = NoThread
    /\ \E y \in Types : type' = [type EXCEPT ![t] = y]
    /\ \/ /\ prefsCache # 0
          /\ Call(t, "idle")
          /\ held' = [held EXCEPT ![t] = prefsCache]
          /\ UNCHANGED prefsCacheMutex
       \/ /\ prefsCache = 0 /\ made < MaxInstances
          /\ Call(t, "inner")
          /\ prefsCacheMutex' = t
          /\ UNCHANGED held
    /\ UNCHANGED <<fileVars, prefsCache, instanceVars, fileLock, configVars, strayWrite, faults>>

\* Mutant: GSKV is opened beside an XML file.
ChosenNoXmlCheck(t) ==
    IF trusted THEN {IF xml = NoFile /\ supported THEN "gskv" ELSE "xml"}
    ELSE IF type[t] = "xml" THEN {y \in {"xml"} : db = NoFile}
    ELSE {y \in {"gskv"} : supported}

\* The checks of GetPreferencesInner: the type that is opened, if it may be.
Chosen(t) ==
    IF trusted THEN {IF xml = NoFile /\ supported THEN "gskv" ELSE "xml"}
    ELSE IF type[t] = "xml" THEN {y \in {"xml"} : db = NoFile}
    ELSE {y \in {"gskv"} : xml = NoFile /\ supported}

\* Mutant: the early return leaves prefsCacheMutex_ locked.
GetPreferencesInnerKeepsLock(t) ==
    /\ pc[t] = "inner"
    /\ \/ \E y \in Chosen(t) : type' = [type EXCEPT ![t] = y] /\ Goto(t, "init")
       \/ Chosen(t) = {} /\ Goto(t, "idle") /\ UNCHANGED type
    /\ UNCHANGED <<fileVars, cacheVars, instanceVars, held, fileLock, configVars, strayWrite,
                   boundVars>>

GetPreferencesInner(t) ==
    /\ pc[t] = "inner"
    /\ \/ \E y \in Chosen(t) : type' = [type EXCEPT ![t] = y] /\ Goto(t, "init")
                               /\ UNCHANGED prefsCacheMutex
       \/ /\ Chosen(t) = {}                 \* E_NOT_SUPPORTED
          /\ Goto(t, "idle")
          /\ prefsCacheMutex' = NoThread
          /\ UNCHANGED type
    /\ UNCHANGED <<fileVars, prefsCache, instanceVars, held, fileLock, configVars, strayWrite,
                   boundVars>>

\* Init of the new instance and its entry in the cache.  An XML instance has its load
\* task scheduled; a GSKV instance opens its database, making it if need be.
InitInstance(t) ==
    LET i == made + 1 IN
    /\ pc[t] = "init"
    /\ Goto(t, "idle")
    /\ prefsCacheMutex' = NoThread
    /\ made' = i
    /\ kind' = [kind EXCEPT ![i] = type[t]]
    /\ active' = active \cup {i}
    /\ during' = IF DeletionUnderWay THEN during \cup {i} ELSE during
    /\ prefsCache' = i
    /\ held' = [held EXCEPT ![t] = i]
    /\ IF type[t] = "gskv"
       THEN /\ db' = IF db = NoFile THEN deletions ELSE db
            /\ strayWrite' = (strayWrite \/ DeletionUnderWay)
       ELSE UNCHANGED <<db, strayWrite>>
    /\ UNCHANGED <<xml, deletions, loaded, doc, modified, pending, detached, type, fileLock,
                   configVars, boundVars>>

\* Init of a GSKV instance fails; the instance is dropped.
InitFails(t) ==
    /\ pc[t] = "init" /\ type[t] = "gskv"
    /\ MayFail
    /\ Goto(t, "idle")
    /\ prefsCacheMutex' = NoThread
    /\ UNCHANGED <<fileVars, prefsCache, instanceVars, held, type, fileLock, configVars,
                   strayWrite, calls>>

-----------------------------------------------------------------------------
(***************************************************************************)
(* What the instances do to the files                                      *)
(***************************************************************************)

\* LoadFromDisk: the cache is replaced by what the file holds, if there is one.
Load(i) ==
    /\ i <= made /\ kind[i] = "xml" /\ i \notin loaded
    /\ fileLock = NoThread
    /\ loaded' = loaded \cup {i}
    /\ doc' = [doc EXCEPT ![i] = IF xml = NoFile THEN @ ELSE xml]
    /\ UNCHANGED <<fileVars, cacheVars, made, kind, active, modified, pending, detached, during,
                   threadVars, configVars, strayWrite, boundVars>>

\* Put by a thread that still has the instance, after its load, or before it when
\* the wait of AwaitLoadFile has timed out.
Put(t) ==
    /\ held[t] # 0 /\ kind[held[t]] = "xml"
    /\ Call(t, "idle")
    /\ modified' = modified \cup {held[t]}
    /\ doc' = [doc EXCEPT ![held[t]] = IF @ = NoFile THEN deletions ELSE @]
    /\ UNCHANGED <<fileVars, cacheVars, made, kind, active, loaded, pending, detached, during,
                   held, type, fileLock, configVars, strayWrite, faults>>

\* Flush pushes its token and schedules the task, if none is on its way.
Flush(t) ==
    /\ held[t] # 0 /\ kind[held[t]] = "xml"
    /\ Call(t, "idle")
    /\ pending' = pending \cup {held[t]}
    /\ UNCHANGED <<fileVars, cacheVars, made, kind, active, loaded, doc, modified, detached,
                   during, held, type, fileLock, configVars, strayWrite, faults>>

\* The file is written if something was modified; what a late load has left of it
\* may be nothing.
WriteToDiskFile(i) ==
    /\ modified' = modified \ {i}
    /\ IF i \in modified
       THEN /\ fileLock = NoThread
            /\ xml' = IF doc[i] = NoFile THEN deletions ELSE doc[i]
            /\ strayWrite' = (strayWrite \/ i # prefsCache \/ i \in during)
       ELSE UNCHANGED <<xml, strayWrite>>

\* The flush task.  It does not wait for the load: PreLoad passes while there was none.
FlushTask(i) ==
    /\ i \in pending
    /\ WriteToDiskFile(i)
    /\ pending' = pending \ {i}
    /\ UNCHANGED <<db, deletions, cacheVars, made, kind, active, loaded, doc, detached, during,
                   threadVars, configVars, boundVars>>

-----------------------------------------------------------------------------
(***************************************************************************)
(* RemovePreferencesFromCache and OH_Preferences_Close                     *)
(***************************************************************************)

\* Close or CloseDb of the cached instance, and its removal from the cache.
CloseAndErase ==
    /\ active' = active \ {prefsCache}
    /\ prefsCache' = 0

CloseDbFails ==
    /\ prefsCache # 0 /\ kind[prefsCache] = "gskv" /\ prefsCache \in active
    /\ MayFail

\* Mutant: the entry is erased although the database could not be closed.
RemoveIgnoresError(t) ==
    /\ prefsCacheMutex = NoThread
    /\ Call(t, "idle")
    /\ \/ CloseDbFails /\ prefsCache' = 0 /\ UNCHANGED active
       \/ CloseAndErase /\ NoFault
    /\ UNCHANGED <<fileVars, prefsCacheMutex, made, kind, loaded, doc, modified, pending, detached,
                   during, held, type, fileLock, configVars, strayWrite>>

RemovePreferencesFromCache(t) ==
    /\ prefsCacheMutex = NoThread
    /\ Call(t, "idle")
    /\ \/ CloseDbFails /\ UNCHANGED <<prefsCache, active>>
       \/ CloseAndErase /\ NoFault
    /\ UNCHANGED <<fileVars, prefsCacheMutex, made, kind, loaded, doc, modified, pending, detached,
                   during, held, type, fileLock, configVars, strayWrite>>

OH_Preferences_Close(t) ==
    /\ held[t] # 0
    /\ Call(t, "ndkFlush")
    /\ UNCHANGED <<fileVars, cacheVars, instanceVars, held, type, fileLock, configVars,
                   strayWrite, faults>>

\* FlushSync of an XML instance, loaded or not; it leaves the writing to a flush
\* that is already on its way.
NdkFlush(t) ==
    /\ pc[t] = "ndkFlush"
    /\ Goto(t, "ndkRemove")
    /\ IF kind[held[t]] = "xml" /\ held[t] \notin pending
       THEN WriteToDiskFile(held[t])
       ELSE UNCHANGED <<xml, modified, strayWrite>>
    /\ UNCHANGED <<db, deletions, cacheVars, made, kind, active, loaded, doc, pending, detached,
                   during, held, type, fileLock, configVars, boundVars>>

\* RemovePreferencesFromCache, whatever the cache holds by now; then the handle is freed.
NdkRemove(t) ==
    /\ pc[t] = "ndkRemove"
    /\ prefsCacheMutex = NoThread
    /\ Goto(t, "idle")
    /\ \/ CloseDbFails /\ UNCHANGED <<prefsCache, active, held>>
       \/ /\ CloseAndErase /\ NoFault
          /\ held' = [held EXCEPT ![t] = 0]
    /\ UNCHANGED <<fileVars, prefsCacheMutex, made, kind, loaded, doc, modified, pending, detached,
                   during, type, fileLock, configVars, strayWrite, calls>>

-----------------------------------------------------------------------------
(***************************************************************************)
(* DeletePreferences                                                       *)
(***************************************************************************)

\* Mutant: the files are removed although the database could not be closed.
DeleteIgnoresError(t) ==
    /\ prefsCacheMutex = NoThread
    /\ Call(t, "lockFile")
    /\ \/ CloseDbFails /\ UNCHANGED <<prefsCache, active>>
       \/ CloseAndErase /\ NoFault
    /\ UNCHANGED <<fileVars, prefsCacheMutex, made, kind, loaded, doc, modified, pending, detached,
                   during, held, type, fileLock, configVars, strayWrite>>

\* DeletePreferencesCache, under prefsCacheMutex_.
DeletePreferences(t) ==
    /\ prefsCacheMutex = NoThread
    /\ \/ /\ CloseDbFails
          /\ Call(t, "idle")
          /\ UNCHANGED <<prefsCache, active>>
       \/ /\ CloseAndErase
          /\ Call(t, "lockFile") /\ NoFault
    /\ UNCHANGED <<fileVars, prefsCacheMutex, made, kind, loaded, doc, modified, pending, detached,
                   during, held, type, fileLock, configVars, strayWrite>>

\* The result of WriteLock is not looked at.
DeleteLock(t) ==
    /\ pc[t] = "lockFile"
    /\ Goto(t, "removeXml")
    /\ \/ fileLock = NoThread /\ fileLock' = t /\ NoFault
       \/ MayFail /\ UNCHANGED fileLock
    /\ UNCHANGED <<fileVars, cacheVars, instanceVars, held, type, configVars, strayWrite, calls>>

RemoveXml(t) ==
    /\ pc[t] = "removeXml"
    /\ Goto(t, "removeDb")
    /\ \/ xml' = NoFile /\ NoFault
       \/ xml # NoFile /\ MayFail /\ UNCHANGED xml
    /\ UNCHANGED <<db, deletions, cacheVars, instanceVars, held, type, fileLock, configVars,
                   strayWrite, calls>>

Unlock(t) == fileLock' = IF fileLock = t THEN NoThread ELSE fileLock

\* RemoveEnhanceDbFileIfNeed: the database, then the files beside it.  A failure leaves
\* everything, or only some of the files beside the database.
RemoveDb(t) ==
    /\ pc[t] = "removeDb"
    /\ \/ /\ db' = NoFile
          /\ detached' = IF db = NoFile THEN detached
                         ELSE detached \cup {i \in active : kind[i] = "gskv"}
          /\ \/ Goto(t, "check") /\ NoFault /\ UNCHANGED fileLock
             \/ Goto(t, "idle") /\ MayFail /\ Unlock(t)
       \/ /\ db # NoFile /\ MayFail
          /\ Goto(t, "idle") /\ Unlock(t) /\ UNCHANGED <<db, detached>>
    /\ UNCHANGED <<xml, deletions, cacheVars, made, kind, active, loaded, doc, modified, pending,
                   during, held, type, configVars, strayWrite, calls>>

\* Mutant: E_OK without a look at what is left.
DeleteUnchecked(t) ==
    /\ pc[t] = "check"
    /\ deletions' = deletions + 1
    /\ Goto(t, "idle")
    /\ Unlock(t)
    /\ UNCHANGED <<xml, db, cacheVars, instanceVars, held, type, configVars, strayWrite,
                   boundVars>>

\* E_OK if the XML file is gone.
DeleteCheck(t) ==
    /\ pc[t] = "check"
    /\ deletions' = IF xml = NoFile THEN deletions + 1 ELSE deletions
    /\ Goto(t, "idle")
    /\ Unlock(t)
    /\ UNCHANGED <<xml, db, cacheVars, instanceVars, held, type, configVars, strayWrite,
                   boundVars>>

-----------------------------------------------------------------------------

Step(t) ==
    \/ GetPreferences(t) \/ GetPreferencesInner(t) \/ InitInstance(t) \/ InitFails(t)
    \/ Put(t) \/ Flush(t) \/ RemovePreferencesFromCache(t)
    \/ OH_Preferences_Close(t) \/ NdkFlush(t) \/ NdkRemove(t)
    \/ DeletePreferences(t) \/ DeleteLock(t) \/ RemoveXml(t) \/ RemoveDb(t) \/ DeleteCheck(t)

Next ==
    \/ \E t \in Threads : Step(t)
    \/ \E i \in Instances : Load(i) \/ FlushTask(i)

Spec == Init /\ [][Next]_vars

-----------------------------------------------------------------------------

Ages == Nat \cup {NoFile}

\* The variables keep their types; the locks are held by threads that are inside.
TypeOK ==
    /\ prefsCache \in 0 .. made
    /\ prefsCacheMutex \in {t \in Threads : pc[t] \in {"inner", "init"}} \cup {NoThread}
    /\ xml \in Ages /\ db \in Ages /\ deletions \in Nat
    /\ made \in 0 .. MaxInstances
    /\ kind \in [Instances -> Types]
    /\ active \cup loaded \cup modified \cup pending \cup detached \cup during \subseteq 1 .. made
    /\ doc \in [Instances -> Ages]
    /\ pc \in [Threads -> Labels]
    /\ held \in [Threads -> 0 .. made]
    /\ type \in [Threads -> Types]
    /\ fileLock \in {t \in Threads : pc[t] \in Deleting} \cup {NoThread}
    /\ trusted \in BOOLEAN /\ supported \in BOOLEAN /\ strayWrite \in BOOLEAN
    /\ calls \in 0 .. MaxCalls /\ faults \in 0 .. MaxFaults

\* The instance in the cache is the only one in use, and it is not closed
\* (preferences_helper.cpp:172-200, 220, 295-306): GetPreferences never hands out a
\* closed instance, nor a second one beside a database that could not be closed.
CachedIsActive == active = IF prefsCache = 0 THEN {} ELSE {prefsCache}

\* A path holds an XML file or a database, not both (preferences_helper.cpp:142, 151):
\* with both, neither type could be opened again.  Only a write of an instance that has
\* left the cache, or was made during a deletion, can bring the second one about; from
\* such a write on (strayWrite) nothing is promised.
OneStorageType == ~strayWrite => xml = NoFile \/ db = NoFile

\* Deleted data do not come back (preferences_helper.cpp:228-275, preferences_helper.h:51):
\* after a successful DeletePreferences the files hold only what was stored later, unless
\* an instance that has left the cache, or was made during the deletion, has written.
DeletedStaysDeleted ==
    ~strayWrite => \A age \in {xml, db} \ {NoFile} : age >= deletions

\* The cached database is the one under its name (preferences_helper.cpp:237-246, 267):
\* DeletePreferences never takes away the file of a database in use, unless the
\* database was opened during the deletion.
CachedHasFile == prefsCache \in detached => prefsCache \in during
=============================================================================
