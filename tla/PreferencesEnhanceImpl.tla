------------------------ MODULE PreferencesEnhanceImpl ------------------------
(***************************************************************************)
(* Preferences in a GSKV database: PreferencesEnhanceImpl and PreferencesDb  *)
(* (frameworks/native/src/preferences_enhance_impl.cpp and                  *)
(* platform/src/preferences_db_adapter.cpp).                                *)
(*                                                                         *)
(* Several processes have the same database open.  An instance caches large *)
(* values and trusts its cache while the data version of the database is    *)
(* the one it has noted.  Inside a process dbMutex_ admits one call at a    *)
(* time, so a process runs one call; other processes come between two calls *)
(* of the GRD library.                                                      *)
(*                                                                         *)
(* External: the GRD library.  Each of its calls is atomic.  A put, a       *)
(* deletion of a key that is there and a dropped collection raise the data  *)
(* version by one, as the code expects when it counts along; deleting a key  *)
(* that is not there does so too, or answers GRD_NO_DATA.  Any call may      *)
(* fail.  A database is damaged only before anybody opens it.               *)
(*                                                                         *)
(* Put, Delete and Clear end by handing the executor a task that tells the   *)
(* observers; it touches nothing of this state (module Observers).           *)
(***************************************************************************)
EXTENDS Naturals, FiniteSets

CONSTANTS
    Procs,          \* processes, each with one instance
    Keys,
    LargeValues,    \* values of at least CACHED_THRESHOLDS bytes
    SmallValues,
    NoValue,
    Damages,        \* the states the database may be in at the start
    MaxCalls,       \* bound: calls made
    MaxFaults       \* bound: library calls that fail

Values == LargeValues \cup SmallValues

Maybe(S) == S \cup {NoValue}

ASSUME KeysAssumption == Keys # {} /\ IsFiniteSet(Keys)

ASSUME ValuesAssumption ==
    /\ LargeValues \cap SmallValues = {}
    /\ NoValue \notin Values

ASSUME DamagesAssumption == Damages \subseteq {"none", "repairable", "beyond"}

ASSUME BoundsAssumption == MaxCalls \in Nat /\ MaxFaults \in Nat

\* CREATE_COLLECTION_RETRY_TIMES and DB_REPAIR_RETRY_TIMES
CREATE_RETRIES == 2
REPAIR_RETRIES == 3

VARIABLES
    data,               \* the collection: a value or NoValue for each key
    collection,         \* the collection exists
    version,            \* GRD_CONFIG_DATA_VERSION
    damage,             \* what DbOpen will find
    open,               \* processes whose instance has a db_
    handle,             \* processes whose PreferencesDb has a db_
    largeCachedData, cachedDataVersion,
    pc, key, value,     \* the call a process is in, and its arguments
    kernelDataVersion,  \* local of the calls that read
    missing,            \* local: the library has answered GRD_UNDEFINED_TABLE
    retryTimes,         \* local of the loops of PreferencesDb
    foreign,            \* history: cached keys changed without the cache
    noted,              \* history: foreign when kernelDataVersion was read
    revalidated,        \* history: foreign, and declared current by a read
    failedOpens,        \* history: opens in a row that failed with no fault
    calls, faults

dbVars == <<data, collection, version, damage>>
instanceVars == <<open, handle>>
cacheVars == <<largeCachedData, cachedDataVersion>>
localVars == <<key, value, kernelDataVersion, missing, retryTimes>>
staleVars == <<foreign, noted, revalidated>>
boundVars == <<calls, faults>>
vars == <<dbVars, instanceVars, cacheVars, pc, localVars, staleVars,
          failedOpens, boundVars>>

\* Labels of the loops that create the collection when it is not there.
InLoop == {"get", "put", "del", "all", "clearAll"}

Opening == {"open", "repair", "rebuild", "initCreate", "preload"}

Labels == InLoop \cup Opening \cup
          {"idle", "version", "allVersion", "clearVersion", "drop", "create", "close"}

Empty == [k \in Keys |-> NoValue]

Stored(d) == {k \in Keys : d[k] # NoValue}

Cached(p) == Stored(largeCachedData[p])

Init ==
    /\ data \in {Empty} \cup {[k \in Keys |-> v] : v \in LargeValues}
    /\ collection = (data # Empty)
    /\ version = Cardinality(Stored(data))
    /\ damage \in Damages
    /\ open = {}
    /\ handle = {}
    /\ largeCachedData = [p \in Procs |-> Empty]
    /\ cachedDataVersion = [p \in Procs |-> 0]
    /\ pc = [p \in Procs |-> "idle"]
    /\ key \in [Procs -> {CHOOSE k \in Keys : TRUE}]
    /\ value = [p \in Procs |-> NoValue]
    /\ kernelDataVersion = [p \in Procs |-> 0]
    /\ missing = [p \in Procs |-> FALSE]
    /\ retryTimes = [p \in Procs |-> 0]
    /\ foreign = [p \in Procs |-> {}]
    /\ noted = [p \in Procs |-> {}]
    /\ revalidated = [p \in Procs |-> {}]
    /\ failedOpens = [p \in Procs |-> 0]
    /\ calls = 0
    /\ faults = 0

-----------------------------------------------------------------------------
(***************************************************************************)
(* Init: opening the database                                              *)
(***************************************************************************)

Goto(p, label) == pc' = [pc EXCEPT ![p] = label]

CountCall == calls < MaxCalls /\ calls' = calls + 1 /\ UNCHANGED faults

\* Locals go out of scope when a call returns.
Return(p) ==
    /\ Goto(p, "idle")
    /\ key' = [key EXCEPT ![p] = CHOOSE k \in Keys : TRUE]
    /\ value' = [value EXCEPT ![p] = NoValue]
    /\ kernelDataVersion' = [kernelDataVersion EXCEPT ![p] = 0]
    /\ missing' = [missing EXCEPT ![p] = FALSE]
    /\ retryTimes' = [retryTimes EXCEPT ![p] = 0]

\* A new instance, with an empty cache.
Open(p) ==
    /\ pc[p] = "idle" /\ p \notin open
    /\ CountCall
    /\ Goto(p, "open")
    /\ largeCachedData' = [largeCachedData EXCEPT ![p] = Empty]
    /\ cachedDataVersion' = [cachedDataVersion EXCEPT ![p] = 0]
    /\ UNCHANGED <<dbVars, instanceVars, localVars, staleVars, failedOpens>>

\* OpenDb(false)
OpenDb(p) ==
    /\ pc[p] = "open"
    /\ \/ /\ damage = "none"
          /\ handle' = handle \cup {p}
          /\ Goto(p, "initCreate")
          /\ UNCHANGED retryTimes
       \/ /\ damage # "none"
          /\ Goto(p, "repair")
          /\ retryTimes' = [retryTimes EXCEPT ![p] = REPAIR_RETRIES]
          /\ UNCHANGED handle
    /\ UNCHANGED <<dbVars, open, cacheVars, key, value, kernelDataVersion, missing, staleVars, failedOpens, boundVars>>

\* RepairDb succeeded.  No handle has been opened: OpenDb is not called again.
Repaired(p) ==
    /\ pc[p] = "repair" /\ damage # "beyond"
    /\ damage' = "none"
    /\ Goto(p, "initCreate")
    /\ UNCHANGED <<data, collection, version, instanceVars, cacheVars, localVars,
                   staleVars, failedOpens, boundVars>>

\* RepairDb answered GRD_DB_BUSY: another process is using the file.
RepairBusy(p) ==
    /\ pc[p] = "repair"
    /\ \E q \in Procs \ {p} : q \in handle \/ pc[q] \in Opening
    /\ retryTimes' = [retryTimes EXCEPT ![p] = @ - 1]
    /\ Goto(p, IF retryTimes[p] = 1 THEN "rebuild" ELSE "repair")
    /\ UNCHANGED <<dbVars, instanceVars, cacheVars, key, value, kernelDataVersion, missing, staleVars, failedOpens, boundVars>>

\* Mutant: the error of RepairDb is returned, nothing is rebuilt.
RepairFailedGivesUp(p) ==
    /\ pc[p] = "repair" /\ damage = "beyond"
    /\ Goto(p, "preload")
    /\ UNCHANGED <<dbVars, instanceVars, cacheVars, localVars, staleVars,
                   failedOpens, boundVars>>

\* Any other error of RepairDb.
RepairFailed(p) ==
    /\ pc[p] = "repair" /\ damage = "beyond"
    /\ Goto(p, "rebuild")
    /\ UNCHANGED <<dbVars, instanceVars, cacheVars, localVars, staleVars,
                   failedOpens, boundVars>>

\* Every cached key that data loses is now wrong in the cache.
Disown(q, S) == foreign[q] \cup (S \cap Cached(q))

\* OpenDb(true): what is damaged is made anew.
Rebuild(p) ==
    /\ pc[p] = "rebuild"
    /\ handle' = handle \cup {p}
    /\ Goto(p, "initCreate")
    /\ IF damage = "none"
       THEN UNCHANGED <<dbVars, foreign>>
       ELSE /\ data' = Empty
            /\ collection' = FALSE
            /\ version' = 0
            /\ damage' = "none"
            /\ foreign' = [q \in Procs |-> Disown(q, Keys)]
    /\ UNCHANGED <<open, cacheVars, localVars, noted, revalidated,
                   failedOpens, boundVars>>

\* CreateCollection of Init; its result is ignored.
InitCreate(p) ==
    /\ pc[p] = "initCreate"
    /\ collection' = (collection \/ p \in handle)
    /\ Goto(p, "preload")
    /\ UNCHANGED <<data, version, damage, instanceVars, cacheVars, localVars, staleVars, failedOpens, boundVars>>

\* DbIndexPreload, and the end of Init.  Without a handle it fails.
Preload(p) ==
    /\ pc[p] = "preload"
    /\ Return(p)
    /\ IF p \in handle
       THEN /\ open' = open \cup {p}
            /\ failedOpens' = [failedOpens EXCEPT ![p] = 0]
       ELSE /\ failedOpens' = [failedOpens EXCEPT ![p] = @ + 1]
            /\ UNCHANGED open
    /\ UNCHANGED <<dbVars, handle, cacheVars, staleVars, boundVars>>

\* CloseDb, and the destructor.
Close(p) ==
    /\ pc[p] = "idle" /\ p \in open
    /\ CountCall
    /\ Goto(p, "close")
    /\ UNCHANGED <<dbVars, instanceVars, cacheVars, localVars, staleVars, failedOpens>>

\* Mutant: the closed PreferencesDb stays the db_ of the instance.
DbCloseKeepsDb(p) ==
    /\ pc[p] = "close"
    /\ handle' = handle \ {p}
    /\ largeCachedData' = [largeCachedData EXCEPT ![p] = Empty]
    /\ foreign' = [foreign EXCEPT ![p] = {}]
    /\ revalidated' = [revalidated EXCEPT ![p] = {}]
    /\ Return(p)
    /\ UNCHANGED <<dbVars, open, cachedDataVersion, noted, failedOpens, boundVars>>

DbClose(p) ==
    /\ pc[p] = "close"
    /\ open' = open \ {p}
    /\ handle' = handle \ {p}
    /\ largeCachedData' = [largeCachedData EXCEPT ![p] = Empty]
    /\ foreign' = [foreign EXCEPT ![p] = {}]
    /\ revalidated' = [revalidated EXCEPT ![p] = {}]
    /\ Return(p)
    /\ UNCHANGED <<dbVars, cachedDataVersion, noted, failedOpens, boundVars>>
-----------------------------------------------------------------------------
(***************************************************************************)
(* Get, GetValue, HasKey, GetAll, GetAllData and GetAllDatas               *)
(***************************************************************************)

\* The argument checks, dbMutex_ and the check that db_ is there.
Begin(p, label) ==
    /\ pc[p] = "idle" /\ p \in open
    /\ CountCall
    /\ Goto(p, label)
    /\ UNCHANGED <<dbVars, instanceVars, cacheVars, kernelDataVersion, missing, retryTimes,
                   staleVars, failedOpens>>

Get(p) ==
    /\ Begin(p, "version")
    /\ \E k \in Keys : key' = [key EXCEPT ![p] = k]
    /\ UNCHANGED value

GetAll(p) == Begin(p, "allVersion") /\ UNCHANGED <<key, value>>

\* GetKernelDataVersion, and the start of the loop of PreferencesDb::Get or GetAll.
NoteVersion(p, label) ==
    /\ kernelDataVersion' = [kernelDataVersion EXCEPT ![p] = version]
    /\ noted' = [noted EXCEPT ![p] = foreign[p]]
    /\ retryTimes' = [retryTimes EXCEPT ![p] = CREATE_RETRIES]
    /\ Goto(p, label)
    /\ UNCHANGED <<dbVars, instanceVars, cacheVars, key, value, missing, foreign, revalidated,
                   failedOpens, boundVars>>

GetVersion(p) ==
    /\ pc[p] = "version"
    /\ IF version = cachedDataVersion[p] /\ key[p] \in Cached(p)
       THEN /\ Return(p)
            /\ UNCHANGED <<dbVars, instanceVars, cacheVars, staleVars, failedOpens, boundVars>>
       ELSE NoteVersion(p, "get")

GetAllVersion(p) ==
    \/ pc[p] = "allVersion" /\ NoteVersion(p, "all")
    \/ pc[p] = "clearVersion" /\ NoteVersion(p, "clearAll")

\* Mutant: the version is read after the data.
CacheReadLateVersion(p, S) ==
    LET large == {k \in S : data[k] \in LargeValues} IN
    /\ largeCachedData' = [largeCachedData EXCEPT ![p] =
           [k \in Keys |-> IF k \in large THEN data[k] ELSE @[k]]]
    /\ foreign' = [foreign EXCEPT ![p] = @ \ large]
    /\ revalidated' = [revalidated EXCEPT ![p] = (@ \cup noted[p]) \ large]
    /\ cachedDataVersion' = [cachedDataVersion EXCEPT ![p] = version]

\* What the cache holds after large values were read, and what is known of it.
CacheRead(p, S) ==
    LET large == {k \in S : data[k] \in LargeValues} IN
    /\ largeCachedData' = [largeCachedData EXCEPT ![p] =
           [k \in Keys |-> IF k \in large THEN data[k] ELSE @[k]]]
    /\ foreign' = [foreign EXCEPT ![p] = @ \ large]
    /\ revalidated' = [revalidated EXCEPT ![p] = (@ \cup noted[p]) \ large]
    /\ cachedDataVersion' = [cachedDataVersion EXCEPT ![p] = kernelDataVersion[p]]

KvGet(p) ==
    /\ pc[p] = "get" /\ collection /\ ~missing[p]
    /\ IF data[key[p]] \in LargeValues
       THEN CacheRead(p, {key[p]})
       ELSE UNCHANGED <<cacheVars, foreign, revalidated>>
    /\ Return(p)
    /\ UNCHANGED <<dbVars, instanceVars, noted, failedOpens, boundVars>>

\* GetAllInner, for GetAll and for Clear: entries of keys it does not find stay.
\* The result set is read as one snapshot; the items are all fetched before the
\* cache is touched, so a library call that fails there is CallFails.  Stored
\* values are what Put wrote and unmarshal (module ValueCodec): the cache filled
\* halfway by one that does not is left out.
KvFilter(p) ==
    /\ collection /\ ~missing[p]
    /\ CacheRead(p, Keys)
    /\ \/ pc[p] = "all" /\ Return(p)
       \/ pc[p] = "clearAll" /\ Goto(p, "drop") /\ UNCHANGED localVars
    /\ UNCHANGED <<dbVars, instanceVars, noted, failedOpens, boundVars>>

-----------------------------------------------------------------------------
(***************************************************************************)
(* The loops of PreferencesDb around a collection that is not there        *)
(***************************************************************************)

\* The library answers GRD_UNDEFINED_TABLE.
UndefinedTable(p) ==
    /\ pc[p] \in InLoop /\ ~collection /\ ~missing[p]
    /\ missing' = [missing EXCEPT ![p] = TRUE]
    /\ UNCHANGED <<dbVars, instanceVars, cacheVars, pc, key, value, kernelDataVersion,
                   retryTimes, staleVars, failedOpens, boundVars>>

\* CreateCollection, whose result is ignored, and the next round if there is one.
CreateInLoop(p) ==
    /\ missing[p]
    /\ \/ collection' = TRUE /\ UNCHANGED faults
       \/ faults < MaxFaults /\ faults' = faults + 1 /\ UNCHANGED collection
    /\ \/ retryTimes[p] = 1 /\ Return(p)
       \/ /\ retryTimes[p] > 1
          /\ retryTimes' = [retryTimes EXCEPT ![p] = @ - 1]
          /\ missing' = [missing EXCEPT ![p] = FALSE]
          /\ UNCHANGED <<pc, key, value, kernelDataVersion>>
    /\ UNCHANGED <<data, version, damage, instanceVars, cacheVars, staleVars, failedOpens, calls>>

-----------------------------------------------------------------------------
(***************************************************************************)
(* Put, Delete and Clear                                                   *)
(***************************************************************************)

BeginWrite(p, label) ==
    /\ pc[p] = "idle" /\ p \in open
    /\ CountCall
    /\ Goto(p, label)
    /\ retryTimes' = [retryTimes EXCEPT ![p] = CREATE_RETRIES]
    /\ UNCHANGED <<dbVars, instanceVars, cacheVars, kernelDataVersion, missing, staleVars,
                   failedOpens>>

Put(p) ==
    /\ BeginWrite(p, "put")
    /\ \E k \in Keys : key' = [key EXCEPT ![p] = k]
    /\ \E v \in Values : value' = [value EXCEPT ![p] = v]

Delete(p) ==
    /\ BeginWrite(p, "del")
    /\ \E k \in Keys : key' = [key EXCEPT ![p] = k]
    /\ UNCHANGED value

\* The cache of p follows its own change of k; the others do not hear of it.
ChangedBy(p, k) ==
    /\ foreign' = [q \in Procs |-> IF q = p THEN foreign[p] \ {k} ELSE Disown(q, {k})]
    /\ revalidated' = [q \in Procs |-> revalidated[q] \ {k}]

\* Mutant: a small value leaves the large one in the cache.
KvPutKeepsEntry(p) ==
    /\ pc[p] = "put" /\ collection /\ ~missing[p]
    /\ data' = [data EXCEPT ![key[p]] = value[p]]
    /\ version' = version + 1
    /\ IF value[p] \in LargeValues
       THEN /\ largeCachedData' = [largeCachedData EXCEPT ![p][key[p]] = value[p]]
            /\ cachedDataVersion' = [cachedDataVersion EXCEPT ![p] = @ + 1]
       ELSE UNCHANGED cacheVars
    /\ ChangedBy(p, key[p])
    /\ Return(p)
    /\ UNCHANGED <<collection, damage, instanceVars, noted, failedOpens, boundVars>>

KvPut(p) ==
    /\ pc[p] = "put" /\ collection /\ ~missing[p]
    /\ data' = [data EXCEPT ![key[p]] = value[p]]
    /\ version' = version + 1
    /\ IF value[p] \in LargeValues
       THEN /\ largeCachedData' = [largeCachedData EXCEPT ![p][key[p]] = value[p]]
            /\ cachedDataVersion' = [cachedDataVersion EXCEPT ![p] = @ + 1]
       ELSE /\ largeCachedData' = [largeCachedData EXCEPT ![p][key[p]] = NoValue]
            /\ UNCHANGED cachedDataVersion
    /\ ChangedBy(p, key[p])
    /\ Return(p)
    /\ UNCHANGED <<collection, damage, instanceVars, noted, failedOpens, boundVars>>

KvDel(p) ==
    /\ pc[p] = "del" /\ collection /\ ~missing[p]
    /\ data' = [data EXCEPT ![key[p]] = NoValue]
    /\ version' = version + 1
    /\ largeCachedData' = [largeCachedData EXCEPT ![p][key[p]] = NoValue]
    /\ cachedDataVersion' = [cachedDataVersion EXCEPT ![p] =
           IF key[p] \in Cached(p) THEN @ + 1 ELSE @]
    /\ ChangedBy(p, key[p])
    /\ Return(p)
    /\ UNCHANGED <<collection, damage, instanceVars, noted, failedOpens, boundVars>>

\* GRD_NO_DATA: Delete returns before it looks at the cache.
KvDelNoData(p) ==
    /\ pc[p] = "del" /\ collection /\ ~missing[p]
    /\ data[key[p]] = NoValue
    /\ Return(p)
    /\ UNCHANGED <<dbVars, instanceVars, cacheVars, staleVars, failedOpens, boundVars>>

Clear(p) == Begin(p, "clearVersion") /\ UNCHANGED <<key, value>>

\* DropCollection; without a collection it fails and Clear returns.
Drop(p) ==
    /\ pc[p] = "drop" /\ collection
    /\ collection' = FALSE
    /\ data' = Empty
    /\ version' = version + 1
    /\ foreign' = [q \in Procs |-> Disown(q, Stored(data))]
    /\ revalidated' = [q \in Procs |-> revalidated[q] \ Stored(data)]
    /\ Goto(p, "create")
    /\ UNCHANGED <<damage, instanceVars, cacheVars, localVars, noted, failedOpens, boundVars>>

DropUndefined(p) ==
    /\ pc[p] = "drop" /\ ~collection
    /\ Return(p)
    /\ UNCHANGED <<dbVars, instanceVars, cacheVars, staleVars, failedOpens, boundVars>>

\* CreateCollection of Clear.
Create(p) ==
    /\ pc[p] = "create"
    /\ collection' = TRUE
    /\ largeCachedData' = [largeCachedData EXCEPT ![p] = Empty]
    /\ cachedDataVersion' = [cachedDataVersion EXCEPT ![p] = @ + 1]
    /\ foreign' = [foreign EXCEPT ![p] = {}]
    /\ revalidated' = [revalidated EXCEPT ![p] = {}]
    /\ Return(p)
    /\ UNCHANGED <<data, version, damage, instanceVars, noted, failedOpens, boundVars>>

-----------------------------------------------------------------------------
(***************************************************************************)
(* Library calls that fail                                                 *)
(***************************************************************************)

\* The call returns an error and leaves the instance as it is; Clear whose
\* CreateCollection fails too, with the cache of before.
CallFails(p) ==
    /\ pc[p] \notin Opening \cup {"idle"} /\ ~missing[p]
    /\ faults < MaxFaults /\ faults' = faults + 1
    /\ Return(p)
    /\ UNCHANGED <<dbVars, instanceVars, cacheVars, staleVars, failedOpens, calls>>

\* Opening or preloading fails: the instance gets no db_ and drops its handle.
\* A failing repair goes on to rebuild; a failing CreateCollection is ignored.
OpenFails(p) ==
    /\ pc[p] \in Opening
    /\ faults < MaxFaults /\ faults' = faults + 1
    /\ \/ /\ pc[p] \in {"open", "rebuild", "preload"}
          /\ handle' = handle \ {p}
          /\ Return(p)
       \/ pc[p] = "repair" /\ Goto(p, "rebuild") /\ UNCHANGED <<localVars, handle>>
       \/ pc[p] = "initCreate" /\ Goto(p, "preload") /\ UNCHANGED <<localVars, handle>>
    /\ UNCHANGED <<dbVars, open, cacheVars, staleVars, failedOpens, calls>>

Step(p) ==
    \/ Open(p) \/ OpenDb(p) \/ Repaired(p) \/ RepairBusy(p) \/ RepairFailed(p)
    \/ Rebuild(p) \/ InitCreate(p) \/ Preload(p) \/ Close(p) \/ DbClose(p)
    \/ Get(p) \/ GetAll(p) \/ GetVersion(p) \/ GetAllVersion(p) \/ KvGet(p) \/ KvFilter(p)
    \/ UndefinedTable(p) \/ CreateInLoop(p)
    \/ Put(p) \/ Delete(p) \/ KvPut(p) \/ KvDel(p) \/ KvDelNoData(p)
    \/ Clear(p) \/ Drop(p) \/ DropUndefined(p) \/ Create(p)
    \/ CallFails(p) \/ OpenFails(p)

Next == \E p \in Procs : Step(p)

Spec == Init /\ [][Next]_vars

-----------------------------------------------------------------------------

\* The variables keep their types.  An open instance has a handle, a handle is
\* held by an instance that is open or opening (an open that fails and a close
\* give it back, preferences_enhance_impl.cpp:48-63, 351-365), and what is
\* outdated is a cached entry of an open instance.
TypeOK ==
    /\ data \in [Keys -> Maybe(Values)]
    /\ collection \in BOOLEAN
    /\ version \in Nat
    /\ damage \in {"none", "repairable", "beyond"}
    /\ open \subseteq handle /\ handle \subseteq Procs
    /\ \A p \in handle : p \in open \/ pc[p] \in Opening
    /\ largeCachedData \in [Procs -> [Keys -> Maybe(LargeValues)]]
    /\ cachedDataVersion \in [Procs -> Nat]
    /\ pc \in [Procs -> Labels]
    /\ key \in [Procs -> Keys]
    /\ value \in [Procs -> Maybe(Values)]
    /\ kernelDataVersion \in [Procs -> Nat]
    /\ missing \in [Procs -> BOOLEAN]
    /\ retryTimes \in [Procs -> 0 .. REPAIR_RETRIES]
    /\ \A p \in Procs : foreign[p] \subseteq Cached(p) /\ (p \notin open => Cached(p) = {})
    /\ failedOpens \in [Procs -> Nat]
    /\ calls \in 0 .. MaxCalls
    /\ faults \in 0 .. MaxFaults

\* A cached large value is the one in the database unless the key was changed
\* by another process, or by a Clear that has not come to its end
\* (preferences_enhance_impl.cpp:182-190, 218-222, 346): the own writes of an
\* instance never leave an outdated entry, whatever calls of the library fail.
CacheCurrent ==
    \A p \in Procs : \A k \in Cached(p) \ foreign[p] : largeCachedData[p][k] = data[k]

\* A cache hit is right (preferences_enhance_impl.cpp:81-86): while the version of the
\* database is the noted one, every cached value is the stored one, except those that
\* a later read declared current although another process had changed them (:103, :262).
\* So a version that was read before the data, and the counting along of
\* cachedDataVersion_, never make an entry valid that has been outdated since.
VersionGuards ==
    \A p \in open : version = cachedDataVersion[p] =>
        \A k \in Cached(p) \ revalidated[p] : largeCachedData[p][k] = data[k]

\* A damaged database costs at most one failed open (preferences_db_adapter.cpp:258-334):
\* a repair leaves no handle behind, so the open that repairs fails, and the next
\* one succeeds unless a call of the library fails.
OpensAgain == \A p \in Procs : failedOpens[p] <= 1
=============================================================================
