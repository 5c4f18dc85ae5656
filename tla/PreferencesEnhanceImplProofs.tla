--------------------- MODULE PreferencesEnhanceImplProofs ---------------------
(***************************************************************************)
(* Proofs about PreferencesEnhanceImpl, for any number of processes, keys,  *)
(* values, calls and failing library calls: a cache hit returns what the    *)
(* database holds, unless a read has declared a foreign change current, and *)
(* a damaged database costs at most one failed open.                        *)
(***************************************************************************)
EXTENDS PreferencesEnhanceImpl, FiniteSetTheorems, TLAPS

\* The parts of TypeOK, by the variables they are about.
DbTyped ==
    /\ data \in [Keys -> Maybe(Values)]
    /\ collection \in BOOLEAN
    /\ version \in Nat
    /\ damage \in {"none", "repairable", "beyond"}

LocalsTyped ==
    /\ pc \in [Procs -> Labels]
    /\ key \in [Procs -> Keys]
    /\ value \in [Procs -> Maybe(Values)]
    /\ kernelDataVersion \in [Procs -> Nat]
    /\ missing \in [Procs -> BOOLEAN]
    /\ retryTimes \in [Procs -> 0 .. REPAIR_RETRIES]
    /\ \A p \in Procs : pc[p] = "repair" => retryTimes[p] > 0

CacheTyped ==
    /\ largeCachedData \in [Procs -> [Keys -> Maybe(LargeValues)]]
    /\ cachedDataVersion \in [Procs -> Nat]
    /\ foreign \in [Procs -> SUBSET Keys]
    /\ noted \in [Procs -> SUBSET Keys]
    /\ revalidated \in [Procs -> SUBSET Keys]
    /\ \A p \in Procs : foreign[p] \subseteq Cached(p)

BoundsTyped ==
    /\ failedOpens \in [Procs -> Nat]
    /\ calls \in 0 .. MaxCalls
    /\ faults \in 0 .. MaxFaults

\* An instance is open or opening or neither; one that is not open has cached nothing.
Phases ==
    /\ open \subseteq handle /\ handle \subseteq Procs
    /\ \A p \in Procs :
           /\ pc[p] \in Opening => p \notin open
           /\ pc[p] \notin Opening \cup {"idle"} => p \in open
           /\ p \in handle => p \in open \/ pc[p] \in Opening
           /\ missing[p] => p \in open
           /\ p \notin open => largeCachedData[p] = Empty

TypeInv == DbTyped /\ LocalsTyped /\ CacheTyped /\ BoundsTyped /\ Phases

-----------------------------------------------------------------------------
(***************************************************************************)
(* Type correctness                                                        *)
(***************************************************************************)

\* There is a key to leave in the locals of a process that is in no call.
LEMMA SomeKey == (CHOOSE k \in Keys : TRUE) \in Keys
  BY KeysAssumption

\* The initial values have their types.
LEMMA InitType == Init => TypeInv
  <1> SUFFICES ASSUME Init PROVE TypeInv
    OBVIOUS
  <1>1. data \in [Keys -> Maybe(Values)]
    BY DEF Init, Maybe, Values, Empty
  <1>2. version \in Nat
    <2>1. Stored(data) \in SUBSET Keys
      BY DEF Stored
    <2> QED
      BY <2>1, KeysAssumption, FS_Subset, FS_CardinalityType DEF Init
  <1>3. DbTyped
    BY <1>1, <1>2, DamagesAssumption DEF Init, DbTyped
  <1>4. LocalsTyped
    BY SomeKey DEF Init, LocalsTyped, Labels, Maybe, REPAIR_RETRIES
  <1>5. CacheTyped
    BY DEF Init, CacheTyped, Empty, Maybe
  <1>6. BoundsTyped
    BY BoundsAssumption DEF Init, BoundsTyped
  <1>7. Phases
    BY DEF Init, Phases, Opening
  <1> QED
    BY <1>3, <1>4, <1>5, <1>6, <1>7 DEF TypeInv

\* A call that returns leaves the locals in their types.
LEMMA ReturnLocals ==
  ASSUME LocalsTyped, NEW p \in Procs, Return(p)
  PROVE  LocalsTyped' /\ pc' = [pc EXCEPT ![p] = "idle"]
  BY SomeKey DEF LocalsTyped, Return, Goto, Labels, Maybe, REPAIR_RETRIES

\* A call that goes on leaves the locals in their types.
LEMMA GotoLocals ==
  ASSUME LocalsTyped, NEW p \in Procs, NEW label \in Labels \ {"repair"}, Goto(p, label),
         UNCHANGED localVars
  PROVE  LocalsTyped' /\ pc' = [pc EXCEPT ![p] = label]
  BY DEF LocalsTyped, Goto, localVars

\* Every action leaves the locals in their types.
LEMMA StepLocals ==
  ASSUME LocalsTyped, version \in Nat, NEW p \in Procs, Step(p)
  PROVE  LocalsTyped'
  <1> USE DEF localVars
  <1>1. CASE Return(p)
    BY <1>1, ReturnLocals
  <1>2. CASE UNCHANGED localVars /\ \E label \in Labels \ {"repair"} : Goto(p, label)
    BY <1>2, GotoLocals
  <1>3. CASE OpenDb(p)
    BY <1>2, <1>3 DEF OpenDb, LocalsTyped, Goto, Labels, Opening, REPAIR_RETRIES
  <1>4. CASE RepairBusy(p)
    BY <1>4 DEF RepairBusy, LocalsTyped, Goto, Labels, Opening, REPAIR_RETRIES
  <1>5. CASE Get(p)
    <2>1. PICK k \in Keys : key' = [key EXCEPT ![p] = k]
      BY <1>5 DEF Get
    <2>2. pc' = [pc EXCEPT ![p] = "version"]
      BY <1>5 DEF Get, Begin, Goto
    <2> QED
      BY <1>5, <2>1, <2>2 DEF Get, Begin, LocalsTyped, Labels
  <1>6. ASSUME NEW label \in InLoop, NoteVersion(p, label) PROVE LocalsTyped'
    BY <1>6 DEF NoteVersion, LocalsTyped, Goto, Labels, InLoop, CREATE_RETRIES, REPAIR_RETRIES
  <1>7. CASE GetVersion(p) \/ GetAllVersion(p)
    BY <1>1, <1>6, <1>7 DEF GetVersion, GetAllVersion, InLoop
  <1>8. CASE UndefinedTable(p)
    BY <1>8 DEF UndefinedTable, LocalsTyped
  <1>9. CASE CreateInLoop(p)
    <2>1. CASE /\ retryTimes[p] > 1 /\ retryTimes' = [retryTimes EXCEPT ![p] = @ - 1]
               /\ missing' = [missing EXCEPT ![p] = FALSE]
               /\ UNCHANGED <<pc, key, value, kernelDataVersion>>
      BY <2>1 DEF LocalsTyped, REPAIR_RETRIES
    <2> QED
      BY <1>1, <1>9, <2>1 DEF CreateInLoop
  <1>10. CASE Put(p)
    BY <1>10 DEF Put, BeginWrite, LocalsTyped, Goto, Labels, InLoop, Maybe, CREATE_RETRIES,
         REPAIR_RETRIES
  <1>11. CASE Delete(p)
    BY <1>11 DEF Delete, BeginWrite, LocalsTyped, Goto, Labels, InLoop, CREATE_RETRIES,
         REPAIR_RETRIES
  <1>12. CASE Open(p) \/ Repaired(p) \/ RepairFailed(p) \/ Rebuild(p) \/ InitCreate(p)
                \/ Close(p)
    BY <1>2, <1>12 DEF Open, Repaired, RepairFailed, Rebuild, InitCreate, Close, Labels, Opening
  <1>13. CASE GetAll(p) \/ KvFilter(p) \/ Clear(p) \/ Drop(p)
    BY <1>1, <1>2, <1>13 DEF GetAll, Begin, KvFilter, Clear, Drop, Labels
  <1>14. CASE OpenFails(p)
    BY <1>1, <1>2, <1>14 DEF OpenFails, Labels, Opening
  <1>15. CASE Preload(p) \/ DbClose(p) \/ KvGet(p) \/ KvPut(p) \/ KvDel(p) \/ KvDelNoData(p)
                \/ DropUndefined(p) \/ Create(p) \/ CallFails(p)
    BY <1>1, <1>15 DEF Preload, DbClose, KvGet, KvPut, KvDel, KvDelNoData, DropUndefined,
                       Create, CallFails
  <1> QED
    BY <1>3, <1>4, <1>5, <1>7, <1>8, <1>9, <1>10, <1>11, <1>12, <1>13, <1>14, <1>15 DEF Step

\* Every action leaves the database and the bounds in their types.
LEMMA StepDb ==
  ASSUME DbTyped, LocalsTyped, BoundsTyped, NEW p \in Procs, Step(p)
  PROVE  DbTyped' /\ BoundsTyped'
  <1> USE BoundsAssumption DEF DbTyped, BoundsTyped, dbVars, boundVars, CountCall
  <1>1. CASE KvPut(p) \/ KvDel(p)
    <2>1. data' \in [Keys -> Maybe(Values)]
      BY <1>1 DEF KvPut, KvDel, LocalsTyped, Maybe
    <2> QED
      BY <1>1, <2>1 DEF KvPut, KvDel
  <1>2. CASE Rebuild(p) \/ Drop(p)
    <2>1. Empty \in [Keys -> Maybe(Values)]
      BY DEF Empty, Maybe
    <2>2. data' \in [Keys -> Maybe(Values)] /\ version' \in Nat
      BY <1>2, <2>1 DEF Rebuild, Drop
    <2>3. collection' \in BOOLEAN /\ damage' \in {damage, "none"}
      BY <1>2 DEF Rebuild, Drop
    <2> QED
      BY <1>2, <2>2, <2>3 DEF Rebuild, Drop
  <1>3. CASE Preload(p)
    BY <1>3 DEF Preload
  <1>4. CASE Repaired(p) \/ InitCreate(p) \/ CreateInLoop(p) \/ Create(p)
    <2>1. collection' \in BOOLEAN
      BY <1>4 DEF Repaired, InitCreate, CreateInLoop, Create
    <2>2. UNCHANGED <<data, version, calls, failedOpens>> /\ damage' \in {damage, "none"}
      BY <1>4 DEF Repaired, InitCreate, CreateInLoop, Create
    <2>3. faults' \in 0 .. MaxFaults
      BY <1>4 DEF Repaired, InitCreate, CreateInLoop, Create
    <2> QED
      BY <2>1, <2>2, <2>3
  <1>5. CASE Open(p) \/ OpenDb(p) \/ RepairBusy(p) \/ RepairFailed(p) \/ Close(p) \/ DbClose(p)
    BY <1>5 DEF Open, OpenDb, RepairBusy, RepairFailed, Close, DbClose
  <1>6. CASE Get(p) \/ GetAll(p) \/ GetVersion(p) \/ GetAllVersion(p) \/ KvGet(p) \/ KvFilter(p)
    BY <1>6 DEF Get, GetAll, Begin, GetVersion, GetAllVersion, NoteVersion, KvGet, KvFilter
  <1>7. CASE UndefinedTable(p) \/ Put(p) \/ Delete(p) \/ KvDelNoData(p) \/ Clear(p)
    BY <1>7 DEF UndefinedTable, Put, Delete, BeginWrite, KvDelNoData, Clear, Begin
  <1>8. CASE DropUndefined(p) \/ CallFails(p) \/ OpenFails(p)
    BY <1>8 DEF DropUndefined, CallFails, OpenFails
  <1> QED
    BY <1>1, <1>2, <1>3, <1>4, <1>5, <1>6, <1>7, <1>8 DEF Step

\* Reading large values into the cache leaves it in its type.
LEMMA CacheReadTyped ==
  ASSUME CacheTyped, DbTyped, LocalsTyped, NEW p \in Procs, NEW S \in SUBSET Keys,
         CacheRead(p, S), UNCHANGED noted
  PROVE  CacheTyped'
  <1> USE DEF CacheTyped, CacheRead
  <1> DEFINE large == {k \in S : data[k] \in LargeValues}
             read == [k \in Keys |-> IF k \in large THEN data[k] ELSE largeCachedData[p][k]]
  <1>1. largeCachedData' = [largeCachedData EXCEPT ![p] = read]
    OBVIOUS
  <1>2. read \in [Keys -> Maybe(LargeValues)]
    BY DEF Maybe
  <1>3. largeCachedData' \in [Procs -> [Keys -> Maybe(LargeValues)]]
    BY <1>1, <1>2
  <1>4. /\ cachedDataVersion' \in [Procs -> Nat] /\ foreign' \in [Procs -> SUBSET Keys]
        /\ revalidated' \in [Procs -> SUBSET Keys]
    BY DEF LocalsTyped
  <1>5. ASSUME NEW q \in Procs, NEW k \in foreign'[q] PROVE k \in Cached(q)'
    <2>1. k \in Keys /\ largeCachedData[q][k] # NoValue
      BY <1>5 DEF Cached, Stored
    <2>2. q = p => k \notin large
      BY <1>5
    <2> QED
      BY <1>1, <2>1, <2>2 DEF Cached, Stored
  <1> QED
    BY <1>3, <1>4, <1>5

\* An own change of k, followed by the cache, leaves the cache in its type.
LEMMA ChangedTyped ==
  ASSUME CacheTyped, NEW p \in Procs, NEW k \in Keys, ChangedBy(p, k), UNCHANGED noted,
         NEW v \in Maybe(LargeValues), cachedDataVersion' \in [Procs -> Nat],
         largeCachedData' = [largeCachedData EXCEPT ![p][k] = v]
  PROVE  CacheTyped'
  <1> USE DEF CacheTyped, ChangedBy, Disown
  <1>1. largeCachedData' \in [Procs -> [Keys -> Maybe(LargeValues)]]
    OBVIOUS
  <1>2. foreign' \in [Procs -> SUBSET Keys] /\ revalidated' \in [Procs -> SUBSET Keys]
    OBVIOUS
  <1>3. ASSUME NEW q \in Procs, NEW j \in foreign'[q] PROVE j \in Cached(q)'
    <2>1. j \in Keys /\ largeCachedData[q][j] # NoValue /\ (q = p => j # k)
      BY <1>3 DEF Cached, Stored
    <2> QED
      BY <2>1 DEF Cached, Stored
  <1> QED
    BY <1>1, <1>2, <1>3

\* An emptied cache has its type.
LEMMA EmptiedTyped ==
  ASSUME CacheTyped, NEW p \in Procs, UNCHANGED noted, cachedDataVersion' \in [Procs -> Nat],
         largeCachedData' = [largeCachedData EXCEPT ![p] = Empty],
         foreign' = [foreign EXCEPT ![p] = {}],
         revalidated' \in [Procs -> SUBSET Keys]
  PROVE  CacheTyped'
  <1>1. Empty \in [Keys -> Maybe(LargeValues)]
    BY DEF Empty, Maybe
  <1> QED
    BY <1>1 DEF CacheTyped, Cached, Stored

\* Every action leaves the cache in its type.
LEMMA StepCacheTyped ==
  ASSUME TypeInv, NEW p \in Procs, Step(p)
  PROVE  CacheTyped'
  <1> USE DEF TypeInv, CacheTyped, cacheVars, staleVars
  <1>1. CASE UNCHANGED <<cacheVars, staleVars>>
    BY <1>1 DEF Cached
  <1>2. CASE Open(p)
    <2>1. largeCachedData' = largeCachedData
      BY <1>2 DEF Open, Phases
    <2> QED
      BY <1>2, <2>1 DEF Open, Cached
  <1>3. CASE Rebuild(p) \/ Drop(p)
    <2>1. PICK S \in SUBSET Keys : foreign' \in {foreign, [q \in Procs |-> Disown(q, S)]}
      BY <1>3 DEF Rebuild, Drop, Stored
    <2> QED
      BY <1>3, <2>1 DEF Rebuild, Drop, Disown, Cached, Stored
  <1>4. CASE DbClose(p) \/ Create(p)
    <2>1. \/ UNCHANGED cachedDataVersion
          \/ cachedDataVersion' = [cachedDataVersion EXCEPT ![p] = @ + 1]
      BY <1>4 DEF DbClose, Create
    <2>3. cachedDataVersion' \in [Procs -> Nat]
      BY <2>1
    <2>4. revalidated' \in [Procs -> SUBSET Keys]
      BY <1>4 DEF DbClose, Create
    <2>2. /\ largeCachedData' = [largeCachedData EXCEPT ![p] = Empty]
          /\ foreign' = [foreign EXCEPT ![p] = {}] /\ UNCHANGED noted
      BY <1>4 DEF DbClose, Create
    <2> QED
      BY <2>2, <2>3, <2>4, EmptiedTyped
  <1>5. CASE GetVersion(p) \/ GetAllVersion(p)
    BY <1>1, <1>5 DEF GetVersion, GetAllVersion, NoteVersion, Cached
  <1>6. CASE KvGet(p) \/ KvFilter(p)
    BY <1>1, <1>6, CacheReadTyped DEF KvGet, KvFilter, LocalsTyped
  <1>7. CASE KvPut(p) \/ KvDel(p)
    <2>1. \/ UNCHANGED cachedDataVersion
          \/ cachedDataVersion' = [cachedDataVersion EXCEPT ![p] = @ + 1]
      BY <1>7 DEF KvPut, KvDel
    <2>3. cachedDataVersion' \in [Procs -> Nat]
      BY <2>1
    <2>2. /\ ChangedBy(p, key[p]) /\ UNCHANGED noted /\ key[p] \in Keys
          /\ \E v \in Maybe(LargeValues) :
                 largeCachedData' = [largeCachedData EXCEPT ![p][key[p]] = v]
      BY <1>7 DEF KvPut, KvDel, LocalsTyped, Maybe
    <2> QED
      BY <2>2, <2>3, ChangedTyped
  <1>8. CASE OpenDb(p) \/ Repaired(p) \/ RepairBusy(p) \/ RepairFailed(p) \/ InitCreate(p)
               \/ Preload(p) \/ Close(p)
    BY <1>1, <1>8 DEF OpenDb, Repaired, RepairBusy, RepairFailed, InitCreate, Preload, Close
  <1>9. CASE Get(p) \/ GetAll(p) \/ UndefinedTable(p) \/ CreateInLoop(p) \/ Put(p) \/ Delete(p)
    BY <1>1, <1>9 DEF Get, GetAll, Begin, UndefinedTable, CreateInLoop, Put, Delete, BeginWrite
  <1>10. CASE KvDelNoData(p) \/ Clear(p) \/ DropUndefined(p) \/ CallFails(p) \/ OpenFails(p)
    BY <1>1, <1>10 DEF KvDelNoData, Clear, Begin, DropUndefined, CallFails, OpenFails
  <1> QED
    BY <1>2, <1>3, <1>4, <1>5, <1>6, <1>7, <1>8, <1>9, <1>10 DEF Step

\* Every action leaves the instance open, opening or neither.
LEMMA StepPhases ==
  ASSUME TypeInv, NEW p \in Procs, Step(p)
  PROVE  Phases'
  <1> USE DEF TypeInv, Phases, LocalsTyped, instanceVars, cacheVars, localVars, Goto
  <1>1. ASSUME UNCHANGED <<open, handle, largeCachedData, missing>>,
               NEW label \in Labels, pc' = [pc EXCEPT ![p] = label],
               label \in Opening <=> pc[p] \in Opening,
               label \notin Opening \cup {"idle"} => p \in open
        PROVE  Phases'
    BY <1>1
  <1>2. CASE Open(p)
    BY <1>2 DEF Open, CacheTyped, Opening
  <1>3. CASE OpenDb(p) \/ Rebuild(p) \/ OpenFails(p)
    BY <1>3 DEF OpenDb, Rebuild, OpenFails, Return, Opening
  <1>4. CASE Preload(p)
    BY <1>4 DEF Preload, Return, Opening
  <1>5. CASE DbClose(p)
    BY <1>5 DEF DbClose, Return, Opening, CacheTyped
  <1>6. CASE Repaired(p) \/ RepairBusy(p) \/ RepairFailed(p) \/ InitCreate(p)
    BY <1>6 DEF Repaired, RepairBusy, RepairFailed, InitCreate, Opening
  <1>7. CASE Close(p) \/ Get(p) \/ GetAll(p) \/ Put(p) \/ Delete(p) \/ Clear(p)
    BY <1>7 DEF Close, Get, GetAll, Put, Delete, Clear, Begin, BeginWrite, Opening
  <1>8. CASE GetVersion(p) \/ GetAllVersion(p) \/ UndefinedTable(p) \/ CreateInLoop(p)
    <2>1. CASE GetVersion(p)
      BY <2>1 DEF GetVersion, NoteVersion, Return, Opening
    <2>2. CASE GetAllVersion(p)
      BY <2>2 DEF GetAllVersion, NoteVersion, Opening
    <2>3. CASE UndefinedTable(p)
      BY <2>3 DEF UndefinedTable, InLoop, Opening
    <2>4. CASE CreateInLoop(p)
      BY <2>4 DEF CreateInLoop, Return, Opening
    <2> QED
      BY <1>8, <2>1, <2>2, <2>3, <2>4
  <1>9. CASE KvGet(p) \/ KvFilter(p)
    BY <1>9 DEF KvGet, KvFilter, CacheRead, Return, Opening, CacheTyped
  <1>10. CASE KvPut(p) \/ KvDel(p) \/ Create(p)
    BY <1>10 DEF KvPut, KvDel, Create, Return, Opening, CacheTyped
  <1>11. CASE KvDelNoData(p) \/ Drop(p) \/ DropUndefined(p) \/ CallFails(p)
    BY <1>11 DEF KvDelNoData, Drop, DropUndefined, CallFails, Return, Opening
  <1> QED
    BY <1>2, <1>3, <1>4, <1>5, <1>6, <1>7, <1>8, <1>9, <1>10, <1>11 DEF Step

\* The types are an invariant.
LEMMA StepType == TypeInv /\ [Next]_vars => TypeInv'
  <1>1. ASSUME TypeInv, NEW p \in Procs, Step(p) PROVE TypeInv'
    BY <1>1, StepLocals, StepDb, StepCacheTyped, StepPhases DEF TypeInv, DbTyped
  <1>2. ASSUME TypeInv, UNCHANGED vars PROVE TypeInv'
    BY <1>2 DEF TypeInv, DbTyped, LocalsTyped, CacheTyped, BoundsTyped, Phases, Cached, vars,
         dbVars, instanceVars, cacheVars, localVars, staleVars, boundVars
  <1> QED
    BY <1>1, <1>2 DEF Next

\* Every variable keeps its type; an open instance has a handle, a handle belongs to an
\* instance that is open or opening, and only cached entries of open instances are outdated
\* (preferences_enhance_impl.cpp:48-63, 351-365).
THEOREM TypeCorrect == Spec => []TypeOK
  <1>1. ASSUME Phases, NEW p \in Procs, p \notin open PROVE Cached(p) = {}
    BY <1>1 DEF Phases, Cached, Stored, Empty
  <1>2. TypeInv => TypeOK
    BY <1>1 DEF TypeInv, TypeOK, DbTyped, LocalsTyped, CacheTyped, BoundsTyped, Phases
  <1> QED
    BY <1>2, InitType, StepType, PTL DEF Spec

-----------------------------------------------------------------------------
(***************************************************************************)
(* The cache                                                               *)
(***************************************************************************)

CurrentInv == TypeInv /\ CacheCurrent

\* Reading makes entries current.
LEMMA CacheReadCurrent ==
  ASSUME CurrentInv, NEW p \in Procs, NEW S \in SUBSET Keys, CacheRead(p, S), UNCHANGED data
  PROVE  CacheCurrent'
  <1> USE DEF CurrentInv, TypeInv, CacheTyped, CacheRead, CacheCurrent, Cached, Stored
  <1> SUFFICES ASSUME NEW q \in Procs, NEW k \in Keys, largeCachedData'[q][k] # NoValue,
                      k \notin foreign'[q]
               PROVE  largeCachedData'[q][k] = data[k]
    OBVIOUS
  <1>1. CASE q # p
    BY <1>1
  <1>2. CASE q = p /\ k \in S /\ data[k] \in LargeValues
    BY <1>2
  <1>3. CASE q = p /\ ~ (k \in S /\ data[k] \in LargeValues)
    BY <1>3
  <1> QED
    BY <1>1, <1>2, <1>3

\* An own change of k keeps the other entries, and the caches of the others disown theirs.
LEMMA ChangedCurrent ==
  ASSUME CurrentInv, NEW p \in Procs, NEW k \in Keys, ChangedBy(p, k),
         NEW v \in Maybe(Values), data' = [data EXCEPT ![k] = v],
         NEW w \in {v, NoValue}, largeCachedData' = [largeCachedData EXCEPT ![p][k] = w]
  PROVE  CacheCurrent'
  <1> USE DEF CurrentInv, TypeInv, CacheTyped, DbTyped, CacheCurrent, Cached, Stored, ChangedBy,
              Disown
  <1> SUFFICES ASSUME NEW q \in Procs, NEW j \in Keys, largeCachedData'[q][j] # NoValue,
                      j \notin foreign'[q]
               PROVE  largeCachedData'[q][j] = data'[j]
    OBVIOUS
  <1>1. CASE q # p
    BY <1>1
  <1>2. CASE q = p /\ j = k
    BY <1>2
  <1>3. CASE q = p /\ j # k
    BY <1>3
  <1> QED
    BY <1>1, <1>2, <1>3

\* Every action keeps the entries of the cache current, or knows better.
LEMMA StepCurrent == CurrentInv /\ [Next]_vars => CurrentInv'
  <1> SUFFICES ASSUME CurrentInv, [Next]_vars PROVE CacheCurrent'
    BY StepType DEF CurrentInv
  <1> USE DEF CurrentInv, dbVars, cacheVars, staleVars
  <1>1. CASE UNCHANGED <<data, largeCachedData, foreign>>
    BY <1>1 DEF CacheCurrent, Cached
  <1>2. ASSUME NEW p \in Procs, Step(p) PROVE CacheCurrent'
    <2>1. CASE Open(p)
      <3>1. largeCachedData' = largeCachedData
        BY <2>1 DEF Open, Phases, TypeInv, CacheTyped
      <3> QED
        BY <1>1, <2>1, <3>1 DEF Open
    <2>2. CASE Rebuild(p)
      BY <1>1, <2>2 DEF Rebuild, CacheCurrent, Disown, Cached, Stored
    <2>3. CASE Drop(p)
      BY <2>3 DEF Drop, CacheCurrent, Disown, Cached, Stored, Empty
    <2>4. CASE DbClose(p) \/ Create(p)
      <3>1. /\ largeCachedData' = [largeCachedData EXCEPT ![p] = Empty]
            /\ foreign' = [foreign EXCEPT ![p] = {}] /\ UNCHANGED data
        BY <2>4 DEF DbClose, Create
      <3> QED
        BY <3>1 DEF CacheCurrent, Cached, Stored, Empty, TypeInv, CacheTyped
    <2>5. CASE KvGet(p) \/ KvFilter(p)
      BY <1>1, <2>5, CacheReadCurrent DEF KvGet, KvFilter, TypeInv, LocalsTyped
    <2>6. CASE KvPut(p)
      BY <2>6, ChangedCurrent DEF KvPut, TypeInv, LocalsTyped
    <2>7. CASE KvDel(p)
      BY <2>7, ChangedCurrent DEF KvDel, TypeInv, LocalsTyped, Maybe
    <2>8. CASE OpenDb(p) \/ Repaired(p) \/ RepairBusy(p) \/ RepairFailed(p) \/ InitCreate(p)
                 \/ Preload(p) \/ Close(p)
      BY <1>1, <2>8 DEF OpenDb, Repaired, RepairBusy, RepairFailed, InitCreate, Preload, Close
    <2>9. CASE Get(p) \/ GetAll(p) \/ GetVersion(p) \/ GetAllVersion(p) \/ UndefinedTable(p)
                 \/ CreateInLoop(p)
      BY <1>1, <2>9 DEF Get, GetAll, Begin, GetVersion, GetAllVersion, NoteVersion,
           UndefinedTable, CreateInLoop
    <2>10. CASE Put(p) \/ Delete(p) \/ KvDelNoData(p) \/ Clear(p) \/ DropUndefined(p)
                  \/ CallFails(p) \/ OpenFails(p)
      BY <1>1, <2>10 DEF Put, Delete, BeginWrite, KvDelNoData, Clear, Begin, DropUndefined,
           CallFails, OpenFails
    <2> QED
      BY <1>2, <2>1, <2>2, <2>3, <2>4, <2>5, <2>6, <2>7, <2>8, <2>9, <2>10 DEF Step
  <1>3. CASE UNCHANGED vars
    BY <1>1, <1>3 DEF vars
  <1> QED
    BY <1>2, <1>3 DEF Next

\* At first nothing is cached.
LEMMA InitCurrent == Init => CurrentInv
  BY InitType DEF Init, CurrentInv, CacheCurrent, Cached, Stored, Empty

\* The own writes of an instance never leave an outdated entry in its cache, whatever
\* library calls fail (preferences_enhance_impl.cpp:182-190, 218-222, 346).
THEOREM CacheCurrentHolds == Spec => []CacheCurrent
  <1>1. CurrentInv => CacheCurrent
    BY DEF CurrentInv
  <1> QED
    BY <1>1, InitCurrent, StepCurrent, PTL DEF Spec

-----------------------------------------------------------------------------
(***************************************************************************)
(* The open                                                                *)
(***************************************************************************)

\* A damaged database has no handle.
DamageUnused == damage # "none" => handle = {}

\* An open past OpenDb finds the database whole; one open fails at most, and after it the
\* database is whole for good.
FailedOnce ==
    \A p \in Procs :
        /\ pc[p] \in {"initCreate", "preload"} => damage = "none"
        /\ failedOpens[p] # 0 =>
               /\ failedOpens[p] = 1
               /\ damage = "none"
               /\ pc[p] \notin {"repair", "rebuild"}
               /\ pc[p] \in {"initCreate", "preload"} => p \in handle

OpenInv == TypeInv /\ DamageUnused /\ FailedOnce

\* At first nobody has tried to open.
LEMMA InitOpen == Init => OpenInv
  BY InitType DEF Init, OpenInv, DamageUnused, FailedOnce

\* Every action of an open repairs or rebuilds before it counts a failure.
LEMMA StepOpen == OpenInv /\ [Next]_vars => OpenInv'
  <1> SUFFICES ASSUME OpenInv, [Next]_vars PROVE DamageUnused' /\ FailedOnce'
    BY StepType DEF OpenInv
  <1> USE DEF OpenInv, DamageUnused, dbVars, instanceVars
  <1>1. TypeInv /\ pc \in [Procs -> Labels] /\ failedOpens \in [Procs -> Nat]
    BY DEF TypeInv, LocalsTyped, BoundsTyped
  <1>2. ASSUME UNCHANGED <<damage, failedOpens>>, handle' = handle, NEW p \in Procs,
               NEW label \in Labels \ {"repair", "rebuild", "initCreate", "preload"},
               pc' = [pc EXCEPT ![p] = label]
        PROVE  DamageUnused' /\ FailedOnce'
    BY <1>1, <1>2 DEF FailedOnce
  <1>3. ASSUME UNCHANGED <<damage, failedOpens, handle, pc>> PROVE DamageUnused' /\ FailedOnce'
    BY <1>3 DEF FailedOnce
  <1>4. ASSUME NEW p \in Procs, Step(p) PROVE DamageUnused' /\ FailedOnce'
    <2> USE DEF Goto, Return
    <2>1. CASE OpenDb(p)
      BY <1>1, <2>1 DEF OpenDb, FailedOnce
    <2>2. CASE Repaired(p)
      BY <1>1, <2>2 DEF Repaired, FailedOnce
    <2>3. CASE RepairBusy(p) \/ RepairFailed(p)
      BY <1>1, <2>3 DEF RepairBusy, RepairFailed, FailedOnce
    <2>4. CASE Rebuild(p)
      BY <1>1, <2>4 DEF Rebuild, FailedOnce
    <2>5. CASE InitCreate(p)
      BY <1>1, <2>5 DEF InitCreate, FailedOnce
    <2>6. CASE Preload(p)
      BY <1>1, <2>6 DEF Preload, FailedOnce
    <2>7. CASE DbClose(p)
      BY <1>1, <2>7 DEF DbClose, FailedOnce
    <2>8. CASE OpenFails(p)
      BY <1>1, <2>8 DEF OpenFails, FailedOnce
    <2>9. CASE Open(p) \/ Close(p) \/ Get(p) \/ GetAll(p) \/ Put(p) \/ Delete(p) \/ Clear(p)
      BY <1>2, <2>9 DEF Open, Close, Get, GetAll, Put, Delete, Clear, Begin, BeginWrite, Labels,
           Opening, InLoop
    <2>10. CASE GetVersion(p) \/ GetAllVersion(p) \/ UndefinedTable(p) \/ CreateInLoop(p)
      BY <1>2, <1>3, <2>10 DEF GetVersion, GetAllVersion, NoteVersion, UndefinedTable,
           CreateInLoop, Labels, Opening, InLoop
    <2>11. CASE KvGet(p) \/ KvFilter(p) \/ KvPut(p) \/ KvDel(p) \/ KvDelNoData(p)
      BY <1>2, <2>11 DEF KvGet, KvFilter, KvPut, KvDel, KvDelNoData, Labels, Opening
    <2>12. CASE Drop(p) \/ DropUndefined(p) \/ Create(p) \/ CallFails(p)
      BY <1>2, <2>12 DEF Drop, DropUndefined, Create, CallFails, Labels, Opening
    <2> QED
      BY <1>4, <2>1, <2>2, <2>3, <2>4, <2>5, <2>6, <2>7, <2>8, <2>9, <2>10, <2>11, <2>12
      DEF Step
  <1>5. CASE UNCHANGED vars
    BY <1>3, <1>5 DEF vars
  <1> QED
    BY <1>4, <1>5 DEF Next

\* A damaged database costs an instance at most one failed open
\* (preferences_db_adapter.cpp:258-334).
THEOREM OpensAgainHolds == Spec => []OpensAgain
  <1>1. OpenInv => OpensAgain
    BY DEF OpenInv, FailedOnce, OpensAgain, TypeInv, BoundsTyped
  <1> QED
    BY <1>1, InitOpen, StepOpen, PTL DEF Spec

-----------------------------------------------------------------------------
(***************************************************************************)
(* The versions                                                            *)
(***************************************************************************)

Reading == {"get", "all", "clearAll"}

\* The noted version is one the database has had, and while it has it, what is outdated in
\* the cache was declared current by a read; the same for a version read by a call that
\* has not finished.
VersionsBehind ==
    \A p \in Procs :
        /\ p \in open =>
               /\ cachedDataVersion[p] <= version
               /\ cachedDataVersion[p] = version => foreign[p] \subseteq revalidated[p]
        /\ pc[p] \in Opening => cachedDataVersion[p] = 0
        /\ pc[p] = "create" => cachedDataVersion[p] < version
        /\ pc[p] \in Reading =>
               /\ kernelDataVersion[p] <= version
               /\ kernelDataVersion[p] = version => foreign[p] \subseteq noted[p]

VersionInv == CurrentInv /\ OpenInv /\ VersionsBehind

\* At first nothing is open.
LEMMA InitVersion == Init => VersionInv
  BY InitCurrent, InitOpen DEF Init, VersionInv, VersionsBehind, Opening, Reading

\* A change of the database leaves every noted version behind, but for the one of the
\* process that made the change and counts along.
LEMMA ChangedBehind ==
  ASSUME VersionInv, TypeInv', NEW p \in Procs, version' = version + 1, UNCHANGED open,
         NEW label \in {"idle", "create"}, pc' = [pc EXCEPT ![p] = label], p \in open,
         \A q \in Procs \ {p} : /\ cachedDataVersion'[q] = cachedDataVersion[q]
                                /\ kernelDataVersion'[q] = kernelDataVersion[q],
         \/ cachedDataVersion'[p] = cachedDataVersion[p]
         \/ /\ cachedDataVersion'[p] = cachedDataVersion[p] + 1
            /\ label = "idle"
            /\ \E k \in Keys : /\ foreign'[p] = foreign[p] \ {k}
                               /\ revalidated'[p] = revalidated[p] \ {k}
  PROVE  VersionsBehind'
  <1> USE DEF VersionInv, CurrentInv, TypeInv, LocalsTyped, CacheTyped, DbTyped
  <1> SUFFICES ASSUME NEW q \in Procs
               PROVE
        /\ q \in open =>
               /\ cachedDataVersion'[q] <= version'
               /\ cachedDataVersion'[q] = version' => foreign'[q] \subseteq revalidated'[q]
        /\ pc'[q] \in Opening => cachedDataVersion'[q] = 0
        /\ pc'[q] = "create" => cachedDataVersion'[q] < version'
        /\ pc'[q] \in Reading =>
               /\ kernelDataVersion'[q] <= version'
               /\ kernelDataVersion'[q] = version' => foreign'[q] \subseteq noted'[q]
    BY DEF VersionsBehind
  <1>1. CASE q # p
    BY <1>1 DEF VersionsBehind, Phases, Opening, Reading
  <1>2. CASE q = p
    <2>1. /\ pc'[p] \in {"idle", "create"} /\ pc'[p] \notin Opening /\ pc'[p] \notin Reading
          /\ cachedDataVersion[p] \in Nat /\ version \in Nat
          /\ cachedDataVersion[p] <= version
      BY DEF VersionsBehind, Opening, Reading
    <2>2. CASE cachedDataVersion'[p] = cachedDataVersion[p]
      BY <1>2, <2>1, <2>2
    <2>3. CASE cachedDataVersion'[p] = cachedDataVersion[p] + 1 /\ label = "idle"
      <3>1. cachedDataVersion'[p] # cachedDataVersion[p]
        BY <2>1, <2>3
      <3>2. foreign[p] \subseteq revalidated[p] => foreign'[p] \subseteq revalidated'[p]
        BY <3>1
      <3>3. cachedDataVersion'[p] = version' => cachedDataVersion[p] = version
        <4> HIDE DEF VersionInv, TypeInv
        <4>1. \A a, b \in Nat : a + 1 = b + 1 => a = b
          OBVIOUS
        <4> QED
          BY <2>1, <2>3, <4>1
      <3>4. cachedDataVersion'[p] = version' => foreign'[p] \subseteq revalidated'[p]
        BY <3>2, <3>3 DEF VersionsBehind
      <3>5. cachedDataVersion'[p] <= version' /\ pc'[p] = "idle"
        BY <2>1, <2>3
      <3> QED
        BY <1>2, <2>1, <3>4, <3>5
    <2> QED
      BY <2>2, <2>3
  <1> QED
    BY <1>1, <1>2

\* Every action keeps the noted versions behind.
LEMMA StepVersion == VersionInv /\ [Next]_vars => VersionInv'
  <1> SUFFICES ASSUME VersionInv, [Next]_vars PROVE VersionsBehind'
    BY StepCurrent, StepOpen DEF VersionInv
  <1>1. TypeInv /\ TypeInv'
    BY StepType DEF VersionInv, CurrentInv
  <1>2. /\ pc \in [Procs -> Labels] /\ kernelDataVersion \in [Procs -> Nat]
        /\ cachedDataVersion \in [Procs -> Nat] /\ version \in Nat
    BY <1>1 DEF TypeInv, LocalsTyped, CacheTyped, DbTyped
  <1> USE DEF dbVars, instanceVars, cacheVars, staleVars, localVars, Goto
  <1>3. ASSUME UNCHANGED <<version, open, cachedDataVersion, foreign, revalidated, noted>>,
               NEW p \in Procs, NEW label \in Labels, pc' = [pc EXCEPT ![p] = label],
               label # "create", label \in Opening => pc[p] \in Opening,
               label \in Reading => pc[p] = label,
               label = "idle" \/ UNCHANGED kernelDataVersion,
               \A q \in Procs \ {p} : kernelDataVersion'[q] = kernelDataVersion[q]
        PROVE  VersionsBehind'
    <2>1. ASSUME NEW q \in Procs
          PROVE  /\ pc'[q] \in Opening => pc[q] \in Opening
                 /\ pc'[q] = "create" => pc[q] = "create"
                 /\ pc'[q] \in Reading => /\ pc[q] \in Reading
                                          /\ kernelDataVersion'[q] = kernelDataVersion[q]
      BY <1>2, <1>3, <2>1 DEF Reading
    <2> QED
      BY <1>3, <2>1 DEF VersionInv, VersionsBehind
  <1>4. ASSUME NEW p \in Procs, Return(p)
        PROVE  /\ pc' = [pc EXCEPT ![p] = "idle"] /\ "idle" \in Labels
               /\ \A q \in Procs \ {p} : kernelDataVersion'[q] = kernelDataVersion[q]
    BY <1>2, <1>4 DEF Return, Labels
  <1>5. ASSUME UNCHANGED <<version, open, cachedDataVersion, foreign, revalidated, noted, pc,
                           kernelDataVersion>>
        PROVE  VersionsBehind'
    BY <1>5 DEF VersionInv, VersionsBehind
  <1>6. ASSUME NEW p \in Procs, Step(p) PROVE VersionsBehind'
    <2>1. CASE Open(p)
      BY <1>1, <1>2, <2>1 DEF Open, VersionInv, VersionsBehind, Opening, Reading, TypeInv, Phases
    <2>2. CASE Rebuild(p)
      <3>1. CASE damage = "none"
        BY <1>3, <2>2, <3>1 DEF Rebuild, Opening, Labels, Reading
      <3>2. CASE damage # "none"
        <4>1. open' = {}
          BY <1>1, <2>2, <3>2 DEF Rebuild, VersionInv, OpenInv, DamageUnused, TypeInv, Phases
        <4>2. \A q \in Procs : pc'[q] \in Opening \cup {"idle"}
          BY <1>1, <4>1 DEF TypeInv, Phases
        <4> QED
          BY <1>1, <1>2, <2>2, <4>1, <4>2
          DEF Rebuild, VersionInv, VersionsBehind, Opening, Reading
      <3> QED
        BY <3>1, <3>2
    <2>3. CASE Preload(p)
      <3>1. Cached(p) = {}
        BY <1>1, <2>3 DEF Preload, TypeInv, Phases, Opening, Cached, Stored, Empty
      <3>2. foreign[p] = {}
        BY <1>1, <3>1 DEF TypeInv, CacheTyped
      <3> QED
        BY <1>2, <1>4, <2>3, <3>2 DEF Preload, VersionInv, VersionsBehind, Opening, Reading
    <2>4. CASE DbClose(p)
      BY <1>1, <1>2, <1>4, <2>4 DEF DbClose, VersionInv, VersionsBehind, Opening, Reading,
           TypeInv, CacheTyped
    <2>5. ASSUME NEW label \in Reading, NoteVersion(p, label) PROVE VersionsBehind'
      BY <1>1, <1>2, <2>5 DEF NoteVersion, VersionInv, VersionsBehind, Opening, Reading,
           TypeInv, CacheTyped
    <2>6. CASE GetVersion(p) \/ GetAllVersion(p)
      BY <1>3, <1>4, <2>5, <2>6 DEF GetVersion, GetAllVersion, Reading, Opening
    <2>7. ASSUME NEW S \in SUBSET Keys, CacheRead(p, S), pc[p] \in Reading, UNCHANGED noted,
                 UNCHANGED <<version, open>>, NEW label \in {"idle", "drop"},
                 pc' = [pc EXCEPT ![p] = label],
                 \A q \in Procs \ {p} : kernelDataVersion'[q] = kernelDataVersion[q]
          PROVE  VersionsBehind'
      BY <1>1, <1>2, <2>7 DEF CacheRead, VersionInv, VersionsBehind, Opening, Reading,
           TypeInv, CacheTyped
    <2>8. CASE KvGet(p) \/ KvFilter(p)
      BY <1>1, <1>3, <1>4, <2>7, <2>8 DEF KvGet, KvFilter, Reading, Opening, TypeInv, LocalsTyped
    <2>9. CASE KvPut(p) \/ KvDel(p)
      <3>1. /\ version' = version + 1 /\ UNCHANGED open
            /\ ChangedBy(p, key[p]) /\ key[p] \in Keys
            /\ \/ UNCHANGED cachedDataVersion
               \/ cachedDataVersion' = [cachedDataVersion EXCEPT ![p] = @ + 1]
        BY <1>1, <1>2, <2>9 DEF KvPut, KvDel, TypeInv, LocalsTyped
      <3>2. p \in open
        BY <1>1, <2>9 DEF KvPut, KvDel, TypeInv, Phases, Opening
      <3>3. Return(p)
        BY <2>9 DEF KvPut, KvDel
      <3>4. foreign'[p] = foreign[p] \ {key[p]} /\ revalidated'[p] = revalidated[p] \ {key[p]}
        BY <3>1 DEF ChangedBy
      <3> QED
        BY <1>1, <1>2, <1>4, <3>1, <3>2, <3>3, <3>4, ChangedBehind
    <2>10. CASE Drop(p)
      <3>1. p \in open
        BY <1>1, <2>10 DEF Drop, TypeInv, Phases, Opening
      <3> QED
        BY <1>1, <2>10, <3>1, ChangedBehind DEF Drop
    <2>11. CASE Create(p)
      BY <1>1, <1>2, <1>4, <2>11 DEF Create, VersionInv, VersionsBehind, Opening, Reading,
           TypeInv, CacheTyped
    <2>12. CASE OpenDb(p) \/ Repaired(p) \/ RepairBusy(p) \/ RepairFailed(p) \/ InitCreate(p)
      BY <1>3, <2>12 DEF OpenDb, Repaired, RepairBusy, RepairFailed, InitCreate, Opening, Labels,
           Reading
    <2>13. CASE Close(p) \/ Get(p) \/ GetAll(p) \/ Put(p) \/ Delete(p) \/ Clear(p)
      BY <1>3, <2>13 DEF Close, Get, GetAll, Put, Delete, Clear, Begin, BeginWrite, Opening,
           Labels, InLoop, Reading
    <2>14. CASE UndefinedTable(p) \/ CreateInLoop(p)
      BY <1>3, <1>4, <1>5, <2>14 DEF UndefinedTable, CreateInLoop, Opening, Reading
    <2>15. CASE KvDelNoData(p) \/ DropUndefined(p) \/ CallFails(p) \/ OpenFails(p)
      BY <1>3, <1>4, <2>15 DEF KvDelNoData, DropUndefined, CallFails, OpenFails, Opening,
           Labels, Reading
    <2> QED
      BY <1>6, <2>1, <2>2, <2>3, <2>4, <2>6, <2>8, <2>9, <2>10, <2>11, <2>12, <2>13, <2>14,
         <2>15
      DEF Step
  <1>7. CASE UNCHANGED vars
    BY <1>5, <1>7 DEF vars
  <1> QED
    BY <1>6, <1>7 DEF Next

\* While the database has the version an instance has noted, every cached value is the
\* stored one, except those a later read has declared current
\* (preferences_enhance_impl.cpp:81-86, 103, 262).
THEOREM VersionGuardsHolds == Spec => []VersionGuards
  <1>1. VersionInv => VersionGuards
    BY DEF VersionInv, CurrentInv, CacheCurrent, VersionsBehind, VersionGuards, TypeInv, Phases
  <1> QED
    BY <1>1, InitVersion, StepVersion, PTL DEF Spec
=============================================================================
