# Verification of distributeddatamgr_preferences

TLA+ specifications of the preferences component of OpenHarmony: a key-value
store that an application keeps in memory and in one small XML file (or in a
GSKV database).  The source paths below are relative to the repository.

## 1. The system

| Part | State it keeps | Operations | How it interacts |
| --- | --- | --- | --- |
| `PreferencesImpl` (`frameworks/native/src/preferences_impl.cpp`) | `valuesCache_`, `modifiedKeys_`, `isCleared_`, `loaded_`, `loadResult_`, `isNeverUnlock_`, the one-slot `queue_`, `mutex_`, `cacheMutex_`, `cond_` | `LoadFromDisk`, `Get`/`GetAll`/`HasKey`, `Put`, `Delete`, `Clear`, `Flush`, `FlushSync`, `WriteToDiskFile` | client threads, the load task and the delayed flush task share it; reads and writes the XML file; calls observers |
| XML file (`preferences_xml_utils.cpp`) | the file, `.bak`, `.broken` | `SaveXmlFile`, `XmlReadFile`, `RenameFromBackupFile` | called by every process that uses the file, under `PreferencesFileLock` |
| `PreferencesFileLock` (`platform/src/preferences_file_lock.cpp`) | one mutex per path, the `fcntl` lock of `.lock` | `ReadLock`, `WriteLock`, destructor | processes and threads |
| `PreferencesHelper` (`preferences_helper.cpp`) | `prefsCache_` | `GetPreferences`, `DeletePreferences`, `RemovePreferencesFromCache` | creates, closes and drops instances; deletes their files |
| `PreferencesBase` (`preferences_base.cpp`) | `localObservers_`, `dataObserversMap_`, `multiProcessObservers_` | register, unregister | notified by a flush (XML) or after every change (GSKV) |
| `PreferencesEnhanceImpl`, `PreferencesDb` (`preferences_enhance_impl.cpp`, `platform/src/preferences_db_adapter.cpp`) | the database handle, `largeCachedData_`, `cachedDataVersion_` | the same interface, on a database that processes share | calls the GRD library; retries, repairs and rebuilds |
| `ExecutorPool`, `Executor`, `Pool`, `PriorityQueue` (`native/include`) | delayed tasks, idle and busy executors | `Schedule`, `Execute`, `Remove`, `Reset` | runs flushes and notifications on one thread |
| values (`preferences_value.cpp`, `preferences_value_parcel.cpp`, `base64_helper.cpp`, the conversions in `preferences_xml_utils.cpp`) | none | encode and decode | pure functions |
| bindings (`frameworks/ndk`, `js`, `cj`, `ets`) | handles and observers of a language runtime | convert and forward | call `PreferencesHelper` and `Preferences` |

What is hard here.  *Concurrency*: a cache under one lock, a file under
another, flags read under none, and a flush that is started by one thread and
run by another 100 ms later.  *Failure*: storage that is locked with the
screen, writes that fail in the middle, processes that are killed, power that
is lost.  *Sharing*: processes that use the same file under advisory locks.
*Ordering*: a load that is late, a flush that comes after a deletion.

What makes each part correct:

- `PreferencesImpl`: a client reads what was last put; a change that is flushed
  reaches the file; the file only ever becomes a snapshot of what clients saw; a
  file that has not been read is not overwritten; every call returns; observers
  are told exactly what was written.
- XML file: a saved document can be read back whatever fails after it; an older
  one never comes back; between two renames the only copy is not given up.
- file lock: a writer is alone.
- helper: one instance per path; a deleted file stays deleted.
- GSKV: a cached value is the one in the database.
- executor pool: tasks run one at a time and in order, none is left in the queue,
  and the destructor ends.
- observers: a subscription is lost to nobody else's call, a function is not
  called after it was withdrawn, and everybody subscribed is told.
- values: what is loaded is what was saved, or what the file can keep of it.

## 2. Modules

| Module | Models | Kind |
| --- | --- | --- |
| `PreferencesImpl` | one instance, client threads, load task, flush task, an observer, the file as a map | component |
| `PreferencesStore` | what the interface (`interfaces/inner_api/include/preferences.h`) promises | abstract specification |
| `MCPreferencesImpl` | symmetry for `PreferencesImpl` | model checking |
| `XmlFile` | the file, `.bak`, `.broken` and `.lock`, system call by system call, in processes that fail | component |
| `PreferencesEnhanceImpl` | the instances of several processes on one GSKV database | component |
| `PreferencesHelper` | the cache of instances, opening, deletion, and the NDK calls on top of them | composition of instances and files |
| `ExecutorPool` | the pool with one thread that preferences make | component |
| `Observers`, `MCObservers` | the lists of observers and their owners in JS, NDK and native code | composition of the lists, the notifier, the observer service and the JS queue |
| `ValueCodec`, `MCValueCodec` | values as XML elements and as blobs | algorithms |
| `PreferencesImplProofs`, `PreferencesStoreProofs` | theorems about `PreferencesImpl`, and that it implements `PreferencesStore` | proofs |
| `XmlFileProofs`, `PreferencesEnhanceImplProofs`, `PreferencesHelperProofs`, `ExecutorPoolProofs`, `ObserversProofs`, `ValueCodecProofs` | theorems about the module each is named after | proofs |

How they fit.  `PreferencesImpl` takes the pool to run one task at a time, in
order and some time later (`Executor` is one thread): that is what
`ExecutorPool` checks.  It takes a write of the file to succeed or to fail as a
whole, and `XmlFile` opens that step up.  `PreferencesHelper` takes loading and
saving as steps and looks at which instances are alive and what the files hold.
`PreferencesEnhanceImpl` and `PreferencesImpl` both hand their changes to
`Observers`.  `ValueCodec` is what `PreferencesImpl` and
`PreferencesEnhanceImpl` take for the identity on their model values.

Each module also holds *faulty variants* of some definitions, marked as such (or
as mutants): a plausible mistake in the code they model.  They are part of no
specification; substituted for the definition that follows them they show that a
property can fail.

### PreferencesImpl

State: the members of the class under their own names without the underscore;
`queue` is the number of tokens in `queue_`; `mutex` and `cacheMutex` name the
owner.  `pc`, `call`, `sawCleared` (the value of `isCleared_` that the owner of
`cacheMutex_` has read) and `keysModified`, `writeToDiskMap` are locals of
threads.  `file` is the map that the XML file decodes to; `storage` is what the
file system permits: `open`, `nokey` (the file can be seen but neither read nor
written, errno 126 and 128) and `hidden` (its directory cannot be accessed).
`observed` is what an observer of all keys has been told.  `writeFailed` is
history.  A map is a total function to `Values \cup {NoValue}`; the equality of
values that `Put` tests is the equality of the model.

Actions, in the order of the code:

- `LoadFromDisk` is the load task from the moment it has `mutex_`.
- `AwaitLoaded`, `AwaitNotLoaded`, `AwaitLock`, `WaitEnds`, `WaitTimesOut`,
  `AwaitPreLoad` are `AwaitLoadFile`, split at the unlocked test of `loaded_`, at
  the unlocked test of `loadResult_` in `PreLoad`, and at `wait_for`.
- `Get`, `Clear`, `LockCache` + `Put` or `Delete`: `Put` and `Delete` are split
  between the read of `isCleared_` and the change, because `Clear` takes no lock.
- `PushRefused`, `Flush`, `FlushSync`, `FlushTask`, `FlushCheck`, `FlushPreLoad`,
  `FlushLock`: the two ways to start a flush, and the common part up to the pop.
- `WriteSnapshot`, `WriteTake`, `WriteSucceeds`, `WriteFails`,
  `NotifyPreferencesObserver`: `WriteToDiskFile`, split where `cacheMutex_` is
  taken and released and around the write.
- `StorageChanges` is the environment: the screen is locked or unlocked.

Steps between which nothing that another thread reads or writes is touched are
one action.  The key and value checks at the entry of the calls, which only
return early, and logging are left out.  `Close` sets `isActive_`, which is read
for logging only.  The instance stays alive: a delayed flush finds it through a weak
pointer and does nothing if it has been released (`preferences_impl.cpp:364`), which
is left out, so `FlushTakesModified` is a promise to whoever keeps the instance.

### PreferencesStore and the refinement

The abstract store has what clients read, the saved copy and at most one
snapshot on its way to it.  Under the mapping at the end of `PreferencesImpl`, clients
read the cache, or nothing while `isCleared_` is set; saving begins when
`WriteToDiskFile` has read `isCleared_`.  That a lock-free `Clear` is then always
one atomic step of the store, though `Put` and `WriteToDiskFile` act on a flag
they have read earlier, is the interesting part of the refinement.

### XmlFile

State: `files` (a document, `Torn` or `NoFile` under each of three names),
`synced` (has it reached the medium), `lockFile`, and per process `pc`, `task`,
`doc`, the `fcntl` lock, the open descriptor (which follows its file when the
file is renamed) and `primed` (the process has read the file, or found none, so
that `PreLoad` lets a flush pass).  `acceptable` is history: the documents a
reader may find now.  `BeginSave` adds the new document to it, a save that
returns true narrows it to that document, one that returns false takes it out.

A save begins when `PreLoad` lets it pass: after the file has been read, or, in a
scenario with `lateLoad`, before.  `PreLoad` returns true as long as the load task has
not ended, and `AwaitLoadFile` waits no longer than `WAIT_TIME`.

Actions are system calls.  Faults are values of `AllFaults`; a *scenario* is a set of
tasks, faults and circumstances (`shared`: two processes; `cutShort`: an earlier save
left a torn file beside its `.bak`; `noLockFile`; `lateLoad`).  Each behaviour has one
scenario and at most `MaxFaults` faults of it.  Faults in `Unheeded` are the ones after
which the code goes on as if nothing had happened, or takes an I/O error for corruption;
the history variable `unheeded` records that one has occurred.

External assumptions: renames, creations and removals become durable in the
order in which they are made; contents become durable when `fsync` succeeds and
may be torn by a power loss before that; a lock goes with the process that holds
it.

### PreferencesEnhanceImpl

State: the database that processes share (`data`, whether the `collection`
exists, the data `version`, its `damage`), and per process the handle, the
`largeCachedData` with its `cachedDataVersion`, and the locals of the call it is
in.  `dbMutex_` admits one call per instance, so a process is in one call at
most; an action is one call of the GRD library together with the code up to the
next one, because another process can come between two of them.

Actions: `Open`, `OpenDb`, `Repaired`, `RepairBusy`, `RepairFailed`, `Rebuild`,
`InitCreate`, `Preload` are `Init` down to `PreferencesDb::Init`; `Get`,
`GetVersion`, `KvGet` and `GetAll`, `GetAllVersion`, `KvFilter` are the reads;
`Put`/`KvPut`, `Delete`/`KvDel`/`KvDelNoData`, `Clear`/`Drop`/`Create` the
writes; `UndefinedTable` and `CreateInLoop` the retry when the collection is not
there; `CallFails` and `OpenFails` any library call that fails; `Close` and
`DbClose` the close.

History: `foreign` are cached keys that were changed without this cache, `noted`
is its value when the version was read, `revalidated` are foreign keys that a
later read has nevertheless declared current, by setting `cachedDataVersion_`
for the whole cache when it has fetched one key.  That is a real weakness of the
code (listed as a hazard): `VersionGuards` says that it is the only one.

`GetAll` reads the database with one filter call and a loop over its results; the
model takes one snapshot for both, and leaves out a blob that cannot be unmarshalled,
which ends the loop with a part of the cache filled.

External: a library call is atomic; a put, a deletion of a stored key and a
dropped collection raise the version by one, which is what the code counts on; a
database is damaged only before it is first opened.

### PreferencesHelper

One path in one process.  `prefsCache` holds the cached instance; `active`, `loaded`,
`modified`, `pending` are sets of instances, `doc` is what each has in memory; `held` is
what a thread was given, which outlives the cache entry.  The contents of a file are
abstracted to their age: how many deletions were complete when the oldest of it was
stored.  That is enough to say that deleted data have come back.

Actions: `GetPreferences`, `GetPreferencesInner` (with `Chosen`, the choice of the
storage type), `InitInstance`, `InitFails`; `Load`, `Put`, `Flush`, `FlushTask`;
`RemovePreferencesFromCache`; `OH_Preferences_Close` with its flush and its
removal; `DeletePreferences` with `DeleteLock`, `RemoveXml`, `RemoveDb`,
`DeleteCheck`, which run outside `prefsCacheMutex_` as in the code.  A flush writes
what has been modified (`WriteToDiskFile`) and does not wait for the load, which may be
late.  The removal of a database may fail before the first file or between two, with
the database gone and a file beside it left.  A load that found no file is repeated
by `PreLoad` once there is one; that reload is in `PreferencesImpl` and left out here.

History: `during` are the instances made while a deletion was under way, and
`strayWrite` says that one of them, or one that had left the cache, has written.
The code does nothing against that (a hazard), so the promises about the files
are made up to that point.

### ExecutorPool

The pool as preferences make it, with `max` 1 and `min` 0: no `execs_`, one
`scheduler_`.  `epc` is where each executor is in `Run`; executors are made as
often as `Get(true)` makes them.  `clock` is the time in units of the delay of a
flush.  The two-second wait of an idle executor may end at any time (`Timeout`).

Actions: `Execute`, `ScheduleDelayed`, then `Push`, `Lock`, `Bind` are
`Schedule`; `Wake`, `Loop`, `Pop`, `Finish`, `Idle`, `Timeout`, `Release` are
`Executor::Run` with the callbacks of the pool; `Destroy`, `Clean`,
`TakeScheduler`, `Stop`, `Await`, `PoolClean` are the destructor.

`OrderlyExit` is an assumption about the end of the process: no `Schedule` is
under way when the destructor begins, and an executor does not time out between
its choice by `Pool::Clean` and its `Stop`.  With `OrderlyExit = FALSE` TLC
shows that the destructor then waits for an executor that has gone, and that a
late `Schedule` leaves an executor that uses the destroyed pool; both are listed
as hazards.

### Observers

An observer object is the number of its creation and `sub` tells whose it is.  The lists
of `PreferencesBase` are sets of such numbers: the code only appends new objects, so the
order of a list is that of the numbers.  They hold weak pointers: an object that nothing
owns (`Strong`) has expired though its entry is still there.  The owners are the JS
proxy (`proxy`), the NDK handle (`ndk`), a native caller (`native`), queued events, and
a thread that has locked its weak pointer and has not called `OnChange` yet (`held`,
action `Lock`): the owner may let the object go in between, and the function is called
nevertheless.  `leaving` is the proxy inside a loop that withdraws several callbacks
(`off` without a callback, and the destructor): `observerMutex_` is free between two
turns, and a notifier can come in.  `notify` is the notifier inside its loops with
`observerMutex_` shared, `announce` and `wire` the observer service, `uvQueue` the event
queue of the JS thread.  `OnChange` of a JS observer only posts an event, which holds
the object; it is one step with the lock of the weak pointer.

Actions: `on`, `off` and the destructor of the proxy (`RegisteredObserver`,
`RegisteredAlready`, `UnRegisteredObserver`; `UnRegisteredAllObservers`,
`UnRegisteredDataObserver` and `Destructor` begin a loop, `LoopTurn`, `DataTurn` and
`LoopEnd` are its steps); the four calls of the NDK, which may register no keys at all,
and `NdkClose`; `Subscribe`, `SubscribeMore` (keys for an observer that has some),
`Unsubscribe`, `UnsubscribeKeys`, `Release` of a native caller; `Lock`,
`StartNotify`, `NotifyData`, `NotifyLocal`, `NotifyEnd`, `NotifyChange`,
`OnChangePreferences` and `RunEvent`, from the change to the call of the
function.  `ServiceRefuses` is a failing registration.

History: `asked` is what each subscriber wants now, `owed` what it has not been
told yet, `unwanted` what it was told without wanting it.  Where the code does not keep
the promise, history says so:

- `ignored`: keys of a second `on('dataChange')` with a callback that has one already,
  which are not registered;
- `dropped`: an event that the JS queue refused, so that the callback never runs;
- `Mute`: a multi-process observer of the NDK, which dies when its registration returns
  and is never called;
- `excused`, the pairs of an object and a key that are told after they were withdrawn:
  an event is already queued for a callback that keeps other keys; the loop of the NDK's
  unregistration stops at the first object that has keys left; an unsubscribed entry is
  hidden by a dead one before it, because `UnRegisterObserver` removes the first of the
  two, or its change is already on the wire; a notifier has locked the observer when its
  owner lets it go (`NdkClose`, `Release`).

Each of these is a hazard.

### ValueCodec

The conversions as operators, and a system that saves and loads one value through the
file and the database in any order.  A character is a number (0 ends a C string), a byte
of Base64 is a number from 0 to 255, a real counts ten-millionths so that six decimals
lose a digit, a blob is a sequence of bytes of which the first of each field carries the
value.  `UINT64` and `INT32` are widths scaled down (65536 and 256); what matters is
that the sign of a `BigInt` goes through an unsigned word and a cast.  `IsValue` says
what each alternative of the variant may hold, and the values that are put are assumed
to be such values.  The size of a blob is a `uint32_t`: `Put` is modelled for values
whose size one can say (`Sizable`), below 4 GiB in the code.  External: libxml escapes
what has a meaning in XML and reads it back as it was, but it writes characters that XML
does not allow (`Refused`: controls, invalid UTF-8) and then refuses the whole file.  A
value with one of them, and a monostate, for which no element is written, are `Lost` by
a save and a load; of the others, `Reduced` is what the file keeps.  A key with such a
character is not modelled, nor is what the other keys of the file lose.  Whether
`operator>>` reads `inf` depends on the C++ library, so `readsInf` is chosen at the
start.

## 3. Runs

| Run | Instance | What it shows |
| --- | --- | --- |
| `impl_faults` | 2 clients, 1 key, 2 values, 3 calls of any kind; 1 storage change, 1 timeout, 1 failed write | `TypeOK`, with `LocksHeld`: each mutex is owned by exactly the thread that is where the code holds it; `OneFlushUnderWay`: at most one flush is between push and pop and its token is there; `DirtyTracked`: a cached value that is not in the file is marked for a write |
| `impl_quiet` | 2 clients, 2 keys, 1 value, 4 calls; 1 failed write | `ImplementsStore`, `TokenIsServed`, `ObserverInSync`, `NoBlindWrite` |
| `impl_live` | 2 clients, 4 calls, 1 failed write, fair scheduling | `CallsReturn`: every call returns; `FlushTakesModified`: a flush takes the modified keys |
| `impl_flush_sync` | 1 client, 1 value, 3 calls (`Flush`, `Put`, `FlushSync`), no fault | *violated* `FlushSyncSaves`: `FlushSync` answers `E_OK` though nothing is written, because an earlier `Flush` is pending |
| `impl_stuck_token` | `Put` and `Flush`, a storage without its key at first that is unlocked once, fair scheduling | *violated* `FlushTakesModified`: a flush given up by `PreLoad` leaves its token, and all later flushes are refused |
| `xml_file` | 4 documents, 3 faults of any kind; the 7 largest scenarios that are `Survivable`: six of one process (with kills, power losses or late loads, each with deletions or a `.bak` that cannot be removed), one of two processes with late loads | `TypeOK`; `Recoverable`: the last saved document can be read back; `OnlyCopyKept`: `.bak` is not given up while it is the only copy |
| `xml_two_readers` | 2 readers, a torn file and a good `.bak` | *violated* `SavedIsReadable`: the second reader moves the restored file away |
| `enhance` | 2 processes, 2 keys, a large and a small value, 6 calls, 1 failing library call, any damage | `CacheCurrent`: an instance's own writes never outdate its cache; `VersionGuards`: a cache hit is right; `OpensAgain`: damage costs one failed open |
| `helper` | 2 threads, 3 instances, 6 calls (open, put, flush, close, remove, delete), 1 failure | `CachedIsActive`: what is in the cache is the one open instance; `OneStorageType`; `DeletedStaysDeleted`; `CachedHasFile`: a database in use keeps its file |
| `executor_pool` | 2 threads, 3 tasks, clock up to 2, fair scheduling | `OneAtATime`, `OrderKept`, `NoneAfterDestroy`; `EveryTaskRuns`, `DestructorEnds` |
| `observers` | 2 keys, 2 callbacks, 1 NDK observer, 3 objects, 1 change, 1 fault, 7 mixes | `TypeOK`; `AskedIsRegistered`: nobody loses a subscription to another; `SilentAfterOff`; `HeardWhenQuiet`: everybody is told; each but for the cases named in section 2 |
| `value_codec` | values of every type: lengths to 4, numbers at the edges, a 0 character and a refused one | `TypeKept`: a value keeps its type or is gone, and only a `Lost` one is gone; `XmlKeeps`, `BlobExact`, `BlobFits` |

Bounds.  Three calls of two clients are a put, a flush and one more change at
any point of the flush; four let each client put and flush.  Two values tell an
overwrite from a repetition, two keys tell a clear from a deletion and let
`PutForgetsCleared` go wrong.  One fault of each kind is enough for each property
to meet it at every step; the calls after it are within the bound.  Four
documents are enough for three saves after the first, so that a stale `.bak` can
be two saves old; three faults let one hit a save, one its recovery and one the
next reader.  Six calls on a database are an open in each process and four reads
and writes: cache, foreign write, read of another key, read of the first.  Six
calls of the helper with three instances let a thread open, put, flush and remove while
the other deletes and opens again.  Three tasks are one that runs, one that finds
the executor going idle and one that finds it gone.  Three observer objects let an
entry be hidden behind a dead one with a third that must not suffer.  Byte arrays
up to four go once around the Base64 unit of three.

Why the scenarios of `xml_file` are apart.  The promise of `Recoverable` does not
survive all combinations of faults; `Survivable` says which it does, and the run has
every maximal one.  A process killed between write and `fsync`, a second save, and a
power loss during it leave no copy: the second save takes the file that never was synced
for its backup.  A save that does not wait for a late load has not restored anything: it
renames the torn file that an earlier save has left over the `.bak` that is the only
good copy, so a late load is apart from everything that cuts a save short (`cutShort`,
kills, power losses).  A `.bak` that could not be removed after a save is visible in the
middle of a later deletion.  Two processes rely on `.lock` and on a whole file: a save
cut short, now or before the start, leaves a torn file, and a second process that saves
over it, having read before, or that reads it at the same time, destroys the backup; a
process that starts before `.lock` exists, or after a deletion has removed it, or is
refused the lock, is not kept out.  Each exclusion is needed: with any of them lifted
TLC finds `Recoverable` violated.

Why `observers` has mixes.  A mix is a set of subscriptions that occur in one
behaviour.  Observers of different modes share no list, so a mix has owners of one mode:
for keys and for other processes, one JS callback with the NDK's, and the NDK's with a
native one; for local changes, all; and two JS callbacks for other processes.  One more
has a JS proxy with a callback for keys and one for local changes, for its destructor.
Keys are interchangeable, and symmetric.  No mix has two JS callbacks for keys, which
would double the run: the loop of `off('dataChange')` over several is left to the proof.

Deadlock checking is off where behaviours end because their calls, tasks or
conversions are bounded, or because nobody has to call: the system may stop.  For
`PreferencesImpl`, `CallsReturn` says that nobody is then stuck in a call; for the
pool `EveryTaskRuns` and `DestructorEnds` do.  `XmlFile` is checked for deadlock.

Fairness.  `FairSpec` of `PreferencesImpl` has weak fairness for the load task, the
pool's thread and each client inside a call: they are threads of a preemptive
scheduler, and a mutex that is free again and again is eventually had.  Nothing
forces a client to call, storage to change or a wait to time out.
`ExecutorPool` has weak fairness for the clock, for each thread inside
`Schedule`, for each executor and for the destructor once it has begun; nobody has
to schedule a task or to destroy the pool.

## 4. Proofs

Every theorem holds for all values of the constants: any processes, threads, keys,
documents, observers, calls and faults.  The assumptions are the ones the modules
state about their constants (threads are distinct, bounds are natural numbers, there
is a key), and the hypotheses named below.  Each proof has the same form: an inductive
invariant, one lemma for the initial states, lemmas for what an action does, one lemma
that every step keeps the invariant, and the theorem.

### PreferencesImplProofs

- `TypeCorrect`: `Spec => []TypeOK`, where `LocksHeld` names the owner of each mutex by
  where the threads are;
- `TokenProtocol`: `Spec => []OneFlushUnderWay`.  The invariant is inductive
  together with `TypeOK`: a flush comes to exist only when `queue` is 0, which
  means that none exists, and the token is taken only by the flush that owns it;
- `NoChangeForgotten`: `Spec => []DirtyTracked`.  `DirtyTracked` alone is not
  inductive: a write in progress may finish at any time.  The strengthening
  `TrackInv` adds who owns `mutex_` (`WriterOwnsMutex`: at most one thread is
  inside `WriteToDiskFile`, so that its locals are those of one write), that the
  locals are empty outside a write (`LocalsFresh`), that a key changed since the
  copy is marked again (`SinceSnapshot`), that after the write the file is the
  copy (`FileIsSnapshot`), and what holds before the load (`BeforeLoad`).

### PreferencesStoreProofs

These need quiet storage, `MaxStorageChanges = 0`, and all but the first a load that is
on time, `MaxTimeouts = 0`: the run `impl_stuck_token` shows the first to be necessary.
Writes may fail at any time.

- `TokenIsServedHolds`: the token on the strength of which a flush is refused has a
  flush that will serve it; a flush gives up only when `PreLoad` fails;
- `NoBlindWriteHolds`: `LoadInv` says that until the load task has run nothing is
  cached, no client is past `AwaitLoadFile` and no flush finds anything to write
  (`BeforeLoaded`), and that the load has read the file if there is one (`FileIsRead`);
- `ObserverInSyncHolds`: `SyncInv` adds that the copy differs from the file only in
  the keys of `keysModified` (`SnapshotBased`), and that the observer lacks only what
  the write under way will tell it (`ObserverTracked`);
- `ImplementsStoreHolds`: the refinement.  `RefineInv` adds that a thread between its
  read of `isCleared_` and its change owns `cacheMutex_` (`CacheOwners`), and that a
  clear it has seen is still in force (`SeenStands`): what it has read can become stale
  in one direction only.  Each action is then one abstract step or a stuttering step.

### XmlFileProofs

- `TypeCorrect`, for all scenarios;
- `RecoverableHolds` and `OnlyCopyKeptHolds`, with the hypothesis `SurvivableOnly`, that
  every scenario is `Survivable` (section 3 says why each of its exclusions is needed),
  for any number of faults.  `WorkInv` says who is at work: a process outside a shared
  scenario is alone, a write lock excludes, what a task may leave behind is acceptable
  from its beginning.  `FileInv` says, label by label, where the acceptable documents
  are (`Standing`), what `.bak` holds when nobody is at work, which copies are synced
  when power may be lost (`OldSynced`), and that a save writes to the main file
  (`WritesMain`); all but the last as long as no fault went unheeded.

### PreferencesEnhanceImplProofs

- `TypeCorrect`, where an open instance has a handle, a handle belongs to an instance that
  is open or opening, and only an open one has anything cached;
- `CacheCurrentHolds`: `CacheCurrent` is inductive with the types;
- `OpensAgainHolds`: a damaged database has no handle (`DamageUnused`), and after a
  failed open it is whole for good (`FailedOnce`);
- `VersionGuardsHolds`: while the database has the version a process has noted, what is
  outdated in its cache was declared current by a read, and the same holds for a version
  read by a call that has not finished (`VersionsBehind`).

### PreferencesHelperProofs

- `TypeCorrect`, with who is inside `prefsCacheMutex_` (`Entering`);
- `CachedIsActiveHolds` and `CachedHasFileHolds`: while files are being removed the
  cache holds at most an instance made meanwhile (`DeletionHides`);
- `OneStorageTypeHolds`: the storage type chosen still stands when the instance is
  made (`ChoiceStands`), and a cached XML instance has no database beside it
  (`CachedXmlAlone`);
- `DeletedStaysDeletedHolds`: what the cached instance has in memory, loaded or put, is
  as young as the last deletion (`CachedIsFresh`), and the database is gone when the
  deletion looks whether it is (`DbGone`).

### ExecutorPoolProofs

- `TypeCorrect`, for which an executor must be left whenever `Pool::Get` makes one:
  there are never more executors made than tasks served (`EnoughExecutors`);
- `OneAtATimeHolds`: an executor takes tasks only while it is bound, and only the
  `scheduler_` is (`BoundInv`);
- `NoneAfterDestroyHolds`: an executor that runs has its node in the pool, and the
  destructor ends with an empty pool (`HasNode`, `DoneEmpty`);
- `OrderKeptHolds`: in the queue a task is behind those given before it and due no
  later (`QueueOrder`), and one that is past `Push` is in the queue or started.

`OrderlyExit` is a constant, and the theorems hold for both of its values.

### ObserversProofs

`TypeCorrect`, `AskedIsRegisteredHolds`, `SilentAfterOffHolds` and `HeardWhenQuietHolds`
rest on one invariant.  `OwnerInv` relates each owner's list to the entries of
`PreferencesBase` and to what was asked (`JsEntries`, `NdkEntries`, `NativeEntries`),
also in the middle of a loop that withdraws callbacks one by one (`JsCleared`);
`InTransit` says that what is in the queue or on the wire was asked for or goes to a
cleared callback; `OwedInv` says that whoever is owed a call has a live observer about
to be told, or has lost its event (`dropped`).  The step that matters is
`EntryIsDeadOrOwn`: `UnRegisterObserver` may remove the wrong entry, but only that of a
dead observer.  The exceptions are those of section 2, and each theorem's comment names
the ones it has.

### ValueCodecProofs

`TypeKeptHolds`, `XmlKeepsHolds`, `BlobExactHolds` and `BlobFitsHolds` hold for any set
of values and data of any length.  The invariant `IInv` says that the cache, the file and
the database each come from the original or from what the file keeps of it; that a step
keeps it is what the conversions do, stated as lemmas:

- `ElementKept`: a written element is read as `Kept(v)`, which is `Absent` if `v` is
  `Lost` and `Reduced(v)` otherwise.  Under it are `Base64Kept`
  (unit by unit, with the one, two or three bytes of the last one), `SignKept` (an int
  through an unsigned word of any width that the int's width divides), `MillionthsKept`
  and `CStringKept` (a second conversion changes nothing), `ArrayKept` and `BigIntKept`;
- `ValueBlob`: a blob is read as the value it was made from and has the size that
  `BlobSize` counts.  `Layout` says where the fields are, `UniformAt` where the items of
  one width are, `PiecesAt` where the strings of an array are; `SizeIs` and `ReadIs`
  follow the two loops over strings.

The loops need induction, which the library's induction theorems do not give here because
they take an operator.  `UpTo` takes a set instead: a set that has 0, and with each number
below n the next, has all of them.  It follows from `WFMin`, by which a set of turns that
break a fact has a first one.

### Only model-checked

Liveness (`CallsReturn`, `FlushTakesModified`, `EveryTaskRuns`, `DestructorEnds`): it
needs fairness and `ENABLED`, which are out of the prover's reach.  The three violated
properties have counterexamples.

## 5. Not modelled

- The order in which `~PreferencesFileLock` unlocks its mutex and its `fcntl` lock,
  and the generations of a lock file that a deletion removes: `XmlFile` has one
  thread per process, and deletes in one process only.
- The early return of a flush task whose instance has been released, and the reload by
  `PreLoad` in `PreferencesHelper` (it is in `PreferencesImpl`).
- The object flag file that a deletion removes beside `.lock`: it only keeps the use of
  object values from being reported twice.
- The loop of `GetAll` over the results of its filter, and a cache that it fills in part.
- The other keys of a file that cannot be parsed because of one value, and keys with
  characters XML refuses.
- Callbacks that call back into preferences: what an application's function does
  is open, and one that registers or flushes waits for itself.
- Checks of keys, values and paths that only return an error, and the accessors of
  `PreferencesValue`.
- `PreferenceDbAdapter`, which looks the functions of the GRD library up; whether
  there is such a library is `supported` of `PreferencesHelper`, chosen at the start.
- `Remove`, `Reset`, repeated tasks and the second queue of `ExecutorPool`, which
  nothing here uses.
- Logging, the DFX adapter and its `ConcurrentMap`: no operation depends on them.
- The bindings beyond their observers (NAPI, sendable, storage, system storage, CJ,
  ETS, the typed calls of the NDK): they convert arguments and forward, and the
  state they reach is that of the native classes.
- `preferencesmock` and the tests, which make up most of the repository's lines.

## 6. Plan

Every invariant and action property that the passing runs check is stated by a theorem.
Left are the parts of section 5: `ExecutorPool::Remove` and `Reset`, the two locks of
`PreferencesFileLock` in one process with several threads, and callbacks that call back.
