------------------------------- MODULE XmlFile -------------------------------
(***************************************************************************)
(* How the preferences file survives failures: SaveXmlFile, XmlReadFile and*)
(* RenameFromBackupFile (frameworks/native/src/preferences_xml_utils.cpp)   *)
(* and the file part of PreferencesHelper::DeletePreferences, one action    *)
(* per system call, run by processes that may be killed anywhere.           *)
(*                                                                         *)
(* A file is a document of Docs, Torn (what xmlReadFile rejects: empty,     *)
(* half written) or NoFile.  Inside a process the threads are serialised by *)
(* inProcessMutex_, so a process runs one task at a time.                    *)
(*                                                                         *)
(* External: the file system.  Renames, creations and removals are durable  *)
(* in the order they are made; contents are durable once fsync has          *)
(* succeeded.  A descriptor follows its file when the file is renamed.      *)
(***************************************************************************)
EXTENDS Integers

CONSTANTS
    Procs,      \* processes that use the file
    Docs,       \* the documents they save
    Torn, NoFile,
    Scenarios,  \* sets of tasks, faults and circumstances, one per behaviour
    MaxFaults   \* bound: how many faults happen in it

AllTasks == {"save", "read", "delete"}

AllFaults ==
    {"rename",      \* rename to .bak fails
     "toBroken",    \* rename to .broken fails
     "restore",     \* rename of .bak back to the file fails
     "open",        \* open for writing fails
     "write",       \* write returns -1
     "short",       \* write writes less than it was given
     "fsync",       \* fsync fails
     "removeBak",   \* removing .bak fails
     "removeFile",  \* removing one of the files of a deletion fails
     "readMain",    \* reading fails with an errno of ReportNonCorruptError
     "readOther",   \* reading an intact file fails with another errno
     "readBak",     \* reading an intact backup fails
     "lock",        \* .lock cannot be opened, or ATTEMPTS are used up
     "kill",        \* the process dies
     "power"}       \* the device loses power

\* The circumstances of a behaviour.
AllCircumstances ==
    {"shared",      \* all processes of Procs are there, not one of them only
     "cutShort",    \* a save may have been cut short before
     "noLockFile",  \* .lock may be missing
     "lateLoad"}    \* a load may take longer than WAIT_TIME

ASSUME ProcsAssumption == Procs # {}

ASSUME ContentsDistinct == Torn \notin Docs /\ NoFile \notin Docs /\ Torn # NoFile

ASSUME ScenariosAssumption ==
    Scenarios \subseteq SUBSET (AllTasks \cup AllFaults \cup AllCircumstances) /\ MaxFaults \in Nat

Names == {"main", "bak", "broken"}

Contents == Docs \cup {Torn, NoFile}

VARIABLES
    files,      \* contents of the file, of .bak and of .broken
    synced,     \* whether those contents have reached the medium
    lockFile,   \* whether .lock exists
    pc, task, doc,
    primed,     \* loaded_ and what PreLoad makes of it: the process may save
    lock,       \* the fcntl lock each process holds
    fd,         \* the name of the file each process has open for writing
    acceptable, \* history: what a reader may find now
    scenario,   \* the tasks, faults and circumstances of this behaviour
    faults,     \* how many faults may still happen
    unheeded    \* history: the code has gone on as if a fault had not been

fileVars == <<files, synced, lockFile, fd>>
procVars == <<pc, task, doc, primed, lock>>

faultVars == <<scenario, faults, unheeded>>

vars == <<fileVars, procVars, acceptable, faultVars>>

PCs == {"idle", "lock",
        "saveRename", "saveOpen", "saveWrite", "saveFsync", "saveRemoveBak",
        "faultBroken",
        "readMain", "readBroken", "readAgain",
        "bakRead", "bakDrop", "bakRename",
        "delMain", "delBak", "delBroken", "delLock"}

Init ==
    /\ scenario \in Scenarios
    /\ \E d \in Docs \cup {NoFile} :
          /\ acceptable = {d}
          /\ \/ files = [main |-> d, bak |-> NoFile, broken |-> NoFile]
             \/ /\ "cutShort" \in scenario
                /\ files \in [main : {Torn, NoFile}, bak : {d}, broken : {NoFile}]
    /\ synced = [n \in Names |-> TRUE]
    /\ lockFile \in IF "noLockFile" \in scenario THEN BOOLEAN ELSE {TRUE}
    /\ pc = [p \in Procs |-> "idle"]
    /\ task = [p \in Procs |-> "none"]
    /\ doc = [p \in Procs |-> NoFile]
    /\ primed = [p \in Procs |-> FALSE]
    /\ lock = [p \in Procs |-> "none"]
    /\ fd = [p \in Procs |-> "none"]
    /\ faults = MaxFaults
    /\ unheeded = FALSE

Exists(n) == files[n] # NoFile

\* xmlReadFile returns a document.
Intact(n) == files[n] \in Docs

\* What a reader with no fault ends up with.
ReadBack == IF Intact("main") THEN files["main"]
            ELSE IF Intact("bak") THEN files["bak"] ELSE NoFile

\* Faults after which the code goes on as if nothing, or the worst, had happened.
Unheeded == {"restore", "short", "fsync", "readOther", "readBak"}

Fault(f) ==
    /\ f \in scenario
    /\ faults > 0
    /\ faults' = faults - 1
    /\ unheeded' = (unheeded \/ f \in Unheeded)
    /\ UNCHANGED scenario

Goto(p, label) == pc' = [pc EXCEPT ![p] = label]

\* What other processes are about to make readable.
InProgress(p) ==
    {doc[q] : q \in {r \in Procs \ {p} : task[r] = "save"}}
        \cup {NoFile : q \in {r \in Procs \ {p} : task[r] = "delete"}}

\* Faulty variant: an early return that does not release the lock.
LeaveKeepsLock(p) ==
    /\ Goto(p, "idle")
    /\ task' = [task EXCEPT ![p] = "none"]
    /\ doc' = [doc EXCEPT ![p] = NoFile]
    /\ UNCHANGED lock

\* The task of p is over: ~PreferencesFileLock, and close of the descriptor.
Leave(p) ==
    /\ Goto(p, "idle")
    /\ task' = [task EXCEPT ![p] = "none"]
    /\ doc' = [doc EXCEPT ![p] = NoFile]
    /\ lock' = [lock EXCEPT ![p] = "none"]

-----------------------------------------------------------------------------
(***************************************************************************)
(* File system calls.                                                       *)
(***************************************************************************)

\* rename(x, y): y's old file is gone, descriptors follow their file.
Rename(x, y) ==
    /\ files' = [files EXCEPT ![y] = files[x], ![x] = NoFile]
    /\ synced' = [synced EXCEPT ![y] = synced[x], ![x] = TRUE]
    /\ fd' = [q \in Procs |-> IF fd[q] = y THEN "gone"
                              ELSE IF fd[q] = x THEN y ELSE fd[q]]
    /\ UNCHANGED lockFile

\* remove(x)
Remove(x) ==
    /\ files' = [files EXCEPT ![x] = NoFile]
    /\ synced' = [synced EXCEPT ![x] = TRUE]
    /\ fd' = [q \in Procs |-> IF fd[q] = x THEN "gone" ELSE fd[q]]
    /\ UNCHANGED lockFile

\* The descriptor of p is closed.
CloseFd(p) ==
    /\ fd' = [fd EXCEPT ![p] = "none"]
    /\ UNCHANGED <<files, synced, lockFile>>

-----------------------------------------------------------------------------
(***************************************************************************)
(* Starting a task and taking the lock.                                     *)
(***************************************************************************)

\* PreLoad lets a flush pass when the file has been read, and also when the load
\* is not over after WAIT_TIME: nothing is known of the file then.
PreLoad(p) == primed[p] \/ "lateLoad" \in scenario

\* WriteToDiskFile, after PreLoad.  Every save writes something new.
BeginSave(p, d) ==
    /\ pc[p] = "idle"
    /\ "save" \in scenario
    /\ PreLoad(p)
    /\ d \notin acceptable
    /\ \A q \in Procs : doc[q] # d
    /\ Goto(p, "lock")
    /\ task' = [task EXCEPT ![p] = "save"]
    /\ doc' = [doc EXCEPT ![p] = d]
    /\ acceptable' = acceptable \cup {d}
    /\ UNCHANGED <<fileVars, primed, lock, faultVars>>

BeginRead(p) ==
    /\ pc[p] = "idle"
    /\ "read" \in scenario
    /\ Goto(p, "lock")
    /\ task' = [task EXCEPT ![p] = "read"]
    /\ UNCHANGED <<fileVars, doc, primed, lock, acceptable, faultVars>>

BeginDelete(p) ==
    /\ pc[p] = "idle"
    /\ "delete" \in scenario
    /\ Goto(p, "lock")
    /\ task' = [task EXCEPT ![p] = "delete"]
    /\ acceptable' = acceptable \cup {NoFile}
    /\ UNCHANGED <<fileVars, doc, primed, lock, faultVars>>

FirstStep(p) == CASE task[p] = "save"   -> "saveRename"
                  [] task[p] = "read"   -> "readMain"
                  [] task[p] = "delete" -> "delMain"

\* ReadLock does not lock when .lock is absent; a shared lock needs no writer.
ReadLock(p) ==
    /\ pc[p] = "lock"
    /\ task[p] = "read"
    /\ \/ /\ ~lockFile
          /\ UNCHANGED lock
       \/ /\ lockFile
          /\ \A q \in Procs \ {p} : lock[q] # "write"
          /\ lock' = [lock EXCEPT ![p] = "read"]
    /\ Goto(p, FirstStep(p))
    /\ UNCHANGED <<fileVars, task, doc, primed, acceptable, faultVars>>

\* WriteLock creates .lock and locks it alone.
WriteLock(p) ==
    /\ pc[p] = "lock"
    /\ task[p] # "read"
    /\ \A q \in Procs \ {p} : lock[q] = "none"
    /\ lock' = [lock EXCEPT ![p] = "write"]
    /\ lockFile' = TRUE
    /\ Goto(p, FirstStep(p))
    /\ UNCHANGED <<files, synced, fd, task, doc, primed, acceptable, faultVars>>

\* The lock cannot be had: logged, and the task goes on without it.
LockGivenUp(p) ==
    /\ pc[p] = "lock"
    /\ Fault("lock")
    /\ Goto(p, FirstStep(p))
    /\ UNCHANGED <<fileVars, task, doc, primed, lock, acceptable>>

-----------------------------------------------------------------------------
(***************************************************************************)
(* SaveXmlFile.                                                             *)
(***************************************************************************)

\* The save has failed: SaveXmlFile returns false.
SaveReturnsFalse(p) ==
    /\ Leave(p)
    /\ acceptable' = acceptable \ {doc[p]}
    /\ UNCHANGED primed

RenameToBackupFile(p) ==
    /\ pc[p] = "saveRename"
    /\ \/ /\ Exists("main")
          /\ Rename("main", "bak")
          /\ Goto(p, "saveOpen")
          /\ UNCHANGED <<task, doc, primed, lock, acceptable, faultVars>>
       \/ /\ ~Exists("main")
          /\ Goto(p, "saveOpen")
          /\ UNCHANGED <<fileVars, task, doc, primed, lock, acceptable, faultVars>>
       \/ /\ Exists("main")
          /\ Fault("rename")
          /\ SaveReturnsFalse(p)
          /\ UNCHANGED fileVars

\* open with O_CREAT | O_TRUNC
Open(p) ==
    /\ pc[p] = "saveOpen"
    /\ \/ /\ files' = [files EXCEPT !["main"] = Torn]
          /\ synced' = [synced EXCEPT !["main"] = FALSE]
          /\ fd' = [fd EXCEPT ![p] = "main"]
          /\ Goto(p, "saveWrite")
          /\ UNCHANGED <<lockFile, faultVars>>
       \/ /\ Fault("open")
          /\ Goto(p, "faultBroken")
          /\ UNCHANGED fileVars
    /\ UNCHANGED <<task, doc, primed, lock, acceptable>>

\* Faulty variant: goes on after a failed write.
WriteErrorIgnored(p) ==
    /\ pc[p] = "saveWrite"
    /\ \/ /\ files' = [n \in Names |-> IF n = fd[p] THEN doc[p] ELSE files[n]]
          /\ Goto(p, "saveFsync")
          /\ UNCHANGED faultVars
       \/ /\ Fault("short")
          /\ Goto(p, "saveFsync")
          /\ UNCHANGED files
       \/ /\ Fault("write")
          /\ Goto(p, "saveFsync")
          /\ UNCHANGED files
    /\ UNCHANGED <<synced, lockFile, fd, task, doc, primed, lock, acceptable>>

\* A short write is taken for a success.
Write(p) ==
    /\ pc[p] = "saveWrite"
    /\ \/ /\ files' = [n \in Names |-> IF n = fd[p] THEN doc[p] ELSE files[n]]
          /\ Goto(p, "saveFsync")
          /\ UNCHANGED faultVars
       \/ /\ Fault("short")
          /\ Goto(p, "saveFsync")
          /\ UNCHANGED files
       \/ /\ Fault("write")
          /\ Goto(p, "faultBroken")
          /\ UNCHANGED files
    /\ UNCHANGED <<synced, lockFile, fd, task, doc, primed, lock, acceptable>>

\* Faulty variant: closes the file without fsync.
FsyncSkipped(p) ==
    /\ pc[p] = "saveFsync"
    /\ \/ /\ UNCHANGED synced
          /\ UNCHANGED faultVars
       \/ /\ Fault("fsync")
          /\ UNCHANGED synced
    /\ fd' = [fd EXCEPT ![p] = "none"]
    /\ Goto(p, "saveRemoveBak")
    /\ UNCHANGED <<files, lockFile, task, doc, primed, lock, acceptable>>

\* A failed fsync is logged only.
Fsync(p) ==
    /\ pc[p] = "saveFsync"
    /\ \/ /\ synced' = [n \in Names |-> n = fd[p] \/ synced[n]]
          /\ UNCHANGED faultVars
       \/ /\ Fault("fsync")
          /\ UNCHANGED synced
    /\ fd' = [fd EXCEPT ![p] = "none"]
    /\ Goto(p, "saveRemoveBak")
    /\ UNCHANGED <<files, lockFile, task, doc, primed, lock, acceptable>>

\* RemoveBackupFile; SaveXmlFile returns true.
RemoveBackupFile(p) ==
    /\ pc[p] = "saveRemoveBak"
    /\ \/ Remove("bak") /\ UNCHANGED faultVars
       \/ Fault("removeBak") /\ UNCHANGED fileVars
    /\ acceptable' = {doc[p]} \cup InProgress(p)
    /\ Leave(p)
    /\ UNCHANGED primed

\* ReportSaveFileFault: what is there of the file becomes .broken, if it can.
SaveFault(p) ==
    /\ pc[p] = "faultBroken"
    /\ \/ /\ IF Exists("main") THEN Rename("main", "broken") ELSE UNCHANGED fileVars
          /\ UNCHANGED faultVars
       \/ /\ Exists("main")
          /\ Fault("toBroken")
          /\ UNCHANGED fileVars
    /\ Goto(p, "bakRead")
    /\ UNCHANGED <<task, doc, primed, lock, acceptable>>

-----------------------------------------------------------------------------
(***************************************************************************)
(* XmlReadFile.                                                             *)
(***************************************************************************)

\* Returns the document.
ReadReturns(p) ==
    /\ Leave(p)
    /\ primed' = [primed EXCEPT ![p] = TRUE]
    /\ UNCHANGED acceptable

\* Returns nullptr.  PreLoad lets a flush pass after that only if Access finds
\* no file.
ReadReturnsNull(p) ==
    /\ Leave(p)
    /\ primed' = [primed EXCEPT ![p] = ~Exists("main")]
    /\ UNCHANGED acceptable

ReadMain(p) ==
    /\ pc[p] = "readMain"
    /\ \/ /\ Intact("main")
          /\ ReadReturns(p)
          /\ UNCHANGED faultVars
       \/ /\ Exists("main")
          /\ Fault("readMain")
          /\ ReadReturnsNull(p)
       \/ /\ files["main"] = Torn
          /\ Goto(p, "readBroken")
          /\ UNCHANGED <<task, doc, primed, lock, acceptable, faultVars>>
       \/ /\ Intact("main")
          /\ Fault("readOther")
          /\ Goto(p, "readBroken")
          /\ UNCHANGED <<task, doc, primed, lock, acceptable>>
       \/ /\ ~Exists("main")
          /\ Goto(p, "bakRead")
          /\ UNCHANGED <<task, doc, primed, lock, acceptable, faultVars>>
    /\ UNCHANGED fileVars

\* RenameToBrokenFile: fails if another process has moved the file away.
RenameToBrokenFile(p) ==
    /\ pc[p] = "readBroken"
    /\ \/ /\ Exists("main")
          /\ Rename("main", "broken")
          /\ Goto(p, "bakRead")
          /\ UNCHANGED <<task, doc, primed, lock, acceptable, faultVars>>
       \/ /\ IF Exists("main") THEN Fault("toBroken") ELSE UNCHANGED faultVars
          /\ ReadReturnsNull(p)
          /\ UNCHANGED fileVars

\* The document is read again after the backup has been renamed.
ReadAgain(p) ==
    /\ pc[p] = "readAgain"
    /\ IF Intact("main") THEN ReadReturns(p) ELSE ReadReturnsNull(p)
    /\ UNCHANGED <<fileVars, faultVars>>

-----------------------------------------------------------------------------
(***************************************************************************)
(* RenameFromBackupFile, called by both.                                    *)
(***************************************************************************)

\* RenameFromBackupFile returns false.
NotRestored(p) ==
    IF task[p] = "save" THEN SaveReturnsFalse(p) ELSE ReadReturnsNull(p)

\* Reads the backup: any failure to do so leads to its removal.
ReadBackup(p) ==
    /\ pc[p] = "bakRead"
    /\ \/ /\ ~Exists("bak")
          /\ NotRestored(p)
          /\ CloseFd(p)
          /\ UNCHANGED faultVars
       \/ /\ Intact("bak")
          /\ Goto(p, "bakRename")
          /\ UNCHANGED <<fileVars, task, doc, primed, lock, acceptable, faultVars>>
       \/ /\ files["bak"] = Torn
          /\ Goto(p, "bakDrop")
          /\ UNCHANGED <<fileVars, task, doc, primed, lock, acceptable, faultVars>>
       \/ /\ Exists("bak")
          /\ Fault("readBak")
          /\ Goto(p, "bakDrop")
          /\ UNCHANGED <<fileVars, task, doc, primed, lock, acceptable>>

DropBackup(p) ==
    /\ pc[p] = "bakDrop"
    /\ \/ /\ files' = [files EXCEPT !["bak"] = NoFile]
          /\ synced' = [synced EXCEPT !["bak"] = TRUE]
          /\ fd' = [q \in Procs |-> IF q = p THEN "none"
                                    ELSE IF fd[q] = "bak" THEN "gone" ELSE fd[q]]
          /\ UNCHANGED <<lockFile, faultVars>>
       \/ /\ Fault("removeBak")
          /\ CloseFd(p)
    /\ NotRestored(p)

RestoreBackup(p) ==
    /\ pc[p] = "bakRename"
    /\ \/ /\ Exists("bak")
          /\ Rename("bak", "main")
          /\ IF task[p] = "save"
               THEN SaveReturnsFalse(p)
               ELSE Goto(p, "readAgain") /\ UNCHANGED <<task, doc, primed, lock, acceptable>>
          /\ UNCHANGED faultVars
       \/ /\ IF Exists("bak") THEN Fault("restore") ELSE UNCHANGED faultVars
          /\ NotRestored(p)
          /\ CloseFd(p)

-----------------------------------------------------------------------------
(***************************************************************************)
(* The file part of DeletePreferences.                                      *)
(***************************************************************************)

\* What remove returns is not looked at.
DeleteStep(p, name, from, to) ==
    /\ pc[p] = from
    /\ \/ Remove(name) /\ UNCHANGED faultVars
       \/ Exists(name) /\ Fault("removeFile") /\ UNCHANGED fileVars
    /\ Goto(p, to)
    /\ UNCHANGED <<task, doc, primed, lock, acceptable>>

\* .lock goes too, while it is locked.  The object flag file, removed next to it,
\* is left out: no save or read looks at it.
DeleteLockFile(p) ==
    /\ pc[p] = "delLock"
    /\ lockFile' = FALSE
    /\ Leave(p)
    /\ acceptable' = IF \E n \in Names : Exists(n) THEN acceptable
                                                   ELSE {NoFile} \cup InProgress(p)
    /\ UNCHANGED <<files, synced, fd, primed, faultVars>>

DeleteFiles(p) ==
    \/ DeleteStep(p, "main", "delMain", "delBak")
    \/ DeleteStep(p, "bak", "delBak", "delBroken")
    \/ DeleteStep(p, "broken", "delBroken", "delLock")
    \/ DeleteLockFile(p)

-----------------------------------------------------------------------------
(***************************************************************************)
(* Crashes.                                                                 *)
(***************************************************************************)

\* The process dies: its locks and descriptors go, the files stay.
Kill(p) ==
    /\ pc[p] # "idle"
    /\ Fault("kill")
    /\ Leave(p)
    /\ CloseFd(p)
    /\ primed' = [primed EXCEPT ![p] = FALSE]
    /\ UNCHANGED acceptable

\* Power is lost: contents that have not been synced may be torn.
PowerLoss ==
    /\ Fault("power")
    /\ \E lost \in SUBSET {n \in Names : Intact(n) /\ ~synced[n]} :
          files' = [n \in Names |-> IF n \in lost THEN Torn ELSE files[n]]
    /\ synced' = [n \in Names |-> TRUE]
    /\ pc' = [p \in Procs |-> "idle"]
    /\ task' = [p \in Procs |-> "none"]
    /\ doc' = [p \in Procs |-> NoFile]
    /\ primed' = [p \in Procs |-> FALSE]
    /\ lock' = [p \in Procs |-> "none"]
    /\ fd' = [p \in Procs |-> "none"]
    /\ UNCHANGED <<lockFile, acceptable>>

-----------------------------------------------------------------------------
Lock(p) == ReadLock(p) \/ WriteLock(p) \/ LockGivenUp(p)

SaveXmlFile(p) ==
    \/ RenameToBackupFile(p)
    \/ Open(p)
    \/ Write(p)
    \/ Fsync(p)
    \/ RemoveBackupFile(p)
    \/ SaveFault(p)

XmlReadFile(p) == ReadMain(p) \/ RenameToBrokenFile(p) \/ ReadAgain(p)

RenameFromBackupFile(p) == ReadBackup(p) \/ DropBackup(p) \/ RestoreBackup(p)

Step(p) ==
    \/ Lock(p)
    \/ SaveXmlFile(p)
    \/ XmlReadFile(p)
    \/ RenameFromBackupFile(p)
    \/ DeleteFiles(p)

\* The processes of this behaviour.
Present == IF "shared" \in scenario THEN Procs ELSE {CHOOSE p \in Procs : TRUE}

Begin(p) ==
    /\ p \in Present
    /\ BeginRead(p) \/ BeginDelete(p) \/ \E d \in Docs : BeginSave(p, d)

Next == PowerLoss \/ \E p \in Procs : Begin(p) \/ Step(p) \/ Kill(p)

Spec == Init /\ [][Next]_vars

-----------------------------------------------------------------------------
(***************************************************************************)
(* Properties.                                                              *)
(***************************************************************************)

\* Every variable has its type, and no lock outlives the call that took it.
TypeOK ==
    /\ files \in [Names -> Contents]
    /\ synced \in [Names -> BOOLEAN]
    /\ lockFile \in BOOLEAN
    /\ pc \in [Procs -> PCs]
    /\ task \in [Procs -> AllTasks \cup {"none"}]
    /\ doc \in [Procs -> Docs \cup {NoFile}]
    /\ primed \in [Procs -> BOOLEAN]
    /\ lock \in [Procs -> {"none", "read", "write"}]
    /\ fd \in [Procs -> Names \cup {"none", "gone"}]
    /\ acceptable \in SUBSET (Docs \cup {NoFile})
    /\ scenario \in Scenarios
    /\ faults \in Nat
    /\ unheeded \in BOOLEAN
    /\ \A p \in Procs : pc[p] = "idle" => lock[p] = "none"

\* The faults and circumstances that the code survives together; every exclusion is
\* needed, for TLC finds Recoverable violated without it.  A process that is killed
\* before fsync leaves a document that the next save makes the backup, unsynced when
\* power is lost.  A save made while the load is late renames a file that an earlier
\* one has left torn over the backup, which is then the only copy.  A backup that
\* could not be removed comes back when a deletion stops after the main file.
\* Processes that share the file rely on .lock, and two readers that find it torn, or
\* a writer that has read it before, spoil the backup.
Survivable(s) ==
    /\ ~({"kill", "power"} \subseteq s)
    /\ "lateLoad" \in s => s \cap {"cutShort", "kill", "power"} = {}
    /\ ~({"delete", "removeBak"} \subseteq s)
    /\ "shared" \in s =>
          s \cap {"cutShort", "noLockFile", "lock", "delete", "kill", "power"} = {}

\* A reader can get back the last document whose save returned true, or one
\* whose save was cut short after it; never an older one, and never nothing.
\* Every fault that SaveXmlFile and XmlReadFile react to is survived; the ones
\* they do not heed (a short write, a failed fsync, a failed rename of .bak, a read
\* that fails for want of memory, say, and is taken for corruption) void the
\* promise.
Recoverable == ~unheeded => ReadBack \in acceptable

\* While a document that nobody has asked to delete can be read back from .bak
\* only, no step gives .bak up: it is the only copy from the first rename of
\* SaveXmlFile until the new file is whole.
OnlyCopyKept ==
    [][(~Intact("main") /\ Intact("bak") /\ NoFile \notin acceptable /\ ~unheeded)
          => (Intact("main")' \/ files'["bak"] = files["bak"])]_files

\* When nobody is at work, what the last save that returned true has written is
\* there to be read.
SavedIsReadable ==
    (\A p \in Procs : pc[p] = "idle") => ReadBack \in acceptable
=============================================================================
