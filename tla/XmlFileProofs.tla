---------------------------- MODULE XmlFileProofs ----------------------------
(***************************************************************************)
(* Proofs about XmlFile, for any processes, documents and number of faults: *)
(* what has been saved can be read back after every combination of faults   *)
(* that Survivable lets pass.                                               *)
(***************************************************************************)
EXTENDS XmlFile, TLAPS

SavePCs == {"saveRename", "saveOpen", "saveWrite", "saveFsync", "saveRemoveBak", "faultBroken"}
ReadPCs == {"readMain", "readBroken", "readAgain"}
BakPCs == {"bakRead", "bakDrop", "bakRename"}
DelPCs == {"delMain", "delBak", "delBroken", "delLock"}

\* The parts of TypeOK, by the variables they are about.
FilesTyped ==
    /\ files \in [Names -> Contents]
    /\ synced \in [Names -> BOOLEAN]
    /\ lockFile \in BOOLEAN
    /\ fd \in [Procs -> Names \cup {"none", "gone"}]

LocalsTyped ==
    /\ pc \in [Procs -> PCs]
    /\ task \in [Procs -> AllTasks \cup {"none"}]
    /\ doc \in [Procs -> Docs \cup {NoFile}]
    /\ primed \in [Procs -> BOOLEAN]
    /\ lock \in [Procs -> {"none", "read", "write"}]

HistoryTyped ==
    /\ acceptable \in SUBSET (Docs \cup {NoFile})
    /\ scenario \in Scenarios
    /\ faults \in Nat
    /\ unheeded \in BOOLEAN

\* The labels at which task t can be.
Fits(label, t) ==
    /\ label = "idle" <=> t = "none"
    /\ label \in SavePCs => t = "save"
    /\ label \in ReadPCs => t = "read"
    /\ label \in BakPCs => t \in {"save", "read"}
    /\ label \in DelPCs => t = "delete"

\* A process is where its task has led it, and holds no lock between two tasks.
Phases ==
    \A p \in Procs :
        /\ Fits(pc[p], task[p])
        /\ task[p] = "save" => doc[p] \in Docs
        /\ pc[p] = "idle" => lock[p] = "none"

TypeInv == FilesTyped /\ LocalsTyped /\ HistoryTyped /\ Phases

-----------------------------------------------------------------------------
(***************************************************************************)
(* The calls of the file system and the steps of a task                    *)
(***************************************************************************)

\* The initial values have their types.
LEMMA InitType == Init => TypeInv
  <1> SUFFICES ASSUME Init PROVE TypeInv
    OBVIOUS
  <1>1. PICK d \in Docs \cup {NoFile} :
          /\ acceptable = {d}
          /\ \/ files = [main |-> d, bak |-> NoFile, broken |-> NoFile]
             \/ files \in [main : {Torn, NoFile}, bak : {d}, broken : {NoFile}]
    BY DEF Init
  <1>2. files \in [Names -> Contents]
    <2>1. CASE files = [main |-> d, bak |-> NoFile, broken |-> NoFile]
      BY <2>1 DEF Names, Contents
    <2>2. CASE files \in [main : {Torn, NoFile}, bak : {d}, broken : {NoFile}]
      BY <2>2 DEF Names, Contents
    <2> QED
      BY <1>1, <2>1, <2>2
  <1>3. FilesTyped
    BY <1>2 DEF Init, FilesTyped
  <1>4. LocalsTyped
    BY DEF Init, LocalsTyped, PCs, AllTasks
  <1>5. HistoryTyped
    BY <1>1, ScenariosAssumption DEF Init, HistoryTyped
  <1>6. Phases
    BY DEF Init, Phases, Fits, SavePCs, ReadPCs, BakPCs, DelPCs
  <1> QED
    BY <1>3, <1>4, <1>5, <1>6 DEF TypeInv

\* rename moves one file and leaves the others alone.
LEMMA RenameMoves ==
  ASSUME FilesTyped, NEW x \in Names, NEW y \in Names, x # y, Rename(x, y)
  PROVE  /\ FilesTyped'
         /\ files'[y] = files[x] /\ files'[x] = NoFile
         /\ synced'[y] = synced[x]
         /\ \A n \in Names \ {x, y} : files'[n] = files[n] /\ synced'[n] = synced[n]
         /\ lockFile' = lockFile
  BY DEF FilesTyped, Rename, Contents

\* remove takes one file away and leaves the others alone.
LEMMA RemoveDrops ==
  ASSUME FilesTyped, NEW x \in Names, Remove(x)
  PROVE  /\ FilesTyped'
         /\ files'[x] = NoFile
         /\ \A n \in Names \ {x} : files'[n] = files[n] /\ synced'[n] = synced[n]
         /\ lockFile' = lockFile
  BY DEF FilesTyped, Remove, Contents

\* close leaves the files alone.
LEMMA CloseFdTyped ==
  ASSUME FilesTyped, NEW p \in Procs, CloseFd(p)
  PROVE  FilesTyped'
  BY DEF FilesTyped, CloseFd

\* A fault is counted, and remembered when the code does not heed it.
LEMMA FaultCounts ==
  ASSUME HistoryTyped, NEW f, Fault(f) \/ UNCHANGED faultVars
  PROVE  /\ scenario' = scenario /\ scenario' \in Scenarios
         /\ faults' \in Nat
         /\ unheeded' \in BOOLEAN /\ (unheeded => unheeded')
  <1>1. CASE Fault(f)
    BY <1>1 DEF HistoryTyped, Fault
  <1>2. CASE UNCHANGED faultVars
    BY <1>2 DEF HistoryTyped, faultVars
  <1> QED
    BY <1>1, <1>2

\* A step inside a task.
LEMMA GotoTyped ==
  ASSUME LocalsTyped, Phases, NEW p \in Procs, NEW label \in PCs, Goto(p, label),
         Fits(label, task[p]), label # "idle", UNCHANGED <<task, doc, primed, lock>>
  PROVE  LocalsTyped' /\ Phases'
  BY DEF LocalsTyped, Phases, Goto

\* The end of a task.
LEMMA LeaveTyped ==
  ASSUME LocalsTyped, Phases, NEW p \in Procs, Leave(p), primed' \in [Procs -> BOOLEAN]
  PROVE  LocalsTyped' /\ Phases'
  <1>1. LocalsTyped'
    BY DEF LocalsTyped, Leave, Goto, PCs
  <1>2. Phases'
    BY DEF LocalsTyped, Phases, Leave, Goto, Fits, SavePCs, ReadPCs, BakPCs, DelPCs
  <1> QED
    BY <1>1, <1>2

\* The three ways to end a task end it.
LEMMA ReturnTyped ==
  ASSUME LocalsTyped, Phases, HistoryTyped, NEW p \in Procs,
         \/ SaveReturnsFalse(p) \/ ReadReturns(p) \/ ReadReturnsNull(p) \/ NotRestored(p)
  PROVE  LocalsTyped' /\ Phases' /\ acceptable' \in SUBSET (Docs \cup {NoFile})
  <1>1. CASE SaveReturnsFalse(p)
    BY <1>1, LeaveTyped DEF SaveReturnsFalse, LocalsTyped, HistoryTyped
  <1>2. CASE ReadReturns(p)
    BY <1>2, LeaveTyped DEF ReadReturns, LocalsTyped, HistoryTyped
  <1>3. CASE ReadReturnsNull(p)
    <2>1. primed' \in [Procs -> BOOLEAN]
      BY <1>3 DEF ReadReturnsNull, LocalsTyped, Exists
    <2> QED
      BY <1>3, <2>1, LeaveTyped DEF ReadReturnsNull, HistoryTyped
  <1>4. NotRestored(p) => SaveReturnsFalse(p) \/ ReadReturnsNull(p)
    BY DEF NotRestored
  <1> QED
    BY <1>1, <1>2, <1>3, <1>4

-----------------------------------------------------------------------------
(***************************************************************************)
(* Type correctness                                                        *)
(***************************************************************************)

\* A task begins and takes its lock, or goes on without it.
LEMMA BeginType ==
  ASSUME TypeInv, NEW p \in Procs,
         \/ BeginRead(p) \/ BeginDelete(p) \/ \E d \in Docs : BeginSave(p, d)
         \/ ReadLock(p) \/ WriteLock(p) \/ LockGivenUp(p)
  PROVE  TypeInv'
  <1> USE DEF TypeInv
  <1>1. CASE BeginRead(p)
    BY <1>1 DEF BeginRead, Goto, FilesTyped, LocalsTyped, HistoryTyped, Phases, Fits, SavePCs,
                ReadPCs, BakPCs, DelPCs, PCs, AllTasks, fileVars, faultVars
  <1>2. CASE BeginDelete(p)
    BY <1>2 DEF BeginDelete, Goto, FilesTyped, LocalsTyped, HistoryTyped, Phases, Fits,
                SavePCs, ReadPCs, BakPCs, DelPCs, PCs, AllTasks, fileVars, faultVars
  <1>3. ASSUME NEW d \in Docs, BeginSave(p, d) PROVE TypeInv'
    BY <1>3 DEF BeginSave, Goto, FilesTyped, LocalsTyped, HistoryTyped, Phases, Fits,
                SavePCs, ReadPCs, BakPCs, DelPCs, PCs, AllTasks, fileVars, faultVars
  <1>4. pc[p] = "lock" =>
          /\ FirstStep(p) \in PCs \ {"idle"}
          /\ Fits(FirstStep(p), task[p])
    <2>1. pc[p] = "lock" => task[p] \in {"save", "read", "delete"}
      BY DEF LocalsTyped, Phases, Fits, AllTasks
    <2> QED
      BY <2>1 DEF FirstStep, Fits, SavePCs, ReadPCs, BakPCs, DelPCs, PCs
  <1>5. ASSUME pc[p] = "lock", Goto(p, FirstStep(p)), UNCHANGED <<task, doc, primed>>,
               lock' \in [Procs -> {"none", "read", "write"}],
               \A q \in Procs \ {p} : lock'[q] = lock[q]
        PROVE  LocalsTyped' /\ Phases'
    <2>1. pc' = [pc EXCEPT ![p] = FirstStep(p)] /\ FirstStep(p) \in PCs \ {"idle"}
                /\ Fits(FirstStep(p), task[p])
      BY <1>4, <1>5 DEF Goto
    <2>2. LocalsTyped'
      BY <1>5, <2>1 DEF LocalsTyped
    <2>3. Phases'
      BY <1>5, <2>1 DEF LocalsTyped, Phases
    <2> QED
      BY <2>2, <2>3
  <1>6. CASE ReadLock(p)
    <2>1. lock' \in [Procs -> {"none", "read", "write"}]
             /\ \A q \in Procs \ {p} : lock'[q] = lock[q]
      BY <1>6 DEF ReadLock, LocalsTyped
    <2>2. LocalsTyped' /\ Phases'
      BY <1>5, <1>6, <2>1 DEF ReadLock
    <2> QED
      BY <1>6, <2>2 DEF ReadLock, FilesTyped, HistoryTyped, fileVars, faultVars
  <1>7. CASE WriteLock(p)
    <2>1. lock' \in [Procs -> {"none", "read", "write"}]
             /\ \A q \in Procs \ {p} : lock'[q] = lock[q]
      BY <1>7 DEF WriteLock, LocalsTyped
    <2>2. LocalsTyped' /\ Phases'
      BY <1>5, <1>7, <2>1 DEF WriteLock
    <2> QED
      BY <1>7, <2>2 DEF WriteLock, FilesTyped, HistoryTyped, faultVars
  <1>8. CASE LockGivenUp(p)
    <2>1. LocalsTyped' /\ Phases'
      BY <1>5, <1>8 DEF LockGivenUp, LocalsTyped
    <2>2. HistoryTyped'
      BY <1>8, FaultCounts DEF LockGivenUp, HistoryTyped
    <2> QED
      BY <1>8, <2>1, <2>2 DEF LockGivenUp, FilesTyped, fileVars
  <1> QED
    BY <1>1, <1>2, <1>3, <1>6, <1>7, <1>8

\* Every step of SaveXmlFile keeps the types.
LEMMA SaveType ==
  ASSUME TypeInv, NEW p \in Procs, SaveXmlFile(p)
  PROVE  TypeInv'
  <1> USE DEF TypeInv
  <1>l. /\ "main" \in Names /\ "bak" \in Names /\ "broken" \in Names
        /\ doc[p] \in Contents
    BY DEF Names, Contents, LocalsTyped
  <1>g. ASSUME NEW label \in {"saveOpen", "saveWrite", "saveFsync", "saveRemoveBak",
                              "faultBroken", "bakRead"},
               pc[p] \in SavePCs, Goto(p, label), UNCHANGED <<task, doc, primed, lock>>
        PROVE  LocalsTyped' /\ Phases'
    <2>1. task[p] = "save"
      BY <1>g DEF Phases, Fits
    <2>2. label \in PCs /\ label # "idle" /\ Fits(label, task[p])
      BY <2>1 DEF PCs, Fits, SavePCs, ReadPCs, BakPCs, DelPCs
    <2> QED
      BY <1>g, <2>2, GotoTyped
  <1>h. ASSUME NEW f, Fault(f) \/ UNCHANGED faultVars,
               acceptable' \in SUBSET (Docs \cup {NoFile})
        PROVE  HistoryTyped'
    BY <1>h, FaultCounts DEF HistoryTyped
  <1>i. acceptable \in SUBSET (Docs \cup {NoFile})
    BY DEF HistoryTyped
  <1>1. CASE RenameToBackupFile(p)
    <2>1. FilesTyped'
      <3>1. CASE Rename("main", "bak")
        BY <1>l, <3>1, RenameMoves
      <3>2. CASE UNCHANGED fileVars
        BY <3>2 DEF FilesTyped, fileVars
      <3> QED
        BY <1>1, <3>1, <3>2 DEF RenameToBackupFile
    <2>2. LocalsTyped' /\ Phases' /\ acceptable' \in SUBSET (Docs \cup {NoFile})
      BY <1>1, <1>g, <1>i, ReturnTyped DEF RenameToBackupFile, SavePCs
    <2> QED
      BY <1>1, <1>h, <2>1, <2>2 DEF RenameToBackupFile
  <1>2. CASE Open(p)
    <2>1. FilesTyped'
      BY <1>2, ZenonT(40) DEF Open, FilesTyped, fileVars, Contents, Names
    <2>2. LocalsTyped' /\ Phases'
      BY <1>2, <1>g DEF Open, SavePCs
    <2> QED
      BY <1>2, <1>h, <1>i, <2>1, <2>2 DEF Open
  <1>3. CASE Write(p)
    <2>1. FilesTyped'
      BY <1>3, <1>l DEF Write, FilesTyped
    <2>2. LocalsTyped' /\ Phases'
      BY <1>3, <1>g DEF Write, SavePCs
    <2> QED
      BY <1>3, <1>h, <1>i, <2>1, <2>2 DEF Write
  <1>4. CASE Fsync(p)
    <2>1. synced' \in [Names -> BOOLEAN]
      BY <1>4 DEF Fsync, FilesTyped
    <2>2. FilesTyped'
      BY <1>4, <2>1 DEF Fsync, FilesTyped
    <2>3. LocalsTyped' /\ Phases'
      BY <1>4, <1>g DEF Fsync, SavePCs
    <2> QED
      BY <1>4, <1>h, <1>i, <2>2, <2>3 DEF Fsync
  <1>5. CASE RemoveBackupFile(p)
    <2>1. FilesTyped'
      <3>1. CASE Remove("bak")
        BY <1>l, <3>1, RemoveDrops
      <3>2. CASE UNCHANGED fileVars
        BY <3>2 DEF FilesTyped, fileVars
      <3> QED
        BY <1>5, <3>1, <3>2 DEF RemoveBackupFile
    <2>2. acceptable' \in SUBSET (Docs \cup {NoFile})
      BY <1>5 DEF RemoveBackupFile, InProgress, LocalsTyped
    <2>3. LocalsTyped' /\ Phases'
      BY <1>5, LeaveTyped DEF RemoveBackupFile, LocalsTyped
    <2> QED
      BY <1>5, <1>h, <2>1, <2>2, <2>3 DEF RemoveBackupFile
  <1>6. CASE SaveFault(p)
    <2>1. FilesTyped'
      <3>1. CASE Rename("main", "broken")
        BY <1>l, <3>1, RenameMoves
      <3>2. CASE UNCHANGED fileVars
        BY <3>2 DEF FilesTyped, fileVars
      <3> QED
        BY <1>6, <3>1, <3>2 DEF SaveFault
    <2>2. LocalsTyped' /\ Phases'
      BY <1>6, <1>g DEF SaveFault, SavePCs
    <2> QED
      BY <1>6, <1>h, <1>i, <2>1, <2>2 DEF SaveFault
  <1> QED
    BY <1>1, <1>2, <1>3, <1>4, <1>5, <1>6 DEF SaveXmlFile

\* Every step of XmlReadFile and of RenameFromBackupFile keeps the types.
LEMMA ReadType ==
  ASSUME TypeInv, NEW p \in Procs, XmlReadFile(p) \/ RenameFromBackupFile(p)
  PROVE  TypeInv'
  <1> USE DEF TypeInv
  <1>l. "main" \in Names /\ "bak" \in Names /\ "broken" \in Names /\ NoFile \in Contents
    BY DEF Names, Contents
  <1>g. ASSUME NEW label \in {"readBroken", "readAgain", "bakRead", "bakDrop", "bakRename"},
               pc[p] \in ReadPCs \cup BakPCs,
               label \in {"readBroken", "readAgain"} => task[p] = "read",
               Goto(p, label), UNCHANGED <<task, doc, primed, lock>>
        PROVE  LocalsTyped' /\ Phases'
    <2>1. task[p] \in {"save", "read"}
      BY <1>g DEF Phases, Fits
    <2>2. label \in PCs /\ label # "idle" /\ Fits(label, task[p])
      BY <1>g, <2>1 DEF PCs, Fits, SavePCs, ReadPCs, BakPCs, DelPCs
    <2> QED
      BY <1>g, <2>2, GotoTyped
  <1>h. ASSUME NEW f, Fault(f) \/ UNCHANGED faultVars,
               acceptable' \in SUBSET (Docs \cup {NoFile})
        PROVE  HistoryTyped'
    BY <1>h, FaultCounts DEF HistoryTyped
  <1>i. acceptable \in SUBSET (Docs \cup {NoFile})
    BY DEF HistoryTyped
  <1>u. UNCHANGED fileVars => FilesTyped'
    BY DEF FilesTyped, fileVars
  <1>t. pc[p] \in ReadPCs => task[p] = "read"
    BY DEF Phases, Fits
  <1>1. CASE ReadMain(p)
    <2>1. LocalsTyped' /\ Phases' /\ acceptable' \in SUBSET (Docs \cup {NoFile})
      BY <1>1, <1>g, <1>i, <1>t, ReturnTyped DEF ReadMain, ReadPCs
    <2> QED
      BY <1>1, <1>h, <1>u, <2>1 DEF ReadMain
  <1>2. CASE RenameToBrokenFile(p)
    <2>1. FilesTyped'
      BY <1>2, <1>l, <1>u, RenameMoves DEF RenameToBrokenFile
    <2>2. LocalsTyped' /\ Phases' /\ acceptable' \in SUBSET (Docs \cup {NoFile})
      BY <1>2, <1>g, <1>i, <1>t, ReturnTyped DEF RenameToBrokenFile, ReadPCs
    <2> QED
      BY <1>2, <1>h, <2>1, <2>2 DEF RenameToBrokenFile
  <1>3. CASE ReadAgain(p)
    BY <1>3, <1>h, <1>u, ReturnTyped DEF ReadAgain
  <1>4. CASE ReadBackup(p)
    <2>1. FilesTyped'
      BY <1>4, <1>u, CloseFdTyped DEF ReadBackup
    <2>2. LocalsTyped' /\ Phases' /\ acceptable' \in SUBSET (Docs \cup {NoFile})
      BY <1>4, <1>g, <1>i, ReturnTyped DEF ReadBackup, BakPCs
    <2> QED
      BY <1>4, <1>h, <2>1, <2>2 DEF ReadBackup
  <1>5. CASE DropBackup(p)
    <2>1. FilesTyped'
      <3>1. CASE CloseFd(p)
        BY <3>1, CloseFdTyped
      <3>2. CASE ~CloseFd(p)
        <4>1. /\ files' = [files EXCEPT !["bak"] = NoFile]
              /\ synced' = [synced EXCEPT !["bak"] = TRUE]
              /\ fd' = [q \in Procs |-> IF q = p THEN "none"
                                        ELSE IF fd[q] = "bak" THEN "gone" ELSE fd[q]]
              /\ lockFile' = lockFile
          BY <1>5, <3>2 DEF DropBackup
        <4> QED
          BY <1>l, <4>1 DEF FilesTyped
      <3> QED
        BY <3>1, <3>2
    <2>2. LocalsTyped' /\ Phases' /\ acceptable' \in SUBSET (Docs \cup {NoFile})
      BY <1>5, ReturnTyped DEF DropBackup
    <2> QED
      BY <1>5, <1>h, <2>1, <2>2 DEF DropBackup
  <1>6. CASE RestoreBackup(p)
    <2>1. FilesTyped'
      BY <1>6, <1>l, RenameMoves, CloseFdTyped DEF RestoreBackup
    <2>2. LocalsTyped' /\ Phases' /\ acceptable' \in SUBSET (Docs \cup {NoFile})
      <3>1. pc[p] \in BakPCs /\ task[p] \in {"save", "read"}
        BY <1>6 DEF RestoreBackup, Phases, Fits, BakPCs
      <3> QED
        BY <1>6, <1>g, <1>i, <3>1, ReturnTyped DEF RestoreBackup
    <2> QED
      BY <1>6, <1>h, <2>1, <2>2 DEF RestoreBackup
  <1> QED
    BY <1>1, <1>2, <1>3, <1>4, <1>5, <1>6 DEF XmlReadFile, RenameFromBackupFile

\* Every step of a deletion keeps the types.
LEMMA DeleteType ==
  ASSUME TypeInv, NEW p \in Procs, DeleteFiles(p)
  PROVE  TypeInv'
  <1> USE DEF TypeInv
  <1>l. "main" \in Names /\ "bak" \in Names /\ "broken" \in Names
    BY DEF Names
  <1>1. ASSUME NEW name \in Names, NEW from \in DelPCs, NEW to \in DelPCs,
               DeleteStep(p, name, from, to)
        PROVE  TypeInv'
    <2>1. FilesTyped'
      <3>1. CASE Remove(name)
        BY <3>1, RemoveDrops
      <3>2. CASE UNCHANGED fileVars
        BY <3>2 DEF FilesTyped, fileVars
      <3> QED
        BY <1>1, <3>1, <3>2 DEF DeleteStep
    <2>2. Fits(to, task[p]) /\ to \in PCs /\ to # "idle"
      BY <1>1 DEF DeleteStep, Phases, Fits, DelPCs, SavePCs, ReadPCs, BakPCs, PCs
    <2>3. LocalsTyped' /\ Phases'
      BY <1>1, <2>2, GotoTyped DEF DeleteStep
    <2>4. HistoryTyped'
      BY <1>1, FaultCounts DEF DeleteStep, HistoryTyped
    <2> QED
      BY <2>1, <2>3, <2>4
  <1>2. CASE DeleteLockFile(p)
    <2>1. FilesTyped'
      BY <1>2 DEF DeleteLockFile, FilesTyped
    <2>2. HistoryTyped'
      BY <1>2 DEF DeleteLockFile, HistoryTyped, LocalsTyped, InProgress, faultVars
    <2>3. LocalsTyped' /\ Phases'
      BY <1>2, LeaveTyped DEF DeleteLockFile, LocalsTyped
    <2> QED
      BY <2>1, <2>2, <2>3
  <1> QED
    BY <1>1, <1>2, <1>l DEF DeleteFiles, DelPCs

\* A crash keeps the types.
LEMMA CrashType ==
  ASSUME TypeInv, PowerLoss \/ \E p \in Procs : Kill(p)
  PROVE  TypeInv'
  <1> USE DEF TypeInv
  <1>1. ASSUME NEW p \in Procs, Kill(p) PROVE TypeInv'
    <2>1. FilesTyped'
      BY <1>1, CloseFdTyped DEF Kill
    <2>2. LocalsTyped' /\ Phases'
      BY <1>1, LeaveTyped DEF Kill, LocalsTyped
    <2>3. HistoryTyped'
      BY <1>1, FaultCounts DEF Kill, HistoryTyped
    <2> QED
      BY <2>1, <2>2, <2>3
  <1>2. CASE PowerLoss
    <2>1. PICK lost \in SUBSET {n \in Names : Intact(n) /\ ~synced[n]} :
              files' = [n \in Names |-> IF n \in lost THEN Torn ELSE files[n]]
      BY <1>2 DEF PowerLoss
    <2>2. FilesTyped'
      BY <1>2, <2>1 DEF PowerLoss, FilesTyped, Contents
    <2>3. LocalsTyped' /\ Phases'
      BY <1>2 DEF PowerLoss, LocalsTyped, Phases, Fits, SavePCs, ReadPCs, BakPCs, DelPCs, PCs
    <2>4. HistoryTyped'
      BY <1>2, FaultCounts DEF PowerLoss, HistoryTyped
    <2> QED
      BY <2>2, <2>3, <2>4
  <1> QED
    BY <1>1, <1>2

\* Every step keeps the types.
LEMMA NextType == TypeInv /\ [Next]_vars => TypeInv'
  <1> SUFFICES ASSUME TypeInv, [Next]_vars PROVE TypeInv'
    OBVIOUS
  <1>1. CASE UNCHANGED vars
    BY <1>1 DEF TypeInv, FilesTyped, LocalsTyped, HistoryTyped, Phases, vars, fileVars,
                procVars, faultVars
  <1>2. CASE PowerLoss
    BY <1>2, CrashType
  <1>3. ASSUME NEW p \in Procs, Begin(p) \/ Step(p) \/ Kill(p) PROVE TypeInv'
    BY <1>3, BeginType, SaveType, ReadType, DeleteType, CrashType DEF Begin, Step, Lock
  <1> QED
    BY <1>1, <1>2, <1>3 DEF Next

\* The types of the variables are invariant, and no lock outlives the call that took it
\* (preferences_xml_utils.cpp: every return of SaveXmlFile and XmlReadFile is behind
\* the destructor of PreferencesFileLock), whatever faults happen together.
THEOREM TypeCorrect == Spec => []TypeOK
  <1>1. TypeInv => TypeOK
    BY DEF TypeInv, FilesTyped, LocalsTyped, HistoryTyped, Phases, TypeOK
  <1>2. Spec => []TypeInv
    BY InitType, NextType, PTL DEF Spec
  <1> QED
    BY <1>1, <1>2, PTL

-----------------------------------------------------------------------------
(***************************************************************************)
(* Who works on the files                                                  *)
(***************************************************************************)

\* The scenarios of the specification are ones that the code survives.
SurvivableOnly == \A s \in Scenarios : Survivable(s)

Active(p) == pc[p] \notin {"idle", "lock"}

Lone == CHOOSE p \in Procs : TRUE

\* A process that does not share the file is the only one there.
Alone ==
    "shared" \notin scenario =>
        \A p \in Procs : p # Lone => pc[p] = "idle" /\ ~primed[p]

\* Processes that share the file work on it under their locks.
Locked ==
    "shared" \in scenario =>
        /\ lockFile
        /\ \A p \in Procs : Active(p) => lock[p] = IF task[p] = "read" THEN "read" ELSE "write"

\* A write lock excludes all others.
LockExcludes == \A p, q \in Procs : p # q /\ lock[p] = "write" => lock[q] = "none"

\* What a task may leave behind is acceptable from its beginning to its end.
Announced ==
    \A p \in Procs :
        /\ task[p] = "delete" => "delete" \in scenario /\ NoFile \in acceptable
        /\ task[p] = "save" => PreLoad(p) /\ doc[p] \in acceptable

\* Two saves do not save the same.
DocsApart ==
    \A p, q \in Procs : p # q /\ task[p] = "save" /\ task[q] = "save" => doc[p] # doc[q]

WorkInv == TypeInv /\ Alone /\ Locked /\ LockExcludes /\ Announced /\ DocsApart

\* What a step inside a task does to the variables of the process and to the history.
LEMMA StepShape ==
  ASSUME TypeInv, NEW p \in Procs,
         SaveXmlFile(p) \/ XmlReadFile(p) \/ RenameFromBackupFile(p) \/ DeleteFiles(p)
  PROVE  /\ Active(p)
         /\ scenario' = scenario
         /\ lockFile' = lockFile \/ task[p] = "delete"
         /\ \/ /\ \E label \in PCs \ {"idle", "lock"} : Goto(p, label)
               /\ UNCHANGED <<task, doc, primed, lock, acceptable>>
            \/ /\ Leave(p)
               /\ \E b \in BOOLEAN : primed' = [primed EXCEPT ![p] = b]
               /\ \/ acceptable' = acceptable
                  \/ task[p] = "save" /\ acceptable' = acceptable \ {doc[p]}
                  \/ task[p] = "save" /\ acceptable' = {doc[p]} \cup InProgress(p)
                  \/ task[p] = "delete" /\ acceptable' = {NoFile} \cup InProgress(p)
  <1> DEFINE Going == /\ \E label \in PCs \ {"idle", "lock"} : Goto(p, label)
                      /\ UNCHANGED <<task, doc, primed, lock, acceptable>>
             Primes == \E b \in BOOLEAN : primed' = [primed EXCEPT ![p] = b]
             Leaving == /\ Leave(p)
                        /\ Primes
                        /\ \/ acceptable' = acceptable
                           \/ task[p] = "save" /\ acceptable' = acceptable \ {doc[p]}
                           \/ task[p] = "save" /\ acceptable' = {doc[p]} \cup InProgress(p)
                           \/ task[p] = "delete" /\ acceptable' = {NoFile} \cup InProgress(p)
  <1>p. UNCHANGED primed => Primes
    <2>1. UNCHANGED primed => primed' = [primed EXCEPT ![p] = primed[p]]
      BY DEF TypeInv, LocalsTyped
    <2> QED
      BY <2>1 DEF TypeInv, LocalsTyped
  <1>s. SaveReturnsFalse(p) /\ task[p] = "save" => Leaving
    BY <1>p DEF SaveReturnsFalse
  <1>r. ReadReturns(p) \/ ReadReturnsNull(p) => Leaving
    BY DEF ReadReturns, ReadReturnsNull, Exists
  <1>n. NotRestored(p) => Leaving
    BY <1>s, <1>r DEF NotRestored
  <1>g. ASSUME NEW label \in {"saveOpen", "saveWrite", "saveFsync", "saveRemoveBak",
                              "faultBroken", "bakRead", "bakDrop", "bakRename", "readBroken",
                              "readAgain", "delBak", "delBroken", "delLock"},
               Goto(p, label), UNCHANGED <<task, doc, primed, lock, acceptable>>
        PROVE  Going
    BY <1>g DEF PCs
  <1>f. ASSUME NEW f, Fault(f) \/ UNCHANGED faultVars PROVE scenario' = scenario
    BY <1>f DEF Fault, faultVars
  <1>t. /\ pc[p] \in SavePCs => task[p] = "save"
        /\ pc[p] \in DelPCs => task[p] = "delete"
    BY DEF TypeInv, Phases, Fits
  <1> HIDE DEF Going, Leaving, Primes
  <1>1. CASE SaveXmlFile(p)
    <2>1. Active(p) /\ task[p] = "save"
      BY <1>1, <1>t DEF SaveXmlFile, RenameToBackupFile, Open, Write, Fsync, RemoveBackupFile,
                        SaveFault, SavePCs, Active
    <2>2. CASE RenameToBackupFile(p)
      BY <2>1, <2>2, <1>g, <1>s, <1>f DEF RenameToBackupFile, Rename, fileVars, Going, Leaving,
                                          Primes
    <2>3. CASE Open(p) \/ Write(p) \/ Fsync(p)
      BY <2>1, <2>3, <1>g, <1>f DEF Open, Write, Fsync, fileVars, Going
    <2>4. CASE RemoveBackupFile(p)
      <3>1. Leaving
        BY <2>1, <2>4, <1>p DEF RemoveBackupFile, Leaving
      <3> QED
        BY <2>1, <2>4, <3>1, <1>f DEF RemoveBackupFile, Remove, fileVars, Leaving, Primes
    <2>5. CASE SaveFault(p)
      BY <2>1, <2>5, <1>g, <1>f DEF SaveFault, Rename, fileVars, Going
    <2> QED
      BY <1>1, <2>2, <2>3, <2>4, <2>5 DEF SaveXmlFile
  <1>2. CASE XmlReadFile(p)
    <2>1. Active(p)
      BY <1>2 DEF XmlReadFile, ReadMain, RenameToBrokenFile, ReadAgain, Active
    <2>2. scenario' = scenario
      BY <1>2, <1>f DEF XmlReadFile, ReadMain, RenameToBrokenFile, ReadAgain
    <2>3. lockFile' = lockFile
      BY <1>2 DEF XmlReadFile, ReadMain, RenameToBrokenFile, ReadAgain, Rename, fileVars
    <2>4. Going \/ Leaving
      BY <1>2, <1>g, <1>r DEF XmlReadFile, ReadMain, RenameToBrokenFile, ReadAgain
    <2> QED
      BY <2>1, <2>2, <2>3, <2>4 DEF Going, Leaving, Primes
  <1>3. CASE RenameFromBackupFile(p)
    <2>1. Active(p)
      BY <1>3 DEF RenameFromBackupFile, ReadBackup, DropBackup, RestoreBackup, Active
    <2>2. scenario' = scenario
      BY <1>3, <1>f DEF RenameFromBackupFile, ReadBackup, DropBackup, RestoreBackup
    <2>3. lockFile' = lockFile
      BY <1>3 DEF RenameFromBackupFile, ReadBackup, DropBackup, RestoreBackup, Rename, CloseFd,
                  fileVars
    <2>4. Going \/ Leaving
      BY <1>3, <1>g, <1>n, <1>s DEF RenameFromBackupFile, ReadBackup, DropBackup, RestoreBackup
    <2> QED
      BY <2>1, <2>2, <2>3, <2>4 DEF Going, Leaving, Primes
  <1>4. CASE DeleteFiles(p)
    <2>1. Active(p) /\ task[p] = "delete"
      BY <1>4, <1>t DEF DeleteFiles, DeleteStep, DeleteLockFile, Active, DelPCs
    <2>2. scenario' = scenario
      BY <1>4, <1>f DEF DeleteFiles, DeleteStep, DeleteLockFile
    <2>3. Going \/ Leaving
      BY <1>4, <1>g, <1>p, <2>1 DEF DeleteFiles, DeleteStep, DeleteLockFile, Leaving
    <2> QED
      BY <2>1, <2>2, <2>3 DEF Going, Leaving, Primes
  <1> QED
    BY <1>1, <1>2, <1>3, <1>4

\* A step inside a task keeps who works on the files.
LEMMA StepWork ==
  ASSUME SurvivableOnly, WorkInv, NEW p \in Procs,
         SaveXmlFile(p) \/ XmlReadFile(p) \/ RenameFromBackupFile(p) \/ DeleteFiles(p)
  PROVE  Alone' /\ Locked' /\ LockExcludes' /\ Announced' /\ DocsApart'
  <1> USE DEF WorkInv
  <1>t. LocalsTyped /\ scenario \in Scenarios /\ Phases
    BY DEF TypeInv, HistoryTyped
  <1>a. Active(p) /\ scenario' = scenario /\ (lockFile' = lockFile \/ task[p] = "delete")
    BY StepShape
  <1>s. "shared" \in scenario => lockFile' = lockFile
    BY <1>a, <1>t DEF SurvivableOnly, Survivable, Announced
  <1>d. NoFile \notin Docs
    BY ContentsDistinct
  <1>1. ASSUME NEW label \in PCs \ {"idle", "lock"}, Goto(p, label),
               UNCHANGED <<task, doc, primed, lock, acceptable>>
        PROVE  Alone' /\ Locked' /\ LockExcludes' /\ Announced' /\ DocsApart'
    <2>1. pc' = [pc EXCEPT ![p] = label]
      BY <1>1 DEF Goto
    <2>2. Alone'
      BY <1>1, <1>a, <1>t, <2>1 DEF Alone, LocalsTyped, Active
    <2>3. Locked'
      BY <1>1, <1>a, <1>s, <1>t, <2>1 DEF Locked, LocalsTyped, Active
    <2> QED
      BY <1>1, <1>a, <2>2, <2>3 DEF LockExcludes, Announced, PreLoad, DocsApart
  <1>2. ASSUME Leave(p), NEW b \in BOOLEAN, primed' = [primed EXCEPT ![p] = b],
               \/ acceptable' = acceptable
               \/ task[p] = "save" /\ acceptable' = acceptable \ {doc[p]}
               \/ task[p] = "save" /\ acceptable' = {doc[p]} \cup InProgress(p)
               \/ task[p] = "delete" /\ acceptable' = {NoFile} \cup InProgress(p)
        PROVE  Alone' /\ Locked' /\ LockExcludes' /\ Announced' /\ DocsApart'
    <2>1. /\ \A q \in Procs \ {p} : /\ pc'[q] = pc[q] /\ task'[q] = task[q] /\ doc'[q] = doc[q]
                                    /\ lock'[q] = lock[q] /\ primed'[q] = primed[q]
          /\ pc'[p] = "idle" /\ task'[p] = "none" /\ lock'[p] = "none"
      BY <1>2, <1>t DEF Leave, Goto, LocalsTyped
    <2>2. Alone'
      BY <1>a, <2>1 DEF Alone, Active
    <2>3. Locked'
      BY <1>a, <1>s, <2>1 DEF Locked, Active
    <2>4. LockExcludes'
      BY <2>1 DEF LockExcludes
    <2>5. DocsApart'
      BY <2>1 DEF DocsApart
    <2>6. ASSUME NEW q \in Procs, q # p
          PROVE  /\ task[q] = "save" => doc[q] \in acceptable'
                 /\ task[q] = "delete" => NoFile \in acceptable'
      <3>1. task[q] = "save" => doc[q] \in acceptable /\ doc[q] \in InProgress(p)
                                /\ (task[p] = "save" => doc[q] # doc[p])
        BY <2>6 DEF Announced, DocsApart, InProgress
      <3>2. task[q] = "delete" => NoFile \in acceptable /\ NoFile \in InProgress(p)
                                  /\ (task[p] = "save" => doc[p] # NoFile)
        BY <2>6, <1>d, <1>t DEF Announced, InProgress, Phases
      <3> QED
        BY <1>2, <3>1, <3>2
    <2>7. Announced'
      BY <1>a, <2>1, <2>6 DEF Announced, PreLoad
    <2> QED
      BY <2>2, <2>3, <2>4, <2>5, <2>7
  <1> QED
    BY <1>1, <1>2, StepShape

\* The beginning of a task, and its lock, keep who works on the files.
LEMMA BeginWork ==
  ASSUME SurvivableOnly, WorkInv, NEW p \in Procs, Begin(p) \/ Lock(p)
  PROVE  Alone' /\ Locked' /\ LockExcludes' /\ Announced' /\ DocsApart'
  <1> USE DEF WorkInv
  <1>t. LocalsTyped /\ scenario \in Scenarios /\ Phases
    BY DEF TypeInv, HistoryTyped
  <1>s. "shared" \in scenario => "lock" \notin scenario
    BY <1>t DEF SurvivableOnly, Survivable
  <1>1. CASE Begin(p)
    <2>1. "shared" \notin scenario => p = Lone
      BY <1>1 DEF Begin, Present, Lone
    <2>2. PICK t \in AllTasks, d \in Docs \cup {NoFile} :
            /\ pc[p] = "idle"
            /\ pc' = [pc EXCEPT ![p] = "lock"]
            /\ task' = [task EXCEPT ![p] = t]
            /\ UNCHANGED <<primed, lock, lockFile, scenario>>
            /\ \/ t = "read" /\ doc' = doc /\ acceptable' = acceptable
               \/ /\ t = "delete" /\ doc' = doc /\ acceptable' = acceptable \cup {NoFile}
                  /\ "delete" \in scenario
               \/ /\ t = "save" /\ doc' = [doc EXCEPT ![p] = d]
                  /\ acceptable' = acceptable \cup {d}
                  /\ PreLoad(p) /\ \A q \in Procs : doc[q] # d
      <3>1. CASE BeginRead(p)
        BY <3>1 DEF BeginRead, Goto, fileVars, faultVars, AllTasks
      <3>2. CASE BeginDelete(p)
        BY <3>2 DEF BeginDelete, Goto, fileVars, faultVars, AllTasks
      <3>3. ASSUME NEW d \in Docs, BeginSave(p, d)
            PROVE  /\ pc[p] = "idle"
                   /\ pc' = [pc EXCEPT ![p] = "lock"]
                   /\ task' = [task EXCEPT ![p] = "save"]
                   /\ UNCHANGED <<primed, lock, lockFile, scenario>>
                   /\ doc' = [doc EXCEPT ![p] = d]
                   /\ acceptable' = acceptable \cup {d}
                   /\ PreLoad(p) /\ \A q \in Procs : doc[q] # d
        BY <3>3 DEF BeginSave, Goto, fileVars, faultVars
      <3> QED
        BY <1>1, <3>1, <3>2, <3>3 DEF Begin, AllTasks
    <2>3. Alone'
      BY <2>1, <2>2, <1>t DEF Alone, LocalsTyped
    <2>4. Locked'
      BY <2>2, <1>t DEF Locked, LocalsTyped, Active
    <2>5. LockExcludes'
      BY <2>2 DEF LockExcludes
    <2>6. Announced'
      BY <2>2, <1>t DEF Announced, PreLoad, LocalsTyped
    <2>7. DocsApart'
      BY <2>2, <1>t DEF DocsApart, LocalsTyped
    <2> QED
      BY <2>3, <2>4, <2>5, <2>6, <2>7
  <1>2. CASE Lock(p)
    <2>1. /\ pc[p] = "lock" /\ pc' = [pc EXCEPT ![p] = FirstStep(p)]
          /\ UNCHANGED <<task, doc, primed, acceptable, scenario>>
      BY <1>2 DEF Lock, ReadLock, WriteLock, LockGivenUp, Goto, faultVars, Fault
    <2>2. Alone'
      BY <2>1, <1>t DEF Alone, LocalsTyped
    <2>3. Announced' /\ DocsApart'
      BY <2>1 DEF Announced, PreLoad, DocsApart
    <2>4. CASE ReadLock(p)
      <3>1. /\ task[p] = "read"
            /\ \/ ~lockFile /\ lock' = lock
               \/ /\ \A q \in Procs \ {p} : lock[q] # "write"
                  /\ lock' = [lock EXCEPT ![p] = "read"]
            /\ lockFile' = lockFile
        BY <2>4 DEF ReadLock, fileVars
      <3>2. LockExcludes'
        BY <3>1, <1>t DEF LockExcludes, LocalsTyped
      <3>3. Locked'
        BY <2>1, <3>1, <1>t DEF Locked, LocalsTyped, Active
      <3> QED
        BY <2>2, <2>3, <3>2, <3>3
    <2>5. CASE WriteLock(p)
      <3>1. /\ task[p] # "read" /\ \A q \in Procs \ {p} : lock[q] = "none"
            /\ lock' = [lock EXCEPT ![p] = "write"] /\ lockFile' = TRUE
        BY <2>5 DEF WriteLock
      <3>2. LockExcludes'
        BY <3>1, <1>t DEF LockExcludes, LocalsTyped
      <3>3. Locked'
        BY <2>1, <3>1, <1>t DEF Locked, LocalsTyped, Active
      <3> QED
        BY <2>2, <2>3, <3>2, <3>3
    <2>6. CASE LockGivenUp(p)
      <3>1. "lock" \in scenario /\ lock' = lock
        BY <2>6 DEF LockGivenUp, Fault
      <3> QED
        BY <1>s, <2>1, <2>2, <2>3, <3>1 DEF Locked, LockExcludes
    <2> QED
      BY <1>2, <2>4, <2>5, <2>6 DEF Lock
  <1> QED
    BY <1>1, <1>2

\* A crash leaves nobody at work, or one process less; who shares the file does not crash.
LEMMA CrashWork ==
  ASSUME SurvivableOnly, WorkInv, PowerLoss \/ \E p \in Procs : Kill(p)
  PROVE  Alone' /\ Locked' /\ LockExcludes' /\ Announced' /\ DocsApart'
  <1> USE DEF WorkInv
  <1>t. LocalsTyped /\ scenario \in Scenarios
    BY DEF TypeInv, HistoryTyped
  <1>1. "shared" \notin scenario /\ scenario' = scenario
    BY <1>t DEF SurvivableOnly, Survivable, PowerLoss, Kill, Fault
  <1>2. CASE PowerLoss
    BY <1>1, <1>2 DEF PowerLoss, Alone, Locked, LockExcludes, Announced, DocsApart
  <1>3. ASSUME NEW p \in Procs, Kill(p)
        PROVE  Alone' /\ Locked' /\ LockExcludes' /\ Announced' /\ DocsApart'
    <2>1. /\ \A q \in Procs \ {p} : /\ pc'[q] = pc[q] /\ task'[q] = task[q] /\ doc'[q] = doc[q]
                                    /\ lock'[q] = lock[q] /\ primed'[q] = primed[q]
          /\ pc'[p] = "idle" /\ task'[p] = "none" /\ lock'[p] = "none"
          /\ primed'[p] = FALSE /\ acceptable' = acceptable
      BY <1>3, <1>t DEF Kill, Leave, Goto, LocalsTyped
    <2> QED
      BY <1>1, <2>1 DEF Alone, Locked, LockExcludes, Announced, PreLoad, DocsApart
  <1> QED
    BY <1>2, <1>3

\* Who works on the files is invariant.
LEMMA WorkInvariant ==
  ASSUME SurvivableOnly
  PROVE  Spec => []WorkInv
  <1>1. Init => WorkInv
    <2> SUFFICES ASSUME Init PROVE WorkInv
      OBVIOUS
    <2>1. TypeInv
      BY InitType
    <2>2. "shared" \in scenario => lockFile
      BY DEF Init, SurvivableOnly, Survivable
    <2> QED
      BY <2>1, <2>2 DEF Init, WorkInv, Alone, Locked, LockExcludes, Announced, DocsApart, Active
  <1>2. WorkInv /\ [Next]_vars => WorkInv'
    <2> SUFFICES ASSUME WorkInv, [Next]_vars PROVE WorkInv'
      OBVIOUS
    <2>1. TypeInv'
      BY NextType DEF WorkInv
    <2>2. CASE UNCHANGED vars
      BY <2>1, <2>2 DEF WorkInv, Alone, Locked, LockExcludes, Announced, PreLoad, DocsApart, Active, vars,
                        fileVars, procVars, faultVars
    <2>3. CASE PowerLoss
      BY <2>1, <2>3, CrashWork DEF WorkInv
    <2>4. ASSUME NEW p \in Procs, Begin(p) \/ Step(p) \/ Kill(p) PROVE WorkInv'
      BY <2>1, <2>4, BeginWork, StepWork, CrashWork DEF WorkInv, Step
    <2> QED
      BY <2>2, <2>3, <2>4 DEF Next
  <1> QED
    BY <1>1, <1>2, PTL DEF Spec

\* Of two processes at work neither is a writer.
LEMMA ReadersOnly ==
  ASSUME WorkInv, NEW p \in Procs, NEW q \in Procs, p # q, Active(p), Active(q)
  PROVE  "shared" \in scenario /\ task[p] = "read" /\ task[q] = "read"
  <1>1. "shared" \in scenario
    BY DEF WorkInv, Alone, Active
  <1>2. lock[p] \in {"read", "write"} /\ lock[q] \in {"read", "write"}
    BY <1>1 DEF WorkInv, Locked
  <1>3. lock[p] # "write" /\ lock[q] # "write"
    BY <1>2 DEF WorkInv, LockExcludes
  <1> QED
    BY <1>1, <1>3 DEF WorkInv, Locked

-----------------------------------------------------------------------------
(***************************************************************************)
(* What can be read back                                                   *)
(***************************************************************************)

\* What a process relies on where it is: until a save has written its document the old
\* one can be read back, no reader turns to the backup and no save leaves the main file
\* while that is whole, and no backup that is whole is dropped.
Standing(p) ==
    /\ task[p] = "save" /\ pc[p] \notin {"saveFsync", "saveRemoveBak"} => ReadBack # doc[p]
    /\ pc[p] \in {"readBroken", "saveOpen", "saveWrite", "faultBroken"} \cup BakPCs
          => ~Intact("main")
    /\ pc[p] = "saveOpen" => ~Exists("main")
    /\ pc[p] = "bakDrop" => ~Intact("bak")
    /\ pc[p] \in {"saveFsync", "saveRemoveBak"} => files["main"] = doc[p]
    /\ pc[p] = "saveFsync" => (IF Intact("bak") THEN files["bak"] ELSE NoFile) \in acceptable

\* A save is between its rename of the old file and its first write, or is undoing it.
MidSave ==
    \E p \in Procs :
        /\ task[p] = "save"
        /\ pc[p] \in {"saveOpen", "saveWrite", "faultBroken", "bakRead", "bakRename"}

\* A process that may save knows that no torn file hides a backup, and processes that
\* share the file never need the backup of a save that is over.
BackupIdle ==
    /\ files["main"] = Torn /\ Intact("bak") /\ ~MidSave => \A p \in Procs : ~PreLoad(p)
    /\ "shared" \in scenario /\ ~Intact("main") /\ Intact("bak") => MidSave

\* A deletion that stops after the main file lets only what is acceptable come back.
BackupAcceptable ==
    "delete" \in scenario /\ Intact("bak") =>
        /\ files["bak"] \in acceptable
        /\ \A p \in Procs : task[p] = "save" => files["bak"] # doc[p]

\* Power loss can take nothing but a document whose save is under way.
OldSynced ==
    "power" \in scenario =>
        /\ Intact("bak") => synced["bak"]
        /\ Intact("main") /\ ~synced["main"] => \E p \in Procs : pc[p] = "saveFsync"

\* A save writes to the main file.
WritesMain == \A p \in Procs : pc[p] \in {"saveWrite", "saveFsync"} => fd[p] = "main"

Safe ==
    /\ ReadBack \in acceptable
    /\ \A p \in Procs : Standing(p)
    /\ BackupIdle /\ BackupAcceptable /\ OldSynced

FileInv == WritesMain /\ (~unheeded => Safe)

\* What a step of process p leaves to the others.
OthersSame(p) ==
    /\ scenario' = scenario
    /\ \A q \in Procs \ {p} :
          /\ pc'[q] = pc[q] /\ task'[q] = task[q] /\ doc'[q] = doc[q] /\ primed'[q] = primed[q]

\* A step inside a task is of one process.
LEMMA StepOthers ==
  ASSUME TypeInv, NEW p \in Procs,
         SaveXmlFile(p) \/ XmlReadFile(p) \/ RenameFromBackupFile(p) \/ DeleteFiles(p)
  PROVE  OthersSame(p)
  <1>t. LocalsTyped
    BY DEF TypeInv
  <1>1. scenario' = scenario
    BY StepShape
  <1>2. ASSUME NEW label \in PCs, Goto(p, label), UNCHANGED <<task, doc, primed>>
        PROVE  OthersSame(p)
    BY <1>1, <1>2, <1>t DEF Goto, LocalsTyped, OthersSame
  <1>3. ASSUME Leave(p), NEW b \in BOOLEAN, primed' = [primed EXCEPT ![p] = b]
        PROVE  OthersSame(p)
    BY <1>1, <1>3, <1>t DEF Leave, Goto, LocalsTyped, OthersSame
  <1> QED
    BY <1>2, <1>3, StepShape

\* What the others rely on stands when a reader makes no file whole, and a writer nothing
\* readable but its own document.
LEMMA OthersStand ==
  ASSUME SurvivableOnly, WorkInv, Safe, NEW p \in Procs, Active(p), OthersSame(p),
         "shared" \in scenario /\ task[p] = "read" =>
            (Intact("main")' => Intact("main")) /\ (Intact("bak")' => Intact("bak")),
         \/ ReadBack' = ReadBack
         \/ task[p] = "save" /\ ReadBack' = doc[p]
         \/ task[p] = "delete",
         NEW q \in Procs, q # p
  PROVE  Standing(q)'
  <1>t. LocalsTyped /\ Phases /\ scenario \in Scenarios
    BY DEF WorkInv, TypeInv, HistoryTyped
  <1>q. pc'[q] = pc[q] /\ task'[q] = task[q] /\ doc'[q] = doc[q]
    BY DEF OthersSame
  <1>1. CASE Active(q)
    <2>1. "shared" \in scenario /\ task[p] = "read" /\ task[q] = "read"
      BY <1>1, ReadersOnly
    <2>2. pc[q] \notin SavePCs
      BY <2>1, <1>t DEF Phases, Fits
    <2>3. Standing(q)
      BY DEF Safe
    <2> QED
      BY <1>q, <2>1, <2>2, <2>3 DEF Standing, SavePCs, BakPCs
  <1>2. CASE ~Active(q)
    <2>1. CASE task[q] = "save"
      <3>1. pc[q] = "lock" /\ "shared" \in scenario
        BY <1>2, <2>1, <1>t DEF WorkInv, Alone, Active, Phases, Fits
      <3>2. task[p] # "delete"
        BY <3>1, <1>t DEF WorkInv, Announced, SurvivableOnly, Survivable
      <3>3. ReadBack # doc[q] /\ (task[p] = "save" => doc[p] # doc[q])
        BY <2>1, <3>1 DEF Safe, Standing, WorkInv, DocsApart
      <3> QED
        BY <1>q, <3>1, <3>2, <3>3 DEF Standing, BakPCs
    <2>2. CASE task[q] # "save"
      BY <1>2, <1>q, <2>2 DEF Standing, Active, BakPCs
    <2> QED
      BY <2>1, <2>2
  <1> QED
    BY <1>1, <1>2

\* A writer works alone.
LEMMA WriterAlone ==
  ASSUME WorkInv, NEW p \in Procs, Active(p), task[p] # "read"
  PROVE  /\ \A q \in Procs \ {p} : ~Active(q)
         /\ MidSave <=> /\ task[p] = "save"
                        /\ pc[p] \in {"saveOpen", "saveWrite", "faultBroken", "bakRead",
                                      "bakRename"}
  <1>1. \A q \in Procs \ {p} : ~Active(q)
    BY ReadersOnly
  <1>2. \A q \in Procs : pc[q] \in {"saveOpen", "saveWrite", "faultBroken", "bakRead", "bakRename"}
                         => Active(q)
    BY DEF Active
  <1> QED
    BY <1>1, <1>2 DEF MidSave

\* A save that gives up, with the old document as readable as before.
LEMMA SaveGivesUp ==
  ASSUME SurvivableOnly, WorkInv, Safe, NEW p \in Procs, Active(p), OthersSame(p),
         task[p] = "save", pc[p] \notin {"saveFsync", "saveRemoveBak"}, SaveReturnsFalse(p),
         ReadBack' = ReadBack,
         ~(files'["main"] = Torn /\ Intact("bak")'),
         "shared" \in scenario /\ ~Intact("main")' => ~Intact("bak")',
         Intact("bak")' => files'["bak"] = files["bak"] /\ synced'["bak"] = synced["bak"],
         "power" \in scenario /\ Intact("main")' => synced'["main"]
  PROVE  Safe'
  <1>t. LocalsTyped
    BY DEF WorkInv, TypeInv
  <1>p. /\ pc'[p] = "idle" /\ task'[p] = "none"
        /\ acceptable' = acceptable \ {doc[p]} /\ scenario' = scenario
    BY <1>t DEF SaveReturnsFalse, Leave, Goto, LocalsTyped, OthersSame
  <1>1. ReadBack' \in acceptable'
    BY <1>p DEF Safe, Standing
  <1>2. Standing(p)'
    BY <1>p DEF Standing, BakPCs
  <1>3. \A q \in Procs \ {p} : Standing(q)'
    BY OthersStand
  <1>4. BackupIdle'
    BY <1>p DEF BackupIdle
  <1>5. BackupAcceptable'
    BY <1>p DEF Safe, BackupAcceptable, OthersSame, Intact
  <1>6. OldSynced'
    BY <1>p DEF Safe, OldSynced, Intact
  <1> QED
    BY <1>1, <1>2, <1>3, <1>4, <1>5, <1>6 DEF Safe

\* The rename to the backup, which a save begins with.
LEMMA RenameToBackupSafe ==
  ASSUME SurvivableOnly, WorkInv, Safe, NEW p \in Procs, RenameToBackupFile(p)
  PROVE  Safe'
  <1>t. LocalsTyped /\ FilesTyped /\ Phases
    BY DEF WorkInv, TypeInv
  <1>n. "main" \in Names /\ "bak" \in Names /\ files["main"] \in Contents
    BY <1>t DEF Names, FilesTyped
  <1>a. /\ pc[p] = "saveRename" /\ Active(p) /\ task[p] = "save"
        /\ OthersSame(p) /\ scenario' = scenario
    BY <1>t, StepOthers DEF RenameToBackupFile, Active, Phases, Fits, SavePCs, SaveXmlFile,
                            WorkInv, OthersSame
  <1>b. ~MidSave /\ \A q \in Procs : q # p => ~Active(q)
    BY <1>a, WriterAlone
  <1>c. PreLoad(p) /\ ReadBack # doc[p] /\ ReadBack \in acceptable
    BY <1>a DEF WorkInv, Announced, Safe, Standing
  <1>d. /\ ~(files["main"] = Torn /\ Intact("bak"))
        /\ "shared" \in scenario /\ ~Intact("main") => ~Intact("bak")
    BY <1>b, <1>c DEF Safe, BackupIdle
  <1>e. "power" \in scenario => (Intact("main") => synced["main"]) /\ (Intact("bak") => synced["bak"])
    <2>1. \A q \in Procs : pc[q] # "saveFsync"
      BY <1>a, <1>b DEF Active
    <2> QED
      BY <2>1 DEF Safe, OldSynced
  <1>1. ASSUME Goto(p, "saveOpen"), UNCHANGED <<task, doc, primed, acceptable>>,
               ReadBack' = ReadBack, files'["main"] = NoFile,
               Intact("bak")' => /\ files'["bak"] \in {files["bak"], ReadBack}
                                 /\ "power" \in scenario => synced'["bak"]
        PROVE  Safe'
    <2>1. pc'[p] = "saveOpen" /\ ~Intact("main")' /\ ~Exists("main")' /\ files'["main"] # Torn
      BY <1>1, <1>t, ContentsDistinct DEF Goto, LocalsTyped, Intact, Exists
    <2>2. Standing(p)'
      BY <1>1, <1>c, <2>1 DEF Standing
    <2>3. \A q \in Procs \ {p} : Standing(q)'
      BY <1>1, <1>a, OthersStand
    <2>4. BackupIdle'
      <3>1. MidSave'
        BY <1>a, <1>1, <2>1 DEF MidSave
      <3> QED
        BY <2>1, <3>1 DEF BackupIdle
    <2>5. BackupAcceptable'
      <3>1. \A q \in Procs : task[q] = "save" => ReadBack # doc[q]
        BY <1>b, <1>c DEF Safe, Standing, Active
      <3>2. CASE files'["bak"] = files["bak"]
        BY <1>1, <1>a, <3>2 DEF Safe, BackupAcceptable, Intact
      <3>3. CASE files'["bak"] = ReadBack
        BY <1>1, <1>a, <1>c, <3>1, <3>3 DEF BackupAcceptable, Intact
      <3> QED
        BY <1>1, <3>2, <3>3 DEF BackupAcceptable
    <2>6. OldSynced'
      BY <1>1, <1>a, <2>1 DEF OldSynced
    <2> QED
      BY <1>1, <1>c, <2>2, <2>3, <2>4, <2>5, <2>6 DEF Safe
  <1>2. CASE Exists("main") /\ Rename("main", "bak") /\ Goto(p, "saveOpen")
             /\ UNCHANGED <<task, doc, primed, acceptable>>
    <2>1. /\ files'["bak"] = files["main"] /\ files'["main"] = NoFile
          /\ synced'["bak"] = synced["main"]
      BY <1>2, <1>n, <1>t, RenameMoves
    <2>2. ReadBack' = ReadBack /\ (Intact("main") => files["main"] = ReadBack)
      BY <1>2, <1>d, <1>n, <2>1, ContentsDistinct DEF ReadBack, Intact, Exists, Contents
    <2> QED
      BY <1>1, <1>2, <1>e, <2>1, <2>2 DEF Intact
  <1>3. CASE ~Exists("main") /\ Goto(p, "saveOpen")
             /\ UNCHANGED <<fileVars, task, doc, primed, acceptable>>
    <2>1. files' = files /\ synced' = synced /\ files["main"] = NoFile /\ ReadBack' = ReadBack
      BY <1>3 DEF fileVars, Exists, ReadBack, Intact
    <2> QED
      BY <1>1, <1>3, <1>e, <2>1 DEF Intact
  <1>4. CASE SaveReturnsFalse(p) /\ UNCHANGED fileVars
    <2>1. files' = files /\ synced' = synced /\ ReadBack' = ReadBack
      BY <1>4 DEF fileVars, ReadBack, Intact
    <2> QED
      BY <1>4, <1>a, <1>d, <1>e, <2>1, SaveGivesUp DEF Intact
  <1> QED
    BY <1>2, <1>3, <1>4 DEF RenameToBackupFile

\* A save that goes on, and leaves the backup alone.
LEMMA SaveGoesOn ==
  ASSUME SurvivableOnly, WorkInv, Safe, NEW p \in Procs, Active(p), OthersSame(p),
         task[p] = "save", NEW label \in PCs, Goto(p, label),
         UNCHANGED <<task, doc, primed, acceptable>>,
         ReadBack' = ReadBack \/ ReadBack' = doc[p],
         Standing(p)',
         files'["bak"] = files["bak"], synced'["bak"] = synced["bak"],
         \/ label \in {"saveOpen", "saveWrite", "faultBroken", "bakRead", "bakRename"}
         \/ Intact("main")' \/ ~Intact("bak"),
         "power" \in scenario /\ Intact("main")' => synced'["main"] \/ label = "saveFsync"
  PROVE  Safe'
  <1>t. LocalsTyped
    BY DEF WorkInv, TypeInv
  <1>p. pc'[p] = label /\ task'[p] = "save" /\ scenario' = scenario
    BY <1>t DEF Goto, LocalsTyped, OthersSame
  <1>1. ReadBack' \in acceptable'
    BY DEF Safe, WorkInv, Announced
  <1>3. \A q \in Procs \ {p} : Standing(q)'
    BY OthersStand
  <1>4. BackupIdle'
    <2>1. CASE label \in {"saveOpen", "saveWrite", "faultBroken", "bakRead", "bakRename"}
      BY <2>1, <1>p DEF BackupIdle, MidSave
    <2>2. CASE Intact("main")'
      BY <2>2, ContentsDistinct DEF BackupIdle, Intact
    <2>3. CASE ~Intact("bak")
      BY <2>3 DEF BackupIdle, Intact
    <2> QED
      BY <2>1, <2>2, <2>3
  <1>5. BackupAcceptable'
    BY <1>p DEF Safe, BackupAcceptable, Intact
  <1>6. OldSynced'
    BY <1>p DEF Safe, OldSynced, Intact
  <1> QED
    BY <1>1, <1>3, <1>4, <1>5, <1>6 DEF Safe

\* The steps of SaveXmlFile from open to the end.
LEMMA SaveSafe ==
  ASSUME SurvivableOnly, WorkInv, WritesMain, Safe, NEW p \in Procs, SaveXmlFile(p), ~unheeded'
  PROVE  Safe'
  <1>t. LocalsTyped /\ FilesTyped /\ Phases /\ scenario \in Scenarios
    BY DEF WorkInv, TypeInv, HistoryTyped
  <1>n. "main" \in Names /\ "bak" \in Names /\ "broken" \in Names /\ files["main"] \in Contents
    BY <1>t DEF Names, FilesTyped
  <1>a. Active(p) /\ task[p] = "save" /\ OthersSame(p) /\ scenario' = scenario
    <2>1. pc[p] \in SavePCs
      BY DEF SaveXmlFile, RenameToBackupFile, Open, Write, Fsync, RemoveBackupFile, SaveFault,
             SavePCs
    <2> QED
      BY <1>t, <2>1, StepOthers DEF Active, Phases, Fits, SavePCs, WorkInv, OthersSame
  <1>b. \A q \in Procs : q # p => ~Active(q)
    BY <1>a, WriterAlone
  <1>c. doc[p] \in Docs /\ doc[p] \in acceptable /\ ReadBack \in acceptable /\ Standing(p)
    BY <1>a, <1>t DEF WorkInv, Announced, Safe, Phases
  <1>e. "power" \in scenario /\ Intact("main") /\ ~synced["main"] => pc[p] = "saveFsync"
    BY <1>b DEF Safe, OldSynced, Active
  <1>g. \A label \in PCs : Goto(p, label) => pc'[p] = label
    BY <1>t DEF Goto, LocalsTyped
  <1>l. {"saveWrite", "faultBroken", "saveFsync", "saveRemoveBak", "bakRead"} \subseteq PCs
    BY DEF PCs
  <1>1. CASE RenameToBackupFile(p)
    BY <1>1, RenameToBackupSafe
  <1>2. CASE Open(p)
    <2>1. pc[p] = "saveOpen" /\ UNCHANGED <<task, doc, primed, acceptable>>
      BY <1>2 DEF Open
    <2>2. ~Intact("main") /\ ReadBack # doc[p]
      BY <1>a, <1>c, <2>1 DEF Standing
    <2>3. CASE Goto(p, "saveWrite") /\ files' = [files EXCEPT !["main"] = Torn]
               /\ synced' = [synced EXCEPT !["main"] = FALSE]
      <3>1. files'["main"] = Torn /\ files'["bak"] = files["bak"] /\ synced'["bak"] = synced["bak"]
        BY <2>3, <1>t, <1>n DEF FilesTyped
      <3>2. ~Intact("main")' /\ ReadBack' = ReadBack
        BY <3>1, <2>2, ContentsDistinct DEF ReadBack, Intact
      <3>3. Standing(p)'
        BY <2>1, <2>2, <2>3, <3>2, <1>g, <1>l DEF Standing, BakPCs
      <3> QED
        BY <1>a, <1>l, <2>1, <2>3, <3>1, <3>2, <3>3, SaveGoesOn
    <2>4. CASE Goto(p, "faultBroken") /\ UNCHANGED fileVars
      <3>1. files' = files /\ synced' = synced /\ ReadBack' = ReadBack /\ ~Intact("main")'
        BY <2>2, <2>4 DEF fileVars, ReadBack, Intact
      <3>2. Standing(p)'
        BY <2>1, <2>2, <2>4, <3>1, <1>g, <1>l DEF Standing, BakPCs
      <3> QED
        BY <1>a, <1>l, <2>1, <2>4, <3>1, <3>2, SaveGoesOn
    <2> QED
      BY <1>2, <2>3, <2>4 DEF Open
  <1>3. CASE Write(p)
    <2>1. pc[p] = "saveWrite" /\ UNCHANGED <<task, doc, primed, acceptable, synced>>
      BY <1>3 DEF Write
    <2>2. ~Intact("main") /\ ReadBack # doc[p] /\ fd[p] = "main"
      BY <1>a, <1>c, <2>1 DEF Standing, WritesMain
    <2>3. CASE Goto(p, "saveFsync")
               /\ files' = [n \in Names |-> IF n = fd[p] THEN doc[p] ELSE files[n]]
      <3>1. files'["main"] = doc[p] /\ files'["bak"] = files["bak"] /\ synced'["bak"] = synced["bak"]
        BY <2>1, <2>2, <2>3, <1>n
      <3>2. Intact("main")' /\ ReadBack' = doc[p]
        BY <3>1, <1>c DEF ReadBack, Intact
      <3>3. (IF Intact("bak") THEN files["bak"] ELSE NoFile) \in acceptable
        BY <1>c, <2>2 DEF ReadBack
      <3>4. Standing(p)'
        BY <2>1, <2>3, <3>1, <3>2, <3>3, <1>g, <1>l DEF Standing, BakPCs, Intact
      <3> QED
        BY <1>a, <1>l, <2>1, <2>3, <3>1, <3>2, <3>4, SaveGoesOn
    <2>4. CASE Goto(p, "faultBroken") /\ UNCHANGED files
      <3>1. ReadBack' = ReadBack /\ ~Intact("main")'
        BY <2>2, <2>4 DEF ReadBack, Intact
      <3>2. Standing(p)'
        BY <2>1, <2>2, <2>4, <3>1, <1>g, <1>l DEF Standing, BakPCs
      <3> QED
        BY <1>a, <1>l, <2>1, <2>4, <3>1, <3>2, SaveGoesOn
    <2>5. ~Fault("short")
      BY DEF Fault, Unheeded
    <2> QED
      BY <1>3, <2>3, <2>4, <2>5 DEF Write
  <1>4. CASE Fsync(p)
    <2>1. /\ pc[p] = "saveFsync" /\ UNCHANGED <<task, doc, primed, acceptable, files>>
          /\ Goto(p, "saveRemoveBak")
      BY <1>4 DEF Fsync
    <2>2. files["main"] = doc[p] /\ Intact("main") /\ fd[p] = "main"
      BY <1>c, <2>1 DEF Standing, WritesMain, Intact
    <2>3. ~Fault("fsync")
      BY DEF Fault, Unheeded
    <2>4. synced' = [n \in Names |-> n = fd[p] \/ synced[n]]
      BY <1>4, <2>3 DEF Fsync
    <2>5. synced'["main"] = TRUE /\ synced'["bak"] = (("bak" = fd[p]) \/ synced["bak"])
      BY <2>2, <2>4, <1>n
    <2>6. synced'["bak"] = synced["bak"]
      BY <2>5, <2>2, <1>n, <1>t DEF FilesTyped
    <2>7. ReadBack' = ReadBack /\ Intact("main")'
      BY <2>1, <2>2 DEF ReadBack, Intact
    <2>8. Standing(p)'
      BY <2>1, <2>2, <2>7, <1>g, <1>l DEF Standing, BakPCs
    <2> QED
      BY <1>a, <1>l, <2>1, <2>5, <2>6, <2>7, <2>8, SaveGoesOn
  <1>5. CASE RemoveBackupFile(p)
    <2>1. /\ pc[p] = "saveRemoveBak" /\ acceptable' = {doc[p]} \cup InProgress(p) /\ Leave(p)
      BY <1>5 DEF RemoveBackupFile
    <2>2. files["main"] = doc[p] /\ Intact("main")
      BY <1>c, <2>1 DEF Standing, Intact
    <2>3. pc'[p] = "idle" /\ task'[p] = "none"
      BY <2>1, <1>t DEF Leave, Goto, LocalsTyped
    <2>4. /\ files'["main"] = files["main"] /\ synced'["main"] = synced["main"]
          /\ Intact("bak")' => files'["bak"] = files["bak"] /\ synced'["bak"] = synced["bak"]
                               /\ Fault("removeBak")
      <3>1. CASE Remove("bak")
        BY <3>1, <1>n, <1>t, RemoveDrops, ContentsDistinct DEF Intact
      <3>2. CASE Fault("removeBak") /\ UNCHANGED fileVars
        BY <3>2 DEF fileVars
      <3> QED
        BY <1>5, <3>1, <3>2 DEF RemoveBackupFile
    <2>5. Intact("main")' /\ ReadBack' = doc[p] /\ ReadBack' \in acceptable'
      BY <2>1, <2>2, <2>4 DEF ReadBack, Intact
    <2>6. Standing(p)'
      BY <2>3 DEF Standing, BakPCs
    <2>7. \A q \in Procs \ {p} : Standing(q)'
      BY <1>a, <2>5, OthersStand
    <2>8. BackupIdle'
      BY <2>5, ContentsDistinct DEF BackupIdle, Intact
    <2>9. BackupAcceptable'
      BY <1>a, <1>t, <2>4 DEF BackupAcceptable, SurvivableOnly, Survivable, Fault
    <2>10. OldSynced'
      BY <1>a, <1>e, <2>1, <2>2, <2>4 DEF Safe, OldSynced, Intact
    <2> QED
      BY <2>5, <2>6, <2>7, <2>8, <2>9, <2>10 DEF Safe
  <1>6. CASE SaveFault(p)
    <2>1. /\ pc[p] = "faultBroken" /\ UNCHANGED <<task, doc, primed, acceptable>>
          /\ Goto(p, "bakRead")
      BY <1>6 DEF SaveFault
    <2>2. ~Intact("main") /\ ReadBack # doc[p]
      BY <1>a, <1>c, <2>1 DEF Standing
    <2>3. files'["bak"] = files["bak"] /\ synced'["bak"] = synced["bak"] /\ ~Intact("main")'
      <3>1. CASE Rename("main", "broken")
        <4>1. files'["main"] = NoFile /\ files'["bak"] = files["bak"]
              /\ synced'["bak"] = synced["bak"]
          BY <3>1, <1>n, <1>t, RenameMoves DEF Names
        <4> QED
          BY <4>1, ContentsDistinct DEF Intact
      <3>2. CASE UNCHANGED fileVars
        BY <3>2, <2>2 DEF fileVars, Intact
      <3> QED
        BY <1>6, <3>1, <3>2 DEF SaveFault
    <2>4. ReadBack' = ReadBack
      BY <2>2, <2>3 DEF ReadBack, Intact
    <2>5. Standing(p)'
      BY <2>1, <2>2, <2>3, <2>4, <1>g, <1>l DEF Standing, BakPCs
    <2> QED
      BY <1>a, <1>l, <2>1, <2>3, <2>4, <2>5, SaveGoesOn
  <1> QED
    BY <1>1, <1>2, <1>3, <1>4, <1>5, <1>6 DEF SaveXmlFile

\* A reader may move away what is torn, drop a backup that is torn, and put back a backup
\* that nobody else can be using.
LEMMA ReaderSafe ==
  ASSUME SurvivableOnly, WorkInv, Safe, NEW p \in Procs, Active(p), OthersSame(p),
         task[p] = "read", task'[p] \in {"read", "none"}, acceptable' = acceptable,
         ReadBack' = ReadBack, Standing(p)',
         "shared" \in scenario => (Intact("main")' <=> Intact("main")),
         Intact("bak")' => /\ files'["bak"] = files["bak"] /\ synced'["bak"] = synced["bak"],
         "power" \in scenario /\ Intact("main")' => synced'["main"],
         files'["main"] = Torn /\ Intact("bak")' =>
            files["main"] = Torn /\ (primed'[p] => primed[p])
  PROVE  Safe'
  <1>1. ~MidSave
    <2>1. \A q \in Procs : pc[q] \in {"saveOpen", "saveWrite", "faultBroken", "bakRead",
                                      "bakRename"} => Active(q)
      BY DEF Active
    <2>2. \A q \in Procs : task[q] = "save" => ~Active(q)
      BY ReadersOnly
    <2> QED
      BY <2>1, <2>2 DEF MidSave
  <1>2. ReadBack' \in acceptable'
    BY DEF Safe
  <1>3. \A q \in Procs \ {p} : Standing(q)'
    BY OthersStand DEF Intact
  <1>4. BackupIdle'
    <2>1. "shared" \in scenario /\ ~Intact("main")' => ~Intact("bak")'
      BY <1>1 DEF Safe, BackupIdle, Intact
    <2>2. files'["main"] = Torn /\ Intact("bak")' => \A q \in Procs : ~PreLoad(q)'
      BY <1>1 DEF Safe, BackupIdle, PreLoad, Intact, OthersSame
    <2> QED
      BY <2>1, <2>2 DEF BackupIdle, OthersSame
  <1>5. BackupAcceptable'
    BY DEF Safe, BackupAcceptable, Intact, OthersSame
  <1>6. OldSynced'
    BY DEF Safe, OldSynced, Intact, OthersSame
  <1> QED
    BY <1>2, <1>3, <1>4, <1>5, <1>6 DEF Safe

\* While a process reads or looks at the backup, nothing that is whole waits for power loss.
LEMMA WholeIsSynced ==
  ASSUME WorkInv, Safe, NEW p \in Procs, Active(p), pc[p] # "saveFsync",
         "power" \in scenario, Intact("main")
  PROVE  synced["main"]
  <1>1. ASSUME NEW q \in Procs, pc[q] = "saveFsync" PROVE FALSE
    <2>1. task[q] = "save" /\ Active(q)
      BY <1>1 DEF WorkInv, TypeInv, Phases, Fits, SavePCs, Active
    <2> QED
      BY <1>1, <2>1, ReadersOnly
  <1> QED
    BY <1>1 DEF Safe, OldSynced

\* The steps of XmlReadFile.
LEMMA ReadSafe ==
  ASSUME SurvivableOnly, WorkInv, Safe, NEW p \in Procs, XmlReadFile(p), ~unheeded'
  PROVE  Safe'
  <1>t. LocalsTyped /\ FilesTyped /\ Phases
    BY DEF WorkInv, TypeInv
  <1>n. "main" \in Names /\ "bak" \in Names /\ "broken" \in Names /\ files["main"] \in Contents
    BY <1>t DEF Names, FilesTyped
  <1>a. Active(p) /\ task[p] = "read" /\ OthersSame(p) /\ pc[p] \in ReadPCs
    <2>1. pc[p] \in ReadPCs
      BY DEF XmlReadFile, ReadMain, RenameToBrokenFile, ReadAgain, ReadPCs
    <2> QED
      BY <1>t, <2>1, StepOthers DEF Active, Phases, Fits, ReadPCs, WorkInv
  <1>b. Standing(p) /\ ("power" \in scenario /\ Intact("main") => synced["main"])
    BY <1>a, WholeIsSynced DEF Safe, ReadPCs
  <1>g. \A label \in PCs : Goto(p, label) => pc'[p] = label
    BY <1>t DEF Goto, LocalsTyped
  <1>l. {"readBroken", "bakRead"} \subseteq PCs
    BY DEF PCs
  <1>u. ASSUME UNCHANGED fileVars
        PROVE  /\ files' = files /\ synced' = synced /\ ReadBack' = ReadBack
               /\ Intact("main")' = Intact("main")
    BY <1>u DEF fileVars, ReadBack, Intact
  \* The call returns and has changed no file.
  <1>r. ASSUME UNCHANGED fileVars,
               (ReadReturns(p) /\ Intact("main")) \/ ReadReturnsNull(p)
        PROVE  Safe'
    <2>1. pc'[p] = "idle" /\ task'[p] = "none" /\ acceptable' = acceptable
      BY <1>r, <1>t DEF ReadReturns, ReadReturnsNull, Leave, Goto, LocalsTyped
    <2>2. files["main"] = Torn => ~primed'[p]
      BY <1>r, <1>t, ContentsDistinct DEF ReadReturns, ReadReturnsNull, LocalsTyped, Intact, Exists
    <2>3. Standing(p)'
      BY <2>1 DEF Standing, BakPCs
    <2> QED
      BY <1>a, <1>b, <1>r, <1>u, <2>1, <2>2, <2>3, ReaderSafe DEF Intact
  <1>1. CASE ReadMain(p)
    <2>1. ASSUME NEW label \in {"readBroken", "bakRead"}, Goto(p, label), ~Intact("main"),
                 UNCHANGED <<task, doc, primed, lock, acceptable>>
          PROVE  Safe'
      <3>1. UNCHANGED fileVars /\ pc'[p] = label
        BY <1>1, <2>1, <1>g, <1>l DEF ReadMain
      <3>2. Standing(p)'
        BY <1>a, <2>1, <3>1 DEF Standing, BakPCs, Intact, fileVars
      <3> QED
        BY <1>a, <1>b, <1>u, <2>1, <3>1, <3>2, ReaderSafe DEF Intact
    <2>2. ~Fault("readOther")
      BY DEF Fault, Unheeded
    <2>3. files["main"] = Torn \/ ~Exists("main") => ~Intact("main")
      BY ContentsDistinct DEF Intact, Exists
    <2> QED
      BY <1>1, <1>r, <2>1, <2>2, <2>3 DEF ReadMain
  <1>2. CASE RenameToBrokenFile(p)
    <2>1. pc[p] = "readBroken" /\ ~Intact("main")
      BY <1>2, <1>b DEF RenameToBrokenFile, Standing
    <2>2. CASE Rename("main", "broken") /\ Goto(p, "bakRead")
               /\ UNCHANGED <<task, doc, primed, lock, acceptable>>
      <3>1. files'["main"] = NoFile /\ files'["bak"] = files["bak"] /\ synced'["bak"] = synced["bak"]
        BY <2>2, <1>n, <1>t, RenameMoves DEF Names
      <3>2. ~Intact("main")' /\ ReadBack' = ReadBack /\ files'["main"] # Torn
        BY <2>1, <3>1, ContentsDistinct DEF ReadBack, Intact
      <3>3. Standing(p)'
        BY <1>a, <1>g, <1>l, <2>2, <3>2 DEF Standing, BakPCs
      <3> QED
        BY <1>a, <2>1, <2>2, <3>1, <3>2, <3>3, ReaderSafe
    <2>3. CASE ReadReturnsNull(p) /\ UNCHANGED fileVars
      BY <2>3, <1>r
    <2> QED
      BY <1>2, <2>2, <2>3 DEF RenameToBrokenFile
  <1>3. CASE ReadAgain(p)
    BY <1>3, <1>r DEF ReadAgain
  <1> QED
    BY <1>1, <1>2, <1>3 DEF XmlReadFile

\* The steps of RenameFromBackupFile, for a reader and for a save that has failed.
LEMMA BackupSafe ==
  ASSUME SurvivableOnly, WorkInv, Safe, NEW p \in Procs, RenameFromBackupFile(p), ~unheeded'
  PROVE  Safe'
  <1>t. LocalsTyped /\ FilesTyped /\ Phases
    BY DEF WorkInv, TypeInv
  <1>n. "main" \in Names /\ "bak" \in Names /\ files["bak"] \in Contents
    BY <1>t DEF Names, FilesTyped
  <1>a. /\ Active(p) /\ task[p] \in {"save", "read"} /\ OthersSame(p) /\ pc[p] \in BakPCs
        /\ ~Intact("main")
    <2>1. pc[p] \in BakPCs
      BY DEF RenameFromBackupFile, ReadBackup, DropBackup, RestoreBackup, BakPCs
    <2> QED
      BY <1>t, <2>1, StepOthers DEF Active, Phases, Fits, BakPCs, WorkInv, Safe, Standing
  <1>b. /\ task[p] = "save" => ReadBack # doc[p]
        /\ pc[p] = "bakDrop" => ~Intact("bak")
        /\ "power" \in scenario /\ Intact("bak") => synced["bak"]
    BY <1>a DEF Safe, Standing, OldSynced, BakPCs
  <1>c. "shared" \in scenario /\ task[p] = "read" => ~Intact("bak")
    <2>1. ASSUME NEW q \in Procs, task[q] = "save", "shared" \in scenario, task[p] = "read"
          PROVE  ~Active(q)
      BY <1>a, <2>1, ReadersOnly
    <2> QED
      BY <1>a, <2>1 DEF Safe, BackupIdle, MidSave, Active
  <1>g. \A label \in PCs : Goto(p, label) => pc'[p] = label
    BY <1>t DEF Goto, LocalsTyped
  <1>l. {"bakDrop", "bakRename", "readAgain"} \subseteq PCs
    BY DEF PCs
  \* The backup is not there or is torn, and is given up.
  <1>r. ASSUME NotRestored(p), files'["main"] = files["main"], ~Intact("bak"), ~Intact("bak")'
        PROVE  Safe'
    <2>1. ReadBack' = ReadBack /\ ~Intact("main")'
      BY <1>a, <1>r DEF ReadBack, Intact
    <2>2. CASE task[p] = "save"
      BY <1>a, <1>r, <2>1, <2>2, SaveGivesUp DEF NotRestored, BakPCs
    <2>3. CASE task[p] = "read"
      <3>1. ReadReturnsNull(p)
        BY <1>r, <2>3 DEF NotRestored
      <3>2. pc'[p] = "idle" /\ task'[p] = "none" /\ acceptable' = acceptable
        BY <3>1, <1>t DEF ReadReturnsNull, Leave, Goto, LocalsTyped
      <3>3. Standing(p)'
        BY <3>2 DEF Standing, BakPCs
      <3> QED
        BY <1>a, <1>r, <2>1, <2>3, <3>2, <3>3, ReaderSafe
    <2> QED
      BY <1>a, <2>2, <2>3
  <1>1. CASE ReadBackup(p)
    <2>1. ASSUME NEW label \in {"bakDrop", "bakRename"}, Goto(p, label),
                 label = "bakDrop" => ~Intact("bak"),
                 UNCHANGED <<fileVars, task, doc, primed, acceptable>>
          PROVE  Safe'
      <3>1. /\ files' = files /\ synced' = synced /\ ReadBack' = ReadBack /\ pc'[p] = label
            /\ Intact("main")' = Intact("main") /\ Intact("bak")' = Intact("bak")
        BY <2>1, <1>g, <1>l DEF fileVars, ReadBack, Intact
      <3>2. Standing(p)'
        BY <1>a, <1>b, <2>1, <3>1 DEF Standing
      <3>3. CASE task[p] = "save"
        BY <1>a, <1>l, <2>1, <3>1, <3>2, <3>3, SaveGoesOn
      <3>4. CASE task[p] = "read"
        BY <1>a, <2>1, <3>1, <3>2, <3>4, ReaderSafe
      <3> QED
        BY <1>a, <3>3, <3>4
    <2>2. ~Fault("readBak")
      BY DEF Fault, Unheeded
    <2>3. files["bak"] = Torn \/ ~Exists("bak") => ~Intact("bak")
      BY ContentsDistinct DEF Intact, Exists
    <2>4. CASE ~Exists("bak") /\ NotRestored(p) /\ CloseFd(p)
      BY <1>r, <2>3, <2>4 DEF CloseFd, Intact
    <2> QED
      BY <1>1, <2>1, <2>2, <2>3, <2>4 DEF ReadBackup
  <1>2. CASE DropBackup(p)
    <2>1. ~Intact("bak") /\ NotRestored(p)
      BY <1>2, <1>b DEF DropBackup
    <2>2. files' = files \/ files' = [files EXCEPT !["bak"] = NoFile]
      BY <1>2 DEF DropBackup, CloseFd
    <2>3. files'["main"] = files["main"] /\ ~Intact("bak")'
      BY <2>1, <2>2, <1>n, <1>t, ContentsDistinct DEF FilesTyped, Intact
    <2> QED
      BY <1>r, <2>1, <2>3
  <1>3. CASE RestoreBackup(p)
    <2>1. CASE Rename("bak", "main") /\
               (IF task[p] = "save" THEN SaveReturnsFalse(p)
                ELSE Goto(p, "readAgain") /\ UNCHANGED <<task, doc, primed, lock, acceptable>>)
      <3>1. /\ files'["main"] = files["bak"] /\ files'["bak"] = NoFile
            /\ synced'["main"] = synced["bak"]
        BY <2>1, <1>n, <1>t, RenameMoves
      <3>2. ~Intact("bak")' /\ (Intact("main")' <=> Intact("bak")) /\ ReadBack' = ReadBack
        BY <1>a, <3>1, ContentsDistinct DEF ReadBack, Intact
      <3>3. CASE task[p] = "save"
        BY <1>a, <1>b, <2>1, <3>1, <3>2, <3>3, SaveGivesUp DEF BakPCs
      <3>4. CASE task[p] = "read"
        <4>1. pc'[p] = "readAgain" /\ task'[p] = "read" /\ acceptable' = acceptable
          BY <2>1, <3>4, <1>g, <1>l
        <4>2. Standing(p)'
          BY <4>1 DEF Standing, BakPCs
        <4> QED
          BY <1>a, <1>b, <1>c, <3>1, <3>2, <3>4, <4>1, <4>2, ReaderSafe
      <3> QED
        BY <1>a, <3>3, <3>4
    <2>2. CASE ~Exists("bak") /\ NotRestored(p) /\ CloseFd(p)
      BY <1>r, <2>2, ContentsDistinct DEF CloseFd, Intact, Exists
    <2>3. ~Fault("restore")
      BY DEF Fault, Unheeded
    <2> QED
      BY <1>3, <2>1, <2>2, <2>3 DEF RestoreBackup
  <1> QED
    BY <1>1, <1>2, <1>3 DEF RenameFromBackupFile

\* A deletion works alone, and has announced that nothing may be left.
LEMMA DeleteSafe ==
  ASSUME SurvivableOnly, WorkInv, Safe, NEW p \in Procs, DeleteFiles(p)
  PROVE  Safe'
  <1>t. LocalsTyped /\ FilesTyped /\ Phases /\ scenario \in Scenarios
    BY DEF WorkInv, TypeInv, HistoryTyped
  <1>n. "main" \in Names /\ "bak" \in Names /\ "broken" \in Names
    BY DEF Names
  <1>a. /\ Active(p) /\ task[p] = "delete" /\ OthersSame(p) /\ pc[p] \in DelPCs
    <2>1. pc[p] \in DelPCs
      BY DEF DeleteFiles, DeleteStep, DeleteLockFile, DelPCs
    <2> QED
      BY <1>t, <2>1, StepOthers DEF Active, Phases, Fits, DelPCs, WorkInv
  <1>b. /\ "delete" \in scenario /\ "shared" \notin scenario /\ scenario' = scenario
        /\ NoFile \in acceptable
    BY <1>a, <1>t DEF WorkInv, Announced, SurvivableOnly, Survivable, OthersSame
  <1>c. \A q \in Procs : q # p => pc[q] = "idle" /\ task[q] = "none" /\ pc'[q] = "idle"
                                  /\ task'[q] = "none"
    BY <1>a, <1>b, <1>t DEF WorkInv, Alone, Active, Phases, Fits, OthersSame
  <1>d. "power" \in scenario => (Intact("main") => synced["main"]) /\ (Intact("bak") => synced["bak"])
    BY <1>a, WholeIsSynced DEF Safe, OldSynced, DelPCs
  <1>e. /\ Intact("bak") => files["bak"] \in acceptable
        /\ Intact("main") => files["main"] \in acceptable
    BY <1>b DEF Safe, BackupAcceptable, ReadBack
  <1>f. files["main"] = Torn /\ Intact("bak") => \A q \in Procs : ~PreLoad(q)
    <2>1. ~MidSave
      BY <1>a, <1>c DEF MidSave
    <2> QED
      BY <2>1 DEF Safe, BackupIdle
  \* Whatever is left of the two files is acceptable.
  <1>g. ASSUME \/ files'["main"] = files["main"] /\ synced'["main"] = synced["main"]
               \/ files'["main"] = NoFile,
               \/ files'["bak"] = files["bak"] /\ synced'["bak"] = synced["bak"]
               \/ files'["bak"] = NoFile,
               pc'[p] \in DelPCs \cup {"idle"}, task'[p] \in {"delete", "none"},
               UNCHANGED primed,
               \/ acceptable' = acceptable
               \/ ReadBack' = NoFile /\ NoFile \in acceptable' /\ ~Intact("bak")'
        PROVE  Safe'
    <2>1. /\ Intact("main")' => Intact("main") /\ files'["main"] = files["main"]
                                /\ synced'["main"] = synced["main"]
          /\ Intact("bak")' => Intact("bak") /\ files'["bak"] = files["bak"]
                               /\ synced'["bak"] = synced["bak"]
          /\ files'["main"] = Torn => files["main"] = Torn
      BY <1>g, ContentsDistinct DEF Intact
    <2>2. ReadBack' \in acceptable'
      BY <1>b, <1>e, <1>g, <2>1 DEF ReadBack
    <2>3. \A q \in Procs : task'[q] # "save" /\ pc'[q] \in DelPCs \cup {"idle"}
      BY <1>c, <1>g
    <2>4. \A q \in Procs : Standing(q)'
      BY <2>3 DEF Standing, BakPCs, DelPCs
    <2>5. BackupIdle'
      BY <1>b, <1>f, <1>g, <2>1 DEF BackupIdle, PreLoad
    <2>6. BackupAcceptable'
      BY <1>e, <1>g, <2>1, <2>3 DEF BackupAcceptable
    <2>7. OldSynced'
      BY <1>b, <1>d, <2>1 DEF OldSynced
    <2> QED
      BY <2>2, <2>4, <2>5, <2>6, <2>7 DEF Safe
  <1>1. ASSUME NEW name \in Names, NEW from \in DelPCs, NEW to \in DelPCs,
               DeleteStep(p, name, from, to)
        PROVE  Safe'
    <2>1. pc'[p] = to /\ UNCHANGED <<task, primed, acceptable>>
      BY <1>1, <1>t DEF DeleteStep, Goto, LocalsTyped
    <2>2. /\ \/ files'["main"] = files["main"] /\ synced'["main"] = synced["main"]
             \/ files'["main"] = NoFile
          /\ \/ files'["bak"] = files["bak"] /\ synced'["bak"] = synced["bak"]
             \/ files'["bak"] = NoFile
      <3>1. CASE Remove(name)
        BY <3>1, <1>n, <1>t, RemoveDrops
      <3>2. CASE UNCHANGED fileVars
        BY <3>2 DEF fileVars
      <3> QED
        BY <1>1, <3>1, <3>2 DEF DeleteStep
    <2>3. pc'[p] \in DelPCs \cup {"idle"} /\ task'[p] \in {"delete", "none"}
      BY <1>a, <2>1
    <2> QED
      BY <1>g, <2>1, <2>2, <2>3
  <1>2. CASE DeleteLockFile(p)
    <2>1. pc'[p] = "idle" /\ task'[p] = "none" /\ UNCHANGED <<files, synced, primed>>
      BY <1>2, <1>t DEF DeleteLockFile, Leave, Goto, LocalsTyped
    <2>2. acceptable' = acceptable \/ (NoFile \in acceptable' /\ \A n \in Names : ~Exists(n))
      BY <1>2 DEF DeleteLockFile
    <2>3. (\A n \in Names : ~Exists(n)) => ReadBack' = NoFile /\ ~Intact("bak")'
      BY <2>1, <1>n, ContentsDistinct DEF ReadBack, Intact, Exists
    <2> QED
      BY <1>g, <2>1, <2>2, <2>3
  <1> QED
    BY <1>1, <1>2, <1>n DEF DeleteFiles, DelPCs

\* The beginning of a task and its lock touch no file; what a save will write is new.
LEMMA BeginSafe ==
  ASSUME SurvivableOnly, WorkInv, Safe, NEW p \in Procs, Begin(p) \/ Lock(p)
  PROVE  Safe'
  <1>t. LocalsTyped /\ Phases
    BY DEF WorkInv, TypeInv
  <1>1. /\ files' = files /\ synced' = synced /\ primed' = primed /\ scenario' = scenario
        /\ acceptable \subseteq acceptable'
        /\ pc[p] \in {"idle", "lock"}
        /\ \/ task'[p] = "save" /\ doc'[p] # ReadBack
              /\ (BackupAcceptable => ("delete" \in scenario /\ Intact("bak") => doc'[p] # files["bak"]))
           \/ task'[p] \in {"read", "delete"}
        /\ pc'[p] \in {"lock", "saveRename", "readMain", "delMain"}
        /\ \A q \in Procs \ {p} : pc'[q] = pc[q] /\ task'[q] = task[q] /\ doc'[q] = doc[q]
    <2>1. CASE BeginRead(p)
      BY <2>1, <1>t DEF BeginRead, Goto, LocalsTyped, fileVars, faultVars
    <2>2. CASE BeginDelete(p)
      BY <2>2, <1>t DEF BeginDelete, Goto, LocalsTyped, fileVars, faultVars
    <2>3. ASSUME NEW d \in Docs, BeginSave(p, d)
          PROVE  /\ files' = files /\ synced' = synced /\ primed' = primed /\ scenario' = scenario
                 /\ acceptable \subseteq acceptable'
                 /\ pc[p] = "idle" /\ task'[p] = "save" /\ doc'[p] = d /\ d \notin acceptable
                 /\ pc'[p] = "lock"
                 /\ \A q \in Procs \ {p} : pc'[q] = pc[q] /\ task'[q] = task[q] /\ doc'[q] = doc[q]
      BY <2>3, <1>t DEF BeginSave, Goto, LocalsTyped, fileVars, faultVars
    <2>4. CASE \E d \in Docs : BeginSave(p, d)
      BY <2>3, <2>4 DEF Safe, BackupAcceptable
    <2>5. CASE Lock(p)
      <3>1. /\ files' = files /\ synced' = synced /\ primed' = primed /\ scenario' = scenario
            /\ acceptable' = acceptable /\ task' = task /\ doc' = doc
            /\ pc[p] = "lock" /\ pc' = [pc EXCEPT ![p] = FirstStep(p)]
        BY <2>5 DEF Lock, ReadLock, WriteLock, LockGivenUp, Goto, Fault, fileVars, faultVars
      <3>2. task[p] \in {"save", "read", "delete"}
        BY <3>1, <1>t DEF Phases, Fits, LocalsTyped, AllTasks
      <3>3. FirstStep(p) \in {"saveRename", "readMain", "delMain"}
        BY <3>2 DEF FirstStep
      <3>4. task[p] = "save" => doc[p] # ReadBack
        BY <3>1 DEF Safe, Standing
      <3>5. BackupAcceptable =>
              (task[p] = "save" /\ "delete" \in scenario /\ Intact("bak") => doc[p] # files["bak"])
        BY DEF BackupAcceptable
      <3> QED
        BY <3>1, <3>2, <3>3, <3>4, <3>5, <1>t DEF LocalsTyped
    <2> QED
      BY <2>1, <2>2, <2>4, <2>5 DEF Begin
  <1>2. ReadBack' = ReadBack /\ ReadBack' \in acceptable'
    BY <1>1 DEF Safe, ReadBack, Intact
  <1>3. Standing(p)'
    BY <1>1, <1>2 DEF Standing, BakPCs
  <1>4. ASSUME NEW q \in Procs \ {p} PROVE Standing(q)'
    BY <1>1, <1>2 DEF Safe, Standing, Intact, Exists
  <1>5. MidSave' <=> MidSave
    BY <1>1 DEF MidSave
  <1>6. BackupIdle'
    BY <1>1, <1>5 DEF Safe, BackupIdle, PreLoad, Intact
  <1>7. BackupAcceptable'
    BY <1>1 DEF Safe, BackupAcceptable, Intact
  <1>8. OldSynced'
    BY <1>1 DEF Safe, OldSynced, Intact
  <1> QED
    BY <1>2, <1>3, <1>4, <1>6, <1>7, <1>8 DEF Safe

\* A process that dies leaves the files, one that loses power leaves what is synced; when
\* that is not the document of the save under way, the backup is there.
LEMMA CrashSafe ==
  ASSUME SurvivableOnly, WorkInv, Safe, PowerLoss \/ \E p \in Procs : Kill(p)
  PROVE  Safe'
  <1>t. LocalsTyped /\ FilesTyped /\ Phases /\ scenario \in Scenarios
    BY DEF WorkInv, TypeInv, HistoryTyped
  <1>n. "main" \in Names /\ "bak" \in Names
    BY DEF Names
  <1>s. /\ "shared" \notin scenario /\ "lateLoad" \notin scenario /\ scenario' = scenario
        /\ ~({"kill", "power"} \subseteq scenario)
    BY <1>t DEF SurvivableOnly, Survivable, PowerLoss, Kill, Fault
  <1>1. ASSUME NEW p \in Procs, Kill(p) PROVE Safe'
    <2>1. /\ \A q \in Procs \ {p} : pc'[q] = pc[q] /\ task'[q] = task[q] /\ primed'[q] = primed[q]
          /\ pc'[p] = "idle" /\ task'[p] = "none" /\ primed'[p] = FALSE /\ acceptable' = acceptable
          /\ files' = files /\ pc[p] # "idle" /\ "kill" \in scenario
      BY <1>1, <1>t DEF Kill, Leave, Goto, CloseFd, Fault, LocalsTyped
    <2>2. \A q \in Procs : q # p => pc[q] = "idle" /\ ~primed[q] /\ task[q] = "none"
      BY <1>s, <1>t, <2>1 DEF WorkInv, Alone, Phases, Fits
    <2>3. \A q \in Procs : pc'[q] = "idle" /\ task'[q] = "none" /\ ~primed'[q]
      BY <2>1, <2>2
    <2>4. ReadBack' \in acceptable'
      BY <2>1 DEF Safe, ReadBack, Intact
    <2>5. \A q \in Procs : Standing(q)'
      BY <2>3 DEF Standing, BakPCs
    <2>6. BackupIdle'
      BY <1>s, <2>3 DEF BackupIdle, PreLoad
    <2>7. BackupAcceptable'
      BY <1>s, <2>1, <2>3 DEF Safe, BackupAcceptable, Intact
    <2>8. OldSynced'
      BY <1>s, <2>1 DEF OldSynced
    <2> QED
      BY <2>4, <2>5, <2>6, <2>7, <2>8 DEF Safe
  <1>2. CASE PowerLoss
    <2>1. PICK lost \in SUBSET {n \in Names : Intact(n) /\ ~synced[n]} :
              files' = [n \in Names |-> IF n \in lost THEN Torn ELSE files[n]]
      BY <1>2 DEF PowerLoss
    <2>2. /\ \A q \in Procs : pc'[q] = "idle" /\ task'[q] = "none" /\ ~primed'[q]
          /\ synced'["main"] /\ synced'["bak"] /\ acceptable' = acceptable /\ "power" \in scenario
      BY <1>2, <1>n DEF PowerLoss, Fault
    <2>3. "bak" \notin lost
      BY <2>1, <2>2 DEF Safe, OldSynced
    <2>4. files'["bak"] = files["bak"]
      BY <1>n, <2>1, <2>3
    <2>5. ReadBack' \in acceptable'
      <3>1. CASE "main" \notin lost
        <4>1. files'["main"] = files["main"]
          BY <1>n, <2>1, <3>1
        <4> QED
          BY <2>2, <2>4, <4>1 DEF Safe, ReadBack, Intact
      <3>2. CASE "main" \in lost
        <4>1. Intact("main") /\ ~synced["main"] /\ files'["main"] = Torn
          BY <1>n, <2>1, <3>2
        <4>2. PICK q \in Procs : pc[q] = "saveFsync"
          BY <2>2, <4>1 DEF Safe, OldSynced
        <4>3. (IF Intact("bak") THEN files["bak"] ELSE NoFile) \in acceptable
          BY <4>2 DEF Safe, Standing
        <4> QED
          BY <2>2, <2>4, <4>1, <4>3, ContentsDistinct DEF ReadBack, Intact
      <3> QED
        BY <3>1, <3>2
    <2>6. \A q \in Procs : Standing(q)'
      BY <2>2 DEF Standing, BakPCs
    <2>7. BackupIdle'
      BY <1>s, <2>2 DEF BackupIdle, PreLoad
    <2>8. BackupAcceptable'
      BY <1>s, <2>2, <2>4 DEF Safe, BackupAcceptable, Intact
    <2>9. OldSynced'
      BY <2>2 DEF OldSynced
    <2> QED
      BY <2>5, <2>6, <2>7, <2>8, <2>9 DEF Safe
  <1> QED
    BY <1>1, <1>2

\* The descriptor of a save is that of the main file until the save closes it.
LEMMA WritesMainKept ==
  ASSUME SurvivableOnly, WorkInv, WritesMain, [Next]_vars
  PROVE  WritesMain'
  <1>t. LocalsTyped /\ FilesTyped /\ Phases
    BY DEF WorkInv, TypeInv
  <1>1. CASE UNCHANGED vars
    BY <1>1 DEF WritesMain, vars, fileVars, procVars
  <1>2. CASE PowerLoss
    BY <1>2 DEF WritesMain, PowerLoss
  <1>3. ASSUME NEW p \in Procs, Begin(p) \/ Lock(p) PROVE WritesMain'
    <2>1. fd' = fd
      BY <1>3 DEF Begin, BeginRead, BeginDelete, BeginSave, Lock, ReadLock, WriteLock,
                  LockGivenUp, fileVars
    <2>2. PICK label : pc' = [pc EXCEPT ![p] = label]
                       /\ ((pc[p] = "lock" /\ label = FirstStep(p)) \/ label = "lock")
      BY <1>3 DEF Begin, BeginRead, BeginDelete, BeginSave, Lock, ReadLock, WriteLock,
                  LockGivenUp, Goto
    <2>3. label \notin {"saveWrite", "saveFsync"}
      <3>1. pc[p] = "lock" => task[p] \in {"save", "read", "delete"}
        BY <1>t DEF Phases, Fits, LocalsTyped, AllTasks
      <3> QED
        BY <2>2, <3>1 DEF FirstStep
    <2> QED
      BY <1>t, <2>1, <2>2, <2>3 DEF WritesMain, LocalsTyped
  <1>4. ASSUME NEW p \in Procs, Kill(p) PROVE WritesMain'
    BY <1>4, <1>t DEF Kill, Leave, Goto, CloseFd, WritesMain, LocalsTyped, FilesTyped
  <1>5. ASSUME NEW p \in Procs,
               SaveXmlFile(p) \/ XmlReadFile(p) \/ RenameFromBackupFile(p) \/ DeleteFiles(p)
        PROVE  WritesMain'
    <2>1. Active(p) /\ OthersSame(p)
      BY <1>5, StepShape, StepOthers DEF WorkInv
    <2>2. \A q \in Procs \ {p} : pc'[q] \notin {"saveWrite", "saveFsync"}
      <3> SUFFICES ASSUME NEW q \in Procs \ {p}, pc[q] \in {"saveWrite", "saveFsync"} PROVE FALSE
        BY <2>1 DEF OthersSame
      <3>1. Active(q) /\ task[q] = "save"
        BY <1>t DEF Active, Phases, Fits, SavePCs
      <3> QED
        BY <2>1, <3>1, ReadersOnly
    <2>g. \A label : Goto(p, label) => pc'[p] = label
      BY <1>t DEF Goto, LocalsTyped
    <2>l. Leave(p) => pc'[p] = "idle"
      BY <2>g DEF Leave
    <2>n. NotRestored(p) \/ SaveReturnsFalse(p) \/ ReadReturns(p) \/ ReadReturnsNull(p) => Leave(p)
      BY DEF NotRestored, SaveReturnsFalse, ReadReturns, ReadReturnsNull
    <2>3. pc'[p] \in {"saveWrite", "saveFsync"} => fd'[p] = "main"
      <3>1. CASE Open(p)
        BY <3>1, <2>g, <1>t DEF Open, FilesTyped
      <3>2. CASE Write(p)
        BY <3>2 DEF Write, WritesMain
      <3>3. CASE RenameToBackupFile(p) \/ Fsync(p) \/ RemoveBackupFile(p) \/ SaveFault(p)
        BY <3>3, <2>g, <2>l, <2>n DEF RenameToBackupFile, Fsync, RemoveBackupFile, SaveFault
      <3>4. CASE XmlReadFile(p)
        BY <3>4, <2>g, <2>l, <2>n DEF XmlReadFile, ReadMain, RenameToBrokenFile, ReadAgain
      <3>5. CASE RenameFromBackupFile(p)
        BY <3>5, <2>g, <2>l, <2>n DEF RenameFromBackupFile, ReadBackup, DropBackup, RestoreBackup
      <3>6. CASE DeleteFiles(p)
        BY <3>6, <2>g, <2>l DEF DeleteFiles, DeleteStep, DeleteLockFile
      <3> QED
        BY <1>5, <3>1, <3>2, <3>3, <3>4, <3>5, <3>6 DEF SaveXmlFile
    <2> QED
      BY <2>2, <2>3 DEF WritesMain
  <1> QED
    BY <1>1, <1>2, <1>3, <1>4, <1>5 DEF Next, Step

\* What the first process finds is acceptable: whole, or in the backup of a save that was
\* cut short.
LEMMA InitFile ==
  ASSUME SurvivableOnly
  PROVE  Init => FileInv
  <1> SUFFICES ASSUME Init PROVE FileInv
    OBVIOUS
  <1>1. PICK d \in Docs \cup {NoFile} :
          /\ acceptable = {d}
          /\ \/ files = [main |-> d, bak |-> NoFile, broken |-> NoFile]
             \/ /\ "cutShort" \in scenario
                /\ files \in [main : {Torn, NoFile}, bak : {d}, broken : {NoFile}]
    BY DEF Init
  <1>2. ReadBack = d
    <2>1. CASE files = [main |-> d, bak |-> NoFile, broken |-> NoFile]
      BY <2>1, ContentsDistinct DEF ReadBack, Intact
    <2>2. CASE files \in [main : {Torn, NoFile}, bak : {d}, broken : {NoFile}]
      <3>1. files["main"] \in {Torn, NoFile} /\ files["bak"] = d
        BY <2>2
      <3> QED
        BY <3>1, ContentsDistinct DEF ReadBack, Intact
    <2> QED
      BY <1>1, <2>1, <2>2
  <1>3. "shared" \in scenario => ~Intact("bak")
    <2>1. "shared" \in scenario => files["bak"] = NoFile
      BY <1>1 DEF Init, SurvivableOnly, Survivable
    <2> QED
      BY <2>1, ContentsDistinct DEF Intact
  <1>l. files["main"] = Torn => "lateLoad" \notin scenario
    BY <1>1, ContentsDistinct DEF Init, SurvivableOnly, Survivable
  <1>4. Intact("bak") => files["bak"] \in acceptable
    <2>1. files["bak"] \in {d, NoFile}
      BY <1>1
    <2> QED
      BY <1>1, <2>1, ContentsDistinct DEF Intact
  <1>5. /\ \A p \in Procs : pc[p] = "idle" /\ task[p] = "none" /\ ~primed[p]
        /\ synced["main"] /\ synced["bak"]
    BY DEF Init, Names
  <1>6. \A p \in Procs : Standing(p)
    BY <1>5 DEF Standing, BakPCs
  <1>7. BackupIdle /\ BackupAcceptable /\ OldSynced /\ WritesMain
    BY <1>3, <1>l, <1>4, <1>5 DEF BackupIdle, PreLoad, BackupAcceptable, OldSynced, WritesMain
  <1> QED
    BY <1>1, <1>2, <1>6, <1>7 DEF FileInv, Safe

\* Every step keeps what can be read back.
LEMMA NextFile ==
  ASSUME SurvivableOnly, WorkInv, FileInv, [Next]_vars
  PROVE  FileInv'
  <1>1. WritesMain'
    BY WritesMainKept DEF FileInv
  <1>2. ASSUME ~unheeded' PROVE Safe'
    <2>1. ~unheeded
      BY <1>2, ZenonT(40) DEF Next, Begin, BeginRead, BeginDelete, BeginSave, Step, Lock, ReadLock, WriteLock,
                  LockGivenUp, SaveXmlFile, RenameToBackupFile, Open, Write, Fsync,
                  RemoveBackupFile, SaveFault, XmlReadFile, ReadMain, RenameToBrokenFile,
                  ReadAgain, RenameFromBackupFile, ReadBackup, DropBackup, RestoreBackup,
                  DeleteFiles, DeleteStep, DeleteLockFile, Kill, PowerLoss, Fault, faultVars, vars
    <2>2. Safe /\ WritesMain
      BY <2>1 DEF FileInv
    <2>3. CASE UNCHANGED vars
      BY <2>2, <2>3 DEF Safe, Standing, BackupIdle, PreLoad, MidSave, BackupAcceptable, OldSynced,
                        ReadBack, Intact, Exists, vars, fileVars, procVars, faultVars
    <2>4. CASE PowerLoss
      BY <2>2, <2>4, CrashSafe
    <2>5. ASSUME NEW p \in Procs, Begin(p) \/ Step(p) \/ Kill(p) PROVE Safe'
      BY <1>2, <2>2, <2>5, BeginSafe, SaveSafe, ReadSafe, BackupSafe, DeleteSafe, CrashSafe DEF Step
    <2> QED
      BY <2>3, <2>4, <2>5 DEF Next
  <1> QED
    BY <1>1, <1>2 DEF FileInv

\* What can be read back is invariant.
LEMMA FileInvariant ==
  ASSUME SurvivableOnly
  PROVE  Spec => []FileInv
  <1>1. Init => FileInv
    BY InitFile
  <1>2. WorkInv /\ FileInv /\ [Next]_vars => FileInv'
    BY NextFile
  <1> QED
    BY <1>1, <1>2, WorkInvariant, PTL DEF Spec

\* The document of the last save that returned true, or of one that was cut short after it,
\* can be read back from the file or from .bak after every step of SaveXmlFile, XmlReadFile,
\* RenameFromBackupFile and DeletePreferences (preferences_xml_utils.cpp), for any number of
\* faults in any of the combinations of Survivable, as long as the code heeds them.
THEOREM RecoverableHolds ==
  ASSUME SurvivableOnly
  PROVE  Spec => []Recoverable
  <1>1. FileInv => Recoverable
    BY DEF FileInv, Safe, Recoverable
  <1> QED
    BY <1>1, FileInvariant, PTL

\* No step gives .bak up while it is the only copy of a document that nobody has asked to
\* delete (preferences_xml_utils.cpp: RenameToBackupFile, RemoveBackupFile and the removal
\* of a backup that cannot be read).
THEOREM OnlyCopyKeptHolds ==
  ASSUME SurvivableOnly
  PROVE  Spec => OnlyCopyKept
  <1> DEFINE Keeps == (~Intact("main") /\ Intact("bak") /\ NoFile \notin acceptable /\ ~unheeded)
                          => (Intact("main")' \/ files'["bak"] = files["bak"])
  <1>1. WorkInv /\ FileInv /\ [Next]_vars => [Keeps]_files
    <2> SUFFICES ASSUME WorkInv, FileInv, Next, ~Intact("main"), Intact("bak"),
                        NoFile \notin acceptable, ~unheeded
                 PROVE  Intact("main")' \/ files'["bak"] = files["bak"]
      BY DEF vars, fileVars
    <2>t. FilesTyped /\ Phases /\ scenario \in Scenarios
      BY DEF WorkInv, TypeInv, HistoryTyped
    <2>n. "main" \in Names /\ "bak" \in Names /\ "broken" \in Names /\ files["main"] \in Contents
      BY <2>t DEF Names, FilesTyped
    <2>s. Safe /\ WritesMain
      BY DEF FileInv
    <2>1. CASE PowerLoss
      <3>1. PICK lost \in SUBSET {n \in Names : Intact(n) /\ ~synced[n]} :
                files' = [n \in Names |-> IF n \in lost THEN Torn ELSE files[n]]
        BY <2>1 DEF PowerLoss
      <3>2. "bak" \notin lost
        BY <2>1, <2>s, <3>1 DEF PowerLoss, Fault, Safe, OldSynced
      <3> QED
        BY <2>n, <3>1, <3>2
    <2>2. ASSUME NEW p \in Procs, Begin(p) \/ Lock(p) \/ Kill(p)
          PROVE  files' = files
      BY <2>2 DEF Begin, BeginRead, BeginDelete, BeginSave, Lock, ReadLock, WriteLock,
                  LockGivenUp, Kill, CloseFd, fileVars
    <2>3. ASSUME NEW p \in Procs, SaveXmlFile(p)
          PROVE  Intact("main")' \/ files'["bak"] = files["bak"]
      <3>1. CASE RenameToBackupFile(p)
        <4>1. pc[p] = "saveRename" /\ task[p] = "save" /\ Active(p) /\ PreLoad(p)
          BY <3>1, <2>t DEF RenameToBackupFile, Phases, Fits, SavePCs, Active, WorkInv, Announced
        <4>2. ~MidSave
          BY <4>1, WriterAlone
        <4>3. files["main"] # Torn
          BY <2>s, <4>1, <4>2 DEF Safe, BackupIdle
        <4>4. ~Exists("main")
          BY <2>n, <4>3 DEF Exists, Intact, Contents
        <4> QED
          BY <3>1, <4>4 DEF RenameToBackupFile, fileVars
      <3>2. CASE Open(p) \/ Write(p) \/ Fsync(p)
        <4>1. Write(p) => fd[p] = "main"
          BY <2>s DEF Write, WritesMain
        <4> QED
          BY <2>n, <2>t, <3>2, <4>1 DEF Open, Write, Fsync, fileVars, FilesTyped
      <3>3. CASE RemoveBackupFile(p)
        <4>1. pc[p] = "saveRemoveBak" /\ task[p] = "save" /\ doc[p] \in Docs
          BY <3>3, <2>t DEF RemoveBackupFile, Phases, Fits, SavePCs
        <4> QED
          BY <2>s, <4>1 DEF Safe, Standing, Intact
      <3>4. CASE SaveFault(p)
        <4>1. CASE Rename("main", "broken")
          BY <2>n, <2>t, <4>1, RenameMoves
        <4> QED
          BY <3>4, <4>1 DEF SaveFault, fileVars
      <3> QED
        BY <2>3, <3>1, <3>2, <3>3, <3>4 DEF SaveXmlFile
    <2>4. ASSUME NEW p \in Procs, XmlReadFile(p)
          PROVE  files'["bak"] = files["bak"]
      <3>1. CASE Rename("main", "broken")
        BY <2>n, <2>t, <3>1, RenameMoves
      <3> QED
        BY <2>4, <3>1 DEF XmlReadFile, ReadMain, RenameToBrokenFile, ReadAgain, fileVars
    <2>5. ASSUME NEW p \in Procs, RenameFromBackupFile(p)
          PROVE  Intact("main")' \/ files'["bak"] = files["bak"]
      <3>1. ~DropBackup(p)
        BY <2>s DEF DropBackup, Safe, Standing
      <3>2. CASE Rename("bak", "main")
        BY <2>n, <2>t, <3>2, RenameMoves DEF Intact
      <3> QED
        BY <2>5, <3>1, <3>2 DEF RenameFromBackupFile, ReadBackup, RestoreBackup, CloseFd, fileVars
    <2>6. ASSUME NEW p \in Procs, DeleteFiles(p) PROVE FALSE
      <3>1. task[p] = "delete"
        BY <2>6, <2>t DEF DeleteFiles, DeleteStep, DeleteLockFile, Phases, Fits, DelPCs
      <3> QED
        BY <3>1 DEF WorkInv, Announced
    <2> QED
      BY <2>1, <2>2, <2>3, <2>4, <2>5, <2>6 DEF Next, Step
  <1> QED
    BY <1>1, WorkInvariant, FileInvariant, PTL DEF Spec, OnlyCopyKept
=============================================================================
