---------------------------- MODULE ModuleInstaller ----------------------------
(***************************************************************************)
(* server/services/module-installer.ts for one module: the journaled       *)
(* transaction that installs, updates or uninstalls it, its rollback, and  *)
(* the recovery at startup.                                                *)
(*                                                                         *)
(* pc is the next file operation (or await) of the only transaction the    *)
(* `modules' lock admits.  Each operation is a step, after which the       *)
(* process can die (Crash) and before which it can throw (Fails).  A       *)
(* recursive copy or removal can also stop halfway (the ...Torn steps).    *)
(* Between two awaits nothing else of the process runs, so the module      *)
(* writes its files only at awaits, and in the dispose() that stops it.    *)
(* host.stop() only stops what runs when it is called: an apply that was   *)
(* queued before it can have started the module again when it returns.     *)
(***************************************************************************)
CONSTANTS
  Versions,   \* the copies of the module's code that archives can hold
  None,       \* nothing there
  Broken      \* a folder copied or removed by half

ASSUME ValuesAssumption == None # Broken /\ {None, Broken} \cap Versions = {}

Files == {"config", "configBackup", "data"}
Folder == Versions \cup {None, Broken}
Empty == [f \in Files |-> None]

VARIABLES
  \* on disk
  target,      \* moduleDir(id)
  candidate,   \* candidateDir(id, transactionId)
  backup,      \* backupDir(id, transactionId)
  owned,       \* the module's config, its recovery copy, and its data
  registry,    \* the copy the registry entry describes
  snapshot,    \* the copies of `owned' in snapshotDir(transactionId)
  journalPhase,   \* the phase in the journal; "none": there is no journal
  operation, hadTarget, savedRegistry, existed,   \* the rest of the journal
  \* in memory
  pc,
  mode,        \* whether pc is in the transaction, its rollback or the recovery
  phase,       \* this.state.phase
  staged,      \* the copy that passed every check
  running,     \* the copy the modules host runs
  stopped,     \* hostStopped
  late         \* the copy that ran when the last host.stop() returned (auxiliary)

details == <<operation, hadTarget, savedRegistry, existed>>
journal == <<journalPhase, details>>
folders == <<target, candidate, backup>>
memory == <<phase, staged, running, stopped, late>>
vars == <<folders, owned, registry, snapshot, journal, pc, mode, memory>>

Phases == {"none", "preparing", "snapshotting", "prepared", "moving-target",
           "promoting-candidate", "updating-state", "rolled-back", "committed"}

\* The places where an exception can be thrown.
Throwing ==
  {"copy", "build", "snap", "captureConfig", "captureBackup", "captureData", "prepare",
   "move", "rename", "promote", "swap", "update", "record", "reload",
   "eraseConfig", "eraseBackup", "eraseData", "forgetting", "commit",
   "restoreFolder", "renameBack", "rmCandidate", "restoreBackup", "restoreConfig",
   "restoreData", "restoreRegistry", "reloadOld", "mark", "cleanup", "untouched"}

TypeOK ==
  /\ {target, candidate, backup} \subseteq Folder
  /\ owned \in [Files -> Folder]
  /\ registry \in Versions \cup {None}
  /\ snapshot \in [Files -> Folder]
  /\ journalPhase \in Phases
  /\ operation \in {"install", "uninstall"} /\ hadTarget \in BOOLEAN
  /\ savedRegistry \in Versions \cup {None} /\ existed \subseteq Files
  /\ pc \in Throwing \cup {"idle", "checking", "stop", "forget", "stopAgain", "thrown", "down", "init"}
  /\ mode \in {"forward", "rollback", "recover"}
  /\ phase \in {"idle", "checking", "ready", "installing", "error", "done"}
  /\ staged \in Versions \cup {None}
  /\ {running, late} \subseteq Versions \cup {None}
  /\ stopped \in BOOLEAN

Init ==
  /\ target \in Versions \cup {None}
  /\ registry = target
  /\ owned \in [Files -> Versions \cup {None}]
  /\ candidate = None /\ backup = None
  /\ snapshot = Empty
  /\ journalPhase = "none" /\ operation = "install" /\ hadTarget = FALSE
  /\ savedRegistry = None /\ existed = {}
  /\ pc = "idle" /\ mode = "forward"
  /\ phase = "idle" /\ staged = None
  /\ running = None /\ stopped = FALSE /\ late = None

\* rmSync(transactionFile(journal.transactionId))
RemoveJournal ==
  /\ journalPhase' = "none" /\ operation' = "install" /\ hadTarget' = FALSE
  /\ savedRegistry' = None /\ existed' = {}

-----------------------------------------------------------------------------
(***************************************************************************)
(* Mutants: plausible mistakes in the code, not part of the specification. *)
(***************************************************************************)

\* Mutated: the promotion of the candidate is forgotten.
MutatedTooLate == journalPhase \in {"moving-target", "updating-state", "committed"}

\* Record: reload() does not stop what runs.
RecordWhileRunning ==
  /\ pc = "record" /\ pc' = "reload"
  /\ registry' = staged
  /\ UNCHANGED <<folders, owned, snapshot, journal, mode, memory>>

\* RemoveArtifacts: the journal is removed, but not the backup.
RemoveJournalOnly ==
  /\ pc = "cleanup"
  /\ candidate' = None
  /\ snapshot' = Empty /\ RemoveJournal
  /\ pc' = IF mode = "recover" THEN "init" ELSE "idle"
  /\ mode' = IF mode = "recover" THEN mode ELSE "forward"
  /\ phase' = IF mode = "recover" THEN phase ELSE "done"
  /\ staged' = None
  /\ UNCHANGED <<target, backup, owned, registry, running, stopped, late>>

\* RemoveTarget: whether there is a backup to move back is not asked.
RemoveTargetAnyway ==
  /\ pc = "restoreFolder"
  /\ target' = None
  /\ pc' = IF hadTarget THEN "renameBack" ELSE "rmCandidate"
  /\ UNCHANGED <<candidate, backup, owned, registry, snapshot, journal, mode, memory>>

-----------------------------------------------------------------------------
\* phaseMayHaveMutatedState(journal.phase)
Mutated ==
  journalPhase \in {"moving-target", "promoting-candidate", "updating-state", "committed"}

\* What a removal of `old' that stops halfway can leave.
Partial(old) ==
  {new \in [Files -> Folder] :
     \A f \in Files : new[f] \in {old[f], None} \/ (f = "data" /\ old[f] # None /\ new[f] = Broken)}

\* writeJournal(journal, p): atomic.
WriteJournal(from, p, to) ==
  /\ pc = from /\ pc' = to
  /\ journalPhase' = p
  /\ UNCHANGED details
  /\ UNCHANGED <<folders, owned, registry, snapshot, mode, memory>>

\* restorePrivateFile() or rmSync() of one file; the data folder is displaced
\* before its copy takes its place.
Restore(from, f, to) ==
  /\ pc = from /\ pc' = to
  /\ owned' = [owned EXCEPT ![f] = snapshot[f]]
  /\ UNCHANGED <<folders, registry, snapshot, journal, mode, memory>>

\* copyPrivateFile() or cpSync() of one file into the snapshot.
Capture(from, f, to) ==
  /\ pc = from /\ pc' = to
  /\ snapshot' = [snapshot EXCEPT ![f] = owned[f]]
  /\ UNCHANGED <<folders, owned, registry, journal, mode, memory>>

\* deleteModuleConfig(), deleteModuleData()
Erase(from, f, to) ==
  /\ pc = from /\ pc' = to
  /\ owned' = [owned EXCEPT ![f] = None]
  /\ UNCHANGED <<folders, registry, snapshot, journal, mode, memory>>

-----------------------------------------------------------------------------
(***************************************************************************)
(* The modules host: it runs the module, which writes its files.           *)
(***************************************************************************)

\* The awaits at which the rest of the server goes on.
Awaiting == {"idle", "checking", "build", "stop", "reload", "forgetting", "stopAgain", "reloadOld"}

\* writeModuleConfig(), which writes the recovery copy first, and writeModuleData().
Writes == {written \in SUBSET Files : "config" \in written => "configBackup" \in written}

Written(written) ==
  owned' = [f \in Files |-> IF f \in written /\ owned[f] # Broken THEN running ELSE owned[f]]

\* deactivate(): dispose() still has a working context, which is then revoked.
Disposed ==
  /\ running' = None
  /\ \E written \in Writes : (running = None => written = {}) /\ Written(written)

\* apply() or reload() activate the module, which takes a folder that has the hash of
\* the registry entry.
Activate ==
  /\ pc \in Awaiting
  /\ running = None /\ target \in Versions /\ registry = target
  /\ running' = target
  /\ UNCHANGED <<folders, owned, registry, snapshot, journal, pc, mode, phase, staged, stopped, late>>

\* modules:setEnabled, an apply() that finds it off, or the last machine leaves.
Deactivate ==
  /\ pc \in Awaiting
  /\ running # None
  /\ Disposed
  /\ UNCHANGED <<folders, registry, snapshot, journal, pc, mode, phase, staged, stopped, late>>

ModuleWrites ==
  /\ pc \in Awaiting
  /\ running # None
  /\ \E written \in Writes : Written(written)
  /\ UNCHANGED <<folders, registry, snapshot, journal, pc, mode, memory>>

-----------------------------------------------------------------------------
(***************************************************************************)
(* Inspection                                                              *)
(***************************************************************************)

\* checkUrl(), checkFile(), up to their first await.
Check ==
  /\ pc = "idle" /\ pc' = "checking"
  /\ journalPhase = "none"
  /\ phase' = "checking" /\ staged' = None
  /\ UNCHANGED <<folders, owned, registry, snapshot, journal, mode, running, stopped, late>>

\* The download, the extraction and validate() end.
Inspected ==
  /\ pc = "checking"
  /\ \/ \E v \in Versions : staged' = v /\ phase' = "ready"
     \/ phase' = "error" /\ UNCHANGED staged
  /\ pc' = "idle"
  /\ UNCHANGED <<folders, owned, registry, snapshot, journal, mode, running, stopped, late>>

\* cancel().  A check under way sees another runId and reports nothing.
Cancel ==
  /\ pc \in {"idle", "checking"}
  /\ phase' = "idle" /\ staged' = None
  /\ pc' = "idle"
  /\ UNCHANGED <<folders, owned, registry, snapshot, journal, mode, running, stopped, late>>

-----------------------------------------------------------------------------
(***************************************************************************)
(* The transaction                                                         *)
(***************************************************************************)

\* install() and uninstall() up to the end of beginTransaction().
Begin(op, had) ==
  /\ phase' = "installing"
  /\ journalPhase' = "preparing" /\ operation' = op /\ hadTarget' = had
  /\ savedRegistry' = None /\ existed' = {}
  /\ stopped' = FALSE

Install ==
  /\ pc = "idle" /\ phase = "ready"
  /\ journalPhase = "none"
  /\ Begin("install", target # None)
  /\ pc' = "copy"
  /\ UNCHANGED <<folders, owned, registry, snapshot, mode, staged, running, late>>

\* A call that is refused: for its URL or its token, for a module that is not
\* there, or because the journal of an earlier transaction is.
Refused ==
  /\ pc = "idle"
  /\ phase' = "error"
  /\ UNCHANGED <<folders, owned, registry, snapshot, journal, pc, mode, staged, running, stopped, late>>

\* uninstall() up to its await of host.stop(), which stops what runs.
Uninstall ==
  /\ pc = "idle"
  /\ journalPhase = "none"
  /\ registry # None /\ target # None
  /\ Begin("uninstall", TRUE)
  /\ staged' = None
  /\ Disposed /\ late' = None
  /\ pc' = "stop"
  /\ UNCHANGED <<folders, registry, snapshot, mode>>

\* cpSync(staged.root, candidate)
Copy ==
  /\ pc = "copy" /\ pc' = "build"
  /\ candidate' = staged
  /\ UNCHANGED <<target, backup, owned, registry, snapshot, journal, mode, memory>>

CopyTorn ==
  /\ pc = "copy" /\ pc' = "thrown"
  /\ candidate' = Broken
  /\ UNCHANGED <<target, backup, owned, registry, snapshot, journal, mode, memory>>

\* compileModuleAt(), verifyCatalogBinding(), and host.stop() up to its await.
Built ==
  /\ pc = "build" /\ pc' = "stop"
  /\ Disposed /\ late' = None
  /\ UNCHANGED <<folders, registry, snapshot, journal, mode, phase, staged, stopped>>

\* host.stop() returns, whether or not the module runs again.
Stopped ==
  /\ pc = "stop" /\ pc' = "snap"
  /\ stopped' = TRUE /\ late' = running
  /\ UNCHANGED <<folders, owned, registry, snapshot, journal, mode, phase, staged, running>>

Snapshotting ==
  /\ pc = "snap" /\ pc' = "captureConfig"
  /\ journalPhase' = "snapshotting"
  /\ savedRegistry' = registry /\ existed' = {f \in Files : owned[f] # None}
  /\ UNCHANGED <<operation, hadTarget, folders, owned, registry, snapshot, mode, memory>>

CaptureSnapshot ==
  \/ Capture("captureConfig", "config", "captureBackup")
  \/ Capture("captureBackup", "configBackup", "captureData")
  \/ Capture("captureData", "data", "prepare")

CaptureTorn ==
  /\ pc = "captureData" /\ owned["data"] # None
  /\ pc' = "thrown"
  /\ snapshot' = [snapshot EXCEPT !["data"] = Broken]
  /\ UNCHANGED <<folders, owned, registry, journal, mode, memory>>

\* revalidateStaged() is the last chance to refuse the candidate.
Prepared == WriteJournal("prepare", "prepared", "move")

MovingTarget == WriteJournal("move", "moving-target", "rename")

\* renameSync(target, backup)
MoveTarget ==
  /\ pc = "rename"
  /\ IF hadTarget
     THEN backup' = target /\ target' = None
     ELSE UNCHANGED <<backup, target>>
  /\ pc' = IF operation = "install" THEN "promote" ELSE "update"
  /\ UNCHANGED <<candidate, owned, registry, snapshot, journal, mode, memory>>

PromotingCandidate == WriteJournal("promote", "promoting-candidate", "swap")

\* renameSync(candidate, target)
PromoteCandidate ==
  /\ pc = "swap" /\ pc' = "update"
  /\ target' = candidate /\ candidate' = None
  /\ UNCHANGED <<backup, owned, registry, snapshot, journal, mode, memory>>

UpdatingState ==
  WriteJournal("update", "updating-state",
               IF operation = "install" THEN "record" ELSE "eraseConfig")

\* host.rescan(), host.record(), and host.reload() up to its await, which stops what runs.
Record ==
  /\ pc = "record" /\ pc' = "reload"
  /\ registry' = staged
  /\ Disposed
  /\ UNCHANGED <<folders, snapshot, journal, mode, phase, staged, stopped, late>>

\* host.reload() succeeds, whether or not the module is enabled.
Reloaded ==
  /\ pc = "reload" /\ registry = target
  /\ pc' = "commit"
  /\ UNCHANGED <<folders, owned, registry, snapshot, journal, mode, memory>>

EraseOwned ==
  \/ Erase("eraseConfig", "config", "eraseBackup")
  \/ Erase("eraseBackup", "configBackup", "eraseData")
  \/ Erase("eraseData", "data", "forget")

EraseTorn ==
  /\ pc = "eraseData" /\ owned["data"] # None
  /\ pc' = "thrown"
  /\ owned' = [owned EXCEPT !["data"] = Broken]
  /\ UNCHANGED <<folders, registry, snapshot, journal, mode, memory>>

\* host.forget() up to its await, which stops what runs, ...
Forget ==
  /\ pc = "forget" /\ pc' = "forgetting"
  /\ Disposed
  /\ UNCHANGED <<folders, registry, snapshot, journal, mode, phase, staged, stopped, late>>

\* ... and the operation it awaits.
Forgotten ==
  /\ pc = "forgetting" /\ pc' = "commit"
  /\ registry' = None
  /\ UNCHANGED <<folders, owned, snapshot, journal, mode, memory>>

Committed == WriteJournal("commit", "committed", "cleanup")

-----------------------------------------------------------------------------
(***************************************************************************)
(* Failures, the rollback and the recovery                                 *)
(***************************************************************************)

\* A file operation fails without an effect, or something awaited fails.
Fails ==
  /\ pc \in Throwing
  /\ pc' = "thrown"
  /\ UNCHANGED <<folders, owned, registry, snapshot, journal, mode, memory>>

\* The catch clause of install() or uninstall() calls rollbackTransaction(), up to
\* its await of host.stop() or, when nothing was touched, of host.reload().
RollBack ==
  /\ pc = "thrown" /\ mode = "forward" /\ journalPhase # "committed"
  /\ mode' = "rollback"
  /\ \/ Mutated /\ pc' = "stopAgain" /\ Disposed /\ late' = None
     \/ ~Mutated /\ stopped /\ hadTarget /\ pc' = "reloadOld" /\ Disposed /\ UNCHANGED late
     \/ ~Mutated /\ ~(stopped /\ hadTarget) /\ pc' = "untouched" /\ UNCHANGED <<owned, running, late>>
  /\ UNCHANGED <<folders, registry, snapshot, journal, phase, staged, stopped>>

\* Its host.stop() returns, whether or not the module runs again.
StoppedAgain ==
  /\ pc = "stopAgain" /\ pc' = "restoreFolder"
  /\ late' = running
  /\ UNCHANGED <<folders, owned, registry, snapshot, journal, mode, phase, staged, running, stopped>>

\* The rollback or the cleanup fails: "restart the app to retry recovery".
GiveUp ==
  /\ pc = "thrown"
  /\ mode = "rollback" \/ (mode = "forward" /\ journalPhase = "committed")
  /\ pc' = "idle" /\ mode' = "forward"
  /\ phase' = "error" /\ staged' = None
  /\ UNCHANGED <<folders, owned, registry, snapshot, journal, running, stopped, late>>

\* restoreModuleFolder(): the target is removed, ...
RemoveTarget ==
  /\ pc = "restoreFolder"
  /\ hadTarget => backup # None
  /\ target' = None
  /\ pc' = IF hadTarget THEN "renameBack" ELSE "rmCandidate"
  /\ UNCHANGED <<candidate, backup, owned, registry, snapshot, journal, mode, memory>>

RemoveTargetTorn ==
  /\ pc = "restoreFolder"
  /\ hadTarget => backup # None
  /\ target # None /\ target' = Broken
  /\ pc' = "thrown"
  /\ UNCHANGED <<candidate, backup, owned, registry, snapshot, journal, mode, memory>>

\* ... or was not moved, or was moved back already ...
KeepTarget ==
  /\ pc = "restoreFolder"
  /\ hadTarget /\ backup = None
  /\ pc' = IF target # None THEN "rmCandidate" ELSE "thrown"
  /\ UNCHANGED <<folders, owned, registry, snapshot, journal, mode, memory>>

\* ... and the backup takes its place.
RenameBack ==
  /\ pc = "renameBack" /\ pc' = "rmCandidate"
  /\ target' = backup /\ backup' = None
  /\ UNCHANGED <<candidate, owned, registry, snapshot, journal, mode, memory>>

\* The last step of restoreModuleFolder(), and assertSnapshotComplete().
RemoveCandidate ==
  /\ pc = "rmCandidate"
  /\ candidate' = None
  /\ pc' = IF \A f \in existed : snapshot[f] # None THEN "restoreBackup" ELSE "thrown"
  /\ UNCHANGED <<target, backup, owned, registry, snapshot, journal, mode, memory>>

RemoveCandidateTorn ==
  /\ pc = "rmCandidate" /\ candidate # None
  /\ candidate' = Broken
  /\ pc' = "thrown"
  /\ UNCHANGED <<target, backup, owned, registry, snapshot, journal, mode, memory>>

\* restorePersistentFiles()
RestoreBackup == Restore("restoreBackup", "configBackup", "restoreConfig")
RestoreConfig == Restore("restoreConfig", "config", "restoreData")
RestoreData == Restore("restoreData", "data", "restoreRegistry")

RestoreTorn ==
  /\ pc = "restoreData"
  /\ owned["data"] # None
  /\ owned' = [owned EXCEPT !["data"] = IF "data" \in existed THEN None ELSE Broken]
  /\ pc' = "thrown"
  /\ UNCHANGED <<folders, registry, snapshot, journal, mode, memory>>

\* The registry, and then host.reload() up to its await, which stops what runs, but
\* only of a module there was before: a first installation is not looked at again.
RestoreRegistry ==
  /\ pc = "restoreRegistry"
  /\ registry' = savedRegistry
  /\ IF mode = "rollback" /\ stopped /\ hadTarget
     THEN pc' = "reloadOld" /\ Disposed
     ELSE pc' = "mark" /\ UNCHANGED <<owned, running>>
  /\ UNCHANGED <<folders, snapshot, journal, mode, phase, staged, stopped, late>>

\* host.reload() of the module that was restored succeeds.
ReloadedOld ==
  /\ pc = "reloadOld" /\ registry = target
  /\ pc' = IF Mutated THEN "mark" ELSE "untouched"
  /\ UNCHANGED <<folders, owned, registry, snapshot, journal, mode, memory>>

MarkRolledBack == WriteJournal("mark", "rolled-back", "cleanup")

\* What follows the end of the transaction or of its recovery.
End(result) ==
  /\ pc' = IF mode = "recover" THEN "init" ELSE "idle"
  /\ mode' = IF mode = "recover" THEN mode ELSE "forward"
  /\ phase' = IF mode = "recover" THEN phase ELSE result
  /\ staged' = None

\* removeTransactionArtifacts()
RemoveArtifacts ==
  /\ pc = "cleanup"
  /\ candidate' = None /\ backup' = None
  /\ snapshot' = Empty /\ RemoveJournal
  /\ End(IF mode = "forward" THEN "done" ELSE "error")
  /\ UNCHANGED <<target, owned, registry, running, stopped, late>>

RemoveArtifactsTorn ==
  /\ pc = "cleanup" /\ pc' = "thrown"
  /\ candidate' = None
  /\ \/ backup # None /\ backup' = Broken /\ UNCHANGED snapshot
     \/ backup' = None /\ snapshot' \in Partial(snapshot)
  /\ UNCHANGED <<target, owned, registry, journal, mode, memory>>

\* removeUntouchedTransaction()
RemoveUntouched ==
  /\ pc = "untouched"
  /\ candidate' = None
  /\ snapshot' = Empty /\ RemoveJournal
  /\ End("error")
  /\ UNCHANGED <<target, backup, owned, registry, running, stopped, late>>

RemoveUntouchedTorn ==
  /\ pc = "untouched" /\ pc' = "thrown"
  /\ \/ candidate # None /\ candidate' = Broken /\ UNCHANGED snapshot
     \/ candidate' = None /\ snapshot' \in Partial(snapshot)
  /\ UNCHANGED <<target, backup, owned, registry, journal, mode, memory>>

\* What survives the process is on disk.
Die ==
  /\ pc' = "down" /\ mode' = "recover"
  /\ phase' = "idle" /\ staged' = None /\ running' = None /\ stopped' = FALSE
  /\ late' = None
  /\ UNCHANGED <<folders, owned, registry, snapshot, journal>>

Crash == pc # "down" /\ Die

\* A recovery that fails ends the process.
StartupFails == pc = "thrown" /\ mode = "recover" /\ Die

\* recoverPendingTransactions() of the next process reads the journal.
LooksComplete ==
  /\ journalPhase = "committed"
  /\ IF operation = "install" THEN target # None ELSE target = None

Boot ==
  /\ pc = "down"
  /\ pc' = IF journalPhase = "none" THEN "init"
           ELSE IF LooksComplete \/ journalPhase = "rolled-back" THEN "cleanup"
           ELSE IF ~Mutated THEN "untouched"
           ELSE "restoreFolder"
  /\ UNCHANGED <<folders, owned, registry, snapshot, journal, mode, memory>>

\* ModulesHost.init() brings the registry in line with the folders.
HostInit ==
  /\ pc = "init" /\ pc' = "idle"
  /\ registry' = IF target = None THEN None ELSE IF registry = None THEN target ELSE registry
  /\ mode' = "forward"
  /\ UNCHANGED <<folders, owned, snapshot, journal, memory>>

-----------------------------------------------------------------------------
Host == Activate \/ Deactivate \/ ModuleWrites

Inspection == Check \/ Inspected \/ Cancel

Transaction ==
  \/ Install \/ Refused \/ Uninstall \/ Copy \/ CopyTorn \/ Built \/ Stopped
  \/ Snapshotting \/ CaptureSnapshot \/ CaptureTorn \/ Prepared
  \/ MovingTarget \/ MoveTarget \/ PromotingCandidate \/ PromoteCandidate
  \/ UpdatingState \/ Record \/ Reloaded \/ EraseOwned \/ EraseTorn \/ Forget \/ Forgotten
  \/ Committed

Rollback ==
  \/ Fails \/ RollBack \/ StoppedAgain \/ GiveUp
  \/ RemoveTarget \/ RemoveTargetTorn \/ KeepTarget \/ RenameBack
  \/ RemoveCandidate \/ RemoveCandidateTorn
  \/ RestoreBackup \/ RestoreConfig \/ RestoreData \/ RestoreTorn
  \/ RestoreRegistry \/ ReloadedOld \/ MarkRolledBack
  \/ RemoveArtifacts \/ RemoveArtifactsTorn \/ RemoveUntouched \/ RemoveUntouchedTorn

Startup == Crash \/ StartupFails \/ Boot \/ HostInit

Next == Host \/ Inspection \/ Transaction \/ Rollback \/ Startup

Spec == Init /\ [][Next]_vars

-----------------------------------------------------------------------------
(***************************************************************************)
(* Properties                                                              *)
(***************************************************************************)

\* The recovery would undo the transaction.
Pending == Mutated /\ ~LooksComplete

\* What the recovery would leave, if the process died now.
RecoveredCode ==
  IF ~Pending THEN target
  ELSE IF ~hadTarget THEN None
  ELSE IF backup # None THEN backup
  ELSE target

RecoveredEntry == IF Pending THEN savedRegistry ELSE registry

RecoveredFiles == IF Pending THEN snapshot ELSE owned

Module == INSTANCE InstalledModule
            WITH code <- RecoveredCode, entry <- RecoveredEntry, files <- RecoveredFiles

\* "only atomic renames put code into service. A startup recovery pass rolls an
\* incomplete transaction back": at every moment the disk holds what a recovery
\* needs to bring back the whole module as it was, up to the one write that
\* commits the whole change, and the steps of a recovery change nothing of that.
ImplementsInstalledModule == Module!Spec

\* "both the module target and its transaction backup are missing", "module data
\* snapshot is incomplete": no sequence of failures and crashes leaves a disk that
\* the recovery refuses or from which it would restore half a folder.
Recoverable ==
  Pending =>
    /\ hadTarget =>
         IF backup # None THEN backup # Broken ELSE target \in Versions
    /\ \A f \in Files : snapshot[f] # Broken
    /\ {f \in Files : snapshot[f] # None} = existed

\* "the module has to be off the target machine ... before the files go": the code
\* that runs is the code in the folder, and the one the registry vouches for.  The
\* exceptions are all of a copy that runs when host.stop() returns.  It is there while
\* the folder is swapped or restored, but is gone when a reload() begins and when an
\* uninstall commits; only what a first installation leaves, when it is rolled back,
\* runs on without a folder or an entry.
RunsWhatIsInstalled ==
  running # None =>
    \/ running = target /\ running = registry
    \/ /\ running = late
       /\ IF registry = None THEN journalPhase # "committed"
          ELSE Pending /\ pc \notin {"reload", "reloadOld", "commit"}

\* Whatever failed before, an installer that accepts work has a whole module or
\* none, with its registry entry, and nothing is left of earlier transactions.
NothingLeftBehind ==
  pc = "idle" /\ journalPhase = "none" =>
    /\ target # Broken /\ registry = target
    /\ candidate = None /\ backup = None /\ snapshot = Empty
    /\ \A f \in Files : owned[f] # Broken
=============================================================================
