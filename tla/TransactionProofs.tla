--------------------------- MODULE TransactionProofs ---------------------------
(***************************************************************************)
(* Theorems about MCTransactions, of its two parts: the installer keeps    *)
(* its invariants and implements InstalledModule, for any set of copies of *)
(* the code; and the preparation of binding instances keeps its invariant, *)
(* for any finite sets of plans and interfaces and any slots and tables.   *)
(***************************************************************************)
EXTENDS MCTransactions, FiniteSetTheorems, SequenceTheorems, WellFoundedInduction, TLAPS

-----------------------------------------------------------------------------
(***************************************************************************)
(* The module installer.                                                   *)
(***************************************************************************)

\* The phases in which the recovery only removes what the transaction created.
Untouched == {"preparing", "snapshotting", "prepared"}

\* The phases in which the recovery restores everything.
Touched == {"moving-target", "promoting-candidate", "updating-state"}

\* What a recovery would leave is the old module or the new one.
Whole ==
  /\ RecoveredCode \in Versions \cup {None}
  /\ RecoveredEntry = RecoveredCode
  /\ RecoveredFiles \in [Files -> Versions \cup {None}]

\* The journal tells the truth about the disk.
JournalIsTrue ==
  /\ journalPhase = "none" => candidate = None /\ backup = None /\ snapshot = Empty
  /\ journalPhase \in Untouched =>
       backup = None /\ (hadTarget <=> target # None)
  /\ journalPhase \in Touched =>
       /\ hadTarget <=> RecoveredCode # None
       /\ ~hadTarget => backup = None
       /\ existed = {f \in Files : snapshot[f] # None}
  /\ journalPhase = "rolled-back" => backup = None
  /\ journalPhase = "committed" => LooksComplete

\* The phase of the journal, and the mode, wherever pc is.
PhaseOfStep ==
  /\ pc = "idle" => mode = "forward"
  /\ pc = "checking" => mode = "forward" /\ journalPhase = "none"
  /\ pc \in {"copy", "build", "stop", "snap"} => mode = "forward" /\ journalPhase = "preparing"
  /\ pc \in {"captureConfig", "captureBackup", "captureData", "prepare"} =>
       mode = "forward" /\ journalPhase = "snapshotting"
  /\ pc = "move" => mode = "forward" /\ journalPhase = "prepared"
  /\ pc = "rename" => mode = "forward" /\ journalPhase = "moving-target"
  /\ pc \in {"promote", "swap", "update"} =>
       mode = "forward" /\ journalPhase \in {"moving-target", "promoting-candidate"}
  /\ pc \in {"record", "reload", "eraseConfig", "eraseBackup", "eraseData", "forget", "forgetting",
             "commit"} =>
       mode = "forward" /\ journalPhase = "updating-state"
  /\ pc = "stopAgain" => mode = "rollback" /\ journalPhase \in Touched
  /\ pc \in {"restoreFolder", "renameBack", "rmCandidate", "restoreBackup", "restoreConfig",
             "restoreData", "restoreRegistry", "mark"} =>
       mode \in {"rollback", "recover"} /\ journalPhase \in Touched
  /\ pc = "reloadOld" => mode = "rollback" /\ journalPhase \in Untouched \cup Touched
  /\ pc = "untouched" => mode \in {"rollback", "recover"} /\ journalPhase \in Untouched
  /\ pc = "cleanup" => journalPhase \in {"rolled-back", "committed"}
  /\ pc = "thrown" /\ mode = "forward" => journalPhase \in Untouched \cup Touched \cup {"committed"}
  /\ pc = "down" => mode = "recover"
  /\ pc = "init" => mode = "recover" /\ journalPhase = "none"
  /\ pc = "cleanup" /\ mode = "forward" => journalPhase = "committed"

\* What a copy that ran when host.stop() returned wrote as it was stopped.
ByLate(f) == late # None /\ owned[f] = late

\* How far the transaction is.
Progress ==
  /\ phase = "ready" => staged \in Versions
  /\ mode = "recover" => phase = "idle"
  /\ pc \in {"copy", "build", "promote", "swap", "record", "reload"} =>
       operation = "install"
  /\ pc \in {"eraseConfig", "eraseBackup", "eraseData", "forget", "forgetting"} =>
       operation = "uninstall"
  /\ operation = "install" /\ mode = "forward" /\ journalPhase # "none" /\ pc # "idle"
       => staged \in Versions
  /\ pc \in {"stop", "snap", "captureConfig", "captureBackup", "captureData", "prepare",
             "move", "rename", "promote", "swap", "build"} /\ operation = "install"
       => candidate = staged
  /\ operation = "uninstall" /\ journalPhase # "none" => hadTarget
  /\ pc \in {"captureConfig", "captureBackup", "captureData", "prepare", "move"} =>
       savedRegistry = registry /\ existed = {f \in Files : owned[f] # None}
  /\ pc \in {"captureBackup", "captureData", "prepare", "move"} =>
       snapshot["config"] = owned["config"]
  /\ pc \in {"captureData", "prepare", "move"} =>
       snapshot["configBackup"] = owned["configBackup"]
  /\ pc \in {"prepare", "move"} => snapshot["data"] = owned["data"]
  /\ pc = "rename" => backup = None
  /\ pc \in {"promote", "swap", "update", "record", "reload", "eraseConfig", "eraseBackup",
             "eraseData", "forget", "forgetting", "commit"} /\ hadTarget =>
       backup \in Versions
  /\ pc \in {"update", "record", "reload", "eraseConfig", "eraseBackup", "eraseData",
             "forget", "forgetting", "commit"} =>
       target = IF operation = "install" THEN staged ELSE None
  /\ pc \in {"reload", "commit"} => registry = target
  /\ pc \in {"reload", "commit"} /\ operation = "install" =>
       \A f \in Files : owned[f] \in {snapshot[f], target} \/ ByLate(f)
  /\ pc \in {"eraseBackup", "eraseData", "forget"} => owned["config"] = None
  /\ pc \in {"eraseData", "forget"} => owned["configBackup"] = None
  /\ pc = "forget" => owned["data"] = None
  /\ pc \in {"forgetting", "commit"} /\ operation = "uninstall" =>
       \A f \in Files : owned[f] = None \/ ByLate(f)
  /\ pc \in {"rename", "promote", "swap", "update", "record"} => owned = snapshot

\* How far the rollback or the recovery is.
Restoring ==
  /\ pc = "renameBack" => hadTarget /\ backup # None /\ target = None
  /\ pc \in {"rmCandidate", "restoreBackup", "restoreConfig", "restoreData",
             "restoreRegistry", "mark"} \/ (pc = "reloadOld" /\ journalPhase \in Touched)
       => backup = None /\ target = savedRegistry
  /\ pc \in {"restoreConfig", "restoreData", "restoreRegistry"} =>
       owned["configBackup"] = snapshot["configBackup"]
  /\ pc \in {"restoreData", "restoreRegistry"} => owned["config"] = snapshot["config"]
  /\ pc = "restoreRegistry" => owned["data"] = snapshot["data"]
  /\ pc = "mark" \/ pc = "reloadOld" => registry = target
  /\ pc = "mark" \/ (pc = "reloadOld" /\ journalPhase \in Touched) =>
       \A f \in Files :
         owned[f] = snapshot[f] \/ (target # None /\ owned[f] = target) \/ ByLate(f)

\* The steps that are taken without an await since host.stop() returned.
Unwatched ==
  {"snap", "captureConfig", "captureBackup", "captureData", "prepare", "move", "rename",
   "promote", "swap", "update", "record", "eraseConfig", "eraseBackup", "eraseData",
   "forget", "restoreFolder", "renameBack", "rmCandidate", "restoreBackup",
   "restoreConfig", "restoreData", "restoreRegistry"}

\* Where the module can be running, and which copy of it; host.stop() comes first.
RunningIsInstalled ==
  /\ running # None =>
       /\ RunsWhatIsInstalled
       /\ mode # "recover" /\ pc \notin {"forgetting", "down", "init"}
       /\ pc \in Unwatched => running = late
       /\ pc \in {"stop", "stopAgain", "reload", "commit", "reloadOld"} => running = target
       /\ pc = "mark" => registry = None \/ running = target
  /\ pc = "snap" => stopped
  /\ mode # "recover" /\ journalPhase \in {"snapshotting", "prepared"} \cup Touched => stopped

IInv ==
  /\ TypeOK /\ Whole /\ JournalIsTrue /\ PhaseOfStep /\ Progress /\ Restoring
  /\ RunningIsInstalled

-----------------------------------------------------------------------------
(***************************************************************************)
(* The invariant is inductive.                                             *)
(***************************************************************************)

\* An installed module, or none, and no transaction.
LEMMA InitIInv == Init => IInv
BY ValuesAssumption
   DEF Init, IInv, TypeOK, Whole, JournalIsTrue, PhaseOfStep, Progress, Restoring,
       RunningIsInstalled, RunsWhatIsInstalled, Unwatched, ByLate, RecoveredCode,
       RecoveredEntry, RecoveredFiles, Pending, Mutated, LooksComplete, Untouched, Touched, Phases, Throwing, Files, Folder, Empty

\* What a copy can have written of the files, which of the data is nothing when the
\* folder is broken.
WroteBy(copy) ==
  /\ owned' \in [Files -> Folder]
  /\ \A f \in Files : owned'[f] # owned[f] => copy # None /\ owned[f] # Broken /\ owned'[f] = copy

\* The module writes its own version, in whole files, ...
LEMMA WritingIsWhole ==
  ASSUME TypeOK, running # None, NEW written, Written(written)
  PROVE  WroteBy(running)
BY SMTT(30) DEF TypeOK, Written, WroteBy, Folder

\* ... which it does once more when it is stopped.
LEMMA DisposalIsWhole ==
  ASSUME TypeOK, Disposed
  PROVE  running' = None /\ WroteBy(running)
<1>1. CASE running = None
  BY <1>1, SMTT(30) DEF TypeOK, Disposed, Written, Writes, WroteBy, Folder
<1>2. CASE running # None
  BY <1>2, WritingIsWhole DEF Disposed
<1>3. QED
  BY <1>1, <1>2

\* What the modules host and the module do, and when, preserves the invariant.
LEMMA HostIInv == IInv /\ Host => IInv'
<1> SUFFICES ASSUME IInv, Host PROVE IInv'
  OBVIOUS
<1> USE ValuesAssumption
        DEF IInv, TypeOK, Whole, JournalIsTrue, PhaseOfStep, Progress, Restoring,
            RunningIsInstalled, RunsWhatIsInstalled, Unwatched, ByLate, RecoveredCode,
            RecoveredEntry, RecoveredFiles, Pending, Mutated, LooksComplete, Untouched,
            Touched, Phases, Throwing, Files, Folder, Empty, details, journal, folders,
            memory, Awaiting, WroteBy
<1>1. CASE Activate
  BY <1>1, SMTT(30) DEF Activate
<1>2. CASE Deactivate
  <2>1. running' = None /\ WroteBy(running)
    BY <1>2, DisposalIsWhole DEF Deactivate
  <2>2. QED
    BY <1>2, <2>1, SMTT(30) DEF Deactivate
<1>3. CASE ModuleWrites
  <2>1. WroteBy(running)
    BY <1>3, WritingIsWhole DEF ModuleWrites
  <2>2. QED
    BY <1>3, <2>1, SMTT(30) DEF ModuleWrites
<1>4. QED
  BY <1>1, <1>2, <1>3 DEF Host

\* Inspection, which touches nothing on disk, preserves the invariant.
LEMMA InspectionIInv == IInv /\ Inspection => IInv'
<1> SUFFICES ASSUME IInv, Inspection PROVE IInv'
  OBVIOUS
<1> USE ValuesAssumption
        DEF IInv, TypeOK, Whole, JournalIsTrue, PhaseOfStep, Progress, Restoring,
            RunningIsInstalled, RunsWhatIsInstalled, Unwatched, ByLate, RecoveredCode,
            RecoveredEntry, RecoveredFiles, Pending, Mutated, LooksComplete, Untouched,
            Touched, Phases, Throwing, Files, Folder, Empty, details, journal, folders,
            memory, Awaiting, WroteBy
<1>1. CASE Check
  BY <1>1, SMTT(30) DEF Check
<1>2. CASE Inspected
  BY <1>2, SMTT(30) DEF Inspected
<1>3. CASE Cancel
  BY <1>3, SMTT(30) DEF Cancel
<1>4. QED
  BY <1>1, <1>2, <1>3 DEF Inspection

\* Every operation of a transaction preserves the invariant.
LEMMA TransactionIInv == IInv /\ Transaction => IInv'
<1> SUFFICES ASSUME IInv, Transaction PROVE IInv'
  OBVIOUS
<1> USE ValuesAssumption
        DEF IInv, TypeOK, Whole, JournalIsTrue, PhaseOfStep, Progress, Restoring,
            RunningIsInstalled, RunsWhatIsInstalled, Unwatched, ByLate, RecoveredCode,
            RecoveredEntry, RecoveredFiles, Pending, Mutated, LooksComplete, Untouched,
            Touched, Phases, Throwing, Files, Folder, Empty, details, journal, folders,
            memory, Awaiting, WroteBy
<1>1. CASE Install
  <2>1. /\ hadTarget' \in BOOLEAN /\ (hadTarget' <=> target # None)
        /\ stopped' \in BOOLEAN
    BY <1>1, Zenon DEF Install, Begin
  <2>2. /\ pc = "idle" /\ pc' = "copy" /\ phase = "ready" /\ phase' = "installing"
        /\ journalPhase = "none" /\ journalPhase' = "preparing" /\ operation' = "install"
        /\ savedRegistry' = None /\ existed' = {}
        /\ UNCHANGED <<folders, owned, registry, snapshot, mode, staged, running, late>>
    BY <1>1, Zenon DEF Install, Begin
  <2>3. QED
    BY <2>1, <2>2, SMTT(30)
<1>2. CASE Refused
  BY <1>2, SMTT(30) DEF Refused
<1>3. CASE Uninstall
  <2>1. hadTarget' \in BOOLEAN /\ stopped' \in BOOLEAN
    BY <1>3, Zenon DEF Uninstall, Begin
  <2>2. running' = None /\ WroteBy(running)
    BY <1>3, DisposalIsWhole DEF Uninstall
  <2>3. QED
    BY <1>3, <2>1, <2>2, SMTT(30) DEF Uninstall, Begin
<1>4. CASE Copy
  BY <1>4, SMTT(30) DEF Copy
<1>5. CASE CopyTorn
  BY <1>5, SMTT(30) DEF CopyTorn
<1>6. CASE Built
  <2>1. running' = None /\ WroteBy(running)
    BY <1>6, DisposalIsWhole DEF Built
  <2>2. QED
    BY <1>6, <2>1, SMTT(30) DEF Built
<1>7. CASE Stopped
  BY <1>7, SMTT(30) DEF Stopped
<1>8. CASE Snapshotting
  BY <1>8, SMTT(30) DEF Snapshotting
<1>9. CASE CaptureSnapshot
  BY <1>9, SMTT(30) DEF CaptureSnapshot, Capture
<1>10. CASE CaptureTorn
  BY <1>10, SMTT(30) DEF CaptureTorn
<1>11. CASE Prepared
  BY <1>11, SMTT(30) DEF Prepared, WriteJournal
<1>12. CASE MovingTarget
  BY <1>12, SMTT(30) DEF MovingTarget, WriteJournal
<1>13. CASE MoveTarget
  BY <1>13, SMTT(30) DEF MoveTarget
<1>14. CASE PromotingCandidate
  BY <1>14, SMTT(30) DEF PromotingCandidate, WriteJournal
<1>15. CASE PromoteCandidate
  BY <1>15, SMTT(30) DEF PromoteCandidate
<1>16. CASE UpdatingState
  BY <1>16, SMTT(30) DEF UpdatingState, WriteJournal
<1>17. CASE Record
  <2>1. running' = None /\ WroteBy(running)
    BY <1>17, DisposalIsWhole DEF Record
  <2>2. QED
    BY <1>17, <2>1, SMTT(30) DEF Record
<1>18. CASE Reloaded
  BY <1>18, SMTT(30) DEF Reloaded
<1>19. CASE EraseOwned
  BY <1>19, SMTT(30) DEF EraseOwned, Erase
<1>20. CASE EraseTorn
  BY <1>20, SMTT(30) DEF EraseTorn
<1>21. CASE Forget
  <2>1. running' = None /\ WroteBy(running)
    BY <1>21, DisposalIsWhole DEF Forget
  <2>2. QED
    BY <1>21, <2>1, SMTT(30) DEF Forget
<1>22. CASE Forgotten
  BY <1>22, SMTT(30) DEF Forgotten
<1>23. CASE Committed
  <2> USE <1>23 DEF Committed, WriteJournal
  <2>1. owned \in [Files -> Versions \cup {None}]
    BY SMTT(30)
  <2>2. TypeOK' /\ Whole' /\ JournalIsTrue'
    BY <2>1, SMTT(30)
  <2>3. PhaseOfStep' /\ Progress'
    BY SMTT(30)
  <2>4. Restoring'
    BY SMTT(30)
  <2>5. RunsWhatIsInstalled'
    BY SMTT(30)
  <2>6. RunningIsInstalled'
    BY <2>5, SMTT(30)
  <2>7. QED
    BY <2>2, <2>3, <2>4, <2>6
<1>24. QED
  BY <1>1, <1>2, <1>3, <1>4, <1>5, <1>6, <1>7, <1>8, <1>9, <1>10, <1>11, <1>12, <1>13,
     <1>14, <1>15, <1>16, <1>17, <1>18, <1>19, <1>20, <1>21, <1>22, <1>23 DEF Transaction

\* Every failure, and every operation of a rollback or a recovery, preserves the invariant.
LEMMA RollbackIInv == IInv /\ Rollback => IInv'
<1> SUFFICES ASSUME IInv, Rollback PROVE IInv'
  OBVIOUS
<1> USE ValuesAssumption
        DEF IInv, TypeOK, Whole, JournalIsTrue, PhaseOfStep, Progress, Restoring,
            RunningIsInstalled, RunsWhatIsInstalled, Unwatched, ByLate, RecoveredCode,
            RecoveredEntry, RecoveredFiles, Pending, Mutated, LooksComplete, Untouched,
            Touched, Phases, Throwing, Files, Folder, Empty, details, journal, folders,
            memory, Awaiting, WroteBy
<1>1. CASE Fails
  BY <1>1, SMTT(30) DEF Fails
<1>2. CASE RollBack
  <2>1. Disposed => running' = None /\ WroteBy(running)
    BY DisposalIsWhole
  <2>2. QED
    BY <1>2, <2>1, SMTT(30) DEF RollBack
<1>3. CASE GiveUp
  BY <1>3, SMTT(30) DEF GiveUp
<1>4. CASE RemoveTarget
  BY <1>4, SMTT(30) DEF RemoveTarget
<1>5. CASE RemoveTargetTorn
  BY <1>5, SMTT(30) DEF RemoveTargetTorn
<1>6. CASE KeepTarget
  BY <1>6, SMTT(30) DEF KeepTarget
<1>7. CASE RenameBack
  BY <1>7, SMTT(30) DEF RenameBack
<1>8. CASE RemoveCandidate
  BY <1>8, SMTT(30) DEF RemoveCandidate
<1>9. CASE RemoveCandidateTorn
  BY <1>9, SMTT(30) DEF RemoveCandidateTorn
<1>10. CASE RestoreBackup
  BY <1>10, SMTT(30) DEF RestoreBackup, Restore
<1>11. CASE RestoreConfig
  BY <1>11, SMTT(30) DEF RestoreConfig, Restore
<1>12. CASE RestoreData
  BY <1>12, SMTT(30) DEF RestoreData, Restore
<1>13. CASE RestoreTorn
  BY <1>13, SMTT(30) DEF RestoreTorn
<1>14. CASE RestoreRegistry
  <2>1. Disposed => running' = None /\ WroteBy(running)
    BY DisposalIsWhole
  <2>2. QED
    BY <1>14, <2>1, SMTT(30) DEF RestoreRegistry
<1>15. CASE ReloadedOld
  <2> USE <1>15 DEF ReloadedOld
  <2>1. TypeOK' /\ Whole' /\ JournalIsTrue'
    BY SMTT(30)
  <2>2. PhaseOfStep' /\ Progress'
    BY SMTT(30)
  <2>3. Restoring'
    BY SMTT(30)
  <2>4. RunningIsInstalled'
    BY SMTT(30)
  <2>5. QED
    BY <2>1, <2>2, <2>3, <2>4
<1>16. CASE MarkRolledBack
  <2> USE <1>16 DEF MarkRolledBack, WriteJournal
  <2>1. owned \in [Files -> Versions \cup {None}]
    BY SMTT(30)
  <2>2. TypeOK' /\ Whole' /\ JournalIsTrue'
    BY <2>1, SMTT(30)
  <2>3. PhaseOfStep' /\ Progress' /\ Restoring'
    BY SMTT(30)
  <2>4. RunningIsInstalled'
    BY SMTT(30)
  <2>5. QED
    BY <2>2, <2>3, <2>4
<1>17. CASE RemoveArtifacts
  <2>1. hadTarget' \in BOOLEAN /\ stopped' \in BOOLEAN
    BY <1>17, Zenon DEF RemoveArtifacts, RemoveJournal, End
  <2>2. QED
    BY <1>17, <2>1, SMTT(30) DEF RemoveArtifacts, RemoveJournal, End
<1>18. CASE RemoveArtifactsTorn
  BY <1>18, SMTT(30) DEF RemoveArtifactsTorn, Partial
<1>19. CASE RemoveUntouched
  <2>1. hadTarget' \in BOOLEAN /\ stopped' \in BOOLEAN
    BY <1>19, Zenon DEF RemoveUntouched, RemoveJournal, End
  <2>2. QED
    BY <1>19, <2>1, SMTT(30) DEF RemoveUntouched, RemoveJournal, End
<1>20. CASE RemoveUntouchedTorn
  BY <1>20, SMTT(30) DEF RemoveUntouchedTorn, Partial
<1>21. CASE StoppedAgain
  BY <1>21, SMTT(30) DEF StoppedAgain
<1>22. QED
  BY <1>1, <1>2, <1>3, <1>4, <1>5, <1>6, <1>7, <1>8, <1>9, <1>10, <1>11, <1>12, <1>13,
     <1>14, <1>15, <1>16, <1>17, <1>18, <1>19, <1>20, <1>21 DEF Rollback

\* The death and the start of the process preserves the invariant.
LEMMA StartupIInv == IInv /\ Startup => IInv'
<1> SUFFICES ASSUME IInv, Startup PROVE IInv'
  OBVIOUS
<1> USE ValuesAssumption
        DEF IInv, TypeOK, Whole, JournalIsTrue, PhaseOfStep, Progress, Restoring,
            RunningIsInstalled, RunsWhatIsInstalled, Unwatched, ByLate, RecoveredCode,
            RecoveredEntry, RecoveredFiles, Pending, Mutated, LooksComplete, Untouched,
            Touched, Phases, Throwing, Files, Folder, Empty, details, journal, folders,
            memory, Awaiting, WroteBy
<1>1. CASE Crash
  <2>1. hadTarget' \in BOOLEAN /\ stopped' \in BOOLEAN
    BY <1>1, Zenon DEF Crash, Die
  <2>2. QED
    BY <1>1, <2>1, SMTT(30) DEF Crash, Die
<1>2. CASE StartupFails
  <2>1. hadTarget' \in BOOLEAN /\ stopped' \in BOOLEAN
    BY <1>2, Zenon DEF StartupFails, Die
  <2>2. QED
    BY <1>2, <2>1, SMTT(30) DEF StartupFails, Die
<1>3. CASE Boot
  BY <1>3, SMTT(30) DEF Boot
<1>4. CASE HostInit
  BY <1>4, SMTT(30) DEF HostInit
<1>5. QED
  BY <1>1, <1>2, <1>3, <1>4 DEF Startup

\* The invariant holds in every state the installer can reach.
THEOREM Invariance == Spec => []IInv
<1>1. IInv /\ UNCHANGED vars => IInv'
  BY DEF IInv, TypeOK, Whole, JournalIsTrue, PhaseOfStep, Progress, Restoring,
         RunningIsInstalled, RunsWhatIsInstalled, Unwatched, ByLate, RecoveredCode,
         RecoveredEntry, RecoveredFiles, Pending, Mutated, LooksComplete, vars, details, journal, folders, memory
<1>2. IInv /\ [Next]_vars => IInv'
  BY <1>1, HostIInv, InspectionIInv, TransactionIInv, RollbackIInv, StartupIInv DEF Next
<1>3. QED
  BY InitIInv, <1>2, PTL DEF Spec

\* Types: in particular no registry entry ever describes a folder copied by half.
THEOREM TypeCorrect == Spec => []TypeOK
<1>1. IInv => TypeOK
  BY DEF IInv
<1>2. QED
  BY <1>1, Invariance, PTL

\* No sequence of failures and crashes leaves a disk that the recovery refuses.
THEOREM AlwaysRecoverable == Spec => []Recoverable
<1>1. IInv => Recoverable
  BY ValuesAssumption, SMTT(30)
     DEF IInv, TypeOK, Whole, JournalIsTrue, RecoveredCode, RecoveredEntry, RecoveredFiles,
         Pending, Mutated, LooksComplete, Recoverable, Touched, Files, Folder
<1>2. QED
  BY <1>1, Invariance, PTL

\* The code that runs is the code in the folder, and the one its registry entry vouches
\* for, but for a copy that ran when host.stop() returned: and nothing that it was of
\* survives a reload() or the commit of an uninstall.
THEOREM RunsTheFolder == Spec => []RunsWhatIsInstalled
<1>1. IInv => RunsWhatIsInstalled
  BY DEF IInv, RunningIsInstalled, RunsWhatIsInstalled
<1>2. QED
  BY <1>1, Invariance, PTL

\* With no journal left the module is whole and nothing else is there.
THEOREM CleanAtRest == Spec => []NothingLeftBehind
<1>1. IInv => NothingLeftBehind
  BY ValuesAssumption, SMTT(30)
     DEF IInv, TypeOK, Whole, JournalIsTrue, RecoveredCode, RecoveredEntry, RecoveredFiles,
         Pending, Mutated, NothingLeftBehind, Files, Folder
<1>2. QED
  BY <1>1, Invariance, PTL

-----------------------------------------------------------------------------
(***************************************************************************)
(* The refinement.                                                         *)
(***************************************************************************)

\* What leaves a recovery the same module is a step of the abstract one.
LEMMA InvisibleRefines ==
  ASSUME IInv, IInv', UNCHANGED <<RecoveredCode, RecoveredEntry>>,
         \A f \in Files : RecoveredFiles'[f] \in {RecoveredFiles[f]} \cup ({RecoveredCode, late} \ {None})
  PROVE  Module!Next
<1>1. late' \in Versions \cup {None}
  BY DEF IInv, TypeOK
<1>2. RecoveredFiles' \in [Files -> Versions \cup {None}]
  BY DEF IInv, Whole
<1>3. Module!Write /\ Module!Stop
  BY <1>1, <1>2 DEF Module!Write, Module!WrittenBy, Module!Stop
<1>4. QED
  BY <1>3 DEF Module!Next

\* What runs, if a recovery would not undo what it writes, is what is installed, or is
\* late.
LEMMA WritesRefine ==
  ASSUME IInv, IInv', WroteBy(running), UNCHANGED <<RecoveredCode, RecoveredEntry>>,
         Pending' <=> Pending, UNCHANGED snapshot
  PROVE  Module!Next
<1>2. CASE Pending
  <2>1. UNCHANGED RecoveredFiles
    BY <1>2 DEF RecoveredFiles
  <2>2. QED
    BY <2>1, InvisibleRefines
<1>3. CASE ~Pending
  <2>1. RecoveredFiles = owned /\ RecoveredFiles' = owned'
    BY <1>3 DEF RecoveredFiles
  <2>2. RecoveredCode = target
    BY <1>3 DEF RecoveredCode
  <2>3. running # None => running \in {target, late}
    BY <1>3 DEF IInv, RunningIsInstalled, RunsWhatIsInstalled
  <2>4. \A f \in Files : owned'[f] \in {owned[f]} \cup ({RecoveredCode, late} \ {None})
    BY <2>2, <2>3 DEF WroteBy
  <2>5. QED
    BY <2>1, <2>4, InvisibleRefines
<1>4. QED
  BY <1>2, <1>3

\* The write that commits the transaction replaces or removes the whole module.
LEMMA CommitRefines == ASSUME IInv, Committed PROVE Module!Next
<1> USE ValuesAssumption
        DEF IInv, TypeOK, Whole, JournalIsTrue, PhaseOfStep, Progress, Restoring,
            RunningIsInstalled, RunsWhatIsInstalled, Unwatched, ByLate, RecoveredCode,
            RecoveredEntry, RecoveredFiles, Pending, Mutated, LooksComplete, Untouched,
            Touched, Phases, Throwing, Files, Folder, Empty, details, journal, folders,
            memory, Awaiting, WroteBy
<1> USE DEF Committed, WriteJournal
<1>1. Module!Stop
  BY SMTT(30) DEF Module!Stop
<1>2. CASE operation = "install"
  <2>1. target \in Versions /\ RecoveredCode' = target /\ RecoveredEntry' = target
    BY <1>2, SMTT(30)
  <2>2. /\ RecoveredFiles' \in [Files -> Versions \cup {None}]
        /\ \A f \in Files :
             RecoveredFiles'[f] \in {RecoveredFiles[f]} \cup ({target, late} \ {None})
    BY <1>2, SMTT(30)
  <2>3. Module!Replace
    BY <2>1, <2>2 DEF Module!Replace, Module!WrittenBy
  <2>4. QED
    BY <1>1, <2>3 DEF Module!Next
<1>3. CASE operation = "uninstall"
  <2>1. RecoveredCode # None /\ RecoveredCode' = None /\ RecoveredEntry' = None
    BY <1>3, SMTT(30)
  <2>2. /\ RecoveredFiles' \in [Files -> Versions \cup {None}]
        /\ \A f \in Files : RecoveredFiles'[f] \in {None} \cup ({late} \ {None})
    BY <1>3, SMTT(30)
  <2>3. Module!Remove
    BY <2>1, <2>2 DEF Module!Remove, Module!WrittenBy
  <2>4. QED
    BY <1>1, <2>3 DEF Module!Next
<1>4. QED
  BY <1>2, <1>3

\* When the rollback is declared complete, everything is as it was, except for what
\* the restored module has written since, or a late one as it was stopped.
LEMMA MarkRefines == ASSUME IInv, IInv', MarkRolledBack PROVE Module!Next
<1> USE ValuesAssumption
        DEF IInv, TypeOK, Whole, JournalIsTrue, PhaseOfStep, Progress, Restoring,
            RunningIsInstalled, RunsWhatIsInstalled, Unwatched, ByLate, RecoveredCode,
            RecoveredEntry, RecoveredFiles, Pending, Mutated, LooksComplete, Untouched,
            Touched, Phases, Throwing, Files, Folder, Empty, details, journal, folders,
            memory, Awaiting, WroteBy
<1> USE DEF MarkRolledBack, WriteJournal
<1>1. UNCHANGED <<RecoveredCode, RecoveredEntry>> /\ RecoveredCode = target
  BY SMTT(30)
<1>2. \A f \in Files :
        RecoveredFiles'[f] \in {RecoveredFiles[f]} \cup ({RecoveredCode, late} \ {None})
  BY <1>1, SMTT(30)
<1>3. QED
  BY <1>1, <1>2, InvisibleRefines

\* What the modules host does is a step of the abstract module, or invisible.
LEMMA HostRefines == ASSUME IInv, Host PROVE Module!Next
<1>a. IInv'
  BY HostIInv
<1> USE ValuesAssumption
        DEF IInv, TypeOK, Whole, JournalIsTrue, PhaseOfStep, Progress, Restoring,
            RunningIsInstalled, RunsWhatIsInstalled, Unwatched, ByLate, RecoveredCode,
            RecoveredEntry, RecoveredFiles, Pending, Mutated, LooksComplete, Untouched,
            Touched, Phases, Throwing, Files, Folder, Empty, details, journal, folders,
            memory, Awaiting, WroteBy
<1>1. CASE Activate
  <2>1. UNCHANGED <<RecoveredCode, RecoveredEntry, RecoveredFiles>>
    BY <1>1, SMTT(30) DEF Activate
  <2>2. QED
    BY <1>a, <2>1, InvisibleRefines
<1>2. CASE Deactivate
  <2>1. WroteBy(running)
    BY <1>2, DisposalIsWhole DEF Deactivate, IInv
  <2>2. QED
    BY <1>a, <1>2, <2>1, WritesRefine
       DEF Deactivate, RecoveredCode, RecoveredEntry, Pending, Mutated, LooksComplete,
           folders, journal, details
<1>3. CASE ModuleWrites
  <2>1. WroteBy(running)
    BY <1>3, WritingIsWhole DEF ModuleWrites, IInv
  <2>2. QED
    BY <1>a, <1>3, <2>1, WritesRefine
       DEF ModuleWrites, RecoveredCode, RecoveredEntry, Pending, Mutated, LooksComplete,
           folders, journal, details
<1>4. QED
  BY <1>1, <1>2, <1>3 DEF Host

\* Inspection is invisible.
LEMMA InspectionRefines == ASSUME IInv, Inspection PROVE Module!Next
<1>a. SUFFICES UNCHANGED <<RecoveredCode, RecoveredEntry, RecoveredFiles>>
  BY InspectionIInv, InvisibleRefines
<1> USE ValuesAssumption
        DEF IInv, TypeOK, Whole, JournalIsTrue, PhaseOfStep, Progress, Restoring,
            RunningIsInstalled, RunsWhatIsInstalled, Unwatched, ByLate, RecoveredCode,
            RecoveredEntry, RecoveredFiles, Pending, Mutated, LooksComplete, Untouched,
            Touched, Phases, Throwing, Files, Folder, Empty, details, journal, folders,
            memory, Awaiting, WroteBy
<1>1. CASE Check
  BY <1>1, SMTT(30) DEF Check
<1>2. CASE Inspected
  BY <1>2, SMTT(30) DEF Inspected
<1>3. CASE Cancel
  BY <1>3, SMTT(30) DEF Cancel
<1>4. QED
  BY <1>1, <1>2, <1>3 DEF Inspection

\* The steps of a transaction are invisible, except for its commit.
LEMMA TransactionRefines == ASSUME IInv, Transaction PROVE Module!Next
<1>a. IInv'
  BY TransactionIInv
<1> SUFFICES ASSUME ~Committed, ~Uninstall, ~Built
             PROVE  UNCHANGED <<RecoveredCode, RecoveredEntry, RecoveredFiles>>
  <2>1. CASE Committed
    BY <2>1, CommitRefines
  <2>2. CASE Uninstall
    <3>1. WroteBy(running)
      BY <2>2, DisposalIsWhole DEF Uninstall, IInv
    <3>2. ~Pending /\ ~Pending'
      BY <2>2 DEF Uninstall, Begin, Pending, Mutated
    <3>3. UNCHANGED <<RecoveredCode, RecoveredEntry, snapshot>>
      BY <2>2, <3>2 DEF Uninstall, RecoveredCode, RecoveredEntry, folders
    <3>4. QED
      BY <1>a, <3>1, <3>2, <3>3, WritesRefine
  <2>3. CASE Built
    <3>1. WroteBy(running)
      BY <2>3, DisposalIsWhole DEF Built, IInv
    <3>2. QED
      BY <1>a, <2>3, <3>1, WritesRefine
         DEF Built, RecoveredCode, RecoveredEntry, Pending, Mutated, LooksComplete,
             folders, journal, details
  <2>4. QED
    BY <1>a, <2>1, <2>2, <2>3, InvisibleRefines
<1> USE ValuesAssumption
        DEF IInv, TypeOK, Whole, JournalIsTrue, PhaseOfStep, Progress, Restoring,
            RunningIsInstalled, RunsWhatIsInstalled, Unwatched, ByLate, RecoveredCode,
            RecoveredEntry, RecoveredFiles, Pending, Mutated, LooksComplete, Untouched,
            Touched, Phases, Throwing, Files, Folder, Empty, details, journal, folders,
            memory, Awaiting, WroteBy
<1>1. CASE Install
  BY <1>1, SMTT(30) DEF Install, Begin
<1>2. CASE Refused
  BY <1>2, SMTT(30) DEF Refused
<1>4. CASE Copy
  BY <1>4, SMTT(30) DEF Copy
<1>5. CASE CopyTorn
  BY <1>5, SMTT(30) DEF CopyTorn
<1>7. CASE Stopped
  BY <1>7, SMTT(30) DEF Stopped
<1>8. CASE Snapshotting
  BY <1>8, SMTT(30) DEF Snapshotting
<1>9. CASE CaptureSnapshot
  BY <1>9, SMTT(30) DEF CaptureSnapshot, Capture
<1>10. CASE CaptureTorn
  BY <1>10, SMTT(30) DEF CaptureTorn
<1>11. CASE Prepared
  BY <1>11, SMTT(30) DEF Prepared, WriteJournal
<1>12. CASE MovingTarget
  BY <1>12, SMTT(30) DEF MovingTarget, WriteJournal
<1>13. CASE MoveTarget
  BY <1>13, SMTT(30) DEF MoveTarget
<1>14. CASE PromotingCandidate
  BY <1>14, SMTT(30) DEF PromotingCandidate, WriteJournal
<1>15. CASE PromoteCandidate
  BY <1>15, SMTT(30) DEF PromoteCandidate
<1>16. CASE UpdatingState
  BY <1>16, SMTT(30) DEF UpdatingState, WriteJournal
<1>17. CASE Record
  BY <1>17, SMTT(30) DEF Record
<1>18. CASE Reloaded
  BY <1>18, SMTT(30) DEF Reloaded
<1>19. CASE EraseOwned
  BY <1>19, SMTT(30) DEF EraseOwned, Erase
<1>20. CASE EraseTorn
  BY <1>20, SMTT(30) DEF EraseTorn
<1>21. CASE Forget
  BY <1>21, SMTT(30) DEF Forget
<1>22. CASE Forgotten
  BY <1>22, SMTT(30) DEF Forgotten
<1>23. QED
  BY <1>1, <1>2, <1>4, <1>5, <1>7, <1>8, <1>9, <1>10, <1>11, <1>12, <1>13, <1>14, <1>15,
     <1>16, <1>17, <1>18, <1>19, <1>20, <1>21, <1>22 DEF Transaction

\* The steps of a rollback and of a recovery are invisible, except for the last.
LEMMA RollbackRefines == ASSUME IInv, Rollback PROVE Module!Next
<1>a. IInv'
  BY RollbackIInv
<1> SUFFICES ASSUME ~MarkRolledBack, ~RollBack
             PROVE  UNCHANGED <<RecoveredCode, RecoveredEntry, RecoveredFiles>>
  <2>1. CASE MarkRolledBack
    BY <1>a, <2>1, MarkRefines
  <2>2. CASE RollBack
    <3>1. WroteBy(running) \/ UNCHANGED owned
      BY <2>2, DisposalIsWhole DEF RollBack, IInv
    <3>2. WroteBy(running)
      BY <3>1 DEF WroteBy, IInv, TypeOK
    <3>3. QED
      BY <1>a, <2>2, <3>2, WritesRefine
         DEF RollBack, RecoveredCode, RecoveredEntry, Pending, Mutated, LooksComplete,
             folders, journal, details
  <2>3. QED
    BY <1>a, <2>1, <2>2, InvisibleRefines
<1> USE ValuesAssumption
        DEF IInv, TypeOK, Whole, JournalIsTrue, PhaseOfStep, Progress, Restoring,
            RunningIsInstalled, RunsWhatIsInstalled, Unwatched, ByLate, RecoveredCode,
            RecoveredEntry, RecoveredFiles, Pending, Mutated, LooksComplete, Untouched,
            Touched, Phases, Throwing, Files, Folder, Empty, details, journal, folders,
            memory, Awaiting, WroteBy
<1>1. CASE Fails
  BY <1>1, SMTT(30) DEF Fails
<1>2. CASE StoppedAgain
  BY <1>2, SMTT(30) DEF StoppedAgain
<1>3. CASE GiveUp
  BY <1>3, SMTT(30) DEF GiveUp
<1>4. CASE RemoveTarget
  BY <1>4, SMTT(30) DEF RemoveTarget
<1>5. CASE RemoveTargetTorn
  BY <1>5, SMTT(30) DEF RemoveTargetTorn
<1>6. CASE KeepTarget
  BY <1>6, SMTT(30) DEF KeepTarget
<1>7. CASE RenameBack
  BY <1>7, SMTT(30) DEF RenameBack
<1>8. CASE RemoveCandidate
  BY <1>8, SMTT(30) DEF RemoveCandidate
<1>9. CASE RemoveCandidateTorn
  BY <1>9, SMTT(30) DEF RemoveCandidateTorn
<1>10. CASE RestoreBackup
  BY <1>10, SMTT(30) DEF RestoreBackup, Restore
<1>11. CASE RestoreConfig
  BY <1>11, SMTT(30) DEF RestoreConfig, Restore
<1>12. CASE RestoreData
  BY <1>12, SMTT(30) DEF RestoreData, Restore
<1>13. CASE RestoreTorn
  BY <1>13, SMTT(30) DEF RestoreTorn
<1>14. CASE RestoreRegistry
  BY <1>14, SMTT(30) DEF RestoreRegistry
<1>15. CASE ReloadedOld
  BY <1>15, SMTT(30) DEF ReloadedOld
<1>16. CASE RemoveArtifacts
  BY <1>16, SMTT(30) DEF RemoveArtifacts, RemoveJournal, End
<1>17. CASE RemoveArtifactsTorn
  BY <1>17, SMTT(30) DEF RemoveArtifactsTorn, Partial
<1>18. CASE RemoveUntouched
  BY <1>18, SMTT(30) DEF RemoveUntouched, RemoveJournal, End
<1>19. CASE RemoveUntouchedTorn
  BY <1>19, SMTT(30) DEF RemoveUntouchedTorn, Partial
<1>20. QED
  BY <1>1, <1>2, <1>3, <1>4, <1>5, <1>6, <1>7, <1>8, <1>9, <1>10, <1>11, <1>12, <1>13,
     <1>14, <1>15, <1>16, <1>17, <1>18, <1>19 DEF Rollback

\* Dying and starting again is invisible.
LEMMA StartupRefines == ASSUME IInv, Startup PROVE Module!Next
<1>a. SUFFICES UNCHANGED <<RecoveredCode, RecoveredEntry, RecoveredFiles>>
  BY StartupIInv, InvisibleRefines
<1> USE ValuesAssumption
        DEF IInv, TypeOK, Whole, JournalIsTrue, PhaseOfStep, Progress, Restoring,
            RunningIsInstalled, RunsWhatIsInstalled, Unwatched, ByLate, RecoveredCode,
            RecoveredEntry, RecoveredFiles, Pending, Mutated, LooksComplete, Untouched,
            Touched, Phases, Throwing, Files, Folder, Empty, details, journal, folders,
            memory, Awaiting, WroteBy
<1>1. CASE Crash
  BY <1>1, SMTT(30) DEF Crash, Die
<1>2. CASE StartupFails
  BY <1>2, SMTT(30) DEF StartupFails, Die
<1>3. CASE Boot
  BY <1>3, SMTT(30) DEF Boot
<1>4. CASE HostInit
  BY <1>4, SMTT(30) DEF HostInit
<1>5. QED
  BY <1>1, <1>2, <1>3, <1>4 DEF Startup

\* Every step of the installer is a step of InstalledModule, or changes nothing of
\* what a recovery would leave.
LEMMA StepRefines == IInv /\ [Next]_vars => [Module!Next]_Module!svars
<1>1. UNCHANGED vars => UNCHANGED Module!svars
  BY DEF vars, folders, journal, details, memory, Module!svars, RecoveredCode, RecoveredEntry,
         RecoveredFiles, Pending, Mutated, LooksComplete
<1>2. QED
  BY <1>1, HostRefines, InspectionRefines, TransactionRefines, RollbackRefines, StartupRefines
     DEF Next

\* The installer implements InstalledModule: whenever the process dies, a module is
\* installed, updated or removed with its registry entry and its files, or not at all.
THEOREM Refinement == Spec => ImplementsInstalledModule
<1>1. Init => Module!Init
  BY ValuesAssumption
     DEF Init, Module!Init, RecoveredCode, RecoveredEntry, RecoveredFiles, Pending, Mutated
<1>2. QED
  BY <1>1, StepRefines, Invariance, PTL DEF Spec, ImplementsInstalledModule, Module!Spec

-----------------------------------------------------------------------------
(***************************************************************************)
(* The preparation of binding instances (BindingSetup), for any numbers of *)
(* plans, interfaces, slots and tables.  Its invariant is about a moment   *)
(* of rest; here is what holds in between, while scripts run line by line. *)
(***************************************************************************)

\* The rules that are to be on the router: those of the stored instances, and the one
\* that is being installed.
Own == Setup!Rule(prep[op.plan])
Installing == {p \in Plans : op.kind = "install" /\ op.plan = p}
Due ==
  {Setup!Rule(data.inst[p]) : p \in Setup!Saved(data)}
  \cup {Setup!Rule(prep[p]) : p \in Installing}

\* The rules a store asks for, and the lines that make the router have them.
RulesOf(store) == {Setup!Rule(store.inst[p]) : p \in Setup!Saved(store)}
Reconciles == {"flush", "route", "del", "guard", "model"}

\* A line that takes something away is followed by the one that puts it back, if it is
\* to come back.
FlushIsMended(lines) ==
  \A i \in DOMAIN lines : lines[i].do = "flush" =>
    \E j \in DOMAIN lines : j > i /\ lines[j].do = "route"
DelIsMended(lines) ==
  \A i \in DOMAIN lines : lines[i].do = "del" =>
    \E j \in DOMAIN lines : j > i /\ lines[j].do = "guard" /\ lines[j].rule.at = lines[i].slot
ClearIsMended(lines, rule) ==
  \A i \in DOMAIN lines : lines[i].do = "clear" =>
    /\ lines[i].slot = rule.at
    /\ \E j \in DOMAIN lines : j > i /\ lines[j].do = "guard" /\ lines[j].rule = rule

\* What a script adds, and how it ends.
ClearIsLast(lines, slot) ==
  \A i \in DOMAIN lines : lines[i].do = "clear" => i = Len(lines) /\ lines[i].slot = slot
GuardsAre(lines, rules) ==
  \A i \in DOMAIN lines : lines[i].do = "guard" => lines[i].rule \in rules
Adds(lines, r) == \E i \in DOMAIN lines : lines[i].do = "guard" /\ lines[i].rule = r
LaysRoute(lines) == \E i \in DOMAIN lines : lines[i].do = "route"
EndsWith(lines, do) == lines # <<>> /\ lines[Len(lines)].do = do

\* The lines that are left leave nothing unmended and add only what is due.
ScriptFits ==
  /\ FlushIsMended(op.lines) /\ DelIsMended(op.lines) /\ GuardsAre(op.lines, Due)
  /\ op.kind = "install" => ClearIsMended(op.lines, Own)
  /\ op.kind = "delete" => ClearIsLast(op.lines, data.inst[op.plan].slot)

\* The router has every rule that is due, or the lines that are left add it; a rule that
\* is being deleted goes with the last line.
RouterFits ==
  /\ router.rules \subseteq Due
  /\ \A r \in Due : \/ r \in router.rules
                    \/ Adds(op.lines, r)
                    \/ op.kind = "delete" /\ r.at = data.inst[op.plan].slot
  /\ Due # {} => router.route \/ LaysRoute(op.lines)
  /\ op.kind = "delete" =>
       \/ EndsWith(op.lines, "clear")
       \/ op.lines = <<>> /\ \A r \in router.rules : r.at # data.inst[op.plan].slot

\* The lines an operation can have.
LineFits(kind, do) ==
  /\ kind # "tables" => do \notin {"table", "extra"}
  /\ do \in {"forward", "save"} => kind = "install"
  /\ do = "unforward" => kind = "delete"
  /\ do = "clear" => kind \in {"install", "delete", "restore"}

\* An operation has the lines of its kind, and is about a plan that allows it.
OpFits ==
  /\ op.kind = "idle" => op.lines = <<>>
  /\ op.kind = "tables" =>
       op.lines \in {<<[do |-> "table"], [do |-> "extra"]>>, <<[do |-> "extra"]>>}
  /\ \A i \in DOMAIN op.lines : LineFits(op.kind, op.lines[i].do)
  /\ op.kind \in {"run", "delete", "restore"} => op.plan \in Setup!Saved(data)
  /\ op.kind = "restore" => broken
  /\ op.kind = "install" =>
       /\ \A q \in Setup!Saved(data) : q # op.plan =>
            data.inst[q].slot # prep[op.plan].slot /\ data.inst[q].pair # prep[op.plan].pair
       /\ op.plan \in Setup!Saved(data) => Setup!Rule(data.inst[op.plan]) = Own
       /\ op.plan \notin Setup!Saved(data) => EndsWith(op.lines, "save")

\* A plan is where the operation is; one that is saved is no plan any more; a table that
\* is prepared is no one else's.
PrepFits ==
  /\ op.kind \in {"tables", "install"} => op.plan \in Plans /\ prep[op.plan].stage = op.kind
  /\ \A p \in Setup!Saved(data) : prep[p] = Setup!NoPrep \/ (op.kind = "install" /\ op.plan = p)
  /\ \A p \in Plans : prep[p].stage = "tables" =>
       /\ prep[p].table # Setup!NoTable
       /\ \A c \in Pairs : c # prep[p].pair => router.table[c] # prep[p].table

\* What runs on the router was worked out from a sample.
ModelFits ==
  /\ op.kind \in {"run", "delete", "restore"} => model # <<>>
  /\ \A p \in Plans : prep[p].stage \in {"tables", "install"} => model # <<>>

\* The file has what is in memory, unless a write is to come.
StoreFits ==
  ~broken /\ ~dirty /\ op.kind \notin {"run", "delete"} => disk = data

\* The invariant.  Once a script was cut off nothing is said of the router and of what
\* is left of a script; what holds of slots, tables and plans holds even then.
SetupInv ==
  /\ Setup!TypeOK /\ Setup!SlotsAreExclusive /\ Setup!TablesAreUnique
  /\ OpFits /\ PrepFits /\ ModelFits /\ StoreFits
  /\ ~broken => ScriptFits /\ RouterFits

-----------------------------------------------------------------------------
(***************************************************************************)
(* Stores and plans.                                                       *)
(***************************************************************************)

\* An instance is not the absence of one, nor is a preparation.
LEMMA ThereOrNot ==
  /\ \A i \in Setup!Instances : i # Setup!Absent
  /\ \A r \in Setup!Preps : r # Setup!NoPrep
  /\ Setup!NoPrep.stage = "none"
<1>1. ASSUME NEW i \in Setup!Instances, i = Setup!Absent PROVE FALSE
  <2>1. "slot" \in DOMAIN i
    BY DEF Setup!Instances
  <2>2. "slot" \notin DOMAIN Setup!Absent
    BY DEF Setup!Absent
  <2>3. QED
    BY <1>1, <2>1, <2>2
<1>2. ASSUME NEW r \in Setup!Preps, r = Setup!NoPrep PROVE FALSE
  <2>1. r.stage # "none"
    BY DEF Setup!Preps
  <2>2. QED
    BY <1>2, <2>1 DEF Setup!NoPrep
<1>3. Setup!NoPrep.stage = "none"
  BY DEF Setup!NoPrep
<1>4. QED
  BY <1>1, <1>2, <1>3

\* What a store has of an instance.
LEMMA SavedAre ==
  ASSUME NEW store \in Setup!Stores, NEW p \in Setup!Saved(store)
  PROVE  /\ p \in Plans /\ store.inst[p] \in Setup!Instances
         /\ store.inst[p].slot \in Slots /\ store.inst[p].pair \in Pairs
         /\ store.inst[p].running \in BOOLEAN
         /\ Setup!Rule(store.inst[p]) \in Setup!At
         /\ Setup!Rule(store.inst[p]).at = store.inst[p].slot
         /\ Setup!Rule(store.inst[p]).pair = store.inst[p].pair
<1>1. p \in Plans /\ store.inst[p] # Setup!Absent
  BY DEF Setup!Saved
<1>2. store.inst \in [Plans -> Setup!Instances \cup {Setup!Absent}]
  BY DEF Setup!Stores
<1>3. store.inst[p] \in Setup!Instances
  BY <1>1, <1>2
<1>4. QED
  BY <1>1, <1>3 DEF Setup!Instances, Setup!Rule, Setup!At

\* What a plan is.
LEMMA PrepsAre ==
  ASSUME Setup!TypeOK, NEW p \in Plans, prep[p].stage # "none"
  PROVE  /\ prep[p] \in Setup!Preps /\ prep[p] # Setup!NoPrep
         /\ prep[p].slot \in Slots /\ prep[p].pair \in Pairs
         /\ prep[p].table \in Tables \cup {Setup!NoTable}
         /\ prep[p].stage \in {"checked", "revalidate", "tables", "install"}
         /\ Setup!Rule(prep[p]) \in Setup!At
         /\ Setup!Rule(prep[p]).at = prep[p].slot /\ Setup!Rule(prep[p]).pair = prep[p].pair
<1>1. prep[p] \in Setup!Preps \cup {Setup!NoPrep}
  BY DEF Setup!TypeOK
<1>2. prep[p] \in Setup!Preps
  BY <1>1, ThereOrNot
<1>3. QED
  BY <1>2, ThereOrNot DEF Setup!Preps, Setup!Rule, Setup!At

\* A set of numbers that is not empty has a least one.
LEMMA LeastNumber ==
  ASSUME NEW S \in SUBSET Nat, S # {}
  PROVE  Setup!Min(S) \in S
<1> DEFINE Less == {p \in Nat \X Nat : p[1] < p[2]}
<1>1. IsWellFoundedOn(Less, Nat)
  BY NatLessThanWellFounded DEF OpToRel
<1>2. PICK x \in S : \A y \in S : ~ (<<y, x>> \in Less)
  <2> HIDE DEF Less
  <2> QED  BY <1>1, WFMin
<1>3. ASSUME NEW y \in S PROVE x <= y
  <2>1. x \in Nat /\ y \in Nat /\ ~ (<<y, x>> \in Less)
    BY <1>2
  <2>2. ~ (y < x)
    BY <2>1
  <2>3. QED
    BY <2>1, <2>2
<1>4. QED
  BY <1>3 DEF Setup!Min

-----------------------------------------------------------------------------
(***************************************************************************)
(* Scripts.                                                                *)
(***************************************************************************)

\* Where the lines of two scripts are in the script that is made of them.
LEMMA JoinedAre ==
  ASSUME NEW S, NEW s \in Seq(S), NEW t \in Seq(S)
  PROVE  /\ s \o t \in Seq(S)
         /\ \A i \in DOMAIN s : i \in DOMAIN (s \o t) /\ (s \o t)[i] = s[i]
         /\ \A i \in DOMAIN t : Len(s) + i \in DOMAIN (s \o t) /\ (s \o t)[Len(s) + i] = t[i]
         /\ \A k \in DOMAIN (s \o t) : \/ k \in DOMAIN s
                                       \/ \E i \in DOMAIN t : k = Len(s) + i
         /\ \A i \in DOMAIN s, j \in DOMAIN t : i < Len(s) + j
         /\ Len(s) \in Nat /\ DOMAIN s \subseteq Nat /\ DOMAIN t \subseteq Nat
<1>1. /\ s \o t \in Seq(S) /\ Len(s \o t) = Len(s) + Len(t)
      /\ \A i \in 1..(Len(s) + Len(t)) :
           (s \o t)[i] = IF i <= Len(s) THEN s[i] ELSE t[i - Len(s)]
  BY ConcatProperties
<1>2. /\ Len(s) \in Nat /\ Len(t) \in Nat
      /\ DOMAIN s = 1..Len(s) /\ DOMAIN t = 1..Len(t)
      /\ DOMAIN (s \o t) = 1..(Len(s) + Len(t))
  BY <1>1, LenProperties
<1> DEFINE m == Len(s)
           n == Len(t)
           u == s \o t
<1> HIDE DEF m, n, u
<1>3. m \in Nat /\ n \in Nat /\ DOMAIN s = 1..m /\ DOMAIN t = 1..n /\ DOMAIN u = 1..(m + n)
  BY <1>2 DEF m, n, u
<1>4. \A i \in 1..(m + n) : u[i] = IF i <= m THEN s[i] ELSE t[i - m]
  BY <1>1 DEF m, n, u
<1>5. \A i \in DOMAIN s : i \in DOMAIN u /\ u[i] = s[i]
  BY <1>3, <1>4
<1>6. \A i \in DOMAIN t : m + i \in DOMAIN u /\ u[m + i] = t[i]
  <2> SUFFICES ASSUME NEW i \in DOMAIN t PROVE m + i \in DOMAIN u /\ u[m + i] = t[i]
    OBVIOUS
  <2>1. i \in 1..n /\ m + i \in 1..(m + n) /\ ~(m + i <= m) /\ (m + i) - m = i
    BY <1>3
  <2>2. QED
    BY <1>3, <1>4, <2>1
<1>7. ASSUME NEW k \in DOMAIN u PROVE k \in DOMAIN s \/ \E i \in DOMAIN t : k = m + i
  <2>1. CASE k <= m
    BY <1>3, <2>1
  <2>2. CASE ~(k <= m)
    <3>1. k - m \in DOMAIN t /\ k = m + (k - m)
      BY <1>3, <2>2
    <3>2. QED
      BY <3>1
  <2>3. QED
    BY <2>1, <2>2
<1>8. \A i \in DOMAIN s, j \in DOMAIN t : i < m + j
  BY <1>3
<1>9. QED
  BY <1>1, <1>3, <1>5, <1>6, <1>7, <1>8 DEF m, n, u

\* Where the lines of a script are when its first one has been run.
LEMMA RestIs ==
  ASSUME NEW S, NEW s \in Seq(S), s # <<>>
  PROVE  /\ Tail(s) \in Seq(S) /\ Head(s) = s[1] /\ 1 \in DOMAIN s /\ Head(s) \in S
         /\ \A i \in DOMAIN Tail(s) : i + 1 \in DOMAIN s /\ i + 1 > 1 /\ Tail(s)[i] = s[i + 1]
         /\ \A j \in DOMAIN s : j > 1 => /\ j - 1 \in DOMAIN Tail(s)
                                         /\ Tail(s)[j - 1] = s[j]
         /\ Len(Tail(s)) = Len(s) - 1 /\ Len(s) \in Nat /\ Len(s) > 0
         /\ DOMAIN s = 1..Len(s) /\ DOMAIN Tail(s) = 1..(Len(s) - 1)
<1>1. /\ Head(s) \in S /\ Tail(s) \in Seq(S) /\ Len(Tail(s)) = Len(s) - 1
      /\ \A i \in 1..Len(Tail(s)) : Tail(s)[i] = s[i + 1]
  BY HeadTailProperties
<1>2. Len(s) \in Nat /\ Len(s) > 0 /\ DOMAIN s = 1..Len(s)
  BY LenProperties, EmptySeq
<1>3. DOMAIN Tail(s) = 1..(Len(s) - 1)
  BY <1>1, LenProperties
<1>4. Head(s) = s[1]
  BY <1>2
<1> DEFINE n == Len(s)
           u == Tail(s)
<1> HIDE DEF n, u
<1>5. n \in Nat /\ n > 0 /\ DOMAIN s = 1..n /\ DOMAIN u = 1..(n - 1)
  BY <1>2, <1>3 DEF n, u
<1>6. \A i \in 1..(n - 1) : u[i] = s[i + 1]
  BY <1>1 DEF n, u
<1>7. \A i \in DOMAIN u : i + 1 \in DOMAIN s /\ i + 1 > 1 /\ u[i] = s[i + 1]
  BY <1>5, <1>6
<1>8. ASSUME NEW j \in DOMAIN s, j > 1 PROVE j - 1 \in DOMAIN u /\ u[j - 1] = s[j]
  <2>1. j - 1 \in 1..(n - 1) /\ (j - 1) + 1 = j
    BY <1>5, <1>8
  <2>2. QED
    BY <1>5, <1>6, <2>1
<1>9. 1 \in DOMAIN s
  BY <1>5
<1>10. QED
  BY <1>1, <1>2, <1>3, <1>4, <1>7, <1>8, <1>9 DEF n, u

\* What is mended in two scripts is in the script that is made of them.
LEMMA JoinedAreMended ==
  ASSUME NEW S, NEW s \in Seq(S), NEW t \in Seq(S)
  PROVE  /\ FlushIsMended(s) /\ FlushIsMended(t) => FlushIsMended(s \o t)
         /\ DelIsMended(s) /\ DelIsMended(t) => DelIsMended(s \o t)
         /\ \A R : GuardsAre(s, R) /\ GuardsAre(t, R) => GuardsAre(s \o t, R)
<1> DEFINE u == s \o t
           m == Len(s)
<1>1. /\ \A i \in DOMAIN s : i \in DOMAIN u /\ u[i] = s[i]
      /\ \A i \in DOMAIN t : m + i \in DOMAIN u /\ u[m + i] = t[i]
      /\ \A k \in DOMAIN u : k \in DOMAIN s \/ \E i \in DOMAIN t : k = m + i
      /\ m \in Nat /\ DOMAIN s \subseteq Nat /\ DOMAIN t \subseteq Nat
  BY JoinedAre
<1> HIDE DEF u, m
<1>2. ASSUME FlushIsMended(s), FlushIsMended(t) PROVE FlushIsMended(u)
  <2> SUFFICES ASSUME NEW k \in DOMAIN u, u[k].do = "flush"
               PROVE  \E j \in DOMAIN u : j > k /\ u[j].do = "route"
    BY DEF FlushIsMended
  <2>1. CASE k \in DOMAIN s
    <3>1. PICK j \in DOMAIN s : j > k /\ s[j].do = "route"
      BY <1>1, <1>2, <2>1 DEF FlushIsMended
    <3>2. QED
      BY <1>1, <3>1
  <2>2. CASE \E i \in DOMAIN t : k = m + i
    <3>1. PICK i \in DOMAIN t : k = m + i
      BY <2>2
    <3>2. PICK j \in DOMAIN t : j > i /\ t[j].do = "route"
      BY <1>1, <1>2, <3>1 DEF FlushIsMended
    <3>3. m + j > k
      BY <1>1, <3>1, <3>2
    <3>4. QED
      BY <1>1, <3>2, <3>3
  <2>3. QED
    BY <1>1, <2>1, <2>2
<1>3. ASSUME DelIsMended(s), DelIsMended(t) PROVE DelIsMended(u)
  <2> SUFFICES ASSUME NEW k \in DOMAIN u, u[k].do = "del"
               PROVE  \E j \in DOMAIN u : j > k /\ u[j].do = "guard" /\ u[j].rule.at = u[k].slot
    BY DEF DelIsMended
  <2>1. CASE k \in DOMAIN s
    <3>1. PICK j \in DOMAIN s : j > k /\ s[j].do = "guard" /\ s[j].rule.at = s[k].slot
      BY <1>1, <1>3, <2>1 DEF DelIsMended
    <3>2. QED
      BY <1>1, <2>1, <3>1
  <2>2. CASE \E i \in DOMAIN t : k = m + i
    <3>1. PICK i \in DOMAIN t : k = m + i
      BY <2>2
    <3>2. PICK j \in DOMAIN t : j > i /\ t[j].do = "guard" /\ t[j].rule.at = t[i].slot
      BY <1>1, <1>3, <3>1 DEF DelIsMended
    <3>3. m + j > k
      BY <1>1, <3>1, <3>2
    <3>4. QED
      BY <1>1, <3>1, <3>2, <3>3
  <2>3. QED
    BY <1>1, <2>1, <2>2
<1>4. ASSUME NEW R, GuardsAre(s, R), GuardsAre(t, R) PROVE GuardsAre(u, R)
  <2> SUFFICES ASSUME NEW k \in DOMAIN u, u[k].do = "guard" PROVE u[k].rule \in R
    BY DEF GuardsAre
  <2>1. CASE k \in DOMAIN s
    BY <1>1, <1>4, <2>1 DEF GuardsAre
  <2>2. CASE \E i \in DOMAIN t : k = m + i
    BY <1>1, <1>4, <2>2 DEF GuardsAre
  <2>3. QED
    BY <1>1, <2>1, <2>2
<1>5. QED
  BY <1>2, <1>3, <1>4 DEF u

\* What is mended in a script is in what is left of it.
LEMMA RestIsMended ==
  ASSUME NEW S, NEW s \in Seq(S), s # <<>>
  PROVE  /\ FlushIsMended(s) => FlushIsMended(Tail(s))
         /\ DelIsMended(s) => DelIsMended(Tail(s))
         /\ \A R : GuardsAre(s, R) => GuardsAre(Tail(s), R)
         /\ \A r : ClearIsMended(s, r) => ClearIsMended(Tail(s), r)
         /\ \A c : ClearIsLast(s, c) => ClearIsLast(Tail(s), c)
         /\ \A d : EndsWith(s, d) => Tail(s) = <<>> \/ EndsWith(Tail(s), d)
<1> DEFINE u == Tail(s)
           n == Len(s)
<1>1. /\ 1 \in DOMAIN s /\ u \in Seq(S)
      /\ \A i \in DOMAIN u : i + 1 \in DOMAIN s /\ i + 1 > 1 /\ u[i] = s[i + 1]
      /\ \A j \in DOMAIN s : j > 1 => j - 1 \in DOMAIN u /\ u[j - 1] = s[j]
      /\ Len(u) = n - 1 /\ n \in Nat /\ n > 0
      /\ DOMAIN s = 1..n /\ DOMAIN u = 1..(n - 1)
  BY RestIs
<1> HIDE DEF u, n
<1>2. \A i \in DOMAIN u, j \in DOMAIN s : j > i + 1 => /\ j - 1 \in DOMAIN u /\ j - 1 > i
                                                       /\ u[j - 1] = s[j]
  <2> SUFFICES ASSUME NEW i \in DOMAIN u, NEW j \in DOMAIN s, j > i + 1
               PROVE  j - 1 \in DOMAIN u /\ j - 1 > i /\ u[j - 1] = s[j]
    OBVIOUS
  <2>1. i \in Nat /\ j \in Nat /\ j > 1 /\ j - 1 > i
    BY <1>1
  <2>2. QED
    BY <1>1, <2>1
<1>3. ASSUME FlushIsMended(s) PROVE FlushIsMended(u)
  <2> SUFFICES ASSUME NEW i \in DOMAIN u, u[i].do = "flush"
               PROVE  \E j \in DOMAIN u : j > i /\ u[j].do = "route"
    BY DEF FlushIsMended
  <2>1. PICK j \in DOMAIN s : j > i + 1 /\ s[j].do = "route"
    BY <1>1, <1>3 DEF FlushIsMended
  <2>2. QED
    BY <1>2, <2>1
<1>4. ASSUME DelIsMended(s) PROVE DelIsMended(u)
  <2> SUFFICES ASSUME NEW i \in DOMAIN u, u[i].do = "del"
               PROVE  \E j \in DOMAIN u : j > i /\ u[j].do = "guard" /\ u[j].rule.at = u[i].slot
    BY DEF DelIsMended
  <2>1. PICK j \in DOMAIN s : j > i + 1 /\ s[j].do = "guard" /\ s[j].rule.at = s[i + 1].slot
    BY <1>1, <1>4 DEF DelIsMended
  <2>2. QED
    BY <1>1, <1>2, <2>1
<1>5. ASSUME NEW r, ClearIsMended(s, r) PROVE ClearIsMended(u, r)
  <2> SUFFICES ASSUME NEW i \in DOMAIN u, u[i].do = "clear"
               PROVE  /\ u[i].slot = r.at
                      /\ \E j \in DOMAIN u : j > i /\ u[j].do = "guard" /\ u[j].rule = r
    BY DEF ClearIsMended
  <2>1. s[i + 1].slot = r.at
    BY <1>1, <1>5 DEF ClearIsMended
  <2>2. PICK j \in DOMAIN s : j > i + 1 /\ s[j].do = "guard" /\ s[j].rule = r
    BY <1>1, <1>5 DEF ClearIsMended
  <2>3. QED
    BY <1>1, <1>2, <2>1, <2>2
<1>6. ASSUME NEW R, GuardsAre(s, R) PROVE GuardsAre(u, R)
  BY <1>1, <1>6 DEF GuardsAre
<1>7. ASSUME NEW c, ClearIsLast(s, c) PROVE ClearIsLast(u, c)
  <2> SUFFICES ASSUME NEW i \in DOMAIN u, u[i].do = "clear" PROVE i = Len(u) /\ u[i].slot = c
    BY DEF ClearIsLast
  <2>1. i + 1 = n /\ s[i + 1].slot = c
    BY <1>1, <1>7 DEF ClearIsLast, n
  <2>2. QED
    BY <1>1, <2>1
<1>8. ASSUME NEW d, EndsWith(s, d), u # <<>> PROVE EndsWith(u, d)
  <2>1. Len(u) \in DOMAIN u /\ Len(u) + 1 = n
    BY <1>1, <1>8, EmptySeq, LenProperties
  <2>2. s[n].do = d
    BY <1>8 DEF EndsWith, n
  <2>3. QED
    BY <1>1, <1>8, <2>1, <2>2 DEF EndsWith
<1>9. QED
  BY <1>3, <1>4, <1>5, <1>6, <1>7, <1>8 DEF u

\* A reconcile has a function of the instances in their order, that is a script of them.
LEMMA OrderIs ==
  ASSUME NEW S, IsFiniteSet(S), NEW store, NEW o \in Setup!InOrder(S, store)
  PROVE  /\ \E n \in Nat : DOMAIN o = 1..n
         /\ \A i \in DOMAIN o : o[i] \in S
         /\ \A d \in S : \E i \in DOMAIN o : o[i] = d
<1>1. Setup!Cardinality(S) = Cardinality(S)
  BY DEF Setup!Cardinality, Cardinality
<1>2. Cardinality(S) \in Nat
  BY FS_CardinalityType
<1>3. o \in [1..Cardinality(S) -> S] /\ \A d \in S : \E i \in DOMAIN o : o[i] = d
  BY <1>1 DEF Setup!InOrder
<1>4. QED
  BY <1>2, <1>3

\* There are finitely many rules to delete and to add.
LEMMA WrongAreFinite ==
  ASSUME NEW rules, NEW store
  PROVE  IsFiniteSet(Setup!Found(rules, store)) /\ IsFiniteSet(Setup!Wanted(rules, store))
<1>1. IsFiniteSet(Plans \X Pairs)
  BY SetupAssumption, FS_Product
<1>2. /\ Setup!Found(rules, store) \in SUBSET (Plans \X Pairs)
      /\ Setup!Wanted(rules, store) \in SUBSET (Plans \X Pairs)
  BY DEF Setup!Found, Setup!Wanted, Setup!Wrong, Setup!Saved
<1>3. QED
  BY <1>1, <1>2, FS_Subset


\* A reconcile is a script that mends what it takes away, with the rules of the stored
\* instances only, and enters in the model what is written.
LEMMA ReconcileIs ==
  ASSUME NEW rules \in SUBSET Setup!At, NEW store \in Setup!Stores, NEW force \in BOOLEAN,
         NEW lines \in Setup!Reconcile(rules, store, force)
  PROVE  /\ lines \in Seq(Setup!Lines)
         /\ FlushIsMended(lines) /\ DelIsMended(lines) /\ GuardsAre(lines, RulesOf(store))
         /\ \A i \in DOMAIN lines : lines[i].do \in Reconciles
<1> DEFINE found  == Setup!Found(rules, store)
           wanted == Setup!Wanted(rules, store)
<1>1. PICK o \in Setup!InOrder(found, store) \X Setup!InOrder(wanted, store) :
         lines = Setup!Repair(o[1], o[2], rules, store, force)
  BY DEF Setup!Reconcile
<1>2. PICK dels, adds : /\ dels \in Setup!InOrder(found, store)
                        /\ adds \in Setup!InOrder(wanted, store)
                        /\ lines = Setup!Repair(dels, adds, rules, store, force)
  BY <1>1
<1>3. IsFiniteSet(found) /\ IsFiniteSet(wanted)
  BY WrongAreFinite
<1>4. PICK n \in Nat : DOMAIN dels = 1..n
  BY <1>2, <1>3, OrderIs
<1>5. PICK m \in Nat : DOMAIN adds = 1..m
  BY <1>2, <1>3, OrderIs
<1>6. /\ \A i \in 1..n : dels[i] \in found
      /\ \A i \in 1..m : adds[i] \in wanted
      /\ \A d \in wanted : \E i \in 1..m : adds[i] = d
  BY <1>2, <1>3, <1>4, <1>5, OrderIs
<1>7. ASSUME NEW d \in found
      PROVE  /\ d[1] \in Setup!Saved(store) /\ d[1] \in Setup!Wrong(rules, store)
             /\ store.inst[d[1]].slot \in Slots
  <2>1. d[1] \in Setup!Wrong(rules, store)
    BY DEF Setup!Found
  <2>2. d[1] \in Setup!Saved(store)
    BY <2>1 DEF Setup!Wrong
  <2>3. QED
    BY <2>1, <2>2, SavedAre
<1>8. ASSUME NEW d \in wanted
      PROVE  d[1] \in Setup!Saved(store) /\ Setup!Rule(store.inst[d[1]]) \in Setup!At
  <2>1. d[1] \in Setup!Saved(store)
    BY DEF Setup!Wanted, Setup!Wrong
  <2>2. QED
    BY <2>1, SavedAre
<1>9. ASSUME NEW p \in Setup!Wrong(rules, store) PROVE \E i \in 1..m : adds[i][1] = p
  <2>1. p \in Setup!Saved(store) /\ store.inst[p].pair \in Pairs
    BY SavedAre DEF Setup!Wrong
  <2>2. <<p, store.inst[p].pair>> \in wanted
    BY <2>1 DEF Setup!Wanted
  <2>3. QED
    BY <1>6, <2>2
<1> DEFINE H == IF force \/ adds # <<>> THEN <<[do |-> "flush"], [do |-> "route"]>> ELSE <<>>
           D == [i \in DOMAIN dels |-> [do |-> "del", slot |-> store.inst[dels[i][1]].slot]]
           A == [i \in DOMAIN adds |->
                    [do |-> "guard", rule |-> Setup!Rule(store.inst[adds[i][1]])]]
           R == {r \in rules : \A p \in Setup!Wrong(rules, store) : store.inst[p].slot # r.at}
                \cup RulesOf(store)
           M == <<[do |-> "model", rules |-> R]>>
<1>10. lines = ((H \o D) \o A) \o M
  BY <1>2 DEF Setup!Repair, RulesOf
<1>11. H \in Seq(Setup!Lines) /\ FlushIsMended(H) /\ DelIsMended(H)
      /\ GuardsAre(H, RulesOf(store))
       /\ \A i \in DOMAIN H : H[i].do \in Reconciles
  <2>1. [do |-> "flush"] \in Setup!Lines /\ [do |-> "route"] \in Setup!Lines
    BY DEF Setup!Lines
  <2> DEFINE h == <<[do |-> "flush"], [do |-> "route"]>>
  <2>2. h \in Seq(Setup!Lines) /\ <<>> \in Seq(Setup!Lines)
    BY <2>1
  <2>3. /\ h[1].do = "flush" /\ h[2].do = "route" /\ DOMAIN h = 1..2 /\ DOMAIN <<>> = {}
    OBVIOUS
  <2>4. \A i \in DOMAIN h : i = 1 \/ i = 2
    BY <2>3
  <2> HIDE DEF h
  <2>5. FlushIsMended(h) /\ DelIsMended(h) /\ GuardsAre(h, RulesOf(store))
    BY <2>3, <2>4 DEF FlushIsMended, DelIsMended, GuardsAre
  <2>6. FlushIsMended(<<>>) /\ DelIsMended(<<>>) /\ GuardsAre(<<>>, RulesOf(store))
    BY <2>3 DEF FlushIsMended, DelIsMended, GuardsAre
  <2>7. H = h \/ H = <<>>
    BY DEF h
  <2>8. /\ \A i \in DOMAIN h : h[i].do \in Reconciles
        /\ \A i \in DOMAIN <<>> : (<<>>)[i].do \in Reconciles
    BY <2>3, <2>4 DEF Reconciles
  <2> HIDE DEF H
  <2>9. QED
    BY <2>2, <2>5, <2>6, <2>7, <2>8
<1>12. D \in Seq(Setup!Lines) /\ DOMAIN D = 1..n
       /\ \A i \in 1..n : D[i].do = "del" /\ D[i].slot = store.inst[dels[i][1]].slot
  <2>1. \A i \in 1..n : [do |-> "del", slot |-> store.inst[dels[i][1]].slot] \in Setup!Lines
    BY <1>6, <1>7 DEF Setup!Lines
  <2>2. D \in [1..n -> Setup!Lines]
    BY <1>4, <2>1
  <2>3. QED
    BY <1>4, <2>2
<1>13. A \in Seq(Setup!Lines) /\ DOMAIN A = 1..m
       /\ \A i \in 1..m : A[i].do = "guard" /\ A[i].rule = Setup!Rule(store.inst[adds[i][1]])
  <2>1. \A i \in 1..m :
        [do |-> "guard", rule |-> Setup!Rule(store.inst[adds[i][1]])] \in Setup!Lines
    BY <1>6, <1>8 DEF Setup!Lines
  <2>2. A \in [1..m -> Setup!Lines]
    BY <1>5, <2>1
  <2>3. \A i \in 1..m : A[i] = [do |-> "guard", rule |-> Setup!Rule(store.inst[adds[i][1]])]
    BY <1>5
  <2> HIDE DEF A
  <2>4. ASSUME NEW i \in 1..m
        PROVE  A[i].do = "guard" /\ A[i].rule = Setup!Rule(store.inst[adds[i][1]])
    <3> DEFINE r == Setup!Rule(store.inst[adds[i][1]])
    <3>1. A[i] = [do |-> "guard", rule |-> r]
      BY <2>3
    <3> HIDE DEF r
    <3>2. A[i].do = "guard" /\ A[i].rule = r
      BY <3>1
    <3>3. QED
      BY <3>2 DEF r
  <2>5. QED
    BY <2>2, <2>4
<1>14. M \in Seq(Setup!Lines) /\ DOMAIN M = 1..1 /\ M[1].do = "model"
  <2>1. R \in SUBSET Setup!At
    BY SavedAre DEF RulesOf
  <2>2. [do |-> "model", rules |-> R] \in Setup!Lines
    BY <2>1 DEF Setup!Lines
  <2>3. QED
    BY <2>2
<1> DEFINE DA == D \o A
<1>15. (H \o D) \o A = H \o DA
  <2> HIDE DEF H, D, A
  <2> QED  BY <1>11, <1>12, <1>13, ConcatAssociative
<1> HIDE DEF H, D, A, M, DA, found, wanted
<1>16. /\ DA \in Seq(Setup!Lines)
       /\ \A i \in 1..n : i \in DOMAIN DA /\ DA[i] = D[i]
       /\ \A i \in 1..m : Len(D) + i \in DOMAIN DA /\ DA[Len(D) + i] = A[i]
       /\ \A k \in DOMAIN DA : k \in 1..n \/ \E i \in 1..m : k = Len(D) + i
       /\ \A i \in 1..n, j \in 1..m : i < Len(D) + j
  BY <1>12, <1>13, JoinedAre DEF DA
<1>17. \A k \in DOMAIN DA :
         \/ /\ DA[k].do = "del"
            /\ \E i \in 1..n : k = i /\ DA[k].slot = store.inst[dels[i][1]].slot
         \/ \E i \in 1..m :
              DA[k].do = "guard" /\ DA[k].rule = Setup!Rule(store.inst[adds[i][1]])
  <2> SUFFICES ASSUME NEW k \in DOMAIN DA
               PROVE  \/ DA[k].do = "del" /\ \E i \in 1..n : /\ k = i
                                                 /\ DA[k].slot = store.inst[dels[i][1]].slot
                      \/ \E i \in 1..m : /\ DA[k].do = "guard"
                                         /\ DA[k].rule = Setup!Rule(store.inst[adds[i][1]])
    OBVIOUS
  <2>1. CASE k \in 1..n
    <3>1. DA[k].do = "del" /\ DA[k].slot = store.inst[dels[k][1]].slot
      BY <1>12, <1>16, <2>1
    <3>2. QED
      BY <2>1, <3>1
  <2>2. CASE \E i \in 1..m : k = Len(D) + i
    <3>1. PICK i \in 1..m : k = Len(D) + i
      BY <2>2
    <3>2. DA[k].do = "guard" /\ DA[k].rule = Setup!Rule(store.inst[adds[i][1]])
      BY <1>13, <1>16, <3>1
    <3>3. QED
      BY <3>2
  <2>3. QED
    BY <1>16, <2>1, <2>2
<1>18. FlushIsMended(DA) /\ GuardsAre(DA, RulesOf(store))
  <2>1. FlushIsMended(DA)
    BY <1>17 DEF FlushIsMended
  <2>2. \A i \in 1..m : Setup!Rule(store.inst[adds[i][1]]) \in RulesOf(store)
    BY <1>6, <1>8 DEF RulesOf
  <2>3. QED
    BY <1>17, <2>1, <2>2 DEF GuardsAre
<1>19. DelIsMended(DA)
  <2> SUFFICES ASSUME NEW k \in DOMAIN DA, DA[k].do = "del"
               PROVE  \E j \in DOMAIN DA : /\ j > k /\ DA[j].do = "guard"
                                           /\ DA[j].rule.at = DA[k].slot
    BY DEF DelIsMended
  <2>1. PICK i \in 1..n : k = i /\ DA[k].slot = store.inst[dels[i][1]].slot
    BY <1>17
  <2>2. dels[i][1] \in Setup!Wrong(rules, store) /\ dels[i][1] \in Setup!Saved(store)
    BY <1>6, <1>7
  <2>3. PICK j \in 1..m : adds[j][1] = dels[i][1]
    BY <1>9, <2>2
  <2>4. A[j].do = "guard" /\ A[j].rule.at = store.inst[dels[i][1]].slot
    BY <1>13, <2>2, <2>3, SavedAre
  <2>5. /\ Len(D) + j \in DOMAIN DA /\ DA[Len(D) + j] = A[j] /\ k < Len(D) + j
        /\ Len(D) \in Nat /\ k \in Nat /\ j \in Nat
    BY <1>12, <1>16, <2>1, LenProperties
  <2>6. QED
    BY <2>1, <2>4, <2>5
<1>20. \A k \in DOMAIN DA : DA[k].do \in Reconciles
  BY <1>17 DEF Reconciles
<1>21. FlushIsMended(M) /\ DelIsMended(M) /\ GuardsAre(M, RulesOf(store))
       /\ \A k \in DOMAIN M : M[k].do \in Reconciles
  BY <1>14 DEF FlushIsMended, DelIsMended, GuardsAre, Reconciles
<1> DEFINE G == H \o DA
<1>22. /\ G \in Seq(Setup!Lines)
       /\ FlushIsMended(G) /\ DelIsMended(G) /\ GuardsAre(G, RulesOf(store))
       /\ \A k \in DOMAIN G : G[k].do \in Reconciles
  BY <1>11, <1>16, <1>18, <1>19, <1>20, JoinedAreMended, JoinedAre
<1> HIDE DEF G
<1>23. lines = G \o M
  BY <1>10, <1>15 DEF G
<1>24. /\ G \o M \in Seq(Setup!Lines)
       /\ FlushIsMended(G \o M) /\ DelIsMended(G \o M) /\ GuardsAre(G \o M, RulesOf(store))
  BY <1>14, <1>21, <1>22, JoinedAreMended, JoinedAre
<1>25. \A k \in DOMAIN (G \o M) : (G \o M)[k].do \in Reconciles
  BY <1>14, <1>21, <1>22, JoinedAre
<1>26. QED
  BY <1>23, <1>24, <1>25

\* What one of two scripts adds or clears, and how they end.
LEMMA JoinedAdd ==
  ASSUME NEW S, NEW s \in Seq(S), NEW t \in Seq(S)
  PROVE  /\ \A r : ClearIsMended(s, r) /\ ClearIsMended(t, r) => ClearIsMended(s \o t, r)
         /\ \A r : Adds(s, r) \/ Adds(t, r) => Adds(s \o t, r)
         /\ LaysRoute(s) \/ LaysRoute(t) => LaysRoute(s \o t)
         /\ \A d : EndsWith(t, d) => EndsWith(s \o t, d)
<1> DEFINE u == s \o t
           m == Len(s)
<1>1. /\ \A i \in DOMAIN s : i \in DOMAIN u /\ u[i] = s[i]
      /\ \A i \in DOMAIN t : m + i \in DOMAIN u /\ u[m + i] = t[i]
      /\ \A k \in DOMAIN u : k \in DOMAIN s \/ \E i \in DOMAIN t : k = m + i
      /\ m \in Nat /\ DOMAIN s \subseteq Nat /\ DOMAIN t \subseteq Nat
  BY JoinedAre
<1>2. /\ Len(u) = m + Len(t) /\ u \in Seq(S) /\ Len(t) \in Nat
      /\ t # <<>> => Len(t) \in DOMAIN t
  BY ConcatProperties, LenProperties, EmptySeq
<1> HIDE DEF u, m
<1>3. ASSUME NEW r, ClearIsMended(s, r), ClearIsMended(t, r) PROVE ClearIsMended(u, r)
  <2> SUFFICES ASSUME NEW k \in DOMAIN u, u[k].do = "clear"
               PROVE  /\ u[k].slot = r.at
                      /\ \E j \in DOMAIN u : j > k /\ u[j].do = "guard" /\ u[j].rule = r
    BY DEF ClearIsMended
  <2>1. CASE k \in DOMAIN s
    <3>1. PICK j \in DOMAIN s : j > k /\ s[j].do = "guard" /\ s[j].rule = r
      BY <1>1, <1>3, <2>1 DEF ClearIsMended
    <3>2. s[k].slot = r.at
      BY <1>1, <1>3, <2>1 DEF ClearIsMended
    <3>3. QED
      BY <1>1, <2>1, <3>1, <3>2
  <2>2. CASE \E i \in DOMAIN t : k = m + i
    <3>1. PICK i \in DOMAIN t : k = m + i
      BY <2>2
    <3>2. PICK j \in DOMAIN t : j > i /\ t[j].do = "guard" /\ t[j].rule = r
      BY <1>1, <1>3, <3>1 DEF ClearIsMended
    <3>3. t[i].slot = r.at
      BY <1>1, <1>3, <3>1 DEF ClearIsMended
    <3>4. m + j > k
      BY <1>1, <3>1, <3>2
    <3>5. QED
      BY <1>1, <3>1, <3>2, <3>3, <3>4
  <2>3. QED
    BY <1>1, <2>1, <2>2
<1>4. ASSUME NEW r, Adds(s, r) \/ Adds(t, r) PROVE Adds(u, r)
  BY <1>1, <1>4 DEF Adds
<1>5. ASSUME LaysRoute(s) \/ LaysRoute(t) PROVE LaysRoute(u)
  BY <1>1, <1>5 DEF LaysRoute
<1>6. ASSUME NEW d, EndsWith(t, d) PROVE EndsWith(u, d)
  <2>1. t # <<>> /\ t[Len(t)].do = d /\ Len(t) \in DOMAIN t
    BY <1>2, <1>6 DEF EndsWith
  <2>2. u[Len(u)].do = d /\ Len(u) \in DOMAIN u
    BY <1>1, <1>2, <2>1
  <2>3. QED
    BY <2>2 DEF EndsWith
<1>7. QED
  BY <1>3, <1>4, <1>5, <1>6 DEF u

\* One line, as a script.
LEMMA OneLine ==
  ASSUME NEW line \in Setup!Lines
  PROVE  /\ <<line>> \in Seq(Setup!Lines) /\ DOMAIN <<line>> = {1} /\ <<line>>[1] = line
         /\ Len(<<line>>) = 1 /\ <<line>> # <<>>
         /\ line.do \notin {"flush", "del", "guard", "clear"} =>
              /\ FlushIsMended(<<line>>) /\ DelIsMended(<<line>>)
              /\ \A R : GuardsAre(<<line>>, R)
              /\ \A r : ClearIsMended(<<line>>, r)
<1> DEFINE s == <<line>>
<1>1. s \in Seq(Setup!Lines) /\ DOMAIN s = {1} /\ s[1] = line /\ Len(s) = 1 /\ s # <<>>
  OBVIOUS
<1> HIDE DEF s
<1>2. ASSUME line.do \notin {"flush", "del", "guard", "clear"}
      PROVE  /\ FlushIsMended(s) /\ DelIsMended(s) /\ \A R : GuardsAre(s, R)
             /\ \A r : ClearIsMended(s, r)
  BY <1>1, <1>2 DEF FlushIsMended, DelIsMended, GuardsAre, ClearIsMended
<1>3. QED
  BY <1>1, <1>2 DEF s

\* The script of a catch-all clears its preference and adds the rule.
LEMMA CatchIs ==
  ASSUME NEW i, i.slot \in Slots, Setup!Rule(i) \in Setup!At, Setup!Rule(i).at = i.slot
  PROVE  /\ Setup!Catch(i) \in Seq(Setup!Lines)
         /\ FlushIsMended(Setup!Catch(i)) /\ DelIsMended(Setup!Catch(i))
         /\ GuardsAre(Setup!Catch(i), {Setup!Rule(i)})
         /\ ClearIsMended(Setup!Catch(i), Setup!Rule(i))
         /\ Adds(Setup!Catch(i), Setup!Rule(i)) /\ LaysRoute(Setup!Catch(i))
         /\ \A k \in DOMAIN Setup!Catch(i) :
              Setup!Catch(i)[k].do \in {"flush", "route", "clear", "guard"}
<1> DEFINE r == Setup!Rule(i)
           c == <<[do |-> "flush"], [do |-> "route"], [do |-> "clear", slot |-> i.slot],
                  [do |-> "guard", rule |-> r]>>
<1>1. Setup!Catch(i) = c
  BY DEF Setup!Catch
<1> HIDE DEF r
<1>2. /\ [do |-> "flush"] \in Setup!Lines /\ [do |-> "route"] \in Setup!Lines
      /\ [do |-> "clear", slot |-> i.slot] \in Setup!Lines
      /\ [do |-> "guard", rule |-> r] \in Setup!Lines
  BY DEF Setup!Lines, r
<1>3. /\ c \in Seq(Setup!Lines) /\ DOMAIN c = 1..4
      /\ c[1].do = "flush" /\ c[2].do = "route"
      /\ c[3].do = "clear" /\ c[3].slot = i.slot
      /\ c[4].do = "guard" /\ c[4].rule = r
  BY <1>2
<1> HIDE DEF c
<1>4. \A k \in DOMAIN c : k = 1 \/ k = 2 \/ k = 3 \/ k = 4
  BY <1>3
<1>5. r.at = i.slot
  BY DEF r
<1>6. FlushIsMended(c) /\ DelIsMended(c)
  BY <1>3, <1>4 DEF FlushIsMended, DelIsMended
<1>7. GuardsAre(c, {r})
  BY <1>3, <1>4 DEF GuardsAre
<1>8. ClearIsMended(c, r)
  <2>1. \A k \in DOMAIN c : c[k].do = "clear" => k = 3
    BY <1>3, <1>4
  <2>2. 4 > 3 /\ 4 \in DOMAIN c
    BY <1>3
  <2>3. QED
    BY <1>3, <1>5, <2>1, <2>2 DEF ClearIsMended
<1>9. Adds(c, r) /\ LaysRoute(c)
  BY <1>3 DEF Adds, LaysRoute
<1>10. \A k \in DOMAIN c : c[k].do \in {"flush", "route", "clear", "guard"}
  BY <1>3, <1>4
<1>11. QED
  BY <1>1, <1>3, <1>6, <1>7, <1>8, <1>9, <1>10 DEF r

\* What every line of two scripts is, every line of the joined script is.
LEMMA JoinedFit ==
  ASSUME NEW S, NEW s \in Seq(S), NEW t \in Seq(S), NEW kind,
         \A k \in DOMAIN s : LineFits(kind, s[k].do),
         \A k \in DOMAIN t : LineFits(kind, t[k].do)
  PROVE  \A k \in DOMAIN (s \o t) : LineFits(kind, (s \o t)[k].do)
BY JoinedAre

\* The script of an installation.
LEMMA InstallIs ==
  ASSUME NEW i, i.slot \in Slots, Setup!Rule(i) \in Setup!At, Setup!Rule(i).at = i.slot,
         NEW s, s = <<[do |-> "forward"]>> \o Setup!Catch(i) \o <<[do |-> "save"]>>
  PROVE  /\ s \in Seq(Setup!Lines)
         /\ FlushIsMended(s) /\ DelIsMended(s) /\ GuardsAre(s, {Setup!Rule(i)})
         /\ ClearIsMended(s, Setup!Rule(i)) /\ Adds(s, Setup!Rule(i)) /\ LaysRoute(s)
         /\ EndsWith(s, "save")
         /\ \A k \in DOMAIN s : LineFits("install", s[k].do)
<1> DEFINE first == <<[do |-> "forward"]>>
           c == Setup!Catch(i)
           last == <<[do |-> "save"]>>
           r == Setup!Rule(i)
<1>1. [do |-> "forward"] \in Setup!Lines /\ [do |-> "save"] \in Setup!Lines
  BY DEF Setup!Lines
<1>2. /\ first \in Seq(Setup!Lines) /\ FlushIsMended(first) /\ DelIsMended(first)
      /\ GuardsAre(first, {r}) /\ ClearIsMended(first, r)
      /\ \A k \in DOMAIN first : LineFits("install", first[k].do)
  BY <1>1, OneLine DEF LineFits
<1>3. /\ last \in Seq(Setup!Lines) /\ FlushIsMended(last) /\ DelIsMended(last)
      /\ GuardsAre(last, {r}) /\ ClearIsMended(last, r) /\ EndsWith(last, "save")
      /\ \A k \in DOMAIN last : LineFits("install", last[k].do)
  BY <1>1, OneLine DEF LineFits, EndsWith
<1>4. /\ c \in Seq(Setup!Lines) /\ FlushIsMended(c) /\ DelIsMended(c) /\ GuardsAre(c, {r})
      /\ ClearIsMended(c, r) /\ Adds(c, r) /\ LaysRoute(c)
      /\ \A k \in DOMAIN c : LineFits("install", c[k].do)
  BY CatchIs DEF LineFits
<1> HIDE DEF first, c, last, r
<1> DEFINE fc == first \o c
<1>5. /\ fc \in Seq(Setup!Lines) /\ FlushIsMended(fc) /\ DelIsMended(fc) /\ GuardsAre(fc, {r})
      /\ ClearIsMended(fc, r) /\ Adds(fc, r) /\ LaysRoute(fc)
      /\ \A k \in DOMAIN fc : LineFits("install", fc[k].do)
  BY <1>2, <1>4, JoinedAre, JoinedAreMended, JoinedAdd, JoinedFit
<1> HIDE DEF fc
<1>6. s = fc \o last
  BY DEF fc, first, c, last
<1> DEFINE u == fc \o last
<1>7. /\ u \in Seq(Setup!Lines)
      /\ \A k \in DOMAIN u : LineFits("install", u[k].do)
  BY ONLY <1>3, <1>5, JoinedAre, JoinedFit
<1>8. FlushIsMended(u) /\ DelIsMended(u) /\ GuardsAre(u, {r})
  BY ONLY <1>3, <1>5, JoinedAreMended
<1>9. ClearIsMended(u, r) /\ Adds(u, r) /\ LaysRoute(u) /\ EndsWith(u, "save")
  BY ONLY <1>3, <1>5, JoinedAdd
<1> HIDE DEF u
<1>10. s = u
  BY <1>6 DEF u
<1>11. QED
  BY <1>7, <1>8, <1>9, <1>10 DEF r

\* The script of a deletion clears the preference at its end.
LEMMA DeletionIs ==
  ASSUME NEW i, i.slot \in Slots, NEW store \in Setup!Stores, model[1] \in SUBSET Setup!At,
         NEW s \in Setup!Deletion(i, store)
  PROVE  /\ s \in Seq(Setup!Lines)
         /\ FlushIsMended(s) /\ DelIsMended(s) /\ GuardsAre(s, RulesOf(store))
         /\ ClearIsLast(s, i.slot) /\ EndsWith(s, "clear")
         /\ \A k \in DOMAIN s : LineFits("delete", s[k].do)
<1> DEFINE first == <<[do |-> "unforward", slot |-> i.slot]>>
           last == <<[do |-> "clear", slot |-> i.slot]>>
           R == RulesOf(store)
<1>1. PICK c \in Setup!Reconcile(model[1], store, FALSE) : s = first \o c \o last
  BY DEF Setup!Deletion
<1>2. [do |-> "unforward", slot |-> i.slot] \in Setup!Lines
      /\ [do |-> "clear", slot |-> i.slot] \in Setup!Lines
  BY DEF Setup!Lines
<1>3. /\ first \in Seq(Setup!Lines) /\ FlushIsMended(first) /\ DelIsMended(first)
      /\ GuardsAre(first, R)
      /\ \A k \in DOMAIN first : LineFits("delete", first[k].do) /\ first[k].do # "clear"
  BY <1>2, OneLine DEF LineFits
<1>4. /\ last \in Seq(Setup!Lines) /\ EndsWith(last, "clear") /\ DOMAIN last = {1}
      /\ last[1].do = "clear" /\ last[1].slot = i.slot /\ Len(last) = 1
      /\ \A k \in DOMAIN last : LineFits("delete", last[k].do)
  BY <1>2, OneLine DEF LineFits, EndsWith
<1>5. /\ c \in Seq(Setup!Lines) /\ FlushIsMended(c) /\ DelIsMended(c) /\ GuardsAre(c, R)
      /\ \A k \in DOMAIN c : LineFits("delete", c[k].do) /\ c[k].do # "clear"
  BY ReconcileIs DEF LineFits, Reconciles
<1> HIDE DEF first, last, R
<1>6. FlushIsMended(last) /\ DelIsMended(last) /\ GuardsAre(last, R)
  BY <1>4 DEF FlushIsMended, DelIsMended, GuardsAre
<1> DEFINE fc == first \o c
<1>7. /\ fc \in Seq(Setup!Lines) /\ FlushIsMended(fc) /\ DelIsMended(fc) /\ GuardsAre(fc, R)
      /\ \A k \in DOMAIN fc : LineFits("delete", fc[k].do)
  BY <1>3, <1>5, JoinedAre, JoinedAreMended, JoinedFit
<1>8. \A k \in DOMAIN fc : fc[k].do # "clear"
  BY <1>3, <1>5, JoinedAre
<1> HIDE DEF fc
<1>9. s = fc \o last
  BY <1>1 DEF fc
<1>10. ClearIsLast(s, i.slot)
  <2> SUFFICES ASSUME NEW k \in DOMAIN s, s[k].do = "clear"
               PROVE  k = Len(s) /\ s[k].slot = i.slot
    BY DEF ClearIsLast
  <2>1. k = Len(fc) + 1 /\ s[k] = last[1]
    BY <1>4, <1>7, <1>8, <1>9, JoinedAre
  <2>2. Len(fc \o last) = Len(fc) + Len(last)
    BY ONLY <1>4, <1>7, ConcatProperties
  <2>3. QED
    BY <1>4, <1>9, <2>1, <2>2
<1>11. QED
  BY <1>4, <1>6, <1>7, <1>9, <1>10, JoinedAre, JoinedAreMended, JoinedAdd, JoinedFit DEF R

\* The script that puts a catch-all back.
LEMMA RestoreIs ==
  ASSUME NEW i, i.slot \in Slots, Setup!Rule(i) \in Setup!At, Setup!Rule(i).at = i.slot,
         NEW store \in Setup!Stores, model[1] \in SUBSET Setup!At,
         NEW c \in Setup!Reconcile(model[1], store, TRUE)
  PROVE  /\ Setup!Catch(i) \o c \in Seq(Setup!Lines)
         /\ \A k \in DOMAIN (Setup!Catch(i) \o c) :
              LineFits("restore", (Setup!Catch(i) \o c)[k].do)
<1>1. /\ Setup!Catch(i) \in Seq(Setup!Lines)
      /\ \A k \in DOMAIN Setup!Catch(i) : LineFits("restore", Setup!Catch(i)[k].do)
  BY CatchIs DEF LineFits
<1>2. c \in Seq(Setup!Lines) /\ \A k \in DOMAIN c : LineFits("restore", c[k].do)
  BY ReconcileIs DEF LineFits, Reconciles
<1>3. QED
  BY <1>1, <1>2, JoinedAre, JoinedFit

-----------------------------------------------------------------------------
(***************************************************************************)
(* The steps of the plans: only one of them changes.                       *)
(***************************************************************************)

\* What the invariant says of what may change beside the script that runs.
LEMMA ScriptStands ==
  ASSUME ScriptFits, RouterFits, UNCHANGED <<router, data, op>>,
         op.kind = "install" => prep'[op.plan] = prep[op.plan]
  PROVE  ScriptFits' /\ RouterFits'
<1>1. Due' = Due
  <2>1. Installing' = Installing
    BY DEF Installing
  <2>2. \A p \in Installing : prep'[p] = prep[p]
    BY DEF Installing
  <2>3. {Setup!Rule(prep[p])' : p \in Installing'} = {Setup!Rule(prep[p]) : p \in Installing}
    BY <2>1, <2>2 DEF Setup!Rule
  <2>4. {Setup!Rule(data.inst[p])' : p \in Setup!Saved(data)'}
          = {Setup!Rule(data.inst[p]) : p \in Setup!Saved(data)}
    BY DEF Setup!Rule, Setup!Saved
  <2>5. QED
    BY <2>3, <2>4 DEF Due
<1>2. op.kind = "install" => Own' = Own
  BY DEF Own, Setup!Rule
<1>3. ScriptFits'
  BY <1>1, <1>2
  DEF ScriptFits, FlushIsMended, DelIsMended, GuardsAre, ClearIsMended, ClearIsLast
<1>4. RouterFits'
  BY <1>1 DEF RouterFits, Adds, LaysRoute, EndsWith
<1>5. QED
  BY <1>3, <1>4

\* One plan changes, that is not at work: it is new, reserved or released, or gets on.
LEMMA PlanChanges ==
  ASSUME SetupInv, UNCHANGED <<router, sample, model, data, disk, dirty, op, broken>>,
         NEW p \in Plans, NEW r \in Setup!Preps \cup {Setup!NoPrep},
         prep' = [prep EXCEPT ![p] = r],
         op.kind \in {"tables", "install"} => op.plan # p,
         r # Setup!NoPrep => p \notin Setup!Saved(data),
         r.stage \in {"revalidate", "tables", "install"} =>
           \/ /\ p \in Setup!Reserved
              /\ r.pair = prep[p].pair /\ r.slot = prep[p].slot /\ r.table = prep[p].table
           \/ \A q \in Setup!Reserved :
                /\ r.pair # prep[q].pair /\ r.slot # prep[q].slot
                /\ r.table # Setup!NoTable => r.table # prep[q].table,
         r.stage = "tables" => /\ r.table # Setup!NoTable
                               /\ \A c \in Pairs : c # r.pair => router.table[c] # r.table,
         r.stage \in {"tables", "install"} => model # <<>>
  PROVE  SetupInv'
<1>1. prep \in [Plans -> Setup!Preps \cup {Setup!NoPrep}]
  BY DEF SetupInv, Setup!TypeOK
<1>2. /\ prep'[p] = r /\ \A q \in Plans : q # p => prep'[q] = prep[q]
      /\ prep' \in [Plans -> Setup!Preps \cup {Setup!NoPrep}]
  BY <1>1
<1>3. op.kind \in {"tables", "install"} => op.plan \in Plans /\ prep'[op.plan] = prep[op.plan]
  BY <1>2 DEF SetupInv, PrepFits
<1>4. Setup!TypeOK'
  BY <1>2 DEF SetupInv, Setup!TypeOK
<1>5. Setup!SlotsAreExclusive'
  <2>1. \A store \in {data, disk} : \A a, b \in Setup!Saved(store) :
          a # b => /\ store.inst[a].slot # store.inst[b].slot
                   /\ store.inst[a].pair # store.inst[b].pair
    BY DEF SetupInv, Setup!SlotsAreExclusive
  <2>2. \A a, b \in Setup!Reserved : a # b => ~Setup!Overlaps(a, b)
    BY DEF SetupInv, Setup!SlotsAreExclusive
  <2>3. ASSUME NEW a \in Setup!Reserved', NEW b \in Setup!Reserved', a # b
        PROVE  ~Setup!Overlaps(a, b)'
    <3>1. \A q \in Plans : q # p /\ q \in Setup!Reserved' => q \in Setup!Reserved
      BY <1>2 DEF Setup!Reserved
    <3>2. a \in Plans /\ b \in Plans
      BY <2>3 DEF Setup!Reserved
    <3>3. CASE a # p /\ b # p
      BY <1>2, <2>2, <2>3, <3>1, <3>2, <3>3 DEF Setup!Overlaps
    <3>4. CASE a = p
      <4>1. /\ b \in Setup!Reserved /\ prep'[b] = prep[b]
            /\ r.stage \in {"revalidate", "tables", "install"}
        BY <1>2, <2>3, <3>1, <3>2, <3>4 DEF Setup!Reserved
      <4>2. /\ r.pair # prep[b].pair /\ r.slot # prep[b].slot
            /\ r.table # Setup!NoTable => r.table # prep[b].table
        BY <2>2, <2>3, <3>4, <4>1 DEF Setup!Overlaps
      <4>3. QED
        BY <1>2, <3>4, <4>1, <4>2 DEF Setup!Overlaps
    <3>5. CASE b = p
      <4>1. /\ a \in Setup!Reserved /\ prep'[a] = prep[a]
            /\ r.stage \in {"revalidate", "tables", "install"}
        BY <1>2, <2>3, <3>1, <3>2, <3>5 DEF Setup!Reserved
      <4>2. /\ r.pair # prep[a].pair /\ r.slot # prep[a].slot
            /\ r.table # Setup!NoTable => r.table # prep[a].table
        BY <2>2, <2>3, <3>5, <4>1 DEF Setup!Overlaps
      <4>3. QED
        BY <1>2, <3>5, <4>1, <4>2 DEF Setup!Overlaps
    <3>6. QED
      BY <3>3, <3>4, <3>5
  <2>4. QED
    BY <2>1, <2>3 DEF Setup!SlotsAreExclusive, Setup!Saved
<1>6. Setup!TablesAreUnique'
  BY DEF SetupInv, Setup!TablesAreUnique
<1>7. OpFits'
  <2>1. OpFits
    BY DEF SetupInv
  <2>2. op.kind = "install" => Own' = Own
    BY <1>3 DEF Own, Setup!Rule
  <2>3. QED
    BY <1>3, <2>1, <2>2 DEF OpFits, Setup!Saved, Setup!Rule, EndsWith, LineFits
<1>8. PrepFits'
  <2>1. PrepFits
    BY DEF SetupInv
  <2>2. \A q \in Setup!Saved(data) :
          prep'[q] = Setup!NoPrep \/ (op.kind = "install" /\ op.plan = q)
    BY <1>2, <2>1 DEF PrepFits, Setup!Saved
  <2>3. \A q \in Plans : prep'[q].stage = "tables" =>
          /\ prep'[q].table # Setup!NoTable
          /\ \A c \in Pairs : c # prep'[q].pair => router.table[c] # prep'[q].table
    BY <1>2, <2>1 DEF PrepFits
  <2>4. QED
    BY <1>3, <2>1, <2>2, <2>3 DEF PrepFits, Setup!Saved, Setup!NoPrep, Setup!NoTable
<1>9. ModelFits'
  BY <1>2 DEF SetupInv, ModelFits
<1>10. StoreFits'
  BY DEF SetupInv, StoreFits
<1>11. ~broken => ScriptFits' /\ RouterFits'
  BY <1>3, ScriptStands DEF SetupInv
<1>12. QED
  BY <1>4, <1>5, <1>6, <1>7, <1>8, <1>9, <1>10, <1>11 DEF SetupInv

\* check(): the plan gets a slot and a table that are there.
LEMMA CheckStep ==
  ASSUME SetupInv, NEW p \in Plans, NEW c \in Pairs, Setup!Check(p, c)
  PROVE  SetupInv'
<1>1. /\ model # <<>> /\ prep[p] = Setup!NoPrep /\ p \notin Setup!Saved(data)
      /\ Setup!FreeSlots # {}
      /\ UNCHANGED <<router, sample, model, data, disk, dirty, op, broken>>
  BY DEF Setup!Check
<1>2. PICK table \in Tables \cup {Setup!NoTable} :
        prep' = [prep EXCEPT ![p] = [stage |-> "checked", pair |-> c,
                                     slot |-> Setup!Min(Setup!FreeSlots), table |-> table]]
  BY DEF Setup!Check
<1> DEFINE r == [stage |-> "checked", pair |-> c,
                 slot |-> Setup!Min(Setup!FreeSlots), table |-> table]
<1>3. Setup!FreeSlots \subseteq Slots /\ Setup!FreeSlots \subseteq Nat
  BY SetupAssumption DEF Setup!FreeSlots
<1>4. Setup!Min(Setup!FreeSlots) \in Slots
  BY <1>1, <1>3, LeastNumber
<1>5. r \in Setup!Preps /\ r.stage = "checked"
  BY <1>4 DEF Setup!Preps
<1>6. op.kind \in {"tables", "install"} => op.plan # p
  BY <1>1, ThereOrNot DEF SetupInv, PrepFits
<1>7. prep' = [prep EXCEPT ![p] = r]
  BY <1>2
<1> HIDE DEF r
<1>8. QED
  BY <1>1, <1>5, <1>6, <1>7, PlanChanges

\* A plan is dropped, by the engine or its job.
LEMMA PlanIsDropped ==
  ASSUME SetupInv, UNCHANGED <<router, sample, model, data, disk, dirty, op, broken>>,
         NEW p \in Plans, prep' = [prep EXCEPT ![p] = Setup!NoPrep],
         op.kind \in {"tables", "install"} => op.plan # p
  PROVE  SetupInv'
<1>1. Setup!NoPrep.stage = "none" /\ Setup!NoPrep \in Setup!Preps \cup {Setup!NoPrep}
  BY ThereOrNot
<1>2. QED
  BY <1>1, PlanChanges

\* apply()
LEMMA ApplyStep ==
  ASSUME SetupInv, NEW p \in Plans, Setup!Apply(p)
  PROVE  SetupInv'
<1>1. /\ prep[p].stage = "checked"
      /\ UNCHANGED <<router, sample, model, data, disk, dirty, op, broken>>
      /\ prep' = [prep EXCEPT ![p] = IF \E q \in Setup!Reserved : Setup!Overlaps(p, q)
                                     THEN Setup!NoPrep ELSE [@ EXCEPT !.stage = "revalidate"]]
  BY DEF Setup!Apply, Setup!counts
<1>2. op.kind \in {"tables", "install"} => op.plan # p
  BY <1>1 DEF SetupInv, PrepFits
<1>3. CASE \E q \in Setup!Reserved : Setup!Overlaps(p, q)
  BY <1>1, <1>2, <1>3, PlanIsDropped
<1>4. CASE ~\E q \in Setup!Reserved : Setup!Overlaps(p, q)
  <2> DEFINE r == [prep[p] EXCEPT !.stage = "revalidate"]
  <2>1. prep[p] \in Setup!Preps /\ prep[p] # Setup!NoPrep
    BY <1>1, PrepsAre DEF SetupInv
  <2>2. /\ r \in Setup!Preps /\ r.stage = "revalidate"
        /\ r.pair = prep[p].pair /\ r.slot = prep[p].slot /\ r.table = prep[p].table
    BY <2>1 DEF Setup!Preps
  <2>3. prep' = [prep EXCEPT ![p] = r]
    BY <1>1, <1>4
  <2> HIDE DEF r
  <2>4. \A q \in Setup!Reserved :
          /\ r.pair # prep[q].pair /\ r.slot # prep[q].slot
          /\ r.table # Setup!NoTable => r.table # prep[q].table
    BY <1>4, <2>2 DEF Setup!Overlaps
  <2>5. p \notin Setup!Saved(data)
    BY <1>1, <1>2, <2>1 DEF SetupInv, PrepFits
  <2>6. QED
    BY <1>1, <1>2, <2>2, <2>3, <2>4, <2>5, PlanChanges
<1>5. QED
  BY <1>3, <1>4

\* The token expires, or the job is cancelled.
LEMMA DropStep ==
  ASSUME SetupInv, NEW p \in Plans, Setup!Drop(p)
  PROVE  SetupInv'
BY PlanIsDropped DEF Setup!Drop, Setup!counts

\* revalidatePreparation(): a table is nobody else's from here to the end of its item.
LEMMA RevalidateStep ==
  ASSUME SetupInv, NEW p \in Plans, Setup!Revalidate(p)
  PROVE  SetupInv'
<1>1. /\ op.kind = "idle" /\ prep[p].stage = "revalidate"
      /\ UNCHANGED <<router, sample, model, data, disk, dirty, op, broken>>
  BY DEF Setup!Revalidate, Setup!counts, Setup!Abort
<1> DEFINE Holds == /\ model # <<>> /\ ~Setup!Taken(p)
                    /\ Setup!PairsAt(model[1], prep[p].slot) = {}
                    /\ prep[p].table # Setup!NoTable => Setup!TableIsFree(p)
           stage == IF prep[p].table = Setup!NoTable THEN "install" ELSE "tables"
           r == [prep[p] EXCEPT !.stage = stage]
<1>2. CASE Holds
  <2>1. prep' = [prep EXCEPT ![p].stage = stage]
    BY <1>2 DEF Setup!Revalidate
  <2>2. prep[p] \in Setup!Preps /\ prep[p] # Setup!NoPrep /\ p \in Setup!Reserved
    BY <1>1, PrepsAre DEF SetupInv, Setup!Reserved
  <2>3. /\ r \in Setup!Preps /\ r.stage = stage
        /\ r.pair = prep[p].pair /\ r.slot = prep[p].slot /\ r.table = prep[p].table
    BY <2>2 DEF Setup!Preps
  <2>4. prep' = [prep EXCEPT ![p] = r]
    BY <2>1
  <2> HIDE DEF r
  <2>5. r.stage = "tables" => /\ r.table # Setup!NoTable
                              /\ \A c \in Pairs : c # r.pair => router.table[c] # r.table
    BY <1>2, <2>3 DEF Setup!TableIsFree
  <2>6. p \notin Setup!Saved(data)
    BY <1>1, <2>2 DEF SetupInv, PrepFits
  <2>7. QED
    BY <1>1, <1>2, <2>2, <2>3, <2>4, <2>5, <2>6, PlanChanges
<1>3. CASE ~Holds
  <2>1. prep' = [prep EXCEPT ![p] = Setup!NoPrep]
    BY <1>3 DEF Setup!Revalidate, Setup!Abort
  <2>2. QED
    BY <1>1, <2>1, PlanIsDropped
<1>4. QED
  BY <1>2, <1>3

-----------------------------------------------------------------------------
(***************************************************************************)
(* The beginnings of operations.                                           *)
(***************************************************************************)

\* Two stores with the same instances, that may run or not.
SameRules(a, b) ==
  /\ Setup!Saved(a) = Setup!Saved(b)
  /\ \A q \in Setup!Saved(a) : /\ a.inst[q].slot = b.inst[q].slot
                               /\ a.inst[q].pair = b.inst[q].pair

\* An instance is started or stopped.
LEMMA RunningIs ==
  ASSUME NEW store \in Setup!Stores, NEW p \in Setup!Saved(store), NEW b \in BOOLEAN,
         NEW new, new = [store EXCEPT !.inst[p].running = b]
  PROVE  /\ new \in Setup!Stores /\ SameRules(new, store) /\ RulesOf(new) = RulesOf(store)
         /\ Setup!Rule(new.inst[p]) = Setup!Rule(store.inst[p])
<1> DEFINE i == [store.inst[p] EXCEPT !.running = b]
<1>1. p \in Plans /\ store.inst[p] \in Setup!Instances
  BY SavedAre
<1>2. /\ i \in Setup!Instances /\ i.slot = store.inst[p].slot /\ i.pair = store.inst[p].pair
  BY <1>1 DEF Setup!Instances
<1>3. /\ store.inst \in [Plans -> Setup!Instances \cup {Setup!Absent}]
      /\ new.inst = [store.inst EXCEPT ![p] = i] /\ new.extra = store.extra
      /\ new = [store EXCEPT !.inst = [store.inst EXCEPT ![p] = i]]
  BY DEF Setup!Stores
<1> HIDE DEF i
<1>4. /\ new.inst \in [Plans -> Setup!Instances \cup {Setup!Absent}]
      /\ new.inst[p] = i /\ \A q \in Plans : q # p => new.inst[q] = store.inst[q]
  BY <1>1, <1>2, <1>3
<1>5. new \in Setup!Stores
  BY <1>3, <1>4 DEF Setup!Stores
<1>6. i # Setup!Absent /\ store.inst[p] # Setup!Absent
  BY <1>1, <1>2, ThereOrNot
<1>7. Setup!Saved(new) = Setup!Saved(store)
  BY <1>4, <1>6 DEF Setup!Saved
<1>8. \A q \in Plans : /\ new.inst[q].slot = store.inst[q].slot
                       /\ new.inst[q].pair = store.inst[q].pair
  BY <1>2, <1>4
<1>9. \A q \in Plans : Setup!Rule(new.inst[q]) = Setup!Rule(store.inst[q])
  BY <1>8 DEF Setup!Rule
<1>10. RulesOf(new) = RulesOf(store)
  BY <1>7, <1>9 DEF RulesOf, Setup!Saved
<1>11. SameRules(new, store)
  BY <1>7, <1>8 DEF SameRules, Setup!Saved
<1>12. QED
  BY <1>1, <1>5, <1>9, <1>10, <1>11

\* The rules of two such stores.
LEMMA SameRulesAre ==
  ASSUME NEW a, NEW b, SameRules(a, b)
  PROVE  RulesOf(a) = RulesOf(b)
BY DEF SameRules, RulesOf, Setup!Rule

\* What the script of an operation has to be when it begins.
Begun(kind, p, lines) ==
  /\ lines \in Seq(Setup!Lines) /\ \A i \in DOMAIN lines : LineFits(kind, lines[i].do)
  /\ kind \in {"sample", "tables", "install", "run", "delete"}
  /\ kind = "tables" => lines = <<[do |-> "table"], [do |-> "extra"]>>
  /\ kind \in {"tables", "install"} => p \in Plans /\ prep[p].stage = kind
  /\ kind \in {"run", "delete"} => p \in Setup!Saved(data) /\ model # <<>>
  /\ kind = "install" =>
       /\ \A q \in Setup!Saved(data) : /\ data.inst[q].slot # prep[p].slot
                                       /\ data.inst[q].pair # prep[p].pair
       /\ EndsWith(lines, "save") /\ LaysRoute(lines)
       /\ ClearIsMended(lines, Setup!Rule(prep[p])) /\ Adds(lines, Setup!Rule(prep[p]))
       /\ GuardsAre(lines, {Setup!Rule(prep[p])})
  /\ kind # "install" => GuardsAre(lines, RulesOf(data))
  /\ FlushIsMended(lines) /\ DelIsMended(lines)
  /\ kind = "delete" => EndsWith(lines, "clear") /\ ClearIsLast(lines, data.inst[p].slot)

\* An operation begins: with an idle engine, the router has the rules of what is stored.
LEMMA Begins ==
  ASSUME SetupInv, op.kind = "idle", UNCHANGED <<router, disk, dirty, broken, prep>>,
         sample' \in Setup!Models, model' \in Setup!Models, model # <<>> => model' # <<>>,
         NEW kind, NEW p \in Plans \cup {Setup!Nobody}, NEW lines, NEW was \in BOOLEAN,
         Setup!Begin(kind, p, lines, was), Begun(kind, p, lines),
         data' \in Setup!Stores, SameRules(data', data),
         kind \notin {"run", "delete"} => data' = data
  PROVE  SetupInv'
<1>1. /\ op' = [kind |-> kind, plan |-> p, lines |-> lines, was |-> was]
      /\ op'.kind = kind /\ op'.plan = p /\ op'.lines = lines
      /\ kind \in {"sample", "tables", "install", "run", "delete"}
  BY DEF Setup!Begin, Begun
<1>2. /\ Setup!Saved(data)' = Setup!Saved(data)
      /\ \A q \in Setup!Saved(data) : /\ data'.inst[q].slot = data.inst[q].slot
                                      /\ data'.inst[q].pair = data.inst[q].pair
  BY DEF SameRules, Setup!Saved
<1>3. RulesOf(data') = RulesOf(data) /\ RulesOf(data)' = RulesOf(data')
  BY SameRulesAre DEF RulesOf, Setup!Saved, Setup!Rule
<1>4. Setup!TypeOK'
  <2>1. lines \in Seq(Setup!Lines)
    BY DEF Begun
  <2>2. op' \in [kind : {"idle", "sample", "tables", "install", "run", "delete", "restore"},
                 plan : Plans \cup {Setup!Nobody}, lines : Seq(Setup!Lines), was : BOOLEAN]
    BY <1>1, <2>1
  <2>3. QED
    BY <2>2 DEF SetupInv, Setup!TypeOK
<1>5. Setup!SlotsAreExclusive'
  <2>1. Setup!SlotsAreExclusive
    BY DEF SetupInv
  <2>2. \A a, b \in Setup!Saved(data)' :
          a # b => /\ data'.inst[a].slot # data'.inst[b].slot
                   /\ data'.inst[a].pair # data'.inst[b].pair
    BY <1>2, <2>1 DEF Setup!SlotsAreExclusive
  <2>3. \A a, b \in Setup!Saved(disk)' :
          a # b => /\ disk'.inst[a].slot # disk'.inst[b].slot
                   /\ disk'.inst[a].pair # disk'.inst[b].pair
    BY <2>1 DEF Setup!SlotsAreExclusive, Setup!Saved
  <2>4. \A a, b \in Setup!Reserved' : a # b => ~Setup!Overlaps(a, b)'
    BY <2>1 DEF Setup!SlotsAreExclusive, Setup!Overlaps, Setup!Reserved
  <2>5. QED
    BY <2>2, <2>3, <2>4 DEF Setup!SlotsAreExclusive, Setup!Saved
<1>6. Setup!TablesAreUnique'
  BY DEF SetupInv, Setup!TablesAreUnique
<1>7. PrepFits
  BY DEF SetupInv
<1>8. kind = "install" => p \notin Setup!Saved(data)
  BY <1>7, ThereOrNot DEF Begun, PrepFits
<1>9. OpFits'
  <2>1. /\ kind = "install" =>
             /\ \A q \in Setup!Saved(data)' : /\ data'.inst[q].slot # prep'[p].slot
                                              /\ data'.inst[q].pair # prep'[p].pair
             /\ p \notin Setup!Saved(data)'
             /\ EndsWith(lines, "save")
    BY <1>2, <1>8 DEF Begun
  <2>2. kind \in {"run", "delete"} => p \in Setup!Saved(data)'
    BY <1>2 DEF Begun
  <2>3. /\ kind = "tables" => lines = <<[do |-> "table"], [do |-> "extra"]>>
        /\ \A i \in DOMAIN lines : LineFits(kind, lines[i].do)
    BY DEF Begun
  <2>4. QED
    BY <1>1, <2>1, <2>2, <2>3 DEF OpFits, EndsWith, LineFits
<1>10. PrepFits'
  <2>1. kind \in {"tables", "install"} => p \in Plans /\ prep'[p].stage = kind
    BY DEF Begun
  <2>2. \A q \in Setup!Saved(data)' : prep'[q] = Setup!NoPrep
    BY <1>2, <1>7 DEF PrepFits
  <2>3. QED
    BY <1>1, <1>7, <2>1, <2>2 DEF PrepFits, Setup!NoPrep, Setup!NoTable
<1>11. ModelFits'
  <2>1. kind \in {"run", "delete"} => model' # <<>>
    BY DEF Begun
  <2>2. QED
    BY <1>1, <2>1 DEF SetupInv, ModelFits
<1>12. StoreFits'
  BY <1>1 DEF SetupInv, StoreFits
<1>13. ASSUME ~broken PROVE ScriptFits' /\ RouterFits'
  <2>1. op.lines = <<>> /\ ScriptFits /\ RouterFits
    BY <1>13 DEF SetupInv, OpFits
  <2>2. Due = RulesOf(data)
    BY DEF Due, Installing, RulesOf
  <2>3. /\ kind = "install" => Due' = Due \cup {Setup!Rule(prep[p])}
        /\ kind # "install" => Due' = Due
    <3>1. Due' = RulesOf(data)' \cup {Setup!Rule(prep[q]) : q \in Installing'}
      BY DEF Due, RulesOf, Setup!Rule
    <3>2. CASE kind = "install"
      <4>1. p \in Plans
        BY <3>2 DEF Begun
      <4>2. Installing' = {p}
        BY <1>1, <3>2, <4>1 DEF Installing
      <4>3. QED
        BY <1>3, <2>2, <3>1, <3>2, <4>2
    <3>3. CASE kind # "install"
      <4>1. Installing' = {}
        BY <1>1, <3>3 DEF Installing
      <4>2. QED
        BY <1>3, <2>2, <3>1, <3>3, <4>1
    <3>4. QED
      BY <3>2, <3>3
  <2>4. ScriptFits'
    <3>1. GuardsAre(lines, Due')
      BY <1>3, <2>2, <2>3 DEF Begun, GuardsAre
    <3>2. kind = "install" => ClearIsMended(lines, Own')
      BY <1>1 DEF Begun, Own, Setup!Rule
    <3>3. kind = "delete" => ClearIsLast(lines, data'.inst[p].slot)
      BY <1>2 DEF Begun
    <3>4. FlushIsMended(lines) /\ DelIsMended(lines)
      BY DEF Begun
    <3>5. QED
      BY <1>1, <3>1, <3>2, <3>3, <3>4
      DEF ScriptFits, FlushIsMended, DelIsMended, GuardsAre, ClearIsMended, ClearIsLast
  <2>5. RouterFits'
    <3>1. router.rules = Due /\ (Due # {} => router.route)
      <4>1. \A r : ~Adds(op.lines, r)
        BY <2>1 DEF Adds
      <4>2. ~LaysRoute(op.lines)
        BY <2>1 DEF LaysRoute
      <4>3. QED
        BY <2>1, <4>1, <4>2 DEF RouterFits
    <3>2. \A r \in Due' : r \in router'.rules \/ Adds(lines, r)
      BY <2>3, <3>1 DEF Begun
    <3>3. Due' # {} => router'.route \/ LaysRoute(lines)
      BY <2>3, <3>1 DEF Begun
    <3>4. kind = "delete" => EndsWith(lines, "clear")
      BY DEF Begun
    <3>5. router'.rules \subseteq Due'
      BY <2>3, <3>1
    <3>6. QED
      BY <1>1, <3>2, <3>3, <3>4, <3>5 DEF RouterFits, Adds, LaysRoute, EndsWith
  <2>6. QED
    BY <2>4, <2>5
<1>14. QED
  BY <1>4, <1>5, <1>6, <1>9, <1>10, <1>11, <1>12, <1>13 DEF SetupInv

\* A model that is known has rules.
LEMMA ModelIs ==
  ASSUME NEW m \in Setup!Models, m # <<>>
  PROVE  m[1] \in SUBSET Setup!At
BY DEF Setup!Models

\* A model of a set of rules.
LEMMA ModelOf ==
  ASSUME NEW rules \in SUBSET Setup!At
  PROVE  <<rules>> \in Setup!Models /\ <<rules>> # <<>> /\ <<rules>>[1] = rules
BY DEF Setup!Models

\* applyTableChunk()
LEMMA PrepareTableStep ==
  ASSUME SetupInv, NEW p \in Plans, Setup!PrepareTable(p)
  PROVE  SetupInv'
<1> DEFINE lines == <<[do |-> "table"], [do |-> "extra"]>>
<1>1. /\ op.kind = "idle" /\ prep[p].stage = "tables"
      /\ UNCHANGED <<router, sample, model, data, disk, dirty, broken>>
      /\ \/ Setup!Abort(p)
         \/ Setup!Begin("tables", p, lines, FALSE) /\ UNCHANGED prep
  BY DEF Setup!PrepareTable, Setup!counts
<1>2. CASE Setup!Abort(p)
  BY <1>1, <1>2, PlanIsDropped DEF Setup!Abort
<1>3. CASE Setup!Begin("tables", p, lines, FALSE) /\ UNCHANGED prep
  <2>1. [do |-> "table"] \in Setup!Lines /\ [do |-> "extra"] \in Setup!Lines
    BY DEF Setup!Lines
  <2>2. /\ lines \in Seq(Setup!Lines) /\ DOMAIN lines = 1..2
        /\ lines[1].do = "table" /\ lines[2].do = "extra"
    BY <2>1
  <2>3. lines = <<[do |-> "table"], [do |-> "extra"]>>
    OBVIOUS
  <2> HIDE DEF lines
  <2>4. \A i \in DOMAIN lines : i = 1 \/ i = 2
    BY <2>2
  <2>5. /\ \A i \in DOMAIN lines : LineFits("tables", lines[i].do)
        /\ GuardsAre(lines, RulesOf(data)) /\ FlushIsMended(lines) /\ DelIsMended(lines)
    BY <2>2, <2>4 DEF LineFits, GuardsAre, FlushIsMended, DelIsMended
  <2>6. Begun("tables", p, lines)
    BY <1>1, <2>2, <2>3, <2>5 DEF Begun
  <2>7. sample' \in Setup!Models /\ model' \in Setup!Models /\ data' \in Setup!Stores
    BY <1>1 DEF SetupInv, Setup!TypeOK
  <2>8. SameRules(data', data)
    BY <1>1 DEF SameRules
  <2>9. QED
    BY <1>1, <1>3, <2>6, <2>7, <2>8, Begins
<1>4. QED
  BY <1>1, <1>2, <1>3

\* The last item of a preparation.
LEMMA InstallStep ==
  ASSUME SetupInv, NEW p \in Plans, Setup!Install(p)
  PROVE  SetupInv'
<1> DEFINE lines == <<[do |-> "forward"]>> \o Setup!Catch(prep[p]) \o <<[do |-> "save"]>>
<1>1. /\ op.kind = "idle" /\ prep[p].stage = "install"
      /\ UNCHANGED <<router, sample, model, data, disk, dirty, broken>>
      /\ \/ Setup!Abort(p)
         \/ ~Setup!Claimed(p) /\ Setup!Begin("install", p, lines, FALSE) /\ UNCHANGED prep
  BY DEF Setup!Install, Setup!counts
<1>2. CASE Setup!Abort(p)
  BY <1>1, <1>2, PlanIsDropped DEF Setup!Abort
<1>3. CASE ~Setup!Claimed(p) /\ Setup!Begin("install", p, lines, FALSE) /\ UNCHANGED prep
  <2>1. prep[p].slot \in Slots /\ Setup!Rule(prep[p]) \in Setup!At
        /\ Setup!Rule(prep[p]).at = prep[p].slot
    BY <1>1, PrepsAre DEF SetupInv
  <2>2. \A q \in Setup!Saved(data) : /\ data.inst[q].slot # prep[p].slot
                                     /\ data.inst[q].pair # prep[p].pair
    BY <1>3 DEF Setup!Claimed, Setup!Taken
  <2>3. /\ lines \in Seq(Setup!Lines)
        /\ FlushIsMended(lines) /\ DelIsMended(lines) /\ GuardsAre(lines, {Setup!Rule(prep[p])})
        /\ ClearIsMended(lines, Setup!Rule(prep[p])) /\ Adds(lines, Setup!Rule(prep[p]))
        /\ LaysRoute(lines) /\ EndsWith(lines, "save")
        /\ \A k \in DOMAIN lines : LineFits("install", lines[k].do)
    BY <2>1, InstallIs
  <2> HIDE DEF lines
  <2>4. Begun("install", p, lines)
    BY <1>1, <2>2, <2>3 DEF Begun
  <2>5. sample' \in Setup!Models /\ model' \in Setup!Models /\ data' \in Setup!Stores
    BY <1>1 DEF SetupInv, Setup!TypeOK
  <2>6. SameRules(data', data)
    BY <1>1 DEF SameRules
  <2>7. QED
    BY <1>1, <1>3, <2>4, <2>5, <2>6, Begins
<1>4. QED
  BY <1>1, <1>2, <1>3

\* setRunning()
LEMMA SetRunningStep ==
  ASSUME SetupInv, NEW p \in Plans, NEW run \in BOOLEAN, Setup!SetRunning(p, run)
  PROVE  SetupInv'
<1>1. /\ op.kind = "idle" /\ model # <<>> /\ p \in Setup!Saved(data)
      /\ data' = [data EXCEPT !.inst[p].running = run]
      /\ UNCHANGED <<router, sample, model, disk, dirty, prep, broken>>
  BY DEF Setup!SetRunning
<1>2. PICK lines \in Setup!Reconcile(model[1], data', TRUE) :
        Setup!Begin("run", p, lines, data.inst[p].running)
  BY DEF Setup!SetRunning
<1>3. data \in Setup!Stores /\ model \in Setup!Models /\ sample \in Setup!Models
  BY DEF SetupInv, Setup!TypeOK
<1>4. /\ data' \in Setup!Stores /\ SameRules(data', data) /\ RulesOf(data') = RulesOf(data)
      /\ data.inst[p].running \in BOOLEAN
  BY <1>1, <1>3, RunningIs, SavedAre
<1>5. model[1] \in SUBSET Setup!At
  BY <1>1, <1>3, ModelIs
<1>6. /\ lines \in Seq(Setup!Lines)
      /\ FlushIsMended(lines) /\ DelIsMended(lines) /\ GuardsAre(lines, RulesOf(data))
      /\ \A i \in DOMAIN lines : LineFits("run", lines[i].do)
  BY <1>4, <1>5, ReconcileIs DEF LineFits, Reconciles
<1>7. Begun("run", p, lines)
  BY <1>1, <1>6 DEF Begun
<1>8. QED
  BY <1>1, <1>2, <1>3, <1>4, <1>7, Begins

\* deleteNow()
LEMMA DeleteStep ==
  ASSUME SetupInv, NEW p \in Plans, Setup!Delete(p)
  PROVE  SetupInv'
<1>1. /\ op.kind = "idle" /\ model # <<>> /\ p \in Setup!Saved(data)
      /\ data' = [data EXCEPT !.inst[p].running = FALSE]
      /\ UNCHANGED <<router, sample, model, disk, dirty, prep, broken>>
  BY DEF Setup!Delete
<1>2. PICK lines \in Setup!Deletion(data.inst[p], data') :
        Setup!Begin("delete", p, lines, data.inst[p].running)
  BY DEF Setup!Delete
<1>3. data \in Setup!Stores /\ model \in Setup!Models /\ sample \in Setup!Models
  BY DEF SetupInv, Setup!TypeOK
<1>4. /\ data' \in Setup!Stores /\ SameRules(data', data) /\ RulesOf(data') = RulesOf(data)
      /\ data.inst[p].running \in BOOLEAN /\ data.inst[p].slot \in Slots
  BY <1>1, <1>3, RunningIs, SavedAre
<1>5. model[1] \in SUBSET Setup!At
  BY <1>1, <1>3, ModelIs
<1>6. /\ lines \in Seq(Setup!Lines)
      /\ FlushIsMended(lines) /\ DelIsMended(lines) /\ GuardsAre(lines, RulesOf(data))
      /\ ClearIsLast(lines, data.inst[p].slot) /\ EndsWith(lines, "clear")
      /\ \A i \in DOMAIN lines : LineFits("delete", lines[i].do)
  BY <1>4, <1>5, DeletionIs
<1>7. Begun("delete", p, lines)
  BY <1>1, <1>6 DEF Begun
<1>8. QED
  BY <1>1, <1>2, <1>3, <1>4, <1>7, Begins

\* onSample()
LEMMA TakeSampleStep ==
  ASSUME SetupInv, Setup!TakeSample
  PROVE  SetupInv'
<1>1. /\ op.kind = "idle" /\ sample # <<>> /\ model' = sample /\ sample' = <<>>
      /\ UNCHANGED <<router, data, disk, dirty, prep, broken>>
  BY DEF Setup!TakeSample, Setup!counts
<1>2. PICK lines \in Setup!Reconcile(sample[1], data, FALSE) :
        Setup!Begin("sample", Setup!Nobody, lines, FALSE)
  BY DEF Setup!TakeSample
<1>3. data \in Setup!Stores /\ model \in Setup!Models /\ sample \in Setup!Models
      /\ sample' \in Setup!Models
  BY <1>1 DEF SetupInv, Setup!TypeOK, Setup!Models
<1>4. sample[1] \in SUBSET Setup!At
  BY <1>1, <1>3, ModelIs
<1>5. /\ lines \in Seq(Setup!Lines)
      /\ FlushIsMended(lines) /\ DelIsMended(lines) /\ GuardsAre(lines, RulesOf(data))
      /\ \A i \in DOMAIN lines : LineFits("sample", lines[i].do)
  BY <1>3, <1>4, ReconcileIs DEF LineFits, Reconciles
<1>6. Begun("sample", Setup!Nobody, lines)
  BY <1>5 DEF Begun
<1>7. SameRules(data', data)
  BY <1>1 DEF SameRules
<1>8. QED
  BY <1>1, <1>2, <1>3, <1>6, <1>7, Begins

-----------------------------------------------------------------------------
(***************************************************************************)
(* Operations that are cut off: from then on only what is always true is   *)
(* asked of the router.                                                    *)
(***************************************************************************)

\* The states of the router.
Routers == [rules : SUBSET Setup!At, route : BOOLEAN, forwards : SUBSET Setup!At,
            table : [Pairs -> Tables \cup {Setup!NoTable}]]

\* Plans are released and the engine is idle, or puts a catch-all back.
LEMMA CutOff ==
  ASSUME SetupInv, broken' = TRUE, UNCHANGED <<sample, model, disk, dirty>>,
         router' \in Routers, router'.table = router.table,
         data' \in Setup!Stores, SameRules(data', data),
         prep' \in [Plans -> Setup!Preps \cup {Setup!NoPrep}],
         \A p \in Plans : prep'[p] = prep[p] \/ prep'[p] = Setup!NoPrep,
         \A p \in Setup!Saved(data) : prep'[p] = Setup!NoPrep,
         op'.was \in BOOLEAN, op'.lines \in Seq(Setup!Lines),
         \/ op' = Setup!Idle
         \/ /\ op' = [kind |-> "restore", plan |-> op'.plan,
                       lines |-> op'.lines, was |-> op'.was]
            /\ op'.plan \in Setup!Saved(data) /\ model # <<>>
            /\ \A i \in DOMAIN op'.lines : LineFits("restore", op'.lines[i].do)
  PROVE  SetupInv'
<1>1. op'.kind \in {"idle", "restore"}
  BY DEF Setup!Idle
<1>2. /\ Setup!Saved(data)' = Setup!Saved(data)
      /\ \A q \in Setup!Saved(data) : /\ data'.inst[q].slot = data.inst[q].slot
                                      /\ data'.inst[q].pair = data.inst[q].pair
  BY DEF SameRules, Setup!Saved
<1>3. Setup!TypeOK'
  <2>1. op' \in [kind : {"idle", "sample", "tables", "install", "run", "delete", "restore"},
                 plan : Plans \cup {Setup!Nobody}, lines : Seq(Setup!Lines), was : BOOLEAN]
    <3>1. CASE op' = Setup!Idle
      BY <3>1, EmptySeq DEF Setup!Idle
    <3>2. CASE op' # Setup!Idle
      BY <3>2 DEF Setup!Saved
    <3>3. QED
      BY <3>1, <3>2
  <2>2. router' \in [rules : SUBSET Setup!At, route : BOOLEAN, forwards : SUBSET Setup!At,
                     table : [Pairs -> Tables \cup {Setup!NoTable}]]
    BY DEF Routers
  <2>3. sample' \in Setup!Models /\ model' \in Setup!Models /\ disk' \in Setup!Stores
        /\ dirty' \in BOOLEAN /\ broken' \in BOOLEAN
    BY DEF SetupInv, Setup!TypeOK
  <2>4. QED
    BY <2>1, <2>2, <2>3 DEF Setup!TypeOK
<1>4. Setup!SlotsAreExclusive'
  <2>1. Setup!SlotsAreExclusive
    BY DEF SetupInv
  <2>2. \A a, b \in Setup!Saved(data)' :
          a # b => /\ data'.inst[a].slot # data'.inst[b].slot
                   /\ data'.inst[a].pair # data'.inst[b].pair
    BY <1>2, <2>1 DEF Setup!SlotsAreExclusive
  <2>3. \A a, b \in Setup!Saved(disk)' :
          a # b => /\ disk'.inst[a].slot # disk'.inst[b].slot
                   /\ disk'.inst[a].pair # disk'.inst[b].pair
    BY <2>1 DEF Setup!SlotsAreExclusive, Setup!Saved
  <2>4. \A a \in Setup!Reserved' : a \in Setup!Reserved /\ prep'[a] = prep[a]
    BY ThereOrNot DEF Setup!Reserved
  <2>5. \A a, b \in Setup!Reserved' : a # b => ~Setup!Overlaps(a, b)'
    BY <2>1, <2>4 DEF Setup!SlotsAreExclusive, Setup!Overlaps
  <2>6. QED
    BY <2>2, <2>3, <2>5 DEF Setup!SlotsAreExclusive, Setup!Saved
<1>5. Setup!TablesAreUnique'
  BY DEF SetupInv, Setup!TablesAreUnique, Setup!NoTable
<1>6. OpFits'
  <2>1. CASE op' = Setup!Idle
    <3>1. op'.kind = "idle" /\ op'.lines = <<>>
      BY <2>1 DEF Setup!Idle
    <3>2. QED
      BY <3>1 DEF OpFits
  <2>2. CASE op' # Setup!Idle
    <3>1. /\ op'.kind = "restore" /\ op'.plan \in Setup!Saved(data)'
          /\ \A i \in DOMAIN op'.lines : LineFits("restore", op'.lines[i].do)
      BY <1>2, <2>2
    <3>2. QED
      BY <3>1 DEF OpFits, LineFits
  <2>3. QED
    BY <2>1, <2>2
<1>7. PrepFits'
  <2>1. \A p \in Plans : prep'[p].stage = "tables" =>
          /\ prep'[p].table # Setup!NoTable
          /\ \A c \in Pairs : c # prep'[p].pair => router'.table[c] # prep'[p].table
    BY ThereOrNot DEF SetupInv, PrepFits
  <2>2. \A p \in Setup!Saved(data)' : prep'[p] = Setup!NoPrep
    BY <1>2
  <2>3. QED
    BY <1>1, <2>1, <2>2 DEF PrepFits, Setup!NoPrep, Setup!NoTable
<1>8. ModelFits'
  <2>1. \A p \in Plans : prep'[p].stage \in {"tables", "install"} => model # <<>>
    BY ThereOrNot DEF SetupInv, ModelFits
  <2>2. op'.kind = "restore" => model # <<>>
    BY DEF Setup!Idle
  <2>3. QED
    BY <1>1, <2>1, <2>2 DEF ModelFits
<1>9. StoreFits'
  BY DEF StoreFits
<1>10. QED
  BY <1>3, <1>4, <1>5, <1>6, <1>7, <1>8, <1>9 DEF SetupInv

\* The operation throws.
LEMMA GivesUp ==
  ASSUME SetupInv, Setup!AtRouter, Setup!GiveUp, UNCHANGED <<sample, model, disk, dirty>>,
         router' \in Routers, router'.table = router.table
  PROVE  SetupInv'
<1>1. /\ op \in [kind : {"idle", "sample", "tables", "install", "run", "delete", "restore"},
                 plan : Plans \cup {Setup!Nobody}, lines : Seq(Setup!Lines), was : BOOLEAN]
      /\ data \in Setup!Stores /\ model \in Setup!Models
      /\ prep \in [Plans -> Setup!Preps \cup {Setup!NoPrep}]
  BY DEF SetupInv, Setup!TypeOK
<1>2. op.kind # "idle" /\ broken' = TRUE
  BY DEF SetupInv, OpFits, Setup!AtRouter, Setup!GiveUp
<1>3. SameRules(data, data)
  BY DEF SameRules
<1>4. PrepFits /\ ModelFits /\ OpFits
  BY DEF SetupInv
<1>5. /\ Setup!Idle.was \in BOOLEAN /\ Setup!Idle.lines \in Seq(Setup!Lines)
  BY EmptySeq DEF Setup!Idle
<1>6. CASE op.kind \in {"tables", "install"}
  <2>1. op' = Setup!Idle /\ prep' = [prep EXCEPT ![op.plan] = Setup!NoPrep] /\ UNCHANGED data
    BY <1>6 DEF Setup!GiveUp
  <2>2. op.plan \in Plans /\ \A p \in Setup!Saved(data) : prep[p] = Setup!NoPrep \/ op.plan = p
    BY <1>4, <1>6 DEF PrepFits
  <2>3. /\ prep' \in [Plans -> Setup!Preps \cup {Setup!NoPrep}]
        /\ \A p \in Plans : prep'[p] = prep[p] \/ prep'[p] = Setup!NoPrep
        /\ \A p \in Setup!Saved(data) : prep'[p] = Setup!NoPrep
    BY <1>1, <2>1, <2>2 DEF Setup!Saved
  <2>4. QED
    BY <1>1, <1>2, <1>3, <1>5, <2>1, <2>3, CutOff
<1>7. CASE op.kind \in {"run", "restore"}
  <2>1. /\ op' = Setup!Idle /\ UNCHANGED prep
        /\ data' = [data EXCEPT !.inst[op.plan].running = op.was]
    BY <1>7 DEF Setup!GiveUp
  <2>2. op.plan \in Setup!Saved(data) /\ \A p \in Setup!Saved(data) : prep[p] = Setup!NoPrep
    BY <1>4, <1>7 DEF PrepFits, OpFits
  <2>3. data' \in Setup!Stores /\ SameRules(data', data)
    BY <1>1, <2>1, <2>2, RunningIs
  <2>4. QED
    BY <1>1, <1>2, <1>5, <2>1, <2>2, <2>3, CutOff
<1>8. CASE op.kind = "delete"
  <2>1. PICK c \in Setup!Reconcile(model[1], data, TRUE) :
          Setup!Begin("restore", op.plan, Setup!Catch(data.inst[op.plan]) \o c, op.was)
    BY <1>8 DEF Setup!GiveUp
  <2>2. UNCHANGED <<prep, data>>
    BY <1>8 DEF Setup!GiveUp
  <2>3. /\ op.plan \in Setup!Saved(data) /\ \A p \in Setup!Saved(data) : prep[p] = Setup!NoPrep
        /\ model # <<>>
    BY <1>4, <1>8 DEF PrepFits, OpFits, ModelFits
  <2> DEFINE i == data.inst[op.plan]
             lines == Setup!Catch(i) \o c
  <2>4. i.slot \in Slots /\ Setup!Rule(i) \in Setup!At /\ Setup!Rule(i).at = i.slot
    BY <1>1, <2>3, SavedAre
  <2>5. model[1] \in SUBSET Setup!At
    BY <1>1, <2>3, ModelIs
  <2> HIDE DEF i
  <2>6. /\ lines \in Seq(Setup!Lines)
        /\ \A k \in DOMAIN lines : LineFits("restore", lines[k].do)
    BY <1>1, <2>1, <2>4, <2>5, RestoreIs
  <2>7. op' = [kind |-> "restore", plan |-> op.plan, lines |-> lines, was |-> op.was]
    BY <2>1 DEF Setup!Begin, i
  <2> HIDE DEF lines
  <2>8. /\ op'.plan = op.plan /\ op'.lines = lines /\ op'.was = op.was /\ op.was \in BOOLEAN
    BY <1>1, <2>7
  <2>9. QED
    BY <1>1, <1>2, <1>3, <2>2, <2>3, <2>6, <2>7, <2>8, CutOff
<1>9. CASE op.kind = "sample"
  <2>1. op' = Setup!Idle /\ UNCHANGED <<prep, data>>
    BY <1>9 DEF Setup!GiveUp
  <2>2. \A p \in Setup!Saved(data) : prep[p] = Setup!NoPrep
    BY <1>4, <1>9 DEF PrepFits
  <2>3. QED
    BY <1>1, <1>2, <1>3, <1>5, <2>1, <2>2, CutOff
<1>10. QED
  BY <1>1, <1>2, <1>6, <1>7, <1>8, <1>9

\* A script breaks off.
LEMMA BreakStep ==
  ASSUME SetupInv, Setup!Break
  PROVE  SetupInv'
<1>1. /\ Setup!AtRouter /\ Setup!GiveUp /\ UNCHANGED <<router, sample, model, disk, dirty>>
  BY DEF Setup!Break
<1>2. router' \in Routers /\ router'.table = router.table
  BY <1>1 DEF SetupInv, Setup!TypeOK, Routers
<1>3. QED
  BY <1>1, <1>2, GivesUp

\* The router is rebooted, and loses its rules and routes.
LEMMA RebootStep ==
  ASSUME SetupInv, Setup!Reboot
  PROVE  SetupInv'
<1>1. /\ router' = [router EXCEPT !.rules = {}, !.route = FALSE]
      /\ UNCHANGED <<sample, model, disk, dirty>>
      /\ IF Setup!AtRouter THEN Setup!GiveUp ELSE broken' = TRUE /\ UNCHANGED <<op, prep, data>>
  BY DEF Setup!Reboot
<1>2. router' \in Routers /\ router'.table = router.table
  BY <1>1 DEF SetupInv, Setup!TypeOK, Routers
<1>3. CASE Setup!AtRouter
  BY <1>1, <1>2, <1>3, GivesUp
<1>4. CASE ~Setup!AtRouter
  <2>1. broken' = TRUE /\ UNCHANGED <<op, prep, data>>
    BY <1>1, <1>4
  <2>2. Setup!TypeOK'
    BY <1>1, <1>2, <2>1 DEF SetupInv, Setup!TypeOK, Routers
  <2>3. Setup!SlotsAreExclusive'
    BY <1>1, <2>1
    DEF SetupInv, Setup!SlotsAreExclusive, Setup!Saved, Setup!Reserved, Setup!Overlaps
  <2>4. Setup!TablesAreUnique'
    BY <1>2 DEF SetupInv, Setup!TablesAreUnique, Setup!NoTable
  <2>5. OpFits'
    BY <2>1 DEF SetupInv, OpFits, Setup!Saved, Own, Setup!Rule, EndsWith, LineFits
  <2>6. PrepFits'
    BY <1>2, <2>1 DEF SetupInv, PrepFits, Setup!Saved, Setup!NoPrep, Setup!NoTable
  <2>7. ModelFits'
    BY <1>1, <2>1 DEF SetupInv, ModelFits
  <2>8. StoreFits'
    BY <2>1 DEF StoreFits
  <2>9. QED
    BY <2>1, <2>2, <2>3, <2>4, <2>5, <2>6, <2>7, <2>8 DEF SetupInv
<1>5. QED
  BY <1>3, <1>4

-----------------------------------------------------------------------------
(***************************************************************************)
(* The lines of a script.                                                  *)
(***************************************************************************)

\* The next line is done, by the router if it is one of its.
LineIsDone ==
  /\ op.lines # <<>> /\ Head(op.lines).do \notin {"extra", "save"}
  /\ op' = [op EXCEPT !.lines = Tail(op.lines)]
  /\ UNCHANGED <<prep, data, broken, sample, disk, dirty>>
\* The next line does to the router what its kind says.
LineRuns ==
  /\ Setup!AtRouter /\ Setup!Written(Head(op.lines))
  /\ LineIsDone /\ UNCHANGED model

\* The line, and the script that is left.
LEMMA LineIs ==
  ASSUME SetupInv, op.lines # <<>>, op' = [op EXCEPT !.lines = Tail(op.lines)]
  PROVE  /\ op'.kind = op.kind /\ op'.plan = op.plan /\ op'.lines = Tail(op.lines)
         /\ op.lines \in Seq(Setup!Lines) /\ Tail(op.lines) \in Seq(Setup!Lines)
         /\ Head(op.lines) \in Setup!Lines /\ Head(op.lines) = op.lines[1]
         /\ 1 \in DOMAIN op.lines
         /\ op.kind # "idle" /\ LineFits(op.kind, Head(op.lines).do)
         /\ op' \in [kind : {"idle", "sample", "tables", "install", "run", "delete", "restore"},
                     plan : Plans \cup {Setup!Nobody}, lines : Seq(Setup!Lines), was : BOOLEAN]
<1>1. op \in [kind : {"idle", "sample", "tables", "install", "run", "delete", "restore"},
              plan : Plans \cup {Setup!Nobody}, lines : Seq(Setup!Lines), was : BOOLEAN]
  BY DEF SetupInv, Setup!TypeOK
<1>2. op.lines \in Seq(Setup!Lines)
  BY <1>1
<1>3. /\ Tail(op.lines) \in Seq(Setup!Lines) /\ Head(op.lines) \in Setup!Lines
      /\ Head(op.lines) = op.lines[1] /\ 1 \in DOMAIN op.lines
  BY <1>2, RestIs
<1>4. op.kind # "idle" /\ LineFits(op.kind, Head(op.lines).do)
  BY <1>3 DEF SetupInv, OpFits
<1>5. QED
  BY <1>1, <1>2, <1>3, <1>4

\* The rules a line leaves.
RulesAfter(line) ==
  CASE line.do = "clear" -> router'.rules = {r \in router.rules : r.at # line.slot}
    [] line.do = "del" -> /\ router'.rules \subseteq router.rules
                          /\ \A r \in router.rules : r.at # line.slot => r \in router'.rules
    [] line.do = "guard" -> router'.rules = router.rules \cup {line.rule}
    [] OTHER -> router'.rules = router.rules

\* What a line does to the router.
LEMMA WrittenIs ==
  ASSUME SetupInv, LineRuns
  PROVE  /\ router' \in Routers /\ RulesAfter(Head(op.lines))
         /\ Head(op.lines).do = "route" => router'.route = TRUE
         /\ Head(op.lines).do \notin {"flush", "route"} => router'.route = router.route
         /\ Head(op.lines).do # "table" => router'.table = router.table
         /\ Head(op.lines).do = "table" =>
              /\ op.kind = "tables" /\ op.plan \in Plans /\ prep[op.plan].stage = "tables"
              /\ router'.table =
                    [router.table EXCEPT ![prep[op.plan].pair] = prep[op.plan].table]
<1> DEFINE line == Head(op.lines)
<1>1. line \in Setup!Lines /\ LineFits(op.kind, line.do) /\ PrepFits
  BY LineIs DEF SetupInv, LineRuns, LineIsDone
<1>2. router \in Routers
  BY DEF SetupInv, Setup!TypeOK, Routers
<1>3. line.do \in {"flush", "route", "clear", "del", "guard", "forward", "unforward", "table"}
      /\ Setup!Written(line)
  BY DEF LineRuns, Setup!AtRouter
<1> HIDE DEF line
<1>4. CASE line.do = "flush"
  <2>1. router' = [router EXCEPT !.route = FALSE]
    BY <1>3, <1>4 DEF Setup!Written
  <2>2. QED
    BY <1>2, <1>4, <2>1 DEF Routers, RulesAfter, line
<1>5. CASE line.do = "route"
  <2>1. router' = [router EXCEPT !.route = TRUE]
    BY <1>3, <1>5 DEF Setup!Written
  <2>2. QED
    BY <1>2, <1>5, <2>1 DEF Routers, RulesAfter, line
<1>6. CASE line.do = "clear"
  <2>1. router' = [router EXCEPT !.rules = {r \in router.rules : r.at # line.slot}]
    BY <1>3, <1>6 DEF Setup!Written
  <2>2. QED
    BY <1>2, <1>6, <2>1 DEF Routers, RulesAfter, line
<1>7. CASE line.do = "del"
  <2>1. CASE UNCHANGED router
    BY <1>2, <1>7, <2>1 DEF RulesAfter, line
  <2>2. CASE \E r \in router.rules : r.at = line.slot
                                     /\ router' = [router EXCEPT !.rules = router.rules \ {r}]
    BY <1>2, <1>7, <2>2 DEF Routers, RulesAfter, line
  <2>3. QED
    BY <1>3, <1>7, <2>1, <2>2 DEF Setup!Written
<1>8. CASE line.do = "guard"
  <2>1. router' = [router EXCEPT !.rules = router.rules \cup {line.rule}]
    BY <1>3, <1>8 DEF Setup!Written
  <2>2. line.rule \in Setup!At
    BY <1>1, <1>8 DEF Setup!Lines
  <2>3. QED
    BY <1>2, <1>8, <2>1, <2>2 DEF Routers, RulesAfter, line
<1>9. CASE line.do = "forward"
  <2>1. router' = [router EXCEPT !.forwards = {f \in router.forwards : f.at # prep[op.plan].slot}
                                              \cup {Setup!Rule(prep[op.plan])}]
    BY <1>3, <1>9 DEF Setup!Written
  <2>2. op.plan \in Plans /\ prep[op.plan].stage = "install"
    BY <1>1, <1>9 DEF LineFits, PrepFits
  <2>3. Setup!Rule(prep[op.plan]) \in Setup!At
    BY <2>2, PrepsAre DEF SetupInv
  <2>4. QED
    BY <1>2, <1>9, <2>1, <2>3 DEF Routers, RulesAfter, line
<1>10. CASE line.do = "unforward"
  <2>1. router' = [router EXCEPT !.forwards = {f \in router.forwards : f.at # line.slot}]
    BY <1>3, <1>10 DEF Setup!Written
  <2>2. QED
    BY <1>2, <1>10, <2>1 DEF Routers, RulesAfter, line
<1>11. CASE line.do = "table"
  <2>1. router' = [router EXCEPT !.table[prep[op.plan].pair] = prep[op.plan].table]
    BY <1>3, <1>11 DEF Setup!Written
  <2>2. op.kind = "tables" /\ op.plan \in Plans /\ prep[op.plan].stage = "tables"
    BY <1>1, <1>11 DEF LineFits, PrepFits
  <2>3. prep[op.plan].table \in Tables \cup {Setup!NoTable} /\ prep[op.plan].pair \in Pairs
    BY <2>2, PrepsAre DEF SetupInv
  <2> DEFINE t == [router.table EXCEPT ![prep[op.plan].pair] = prep[op.plan].table]
  <2>4. t \in [Pairs -> Tables \cup {Setup!NoTable}]
    BY <1>2, <2>3 DEF Routers
  <2>5. router' = [router EXCEPT !.table = t]
    BY <2>1
  <2> HIDE DEF t
  <2>6. router' \in Routers /\ router'.table = t /\ router'.rules = router.rules
        /\ router'.route = router.route
    BY <1>2, <2>4, <2>5 DEF Routers
  <2>7. QED
    BY <1>11, <2>2, <2>6 DEF RulesAfter, line, t
<1>12. QED
  BY <1>3, <1>4, <1>5, <1>6, <1>7, <1>8, <1>9, <1>10, <1>11

\* A table that is written is nobody else's.
LEMMA TablesStayUnique ==
  ASSUME SetupInv, LineRuns
  PROVE  /\ Setup!TablesAreUnique'
         /\ \A p \in Plans : prep[p].stage = "tables" =>
              \A c \in Pairs : c # prep[p].pair => router'.table[c] # prep[p].table
<1> DEFINE line == Head(op.lines)
           mine == prep[op.plan]
<1>1. Setup!TablesAreUnique /\ PrepFits /\ Setup!SlotsAreExclusive
  BY DEF SetupInv
<1>2. CASE line.do # "table"
  <2>1. router'.table = router.table
    BY <1>2, WrittenIs
  <2>2. QED
    BY <1>1, <2>1 DEF Setup!TablesAreUnique, PrepFits, Setup!NoTable
<1>3. CASE line.do = "table"
  <2>1. /\ op.kind = "tables" /\ op.plan \in Plans /\ mine.stage = "tables"
        /\ router'.table = [router.table EXCEPT ![mine.pair] = mine.table]
    BY <1>3, WrittenIs
  <2>2. /\ mine.table # Setup!NoTable /\ mine.pair \in Pairs
        /\ \A c \in Pairs : c # mine.pair => router.table[c] # mine.table
    BY <1>1, <2>1, PrepsAre DEF PrepFits, SetupInv
  <2>3. router.table \in [Pairs -> Tables \cup {Setup!NoTable}]
    BY DEF SetupInv, Setup!TypeOK
  <2>4. router'.table[mine.pair] = mine.table
        /\ \A c \in Pairs : c # mine.pair => router'.table[c] = router.table[c]
    BY <2>1, <2>2, <2>3
  <2>5. Setup!TablesAreUnique'
    BY <1>1, <2>2, <2>4 DEF Setup!TablesAreUnique, Setup!NoTable
  <2>6. ASSUME NEW p \in Plans, prep[p].stage = "tables", NEW c \in Pairs, c # prep[p].pair
        PROVE  router'.table[c] # prep[p].table
    <3>1. CASE p = op.plan
      BY <2>2, <2>4, <2>6, <3>1
    <3>2. CASE p # op.plan
      <4>1. p \in Setup!Reserved /\ op.plan \in Setup!Reserved
        BY <2>1, <2>6 DEF Setup!Reserved
      <4>2. prep[p].table # mine.table
        BY <1>1, <2>2, <3>2, <4>1 DEF Setup!SlotsAreExclusive, Setup!Overlaps
      <4>3. router.table[c] # prep[p].table
        BY <1>1, <2>6 DEF PrepFits
      <4>4. QED
        BY <2>4, <4>2, <4>3
    <3>3. QED
      BY <3>1, <3>2
  <2>7. QED
    BY <2>5, <2>6
<1>4. QED
  BY <1>2, <1>3

\* No two rules that are due are at one preference.
LEMMA DueIsUnique ==
  ASSUME SetupInv, NEW r \in Due, NEW s \in Due, r.at = s.at
  PROVE  r = s
<1>1. data \in Setup!Stores
  BY DEF SetupInv, Setup!TypeOK
<1>2. \A p, q \in Setup!Saved(data) : p # q => data.inst[p].slot # data.inst[q].slot
  BY DEF SetupInv, Setup!SlotsAreExclusive
<1>3. \A p \in Setup!Saved(data) : Setup!Rule(data.inst[p]).at = data.inst[p].slot
  BY <1>1, SavedAre
<1>4. ASSUME NEW x \in RulesOf(data), NEW y \in RulesOf(data), x.at = y.at PROVE x = y
  <2>1. PICK p \in Setup!Saved(data) : x = Setup!Rule(data.inst[p])
    BY DEF RulesOf
  <2>2. PICK q \in Setup!Saved(data) : y = Setup!Rule(data.inst[q])
    BY DEF RulesOf
  <2>3. QED
    BY <1>2, <1>3, <1>4, <2>1, <2>2
<1>5. ASSUME op.kind = "install", NEW x \in RulesOf(data), x.at = Own.at PROVE x = Own
  <2>1. PICK p \in Setup!Saved(data) : x = Setup!Rule(data.inst[p])
    BY DEF RulesOf
  <2>2. op.plan \in Plans /\ prep[op.plan].stage = "install"
    BY <1>5 DEF SetupInv, PrepFits
  <2>3. Own.at = prep[op.plan].slot
    BY <2>2, PrepsAre DEF SetupInv, Own
  <2>4. p = op.plan
    BY <1>3, <1>5, <2>1, <2>3 DEF SetupInv, OpFits
  <2>5. QED
    BY <1>5, <2>1, <2>4 DEF SetupInv, OpFits
<1>6. \A x \in Due : x \in RulesOf(data) \/ (op.kind = "install" /\ x = Own)
  BY DEF Due, RulesOf, Installing, Own
<1>7. QED
  BY <1>4, <1>5, <1>6

\* As long as nothing has failed, a line leaves the router what the rest of the script needs.
LEMMA LineKeepsRouter ==
  ASSUME SetupInv, LineIsDone, ~broken, RulesAfter(Head(op.lines)),
         Head(op.lines).do = "route" => router'.route = TRUE,
         Head(op.lines).do \notin {"flush", "route"} => router'.route = router.route
  PROVE  ScriptFits' /\ RouterFits'
<1> DEFINE line == Head(op.lines)
           L == op.lines
           u == Tail(op.lines)
<1>1. ScriptFits /\ RouterFits /\ OpFits
  BY DEF SetupInv
<1>2. L # <<>> /\ op' = [op EXCEPT !.lines = Tail(op.lines)] /\ UNCHANGED <<prep, data>>
  BY DEF LineIsDone
<1>3. /\ op'.kind = op.kind /\ op'.plan = op.plan /\ op'.lines = u
      /\ L \in Seq(Setup!Lines) /\ line = L[1] /\ 1 \in DOMAIN L
      /\ LineFits(op.kind, line.do)
  BY <1>2, LineIs
<1>4. /\ \A i \in DOMAIN u : i + 1 \in DOMAIN L /\ i + 1 > 1 /\ u[i] = L[i + 1]
      /\ \A j \in DOMAIN L : j > 1 => j - 1 \in DOMAIN u /\ u[j - 1] = L[j]
      /\ Len(u) = Len(L) - 1 /\ Len(L) \in Nat /\ Len(L) > 0 /\ DOMAIN L = 1..Len(L)
      /\ u \in Seq(Setup!Lines)
  BY <1>2, <1>3, RestIs
<1>5. /\ FlushIsMended(u) /\ DelIsMended(u) /\ \A R : GuardsAre(L, R) => GuardsAre(u, R)
      /\ \A r : ClearIsMended(L, r) => ClearIsMended(u, r)
      /\ \A c : ClearIsLast(L, c) => ClearIsLast(u, c)
      /\ EndsWith(L, "clear") => u = <<>> \/ EndsWith(u, "clear")
  BY <1>1, <1>2, <1>3, RestIsMended DEF ScriptFits
<1>6. Due' = Due /\ Own' = Own
  BY <1>2, <1>3 DEF Due, Installing, Own, Setup!Rule, Setup!Saved
<1>7. RulesAfter(line) /\ (line.do = "route" => router'.route = TRUE)
      /\ (line.do \notin {"flush", "route"} => router'.route = router.route)
  OBVIOUS
<1> HIDE DEF line, L, u
<1>8. ScriptFits'
  <2>1. GuardsAre(u, Due)
    BY <1>1, <1>5 DEF ScriptFits, L
  <2>2. op.kind = "install" => ClearIsMended(u, Own)
    BY <1>1, <1>5 DEF ScriptFits, L
  <2>3. op.kind = "delete" => ClearIsLast(u, data.inst[op.plan].slot)
    BY <1>1, <1>5 DEF ScriptFits, L
  <2>4. FlushIsMended(op.lines)' /\ DelIsMended(op.lines)'
    BY <1>3, <1>5 DEF FlushIsMended, DelIsMended
  <2>5. GuardsAre(op.lines, Due)'
    BY <1>3, <1>6, <2>1 DEF GuardsAre
  <2>6. (op.kind = "install" => ClearIsMended(op.lines, Own))'
    BY <1>3, <1>6, <2>2 DEF ClearIsMended
  <2>7. (op.kind = "delete" => ClearIsLast(op.lines, data.inst[op.plan].slot))'
    BY <1>2, <1>3, <2>3 DEF ClearIsLast
  <2>8. QED
    BY <2>4, <2>5, <2>6, <2>7 DEF ScriptFits
<1>9. line.do = "guard" => line.rule \in Due
  BY <1>1, <1>3 DEF ScriptFits, GuardsAre, L
<1>10. router'.rules \subseteq Due
  BY <1>1, <1>7, <1>9 DEF RulesAfter, RouterFits
<1>11. \A r : Adds(L, r) => Adds(u, r) \/ (line.do = "guard" /\ line.rule = r)
  <2> SUFFICES ASSUME NEW r, NEW i \in DOMAIN L, L[i].do = "guard", L[i].rule = r
               PROVE  Adds(u, r) \/ (line.do = "guard" /\ line.rule = r)
    BY DEF Adds
  <2>1. CASE i = 1
    BY <1>3, <2>1
  <2>2. CASE i # 1
    <3>1. i > 1
      BY <1>4, <2>2
    <3>2. QED
      BY <1>4, <3>1 DEF Adds
  <2>3. QED
    BY <2>1, <2>2
<1>12. ASSUME NEW r \in Due, r \in router.rules, r \notin router'.rules
       PROVE  Adds(u, r) \/ (op.kind = "delete" /\ r.at = data.inst[op.plan].slot)
  <2>1. CASE line.do = "clear"
    <3>1. r.at = line.slot
      BY <1>7, <1>12, <2>1 DEF RulesAfter
    <3>2. CASE op.kind = "install"
      <4>1. /\ line.slot = Own.at
            /\ \E j \in DOMAIN L : j > 1 /\ L[j].do = "guard" /\ L[j].rule = Own
        BY <1>1, <1>3, <2>1, <3>2 DEF ScriptFits, ClearIsMended, L
      <4>2. Own \in Due
        BY <3>2 DEF Due, Installing, Own, SetupInv, PrepFits
      <4>3. r = Own
        BY <3>1, <4>1, <4>2, DueIsUnique
      <4>4. QED
        BY <1>4, <4>1, <4>3 DEF Adds
    <3>3. CASE op.kind = "delete"
      BY <1>1, <1>3, <2>1, <3>1, <3>3 DEF ScriptFits, ClearIsLast, L
    <3>4. QED
      BY <1>1, <1>3, <2>1, <3>2, <3>3 DEF LineFits, OpFits
  <2>2. CASE line.do = "del"
    <3>1. r.at = line.slot
      BY <1>7, <1>12, <2>2 DEF RulesAfter
    <3>2. PICK j \in DOMAIN L : j > 1 /\ L[j].do = "guard" /\ L[j].rule.at = line.slot
      BY <1>1, <1>3, <2>2 DEF ScriptFits, DelIsMended, L
    <3>3. L[j].rule \in Due
      BY <1>1, <3>2 DEF ScriptFits, GuardsAre, L
    <3>4. L[j].rule = r
      BY <3>1, <3>2, <3>3, DueIsUnique
    <3>5. QED
      BY <1>4, <3>2, <3>4 DEF Adds
  <2>3. CASE line.do \notin {"clear", "del"}
    BY <1>7, <1>12, <2>3 DEF RulesAfter
  <2>4. QED
    BY <2>1, <2>2, <2>3
<1>13. ASSUME NEW r \in Due
       PROVE  r \in router'.rules \/ Adds(u, r)
              \/ (op.kind = "delete" /\ r.at = data.inst[op.plan].slot)
  <2>1. line.do = "guard" => line.rule \in router'.rules
    BY <1>7 DEF RulesAfter
  <2>2. \/ r \in router.rules \/ Adds(L, r)
        \/ op.kind = "delete" /\ r.at = data.inst[op.plan].slot
    BY <1>1 DEF RouterFits, L
  <2>3. QED
    BY <1>11, <1>12, <2>1, <2>2
<1>14. Due # {} => router'.route \/ LaysRoute(u)
  <2>1. CASE line.do = "flush"
    <3>1. PICK j \in DOMAIN L : j > 1 /\ L[j].do = "route"
      BY <1>1, <1>3, <2>1 DEF ScriptFits, FlushIsMended, L
    <3>2. QED
      BY <1>4, <3>1 DEF LaysRoute
  <2>2. CASE line.do = "route"
    BY <1>7, <2>2
  <2>3. CASE line.do \notin {"flush", "route"}
    <3>1. LaysRoute(L) => LaysRoute(u)
      <4> SUFFICES ASSUME NEW i \in DOMAIN L, L[i].do = "route" PROVE LaysRoute(u)
        BY DEF LaysRoute
      <4>1. i > 1
        BY <1>3, <1>4, <2>3
      <4>2. QED
        BY <1>4, <4>1 DEF LaysRoute
    <3>2. QED
      BY <1>1, <1>7, <2>3, <3>1 DEF RouterFits, L
  <2>4. QED
    BY <2>1, <2>2, <2>3
<1>15. ASSUME op.kind = "delete"
       PROVE  \/ EndsWith(u, "clear")
              \/ u = <<>> /\ \A r \in router'.rules : r.at # data.inst[op.plan].slot
  <2>1. EndsWith(L, "clear")
    BY <1>1, <1>2, <1>15 DEF RouterFits, L
  <2>2. CASE u = <<>>
    <3>1. Len(L) = 1
      BY <1>4, <2>2
    <3>2. line.do = "clear"
      BY <1>3, <2>1, <3>1 DEF EndsWith
    <3>3. line.slot = data.inst[op.plan].slot
      BY <1>1, <1>3, <1>15, <3>2 DEF ScriptFits, ClearIsLast, L
    <3>4. QED
      BY <1>7, <2>2, <3>2, <3>3 DEF RulesAfter
  <2>3. QED
    BY <1>5, <2>1, <2>2
<1>16. RouterFits'
  BY <1>2, <1>3, <1>6, <1>10, <1>13, <1>14, <1>15 DEF RouterFits, Adds, LaysRoute, EndsWith
<1>17. QED
  BY <1>8, <1>16

\* A script that has begun goes on as one.
LEMMA LineKeepsScript ==
  ASSUME SetupInv, LineIsDone
  PROVE  OpFits'
<1> DEFINE L == op.lines
           u == Tail(op.lines)
<1>1. OpFits /\ PrepFits
  BY DEF SetupInv
<1>2. /\ L # <<>> /\ op' = [op EXCEPT !.lines = Tail(op.lines)]
      /\ UNCHANGED <<prep, data, broken>>
      /\ Head(L).do \notin {"extra", "save"}
  BY DEF LineIsDone
<1>3. /\ op'.kind = op.kind /\ op'.plan = op.plan /\ op'.lines = u
      /\ L \in Seq(Setup!Lines) /\ Head(L) = L[1] /\ op.kind # "idle"
  BY <1>2, LineIs
<1>4. /\ \A i \in DOMAIN u : i + 1 \in DOMAIN L /\ u[i] = L[i + 1]
      /\ EndsWith(L, "save") => u = <<>> \/ EndsWith(u, "save")
      /\ Len(u) = Len(L) - 1 /\ Len(L) \in Nat
  BY <1>2, <1>3, RestIs, RestIsMended
<1>5. ASSUME op.kind = "tables" PROVE u = <<[do |-> "extra"]>>
  <2>1. L = <<[do |-> "table"], [do |-> "extra"]>> \/ L = <<[do |-> "extra"]>>
    BY <1>1, <1>5 DEF OpFits
  <2>2. L # <<[do |-> "extra"]>>
    <3>1. Head(<<[do |-> "extra"]>>).do = "extra"
      OBVIOUS
    <3>2. QED
      BY <1>2, <3>1
  <2>3. Tail(<<[do |-> "table"], [do |-> "extra"]>>) = <<[do |-> "extra"]>>
    OBVIOUS
  <2>4. L = <<[do |-> "table"], [do |-> "extra"]>>
    BY <2>1, <2>2
  <2>5. QED
    BY <2>3, <2>4
<1>6. ASSUME EndsWith(L, "save") PROVE EndsWith(u, "save")
  <2>1. ASSUME u = <<>> PROVE FALSE
    <3>1. Len(L) = 1
      <4>1. Len(u) = 0 /\ Len(u) = Len(L) - 1 /\ Len(L) \in Nat
        BY <1>4, <2>1, EmptySeq
      <4> HIDE DEF u, L
      <4>2. QED
        BY <4>1
    <3>2. L[1].do = "save"
      BY <1>6, <3>1 DEF EndsWith
    <3>3. QED
      BY <1>2, <1>3, <3>2
  <2>2. QED
    BY <1>4, <1>6, <2>1
<1> HIDE DEF L, u
<1>7. \A i \in DOMAIN u : LineFits(op.kind, u[i].do)
  BY <1>1, <1>4 DEF OpFits, L
<1>8. op.kind = "install" =>
        /\ \A q \in Setup!Saved(data) : q # op.plan => /\ data.inst[q].slot # prep[op.plan].slot
                                                       /\ data.inst[q].pair # prep[op.plan].pair
        /\ op.plan \in Setup!Saved(data) => Setup!Rule(data.inst[op.plan]) = Own
        /\ op.plan \notin Setup!Saved(data) => EndsWith(u, "save")
  BY <1>1, <1>6 DEF OpFits, L
<1>9. Own' = Own /\ Setup!Saved(data)' = Setup!Saved(data)
  BY <1>2, <1>3 DEF Own, Setup!Rule, Setup!Saved
<1>10. /\ op.kind \in {"run", "delete", "restore"} => op.plan \in Setup!Saved(data)
       /\ op.kind = "restore" => broken
  BY <1>1 DEF OpFits
<1>11. (op.kind = "install" =>
        /\ \A q \in Setup!Saved(data) : q # op.plan => /\ data.inst[q].slot # prep[op.plan].slot
                                                       /\ data.inst[q].pair # prep[op.plan].pair
        /\ op.plan \in Setup!Saved(data) => Setup!Rule(data.inst[op.plan]) = Own
        /\ op.plan \notin Setup!Saved(data) => EndsWith(op.lines, "save"))'
  BY <1>2, <1>3, <1>8, <1>9 DEF Setup!Rule, EndsWith
<1>12. (\A i \in DOMAIN op.lines : LineFits(op.kind, op.lines[i].do))'
  BY <1>3, <1>7 DEF LineFits
<1>13. QED
  BY <1>2, <1>3, <1>5, <1>9, <1>10, <1>11, <1>12 DEF OpFits, u

\* A line that is run keeps the invariant.
LEMMA LineRunsStep ==
  ASSUME SetupInv, LineRuns
  PROVE  SetupInv'
<1>1. /\ op.lines # <<>> /\ op' = [op EXCEPT !.lines = Tail(op.lines)]
      /\ UNCHANGED <<prep, data, broken, sample, model, disk, dirty>>
  BY DEF LineRuns, LineIsDone
<1>2. /\ op'.kind = op.kind /\ op'.plan = op.plan
      /\ op' \in [kind : {"idle", "sample", "tables", "install", "run", "delete", "restore"},
                  plan : Plans \cup {Setup!Nobody}, lines : Seq(Setup!Lines), was : BOOLEAN]
  BY <1>1, LineIs
<1>3. router' \in Routers
  BY WrittenIs
<1>4. Setup!TypeOK'
  BY <1>1, <1>2, <1>3 DEF SetupInv, Setup!TypeOK, Routers
<1>5. Setup!SlotsAreExclusive'
  BY <1>1 DEF SetupInv, Setup!SlotsAreExclusive, Setup!Saved, Setup!Reserved, Setup!Overlaps
<1>6. Setup!TablesAreUnique' /\ OpFits'
  BY TablesStayUnique, LineKeepsScript DEF LineRuns
<1>7. PrepFits'
  <2>1. \A p \in Plans : prep[p].stage = "tables" =>
          \A c \in Pairs : c # prep[p].pair => router'.table[c] # prep[p].table
    BY TablesStayUnique
  <2>2. PrepFits
    BY DEF SetupInv
  <2>3. QED
    BY <1>1, <1>2, <2>1, <2>2 DEF PrepFits, Setup!Saved, Setup!NoPrep, Setup!NoTable
<1>8. ModelFits' /\ StoreFits'
  BY <1>1, <1>2 DEF SetupInv, ModelFits, StoreFits
<1>9. ~broken' => ScriptFits' /\ RouterFits'
  BY <1>1, WrittenIs, LineKeepsRouter DEF LineRuns
<1>10. QED
  BY <1>4, <1>5, <1>6, <1>7, <1>8, <1>9 DEF SetupInv

\* The router runs the next line, or refuses to add what is there.
LEMMA LineStep ==
  ASSUME SetupInv, Setup!Line
  PROVE  SetupInv'
<1> DEFINE line == Head(op.lines)
           Stays == line.do = "guard" /\ line.rule \in router.rules
<1>1. Setup!AtRouter /\ UNCHANGED <<sample, model, disk, dirty>>
  BY DEF Setup!Line
<1>2. CASE Stays
  <2>1. Setup!GiveUp /\ UNCHANGED router
    BY <1>2 DEF Setup!Line
  <2>2. router' \in Routers /\ router'.table = router.table
    BY <2>1 DEF SetupInv, Setup!TypeOK, Routers
  <2>3. QED
    BY <1>1, <2>1, <2>2, GivesUp
<1>3. CASE ~Stays
  <2>1. Setup!Written(line) /\ op' = [op EXCEPT !.lines = Tail(op.lines)]
        /\ UNCHANGED <<prep, data, broken>>
    BY <1>3 DEF Setup!Line
  <2>2. LineRuns
    BY <1>1, <2>1 DEF LineRuns, LineIsDone, Setup!AtRouter
  <2>3. QED
    BY <2>2, LineRunsStep
<1>4. QED
  BY <1>2, <1>3

-----------------------------------------------------------------------------
(***************************************************************************)
(* What the engine does between the lines.                                 *)
(***************************************************************************)

\* The end of a reconcile.
LEMMA ReconciledStep ==
  ASSUME SetupInv, Setup!Reconciled
  PROVE  SetupInv'
<1> DEFINE line == Head(op.lines)
<1>1. /\ op.lines # <<>> /\ line.do = "model" /\ model' = <<line.rules>>
      /\ op' = [op EXCEPT !.lines = Tail(op.lines)]
      /\ UNCHANGED <<router, sample, data, disk, dirty, prep, broken>>
  BY DEF Setup!Reconciled, Setup!counts
<1>2. LineIsDone
  BY <1>1 DEF LineIsDone
<1>3. /\ op'.kind = op.kind /\ op'.plan = op.plan /\ line \in Setup!Lines
      /\ op' \in [kind : {"idle", "sample", "tables", "install", "run", "delete", "restore"},
                  plan : Plans \cup {Setup!Nobody}, lines : Seq(Setup!Lines), was : BOOLEAN]
  BY <1>1, LineIs
<1> HIDE DEF line
<1>4. line.rules \in SUBSET Setup!At
  BY <1>1, <1>3 DEF Setup!Lines
<1>5. model' \in Setup!Models /\ model' # <<>>
  BY <1>1, <1>4, ModelOf
<1>6. Setup!TypeOK'
  BY <1>1, <1>3, <1>5 DEF SetupInv, Setup!TypeOK
<1>7. Setup!SlotsAreExclusive'
  BY <1>1 DEF SetupInv, Setup!SlotsAreExclusive, Setup!Saved, Setup!Reserved, Setup!Overlaps
<1>8. Setup!TablesAreUnique'
  BY <1>1 DEF SetupInv, Setup!TablesAreUnique, Setup!NoTable
<1>9. OpFits'
  BY <1>2, LineKeepsScript
<1>10. PrepFits'
  BY <1>1, <1>3 DEF SetupInv, PrepFits, Setup!Saved, Setup!NoPrep, Setup!NoTable
<1>11. ModelFits' /\ StoreFits'
  BY <1>1, <1>3, <1>5 DEF SetupInv, ModelFits, StoreFits
<1>12. ~broken' => ScriptFits' /\ RouterFits'
  <2>1. RulesAfter(line) /\ router'.route = router.route /\ line.do \notin {"flush", "route"}
    BY <1>1 DEF RulesAfter
  <2>2. QED
    BY <1>1, <1>2, <2>1, LineKeepsRouter DEF line
<1>13. QED
  BY <1>6, <1>7, <1>8, <1>9, <1>10, <1>11, <1>12 DEF SetupInv

\* A sweep reads the router.
LEMMA SweepStep ==
  ASSUME SetupInv, Setup!Sweep
  PROVE  SetupInv'
<1>1. /\ sample' = <<router.rules>>
      /\ UNCHANGED <<router, model, data, disk, dirty, prep, op, broken>>
  BY DEF Setup!Sweep, Setup!counts
<1>2. sample' \in Setup!Models
  BY <1>1, ModelOf DEF SetupInv, Setup!TypeOK
<1>3. Setup!TypeOK'
  BY <1>1, <1>2 DEF SetupInv, Setup!TypeOK
<1>4. Setup!SlotsAreExclusive' /\ Setup!TablesAreUnique'
  BY <1>1 DEF SetupInv, Setup!SlotsAreExclusive, Setup!Saved, Setup!Reserved, Setup!Overlaps,
              Setup!TablesAreUnique, Setup!NoTable
<1>5. OpFits'
  BY <1>1 DEF SetupInv, OpFits, Setup!Saved, Own, Setup!Rule, EndsWith, LineFits
<1>6. PrepFits' /\ ModelFits' /\ StoreFits'
  BY <1>1 DEF SetupInv, PrepFits, ModelFits, StoreFits, Setup!Saved, Setup!NoPrep, Setup!NoTable
<1>7. ~broken' => ScriptFits' /\ RouterFits'
  BY <1>1, ScriptStands DEF SetupInv
<1>8. QED
  BY <1>3, <1>4, <1>5, <1>6, <1>7 DEF SetupInv

\* HostStore.flush()
LEMMA FlushStep ==
  ASSUME SetupInv, Setup!Flush
  PROVE  SetupInv'
<1>1. /\ dirty' = FALSE /\ disk' = data
      /\ UNCHANGED <<router, sample, model, data, prep, op, broken>>
  BY DEF Setup!Flush, Setup!counts
<1>2. Setup!TypeOK'
  BY <1>1 DEF SetupInv, Setup!TypeOK
<1>3. Setup!SlotsAreExclusive' /\ Setup!TablesAreUnique'
  BY <1>1 DEF SetupInv, Setup!SlotsAreExclusive, Setup!Saved, Setup!Reserved, Setup!Overlaps,
              Setup!TablesAreUnique, Setup!NoTable
<1>4. OpFits'
  BY <1>1 DEF SetupInv, OpFits, Setup!Saved, Own, Setup!Rule, EndsWith, LineFits
<1>5. PrepFits' /\ ModelFits' /\ StoreFits'
  BY <1>1 DEF SetupInv, PrepFits, ModelFits, StoreFits, Setup!Saved, Setup!NoPrep, Setup!NoTable
<1>6. ~broken' => ScriptFits' /\ RouterFits'
  BY <1>1, ScriptStands DEF SetupInv
<1>7. QED
  BY <1>2, <1>3, <1>4, <1>5, <1>6 DEF SetupInv

\* A new engine, after a dispose() or a crash.
LEMMA RestartStep ==
  ASSUME SetupInv, NEW disposed \in BOOLEAN, Setup!Restart(disposed)
  PROVE  SetupInv'
<1>1. /\ disk' = (IF disposed /\ dirty THEN data ELSE disk) /\ data' = disk' /\ dirty' = FALSE
      /\ sample' = <<>> /\ model' = <<>> /\ prep' = [p \in Plans |-> Setup!NoPrep]
      /\ op' = Setup!Idle /\ UNCHANGED router
      /\ broken' = (broken \/ op.kind # "idle" \/ (dirty /\ ~disposed))
  BY DEF Setup!Restart
<1>2. op'.kind = "idle" /\ op'.lines = <<>>
  BY <1>1 DEF Setup!Idle
<1>3. \A p \in Plans : prep'[p] = Setup!NoPrep /\ prep'[p].stage = "none"
  BY <1>1, ThereOrNot
<1>4. data \in Setup!Stores /\ disk \in Setup!Stores /\ broken \in BOOLEAN
  BY DEF SetupInv, Setup!TypeOK
<1>5. Setup!TypeOK'
  <2>1. op' \in [kind : {"idle", "sample", "tables", "install", "run", "delete", "restore"},
                 plan : Plans \cup {Setup!Nobody}, lines : Seq(Setup!Lines), was : BOOLEAN]
    BY <1>1, EmptySeq DEF Setup!Idle
  <2>2. prep' \in [Plans -> Setup!Preps \cup {Setup!NoPrep}]
    BY <1>1
  <2>3. sample' \in Setup!Models /\ model' \in Setup!Models
    BY <1>1 DEF Setup!Models
  <2>4. /\ data' \in Setup!Stores /\ disk' \in Setup!Stores
        /\ dirty' \in BOOLEAN /\ broken' \in BOOLEAN
    BY <1>1, <1>4
  <2>5. QED
    BY <1>1, <2>1, <2>2, <2>3, <2>4 DEF SetupInv, Setup!TypeOK
<1>6. Setup!SlotsAreExclusive'
  <2>1. Setup!SlotsAreExclusive
    BY DEF SetupInv
  <2>2. \A store \in {data, disk} : \A a, b \in Setup!Saved(store) :
          a # b => /\ store.inst[a].slot # store.inst[b].slot
                   /\ store.inst[a].pair # store.inst[b].pair
    BY <2>1 DEF Setup!SlotsAreExclusive
  <2>3. data' = disk' /\ (disk' = data \/ disk' = disk)
    BY <1>1
  <2>4. Setup!Reserved' = {}
    BY <1>3 DEF Setup!Reserved
  <2>5. QED
    BY <2>2, <2>3, <2>4 DEF Setup!SlotsAreExclusive, Setup!Saved
<1>7. Setup!TablesAreUnique'
  BY <1>1 DEF SetupInv, Setup!TablesAreUnique, Setup!NoTable
<1>8. OpFits' /\ PrepFits' /\ ModelFits'
  BY <1>2, <1>3 DEF OpFits, PrepFits, ModelFits, Setup!Saved, Setup!NoPrep
<1>9. StoreFits'
  BY <1>1 DEF StoreFits
<1>10. ASSUME ~broken' PROVE ScriptFits' /\ RouterFits'
  <2>1. ~broken /\ op.kind = "idle" /\ (dirty => disposed)
    BY <1>1, <1>4, <1>10 DEF SetupInv, Setup!TypeOK
  <2>2. data' = data
    BY <1>1, <2>1 DEF SetupInv, StoreFits
  <2>3. op.lines = <<>> /\ ScriptFits /\ RouterFits
    BY <2>1 DEF SetupInv, OpFits
  <2>4. Due' = Due
    BY <1>2, <2>1, <2>2 DEF Due, Installing, Setup!Saved, Setup!Rule
  <2>5. ScriptFits'
    BY <1>2 DEF ScriptFits, FlushIsMended, DelIsMended, GuardsAre
  <2>6. RouterFits'
    BY <1>1, <1>2, <2>1, <2>3, <2>4 DEF RouterFits, Adds, LaysRoute
  <2>7. QED
    BY <2>5, <2>6
<1>11. QED
  BY <1>5, <1>6, <1>7, <1>8, <1>9, <1>10 DEF SetupInv

\* An operation is over: as long as nothing has failed, the router has the rules of what is
\* stored then.
LEMMA Ends ==
  ASSUME SetupInv, op' = Setup!Idle, UNCHANGED <<router, sample, model, disk, broken>>,
         dirty' \in BOOLEAN, data' \in Setup!Stores,
         prep' \in [Plans -> Setup!Preps \cup {Setup!NoPrep}],
         \A p \in Plans : \/ prep'[p] = Setup!NoPrep \/ prep'[p] = prep[p]
                          \/ /\ p \in Setup!Reserved /\ model # <<>> /\ prep'[p].stage = "install"
                             /\ prep'[p].pair = prep[p].pair /\ prep'[p].slot = prep[p].slot
                             /\ prep'[p].table = prep[p].table,
         \A q \in Setup!Saved(data') : /\ q \in Setup!Saved(data) /\ prep'[q] = Setup!NoPrep
                                       /\ data'.inst[q].slot = data.inst[q].slot
                                       /\ data'.inst[q].pair = data.inst[q].pair,
         ~broken => /\ router.rules = RulesOf(data')
                    /\ RulesOf(data') # {} => router.route
                    /\ ~dirty' => disk = data'
  PROVE  SetupInv'
<1>1. op'.kind = "idle" /\ op'.lines = <<>>
  BY DEF Setup!Idle
<1>2. Setup!TypeOK'
  <2>1. op' \in [kind : {"idle", "sample", "tables", "install", "run", "delete", "restore"},
                 plan : Plans \cup {Setup!Nobody}, lines : Seq(Setup!Lines), was : BOOLEAN]
    BY EmptySeq DEF Setup!Idle
  <2>2. QED
    BY <2>1 DEF SetupInv, Setup!TypeOK
<1>3. Setup!Saved(data)' = Setup!Saved(data')
  BY DEF Setup!Saved
<1>4. Setup!SlotsAreExclusive'
  <2>1. Setup!SlotsAreExclusive
    BY DEF SetupInv
  <2>2. \A a, b \in Setup!Saved(data') :
          a # b => /\ data'.inst[a].slot # data'.inst[b].slot
                   /\ data'.inst[a].pair # data'.inst[b].pair
    BY <2>1 DEF Setup!SlotsAreExclusive
  <2>3. \A a, b \in Setup!Saved(disk') :
          a # b => /\ disk'.inst[a].slot # disk'.inst[b].slot
                   /\ disk'.inst[a].pair # disk'.inst[b].pair
    BY <2>1 DEF Setup!SlotsAreExclusive, Setup!Saved
  <2>4. \A a \in Setup!Reserved' :
          /\ a \in Setup!Reserved /\ prep'[a].pair = prep[a].pair
          /\ prep'[a].slot = prep[a].slot /\ prep'[a].table = prep[a].table
    BY ThereOrNot DEF Setup!Reserved
  <2>5. \A a, b \in Setup!Reserved' : a # b => ~Setup!Overlaps(a, b)'
    BY <2>1, <2>4 DEF Setup!SlotsAreExclusive, Setup!Overlaps
  <2>6. QED
    BY <1>3, <2>2, <2>3, <2>5 DEF Setup!SlotsAreExclusive, Setup!Saved
<1>5. Setup!TablesAreUnique'
  BY DEF SetupInv, Setup!TablesAreUnique, Setup!NoTable
<1>6. OpFits'
  BY <1>1 DEF OpFits
<1>7. PrepFits'
  <2>1. \A p \in Plans : prep'[p].stage = "tables" =>
          /\ prep'[p].table # Setup!NoTable
          /\ \A c \in Pairs : c # prep'[p].pair => router'.table[c] # prep'[p].table
    BY ThereOrNot DEF SetupInv, PrepFits
  <2>2. QED
    BY <1>1, <1>3, <2>1 DEF PrepFits, Setup!NoPrep, Setup!NoTable
<1>8. ModelFits'
  <2>1. \A p \in Plans : prep'[p].stage \in {"tables", "install"} => model # <<>>
    BY ThereOrNot DEF SetupInv, ModelFits
  <2>2. QED
    BY <1>1, <2>1 DEF ModelFits
<1>9. StoreFits'
  BY DEF StoreFits
<1>10. ASSUME ~broken PROVE ScriptFits' /\ RouterFits'
  <2>1. Due' = RulesOf(data')
    BY <1>1, <1>3 DEF Due, Installing, RulesOf, Setup!Rule
  <2>2. ScriptFits'
    BY <1>1 DEF ScriptFits, FlushIsMended, DelIsMended, GuardsAre
  <2>3. RouterFits'
    BY <1>1, <1>10, <2>1 DEF RouterFits
  <2>4. QED
    BY <2>2, <2>3
<1>11. QED
  BY <1>2, <1>4, <1>5, <1>6, <1>7, <1>8, <1>9, <1>10 DEF SetupInv

\* What the router has when there is nothing left to do.
LEMMA NothingLeft ==
  ASSUME SetupInv, ~broken, \A i \in DOMAIN op.lines : op.lines[i].do \notin {"guard", "route"}
  PROVE  /\ router.rules \subseteq Due /\ (Due # {} => router.route)
         /\ \A r \in Due : r \in router.rules
                           \/ (op.kind = "delete" /\ r.at = data.inst[op.plan].slot)
BY DEF SetupInv, RouterFits, Adds, LaysRoute

\* The engine remembers the table it has written.
LEMMA RememberTableStep ==
  ASSUME SetupInv, Setup!RememberTable
  PROVE  SetupInv'
<1> DEFINE mine == prep[op.plan]
<1>1. /\ op.kind = "tables" /\ op.lines = <<[do |-> "extra"]>>
      /\ data' = [data EXCEPT !.extra[mine.pair] = mine.table] /\ dirty' = TRUE
      /\ prep' = [prep EXCEPT ![op.plan].stage = "install"] /\ op' = Setup!Idle
      /\ UNCHANGED <<router, sample, model, disk, broken>>
  BY DEF Setup!RememberTable, Setup!counts
<1>2. op.plan \in Plans /\ mine.stage = "tables"
  BY <1>1 DEF SetupInv, PrepFits
<1>3. /\ mine \in Setup!Preps /\ mine # Setup!NoPrep /\ mine.pair \in Pairs
      /\ mine.table \in Tables \cup {Setup!NoTable} /\ op.plan \in Setup!Reserved
  BY <1>2, PrepsAre DEF SetupInv, Setup!Reserved
<1>4. data \in Setup!Stores /\ prep \in [Plans -> Setup!Preps \cup {Setup!NoPrep}]
  BY DEF SetupInv, Setup!TypeOK
<1>5. data' \in Setup!Stores /\ data'.inst = data.inst
  <2> DEFINE e == [data.extra EXCEPT ![mine.pair] = mine.table]
  <2>1. e \in [Pairs -> Tables \cup {Setup!NoTable}]
    BY <1>3, <1>4 DEF Setup!Stores
  <2>2. data' = [data EXCEPT !.extra = e]
    BY <1>1
  <2> HIDE DEF e
  <2>3. QED
    BY <1>4, <2>1, <2>2 DEF Setup!Stores
<1> DEFINE r == [mine EXCEPT !.stage = "install"]
<1>6. /\ r \in Setup!Preps /\ r.stage = "install" /\ r.pair = mine.pair /\ r.slot = mine.slot
      /\ r.table = mine.table
  BY <1>3 DEF Setup!Preps
<1>7. prep' = [prep EXCEPT ![op.plan] = r]
  BY <1>1
<1> HIDE DEF r
<1>8. /\ prep' \in [Plans -> Setup!Preps \cup {Setup!NoPrep}]
      /\ prep'[op.plan] = r /\ \A p \in Plans : p # op.plan => prep'[p] = prep[p]
  BY <1>2, <1>4, <1>6, <1>7
<1>9. model # <<>>
  BY <1>2 DEF SetupInv, ModelFits
<1>10. /\ Setup!Saved(data') = Setup!Saved(data)
       /\ \A q \in Setup!Saved(data) : prep[q] = Setup!NoPrep /\ q # op.plan
  BY <1>1, <1>3, <1>5 DEF SetupInv, PrepFits, Setup!Saved
<1>11. \A q \in Setup!Saved(data') : prep'[q] = Setup!NoPrep
  BY <1>8, <1>10 DEF Setup!Saved
<1>12. ASSUME ~broken
       PROVE  router.rules = RulesOf(data') /\ (RulesOf(data') # {} => router.route)
  <2>1. RulesOf(data') = RulesOf(data)
    BY <1>5, <1>10 DEF RulesOf
  <2>2. Due = RulesOf(data)
    BY <1>1 DEF Due, Installing, RulesOf
  <2>3. \A i \in DOMAIN op.lines : op.lines[i].do \notin {"guard", "route"}
    BY <1>1
  <2>4. QED
    BY <1>1, <1>12, <2>1, <2>2, <2>3, NothingLeft
<1>13. QED
  BY <1>1, <1>3, <1>5, <1>6, <1>8, <1>9, <1>10, <1>11, <1>12, Ends

\* The operation is over.
LEMMA FinishStep ==
  ASSUME SetupInv, Setup!Finish
  PROVE  SetupInv'
<1>1. /\ op.kind # "idle" /\ op.lines = <<>> /\ op' = Setup!Idle
      /\ UNCHANGED <<router, sample, model, disk, broken>>
  BY DEF Setup!Finish, Setup!counts
<1>2. OpFits /\ PrepFits /\ StoreFits
  BY DEF SetupInv
<1>3. /\ op.kind \in {"sample", "install", "run", "delete", "restore"} /\ op.was \in BOOLEAN
      /\ data \in Setup!Stores /\ dirty \in BOOLEAN
      /\ prep \in [Plans -> Setup!Preps \cup {Setup!NoPrep}]
  <2>1. op.kind # "tables"
    BY <1>1, <1>2 DEF OpFits
  <2>2. QED
    BY <1>1, <2>1 DEF SetupInv, Setup!TypeOK
<1>4. ~broken => /\ router.rules \subseteq Due /\ (Due # {} => router.route)
                 /\ \A r \in Due : r \in router.rules
                                   \/ (op.kind = "delete" /\ r.at = data.inst[op.plan].slot)
  <2>1. \A i \in DOMAIN op.lines : op.lines[i].do \notin {"guard", "route"}
    BY <1>1
  <2>2. QED
    BY <2>1, NothingLeft
<1>5. op.kind # "install" => Due = RulesOf(data)
  BY DEF Due, Installing, RulesOf
<1>6. CASE op.kind = "install"
  <2>1. prep' = [prep EXCEPT ![op.plan] = Setup!NoPrep] /\ UNCHANGED <<data, dirty>>
    BY <1>6 DEF Setup!Finish
  <2>2. op.plan \in Setup!Saved(data) /\ Setup!Rule(data.inst[op.plan]) = Own
    BY <1>1, <1>2, <1>6 DEF OpFits, EndsWith
  <2>3. Due = RulesOf(data)
    BY <2>2 DEF Due, RulesOf, Installing, Own
  <2>4. /\ prep' \in [Plans -> Setup!Preps \cup {Setup!NoPrep}]
        /\ \A p \in Plans : prep'[p] = Setup!NoPrep \/ prep'[p] = prep[p]
        /\ \A q \in Setup!Saved(data) : prep'[q] = Setup!NoPrep
    BY <1>2, <1>3, <2>1 DEF PrepFits, Setup!Saved
  <2>5. ~broken /\ ~dirty => disk = data
    BY <1>2, <1>6 DEF StoreFits
  <2>6. ~broken => router.rules = RulesOf(data) /\ (RulesOf(data) # {} => router.route)
    BY <1>4, <1>6, <2>3
  <2>7. QED
    BY <1>1, <1>3, <2>1, <2>4, <2>5, <2>6, Ends
<1>7. ASSUME op.kind # "install" PROVE \A q \in Setup!Saved(data) : prep[q] = Setup!NoPrep
  BY <1>2, <1>7 DEF PrepFits
<1>8. CASE op.kind = "run"
  <2>1. dirty' = TRUE /\ UNCHANGED <<data, prep>>
    BY <1>8 DEF Setup!Finish
  <2>2. ~broken => router.rules = RulesOf(data) /\ (RulesOf(data) # {} => router.route)
    BY <1>4, <1>5, <1>8
  <2>3. QED
    BY <1>1, <1>3, <1>7, <1>8, <2>1, <2>2, Ends
<1>9. CASE op.kind = "sample"
  <2>1. UNCHANGED <<data, dirty, prep>>
    BY <1>9 DEF Setup!Finish
  <2>2. ~broken => router.rules = RulesOf(data) /\ (RulesOf(data) # {} => router.route)
    BY <1>4, <1>5, <1>9
  <2>3. ~broken /\ ~dirty => disk = data
    BY <1>2, <1>9 DEF StoreFits
  <2>4. QED
    BY <1>1, <1>3, <1>7, <1>9, <2>1, <2>2, <2>3, Ends
<1>10. CASE op.kind = "restore"
  <2>1. data' = [data EXCEPT !.inst[op.plan].running = op.was] /\ UNCHANGED <<dirty, prep>>
    BY <1>10 DEF Setup!Finish
  <2>2. op.plan \in Setup!Saved(data) /\ broken
    BY <1>2, <1>10 DEF OpFits
  <2>3. data' \in Setup!Stores /\ SameRules(data', data)
    BY <1>3, <2>1, <2>2, RunningIs
  <2>4. \A q \in Setup!Saved(data') : /\ q \in Setup!Saved(data) /\ prep'[q] = Setup!NoPrep
                                      /\ data'.inst[q].slot = data.inst[q].slot
                                      /\ data'.inst[q].pair = data.inst[q].pair
    BY <1>7, <1>10, <2>1, <2>3 DEF SameRules
  <2>5. QED
    BY <1>1, <1>3, <2>1, <2>2, <2>3, <2>4, Ends
<1>11. CASE op.kind = "delete"
  <2>1. /\ data' = [data EXCEPT !.inst[op.plan] = Setup!Absent] /\ dirty' = TRUE
        /\ UNCHANGED prep
    BY <1>11 DEF Setup!Finish
  <2>2. op.plan \in Setup!Saved(data) /\ op.plan \in Plans
    BY <1>2, <1>11 DEF OpFits, Setup!Saved
  <2> DEFINE e == [data.inst EXCEPT ![op.plan] = Setup!Absent]
  <2>3. /\ e \in [Plans -> Setup!Instances \cup {Setup!Absent}]
        /\ e[op.plan] = Setup!Absent /\ \A q \in Plans : q # op.plan => e[q] = data.inst[q]
    BY <1>3, <2>2 DEF Setup!Stores
  <2>4. data' = [data EXCEPT !.inst = e]
    BY <2>1
  <2> HIDE DEF e
  <2>5. data' \in Setup!Stores /\ data'.inst = e
    BY <1>3, <2>3, <2>4 DEF Setup!Stores
  <2>6. /\ Setup!Saved(data') = Setup!Saved(data) \ {op.plan}
        /\ \A q \in Setup!Saved(data') : data'.inst[q] = data.inst[q]
    BY <2>2, <2>3, <2>5 DEF Setup!Saved
  <2>7. ASSUME ~broken
        PROVE  router.rules = RulesOf(data') /\ (RulesOf(data') # {} => router.route)
    <3>1. /\ router.rules \subseteq RulesOf(data) /\ (RulesOf(data) # {} => router.route)
          /\ \A r \in RulesOf(data) : r \in router.rules \/ r.at = data.inst[op.plan].slot
      BY <1>4, <1>5, <1>11, <2>7
    <3>2. \A r \in router.rules : r.at # data.inst[op.plan].slot
      BY <1>1, <1>11, <2>7 DEF SetupInv, RouterFits, EndsWith
    <3>3. \A q \in Setup!Saved(data) : Setup!Rule(data.inst[q]).at = data.inst[q].slot
      BY <1>3, SavedAre
    <3>4. \A q \in Setup!Saved(data) :
            q # op.plan => data.inst[q].slot # data.inst[op.plan].slot
      BY <2>2 DEF SetupInv, Setup!SlotsAreExclusive
    <3>5. RulesOf(data') \subseteq RulesOf(data)
      BY <2>6 DEF RulesOf
    <3>6. \A r \in RulesOf(data') : r.at # data.inst[op.plan].slot
      BY <2>6, <3>3, <3>4 DEF RulesOf
    <3>7. \A r \in RulesOf(data) : r.at # data.inst[op.plan].slot => r \in RulesOf(data')
      BY <2>6, <3>3 DEF RulesOf
    <3>8. QED
      BY <3>1, <3>2, <3>5, <3>6, <3>7
  <2>8. \A q \in Setup!Saved(data') : /\ q \in Setup!Saved(data) /\ prep'[q] = Setup!NoPrep
                                      /\ data'.inst[q].slot = data.inst[q].slot
                                      /\ data'.inst[q].pair = data.inst[q].pair
    BY <1>7, <1>11, <2>1, <2>6
  <2>9. QED
    BY <1>1, <1>3, <2>1, <2>5, <2>7, <2>8, Ends
<1>12. QED
  BY <1>3, <1>6, <1>8, <1>9, <1>10, <1>11

\* The catch-all stands, and the instance is stored.
LEMMA SaveInstanceStep ==
  ASSUME SetupInv, Setup!SaveInstance
  PROVE  SetupInv'
<1> DEFINE mine == prep[op.plan]
           rules == {r \in model[1] : r.at # mine.slot} \cup {Setup!Rule(mine)}
           i == [pair |-> mine.pair, slot |-> mine.slot, running |-> TRUE]
<1>1. /\ op.kind = "install" /\ op.lines = <<[do |-> "save"]>> /\ model' = <<rules>>
      /\ data' = [data EXCEPT !.inst[op.plan] = i] /\ dirty' = TRUE
      /\ UNCHANGED <<router, sample, disk, prep, broken>>
  BY DEF Setup!SaveInstance, Setup!counts
<1>2. PICK lines \in Setup!Reconcile(rules, data', FALSE) : op' = [op EXCEPT !.lines = lines]
  BY DEF Setup!SaveInstance
<1>3. OpFits /\ PrepFits /\ ModelFits
  BY DEF SetupInv
<1>4. op.plan \in Plans /\ mine.stage = "install"
  BY <1>1, <1>3 DEF PrepFits
<1>5. /\ mine \in Setup!Preps /\ mine.pair \in Pairs /\ mine.slot \in Slots
      /\ Setup!Rule(mine) \in Setup!At /\ Setup!Rule(mine).at = mine.slot
  BY <1>4, PrepsAre DEF SetupInv
<1>6. /\ data \in Setup!Stores /\ model \in Setup!Models
      /\ op \in [kind : {"idle", "sample", "tables", "install", "run", "delete", "restore"},
                 plan : Plans \cup {Setup!Nobody}, lines : Seq(Setup!Lines), was : BOOLEAN]
  BY DEF SetupInv, Setup!TypeOK
<1>7. rules \in SUBSET Setup!At
  <2>1. model # <<>>
    BY <1>3, <1>4 DEF ModelFits
  <2>2. model[1] \in SUBSET Setup!At
    BY <1>6, <2>1, ModelIs
  <2>3. QED
    BY <1>5, <2>2
<1> HIDE DEF rules
<1>8. model' \in Setup!Models /\ model' # <<>>
  BY <1>1, <1>7, ModelOf
<1>9. i \in Setup!Instances /\ i # Setup!Absent /\ i.slot = mine.slot /\ i.pair = mine.pair
      /\ Setup!Rule(i) = Setup!Rule(mine)
  <2>1. i \in Setup!Instances /\ i.slot = mine.slot /\ i.pair = mine.pair
    BY <1>5 DEF Setup!Instances
  <2>2. QED
    BY <2>1, ThereOrNot DEF Setup!Rule
<1> DEFINE e == [data.inst EXCEPT ![op.plan] = i]
<1> HIDE DEF i
<1>10. /\ e \in [Plans -> Setup!Instances \cup {Setup!Absent}]
       /\ e[op.plan] = i /\ \A q \in Plans : q # op.plan => e[q] = data.inst[q]
  BY <1>4, <1>6, <1>9 DEF Setup!Stores
<1>11. data' = [data EXCEPT !.inst = e]
  BY <1>1
<1> HIDE DEF e
<1>12. data' \in Setup!Stores /\ data'.inst = e
  BY <1>6, <1>10, <1>11 DEF Setup!Stores
<1>13. /\ Setup!Saved(data)' = Setup!Saved(data') /\ RulesOf(data)' = RulesOf(data')
       /\ Setup!Saved(data') = Setup!Saved(data) \cup {op.plan}
  <2>1. Setup!Saved(data') = Setup!Saved(data) \cup {op.plan}
    BY <1>4, <1>9, <1>10, <1>12 DEF Setup!Saved
  <2>2. QED
    BY <2>1 DEF Setup!Saved, RulesOf, Setup!Rule
<1>14. /\ data'.inst[op.plan] = i
       /\ \A q \in Setup!Saved(data) : q # op.plan => data'.inst[q] = data.inst[q]
  BY <1>10, <1>12 DEF Setup!Saved
<1>15. \A q \in Setup!Saved(data) : q # op.plan => /\ data.inst[q].slot # mine.slot
                                                   /\ data.inst[q].pair # mine.pair
  BY <1>1, <1>3 DEF OpFits
<1>16. /\ lines \in Seq(Setup!Lines)
       /\ FlushIsMended(lines) /\ DelIsMended(lines) /\ GuardsAre(lines, RulesOf(data'))
       /\ \A k \in DOMAIN lines : lines[k].do \in Reconciles
  BY <1>7, <1>12, ReconcileIs
<1>17. op'.kind = "install" /\ op'.plan = op.plan /\ op'.lines = lines
  BY <1>1, <1>2, <1>6
<1>18. Setup!TypeOK'
  <2>1. op' \in [kind : {"idle", "sample", "tables", "install", "run", "delete", "restore"},
                 plan : Plans \cup {Setup!Nobody}, lines : Seq(Setup!Lines), was : BOOLEAN]
    BY <1>2, <1>6, <1>16
  <2>2. QED
    BY <1>1, <1>8, <1>12, <2>1 DEF SetupInv, Setup!TypeOK
<1>19. Setup!SlotsAreExclusive'
  <2>1. Setup!SlotsAreExclusive
    BY DEF SetupInv
  <2>2. \A a, b \in Setup!Saved(data') :
          a # b => /\ data'.inst[a].slot # data'.inst[b].slot
                   /\ data'.inst[a].pair # data'.inst[b].pair
    BY <1>9, <1>13, <1>14, <1>15, <2>1 DEF Setup!SlotsAreExclusive
  <2>3. \A a, b \in Setup!Saved(disk)' :
          a # b => /\ disk'.inst[a].slot # disk'.inst[b].slot
                   /\ disk'.inst[a].pair # disk'.inst[b].pair
    BY <1>1, <2>1 DEF Setup!SlotsAreExclusive, Setup!Saved
  <2>4. \A a, b \in Setup!Reserved' : a # b => ~Setup!Overlaps(a, b)'
    BY <1>1, <2>1 DEF Setup!SlotsAreExclusive, Setup!Overlaps, Setup!Reserved
  <2>5. QED
    BY <1>13, <2>2, <2>3, <2>4 DEF Setup!SlotsAreExclusive, Setup!Saved
<1>20. Setup!TablesAreUnique'
  BY <1>1 DEF SetupInv, Setup!TablesAreUnique, Setup!NoTable
<1>21. Own' = Setup!Rule(mine) /\ Own = Setup!Rule(mine)
  BY <1>1, <1>17 DEF Own, Setup!Rule
<1>22. OpFits'
  <2>1. \A q \in Setup!Saved(data)' : q # op'.plan =>
          data'.inst[q].slot # prep'[op'.plan].slot /\ data'.inst[q].pair # prep'[op'.plan].pair
    BY <1>1, <1>13, <1>14, <1>15, <1>17
  <2>2. op'.plan \in Setup!Saved(data)' /\ Setup!Rule(data'.inst[op'.plan]) = Own'
    BY <1>9, <1>13, <1>14, <1>17, <1>21
  <2>3. Setup!Rule(data.inst[op.plan])' = Setup!Rule(data'.inst[op'.plan])
    BY DEF Setup!Rule
  <2>4. \A k \in DOMAIN lines : LineFits("install", lines[k].do)
    BY <1>16 DEF LineFits, Reconciles
  <2>5. QED
    BY <1>17, <2>1, <2>2, <2>3, <2>4 DEF OpFits, LineFits
<1>23. PrepFits'
  <2>1. \A q \in Setup!Saved(data') : prep[q] = Setup!NoPrep \/ op.plan = q
    BY <1>3, <1>13 DEF PrepFits
  <2>2. QED
    BY <1>1, <1>3, <1>4, <1>13, <1>17, <2>1 DEF PrepFits, Setup!NoPrep, Setup!NoTable
<1>24. ModelFits' /\ StoreFits'
  BY <1>1, <1>8 DEF ModelFits, StoreFits
<1>25. ASSUME ~broken PROVE ScriptFits' /\ RouterFits'
  <2>1. router.rules = Due /\ (Due # {} => router.route)
    <3>1. \A k \in DOMAIN op.lines : op.lines[k].do \notin {"guard", "route"}
      BY <1>1
    <3>2. QED
      BY <1>1, <1>25, <3>1, NothingLeft
  <2>2. Installing = {op.plan} /\ Installing' = {op.plan}
    BY <1>1, <1>4, <1>17 DEF Installing
  <2>3. Due = RulesOf(data) \cup {Own} /\ Due' = RulesOf(data') \cup {Own}
    BY <1>1, <1>13, <1>17, <1>21, <2>2 DEF Due, RulesOf, Own, Setup!Rule
  <2>4. Own \in RulesOf(data')
    BY <1>9, <1>13, <1>14, <1>21 DEF RulesOf
  <2>5. RulesOf(data') \subseteq RulesOf(data) \cup {Own}
    BY <1>9, <1>13, <1>14, <1>21 DEF RulesOf
  <2>6. RulesOf(data) \subseteq RulesOf(data')
    <3> SUFFICES ASSUME NEW q \in Setup!Saved(data)
                 PROVE  Setup!Rule(data.inst[q]) \in RulesOf(data')
      BY DEF RulesOf
    <3>1. CASE q # op.plan
      BY <1>13, <1>14, <3>1 DEF RulesOf
    <3>2. CASE q = op.plan
      BY <1>1, <1>3, <2>4, <3>2 DEF OpFits
    <3>3. QED
      BY <3>1, <3>2
  <2>7. Due' = Due /\ Due = RulesOf(data')
    BY <2>3, <2>4, <2>5, <2>6
  <2>8. ScriptFits'
    <3>1. FlushIsMended(op.lines)' /\ DelIsMended(op.lines)'
      BY <1>16, <1>17 DEF FlushIsMended, DelIsMended
    <3>2. GuardsAre(op.lines, Due)'
      BY <1>16, <1>17, <2>7 DEF GuardsAre
    <3>3. ClearIsMended(op.lines, Own)'
      BY <1>16, <1>17 DEF ClearIsMended, Reconciles
    <3>4. QED
      BY <1>17, <3>1, <3>2, <3>3 DEF ScriptFits
  <2>9. RouterFits'
    BY <1>1, <1>17, <2>1, <2>7 DEF RouterFits
  <2>10. QED
    BY <2>8, <2>9
<1>26. QED
  BY <1>1, <1>18, <1>19, <1>20, <1>22, <1>23, <1>24, <1>25 DEF SetupInv

-----------------------------------------------------------------------------
(***************************************************************************)
(* The theorem.                                                            *)
(***************************************************************************)

\* The invariant holds at first.
LEMMA SetupInit == AllInit => SetupInv
<1> SUFFICES ASSUME Setup!Init PROVE SetupInv
  BY DEF AllInit
<1> USE DEF Setup!Init
<1>1. /\ op.kind = "idle" /\ op.lines = <<>>
      /\ op \in [kind : {"idle", "sample", "tables", "install", "run", "delete", "restore"},
                 plan : Plans \cup {Setup!Nobody}, lines : Seq(Setup!Lines), was : BOOLEAN]
  BY EmptySeq DEF Setup!Idle
<1>2. data \in Setup!Stores /\ Setup!Saved(data) = {} /\ disk = data
  BY DEF Setup!Stores, Setup!Saved
<1>3. \A p \in Plans : prep[p] = Setup!NoPrep /\ prep[p].stage = "none"
  BY ThereOrNot
<1>4. Setup!TypeOK
  BY <1>1, <1>2 DEF Setup!TypeOK, Setup!Models
<1>5. Setup!SlotsAreExclusive
  BY <1>2, <1>3 DEF Setup!SlotsAreExclusive, Setup!Reserved
<1>6. Setup!TablesAreUnique
  BY DEF Setup!TablesAreUnique
<1>7. OpFits /\ PrepFits /\ ModelFits /\ StoreFits
  BY <1>1, <1>2, <1>3 DEF OpFits, PrepFits, ModelFits, StoreFits
<1>8. ScriptFits
  BY <1>1 DEF ScriptFits, FlushIsMended, DelIsMended, GuardsAre
<1>9. RouterFits
  <2>1. Due = {}
    BY <1>1, <1>2 DEF Due, Installing
  <2>2. QED
    BY <1>1, <2>1 DEF RouterFits
<1>10. QED
  BY <1>4, <1>5, <1>6, <1>7, <1>8, <1>9 DEF SetupInv

\* Every step keeps it.
LEMMA SetupStep ==
  ASSUME SetupInv, [Setup!Next]_(Setup!vars)
  PROVE  SetupInv'
<1>1. CASE UNCHANGED Setup!vars
  <2>1. UNCHANGED <<router, sample, model, data, disk, dirty, prep, op, broken>>
    BY <1>1 DEF Setup!vars
  <2>2. Setup!TypeOK'
    BY <2>1 DEF SetupInv, Setup!TypeOK
  <2>3. Setup!SlotsAreExclusive' /\ Setup!TablesAreUnique'
    BY <2>1 DEF SetupInv, Setup!SlotsAreExclusive, Setup!Saved, Setup!Reserved, Setup!Overlaps,
                Setup!TablesAreUnique, Setup!NoTable
  <2>4. OpFits'
    BY <2>1 DEF SetupInv, OpFits, Setup!Saved, Own, Setup!Rule, EndsWith, LineFits
  <2>5. PrepFits' /\ ModelFits' /\ StoreFits'
    BY <2>1
    DEF SetupInv, PrepFits, ModelFits, StoreFits, Setup!Saved, Setup!NoPrep, Setup!NoTable
  <2>6. ~broken' => ScriptFits' /\ RouterFits'
    BY <2>1, ScriptStands DEF SetupInv
  <2>7. QED
    BY <2>2, <2>3, <2>4, <2>5, <2>6 DEF SetupInv
<1>2. CASE \E p \in Plans :
             \/ \E c \in Pairs : Setup!Check(p, c)
             \/ Setup!Apply(p) \/ Setup!Drop(p) \/ Setup!Revalidate(p) \/ Setup!PrepareTable(p)
             \/ Setup!Install(p) \/ Setup!Delete(p)
             \/ \E run \in BOOLEAN : Setup!SetRunning(p, run)
  BY <1>2, CheckStep, ApplyStep, DropStep, RevalidateStep, PrepareTableStep, InstallStep,
     DeleteStep, SetRunningStep
<1>3. CASE Setup!Works
  BY <1>3, LineStep, RememberTableStep, SaveInstanceStep, ReconciledStep, FinishStep
  DEF Setup!Works
<1>4. CASE \/ Setup!Sweep \/ Setup!TakeSample \/ Setup!Break \/ Setup!Flush \/ Setup!Reboot
           \/ \E disposed \in BOOLEAN : Setup!Restart(disposed)
  BY <1>4, SweepStep, TakeSampleStep, BreakStep, FlushStep, RebootStep, RestartStep
<1>5. QED
  BY <1>1, <1>2, <1>3, <1>4 DEF Setup!Next

\* Instances never share a slot or interfaces, WANs never a routing table, and as long as
\* nothing has failed the router has the catch-all rules of what is stored: for any plans,
\* interfaces, slots and tables, and any number of forms, actions, failures and restarts
\* (binding.ts, store.ts).
THEOREM PreparationsStayAgreed == AllSpec => []PreparationsAgree
<1>1. AllInit => SetupInv
  BY SetupInit
<1>2. SetupInv /\ [AllNext]_<<part, vars, setupVars>> => SetupInv'
  <2> SUFFICES ASSUME SetupInv, [AllNext]_<<part, vars, setupVars>> PROVE SetupInv'
    OBVIOUS
  <2>1. [Setup!Next]_(Setup!vars)
    BY DEF AllNext, setupVars, Setup!vars, Setup!bounds
  <2>2. QED
    BY <2>1, SetupStep
<1>3. SetupInv => PreparationsAgree
  <2> SUFFICES ASSUME SetupInv PROVE Setup!AsStored
    BY DEF SetupInv, PreparationsAgree, Setup!PreparationsAgree
  <2> SUFFICES ASSUME op.kind = "idle", ~broken
               PROVE  /\ router.rules = RulesOf(data)
                      /\ Setup!Saved(data) # {} => router.route
    BY DEF Setup!AsStored, RulesOf
  <2>1. op.lines = <<>>
    BY DEF SetupInv, OpFits
  <2>2. \A i \in DOMAIN op.lines : op.lines[i].do \notin {"guard", "route"}
    BY <2>1
  <2>3. Due = RulesOf(data)
    BY DEF Due, Installing, RulesOf
  <2>4. QED
    BY <2>2, <2>3, NothingLeft DEF RulesOf
<1>4. QED
  BY <1>1, <1>2, <1>3, PTL DEF AllSpec
=============================================================================
