------------------------------ MODULE Updater -------------------------------
(***************************************************************************)
(* UpdaterService (server/services/updater.ts): an archive is downloaded   *)
(* or uploaded into a private workspace, unpacked, validated and digested, *)
(* and apply() hands the staged tree to a helper outside the process.      *)
(*                                                                         *)
(* Requests hold the "update" lock (ipc.ts), so that no two of them        *)
(* overlap.  The clean close calls cancel() without it.  Any file          *)
(* operation may fail.  Workspaces are numbered in the order of creation.  *)
(***************************************************************************)
EXTENDS Naturals

CONSTANTS
  MaxWorkspaces   \* bound on the workspaces created

Workspaces == 1..MaxWorkspaces
None == 0

VARIABLES
  phase,      \* UpdateState.phase, with the stages before "ready" as one
  operation,  \* the stage that the check under way awaits
  aborted,    \* that check was cancelled
  workspace,  \* this.workspace
  made,       \* number of workspaces created so far
  disk,       \* workspaces on disk
  staged,     \* this.stagedRoot, by its workspace
  digest,     \* this.stagedDigest, by its workspace
  altered,    \* workspaces whose tree differs from the digest
  applying,   \* the stage of apply()
  helper,     \* workspace that the helper was launched on
  close       \* the cancel() of the clean close

vars == <<phase, operation, aborted, workspace, made, disk, staged, digest, altered, applying,
          helper, close>>

TypeOK ==
  /\ phase \in {"idle", "checking", "ready", "error", "applying"}
  /\ operation \in {"none", "downloading", "verifying", "extracting", "digesting"}
  /\ aborted \in BOOLEAN
  /\ workspace \in Workspaces \cup {None} /\ made \in 0..MaxWorkspaces
  /\ disk \subseteq Workspaces /\ altered \subseteq Workspaces
  /\ staged \in Workspaces \cup {None} /\ digest \in Workspaces \cup {None}
  /\ applying \in {"none", "digesting", "launching"}
  /\ helper \in Workspaces \cup {None}
  /\ close \in {"none", "forced", "waiting", "done"}

Init ==
  /\ phase = "idle" /\ operation = "none" /\ aborted = FALSE
  /\ workspace = None /\ made = 0 /\ disk = {}
  /\ staged = None /\ digest = None /\ altered = {}
  /\ applying = "none" /\ helper = None /\ close = "none"

\* No request holds the lock.
Free == operation = "none" /\ applying = "none"

-----------------------------------------------------------------------------
(***************************************************************************)
(* Mutants: plausible mistakes in the code, not part of the specification. *)
(***************************************************************************)

\* Cancel: an update that is being applied is cancelled like any other.
CancelAlways ==
  /\ Free /\ workspace # None
  /\ disk' = disk \ {workspace} /\ workspace' = None /\ staged' = None /\ digest' = None
  /\ phase' = "idle"
  /\ UNCHANGED <<operation, aborted, made, altered, applying, helper, close>>

-----------------------------------------------------------------------------
(***************************************************************************)
(* The workspace.                                                          *)
(***************************************************************************)

\* discardWorkspace()
Discard ==
  /\ disk' = disk \ {workspace}
  /\ workspace' = None /\ staged' = None /\ digest' = None

Keep == UNCHANGED <<disk, workspace, staged, digest>>

\* discardWorkspaceQuietly(): the tree may resist.
DiscardQuietly == Discard \/ (workspace # None /\ Keep)

-----------------------------------------------------------------------------
(***************************************************************************)
(* check() and checkFile().                                                *)
(***************************************************************************)

\* A new workspace replaces the one before, and what was staged in it.
Begin(stage) ==
  /\ Free /\ phase # "applying" /\ made < MaxWorkspaces
  /\ made' = made + 1 /\ workspace' = made' /\ disk' = (disk \ {workspace}) \cup {made'}
  /\ staged' = None /\ digest' = None
  /\ operation' = stage /\ aborted' = FALSE /\ phase' = "checking"
  /\ UNCHANGED <<altered, applying, helper, close>>

Check == Begin("downloading")

CheckFile == Begin("extracting")

\* The old workspace cannot be removed, or the new one not made or filled, or
\* the address or the upload is refused before either.
CannotBegin ==
  /\ Free /\ phase # "applying"
  /\ Discard \/ Keep
  /\ phase' = "error"
  /\ UNCHANGED <<operation, aborted, made, altered, applying, helper, close>>

NextStage(stage) ==
  CASE stage = "downloading" -> "verifying"
    [] stage = "verifying" -> "extracting"
    [] stage = "extracting" -> "digesting"

\* An await returns and the check is still the current one.
Advance ==
  /\ operation \in {"downloading", "verifying", "extracting"} /\ ~aborted
  /\ operation' = NextStage(operation)
  /\ UNCHANGED <<phase, aborted, workspace, made, disk, staged, digest, altered, applying,
                 helper, close>>

\* The download, the checksum, the archive, the validation or the digest fails.
Failed ==
  /\ operation # "none" /\ ~aborted
  /\ operation' = "none" /\ phase' = "error"
  /\ DiscardQuietly
  /\ UNCHANGED <<aborted, made, altered, applying, helper, close>>

\* The tree is digested.
Ready ==
  /\ operation = "digesting" /\ ~aborted
  /\ operation' = "none" /\ phase' = "ready"
  /\ staged' = workspace /\ digest' = workspace
  /\ UNCHANGED <<aborted, workspace, made, disk, altered, applying, helper, close>>

\* Somebody changes the staged tree on disk.
Alter ==
  /\ digest # None /\ staged = digest /\ applying # "launching" /\ helper = None
  /\ altered' = altered \cup {staged}
  /\ UNCHANGED <<phase, operation, aborted, workspace, made, disk, staged, digest, applying,
                 helper, close>>

-----------------------------------------------------------------------------
(***************************************************************************)
(* cancel(), apply() and the clean close.                                  *)
(***************************************************************************)

\* What cancel() does once no check is under way.
CancelEnds ==
  \/ Discard /\ phase' = "idle"
  \/ /\ workspace # None
     /\ staged' = None /\ digest' = None /\ UNCHANGED <<disk, workspace>>
     /\ phase' = "error"

\* update:cancel.  The lock keeps it waiting for the check it should end.
Cancel ==
  /\ Free /\ phase # "applying"
  /\ CancelEnds
  /\ UNCHANGED <<operation, aborted, made, altered, applying, helper, close>>

\* apply(), up to its await of the second digest.
Apply ==
  /\ Free /\ phase = "ready" /\ staged # None /\ digest # None /\ workspace # None
  /\ applying' = "digesting"
  /\ UNCHANGED <<phase, operation, aborted, workspace, made, disk, staged, digest, altered,
                 helper, close>>

\* The digest is the one of the check, and the workspace, read again, takes a copy
\* of the helper.
Confirmed ==
  /\ applying = "digesting"
  /\ staged # None /\ staged \in disk \ altered /\ digest = staged /\ workspace # None
  /\ applying' = "launching"
  /\ UNCHANGED <<phase, operation, aborted, workspace, made, disk, staged, digest, altered,
                 helper, close>>

\* The tree changed or went, the helper cannot be copied or does not start.
NotApplied ==
  /\ applying # "none"
  /\ applying' = "none"
  /\ UNCHANGED <<phase, operation, aborted, workspace, made, disk, staged, digest, altered,
                 helper, close>>

\* The helper runs, on the tree that was named when it was launched: that of the
\* last workspace.
Launched ==
  /\ applying = "launching"
  /\ applying' = "none" /\ helper' = made /\ phase' = "applying"
  /\ UNCHANGED <<operation, aborted, workspace, made, disk, staged, digest, altered, close>>

\* stopNewWork calls cancel() and does not wait for it; "forced" stands for a
\* cancel() that overtakes apply().
CloseCancels ==
  /\ close = "none"
  /\ IF phase = "applying"
     THEN close' = "done" /\ UNCHANGED <<phase, aborted, workspace, disk, staged, digest>>
     ELSE IF operation # "none"
     THEN close' = "waiting" /\ aborted' = TRUE
          /\ UNCHANGED <<phase, workspace, disk, staged, digest>>
     ELSE /\ close' = IF applying # "none" THEN "forced" ELSE "done"
          /\ CancelEnds /\ UNCHANGED aborted
  /\ UNCHANGED <<operation, made, altered, applying, helper>>

\* A cancelled check finds out at its next await that it is, and the cancel() that
\* awaits it goes on at once.
Overtaken ==
  /\ operation # "none" /\ aborted
  /\ operation' = "none" /\ close' = "done"
  /\ CancelEnds
  /\ UNCHANGED <<aborted, made, altered, applying, helper>>

Next ==
  \/ Check \/ CheckFile \/ CannotBegin \/ Advance \/ Failed \/ Ready \/ Overtaken \/ Alter
  \/ Cancel \/ Apply \/ Confirmed \/ NotApplied \/ Launched
  \/ CloseCancels

Safety == Init /\ [][Next]_vars

\* Downloads, unpacking and digests end, by their timeouts if need be.
Fairness ==
  /\ WF_vars(Advance \/ Failed \/ Ready \/ Overtaken)
  /\ WF_vars(Confirmed \/ NotApplied \/ Launched)

Spec == Safety /\ Fairness

-----------------------------------------------------------------------------
(***************************************************************************)
(* Properties.                                                             *)
(***************************************************************************)

\* Whenever an update is offered for installation, its tree and its digest are
\* those of the workspace that exists, whatever failed or was cancelled before
\* (updater.ts:213-221).
ReadyIsWhole ==
  phase = "ready" => workspace \in disk /\ staged = workspace /\ digest = workspace

\* A helper got the tree whose digest was confirmed, and keeps its workspace as
\* long as it runs: only a clean close that overtook apply() may remove it.
HelperIsServed ==
  helper # None => helper \notin altered /\ (close # "forced" => helper \in disk)

\* A check that was cancelled is not offered (updater.ts:329-335).
CancelledIsQuiet == aborted /\ operation # "none" => phase # "ready" /\ staged = None

UpdateIsSound == ReadyIsWhole /\ HelperIsServed /\ CancelledIsQuiet

\* Nothing is under way: every check, every apply() and the cancel() of the clean
\* close comes to its end.
Settled == operation = "none" /\ applying = "none" /\ close # "waiting"

=============================================================================
