---------------------------- MODULE UpdateScript ----------------------------
(***************************************************************************)
(* scripts/update.sh: the helper that replaces the application's folder as *)
(* one transaction, with the old one as the backup, and puts it back when  *)
(* something fails.  Every command may fail and the machine may stop at    *)
(* any point.                                                              *)
(***************************************************************************)
EXTENDS Naturals, FiniteSets, Sequences

CONSTANTS
  Optional,    \* data that the script tries to carry over (user settings, accounts, ...)
  Custom       \* modules the user installed

Required == "connections"
Data == {Required} \cup Optional

VARIABLES
  pc,        \* the next step of the script
  running,   \* the version that runs: "old", "new" or "none"
  folder,    \* what the application's folder holds
  data,      \* data in the application's folder, when it is the new version's
  backup,    \* the backup folder exists
  carrying,  \* data the script has not come to yet
  restored,  \* custom modules copied into the new version
  apart,     \* custom modules in its modules-disabled
  tries,     \* builds so far
  result     \* update-result.json

vars == <<pc, running, folder, data, backup, carrying, restored, apart, tries, result>>

TypeOK ==
  /\ pc \in {"check", "stop", "wait", "move", "copy", "carry", "modules", "build", "quarantine",
             "remove", "done", "fail", "put back", "failed", "off"}
  /\ running \in {"old", "new", "none"}
  /\ folder \in {"old", "none", "new", "built", "nested"}
  /\ data \subseteq Data /\ carrying \subseteq Data
  /\ backup \in BOOLEAN
  /\ restored \subseteq Custom /\ apart \subseteq Custom
  /\ tries \in 0..2
  /\ result \in {"none", "ok", "failed"}

Init ==
  /\ pc = "check" /\ running = "old" /\ folder = "old"
  /\ data = {} /\ backup = FALSE /\ carrying = Data
  /\ restored = {} /\ apart = {} /\ tries = 0 /\ result = "none"

-----------------------------------------------------------------------------
(***************************************************************************)
(* Mutants: plausible mistakes in the code, not part of the specification. *)
(***************************************************************************)

\* Move: the installation is deleted instead of moved aside.
MoveAway ==
  /\ pc = "move" /\ pc' = "copy" /\ folder' = "none" /\ backup' = FALSE
  /\ UNCHANGED <<running, data, carrying, restored, apart, tries, result>>

-----------------------------------------------------------------------------
(***************************************************************************)
(* The steps.  A step that fails goes to "fail".                           *)
(***************************************************************************)

\* The safety checks: nothing has been touched, and the app still runs.
Check ==
  /\ pc = "check" /\ pc' \in {"stop", "fail"}
  /\ UNCHANGED <<running, folder, data, backup, carrying, restored, apart, tries, result>>

\* stop_running_app(); a kill -9 is its last resort for the app of the pid file.
Stop ==
  /\ pc = "stop" /\ pc' = "wait"
  /\ running' \in {"none", running}
  /\ UNCHANGED <<folder, data, backup, carrying, restored, apart, tries, result>>

\* The app with the given pid exits, or is still there after two minutes.
Wait ==
  /\ pc = "wait"
  /\ \/ pc' = "move" /\ running' = "none"
     \/ pc' = "fail" /\ running = "old" /\ UNCHANGED running
  /\ UNCHANGED <<folder, data, backup, carrying, restored, apart, tries, result>>

\* mv of the application's folder to the backup.
Move ==
  /\ pc = "move"
  /\ \/ pc' = "copy" /\ folder' = "none" /\ backup' = TRUE
     \/ pc' = "fail" /\ UNCHANGED <<folder, backup>>
  /\ UNCHANGED <<running, data, carrying, restored, apart, tries, result>>

Copy ==
  /\ pc = "copy" /\ pc' \in {"carry", "fail"}
  /\ folder' = "new"
  /\ UNCHANGED <<running, data, backup, carrying, restored, apart, tries, result>>

\* The connections have to be carried over; for anything else a warning will do.
Carry(d) ==
  /\ pc = "carry" /\ d \in carrying /\ (d # Required => Required \notin carrying)
  /\ carrying' = carrying \ {d}
  /\ \/ data' = data \cup {d} /\ pc' = IF carrying' = {} THEN "modules" ELSE "carry"
     \/ data' = data /\ pc' = IF d = Required THEN "fail"
                              ELSE IF carrying' = {} THEN "modules" ELSE "carry"
  /\ UNCHANGED <<running, folder, backup, restored, apart, tries, result>>

\* The modules that the new version does not ship, as far as they can be copied.
Modules ==
  /\ pc = "modules" /\ pc' = "build"
  /\ restored' \in SUBSET Custom
  /\ UNCHANGED <<running, folder, data, backup, carrying, apart, tries, result>>

\* install.sh --repair: the first failure is blamed on the restored modules; a
\* build that leaves no server is a failure of its own.
Build ==
  /\ pc = "build"
  /\ tries' = tries + 1
  /\ \/ pc' = "remove" /\ folder' = "built"
     \/ tries = 0 /\ restored # {} /\ pc' = "quarantine" /\ UNCHANGED folder
     \/ pc' = "fail" /\ UNCHANGED folder
  /\ UNCHANGED <<running, data, backup, carrying, restored, apart, result>>

\* The restored modules go to modules-disabled, one failing mv after the other.
Quarantine ==
  /\ pc = "quarantine"
  /\ \E Q \in SUBSET restored :
       /\ apart' = Q /\ restored' = restored \ Q
       /\ pc' = IF Q # {} THEN "build" ELSE "fail"
  /\ UNCHANGED <<running, folder, data, backup, carrying, tries, result>>

\* rm -rf of the backup, which may resist, the result, and the start.
Remove ==
  /\ pc = "remove" /\ pc' = "done"
  /\ backup' \in {FALSE, backup}
  /\ result' = "ok" /\ running' \in {"new", "none"}
  /\ UNCHANGED <<folder, data, carrying, restored, apart, tries>>

\* fail(): rm -rf of the half-installed copy, whose failure is ignored.
Fail ==
  /\ pc = "fail"
  /\ IF backup
     THEN /\ pc' = "put back"
          /\ folder' \in {"none", folder}
          /\ UNCHANGED <<running, result>>
     ELSE /\ pc' = "failed" /\ result' = IF folder = "none" THEN result ELSE "failed"
          /\ running' \in {"old", running} /\ UNCHANGED folder
  /\ UNCHANGED <<data, backup, carrying, restored, apart, tries>>

\* ... and mv of the backup: into the folder, when that still exists.
PutBack ==
  /\ pc = "put back" /\ pc' = "failed"
  /\ \/ /\ backup' = FALSE
        /\ folder' = IF folder = "none" THEN "old" ELSE "nested"
     \/ UNCHANGED <<backup, folder>>
  /\ result' = IF folder' = "none" THEN result ELSE "failed"
  /\ running' \in IF folder' = "old" THEN {"old", "none"} ELSE {"none"}
  /\ UNCHANGED <<data, carrying, restored, apart, tries>>

\* The machine stops.
PowerOff ==
  /\ pc \notin {"done", "failed", "off"} /\ pc' = "off" /\ running' = "none"
  /\ UNCHANGED <<folder, data, backup, carrying, restored, apart, tries, result>>

Script ==
  \/ Check \/ Stop \/ Wait \/ Move \/ Copy \/ (\E d \in Data : Carry(d)) \/ Modules \/ Build
  \/ Quarantine \/ Remove \/ Fail \/ PutBack

Next == Script \/ PowerOff

Safety == Init /\ [][Next]_vars

\* Commands end, by the limits the script sets to its waits.
Fairness == WF_vars(Script)

Spec == Safety /\ Fairness

-----------------------------------------------------------------------------
(***************************************************************************)
(* Properties.                                                             *)
(***************************************************************************)

\* "Nothing is deleted before the backup exists" (update.sh:22): wherever the
\* script or the machine stops, the old installation is somewhere, or the new one
\* is complete and has the connections.
Recoverable ==
  folder \in {"old", "nested"} \/ backup \/ (folder = "built" /\ Required \in data)

\* The version that runs is the one in the folder.
RunsWhatIsThere ==
  /\ running = "old" => folder = "old"
  /\ running = "new" => folder = "built"

UpdateIsRecoverable == Recoverable /\ RunsWhatIsThere

\* The script ends and leaves its result to the next start, unless the machine
\* stops or there is no folder to leave it in.
Ended == pc = "off" \/ (pc \in {"done", "failed"} /\ (folder = "none" \/ result # "none"))

\* "Not worth rolling back a working update - the app falls back to its defaults
\* and the old file is still in the backup folder" (update.sh:236-237): what could
\* not be carried over is still in the backup.
OldFilesAreInTheBackup == pc = "done" => backup \/ data = Data

=============================================================================
