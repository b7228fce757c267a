---------------------------- MODULE SettingsFiles ----------------------------
(***************************************************************************)
(* The files of the server's own settings (server/services/private-file.ts *)
(* and store.ts, with their callers in ipc.ts and modules-host.ts): the    *)
(* settings and the registry of modules, each with a recovery copy that is *)
(* written first.  A failure or the end of the process comes between any   *)
(* two file operations, and a loss of power may undo a rename whose        *)
(* directory was not yet synced.                                           *)
(*                                                                         *)
(* A settings document is the number of the request that wrote it, and     *)
(* whether it has the old format, with a switch per feature; of the        *)
(* registry there is the switch of one module, which an old document may   *)
(* want off.  What runs is synchronous: `job` is the function under way,   *)
(* and only the file system, a crash or an import's HTTP request come      *)
(* between its steps.                                                      *)
(***************************************************************************)
EXTENDS Naturals, Sequences

CONSTANTS
  MaxRequests, \* bound on the requests of the browsers that change a file
  MaxImports,  \* bound on the imports that wait for the lock at a time
  MaxTroubles  \* bound on the file operations that fail, the copies that are damaged, the
               \* crashes, together

Files == {"settings", "registry"}
Copies == {"primary", "backup"}

VARIABLES
  disk,      \* what each copy of each file holds
  unsynced,  \* what the renamed copy whose directory is not yet synced held before
  server,    \* "down", "loading", "running", or "refused" when it could not start
  memory,    \* appSettings
  on,        \* `enabled` of the module's state
  legacy,    \* legacyDisabled: None, or whether the module is in it
  imports,   \* documents of the imports that wait for the lock
  job,       \* the function under way: what it has still to write, and what it does then
  requests, troubles,
  \* of the history:
  kept,      \* for each file, what was last put into its primary with success
  open,      \* what the end of the process has cut off the writing of since
  damaged    \* copies damaged since

history == <<kept, open, damaged>>
vars == <<disk, unsynced, server, memory, on, legacy, imports, job, requests, troubles, history>>

None == "none"
Missing == [kind |-> "missing"]
Bad == [kind |-> "bad"]
Doc(n, old, off) == [kind |-> "settings", n |-> n, old |-> old, off |-> off]
Switch(b) == [kind |-> "registry", on |-> b]

SettingsDocs ==
  {x \in [kind : {"settings"}, n : 0..MaxRequests, old : BOOLEAN, off : BOOLEAN] :
     x.off => x.old}
Docs == [settings |-> SettingsDocs, registry |-> [kind : {"registry"}, on : BOOLEAN]]

\* A call of replacePrivateFile(); `soft` when its failure is caught.
Writes == UNION {[file : {f}, copy : Copies, doc : Docs[f], soft : BOOLEAN] : f \in Files}
NoJob == [name |-> "none", todo |-> <<>>]
Jobs == {NoJob} \cup [name : {"start", "set", "import", "flags", "export", "toggle", "refuse"},
                      todo : Seq(Writes), renamed : BOOLEAN, doc : SettingsDocs]

TypeOK ==
  /\ \A f \in Files, c \in Copies : disk[f][c] \in Docs[f] \cup {Missing, Bad}
  /\ unsynced \in {<<>>} \cup
                   (Files \X Copies) \X UNION {Docs[f] \cup {Missing, Bad} : f \in Files}
  /\ server \in {"down", "loading", "running", "refused"}
  /\ memory \in SettingsDocs /\ on \in BOOLEAN /\ legacy \in {None, "on", "off"}
  /\ imports \in Seq(SettingsDocs) /\ job \in Jobs
  /\ requests \in 0..MaxRequests /\ troubles \in 0..MaxTroubles
  /\ \A f \in Files : kept[f] \in Docs[f] \cup {Missing} /\ open[f] \subseteq Docs[f]
  /\ damaged \subseteq Files \X Copies

\* A new installation, or one that an older version has left.
Init ==
  \E s \in {Missing, Doc(0, TRUE, FALSE), Doc(0, TRUE, TRUE)} :
    LET r == Missing
    IN /\ disk = [settings |-> [primary |-> s, backup |-> Missing],
                  registry |-> [primary |-> r, backup |-> r]]
       /\ kept = [settings |-> s, registry |-> r]
       /\ unsynced = <<>> /\ server = "down" /\ memory = Doc(0, FALSE, FALSE) /\ on = TRUE
       /\ legacy = None /\ imports = <<>> /\ job = NoJob
       /\ open = [f \in Files |-> {}]
       /\ requests = 0 /\ troubles = 0 /\ damaged = {}

Request == requests < MaxRequests /\ requests' = requests + 1
Trouble == troubles < MaxTroubles /\ troubles' = troubles + 1

-----------------------------------------------------------------------------
(***************************************************************************)
(* Mutants: plausible mistakes in the code, not part of the specification. *)
(***************************************************************************)

\* Saving: the primary first.
SavingPrimaryFirst(f, x, soft) ==
  <<[file |-> f, copy |-> "primary", doc |-> x, soft |-> soft],
    [file |-> f, copy |-> "backup", doc |-> x, soft |-> soft]>>

-----------------------------------------------------------------------------
(***************************************************************************)
(* The pieces of the functions.                                            *)
(***************************************************************************)

Valid(x) == x \notin {Missing, Bad}

\* readPrivateJson(): the primary, else the recovery copy; Missing when there is
\* neither, Bad when it throws.
Read(copies) ==
  IF Valid(copies["primary"]) THEN copies["primary"]
  ELSE IF Valid(copies["backup"]) THEN copies["backup"]
  ELSE IF copies["primary"] = Missing THEN copies["backup"] ELSE Bad

\* It also puts the recovery copy in the place of the primary.
Restoring(f) ==
  IF ~Valid(disk[f]["primary"]) /\ Valid(disk[f]["backup"])
  THEN <<[file |-> f, copy |-> "primary", doc |-> disk[f]["backup"], soft |-> TRUE]>>
  ELSE <<>>

\* writeAtomicPrivateFile(): the recovery copy first.
Saving(f, x, soft) ==
  <<[file |-> f, copy |-> "backup", doc |-> x, soft |-> soft],
    [file |-> f, copy |-> "primary", doc |-> x, soft |-> soft]>>

\* normalizeAppSettings(): a document of the current format.
Normalized(x) == Doc(x.n, FALSE, FALSE)

\* captureLegacyDisabled(): an old document only.
Captured(x) == IF ~x.old THEN legacy ELSE IF x.off THEN "off" ELSE "on"

Begin(name, todo, x) == [name |-> name, todo |-> todo, renamed |-> FALSE, doc |-> x]

-----------------------------------------------------------------------------
(***************************************************************************)
(* The start of the server.                                                *)
(***************************************************************************)

\* loadSettings(): what was read is rewritten when it is old, and then
\* modulesHost.init() reads the registry and persists it.
Start ==
  LET s == Read(disk["settings"])
      r == Read(disk["registry"])
      found == IF s = Missing THEN Doc(0, FALSE, FALSE) ELSE s
      rewriting == IF found.old THEN Saving("settings", Normalized(found), TRUE) ELSE <<>>
      enabled == (r = Missing \/ r.on) /\ ~(found.old /\ found.off)
      \* applyLegacyDisabled() persists by itself
      persisting == IF (r = Missing \/ r.on) # enabled
                    THEN Saving("registry", Switch(enabled), FALSE) ELSE <<>>
  IN /\ server \in {"down", "refused"}
     /\ IF s = Bad
        THEN /\ server' = "refused"
             /\ UNCHANGED <<memory, on, job>>
        ELSE /\ server' = "loading" /\ memory' = Normalized(found)
             /\ IF r = Bad
                THEN on' = on /\ job' = Begin("refuse", Restoring("settings") \o rewriting, memory')
                ELSE /\ on' = enabled
                     /\ job' = Begin("start", Restoring("settings") \o rewriting
                                                \o Restoring("registry") \o persisting
                                                \o Saving("registry", Switch(enabled), FALSE),
                                     memory')
     /\ UNCHANGED <<disk, unsynced, legacy, imports, requests, troubles, history>>

-----------------------------------------------------------------------------
(***************************************************************************)
(* The requests.                                                           *)
(***************************************************************************)

Idle == server = "running" /\ job = NoJob

\* settings:set
Set ==
  /\ Idle /\ Request
  /\ LET x == Doc(requests', FALSE, FALSE) IN job' = Begin("set", Saving("settings", x, FALSE), x)
  /\ UNCHANGED <<disk, unsynced, server, memory, on, legacy, imports, troubles, history>>

\* /settings/export: what is in memory, and a failure is ignored.
Export ==
  /\ Idle
  /\ job' = Begin("export", Saving("settings", memory, TRUE), memory)
  /\ UNCHANGED <<disk, unsynced, server, memory, on, legacy, imports, requests, troubles, history>>

\* /settings/import reads the file before it asks for the lock.
ReadImport(old, off) ==
  /\ Idle /\ Request /\ Len(imports) < MaxImports
  /\ LET x == Doc(requests', old, off)
     IN imports' = Append(imports, x) /\ legacy' = Captured(x)
  /\ UNCHANGED <<disk, unsynced, server, memory, on, job, troubles, history>>

Import ==
  /\ Idle /\ imports # <<>>
  /\ imports' = Tail(imports)
  /\ LET x == Head(imports)
     IN job' = Begin("import", Saving("settings", Normalized(x), FALSE), x)
  /\ UNCHANGED <<disk, unsynced, server, memory, on, legacy, requests, troubles, history>>

\* setEnabled(): the state is changed before it is persisted.
Toggle ==
  /\ Idle /\ Request
  /\ on' = ~on
  /\ job' = Begin("toggle", Saving("registry", Switch(on'), FALSE), memory)
  /\ UNCHANGED <<disk, unsynced, server, memory, legacy, imports, troubles, history>>

-----------------------------------------------------------------------------
(***************************************************************************)
(* The file operations of replacePrivateFile().                            *)
(***************************************************************************)

Writing == job.todo # <<>>
Write == Head(job.todo)
BeingWritten(f) == {job.todo[i].doc : i \in {j \in DOMAIN job.todo : job.todo[j].file = f}}

\* The temporary file, which is synced, takes the place of the copy.
Rename ==
  /\ Writing /\ ~job.renamed
  /\ disk' = [disk EXCEPT ![Write.file][Write.copy] = Write.doc]
  /\ unsynced' = <<<<Write.file, Write.copy>>, disk[Write.file][Write.copy]>>
  /\ job' = [job EXCEPT !.renamed = TRUE]
  /\ UNCHANGED <<server, memory, on, legacy, imports, requests, troubles, history>>

\* Its directory is synced, and the next copy has its turn.
Synced ==
  /\ Writing /\ job.renamed
  /\ unsynced' = <<>>
  /\ job' = [job EXCEPT !.todo = Tail(@), !.renamed = FALSE]
  /\ damaged' = damaged \ {<<Write.file, Write.copy>>}
  /\ IF Write.copy = "primary"
     THEN /\ kept' = [kept EXCEPT ![Write.file] = Write.doc]
          /\ open' = [open EXCEPT ![Write.file] = {}]
     ELSE UNCHANGED <<kept, open>>
  /\ UNCHANGED <<disk, server, memory, on, legacy, imports, requests, troubles>>

\* The temporary file cannot be made, written or renamed: the call throws, and what
\* it has left to write is dropped, up to where that is caught.
WriteFails ==
  /\ Writing /\ ~job.renamed /\ Trouble
  /\ IF Write.soft
     THEN /\ job' = [job EXCEPT !.todo =
                       IF Write.copy = "backup" THEN Tail(Tail(@)) ELSE Tail(@)]
          /\ UNCHANGED server
     ELSE /\ job' = NoJob
          /\ server' = IF server = "loading" THEN "down" ELSE server
  /\ UNCHANGED <<disk, unsynced, memory, on, legacy, imports, requests, history>>

\* All is written: what the function does then.
Finish ==
  /\ job # NoJob /\ ~Writing
  /\ server' = CASE job.name = "start" -> "running"
                 [] job.name = "refuse" -> "refused"
                 [] OTHER -> server
  /\ memory' = IF job.name \in {"set", "import"} THEN Normalized(job.doc) ELSE memory
  /\ legacy' = IF job.name = "import" THEN None ELSE legacy
  /\ on' = (on /\ ~(job.name = "import" /\ legacy = "off"))
  /\ job' = IF on' # on THEN Begin("flags", Saving("registry", Switch(on'), FALSE), memory')
            ELSE NoJob
  /\ UNCHANGED <<disk, unsynced, imports, requests, troubles, history>>

-----------------------------------------------------------------------------
(***************************************************************************)
(* The environment.                                                        *)
(***************************************************************************)

Reverted ==
  IF unsynced = <<>> THEN disk
  ELSE [disk EXCEPT ![unsynced[1][1]][unsynced[1][2]] = unsynced[2]]

\* The process ends; when the power is lost the last rename may be lost too.
Crash ==
  /\ server \in {"loading", "running"} /\ Trouble
  /\ disk' \in {disk, Reverted}
  /\ server' = "down" /\ job' = NoJob /\ imports' = <<>> /\ legacy' = None /\ unsynced' = <<>>
  /\ open' = [f \in Files |-> open[f] \cup BeingWritten(f)]
  /\ UNCHANGED <<memory, on, requests, kept, damaged>>

\* A copy is damaged while nothing is written.
Damage(f, c) ==
  /\ job = NoJob /\ Trouble /\ Valid(disk[f][c])
  /\ disk' = [disk EXCEPT ![f][c] = Bad]
  /\ damaged' = damaged \cup {<<f, c>>}
  /\ UNCHANGED <<unsynced, server, memory, on, legacy, imports, job, requests, kept, open>>

-----------------------------------------------------------------------------

Asks == Set \/ Export \/ Import \/ Toggle
        \/ \E off \in BOOLEAN : ReadImport(TRUE, off)
        \/ ReadImport(FALSE, FALSE)
Works == Rename \/ Synced \/ WriteFails \/ Finish
Befalls == Crash \/ \E f \in Files, c \in Copies : Damage(f, c)

Next == Start \/ Asks \/ Works \/ Befalls

Spec == Init /\ [][Next]_vars

-----------------------------------------------------------------------------
(***************************************************************************)
(* Properties.                                                             *)
(***************************************************************************)

\* Written by this code, and both copies are what it has put there.
Twofold(f) == kept[f] # Missing /\ (f = "settings" => ~kept[f].old)
Intact(f) == \A c \in Copies : <<f, c>> \notin damaged

\* A file that was written survives the loss of one of its copies at any time, and
\* the loss of power in the middle of the next write (private-file.ts:133-137).
OneCopyIsEnough ==
  \A f \in Files, d \in {disk, Reverted} :
    Twofold(f) /\ (\E c \in Copies : <<f, c>> \notin damaged) => Valid(Read(d[f]))

\* While no copy is damaged a start finds what was last put into the primary, by the
\* last request that was not refused or by a start that had lost it, or what was being
\* written when the process ended: what was refused is not found, unless the primary
\* was damaged after that (private-file.ts:143-144).
RefusedIsNotFound ==
  \A f \in Files, d \in {disk, Reverted} :
    kept[f] # Missing /\ Intact(f) => Read(d[f]) \in {kept[f]} \cup open[f] \cup BeingWritten(f)

\* "So what is on disk and what the app runs on never drift apart" (store.ts:324-328).
RunsOnWhatIsStored ==
  Idle /\ kept["settings"] # Missing /\ Intact("settings") =>
    memory = Normalized(Read(disk["settings"]))

FilesAgree == OneCopyIsEnough /\ RefusedIsNotFound /\ RunsOnWhatIsStored

\* A module is switched off by a toggle, at a start, or by the import of a document of
\* the old format that says so: the list is empty "for a file that was already in the
\* current format, so calling it twice cannot disable a module the user has since
\* switched back on" (store.ts:313-317).  No run checks it, as it does not hold: an
\* import whose save is refused leaves the list to the next one.
OnlyAskedForSwitchesOff ==
  [][on /\ ~on' => \/ job'.name = "toggle" \/ server = "down"
                   \/ job.name = "import" /\ job.doc.old /\ job.doc.off]_vars

=============================================================================
