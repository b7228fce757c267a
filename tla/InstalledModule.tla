---------------------------- MODULE InstalledModule ----------------------------
(***************************************************************************)
(* What server/services/module-installer.ts promises of one module: its    *)
(* code, its registry entry and the files it owns change together or not   *)
(* at all, whenever the process dies.  Its files are otherwise written by  *)
(* its own code alone, and by a copy that host.stop() has not stopped.     *)
(***************************************************************************)
CONSTANTS
  Versions,   \* the copies of the module's code that can be installed
  None,
  Files       \* the files and folders a module owns

VARIABLES
  code,       \* the copy in the module's folder
  entry,      \* the copy its registry entry describes
  files,      \* the copy that wrote each file last
  late        \* the copy that ran when the last host.stop() returned

svars == <<code, entry, files, late>>

Init ==
  /\ code \in Versions \cup {None}
  /\ entry = code
  /\ files \in [Files -> Versions \cup {None}]
  /\ late = None

\* `old`, except for what one of the `copies` has written since.
WrittenBy(copies, old) ==
  {new \in [Files -> Versions \cup {None}] :
     \A f \in Files : new[f] \in {old[f]} \cup (copies \ {None})}

\* The module writes its own files, as does a copy that was left running.
Write ==
  /\ files' \in WrittenBy({code, late}, files)
  /\ UNCHANGED <<code, entry>>

\* An install or an update, after which the new copy may have run already.
Replace ==
  \E v \in Versions :
    /\ code' = v /\ entry' = v
    /\ files' \in WrittenBy({v, late}, files)

\* An uninstall takes the module's files with it, except for what a copy that was
\* left running writes as it is stopped.
Remove ==
  /\ code # None
  /\ code' = None /\ entry' = None
  /\ files' \in WrittenBy({late}, [f \in Files |-> None])

\* host.stop() is called or returns.
Stop == late' \in Versions \cup {None}

Next == (Write \/ Replace \/ Remove) /\ Stop

Spec == Init /\ [][Next]_svars
=============================================================================
