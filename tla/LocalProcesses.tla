---------------------------- MODULE LocalProcesses ----------------------------
(***************************************************************************)
(* The processes of one LocalExecutor (server/executors/local.ts): those   *)
(* of exec(), of stream() and of shell(), whose native PTY falls back to   *)
(* script(1), a child like that of a stream.  Each is tracked until it is  *)
(* finished: by its end, or by force when it has outlived SIGTERM and      *)
(* SIGKILL for a grace each.                                               *)
(*                                                                         *)
(* A process may ignore a signal, or hold its pipes open, for ever; only   *)
(* timers are relied on.  Output, limits and exit codes are left out.      *)
(***************************************************************************)
EXTENDS FiniteSets

CONSTANTS
  Execs,     \* calls of exec()
  Streams,   \* calls of stream()
  Shells     \* calls of shell()

Ops == Execs \cup Streams \cup Shells

VARIABLES
  call,      \* what the caller of an operation has come to
  proc,      \* its process: "alive" until its 'close' or exit event
  tracked,   \* commands and handles: operations that are not finished
  sent,      \* the signal an operation has sent; its next timer is set
  exit,      \* the holder's onExit()
  disposed,  \* "no", or the part of dispose() that is done
  waits      \* what dispose() waits for

vars == <<call, proc, tracked, sent, exit, disposed, waits>>

TypeOK ==
  /\ call \in [Ops -> {"idle", "ready", "spawned", "closing", "running", "answered", "refused"}]
  /\ proc \in [Ops -> {"none", "spawning", "alive", "gone"}]
  /\ sent \in [Ops -> {"none", "TERM", "KILL"}]
  /\ tracked \subseteq Ops /\ waits \subseteq Ops
  /\ exit \in [Ops -> {"none", "registered", "queued", "told", "twice"}]
  /\ disposed \in {"no", "begun", "done"}

Init ==
  /\ call = [o \in Ops |-> "idle"] /\ proc = [o \in Ops |-> "none"]
  /\ sent = [o \in Ops |-> "none"] /\ tracked = {} /\ waits = {}
  /\ exit = [o \in Ops |-> "none"] /\ disposed = "no"

-----------------------------------------------------------------------------
\* finish(), once: the caller of exec() gets its result, one that waits for `ready`
\* or `closed` its error, and the holder of a handle is told.
Finish(o) ==
  IF o \notin tracked THEN UNCHANGED <<call, tracked, exit>>
  ELSE /\ tracked' = tracked \ {o}
       /\ exit' = [exit EXCEPT ![o] = CASE @ = "registered" -> "told"
                                        [] @ = "told" -> "twice"
                                        [] OTHER -> @]
       /\ call' = [call EXCEPT ![o] = CASE @ \in {"ready", "closing"} -> "refused"
                                        [] @ = "running" /\ o \in Execs -> "answered"
                                        [] OTHER -> @]

\* requestTermination() and cancel(): SIGTERM, once.
Terminate(ops) ==
  sent' = [o \in Ops |-> IF o \in ops \cap tracked /\ sent[o] = "none" THEN "TERM" ELSE sent[o]]

\* exec(), stream(), shell().  A child is waited for; a native PTY is there at once.
Start(o, native) ==
  /\ call[o] = "idle" /\ disposed = "no"
  /\ native => o \in Shells
  /\ tracked' = tracked \cup {o}
  /\ proc' = [proc EXCEPT ![o] = IF native THEN "alive" ELSE "spawning"]
  /\ call' = [call EXCEPT ![o] = IF native \/ o \in Execs THEN "running" ELSE "ready"]
  /\ UNCHANGED <<sent, exit, disposed, waits>>

\* The 'spawn' event.
Spawns(o) ==
  /\ proc[o] = "spawning"
  /\ proc' = [proc EXCEPT ![o] = "alive"]
  /\ call' = [call EXCEPT ![o] = IF @ = "ready" THEN "spawned" ELSE @]
  /\ UNCHANGED <<tracked, sent, exit, disposed, waits>>

\* stream() and shell() go on after `ready`, with dispose() perhaps in between.
GoesOn(o) ==
  /\ call[o] = "spawned"
  /\ call' = [call EXCEPT ![o] = CASE disposed = "no" -> "running"
                                   [] o \in tracked -> "closing"
                                   [] OTHER -> "refused"]
  /\ Terminate(IF disposed = "no" THEN {} ELSE {o})
  /\ UNCHANGED <<proc, tracked, exit, disposed, waits>>

\* 'error' before the child has spawned, its 'close', or the exit of a PTY.
Gone(o) ==
  /\ proc[o] \in {"spawning", "alive"}
  /\ proc' = [proc EXCEPT ![o] = "gone"]
  /\ Finish(o)
  /\ UNCHANGED <<sent, disposed, waits>>

\* The caller's AbortSignal, the timeout, too much output; kill() of a handle.
Cancel(o) ==
  /\ call[o] = "running" /\ o \in tracked /\ sent[o] = "none"
  /\ Terminate({o})
  /\ UNCHANGED <<call, proc, tracked, exit, disposed, waits>>

\* The killTimer, unless finish() has cleared it.
Kill(o) ==
  /\ o \in tracked /\ sent[o] = "TERM"
  /\ sent' = [sent EXCEPT ![o] = "KILL"]
  /\ UNCHANGED <<call, proc, tracked, exit, disposed, waits>>

\* The forceTimer.
Force(o) ==
  /\ o \in tracked /\ sent[o] = "KILL"
  /\ Finish(o)
  /\ UNCHANGED <<proc, sent, disposed, waits>>

\* The holder of a handle asks to be told of its end.
OnExit(o) ==
  /\ o \notin Execs /\ call[o] = "running" /\ exit[o] = "none"
  /\ exit' = [exit EXCEPT ![o] = IF o \in tracked THEN "registered" ELSE "queued"]
  /\ UNCHANGED <<call, proc, tracked, sent, disposed, waits>>

\* One that asked after the end is told by queueMicrotask().
TellLate(o) ==
  /\ exit[o] = "queued"
  /\ exit' = [exit EXCEPT ![o] = "told"]
  /\ UNCHANGED <<call, proc, tracked, sent, disposed, waits>>

\* dispose()
Dispose ==
  /\ disposed = "no" /\ disposed' = "begun"
  /\ waits' = tracked /\ Terminate(tracked)
  /\ UNCHANGED <<call, proc, tracked, exit>>

Disposed ==
  /\ disposed = "begun" /\ waits \cap tracked = {}
  /\ disposed' = "done"
  /\ UNCHANGED <<call, proc, tracked, sent, exit, waits>>

Next ==
  \/ \E o \in Ops :
       \/ \E native \in BOOLEAN : Start(o, native)
       \/ Spawns(o) \/ GoesOn(o) \/ Gone(o) \/ Cancel(o) \/ Kill(o) \/ Force(o)
       \/ OnExit(o) \/ TellLate(o)
  \/ Dispose \/ Disposed

\* Timers fire and promises go on; processes promise nothing.
Fairness ==
  /\ \A o \in Ops : WF_vars(GoesOn(o) \/ Kill(o) \/ Force(o) \/ TellLate(o))
  /\ WF_vars(Disposed)

Spec == Init /\ [][Next]_vars /\ Fairness

-----------------------------------------------------------------------------
(***************************************************************************)
(* Properties                                                              *)
(***************************************************************************)

\* A process that nobody knows of any more has ended, or has had SIGKILL.
NoneIsForgotten ==
  \A o \in Ops : o \notin tracked /\ proc[o] \in {"spawning", "alive"} => sent[o] = "KILL"

\* When dispose() is done nothing is left to end and nobody waits; the holder of a
\* handle is told of its end no more than once.
DisposalIsComplete ==
  /\ disposed = "done" => tracked = {} /\ \A o \in Ops : call[o] \notin {"ready", "closing"}
  /\ \A o \in Ops : exit[o] # "twice"

ProcessesAreTracked == NoneIsForgotten /\ DisposalIsComplete

\* In the end what was cancelled is over, and so is the disposal, whatever the
\* processes do; a holder who asked too late has been told.
Settled ==
  /\ disposed # "begun"
  /\ \A o \in Ops : exit[o] # "queued" /\ (sent[o] # "none" => o \notin tracked)
=============================================================================
