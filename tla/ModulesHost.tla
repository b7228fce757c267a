------------------------------ MODULE ModulesHost ------------------------------
(***************************************************************************)
(* server/services/modules-host.ts for one module on several machines: the *)
(* queue of lifecycle operations, activations that are overtaken at their  *)
(* awaits, and the machines, handlers and installer that overtake them.    *)
(*                                                                         *)
(* The host captures generations and epochs and compares them later.  Only *)
(* whether a captured one is still the newest matters: `cancelled' holds   *)
(* the machines whose activation has lost its generation or machine epoch. *)
(* The lifecycle epoch changes only in suspend(), because resume() is      *)
(* never called after it.                                                  *)
(***************************************************************************)
EXTENDS Naturals, Sequences

CONSTANTS
  Machines,
  MaxQueued,       \* bound on the operations queued before another event
  StableRuntimes   \* resolveMachine() returns the same object for the same context

ASSUME ConstantsAssumption ==
  /\ MaxQueued \in Nat /\ StableRuntimes \in BOOLEAN
  /\ Machines \cap {"nothing", "disconnected"} = {}   \* ids of machines are user@host

None == 0
Contexts == 1..2   \* the context of a machine, and the one captured before it

VARIABLES
  \* the module
  known, enabled, problem,   \* compiled.has(id), its state.enabled, loaded.problem
  folder,        \* its folder is on disk
  \* the machines
  runtime,       \* the context that is pooled and connected, None without one
  returning,     \* what the connection handler past its commit did: the machine
                 \* it connected, "disconnected", or "nothing" when there is none
  \* the host
  shuttingDown,  \* the clean close has begun
  suspended, suspendedMachines,
  live,          \* the context each live instance was built for
  queue,         \* behind lifecycleTail
  op, stage,     \* the operation that runs, and the await it stands at
  captured,      \* the runtime each of its activations captured, None without one
  cancelled,     \* those that are not current any more
  detached,      \* rescan() has replaced the `loaded' they hold
  ok,            \* none has failed
  failed,        \* machines whose latest activation threw
  \* the handler that holds the `modules' lock
  admin,         \* what it awaits, or "free"
  removing,      \* it uninstalls
  saved          \* hadTarget and the registry entry before its transaction

module == <<known, enabled, problem, folder>>
machines == <<runtime, returning>>
host == <<shuttingDown, suspended, suspendedMachines, live>>
activations == <<op, stage, captured, cancelled, detached, ok, failed>>
handler == <<admin, removing, saved>>
vars == <<module, machines, host, queue, activations, handler>>

Nowhere == [m \in Machines |-> None]

Connected(contexts) == {m \in Machines : contexts[m] # None}

\* pendingActivations
Activating == Connected(captured)

TypeOK ==
  /\ {known, enabled, problem, folder} \subseteq BOOLEAN
  /\ runtime \in [Machines -> Contexts \cup {None}]
  /\ returning \in Machines \cup {"nothing", "disconnected"}
  /\ {shuttingDown, suspended} \subseteq BOOLEAN /\ suspendedMachines \subseteq Machines
  /\ live \in [Machines -> Contexts \cup {None}]
  /\ queue \in Seq({"apply", "enable", "reload", "stop", "forget"})
  /\ op \in {"none", "apply", "enable", "reload"} /\ stage \in {"compiling", "importing"}
  /\ captured \in [Machines -> Contexts \cup {None}]
  /\ cancelled \subseteq Activating /\ (op = "none" => Activating = {})
  /\ {detached, ok} \subseteq BOOLEAN /\ (op = "none" => ~detached /\ ok) /\ failed \subseteq Machines
  /\ admin \in {"free", "enabling", "reloading", "stopping", "stopped", "activating",
                "forgetting", "failed", "undoing", "undone", "restoring"}
  /\ removing \in BOOLEAN
  /\ saved \in [known : BOOLEAN, enabled : BOOLEAN]

Unsaved == [known |-> FALSE, enabled |-> FALSE]

Init ==
  /\ known \in BOOLEAN /\ folder = known
  /\ enabled \in {known, FALSE} /\ problem = FALSE
  /\ runtime = Nowhere /\ returning = "nothing"
  /\ shuttingDown = FALSE /\ suspended = FALSE /\ suspendedMachines = {}
  /\ live = Nowhere
  /\ queue = <<>>
  /\ op = "none" /\ stage = "compiling"
  /\ captured = Nowhere /\ cancelled = {}
  /\ detached = FALSE /\ ok = TRUE /\ failed = {}
  /\ admin = "free" /\ removing = FALSE
  /\ saved = Unsaved

-----------------------------------------------------------------------------
IsEnabled == known /\ enabled /\ ~problem

\* runtimeStillCurrent(), and the comparison in deactivateStale()
SameRuntime(m, context) == StableRuntimes /\ context # None /\ runtime[m] = context

\* (Mutant) The machine is not looked at again.
CurrentOfModule(m) == ~suspended /\ known /\ enabled

\* activationCurrent()
Current(m) ==
  /\ ~suspended /\ m \notin suspendedMachines
  /\ m \notin cancelled
  /\ known /\ enabled
  /\ SameRuntime(m, captured[m])

\* The handler returns, and the lock is free.
Release == admin' = "free" /\ removing' = FALSE /\ saved' = Unsaved

\* (Mutant) An apply that finds the host suspended leaves its caller alone.
EnableAnsweredAlive(operation) ==
  IF operation = "enable" /\ ~suspended THEN Release ELSE UNCHANGED handler

\* A setEnabled() returns with the apply it awaits.
EnableAnswered(operation) == IF operation = "enable" THEN Release ELSE UNCHANGED handler

\* What the caller of reload() does with its result
Answered(result) ==
  IF admin = "activating" /\ ~result
  THEN admin' = "failed" /\ UNCHANGED <<removing, saved>>
  ELSE Release

\* deactivateStale()
NotStale ==
  [m \in Machines |->
     IF IsEnabled /\ m \notin suspendedMachines /\ SameRuntime(m, live[m])
     THEN live[m] ELSE None]

\* suspendMachine() of the machines `torn', then resumeMachine() of `back'.
SuspendAndResume(torn, back) ==
  /\ suspendedMachines' = (suspendedMachines \cup torn) \ back
  /\ cancelled' = cancelled \cup (Activating \cap (torn \cup (back \cap suspendedMachines)))
  /\ live' = [m \in Machines |-> IF m \in torn THEN None ELSE live[m]]
  /\ failed' = failed \ torn

\* enqueueLifecycle()
Enqueue(operations) == queue' = queue \o operations

\* The bound: what may be repeated at will waits while the queue is long.  Who
\* holds the lock awaits each of its operations, so these are few.
Room == Len(queue) < MaxQueued

\* bumpGeneration(id)
BumpGeneration == cancelled' = Activating

\* (Mutant) The instances are stopped, those still on their way are not.
InterruptLive == live' = Nowhere /\ UNCHANGED cancelled

\* bumpGeneration(id) and deactivate(id), as stop(), reload() and forget() begin.
Interrupt == BumpGeneration /\ live' = Nowhere

-----------------------------------------------------------------------------
(***************************************************************************)
(* The machines                                                            *)
(***************************************************************************)

\* applyPollers()
Resumed ==
  IF shuttingDown
  THEN UNCHANGED <<suspendedMachines, live, cancelled, failed, queue>>
  ELSE SuspendAndResume({}, Connected(runtime)) /\ Enqueue(<<"apply">>)

\* A browser comes or goes, shows another tab, or saves its settings.
ApplyPollers ==
  /\ ~shuttingDown /\ Room
  /\ Resumed
  /\ UNCHANGED <<module, machines, shuttingDown, suspended, handler,
                 op, stage, captured, detached, ok>>

\* A connect commits: the machine is pooled with a new context, or its executor
\* is swapped, which tears it down first.
Commit(m) ==
  /\ returning = "nothing" /\ returning' = m
  /\ Room
  /\ IF runtime[m] = None
     THEN /\ runtime' = [runtime EXCEPT ![m] = IF captured[m] = 1 THEN 2 ELSE 1]
          /\ UNCHANGED <<suspendedMachines, live, cancelled, failed>>
     ELSE SuspendAndResume({m}, {}) /\ UNCHANGED runtime
  /\ UNCHANGED <<module, shuttingDown, suspended, queue, handler,
                 op, stage, captured, detached, ok>>

\* conn:disconnect, up to its await
Disconnect(m) ==
  /\ returning = "nothing" /\ returning' = "disconnected"
  /\ Room
  /\ runtime[m] # None /\ runtime' = [runtime EXCEPT ![m] = None]
  /\ SuspendAndResume({m}, {})
  /\ UNCHANGED <<module, shuttingDown, suspended, queue, handler,
                 op, stage, captured, detached, ok>>

\* The rest of connectTarget(), up to its await of apply(), or of conn:disconnect.
Return ==
  /\ returning # "nothing" /\ returning' = "nothing"
  /\ \/ returning = "disconnected" /\ Resumed
     \/ /\ returning \in Machines
        /\ IF shuttingDown
           THEN SuspendAndResume({}, {returning}) /\ Enqueue(<<"apply">>)
           ELSE SuspendAndResume({}, Connected(runtime) \cup {returning}) /\ Enqueue(<<"apply", "apply">>)
  /\ UNCHANGED <<module, runtime, shuttingDown, suspended, handler,
                 op, stage, captured, detached, ok>>

\* onLost(): the machine is torn down, then applyPollers() runs.
Lose(m) ==
  /\ runtime[m] # None /\ runtime' = [runtime EXCEPT ![m] = None]
  /\ Room
  /\ IF shuttingDown
     THEN SuspendAndResume({m}, {}) /\ UNCHANGED queue
     ELSE SuspendAndResume({m}, Connected(runtime')) /\ Enqueue(<<"apply">>)
  /\ UNCHANGED <<module, returning, shuttingDown, suspended, handler,
                 op, stage, captured, detached, ok>>

\* cleanClose()
CleanClose ==
  /\ ~shuttingDown /\ shuttingDown' = TRUE
  /\ UNCHANGED <<module, machines, suspended, suspendedMachines, live, queue, activations, handler>>

\* Its stopHostServices: every machine is torn down; suspend().
Suspend ==
  /\ shuttingDown
  /\ ~suspended /\ suspended' = TRUE
  /\ suspendedMachines' = suspendedMachines \cup Connected(runtime)
  /\ Interrupt
  /\ UNCHANGED <<module, machines, shuttingDown, queue, handler,
                 op, stage, captured, detached, ok, failed>>

\* Its disconnectExecutor
DisconnectAll ==
  /\ suspended
  /\ runtime # Nowhere /\ runtime' = Nowhere
  /\ UNCHANGED <<module, returning, host, queue, activations, handler>>

-----------------------------------------------------------------------------
(***************************************************************************)
(* The handlers that hold the `modules' lock, and the installer's use      *)
(***************************************************************************)

\* modules:setEnabled, up to its await
SetEnabled(on) ==
  /\ admin = "free" /\ admin' = "enabling"
  /\ known
  /\ enabled' = on
  /\ cancelled' = IF on = enabled THEN cancelled ELSE Activating
  /\ live' = IF ~on /\ enabled THEN Nowhere ELSE live
  /\ Enqueue(<<"enable">>)
  /\ UNCHANGED <<known, problem, folder, machines, shuttingDown, suspended, suspendedMachines, removing, saved,
                 op, stage, captured, detached, ok, failed>>

\* A settings import: applyLegacyDisabled(), then applyPollers().
ImportSettings ==
  /\ admin = "free"
  /\ Room
  /\ enabled' = FALSE
  /\ Resumed
  /\ UNCHANGED <<known, problem, folder, machines, shuttingDown, suspended, handler,
                 op, stage, captured, detached, ok>>

\* modules:reload, up to its await
Reload ==
  /\ admin = "free" /\ admin' = "reloading"
  /\ Interrupt
  /\ Enqueue(<<"reload">>)
  /\ UNCHANGED <<module, machines, shuttingDown, suspended, suspendedMachines, removing, saved,
                 op, stage, captured, detached, ok, failed>>

\* The installer calls stop().
Stop ==
  /\ admin = "free" /\ admin' = "stopping"
  /\ removing' \in IF known THEN BOOLEAN ELSE {FALSE}
  /\ saved' = [known |-> known, enabled |-> enabled]
  /\ Interrupt
  /\ Enqueue(<<"stop">>)
  /\ UNCHANGED <<module, machines, shuttingDown, suspended, suspendedMachines,
                 op, stage, captured, detached, ok, failed>>

\* The new folder is in place: rescan(), record() and reload().
Promote ==
  /\ admin = "stopped" /\ admin' = "activating"
  /\ ~removing
  /\ folder' = TRUE /\ known' = TRUE /\ problem' = FALSE
  /\ enabled' = IF saved.known THEN enabled ELSE TRUE
  /\ detached' = (op # "none")
  /\ Interrupt
  /\ Enqueue(<<"reload">>)
  /\ UNCHANGED <<machines, shuttingDown, suspended, suspendedMachines, removing, saved,
                 op, stage, captured, ok, failed>>

\* The folder is gone: forget().
Remove ==
  /\ admin = "stopped" /\ admin' = "forgetting"
  /\ removing
  /\ folder' = FALSE
  /\ Interrupt
  /\ Enqueue(<<"forget">>)
  /\ UNCHANGED <<known, enabled, problem, machines, shuttingDown, suspended, suspendedMachines, removing, saved,
                 op, stage, captured, detached, ok, failed>>

\* The transaction fails after it touched the folder: its rollback calls stop().
Undo ==
  /\ admin \in {"stopped", "failed"} /\ admin' = "undoing"
  /\ folder' \in {folder, FALSE}
  /\ Interrupt
  /\ Enqueue(<<"stop">>)
  /\ UNCHANGED <<known, enabled, problem, machines, shuttingDown, suspended, suspendedMachines, removing, saved,
                 op, stage, captured, detached, ok, failed>>

\* The rest of the rollback, up to its await: the folder and the registry are as
\* they were, rescan(), and reload() when there was a folder.  What runs of a first
\* installation is stopped by none of it.
Restore ==
  /\ admin \in {"stopped", "undone"}
  /\ folder' = saved.known /\ known' = saved.known
  /\ enabled' = saved.enabled /\ problem' = FALSE
  /\ detached' = (op # "none")
  /\ IF saved.known
     THEN Interrupt /\ admin' = "restoring" /\ Enqueue(<<"reload">>) /\ UNCHANGED <<removing, saved>>
     ELSE BumpGeneration /\ Release /\ UNCHANGED <<live, queue>>
  /\ UNCHANGED <<machines, shuttingDown, suspended, suspendedMachines,
                 op, stage, captured, ok, failed>>

-----------------------------------------------------------------------------
(***************************************************************************)
(* The lifecycle operations, one at a time                                 *)
(***************************************************************************)

\* The next operation starts.
Dequeue(operation) ==
  /\ op = "none"
  /\ queue # <<>> /\ Head(queue) = operation
  /\ queue' = Tail(queue)

\* activate() of each machine of `wanted', up to its first await.
Activate(operation, wanted, await) ==
  LET starting == {m \in wanted : SameRuntime(m, runtime[m])} IN
  /\ op' = operation /\ stage' = await
  /\ cancelled' = {} /\ detached' = FALSE
  /\ captured' = [m \in Machines |-> IF m \in starting THEN runtime[m] ELSE None]
  /\ ok' = (starting = wanted)

\* What an activation that throws leaves.
Thrown(who) ==
  /\ failed' = failed \cup who
  /\ problem' = (problem \/ (who # {} /\ live = Nowhere /\ ~detached))

\* applyNow() up to the compilation, which may find the folder gone.
StartApply(operation) ==
  /\ Dequeue(operation)
  /\ IF suspended
     THEN /\ EnableAnswered(operation)
          /\ UNCHANGED <<problem, live, activations>>
     ELSE LET wanted == {m \in Connected(runtime) \ suspendedMachines :
                           IsEnabled /\ NotStale[m] = None}
          IN  /\ live' = NotStale
              /\ Activate(operation, IF folder THEN wanted ELSE {}, "compiling")
              /\ IF folder \/ ~StableRuntimes
                 THEN failed' = failed \ wanted /\ UNCHANGED problem
                 ELSE /\ failed' = failed \cup wanted
                      /\ problem' = (problem \/ (wanted # {} /\ NotStale = Nowhere))
              /\ UNCHANGED handler
  /\ UNCHANGED <<known, enabled, folder, machines, shuttingDown, suspended, suspendedMachines>>

\* The compilation the machines share ends, or the files are not what they should be.
Compiled ==
  /\ op \in {"apply", "enable"} /\ stage = "compiling"
  /\ stage' = "importing"
  /\ \E broken \in {{}, Activating, {m \in Activating : Current(m)}} :
       /\ Thrown(broken)
       /\ captured' = [m \in Machines |->
                         IF m \in Activating \ broken /\ Current(m) THEN captured[m] ELSE None]
  /\ cancelled' = {}
  /\ UNCHANGED <<known, enabled, folder, machines, host, queue, handler,
                 op, detached, ok>>

\* import() returns to one activation, which goes live or is dropped.
Imported(m) ==
  /\ stage = "importing" /\ m \in Activating
  /\ captured' = [captured EXCEPT ![m] = None] /\ cancelled' = cancelled \ {m}
  /\ \/ /\ Current(m) /\ live[m] = None
        /\ live' = [live EXCEPT ![m] = captured[m]]
        /\ problem' = FALSE /\ failed' = failed \ {m}
        /\ UNCHANGED ok
     \/ /\ ~(Current(m) /\ live[m] = None)
        /\ ok' = FALSE
        /\ UNCHANGED <<live, problem, failed>>
     \/ Thrown({m}) /\ ok' = FALSE /\ UNCHANGED live
  /\ UNCHANGED <<known, enabled, folder, machines, shuttingDown, suspended, suspendedMachines, queue, handler,
                 op, stage, detached>>

\* The end of applyNow(), and of a setEnabled() that awaits it
EndApply ==
  /\ op \in {"apply", "enable"} /\ stage = "importing" /\ Activating = {}
  /\ op' = "none" /\ stage' = "compiling"
  /\ live' = IF suspended THEN live ELSE NotStale
  /\ detached' = FALSE /\ ok' = TRUE
  /\ EnableAnswered(op)
  /\ UNCHANGED <<module, machines, shuttingDown, suspended, suspendedMachines, queue,
                 captured, cancelled, failed>>

\* reloadNow() up to its compilation: a module that is not known, whose files are
\* not what was installed, or a call that suspend() has overtaken, is refused.
StartReload ==
  /\ Dequeue("reload")
  /\ \/ known /\ folder /\ op' = "reload" /\ UNCHANGED <<problem, handler>>
     \/ problem' = (problem \/ known) /\ Answered(FALSE) /\ UNCHANGED op
     \/ suspended /\ Answered(FALSE) /\ UNCHANGED <<op, problem>>
  /\ UNCHANGED <<known, enabled, folder, machines, host,
                 stage, captured, cancelled, detached, ok, failed>>

ReloadRefused(what) ==
  /\ op' = "none"
  /\ problem' = what
  /\ Answered(FALSE)
  /\ UNCHANGED <<stage, captured, cancelled, detached, ok, failed>>

\* reloadNow() up to its await of the activations
ReloadCompiled ==
  /\ op = "reload" /\ stage = "compiling"
  /\ \/ ReloadRefused(TRUE)
     \/ suspended /\ ReloadRefused(problem)
     \/ /\ ~suspended
        /\ problem' = FALSE
        /\ LET wanted == {m \in Connected(runtime) \ suspendedMachines : enabled}
           IN  Activate("reload", wanted, "importing") /\ failed' = failed \ wanted
        /\ UNCHANGED handler
  /\ UNCHANGED <<known, enabled, folder, machines, host, queue>>

EndReload ==
  /\ op = "reload" /\ stage = "importing" /\ Activating = {}
  /\ op' = "none" /\ stage' = "compiling"
  /\ Answered(ok) /\ ok' = TRUE
  /\ UNCHANGED <<module, machines, host, queue, captured, cancelled, detached, failed>>

\* The operation that stop() awaits
Stopped ==
  /\ Dequeue("stop")
  /\ admin' = IF admin = "stopping" THEN "stopped" ELSE "undone"
  /\ UNCHANGED <<module, machines, host, activations, removing, saved>>

\* The operation of forget(), whose persist() may throw
Forget ==
  /\ Dequeue("forget")
  /\ known' = FALSE /\ enabled' = FALSE /\ problem' = FALSE
  /\ \/ Release
     \/ admin' = "failed" /\ UNCHANGED <<removing, saved>>
  /\ UNCHANGED <<folder, machines, host, activations>>

-----------------------------------------------------------------------------
Environment ==
  \/ ApplyPollers \/ Return
  \/ CleanClose \/ Suspend \/ DisconnectAll
  \/ \E m \in Machines : Commit(m) \/ Disconnect(m) \/ Lose(m)

Handlers ==
  \/ \E on \in BOOLEAN : SetEnabled(on)
  \/ ImportSettings \/ Reload
  \/ Stop \/ Promote \/ Remove \/ Undo \/ Restore

Operations ==
  \/ StartApply("apply") \/ StartApply("enable")
  \/ Compiled \/ EndApply
  \/ \E m \in Machines : Imported(m)
  \/ StartReload \/ ReloadCompiled \/ EndReload
  \/ Stopped \/ Forget

Next == Environment \/ Handlers \/ Operations

\* Compilations and imports end, the queue goes on, a connect returns and the
\* installer goes on when an await is over.
Fairness ==
  /\ WF_vars(Operations)
  /\ WF_vars(Return)
  /\ WF_vars(Promote \/ Remove \/ Undo \/ Restore)

Spec == Init /\ [][Next]_vars /\ Fairness

-----------------------------------------------------------------------------
(***************************************************************************)
(* Properties                                                              *)
(***************************************************************************)

\* "Prevent an in-flight apply/activation from resurrecting modules during
\* teardown": an instance belongs to the context that is connected now, and
\* there is none on a machine that was torn down, or after the clean close.
OnlyWhereItMay ==
  /\ TypeOK
  /\ \A m \in Machines : live[m] # None =>
       runtime[m] = live[m] /\ m \notin suspendedMachines /\ ~suspended

Rest == queue = <<>> /\ op = "none" /\ admin = "free" /\ returning = "nothing" /\ ~shuttingDown

\* "The host import()s that file once per connected machine": when the lifecycle
\* queue has come to rest, an enabled module runs on every connected machine, but
\* those where it threw.
RunsWhereConnected ==
  Rest /\ IsEnabled =>
    \A m \in Connected(runtime) \ failed : live[m] = runtime[m]

\* Then, a module that is off runs nowhere, and from the moment its files are gone one
\* that is uninstalled does: what setEnabled(), forget() or a teardown interrupted does
\* not come back, whatever it was doing.  (What ran of a first installation that is
\* rolled back may still run; the next apply() stops it.)
OffRunsNowhere ==
  \/ Rest /\ known /\ ~enabled
  \/ admin = "forgetting"
  => live = Nowhere

\* The first of the two is promised only where resolveMachine() does return the same
\* object for the same context.
AtRest ==
  /\ StableRuntimes => RunsWhereConnected
  /\ OffRunsNowhere

\* A handler of the `modules' lock that awaits the host gets its answer: no
\* operation is lost from the queue, and none waits for another.  It would hold
\* the lock for ever, with every later change of a module behind it.
CallsReturn == admin # "free" ~> admin = "free"
=============================================================================
