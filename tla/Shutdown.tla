------------------------------ MODULE Shutdown ------------------------------
(***************************************************************************)
(* How the server process ends: requestShutdown() of server/index.ts, with *)
(* the upgrade handler it races, the drains of RpcRouter and RequestTracker *)
(* (lifecycle.ts), the order of runCleanClose() (clean-close.ts) and the   *)
(* SessionRegistry (session-registry.ts).                                  *)
(*                                                                         *)
(* Calls, disposers, clean-close steps and browsers may hang: every wait   *)
(* has a deadline.  Deadlines are nondeterministic steps.                  *)
(***************************************************************************)
EXTENDS Naturals

CONSTANTS
  Browsers,    \* WebSocket upgrades
  Calls,       \* HTTP requests and RPC invocations
  Resources    \* what calls and disposers register

VARIABLES
  phase,     \* of requestShutdown(): "serving", "draining", "network", "cleaning", "exited"
  socket,    \* stage of each browser's socket
  wss,       \* WebSocketServer: "open" or "closing"
  call,      \* each call: "idle", on its "http" request or "socket", or "done"
  step,      \* number of the clean-close steps that are over
  resource,  \* stage of each resource
  kind,      \* what each resource is
  registry,  \* SessionRegistry.stateValue, and "late" for a drain cut off by its deadline
  awaited    \* the disposals that the current pass of drain() waits for

vars == <<phase, socket, wss, call, step, resource, kind, registry, awaited>>
network == <<socket, wss, call>>
resources == <<resource, kind, registry, awaited>>

Steps == <<"stopNewWork", "stopHostServices", "flushHistory", "disconnectExecutor",
           "disposeTerminals", "disposeRegistry">>
Kinds == {"poller", "terminal", "other"}

TypeOK ==
  /\ phase \in {"serving", "draining", "network", "cleaning", "exited"}
  /\ socket \in [Browsers -> {"none", "asking", "attached", "closing", "gone"}]
  /\ wss \in {"open", "closing"}
  /\ call \in [Calls -> {"idle", "http", "socket", "done"}]
  /\ step \in 0..6
  /\ resource \in [Resources -> {"none", "live", "disposing", "disposed"}]
  /\ kind \in [Resources -> Kinds]
  /\ registry \in {"active", "shutting-down", "disposed", "late"}
  /\ awaited \subseteq Resources

Init ==
  /\ phase = "serving" /\ wss = "open" /\ step = 0
  /\ socket = [b \in Browsers |-> "none"]
  /\ call = [c \in Calls |-> "idle"]
  /\ resource = [r \in Resources |-> "none"] /\ kind \in [Resources -> Kinds]
  /\ registry = "active" /\ awaited = {}

\* The items and late disposals of the registry.
Items == {r \in Resources : resource[r] = "live"}
Disposing == {r \in Resources : resource[r] = "disposing"}

-----------------------------------------------------------------------------
(***************************************************************************)
(* Mutants: plausible mistakes in the code, not part of the specification. *)
(***************************************************************************)

\* Register: what comes late is left to a pass of the drain that may be over.
RegisterAsItem(r) ==
  /\ resource[r] = "none"
  /\ resource' = [resource EXCEPT ![r] = "live"]
  /\ UNCHANGED <<kind, registry, awaited>>

\* CleanDeadline: a clean close that hangs is waited for.
CleanForever ==
  /\ phase = "cleaning" /\ registry = "disposed" /\ phase' = "exited"
  /\ UNCHANGED <<network, step, resources>>

-----------------------------------------------------------------------------
(***************************************************************************)
(* Browsers and calls.                                                     *)
(***************************************************************************)

\* The upgrade handler, up to its await of the session.
Upgrade(b) ==
  /\ socket[b] = "none"
  /\ socket' = [socket EXCEPT ![b] = IF phase = "serving" THEN "asking" ELSE "gone"]
  /\ UNCHANGED <<phase, wss, call, step, resources>>

\* The session is known; `closing` is not looked at again, but a WebSocketServer
\* that was closed refuses the handshake.
Attach(b) ==
  /\ socket[b] = "asking" /\ wss = "open"
  /\ socket' = [socket EXCEPT ![b] = "attached"]
  /\ UNCHANGED <<phase, wss, call, step, resources>>

\* The handshake is refused, or the socket closes: the peer left or answers the
\* close frame.
Gone(b) ==
  /\ socket[b] \in {"asking", "attached", "closing"}
  /\ socket' = [socket EXCEPT ![b] = "gone"]
  /\ UNCHANGED <<phase, wss, call, step, resources>>

\* A call is accepted.  The RPC router and the request tracker stop accepting
\* when `closing` is set.
Accept(c) ==
  /\ phase = "serving" /\ call[c] = "idle"
  /\ \/ call' = [call EXCEPT ![c] = "http"]
     \/ (\E b \in Browsers : socket[b] = "attached") /\ call' = [call EXCEPT ![c] = "socket"]
  /\ UNCHANGED <<phase, socket, wss, step, resources>>

Finish(c) ==
  /\ call[c] \in {"http", "socket"}
  /\ call' = [call EXCEPT ![c] = "done"]
  /\ UNCHANGED <<phase, socket, wss, step, resources>>

\* SessionRegistry.register(): from the shutdown on a resource is disposed of at
\* once.
Register(r) ==
  /\ resource[r] = "none"
  /\ resource' = [resource EXCEPT ![r] = IF registry = "active" THEN "live" ELSE "disposing"]
  /\ UNCHANGED <<kind, registry, awaited>>

\* A call that runs on, or did so when its connection went, opens a resource;
\* so may a disposer.
Open(r) ==
  /\ phase # "exited"
  /\ (\E c \in Calls : call[c] # "idle") \/ Disposing # {}
  /\ Register(r)
  /\ UNCHANGED <<phase, network, step>>

\* A disposer settles: the promise of a drain that waits for it stays settled.
Disposed(r) ==
  /\ phase # "exited" /\ resource[r] = "disposing"
  /\ resource' = [resource EXCEPT ![r] = "disposed"]
  /\ awaited' = awaited \ {r}
  /\ UNCHANGED <<phase, network, step, kind, registry>>

-----------------------------------------------------------------------------
(***************************************************************************)
(* requestShutdown().                                                      *)
(***************************************************************************)

\* A signal, an uncaught error or app:restart; a second request finds the promise
\* of the first (its exit code is left out).
RequestShutdown ==
  /\ phase = "serving" /\ phase' = "draining"
  /\ UNCHANGED <<network, step, resources>>

\* The calls have finished or the deadline of the drain has passed: close frames
\* go to all clients, and the WebSocketServer takes no more.
CloseNetwork ==
  /\ phase = "draining" /\ phase' = "network"
  /\ socket' = [b \in Browsers |-> IF socket[b] = "attached" THEN "closing" ELSE socket[b]]
  /\ wss' = "closing"
  /\ UNCHANGED <<call, step, resources>>

\* Everything is closed, so that the listener is, too.
NetworkClosed ==
  /\ phase = "network" /\ phase' = "cleaning"
  /\ \A b \in Browsers : socket[b] \in {"none", "gone"}
  /\ \A c \in Calls : call[c] # "http"
  /\ UNCHANGED <<network, step, resources>>

\* The deadline: terminateAll() and closeAllConnections().  A handshake that
\* waits for its session stays; so does a handler that still runs.
TerminateNetwork ==
  /\ phase = "network" /\ phase' = "cleaning"
  /\ socket' = [b \in Browsers |-> IF socket[b] \in {"attached", "closing"} THEN "gone"
                                   ELSE socket[b]]
  /\ call' = [c \in Calls |-> IF call[c] = "http" THEN "done" ELSE call[c]]
  /\ UNCHANGED <<wss, step, resources>>

\* The resources that a clean-close step disposes of and unregisters.
Stopped(s) == {r \in Items : kind[r] = CASE s = "stopHostServices" -> "poller"
                                         [] s = "disposeTerminals" -> "terminal"
                                         [] OTHER -> "none"}

\* runCleanClose(): a step is over, by failing or not, and the next one is tried.
CleanStep ==
  /\ phase = "cleaning" /\ step < 5
  /\ step' = step + 1
  /\ resource' = [r \in Resources |-> IF r \in Stopped(Steps[step'])
                                      THEN "disposed" ELSE resource[r]]
  /\ UNCHANGED <<phase, network, kind, registry, awaited>>

\* disposeAll() and every pass of its drain(): all items, and all late disposals,
\* are awaited together, until there are none.
Drain ==
  /\ phase = "cleaning" /\ step = 5 /\ registry \in {"active", "shutting-down"}
  /\ awaited = {}
  /\ IF Items \cup Disposing = {}
     THEN /\ registry' = "disposed"
          /\ UNCHANGED <<resource, awaited>>
     ELSE /\ registry' = "shutting-down"
          /\ awaited' = Items \cup Disposing
          /\ resource' = [r \in Resources |-> IF r \in Items THEN "disposing" ELSE resource[r]]
  /\ UNCHANGED <<phase, network, step, kind>>

DrainDeadline ==
  /\ phase = "cleaning" /\ step = 5 /\ awaited # {}
  /\ registry' = "late" /\ awaited' = {}
  /\ UNCHANGED <<phase, network, step, resource, kind>>

\* The last step is over, and the process exits whether one of them failed or not.
CleanDone ==
  /\ phase = "cleaning" /\ step = 5 /\ registry \in {"disposed", "late"}
  /\ step' = 6 /\ phase' = "exited"
  /\ UNCHANGED <<network, resources>>

\* The deadline of the clean close.
CleanDeadline ==
  /\ phase = "cleaning" /\ phase' = "exited"
  /\ UNCHANGED <<network, step, resources>>

Next ==
  \/ \E b \in Browsers : Upgrade(b) \/ Attach(b) \/ Gone(b)
  \/ \E c \in Calls : Accept(c) \/ Finish(c)
  \/ \E r \in Resources : Open(r) \/ Disposed(r)
  \/ RequestShutdown \/ CloseNetwork \/ NetworkClosed \/ TerminateNetwork
  \/ CleanStep \/ Drain \/ DrainDeadline \/ CleanDone \/ CleanDeadline

Safety == Init /\ [][Next]_vars

\* Only timers and the promises of requestShutdown() itself are relied on.
Fairness == WF_vars(CloseNetwork) /\ WF_vars(TerminateNetwork) /\ WF_vars(CleanDeadline)

Spec == Safety /\ Fairness

-----------------------------------------------------------------------------
(***************************************************************************)
(* Properties.                                                             *)
(***************************************************************************)

\* No browser is served while the machines are being closed, although an upgrade
\* looks at `closing` only before it awaits the session (index.ts:156-196).
NobodyIsServed ==
  phase \in {"cleaning", "exited"} => \A b \in Browsers : socket[b] \notin {"attached", "closing"}

\* Once the registry's drain is over no resource is left alone, whether it was
\* registered before the shutdown, by a disposer, or by a handler that outlived
\* every deadline (session-registry.ts:1-6, 34-38).
NothingIsLeft == registry \in {"disposed", "late"} => Items = {}

ShutdownIsClean == NobodyIsServed /\ NothingIsLeft

\* A drain that is not cut off by its deadline leaves no disposal behind, one that
\* a disposer began last included (session-registry.ts:54-58).
DrainsAll ==
  [][registry' = "disposed" /\ registry # "disposed" => Items' = {} /\ Disposing' = {}]_vars

\* The process is not on its way to its end: in the end it exits, whatever hangs
\* (index.ts:272-318).
Settled == phase \in {"serving", "exited"}
=============================================================================
