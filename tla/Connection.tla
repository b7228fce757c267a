----------------------------- MODULE Connection -----------------------------
(***************************************************************************)
(* server/connection.ts: the ConnectionManager of one target.              *)
(*                                                                         *)
(* connect() and disconnect() calls are numbered by requestGeneration, and *)
(* the executor that connect call g builds is called g as well.  Every     *)
(* await of connectAttempt() and disconnect() is a point where other calls *)
(* and the loss of a connection interleave, so each action below is the    *)
(* code between two awaits.  The beforeSwap hook is the one ipc.ts         *)
(* installs: synchronous, never throwing, starting no connect or           *)
(* disconnect of its own.                                                  *)
(***************************************************************************)
EXTENDS Naturals

CONSTANT MaxRequests   \* bound on the connect and disconnect calls

ASSUME MaxRequestsAssumption == MaxRequests \in Nat

Gens == 1..MaxRequests
None == 0              \* null: no executor

VARIABLES
  requestGeneration,   \* number of the newest call
  activeGeneration,    \* bumped by every change of the published executor
  phase,               \* ConnectionPhase
  executor,            \* the published executor, None for null
  pc,                  \* where call g stands
  controllers,         \* attemptAborts: calls with a registered AbortController
  aborted,             \* calls whose signal has fired
  resource,            \* what became of executor g
  committedAs,         \* activeGeneration captured by g's loss callback
  lostExecutors,       \* executors whose loss was handled
  replaced             \* the executor that attempt g swapped out and awaits

vars == <<requestGeneration, activeGeneration, phase, executor, pc, controllers,
          aborted, resource, committedAs, lostExecutors, replaced>>

Phases == {"idle", "connecting", "connected", "disconnecting"}

\* connectAttempt(): awaiting buildExecutor, awaiting probeCandidate, awaiting
\* the disposal of its own candidate, awaiting the disposal of the executor it
\* replaced, or returned but not yet through connect()'s finally().
Attempting == {"building", "probing", "closing", "retiring"}

\* "draining": disconnect() awaits the disposal and the attempts it cancelled.
CallStates == Attempting \cup {"none", "returned", "settled", "draining", "drained"}

\* "lost" is a connection the target dropped and nobody has disposed of yet.
ResourceStates == {"none", "live", "lost", "disposing", "disposed"}

TypeOK ==
  /\ requestGeneration \in 0..MaxRequests
  /\ activeGeneration \in Nat
  /\ phase \in Phases
  /\ executor \in Gens \cup {None}
  /\ pc \in [Gens -> CallStates]
  /\ controllers \subseteq Gens
  /\ aborted \subseteq Gens
  /\ resource \in [Gens -> ResourceStates]
  /\ committedAs \in [Gens -> Nat]
  /\ lostExecutors \subseteq Gens
  /\ replaced \in [Gens -> Gens \cup {None}]

Init ==
  /\ requestGeneration = 0
  /\ activeGeneration = 0
  /\ phase = "idle"
  /\ executor = None
  /\ pc = [g \in Gens |-> "none"]
  /\ controllers = {}
  /\ aborted = {}
  /\ resource = [g \in Gens |-> "none"]
  /\ committedAs = [g \in Gens |-> 0]
  /\ lostExecutors = {}
  /\ replaced = [g \in Gens |-> None]

-----------------------------------------------------------------------------
(***************************************************************************)
(* Mutants: plausible mistakes in the code.  None is part of the           *)
(* specification; each stands for the action in its comment to show which  *)
(* property notices.                                                       *)
(***************************************************************************)

\* Commit: the check after the probe is missing.
CommitUnchecked(g) ==
  /\ pc[g] = "probing"
  /\ activeGeneration' = activeGeneration + 1
  /\ committedAs' = [committedAs EXCEPT ![g] = activeGeneration + 1]
  /\ executor' = g
  /\ phase' = "connected"
  /\ replaced' = [replaced EXCEPT ![g] = executor]
  /\ pc' = [pc EXCEPT ![g] = IF executor = None THEN "returned" ELSE "retiring"]
  /\ resource' = [e \in Gens |-> IF e = executor THEN "disposing" ELSE resource[e]]
  /\ UNCHANGED <<requestGeneration, controllers, aborted, lostExecutors>>

\* Commit: the loss callback captures activeGeneration before it is bumped.
CommitCapturesEarly(g) ==
  /\ pc[g] = "probing"
  /\ g \notin aborted /\ g = requestGeneration
  /\ activeGeneration' = activeGeneration + 1
  /\ committedAs' = [committedAs EXCEPT ![g] = activeGeneration]
  /\ executor' = g
  /\ phase' = "connected"
  /\ replaced' = [replaced EXCEPT ![g] = executor]
  /\ pc' = [pc EXCEPT ![g] = IF executor = None THEN "returned" ELSE "retiring"]
  /\ resource' = [e \in Gens |-> IF e = executor THEN "disposing" ELSE resource[e]]
  /\ UNCHANGED <<requestGeneration, controllers, aborted, lostExecutors>>

\* Refuse: the rejected candidate is not disposed of.
RefuseForgetsCandidate(g) ==
  /\ pc[g] = "probing"
  /\ pc' = [pc EXCEPT ![g] = "closing"]
  /\ UNCHANGED <<requestGeneration, activeGeneration, phase, executor, controllers,
                 aborted, resource, committedAs, lostExecutors, replaced>>

\* Refuse: a failed replacement takes the published executor down with it.
RefuseDropsExecutor(g) ==
  /\ pc[g] = "probing"
  /\ pc' = [pc EXCEPT ![g] = "closing"]
  /\ executor' = None
  /\ resource' = [e \in Gens |-> IF e \in {g, executor} THEN "disposing" ELSE resource[e]]
  /\ UNCHANGED <<requestGeneration, activeGeneration, phase, controllers, aborted,
                 committedAs, lostExecutors, replaced>>

\* Closed: a failed attempt reports "idle" whatever is published.
ClosedIdle(g) ==
  /\ pc[g] = "closing"
  /\ resource[g] = "disposed"
  /\ pc' = [pc EXCEPT ![g] = "returned"]
  /\ phase' = IF g = requestGeneration THEN "idle" ELSE phase
  /\ UNCHANGED <<requestGeneration, activeGeneration, executor, controllers, aborted,
                 resource, committedAs, lostExecutors, replaced>>

-----------------------------------------------------------------------------
\* assertCurrentAttempt() does not throw.
Current(g) == g \notin aborted /\ g = requestGeneration

\* `this.executor ? 'connected' : 'idle'`
RestingPhase == IF executor = None THEN "idle" ELSE "connected"

\* connect(): aborts every older attempt and starts a new one.
Connect ==
  /\ requestGeneration < MaxRequests
  /\ LET g == requestGeneration + 1 IN
     /\ requestGeneration' = g
     /\ aborted' = aborted \cup controllers
     /\ controllers' = controllers \cup {g}
     /\ pc' = [pc EXCEPT ![g] = "building"]
     /\ phase' = "connecting"
  /\ UNCHANGED <<activeGeneration, executor, resource, committedAs, lostExecutors,
                 replaced>>

\* buildExecutor() resolves.  An attempt that is no longer current goes
\* straight to disposing of the executor it has just been given.
Built(g) ==
  /\ pc[g] = "building"
  /\ pc' = [pc EXCEPT ![g] = IF Current(g) THEN "probing" ELSE "closing"]
  /\ resource' = [resource EXCEPT ![g] = IF Current(g) THEN "live" ELSE "disposing"]
  /\ UNCHANGED <<requestGeneration, activeGeneration, phase, executor, controllers,
                 aborted, committedAs, lostExecutors, replaced>>

\* buildExecutor() rejects: there is no candidate to dispose of.
BuildFails(g) ==
  /\ pc[g] = "building"
  /\ pc' = [pc EXCEPT ![g] = "returned"]
  /\ phase' = IF g = requestGeneration THEN RestingPhase ELSE phase
  /\ UNCHANGED <<requestGeneration, activeGeneration, executor, controllers, aborted,
                 resource, committedAs, lostExecutors, replaced>>

\* probeCandidate() resolves for the current attempt: the atomic swap.
Commit(g) ==
  /\ pc[g] = "probing"
  /\ Current(g)
  /\ activeGeneration' = activeGeneration + 1
  /\ committedAs' = [committedAs EXCEPT ![g] = activeGeneration + 1]
  /\ executor' = g
  /\ phase' = "connected"
  /\ replaced' = [replaced EXCEPT ![g] = executor]
  /\ pc' = [pc EXCEPT ![g] = IF executor = None THEN "returned" ELSE "retiring"]
  /\ resource' = [e \in Gens |-> IF e = executor THEN "disposing" ELSE resource[e]]
  /\ UNCHANGED <<requestGeneration, controllers, aborted, lostExecutors>>

\* probeCandidate() rejects, or resolves for an attempt that was superseded or
\* aborted in the meantime: the candidate is disposed of.
Refuse(g) ==
  /\ pc[g] = "probing"
  /\ pc' = [pc EXCEPT ![g] = "closing"]
  /\ resource' = [resource EXCEPT ![g] = "disposing"]
  /\ UNCHANGED <<requestGeneration, activeGeneration, phase, executor, controllers,
                 aborted, committedAs, lostExecutors, replaced>>

\* The rest of the catch block, after the candidate's disposal.
Closed(g) ==
  /\ pc[g] = "closing"
  /\ resource[g] = "disposed"
  /\ pc' = [pc EXCEPT ![g] = "returned"]
  /\ phase' = IF g = requestGeneration THEN RestingPhase ELSE phase
  /\ UNCHANGED <<requestGeneration, activeGeneration, executor, controllers, aborted,
                 resource, committedAs, lostExecutors, replaced>>

\* The successful return, after the replaced executor's disposal.
Retired(g) ==
  /\ pc[g] = "retiring"
  /\ resource[replaced[g]] = "disposed"
  /\ pc' = [pc EXCEPT ![g] = "returned"]
  /\ UNCHANGED <<requestGeneration, activeGeneration, phase, executor, controllers,
                 aborted, resource, committedAs, lostExecutors, replaced>>

\* connect()'s finally(): forget the attempt, and leave 'connecting' if this
\* was the newest call and nothing is connected.
Settle(g) ==
  /\ pc[g] = "returned"
  /\ pc' = [pc EXCEPT ![g] = "settled"]
  /\ controllers' = controllers \ {g}
  /\ phase' = IF g = requestGeneration /\ executor = None /\ phase = "connecting"
              THEN "idle" ELSE phase
  /\ UNCHANGED <<requestGeneration, activeGeneration, executor, aborted, resource,
                 committedAs, lostExecutors, replaced>>

\* executor.dispose() settles; disposeQuietly() swallows its errors.
Disposed(e) ==
  /\ resource[e] = "disposing"
  /\ resource' = [resource EXCEPT ![e] = "disposed"]
  /\ UNCHANGED <<requestGeneration, activeGeneration, phase, executor, pc, controllers,
                 aborted, committedAs, lostExecutors, replaced>>

\* handleConnectionLost() passes its early return for executor e.
Heard(e) ==
  /\ executor = e
  /\ activeGeneration = committedAs[e]
  /\ e \notin lostExecutors

\* The rest of handleConnectionLost().
HandleConnectionLost(e) ==
  /\ lostExecutors' = lostExecutors \cup {e}
  /\ executor' = None
  /\ activeGeneration' = activeGeneration + 1
  /\ phase' = IF controllers # {} THEN "connecting" ELSE "idle"
  /\ resource' = [resource EXCEPT ![e] = "disposing"]
  /\ UNCHANGED <<requestGeneration, pc, controllers, aborted, committedAs, replaced>>

\* The target drops executor e.  The published one has registered its loss
\* callback, which runs at once; a candidate only remembers that it was lost.
Lose(e) ==
  /\ resource[e] = "live"
  /\ \/ Heard(e) /\ HandleConnectionLost(e)
     \/ /\ ~Heard(e)
        /\ resource' = [resource EXCEPT ![e] = "lost"]
        /\ UNCHANGED <<requestGeneration, activeGeneration, phase, executor, pc,
                       controllers, aborted, committedAs, lostExecutors, replaced>>

\* The microtask that SSHExecutor.onConnectionLost() queues when the loss came
\* before the callback was registered.
NotifyLost(e) ==
  /\ resource[e] = "lost"
  /\ Heard(e)
  /\ HandleConnectionLost(e)

\* disconnect(): aborts everything and unpublishes the executor.
Disconnect ==
  /\ requestGeneration < MaxRequests
  /\ LET g == requestGeneration + 1 IN
     /\ requestGeneration' = g
     /\ pc' = [pc EXCEPT ![g] = "draining"]
  /\ phase' = "disconnecting"
  /\ aborted' = aborted \cup controllers
  /\ controllers' = {}
  /\ executor' = None
  /\ activeGeneration' = activeGeneration + 1
  /\ resource' = [e \in Gens |-> IF e = executor THEN "disposing" ELSE resource[e]]
  /\ replaced' = [replaced EXCEPT ![requestGeneration + 1] = executor]
  /\ UNCHANGED <<committedAs, lostExecutors>>

\* disconnect() returns once its executor is disposed of and every attempt that
\* was pending when it was called has settled its promise.
Drained(g) ==
  /\ pc[g] = "draining"
  /\ replaced[g] # None => resource[replaced[g]] = "disposed"
  /\ \A h \in 1..(g - 1) : pc[h] \notin Attempting
  /\ pc' = [pc EXCEPT ![g] = "drained"]
  /\ phase' = IF g = requestGeneration THEN RestingPhase ELSE phase
  /\ UNCHANGED <<requestGeneration, activeGeneration, executor, controllers, aborted,
                 resource, committedAs, lostExecutors, replaced>>

\* What the event loop and the transports bring to an end by themselves.
Progress(g) ==
  \/ Built(g)
  \/ BuildFails(g)
  \/ Commit(g)
  \/ Refuse(g)
  \/ Closed(g)
  \/ Retired(g)
  \/ Settle(g)
  \/ Drained(g)

Next ==
  \/ Connect
  \/ Disconnect
  \/ \E g \in Gens : Progress(g)
  \/ \E e \in Gens : Disposed(e) \/ Lose(e) \/ NotifyLost(e)

\* Every awaited promise settles: the SSH handshake and each probe carry a
\* timeout, and SSHExecutor.dispose() waits a bounded time; a queued microtask
\* runs.  Nothing is assumed of the callers or of the target.
Fairness ==
  \A g \in Gens : WF_vars(Progress(g)) /\ WF_vars(Disposed(g)) /\ WF_vars(NotifyLost(g))

Safety == Init /\ [][Next]_vars
Spec == Safety /\ Fairness

-----------------------------------------------------------------------------
(***************************************************************************)
(* Properties                                                              *)
(***************************************************************************)

\* No executor is forgotten: one that still holds a connection to the target
\* is the published one or the candidate of an attempt that is still probing
\* it (connectAttempt(), disconnect() and handleConnectionLost() between them
\* dispose of every other one).
NoForgottenExecutor ==
  \A e \in Gens : resource[e] \in {"live", "lost"} => executor = e \/ pc[e] = "probing"

\* Once disconnect() is the newest call nothing is published any more, whatever
\* the attempts it cancelled still deliver.
DisconnectSticks ==
  requestGeneration # 0 /\ pc[requestGeneration] \in {"draining", "drained"}
    => executor = None

\* The loss callback of the published executor is never stale: neither guard of
\* handleConnectionLost() can make the manager ignore the loss of the
\* connection it is using.
LossIsHeard ==
  executor # None =>
    /\ committedAs[executor] = activeGeneration
    /\ executor \notin lostExecutors
    /\ resource[executor] \in {"live", "lost"}

\* phase never contradicts the published executor, and a published executor is
\* reported "connected" once every call has settled.  (With nothing published
\* the phase may stay "connecting": see the README.)
PhaseAgrees ==
  /\ phase = "connected" => executor # None
  /\ phase = "idle" => executor = None
  /\ executor # None /\ (\A g \in Gens : pc[g] \in {"none", "settled", "drained"})
       => phase = "connected"

\* Every connect() and disconnect() call returns and is cleaned up after.
CallsSettle ==
  <>[](\A g \in Gens : pc[g] \in {"none", "settled", "drained"})

\* In the end no connection that was lost is published, even when it was lost while
\* it was still a candidate with nobody listening.
LostIsUnpublished == executor # None => resource[executor] # "lost"

\* The manager implements Link: attempts that are superseded or cancelled never
\* publish, and a failed one leaves the old connection published.
AsLink ==
  INSTANCE Link WITH
    request <- requestGeneration,
    open <- requestGeneration # 0 /\ pc[requestGeneration] \in {"building", "probing"},
    link <- executor

ImplementsLink == AsLink!Spec
=============================================================================
