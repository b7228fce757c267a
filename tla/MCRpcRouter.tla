----------------------------- MODULE MCRpcRouter -----------------------------
(***************************************************************************)
(* RpcRouter for TLC.  The two halves of the router share the session and  *)
(* the protected reply only, so each is checked with the other one small,  *)
(* in one run: a behaviour is one of one half, its `part`, while the       *)
(* variables of the other stay in their initial state.  "input" has two    *)
(* browsers and no events; "events" has one browser, two frames and enough *)
(* events to fill its queue twice.                                         *)
(***************************************************************************)
EXTENDS RpcRouter

CONSTANTS
  Viewers, EventKinds,                 \* of the events: the browsers and their frames,
  EventFrames, EventPushes, EventQueue \* and the bounds

ASSUME EventAssumption ==
  /\ EventKinds \subseteq {"read", "send"} \cup Locking
  /\ {EventFrames, EventPushes} \subseteq Nat /\ EventQueue \in Nat \ {0}

VARIABLE part

VARIABLES eventClients, eventLock, eventFrames, eventPushes, eventLatest, eventRouter
eventVars == <<eventClients, eventLock, eventFrames, eventPushes, eventLatest, eventRouter>>
Event == INSTANCE RpcRouter WITH
  Clients <- Viewers, Watchers <- Viewers, Kinds <- EventKinds,
  MaxFrames <- EventFrames, MaxPushes <- EventPushes, MaxQueued <- EventQueue,
  clients <- eventClients, lock <- eventLock, frames <- eventFrames, pushes <- eventPushes,
  latest <- eventLatest, router <- eventRouter

AllInit == part \in {"input", "events"} /\ Init /\ Event!Init

AllNext ==
  /\ UNCHANGED part
  /\ \/ part = "input" /\ Next /\ UNCHANGED eventVars
     \/ part = "events" /\ Event!Next /\ UNCHANGED vars

AllSpec ==
  /\ AllInit /\ [][AllNext]_<<part, vars, eventVars>>
  /\ Fairness /\ Event!Fairness

-----------------------------------------------------------------------------
(***************************************************************************)
(* The properties of the events; those of the input keep their names.      *)
(***************************************************************************)

\* The events of a browser: streams stay whole and nothing is pushed to a session that
\* has ended (RpcRouter).
PushesAreSound == Event!TypeOK /\ Event!StreamIsWhole /\ Event!NothingAfterTheEnd

\* No wakeup of the queue of events is lost (RpcRouter).
EventsDrainAgain == Event!EventsDrain
=============================================================================
