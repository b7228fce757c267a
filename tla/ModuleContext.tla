----------------------------- MODULE ModuleContext -----------------------------
(***************************************************************************)
(* What the host hands to the instances of one module (modules-host.ts     *)
(* contextFor() with registerModuleHandler(), trackStream() and            *)
(* releaseResources()): a method, pollers and streams, which it takes back *)
(* when an instance is stopped or its activation throws, whatever the      *)
(* instance has or has not cleaned up itself.                              *)
(*                                                                         *)
(* activate() and dispose() are synchronous: `use` is what one of them or  *)
(* a callback of the module asks its context for.  One method stands for   *)
(* those of the manifest, and one poller for those of an instance, whose   *)
(* calls all go through active().  When an instance is started and stopped *)
(* is ModulesHost.                                                         *)
(***************************************************************************)
EXTENDS Naturals

CONSTANTS
  Machines,
  MaxLives,   \* bound on the instances of each machine, one after the other
  Streams     \* streams that are open or opening at a time

Lives == Machines \X (1..MaxLives)
MachineOf(l) == l[1]
NumberOf(l) == l[2]
None == 0
Idle == [by |-> <<>>, state |-> "none"]
Uses == [handle : BOOLEAN, poll : BOOLEAN, open : SUBSET Streams]

VARIABLES
  lives,    \* "none", "live", or "revoked"
  table,    \* rpcHandlers.get(channel): the instance of each machine that answers
  pollers,  \* instances whose poller is running
  streams,  \* who asked for each stream, and how far it has got
  tracked   \* live.streams of all instances

vars == <<lives, table, pollers, streams, tracked>>

TypeOK ==
  /\ lives \in [Lives -> {"none", "live", "revoked"}]
  /\ table \in [Machines -> 0..MaxLives]
  /\ pollers \subseteq Lives
  /\ streams \in [Streams -> [by : Lives, state : {"opening", "running", "killed"}] \cup {Idle}]
  /\ tracked \subseteq Streams

Init ==
  /\ lives = [l \in Lives |-> "none"] /\ table = [m \in Machines |-> None]
  /\ pollers = {} /\ streams = [s \in Streams |-> Idle] /\ tracked = {}

\* No instance of the machine before this one is live: there is none after it.
Free(l) ==
  /\ lives[l] = "none"
  /\ \A k \in 1..NumberOf(l) - 1 : lives[<<MachineOf(l), k>>] = "revoked"

-----------------------------------------------------------------------------
(***************************************************************************)
(* Mutants: plausible mistakes in the code, not part of the specification. *)
(***************************************************************************)

\* Opened: trackStream() does not look whether the instance was stopped meanwhile.
OpenedUnseen(s) ==
  /\ streams[s].state = "opening"
  /\ streams' = [streams EXCEPT ![s].state = "running"] /\ tracked' = tracked \cup {s}
  /\ UNCHANGED <<lives, table, pollers>>

-----------------------------------------------------------------------------

\* What an instance asks for: handle() throws when the method is registered already.
Allowed(l, use) ==
  /\ use.handle => table[MachineOf(l)] = None
  /\ \A s \in use.open : streams[s] = Idle

Handled(l, use) == IF use.handle THEN [table EXCEPT ![MachineOf(l)] = NumberOf(l)] ELSE table
Opening(l, use, all) ==
  [s \in Streams |-> IF s \in use.open THEN [by |-> l, state |-> "opening"] ELSE all[s]]
Of(l) == {s \in tracked : streams[s].by = l}

\* live.revoked = true and releaseResources(), after a last use of the context.
Release(l, use) ==
  /\ lives' = [lives EXCEPT ![l] = "revoked"]
  /\ table' = [m \in Machines |->
       IF m = MachineOf(l) /\ table[m] = NumberOf(l) THEN None ELSE table[m]]
  /\ pollers' = pollers \ {l}
  /\ streams' = Opening(l, use, [s \in Streams |->
       IF s \in Of(l) THEN [streams[s] EXCEPT !.state = "killed"] ELSE streams[s]])
  /\ tracked' = tracked \ Of(l)

\* activateOnce(), when activate() has returned.
Activate(l, use) ==
  /\ Free(l) /\ Allowed(l, use)
  /\ lives' = [lives EXCEPT ![l] = "live"]
  /\ table' = Handled(l, use)
  /\ pollers' = IF use.poll THEN pollers \cup {l} ELSE pollers
  /\ streams' = Opening(l, use, streams)
  /\ UNCHANGED tracked

\* It has thrown, or its instance is not wanted any more: disposeCandidate().
ActivateFails(l, use) == Free(l) /\ Allowed(l, use) /\ Release(l, use)

\* A callback or handler of the module runs.
Work(l, use) ==
  /\ lives[l] = "live" /\ Allowed(l, use)
  /\ table' = Handled(l, use)
  /\ pollers' = IF use.poll THEN pollers \cup {l} ELSE pollers \ {l}
  /\ streams' = Opening(l, use, streams)
  /\ UNCHANGED <<lives, tracked>>

\* The module kills a stream of its own, which is tracked until it exits.
Kill(s) ==
  /\ s \in tracked /\ streams[s].state = "running"
  /\ streams' = [streams EXCEPT ![s].state = "killed"]
  /\ UNCHANGED <<lives, table, pollers, tracked>>

\* deactivate(): dispose() still has its context.
Deactivate(l, use) == lives[l] = "live" /\ Allowed(l, use) /\ Release(l, use)

\* The executor has answered: trackStream() after its await.
Opened(s) ==
  /\ streams[s].state = "opening"
  /\ IF lives[streams[s].by] = "revoked"
     THEN streams' = [streams EXCEPT ![s].state = "killed"] /\ UNCHANGED tracked
     ELSE /\ streams' = [streams EXCEPT ![s].state = "running"]
          /\ tracked' = tracked \cup {s}
  /\ UNCHANGED <<lives, table, pollers>>

\* It could not be opened.
Refused(s) ==
  /\ streams[s].state = "opening"
  /\ streams' = [streams EXCEPT ![s] = Idle]
  /\ UNCHANGED <<lives, table, pollers, tracked>>

\* The command has ended by itself, or was killed.
Exit(s) ==
  /\ streams[s].state \in {"running", "killed"}
  /\ streams' = [streams EXCEPT ![s] = Idle] /\ tracked' = tracked \ {s}
  /\ UNCHANGED <<lives, table, pollers>>

Next ==
  \/ \E l \in Lives, use \in Uses :
       Activate(l, use) \/ ActivateFails(l, use) \/ Work(l, use) \/ Deactivate(l, use)
  \/ \E s \in Streams : Kill(s) \/ Opened(s) \/ Refused(s) \/ Exit(s)

\* The executor answers in the end, and what is killed ends.
Fairness ==
  \A s \in Streams : /\ WF_vars(Opened(s) \/ Refused(s))
                     /\ WF_vars(streams[s].state = "killed" /\ Exit(s))

Spec == Init /\ [][Next]_vars /\ Fairness

-----------------------------------------------------------------------------
(***************************************************************************)
(* Properties.                                                             *)
(***************************************************************************)

\* Nothing of an instance that was stopped, or whose activation threw, runs on: its
\* poller has stopped, it answers no call, and of its streams none runs unkilled, not
\* even one that was asked for before and opens later (modules-host.ts:1474-1478).
NothingOutlives ==
  \A l \in Lives : lives[l] = "revoked" =>
    /\ l \notin pollers /\ table[MachineOf(l)] # NumberOf(l)
    /\ \A s \in Streams : streams[s].by = l => streams[s].state # "running"

\* What is tracked is "still running", not "ever started" (modules-host.ts:1466-1467).
TrackedRun ==
  \A s \in Streams : streams[s].state = "running" <=>
                       (s \in tracked /\ streams[s].state # "killed")

ContextAgrees == NothingOutlives /\ TrackedRun

\* In the end no stream of a stopped instance is left.
Settled == \A s \in Streams : streams[s] # Idle => lives[streams[s].by] = "live"

=============================================================================
