---------------------------- MODULE SshChannels -----------------------------
(***************************************************************************)
(* The channels of one SSHExecutor (server/executors/ssh.ts): commands and *)
(* streams share a few permits (ChannelSemaphore), end by their timeout,   *)
(* their caller or the disposal, and are killed in two steps.              *)
(*                                                                         *)
(* The server of the machine and ssh2 may answer late or never; only       *)
(* timers are relied on.                                                   *)
(***************************************************************************)
EXTENDS Integers, Sequences, FiniteSets, SequencesExt

CONSTANTS
  Execs,      \* calls of exec()
  Handles,    \* calls of stream() and shell()
  MaxActive,  \* maxChannels
  MaxQueued   \* maxQueuedChannels

Ops == Execs \cup Handles

VARIABLES
  op,        \* stage of each operation
  aborted,   \* operations with an OperationAbort.reason
  kill,      \* how far the killing of its channel has gone
  channel,   \* the channel it asked ssh2 for
  active,    \* ChannelSemaphore.active
  queue,     \* ChannelSemaphore.queue
  disposed   \* "no", or the part of dispose() that is done

vars == <<op, aborted, kill, channel, active, queue, disposed>>

TypeOK ==
  /\ op \in [Ops -> {"idle", "queued", "granted", "opening", "running", "settled"}]
  /\ aborted \subseteq Ops
  /\ kill \in [Ops -> {"no", "term", "kill"}]
  /\ channel \in [Ops -> {"none", "asked", "open", "closing", "closed"}]
  /\ active \in 0..MaxActive
  /\ queue \in BoundedSeq(Ops, MaxQueued)
  /\ disposed \in {"no", "begun", "done"}

Init ==
  /\ op = [o \in Ops |-> "idle"] /\ aborted = {}
  /\ kill = [o \in Ops |-> "no"] /\ channel = [o \in Ops |-> "none"]
  /\ active = 0 /\ queue = <<>> /\ disposed = "no"

-----------------------------------------------------------------------------
(***************************************************************************)
(* Mutants: plausible mistakes in the code, not part of the specification. *)
(***************************************************************************)

\* Settle: the permit is not given back.
SettleHoldingPermit(o) ==
  /\ op' = [op EXCEPT ![o] = "settled"]
  /\ UNCHANGED <<active, queue>>

-----------------------------------------------------------------------------
(***************************************************************************)
(* ChannelSemaphore.                                                       *)
(***************************************************************************)

\* acquire()
Acquire(o) ==
  IF active < MaxActive
  THEN active' = active + 1 /\ op' = [op EXCEPT ![o] = "granted"] /\ queue' = queue
  ELSE IF Len(queue) < MaxQueued
  THEN queue' = Append(queue, o) /\ op' = [op EXCEPT ![o] = "queued"] /\ active' = active
  ELSE op' = [op EXCEPT ![o] = "settled"] /\ UNCHANGED <<active, queue>>

\* An operation that holds a permit settles: the permit goes to the head of the
\* queue.
Settle(o) ==
  IF queue = <<>>
  THEN /\ active' = active - 1 /\ queue' = queue
       /\ op' = [op EXCEPT ![o] = "settled"]
  ELSE /\ queue' = Tail(queue) /\ active' = active
       /\ op' = [op EXCEPT ![o] = "settled", ![Head(queue)] = "granted"]

-----------------------------------------------------------------------------
(***************************************************************************)
(* The operations.                                                         *)
(***************************************************************************)

\* exec(), stream() or shell(), unless the executor is disposed of.
Start(o) ==
  /\ op[o] = "idle" /\ disposed = "no"
  /\ Acquire(o)
  /\ UNCHANGED <<aborted, kill, channel, disposed>>

\* requestChannel() goes on with its permit.
Request(o) ==
  /\ op[o] = "granted"
  /\ IF o \in aborted
     THEN Settle(o) /\ UNCHANGED channel
     ELSE /\ op' = [op EXCEPT ![o] = "opening"] /\ channel' = [channel EXCEPT ![o] = "asked"]
          /\ UNCHANGED <<active, queue>>
  /\ UNCHANGED <<aborted, kill, disposed>>

\* OperationAbort.stop(): by the timer, the caller or too much output.  A stream
\* that is open has no timeout any more.
Abort(o) ==
  /\ o \notin aborted
  /\ aborted' = aborted \cup {o}
  /\ \/ /\ op[o] = "queued"
        /\ \E i \in 1..Len(queue) : queue[i] = o /\ queue' = RemoveAt(queue, i)
        /\ op' = [op EXCEPT ![o] = "settled"]
        /\ UNCHANGED <<active, kill>>
     \/ op[o] = "granted" /\ UNCHANGED <<op, active, queue, kill>>
     \/ op[o] = "opening" /\ Settle(o) /\ UNCHANGED kill
     \/ /\ op[o] = "running" /\ o \in Execs
        /\ kill' = [kill EXCEPT ![o] = "term"]
        /\ UNCHANGED <<op, active, queue>>
  /\ UNCHANGED <<channel, disposed>>

\* ssh2 opens the channel; one that comes too late is closed at once.
ChannelOpens(o) ==
  /\ channel[o] = "asked"
  /\ channel' = [channel EXCEPT ![o] = IF op[o] = "opening" THEN "open" ELSE "closing"]
  /\ op' = [op EXCEPT ![o] = IF @ = "opening" THEN "running" ELSE @]
  /\ UNCHANGED <<aborted, kill, active, queue, disposed>>

OpenFails(o) ==
  /\ channel[o] = "asked"
  /\ channel' = [channel EXCEPT ![o] = "none"]
  /\ IF op[o] = "opening" THEN Settle(o) ELSE UNCHANGED <<op, active, queue>>
  /\ UNCHANGED <<aborted, kill, disposed>>

\* The command ends, or the channel that is being closed does.
ChannelCloses(o) ==
  /\ channel[o] \in {"open", "closing"}
  /\ channel' = [channel EXCEPT ![o] = "closed"]
  /\ IF op[o] = "running" THEN Settle(o) ELSE UNCHANGED <<op, active, queue>>
  /\ UNCHANGED <<aborted, kill, disposed>>

\* A channel error ends a command at once, a stream when its channel closes.
ChannelFails(o) ==
  /\ channel[o] = "open"
  /\ channel' = [channel EXCEPT ![o] = "closing"]
  /\ IF o \in Execs THEN Settle(o) ELSE UNCHANGED <<op, active, queue>>
  /\ UNCHANGED <<aborted, kill, disposed>>

\* kill() of a handle: SIGTERM, and a timer for the rest.
Kill(o) ==
  /\ o \in Handles /\ op[o] = "running" /\ kill[o] = "no"
  /\ kill' = [kill EXCEPT ![o] = "term"]
  /\ UNCHANGED <<op, aborted, channel, active, queue, disposed>>

\* The first grace period is over: SIGKILL and close.
KillHard(o) ==
  /\ kill[o] = "term" /\ op[o] = "running"
  /\ kill' = [kill EXCEPT ![o] = "kill"]
  /\ channel' = [channel EXCEPT ![o] = "closing"]
  /\ UNCHANGED <<op, aborted, active, queue, disposed>>

\* So is the second: the operation ends without its channel.
Force(o) ==
  /\ kill[o] = "kill" /\ op[o] = "running"
  /\ Settle(o)
  /\ UNCHANGED <<aborted, kill, channel, disposed>>

-----------------------------------------------------------------------------
(***************************************************************************)
(* dispose().                                                              *)
(***************************************************************************)

\* The queue is rejected, operations that open a channel give up, and what runs
\* is killed.
Dispose ==
  LET Opening == {o \in Ops : op[o] = "opening"}
      Running == {o \in Ops : op[o] = "running"} IN
  /\ disposed = "no" /\ disposed' = "begun"
  /\ queue' = <<>> /\ active' = active - Cardinality(Opening)
  /\ op' = [o \in Ops |-> IF op[o] = "queued" \/ o \in Opening THEN "settled" ELSE op[o]]
  /\ aborted' = aborted \cup {o \in Ops : op[o] \in {"queued", "granted", "opening"}}
                        \cup (Running \cap Execs)
  /\ kill' = [o \in Ops |-> IF o \in Running /\ kill[o] = "no" THEN "term" ELSE kill[o]]
  /\ UNCHANGED channel

\* All have settled, or the bounded wait is over: what is still open is closed.
Disposed ==
  /\ disposed = "begun" /\ disposed' = "done"
  /\ channel' = [o \in Ops |-> IF channel[o] = "open" THEN "closing" ELSE channel[o]]
  /\ UNCHANGED <<op, aborted, kill, active, queue>>

Next ==
  \/ \E o \in Ops :
       \/ Start(o) \/ Request(o) \/ Abort(o)
       \/ ChannelOpens(o) \/ OpenFails(o) \/ ChannelCloses(o) \/ ChannelFails(o)
       \/ Kill(o) \/ KillHard(o) \/ Force(o)
  \/ Dispose \/ Disposed

Safety == Init /\ [][Next]_vars

\* Timers fire and promises that are settled go on.
Fairness ==
  /\ \A o \in Ops : WF_vars(Request(o)) /\ WF_vars(Abort(o)) /\ WF_vars(KillHard(o) \/ Force(o))
  /\ WF_vars(Disposed)

Spec == Safety /\ Fairness

-----------------------------------------------------------------------------
(***************************************************************************)
(* Properties.                                                             *)
(***************************************************************************)

\* The count of the semaphore is that of the operations that hold a permit: none
\* is lost or given back twice, whichever of the many ends an operation has.
PermitsAreCounted ==
  active = Cardinality({o \in Ops : op[o] \in {"granted", "opening", "running"}})

\* Nobody waits while a permit is free or after the disposal, and the queue holds
\* exactly those who wait (ssh.ts:98-109).
NobodyWaitsInVain ==
  /\ queue # <<>> => active = MaxActive /\ disposed = "no"
  /\ ToSet(queue) = {o \in Ops : op[o] = "queued"} /\ IsInjective(queue)

\* No channel is left open by an operation that is over, not even one that ssh2
\* opens after its caller has gone, nor by the disposal (ssh.ts:714-718).
NoStrayChannel ==
  \A o \in Ops : channel[o] = "open" => op[o] = "running" /\ disposed # "done"

ChannelsAreBounded == PermitsAreCounted /\ NobodyWaitsInVain /\ NoStrayChannel

\* In the end every command has settled although its channel may never open or
\* close; so has a stream that was not open yet or was killed, and everything after
\* the disposal.
Settled ==
  \A o \in Ops :
    \/ op[o] \in {"idle", "settled"}
    \/ o \in Handles /\ op[o] = "running" /\ kill[o] = "no" /\ disposed = "no"

=============================================================================
