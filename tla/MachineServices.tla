-------------------------- MODULE MachineServices --------------------------
(***************************************************************************)
(* What runs on behalf of one machine, and how server/ipc.ts stops and     *)
(* restarts it: the system collector (services/poller.ts, metrics.ts), its *)
(* history (history.ts), the terminals (terminals.ts) and the package      *)
(* action (packages.ts).                                                   *)
(*                                                                         *)
(* Links (published executors) and machine contexts are numbers, in the    *)
(* order of creation.  A reconnect gives a context a new link, a loss or a *)
(* disconnect drops the context.  MachinePool has the requests that do so; *)
(* here a commit is one event, followed by the return of connectTarget().  *)
(***************************************************************************)
EXTENDS Naturals

CONSTANTS
  MaxContexts,  \* bound on the machine contexts created
  MaxLinks,     \* bound on the links published
  Shells,       \* terminal requests
  Uses          \* sets of services a behaviour may use

Contexts == 1..MaxContexts
Links == 1..MaxLinks
None == 0

\* The connection, as far as the services see it.
VARIABLES
  used,      \* the services of this behaviour; collecting is off by the settings
             \* without "collector"
  pool,      \* the pooled context, None when the machine is not connected
  contexts,  \* number of contexts created so far
  link,      \* the link each context's manager publishes
  links,     \* number of links published so far
  returning, \* the context whose connectTarget() has not returned yet
  server     \* "open", or the last step of the clean close that is done

\* The collector and the history of each context.
VARIABLES
  polling,   \* Poller.running
  tick,      \* the sample in flight: the link it is from, or stale, or none
  base,      \* link the baseline of the rates was sampled on (prev)
  pending,   \* contexts whose history holds samples not yet on disk
  timer,     \* contexts whose history flushes on a timer
  enabled,   \* settings.history.enabled
  dropped    \* a batch was discarded while the disk was working

\* The terminals.
VARIABLES
  shell,     \* stage of each terminal
  on,        \* link its shell was opened on
  announced, \* how often its exit was emitted
  ended      \* terminals whose handle reported its exit

\* The package action.
VARIABLES
  run,       \* the runAction() that holds the "packages" lock
  action,    \* link of the tracked action of each context
  shown,     \* contexts whose latest emitted state says running
  stray      \* contexts with a killed action whose exit is still to come

connection == <<used, pool, contexts, link, links, returning, server>>
collector == <<polling, tick, base, pending, timer, enabled, dropped>>
terminals == <<shell, on, announced, ended>>
packages == <<run, action, shown, stray>>
vars == <<connection, collector, terminals, packages>>

Idle == [stage |-> "idle"]
NoTick == [state |-> "none"]

TypeOK ==
  /\ used \in Uses
  /\ pool \in Contexts \cup {None} /\ returning \in Contexts \cup {None}
  /\ contexts \in 0..MaxContexts /\ links \in 0..MaxLinks
  /\ link \in [Contexts -> Links \cup {None}]
  /\ server \in {"open", "stopped", "flushed", "disconnected", "closed"}
  /\ polling \subseteq Contexts /\ pending \subseteq Contexts /\ timer \subseteq Contexts
  /\ tick \in [Contexts -> {NoTick} \cup [state : {"fresh", "stale"}, link : Links \cup {None}]]
  /\ base \in [Contexts -> Links \cup {None}]
  /\ enabled \in BOOLEAN /\ dropped \in BOOLEAN
  /\ shell \in [Shells -> {"idle", "opening", "registered", "gone", "failed"}]
  /\ on \in [Shells -> Links \cup {None}]
  /\ announced \in [Shells -> 0..2] /\ ended \subseteq Shells
  /\ run \in {Idle} \cup [stage : {"detecting"}, ctx : Contexts]
                    \cup [stage : {"opening"}, ctx : Contexts, link : Links]
  /\ action \in [Contexts -> Links \cup {None}]
  /\ shown \subseteq Contexts /\ stray \subseteq Contexts

Init ==
  /\ used \in Uses
  /\ pool = None /\ contexts = 0 /\ links = 0 /\ returning = None /\ server = "open"
  /\ link = [c \in Contexts |-> None]
  /\ polling = {} /\ pending = {} /\ timer = {}
  /\ tick = [c \in Contexts |-> NoTick]
  /\ base = [c \in Contexts |-> None]
  /\ enabled \in {b \in BOOLEAN : b => "collector" \in used} /\ dropped = FALSE
  /\ shell = [s \in Shells |-> "idle"] /\ on = [s \in Shells |-> None]
  /\ announced = [s \in Shells |-> 0] /\ ended = {}
  /\ run = Idle /\ shown = {} /\ stray = {}
  /\ action = [c \in Contexts |-> None]

Alive(l) == \E c \in Contexts : link[c] = l
Up == {c \in Contexts : link[c] # None}

-----------------------------------------------------------------------------
(***************************************************************************)
(* Mutants: plausible mistakes in the code, not part of the specification. *)
(***************************************************************************)

\* Reset: the revision is not changed, so that a late sample still counts.
ResetForgetsRevision(C) ==
  /\ base' = [c \in Contexts |-> IF c \in C THEN None ELSE base[c]]
  /\ tick' = tick

-----------------------------------------------------------------------------
(***************************************************************************)
(* The pieces that teardownMachine() and applyPollers() are made of.  C is *)
(* the set of contexts concerned.                                          *)
(***************************************************************************)

\* SystemMetricsService.reset(): a sample in flight belongs to an older
\* revision from now on.
Reset(C) ==
  /\ base' = [c \in Contexts |-> IF c \in C THEN None ELSE base[c]]
  /\ tick' = [c \in Contexts |-> IF c \in C /\ tick[c] # NoTick
                                 THEN [tick[c] EXCEPT !.state = "stale"] ELSE tick[c]]

\* What MetricsHistoryService.flush() of C leaves pending; with the history
\* switched off it forgets the batch.
FlushOf(C, on_) ==
  /\ pending' = pending \ C
  /\ dropped' = (dropped \/ (~on_ /\ pending \cap C # {}))

\* PackagesService.cancelAction(): the handle is killed and forgotten, and the
\* end announced.
CancelActions(C) ==
  /\ action' = [c \in Contexts |-> IF c \in C THEN None ELSE action[c]]
  /\ shown' = shown \ {c \in C : action[c] # None}
  /\ stray' = stray \cup {c \in C : action[c] # None}

\* TerminalService.dispose() of every session of the machine.
DisposeShells(S) ==
  /\ shell' = [s \in Shells |-> IF s \in S /\ shell[s] = "registered" THEN "gone" ELSE shell[s]]
  /\ announced' = [s \in Shells |-> IF s \in S /\ shell[s] = "registered"
                                    THEN announced[s] + 1 ELSE announced[s]]
  /\ UNCHANGED <<on, ended>>

\* teardownMachine() with all its parts.
Teardown(C) ==
  /\ polling' = polling \ C
  /\ CancelActions(C)
  /\ FlushOf(C, enabled) /\ timer' = timer \ C
  /\ DisposeShells(IF C = {} THEN {} ELSE Shells)
  /\ Reset(C)
  /\ UNCHANGED <<enabled, run>>

\* The contexts applyPollers() has a collector to start for.
Polled == {c \in Up \cap {pool} : "collector" \in used}

\* applyPollers() for the connected machine, unless the server shuts down.
ApplyPollers(settings) ==
  /\ polling' = IF server = "open" THEN polling \cup Polled ELSE polling \ Polled
  /\ timer' = IF server # "open" THEN timer
              ELSE IF settings THEN timer \cup (Up \cap {pool}) ELSE timer \ {pool}

-----------------------------------------------------------------------------
(***************************************************************************)
(* The connection.                                                         *)
(***************************************************************************)

\* An attempt commits: a first one in a new context, a reconnect in that of the
\* pool, whose old link is torn down first (beforeSwap).  The clean close has
\* cancelled every attempt once it has disconnected the pool.
Commit ==
  LET c == IF pool = None THEN contexts + 1 ELSE pool IN
  /\ returning = None /\ server \in {"open", "stopped", "flushed"}
  /\ c \in Contexts /\ links < MaxLinks
  /\ pool' = c /\ returning' = c
  /\ contexts' = IF pool = None THEN c ELSE contexts
  /\ links' = links + 1 /\ link' = [link EXCEPT ![c] = links + 1]
  /\ Teardown({c} \cap Up)
  /\ UNCHANGED <<used, server>>

\* The rest of connectTarget(), for a context that may have left the pool.
Return ==
  /\ returning # None
  /\ returning' = None
  /\ Reset({returning}) /\ CancelActions({returning})
  /\ polling' = IF server = "open" THEN polling \cup Polled ELSE polling \ Polled
  /\ timer' = IF enabled THEN timer \cup {returning} ELSE timer \ {returning}
  /\ UNCHANGED <<used, pool, contexts, link, links, server, pending, enabled, dropped,
                 terminals, run>>

\* The link drops (onLost), or conn:disconnect, which waits for the lock that a
\* connect holds.
Leave ==
  /\ pool \in Up
  /\ pool' = None /\ link' = [link EXCEPT ![pool] = None]
  /\ Teardown({pool})
  /\ UNCHANGED <<used, contexts, links, returning, server>>

\* Any other event that calls applyPollers(): a browser changes its tab or goes.
Apply ==
  /\ ApplyPollers(enabled)
  /\ UNCHANGED <<connection, tick, base, pending, enabled, dropped, terminals, packages>>

-----------------------------------------------------------------------------
(***************************************************************************)
(* The collector and the history.                                          *)
(***************************************************************************)

\* The loop of Poller.start(), at once or by its interval: no second sample is
\* begun while one is in flight, not even one of an earlier start.
TickStarts(c) ==
  /\ c \in polling /\ c \in Up /\ tick[c] = NoTick
  /\ tick' = [tick EXCEPT ![c] = [state |-> "fresh", link |-> link[c]]]
  /\ UNCHANGED <<connection, polling, base, pending, timer, enabled, dropped,
                 terminals, packages>>

\* readFiles() is not available: what is sampled is read with a command, on the
\* link that is published by now.
TickFallsBack(c) ==
  /\ tick[c] # NoTick /\ tick[c].link # link[c]
  /\ tick' = [tick EXCEPT ![c].link = link[c]]
  /\ UNCHANGED <<connection, polling, base, pending, timer, enabled, dropped,
                 terminals, packages>>

\* The sample ends: an outdated or failed one changes nothing, the first one is
\* the baseline, and any other is a snapshot, which goes to the history of
\* whichever context is pooled.
TickEnds(c) ==
  /\ tick[c] # NoTick
  /\ tick' = [tick EXCEPT ![c] = NoTick]
  /\ \/ UNCHANGED <<base, pending>>
     \/ /\ tick[c].state = "fresh"
        /\ base' = [base EXCEPT ![c] = tick[c].link]
        /\ pending' = IF base[c] # None /\ pool # None /\ enabled
                      THEN pending \cup {pool} ELSE pending
  /\ UNCHANGED <<connection, polling, timer, enabled, dropped, terminals, packages>>

\* flush() by its timer or by history:flush; a disk that fails costs the batch.
Flush(c) ==
  /\ c \in timer \/ c = pool
  /\ c \in pending
  /\ FlushOf({c}, enabled)
  /\ UNCHANGED <<connection, polling, tick, base, timer, enabled, terminals, packages>>

\* history:purge
Purge ==
  /\ pool \in Up
  /\ pending' = pending \ {pool}
  /\ UNCHANGED <<connection, polling, tick, base, timer, enabled, dropped,
                 terminals, packages>>

\* settings:set switches the history: configure() replaces the settings before
\* it flushes.
SwitchHistory ==
  /\ "collector" \in used
  /\ enabled' = ~enabled
  /\ IF enabled THEN FlushOf(Up \cap {pool}, enabled') ELSE UNCHANGED <<pending, dropped>>
  /\ ApplyPollers(enabled')
  /\ UNCHANGED <<connection, tick, base, terminals, packages>>

-----------------------------------------------------------------------------
(***************************************************************************)
(* The terminals.                                                          *)
(***************************************************************************)

CreateShell(s) ==
  /\ "terminals" \in used /\ shell[s] = "idle" /\ pool \in Up
  /\ shell' = [shell EXCEPT ![s] = "opening"]
  /\ on' = [on EXCEPT ![s] = link[pool]]
  /\ UNCHANGED <<connection, collector, announced, ended, packages>>

\* The shell is open, or it was opened and killed because its executor is gone:
\* the session is registered either way.
ShellOpened(s) ==
  /\ shell[s] = "opening"
  /\ shell' = [shell EXCEPT ![s] = "registered"]
  /\ UNCHANGED <<connection, collector, on, announced, ended, packages>>

ShellFails(s) ==
  /\ shell[s] = "opening"
  /\ shell' = [shell EXCEPT ![s] = "failed"]
  /\ UNCHANGED <<connection, collector, on, announced, ended, packages>>

\* term:dispose
CloseShell(s) ==
  /\ shell[s] = "registered"
  /\ DisposeShells({s})
  /\ UNCHANGED <<connection, collector, packages>>

\* The handle reports its exit; a session that was disposed of is not the
\* registered one any more.
ShellExits(s) ==
  /\ shell[s] \in {"registered", "gone"} /\ s \notin ended
  /\ ended' = ended \cup {s}
  /\ shell' = [shell EXCEPT ![s] = "gone"]
  /\ announced' = [announced EXCEPT ![s] = IF shell[s] = "registered" THEN @ + 1 ELSE @]
  /\ UNCHANGED <<connection, collector, on, packages>>

-----------------------------------------------------------------------------
(***************************************************************************)
(* The package action.                                                     *)
(***************************************************************************)

\* runAction() up to its await of detect(), under the "packages" lock.
RunAction ==
  /\ "packages" \in used
  /\ run = Idle /\ pool \in Up /\ action[pool] = None
  /\ run' = [stage |-> "detecting", ctx |-> pool]
  /\ UNCHANGED <<connection, collector, terminals, action, shown, stray>>

\* streamSudo() begins on the link that is published by now.
Detected ==
  /\ run.stage = "detecting" /\ run.ctx \in Up
  /\ run' = [stage |-> "opening", ctx |-> run.ctx, link |-> link[run.ctx]]
  /\ UNCHANGED <<connection, collector, terminals, action, shown, stray>>

\* The stream is there.  trackStream() refuses it when the link has changed.
ActionStarts ==
  /\ run.stage = "opening" /\ link[run.ctx] = run.link
  /\ action' = [action EXCEPT ![run.ctx] = run.link]
  /\ shown' = shown \cup {run.ctx}
  /\ run' = Idle
  /\ UNCHANGED <<connection, collector, terminals, stray>>

ActionRefused ==
  /\ run # Idle
  /\ run' = Idle
  /\ UNCHANGED <<connection, collector, terminals, action, shown, stray>>

ActionExits(c) ==
  /\ action[c] # None
  /\ action' = [action EXCEPT ![c] = None]
  /\ shown' = shown \ {c}
  /\ UNCHANGED <<connection, collector, terminals, run, stray>>

\* The exit of a handle that was cancelled is not that of the tracked action.
StrayExits(c) ==
  /\ c \in stray
  /\ stray' = stray \ {c}
  /\ UNCHANGED <<connection, collector, terminals, run, action, shown>>

\* packages:cancel, which waits for the lock.
CancelAction ==
  /\ run = Idle /\ pool \in Up
  /\ CancelActions({pool})
  /\ UNCHANGED <<connection, collector, terminals, run>>

-----------------------------------------------------------------------------
(***************************************************************************)
(* The steps of cleanClose().                                              *)
(***************************************************************************)

\* stopHostServices: teardownMachine() without the history and the terminals.
StopHostServices ==
  /\ server = "open" /\ server' = "stopped"
  /\ LET C == Up \cap {pool} IN
     /\ polling' = polling \ C
     /\ CancelActions(C)
     /\ Reset(C)
  /\ UNCHANGED <<used, pool, contexts, link, links, returning, pending, timer, enabled, dropped,
                 terminals, run>>

FlushHistory ==
  /\ server = "stopped" /\ server' = "flushed"
  /\ FlushOf(Up \cap {pool}, enabled)
  /\ timer' = timer \ (Up \cap {pool})
  /\ UNCHANGED <<used, pool, contexts, link, links, returning, polling, tick, base, enabled,
                 terminals, packages>>

\* disconnectAll(), from where the managers forget their executors.
DisconnectAll ==
  /\ server = "flushed" /\ server' = "disconnected"
  /\ pool' = None
  /\ link' = [c \in Contexts |-> None]
  /\ UNCHANGED <<used, contexts, links, returning, collector, terminals, packages>>

\* disposeTerminals and disposeRegistry: timers that were started late stop.
DisposeRest ==
  /\ server = "disconnected" /\ server' = "closed"
  /\ DisposeShells(Shells)
  /\ timer' = {} /\ polling' = {}
  /\ UNCHANGED <<used, pool, contexts, link, links, returning, tick, base, pending, enabled,
                 dropped, packages>>

Close == StopHostServices \/ FlushHistory \/ DisconnectAll \/ DisposeRest

-----------------------------------------------------------------------------

Connects == Commit \/ Return \/ Leave \/ Apply

Collects ==
  \/ \E c \in Contexts : TickStarts(c) \/ TickFallsBack(c) \/ TickEnds(c) \/ Flush(c)
  \/ Purge \/ SwitchHistory

Types ==
  \E s \in Shells :
    CreateShell(s) \/ ShellOpened(s) \/ ShellFails(s) \/ CloseShell(s) \/ ShellExits(s)

Installs ==
  \/ RunAction \/ Detected \/ ActionStarts \/ ActionRefused \/ CancelAction
  \/ \E c \in Contexts : ActionExits(c) \/ StrayExits(c)

Next == Connects \/ Collects \/ Types \/ Installs \/ Close

\* Timers fire, commands and handshakes end by their timeouts, and a handle whose
\* connection is gone reports its exit.
Safety == Init /\ [][Next]_vars

Fairness ==
  /\ \A c \in Contexts :
       /\ WF_vars(TickStarts(c)) /\ WF_vars(TickEnds(c)) /\ WF_vars(Flush(c))
       /\ WF_vars(action[c] # link[c] /\ ActionExits(c))
  /\ \A s \in Shells : WF_vars(~Alive(on[s]) /\ ShellExits(s))

Spec == Safety /\ Fairness

-----------------------------------------------------------------------------
(***************************************************************************)
(* Properties.                                                             *)
(***************************************************************************)

\* The rates of the collector are differences of samples of one connection, the
\* present one, although a sample may straddle a reconnect or a loss
\* (metrics.ts:145 compares the revision it began with).
RatesOfOneLink == \A c \in Contexts : base[c] # None => base[c] = link[c]

\* The browsers are told that a package action runs exactly while one does, and
\* while the server is open it runs on the link that is published: a cancel, a
\* teardown and the exit of the stream end it once each (packages.ts:387-416).
ActionsAreShown ==
  \A c \in Contexts :
    /\ c \in shown <=> action[c] # None
    /\ server \in {"open", "stopped"} => action[c] \in {None, link[c]}

\* The end of a terminal is announced exactly once, whether its shell exited, was
\* closed, or was opened on an executor that had gone (terminals.ts:111-158).
ShellsEndOnce == \A s \in Shells : announced[s] = IF shell[s] = "gone" THEN 1 ELSE 0

\* Once the clean close has flushed the histories nothing is added to them
\* (clean-close.ts:27: "Producers are now stopped").
FlushIsLast == server \in {"flushed", "disconnected", "closed"} => pending = {}

ServicesAgree == RatesOfOneLink /\ ActionsAreShown /\ ShellsEndOnce /\ FlushIsLast

\* What is pending gets to the disk or is given up by somebody who says so, and a
\* running poller samples again.
ServicesSettle ==
  \A c \in Contexts :
    /\ []<>(c \notin pending)
    /\ []<>(c \in polling /\ c \in Up => tick[c].state = "fresh")

\* In the end shells and actions have ended with their connections.
Settled ==
  /\ \A c \in Contexts : action[c] \in {None, link[c]}
  /\ \A s \in Shells : shell[s] = "registered" => Alive(on[s])

\* "... appended to disk in one batch every five minutes - plus on quit,
\* disconnect and before purging ... at the cost of losing at most one batch in a
\* hard crash" (history.ts:62-67): as long as the disk works no batch is dropped.
LostOnlyInACrash == ~dropped

=============================================================================
