------------------------------ MODULE MCMachine ------------------------------
(***************************************************************************)
(* What the server keeps for one machine, for TLC in one run: its          *)
(* ConnectionManager, the work of its executors, the services that use     *)
(* them, the jobs of a module, the binding engine of another and its PPPoE *)
(* dialer, the readings and the caps of the GPU module, the BMC module of  *)
(* a management station, and the sweeps of a fleet.  A behaviour is one of *)
(* one component, its `part`, while the others stay in their initial       *)
(* state: their variables are disjoint, and a part that is not chosen is   *)
(* asked for nothing, so what holds here of a part is what holds of it     *)
(* alone.                                                                  *)
(*                                                                         *)
(* Three calls of the manager are enough for a connect that supersedes a   *)
(* connect which replaces a published executor, and for a disconnect on    *)
(* either side of a replacement.  Two devices and two WANs let each take   *)
(* the place of the other.  Two batches of two chunks are created or       *)
(* deleted beside each other, with a section of the operator between them. *)
(***************************************************************************)
EXTENDS Connection, FiniteSets

CONSTANTS
  SshExecs, SshHandles, MaxChannels, MaxWaiting,  \* of the executors: the calls and limits
  LocalExecs, LocalStreams, LocalShells,          \* of ssh.ts, the calls of local.ts
  MaxContexts, MaxLinks, Shells, Uses,            \* of MachineServices
  BmcIds, BmcWorkers, BmcChanges,                 \* of Bmc
  ModuleJobIds, JobItems,                         \* of ModuleJobs
  BatchSize, SeqLimit, SeqOccupied, MaxDialerForms,   \* of Pppoe
  MaxDeletes, MaxCancels, MaxCommandFailures,         \* of Pppoe
  LanDevices, LanWans, EngineChanges, EngineActions, EngineFailures,   \* of Binding
  FleetIps, FleetPinned, FleetBatch, FleetChanges \* of Fleet

ASSUME ExecutorsAssumption == MaxChannels \in Nat \ {0} /\ MaxWaiting \in Nat
ASSUME ServicesAssumption ==
  MaxContexts \in Nat /\ MaxLinks \in Nat /\ {"terminals"} \in Uses
ASSUME BmcAssumption == BmcIds \subseteq Nat \ {0} /\ 1 \in BmcIds /\ BmcChanges \in Nat
ASSUME JobsAssumption == JobItems \in Nat \ {0}
ASSUME DialerAssumption ==
  BatchSize \in Nat \ {0} /\ SeqLimit \in Nat /\ MaxDialerForms \in Nat
ASSUME BindingAssumption ==
  /\ LanDevices \subseteq Nat \ {0} /\ IsFiniteSet(LanDevices)
  /\ IsFiniteSet(LanWans) /\ "none" \notin LanWans /\ EngineChanges \in Nat
ASSUME FleetAssumption == FleetIps \subseteq Nat /\ FleetChanges \in Nat

VARIABLE part

VARIABLES used, pool, contexts, link, links, returning, server, polling, tick, base, pending,
          timer, enabled, dropped, shell, on, announced, ended, run, action, shown, stray
servicesVars == <<used, pool, contexts, link, links, returning, server, polling, tick, base,
                  pending, timer, enabled, dropped, shell, on, announced, ended, run, action,
                  shown, stray>>
Services == INSTANCE MachineServices

VARIABLES op, opAborted, kill, channel, active, channelQueue, disposed
sshVars == <<op, opAborted, kill, channel, active, channelQueue, disposed>>
Ssh == INSTANCE SshChannels WITH
  Execs <- SshExecs, Handles <- SshHandles, MaxActive <- MaxChannels, MaxQueued <- MaxWaiting,
  queue <- channelQueue, aborted <- opAborted

VARIABLES call, proc, tracked, sent, exit, localDisposed, waits
localVars == <<call, proc, tracked, sent, exit, localDisposed, waits>>
Local == INSTANCE LocalProcesses WITH
  Execs <- LocalExecs, Streams <- LocalStreams, Shells <- LocalShells, disposed <- localDisposed

VARIABLES shape, stage, item, done, batch, cancelling, waiter, revoked, emitTimer, unsent, fatal
jobsVars == <<shape, stage, item, done, batch, cancelling, waiter, revoked, emitTimer, unsent,
              fatal>>
ModJobs == INSTANCE ModuleJobs WITH Jobs <- ModuleJobIds, N <- JobItems, timer <- emitTimer

VARIABLES router, sample, model, lastBoot, memory, sticky, running, given, bindingOp, changes,
          actions, failures
bindingVars == <<router, sample, model, lastBoot, memory, sticky, running, given, bindingOp,
                 changes, actions, failures>>
Bind == INSTANCE Binding WITH
  Devices <- LanDevices, Wans <- LanWans, MaxChanges <- EngineChanges,
  MaxActions <- EngineActions, MaxFailures <- EngineFailures,
  shown <- given, op <- bindingOp

VARIABLES uciState, recorded, nextSeq, token, seen, job, chain, deleting, made, lasting, forms,
          deletes, cancels, commandFailures
pppoeVars == <<uciState, recorded, nextSeq, token, seen, job, chain, deleting, made, lasting,
               forms, deletes, cancels, commandFailures>>
Dialer == INSTANCE Pppoe WITH
  Size <- BatchSize, Limit <- SeqLimit, Occupied <- SeqOccupied, Patient <- TRUE,
  MaxForms <- MaxDialerForms, MaxFailures <- MaxCommandFailures,
  router <- uciState, failures <- commandFailures

VARIABLES alive, interval, stream, attempt, handle, starting, failed, fallback, restart, watchdog,
          batchTimer, rows, queued, drain, poller, sampling, mute, turns, refusals
metricsVars == <<alive, interval, stream, attempt, handle, starting, failed, fallback, restart,
                 watchdog, batchTimer, rows, queued, drain, poller, sampling, mute, turns,
                 refusals>>
Metrics == INSTANCE GpuMetrics WITH
  Gpus <- {1, 2}, Streams <- {1, 2, 3}, MaxChanges <- 3, MaxRefusals <- 1, changes <- turns

VARIABLES svc, saved, cap, load, strays, foreign, stalled, events
capsVars == <<svc, saved, cap, load, strays, foreign, stalled, events>>
Watcher == INSTANCE GpuCaps WITH
  Gpus <- {1, 2}, Plans <- {[idle |-> 1, running |-> 2]}, MaxEvents <- 3

VARIABLES bmc, config, ids, acting, acks, edits
bmcVars == <<bmc, config, ids, acting, acks, edits>>
Station == INSTANCE Bmc WITH
  Ids <- BmcIds, Workers <- BmcWorkers, MaxChanges <- BmcChanges, used <- ids, changes <- edits

VARIABLES fleet, rules, world, orders, doing, calls
fleetVars == <<fleet, rules, world, orders, doing, calls>>
Sweeper == INSTANCE Fleet WITH
  Ips <- FleetIps, Pinned <- FleetPinned, Batch <- FleetBatch, MaxChanges <- FleetChanges,
  acks <- orders, acting <- doing, changes <- calls

all == <<part, vars, servicesVars, sshVars, localVars, jobsVars, bindingVars, pppoeVars,
         metricsVars, capsVars, bmcVars, fleetVars>>

\* What a component's initial state leaves open is open only when it is the part.
AllInit ==
  /\ part \in {"connection", "services", "ssh", "local", "jobs", "binding", "pppoe",
              "metrics", "caps", "bmc", "fleet"}
  /\ Init /\ Services!Init /\ Ssh!Init /\ Local!Init /\ Bind!Init
  /\ Dialer!Init /\ Metrics!Init /\ Watcher!Init
  /\ part = "services" \/ used = {"terminals"}
  /\ part = "binding" \/ router.leases = {}
  /\ part = "pppoe" \/ uciState.live = {}
  /\ part = "metrics" \/ mute
  /\ part = "caps" \/ saved = Watcher!Defaults
  /\ IF part = "jobs" THEN ModJobs!Init
     ELSE ModJobs!InitWith([engine |-> "fleet", wide |-> FALSE, abort |-> FALSE])
  /\ IF part = "bmc" THEN Station!Init
     ELSE Station!InitWith([Station!New(0) EXCEPT !.stopped = TRUE, !.probe = Station!NoProbe])
  /\ IF part = "fleet" THEN Sweeper!Init
     ELSE Sweeper!InitWith([Sweeper!New(0) EXCEPT !.stopped = TRUE, !.probes = {}],
                           [ip \in FleetIps |-> "ok"])

AllNext ==
  /\ UNCHANGED part
  /\ \/ /\ part = "connection" /\ Next
        /\ UNCHANGED <<servicesVars, sshVars, localVars, jobsVars, bindingVars,
                       pppoeVars, metricsVars, capsVars, bmcVars, fleetVars>>
     \/ /\ part = "services" /\ Services!Next
        /\ UNCHANGED <<vars, sshVars, localVars, jobsVars, bindingVars,
                       pppoeVars, metricsVars, capsVars, bmcVars, fleetVars>>
     \/ /\ part = "ssh" /\ Ssh!Next
        /\ UNCHANGED <<vars, servicesVars, localVars, jobsVars, bindingVars,
                       pppoeVars, metricsVars, capsVars, bmcVars, fleetVars>>
     \/ /\ part = "local" /\ Local!Next
        /\ UNCHANGED <<vars, servicesVars, sshVars, jobsVars, bindingVars,
                       pppoeVars, metricsVars, capsVars, bmcVars, fleetVars>>
     \/ /\ part = "jobs" /\ ModJobs!Next
        /\ UNCHANGED <<vars, servicesVars, sshVars, localVars, bindingVars,
                       pppoeVars, metricsVars, capsVars, bmcVars, fleetVars>>
     \/ /\ part = "binding" /\ Bind!Next
        /\ UNCHANGED <<vars, servicesVars, sshVars, localVars, jobsVars,
                       pppoeVars, metricsVars, capsVars, bmcVars, fleetVars>>
     \/ /\ part = "pppoe" /\ Dialer!Next
        /\ UNCHANGED <<vars, servicesVars, sshVars, localVars, jobsVars,
                       bindingVars, metricsVars, capsVars, bmcVars, fleetVars>>
     \/ /\ part = "metrics" /\ Metrics!Next
        /\ UNCHANGED <<vars, servicesVars, sshVars, localVars, jobsVars,
                       bindingVars, pppoeVars, capsVars, bmcVars, fleetVars>>
     \/ /\ part = "caps" /\ Watcher!Next
        /\ UNCHANGED <<vars, servicesVars, sshVars, localVars, jobsVars,
                       bindingVars, pppoeVars, metricsVars, bmcVars, fleetVars>>
     \/ /\ part = "bmc" /\ Station!Next
        /\ UNCHANGED <<vars, servicesVars, sshVars, localVars, jobsVars,
                       bindingVars, pppoeVars, metricsVars, capsVars, fleetVars>>
     \/ /\ part = "fleet" /\ Sweeper!Next
        /\ UNCHANGED <<vars, servicesVars, sshVars, localVars, jobsVars,
                       bindingVars, pppoeVars, metricsVars, capsVars, bmcVars>>

\* Of the parts only the binding engine, whose poller sweeps, works unasked.
AllSpec ==
  /\ AllInit /\ [][AllNext]_all
  /\ Fairness /\ Services!Fairness /\ Ssh!Fairness /\ Local!Fairness /\ ModJobs!Fairness
  /\ Dialer!Fairness /\ Metrics!Fairness /\ Watcher!Fairness /\ Station!Fairness
  /\ Sweeper!Fairness
  /\ Bind!EngineWorks /\ []<>(part = "binding" => ~Bind!CanSweep)

-----------------------------------------------------------------------------
(***************************************************************************)
(* The properties of the parts; those of the manager keep their names.     *)
(***************************************************************************)

\* The services of a machine: rates come from one connection, a terminal and a
\* package action are where their machine is and end once, and nothing is left
\* behind by a teardown (MachineServices).  The cards of the BMCs: none shows for good
\* what was read before an acknowledged action, and a stopped instance is quiet (Bmc).
ServicesAgree ==
  /\ Services!TypeOK /\ Services!ServicesAgree
  /\ Station!TypeOK /\ Station!BmcAgrees

\* The executors.  SSH: the permits are counted, nobody waits while one is free, and
\* no channel outlives its operation unkilled (SshChannels).  Local: no process is
\* forgotten unkilled, and nothing is left by a disposal (LocalProcesses).
ExecutorsAreBounded ==
  /\ Ssh!TypeOK /\ Ssh!ChannelsAreBounded
  /\ Local!TypeOK /\ Local!ProcessesAreTracked

\* The jobs of a module: a record is whole, the browsers get the last state, and
\* only a runner without a guard uses a revoked context (ModuleJobs).  The sweeps
\* beside them: cards, records and disk agree, and a machine keeps its card (Fleet).
JobsAreTold ==
  /\ ModJobs!TypeOK /\ ModJobs!JobsAreTold
  /\ Sweeper!TypeOK /\ Sweeper!FleetAgrees

\* The binding engine: what it writes gives every device with a lease at most one
\* WAN and every WAN at most one device (Binding).
BindingAgrees == Bind!TypeOK /\ Bind!BindingAgrees

\* The dialer: no sequence number is given twice, the router runs what is committed when
\* no job runs, and what is made is in the firewall zone (Pppoe).
PppoeAgrees == Dialer!TypeOK /\ Dialer!PppoeAgrees

\* Once the router is left alone, its rules and what is shown agree (Binding).
BindingConverges == Bind!BindingConverges

\* Every call of the manager returns; what is pending is written and a running poller
\* samples; in the end no lost connection is published, terminals and package actions
\* have ended with their connections, whatever was asked of an executor or a job has
\* settled, the caps of the GPUs follow the load, the cards of the BMCs what was last
\* done and those of the fleet what is there; readings of the GPUs come as long as they
\* are wanted.  Meanwhile the GPUs hold to what is wanted at every moment: one source of
\* readings, no stream unkilled that nobody reads, and a watcher of the caps that runs for
\* a GPU it holds and leaves a released one alone (GpuMetrics, GpuCaps).
WorkSettles ==
  /\ [](/\ Metrics!TypeOK /\ Metrics!MetricsAgree
        /\ Watcher!TypeOK /\ Watcher!CapsAgree)
  /\ CallsSettle /\ Services!ServicesSettle /\ Metrics!ReadingsCome
  /\ <>[](/\ LostIsUnpublished /\ Services!Settled /\ Ssh!Settled /\ ModJobs!Settled
          /\ Local!Settled /\ Dialer!Settled /\ Watcher!Settled /\ Station!Settled
          /\ Sweeper!Settled)

=============================================================================
