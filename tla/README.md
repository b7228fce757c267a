# A verification development for Bored Manager

Bored Manager is a web application that manages Linux machines over SSH. One
Node.js process (`server/`) holds the connections to the machines, polls them,
runs commands on them, and serves any number of browsers over one WebSocket
each. Plug-in *modules* can be installed, enabled and reloaded while it runs;
the bundled ones (`modules/`) control GPUs, containers, routers and BMCs.

This directory holds TLA+ modules that model the parts of that program where
the order of events matters, TLC configurations that check them on small
instances, and TLAPS proofs about them. File names below are relative to the
repository root.

The server runs on one thread. Concurrency is the interleaving of callbacks and
of `async` functions at their `await`s: everything between two awaits is one
atomic action here, and every await is a place where anything else may happen.
Concurrency with the machines, the disk, the browsers and the child processes
is real, and so are crashes. That is the modelling rule for all modules.

## 1. Inventory

| Component | Source | State it keeps | Operations | Talks to | What makes it correct |
|---|---|---|---|---|---|
| Connection manager | `server/connection.ts` | published executor, generations, phase, abort controllers of pending attempts | `connect`, `disconnect`, loss of the link | executors, machine pool | only the newest call publishes; no executor leaks; a loss is never ignored; every call settles |
| Executors | `server/executors/ssh.ts`, `local.ts` | open channels with their permits, or processes with their timers | `exec`, `stream`, `shell`, `dispose`, loss callback | connection manager, services, modules | permits come back; nothing runs on untracked; every caller is answered |
| Machine pool | `server/machines.ts` | map of id to machine context | `connect`, `disconnect`, `disconnectAll`, loss | connection managers, `conn:*` handlers | the pool holds exactly the connected machines between requests |
| RPC method registrations | `server/ipc.ts` | settings, `tearingDownMachines`, `shuttingDown` | about 90 handlers; `applyPollers`, `teardownMachine`, `cleanClose` | everything | what runs for a machine follows the pool; nothing polls after the clean close |
| Resource coordinator | `server/resource-coordinator.ts` | one promise chain per resource name | `run` | RPC router, HTTP uploads | serialization per resource, no deadlock, no starvation |
| RPC router | `server/rpc.ts` | per browser: input queue, event queue, flags; protected replies, deferred closes | frames, pushes, `stopAccepting`, `drain`, `closeAll` | coordinator, sessions, handlers | every invoke answered; streams whole; nothing to an ended session; a drain that means silence |
| Shutdown | `server/index.ts`, `clean-close.ts`, `session-registry.ts` | `closing`, registry of disposables | upgrade, `requestShutdown`, `runCleanClose`, `disposeAll` | router, pool, services | ordered steps under deadlines; nothing registered late survives |
| Services of a machine | `services/poller.ts`, `metrics.ts`, `history.ts`, `terminals.ts`, `packages.ts` | timers, baselines of rates, pending samples, shells, one running action | ticks, `flush`, `create`, `runAction`, `reset` | executors, registry, router | rates of one connection; no sample, shell or action outlives its machine unnoticed |
| Modules host | `services/modules-host.ts` | compiled modules, live instances, epochs, lifecycle queue | `apply`, `suspend`, `setEnabled`, `reload`, `stop`, `forget` | pool, router, installer | what runs is what is enabled, on machines that are connected |
| Module installer | `services/module-installer.ts` | journals on disk, staged candidates | check, `install`, `uninstall`, `cancel`, recovery | modules host, file system | a crash leaves the old module or the new one |
| Updater | `services/updater.ts`, `scripts/update.sh` | phase, workspace, staged tree; the folders it moves | `check`, `cancel`, `apply`; every step of the script | downloads, the system | what is applied is what was validated; a failure leaves an installation |
| Settings files | `services/private-file.ts`, `store.ts` | settings and module registry, each with a recovery copy | start with its migration, write, import, switch of a module | `ipc.ts`, modules host | one copy is enough; memory and disk agree; what was refused stays away |
| Module jobs | `modules/{container,service-fleet,openwrt}/main/jobs.ts` | running job, counters, history of records | `start`, `cancel`, items, `dispose` | executors, host context | each item counted once; the last state is pushed; quiet after a stop |
| Fleet sweeps | `modules/service-fleet/main/{sweep,roster,store,fanout,index}.ts` | sweep in flight, live cards, records and their file, address rules | `run`, `cancel`, `refreshOne`, `hostForget`, rules, `applyPollers`, `dispose` | machine as a jump host, host data | cards, records and disk agree; a card is kept; the wall shows what is there in the end |
| OpenWRT binding | `modules/openwrt/main/binding.ts`, `service.ts`, `store.ts` | instances, sticky map, last model of the router | check, prepare, start, stop, delete, reconcile, reassign | the router's rules, job runner | one WAN for one client; slots and tables given once; rules converge |
| OpenWRT PPPoE | `modules/openwrt/main/pppoe.ts`, `uci.ts` | batches, sequence numbers, reservations | check, create, delete, cancel | UCI, firewall, job runner | no number twice; what is committed runs; every section has a record |
| GPU module | `modules/gpu/main/service.ts` | stream of readings, batches, poller; auto cap watcher | `applyPollers`, stream callbacks; set, clear, tick | `nvidia-smi` | no stream runs on unkilled; readings come; caps follow the load |
| BMC module | `modules/bmc/main/` | states and versions of the cards, sweep, checked form | sweep, power action, edit, delete | `ipmitool`, shared configuration | no card shows an old power state for good; quiet after a stop |
| Browser RPC client | `src/lib/ws-client.ts` | current socket, outbox, pending invokes, reconnect timer | `connect`, `disconnect`, `invoke`, callbacks | RPC router, user interface | every invoke settles; nothing of an ended session is replayed; it reconnects |
| Accounts and sessions | `auth.ts`, `services/users.ts`, `sessions.ts` | users file, session files, revocation set, lockouts | login, logout, revocation | router | a revoked session is never accepted again |
| Collector modules, user interface, shared types | `modules/`, `src/`, `shared/` | last samples, screens | | | parsing and display |

The behaviours that are hard here: attempts overtaken at an await; callbacks of
executors that were already replaced; state read before an await and used after
it; one lock per resource across all browsers next to one queue per browser;
events that are coalesced, trimmed and suppressed; transactions of files, rules
and UCI sections that break off anywhere; samples taken beside the operations
they describe; processes and channels that do not end; the shutdown, which runs
beside what it could not wait for. `PROJECT.json` lists them line by line under
`hazards`, each with the properties that cover it.

## 2. Plan

Done, most central first:

1. The core: `Link`, `Connection`, `ResourceCoordinator`, `MachinePool`,
   `RpcRouter`, `WsClient`.
2. Modules that are installed and run: `InstalledModule`, `ModuleInstaller`,
   `ModulesHost`, `ModuleContext`.
3. What surrounds the core: `MachineServices`, `SshChannels`, `LocalProcesses`,
   `Shutdown`, `Updater`, `UpdateScript`, `SettingsFiles`.
4. The bundled modules that change the world: `ModuleJobs`, `Binding`,
   `BindingSetup`, `Pppoe`, `GpuMetrics`, `GpuCaps`, `Bmc`, `Fleet`.
5. Proofs about `Connection`, `ResourceCoordinator` and `ModuleInstaller`.
6. Proofs of the safety properties of the pool, the modules host, the router and the
   shutdown, the updater and its script, the settings, the browser client, the
   executors, the services of a machine, the BMC module, the job runners, the fleet, the
   PPPoE batches, the preparation of binding instances and the plans of the binding
   engine. Every safety property of the passing runs is proved.

Next:

7. The state of the web client (`src/state/store.ts`).

## 3. Modules and their code

### How they are put together

Each component has a module of its own. `Connection` implements `Link`, on whose
promises `MachinePool` is built; `ModuleInstaller` implements `InstalledModule`;
the updater and its script are composed.

Four modules put several components into one run: `MCMachine` (what is kept for
one machine), `MCServer` (what is kept once), `MCRpcRouter` (the two halves of the
router) and `MCTransactions` (the installer and `BindingSetup`). A behaviour there
is one of one component, its `part`; the variables are disjoint, the other parts
stay in one initial state in which no fairness asks anything of them, so what
holds of a part there is what holds of it alone. Properties of the other
components are named after what they say of the part. The bounds of the parts that
are proved about are constants of the composition, with assumptions on them: the
configurations give them the values of section 4, the proofs leave them open.

### Connection (implements Link)

A call of `connect()` or `disconnect()` is a number, its `requestGeneration`,
and the executor it builds has the same number. `pc[g]` says at which await call
`g` stands. `Connect`, `Disconnect` are the synchronous parts of the calls;
`Built`, `BuildFails`, `Commit`, `Refuse`, `Closed`, `Retired` the segments of
`connectAttempt()`; `Settle` its `finally`; `Drained` the end of `disconnect()`.
`Lose` and `NotifyLost` are the loss of a connection with and without the
callback in place (`ssh.ts`), `Disposed` the end of a disposal.

`Link` is what the rest of the server relies on: one published link, published
at most once per request, on behalf of the newest request and never after a
disconnect. `ImplementsLink` maps `request` to `requestGeneration`, `link` to the
published executor, and `open` to "the newest call is still building or probing".

`PhaseAgrees` says less than one might expect of `phase`: with nothing published
it may stay `"connecting"`. When the link is lost while an *older* cancelled
attempt is still winding down, `handleConnectionLost()` (line 286) finds an abort
controller and sets `"connecting"`, and the older attempt's `finally` (lines
107-116) does not reset the phase because it is not the newest call. The pool
drops a machine whose link is lost, so nothing reads that phase.

### SshChannels, LocalProcesses

`SshChannels` has the calls of `exec()` (with their timeout and their signal) and
of `stream()` and `shell()`, the `ChannelSemaphore` with its queue, the channel
that is opened for each, its two-step kill, and `dispose()`. What ssh2 and the
other machine do may come late or never. `ChannelsAreBounded`: permits are counted,
nobody waits while one is free, no channel outlives its operation unkilled.

`LocalProcesses` has the same calls of the local executor: a tracked child, its
SIGTERM and SIGKILL graces, its pipes, the PTY that falls back to `script`. A
process may ignore a signal or hold its pipes for ever; only timers are relied on.

### MachineServices

One machine with its settings: the poller's loop, the samples of `metrics.ts` with
`collectorRevision`, the pending history with its flush timer, shells, and one
package action with its streams, while links come, are replaced and are lost and
contexts come and go. A behaviour uses one kind of service (`Uses`), because they
share only the link and the teardown.

### ResourceCoordinator

`tails.get(name)` is the queue of the callers that joined the chain of `name`,
its holder first. `Call` is `run()` up to its first await, `Granted` the moment
the awaited gate opens, `Finish` the release of everything in `finally`.
`Requests` are the resource sets the handlers register: in `MCServer` those of
`server/ipc.ts`.

### MachinePool

A machine context is a number, in the order of creation; `machines` is the pool.
`op` is the request that holds the `connection` lock and the await it stands at,
`queue` the requests behind it. A manager appears as `Link` describes it: its
attempt commits or fails, the published link can be lost. `Commit` includes the
`beforeSwap` hook, `Return` the rest of `MachinePool.connect()` and of
`connectTarget()` up to its await of the modules host, `Answer` the rest.
`TeardownAndApply` stands for `teardownMachine()` followed by `applyPollers()`,
which is how the callbacks and handlers use them. The settings switch collectors
on; with them off there is less to go wrong.

### RpcRouter

Each client is a record with the fields of `ClientState`, the frame being
dispatched (`work`), the event being pumped (`pump`), and what the properties
remember of it. `Accept` is `acceptInput()`, `Admit`, `Start`, `Finish`,
`SendFails` the segments of `dispatch()`, `Evict` the middle of
`auth:setPassword` for the requester's own account. `Broadcast` queues an event,
`Decide` and `Resume` are the two halves of the await in `pumpEvents()`, `Retry`
the timer. `StopAccepting`, `Drained`, `CloseAll` are the router's part of the
shutdown.

Abstractions: all mutations compete for one lock (several are
`ResourceCoordinator`'s concern); the authorization of a frame is one step, that
of an event two, because only the event can be replaced in between; how full a
socket's buffer is gets chosen each time it is read; one channel of
`REPLACEABLE_EVENTS` and one that is not stand for all of them; `Watchers` are
the browsers an event concerns. Frames are well-formed, their rate is not limited
and sizes are not counted, only lengths. A closed client is forgotten except for
its flags, as its handler of `close` does.

### WsClient

The callbacks of a WebSocket and the methods of the client are one action each.
`net[s]` is the state of the socket itself, `socket` the one the client holds:
the callbacks do not ask whether they come from that one, so a socket that
`disconnect()` forgot while it was connecting or closing still opens, closes and
acts on the client. The server is the environment; that it answers what it
receives is `EveryInvokeAnswered` of `RpcRouter`. `onUnauthorized` is the handler
that `store.ts` installs, which signs the browser out by `disconnect()`.

Invokes are issued while the browser is signed in, because the screens that
issue them are shown only then; the few frames written while signed out are left
out, and so are pushes, which change nothing here.

### Shutdown

The upgrade handler, which awaits the session between its two looks at `closing`;
`requestShutdown()` with the drains of the router and of the request tracker under
their deadlines; the steps of `runCleanClose()` in their order; and the registry,
whose disposers may register more, be registered late, or hang. Deadlines are
nondeterministic steps.

### Updater and UpdateScript

`Updater` is the service: a workspace per check, the download, the unpacking, the
validation and the digest; `cancel()`; `apply()`, which looks at the digest again
and launches the helper; and the clean close, which cancels without the lock. Any
file operation may fail. `UpdateScript` is `update.sh` command by command, each of
which may fail, with a loss of power at any point: moving the old folder aside, the
data carried over, the restart, and the way back in `fail()`. In `MCServer` the
script starts when the helper was launched.

### SettingsFiles

The settings and the registry of modules on disk, each with its recovery copy, and
what the server holds of both: the start with the migration of an old file,
`settings:set`, export, import and `setEnabled()`. What runs is synchronous, so only
the file system, a crash, a loss of power that undoes a rename whose directory was
not synced, and the HTTP request of an import come between its steps. `FilesAgree`:
one valid copy is enough; a primary that was not damaged holds what was last put
into it with success, by a request or a start, or what was being written when the
process ended, and nothing that was refused; and what runs is what is stored as long as no write was refused.

### ModuleInstaller (implements InstalledModule)

One module and the disk it lives on: `target`, `candidate` and `backup` are the
three folders of a transaction, `owned` the module's config, the recovery copy of
the config and its data, `registry` the copy of the code its registry entry
vouches for (the entry holds a hash), `snapshot` and the `journal` what the
transaction wrote down. A folder is one of the copies of the code, `None`, or
`Broken` when a copy or a removal stopped halfway; a file's value is the copy of
the module that wrote it last.

`pc` is the next file operation. Each is an action, so that the process can die
between any two (`Crash`), an operation can throw (`Fails`), and a recursive copy
or removal can stop in the middle (the actions that end in `Torn`). `mode` tells
the transaction, its rollback (`rollbackTransaction()`) and the recovery
(`recoverPendingTransactions()`) apart, which share the code of
`restoreModuleFolder()` and `restorePersistentFiles()`. A rollback that fails
leaves the journal (`GiveUp`) and the process goes on, refusing new work; a
recovery that fails ends the process, and the next one starts again. `HostInit`
is the part of `ModulesHost.init()` that brings the registry in line with the
folders.

The module runs beside this where the code lets it: `Activate`, `Deactivate` and
`ModuleWrites` are possible at every await of the transaction and of its rollback
(`Awaiting`), those of `host.stop()`, `host.reload()` and `host.forget()` among them.
Each of these calls first stops what runs, and what is stopped may write its files a
last time (`Disposed`: `dispose()` runs before the context is revoked). But an apply
that was queued before `host.stop()` activates the module again, so that `Stopped`
and `StoppedAgain` may leave it running. The steps up to the next await are
synchronous; it is there while the folder is swapped, restored or deleted, and writes
only when the `host.reload()` or `host.forget()` behind them disposes of it. The
auxiliary variable `late` remembers the copy that `host.stop()` left running.

`RunsWhatIsInstalled` says what that comes to. A module that runs is the copy in the
folder and in its registry entry, unless it is a late one; a late one is gone when a
reload begins and when an uninstall commits. The exception is a first installation
that is rolled back, for example because one of two machines failed while the other
was active: `rescan()` and `restoreModuleRegistrySnapshot()` deactivate nothing, and
what `host.stop()` left running goes on without a folder or an entry until the next
apply.

`InstalledModule` is the promise: code, registry entry and files are replaced or
removed together, and otherwise only the module writes its own files, or a copy of it
that `host.stop()` left running: the files of an uninstalled module can be written
back by its late copy, those of a restored one by the copy that was rolled back
(`WrittenBy`). The mapping
is not of the disk as it is but of what the recovery would leave if the process
died now: the journal decides (`Pending`), and the one write of `"committed"`
changes everything at once.

Abstractions: the inspection of an archive and the confirmation token are a
verdict that can go either way; which operations wait behind `lifecycleTail`, and on
which machines the module runs, is `ModulesHost`'s business, here it is active or not;
that it can become active at all supposes the resolver that `ModulesHost` calls stable;
the entries of other modules, which a rollback also puts back, are left out, and so are the
temporary siblings of a data folder that is being restored, which the next
recovery removes first.

### ModulesHost

One module and the machines it runs on. `runtime[m]` is the context of machine
`m` while it is pooled and connected, `live[m]` the context its live instance was
built for, `captured[m]` the one an activation under way holds. `queue` is what
waits behind `lifecycleTail`, `op` the operation that runs, `stage` the await it
stands at; `StartApply`, `Compiled`, `Imported`, `EndApply` are the segments of
`applyNow()` and `activateOnce()`, `StartReload`, `ReloadCompiled`, `EndReload`
those of `reloadNow()`. An activation keeps the generation, the epochs and the
manifest it began with and compares them at each await; the model keeps the
outcome, `cancelled` and `detached`.

What overtakes them: the `conn:*` handlers (`Commit`, `Disconnect`, `Return`) and
the loss of a link, as `MachinePool` describes them; anything else that calls
`applyPollers()`; the clean close in its three steps; and whoever holds the
`modules` lock (`admin`), which is `modules:setEnabled`, `modules:reload`, a
settings import or a transaction of the installer. `Promote` and `Remove` are the
middle of an install and an uninstall, `Undo` and `Restore` the rollback, without
the files that `ModuleInstaller` models. `Restore` reloads a module that there was
before; what is left of a first installation it only overtakes.

`StableRuntimes` says how the resolver behaves that the host is given: with TRUE
it returns one object per context, which is what the host's comparisons need and
what its unit tests provide; with FALSE a new object on every call, as in
`server/ipc.ts:137-142`. `AtRest` promises that a module which is on runs on every
connected machine only with TRUE (`RunsWhereConnected`, which the run
`modules_host_ipc` refutes for the server's own resolver); that a module which is off,
or whose files an uninstall has deleted, runs nowhere it promises with both
(`OffRunsNowhere`).

The model allows a little more than the code: a connect gives up the
`connection` lock before the apply it awaits has ended, the installer may be
overtaken between an answer and its next call, and whether a compilation or an
import fails is open each time.

### ModuleContext

The other side of `ModulesHost`: what an instance gets from `contextFor()` and what
`releaseResources()` takes back. `Activate`, `ActivateFails`, `Deactivate` are the
synchronous ends of an activation and of a stop, in which the module may ask for a
last thing (`use`), because `dispose()` runs before `revoked` is set. `Opened` is
`trackStream()` after its await, by when the instance may be gone and another one of
the same machine answer in its place. `ContextAgrees`: nothing of a stopped instance
answers, ticks or runs unkilled.

### ModuleJobs

The three job runners, which are nearly the same program: `shape` says which of
them it is, with one or two workers (`wide`), and whether the first failure aborts.
A job has `N` items; a batch of the fleet's fan-out is one machine. `Start`,
`Cancel`, `ItemEnds`, `BatchAnswers` and `BatchThrows` are their steps, `Refreshed`
the refresh after the last item, `TimerFires` the throttled push, `Poll` whoever
awaits the end, `Dispose` the stop of the module, after which every call of the
context throws.

### Binding, BindingSetup

`Binding` is one running instance of the engine: the leases and rules of the
router, the sample that is read outside of the engine's lock and taken inside, the
planner with its sticky choices, graces, preferences and remapping, and the
scripts, which are written line by line and may break off at any. Users assign and
unassign devices, the router restarts, devices come and go. `BindingAgrees`: no
script ever leaves two devices behind one WAN or one device with two rules unless
the sample was stale, which is what `OneClientPerWan` shows in a run of its own.

`planBindingReconciliation()` is one pass of loops over sorted entries. The model says
of each loop which outcomes it has, as a set: `Firsts` is what a scan takes that skips
whatever clashes with an entry it has taken (`Kept`, `Holding`), `Sorted` the orders of a
queue, `Allocations` the WANs that requests take in turn, `Numberings` the preferences
that `takePref()` gives. For the entries of one scan there is one outcome, unless two
rules agree in preference and address: then the order of the router's answer decides,
which is a choice, like what is drawn at random, whose grace has lapsed (of each orphan
its own) and since when a WAN has failed.

`BindingSetup` is the life of the instances around it: a form is checked, its slot,
interfaces and table are reserved, the preparation runs as a job of several items,
the instance is started, stopped and deleted, while samples of the router repair
its catch-all and `store.ts` writes after a delay. Scripts break off, the server
restarts, the router reboots. `AsStored` speaks of an engine in which nothing was cut
off, which `broken` remembers: a repair by a stale sample can fail of itself (the
script adds a rule that is there already) after it has deleted the rule of another
instance, so that nothing is promised until the next sweep. It takes three instances
for two slots to see that, which is more than the run below has.

### Pppoe

Batches of PPPoE sessions: a form is checked against the sequence numbers in use,
applied, created chunk by chunk through `uci`, commit and reload, put into the
firewall zone, deleted item by item, cancelled between two items. `uci` and `zone`
are the committed configuration, `live` and `liveZone` what runs. Jobs of several
batches run beside each other, command by command; a command may fail. With
`Patient` users wait for the end of a creation before they delete the batch, which
is what the finding needs not to happen.

### GpuMetrics, GpuCaps

`GpuMetrics` is the stream of readings: opened, retried after a second, given up
after three failures for a poller, cut by a watchdog when it is silent; the rows
gathered into batches, each completed by a process query. `GpuCaps` is the watcher
that sets a power cap by what the machine does: its ticks, the commands of the
calls of the page that wait for it, `applyPollers()`, and the caps themselves, which
somebody else may set too.

### Bmc

One instance of the module: the sweep with its workers and the versions and
revisions it captured, `refreshOne()` after a power action or an edit, the probe of
the station that several callers share, the poller, and the checked form. The
configuration is shared with the instances on other stations (`Elsewhere`).

### Fleet

The sweeps of service-fleet: `run()` with `runFanout()` batch by batch, its
cancellation and its two ways to fail, what `mergeInto()` makes of the answers
(records, cards, the write that may fail), the single reads of `refreshOne()` and
`hostProbe`, the actions of the page, `hostForget`, the address rules, the probe
behind `applyPollers()` and `sweepNow`, and `dispose()`. A finished sweep replaces all
cards at once, a single read only its own; the properties say that the records, the
disk and the cards agree in whatever order they come, and that a cancellation is over
with its sweep, also when that one ended in the catch block, which leaves the flag set.

## 4. Runs

| Run | Instance | States | What it shows |
|---|---|---|---|
| `machine` | manager: 3 calls; services: 2 contexts, 3 links; SSH: 3 operations, 1 permit, queue of 1; local: one call of each kind; jobs: 3 items; binding: 2 devices, 2 WANs; PPPoE: 2 batches of 2 chunks; GPU: 2 GPUs, 3 streams; BMC: 2 machines, 1 worker; fleet: 2 addresses, batches of 1 | 394 458 | the manager implements `Link`; channels, processes, services, jobs, rules, sessions, cards and the roster are consistent and settle; the readings and caps of the GPUs come and follow, and `WorkSettles` also says of them that at every moment there is one source of readings, no forgotten stream, and a watcher that runs for the GPUs it holds only |
| `server` | locks: 3 callers, 6 resources; pool: 2 ids, 3 contexts, 4 requests; client: 4 sockets, 2 invokes, 2 session ends; shutdown: 1 browser, 1 call, 2 resources; updater: 2 workspaces, 3 kinds of data, 1 own module; files: 2 requests, 1 import, 3 troubles; contexts: 2 machines with 2 instances each, 2 streams | 220 667 | serialized, no deadlock, no call starves; the pool is served and announced; nothing is replayed; the process ends cleanly; an update and a write of the settings can be survived; nothing of a stopped module runs on |
| `rpc` | input: 2 browsers, 3 frames of 4 kinds, queues of 1; events: 1 browser, 2 frames, 4 events, queues of 2 | 333 986 | every invoke answered or its socket closed, a drain that is quiet, streams whole, nothing after the session's end, no lost wakeup |
| `transactions` | 2 copies of the code; 2 forms, 2 pairs of interfaces, 3 slots, 2 tables | 1 270 188 | code, registry entry and files change together or not at all, whatever `host.stop()` leaves running; slots and tables are given once, and the guard rules come back |
| `modules_host` | 2 machines, 1 operation waiting before another event | 796 199 | the module never runs where it was torn down, runs exactly where it should when the queue is empty (`StableRuntimes`), runs nowhere once it is off or deleted, and no caller waits for ever |
| `machine_pool_orphan` | 1 id, 2 contexts, 2 requests | | **violated**: a connected machine outside of the pool |
| `rpc_stale_state` | 1 browser, 2 machines, 2 events | | **violated**: the last state of a machine is never delivered |
| `ws_client_adopt` | 4 sockets, 1 invoke, 1 session end | | **violated**: two open sockets |
| `modules_host_ipc` | 1 machine, the resolver of `ipc.ts` | | **violated**: an enabled module runs nowhere |
| `module_jobs_dispose` | 1 job of 3 items | | **violated**: the end of an item ends the server |
| `binding_stale_sample` | 2 devices, 2 WANs, 1 action | | **violated**: two clients behind one WAN |
| `pppoe_leftovers` | 1 batch of 2 chunks, deleted while it is made | | **violated**: a section on the router that no record names |

Why the bounds are enough. Three calls of one manager give a published executor,
an attempt that replaces it and a third call that overtakes the attempt, which is
as deep as the code's comparisons go (a generation is compared with the newest
one, an executor with the published one). Three callers can form any circle of
waiting on sorted names that two could not; the six resources are all there are.
In the pool a second machine shows what one teardown does to the other, and three
contexts let an id be created, lost and created again. Three links of a machine's
services are the one a sample began on, its successor and the next. One permit,
one waiter and one operation that is refused are what the semaphore tells apart;
two commands and a handle let one wait while another hangs. A queue of one frame is
full as soon as it is used. Four events fill a queue of two while one is being
authorized and one is trimmed. Two sessions that end leave at most two sockets
closing, one forgotten and one current. Two copies of the code are the old and the
new one; transactions, failures and crashes are not bounded at all. Three troubles with
the files are a refused write, a damaged copy and a crash between the two copies of an
import in any order. Two devices and two WANs let each take the place of the other; two forms, one
of them checked, reserved or applied while the other is; two batches, created and
deleted beside each other. Three streams are one that is left behind, one that
fails and one that opens. Two BMCs and one worker let a sweep hold the reading of
one while something happens to either. Of the modules host
nothing is bounded but how many operations may wait when a new event comes: one,
to which the handler that holds the lock adds its own and a returning connect two,
so that a stop, a reload and a removal each come behind an apply and before one.
A second machine shows what one machine's teardown, failure or return does to the
activation of the other.

`CHECK_DEADLOCK FALSE` is set except for `transactions`, `modules_host` and
`modules_host_ipc`, which never stop: elsewhere the bounds stop the
callers, and a server with nothing to do stops too. That nobody waits for ever is what the
liveness properties and `NoDeadlock` say.

### Fairness

Weak fairness on what the event loop and timeouts bring to an end: handshakes and
probes have timeouts, disposals are bounded, a resolved promise resumes its
waiter, a handler settles, a compilation or an import ends, the installer goes on
when its await is over, a timer fires. Nothing is assumed of the callers, the
machines or the browsers. In particular:

* `SshChannels` and `LocalProcesses` rely on their own timers only: a channel or a
  process that never answers is among the behaviours.
* `MachineServices`: ticks, the flush timer, and the end of a shell or an action
  whose link has gone. `Shutdown`: the deadlines only; whatever they cut off may
  hang. `ModuleContext`: the executor answers, and a killed command ends.
  `Updater`: the awaits of a check and of an application, which are file
  operations and a download with a timeout. `UpdateScript`: the script goes on.
* `ModuleJobs`, `Pppoe`, `Bmc`, `Fleet`, `GpuMetrics`, `GpuCaps`: each command ends by its
  executor's timeout, each timer fires. A stream of `nvidia-smi` that is not mute
  goes on printing; the watchdog is relied on only when it is.
* `Binding`, `BindingSetup`: the engine goes on with what it has begun, and
  `[]<>~CanSweep` and `[]<>~CanTake` say that a sweep that is due is made and a
  sample that was read is taken, again and again: both are switched off by being
  done and by nothing else for good.
* Two strong ones. `SF_vars(Resume(c, "low"))` in `RpcRouter` says that a socket that
  is tried again and again is found with an empty buffer at some point (or the client
  is closed); TCP and the heartbeat of `index.ts`, which terminates a dead socket,
  justify it. In `WsClient`, `SF_vars(OnOpen(s))` says the same of a connection
  attempt that is made again and again; without it nobody can promise that the
  browser gets back.
* `SettingsFiles` and `ModuleInstaller` state safety only: nothing bounds how often a
  disk can fail.

What is asked for is bounded in number, so that most liveness properties have the
form `<>[]Settled`: when nobody asks for anything more, what was asked for is over
and the result is right. Where work goes on for ever they say `[]<>`.

### Findings

* **No module goes live** (`server/services/modules-host.ts:1571`). The host
  compares the runtime an activation captured by identity with the one it
  resolves anew, but the server's resolver builds a new object on each call. So
  each activation is cancelled before it compiles anything, `modules:reload`
  fails wherever a machine is connected, and an install or update is rolled back.
* **A connected machine outside of the pool** (`server/machines.ts:79`). The
  pool is read before `manager.connect()` is awaited. When the old link of a
  machine drops during a reconnect, the loss callback deletes the machine from
  the pool, then the attempt commits: `conn:connect` answers `ok` for a machine
  that is in no list and that neither `conn:disconnect` nor `disconnectAll()`
  can reach.
* **Package states of two machines overwrite each other** (`server/rpc.ts:634`).
  Replaceable events are coalesced per channel; `packages:state` is about one
  machine and is broadcast to all browsers.
* **Two open sockets** (`src/lib/ws-client.ts:145`). `connect()` right after
  `disconnect()`, as `adoptSession()` does, opens a socket while the old one is
  still closing. When the old one's `onclose` comes it forgets the new one, and
  the reconnect timer opens a third: two sockets carry pushes from then on.
* **A stopped module ends the server** (`modules/container/main/jobs.ts:121`, and
  `modules/service-fleet/main/jobs.ts:106`). An item of a job ends after
  `dispose()`; what it does with the revoked context throws, in the `catch` block
  too, and the rejection of `void this.run(...)` is nobody's.
* **Two clients behind one WAN** (`modules/openwrt/main/binding.ts:2361`). A
  sample that was read before a reassignment is taken after it and brings the old
  rules back; the plan gives away the WAN that the device was just moved to. The
  next sweep repairs it.
* **Sessions that no batch names** (`modules/openwrt/main/pppoe.ts:885`). A batch
  can be deleted while the job that creates it runs; the deletion drops the record
  and the creation goes on with its next chunk.

### Observations

Met while modelling, consequences of the code that no run states. Where a
definition is named, it is in the module, is checked by no run, and does not hold.

Core:

* An event whose authorization is pending when `auth:setPassword` ends the
  session closes the socket before the reply is written: `pumpEvents()` looks at
  `protectedReplies` before its await and not after it (`server/rpc.ts:695`),
  although `rpc.ts:33` promises "Close only after the current invoke
  result/error has been written".
* `ModulesHost.stop()` waits for an empty operation at the end of the queue. An
  `apply()` that was queued before it activates the module again first, so
  `stop()` can return while the module runs, against its comment
  (`modules-host.ts:750-755`). The installer's next call of the host stops it
  once more, but after an uninstall has deleted the config and the data, or a
  rollback has restored them; its `dispose()`, which still has a working context, can
  write them back (`docs/MODULE-RULESET.md:137` says that code of a stopped module
  cannot). `ModuleInstaller` has these steps; `RunsWhatIsInstalled` and
  `InstalledModule` allow exactly them.
* Nothing stops what `stop()` left running of a first installation that is rolled
  back (`module-installer.ts:1557-1567` calls `rescan()` only): the module runs on with
  neither folder nor registry entry until the next `apply()`.
* In the same way an `apply()` queued before a `reload()` activates first; the
  reload then finds a live instance or its handlers and reports a failure, which
  makes the installer roll back.
* `Live.revoked` is "flipped before `dispose()`" by its comment
  (`modules-host.ts:308`) and after it by `deactivate()` (line 1142).
* `modules:cancel` and `update:cancel` (`ipc.ts:922`) wait for the lock that the
  operation they should cancel holds. `stopNewWork` does not await the updater's
  `cancel()`.
* `resetAll()` (`ipc.ts:393`) runs after `suspendMachine()` (line 385), so no live
  module's `reset()` is ever called.
* `withinDeadline()` turns a clean close that failed into `false`, so exit code 1
  cannot be reached and the log says that the deadline was.
* `LostOnlyInACrash` (`MachineServices`): `configure()` (`history.ts:85`) drops what
  is pending, against `history.ts:62-67`. `top.ts:85-178` has no guard by revision
  like that of `metrics.ts:145`.
* `OldFilesAreInTheBackup` (`UpdateScript`): `update.sh:236-237` promises what line
  341 removes. When `fail()` cannot remove the new folder, the old one is moved
  *into* it (lines 148-149), against `update.sh:22-23`.
* A process of the group that has left the pipes survives: 'close' clears the timer
  of its kill. The `if (this.disposed)` in the native-PTY branch of the local
  `shell()` is never reached.

Settings:

* `OnlyAskedForSwitchesOff` (`SettingsFiles`): an import of an old file whose save is
  refused leaves `legacyDisabled` behind, and the next import of a current file
  switches the module off (`store.ts:313-317` says otherwise). Two imports that
  overlap mix their lists too, because `readSettingsFile()` runs before the lock.
* `setEnabled()` changes its state before `persist()`, so a refused write leaves
  memory and file apart and the module running. The backup is written before the
  primary, so a refused value can come back from it when the primary is damaged.
* `loadSettings()` rewrites an old file before `modulesHost.init()` has been given
  the switched-off modules (`ipc.ts:412`): a crash between the two loses them
  (`store.ts:296-297`).

OpenWRT:

* `remapCapacity` (`binding.ts`, near 808) does not subtract forced reassignments, so
  a remapped device may lose its WAN. After a partial script the actions plan against
  stale rules; `ip rule add` of an existing rule fails the script.
* The route of the catch-all table is not restored after a cut between its flush and
  its add (`binding.ts:2995-2996`, `modules/openwrt/README.md:94-95`) until a forced
  reconciliation. A failed deletion restores the catch-all but not the forwardings
  (`binding.ts:2476-2500`).
* `deleteNow()` and `setRunning()` change `instance.running` without marking the
  store dirty; `HostStore` writes after 10 s, so a crash loses an instance whose
  rules stay on the router. `check()` picks a slot without looking at
  `preparations`, so the second of two checked forms is refused when it is applied.
* `DevicesExist` (`Pppoe`): the cleanup of a VLAN device (`pppoe.ts`, near 965) races
  the first chunk of a creation. A creation that is cancelled after a chunk leaves
  live sessions outside of the firewall zone; a chunk that failed after its commit is
  not reloaded; cancelling a deletion during its last item leaves a record without
  sections.

GPU, jobs, BMC, fleet:

* `CapsFollow` (`GpuCaps`): `pauseAutoCapWork()` (`service.ts:665-670`) overtakes a
  cap that is being set; it lands, but the watcher does not know, and when the load
  changes back it takes the wrong cap for the right one (`modules/gpu/README.md:32`).
  A refused probe while a call waits leaves the watcher stopped although it is
  enabled. The batch timer can split one sample in two. The README's "One command per
  tick" is a stream.
* `BatchThrows` (`ModuleJobs`): a batch of the fleet that throws discards the
  answers of the batches before it; its jobs report no progress until the fan-out
  ends; a container job counts more than 200 items that it never runs.
* A power action from an outdated page blanks the *current* card of the BMC until the
  next sweep, because `machine()` (`modules/bmc/main/actions.ts:81`) forgets by id.
* The sweep of the fleet has none of the versions of the BMC's: a sweep that began
  before an action brings the old row back after `refreshOne()`, against "shows its new
  state now, instead of at the next sweep" (`sweep.ts:138-143`); `FleetSettles` relies on
  the next sweep. A cancelled sweep takes the cards of the addresses it did not come to
  off the wall, against "keeps it" (`roster.ts:20`): `KeepsItsCard` speaks of whole ones.
* `Dirty` (`Fleet`): `lastSeen` moves with each answer, so every sweep that reaches a
  machine writes the file, against "Writes to disk only when a record actually changed"
  (`roster.ts:190`).
* `pruneUnclaimed()` ("after the user edited the rules") is called for a deletion only,
  and a machine that is being read when its rule goes is recorded again: both leave
  records that no rule covers. `hostForget` does not publish, so the card stays on the
  wall until the next sweep.
* Calls of `applyPollers()` do not share a probe, and each starts the poller with its own
  interval when its answer comes: the first of two can come last and poll although
  "Manual only" was chosen. When the probe fails, nothing starts until the interval
  changes.
* The first sweep under "Manual only" is a promise that nobody holds
  (`service-fleet/main/index.ts:223`); a module that is stopped meanwhile makes it
  reject, which ends the server like the job of `module_jobs_dispose`.
* The instances of two machines each keep a copy of the fleet's config
  (`config.ts:177-180`), which their `reset()` would drop: the second of them that writes
  takes back what the first has saved. Following a log again that is followed already
  leaves a tail that `logsStop` does not find, because the old one's exit removes the
  new entry (`actions.ts:323-332`).

Web client (read, not modelled): after a reconnect the list of machines is set from
an answer older than a push (`src/state/store.ts:435-442`); `onStatus` stores the
status it fetched for a machine that is no longer the active one (301-309); a push of the list that waits for `refresh()` (302) may be overtaken by
one without the machine it prefers, and `setActiveMachine()` (523) then sets none
although others are connected;
`refreshTerminals` does the same with terminals (608-614).

## 5. Proofs

Each theorem holds for every value of the constants that the assumptions of its
module allow; a hypothesis beyond these is named below. Where a run composes several
components, the theorem is about the composition that the run checks: a step of the
whole is a step of one part, and the invariant of a part needs only the part's own
steps and the part of the initial state that is its own.

`MachineProofs` begins with `Connection` (for any bound on the number of calls). The
inductive invariant `IInv` adds to the types: which calls have an executor and in which
state (`closing` iff it is being disposed of or was), that only the newest call
can be current, that the published executor belongs to a call that committed and
its captured generation is the present one, and that a disposal under way belongs
to somebody who waits for it. Each action has a lemma of its own; `Invariance`
combines them. From it: `TypeCorrect`, `NothingForgotten`, `DisconnectIsFinal`,
`LossIsNeverStale`, `PhaseIsTrue`, and `Refinement` (every step is a step of `Link` or a
stutter, `StepRefines`).

The other parts of `MCMachine` follow in the same module:

* `ExecutorsStayBounded` (`ExecutorsAreBounded`, any operations and limits). The code
  counts permits, so the invariant counts them too: `active` is the number of the
  operations that hold one (`Holding`), the queue lists the ones that wait, each once,
  and is empty unless all permits are out. Then no release can hand a permit to nobody
  or twice. The local executor needs which timers and pipes each stage of a process has.
* `ServicesStayAgreed` (`ServicesAgree`). Of the services: only the pooled context has
  a link; a sample that will count was begun on the present link under the present
  `collectorRevision`; what is pending in the history is the pooled context's. Of the
  BMC: a reading captures a version that each acknowledged action raises, and the
  actions acknowledged or under way never outnumber the changes; hence an old reading
  either loses against the version or is overtaken by another one.
* `JobsStayTold` (`JobsAreTold`). Of the jobs: `done` is the number of the items that
  have ended, a batch reports nothing before its last answer, only a wide job has two
  workers. Of the fleet: what `mergeInto()` makes of an answer (`MergeFits`), that what
  is not on the disk is known not to be, and that an acknowledged action has cost a
  change.

`PppoeProofs` (`DialerAssumption`: a batch has a chunk, and the limit of the sequence
numbers and the number of forms are natural numbers; nothing is assumed of where the
operator has a section, nor of the number of deletions, cancellations and failures).
`DialerStaysAgreed` is `PppoeAgrees`, all four parts of it: `SectionsAreRecorded` holds
because the composition has `Patient` users, without whom `pppoe_leftovers` refutes it.
The invariant `PppoeInv` says

* of each job where it is: its items are the last ones of the list it began with, and
  its commands are a rest of the item before them (`JobFits`, `Turn`), so that from the
  number of items left and the next command all that it has done is known;
* of the records: a batch is recorded while a job of its runs or its creation is done,
  and only one of the three is the case (`OwnersFit`); an inventory that `apply()` has
  read shows every section of the operator (`RangesFit`); the chunks a deletion is
  through with are free (`DeletionsFit`), so that its record may go at its end;
* of what runs: when that is not what is committed, some job has yet to reload it, or
  something has failed for good (`OwedFits`). A deletion owes it from its first chunk on,
  because it has noted that it mutated something (`Noted`);
* of the chain: it lists the jobs in the firewall once each, and all but the first wait
  (`ChainFits`);
* of the zone, as long as no command has failed (`MembersFit`): a batch that is made, or
  that its creation has put there, is in the zone or about to be added to it, and it is
  in the plan of whoever in the chain has made its plan; and so is a batch whose creation
  stands before a deletion in the chain. This is what the plans taken before the chain
  (by a deletion) and in it (by a creation) need: a plan may be old when its turn comes,
  but only by batches that come behind it and add themselves.

A step is a step of one job `q` put in the place of the old one (`Moves`): what it does
to the router (`EffectIs`), to the chain (`ChainStays`, `ChainGrows`, `ChainShrinks`) and
to the zone (`MembersKeep`, `MembersJoin`, `MembersTurn`, `MembersLeave`) are lemmas that
the actions share.

`BindingProofs` proves `PlansStayAgreed`, which is `BindingAgrees` (`BindingAssumption`:
devices are finitely many positive numbers, WANs finitely many and none of them is
"none", the bound on changes is a natural number; nothing is assumed of the bounds on
actions and failures). Nothing is assumed of a sample either: it may hold any rules, two
of one preference or WAN among them. Three things make the proof.

* What each part of the planner returns, from any rules, memory and choices: what is
  kept is apart (`Apart`: no WAN and no known device twice), moving some of it leaves it
  apart, what is allocated takes only WANs nobody has, and whoever goes without one finds
  no usable WAN free. That the preferences suffice is a matter of counting: there are as
  many as WANs, and the entries have different WANs. `ReconcileIsSound` puts this
  together for one reconciliation; the invariant keeps it of the plan while the
  operation runs (`Planned`).
* What the lines do that are left, when the plan was made from the router's rules
  (`Fits`): each stale rule has a deletion line of its preference for itself, injectively,
  because `ip rule del pref` takes any rule of the preference and two stale rules may
  share one; no deletion names the preference of a rule that stays; all deletions come
  before all additions; and each planned rule that is not there will be added. One lemma per
  kind of line carries it on (`FitsDel`, `FitsAdd`, `FitsIdle`), and with no line left it
  says that the rules are the planned ones (`FitsAtEnd`).
* That nothing else changes the rules while an exact script runs: a reboot ends it, and
  leases and WANs do not touch them.

`TransactionProofs` is about both parts of `MCTransactions`. First the installer (for
any copies of the code). `Recoverable` is not inductive: that a backup is whole depends on which step removes it, and that step
on the phase in the journal. `IInv` adds `Whole` (what the recovery would leave is
a whole module with its entry), `JournalIsTrue` (the journal describes the
snapshot and the folders), `PhaseOfStep` (which phases the journal can be in at
each `pc`), `Progress` (what the steps behind `pc` have done, and which files can have
been written since by a late copy, `ByLate`), `Restoring` (what a rollback or a recovery
has put back already) and `RunningIsInstalled` (which copy can be running at each `pc`:
between the return of `host.stop()` and the next await, `Unwatched`, only a late one). From it:
`TypeCorrect`, `AlwaysRecoverable`, `RunsTheFolder`, `CleanAtRest`, and
`Refinement`, which shows for every action that it leaves what the recovery would
leave alone, or is a step of `InstalledModule`. What a module writes, at an await or as
it is disposed of, is one lemma (`WritesRefine`); the commit takes over what a late copy
has left in the files (`CommitRefines`).

Then `PreparationsStayAgreed`, which is `PreparationsAgree` of `BindingSetup`
(`SetupAssumption`: finitely many plans and interfaces, slots are natural numbers, tables
are numbers other than that of no table; nothing is assumed of the bounds). `AsStored`
speaks of an engine at rest, but a script is built from whatever the last sample has
shown and is run against what the router has by then. So the invariant `SetupInv` reads a
script from the lines that are left:

* what they take away and is to come back, a later line puts back (`FlushIsMended`,
  `DelIsMended`, `ClearIsMended`), and they add only rules that are due: those of the
  stored instances and the one being installed (`ScriptFits`);
* each due rule is on the router or is added by what is left, except for the one that a
  deletion clears with its last line; nothing else is on the router (`RouterFits`);
* each operation has the lines of its kind, on a plan that allows it (`OpFits`): the
  instance that is being installed differs from all stored ones in slot and interfaces,
  and its script ends with storing it;
* a table that is being prepared is no other interface's (`PrepFits`).

The first two, and that the file has what is in memory unless a write is to come
(`StoreFits`, for the restart), are all that `broken` takes back: slots, interfaces and tables stay
exclusive after any failure, restart or reboot, and nothing has to be repaired for that.
`ReconcileIs` shows what every reconciliation consists of, whatever rules the sample has,
and in particular that it adds each rule the sample lacks after it has deleted what is in
its place; `LineKeepsScript` and `LineKeepsRouter` that a line leaves both true of what
is left. That no line finds the rule it adds already there is not claimed: `Line` then
gives up, and `broken` is set.

`ModulesHostProofs` (any machines, any length of the queue). An activation is overtaken
by comparing what it captured with what is there now, so the invariant says who is left
to put right what an overtaken activation has not done: the handler that holds the
`modules` lock has its operation in the queue exactly once (`OneHandler`), what still
runs of a module that is off is stopped by an operation that is queued (`OffIsStopped`),
and a connected machine without an instance has an activation that is still current, or
an operation, handler or returning connect that looks at all machines again
(`ServedWhereConnected`). `RunsWhereItMay` and `RestIsRight` hold for both resolvers,
but the first half of `AtRest`, that a module which is on runs on every connected
machine, has `StableRuntimes` as its hypothesis, so that `RestIsRight` says of the
server as it is only that a module runs nowhere once it is off or deleted. What that
server does otherwise is shown by `modules_host_ipc` and proved by `NothingRuns`: without
`StableRuntimes` no module ever runs on any machine.

`RpcRouterProofs` (any browsers, kinds of frames, machines and bounds). The lock holds
exactly the browsers whose mutation waits or runs (`LockIsHeld`), once drained nothing
works (`NothingWorks`), and each open browser is `Sound`: what is queued or written was
pushed (`Known`); what was pushed after the end of the session is neither written nor
counts as authorized in the queue or in the pump (`Ended`); and what was accepted of the
streams is what was written, followed by what the queue still holds, in order (`Whole`).
The step lemmas are about one browser's record, because `closeState()`, the trimming and
the coalescing can strike any browser in any handler. `MCRpcRouterProofs` carries
`PushesAreSound` over to the second instance that the run has.

`ServerProofs` is about `MCServer` (`BoundsAssumption`: the bounds are natural numbers):

* `CallersTyped`, `Serialized`, `DeadlockFree` (for any callers, finitely many resources,
  any request sets). The invariant `MutexInv` says that the holder of a name is first in
  its queue, that a caller is queued exactly for what it holds and for the one name it
  waits for, and that what it holds ranks below what it wants. `Serialized` follows from
  the first part. `DeadlockFree` needs the last one: among all callers that wait, take the
  one whose awaited name ranks highest (`HighestRank`); the caller in front of it holds
  that name, and if it waits itself then for a higher one.
* `EndIsClean`, `DrainIsComplete`: from the close of the network on no handshake is
  accepted, and the registry keeps nothing once it shuts down (`EndInv`).
* `OfferIsSound`, `AlwaysRecoverable`: which workspace the phases of the updater vouch
  for (`UpdateInv`), and what each command of the script has moved already (`ScriptInv`).
* `NoCollectorOutlives`, `EveryMachineIsServed`, `AnnouncementIsTrue`, `CloseStaysQuiet`:
  `PoolInv` adds who may leave an unconnected machine in the pool (only the connect that
  created it, until it returns), which attempts the clean close has cancelled, and
  `SteadyAreServed`: except between a teardown and the `applyPollers()` behind it,
  everything runs that should.
* `NothingStays`: besides the pool, that whatever answers, ticks or streams belongs to
  an instance that is live; `ContextAgrees` is inductive with its types (`ContextInv`).
* `FilesStayAgreed` (`FilesInv`): a plan of writes puts a recovery copy before its
  primary, and what it writes of the settings is what the memory will be (`PlanFits`);
  a copy is bad only if it was damaged, and missing only as long as nothing was kept
  (`Held`), also on the disk that a loss of power would leave; an undamaged primary holds
  what was kept, what is being written or what was cut off (`PrimaryFits`); what runs is
  what the primary holds or is about to (`MemoryFits`).
* `NothingComesBack` (`NothingReplayed`, an action property): what the client holds in its
  outbox for the next socket was issued in the running session (`ClientInv`).

The configurations check the same formulas on small instances; where a type invariant
is proved as a theorem of its own (`Connection`, `ResourceCoordinator`,
`ModuleInstaller`) it is not checked again.

Two properties were corrected because a proof failed. Of the settings, "what was
refused is not found later" held of two troubles and not of three: a start that finds the
primary damaged puts the recovery copy in its place, which a refused write may have
replaced already, and from then on that is what is kept (see the observations).
Of the binding instances, `AsStored` ignored scripts that fail of themselves (section 3).

Only model-checked, and why:

* all liveness (`WorkSettles`, `BindingConverges`, `EveryCallRuns`, `ClientRecovers`,
  `EndsAreReached`, `EveryInvokeAnswered`, `EventsDrainAgain`, `GuardsConverge`,
  `CallsReturn`), since fairness and ENABLED are out of the prover's reach. That a
  recovery ends is not stated: nothing bounds how often a disk can fail.

Nor is it proved that the outcomes of the planner (`Firsts`, `Sorted`, `Allocations`,
`Numberings`) are those of its loops: what a loop computes for every input needs induction
over data. These definitions are translations, to be read against the source.

## 6. Not modelled

* Bytes, formats and display: parsers of command output, downloads, archives,
  catalogs, frame validation and the rate limit, the log, the user interface, shared
  types, collector modules that run a command and show its answer.
* Single synchronous writes or file operations: the saved connections, secrets and
  known host keys, the PID lease, uploads, the module compiler.
* The login with its lockout and tokens: one request at a time on one file; the end
  of a session is in `RpcRouter`.
* `update.ps1`, which is `update.sh` again.
* Within modelled components: the files and the events of a module's context; the start and stop of single PPPoE sessions and their watchdog; the
  limits of dnsmasq; persistence mode and clocks of GPUs; sensors and event logs of
  BMCs.
* Later in the plan: the state of the web client.

`PROJECT.json` gives the reason for each component.
