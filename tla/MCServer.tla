------------------------------ MODULE MCServer ------------------------------
(***************************************************************************)
(* What the server keeps of all its machines and browsers, for TLC in one  *)
(* run: the coordinator of its locks, the pool of machines, the end of the *)
(* process, its updater with the script it launches, the files of its      *)
(* settings, what the instances of a module hold through their contexts,   *)
(* and the client at the browser's end.  A behaviour is one of one         *)
(* component, its `part`, while the others stay in their initial state:    *)
(* their variables are disjoint, and a part that is not chosen is asked    *)
(* for nothing, so what holds here of a part is what holds of it alone.    *)
(* The updater and its script are composed: the script starts when apply() *)
(* has launched the helper.                                                *)
(*                                                                         *)
(* Two machines of the pool let the loss or disconnect of one interleave   *)
(* with a request for the other; three contexts let one id be created      *)
(* again; four requests are a connect, a reconnect of the same machine and *)
(* two more of any kind.  Two browser sessions that end leave at most two  *)
(* sockets closing, one forgotten and one current: four are never          *)
(* exceeded.  Two requests change the settings or the registry, with three *)
(* failures, crashes or damaged copies: a refused write, a damaged primary *)
(* and one more.  Each machine runs two instances of the module, one after *)
(* the other, with two streams at a time.                                  *)
(***************************************************************************)
EXTENDS ResourceCoordinator

\* Ranks of the sorted MutationResource names: 1 connection, 2 modules,
\* 3 packages, 4 settings, 5 update, 6 users.  The requests are those of
\* conn:connect; conn:delete; modules:install; auth:createUser;
\* auth:setEnabled; settings:set; settings/export; a read.
MCRequests == {{1}, {1, 6}, {2}, {6}, {4, 6}, {2, 4, 6}, {4}, {}}

CONSTANTS
  Targets,               \* the ids of the machines
  MaxContexts,           \* of the pool: contexts created, and
  MaxConnRequests,       \* conn:* requests
  MaxSockets, MaxInvokes, MaxEpochs,   \* of the browser client
  Browsers, Calls, Registered,         \* of the shutdown
  MaxWorkspaces,         \* of the updater
  OptionalData, Custom,  \* what its script carries over
  MaxSettingsRequests, MaxImports, MaxTroubles,   \* of the settings
  MaxLives, Streams      \* of the instances of a module

ASSUME BoundsAssumption ==
  {MaxContexts, MaxConnRequests, MaxSockets, MaxInvokes, MaxEpochs, MaxWorkspaces,
   MaxSettingsRequests, MaxImports, MaxTroubles, MaxLives} \subseteq Nat

VARIABLE part

VARIABLES machines, owner, poolLink, poolQueue, received, poolOp, collecting, historyTimers,
          suspended, servicesPolling, told, poolServer
poolVars == <<machines, owner, poolLink, poolQueue, received, poolOp, collecting, historyTimers,
              suspended, servicesPolling, told, poolServer>>
Pool == INSTANCE MachinePool WITH
  Ids <- Targets, MaxRequests <- MaxConnRequests,
  link <- poolLink, queue <- poolQueue, op <- poolOp, announced <- told, server <- poolServer

VARIABLES clientSocket, state, clientPending, outbox, reconnectTimer, stopped, net, wire,
          waiting, born, epoch
clientVars == <<clientSocket, state, clientPending, outbox, reconnectTimer, stopped, net, wire,
                waiting, born, epoch>>
Client == INSTANCE WsClient WITH
  socket <- clientSocket, pending <- clientPending, timer <- reconnectTimer

VARIABLES phase, socket, wss, call, step, resource, kind, registry, awaited
endVars == <<phase, socket, wss, call, step, resource, kind, registry, awaited>>
End == INSTANCE Shutdown WITH Resources <- Registered

VARIABLES updatePhase, operation, checkAborted, workspace, made, disk, staged, digest, altered,
          applying, helper, close
updateVars == <<updatePhase, operation, checkAborted, workspace, made, disk, staged, digest,
                altered, applying, helper, close>>
Update == INSTANCE Updater WITH
  phase <- updatePhase, aborted <- checkAborted

VARIABLES scriptPc, running, folder, data, backup, carrying, restored, apart, tries, result
scriptVars == <<scriptPc, running, folder, data, backup, carrying, restored, apart, tries,
                result>>
Script == INSTANCE UpdateScript WITH
  Optional <- OptionalData, pc <- scriptPc

VARIABLES settingsDisk, unsynced, serverState, settings, on, legacy, imports, job, requests,
          troubles, kept, open, damaged
settingsVars == <<settingsDisk, unsynced, serverState, settings, on, legacy, imports, job,
                  requests, troubles, kept, open, damaged>>
Settings == INSTANCE SettingsFiles WITH
  MaxRequests <- MaxSettingsRequests,
  disk <- settingsDisk, memory <- settings, server <- serverState

VARIABLES lives, table, pollers, streams, tracked
contextVars == <<lives, table, pollers, streams, tracked>>
Context == INSTANCE ModuleContext WITH Machines <- Targets

\* The state of each part that a step of another one leaves alone.
update == <<updateVars, scriptVars>>
all == <<part, vars, poolVars, clientVars, endVars, update, settingsVars, contextVars>>

\* What a component's initial state leaves open is open only when it is the part.
AllInit ==
  /\ part \in {"coordinator", "pool", "client", "end", "update", "settings", "context"}
  /\ Init /\ Pool!Init /\ Client!Init /\ End!Init /\ Update!Init /\ Script!Init
  /\ Settings!Init /\ Context!Init
  /\ part = "end" \/ kind = [r \in Registered |-> "other"]
  /\ part = "settings" \/ settingsDisk["settings"]["primary"] = Settings!Missing

AllNext ==
  /\ UNCHANGED part
  /\ \/ /\ part = "coordinator" /\ Next
        /\ UNCHANGED <<poolVars, clientVars, endVars, update, settingsVars, contextVars>>
     \/ /\ part = "pool" /\ Pool!Next
        /\ UNCHANGED <<vars, clientVars, endVars, update, settingsVars, contextVars>>
     \/ /\ part = "client" /\ Client!Next
        /\ UNCHANGED <<vars, poolVars, endVars, update, settingsVars, contextVars>>
     \/ /\ part = "end" /\ End!Next
        /\ UNCHANGED <<vars, poolVars, clientVars, update, settingsVars, contextVars>>
     \/ /\ part = "update"
        /\ \/ Update!Next /\ UNCHANGED scriptVars
           \/ helper # Update!None /\ Script!Next /\ UNCHANGED updateVars
        /\ UNCHANGED <<vars, poolVars, clientVars, endVars, settingsVars, contextVars>>
     \/ /\ part = "settings" /\ Settings!Next
        /\ UNCHANGED <<vars, poolVars, clientVars, endVars, update, contextVars>>
     \/ /\ part = "context" /\ Context!Next
        /\ UNCHANGED <<vars, poolVars, clientVars, endVars, update, settingsVars>>

AllSpec ==
  /\ AllInit /\ [][AllNext]_all
  /\ Fairness /\ Pool!Fairness /\ Client!Fairness /\ End!Fairness /\ Update!Fairness
  /\ Context!Fairness /\ WF_(scriptVars)(helper # Update!None /\ Script!Script)

-----------------------------------------------------------------------------
(***************************************************************************)
(* The properties of the parts; those of the coordinator keep their names. *)
(***************************************************************************)

\* The pool: who collects, who is served, who is announced, what is left after a
\* failed connect, and what the clean close leaves behind (MachinePool).  Nothing of
\* an instance of a module that was stopped runs on either (ModuleContext).
OnlyPooledCollect == Pool!TypeOK /\ Pool!OnlyPooledCollect
PooledAreServed == Pool!PooledAreServed
NoGhosts == Pool!NoGhosts /\ Context!TypeOK /\ Context!ContextAgrees
PoolIsAnnounced == Pool!PoolIsAnnounced
CloseIsQuiet == Pool!CloseIsQuiet

\* The browser client: nothing of a session that has ended is sent in the next
\* one, every invoke() settles, and the client that is not stopped reconnects.
NothingReplayed == Client!NothingReplayed /\ []Client!TypeOK
ClientRecovers == Client!InvokesSettle /\ Client!Reconnects

\* The end of the process: nobody is served while the machines are closed, and
\* nothing that was registered is left when the drain is over (Shutdown).
ShutdownIsClean == End!TypeOK /\ End!ShutdownIsClean

\* The updater: what is offered is whole, what the helper reads stays, and a
\* cancelled check leaves nothing (Updater).
UpdateIsSound == Update!TypeOK /\ Update!UpdateIsSound

\* The update script: an installation can be had at every step, and the one that
\* runs is the one that is there (UpdateScript).
UpdateIsRecoverable == Script!TypeOK /\ Script!UpdateIsRecoverable

\* The server's own files: one copy of each is enough, what was refused is not found
\* later, and what runs is what is stored (SettingsFiles).
FilesAgree == Settings!TypeOK /\ Settings!FilesAgree

\* In the end every conn:* request that got the lock is answered, a shutdown has
\* reached the exit of the process with a drain that left nothing behind, the
\* script of an update is over, and no stream of a stopped instance of a module is
\* left; a check or an application of one ends each time.
EndsAreReached ==
  /\ End!DrainsAll
  /\ []<>Update!Settled
  /\ <>[](/\ Pool!Answered /\ End!Settled /\ Context!Settled
          /\ helper # Update!None => Script!Ended)
=============================================================================
