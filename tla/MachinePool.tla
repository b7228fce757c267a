----------------------------- MODULE MachinePool -----------------------------
(***************************************************************************)
(* server/machines.ts and the parts of server/ipc.ts that drive it: the    *)
(* process-wide pool of targets, the conn:* handlers that change it under  *)
(* the "connection" lock, what runs on behalf of a pooled machine, and the *)
(* clean close.                                                            *)
(*                                                                         *)
(* A MachineContext is a number, in the order of creation.  Its            *)
(* ConnectionManager appears as Link describes it: an attempt commits or   *)
(* fails, and the published link can be lost at any time.                  *)
(***************************************************************************)
EXTENDS Naturals, Sequences

CONSTANTS
  Ids,          \* machine ids (user@host)
  MaxContexts,  \* bound on the contexts created
  MaxRequests   \* bound on the conn:* requests received

Contexts == 1..MaxContexts
None == 0

PoolRequests == [kind : {"connect", "disconnect"}, id : Ids]
Idle == [kind |-> "idle"]

VARIABLES
  machines,         \* the pool: the context of each id, None when absent
  owner,            \* the id each created context was created for
  link,             \* contexts whose manager publishes an executor
  queue,            \* requests waiting for the "connection" lock
  received,         \* number of requests received
  op,               \* the request that holds the lock
  collecting,       \* contexts whose collectors poll
  historyTimers,    \* contexts whose history flushes on a timer
  suspended,        \* modulesHost.suspendedMachines
  servicesPolling,  \* servicesPoller runs
  announced,        \* machines in the latest push:conn-status
  server            \* "open", "closing" (host services stopped), "closed"

vars == <<machines, owner, link, queue, received, op, collecting, historyTimers,
          suspended, servicesPolling, announced, server>>

Created == DOMAIN owner

\* A connect holds the lock while its attempt runs (or has been cancelled by
\* disconnectAll()), while the swapped-out executor is disposed of, and while
\* the modules of the new machine are applied.
Ops == {Idle}
  \cup [kind : {"connect"}, ctx : Contexts, fresh : BOOLEAN,
        stage : {"attempt", "cancelled", "committed", "applying"}]
  \cup [kind : {"disconnect"}, stage : {"draining"}]

TypeOK ==
  /\ machines \in [Ids -> Created \cup {None}]
  /\ owner \in Seq(Ids) /\ Created \subseteq Contexts
  /\ link \subseteq Created
  /\ queue \in Seq(PoolRequests) /\ received \in 0..MaxRequests
  /\ op \in Ops
  /\ collecting \subseteq Created /\ historyTimers \subseteq Created
  /\ suspended \subseteq Ids
  /\ servicesPolling \in BOOLEAN
  /\ announced \subseteq Created
  /\ server \in {"open", "closing", "closed"}

Init ==
  /\ machines = [id \in Ids |-> None]
  /\ owner = <<>>
  /\ link = {}
  /\ queue = <<>>
  /\ received = 0
  /\ op = Idle
  /\ collecting = {}
  /\ historyTimers = {}
  /\ suspended = {}
  /\ servicesPolling = FALSE
  /\ announced = {}
  /\ server = "open"

-----------------------------------------------------------------------------
(***************************************************************************)
(* Mutants: plausible mistakes in the code, not part of the specification. *)
(***************************************************************************)

\* TeardownAndApply: the lost machine is not torn down.
ApplyOnly(torn, pool, up) ==
  LET live == {pool[id] : id \in Ids} \cap up IN
  /\ suspended' = suspended \ {id \in Ids : server = "open" /\ pool[id] \in live}
  /\ collecting' = collecting \cup live
  /\ historyTimers' = historyTimers \cup live
  /\ servicesPolling' = (live # {})

\* TeardownAndApply: applyPollers() does not look at shuttingDown.
TeardownAndApplyAlways(torn, pool, up) ==
  LET live == {pool[id] : id \in Ids} \cap up IN
  /\ suspended' = (suspended \cup {owner[c] : c \in torn}) \ {id \in Ids : pool[id] \in live}
  /\ collecting' = (collecting \ torn) \cup live
  /\ historyTimers' = (historyTimers \ torn) \cup live
  /\ servicesPolling' = (live # {})

\* Fail: a failed first connect leaves its entry in the pool.
FailKeepsEntry ==
  /\ op.kind = "connect" /\ op.stage \in {"attempt", "cancelled"}
  /\ announced' = {machines[id] : id \in Ids} \cap link
  /\ op' = Idle
  /\ UNCHANGED <<machines, owner, link, queue, received, server, collecting,
                 historyTimers, suspended, servicesPolling>>

\* Answer: the browsers are not told of the new machine.
AnswerSilently ==
  /\ op.kind = "connect" /\ op.stage = "applying"
  /\ op' = Idle
  /\ UNCHANGED <<machines, owner, link, queue, received, announced, server, collecting,
                 historyTimers, suspended, servicesPolling>>

\* Disconnected: applyPollers() is not called after a disconnect.
DisconnectedWithoutApply ==
  /\ op.kind = "disconnect"
  /\ announced' = {machines[id] : id \in Ids} \cap link
  /\ op' = Idle
  /\ UNCHANGED <<machines, owner, link, queue, received, server, collecting,
                 historyTimers, suspended, servicesPolling>>

-----------------------------------------------------------------------------
\* values(): the pooled contexts that are connected.
Values(pool, up) == {pool[id] : id \in Ids} \cap up

\* machines.delete(id) for the contexts of a set.
Without(gone) == [id \in Ids |-> IF machines[id] \in gone THEN None ELSE machines[id]]

\* teardownMachine() of the contexts `torn`, then applyPollers() with the given
\* pool and links.  With nothing to tear down it is applyPollers() alone.
TeardownAndApply(torn, pool, up) ==
  LET live == Values(pool, up) IN
  /\ suspended' = (suspended \cup {owner[c] : c \in torn})
                    \ {id \in Ids : server = "open" /\ pool[id] \in live}
  /\ IF server = "open"
     THEN /\ collecting' = (collecting \ torn) \cup live
          /\ historyTimers' = (historyTimers \ torn) \cup live
          /\ servicesPolling' = (live # {})
     ELSE /\ collecting' = (collecting \ torn) \ live
          /\ historyTimers' = historyTimers \ torn
          /\ servicesPolling' = FALSE

\* teardownMachine() alone.
Teardown(torn) ==
  /\ suspended' = suspended \cup {owner[c] : c \in torn}
  /\ collecting' = collecting \ torn
  /\ historyTimers' = historyTimers \ torn
  /\ servicesPolling' = (servicesPolling /\ torn = {})

Serving == <<collecting, historyTimers, suspended, servicesPolling>>

\* A conn:connect, conn:reconnect or conn:disconnect frame is dispatched and
\* joins the queue of the "connection" lock.
Receive ==
  /\ server = "open"
  /\ received < MaxRequests
  /\ received' = received + 1
  /\ \E r \in PoolRequests : queue' = Append(queue, r)
  /\ UNCHANGED <<machines, owner, link, op, announced, server, Serving>>

\* MachinePool.connect() up to its await: find or create the context.
StartConnect ==
  /\ op = Idle
  /\ queue # <<>> /\ Head(queue).kind = "connect"
  /\ LET id == Head(queue).id
         fresh == machines[id] = None
         c == IF fresh THEN Len(owner) + 1 ELSE machines[id]
     IN  /\ c \in Contexts
         /\ owner' = IF fresh THEN Append(owner, id) ELSE owner
         /\ machines' = [machines EXCEPT ![id] = c]
         /\ op' = [kind |-> "connect", ctx |-> c, fresh |-> fresh, stage |-> "attempt"]
  /\ queue' = Tail(queue)
  /\ UNCHANGED <<link, received, announced, server, Serving>>

\* The attempt publishes its executor.  When it replaces one, the manager first
\* runs the beforeSwap hook, which tears the machine down.
Commit ==
  /\ op.kind = "connect" /\ op.stage = "attempt"
  /\ Teardown(link \cap {op.ctx})
  /\ link' = link \cup {op.ctx}
  /\ op' = [op EXCEPT !.stage = "committed"]
  /\ UNCHANGED <<machines, owner, queue, received, announced, server>>

\* The attempt fails or was cancelled: connect()'s catch and connectTarget()'s
\* catch and finally.  What an existing machine had published stays published.
Fail ==
  /\ op.kind = "connect" /\ op.stage \in {"attempt", "cancelled"}
  /\ machines' = IF op.fresh /\ op.ctx \notin link THEN Without({op.ctx}) ELSE machines
  /\ announced' = Values(machines', link)
  /\ op' = Idle
  /\ UNCHANGED <<owner, link, queue, received, server, Serving>>

\* manager.connect() resolves: the rest of MachinePool.connect(), and
\* connectTarget() up to its await of modulesHost.apply().
Return ==
  /\ op.kind = "connect" /\ op.stage = "committed"
  /\ LET live == Values(machines, link) IN
     /\ suspended' = suspended \ ({owner[op.ctx]} \cup
                       {id \in Ids : server = "open" /\ machines[id] \in live})
     /\ IF server = "open"
        THEN /\ collecting' = collecting \cup live
             /\ historyTimers' = historyTimers \cup live \cup {op.ctx}
             /\ servicesPolling' = (live # {})
        ELSE /\ collecting' = collecting \ live
             /\ historyTimers' = historyTimers \cup {op.ctx}
             /\ servicesPolling' = FALSE
  /\ op' = [op EXCEPT !.stage = "applying"]
  /\ UNCHANGED <<machines, owner, link, queue, received, announced, server>>

\* modulesHost.apply() resolves: connectTarget() answers ok and announces.
Answer ==
  /\ op.kind = "connect" /\ op.stage = "applying"
  /\ announced' = Values(machines, link)
  /\ op' = Idle
  /\ UNCHANGED <<machines, owner, link, queue, received, server, Serving>>

\* conn:disconnect: teardown, then MachinePool.disconnect() up to its await.
StartDisconnect ==
  /\ op = Idle
  /\ queue # <<>> /\ Head(queue).kind = "disconnect"
  /\ LET gone == {machines[Head(queue).id]} \ {None} IN
     /\ Teardown(gone)
     /\ machines' = Without(gone)
     /\ link' = link \ gone
  /\ op' = [kind |-> "disconnect", stage |-> "draining"]
  /\ queue' = Tail(queue)
  /\ UNCHANGED <<owner, received, announced, server>>

\* manager.disconnect() resolves: the rest of conn:disconnect.
Disconnected ==
  /\ op.kind = "disconnect"
  /\ TeardownAndApply({}, machines, link)
  /\ announced' = Values(machines, link)
  /\ op' = Idle
  /\ UNCHANGED <<machines, owner, link, queue, received, server>>

\* A published link is lost.  The pool's callback returns early for a context
\* it no longer holds; otherwise onLost tears the machine down and announces.
Lose(c) ==
  /\ c \in link
  /\ link' = link \ {c}
  /\ \/ /\ machines[owner[c]] = c
        /\ machines' = Without({c})
        /\ TeardownAndApply({c}, machines', link')
        /\ announced' = Values(machines', link')
     \/ /\ machines[owner[c]] # c
        /\ UNCHANGED <<machines, announced, Serving>>
  /\ UNCHANGED <<owner, queue, received, op, server>>

\* cleanClose(): every connected machine is torn down and its history closed.
BeginClose ==
  /\ server = "open"
  /\ server' = "closing"
  /\ Teardown(Values(machines, link))
  /\ UNCHANGED <<machines, owner, link, queue, received, op, announced>>

\* machinePool.disconnectAll(): every pooled context is disconnected, and the
\* attempt under way on one of them is cancelled.
DisconnectAll ==
  /\ server = "closing"
  /\ server' = "closed"
  /\ LET pooled == {machines[id] : id \in Ids} IN
     /\ link' = link \ pooled
     /\ op' = IF op.kind = "connect" /\ op.stage = "attempt" /\ op.ctx \in pooled
              THEN [op EXCEPT !.stage = "cancelled"] ELSE op
  /\ machines' = [id \in Ids |-> None]
  /\ UNCHANGED <<owner, queue, received, announced, Serving>>

Next ==
  \/ Receive
  \/ StartConnect \/ Commit \/ Fail \/ Return \/ Answer
  \/ StartDisconnect \/ Disconnected
  \/ \E c \in Created : Lose(c)
  \/ BeginClose \/ DisconnectAll

\* Attempts, disposals and module lifecycles settle (they are bounded by
\* timeouts), and the lock is handed to the next request.
Fairness ==
  /\ WF_vars(StartConnect \/ StartDisconnect)
  /\ WF_vars(Commit \/ Fail) /\ WF_vars(Return) /\ WF_vars(Answer)
  /\ WF_vars(Disconnected)

Safety == Init /\ [][Next]_vars
Spec == Safety /\ Fairness

-----------------------------------------------------------------------------
(***************************************************************************)
(* Properties                                                              *)
(***************************************************************************)

\* No collector outlives its machine: what polls is pooled and connected, even
\* when links drop between the steps of a reconnect.
OnlyPooledCollect ==
  \A c \in collecting : machines[owner[c]] = c /\ c \in link

\* Between requests every connected machine of an open server is served: its
\* collectors poll, its modules are not suspended, and the services poller,
\* which every teardown stops for all machines, runs again.
PooledAreServed ==
  server = "open" /\ op = Idle =>
    /\ Values(machines, link) \subseteq collecting
    /\ \A id \in Ids : machines[id] \in link => id \notin suspended
    /\ servicesPolling <=> Values(machines, link) # {}

\* Between requests the pool holds no machine that is not connected: a first
\* connect that fails, and a link that is lost, leave no entry behind.
NoGhosts ==
  op = Idle => \A id \in Ids : machines[id] # None => machines[id] \in link

\* "push:conn-status: complete MachineStatus[] after a pool change, so
\* coalescing cannot lose a transition": between requests every browser has
\* been told the pool as it is.
PoolIsAnnounced ==
  server = "open" /\ op = Idle => announced = Values(machines, link)

\* Once the clean close has stopped the host services nothing polls again, not
\* even for a connect request that completes after it.
CloseIsQuiet ==
  server # "open" => collecting = {} /\ ~servicesPolling

\* No request is being served: in the end every one is answered.
Answered == op = Idle

\* "conn:connect / conn:reconnect: add a local/SSH target to the shared pool":
\* a published link belongs to a machine of the pool, once the request that
\* established it has been answered.
ConnectedIsPooled ==
  server = "open" /\ op = Idle => \A c \in link : machines[owner[c]] = c
=============================================================================
