------------------------------ MODULE RpcRouter ------------------------------
(***************************************************************************)
(* server/rpc.ts: the frames a browser sends over its socket, dispatched   *)
(* one at a time per browser and serialized by a lock across browsers, and *)
(* the events the server pushes through a bounded queue per browser, each  *)
(* checked against the session before it is written.                       *)
(*                                                                         *)
(* The mutations compete for one resource here; ResourceCoordinator models *)
(* the locks themselves.  An event's payload is the number of the push, so *)
(* two events are the same object in the same version iff they are equal.  *)
(***************************************************************************)
EXTENDS Naturals, Sequences, SequencesExt

CONSTANTS
  Clients,     \* sockets, all opened by the same account
  Watchers,    \* clients whose browser views the machines (activeMachine)
  Machines,    \* machines whose state is pushed on the replaceable channel
  Kinds,       \* kinds of frames the browsers send
  MaxFrames,   \* bound on the frames received from all browsers
  MaxPushes,   \* bound on the events pushed
  MaxQueued    \* maxQueuedFrames, of the input and of the event queue

\* A "send" gets no reply; a "mutate" takes the lock; a "protect" (settings:set,
\* another account's auth:setPassword) also protects its reply; an "evict" is
\* the auth:setPassword of the requester's own account.
Locking == {"mutate", "protect", "evict"}
Protecting == {"protect", "evict"}

ASSUME KindsAssumption == Kinds \subseteq {"read", "send"} \cup Locking
ASSUME WatchersAssumption == Watchers \subseteq Clients
ASSUME BoundsAssumption == {MaxFrames, MaxPushes} \subseteq Nat /\ MaxQueued \in Nat \ {0}

Frames == [id : 1..MaxFrames, kind : Kinds]

\* The "state" channel is one of REPLACEABLE_EVENTS, the "stream" is not.
Events == [channel : {"state", "stream"}, about : Machines, payload : 1..MaxPushes,
           authorized : BOOLEAN]

\* The socket's bufferedAmount when it is read: below outboundHighWater, above
\* it, or past outboundHardLimit.
Buffers == {"low", "high", "full"}

NoWork == [stage |-> "idle"]
Works == {NoWork} \cup [frame : Frames, stage : {"asking", "waiting", "running", "revoked"}]
NoPump == [stage |-> "idle"]
Pumps == {NoPump} \cup [event : Events, stage : {"asking", "yes", "no", "ready"}]

\* ClientState, with what the properties remember of it: the frames received
\* and answered, the stream events accepted and written, the last state of each
\* machine written, and the number of pushes when the session ended.
ClientState ==
  [open : BOOLEAN, queue : Seq(Frames), work : Works, protected : BOOLEAN,
   deferred : BOOLEAN, events : Seq(Events), pump : Pumps, timer : BOOLEAN,
   session : BOOLEAN,
   received : SUBSET (1..MaxFrames), answered : SUBSET (1..MaxFrames),
   accepted : Seq(1..MaxPushes), streamed : Seq(1..MaxPushes),
   seen : [Machines -> 0..MaxPushes], endedAt : 0..MaxPushes]

VARIABLES
  clients,    \* the ClientState of each socket
  lock,       \* clients in the lock's queue, its holder first
  frames,     \* number of frames received
  pushes,     \* number of events pushed
  latest,     \* the last state pushed for each machine
  router      \* "accepting", "draining", "drained", "closed"

vars == <<clients, lock, frames, pushes, latest, router>>

accepting == router = "accepting"

TypeOK ==
  /\ clients \in [Clients -> ClientState]
  /\ \A c \in Clients : /\ Len(clients[c].queue) <= MaxQueued
                        /\ Len(clients[c].events) <= MaxQueued
  /\ lock \in Seq(Clients) /\ IsInjective(lock)
  /\ frames \in 0..MaxFrames /\ pushes \in 0..MaxPushes
  /\ latest \in [Machines -> 0..MaxPushes]
  /\ router \in {"accepting", "draining", "drained", "closed"}

Init ==
  /\ clients = [c \in Clients |->
       [open |-> TRUE, queue |-> <<>>, work |-> NoWork, protected |-> FALSE,
        deferred |-> FALSE, events |-> <<>>, pump |-> NoPump, timer |-> FALSE,
        session |-> TRUE, received |-> {}, answered |-> {},
        accepted |-> <<>>, streamed |-> <<>>, seen |-> [m \in Machines |-> 0],
        endedAt |-> 0]]
  /\ lock = <<>>
  /\ frames = 0 /\ pushes = 0
  /\ latest = [m \in Machines |-> 0]
  /\ router = "accepting"

-----------------------------------------------------------------------------
(***************************************************************************)
(* Steps on a ClientState that the actions share                           *)
(***************************************************************************)

\* closeState(), and the handler of the socket's "close", which drops the client.
Closed(r) ==
  [r EXCEPT !.open = FALSE, !.queue = <<>>, !.events = <<>>, !.timer = FALSE,
            !.received = {}, !.answered = {}, !.accepted = <<>>, !.streamed = <<>>,
            !.seen = [m \in Machines |-> 0], !.endedAt = 0]

\* The loop of pumpEvents() up to its next await ("asking": isAuthorized()), or
\* up to writing an event that is already authorized ("ready").
Looped(r) ==
  [r EXCEPT !.pump =
     IF r.open /\ accepting /\ r.events # <<>> /\ ~r.protected
     THEN [event |-> Head(r.events),
           stage |-> IF Head(r.events).authorized THEN "ready" ELSE "asking"]
     ELSE NoPump]

\* pumpEvents() returns at once when it already runs.
Pumped(r) == IF r.pump = NoPump THEN Looped(r) ELSE r

\* pumpInput() takes the next frame.
Dispatched(r) ==
  IF r.queue = <<>> THEN [r EXCEPT !.work = NoWork]
  ELSE [r EXCEPT !.work = [frame |-> Head(r.queue), stage |-> "asking"],
                 !.queue = Tail(@)]

\* The result or error of a frame is written, when it is an invoke.  The client
\* is too slow, and closed, when the socket's buffer is full.
Answered(r, frame, buffer) ==
  IF ~r.open \/ frame.kind = "send" THEN r
  ELSE IF buffer = "full" THEN Closed(r)
  ELSE [r EXCEPT !.answered = @ \cup {frame.id}]

\* trimReplaceableEvents(): the first replaceable event goes, unless it is last.
Trimmed(q) ==
  LET old == {i \in 1..(Len(q) - 1) : q[i].channel = "state"}
  IN  IF Len(q) > MaxQueued /\ old # {}
      THEN RemoveAt(q, CHOOSE i \in old : \A j \in old : i <= j) ELSE q

\* Mutant of Placed: coalescing keeps the authorization of the replaced event.
PlacedAuthorized(q, e) ==
  LET same == {i \in 1..Len(q) : e.channel = "state" /\ q[i].channel = "state"}
  IN  IF same = {} THEN Append(q, e)
      ELSE [i \in 1..Len(q) |-> IF i \in same THEN [e EXCEPT !.authorized = q[i].authorized] ELSE q[i]]

\* queueSerializedEvent(): a replaceable event takes the place of the queued one
\* of its channel, and has to be authorized again.
Placed(q, e) ==
  LET same == {i \in 1..Len(q) : e.channel = "state" /\ q[i].channel = "state"}
  IN  IF same = {} THEN Append(q, e) ELSE [i \in 1..Len(q) |-> IF i \in same THEN e ELSE q[i]]

Queued(r, e) ==
  LET q == Trimmed(Placed(r.events, e)) IN
  IF ~accepting \/ ~r.open \/ r.protected THEN r
  ELSE IF Len(q) > MaxQueued THEN Closed(r)
  ELSE Pumped([r EXCEPT !.events = q,
                        !.accepted = IF e.channel = "stream" THEN Append(@, e.payload) ELSE @])

\* The first event is authorized: it is written, or waits for the retry timer,
\* or finds the client too slow.
Written(r, buffer) ==
  LET e == Head(r.events) IN
  IF e.channel = "state" /\ buffer # "low" THEN [r EXCEPT !.timer = TRUE, !.pump = NoPump]
  ELSE IF buffer = "full" THEN Closed([r EXCEPT !.pump = NoPump])
  ELSE Looped([r EXCEPT !.events = Tail(@),
                        !.streamed = IF e.channel = "stream" THEN Append(@, e.payload) ELSE @,
                        !.seen[e.about] = IF e.channel = "state" THEN e.payload ELSE @])

-----------------------------------------------------------------------------
(***************************************************************************)
(* Mutants: plausible mistakes in the code, not part of the specification. *)
(***************************************************************************)

\* Accept: acceptInput() pumps whether or not the router accepts.
AcceptAlways(r, frame, buffer) ==
  LET room == Len(r.queue) < MaxQueued IN
  CASE ~room -> Closed(r)
    [] r.work # NoWork /\ room -> [r EXCEPT !.queue = Append(@, frame)]
    [] OTHER -> Dispatched([r EXCEPT !.queue = <<frame>>])

\* Accept: after stopAccepting() a frame is queued though nothing pumps.
AcceptUnpumped(r, frame, buffer) ==
  LET room == Len(r.queue) < MaxQueued IN
  CASE accepting /\ ~room -> Closed(r)
    [] (r.work # NoWork \/ ~accepting) /\ room -> [r EXCEPT !.queue = Append(@, frame)]
    [] accepting /\ r.work = NoWork /\ room -> Dispatched([r EXCEPT !.queue = <<frame>>])
    [] OTHER -> Answered(r, frame, buffer)

\* Finish: finishDeferredClose() does not resume the events.
FinishWithoutPump(c) ==
  /\ clients[c].work.stage \in {"running", "revoked"}
  /\ \E buffer \in Buffers : LET
         r == clients[c]
         frame == r.work.frame
         done == [Answered(r, frame, buffer) EXCEPT !.protected = FALSE, !.deferred = FALSE]
     IN
     /\ lock' = IF frame.kind \in Locking THEN Tail(lock) ELSE lock
     /\ clients' = [clients EXCEPT ![c] = Dispatched(
          IF frame.kind = "send" THEN r ELSE IF r.deferred THEN Closed(done) ELSE done)]
  /\ UNCHANGED <<frames, pushes, latest, router>>

\* Resume: the event captured before the await is not compared with the first.
ResumeUnchecked(c, buffer) ==
  /\ clients[c].pump.stage \in {"yes", "no", "ready"}
  /\ LET r == clients[c] IN clients' = [clients EXCEPT ![c] =
          IF r.events = <<>> THEN Looped(r)
          ELSE IF r.pump.stage = "no" THEN Closed([r EXCEPT !.pump = NoPump])
          ELSE Written([r EXCEPT !.events[1] = [r.pump.event EXCEPT !.authorized = TRUE]], buffer)]
  /\ UNCHANGED <<lock, frames, pushes, latest, router>>

-----------------------------------------------------------------------------
(***************************************************************************)
(* Input                                                                   *)
(***************************************************************************)

\* acceptInput() and the start of pumpInput().  After stopAccepting() a frame
\* joins the queue of a client that is being served and is rejected otherwise.
Accept(r, frame, buffer) ==
  LET room == Len(r.queue) < MaxQueued IN
  CASE accepting /\ ~room -> Closed(r)
    [] r.work # NoWork /\ room -> [r EXCEPT !.queue = Append(@, frame)]
    [] accepting /\ r.work = NoWork /\ room -> Dispatched([r EXCEPT !.queue = <<frame>>])
    [] OTHER -> Answered(r, frame, buffer)

Receive(c) ==
  /\ clients[c].open /\ router # "closed"
  /\ frames < MaxFrames
  /\ frames' = frames + 1
  /\ \E kind \in Kinds, buffer \in Buffers :
       LET id == IF kind = "send" THEN {} ELSE {frames'}
           r == [clients[c] EXCEPT !.received = clients[c].received \cup id]
       IN  clients' = [clients EXCEPT ![c] =
             Accept(r, [id |-> frames', kind |-> kind], buffer)]
  /\ UNCHANGED <<lock, pushes, latest, router>>

\* dispatch() once authorize() has answered: the client is closed, the frame
\* rejected, or its handler called or queued for the lock.
Admit(c) == \E buffer \in Buffers :
  /\ clients[c].work.stage = "asking"
  /\ LET r == clients[c]
         frame == r.work.frame
     IN
     \/ /\ ~r.session
        /\ clients' = [clients EXCEPT ![c] = Closed([r EXCEPT !.work = NoWork])]
        /\ UNCHANGED lock
     \/ /\ r.session /\ ~accepting
        /\ clients' = [clients EXCEPT ![c] = Dispatched(Answered(r, frame, buffer))]
        /\ UNCHANGED lock
     \/ /\ r.session /\ accepting /\ frame.kind \notin Locking
        /\ clients' = [clients EXCEPT ![c].work.stage = "running"]
        /\ UNCHANGED lock
     \/ /\ r.session /\ accepting /\ frame.kind \in Locking
        /\ clients' = [clients EXCEPT ![c].work.stage = "waiting"]
        /\ lock' = Append(lock, c)
  /\ UNCHANGED <<frames, pushes, latest, router>>

\* The lock is granted and the handler called; protectReply() comes first.
Start(c) ==
  /\ clients[c].work.stage = "waiting" /\ Head(lock) = c
  /\ clients' = [clients EXCEPT ![c].work.stage = "running",
                                ![c].protected = clients[c].work.frame.kind \in Protecting]
  /\ UNCHANGED <<lock, frames, pushes, latest, router>>

\* auth:setPassword of the requester's own account: its sessions end and its
\* other sockets are closed; the requester's is to be closed after the reply.
Evict(c) ==
  /\ clients[c].work.stage = "running" /\ clients[c].work.frame.kind = "evict"
  /\ clients' = [d \in Clients |->
       LET ended == [clients[d] EXCEPT !.session = FALSE,
                                       !.endedAt = IF clients[d].session THEN pushes ELSE @]
       IN  IF d = c THEN [ended EXCEPT !.work.stage = "revoked", !.deferred = TRUE]
           ELSE Closed(ended)]
  /\ UNCHANGED <<lock, frames, pushes, latest, router>>

\* The handler settles: the lock is released, the reply written, and
\* finishDeferredClose() closes the client or resumes its events.
Finish(c) ==
  /\ clients[c].work.stage \in {"running", "revoked"}
  /\ \E buffer \in Buffers : LET
         r == clients[c]
         frame == r.work.frame
         done == [Answered(r, frame, buffer) EXCEPT !.protected = FALSE, !.deferred = FALSE]
     IN
     /\ lock' = IF frame.kind \in Locking THEN Tail(lock) ELSE lock
     /\ clients' = [clients EXCEPT ![c] = Dispatched(
          IF frame.kind = "send" THEN r
          ELSE IF r.deferred THEN Closed(done)
          ELSE Pumped(done))]
  /\ UNCHANGED <<frames, pushes, latest, router>>

\* The handler of a "send" throws: the client is closed.
SendFails(c) ==
  /\ clients[c].work.stage = "running" /\ clients[c].work.frame.kind = "send"
  /\ clients' = [clients EXCEPT ![c] = Closed([@ EXCEPT !.work = NoWork])]
  /\ UNCHANGED <<lock, frames, pushes, latest, router>>

-----------------------------------------------------------------------------
(***************************************************************************)
(* Output                                                                  *)
(***************************************************************************)

\* broadcast() and broadcastToMachine(): every client it concerns queues the event.
Broadcast(channel, m) ==
  /\ pushes < MaxPushes
  /\ pushes' = pushes + 1
  /\ latest' = IF channel = "state" THEN [latest EXCEPT ![m] = pushes'] ELSE latest
  /\ LET e == [channel |-> channel, about |-> m, payload |-> pushes', authorized |-> FALSE]
     IN  clients' = [c \in Clients |-> IF c \in Watchers THEN Queued(clients[c], e) ELSE clients[c]]
  /\ UNCHANGED <<lock, frames, router>>

\* authorize() decides; pumpEvents() has not resumed yet.
Decide(c) ==
  /\ clients[c].pump.stage = "asking"
  /\ clients' = [clients EXCEPT ![c].pump.stage = IF clients[c].session THEN "yes" ELSE "no"]
  /\ UNCHANGED <<lock, frames, pushes, latest, router>>

\* pumpEvents() resumes.  When its event is no longer the first, or was replaced,
\* the loop starts over.
Resume(c, buffer) ==
  /\ clients[c].pump.stage \in {"yes", "no", "ready"}
  /\ LET r == clients[c]
         stale == r.events = <<>> \/ Head(r.events) # r.pump.event
     IN clients' = [clients EXCEPT ![c] =
          IF stale THEN Looped(r)
          ELSE IF r.pump.stage = "no" THEN Closed([r EXCEPT !.pump = NoPump])
          ELSE Written([r EXCEPT !.events[1].authorized = TRUE], buffer)]
  /\ UNCHANGED <<lock, frames, pushes, latest, router>>

\* The eventTimer fires.
Retry(c) ==
  /\ clients[c].timer
  /\ clients' = [clients EXCEPT ![c] = Pumped([@ EXCEPT !.timer = FALSE])]
  /\ UNCHANGED <<lock, frames, pushes, latest, router>>

\* The session of a socket ends by itself: authorize() will find it expired.
Expire(c) ==
  /\ clients[c].session /\ clients[c].open
  /\ clients' = [clients EXCEPT ![c].session = FALSE, ![c].endedAt = pushes]
  /\ UNCHANGED <<lock, frames, pushes, latest, router>>

-----------------------------------------------------------------------------
(***************************************************************************)
(* Shutdown                                                                *)
(***************************************************************************)

\* stopAccepting(), and drain() is awaited.
StopAccepting ==
  /\ accepting
  /\ router' = "draining"
  /\ clients' = [c \in Clients |-> [clients[c] EXCEPT !.events = <<>>, !.timer = FALSE]]
  /\ UNCHANGED <<lock, frames, pushes, latest>>

\* drain() resolves: no pumpInput() is active.
Drained ==
  /\ router = "draining"
  /\ \A c \in Clients : clients[c].work = NoWork
  /\ router' = "drained"
  /\ UNCHANGED <<clients, lock, frames, pushes, latest>>

\* closeAll(), after the drain.
CloseAll ==
  /\ router = "drained"
  /\ router' = "closed"
  /\ clients' = [c \in Clients |-> Closed(clients[c])]
  /\ UNCHANGED <<lock, frames, pushes, latest>>

Next ==
  \/ \E c \in Clients :
       \/ Receive(c) \/ Admit(c) \/ Start(c) \/ Evict(c) \/ Finish(c) \/ SendFails(c)
       \/ Decide(c) \/ (\E buffer \in Buffers : Resume(c, buffer)) \/ Retry(c) \/ Expire(c)
  \/ \E channel \in {"state", "stream"}, m \in Machines : Broadcast(channel, m)
  \/ StopAccepting \/ Drained \/ CloseAll

\* Handlers settle, authorize() answers and the event loop runs the rest; a
\* socket that is written to again and again takes data at some point.
Fairness ==
  \A c \in Clients :
    /\ WF_vars(Admit(c)) /\ WF_vars(Start(c)) /\ WF_vars(Finish(c) \/ SendFails(c))
    /\ WF_vars(Decide(c)) /\ WF_vars(Retry(c))
    /\ WF_vars(\E buffer \in Buffers : Resume(c, buffer)) /\ SF_vars(Resume(c, "low"))

Safety == Init /\ [][Next]_vars
Spec == Safety /\ Fairness

-----------------------------------------------------------------------------
(***************************************************************************)
(* Properties                                                              *)
(***************************************************************************)

\* Every invoke is answered, with a result or an error, unless its socket is
\* closed: also one that waits for the lock behind another browser's, and one
\* that arrives while the router is shutting down.  (What was received stays so until
\* the socket closes, so in the end all of it is answered.)
EveryInvokeAnswered ==
  <>[](\A c \in Clients : clients[c].open => clients[c].received \subseteq clients[c].answered)

\* drain(): once it has resolved no handler is running and none is called, so
\* what follows (closing the sockets, the clean close) has the server to itself.
\* Until then every queue keeps within its limit (TypeOK).
DrainedIsQuiet ==
  /\ TypeOK
  /\ router \in {"drained", "closed"} => \A c \in Clients : clients[c].work = NoWork

\* trimReplaceableEvents() and the restarted loop of pumpEvents() never cost a client a
\* stream event: what was written is what was accepted first, the rest waits in the queue
\* and nothing else does, in the order in which it was accepted (that of the payloads).
StreamIsWhole ==
  accepting => \A c \in Clients : clients[c].open =>
    LET r == clients[c]
        waiting == {i \in DOMAIN r.events : r.events[i].channel = "stream"}
        unwritten == Len(r.streamed) + 1 .. Len(r.accepted)
    IN  /\ IsPrefix(r.streamed, r.accepted)
        /\ \A i, j \in DOMAIN r.accepted : i < j => r.accepted[i] < r.accepted[j]
        /\ \A i, j \in waiting : i < j => r.events[i].payload < r.events[j].payload
        /\ {r.events[i].payload : i \in waiting} = {r.accepted[k] : k \in unwritten}

\* "does not broadcast to a socket whose session is no longer authorized": a
\* client is sent nothing that was pushed after its session had ended, though
\* events wait for authorize(), for the retry timer and are replaced meanwhile.
NothingAfterTheEnd ==
  \A c \in Clients : clients[c].open /\ ~clients[c].session =>
    /\ \A m \in Machines : clients[c].seen[m] <= clients[c].endedAt
    /\ \A i \in 1..Len(clients[c].streamed) : clients[c].streamed[i] <= clients[c].endedAt

\* No wakeup of pumpEvents() is lost: what is queued for a client is written (or
\* superseded, or the client closed), also when the reply to one of its invokes
\* was protected or its socket stalled in between.
EventsDrain == \A c \in Clients : []<>(clients[c].events = <<>>)

\* "packages:log / packages:state: live apt/dnf/pacman output": a browser with
\* no event left to receive has seen the last state of every machine.
StateIsCurrent ==
  accepting => \A c \in Watchers :
    clients[c].open /\ clients[c].events = <<>> => clients[c].seen = latest
=============================================================================
