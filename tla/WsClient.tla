------------------------------- MODULE WsClient -------------------------------
(***************************************************************************)
(* src/lib/ws-client.ts: the browser's end of the RPC, a WebSocket that is *)
(* opened again whenever it closes, until the session ends.                *)
(*                                                                         *)
(* Each callback (onopen, onmessage, onclose, the reconnect timer) is an   *)
(* action, and so is each method.  onUnauthorized is the one store.ts      *)
(* installs: it calls disconnect().  The server is the environment: it     *)
(* answers an invoke or the socket closes.                                 *)
(***************************************************************************)
EXTENDS Naturals, Sequences, SequencesExt

CONSTANTS
  MaxSockets,   \* bound on the WebSocket objects that exist at one time
  MaxInvokes,   \* bound on the calls of invoke()
  MaxEpochs     \* bound on the sessions that end


Sockets == 1..MaxSockets
None == 0
Ids == 1..MaxInvokes

VARIABLES
  socket,    \* this.socket
  state,     \* WsState
  pending,   \* ids in the pending map
  outbox,    \* ids of the frames held until a socket opens
  timer,     \* reconnectTimer is set
  stopped,
  net,       \* readyState of each WebSocket; "none": unused, or closed for good
  wire,      \* ids sent on each socket and not answered
  waiting,   \* ids whose promise is not settled
  born,      \* the epoch each invoke was issued in
  epoch      \* number of sessions that have ended

vars == <<socket, state, pending, outbox, timer, stopped, net, wire, waiting, born, epoch>>

TypeOK ==
  /\ socket \in Sockets \cup {None}
  /\ state \in {"connecting", "open", "closed"}
  /\ pending \subseteq Ids
  /\ outbox \in Seq(Ids) /\ IsInjective(outbox)
  /\ timer \in BOOLEAN /\ stopped \in BOOLEAN
  /\ net \in [Sockets -> {"none", "connecting", "open", "closing"}]
  /\ wire \in [Sockets -> SUBSET Ids]
  /\ waiting \subseteq pending
  /\ born \in Seq(0..MaxEpochs) /\ Len(born) <= MaxInvokes
  /\ epoch \in 0..MaxEpochs

Init ==
  /\ socket = None
  /\ state = "closed"
  /\ pending = {} /\ outbox = <<>>
  /\ timer = FALSE /\ stopped = FALSE
  /\ net = [s \in Sockets |-> "none"]
  /\ wire = [s \in Sockets |-> {}]
  /\ waiting = {} /\ born = <<>> /\ epoch = 0

-----------------------------------------------------------------------------
(***************************************************************************)
(* Mutants: plausible mistakes in the code, not part of the specification. *)
(***************************************************************************)

\* Disconnect: the outbox is kept.
DisconnectKeepsOutbox ==
  /\ epoch < MaxEpochs
  /\ epoch' = epoch + 1
  /\ stopped' = TRUE /\ timer' = FALSE
  /\ pending' = {} /\ waiting' = {}
  /\ net' = [s \in Sockets |-> IF s = socket THEN "closing" ELSE net[s]]
  /\ wire' = [s \in Sockets |-> IF s = socket THEN {} ELSE wire[s]]
  /\ socket' = None /\ state' = "closed"
  /\ UNCHANGED <<outbox, born>>

\* OnClose: the calls in flight are not rejected.
OnCloseKeepsPending(s) ==
  /\ net[s] = "closing"
  /\ net' = [net EXCEPT ![s] = "none"]
  /\ socket' = None /\ state' = "closed"
  /\ timer' = (timer \/ ~stopped)
  /\ outbox' = <<>>
  /\ UNCHANGED <<pending, waiting, stopped, wire, born, epoch>>

-----------------------------------------------------------------------------
\* open(), when it is not stopped: a new WebSocket unless there is one.
Open ==
  \/ /\ socket # None
     /\ UNCHANGED <<socket, net, state>>
  \/ /\ socket = None
     /\ \E s \in Sockets :
          /\ net[s] = "none" /\ \A t \in Sockets : net[t] = "none" => s <= t
          /\ socket' = s
          /\ net' = [net EXCEPT ![s] = "connecting"]
     /\ state' = "connecting"

\* connect(), by boot(): at the start, after a login, or to adopt a session.
Connect ==
  /\ stopped' = FALSE
  /\ IF state = "open" THEN UNCHANGED <<socket, net, state>> ELSE Open
  /\ UNCHANGED <<pending, outbox, timer, wire, waiting, born, epoch>>

\* disconnect(): logout(), and adoptSession() right before its connect().
Disconnect ==
  /\ epoch < MaxEpochs
  /\ epoch' = epoch + 1
  /\ stopped' = TRUE /\ timer' = FALSE
  /\ pending' = {} /\ waiting' = {} /\ outbox' = <<>>
  /\ net' = [s \in Sockets |-> IF s = socket THEN "closing" ELSE net[s]]
  /\ wire' = [s \in Sockets |-> IF s = socket THEN {} ELSE wire[s]]
  /\ socket' = None /\ state' = "closed"
  /\ UNCHANGED born

\* write(): the frame is sent, or held while a socket is opened.  On a socket
\* that is still connecting send() throws, on one that is closing it does nothing.
Write(id) ==
  \/ /\ socket # None /\ state = "open"
     /\ wire' = IF net[socket] = "open" THEN [wire EXCEPT ![socket] = @ \cup {id}] ELSE wire
     /\ waiting' = IF net[socket] = "connecting" THEN waiting ELSE waiting \cup {id}
     /\ UNCHANGED <<socket, state, net, outbox>>
  \/ /\ socket = None \/ state # "open"
     /\ outbox' = Append(outbox, id)
     /\ waiting' = waiting \cup {id}
     /\ Open
     /\ UNCHANGED wire

\* invoke().  The screens that call it are shown while the browser is signed in.
Invoke ==
  /\ ~stopped
  /\ Len(born) < MaxInvokes
  /\ born' = Append(born, epoch)
  /\ pending' = pending \cup {Len(born) + 1}
  /\ Write(Len(born) + 1)
  /\ UNCHANGED <<timer, stopped, epoch>>

\* onopen of socket s, whichever this.socket is.
OnOpen(s) ==
  /\ net[s] = "connecting"
  /\ net' = [net EXCEPT ![s] = "open"]
  /\ state' = "open"
  /\ wire' = [wire EXCEPT ![s] = @ \cup ToSet(outbox)]
  /\ outbox' = <<>>
  /\ UNCHANGED <<socket, pending, timer, stopped, waiting, born, epoch>>

\* onmessage: the answer to an invoke.
OnAnswer(s, id) ==
  /\ net[s] = "open" /\ id \in wire[s]
  /\ wire' = [wire EXCEPT ![s] = @ \ {id}]
  /\ pending' = pending \ {id} /\ waiting' = waiting \ {id}
  /\ UNCHANGED <<socket, state, outbox, timer, stopped, net, born, epoch>>

\* The server refuses or closes the connection, or the network drops it.
Break(s) ==
  /\ net[s] \in {"connecting", "open"}
  /\ net' = [net EXCEPT ![s] = "closing"]
  /\ wire' = [wire EXCEPT ![s] = {}]
  /\ UNCHANGED <<socket, state, pending, outbox, timer, stopped, waiting, born, epoch>>

\* onclose of socket s, whichever this.socket is, unless the code is 4401.
OnClose(s) ==
  /\ net[s] = "closing"
  /\ net' = [net EXCEPT ![s] = "none"]
  /\ socket' = None /\ state' = "closed"
  /\ timer' = (timer \/ ~stopped)
  /\ pending' = {} /\ waiting' = {} /\ outbox' = <<>>
  /\ UNCHANGED <<stopped, wire, born, epoch>>

\* onclose with code 4401: onUnauthorized calls disconnect().
OnUnauthorized(s) ==
  /\ net[s] = "closing"
  /\ epoch < MaxEpochs
  /\ epoch' = epoch + 1
  /\ net' = [net EXCEPT ![s] = "none"]
  /\ socket' = None /\ state' = "closed"
  /\ stopped' = TRUE /\ timer' = FALSE
  /\ pending' = {} /\ waiting' = {} /\ outbox' = <<>>
  /\ UNCHANGED <<wire, born>>

\* The reconnectTimer fires.
Reconnect ==
  /\ timer
  /\ timer' = FALSE
  /\ IF stopped THEN UNCHANGED <<socket, net, state>> ELSE Open
  /\ UNCHANGED <<pending, outbox, stopped, wire, waiting, born, epoch>>

Next ==
  \/ Connect \/ Disconnect \/ Invoke \/ Reconnect
  \/ \E s \in Sockets :
       \/ OnOpen(s) \/ Break(s) \/ OnClose(s) \/ OnUnauthorized(s)
       \/ \E id \in Ids : OnAnswer(s, id)

\* Callbacks and timers run, a connection attempt ends, and the server answers
\* what it receives on a socket that stays open (EveryInvokeAnswered of
\* RpcRouter).  An attempt that is made again and again succeeds at some point.
Fairness ==
  /\ WF_vars(Reconnect)
  /\ \A s \in Sockets :
       /\ WF_vars(OnClose(s) \/ OnUnauthorized(s))
       /\ WF_vars(OnOpen(s) \/ (net[s] = "connecting" /\ Break(s)))
       /\ SF_vars(OnOpen(s))
       /\ \A id \in Ids : WF_vars(OnAnswer(s, id))

Safety == Init /\ [][Next]_vars
Spec == Safety /\ Fairness

-----------------------------------------------------------------------------
(***************************************************************************)
(* Properties                                                              *)
(***************************************************************************)

\* "no caller may be left waiting for an answer that cannot come": while the
\* browser is signed in every invoke is answered or rejected, whichever socket
\* its frame went to and whichever of them closes.
InvokesSettle == <>[](waiting = {} \/ stopped)

\* "Nothing from the session that just ended may be replayed into the next one":
\* no socket ever carries a frame that was issued before the last disconnect().
NothingReplayed ==
  [][\A s \in Sockets : \A id \in wire'[s] \ wire[s] : born'[id] = epoch']_vars

\* "it reconnects on its own": a browser that is signed in gets a connection
\* again, whatever closes while another socket is opening.
Reconnects ==
  ~stopped /\ (socket # None \/ timer) ~> stopped \/ \E s \in Sockets : net[s] = "open"

\* "One WebSocket to /ws carries every call and every push".
OneSocket == \A s, t \in Sockets : net[s] = "open" /\ net[t] = "open" => s = t
=============================================================================
