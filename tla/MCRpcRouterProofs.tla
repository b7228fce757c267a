-------------------------- MODULE MCRpcRouterProofs --------------------------
(***************************************************************************)
(* The theorems of RpcRouterProofs about the events, for the composition   *)
(* MCRpcRouter: a step of the whole is a step of one of the halves.        *)
(***************************************************************************)
EXTENDS MCRpcRouter, TLAPS

EventTheorems == INSTANCE RpcRouterProofs WITH
  Clients <- Viewers, Watchers <- Viewers, Kinds <- EventKinds,
  MaxFrames <- EventFrames, MaxPushes <- EventPushes, MaxQueued <- EventQueue,
  clients <- eventClients, lock <- eventLock, frames <- eventFrames, pushes <- eventPushes,
  latest <- eventLatest, router <- eventRouter

\* What the actions of the two make of a client's state is the same.
LEMMA SameHelpers ==
  /\ \A r : Event!Closed(r) = EventTheorems!Closed(r)
  /\ \A r : Event!Pumped(r) = EventTheorems!Pumped(r)
  /\ \A r : Event!Dispatched(r) = EventTheorems!Dispatched(r)
  /\ \A r, f, b : Event!Answered(r, f, b) = EventTheorems!Answered(r, f, b)
  /\ \A q, e : Event!Placed(q, e) = EventTheorems!Placed(q, e)
  /\ \A q : Event!Trimmed(q) = EventTheorems!Trimmed(q)
  /\ \A r, f, b : Event!Accept(r, f, b) = EventTheorems!Accept(r, f, b)
  /\ \A r, e : Event!Queued(r, e) = EventTheorems!Queued(r, e)
<1>1. \A r : Event!Closed(r) = EventTheorems!Closed(r)
  BY DEF Event!Closed, EventTheorems!Closed
<1>2. \A r : Event!Pumped(r) = EventTheorems!Pumped(r)
  BY DEF Event!Pumped, EventTheorems!Pumped, Event!Looped, EventTheorems!Looped,
      Event!NoPump, EventTheorems!NoPump, Event!accepting, EventTheorems!accepting
<1>3. \A r : Event!Dispatched(r) = EventTheorems!Dispatched(r)
  BY DEF Event!Dispatched, EventTheorems!Dispatched, Event!NoWork, EventTheorems!NoWork
<1>4. \A r, f, b : Event!Answered(r, f, b) = EventTheorems!Answered(r, f, b)
  BY DEF Event!Answered, EventTheorems!Answered, Event!Closed, EventTheorems!Closed
<1>5. \A q, e : Event!Placed(q, e) = EventTheorems!Placed(q, e)
  BY DEF Event!Placed, EventTheorems!Placed
<1>6. \A q : Event!Trimmed(q) = EventTheorems!Trimmed(q)
  BY DEF Event!Trimmed, EventTheorems!Trimmed, Event!RemoveAt, EventTheorems!RemoveAt
<1>7. \A r, f, b : Event!Accept(r, f, b) = EventTheorems!Accept(r, f, b)
  BY <1>1, <1>3, <1>4 DEF Event!Accept, EventTheorems!Accept, Event!accepting,
      EventTheorems!accepting, Event!NoWork, EventTheorems!NoWork
<1>8. \A r, e : Event!Queued(r, e) = EventTheorems!Queued(r, e)
  BY <1>1, <1>2, <1>5, <1>6 DEF Event!Queued, EventTheorems!Queued, Event!accepting,
      EventTheorems!accepting
<1>9. QED
  BY <1>1, <1>2, <1>3, <1>4, <1>5, <1>6, <1>7, <1>8

\* A step of the router of the events is a step of the router the theorems are about.
LEMMA SameSteps == Event!Next => EventTheorems!Next
<1>1. \A c : Event!Receive(c) => EventTheorems!Receive(c)
  BY SameHelpers DEF Event!Receive, EventTheorems!Receive, Event!Buffers,
      EventTheorems!Buffers
<1>2. \A c : Event!Admit(c) => EventTheorems!Admit(c)
  BY DEF Event!Admit, EventTheorems!Admit, Event!Buffers, EventTheorems!Buffers,
      Event!Dispatched, EventTheorems!Dispatched, Event!Answered, EventTheorems!Answered,
      Event!Closed, EventTheorems!Closed, Event!accepting, EventTheorems!accepting,
      Event!NoWork, EventTheorems!NoWork, Event!Locking, EventTheorems!Locking
<1>3. \A c : Event!Start(c) => EventTheorems!Start(c)
  BY DEF Event!Start, EventTheorems!Start, Event!Protecting, EventTheorems!Protecting
<1>4. \A c : Event!Evict(c) => EventTheorems!Evict(c)
  BY DEF Event!Evict, EventTheorems!Evict, Event!Closed, EventTheorems!Closed
<1>5. \A c : Event!Finish(c) => EventTheorems!Finish(c)
  BY SameHelpers DEF Event!Finish, EventTheorems!Finish, Event!Buffers,
      EventTheorems!Buffers, Event!Locking, EventTheorems!Locking
<1>6. \A c : Event!SendFails(c) => EventTheorems!SendFails(c)
  BY DEF Event!SendFails, EventTheorems!SendFails, Event!Closed, EventTheorems!Closed,
      Event!NoWork, EventTheorems!NoWork
<1>7. \A c : Event!Decide(c) => EventTheorems!Decide(c)
  BY DEF Event!Decide, EventTheorems!Decide
<1>8. \A c, buffer : Event!Resume(c, buffer) => EventTheorems!Resume(c, buffer)
  BY SMTT(30) DEF Event!Resume, EventTheorems!Resume, Event!Looped, EventTheorems!Looped,
      Event!Written, EventTheorems!Written, Event!Closed, EventTheorems!Closed,
      Event!NoPump, EventTheorems!NoPump, Event!accepting, EventTheorems!accepting
<1>9. \A c : Event!Retry(c) => EventTheorems!Retry(c)
  BY DEF Event!Retry, EventTheorems!Retry, Event!Pumped, EventTheorems!Pumped, Event!Looped,
      EventTheorems!Looped, Event!NoPump, EventTheorems!NoPump, Event!accepting,
      EventTheorems!accepting
<1>10. \A c : Event!Expire(c) => EventTheorems!Expire(c)
  BY DEF Event!Expire, EventTheorems!Expire
<1>11. \A channel, m : Event!Broadcast(channel, m) => EventTheorems!Broadcast(channel, m)
  BY SameHelpers DEF Event!Broadcast, EventTheorems!Broadcast
<1>12. Event!StopAccepting => EventTheorems!StopAccepting
  BY DEF Event!StopAccepting, EventTheorems!StopAccepting, Event!accepting,
      EventTheorems!accepting
<1>13. Event!Drained => EventTheorems!Drained
  BY DEF Event!Drained, EventTheorems!Drained, Event!NoWork, EventTheorems!NoWork
<1>14. Event!CloseAll => EventTheorems!CloseAll
  BY DEF Event!CloseAll, EventTheorems!CloseAll, Event!Closed, EventTheorems!Closed
<1>15. Event!Buffers = EventTheorems!Buffers
  BY DEF Event!Buffers, EventTheorems!Buffers
<1>16. QED
  BY <1>1, <1>2, <1>3, <1>4, <1>5, <1>6, <1>7, <1>8, <1>9, <1>10, <1>11, <1>12, <1>13,
     <1>14, <1>15
      DEF Event!Next, EventTheorems!Next

\* A step of the composition is a step of the events or leaves them alone.
LEMMA EventSteps == AllSpec => EventTheorems!Safety
<1>1. AllInit => EventTheorems!Init
  BY DEF AllInit, Event!Init, EventTheorems!Init, Event!NoWork, EventTheorems!NoWork,
      Event!NoPump, EventTheorems!NoPump
<1>2. [AllNext]_<<part, vars, eventVars>> => [Event!Next]_(Event!vars)
  BY DEF AllNext, eventVars, Event!vars
<1>3. [Event!Next]_(Event!vars) => [EventTheorems!Next]_(EventTheorems!vars)
  BY SameSteps DEF Event!vars, EventTheorems!vars
<1>4. QED
  BY <1>1, <1>2, <1>3, PTL DEF AllSpec, EventTheorems!Safety

\* What is queued for a browser keeps within its limit, its streams stay whole, and nothing
\* pushed after its session has ended is written to it.
THEOREM PushesStaySound == AllSpec => []PushesAreSound
<1>1. EventTheorems!Safety => [](EventTheorems!TypeOK)
  BY EventAssumption, EventTheorems!QueuesAreBounded DEF Locking, EventTheorems!Locking
<1>2. EventTheorems!Safety => [](EventTheorems!StreamIsWhole)
  BY EventAssumption, EventTheorems!StreamsStayWhole DEF Locking, EventTheorems!Locking
<1>3. EventTheorems!Safety => [](EventTheorems!NothingAfterTheEnd)
  BY EventAssumption, EventTheorems!NothingIsSentAfterTheEnd DEF Locking, EventTheorems!Locking
<1>4. EventTheorems!TypeOK => Event!TypeOK
  BY DEF Event!TypeOK, EventTheorems!TypeOK, Event!ClientState, EventTheorems!ClientState,
      Event!Frames, EventTheorems!Frames, Event!Events, EventTheorems!Events, Event!Works,
      EventTheorems!Works, Event!Pumps, EventTheorems!Pumps, Event!NoWork,
      EventTheorems!NoWork, Event!NoPump, EventTheorems!NoPump, Event!IsInjective,
      EventTheorems!IsInjective
<1>5. EventTheorems!StreamIsWhole => Event!StreamIsWhole
  BY DEF Event!StreamIsWhole, EventTheorems!StreamIsWhole, Event!accepting,
      EventTheorems!accepting, Event!IsPrefix, EventTheorems!IsPrefix
<1>6. EventTheorems!NothingAfterTheEnd => Event!NothingAfterTheEnd
  BY DEF Event!NothingAfterTheEnd, EventTheorems!NothingAfterTheEnd
<1>7. QED
  BY <1>1, <1>2, <1>3, <1>4, <1>5, <1>6, EventSteps, PTL DEF PushesAreSound
=============================================================================
