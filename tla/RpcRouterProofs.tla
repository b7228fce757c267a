---------------------------- MODULE RpcRouterProofs ----------------------------
(***************************************************************************)
(* Proofs about RpcRouter, for any browsers, machines, kinds of frames and *)
(* bounds.                                                                 *)
(***************************************************************************)
EXTENDS RpcRouter, SequenceTheorems, WellFoundedInduction, TLAPS

-----------------------------------------------------------------------------
(***************************************************************************)
(* The inductive invariant: first the lock, then one browser's state.      *)
(***************************************************************************)

\* A mutation waits for the lock or holds it.
Locked(work) == work.stage \in {"waiting", "running", "revoked"} /\ work.frame.kind \in Locking

\* The lock holds exactly the clients whose mutation waits or runs, and the one that runs
\* is the first.
LockIsHeld ==
  /\ \A i \in 1..Len(lock) : Locked(clients[lock[i]].work)
  /\ \A c \in Clients : Locked(clients[c].work) => \E i \in 1..Len(lock) : lock[i] = c
  /\ \A c \in Clients : Locked(clients[c].work) /\ clients[c].work.stage # "waiting" =>
       Len(lock) > 0 /\ lock[1] = c
  /\ \A c \in Clients : clients[c].work.stage \in {"waiting", "revoked"} =>
       Locked(clients[c].work)

\* Once the drain has resolved nothing works.
NothingWorks == router \in {"drained", "closed"} => \A c \in Clients : clients[c].work = NoWork

\* What is queued, written or accepted for an open client was pushed: n is the number of
\* the pushes.
Known(r, n) ==
  /\ \A i \in 1..Len(r.events) : r.events[i].payload <= n
  /\ \A i \in 1..Len(r.accepted) : r.accepted[i] <= n
  /\ \A i \in 1..Len(r.streamed) : r.streamed[i] <= n
  /\ \A m \in Machines : r.seen[m] <= n
  /\ r.pump # NoPump => r.pump.event.payload <= n

\* Of a session that has ended nothing pushed later is written, and no event that counts
\* as authorized, in the queue or in pumpEvents(), was pushed later.
Ended(r) == ~r.session =>
  /\ \A m \in Machines : r.seen[m] <= r.endedAt
  /\ \A i \in 1..Len(r.streamed) : r.streamed[i] <= r.endedAt
  /\ \A i \in 1..Len(r.events) : r.events[i].authorized => r.events[i].payload <= r.endedAt
  /\ r.pump.stage \in {"yes", "ready"} => r.pump.event.payload <= r.endedAt

\* StreamIsWhole element by element, of a queue of events and of what was accepted and
\* streamed.
Waiting(queue) == {i \in 1..Len(queue) : queue[i].channel = "stream"}
Unwritten(accepted, streamed) == Len(streamed) + 1 .. Len(accepted)
Whole(queue, accepted, streamed) ==
  /\ Len(streamed) <= Len(accepted)
  /\ \A i \in 1..Len(streamed) : streamed[i] = accepted[i]
  /\ \A i, j \in 1..Len(accepted) : i < j => accepted[i] < accepted[j]
  /\ \A i, j \in Waiting(queue) : i < j => queue[i].payload < queue[j].payload
  /\ \A i \in Waiting(queue) :
       \E k \in Unwritten(accepted, streamed) : accepted[k] = queue[i].payload
  /\ \A k \in Unwritten(accepted, streamed) :
       \E i \in Waiting(queue) : accepted[k] = queue[i].payload

\* The state of a client: its types and limits, and while it is open what was pushed; w
\* tells whether the router accepts, and the streams are whole.
Typed(r) == r \in ClientState /\ Len(r.queue) <= MaxQueued /\ Len(r.events) <= MaxQueued
Sound(r, n, w) ==
  /\ Typed(r)
  /\ r.open => /\ Known(r, n) /\ Ended(r)
               /\ w => Whole(r.events, r.accepted, r.streamed)

\* The inductive invariant.
IInv ==
  /\ TypeOK /\ LockIsHeld /\ NothingWorks
  /\ \A c \in Clients : Sound(clients[c], pushes, accepting)

-----------------------------------------------------------------------------
(***************************************************************************)
(* What the steps on a client's state preserve                             *)
(***************************************************************************)

\* closeState() leaves a closed client whatever it was given, with its work.
LEMMA ClosedSound ==
  ASSUME NEW r, Typed(r), NEW n, NEW w
  PROVE  /\ Sound(Closed(r), n, w) /\ Closed(r).open = FALSE
         /\ Closed(r).work = r.work
<1>1. 0 \in 0..MaxPushes
  BY BoundsAssumption
<1>2. [m \in Machines |-> 0] \in [Machines -> 0..MaxPushes]
  BY <1>1
<1>3. r \in ClientState
  BY DEF Typed
<1>4. Closed(r) \in ClientState
  <2> DEFINE a == [r EXCEPT !.open = FALSE, !.queue = <<>>, !.events = <<>>, !.timer = FALSE]
             b == [a EXCEPT !.received = {}, !.answered = {}]
             d == [b EXCEPT !.accepted = <<>>, !.streamed = <<>>]
             e == [d EXCEPT !.seen = [m \in Machines |-> 0], !.endedAt = 0]
  <2>1. /\ <<>> \in Seq(Frames) /\ <<>> \in Seq(Events) /\ <<>> \in Seq(1..MaxPushes)
        /\ {} \in SUBSET (1..MaxFrames)
    OBVIOUS
  <2>2. a \in ClientState
    BY <1>3, <2>1 DEF ClientState
  <2>3. b \in ClientState
    <3> HIDE DEF a
    <3>1. QED
      BY <2>1, <2>2 DEF ClientState
  <2>4. d \in ClientState
    <3> HIDE DEF b
    <3>1. QED
      BY <2>1, <2>3 DEF ClientState
  <2>5. e \in ClientState
    <3> HIDE DEF d
    <3>1. QED
      BY <1>1, <1>2, <2>4 DEF ClientState
  <2>6. QED
    BY <2>5 DEF Closed
<1>5. /\ Closed(r).queue = <<>> /\ Closed(r).events = <<>> /\ Closed(r).open = FALSE
      /\ Closed(r).work = r.work
  BY <1>3 DEF ClientState, Closed
<1>6. QED
  BY <1>4, <1>5, BoundsAssumption DEF Typed, Sound

\* Soundness is about the output of a client only: it does not depend on its input.
LEMMA OutputOnly ==
  ASSUME NEW r, NEW q, NEW n, NEW w, Sound(r, n, w), Typed(q), q.open = r.open,
         q.session = r.session, q.endedAt = r.endedAt, q.events = r.events,
         q.accepted = r.accepted, q.streamed = r.streamed, q.seen = r.seen, q.pump = r.pump
  PROVE  Sound(q, n, w)
BY DEF Sound, Known, Ended

\* The loop of pumpEvents() takes the first event with the authorization it has.
LEMMA LoopedSound ==
  ASSUME NEW r, NEW n, NEW w, Sound(r, n, w)
  PROVE  /\ Sound(Looped(r), n, w)
         /\ Looped(r).open = r.open /\ Looped(r).work = r.work
<1> DEFINE q == Looped(r)
<1>1. r \in ClientState
  BY DEF Sound, Typed
<1>2. CASE r.open /\ accepting /\ r.events # <<>> /\ ~r.protected
  <2>1. /\ Head(r.events) \in Events /\ Head(r.events) = r.events[1] /\ 1 \in 1..Len(r.events)
    BY <1>1, <1>2 DEF ClientState
  <2>2. q = [r EXCEPT !.pump = [event |-> Head(r.events), stage |->
                        IF Head(r.events).authorized THEN "ready" ELSE "asking"]]
    BY <1>2 DEF Looped
  <2>0. q.pump \in Pumps
    BY <1>1, <2>1, <2>2 DEF ClientState, Pumps
  <2>3. q \in ClientState
    BY <1>1, <2>0, <2>2 DEF ClientState
  <2>4. /\ q.events = r.events /\ q.accepted = r.accepted /\ q.streamed = r.streamed
        /\ q.seen = r.seen /\ q.session = r.session /\ q.endedAt = r.endedAt
        /\ q.open = r.open /\ q.queue = r.queue /\ q.work = r.work
        /\ q.pump.event = r.events[1]
        /\ q.pump.stage = IF r.events[1].authorized THEN "ready" ELSE "asking"
    BY <1>1, <2>1, <2>2 DEF ClientState
  <2> HIDE DEF q
  <2>5. Known(q, n) /\ Ended(q)
    BY <1>2, <2>1, <2>4 DEF Sound, Known, Ended
  <2>7. Typed(q)
    BY <2>3, <2>4 DEF Sound, Typed
  <2>8. QED
    BY <2>4, <2>5, <2>7 DEF Sound, q
<1>3. CASE ~(r.open /\ accepting /\ r.events # <<>> /\ ~r.protected)
  <2>1. q = [r EXCEPT !.pump = NoPump]
    BY <1>3 DEF Looped
  <2>2. q \in ClientState
    BY <1>1, <2>1 DEF ClientState, Pumps
  <2>3. /\ q.events = r.events /\ q.accepted = r.accepted /\ q.streamed = r.streamed
        /\ q.seen = r.seen /\ q.session = r.session /\ q.endedAt = r.endedAt
        /\ q.open = r.open /\ q.queue = r.queue /\ q.work = r.work /\ q.pump = NoPump
    BY <1>1, <2>1 DEF ClientState
  <2> HIDE DEF q
  <2>4. NoPump.stage = "idle"
    BY DEF NoPump
  <2>5. Known(r, n) /\ Ended(r) => Known(q, n) /\ Ended(q)
    BY <2>3, <2>4 DEF Known, Ended
  <2>7. Typed(q)
    BY <2>2, <2>3 DEF Sound, Typed
  <2>8. QED
    BY <2>3, <2>5, <2>7 DEF Sound, q
<1>4. QED
  BY <1>2, <1>3

\* pumpEvents() is that loop, unless it already runs.
LEMMA PumpedSound ==
  ASSUME NEW r, NEW n, NEW w, Sound(r, n, w)
  PROVE  /\ Sound(Pumped(r), n, w)
         /\ Pumped(r).open = r.open /\ Pumped(r).work = r.work
BY LoopedSound DEF Pumped

\* pumpInput() takes the next frame of the queue, or rests.
LEMMA DispatchedSound ==
  ASSUME NEW r, NEW n, NEW w, Sound(r, n, w)
  PROVE  /\ Sound(Dispatched(r), n, w) /\ Dispatched(r).work.stage \in {"idle", "asking"}
         /\ (r.queue = <<>> => Dispatched(r).work = NoWork)
<1> DEFINE q == Dispatched(r)
<1>1. r \in ClientState /\ Len(r.queue) <= MaxQueued
  BY DEF Sound, Typed
<1>2. /\ q \in ClientState /\ Len(q.queue) <= MaxQueued /\ q.open = r.open
      /\ q.session = r.session /\ q.endedAt = r.endedAt /\ q.events = r.events
      /\ q.accepted = r.accepted /\ q.streamed = r.streamed /\ q.seen = r.seen
      /\ q.pump = r.pump /\ q.work.stage \in {"idle", "asking"}
      /\ (r.queue = <<>> => q.work = NoWork)
  <2>1. CASE r.queue = <<>>
    BY <1>1, <2>1 DEF Dispatched, ClientState, Works, NoWork
  <2>2. CASE r.queue # <<>>
    <3>1. /\ Head(r.queue) \in Frames /\ Tail(r.queue) \in Seq(Frames)
          /\ Len(Tail(r.queue)) = Len(r.queue) - 1
      BY <1>1, <2>2 DEF ClientState
    <3>2. [frame |-> Head(r.queue), stage |-> "asking"] \in Works
      BY <3>1 DEF Works
    <3>3. q = [r EXCEPT !.work = [frame |-> Head(r.queue), stage |-> "asking"],
                        !.queue = Tail(r.queue)]
      BY <1>1, <2>2 DEF Dispatched, ClientState
    <3>4. q \in ClientState
      BY <1>1, <3>1, <3>2, <3>3 DEF ClientState
    <3>5. /\ q.queue = Tail(r.queue) /\ q.open = r.open /\ q.session = r.session
          /\ q.endedAt = r.endedAt /\ q.events = r.events /\ q.accepted = r.accepted
          /\ q.streamed = r.streamed /\ q.seen = r.seen /\ q.pump = r.pump
          /\ q.work.stage = "asking"
      BY <1>1, <3>3 DEF ClientState
    <3> HIDE DEF q
    <3>6. QED
      BY <1>1, <2>2, <3>1, <3>4, <3>5, BoundsAssumption
  <2>3. QED
    BY <2>1, <2>2
<1>3. QED
  BY <1>2, OutputOnly DEF Sound, Typed

\* A reply is counted, or the socket is full and closed.
LEMMA AnsweredSound ==
  ASSUME NEW r, NEW n, NEW w, Sound(r, n, w), NEW frame \in Frames, NEW buffer
  PROVE  Sound(Answered(r, frame, buffer), n, w) /\ Answered(r, frame, buffer).work = r.work
<1> DEFINE q == Answered(r, frame, buffer)
<1>1. r \in ClientState
  BY DEF Sound, Typed
<1>2. CASE ~r.open \/ frame.kind = "send"
  BY <1>2 DEF Answered
<1>3. CASE ~(~r.open \/ frame.kind = "send") /\ buffer = "full"
  BY <1>3, ClosedSound DEF Answered, Sound
<1>4. CASE ~(~r.open \/ frame.kind = "send") /\ buffer # "full"
  <2>1. q = [r EXCEPT !.answered = @ \cup {frame.id}]
    BY <1>4 DEF Answered
  <2>2. r.answered \cup {frame.id} \in SUBSET (1..MaxFrames)
    BY <1>1 DEF Frames, ClientState
  <2>5. q \in ClientState
    BY <1>1, <2>1, <2>2 DEF ClientState
  <2>3. /\ q.queue = r.queue /\ q.open = r.open
        /\ q.session = r.session /\ q.endedAt = r.endedAt /\ q.events = r.events
        /\ q.accepted = r.accepted /\ q.streamed = r.streamed /\ q.seen = r.seen
        /\ q.pump = r.pump /\ q.work = r.work
    BY <1>1, <2>1 DEF ClientState
  <2> HIDE DEF q
  <2>4. QED
    BY <2>3, <2>5, OutputOnly DEF Sound, Typed, q
<1>5. QED
  BY <1>2, <1>3, <1>4

\* acceptInput(): the frame is served, queued within the limit, rejected, or too much.
LEMMA AcceptSound ==
  ASSUME NEW r, NEW n, NEW w, Sound(r, n, w), NEW frame \in Frames, NEW buffer
  PROVE  LET q == Accept(r, frame, buffer) IN
         /\ Sound(q, n, w)
         /\ \/ q.work = r.work
            \/ accepting /\ r.work = NoWork /\ q.work.stage \in {"idle", "asking"}
<1> DEFINE room == Len(r.queue) < MaxQueued
           one == [r EXCEPT !.queue = <<frame>>]
           more == [r EXCEPT !.queue = Append(@, frame)]
<1>1. r \in ClientState /\ r.queue \in Seq(Frames) /\ MaxQueued \in Nat \ {0}
  BY BoundsAssumption DEF Sound, Typed, ClientState
<1>2. Sound(one, n, w)
  <2>0. <<frame>> \in Seq(Frames) /\ Len(<<frame>>) = 1
    OBVIOUS
  <2>3. one \in ClientState
    BY <1>1, <2>0 DEF ClientState
  <2>1. /\ one.queue = <<frame>> /\ one.open = r.open
        /\ one.session = r.session /\ one.endedAt = r.endedAt /\ one.events = r.events
        /\ one.accepted = r.accepted /\ one.streamed = r.streamed /\ one.seen = r.seen
        /\ one.pump = r.pump
    BY <1>1 DEF ClientState
  <2> HIDE DEF one
  <2>4. Len(one.queue) <= MaxQueued /\ Len(one.events) <= MaxQueued
    BY <1>1, <2>0, <2>1 DEF Sound, Typed
  <2>5. Typed(one)
    BY <2>3, <2>4 DEF Typed
  <2>2. QED
    BY <2>1, <2>5, OutputOnly
<1>3. room => Sound(more, n, w) /\ more.work = r.work
  <2>1. Append(r.queue, frame) \in Seq(Frames) /\ Len(Append(r.queue, frame)) = Len(r.queue) + 1
    BY <1>1
  <2>2. /\ more \in ClientState /\ more.queue = Append(r.queue, frame) /\ more.open = r.open
        /\ more.session = r.session /\ more.endedAt = r.endedAt /\ more.events = r.events
        /\ more.accepted = r.accepted /\ more.streamed = r.streamed /\ more.seen = r.seen
        /\ more.pump = r.pump /\ more.work = r.work
    BY <1>1, <2>1 DEF ClientState
  <2> HIDE DEF more
  <2>3. room => Typed(more)
    BY <1>1, <2>1, <2>2 DEF Sound, Typed
  <2>4. QED
    BY <2>2, <2>3, OutputOnly
<1>4. \/ accepting /\ ~room /\ Accept(r, frame, buffer) = Closed(r)
      \/ room /\ Accept(r, frame, buffer) = more
      \/ accepting /\ r.work = NoWork /\ Accept(r, frame, buffer) = Dispatched(one)
      \/ Accept(r, frame, buffer) = Answered(r, frame, buffer)
  BY DEF Accept
<1> HIDE DEF one, more
<1>5. CASE Accept(r, frame, buffer) = Closed(r)
  BY <1>5, ClosedSound DEF Sound
<1>6. CASE room /\ Accept(r, frame, buffer) = more
  BY <1>3, <1>6
<1>7. CASE accepting /\ r.work = NoWork /\ Accept(r, frame, buffer) = Dispatched(one)
  BY <1>2, <1>7, DispatchedSound
<1>8. CASE Accept(r, frame, buffer) = Answered(r, frame, buffer)
  BY <1>8, AnsweredSound
<1>9. QED
  BY <1>4, <1>5, <1>6, <1>7, <1>8

-----------------------------------------------------------------------------
(***************************************************************************)
(* The queue of events                                                     *)
(***************************************************************************)

\* What an element of a queue becomes when an event is placed: a replaceable one may be
\* replaced by a replaceable one, and nothing else changes.
Keeps(old, new, e) ==
  new = old \/ (e.channel = "state" /\ old.channel = "state" /\ new = e)

\* queueSerializedEvent() keeps every stream event where it is; what it adds is the event.
LEMMA PlacedProperties ==
  ASSUME NEW q \in Seq(Events), NEW e \in Events
  PROVE  LET p == Placed(q, e) IN
         /\ p \in Seq(Events)
         /\ \/ Len(p) = Len(q) /\ e.channel = "state"
            \/ Len(p) = Len(q) + 1 /\ p[Len(q) + 1] = e
         /\ \A i \in 1..Len(q) : Keeps(q[i], p[i], e)
<1> DEFINE same == {i \in 1..Len(q) : e.channel = "state" /\ q[i].channel = "state"}
<1>1. CASE same = {}
  <2>1. Placed(q, e) = Append(q, e)
    BY <1>1 DEF Placed
  <2>2. QED
    BY <2>1, AppendProperties DEF Keeps
<1>2. CASE same # {}
  <2>1. Placed(q, e) = [i \in 1..Len(q) |-> IF i \in same THEN e ELSE q[i]]
    BY <1>2 DEF Placed
  <2>2. \A i \in 1..Len(q) : q[i] \in Events
    BY ElementOfSeq
  <2>3. Placed(q, e) \in [1..Len(q) -> Events]
    BY <2>1, <2>2
  <2>4. Placed(q, e) \in Seq(Events) /\ Len(Placed(q, e)) = Len(q)
    BY <2>3, LenProperties, IsASeq
  <2>5. e.channel = "state"
    BY <1>2
  <2>6. QED
    BY <2>1, <2>4, <2>5 DEF Keeps
<1>3. QED
  BY <1>1, <1>2

\* A set of numbers that is not empty has a least element.
LEMMA LeastOf ==
  ASSUME NEW S \in SUBSET Nat, S # {}
  PROVE  \E least \in S : \A n \in S : least <= n
<1> DEFINE Less == {pair \in Nat \X Nat : pair[1] < pair[2]}
<1>1. IsWellFoundedOn(Less, Nat)
  BY NatLessThanWellFounded DEF OpToRel
<1> HIDE DEF Less
<1>2. PICK x \in S : \A y \in S : ~(<<y, x>> \in Less)
  BY <1>1, WFMin
<1>3. ASSUME NEW y \in S PROVE x <= y
  <2>1. x \in Nat /\ y \in Nat /\ ~(<<y, x>> \in Less)
    BY <1>2
  <2>2. ~(y < x)
    BY <2>1 DEF Less
  <2>3. QED
    BY <2>1, <2>2
<1>4. QED
  BY <1>3

\* trimReplaceableEvents() removes one replaceable event at most.
LEMMA TrimmedProperties ==
  ASSUME NEW p \in Seq(Events)
  PROVE  LET t == Trimmed(p) IN
         /\ t \in Seq(Events)
         /\ \/ t = p
            \/ \E k \in 1..Len(p) :
                 /\ p[k].channel = "state" /\ Len(t) = Len(p) - 1
                 /\ \A j \in 1..Len(t) : t[j] = IF j < k THEN p[j] ELSE p[j + 1]
<1> DEFINE old == {i \in 1..(Len(p) - 1) : p[i].channel = "state"}
           k == CHOOSE i \in old : \A j \in old : i <= j
<1>1. CASE Len(p) > MaxQueued /\ old # {}
  <2>1. \E i \in old : \A j \in old : i <= j
    <3>1. old \in SUBSET Nat
      BY LenProperties
    <3>2. QED
      BY <1>1, <3>1, LeastOf
  <2>2. k \in old
    BY <2>1
  <2> HIDE DEF k
  <2>8. k \in 1..(Len(p) - 1) /\ p[k].channel = "state" /\ Len(p) \in Nat
    BY <2>2, LenProperties
  <2>3. Trimmed(p) = SubSeq(p, 1, k - 1) \o SubSeq(p, k + 1, Len(p))
    BY <1>1 DEF Trimmed, RemoveAt, k
  <2> DEFINE left == SubSeq(p, 1, k - 1)
             right == SubSeq(p, k + 1, Len(p))
  <2>4. /\ left \in Seq(Events) /\ Len(left) = k - 1
        /\ \A i \in 1..(k - 1) : left[i] = p[i]
    BY <2>8, SubSeqProperties
  <2>5. /\ right \in Seq(Events) /\ Len(right) = Len(p) - k
        /\ \A i \in 1..(Len(p) - k) : right[i] = p[k + i]
    BY <2>8, SubSeqProperties
  <2> HIDE DEF left, right
  <2>6. /\ Trimmed(p) \in Seq(Events) /\ Len(Trimmed(p)) = Len(p) - 1
        /\ \A j \in 1..(Len(p) - 1) : Trimmed(p)[j] = IF j < k THEN p[j] ELSE p[j + 1]
    BY <2>3, <2>4, <2>5, <2>8, ConcatProperties DEF left, right
  <2>7. QED
    BY SMTT(30), <2>6, <2>8
<1>2. CASE ~(Len(p) > MaxQueued /\ old # {})
  BY <1>2 DEF Trimmed
<1>3. QED
  BY <1>1, <1>2

\* What waits and what was accepted was pushed before the push n + 1.
Before(queue, accepted, n) ==
  /\ \A i \in 1..Len(queue) : queue[i].payload <= n
  /\ \A i \in 1..Len(accepted) : accepted[i] <= n

\* A push is later than all that waits and all that was accepted, so it takes the last
\* place of both.
LEMMA PlacedWhole ==
  ASSUME NEW q \in Seq(Events), NEW a \in Seq(Nat), NEW s \in Seq(Nat), Whole(q, a, s),
         NEW e \in Events, NEW n \in Nat, e.payload = n + 1, Before(q, a, n)
  PROVE  Whole(Placed(q, e), IF e.channel = "stream" THEN Append(a, e.payload) ELSE a, s)
<1> DEFINE p == Placed(q, e)
<1>1. /\ \/ Len(p) = Len(q) /\ e.channel = "state"
         \/ Len(p) = Len(q) + 1 /\ p[Len(q) + 1] = e
      /\ \A i \in 1..Len(q) : Keeps(q[i], p[i], e)
  BY PlacedProperties
<1>2. /\ Len(p) \in Nat /\ Len(q) \in Nat /\ Len(a) \in Nat /\ Len(s) \in Nat
  BY PlacedProperties, LenProperties
<1> HIDE DEF p
<1>3. CASE e.channel = "state"
  <2>1. Waiting(p) = Waiting(q)
    <3>1. \A i \in 1..Len(q) : (p[i].channel = "stream") <=> (q[i].channel = "stream")
      BY <1>1, <1>3 DEF Keeps
    <3>2. \A i \in 1..Len(p) : i \notin 1..Len(q) => p[i].channel # "stream"
      BY <1>1, <1>2, <1>3
    <3>3. Len(q) <= Len(p)
      BY <1>1, <1>2
    <3>4. QED
      BY <1>2, <3>1, <3>2, <3>3 DEF Waiting
  <2>2. \A i \in Waiting(q) : p[i] = q[i]
    BY <1>1, <1>3 DEF Waiting, Keeps
  <2>3. \A i, j \in Waiting(p) : i < j => p[i].payload < p[j].payload
    BY <2>1, <2>2 DEF Whole
  <2>4. \A i \in Waiting(p) : \E k \in Unwritten(a, s) : a[k] = p[i].payload
    BY <2>1, <2>2 DEF Whole
  <2>5. \A k \in Unwritten(a, s) : \E i \in Waiting(p) : a[k] = p[i].payload
    BY <2>1, <2>2 DEF Whole
  <2>6. Whole(p, a, s)
    BY <2>3, <2>4, <2>5 DEF Whole
  <2>7. QED
    BY <1>3, <2>6 DEF p
<1>4. CASE e.channel = "stream"
  <2> DEFINE b == Append(a, e.payload)
  <2>1. Len(p) = Len(q) + 1 /\ p[Len(q) + 1] = e
    BY <1>1, <1>4
  <2>2. \A i \in 1..Len(q) : p[i] = q[i]
    BY <1>1, <1>4 DEF Keeps
  <2>3. Waiting(p) = Waiting(q) \cup {Len(q) + 1}
    BY SMTT(30), <1>2, <1>4, <2>1, <2>2 DEF Waiting
  <2>4. /\ Len(b) = Len(a) + 1 /\ b[Len(a) + 1] = n + 1
        /\ \A i \in 1..Len(a) : b[i] = a[i]
    BY AppendProperties DEF Events
  <2> HIDE DEF b
  <2>5. /\ \A i \in 1..Len(a) : a[i] \in Nat /\ a[i] <= n
        /\ \A i, j \in 1..Len(a) : i < j => a[i] < a[j]
    BY ElementOfSeq DEF Before, Whole
  <2>6. \A i \in 1..Len(q) : q[i].payload \in Nat /\ q[i].payload <= n
    <3>1. \A i \in 1..Len(q) : q[i] \in Events
      BY ElementOfSeq
    <3>2. \A i \in 1..Len(q) : q[i].payload \in 1..MaxPushes
      BY <3>1 DEF Events
    <3>3. MaxPushes \in Nat
      BY BoundsAssumption
    <3>4. QED
      BY <3>2, <3>3 DEF Before
  <2>7. Unwritten(b, s) = Unwritten(a, s) \cup {Len(a) + 1}
    BY <1>2, <2>4 DEF Unwritten, Whole
  <2>8. Unwritten(a, s) \subseteq 1..Len(a) /\ Waiting(q) \subseteq 1..Len(q)
    BY <1>2 DEF Unwritten, Waiting
  <2>9. ASSUME NEW i \in 1..Len(b), NEW j \in 1..Len(b), i < j PROVE b[i] < b[j]
    <3>1. i \in 1..Len(a) /\ b[i] = a[i]
      BY <1>2, <2>4, <2>9
    <3>2. CASE j = Len(a) + 1
      BY <2>4, <2>5, <3>1, <3>2
    <3>3. CASE j \in 1..Len(a)
      BY <2>4, <2>5, <2>9, <3>1, <3>3
    <3>4. QED
      BY <1>2, <2>4, <3>2, <3>3
  <2>10. ASSUME NEW i \in Waiting(p), NEW j \in Waiting(p), i < j
         PROVE  p[i].payload < p[j].payload
    <3>1. i \in Waiting(q) /\ i \in 1..Len(q) /\ p[i] = q[i]
      BY <1>2, <2>1, <2>2, <2>3, <2>8, <2>10
    <3>2. CASE j = Len(q) + 1
      BY <2>1, <2>6, <3>1, <3>2
    <3>3. CASE j \in Waiting(q)
      <4>1. q[i].payload < q[j].payload
        BY <2>10, <3>1, <3>3 DEF Whole
      <4>2. QED
        BY <2>2, <2>8, <3>1, <3>3, <4>1
    <3>4. QED
      BY <2>3, <3>2, <3>3
  <2>11. Len(s) <= Len(b) /\ \A i \in 1..Len(s) : s[i] = b[i]
    BY <1>2, <2>4 DEF Whole
  <2>12. b[Len(a) + 1] = p[Len(q) + 1].payload
    BY <2>1, <2>4
  <2>13. ASSUME NEW i \in Waiting(p) PROVE \E k \in Unwritten(b, s) : b[k] = p[i].payload
    <3>1. CASE i \in Waiting(q)
      <4>1. PICK k \in Unwritten(a, s) : a[k] = q[i].payload
        BY <3>1 DEF Whole
      <4>2. QED
        BY <2>2, <2>4, <2>7, <2>8, <3>1, <4>1
    <3>2. QED
      BY <2>3, <2>7, <2>12, <3>1
  <2>14. ASSUME NEW k \in Unwritten(b, s) PROVE \E i \in Waiting(p) : b[k] = p[i].payload
    <3>1. CASE k \in Unwritten(a, s)
      <4>1. PICK i \in Waiting(q) : a[k] = q[i].payload
        BY <3>1 DEF Whole
      <4>2. QED
        BY <2>2, <2>3, <2>4, <2>8, <3>1, <4>1
    <3>2. QED
      BY <2>3, <2>7, <2>12, <3>1
  <2>15. Whole(p, b, s)
    BY <2>9, <2>10, <2>11, <2>13, <2>14 DEF Whole
  <2>16. QED
    BY <1>4, <2>15 DEF p, b
<1>5. QED
  BY <1>3, <1>4 DEF Events

\* Trimming costs no stream event.
LEMMA TrimmedWhole ==
  ASSUME NEW p \in Seq(Events), NEW a, NEW s, Whole(p, a, s)
  PROVE  Whole(Trimmed(p), a, s)
<1> DEFINE t == Trimmed(p)
<1>1. t \in Seq(Events)
  BY TrimmedProperties
<1>2. CASE t = p
  BY <1>2
<1>3. ASSUME NEW k \in 1..Len(p), p[k].channel = "state", Len(t) = Len(p) - 1,
             \A j \in 1..Len(t) : t[j] = IF j < k THEN p[j] ELSE p[j + 1]
      PROVE  Whole(t, a, s)
  <2> HIDE DEF t
  <2>1. /\ Len(p) \in Nat /\ Len(t) \in Nat
    BY <1>1, LenProperties
  <2> DEFINE at == [j \in 1..Len(t) |-> IF j < k THEN j ELSE j + 1]
  <2>2. \A j \in Waiting(t) : at[j] \in Waiting(p) /\ p[at[j]] = t[j]
    BY <1>3, <2>1 DEF Waiting
  <2>3. \A i \in Waiting(p) : \E j \in Waiting(t) : at[j] = i /\ p[i] = t[j]
    <3> SUFFICES ASSUME NEW i \in Waiting(p) PROVE \E j \in Waiting(t) : at[j] = i /\ p[i] = t[j]
      OBVIOUS
    <3>1. i \in 1..Len(p) /\ i # k /\ p[i].channel = "stream"
      BY <1>3, <2>1 DEF Waiting
    <3>2. CASE i < k
      BY <1>3, <2>1, <3>1, <3>2 DEF Waiting
    <3>3. CASE i > k
      <4>1. i - 1 \in 1..Len(t) /\ t[i - 1] = p[i] /\ at[i - 1] = i
        BY <1>3, <2>1, <3>1, <3>3
      <4>2. QED
        BY <2>1, <3>1, <4>1 DEF Waiting
    <3>4. QED
      BY SMTT(30), <3>1, <3>2, <3>3
  <2>4. \A i, j \in Waiting(t) : i < j => at[i] < at[j]
    BY <2>1 DEF Waiting
  <2> HIDE DEF at
  <2>5. QED
    BY SMTT(30), <2>2, <2>3, <2>4 DEF Whole
<1>4. QED
  BY <1>2, <1>3, TrimmedProperties

\* The first event of the queue is the next one of those accepted, when it is a stream's.
LEMMA WrittenWhole ==
  ASSUME NEW q \in Seq(Events), q # <<>>, NEW a \in Seq(Nat), NEW s \in Seq(Nat),
         Whole(q, a, s)
  PROVE  Whole(Tail(q), a,
               IF Head(q).channel = "stream" THEN Append(s, Head(q).payload) ELSE s)
<1> DEFINE t == Tail(q)
           z == IF Head(q).channel = "stream" THEN Append(s, Head(q).payload) ELSE s
<1>1. /\ Len(q) \in Nat /\ Len(q) > 0 /\ Len(a) \in Nat /\ Len(s) \in Nat
      /\ Len(t) = Len(q) - 1 /\ Head(q) = q[1]
  BY EmptySeq, LenProperties, HeadTailProperties
<1>2. \A i \in 1..Len(t) : t[i] = q[i + 1]
  BY HeadTailProperties
<1> HIDE DEF t
<1>3. /\ \A i \in Waiting(t) : i + 1 \in Waiting(q) /\ t[i] = q[i + 1]
      /\ \A i \in Waiting(q) : i # 1 => i - 1 \in Waiting(t) /\ q[i] = t[i - 1]
  BY <1>1, <1>2 DEF Waiting
<1>4. Waiting(t) \subseteq Nat /\ Waiting(q) \subseteq Nat
  BY <1>1 DEF Waiting
<1>5. ASSUME NEW i \in Waiting(t), NEW j \in Waiting(t), i < j
      PROVE  t[i].payload < t[j].payload
  <2>1. i + 1 \in Waiting(q) /\ j + 1 \in Waiting(q) /\ i + 1 < j + 1
    BY <1>3, <1>4, <1>5
  <2>2. q[i + 1].payload < q[j + 1].payload
    BY <2>1 DEF Whole
  <2>3. QED
    BY <1>3, <2>2
<1>6. CASE Head(q).channel # "stream"
  <2>1. 1 \notin Waiting(q) /\ z = s
    BY <1>1, <1>6 DEF Waiting
  <2> HIDE DEF z
  <2>2. ASSUME NEW i \in Waiting(t)
        PROVE  \E k \in Unwritten(a, s) : a[k] = t[i].payload
    BY <1>3 DEF Whole
  <2>3. ASSUME NEW k \in Unwritten(a, s)
        PROVE  \E i \in Waiting(t) : a[k] = t[i].payload
    <3>1. PICK i \in Waiting(q) : a[k] = q[i].payload
      BY DEF Whole
    <3>2. QED
      BY <1>3, <2>1, <3>1
  <2>4. Whole(t, a, s)
    BY <1>5, <2>2, <2>3 DEF Whole
  <2>5. QED
    BY <2>1, <2>4 DEF t, z
<1>7. CASE Head(q).channel = "stream"
  <2>1. 1 \in Waiting(q) /\ z = Append(s, q[1].payload)
    BY <1>1, <1>7 DEF Waiting
  <2>2. /\ \A i, j \in 1..Len(a) : i < j => a[i] < a[j]
        /\ \A i \in 1..Len(a) : a[i] \in Nat
    BY ElementOfSeq DEF Whole
  <2>3. PICK first \in Unwritten(a, s) : a[first] = q[1].payload
    BY <2>1 DEF Whole
  <2>4. Len(s) + 1 <= Len(a) /\ first \in 1..Len(a) /\ Len(s) + 1 \in Unwritten(a, s)
    BY <1>1, <2>3 DEF Unwritten
  <2>5. PICK w \in Waiting(q) : a[Len(s) + 1] = q[w].payload
    BY <2>4 DEF Whole
  <2>6. a[Len(s) + 1] = q[1].payload
    <3>1. CASE w = 1
      BY <2>5, <3>1
    <3>2. CASE w # 1
      <4>1. 1 < w
        BY <1>1, <3>2 DEF Waiting
      <4>2. q[1].payload < q[w].payload
        BY <2>1, <4>1 DEF Whole
      <4>3. a[first] < a[Len(s) + 1]
        BY <2>3, <2>5, <4>2
      <4>4. ~(Len(s) + 1 < first) /\ Len(s) + 1 <= first
        BY <1>1, <2>2, <2>3, <2>4, <4>3 DEF Unwritten
      <4>5. QED
        BY <1>1, <2>3, <2>4, <4>4
    <3>3. QED
      BY <3>1, <3>2
  <2>7. q[1].payload \in Nat
    BY <1>1, <2>2, <2>4, <2>6
  <2>8. /\ Len(z) = Len(s) + 1 /\ z[Len(s) + 1] = a[Len(s) + 1]
        /\ \A i \in 1..Len(s) : z[i] = s[i]
    BY <2>1, <2>6, <2>7, AppendProperties
  <2> HIDE DEF z
  <2>9. Len(z) <= Len(a) /\ \A i \in 1..Len(z) : z[i] = a[i]
    <3>1. \A i \in 1..Len(s) : z[i] = a[i]
      BY <2>8 DEF Whole
    <3>2. \A i \in 1..Len(z) : i \in 1..Len(s) \/ i = Len(s) + 1
      BY <1>1, <2>8
    <3>3. Len(z) <= Len(a)
      BY <2>4, <2>8
    <3>4. QED
      BY <2>8, <3>1, <3>2, <3>3
  <2>10. /\ Unwritten(a, z) \subseteq Unwritten(a, s) /\ Len(s) + 1 \notin Unwritten(a, z)
         /\ \A k \in Unwritten(a, s) : k # Len(s) + 1 => k \in Unwritten(a, z)
    BY <1>1, <2>8 DEF Unwritten
  <2>11. ASSUME NEW i \in Waiting(t)
         PROVE  \E k \in Unwritten(a, z) : a[k] = t[i].payload
    <3>1. i + 1 \in Waiting(q) /\ 1 < i + 1 /\ t[i] = q[i + 1]
      BY <1>1, <1>3 DEF Waiting
    <3>2. q[1].payload < q[i + 1].payload
      BY <2>1, <3>1 DEF Whole
    <3>3. PICK k \in Unwritten(a, s) : a[k] = q[i + 1].payload
      BY <3>1 DEF Whole
    <3>4. a[k] # a[Len(s) + 1]
      BY <2>6, <2>7, <3>2, <3>3
    <3>5. QED
      BY <2>10, <3>1, <3>3, <3>4
  <2>12. ASSUME NEW k \in Unwritten(a, z)
         PROVE  \E i \in Waiting(t) : a[k] = t[i].payload
    <3>1. PICK i \in Waiting(q) : a[k] = q[i].payload
      BY <2>10 DEF Whole
    <3>2. k \in 1..Len(a) /\ Len(s) + 1 \in 1..Len(a) /\ Len(s) + 1 < k
      BY <1>1, <2>8, <2>9 DEF Unwritten
    <3>3. a[Len(s) + 1] < a[k]
      BY <2>2, <3>2
    <3>4. i # 1
      BY <2>2, <2>6, <3>1, <3>2, <3>3
    <3>5. QED
      BY <1>3, <3>1, <3>4
  <2>13. Whole(t, a, z)
    BY <1>5, <2>2, <2>9, <2>11, <2>12 DEF Whole
  <2>14. QED
    BY <2>13 DEF t, z
<1>8. QED
  BY <1>6, <1>7

\* The queue holds nothing but what it held and the event.
LEMMA QueuedElements ==
  ASSUME NEW q \in Seq(Events), NEW e \in Events
  PROVE  LET t == Trimmed(Placed(q, e)) IN
         /\ t \in Seq(Events)
         /\ \A i \in 1..Len(t) : t[i] = e \/ \E j \in 1..Len(q) : t[i] = q[j]
<1> DEFINE p == Placed(q, e)
           t == Trimmed(p)
<1>1. p \in Seq(Events)
  BY PlacedProperties
<1>2. \A i \in 1..Len(p) : p[i] = e \/ \E j \in 1..Len(q) : p[i] = q[j]
  <2>1. Len(q) \in Nat
    BY LenProperties
  <2>2. /\ \/ Len(p) = Len(q) /\ e.channel = "state"
           \/ Len(p) = Len(q) + 1 /\ p[Len(q) + 1] = e
        /\ \A i \in 1..Len(q) : Keeps(q[i], p[i], e)
    BY PlacedProperties
  <2> HIDE DEF p
  <2>3. \A i \in 1..Len(p) : i \in 1..Len(q) \/ (i = Len(q) + 1 /\ p[i] = e)
    BY <2>1, <2>2
  <2>4. \A i \in 1..Len(q) : p[i] = q[i] \/ p[i] = e
    BY <2>2 DEF Keeps
  <2>5. QED
    BY <2>3, <2>4
<1> HIDE DEF p
<1>3. /\ t \in Seq(Events)
      /\ \/ t = p
         \/ \E k \in 1..Len(p) :
              /\ p[k].channel = "state" /\ Len(t) = Len(p) - 1
              /\ \A j \in 1..Len(t) : t[j] = IF j < k THEN p[j] ELSE p[j + 1]
  BY <1>1, TrimmedProperties
<1>4. Len(p) \in Nat
  BY <1>1, LenProperties
<1> HIDE DEF t
<1>5. \A i \in 1..Len(t) : \E j \in 1..Len(p) : t[i] = p[j]
  <2>1. CASE t = p
    BY <2>1
  <2>2. ASSUME NEW k \in 1..Len(p), Len(t) = Len(p) - 1,
               \A j \in 1..Len(t) : t[j] = IF j < k THEN p[j] ELSE p[j + 1],
               NEW i \in 1..Len(t)
        PROVE  \E j \in 1..Len(p) : t[i] = p[j]
    <3>1. i \in 1..Len(p) /\ i + 1 \in 1..Len(p)
      BY <1>4, <2>2
    <3>2. QED
      BY <2>2, <3>1
  <2>3. QED
    BY <1>3, <2>1, <2>2
<1>6. \A i \in 1..Len(t) : t[i] = e \/ \E j \in 1..Len(q) : t[i] = q[j]
  BY <1>2, <1>5
<1>7. QED
  BY <1>3, <1>6 DEF p, t

\* What is known of the pushes stays true of more of them.
LEMMA KnownLater ==
  ASSUME NEW r \in ClientState, NEW n \in Nat, Known(r, n)
  PROVE  Known(r, n + 1)
<1>1. MaxPushes \in Nat
  BY BoundsAssumption
<1>2. /\ r.events \in Seq(Events) /\ r.accepted \in Seq(1..MaxPushes)
      /\ r.streamed \in Seq(1..MaxPushes) /\ r.pump \in Pumps
      /\ r.seen \in [Machines -> 0..MaxPushes]
  BY DEF ClientState
<1>3. \A i \in 1..Len(r.events) : r.events[i].payload \in 1..MaxPushes
  <2>1. \A i \in 1..Len(r.events) : r.events[i] \in Events
    BY <1>2, ElementOfSeq
  <2>2. QED
    BY <2>1 DEF Events
<1>4. /\ \A i \in 1..Len(r.accepted) : r.accepted[i] \in 1..MaxPushes
      /\ \A i \in 1..Len(r.streamed) : r.streamed[i] \in 1..MaxPushes
  BY <1>2, ElementOfSeq
<1>5. r.pump # NoPump => r.pump.event.payload \in 1..MaxPushes
  BY <1>2 DEF Pumps, Events
<1>6. \A i \in 1..Len(r.events) : r.events[i].payload <= n + 1
  BY <1>1, <1>3 DEF Known
<1>7. /\ \A i \in 1..Len(r.accepted) : r.accepted[i] <= n + 1
      /\ \A i \in 1..Len(r.streamed) : r.streamed[i] <= n + 1
  BY <1>1, <1>4 DEF Known
<1>8. \A m \in Machines : r.seen[m] <= n + 1
  BY <1>1, <1>2 DEF Known
<1>9. r.pump # NoPump => r.pump.event.payload <= n + 1
  BY <1>1, <1>5 DEF Known
<1>10. QED
  BY <1>6, <1>7, <1>8, <1>9 DEF Known

\* What a client is pushed next keeps its state sound.
LEMMA QueuedSound ==
  ASSUME NEW r, NEW n \in Nat, NEW w, Sound(r, n, w),
         NEW e \in Events, e.payload = n + 1, e.authorized = FALSE
  PROVE  Sound(Queued(r, e), n + 1, w) /\ Queued(r, e).work = r.work
<1> DEFINE t == Trimmed(Placed(r.events, e))
           more == IF e.channel = "stream" THEN Append(r.accepted, e.payload) ELSE r.accepted
           q == [r EXCEPT !.events = t,
                          !.accepted = IF e.channel = "stream" THEN Append(@, e.payload) ELSE @]
<1>1. /\ r \in ClientState /\ Typed(r) /\ r.events \in Seq(Events)
      /\ r.accepted \in Seq(1..MaxPushes) /\ r.streamed \in Seq(1..MaxPushes)
  BY DEF Sound, Typed, ClientState
<1>2. /\ t \in Seq(Events)
      /\ \A i \in 1..Len(t) : t[i] = e \/ \E j \in 1..Len(r.events) : t[i] = r.events[j]
  BY <1>1, QueuedElements
<1>3. /\ more \in Seq(1..MaxPushes)
      /\ \A i \in 1..Len(more) :
           more[i] = n + 1 \/ (i \in 1..Len(r.accepted) /\ more[i] = r.accepted[i])
  <2>1. e.payload \in 1..MaxPushes /\ Len(r.accepted) \in Nat
    BY <1>1, LenProperties DEF Events
  <2>2. CASE e.channel = "stream"
    <3>1. more = Append(r.accepted, e.payload)
      BY <2>2
    <3> HIDE DEF more
    <3>2. /\ more \in Seq(1..MaxPushes) /\ Len(more) = Len(r.accepted) + 1
          /\ more[Len(r.accepted) + 1] = e.payload
          /\ \A i \in 1..Len(r.accepted) : more[i] = r.accepted[i]
      BY <1>1, <2>1, <3>1, AppendProperties
    <3>3. QED
      BY <2>1, <3>2
  <2>3. CASE e.channel # "stream"
    BY <1>1, <2>3
  <2>4. QED
    BY <2>2, <2>3
<1>4. Before(r.events, r.accepted, n) /\ Whole(r.events, r.accepted, r.streamed) =>
        Whole(t, more, r.streamed)
  <2>1. r.accepted \in Seq(Nat) /\ r.streamed \in Seq(Nat)
    <3>1. 1..MaxPushes \subseteq Nat
      BY BoundsAssumption
    <3>2. QED
      BY <1>1, <3>1, SeqMonotonic
  <2>2. Placed(r.events, e) \in Seq(Events)
    BY <1>1, PlacedProperties
  <2>3. QED
    BY <1>1, <2>1, <2>2, PlacedWhole, TrimmedWhole
<1>5. q = [r EXCEPT !.events = t, !.accepted = more]
  BY <1>1 DEF ClientState
<1> HIDE DEF t, more
<1>6. q \in ClientState
  BY <1>1, <1>2, <1>3, <1>5 DEF ClientState
<1>7. /\ q.events = t /\ q.accepted = more /\ q.open = r.open /\ q.queue = r.queue
      /\ q.session = r.session /\ q.endedAt = r.endedAt /\ q.work = r.work
      /\ q.streamed = r.streamed /\ q.seen = r.seen /\ q.pump = r.pump
  BY <1>1, <1>5 DEF ClientState
<1>8. Queued(r, e) = IF ~accepting \/ ~r.open \/ r.protected THEN r
                     ELSE IF Len(t) > MaxQueued THEN Closed(r) ELSE Pumped(q)
  BY DEF Queued, t
<1> HIDE DEF q
<1>9. Sound(r, n + 1, w) /\ (r.open => Known(r, n + 1))
  BY <1>1, KnownLater DEF Sound
<1>10. r.open /\ Len(t) <= MaxQueued => Sound(q, n + 1, w)
  <2> SUFFICES ASSUME r.open, Len(t) <= MaxQueued PROVE Sound(q, n + 1, w)
    OBVIOUS
  <2>1. Typed(q)
    BY <1>1, <1>6, <1>7 DEF Typed
  <2>2. Known(q, n + 1)
    <3>1. Known(r, n + 1)
      BY <1>9
    <3>2. \A i \in 1..Len(t) : t[i].payload <= n + 1
      BY <1>2, <3>1 DEF Known
    <3>3. \A i \in 1..Len(more) : more[i] <= n + 1
      BY <1>3, <3>1 DEF Known
    <3>4. QED
      BY <1>7, <3>1, <3>2, <3>3 DEF Known
  <2>3. Ended(q)
    BY <1>2, <1>7 DEF Sound, Ended
  <2>4. w => Whole(q.events, q.accepted, q.streamed)
    BY <1>4, <1>7 DEF Sound, Known, Before
  <2>5. QED
    BY <2>1, <2>2, <2>3, <2>4 DEF Sound
<1>11. Len(t) \in Nat /\ MaxQueued \in Nat
  BY <1>2, LenProperties, BoundsAssumption
<1>12. CASE ~accepting \/ ~r.open \/ r.protected
  BY <1>8, <1>9, <1>12
<1>13. CASE ~(~accepting \/ ~r.open \/ r.protected) /\ Len(t) > MaxQueued
  BY <1>1, <1>8, <1>13, ClosedSound
<1>14. CASE ~(~accepting \/ ~r.open \/ r.protected) /\ Len(t) <= MaxQueued
  <2>1. Queued(r, e) = Pumped(q)
    BY <1>8, <1>11, <1>14
  <2>2. Sound(q, n + 1, w)
    BY <1>10, <1>14
  <2>3. QED
    BY <1>7, <2>1, <2>2, PumpedSound
<1>15. QED
  BY <1>11, <1>12, <1>13, <1>14

\* pumpEvents() resumes with an authorized event that is still the first one.
LEMMA AuthorizedSound ==
  ASSUME NEW r, NEW n, NEW w, Sound(r, n, w), r.events # <<>>,
         r.open /\ ~r.session => r.events[1].payload <= r.endedAt
  PROVE  LET q == [r EXCEPT !.events[1].authorized = TRUE] IN
         /\ Sound(q, n, w) /\ q.work = r.work
         /\ q.events # <<>> /\ q.events[1].authorized = TRUE
<1> DEFINE first == [r.events[1] EXCEPT !.authorized = TRUE]
           new == [r.events EXCEPT ![1] = first]
           q == [r EXCEPT !.events[1].authorized = TRUE]
<1>1. r \in ClientState /\ r.events \in Seq(Events) /\ Typed(r)
  BY DEF Sound, Typed, ClientState
<1>2. Len(r.events) \in Nat /\ Len(r.events) > 0 /\ r.events[1] \in Events
  BY <1>1, EmptySeq, LenProperties, ElementOfSeq
<1>3. /\ first \in Events /\ first.channel = r.events[1].channel
      /\ first.payload = r.events[1].payload /\ first.authorized = TRUE
  BY <1>2 DEF Events
<1> HIDE DEF first
<1>4. /\ new \in Seq(Events) /\ Len(new) = Len(r.events) /\ new[1] = first
      /\ \A i \in 1..Len(r.events) : i # 1 => new[i] = r.events[i]
  BY <1>1, <1>2, <1>3, ExceptSeq
<1>5. q = [r EXCEPT !.events = new]
  BY <1>1 DEF ClientState, first
<1> HIDE DEF new
<1>6. q \in ClientState
  BY <1>1, <1>4, <1>5 DEF ClientState
<1>7. /\ q.events = new /\ q.accepted = r.accepted /\ q.open = r.open /\ q.queue = r.queue
      /\ q.session = r.session /\ q.endedAt = r.endedAt /\ q.work = r.work
      /\ q.streamed = r.streamed /\ q.seen = r.seen /\ q.pump = r.pump
  BY <1>1, <1>5 DEF ClientState
<1> HIDE DEF q
<1>8. Typed(q)
  BY <1>1, <1>4, <1>6, <1>7 DEF Typed
<1>9. /\ \A i \in 1..Len(new) : new[i].channel = r.events[i].channel
      /\ \A i \in 1..Len(new) : new[i].payload = r.events[i].payload
  BY <1>3, <1>4
<1>10. Known(r, n) => Known(q, n)
  BY <1>4, <1>7, <1>9 DEF Known
<1>11. r.open /\ Ended(r) => Ended(q)
  BY <1>4, <1>7, <1>9 DEF Ended
<1>12. Waiting(new) = Waiting(r.events)
  BY <1>4, <1>9 DEF Waiting
<1>13. Whole(r.events, r.accepted, r.streamed) => Whole(q.events, q.accepted, q.streamed)
  <2>1. \A i \in Waiting(r.events) : new[i].payload = r.events[i].payload
    BY <1>4, <1>9 DEF Waiting
  <2>2. QED
    BY <1>7, <1>12, <2>1 DEF Whole
<1>14. q.events # <<>>
  BY <1>2, <1>4, <1>7, EmptySeq
<1>15. QED
  BY <1>3, <1>4, <1>7, <1>8, <1>10, <1>11, <1>13, <1>14 DEF Sound, q

\* An authorized event is written, waits for the socket, or finds it full.
LEMMA WrittenSound ==
  ASSUME NEW r, NEW n, NEW w, Sound(r, n, w), r.events # <<>>, r.events[1].authorized = TRUE,
         NEW buffer
  PROVE  Sound(Written(r, buffer), n, w) /\ Written(r, buffer).work = r.work
<1> DEFINE e == Head(r.events)
           rest == Tail(r.events)
           streamed == IF e.channel = "stream" THEN Append(r.streamed, e.payload) ELSE r.streamed
           seen == [r.seen EXCEPT ![e.about] = IF e.channel = "state" THEN e.payload ELSE @]
           quiet == [r EXCEPT !.pump = NoPump]
           later == [r EXCEPT !.timer = TRUE, !.pump = NoPump]
           q == [r EXCEPT !.events = rest, !.streamed = streamed, !.seen = seen]
<1>1. /\ r \in ClientState /\ r.events \in Seq(Events) /\ Typed(r)
      /\ r.streamed \in Seq(1..MaxPushes) /\ r.accepted \in Seq(1..MaxPushes)
      /\ r.seen \in [Machines -> 0..MaxPushes] /\ MaxPushes \in Nat
  BY BoundsAssumption DEF Sound, Typed, ClientState
<1>2. /\ Len(r.events) \in Nat /\ Len(r.events) > 0 /\ e = r.events[1] /\ e \in Events
      /\ rest \in Seq(Events) /\ Len(rest) = Len(r.events) - 1
      /\ \A i \in 1..Len(rest) : rest[i] = r.events[i + 1]
  BY <1>1, EmptySeq, LenProperties, HeadTailProperties
<1> HIDE DEF e, rest
<1>3. e.payload \in 1..MaxPushes /\ e.about \in Machines /\ e.channel \in {"state", "stream"}
  BY <1>2 DEF Events
<1>4. /\ streamed \in Seq(1..MaxPushes)
      /\ \A i \in 1..Len(streamed) :
           streamed[i] = e.payload \/ (i \in 1..Len(r.streamed) /\ streamed[i] = r.streamed[i])
  <2>1. CASE e.channel = "stream"
    <3>1. streamed = Append(r.streamed, e.payload)
      BY <2>1
    <3>2. Len(r.streamed) \in Nat
      BY <1>1, LenProperties
    <3> HIDE DEF streamed
    <3>3. /\ streamed \in Seq(1..MaxPushes) /\ Len(streamed) = Len(r.streamed) + 1
          /\ streamed[Len(r.streamed) + 1] = e.payload
          /\ \A i \in 1..Len(r.streamed) : streamed[i] = r.streamed[i]
      BY <1>1, <1>3, <3>1, AppendProperties
    <3>4. QED
      BY <3>2, <3>3
  <2>2. CASE e.channel # "stream"
    BY <1>1, <2>2
  <2>3. QED
    BY <2>1, <2>2
<1>5. /\ seen \in [Machines -> 0..MaxPushes]
      /\ \A m \in Machines : seen[m] = e.payload \/ seen[m] = r.seen[m]
  BY <1>1, <1>3
<1>6. Whole(r.events, r.accepted, r.streamed) => Whole(rest, r.accepted, streamed)
  <2>1. 1..MaxPushes \subseteq Nat
    BY <1>1
  <2>2. r.accepted \in Seq(Nat) /\ r.streamed \in Seq(Nat)
    BY <1>1, <2>1, SeqMonotonic
  <2>3. QED
    BY <1>1, <2>2, WrittenWhole DEF e, rest
<1>7. /\ Sound(later, n, w) /\ Typed(quiet) /\ later.work = r.work /\ quiet.work = r.work
  <2>1. NoPump \in Pumps /\ NoPump.stage = "idle"
    BY DEF Pumps, NoPump
  <2>2. /\ later \in ClientState /\ later.events = r.events /\ later.accepted = r.accepted
        /\ later.open = r.open /\ later.queue = r.queue /\ later.session = r.session
        /\ later.endedAt = r.endedAt /\ later.work = r.work /\ later.streamed = r.streamed
        /\ later.seen = r.seen /\ later.pump = NoPump
    BY <1>1, <2>1 DEF ClientState
  <2>3. /\ quiet \in ClientState /\ quiet.events = r.events /\ quiet.queue = r.queue
        /\ quiet.work = r.work
    BY <1>1, <2>1 DEF ClientState
  <2> HIDE DEF later, quiet
  <2>4. Typed(quiet) /\ Typed(later)
    BY <1>1, <2>2, <2>3 DEF Typed
  <2>5. Known(r, n) /\ Ended(r) => Known(later, n) /\ Ended(later)
    BY <2>1, <2>2 DEF Known, Ended
  <2>6. QED
    BY <2>2, <2>3, <2>4, <2>5 DEF Sound
<1> HIDE DEF streamed, seen
<1>8. q \in ClientState
  BY <1>1, <1>2, <1>4, <1>5 DEF ClientState
<1>9. /\ q.events = rest /\ q.accepted = r.accepted /\ q.open = r.open /\ q.queue = r.queue
      /\ q.session = r.session /\ q.endedAt = r.endedAt /\ q.work = r.work
      /\ q.streamed = streamed /\ q.seen = seen /\ q.pump = r.pump
  BY <1>1 DEF ClientState
<1>10. Written(r, buffer) = IF e.channel = "state" /\ buffer # "low" THEN later
                            ELSE IF buffer = "full" THEN Closed(quiet) ELSE Looped(q)
  BY <1>1 DEF Written, e, rest, streamed, seen, ClientState
<1> HIDE DEF q, later, quiet
<1>11. Sound(q, n, w)
  <2>1. Typed(q)
    <3>1. MaxQueued \in Nat /\ Len(r.events) <= MaxQueued /\ Len(r.queue) <= MaxQueued
      BY <1>1, BoundsAssumption DEF Typed
    <3>2. Len(rest) <= MaxQueued
      BY <1>2, <3>1
    <3>3. QED
      BY <1>8, <1>9, <3>1, <3>2 DEF Typed
  <2>2. \A i \in 1..Len(rest) : i + 1 \in 1..Len(r.events)
    BY <1>2
  <2>3. r.open => Known(q, n)
    <3> SUFFICES ASSUME r.open PROVE Known(q, n)
      OBVIOUS
    <3>1. Known(r, n)
      BY DEF Sound
    <3>2. e.payload <= n /\ \A i \in 1..Len(rest) : rest[i].payload <= n
      BY <1>2, <2>2, <3>1 DEF Known
    <3>3. \A i \in 1..Len(streamed) : streamed[i] <= n
      BY <1>4, <3>1, <3>2 DEF Known
    <3>4. \A m \in Machines : seen[m] <= n
      BY <1>5, <3>1, <3>2 DEF Known
    <3>5. QED
      BY <1>9, <3>1, <3>2, <3>3, <3>4 DEF Known
  <2>4. r.open => Ended(q)
    <3> SUFFICES ASSUME r.open, ~r.session PROVE Ended(q)
      BY <1>9 DEF Ended
    <3>1. Ended(r)
      BY DEF Sound
    <3>2. /\ e.payload <= r.endedAt
          /\ \A i \in 1..Len(rest) : rest[i].authorized => rest[i].payload <= r.endedAt
      BY <1>2, <2>2, <3>1 DEF Ended
    <3>3. \A i \in 1..Len(streamed) : streamed[i] <= r.endedAt
      BY <1>4, <3>1, <3>2 DEF Ended
    <3>4. \A m \in Machines : seen[m] <= r.endedAt
      BY <1>5, <3>1, <3>2 DEF Ended
    <3>5. QED
      BY <1>9, <3>1, <3>2, <3>3, <3>4 DEF Ended
  <2>5. QED
    BY <1>6, <1>9, <2>1, <2>3, <2>4 DEF Sound
<1>12. QED
  BY <1>7, <1>9, <1>10, <1>11, ClosedSound, LoopedSound

-----------------------------------------------------------------------------
(***************************************************************************)
(* The steps of the router                                                 *)
(***************************************************************************)

\* What a step may make of the work of client c while the lock stays as it is: nothing,
\* something outside the lock, or the next stage of the one that holds it.
Proceeds(c, old, new) ==
  \/ new = old
  \/ /\ ~Locked(old) /\ ~Locked(new) /\ new.stage \notin {"waiting", "revoked"}
     /\ router \in {"drained", "closed"} => new = NoWork
  \/ /\ Locked(old) /\ Locked(new) /\ Len(lock) > 0 /\ lock[1] = c
     /\ router \notin {"drained", "closed"}

\* Steps that leave the lock as it is.
LEMMA LockStays ==
  ASSUME IInv, clients' \in [Clients -> ClientState], UNCHANGED lock,
         \A c \in Clients : Proceeds(c, clients[c].work, clients'[c].work)
  PROVE  LockIsHeld'
<1>1. \A i \in 1..Len(lock) : lock[i] \in Clients
  BY ElementOfSeq DEF IInv, TypeOK
<1>2. \A c \in Clients : Locked(clients'[c].work) <=> Locked(clients[c].work)
  BY DEF Proceeds
<1>3. \A i \in 1..Len(lock) : Locked(clients'[lock[i]].work)
  BY <1>1, <1>2 DEF IInv, LockIsHeld
<1>4. \A c \in Clients : Locked(clients'[c].work) => \E i \in 1..Len(lock) : lock[i] = c
  BY <1>2 DEF IInv, LockIsHeld
<1>5. \A c \in Clients : Locked(clients'[c].work) /\ clients'[c].work.stage # "waiting" =>
        Len(lock) > 0 /\ lock[1] = c
  BY <1>2 DEF IInv, LockIsHeld, Proceeds
<1>6. \A c \in Clients : clients'[c].work.stage \in {"waiting", "revoked"} =>
        Locked(clients'[c].work)
  BY <1>2 DEF IInv, LockIsHeld, Proceeds
<1>7. QED
  BY <1>3, <1>4, <1>5, <1>6 DEF LockIsHeld

\* A step on one client that leaves the lock alone.
LEMMA OneClient ==
  ASSUME IInv, NEW c \in Clients, NEW x, clients' = [clients EXCEPT ![c] = x],
         Sound(x, pushes, accepting), Proceeds(c, clients[c].work, x.work),
         UNCHANGED <<lock, pushes, latest, router>>, frames' \in 0..MaxFrames
  PROVE  IInv'
<1>1. clients \in [Clients -> ClientState]
  BY DEF IInv, TypeOK
<1>2. /\ clients' \in [Clients -> ClientState] /\ clients'[c] = x
      /\ \A d \in Clients : d # c => clients'[d] = clients[d]
  BY <1>1 DEF Sound, Typed
<1>3. accepting' <=> accepting
  BY DEF accepting
<1>4. \A d \in Clients : Sound(clients'[d], pushes', accepting')
  <2> SUFFICES ASSUME NEW d \in Clients PROVE Sound(clients'[d], pushes', accepting')
    OBVIOUS
  <2>1. Sound(clients'[d], pushes, accepting)
    BY <1>2 DEF IInv
  <2>2. QED
    BY <1>3, <2>1 DEF Sound
<1>5. TypeOK'
  BY <1>2, <1>4 DEF IInv, TypeOK, Sound, Typed
<1>6. \A d \in Clients : Proceeds(d, clients[d].work, clients'[d].work)
  BY <1>2 DEF Proceeds
<1>7. LockIsHeld'
  BY <1>2, <1>6, LockStays
<1>8. NothingWorks'
  BY <1>2 DEF IInv, NothingWorks, Proceeds
<1>9. QED
  BY <1>4, <1>5, <1>7, <1>8 DEF IInv

\* A step on all clients that leaves the lock alone.
LEMMA AllClients ==
  ASSUME IInv, DOMAIN clients' = Clients, clients' = [c \in Clients |-> clients'[c]],
         \A c \in Clients : /\ Sound(clients'[c], pushes', accepting')
                            /\ Proceeds(c, clients[c].work, clients'[c].work),
         UNCHANGED <<lock, frames>>, pushes' \in 0..MaxPushes,
         latest' \in [Machines -> 0..MaxPushes],
         router' \in {"accepting", "draining", "drained", "closed"},
         router' \in {"drained", "closed"} => \A c \in Clients : clients'[c].work = NoWork
  PROVE  IInv'
<1>1. clients' \in [Clients -> ClientState]
  BY DEF Sound, Typed
<1>2. TypeOK'
  BY <1>1 DEF IInv, TypeOK, Sound, Typed
<1>3. LockIsHeld'
  BY <1>1, LockStays
<1>4. NothingWorks'
  BY DEF NothingWorks
<1>5. QED
  BY <1>2, <1>3, <1>4 DEF IInv

\* What the invariant says of one client.
LEMMA ClientFacts ==
  ASSUME IInv, NEW c \in Clients
  PROVE  /\ Sound(clients[c], pushes, accepting) /\ clients[c] \in ClientState
         /\ clients[c].work \in Works
         /\ clients[c].work = NoWork \/ clients[c].work.frame \in Frames
         /\ pushes \in Nat /\ pushes \in 0..MaxPushes /\ frames \in 0..MaxFrames
         /\ clients[c].work # NoWork => router \notin {"drained", "closed"}
<1>1. Sound(clients[c], pushes, accepting)
  BY DEF IInv
<1>2. clients[c] \in ClientState
  BY <1>1 DEF Sound, Typed
<1>3. clients[c].work \in Works
  BY <1>2 DEF ClientState
<1>4. clients[c].work = NoWork \/ clients[c].work.frame \in Frames
  BY <1>3 DEF Works
<1>5. pushes \in 0..MaxPushes /\ frames \in 0..MaxFrames /\ MaxPushes \in Nat
  BY BoundsAssumption DEF IInv, TypeOK
<1>6. clients[c].work # NoWork => router \notin {"drained", "closed"}
  BY DEF IInv, NothingWorks
<1>7. QED
  BY <1>1, <1>2, <1>3, <1>4, <1>5, <1>6

\* Another state of a client that differs in its work, its timer, or in what protectReply()
\* set only.
LEMMA SmallChange ==
  ASSUME NEW r, NEW n, NEW w, Sound(r, n, w)
  PROVE  /\ \A work \in Works : LET q == [r EXCEPT !.work = work] IN
              Sound(q, n, w) /\ q.work = work
         /\ \A timer \in BOOLEAN : LET q == [r EXCEPT !.timer = timer] IN
              Sound(q, n, w) /\ q.work = r.work
         /\ \A protected \in BOOLEAN : LET q == [r EXCEPT !.protected = protected] IN
              Sound(q, n, w) /\ q.work = r.work
         /\ \A deferred \in BOOLEAN : LET q == [r EXCEPT !.deferred = deferred] IN
              Sound(q, n, w) /\ q.work = r.work
<1>1. r \in ClientState
  BY DEF Sound, Typed
<1>2. ASSUME NEW work \in Works
      PROVE  LET q == [r EXCEPT !.work = work] IN Sound(q, n, w) /\ q.work = work
  <2> DEFINE q == [r EXCEPT !.work = work]
  <2>1. q \in ClientState
    BY <1>1 DEF ClientState
  <2>2. /\ q.events = r.events /\ q.accepted = r.accepted /\ q.open = r.open
        /\ q.queue = r.queue /\ q.session = r.session /\ q.endedAt = r.endedAt
        /\ q.streamed = r.streamed /\ q.seen = r.seen /\ q.pump = r.pump /\ q.work = work
    BY <1>1 DEF ClientState
  <2> HIDE DEF q
  <2>3. Typed(q)
    BY <2>1, <2>2 DEF Sound, Typed
  <2>4. Sound(q, n, w)
    BY <2>2, <2>3, OutputOnly
  <2>5. QED
    BY <2>2, <2>4 DEF q
<1>3. ASSUME NEW timer \in BOOLEAN
      PROVE  LET q == [r EXCEPT !.timer = timer] IN Sound(q, n, w) /\ q.work = r.work
  <2> DEFINE q == [r EXCEPT !.timer = timer]
  <2>1. q \in ClientState
    BY <1>1 DEF ClientState
  <2>2. /\ q.events = r.events /\ q.accepted = r.accepted /\ q.open = r.open
        /\ q.queue = r.queue /\ q.session = r.session /\ q.endedAt = r.endedAt
        /\ q.streamed = r.streamed /\ q.seen = r.seen /\ q.pump = r.pump /\ q.work = r.work
    BY <1>1 DEF ClientState
  <2> HIDE DEF q
  <2>3. Typed(q)
    BY <2>1, <2>2 DEF Sound, Typed
  <2>4. Sound(q, n, w)
    BY <2>2, <2>3, OutputOnly
  <2>5. QED
    BY <2>2, <2>4 DEF q
<1>4. ASSUME NEW protected \in BOOLEAN
      PROVE  LET q == [r EXCEPT !.protected = protected] IN Sound(q, n, w) /\ q.work = r.work
  <2> DEFINE q == [r EXCEPT !.protected = protected]
  <2>1. q \in ClientState
    BY <1>1 DEF ClientState
  <2>2. /\ q.events = r.events /\ q.accepted = r.accepted /\ q.open = r.open
        /\ q.queue = r.queue /\ q.session = r.session /\ q.endedAt = r.endedAt
        /\ q.streamed = r.streamed /\ q.seen = r.seen /\ q.pump = r.pump /\ q.work = r.work
    BY <1>1 DEF ClientState
  <2> HIDE DEF q
  <2>3. Typed(q)
    BY <2>1, <2>2 DEF Sound, Typed
  <2>4. Sound(q, n, w)
    BY <2>2, <2>3, OutputOnly
  <2>5. QED
    BY <2>2, <2>4 DEF q
<1>5. ASSUME NEW deferred \in BOOLEAN
      PROVE  LET q == [r EXCEPT !.deferred = deferred] IN Sound(q, n, w) /\ q.work = r.work
  <2> DEFINE q == [r EXCEPT !.deferred = deferred]
  <2>1. q \in ClientState
    BY <1>1 DEF ClientState
  <2>2. /\ q.events = r.events /\ q.accepted = r.accepted /\ q.open = r.open
        /\ q.queue = r.queue /\ q.session = r.session /\ q.endedAt = r.endedAt
        /\ q.streamed = r.streamed /\ q.seen = r.seen /\ q.pump = r.pump /\ q.work = r.work
    BY <1>1 DEF ClientState
  <2> HIDE DEF q
  <2>3. Typed(q)
    BY <2>1, <2>2 DEF Sound, Typed
  <2>4. Sound(q, n, w)
    BY <2>2, <2>3, OutputOnly
  <2>5. QED
    BY <2>2, <2>4 DEF q
<1>6. QED
  BY <1>2, <1>3, <1>4, <1>5

\* A frame arrives.
LEMMA ReceiveStep ==
  ASSUME IInv, NEW c \in Clients, Receive(c)
  PROVE  IInv'
<1> DEFINE r == clients[c]
<1>1. PICK kind \in Kinds, buffer \in Buffers :
        LET id == IF kind = "send" THEN {} ELSE {frames'}
            q == [r EXCEPT !.received = r.received \cup id]
        IN  clients' = [clients EXCEPT ![c] =
              Accept(q, [id |-> frames', kind |-> kind], buffer)]
  BY DEF Receive
<1> DEFINE id == IF kind = "send" THEN {} ELSE {frames'}
           q == [r EXCEPT !.received = r.received \cup id]
           frame == [id |-> frames', kind |-> kind]
           x == Accept(q, frame, buffer)
<1>2. /\ frames' \in 1..MaxFrames /\ frames' \in 0..MaxFrames
      /\ UNCHANGED <<lock, pushes, latest, router>>
  BY BoundsAssumption, ClientFacts DEF Receive
<1>3. frame \in Frames
  BY <1>2 DEF Frames
<1>4. Sound(q, pushes, accepting) /\ q.work = r.work
  <2>1. r \in ClientState /\ Sound(r, pushes, accepting)
    BY ClientFacts
  <2>2. r.received \cup id \in SUBSET (1..MaxFrames)
    BY <1>2, <2>1 DEF ClientState
  <2>3. q \in ClientState
    BY <2>1, <2>2 DEF ClientState
  <2>4. /\ q.events = r.events /\ q.accepted = r.accepted /\ q.open = r.open
        /\ q.queue = r.queue /\ q.session = r.session /\ q.endedAt = r.endedAt
        /\ q.streamed = r.streamed /\ q.seen = r.seen /\ q.pump = r.pump /\ q.work = r.work
    BY <2>1 DEF ClientState
  <2> HIDE DEF q, r
  <2>5. Typed(q)
    BY <2>1, <2>3, <2>4 DEF Sound, Typed
  <2>6. QED
    BY <2>1, <2>4, <2>5, OutputOnly
<1>5. clients' = [clients EXCEPT ![c] = x]
  BY <1>1
<1> HIDE DEF q, frame
<1>6. /\ Sound(x, pushes, accepting)
      /\ \/ x.work = r.work
         \/ accepting /\ r.work = NoWork /\ x.work.stage \in {"idle", "asking"}
  BY <1>3, <1>4, AcceptSound
<1>7. Proceeds(c, r.work, x.work)
  BY <1>6 DEF Proceeds, Locked, NoWork, accepting
<1> HIDE DEF x
<1>8. QED
  BY <1>2, <1>5, <1>6, <1>7, OneClient

\* What a client works at goes on to another stage.
LEMMA NextStage ==
  ASSUME IInv, NEW c \in Clients, clients[c].work # NoWork,
         NEW stage \in {"asking", "waiting", "running", "revoked"}
  PROVE  LET new == [frame |-> clients[c].work.frame, stage |-> stage]
             x == [clients[c] EXCEPT !.work = new]
         IN  /\ [clients[c].work EXCEPT !.stage = stage] = new /\ new \in Works
             /\ [clients EXCEPT ![c].work.stage = stage] = [clients EXCEPT ![c] = x]
             /\ Sound(x, pushes, accepting) /\ x.work = new
             /\ Locked(new) <=> (stage # "asking" /\ clients[c].work.frame.kind \in Locking)
<1> DEFINE r == clients[c]
           new == [frame |-> r.work.frame, stage |-> stage]
<1>1. r.work.frame \in Frames /\ r.work \in Works /\ Sound(r, pushes, accepting)
  BY ClientFacts
<1>2. new \in Works
  BY <1>1 DEF Works
<1>3. r.work \in [frame : Frames, stage : {"asking", "waiting", "running", "revoked"}]
  BY <1>1 DEF Works
<1>4. [r.work EXCEPT !.stage = stage] = new
  BY <1>3
<1>5. r \in ClientState /\ clients \in [Clients -> ClientState]
  BY ClientFacts DEF IInv, TypeOK
<1>6. [clients EXCEPT ![c].work.stage = stage] = [clients EXCEPT ![c] = [r EXCEPT !.work = new]]
  BY <1>4, <1>5 DEF ClientState
<1>7. Locked(new) <=> (stage # "asking" /\ r.work.frame.kind \in Locking)
  BY DEF Locked
<1>8. QED
  BY <1>1, <1>2, <1>4, <1>6, <1>7, SmallChange

\* dispatch() goes on after authorize().
LEMMA AdmitStep ==
  ASSUME IInv, NEW c \in Clients, Admit(c)
  PROVE  IInv'
<1> DEFINE r == clients[c]
           frame == r.work.frame
<1>1. /\ r.work.stage = "asking" /\ UNCHANGED <<frames, pushes, latest, router>>
      /\ r.work # NoWork /\ ~Locked(r.work)
  BY DEF Admit, NoWork, Locked
<1>2. /\ Sound(r, pushes, accepting) /\ Typed(r) /\ r.work \in Works /\ frame \in Frames
      /\ frames' \in 0..MaxFrames /\ router \notin {"drained", "closed"}
  BY <1>1, ClientFacts DEF Sound
<1>3. CASE ~r.session /\ UNCHANGED lock
           /\ clients' = [clients EXCEPT ![c] = Closed([r EXCEPT !.work = NoWork])]
  <2> DEFINE q == [r EXCEPT !.work = NoWork]
  <2>1. NoWork \in Works /\ ~Locked(NoWork)
    BY DEF Works, Locked, NoWork
  <2>2. Sound(q, pushes, accepting) /\ q.work = NoWork
    BY <1>2, <2>1, SmallChange
  <2> HIDE DEF q
  <2>3. Sound(Closed(q), pushes, accepting) /\ Closed(q).work = NoWork
    BY <2>2, ClosedSound DEF Sound
  <2>4. Proceeds(c, r.work, Closed(q).work)
    BY <1>1, <2>1, <2>3 DEF Proceeds, NoWork
  <2>5. QED
    BY <1>1, <1>2, <1>3, <2>3, <2>4, OneClient DEF q
<1>4. ASSUME NEW buffer \in Buffers, UNCHANGED lock,
             clients' = [clients EXCEPT ![c] = Dispatched(Answered(r, frame, buffer))]
      PROVE  IInv'
  <2> DEFINE x == Dispatched(Answered(r, frame, buffer))
  <2>1. Sound(x, pushes, accepting) /\ x.work.stage \in {"idle", "asking"}
    BY <1>2, AnsweredSound, DispatchedSound
  <2>2. ~Locked(x.work)
    BY <2>1 DEF Locked
  <2> HIDE DEF x
  <2>3. QED
    BY <1>1, <1>2, <1>4, <2>1, <2>2, OneClient DEF x, Proceeds
<1>5. CASE frame.kind \notin Locking /\ UNCHANGED lock
           /\ clients' = [clients EXCEPT ![c].work.stage = "running"]
  <2> DEFINE new == [frame |-> frame, stage |-> "running"]
             x == [r EXCEPT !.work = new]
  <2>0. /\ [clients EXCEPT ![c].work.stage = "running"] = [clients EXCEPT ![c] = x]
        /\ Sound(x, pushes, accepting) /\ x.work = new
        /\ Locked(new) <=> frame.kind \in Locking
    BY <1>1, NextStage
  <2>1. /\ clients' = [clients EXCEPT ![c] = x] /\ Sound(x, pushes, accepting)
        /\ x.work.stage = "running" /\ ~Locked(x.work)
    BY <1>5, <2>0
  <2> HIDE DEF x
  <2>2. Proceeds(c, r.work, x.work)
    BY <1>1, <1>2, <2>1 DEF Proceeds
  <2>3. QED
    BY <1>1, <1>2, <1>5, <2>1, <2>2, OneClient
<1>6. CASE frame.kind \in Locking /\ lock' = Append(lock, c)
           /\ clients' = [clients EXCEPT ![c].work.stage = "waiting"]
  <2> DEFINE new == [frame |-> frame, stage |-> "waiting"]
             x == [r EXCEPT !.work = new]
  <2>0. /\ [clients EXCEPT ![c].work.stage = "waiting"] = [clients EXCEPT ![c] = x]
        /\ Sound(x, pushes, accepting) /\ x.work = new
        /\ Locked(new) <=> frame.kind \in Locking
    BY <1>1, NextStage
  <2>1. clients' = [clients EXCEPT ![c] = x] /\ Sound(x, pushes, accepting)
    BY <1>6, <2>0
  <2>2. x.work.stage = "waiting" /\ Locked(x.work)
    BY <1>6, <2>0
  <2> HIDE DEF x
  <2>3. /\ clients \in [Clients -> ClientState] /\ lock \in Seq(Clients) /\ IsInjective(lock)
        /\ Len(lock) \in Nat /\ \A i \in 1..Len(lock) : lock[i] \in Clients
    BY LenProperties, ElementOfSeq DEF IInv, TypeOK
  <2>4. /\ clients' \in [Clients -> ClientState] /\ clients'[c] = x
        /\ \A d \in Clients : d # c => clients'[d] = clients[d]
    BY <2>1, <2>3 DEF Sound, Typed
  <2>5. /\ lock' \in Seq(Clients) /\ Len(lock') = Len(lock) + 1 /\ lock'[Len(lock) + 1] = c
        /\ \A i \in 1..Len(lock) : lock'[i] = lock[i]
    BY <1>6, <2>3, AppendProperties
  <2>6. \A i \in 1..Len(lock) : lock[i] # c
    BY <1>1 DEF IInv, LockIsHeld
  <2>7. \A i \in 1..Len(lock') : i \in 1..Len(lock) \/ i = Len(lock) + 1
    BY <2>3, <2>5
  <2>8. IsInjective(lock')
    <3>1. DOMAIN lock = 1..Len(lock) /\ DOMAIN lock' = 1..Len(lock')
      BY <2>3, <2>5, LenProperties
    <3>2. \A i, j \in 1..Len(lock) : lock[i] = lock[j] => i = j
      BY <2>3, <3>1 DEF IsInjective
    <3>3. \A i, j \in 1..Len(lock') : lock'[i] = lock'[j] => i = j
      BY <2>5, <2>6, <2>7, <3>2
    <3>4. QED
      BY <3>1, <3>3 DEF IsInjective
  <2>9. LockIsHeld'
    <3>1. \A i \in 1..Len(lock') : Locked(clients'[lock'[i]].work)
      BY <2>2, <2>3, <2>4, <2>5, <2>6, <2>7 DEF IInv, LockIsHeld
    <3>2. ASSUME NEW d \in Clients, Locked(clients'[d].work)
          PROVE  \E i \in 1..Len(lock') : lock'[i] = d
      <4>1. CASE d = c
        BY <2>3, <2>5, <4>1
      <4>2. CASE d # c
        <5>1. PICK i \in 1..Len(lock) : lock[i] = d
          BY <2>4, <3>2, <4>2 DEF IInv, LockIsHeld
        <5>2. i \in 1..Len(lock') /\ lock'[i] = d
          BY <2>3, <2>5, <5>1
        <5>3. QED
          BY <5>2
      <4>3. QED
        BY <4>1, <4>2
    <3>3. ASSUME NEW d \in Clients, Locked(clients'[d].work), clients'[d].work.stage # "waiting"
          PROVE  Len(lock') > 0 /\ lock'[1] = d
      <4>1. d # c /\ clients'[d] = clients[d]
        BY <2>2, <2>4, <3>3
      <4>2. Len(lock) > 0 /\ lock[1] = d
        BY <3>3, <4>1 DEF IInv, LockIsHeld
      <4>3. QED
        BY <2>3, <2>5, <4>2
    <3>4. \A d \in Clients : clients'[d].work.stage \in {"waiting", "revoked"} =>
            Locked(clients'[d].work)
      BY <2>2, <2>4 DEF IInv, LockIsHeld
    <3>5. QED
      BY <3>1, <3>2, <3>3, <3>4 DEF LockIsHeld
  <2>10. (accepting' <=> accepting) /\ pushes' = pushes
    BY <1>1 DEF accepting
  <2>11. \A d \in Clients : Sound(clients'[d], pushes', accepting')
    <3> SUFFICES ASSUME NEW d \in Clients PROVE Sound(clients'[d], pushes', accepting')
      OBVIOUS
    <3>1. Sound(clients'[d], pushes, accepting)
      BY <2>1, <2>4 DEF IInv
    <3>2. QED
      BY <2>10, <3>1 DEF Sound
  <2>12. TypeOK'
    BY <1>1, <2>4, <2>5, <2>8, <2>11 DEF IInv, TypeOK, Sound, Typed
  <2>13. NothingWorks'
    BY <1>1, <1>2 DEF NothingWorks
  <2>14. QED
    BY <2>9, <2>11, <2>12, <2>13 DEF IInv
<1>7. QED
  BY <1>1, <1>3, <1>4, <1>5, <1>6 DEF Admit

\* The lock is granted.
LEMMA StartStep ==
  ASSUME IInv, NEW c \in Clients, Start(c)
  PROVE  IInv'
<1> DEFINE r == clients[c]
           new == [frame |-> r.work.frame, stage |-> "running"]
           x == [r EXCEPT !.work = new]
           y == [x EXCEPT !.protected = r.work.frame.kind \in Protecting]
<1>1. /\ r.work.stage = "waiting" /\ r.work # NoWork /\ Locked(r.work)
      /\ UNCHANGED <<lock, frames, pushes, latest, router>>
  BY DEF Start, NoWork, IInv, LockIsHeld
<1>2. /\ r \in ClientState /\ frames \in 0..MaxFrames /\ router \notin {"drained", "closed"}
      /\ clients \in [Clients -> ClientState]
  BY <1>1, ClientFacts DEF IInv, TypeOK
<1>3. /\ [clients EXCEPT ![c].work.stage = "running"] = [clients EXCEPT ![c] = x]
      /\ [r.work EXCEPT !.stage = "running"] = new
      /\ Sound(x, pushes, accepting) /\ x.work = new
      /\ Locked(new) <=> r.work.frame.kind \in Locking
  BY <1>1, NextStage
<1>4. clients' = [clients EXCEPT ![c] = y]
  <2>1. clients' = [clients EXCEPT ![c] = [r EXCEPT !.work.stage = "running",
                                      !.protected = r.work.frame.kind \in Protecting]]
    BY <1>2 DEF Start
  <2>2. [r EXCEPT !.work.stage = "running"] = x
    BY <1>2, <1>3 DEF ClientState
  <2>3. QED
    BY <1>2, <2>1, <2>2 DEF ClientState
<1>5. Sound(y, pushes, accepting) /\ y.work = new
  <2> DEFINE protects == r.work.frame.kind \in Protecting
  <2>1. protects \in BOOLEAN
    OBVIOUS
  <2> HIDE DEF protects, x, new
  <2>2. /\ Sound([x EXCEPT !.protected = protects], pushes, accepting)
        /\ [x EXCEPT !.protected = protects].work = x.work
    BY <1>3, <2>1, SmallChange
  <2>3. QED
    BY <1>3, <2>2 DEF protects
<1>6. Len(lock) > 0 /\ lock[1] = c
  <2>1. PICK i \in 1..Len(lock) : lock[i] = c
    BY <1>1 DEF IInv, LockIsHeld
  <2>2. lock \in Seq(Clients) /\ Len(lock) \in Nat
    BY LenProperties DEF IInv, TypeOK
  <2>3. Len(lock) > 0
    BY <2>1, <2>2
  <2>4. QED
    BY <2>2, <2>3, HeadTailProperties DEF Start
<1> HIDE DEF x, y, new
<1>7. Proceeds(c, r.work, y.work)
  BY <1>1, <1>2, <1>3, <1>5, <1>6 DEF Proceeds, Locked
<1>8. QED
  BY <1>1, <1>2, <1>4, <1>5, <1>7, OneClient

\* The handler of a "send" throws.
LEMMA SendFailsStep ==
  ASSUME IInv, NEW c \in Clients, SendFails(c)
  PROVE  IInv'
<1> DEFINE r == clients[c]
           q == [r EXCEPT !.work = NoWork]
<1>1. /\ r.work # NoWork /\ ~Locked(r.work)
      /\ UNCHANGED <<lock, frames, pushes, latest, router>>
  BY DEF SendFails, NoWork, Locked, Locking
<1>2. clients' = [clients EXCEPT ![c] = Closed(q)]
  BY DEF SendFails
<1>3. NoWork \in Works /\ ~Locked(NoWork)
  BY DEF Works, Locked, NoWork
<1>4. Sound(r, pushes, accepting) /\ frames \in 0..MaxFrames
  BY ClientFacts
<1>5. Sound(q, pushes, accepting) /\ q.work = NoWork
  BY <1>3, <1>4, SmallChange
<1> HIDE DEF q
<1>6. Sound(Closed(q), pushes, accepting) /\ Closed(q).work = NoWork
  BY <1>5, ClosedSound DEF Sound
<1>7. Proceeds(c, r.work, Closed(q).work)
  BY <1>1, <1>3, <1>6 DEF Proceeds, NoWork
<1>8. QED
  BY <1>1, <1>2, <1>4, <1>6, <1>7, OneClient

\* The holder of the lock gives it back, and works at nothing it would hold it for.
LEMMA LockReleased ==
  ASSUME IInv, NEW c \in Clients, NEW x, clients' = [clients EXCEPT ![c] = x],
         Sound(x, pushes, accepting), x.work.stage \in {"idle", "asking"},
         Locked(clients[c].work), clients[c].work.stage # "waiting", lock' = Tail(lock),
         UNCHANGED <<frames, pushes, latest, router>>
  PROVE  IInv'
<1>1. /\ clients \in [Clients -> ClientState] /\ lock \in Seq(Clients) /\ IsInjective(lock)
      /\ Len(lock) \in Nat /\ \A i \in 1..Len(lock) : lock[i] \in Clients
  BY LenProperties, ElementOfSeq DEF IInv, TypeOK
<1>2. /\ clients' \in [Clients -> ClientState] /\ clients'[c] = x
      /\ \A d \in Clients : d # c => clients'[d] = clients[d]
  BY <1>1 DEF Sound, Typed
<1>3. Len(lock) > 0 /\ lock[1] = c
  BY DEF IInv, LockIsHeld
<1>4. /\ lock' \in Seq(Clients) /\ Len(lock') = Len(lock) - 1
      /\ \A i \in 1..Len(lock') : lock'[i] = lock[i + 1]
  BY <1>1, <1>3, EmptySeq, HeadTailProperties
<1>5. \A i, j \in 1..Len(lock) : lock[i] = lock[j] => i = j
  <2>1. DOMAIN lock = 1..Len(lock)
    BY <1>1, LenProperties
  <2>2. QED
    BY <1>1, <2>1 DEF IsInjective
<1>6. \A i \in 1..Len(lock') : i \in Nat /\ i + 1 \in 1..Len(lock) /\ i + 1 # 1
  BY <1>1, <1>4
<1>7. IsInjective(lock')
  <2>1. DOMAIN lock' = 1..Len(lock')
    BY <1>4, LenProperties
  <2>2. \A i, j \in 1..Len(lock') : lock'[i] = lock'[j] => i = j
    BY <1>4, <1>5, <1>6
  <2>3. QED
    BY <2>1, <2>2 DEF IsInjective
<1>8. ~Locked(x.work) /\ x.work.stage \notin {"waiting", "revoked"}
  BY DEF Locked
<1>9. LockIsHeld'
  <2>1. ASSUME NEW i \in 1..Len(lock') PROVE Locked(clients'[lock'[i]].work)
    <3>1. i + 1 \in 1..Len(lock) /\ lock'[i] = lock[i + 1] /\ 1 \in 1..Len(lock) /\ i + 1 # 1
      BY <1>1, <1>3, <1>4, <1>6
    <3>2. lock[i + 1] # c /\ lock[i + 1] \in Clients
      BY <1>1, <1>3, <1>5, <3>1
    <3>3. Locked(clients[lock[i + 1]].work)
      BY <3>1 DEF IInv, LockIsHeld
    <3>4. QED
      BY <1>2, <3>1, <3>2, <3>3
  <2>2. ASSUME NEW d \in Clients, Locked(clients'[d].work)
        PROVE  \E i \in 1..Len(lock') : lock'[i] = d
    <3>1. d # c /\ clients'[d] = clients[d]
      BY <1>2, <1>8, <2>2
    <3>2. PICK i \in 1..Len(lock) : lock[i] = d
      BY <2>2, <3>1 DEF IInv, LockIsHeld
    <3>3. i # 1
      BY <1>3, <3>1, <3>2
    <3>4. i - 1 \in 1..Len(lock') /\ (i - 1) + 1 = i
      BY <1>1, <1>4, <3>3
    <3>5. lock'[i - 1] = d
      BY <1>4, <3>2, <3>4
    <3>6. QED
      BY <3>4, <3>5
  <2>3. ASSUME NEW d \in Clients, Locked(clients'[d].work), clients'[d].work.stage # "waiting"
        PROVE  FALSE
    <3>1. d # c /\ clients'[d] = clients[d]
      BY <1>2, <1>8, <2>3
    <3>2. lock[1] = d
      BY <2>3, <3>1 DEF IInv, LockIsHeld
    <3>3. QED
      BY <1>3, <3>1, <3>2
  <2>4. \A d \in Clients : clients'[d].work.stage \in {"waiting", "revoked"} =>
          Locked(clients'[d].work)
    BY <1>2, <1>8 DEF IInv, LockIsHeld
  <2>5. QED
    BY <2>1, <2>2, <2>3, <2>4 DEF LockIsHeld
<1>10. (accepting' <=> accepting) /\ pushes' = pushes
  BY DEF accepting
<1>11. \A d \in Clients : Sound(clients'[d], pushes', accepting')
  <2> SUFFICES ASSUME NEW d \in Clients PROVE Sound(clients'[d], pushes', accepting')
    OBVIOUS
  <2>1. Sound(clients'[d], pushes, accepting)
    BY <1>2 DEF IInv
  <2>2. QED
    BY <1>10, <2>1 DEF Sound
<1>12. TypeOK'
  BY <1>2, <1>4, <1>7, <1>11 DEF IInv, TypeOK, Sound, Typed
<1>13. clients[c].work # NoWork
  BY DEF Locked, NoWork
<1>14. NothingWorks'
  BY <1>13 DEF IInv, NothingWorks
<1>15. QED
  BY <1>9, <1>11, <1>12, <1>14 DEF IInv

\* The handler settles.
LEMMA FinishStep ==
  ASSUME IInv, NEW c \in Clients, Finish(c)
  PROVE  IInv'
<1> DEFINE r == clients[c]
           frame == r.work.frame
<1>1. /\ r.work.stage \in {"running", "revoked"} /\ r.work # NoWork
      /\ UNCHANGED <<frames, pushes, latest, router>>
  BY DEF Finish, NoWork
<1>2. /\ Sound(r, pushes, accepting) /\ frame \in Frames /\ frames \in 0..MaxFrames
      /\ router \notin {"drained", "closed"}
  BY <1>1, ClientFacts
<1>3. PICK buffer \in Buffers :
        LET done == [Answered(r, frame, buffer) EXCEPT !.protected = FALSE, !.deferred = FALSE]
        IN  /\ lock' = IF frame.kind \in Locking THEN Tail(lock) ELSE lock
            /\ clients' = [clients EXCEPT ![c] = Dispatched(
                 IF frame.kind = "send" THEN r
                 ELSE IF r.deferred THEN Closed(done)
                 ELSE Pumped(done))]
  BY DEF Finish
<1> DEFINE answered == Answered(r, frame, buffer)
           once == [answered EXCEPT !.protected = FALSE]
           done == [answered EXCEPT !.protected = FALSE, !.deferred = FALSE]
           next == IF frame.kind = "send" THEN r
                   ELSE IF r.deferred THEN Closed(done) ELSE Pumped(done)
           x == Dispatched(next)
<1>4. Sound(answered, pushes, accepting)
  BY <1>2, AnsweredSound
<1> HIDE DEF answered
<1>5. Sound(once, pushes, accepting)
  BY <1>4, SmallChange
<1>6. Sound(done, pushes, accepting)
  <2>1. done = [once EXCEPT !.deferred = FALSE]
    BY <1>4 DEF Sound, Typed, ClientState
  <2> HIDE DEF once
  <2>2. QED
    BY <1>5, <2>1, SmallChange
<1> HIDE DEF done
<1>7. Sound(next, pushes, accepting)
  BY <1>2, <1>6, ClosedSound, PumpedSound DEF Sound
<1> HIDE DEF next
<1>8. Sound(x, pushes, accepting) /\ x.work.stage \in {"idle", "asking"}
  BY <1>7, DispatchedSound
<1>9. /\ lock' = IF frame.kind \in Locking THEN Tail(lock) ELSE lock
      /\ clients' = [clients EXCEPT ![c] = x]
  BY <1>3 DEF next, done, answered
<1> HIDE DEF x
<1>10. CASE frame.kind \in Locking
  <2>1. Locked(r.work) /\ r.work.stage # "waiting"
    BY <1>1, <1>10 DEF Locked
  <2>2. QED
    BY <1>1, <1>8, <1>9, <1>10, <2>1, LockReleased
<1>11. CASE frame.kind \notin Locking
  <2>1. ~Locked(r.work) /\ ~Locked(x.work)
    BY <1>8, <1>11 DEF Locked
  <2>2. Proceeds(c, r.work, x.work)
    BY <1>2, <1>8, <2>1 DEF Proceeds
  <2>3. QED
    BY <1>1, <1>2, <1>8, <1>9, <1>11, <2>2, OneClient
<1>12. QED
  BY <1>10, <1>11

\* A session ends, at the push n: all that was written or authorized was pushed by then.
LEMMA EndedSound ==
  ASSUME NEW r, NEW n \in 0..MaxPushes, NEW w, Sound(r, n, w)
  PROVE  /\ LET q == [r EXCEPT !.session = FALSE, !.endedAt = IF r.session THEN n ELSE @]
            IN  Sound(q, n, w) /\ q.work = r.work
         /\ r.session => LET q == [r EXCEPT !.session = FALSE, !.endedAt = n]
                         IN  Sound(q, n, w) /\ q.work = r.work
<1>1. r \in ClientState /\ r.session \in BOOLEAN /\ r.endedAt \in 0..MaxPushes
  BY DEF Sound, Typed, ClientState
<1>2. ASSUME NEW end \in 0..MaxPushes, end = n \/ (~r.session /\ end = r.endedAt)
      PROVE  LET q == [r EXCEPT !.session = FALSE, !.endedAt = end]
             IN  Sound(q, n, w) /\ q.work = r.work
  <2> DEFINE q == [r EXCEPT !.session = FALSE, !.endedAt = end]
  <2>1. q \in ClientState
    BY <1>1, <1>2 DEF ClientState
  <2>2. /\ q.events = r.events /\ q.accepted = r.accepted /\ q.open = r.open
        /\ q.queue = r.queue /\ q.session = FALSE /\ q.endedAt = end
        /\ q.streamed = r.streamed /\ q.seen = r.seen /\ q.pump = r.pump /\ q.work = r.work
    BY <1>1 DEF ClientState
  <2> HIDE DEF q
  <2>3. Typed(q)
    BY <2>1, <2>2 DEF Sound, Typed
  <2>4. Known(r, n) => Known(q, n)
    BY <2>2 DEF Known
  <2>5. Known(r, n) /\ Ended(r) => Ended(q)
    <3> SUFFICES ASSUME Known(r, n), Ended(r) PROVE Ended(q)
      OBVIOUS
    <3>1. CASE end = n
      <4>1. r.pump.stage \in {"yes", "ready"} => r.pump # NoPump
        BY DEF NoPump
      <4>2. QED
        BY <2>2, <3>1, <4>1 DEF Known, Ended
    <3>2. CASE ~r.session /\ end = r.endedAt
      BY <2>2, <3>2 DEF Ended
    <3>3. QED
      BY <1>2, <3>1, <3>2
  <2>6. Sound(q, n, w)
    BY <2>2, <2>3, <2>4, <2>5 DEF Sound
  <2>7. QED
    BY <2>2, <2>6 DEF q
<1>3. [r EXCEPT !.session = FALSE, !.endedAt = IF r.session THEN n ELSE @]
        = [r EXCEPT !.session = FALSE, !.endedAt = IF r.session THEN n ELSE r.endedAt]
  BY <1>1 DEF ClientState
<1>4. (IF r.session THEN n ELSE r.endedAt) \in 0..MaxPushes
  BY <1>1
<1>5. QED
  BY <1>1, <1>2, <1>3, <1>4

\* The session of a client ends by itself.
LEMMA ExpireStep ==
  ASSUME IInv, NEW c \in Clients, Expire(c)
  PROVE  IInv'
<1> DEFINE r == clients[c]
           x == [r EXCEPT !.session = FALSE, !.endedAt = pushes]
<1>1. /\ r.session /\ Sound(r, pushes, accepting) /\ r \in ClientState
      /\ pushes \in 0..MaxPushes /\ frames \in 0..MaxFrames
      /\ clients \in [Clients -> ClientState]
  BY ClientFacts DEF Expire, IInv, TypeOK
<1>2. clients' = [clients EXCEPT ![c] = x]
  BY <1>1 DEF Expire, ClientState
<1>3. Sound(x, pushes, accepting) /\ x.work = r.work
  BY <1>1, EndedSound
<1> HIDE DEF x
<1>4. Proceeds(c, r.work, x.work)
  BY <1>3 DEF Proceeds
<1>5. QED
  BY <1>1, <1>2, <1>3, <1>4, OneClient DEF Expire

\* An account's password changes: its sessions end.
LEMMA EvictStep ==
  ASSUME IInv, NEW c \in Clients, Evict(c)
  PROVE  IInv'
<1> DEFINE ended(d) == [clients[d] EXCEPT !.session = FALSE,
                                 !.endedAt = IF clients[d].session THEN pushes ELSE @]
           r == clients[c]
           new == [frame |-> r.work.frame, stage |-> "revoked"]
           mine == [ended(c) EXCEPT !.work.stage = "revoked", !.deferred = TRUE]
<1>1. /\ r.work.stage = "running" /\ r.work.frame.kind = "evict" /\ r.work # NoWork
      /\ UNCHANGED <<lock, frames, pushes, latest, router>>
  <2>1. r.work.stage = "running" /\ r.work.frame.kind = "evict"
    BY DEF Evict
  <2>2. UNCHANGED <<lock, frames, pushes, latest, router>>
    BY DEF Evict
  <2>3. r.work # NoWork
    BY <2>1 DEF NoWork
  <2>4. QED
    BY <2>1, <2>2, <2>3
<1>2. clients' = [d \in Clients |-> IF d = c THEN mine ELSE Closed(ended(d))]
  BY DEF Evict
<1>3. \A d \in Clients : Sound(ended(d), pushes, accepting) /\ ended(d).work = clients[d].work
  BY ClientFacts, EndedSound
<1>4. Locked(r.work) /\ Locked(new) /\ Len(lock) > 0 /\ lock[1] = c
  <2>1. Locked(r.work) /\ Locked(new)
    BY <1>1 DEF Locked, Locking
  <2>2. QED
    BY <1>1, <2>1 DEF IInv, LockIsHeld
<1>5. /\ [r.work EXCEPT !.stage = "revoked"] = new /\ new \in Works
      /\ router \notin {"drained", "closed"}
  BY <1>1, NextStage, ClientFacts
<1> HIDE DEF ended, new
<1>6. Sound(mine, pushes, accepting) /\ mine.work = new
  <2> DEFINE one == [ended(c) EXCEPT !.work = new]
             two == [one EXCEPT !.deferred = TRUE]
  <2>1. Sound(one, pushes, accepting) /\ one.work = new
    BY <1>3, <1>5, SmallChange
  <2>2. ended(c) \in ClientState
    BY <1>3 DEF Sound, Typed
  <2>3. mine = two
    BY <1>3, <1>5, <2>2 DEF ClientState
  <2> HIDE DEF one
  <2>4. Sound(two, pushes, accepting) /\ two.work = one.work
    BY <2>1, SmallChange
  <2>5. QED
    BY <2>1, <2>3, <2>4
<1> HIDE DEF mine
<1>7. \A d \in Clients : /\ Sound(Closed(ended(d)), pushes, accepting)
                         /\ Closed(ended(d)).work = clients[d].work
  BY <1>3, ClosedSound DEF Sound
<1>8. ASSUME NEW d \in Clients
      PROVE  /\ Sound(clients'[d], pushes', accepting')
             /\ Proceeds(d, clients[d].work, clients'[d].work)
  <2>1. Sound(clients'[d], pushes, accepting)
    BY <1>2, <1>6, <1>7
  <2>2. pushes' = pushes /\ (accepting' <=> accepting)
    BY <1>1 DEF accepting
  <2>3. CASE d = c
    BY <1>2, <1>4, <1>5, <1>6, <2>1, <2>2, <2>3 DEF Proceeds, Sound
  <2>4. CASE d # c
    BY <1>2, <1>7, <2>1, <2>2, <2>4 DEF Proceeds, Sound
  <2>5. QED
    BY <2>3, <2>4
<1>9. /\ pushes' \in 0..MaxPushes /\ latest' \in [Machines -> 0..MaxPushes]
      /\ router' \in {"accepting", "draining", "drained", "closed"}
      /\ router' \notin {"drained", "closed"}
  BY <1>1, <1>5 DEF IInv, TypeOK
<1>10. DOMAIN clients' = Clients /\ clients' = [d \in Clients |-> clients'[d]]
  BY <1>2
<1>11. UNCHANGED <<lock, frames>>
  BY <1>1
<1>12. QED
  BY <1>8, <1>9, <1>10, <1>11, AllClients

\* authorize() has decided about an event.
LEMMA DecideStep ==
  ASSUME IInv, NEW c \in Clients, Decide(c)
  PROVE  IInv'
<1> DEFINE r == clients[c]
           answer == IF r.session THEN "yes" ELSE "no"
           new == [event |-> r.pump.event, stage |-> answer]
           x == [r EXCEPT !.pump = new]
<1>1. /\ r.pump.stage = "asking" /\ UNCHANGED <<lock, frames, pushes, latest, router>>
      /\ clients' = [clients EXCEPT ![c].pump.stage = answer]
  BY DEF Decide
<1>2. /\ Sound(r, pushes, accepting) /\ r \in ClientState /\ frames \in 0..MaxFrames
      /\ clients \in [Clients -> ClientState] /\ r.pump \in Pumps /\ r.pump # NoPump
  BY <1>1, ClientFacts DEF IInv, TypeOK, ClientState, NoPump
<1>3. r.pump \in [event : Events, stage : {"asking", "yes", "no", "ready"}]
  BY <1>2 DEF Pumps
<1>4. new \in Pumps /\ [r.pump EXCEPT !.stage = answer] = new
  BY <1>3 DEF Pumps
<1>5. clients' = [clients EXCEPT ![c] = x]
  BY <1>1, <1>2, <1>4 DEF ClientState
<1>6. x \in ClientState
  BY <1>2, <1>4 DEF ClientState
<1>7. /\ x.events = r.events /\ x.accepted = r.accepted /\ x.open = r.open
      /\ x.queue = r.queue /\ x.session = r.session /\ x.endedAt = r.endedAt
      /\ x.streamed = r.streamed /\ x.seen = r.seen /\ x.work = r.work
      /\ x.pump.event = r.pump.event /\ x.pump.stage = answer
  BY <1>2 DEF ClientState
<1> HIDE DEF x
<1>8. Sound(x, pushes, accepting)
  <2>1. Typed(x)
    BY <1>2, <1>6, <1>7 DEF Sound, Typed
  <2>2. Known(r, pushes) => Known(x, pushes)
    BY <1>2, <1>7 DEF Known
  <2>3. Ended(r) => Ended(x)
    BY <1>7 DEF Ended
  <2>4. QED
    BY <1>2, <1>7, <2>1, <2>2, <2>3 DEF Sound
<1>9. Proceeds(c, r.work, x.work)
  BY <1>7 DEF Proceeds
<1>10. QED
  BY <1>1, <1>2, <1>5, <1>8, <1>9, OneClient

\* The timer fires.
LEMMA RetryStep ==
  ASSUME IInv, NEW c \in Clients, Retry(c)
  PROVE  IInv'
<1> DEFINE r == clients[c]
           q == [r EXCEPT !.timer = FALSE]
<1>1. /\ Sound(r, pushes, accepting) /\ frames \in 0..MaxFrames
      /\ clients \in [Clients -> ClientState]
  BY ClientFacts DEF IInv, TypeOK
<1>2. Sound(q, pushes, accepting) /\ q.work = r.work
  BY <1>1, SmallChange
<1>3. clients' = [clients EXCEPT ![c] = Pumped(q)]
  BY <1>1 DEF Retry
<1> HIDE DEF q
<1>4. Sound(Pumped(q), pushes, accepting) /\ Pumped(q).work = r.work
  BY <1>2, PumpedSound
<1>5. Proceeds(c, r.work, Pumped(q).work)
  BY <1>4 DEF Proceeds
<1>6. QED
  BY <1>1, <1>3, <1>4, <1>5, OneClient DEF Retry

\* pumpEvents() resumes.
LEMMA ResumeStep ==
  ASSUME IInv, NEW c \in Clients, NEW buffer \in Buffers, Resume(c, buffer)
  PROVE  IInv'
<1> DEFINE r == clients[c]
           stale == r.events = <<>> \/ Head(r.events) # r.pump.event
           quiet == [r EXCEPT !.pump = NoPump]
           first == [r EXCEPT !.events[1].authorized = TRUE]
           x == IF stale THEN Looped(r)
                ELSE IF r.pump.stage = "no" THEN Closed(quiet) ELSE Written(first, buffer)
<1>1. r.pump.stage \in {"yes", "no", "ready"} /\ UNCHANGED <<lock, frames, pushes, latest, router>>
  BY DEF Resume
<1>2. /\ Sound(r, pushes, accepting) /\ r \in ClientState /\ Typed(r)
      /\ frames \in 0..MaxFrames /\ r.events \in Seq(Events)
  BY ClientFacts DEF Sound, Typed, ClientState
<1>3. clients' = [clients EXCEPT ![c] = x]
  BY DEF Resume
<1>4. Sound(x, pushes, accepting) /\ x.work = r.work
  <2>1. CASE stale
    BY <1>2, <2>1, LoopedSound
  <2>2. CASE ~stale /\ r.pump.stage = "no"
    <3>1. NoPump \in Pumps
      BY DEF Pumps
    <3>2. /\ quiet \in ClientState /\ quiet.events = r.events /\ quiet.queue = r.queue
          /\ quiet.work = r.work
      BY <1>2, <3>1 DEF ClientState
    <3> HIDE DEF quiet
    <3>3. Typed(quiet)
      BY <1>2, <3>2 DEF Typed
    <3>4. QED
      BY <2>2, <3>2, <3>3, ClosedSound
  <2>3. CASE ~stale /\ r.pump.stage # "no"
    <3>1. r.events # <<>> /\ Head(r.events) = r.pump.event /\ r.pump.stage \in {"yes", "ready"}
      BY <1>1, <2>3
    <3>2. r.events[1] = r.pump.event
      BY <1>2, <3>1, HeadTailProperties
    <3>3. r.open /\ ~r.session => r.events[1].payload <= r.endedAt
      BY <1>2, <3>1, <3>2 DEF Sound, Ended
    <3>4. /\ Sound(first, pushes, accepting) /\ first.work = r.work
          /\ first.events # <<>> /\ first.events[1].authorized = TRUE
      BY <1>2, <3>1, <3>3, AuthorizedSound
    <3> HIDE DEF first
    <3>5. QED
      BY <2>3, <3>4, WrittenSound
  <2>4. QED
    BY <2>1, <2>2, <2>3
<1> HIDE DEF x
<1>5. Proceeds(c, r.work, x.work)
  BY <1>4 DEF Proceeds
<1>6. QED
  BY <1>1, <1>2, <1>3, <1>4, <1>5, OneClient

\* An event is pushed.
LEMMA BroadcastStep ==
  ASSUME IInv, NEW channel \in {"state", "stream"}, NEW m \in Machines, Broadcast(channel, m)
  PROVE  IInv'
<1> DEFINE e == [channel |-> channel, about |-> m, payload |-> pushes', authorized |-> FALSE]
<1>1. /\ pushes < MaxPushes /\ pushes' = pushes + 1 /\ UNCHANGED <<lock, frames, router>>
      /\ latest' = IF channel = "state" THEN [latest EXCEPT ![m] = pushes'] ELSE latest
      /\ clients' = [c \in Clients |->
                       IF c \in Watchers THEN Queued(clients[c], e) ELSE clients[c]]
  BY DEF Broadcast
<1>2. /\ pushes \in Nat /\ MaxPushes \in Nat /\ pushes \in 0..MaxPushes
      /\ latest \in [Machines -> 0..MaxPushes]
  BY BoundsAssumption DEF IInv, TypeOK
<1>3. pushes' \in 1..MaxPushes /\ pushes' \in 0..MaxPushes
  BY <1>1, <1>2
<1>4. e \in Events /\ e.payload = pushes + 1 /\ e.authorized = FALSE
  BY <1>1, <1>3 DEF Events
<1> HIDE DEF e
<1>5. accepting' <=> accepting
  BY <1>1 DEF accepting
<1>6. ASSUME NEW c \in Clients
      PROVE  /\ Sound(clients'[c], pushes', accepting')
             /\ Proceeds(c, clients[c].work, clients'[c].work)
  <2>1. Sound(clients[c], pushes, accepting) /\ clients[c] \in ClientState
    BY ClientFacts
  <2>2. CASE c \in Watchers
    <3>1. clients'[c] = Queued(clients[c], e)
      BY <1>1, <2>2
    <3>2. /\ Sound(Queued(clients[c], e), pushes + 1, accepting)
          /\ Queued(clients[c], e).work = clients[c].work
      BY <1>2, <1>4, <2>1, QueuedSound
    <3>3. QED
      BY <1>1, <1>5, <3>1, <3>2 DEF Proceeds, Sound
  <2>3. CASE c \notin Watchers
    <3>1. clients'[c] = clients[c]
      BY <1>1, <2>3
    <3>2. Sound(clients[c], pushes + 1, accepting)
      BY <1>2, <2>1, KnownLater DEF Sound
    <3>3. QED
      BY <1>1, <1>5, <3>1, <3>2 DEF Proceeds, Sound
  <2>4. QED
    BY <2>2, <2>3
<1>7. latest' \in [Machines -> 0..MaxPushes]
  BY <1>1, <1>2, <1>3
<1>8. DOMAIN clients' = Clients /\ clients' = [c \in Clients |-> clients'[c]]
  BY <1>1
<1>9. router' \in {"accepting", "draining", "drained", "closed"}
  BY <1>1 DEF IInv, TypeOK
<1>10. router' \in {"drained", "closed"} => \A c \in Clients : clients'[c].work = NoWork
  <2>1. router' = router
    BY <1>1
  <2>2. QED
    BY <1>6, <2>1 DEF IInv, NothingWorks, Proceeds
<1>11. UNCHANGED <<lock, frames>>
  BY <1>1
<1>12. QED
  BY <1>3, <1>6, <1>7, <1>8, <1>9, <1>10, <1>11, AllClients

\* stopAccepting() empties the queues of events.
LEMMA StopAcceptingStep ==
  ASSUME IInv, StopAccepting
  PROVE  IInv'
<1> DEFINE dropped(c) == [clients[c] EXCEPT !.events = <<>>, !.timer = FALSE]
<1>1. /\ router' = "draining" /\ UNCHANGED <<lock, frames, pushes, latest>>
      /\ clients' = [c \in Clients |-> dropped(c)]
  BY DEF StopAccepting
<1>2. accepting' = FALSE
  BY <1>1 DEF accepting
<1>3. ASSUME NEW c \in Clients
      PROVE  Sound(dropped(c), pushes, FALSE) /\ dropped(c).work = clients[c].work
  <2> DEFINE r == clients[c]
             q == dropped(c)
  <2>1. Sound(r, pushes, accepting) /\ r \in ClientState
    BY ClientFacts
  <2>2. <<>> \in Seq(Events) /\ Len(<<>>) = 0
    OBVIOUS
  <2>3. q \in ClientState
    BY <2>1, <2>2 DEF ClientState
  <2>4. /\ q.events = <<>> /\ q.accepted = r.accepted /\ q.open = r.open /\ q.queue = r.queue
        /\ q.session = r.session /\ q.endedAt = r.endedAt /\ q.streamed = r.streamed
        /\ q.seen = r.seen /\ q.pump = r.pump /\ q.work = r.work
    BY <2>1 DEF ClientState
  <2> HIDE DEF dropped, r
  <2>5. MaxQueued \in Nat
    BY BoundsAssumption
  <2>6. Typed(q)
    BY <2>1, <2>2, <2>3, <2>4, <2>5 DEF Sound, Typed
  <2>7. \A i \in 1..Len(q.events) : FALSE
    BY <2>2, <2>4
  <2>8. Known(r, pushes) => Known(q, pushes)
    BY <2>4, <2>7 DEF Known
  <2>9. Ended(r) => Ended(q)
    BY <2>4, <2>7 DEF Ended
  <2>10. QED
    BY <2>1, <2>4, <2>6, <2>8, <2>9 DEF Sound, r
<1> HIDE DEF dropped
<1>4. ASSUME NEW c \in Clients
      PROVE  /\ Sound(clients'[c], pushes', accepting')
             /\ Proceeds(c, clients[c].work, clients'[c].work)
  BY <1>1, <1>2, <1>3, <1>4 DEF Sound, Proceeds
<1>5. pushes' \in 0..MaxPushes /\ latest' \in [Machines -> 0..MaxPushes]
  BY <1>1 DEF IInv, TypeOK
<1>6. DOMAIN clients' = Clients /\ clients' = [c \in Clients |-> clients'[c]]
  BY <1>1
<1>7. QED
  BY <1>1, <1>4, <1>5, <1>6, AllClients

\* drain() resolves when nothing works any more.
LEMMA DrainedStep ==
  ASSUME IInv, Drained
  PROVE  IInv'
<1>1. /\ router = "draining" /\ router' = "drained"
      /\ UNCHANGED <<clients, lock, frames, pushes, latest>>
      /\ \A c \in Clients : clients[c].work = NoWork
  BY DEF Drained
<1>2. ASSUME NEW c \in Clients PROVE Sound(clients'[c], pushes', accepting')
  <2>1. Sound(clients[c], pushes, accepting)
    BY ClientFacts
  <2>2. accepting' = FALSE
    BY <1>1 DEF accepting
  <2>3. QED
    BY <1>1, <2>1, <2>2 DEF Sound
<1>3. TypeOK' /\ LockIsHeld'
  BY <1>1 DEF IInv, TypeOK, LockIsHeld
<1>4. NothingWorks'
  BY <1>1 DEF NothingWorks
<1>5. QED
  BY <1>2, <1>3, <1>4 DEF IInv

\* closeAll() closes every client.
LEMMA CloseAllStep ==
  ASSUME IInv, CloseAll
  PROVE  IInv'
<1>1. /\ router = "drained" /\ router' = "closed" /\ UNCHANGED <<lock, frames, pushes, latest>>
      /\ clients' = [c \in Clients |-> Closed(clients[c])]
  BY DEF CloseAll
<1>2. ASSUME NEW c \in Clients
      PROVE  /\ Sound(clients'[c], pushes', accepting')
             /\ clients'[c].work = NoWork /\ clients[c].work = NoWork
  <2>1. Typed(clients[c]) /\ clients[c].work = NoWork
    BY <1>1, ClientFacts DEF Sound, IInv, NothingWorks
  <2>2. Sound(Closed(clients[c]), pushes', accepting') /\ Closed(clients[c]).work = NoWork
    BY <2>1, ClosedSound
  <2>3. QED
    BY <1>1, <2>1, <2>2
<1>3. \A c \in Clients : Proceeds(c, clients[c].work, clients'[c].work)
  BY <1>2 DEF Proceeds
<1>4. pushes' \in 0..MaxPushes /\ latest' \in [Machines -> 0..MaxPushes]
  BY <1>1 DEF IInv, TypeOK
<1>5. DOMAIN clients' = Clients /\ clients' = [c \in Clients |-> clients'[c]]
  BY <1>1
<1>6. QED
  BY <1>1, <1>2, <1>3, <1>4, <1>5, AllClients

-----------------------------------------------------------------------------
(***************************************************************************)
(* The invariant and what follows from it                                  *)
(***************************************************************************)

\* The router starts sound.
LEMMA InitIsSound == Init => IInv
<1> SUFFICES ASSUME Init PROVE IInv
  OBVIOUS
<1> DEFINE none == [m \in Machines |-> 0]
           r == [open |-> TRUE, queue |-> <<>>, work |-> NoWork, protected |-> FALSE,
                 deferred |-> FALSE, events |-> <<>>, pump |-> NoPump, timer |-> FALSE,
                 session |-> TRUE, received |-> {}, answered |-> {},
                 accepted |-> <<>>, streamed |-> <<>>, seen |-> none, endedAt |-> 0]
<1>1. /\ clients = [c \in Clients |-> r] /\ lock = <<>> /\ frames = 0 /\ pushes = 0
      /\ latest = none /\ router = "accepting"
  BY DEF Init
<1>2. /\ MaxFrames \in Nat /\ MaxPushes \in Nat /\ MaxQueued \in Nat
      /\ 0 \in 0..MaxPushes /\ 0 \in 0..MaxFrames
  BY BoundsAssumption
<1>3. none \in [Machines -> 0..MaxPushes] /\ \A m \in Machines : none[m] = 0
  BY <1>2
<1> HIDE DEF none
<1>4. NoWork \in Works /\ NoPump \in Pumps
  BY DEF Works, Pumps
<1>5. r \in ClientState
  BY <1>2, <1>3, <1>4 DEF ClientState
<1>6. /\ r.open = TRUE /\ r.queue = <<>> /\ r.work = NoWork /\ r.events = <<>>
      /\ r.pump = NoPump /\ r.session = TRUE /\ r.accepted = <<>> /\ r.streamed = <<>>
      /\ r.seen = none
  OBVIOUS
<1> HIDE DEF r
<1>7. Sound(r, 0, TRUE)
  <2>1. Typed(r)
    BY <1>2, <1>5, <1>6 DEF Typed
  <2>2. Known(r, 0)
    BY <1>3, <1>6 DEF Known
  <2>3. Ended(r)
    BY <1>6 DEF Ended
  <2>4. Whole(r.events, r.accepted, r.streamed)
    BY <1>6 DEF Whole, Waiting, Unwritten
  <2>5. QED
    BY <2>1, <2>2, <2>3, <2>4 DEF Sound
<1>8. \A c \in Clients : Sound(clients[c], pushes, accepting)
  BY <1>1, <1>7 DEF Sound
<1>9. TypeOK
  <2>1. lock \in Seq(Clients) /\ IsInjective(lock)
    BY <1>1 DEF IsInjective
  <2>2. QED
    BY <1>1, <1>2, <1>3, <1>5, <1>8, <2>1 DEF TypeOK, Sound, Typed
<1>10. LockIsHeld
  BY <1>1, <1>6 DEF LockIsHeld, Locked, NoWork
<1>11. NothingWorks
  BY <1>1 DEF NothingWorks
<1>12. QED
  BY <1>8, <1>9, <1>10, <1>11 DEF IInv

\* Every step keeps it so.
LEMMA StepsKeepSound == IInv /\ [Next]_vars => IInv'
<1> SUFFICES ASSUME IInv, [Next]_vars PROVE IInv'
  OBVIOUS
<1>1. ASSUME NEW c \in Clients, Receive(c) PROVE IInv'
  BY <1>1, ReceiveStep
<1>2. ASSUME NEW c \in Clients, Admit(c) PROVE IInv'
  BY <1>2, AdmitStep
<1>3. ASSUME NEW c \in Clients, Start(c) PROVE IInv'
  BY <1>3, StartStep
<1>4. ASSUME NEW c \in Clients, Evict(c) PROVE IInv'
  BY <1>4, EvictStep
<1>5. ASSUME NEW c \in Clients, Finish(c) PROVE IInv'
  BY <1>5, FinishStep
<1>6. ASSUME NEW c \in Clients, SendFails(c) PROVE IInv'
  BY <1>6, SendFailsStep
<1>7. ASSUME NEW c \in Clients, Decide(c) PROVE IInv'
  BY <1>7, DecideStep
<1>8. ASSUME NEW c \in Clients, NEW buffer \in Buffers, Resume(c, buffer) PROVE IInv'
  BY <1>8, ResumeStep
<1>9. ASSUME NEW c \in Clients, Retry(c) PROVE IInv'
  BY <1>9, RetryStep
<1>10. ASSUME NEW c \in Clients, Expire(c) PROVE IInv'
  BY <1>10, ExpireStep
<1>11. ASSUME NEW channel \in {"state", "stream"}, NEW m \in Machines, Broadcast(channel, m)
       PROVE  IInv'
  BY <1>11, BroadcastStep
<1>12. CASE StopAccepting
  BY <1>12, StopAcceptingStep
<1>13. CASE Drained
  BY <1>13, DrainedStep
<1>14. CASE CloseAll
  BY <1>14, CloseAllStep
<1>15. CASE UNCHANGED vars
  <2>1. UNCHANGED <<clients, lock, frames, pushes, latest, router>>
    BY <1>15 DEF vars
  <2>2. \A c \in Clients : Sound(clients'[c], pushes', accepting')
    BY <2>1 DEF IInv, accepting
  <2>3. TypeOK' /\ LockIsHeld' /\ NothingWorks'
    BY <2>1 DEF IInv, TypeOK, LockIsHeld, NothingWorks
  <2>4. QED
    BY <2>2, <2>3 DEF IInv
<1>16. QED
  BY <1>1, <1>2, <1>3, <1>4, <1>5, <1>6, <1>7, <1>8, <1>9, <1>10, <1>11, <1>12, <1>13,
     <1>14, <1>15 DEF Next

\* The invariant holds throughout.
THEOREM Invariance == Safety => []IInv
BY InitIsSound, StepsKeepSound, PTL DEF Safety

\* Types and limits: no browser's queue of frames or of events outgrows maxQueuedFrames,
\* however fast it sends and however slowly it reads.
THEOREM QueuesAreBounded == Safety => []TypeOK
<1>1. IInv => TypeOK
  BY DEF IInv
<1>2. QED
  BY <1>1, Invariance, PTL

\* drain() means what it says: once it has resolved, no handler is running and none is
\* called any more, though frames keep arriving until closeAll().
THEOREM DrainIsQuiet == Spec => []DrainedIsQuiet
<1>1. IInv => DrainedIsQuiet
  BY DEF IInv, NothingWorks, DrainedIsQuiet
<1>2. QED
  BY <1>1, Invariance, PTL DEF Spec

\* Whatever is queued, replaced, trimmed, retried and stalled: what a browser has been
\* written of the streams is what was accepted for it first, and the rest waits for it.
THEOREM StreamsStayWhole == Safety => []StreamIsWhole
<1>1. IInv => StreamIsWhole
  <2> SUFFICES ASSUME IInv, accepting, NEW c \in Clients, clients[c].open
               PROVE  LET r == clients[c]
                          waiting == {i \in DOMAIN r.events : r.events[i].channel = "stream"}
                          unwritten == Len(r.streamed) + 1 .. Len(r.accepted)
                      IN  /\ IsPrefix(r.streamed, r.accepted)
                          /\ \A i, j \in DOMAIN r.accepted :
                               i < j => r.accepted[i] < r.accepted[j]
                          /\ \A i, j \in waiting :
                               i < j => r.events[i].payload < r.events[j].payload
                          /\ {r.events[i].payload : i \in waiting}
                               = {r.accepted[k] : k \in unwritten}
    BY DEF StreamIsWhole
  <2> DEFINE r == clients[c]
  <2>1. /\ Whole(r.events, r.accepted, r.streamed) /\ r.events \in Seq(Events)
        /\ r.accepted \in Seq(1..MaxPushes) /\ r.streamed \in Seq(1..MaxPushes)
    BY ClientFacts DEF Sound, ClientState
  <2> HIDE DEF r
  <2>2. /\ Len(r.streamed) \in Nat /\ Len(r.accepted) \in Nat
        /\ DOMAIN r.events = 1..Len(r.events) /\ DOMAIN r.accepted = 1..Len(r.accepted)
    BY <2>1, LenProperties
  <2>3. IsPrefix(r.streamed, r.accepted)
    <3> DEFINE front == SubSeq(r.accepted, 1, Len(r.streamed))
    <3>1. /\ front \in Seq(1..MaxPushes) /\ Len(front) = Len(r.streamed)
          /\ \A i \in 1..Len(r.streamed) : front[i] = r.accepted[i]
      <4>1. Len(r.streamed) <= Len(r.accepted)
        BY <2>1 DEF Whole
      <4>2. \A i \in 1..Len(r.streamed) : r.accepted[i] \in 1..MaxPushes /\ 1 + i - 1 = i
        <5>1. \A i \in 1..Len(r.accepted) : r.accepted[i] \in 1..MaxPushes
          BY <2>1, ElementOfSeq
        <5>2. \A i \in 1..Len(r.streamed) : i \in 1..Len(r.accepted) /\ 1 + i - 1 = i
          BY <2>2, <4>1
        <5>3. QED
          BY <5>1, <5>2
      <4>3. Len(r.streamed) - 1 + 1 = Len(r.streamed) /\ Len(r.streamed) \in Int
        BY <2>2
      <4>4. /\ front \in Seq(1..MaxPushes)
            /\ Len(front) = IF 1 <= Len(r.streamed) THEN Len(r.streamed) - 1 + 1 ELSE 0
            /\ \A i \in 1..Len(r.streamed) - 1 + 1 : front[i] = r.accepted[1 + i - 1]
        BY <4>2, <4>3, SubSeqProperties
      <4> HIDE DEF front
      <4>5. QED
        BY <2>2, <4>2, <4>3, <4>4
    <3> HIDE DEF front
    <3>2. front = r.streamed
      BY <2>1, <3>1, SeqEqual DEF Whole
    <3>3. QED
      BY <2>1, <3>2 DEF IsPrefix, Whole, front
  <2>4. \A i, j \in DOMAIN r.accepted : i < j => r.accepted[i] < r.accepted[j]
    BY <2>1, <2>2 DEF Whole
  <2>5. {i \in DOMAIN r.events : r.events[i].channel = "stream"} = Waiting(r.events)
    BY <2>2 DEF Waiting
  <2>6. /\ \A i, j \in Waiting(r.events) : i < j => r.events[i].payload < r.events[j].payload
        /\ {r.events[i].payload : i \in Waiting(r.events)}
             = {r.accepted[k] : k \in Unwritten(r.accepted, r.streamed)}
    BY <2>1 DEF Whole
  <2>7. QED
    BY <2>3, <2>4, <2>5, <2>6 DEF r, Unwritten
<1>2. QED
  BY <1>1, Invariance, PTL

\* No browser whose session has ended, by itself or with its account's password, is sent
\* anything that was pushed later.
THEOREM NothingIsSentAfterTheEnd == Safety => []NothingAfterTheEnd
<1>1. IInv => NothingAfterTheEnd
  <2> SUFFICES ASSUME IInv, NEW c \in Clients, clients[c].open, ~clients[c].session
               PROVE  /\ \A m \in Machines : clients[c].seen[m] <= clients[c].endedAt
                      /\ \A i \in 1..Len(clients[c].streamed) :
                           clients[c].streamed[i] <= clients[c].endedAt
    BY DEF NothingAfterTheEnd
  <2>1. Sound(clients[c], pushes, accepting)
    BY ClientFacts
  <2>2. QED
    BY <2>1 DEF Sound, Ended
<1>2. QED
  BY <1>1, Invariance, PTL
=============================================================================
