----------------------------- MODULE ServerProofs -----------------------------
(***************************************************************************)
(* Proofs about what the server keeps (MCServer), for any values of the    *)
(* constants.                                                              *)
(***************************************************************************)
EXTENDS MCServer, SequenceTheorems, WellFoundedInduction, TLAPS

-----------------------------------------------------------------------------
(***************************************************************************)
(* server/resource-coordinator.ts (ResourceCoordinator): mutual exclusion  *)
(* and freedom from deadlock for any callers, resources and resource sets. *)
(***************************************************************************)

\* A caller that holds a name is first in its queue.
HoldersAreFirst ==
  \A c \in Callers : \A r \in held[c] : queue[r] # <<>> /\ Head(queue[r]) = c

\* A caller that waits for a name is in its queue.
WaitersAreQueued ==
  \A c \in Callers : pc[c] = "acquiring" =>
    \E r \in want[c] : Comes(r, want[c]) /\ \E i \in 1..Len(queue[r]) : queue[r][i] = c

\* Nobody is in a queue but the holder and those who wait for the name, once each.
QueuedWithReason ==
  \A r \in Resources : \A i \in 1..Len(queue[r]) :
    \/ r \in held[queue[r][i]]
    \/ pc[queue[r][i]] = "acquiring" /\ Comes(r, want[queue[r][i]])

QueuedOnce ==
  \A r \in Resources : \A i, j \in 1..Len(queue[r]) : queue[r][i] = queue[r][j] => i = j

\* Names are acquired in their sorted order.
AcquiredInOrder ==
  \A c \in Callers : \A h \in held[c], w \in want[c] : h < w

\* The inductive invariant.
MutexInv ==
  /\ TypeOK
  /\ HoldersAreFirst
  /\ WaitersAreQueued
  /\ QueuedWithReason
  /\ QueuedOnce
  /\ AcquiredInOrder

-----------------------------------------------------------------------------
\* Every nonempty set of ranks has a highest one.
LEMMA HighestRank ==
  ASSUME NEW S \in SUBSET Resources, S # {}
  PROVE  \E m \in S : \A r \in S : r <= m
<1> DEFINE Less == {p \in Nat \X Nat : p[1] < p[2]}
           T    == {ResourceCount - r : r \in S}
<1>1. IsWellFoundedOn(Less, Nat)
  BY NatLessThanWellFounded DEF OpToRel
<1>2. T \subseteq Nat /\ T # {}
  <2>1. ResourceCount \in Nat
    BY ResourceCountAssumption
  <2>2. \A r \in S : ResourceCount - r \in Nat
    BY <2>1 DEF Resources
  <2>3. PICK r \in S : TRUE
    OBVIOUS
  <2>4. ResourceCount - r \in T
    OBVIOUS
  <2>5. QED
    BY <2>2, <2>4
<1>3. PICK x \in T : \A y \in T : ~ (<<y, x>> \in Less)
  <2> HIDE DEF Less, T
  <2> QED  BY <1>1, <1>2, WFMin
<1>4. PICK m \in S : x = ResourceCount - m
  BY <1>3
<1> USE ResourceCountAssumption DEF Resources
<1>5. ASSUME NEW r \in S PROVE r <= m
  <2>1. ResourceCount - r \in T /\ ResourceCount - r \in Nat /\ x \in Nat
    BY <1>2, <1>3
  <2>2. ~ (ResourceCount - r < x)
    BY <1>3, <2>1
  <2>3. QED
    BY <1>4, <2>2
<1>6. QED
  BY <1>5

\* At most one name comes first.
LEMMA ComesOnce ==
  ASSUME NEW S \in SUBSET Resources, NEW q \in S, NEW r \in S, Comes(q, S), Comes(r, S)
  PROVE  q = r
BY ResourceCountAssumption DEF Comes, Resources

\* The initial state satisfies the inductive invariant: nobody called run().
LEMMA MutexInit == Init => MutexInv
BY DEF Init, MutexInv, TypeOK, HoldersAreFirst, WaitersAreQueued, QueuedWithReason, QueuedOnce,
       AcquiredInOrder

\* Joining a queue, as run() does before each await, preserves the invariant.
\* names is what the caller wants next; it already holds what it held before,
\* and the name it was just granted.
LEMMA JoinMutex ==
  ASSUME MutexInv, NEW c \in Callers, NEW names \in SUBSET Resources, NEW new \in SUBSET Resources,
         \A r \in new : queue[r] # <<>> /\ Head(queue[r]) = c,
         \A h \in held[c] \cup new, w \in names : h < w,
         \A r \in names : \A i \in 1..Len(queue[r]) : queue[r][i] # c,
         \A r \in Resources : \A i \in 1..Len(queue[r]) :
           queue[r][i] = c => r \in held[c] \cup new,
         want' = [want EXCEPT ![c] = names],
         held' = [held EXCEPT ![c] = @ \cup new],
         pc[c] = "idle" \/ pc[c] = "acquiring",
         Proceed(c, names),
         names # {} => pc'[c] = "acquiring"
  PROVE  MutexInv'
<1> USE DEF MutexInv, TypeOK
<1>1. CASE names = {}
  <2>1. pc' = [pc EXCEPT ![c] = "running"] /\ queue' = queue
    BY <1>1 DEF Proceed
  <2>2. TypeOK'
    BY <1>1, <2>1
  <2>3. HoldersAreFirst' /\ WaitersAreQueued' /\ AcquiredInOrder'
    BY SMTT(30), <1>1, <2>1 DEF HoldersAreFirst, WaitersAreQueued, AcquiredInOrder
  <2>4. QueuedWithReason' /\ QueuedOnce'
    BY <1>1, <2>1 DEF QueuedWithReason, QueuedOnce
  <2>5. QED
    BY <2>2, <2>3, <2>4
<1>2. CASE names # {}
  <2>1. PICK q \in names : Comes(q, names) /\ queue' = [queue EXCEPT ![q] = Append(@, c)]
    BY <1>2 DEF Proceed
  <2>2. pc' = [pc EXCEPT ![c] = "acquiring"]
    BY <1>2 DEF Proceed
  <2>3. /\ q \in Resources
        /\ queue'[q] \in Seq(Callers)
        /\ Len(queue'[q]) = Len(queue[q]) + 1
        /\ queue'[q][Len(queue[q]) + 1] = c
        /\ \A i \in 1..Len(queue[q]) : queue'[q][i] = queue[q][i]
        /\ queue[q] # <<>> => Head(queue'[q]) = Head(queue[q])
        /\ \A r \in Resources \ {q} : queue'[r] = queue[r]
    BY <2>1
  <2>4. TypeOK'
    BY <1>2, <2>1, <2>2
  <2>5. HoldersAreFirst'
    <3>1. ASSUME NEW d \in Callers, NEW r \in held'[d]
          PROVE  r \in Resources /\ queue[r] # <<>> /\ Head(queue[r]) = d
      BY DEF HoldersAreFirst
    <3>2. ASSUME NEW r \in Resources, queue[r] # <<>>
          PROVE  queue'[r] # <<>> /\ Head(queue'[r]) = Head(queue[r])
      BY <2>3, <3>2
    <3>3. QED
      BY <3>1, <3>2 DEF HoldersAreFirst
  <2>6. WaitersAreQueued'
    <3>1. ASSUME NEW d \in Callers, d # c, pc'[d] = "acquiring"
          PROVE  \E r \in want'[d] : /\ Comes(r, want'[d])
                                     /\ \E i \in 1..Len(queue'[r]) : queue'[r][i] = d
      <4>1. PICK r \in want[d] :
              Comes(r, want[d]) /\ \E i \in 1..Len(queue[r]) : queue[r][i] = d
        BY <2>2, <3>1 DEF WaitersAreQueued
      <4>2. \E i \in 1..Len(queue'[r]) : queue'[r][i] = d
        BY <2>3, <4>1
      <4>3. QED
        BY <3>1, <4>1, <4>2
    <3>2. Comes(q, want'[c]) /\ Len(queue[q]) + 1 \in 1..Len(queue'[q])
      BY <2>1, <2>3
    <3>3. QED
      BY <2>1, <2>3, <3>1, <3>2 DEF WaitersAreQueued
  <2>7. QueuedWithReason'
    BY <2>1, <2>2, <2>3 DEF QueuedWithReason
  <2>8. QueuedOnce'
    BY SMTT(30), <2>3 DEF QueuedOnce
  <2>9. AcquiredInOrder'
    BY DEF AcquiredInOrder
  <2>10. QED
    BY <2>4, <2>5, <2>6, <2>7, <2>8, <2>9
<1>3. QED
  BY <1>1, <1>2

\* run() up to its first await preserves the inductive invariant.
LEMMA CallMutex == ASSUME MutexInv, NEW c \in Callers, Call(c) PROVE MutexInv'
<1>1. PICK names \in Requests : want' = [want EXCEPT ![c] = names] /\ Proceed(c, names)
  BY DEF Call
<1>2. names \in SUBSET Resources
  BY RequestsAssumption
<1>3. held[c] = {} /\ want[c] = {} /\ pc[c] = "idle"
  BY DEF Call, MutexInv, TypeOK
<1>4. held' = [held EXCEPT ![c] = @ \cup {}]
  BY DEF Call, MutexInv, TypeOK
<1>5. \A r \in Resources : \A i \in 1..Len(queue[r]) : queue[r][i] # c
  BY <1>3 DEF MutexInv, QueuedWithReason
<1>6. names # {} => pc'[c] = "acquiring"
  BY <1>1 DEF Proceed, MutexInv, TypeOK
<1>7. QED
  BY <1>1, <1>2, <1>3, <1>4, <1>5, <1>6, JoinMutex

\* A grant preserves the inductive invariant.
LEMMA GrantedMutex == ASSUME MutexInv, NEW c \in Callers, Granted(c) PROVE MutexInv'
<1> USE DEF MutexInv
<1>1. PICK r \in want[c] : /\ Comes(r, want[c])
                           /\ Head(queue[r]) = c
                           /\ held' = [held EXCEPT ![c] = @ \cup {r}]
                           /\ want' = [want EXCEPT ![c] = @ \ {r}]
                           /\ Proceed(c, want[c] \ {r})
  BY DEF Granted
<1> DEFINE names == want[c] \ {r}
<1>2. r \in Resources /\ names \in SUBSET Resources /\ pc[c] = "acquiring"
  BY <1>1 DEF Granted, TypeOK
<1>3. queue[r] # <<>>
  <2>1. PICK q \in want[c] : Comes(q, want[c]) /\ \E i \in 1..Len(queue[q]) : queue[q][i] = c
    BY <1>2 DEF WaitersAreQueued
  <2>2. q = r
    BY <1>1, <2>1, ComesOnce DEF TypeOK
  <2>3. QED
    BY <1>2, <2>1, <2>2 DEF TypeOK
<1>4. \A h \in held[c] \cup {r}, w \in names : h < w
  BY <1>1, <1>2, ResourceCountAssumption DEF AcquiredInOrder, Comes, Resources, TypeOK
<1>5. \A q \in Resources : \A i \in 1..Len(queue[q]) : queue[q][i] = c => q \in held[c] \cup {r}
  <2>1. ASSUME NEW q \in want[c], Comes(q, want[c]) PROVE q = r
    BY <1>1, <2>1, ComesOnce DEF TypeOK
  <2>2. ASSUME NEW q \in Resources, Comes(q, want[c]) PROVE q = r
    BY <2>1, <2>2 DEF Comes
  <2>3. QED
    BY <2>2 DEF QueuedWithReason
<1>6. \A q \in names : \A i \in 1..Len(queue[q]) : queue[q][i] # c
  BY <1>2, <1>4, <1>5, ResourceCountAssumption DEF Resources
<1>7. names # {} => pc'[c] = "acquiring"
  BY <1>1, <1>2 DEF Proceed, TypeOK
<1>8. want' = [want EXCEPT ![c] = names] /\ held' = [held EXCEPT ![c] = @ \cup {r}]
  BY <1>1
<1>9. {r} \in SUBSET Resources /\ \A q \in {r} : queue[q] # <<>> /\ Head(queue[q]) = c
  BY <1>1, <1>2, <1>3
<1>10. Proceed(c, names)
  BY <1>1
<1> HIDE DEF names
<1>11. QED
  BY <1>2, <1>4, <1>5, <1>6, <1>7, <1>8, <1>9, <1>10, JoinMutex

\* Releasing everything at once preserves the inductive invariant: the queues
\* of the released names lose their first member, the caller itself.
LEMMA FinishMutex == ASSUME MutexInv, NEW c \in Callers, Finish(c) PROVE MutexInv'
<1> USE DEF MutexInv, TypeOK, Finish
<1>1. \A r \in held[c] : /\ r \in Resources
                         /\ queue[r] # <<>> /\ queue[r][1] = c
                         /\ Len(queue'[r]) = Len(queue[r]) - 1
                         /\ \A i \in 1..Len(queue'[r]) : queue'[r][i] = queue[r][i + 1]
  BY DEF HoldersAreFirst
<1>2. \A r \in Resources \ held[c] : queue'[r] = queue[r]
  OBVIOUS
<1>3. \A d \in Callers \ {c} : held'[d] = held[d] /\ pc'[d] = pc[d] /\ want'[d] = want[d]
  OBVIOUS
<1>4. held'[c] = {} /\ pc'[c] = "idle" /\ want'[c] = {}
  OBVIOUS
<1>5. TypeOK'
  <2>1. ASSUME NEW r \in Resources PROVE queue'[r] \in Seq(Callers)
    <3>1. CASE r \in held[c]
      <4>1. queue'[r] = Tail(queue[r]) /\ queue[r] \in Seq(Callers) /\ queue[r] # <<>>
        BY <1>1, <3>1
      <4>2. QED
        BY <4>1
    <3>2. CASE r \notin held[c]
      BY <1>2, <3>2
    <3>3. QED
      BY <3>1, <3>2
  <2>2. queue' = [r \in Resources |-> queue'[r]]
    OBVIOUS
  <2>3. queue' \in [Resources -> Seq(Callers)]
    BY <2>1, <2>2
  <2>4. QED
    BY <1>3, <1>4, <2>3
<1> HIDE DEF Finish
<1>6. HoldersAreFirst'
  <2>1. ASSUME NEW d \in Callers \ {c}, NEW r \in held[d] PROVE r \notin held[c]
    BY <1>1 DEF HoldersAreFirst
  <2>2. QED
    BY <1>2, <1>3, <1>4, <2>1 DEF HoldersAreFirst
<1>7. WaitersAreQueued'
  <2>1. ASSUME NEW d \in Callers \ {c}, pc[d] = "acquiring"
        PROVE  \E r \in want[d] : /\ Comes(r, want[d])
                                  /\ \E i \in 1..Len(queue'[r]) : queue'[r][i] = d
    <3>1. PICK r \in want[d] : Comes(r, want[d]) /\ \E i \in 1..Len(queue[r]) : queue[r][i] = d
      BY <2>1 DEF WaitersAreQueued
    <3>2. CASE r \notin held[c]
      BY <1>2, <3>1, <3>2
    <3>3. CASE r \in held[c]
      <4>1. PICK i \in 1..Len(queue[r]) : queue[r][i] = d
        BY <3>1
      <4>2. i # 1
        BY <1>1, <3>3, <4>1
      <4>3. Len(queue[r]) \in Nat /\ Len(queue'[r]) = Len(queue[r]) - 1
        BY <1>1, <3>3
      <4>4. i - 1 \in 1..Len(queue'[r]) /\ (i - 1) + 1 = i
        BY <4>1, <4>2, <4>3
      <4>5. queue'[r][i - 1] = queue[r][(i - 1) + 1]
        BY ONLY <1>1, <3>3, <4>4
      <4>6. QED
        BY <3>1, <4>1, <4>4, <4>5
    <3>4. QED
      BY <3>2, <3>3
  <2>2. ASSUME NEW d \in Callers, pc'[d] = "acquiring"
        PROVE  d \in Callers \ {c} /\ pc[d] = "acquiring" /\ want'[d] = want[d]
    BY <1>3, <1>4, <2>2
  <2>3. QED
    BY SMTT(30), <2>1, <2>2 DEF WaitersAreQueued
<1>8. QueuedWithReason'
  <2>1. ASSUME NEW r \in Resources, NEW i \in 1..Len(queue'[r])
        PROVE  \E j \in 1..Len(queue[r]) : queue'[r][i] = queue[r][j] /\ queue[r][j] # c
    <3>1. CASE r \in held[c]
      <4>1. i + 1 \in 1..Len(queue[r]) /\ 1 \in 1..Len(queue[r]) /\ i + 1 # 1
        BY <1>1, <2>1, <3>1
      <4>2. queue[r][i + 1] # c /\ queue'[r][i] = queue[r][i + 1]
        BY <1>1, <2>1, <3>1, <4>1 DEF QueuedOnce
      <4>3. QED
        BY <4>1, <4>2
    <3>2. CASE r \notin held[c]
      <4>1. pc[c] = "running"
        BY DEF Finish
      <4>2. QED
        BY <1>2, <2>1, <3>2, <4>1 DEF QueuedWithReason
    <3>3. QED
      BY <3>1, <3>2
  <2>2. ASSUME NEW r \in Resources, NEW i \in 1..Len(queue'[r])
        PROVE  \/ r \in held'[queue'[r][i]]
               \/ pc'[queue'[r][i]] = "acquiring" /\ Comes(r, want'[queue'[r][i]])
    <3>1. PICK j \in 1..Len(queue[r]) : queue'[r][i] = queue[r][j] /\ queue[r][j] # c
      BY <2>1, <2>2
    <3>2. queue[r][j] \in Callers \ {c}
      BY <3>1
    <3>3. QED
      BY <1>3, <3>1, <3>2 DEF QueuedWithReason
  <2>3. QED
    BY <2>2 DEF QueuedWithReason
<1>9. QueuedOnce'
  <2>1. ASSUME NEW r \in Resources, NEW i \in 1..Len(queue'[r]), NEW j \in 1..Len(queue'[r]),
               queue'[r][i] = queue'[r][j]
        PROVE  i = j
    <3>1. CASE r \in held[c]
      <4>1. i + 1 \in 1..Len(queue[r]) /\ j + 1 \in 1..Len(queue[r])
        BY <1>1, <3>1
      <4>2. queue[r][i + 1] = queue[r][j + 1]
        BY <1>1, <2>1, <3>1
      <4>3. QED
        BY <4>1, <4>2 DEF QueuedOnce
    <3>2. CASE r \notin held[c]
      BY <1>2, <2>1, <3>2 DEF QueuedOnce
    <3>3. QED
      BY <3>1, <3>2
  <2>2. QED
    BY <2>1 DEF QueuedOnce
<1>10. AcquiredInOrder'
  BY <1>3, <1>4 DEF AcquiredInOrder
<1>11. QED
  BY <1>5, <1>6, <1>7, <1>8, <1>9, <1>10

\* The inductive invariant holds of every behaviour of the mutex.
THEOREM MutexInvariance == Safety => []MutexInv
<1>1. MutexInv /\ [Next]_vars => MutexInv'
  <2> SUFFICES ASSUME MutexInv, [Next]_vars PROVE MutexInv'
    OBVIOUS
  <2>1. CASE Next
    BY <2>1, CallMutex, GrantedMutex, FinishMutex DEF Next
  <2>2. CASE UNCHANGED vars
    BY <2>2 DEF vars, MutexInv, TypeOK, HoldersAreFirst, WaitersAreQueued, QueuedWithReason,
                QueuedOnce, AcquiredInOrder
  <2>3. QED
    BY <2>1, <2>2
<1>2. QED
  BY <1>1, MutexInit, PTL DEF Safety

\* The variables keep their types, and an idle caller has released everything.
THEOREM CallersTyped == Spec => []TypeOK
<1>1. MutexInv => TypeOK
  BY DEF MutexInv
<1>2. QED
  BY <1>1, MutexInvariance, PTL DEF Spec

\* Mutations that name a resource in common are serialized, whichever resource
\* sets run() is called with: two callers cannot both be first in one queue.
THEOREM Serialized == Spec => []MutualExclusion
<1>1. MutexInv => MutualExclusion
  BY DEF MutexInv, HoldersAreFirst, MutualExclusion
<1>2. QED
  BY <1>1, MutexInvariance, PTL DEF Spec

\* Sorting the names rules deadlock out.  Take the highest rank anybody queues
\* for: whoever is first in that queue holds it or waits for it, waits for
\* nothing higher, and so either runs or is about to be granted it.
THEOREM DeadlockFree == Spec => []NoDeadlock
<1>1. MutexInv => NoDeadlock
  <2> SUFFICES ASSUME MutexInv, NEW c \in Callers, pc[c] = "acquiring"
               PROVE  \E d \in Callers :
                        \/ pc[d] = "running"
                        \/ \E r \in want[d] : Comes(r, want[d]) /\ Head(queue[r]) = d
    BY DEF NoDeadlock
  <2> USE DEF MutexInv, TypeOK
  <2> DEFINE Busy == {r \in Resources : queue[r] # <<>>}
  <2>1. Busy # {}
    BY DEF WaitersAreQueued
  <2>2. PICK m \in Busy : \A r \in Busy : r <= m
    <3> HIDE DEF Busy
    <3>1. Busy \in SUBSET Resources
      BY DEF Busy
    <3>2. QED
      BY <2>1, <3>1, HighestRank
  <2> DEFINE d == queue[m][1]
  <2>3. d \in Callers /\ Head(queue[m]) = d /\ 1 \in 1..Len(queue[m])
    BY <2>2
  <2>4. m \in held[d] \/ (pc[d] = "acquiring" /\ Comes(m, want[d]))
    BY <2>2, <2>3 DEF QueuedWithReason
  <2>5. CASE pc[d] = "acquiring" /\ Comes(m, want[d])
    BY <2>3, <2>5 DEF Comes
  <2>6. CASE m \in held[d]
    <3>1. pc[d] # "idle"
      BY <2>3, <2>6
    <3>2. ASSUME pc[d] = "acquiring" PROVE FALSE
      <4>1. PICK r \in want[d] : \E i \in 1..Len(queue[r]) : queue[r][i] = d
        BY <2>3, <3>2 DEF WaitersAreQueued
      <4>2. r \in Busy
        BY <2>3, <4>1
      <4>3. m < r /\ r <= m
        BY <2>2, <2>3, <2>6, <4>1, <4>2 DEF AcquiredInOrder
      <4>4. QED
        BY <2>2, <4>2, <4>3, ResourceCountAssumption DEF Resources
    <3>3. QED
      BY <2>3, <3>1, <3>2
  <2>7. QED
    BY <2>4, <2>5, <2>6
<1>2. QED
  BY <1>1, MutexInvariance, PTL DEF Spec

-----------------------------------------------------------------------------
(***************************************************************************)
(* server/index.ts, clean-close.ts and session-registry.ts (Shutdown)      *)
(***************************************************************************)

\* The WebSocketServer refuses handshakes from the close of the network on.
NetworkStaysClosed == phase \in {"network", "cleaning", "exited"} => wss = "closing"

\* The registry keeps no item once it shuts down: what comes late is disposed of.
NoItemComesLate == registry # "active" => End!Items = {}

\* Only a drain under way waits for disposals.
DrainIsAwaited == awaited # {} => registry = "shutting-down"

\* The inductive invariant: the checked property, and what it needs.
EndInv ==
  /\ End!TypeOK
  /\ NetworkStaysClosed
  /\ NoItemComesLate
  /\ DrainIsAwaited
  /\ End!ShutdownIsClean

\* The server serves, and nothing is registered.
LEMMA EndInit == End!Init => EndInv
BY DEF End!Init, EndInv, End!TypeOK, NetworkStaysClosed, NoItemComesLate, DrainIsAwaited,
    End!ShutdownIsClean, End!NobodyIsServed, End!NothingIsLeft, End!Items

\* Browsers and calls come, go and open resources whenever they like.
LEMMA EndClients ==
  ASSUME EndInv,
         \/ \E b \in Browsers : End!Upgrade(b) \/ End!Attach(b) \/ End!Gone(b)
         \/ \E c \in Calls : End!Accept(c) \/ End!Finish(c)
         \/ \E r \in Registered : End!Open(r) \/ End!Disposed(r)
  PROVE  EndInv'
<1> USE DEF EndInv, End!TypeOK, NetworkStaysClosed, NoItemComesLate, DrainIsAwaited,
    End!ShutdownIsClean, End!NobodyIsServed, End!NothingIsLeft, End!Items, End!resources
<1>1. ASSUME NEW b \in Browsers, End!Upgrade(b) PROVE EndInv'
  BY <1>1 DEF End!Upgrade
<1>2. ASSUME NEW b \in Browsers, End!Attach(b) PROVE EndInv'
  BY <1>2 DEF End!Attach
<1>3. ASSUME NEW b \in Browsers, End!Gone(b) PROVE EndInv'
  BY <1>3 DEF End!Gone
<1>4. ASSUME NEW c \in Calls, End!Accept(c) PROVE EndInv'
  BY <1>4 DEF End!Accept
<1>5. ASSUME NEW c \in Calls, End!Finish(c) PROVE EndInv'
  BY <1>5 DEF End!Finish
<1>6. ASSUME NEW r \in Registered, End!Open(r) PROVE EndInv'
  BY <1>6 DEF End!Open, End!Register, End!network
<1>7. ASSUME NEW r \in Registered, End!Disposed(r) PROVE EndInv'
  BY <1>7 DEF End!Disposed, End!network
<1>8. QED
  BY <1>1, <1>2, <1>3, <1>4, <1>5, <1>6, <1>7

\* requestShutdown(), the clean close and its deadlines preserve the inductive invariant.
LEMMA EndShutdown ==
  ASSUME EndInv,
         \/ End!RequestShutdown \/ End!CloseNetwork \/ End!NetworkClosed
         \/ End!TerminateNetwork \/ End!CleanStep \/ End!Drain \/ End!DrainDeadline
         \/ End!CleanDone \/ End!CleanDeadline
  PROVE  EndInv'
<1> USE DEF EndInv, End!TypeOK, NetworkStaysClosed, NoItemComesLate, DrainIsAwaited,
    End!ShutdownIsClean, End!NobodyIsServed, End!NothingIsLeft, End!Items, End!resources,
    End!network
<1>1. CASE End!RequestShutdown
  BY <1>1 DEF End!RequestShutdown
<1>2. CASE End!CloseNetwork
  BY <1>2 DEF End!CloseNetwork
<1>3. CASE End!NetworkClosed
  BY <1>3 DEF End!NetworkClosed
<1>4. CASE End!TerminateNetwork
  BY <1>4 DEF End!TerminateNetwork
<1>5. CASE End!CleanStep
  BY <1>5 DEF End!CleanStep
<1>6. CASE End!Drain
  BY <1>6 DEF End!Drain, End!Disposing
<1>7. CASE End!DrainDeadline
  BY <1>7 DEF End!DrainDeadline
<1>8. CASE End!CleanDone \/ End!CleanDeadline
  BY <1>8 DEF End!CleanDone, End!CleanDeadline
<1>9. QED
  BY <1>1, <1>2, <1>3, <1>4, <1>5, <1>6, <1>7, <1>8

\* Every step preserves the inductive invariant.
LEMMA EndNext == EndInv /\ [End!Next]_End!vars => EndInv'
<1>1. EndInv /\ UNCHANGED End!vars => EndInv'
  BY DEF End!vars, EndInv, End!TypeOK, NetworkStaysClosed, NoItemComesLate, DrainIsAwaited,
      End!ShutdownIsClean, End!NobodyIsServed, End!NothingIsLeft, End!Items
<1>2. QED
  BY <1>1, EndClients, EndShutdown DEF End!Next

\* The inductive invariant holds of the end of the process, fair or not.
THEOREM EndInvariance == End!Safety => []EndInv
BY EndInit, EndNext, PTL DEF End!Safety

-----------------------------------------------------------------------------
(***************************************************************************)
(* scripts/update.sh                                                       *)
(***************************************************************************)

\* What is in the application's folder and in the backup when the script comes to
\* its next step: the folder is touched only while the backup exists.
FolderOfStep ==
  /\ scriptPc \in {"check", "stop", "wait", "move"} => folder = "old" /\ backup = FALSE
  /\ scriptPc = "copy" => folder = "none" /\ backup = TRUE
  /\ scriptPc \in {"carry", "modules", "build", "quarantine"} => folder = "new" /\ backup = TRUE
  /\ scriptPc = "remove" => folder = "built" /\ backup = TRUE
  /\ scriptPc = "fail" =>
       (folder = "old" /\ backup = FALSE) \/ (folder = "new" /\ backup = TRUE)
  /\ scriptPc = "put back" => folder \in {"none", "new"} /\ backup = TRUE

\* Whoever gets past "carry" has the connections.
ConnectionsAreCarried ==
  /\ scriptPc \in {"check", "stop", "wait", "move", "copy"} => Script!Required \in carrying
  /\ scriptPc = "carry" => Script!Required \in carrying \cup data
  /\ scriptPc \in {"modules", "build", "quarantine", "remove"} => Script!Required \in data

\* Nothing runs while the folder is touched.
StoppedWhileTouched ==
  /\ scriptPc \in {"check", "stop", "wait"} => running \in {"old", "none"}
  /\ scriptPc \in {"move", "copy", "carry", "modules", "build", "quarantine", "remove",
                   "put back"} => running = "none"
  /\ scriptPc = "fail" => running = "none" \/ (running = "old" /\ folder = "old")

\* At most one build follows the quarantine.
BuildsAreBounded ==
  /\ scriptPc \in {"check", "stop", "wait", "move", "copy", "carry", "modules"} => tries = 0
  /\ scriptPc = "build" => tries < 2
  /\ scriptPc = "quarantine" => tries = 1

\* The inductive invariant of the script: the checked property, and what it needs.
ScriptInv ==
  /\ Script!TypeOK
  /\ FolderOfStep
  /\ ConnectionsAreCarried
  /\ StoppedWhileTouched
  /\ BuildsAreBounded
  /\ Script!UpdateIsRecoverable

\* The script starts with the installation untouched.
LEMMA ScriptInit == Script!Init => ScriptInv
<1> SUFFICES ASSUME Script!Init PROVE ScriptInv
  OBVIOUS
<1> USE DEF Script!Init, Script!Data, Script!Required
<1>1. Script!TypeOK
  <2>1. data \subseteq Script!Data /\ carrying \subseteq Script!Data
    OBVIOUS
  <2>2. restored \subseteq Custom /\ apart \subseteq Custom /\ tries \in 0..2
    OBVIOUS
  <2>3. QED
    BY ONLY <2>1, <2>2, Script!Init DEF Script!Init, Script!TypeOK
<1>2. FolderOfStep /\ ConnectionsAreCarried /\ StoppedWhileTouched /\ BuildsAreBounded
  BY DEF FolderOfStep, ConnectionsAreCarried, StoppedWhileTouched, BuildsAreBounded
<1>3. Script!UpdateIsRecoverable
  BY DEF Script!UpdateIsRecoverable, Script!Recoverable, Script!RunsWhatIsThere
<1>4. QED
  BY <1>1, <1>2, <1>3 DEF ScriptInv

\* Every command of the script, failing or not, and the end of the power preserve the
\* inductive invariant.
LEMMA ScriptNext == ScriptInv /\ [Script!Next]_Script!vars => ScriptInv'
<1> SUFFICES ASSUME ScriptInv, [Script!Next]_Script!vars PROVE ScriptInv'
  OBVIOUS
<1> USE DEF ScriptInv, Script!TypeOK, FolderOfStep, ConnectionsAreCarried,
    StoppedWhileTouched, BuildsAreBounded, Script!UpdateIsRecoverable, Script!Recoverable,
    Script!RunsWhatIsThere
<1>1. CASE Script!Check
  BY <1>1 DEF Script!Check
<1>2. CASE Script!Stop
  BY <1>2 DEF Script!Stop
<1>3. CASE Script!Wait
  BY <1>3 DEF Script!Wait
<1>4. CASE Script!Move
  <2> USE <1>4 DEF Script!Move
  <2>1. Script!TypeOK'
    OBVIOUS
  <2>2. FolderOfStep' /\ ConnectionsAreCarried'
    OBVIOUS
  <2>3. StoppedWhileTouched' /\ BuildsAreBounded'
    OBVIOUS
  <2>4. Script!UpdateIsRecoverable'
    OBVIOUS
  <2>5. QED
    BY <2>1, <2>2, <2>3, <2>4
<1>5. CASE Script!Copy
  <2> USE <1>5 DEF Script!Copy
  <2>1. Script!TypeOK'
    OBVIOUS
  <2>2. FolderOfStep' /\ ConnectionsAreCarried'
    OBVIOUS
  <2>3. StoppedWhileTouched' /\ BuildsAreBounded'
    OBVIOUS
  <2>4. Script!UpdateIsRecoverable'
    OBVIOUS
  <2>5. QED
    BY <2>1, <2>2, <2>3, <2>4
<1>6. CASE Script!Modules
  BY <1>6 DEF Script!Modules
<1>7. CASE Script!Build
  <2> USE <1>7 DEF Script!Build
  <2>1. Script!TypeOK'
    <3>1. tries' \in 0..2
      OBVIOUS
    <3>2. QED
      BY <3>1
  <2>2. FolderOfStep' /\ ConnectionsAreCarried'
    OBVIOUS
  <2>3. StoppedWhileTouched' /\ BuildsAreBounded'
    OBVIOUS
  <2>4. Script!UpdateIsRecoverable'
    OBVIOUS
  <2>5. QED
    BY <2>1, <2>2, <2>3, <2>4
<1>8. CASE Script!Quarantine
  BY <1>8 DEF Script!Quarantine
<1>9. CASE Script!Remove
  BY <1>9 DEF Script!Remove
<1>10. CASE Script!Fail
  BY <1>10 DEF Script!Fail
<1>11. CASE Script!PutBack
  <2> USE <1>11 DEF Script!PutBack
  <2>1. Script!TypeOK'
    OBVIOUS
  <2>2. FolderOfStep' /\ ConnectionsAreCarried'
    OBVIOUS
  <2>3. StoppedWhileTouched' /\ BuildsAreBounded'
    OBVIOUS
  <2>4. Script!UpdateIsRecoverable'
    <3>1. backup' = TRUE \/ folder' \in {"old", "nested"}
      OBVIOUS
    <3>2. running' = "old" => folder' = "old"
      OBVIOUS
    <3>3. running' # "new"
      OBVIOUS
    <3>4. QED
      BY ONLY <3>1, <3>2, <3>3 DEF Script!UpdateIsRecoverable, Script!Recoverable,
          Script!RunsWhatIsThere
  <2>5. QED
    BY <2>1, <2>2, <2>3, <2>4
<1>12. CASE Script!PowerOff
  BY <1>12 DEF Script!PowerOff
<1>13. ASSUME NEW d \in Script!Data, Script!Carry(d) PROVE ScriptInv'
  BY <1>13 DEF Script!Carry
<1>14. CASE UNCHANGED Script!vars
  BY <1>14 DEF Script!vars
<1>15. QED
  BY <1>1, <1>2, <1>3, <1>4, <1>5, <1>6, <1>7, <1>8, <1>9, <1>10, <1>11, <1>12, <1>13,
     <1>14 DEF Script!Next, Script!Script

\* The inductive invariant of the script holds whatever fails.
THEOREM ScriptInvariance == Script!Safety => []ScriptInv
BY ScriptInit, ScriptNext, PTL DEF Script!Safety

-----------------------------------------------------------------------------
(***************************************************************************)
(* server/services/updater.ts                                              *)
(***************************************************************************)

\* Nothing is staged or digested but the current workspace, and that is the last one.
StagedIsCurrent ==
  /\ workspace \in {Update!None, made}
  /\ staged \in {Update!None, workspace} /\ digest \in {Update!None, workspace}

\* A check under way has a workspace and offers nothing, and nobody applies.
CheckIsAlone ==
  operation # "none" =>
    /\ updatePhase = "checking" /\ applying = "none"
    /\ staged = Update!None /\ digest = Update!None
    /\ workspace \in disk

\* What was confirmed stays so until the helper is launched on it.
ConfirmedStays ==
  applying = "launching" => made \notin altered /\ (close # "forced" => made \in disk)

\* A helper is the last thing that UpdaterService starts.
HelperIsLast == helper # Update!None => updatePhase = "applying" /\ Update!Free

\* The inductive invariant of the service: the checked property, and what it needs.
UpdateInv ==
  /\ Update!TypeOK
  /\ StagedIsCurrent
  /\ CheckIsAlone
  /\ ConfirmedStays
  /\ HelperIsLast
  /\ Update!UpdateIsSound

\* The service starts without a workspace.
LEMMA UpdateInit == Update!Init => UpdateInv
<1> SUFFICES ASSUME Update!Init PROVE UpdateInv
  OBVIOUS
<1>0. MaxWorkspaces \in Nat
  BY BoundsAssumption
<1> USE <1>0 DEF Update!Init, Update!None
<1>1. Update!TypeOK
  <2>1. /\ made \in 0..MaxWorkspaces
        /\ disk \subseteq Update!Workspaces /\ altered \subseteq Update!Workspaces
    OBVIOUS
  <2>2. QED
    BY ONLY <2>1, Update!Init, Update!None = 0 DEF Update!Init, Update!TypeOK
<1>2. StagedIsCurrent /\ CheckIsAlone /\ ConfirmedStays /\ HelperIsLast
  BY DEF StagedIsCurrent, CheckIsAlone, ConfirmedStays, HelperIsLast
<1>3. Update!UpdateIsSound
  BY DEF Update!UpdateIsSound, Update!ReadyIsWhole, Update!HelperIsServed,
      Update!CancelledIsQuiet
<1>4. QED
  BY <1>1, <1>2, <1>3 DEF UpdateInv

\* Every request, await and failure of the service preserves the inductive invariant.
LEMMA UpdateNext == UpdateInv /\ [Update!Next]_Update!vars => UpdateInv'
<1> SUFFICES ASSUME UpdateInv, [Update!Next]_Update!vars PROVE UpdateInv'
  OBVIOUS
<1>0. MaxWorkspaces \in Nat
  BY BoundsAssumption
<1> USE <1>0 DEF UpdateInv, Update!TypeOK, StagedIsCurrent, CheckIsAlone, ConfirmedStays,
    HelperIsLast, Update!UpdateIsSound, Update!ReadyIsWhole, Update!HelperIsServed,
    Update!CancelledIsQuiet, Update!None, Update!Workspaces, Update!Free
<1>1. ASSUME NEW stage \in {"downloading", "extracting"}, Update!Begin(stage) PROVE UpdateInv'
  <2> USE <1>1 DEF Update!Begin
  <2>1. Update!TypeOK'
    <3>1. made' \in 1..MaxWorkspaces /\ made' \in 0..MaxWorkspaces
      OBVIOUS
    <3>2. disk' \subseteq Update!Workspaces /\ workspace' \in Update!Workspaces
      BY <3>1
    <3>3. /\ operation' \in {"downloading", "extracting"}
          /\ checkAborted' = FALSE /\ updatePhase' = "checking"
      OBVIOUS
    <3>4. QED
      BY <3>1, <3>2, <3>3
  <2>2. StagedIsCurrent' /\ CheckIsAlone'
    OBVIOUS
  <2>3. ConfirmedStays' /\ HelperIsLast'
    OBVIOUS
  <2>4. Update!UpdateIsSound'
    OBVIOUS
  <2>5. QED
    BY <2>1, <2>2, <2>3, <2>4
<1>2. CASE Update!CannotBegin
  <2> USE <1>2 DEF Update!CannotBegin, Update!Discard, Update!Keep
  <2>1. Update!TypeOK'
    OBVIOUS
  <2>2. StagedIsCurrent' /\ CheckIsAlone'
    OBVIOUS
  <2>3. ConfirmedStays' /\ HelperIsLast'
    OBVIOUS
  <2>4. Update!UpdateIsSound'
    OBVIOUS
  <2>5. QED
    BY <2>1, <2>2, <2>3, <2>4
<1>3. CASE Update!Advance
  BY <1>3 DEF Update!Advance, Update!NextStage
<1>4. CASE Update!Failed
  BY <1>4 DEF Update!Failed, Update!DiscardQuietly, Update!Discard, Update!Keep
<1>5. CASE Update!Ready
  BY <1>5 DEF Update!Ready
<1>6. CASE Update!Overtaken
  BY <1>6 DEF Update!Overtaken, Update!CancelEnds, Update!Discard
<1>7. CASE Update!Alter
  BY <1>7 DEF Update!Alter
<1>8. CASE Update!Cancel
  BY <1>8 DEF Update!Cancel, Update!CancelEnds, Update!Discard
<1>9. CASE Update!Apply
  BY <1>9 DEF Update!Apply
<1>10. CASE Update!Confirmed
  BY <1>10 DEF Update!Confirmed
<1>11. CASE Update!NotApplied
  BY <1>11 DEF Update!NotApplied
<1>12. CASE Update!Launched
  BY <1>12 DEF Update!Launched
<1>13. CASE Update!CloseCancels
  <2> USE <1>13 DEF Update!CloseCancels, Update!CancelEnds, Update!Discard
  <2>1. Update!TypeOK'
    OBVIOUS
  <2>2. StagedIsCurrent' /\ CheckIsAlone'
    OBVIOUS
  <2>3. ConfirmedStays' /\ HelperIsLast'
    OBVIOUS
  <2>4. Update!UpdateIsSound'
    OBVIOUS
  <2>5. QED
    BY <2>1, <2>2, <2>3, <2>4
<1>14. CASE UNCHANGED Update!vars
  BY <1>14 DEF Update!vars
<1>15. QED
  BY <1>1, <1>2, <1>3, <1>4, <1>5, <1>6, <1>7, <1>8, <1>9, <1>10, <1>11, <1>12, <1>13,
     <1>14 DEF Update!Next, Update!Check, Update!CheckFile

\* The inductive invariant of the service holds whatever fails or is cancelled.
THEOREM UpdateInvariance == Update!Safety => []UpdateInv
<1>1. Update!Init => UpdateInv
  BY UpdateInit
<1>2. UpdateInv /\ [Update!Next]_Update!vars => UpdateInv'
  BY UpdateNext
<1>3. QED
  BY <1>1, <1>2, PTL DEF Update!Safety

-----------------------------------------------------------------------------
(***************************************************************************)
(* What the host hands to the instances of a module (ModuleContext)        *)
(***************************************************************************)

\* The inductive invariant is the property itself, with the types.
ContextInv == Context!TypeOK /\ Context!ContextAgrees

\* An instance is told from the others of its machine by its number.
LEMMA LivesDiffer ==
  ASSUME NEW l \in Context!Lives
  PROVE  /\ Context!MachineOf(l) \in Targets /\ Context!NumberOf(l) \in 1..MaxLives
         /\ l = <<Context!MachineOf(l), Context!NumberOf(l)>>
BY DEF Context!Lives, Context!MachineOf, Context!NumberOf

\* What an instance asks for while it is not stopped, up to its end.
LEMMA ContextUse ==
  ASSUME ContextInv, NEW l \in Context!Lives, NEW use \in Context!Uses,
         \/ Context!Activate(l, use) \/ Context!ActivateFails(l, use)
         \/ Context!Work(l, use) \/ Context!Deactivate(l, use)
  PROVE  ContextInv'
<1> USE BoundsAssumption, LivesDiffer DEF ContextInv, Context!TypeOK, Context!ContextAgrees,
    Context!NothingOutlives, Context!TrackedRun, Context!Free, Context!Allowed,
    Context!Handled, Context!Opening, Context!Of, Context!Release, Context!Uses, Context!Idle,
    Context!None
<1>1. CASE Context!Activate(l, use)
  <2> USE <1>1 DEF Context!Activate
  <2>1. Context!TypeOK'
    OBVIOUS
  <2>2. Context!NothingOutlives'
    OBVIOUS
  <2>3. Context!TrackedRun'
    OBVIOUS
  <2>4. QED
    BY <2>1, <2>2, <2>3
<1>2. CASE Context!ActivateFails(l, use)
  BY <1>2, SMTT(30) DEF Context!ActivateFails
<1>3. CASE Context!Work(l, use)
  BY <1>3, SMTT(30) DEF Context!Work
<1>4. CASE Context!Deactivate(l, use)
  <2> USE <1>4 DEF Context!Deactivate
  <2>1. Context!TypeOK'
    OBVIOUS
  <2>2. Context!NothingOutlives'
    OBVIOUS
  <2>3. Context!TrackedRun'
    OBVIOUS
  <2>4. QED
    BY <2>1, <2>2, <2>3
<1>5. QED
  BY <1>1, <1>2, <1>3, <1>4

\* What becomes of a stream, whoever asked for it.
LEMMA ContextStream ==
  ASSUME ContextInv, NEW s \in Streams,
         Context!Kill(s) \/ Context!Opened(s) \/ Context!Refused(s) \/ Context!Exit(s)
  PROVE  ContextInv'
<1> USE DEF ContextInv, Context!TypeOK, Context!ContextAgrees, Context!NothingOutlives,
    Context!TrackedRun, Context!Idle
<1>1. CASE Context!Kill(s)
  BY <1>1 DEF Context!Kill
<1>2. CASE Context!Opened(s)
  BY <1>2 DEF Context!Opened
<1>3. CASE Context!Refused(s)
  BY <1>3 DEF Context!Refused
<1>4. CASE Context!Exit(s)
  BY <1>4 DEF Context!Exit
<1>5. QED
  BY <1>1, <1>2, <1>3, <1>4

\* The invariant holds of the contexts, whatever the executor does.
THEOREM ContextInvariance == Context!Init /\ [][Context!Next]_Context!vars => []ContextInv
<1>1. Context!Init => ContextInv
  BY BoundsAssumption DEF Context!Init, ContextInv, Context!TypeOK, Context!ContextAgrees,
      Context!NothingOutlives, Context!TrackedRun, Context!Idle, Context!None
<1>2. ContextInv /\ UNCHANGED Context!vars => ContextInv'
  BY DEF Context!vars, ContextInv, Context!TypeOK, Context!ContextAgrees,
      Context!NothingOutlives, Context!TrackedRun
<1>3. ContextInv /\ [Context!Next]_Context!vars => ContextInv'
  BY <1>2, ContextUse, ContextStream DEF Context!Next
<1>4. QED
  BY <1>1, <1>3, PTL

-----------------------------------------------------------------------------
(***************************************************************************)
(* The pool of the machines.                                               *)
(***************************************************************************)

\* The constants that bound the pool are natural numbers.
PoolBounds == MaxContexts \in Nat /\ MaxConnRequests \in Nat

\* A pooled context is filed under the id it was created for.
PoolIsKeyed ==
  \A id \in Targets : machines[id] # Pool!None => owner[machines[id]] = id

\* Only the connect that created a context may find it in the pool unconnected.
GhostIsAttempted ==
  \A id \in Targets : machines[id] # Pool!None /\ machines[id] \notin poolLink =>
    /\ poolOp.kind = "connect"
    /\ poolOp.ctx = machines[id] /\ poolOp.fresh
    /\ poolOp.stage \in {"attempt", "cancelled"}

\* A connect works on a context that was created.
AttemptIsCreated == poolOp.kind = "connect" => poolOp.ctx \in Pool!Created

\* disconnectAll() cancels an attempt only while the server closes.
CancelledIsClosed ==
  poolOp.kind = "connect" /\ poolOp.stage = "cancelled" => poolServer = "closed"

\* The services poller never runs without a connected machine.
ServicesHaveMachines == servicesPolling => Pool!Values(machines, poolLink) # {}

\* What runs on behalf of the machines is as the pool and the links say, except
\* between a teardown and the applyPollers() that follows it.
PoolIsSteady ==
  \/ poolOp = Pool!Idle
  \/ poolOp.kind = "connect" /\ poolOp.stage \in {"attempt", "applying"}

SteadyAreServed ==
  poolServer = "open" /\ PoolIsSteady =>
    /\ Pool!Values(machines, poolLink) \subseteq collecting
    /\ \A id \in Targets : machines[id] \in poolLink => id \notin suspended
    /\ servicesPolling <=> Pool!Values(machines, poolLink) # {}

\* The inductive invariant: the checked properties, and what they need.
PoolInv ==
  /\ Pool!TypeOK
  /\ PoolIsKeyed
  /\ GhostIsAttempted
  /\ AttemptIsCreated
  /\ CancelledIsClosed
  /\ ServicesHaveMachines
  /\ SteadyAreServed
  /\ Pool!OnlyPooledCollect
  /\ Pool!PoolIsAnnounced
  /\ Pool!CloseIsQuiet

-----------------------------------------------------------------------------
\* What the type of op says of a connect, field by field.
LEMMA PoolOpTypes ==
  ASSUME poolOp \in Pool!Ops
  PROVE  /\ poolOp = Pool!Idle \/ poolOp.kind \in {"connect", "disconnect"}
         /\ poolOp.kind = "connect" =>
              /\ poolOp.ctx \in Pool!Contexts /\ poolOp.fresh \in BOOLEAN
              /\ poolOp.stage \in {"attempt", "cancelled", "committed", "applying"}
              /\ \A s \in {"cancelled", "committed", "applying"} :
                   /\ [poolOp EXCEPT !.stage = s] \in Pool!Ops
                   /\ [poolOp EXCEPT !.stage = s].kind = "connect"
                   /\ [poolOp EXCEPT !.stage = s].ctx = poolOp.ctx
                   /\ [poolOp EXCEPT !.stage = s].fresh = poolOp.fresh
                   /\ [poolOp EXCEPT !.stage = s].stage = s
         /\ poolOp = Pool!Idle => poolOp.kind = "idle"
BY DEF Pool!Ops, Pool!Idle

\* A waiting request names a machine.
LEMMA PoolQueueTypes ==
  ASSUME poolQueue \in Seq(Pool!PoolRequests), poolQueue # <<>>
  PROVE  Head(poolQueue).id \in Targets /\ Tail(poolQueue) \in Seq(Pool!PoolRequests)
<1>1. Head(poolQueue) \in Pool!PoolRequests /\ Tail(poolQueue) \in Seq(Pool!PoolRequests)
  OBVIOUS
<1>2. QED
  BY <1>1 DEF Pool!PoolRequests

\* The owner of a created context is a machine.
LEMMA PoolOwnerTypes ==
  ASSUME Pool!TypeOK, NEW S, S \subseteq Pool!Created
  PROVE  {owner[c] : c \in S} \subseteq Targets
BY DEF Pool!TypeOK, Pool!Created

\* No machine is pooled, nothing runs: the initial state.
LEMMA PoolInit == PoolBounds /\ Pool!Init => PoolInv
<1> SUFFICES ASSUME PoolBounds, Pool!Init PROVE PoolInv
  OBVIOUS
<1> USE DEF PoolBounds, Pool!Init, Pool!None, Pool!Idle
<1>1. Pool!Created = {} /\ Pool!Values(machines, poolLink) = {}
  BY DEF Pool!Created, Pool!Values
<1>2. poolOp.kind = "idle"
  OBVIOUS
<1>3. Pool!TypeOK
  <2>1. machines \in [Targets -> Pool!Created \cup {Pool!None}]
    OBVIOUS
  <2>2. /\ owner \in Seq(Targets) /\ Pool!Created \subseteq Pool!Contexts
        /\ poolQueue \in Seq(Pool!PoolRequests)
    BY <1>1
  <2>3. poolOp \in Pool!Ops
    BY DEF Pool!Ops
  <2>4. /\ received \in 0..MaxConnRequests
        /\ poolLink \subseteq Pool!Created /\ told \subseteq Pool!Created
    OBVIOUS
  <2>5. /\ collecting \subseteq Pool!Created /\ historyTimers \subseteq Pool!Created
        /\ suspended \subseteq Targets
    OBVIOUS
  <2>6. servicesPolling \in BOOLEAN /\ poolServer \in {"open", "closing", "closed"}
    OBVIOUS
  <2>7. QED
    BY ONLY <2>1, <2>2, <2>3, <2>4, <2>5, <2>6 DEF Pool!TypeOK
<1>4. PoolIsKeyed /\ GhostIsAttempted /\ AttemptIsCreated /\ CancelledIsClosed
  BY <1>2 DEF PoolIsKeyed, GhostIsAttempted, AttemptIsCreated, CancelledIsClosed
<1>5. ServicesHaveMachines /\ SteadyAreServed
  BY <1>1 DEF ServicesHaveMachines, SteadyAreServed
<1>6. Pool!OnlyPooledCollect /\ Pool!PoolIsAnnounced /\ Pool!CloseIsQuiet
  BY <1>1 DEF Pool!OnlyPooledCollect, Pool!PoolIsAnnounced, Pool!CloseIsQuiet
<1>7. QED
  BY <1>3, <1>4, <1>5, <1>6 DEF PoolInv

\* A request joins the queue: the pool does not change.
LEMMA PoolReceive == PoolBounds /\ PoolInv /\ Pool!Receive => PoolInv'
BY DEF PoolBounds, Pool!Receive, Pool!Serving, PoolInv, Pool!TypeOK, PoolIsKeyed,
    GhostIsAttempted, AttemptIsCreated, CancelledIsClosed, ServicesHaveMachines,
    SteadyAreServed, Pool!OnlyPooledCollect, Pool!PoolIsAnnounced, Pool!CloseIsQuiet,
    Pool!Created, PoolIsSteady, Pool!Values

\* MachinePool.connect() finds the context or creates one that nothing refers to yet.
LEMMA PoolStartConnect == PoolBounds /\ PoolInv /\ Pool!StartConnect => PoolInv'
<1> SUFFICES ASSUME PoolBounds, PoolInv, Pool!StartConnect PROVE PoolInv'
  OBVIOUS
<1> USE PoolOpTypes DEF PoolBounds, PoolInv, Pool!TypeOK, Pool!Contexts, Pool!Created,
    Pool!Values, Pool!None, Pool!StartConnect, Pool!Serving
<1> DEFINE id == Head(poolQueue).id
           fresh == machines[id] = Pool!None
           c == IF fresh THEN Len(owner) + 1 ELSE machines[id]
<1>a. id \in Targets /\ poolQueue' \in Seq(Pool!PoolRequests)
  BY PoolQueueTypes
<1>b. /\ c \in Pool!Contexts /\ owner' = IF fresh THEN Append(owner, id) ELSE owner
      /\ machines' = [machines EXCEPT ![id] = c]
      /\ poolOp' = [kind |-> "connect", ctx |-> c, fresh |-> fresh, stage |-> "attempt"]
  OBVIOUS
<1>c. /\ owner' \in Seq(Targets) /\ DOMAIN owner \subseteq DOMAIN owner'
      /\ \A d \in DOMAIN owner : owner'[d] = owner[d]
      /\ c \in DOMAIN owner' /\ owner'[c] = id
      /\ DOMAIN owner' \subseteq Pool!Contexts
      /\ fresh => c \notin DOMAIN owner
  <2>1. CASE fresh
    BY <2>1, <1>a, <1>b
  <2>2. CASE ~fresh
    BY <2>2, <1>a, <1>b DEF PoolIsKeyed
  <2>3. QED
    BY <2>1, <2>2
<1> HIDE DEF id, fresh, c
<1>1. Pool!TypeOK'
  <2>1. poolOp' \in Pool!Ops
    BY <1>b DEF fresh, Pool!Ops
  <2>2. machines' \in [Targets -> Pool!Created' \cup {Pool!None}]
    BY <1>a, <1>b, <1>c
  <2>3. QED
    BY <1>a, <1>c, <2>1, <2>2
<1>2. PoolIsKeyed' /\ GhostIsAttempted' /\ AttemptIsCreated' /\ CancelledIsClosed'
  <2>1. PoolIsKeyed'
    BY <1>a, <1>b, <1>c DEF PoolIsKeyed
  <2>2. /\ poolOp'.kind = "connect" /\ poolOp'.stage = "attempt"
        /\ poolOp'.ctx = c /\ poolOp'.fresh = fresh
    BY <1>b
  <2>3. \A i \in Targets : machines[i] # Pool!None => machines[i] \in poolLink
    BY PoolOpTypes DEF GhostIsAttempted, Pool!Idle
  <2>4. ~fresh => c \in poolLink
    BY <1>a, <2>3 DEF fresh, c
  <2>5. GhostIsAttempted'
    <3> SUFFICES ASSUME NEW i \in Targets, machines'[i] # Pool!None,
                        machines'[i] \notin poolLink
                 PROVE  i = id /\ fresh
      BY <1>a, <1>b, <2>2 DEF GhostIsAttempted
    <3>1. QED
      BY <1>a, <1>b, <2>3, <2>4
  <2>6. AttemptIsCreated' /\ CancelledIsClosed'
    BY <1>c, <2>2 DEF AttemptIsCreated, CancelledIsClosed
  <2>7. QED
    BY <2>1, <2>5, <2>6
<1>3. ServicesHaveMachines'
  BY <1>a, <1>b, <1>c DEF fresh, c, PoolIsKeyed, ServicesHaveMachines, Pool!CloseIsQuiet
<1>4. SteadyAreServed'
  BY <1>a, <1>b, <1>c DEF fresh, c, PoolIsKeyed, SteadyAreServed, CancelledIsClosed,
      PoolIsSteady, Pool!Idle
<1>5. Pool!OnlyPooledCollect' /\ Pool!CloseIsQuiet'
  BY <1>a, <1>b, <1>c DEF fresh, c, PoolIsKeyed, Pool!OnlyPooledCollect, Pool!CloseIsQuiet,
      ServicesHaveMachines
<1>6. Pool!PoolIsAnnounced'
  BY <1>b DEF Pool!PoolIsAnnounced, Pool!Idle
<1>7. QED
  BY <1>1, <1>2, <1>3, <1>4, <1>5, <1>6

\* The beforeSwap hook tears down what the swapped link served.
LEMMA PoolCommit == PoolBounds /\ PoolInv /\ Pool!Commit => PoolInv'
<1> SUFFICES ASSUME PoolBounds, PoolInv, Pool!Commit PROVE PoolInv'
  OBVIOUS
<1> USE PoolOpTypes DEF PoolBounds, PoolInv, Pool!TypeOK, Pool!Contexts, Pool!Created,
    Pool!Values, Pool!None, Pool!Commit, Pool!Teardown
<1>1. Pool!TypeOK'
  <2>1. suspended' \subseteq Targets
    BY PoolOwnerTypes
  <2>2. poolOp.ctx \in Pool!Created
    BY DEF AttemptIsCreated
  <2>3. QED
    BY <2>1, <2>2
<1>2. PoolIsKeyed' /\ GhostIsAttempted' /\ AttemptIsCreated' /\ CancelledIsClosed'
  BY DEF PoolIsKeyed, GhostIsAttempted, AttemptIsCreated, CancelledIsClosed, Pool!Idle
<1>3. ServicesHaveMachines'
  BY DEF PoolIsKeyed, ServicesHaveMachines, Pool!CloseIsQuiet
<1>4. SteadyAreServed'
  BY DEF PoolIsKeyed, SteadyAreServed, CancelledIsClosed, PoolIsSteady, Pool!Idle
<1>5. Pool!OnlyPooledCollect' /\ Pool!CloseIsQuiet'
  BY DEF PoolIsKeyed, Pool!OnlyPooledCollect, Pool!CloseIsQuiet, ServicesHaveMachines
<1>6. Pool!PoolIsAnnounced'
  BY DEF Pool!PoolIsAnnounced, Pool!Idle
<1>7. QED
  BY <1>1, <1>2, <1>3, <1>4, <1>5, <1>6

\* A failed first connect takes its entry out of the pool.
LEMMA PoolFail == PoolBounds /\ PoolInv /\ Pool!Fail => PoolInv'
<1> SUFFICES ASSUME PoolBounds, PoolInv, Pool!Fail PROVE PoolInv'
  OBVIOUS
<1> USE PoolOpTypes DEF PoolBounds, PoolInv, Pool!TypeOK, Pool!Contexts, Pool!Created,
    Pool!Values, Pool!None, Pool!Fail, Pool!Without, Pool!Serving
<1>1. Pool!TypeOK'
  BY DEF Pool!PoolRequests, Pool!Ops, Pool!Idle
<1>2. PoolIsKeyed' /\ GhostIsAttempted' /\ AttemptIsCreated' /\ CancelledIsClosed'
  BY DEF PoolIsKeyed, GhostIsAttempted, AttemptIsCreated, CancelledIsClosed, Pool!Idle
<1>3. ServicesHaveMachines'
  BY DEF PoolIsKeyed, ServicesHaveMachines, Pool!CloseIsQuiet
<1>4. SteadyAreServed'
  BY DEF PoolIsKeyed, SteadyAreServed, CancelledIsClosed, PoolIsSteady, Pool!Idle
<1>5. Pool!OnlyPooledCollect' /\ Pool!CloseIsQuiet'
  BY DEF PoolIsKeyed, Pool!OnlyPooledCollect, Pool!CloseIsQuiet, ServicesHaveMachines
<1>6. Pool!PoolIsAnnounced'
  BY DEF Pool!PoolIsAnnounced, Pool!Idle
<1>7. QED
  BY <1>1, <1>2, <1>3, <1>4, <1>5, <1>6

\* The rest of connectTarget() restores what the swap tore down.
LEMMA PoolReturn == PoolBounds /\ PoolInv /\ Pool!Return => PoolInv'
<1> SUFFICES ASSUME PoolBounds, PoolInv, Pool!Return PROVE PoolInv'
  OBVIOUS
<1> USE PoolOpTypes DEF PoolBounds, PoolInv, Pool!TypeOK, Pool!Contexts, Pool!Created,
    Pool!Values, Pool!None, Pool!Return
<1>1. Pool!TypeOK'
  <2>1. Pool!Values(machines, poolLink) \subseteq Pool!Created
    OBVIOUS
  <2>2. poolOp.ctx \in Pool!Created
    BY DEF AttemptIsCreated
  <2>3. suspended' \subseteq Targets /\ poolOp' \in Pool!Ops
    OBVIOUS
  <2>4. QED
    BY <2>1, <2>2, <2>3
<1>2. PoolIsKeyed' /\ GhostIsAttempted' /\ AttemptIsCreated' /\ CancelledIsClosed'
  BY DEF PoolIsKeyed, GhostIsAttempted, AttemptIsCreated, CancelledIsClosed, Pool!Idle
<1>3. ServicesHaveMachines'
  BY ZenonT(30) DEF PoolIsKeyed, ServicesHaveMachines, Pool!CloseIsQuiet
<1>4. SteadyAreServed'
  <2> SUFFICES ASSUME poolServer = "open" PROVE SteadyAreServed'
    BY DEF SteadyAreServed
  <2>1. /\ Pool!Values(machines, poolLink)' = Pool!Values(machines, poolLink)
        /\ Pool!Values(machines, poolLink) \subseteq collecting'
    OBVIOUS
  <2>2. \A id \in Targets : machines[id] \in poolLink => id \notin suspended'
    OBVIOUS
  <2>3. servicesPolling' <=> Pool!Values(machines, poolLink) # {}
    OBVIOUS
  <2>4. QED
    BY <2>1, <2>2, <2>3 DEF SteadyAreServed
<1>5. Pool!OnlyPooledCollect' /\ Pool!CloseIsQuiet'
  BY DEF PoolIsKeyed, Pool!OnlyPooledCollect, Pool!CloseIsQuiet, ServicesHaveMachines
<1>6. Pool!PoolIsAnnounced'
  BY DEF Pool!PoolIsAnnounced, Pool!Idle
<1>7. QED
  BY <1>1, <1>2, <1>3, <1>4, <1>5, <1>6

\* connectTarget() announces the pool as it is.
LEMMA PoolAnswer == PoolBounds /\ PoolInv /\ Pool!Answer => PoolInv'
<1> SUFFICES ASSUME PoolBounds, PoolInv, Pool!Answer PROVE PoolInv'
  OBVIOUS
<1> USE PoolOpTypes DEF PoolBounds, PoolInv, Pool!TypeOK, Pool!Contexts, Pool!Created,
    Pool!Values, Pool!None, Pool!Answer, Pool!Serving
<1>1. Pool!TypeOK'
  BY DEF Pool!PoolRequests, Pool!Ops, Pool!Idle
<1>2. PoolIsKeyed' /\ GhostIsAttempted' /\ AttemptIsCreated' /\ CancelledIsClosed'
  BY DEF PoolIsKeyed, GhostIsAttempted, AttemptIsCreated, CancelledIsClosed, Pool!Idle
<1>3. ServicesHaveMachines'
  BY DEF PoolIsKeyed, ServicesHaveMachines, Pool!CloseIsQuiet
<1>4. SteadyAreServed'
  BY DEF PoolIsKeyed, SteadyAreServed, CancelledIsClosed, PoolIsSteady, Pool!Idle
<1>5. Pool!OnlyPooledCollect' /\ Pool!CloseIsQuiet'
  BY DEF PoolIsKeyed, Pool!OnlyPooledCollect, Pool!CloseIsQuiet, ServicesHaveMachines
<1>6. Pool!PoolIsAnnounced'
  BY DEF Pool!PoolIsAnnounced, Pool!Idle
<1>7. QED
  BY <1>1, <1>2, <1>3, <1>4, <1>5, <1>6

\* conn:disconnect tears the machine down before it leaves the pool.
LEMMA PoolStartDisconnect == PoolBounds /\ PoolInv /\ Pool!StartDisconnect => PoolInv'
<1> SUFFICES ASSUME PoolBounds, PoolInv, Pool!StartDisconnect PROVE PoolInv'
  OBVIOUS
<1> USE PoolOpTypes DEF PoolBounds, PoolInv, Pool!TypeOK, Pool!Contexts, Pool!Created,
    Pool!Values, Pool!None, Pool!StartDisconnect, Pool!Teardown, Pool!Without
<1> DEFINE gone == {machines[Head(poolQueue).id]} \ {Pool!None}
<1>1. Pool!TypeOK'
  <2>1. Head(poolQueue).id \in Targets /\ poolQueue' \in Seq(Pool!PoolRequests)
    BY PoolQueueTypes
  <2>2. gone \subseteq Pool!Created
    BY <2>1
  <2>3. suspended' \subseteq Targets
    BY <2>2, PoolOwnerTypes
  <2>4. poolOp' \in Pool!Ops
    BY DEF Pool!Ops
  <2>5. machines' \in [Targets -> Pool!Created \cup {Pool!None}]
    OBVIOUS
  <2>6. QED
    BY <2>1, <2>2, <2>3, <2>4, <2>5
<1>2. PoolIsKeyed' /\ GhostIsAttempted' /\ AttemptIsCreated' /\ CancelledIsClosed'
  BY DEF PoolIsKeyed, GhostIsAttempted, AttemptIsCreated, CancelledIsClosed, Pool!Idle
<1>3. ServicesHaveMachines'
  BY ZenonT(30) DEF PoolIsKeyed, ServicesHaveMachines, Pool!CloseIsQuiet
<1>4. SteadyAreServed'
  BY DEF PoolIsKeyed, SteadyAreServed, CancelledIsClosed, PoolIsSteady, Pool!Idle
<1>5. Pool!OnlyPooledCollect' /\ Pool!CloseIsQuiet'
  BY DEF PoolIsKeyed, Pool!OnlyPooledCollect, Pool!CloseIsQuiet, ServicesHaveMachines
<1>6. Pool!PoolIsAnnounced'
  BY DEF Pool!PoolIsAnnounced, Pool!Idle
<1>7. QED
  BY <1>1, <1>2, <1>3, <1>4, <1>5, <1>6

\* conn:disconnect ends with applyPollers() and an announcement.
LEMMA PoolDisconnected == PoolBounds /\ PoolInv /\ Pool!Disconnected => PoolInv'
<1> SUFFICES ASSUME PoolBounds, PoolInv, Pool!Disconnected PROVE PoolInv'
  OBVIOUS
<1> USE PoolOpTypes DEF PoolBounds, PoolInv, Pool!TypeOK, Pool!Contexts, Pool!Created,
    Pool!Values, Pool!None, Pool!Disconnected, Pool!TeardownAndApply
<1>1. Pool!TypeOK'
  BY DEF Pool!PoolRequests, Pool!Ops, Pool!Idle
<1>2. PoolIsKeyed' /\ GhostIsAttempted' /\ AttemptIsCreated' /\ CancelledIsClosed'
  BY DEF PoolIsKeyed, GhostIsAttempted, AttemptIsCreated, CancelledIsClosed, Pool!Idle
<1>3. ServicesHaveMachines'
  BY ZenonT(30) DEF PoolIsKeyed, ServicesHaveMachines, Pool!CloseIsQuiet
<1>4. SteadyAreServed'
  BY ZenonT(30) DEF PoolIsKeyed, SteadyAreServed, CancelledIsClosed, PoolIsSteady, Pool!Idle
<1>5. Pool!OnlyPooledCollect' /\ Pool!CloseIsQuiet'
  BY DEF PoolIsKeyed, Pool!OnlyPooledCollect, Pool!CloseIsQuiet, ServicesHaveMachines
<1>6. Pool!PoolIsAnnounced'
  BY DEF Pool!PoolIsAnnounced, Pool!Idle
<1>7. QED
  BY <1>1, <1>2, <1>3, <1>4, <1>5, <1>6

\* cleanClose() tears every connected machine down.
LEMMA PoolBeginClose == PoolBounds /\ PoolInv /\ Pool!BeginClose => PoolInv'
<1> SUFFICES ASSUME PoolBounds, PoolInv, Pool!BeginClose PROVE PoolInv'
  OBVIOUS
<1> USE PoolOpTypes DEF PoolBounds, PoolInv, Pool!TypeOK, Pool!Contexts, Pool!Created,
    Pool!Values, Pool!None, Pool!BeginClose, Pool!Teardown
<1>1. Pool!TypeOK'
  BY DEF Pool!PoolRequests, Pool!Ops, Pool!Idle
<1>2. PoolIsKeyed' /\ GhostIsAttempted' /\ AttemptIsCreated' /\ CancelledIsClosed'
  BY DEF PoolIsKeyed, GhostIsAttempted, AttemptIsCreated, CancelledIsClosed, Pool!Idle
<1>3. ServicesHaveMachines'
  BY DEF PoolIsKeyed, ServicesHaveMachines, Pool!CloseIsQuiet
<1>4. SteadyAreServed'
  BY DEF PoolIsKeyed, SteadyAreServed, CancelledIsClosed, PoolIsSteady, Pool!Idle
<1>5. Pool!OnlyPooledCollect' /\ Pool!CloseIsQuiet'
  <2>1. collecting \subseteq Pool!Values(machines, poolLink)
    BY PoolOwnerTypes, {} \subseteq Pool!Created DEF Pool!OnlyPooledCollect
  <2>2. collecting' = {}
    BY <2>1
  <2>3. ~servicesPolling'
    BY DEF ServicesHaveMachines
  <2>4. QED
    BY <2>2, <2>3 DEF Pool!OnlyPooledCollect, Pool!CloseIsQuiet
<1>6. Pool!PoolIsAnnounced'
  BY DEF Pool!PoolIsAnnounced, Pool!Idle
<1>7. QED
  BY <1>1, <1>2, <1>3, <1>4, <1>5, <1>6

\* disconnectAll() empties the pool.
LEMMA PoolDisconnectAll == PoolBounds /\ PoolInv /\ Pool!DisconnectAll => PoolInv'
<1> SUFFICES ASSUME PoolBounds, PoolInv, Pool!DisconnectAll PROVE PoolInv'
  OBVIOUS
<1> USE PoolOpTypes DEF PoolBounds, PoolInv, Pool!TypeOK, Pool!Contexts, Pool!Created,
    Pool!Values, Pool!None, Pool!DisconnectAll, Pool!Serving
<1>1. Pool!TypeOK'
  BY DEF Pool!PoolRequests, Pool!Ops, Pool!Idle
<1>2. PoolIsKeyed' /\ GhostIsAttempted' /\ AttemptIsCreated' /\ CancelledIsClosed'
  BY DEF PoolIsKeyed, GhostIsAttempted, AttemptIsCreated, CancelledIsClosed, Pool!Idle
<1>3. ServicesHaveMachines'
  BY DEF PoolIsKeyed, ServicesHaveMachines, Pool!CloseIsQuiet
<1>4. SteadyAreServed'
  BY DEF PoolIsKeyed, SteadyAreServed, CancelledIsClosed, PoolIsSteady, Pool!Idle
<1>5. Pool!OnlyPooledCollect' /\ Pool!CloseIsQuiet'
  BY DEF PoolIsKeyed, Pool!OnlyPooledCollect, Pool!CloseIsQuiet, ServicesHaveMachines
<1>6. Pool!PoolIsAnnounced'
  BY DEF Pool!PoolIsAnnounced, Pool!Idle
<1>7. QED
  BY <1>1, <1>2, <1>3, <1>4, <1>5, <1>6

\* A lost link that the pool holds is torn down before applyPollers(); one that it
\* no longer holds changes nothing of what runs.
LEMMA PoolLose ==
  ASSUME PoolBounds, PoolInv, NEW c \in Pool!Created, Pool!Lose(c)
  PROVE  PoolInv'
<1> USE DEF PoolBounds, PoolInv, Pool!TypeOK
<1>1. /\ c \in poolLink /\ c # Pool!None /\ owner[c] \in Targets
      /\ poolLink' = poolLink \ {c}
      /\ UNCHANGED <<owner, poolQueue, received, poolOp, poolServer>>
  BY DEF Pool!Lose, Pool!Created, Pool!Contexts, Pool!None
<1>2. CASE machines[owner[c]] # c
  <2>1. /\ UNCHANGED <<machines, told, Pool!Serving>>
        /\ \A id \in Targets : machines[id] # c
    BY <1>1, <1>2 DEF Pool!Lose, PoolIsKeyed
  <2>2. UNCHANGED <<collecting, historyTimers, suspended, servicesPolling>>
    BY <2>1 DEF Pool!Serving
  <2>3. Pool!Values(machines, poolLink)' = Pool!Values(machines, poolLink)
    BY <1>1, <2>1 DEF Pool!Values
  <2>4. \A id \in Targets : machines[id] \in poolLink' <=> machines[id] \in poolLink
    BY <1>1, <2>1
  <2>5. Pool!TypeOK' /\ PoolIsKeyed' /\ AttemptIsCreated' /\ CancelledIsClosed'
    BY <1>1, <2>1, <2>2 DEF PoolIsKeyed, AttemptIsCreated, CancelledIsClosed, Pool!Created
  <2>6. GhostIsAttempted' /\ Pool!OnlyPooledCollect'
    BY <1>1, <1>2, <2>1, <2>2, <2>4 DEF GhostIsAttempted, Pool!OnlyPooledCollect
  <2>7. ServicesHaveMachines' /\ SteadyAreServed' /\ Pool!PoolIsAnnounced' /\ Pool!CloseIsQuiet'
    BY <1>1, <2>1, <2>2, <2>3, <2>4 DEF ServicesHaveMachines, SteadyAreServed, PoolIsSteady,
        Pool!PoolIsAnnounced, Pool!CloseIsQuiet
  <2>8. QED
    BY <2>5, <2>6, <2>7
<1>3. CASE machines[owner[c]] = c
  <2>1. /\ machines' = Pool!Without({c})
        /\ Pool!TeardownAndApply({c}, machines', poolLink')
        /\ told' = Pool!Values(machines', poolLink')
    BY <1>1, <1>3 DEF Pool!Lose
  <2>2. \A id \in Targets :
          /\ machines'[id] = IF machines[id] = c THEN Pool!None ELSE machines[id]
          /\ machines'[id] # c
    BY <1>1, <2>1 DEF Pool!Without
  <2>3. /\ Pool!Values(machines', poolLink') = Pool!Values(machines, poolLink) \ {c}
        /\ Pool!Values(machines', poolLink') \subseteq Pool!Created
    BY <1>1, <2>2 DEF Pool!Values, Pool!None, Pool!Created, Pool!Contexts
  <2> DEFINE live == Pool!Values(machines', poolLink')
  <2>4. /\ suspended' = (suspended \cup {owner[d] : d \in {c}})
                          \ {id \in Targets : poolServer = "open" /\ machines'[id] \in live}
        /\ poolServer = "open" =>
             /\ collecting' = (collecting \ {c}) \cup live
             /\ historyTimers' = (historyTimers \ {c}) \cup live
             /\ servicesPolling' = (live # {})
        /\ poolServer # "open" =>
             /\ collecting' = (collecting \ {c}) \ live
             /\ historyTimers' = historyTimers \ {c}
             /\ servicesPolling' = FALSE
    BY <2>1 DEF Pool!TeardownAndApply
  <2>5. Pool!TypeOK'
    <3>1. machines' \in [Targets -> Pool!Created' \cup {Pool!None}]
      BY <1>1, <2>1 DEF Pool!Without, Pool!Created
    <3>2. suspended' \subseteq Targets
      BY <1>1, <2>4
    <3>3. collecting' \subseteq Pool!Created' /\ historyTimers' \subseteq Pool!Created'
      BY <1>1, <2>3, <2>4 DEF Pool!Created
    <3>4. servicesPolling' \in BOOLEAN
      BY <2>4
    <3>5. QED
      BY <1>1, <2>1, <2>3, <3>1, <3>2, <3>3, <3>4 DEF Pool!Created
  <2>6. PoolIsKeyed' /\ AttemptIsCreated' /\ CancelledIsClosed' /\ GhostIsAttempted'
    BY <1>1, <2>2 DEF PoolIsKeyed, AttemptIsCreated, CancelledIsClosed, GhostIsAttempted,
        Pool!Created
  <2>7. \A d \in live : d \in poolLink' /\ machines'[owner[d]] = d
    BY <1>1, <2>2, <2>3 DEF PoolIsKeyed, Pool!Values, Pool!None, Pool!Created, Pool!Contexts
  <2>8. \A d \in collecting \ {c} : d \in poolLink' /\ machines'[owner[d]] = d
    BY <1>1, <2>2 DEF Pool!OnlyPooledCollect, Pool!Created
  <2>9. Pool!OnlyPooledCollect' /\ Pool!CloseIsQuiet'
    BY <1>1, <2>4, <2>7, <2>8 DEF Pool!OnlyPooledCollect, Pool!CloseIsQuiet
  <2>10. \A id \in Targets : machines'[id] \in poolLink' => machines'[id] \in live
    BY DEF Pool!Values
  <2>11. ServicesHaveMachines' /\ SteadyAreServed' /\ Pool!PoolIsAnnounced'
    BY <1>1, <2>1, <2>4, <2>10 DEF ServicesHaveMachines, SteadyAreServed,
        Pool!PoolIsAnnounced
  <2>12. QED
    BY <2>5, <2>6, <2>9, <2>11
<1>4. QED
  BY <1>2, <1>3

\* Every step of the pool preserves the inductive invariant.
LEMMA PoolNext == PoolBounds /\ PoolInv /\ [Pool!Next]_Pool!vars => PoolInv'
<1> SUFFICES ASSUME PoolBounds, PoolInv, [Pool!Next]_Pool!vars PROVE PoolInv'
  OBVIOUS
<1>1. CASE \/ Pool!Receive \/ Pool!StartConnect \/ Pool!Commit
           \/ Pool!Fail \/ Pool!Return \/ Pool!Answer
  BY <1>1, PoolReceive, PoolStartConnect, PoolCommit, PoolFail, PoolReturn, PoolAnswer
<1>2. CASE Pool!StartDisconnect \/ Pool!Disconnected
  BY <1>2, PoolStartDisconnect, PoolDisconnected
<1>3. ASSUME NEW c \in Pool!Created, Pool!Lose(c) PROVE PoolInv'
  BY <1>3, PoolLose
<1>4. CASE Pool!BeginClose \/ Pool!DisconnectAll
  BY <1>4, PoolBeginClose, PoolDisconnectAll
<1>5. CASE UNCHANGED Pool!vars
  BY <1>5 DEF Pool!vars, PoolInv, Pool!TypeOK, PoolIsKeyed, GhostIsAttempted,
      AttemptIsCreated, CancelledIsClosed, ServicesHaveMachines, SteadyAreServed,
      Pool!OnlyPooledCollect, Pool!PoolIsAnnounced, Pool!CloseIsQuiet, Pool!Created,
      PoolIsSteady, Pool!Values
<1>6. QED
  BY <1>1, <1>2, <1>3, <1>4, <1>5 DEF Pool!Next

-----------------------------------------------------------------------------
\* The inductive invariant holds of the pool, fair or not.
THEOREM PoolInvariance == Pool!Safety => []PoolInv
<1>1. PoolBounds
  BY BoundsAssumption DEF PoolBounds
<1>2. Pool!Init => PoolInv
  BY <1>1, PoolInit
<1>3. PoolInv /\ [Pool!Next]_Pool!vars => PoolInv'
  BY <1>1, PoolNext
<1>4. QED
  BY <1>2, <1>3, PTL DEF Pool!Safety

-----------------------------------------------------------------------------
(***************************************************************************)
(* The server: what holds of each part holds of the whole (MCServer).      *)
(***************************************************************************)

\* A step of the server is a step of its shutdown or none: AllNext takes one part's step
\* and leaves the others alone.
LEMMA EndSteps == AllSpec => End!Safety
<1>1. AllInit => End!Init
  BY DEF AllInit
<1>2. [AllNext]_all => [End!Next]_End!vars
  BY DEF AllNext, all, endVars, End!vars
<1>3. QED
  BY <1>1, <1>2, PTL DEF AllSpec, End!Safety

\* A step of the server is a step of the updater or none.
LEMMA UpdateSteps == AllSpec => Update!Safety
<1>1. AllInit => Update!Init
  BY DEF AllInit
<1>2. [AllNext]_all => [Update!Next]_Update!vars
  BY DEF AllNext, all, update, updateVars, Update!vars
<1>3. QED
  BY <1>1, <1>2, PTL DEF AllSpec, Update!Safety

\* A step of the server is a step of the update script or none.
LEMMA ScriptSteps == AllSpec => Script!Safety
<1>1. AllInit => Script!Init
  BY DEF AllInit
<1>2. [AllNext]_all => [Script!Next]_Script!vars
  BY DEF AllNext, all, update, scriptVars, Script!vars
<1>3. QED
  BY <1>1, <1>2, PTL DEF AllSpec, Script!Safety

\* A step of the server is a step of the contexts of the modules or none.
LEMMA ContextSteps == AllSpec => Context!Init /\ [][Context!Next]_Context!vars
<1>1. AllInit => Context!Init
  BY DEF AllInit
<1>2. [AllNext]_all => [Context!Next]_Context!vars
  BY DEF AllNext, all, contextVars, Context!vars
<1>3. QED
  BY <1>1, <1>2, PTL DEF AllSpec

\* A step of the server is a step of the pool or none.
LEMMA PoolSteps == AllSpec => Pool!Safety
<1>1. AllInit => Pool!Init
  BY DEF AllInit
<1>2. [AllNext]_all => [Pool!Next]_Pool!vars
  BY DEF AllNext, all, poolVars, Pool!vars
<1>3. QED
  BY <1>1, <1>2, PTL DEF AllSpec, Pool!Safety

\* However upgrades, calls, disposers and deadlines interleave with requestShutdown(), no
\* browser has a socket while the machines are closed, although the upgrade handler looks
\* at `closing` only before its await, and the SessionRegistry forgets no resource.
THEOREM EndIsClean == AllSpec => []ShutdownIsClean
<1>1. EndInv => ShutdownIsClean
  BY DEF EndInv, ShutdownIsClean
<1>2. QED
  BY <1>1, EndSteps, EndInvariance, PTL

\* SessionRegistry.drain() ends with nothing left to dispose of, a disposal that another
\* disposer began in its last pass included, unless its deadline cuts it off.
THEOREM DrainIsComplete == AllSpec => End!DrainsAll
<1> DEFINE Ends == registry' = "disposed" /\ registry # "disposed"
           Done == End!Items' = {} /\ End!Disposing' = {}
<1>1. End!Next => (Ends => Done)
  <2> SUFFICES ASSUME End!Next, Ends PROVE Done
    OBVIOUS
  <2>1. End!Drain
    BY DEF End!Next, End!Upgrade, End!Attach, End!Gone, End!Accept, End!Finish, End!Open,
        End!Register, End!Disposed, End!RequestShutdown, End!CloseNetwork, End!NetworkClosed,
        End!TerminateNetwork, End!CleanStep, End!DrainDeadline, End!CleanDone,
        End!CleanDeadline, End!resources
  <2>2. End!Items \cup End!Disposing = {} /\ resource' = resource
    BY <2>1 DEF End!Drain
  <2>3. QED
    BY <2>2 DEF End!Items, End!Disposing
<1>2. QED
  BY <1>1, EndSteps, PTL DEF End!Safety, End!DrainsAll

\* What UpdaterService offers is the tree and the digest of the workspace that exists, a
\* helper keeps the tree it was confirmed, and a cancelled check offers nothing: for any
\* number of checks, whatever fails, and whenever the clean close cancels.
THEOREM OfferIsSound == AllSpec => []UpdateIsSound
<1>1. UpdateInv => UpdateIsSound
  BY DEF UpdateInv, UpdateIsSound
<1>2. QED
  BY <1>1, UpdateSteps, UpdateInvariance, PTL

\* "Nothing is deleted before the backup exists" (update.sh:22): whichever command of
\* the script fails and wherever the machine stops, the old installation is somewhere or
\* the new one is complete with the connections, and what runs is what is in the folder.
THEOREM AlwaysRecoverable == AllSpec => []UpdateIsRecoverable
<1>1. ScriptInv => UpdateIsRecoverable
  BY DEF ScriptInv, UpdateIsRecoverable
<1>2. QED
  BY <1>1, ScriptSteps, ScriptInvariance, PTL

\* However conn:* requests, losses, swaps and the clean close interleave, every collector
\* that polls belongs to a pooled machine that is connected: the teardowns of
\* conn:disconnect, beforeSwap, onLost and cleanClose() miss none.
THEOREM NoCollectorOutlives == AllSpec => []OnlyPooledCollect
<1>1. PoolInv => OnlyPooledCollect
  BY DEF PoolInv, OnlyPooledCollect
<1>2. QED
  BY <1>1, PoolSteps, PoolInvariance, PTL

\* Whenever the "connection" lock is free, applyPollers() has undone every teardown for
\* the machines that are left.
THEOREM EveryMachineIsServed == AllSpec => []PooledAreServed
<1>1. PoolInv => PooledAreServed
  BY DEF PoolInv, SteadyAreServed, PoolIsSteady, PooledAreServed, Pool!PooledAreServed
<1>2. QED
  BY <1>1, PoolSteps, PoolInvariance, PTL

\* MachinePool.connect()'s catch and the loss callback leave no entry behind: when the
\* "connection" lock is free every pooled machine is connected.  And nothing outlives the
\* instance of a module that was stopped or whose activation threw: no poller, no method,
\* no stream, not even one that opens later.
THEOREM NothingStays == AllSpec => []NoGhosts
<1>1. PoolInv => Pool!NoGhosts
  BY PoolOpTypes DEF PoolInv, GhostIsAttempted, Pool!TypeOK, Pool!NoGhosts
<1>2. PoolInv /\ ContextInv => NoGhosts
  BY <1>1 DEF ContextInv, NoGhosts
<1>3. QED
  BY <1>2, PoolSteps, PoolInvariance, ContextSteps, ContextInvariance, PTL

\* push:conn-status is never left stale: whenever the lock is free, the latest announcement
\* lists exactly the connected machines.
THEOREM AnnouncementIsTrue == AllSpec => []PoolIsAnnounced
<1>1. PoolInv => PoolIsAnnounced
  BY DEF PoolInv, PoolIsAnnounced
<1>2. QED
  BY <1>1, PoolSteps, PoolInvariance, PTL

\* After cleanClose() has stopped the host services nothing starts to poll again, whatever
\* request or loss completes after it: applyPollers() reads shuttingDown.
THEOREM CloseStaysQuiet == AllSpec => []CloseIsQuiet
<1>1. PoolInv => CloseIsQuiet
  BY DEF PoolInv, CloseIsQuiet
<1>2. QED
  BY <1>1, PoolSteps, PoolInvariance, PTL

-----------------------------------------------------------------------------
(***************************************************************************)
(* The files of the settings.                                              *)
(***************************************************************************)

\* What a copy may hold.
Contents(f) == Settings!Docs[f] \cup {Settings!Missing, Settings!Bad}

\* The second write of a save, in a plan s.
Twin(s, i) ==
  i > 1 /\ s[i - 1].copy = "backup" /\ s[i - 1].file = s[i].file /\ s[i - 1].doc = s[i].doc

\* The files that have a recovery copy.
Backed == {f \in Settings!Files : settingsDisk[f]["backup"] # Settings!Missing}

\* What is still to be written: the recovery copy of a file before its primary, and of
\* the settings what the memory will be, which alone is written when `narrow`.
PlanFits(s, target, narrow, backed) ==
  /\ s \in Seq(Settings!Writes)
  /\ \A i \in 1..Len(s) :
       /\ s[i].copy = "backup" =>
            i < Len(s) /\ s[i + 1].copy = "primary" /\ Twin(s, i + 1)
       /\ s[i].copy = "primary" => Twin(s, i) \/ s[i].file \in backed
       /\ s[i].file = "settings" => Settings!Normalized(s[i].doc) = target /\ ~s[i].doc.old
       /\ narrow => s[i].file = "settings" /\ ~s[i].soft

Narrow(j) == j.name \in {"set", "import"}
Target(j, now) == IF Narrow(j) THEN Settings!Normalized(j.doc) ELSE now

FileTypes ==
  /\ DOMAIN settingsDisk = Settings!Files
  /\ \A f \in Settings!Files : DOMAIN settingsDisk[f] = Settings!Copies
  /\ serverState \in {"down", "loading", "running", "refused"}
  /\ settings \in Settings!SettingsDocs /\ on \in BOOLEAN
  /\ legacy \in {Settings!None, "on", "off"}
  /\ imports \in Seq(Settings!SettingsDocs) /\ job \in Settings!Jobs
  /\ requests \in 0..MaxSettingsRequests /\ troubles \in 0..MaxTroubles
  /\ DOMAIN kept = Settings!Files /\ DOMAIN open = Settings!Files
  /\ \A f \in Settings!Files :
       kept[f] \in Settings!Docs[f] \cup {Settings!Missing} /\ open[f] \subseteq Settings!Docs[f]
  /\ damaged \subseteq Settings!Files \X Settings!Copies

\* A job is the running server's, or a start's; what is not yet synced is its write.
JobFits ==
  /\ serverState \in {"down", "refused"} => job = Settings!NoJob
  /\ serverState = "loading" => job.name \in {"start", "refuse"}
  /\ settings = Settings!Normalized(settings)
  /\ PlanFits(job.todo, Target(job, settings), Narrow(job), Backed)
  /\ Narrow(job) => Len(job.todo) <= 2 /\ (Len(job.todo) = 2 => job.todo[1].copy = "backup")
  /\ job # Settings!NoJob /\ ~Settings!Writing => ~job.renamed
  /\ Settings!Writing /\ job.renamed =>
       settingsDisk[Settings!Write.file][Settings!Write.copy] = Settings!Write.doc
  /\ \/ unsynced = <<>>
     \/ /\ Settings!Writing /\ job.renamed
        /\ \E x \in Contents(Settings!Write.file) :
             unsynced = <<<<Settings!Write.file, Settings!Write.copy>>, x>>

\* What the copies are, on a disk d: bad only when damaged, there when they were written.
Held(d) ==
  \A f \in Settings!Files :
    /\ \A c \in Settings!Copies :
         d[f][c] \in Contents(f) /\ (d[f][c] = Settings!Bad => <<f, c>> \in damaged)
    /\ kept[f] # Settings!Missing => d[f]["primary"] # Settings!Missing
    /\ Settings!Twofold(f) => d[f]["backup"] # Settings!Missing
    /\ f = "settings" =>
         d[f]["backup"] \in {Settings!Missing, Settings!Bad} \/ ~d[f]["backup"].old

\* The primary of a file is being written.
WritingPrimary(f) ==
  Settings!Writing /\ job.renamed /\ Settings!Write.file = f /\ Settings!Write.copy = "primary"

\* What a primary holds that was not damaged.
Found(f, x) == kept[f] # Settings!Missing /\ <<f, "primary">> \notin damaged =>
                 x \in {kept[f]} \cup open[f]
PrimaryFits ==
  \A f \in Settings!Files :
    /\ Found(f, Settings!Reverted[f]["primary"])
    /\ ~WritingPrimary(f) => Found(f, settingsDisk[f]["primary"])

\* The primary of the settings is still to be written.
Waits ==
  \E i \in 1..Len(job.todo) :
    job.todo[i].file = "settings" /\ job.todo[i].copy = "primary" /\ ~(i = 1 /\ job.renamed)
MemoryFits ==
  /\ serverState \in {"loading", "running"} /\ kept["settings"] # Settings!Missing
  /\ <<"settings", "primary">> \notin damaged
  => Settings!Normalized(settingsDisk["settings"]["primary"]) =
       IF Waits THEN settings ELSE Target(job, settings)

FilesInv ==
  FileTypes /\ JobFits /\ Held(settingsDisk) /\ Held(Settings!Reverted) /\ PrimaryFits
  /\ MemoryFits

-----------------------------------------------------------------------------

\* The lengths of the plan of a save.
LEMMA LengthsAre ==
  /\ \A n \in Nat : 1 \in 1..n /\ n <= 2 /\ n # 2 => n = 1
  /\ \A n \in Nat : n <= 1 => n <= 2 /\ n # 2
OBVIOUS

\* The documents are told apart, and what is normalized has the current format.
LEMMA DocumentsAre ==
  /\ Settings!Files = {"settings", "registry"} /\ Settings!Copies = {"primary", "backup"}
  /\ Settings!Docs["settings"] = Settings!SettingsDocs
  /\ \A b \in BOOLEAN : Settings!Switch(b) \in Settings!Docs["registry"]
  /\ \A r \in Settings!Docs["registry"] : r.on \in BOOLEAN
  /\ \A f \in Settings!Files : Settings!Missing \notin Settings!Docs[f]
                               /\ Settings!Bad \notin Settings!Docs[f]
  /\ Settings!Missing # Settings!Bad
  /\ \A x \in Settings!SettingsDocs :
       /\ Settings!Normalized(x) \in Settings!SettingsDocs /\ ~Settings!Normalized(x).old
       /\ Settings!Normalized(Settings!Normalized(x)) = Settings!Normalized(x)
       /\ x.old \in BOOLEAN /\ x.off \in BOOLEAN
  /\ \A n \in 0..MaxSettingsRequests :
       /\ Settings!Doc(n, FALSE, FALSE) \in Settings!SettingsDocs
       /\ Settings!Normalized(Settings!Doc(n, FALSE, FALSE)) = Settings!Doc(n, FALSE, FALSE)
       /\ ~Settings!Doc(n, FALSE, FALSE).old
       /\ \A off \in BOOLEAN : Settings!Doc(n, TRUE, off) \in Settings!SettingsDocs
<1>1. Settings!Files = {"settings", "registry"} /\ Settings!Copies = {"primary", "backup"}
  BY DEF Settings!Files, Settings!Copies
<1>2. /\ Settings!Docs["settings"] = Settings!SettingsDocs
      /\ Settings!Docs["registry"] = [kind : {"registry"}, on : BOOLEAN]
  BY DEF Settings!Docs
<1>3. /\ \A b \in BOOLEAN : Settings!Switch(b) \in Settings!Docs["registry"]
      /\ \A r \in Settings!Docs["registry"] : r.on \in BOOLEAN /\ r.kind = "registry"
  BY <1>2 DEF Settings!Switch
<1>4. ASSUME NEW n, NEW old \in BOOLEAN, NEW off \in BOOLEAN
      PROVE  /\ Settings!Doc(n, old, off).n = n /\ Settings!Doc(n, old, off).old = old
             /\ Settings!Doc(n, old, off).off = off
             /\ Settings!Doc(n, old, off).kind = "settings"
             /\ Settings!Normalized(Settings!Doc(n, old, off)) = Settings!Doc(n, FALSE, FALSE)
  BY DEF Settings!Doc, Settings!Normalized
<1>5. ASSUME NEW n \in 0..MaxSettingsRequests
      PROVE  /\ Settings!Doc(n, FALSE, FALSE) \in Settings!SettingsDocs
             /\ \A off \in BOOLEAN : Settings!Doc(n, TRUE, off) \in Settings!SettingsDocs
  BY DEF Settings!SettingsDocs, Settings!Doc
<1>7. ASSUME NEW x \in Settings!SettingsDocs
      PROVE  /\ Settings!Normalized(x) \in Settings!SettingsDocs /\ ~Settings!Normalized(x).old
             /\ Settings!Normalized(Settings!Normalized(x)) = Settings!Normalized(x)
             /\ x.old \in BOOLEAN /\ x.off \in BOOLEAN /\ x.kind = "settings"
  BY DEF Settings!SettingsDocs, Settings!Normalized, Settings!Doc
<1>8. \A f \in Settings!Files : Settings!Missing \notin Settings!Docs[f]
                               /\ Settings!Bad \notin Settings!Docs[f]
  <2>1. \A f \in Settings!Files : \A x \in Settings!Docs[f] :
          x.kind \in {"settings", "registry"}
    BY <1>1, <1>2, <1>3, <1>7
  <2>2. Settings!Missing.kind = "missing" /\ Settings!Bad.kind = "bad"
    BY DEF Settings!Missing, Settings!Bad
  <2>3. QED
    BY ONLY <2>1, <2>2
<1>9. Settings!Missing # Settings!Bad
  BY DEF Settings!Missing, Settings!Bad
<1>10. ASSUME NEW n \in 0..MaxSettingsRequests
       PROVE  /\ Settings!Normalized(Settings!Doc(n, FALSE, FALSE)) =
                   Settings!Doc(n, FALSE, FALSE)
              /\ ~Settings!Doc(n, FALSE, FALSE).old
  BY <1>4
<1>11. QED
  BY ONLY <1>1, <1>2, <1>3, <1>5, <1>7, <1>8, <1>9, <1>10

\* A write, taken apart.
LEMMA WritesAre ==
  \A w : w \in Settings!Writes <=>
    \E f \in Settings!Files, c \in Settings!Copies, soft \in BOOLEAN :
      \E x \in Settings!Docs[f] : w = [file |-> f, copy |-> c, doc |-> x, soft |-> soft]
BY DEF Settings!Writes

\* The plan of the next state.
LEMMA NextPlanFits ==
  ASSUME PlanFits(job'.todo, Target(job', settings'), Narrow(job'), Backed')
  PROVE  (PlanFits(job.todo, Target(job, settings), Narrow(job), Backed))'
BY DEF PlanFits, Target, Narrow, Twin

\* Nothing, and a save, fit.
LEMMA SavingFits ==
  ASSUME NEW f \in Settings!Files, NEW x \in Settings!Docs[f], NEW soft \in BOOLEAN,
         NEW target, NEW narrow \in BOOLEAN, NEW backed,
         f = "settings" => Settings!Normalized(x) = target /\ ~x.old,
         narrow => f = "settings" /\ ~soft
  PROVE  /\ PlanFits(<<>>, target, narrow, backed)
         /\ PlanFits(Settings!Saving(f, x, soft), target, narrow, backed)
<1> DEFINE first == [file |-> f, copy |-> "backup", doc |-> x, soft |-> soft]
           second == [file |-> f, copy |-> "primary", doc |-> x, soft |-> soft]
<1>1. first \in Settings!Writes /\ second \in Settings!Writes
  BY WritesAre, DocumentsAre
<1>2. /\ first.copy = "backup" /\ first.file = f /\ first.doc = x /\ first.soft = soft
      /\ second.copy = "primary" /\ second.file = f /\ second.doc = x /\ second.soft = soft
  OBVIOUS
<1>3. Settings!Saving(f, x, soft) = <<first, second>>
  BY DEF Settings!Saving
<1> HIDE DEF first, second
<1>4. PlanFits(<<first, second>>, target, narrow, backed)
  <2> DEFINE s == <<first, second>>
  <2>1. s \in Seq(Settings!Writes) /\ Len(s) = 2 /\ s[1] = first /\ s[2] = second
    BY <1>1
  <2> HIDE DEF s
  <2>2. Twin(s, 2)
    BY <1>2, <2>1 DEF Twin
  <2>3. ASSUME NEW i \in 1..Len(s) PROVE i = 1 \/ i = 2
    BY <2>1
  <2>4. PlanFits(s, target, narrow, backed)
    BY <1>2, <2>1, <2>2, <2>3 DEF PlanFits
  <2>5. QED
    BY <2>4 DEF s
<1>5. PlanFits(<<>>, target, narrow, backed)
  BY DEF PlanFits
<1>6. QED
  BY <1>3, <1>4, <1>5

\* So does a recovery copy that is put in the place of the primary.
LEMMA RestoringFits ==
  ASSUME NEW f \in Settings!Files, Held(settingsDisk), NEW target,
         f = "settings" /\ Settings!Restoring(f) # <<>> =>
           Settings!Normalized(settingsDisk[f]["backup"]) = target
  PROVE  PlanFits(Settings!Restoring(f), target, FALSE, Backed)
<1> DEFINE x == settingsDisk[f]["backup"]
           one == [file |-> f, copy |-> "primary", doc |-> x, soft |-> TRUE]
<1>1. PlanFits(<<>>, target, FALSE, Backed)
  BY DEF PlanFits
<1>2. CASE ~Settings!Valid(settingsDisk[f]["primary"]) /\ Settings!Valid(x)
  <2>1. Settings!Restoring(f) = <<one>>
    BY <1>2 DEF Settings!Restoring
  <2>2. x \in Settings!Docs[f] /\ x # Settings!Missing /\ (f = "settings" => ~x.old)
    BY <1>2, DocumentsAre DEF Held, Contents, Settings!Valid
  <2>3. f \in Backed
    BY <2>2 DEF Backed
  <2>4. one \in Settings!Writes
    BY <2>2, WritesAre, DocumentsAre
  <2>5. one.copy = "primary" /\ one.file = f /\ one.doc = x
    OBVIOUS
  <2>6. f = "settings" => Settings!Normalized(x) = target
    BY <2>1
  <2> HIDE DEF one, x
  <2>7. PlanFits(<<one>>, target, FALSE, Backed)
    BY <2>2, <2>3, <2>4, <2>5, <2>6 DEF PlanFits
  <2>8. QED
    BY <2>1, <2>7
<1>3. CASE ~(~Settings!Valid(settingsDisk[f]["primary"]) /\ Settings!Valid(x))
  BY <1>1, <1>3 DEF Settings!Restoring
<1>4. QED
  BY <1>2, <1>3

\* And two plans, one after the other.
LEMMA JoinFits ==
  ASSUME NEW s, NEW t, NEW target, NEW narrow, NEW backed,
         PlanFits(s, target, narrow, backed), PlanFits(t, target, narrow, backed)
  PROVE  PlanFits(s \o t, target, narrow, backed)
<1> DEFINE st == s \o t
<1>1. s \in Seq(Settings!Writes) /\ t \in Seq(Settings!Writes)
  BY DEF PlanFits
<1>2. /\ st \in Seq(Settings!Writes) /\ Len(st) = Len(s) + Len(t)
      /\ \A i \in 1..Len(s) : st[i] = s[i]
      /\ \A i \in 1..Len(t) : st[Len(s) + i] = t[i]
  BY <1>1
<1>3. Len(s) \in Nat /\ Len(t) \in Nat
  BY <1>1
<1> HIDE DEF st
<1>4. ASSUME NEW i \in 1..Len(st)
      PROVE  /\ st[i].copy = "backup" =>
                  i < Len(st) /\ st[i + 1].copy = "primary" /\ Twin(st, i + 1)
             /\ st[i].copy = "primary" => Twin(st, i) \/ st[i].file \in backed
             /\ st[i].file = "settings" =>
                  Settings!Normalized(st[i].doc) = target /\ ~st[i].doc.old
             /\ narrow => st[i].file = "settings" /\ ~st[i].soft
  <2>1. CASE i <= Len(s)
    <3>1. i \in 1..Len(s) /\ st[i] = s[i]
      BY <1>2, <1>3, <2>1
    <3>2. i < Len(s) => i + 1 \in 1..Len(s) /\ st[i + 1] = s[i + 1]
      BY <1>2, <1>3, <3>1
    <3>3. i > 1 => i - 1 \in 1..Len(s) /\ st[i - 1] = s[i - 1]
      BY <1>2, <1>3, <3>1
    <3>4. i + 1 - 1 = i /\ i + 1 > 1
      BY <1>3, <3>1
    <3>5. QED
      BY <1>2, <1>3, <3>1, <3>2, <3>3, <3>4 DEF PlanFits, Twin
  <2>2. CASE i > Len(s)
    <3>1. PICK k \in 1..Len(t) : i = Len(s) + k
      <4>1. i - Len(s) \in 1..Len(t) /\ i = Len(s) + (i - Len(s))
        BY <1>2, <1>3, <2>2
      <4>2. QED
        BY <4>1
    <3>2. st[i] = t[k] /\ (k < Len(t) => i < Len(st))
      BY <1>2, <1>3, <3>1
    <3>3. k < Len(t) => k + 1 \in 1..Len(t) /\ st[i + 1] = t[k + 1]
      <4>1. i + 1 = Len(s) + (k + 1)
        BY <1>3, <3>1
      <4>2. QED
        BY <1>2, <1>3, <4>1
    <3>4. k > 1 => k - 1 \in 1..Len(t) /\ st[i - 1] = t[k - 1] /\ i > 1
      <4>1. i - 1 = Len(s) + (k - 1)
        BY <1>3, <3>1
      <4>2. QED
        BY <1>2, <1>3, <3>1, <4>1
    <3>5. k + 1 - 1 = k /\ i + 1 - 1 = i /\ i + 1 > 1 /\ k + 1 > 1
      BY <1>3, <3>1
    <3>6. /\ t[k].copy = "backup" =>
               k < Len(t) /\ t[k + 1].copy = "primary" /\ Twin(t, k + 1)
          /\ t[k].copy = "primary" => Twin(t, k) \/ t[k].file \in backed
          /\ t[k].file = "settings" =>
               Settings!Normalized(t[k].doc) = target /\ ~t[k].doc.old
          /\ narrow => t[k].file = "settings" /\ ~t[k].soft
      BY DEF PlanFits
    <3>7. k < Len(t) /\ Twin(t, k + 1) => Twin(st, i + 1)
      BY <3>2, <3>3, <3>5 DEF Twin
    <3>8. Twin(t, k) => Twin(st, i)
      BY <3>2, <3>4 DEF Twin
    <3>9. QED
      BY <3>2, <3>3, <3>6, <3>7, <3>8
  <2>3. QED
    BY <1>2, <1>3, <2>1, <2>2
<1>5. PlanFits(st, target, narrow, backed)
  BY <1>2, <1>4 DEF PlanFits
<1>6. QED
  BY <1>5 DEF st

\* What is left of a plan after a write whose second one is not to come.
LEMMA DropFits ==
  ASSUME NEW s, NEW target, NEW narrow, NEW backed, NEW k \in 1..Len(s), NEW t,
         PlanFits(s, target, narrow, backed), s[k].copy = "primary" \/ s[k].file \in backed,
         t \in Seq(Settings!Writes), Len(t) = Len(s) - k,
         \A i \in 1..Len(s) - k : t[i] = s[i + k]
  PROVE  PlanFits(t, target, narrow, backed)
<1>1. s \in Seq(Settings!Writes) /\ Len(s) \in Nat /\ k \in Nat
  BY DEF PlanFits
<1>2. ASSUME NEW i \in 1..Len(t)
      PROVE  /\ t[i].copy = "backup" =>
                  i < Len(t) /\ t[i + 1].copy = "primary" /\ Twin(t, i + 1)
             /\ t[i].copy = "primary" => Twin(t, i) \/ t[i].file \in backed
             /\ t[i].file = "settings" =>
                  Settings!Normalized(t[i].doc) = target /\ ~t[i].doc.old
             /\ narrow => t[i].file = "settings" /\ ~t[i].soft
  <2>1. i + k \in 1..Len(s) /\ t[i] = s[i + k]
    BY <1>1
  <2>2. /\ (i + k) + 1 - 1 = i + k /\ (i + 1) - 1 = i /\ i + 1 > 1
        /\ (i + k < Len(s) => i < Len(t) /\ t[i + 1] = s[(i + k) + 1])
    <3>1. i + k < Len(s) => i + 1 \in 1..Len(s) - k /\ (i + 1) + k = (i + k) + 1
      BY <1>1
    <3>2. QED
      BY <1>1, <3>1
  <2>3. i > 1 => t[i - 1] = s[(i + k) - 1]
    <3>1. i > 1 => i - 1 \in 1..Len(s) - k /\ (i - 1) + k = (i + k) - 1
      BY <1>1
    <3>2. QED
      BY <3>1
  <2>4. i = 1 => (i + k) - 1 = k
    BY <1>1
  <2>5. /\ s[i + k].copy = "backup" =>
             i + k < Len(s) /\ s[(i + k) + 1].copy = "primary" /\ Twin(s, (i + k) + 1)
        /\ s[i + k].copy = "primary" => Twin(s, i + k) \/ s[i + k].file \in backed
        /\ s[i + k].file = "settings" =>
             Settings!Normalized(s[i + k].doc) = target /\ ~s[i + k].doc.old
        /\ narrow => s[i + k].file = "settings" /\ ~s[i + k].soft
    BY <2>1 DEF PlanFits
  <2>6. ASSUME i + k < Len(s), Twin(s, (i + k) + 1) PROVE Twin(t, i + 1)
    <3> DEFINE n == (i + k) + 1
               m == i + 1
    <3>1. n - 1 = i + k /\ m - 1 = i /\ m > 1 /\ t[m] = s[n]
      BY <2>2, <2>6
    <3>2. Twin(s, n)
      BY <2>6
    <3> HIDE DEF n, m
    <3>3. Twin(t, m)
      BY <2>1, <3>1, <3>2 DEF Twin
    <3>4. QED
      BY <3>3 DEF m
  <2>7. Twin(s, i + k) => Twin(t, i) \/ s[i + k].file \in backed
    <3>1. CASE i = 1
      BY <2>4, <3>1 DEF Twin
    <3>2. CASE i > 1
      BY <2>1, <2>3, <3>2 DEF Twin
    <3>3. QED
      BY <1>1, <3>1, <3>2
  <2>8. QED
    BY <2>1, <2>2, <2>5, <2>6, <2>7
<1>3. QED
  BY <1>2 DEF PlanFits

\* More recovery copies only help, and a plan begins with a write that may be done.
LEMMA FirstFits ==
  ASSUME NEW s, NEW target, NEW narrow, NEW backed, NEW more,
         PlanFits(s, target, narrow, backed), s # <<>>, backed \subseteq more
  PROVE  /\ PlanFits(s, target, narrow, more)
         /\ s[1].copy = "backup" =>
              /\ Len(s) > 1 /\ s[2].copy = "primary"
              /\ s[2].file = s[1].file /\ s[2].doc = s[1].doc
         /\ s[1].copy = "primary" => s[1].file \in backed
<1>1. s \in Seq(Settings!Writes) /\ Len(s) \in Nat /\ Len(s) > 0
  BY DEF PlanFits
<1>2. 1 \in 1..Len(s) /\ 1 + 1 = 2 /\ 2 - 1 = 1
  BY <1>1
<1>3. PlanFits(s, target, narrow, more)
  BY DEF PlanFits
<1>4. s[1].copy = "primary" => s[1].file \in backed
  BY <1>1, <1>2 DEF PlanFits, Twin
<1>5. ASSUME s[1].copy = "backup"
      PROVE  /\ Len(s) > 1 /\ s[2].copy = "primary"
             /\ s[2].file = s[1].file /\ s[2].doc = s[1].doc
  BY <1>2, <1>5 DEF PlanFits, Twin
<1>6. QED
  BY <1>3, <1>4, <1>5

\* What is left after the first write, and after a save that was given up.
LEMMA RestFits ==
  ASSUME NEW s, NEW target, NEW narrow, NEW backed, PlanFits(s, target, narrow, backed),
         s # <<>>
  PROVE  /\ s[1].copy = "primary" \/ s[1].file \in backed =>
              PlanFits(Tail(s), target, narrow, backed)
         /\ s[1].copy = "backup" => PlanFits(Tail(Tail(s)), target, narrow, backed)
<1>1. s \in Seq(Settings!Writes) /\ Len(s) \in Nat /\ Len(s) > 0
  BY DEF PlanFits
<1>2. ASSUME NEW q \in Seq(Settings!Writes), Len(q) > 0
      PROVE  /\ Tail(q) \in Seq(Settings!Writes) /\ Len(Tail(q)) = Len(q) - 1
             /\ \A i \in 1..Len(q) - 1 : Tail(q)[i] = q[i + 1]
  BY <1>2
<1>3. s[1].copy = "primary" \/ s[1].file \in backed =>
        PlanFits(Tail(s), target, narrow, backed)
  <2>1. 1 \in 1..Len(s)
    BY <1>1
  <2>2. QED
    BY <1>1, <1>2, <2>1, DropFits
<1>4. ASSUME s[1].copy = "backup" PROVE PlanFits(Tail(Tail(s)), target, narrow, backed)
  <2>1. Len(s) > 1 /\ s[2].copy = "primary"
    BY <1>4, FirstFits
  <2>2. /\ Tail(s) \in Seq(Settings!Writes) /\ Len(Tail(s)) = Len(s) - 1
        /\ Len(s) - 1 > 0 /\ (Len(s) - 1) - 1 = Len(s) - 2
    BY <1>1, <1>2, <2>1
  <2> DEFINE q == Tail(s)
  <2> HIDE DEF q
  <2>3. /\ Tail(q) \in Seq(Settings!Writes) /\ Len(Tail(q)) = Len(s) - 2
        /\ \A i \in 1..Len(s) - 2 : Tail(q)[i] = q[i + 1]
    BY <1>2, <2>2 DEF q
  <2>4. \A i \in 1..Len(s) - 2 : i + 1 \in 1..Len(s) - 1 /\ (i + 1) + 1 = i + 2
    BY <1>1
  <2>5. 2 \in 1..Len(s) /\ \A i \in 1..Len(s) - 2 : Tail(Tail(s))[i] = s[i + 2]
    BY <1>1, <1>2, <2>1, <2>3, <2>4 DEF q
  <2>6. QED
    BY <2>1, <2>3, <2>5, DropFits DEF q
<1>5. QED
  BY <1>3, <1>4

\* A save of the settings that was not begun or not finished.
LEMMA NarrowFirst ==
  ASSUME NEW s, NEW target, NEW backed, PlanFits(s, target, TRUE, backed), s # <<>>
  PROVE  \E i \in 1..Len(s) : s[i].file = "settings" /\ s[i].copy = "primary"
<1>1. s \in Seq(Settings!Writes) /\ Len(s) \in Nat /\ 1 \in 1..Len(s)
  BY DEF PlanFits
<1>2. s[1].file = "settings" /\ s[1].copy \in {"primary", "backup"}
  <2>1. s[1] \in Settings!Writes
    BY <1>1
  <2>2. QED
    BY <1>1, <2>1, WritesAre, DocumentsAre DEF PlanFits
<1>3. CASE s[1].copy = "primary"
  BY <1>1, <1>2, <1>3
<1>4. CASE s[1].copy = "backup"
  <2>1. Len(s) > 1 /\ s[2].copy = "primary" /\ s[2].file = "settings"
    BY <1>1, <1>2, <1>4, FirstFits
  <2>2. 2 \in 1..Len(s)
    BY <1>1, <2>1
  <2>3. QED
    BY <2>1, <2>2
<1>5. QED
  BY <1>2, <1>3, <1>4

\* What a loss of power leaves.
LEMMA RevertedIs ==
  /\ unsynced = <<>> => Settings!Reverted = settingsDisk
  /\ FileTypes =>
       \A g \in Settings!Files, b \in Settings!Copies : \A x : unsynced = <<<<g, b>>, x>> =>
         /\ DOMAIN Settings!Reverted = Settings!Files
         /\ \A f \in Settings!Files : DOMAIN Settings!Reverted[f] = Settings!Copies
         /\ \A f \in Settings!Files, c \in Settings!Copies :
              Settings!Reverted[f][c] = IF f = g /\ c = b THEN x ELSE settingsDisk[f][c]
<1>1. unsynced = <<>> => Settings!Reverted = settingsDisk
  BY DEF Settings!Reverted
<1>2. ASSUME FileTypes, NEW g \in Settings!Files, NEW b \in Settings!Copies, NEW x,
             unsynced = <<<<g, b>>, x>>
      PROVE  /\ DOMAIN Settings!Reverted = Settings!Files
             /\ \A f \in Settings!Files : DOMAIN Settings!Reverted[f] = Settings!Copies
             /\ \A f \in Settings!Files, c \in Settings!Copies :
                  Settings!Reverted[f][c] = IF f = g /\ c = b THEN x ELSE settingsDisk[f][c]
  <2>1. unsynced # <<>> /\ unsynced[1][1] = g /\ unsynced[1][2] = b /\ unsynced[2] = x
    BY <1>2
  <2>2. Settings!Reverted = [settingsDisk EXCEPT ![g][b] = x]
    BY <2>1 DEF Settings!Reverted
  <2>3. /\ DOMAIN settingsDisk = Settings!Files
        /\ \A f \in Settings!Files : DOMAIN settingsDisk[f] = Settings!Copies
    BY <1>2 DEF FileTypes
  <2>4. QED
    BY ONLY <2>2, <2>3, g \in Settings!Files, b \in Settings!Copies
<1>3. QED
  BY <1>1, <1>2

\* Two disks with the same copies.
LEMMA HeldSame ==
  ASSUME NEW d, NEW e, Held(d),
         \A f \in Settings!Files, c \in Settings!Copies : e[f][c] = d[f][c]
  PROVE  Held(e)
BY DocumentsAre DEF Held

\* What a start reads.
LEMMA ReadIs ==
  ASSUME Held(settingsDisk), NEW f \in Settings!Files
  PROVE  LET x == Settings!Read(settingsDisk[f])
         IN /\ x \in Contents(f)
            /\ settingsDisk[f]["primary"] \in Settings!Docs[f] => x = settingsDisk[f]["primary"]
            /\ Settings!Restoring(f) # <<>> => x = settingsDisk[f]["backup"]
<1>1. /\ settingsDisk[f]["primary"] \in Contents(f) /\ settingsDisk[f]["backup"] \in Contents(f)
      /\ Settings!Missing \in Contents(f) /\ Settings!Bad \in Contents(f)
  BY DocumentsAre DEF Held, Contents
<1>2. \A x \in Settings!Docs[f] : Settings!Valid(x)
  BY DocumentsAre DEF Settings!Valid
<1>3. QED
  BY <1>1, <1>2 DEF Settings!Read, Settings!Restoring

\* A function begins, ends or gives up a write between two writes: nothing on disk
\* changes.
LEMMA BeginKeeps ==
  ASSUME FilesInv, Settings!Writing => ~job.renamed,
         UNCHANGED <<settingsDisk, unsynced, kept, open, damaged>>,
         FileTypes', settings' = Settings!Normalized(settings'),
         serverState' \in {"down", "refused"} => job' = Settings!NoJob,
         serverState' = "loading" => job'.name \in {"start", "refuse"},
         \/ job' = Settings!NoJob
         \/ /\ job'.renamed = FALSE
            /\ PlanFits(job'.todo, Target(job', settings'), Narrow(job'), Backed)
            /\ Narrow(job') => Len(job'.todo) = 2 /\ job'.todo[1].copy = "backup",
         /\ serverState' \in {"loading", "running"} /\ kept["settings"] # Settings!Missing
         /\ <<"settings", "primary">> \notin damaged
         => Settings!Normalized(settingsDisk["settings"]["primary"]) = settings'
  PROVE  FilesInv'
<1>1. unsynced = <<>> /\ unsynced' = <<>>
  BY DEF FilesInv, JobFits
<1>2. Settings!Reverted' = settingsDisk' /\ Settings!Reverted = settingsDisk
  BY <1>1 DEF Settings!Reverted
<1>3. Settings!NoJob.todo = <<>> /\ Settings!NoJob.name = "none" /\ ~Narrow(Settings!NoJob)
  BY DEF Settings!NoJob, Narrow
<1>4. /\ PlanFits(job'.todo, Target(job', settings'), Narrow(job'), Backed)
      /\ Narrow(job') => /\ Len(job'.todo) <= 2
                         /\ (Len(job'.todo) = 2 => job'.todo[1].copy = "backup")
                         /\ job'.todo # <<>> /\ job'.renamed = FALSE
      /\ job'.todo # <<>> => job'.renamed = FALSE
  <2>1. CASE job' = Settings!NoJob
    <3>1. PlanFits(<<>>, Target(job', settings'), FALSE, Backed)
      BY DEF PlanFits
    <3>2. ~Narrow(job') /\ Narrow(job') = FALSE /\ job'.todo = <<>>
      BY <1>3, <2>1 DEF Narrow
    <3>3. QED
      BY <3>1, <3>2
  <2>2. CASE job' # Settings!NoJob
    <3>1. Narrow(job') => job'.todo # <<>>
      BY <2>2 DEF Narrow
    <3>2. PlanFits(job'.todo, Target(job', settings'), Narrow(job'), Backed)
      BY <2>2
    <3>3. job'.renamed = FALSE
      BY <2>2
    <3>4. Narrow(job') => Len(job'.todo) = 2 /\ job'.todo[1].copy = "backup"
      BY <2>2 DEF Narrow
    <3>5. Narrow(job') => Len(job'.todo) <= 2
      <4>1. 2 <= 2
        OBVIOUS
      <4>2. QED
        BY ONLY <3>4, <4>1, Zenon
    <3>6. QED
      BY ONLY <3>1, <3>2, <3>3, <3>4, <3>5
  <2>3. QED
    BY <2>1, <2>2
<1>5. JobFits'
  <2>1. Backed' = Backed
    BY DEF Backed
  <2>2. (PlanFits(job.todo, Target(job, settings), Narrow(job), Backed))'
    BY <1>4, <2>1, NextPlanFits
  <2>3. QED
    BY <1>1, <1>4, <2>2 DEF JobFits, Settings!Writing, Narrow
<1>6. Held(settingsDisk)' /\ Held(Settings!Reverted)'
  BY <1>2 DEF FilesInv, Held, Settings!Twofold, Contents
<1>7. PrimaryFits'
  BY <1>2 DEF FilesInv, PrimaryFits, Found, WritingPrimary
<1>8. MemoryFits'
  <2>1. CASE Narrow(job')
    <3>1. Waits'
      <4>1. PlanFits(job'.todo, Target(job', settings'), TRUE, Backed)
        BY <1>4, <2>1 DEF Narrow
      <4>2. \E i \in 1..Len(job'.todo) :
              job'.todo[i].file = "settings" /\ job'.todo[i].copy = "primary"
        BY <1>4, <2>1, <4>1, NarrowFirst
      <4>3. QED
        BY <1>4, <2>1, <4>2 DEF Waits
    <3>2. QED
      BY <3>1 DEF MemoryFits
  <2>2. CASE ~Narrow(job')
    <3>1. Target(job', settings') = settings'
      BY <2>2 DEF Target
    <3>2. QED
      BY <3>1 DEF MemoryFits, Target, Narrow
  <2>3. QED
    BY <2>1, <2>2
<1>9. QED
  BY <1>5, <1>6, <1>7, <1>8 DEF FilesInv

\* readPrivateJson() and what loadSettings() and init() make of it.
LEMMA SettingsStartKeeps == ASSUME FilesInv, Settings!Start PROVE FilesInv'
<1> DEFINE s == Settings!Read(settingsDisk["settings"])
           r == Settings!Read(settingsDisk["registry"])
           found == IF s = Settings!Missing THEN Settings!Doc(0, FALSE, FALSE) ELSE s
           wants == (r = Settings!Missing \/ r.on) /\ ~(found.old /\ found.off)
           rewriting == IF found.old
                        THEN Settings!Saving("settings", Settings!Normalized(found), TRUE)
                        ELSE <<>>
           persisting == IF (r = Settings!Missing \/ r.on) # wants
                         THEN Settings!Saving("registry", Settings!Switch(wants), FALSE)
                         ELSE <<>>
           first == Settings!Restoring("settings") \o rewriting
           second == first \o Settings!Restoring("registry") \o persisting
                       \o Settings!Saving("registry", Settings!Switch(wants), FALSE)
<1>1. /\ serverState \in {"down", "refused"} /\ job = Settings!NoJob
      /\ UNCHANGED <<settingsDisk, unsynced, legacy, imports, requests, troubles, kept, open,
                     damaged>>
  BY DEF Settings!Start, FilesInv, JobFits, Settings!history
<1>2. ~Settings!Writing
  BY <1>1 DEF Settings!Writing, Settings!NoJob
<1>3. /\ "settings" \in Settings!Files /\ "registry" \in Settings!Files
      /\ Held(settingsDisk)
  BY DocumentsAre DEF FilesInv
<1>4. s \in Contents("settings") /\ r \in Contents("registry")
  BY <1>3, ReadIs
<1>5. CASE s = Settings!Bad
  <2>1. serverState' = "refused" /\ UNCHANGED <<settings, on, job>>
    BY <1>5 DEF Settings!Start
  <2>2. FileTypes'
    BY <1>1, <2>1 DEF FilesInv, FileTypes
  <2>3. settings' = Settings!Normalized(settings')
    BY <2>1 DEF FilesInv, JobFits
  <2>4. QED
    BY <1>1, <1>2, <2>1, <2>2, <2>3, BeginKeeps
<1>6. CASE s # Settings!Bad
  <2>1. found \in Settings!SettingsDocs
    <3>1. Settings!Doc(0, FALSE, FALSE) \in Settings!SettingsDocs
      <4>1. 0 \in 0..MaxSettingsRequests
        BY BoundsAssumption
      <4>2. QED
        BY <4>1, DocumentsAre
    <3>2. QED
      BY <1>4, <1>6, <3>1, DocumentsAre DEF Contents
  <2>2. /\ serverState' = "loading" /\ settings' = Settings!Normalized(found)
        /\ \/ r = Settings!Bad /\ on' = on /\ job' = Settings!Begin("refuse", first, settings')
           \/ /\ r # Settings!Bad /\ on' = wants
              /\ job' = Settings!Begin("start", second, settings')
    BY <1>6 DEF Settings!Start
  <2>3. /\ settings' \in Settings!SettingsDocs /\ ~settings'.old
        /\ settings' = Settings!Normalized(settings')
    BY <2>1, <2>2, DocumentsAre
  <2>4. PlanFits(first, settings', FALSE, Backed)
    <3>1. Settings!Restoring("settings") # <<>> => settingsDisk["settings"]["backup"] = found
      <4>1. Settings!Restoring("settings") # <<>> =>
              s = settingsDisk["settings"]["backup"] /\ s # Settings!Missing
        BY <1>3, ReadIs DEF Settings!Restoring, Settings!Valid
      <4>2. QED
        BY <4>1
    <3>2. PlanFits(Settings!Restoring("settings"), settings', FALSE, Backed)
      BY <1>3, <2>2, <3>1, RestoringFits
    <3>3. PlanFits(rewriting, settings', FALSE, Backed)
      <4> DEFINE x == Settings!Normalized(found)
      <4>1. x \in Settings!Docs["settings"] /\ Settings!Normalized(x) = settings' /\ ~x.old
        BY <2>1, <2>2, DocumentsAre
      <4>2. /\ PlanFits(<<>>, settings', FALSE, Backed)
            /\ PlanFits(Settings!Saving("settings", x, TRUE), settings', FALSE, Backed)
        BY <1>3, <4>1, SavingFits
      <4>3. QED
        BY <4>2
    <3>4. QED
      BY <3>2, <3>3, JoinFits
  <2>5. wants \in BOOLEAN /\ (r # Settings!Bad => PlanFits(second, settings', FALSE, Backed))
    <3>1. wants \in BOOLEAN
      OBVIOUS
    <3>2. ASSUME r # Settings!Bad PROVE PlanFits(second, settings', FALSE, Backed)
      <4> DEFINE a == Settings!Restoring("registry")
                 c == Settings!Saving("registry", Settings!Switch(wants), FALSE)
      <4>1. PlanFits(a, settings', FALSE, Backed)
        BY <1>3, RestoringFits
      <4>2. Settings!Switch(wants) \in Settings!Docs["registry"]
        BY <3>1, DocumentsAre
      <4>3. PlanFits(<<>>, settings', FALSE, Backed) /\ PlanFits(c, settings', FALSE, Backed)
        <5> HIDE DEF wants
        <5>1. QED
          BY <1>3, <4>2, SavingFits
      <4>4. PlanFits(persisting, settings', FALSE, Backed)
        BY <4>3
      <4> HIDE DEF first, persisting, a, c
      <4>5. PlanFits(first \o a, settings', FALSE, Backed)
        BY <2>4, <4>1, JoinFits
      <4>6. PlanFits((first \o a) \o persisting, settings', FALSE, Backed)
        BY <4>4, <4>5, JoinFits
      <4>7. PlanFits(((first \o a) \o persisting) \o c, settings', FALSE, Backed)
        BY <4>3, <4>6, JoinFits
      <4>8. QED
        BY <4>7 DEF a, c
    <3>3. QED
      BY <3>1, <3>2
  <2>6. /\ kept["settings"] # Settings!Missing /\ <<"settings", "primary">> \notin damaged
        => Settings!Normalized(settingsDisk["settings"]["primary"]) = settings'
    <3>1. ASSUME kept["settings"] # Settings!Missing, <<"settings", "primary">> \notin damaged
          PROVE  settingsDisk["settings"]["primary"] \in Settings!Docs["settings"]
      BY <1>3, <3>1, DocumentsAre DEF Held, Contents
    <3>2. settingsDisk["settings"]["primary"] \in Settings!Docs["settings"] =>
            s = settingsDisk["settings"]["primary"] /\ s # Settings!Missing
      BY <1>3, ReadIs, DocumentsAre
    <3>3. QED
      BY <2>2, <3>1, <3>2
  <2> HIDE DEF s, r, found, wants, first, second
  <2>7. /\ job'.renamed = FALSE /\ ~Narrow(job') /\ Narrow(job') = FALSE
        /\ job'.name \in {"start", "refuse"}
        /\ PlanFits(job'.todo, settings', FALSE, Backed)
        /\ job' \in Settings!Jobs
    <3>1. PICK name \in {"start", "refuse"}, todo \in Seq(Settings!Writes) :
            /\ job' = Settings!Begin(name, todo, settings')
            /\ PlanFits(todo, settings', FALSE, Backed)
      <4>1. \/ first \in Seq(Settings!Writes) /\ PlanFits(first, settings', FALSE, Backed)
               /\ job' = Settings!Begin("refuse", first, settings')
            \/ second \in Seq(Settings!Writes) /\ PlanFits(second, settings', FALSE, Backed)
               /\ job' = Settings!Begin("start", second, settings')
        BY <2>2, <2>4, <2>5 DEF PlanFits
      <4>2. QED
        BY <4>1
    <3>2. todo \in Seq(Settings!Writes)
      OBVIOUS
    <3>3. job' = [name |-> name, todo |-> todo, renamed |-> FALSE, doc |-> settings']
      BY <3>1 DEF Settings!Begin
    <3>4. job' \in Settings!Jobs
      BY <2>3, <3>2, <3>3 DEF Settings!Jobs
    <3>5. job'.renamed = FALSE /\ job'.todo = todo /\ job'.name = name
      BY <3>3
    <3>6. ~Narrow(job') /\ Narrow(job') = FALSE
      BY <3>5 DEF Narrow
    <3>7. QED
      BY <3>1, <3>4, <3>5, <3>6
  <2>8. FileTypes'
    BY <1>1, <2>2, <2>3, <2>5, <2>7 DEF FilesInv, FileTypes
  <2>9. PlanFits(job'.todo, Target(job', settings'), Narrow(job'), Backed)
    BY <2>7 DEF Target
  <2>10. QED
    BY <1>1, <1>2, <2>2, <2>3, <2>6, <2>7, <2>8, <2>9, BeginKeeps
<1>7. QED
  BY <1>5, <1>6

\* The functions that write.
Functions == {"start", "set", "import", "flags", "export", "toggle", "refuse"}

\* What a function that begins is.
LEMMA BegunIs ==
  ASSUME NEW name \in Functions, NEW todo \in Seq(Settings!Writes),
         NEW x \in Settings!SettingsDocs
  PROVE  /\ Settings!Begin(name, todo, x) \in Settings!Jobs
         /\ Settings!Begin(name, todo, x) # Settings!NoJob
         /\ Settings!Begin(name, todo, x).name = name
         /\ Settings!Begin(name, todo, x).todo = todo
         /\ Settings!Begin(name, todo, x).renamed \in {FALSE}
         /\ Settings!Begin(name, todo, x).doc = x
<1> DEFINE j == [name |-> name, todo |-> todo, renamed |-> FALSE, doc |-> x]
<1>1. j.name = name /\ j.todo = todo /\ j.renamed = FALSE /\ j.doc = x
  OBVIOUS
<1>2. j \in Settings!Jobs
  BY DEF Settings!Jobs, Functions
<1>3. Settings!NoJob.name = "none" /\ name # "none"
  BY DEF Settings!NoJob, Functions
<1>4. Settings!Begin(name, todo, x) = j
  BY DEF Settings!Begin
<1> HIDE DEF j
<1>5. QED
  BY <1>1, <1>2, <1>3, <1>4

\* A function that saves one document begins.
LEMMA SaveKeeps ==
  ASSUME FilesInv, ~Settings!Writing,
         UNCHANGED <<settingsDisk, unsynced, kept, open, damaged>>,
         serverState' = "running", settings' \in Settings!SettingsDocs,
         settings' = Settings!Normalized(settings'), on' \in BOOLEAN,
         legacy' \in {Settings!None, "on", "off"}, imports' \in Seq(Settings!SettingsDocs),
         requests' \in 0..MaxSettingsRequests, troubles' \in 0..MaxTroubles,
         NEW name \in Functions, NEW f \in Settings!Files, NEW x \in Settings!Docs[f],
         NEW soft \in BOOLEAN, NEW y \in Settings!SettingsDocs,
         \/ job' = Settings!NoJob
         \/ job' = Settings!Begin(name, Settings!Saving(f, x, soft), y),
         f = "settings" => /\ ~x.old
                           /\ Settings!Normalized(x) = IF name \in {"set", "import"}
                                                       THEN Settings!Normalized(y) ELSE settings',
         name \in {"set", "import"} => f = "settings" /\ ~soft,
         /\ kept["settings"] # Settings!Missing /\ <<"settings", "primary">> \notin damaged
         => Settings!Normalized(settingsDisk["settings"]["primary"]) = settings'
  PROVE  FilesInv'
<1> DEFINE todo == Settings!Saving(f, x, soft)
           target == IF name \in {"set", "import"} THEN Settings!Normalized(y) ELSE settings'
           narrow == name \in {"set", "import"}
<1>1. PlanFits(todo, target, narrow, Backed)
  <2>1. narrow \in BOOLEAN
    OBVIOUS
  <2>2. f = "settings" => ~x.old /\ Settings!Normalized(x) = target
    OBVIOUS
  <2>3. narrow => f = "settings" /\ ~soft
    OBVIOUS
  <2> HIDE DEF target, narrow
  <2>4. QED
    BY <2>1, <2>2, <2>3, SavingFits
<1>2. todo \in Seq(Settings!Writes) /\ Len(todo) = 2 /\ todo[1].copy = "backup"
  <2>1. Len(todo) = 2 /\ todo[1].copy = "backup"
    BY DEF Settings!Saving
  <2>2. QED
    BY <1>1, <2>1 DEF PlanFits
<1> HIDE DEF todo
<1>3. Settings!NoJob \in Settings!Jobs
  BY DEF Settings!Jobs
<1>4. \/ job' = Settings!NoJob
      \/ /\ job' \in Settings!Jobs /\ job' # Settings!NoJob
         /\ job'.name = name /\ job'.todo = todo /\ job'.renamed = FALSE /\ job'.doc = y
  <2>1. CASE job' = Settings!Begin(name, todo, y)
    <3> DEFINE b == Settings!Begin(name, todo, y)
    <3>1. /\ b \in Settings!Jobs /\ b # Settings!NoJob
          /\ b.name = name /\ b.todo = todo /\ b.renamed \in {FALSE} /\ b.doc = y
      <4>1. todo \in Seq(Settings!Writes) /\ name \in Functions /\ y \in Settings!SettingsDocs
        BY <1>2
      <4>2. QED
        BY ONLY <4>1, BegunIs, ZenonT(30)
    <3>2. job' = b
      BY <2>1
    <3> HIDE DEF b
    <3>3. QED
      BY ONLY <3>1, <3>2
  <2>2. job' = Settings!NoJob \/ job' = Settings!Begin(name, todo, y)
    BY DEF todo
  <2>3. QED
    BY <2>1, <2>2
<1>5. FileTypes'
  BY <1>3, <1>4 DEF FilesInv, FileTypes
<1>6. CASE job' = Settings!NoJob
  <2>1. serverState' \notin {"down", "refused"}
    OBVIOUS
  <2>2. QED
    BY <1>5, <1>6, BeginKeeps
<1>7. CASE job' # Settings!NoJob
  <2>1. /\ job' \in Settings!Jobs
        /\ job'.name = name /\ job'.todo = todo /\ job'.renamed = FALSE /\ job'.doc = y
    BY <1>4, <1>7
  <2>2. Target(job', settings') = target /\ Narrow(job') = narrow
    BY <2>1 DEF Target, Narrow
  <2>3. PlanFits(job'.todo, Target(job', settings'), Narrow(job'), Backed)
    <3> HIDE DEF target, narrow
    <3>1. QED
      BY <1>1, <2>1, <2>2
  <2>4. Narrow(job') => Len(job'.todo) = 2 /\ job'.todo[1].copy = "backup"
    BY <1>2, <2>1
  <2>5. serverState' \notin {"down", "refused"}
    OBVIOUS
  <2>6. QED
    BY <1>5, <2>1, <2>3, <2>4, <2>5, BeginKeeps
<1>8. QED
  BY <1>6, <1>7

\* The requests of the browsers.
LEMMA SettingsAsksKeep == ASSUME FilesInv, Settings!Asks PROVE FilesInv'
<1>1. /\ serverState = "running" /\ job = Settings!NoJob /\ ~Settings!Writing
      /\ UNCHANGED <<settingsDisk, unsynced, kept, open, damaged, serverState, settings,
                     troubles>>
  <2>1. /\ Settings!Idle
        /\ UNCHANGED <<settingsDisk, unsynced, serverState, settings, troubles, kept, open,
                       damaged>>
    <3>1. CASE Settings!Set
      BY <3>1 DEF Settings!Set, Settings!history
    <3>2. CASE Settings!Export
      BY <3>2 DEF Settings!Export, Settings!history
    <3>3. CASE Settings!Import
      BY <3>3 DEF Settings!Import, Settings!history
    <3>4. CASE Settings!Toggle
      BY <3>4 DEF Settings!Toggle, Settings!history
    <3>5. ASSUME NEW old, NEW off, Settings!ReadImport(old, off)
          PROVE  /\ Settings!Idle
                 /\ UNCHANGED <<settingsDisk, unsynced, serverState, settings, troubles, kept,
                                open, damaged>>
      BY <3>5 DEF Settings!ReadImport, Settings!history
    <3>6. QED
      BY <3>1, <3>2, <3>3, <3>4, <3>5 DEF Settings!Asks
  <2>2. QED
    BY <2>1 DEF Settings!Idle, Settings!Writing, Settings!NoJob
<1>2. /\ settings \in Settings!SettingsDocs /\ settings = Settings!Normalized(settings)
      /\ ~settings.old /\ on \in BOOLEAN /\ legacy \in {Settings!None, "on", "off"}
      /\ imports \in Seq(Settings!SettingsDocs) /\ requests \in 0..MaxSettingsRequests
      /\ troubles \in 0..MaxTroubles
  BY DocumentsAre DEF FilesInv, FileTypes, JobFits
<1>3. /\ kept["settings"] # Settings!Missing /\ <<"settings", "primary">> \notin damaged
      => Settings!Normalized(settingsDisk["settings"]["primary"]) = settings
  BY <1>1 DEF FilesInv, MemoryFits, Waits, Target, Narrow, Settings!NoJob
<1>4. Settings!Request => requests' \in 0..MaxSettingsRequests
  BY <1>2, BoundsAssumption DEF Settings!Request
<1>5. /\ "settings" \in Settings!Files /\ "registry" \in Settings!Files
      /\ Settings!Docs["settings"] = Settings!SettingsDocs
      /\ "set" \in Functions /\ "import" \in Functions /\ "export" \in Functions
      /\ "toggle" \in Functions
  BY DocumentsAre DEF Functions
<1>6. CASE Settings!Set
  <2> DEFINE x == Settings!Doc(requests', FALSE, FALSE)
  <2>1. /\ job' = Settings!Begin("set", Settings!Saving("settings", x, FALSE), x)
        /\ UNCHANGED <<on, legacy, imports>> /\ requests' \in 0..MaxSettingsRequests
    BY <1>4, <1>6 DEF Settings!Set
  <2>2. x \in Settings!SettingsDocs /\ ~x.old
    BY <2>1, DocumentsAre
  <2> HIDE DEF x
  <2>3. QED
    BY <1>1, <1>2, <1>3, <1>5, <2>1, <2>2, SaveKeeps
<1>7. CASE Settings!Export
  <2>1. /\ job' =
             Settings!Begin("export", Settings!Saving("settings", settings, TRUE), settings)
        /\ UNCHANGED <<on, legacy, imports, requests>>
    BY <1>7 DEF Settings!Export
  <2>2. QED
    BY <1>1, <1>2, <1>3, <1>5, <2>1, SaveKeeps
<1>8. CASE Settings!Import
  <2> DEFINE x == Head(imports)
             y == Settings!Normalized(x)
  <2>1. /\ job' = Settings!Begin("import", Settings!Saving("settings", y, FALSE), x)
        /\ imports # <<>> /\ imports' = Tail(imports) /\ UNCHANGED <<on, legacy, requests>>
    BY <1>8 DEF Settings!Import
  <2>2. x \in Settings!SettingsDocs /\ imports' \in Seq(Settings!SettingsDocs)
    BY <1>2, <2>1
  <2>3. /\ y \in Settings!SettingsDocs /\ ~y.old
        /\ Settings!Normalized(y) = Settings!Normalized(x)
    BY <2>2, DocumentsAre
  <2> HIDE DEF x, y
  <2>4. QED
    BY <1>1, <1>2, <1>3, <1>5, <2>1, <2>2, <2>3, SaveKeeps
<1>9. CASE Settings!Toggle
  <2> DEFINE x == Settings!Switch(on')
  <2>1. /\ job' = Settings!Begin("toggle", Settings!Saving("registry", x, FALSE), settings)
        /\ on' = ~on /\ UNCHANGED <<legacy, imports>> /\ requests' \in 0..MaxSettingsRequests
    BY <1>4, <1>9 DEF Settings!Toggle
  <2>2. on' \in BOOLEAN
    BY <1>2, <2>1
  <2>3. x \in Settings!Docs["registry"]
    BY <2>2, DocumentsAre
  <2> HIDE DEF x
  <2>4. QED
    BY <1>1, <1>2, <1>3, <1>5, <2>1, <2>2, <2>3, SaveKeeps
<1>10. ASSUME NEW old \in BOOLEAN, NEW off \in BOOLEAN, off => old,
              Settings!ReadImport(old, off)
       PROVE  FilesInv'
  <2> DEFINE x == Settings!Doc(requests', old, off)
  <2>1. /\ imports' = Append(imports, x) /\ legacy' = Settings!Captured(x)
        /\ UNCHANGED <<on, job>> /\ requests' \in 0..MaxSettingsRequests
    BY <1>4, <1>10 DEF Settings!ReadImport
  <2>2. x \in Settings!SettingsDocs
    BY <1>10, <2>1, DocumentsAre
  <2>3. legacy' \in {Settings!None, "on", "off"}
    BY <1>2, <2>1 DEF Settings!Captured
  <2> HIDE DEF x
  <2>4. imports' \in Seq(Settings!SettingsDocs)
    BY <1>2, <2>1, <2>2
  <2>5. job' = Settings!NoJob
    BY <1>1, <2>1
  <2>6. FALSE \in BOOLEAN
    OBVIOUS
  <2>7. QED
    BY <1>1, <1>2, <1>3, <1>5, <2>1, <2>3, <2>4, <2>5, <2>6, SaveKeeps
<1>11. QED
  BY <1>6, <1>7, <1>8, <1>9, <1>10 DEF Settings!Asks

\* What a function does when all is written.
LEMMA SettingsFinishKeeps == ASSUME FilesInv, Settings!Finish PROVE FilesInv'
<1>1. /\ job # Settings!NoJob /\ ~Settings!Writing /\ serverState \in {"loading", "running"}
      /\ UNCHANGED <<settingsDisk, unsynced, imports, requests, troubles, kept, open, damaged>>
  BY DEF Settings!Finish, Settings!history, FilesInv, JobFits, FileTypes
<1>2. /\ settings \in Settings!SettingsDocs /\ settings = Settings!Normalized(settings)
      /\ on \in BOOLEAN /\ legacy \in {Settings!None, "on", "off"} /\ job \in Settings!Jobs
      /\ imports \in Seq(Settings!SettingsDocs) /\ requests \in 0..MaxSettingsRequests
      /\ troubles \in 0..MaxTroubles
  BY DEF FilesInv, FileTypes, JobFits
<1>3. job.doc \in Settings!SettingsDocs /\ job.name \in Functions
  BY <1>1, <1>2 DEF Settings!Jobs, Functions
<1>4. settings' = Target(job, settings)
  BY DEF Settings!Finish, Target, Narrow
<1>5. settings' \in Settings!SettingsDocs /\ settings' = Settings!Normalized(settings')
  BY <1>2, <1>3, <1>4, DocumentsAre DEF Target
<1>6. on' \in BOOLEAN /\ legacy' \in {Settings!None, "on", "off"}
  BY <1>2 DEF Settings!Finish
<1>7. /\ kept["settings"] # Settings!Missing /\ <<"settings", "primary">> \notin damaged
      => Settings!Normalized(settingsDisk["settings"]["primary"]) = settings'
  <2>1. ~Waits
    BY <1>1 DEF Settings!Writing, Waits
  <2>2. QED
    BY <1>1, <1>4, <2>1 DEF FilesInv, MemoryFits
<1> DEFINE x == Settings!Switch(on')
<1>8. \/ job' = Settings!NoJob
      \/ job' = Settings!Begin("flags", Settings!Saving("registry", x, FALSE), settings')
  BY DEF Settings!Finish
<1>9. x \in Settings!Docs["registry"] /\ "registry" \in Settings!Files /\ "flags" \in Functions
  BY <1>6, DocumentsAre DEF Functions
<1> HIDE DEF x
<1>10. CASE serverState' = "running"
  BY <1>1, <1>2, <1>5, <1>6, <1>7, <1>8, <1>9, <1>10, SaveKeeps
<1>11. CASE serverState' # "running"
  <2>1. job.name = "refuse" /\ serverState' = "refused"
    BY <1>1, <1>11 DEF Settings!Finish, FilesInv, JobFits
  <2>2. job' = Settings!NoJob
    BY <1>2, <2>1 DEF Settings!Finish
  <2>3. FileTypes'
    BY <1>1, <1>2, <1>5, <1>6, <2>1, <2>2 DEF FilesInv, FileTypes, Settings!Jobs
  <2>4. QED
    BY <1>1, <1>5, <2>1, <2>2, <2>3, BeginKeeps
<1>12. QED
  BY <1>10, <1>11

\* The first write of a plan, which is what is being written.
LEMMA WriteIs ==
  ASSUME FilesInv, Settings!Writing
  PROVE  LET w == Settings!Write
         IN /\ w = job.todo[1] /\ w \in Settings!Writes /\ w.file \in Settings!Files
            /\ w.copy \in {"primary", "backup"} /\ w.copy \in Settings!Copies
            /\ w.doc \in Settings!Docs[w.file] /\ w.soft \in BOOLEAN
            /\ w.doc # Settings!Missing /\ w.doc # Settings!Bad
            /\ w.file = "settings" => /\ ~w.doc.old
                                      /\ Settings!Normalized(w.doc) = Target(job, settings)
            /\ w.copy = "primary" => w.file \in Backed
            /\ Narrow(job) => w.file = "settings" /\ ~w.soft
            /\ w.copy = "backup" => Len(job.todo) > 1
            /\ job \in [name : Functions, todo : Seq(Settings!Writes), renamed : BOOLEAN,
                        doc : Settings!SettingsDocs]
            /\ job # Settings!NoJob /\ Len(job.todo) \in Nat /\ 1 \in 1..Len(job.todo)
            /\ serverState \in {"loading", "running"}
<1> DEFINE s == job.todo
           w == s[1]
<1>1. /\ PlanFits(s, Target(job, settings), Narrow(job), Backed) /\ s # <<>>
      /\ job \in Settings!Jobs
  BY DEF FilesInv, JobFits, FileTypes, Settings!Writing
<1>2. s \in Seq(Settings!Writes) /\ Len(s) \in Nat /\ 1 \in 1..Len(s) /\ w \in Settings!Writes
  BY <1>1 DEF PlanFits
<1>3. Settings!Write = w
  BY <1>1, <1>2 DEF Settings!Write
<1>4. job # Settings!NoJob
  BY <1>1 DEF Settings!NoJob
<1>5. serverState \in {"loading", "running"}
  BY <1>4 DEF FilesInv, FileTypes, JobFits
<1>6. job \in [name : Functions, todo : Seq(Settings!Writes), renamed : BOOLEAN,
               doc : Settings!SettingsDocs]
  BY <1>1, <1>4 DEF Settings!Jobs, Functions
<1>7. /\ w.file = "settings" => ~w.doc.old /\ Settings!Normalized(w.doc) = Target(job, settings)
      /\ Narrow(job) => w.file = "settings" /\ ~w.soft
  BY <1>1, <1>2 DEF PlanFits, Narrow
<1>8. (w.copy = "primary" => w.file \in Backed) /\ (w.copy = "backup" => Len(s) > 1)
  BY <1>1, FirstFits
<1>9. /\ w.file \in Settings!Files /\ w.copy \in {"primary", "backup"}
      /\ w.copy \in Settings!Copies /\ w.doc \in Settings!Docs[w.file] /\ w.soft \in BOOLEAN
  BY <1>2, WritesAre, DocumentsAre
<1>10. w.doc # Settings!Missing /\ w.doc # Settings!Bad
  BY <1>9, DocumentsAre
<1> HIDE DEF w
<1>11. QED
  BY <1>2, <1>3, <1>4, <1>5, <1>6, <1>7, <1>8, <1>9, <1>10 DEF w

\* A write takes the place of its copy; what it held is what a loss of power leaves.
LEMMA RenameKeeps == ASSUME FilesInv, Settings!Rename PROVE FilesInv'
<1> DEFINE w == Settings!Write
           s == job.todo
           was == settingsDisk[w.file][w.copy]
<1>1. /\ Settings!Writing /\ ~job.renamed
      /\ settingsDisk' = [settingsDisk EXCEPT ![w.file][w.copy] = w.doc]
      /\ unsynced' = <<<<w.file, w.copy>>, was>> /\ job' = [job EXCEPT !.renamed = TRUE]
      /\ UNCHANGED <<serverState, settings, on, legacy, imports, requests, troubles, kept, open,
                     damaged>>
  BY DEF Settings!Rename, Settings!history
<1>2. /\ w = s[1] /\ w.file \in Settings!Files /\ w.copy \in {"primary", "backup"}
      /\ w.copy \in Settings!Copies /\ w.doc \in Settings!Docs[w.file]
      /\ w.doc # Settings!Missing /\ w.doc # Settings!Bad
      /\ w.file = "settings" => /\ ~w.doc.old
                                /\ Settings!Normalized(w.doc) = Target(job, settings)
      /\ Narrow(job) => w.file = "settings"
      /\ job \in [name : Functions, todo : Seq(Settings!Writes), renamed : BOOLEAN,
                  doc : Settings!SettingsDocs]
      /\ job # Settings!NoJob /\ Len(s) \in Nat /\ 1 \in 1..Len(s)
  BY <1>1, WriteIs
<1>3. unsynced = <<>> /\ Settings!Reverted = settingsDisk
  BY <1>1, RevertedIs DEF FilesInv, JobFits
<1>4. /\ job' \in [name : Functions, todo : Seq(Settings!Writes), renamed : BOOLEAN,
                   doc : Settings!SettingsDocs]
      /\ job'.todo = s /\ job'.renamed = TRUE /\ job'.name = job.name /\ job'.doc = job.doc
  BY <1>1, <1>2
<1>5. job' \in Settings!Jobs /\ job' # Settings!NoJob
  BY <1>4 DEF Settings!Jobs, Functions, Settings!NoJob
<1>6. Settings!Write' = w /\ Settings!Writing' /\ Settings!Writing
  BY <1>1, <1>4 DEF Settings!Write, Settings!Writing
<1>7. /\ DOMAIN settingsDisk' = Settings!Files
      /\ \A f \in Settings!Files : DOMAIN settingsDisk'[f] = Settings!Copies
      /\ \A f \in Settings!Files, c \in Settings!Copies :
           settingsDisk'[f][c] = IF f = w.file /\ c = w.copy THEN w.doc ELSE settingsDisk[f][c]
  <2>1. /\ DOMAIN settingsDisk = Settings!Files
        /\ \A f \in Settings!Files : DOMAIN settingsDisk[f] = Settings!Copies
    BY DEF FilesInv, FileTypes
  <2> HIDE DEF w
  <2>2. QED
    BY ONLY <1>1, <1>2, <2>1
<1>8. FileTypes'
  BY <1>1, <1>5, <1>7 DEF FilesInv, FileTypes
<1>9. Held(settingsDisk) /\ "settings" \in Settings!Files
      /\ "primary" \in Settings!Copies /\ "backup" \in Settings!Copies
  BY DocumentsAre DEF FilesInv
<1>10. \A f \in Settings!Files, c \in Settings!Copies :
         Settings!Reverted'[f][c] = settingsDisk[f][c]
  <2>1. Settings!Reverted' = [settingsDisk' EXCEPT ![w.file][w.copy] = was]
    BY <1>1 DEF Settings!Reverted
  <2> HIDE DEF w
  <2>2. QED
    BY ONLY <1>2, <1>7, <2>1 DEF was
<1> HIDE DEF w, was
<1>11. Held(settingsDisk)'
  <2>1. ASSUME NEW f \in Settings!Files
        PROVE  /\ \A c \in Settings!Copies :
                    /\ settingsDisk'[f][c] \in Contents(f)
                    /\ settingsDisk'[f][c] = Settings!Bad => <<f, c>> \in damaged
               /\ kept[f] # Settings!Missing => settingsDisk'[f]["primary"] # Settings!Missing
               /\ Settings!Twofold(f) => settingsDisk'[f]["backup"] # Settings!Missing
               /\ f = "settings" =>
                    \/ settingsDisk'[f]["backup"] \in {Settings!Missing, Settings!Bad}
                    \/ ~settingsDisk'[f]["backup"].old
    BY <1>2, <1>7, <1>9 DEF Held, Contents
  <2>2. \A f \in Settings!Files : Settings!Twofold(f)' = Settings!Twofold(f)
    BY <1>1 DEF Settings!Twofold
  <2>3. QED
    BY <1>1, <2>1, <2>2 DEF Held, Contents
<1>12. Held(Settings!Reverted)'
  <2>1. Held(settingsDisk)
    BY <1>9
  <2>2. \A f \in Settings!Files : Settings!Twofold(f)' = Settings!Twofold(f)
    BY <1>1 DEF Settings!Twofold
  <2>3. QED
    BY <1>1, <1>9, <1>10, <2>1, <2>2 DEF Held, Contents
<1>13. PrimaryFits'
  <2>1. \A f \in Settings!Files : Found(f, settingsDisk[f]["primary"])
    BY <1>1 DEF FilesInv, PrimaryFits, WritingPrimary
  <2>2. \A f \in Settings!Files :
          ~WritingPrimary(f)' => settingsDisk'[f]["primary"] = settingsDisk[f]["primary"]
    BY <1>2, <1>4, <1>6, <1>7, <1>9 DEF WritingPrimary
  <2>3. QED
    BY <1>1, <1>9, <1>10, <2>1, <2>2 DEF PrimaryFits, Found
<1>14. JobFits'
  <2>1. Backed \subseteq Backed'
    BY <1>2, <1>7, <1>9 DEF Backed
  <2>2. PlanFits(s, Target(job, settings), Narrow(job), Backed) /\ s # <<>>
    BY <1>1 DEF FilesInv, JobFits, Settings!Writing
  <2>3. PlanFits(s, Target(job, settings), Narrow(job), Backed')
    BY <2>1, <2>2, FirstFits
  <2>4. Target(job', settings') = Target(job, settings) /\ Narrow(job') = Narrow(job)
    BY <1>1, <1>4 DEF Target, Narrow
  <2>5. (PlanFits(job.todo, Target(job, settings), Narrow(job), Backed))'
    BY <1>4, <2>3, <2>4, NextPlanFits
  <2>6. settingsDisk'[w.file][w.copy] = w.doc /\ was \in Contents(w.file)
    BY <1>2, <1>7, <1>9 DEF Held, was
  <2>7. Narrow(job') => Len(s) <= 2 /\ (Len(s) = 2 => s[1].copy = "backup")
    BY <2>4 DEF FilesInv, JobFits
  <2>8. /\ serverState' \notin {"down", "refused"}
        /\ serverState' = "loading" => job'.name \in {"start", "refuse"}
        /\ settings' = Settings!Normalized(settings')
    BY <1>1, <1>2, <1>4 DEF FilesInv, JobFits
  <2>9. \E x \in Contents(w.file) : unsynced' = <<<<w.file, w.copy>>, x>>
    BY <1>1, <2>6
  <2>10. QED
    BY <1>4, <1>5, <1>6, <2>5, <2>6, <2>7, <2>8, <2>9 DEF JobFits, Contents
<1>15. MemoryFits'
  <2>1. CASE w.file = "settings" /\ w.copy = "primary"
    <3>1. settingsDisk'["settings"]["primary"] = w.doc
      BY <1>2, <1>7, <1>9, <2>1
    <3>2. Settings!Normalized(w.doc) = Target(job', settings')
      BY <1>1, <1>2, <1>4, <2>1 DEF Target, Narrow
    <3>3. Narrow(job') => ~Waits'
      <4>1. ASSUME Narrow(job') PROVE Len(s) = 1
        <5>1. Narrow(job)
          BY <1>4, <4>1 DEF Narrow
        <5>2. Len(s) <= 2 /\ (Len(s) = 2 => s[1].copy = "backup")
          BY <5>1 DEF FilesInv, JobFits
        <5>3. Len(s) # 2
          BY <1>2, <2>1, <5>2
        <5>4. Len(s) \in Nat /\ 1 \in 1..Len(s)
          BY <1>2
        <5>5. QED
          BY ONLY <5>2, <5>3, <5>4, LengthsAre, Zenon
      <4>2. QED
        BY <1>4, <4>1 DEF Waits
    <3>4. ~Narrow(job') => Target(job', settings') = settings'
      BY DEF Target
    <3>5. QED
      BY <3>1, <3>2, <3>3, <3>4 DEF MemoryFits, Narrow
  <2>2. CASE ~(w.file = "settings" /\ w.copy = "primary")
    <3>1. settingsDisk'["settings"]["primary"] = settingsDisk["settings"]["primary"]
      BY <1>7, <1>9, <2>2
    <3>2. Waits' <=> Waits
      BY <1>1, <1>2, <1>4, <2>2 DEF Waits
    <3>3. Target(job', settings') = Target(job, settings)
      BY <1>1, <1>4 DEF Target, Narrow
    <3>4. QED
      BY <1>1, <3>1, <3>2, <3>3 DEF MemoryFits, FilesInv
  <2>3. QED
    BY <2>1, <2>2
<1>16. QED
  BY <1>8, <1>11, <1>12, <1>13, <1>14, <1>15 DEF FilesInv

\* Its directory is synced: a primary is kept, and the next copy has its turn.
LEMMA SyncedKeeps == ASSUME FilesInv, Settings!Synced PROVE FilesInv'
<1> DEFINE w == Settings!Write
           s == job.todo
<1>1. /\ Settings!Writing /\ job.renamed /\ unsynced' = <<>>
      /\ job' = [job EXCEPT !.todo = Tail(s), !.renamed = FALSE]
      /\ damaged' = damaged \ {<<w.file, w.copy>>}
      /\ IF w.copy = "primary"
         THEN /\ kept' = [kept EXCEPT ![w.file] = w.doc]
              /\ open' = [open EXCEPT ![w.file] = {}]
         ELSE UNCHANGED <<kept, open>>
      /\ UNCHANGED <<settingsDisk, serverState, settings, on, legacy, imports, requests,
                     troubles>>
  BY DEF Settings!Synced, Settings!history
<1>2. /\ w = s[1] /\ w.file \in Settings!Files /\ w.copy \in {"primary", "backup"}
      /\ w.copy \in Settings!Copies /\ w.doc \in Settings!Docs[w.file]
      /\ w.doc # Settings!Missing /\ w.doc # Settings!Bad
      /\ w.file = "settings" => /\ ~w.doc.old
                                /\ Settings!Normalized(w.doc) = Target(job, settings)
      /\ w.copy = "primary" => w.file \in Backed
      /\ Narrow(job) => w.file = "settings"
      /\ job \in [name : Functions, todo : Seq(Settings!Writes), renamed : BOOLEAN,
                  doc : Settings!SettingsDocs]
      /\ job # Settings!NoJob /\ Len(s) \in Nat /\ 1 \in 1..Len(s)
      /\ serverState \in {"loading", "running"}
  BY <1>1, WriteIs
<1>3. settingsDisk[w.file][w.copy] = w.doc
  BY <1>1 DEF FilesInv, JobFits
<1>4. Settings!Reverted' = settingsDisk' /\ settingsDisk' = settingsDisk
  BY <1>1 DEF Settings!Reverted
<1>5. /\ Tail(s) \in Seq(Settings!Writes) /\ Len(Tail(s)) = Len(s) - 1
      /\ \A i \in 1..Len(s) - 1 : Tail(s)[i] = s[i + 1]
  <2>1. s \in Seq(Settings!Writes) /\ s # <<>> /\ Len(s) > 0
    BY <1>2
  <2>2. QED
    BY <2>1
<1>6. /\ job' \in [name : Functions, todo : Seq(Settings!Writes), renamed : BOOLEAN,
                   doc : Settings!SettingsDocs]
      /\ job'.todo = Tail(s) /\ job'.renamed = FALSE /\ job'.name = job.name
      /\ job'.doc = job.doc
  BY <1>1, <1>2, <1>5
<1>7. job' \in Settings!Jobs
  BY <1>6 DEF Settings!Jobs, Functions
<1>8. /\ "settings" \in Settings!Files /\ "primary" \in Settings!Copies
      /\ "backup" \in Settings!Copies /\ Held(settingsDisk)
  BY DocumentsAre DEF FilesInv
<1>9. /\ DOMAIN kept = Settings!Files /\ DOMAIN open = Settings!Files
      /\ \A f \in Settings!Files : /\ kept[f] \in Settings!Docs[f] \cup {Settings!Missing}
                                   /\ open[f] \subseteq Settings!Docs[f]
      /\ damaged \subseteq Settings!Files \X Settings!Copies
  BY DEF FilesInv, FileTypes
<1>10. /\ DOMAIN kept' = Settings!Files /\ DOMAIN open' = Settings!Files
       /\ \A f \in Settings!Files :
            IF w.copy = "primary" /\ f = w.file THEN kept'[f] = w.doc /\ open'[f] = {}
            ELSE kept'[f] = kept[f] /\ open'[f] = open[f]
       /\ damaged' \subseteq damaged
       /\ \A f \in Settings!Files, c \in Settings!Copies :
            <<f, c>> \in damaged /\ (f # w.file \/ c # w.copy) => <<f, c>> \in damaged'
  <2> HIDE DEF w
  <2>1. QED
    BY <1>1, <1>2, <1>9
<1> HIDE DEF w
<1>11. FileTypes'
  <2>1. \A f \in Settings!Files : /\ kept'[f] \in Settings!Docs[f] \cup {Settings!Missing}
                                  /\ open'[f] \subseteq Settings!Docs[f]
    BY <1>2, <1>9, <1>10
  <2>2. QED
    BY <1>1, <1>7, <1>9, <1>10, <2>1 DEF FilesInv, FileTypes
<1>12. Held(settingsDisk)' /\ Held(Settings!Reverted)'
  <2>1. ASSUME NEW f \in Settings!Files
        PROVE  /\ \A c \in Settings!Copies :
                    /\ settingsDisk[f][c] \in Contents(f)
                    /\ settingsDisk[f][c] = Settings!Bad => <<f, c>> \in damaged'
               /\ f = "settings" =>
                    \/ settingsDisk[f]["backup"] \in {Settings!Missing, Settings!Bad}
                    \/ ~settingsDisk[f]["backup"].old
    BY <1>2, <1>3, <1>8, <1>10 DEF Held
  <2>2. ASSUME NEW f \in Settings!Files
        PROVE  /\ kept'[f] # Settings!Missing => settingsDisk[f]["primary"] # Settings!Missing
               /\ (Settings!Twofold(f))' => settingsDisk[f]["backup"] # Settings!Missing
    <3>1. CASE w.copy = "primary" /\ f = w.file
      BY <1>2, <1>3, <3>1 DEF Backed
    <3>2. CASE ~(w.copy = "primary" /\ f = w.file)
      <4>1. kept'[f] = kept[f]
        BY <1>10, <3>2
      <4>2. QED
        BY <1>8, <4>1 DEF Held, Settings!Twofold
    <3>3. QED
      BY <3>1, <3>2
  <2>3. Held(settingsDisk)'
    BY <1>4, <2>1, <2>2 DEF Held, Contents
  <2>4. QED
    BY <1>4, <2>3 DEF Held
<1>13. PrimaryFits'
  <2>1. ASSUME NEW f \in Settings!Files
        PROVE  Found(f, settingsDisk[f]["primary"])'
    <3>1. CASE w.copy = "primary" /\ f = w.file
      BY <1>3, <1>4, <1>10, <3>1 DEF Found
    <3>2. CASE ~(w.copy = "primary" /\ f = w.file)
      <4>1. ~WritingPrimary(f)
        BY <1>2, <3>2 DEF WritingPrimary, w
      <4>2. Found(f, settingsDisk[f]["primary"])
        BY <4>1 DEF FilesInv, PrimaryFits
      <4>3. kept'[f] = kept[f] /\ open'[f] = open[f]
        BY <1>10, <3>2
      <4>4. <<f, "primary">> \in damaged => <<f, "primary">> \in damaged'
        BY <1>8, <1>10, <3>2
      <4>5. QED
        BY <1>4, <4>2, <4>3, <4>4 DEF Found
    <3>3. QED
      BY <3>1, <3>2
  <2>2. QED
    BY <1>4, <2>1 DEF PrimaryFits, Found
<1>14. JobFits'
  <2>1. PlanFits(s, Target(job, settings), Narrow(job), Backed) /\ s # <<>>
    BY <1>1 DEF FilesInv, JobFits, Settings!Writing
  <2>2. s[1].copy = "primary" \/ s[1].file \in Backed
    BY <1>2, <1>3 DEF Backed
  <2>3. PlanFits(Tail(s), Target(job, settings), Narrow(job), Backed)
    BY <2>1, <2>2, RestFits
  <2>4. /\ Target(job', settings') = Target(job, settings) /\ Narrow(job') = Narrow(job)
        /\ Backed' = Backed
    BY <1>1, <1>6 DEF Target, Narrow, Backed
  <2>5. (PlanFits(job.todo, Target(job, settings), Narrow(job), Backed))'
    BY <1>6, <2>3, <2>4, NextPlanFits
  <2>6. ASSUME Narrow(job') PROVE Len(Tail(s)) <= 1
    <3>1. Narrow(job)
      BY <1>6, <2>6 DEF Narrow
    <3>2. Len(s) <= 2
      BY <3>1 DEF FilesInv, JobFits
    <3>3. QED
      BY <1>2, <1>5, <3>2
  <2>7. Len(Tail(s)) <= 1 => Len(Tail(s)) <= 2 /\ Len(Tail(s)) # 2
    <3>1. Len(Tail(s)) \in Nat
      BY <1>5
    <3>2. QED
      BY ONLY <3>1, LengthsAre, Zenon
  <2>8. /\ serverState' \notin {"down", "refused"}
        /\ serverState' = "loading" => job'.name \in {"start", "refuse"}
        /\ settings' = Settings!Normalized(settings')
    BY <1>1, <1>2, <1>6 DEF FilesInv, JobFits
  <2>9. QED
    BY <1>1, <1>6, <2>5, <2>6, <2>7, <2>8 DEF JobFits
<1>15. MemoryFits'
  <2>1. Target(job', settings') = Target(job, settings) /\ settings' = settings
    BY <1>1, <1>6 DEF Target, Narrow
  <2>2. CASE w.file = "settings" /\ w.copy = "primary"
    <3>1. Settings!Normalized(settingsDisk["settings"]["primary"]) = Target(job, settings)
      BY <1>2, <1>3, <2>2
    <3>2. Narrow(job') => ~Waits'
      <4>1. ASSUME Narrow(job') PROVE Len(s) = 1
        <5>1. Narrow(job)
          BY <1>6, <4>1 DEF Narrow
        <5>2. Len(s) <= 2 /\ (Len(s) = 2 => s[1].copy = "backup")
          BY <5>1 DEF FilesInv, JobFits
        <5>3. Len(s) # 2
          BY <1>2, <2>2, <5>2
        <5>4. Len(s) \in Nat /\ 1 \in 1..Len(s)
          BY <1>2
        <5>5. QED
          BY ONLY <5>2, <5>3, <5>4, LengthsAre, Zenon
      <4>2. QED
        BY <1>5, <1>6, <4>1 DEF Waits
    <3>3. ~Narrow(job') => Target(job', settings') = settings'
      BY DEF Target
    <3>4. QED
      BY <1>4, <2>1, <3>1, <3>2, <3>3 DEF MemoryFits, Narrow
  <2>3. CASE ~(w.file = "settings" /\ w.copy = "primary")
    <3>1. /\ kept'["settings"] = kept["settings"]
          /\ <<"settings", "primary">> \in damaged => <<"settings", "primary">> \in damaged'
      BY <1>8, <1>10, <2>3
    <3>2. Waits' <=> Waits
      <4>1. ASSUME NEW i \in 1..Len(s), s[i].file = "settings", s[i].copy = "primary"
            PROVE  i - 1 \in 1..Len(s) - 1 /\ Tail(s)[i - 1] = s[i]
        <5>1. i # 1
          BY <1>2, <2>3, <4>1
        <5>2. i - 1 \in 1..Len(s) - 1 /\ (i - 1) + 1 = i
          BY <1>2, <5>1
        <5>3. QED
          BY <1>5, <5>2
      <4>2. ASSUME Waits PROVE Waits'
        <5>1. PICK i \in 1..Len(s) : s[i].file = "settings" /\ s[i].copy = "primary"
          BY <4>2 DEF Waits
        <5>2. i - 1 \in 1..Len(Tail(s)) /\ Tail(s)[i - 1] = s[i]
          BY <1>5, <4>1, <5>1
        <5>3. QED
          BY <1>6, <5>1, <5>2 DEF Waits
      <4>3. ASSUME Waits' PROVE Waits
        <5>1. PICK i \in 1..Len(s) - 1 :
                Tail(s)[i].file = "settings" /\ Tail(s)[i].copy = "primary"
          BY <1>5, <1>6, <4>3 DEF Waits
        <5>2. i + 1 \in 1..Len(s) /\ Tail(s)[i] = s[i + 1] /\ i + 1 # 1
          BY <1>2, <1>5
        <5>3. QED
          BY <5>1, <5>2 DEF Waits
      <4>4. QED
        BY <4>2, <4>3
    <3>3. QED
      BY <1>1, <2>1, <3>1, <3>2 DEF MemoryFits, FilesInv
  <2>4. QED
    BY <2>2, <2>3
<1>16. QED
  BY <1>11, <1>12, <1>13, <1>14, <1>15 DEF FilesInv


\* A call that throws: what is left to write is dropped, and nothing has changed.
LEMMA WriteFailsKeeps == ASSUME FilesInv, Settings!WriteFails PROVE FilesInv'
<1> DEFINE w == Settings!Write
           s == job.todo
<1>1. /\ Settings!Writing /\ ~job.renamed /\ Settings!Trouble
      /\ UNCHANGED <<settingsDisk, unsynced, settings, on, legacy, imports, requests, kept, open,
                     damaged>>
      /\ \/ /\ w.soft /\ serverState' = serverState
            /\ job' = [job EXCEPT !.todo =
                         IF w.copy = "backup" THEN Tail(Tail(s)) ELSE Tail(s)]
         \/ /\ ~w.soft /\ job' = Settings!NoJob
            /\ serverState' = IF serverState = "loading" THEN "down" ELSE serverState
  BY DEF Settings!WriteFails, Settings!history
<1>2. /\ w = s[1] /\ w.copy \in {"primary", "backup"} /\ (Narrow(job) => ~w.soft)
      /\ job \in [name : Functions, todo : Seq(Settings!Writes), renamed : BOOLEAN,
                  doc : Settings!SettingsDocs]
      /\ job # Settings!NoJob /\ serverState \in {"loading", "running"}
  BY <1>1, WriteIs
<1>3. PlanFits(s, Target(job, settings), Narrow(job), Backed) /\ s # <<>>
  BY <1>1 DEF FilesInv, JobFits, Settings!Writing
<1>4. settings \in Settings!SettingsDocs /\ settings = Settings!Normalized(settings)
  BY DEF FilesInv, FileTypes, JobFits
<1>5. troubles' \in 0..MaxTroubles
  BY <1>1, BoundsAssumption DEF Settings!Trouble, FilesInv, FileTypes
<1>6. /\ kept["settings"] # Settings!Missing /\ <<"settings", "primary">> \notin damaged
      => Settings!Normalized(settingsDisk["settings"]["primary"]) = settings
  <2>1. CASE Narrow(job)
    <3>1. PlanFits(s, Target(job, settings), TRUE, Backed)
      BY <1>3, <2>1 DEF PlanFits
    <3>2. \E i \in 1..Len(s) : s[i].file = "settings" /\ s[i].copy = "primary"
      BY <1>3, <3>1, NarrowFirst
    <3>3. Waits
      BY <1>1, <3>2 DEF Waits
    <3>4. QED
      BY <1>2, <3>3 DEF FilesInv, MemoryFits
  <2>2. CASE ~Narrow(job)
    BY <1>2, <2>2 DEF FilesInv, MemoryFits, Target
  <2>3. QED
    BY <2>1, <2>2
<1> HIDE DEF w
<1>7. CASE ~w.soft
  <2>1. job' = Settings!NoJob /\ Settings!NoJob \in Settings!Jobs
    BY <1>1, <1>7 DEF Settings!Jobs
  <2>2. FileTypes'
    BY <1>1, <1>2, <1>5, <1>7, <2>1 DEF FilesInv, FileTypes
  <2>3. serverState' # "loading"
    BY <1>1, <1>2, <1>7
  <2>4. QED
    BY <1>1, <1>4, <1>6, <2>1, <2>2, <2>3, BeginKeeps
<1>8. CASE w.soft
  <2> DEFINE rest == IF w.copy = "backup" THEN Tail(Tail(s)) ELSE Tail(s)
  <2>1. ~Narrow(job) /\ Narrow(job) = FALSE /\ Target(job, settings) = settings
    BY <1>2, <1>8 DEF Narrow, Target
  <2>2. PlanFits(rest, settings, FALSE, Backed)
    <3>1. PlanFits(s, settings, FALSE, Backed)
      BY <1>3, <2>1
    <3>2. /\ s[1].copy = "primary" => PlanFits(Tail(s), settings, FALSE, Backed)
          /\ s[1].copy = "backup" => PlanFits(Tail(Tail(s)), settings, FALSE, Backed)
      BY <1>3, <3>1, RestFits
    <3>3. QED
      BY <1>2, <3>2
  <2>3. job' = [job EXCEPT !.todo = rest] /\ serverState' = serverState
    BY <1>1, <1>8
  <2>4. rest \in Seq(Settings!Writes)
    BY <2>2 DEF PlanFits
  <2> HIDE DEF rest
  <2>5. /\ job' \in [name : Functions, todo : Seq(Settings!Writes), renamed : BOOLEAN,
                     doc : Settings!SettingsDocs]
        /\ job'.todo = rest /\ job'.renamed = job.renamed /\ job'.name = job.name
        /\ job'.doc = job.doc /\ job'.renamed \in BOOLEAN
    BY <1>2, <2>3, <2>4
  <2>6. job' \in Settings!Jobs /\ job'.renamed = FALSE
    BY <1>1, <2>5 DEF Settings!Jobs, Functions
  <2>7. FileTypes'
    BY <1>1, <1>2, <1>5, <2>3, <2>6 DEF FilesInv, FileTypes
  <2>8. ~Narrow(job') /\ Narrow(job') = FALSE /\ Target(job', settings') = settings'
    BY <2>1, <2>5 DEF Narrow, Target
  <2>9. PlanFits(job'.todo, Target(job', settings'), Narrow(job'), Backed)
    BY <1>1, <2>2, <2>5, <2>8
  <2>10. /\ serverState' \notin {"down", "refused"}
         /\ serverState' = "loading" => job'.name \in {"start", "refuse"}
    BY <1>2, <2>3, <2>5 DEF FilesInv, JobFits
  <2>11. QED
    BY <1>1, <1>4, <1>6, <2>6, <2>7, <2>8, <2>9, <2>10, BeginKeeps
<1>9. QED
  BY <1>7, <1>8


\* What is being written is a document of its file.
LEMMA BeingWrittenIs ==
  ASSUME FilesInv, NEW f \in Settings!Files
  PROVE  /\ Settings!BeingWritten(f) \subseteq Settings!Docs[f]
         /\ WritingPrimary(f) => settingsDisk[f]["primary"] \in Settings!BeingWritten(f)
<1>1. job.todo \in Seq(Settings!Writes)
  BY DEF FilesInv, JobFits, PlanFits
<1>2. DOMAIN job.todo = 1..Len(job.todo)
  BY <1>1
<1>3. ASSUME NEW i \in DOMAIN job.todo, job.todo[i].file = f
      PROVE  job.todo[i].doc \in Settings!Docs[f]
  <2>1. job.todo[i] \in Settings!Writes
    BY <1>1, <1>2
  <2>2. QED
    BY <1>3, <2>1, WritesAre
<1>4. ASSUME WritingPrimary(f)
      PROVE  settingsDisk[f]["primary"] \in Settings!BeingWritten(f)
  <2>1. /\ Settings!Write = job.todo[1] /\ 1 \in 1..Len(job.todo)
        /\ Settings!Write.file = f /\ settingsDisk[f]["primary"] = Settings!Write.doc
    BY <1>4, WriteIs DEF WritingPrimary, FilesInv, JobFits
  <2>2. 1 \in DOMAIN job.todo
    BY <1>2, <2>1
  <2>3. QED
    BY <2>1, <2>2 DEF Settings!BeingWritten
<1>5. QED
  BY <1>3, <1>4 DEF Settings!BeingWritten

\* What a loss of power leaves is a disk too.
LEMMA RevertedHas ==
  ASSUME FilesInv
  PROVE  /\ DOMAIN Settings!Reverted = Settings!Files
         /\ \A f \in Settings!Files : DOMAIN Settings!Reverted[f] = Settings!Copies
<1>1. FileTypes
  BY DEF FilesInv
<1>2. CASE unsynced = <<>>
  BY <1>1, <1>2, RevertedIs DEF FileTypes
<1>3. CASE unsynced # <<>>
  <2>1. PICK x \in Contents(Settings!Write.file) :
          unsynced = <<<<Settings!Write.file, Settings!Write.copy>>, x>>
    BY <1>3 DEF FilesInv, JobFits
  <2>2. Settings!Write.file \in Settings!Files /\ Settings!Write.copy \in Settings!Copies
    BY <1>3, WriteIs DEF FilesInv, JobFits
  <2>3. QED
    BY <1>1, <2>1, <2>2, RevertedIs
<1>4. QED
  BY <1>2, <1>3

\* The process ends, and the power may be lost: what was being written may be found.
LEMMA CrashKeeps == ASSUME FilesInv, Settings!Crash PROVE FilesInv'
<1>1. /\ settingsDisk' \in {settingsDisk, Settings!Reverted} /\ serverState' = "down"
      /\ job' = Settings!NoJob /\ imports' = <<>> /\ legacy' = Settings!None /\ unsynced' = <<>>
      /\ open' = [f \in Settings!Files |-> open[f] \cup Settings!BeingWritten(f)]
      /\ Settings!Trouble /\ UNCHANGED <<settings, on, requests, kept, damaged>>
  BY DEF Settings!Crash
<1>2. /\ settings \in Settings!SettingsDocs /\ on \in BOOLEAN
      /\ requests \in 0..MaxSettingsRequests /\ troubles \in 0..MaxTroubles
      /\ DOMAIN settingsDisk = Settings!Files /\ DOMAIN kept = Settings!Files
      /\ \A f \in Settings!Files :
           /\ DOMAIN settingsDisk[f] = Settings!Copies
           /\ kept[f] \in Settings!Docs[f] \cup {Settings!Missing}
           /\ open[f] \subseteq Settings!Docs[f]
      /\ damaged \subseteq Settings!Files \X Settings!Copies
  BY DEF FilesInv, FileTypes
<1>3. troubles' \in 0..MaxTroubles
  BY <1>1, <1>2, BoundsAssumption DEF Settings!Trouble
<1>4. /\ DOMAIN open' = Settings!Files
      /\ \A f \in Settings!Files :
           /\ open'[f] = open[f] \cup Settings!BeingWritten(f)
           /\ open'[f] \subseteq Settings!Docs[f]
  BY <1>1, <1>2, BeingWrittenIs
<1>5. FileTypes'
  <2>1. /\ DOMAIN settingsDisk' = Settings!Files
        /\ \A f \in Settings!Files : DOMAIN settingsDisk'[f] = Settings!Copies
    BY <1>1, <1>2, RevertedHas
  <2>2. job' \in Settings!Jobs /\ imports' \in Seq(Settings!SettingsDocs)
    BY <1>1 DEF Settings!Jobs
  <2>3. QED
    BY <1>1, <1>2, <1>3, <1>4, <2>1, <2>2 DEF FileTypes
<1>6. Settings!Reverted' = settingsDisk'
  BY <1>1 DEF Settings!Reverted
<1>7. Held(settingsDisk)' /\ Held(Settings!Reverted)'
  <2>1. Held(settingsDisk) /\ Held(Settings!Reverted)
    BY DEF FilesInv
  <2>2. \A f \in Settings!Files : Settings!Twofold(f)' = Settings!Twofold(f)
    BY <1>1 DEF Settings!Twofold
  <2>3. Held(settingsDisk)'
    <3>1. CASE settingsDisk' = settingsDisk
      BY <1>1, <2>1, <2>2, <3>1 DEF Held, Contents
    <3>2. CASE settingsDisk' = Settings!Reverted
      BY <1>1, <2>1, <2>2, <3>2 DEF Held, Contents
    <3>3. QED
      BY <1>1, <3>1, <3>2
  <2>4. QED
    BY <1>6, <2>3 DEF Held
<1>8. PrimaryFits'
  <2>1. ASSUME NEW f \in Settings!Files PROVE Found(f, settingsDisk[f]["primary"])'
    <3>1. CASE settingsDisk' = Settings!Reverted
      BY <1>1, <1>4, <3>1 DEF FilesInv, PrimaryFits, Found
    <3>2. CASE settingsDisk' = settingsDisk /\ ~WritingPrimary(f)
      BY <1>1, <1>4, <3>2 DEF FilesInv, PrimaryFits, Found
    <3>3. CASE settingsDisk' = settingsDisk /\ WritingPrimary(f)
      BY <1>4, <3>3, BeingWrittenIs DEF Found
    <3>4. QED
      BY <1>1, <3>1, <3>2, <3>3
  <2>2. QED
    BY <1>6, <2>1 DEF PrimaryFits, Found
<1>9. JobFits' /\ MemoryFits'
  <2>1. /\ Settings!NoJob.todo = <<>> /\ Settings!NoJob.name = "none"
        /\ ~Narrow(Settings!NoJob) /\ Narrow(Settings!NoJob) = FALSE
    BY DEF Settings!NoJob, Narrow
  <2>2. PlanFits(<<>>, settings', FALSE, Backed')
    BY DEF PlanFits
  <2>3. (PlanFits(job.todo, Target(job, settings), Narrow(job), Backed))'
    BY <1>1, <2>1, <2>2, NextPlanFits DEF Target
  <2>4. settings' = Settings!Normalized(settings')
    BY <1>1 DEF FilesInv, JobFits
  <2>5. QED
    BY <1>1, <2>1, <2>3, <2>4 DEF JobFits, MemoryFits, Settings!Writing, Narrow
<1>10. QED
  BY <1>5, <1>7, <1>8, <1>9 DEF FilesInv

\* A copy is damaged while nothing is written.
LEMMA DamageKeeps ==
  ASSUME FilesInv, NEW g \in Settings!Files, NEW b \in Settings!Copies, Settings!Damage(g, b)
  PROVE  FilesInv'
<1>1. /\ job = Settings!NoJob /\ Settings!Trouble /\ Settings!Valid(settingsDisk[g][b])
      /\ settingsDisk' = [settingsDisk EXCEPT ![g][b] = Settings!Bad]
      /\ damaged' = damaged \cup {<<g, b>>}
      /\ UNCHANGED <<unsynced, serverState, settings, on, legacy, imports, job, requests, kept,
                     open>>
  BY DEF Settings!Damage
<1>2. Settings!NoJob.todo = <<>> /\ Settings!NoJob.name = "none" /\ ~Settings!Writing
  BY <1>1 DEF Settings!NoJob, Settings!Writing
<1>3. unsynced = <<>> /\ Settings!Reverted' = settingsDisk'
  BY <1>1, <1>2 DEF FilesInv, JobFits, Settings!Reverted
<1>4. /\ DOMAIN settingsDisk' = Settings!Files
      /\ \A f \in Settings!Files : DOMAIN settingsDisk'[f] = Settings!Copies
      /\ \A f \in Settings!Files, c \in Settings!Copies :
           settingsDisk'[f][c] = IF f = g /\ c = b THEN Settings!Bad ELSE settingsDisk[f][c]
  <2>1. /\ DOMAIN settingsDisk = Settings!Files
        /\ \A f \in Settings!Files : DOMAIN settingsDisk[f] = Settings!Copies
    BY DEF FilesInv, FileTypes
  <2>2. QED
    BY ONLY <1>1, <2>1, g \in Settings!Files, b \in Settings!Copies
<1>5. /\ "settings" \in Settings!Files /\ "primary" \in Settings!Copies
      /\ "backup" \in Settings!Copies /\ Held(settingsDisk)
      /\ Settings!Missing # Settings!Bad /\ settingsDisk[g][b] # Settings!Missing
  BY <1>1, DocumentsAre DEF FilesInv, Settings!Valid
<1>6. troubles' \in 0..MaxTroubles
  BY <1>1, BoundsAssumption DEF Settings!Trouble, FilesInv, FileTypes
<1>7. FileTypes'
  <2>1. damaged' \subseteq Settings!Files \X Settings!Copies
    BY <1>1 DEF FilesInv, FileTypes
  <2>2. QED
    BY <1>1, <1>4, <1>6, <2>1 DEF FilesInv, FileTypes
<1>8. Held(settingsDisk)' /\ Held(Settings!Reverted)'
  <2>1. ASSUME NEW f \in Settings!Files
        PROVE  /\ \A c \in Settings!Copies :
                    /\ settingsDisk'[f][c] \in Contents(f)
                    /\ settingsDisk'[f][c] = Settings!Bad => <<f, c>> \in damaged'
               /\ kept[f] # Settings!Missing => settingsDisk'[f]["primary"] # Settings!Missing
               /\ Settings!Twofold(f) => settingsDisk'[f]["backup"] # Settings!Missing
               /\ f = "settings" =>
                    \/ settingsDisk'[f]["backup"] \in {Settings!Missing, Settings!Bad}
                    \/ ~settingsDisk'[f]["backup"].old
    BY <1>1, <1>4, <1>5 DEF Held, Contents
  <2>2. \A f \in Settings!Files : Settings!Twofold(f)' = Settings!Twofold(f)
    BY <1>1 DEF Settings!Twofold
  <2>3. Held(settingsDisk)'
    BY <1>1, <2>1, <2>2 DEF Held, Contents
  <2>4. QED
    BY <1>3, <2>3 DEF Held
<1>9. PrimaryFits'
  <2>1. ASSUME NEW f \in Settings!Files PROVE Found(f, settingsDisk[f]["primary"])'
    <3>1. Found(f, settingsDisk[f]["primary"])
      BY <1>2 DEF FilesInv, PrimaryFits, WritingPrimary
    <3>2. QED
      BY <1>1, <1>4, <1>5, <3>1 DEF Found
  <2>2. QED
    BY <1>3, <2>1 DEF PrimaryFits, Found
<1>10. JobFits'
  <2>1. Backed' = Backed
    BY <1>4, <1>5 DEF Backed
  <2>2. (PlanFits(job.todo, Target(job, settings), Narrow(job), Backed))'
    BY <1>1, <2>1, NextPlanFits DEF FilesInv, JobFits
  <2>3. QED
    BY <1>1, <1>2, <1>3, <2>2 DEF FilesInv, JobFits, Settings!Writing, Narrow
<1>11. MemoryFits'
  <2>1. /\ <<"settings", "primary">> \notin damaged' =>
             /\ <<"settings", "primary">> \notin damaged
             /\ settingsDisk'["settings"]["primary"] = settingsDisk["settings"]["primary"]
    BY <1>1, <1>4, <1>5
  <2>2. QED
    BY <1>1, <2>1 DEF FilesInv, MemoryFits, Waits, Target, Narrow
<1>12. QED
  BY <1>7, <1>8, <1>9, <1>10, <1>11 DEF FilesInv

\* The inductive invariant implies the property, with the types.
LEMMA FilesInvAgrees == FilesInv => FilesAgree
<1> SUFFICES ASSUME FilesInv PROVE FilesAgree
  OBVIOUS
<1>1. /\ FileTypes /\ Held(settingsDisk) /\ Held(Settings!Reverted)
      /\ "settings" \in Settings!Files /\ "primary" \in Settings!Copies
      /\ "backup" \in Settings!Copies /\ Settings!Copies = {"primary", "backup"}
  BY DocumentsAre DEF FilesInv
<1>2. Settings!TypeOK
  <2>1. unsynced \in {<<>>} \cup
          (Settings!Files \X Settings!Copies) \X UNION {Contents(f) : f \in Settings!Files}
    <3>1. CASE unsynced # <<>>
      <4>1. PICK x \in Contents(Settings!Write.file) :
              unsynced = <<<<Settings!Write.file, Settings!Write.copy>>, x>>
        BY <3>1 DEF FilesInv, JobFits
      <4>2. Settings!Write.file \in Settings!Files /\ Settings!Write.copy \in Settings!Copies
        BY <3>1, WriteIs DEF FilesInv, JobFits
      <4>3. x \in UNION {Contents(f) : f \in Settings!Files}
        BY <4>2
      <4>4. <<Settings!Write.file, Settings!Write.copy>> \in Settings!Files \X Settings!Copies
        BY <4>2
      <4>5. QED
        BY <4>1, <4>3, <4>4
    <3>2. QED
      BY <3>1
  <2>2. \A f \in Settings!Files, c \in Settings!Copies :
          settingsDisk[f][c] \in Settings!Docs[f] \cup {Settings!Missing, Settings!Bad}
    BY <1>1 DEF Held, Contents
  <2>3. QED
    BY <1>1, <2>1, <2>2 DEF FileTypes, Settings!TypeOK, Contents
<1>3. ASSUME NEW f \in Settings!Files, NEW d \in {settingsDisk, Settings!Reverted}
      PROVE  /\ \A c \in Settings!Copies : d[f][c] = Settings!Bad => <<f, c>> \in damaged
             /\ kept[f] # Settings!Missing => d[f]["primary"] # Settings!Missing
             /\ Settings!Twofold(f) =>
                  d[f]["primary"] # Settings!Missing /\ d[f]["backup"] # Settings!Missing
  <2>1. Held(d)
    BY <1>1, <1>3
  <2>2. QED
    BY <1>3, <2>1 DEF Held, Settings!Twofold
<1>4. Settings!OneCopyIsEnough
  <2> SUFFICES ASSUME NEW f \in Settings!Files, NEW d \in {settingsDisk, Settings!Reverted},
                      Settings!Twofold(f), NEW c \in Settings!Copies, <<f, c>> \notin damaged
               PROVE  Settings!Valid(Settings!Read(d[f]))
    BY DEF Settings!OneCopyIsEnough
  <2>1. d[f][c] # Settings!Bad /\ d[f][c] # Settings!Missing
    BY <1>1, <1>3
  <2>2. QED
    BY <1>1, <2>1 DEF Settings!Read, Settings!Valid
<1>5. ASSUME NEW f \in Settings!Files, NEW d \in {settingsDisk, Settings!Reverted},
             kept[f] # Settings!Missing, <<f, "primary">> \notin damaged
      PROVE  Settings!Read(d[f]) = d[f]["primary"]
  BY <1>1, <1>3, <1>5 DEF Settings!Read, Settings!Valid
<1>6. Settings!RefusedIsNotFound
  <2> SUFFICES ASSUME NEW f \in Settings!Files, NEW d \in {settingsDisk, Settings!Reverted},
                      kept[f] # Settings!Missing, Settings!Intact(f)
               PROVE  Settings!Read(d[f]) \in
                        {kept[f]} \cup open[f] \cup Settings!BeingWritten(f)
    BY DEF Settings!RefusedIsNotFound
  <2>1. <<f, "primary">> \notin damaged
    BY <1>1 DEF Settings!Intact
  <2>2. d[f]["primary"] \in {kept[f]} \cup open[f] \cup Settings!BeingWritten(f)
    <3>1. CASE d = Settings!Reverted
      BY <2>1, <3>1 DEF FilesInv, PrimaryFits, Found
    <3>2. CASE d = settingsDisk /\ ~WritingPrimary(f)
      BY <2>1, <3>2 DEF FilesInv, PrimaryFits, Found
    <3>3. CASE d = settingsDisk /\ WritingPrimary(f)
      BY <3>3, BeingWrittenIs
    <3>4. QED
      BY <3>1, <3>2, <3>3
  <2>3. QED
    BY <1>5, <2>1, <2>2
<1>7. Settings!RunsOnWhatIsStored
  <2> SUFFICES ASSUME Settings!Idle, kept["settings"] # Settings!Missing,
                      Settings!Intact("settings")
               PROVE  settings = Settings!Normalized(Settings!Read(settingsDisk["settings"]))
    BY DEF Settings!RunsOnWhatIsStored
  <2>1. <<"settings", "primary">> \notin damaged
    BY <1>1 DEF Settings!Intact
  <2>2. Settings!Normalized(settingsDisk["settings"]["primary"]) = settings
    BY <2>1 DEF FilesInv, MemoryFits, Settings!Idle, Waits, Target, Narrow, Settings!NoJob
  <2>3. QED
    BY <1>1, <1>5, <2>1, <2>2
<1>8. QED
  BY <1>2, <1>4, <1>6, <1>7 DEF FilesAgree, Settings!FilesAgree

\* A new installation, or one that an older version has left.
LEMMA SettingsInit == Settings!Init => FilesInv
<1> SUFFICES ASSUME Settings!Init PROVE FilesInv
  OBVIOUS
<1>1. PICK s \in {Settings!Missing, Settings!Doc(0, TRUE, FALSE),
                  Settings!Doc(0, TRUE, TRUE)} :
        /\ settingsDisk = [settings |-> [primary |-> s, backup |-> Settings!Missing],
                           registry |-> [primary |-> Settings!Missing,
                                         backup |-> Settings!Missing]]
        /\ kept = [settings |-> s, registry |-> Settings!Missing]
        /\ unsynced = <<>> /\ serverState = "down" /\ settings = Settings!Doc(0, FALSE, FALSE)
        /\ on = TRUE /\ legacy = Settings!None /\ imports = <<>> /\ job = Settings!NoJob
        /\ open = [f \in Settings!Files |-> {}] /\ requests = 0 /\ troubles = 0 /\ damaged = {}
  BY DEF Settings!Init
<1>2. /\ Settings!Doc(0, FALSE, FALSE) \in Settings!SettingsDocs
      /\ Settings!Normalized(settings) = settings
      /\ s \in Settings!SettingsDocs \cup {Settings!Missing}
      /\ s # Settings!Bad /\ (s # Settings!Missing => s.old)
  <2>1. 0 \in 0..MaxSettingsRequests
    BY BoundsAssumption
  <2>2. \A off \in BOOLEAN : Settings!Doc(0, TRUE, off).old
    BY DEF Settings!Doc
  <2>3. \A x \in Settings!SettingsDocs : x # Settings!Bad
    BY DocumentsAre
  <2>4. QED
    BY <1>1, <2>1, <2>2, <2>3, DocumentsAre
<1>3. /\ DOMAIN settingsDisk = {"settings", "registry"}
      /\ DOMAIN settingsDisk["settings"] = {"primary", "backup"}
      /\ DOMAIN settingsDisk["registry"] = {"primary", "backup"}
      /\ settingsDisk["settings"]["primary"] = s
      /\ settingsDisk["settings"]["backup"] = Settings!Missing
      /\ settingsDisk["registry"]["primary"] = Settings!Missing
      /\ settingsDisk["registry"]["backup"] = Settings!Missing
      /\ DOMAIN kept = {"settings", "registry"} /\ kept["settings"] = s
      /\ kept["registry"] = Settings!Missing
  BY <1>1
<1>4. \A f \in Settings!Files : f = "settings" \/ f = "registry"
  BY DocumentsAre
<1>5. FileTypes
  <2>1. job \in Settings!Jobs
    BY <1>1 DEF Settings!Jobs
  <2>2. 0 \in 0..MaxSettingsRequests /\ 0 \in 0..MaxTroubles
    BY BoundsAssumption
  <2>3. \A f \in Settings!Files : /\ DOMAIN settingsDisk[f] = Settings!Copies
                                  /\ kept[f] \in Settings!Docs[f] \cup {Settings!Missing}
                                  /\ open[f] \subseteq Settings!Docs[f]
    BY <1>1, <1>2, <1>3, <1>4, DocumentsAre
  <2>4. DOMAIN settingsDisk = Settings!Files /\ DOMAIN kept = Settings!Files
    BY <1>3, DocumentsAre
  <2>5. settings \in Settings!SettingsDocs /\ legacy \in {Settings!None, "on", "off"}
    BY <1>1, <1>2
  <2>6. DOMAIN open = Settings!Files /\ damaged \subseteq Settings!Files \X Settings!Copies
    BY <1>1
  <2>7. imports \in Seq(Settings!SettingsDocs)
    BY <1>1
  <2>8. /\ serverState \in {"down", "loading", "running", "refused"} /\ on \in BOOLEAN
        /\ requests \in 0..MaxSettingsRequests /\ troubles \in 0..MaxTroubles
    BY <1>1, <2>2
  <2>9. QED
    BY <2>1, <2>3, <2>4, <2>5, <2>6, <2>7, <2>8 DEF FileTypes
<1>6. Settings!Reverted = settingsDisk
  BY <1>1, RevertedIs
<1>7. JobFits
  <2>1. /\ Settings!NoJob.todo = <<>> /\ Settings!NoJob.name = "none"
        /\ ~Narrow(Settings!NoJob) /\ Narrow(Settings!NoJob) = FALSE
    BY DEF Settings!NoJob, Narrow
  <2>2. PlanFits(<<>>, settings, FALSE, Backed)
    BY DEF PlanFits
  <2>3. PlanFits(job.todo, Target(job, settings), Narrow(job), Backed)
    BY <1>1, <2>1, <2>2 DEF Target
  <2>4. QED
    BY <1>1, <1>2, <2>1, <2>3 DEF JobFits, Settings!Writing
<1>8. Held(settingsDisk)
  BY <1>2, <1>3, <1>4, DocumentsAre DEF Held, Contents, Settings!Twofold
<1>9. PrimaryFits /\ MemoryFits
  BY <1>1, <1>3, <1>4, <1>6 DEF PrimaryFits, Found, MemoryFits
<1>10. QED
  BY <1>5, <1>6, <1>7, <1>8, <1>9 DEF FilesInv

\* Every step of the files of the settings keeps it.
LEMMA SettingsStep == FilesInv /\ [Settings!Next]_(settingsVars) => FilesInv'
<1> SUFFICES ASSUME FilesInv, [Settings!Next]_(settingsVars) PROVE FilesInv'
  OBVIOUS
<1>1. CASE Settings!Start
  BY <1>1, SettingsStartKeeps
<1>2. CASE Settings!Asks
  BY <1>2, SettingsAsksKeep
<1>3. CASE Settings!Works
  BY <1>3, RenameKeeps, SyncedKeeps, WriteFailsKeeps, SettingsFinishKeeps DEF Settings!Works
<1>4. CASE Settings!Befalls
  BY <1>4, CrashKeeps, DamageKeeps DEF Settings!Befalls
<1>5. CASE UNCHANGED settingsVars
  <2> USE DEF FilesInv
  <2>1. FileTypes'
    BY <1>5 DEF settingsVars, FileTypes
  <2>2. Backed' = Backed
    BY <1>5 DEF settingsVars, Backed
  <2>3. Settings!Writing' = Settings!Writing /\ Settings!Write' = Settings!Write
    BY <1>5 DEF settingsVars, Settings!Writing, Settings!Write
  <2>4. Settings!Reverted' = Settings!Reverted
    BY <1>5 DEF settingsVars, Settings!Reverted
  <2>5. JobFits'
    BY <1>5, <2>2, <2>3 DEF settingsVars, JobFits
  <2>6. Held(settingsDisk)' /\ Held(Settings!Reverted)'
    BY <1>5, <2>4 DEF settingsVars, Held, Settings!Twofold
  <2>7. PrimaryFits'
    BY <1>5, <2>3, <2>4 DEF settingsVars, PrimaryFits, Found, WritingPrimary
  <2>8. MemoryFits'
    BY <1>5 DEF settingsVars, MemoryFits, Waits
  <2>9. QED
    BY <2>1, <2>5, <2>6, <2>7, <2>8
<1>6. QED
  BY <1>1, <1>2, <1>3, <1>4, <1>5 DEF Settings!Next

\* Whatever write fails, whenever the process ends or the power is lost, and whichever
\* copy is damaged then: a file that was written can be read while one of its copies is
\* whole, while none was damaged a start finds what was last saved or what was being
\* written, and what runs is what is stored (private-file.ts:133-144, store.ts:324-328).
THEOREM FilesStayAgreed == AllSpec => []FilesAgree
<1>1. AllInit => FilesInv
  BY SettingsInit DEF AllInit
<1>2. FilesInv /\ [AllNext]_all => FilesInv'
  <2> SUFFICES ASSUME FilesInv, [AllNext]_all PROVE FilesInv'
    OBVIOUS
  <2>1. [Settings!Next]_(settingsVars)
    BY DEF AllNext, all
  <2>2. QED
    BY <2>1, SettingsStep
<1>3. QED
  BY <1>1, <1>2, FilesInvAgrees, PTL DEF AllSpec

-----------------------------------------------------------------------------
(***************************************************************************)
(* src/lib/ws-client.ts (WsClient)                                         *)
(***************************************************************************)

\* What is held for the next socket belongs to the session that runs.
HeldAreCurrent ==
  \A i \in 1..Len(outbox) : outbox[i] \in 1..Len(born) /\ born[outbox[i]] = epoch

ClientInv == Client!TypeOK /\ HeldAreCurrent

\* Sequences of frames: one that is appended is a new one.
LEMMA FramesAre ==
  /\ \A q \in Seq(Client!Ids) :
       /\ Client!IsInjective(q) <=> \A a, b \in 1..Len(q) : q[a] = q[b] => a = b
       /\ \A x : x \in Client!ToSet(q) <=> \E i \in 1..Len(q) : x = q[i]
  /\ Client!IsInjective(<<>>) /\ <<>> \in Seq(Client!Ids)
  /\ \A q \in Seq(Client!Ids), x \in Client!Ids :
       /\ Append(q, x) \in Seq(Client!Ids) /\ Len(Append(q, x)) = Len(q) + 1
       /\ \A i \in 1..Len(q) + 1 : Append(q, x)[i] = IF i <= Len(q) THEN q[i] ELSE x
<1>1. \A q \in Seq(Client!Ids) :
        /\ Client!IsInjective(q) <=> \A a, b \in 1..Len(q) : q[a] = q[b] => a = b
        /\ \A x : x \in Client!ToSet(q) <=> \E i \in 1..Len(q) : x = q[i]
  BY DEF Client!IsInjective, Client!ToSet
<1>2. Client!IsInjective(<<>>) /\ <<>> \in Seq(Client!Ids)
  BY DEF Client!IsInjective
<1>3. \A q \in Seq(Client!Ids), x \in Client!Ids :
        /\ Append(q, x) \in Seq(Client!Ids) /\ Len(Append(q, x)) = Len(q) + 1
        /\ \A i \in 1..Len(q) + 1 : Append(q, x)[i] = IF i <= Len(q) THEN q[i] ELSE x
  OBVIOUS
<1>4. QED
  BY <1>1, <1>2, <1>3

\* A new session, and the first of its kind.
LEMMA ClientInit == Client!Init => ClientInv
<1> SUFFICES ASSUME Client!Init PROVE ClientInv
  OBVIOUS
<1>1. 0 \in 0..MaxEpochs /\ Len(<<>>) = 0 /\ 0 <= MaxInvokes
  BY BoundsAssumption
<1>2. born \in Seq(0..MaxEpochs) /\ Len(born) <= MaxInvokes
  BY <1>1 DEF Client!Init
<1>3. outbox \in Seq(Client!Ids) /\ Client!IsInjective(outbox)
  BY FramesAre DEF Client!Init
<1>4. HeldAreCurrent
  <2>1. Len(outbox) = 0
    BY DEF Client!Init
  <2>2. QED
    BY <2>1 DEF HeldAreCurrent
<1>5. Client!TypeOK
  <2>1. net \in [Client!Sockets -> {"none", "connecting", "open", "closing"}]
    BY DEF Client!Init
  <2>2. wire \in [Client!Sockets -> SUBSET Client!Ids]
    BY DEF Client!Init
  <2>3. QED
    BY <1>1, <1>2, <1>3, <2>1, <2>2 DEF Client!Init, Client!TypeOK, Client!IsInjective
<1>6. QED
  BY <1>4, <1>5 DEF ClientInv

\* What open() leaves alone, and the socket it may make.
LEMMA OpenIs ==
  ASSUME Client!TypeOK, Client!Open
  PROVE  /\ clientSocket' \in Client!Sockets \cup {Client!None}
         /\ state' \in {"connecting", "open", "closed"}
         /\ net' \in [Client!Sockets -> {"none", "connecting", "open", "closing"}]
BY DEF Client!TypeOK, Client!Open

\* A step that ends a session or loses a socket: nothing is held any more.
LEMMA EmptiedKeeps ==
  ASSUME ClientInv, clientSocket' = Client!None, state' = "closed",
         clientPending' = {}, waiting' = {}, outbox' = <<>>, born' = born,
         epoch' \in 0..MaxEpochs, stopped' \in BOOLEAN, reconnectTimer' \in BOOLEAN,
         net' \in [Client!Sockets -> {"none", "connecting", "open", "closing"}],
         wire' \in [Client!Sockets -> SUBSET Client!Ids]
  PROVE  ClientInv'
<1>1. outbox' \in Seq(Client!Ids) /\ Client!IsInjective(outbox')
  BY FramesAre
<1>2. born \in Seq(0..MaxEpochs) /\ Len(born) <= MaxInvokes
  BY DEF ClientInv, Client!TypeOK
<1>3. Len(outbox') = 0
  OBVIOUS
<1>4. Client!TypeOK'
  BY <1>1, <1>2 DEF Client!TypeOK, Client!IsInjective
<1>5. HeldAreCurrent'
  BY <1>3 DEF HeldAreCurrent
<1>6. QED
  BY <1>4, <1>5 DEF ClientInv

\* A frame that a socket carries from now on was issued in the session that runs.
Replayed == \E s \in Client!Sockets : \E id \in wire'[s] \ wire[s] : born'[id] # epoch'

\* write() of the frame of a new call: it is sent, or held behind the others.
LEMMA InvokeKeeps == ASSUME ClientInv, Client!Invoke PROVE ClientInv' /\ ~Replayed
<1> DEFINE n == Len(born) + 1
<1>1. /\ ~stopped /\ Len(born) < MaxInvokes /\ born' = Append(born, epoch)
      /\ clientPending' = clientPending \cup {n} /\ Client!Write(n)
      /\ UNCHANGED <<reconnectTimer, stopped, epoch>>
  BY DEF Client!Invoke
<1>2. /\ born \in Seq(0..MaxEpochs) /\ Len(born) \in Nat /\ epoch \in 0..MaxEpochs
      /\ MaxInvokes \in Nat /\ outbox \in Seq(Client!Ids) /\ Len(outbox) \in Nat
      /\ wire \in [Client!Sockets -> SUBSET Client!Ids]
  BY BoundsAssumption DEF ClientInv, Client!TypeOK
<1>3. /\ n \in Client!Ids /\ n \notin 1..Len(born) /\ n \in 1..n /\ Len(born) \in Nat
      /\ \A k \in 1..Len(born) : k \in 1..n
  BY <1>1, <1>2 DEF Client!Ids
<1>4. /\ born' \in Seq(0..MaxEpochs) /\ Len(born') = n /\ n <= MaxInvokes
      /\ born'[n] = epoch /\ \A k \in 1..Len(born) : born'[k] = born[k]
  BY <1>1, <1>2
<1>5. /\ clientPending' \subseteq Client!Ids
      /\ waiting \subseteq clientPending' /\ n \in clientPending'
  BY <1>1, <1>3 DEF ClientInv, Client!TypeOK
<1> HIDE DEF n
<1>6. CASE /\ clientSocket # Client!None /\ state = "open"
           /\ wire' = IF net[clientSocket] = "open"
                      THEN [wire EXCEPT ![clientSocket] = @ \cup {n}] ELSE wire
           /\ waiting' = IF net[clientSocket] = "connecting" THEN waiting ELSE waiting \cup {n}
           /\ UNCHANGED <<clientSocket, state, net, outbox>>
  <2>1. wire' \in [Client!Sockets -> SUBSET Client!Ids]
    BY <1>2, <1>3, <1>6
  <2>2. waiting' \subseteq clientPending'
    BY <1>5, <1>6
  <2>3. Client!TypeOK'
    BY <1>1, <1>2, <1>4, <1>5, <1>6, <2>1, <2>2 DEF ClientInv, Client!TypeOK, Client!IsInjective
  <2>4. HeldAreCurrent'
    BY <1>1, <1>3, <1>4, <1>6 DEF ClientInv, HeldAreCurrent
  <2>5. \A s \in Client!Sockets : wire'[s] \ wire[s] \subseteq {n}
    BY <1>2, <1>6
  <2>6. QED
    BY <1>1, <1>4, <2>3, <2>4, <2>5 DEF ClientInv, Replayed
<1>7. CASE /\ outbox' = Append(outbox, n) /\ waiting' = waiting \cup {n}
           /\ Client!Open /\ wire' = wire
  <2>1. /\ outbox' \in Seq(Client!Ids) /\ Len(outbox') = Len(outbox) + 1
        /\ \A i \in 1..Len(outbox) + 1 : outbox'[i] = IF i <= Len(outbox) THEN outbox[i] ELSE n
    BY <1>2, <1>3, <1>7, FramesAre
  <2>2. \A i \in 1..Len(outbox) : outbox[i] \in 1..Len(born) /\ born[outbox[i]] = epoch
    BY DEF ClientInv, HeldAreCurrent
  <2>3. HeldAreCurrent'
    <3>1. ASSUME NEW i \in 1..Len(outbox')
          PROVE  outbox'[i] \in 1..Len(born') /\ born'[outbox'[i]] = epoch'
      <4>1. CASE i <= Len(outbox)
        <5>1. i \in 1..Len(outbox) /\ outbox'[i] = outbox[i]
          BY <1>2, <2>1, <4>1, SMTT(30)
        <5>2. QED
          BY <1>1, <1>3, <1>4, <2>2, <5>1
      <4>2. CASE ~(i <= Len(outbox))
        <5>1. outbox'[i] = n
          BY <2>1, <4>2
        <5>2. QED
          BY <1>1, <1>3, <1>4, <5>1
      <4>3. QED
        BY <4>1, <4>2
    <3>2. QED
      BY <3>1 DEF HeldAreCurrent
  <2>4. Client!IsInjective(outbox')
    <3>1. \A a, b \in 1..Len(outbox) : outbox[a] = outbox[b] => a = b
      BY <1>2, FramesAre DEF ClientInv, Client!TypeOK
    <3>2. \A i \in 1..Len(outbox) : outbox[i] # n
      BY <1>3, <2>2
    <3>3. \A i \in 1..Len(outbox') : i \in 1..Len(outbox) \/ i = Len(outbox) + 1
      BY <1>2, <2>1
    <3>4. outbox'[Len(outbox) + 1] = n /\ \A i \in 1..Len(outbox) : outbox'[i] = outbox[i]
      BY <1>2, <2>1
    <3>5. \A a, b \in 1..Len(outbox') : outbox'[a] = outbox'[b] => a = b
      BY <3>1, <3>2, <3>3, <3>4
    <3>6. QED
      BY <2>1, <3>5, FramesAre
  <2>5. /\ clientSocket' \in Client!Sockets \cup {Client!None}
        /\ state' \in {"connecting", "open", "closed"}
        /\ net' \in [Client!Sockets -> {"none", "connecting", "open", "closing"}]
    BY <1>7, OpenIs DEF ClientInv
  <2>6. waiting' \subseteq clientPending'
    BY <1>5, <1>7
  <2>7. Client!TypeOK'
    BY <1>1, <1>2, <1>4, <1>5, <1>7, <2>1, <2>4, <2>5, <2>6
    DEF ClientInv, Client!TypeOK, Client!IsInjective
  <2>8. QED
    BY <1>7, <2>3, <2>7 DEF ClientInv, Replayed
<1>8. QED
  BY <1>1, <1>6, <1>7 DEF Client!Write

\* Every step of the client keeps the invariant, and replays nothing.
LEMMA ClientStep ==
  ASSUME ClientInv, [Client!Next]_(Client!vars)
  PROVE  ClientInv' /\ [~Replayed]_(Client!vars)
<1>1. /\ born \in Seq(0..MaxEpochs) /\ epoch \in 0..MaxEpochs
      /\ Len(born) <= MaxInvokes /\ outbox \in Seq(Client!Ids)
      /\ wire \in [Client!Sockets -> SUBSET Client!Ids] /\ MaxEpochs \in Nat
      /\ net \in [Client!Sockets -> {"none", "connecting", "open", "closing"}]
      /\ stopped \in BOOLEAN /\ reconnectTimer \in BOOLEAN
      /\ clientSocket \in Client!Sockets \cup {Client!None}
      /\ state \in {"connecting", "open", "closed"} /\ clientPending \subseteq Client!Ids
      /\ waiting \subseteq clientPending
  BY BoundsAssumption DEF ClientInv, Client!TypeOK
<1>2. ASSUME Client!Open \/ UNCHANGED <<clientSocket, net, state>>,
             stopped' \in BOOLEAN, reconnectTimer' \in BOOLEAN,
             UNCHANGED <<clientPending, outbox, wire, waiting, born, epoch>>
      PROVE  ClientInv' /\ ~Replayed
  <2>1. /\ clientSocket' \in Client!Sockets \cup {Client!None}
        /\ state' \in {"connecting", "open", "closed"}
        /\ net' \in [Client!Sockets -> {"none", "connecting", "open", "closing"}]
    BY <1>1, <1>2, OpenIs DEF ClientInv
  <2>2. QED
    BY <1>2, <2>1 DEF ClientInv, Client!TypeOK, HeldAreCurrent, Client!IsInjective, Replayed
<1>3. CASE Client!Connect
  BY <1>1, <1>2, <1>3 DEF Client!Connect
<1>4. CASE Client!Reconnect
  BY <1>1, <1>2, <1>4 DEF Client!Reconnect
<1>5. CASE Client!Invoke
  BY <1>5, InvokeKeeps
<1>6. CASE Client!Disconnect
  <2>1. /\ epoch' \in 0..MaxEpochs
        /\ net' \in [Client!Sockets -> {"none", "connecting", "open", "closing"}]
        /\ wire' \in [Client!Sockets -> SUBSET Client!Ids]
        /\ \A s \in Client!Sockets : wire'[s] \subseteq wire[s]
    BY <1>1, <1>6 DEF Client!Disconnect
  <2>2. ClientInv'
    BY <1>6, <2>1, EmptiedKeeps DEF Client!Disconnect
  <2>3. QED
    BY <2>1, <2>2 DEF Replayed
<1>7. ASSUME NEW s \in Client!Sockets, Client!OnClose(s) \/ Client!OnUnauthorized(s)
      PROVE  ClientInv' /\ ~Replayed
  <2>1. /\ epoch' \in 0..MaxEpochs /\ wire' = wire
        /\ net' \in [Client!Sockets -> {"none", "connecting", "open", "closing"}]
        /\ stopped' \in BOOLEAN /\ reconnectTimer' \in BOOLEAN
        /\ clientSocket' = Client!None /\ state' = "closed" /\ clientPending' = {}
        /\ waiting' = {} /\ outbox' = <<>> /\ born' = born
    <3>1. CASE Client!OnClose(s)
      BY <1>1, <3>1 DEF Client!OnClose
    <3>2. CASE Client!OnUnauthorized(s)
      <4>1. /\ epoch' \in 0..MaxEpochs /\ wire' = wire
            /\ net' = [net EXCEPT ![s] = "none"] /\ stopped' = TRUE /\ reconnectTimer' = FALSE
            /\ clientSocket' = Client!None /\ state' = "closed" /\ clientPending' = {}
            /\ waiting' = {} /\ outbox' = <<>> /\ born' = born
        BY <1>1, <3>2 DEF Client!OnUnauthorized
      <4>2. net' \in [Client!Sockets -> {"none", "connecting", "open", "closing"}]
        BY <1>1, <4>1
      <4>3. QED
        BY <4>1, <4>2
    <3>3. QED
      BY <1>7, <3>1, <3>2
  <2>2. ClientInv'
    BY <1>1, <2>1, EmptiedKeeps
  <2>3. QED
    BY <2>1, <2>2 DEF Replayed
<1>8. ASSUME NEW s \in Client!Sockets, Client!OnOpen(s)
      PROVE  ClientInv' /\ ~Replayed
  <2>1. /\ net' = [net EXCEPT ![s] = "open"] /\ state' = "open" /\ outbox' = <<>>
        /\ wire' = [wire EXCEPT ![s] = @ \cup Client!ToSet(outbox)]
        /\ UNCHANGED <<clientSocket, clientPending, reconnectTimer, stopped, waiting, born,
                       epoch>>
    BY <1>8 DEF Client!OnOpen
  <2>2. \A id \in Client!ToSet(outbox) : id \in Client!Ids /\ born[id] = epoch
    <3>1. ASSUME NEW id \in Client!ToSet(outbox) PROVE id \in Client!Ids /\ born[id] = epoch
      <4>1. PICK i \in 1..Len(outbox) : id = outbox[i]
        BY <1>1, FramesAre
      <4>2. QED
        BY <1>1, <4>1 DEF ClientInv, HeldAreCurrent
    <3>2. QED
      BY <3>1
  <2>3. wire' \in [Client!Sockets -> SUBSET Client!Ids]
    BY <1>1, <2>1, <2>2
  <2>4. /\ outbox' \in Seq(Client!Ids) /\ Client!IsInjective(outbox') /\ Len(outbox') = 0
    BY <2>1, FramesAre
  <2>5. net' \in [Client!Sockets -> {"none", "connecting", "open", "closing"}]
    BY <1>1, <2>1
  <2>6. Client!TypeOK' /\ HeldAreCurrent'
    BY <1>1, <2>1, <2>3, <2>4, <2>5 DEF Client!TypeOK, HeldAreCurrent, Client!IsInjective
  <2>7. \A t \in Client!Sockets : wire'[t] \ wire[t] \subseteq Client!ToSet(outbox)
    BY <1>1, <2>1
  <2>8. QED
    BY <2>1, <2>2, <2>6, <2>7 DEF ClientInv, Replayed
<1>9. ASSUME NEW s \in Client!Sockets,
             Client!Break(s) \/ \E id \in Client!Ids : Client!OnAnswer(s, id)
      PROVE  ClientInv' /\ ~Replayed
  <2>1. /\ net' \in [Client!Sockets -> {"none", "connecting", "open", "closing"}]
        /\ wire' \in [Client!Sockets -> SUBSET Client!Ids]
        /\ \A t \in Client!Sockets : wire'[t] \subseteq wire[t]
        /\ clientPending' \subseteq Client!Ids /\ waiting' \subseteq clientPending'
        /\ UNCHANGED <<clientSocket, state, outbox, reconnectTimer, stopped, born, epoch>>
    <3>1. ASSUME NEW id \in Client!Ids, Client!OnAnswer(s, id) 
          PROVE  /\ net' \in [Client!Sockets -> {"none", "connecting", "open", "closing"}]
                 /\ wire' \in [Client!Sockets -> SUBSET Client!Ids]
                 /\ \A t \in Client!Sockets : wire'[t] \subseteq wire[t]
                 /\ clientPending' \subseteq Client!Ids /\ waiting' \subseteq clientPending'
                 /\ UNCHANGED <<clientSocket, state, outbox, reconnectTimer, stopped, born,
                                epoch>>
      BY <1>1, <3>1 DEF Client!OnAnswer
    <3>2. CASE Client!Break(s)
      BY <1>1, <3>2 DEF Client!Break
    <3>3. QED
      BY <1>9, <3>1, <3>2
  <2>2. ClientInv'
    BY <1>1, <2>1 DEF ClientInv, Client!TypeOK, HeldAreCurrent, Client!IsInjective
  <2>3. QED
    BY <2>1, <2>2 DEF Replayed
<1>10. CASE UNCHANGED Client!vars
  BY <1>10 DEF Client!vars, ClientInv, Client!TypeOK, HeldAreCurrent, Client!IsInjective
<1>11. QED
  BY <1>3, <1>4, <1>5, <1>6, <1>7, <1>8, <1>9, <1>10 DEF Client!Next

\* "Nothing from the session that just ended may be replayed into the next one": however
\* sockets open late, close and are opened again, a socket carries only frames of the
\* session that runs (ws-client.ts, disconnect() and write()).
THEOREM NothingComesBack == AllSpec => NothingReplayed
<1>1. AllInit => ClientInv
  BY ClientInit DEF AllInit
<1>2. [AllNext]_all => [Client!Next]_(Client!vars)
  BY DEF AllNext, all, clientVars, Client!vars
<1>3. ClientInv /\ [AllNext]_all => ClientInv' /\ [~Replayed]_(Client!vars)
  BY <1>2, ClientStep
<1>4. [~Replayed]_(Client!vars) =>
        [\A s \in Client!Sockets : \A id \in wire'[s] \ wire[s] : born'[id] = epoch']_(Client!vars)
  BY DEF Replayed
<1>5. ClientInv => Client!TypeOK
  BY DEF ClientInv
<1>6. QED
  BY <1>1, <1>3, <1>4, <1>5, PTL DEF AllSpec, NothingReplayed, Client!NothingReplayed

=============================================================================
