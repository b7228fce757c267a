---------------------------- MODULE MachineProofs ----------------------------
(***************************************************************************)
(* Proofs about the parts that a server keeps for one machine: of the      *)
(* ConnectionManager its safety invariants, and that it implements Link,   *)
(* for any number of connect and disconnect calls; of the executors that   *)
(* what they run is bounded and tracked, for any number of operations; of  *)
(* the services and of the BMC module that they agree with the connection  *)
(* and the machines they work for; of the jobs of a module and the sweeps  *)
(* of a fleet that what they tell is what was done.                        *)
(***************************************************************************)
EXTENDS MCMachine, FiniteSetTheorems, SequenceTheorems, WellFoundedInduction, TLAPS

\* Calls are numbered in the order they are made.
CallsAreNumbered ==
  \A g \in Gens : g > requestGeneration => pc[g] = "none"

\* A published executor comes from an attempt that committed, and nothing that
\* happened since has made its loss callback stale.
PublishedIsCommitted ==
  executor # None =>
    /\ pc[executor] \in {"retiring", "returned", "settled"}
    /\ executor <= requestGeneration

\* A candidate is in use while it is probed, and its loss is still unheard.
CandidateIsUnheard ==
  \A g \in Gens :
    /\ pc[g] = "probing" => resource[g] \in {"live", "lost"}
    /\ g \in lostExecutors => pc[g] \notin {"none", "building", "probing"}

\* A published executor is reported, unless the newest attempt is under way.
PublishedIsReported ==
  executor # None =>
    \/ phase = "connected"
    \/ /\ phase = "connecting"
       /\ requestGeneration # 0
       /\ pc[requestGeneration] \in {"building", "probing", "closing"}

ReportedIsPublished ==
  /\ phase = "connected" => executor # None
  /\ phase = "idle" => executor = None

\* The inductive invariant: the checked properties, and what they need.
IInv ==
  /\ TypeOK
  /\ CallsAreNumbered
  /\ PublishedIsCommitted
  /\ CandidateIsUnheard
  /\ PublishedIsReported
  /\ ReportedIsPublished
  /\ NoForgottenExecutor
  /\ DisconnectSticks
  /\ LossIsHeard

-----------------------------------------------------------------------------
\* The initial state, an idle manager that was never asked to connect,
\* satisfies the inductive invariant.
LEMMA InitIInv == Init => IInv
BY MaxRequestsAssumption
   DEF Init, IInv, TypeOK, Phases, CallStates, Attempting, ResourceStates, Gens, None,
       CallsAreNumbered, PublishedIsCommitted, CandidateIsUnheard, PublishedIsReported,
       ReportedIsPublished, NoForgottenExecutor, DisconnectSticks, LossIsHeard

\* connect() preserves the inductive invariant: the call it numbers is new.
LEMMA ConnectIInv == IInv /\ Connect => IInv'
<1> SUFFICES ASSUME IInv, Connect PROVE IInv'
  OBVIOUS
<1> USE MaxRequestsAssumption DEF Gens, None, IInv, Connect
<1>1. TypeOK'
  BY DEF TypeOK, Phases, CallStates, Attempting, ResourceStates
<1>2. CallsAreNumbered' /\ PublishedIsCommitted' /\ CandidateIsUnheard'
  BY DEF TypeOK, CallsAreNumbered, PublishedIsCommitted, CandidateIsUnheard
<1>3. PublishedIsReported' /\ ReportedIsPublished'
  BY DEF TypeOK, PublishedIsReported, ReportedIsPublished
<1>4. NoForgottenExecutor' /\ DisconnectSticks' /\ LossIsHeard'
  BY DEF TypeOK, CallsAreNumbered, NoForgottenExecutor, DisconnectSticks, LossIsHeard
<1>5. QED
  BY <1>1, <1>2, <1>3, <1>4

\* disconnect() unpublishes the executor and cancels every attempt.
LEMMA DisconnectIInv == IInv /\ Disconnect => IInv'
<1> SUFFICES ASSUME IInv, Disconnect PROVE IInv'
  OBVIOUS
<1> USE DEF Gens, None, IInv, Disconnect
<1>1. TypeOK'
  BY MaxRequestsAssumption DEF TypeOK, Phases, CallStates, Attempting, ResourceStates
<1>2. CallsAreNumbered' /\ PublishedIsCommitted' /\ CandidateIsUnheard'
  BY DEF TypeOK, CallsAreNumbered, PublishedIsCommitted, CandidateIsUnheard, NoForgottenExecutor, LossIsHeard
<1>3. PublishedIsReported' /\ ReportedIsPublished'
  BY DEF TypeOK, CallsAreNumbered, PublishedIsReported, ReportedIsPublished
<1>4. NoForgottenExecutor' /\ DisconnectSticks' /\ LossIsHeard'
  BY DEF TypeOK, CallsAreNumbered, PublishedIsCommitted, CandidateIsUnheard, NoForgottenExecutor, DisconnectSticks, LossIsHeard
<1>5. QED
  BY <1>1, <1>2, <1>3, <1>4

\* A candidate that arrives late goes straight to its disposal.
LEMMA BuiltIInv == ASSUME NEW g \in Gens, IInv, Built(g) PROVE IInv'
<1> USE DEF Gens, None, IInv, Built, Current
<1>1. TypeOK'
  BY MaxRequestsAssumption DEF TypeOK, Phases, CallStates, Attempting, ResourceStates
<1>2. CallsAreNumbered' /\ PublishedIsCommitted' /\ CandidateIsUnheard'
  BY DEF TypeOK, CallsAreNumbered, PublishedIsCommitted, CandidateIsUnheard, NoForgottenExecutor, LossIsHeard
<1>3. PublishedIsReported' /\ ReportedIsPublished'
  BY DEF TypeOK, CallsAreNumbered, PublishedIsReported, ReportedIsPublished
<1>4. NoForgottenExecutor' /\ DisconnectSticks' /\ LossIsHeard'
  BY DEF TypeOK, CallsAreNumbered, PublishedIsCommitted, CandidateIsUnheard, NoForgottenExecutor, DisconnectSticks, LossIsHeard
<1>5. QED
  BY <1>1, <1>2, <1>3, <1>4

\* A failed handshake leaves the published executor alone.
LEMMA BuildFailsIInv == ASSUME NEW g \in Gens, IInv, BuildFails(g) PROVE IInv'
<1> USE DEF Gens, None, IInv, BuildFails, RestingPhase
<1>1. TypeOK'
  BY MaxRequestsAssumption DEF TypeOK, Phases, CallStates, Attempting, ResourceStates
<1>2. CallsAreNumbered' /\ PublishedIsCommitted' /\ CandidateIsUnheard'
  BY DEF TypeOK, CallsAreNumbered, PublishedIsCommitted, CandidateIsUnheard, NoForgottenExecutor, LossIsHeard
<1>3. PublishedIsReported' /\ ReportedIsPublished'
  BY DEF TypeOK, CallsAreNumbered, PublishedIsReported, ReportedIsPublished
<1>4. NoForgottenExecutor' /\ DisconnectSticks' /\ LossIsHeard'
  BY DEF TypeOK, CallsAreNumbered, PublishedIsCommitted, CandidateIsUnheard, NoForgottenExecutor, DisconnectSticks, LossIsHeard
<1>5. QED
  BY <1>1, <1>2, <1>3, <1>4

\* The swap publishes a probed candidate and starts disposing of the old one.
LEMMA CommitIInv == ASSUME NEW g \in Gens, IInv, Commit(g) PROVE IInv'
<1> USE DEF Gens, None, IInv, Commit, Current, Attempting
<1>1. TypeOK'
  BY MaxRequestsAssumption DEF TypeOK, Phases, CallStates, Attempting, ResourceStates
<1>2. CallsAreNumbered' /\ PublishedIsCommitted' /\ CandidateIsUnheard'
  BY DEF TypeOK, CallsAreNumbered, PublishedIsCommitted, CandidateIsUnheard, NoForgottenExecutor, LossIsHeard
<1>3. PublishedIsReported' /\ ReportedIsPublished'
  BY DEF TypeOK, CallsAreNumbered, PublishedIsReported, ReportedIsPublished
<1>4. NoForgottenExecutor' /\ DisconnectSticks' /\ LossIsHeard'
  BY DEF TypeOK, CallsAreNumbered, PublishedIsCommitted, CandidateIsUnheard, NoForgottenExecutor, DisconnectSticks, LossIsHeard
<1>5. QED
  BY <1>1, <1>2, <1>3, <1>4

\* A rejected candidate is disposed of.
LEMMA RefuseIInv == ASSUME NEW g \in Gens, IInv, Refuse(g) PROVE IInv'
<1> USE DEF Gens, None, IInv, Refuse
<1>1. TypeOK'
  BY MaxRequestsAssumption DEF TypeOK, Phases, CallStates, Attempting, ResourceStates
<1>2. CallsAreNumbered' /\ PublishedIsCommitted' /\ CandidateIsUnheard'
  BY DEF TypeOK, CallsAreNumbered, PublishedIsCommitted, CandidateIsUnheard, NoForgottenExecutor, LossIsHeard
<1>3. PublishedIsReported' /\ ReportedIsPublished'
  BY DEF TypeOK, CallsAreNumbered, PublishedIsReported, ReportedIsPublished
<1>4. NoForgottenExecutor' /\ DisconnectSticks' /\ LossIsHeard'
  BY DEF TypeOK, CallsAreNumbered, PublishedIsCommitted, CandidateIsUnheard, NoForgottenExecutor, DisconnectSticks, LossIsHeard
<1>5. QED
  BY <1>1, <1>2, <1>3, <1>4

\* The catch block resets the phase only for the newest call.
LEMMA ClosedIInv == ASSUME NEW g \in Gens, IInv, Closed(g) PROVE IInv'
<1> USE DEF Gens, None, IInv, Closed, RestingPhase
<1>1. TypeOK'
  BY MaxRequestsAssumption DEF TypeOK, Phases, CallStates, Attempting, ResourceStates
<1>2. CallsAreNumbered' /\ PublishedIsCommitted' /\ CandidateIsUnheard'
  BY DEF TypeOK, CallsAreNumbered, PublishedIsCommitted, CandidateIsUnheard, NoForgottenExecutor, LossIsHeard
<1>3. PublishedIsReported' /\ ReportedIsPublished'
  BY DEF TypeOK, CallsAreNumbered, PublishedIsReported, ReportedIsPublished
<1>4. NoForgottenExecutor' /\ DisconnectSticks' /\ LossIsHeard'
  BY DEF TypeOK, CallsAreNumbered, PublishedIsCommitted, CandidateIsUnheard, NoForgottenExecutor, DisconnectSticks, LossIsHeard
<1>5. QED
  BY <1>1, <1>2, <1>3, <1>4

\* A committed attempt returns once the executor it replaced is gone.
LEMMA RetiredIInv == ASSUME NEW g \in Gens, IInv, Retired(g) PROVE IInv'
<1> USE DEF Gens, None, IInv, Retired
<1>1. TypeOK'
  BY MaxRequestsAssumption DEF TypeOK, Phases, CallStates, Attempting, ResourceStates
<1>2. CallsAreNumbered' /\ PublishedIsCommitted' /\ CandidateIsUnheard'
  BY DEF TypeOK, CallsAreNumbered, PublishedIsCommitted, CandidateIsUnheard, NoForgottenExecutor, LossIsHeard
<1>3. PublishedIsReported' /\ ReportedIsPublished'
  BY DEF TypeOK, CallsAreNumbered, PublishedIsReported, ReportedIsPublished
<1>4. NoForgottenExecutor' /\ DisconnectSticks' /\ LossIsHeard'
  BY DEF TypeOK, CallsAreNumbered, PublishedIsCommitted, CandidateIsUnheard, NoForgottenExecutor, DisconnectSticks, LossIsHeard
<1>5. QED
  BY <1>1, <1>2, <1>3, <1>4

\* connect()'s finally() forgets the attempt.
LEMMA SettleIInv == ASSUME NEW g \in Gens, IInv, Settle(g) PROVE IInv'
<1> USE DEF Gens, None, IInv, Settle
<1>1. TypeOK'
  BY MaxRequestsAssumption DEF TypeOK, Phases, CallStates, Attempting, ResourceStates
<1>2. CallsAreNumbered' /\ PublishedIsCommitted' /\ CandidateIsUnheard'
  BY DEF TypeOK, CallsAreNumbered, PublishedIsCommitted, CandidateIsUnheard, NoForgottenExecutor, LossIsHeard
<1>3. PublishedIsReported' /\ ReportedIsPublished'
  BY DEF TypeOK, CallsAreNumbered, PublishedIsReported, ReportedIsPublished
<1>4. NoForgottenExecutor' /\ DisconnectSticks' /\ LossIsHeard'
  BY DEF TypeOK, CallsAreNumbered, PublishedIsCommitted, CandidateIsUnheard, NoForgottenExecutor, DisconnectSticks, LossIsHeard
<1>5. QED
  BY <1>1, <1>2, <1>3, <1>4

\* disconnect() resets the phase only if it is still the newest call.
LEMMA DrainedIInv == ASSUME NEW g \in Gens, IInv, Drained(g) PROVE IInv'
<1> USE DEF Gens, None, IInv, Drained, RestingPhase, Attempting
<1>1. TypeOK'
  BY MaxRequestsAssumption DEF TypeOK, Phases, CallStates, Attempting, ResourceStates
<1>2. CallsAreNumbered' /\ PublishedIsCommitted' /\ CandidateIsUnheard'
  BY DEF TypeOK, CallsAreNumbered, PublishedIsCommitted, CandidateIsUnheard, NoForgottenExecutor, LossIsHeard
<1>3. PublishedIsReported' /\ ReportedIsPublished'
  BY DEF TypeOK, CallsAreNumbered, PublishedIsReported, ReportedIsPublished
<1>4. NoForgottenExecutor' /\ DisconnectSticks' /\ LossIsHeard'
  BY DEF TypeOK, CallsAreNumbered, PublishedIsCommitted, CandidateIsUnheard, NoForgottenExecutor, DisconnectSticks, LossIsHeard
<1>5. QED
  BY <1>1, <1>2, <1>3, <1>4

\* Disposal ends.
LEMMA DisposedIInv == ASSUME NEW e \in Gens, IInv, Disposed(e) PROVE IInv'
<1> USE DEF Gens, None, IInv, Disposed
<1>1. TypeOK'
  BY MaxRequestsAssumption DEF TypeOK, Phases, CallStates, Attempting, ResourceStates
<1>2. CallsAreNumbered' /\ PublishedIsCommitted' /\ CandidateIsUnheard'
  BY DEF TypeOK, CallsAreNumbered, PublishedIsCommitted, CandidateIsUnheard, NoForgottenExecutor, LossIsHeard
<1>3. PublishedIsReported' /\ ReportedIsPublished'
  BY DEF TypeOK, CallsAreNumbered, PublishedIsReported, ReportedIsPublished
<1>4. NoForgottenExecutor' /\ DisconnectSticks' /\ LossIsHeard'
  BY DEF TypeOK, CallsAreNumbered, PublishedIsCommitted, CandidateIsUnheard, NoForgottenExecutor, DisconnectSticks, LossIsHeard
<1>5. QED
  BY <1>1, <1>2, <1>3, <1>4

\* The loss of the published executor unpublishes it.
LEMMA HandleConnectionLostIInv == ASSUME NEW e \in Gens, IInv, HandleConnectionLost(e), Heard(e) PROVE IInv'
<1> USE DEF Gens, None, IInv, HandleConnectionLost, Heard
<1>1. TypeOK'
  BY MaxRequestsAssumption DEF TypeOK, Phases, CallStates, Attempting, ResourceStates
<1>2. CallsAreNumbered' /\ PublishedIsCommitted' /\ CandidateIsUnheard'
  BY DEF TypeOK, CallsAreNumbered, PublishedIsCommitted, CandidateIsUnheard, NoForgottenExecutor, LossIsHeard
<1>3. PublishedIsReported' /\ ReportedIsPublished'
  BY DEF TypeOK, CallsAreNumbered, PublishedIsReported, ReportedIsPublished
<1>4. NoForgottenExecutor' /\ DisconnectSticks' /\ LossIsHeard'
  BY DEF TypeOK, CallsAreNumbered, PublishedIsCommitted, CandidateIsUnheard, NoForgottenExecutor, DisconnectSticks, LossIsHeard
<1>5. QED
  BY <1>1, <1>2, <1>3, <1>4

\* A loss changes only what becomes of a candidate nobody publishes, or is the
\* loss of the published executor.
LEMMA LoseIInv ==
  ASSUME NEW e \in Gens, IInv, Lose(e) PROVE IInv'
<1>1. CASE Heard(e) /\ HandleConnectionLost(e)
  BY <1>1, HandleConnectionLostIInv
<1>2. CASE ~Heard(e) /\ ~(Heard(e) /\ HandleConnectionLost(e))
  <2> USE DEF Gens, None, IInv, Lose
  <2>1. TypeOK'
    BY <1>2 DEF TypeOK, ResourceStates
  <2>2. CallsAreNumbered' /\ PublishedIsCommitted' /\ CandidateIsUnheard'
    BY <1>2 DEF TypeOK, CallsAreNumbered, PublishedIsCommitted, CandidateIsUnheard
  <2>3. PublishedIsReported' /\ ReportedIsPublished'
    BY <1>2 DEF PublishedIsReported, ReportedIsPublished
  <2>4. NoForgottenExecutor' /\ DisconnectSticks' /\ LossIsHeard'
    BY <1>2 DEF TypeOK, NoForgottenExecutor, DisconnectSticks, LossIsHeard
  <2>5. QED
    BY <2>1, <2>2, <2>3, <2>4
<1>3. QED
  BY <1>1, <1>2 DEF Lose

\* Every step of the manager preserves the inductive invariant.
LEMMA NextIInv == IInv /\ [Next]_vars => IInv'
<1> SUFFICES ASSUME IInv, [Next]_vars PROVE IInv'
  OBVIOUS
<1>1. CASE Connect
  BY <1>1, ConnectIInv
<1>2. CASE Disconnect
  BY <1>2, DisconnectIInv
<1>3. ASSUME NEW g \in Gens, Progress(g) PROVE IInv'
  BY <1>3, BuiltIInv, BuildFailsIInv, CommitIInv, RefuseIInv, ClosedIInv, RetiredIInv,
     SettleIInv, DrainedIInv DEF Progress
<1>4. ASSUME NEW e \in Gens, Disposed(e) \/ Lose(e) \/ NotifyLost(e) PROVE IInv'
  BY <1>4, DisposedIInv, LoseIInv, HandleConnectionLostIInv DEF NotifyLost
<1>5. CASE UNCHANGED vars
  BY <1>5
     DEF vars, IInv, TypeOK, CallsAreNumbered, PublishedIsCommitted, CandidateIsUnheard,
         PublishedIsReported, ReportedIsPublished, NoForgottenExecutor, DisconnectSticks,
         LossIsHeard
<1>6. QED
  BY <1>1, <1>2, <1>3, <1>4, <1>5 DEF Next

\* The inductive invariant holds of the manager, fair or not.
THEOREM Invariance == Safety => []IInv
BY InitIInv, NextIInv, PTL DEF Safety

\* The private fields of the manager always have their types.
THEOREM TypeCorrect == Spec => []TypeOK
<1>1. IInv => TypeOK
  BY DEF IInv
<1>2. QED
  BY <1>1, Invariance, PTL DEF Spec

\* However connects, disconnects, failures and losses interleave, every
\* executor that still holds a connection is published or being probed:
\* connectAttempt(), disconnect() and handleConnectionLost() between them leak
\* no connection.
THEOREM NothingForgotten == Spec => []NoForgottenExecutor
<1>1. IInv => NoForgottenExecutor
  BY DEF IInv
<1>2. QED
  BY <1>1, Invariance, PTL DEF Spec

\* After disconnect(), no attempt it cancelled publishes an executor, however
\* late its handshake completes.
THEOREM DisconnectIsFinal == Spec => []DisconnectSticks
<1>1. IInv => DisconnectSticks
  BY DEF IInv
<1>2. QED
  BY <1>1, Invariance, PTL DEF Spec

\* handleConnectionLost() never ignores the loss of the published executor.
THEOREM LossIsNeverStale == Spec => []LossIsHeard
<1>1. IInv => LossIsHeard
  BY DEF IInv
<1>2. QED
  BY <1>1, Invariance, PTL DEF Spec

\* The phase that the manager reports agrees with the executor it publishes: the
\* assignments of phase in connect(), connectAttempt(), disconnect() and
\* handleConnectionLost(), each guarded on its own, never contradict executor.
THEOREM PhaseIsTrue == Spec => []PhaseAgrees
<1>1. IInv => PhaseAgrees
  <2> SUFFICES ASSUME IInv PROVE PhaseAgrees
    OBVIOUS
  <2>1. ASSUME executor # None, \A g \in Gens : pc[g] \in {"none", "settled", "drained"}
        PROVE  phase = "connected"
    <3>1. requestGeneration # 0 => requestGeneration \in Gens
      BY MaxRequestsAssumption DEF IInv, TypeOK, Gens
    <3>2. QED
      BY <2>1, <3>1 DEF IInv, PublishedIsReported
  <2>2. QED
    BY <2>1 DEF IInv, ReportedIsPublished, PhaseAgrees
<1>2. QED
  BY <1>1, Invariance, PTL DEF Spec

-----------------------------------------------------------------------------
\* What one step of the manager does to the call, the openness and the link
\* that Link knows about.
LEMMA StepRefines == IInv /\ [Next]_vars => [AsLink!Next]_(AsLink!vars)
<1> SUFFICES ASSUME IInv, [Next]_vars PROVE [AsLink!Next]_(AsLink!vars)
  OBVIOUS
<1> USE MaxRequestsAssumption DEF AsLink!Next, AsLink!vars, Gens, None, IInv, TypeOK
<1>1. CASE Connect
  BY <1>1 DEF Connect, AsLink!Ask
<1>2. CASE Disconnect
  BY <1>2 DEF Disconnect, AsLink!Cancel
<1>3. ASSUME NEW g \in Gens, Built(g) \/ BuildFails(g) \/ Refuse(g)
      PROVE  [AsLink!Next]_(AsLink!vars)
  BY <1>3 DEF Built, BuildFails, Refuse, AsLink!GiveUp
<1>4. ASSUME NEW g \in Gens, Commit(g) PROVE [AsLink!Next]_(AsLink!vars)
  BY <1>4 DEF Commit, Current, AsLink!Establish
<1>5. ASSUME NEW g \in Gens, Closed(g) \/ Retired(g) \/ Settle(g) \/ Drained(g)
      PROVE  [AsLink!Next]_(AsLink!vars)
  BY SMTT(30), <1>5 DEF Closed, Retired, Settle, Drained
<1>6. ASSUME NEW e \in Gens, Lose(e) \/ NotifyLost(e) PROVE [AsLink!Next]_(AsLink!vars)
  BY <1>6 DEF Lose, NotifyLost, Heard, HandleConnectionLost, AsLink!Drop
<1>7. ASSUME NEW e \in Gens, Disposed(e) PROVE [AsLink!Next]_(AsLink!vars)
  BY <1>7 DEF Disposed
<1>8. CASE UNCHANGED vars
  BY <1>8 DEF vars
<1>9. QED
  BY <1>1, <1>2, <1>3, <1>4, <1>5, <1>6, <1>7, <1>8 DEF Next, Progress

\* The manager implements Link: only the newest call publishes, at most once,
\* a failed replacement leaves the old connection published, and a disconnect
\* is final.
THEOREM Refinement == Spec => ImplementsLink
<1>1. Init => AsLink!Init
  BY DEF Init, AsLink!Init, None
<1>2. QED
  BY <1>1, StepRefines, Invariance, PTL DEF Spec, Safety, ImplementsLink, AsLink!Spec

-----------------------------------------------------------------------------
(***************************************************************************)
(* SshChannels, as MCMachine instantiates it: lists without repetition,    *)
(* for the queue of the semaphore.                                         *)
(***************************************************************************)

\* A list of the elements of a set, each once.
Lists(q, W) ==
  /\ \A i \in 1..Len(q) : q[i] \in W
  /\ \A w \in W : \E i \in 1..Len(q) : q[i] = w
  /\ \A i, j \in 1..Len(q) : q[i] = q[j] => i = j

\* Append() adds an element that is not listed.
LEMMA Appended ==
  ASSUME NEW S, NEW q \in Seq(S), NEW x \in S, NEW W, Lists(q, W), x \notin W
  PROVE  /\ Append(q, x) \in Seq(S) /\ Len(Append(q, x)) = Len(q) + 1
         /\ Append(q, x) # <<>> /\ Lists(Append(q, x), W \cup {x})
<1> DEFINE r == Append(q, x)
<1>1. /\ r \in Seq(S) /\ Len(r) = Len(q) + 1 /\ r[Len(q) + 1] = x
      /\ \A i \in 1..Len(q) : r[i] = q[i]
  BY AppendProperties
<1>2. Len(q) \in Nat
  BY LenProperties
<1> HIDE DEF r
<1>3. \A i \in 1..Len(r) : i \in 1..Len(q) \/ i = Len(q) + 1
  BY <1>1, <1>2
<1>4. \A i \in 1..Len(q) : i \in 1..Len(r) /\ r[i] # x
  BY <1>1, <1>2 DEF Lists
<1>5. Len(q) + 1 \in 1..Len(r)
  BY <1>1, <1>2
<1>6. \A i \in 1..Len(r) : r[i] \in W \cup {x}
  BY <1>1, <1>3 DEF Lists
<1>7. \A w \in W \cup {x} : \E i \in 1..Len(r) : r[i] = w
  BY <1>1, <1>4, <1>5 DEF Lists
<1>8. \A i, j \in 1..Len(r) : r[i] = r[j] => i = j
  BY <1>1, <1>3, <1>4 DEF Lists
<1>9. r # <<>>
  BY <1>1, <1>2, EmptySeq
<1>10. QED
  BY <1>1, <1>6, <1>7, <1>8, <1>9 DEF Lists, r

\* A list without one of its places is one of the rest.
LEMMA Shortened ==
  ASSUME NEW S, NEW q \in Seq(S), NEW W, Lists(q, W), NEW k \in 1..Len(q),
         NEW r \in Seq(S), Len(r) = Len(q) - 1,
         \A j \in 1..Len(r) : r[j] = IF j < k THEN q[j] ELSE q[j + 1]
  PROVE  Lists(r, W \ {q[k]})
<1>1. Len(q) \in Nat /\ Len(r) \in Nat /\ k \in Nat
  BY LenProperties
<1>2. ASSUME NEW j \in 1..Len(r)
      PROVE  \E i \in 1..Len(q) : i # k /\ r[j] = q[i] /\ i = IF j < k THEN j ELSE j + 1
  BY <1>1
<1>3. ASSUME NEW j \in 1..Len(r) PROVE r[j] \in W \ {q[k]}
  <2>1. PICK i \in 1..Len(q) : i # k /\ r[j] = q[i]
    BY <1>2
  <2>2. QED
    BY <2>1 DEF Lists
<1>4. ASSUME NEW w \in W \ {q[k]} PROVE \E j \in 1..Len(r) : r[j] = w
  <2>1. PICK i \in 1..Len(q) : q[i] = w
    BY DEF Lists
  <2>2. i # k
    BY <1>4, <2>1
  <2>3. CASE i < k
    <3>1. i \in 1..Len(r) /\ r[i] = q[i]
      BY <1>1, <2>3
    <3>2. QED
      BY <2>1, <3>1
  <2>4. CASE i > k
    <3>1. i - 1 \in 1..Len(r) /\ ~(i - 1 < k) /\ (i - 1) + 1 = i
      BY <1>1, <2>4
    <3>2. r[i - 1] = q[i]
      BY <3>1
    <3>3. QED
      BY <2>1, <3>1, <3>2
  <2>5. QED
    BY <1>1, <2>2, <2>3, <2>4
<1>5. ASSUME NEW i \in 1..Len(r), NEW j \in 1..Len(r), r[i] = r[j] PROVE i = j
  <2>1. PICK m \in 1..Len(q) : r[i] = q[m] /\ m = IF i < k THEN i ELSE i + 1
    BY <1>2
  <2>2. PICK n \in 1..Len(q) : r[j] = q[n] /\ n = IF j < k THEN j ELSE j + 1
    BY <1>2
  <2>3. m = n
    BY ZenonT(30), <1>5, <2>1, <2>2 DEF Lists
  <2>4. QED
    BY <1>1, <2>1, <2>2, <2>3
<1>6. QED
  BY <1>3, <1>4, <1>5 DEF Lists

\* Tail() drops the first.
LEMMA TailLists ==
  ASSUME NEW S, NEW q \in Seq(S), q # <<>>, NEW W, Lists(q, W)
  PROVE  /\ Tail(q) \in Seq(S) /\ Len(Tail(q)) = Len(q) - 1
         /\ Head(q) \in W /\ Head(q) \in S /\ Lists(Tail(q), W \ {Head(q)})
<1> DEFINE r == Tail(q)
<1>1. /\ r \in Seq(S) /\ Len(r) = Len(q) - 1 /\ Head(q) = q[1] /\ Head(q) \in S
      /\ \A i \in 1..Len(r) : r[i] = q[i + 1]
  BY HeadTailProperties
<1>2. Len(q) \in Nat /\ Len(q) > 0
  BY LenProperties, EmptySeq
<1> HIDE DEF r
<1>3. 1 \in 1..Len(q) /\ \A j \in 1..Len(r) : ~(j < 1)
  BY <1>1, <1>2
<1>4. Lists(r, W \ {q[1]})
  BY <1>1, <1>3, Shortened
<1>5. QED
  BY <1>1, <1>3, <1>4 DEF Lists, r

\* RemoveAt() drops one.
LEMMA RemovedLists ==
  ASSUME NEW S, NEW q \in Seq(S), NEW k \in 1..Len(q), NEW W, Lists(q, W)
  PROVE  LET r == Ssh!RemoveAt(q, k) IN
         /\ r \in Seq(S) /\ Len(r) = Len(q) - 1 /\ Lists(r, W \ {q[k]})
<1> DEFINE left == SubSeq(q, 1, k - 1)
           right == SubSeq(q, k + 1, Len(q))
           r == Ssh!RemoveAt(q, k)
<1>1. Len(q) \in Nat /\ k \in Nat /\ \A i \in 1..Len(q) : q[i] \in S
  BY LenProperties, ElementOfSeq
<1>2. r = left \o right
  BY DEF Ssh!RemoveAt
<1>3. /\ left \in Seq(S) /\ Len(left) = k - 1 /\ \A i \in 1..(k - 1) : left[i] = q[i]
  BY <1>1, SubSeqProperties
<1>4. /\ right \in Seq(S) /\ Len(right) = Len(q) - k
      /\ \A i \in 1..(Len(q) - k) : right[i] = q[k + i]
  BY <1>1, SubSeqProperties
<1> HIDE DEF left, right
<1>5. /\ r \in Seq(S) /\ Len(r) = Len(q) - 1
      /\ \A j \in 1..(Len(q) - 1) : r[j] = IF j < k THEN q[j] ELSE q[j + 1]
  <2> HIDE DEF r
  <2>1. /\ r \in Seq(S) /\ Len(r) = Len(left) + Len(right)
        /\ \A j \in 1..Len(left) + Len(right) :
             r[j] = IF j <= Len(left) THEN left[j] ELSE right[j - Len(left)]
    BY <1>2, <1>3, <1>4, ConcatProperties
  <2>2. Len(left) + Len(right) = Len(q) - 1
    BY <1>1, <1>3, <1>4
  <2>3. ASSUME NEW j \in 1..(Len(q) - 1) PROVE r[j] = IF j < k THEN q[j] ELSE q[j + 1]
    <3>1. CASE j < k
      BY <1>1, <1>3, <2>1, <2>2, <3>1
    <3>2. CASE ~(j < k)
      <4>1. j - (k - 1) \in 1..(Len(q) - k) /\ k + (j - (k - 1)) = j + 1
        BY <1>1, <3>2
      <4>2. r[j] = right[j - (k - 1)]
        BY <1>1, <1>3, <2>1, <2>2, <3>2
      <4>3. QED
        BY <1>4, <3>2, <4>1, <4>2
    <3>3. QED
      BY <3>1, <3>2
  <2>4. QED
    BY <2>1, <2>2, <2>3
<1> HIDE DEF r
<1>6. QED
  BY <1>5, Shortened DEF r

-----------------------------------------------------------------------------
(***************************************************************************)
(* LocalProcesses.                                                         *)
(***************************************************************************)

\* Whoever waits for a process is tracked, and one that is tracked has told nobody yet;
\* the disposal waits for all that is tracked.
LocalInv ==
  /\ Local!TypeOK
  /\ Local!NoneIsForgotten
  /\ localDisposed # "no" => tracked \subseteq waits
  /\ localDisposed = "done" => tracked = {}
  /\ \A o \in Local!Ops :
       /\ call[o] \in {"ready", "closing"} => o \in tracked
       /\ o \in tracked => exit[o] \in {"none", "registered"}
       /\ call[o] = "idle" => proc[o] = "none" /\ o \notin tracked /\ exit[o] = "none"
       /\ exit[o] # "twice"

\* finish() keeps the invariant when the process has ended or has had SIGKILL.
LEMMA LocalFinish ==
  ASSUME LocalInv, NEW o \in Local!Ops, Local!Finish(o),
         proc' \in [Local!Ops -> {"none", "spawning", "alive", "gone"}],
         \A p \in Local!Ops : p # o => proc'[p] = proc[p],
         proc'[o] \in {"spawning", "alive"} => sent[o] = "KILL",
         call[o] # "idle",
         UNCHANGED <<sent, localDisposed, waits>>
  PROVE  LocalInv'
<1>1. tracked' = tracked \ {o}
  BY DEF Local!Finish
<1>2. /\ call' \in [Local!Ops -> {"idle", "ready", "spawned", "closing", "running",
                                  "answered", "refused"}]
      /\ exit' \in [Local!Ops -> {"none", "registered", "queued", "told", "twice"}]
      /\ \A p \in Local!Ops : p # o => call'[p] = call[p] /\ exit'[p] = exit[p]
      /\ call'[o] \notin {"idle", "ready", "closing"} /\ exit'[o] # "twice"
  <2>1. CASE o \in tracked
    <3>1. call' = [call EXCEPT ![o] = CASE @ \in {"ready", "closing"} -> "refused"
                                        [] @ = "running" /\ o \in LocalExecs -> "answered"
                                        [] OTHER -> @]
      BY <2>1 DEF Local!Finish
    <3>2. exit' = [exit EXCEPT ![o] = CASE @ = "registered" -> "told"
                                        [] @ = "told" -> "twice"
                                        [] OTHER -> @]
      BY <2>1 DEF Local!Finish
    <3>3. QED
      BY <2>1, <3>1, <3>2 DEF LocalInv, Local!TypeOK
  <2>2. CASE o \notin tracked
    BY <2>2 DEF Local!Finish, LocalInv, Local!TypeOK
  <2>3. QED
    BY <2>1, <2>2
<1>3. Local!TypeOK'
  BY <1>1, <1>2 DEF LocalInv, Local!TypeOK
<1>4. QED
  BY <1>1, <1>2, <1>3 DEF LocalInv, Local!NoneIsForgotten

\* Every step of the local executor keeps its invariant.
LEMMA LocalStep ==
  ASSUME LocalInv, [Local!Next]_(Local!vars)
  PROVE  LocalInv'
<1> USE DEF LocalInv
<1>1. ASSUME NEW o \in Local!Ops, NEW native \in BOOLEAN, Local!Start(o, native)
      PROVE  LocalInv'
  <2>1. Local!TypeOK'
    BY <1>1 DEF Local!Start, Local!TypeOK
  <2>2. QED
    BY <1>1, <2>1 DEF Local!Start, Local!TypeOK, Local!NoneIsForgotten
<1>2. ASSUME NEW o \in Local!Ops, Local!Spawns(o) PROVE LocalInv'
  <2>1. Local!TypeOK'
    BY <1>2 DEF Local!Spawns, Local!TypeOK
  <2>2. QED
    BY <1>2, <2>1 DEF Local!Spawns, Local!TypeOK, Local!NoneIsForgotten
<1>3. ASSUME NEW o \in Local!Ops, Local!GoesOn(o) PROVE LocalInv'
  <2>1. /\ call[o] = "spawned"
        /\ call' = [call EXCEPT ![o] = CASE localDisposed = "no" -> "running"
                                         [] o \in tracked -> "closing"
                                         [] OTHER -> "refused"]
        /\ UNCHANGED <<proc, tracked, exit, localDisposed, waits>>
    BY <1>3 DEF Local!GoesOn
  <2>2. /\ sent' \in [Local!Ops -> {"none", "TERM", "KILL"}]
        /\ \A p \in Local!Ops : sent[p] = "KILL" => sent'[p] = "KILL"
    BY <1>3 DEF Local!GoesOn, Local!Terminate, Local!TypeOK
  <2>3. Local!TypeOK'
    BY <2>1, <2>2 DEF Local!TypeOK
  <2>4. QED
    BY <2>1, <2>2, <2>3 DEF Local!TypeOK, Local!NoneIsForgotten
<1>4. ASSUME NEW o \in Local!Ops, Local!Gone(o) PROVE LocalInv'
  BY <1>4, LocalFinish DEF Local!Gone, Local!TypeOK
<1>5. ASSUME NEW o \in Local!Ops, Local!Cancel(o) PROVE LocalInv'
  BY <1>5 DEF Local!Cancel, Local!Terminate, Local!TypeOK, Local!NoneIsForgotten
<1>6. ASSUME NEW o \in Local!Ops, Local!Kill(o) PROVE LocalInv'
  BY <1>6 DEF Local!Kill, Local!TypeOK, Local!NoneIsForgotten
<1>7. ASSUME NEW o \in Local!Ops, Local!Force(o) PROVE LocalInv'
  BY <1>7, LocalFinish DEF Local!Force, Local!TypeOK
<1>8. ASSUME NEW o \in Local!Ops, Local!OnExit(o) \/ Local!TellLate(o) PROVE LocalInv'
  BY <1>8 DEF Local!OnExit, Local!TellLate, Local!TypeOK, Local!NoneIsForgotten
<1>9. CASE Local!Dispose
  BY <1>9 DEF Local!Dispose, Local!Terminate, Local!TypeOK, Local!NoneIsForgotten
<1>10. CASE Local!Disposed
  BY <1>10 DEF Local!Disposed, Local!TypeOK, Local!NoneIsForgotten
<1>11. CASE UNCHANGED Local!vars
  BY <1>11 DEF Local!vars, Local!TypeOK, Local!NoneIsForgotten
<1>12. QED
  BY <1>1, <1>2, <1>3, <1>4, <1>5, <1>6, <1>7, <1>8, <1>9, <1>10, <1>11 DEF Local!Next

-----------------------------------------------------------------------------
(***************************************************************************)
(* SshChannels: the permits and the queue.                                 *)
(***************************************************************************)

\* The operations that hold a permit, and those that wait for one.
Holding == {o \in Ssh!Ops : op[o] \in {"granted", "opening", "running"}}
Queued == {o \in Ssh!Ops : op[o] = "queued"}

Stages == {"idle", "queued", "granted", "opening", "running", "settled"}

\* The semaphore counts who holds a permit and lists who waits; nobody waits while
\* one is free, or after the disposal.
PermitsInv ==
  /\ op \in [Ssh!Ops -> Stages]
  /\ channelQueue \in Seq(Ssh!Ops) /\ Len(channelQueue) <= MaxWaiting
  /\ IsFiniteSet(Holding) /\ active = Cardinality(Holding) /\ active <= MaxChannels
  /\ Lists(channelQueue, Queued)
  /\ channelQueue # <<>> => active = MaxChannels /\ disposed = "no"

\* The community module's sets of short lists are those of the standard module.
LEMMA ShortLists ==
  ASSUME NEW S, NEW n \in Nat, NEW q
  PROVE  q \in Ssh!BoundedSeq(S, n) <=> q \in Seq(S) /\ Len(q) <= n
<1>1. Ssh!BoundedSeq(S, n) = UNION {[1..m -> S] : m \in 0..n}
  BY DEF Ssh!BoundedSeq, Ssh!SeqOf
<1>2. ASSUME q \in Ssh!BoundedSeq(S, n) PROVE q \in Seq(S) /\ Len(q) <= n
  <2>1. PICK m \in 0..n : q \in [1..m -> S]
    BY <1>1, <1>2
  <2>2. m \in Nat
    BY <2>1
  <2>3. q \in Seq(S) /\ DOMAIN q = 1..m
    BY <2>1, <2>2, SeqDef
  <2>4. Len(q) = m
    BY <2>2, <2>3, LenProperties
  <2>5. QED
    BY <2>1, <2>3, <2>4
<1>3. ASSUME q \in Seq(S), Len(q) <= n PROVE q \in Ssh!BoundedSeq(S, n)
  <2>1. Len(q) \in Nat /\ q \in [1..Len(q) -> S]
    BY <1>3, LenProperties
  <2>2. Len(q) \in 0..n
    BY <1>3, <2>1
  <2>3. QED
    BY <1>1, <2>1, <2>2
<1>4. QED
  BY <1>2, <1>3

\* An operation that takes a permit, waits for one or is refused keeps the count.
LEMMA AcquireKeeps ==
  ASSUME PermitsInv, NEW o \in Ssh!Ops, op[o] = "idle", disposed = "no",
         Ssh!Acquire(o), UNCHANGED disposed
  PROVE  /\ PermitsInv'
         /\ op'[o] \in {"granted", "queued", "settled"}
         /\ \A p \in Ssh!Ops : p # o => op'[p] = op[p]
<1> USE ExecutorsAssumption
<1>1. o \notin Holding /\ o \notin Queued
  BY DEF Holding, Queued
<1>2. Cardinality(Holding) \in Nat /\ Len(channelQueue) \in Nat
  BY FS_CardinalityType, LenProperties DEF PermitsInv
<1>3. CASE active < MaxChannels
  <2>1. /\ active' = active + 1 /\ op' = [op EXCEPT ![o] = "granted"]
        /\ channelQueue' = channelQueue
    BY <1>3 DEF Ssh!Acquire
  <2>2. Holding' = Holding \cup {o} /\ Queued' = Queued
    BY <2>1 DEF Holding, Queued, PermitsInv
  <2>3. IsFiniteSet(Holding') /\ Cardinality(Holding') = Cardinality(Holding) + 1
    BY <1>1, <2>2, FS_AddElement DEF PermitsInv
  <2>4. channelQueue = <<>> /\ op' \in [Ssh!Ops -> Stages]
    BY <1>3, <2>1 DEF PermitsInv, Stages
  <2>5. QED
    BY <1>2, <1>3, <2>1, <2>2, <2>3, <2>4 DEF PermitsInv
<1>4. CASE ~(active < MaxChannels) /\ Len(channelQueue) < MaxWaiting
  <2>1. /\ channelQueue' = Append(channelQueue, o) /\ op' = [op EXCEPT ![o] = "queued"]
        /\ active' = active
    BY <1>4 DEF Ssh!Acquire
  <2>2. Holding' = Holding /\ Queued' = Queued \cup {o}
    BY <1>1, <2>1 DEF Holding, Queued, PermitsInv
  <2>3. /\ channelQueue' \in Seq(Ssh!Ops) /\ Len(channelQueue') = Len(channelQueue) + 1
        /\ Lists(channelQueue', Queued')
    BY <1>1, <2>1, <2>2, Appended DEF PermitsInv
  <2>4. op' \in [Ssh!Ops -> Stages] /\ active = MaxChannels
    BY <1>2, <1>4, <2>1 DEF PermitsInv, Stages
  <2>5. QED
    BY <1>2, <1>4, <2>1, <2>2, <2>3, <2>4 DEF PermitsInv
<1>5. CASE ~(active < MaxChannels) /\ ~(Len(channelQueue) < MaxWaiting)
  <2>1. op' = [op EXCEPT ![o] = "settled"] /\ UNCHANGED <<active, channelQueue>>
    BY <1>5 DEF Ssh!Acquire
  <2>2. Holding' = Holding /\ Queued' = Queued /\ op' \in [Ssh!Ops -> Stages]
    BY <1>1, <2>1 DEF Holding, Queued, PermitsInv, Stages
  <2>3. QED
    BY <2>1, <2>2 DEF PermitsInv
<1>6. QED
  BY <1>3, <1>4, <1>5

\* An operation that gives its permit back passes it on to who has waited longest.
LEMMA SettleKeeps ==
  ASSUME PermitsInv, NEW o \in Holding, Ssh!Settle(o), UNCHANGED disposed
  PROVE  /\ PermitsInv'
         /\ op'[o] = "settled"
         /\ \A p \in Ssh!Ops : \/ p = o
                               \/ op'[p] = op[p]
                               \/ disposed = "no" /\ op[p] = "queued" /\ op'[p] = "granted"
<1> USE ExecutorsAssumption
<1>1. /\ o \in Ssh!Ops /\ o \notin Queued
      /\ IsFiniteSet(Holding \ {o}) /\ Cardinality(Holding \ {o}) = Cardinality(Holding) - 1
      /\ Cardinality(Holding) \in Nat /\ Cardinality(Holding \ {o}) \in Nat
  BY FS_RemoveElement, FS_CardinalityType DEF Holding, Queued, PermitsInv
<1>2. CASE channelQueue = <<>>
  <2>1. /\ active' = active - 1 /\ channelQueue' = channelQueue
        /\ op' = [op EXCEPT ![o] = "settled"]
    BY <1>2 DEF Ssh!Settle
  <2>2. Holding' = Holding \ {o} /\ Queued' = Queued /\ op' \in [Ssh!Ops -> Stages]
    BY <1>1, <2>1 DEF Holding, Queued, PermitsInv, Stages
  <2>3. QED
    BY <1>1, <1>2, <2>1, <2>2 DEF PermitsInv
<1>3. CASE channelQueue # <<>>
  <2> DEFINE h == Head(channelQueue)
  <2>1. /\ channelQueue' = Tail(channelQueue) /\ active' = active
        /\ op' = [op EXCEPT ![o] = "settled", ![h] = "granted"]
    BY <1>3 DEF Ssh!Settle
  <2>2. /\ channelQueue' \in Seq(Ssh!Ops) /\ Len(channelQueue') = Len(channelQueue) - 1
        /\ h \in Queued /\ h \in Ssh!Ops /\ Lists(channelQueue', Queued \ {h})
    BY <1>3, <2>1, TailLists DEF PermitsInv
  <2> HIDE DEF h
  <2>3. op[h] = "queued" /\ h # o
    BY <1>1, <2>2 DEF Queued
  <2>4. op'[o] = "settled" /\ op'[h] = "granted" /\ op' \in [Ssh!Ops -> Stages]
    BY <1>1, <2>1, <2>2, <2>3 DEF PermitsInv, Stages
  <2>5. \A p \in Ssh!Ops : p # o /\ p # h => op'[p] = op[p]
    BY <2>1, <2>2 DEF PermitsInv
  <2>6. Holding' = (Holding \ {o}) \cup {h} /\ Queued' = Queued \ {h}
    BY <1>1, <2>2, <2>3, <2>4, <2>5 DEF Holding, Queued
  <2>7. h \notin Holding \ {o}
    BY <2>3 DEF Holding
  <2>8. IsFiniteSet(Holding') /\ Cardinality(Holding') = Cardinality(Holding)
    <3> DEFINE rest == Holding \ {o}
    <3>1. IsFiniteSet(rest) /\ h \notin rest /\ Holding' = rest \cup {h}
      BY <1>1, <2>6, <2>7
    <3>2. Cardinality(rest) = Cardinality(Holding) - 1
      BY <1>1
    <3> HIDE DEF rest
    <3>3. IsFiniteSet(rest \cup {h}) /\ Cardinality(rest \cup {h}) = Cardinality(rest) + 1
      BY <3>1, FS_AddElement
    <3>4. QED
      BY <1>1, <3>1, <3>2, <3>3
  <2>9. Len(channelQueue) \in Nat
    BY LenProperties DEF PermitsInv
  <2>10. PermitsInv'
    BY <1>3, <2>1, <2>2, <2>4, <2>6, <2>8, <2>9 DEF PermitsInv
  <2>11. QED
    BY <1>3, <2>3, <2>4, <2>5, <2>10 DEF PermitsInv
<1>4. QED
  BY <1>2, <1>3

-----------------------------------------------------------------------------
(***************************************************************************)
(* SshChannels: the channels.                                              *)
(***************************************************************************)

\* After the disposal nothing opens a channel and whoever still holds a permit for one
\* gives it back; a channel that is killed for good was opened and is being closed.
ChannelsInv ==
  /\ opAborted \subseteq Ssh!Ops
  /\ kill \in [Ssh!Ops -> {"no", "term", "kill"}]
  /\ channel \in [Ssh!Ops -> {"none", "asked", "open", "closing", "closed"}]
  /\ disposed \in {"no", "begun", "done"}
  /\ disposed # "no" =>
       \A o \in Ssh!Ops : op[o] # "opening" /\ (op[o] = "granted" => o \in opAborted)
  /\ \A o \in Ssh!Ops : kill[o] = "kill" =>
       channel[o] \notin {"asked", "open"} /\ op[o] \in {"running", "settled"}
  /\ Ssh!NoStrayChannel

\* An operation settles when its channel is not open any more.
LEMMA SettleCloses ==
  ASSUME PermitsInv, ChannelsInv, NEW o \in Holding, Ssh!Settle(o),
         opAborted \subseteq opAborted', opAborted' \subseteq Ssh!Ops,
         UNCHANGED <<kill, disposed>>,
         channel' \in [Ssh!Ops -> {"none", "asked", "open", "closing", "closed"}],
         channel'[o] # "open", kill[o] = "kill" => channel'[o] # "asked",
         \A p \in Ssh!Ops : p # o => channel'[p] = channel[p]
  PROVE  PermitsInv' /\ ChannelsInv'
<1>1. /\ PermitsInv'
      /\ op'[o] = "settled"
      /\ \A p \in Ssh!Ops : \/ p = o
                            \/ op'[p] = op[p]
                            \/ disposed = "no" /\ op[p] = "queued" /\ op'[p] = "granted"
  BY SettleKeeps
<1>2. QED
  BY <1>1 DEF ChannelsInv, Ssh!NoStrayChannel

\* An operation that holds a permit goes on with it.
LEMMA HoldingGoesOn ==
  ASSUME PermitsInv, UNCHANGED <<active, channelQueue, disposed>>,
         op' \in [Ssh!Ops -> Stages],
         \A p \in Ssh!Ops : op'[p] = op[p] \/ {op[p], op'[p]} \subseteq {"granted", "opening", "running"}
  PROVE  PermitsInv'
<1>1. Holding' = Holding /\ Queued' = Queued
  BY DEF Holding, Queued
<1>2. QED
  BY <1>1 DEF PermitsInv

\* Every step of the SSH executor keeps the invariant of its channels.
LEMMA ChannelStep ==
  ASSUME PermitsInv, ChannelsInv, [Ssh!Next]_(Ssh!vars)
  PROVE  PermitsInv' /\ ChannelsInv'
<1>1. ASSUME NEW o \in Ssh!Ops, Ssh!Start(o) PROVE PermitsInv' /\ ChannelsInv'
  <2>1. /\ op[o] = "idle" /\ disposed = "no" /\ Ssh!Acquire(o)
        /\ UNCHANGED <<opAborted, kill, channel, disposed>>
    BY <1>1 DEF Ssh!Start
  <2>2. /\ PermitsInv' /\ op'[o] \in {"granted", "queued", "settled"}
        /\ \A p \in Ssh!Ops : p # o => op'[p] = op[p]
    BY <2>1, AcquireKeeps
  <2>3. QED
    BY <2>1, <2>2 DEF ChannelsInv, Ssh!NoStrayChannel
<1>2. ASSUME NEW o \in Ssh!Ops, Ssh!Request(o) PROVE PermitsInv' /\ ChannelsInv'
  <2>1. op[o] = "granted" /\ o \in Holding /\ UNCHANGED <<opAborted, kill, disposed>>
    BY <1>2 DEF Ssh!Request, Holding
  <2>2. CASE o \in opAborted
    <3>1. Ssh!Settle(o) /\ UNCHANGED channel
      BY <1>2, <2>2 DEF Ssh!Request
    <3>2. QED
      BY <2>1, <3>1, SettleCloses DEF ChannelsInv, Ssh!NoStrayChannel
  <2>3. CASE o \notin opAborted
    <3>1. /\ op' = [op EXCEPT ![o] = "opening"] /\ channel' = [channel EXCEPT ![o] = "asked"]
          /\ UNCHANGED <<active, channelQueue>>
      BY <1>2, <2>3 DEF Ssh!Request
    <3>2. op' \in [Ssh!Ops -> Stages] /\ op'[o] = "opening"
          /\ \A p \in Ssh!Ops : p # o => op'[p] = op[p]
      BY <3>1 DEF PermitsInv, Stages
    <3>3. PermitsInv'
      BY <2>1, <3>1, <3>2, HoldingGoesOn
    <3>4. disposed = "no"
      BY <2>1, <2>3 DEF ChannelsInv
    <3>5. QED
      BY <2>1, <3>1, <3>2, <3>3, <3>4 DEF ChannelsInv, Ssh!NoStrayChannel
  <2>4. QED
    BY <2>2, <2>3
<1>3. ASSUME NEW o \in Ssh!Ops, Ssh!Abort(o) PROVE PermitsInv' /\ ChannelsInv'
  <2>1. opAborted' = opAborted \cup {o} /\ UNCHANGED <<channel, disposed>>
    BY <1>3 DEF Ssh!Abort
  <2>2. CASE /\ op[o] = "queued"
             /\ \E i \in 1..Len(channelQueue) :
                  channelQueue[i] = o /\ channelQueue' = Ssh!RemoveAt(channelQueue, i)
             /\ op' = [op EXCEPT ![o] = "settled"] /\ UNCHANGED <<active, kill>>
    <3>1. PICK i \in 1..Len(channelQueue) :
                 channelQueue[i] = o /\ channelQueue' = Ssh!RemoveAt(channelQueue, i)
      BY <2>2
    <3>2. Holding' = Holding /\ Queued' = Queued \ {o} /\ op' \in [Ssh!Ops -> Stages]
      BY <2>2 DEF Holding, Queued, PermitsInv, Stages
    <3>3. /\ channelQueue' \in Seq(Ssh!Ops) /\ Len(channelQueue') = Len(channelQueue) - 1
          /\ Lists(channelQueue', Queued')
      BY <3>1, <3>2, RemovedLists DEF PermitsInv
    <3>4. Len(channelQueue) \in Nat /\ channelQueue # <<>>
      BY <3>1, LenProperties, EmptySeq DEF PermitsInv
    <3>5. PermitsInv'
      BY <2>1, <2>2, <3>2, <3>3, <3>4, ExecutorsAssumption DEF PermitsInv
    <3>6. QED
      BY <2>1, <2>2, <3>5 DEF ChannelsInv, PermitsInv, Ssh!NoStrayChannel
  <2>3. CASE op[o] = "granted" /\ UNCHANGED <<op, active, channelQueue, kill>>
    <3>1. PermitsInv'
      BY <2>1, <2>3, HoldingGoesOn DEF PermitsInv
    <3>2. QED
      BY <2>1, <2>3, <3>1 DEF ChannelsInv, Ssh!NoStrayChannel
  <2>4. CASE op[o] = "opening" /\ Ssh!Settle(o) /\ UNCHANGED kill
    <3>1. o \in Holding
      BY <2>4 DEF Holding
    <3>2. QED
      BY <2>1, <2>4, <3>1, SettleCloses DEF ChannelsInv, Ssh!NoStrayChannel
  <2>5. CASE /\ op[o] = "running" /\ o \in SshExecs
             /\ kill' = [kill EXCEPT ![o] = "term"] /\ UNCHANGED <<op, active, channelQueue>>
    <3>1. PermitsInv'
      BY <2>1, <2>5, HoldingGoesOn DEF PermitsInv
    <3>2. QED
      BY <2>1, <2>5, <3>1 DEF ChannelsInv, Ssh!NoStrayChannel
  <2>6. QED
    BY <1>3, <2>2, <2>3, <2>4, <2>5 DEF Ssh!Abort
<1>4. ASSUME NEW o \in Ssh!Ops, Ssh!ChannelOpens(o) PROVE PermitsInv' /\ ChannelsInv'
  <2>1. /\ channel[o] = "asked"
        /\ channel' = [channel EXCEPT ![o] = IF op[o] = "opening" THEN "open" ELSE "closing"]
        /\ op' = [op EXCEPT ![o] = IF @ = "opening" THEN "running" ELSE @]
        /\ UNCHANGED <<opAborted, kill, active, channelQueue, disposed>>
    BY <1>4 DEF Ssh!ChannelOpens
  <2>2. /\ op' \in [Ssh!Ops -> Stages]
        /\ op'[o] = IF op[o] = "opening" THEN "running" ELSE op[o]
        /\ \A p \in Ssh!Ops : p # o => op'[p] = op[p]
    BY <2>1 DEF PermitsInv, Stages
  <2>3. PermitsInv'
    BY <2>1, <2>2, HoldingGoesOn
  <2>4. QED
    BY <2>1, <2>2, <2>3 DEF ChannelsInv, Ssh!NoStrayChannel
<1>5. ASSUME NEW o \in Ssh!Ops, Ssh!OpenFails(o) PROVE PermitsInv' /\ ChannelsInv'
  <2>1. /\ channel[o] = "asked" /\ channel' = [channel EXCEPT ![o] = "none"]
        /\ UNCHANGED <<opAborted, kill, disposed>>
    BY <1>5 DEF Ssh!OpenFails
  <2>2. CASE op[o] = "opening"
    <3>1. Ssh!Settle(o) /\ o \in Holding
      BY <1>5, <2>2 DEF Ssh!OpenFails, Holding
    <3>2. QED
      BY <2>1, <3>1, SettleCloses DEF ChannelsInv
  <2>3. CASE op[o] # "opening"
    <3>1. UNCHANGED <<op, active, channelQueue>>
      BY <1>5, <2>3 DEF Ssh!OpenFails
    <3>2. PermitsInv'
      BY <2>1, <3>1, HoldingGoesOn DEF PermitsInv
    <3>3. QED
      BY <2>1, <3>1, <3>2 DEF ChannelsInv, Ssh!NoStrayChannel
  <2>4. QED
    BY <2>2, <2>3
<1>6. ASSUME NEW o \in Ssh!Ops, Ssh!ChannelCloses(o) PROVE PermitsInv' /\ ChannelsInv'
  <2>1. /\ channel[o] \in {"open", "closing"} /\ channel' = [channel EXCEPT ![o] = "closed"]
        /\ UNCHANGED <<opAborted, kill, disposed>>
    BY <1>6 DEF Ssh!ChannelCloses
  <2>2. CASE op[o] = "running"
    <3>1. Ssh!Settle(o) /\ o \in Holding
      BY <1>6, <2>2 DEF Ssh!ChannelCloses, Holding
    <3>2. QED
      BY <2>1, <3>1, SettleCloses DEF ChannelsInv
  <2>3. CASE op[o] # "running"
    <3>1. UNCHANGED <<op, active, channelQueue>>
      BY <1>6, <2>3 DEF Ssh!ChannelCloses
    <3>2. PermitsInv'
      BY <2>1, <3>1, HoldingGoesOn DEF PermitsInv
    <3>3. QED
      BY <2>1, <3>1, <3>2 DEF ChannelsInv, Ssh!NoStrayChannel
  <2>4. QED
    BY <2>2, <2>3
<1>7. ASSUME NEW o \in Ssh!Ops, Ssh!ChannelFails(o) PROVE PermitsInv' /\ ChannelsInv'
  <2>1. /\ channel[o] = "open" /\ channel' = [channel EXCEPT ![o] = "closing"]
        /\ UNCHANGED <<opAborted, kill, disposed>>
    BY <1>7 DEF Ssh!ChannelFails
  <2>2. CASE o \in SshExecs
    <3>1. Ssh!Settle(o) /\ o \in Holding
      BY <1>7, <2>1, <2>2 DEF Ssh!ChannelFails, Holding, ChannelsInv, Ssh!NoStrayChannel
    <3>2. QED
      BY <2>1, <3>1, SettleCloses DEF ChannelsInv
  <2>3. CASE o \notin SshExecs
    <3>1. UNCHANGED <<op, active, channelQueue>>
      BY <1>7, <2>3 DEF Ssh!ChannelFails
    <3>2. PermitsInv'
      BY <2>1, <3>1, HoldingGoesOn DEF PermitsInv
    <3>3. QED
      BY <2>1, <3>1, <3>2 DEF ChannelsInv, Ssh!NoStrayChannel
  <2>4. QED
    BY <2>2, <2>3
<1>8. ASSUME NEW o \in Ssh!Ops, Ssh!Kill(o) \/ Ssh!KillHard(o)
      PROVE  PermitsInv' /\ ChannelsInv'
  <2>1. UNCHANGED <<op, opAborted, active, channelQueue, disposed>>
    BY <1>8 DEF Ssh!Kill, Ssh!KillHard
  <2>2. PermitsInv'
    BY <2>1, HoldingGoesOn DEF PermitsInv
  <2>3. CASE Ssh!Kill(o)
    BY <2>2, <2>3 DEF Ssh!Kill, ChannelsInv, Ssh!NoStrayChannel
  <2>4. CASE Ssh!KillHard(o)
    BY <2>2, <2>4 DEF Ssh!KillHard, ChannelsInv, Ssh!NoStrayChannel
  <2>5. QED
    BY <1>8, <2>3, <2>4
<1>9. ASSUME NEW o \in Ssh!Ops, Ssh!Force(o) PROVE PermitsInv' /\ ChannelsInv'
  <2>1. o \in Holding /\ kill[o] = "kill" /\ channel[o] \notin {"asked", "open"}
    BY <1>9 DEF Ssh!Force, Holding, ChannelsInv
  <2>2. QED
    BY <1>9, <2>1, SettleCloses DEF Ssh!Force, ChannelsInv
<1>10. CASE Ssh!Dispose
  <2> DEFINE Opening == {o \in Ssh!Ops : op[o] = "opening"}
             Running == {o \in Ssh!Ops : op[o] = "running"}
  <2>1. /\ disposed = "no" /\ disposed' = "begun" /\ UNCHANGED channel
        /\ channelQueue' = <<>> /\ active' = active - Ssh!Cardinality(Opening)
    BY <1>10 DEF Ssh!Dispose
  <2>2. op' = [o \in Ssh!Ops |-> IF op[o] = "queued" \/ o \in Opening THEN "settled" ELSE op[o]]
    BY <1>10 DEF Ssh!Dispose
  <2>3. opAborted' = opAborted \cup {o \in Ssh!Ops : op[o] \in {"queued", "granted", "opening"}}
                               \cup (Running \cap SshExecs)
    BY <1>10 DEF Ssh!Dispose
  <2>4. kill' = [o \in Ssh!Ops |-> IF o \in Running /\ kill[o] = "no" THEN "term" ELSE kill[o]]
    BY <1>10 DEF Ssh!Dispose
  <2>5. Holding' = Holding \ Opening /\ Queued' = {} /\ op' \in [Ssh!Ops -> Stages]
    BY <2>2 DEF Holding, Queued, PermitsInv, Stages
  <2>6. Opening \subseteq Holding /\ Holding \cap Opening = Opening
    BY DEF Holding
  <2>7. Ssh!Cardinality(Opening) = Cardinality(Opening)
    BY DEF Ssh!Cardinality, Cardinality
  <2>8. \A o \in Ssh!Ops : op'[o] = IF op[o] \in {"queued", "opening"} THEN "settled" ELSE op[o]
    BY <2>2
  <2>9. \A o \in Ssh!Ops : op[o] = "granted" => o \in opAborted'
    BY <2>3
  <2>10. opAborted' \subseteq Ssh!Ops
    BY <2>3 DEF ChannelsInv
  <2>11. /\ kill' \in [Ssh!Ops -> {"no", "term", "kill"}]
         /\ \A o \in Ssh!Ops : kill'[o] = "kill" => kill[o] = "kill"
    BY <2>4 DEF ChannelsInv
  <2> HIDE DEF Opening, Running
  <2>12. /\ IsFiniteSet(Holding') /\ Cardinality(Holding') \in Nat
         /\ Cardinality(Holding') = Cardinality(Holding) - Cardinality(Opening)
         /\ Cardinality(Holding) \in Nat /\ Cardinality(Opening) \in Nat
    <3>1. IsFiniteSet(Holding)
      BY DEF PermitsInv
    <3>2. IsFiniteSet(Opening) /\ IsFiniteSet(Holding \ Opening)
      BY <2>6, <3>1, FS_Subset, FS_Difference
    <3>3. Cardinality(Holding \ Opening) = Cardinality(Holding) - Cardinality(Opening)
      BY <2>6, <3>1, FS_Difference
    <3>4. /\ Cardinality(Holding) \in Nat /\ Cardinality(Opening) \in Nat
          /\ Cardinality(Holding \ Opening) \in Nat
      BY <3>1, <3>2, FS_CardinalityType
    <3>5. QED
      BY <2>5, <3>2, <3>3, <3>4
  <2>13. <<>> \in Seq(Ssh!Ops) /\ Len(<<>>) = 0 /\ Lists(<<>>, {})
    BY EmptySeq DEF Lists
  <2>14. PermitsInv'
    BY <2>1, <2>5, <2>7, <2>12, <2>13, ExecutorsAssumption DEF PermitsInv
  <2>15. QED
    BY <2>1, <2>8, <2>9, <2>10, <2>11, <2>14 DEF ChannelsInv, Ssh!NoStrayChannel
<1>11. CASE Ssh!Disposed
  <2>1. /\ disposed = "begun" /\ disposed' = "done"
        /\ UNCHANGED <<op, opAborted, kill, active, channelQueue>>
        /\ channel' = [o \in Ssh!Ops |-> IF channel[o] = "open" THEN "closing" ELSE channel[o]]
    BY <1>11 DEF Ssh!Disposed
  <2>2. Holding' = Holding /\ Queued' = Queued
    BY <2>1 DEF Holding, Queued
  <2>3. PermitsInv'
    BY <2>1, <2>2 DEF PermitsInv
  <2>4. QED
    BY <2>1, <2>3 DEF ChannelsInv, Ssh!NoStrayChannel
<1>12. CASE UNCHANGED Ssh!vars
  <2>1. UNCHANGED <<op, opAborted, kill, channel, active, channelQueue, disposed>>
    BY <1>12 DEF Ssh!vars
  <2>2. PermitsInv'
    BY <2>1, HoldingGoesOn DEF PermitsInv
  <2>3. QED
    BY <2>1, <2>2 DEF ChannelsInv, Ssh!NoStrayChannel
<1>13. QED
  BY <1>1, <1>2, <1>3, <1>4, <1>5, <1>6, <1>7, <1>8, <1>9, <1>10, <1>11, <1>12
     DEF Ssh!Next

-----------------------------------------------------------------------------
(***************************************************************************)
(* The executors in the whole: every step of it is one of a part.          *)
(***************************************************************************)

ExecutorsInv == PermitsInv /\ ChannelsInv /\ LocalInv

LEMMA ExecutorsStep ==
  ASSUME ExecutorsInv, [AllNext]_all
  PROVE  ExecutorsInv'
<1>1. [Ssh!Next]_(Ssh!vars)
  BY DEF AllNext, all, sshVars, Ssh!vars
<1>2. [Local!Next]_(Local!vars)
  BY DEF AllNext, all, localVars, Local!vars
<1>3. QED
  BY <1>1, <1>2, ChannelStep, LocalStep DEF ExecutorsInv

\* The invariants imply the properties as they are checked.
LEMMA InvariantsBoundTheExecutors == ExecutorsInv => ExecutorsAreBounded
<1> SUFFICES ASSUME ExecutorsInv PROVE ExecutorsAreBounded
  OBVIOUS
<1>1. active \in 0..MaxChannels
  <2>1. Cardinality(Holding) \in Nat
    BY FS_CardinalityType DEF ExecutorsInv, PermitsInv
  <2>2. QED
    BY <2>1, ExecutorsAssumption DEF ExecutorsInv, PermitsInv
<1>2. channelQueue \in Ssh!BoundedSeq(Ssh!Ops, MaxWaiting)
  BY ShortLists, ExecutorsAssumption DEF ExecutorsInv, PermitsInv
<1>3. Ssh!TypeOK
  BY <1>1, <1>2 DEF Ssh!TypeOK, ExecutorsInv, PermitsInv, ChannelsInv, Stages
<1>4. Ssh!PermitsAreCounted
  BY DEF Ssh!PermitsAreCounted, Ssh!Cardinality, Cardinality, Holding, ExecutorsInv, PermitsInv
<1>5. Ssh!NobodyWaitsInVain
  <2>1. channelQueue \in Seq(Ssh!Ops) /\ Lists(channelQueue, Queued)
    BY DEF ExecutorsInv, PermitsInv
  <2>2. DOMAIN channelQueue = 1..Len(channelQueue)
    BY <2>1, LenProperties
  <2>3. Ssh!ToSet(channelQueue) = Queued
    BY <2>1, <2>2 DEF Ssh!ToSet, Lists
  <2>4. Ssh!IsInjective(channelQueue)
    BY <2>1, <2>2 DEF Ssh!IsInjective, Lists
  <2>5. QED
    BY <2>3, <2>4 DEF Ssh!NobodyWaitsInVain, ExecutorsInv, PermitsInv, Queued
<1>6. Ssh!ChannelsAreBounded
  BY <1>4, <1>5 DEF Ssh!ChannelsAreBounded, ExecutorsInv, ChannelsInv
<1>7. Local!TypeOK /\ Local!ProcessesAreTracked
  BY DEF ExecutorsInv, LocalInv, Local!ProcessesAreTracked, Local!DisposalIsComplete
<1>8. QED
  BY <1>3, <1>6, <1>7 DEF ExecutorsAreBounded

\* Of any number of commands, streams and shells: permits are counted, nobody waits
\* in vain, no channel stays open behind its operation, no process is forgotten, and
\* a disposal is complete (ssh.ts, local.ts).
THEOREM ExecutorsStayBounded == AllSpec => []ExecutorsAreBounded
<1>1. AllInit => ExecutorsInv
  <2> SUFFICES ASSUME AllInit PROVE ExecutorsInv
    OBVIOUS
  <2>1. Ssh!Init /\ Local!Init
    BY DEF AllInit
  <2>2. Holding = {} /\ Queued = {}
    BY <2>1 DEF Ssh!Init, Holding, Queued
  <2>3. IsFiniteSet({}) /\ Cardinality({}) = 0
    BY FS_EmptySet
  <2>4. <<>> \in Seq(Ssh!Ops) /\ Len(<<>>) = 0 /\ Lists(<<>>, {})
    BY EmptySeq DEF Lists
  <2>5. PermitsInv
    BY <2>1, <2>2, <2>3, <2>4, ExecutorsAssumption DEF Ssh!Init, PermitsInv, Stages
  <2>6. ChannelsInv
    BY <2>1 DEF Ssh!Init, ChannelsInv, Ssh!NoStrayChannel
  <2>7. LocalInv
    BY <2>1 DEF Local!Init, LocalInv, Local!TypeOK, Local!NoneIsForgotten
  <2>8. QED
    BY <2>5, <2>6, <2>7 DEF ExecutorsInv
<1>2. QED
  BY <1>1, ExecutorsStep, InvariantsBoundTheExecutors, PTL DEF AllSpec

-----------------------------------------------------------------------------
(***************************************************************************)
(* MachineServices: what its pieces do.                                    *)
(***************************************************************************)

NoLink == Services!None
Ticks == {Services!NoTick} \cup [state : {"fresh", "stale"}, link : Services!Links \cup {NoLink}]

\* No rate will be computed from what was sampled for a context before.
Quiet(c) == base[c] = NoLink /\ tick[c].state # "fresh"

\* Only the pooled context has a link.
LinkInv ==
  /\ used \in Uses
  /\ pool \in Services!Contexts \cup {NoLink} /\ returning \in Services!Contexts \cup {NoLink}
  /\ contexts \in 0..MaxContexts /\ links \in 0..MaxLinks
  /\ link \in [Services!Contexts -> Services!Links \cup {NoLink}]
  /\ server \in {"open", "stopped", "flushed", "disconnected", "closed"}
  /\ Services!Up \subseteq {pool}
  /\ pool # NoLink => link[pool] # NoLink

\* A sample that counts was begun on the link of its context, and so was the baseline.
RateInv ==
  /\ polling \subseteq Services!Contexts /\ polling \subseteq {pool}
  /\ server # "open" => polling = {}
  /\ tick \in [Services!Contexts -> Ticks]
  /\ base \in [Services!Contexts -> Services!Links \cup {NoLink}]
  /\ Services!RatesOfOneLink
  /\ \A c \in Services!Contexts :
       /\ tick[c].state = "fresh" => tick[c].link = link[c]
       /\ link[c] = NoLink \/ server # "open" => Quiet(c)

\* Samples wait for the disk for the pooled context only.
HistoryInv ==
  /\ pending \subseteq Services!Contexts /\ pending \subseteq {pool}
  /\ timer \subseteq Services!Contexts
  /\ enabled \in BOOLEAN /\ dropped \in BOOLEAN
  /\ Services!FlushIsLast

ShellInv ==
  /\ shell \in [Shells -> {"idle", "opening", "registered", "gone", "failed"}]
  /\ on \in [Shells -> Services!Links \cup {NoLink}]
  /\ announced \in [Shells -> 0..2] /\ ended \subseteq Shells
  /\ Services!ShellsEndOnce

ActionInv ==
  /\ action \in [Services!Contexts -> Services!Links \cup {NoLink}]
  /\ shown \subseteq Services!Contexts /\ stray \subseteq Services!Contexts
  /\ Services!ActionsAreShown

Runs ==
  {Services!Idle} \cup [stage : {"detecting"}, ctx : Services!Contexts]
                  \cup [stage : {"opening"}, ctx : Services!Contexts, link : Services!Links]

ServicesInv ==
  LinkInv /\ RateInv /\ HistoryInv /\ ShellInv /\ ActionInv /\ run \in Runs

\* Numbers of contexts and links are not that of none.
LEMMA NumbersOfLinks ==
  NoLink = 0 /\ NoLink \notin Services!Contexts /\ NoLink \notin Services!Links
BY ServicesAssumption DEF NoLink, Services!None, Services!Contexts, Services!Links

\* reset() of the collector.
LEMMA ResetQuiets ==
  ASSUME RateInv, NEW C, Services!Reset(C)
  PROVE  /\ tick' \in [Services!Contexts -> Ticks]
         /\ base' \in [Services!Contexts -> Services!Links \cup {NoLink}]
         /\ \A c \in Services!Contexts : c \in C => Quiet(c)'
         /\ \A c \in Services!Contexts : c \notin C => tick'[c] = tick[c] /\ base'[c] = base[c]
<1>1. base' = [c \in Services!Contexts |-> IF c \in C THEN NoLink ELSE base[c]]
  BY DEF Services!Reset, NoLink
<1>2. tick' = [c \in Services!Contexts |->
                IF c \in C /\ tick[c] # Services!NoTick
                THEN [tick[c] EXCEPT !.state = "stale"] ELSE tick[c]]
  BY DEF Services!Reset
<1>3. ASSUME NEW c \in Services!Contexts
      PROVE  /\ tick'[c] \in Ticks
             /\ c \in C => tick'[c].state # "fresh"
             /\ c \notin C => tick'[c] = tick[c]
  <2>1. tick[c] \in Ticks
    BY DEF RateInv
  <2>2. CASE c \in C /\ tick[c] # Services!NoTick
    <3>1. tick[c] \in [state : {"fresh", "stale"}, link : Services!Links \cup {NoLink}]
      BY <2>1, <2>2 DEF Ticks
    <3>2. tick'[c] = [tick[c] EXCEPT !.state = "stale"]
      BY <1>2, <2>2
    <3>3. QED
      BY <2>2, <3>1, <3>2 DEF Ticks
  <2>3. CASE ~(c \in C /\ tick[c] # Services!NoTick)
    <3>1. tick'[c] = tick[c]
      BY <1>2, <2>3
    <3>2. QED
      BY <2>1, <2>3, <3>1 DEF Services!NoTick
  <2>4. QED
    BY <2>2, <2>3
<1>4. tick' \in [Services!Contexts -> Ticks]
  BY <1>2, <1>3
<1>5. base' \in [Services!Contexts -> Services!Links \cup {NoLink}]
  BY <1>1 DEF RateInv
<1>6. QED
  BY <1>1, <1>3, <1>4, <1>5 DEF Quiet

\* cancelAction()
LEMMA CancelEnds ==
  ASSUME ActionInv, NEW C \in SUBSET Services!Contexts, Services!CancelActions(C)
  PROVE  /\ action' \in [Services!Contexts -> Services!Links \cup {NoLink}]
         /\ shown' \subseteq Services!Contexts /\ stray' \subseteq Services!Contexts
         /\ \A c \in Services!Contexts :
              /\ c \in shown' <=> action'[c] # NoLink
              /\ action'[c] = IF c \in C THEN NoLink ELSE action[c]
<1>1. /\ action' = [c \in Services!Contexts |-> IF c \in C THEN NoLink ELSE action[c]]
      /\ shown' = shown \ {c \in C : action[c] # NoLink}
      /\ stray' = stray \cup {c \in C : action[c] # NoLink}
  BY DEF Services!CancelActions, NoLink
<1>2. \A c \in Services!Contexts : c \in shown <=> action[c] # NoLink
  BY DEF ActionInv, Services!ActionsAreShown, NoLink
<1>3. QED
  BY <1>1, <1>2 DEF ActionInv

\* dispose() of terminals.
LEMMA DisposalAnnounces ==
  ASSUME ShellInv, NEW S, Services!DisposeShells(S)
  PROVE  ShellInv'
BY DEF ShellInv, Services!DisposeShells, Services!ShellsEndOnce

\* teardownMachine() of the contexts that have a link.
LEMMA TeardownKeeps ==
  ASSUME ServicesInv, NEW C \in SUBSET Services!Contexts, Services!Teardown(C)
  PROVE  /\ ShellInv' /\ UNCHANGED run
         /\ polling' = polling \ C /\ pending' = pending \ C
         /\ timer' = timer \ C /\ enabled' = enabled /\ dropped' \in BOOLEAN
         /\ tick' \in [Services!Contexts -> Ticks]
         /\ base' \in [Services!Contexts -> Services!Links \cup {NoLink}]
         /\ \A c \in Services!Contexts : c \in C => Quiet(c)'
         /\ \A c \in Services!Contexts : c \notin C => tick'[c] = tick[c] /\ base'[c] = base[c]
         /\ action' \in [Services!Contexts -> Services!Links \cup {NoLink}]
         /\ shown' \subseteq Services!Contexts /\ stray' \subseteq Services!Contexts
         /\ \A c \in Services!Contexts :
              /\ c \in shown' <=> action'[c] # NoLink
              /\ action'[c] = IF c \in C THEN NoLink ELSE action[c]
<1>1. /\ polling' = polling \ C /\ Services!CancelActions(C)
      /\ Services!FlushOf(C, enabled) /\ timer' = timer \ C
      /\ Services!DisposeShells(IF C = {} THEN {} ELSE Shells)
      /\ Services!Reset(C) /\ UNCHANGED <<enabled, run>>
  BY DEF Services!Teardown
<1>2. ShellInv'
  BY <1>1, DisposalAnnounces DEF ServicesInv
<1>3. pending' = pending \ C /\ dropped' \in BOOLEAN
  BY <1>1 DEF Services!FlushOf, ServicesInv, HistoryInv
<1>4. /\ tick' \in [Services!Contexts -> Ticks]
      /\ base' \in [Services!Contexts -> Services!Links \cup {NoLink}]
      /\ \A c \in Services!Contexts : c \in C => Quiet(c)'
      /\ \A c \in Services!Contexts : c \notin C => tick'[c] = tick[c] /\ base'[c] = base[c]
  BY <1>1, ResetQuiets DEF ServicesInv
<1>5. QED
  BY <1>1, <1>2, <1>3, <1>4, CancelEnds DEF ServicesInv

-----------------------------------------------------------------------------
(***************************************************************************)
(* MachineServices: its steps.                                             *)
(***************************************************************************)

\* What a step leaves alone keeps its part of the invariant.
LEMMA Untouched ==
  ASSUME ServicesInv
  PROVE  /\ UNCHANGED <<used, pool, contexts, link, links, returning, server>> => LinkInv'
         /\ UNCHANGED <<pool, link, server, polling, tick, base>> => RateInv'
         /\ UNCHANGED <<pool, server, pending, timer, enabled, dropped>> => HistoryInv'
         /\ UNCHANGED <<shell, on, announced, ended>> => ShellInv'
         /\ UNCHANGED <<link, server, action, shown, stray>> => ActionInv'
<1>1. ASSUME UNCHANGED <<used, pool, contexts, link, links, returning, server>> PROVE LinkInv'
  BY <1>1 DEF ServicesInv, LinkInv, Services!Up
<1>2. ASSUME UNCHANGED <<pool, link, server, polling, tick, base>> PROVE RateInv'
  BY <1>2 DEF ServicesInv, RateInv, Services!RatesOfOneLink, Quiet
<1>3. ASSUME UNCHANGED <<pool, server, pending, timer, enabled, dropped>> PROVE HistoryInv'
  BY <1>3 DEF ServicesInv, HistoryInv, Services!FlushIsLast
<1>4. ASSUME UNCHANGED <<shell, on, announced, ended>> PROVE ShellInv'
  BY <1>4 DEF ServicesInv, ShellInv, Services!ShellsEndOnce
<1>5. ASSUME UNCHANGED <<link, server, action, shown, stray>> PROVE ActionInv'
  BY <1>5 DEF ServicesInv, ActionInv, Services!ActionsAreShown
<1>6. QED
  BY <1>1, <1>2, <1>3, <1>4, <1>5

\* A commit gives its context a link that nothing was sampled on.
LEMMA CommitKeeps == ASSUME ServicesInv, Services!Commit PROVE ServicesInv'
<1> DEFINE c == IF pool = NoLink THEN contexts + 1 ELSE pool
<1>1. /\ server \in {"open", "stopped", "flushed"} /\ c \in Services!Contexts
      /\ links < MaxLinks /\ pool' = c /\ returning' = c
      /\ contexts' = (IF pool = NoLink THEN c ELSE contexts)
      /\ links' = links + 1 /\ link' = [link EXCEPT ![c] = links + 1]
      /\ UNCHANGED <<used, server>>
  BY DEF Services!Commit, NoLink
<1>2. Services!Teardown({c} \cap Services!Up)
  BY DEF Services!Commit, NoLink
<1>3. pool = NoLink => Services!Up = {}
  BY NumbersOfLinks DEF ServicesInv, LinkInv, Services!Up, NoLink
<1>4. pool # NoLink => c = pool /\ pool \in Services!Up
  BY DEF ServicesInv, LinkInv, Services!Up, NoLink
<1> HIDE DEF c
<1> DEFINE C == {c} \cap Services!Up
<1>5. C \in SUBSET Services!Contexts
  BY DEF Services!Up
<1>6. /\ ShellInv' /\ UNCHANGED run
      /\ polling' = polling \ C /\ pending' = pending \ C
      /\ timer' = timer \ C /\ enabled' = enabled /\ dropped' \in BOOLEAN
      /\ tick' \in [Services!Contexts -> Ticks]
      /\ base' \in [Services!Contexts -> Services!Links \cup {NoLink}]
      /\ \A x \in Services!Contexts : x \in C => Quiet(x)'
      /\ \A x \in Services!Contexts : x \notin C => tick'[x] = tick[x] /\ base'[x] = base[x]
      /\ action' \in [Services!Contexts -> Services!Links \cup {NoLink}]
      /\ shown' \subseteq Services!Contexts /\ stray' \subseteq Services!Contexts
      /\ \A x \in Services!Contexts :
           /\ x \in shown' <=> action'[x] # NoLink
           /\ action'[x] = IF x \in C THEN NoLink ELSE action[x]
  BY <1>2, <1>5, TeardownKeeps
<1> HIDE DEF C
<1>7. links + 1 \in Services!Links /\ links + 1 # NoLink
  BY <1>1, ServicesAssumption, NumbersOfLinks DEF ServicesInv, LinkInv, Services!Links
<1>8. /\ link' \in [Services!Contexts -> Services!Links \cup {NoLink}]
      /\ link'[c] = links + 1 /\ \A x \in Services!Contexts : x # c => link'[x] = link[x]
  BY <1>1, <1>7 DEF ServicesInv, LinkInv
<1>9. \A x \in Services!Contexts : x # c => link[x] = NoLink
  BY <1>3, <1>4 DEF ServicesInv, LinkInv, Services!Up, NoLink
<1>10. LinkInv'
  <2>1. c \in 0..MaxContexts /\ links + 1 \in 0..MaxLinks
    BY <1>1, ServicesAssumption DEF Services!Contexts, ServicesInv, LinkInv
  <2>2. Services!Up' \subseteq {pool'}
    BY <1>1, <1>8, <1>9 DEF Services!Up, NoLink
  <2>3. QED
    BY <1>1, <1>7, <1>8, <2>1, <2>2 DEF ServicesInv, LinkInv
<1>11. \A x \in Services!Contexts : x = c => Quiet(x)'
  <2>1. CASE c \in Services!Up
    BY <1>6, <2>1 DEF C
  <2>2. CASE c \notin Services!Up
    <3>1. link[c] = NoLink
      BY <1>1, <2>2 DEF Services!Up, NoLink
    <3>2. Quiet(c)
      BY <1>1, <3>1 DEF ServicesInv, RateInv
    <3>3. QED
      BY <1>6, <2>2, <3>2 DEF Quiet, C
  <2>3. QED
    BY <2>1, <2>2
<1>12. \A x \in Services!Contexts : x # c => x \notin C /\ Quiet(x)'
  BY <1>6, <1>9 DEF ServicesInv, RateInv, Quiet, C
<1>13. (pool = NoLink => C = {}) /\ (pool # NoLink => C = {pool})
  BY <1>3, <1>4 DEF C
<1>14. RateInv'
  <2>1. polling' = {}
    BY <1>6, <1>13, NumbersOfLinks DEF ServicesInv, RateInv
  <2>2. \A x \in Services!Contexts : Quiet(x)'
    BY <1>11, <1>12
  <2>3. QED
    BY <1>6, <2>1, <2>2 DEF RateInv, Quiet, Services!RatesOfOneLink, NoLink
<1>15. HistoryInv'
  <2>1. pending' = {}
    BY <1>6, <1>13, NumbersOfLinks DEF ServicesInv, HistoryInv
  <2>2. QED
    BY <1>6, <2>1 DEF ServicesInv, HistoryInv, Services!FlushIsLast
<1>16. ActionInv'
  <2>1. \A x \in Services!Contexts : x # c => action'[x] = action[x] /\ link'[x] = link[x]
    BY <1>6, <1>8, <1>12
  <2>2. server \in {"open", "stopped"} => action'[c] = NoLink
    BY <1>1, <1>6 DEF ServicesInv, ActionInv, Services!ActionsAreShown, Services!Up, NoLink, C
  <2>3. QED
    BY <1>1, <1>6, <2>1, <2>2 DEF ServicesInv, ActionInv, Services!ActionsAreShown, NoLink
<1>17. QED
  BY <1>6, <1>10, <1>14, <1>15, <1>16 DEF ServicesInv

\* connectTarget() returns.
LEMMA ReturnKeeps == ASSUME ServicesInv, Services!Return PROVE ServicesInv'
<1>1. /\ returning # NoLink /\ returning' = NoLink
      /\ Services!Reset({returning}) /\ Services!CancelActions({returning})
      /\ polling' = (IF server = "open" THEN polling \cup Services!Polled
                     ELSE polling \ Services!Polled)
      /\ timer' = (IF enabled THEN timer \cup {returning} ELSE timer \ {returning})
      /\ UNCHANGED <<used, pool, contexts, link, links, server, pending, enabled, dropped, run>>
      /\ UNCHANGED <<shell, on, announced, ended>>
  BY DEF Services!Return, NoLink, Services!terminals
<1>2. returning \in Services!Contexts
  BY <1>1 DEF ServicesInv, LinkInv
<1>3. LinkInv' /\ ShellInv'
  BY <1>1, Untouched DEF ServicesInv, LinkInv, Services!Up
<1>4. RateInv'
  <2>1. /\ tick' \in [Services!Contexts -> Ticks]
        /\ base' \in [Services!Contexts -> Services!Links \cup {NoLink}]
        /\ \A c \in Services!Contexts : c = returning => Quiet(c)'
        /\ \A c \in Services!Contexts :
             c # returning => tick'[c] = tick[c] /\ base'[c] = base[c]
    BY <1>1, <1>2, ResetQuiets DEF ServicesInv
  <2>2. /\ polling' \subseteq Services!Contexts /\ polling' \subseteq {pool'}
        /\ server' # "open" => polling' = {}
    BY <1>1 DEF ServicesInv, RateInv, Services!Polled, Services!Up
  <2>3. QED
    BY <1>1, <2>1, <2>2 DEF ServicesInv, RateInv, Quiet, Services!RatesOfOneLink, NoLink
<1>5. HistoryInv'
  BY <1>1, <1>2 DEF ServicesInv, HistoryInv, Services!FlushIsLast
<1>6. ActionInv'
  <2>1. {returning} \in SUBSET Services!Contexts
    BY <1>2
  <2>2. /\ action' \in [Services!Contexts -> Services!Links \cup {NoLink}]
        /\ shown' \subseteq Services!Contexts /\ stray' \subseteq Services!Contexts
        /\ \A c \in Services!Contexts :
             /\ c \in shown' <=> action'[c] # NoLink
             /\ action'[c] = IF c \in {returning} THEN NoLink ELSE action[c]
    BY <1>1, <2>1, CancelEnds DEF ServicesInv
  <2>3. QED
    BY <1>1, <2>2 DEF ServicesInv, ActionInv, Services!ActionsAreShown, NoLink
<1>7. QED
  BY <1>1, <1>3, <1>4, <1>5, <1>6 DEF ServicesInv

\* The link of the pooled context drops.
LEMMA LeaveKeeps == ASSUME ServicesInv, Services!Leave PROVE ServicesInv'
<1>1. /\ pool \in Services!Up /\ pool' = NoLink
      /\ link' = [link EXCEPT ![pool] = NoLink]
      /\ Services!Teardown({pool})
      /\ UNCHANGED <<used, contexts, links, returning, server>>
  BY DEF Services!Leave, NoLink
<1>2. pool \in Services!Contexts
  BY <1>1 DEF Services!Up
<1>3. /\ ShellInv' /\ UNCHANGED run
      /\ polling' = polling \ {pool} /\ pending' = pending \ {pool}
      /\ timer' = timer \ {pool} /\ enabled' = enabled /\ dropped' \in BOOLEAN
      /\ tick' \in [Services!Contexts -> Ticks]
      /\ base' \in [Services!Contexts -> Services!Links \cup {NoLink}]
      /\ \A x \in Services!Contexts : x \in {pool} => Quiet(x)'
      /\ \A x \in Services!Contexts : x \notin {pool} => tick'[x] = tick[x] /\ base'[x] = base[x]
      /\ action' \in [Services!Contexts -> Services!Links \cup {NoLink}]
      /\ shown' \subseteq Services!Contexts /\ stray' \subseteq Services!Contexts
      /\ \A x \in Services!Contexts :
           /\ x \in shown' <=> action'[x] # NoLink
           /\ action'[x] = IF x \in {pool} THEN NoLink ELSE action[x]
  <2>1. {pool} \in SUBSET Services!Contexts
    BY <1>2
  <2>2. QED
    BY <1>1, <2>1, TeardownKeeps
<1>4. /\ link' \in [Services!Contexts -> Services!Links \cup {NoLink}]
      /\ \A x \in Services!Contexts : link'[x] = NoLink
      /\ \A x \in Services!Contexts : x # pool => link[x] = NoLink
  BY <1>1, <1>2 DEF ServicesInv, LinkInv, Services!Up, NoLink
<1>5. LinkInv'
  BY <1>1, <1>4 DEF ServicesInv, LinkInv, Services!Up, NoLink
<1>6. RateInv'
  <2>1. polling' = {}
    BY <1>3 DEF ServicesInv, RateInv
  <2>2. \A x \in Services!Contexts : Quiet(x)'
    BY <1>3, <1>4 DEF ServicesInv, RateInv, Quiet
  <2>3. QED
    BY <1>3, <2>1, <2>2 DEF RateInv, Quiet, Services!RatesOfOneLink, NoLink
<1>7. HistoryInv'
  <2>1. pending' = {}
    BY <1>3 DEF ServicesInv, HistoryInv
  <2>2. QED
    BY <1>3, <2>1 DEF ServicesInv, HistoryInv, Services!FlushIsLast
<1>8. ActionInv'
  BY <1>1, <1>3, <1>4 DEF ServicesInv, ActionInv, Services!ActionsAreShown, NoLink
<1>9. QED
  BY <1>3, <1>5, <1>6, <1>7, <1>8 DEF ServicesInv

\* A sample begins and ends on one link, or does not count.
LEMMA CollectKeeps == ASSUME ServicesInv, Services!Collects PROVE ServicesInv'
<1> USE DEF Services!connection, Services!terminals, Services!packages
<1>1. ASSUME NEW c \in Services!Contexts, Services!TickStarts(c) PROVE ServicesInv'
  <2>1. /\ c \in polling /\ c \in Services!Up
        /\ tick' = [tick EXCEPT ![c] = [state |-> "fresh", link |-> link[c]]]
        /\ UNCHANGED <<used, pool, contexts, link, links, returning, server>>
        /\ UNCHANGED <<polling, base, pending, timer, enabled, dropped>>
        /\ UNCHANGED <<shell, on, announced, ended>>
        /\ UNCHANGED <<run, action, shown, stray>>
    BY <1>1 DEF Services!TickStarts
  <2>2. link[c] \in Services!Links /\ server = "open"
    BY <2>1 DEF ServicesInv, LinkInv, RateInv, Services!Up, NoLink
  <2>3. tick' \in [Services!Contexts -> Ticks]
    BY <2>1, <2>2 DEF ServicesInv, RateInv, Ticks
  <2>4. RateInv'
    BY <2>1, <2>2, <2>3, NumbersOfLinks
       DEF ServicesInv, RateInv, Quiet, Services!RatesOfOneLink, NoLink
  <2>5. QED
    BY <2>1, <2>4, Untouched DEF ServicesInv
<1>2. ASSUME NEW c \in Services!Contexts, Services!TickFallsBack(c) PROVE ServicesInv'
  <2>1. /\ tick[c] # Services!NoTick /\ tick[c].link # link[c]
        /\ tick' = [tick EXCEPT ![c].link = link[c]]
        /\ UNCHANGED <<used, pool, contexts, link, links, returning, server>>
        /\ UNCHANGED <<polling, base, pending, timer, enabled, dropped>>
        /\ UNCHANGED <<shell, on, announced, ended>>
        /\ UNCHANGED <<run, action, shown, stray>>
    BY <1>2 DEF Services!TickFallsBack
  <2>2. /\ tick[c] \in [state : {"fresh", "stale"}, link : Services!Links \cup {NoLink}]
        /\ tick[c].state # "fresh" /\ link[c] \in Services!Links \cup {NoLink}
    BY <2>1 DEF ServicesInv, LinkInv, RateInv, Ticks
  <2>3. /\ tick'[c] \in Ticks /\ tick'[c].state # "fresh"
        /\ \A x \in Services!Contexts : x # c => tick'[x] = tick[x]
    BY <2>1, <2>2 DEF ServicesInv, RateInv, Ticks
  <2>4. tick' \in [Services!Contexts -> Ticks]
    BY <2>1, <2>3 DEF ServicesInv, RateInv
  <2>5. RateInv'
    BY <2>1, <2>3, <2>4 DEF ServicesInv, RateInv, Quiet, Services!RatesOfOneLink
  <2>6. QED
    BY <2>1, <2>5, Untouched DEF ServicesInv
<1>3. ASSUME NEW c \in Services!Contexts, Services!TickEnds(c) PROVE ServicesInv'
  <2>1. /\ tick[c] # Services!NoTick
        /\ tick' = [tick EXCEPT ![c] = Services!NoTick]
        /\ UNCHANGED <<used, pool, contexts, link, links, returning, server>>
        /\ UNCHANGED <<polling, timer, enabled, dropped>>
        /\ UNCHANGED <<shell, on, announced, ended>>
        /\ UNCHANGED <<run, action, shown, stray>>
    BY <1>3 DEF Services!TickEnds
  <2>2. \/ UNCHANGED <<base, pending>>
        \/ /\ tick[c].state = "fresh"
           /\ base' = [base EXCEPT ![c] = tick[c].link]
           /\ pending' = IF base[c] # NoLink /\ pool # NoLink /\ enabled
                         THEN pending \cup {pool} ELSE pending
    BY <1>3 DEF Services!TickEnds, NoLink
  <2>3. /\ tick' \in [Services!Contexts -> Ticks] /\ tick'[c].state # "fresh"
        /\ \A x \in Services!Contexts : x # c => tick'[x] = tick[x]
    BY <2>1 DEF ServicesInv, RateInv, Ticks, Services!NoTick
  <2>4. tick[c].state = "fresh" => tick[c].link \in Services!Links \cup {NoLink}
    BY DEF ServicesInv, RateInv, Ticks, Services!NoTick
  <2>5. RateInv'
    <3>1. CASE UNCHANGED base
      BY <2>1, <2>3, <3>1 DEF ServicesInv, RateInv, Quiet, Services!RatesOfOneLink, NoLink
    <3>2. CASE tick[c].state = "fresh" /\ base' = [base EXCEPT ![c] = tick[c].link]
      <4>1. /\ base' \in [Services!Contexts -> Services!Links \cup {NoLink}]
            /\ base'[c] = link[c] /\ \A x \in Services!Contexts : x # c => base'[x] = base[x]
        BY <2>4, <3>2 DEF ServicesInv, RateInv
      <4>2. server = "open" /\ link[c] # NoLink
        BY <3>2 DEF ServicesInv, RateInv, Quiet
      <4>3. QED
        BY <2>1, <2>3, <4>1, <4>2 DEF ServicesInv, RateInv, Quiet, Services!RatesOfOneLink, NoLink
    <3>3. QED
      BY <2>2, <3>1, <3>2
  <2>6. HistoryInv'
    <3>1. tick[c].state = "fresh" => server = "open"
      BY DEF ServicesInv, RateInv, Quiet
    <3>2. QED
      BY <2>1, <2>2, <3>1 DEF ServicesInv, LinkInv, HistoryInv, Services!FlushIsLast, NoLink
  <2>7. QED
    BY <2>1, <2>5, <2>6, Untouched DEF ServicesInv
<1>4. ASSUME NEW c \in Services!Contexts, Services!Flush(c) PROVE ServicesInv'
  <2>1. HistoryInv'
    BY <1>4 DEF Services!Flush, Services!FlushOf, ServicesInv, HistoryInv, Services!FlushIsLast
  <2>2. QED
    BY <1>4, <2>1, Untouched DEF Services!Flush, ServicesInv
<1>5. CASE Services!Purge
  <2>1. HistoryInv'
    BY <1>5 DEF Services!Purge, ServicesInv, HistoryInv, Services!FlushIsLast
  <2>2. QED
    BY <1>5, <2>1, Untouched DEF Services!Purge, ServicesInv
<1>6. CASE Services!SwitchHistory
  <2>1. /\ enabled' = ~enabled /\ UNCHANGED <<tick, base>>
        /\ UNCHANGED <<used, pool, contexts, link, links, returning, server>>
        /\ UNCHANGED <<shell, on, announced, ended>>
        /\ UNCHANGED <<run, action, shown, stray>>
    BY <1>6 DEF Services!SwitchHistory
  <2>2. pending' \subseteq pending /\ dropped' \in BOOLEAN
    BY <1>6 DEF Services!SwitchHistory, Services!FlushOf, ServicesInv, HistoryInv
  <2>3. polling' = IF server = "open" THEN polling \cup Services!Polled
                   ELSE polling \ Services!Polled
    BY <1>6 DEF Services!SwitchHistory, Services!ApplyPollers
  <2>4. timer' \subseteq timer \cup Services!Up
    BY <1>6 DEF Services!SwitchHistory, Services!ApplyPollers
  <2>5. RateInv'
    <3>1. polling' \subseteq Services!Contexts /\ polling' \subseteq {pool}
      BY <2>3 DEF Services!Polled, Services!Up, ServicesInv, RateInv
    <3>2. server # "open" => polling' = {}
      BY <2>3 DEF ServicesInv, RateInv
    <3>3. QED
      BY <2>1, <3>1, <3>2 DEF ServicesInv, RateInv, Quiet, Services!RatesOfOneLink
  <2>6. HistoryInv'
    BY <2>1, <2>2, <2>4 DEF ServicesInv, HistoryInv, Services!FlushIsLast, Services!Up
  <2>7. QED
    BY <2>1, <2>5, <2>6, Untouched DEF ServicesInv
<1>7. QED
  BY <1>1, <1>2, <1>3, <1>4, <1>5, <1>6 DEF Services!Collects

\* applyPollers() starts what the pooled context needs, and stops the rest.
LEMMA ApplyKeeps == ASSUME ServicesInv, Services!Apply PROVE ServicesInv'
<1>1. /\ UNCHANGED <<used, pool, contexts, link, links, returning, server>>
      /\ UNCHANGED <<tick, base, pending, enabled, dropped>>
      /\ UNCHANGED <<shell, on, announced, ended>>
      /\ UNCHANGED <<run, action, shown, stray>>
  BY DEF Services!Apply, Services!connection, Services!terminals, Services!packages
<1>2. polling' = IF server = "open" THEN polling \cup Services!Polled
                 ELSE polling \ Services!Polled
  BY DEF Services!Apply, Services!ApplyPollers
<1>3. timer' \subseteq timer \cup Services!Up
  BY DEF Services!Apply, Services!ApplyPollers
<1>4. RateInv'
  <2>1. polling' \subseteq Services!Contexts /\ polling' \subseteq {pool}
    BY <1>2 DEF Services!Polled, Services!Up, ServicesInv, RateInv
  <2>2. server # "open" => polling' = {}
    BY <1>2 DEF ServicesInv, RateInv
  <2>3. QED
    BY <1>1, <2>1, <2>2 DEF ServicesInv, RateInv, Quiet, Services!RatesOfOneLink
<1>5. HistoryInv'
  BY <1>1, <1>3 DEF ServicesInv, HistoryInv, Services!FlushIsLast, Services!Up
<1>6. QED
  BY <1>1, <1>4, <1>5, Untouched DEF ServicesInv

\* The terminals.
LEMMA TypesKeep == ASSUME ServicesInv, Services!Types PROVE ServicesInv'
<1> USE DEF Services!connection, Services!collector, Services!packages
<1>1. PICK s \in Shells :
        \/ Services!CreateShell(s) \/ Services!ShellOpened(s) \/ Services!ShellFails(s)
        \/ Services!CloseShell(s) \/ Services!ShellExits(s)
  BY DEF Services!Types
<1>2. /\ UNCHANGED <<used, pool, contexts, link, links, returning, server>>
      /\ UNCHANGED <<polling, tick, base, pending, timer, enabled, dropped>>
      /\ UNCHANGED <<run, action, shown, stray>>
  BY <1>1 DEF Services!CreateShell, Services!ShellOpened, Services!ShellFails,
              Services!CloseShell, Services!ShellExits
<1>3. ShellInv'
  <2>1. CASE Services!CreateShell(s)
    <3>1. link[pool] \in Services!Links \cup {NoLink}
      BY <2>1 DEF Services!CreateShell, Services!Up, ServicesInv, LinkInv
    <3>2. QED
      BY <2>1, <3>1 DEF Services!CreateShell, ServicesInv, ShellInv, Services!ShellsEndOnce
  <2>2. CASE Services!ShellOpened(s) \/ Services!ShellFails(s)
    BY <2>2 DEF Services!ShellOpened, Services!ShellFails, ServicesInv, ShellInv,
                Services!ShellsEndOnce
  <2>3. CASE Services!CloseShell(s)
    BY <2>3, DisposalAnnounces DEF Services!CloseShell, ServicesInv
  <2>4. CASE Services!ShellExits(s)
    BY <2>4 DEF Services!ShellExits, ServicesInv, ShellInv, Services!ShellsEndOnce
  <2>5. QED
    BY <1>1, <2>1, <2>2, <2>3, <2>4
<1>4. QED
  BY <1>2, <1>3, Untouched DEF ServicesInv

\* The package action.
LEMMA InstallsKeep == ASSUME ServicesInv, Services!Installs PROVE ServicesInv'
<1> USE DEF Services!connection, Services!collector, Services!terminals
<1>1. /\ UNCHANGED <<used, pool, contexts, link, links, returning, server>>
      /\ UNCHANGED <<polling, tick, base, pending, timer, enabled, dropped>>
      /\ UNCHANGED <<shell, on, announced, ended>>
  BY DEF Services!Installs, Services!RunAction, Services!Detected, Services!ActionStarts,
         Services!ActionRefused, Services!CancelAction, Services!ActionExits,
         Services!StrayExits
<1>2. run' \in Runs /\ ActionInv'
  <2>1. CASE Services!RunAction
    <3>1. run' \in Runs
      BY <2>1 DEF Services!RunAction, Services!Up, Runs
    <3>2. QED
      BY <1>1, <2>1, <3>1, Untouched DEF Services!RunAction
  <2>2. CASE Services!Detected
    <3>1. run.ctx \in Services!Contexts /\ link[run.ctx] \in Services!Links
      BY <2>2 DEF Services!Detected, Services!Up, ServicesInv, LinkInv, NoLink
    <3>2. run' \in Runs
      BY <2>2, <3>1 DEF Services!Detected, Runs
    <3>3. QED
      BY <1>1, <2>2, <3>2, Untouched DEF Services!Detected
  <2>3. CASE Services!ActionStarts
    <3>1. /\ run.stage = "opening" /\ link[run.ctx] = run.link
          /\ action' = [action EXCEPT ![run.ctx] = run.link]
          /\ shown' = shown \cup {run.ctx} /\ run' = Services!Idle /\ stray' = stray
      BY <2>3 DEF Services!ActionStarts
    <3>2. run.ctx \in Services!Contexts /\ run.link \in Services!Links
      BY <3>1 DEF ServicesInv, Runs, Services!Idle
    <3>3. run' \in Runs
      BY <3>1 DEF Runs
    <3>4. QED
      BY <1>1, <3>1, <3>2, <3>3, NumbersOfLinks
         DEF ServicesInv, ActionInv, Services!ActionsAreShown, NoLink
  <2>4. CASE Services!ActionRefused
    <3>1. run' \in Runs
      BY <2>4 DEF Services!ActionRefused, Runs
    <3>2. QED
      BY <1>1, <2>4, <3>1, Untouched DEF Services!ActionRefused
  <2>5. CASE Services!CancelAction
    <3>1. /\ {pool} \in SUBSET Services!Contexts /\ Services!CancelActions({pool})
          /\ run' = run
      BY <2>5 DEF Services!CancelAction, Services!Up
    <3>2. /\ action' \in [Services!Contexts -> Services!Links \cup {NoLink}]
          /\ shown' \subseteq Services!Contexts /\ stray' \subseteq Services!Contexts
          /\ \A c \in Services!Contexts :
               /\ c \in shown' <=> action'[c] # NoLink
               /\ action'[c] = IF c \in {pool} THEN NoLink ELSE action[c]
      BY <3>1, CancelEnds DEF ServicesInv
    <3>3. QED
      BY <1>1, <3>1, <3>2 DEF ServicesInv, ActionInv, Services!ActionsAreShown, NoLink
  <2>6. ASSUME NEW c \in Services!Contexts, Services!ActionExits(c)
        PROVE  run' \in Runs /\ ActionInv'
    BY <1>1, <2>6 DEF Services!ActionExits, ServicesInv, ActionInv, Services!ActionsAreShown, NoLink
  <2>7. ASSUME NEW c \in Services!Contexts, Services!StrayExits(c)
        PROVE  run' \in Runs /\ ActionInv'
    BY <1>1, <2>7 DEF Services!StrayExits, ServicesInv, ActionInv, Services!ActionsAreShown
  <2>8. QED
    BY <2>1, <2>2, <2>3, <2>4, <2>5, <2>6, <2>7 DEF Services!Installs
<1>3. QED
  BY <1>1, <1>2, Untouched DEF ServicesInv

\* The steps of the clean close.
LEMMA CloseKeeps == ASSUME ServicesInv, Services!Close PROVE ServicesInv'
<1> USE DEF Services!collector, Services!terminals, Services!packages
<1> DEFINE C == Services!Up \cap {pool}
<1>1. C \in SUBSET Services!Contexts /\ \A c \in Services!Contexts : c \notin C => link[c] = NoLink
  BY DEF Services!Up, ServicesInv, LinkInv, NoLink
<1>2. polling \ C = {} /\ pending \ C = {}
  BY NumbersOfLinks DEF ServicesInv, LinkInv, RateInv, HistoryInv, Services!Up, NoLink
<1> HIDE DEF C
<1>3. CASE Services!StopHostServices
  <2>1. /\ server = "open" /\ server' = "stopped" /\ polling' = polling \ C
        /\ Services!CancelActions(C) /\ Services!Reset(C)
        /\ UNCHANGED <<used, pool, contexts, link, links, returning>>
        /\ UNCHANGED <<pending, timer, enabled, dropped>>
        /\ UNCHANGED <<shell, on, announced, ended>> /\ UNCHANGED run
    BY <1>3 DEF Services!StopHostServices, C
  <2>2. LinkInv'
    BY <2>1 DEF ServicesInv, LinkInv, Services!Up
  <2>3. RateInv'
    <3>1. /\ tick' \in [Services!Contexts -> Ticks]
          /\ base' \in [Services!Contexts -> Services!Links \cup {NoLink}]
          /\ \A c \in Services!Contexts : c \in C => Quiet(c)'
          /\ \A c \in Services!Contexts : c \notin C => tick'[c] = tick[c] /\ base'[c] = base[c]
      BY <2>1, ResetQuiets DEF ServicesInv
    <3>2. \A c \in Services!Contexts : Quiet(c)'
      BY <1>1, <3>1 DEF ServicesInv, RateInv, Quiet
    <3>3. polling' = {}
      BY <1>2, <2>1
    <3>4. QED
      BY <3>1, <3>2, <3>3 DEF RateInv, Quiet, Services!RatesOfOneLink, NoLink
  <2>4. HistoryInv'
    BY <2>1 DEF ServicesInv, HistoryInv, Services!FlushIsLast
  <2>5. ActionInv'
    <3>1. /\ action' \in [Services!Contexts -> Services!Links \cup {NoLink}]
          /\ shown' \subseteq Services!Contexts /\ stray' \subseteq Services!Contexts
          /\ \A c \in Services!Contexts :
               /\ c \in shown' <=> action'[c] # NoLink
               /\ action'[c] = IF c \in C THEN NoLink ELSE action[c]
      BY <1>1, <2>1, CancelEnds DEF ServicesInv
    <3>2. QED
      BY <2>1, <3>1 DEF ServicesInv, ActionInv, Services!ActionsAreShown, NoLink
  <2>6. QED
    BY <2>1, <2>2, <2>3, <2>4, <2>5, Untouched DEF ServicesInv
<1>4. CASE Services!FlushHistory
  <2>1. /\ server = "stopped" /\ server' = "flushed" /\ Services!FlushOf(C, enabled)
        /\ timer' = timer \ C
        /\ UNCHANGED <<used, pool, contexts, link, links, returning>>
        /\ UNCHANGED <<polling, tick, base, enabled>>
        /\ UNCHANGED <<shell, on, announced, ended>>
        /\ UNCHANGED <<run, action, shown, stray>>
    BY <1>4 DEF Services!FlushHistory, C
  <2>2. LinkInv'
    BY <2>1 DEF ServicesInv, LinkInv, Services!Up
  <2>3. RateInv'
    BY <2>1 DEF ServicesInv, RateInv, Services!RatesOfOneLink, Quiet
  <2>4. HistoryInv'
    BY <1>2, <2>1 DEF ServicesInv, HistoryInv, Services!FlushIsLast, Services!FlushOf
  <2>5. ActionInv'
    BY <2>1 DEF ServicesInv, ActionInv, Services!ActionsAreShown
  <2>6. QED
    BY <2>1, <2>2, <2>3, <2>4, <2>5, Untouched DEF ServicesInv
<1>5. CASE Services!DisconnectAll
  <2>1. /\ server = "flushed" /\ server' = "disconnected" /\ pool' = NoLink
        /\ link' = [c \in Services!Contexts |-> NoLink]
        /\ UNCHANGED <<used, contexts, links, returning>>
        /\ UNCHANGED <<polling, tick, base, pending, timer, enabled, dropped>>
        /\ UNCHANGED <<shell, on, announced, ended>>
        /\ UNCHANGED <<run, action, shown, stray>>
    BY <1>5 DEF Services!DisconnectAll, NoLink
  <2>2. LinkInv'
    BY <2>1 DEF ServicesInv, LinkInv, Services!Up, NoLink
  <2>3. RateInv'
    BY <2>1 DEF ServicesInv, RateInv, Services!RatesOfOneLink, Quiet, NoLink
  <2>4. HistoryInv'
    BY <2>1 DEF ServicesInv, HistoryInv, Services!FlushIsLast
  <2>5. ActionInv'
    BY <2>1 DEF ServicesInv, ActionInv, Services!ActionsAreShown
  <2>6. QED
    BY <2>1, <2>2, <2>3, <2>4, <2>5, Untouched DEF ServicesInv
<1>6. CASE Services!DisposeRest
  <2>1. /\ server = "disconnected" /\ server' = "closed" /\ Services!DisposeShells(Shells)
        /\ timer' = {} /\ polling' = {}
        /\ UNCHANGED <<used, pool, contexts, link, links, returning>>
        /\ UNCHANGED <<tick, base, pending, enabled, dropped>>
        /\ UNCHANGED <<run, action, shown, stray>>
    BY <1>6 DEF Services!DisposeRest
  <2>2. LinkInv'
    BY <2>1 DEF ServicesInv, LinkInv, Services!Up
  <2>3. RateInv'
    BY <2>1 DEF ServicesInv, RateInv, Services!RatesOfOneLink, Quiet
  <2>4. HistoryInv'
    BY <2>1 DEF ServicesInv, HistoryInv, Services!FlushIsLast
  <2>5. ActionInv'
    BY <2>1 DEF ServicesInv, ActionInv, Services!ActionsAreShown
  <2>6. ShellInv'
    BY <2>1, DisposalAnnounces DEF ServicesInv
  <2>7. QED
    BY <2>1, <2>2, <2>3, <2>4, <2>5, <2>6 DEF ServicesInv
<1>7. QED
  BY <1>3, <1>4, <1>5, <1>6 DEF Services!Close

\* Every step of the services keeps their invariant.
LEMMA ServicesStep ==
  ASSUME ServicesInv, [Services!Next]_(Services!vars)
  PROVE  ServicesInv'
<1>1. CASE UNCHANGED Services!vars
  <2>1. /\ UNCHANGED <<used, pool, contexts, link, links, returning, server>>
        /\ UNCHANGED <<polling, tick, base, pending, timer, enabled, dropped>>
        /\ UNCHANGED <<shell, on, announced, ended>>
        /\ UNCHANGED <<run, action, shown, stray>>
    BY <1>1 DEF Services!vars, Services!connection, Services!collector, Services!terminals,
                Services!packages
  <2>2. QED
    BY <2>1, Untouched DEF ServicesInv
<1>2. QED
  BY <1>1, CommitKeeps, ReturnKeeps, LeaveKeeps, ApplyKeeps, CollectKeeps, TypesKeep,
     InstallsKeep, CloseKeeps DEF Services!Next, Services!Connects

-----------------------------------------------------------------------------
(***************************************************************************)
(* Bmc: an instance fits the configuration and the acknowledged actions.   *)
(***************************************************************************)

Sweeps ==
  {Station!NoSweep} \cup [stage : {"capabilities"}]
    \cup [stage : {"reading"}, rev : [BmcIds -> Station!Revisions],
          version : [BmcIds -> Nat],
          phase : [BmcIds -> {"todo", "reading", "read", "out"}],
          n : [BmcIds -> Station!Counts]]

Forms == {Station!NoForm} \cup [id : BmcIds, base : Station!Revisions, issued : BOOLEAN]

Instances ==
  [stopped : BOOLEAN, late : BOOLEAN, applied : Station!Intervals, polling : BOOLEAN,
   caps : {"unknown", "ok", "missing"},
   probe : [on : BOOLEAN, for : SUBSET (Station!Intervals \cup {Station!Now})],
   sweep : Sweeps, form : Forms, state : [BmcIds -> Station!Readings],
   version : [BmcIds -> Nat], refreshing : SUBSET Station!Refreshes]

\* A reading under way that is of the machine as it is and not overtaken has seen every
\* action that was acknowledged; e bounds the revisions that were given, u has the ids.
RefreshesFit(b, cfg, a, u, e) ==
  \A r \in b.refreshing :
    /\ r.id \in u /\ r.rev <= e + 1
    /\ ~b.stopped /\ cfg[r.id] # 0 =>
         /\ r.version <= b.version[r.id]
         /\ r.version = b.version[r.id] /\ r.rev = cfg[r.id] => r.n = a[r.id]

\* So has what a sweep has read.
SweepFits(b, cfg, a, u, e) ==
  b.sweep.stage = "reading" =>
    \A id \in BmcIds : b.sweep.phase[id] # "out" =>
      /\ b.sweep.rev[id] # 0 /\ b.sweep.rev[id] <= e + 1 /\ id \in u
      /\ ~b.stopped /\ cfg[id] # 0 =>
           /\ b.sweep.version[id] <= b.version[id]
           /\ /\ b.sweep.phase[id] # "todo"
              /\ b.sweep.version[id] = b.version[id] /\ b.sweep.rev[id] = cfg[id]
              => b.sweep.n[id] = a[id]

\* And what is shown, unless a newer reading is under way.
CardsFit(b, cfg, a, e) ==
  \A id \in BmcIds :
    /\ b.state[id].rev <= e + 1
    /\ ~b.stopped /\ cfg[id] # 0 /\ b.state[id].rev = cfg[id] =>
         \/ b.state[id].n = a[id]
         \/ \E r \in b.refreshing :
              r.id = id /\ r.rev = cfg[id] /\ r.version = b.version[id] /\ r.n = a[id]

Fits(b, cfg, a, u, e) ==
  /\ b \in Instances /\ ~b.late
  /\ b.form.id # 0 /\ b.form.base = 0 => b.form.id \notin u
  /\ RefreshesFit(b, cfg, a, u, e)
  /\ SweepFits(b, cfg, a, u, e)
  /\ CardsFit(b, cfg, a, e)

\* The configuration, and the actions of each machine, which are counted.
Acts(id) == {x \in acting : x.id = id}
ConfigInv ==
  /\ config \in [BmcIds -> Station!Revisions] /\ ids \subseteq BmcIds
  /\ acting \subseteq [id : BmcIds, rev : Station!Revisions]
  /\ acks \in [BmcIds -> Nat] /\ edits \in 0..BmcChanges
  /\ \A id \in BmcIds :
       /\ config[id] # 0 => id \in ids
       /\ config[id] <= edits + 1
       /\ IsFiniteSet(Acts(id)) /\ acks[id] + Cardinality(Acts(id)) <= edits

BmcInv == ConfigInv /\ Fits(bmc, config, acks, ids, edits)

\* The numbers of the BMC machines, of revisions and of actions.
LEMMA BmcNumbers ==
  /\ \A id \in BmcIds : id \in Nat /\ id # 0
  /\ \A r \in Station!Revisions : r \in Nat
  /\ \A n \in Station!Counts : n \in Nat
  /\ 0 \in Station!Revisions /\ 0 \in Station!Counts /\ BmcChanges \in Nat
BY BmcAssumption DEF Station!Revisions, Station!Counts

\* What neither reads, shows nor fills in anything does not matter.
LEMMA AsideFits ==
  ASSUME NEW b, NEW c \in Instances, NEW cfg, NEW a, NEW u, NEW e, Fits(b, cfg, a, u, e),
         c.stopped = b.stopped, c.late = b.late, c.form = b.form, c.sweep = b.sweep,
         c.state = b.state, c.version = b.version, c.refreshing = b.refreshing
  PROVE  Fits(c, cfg, a, u, e)
BY DEF Fits, RefreshesFit, SweepFits, CardsFit

\* A sweep that ends, or has not begun to read, has nothing to fit.
LEMMA SweeplessFits ==
  ASSUME NEW b, NEW cfg, NEW a, NEW u, NEW e, Fits(b, cfg, a, u, e),
         NEW s \in Sweeps, s.stage # "reading"
  PROVE  /\ Fits([b EXCEPT !.sweep = s], cfg, a, u, e)
         /\ [b EXCEPT !.sweep = s].stopped = b.stopped
<1> DEFINE c == [b EXCEPT !.sweep = s]
<1>1. /\ c \in Instances /\ c.stopped = b.stopped /\ c.late = b.late /\ c.form = b.form
      /\ c.sweep = s /\ c.state = b.state /\ c.version = b.version
      /\ c.refreshing = b.refreshing
  BY DEF Fits, Instances
<1> HIDE DEF c
<1>2. Fits(c, cfg, a, u, e)
  BY <1>1 DEF Fits, RefreshesFit, SweepFits, CardsFit
<1>3. QED
  BY <1>1, <1>2 DEF c

\* publishCards() of an instance that is not stopped.
LEMMA PublishFits ==
  ASSUME NEW b, NEW cfg \in [BmcIds -> Nat], NEW a, NEW u, NEW e \in Nat,
         Fits(b, cfg, a, u, e), ~b.stopped
  PROVE  /\ Fits(Station!Publish(b, cfg), cfg, a, u, e)
         /\ ~Station!Publish(b, cfg).stopped
         /\ \A id \in BmcIds : cfg[id] # 0 => Station!Publish(b, cfg).version[id] = b.version[id]
<1> DEFINE st == [id \in BmcIds |-> IF cfg[id] # 0 /\ b.state[id].rev = cfg[id]
                                    THEN b.state[id] ELSE Station!None]
           ve == [id \in BmcIds |-> IF cfg[id] = 0 THEN 0 ELSE b.version[id]]
           c == Station!Publish(b, cfg)
<1>1. c = [b EXCEPT !.state = st, !.version = ve, !.late = b.late \/ b.stopped]
  BY DEF Station!Publish
<1>2. Station!None \in Station!Readings /\ Station!None.rev = 0 /\ Station!None.n = 0
  BY BmcNumbers DEF Station!None, Station!Readings
<1>3. b \in Instances /\ b.state \in [BmcIds -> Station!Readings] /\ b.version \in [BmcIds -> Nat]
      /\ b.late = FALSE /\ b.stopped = FALSE
  BY DEF Fits, Instances
<1>4. st \in [BmcIds -> Station!Readings] /\ ve \in [BmcIds -> Nat]
  BY <1>2, <1>3
<1>5. \A id \in BmcIds : /\ st[id] = b.state[id] \/ st[id].rev = 0
                         /\ cfg[id] # 0 => ve[id] = b.version[id]
  BY <1>2
<1> HIDE DEF st, ve, c
<1>6. /\ c \in Instances /\ c.stopped = FALSE /\ c.late = FALSE /\ c.form = b.form
      /\ c.sweep = b.sweep /\ c.state = st /\ c.version = ve
      /\ c.refreshing = b.refreshing
  BY <1>1, <1>3, <1>4 DEF Instances
<1>7. RefreshesFit(c, cfg, a, u, e)
  <2>1. \A r \in b.refreshing : r.id \in BmcIds
    BY <1>3 DEF Instances, Station!Refreshes
  <2>2. QED
    BY <1>3, <1>5, <1>6, <2>1 DEF Fits, RefreshesFit
<1>8. SweepFits(c, cfg, a, u, e)
  BY <1>3, <1>5, <1>6 DEF Fits, SweepFits
<1>9. CardsFit(c, cfg, a, e)
  BY <1>3, <1>5, <1>6 DEF Fits, CardsFit
<1>10. QED
  BY <1>3, <1>5, <1>6, <1>7, <1>8, <1>9 DEF Fits, c

\* A new version of a machine overtakes all that is under way for it.
LEMMA OvertakenFits ==
  ASSUME NEW b, NEW cfg \in [BmcIds -> Nat], NEW a, NEW u, NEW e \in Nat,
         Fits(b, cfg, a, u, e), NEW id \in BmcIds
  PROVE  LET c == [b EXCEPT !.version[id] = @ + 1, !.state[id] = Station!None] IN
         /\ Fits(c, cfg, a, u, e) /\ c.stopped = b.stopped /\ c.form = b.form
<1> DEFINE c == [b EXCEPT !.version[id] = @ + 1, !.state[id] = Station!None]
<1>1. b \in Instances /\ b.state \in [BmcIds -> Station!Readings] /\ b.version \in [BmcIds -> Nat]
  BY DEF Fits, Instances
<1>2. Station!None \in Station!Readings /\ Station!None.rev = 0
  BY BmcNumbers DEF Station!None, Station!Readings
<1> DEFINE st == [b.state EXCEPT ![id] = Station!None]
           ve == [b.version EXCEPT ![id] = @ + 1]
<1>3. c = [b EXCEPT !.version = ve, !.state = st]
  BY <1>1 DEF Instances
<1>4. /\ st \in [BmcIds -> Station!Readings] /\ ve \in [BmcIds -> Nat]
      /\ st[id].rev = 0 /\ ve[id] = b.version[id] + 1
      /\ \A x \in BmcIds : x # id => st[x] = b.state[x] /\ ve[x] = b.version[x]
  BY <1>1, <1>2
<1> HIDE DEF st, ve, c
<1>5. /\ c \in Instances /\ c.stopped = b.stopped /\ c.late = b.late /\ c.form = b.form
      /\ c.sweep = b.sweep /\ c.state = st /\ c.version = ve
      /\ c.refreshing = b.refreshing
  BY <1>1, <1>3, <1>4 DEF Instances
<1>6. \A x \in BmcIds : b.version[x] \in Nat
  BY <1>1
<1>7. RefreshesFit(c, cfg, a, u, e)
  <2>1. \A r \in b.refreshing : r.id \in BmcIds /\ r.version \in Nat
    BY <1>1 DEF Instances, Station!Refreshes
  <2>2. QED
    BY <1>4, <1>5, <1>6, <2>1 DEF Fits, RefreshesFit
<1>8. SweepFits(c, cfg, a, u, e)
  <2>1. b.sweep.stage = "reading" => b.sweep.version \in [BmcIds -> Nat]
    BY <1>1 DEF Instances, Sweeps, Station!NoSweep
  <2>2. QED
    BY <1>4, <1>5, <1>6, <2>1 DEF Fits, SweepFits
<1>9. CardsFit(c, cfg, a, e)
  BY <1>4, <1>5 DEF Fits, CardsFit
<1>10. QED
  BY <1>5, <1>7, <1>8, <1>9 DEF Fits, c

\* refreshOne(): the reading it begins sees the m actions that were acknowledged.
LEMMA RefreshFits ==
  ASSUME NEW b, NEW cfg \in [BmcIds -> Station!Revisions], NEW a \in [BmcIds -> Nat],
         NEW u, NEW e \in Nat, Fits(b, cfg, a, u, e), NEW id \in BmcIds,
         NEW m \in Station!Counts, cfg[id] # 0 => id \in u, cfg[id] <= e + 1
  PROVE  Fits(Station!Refresh(b, id, cfg, m), cfg, [a EXCEPT ![id] = m], u, e)
<1> DEFINE c == Station!Refresh(b, id, cfg, m)
           n == [a EXCEPT ![id] = m]
<1>1. /\ b \in Instances /\ b.version \in [BmcIds -> Nat] /\ b.stopped \in BOOLEAN
      /\ b.refreshing \subseteq Station!Refreshes
  BY DEF Fits, Instances
<1>2. n[id] = m /\ \A x \in BmcIds : x # id => n[x] = a[x]
  OBVIOUS
<1> HIDE DEF n
<1>3. CASE b.stopped \/ cfg[id] = 0
  <2>1. c = b
    BY <1>3 DEF Station!Refresh, Station!Active
  <2>2. RefreshesFit(b, cfg, n, u, e)
    <3>1. \A r \in b.refreshing : r.id \in BmcIds
      BY <1>1 DEF Station!Refreshes
    <3>2. QED
      BY <1>2, <1>3, <3>1 DEF Fits, RefreshesFit
  <2>3. SweepFits(b, cfg, n, u, e)
    BY <1>2, <1>3 DEF Fits, SweepFits
  <2>4. CardsFit(b, cfg, n, e)
    <3>1. ASSUME NEW x \in BmcIds, ~b.stopped /\ cfg[x] # 0 /\ b.state[x].rev = cfg[x]
          PROVE  \/ b.state[x].n = n[x]
                 \/ \E r \in b.refreshing :
                      r.id = x /\ r.rev = cfg[x] /\ r.version = b.version[x] /\ r.n = n[x]
      <4>1. x # id /\ n[x] = a[x]
        BY <1>2, <1>3, <3>1
      <4>2. QED
        BY <3>1, <4>1 DEF Fits, CardsFit
    <3>2. QED
      BY <3>1 DEF Fits, CardsFit
  <2>5. QED
    BY <2>1, <2>2, <2>3, <2>4 DEF Fits, n
<1>4. CASE ~b.stopped /\ cfg[id] # 0
  <2> DEFINE q == [id |-> id, rev |-> cfg[id], n |-> m, version |-> b.version[id] + 1]
             ve == [b.version EXCEPT ![id] = @ + 1]
             re == b.refreshing \cup {q}
  <2>1. c = [b EXCEPT !.version = ve, !.refreshing = re]
    BY <1>1, <1>4 DEF Station!Refresh, Station!Active, Instances
  <2>2. /\ ve \in [BmcIds -> Nat] /\ ve[id] = b.version[id] + 1 /\ b.version[id] \in Nat
        /\ \A x \in BmcIds : x # id => ve[x] = b.version[x]
    BY <1>1
  <2>3. q \in Station!Refreshes
    BY <1>1 DEF Station!Refreshes
  <2>4. re \in SUBSET Station!Refreshes
    BY <1>1, <2>3
  <2>5. q.id = id /\ q.rev = cfg[id] /\ q.n = m /\ q.version = ve[id]
    BY <2>2
  <2>6. \A r \in re : r \in b.refreshing \/ r = q
    OBVIOUS
  <2>7. q \in re /\ b.refreshing \subseteq re
    OBVIOUS
  <2> HIDE DEF q, ve, re
  <2>8. /\ c \in Instances /\ c.stopped = b.stopped /\ c.late = b.late /\ c.form = b.form
        /\ c.sweep = b.sweep /\ c.state = b.state /\ c.version = ve
        /\ c.refreshing = re
    <3> HIDE DEF c
    <3>1. QED
      BY <1>1, <2>1, <2>2, <2>4 DEF Instances
  <2> HIDE DEF c
  <2>9. \A r \in b.refreshing : r.id \in BmcIds /\ r.version \in Nat
    BY <1>1 DEF Station!Refreshes
  <2>10. RefreshesFit(c, cfg, n, u, e)
    <3>1. ASSUME NEW r \in b.refreshing
          PROVE  /\ r.id \in u /\ r.rev <= e + 1
                 /\ ~b.stopped /\ cfg[r.id] # 0 =>
                      /\ r.version <= ve[r.id]
                      /\ r.version = ve[r.id] /\ r.rev = cfg[r.id] => r.n = n[r.id]
      BY <1>2, <2>2, <2>9 DEF Fits, RefreshesFit
    <3>2. /\ q.id \in u /\ q.rev <= e + 1 /\ q.version <= ve[q.id] /\ q.n = n[q.id]
      BY <1>2, <1>4, <2>2, <2>5
    <3>3. QED
      BY <2>6, <2>8, <3>1, <3>2 DEF RefreshesFit
  <2>11. SweepFits(c, cfg, n, u, e)
    <3>1. b.sweep.stage = "reading" => b.sweep.version \in [BmcIds -> Nat]
      BY <1>1 DEF Instances, Sweeps, Station!NoSweep
    <3>2. QED
      BY <1>2, <2>2, <2>8, <3>1 DEF Fits, SweepFits
  <2>12. CardsFit(c, cfg, n, e)
    <3>1. ASSUME NEW x \in BmcIds, ~b.stopped /\ cfg[x] # 0 /\ b.state[x].rev = cfg[x]
          PROVE  \/ b.state[x].n = n[x]
                 \/ \E r \in re :
                      r.id = x /\ r.rev = cfg[x] /\ r.version = ve[x] /\ r.n = n[x]
      <4>1. CASE x = id
        BY <1>2, <2>5, <2>7, <4>1
      <4>2. CASE x # id
        <5>1. n[x] = a[x] /\ ve[x] = b.version[x]
          BY <1>2, <2>2, <4>2
        <5>2. QED
          BY <2>7, <3>1, <5>1 DEF Fits, CardsFit
      <4>3. QED
        BY <4>1, <4>2
    <3>2. QED
      BY <2>8, <3>1 DEF Fits, CardsFit
  <2>13. QED
    BY <2>8, <2>10, <2>11, <2>12 DEF Fits, c, n
<1>5. QED
  BY <1>1, <1>3, <1>4

\* The workers of a sweep that take a machine have seen the actions acknowledged so far.
LEMMA FillFits ==
  ASSUME BmcInv, NEW s \in Sweeps, s.stage = "reading"
  PROVE  LET t == Station!Fill(s) IN
         /\ t \in Sweeps /\ t.stage = "reading" /\ t.rev = s.rev /\ t.version = s.version
         /\ \A id \in BmcIds :
              \/ t.phase[id] = s.phase[id] /\ t.n[id] = s.n[id]
              \/ s.phase[id] = "todo" /\ t.phase[id] = "reading" /\ t.n[id] = acks[id]
<1> DEFINE todo == {id \in BmcIds : s.phase[id] = "todo"}
           busy == {id \in BmcIds : s.phase[id] = "reading"}
           next == {id \in todo : Station!Cardinality({j \in todo : j < id})
                                    + Station!Cardinality(busy) < BmcWorkers}
           ph == [id \in BmcIds |-> IF id \in next THEN "reading" ELSE s.phase[id]]
           n == [id \in BmcIds |-> IF id \in next THEN acks[id] ELSE s.n[id]]
           t == Station!Fill(s)
<1>1. t = [s EXCEPT !.phase = ph, !.n = n]
  BY DEF Station!Fill
<1>2. next \subseteq BmcIds /\ \A id \in next : s.phase[id] = "todo"
  OBVIOUS
<1> HIDE DEF next
<1>3. s \in [stage : {"reading"}, rev : [BmcIds -> Station!Revisions],
             version : [BmcIds -> Nat],
             phase : [BmcIds -> {"todo", "reading", "read", "out"}],
             n : [BmcIds -> Station!Counts]]
  BY DEF Sweeps, Station!NoSweep
<1>4. acks \in [BmcIds -> Station!Counts]
  <2>1. ASSUME NEW id \in BmcIds PROVE acks[id] \in Station!Counts
    <3>1. acks[id] \in Nat /\ Cardinality(Acts(id)) \in Nat
      BY FS_CardinalityType DEF BmcInv, ConfigInv
    <3>2. QED
      BY <3>1, BmcNumbers DEF BmcInv, ConfigInv, Station!Counts
  <2>2. QED
    BY <2>1 DEF BmcInv, ConfigInv
<1>5. ph \in [BmcIds -> {"todo", "reading", "read", "out"}] /\ n \in [BmcIds -> Station!Counts]
  BY <1>3, <1>4
<1>6. \A id \in BmcIds :
        \/ ph[id] = s.phase[id] /\ n[id] = s.n[id]
        \/ s.phase[id] = "todo" /\ ph[id] = "reading" /\ n[id] = acks[id]
  BY <1>2
<1> HIDE DEF ph, n, t
<1>7. /\ t \in [stage : {"reading"}, rev : [BmcIds -> Station!Revisions],
                version : [BmcIds -> Nat],
                phase : [BmcIds -> {"todo", "reading", "read", "out"}],
                n : [BmcIds -> Station!Counts]]
      /\ t.stage = "reading" /\ t.rev = s.rev /\ t.version = s.version
      /\ t.phase = ph /\ t.n = n
  BY <1>1, <1>3, <1>5
<1>8. t \in Sweeps
  BY <1>7 DEF Sweeps
<1>9. QED
  BY <1>6, <1>7, <1>8 DEF t

\* A sweep that goes on, of an instance that fits, fits.
LEMMA SweepingFits ==
  ASSUME BmcInv, NEW b, Fits(b, config, acks, ids, edits), NEW s \in Sweeps, s.stage = "reading",
         \A id \in BmcIds : s.phase[id] # "out" =>
           /\ s.rev[id] # 0 /\ s.rev[id] <= edits + 1 /\ id \in ids
           /\ ~b.stopped /\ config[id] # 0 =>
                /\ s.version[id] <= b.version[id]
                /\ /\ s.phase[id] # "todo"
                   /\ s.version[id] = b.version[id] /\ s.rev[id] = config[id]
                   => s.n[id] = acks[id]
  PROVE  Fits([b EXCEPT !.sweep = s], config, acks, ids, edits)
<1> DEFINE c == [b EXCEPT !.sweep = s]
<1>1. /\ c \in Instances /\ c.stopped = b.stopped /\ c.late = b.late /\ c.form = b.form
      /\ c.sweep = s /\ c.state = b.state /\ c.version = b.version
      /\ c.refreshing = b.refreshing
  BY DEF Fits, Instances
<1> HIDE DEF c
<1>2. SweepFits(c, config, acks, ids, edits)
  BY <1>1 DEF SweepFits
<1>3. Fits(c, config, acks, ids, edits)
  BY <1>1, <1>2 DEF Fits, RefreshesFit, CardsFit
<1>4. QED
  BY <1>3 DEF c

\* sweep() goes on with its answer about ipmitool.
LEMMA ProceedFits ==
  ASSUME BmcInv, NEW b, Fits(b, config, acks, ids, edits), ~b.stopped
  PROVE  /\ Fits(Station!Proceed(b), config, acks, ids, edits)
         /\ ~Station!Proceed(b).stopped
<1>1. /\ config \in [BmcIds -> Nat] /\ edits \in Nat
  BY BmcNumbers DEF BmcInv, ConfigInv
<1>2. Station!NoSweep \in Sweeps /\ Station!NoSweep.stage # "reading"
  BY DEF Sweeps, Station!NoSweep
<1>3. CASE b.caps # "ok"
  <2> DEFINE c == [b EXCEPT !.sweep = Station!NoSweep]
  <2>1. Fits(c, config, acks, ids, edits) /\ c.stopped = b.stopped
    BY <1>2, SweeplessFits
  <2>2. Station!Proceed(b) = Station!Publish(c, config)
    BY <1>3 DEF Station!Proceed
  <2> HIDE DEF c
  <2>3. QED
    BY <1>1, <2>1, <2>2, PublishFits
<1>4. CASE b.caps = "ok" /\ Station!Configured = {}
  <2> DEFINE st == [id \in BmcIds |-> Station!None]
             c == [b EXCEPT !.sweep = Station!NoSweep, !.state = st]
  <2>1. st \in [BmcIds -> Station!Readings] /\ \A id \in BmcIds : st[id].rev = 0
    BY BmcNumbers DEF Station!None, Station!Readings
  <2>2. Station!Proceed(b) = Station!Publish(c, config)
    BY <1>4 DEF Station!Proceed
  <2> HIDE DEF st
  <2>3. /\ c \in Instances /\ c.stopped = b.stopped /\ c.late = b.late /\ c.form = b.form
        /\ c.sweep = Station!NoSweep /\ c.state = st /\ c.version = b.version
        /\ c.refreshing = b.refreshing
    BY <1>2, <2>1 DEF Fits, Instances
  <2> HIDE DEF c
  <2>4. \A id \in BmcIds : config[id] = 0
    BY <1>4 DEF Station!Configured
  <2>5. Fits(c, config, acks, ids, edits)
    BY <1>1, <1>2, <2>1, <2>3, <2>4 DEF Fits, RefreshesFit, SweepFits, CardsFit
  <2>6. QED
    BY <1>1, <2>2, <2>3, <2>5, PublishFits
<1>5. CASE b.caps = "ok" /\ Station!Configured # {}
  <2> DEFINE ph == [id \in BmcIds |-> IF id \in Station!Configured THEN "todo" ELSE "out"]
             n == [id \in BmcIds |-> 0]
             s == [stage |-> "reading", rev |-> config, version |-> b.version,
                   phase |-> ph, n |-> n]
             t == Station!Fill(s)
  <2>1. Station!Proceed(b) = [b EXCEPT !.sweep = t]
    BY <1>5 DEF Station!Proceed
  <2>2. b.version \in [BmcIds -> Nat] /\ config \in [BmcIds -> Station!Revisions]
    BY DEF Fits, Instances, BmcInv, ConfigInv
  <2>3. /\ ph \in [BmcIds -> {"todo", "reading", "read", "out"}]
        /\ n \in [BmcIds -> Station!Counts]
        /\ \A id \in BmcIds : ph[id] \in {"todo", "out"} /\ (ph[id] = "todo" => config[id] # 0)
    BY BmcNumbers DEF Station!Configured
  <2> HIDE DEF ph, n
  <2>4. s \in Sweeps /\ s.stage = "reading" /\ s.phase = ph /\ s.rev = config
        /\ s.version = b.version
    BY <2>2, <2>3 DEF Sweeps
  <2> HIDE DEF s
  <2>5. /\ t \in Sweeps /\ t.stage = "reading" /\ t.rev = config /\ t.version = b.version
        /\ \A id \in BmcIds :
             \/ t.phase[id] = ph[id]
             \/ ph[id] = "todo" /\ t.phase[id] = "reading" /\ t.n[id] = acks[id]
    BY <2>4, FillFits
  <2> HIDE DEF t
  <2>6. \A id \in BmcIds : t.phase[id] # "out" =>
          /\ t.rev[id] # 0 /\ t.rev[id] <= edits + 1 /\ id \in ids
          /\ t.version[id] <= b.version[id]
          /\ t.phase[id] # "todo" => t.n[id] = acks[id]
    <3>1. \A id \in BmcIds : config[id] # 0 => config[id] <= edits + 1 /\ id \in ids
      BY DEF BmcInv, ConfigInv
    <3>2. \A id \in BmcIds : b.version[id] \in Nat
      BY <2>2
    <3>3. QED
      BY <2>3, <2>5, <3>1, <3>2
  <2>7. Fits([b EXCEPT !.sweep = t], config, acks, ids, edits)
    BY <2>5, <2>6, SweepingFits
  <2>8. ~[b EXCEPT !.sweep = t].stopped
    BY DEF Fits, Instances
  <2>9. QED
    BY <2>1, <2>7, <2>8
<1>6. QED
  BY <1>3, <1>4, <1>5

\* refreshCapabilities()
LEMMA AskFits ==
  ASSUME NEW b, NEW cfg, NEW a, NEW u, NEW e, Fits(b, cfg, a, u, e),
         NEW who \in SUBSET (Station!Intervals \cup {Station!Now})
  PROVE  /\ Fits(Station!Ask(b, who), cfg, a, u, e)
         /\ Station!Ask(b, who).stopped = b.stopped
<1> DEFINE p == [on |-> TRUE, for |-> b.probe.for \cup who]
           c == Station!Ask(b, who)
<1>1. b \in Instances
  BY DEF Fits
<1>2. p \in [on : BOOLEAN, for : SUBSET (Station!Intervals \cup {Station!Now})]
  BY <1>1 DEF Instances
<1>3. c = [b EXCEPT !.probe = p]
  BY <1>1 DEF Station!Ask, Instances
<1> HIDE DEF p, c
<1>4. /\ c \in Instances /\ c.stopped = b.stopped /\ c.late = b.late /\ c.form = b.form
      /\ c.sweep = b.sweep /\ c.state = b.state /\ c.version = b.version
      /\ c.refreshing = b.refreshing
  BY <1>1, <1>2, <1>3 DEF Instances
<1>5. Fits(c, cfg, a, u, e)
  BY <1>4, AsideFits
<1>6. QED
  BY <1>4, <1>5 DEF c

\* run()
LEMMA RunFits ==
  ASSUME BmcInv, NEW b, Fits(b, config, acks, ids, edits)
  PROVE  /\ Fits(Station!Run(b), config, acks, ids, edits)
         /\ Station!Run(b).stopped = b.stopped
<1>1. CASE b.sweep # Station!NoSweep \/ b.stopped
  BY <1>1 DEF Station!Run, Station!Active
<1>2. CASE b.sweep = Station!NoSweep /\ ~b.stopped /\ b.caps = "unknown"
  <2> DEFINE s == [stage |-> "capabilities"]
             c == [b EXCEPT !.sweep = s]
  <2>1. s \in Sweeps /\ s.stage # "reading"
    BY DEF Sweeps
  <2> HIDE DEF s
  <2>2. Fits(c, config, acks, ids, edits) /\ c.stopped = b.stopped
    BY <2>1, SweeplessFits
  <2>3. Station!Run(b) = Station!Ask(c, {})
    BY <1>2 DEF Station!Run, Station!Active, s
  <2> HIDE DEF c
  <2>4. QED
    BY <2>2, <2>3, AskFits
<1>3. CASE b.sweep = Station!NoSweep /\ ~b.stopped /\ b.caps # "unknown"
  <2>1. Station!Run(b) = Station!Proceed(b)
    BY <1>3 DEF Station!Run, Station!Active
  <2>2. b.stopped = FALSE /\ Station!Proceed(b).stopped \in BOOLEAN
    BY <1>3, ProceedFits DEF Fits, Instances
  <2>3. QED
    BY <1>3, <2>1, <2>2, ProceedFits
<1>4. QED
  BY <1>1, <1>2, <1>3

\* The rest of sweep(): what has been overtaken is not kept.
LEMMA StoreFits ==
  ASSUME BmcInv, NEW b, Fits(b, config, acks, ids, edits), ~b.stopped,
         b.sweep.stage = "reading"
  PROVE  Fits(Station!Store(b), config, acks, ids, edits)
<1> DEFINE st == [id \in BmcIds |-> IF b.sweep.phase[id] = "read" /\ Station!Kept(b, id)
                                    THEN [rev |-> b.sweep.rev[id], n |-> b.sweep.n[id]]
                                    ELSE b.state[id]]
           c == [b EXCEPT !.sweep = Station!NoSweep, !.state = st]
<1>1. Station!Store(b) = Station!Publish(c, config)
  BY DEF Station!Store
<1>2. b \in Instances /\ b.state \in [BmcIds -> Station!Readings] /\ b.sweep \in Sweeps
      /\ ~b.late
  BY DEF Fits, Instances
<1>3. /\ b.sweep.rev \in [BmcIds -> Station!Revisions] /\ b.sweep.n \in [BmcIds -> Station!Counts]
  BY <1>2 DEF Sweeps, Station!NoSweep
<1>4. st \in [BmcIds -> Station!Readings]
  BY <1>2, <1>3 DEF Station!Readings
<1>5. ASSUME NEW id \in BmcIds
      PROVE  \/ st[id] = b.state[id]
             \/ /\ st[id].rev = b.sweep.rev[id] /\ st[id].n = b.sweep.n[id]
                /\ b.sweep.phase[id] = "read" /\ config[id] = b.sweep.rev[id]
                /\ b.version[id] = b.sweep.version[id]
  BY DEF Station!Kept
<1>6. Station!NoSweep \in Sweeps /\ Station!NoSweep.stage # "reading"
  BY DEF Sweeps, Station!NoSweep
<1> HIDE DEF st
<1>7. /\ c \in Instances /\ c.stopped = b.stopped /\ c.late = b.late /\ c.form = b.form
      /\ c.sweep = Station!NoSweep /\ c.state = st /\ c.version = b.version
      /\ c.refreshing = b.refreshing
  BY <1>2, <1>4, <1>6 DEF Instances
<1> HIDE DEF c
<1>8. CardsFit(c, config, acks, edits)
  <2>1. ASSUME NEW id \in BmcIds
        PROVE  /\ st[id].rev <= edits + 1
               /\ config[id] # 0 /\ st[id].rev = config[id] =>
                    \/ st[id].n = acks[id]
                    \/ \E r \in b.refreshing :
                         r.id = id /\ r.rev = config[id] /\ r.version = b.version[id]
                         /\ r.n = acks[id]
    <3>1. CASE st[id] = b.state[id]
      BY <3>1 DEF Fits, CardsFit
    <3>2. CASE /\ st[id].rev = b.sweep.rev[id] /\ st[id].n = b.sweep.n[id]
               /\ b.sweep.phase[id] = "read" /\ config[id] = b.sweep.rev[id]
               /\ b.version[id] = b.sweep.version[id]
      <4>1. /\ b.sweep.rev[id] <= edits + 1
            /\ config[id] # 0 => b.sweep.n[id] = acks[id]
        BY <3>2 DEF Fits, SweepFits
      <4>2. QED
        BY <3>2, <4>1
    <3>3. QED
      BY <1>5, <3>1, <3>2
  <2>2. QED
    BY <1>7, <2>1 DEF CardsFit
<1>9. Fits(c, config, acks, ids, edits)
  BY <1>6, <1>7, <1>8 DEF Fits, RefreshesFit, SweepFits
<1>10. config \in [BmcIds -> Nat] /\ edits \in Nat
  BY BmcNumbers DEF BmcInv, ConfigInv
<1>11. QED
  BY <1>1, <1>7, <1>9, <1>10, PublishFits

-----------------------------------------------------------------------------
(***************************************************************************)
(* Bmc: its steps.                                                         *)
(***************************************************************************)

\* Another change gives room for another revision.
LEMMA LaterFits ==
  ASSUME NEW b, NEW cfg, NEW a, NEW u, NEW e \in Nat, Fits(b, cfg, a, u, e)
  PROVE  Fits(b, cfg, a, u, e + 1)
<1>1. b \in Instances
  BY DEF Fits
<1>2. RefreshesFit(b, cfg, a, u, e + 1)
  <2>1. \A r \in b.refreshing : r.rev \in Nat
    BY <1>1, BmcNumbers DEF Instances, Station!Refreshes
  <2>2. QED
    BY <2>1 DEF Fits, RefreshesFit
<1>3. SweepFits(b, cfg, a, u, e + 1)
  <2>1. b.sweep.stage = "reading" => \A id \in BmcIds : b.sweep.rev[id] \in Nat
    BY <1>1, BmcNumbers DEF Instances, Sweeps, Station!NoSweep
  <2>2. QED
    BY <2>1 DEF Fits, SweepFits
<1>4. CardsFit(b, cfg, a, e + 1)
  <2>1. \A id \in BmcIds : b.state[id].rev \in Nat
    BY <1>1, BmcNumbers DEF Instances, Station!Readings
  <2>2. QED
    BY <2>1 DEF Fits, CardsFit
<1>5. QED
  BY <1>2, <1>3, <1>4 DEF Fits

\* A machine that gets a new revision, or is removed, agrees with nothing read so far.
LEMMA ReconfiguredFits ==
  ASSUME BmcInv, NEW b, Fits(b, config, acks, ids, edits), NEW id \in BmcIds,
         config[id] # 0 \/ id \notin ids, NEW rev \in {0, edits + 2},
         NEW u, ids \subseteq u, b.form.id # 0 /\ b.form.base = 0 => b.form.id \notin u
  PROVE  Fits(b, [config EXCEPT ![id] = rev], acks, u, edits + 1)
<1> DEFINE cfg == [config EXCEPT ![id] = rev]
<1>1. /\ edits \in Nat /\ cfg[id] = rev
      /\ \A x \in BmcIds : config[x] \in Nat /\ (x # id => cfg[x] = config[x])
  BY BmcNumbers DEF BmcInv, ConfigInv
<1>2. b \in Instances
  BY DEF Fits
<1> HIDE DEF cfg
<1>3. RefreshesFit(b, cfg, acks, u, edits + 1)
  <2>1. \A r \in b.refreshing : r.rev \in Nat /\ r.id \in BmcIds
    BY <1>2, BmcNumbers DEF Instances, Station!Refreshes
  <2>2. ASSUME NEW r \in b.refreshing
        PROVE  /\ r.id \in u /\ r.rev <= edits + 2
               /\ ~b.stopped /\ cfg[r.id] # 0 =>
                    /\ r.version <= b.version[r.id]
                    /\ r.version = b.version[r.id] /\ r.rev = cfg[r.id] => r.n = acks[r.id]
    <3>1. r.id \in ids /\ r.rev <= edits + 1
      BY DEF Fits, RefreshesFit
    <3>2. CASE r.id = id
      BY <1>1, <2>1, <3>1, <3>2 DEF Fits, RefreshesFit
    <3>3. CASE r.id # id
      BY <1>1, <2>1, <3>1, <3>3 DEF Fits, RefreshesFit
    <3>4. QED
      BY <3>2, <3>3
  <2>3. QED
    BY <1>1, <2>2 DEF RefreshesFit
<1>4. SweepFits(b, cfg, acks, u, edits + 1)
  <2>1. ASSUME b.sweep.stage = "reading", NEW x \in BmcIds, b.sweep.phase[x] # "out"
        PROVE  /\ b.sweep.rev[x] # 0 /\ b.sweep.rev[x] <= edits + 2 /\ x \in u
               /\ ~b.stopped /\ cfg[x] # 0 =>
                    /\ b.sweep.version[x] <= b.version[x]
                    /\ /\ b.sweep.phase[x] # "todo"
                       /\ b.sweep.version[x] = b.version[x] /\ b.sweep.rev[x] = cfg[x]
                       => b.sweep.n[x] = acks[x]
    <3>1. b.sweep.rev[x] \in Nat
      BY <1>2, <2>1, BmcNumbers DEF Instances, Sweeps, Station!NoSweep
    <3>2. b.sweep.rev[x] # 0 /\ b.sweep.rev[x] <= edits + 1 /\ x \in ids
      BY <2>1 DEF Fits, SweepFits
    <3>3. ~b.stopped /\ config[x] # 0 =>
            /\ b.sweep.version[x] <= b.version[x]
            /\ /\ b.sweep.phase[x] # "todo"
               /\ b.sweep.version[x] = b.version[x] /\ b.sweep.rev[x] = config[x]
               => b.sweep.n[x] = acks[x]
      BY <2>1 DEF Fits, SweepFits
    <3>4. CASE x = id
      BY <1>1, <3>1, <3>2, <3>3, <3>4
    <3>5. CASE x # id
      BY <1>1, <3>1, <3>2, <3>3, <3>5
    <3>6. QED
      BY <3>4, <3>5
  <2>2. QED
    BY <1>1, <2>1 DEF SweepFits
<1>5. CardsFit(b, cfg, acks, edits + 1)
  <2>1. \A x \in BmcIds : b.state[x].rev \in Nat
    BY <1>2, BmcNumbers DEF Instances, Station!Readings
  <2>2. ASSUME NEW x \in BmcIds
        PROVE  /\ b.state[x].rev <= edits + 2
               /\ ~b.stopped /\ cfg[x] # 0 /\ b.state[x].rev = cfg[x] =>
                    \/ b.state[x].n = acks[x]
                    \/ \E r \in b.refreshing :
                         r.id = x /\ r.rev = cfg[x] /\ r.version = b.version[x] /\ r.n = acks[x]
    <3>1. b.state[x].rev <= edits + 1
      BY DEF Fits, CardsFit
    <3>2. CASE x = id
      BY <1>1, <2>1, <3>1, <3>2
    <3>3. CASE x # id
      BY <1>1, <2>1, <3>1, <3>3 DEF Fits, CardsFit
    <3>4. QED
      BY <3>2, <3>3
  <2>3. QED
    BY <1>1, <2>2 DEF CardsFit
<1>6. QED
  BY <1>3, <1>4, <1>5 DEF Fits, cfg

\* forgetMachine()
LEMMA ForgetFits ==
  ASSUME NEW b, NEW cfg \in [BmcIds -> Nat], NEW a, NEW u, NEW e \in Nat,
         Fits(b, cfg, a, u, e), NEW id \in BmcIds, ~b.stopped
  PROVE  Fits(Station!Forget(b, id, cfg), cfg, a, u, e)
<1> DEFINE c == [b EXCEPT !.version[id] = @ + 1, !.state[id] = Station!None]
<1>1. Fits(c, cfg, a, u, e) /\ c.stopped = b.stopped
  BY OvertakenFits
<1>2. Station!Forget(b, id, cfg) = Station!Publish(c, cfg)
  BY DEF Station!Forget
<1> HIDE DEF c
<1>3. QED
  BY <1>1, <1>2, PublishFits

\* A change that is not one of the configuration keeps it.
LEMMA ConfigStays ==
  ASSUME ConfigInv, UNCHANGED <<config, ids, acting, acks>>,
         edits' = edits \/ (edits < BmcChanges /\ edits' = edits + 1)
  PROVE  ConfigInv' /\ edits' \in Nat
<1>1. Acts(1)' = Acts(1) /\ \A id \in BmcIds : Acts(id)' = Acts(id)
  BY DEF Acts
<1>2. \A id \in BmcIds : acks[id] \in Nat /\ Cardinality(Acts(id)) \in Nat /\ config[id] \in Nat
  BY FS_CardinalityType, BmcNumbers DEF ConfigInv
<1>3. QED
  BY <1>1, <1>2, BmcNumbers DEF ConfigInv

\* The sweeps and the probes.
LEMMA SweepsKeep == ASSUME BmcInv, Station!Sweeps \/ Station!Probes PROVE BmcInv'
<1>1. UNCHANGED <<config, ids, acting, acks, edits>>
  BY DEF Station!Sweeps, Station!Probes, Station!Tick, Station!ReadEnds, Station!RefreshEnds,
         Station!Probed
<1>2. ConfigInv' /\ edits \in Nat
  BY <1>1, ConfigStays DEF BmcInv
<1>3. Fits(bmc, config, acks, ids, edits) /\ bmc \in Instances
  BY DEF BmcInv, Fits
<1>4. CASE Station!Tick
  BY <1>1, <1>2, <1>3, <1>4, RunFits DEF Station!Tick, BmcInv
<1>5. ASSUME NEW id \in BmcIds, Station!ReadEnds(id) PROVE BmcInv'
  <2>1. /\ bmc.sweep.stage = "reading" /\ bmc.sweep.phase[id] = "reading"
        /\ bmc.sweep \in [stage : {"reading"}, rev : [BmcIds -> Station!Revisions],
                          version : [BmcIds -> Nat],
                          phase : [BmcIds -> {"todo", "reading", "read", "out"}],
                          n : [BmcIds -> Station!Counts]]
    BY <1>3, <1>5 DEF Station!ReadEnds, Instances, Sweeps, Station!NoSweep
  <2>2. Station!NoSweep \in Sweeps /\ Station!NoSweep.stage # "reading"
    BY DEF Sweeps, Station!NoSweep
  <2>3. CASE ~bmc.stopped
    <3> DEFINE ph == [bmc.sweep.phase EXCEPT ![id] = "read"]
               s == [bmc.sweep EXCEPT !.phase = ph]
               t == Station!Fill(s)
               b == [bmc EXCEPT !.sweep = t]
    <3>1. bmc' = IF \E j \in BmcIds : t.phase[j] = "reading" THEN b ELSE Station!Store(b)
      <4>1. [bmc.sweep EXCEPT !.phase[id] = "read"] = s
        BY <2>1
      <4>2. QED
        BY <1>5, <2>3, <4>1 DEF Station!ReadEnds, Station!Active
    <3>2. /\ ph \in [BmcIds -> {"todo", "reading", "read", "out"}] /\ ph[id] = "read"
          /\ \A x \in BmcIds : x # id => ph[x] = bmc.sweep.phase[x]
      BY <2>1
    <3> HIDE DEF ph
    <3>3. /\ s \in Sweeps /\ s.stage = "reading" /\ s.rev = bmc.sweep.rev
          /\ s.version = bmc.sweep.version /\ s.n = bmc.sweep.n /\ s.phase = ph
      BY <2>1, <3>2 DEF Sweeps
    <3> HIDE DEF s
    <3>4. /\ t \in Sweeps /\ t.stage = "reading" /\ t.rev = s.rev /\ t.version = s.version
          /\ \A x \in BmcIds :
               \/ t.phase[x] = s.phase[x] /\ t.n[x] = s.n[x]
               \/ s.phase[x] = "todo" /\ t.phase[x] = "reading" /\ t.n[x] = acks[x]
      BY <3>3, FillFits
    <3> HIDE DEF t
    <3>5. ASSUME NEW x \in BmcIds, t.phase[x] # "out"
          PROVE  /\ t.rev[x] # 0 /\ t.rev[x] <= edits + 1 /\ x \in ids
                 /\ ~bmc.stopped /\ config[x] # 0 =>
                      /\ t.version[x] <= bmc.version[x]
                      /\ /\ t.phase[x] # "todo"
                         /\ t.version[x] = bmc.version[x] /\ t.rev[x] = config[x]
                         => t.n[x] = acks[x]
      <4>1. bmc.sweep.phase[x] # "out"
        BY <2>1, <3>2, <3>3, <3>4, <3>5
      <4>2. t.n[x] = acks[x] \/ t.phase[x] = "todo"
            \/ (t.n[x] = bmc.sweep.n[x] /\ bmc.sweep.phase[x] # "todo")
        BY <2>1, <3>2, <3>3, <3>4
      <4>3. t.rev[x] = bmc.sweep.rev[x] /\ t.version[x] = bmc.sweep.version[x]
        BY <3>3, <3>4
      <4>4. QED
        BY <1>3, <2>1, <4>1, <4>2, <4>3 DEF Fits, SweepFits
    <3>6. Fits(b, config, acks, ids, edits)
      BY <1>3, <3>4, <3>5, SweepingFits
    <3>7. b.stopped = bmc.stopped /\ b.sweep = t
      BY <1>3 DEF Instances
    <3> HIDE DEF b
    <3>8. Fits(Station!Store(b), config, acks, ids, edits)
      BY <2>3, <3>4, <3>6, <3>7, StoreFits
    <3>9. QED
      BY <1>1, <1>2, <3>1, <3>6, <3>8 DEF BmcInv
  <2>4. CASE bmc.stopped
    <3> DEFINE ph == [bmc.sweep.phase EXCEPT ![id] = "out"]
               s == [bmc.sweep EXCEPT !.phase = ph]
    <3>1. bmc' = IF \E j \in BmcIds \ {id} : bmc.sweep.phase[j] = "reading"
                 THEN [bmc EXCEPT !.sweep = s] ELSE [bmc EXCEPT !.sweep = Station!NoSweep]
      <4>1. [bmc EXCEPT !.sweep.phase[id] = "out"] = [bmc EXCEPT !.sweep = s]
        BY <1>3, <2>1 DEF Instances
      <4>2. QED
        BY <1>5, <2>4, <4>1 DEF Station!ReadEnds, Station!Active
    <3>2. /\ ph \in [BmcIds -> {"todo", "reading", "read", "out"}]
          /\ \A x \in BmcIds : ph[x] # "out" => ph[x] = bmc.sweep.phase[x]
      BY <2>1
    <3> HIDE DEF ph
    <3>3. /\ s \in Sweeps /\ s.stage = "reading" /\ s.rev = bmc.sweep.rev
          /\ s.phase = ph
      BY <2>1, <3>2 DEF Sweeps
    <3> HIDE DEF s
    <3>4. \A x \in BmcIds : s.phase[x] # "out" =>
            s.rev[x] # 0 /\ s.rev[x] <= edits + 1 /\ x \in ids
      BY <1>3, <2>1, <3>2, <3>3 DEF Fits, SweepFits
    <3>5. Fits([bmc EXCEPT !.sweep = s], config, acks, ids, edits)
      BY <1>3, <2>4, <3>3, <3>4, SweepingFits
    <3>6. Fits([bmc EXCEPT !.sweep = Station!NoSweep], config, acks, ids, edits)
      BY <1>3, <2>2, SweeplessFits
    <3>7. QED
      BY <1>1, <1>2, <3>1, <3>5, <3>6 DEF BmcInv
  <2>5. QED
    BY <2>3, <2>4
<1>6. ASSUME NEW r \in bmc.refreshing, Station!RefreshEnds(r) PROVE BmcInv'
  <2> DEFINE re == bmc.refreshing \ {r}
             b == [bmc EXCEPT !.refreshing = re]
             q == [rev |-> r.rev, n |-> r.n]
             st == [bmc.state EXCEPT ![r.id] = q]
             c == [b EXCEPT !.state = st]
  <2>1. r.id \in BmcIds /\ r.rev \in Station!Revisions /\ r.n \in Station!Counts
        /\ q.rev = r.rev /\ q.n = r.n /\ q \in Station!Readings
    BY <1>3 DEF Instances, Station!Refreshes, Station!Readings
  <2>2. bmc.state \in [BmcIds -> Station!Readings] /\ re \in SUBSET Station!Refreshes
    BY <1>3 DEF Instances
  <2>3. /\ b \in Instances /\ b.stopped = bmc.stopped /\ b.late = bmc.late /\ b.form = bmc.form
        /\ b.sweep = bmc.sweep /\ b.state = bmc.state /\ b.version = bmc.version
        /\ b.refreshing = re
    BY <1>3, <2>2 DEF Instances
  <2>4. bmc' = IF ~bmc.stopped /\ bmc.version[r.id] = r.version /\ config[r.id] = r.rev
               THEN Station!Publish(c, config) ELSE b
    <3>1. [b EXCEPT !.state[r.id] = q] = c
      BY <2>3 DEF Instances
    <3>2. QED
      BY <1>6, <2>3, <3>1 DEF Station!RefreshEnds, Station!Active
  <2>5. /\ st \in [BmcIds -> Station!Readings] /\ st[r.id] = q
        /\ \A x \in BmcIds : x # r.id => st[x] = bmc.state[x]
    BY <2>1, <2>2
  <2> HIDE DEF st, q
  <2>6. /\ c \in Instances /\ c.stopped = bmc.stopped /\ c.late = bmc.late /\ c.form = bmc.form
        /\ c.sweep = bmc.sweep /\ c.state = st /\ c.version = bmc.version
        /\ c.refreshing = re
    <3> HIDE DEF b
    <3>1. QED
      BY <2>3, <2>5 DEF Instances
  <2>7. re \subseteq bmc.refreshing /\ \A x \in bmc.refreshing : x # r => x \in re
    OBVIOUS
  <2> HIDE DEF re, b, c
  <2>8. CASE ~bmc.stopped /\ bmc.version[r.id] = r.version /\ config[r.id] = r.rev
    <3>1. /\ r.rev <= edits + 1
          /\ config[r.id] # 0 => r.n = acks[r.id]
      BY <1>3, <2>8 DEF Fits, RefreshesFit
    <3>2. CardsFit(c, config, acks, edits)
      <4>1. ASSUME NEW x \in BmcIds
            PROVE  /\ st[x].rev <= edits + 1
                   /\ config[x] # 0 /\ st[x].rev = config[x] =>
                        \/ st[x].n = acks[x]
                        \/ \E y \in re : y.id = x /\ y.rev = config[x]
                                         /\ y.version = bmc.version[x] /\ y.n = acks[x]
        <5>1. CASE x = r.id
          BY <1>3, <2>1, <2>5, <3>1, <2>8, <5>1 DEF Fits, RefreshesFit
        <5>2. CASE x # r.id
          BY <1>3, <2>5, <2>7, <2>8, <5>2 DEF Fits, CardsFit
        <5>3. QED
          BY <5>1, <5>2
      <4>2. QED
        BY <2>6, <4>1 DEF CardsFit
    <3>3. Fits(c, config, acks, ids, edits)
      BY <1>3, <2>6, <2>7, <3>2 DEF Fits, RefreshesFit, SweepFits
    <3>4. config \in [BmcIds -> Nat]
      BY BmcNumbers DEF BmcInv, ConfigInv
    <3>5. Fits(Station!Publish(c, config), config, acks, ids, edits)
      BY <1>2, <2>6, <2>8, <3>3, <3>4, PublishFits
    <3>6. QED
      BY <1>1, <1>2, <2>4, <2>8, <3>5 DEF BmcInv
  <2>9. CASE ~(~bmc.stopped /\ bmc.version[r.id] = r.version /\ config[r.id] = r.rev)
    <3>1. CardsFit(b, config, acks, edits)
      <4>1. ASSUME NEW x \in BmcIds, ~bmc.stopped /\ config[x] # 0 /\ bmc.state[x].rev = config[x]
            PROVE  \/ bmc.state[x].n = acks[x]
                   \/ \E y \in re : y.id = x /\ y.rev = config[x]
                                    /\ y.version = bmc.version[x] /\ y.n = acks[x]
        BY <1>3, <2>7, <2>9, <4>1 DEF Fits, CardsFit
      <4>2. QED
        BY <1>3, <2>3, <4>1 DEF Fits, CardsFit
    <3>2. Fits(b, config, acks, ids, edits)
      BY <1>3, <2>3, <2>7, <3>1 DEF Fits, RefreshesFit, SweepFits
    <3>3. QED
      BY <1>1, <1>2, <2>4, <2>9, <3>2 DEF BmcInv
  <2>10. QED
    BY <2>8, <2>9
<1>7. ASSUME NEW result \in {"ok", "missing"}, Station!Probed(result) PROVE BmcInv'
  <2> DEFINE caps == IF bmc.stopped THEN bmc.caps ELSE result
             known == [bmc EXCEPT !.probe = Station!NoProbe, !.caps = caps]
             swept == IF known.sweep.stage # "capabilities" THEN known
                      ELSE IF Station!Active(known) THEN Station!Proceed(known)
                      ELSE [known EXCEPT !.sweep = Station!NoSweep]
             started == [swept EXCEPT !.polling = bmc.applied > 0]
             polled == IF ~Station!Active(bmc) \/ bmc.applied \notin bmc.probe.for THEN swept
                       ELSE Station!Run(started)
  <2>1. bmc' = IF Station!Now \in bmc.probe.for /\ result = "ok" THEN Station!Run(polled)
               ELSE polled
    BY <1>7 DEF Station!Probed
  <2>2. Fits(known, config, acks, ids, edits)
    <3>1. caps \in {"unknown", "ok", "missing"}
      BY <1>3 DEF Instances
    <3>2. Station!NoProbe \in [on : BOOLEAN, for : SUBSET (Station!Intervals \cup {Station!Now})]
      BY DEF Station!NoProbe
    <3> HIDE DEF caps
    <3>3. /\ known \in Instances /\ known.stopped = bmc.stopped /\ known.late = bmc.late
          /\ known.form = bmc.form /\ known.sweep = bmc.sweep /\ known.state = bmc.state
          /\ known.version = bmc.version /\ known.refreshing = bmc.refreshing
      BY <1>3, <3>1, <3>2 DEF Instances
    <3> HIDE DEF known
    <3>4. QED
      BY <1>3, <3>3, AsideFits
  <2> HIDE DEF known
  <2>3. Fits(swept, config, acks, ids, edits)
    <3>1. CASE known.sweep.stage # "capabilities"
      BY <2>2, <3>1
    <3>2. CASE known.sweep.stage = "capabilities" /\ ~known.stopped
      BY <2>2, <3>2, ProceedFits DEF Station!Active
    <3>3. CASE known.sweep.stage = "capabilities" /\ known.stopped
      <4>1. Station!NoSweep \in Sweeps /\ Station!NoSweep.stage # "reading"
        BY DEF Sweeps, Station!NoSweep
      <4>2. QED
        BY <2>2, <3>3, <4>1, SweeplessFits DEF Station!Active
    <3>4. QED
      BY <3>1, <3>2, <3>3
  <2> HIDE DEF swept
  <2>4. Fits(started, config, acks, ids, edits)
    <3> DEFINE timed == bmc.applied > 0
    <3>0. timed \in BOOLEAN /\ swept \in Instances
      BY <2>3 DEF Fits
    <3> HIDE DEF timed
    <3>1. /\ started \in Instances /\ started.stopped = swept.stopped
          /\ started.late = swept.late /\ started.form = swept.form
          /\ started.sweep = swept.sweep /\ started.state = swept.state
          /\ started.version = swept.version /\ started.refreshing = swept.refreshing
      BY <3>0 DEF Instances, timed
    <3> HIDE DEF started
    <3>2. QED
      BY <2>3, <3>1, AsideFits
  <2> HIDE DEF started
  <2>5. Fits(polled, config, acks, ids, edits)
    BY <2>3, <2>4, RunFits
  <2> HIDE DEF polled
  <2>6. Fits(bmc', config, acks, ids, edits)
    BY <2>1, <2>5, RunFits
  <2>7. QED
    BY <1>1, <1>2, <2>6 DEF BmcInv
<1>8. QED
  BY <1>4, <1>5, <1>6, <1>7 DEF Station!Sweeps, Station!Probes

\* The calls of the page, and of the host.
LEMMA CallsKeep == ASSUME BmcInv, Station!Calls PROVE BmcInv'
<1>1. Fits(bmc, config, acks, ids, edits) /\ bmc \in Instances /\ edits \in Nat
  BY BmcNumbers DEF BmcInv, ConfigInv, Fits
<1>2. config \in [BmcIds -> Nat] /\ config \in [BmcIds -> Station!Revisions]
      /\ acks \in [BmcIds -> Nat] /\ 1 \in BmcIds
  BY BmcNumbers, BmcAssumption DEF BmcInv, ConfigInv
<1>3. CASE Station!SweepNow
  <2>1. /\ UNCHANGED <<config, ids, acting, acks>> /\ edits < BmcChanges /\ edits' = edits + 1
        /\ bmc' = Station!Ask(bmc, {Station!Now})
    BY <1>3 DEF Station!SweepNow, Station!Change
  <2>2. Fits(bmc', config, acks, ids, edits)
    BY <1>1, <2>1, AskFits
  <2>3. QED
    BY <1>1, <2>1, <2>2, LaterFits, ConfigStays DEF BmcInv
<1>4. CASE Station!StaleAction
  <2>1. /\ UNCHANGED <<config, ids, acting, acks>> /\ edits < BmcChanges /\ edits' = edits + 1
        /\ bmc' = Station!Forget(bmc, 1, config) /\ ~bmc.stopped
    BY <1>4 DEF Station!StaleAction, Station!Change, Station!Active
  <2>2. Fits(bmc', config, acks, ids, edits)
    BY <1>1, <1>2, <2>1, ForgetFits
  <2>3. QED
    BY <1>1, <2>1, <2>2, LaterFits, ConfigStays DEF BmcInv
<1>5. CASE Station!Checked
  <2> DEFINE f == IF bmc.stopped THEN Station!NoForm ELSE [bmc.form EXCEPT !.issued = TRUE]
  <2>1. /\ UNCHANGED <<config, ids, acting, acks, edits>>
        /\ bmc.form # Station!NoForm /\ bmc' = [bmc EXCEPT !.form = f]
    BY <1>1, <1>5 DEF Station!Checked, Instances
  <2>2. /\ f \in Forms
        /\ f.id # 0 => f.id = bmc.form.id /\ f.base = bmc.form.base
    <3>1. bmc.form \in [id : BmcIds, base : Station!Revisions, issued : BOOLEAN]
      BY <1>1, <2>1 DEF Instances, Forms
    <3>2. QED
      BY <3>1 DEF Forms, Station!NoForm
  <2> HIDE DEF f
  <2>3. /\ bmc' \in Instances /\ bmc'.stopped = bmc.stopped /\ bmc'.late = bmc.late
        /\ bmc'.form = f /\ bmc'.sweep = bmc.sweep /\ bmc'.state = bmc.state
        /\ bmc'.version = bmc.version /\ bmc'.refreshing = bmc.refreshing
    BY <1>1, <2>1, <2>2 DEF Instances
  <2>4. Fits(bmc', config, acks, ids, edits)
    BY <1>1, <2>2, <2>3 DEF Fits, RefreshesFit, SweepFits, CardsFit
  <2>5. QED
    BY <2>1, <2>4, ConfigStays DEF BmcInv
<1>6. CASE Station!Apply
  <2> DEFINE f == bmc.form
             spent == [bmc EXCEPT !.form = Station!NoForm]
  <2>1. /\ ~bmc.stopped /\ f.issued /\ edits < BmcChanges /\ edits' = edits + 1
        /\ UNCHANGED <<acting, acks>>
    BY <1>6 DEF Station!Apply, Station!Active, Station!Change
  <2>2. f.id \in BmcIds
    BY <1>1, <2>1 DEF Instances, Forms, Station!NoForm
  <2>3. /\ spent \in Instances /\ spent.stopped = bmc.stopped /\ spent.late = bmc.late
        /\ spent.form = Station!NoForm /\ spent.sweep = bmc.sweep /\ spent.state = bmc.state
        /\ spent.version = bmc.version /\ spent.refreshing = bmc.refreshing
    BY <1>1 DEF Instances, Forms
  <2>4. Fits(spent, config, acks, ids, edits)
    <3> HIDE DEF spent
    <3>1. Station!NoForm.id = 0
      BY DEF Station!NoForm
    <3>2. QED
      BY <1>1, <2>3, <3>1 DEF Fits, RefreshesFit, SweepFits, CardsFit
  <2>5. CASE config[f.id] # f.base
    <3>1. bmc' = spent /\ UNCHANGED <<config, ids>>
      BY <1>6, <2>5 DEF Station!Apply
    <3>2. QED
      BY <1>1, <2>1, <2>4, <3>1, LaterFits, ConfigStays DEF BmcInv
  <2>6. CASE config[f.id] = f.base
    <3>1. /\ config' = [config EXCEPT ![f.id] = edits + 2] /\ ids' = ids \cup {f.id}
          /\ bmc' = Station!Refresh(Station!Forget(spent, f.id, config'), f.id, config',
                                    acks[f.id])
      BY <1>6, <2>6 DEF Station!Apply
    <3> HIDE DEF spent
    <3> DEFINE cfg == [config EXCEPT ![f.id] = edits + 2]
               forgotten == Station!Forget(spent, f.id, cfg)
    <3>2. config[f.id] # 0 \/ f.id \notin ids
      BY <1>1, <2>2, <2>6, BmcNumbers DEF Fits
    <3>3. Station!NoForm.id = 0
      BY DEF Station!NoForm
    <3>4. Fits(spent, cfg, acks, ids \cup {f.id}, edits + 1)
      BY <2>2, <2>3, <2>4, <3>2, <3>3, ReconfiguredFits
    <3>5. edits + 2 \in Station!Revisions /\ edits + 2 \in Nat /\ edits + 1 \in 0..BmcChanges
      BY <1>1, <2>1, BmcNumbers DEF Station!Revisions
    <3>6. /\ cfg \in [BmcIds -> Nat] /\ cfg \in [BmcIds -> Station!Revisions]
          /\ cfg[f.id] = edits + 2 /\ \A x \in BmcIds : x # f.id => cfg[x] = config[x]
      BY <1>2, <2>2, <3>5
    <3> HIDE DEF cfg
    <3>7. Fits(forgotten, cfg, acks, ids \cup {f.id}, edits + 1)
      BY <1>1, <2>1, <2>2, <2>3, <3>4, <3>6, ForgetFits
    <3> HIDE DEF forgotten
    <3>8. acks[f.id] \in Station!Counts /\ [acks EXCEPT ![f.id] = acks[f.id]] = acks
      <4>1. acks[f.id] \in Nat /\ Cardinality(Acts(f.id)) \in Nat
            /\ acks[f.id] + Cardinality(Acts(f.id)) <= edits
        BY <2>2, FS_CardinalityType DEF BmcInv, ConfigInv
      <4>2. QED
        BY <1>1, <1>2, <2>1, <4>1, BmcNumbers DEF Station!Counts
    <3>9. Fits(Station!Refresh(forgotten, f.id, cfg, acks[f.id]), cfg, acks,
               ids \cup {f.id}, edits + 1)
      <4>1. cfg[f.id] <= (edits + 1) + 1 /\ edits + 1 \in Nat
        BY <1>1, <3>6
      <4>2. Fits(Station!Refresh(forgotten, f.id, cfg, acks[f.id]), cfg,
                 [acks EXCEPT ![f.id] = acks[f.id]], ids \cup {f.id}, edits + 1)
        BY <1>2, <2>2, <3>6, <3>7, <3>8, <4>1, RefreshFits
      <4>3. QED
        BY <3>8, <4>2
    <3>10. config' = cfg /\ bmc' = Station!Refresh(forgotten, f.id, cfg, acks[f.id])
      BY <3>1 DEF cfg, forgotten
    <3>11. ConfigInv'
      <4>1. \A x \in BmcIds : Acts(x)' = Acts(x)
        BY <2>1 DEF Acts
      <4>2. \A x \in BmcIds : acks[x] \in Nat /\ Cardinality(Acts(x)) \in Nat
        BY <1>2, FS_CardinalityType DEF BmcInv, ConfigInv
      <4>3. ASSUME NEW x \in BmcIds
            PROVE  /\ config'[x] # 0 => x \in ids' /\ config'[x] <= edits' + 1
                   /\ IsFiniteSet(Acts(x)') /\ acks'[x] + Cardinality(Acts(x)') <= edits'
        <5>1. /\ config[x] # 0 => x \in ids /\ config[x] <= edits + 1
              /\ IsFiniteSet(Acts(x)) /\ acks[x] + Cardinality(Acts(x)) <= edits
              /\ config[x] \in Nat
          BY <1>2 DEF BmcInv, ConfigInv
        <5>2. CASE x = f.id
          BY <1>1, <2>1, <3>1, <3>6, <3>10, <4>1, <4>2, <5>1, <5>2
        <5>3. CASE x # f.id
          BY <1>1, <2>1, <3>1, <3>6, <3>10, <4>1, <4>2, <5>1, <5>3
        <5>4. QED
          BY <5>2, <5>3
      <4>4. \A x \in BmcIds : config'[x] \in Nat /\ (config'[x] = 0 => config'[x] <= edits' + 1)
        BY <1>1, <2>1, <3>6, <3>10
      <4>5. /\ config' \in [BmcIds -> Station!Revisions] /\ ids' \subseteq BmcIds
            /\ acting' \subseteq [id : BmcIds, rev : Station!Revisions]
            /\ acks' \in [BmcIds -> Nat] /\ edits' \in 0..BmcChanges
        BY <1>2, <2>1, <2>2, <3>1, <3>5, <3>6, <3>10 DEF BmcInv, ConfigInv
      <4>6. QED
        BY <4>3, <4>4, <4>5 DEF ConfigInv
    <3>12. QED
      BY <2>1, <3>1, <3>9, <3>10, <3>11 DEF BmcInv
  <2>7. QED
    BY <2>5, <2>6
<1>7. ASSUME NEW i \in Station!Intervals, Station!ApplyPollers(i) PROVE BmcInv'
  <2> DEFINE b == [bmc EXCEPT !.applied = i, !.polling = FALSE]
  <2>1. /\ UNCHANGED <<config, ids, acting, acks>> /\ edits < BmcChanges /\ edits' = edits + 1
        /\ bmc' = Station!Ask(b, {i})
    BY <1>7 DEF Station!ApplyPollers, Station!Change
  <2>2. /\ b \in Instances /\ b.stopped = bmc.stopped /\ b.late = bmc.late /\ b.form = bmc.form
        /\ b.sweep = bmc.sweep /\ b.state = bmc.state /\ b.version = bmc.version
        /\ b.refreshing = bmc.refreshing
    BY <1>1 DEF Instances
  <2> HIDE DEF b
  <2>3. Fits(b, config, acks, ids, edits)
    BY <1>1, <2>2, AsideFits
  <2>4. Fits(bmc', config, acks, ids, edits)
    BY <2>1, <2>3, AskFits
  <2>5. QED
    BY <1>1, <2>1, <2>4, LaterFits, ConfigStays DEF BmcInv
<1>8. ASSUME NEW id \in BmcIds, Station!PowerAction(id) PROVE BmcInv'
  <2> DEFINE x == [id |-> id, rev |-> config[id]]
  <2>1. /\ UNCHANGED <<bmc, config, ids, acks>> /\ edits < BmcChanges /\ edits' = edits + 1
        /\ acting' = acting \cup {x}
    BY <1>8 DEF Station!PowerAction, Station!Change
  <2>2. x.id = id /\ x \in [id : BmcIds, rev : Station!Revisions]
    BY <1>2
  <2> HIDE DEF x
  <2>3. Acts(id)' = Acts(id) \cup {x} /\ \A y \in BmcIds : y # id => Acts(y)' = Acts(y)
    BY <2>1, <2>2 DEF Acts
  <2>4. \A y \in BmcIds : /\ IsFiniteSet(Acts(y)) /\ acks[y] + Cardinality(Acts(y)) <= edits
                          /\ acks[y] \in Nat /\ Cardinality(Acts(y)) \in Nat
    BY <1>2, FS_CardinalityType DEF BmcInv, ConfigInv
  <2>5. /\ IsFiniteSet(Acts(id) \cup {x})
        /\ Cardinality(Acts(id) \cup {x}) <= Cardinality(Acts(id)) + 1
        /\ Cardinality(Acts(id) \cup {x}) \in Nat
    <3>1. IsFiniteSet(Acts(id) \cup {x})
      BY <2>4, FS_AddElement
    <3>2. Cardinality(Acts(id) \cup {x}) = Cardinality(Acts(id))
          \/ Cardinality(Acts(id) \cup {x}) = Cardinality(Acts(id)) + 1
      BY <2>4, FS_AddElement
    <3>3. QED
      BY <2>4, <3>1, <3>2, FS_CardinalityType
  <2>6. \A y \in BmcIds : IsFiniteSet(Acts(y)') /\ acks[y] + Cardinality(Acts(y)') <= edits + 1
    <3>1. IsFiniteSet(Acts(id)') /\ acks[id] + Cardinality(Acts(id)') <= edits + 1
      BY <1>1, <2>3, <2>4, <2>5
    <3>2. ASSUME NEW y \in BmcIds, y # id
          PROVE  IsFiniteSet(Acts(y)') /\ acks[y] + Cardinality(Acts(y)') <= edits + 1
      BY <1>1, <2>3, <2>4, <3>2
    <3>3. QED
      BY <3>1, <3>2
  <2>7. ConfigInv'
    <3>1. \A y \in BmcIds : config[y] \in Nat /\ (config[y] # 0 => y \in ids)
                            /\ config[y] <= edits + 1
      BY <1>2 DEF BmcInv, ConfigInv
    <3>2. \A y \in BmcIds : config[y] <= (edits + 1) + 1
      BY <1>1, <3>1
    <3>3. edits + 1 \in 0..BmcChanges
      BY <1>1, <2>1, BmcNumbers
    <3>4. QED
      BY <1>2, <2>1, <2>2, <2>6, <3>1, <3>2, <3>3 DEF BmcInv, ConfigInv
  <2>8. QED
    BY <1>1, <2>1, <2>7, LaterFits DEF BmcInv
<1>9. ASSUME NEW id \in BmcIds, Station!Check(id) PROVE BmcInv'
  <2> DEFINE f == [id |-> id, base |-> config[id], issued |-> FALSE]
  <2>1. /\ UNCHANGED <<config, ids, acting, acks, edits>> /\ bmc' = [bmc EXCEPT !.form = f]
        /\ config[id] # 0 \/ id \notin ids
    BY <1>9 DEF Station!Check, Station!Configured
  <2>2. f \in Forms /\ f.id = id /\ f.base = config[id]
    BY <1>2 DEF Forms
  <2> HIDE DEF f
  <2>3. /\ bmc' \in Instances /\ bmc'.stopped = bmc.stopped /\ bmc'.late = bmc.late
        /\ bmc'.form = f /\ bmc'.sweep = bmc.sweep /\ bmc'.state = bmc.state
        /\ bmc'.version = bmc.version /\ bmc'.refreshing = bmc.refreshing
    BY <1>1, <2>1, <2>2 DEF Instances
  <2>4. Fits(bmc', config, acks, ids, edits)
    BY <1>1, <2>1, <2>2, <2>3 DEF Fits, RefreshesFit, SweepFits, CardsFit
  <2>5. QED
    BY <2>1, <2>4, ConfigStays DEF BmcInv
<1>10. ASSUME NEW id \in BmcIds, Station!Delete(id) PROVE BmcInv'
  <2> DEFINE f == IF bmc.form.issued THEN Station!NoForm ELSE bmc.form
             b == [bmc EXCEPT !.form = f]
             cfg == [config EXCEPT ![id] = 0]
  <2>1. /\ ~bmc.stopped /\ config[id] # 0 /\ edits < BmcChanges /\ edits' = edits + 1
        /\ UNCHANGED <<ids, acting, acks>> /\ config' = cfg
        /\ bmc' = Station!Forget(b, id, cfg)
    BY <1>1, <1>10 DEF Station!Delete, Station!Active, Station!Change, Station!Configured,
                       Instances
  <2>2. /\ f \in Forms
        /\ f.id # 0 => f.id = bmc.form.id /\ f.base = bmc.form.base
    BY <1>1 DEF Instances, Forms, Station!NoForm
  <2> HIDE DEF f
  <2>3. /\ b \in Instances /\ b.stopped = bmc.stopped /\ b.late = bmc.late
        /\ b.form = f /\ b.sweep = bmc.sweep /\ b.state = bmc.state
        /\ b.version = bmc.version /\ b.refreshing = bmc.refreshing
    BY <1>1, <2>2 DEF Instances
  <2> HIDE DEF b
  <2>4. Fits(b, config, acks, ids, edits)
    BY <1>1, <2>2, <2>3 DEF Fits, RefreshesFit, SweepFits, CardsFit
  <2>5. Fits(b, cfg, acks, ids, edits + 1)
    BY <2>1, <2>3, <2>4, ReconfiguredFits DEF Fits
  <2>6. /\ cfg \in [BmcIds -> Nat] /\ cfg \in [BmcIds -> Station!Revisions]
        /\ \A x \in BmcIds : cfg[x] = 0 \/ cfg[x] = config[x]
    BY <1>2, BmcNumbers
  <2> HIDE DEF cfg
  <2>7. Fits(bmc', cfg, acks, ids, edits + 1)
    BY <1>1, <2>1, <2>3, <2>5, <2>6, ForgetFits
  <2>8. ConfigInv'
    <3>1. \A x \in BmcIds : Acts(x)' = Acts(x)
      BY <2>1 DEF Acts
    <3>2. \A x \in BmcIds : acks[x] \in Nat /\ Cardinality(Acts(x)) \in Nat /\ config[x] \in Nat
      BY <1>2, FS_CardinalityType DEF BmcInv, ConfigInv
    <3>3. QED
      BY <1>1, <2>1, <2>6, <3>1, <3>2, BmcNumbers DEF BmcInv, ConfigInv
  <2>9. QED
    BY <2>1, <2>7, <2>8 DEF BmcInv
<1>11. QED
  BY <1>3, <1>4, <1>5, <1>6, <1>7, <1>8, <1>9, <1>10 DEF Station!Calls

\* A power action ends: what was read before it has succeeded is overtaken.
LEMMA EndsKeep == ASSUME BmcInv, Station!Ends PROVE BmcInv'
<1>1. PICK x \in acting : Station!PowerActionEnds(x) \/ Station!PowerActionFails(x)
  BY DEF Station!Ends
<1>2. /\ x.id \in BmcIds /\ acting' = acting \ {x} /\ UNCHANGED <<config, ids, edits>>
      /\ acks \in [BmcIds -> Nat] /\ edits \in Nat
  BY <1>1, BmcNumbers
     DEF BmcInv, ConfigInv, Station!PowerActionEnds, Station!PowerActionFails
<1>3. Acts(x.id)' = Acts(x.id) \ {x} /\ x \in Acts(x.id)
      /\ \A y \in BmcIds : y # x.id => Acts(y)' = Acts(y)
  BY <1>2 DEF Acts
<1>4. \A y \in BmcIds : /\ IsFiniteSet(Acts(y)) /\ acks[y] + Cardinality(Acts(y)) <= edits
                        /\ acks[y] \in Nat /\ Cardinality(Acts(y)) \in Nat
  BY <1>2, FS_CardinalityType DEF BmcInv, ConfigInv
<1>5. /\ IsFiniteSet(Acts(x.id)') /\ Cardinality(Acts(x.id)') = Cardinality(Acts(x.id)) - 1
      /\ Cardinality(Acts(x.id)') \in Nat
  <2> DEFINE rest == Acts(x.id) \ {x}
  <2>1. IsFiniteSet(rest) /\ Cardinality(rest) = Cardinality(Acts(x.id)) - 1
    BY <1>2, <1>3, <1>4, FS_RemoveElement
  <2>2. Cardinality(rest) \in Nat
    BY <2>1, FS_CardinalityType
  <2>3. QED
    BY <1>3, <2>1, <2>2
<1>6. ASSUME acks' \in [BmcIds -> Nat], acks'[x.id] <= acks[x.id] + 1,
             \A y \in BmcIds : y # x.id => acks'[y] = acks[y]
      PROVE  ConfigInv'
  <2>1. ASSUME NEW y \in BmcIds
        PROVE  IsFiniteSet(Acts(y)') /\ acks'[y] + Cardinality(Acts(y)') <= edits
    <3>1. CASE y = x.id
      BY <1>2, <1>4, <1>5, <1>6, <3>1
    <3>2. CASE y # x.id
      BY <1>3, <1>4, <1>6, <3>2
    <3>3. QED
      BY <3>1, <3>2
  <2>2. QED
    BY <1>2, <1>6, <2>1 DEF BmcInv, ConfigInv
<1>7. CASE Station!PowerActionFails(x)
  <2>1. UNCHANGED <<bmc, acks>>
    BY <1>7 DEF Station!PowerActionFails
  <2>2. QED
    BY <1>2, <1>4, <1>6, <2>1 DEF BmcInv
<1>8. CASE Station!PowerActionEnds(x)
  <2> DEFINE m == acks[x.id] + 1
  <2>1. acks' = [acks EXCEPT ![x.id] = m]
    BY <1>8 DEF Station!PowerActionEnds
  <2>2. acks' \in [BmcIds -> Nat] /\ acks'[x.id] = m
        /\ \A y \in BmcIds : y # x.id => acks'[y] = acks[y]
    BY <1>2, <2>1
  <2>3. bmc' = Station!Refresh(bmc, x.id, config, m)
    BY <1>8, <2>2 DEF Station!PowerActionEnds
  <2>4. m \in Station!Counts
    BY <1>2, <1>4, <1>5, BmcNumbers DEF Station!Counts, BmcInv, ConfigInv
  <2>5. /\ config \in [BmcIds -> Station!Revisions]
        /\ config[x.id] # 0 => x.id \in ids
        /\ config[x.id] <= edits + 1
    BY <1>2 DEF BmcInv, ConfigInv
  <2> HIDE DEF m
  <2>6. Fits(bmc', config, acks', ids, edits)
    BY <1>2, <2>1, <2>3, <2>4, <2>5, RefreshFits DEF BmcInv
  <2>7. ConfigInv'
    <3>1. m <= acks[x.id] + 1
      BY <1>2, <1>4 DEF m
    <3>2. QED
      BY <1>6, <2>2, <3>1
  <2>8. QED
    BY <1>2, <2>6, <2>7 DEF BmcInv
<1>9. QED
  BY <1>1, <1>7, <1>8

\* The other stations, and the end of the instance.
LEMMA WorldKeeps == ASSUME BmcInv, Station!World PROVE BmcInv'
<1>1. Fits(bmc, config, acks, ids, edits) /\ bmc \in Instances /\ edits \in Nat
      /\ config \in [BmcIds -> Nat] /\ config \in [BmcIds -> Station!Revisions]
      /\ acks \in [BmcIds -> Nat]
  BY BmcNumbers DEF BmcInv, ConfigInv, Fits
<1>2. CASE Station!Dispose
  <2> DEFINE f == IF bmc.form.issued THEN Station!NoForm ELSE bmc.form
  <2>1. /\ UNCHANGED <<config, ids, acting, acks, edits>>
        /\ bmc' = [bmc EXCEPT !.stopped = TRUE, !.polling = FALSE, !.form = f]
    BY <1>1, <1>2 DEF Station!Dispose, Instances
  <2>2. /\ f \in Forms
        /\ f.id # 0 => f.id = bmc.form.id /\ f.base = bmc.form.base
    BY <1>1 DEF Instances, Forms, Station!NoForm
  <2> HIDE DEF f
  <2>3. /\ bmc' \in Instances /\ bmc'.stopped = TRUE /\ bmc'.late = bmc.late
        /\ bmc'.form = f /\ bmc'.sweep = bmc.sweep /\ bmc'.state = bmc.state
        /\ bmc'.version = bmc.version /\ bmc'.refreshing = bmc.refreshing
    BY <1>1, <2>1, <2>2 DEF Instances
  <2>4. Fits(bmc', config, acks, ids, edits)
    BY <1>1, <2>2, <2>3 DEF Fits, RefreshesFit, SweepFits, CardsFit
  <2>5. QED
    BY <2>1, <2>4, ConfigStays DEF BmcInv
<1>3. ASSUME NEW id \in BmcIds, Station!Elsewhere(id) PROVE BmcInv'
  <2>1. /\ UNCHANGED <<bmc, ids, acting, acks>> /\ config[id] # 0
        /\ edits < BmcChanges /\ edits' = edits + 1
    BY <1>3 DEF Station!Elsewhere, Station!Change, Station!Configured
  <2>2. PICK rev \in {0, edits + 2} : config' = [config EXCEPT ![id] = rev]
    BY <1>3 DEF Station!Elsewhere
  <2>3. Fits(bmc, [config EXCEPT ![id] = rev], acks, ids, edits + 1)
    BY <1>1, <2>1, ReconfiguredFits DEF Fits
  <2>4. ConfigInv'
    <3>1. \A x \in BmcIds : Acts(x)' = Acts(x)
      BY <2>1 DEF Acts
    <3>2. \A x \in BmcIds : acks[x] \in Nat /\ Cardinality(Acts(x)) \in Nat
      BY <1>1, FS_CardinalityType DEF BmcInv, ConfigInv
    <3>3. rev \in Station!Revisions /\ rev <= edits + 2 /\ edits + 1 \in 0..BmcChanges
      BY <1>1, <2>1, BmcNumbers DEF Station!Revisions
    <3>4. /\ config' \in [BmcIds -> Station!Revisions]
          /\ \A x \in BmcIds : config'[x] = IF x = id THEN rev ELSE config[x]
      BY <1>1, <2>2, <3>3
    <3>5. ASSUME NEW x \in BmcIds
          PROVE  /\ config'[x] # 0 => x \in ids
                 /\ config'[x] <= edits + 2
                 /\ IsFiniteSet(Acts(x)') /\ acks[x] + Cardinality(Acts(x)') <= edits + 1
      BY <1>1, <2>1, <3>1, <3>2, <3>3, <3>4 DEF BmcInv, ConfigInv
    <3>6. QED
      BY <1>1, <2>1, <3>3, <3>4, <3>5 DEF BmcInv, ConfigInv
  <2>5. QED
    BY <2>1, <2>2, <2>3, <2>4 DEF BmcInv
<1>4. QED
  BY <1>2, <1>3 DEF Station!World

\* Every step of the BMC module keeps its invariant.
LEMMA BmcStep ==
  ASSUME BmcInv, [Station!Next]_(Station!vars)
  PROVE  BmcInv'
<1>1. CASE UNCHANGED Station!vars
  <2>1. UNCHANGED <<bmc, config, ids, acting, acks, edits>>
    BY <1>1 DEF Station!vars
  <2>2. QED
    BY <2>1, ConfigStays DEF BmcInv
<1>2. QED
  BY <1>1, SweepsKeep, CallsKeep, EndsKeep, WorldKeeps DEF Station!Next

\* The invariants of the services and of the BMC module imply what is checked of them.
LEMMA ServicesInvAgrees == ServicesInv => Services!TypeOK /\ Services!ServicesAgree
<1> SUFFICES ASSUME ServicesInv PROVE Services!TypeOK /\ Services!ServicesAgree
  OBVIOUS
<1>1. Services!ServicesAgree
  BY DEF ServicesInv, RateInv, HistoryInv, ShellInv, ActionInv, Services!ServicesAgree
<1>2. Services!TypeOK
  BY DEF ServicesInv, LinkInv, RateInv, HistoryInv, ShellInv, ActionInv, Services!TypeOK, Ticks,
         Runs, NoLink
<1>3. QED
  BY <1>1, <1>2

LEMMA BmcInvAgrees == BmcInv => Station!TypeOK /\ Station!BmcAgrees
<1> SUFFICES ASSUME BmcInv PROVE Station!TypeOK /\ Station!BmcAgrees
  OBVIOUS
<1>1. bmc \in Instances /\ ~bmc.late
  BY DEF BmcInv, Fits
<1>2. Station!CardIsFresh
  BY DEF BmcInv, Fits, CardsFit, Station!CardIsFresh, Station!Configured, Station!Active
<1>3. acks \in [BmcIds -> Station!Counts]
  <2>1. ASSUME NEW id \in BmcIds PROVE acks[id] \in Station!Counts
    <3>1. acks[id] \in Nat /\ Cardinality(Acts(id)) \in Nat
      BY FS_CardinalityType DEF BmcInv, ConfigInv
    <3>2. QED
      BY <3>1, BmcNumbers DEF BmcInv, ConfigInv, Station!Counts
  <2>2. QED
    BY <2>1 DEF BmcInv, ConfigInv
<1>4. bmc.sweep.stage \in {"none", "capabilities", "reading"}
  BY <1>1 DEF Instances, Sweeps, Station!NoSweep
<1>5. bmc.form \in [id : BmcIds \cup {0}, base : Station!Revisions, issued : BOOLEAN]
  <2>1. bmc.form \in Forms
    BY <1>1 DEF Instances
  <2>2. CASE bmc.form = Station!NoForm
    BY <2>2, BmcNumbers DEF Station!NoForm
  <2>3. CASE bmc.form \in [id : BmcIds, base : Station!Revisions, issued : BOOLEAN]
    BY <2>3
  <2>4. QED
    BY <2>1, <2>2, <2>3 DEF Forms
<1>6. Station!TypeOK
  BY <1>1, <1>3, <1>4, <1>5 DEF Station!TypeOK, BmcInv, ConfigInv, Instances
<1>7. QED
  BY <1>1, <1>2, <1>6 DEF Station!BmcAgrees, Station!QuietAfterStop

\* Of any number of contexts, links, terminals and BMCs: rates are of one connection,
\* a terminal and a package action end once with theirs, nothing is added to a flushed
\* history, and no card shows for good what an acknowledged action has overtaken
\* (metrics.ts, packages.ts, terminals.ts, history.ts, modules/bmc/main/sweep.ts).
THEOREM ServicesStayAgreed == AllSpec => []ServicesAgree
<1> DEFINE Both == ServicesInv /\ BmcInv
<1>1. AllInit => ServicesInv
  <2> SUFFICES ASSUME AllInit PROVE ServicesInv
    OBVIOUS
  <2>1. Services!Init
    BY DEF AllInit
  <2>2. Services!Up = {}
    BY <2>1 DEF Services!Init, Services!Up
  <2>3. LinkInv
    BY <2>1, <2>2, ServicesAssumption DEF Services!Init, LinkInv, NoLink
  <2>4. RateInv
    BY <2>1 DEF Services!Init, RateInv, Quiet, Ticks, Services!NoTick, Services!RatesOfOneLink,
                NoLink
  <2>5. HistoryInv
    BY <2>1 DEF Services!Init, HistoryInv, Services!FlushIsLast
  <2>6. ShellInv
    BY <2>1 DEF Services!Init, ShellInv, Services!ShellsEndOnce, NoLink
  <2>7. ActionInv /\ run \in Runs
    BY <2>1 DEF Services!Init, ActionInv, Services!ActionsAreShown, Runs, NoLink
  <2>8. QED
    BY <2>3, <2>4, <2>5, <2>6, <2>7 DEF ServicesInv
<1>2. AllInit => BmcInv
  <2> SUFFICES ASSUME AllInit PROVE BmcInv
    OBVIOUS
  <2>1. /\ ids = {1} /\ config = [id \in BmcIds |-> IF id = 1 THEN 1 ELSE 0]
        /\ acting = {} /\ acks = [id \in BmcIds |-> 0] /\ edits = 0
    BY DEF AllInit, Station!Init, Station!InitWith
  <2> DEFINE Probe == [on : BOOLEAN, for : SUBSET (Station!Intervals \cup {Station!Now})]
             st == [id \in BmcIds |-> Station!None]
             ve == [id \in BmcIds |-> 0]
             First(s, i, p) ==
               [stopped |-> s, late |-> FALSE, applied |-> i, polling |-> FALSE,
                caps |-> "unknown", probe |-> p, sweep |-> Station!NoSweep,
                form |-> Station!NoForm, state |-> st, version |-> ve, refreshing |-> {}]
  <2>2. PICK i \in Station!Intervals, s \in BOOLEAN, p \in Probe : bmc = First(s, i, p)
    <3>1. ASSUME NEW i \in Station!Intervals
          PROVE  /\ [on |-> TRUE, for |-> {i}] \in Probe
                 /\ Station!New(i) = First(FALSE, i, [on |-> TRUE, for |-> {i}])
      BY DEF Station!New
    <3>2. \/ \E i \in Station!Intervals : bmc = Station!New(i)
          \/ bmc = [Station!New(0) EXCEPT !.stopped = TRUE, !.probe = Station!NoProbe]
      BY DEF AllInit, Station!Init, Station!InitWith
    <3>3. 0 \in Station!Intervals /\ Station!NoProbe \in Probe
      BY DEF Station!Intervals, Station!NoProbe
    <3>4. CASE \E i \in Station!Intervals : bmc = Station!New(i)
      BY <3>1, <3>4
    <3>5. CASE bmc = [Station!New(0) EXCEPT !.stopped = TRUE, !.probe = Station!NoProbe]
      <4>1. bmc = First(TRUE, 0, Station!NoProbe)
        BY <3>5 DEF Station!New
      <4>2. QED
        BY <3>3, <4>1
    <3>6. QED
      BY <3>2, <3>4, <3>5
  <2>4. /\ [id \in BmcIds |-> Station!None] \in [BmcIds -> Station!Readings]
        /\ \A id \in BmcIds : [x \in BmcIds |-> Station!None][id].rev = 0
    BY BmcNumbers DEF Station!None, Station!Readings
  <2>5. Station!NoSweep \in Sweeps /\ Station!NoForm \in Forms
    BY DEF Sweeps, Forms
  <2>6. /\ bmc.late = FALSE /\ bmc.form = Station!NoForm /\ bmc.sweep = Station!NoSweep
        /\ bmc.state = [id \in BmcIds |-> Station!None] /\ bmc.refreshing = {}
    BY <2>2
  <2>7. bmc \in Instances
    <3>1. st \in [BmcIds -> Station!Readings] /\ ve \in [BmcIds -> Nat]
      BY <2>4
    <3> HIDE DEF st, ve
    <3>2. QED
      BY <2>2, <2>5, <3>1 DEF Instances
  <2>8. Fits(bmc, config, acks, ids, edits)
    <3>1. Station!NoForm.id = 0 /\ Station!NoSweep.stage # "reading"
      BY DEF Station!NoForm, Station!NoSweep
    <3>2. \A id \in BmcIds : bmc.state[id].rev = 0
      BY <2>4, <2>6
    <3>3. QED
      BY <2>1, <2>6, <2>7, <3>1, <3>2 DEF Fits, RefreshesFit, SweepFits, CardsFit
  <2>9. ConfigInv
    <3>1. \A id \in BmcIds : Acts(id) = {}
      BY <2>1 DEF Acts
    <3>2. IsFiniteSet({}) /\ Cardinality({}) = 0
      BY FS_EmptySet
    <3>3. 1 \in Station!Revisions /\ 0 \in Station!Revisions
      BY BmcNumbers DEF Station!Revisions
    <3>4. QED
      BY <2>1, <3>1, <3>2, <3>3, BmcNumbers, BmcAssumption DEF ConfigInv
  <2>10. QED
    BY <2>8, <2>9 DEF BmcInv
<1>3. Both /\ [AllNext]_all => Both'
  <2> SUFFICES ASSUME Both, [AllNext]_all PROVE Both'
    OBVIOUS
  <2>1. [Services!Next]_(Services!vars)
    BY DEF AllNext, all, servicesVars, Services!vars, Services!connection, Services!collector,
           Services!terminals, Services!packages
  <2>2. [Station!Next]_(Station!vars)
    BY DEF AllNext, all, bmcVars, Station!vars
  <2>3. QED
    BY <2>1, <2>2, ServicesStep, BmcStep
<1>4. Both => ServicesAgree
  BY ServicesInvAgrees, BmcInvAgrees DEF ServicesAgree
<1>5. QED
  BY <1>1, <1>2, <1>3, <1>4, PTL DEF AllSpec

-----------------------------------------------------------------------------
(***************************************************************************)
(* The jobs of a module.                                                   *)
(***************************************************************************)

Statuses == {"pending", "running"} \cup ModJobs!Final
Ended(its) == {i \in ModJobs!Items : its[i] \in ModJobs!Final}

JobsTypes ==
  /\ shape \in ModJobs!Shapes
  /\ stage \in [ModuleJobIds -> {"idle", "live", "detached", "ended", "cleared", "gone"}]
  /\ item \in [ModuleJobIds -> [ModJobs!Items -> Statuses]]
  /\ done \in [ModuleJobIds -> 0..JobItems] /\ batch \in [ModuleJobIds -> 0..JobItems + 1]
  /\ cancelling \subseteq ModuleJobIds
  /\ waiter \in [ModuleJobIds -> {"none", "polling", "done"}]
  /\ revoked \in BOOLEAN /\ emitTimer \in BOOLEAN /\ unsent \in BOOLEAN /\ fatal \in BOOLEAN

\* A job that was not started has done nothing; a batch has no answer until it is reported.
StageFits(j) ==
  /\ stage[j] = "idle" => /\ \A i \in ModJobs!Items : item[j][i] = "pending"
                          /\ done[j] = 0 /\ batch[j] = 0
  /\ stage[j] = "live" => ~revoked
  /\ stage[j] = "live" /\ shape.engine = "fleet" =>
       /\ batch[j] >= 1
       /\ batch[j] <= JobItems => \A i \in ModJobs!Items : item[j][i] = "pending"
       /\ batch[j] = JobItems + 1 => \A i \in ModJobs!Items : item[j][i] \in ModJobs!Final
  /\ stage[j] = "live" /\ shape.engine # "fleet" => batch[j] = 0

\* Only a wide job has two workers.
OneWorker(j) ==
  ~shape.wide => \A i, k \in ModJobs!Items :
    item[j][i] = "running" /\ item[j][k] = "running" => i = k

DoneCounts(j) ==
  /\ stage[j] = "live" => done[j] = Cardinality(Ended(item[j]))
  /\ stage[j] \in {"ended", "cleared"} => /\ done[j] = JobItems
                                          /\ Ended(item[j]) = ModJobs!Items

JobFits(j) ==
  /\ StageFits(j) /\ OneWorker(j) /\ DoneCounts(j)
  /\ waiter[j] = "polling" => shape.engine = "container"
  /\ stage[j] = "detached" => revoked

JobsInv ==
  /\ JobsTypes /\ \A j \in ModuleJobIds : JobFits(j)
  /\ ModJobs!OnlyTheRevokedThrow /\ ModJobs!NothingIsLeftUnsent

\* The least of the items that are left, which the next worker takes, is one of them.
LEMMA LeastItem ==
  ASSUME NEW S \in SUBSET ModJobs!Items, S # {} PROVE ModJobs!Min(S) \in S
<1>1. \E x \in S : \A y \in S : ~ (<<y, x>> \in OpToRel(<, Nat))
  <2>1. S \subseteq Nat
    BY JobsAssumption DEF ModJobs!Items
  <2>2. QED
    BY <2>1, NatLessThanWellFounded, WFMin
<1>2. \E x \in S : \A y \in S : x =< y
  <2>1. PICK x \in S : \A y \in S : ~ (<<y, x>> \in OpToRel(<, Nat))
    BY <1>1
  <2>2. \A y \in S : y \in Nat
    BY JobsAssumption DEF ModJobs!Items
  <2>3. ASSUME NEW y \in S PROVE x =< y
    <3>1. ~ (<<y, x>> \in {ss \in Nat \X Nat : ss[1] < ss[2]})
      BY <2>1 DEF OpToRel
    <3>2. QED
      BY <2>2, <3>1
  <2>4. QED
    BY <2>3
<1>3. QED
  BY <1>2 DEF ModJobs!Min

\* The instance counts as this module does.
LEMMA CountsAgree == \A S : ModJobs!Cardinality(S) = Cardinality(S)
BY DEF ModJobs!Cardinality, Cardinality

\* The items of a job are finitely many, and counted.
LEMMA ItemsAreFinite ==
  /\ IsFiniteSet(ModJobs!Items) /\ Cardinality(ModJobs!Items) = JobItems
  /\ \A S \in SUBSET ModJobs!Items :
       /\ IsFiniteSet(S) /\ Cardinality(S) \in Nat /\ Cardinality(S) <= JobItems
<1>1. IsFiniteSet(ModJobs!Items) /\ Cardinality(ModJobs!Items) = JobItems
  BY FS_Interval, JobsAssumption DEF ModJobs!Items
<1>2. QED
  BY <1>1, FS_Subset, FS_CardinalityType

\* When items come to their end and none is opened again, the count of those that have
\* ended grows by those that came to it.
LEMMA EndedGrow ==
  ASSUME NEW a, NEW b, Ended(a) \subseteq Ended(b)
  PROVE  Cardinality(Ended(b)) = Cardinality(Ended(a)) + Cardinality(Ended(b) \ Ended(a))
<1> DEFINE A == Ended(a)
           B == Ended(b)
<1>1. IsFiniteSet(A) /\ IsFiniteSet(B) /\ A \cap B = A
  BY ItemsAreFinite DEF Ended
<1> HIDE DEF A, B
<1>2. Cardinality(B \ A) = Cardinality(B) - Cardinality(B \cap A)
  BY <1>1, FS_Difference
<1>3. Cardinality(A) \in Nat /\ Cardinality(B) \in Nat /\ B \cap A = A
  BY <1>1, FS_CardinalityType
<1>4. Cardinality(B) = Cardinality(A) + Cardinality(B \ A)
  BY <1>2, <1>3
<1>5. QED
  BY <1>4 DEF A, B

\* Two sets of items that have none in common.
LEMMA ApartCount ==
  ASSUME NEW S \in SUBSET ModJobs!Items, NEW T \in SUBSET ModJobs!Items, S \cap T = {}
  PROVE  Cardinality(S \cup T) = Cardinality(S) + Cardinality(T)
<1>1. IsFiniteSet(S) /\ IsFiniteSet(T) /\ Cardinality(S) \in Nat /\ Cardinality(T) \in Nat
  BY ItemsAreFinite
<1>2. Cardinality(S \cup T) = Cardinality(S) + Cardinality(T) - Cardinality(S \cap T)
  BY <1>1, FS_Union
<1>3. Cardinality(S \cap T) = 0
  BY FS_EmptySet
<1>4. QED
  BY <1>1, <1>2, <1>3

\* A job that ends is recorded whole: what ended before, what ended now and what never
\* ran are all its items.
LEMMA FinishKeeps ==
  ASSUME JobsInv, NEW j \in ModuleJobIds, ModJobs!Runs(j), ~revoked,
         NEW its \in [ModJobs!Items -> Statuses],
         \A i \in ModJobs!Items : its[i] \in ModJobs!Final \cup {"pending"},
         \A i \in ModJobs!Items :
           its[i] # item[j][i] => item[j][i] \notin ModJobs!Final /\ its[i] \in ModJobs!Final,
         ModJobs!Finish(j, its), UNCHANGED <<shape, waiter, revoked, fatal>>
  PROVE  JobsInv'
<1> DEFINE left == {i \in ModJobs!Items : its[i] = "pending"}
           fill == IF j \in cancelling THEN "cancelled" ELSE "skipped"
           ran == {i \in ModJobs!Items : its[i] # item[j][i]}
           new == [i \in ModJobs!Items |-> IF i \in left THEN fill ELSE its[i]]
<1>1. /\ item' = [item EXCEPT ![j] = new]
      /\ done' = [done EXCEPT ![j] = @ + Cardinality(ran) + Cardinality(left)]
      /\ stage' = [stage EXCEPT ![j] = "ended"]
      /\ batch' = [batch EXCEPT ![j] = 0]
      /\ cancelling' = cancelling \ {j}
      /\ emitTimer' = FALSE /\ unsent' = FALSE
  <2>1. item' = [item EXCEPT ![j] = new]
    BY DEF ModJobs!Finish
  <2>2. done' = [done EXCEPT ![j] = @ + Cardinality(ran) + Cardinality(left)]
    BY CountsAgree DEF ModJobs!Finish
  <2>3. /\ stage' = [stage EXCEPT ![j] = "ended"]
        /\ batch' = [batch EXCEPT ![j] = 0]
        /\ cancelling' = cancelling \ {j}
        /\ emitTimer' = FALSE /\ unsent' = FALSE
    BY DEF ModJobs!Finish, ModJobs!EmitNow
  <2>4. QED
    BY <2>1, <2>2, <2>3
<1>2. stage[j] = "live" /\ JobsTypes /\ JobFits(j)
  BY DEF JobsInv, ModJobs!Runs, JobFits
<1>3. new \in [ModJobs!Items -> Statuses] /\ Ended(new) = ModJobs!Items
  BY DEF Statuses, Ended, ModJobs!Final
<1>4. Ended(new) \ Ended(item[j]) = ran \cup left /\ ran \cap left = {}
  <2>1. \A i \in left : item[j][i] \notin ModJobs!Final
    BY DEF ModJobs!Final
  <2>2. \A i \in ModJobs!Items : i \in ran \cup left <=> item[j][i] \notin ModJobs!Final
    BY <2>1
  <2>3. ran \cap left = {}
    BY DEF ModJobs!Final
  <2>4. QED
    BY <1>3, <2>2, <2>3 DEF Ended
<1>5. done[j] + Cardinality(ran) + Cardinality(left) = JobItems
  <2>1. done[j] = Cardinality(Ended(item[j]))
    BY <1>2 DEF JobFits, DoneCounts
  <2>2. ran \in SUBSET ModJobs!Items /\ left \in SUBSET ModJobs!Items
    OBVIOUS
  <2>3. Ended(item[j]) \subseteq Ended(new)
    BY <1>3 DEF Ended
  <2> HIDE DEF ran, left, new
  <2>4. Cardinality(ran \cup left) = Cardinality(ran) + Cardinality(left)
    BY <1>4, <2>2, ApartCount
  <2>5. Cardinality(Ended(new)) = Cardinality(Ended(item[j])) + Cardinality(ran \cup left)
    BY <1>4, <2>3, EndedGrow
  <2>6. Cardinality(ran) \in Nat /\ Cardinality(left) \in Nat /\ done[j] \in Nat
    BY <1>2, <2>2, ItemsAreFinite, JobsAssumption DEF JobsTypes
  <2>7. QED
    BY <1>3, <2>1, <2>4, <2>5, <2>6, ItemsAreFinite
<1>6. /\ item'[j] = new /\ done'[j] = JobItems /\ stage'[j] = "ended" /\ batch'[j] = 0
      /\ \A k \in ModuleJobIds : k # j => /\ item'[k] = item[k] /\ done'[k] = done[k]
                                          /\ stage'[k] = stage[k] /\ batch'[k] = batch[k]
  BY <1>1, <1>2, <1>5 DEF JobsTypes
<1> HIDE DEF new, ran, left
<1>7. JobsTypes'
  <2>1. /\ item' \in [ModuleJobIds -> [ModJobs!Items -> Statuses]]
        /\ stage' \in [ModuleJobIds ->
                        {"idle", "live", "detached", "ended", "cleared", "gone"}]
    BY <1>1, <1>2, <1>3 DEF JobsTypes
  <2>2. done' \in [ModuleJobIds -> 0..JobItems] /\ batch' \in [ModuleJobIds -> 0..JobItems + 1]
    <3>1. done' = [done EXCEPT ![j] = JobItems] /\ batch' = [batch EXCEPT ![j] = 0]
      BY <1>1, <1>2, <1>5 DEF JobsTypes
    <3>2. QED
      BY <1>2, <3>1, JobsAssumption DEF JobsTypes
  <2>3. QED
    BY <1>1, <1>2, <2>1, <2>2 DEF JobsTypes
<1>8. ASSUME NEW k \in ModuleJobIds PROVE JobFits(k)'
  <2>1. CASE k = j
    <3>1. OneWorker(j)'
      BY <1>3, <1>6 DEF OneWorker, Ended, ModJobs!Final
    <3>2. StageFits(j)' /\ DoneCounts(j)'
      BY <1>3, <1>6 DEF StageFits, DoneCounts
    <3>3. QED
      BY <1>2, <1>6, <2>1, <3>1, <3>2 DEF JobFits
  <2>2. CASE k # j
    <3>1. JobFits(k)
      BY DEF JobsInv
    <3>2. /\ item'[k] = item[k] /\ done'[k] = done[k] /\ stage'[k] = stage[k]
          /\ batch'[k] = batch[k]
      BY <1>6, <2>2
    <3>3. StageFits(k)' /\ OneWorker(k)'
      BY <3>1, <3>2 DEF JobFits, StageFits, OneWorker
    <3>4. DoneCounts(k)'
      BY <3>1, <3>2 DEF JobFits, DoneCounts
    <3>5. QED
      BY <3>1, <3>2, <3>3, <3>4 DEF JobFits
  <2>3. QED
    BY <2>1, <2>2
<1>9. QED
  BY <1>1, <1>7, <1>8 DEF JobsInv, ModJobs!OnlyTheRevokedThrow, ModJobs!NothingIsLeftUnsent

\* What ends after dispose() leaves the records alone.
LEMMA EndsRevokedKeeps ==
  ASSUME JobsInv, NEW j \in ModuleJobIds, ~fatal, ModJobs!EndsRevoked(j),
         UNCHANGED <<shape, waiter, revoked>>
  PROVE  JobsInv'
<1>1. /\ revoked /\ stage' = [stage EXCEPT ![j] = "gone"]
      /\ fatal' = (shape.engine # "openwrt")
      /\ UNCHANGED <<item, done, batch, cancelling, emitTimer, unsent>>
  BY DEF ModJobs!EndsRevoked
<1>2. \A k \in ModuleJobIds : stage'[k] = IF k = j THEN "gone" ELSE stage[k]
  BY <1>1 DEF JobsInv, JobsTypes
<1>3. JobsTypes'
  BY <1>1 DEF JobsInv, JobsTypes
<1>4. ASSUME NEW k \in ModuleJobIds PROVE JobFits(k)'
  BY <1>1, <1>2 DEF JobsInv, JobFits, StageFits, OneWorker, DoneCounts, Ended
<1>5. ModJobs!OnlyTheRevokedThrow' /\ ModJobs!NothingIsLeftUnsent'
  BY <1>1 DEF ModJobs!OnlyTheRevokedThrow, ModJobs!NothingIsLeftUnsent
<1>6. QED
  BY <1>3, <1>4, <1>5 DEF JobsInv

\* The jobs that a step does not touch keep their place in the invariant.
LEMMA OtherFits ==
  ASSUME JobsInv, NEW k \in ModuleJobIds, UNCHANGED <<shape, revoked>>,
         item'[k] = item[k], done'[k] = done[k], stage'[k] = stage[k], batch'[k] = batch[k],
         waiter'[k] = waiter[k]
  PROVE  JobFits(k)'
<1>1. JobFits(k)
  BY DEF JobsInv
<1>2. StageFits(k)' /\ OneWorker(k)'
  BY <1>1 DEF JobFits, StageFits, OneWorker
<1>3. DoneCounts(k)'
  BY <1>1 DEF JobFits, DoneCounts
<1>4. QED
  BY <1>1, <1>2, <1>3 DEF JobFits

\* An item is over and others remain, running or pending: what ended is counted, and what
\* is passed over is shown by the worker that still runs.
LEMMA NextItemKeeps ==
  ASSUME JobsInv, NEW j \in ModuleJobIds, NEW i \in ModJobs!Items, ModJobs!Runs(j), ~revoked,
         item[j][i] = "running", NEW status \in {"ok", "error", "cancelled"},
         ModJobs!NextItem(j, i, status), UNCHANGED <<shape, waiter, revoked, fatal>>
  PROVE  JobsInv'
<1> DEFINE its == [item[j] EXCEPT ![i] = status]
           rest == {k \in ModJobs!Items : its[k] = "pending"}
           busy == {k \in ModJobs!Items : its[k] = "running"}
           stops == \/ j \in cancelling
                    \/ shape.abort /\ \E k \in ModJobs!Items : its[k] = "error"
           fill == IF j \in cancelling THEN "cancelled" ELSE "skipped"
           new == IF stops THEN [k \in ModJobs!Items |-> IF k \in rest THEN fill ELSE its[k]]
                  ELSE IF rest = {} THEN its ELSE [its EXCEPT ![ModJobs!Min(rest)] = "running"]
           count == 1 + IF stops THEN Cardinality(rest) ELSE 0
<1>1. JobsTypes /\ JobFits(j) /\ stage[j] = "live"
  BY DEF JobsInv, ModJobs!Runs, JobFits
<1>2. its \in [ModJobs!Items -> Statuses]
  BY <1>1 DEF JobsTypes, Statuses, ModJobs!Final
<1>3. \A k \in ModJobs!Items : its[k] = IF k = i THEN status ELSE item[j][k]
  BY <1>1 DEF JobsTypes
<1>4. CASE busy = {} /\ (stops \/ rest = {})
  <2>1. ModJobs!Finish(j, its)
    BY <1>4 DEF ModJobs!NextItem
  <2>2. \A k \in ModJobs!Items : its[k] \in ModJobs!Final \cup {"pending"}
    BY <1>2, <1>4 DEF Statuses
  <2>3. \A k \in ModJobs!Items :
          its[k] # item[j][k] => item[j][k] \notin ModJobs!Final /\ its[k] \in ModJobs!Final
    BY <1>3 DEF ModJobs!Final
  <2> HIDE DEF its
  <2>4. QED
    BY <1>2, <2>1, <2>2, <2>3, FinishKeeps
<1>5. CASE ~(busy = {} /\ (stops \/ rest = {}))
  <2>1. done' = [done EXCEPT ![j] = @ + 1 + IF stops THEN Cardinality(rest) ELSE 0]
    BY <1>5, CountsAgree DEF ModJobs!NextItem
  <2>2. item' = [item EXCEPT ![j] = new]
    BY <1>5 DEF ModJobs!NextItem
  <2>3. /\ \/ emitTimer' = TRUE /\ unsent' = TRUE
           \/ emitTimer' = FALSE /\ unsent' = (stops /\ rest # {})
        /\ UNCHANGED <<stage, batch, cancelling>>
    BY <1>5 DEF ModJobs!NextItem, ModJobs!EmitLater
  <2>4. rest # {} => ModJobs!Min(rest) \in rest
    BY LeastItem
  <2>5. new \in [ModJobs!Items -> Statuses]
    BY <1>2, <2>4 DEF Statuses, ModJobs!Final
  <2>6. shape.engine # "fleet"
    <3>1. batch[j] \in 0..JobItems + 1
      BY <1>1 DEF JobsTypes
    <3>2. batch[j] <= JobItems \/ batch[j] = JobItems + 1
      BY <3>1, JobsAssumption
    <3>3. item[j][i] # "pending" /\ item[j][i] \notin ModJobs!Final
      BY DEF ModJobs!Final
    <3>4. QED
      BY <1>1, <3>2, <3>3 DEF JobFits, StageFits
  <2>7. /\ \A k \in ModJobs!Items : item[j][k] \in ModJobs!Final => new[k] = item[j][k]
        /\ Ended(item[j]) \subseteq Ended(new)
    BY <1>2, <1>3, <2>4 DEF Ended, ModJobs!Final
  <2>8. Ended(new) \ Ended(item[j]) = IF stops THEN {i} \cup rest ELSE {i}
    BY <1>2, <1>3, <2>4 DEF Ended, ModJobs!Final
  <2>9. /\ {i} \in SUBSET ModJobs!Items /\ rest \in SUBSET ModJobs!Items
        /\ {i} \cap rest = {} /\ Cardinality({i}) = 1
    BY <1>3, FS_Singleton
  <2>10. Cardinality(Ended(new)) = done[j] + count
    <3>1. done[j] = Cardinality(Ended(item[j])) /\ done[j] \in Nat
      BY <1>1, JobsAssumption DEF JobFits, DoneCounts, JobsTypes
    <3> HIDE DEF new, rest
    <3>2. Cardinality(Ended(new)) = done[j] + Cardinality(Ended(new) \ Ended(item[j]))
      BY <2>7, <3>1, EndedGrow
    <3>3. Cardinality({i} \cup rest) = 1 + Cardinality(rest) /\ Cardinality(rest) \in Nat
      BY <2>9, ApartCount, ItemsAreFinite
    <3> HIDE DEF stops
    <3>4. CASE stops
      BY <2>8, <3>1, <3>2, <3>3, <3>4
    <3>5. CASE ~stops
      <4>1. Ended(new) \ Ended(item[j]) = {i} /\ count = 1
        BY <2>8, <3>5
      <4> HIDE DEF count
      <4>2. QED
        BY <2>9, <3>2, <4>1
    <3>6. QED
      BY <3>4, <3>5
  <2>11. done[j] + count \in 0..JobItems
    <3>1. Ended(new) \in SUBSET ModJobs!Items
      BY DEF Ended
    <3> HIDE DEF new, count
    <3>2. QED
      BY <2>10, <3>1, ItemsAreFinite, JobsAssumption
  <2>12. /\ ~shape.wide => \A k, l \in ModJobs!Items :
                             new[k] = "running" /\ new[l] = "running" => k = l
         /\ stops /\ rest # {} => shape.wide /\ \E k \in ModJobs!Items : new[k] = fill
    <3>1. ~shape.wide => \A k \in ModJobs!Items : its[k] # "running"
      BY <1>1, <1>3 DEF JobFits, OneWorker
    <3>2. \A k \in ModJobs!Items :
            new[k] = "running" =>
              its[k] = "running" \/ (~stops /\ rest # {} /\ k = ModJobs!Min(rest))
      BY <1>2, <2>4
    <3>3. stops /\ rest # {} => \E k \in ModJobs!Items : new[k] = fill
      BY <1>2
    <3>4. stops => busy # {}
      BY <1>5
    <3> HIDE DEF new, its, fill
    <3>5. QED
      BY <3>1, <3>2, <3>3, <3>4
  <2> HIDE DEF its, rest, new
  <2>13. /\ item'[j] = new /\ done'[j] = done[j] + count
         /\ \A k \in ModuleJobIds : k # j => item'[k] = item[k] /\ done'[k] = done[k]
    <3>1. done[j] \in Nat /\ Cardinality(rest) \in Nat
      BY <1>1, <2>9, ItemsAreFinite, JobsAssumption DEF JobsTypes
    <3> DEFINE bit == IF stops THEN Cardinality(rest) ELSE 0
    <3>2. bit \in Nat /\ count = 1 + bit /\ done' = [done EXCEPT ![j] = @ + 1 + bit]
      BY <2>1, <3>1
    <3> HIDE DEF bit, count
    <3>3. QED
      BY <1>1, <2>2, <3>1, <3>2 DEF JobsTypes
  <2> HIDE DEF count
  <2>14. JobsTypes'
    <3>1. item' \in [ModuleJobIds -> [ModJobs!Items -> Statuses]]
      BY <1>1, <2>2, <2>5 DEF JobsTypes
    <3>2. done' \in [ModuleJobIds -> 0..JobItems]
      BY <1>1, <2>1, <2>11, <2>13 DEF JobsTypes
    <3>3. emitTimer' \in BOOLEAN /\ unsent' \in BOOLEAN
      BY <2>3
    <3>4. QED
      BY <1>1, <2>3, <3>1, <3>2, <3>3 DEF JobsTypes
  <2>15. ASSUME NEW k \in ModuleJobIds PROVE JobFits(k)'
    <3>1. CASE k = j
      <4>1. DoneCounts(j)'
        BY <1>1, <2>3, <2>10, <2>13 DEF DoneCounts
      <4>2. OneWorker(j)' /\ StageFits(j)'
        BY <1>1, <2>3, <2>6, <2>12, <2>13 DEF OneWorker, StageFits, JobFits
      <4>3. QED
        BY <1>1, <2>3, <3>1, <4>1, <4>2 DEF JobFits
    <3>2. CASE k # j
      BY <2>3, <2>13, <3>2, OtherFits
    <3>3. QED
      BY <3>1, <3>2
  <2>16. ModJobs!NothingIsLeftUnsent'
    <3>1. CASE emitTimer'
      BY <3>1 DEF ModJobs!NothingIsLeftUnsent
    <3>2. CASE ~emitTimer' /\ unsent'
      <4>1. shape'.wide /\ \E k \in ModJobs!Items : item'[j][k] = fill
        BY <2>3, <2>12, <2>13, <3>2
      <4>2. stage'[j] = "live"
        BY <1>1, <2>3
      <4>3. QED
        BY <4>1, <4>2 DEF ModJobs!NothingIsLeftUnsent, ModJobs!In
    <3>3. QED
      BY <3>1, <3>2 DEF ModJobs!NothingIsLeftUnsent
  <2>17. QED
    BY <2>14, <2>15, <2>16 DEF JobsInv, ModJobs!OnlyTheRevokedThrow
<1>6. QED
  BY <1>4, <1>5

\* The work of an item is over.
LEMMA ItemEndsKeeps ==
  ASSUME JobsInv, ~fatal, NEW j \in ModuleJobIds, NEW i \in ModJobs!Items,
         ModJobs!ItemEnds(j, i)
  PROVE  JobsInv'
<1>1. CASE ModJobs!EndsRevoked(j)
  BY <1>1, EndsRevokedKeeps DEF ModJobs!ItemEnds
<1>2. CASE ~ModJobs!EndsRevoked(j)
  <2>1. /\ ModJobs!Runs(j) /\ item[j][i] = "running" /\ ~revoked
        /\ UNCHANGED <<shape, waiter, revoked, fatal>>
    BY <1>2 DEF ModJobs!ItemEnds
  <2>2. \E status \in {"ok", "error", "cancelled"} : ModJobs!NextItem(j, i, status)
    BY <1>2 DEF ModJobs!ItemEnds
  <2>3. QED
    BY <2>1, <2>2, NextItemKeeps
<1>3. QED
  BY <1>1, <1>2

\* The answers of a batch: none is reported before the last one, or the cancellation.
LEMMA BatchAnswersKeeps ==
  ASSUME JobsInv, ~fatal, NEW j \in ModuleJobIds, ModJobs!BatchAnswers(j)
  PROVE  JobsInv'
<1>1. CASE ModJobs!EndsRevoked(j)
  BY <1>1, EndsRevokedKeeps DEF ModJobs!BatchAnswers
<1>2. CASE ~ModJobs!EndsRevoked(j)
  <2>1. /\ ModJobs!Runs(j) /\ batch[j] \in ModJobs!Items /\ ~revoked
        /\ UNCHANGED <<shape, waiter, revoked, fatal>>
    BY <1>2 DEF ModJobs!BatchAnswers
  <2>2. JobsTypes /\ JobFits(j) /\ stage[j] = "live"
    BY <2>1 DEF JobsInv, ModJobs!Runs, JobFits
  <2>3. shape.engine = "fleet" /\ \A i \in ModJobs!Items : item[j][i] = "pending"
    BY <2>1, <2>2, JobsAssumption DEF JobFits, StageFits, ModJobs!Items
  <2>4. CASE /\ batch[j] < JobItems /\ batch' = [batch EXCEPT ![j] = @ + 1]
             /\ UNCHANGED <<stage, item, done, cancelling, emitTimer, unsent, fatal>>
    <3>1. /\ batch'[j] = batch[j] + 1 /\ batch'[j] \in 1..JobItems
          /\ \A k \in ModuleJobIds : k # j => batch'[k] = batch[k]
      BY <2>1, <2>2, <2>4, JobsAssumption DEF JobsTypes, ModJobs!Items
    <3>2. JobsTypes'
      BY <2>1, <2>2, <2>4, <3>1, JobsAssumption DEF JobsTypes
    <3>3. ASSUME NEW k \in ModuleJobIds PROVE JobFits(k)'
      <4>1. CASE k = j
        <5>1. batch'[j] >= 1 /\ batch'[j] # JobItems + 1
          BY <3>1, JobsAssumption
        <5>2. DoneCounts(j)'
          BY <2>2, <2>4 DEF JobFits, DoneCounts, Ended
        <5>3. StageFits(j)' /\ OneWorker(j)'
          BY <2>1, <2>2, <2>3, <2>4, <5>1 DEF JobFits, StageFits, OneWorker
        <5>4. QED
          BY <2>1, <2>2, <2>4, <4>1, <5>2, <5>3 DEF JobFits
      <4>2. CASE k # j
        BY <2>1, <2>4, <3>1, <4>2, OtherFits
      <4>3. QED
        BY <4>1, <4>2
    <3>4. ModJobs!NothingIsLeftUnsent'
      BY <2>1, <2>4 DEF JobsInv, ModJobs!NothingIsLeftUnsent, ModJobs!In
    <3>5. QED
      BY <2>1, <3>2, <3>3, <3>4 DEF JobsInv, ModJobs!OnlyTheRevokedThrow
  <2>5. CASE ~(/\ batch[j] < JobItems /\ batch' = [batch EXCEPT ![j] = @ + 1]
               /\ UNCHANGED <<stage, item, done, cancelling, emitTimer, unsent, fatal>>)
    <3> DEFINE Its(good) ==
          [i \in ModJobs!Items |-> IF i > batch[j] THEN item[j][i]
                                   ELSE IF i \in good THEN "ok" ELSE "error"]
    <3>1. batch[j] = JobItems \/ j \in cancelling
      BY <1>2, <2>1, <2>5 DEF ModJobs!BatchAnswers
    <3>2. PICK good \in SUBSET (1..batch[j]) :
            IF j \in cancelling THEN ModJobs!Finish(j, Its(good))
            ELSE /\ item' = [item EXCEPT ![j] = Its(good)]
                 /\ done' = [done EXCEPT ![j] = @ + batch[j]]
                 /\ batch' = [batch EXCEPT ![j] = JobItems + 1]
                 /\ ModJobs!EmitLater \/ ModJobs!EmitNow
                 /\ UNCHANGED <<stage, cancelling>>
      BY <1>2, <2>1, <2>5 DEF ModJobs!BatchAnswers
    <3> DEFINE its == Its(good)
    <3>3. its \in [ModJobs!Items -> Statuses]
      BY <2>2 DEF JobsTypes, Statuses, ModJobs!Final
    <3>4. \A i \in ModJobs!Items : its[i] = IF i > batch[j] THEN "pending"
                                           ELSE IF i \in good THEN "ok" ELSE "error"
      BY <2>3
    <3>5. CASE j \in cancelling
      <4>1. ModJobs!Finish(j, its)
        BY <3>2, <3>5
      <4>2. \A i \in ModJobs!Items :
              /\ its[i] \in ModJobs!Final \cup {"pending"}
              /\ its[i] # item[j][i] =>
                   item[j][i] \notin ModJobs!Final /\ its[i] \in ModJobs!Final
        BY <2>3, <3>4 DEF ModJobs!Final
      <4> HIDE DEF its
      <4>3. QED
        BY <2>1, <3>3, <4>1, <4>2, FinishKeeps
    <3>6. CASE j \notin cancelling
      <4>1. batch[j] = JobItems
        BY <3>1, <3>6
      <4>2. /\ \A i \in ModJobs!Items : its[i] \in ModJobs!Final
            /\ Ended(its) = ModJobs!Items
        BY <3>4, <4>1, JobsAssumption DEF Ended, ModJobs!Final, ModJobs!Items
      <4>3. done[j] = 0
        <5>1. Ended(item[j]) = {}
          BY <2>3 DEF Ended, ModJobs!Final
        <5>2. QED
          BY <2>2, <5>1, FS_EmptySet DEF JobFits, DoneCounts
      <4>4. /\ item' = [item EXCEPT ![j] = its] /\ done' = [done EXCEPT ![j] = @ + batch[j]]
            /\ batch' = [batch EXCEPT ![j] = JobItems + 1]
            /\ unsent' = emitTimer' /\ emitTimer' \in BOOLEAN
            /\ UNCHANGED <<stage, cancelling>>
        <5>1. ModJobs!EmitLater \/ ModJobs!EmitNow
          BY <3>2, <3>6
        <5>2. unsent' = emitTimer' /\ emitTimer' \in BOOLEAN
          BY <5>1 DEF ModJobs!EmitLater, ModJobs!EmitNow
        <5>3. QED
          BY <3>2, <3>6, <5>2
      <4> HIDE DEF its
      <4>5. /\ item'[j] = its /\ done'[j] = JobItems /\ batch'[j] = JobItems + 1
            /\ \A k \in ModuleJobIds : k # j => /\ item'[k] = item[k] /\ done'[k] = done[k]
                                                /\ batch'[k] = batch[k]
        BY <2>2, <4>1, <4>3, <4>4, JobsAssumption DEF JobsTypes
      <4>6. JobsTypes'
        <5>1. item' \in [ModuleJobIds -> [ModJobs!Items -> Statuses]]
          BY <2>2, <3>3, <4>4 DEF JobsTypes
        <5>2. /\ done' \in [ModuleJobIds -> 0..JobItems]
              /\ batch' \in [ModuleJobIds -> 0..JobItems + 1]
          BY <2>2, <4>4, <4>5, JobsAssumption DEF JobsTypes
        <5>3. QED
          BY <2>1, <2>2, <4>4, <5>1, <5>2 DEF JobsTypes
      <4>7. ASSUME NEW k \in ModuleJobIds PROVE JobFits(k)'
        <5>1. CASE k = j
          <6>1. JobItems + 1 >= 1 /\ ~(JobItems + 1 <= JobItems)
            BY JobsAssumption
          <6>2. StageFits(j)' /\ OneWorker(j)'
            BY <2>1, <2>2, <2>3, <4>2, <4>4, <4>5, <6>1
               DEF StageFits, OneWorker, JobFits, ModJobs!Final
          <6>3. DoneCounts(j)'
            BY <4>2, <4>5, ItemsAreFinite DEF DoneCounts
          <6>4. QED
            BY <2>1, <2>2, <4>4, <5>1, <6>2, <6>3 DEF JobFits
        <5>2. CASE k # j
          BY <2>1, <4>4, <4>5, <5>2, OtherFits
        <5>3. QED
          BY <5>1, <5>2
      <4>8. ModJobs!NothingIsLeftUnsent' /\ ModJobs!OnlyTheRevokedThrow'
        BY <2>1, <4>4 DEF JobsInv, ModJobs!NothingIsLeftUnsent, ModJobs!OnlyTheRevokedThrow
      <4>9. QED
        BY <4>6, <4>7, <4>8 DEF JobsInv
    <3>7. QED
      BY <3>5, <3>6
  <2>6. QED
    BY <2>4, <2>5
<1>3. QED
  BY <1>1, <1>2

\* A batch that throws makes every item an error.
LEMMA BatchThrowsKeeps ==
  ASSUME JobsInv, ~fatal, NEW j \in ModuleJobIds, ModJobs!BatchThrows(j)
  PROVE  JobsInv'
<1>1. CASE ModJobs!EndsRevoked(j)
  BY <1>1, EndsRevokedKeeps DEF ModJobs!BatchThrows
<1>2. CASE ~ModJobs!EndsRevoked(j)
  <2> DEFINE its == [i \in ModJobs!Items |-> "error"]
  <2>1. /\ ModJobs!Runs(j) /\ batch[j] \in ModJobs!Items /\ ~revoked
        /\ UNCHANGED <<shape, waiter, revoked, fatal>> /\ ModJobs!Finish(j, its)
    BY <1>2 DEF ModJobs!BatchThrows
  <2>2. JobFits(j) /\ stage[j] = "live"
    BY <2>1 DEF JobsInv, ModJobs!Runs, JobFits
  <2>3. \A i \in ModJobs!Items : item[j][i] = "pending"
    BY <2>1, <2>2, JobsAssumption DEF JobFits, StageFits, ModJobs!Items
  <2>4. its \in [ModJobs!Items -> Statuses]
    BY DEF Statuses, ModJobs!Final
  <2>5. \A i \in ModJobs!Items :
          /\ its[i] \in ModJobs!Final \cup {"pending"}
          /\ its[i] # item[j][i] => item[j][i] \notin ModJobs!Final /\ its[i] \in ModJobs!Final
    BY <2>3 DEF ModJobs!Final
  <2> HIDE DEF its
  <2>6. QED
    BY <2>1, <2>4, <2>5, FinishKeeps
<1>3. QED
  BY <1>1, <1>2

\* The machines have been read again after the last batch.
LEMMA RefreshedKeeps ==
  ASSUME JobsInv, ~fatal, NEW j \in ModuleJobIds, ModJobs!Refreshed(j)
  PROVE  JobsInv'
<1>1. CASE ModJobs!EndsRevoked(j)
  BY <1>1, EndsRevokedKeeps DEF ModJobs!Refreshed
<1>2. CASE ~ModJobs!EndsRevoked(j)
  <2>1. /\ ModJobs!Runs(j) /\ batch[j] = JobItems + 1 /\ ~revoked
        /\ UNCHANGED <<shape, waiter, revoked, fatal>> /\ ModJobs!Finish(j, item[j])
    BY <1>2 DEF ModJobs!Refreshed
  <2>2. JobsTypes /\ JobFits(j) /\ stage[j] = "live"
    BY <2>1 DEF JobsInv, ModJobs!Runs, JobFits
  <2>3. \A i \in ModJobs!Items : item[j][i] \in ModJobs!Final
    BY <2>1, <2>2, JobsAssumption DEF JobFits, StageFits
  <2>4. item[j] \in [ModJobs!Items -> Statuses]
    BY <2>2 DEF JobsTypes
  <2>5. QED
    BY <2>1, <2>3, <2>4, FinishKeeps
<1>3. QED
  BY <1>1, <1>2

\* start() shows a new job, with its first items at work.
LEMMA StartKeeps ==
  ASSUME JobsInv, NEW j \in ModuleJobIds, ModJobs!Start(j)
  PROVE  JobsInv'
<1> DEFINE its == [i \in ModJobs!Items |->
                     IF i = 1 \/ (shape.wide /\ i = 2) THEN "running" ELSE "pending"]
           fleets == shape.engine = "fleet"
<1>1. /\ stage[j] = "idle" /\ ~revoked /\ stage' = [stage EXCEPT ![j] = "live"]
      /\ UNCHANGED <<shape, done, cancelling, revoked, fatal>>
      /\ fleets => batch' = [batch EXCEPT ![j] = 1] /\ UNCHANGED item
      /\ ~fleets => item' = [item EXCEPT ![j] = its] /\ UNCHANGED batch
  BY DEF ModJobs!Start
<1>2. unsent' = emitTimer' /\ emitTimer' \in BOOLEAN
  <2>1. ModJobs!EmitNow \/ ModJobs!EmitLater
    BY DEF ModJobs!Start
  <2>2. QED
    BY <2>1 DEF ModJobs!EmitNow, ModJobs!EmitLater
<1>3. PICK polls \in {FALSE, shape.engine = "container"} :
        waiter' = [waiter EXCEPT ![j] = IF polls THEN "polling" ELSE "none"]
  BY DEF ModJobs!Start
<1>4. JobsTypes /\ JobFits(j)
  BY DEF JobsInv
<1>5. its \in [ModJobs!Items -> Statuses]
  BY DEF Statuses
<1>6. /\ fleets => item'[j] = item[j] /\ batch'[j] = 1
      /\ ~fleets => item'[j] = its /\ batch'[j] = batch[j]
      /\ \A k \in ModuleJobIds : k # j => /\ item'[k] = item[k] /\ batch'[k] = batch[k]
                                          /\ stage'[k] = stage[k] /\ waiter'[k] = waiter[k]
      /\ stage'[j] = "live"
  BY <1>1, <1>3, <1>4 DEF JobsTypes
<1>7. waiter' \in [ModuleJobIds -> {"none", "polling", "done"}]
      /\ (waiter'[j] = "polling" => shape.engine = "container")
  BY <1>3, <1>4 DEF JobsTypes
<1>8. JobsTypes'
  <2>1. item' \in [ModuleJobIds -> [ModJobs!Items -> Statuses]]
    BY <1>1, <1>4, <1>5 DEF JobsTypes
  <2>2. batch' \in [ModuleJobIds -> 0..JobItems + 1]
    BY <1>1, <1>4, JobsAssumption DEF JobsTypes
  <2>3. QED
    BY <1>1, <1>2, <1>4, <1>7, <2>1, <2>2 DEF JobsTypes
<1>9. done[j] = 0 /\ batch[j] = 0 /\ \A i \in ModJobs!Items : item[j][i] = "pending"
  BY <1>1, <1>4 DEF JobFits, StageFits
<1>10. \A i \in ModJobs!Items : item'[j][i] \in {"pending", "running"}
  BY <1>6, <1>9
<1>11. DoneCounts(j)'
  <2>1. \A i \in ModJobs!Items : item'[j][i] \notin ModJobs!Final
    BY <1>10 DEF ModJobs!Final
  <2>2. Ended(item'[j]) = {}
    BY <2>1 DEF Ended
  <2>3. QED
    BY <1>1, <1>6, <1>9, <2>2, FS_EmptySet DEF DoneCounts
<1>12. OneWorker(j)'
  <2>1. CASE fleets
    BY <1>6, <1>9, <2>1 DEF OneWorker
  <2>2. CASE ~fleets
    BY <1>1, <1>6, <2>2 DEF OneWorker
  <2>3. QED
    BY <2>1, <2>2
<1> HIDE DEF its
<1>13. StageFits(j)'
  <2>1. 1 # JobItems + 1 /\ 1 <= JobItems
    BY JobsAssumption
  <2>2. CASE fleets
    BY <1>1, <1>6, <1>9, <2>1, <2>2 DEF StageFits
  <2>3. CASE ~fleets
    BY <1>1, <1>6, <1>9, <2>3 DEF StageFits
  <2>4. QED
    BY <2>2, <2>3
<1>14. ASSUME NEW k \in ModuleJobIds PROVE JobFits(k)'
  <2>1. CASE k = j
    BY <1>1, <1>6, <1>7, <1>11, <1>12, <1>13, <2>1 DEF JobFits
  <2>2. CASE k # j
    BY <1>1, <1>6, <2>2, OtherFits
  <2>3. QED
    BY <2>1, <2>2
<1>15. ModJobs!NothingIsLeftUnsent' /\ ModJobs!OnlyTheRevokedThrow'
  BY <1>1, <1>2 DEF JobsInv, ModJobs!NothingIsLeftUnsent, ModJobs!OnlyTheRevokedThrow
<1>16. QED
  BY <1>8, <1>14, <1>15 DEF JobsInv

\* cancel(), the poll of who waits and the timer change no record.
LEMMA CallsOnJobsKeep ==
  ASSUME JobsInv, ~fatal,
         \/ ModJobs!TimerFires
         \/ \E j \in ModuleJobIds : ModJobs!Cancel(j) \/ ModJobs!Poll(j)
  PROVE  JobsInv'
<1>1. UNCHANGED <<shape, stage, item, done, batch, revoked>> /\ JobsTypes
  BY DEF JobsInv, ModJobs!TimerFires, ModJobs!Cancel, ModJobs!Poll
<1>2. cancelling' \subseteq ModuleJobIds
  BY DEF JobsInv, JobsTypes, ModJobs!TimerFires, ModJobs!Cancel, ModJobs!Poll
<1>3. \/ UNCHANGED <<emitTimer, unsent>>
      \/ emitTimer' = FALSE /\ unsent' = FALSE
  BY DEF ModJobs!TimerFires, ModJobs!Cancel, ModJobs!Poll, ModJobs!EmitNow
<1>4. /\ waiter' \in [ModuleJobIds -> {"none", "polling", "done"}]
      /\ \A k \in ModuleJobIds : waiter'[k] = "polling" => waiter[k] = "polling"
  BY <1>1 DEF JobsTypes, ModJobs!TimerFires, ModJobs!Cancel, ModJobs!Poll
<1>5. \/ UNCHANGED fatal
      \/ fatal' = TRUE /\ revoked /\ \E j \in ModuleJobIds : waiter[j] = "polling"
  BY DEF ModJobs!TimerFires, ModJobs!Cancel, ModJobs!Poll
<1>6. JobsTypes'
  <2>1. emitTimer' \in BOOLEAN /\ unsent' \in BOOLEAN /\ fatal' \in BOOLEAN
    BY <1>1, <1>3, <1>5 DEF JobsTypes
  <2>2. QED
    BY <1>1, <1>2, <1>4, <2>1 DEF JobsTypes
<1>7. ASSUME NEW k \in ModuleJobIds PROVE JobFits(k)'
  <2>1. JobFits(k)
    BY DEF JobsInv
  <2>2. StageFits(k)' /\ OneWorker(k)'
    BY <1>1, <2>1 DEF JobFits, StageFits, OneWorker
  <2>3. DoneCounts(k)'
    BY <1>1, <2>1 DEF JobFits, DoneCounts
  <2>4. QED
    BY <1>1, <1>4, <2>1, <2>2, <2>3 DEF JobFits
<1>8. ModJobs!OnlyTheRevokedThrow'
  BY <1>1, <1>5 DEF JobsInv, JobFits, ModJobs!OnlyTheRevokedThrow
<1>9. ModJobs!NothingIsLeftUnsent'
  BY <1>1, <1>3 DEF JobsInv, ModJobs!NothingIsLeftUnsent, ModJobs!In
<1>10. QED
  BY <1>6, <1>7, <1>8, <1>9 DEF JobsInv

\* clearFinished() and dispose() change the stages alone.
LEMMA StagesKeep ==
  ASSUME JobsInv, ModJobs!ClearFinished \/ ModJobs!Dispose
  PROVE  JobsInv'
<1>1. /\ UNCHANGED <<shape, item, done, batch, waiter, fatal>> /\ JobsTypes
      /\ ~revoked /\ revoked' \in BOOLEAN
      /\ emitTimer' = FALSE /\ (unsent' = FALSE \/ (revoked' /\ unsent' = unsent))
  BY DEF JobsInv, JobsTypes, ModJobs!ClearFinished, ModJobs!Dispose, ModJobs!EmitNow
<1>2. cancelling' \subseteq ModuleJobIds
  BY <1>1 DEF JobsTypes, ModJobs!ClearFinished, ModJobs!Dispose
<1>3. /\ stage' \in [ModuleJobIds -> {"idle", "live", "detached", "ended", "cleared", "gone"}]
      /\ \A k \in ModuleJobIds : \/ stage'[k] = stage[k] /\ (stage[k] = "live" => ~revoked')
                                 \/ stage[k] = "ended" /\ stage'[k] = "cleared"
                                 \/ stage'[k] = "detached" /\ revoked'
  BY <1>1 DEF JobsTypes, ModJobs!ClearFinished, ModJobs!Dispose
<1>4. JobsTypes'
  BY <1>1, <1>2, <1>3 DEF JobsTypes
<1>5. ASSUME NEW k \in ModuleJobIds PROVE JobFits(k)'
  <2>1. JobFits(k)
    BY DEF JobsInv
  <2>2. StageFits(k)' /\ OneWorker(k)'
    BY <1>1, <1>3, <2>1 DEF JobFits, StageFits, OneWorker
  <2>3. DoneCounts(k)'
    BY <1>1, <1>3, <2>1 DEF JobFits, DoneCounts
  <2>4. stage'[k] = "detached" => revoked'
    BY <1>1, <1>3, <2>1 DEF JobFits
  <2>5. QED
    BY <1>1, <2>1, <2>2, <2>3, <2>4 DEF JobFits
<1>6. ModJobs!NothingIsLeftUnsent' /\ ModJobs!OnlyTheRevokedThrow'
  BY <1>1 DEF JobsInv, ModJobs!NothingIsLeftUnsent, ModJobs!OnlyTheRevokedThrow
<1>7. QED
  BY <1>4, <1>5, <1>6 DEF JobsInv

\* Every step of the jobs keeps their invariant.
LEMMA JobsStep ==
  ASSUME JobsInv, [ModJobs!Next]_(ModJobs!vars)
  PROVE  JobsInv'
<1>1. CASE UNCHANGED ModJobs!vars
  <2>1. UNCHANGED <<shape, stage, item, done, batch, cancelling, waiter, revoked, emitTimer,
                    unsent, fatal>>
    BY <1>1 DEF ModJobs!vars
  <2>2. JobsTypes'
    BY <2>1 DEF JobsInv, JobsTypes
  <2>3. \A k \in ModuleJobIds : JobFits(k)'
    BY <2>1, OtherFits
  <2>4. QED
    BY <2>1, <2>2, <2>3
       DEF JobsInv, ModJobs!OnlyTheRevokedThrow, ModJobs!NothingIsLeftUnsent, ModJobs!In
<1>2. CASE ModJobs!Next
  BY <1>2, StartKeeps, CallsOnJobsKeep, StagesKeep, ItemEndsKeeps, BatchAnswersKeeps,
     BatchThrowsKeeps, RefreshedKeeps DEF ModJobs!Next
<1>3. QED
  BY <1>1, <1>2

\* The invariant implies what is checked of the jobs.
LEMMA JobsInvTells == JobsInv => ModJobs!TypeOK /\ ModJobs!JobsAreTold
<1> SUFFICES ASSUME JobsInv PROVE ModJobs!TypeOK /\ ModJobs!JobsAreTold
  OBVIOUS
<1>1. ModJobs!TypeOK
  BY DEF JobsInv, JobsTypes, ModJobs!TypeOK, Statuses
<1>2. ModJobs!JobsAreWhole
  <2>1. ASSUME NEW j \in ModuleJobIds
        PROVE  /\ stage[j] = "live" =>
                    done[j] = Cardinality({i \in ModJobs!Items : item[j][i] \in ModJobs!Final})
               /\ stage[j] \in {"ended", "cleared"} =>
                    /\ done[j] = JobItems
                    /\ \A i \in ModJobs!Items : item[j][i] \in ModJobs!Final
    BY DEF JobsInv, JobFits, DoneCounts, Ended
  <2>2. QED
    BY <2>1, CountsAgree DEF ModJobs!JobsAreWhole
<1>3. QED
  BY <1>1, <1>2 DEF JobsInv, ModJobs!JobsAreTold

\* No job has been started.
LEMMA JobsInit == AllInit => JobsInv
<1> SUFFICES ASSUME AllInit PROVE JobsInv
  OBVIOUS
<1>1. PICK s \in ModJobs!Shapes : ModJobs!InitWith(s)
  <2>1. [engine |-> "fleet", wide |-> FALSE, abort |-> FALSE] \in ModJobs!Shapes
    BY DEF ModJobs!Shapes
  <2>2. QED
    BY <2>1 DEF AllInit, ModJobs!Init
<1>2. JobsTypes
  <2>1. 0 \in 0..JobItems /\ 0 \in 0..JobItems + 1
    BY JobsAssumption
  <2>2. shape \in ModJobs!Shapes
    BY <1>1 DEF ModJobs!InitWith
  <2>3. /\ item \in [ModuleJobIds -> [ModJobs!Items -> Statuses]]
        /\ stage \in [ModuleJobIds -> {"idle", "live", "detached", "ended", "cleared", "gone"}]
    BY <1>1 DEF ModJobs!InitWith, Statuses
  <2>4. /\ done \in [ModuleJobIds -> 0..JobItems]
        /\ batch \in [ModuleJobIds -> 0..JobItems + 1]
        /\ waiter \in [ModuleJobIds -> {"none", "polling", "done"}]
    BY <1>1, <2>1 DEF ModJobs!InitWith
  <2>5. /\ cancelling \subseteq ModuleJobIds
        /\ revoked \in BOOLEAN /\ emitTimer \in BOOLEAN
        /\ unsent \in BOOLEAN /\ fatal \in BOOLEAN
    BY <1>1 DEF ModJobs!InitWith
  <2>6. QED
    BY <2>2, <2>3, <2>4, <2>5 DEF JobsTypes
<1>3. ASSUME NEW k \in ModuleJobIds PROVE JobFits(k)
  BY <1>1 DEF ModJobs!InitWith, JobFits, StageFits, OneWorker, DoneCounts
<1>4. QED
  BY <1>1, <1>2, <1>3
     DEF ModJobs!InitWith, JobsInv, ModJobs!OnlyTheRevokedThrow, ModJobs!NothingIsLeftUnsent

-----------------------------------------------------------------------------
(***************************************************************************)
(* The sweeps of a fleet.                                                  *)
(***************************************************************************)

\* Answers to some of the addresses.
Reports == UNION {[S -> Sweeper!Answers] : S \in SUBSET FleetIps}

\* A sweep asks something, and reports of nothing else.
FleetSweeps ==
  {s \in [plan : (SUBSET FleetIps) \ {{}}, rest : SUBSET FleetIps,
          batch : Reports, got : Reports] :
     /\ s.rest \subseteq s.plan
     /\ DOMAIN s.batch \subseteq s.plan /\ DOMAIN s.got \subseteq s.plan}

\* A machine that is read again, after its answer or after a probe.
Readings == [ip : FleetIps, answer : Sweeper!Answers, probe : BOOLEAN]

Fleets ==
  [stopped : BOOLEAN, applied : Sweeper!Intervals, polling : Sweeper!Intervals,
   caps : {"unknown", "ok", "missing"}, probes : SUBSET (Sweeper!Intervals \cup {Sweeper!Now}),
   sweep : FleetSweeps \cup {Sweeper!NoSweep}, cancel : BOOLEAN, asked : BOOLEAN,
   status : {"idle", "running", "cancelled", "error"},
   live : Sweeper!Cards, latest : Sweeper!Cards \cup {<<>>}, whole : SUBSET FleetIps,
   refreshing : SUBSET Readings,
   hosts : Sweeper!Records, disk : Sweeper!Records, behind : BOOLEAN]

\* The parts of FleetAgrees, of an instance in the middle of a function as well.
CardsOf(f) ==
  \A ip \in FleetIps : f.live[ip] # Sweeper!NoCard => f.live[ip].reach = f.hosts[ip]
KeptOf(f) == \A ip \in f.whole : f.hosts[ip] # "none" => f.live[ip] # Sweeper!NoCard
DiskOf(f) == ~f.behind => f.disk = f.hosts
CancelOf(f) == (f.sweep # Sweeper!NoSweep /\ f.cancel) \/ f.status = "cancelled" => f.asked
StatusOf(f) == f.status = "running" <=> f.sweep # Sweeper!NoSweep
Sound(f) == f \in Fleets /\ CardsOf(f) /\ KeptOf(f) /\ DiskOf(f) /\ CancelOf(f) /\ StatusOf(f)

\* An acknowledged action was begun, and beginning it has cost a change.
ActionsCost ==
  /\ orders \in [FleetIps -> Nat] /\ doing \subseteq FleetIps /\ calls \in 0..FleetChanges
  /\ \A ip \in FleetIps : orders[ip] + (IF ip \in doing THEN 1 ELSE 0) <= calls

FleetInv ==
  /\ Sound(fleet) /\ rules \subseteq FleetIps /\ world \in [FleetIps -> Sweeper!Reaches]
  /\ ActionsCost

\* What a report says of its addresses are answers, and such a function is a report.
LEMMA ReportsAnswer ==
  /\ \A r \in Reports :
       DOMAIN r \subseteq FleetIps /\ \A ip \in DOMAIN r : r[ip] \in Sweeper!Answers
  /\ \A S \in SUBSET FleetIps : \A r \in [S -> Sweeper!Answers] : r \in Reports
  /\ <<>> \in Reports /\ DOMAIN <<>> = {}
<1>1. <<>> \in [{} -> Sweeper!Answers] /\ DOMAIN <<>> = {}
  OBVIOUS
<1>2. QED
  BY <1>1 DEF Reports

\* A card is none or that of an answer, and a sweep is none or asks something.
LEMMA NothingIsNothing ==
  /\ Sweeper!NoCard \notin Sweeper!Answers /\ Sweeper!NoCard.reach = "none"
  /\ \A answer \in Sweeper!Answers : answer.reach \in Sweeper!Reaches /\ answer.reach # "none"
  /\ Sweeper!NoSweep \notin FleetSweeps
<1>1. \A answer \in Sweeper!Answers : answer.reach \in Sweeper!Reaches /\ answer.reach # "none"
  BY DEF Sweeper!Answers, Sweeper!Reaches
<1>2. Sweeper!NoCard.reach = "none"
  BY DEF Sweeper!NoCard
<1>3. Sweeper!NoSweep.plan = {} /\ \A s \in FleetSweeps : s.plan # {}
  BY DEF Sweeper!NoSweep, FleetSweeps
<1>4. QED
  BY <1>1, <1>2, <1>3

\* What mergeInto() and the write come to.
Merged(f, cards, entries, fails, hosts, live, onDisk, behind) ==
  /\ Sweeper!Merge(f, cards, entries, fails) =
       [f EXCEPT !.hosts = hosts, !.live = live, !.disk = onDisk, !.behind = behind]
  /\ \A ip \in FleetIps : live[ip] # Sweeper!NoCard => live[ip].reach = hosts[ip]
  /\ ~behind => onDisk = hosts
  /\ \A ip \in DOMAIN entries : hosts[ip] # "none" => live[ip] # Sweeper!NoCard
  /\ \A ip \in FleetIps \ DOMAIN entries : hosts[ip] = f.hosts[ip] /\ live[ip] = cards[ip]

\* mergeInto(): where the cards agreed with the records they still do, what is not on the
\* disk is known not to be, and whatever was asked and has a record has a card.
LEMMA MergeFits ==
  ASSUME NEW f \in Fleets, NEW cards \in Sweeper!Cards, NEW entries \in Reports,
         NEW fails \in BOOLEAN, DiskOf(f),
         \A ip \in FleetIps : cards[ip] # Sweeper!NoCard => cards[ip].reach = f.hosts[ip]
  PROVE  \E hosts \in Sweeper!Records, live \in Sweeper!Cards, onDisk \in Sweeper!Records,
            behind \in BOOLEAN : Merged(f, cards, entries, fails, hosts, live, onDisk, behind)
<1> DEFINE earned == {ip \in DOMAIN entries : Sweeper!Earns(f, ip, entries[ip])}
           hosts == [ip \in FleetIps |->
                       IF ip \in earned THEN entries[ip].reach ELSE f.hosts[ip]]
           live == [ip \in FleetIps |-> IF ip \in earned THEN entries[ip] ELSE cards[ip]]
           merged == [f EXCEPT !.hosts = hosts, !.live = live]
           dirty == Sweeper!Dirty(f, entries)
<1>1. /\ DOMAIN entries \subseteq FleetIps
      /\ \A ip \in DOMAIN entries : entries[ip] \in Sweeper!Answers
  BY ReportsAnswer
<1>2. f.hosts \in Sweeper!Records /\ f.disk \in Sweeper!Records /\ f.behind \in BOOLEAN
  BY DEF Fleets
<1>3. hosts \in Sweeper!Records
  BY <1>1, <1>2, NothingIsNothing DEF Sweeper!Records
<1>4. live \in Sweeper!Cards
  BY <1>1 DEF Sweeper!Cards
<1>5. \A ip \in FleetIps : live[ip] # Sweeper!NoCard => live[ip].reach = hosts[ip]
  OBVIOUS
<1>6. \A ip \in DOMAIN entries : hosts[ip] # "none" => live[ip] # Sweeper!NoCard
  <2>1. SUFFICES ASSUME NEW ip \in DOMAIN entries, ip \notin earned PROVE hosts[ip] = "none"
    BY <1>1, NothingIsNothing
  <2>2. f.hosts[ip] = "none"
    BY <2>1 DEF Sweeper!Earns
  <2>3. QED
    BY <1>1, <2>1, <2>2
<1>7. \A ip \in FleetIps \ DOMAIN entries : hosts[ip] = f.hosts[ip] /\ live[ip] = cards[ip]
  OBVIOUS
<1>8. Sweeper!Merge(f, cards, entries, fails) =
        IF dirty THEN Sweeper!Persist(merged, fails) ELSE merged
  BY DEF Sweeper!Merge
<1>9. ~dirty => hosts = f.hosts
  <2>1. SUFFICES ASSUME ~dirty, NEW ip \in earned PROVE entries[ip].reach = f.hosts[ip]
    BY <1>2 DEF Sweeper!Records
  <2>2. QED
    BY <2>1 DEF Sweeper!Dirty
<1> HIDE DEF hosts, live, dirty, earned
<1>10. CASE ~dirty
  <2>1. Sweeper!Merge(f, cards, entries, fails) =
          [f EXCEPT !.hosts = hosts, !.live = live, !.disk = f.disk, !.behind = f.behind]
    BY ZenonT(30), <1>8, <1>10 DEF Fleets
  <2>2. ~f.behind => f.disk = hosts
    BY <1>9, <1>10 DEF DiskOf
  <2>3. Merged(f, cards, entries, fails, hosts, live, f.disk, f.behind)
    BY <1>5, <1>6, <1>7, <2>1, <2>2 DEF Merged
  <2>4. QED
    BY <1>2, <1>3, <1>4, <2>3
<1>11. CASE dirty /\ fails
  <2>1. Sweeper!Merge(f, cards, entries, fails) =
          [f EXCEPT !.hosts = hosts, !.live = live, !.disk = f.disk, !.behind = TRUE]
    BY <1>8, <1>11 DEF Fleets, Sweeper!Persist
  <2>2. Merged(f, cards, entries, fails, hosts, live, f.disk, TRUE)
    BY <1>5, <1>6, <1>7, <2>1 DEF Merged
  <2>3. QED
    BY <1>2, <1>3, <1>4, <2>2
<1>12. CASE dirty /\ ~fails
  <2>1. Sweeper!Merge(f, cards, entries, fails) =
          [f EXCEPT !.hosts = hosts, !.live = live, !.disk = hosts, !.behind = FALSE]
    BY <1>8, <1>12 DEF Fleets, Sweeper!Persist
  <2>2. Merged(f, cards, entries, fails, hosts, live, hosts, FALSE)
    BY <1>5, <1>6, <1>7, <2>1 DEF Merged
  <2>3. QED
    BY <1>3, <1>4, <2>2
<1>13. QED
  BY <1>10, <1>11, <1>12

\* Publishing shows what is there.
LEMMA PublishIsSound == ASSUME NEW f, Sound(f) PROVE Sound(Sweeper!PublishCards(f))
<1> DEFINE g == Sweeper!PublishCards(f)
<1>1. f \in Fleets
  BY DEF Sound
<1>2. g = [f EXCEPT !.latest = f.live]
  BY DEF Sweeper!PublishCards
<1>3. g \in Fleets
  BY <1>1, <1>2 DEF Fleets
<1>4. /\ g.live = f.live /\ g.hosts = f.hosts /\ g.whole = f.whole /\ g.behind = f.behind
      /\ g.disk = f.disk /\ g.sweep = f.sweep /\ g.cancel = f.cancel /\ g.status = f.status
      /\ g.asked = f.asked
  BY <1>1, <1>2 DEF Fleets
<1> HIDE DEF g
<1>5. Sound(g)
  BY <1>3, <1>4 DEF Sound, CardsOf, KeptOf, DiskOf, CancelOf, StatusOf
<1>6. QED
  BY <1>5 DEF g

\* The end of a sweep: it was cut short only if somebody asked for that.
LEMMA ConcludeIsSound ==
  ASSUME NEW f, Sound(f), f.sweep # Sweeper!NoSweep,
         NEW s \in FleetSweeps, NEW fails \in BOOLEAN
  PROVE  Sound(Sweeper!Conclude(f, s, fails))
<1> DEFINE none == [ip \in FleetIps |-> Sweeper!NoCard]
<1>1. f \in Fleets /\ DiskOf(f) /\ (f.cancel => f.asked)
  BY DEF Sound, CancelOf
<1>2. s.got \in Reports /\ s.plan \in SUBSET FleetIps /\ DOMAIN s.got \subseteq s.plan
  BY DEF FleetSweeps
<1>3. none \in Sweeper!Cards
  BY DEF Sweeper!Cards
<1>4. PICK hosts \in Sweeper!Records, live \in Sweeper!Cards, onDisk \in Sweeper!Records,
           behind \in BOOLEAN : Merged(f, none, s.got, fails, hosts, live, onDisk, behind)
  <2>1. \A ip \in FleetIps : none[ip] # Sweeper!NoCard => none[ip].reach = f.hosts[ip]
    OBVIOUS
  <2> HIDE DEF none
  <2>2. QED
    BY <1>1, <1>2, <1>3, <2>1, MergeFits
<1> DEFINE asks == IF DOMAIN s.got = s.plan THEN s.plan ELSE {}
           how == IF f.cancel THEN "cancelled" ELSE "idle"
           g == [f EXCEPT !.hosts = hosts, !.live = live, !.disk = onDisk, !.behind = behind,
                          !.sweep = Sweeper!NoSweep, !.cancel = FALSE, !.status = how,
                          !.whole = asks]
<1>5. Sweeper!Conclude(f, s, fails) = Sweeper!PublishCards(g)
  <2> DEFINE m == [f EXCEPT !.hosts = hosts, !.live = live, !.disk = onDisk, !.behind = behind]
  <2>1. Sweeper!Merge(f, Sweeper!NoCards, s.got, fails) = m
    BY <1>4 DEF Merged, Sweeper!NoCards
  <2>2. g = [m EXCEPT !.sweep = Sweeper!NoSweep, !.cancel = FALSE,
                      !.status = how, !.whole = asks]
    BY <1>1 DEF Fleets
  <2> HIDE DEF m, g
  <2>3. QED
    BY <2>1, <2>2 DEF Sweeper!Conclude
<1>6. /\ asks \in SUBSET FleetIps /\ (asks # {} => asks = DOMAIN s.got)
      /\ how \in {"idle", "cancelled"} /\ (how = "cancelled" => f.asked)
  BY <1>1, <1>2
<1> HIDE DEF asks, how
<1>7. g \in Fleets
  BY <1>1, <1>6 DEF Fleets
<1>8. /\ g.live = live /\ g.hosts = hosts /\ g.disk = onDisk /\ g.behind = behind
      /\ g.sweep = Sweeper!NoSweep /\ g.status = how /\ g.whole = asks /\ g.asked = f.asked
  BY <1>1 DEF Fleets
<1> HIDE DEF g
<1>9. CardsOf(g) /\ KeptOf(g) /\ DiskOf(g)
  BY <1>4, <1>6, <1>8 DEF Merged, CardsOf, KeptOf, DiskOf
<1>10. CancelOf(g) /\ StatusOf(g)
  BY <1>6, <1>8 DEF CancelOf, StatusOf
<1>11. QED
  BY <1>5, <1>7, <1>9, <1>10, PublishIsSound DEF Sound

\* The world answers with what has been acknowledged.
AnswersFit ==
  /\ world \in [FleetIps -> Sweeper!Reaches]
  /\ orders \in [FleetIps -> Nat] /\ \A ip \in FleetIps : orders[ip] <= FleetChanges

\* What comes from an address, or from nowhere, is an answer.
LEMMA AnswerIsOne ==
  ASSUME AnswersFit
  PROVE  /\ \A ip \in FleetIps : Sweeper!Answer(ip) \in Sweeper!Answers
         /\ Sweeper!Unanswered \in Sweeper!Answers
BY FleetAssumption
   DEF AnswersFit, Sweeper!Answer, Sweeper!Answers, Sweeper!Unanswered, Sweeper!Reaches

\* The loop of runFanout() goes on with addresses that are still to be asked, or ends.
LEMMA NextBatchIsSound ==
  ASSUME AnswersFit, NEW f, Sound(f), f.sweep # Sweeper!NoSweep, NEW s \in FleetSweeps,
         NEW fails \in BOOLEAN
  PROVE  Sound(Sweeper!NextBatch(f, s, fails))
<1>1. CASE s.rest = {} \/ f.cancel
  <2>1. Sweeper!NextBatch(f, s, fails) = Sweeper!Conclude(f, s, fails)
    BY <1>1 DEF Sweeper!NextBatch
  <2>2. QED
    BY <2>1, ConcludeIsSound
<1>2. CASE ~(s.rest = {} \/ f.cancel)
  <2> DEFINE first == {ip \in s.rest :
                         Sweeper!Cardinality({j \in s.rest : j < ip}) < FleetBatch}
             asked == [ip \in first |-> Sweeper!Answer(ip)]
             next == [s EXCEPT !.rest = @ \ first, !.batch = asked]
             g == [f EXCEPT !.sweep = next]
  <2>1. Sweeper!NextBatch(f, s, fails) = g
    BY <1>2 DEF Sweeper!NextBatch
  <2>2. /\ s.plan \in (SUBSET FleetIps) \ {{}} /\ s.rest \subseteq s.plan /\ s.got \in Reports
        /\ DOMAIN s.got \subseteq s.plan
        /\ s = [plan |-> s.plan, rest |-> s.rest, batch |-> s.batch, got |-> s.got]
    BY DEF FleetSweeps
  <2>3. first \subseteq s.rest
    OBVIOUS
  <2> HIDE DEF first
  <2>4. asked \in Reports /\ DOMAIN asked = first
    <3>1. asked \in [first -> Sweeper!Answers]
      BY <2>2, <2>3, AnswerIsOne
    <3>2. QED
      BY <2>2, <2>3, <3>1, ReportsAnswer
  <2> HIDE DEF asked
  <2>5. next \in [plan : (SUBSET FleetIps) \ {{}}, rest : SUBSET FleetIps, batch : Reports,
                  got : Reports]
    BY <2>2, <2>3, <2>4 DEF FleetSweeps
  <2>6. next \in FleetSweeps
    <3>1. /\ next.plan = s.plan /\ next.rest = s.rest \ first /\ next.batch = asked
          /\ next.got = s.got
      BY DEF FleetSweeps
    <3>2. QED
      BY <2>2, <2>3, <2>4, <2>5, <3>1 DEF FleetSweeps
  <2> HIDE DEF next
  <2>7. f \in Fleets
    BY DEF Sound
  <2>8. g \in Fleets
    BY <2>6, <2>7 DEF Fleets
  <2>9. /\ g.live = f.live /\ g.hosts = f.hosts /\ g.whole = f.whole /\ g.behind = f.behind
        /\ g.disk = f.disk /\ g.sweep = next /\ g.cancel = f.cancel /\ g.status = f.status
        /\ g.asked = f.asked
    BY <2>7 DEF Fleets
  <2>10. next # Sweeper!NoSweep
    BY <2>6, NothingIsNothing
  <2> HIDE DEF g
  <2>11. Sound(g)
    BY <2>8, <2>9, <2>10 DEF Sound, CardsOf, KeptOf, DiskOf, CancelOf, StatusOf
  <2>12. QED
    BY <2>1, <2>11
<1>3. QED
  BY <1>1, <1>2

\* A sweep that starts is not cancelled, whatever the last one was.
LEMMA RunIsSound ==
  ASSUME AnswersFit, rules \subseteq FleetIps, NEW f, Sound(f)
  PROVE  Sound(Sweeper!Run(f))
<1>0. f \in Fleets
  BY DEF Sound
<1>1. CASE f.sweep # Sweeper!NoSweep \/ f.stopped
  BY <1>1 DEF Sweeper!Run
<1>2. CASE f.sweep = Sweeper!NoSweep /\ ~f.stopped /\ f.caps # "ok"
  <2> DEFINE g == [f EXCEPT !.status = "error"]
  <2>1. Sweeper!Run(f) = g
    BY <1>2 DEF Sweeper!Run
  <2>2. g \in Fleets
    BY <1>0 DEF Fleets
  <2>3. /\ g.live = f.live /\ g.hosts = f.hosts /\ g.whole = f.whole /\ g.behind = f.behind
        /\ g.disk = f.disk /\ g.sweep = f.sweep /\ g.cancel = f.cancel /\ g.status = "error"
        /\ g.asked = f.asked
    BY <1>0 DEF Fleets
  <2> HIDE DEF g
  <2>4. Sound(g)
    BY <1>2, <2>2, <2>3 DEF Sound, CardsOf, KeptOf, DiskOf, CancelOf, StatusOf
  <2>5. QED
    BY <2>1, <2>4
<1>3. CASE f.sweep = Sweeper!NoSweep /\ ~f.stopped /\ f.caps = "ok" /\ rules = {}
  <2> DEFINE none == [ip \in FleetIps |-> Sweeper!NoCard]
             g == [f EXCEPT !.live = none, !.status = "idle", !.whole = {}]
  <2>1. Sweeper!Run(f) = Sweeper!PublishCards(g)
    BY <1>3 DEF Sweeper!Run, Sweeper!NoCards
  <2>2. none \in Sweeper!Cards /\ \A ip \in FleetIps : none[ip] = Sweeper!NoCard
    BY DEF Sweeper!Cards
  <2> HIDE DEF none
  <2>3. g \in Fleets
    BY <1>0, <2>2 DEF Fleets
  <2>4. /\ g.live = none /\ g.hosts = f.hosts /\ g.whole = {} /\ g.behind = f.behind
        /\ g.disk = f.disk /\ g.sweep = f.sweep /\ g.cancel = f.cancel /\ g.status = "idle"
        /\ g.asked = f.asked
    BY <1>0 DEF Fleets
  <2> HIDE DEF g
  <2>5. Sound(g)
    BY <1>3, <2>2, <2>3, <2>4 DEF Sound, CardsOf, KeptOf, DiskOf, CancelOf, StatusOf
  <2>6. QED
    BY <2>1, <2>5, PublishIsSound
<1>4. CASE f.sweep = Sweeper!NoSweep /\ ~f.stopped /\ f.caps = "ok" /\ rules # {}
  <2> DEFINE s == [plan |-> rules, rest |-> rules, batch |-> <<>>, got |-> <<>>]
             g == [f EXCEPT !.status = "running", !.cancel = FALSE, !.asked = FALSE,
                            !.sweep = s]
  <2>1. Sweeper!Ask(f) = g
    BY DEF Sweeper!Ask
  <2>2. s \in FleetSweeps /\ s # Sweeper!NoSweep
    <3>1. s \in FleetSweeps
      BY <1>4, ReportsAnswer DEF FleetSweeps
    <3>2. QED
      BY <3>1, NothingIsNothing
  <2> HIDE DEF s
  <2>3. g \in Fleets
    BY <1>0, <2>2 DEF Fleets
  <2>4. /\ g.live = f.live /\ g.hosts = f.hosts /\ g.whole = f.whole /\ g.behind = f.behind
        /\ g.disk = f.disk /\ g.sweep = s /\ g.cancel = FALSE /\ g.status = "running"
        /\ g.asked = FALSE
    BY <1>0 DEF Fleets
  <2>5. Sweeper!Run(f) = Sweeper!NextBatch(Sweeper!Ask(f), Sweeper!Ask(f).sweep, FALSE)
    BY <1>4 DEF Sweeper!Run
  <2> HIDE DEF g
  <2>6. Sound(g)
    BY <2>2, <2>3, <2>4 DEF Sound, CardsOf, KeptOf, DiskOf, CancelOf, StatusOf
  <2>7. Sound(Sweeper!NextBatch(g, s, FALSE))
    BY <2>2, <2>4, <2>6, NextBatchIsSound
  <2>8. QED
    BY <2>1, <2>4, <2>5, <2>7
<1>5. QED
  BY <1>1, <1>2, <1>3, <1>4

\* A machine that is to be read again changes nothing yet.
LEMMA AsidesAreSound ==
  ASSUME NEW f, Sound(f), NEW readings, readings \subseteq Readings
  PROVE  Sound([f EXCEPT !.refreshing = readings])
<1> DEFINE g == [f EXCEPT !.refreshing = readings]
<1>1. f \in Fleets
  BY DEF Sound
<1>2. g \in Fleets
  BY <1>1 DEF Fleets
<1>3. /\ g.live = f.live /\ g.hosts = f.hosts /\ g.whole = f.whole /\ g.behind = f.behind
      /\ g.disk = f.disk /\ g.sweep = f.sweep /\ g.cancel = f.cancel /\ g.status = f.status
      /\ g.asked = f.asked
  BY <1>1 DEF Fleets
<1> HIDE DEF g
<1>4. Sound(g)
  BY <1>2, <1>3 DEF Sound, CardsOf, KeptOf, DiskOf, CancelOf, StatusOf
<1>5. QED
  BY <1>4 DEF g

\* refreshOne() adds at most one reading.
LEMMA RefreshOneIsSound ==
  ASSUME AnswersFit, rules \subseteq FleetIps, NEW f, Sound(f), NEW ip
  PROVE  Sound(Sweeper!RefreshOne(f, ip))
<1>1. CASE f.stopped \/ ip \notin rules
  BY <1>1 DEF Sweeper!RefreshOne
<1>2. CASE ~f.stopped /\ ip \in rules
  <2> DEFINE reading == [ip |-> ip, answer |-> Sweeper!Answer(ip), probe |-> FALSE]
  <2>1. Sweeper!RefreshOne(f, ip) = [f EXCEPT !.refreshing = f.refreshing \cup {reading}]
    BY <1>2 DEF Sweeper!RefreshOne
  <2>2. reading \in Readings
    BY <1>2, AnswerIsOne DEF Readings
  <2>3. f.refreshing \subseteq Readings
    BY DEF Sound, Fleets
  <2> HIDE DEF reading
  <2>4. QED
    BY <2>1, <2>2, <2>3, AsidesAreSound
<1>3. QED
  BY <1>1, <1>2

\* A record is dropped with its card, and what is written is on the disk.
LEMMA DropIsSound ==
  ASSUME NEW f, Sound(f), NEW ips, NEW fails \in BOOLEAN
  PROVE  Sound(Sweeper!Persist(Sweeper!Drop(f, ips), fails))
<1> DEFINE hosts == [ip \in FleetIps |-> IF ip \in ips THEN "none" ELSE f.hosts[ip]]
           live == [ip \in FleetIps |-> IF ip \in ips THEN Sweeper!NoCard ELSE f.live[ip]]
           onDisk == IF fails THEN f.disk ELSE hosts
           g == [f EXCEPT !.hosts = hosts, !.live = live, !.disk = onDisk, !.behind = fails]
<1>1. f \in Fleets
  BY DEF Sound
<1>2. f.hosts \in Sweeper!Records /\ f.live \in Sweeper!Cards /\ f.disk \in Sweeper!Records
      /\ f.whole \subseteq FleetIps
  BY <1>1 DEF Fleets
<1>3. hosts \in Sweeper!Records
  BY <1>2 DEF Sweeper!Records
<1>4. live \in Sweeper!Cards
  BY <1>2 DEF Sweeper!Cards
<1>5. onDisk \in Sweeper!Records /\ (~fails => onDisk = hosts)
  BY <1>2, <1>3
<1>6. /\ \A ip \in FleetIps : live[ip] # Sweeper!NoCard => live[ip].reach = hosts[ip]
      /\ \A ip \in f.whole : hosts[ip] # "none" => live[ip] # Sweeper!NoCard
  BY <1>2 DEF Sound, CardsOf, KeptOf
<1>7. Sweeper!Persist(Sweeper!Drop(f, ips), fails) = g
  <2> DEFINE without == [f EXCEPT !.hosts = hosts, !.live = live]
  <2>1. Sweeper!Drop(f, ips) = without
    BY DEF Sweeper!Drop
  <2>2. without.hosts = hosts
    BY <1>1 DEF Fleets
  <2>3. CASE fails
    <3>1. Sweeper!Persist(without, fails) = [without EXCEPT !.behind = TRUE]
      BY <2>3 DEF Sweeper!Persist
    <3>2. onDisk = f.disk
      BY <2>3
    <3> HIDE DEF hosts, live, onDisk
    <3>3. QED
      BY <1>1, <2>1, <2>3, <3>1, <3>2 DEF Fleets
  <2>4. CASE ~fails
    <3>1. Sweeper!Persist(without, fails) = [without EXCEPT !.disk = hosts, !.behind = FALSE]
      BY <2>2, <2>4 DEF Sweeper!Persist
    <3>2. onDisk = hosts
      BY <2>4
    <3> HIDE DEF hosts, live, onDisk
    <3>3. QED
      BY <1>1, <2>1, <2>4, <3>1, <3>2 DEF Fleets
  <2>5. QED
    BY <2>3, <2>4
<1> HIDE DEF hosts, live, onDisk
<1>8. g \in Fleets
  BY <1>1, <1>3, <1>4, <1>5 DEF Fleets
<1>9. /\ g.live = live /\ g.hosts = hosts /\ g.whole = f.whole /\ g.behind = fails
      /\ g.disk = onDisk /\ g.sweep = f.sweep /\ g.cancel = f.cancel /\ g.status = f.status
      /\ g.asked = f.asked
  BY <1>1 DEF Fleets
<1> HIDE DEF g
<1>10. Sound(g)
  BY <1>5, <1>6, <1>8, <1>9 DEF Sound, CardsOf, KeptOf, DiskOf, CancelOf, StatusOf
<1>11. QED
  BY <1>7, <1>10

\* Cards, records and disk agree as before when none of them changes.
LEMMA CardsStay ==
  ASSUME NEW f, Sound(f), NEW g \in Fleets, CancelOf(g), StatusOf(g),
         g.live = f.live, g.hosts = f.hosts, g.whole = f.whole, g.behind = f.behind,
         g.disk = f.disk
  PROVE  Sound(g)
BY DEF Sound, CardsOf, KeptOf, DiskOf

\* A call or a failure costs a change, and no action ends by it.
LEMMA CostsKeep ==
  ASSUME ActionsCost, NEW n \in Nat, Sweeper!Cost(n), UNCHANGED <<orders, doing>>
  PROVE  ActionsCost'
<1>1. calls' = calls + n /\ calls' \in 0..FleetChanges /\ calls <= calls'
  BY FleetAssumption DEF Sweeper!Cost, ActionsCost
<1>2. ASSUME NEW ip \in FleetIps
      PROVE  orders'[ip] + (IF ip \in doing' THEN 1 ELSE 0) <= calls'
  <2>1. orders[ip] \in Nat /\ orders[ip] + (IF ip \in doing THEN 1 ELSE 0) <= calls
    BY DEF ActionsCost
  <2>2. calls \in Nat /\ calls' \in Nat
    BY <1>1, FleetAssumption DEF ActionsCost
  <2>3. QED
    BY <1>1, <2>1, <2>2
<1>3. QED
  BY <1>1, <1>2 DEF ActionsCost

\* A write that may fail costs a change when it does, and no action.
LEMMA FailuresKeep ==
  ASSUME ActionsCost, NEW fails \in BOOLEAN, NEW n \in Nat, Sweeper!MayFail(fails, n),
         UNCHANGED <<orders, doing>>
  PROVE  ActionsCost'
<1>1. CASE fails
  BY <1>1, CostsKeep DEF Sweeper!MayFail
<1>2. CASE ~fails
  BY <1>2, CostsKeep DEF Sweeper!MayFail
<1>3. QED
  BY <1>1, <1>2

\* The invariant has what the functions ask of the world.
LEMMA InvAnswers == FleetInv => AnswersFit
<1> SUFFICES ASSUME FleetInv PROVE AnswersFit
  OBVIOUS
<1>1. ASSUME NEW ip \in FleetIps PROVE orders[ip] <= FleetChanges
  <2>1. orders[ip] \in Nat /\ orders[ip] + (IF ip \in doing THEN 1 ELSE 0) <= calls
    BY DEF FleetInv, ActionsCost
  <2>2. calls \in Nat /\ calls <= FleetChanges /\ FleetChanges \in Nat
    BY FleetAssumption DEF FleetInv, ActionsCost
  <2>3. QED
    BY <2>1, <2>2
<1>2. QED
  BY <1>1 DEF FleetInv, ActionsCost, AnswersFit

\* A command of a sweep ends, and with it perhaps the sweep.
LEMMA BatchEndsKeeps ==
  ASSUME FleetInv, NEW lost, NEW fails \in BOOLEAN, Sweeper!BatchEnds(lost, fails)
  PROVE  FleetInv'
<1>1. fleet \in Fleets /\ Sound(fleet)
  BY DEF FleetInv, Sound
<1>2. /\ fleet.sweep # Sweeper!NoSweep /\ UNCHANGED <<rules, world, orders, doing>>
      /\ Sweeper!MayFail(fails, IF lost = {} THEN 0 ELSE 1)
  BY DEF Sweeper!BatchEnds
<1>3. ActionsCost'
  BY <1>2, FailuresKeep DEF FleetInv
<1>4. CASE fleet.stopped
  <2>1. fleet' = [fleet EXCEPT !.sweep = Sweeper!NoSweep, !.status = "error"]
    BY <1>4 DEF Sweeper!BatchEnds
  <2>2. fleet' \in Fleets
    BY <1>1, <2>1 DEF Fleets
  <2>3. /\ fleet'.live = fleet.live /\ fleet'.hosts = fleet.hosts /\ fleet'.whole = fleet.whole
        /\ fleet'.behind = fleet.behind /\ fleet'.disk = fleet.disk
        /\ fleet'.sweep = Sweeper!NoSweep /\ fleet'.status = "error"
    BY <1>1, <2>1 DEF Fleets
  <2>4. CancelOf(fleet') /\ StatusOf(fleet')
    BY <2>3 DEF CancelOf, StatusOf
  <2>5. Sound(fleet')
    BY <1>1, <2>2, <2>3, <2>4, CardsStay
  <2>6. QED
    BY <1>2, <1>3, <2>5 DEF FleetInv
<1>5. CASE ~fleet.stopped
  <2> DEFINE s == fleet.sweep
             got == [ip \in DOMAIN s.got \cup DOMAIN s.batch |->
                       IF ip \in DOMAIN s.got THEN s.got[ip]
                       ELSE IF ip \in lost THEN Sweeper!Unanswered ELSE s.batch[ip]]
             next == [s EXCEPT !.batch = <<>>, !.got = got]
  <2>1. fleet' = Sweeper!NextBatch(fleet, next, fails)
    BY <1>5 DEF Sweeper!BatchEnds
  <2>2. s \in FleetSweeps
    BY <1>1, <1>2 DEF Fleets
  <2> HIDE DEF s
  <2>3. /\ s.plan \in (SUBSET FleetIps) \ {{}} /\ s.rest \subseteq s.plan
        /\ s.batch \in Reports /\ s.got \in Reports
        /\ DOMAIN s.batch \subseteq s.plan /\ DOMAIN s.got \subseteq s.plan
    BY <2>2 DEF FleetSweeps
  <2>4. got \in Reports /\ DOMAIN got \subseteq s.plan
    <3>1. got \in [DOMAIN s.got \cup DOMAIN s.batch -> Sweeper!Answers]
      BY <2>3, ReportsAnswer, AnswerIsOne, InvAnswers
    <3>2. QED
      BY <2>3, <3>1, ReportsAnswer
  <2> HIDE DEF got
  <2>5. next \in [plan : (SUBSET FleetIps) \ {{}}, rest : SUBSET FleetIps, batch : Reports,
                  got : Reports]
    BY <2>2, <2>3, <2>4, ReportsAnswer DEF FleetSweeps
  <2>6. next \in FleetSweeps
    <3>1. next.plan = s.plan /\ next.rest = s.rest /\ next.batch = <<>> /\ next.got = got
      BY <2>2 DEF FleetSweeps
    <3>2. QED
      BY <2>3, <2>4, <2>5, <3>1, ReportsAnswer DEF FleetSweeps
  <2> HIDE DEF next
  <2>7. Sound(fleet')
    BY <1>1, <1>2, <2>1, <2>6, NextBatchIsSound, InvAnswers
  <2>8. QED
    BY <1>2, <1>3, <2>7 DEF FleetInv
<1>6. QED
  BY <1>4, <1>5

\* The sweeps go on, end or throw.
LEMMA FleetSweepsKeep == ASSUME FleetInv, Sweeper!Sweeps PROVE FleetInv'
<1>1. fleet \in Fleets /\ Sound(fleet) /\ ActionsCost /\ rules \subseteq FleetIps
  BY DEF FleetInv, Sound
<1>2. CASE Sweeper!Tick
  <2>1. fleet' = Sweeper!Run(fleet) /\ UNCHANGED <<rules, world, orders, doing, calls>>
    BY <1>2 DEF Sweeper!Tick
  <2>2. Sound(fleet')
    BY <1>1, <2>1, RunIsSound, InvAnswers
  <2>3. QED
    BY <2>1, <2>2 DEF FleetInv, ActionsCost
<1>3. CASE Sweeper!BatchThrows
  <2>1. /\ fleet' = [fleet EXCEPT !.sweep = Sweeper!NoSweep, !.status = "error"]
        /\ Sweeper!Cost(1) /\ UNCHANGED <<rules, world, orders, doing>>
    BY <1>3 DEF Sweeper!BatchThrows, Sweeper!Change
  <2>2. fleet' \in Fleets
    BY <1>1, <2>1 DEF Fleets
  <2>3. /\ fleet'.live = fleet.live /\ fleet'.hosts = fleet.hosts /\ fleet'.whole = fleet.whole
        /\ fleet'.behind = fleet.behind /\ fleet'.disk = fleet.disk
        /\ fleet'.sweep = Sweeper!NoSweep /\ fleet'.status = "error"
    BY <1>1, <2>1 DEF Fleets
  <2>4. CancelOf(fleet') /\ StatusOf(fleet')
    BY <2>3 DEF CancelOf, StatusOf
  <2>5. Sound(fleet')
    BY <1>1, <2>2, <2>3, <2>4, CardsStay
  <2>6. QED
    BY <1>1, <2>1, <2>5, CostsKeep DEF FleetInv
<1>4. QED
  BY <1>2, <1>3, BatchEndsKeeps DEF Sweeper!Sweeps

\* A machine that was read on its own: its card and its record move together.
LEMMA RefreshesKeep == ASSUME FleetInv, Sweeper!Refreshes PROVE FleetInv'
<1>1. fleet \in Fleets /\ Sound(fleet) /\ ActionsCost /\ rules \subseteq FleetIps /\ AnswersFit
  BY InvAnswers DEF FleetInv, Sound
<1>2. PICK r \in fleet.refreshing, lost \in BOOLEAN, fails \in BOOLEAN :
        Sweeper!RefreshEnds(r, lost, fails)
  BY DEF Sweeper!Refreshes
<1>3. /\ UNCHANGED <<rules, world, orders, doing>>
      /\ Sweeper!MayFail(fails, IF lost THEN 1 ELSE 0)
  BY <1>2 DEF Sweeper!RefreshEnds
<1>4. ActionsCost'
  BY <1>1, <1>3, FailuresKeep
<1>5. r \in Readings
      /\ fleet.refreshing \ {r} \subseteq Readings
  BY <1>1, <1>2 DEF Fleets
<1> DEFINE rest == [fleet EXCEPT !.refreshing = fleet.refreshing \ {r}]
           entries == [ip \in {r.ip} |-> IF lost THEN Sweeper!Unanswered ELSE r.answer]
           merged == Sweeper!Merge(rest, rest.live, entries, fails)
<1>6. fleet' = IF fleet.stopped THEN rest
               ELSE IF r.probe THEN Sweeper!RefreshOne(merged, r.ip)
                               ELSE Sweeper!PublishCards(merged)
  BY <1>2 DEF Sweeper!RefreshEnds
<1>7. Sound(rest)
  BY <1>1, <1>5, AsidesAreSound
<1>8. Sound(merged)
  <2>1. entries \in Reports
    <3> DEFINE answer == IF lost THEN Sweeper!Unanswered ELSE r.answer
    <3>1. answer \in Sweeper!Answers /\ {r.ip} \subseteq FleetIps
      BY <1>1, <1>5, AnswerIsOne DEF Readings
    <3> HIDE DEF answer
    <3>2. entries = [x \in {r.ip} |-> answer]
      BY DEF answer
    <3>3. QED
      BY <3>1, <3>2, ReportsAnswer
  <2>2. /\ rest \in Fleets /\ DiskOf(rest) /\ rest.live \in Sweeper!Cards
        /\ \A ip \in FleetIps : rest.live[ip] # Sweeper!NoCard =>
             rest.live[ip].reach = rest.hosts[ip]
    BY <1>7 DEF Sound, CardsOf, Fleets
  <2> HIDE DEF entries, rest
  <2>3. PICK hosts \in Sweeper!Records, live \in Sweeper!Cards, onDisk \in Sweeper!Records,
             behind \in BOOLEAN :
               Merged(rest, rest.live, entries, fails, hosts, live, onDisk, behind)
    BY <2>1, <2>2, MergeFits
  <2>4. merged = [rest EXCEPT !.hosts = hosts, !.live = live, !.disk = onDisk,
                              !.behind = behind]
    BY <2>3 DEF Merged
  <2> HIDE DEF merged
  <2>5. merged \in Fleets
    BY <2>2, <2>4 DEF Fleets
  <2>6. /\ merged.hosts = hosts /\ merged.live = live /\ merged.disk = onDisk
        /\ merged.behind = behind /\ merged.whole = rest.whole /\ merged.sweep = rest.sweep
        /\ merged.status = rest.status /\ merged.cancel = rest.cancel
        /\ merged.asked = rest.asked
    BY <2>2, <2>4 DEF Fleets
  <2>7. CardsOf(merged) /\ DiskOf(merged)
    BY <2>3, <2>6 DEF Merged, CardsOf, DiskOf
  <2>8. KeptOf(merged)
    <3>1. rest.whole \subseteq FleetIps /\ KeptOf(rest)
      BY <1>7, <2>2 DEF Sound, Fleets
    <3>2. QED
      BY <2>3, <2>6, <3>1 DEF Merged, KeptOf
  <2>9. CancelOf(merged) /\ StatusOf(merged)
    BY <1>7, <2>6 DEF Sound, CancelOf, StatusOf
  <2>10. QED
    BY <2>5, <2>7, <2>8, <2>9 DEF Sound
<1> HIDE DEF rest, merged
<1>9. Sound(fleet')
  BY <1>1, <1>6, <1>7, <1>8, RefreshOneIsSound, PublishIsSound
<1>10. QED
  BY <1>3, <1>4, <1>9 DEF FleetInv

\* What the timers, the probes and the switches of an instance hold matters to no card.
LEMMA SwitchesAreSound ==
  ASSUME NEW f, Sound(f), NEW g \in Fleets,
         g.live = f.live, g.hosts = f.hosts, g.whole = f.whole, g.behind = f.behind,
         g.disk = f.disk, g.sweep = f.sweep, g.cancel = f.cancel, g.status = f.status,
         g.asked = f.asked
  PROVE  Sound(g)
<1>1. CancelOf(g) /\ StatusOf(g)
  BY DEF Sound, CancelOf, StatusOf
<1>2. QED
  BY <1>1, CardsStay

\* The answer to a probe starts the poller or a sweep.
LEMMA FleetProbesKeep == ASSUME FleetInv, Sweeper!Probes PROVE FleetInv'
<1>1. fleet \in Fleets /\ Sound(fleet) /\ ActionsCost /\ rules \subseteq FleetIps /\ AnswersFit
  BY InvAnswers DEF FleetInv, Sound
<1>2. PICK who \in fleet.probes :
        Sweeper!Probed(who, "ok") \/ Sweeper!Probed(who, "missing") \/ Sweeper!ProbeFails(who)
  BY DEF Sweeper!Probes
<1>3. /\ who \in Sweeper!Intervals \cup {Sweeper!Now}
      /\ fleet.probes \ {who} \subseteq Sweeper!Intervals \cup {Sweeper!Now}
  BY <1>1, <1>2 DEF Fleets
<1> DEFINE without == [fleet EXCEPT !.probes = fleet.probes \ {who}]
<1>4. Sound(without)
  <2>1. without \in Fleets
    BY <1>1, <1>3 DEF Fleets
  <2>2. /\ without.live = fleet.live /\ without.hosts = fleet.hosts
        /\ without.whole = fleet.whole
        /\ without.behind = fleet.behind /\ without.disk = fleet.disk
        /\ without.sweep = fleet.sweep /\ without.cancel = fleet.cancel
        /\ without.status = fleet.status /\ without.asked = fleet.asked
    BY <1>1 DEF Fleets
  <2> HIDE DEF without
  <2>3. QED
    BY <1>1, <2>1, <2>2, SwitchesAreSound
<1>5. CASE Sweeper!ProbeFails(who)
  <2>1. fleet' = without /\ Sweeper!Cost(1) /\ UNCHANGED <<rules, world, orders, doing>>
    BY <1>5 DEF Sweeper!ProbeFails, Sweeper!Change
  <2>2. QED
    BY <1>1, <1>4, <2>1, CostsKeep DEF FleetInv
<1>6. ASSUME NEW result \in {"ok", "missing"}, Sweeper!Probed(who, result) PROVE FleetInv'
  <2> DEFINE known == [fleet EXCEPT !.probes = fleet.probes \ {who}, !.caps = result]
             polled == [known EXCEPT !.polling = who]
  <2>1. UNCHANGED <<rules, world, orders, doing, calls>>
    BY <1>6 DEF Sweeper!Probed
  <2>2. Sound(known)
    <3>1. known \in Fleets
      BY <1>1, <1>3 DEF Fleets
    <3>2. /\ known.live = fleet.live /\ known.hosts = fleet.hosts /\ known.whole = fleet.whole
          /\ known.behind = fleet.behind /\ known.disk = fleet.disk
          /\ known.sweep = fleet.sweep /\ known.cancel = fleet.cancel
          /\ known.status = fleet.status /\ known.asked = fleet.asked
      BY <1>1 DEF Fleets
    <3> HIDE DEF known
    <3>3. QED
      BY <1>1, <3>1, <3>2, SwitchesAreSound
  <2>3. who # Sweeper!Now => Sound(polled)
    <3> HIDE DEF known
    <3>1. known \in Fleets
      BY <2>2 DEF Sound
    <3>2. who # Sweeper!Now => polled \in Fleets
      BY <1>3, <3>1 DEF Fleets
    <3>3. /\ polled.live = known.live /\ polled.hosts = known.hosts
          /\ polled.whole = known.whole
          /\ polled.behind = known.behind /\ polled.disk = known.disk
          /\ polled.sweep = known.sweep /\ polled.cancel = known.cancel
          /\ polled.status = known.status /\ polled.asked = known.asked
      BY <3>1 DEF Fleets
    <3> HIDE DEF polled
    <3>4. QED
      BY <2>2, <3>2, <3>3, SwitchesAreSound
  <2>4. \/ fleet' = without \/ fleet' = Sweeper!Run(known) \/ fleet' = known
        \/ who # Sweeper!Now /\ fleet' = Sweeper!Run(polled)
    BY <1>6 DEF Sweeper!Probed
  <2> HIDE DEF known, polled, without
  <2>5. Sound(fleet')
    BY <1>1, <1>4, <2>2, <2>3, <2>4, RunIsSound
  <2>6. QED
    BY <2>1, <2>5 DEF FleetInv, ActionsCost
<1>7. QED
  BY <1>2, <1>5, <1>6

\* An action ends: what it cost is counted once.
LEMMA FleetActionsKeep == ASSUME FleetInv, Sweeper!Actions PROVE FleetInv'
<1>1. fleet \in Fleets /\ Sound(fleet) /\ ActionsCost /\ rules \subseteq FleetIps
  BY DEF FleetInv, Sound
<1>2. PICK ip \in doing : Sweeper!ActEnds(ip) \/ Sweeper!ActFails(ip)
  BY DEF Sweeper!Actions
<1>3. /\ UNCHANGED <<rules, world, calls>> /\ doing' = doing \ {ip}
      /\ orders' = orders \/ orders' = [orders EXCEPT ![ip] = @ + 1]
  BY <1>2 DEF Sweeper!ActEnds, Sweeper!ActFails
<1>4. ActionsCost'
  <2>1. ip \in FleetIps /\ orders \in [FleetIps -> Nat] /\ calls \in Nat
    BY <1>1, <1>2, FleetAssumption DEF ActionsCost
  <2>2. orders' \in [FleetIps -> Nat]
    BY <1>3, <2>1
  <2>3. ASSUME NEW k \in FleetIps
        PROVE  orders'[k] + (IF k \in doing' THEN 1 ELSE 0) <= calls
    <3>1. orders[k] \in Nat /\ orders[k] + (IF k \in doing THEN 1 ELSE 0) <= calls
      BY <1>1, <2>1 DEF ActionsCost
    <3>2. CASE k = ip
      BY <1>2, <1>3, <2>1, <3>1, <3>2
    <3>3. CASE k # ip
      BY <1>3, <2>1, <3>1, <3>3
    <3>4. QED
      BY <3>2, <3>3
  <2>4. QED
    BY <1>1, <1>3, <2>2, <2>3 DEF ActionsCost
<1>5. Sound(fleet')
  <2>1. CASE fleet' = fleet
    BY <1>1, <2>1
  <2>2. CASE fleet' # fleet
    <3> DEFINE answer == [reach |-> "ok", n |-> orders[ip] + 1]
               reading == [ip |-> ip, answer |-> answer, probe |-> FALSE]
    <3>1. fleet' = [fleet EXCEPT !.refreshing = fleet.refreshing \cup {reading}]
      BY <1>2, <2>2 DEF Sweeper!ActEnds, Sweeper!ActFails
    <3>2. /\ ip \in FleetIps /\ calls \in 0..FleetChanges
          /\ orders[ip] \in Nat /\ orders[ip] + 1 <= calls
      BY <1>1, <1>2 DEF ActionsCost
    <3>3. answer \in Sweeper!Answers
      BY <3>2, FleetAssumption DEF Sweeper!Answers, Sweeper!Reaches
    <3> HIDE DEF answer
    <3>4. reading \in Readings
      BY <3>2, <3>3 DEF Readings
    <3>5. fleet.refreshing \subseteq Readings
      BY <1>1 DEF Fleets
    <3> HIDE DEF reading
    <3>6. QED
      BY <1>1, <3>1, <3>4, <3>5, AsidesAreSound
  <2>3. QED
    BY <2>1, <2>2
<1>6. QED
  BY <1>3, <1>4, <1>5 DEF FleetInv

\* What a call may do to the instance, without the addresses it names.
LEMMA FleetCallsKeep == ASSUME FleetInv, Sweeper!Calls PROVE FleetInv'
<1>1. fleet \in Fleets /\ Sound(fleet) /\ ActionsCost /\ rules \subseteq FleetIps /\ AnswersFit
  BY InvAnswers DEF FleetInv, Sound
<1>2. CASE Sweeper!SweepNow
  <2> DEFINE probes == fleet.probes \cup {Sweeper!Now}
  <2>1. /\ fleet' = [fleet EXCEPT !.probes = probes] /\ Sweeper!Cost(1)
        /\ UNCHANGED <<rules, world, orders, doing>>
    BY <1>2 DEF Sweeper!SweepNow, Sweeper!Change
  <2>2. probes \subseteq Sweeper!Intervals \cup {Sweeper!Now}
    BY <1>1 DEF Fleets
  <2> HIDE DEF probes
  <2>3. fleet' \in Fleets
    BY <1>1, <2>1, <2>2 DEF Fleets
  <2>4. /\ fleet'.live = fleet.live /\ fleet'.hosts = fleet.hosts /\ fleet'.whole = fleet.whole
        /\ fleet'.behind = fleet.behind /\ fleet'.disk = fleet.disk
        /\ fleet'.sweep = fleet.sweep /\ fleet'.cancel = fleet.cancel
        /\ fleet'.status = fleet.status /\ fleet'.asked = fleet.asked
    BY <1>1, <2>1 DEF Fleets
  <2>5. Sound(fleet')
    BY <1>1, <2>3, <2>4, SwitchesAreSound
  <2>6. QED
    BY <1>1, <2>1, <2>5, CostsKeep DEF FleetInv
<1>3. CASE \E i \in Sweeper!Intervals : Sweeper!ApplyPollers(i)
  <2>1. PICK i \in Sweeper!Intervals : Sweeper!ApplyPollers(i)
    BY <1>3
  <2> DEFINE probes == fleet.probes \cup {i}
  <2>2. /\ fleet' = [fleet EXCEPT !.applied = i, !.polling = 0, !.probes = probes]
        /\ Sweeper!Cost(1) /\ UNCHANGED <<rules, world, orders, doing>>
    BY <2>1 DEF Sweeper!ApplyPollers, Sweeper!Change
  <2>3. probes \subseteq Sweeper!Intervals \cup {Sweeper!Now} /\ 0 \in Sweeper!Intervals
    BY <1>1 DEF Fleets, Sweeper!Intervals
  <2> HIDE DEF probes
  <2>4. fleet' \in Fleets
    BY <1>1, <2>2, <2>3 DEF Fleets
  <2>5. /\ fleet'.live = fleet.live /\ fleet'.hosts = fleet.hosts /\ fleet'.whole = fleet.whole
        /\ fleet'.behind = fleet.behind /\ fleet'.disk = fleet.disk
        /\ fleet'.sweep = fleet.sweep /\ fleet'.cancel = fleet.cancel
        /\ fleet'.status = fleet.status /\ fleet'.asked = fleet.asked
    BY <1>1, <2>2 DEF Fleets
  <2>6. Sound(fleet')
    BY <1>1, <2>4, <2>5, SwitchesAreSound
  <2>7. QED
    BY <1>1, <2>2, <2>6, CostsKeep DEF FleetInv
<1>4. CASE Sweeper!SweepCancel
  <2>1. /\ fleet' = [fleet EXCEPT !.cancel = TRUE, !.asked = TRUE] /\ Sweeper!Cost(1)
        /\ UNCHANGED <<rules, world, orders, doing>>
    BY <1>4 DEF Sweeper!SweepCancel, Sweeper!Change
  <2>2. fleet' \in Fleets
    BY <1>1, <2>1 DEF Fleets
  <2>3. /\ fleet'.live = fleet.live /\ fleet'.hosts = fleet.hosts /\ fleet'.whole = fleet.whole
        /\ fleet'.behind = fleet.behind /\ fleet'.disk = fleet.disk
        /\ fleet'.sweep = fleet.sweep /\ fleet'.status = fleet.status /\ fleet'.asked
    BY <1>1, <2>1 DEF Fleets
  <2>4. CancelOf(fleet') /\ StatusOf(fleet')
    BY <1>1, <2>3 DEF Sound, CancelOf, StatusOf
  <2>5. Sound(fleet')
    BY <1>1, <2>2, <2>3, <2>4, CardsStay
  <2>6. QED
    BY <1>1, <2>1, <2>5, CostsKeep DEF FleetInv
<1>5. CASE Sweeper!JobRecorded
  <2>1. /\ fleet' = [fleet EXCEPT !.disk = fleet.hosts, !.behind = FALSE]
        /\ UNCHANGED <<rules, world, orders, doing, calls>>
    BY <1>5 DEF Sweeper!JobRecorded, Sweeper!Persist
  <2>2. fleet' \in Fleets
    BY <1>1, <2>1 DEF Fleets
  <2>3. /\ fleet'.live = fleet.live /\ fleet'.hosts = fleet.hosts /\ fleet'.whole = fleet.whole
        /\ fleet'.disk = fleet.hosts
        /\ fleet'.sweep = fleet.sweep /\ fleet'.cancel = fleet.cancel
        /\ fleet'.status = fleet.status /\ fleet'.asked = fleet.asked
    BY <1>1, <2>1 DEF Fleets
  <2>4. Sound(fleet')
    BY <1>1, <2>2, <2>3 DEF Sound, CardsOf, KeptOf, DiskOf, CancelOf, StatusOf
  <2>5. QED
    BY <2>1, <2>4 DEF FleetInv, ActionsCost
<1>6. CASE \E ip \in FleetIps : Sweeper!HostProbe(ip)
  <2>1. PICK ip \in FleetIps : Sweeper!HostProbe(ip)
    BY <1>6
  <2> DEFINE reading == [ip |-> ip, answer |-> Sweeper!Answer(ip), probe |-> TRUE]
  <2>2. /\ fleet' = [fleet EXCEPT !.refreshing = fleet.refreshing \cup {reading}]
        /\ Sweeper!Cost(1) /\ UNCHANGED <<rules, world, orders, doing>>
    BY <2>1 DEF Sweeper!HostProbe, Sweeper!Change
  <2>3. reading \in Readings
    BY <1>1, AnswerIsOne DEF Readings
  <2>4. fleet.refreshing \subseteq Readings
    BY <1>1 DEF Fleets
  <2> HIDE DEF reading
  <2>5. Sound(fleet')
    BY <1>1, <2>2, <2>3, <2>4, AsidesAreSound
  <2>6. QED
    BY <1>1, <2>2, <2>5, CostsKeep DEF FleetInv
<1>7. CASE \E ip \in FleetIps : Sweeper!Act(ip)
  <2>1. PICK ip \in FleetIps : Sweeper!Act(ip)
    BY <1>7
  <2>2. /\ doing' = doing \cup {ip} /\ calls' = calls + 1 /\ calls + 1 <= FleetChanges
        /\ UNCHANGED <<fleet, rules, world, orders>>
    BY <2>1 DEF Sweeper!Act, Sweeper!Change, Sweeper!Cost
  <2>3. ActionsCost'
    <3>1. calls \in Nat /\ calls' \in 0..FleetChanges
      BY <1>1, <2>2, FleetAssumption DEF ActionsCost
    <3>2. ASSUME NEW k \in FleetIps
          PROVE  orders[k] + (IF k \in doing' THEN 1 ELSE 0) <= calls + 1
      <4>1. orders[k] \in Nat /\ orders[k] + (IF k \in doing THEN 1 ELSE 0) <= calls
        BY <1>1 DEF ActionsCost
      <4>2. QED
        BY <3>1, <4>1
    <3>3. QED
      BY <1>1, <2>2, <3>1, <3>2 DEF ActionsCost
  <2>4. QED
    BY <1>1, <2>2, <2>3 DEF FleetInv, AnswersFit
<1>8. CASE \E ip \in FleetIps : Sweeper!TargetApply(ip) \/ Sweeper!TargetDeleteFails(ip)
  <2>1. PICK ip \in FleetIps : Sweeper!TargetApply(ip) \/ Sweeper!TargetDeleteFails(ip)
    BY <1>8
  <2>2. /\ rules' \subseteq FleetIps /\ Sweeper!Cost(1)
        /\ UNCHANGED <<fleet, world, orders, doing>>
    BY <1>1, <2>1 DEF Sweeper!TargetApply, Sweeper!TargetDeleteFails, Sweeper!Change
  <2>3. QED
    BY <1>1, <2>2, CostsKeep DEF FleetInv, AnswersFit
<1>9. CASE \E ip \in FleetIps, fails \in BOOLEAN :
             Sweeper!HostForget(ip, fails) \/ Sweeper!TargetDelete(ip, fails)
  <2>1. PICK ip \in FleetIps, fails \in BOOLEAN :
          Sweeper!HostForget(ip, fails) \/ Sweeper!TargetDelete(ip, fails)
    BY <1>9
  <2>2. /\ rules' \subseteq FleetIps /\ Sweeper!MayFail(fails, 1)
        /\ UNCHANGED <<world, orders, doing>>
    BY <1>1, <2>1 DEF Sweeper!HostForget, Sweeper!TargetDelete
  <2>3. \/ fleet' = fleet
        \/ \E ips : fleet' = Sweeper!Persist(Sweeper!Drop(fleet, ips), fails)
    BY <2>1 DEF Sweeper!HostForget, Sweeper!TargetDelete
  <2>4. Sound(fleet')
    BY <1>1, <2>3, DropIsSound
  <2>5. QED
    BY <1>1, <2>2, <2>4, FailuresKeep DEF FleetInv, AnswersFit
<1>10. QED
  BY <1>2, <1>3, <1>4, <1>5, <1>6, <1>7, <1>8, <1>9 DEF Sweeper!Calls

\* Machines come and go, and the instance is disposed of.
LEMMA FleetWorldKeeps == ASSUME FleetInv, Sweeper!World PROVE FleetInv'
<1>1. fleet \in Fleets /\ Sound(fleet) /\ ActionsCost /\ rules \subseteq FleetIps /\ AnswersFit
  BY InvAnswers DEF FleetInv, Sound
<1>2. CASE Sweeper!Dispose
  <2> DEFINE cut == fleet.cancel \/ fleet.sweep # Sweeper!NoSweep
             told == fleet.asked \/ fleet.sweep # Sweeper!NoSweep
  <2>1. /\ fleet' = [fleet EXCEPT !.stopped = TRUE, !.polling = 0, !.cancel = cut,
                                  !.asked = told]
        /\ UNCHANGED <<rules, world, orders, doing, calls>>
    BY <1>2 DEF Sweeper!Dispose
  <2>2. cut \in BOOLEAN /\ told \in BOOLEAN /\ 0 \in Sweeper!Intervals
    BY DEF Sweeper!Intervals
  <2>3. /\ fleet.sweep # Sweeper!NoSweep => told
        /\ fleet.asked => told
    BY <1>1 DEF Fleets
  <2> HIDE DEF cut, told
  <2>4. fleet' \in Fleets
    BY <1>1, <2>1, <2>2 DEF Fleets
  <2>5. /\ fleet'.live = fleet.live /\ fleet'.hosts = fleet.hosts /\ fleet'.whole = fleet.whole
        /\ fleet'.behind = fleet.behind /\ fleet'.disk = fleet.disk
        /\ fleet'.sweep = fleet.sweep /\ fleet'.status = fleet.status /\ fleet'.asked = told
    BY <1>1, <2>1 DEF Fleets
  <2>6. CancelOf(fleet') /\ StatusOf(fleet')
    BY <1>1, <2>3, <2>5 DEF Sound, CancelOf, StatusOf
  <2>7. Sound(fleet')
    BY <1>1, <2>4, <2>5, <2>6, CardsStay
  <2>8. QED
    BY <2>1, <2>7 DEF FleetInv, ActionsCost
<1>3. CASE \E ip \in FleetIps : Sweeper!WorldChanges(ip)
  <2>1. PICK ip \in FleetIps : Sweeper!WorldChanges(ip)
    BY <1>3
  <2>2. world' \in [FleetIps -> Sweeper!Reaches] /\ UNCHANGED <<fleet, rules, orders, doing>>
        /\ Sweeper!Cost(1)
    BY <1>1, <2>1 DEF Sweeper!WorldChanges, Sweeper!Change, AnswersFit
  <2>3. QED
    BY <1>1, <2>2, CostsKeep DEF FleetInv
<1>4. QED
  BY <1>2, <1>3 DEF Sweeper!World

\* Every step of the fleet keeps its invariant.
LEMMA FleetStep ==
  ASSUME FleetInv, [Sweeper!Next]_(Sweeper!vars)
  PROVE  FleetInv'
<1>1. CASE UNCHANGED Sweeper!vars
  BY <1>1 DEF Sweeper!vars, FleetInv, ActionsCost
<1>2. QED
  BY <1>1, FleetSweepsKeep, RefreshesKeep, FleetProbesKeep, FleetActionsKeep, FleetCallsKeep,
     FleetWorldKeeps DEF Sweeper!Next

\* The invariant implies what is checked of the fleet.
LEMMA FleetInvAgrees == FleetInv => Sweeper!TypeOK /\ Sweeper!FleetAgrees
<1> SUFFICES ASSUME FleetInv PROVE Sweeper!TypeOK /\ Sweeper!FleetAgrees
  OBVIOUS
<1>1. fleet \in Fleets /\ Sound(fleet) /\ ActionsCost /\ rules \subseteq FleetIps /\ AnswersFit
  BY InvAnswers DEF FleetInv, Sound
<1>2. Sweeper!FleetAgrees
  BY <1>1 DEF Sound, CardsOf, KeptOf, DiskOf, CancelOf, StatusOf, Sweeper!FleetAgrees,
              Sweeper!CardsAreRecorded, Sweeper!KeepsItsCard, Sweeper!DiskFollows,
              Sweeper!CancelIsForThisSweep, Sweeper!StatusAgrees
<1>3. fleet.sweep # Sweeper!NoSweep =>
        /\ fleet.sweep.plan \subseteq FleetIps /\ fleet.sweep.rest \subseteq fleet.sweep.plan
        /\ DOMAIN fleet.sweep.batch \subseteq fleet.sweep.plan
        /\ DOMAIN fleet.sweep.got \subseteq fleet.sweep.plan
  BY <1>1 DEF Fleets, FleetSweeps
<1>4. orders \in [FleetIps -> 0..FleetChanges] /\ doing \subseteq FleetIps
      /\ calls \in 0..FleetChanges
  BY <1>1, FleetAssumption DEF AnswersFit, ActionsCost
<1>5. Sweeper!TypeOK
  BY <1>1, <1>3, <1>4 DEF Sweeper!TypeOK, Fleets, FleetInv, Readings
<1>6. QED
  BY <1>2, <1>5

\* An instance that has not swept yet.
LEMMA FleetInit == AllInit => FleetInv
<1> SUFFICES ASSUME AllInit PROVE FleetInv
  OBVIOUS
<1> DEFINE live == [ip \in FleetIps |-> Sweeper!NoCard]
           hosts == [ip \in FleetIps |-> "none"]
           Rests(f) ==
             /\ f \in Fleets
             /\ f.live = live /\ f.hosts = hosts /\ f.whole = {} /\ f.behind = FALSE
             /\ f.disk = hosts /\ f.sweep = Sweeper!NoSweep /\ f.cancel = FALSE
             /\ f.status = "idle" /\ f.asked = FALSE
<1>1. live \in Sweeper!Cards /\ \A ip \in FleetIps : live[ip] = Sweeper!NoCard
  BY DEF Sweeper!Cards
<1>2. hosts \in Sweeper!Records /\ \A ip \in FleetIps : hosts[ip] = "none"
  BY DEF Sweeper!Records
<1>3. ASSUME NEW i \in Sweeper!Intervals PROVE Rests(Sweeper!New(i))
  <2>1. Sweeper!New(i) =
          [stopped |-> FALSE, applied |-> i, polling |-> 0, caps |-> "unknown",
           probes |-> {i}, sweep |-> Sweeper!NoSweep, cancel |-> FALSE, asked |-> FALSE,
           status |-> "idle", live |-> live, latest |-> <<>>, whole |-> {}, refreshing |-> {},
           hosts |-> hosts, disk |-> hosts, behind |-> FALSE]
    BY DEF Sweeper!New
  <2>2. 0 \in Sweeper!Intervals
    BY DEF Sweeper!Intervals
  <2> HIDE DEF live, hosts
  <2>3. QED
    BY <1>1, <1>2, <2>1, <2>2 DEF Fleets
<1>4. PICK f \in Fleets, w \in [FleetIps -> Sweeper!Reaches] :
        Rests(f) /\ Sweeper!InitWith(f, w)
  <2>1. CASE part = "fleet"
    <3>1. PICK i \in Sweeper!Intervals, w \in [FleetIps -> Sweeper!Reaches] :
            Sweeper!InitWith(Sweeper!New(i), w)
      BY <2>1 DEF AllInit, Sweeper!Init
    <3>2. Rests(Sweeper!New(i)) /\ Sweeper!New(i) \in Fleets
      BY <1>3
    <3> HIDE DEF Rests
    <3>3. QED
      BY ONLY <3>1, <3>2
  <2>2. CASE part # "fleet"
    <3> DEFINE new == Sweeper!New(0)
               halted == [new EXCEPT !.stopped = TRUE, !.probes = {}]
    <3>1. Sweeper!InitWith(halted, [ip \in FleetIps |-> "ok"])
      BY <2>2 DEF AllInit
    <3>2. [ip \in FleetIps |-> "ok"] \in [FleetIps -> Sweeper!Reaches]
      BY DEF Sweeper!Reaches
    <3>3. Rests(new)
      BY <1>3 DEF Sweeper!Intervals
    <3> HIDE DEF new, live, hosts
    <3>4. halted \in Fleets
      BY <3>3 DEF Fleets
    <3>5. Rests(halted)
      BY <3>3, <3>4 DEF Fleets
    <3> HIDE DEF Rests, halted
    <3>6. QED
      BY ONLY <3>1, <3>2, <3>4, <3>5
  <2>3. QED
    BY <2>1, <2>2
<1>5. /\ fleet = f /\ rules = FleetIps /\ world = w
      /\ orders = [ip \in FleetIps |-> 0] /\ doing = {} /\ calls = 0
  BY <1>4 DEF Sweeper!InitWith
<1> HIDE DEF live, hosts
<1>6. Sound(fleet)
  BY <1>1, <1>2, <1>4, <1>5 DEF Sound, CardsOf, KeptOf, DiskOf, CancelOf, StatusOf
<1>7. ActionsCost
  BY <1>5, FleetAssumption DEF ActionsCost
<1>8. QED
  BY <1>4, <1>5, <1>6, <1>7 DEF FleetInv

\* The records of the jobs are whole, the browsers get the last state, and only a
\* runner without a guard uses a revoked context; the cards, the records and the disk
\* of a fleet agree, and a machine keeps its card: for any number of jobs, items,
\* addresses and changes (jobs.ts, fanout.ts, service-fleet/main).
THEOREM JobsStayTold == AllSpec => []JobsAreTold
<1> DEFINE Both == JobsInv /\ FleetInv
<1>1. AllInit => Both
  BY JobsInit, FleetInit
<1>2. Both /\ [AllNext]_all => Both'
  <2> SUFFICES ASSUME Both, [AllNext]_all PROVE Both'
    OBVIOUS
  <2>1. [ModJobs!Next]_(ModJobs!vars)
    BY DEF AllNext, all, jobsVars, ModJobs!vars
  <2>2. [Sweeper!Next]_(Sweeper!vars)
    BY DEF AllNext, all, fleetVars, Sweeper!vars
  <2>3. QED
    BY <2>1, <2>2, JobsStep, FleetStep
<1>3. Both => JobsAreTold
  BY JobsInvTells, FleetInvAgrees DEF JobsAreTold
<1>4. QED
  BY <1>1, <1>2, <1>3, PTL DEF AllSpec

=============================================================================
