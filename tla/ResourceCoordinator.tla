------------------------ MODULE ResourceCoordinator ------------------------
(***************************************************************************)
(* server/resource-coordinator.ts: the keyed mutex under which the RPC     *)
(* router and the upload routes run every mutation.                        *)
(*                                                                         *)
(* A resource is its rank in the order run() sorts names into.  The chain  *)
(* of promises behind tails.get(name) is the queue of the calls that       *)
(* asked for the name and have not released it, holder first.  An          *)
(* operation never calls run() itself: runExclusive() is used by HTTP      *)
(* routes and run() by dispatch() only.                                    *)
(***************************************************************************)
EXTENDS Naturals, Sequences

CONSTANTS
  Callers,        \* concurrent calls of run()
  ResourceCount,  \* number of MutationResource names
  Requests        \* the sets of resources the registered operations name

\* The MutationResource names, by rank.
Resources == 1..ResourceCount

ASSUME ResourceCountAssumption == ResourceCount \in Nat
ASSUME RequestsAssumption == Requests \subseteq SUBSET Resources

VARIABLES
  pc,     \* where a caller stands in run()
  want,   \* names a caller has still to be granted, the awaited one included
  held,   \* names whose release a caller has collected
  queue   \* callers chained behind tails.get(name)

vars == <<pc, want, held, queue>>

\* An idle caller holds and wants nothing: run() released all it acquired.
TypeOK ==
  /\ pc \in [Callers -> {"idle", "acquiring", "running"}]
  /\ want \in [Callers -> SUBSET Resources]
  /\ held \in [Callers -> SUBSET Resources]
  /\ queue \in [Resources -> Seq(Callers)]
  /\ \A c \in Callers :
       /\ pc[c] = "idle" => held[c] = {}
       /\ pc[c] # "acquiring" <=> want[c] = {}

Init ==
  /\ pc = [c \in Callers |-> "idle"]
  /\ want = [c \in Callers |-> {}]
  /\ held = [c \in Callers |-> {}]
  /\ queue = [r \in Resources |-> <<>>]

-----------------------------------------------------------------------------
(***************************************************************************)
(* Mutants: plausible mistakes in the code, not part of the specification. *)
(***************************************************************************)

\* Comes: names are acquired as the operation lists them, and the one that names
\* rank 2 (settings:set: modules, settings, users) lists them in reverse.
ComesUnsorted(r, names) ==
  r \in names /\ \A q \in names : IF 2 \in names THEN q <= r ELSE r <= q

\* Granted: the gate of the previous holder is not awaited.
GrantedEarly(c) ==
  /\ pc[c] = "acquiring"
  /\ \E r \in want[c] :
       /\ \A q \in want[c] : r <= q
       /\ held' = [held EXCEPT ![c] = @ \cup {r}]
       /\ want' = [want EXCEPT ![c] = @ \ {r}]
       /\ IF want[c] = {r}
          THEN pc' = [pc EXCEPT ![c] = "running"] /\ UNCHANGED queue
          ELSE /\ \E q \in want[c] \ {r} :
                    /\ \A p \in want[c] \ {r} : q <= p
                    /\ queue' = [queue EXCEPT ![q] = Append(@, c)]
               /\ UNCHANGED pc

\* Finish: only the first release collected runs.
FinishReleasesOne(c) ==
  /\ pc[c] = "running"
  /\ pc' = [pc EXCEPT ![c] = "idle"]
  /\ held' = [held EXCEPT ![c] = {}]
  /\ queue' = [r \in Resources |->
                 IF r \in held[c] /\ \A q \in held[c] : r <= q
                 THEN Tail(queue[r]) ELSE queue[r]]
  /\ UNCHANGED want

-----------------------------------------------------------------------------
\* r is the name acquired first: the smallest one.
Comes(r, names) == r \in names /\ \A q \in names : r <= q

\* The call joins the queue of the first of these names, or runs its operation
\* when there is none left to acquire.
Proceed(c, names) ==
  IF names = {}
  THEN pc' = [pc EXCEPT ![c] = "running"] /\ UNCHANGED queue
  ELSE /\ pc' = [pc EXCEPT ![c] = "acquiring"]
       /\ \E r \in names :
            Comes(r, names) /\ queue' = [queue EXCEPT ![r] = Append(@, c)]

\* run() up to its first await.
Call(c) ==
  /\ pc[c] = "idle"
  /\ \E names \in Requests :
       /\ want' = [want EXCEPT ![c] = names]
       /\ Proceed(c, names)
  /\ UNCHANGED held

\* The awaited gate opens: `previous` has resolved because c is now first.
Granted(c) ==
  /\ pc[c] = "acquiring"
  /\ \E r \in want[c] :
       /\ Comes(r, want[c])
       /\ Head(queue[r]) = c
       /\ held' = [held EXCEPT ![c] = @ \cup {r}]
       /\ want' = [want EXCEPT ![c] = @ \ {r}]
       /\ Proceed(c, want[c] \ {r})

\* The operation resolves or throws; finally releases every name in one go.
Finish(c) ==
  /\ pc[c] = "running"
  /\ pc' = [pc EXCEPT ![c] = "idle"]
  /\ held' = [held EXCEPT ![c] = {}]
  /\ queue' = [r \in Resources |-> IF r \in held[c] THEN Tail(queue[r]) ELSE queue[r]]
  /\ UNCHANGED want

Next == \E c \in Callers : Call(c) \/ Granted(c) \/ Finish(c)

\* A resolved gate resumes its waiter, and every operation settles in the end.
Fairness == \A c \in Callers : WF_vars(Granted(c)) /\ WF_vars(Finish(c))

Safety == Init /\ [][Next]_vars
Spec == Safety /\ Fairness

-----------------------------------------------------------------------------
(***************************************************************************)
(* Properties                                                              *)
(***************************************************************************)

\* "mutations naming the same domain are serialized across every client": two
\* operations that run at the same time have no resource in common.
MutualExclusion ==
  \A c, d \in Callers : c # d => held[c] \cap held[d] = {}

\* Callers that each need several names never wait for one another in a
\* circle: as long as one is waiting, some caller is running or can be granted
\* the name it waits for.  This is what sorting the names in run() is for.
NoDeadlock ==
  (\E c \in Callers : pc[c] = "acquiring") =>
    \E d \in Callers :
      \/ pc[d] = "running"
      \/ \E r \in want[d] : Comes(r, want[d]) /\ Head(queue[r]) = d

\* Every call of run() gets to execute its operation, whoever else keeps
\* asking for the same names: nobody goes on acquiring.
EveryCallRuns == \A c \in Callers : []<>(pc[c] # "acquiring")
=============================================================================
