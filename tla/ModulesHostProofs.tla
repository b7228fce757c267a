-------------------------- MODULE ModulesHostProofs --------------------------
(***************************************************************************)
(* Proofs about the modules host: an instance runs only where it may, and  *)
(* where it should once the lifecycle queue has come to rest, for any      *)
(* machines.                                                               *)
(***************************************************************************)
EXTENDS ModulesHost, TLAPS

\* The operation of the lifecycle queue that the handler of the `modules' lock awaits.
Awaited ==
  CASE admin = "enabling" -> "enable"
    [] admin \in {"reloading", "activating", "restoring"} -> "reload"
    [] admin \in {"stopping", "undoing"} -> "stop"
    [] admin = "forgetting" -> "forget"
    [] OTHER -> "none"

\* An operation other than an apply is the one that the handler awaits, and it is in the
\* queue once, or runs.
OneHandler ==
  /\ op \in {"enable", "reload"} => op = Awaited
  /\ \A i \in DOMAIN queue : queue[i] # "apply" =>
       /\ queue[i] = Awaited
       /\ op \notin {"enable", "reload"}
       /\ \A j \in DOMAIN queue : queue[j] # "apply" => j = i

\* The stages of a reload: nothing is activated before its compilation.
ReloadStages ==
  /\ op = "none" => stage = "compiling"
  /\ op = "reload" => detached = FALSE
  /\ op = "reload" /\ stage = "compiling" => Activating = {} /\ ok = TRUE

\* Only the clean close suspends the host, and only a handler on its way back from a
\* connect leaves a connected machine suspended.
SuspendedIsClosing == suspended = TRUE => shuttingDown = TRUE

SuspendedIsReturning ==
  shuttingDown = FALSE =>
    \A m \in Connected(runtime) : m \in suspendedMachines => returning = m

\* An instance runs for the context that is connected now.
LiveWhereItMay ==
  \A m \in Machines : live[m] # None =>
    runtime[m] = live[m] /\ m \notin suspendedMachines /\ suspended = FALSE

\* While forget() waits for its turn nothing of the removed module runs or comes.
ForgottenIsGone ==
  admin = "forgetting" => folder = FALSE /\ live = Nowhere /\ Activating \subseteq cancelled

\* What runs of a module that is off is still to be stopped by an operation in the queue.
Pending(operations) == \E i \in DOMAIN queue : queue[i] \in operations

OffIsStopped ==
  known /\ enabled = FALSE /\ shuttingDown = FALSE =>
    live = Nowhere \/ Pending({"apply", "enable"})

\* A connected machine whose module is on runs it, or an activation that is still
\* current will go live there or throw, unless an operation, a handler or a connect that
\* is under way will look at all machines again.
OnItsWay(m) == m \in Activating /\ Current(m)

Quiet ==
  /\ shuttingDown = FALSE /\ returning = "nothing"
  /\ ~Pending({"apply", "enable", "reload"})
  /\ admin \in {"free", "enabling", "reloading", "restoring", "activating"}
  /\ ~(op = "reload" /\ stage = "compiling")

ServedWhereConnected ==
  Quiet /\ known /\ enabled /\ (problem => \E m \in Machines : OnItsWay(m)) =>
    \A m \in Connected(runtime) \ failed : live[m] = runtime[m] \/ OnItsWay(m)

\* The inductive invariant: the checked properties, and what they need.
IInv ==
  /\ TypeOK
  /\ OneHandler
  /\ ReloadStages
  /\ SuspendedIsClosing
  /\ SuspendedIsReturning
  /\ LiveWhereItMay
  /\ ForgottenIsGone
  /\ OffIsStopped
  /\ StableRuntimes => ServedWhereConnected

-----------------------------------------------------------------------------
(***************************************************************************)
(* The lifecycle queue                                                     *)
(***************************************************************************)

Lifecycle == {"apply", "enable", "reload", "stop", "forget"}

\* One operation joins the end of a queue.
LEMMA Joins ==
  ASSUME NEW q \in Seq(Lifecycle), NEW x \in Lifecycle, NEW r, r = q \o <<x>>
  PROVE  /\ r \in Seq(Lifecycle) /\ r # <<>>
         /\ \A i \in DOMAIN q : i \in DOMAIN r /\ r[i] = q[i]
         /\ Len(q) + 1 \in DOMAIN r /\ r[Len(q) + 1] = x
         /\ \A i \in DOMAIN r : i \in DOMAIN q \/ i = Len(q) + 1
         /\ Len(q) + 1 \notin DOMAIN q
OBVIOUS

\* enqueueLifecycle() of an apply by anyone: what waits still waits.
LEMMA AppliesJoin ==
  ASSUME TypeOK, OneHandler,
         queue' = queue \o <<"apply">> \/ queue' = queue \o <<"apply", "apply">>,
         op' = op, admin' = admin
  PROVE  /\ queue' \in Seq(Lifecycle) /\ queue' # <<>>
         /\ OneHandler'
         /\ \E i \in DOMAIN queue' : queue'[i] = "apply"
         /\ \A i \in DOMAIN queue : i \in DOMAIN queue' /\ queue'[i] = queue[i]
<1> USE DEF TypeOK
<1>1. queue \in Seq(Lifecycle) /\ "apply" \in Lifecycle
  BY DEF Lifecycle
<1>2. CASE queue' = queue \o <<"apply">>
  <2>1. /\ queue' \in Seq(Lifecycle) /\ queue' # <<>>
        /\ \A i \in DOMAIN queue : i \in DOMAIN queue' /\ queue'[i] = queue[i]
        /\ Len(queue) + 1 \in DOMAIN queue' /\ queue'[Len(queue) + 1] = "apply"
        /\ \A i \in DOMAIN queue' : i \in DOMAIN queue \/ i = Len(queue) + 1
    BY ONLY <1>1, <1>2, Joins
  <2>2. QED
    BY <2>1 DEF OneHandler, Awaited
<1>3. CASE queue' = queue \o <<"apply", "apply">>
  <2>1. queue' = (queue \o <<"apply">>) \o <<"apply">>
    BY <1>1, <1>3
  <2> DEFINE q == queue \o <<"apply">>
  <2>2. /\ q \in Seq(Lifecycle)
        /\ \A i \in DOMAIN queue : i \in DOMAIN q /\ q[i] = queue[i]
        /\ \A i \in DOMAIN q : i \in DOMAIN queue \/ q[i] = "apply"
    BY <1>1, Joins DEF Lifecycle
  <2>3. queue' = q \o <<"apply">>
    BY <2>1
  <2> HIDE DEF q
  <2>a. /\ queue' \in Seq(Lifecycle) /\ queue' # <<>>
        /\ \A i \in DOMAIN q : i \in DOMAIN queue' /\ queue'[i] = q[i]
        /\ Len(q) + 1 \in DOMAIN queue' /\ queue'[Len(q) + 1] = "apply"
        /\ \A i \in DOMAIN queue' : i \in DOMAIN q \/ i = Len(q) + 1
    BY ONLY <1>1, <2>2, <2>3, Joins
  <2>4. /\ queue' \in Seq(Lifecycle) /\ queue' # <<>>
        /\ \A i \in DOMAIN q : i \in DOMAIN queue' /\ queue'[i] = q[i]
        /\ \A i \in DOMAIN queue' : i \in DOMAIN q \/ queue'[i] = "apply"
        /\ \E i \in DOMAIN queue' : queue'[i] = "apply"
    BY ONLY <2>a
  <2>5. QED
    BY <2>2, <2>4 DEF OneHandler, Awaited
<1>4. QED
  BY <1>2, <1>3

\* The handler of the `modules' lock, which awaits nothing yet, enqueues an operation.
LEMMA HandlerJoins ==
  ASSUME TypeOK, OneHandler, Awaited = "none",
         NEW x \in Lifecycle \ {"apply"}, queue' = queue \o <<x>>, Awaited' = x, op' = op
  PROVE  /\ queue' \in Seq(Lifecycle)
         /\ OneHandler'
         /\ \E i \in DOMAIN queue' : queue'[i] = x
         /\ \A i \in DOMAIN queue : i \in DOMAIN queue' /\ queue'[i] = queue[i]
<1>1. queue \in Seq(Lifecycle)
  BY DEF TypeOK, Lifecycle
<1>2. \A i \in DOMAIN queue : queue[i] = "apply"
  BY <1>1 DEF OneHandler, Lifecycle
<1>3. op' \notin {"enable", "reload"}
  BY DEF OneHandler
<1>4. QED
  BY SMTT(30), <1>1, <1>2, <1>3, Joins DEF OneHandler

\* The next operation of the lifecycle leaves the queue.
LEMMA Dequeued ==
  ASSUME TypeOK, OneHandler, NEW x, Dequeue(x)
  PROVE  /\ queue' \in Seq(Lifecycle) /\ x \in Lifecycle
         /\ \E i \in DOMAIN queue : queue[i] = x
         /\ \A i \in DOMAIN queue' : i + 1 \in DOMAIN queue /\ queue'[i] = queue[i + 1]
         /\ \A i \in DOMAIN queue : queue[i] = x \/ \E j \in DOMAIN queue' : queue'[j] = queue[i]
         /\ x # "apply" => x = Awaited /\ \A i \in DOMAIN queue' : queue'[i] = "apply"
         /\ x = "apply" => \A i \in DOMAIN queue' : queue'[i] # "apply" =>
              /\ queue'[i] = Awaited
              /\ \A j \in DOMAIN queue' : queue'[j] # "apply" => j = i
<1> USE DEF Dequeue
<1>1. queue \in Seq(Lifecycle) /\ queue # <<>> /\ op = "none"
  BY DEF TypeOK, Lifecycle
<1>2. /\ queue' \in Seq(Lifecycle) /\ x \in Lifecycle /\ 1 \in DOMAIN queue /\ queue[1] = x
      /\ \A i \in DOMAIN queue' : i + 1 \in DOMAIN queue /\ queue'[i] = queue[i + 1]
      /\ \A i \in DOMAIN queue : i = 1 \/ (i - 1 \in DOMAIN queue' /\ queue'[i - 1] = queue[i])
      /\ \A i \in DOMAIN queue' : i \in Nat \ {0}
  BY <1>1
<1>3. QED
  BY <1>1, <1>2 DEF OneHandler

\* What the handler of the lock keeps, or has released, is a registry entry.
LEMMA SavedTyped ==
  ASSUME saved \in [known : BOOLEAN, enabled : BOOLEAN],
         saved' = saved \/ saved' = [known |-> FALSE, enabled |-> FALSE]
  PROVE  saved' \in [known : BOOLEAN, enabled : BOOLEAN]
<1>1. CASE saved' = saved
  BY <1>1
<1>2. CASE saved' = [known |-> FALSE, enabled |-> FALSE]
  BY <1>2
<1>3. QED
  BY <1>1, <1>2

-----------------------------------------------------------------------------
(***************************************************************************)
(* The machines                                                            *)
(***************************************************************************)

\* applyPollers() resumes the connected machines and lets an apply look at them.
LEMMA ApplyPollersIInv == ASSUME IInv, ApplyPollers PROVE IInv'
<1> USE ConstantsAssumption DEF IInv, TypeOK, Nowhere, Connected, Activating, None, Contexts,
    module, machines, host, activations, handler, ApplyPollers, Resumed, SuspendAndResume,
    Enqueue
<1>q. /\ queue' \in Seq(Lifecycle) /\ queue' # <<>> /\ OneHandler'
      /\ \E i \in DOMAIN queue' : queue'[i] = "apply"
      /\ \A i \in DOMAIN queue : i \in DOMAIN queue' /\ queue'[i] = queue[i]
  BY AppliesJoin
<1>1. TypeOK'
  BY <1>q DEF Lifecycle
<1>2. OneHandler' /\ ReloadStages'
  BY <1>q DEF OneHandler, ReloadStages, Awaited
<1>3. SuspendedIsClosing' /\ SuspendedIsReturning' /\ LiveWhereItMay'
  BY <1>q DEF SuspendedIsClosing, SuspendedIsReturning, LiveWhereItMay
<1>4. ForgottenIsGone'
  BY <1>q DEF ForgottenIsGone
<1>5. OffIsStopped'
  BY <1>q DEF OffIsStopped, Pending, LiveWhereItMay
<1>6. StableRuntimes => ServedWhereConnected'
  BY <1>q DEF ServedWhereConnected, Quiet, Pending, OnItsWay, Current, SameRuntime
<1>7. QED
  BY <1>1, <1>2, <1>3, <1>4, <1>5, <1>6

\* The handler of a connect that commits is on its way back.
LEMMA CommitIInv == ASSUME IInv, NEW m \in Machines, Commit(m) PROVE IInv'
<1> USE ConstantsAssumption DEF IInv, TypeOK, Nowhere, Connected, Activating, None, Contexts,
    module, machines, host, activations, handler, Commit, SuspendAndResume
<1>1. TypeOK'
  <2>1. runtime' \in [Machines -> Contexts \cup {None}] /\ returning' \in Machines
    <3>1. CASE runtime[m] = 0
      <4>1. runtime' = [runtime EXCEPT ![m] = IF captured[m] = 1 THEN 2 ELSE 1]
        BY <3>1
      <4>2. QED
        BY <4>1
    <3>2. CASE runtime[m] # 0
      BY <3>2
    <3>3. QED
      BY <3>1, <3>2
  <2>2. /\ suspendedMachines' \subseteq Machines /\ failed' \subseteq Machines
        /\ live' \in [Machines -> Contexts \cup {None}]
        /\ cancelled' \subseteq {n \in Machines : captured'[n] # 0}
    <3>1. CASE runtime[m] = 0
      BY <3>1
    <3>2. CASE runtime[m] # 0
      BY <3>2
    <3>3. QED
      BY <3>1, <3>2
  <2>3. QED
    BY <2>1, <2>2
<1>2. OneHandler' /\ ReloadStages'
  BY DEF OneHandler, ReloadStages, Awaited
<1>3. SuspendedIsClosing' /\ SuspendedIsReturning' /\ LiveWhereItMay'
  <2>1. CASE runtime[m] = 0
    BY <2>1 DEF SuspendedIsClosing, SuspendedIsReturning, LiveWhereItMay
  <2>2. CASE runtime[m] # 0
    BY <2>2 DEF SuspendedIsClosing, SuspendedIsReturning, LiveWhereItMay
  <2>3. QED
    BY <2>1, <2>2
<1>4. ForgottenIsGone'
  BY DEF ForgottenIsGone
<1>5. OffIsStopped'
  BY DEF OffIsStopped, Pending, LiveWhereItMay
<1>6. StableRuntimes => ServedWhereConnected'
  BY DEF ServedWhereConnected, Quiet, Pending, OnItsWay, Current, SameRuntime
<1>7. QED
  BY <1>1, <1>2, <1>3, <1>4, <1>5, <1>6

\* conn:disconnect tears the machine down.
LEMMA DisconnectIInv == ASSUME IInv, NEW m \in Machines, Disconnect(m) PROVE IInv'
<1> USE ConstantsAssumption DEF IInv, TypeOK, Nowhere, Connected, Activating, None, Contexts,
    module, machines, host, activations, handler, Disconnect, SuspendAndResume
<1>1. TypeOK'
  BY DEF Lifecycle
<1>2. OneHandler' /\ ReloadStages'
  BY DEF OneHandler, ReloadStages, Awaited
<1>3. SuspendedIsClosing' /\ SuspendedIsReturning' /\ LiveWhereItMay'
  <2>1. SuspendedIsClosing' /\ LiveWhereItMay'
    BY DEF SuspendedIsClosing, LiveWhereItMay
  <2>2. SuspendedIsReturning'
    BY DEF SuspendedIsReturning
  <2>3. QED
    BY <2>1, <2>2
<1>4. ForgottenIsGone'
  BY DEF ForgottenIsGone
<1>5. OffIsStopped'
  BY DEF OffIsStopped, Pending, LiveWhereItMay
<1>6. StableRuntimes => ServedWhereConnected'
  BY DEF ServedWhereConnected, Quiet, Pending, OnItsWay, Current, SameRuntime
<1>7. QED
  BY <1>1, <1>2, <1>3, <1>4, <1>5, <1>6

\* A handler that comes back resumes its machine and lets applies look at them all.
LEMMA ReturnIInv == ASSUME IInv, Return PROVE IInv'
<1> USE ConstantsAssumption DEF IInv, TypeOK, Nowhere, Connected, Activating, None, Contexts,
    module, machines, host, activations, handler, Return, Resumed, SuspendAndResume, Enqueue
<1>q. /\ queue' \in Seq(Lifecycle) /\ OneHandler'
      /\ ~shuttingDown => \E i \in DOMAIN queue' : queue'[i] = "apply"
      /\ \A i \in DOMAIN queue : i \in DOMAIN queue' /\ queue'[i] = queue[i]
  <2>1. CASE shuttingDown /\ queue' = queue
    BY <2>1 DEF Lifecycle, OneHandler, Awaited
  <2>2. CASE queue' = queue \o <<"apply">> \/ queue' = queue \o <<"apply", "apply">>
    BY <2>2, AppliesJoin
  <2>3. QED
    BY <2>1, <2>2
<1>1. TypeOK'
  BY <1>q DEF Lifecycle
<1>2. OneHandler' /\ ReloadStages'
  BY <1>q DEF OneHandler, ReloadStages, Awaited
<1>3. SuspendedIsClosing' /\ SuspendedIsReturning' /\ LiveWhereItMay'
  BY <1>q DEF SuspendedIsClosing, SuspendedIsReturning, LiveWhereItMay
<1>4. ForgottenIsGone'
  BY <1>q DEF ForgottenIsGone
<1>5. OffIsStopped'
  BY <1>q DEF OffIsStopped, Pending, LiveWhereItMay
<1>6. StableRuntimes => ServedWhereConnected'
  BY <1>q DEF ServedWhereConnected, Quiet, Pending, OnItsWay, Current, SameRuntime
<1>7. QED
  BY <1>1, <1>2, <1>3, <1>4, <1>5, <1>6

\* A lost machine is torn down, and an apply looks at the others.
LEMMA LoseIInv == ASSUME IInv, NEW m \in Machines, Lose(m) PROVE IInv'
<1> USE ConstantsAssumption DEF IInv, TypeOK, Nowhere, Connected, Activating, None, Contexts,
    module, machines, host, activations, handler, Lose, SuspendAndResume, Enqueue
<1>q. /\ queue' \in Seq(Lifecycle) /\ OneHandler'
      /\ ~shuttingDown => \E i \in DOMAIN queue' : queue'[i] = "apply"
      /\ \A i \in DOMAIN queue : i \in DOMAIN queue' /\ queue'[i] = queue[i]
  <2>1. CASE shuttingDown /\ queue' = queue
    BY <2>1 DEF Lifecycle, OneHandler, Awaited
  <2>2. CASE queue' = queue \o <<"apply">> \/ queue' = queue \o <<"apply", "apply">>
    BY <2>2, AppliesJoin
  <2>3. QED
    BY <2>1, <2>2
<1>1. TypeOK'
  BY <1>q DEF Lifecycle
<1>2. OneHandler' /\ ReloadStages'
  BY <1>q DEF OneHandler, ReloadStages, Awaited
<1>3. SuspendedIsClosing' /\ SuspendedIsReturning' /\ LiveWhereItMay'
  BY <1>q DEF SuspendedIsClosing, SuspendedIsReturning, LiveWhereItMay
<1>4. ForgottenIsGone'
  BY <1>q DEF ForgottenIsGone
<1>5. OffIsStopped'
  BY <1>q DEF OffIsStopped, Pending, LiveWhereItMay
<1>6. StableRuntimes => ServedWhereConnected'
  BY <1>q DEF ServedWhereConnected, Quiet, Pending, OnItsWay, Current, SameRuntime
<1>7. QED
  BY <1>1, <1>2, <1>3, <1>4, <1>5, <1>6

\* The clean close begins.
LEMMA CleanCloseIInv == ASSUME IInv, CleanClose PROVE IInv'
<1> USE ConstantsAssumption DEF IInv, TypeOK, Nowhere, Connected, Activating, None, Contexts,
    module, machines, host, activations, handler, CleanClose
<1>1. TypeOK'
  BY DEF Lifecycle
<1>2. OneHandler' /\ ReloadStages'
  BY DEF OneHandler, ReloadStages, Awaited
<1>3. SuspendedIsClosing' /\ SuspendedIsReturning' /\ LiveWhereItMay'
  BY DEF SuspendedIsClosing, SuspendedIsReturning, LiveWhereItMay
<1>4. ForgottenIsGone'
  BY DEF ForgottenIsGone
<1>5. OffIsStopped'
  BY DEF OffIsStopped, Pending, LiveWhereItMay
<1>6. StableRuntimes => ServedWhereConnected'
  BY DEF ServedWhereConnected, Quiet, Pending, OnItsWay, Current, SameRuntime
<1>7. QED
  BY <1>1, <1>2, <1>3, <1>4, <1>5, <1>6

\* The host is suspended, and nothing runs any more.
LEMMA SuspendIInv == ASSUME IInv, Suspend PROVE IInv'
<1> USE ConstantsAssumption DEF IInv, TypeOK, Nowhere, Connected, Activating, None, Contexts,
    module, machines, host, activations, handler, Suspend, Interrupt, BumpGeneration
<1>1. TypeOK'
  BY DEF Lifecycle
<1>2. OneHandler' /\ ReloadStages'
  BY DEF OneHandler, ReloadStages, Awaited
<1>3. SuspendedIsClosing' /\ SuspendedIsReturning' /\ LiveWhereItMay'
  BY DEF SuspendedIsClosing, SuspendedIsReturning, LiveWhereItMay
<1>4. ForgottenIsGone'
  BY DEF ForgottenIsGone
<1>5. OffIsStopped'
  BY DEF OffIsStopped, Pending, LiveWhereItMay
<1>6. StableRuntimes => ServedWhereConnected'
  BY DEF ServedWhereConnected, Quiet, Pending, OnItsWay, Current, SameRuntime
<1>7. QED
  BY <1>1, <1>2, <1>3, <1>4, <1>5, <1>6

\* disconnectAll() comes after the host was suspended.
LEMMA DisconnectAllIInv == ASSUME IInv, DisconnectAll PROVE IInv'
<1> USE ConstantsAssumption DEF IInv, TypeOK, Nowhere, Connected, Activating, None, Contexts,
    module, machines, host, activations, handler, DisconnectAll
<1>1. TypeOK'
  BY DEF Lifecycle
<1>2. OneHandler' /\ ReloadStages'
  BY DEF OneHandler, ReloadStages, Awaited
<1>3. SuspendedIsClosing' /\ SuspendedIsReturning' /\ LiveWhereItMay'
  BY DEF SuspendedIsClosing, SuspendedIsReturning, LiveWhereItMay
<1>4. ForgottenIsGone'
  BY DEF ForgottenIsGone
<1>5. OffIsStopped'
  BY DEF OffIsStopped, Pending, LiveWhereItMay
<1>6. StableRuntimes => ServedWhereConnected'
  BY DEF ServedWhereConnected, Quiet, Pending, OnItsWay, Current, SameRuntime
<1>7. QED
  BY <1>1, <1>2, <1>3, <1>4, <1>5, <1>6

-----------------------------------------------------------------------------
(***************************************************************************)
(* The handlers of the `modules' lock                                      *)
(***************************************************************************)

\* setEnabled() stops what it switches off, and awaits an apply of its own.
LEMMA SetEnabledIInv == ASSUME IInv, NEW on \in BOOLEAN, SetEnabled(on) PROVE IInv'
<1> USE ConstantsAssumption DEF IInv, TypeOK, Nowhere, Connected, Activating, None, Contexts,
    module, machines, host, activations, handler, SetEnabled, Enqueue
<1>q. /\ queue' \in Seq(Lifecycle) /\ OneHandler'
      /\ \E i \in DOMAIN queue' : queue'[i] = "enable"
      /\ \A i \in DOMAIN queue : i \in DOMAIN queue' /\ queue'[i] = queue[i]
  <2>1. Awaited = "none" /\ Awaited' = "enable" /\ "enable" \in Lifecycle \ {"apply"}
    BY DEF Awaited, Lifecycle
  <2>2. QED
    BY <2>1, HandlerJoins
<1>1. TypeOK'
  BY <1>q DEF Lifecycle
<1>2. OneHandler' /\ ReloadStages'
  BY <1>q DEF OneHandler, ReloadStages, Awaited
<1>3. SuspendedIsClosing' /\ SuspendedIsReturning' /\ LiveWhereItMay'
  BY <1>q DEF SuspendedIsClosing, SuspendedIsReturning, LiveWhereItMay
<1>4. ForgottenIsGone'
  BY <1>q DEF ForgottenIsGone
<1>5. OffIsStopped'
  BY <1>q DEF OffIsStopped, Pending, LiveWhereItMay
<1>6. StableRuntimes => ServedWhereConnected'
  BY <1>q DEF ServedWhereConnected, Quiet, Pending, OnItsWay, Current, SameRuntime
<1>7. QED
  BY <1>1, <1>2, <1>3, <1>4, <1>5, <1>6

\* An import that switches the module off leaves the stopping to an apply.
LEMMA ImportSettingsIInv == ASSUME IInv, ImportSettings PROVE IInv'
<1> USE ConstantsAssumption DEF IInv, TypeOK, Nowhere, Connected, Activating, None, Contexts,
    module, machines, host, activations, handler, ImportSettings, Resumed, SuspendAndResume,
    Enqueue
<1>q. /\ queue' \in Seq(Lifecycle) /\ OneHandler'
      /\ ~shuttingDown => \E i \in DOMAIN queue' : queue'[i] = "apply"
      /\ \A i \in DOMAIN queue : i \in DOMAIN queue' /\ queue'[i] = queue[i]
  <2>1. CASE shuttingDown /\ queue' = queue
    BY <2>1 DEF Lifecycle, OneHandler, Awaited
  <2>2. CASE queue' = queue \o <<"apply">> \/ queue' = queue \o <<"apply", "apply">>
    BY <2>2, AppliesJoin
  <2>3. QED
    BY <2>1, <2>2
<1>1. TypeOK'
  BY ZenonT(30), <1>q DEF Lifecycle
<1>2. OneHandler' /\ ReloadStages'
  BY <1>q DEF OneHandler, ReloadStages, Awaited
<1>3. SuspendedIsClosing' /\ SuspendedIsReturning' /\ LiveWhereItMay'
  BY <1>q DEF SuspendedIsClosing, SuspendedIsReturning, LiveWhereItMay
<1>4. ForgottenIsGone'
  BY <1>q DEF ForgottenIsGone
<1>5. OffIsStopped'
  BY <1>q DEF OffIsStopped, Pending, LiveWhereItMay
<1>6. StableRuntimes => ServedWhereConnected'
  BY <1>q DEF ServedWhereConnected, Quiet, Pending, OnItsWay, Current, SameRuntime
<1>7. QED
  BY <1>1, <1>2, <1>3, <1>4, <1>5, <1>6

\* reload() interrupts, and awaits its operation.
LEMMA ReloadIInv == ASSUME IInv, Reload PROVE IInv'
<1> USE ConstantsAssumption DEF IInv, TypeOK, Nowhere, Connected, Activating, None, Contexts,
    module, machines, host, activations, handler, Reload, Enqueue, Interrupt, BumpGeneration,
    Release, Unsaved
<1>q. /\ queue' \in Seq(Lifecycle) /\ OneHandler'
      /\ \E i \in DOMAIN queue' : queue'[i] = "reload"
      /\ \A i \in DOMAIN queue : i \in DOMAIN queue' /\ queue'[i] = queue[i]
  <2>1. Awaited = "none" /\ Awaited' = "reload" /\ "reload" \in Lifecycle \ {"apply"}
    BY DEF Awaited, Lifecycle
  <2>2. QED
    BY <2>1, HandlerJoins
<1>1. TypeOK'
  BY <1>q DEF Lifecycle
<1>2. OneHandler' /\ ReloadStages'
  BY <1>q DEF OneHandler, ReloadStages, Awaited
<1>3. SuspendedIsClosing' /\ SuspendedIsReturning' /\ LiveWhereItMay'
  BY <1>q DEF SuspendedIsClosing, SuspendedIsReturning, LiveWhereItMay
<1>4. ForgottenIsGone'
  BY <1>q DEF ForgottenIsGone
<1>5. OffIsStopped'
  BY <1>q DEF OffIsStopped, Pending, LiveWhereItMay
<1>6. StableRuntimes => ServedWhereConnected'
  BY <1>q DEF ServedWhereConnected, Quiet, Pending, OnItsWay, Current, SameRuntime
<1>7. QED
  BY <1>1, <1>2, <1>3, <1>4, <1>5, <1>6

\* stop() interrupts, and awaits its operation.
LEMMA StopIInv == ASSUME IInv, Stop PROVE IInv'
<1> USE ConstantsAssumption DEF IInv, TypeOK, Nowhere, Connected, Activating, None, Contexts,
    module, machines, host, activations, handler, Stop, Enqueue, Interrupt, BumpGeneration,
    Release, Unsaved
<1>q. /\ queue' \in Seq(Lifecycle) /\ OneHandler'
      /\ \E i \in DOMAIN queue' : queue'[i] = "stop"
      /\ \A i \in DOMAIN queue : i \in DOMAIN queue' /\ queue'[i] = queue[i]
  <2>1. Awaited = "none" /\ Awaited' = "stop" /\ "stop" \in Lifecycle \ {"apply"}
    BY DEF Awaited, Lifecycle
  <2>2. QED
    BY <2>1, HandlerJoins
<1>1. TypeOK'
  BY <1>q DEF Lifecycle
<1>2. OneHandler' /\ ReloadStages'
  BY <1>q DEF OneHandler, ReloadStages, Awaited
<1>3. SuspendedIsClosing' /\ SuspendedIsReturning' /\ LiveWhereItMay'
  BY <1>q DEF SuspendedIsClosing, SuspendedIsReturning, LiveWhereItMay
<1>4. ForgottenIsGone'
  BY <1>q DEF ForgottenIsGone
<1>5. OffIsStopped'
  BY <1>q DEF OffIsStopped, Pending, LiveWhereItMay
<1>6. StableRuntimes => ServedWhereConnected'
  BY <1>q DEF ServedWhereConnected, Quiet, Pending, OnItsWay, Current, SameRuntime
<1>7. QED
  BY <1>1, <1>2, <1>3, <1>4, <1>5, <1>6

\* The installer promotes the new folder and reloads.
LEMMA PromoteIInv == ASSUME IInv, Promote PROVE IInv'
<1> USE ConstantsAssumption DEF IInv, TypeOK, Nowhere, Connected, Activating, None, Contexts,
    module, machines, host, activations, handler, Promote, Enqueue, Interrupt, BumpGeneration,
    Release, Unsaved
<1>q. /\ queue' \in Seq(Lifecycle) /\ OneHandler'
      /\ \E i \in DOMAIN queue' : queue'[i] = "reload"
      /\ \A i \in DOMAIN queue : i \in DOMAIN queue' /\ queue'[i] = queue[i]
  <2>1. Awaited = "none" /\ Awaited' = "reload" /\ "reload" \in Lifecycle \ {"apply"}
    BY DEF Awaited, Lifecycle
  <2>2. QED
    BY <2>1, HandlerJoins
<1>1. TypeOK'
  BY <1>q DEF Lifecycle
<1>2. OneHandler' /\ ReloadStages'
  BY <1>q DEF OneHandler, ReloadStages, Awaited
<1>3. SuspendedIsClosing' /\ SuspendedIsReturning' /\ LiveWhereItMay'
  BY <1>q DEF SuspendedIsClosing, SuspendedIsReturning, LiveWhereItMay
<1>4. ForgottenIsGone'
  BY <1>q DEF ForgottenIsGone
<1>5. OffIsStopped'
  BY <1>q DEF OffIsStopped, Pending, LiveWhereItMay
<1>6. StableRuntimes => ServedWhereConnected'
  BY <1>q DEF ServedWhereConnected, Quiet, Pending, OnItsWay, Current, SameRuntime
<1>7. QED
  BY <1>1, <1>2, <1>3, <1>4, <1>5, <1>6

\* The installer removes the folder and forgets the module.
LEMMA RemoveIInv == ASSUME IInv, Remove PROVE IInv'
<1> USE ConstantsAssumption DEF IInv, TypeOK, Nowhere, Connected, Activating, None, Contexts,
    module, machines, host, activations, handler, Remove, Enqueue, Interrupt, BumpGeneration,
    Release, Unsaved
<1>q. /\ queue' \in Seq(Lifecycle) /\ OneHandler'
      /\ \E i \in DOMAIN queue' : queue'[i] = "forget"
      /\ \A i \in DOMAIN queue : i \in DOMAIN queue' /\ queue'[i] = queue[i]
  <2>1. Awaited = "none" /\ Awaited' = "forget" /\ "forget" \in Lifecycle \ {"apply"}
    BY DEF Awaited, Lifecycle
  <2>2. QED
    BY <2>1, HandlerJoins
<1>1. TypeOK'
  BY <1>q DEF Lifecycle
<1>2. OneHandler' /\ ReloadStages'
  BY <1>q DEF OneHandler, ReloadStages, Awaited
<1>3. SuspendedIsClosing' /\ SuspendedIsReturning' /\ LiveWhereItMay'
  BY <1>q DEF SuspendedIsClosing, SuspendedIsReturning, LiveWhereItMay
<1>4. ForgottenIsGone'
  BY <1>q DEF ForgottenIsGone
<1>5. OffIsStopped'
  BY <1>q DEF OffIsStopped, Pending, LiveWhereItMay
<1>6. StableRuntimes => ServedWhereConnected'
  BY <1>q DEF ServedWhereConnected, Quiet, Pending, OnItsWay, Current, SameRuntime
<1>7. QED
  BY <1>1, <1>2, <1>3, <1>4, <1>5, <1>6

\* A rollback stops the module.
LEMMA UndoIInv == ASSUME IInv, Undo PROVE IInv'
<1> USE ConstantsAssumption DEF IInv, TypeOK, Nowhere, Connected, Activating, None, Contexts,
    module, machines, host, activations, handler, Undo, Enqueue, Interrupt, BumpGeneration,
    Release, Unsaved
<1>q. /\ queue' \in Seq(Lifecycle) /\ OneHandler'
      /\ \E i \in DOMAIN queue' : queue'[i] = "stop"
      /\ \A i \in DOMAIN queue : i \in DOMAIN queue' /\ queue'[i] = queue[i]
  <2>1. Awaited = "none" /\ Awaited' = "stop" /\ "stop" \in Lifecycle \ {"apply"}
    BY DEF Awaited, Lifecycle
  <2>2. QED
    BY <2>1, HandlerJoins
<1>1. TypeOK'
  BY <1>q DEF Lifecycle
<1>2. OneHandler' /\ ReloadStages'
  BY <1>q DEF OneHandler, ReloadStages, Awaited
<1>3. SuspendedIsClosing' /\ SuspendedIsReturning' /\ LiveWhereItMay'
  BY <1>q DEF SuspendedIsClosing, SuspendedIsReturning, LiveWhereItMay
<1>4. ForgottenIsGone'
  BY <1>q DEF ForgottenIsGone
<1>5. OffIsStopped'
  BY <1>q DEF OffIsStopped, Pending, LiveWhereItMay
<1>6. StableRuntimes => ServedWhereConnected'
  BY <1>q DEF ServedWhereConnected, Quiet, Pending, OnItsWay, Current, SameRuntime
<1>7. QED
  BY <1>1, <1>2, <1>3, <1>4, <1>5, <1>6

\* A rollback restores the folder and the registry.
LEMMA RestoreIInv == ASSUME IInv, Restore PROVE IInv'
<1> USE ConstantsAssumption DEF IInv, TypeOK, Nowhere, Connected, Activating, None, Contexts,
    module, machines, host, activations, handler, Restore, Enqueue, Interrupt, BumpGeneration,
    Release, Unsaved
<1>q. /\ queue' \in Seq(Lifecycle) /\ OneHandler'
      /\ saved.known => \E i \in DOMAIN queue' : queue'[i] = "reload"
      /\ \A i \in DOMAIN queue : i \in DOMAIN queue' /\ queue'[i] = queue[i]
  <2>1. CASE saved.known
    <3>1. Awaited = "none" /\ Awaited' = "reload" /\ "reload" \in Lifecycle \ {"apply"}
      BY <2>1 DEF Awaited, Lifecycle
    <3>2. QED
      BY <2>1, <3>1, HandlerJoins
  <2>2. CASE ~saved.known
    <3>1. Awaited = "none" /\ Awaited' = "none"
      BY <2>2 DEF Awaited
    <3>2. QED
      BY <2>2, <3>1 DEF OneHandler, Lifecycle
  <2>3. QED
    BY <2>1, <2>2
<1>1. TypeOK'
  <2>1. saved.known \in BOOLEAN /\ saved.enabled \in BOOLEAN
    OBVIOUS
  <2>2. {known', enabled', problem', folder'} \subseteq BOOLEAN
    BY <2>1
  <2>3. /\ admin' \in {"free", "restoring"} /\ removing' \in BOOLEAN
        /\ saved' \in [known : BOOLEAN, enabled : BOOLEAN]
    <3>1. saved' = saved \/ saved' = [known |-> FALSE, enabled |-> FALSE]
      OBVIOUS
    <3>2. admin' \in {"free", "restoring"} /\ removing' \in BOOLEAN
      OBVIOUS
    <3>3. QED
      BY <3>1, <3>2, SavedTyped
  <2>4. detached' \in BOOLEAN /\ (op' = "none" => ~detached' /\ ok')
    OBVIOUS
  <2>5. cancelled' \subseteq {n \in Machines : captured'[n] # 0}
    OBVIOUS
  <2>6. QED
    BY <1>q, <2>2, <2>3, <2>4, <2>5 DEF Lifecycle
<1>2. OneHandler' /\ ReloadStages'
  BY <1>q DEF OneHandler, ReloadStages, Awaited
<1>3. SuspendedIsClosing' /\ SuspendedIsReturning' /\ LiveWhereItMay'
  BY <1>q DEF SuspendedIsClosing, SuspendedIsReturning, LiveWhereItMay
<1>4. ForgottenIsGone'
  BY <1>q DEF ForgottenIsGone
<1>5. OffIsStopped'
  BY <1>q DEF OffIsStopped, Pending, LiveWhereItMay
<1>6. StableRuntimes => ServedWhereConnected'
  BY <1>q DEF ServedWhereConnected, Quiet, Pending, OnItsWay, Current, SameRuntime
<1>7. QED
  BY <1>1, <1>2, <1>3, <1>4, <1>5, <1>6

-----------------------------------------------------------------------------
(***************************************************************************)
(* The lifecycle operations                                                *)
(***************************************************************************)

\* applyNow() stops what is stale, and activates where nothing runs.
LEMMA StartApplyIInv == ASSUME IInv, NEW x \in {"apply", "enable"}, StartApply(x) PROVE IInv'
<1> USE ConstantsAssumption DEF IInv, TypeOK, Nowhere, Connected, Activating, None, Contexts,
    module, machines, host, activations, handler, StartApply, EnableAnswered, Release, Unsaved,
    Answered, Thrown, NotStale, SameRuntime, IsEnabled, Activate
<1>s. /\ saved' \in [known : BOOLEAN, enabled : BOOLEAN]
      /\ removing' \in BOOLEAN /\ admin' \in {admin, "free", "failed"}
  <2>1. saved' = saved \/ saved' = [known |-> FALSE, enabled |-> FALSE]
    OBVIOUS
  <2>2. removing' \in {removing, FALSE} /\ admin' \in {admin, "free", "failed"}
    OBVIOUS
  <2>3. QED
    BY <2>1, <2>2, SavedTyped
<1>q. /\ queue' \in Seq(Lifecycle)
      /\ \E i \in DOMAIN queue : queue[i] = x
      /\ \A i \in DOMAIN queue' : i + 1 \in DOMAIN queue /\ queue'[i] = queue[i + 1]
      /\ \A i \in DOMAIN queue : queue[i] = x \/ \E j \in DOMAIN queue' : queue'[j] = queue[i]
      /\ x # "apply" => x = Awaited /\ \A i \in DOMAIN queue' : queue'[i] = "apply"
      /\ x = "apply" => \A i \in DOMAIN queue' : queue'[i] # "apply" =>
           /\ queue'[i] = Awaited
           /\ \A j \in DOMAIN queue' : queue'[j] # "apply" => j = i
  BY Dequeued
<1>o. op = "none"
  BY DEF Dequeue
<1>1. TypeOK'
  <2>1. CASE suspended
    BY <1>q, <1>o, <1>s, <2>1 DEF Lifecycle
  <2>2. CASE ~suspended
    <3>1. /\ live' \in [Machines -> Contexts \cup {None}]
          /\ captured' \in [Machines -> Contexts \cup {None}]
          /\ failed' \subseteq Machines
      <4>1. live' \in [Machines -> Contexts \cup {None}]
        BY <2>2
      <4>2. captured' \in [Machines -> Contexts \cup {None}]
        BY <2>2
      <4>3. failed' \subseteq Machines
        BY ZenonT(30), <2>2
      <4>4. QED
        BY <4>1, <4>2, <4>3
    <3>2. op' = x /\ stage' = "compiling" /\ cancelled' = {} /\ detached' = FALSE /\ ok' \in BOOLEAN
      BY <2>2
    <3>3. /\ problem' \in BOOLEAN
          /\ UNCHANGED <<handler, known, enabled, folder, machines>>
          /\ UNCHANGED <<shuttingDown, suspended, suspendedMachines>>
      BY <2>2
    <3>4. QED
      BY ZenonT(30), <1>q, <3>1, <3>2, <3>3 DEF Lifecycle
  <2>3. QED
    BY <2>1, <2>2
<1>2. OneHandler' /\ ReloadStages'
  BY <1>q, <1>o DEF OneHandler, ReloadStages, Awaited
<1>3. SuspendedIsClosing' /\ SuspendedIsReturning' /\ LiveWhereItMay'
  <2>1. SuspendedIsClosing' /\ SuspendedIsReturning'
    BY DEF SuspendedIsClosing, SuspendedIsReturning
  <2>2. CASE suspended
    BY <2>1, <2>2 DEF LiveWhereItMay
  <2>3. CASE ~suspended
    BY <2>1, <2>3 DEF LiveWhereItMay
  <2>4. QED
    BY <2>2, <2>3
<1>4. ForgottenIsGone'
  <2>1. CASE suspended
    BY <2>1 DEF ForgottenIsGone
  <2>2. CASE ~suspended
    BY <2>2 DEF ForgottenIsGone
  <2>3. QED
    BY <2>1, <2>2
<1>5. OffIsStopped'
  <2>1. CASE suspended
    BY <2>1 DEF OffIsStopped, SuspendedIsClosing
  <2>2. CASE ~suspended
    BY <2>2 DEF OffIsStopped
  <2>3. QED
    BY <2>1, <2>2
<1>6. StableRuntimes => ServedWhereConnected'
  <2>1. CASE suspended
    BY <2>1 DEF ServedWhereConnected, Quiet, SuspendedIsClosing
  <2>2. CASE ~suspended
    <3> SUFFICES ASSUME StableRuntimes = TRUE, Quiet', known, enabled,
                        problem' => \E k \in Machines : OnItsWay(k)',
                        NEW n \in Machines, runtime[n] # 0, n \notin failed'
                 PROVE  live'[n] = runtime[n] \/ OnItsWay(n)'
      BY <2>2 DEF ServedWhereConnected
    <3>1. n \notin suspendedMachines
      BY <2>2 DEF Quiet, SuspendedIsReturning
    <3>2. CASE live'[n] # 0
      BY <2>2, <3>2
    <3>3. CASE live'[n] = 0 /\ folder /\ ~problem
      BY <2>2, <3>1, <3>3 DEF OnItsWay, Current
    <3>4. CASE ~folder /\ ~problem /\ live'[n] = 0
      BY <2>2, <3>1, <3>4
    <3>5. CASE problem
      <4>1. problem' = TRUE
        BY <2>2, <3>5
      <4>2. \A k \in Machines : captured'[k] = 0
        BY <2>2, <3>5
      <4>3. QED
        BY <4>1, <4>2 DEF OnItsWay
    <3>6. QED
      BY <3>2, <3>3, <3>4, <3>5
  <2>3. QED
    BY <2>1, <2>2
<1>7. QED
  BY <1>1, <1>2, <1>3, <1>4, <1>5, <1>6

\* The activations that are overtaken while it compiles are dropped.
LEMMA CompiledIInv == ASSUME IInv, Compiled PROVE IInv'
<1> USE ConstantsAssumption DEF IInv, TypeOK, Nowhere, Connected, Activating, None, Contexts,
    module, machines, host, activations, handler, Compiled, EnableAnswered, Release, Unsaved,
    Answered, Thrown, NotStale, SameRuntime, IsEnabled, Activate
<1>1. TypeOK'
  BY DEF Lifecycle
<1>2. OneHandler' /\ ReloadStages'
  BY DEF OneHandler, ReloadStages, Awaited
<1>3. SuspendedIsClosing' /\ SuspendedIsReturning' /\ LiveWhereItMay'
  BY DEF SuspendedIsClosing, SuspendedIsReturning, LiveWhereItMay
<1>4. ForgottenIsGone'
  BY DEF ForgottenIsGone, Current
<1>5. OffIsStopped'
  BY DEF OffIsStopped, Pending, LiveWhereItMay
<1>6. StableRuntimes => ServedWhereConnected'
  BY DEF ServedWhereConnected, Quiet, Pending, OnItsWay, Current, SameRuntime
<1>7. QED
  BY <1>1, <1>2, <1>3, <1>4, <1>5, <1>6

\* An activation goes live only while it is current.
LEMMA ImportedIInv == ASSUME IInv, NEW m \in Machines, Imported(m) PROVE IInv'
<1> USE ConstantsAssumption DEF IInv, TypeOK, Nowhere, Connected, Activating, None, Contexts,
    module, machines, host, activations, handler, Imported, EnableAnswered, Release, Unsaved,
    Answered, Thrown, NotStale, SameRuntime, IsEnabled, Activate
<1>1. TypeOK'
  BY ZenonT(30) DEF Lifecycle
<1>2. OneHandler' /\ ReloadStages'
  BY DEF OneHandler, ReloadStages, Awaited
<1>3. SuspendedIsClosing' /\ SuspendedIsReturning' /\ LiveWhereItMay'
  <2>1. SuspendedIsClosing' /\ SuspendedIsReturning'
    BY DEF SuspendedIsClosing, SuspendedIsReturning
  <2>2. LiveWhereItMay'
    BY DEF LiveWhereItMay, Current
  <2>3. QED
    BY <2>1, <2>2
<1>4. ForgottenIsGone'
  BY DEF ForgottenIsGone, Current
<1>5. OffIsStopped'
  <2>1. CASE Current(m) /\ live[m] = 0
    BY <2>1 DEF OffIsStopped, Current
  <2>2. CASE live' = live
    BY <2>2 DEF OffIsStopped, Pending
  <2>3. QED
    BY <2>1, <2>2
<1>6. StableRuntimes => ServedWhereConnected'
  <2> SUFFICES ASSUME StableRuntimes, Quiet, known, enabled,
                      problem' => \E n \in Machines : OnItsWay(n)',
                      NEW n \in Machines, runtime[n] # 0, n \notin failed'
               PROVE  live'[n] = runtime[n] \/ OnItsWay(n)'
    BY DEF ServedWhereConnected, Quiet, Pending
  <2>1. \A k \in Machines \ {m} : OnItsWay(k)' <=> OnItsWay(k)
    BY DEF OnItsWay, Current
  <2>2. ~OnItsWay(m)'
    BY DEF OnItsWay
  <2>3. CASE Current(m) /\ live[m] = 0 /\ live' = [live EXCEPT ![m] = captured[m]]
    <3>1. OnItsWay(m)
      BY <2>3 DEF OnItsWay
    <3>2. CASE n = m
      BY <2>3, <3>2 DEF Current
    <3>3. CASE n # m
      BY <2>1, <2>3, <3>1, <3>3 DEF ServedWhereConnected
    <3>4. QED
      BY <3>2, <3>3
  <2>4. CASE ~(Current(m) /\ live[m] = 0) /\ problem' = problem /\ live' = live
    <3>1. live[n] = runtime[n] \/ OnItsWay(n)
      BY <2>1, <2>2, <2>4 DEF ServedWhereConnected
    <3>2. QED
      BY <2>1, <2>4, <3>1 DEF LiveWhereItMay, OnItsWay
  <2>5. CASE failed' = failed \cup {m} /\ live' = live
    BY <2>1, <2>2, <2>5 DEF ServedWhereConnected
  <2>6. QED
    BY <2>3, <2>4, <2>5
<1>7. QED
  BY <1>1, <1>2, <1>3, <1>4, <1>5, <1>6

\* The end of an apply stops what is stale.
LEMMA EndApplyIInv == ASSUME IInv, EndApply PROVE IInv'
<1> USE ConstantsAssumption DEF IInv, TypeOK, Nowhere, Connected, Activating, None, Contexts,
    module, machines, host, activations, handler, EndApply, EnableAnswered, Release, Unsaved,
    Answered, Thrown, NotStale, SameRuntime, IsEnabled, Activate
<1>s. /\ saved' \in [known : BOOLEAN, enabled : BOOLEAN]
      /\ removing' \in BOOLEAN /\ admin' \in {admin, "free", "failed"}
  <2>1. saved' = saved \/ saved' = [known |-> FALSE, enabled |-> FALSE]
    OBVIOUS
  <2>2. removing' \in {removing, FALSE} /\ admin' \in {admin, "free", "failed"}
    OBVIOUS
  <2>3. QED
    BY <2>1, <2>2, SavedTyped
<1>1. TypeOK'
  BY <1>s DEF Lifecycle
<1>2. OneHandler' /\ ReloadStages'
  BY DEF OneHandler, ReloadStages, Awaited
<1>3. SuspendedIsClosing' /\ SuspendedIsReturning' /\ LiveWhereItMay'
  BY DEF SuspendedIsClosing, SuspendedIsReturning, LiveWhereItMay
<1>4. ForgottenIsGone'
  BY DEF ForgottenIsGone
<1>5. OffIsStopped'
  BY DEF OffIsStopped, Pending, LiveWhereItMay
<1>6. StableRuntimes => ServedWhereConnected'
  BY DEF ServedWhereConnected, Quiet, Pending, OnItsWay, Current, LiveWhereItMay, OneHandler,
      Awaited
<1>7. QED
  BY <1>1, <1>2, <1>3, <1>4, <1>5, <1>6

\* reloadNow() starts, or is refused.
LEMMA StartReloadIInv == ASSUME IInv, StartReload PROVE IInv'
<1> USE ConstantsAssumption DEF IInv, TypeOK, Nowhere, Connected, Activating, None, Contexts,
    module, machines, host, activations, handler, StartReload, EnableAnswered, Release,
    Unsaved, Answered, Thrown, NotStale, SameRuntime, IsEnabled, Activate
<1>s. /\ saved' \in [known : BOOLEAN, enabled : BOOLEAN]
      /\ removing' \in BOOLEAN /\ admin' \in {admin, "free", "failed"}
  <2>1. saved' = saved \/ saved' = [known |-> FALSE, enabled |-> FALSE]
    OBVIOUS
  <2>2. removing' \in {removing, FALSE} /\ admin' \in {admin, "free", "failed"}
    OBVIOUS
  <2>3. QED
    BY <2>1, <2>2, SavedTyped
<1>q. /\ queue' \in Seq(Lifecycle)
      /\ \E i \in DOMAIN queue : queue[i] = "reload"
      /\ \A i \in DOMAIN queue' : i + 1 \in DOMAIN queue /\ queue'[i] = queue[i + 1]
      /\ \A i \in DOMAIN queue :
           queue[i] = "reload" \/ \E j \in DOMAIN queue' : queue'[j] = queue[i]
      /\ "reload" = Awaited /\ \A i \in DOMAIN queue' : queue'[i] = "apply"
  BY Dequeued
<1>o. op = "none"
  BY DEF Dequeue
<1>1. TypeOK'
  BY <1>q, <1>o, <1>s DEF Lifecycle
<1>2. OneHandler' /\ ReloadStages'
  BY <1>q, <1>o DEF OneHandler, ReloadStages, Awaited
<1>3. SuspendedIsClosing' /\ SuspendedIsReturning' /\ LiveWhereItMay'
  BY <1>q, <1>o DEF SuspendedIsClosing, SuspendedIsReturning, LiveWhereItMay
<1>4. ForgottenIsGone'
  BY <1>q, <1>o DEF ForgottenIsGone
<1>5. OffIsStopped'
  BY <1>q, <1>o DEF OffIsStopped, Pending, LiveWhereItMay
<1>6. StableRuntimes => ServedWhereConnected'
  BY <1>q, <1>o DEF ServedWhereConnected, Quiet, Pending, OnItsWay, Current, ReloadStages,
      SuspendedIsClosing
<1>7. QED
  BY <1>1, <1>2, <1>3, <1>4, <1>5, <1>6

\* reloadNow() activates the module again, or is refused.
LEMMA ReloadCompiledIInv == ASSUME IInv, ReloadCompiled PROVE IInv'
<1> USE ConstantsAssumption DEF IInv, TypeOK, Nowhere, Connected, Activating, None, Contexts,
    module, machines, host, activations, handler, ReloadCompiled, ReloadRefused,
    EnableAnswered, Release, Unsaved, Answered, Thrown, NotStale, SameRuntime, IsEnabled,
    Activate
<1>s. /\ saved' \in [known : BOOLEAN, enabled : BOOLEAN]
      /\ removing' \in BOOLEAN /\ admin' \in {admin, "free", "failed"}
  <2>1. saved' = saved \/ saved' = [known |-> FALSE, enabled |-> FALSE]
    OBVIOUS
  <2>2. removing' \in {removing, FALSE} /\ admin' \in {admin, "free", "failed"}
    OBVIOUS
  <2>3. QED
    BY <2>1, <2>2, SavedTyped
<1>1. TypeOK'
  <2>1. /\ captured' \in [Machines -> Contexts \cup {None}]
        /\ cancelled' \subseteq {m \in Machines : captured'[m] # 0}
    OBVIOUS
  <2>2. /\ failed' \subseteq Machines /\ problem' \in BOOLEAN
        /\ op' \in {"none", "reload"} /\ stage' \in {"compiling", "importing"}
    OBVIOUS
  <2>3. /\ detached' \in BOOLEAN /\ ok' \in BOOLEAN
        /\ op' = "none" => detached' = FALSE /\ ok' = TRUE /\ captured' = captured
    BY DEF ReloadStages
  <2>4. op' = "none" => \A m \in Machines : captured'[m] = 0
    BY <2>3 DEF ReloadStages
  <2>5. QED
    BY <1>s, <2>1, <2>2, <2>3, <2>4 DEF Lifecycle
<1>2. OneHandler' /\ ReloadStages'
  BY DEF OneHandler, ReloadStages, Awaited
<1>3. SuspendedIsClosing' /\ SuspendedIsReturning' /\ LiveWhereItMay'
  BY DEF SuspendedIsClosing, SuspendedIsReturning, LiveWhereItMay
<1>4. ForgottenIsGone'
  BY DEF ForgottenIsGone, OneHandler, Awaited
<1>5. OffIsStopped'
  BY DEF OffIsStopped, Pending, LiveWhereItMay
<1>6. StableRuntimes => ServedWhereConnected'
  <2>1. CASE problem' = TRUE \/ suspended
    BY <2>1 DEF ServedWhereConnected, Quiet, OnItsWay, ReloadStages, SuspendedIsClosing
  <2>2. CASE ~suspended /\ problem' = FALSE
    BY <2>2 DEF ServedWhereConnected, Quiet, OnItsWay, Current, SuspendedIsReturning
  <2>3. QED
    BY <2>1, <2>2
<1>7. QED
  BY <1>1, <1>2, <1>3, <1>4, <1>5, <1>6

\* The end of a reload answers its caller.
LEMMA EndReloadIInv == ASSUME IInv, EndReload PROVE IInv'
<1> USE ConstantsAssumption DEF IInv, TypeOK, Nowhere, Connected, Activating, None, Contexts,
    module, machines, host, activations, handler, EndReload, EnableAnswered, Release, Unsaved,
    Answered, Thrown, NotStale, SameRuntime, IsEnabled, Activate
<1>s. /\ saved' \in [known : BOOLEAN, enabled : BOOLEAN]
      /\ removing' \in BOOLEAN /\ admin' \in {admin, "free", "failed"}
  <2>1. saved' = saved \/ saved' = [known |-> FALSE, enabled |-> FALSE]
    OBVIOUS
  <2>2. removing' \in {removing, FALSE} /\ admin' \in {admin, "free", "failed"}
    OBVIOUS
  <2>3. QED
    BY <2>1, <2>2, SavedTyped
<1>1. TypeOK'
  BY <1>s DEF Lifecycle, ReloadStages
<1>2. OneHandler' /\ ReloadStages'
  BY DEF OneHandler, ReloadStages, Awaited
<1>3. SuspendedIsClosing' /\ SuspendedIsReturning' /\ LiveWhereItMay'
  BY DEF SuspendedIsClosing, SuspendedIsReturning, LiveWhereItMay
<1>4. ForgottenIsGone'
  BY DEF ForgottenIsGone
<1>5. OffIsStopped'
  BY DEF OffIsStopped, Pending, LiveWhereItMay
<1>6. StableRuntimes => ServedWhereConnected'
  BY DEF ServedWhereConnected, Quiet, Pending, OnItsWay, Current, OneHandler, Awaited
<1>7. QED
  BY <1>1, <1>2, <1>3, <1>4, <1>5, <1>6

\* The operation of stop() answers the installer.
LEMMA StoppedIInv == ASSUME IInv, Stopped PROVE IInv'
<1> USE ConstantsAssumption DEF IInv, TypeOK, Nowhere, Connected, Activating, None, Contexts,
    module, machines, host, activations, handler, Stopped, EnableAnswered, Release, Unsaved,
    Answered, Thrown, NotStale, SameRuntime, IsEnabled, Activate
<1>q. /\ queue' \in Seq(Lifecycle)
      /\ \E i \in DOMAIN queue : queue[i] = "stop"
      /\ \A i \in DOMAIN queue' : i + 1 \in DOMAIN queue /\ queue'[i] = queue[i + 1]
      /\ \A i \in DOMAIN queue :
           queue[i] = "stop" \/ \E j \in DOMAIN queue' : queue'[j] = queue[i]
      /\ "stop" = Awaited /\ \A i \in DOMAIN queue' : queue'[i] = "apply"
  BY Dequeued
<1>o. op = "none"
  BY DEF Dequeue
<1>1. TypeOK'
  BY <1>q, <1>o DEF Lifecycle
<1>2. OneHandler' /\ ReloadStages'
  BY <1>q, <1>o DEF OneHandler, ReloadStages, Awaited
<1>3. SuspendedIsClosing' /\ SuspendedIsReturning' /\ LiveWhereItMay'
  BY <1>q, <1>o DEF SuspendedIsClosing, SuspendedIsReturning, LiveWhereItMay
<1>4. ForgottenIsGone'
  BY <1>q, <1>o DEF ForgottenIsGone
<1>5. OffIsStopped'
  BY <1>q, <1>o DEF OffIsStopped, Pending, LiveWhereItMay
<1>6. StableRuntimes => ServedWhereConnected'
  BY <1>q, <1>o DEF ServedWhereConnected, Quiet, Pending, OnItsWay, Current, SameRuntime
<1>7. QED
  BY <1>1, <1>2, <1>3, <1>4, <1>5, <1>6

\* forget() removes the module from the registry.
LEMMA ForgetIInv == ASSUME IInv, Forget PROVE IInv'
<1> USE ConstantsAssumption DEF IInv, TypeOK, Nowhere, Connected, Activating, None, Contexts,
    module, machines, host, activations, handler, Forget, EnableAnswered, Release, Unsaved,
    Answered, Thrown, NotStale, SameRuntime, IsEnabled, Activate
<1>s. /\ saved' \in [known : BOOLEAN, enabled : BOOLEAN]
      /\ removing' \in BOOLEAN /\ admin' \in {admin, "free", "failed"}
  <2>1. saved' = saved \/ saved' = [known |-> FALSE, enabled |-> FALSE]
    OBVIOUS
  <2>2. removing' \in {removing, FALSE} /\ admin' \in {admin, "free", "failed"}
    OBVIOUS
  <2>3. QED
    BY <2>1, <2>2, SavedTyped
<1>q. /\ queue' \in Seq(Lifecycle)
      /\ \E i \in DOMAIN queue : queue[i] = "forget"
      /\ \A i \in DOMAIN queue' : i + 1 \in DOMAIN queue /\ queue'[i] = queue[i + 1]
      /\ \A i \in DOMAIN queue :
           queue[i] = "forget" \/ \E j \in DOMAIN queue' : queue'[j] = queue[i]
      /\ "forget" = Awaited /\ \A i \in DOMAIN queue' : queue'[i] = "apply"
  BY Dequeued
<1>o. op = "none"
  BY DEF Dequeue
<1>1. TypeOK'
  BY <1>q, <1>o, <1>s DEF Lifecycle
<1>2. OneHandler' /\ ReloadStages'
  BY <1>q, <1>o DEF OneHandler, ReloadStages, Awaited
<1>3. SuspendedIsClosing' /\ SuspendedIsReturning' /\ LiveWhereItMay'
  BY <1>q, <1>o DEF SuspendedIsClosing, SuspendedIsReturning, LiveWhereItMay
<1>4. ForgottenIsGone'
  BY <1>q, <1>o DEF ForgottenIsGone
<1>5. OffIsStopped'
  BY <1>q, <1>o DEF OffIsStopped, ForgottenIsGone, Awaited
<1>6. StableRuntimes => ServedWhereConnected'
  BY <1>q, <1>o DEF ServedWhereConnected, Quiet, Pending, OnItsWay, Current, SameRuntime
<1>7. QED
  BY <1>1, <1>2, <1>3, <1>4, <1>5, <1>6

-----------------------------------------------------------------------------
(***************************************************************************)
(* The theorems                                                            *)
(***************************************************************************)

\* At the start nothing runs, and nothing is under way.
LEMMA InitIInv == Init => IInv
<1> SUFFICES ASSUME Init PROVE IInv
  OBVIOUS
<1> USE DEF Init, Nowhere, Unsaved, None, Connected, Activating
<1>1. TypeOK
  <2>1. queue \in Seq({"apply", "enable", "reload", "stop", "forget"})
    OBVIOUS
  <2>2. saved \in [known : BOOLEAN, enabled : BOOLEAN]
    OBVIOUS
  <2>3. {known, enabled, problem, folder} \subseteq BOOLEAN
    OBVIOUS
  <2>4. QED
    BY <2>1, <2>2, <2>3 DEF TypeOK
<1>2. OneHandler /\ ReloadStages /\ SuspendedIsClosing /\ SuspendedIsReturning
  BY DEF OneHandler, ReloadStages, SuspendedIsClosing, SuspendedIsReturning
<1>3. LiveWhereItMay /\ ForgottenIsGone /\ OffIsStopped /\ ServedWhereConnected
  BY DEF LiveWhereItMay, ForgottenIsGone, OffIsStopped, ServedWhereConnected
<1>4. QED
  BY <1>1, <1>2, <1>3 DEF IInv

\* Every step keeps the invariant.
LEMMA NextIInv == IInv /\ [Next]_vars => IInv'
<1> SUFFICES ASSUME IInv, [Next]_vars PROVE IInv'
  OBVIOUS
<1>1. CASE Environment
  BY <1>1, ApplyPollersIInv, ReturnIInv, CleanCloseIInv, SuspendIInv, DisconnectAllIInv,
     CommitIInv, DisconnectIInv, LoseIInv DEF Environment
<1>2. CASE Handlers
  BY <1>2, SetEnabledIInv, ImportSettingsIInv, ReloadIInv, StopIInv, PromoteIInv, RemoveIInv,
     UndoIInv, RestoreIInv DEF Handlers
<1>3. CASE Operations
  BY <1>3, StartApplyIInv, CompiledIInv, EndApplyIInv, ImportedIInv, StartReloadIInv,
     ReloadCompiledIInv, EndReloadIInv, StoppedIInv, ForgetIInv DEF Operations
<1>4. CASE UNCHANGED vars
  BY <1>4 DEF vars, module, machines, host, activations, handler, IInv, TypeOK, OneHandler,
     Awaited, ReloadStages, SuspendedIsClosing, SuspendedIsReturning, LiveWhereItMay,
     ForgottenIsGone, OffIsStopped, Pending, ServedWhereConnected, Quiet, OnItsWay, Current,
     SameRuntime, Activating, Connected, Nowhere
<1>5. QED
  BY <1>1, <1>2, <1>3, <1>4 DEF Next

\* The invariant holds of the host, whatever fairness its scheduling has.
THEOREM Invariance == Spec => []IInv
<1>1. Init => IInv
  BY InitIInv
<1>2. IInv /\ [Next]_vars => IInv'
  BY NextIInv
<1>3. QED
  BY <1>1, <1>2, PTL DEF Spec

\* An instance belongs to the context that is connected now, and there is none on a machine
\* that was torn down, or after the clean close: no activation that an await held up while
\* its machine, its module or the host went away comes through.
THEOREM RunsWhereItMay == Spec => []OnlyWhereItMay
<1>1. IInv => OnlyWhereItMay
  BY DEF IInv, LiveWhereItMay, OnlyWhereItMay
<1>2. QED
  BY <1>1, Invariance, PTL

\* Where the machine of a context is always the same object, a module that is on runs on
\* every connected machine but those where it threw, when the lifecycle queue has come to
\* rest.  Wherever it is, one that is off runs nowhere then, nor does one whose files an
\* uninstall has deleted.
THEOREM RestIsRight == Spec => []AtRest
<1>1. IInv /\ Rest => /\ \A operations : ~Pending(operations)
                     /\ Activating = {} /\ shuttingDown = FALSE
  BY DEF IInv, TypeOK, Rest, Pending
<1>2. IInv /\ StableRuntimes => RunsWhereConnected
  <2> SUFFICES ASSUME IInv, StableRuntimes, Rest, IsEnabled
               PROVE  \A m \in Connected(runtime) \ failed : live[m] = runtime[m]
    BY DEF RunsWhereConnected
  <2>1. Quiet
    BY <1>1 DEF Quiet, Rest
  <2>2. QED
    BY <1>1, <2>1 DEF IInv, ServedWhereConnected, OnItsWay, IsEnabled
<1>3. IInv => OffRunsNowhere
  <2>1. IInv /\ admin = "forgetting" => live = Nowhere
    BY DEF IInv, ForgottenIsGone
  <2>2. IInv /\ Rest /\ known /\ ~enabled => live = Nowhere
    BY <1>1 DEF IInv, TypeOK, OffIsStopped
  <2>3. QED
    BY <2>1, <2>2 DEF OffRunsNowhere
<1>4. IInv => AtRest
  BY <1>2, <1>3 DEF AtRest
<1>5. QED
  BY <1>4, Invariance, PTL

\* No module runs on any machine.
NothingLive == live = Nowhere

\* The server's resolveMachine() builds a new object at every call: with such a one no
\* activation is ever found to be current, and no module runs on any machine.
THEOREM NothingRuns == ASSUME ~StableRuntimes PROVE Spec => []NothingLive
<1>1. Init => NothingLive
  BY DEF Init, NothingLive
<1>2. NothingLive /\ [Next]_vars => NothingLive'
  <2> SUFFICES ASSUME live = Nowhere, [Next]_vars PROVE live' = Nowhere
    BY DEF NothingLive, Nowhere
  <2> USE DEF Nowhere
  <2>1. CASE UNCHANGED vars
    BY <2>1 DEF vars, host
  <2>2. CASE Environment
    BY <2>2 DEF Environment, ApplyPollers, Return, Resumed, SuspendAndResume, CleanClose,
       Suspend, Interrupt, DisconnectAll, Commit, Disconnect, Lose, host
  <2>3. CASE Handlers
    BY <2>3 DEF Handlers, SetEnabled, ImportSettings, Resumed, SuspendAndResume, Reload,
       Stop, Promote, Remove, Undo, Restore, Interrupt, host
  <2>4. CASE Operations
    <3>1. ASSUME NEW m \in Machines, Imported(m) PROVE live' = live
      BY <3>1 DEF Imported, Current, SameRuntime
    <3>2. NotStale = live
      BY DEF NotStale, SameRuntime
    <3>3. QED
      BY <2>4, <3>1, <3>2 DEF Operations, StartApply, Compiled, EndApply, StartReload,
         ReloadCompiled, EndReload, Stopped, Forget, activations, host
  <2>5. QED
    BY <2>1, <2>2, <2>3, <2>4 DEF Next
<1>3. QED
  BY <1>1, <1>2, PTL DEF Spec
=============================================================================
