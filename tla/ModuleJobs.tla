----------------------------- MODULE ModuleJobs ------------------------------
(***************************************************************************)
(* The long jobs of a module on one machine: the runners of the container, *)
(* service-fleet and openwrt modules (modules/*/main/jobs.ts), from the    *)
(* start of a job to its record, with the progress they push and the stop  *)
(* of their module, after which the host answers no call of its context    *)
(* (modules-host.ts contextFor()).                                         *)
(*                                                                         *)
(* A job has N items; a batch of the fleet's fan-out is one machine.  The  *)
(* host tears a module down by dispose() alone: when resetAll() runs, the  *)
(* modules of the machine have been suspended, so no reset() is ever       *)
(* called on a running one.                                                *)
(***************************************************************************)
EXTENDS Integers, FiniteSets, FiniteSetsExt

CONSTANTS Jobs,  \* jobs that may be started
          N      \* items of a job

Items == 1..N

\* The runner, and what a job's specification asks of it.
Shapes ==
  [engine: {"container"}, wide: BOOLEAN, abort: BOOLEAN]
    \cup [engine: {"fleet"}, wide: {FALSE}, abort: {FALSE}]
    \cup [engine: {"openwrt"}, wide: {FALSE}, abort: BOOLEAN]

VARIABLES
  shape,
  stage,       \* of each job; "detached": its run() goes on, out of `live`
  item,        \* status of its items
  done,        \* job.done
  batch,       \* fleet: the batch in flight; N + 1 while the sweep is refreshed
  cancelling,
  waiter,      \* container: whenFinished() of the job
  revoked,     \* the context of the module is revoked
  timer,       \* emitTimer
  unsent,      \* the browsers lack the last state
  fatal        \* uncaughtException or unhandledRejection: the server ends

vars == <<shape, stage, item, done, batch, cancelling, waiter, revoked, timer, unsent, fatal>>

Final == {"ok", "error", "cancelled", "skipped"}

TypeOK ==
  /\ shape \in Shapes
  /\ stage \in [Jobs -> {"idle", "live", "detached", "ended", "cleared", "gone"}]
  /\ item \in [Jobs -> [Items -> {"pending", "running"} \cup Final]]
  /\ done \in [Jobs -> 0..N] /\ batch \in [Jobs -> 0..N + 1]
  /\ cancelling \subseteq Jobs
  /\ waiter \in [Jobs -> {"none", "polling", "done"}]
  /\ revoked \in BOOLEAN /\ timer \in BOOLEAN /\ unsent \in BOOLEAN /\ fatal \in BOOLEAN

\* The state before any job, for a runner of the given shape.
InitWith(s) ==
  /\ shape = s
  /\ stage = [j \in Jobs |-> "idle"]
  /\ item = [j \in Jobs |-> [i \in Items |-> "pending"]]
  /\ done = [j \in Jobs |-> 0] /\ batch = [j \in Jobs |-> 0]
  /\ cancelling = {} /\ waiter = [j \in Jobs |-> "none"]
  /\ revoked = FALSE /\ timer = FALSE /\ unsent = FALSE /\ fatal = FALSE

Init == \E s \in Shapes : InitWith(s)

In(j, status) == {i \in Items : item[j][i] = status}
Runs(j) == stage[j] \in {"live", "detached"}

-----------------------------------------------------------------------------
(***************************************************************************)
(* emit(): at most one push per half second, and one more at its end.      *)
(***************************************************************************)

\* Mutant, not part of the specification: the timer that is set is not kept.
EmitDropped == timer' = FALSE /\ unsent' = TRUE

EmitNow == timer' = FALSE /\ unsent' = FALSE
EmitLater == timer' = TRUE /\ unsent' = TRUE

TimerFires ==
  /\ timer /\ EmitNow
  /\ UNCHANGED <<shape, stage, item, done, batch, cancelling, waiter, revoked, fatal>>

-----------------------------------------------------------------------------
(***************************************************************************)
(* The end of run().                                                       *)
(***************************************************************************)

\* Mutant, not part of the specification: the job is not taken out of `live`.
FinishLive(j, its) ==
  /\ item' = [item EXCEPT ![j] = its]
  /\ done' = [done EXCEPT ![j] = Cardinality({i \in Items : its[i] \in Final})]
  /\ batch' = [batch EXCEPT ![j] = 0]
  /\ UNCHANGED <<stage, cancelling>>
  /\ EmitNow

\* The job with these items is recorded and shown: what never ran is cancelled
\* or skipped.
Finish(j, its) ==
  LET left == {i \in Items : its[i] = "pending"}
      fill == IF j \in cancelling THEN "cancelled" ELSE "skipped"
      ran  == {i \in Items : its[i] # item[j][i]}
  IN /\ item' = [item EXCEPT ![j] = [i \in Items |-> IF i \in left THEN fill ELSE its[i]]]
     /\ done' = [done EXCEPT ![j] = @ + Cardinality(ran) + Cardinality(left)]
     /\ stage' = [stage EXCEPT ![j] = "ended"]
     /\ batch' = [batch EXCEPT ![j] = 0]
     /\ cancelling' = cancelling \ {j}
     /\ EmitNow

\* What is awaited for the job is over after dispose().  The runner of openwrt
\* looks at its generation and returns; the others emit, read the store and log,
\* and each of these throws, here or in the timer that emit() sets: nothing
\* catches it.
EndsRevoked(j) ==
  /\ revoked
  /\ stage' = [stage EXCEPT ![j] = "gone"]
  /\ fatal' = (shape.engine # "openwrt")
  /\ UNCHANGED <<item, done, batch, cancelling, timer, unsent>>

-----------------------------------------------------------------------------
(***************************************************************************)
(* The runners of container and openwrt: one item after the other, or, for *)
(* a wide container job, two at a time.                                    *)
(***************************************************************************)

\* An item of a module that runs is over; its worker goes on to the next one.
NextItem(j, i, status) ==
  LET its   == [item[j] EXCEPT ![i] = status]
      rest  == {k \in Items : its[k] = "pending"}
      busy  == {k \in Items : its[k] = "running"}
      stops == j \in cancelling \/ (shape.abort /\ \E k \in Items : its[k] = "error")
      fill  == IF j \in cancelling THEN "cancelled" ELSE "skipped"
  IN IF busy = {} /\ (stops \/ rest = {}) THEN Finish(j, its)
     ELSE /\ done' = [done EXCEPT ![j] = @ + 1 + IF stops THEN Cardinality(rest) ELSE 0]
          /\ item' = [item EXCEPT ![j] =
               IF stops THEN [k \in Items |-> IF k \in rest THEN fill ELSE its[k]]
               ELSE IF rest = {} THEN its ELSE [its EXCEPT ![Min(rest)] = "running"]]
          \* A worker that passes over the rest does not emit.
          /\ \/ EmitLater
             \/ timer' = FALSE /\ unsent' = (stops /\ rest # {})
          /\ UNCHANGED <<stage, batch, cancelling>>

\* The work of an item resolves, rejects or, in container, takes too long.
ItemEnds(j, i) ==
  /\ Runs(j) /\ item[j][i] = "running"
  /\ \/ EndsRevoked(j)
     \/ /\ ~revoked /\ UNCHANGED fatal
        /\ \E status \in {"ok", IF j \in cancelling THEN "cancelled" ELSE "error"} :
             NextItem(j, i, status)
  /\ UNCHANGED <<shape, waiter, revoked>>

-----------------------------------------------------------------------------
(***************************************************************************)
(* The runner of service-fleet: startJob() and runFanout().                *)
(***************************************************************************)

\* A batch has answered.  The answers are reported when the last one has, or
\* when the job is cancelled; then the machines are read again.
BatchAnswers(j) ==
  /\ Runs(j) /\ batch[j] \in Items
  /\ \/ EndsRevoked(j)
     \/ /\ ~revoked /\ batch[j] < N /\ j \notin cancelling
        /\ batch' = [batch EXCEPT ![j] = @ + 1]
        /\ UNCHANGED <<stage, item, done, cancelling, timer, unsent, fatal>>
     \/ /\ ~revoked /\ (batch[j] = N \/ j \in cancelling)
        /\ UNCHANGED fatal
        /\ \E good \in SUBSET (1..batch[j]) :
             LET its == [i \in Items |-> IF i > batch[j] THEN item[j][i]
                                         ELSE IF i \in good THEN "ok" ELSE "error"]
             IN IF j \in cancelling THEN Finish(j, its)
                ELSE /\ item' = [item EXCEPT ![j] = its]
                     /\ done' = [done EXCEPT ![j] = @ + batch[j]]
                     /\ batch' = [batch EXCEPT ![j] = N + 1]
                     /\ \/ EmitLater \/ EmitNow
                     /\ UNCHANGED <<stage, cancelling>>
  /\ UNCHANGED <<shape, waiter, revoked>>

\* exec() of a batch throws: the answers so far are lost with it, and every item
\* is an error.
BatchThrows(j) ==
  /\ Runs(j) /\ batch[j] \in Items
  /\ \/ EndsRevoked(j)
     \/ ~revoked /\ UNCHANGED fatal /\ Finish(j, [i \in Items |-> "error"])
  /\ UNCHANGED <<shape, waiter, revoked>>

\* The machines have been read again, or could not be.
Refreshed(j) ==
  /\ Runs(j) /\ batch[j] = N + 1
  /\ \/ EndsRevoked(j)
     \/ ~revoked /\ UNCHANGED fatal /\ Finish(j, item[j])
  /\ UNCHANGED <<shape, waiter, revoked>>

-----------------------------------------------------------------------------
(***************************************************************************)
(* The calls of the module's methods.                                      *)
(***************************************************************************)

\* start(): the job is shown and run() goes up to its first await.
Start(j) ==
  /\ stage[j] = "idle" /\ ~revoked
  /\ stage' = [stage EXCEPT ![j] = "live"]
  /\ IF shape.engine = "fleet"
     THEN batch' = [batch EXCEPT ![j] = 1] /\ EmitNow /\ UNCHANGED item
     ELSE /\ item' = [item EXCEPT ![j] =
               [i \in Items |-> IF i = 1 \/ (shape.wide /\ i = 2) THEN "running" ELSE "pending"]]
          /\ EmitLater /\ UNCHANGED batch
  /\ \E polls \in {FALSE, shape.engine = "container"} :
       waiter' = [waiter EXCEPT ![j] = IF polls THEN "polling" ELSE "none"]
  /\ UNCHANGED <<shape, done, cancelling, revoked, fatal>>

\* cancel(); container shows it with the next item.
Cancel(j) ==
  /\ stage[j] = "live" /\ ~revoked /\ j \notin cancelling
  /\ cancelling' = cancelling \cup {j}
  /\ IF shape.engine = "container" THEN UNCHANGED <<timer, unsent>> ELSE EmitNow
  /\ UNCHANGED <<shape, stage, item, done, batch, waiter, revoked, fatal>>

ClearFinished ==
  /\ ~revoked /\ \E j \in Jobs : stage[j] = "ended"
  /\ stage' = [j \in Jobs |-> IF stage[j] = "ended" THEN "cleared" ELSE stage[j]]
  /\ EmitNow
  /\ UNCHANGED <<shape, item, done, batch, cancelling, waiter, revoked, fatal>>

\* whenFinished() looks every half second; list() reads the store, which needs
\* the context.
Poll(j) ==
  /\ waiter[j] = "polling" /\ (revoked \/ stage[j] # "live")
  /\ IF revoked THEN fatal' = TRUE /\ UNCHANGED waiter
     ELSE waiter' = [waiter EXCEPT ![j] = "done"] /\ UNCHANGED fatal
  /\ UNCHANGED <<shape, stage, item, done, batch, cancelling, revoked, timer, unsent>>

\* The host stops the module or tears its machine down: dispose(), then the
\* context is revoked.
Dispose ==
  /\ ~revoked /\ revoked' = TRUE
  /\ stage' = [j \in Jobs |-> IF stage[j] = "live" THEN "detached" ELSE stage[j]]
  /\ cancelling' = cancelling \cup {j \in Jobs : stage[j] = "live"}
  /\ timer' = FALSE /\ UNCHANGED unsent
  /\ UNCHANGED <<shape, item, done, batch, waiter, fatal>>

-----------------------------------------------------------------------------
Next ==
  /\ ~fatal
  /\ \/ ClearFinished \/ Dispose \/ TimerFires
     \/ \E j \in Jobs : \/ Start(j) \/ Cancel(j) \/ Poll(j)
                        \/ \E i \in Items : ItemEnds(j, i)
                        \/ BatchAnswers(j) \/ BatchThrows(j) \/ Refreshed(j)

\* Timers fire, and what an item awaits ends: a command has a timeout, and
\* container waits for no item longer than itemTimeoutMs.
Fairness ==
  /\ WF_vars(~fatal /\ TimerFires)
  /\ \A j \in Jobs : /\ WF_vars(~fatal /\ Poll(j))
                     /\ \A i \in Items : WF_vars(~fatal /\ ItemEnds(j, i))
                     /\ WF_vars(~fatal /\ (BatchAnswers(j) \/ BatchThrows(j)))
                     /\ WF_vars(~fatal /\ Refreshed(j))

Spec == Init /\ [][Next]_vars /\ Fairness

-----------------------------------------------------------------------------
(***************************************************************************)
(* The properties.                                                         *)
(***************************************************************************)

\* What `done` counts is what has ended, and a recorded job has no item open,
\* however its workers, its cancellation and its first error were interleaved.
JobsAreWhole ==
  \A j \in Jobs :
    /\ stage[j] = "live" => done[j] = Cardinality({i \in Items : item[j][i] \in Final})
    /\ stage[j] \in {"ended", "cleared"} => /\ done[j] = N
                                            /\ \A i \in Items : item[j][i] \in Final

\* A state that the browsers lack is pushed by a timer, except what a worker of
\* container passed over while the other one is still at work: its end shows it.
NothingIsLeftUnsent ==
  unsent /\ ~revoked => timer \/ \E j \in Jobs : /\ shape.wide /\ stage[j] = "live"
                                                /\ In(j, "cancelled") \cup In(j, "skipped") # {}

\* The engine of openwrt ignores what is answered after dispose(), and no engine
\* throws while its module runs.
OnlyTheRevokedThrow == fatal => revoked /\ shape.engine # "openwrt"

JobsAreTold == JobsAreWhole /\ NothingIsLeftUnsent /\ OnlyTheRevokedThrow

\* In the end every job has ended or was dropped with its module, who waits for it
\* has heard of it, and the browsers have its last state, unless the server ended.
Settled ==
  /\ fatal \/ \A j \in Jobs : stage[j] # "live" /\ waiter[j] # "polling"
  /\ unsent => revoked

\* modules/container/main/jobs.ts:82-87 says that when the module is switched
\* off "the item in flight finishes" and that nothing after it starts, and
\* docs/MODULE-RULESET.md:1159 asks of a module that "Nothing keeps using `ctx`
\* after `dispose()`": the end of that item must not end the server.
StopsQuietly == ~fatal
=============================================================================
