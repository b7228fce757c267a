---------------------------------- MODULE Bmc ----------------------------------
(***************************************************************************)
(* The BMC module on one management station (modules/bmc/main): sweeps     *)
(* that read the power of every configured BMC, power actions that re-read *)
(* one of them, and the form that edits the configuration, which is shared *)
(* with the module's instances on other stations.                          *)
(*                                                                         *)
(* The instance is the record `bmc`.  A reading is the revision of the     *)
(* machine it was made with and the number of power actions that had been  *)
(* acknowledged when it began: whether it says on or off makes no          *)
(* difference to what is done with it, and one that failed shows the last  *)
(* power beside its failure.  A connection that is lost disposes of the    *)
(* instance, and reset() is not modelled: the host suspends a module on a  *)
(* machine before it resets the others, so no instance is ever reset, and  *)
(* the generation of the sweeper changes only in dispose().                *)
(***************************************************************************)
EXTENDS Naturals, FiniteSets

CONSTANTS
  Ids,         \* numbers of the BMC machines, in the order in which they are added
  Workers,     \* SWEEP_CONCURRENCY
  MaxChanges   \* bound on the actions, edits, changed intervals and sweeps asked for together

VARIABLES
  bmc,        \* the instance
  config,     \* the revision of each configured machine, 0 without one
  used,       \* ids that were ever given: makeMachineId() gives none twice
  acting,     \* power actions under way
  acks,       \* power actions of each machine that have succeeded
  changes

vars == <<bmc, config, used, acting, acks, changes>>

None == [rev |-> 0, n |-> 0]
NoSweep == [stage |-> "none"]
NoForm == [id |-> 0, base |-> 0, issued |-> FALSE]
NoProbe == [on |-> FALSE, for |-> {}]
Now == 2   \* among those that wait for a probe, sweepNow and refreshSlow()
Intervals == {0, 1}
Revisions == 0..MaxChanges + 1
Counts == 0..MaxChanges

\* An instance just activated, whose applyPollers() is called at once.
New(i) ==
  [stopped |-> FALSE, late |-> FALSE, applied |-> i, polling |-> FALSE,
   caps |-> "unknown", probe |-> [on |-> TRUE, for |-> {i}], sweep |-> NoSweep, form |-> NoForm,
   state |-> [id \in Ids |-> None], version |-> [id \in Ids |-> 0], refreshing |-> {}]

Readings == [rev : Revisions, n : Counts]
Refreshes == [id : Ids, rev : Revisions, n : Counts, version : Nat]

TypeOK ==
  /\ bmc.stopped \in BOOLEAN /\ bmc.applied \in Intervals /\ bmc.polling \in BOOLEAN
  /\ bmc.caps \in {"unknown", "ok", "missing"}
  /\ bmc.probe \in [on : BOOLEAN, for : SUBSET (Intervals \cup {Now})]
  /\ bmc.sweep.stage \in {"none", "capabilities", "reading"}
  /\ bmc.form \in [id : Ids \cup {0}, base : Revisions, issued : BOOLEAN]
  /\ \A id \in Ids : bmc.state[id] \in Readings /\ bmc.version[id] \in Nat
  /\ bmc.refreshing \subseteq Refreshes
  /\ config \in [Ids -> Revisions] /\ used \subseteq Ids
  /\ acting \subseteq [id : Ids, rev : Revisions]
  /\ acks \in [Ids -> Counts] /\ changes \in 0..MaxChanges

InitWith(b) ==
  /\ bmc = b
  /\ used = {1} /\ config = [id \in Ids |-> IF id = 1 THEN 1 ELSE 0]
  /\ acting = {} /\ acks = [id \in Ids |-> 0] /\ changes = 0
Init == \E i \in Intervals : InitWith(New(i))

Change == changes < MaxChanges /\ changes' = changes + 1

Configured == {id \in Ids : config[id] # 0}

-----------------------------------------------------------------------------
(***************************************************************************)
(* Mutants: plausible mistakes in the code, not part of the specification. *)
(***************************************************************************)

\* Kept: the version is not compared.
KeptAnyway(b, id) == config[id] = b.sweep.rev[id]

-----------------------------------------------------------------------------
(***************************************************************************)
(* The pieces of the methods, as functions of an instance.                 *)
(***************************************************************************)

\* active(), of the only generation: a lost connection disposes of the instance at once.
Active(b) == ~b.stopped

\* publishCards(), with the configuration it reads; emit() throws once revoked.
Publish(b, cfg) ==
  [b EXCEPT !.state = [id \in Ids |-> IF cfg[id] # 0 /\ @[id].rev = cfg[id] THEN @[id] ELSE None],
            !.version = [id \in Ids |-> IF cfg[id] = 0 THEN 0 ELSE @[id]],
            !.late = @ \/ b.stopped]

\* forgetMachine()
Forget(b, id, cfg) ==
  Publish([b EXCEPT !.version[id] = @ + 1, !.state[id] = None], cfg)

\* refreshOne() up to its await.
Refresh(b, id, cfg, n) ==
  IF ~Active(b) \/ cfg[id] = 0 THEN b
  ELSE [b EXCEPT !.version[id] = @ + 1,
                 !.refreshing = @ \cup {[id |-> id, rev |-> cfg[id], n |-> n,
                                         version |-> b.version[id] + 1]}]

\* refreshCapabilities(): its callers share one probe.
Ask(b, who) == [b EXCEPT !.probe = [on |-> TRUE, for |-> @.for \cup who]]

\* The workers of a sweep that are free take the next machines.
Fill(s) ==
  LET todo == {id \in Ids : s.phase[id] = "todo"}
      busy == {id \in Ids : s.phase[id] = "reading"}
      next == {id \in todo : Cardinality({j \in todo : j < id}) + Cardinality(busy) < Workers}
  IN [s EXCEPT !.phase = [id \in Ids |-> IF id \in next THEN "reading" ELSE @[id]],
               !.n = [id \in Ids |-> IF id \in next THEN acks[id] ELSE @[id]]]

\* sweep() from the answer of ensureCapabilities() to the await of its workers.
Proceed(b) ==
  IF b.caps # "ok" THEN Publish([b EXCEPT !.sweep = NoSweep], config)
  ELSE IF Configured = {}
  THEN Publish([b EXCEPT !.sweep = NoSweep, !.state = [id \in Ids |-> None]], config)
  ELSE [b EXCEPT !.sweep =
          Fill([stage |-> "reading", rev |-> config, version |-> b.version,
                phase |-> [id \in Ids |-> IF id \in Configured THEN "todo" ELSE "out"],
                n |-> [id \in Ids |-> 0]])]

\* run(): calls join the sweep under way.
Run(b) ==
  IF b.sweep # NoSweep \/ ~Active(b) THEN b
  ELSE IF b.caps = "unknown" THEN Ask([b EXCEPT !.sweep = [stage |-> "capabilities"]], {})
  ELSE Proceed(b)

\* What a sweep has read of a machine is kept when nothing has happened to it since.
Kept(b, id) == config[id] = b.sweep.rev[id] /\ b.version[id] = b.sweep.version[id]

\* The rest of sweep(), when its workers have ended.
Store(b) ==
  Publish([b EXCEPT !.sweep = NoSweep,
                    !.state = [id \in Ids |->
                      IF b.sweep.phase[id] = "read" /\ Kept(b, id)
                      THEN [rev |-> b.sweep.rev[id], n |-> b.sweep.n[id]] ELSE @[id]]], config)

-----------------------------------------------------------------------------
(***************************************************************************)
(* The sweeps.                                                             *)
(***************************************************************************)

\* applyPollers(), with another interval.
ApplyPollers(i) ==
  /\ Active(bmc) /\ i # bmc.applied /\ Change
  /\ bmc' = Ask([bmc EXCEPT !.applied = i, !.polling = FALSE], {i})
  /\ UNCHANGED <<config, used, acting, acks>>

\* sweepNow and refreshSlow(), which look again for ipmitool.
SweepNow ==
  /\ Active(bmc) /\ Now \notin bmc.probe.for /\ Change
  /\ bmc' = Ask(bmc, {Now})
  /\ UNCHANGED <<config, used, acting, acks>>

\* probeManagementHost() has its answer: a sweep that waits for it goes on, then the
\* poller is started for the interval that is still wanted, which ticks at once.
Probed(result) ==
  /\ bmc.probe.on
  /\ LET known == [bmc EXCEPT !.probe = NoProbe, !.caps = IF bmc.stopped THEN @ ELSE result]
         swept == IF known.sweep.stage # "capabilities" THEN known
                  ELSE IF Active(known) THEN Proceed(known)
                  ELSE [known EXCEPT !.sweep = NoSweep]
         polled == IF ~Active(bmc) \/ bmc.applied \notin bmc.probe.for THEN swept
                   ELSE Run([swept EXCEPT !.polling = bmc.applied > 0])
     IN bmc' = IF Now \in bmc.probe.for /\ result = "ok" THEN Run(polled) ELSE polled
  /\ UNCHANGED <<config, used, acting, acks, changes>>

\* The poller's interval.
Tick ==
  /\ bmc.polling /\ bmc.sweep = NoSweep
  /\ bmc' = Run(bmc)
  /\ UNCHANGED <<config, used, acting, acks, changes>>

\* ipmitool has answered a worker, or has timed out.
ReadEnds(id) ==
  /\ bmc.sweep.stage = "reading" /\ bmc.sweep.phase[id] = "reading"
  /\ IF Active(bmc)
     THEN LET s == Fill([bmc.sweep EXCEPT !.phase[id] = "read"])
              b == [bmc EXCEPT !.sweep = s]
          IN bmc' = IF \E j \in Ids : s.phase[j] = "reading" THEN b ELSE Store(b)
     ELSE bmc' = IF \E j \in Ids \ {id} : bmc.sweep.phase[j] = "reading"
                 THEN [bmc EXCEPT !.sweep.phase[id] = "out"]
                 ELSE [bmc EXCEPT !.sweep = NoSweep]
  /\ UNCHANGED <<config, used, acting, acks, changes>>

\* The rest of refreshOne().
RefreshEnds(r) ==
  /\ r \in bmc.refreshing
  /\ LET b == [bmc EXCEPT !.refreshing = @ \ {r}]
     IN bmc' = IF Active(b) /\ b.version[r.id] = r.version /\ config[r.id] = r.rev
               THEN Publish([b EXCEPT !.state[r.id] = [rev |-> r.rev, n |-> r.n]], config)
               ELSE b
  /\ UNCHANGED <<config, used, acting, acks, changes>>

-----------------------------------------------------------------------------
(***************************************************************************)
(* The calls of the page.                                                  *)
(***************************************************************************)

\* powerAction(), up to its await.
PowerAction(id) ==
  /\ Active(bmc) /\ id \in Configured /\ Change
  /\ [id |-> id, rev |-> config[id]] \notin acting
  /\ acting' = acting \cup {[id |-> id, rev |-> config[id]]}
  /\ UNCHANGED <<bmc, config, used, acks>>

\* It is asked from a page that still shows the first machine as it was at first.
StaleAction ==
  /\ Active(bmc) /\ config[1] # 1 /\ Change
  /\ bmc' = Forget(bmc, 1, config)
  /\ UNCHANGED <<config, used, acting, acks>>

\* The command has succeeded, and the machine is read again.
PowerActionEnds(a) ==
  /\ a \in acting /\ acting' = acting \ {a}
  /\ acks' = [acks EXCEPT ![a.id] = @ + 1]
  /\ bmc' = Refresh(bmc, a.id, config, acks'[a.id])
  /\ UNCHANGED <<config, used, changes>>

PowerActionFails(a) ==
  /\ a \in acting /\ acting' = acting \ {a}
  /\ UNCHANGED <<bmc, config, used, acks, changes>>

\* machineCheck, up to the await of its connection test.
Check(id) ==
  /\ Active(bmc) /\ bmc.form = NoForm
  /\ id \in Configured \/ (id \notin used /\ \A j \in Ids \ used : id <= j)
  /\ bmc' = [bmc EXCEPT !.form = [id |-> id, base |-> config[id], issued |-> FALSE]]
  /\ UNCHANGED <<config, used, acting, acks, changes>>

Checked ==
  /\ bmc.form # NoForm /\ ~bmc.form.issued
  /\ bmc' = [bmc EXCEPT !.form = IF bmc.stopped THEN NoForm ELSE [@ EXCEPT !.issued = TRUE]]
  /\ UNCHANGED <<config, used, acting, acks, changes>>

\* machineApply: the token is spent, also when the machine has changed since the check.
Apply ==
  /\ Active(bmc) /\ bmc.form.issued /\ Change
  /\ LET f == bmc.form
         spent == [bmc EXCEPT !.form = NoForm]
     IN IF config[f.id] # f.base
        THEN bmc' = spent /\ UNCHANGED <<config, used>>
        ELSE /\ config' = [config EXCEPT ![f.id] = changes + 2] /\ used' = used \cup {f.id}
             /\ bmc' = Refresh(Forget(spent, f.id, config'), f.id, config', acks[f.id])
  /\ UNCHANGED <<acting, acks>>

\* machineDelete
Delete(id) ==
  /\ Active(bmc) /\ id \in Configured /\ Change
  /\ config' = [config EXCEPT ![id] = 0]
  /\ bmc' = Forget([bmc EXCEPT !.form = IF @.issued THEN NoForm ELSE @], id, config')
  /\ UNCHANGED <<used, acting, acks>>

-----------------------------------------------------------------------------
(***************************************************************************)
(* The other stations, and the end of the instance.                        *)
(***************************************************************************)

\* The instance of another station edits or removes a machine.
Elsewhere(id) ==
  /\ Active(bmc) /\ id \in Configured /\ Change
  /\ config' \in {[config EXCEPT ![id] = changes + 2], [config EXCEPT ![id] = 0]}
  /\ UNCHANGED <<bmc, used, acting, acks>>

\* dispose(); what is under way ends later.
Dispose ==
  /\ ~bmc.stopped
  /\ bmc' = [bmc EXCEPT !.stopped = TRUE, !.polling = FALSE,
                        !.form = IF @.issued THEN NoForm ELSE @]
  /\ UNCHANGED <<config, used, acting, acks, changes>>

-----------------------------------------------------------------------------

Sweeps == Tick \/ (\E id \in Ids : ReadEnds(id)) \/ (\E r \in bmc.refreshing : RefreshEnds(r))
Probes == Probed("ok") \/ Probed("missing")
Calls ==
  \/ SweepNow \/ StaleAction \/ Checked \/ Apply
  \/ \E i \in Intervals : ApplyPollers(i)
  \/ \E id \in Ids : PowerAction(id) \/ Check(id) \/ Delete(id)
Ends == \E a \in acting : PowerActionEnds(a) \/ PowerActionFails(a)
World == Dispose \/ \E id \in Ids : Elsewhere(id)

Next == Sweeps \/ Probes \/ Calls \/ Ends \/ World

\* Commands end by themselves or by their timeouts, and the timer fires.
Fairness == WF_vars(Sweeps) /\ WF_vars(Probes) /\ WF_vars(Ends)

Spec == Init /\ [][Next]_vars /\ Fairness

-----------------------------------------------------------------------------
(***************************************************************************)
(* Properties.                                                             *)
(***************************************************************************)

\* A card never shows for good what was read before an action that was acknowledged
\* since: a sweep that began before it does not bring the old power state back
\* (sweep.ts:159-174, :345-349), and a newer reading is under way.
CardIsFresh ==
  Active(bmc) =>
    \A id \in Configured :
      bmc.state[id].rev = config[id] =>
        \/ bmc.state[id].n = acks[id]
        \/ \E r \in bmc.refreshing :
             r.id = id /\ r.rev = config[id] /\ r.version = bmc.version[id] /\ r.n = acks[id]

\* Nothing is emitted with a revoked context by what ends after dispose().
QuietAfterStop == ~bmc.late

BmcAgrees == CardIsFresh /\ QuietAfterStop

\* Once nothing changes any more every configured machine has been read as it is now,
\* as long as ipmitool was found and the sweeps are timed.
Settled ==
  Active(bmc) /\ bmc.polling /\ bmc.caps = "ok" =>
    \A id \in Configured : bmc.state[id] = [rev |-> config[id], n |-> acks[id]]
BmcSettles == <>[]Settled

=============================================================================
