--------------------------------- MODULE Fleet ---------------------------------
(***************************************************************************)
(* The sweeps of the service-fleet module (modules/service-fleet/main): an *)
(* instance asks every configured address through its machine, batch by    *)
(* batch, and keeps a record and a card of those that are machines; what   *)
(* the user does to one of them reads that one again.                      *)
(*                                                                         *)
(* An answer is its reach and the number of actions that had changed the   *)
(* units of the machine when it was asked.  "refused" stands for every     *)
(* answer that proves a machine without letting anybody in, and "timeout"  *)
(* for those that come from nowhere.  Each address has its own rule, that  *)
(* of a pinned one naming it alone.  A lost connection disposes of the     *)
(* instance and nothing ever calls its reset().  Jobs are ModuleJobs: here *)
(* one is an action on a machine.                                          *)
(***************************************************************************)
EXTENDS Naturals, FiniteSets

CONSTANTS
  Ips,         \* numbers of the addresses, in the order in which they are asked
  Pinned,      \* those that a rule of kind 'host' names
  Batch,       \* addresses in one command of runFanout()
  MaxChanges   \* bound on the calls, changed machines and failures together

VARIABLES
  fleet,    \* the instance; for the properties only, `asked` says whether the last sweep
            \* was cancelled and `whole` what the last one asked that was not cut short
  rules,    \* the addresses that a rule covers, in the instance's copy of its config
  world,    \* what is at each address
  acks,     \* actions that have changed the units of each machine
  acting,   \* actions under way
  changes

vars == <<fleet, rules, world, acks, acting, changes>>

Reaches == {"ok", "refused", "timeout"}
NoCard == [reach |-> "none", n |-> 0]
NoSweep == [plan |-> {}]
Intervals == {0, 1}   \* "Manual only", and a time
Now == 2   \* among those that wait for a probe, sweepNow and refreshSlow()

\* An instance just activated, whose applyPollers() is called at once.
New(i) ==
  [stopped |-> FALSE, applied |-> i, polling |-> 0, caps |-> "unknown", probes |-> {i},
   sweep |-> NoSweep, cancel |-> FALSE, asked |-> FALSE, status |-> "idle",
   live |-> [ip \in Ips |-> NoCard], latest |-> <<>>, whole |-> {}, refreshing |-> {},
   hosts |-> [ip \in Ips |-> "none"], disk |-> [ip \in Ips |-> "none"], behind |-> FALSE]

Answers == [reach : Reaches, n : 0..MaxChanges]
Cards == [Ips -> Answers \cup {NoCard}]
Records == [Ips -> Reaches \cup {"none"}]

TypeOK ==
  /\ fleet.stopped \in BOOLEAN /\ fleet.applied \in Intervals /\ fleet.polling \in Intervals
  /\ fleet.caps \in {"unknown", "ok", "missing"} /\ fleet.probes \subseteq Intervals \cup {Now}
  /\ fleet.sweep # NoSweep =>
       /\ fleet.sweep.plan \subseteq Ips /\ fleet.sweep.rest \subseteq fleet.sweep.plan
       /\ DOMAIN fleet.sweep.batch \subseteq fleet.sweep.plan
       /\ DOMAIN fleet.sweep.got \subseteq fleet.sweep.plan
  /\ fleet.cancel \in BOOLEAN /\ fleet.asked \in BOOLEAN
  /\ fleet.status \in {"idle", "running", "cancelled", "error"}
  /\ fleet.live \in Cards /\ fleet.latest \in Cards \cup {<<>>} /\ fleet.whole \subseteq Ips
  /\ fleet.refreshing \subseteq [ip : Ips, answer : Answers, probe : BOOLEAN]
  /\ fleet.hosts \in Records /\ fleet.disk \in Records /\ fleet.behind \in BOOLEAN
  /\ rules \subseteq Ips /\ world \in [Ips -> Reaches]
  /\ acks \in [Ips -> 0..MaxChanges] /\ acting \subseteq Ips /\ changes \in 0..MaxChanges

InitWith(f, w) ==
  /\ fleet = f /\ rules = Ips /\ world = w
  /\ acks = [ip \in Ips |-> 0] /\ acting = {} /\ changes = 0
Init == \E i \in Intervals, w \in [Ips -> Reaches] : InitWith(New(i), w)

Cost(n) == changes + n <= MaxChanges /\ changes' = changes + n
Change == Cost(1)

\* A write of the host's data that may fail, which costs a change.
MayFail(fails, n) == Cost(IF fails THEN n + 1 ELSE n)

-----------------------------------------------------------------------------
(***************************************************************************)
(* Mutants: plausible mistakes in the code, not part of the specification. *)
(***************************************************************************)

\* Earns: an address that has a card already does not keep it when it stops answering.
EarnsByAnswer(f, ip, answer) == answer.reach # "timeout" \/ ip \in Pinned

\* Dirty: a machine that is recorded for the first time is not worth a write.
DirtyIfReached(f, entries) == \E ip \in DOMAIN entries : entries[ip].reach = "ok"

\* Ask: the flag of the last cancellation is not reset.
AskAnyway(f) ==
  [f EXCEPT !.status = "running", !.asked = FALSE,
            !.sweep = [plan |-> rules, rest |-> rules, batch |-> <<>>, got |-> <<>>]]

-----------------------------------------------------------------------------
(***************************************************************************)
(* The pieces of the methods, as functions of an instance.                 *)
(***************************************************************************)

Answer(ip) ==
  [reach |-> world[ip], n |-> IF world[ip] = "ok" THEN acks[ip] ELSE 0]
Unanswered == [reach |-> "timeout", n |-> 0]

\* What makes an address a machine.
Earns(f, ip, answer) ==
  answer.reach # "timeout" \/ ip \in Pinned \/ f.hosts[ip] # "none"

\* A record is another one when its reach is, and also when its lastSeen moves.
Dirty(f, entries) ==
  \E ip \in DOMAIN entries :
    Earns(f, ip, entries[ip]) /\ (entries[ip].reach = "ok" \/ entries[ip].reach # f.hosts[ip])

\* HostStore.persist(): what cannot be written stays in memory.
Persist(f, fails) == IF fails THEN [f EXCEPT !.behind = TRUE]
                     ELSE [f EXCEPT !.disk = f.hosts, !.behind = FALSE]

\* mergeInto() the cards, and the write.
Merge(f, cards, entries, fails) ==
  LET earned == {ip \in DOMAIN entries : Earns(f, ip, entries[ip])}
      merged ==
        [f EXCEPT !.hosts = [ip \in Ips |-> IF ip \in earned THEN entries[ip].reach ELSE @[ip]],
                  !.live = [ip \in Ips |-> IF ip \in earned THEN entries[ip] ELSE cards[ip]]]
  IN IF Dirty(f, entries) THEN Persist(merged, fails) ELSE merged

PublishCards(f) == [f EXCEPT !.latest = f.live]

NoCards == [ip \in Ips |-> NoCard]

\* sweep() from what it was told to its end, a cancelled one with what it has got.
Conclude(f, s, fails) ==
  LET folded == Merge(f, NoCards, s.got, fails)
  IN PublishCards(
       [folded EXCEPT !.sweep = NoSweep, !.cancel = FALSE,
                      !.status = IF f.cancel THEN "cancelled" ELSE "idle",
                      !.whole = IF DOMAIN s.got = s.plan THEN s.plan ELSE {}])

\* The head of the loop in runFanout(), up to its await.
NextBatch(f, s, fails) ==
  LET first == {ip \in s.rest : Cardinality({j \in s.rest : j < ip}) < Batch}
  IN IF s.rest = {} \/ f.cancel THEN Conclude(f, s, fails)
     ELSE [f EXCEPT !.sweep = [s EXCEPT !.rest = @ \ first,
                                        !.batch = [ip \in first |-> Answer(ip)]]]

\* The start of a sweep, with the addresses that are configured now.
Ask(f) ==
  [f EXCEPT !.status = "running", !.cancel = FALSE, !.asked = FALSE,
            !.sweep = [plan |-> rules, rest |-> rules, batch |-> <<>>, got |-> <<>>]]

\* run(): calls join the sweep under way.
Run(f) ==
  IF f.sweep # NoSweep \/ f.stopped THEN f
  ELSE IF f.caps # "ok" THEN [f EXCEPT !.status = "error"]
  ELSE IF rules = {}
  THEN PublishCards([f EXCEPT !.live = NoCards, !.status = "idle", !.whole = {}])
  ELSE LET asked == Ask(f) IN NextBatch(asked, asked.sweep, FALSE)

\* refreshOne() up to its await.
RefreshOne(f, ip) ==
  IF f.stopped \/ ip \notin rules THEN f
  ELSE [f EXCEPT !.refreshing = @ \cup {[ip |-> ip, answer |-> Answer(ip), probe |-> FALSE]}]

\* Drop a record and its card.
Drop(f, ips) ==
  [f EXCEPT !.hosts = [ip \in Ips |-> IF ip \in ips THEN "none" ELSE @[ip]],
            !.live = [ip \in Ips |-> IF ip \in ips THEN NoCard ELSE @[ip]]]

-----------------------------------------------------------------------------
(***************************************************************************)
(* The sweeps.                                                             *)
(***************************************************************************)

\* applyPollers(), with another interval.
ApplyPollers(i) ==
  /\ ~fleet.stopped /\ i # fleet.applied /\ Change
  /\ fleet' = [fleet EXCEPT !.applied = i, !.polling = 0, !.probes = @ \cup {i}]
  /\ UNCHANGED <<rules, world, acks, acting>>

\* sweepNow and refreshSlow(), which ask what the machine has first.
SweepNow ==
  /\ ~fleet.stopped /\ Now \notin fleet.probes /\ Change
  /\ fleet' = [fleet EXCEPT !.probes = @ \cup {Now}]
  /\ UNCHANGED <<rules, world, acks, acting>>

\* The answer to refreshCapabilities(), of calls that do not share it.  applyPollers()
\* starts the poller with the interval it was made for, or sweeps once; refreshSlow() runs
\* also where sweepNow gives up.
Probed(who, result) ==
  /\ who \in fleet.probes
  /\ LET known == [fleet EXCEPT !.probes = @ \ {who}, !.caps = result]
     IN IF fleet.stopped THEN fleet' = [fleet EXCEPT !.probes = @ \ {who}]
        ELSE IF who = Now THEN fleet' \in {Run(known)} \cup (IF result = "ok" THEN {} ELSE {known})
        ELSE IF who > 0 THEN fleet' = Run([known EXCEPT !.polling = who])
        ELSE fleet' = IF known.latest = <<>> THEN Run(known) ELSE known
  /\ UNCHANGED <<rules, world, acks, acting, changes>>

\* The probe's command fails: applyPollers() does not try again.
ProbeFails(who) ==
  /\ who \in fleet.probes /\ ~fleet.stopped /\ Change
  /\ fleet' = [fleet EXCEPT !.probes = @ \ {who}]
  /\ UNCHANGED <<rules, world, acks, acting>>

\* The poller's interval.
Tick ==
  /\ fleet.polling > 0 /\ fleet.sweep = NoSweep
  /\ fleet' = Run(fleet)
  /\ UNCHANGED <<rules, world, acks, acting, changes>>

\* A command of a sweep ends.  Those that it did not come to count as timeouts; after
\* dispose() the report of the progress throws.
BatchEnds(lost, fails) ==
  /\ fleet.sweep # NoSweep /\ lost \subseteq DOMAIN fleet.sweep.batch
  /\ MayFail(fails, IF lost = {} THEN 0 ELSE 1)
  /\ LET s == fleet.sweep
         got == [ip \in DOMAIN s.got \cup DOMAIN s.batch |->
                   IF ip \in DOMAIN s.got THEN s.got[ip]
                   ELSE IF ip \in lost THEN Unanswered ELSE s.batch[ip]]
     IN fleet' = IF fleet.stopped THEN [fleet EXCEPT !.sweep = NoSweep, !.status = "error"]
                 ELSE NextBatch(fleet, [s EXCEPT !.batch = <<>>, !.got = got], fails)
  /\ UNCHANGED <<rules, world, acks, acting>>

\* It cannot be run: the answers of the batches before it are lost too.
BatchThrows ==
  /\ fleet.sweep # NoSweep /\ ~fleet.stopped /\ Change
  /\ fleet' = [fleet EXCEPT !.sweep = NoSweep, !.status = "error"]
  /\ UNCHANGED <<rules, world, acks, acting>>

\* sweepCancel
SweepCancel ==
  /\ fleet.sweep # NoSweep /\ ~fleet.cancel /\ ~fleet.stopped /\ Change
  /\ fleet' = [fleet EXCEPT !.cancel = TRUE, !.asked = TRUE]
  /\ UNCHANGED <<rules, world, acks, acting>>

-----------------------------------------------------------------------------
(***************************************************************************)
(* One machine.                                                            *)
(***************************************************************************)

\* hostProbe, up to its await.
HostProbe(ip) ==
  /\ ~fleet.stopped /\ ip \in rules /\ Change
  /\ fleet' = [fleet EXCEPT !.refreshing =
                 @ \cup {[ip |-> ip, answer |-> Answer(ip), probe |-> TRUE]}]
  /\ UNCHANGED <<rules, world, acks, acting>>

\* The rest of refreshOne(), or that of hostProbe, which only reads it again.
RefreshEnds(r, lost, fails) ==
  /\ r \in fleet.refreshing /\ MayFail(fails, IF lost THEN 1 ELSE 0)
  /\ LET rest == [fleet EXCEPT !.refreshing = @ \ {r}]
         entries == [ip \in {r.ip} |-> IF lost THEN Unanswered ELSE r.answer]
         merged == Merge(rest, rest.live, entries, fails)
     IN fleet' = IF fleet.stopped THEN rest
                 ELSE IF r.probe THEN RefreshOne(merged, r.ip) ELSE PublishCards(merged)
  /\ UNCHANGED <<rules, world, acks, acting>>

\* unitAction and the like, up to the await.
Act(ip) ==
  /\ ~fleet.stopped /\ ip \in rules /\ fleet.live[ip].reach = "ok" /\ ip \notin acting /\ Change
  /\ acting' = acting \cup {ip}
  /\ UNCHANGED <<fleet, rules, world, acks>>

\* The machine reports back, and is read again.
ActEnds(ip) ==
  /\ ip \in acting /\ world[ip] = "ok"
  /\ acting' = acting \ {ip} /\ acks' = [acks EXCEPT ![ip] = @ + 1]
  /\ fleet' = IF fleet.stopped \/ ip \notin rules THEN fleet
              ELSE [fleet EXCEPT !.refreshing =
                      @ \cup {[ip |-> ip, answer |-> [reach |-> "ok", n |-> acks[ip] + 1],
                               probe |-> FALSE]}]
  /\ UNCHANGED <<rules, world, changes>>

\* Nothing is heard of it, whether it was done or not.
ActFails(ip) ==
  /\ ip \in acting /\ acting' = acting \ {ip}
  /\ acks' \in {acks, [acks EXCEPT ![ip] = @ + 1]}
  /\ UNCHANGED <<fleet, rules, world, changes>>

\* hostForget; the cards are not published.
HostForget(ip, fails) ==
  /\ ~fleet.stopped /\ fleet.hosts[ip] # "none" /\ MayFail(fails, 1)
  /\ fleet' = Persist(Drop(fleet, {ip}), fails)
  /\ UNCHANGED <<rules, world, acks, acting>>

-----------------------------------------------------------------------------
(***************************************************************************)
(* The address rules, the world, and the end of the instance.              *)
(***************************************************************************)

\* targetApply: a new rule, or an edited one that covers another address now.
TargetApply(ip) ==
  /\ ~fleet.stopped /\ ip \notin rules /\ Change
  /\ rules' \in {rules \cup {ip}} \cup {(rules \ {j}) \cup {ip} : j \in rules}
  /\ UNCHANGED <<fleet, world, acks, acting>>

\* targetDelete, with pruneUnclaimed().
TargetDelete(ip, fails) ==
  /\ ~fleet.stopped /\ ip \in rules /\ MayFail(fails, 1)
  /\ rules' = rules \ {ip}
  /\ LET orphans == {j \in Ips \ rules' : fleet.hosts[j] # "none"}
     IN fleet' = IF orphans = {} THEN fleet ELSE Persist(Drop(fleet, orphans), fails)
  /\ UNCHANGED <<world, acks, acting>>

\* The config cannot be written: the rule has gone from memory, and the call fails.
TargetDeleteFails(ip) ==
  /\ ~fleet.stopped /\ ip \in rules /\ Change
  /\ rules' = rules \ {ip}
  /\ UNCHANGED <<fleet, world, acks, acting>>

\* A job that ends writes the same document.
JobRecorded ==
  /\ ~fleet.stopped /\ fleet.behind
  /\ fleet' = Persist(fleet, FALSE)
  /\ UNCHANGED <<rules, world, acks, acting, changes>>

\* A machine comes, goes, or changes its mind about the login.
WorldChanges(ip) ==
  /\ ~fleet.stopped /\ Change
  /\ world' \in {[world EXCEPT ![ip] = r] : r \in Reaches \ {world[ip]}}
  /\ UNCHANGED <<fleet, rules, acks, acting>>

\* dispose(); what is under way ends later.
Dispose ==
  /\ ~fleet.stopped
  /\ fleet' = [fleet EXCEPT !.stopped = TRUE, !.polling = 0,
                            !.cancel = @ \/ fleet.sweep # NoSweep,
                            !.asked = @ \/ fleet.sweep # NoSweep]
  /\ UNCHANGED <<rules, world, acks, acting, changes>>

-----------------------------------------------------------------------------

Sweeps == Tick \/ BatchThrows \/ (\E lost \in SUBSET Ips, b \in BOOLEAN : BatchEnds(lost, b))
Refreshes == \E r \in fleet.refreshing, lost \in BOOLEAN, b \in BOOLEAN : RefreshEnds(r, lost, b)
Probes ==
  \E who \in fleet.probes : Probed(who, "ok") \/ Probed(who, "missing") \/ ProbeFails(who)
Actions == \E ip \in acting : ActEnds(ip) \/ ActFails(ip)
Calls ==
  \/ SweepNow \/ SweepCancel \/ JobRecorded
  \/ \E i \in Intervals : ApplyPollers(i)
  \/ \E ip \in Ips : HostProbe(ip) \/ Act(ip) \/ TargetApply(ip) \/ TargetDeleteFails(ip)
  \/ \E ip \in Ips, b \in BOOLEAN : HostForget(ip, b) \/ TargetDelete(ip, b)
World == Dispose \/ \E ip \in Ips : WorldChanges(ip)

Next == Sweeps \/ Refreshes \/ Probes \/ Actions \/ Calls \/ World

\* Commands end by themselves or by their timeouts, and the timer fires.
Fairness == WF_vars(Sweeps) /\ WF_vars(Refreshes) /\ WF_vars(Probes) /\ WF_vars(Actions)

Spec == Init /\ [][Next]_vars /\ Fairness

-----------------------------------------------------------------------------
(***************************************************************************)
(* Properties.                                                             *)
(***************************************************************************)

\* A card is the record's: neither a sweep nor a machine that is read on its own, begun
\* before a record was dropped, brings one back without the other (roster.ts:243-244, :250-270).
CardsAreRecorded ==
  \A ip \in Ips : fleet.live[ip] # NoCard => fleet.live[ip].reach = fleet.hosts[ip]

\* "Once an address has earned a card it keeps it" (roster.ts:20): of the addresses that
\* the last sweep asked, if nobody cut it short, each one with a record has a card.
KeepsItsCard ==
  \A ip \in fleet.whole : fleet.hosts[ip] # "none" => fleet.live[ip] # NoCard

\* The disk has what the memory has, except after a write that failed (store.ts:165-167).
DiskFollows == ~fleet.behind => fleet.disk = fleet.hosts

\* Only a cancellation of this sweep cuts it short, not one of a sweep before it that
\* ended with an error (sweep.ts:222, :240-248).
CancelIsForThisSweep ==
  (fleet.sweep # NoSweep /\ fleet.cancel) \/ fleet.status = "cancelled" => fleet.asked

\* The state of the sweep is that of the sweep, whichever way the last one ended.
StatusAgrees == fleet.status = "running" <=> fleet.sweep # NoSweep

FleetAgrees ==
  CardsAreRecorded /\ KeepsItsCard /\ DiskFollows /\ CancelIsForThisSweep /\ StatusAgrees

\* Once nothing changes any more the wall shows every machine as it is, whatever answer
\* came in whichever order, as long as the sweeps are timed and can be made.
Settled ==
  ~fleet.stopped /\ fleet.polling > 0 /\ fleet.caps = "ok" =>
    /\ fleet.live = [ip \in Ips |->
         IF ip \in rules /\ Earns(fleet, ip, Answer(ip)) THEN Answer(ip) ELSE NoCard]
    /\ fleet.latest = fleet.live
FleetSettles == <>[]Settled

=============================================================================
