------------------------------- MODULE Binding -------------------------------
(***************************************************************************)
(* modules/openwrt/main/binding.ts with the sampling of service.ts: one    *)
(* running binding instance, which gives each device of a LAN a WAN of its *)
(* own through `ip rule`s on the router.                                   *)
(*                                                                         *)
(* A sample is read from the router outside of exclusive(), an operation   *)
(* plans against the last model it was given and then writes line by line. *)
(* Sticky choices and remapping are switched on; the duration of a grace   *)
(* is a choice of the step that looks at it.  One address per device, one  *)
(* table per WAN; no rule of somebody else in the range of the instance.   *)
(***************************************************************************)
EXTENDS Integers, Sequences, FiniteSets, FiniteSetsExt

CONSTANTS
  Devices,       \* numbers, in the order of the lease file
  Wans,          \* the WANs of the carrier, with their tables
  MaxChanges,    \* bound on what happens to the router and to the engine
  MaxActions,    \* bound on the actions of the users
  MaxFailures    \* bound on scripts that break off

None == "none"
Nobody == 0
Prefs == 1..Cardinality(Wans)   \* as many as can be in use
Rules == [pref : Prefs, dev : Devices, wan : Wans]

VARIABLES
  router,        \* its leases, WANs, rules and catch-all, and how often it booted
  sample,        \* what a sweep has read and onSample() has not taken yet
  model,         \* latestModel
  lastBoot,      \* lastUptime: the boot of the last model
  memory,        \* the planner memory of the instance
  sticky,        \* stickyMap
  running,       \* instance.running
  shown,         \* cache: the assignments that the browsers see
  op,            \* what holds exclusive(): the plan and the lines left to run
  changes, actions, failures

vars == <<router, sample, model, lastBoot, memory, sticky, running, shown, op, changes, actions,
          failures>>

NoModel == [boot |-> -1]
Idle == [kind |-> "idle"]
Unassigned == [d \in Devices |-> None]
EmptyMemory == [devices |-> {}, wan |-> Unassigned, held |-> {}, waiting |-> <<>>, errors |-> {}]

Routers ==
  [leases : SUBSET Devices, wan : [Wans -> {"usable", "starting", "error"}],
   rules : SUBSET Rules, guarded : BOOLEAN, boot : 0..MaxChanges]

Memories ==
  [devices : SUBSET Devices, wan : [Devices -> Wans \cup {None}], held : SUBSET Devices,
   waiting : Seq(Devices), errors : SUBSET Wans]
Plans == [rules : SUBSET Rules, wan : [Devices -> Wans \cup {None}], memory : Memories]
Undos == [memory : Memories, sticky : [Devices -> Wans \cup {None}], running : BOOLEAN]
Lines ==
  [do : {"route", "guard"}] \cup [do : {"del"}, pref : Prefs] \cup [do : {"add"}, rule : Rules]
Kinds == {"sample", "unassign", "reassign", "start", "stop"}

TypeOK ==
  /\ router \in Routers
  /\ sample \in Routers \cup {NoModel} /\ model \in Routers \cup {NoModel}
  /\ lastBoot \in -1..MaxChanges
  /\ memory \in Memories /\ running \in BOOLEAN
  /\ sticky \in [Devices -> Wans \cup {None}] /\ shown \in [Devices -> Wans \cup {None}]
  /\ op \in {Idle} \cup [kind : Kinds, lines : Seq(Lines), undo : Undos, exact : BOOLEAN,
                         plan : Plans]

Init ==
  /\ \E present \in SUBSET Devices :
       router = [leases |-> present, wan |-> [w \in Wans |-> "usable"], rules |-> {},
                 guarded |-> TRUE, boot |-> 0]
  /\ sample = NoModel /\ model = NoModel /\ lastBoot = -1
  /\ memory = EmptyMemory /\ sticky = Unassigned /\ shown = Unassigned
  /\ running = TRUE /\ op = Idle
  /\ changes = 0 /\ actions = 0 /\ failures = 0

-----------------------------------------------------------------------------
(***************************************************************************)
(* planBindingReconciliation().  An entry is an assignment: its MAC        *)
(* (Nobody for a rule whose device is unknown), its address, its WAN and   *)
(* its preference (0 while it has none).  What a scan or an allocation     *)
(* comes to is said of its outcome: a set of the outcomes there can be.    *)
(***************************************************************************)

\* The MAC of a rule: by its lease, by the memory, or by the sticky choice of
\* the one present device that has chosen its WAN.
MacOf(rule, m, mem, chosen) ==
  LET choosers == {d \in m.leases : chosen[d] = rule.wan}
  IN IF rule.dev \in m.leases \cup mem.devices THEN rule.dev
     ELSE IF Cardinality(choosers) = 1 THEN CHOOSE d \in choosers : TRUE ELSE Nobody

\* The managed rules as entries.
Actual(m, mem, chosen) ==
  {[dev |-> MacOf(r, m, mem, chosen), ip |-> r.dev, wan |-> r.wan, pref |-> r.pref] : r \in m.rules}

WansOf(entries) == {e.wan : e \in entries}
MacsOf(entries) == {e.dev : e \in entries}
PrefsOf(entries) == {e.pref : e \in entries}
Usable(m) == {w \in Wans : m.wan[w] = "usable"}

\* The order of a scan: the rules of a current lease first, then by preference.
Before(a, b, m) ==
  LET Exact(e) == e.dev \in m.leases /\ e.dev = e.ip
  IN \/ Exact(a) /\ ~Exact(b)
     \/ Exact(a) = Exact(b) /\ (a.pref < b.pref \/ (a.pref = b.pref /\ a.ip < b.ip))

\* What a scan of S takes that takes an entry unless it clashes with one it has taken.
Firsts(S, Clash(_, _), m) ==
  {taken \in SUBSET S :
     /\ \A a, b \in taken : a # b => ~Clash(a, b)
     /\ \A e \in S \ taken : \E k \in taken : Clash(e, k) /\ ~Before(e, k, m)}

\* Rules of unknown devices that are kept for a grace claim their WAN first; of each
\* its own grace may have lapsed.
Orphans(actual) ==
  {orphans \in SUBSET {e \in actual : e.dev = Nobody} :
     \A a, b \in orphans : a # b => a.wan # b.wan}

\* Mutant of Kept: two devices keep one WAN.
KeptShared(actual, orphans, able, m) ==
  Firsts({e \in actual : e.dev \in able /\ e.wan \notin WansOf(orphans)},
         LAMBDA a, b : a.dev = b.dev, m)

\* Then one valid rule per MAC and per WAN is preserved, of a device that may keep it.
Kept(actual, orphans, able, m) ==
  Firsts({e \in actual : e.dev \in able /\ e.wan \notin WansOf(orphans)},
         LAMBDA a, b : a.dev = b.dev \/ a.wan = b.wan, m)

\* The devices that may have a WAN: those with a lease, and those that had one
\* within the grace.
Working(m, mem, lapsed) == m.leases \cup {d \in mem.devices : mem.wan[d] # None /\ d \notin lapsed}

\* Remapping takes the WANs that have failed for long from their devices, as many
\* as there are WANs to give instead.  Those that failed first come first.
Moved(kept, orphans, m, overdue) ==
  LET failed == {e \in kept : e.wan \in overdue}
      capacity == Cardinality(Usable(m) \ WansOf(kept \cup orphans))
  IN {moved \in SUBSET failed : Cardinality(moved) = Min({capacity, Cardinality(failed)})}

\* The members of S in all orders in which none comes before one that is sooner.
Sorted(S, Sooner(_, _)) ==
  {o \in [1..Cardinality(S) -> S] :
     /\ \A d \in S : \E i \in DOMAIN o : o[i] = d
     /\ \A i, j \in DOMAIN o : i < j => ~Sooner(o[j], o[i])}

\* The queue: who waited before comes first, then who waits now.
Ahead(d, e, waiting) ==
  \/ \E i, j \in DOMAIN waiting : i < j /\ waiting[i] = d /\ waiting[j] = e
  \/ d \in Range(waiting) /\ e \notin Range(waiting)
  \/ {d, e} \cap Range(waiting) = {} /\ d < e

\* Who is given a WAN, in this order: who asked for another, whose WAN failed, the
\* queue; but nobody who is held or has no lease.
Requests(m, mem, forced, moved, stay) ==
  LET first == forced \cup MacsOf(moved)
      Sooner(d, e) ==
        \/ d \in forced /\ e \notin forced
        \/ d \in first /\ e \notin first
        \/ {d, e} \cap first = {} /\ Ahead(d, e, mem.waiting)
  IN Sorted({d \in m.leases \ mem.held : d \in first \/ d \notin MacsOf(stay)}, Sooner)

\* Each request in turn takes its sticky WAN (unless a reassignment was asked
\* for) or one at random, another than the one to avoid when there is one.
Allocations(requests, stay, m, chosen, forced, avoid) ==
  LET Free(given, i) == Usable(m) \ (WansOf(stay) \cup {given[requests[j]] : j \in 1..(i - 1)})
      Others(free, d) == IF Cardinality(free) > 1 THEN free \ {avoid[d]} ELSE free
  IN {given \in [Range(requests) -> Wans \cup {None}] :
        \A i \in DOMAIN requests :
          LET d == requests[i]
              free == Free(given, i)
          IN IF free = {} THEN given[d] = None
             ELSE IF d \notin forced /\ chosen[d] \in free THEN given[d] = chosen[d]
             ELSE given[d] \in Others(free, d)}
Fresh(given) ==
  {[dev |-> d, ip |-> d, wan |-> given[d], pref |-> 0] : d \in {x \in DOMAIN given : given[x] # None}}

\* A preserved preference is kept unless an earlier entry has it, orphans first.
Holding(orphans, stay, m) ==
  LET Clash(a, b) == a.pref = b.pref
  IN {holding \in SUBSET stay :
        LET first == holding \cap orphans IN
        /\ first \in Firsts(orphans, Clash, m)
        /\ holding \ first \in Firsts({e \in stay \ orphans : e.pref \notin PrefsOf(first)},
                                      Clash, m)}

\* The others get the lowest that are left, those of a device first: what it has had a
\* rule for, then what it was given.
Numberings(holding, entries, requests, m) ==
  LET open == entries \ holding
      left == Prefs \ PrefsOf(holding)
      Sooner(a, b) ==
        \/ a.dev # Nobody /\ b.dev = Nobody
        \/ a.dev = Nobody /\ b.dev = Nobody /\ Before(a, b, m)
        \/ a.dev # Nobody /\ b.dev # Nobody /\ a.pref # 0 /\ (b.pref = 0 \/ Before(a, b, m))
        \/ a.pref = 0 /\ b.pref = 0 /\ Ahead(a.dev, b.dev, requests)
  IN {num \in [open -> left] :
        /\ \A a, b \in open : a # b => num[a] # num[b] /\ (Sooner(a, b) => num[a] < num[b])
        /\ \A a \in open, p \in left : p \in Range(num) \/ num[a] < p}

\* The rules of a plan, and the WAN that each device has by it.
RulesOf(holding, num) ==
  LET Ip(e) == IF e.dev = Nobody THEN e.ip ELSE e.dev
  IN {[pref |-> e.pref, dev |-> Ip(e), wan |-> e.wan] : e \in holding}
     \cup {[pref |-> num[e], dev |-> Ip(e), wan |-> e.wan] : e \in DOMAIN num}
WanOf(entries) ==
  [d \in Devices |-> IF d \in MacsOf(entries) THEN (CHOOSE e \in entries : e.dev = d).wan ELSE None]

\* What is remembered of a plan.
Remembered(m, mem, wan, waiting, lapsed) ==
  [devices |-> m.leases \cup {d \in mem.devices \ lapsed : wan[d] # None},
   wan |-> wan,
   held |-> mem.held \cap m.leases,
   waiting |-> waiting,
   errors |-> {w \in Wans : m.wan[w] = "error"}]

-----------------------------------------------------------------------------
(***************************************************************************)
(* The engine.                                                             *)
(***************************************************************************)

\* The rules of the preferences that have other rules in `new` than in `old`: such a
\* group is deleted and recreated.
Differing(rules, old, new) ==
  {r \in rules : {x \in old : x.pref = r.pref} # {x \in new : x.pref = r.pref}}
Changes(old, new) ==
  LET Sooner(a, b) == a.pref < b.pref
  IN {[i \in DOMAIN o[1] |-> [do |-> "del", pref |-> o[1][i].pref]]
      \o [i \in DOMAIN o[2] |-> [do |-> "add", rule |-> o[2][i]]] :
        o \in Sorted(Differing(old, old, new), Sooner) \X Sorted(Differing(new, old, new), Sooner)}

\* Mutant of Scripts: the unreachable route and the catch-all are never brought back.
ScriptsUnguarded(m, force, rules) == Changes(m.rules, rules)

\* The scripts of reconcileModel(), line by line: the unreachable route and the
\* catch-all where they are to be repaired, every deletion, every addition.
Scripts(m, force, rules) ==
  {(IF force \/ ~m.guarded THEN <<[do |-> "route"]>> ELSE <<>>)
   \o (IF ~m.guarded THEN <<[do |-> "guard"]>> ELSE <<>>) \o diff :
     diff \in Changes(m.rules, rules)}

\* reconcileModel() up to its first script: it plans for the model m.  Choices are whose
\* grace has `lapsed`, which failed WANs have been so for the `overdue` time, and what is
\* drawn at random.  undo: what an error puts back.
Reconcile(kind, m, mem, chosen, run, force, forced, avoid, rebooted, undo) ==
  LET actual == Actual(m, mem, chosen) IN
  \E lapsed \in SUBSET (Devices \ m.leases),
     overdue \in SUBSET {w \in IF rebooted THEN {} ELSE mem.errors : m.wan[w] = "error"} :
  LET able == Working(m, mem, lapsed) \ (mem.held \cup forced) IN
  \E orphans \in IF run THEN Orphans(actual) ELSE {{}} :
  \E kept \in IF run THEN Kept(actual, orphans, able, m) ELSE {{}} :
  \E moved \in Moved(kept, orphans, m, overdue) :
  LET stay == orphans \cup (kept \ moved) IN
  \E requests \in IF run THEN Requests(m, mem, forced, moved, stay) ELSE {<<>>} :
  \E given \in Allocations(requests, stay, m, chosen, forced, avoid) :
  LET entries == stay \cup Fresh(given)
      wan == WanOf(entries)
      Sooner(d, e) == Ahead(d, e, mem.waiting) IN
  \E holding \in Holding(orphans, stay, m) :
  \E num \in Numberings(holding, entries, requests, m),
     waiting \in Sorted({d \in m.leases : wan[d] = None}, Sooner) :
  LET rules == RulesOf(holding, num) IN
  \E lines \in Scripts(m, force, rules) :
    op' = [kind |-> kind, lines |-> lines, undo |-> undo, exact |-> m.rules = router.rules,
           plan |-> [rules |-> rules, wan |-> wan,
                     memory |-> Remembered(m, mem, wan, waiting, lapsed)]]

\* The sweep reads the router; the poller waits for the reconcile of the last one.
Sweep ==
  /\ sample = NoModel /\ op.kind # "sample"
  /\ sample' = router
  /\ UNCHANGED <<router, model, lastBoot, memory, sticky, running, shown, op, changes, actions,
                 failures>>

\* onSample() gets hold of exclusive().  After a reboot service.ts calls it
\* twice: forced by onRouterReboot, and again.
TakeSample ==
  /\ op.kind = "idle" /\ sample # NoModel
  /\ LET rebooted == sample.boot # lastBoot /\ lastBoot # -1
     IN /\ Reconcile("sample", sample, memory, sticky, running, rebooted, {}, Unassigned,
                     rebooted, [memory |-> memory, sticky |-> sticky, running |-> running])
        /\ sample' = IF rebooted THEN sample ELSE NoModel
  /\ model' = sample /\ lastBoot' = sample.boot
  /\ UNCHANGED <<router, memory, sticky, running, shown, changes, actions, failures>>

\* deviceActionNow(): hold a device back, or give it another WAN.
ActOn(d, action) ==
  /\ actions < MaxActions /\ op.kind = "idle" /\ model # NoModel
  /\ actions' = actions + 1
  /\ LET mem == [memory EXCEPT !.held = IF action = "unassign" THEN @ \cup {d} ELSE @ \ {d}]
         chosen == IF action = "unassign" THEN sticky ELSE [sticky EXCEPT ![d] = None]
         forced == IF action = "unassign" THEN {} ELSE {d}
     IN /\ memory' = mem /\ sticky' = chosen
        /\ Reconcile(action, model, mem, chosen, running, FALSE, forced,
                     [Unassigned EXCEPT ![d] = shown[d]], FALSE,
                     [memory |-> memory, sticky |-> sticky, running |-> running])
  /\ UNCHANGED <<router, sample, model, lastBoot, running, shown, changes, failures>>

\* setRunning().
SetRunning(run) ==
  /\ actions < MaxActions /\ op.kind = "idle" /\ model # NoModel
  /\ actions' = actions + 1
  /\ running' = run
  /\ Reconcile(IF run THEN "start" ELSE "stop", model, memory, sticky, run, TRUE, {}, Unassigned,
               FALSE, [memory |-> memory, sticky |-> sticky, running |-> running])
  /\ UNCHANGED <<router, sample, model, lastBoot, memory, sticky, shown, changes, failures>>

\* The error of a script: what the operation had changed is put back.  The lines
\* that ran stay, and the model does not know of them.
GiveUp ==
  /\ op' = Idle
  /\ memory' = op.undo.memory /\ sticky' = op.undo.sticky /\ running' = op.undo.running

\* The router runs the next line.  Deleting a preference takes any rule of it and
\* never fails; adding a rule that is there fails.
Runs(line) ==
  /\ CASE line.do = "route" -> UNCHANGED router
       [] line.do = "guard" -> router' = [router EXCEPT !.guarded = TRUE]
       [] line.do = "add" -> router' = [router EXCEPT !.rules = @ \cup {line.rule}]
       [] line.do = "del" ->
            IF \E r \in router.rules : r.pref = line.pref
            THEN \E r \in router.rules :
                   r.pref = line.pref /\ router' = [router EXCEPT !.rules = @ \ {r}]
            ELSE UNCHANGED router
  /\ op' = [op EXCEPT !.lines = Tail(@)]
  /\ UNCHANGED <<memory, sticky, running>>

Line ==
  /\ op.kind # "idle" /\ op.lines # <<>>
  /\ LET line == Head(op.lines)
         there == \/ line.do = "guard" /\ router.guarded
                  \/ line.do = "add" /\ line.rule \in router.rules
     IN IF there THEN GiveUp /\ UNCHANGED router ELSE Runs(line)
  /\ UNCHANGED <<sample, model, lastBoot, shown, changes, actions, failures>>

\* The script breaks off: a timeout, or the connection.
Break ==
  /\ op.kind # "idle" /\ op.lines # <<>> /\ failures < MaxFailures
  /\ failures' = failures + 1
  /\ GiveUp
  /\ UNCHANGED <<router, sample, model, lastBoot, shown, changes, actions>>

\* The end of reconcileModel(): the model, and the sample that is the same object,
\* get the rules that were written.
Commit ==
  /\ op.kind # "idle" /\ op.lines = <<>>
  /\ memory' = op.plan.memory /\ shown' = op.plan.wan
  /\ sticky' = [d \in Devices |-> IF op.plan.wan[d] # None THEN op.plan.wan[d] ELSE sticky[d]]
  /\ model' = [model EXCEPT !.rules = op.plan.rules, !.guarded = TRUE]
  /\ sample' = IF op.kind = "sample" /\ sample # NoModel THEN model' ELSE sample
  /\ op' = Idle
  /\ UNCHANGED <<router, lastBoot, running, changes, actions, failures>>

\* A new engine after the module was switched off and on, or the machine lost: it
\* knows what is stored, and a script that was running is cut off.
Restart ==
  /\ changes < MaxChanges /\ changes' = changes + 1
  /\ model # NoModel
  /\ sample' = NoModel /\ model' = NoModel /\ lastBoot' = -1
  /\ memory' = EmptyMemory /\ shown' = Unassigned
  /\ IF op.kind = "idle" THEN UNCHANGED <<op, sticky, running>>
     ELSE op' = Idle /\ sticky' = sticky /\ running' = op.undo.running
  /\ UNCHANGED <<router, actions, failures>>

-----------------------------------------------------------------------------
\* The router by itself: leases come and go, WANs fail and return.
RouterChanges ==
  /\ changes < MaxChanges /\ changes' = changes + 1
  /\ \/ \E d \in Devices :
          router' = [router EXCEPT !.leases = IF d \in @ THEN @ \ {d} ELSE @ \cup {d}]
     \/ \E w \in Wans, s \in {"usable", "starting", "error"} :
          s # router.wan[w] /\ router' = [router EXCEPT !.wan[w] = s]
  /\ UNCHANGED <<sample, model, lastBoot, memory, sticky, running, shown, op, actions, failures>>

\* A reboot forgets rules and leases, and the script that was running with them.
Reboot ==
  /\ changes < MaxChanges /\ changes' = changes + 1
  /\ router' = [router EXCEPT !.boot = @ + 1, !.leases = {}, !.rules = {}, !.guarded = FALSE,
                              !.wan = [w \in Wans |-> "starting"]]
  /\ IF op.kind = "idle" THEN UNCHANGED <<op, memory, sticky, running>> ELSE GiveUp
  /\ UNCHANGED <<sample, model, lastBoot, shown, actions, failures>>

Works == Sweep \/ TakeSample \/ Line \/ Commit

Next ==
  \/ Works \/ Break \/ Restart \/ RouterChanges \/ Reboot
  \/ \E d \in Devices, action \in {"unassign", "reassign"} : ActOn(d, action)
  \/ \E run \in BOOLEAN : SetRunning(run)

Safety == Init /\ [][Next]_vars

\* What waits for exclusive() gets it, and its scripts run to their end.  For
\* TakeSample and Sweep, which are disabled by being taken, weak fairness is
\* that they are disabled again and again.
CanSweep == sample = NoModel /\ op.kind # "sample"
CanTake == op.kind = "idle" /\ sample # NoModel
EngineWorks == WF_vars(Line) /\ WF_vars(Commit) /\ []<>~CanTake

\* The poller sweeps again and again.
Fairness == EngineWorks /\ []<>~CanSweep

Spec == Safety /\ Fairness

-----------------------------------------------------------------------------
(***************************************************************************)
(* Properties                                                              *)
(***************************************************************************)

\* One rule per preference and per WAN, and one per device that has a lease.
OneToOne(rules, leases) ==
  \A r, s \in rules :
    r # s => r.pref # s.pref /\ r.wan # s.wan /\ (r.dev \in leases => r.dev # s.dev)

\* What reconcileModel() is about to write gives every device with a lease at most
\* one WAN and every WAN at most one device, whatever the sample held: rules of devices that
\* are gone, duplicates and leftovers of scripts that broke off.  No held device
\* is given one, and nobody waits while a usable WAN is free.
PlansAreOneToOne ==
  op.kind # "idle" =>
    /\ OneToOne(op.plan.rules, model.leases)
    /\ \A d \in op.plan.memory.held : op.plan.wan[d] = None
    /\ running /\ Range(op.plan.memory.waiting) \ op.plan.memory.held # {}
         => Usable(model) \subseteq {r.wan : r \in op.plan.rules}

\* A plan that was made from the rules the router had, and that ran to its end,
\* has written what the browsers are about to be shown.
WrittenIsPlanned ==
  op.kind # "idle" /\ op.lines = <<>> /\ op.exact => router.rules = op.plan.rules

BindingAgrees == PlansAreOneToOne /\ WrittenIsPlanned

\* Once the router is left alone, what it has and what is shown come to agree, one
\* device per WAN, and behind the catch-all, whatever stale samples, reboots and
\* broken scripts have left.
Agreed ==
  /\ router.guarded /\ OneToOne(router.rules, router.leases)
  /\ \A r \in router.rules : r.dev \in router.leases => shown[r.dev] = r.wan
  /\ \A d \in router.leases : shown[d] # None => \E r \in router.rules : r.dev = d
  /\ ~running => router.rules = {}

BindingConverges == <>[]Agreed

\* README.md: "A WAN can serve only one client", whenever no script is running.
OneClientPerWan ==
  op.kind = "idle" => \A r, s \in router.rules : r.wan = s.wan => r.dev = s.dev
=============================================================================
