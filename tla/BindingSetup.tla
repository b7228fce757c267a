----------------------------- MODULE BindingSetup -----------------------------
(***************************************************************************)
(* modules/openwrt/main/binding.ts, the life of binding instances: a form  *)
(* is checked, its preparation runs as a job of several items, and the     *)
(* instance is started, stopped and deleted, while the samples of the      *)
(* router repair its catch-all.  What an instance does with the devices is *)
(* in Binding.                                                             *)
(*                                                                         *)
(* A pair is a LAN and a carrier with one WAN; two instances overlap when  *)
(* they have the same pair.  The catch-all of an instance is an `ip rule`  *)
(* at the preference of its slot into a table that all instances share,    *)
(* with one unreachable route.  Rules, forwardings and tables are pairs of *)
(* a number and a pair.  Limits of dnsmasq are left out.                   *)
(***************************************************************************)
EXTENDS Integers, Sequences, FiniteSets, FiniteSetsExt

CONSTANTS
  Plans,         \* forms, and the instances made of them
  Pairs,
  Slots,         \* numbers: catchAllPrefBase + slot is below the ceiling
  Tables,        \* numbers of the routing tables that are free at first
  MaxForms, MaxActions, MaxFailures, MaxRestarts   \* bounds on what happens

VARIABLES
  router,   \* its catch-all rules and route, forwardings and tables
  sample,   \* the rules a sweep has read, until onSample() takes them
  model,    \* the rules of latestModel
  data,     \* the cache of the HostStore: instances and extraTables
  disk,     \* what it has written
  dirty,
  prep,     \* the token, reservation and job of each form
  op,       \* what holds exclusive(), with what is left for it to do
  broken,   \* what was under way has been cut off, or the router was rebooted
  forms, actions, failures, restarts

bounds == <<forms, actions, failures, restarts>>
vars == <<router, sample, model, data, disk, dirty, prep, op, broken, bounds>>
counts == <<broken, bounds>>

At == [at : Slots, pair : Pairs]
Absent == [pair |-> "none"]
Instances == [pair : Pairs, slot : Slots, running : BOOLEAN]
NoTable == 0
NoPrep == [stage |-> "none"]
Nobody == "nobody"
Idle == [kind |-> "idle", plan |-> Nobody, lines |-> <<>>, was |-> FALSE]
Stores == [inst : [Plans -> Instances \cup {Absent}], extra : [Pairs -> Tables \cup {NoTable}]]

\* An unknown model is the empty sequence, a known one has its rules.
Models == {<<>>} \cup {<<rules>> : rules \in SUBSET At}

\* The lines of scripts, and what the engine does between them.
Lines ==
  [do : {"flush", "route", "forward", "table", "extra", "save"}]
  \cup [do : {"clear", "del", "unforward"}, slot : Slots]
  \cup [do : {"guard"}, rule : At] \cup [do : {"model"}, rules : SUBSET At]
Preps == [stage : {"checked", "revalidate", "tables", "install"},
          pair : Pairs, slot : Slots, table : Tables \cup {NoTable}]

TypeOK ==
  /\ router \in [rules : SUBSET At, route : BOOLEAN, forwards : SUBSET At,
                 table : [Pairs -> Tables \cup {NoTable}]]
  /\ sample \in Models /\ model \in Models
  /\ data \in Stores /\ disk \in Stores /\ dirty \in BOOLEAN /\ broken \in BOOLEAN
  /\ prep \in [Plans -> Preps \cup {NoPrep}]
  /\ op \in [kind : {"idle", "sample", "tables", "install", "run", "delete", "restore"},
             plan : Plans \cup {Nobody}, lines : Seq(Lines), was : BOOLEAN]

Init ==
  /\ router = [rules |-> {}, route |-> FALSE, forwards |-> {},
               table |-> [c \in Pairs |-> NoTable]]
  /\ sample = <<>> /\ model = <<>>
  /\ data = [inst |-> [p \in Plans |-> Absent], extra |-> [c \in Pairs |-> NoTable]]
  /\ disk = data /\ dirty = FALSE /\ broken = FALSE
  /\ prep = [p \in Plans |-> NoPrep] /\ op = Idle
  /\ forms = 0 /\ actions = 0 /\ failures = 0 /\ restarts = 0

-----------------------------------------------------------------------------
Saved(store) == {p \in Plans : store.inst[p] # Absent}
Reserved == {p \in Plans : prep[p].stage \in {"revalidate", "tables", "install"}}
PairsAt(rules, s) == {r.pair : r \in {x \in rules : x.at = s}}
Rule(i) == [at |-> i.slot, pair |-> i.pair]

\* Two plans that cannot be prepared at once: reservePreparation().
Overlaps(p, q) ==
  \/ prep[p].pair = prep[q].pair \/ prep[p].slot = prep[q].slot
  \/ prep[p].table # NoTable /\ prep[p].table = prep[q].table

\* An instance has an interface of the plan.
Taken(p) == \E q \in Saved(data) : data.inst[q].pair = prep[p].pair

\* What no instance and no rule has, and what no WAN remembers or has.
FreeSlots == Slots \ ({data.inst[q].slot : q \in Saved(data)} \cup {r.at : r \in model[1]})
FreeTables == Tables \ ({data.extra[d] : d \in Pairs} \cup {router.table[d] : d \in Pairs})

\* check(): the lowest free slot, and for a WAN without a table the remembered or a
\* free one.  What it has read of the router may be stale when the token is used.
Check(p, c) ==
  /\ forms < MaxForms /\ forms' = forms + 1
  /\ model # <<>> /\ prep[p] = NoPrep /\ p \notin Saved(data)
  /\ \A q \in Saved(data) : data.inst[q].pair # c
  /\ FreeSlots # {}
  /\ \E table \in Tables \cup {NoTable} :
       /\ IF router.table[c] # NoTable THEN table = NoTable
          ELSE IF data.extra[c] # NoTable THEN table = data.extra[c]
          ELSE FreeTables # {} /\ table = Min(FreeTables)
       /\ prep' = [prep EXCEPT ![p] = [stage |-> "checked", pair |-> c,
                                       slot |-> Min(FreeSlots), table |-> table]]
  /\ UNCHANGED <<router, sample, model, data, disk, dirty, op, broken, actions, failures, restarts>>

\* apply(): the token is spent, the plan is reserved and its job started.
Apply(p) ==
  /\ prep[p].stage = "checked"
  /\ prep' = [prep EXCEPT ![p] = IF \E q \in Reserved : Overlaps(p, q) THEN NoPrep
                                 ELSE [@ EXCEPT !.stage = "revalidate"]]
  /\ UNCHANGED <<router, sample, model, data, disk, dirty, op, counts>>

\* The token expires, or the job is cancelled between two items: onFinished()
\* releases the plan.
Drop(p) ==
  /\ prep[p] # NoPrep /\ op.plan # p
  /\ prep' = [prep EXCEPT ![p] = NoPrep]
  /\ UNCHANGED <<router, sample, model, data, disk, dirty, op, counts>>

-----------------------------------------------------------------------------
(***************************************************************************)
(* What an operation has left to do: lines of scripts for the router, and  *)
(* what the engine does between them.                                      *)
(***************************************************************************)

Catch(i) == <<[do |-> "flush"], [do |-> "route"], [do |-> "clear", slot |-> i.slot],
              [do |-> "guard", rule |-> Rule(i)]>>

\* (Mutant) A catch-all that was lost is not put back.
ReconcileBlind(rules, store, force) ==
  {(IF force THEN <<[do |-> "flush"], [do |-> "route"]>> ELSE <<>>)
   \o <<[do |-> "model", rules |-> rules \cup {Rule(store.inst[p]) : p \in Saved(store)}]>>}

\* The instances whose rule the model does not show as it should be, with the pairs
\* of the rules that are at their preferences, and with their own.
Wrong(rules, store) ==
  {p \in Saved(store) : PairsAt(rules, store.inst[p].slot) # {store.inst[p].pair}}
Found(rules, store) ==
  {d \in Wrong(rules, store) \X Pairs : d[2] \in PairsAt(rules, store.inst[d[1]].slot)}
Wanted(rules, store) ==
  {d \in Wrong(rules, store) \X Pairs : d[2] = store.inst[d[1]].pair}

\* The instances in the order of their slots: what is to be done for them.
InOrder(S, store) ==
  {o \in [1..Cardinality(S) -> S] :
     /\ \A d \in S : \E i \in DOMAIN o : o[i] = d
     /\ \A i, j \in DOMAIN o : i < j => store.inst[o[i][1]].slot <= store.inst[o[j][1]].slot}

\* reconcileModel(), without the rules of the devices: the catch-alls that are wrong
\* are deleted as often as they are there and added, and the table is repaired first.
Repair(dels, adds, rules, store, force) ==
  (IF force \/ adds # <<>> THEN <<[do |-> "flush"], [do |-> "route"]>> ELSE <<>>)
  \o [i \in DOMAIN dels |-> [do |-> "del", slot |-> store.inst[dels[i][1]].slot]]
  \o [i \in DOMAIN adds |-> [do |-> "guard", rule |-> Rule(store.inst[adds[i][1]])]]
  \o <<[do |-> "model",
        rules |-> {r \in rules : \A p \in Wrong(rules, store) : store.inst[p].slot # r.at}
                  \cup {Rule(store.inst[p]) : p \in Saved(store)}]>>
Reconcile(rules, store, force) ==
  {Repair(o[1], o[2], rules, store, force) :
     o \in InOrder(Found(rules, store), store) \X InOrder(Wanted(rules, store), store)}

Begin(kind, p, lines, was) == op' = [kind |-> kind, plan |-> p, lines |-> lines, was |-> was]

\* The items of preparationJob(), each under exclusive(); one that throws aborts
\* the job.
Abort(p) == prep' = [prep EXCEPT ![p] = NoPrep] /\ UNCHANGED op

\* The table is still nobody else's, and the WAN has got no other.
TableIsFree(p) ==
  /\ router.table[prep[p].pair] \in {NoTable, prep[p].table}
  /\ \A c \in Pairs \ {prep[p].pair} : router.table[c] # prep[p].table

\* revalidatePreparation()
Revalidate(p) ==
  /\ op.kind = "idle" /\ prep[p].stage = "revalidate"
  /\ IF /\ model # <<>> /\ ~Taken(p) /\ PairsAt(model[1], prep[p].slot) = {}
        /\ prep[p].table # NoTable => TableIsFree(p)
     THEN /\ prep' = [prep EXCEPT ![p].stage = IF prep[p].table = NoTable THEN "install"
                                               ELSE "tables"]
          /\ UNCHANGED op
     ELSE Abort(p)
  /\ UNCHANGED <<router, sample, model, data, disk, dirty, counts>>

\* applyTableChunk()
PrepareTable(p) ==
  LET mine == prep[p]
      claimed == \/ \E c \in Pairs \ {mine.pair} : data.extra[c] = mine.table
                 \/ \E q \in Reserved \ {p} : prep[q].table = mine.table /\ prep[q].pair # mine.pair
  IN /\ op.kind = "idle" /\ mine.stage = "tables"
     /\ IF claimed THEN Abort(p)
        ELSE /\ Begin("tables", p, <<[do |-> "table"], [do |-> "extra"]>>, FALSE)
             /\ UNCHANGED prep
     /\ UNCHANGED <<router, sample, model, data, disk, dirty, counts>>

\* An instance got an interface or the slot while the job waited.
Claimed(p) == Taken(p) \/ \E q \in Saved(data) : data.inst[q].slot = prep[p].slot

\* The last item: the forwardings, the catch-all, the instance.
Install(p) ==
  /\ op.kind = "idle" /\ prep[p].stage = "install"
  /\ IF Claimed(p) THEN Abort(p)
     ELSE /\ Begin("install", p,
                   <<[do |-> "forward"]>> \o Catch(prep[p]) \o <<[do |-> "save"]>>, FALSE)
          /\ UNCHANGED prep
  /\ UNCHANGED <<router, sample, model, data, disk, dirty, counts>>

\* setRunning(): the cached instance is changed at once, marked dirty at the end.
SetRunning(p, run) ==
  /\ actions < MaxActions /\ actions' = actions + 1
  /\ op.kind = "idle" /\ model # <<>> /\ p \in Saved(data)
  /\ data' = [data EXCEPT !.inst[p].running = run]
  /\ \E lines \in Reconcile(model[1], data', TRUE) :
       Begin("run", p, lines, data.inst[p].running)
  /\ UNCHANGED <<router, sample, model, disk, dirty, prep, broken, forms, failures, restarts>>

\* (Mutant) deleteNow() leaves the catch-all where it is.
DeletionHalf(i, store) ==
  {<<[do |-> "unforward", slot |-> i.slot]>> \o lines : lines \in Reconcile(model[1], store, FALSE)}

\* The scripts of deleteNow().
Deletion(i, store) ==
  {<<[do |-> "unforward", slot |-> i.slot]>> \o lines \o <<[do |-> "clear", slot |-> i.slot]>> :
     lines \in Reconcile(model[1], store, FALSE)}

\* deleteNow()
Delete(p) ==
  /\ actions < MaxActions /\ actions' = actions + 1
  /\ op.kind = "idle" /\ model # <<>> /\ p \in Saved(data)
  /\ data' = [data EXCEPT !.inst[p].running = FALSE]
  /\ \E lines \in Deletion(data.inst[p], data') :
       Begin("delete", p, lines, data.inst[p].running)
  /\ UNCHANGED <<router, sample, model, disk, dirty, prep, broken, forms, failures, restarts>>

\* A sweep reads the router; the poller waits for the last one's reconcile.
Sweep ==
  /\ sample = <<>> /\ op.kind # "sample"
  /\ sample' = <<router.rules>>
  /\ UNCHANGED <<router, model, data, disk, dirty, prep, op, counts>>

\* onSample().  That the router has been rebooted is seen by the rules it has lost.
TakeSample ==
  /\ op.kind = "idle" /\ sample # <<>>
  /\ model' = sample /\ sample' = <<>>
  /\ \E lines \in Reconcile(sample[1], data, FALSE) : Begin("sample", Nobody, lines, FALSE)
  /\ UNCHANGED <<router, data, disk, dirty, prep, counts>>

-----------------------------------------------------------------------------
(***************************************************************************)
(* The lines.                                                              *)
(***************************************************************************)

AtRouter ==
  op.lines # <<>> /\ Head(op.lines).do \in {"flush", "route", "clear", "del", "guard", "forward",
                                            "unforward", "table"}

\* The operation throws.  A preparation leaves what it has done; a deletion puts
\* the catch-all back, as far as it can.
GiveUp ==
  LET Restored == [data EXCEPT !.inst[op.plan].running = op.was] IN
  /\ broken' = TRUE
  /\ CASE op.kind \in {"tables", "install"} ->
            op' = Idle /\ prep' = [prep EXCEPT ![op.plan] = NoPrep] /\ UNCHANGED data
       [] op.kind \in {"run", "restore"} ->
            op' = Idle /\ data' = Restored /\ UNCHANGED prep
       [] op.kind = "delete" ->
            /\ \E lines \in Reconcile(model[1], data, TRUE) :
                 Begin("restore", op.plan, Catch(data.inst[op.plan]) \o lines, op.was)
            /\ UNCHANGED <<prep, data>>
       [] op.kind = "sample" -> op' = Idle /\ UNCHANGED <<prep, data>>

\* What a line does to the router.  A preference is deleted with any one of its
\* rules, or cleared of all.
Written(line) ==
  CASE line.do = "flush" -> router' = [router EXCEPT !.route = FALSE]
    [] line.do = "route" -> router' = [router EXCEPT !.route = TRUE]
    [] line.do = "clear" -> router' = [router EXCEPT !.rules = {r \in @ : r.at # line.slot}]
    [] line.do = "del" ->
         IF PairsAt(router.rules, line.slot) = {} THEN UNCHANGED router
         ELSE \E r \in router.rules : r.at = line.slot /\ router' = [router EXCEPT !.rules = @ \ {r}]
    [] line.do = "guard" -> router' = [router EXCEPT !.rules = @ \cup {line.rule}]
    [] line.do = "forward" ->
         router' = [router EXCEPT !.forwards = {f \in @ : f.at # prep[op.plan].slot}
                                               \cup {Rule(prep[op.plan])}]
    [] line.do = "unforward" -> router' = [router EXCEPT !.forwards = {f \in @ : f.at # line.slot}]
    [] line.do = "table" -> router' = [router EXCEPT !.table[prep[op.plan].pair] = prep[op.plan].table]

\* The router runs the next line; to add a rule that is there is an error.
Line ==
  /\ AtRouter
  /\ LET line == Head(op.lines) IN
     IF line.do = "guard" /\ line.rule \in router.rules
     THEN GiveUp /\ UNCHANGED router
     ELSE Written(line) /\ op' = [op EXCEPT !.lines = Tail(@)] /\ UNCHANGED <<prep, data, broken>>
  /\ UNCHANGED <<sample, model, disk, dirty, bounds>>

\* A script breaks off: a timeout, or the connection.
Break ==
  /\ AtRouter
  /\ failures < MaxFailures /\ failures' = failures + 1
  /\ GiveUp
  /\ UNCHANGED <<router, sample, model, disk, dirty, forms, actions, restarts>>

\* The engine remembers the table it has written.
RememberTable ==
  /\ op.kind = "tables" /\ op.lines = <<[do |-> "extra"]>>
  /\ data' = [data EXCEPT !.extra[prep[op.plan].pair] = prep[op.plan].table] /\ dirty' = TRUE
  /\ prep' = [prep EXCEPT ![op.plan].stage = "install"] /\ op' = Idle
  /\ UNCHANGED <<router, sample, model, disk, counts>>

\* The catch-all stands: it is entered in the model, the instance is stored, and
\* reconciled for the first time.
SaveInstance ==
  LET mine == prep[op.plan]
      rules == {r \in model[1] : r.at # mine.slot} \cup {Rule(mine)} IN
  /\ op.kind = "install" /\ op.lines = <<[do |-> "save"]>>
  /\ model' = <<rules>>
  /\ data' = [data EXCEPT !.inst[op.plan] = [pair |-> mine.pair, slot |-> mine.slot,
                                             running |-> TRUE]]
  /\ dirty' = TRUE
  /\ \E lines \in Reconcile(rules, data', FALSE) : op' = [op EXCEPT !.lines = lines]
  /\ UNCHANGED <<router, sample, disk, prep, counts>>

\* The end of reconcileModel(): the model has the rules that were written.
Reconciled ==
  /\ op.lines # <<>> /\ Head(op.lines).do = "model"
  /\ model' = <<Head(op.lines).rules>>
  /\ op' = [op EXCEPT !.lines = Tail(@)]
  /\ UNCHANGED <<router, sample, data, disk, dirty, prep, counts>>

\* The operation is over.
Finish ==
  /\ op.kind # "idle" /\ op.lines = <<>>
  /\ op' = Idle
  /\ CASE op.kind = "install" ->
            prep' = [prep EXCEPT ![op.plan] = NoPrep] /\ UNCHANGED <<data, dirty>>
       [] op.kind = "run" -> dirty' = TRUE /\ UNCHANGED <<data, prep>>
       [] op.kind = "delete" ->
            data' = [data EXCEPT !.inst[op.plan] = Absent] /\ dirty' = TRUE /\ UNCHANGED prep
       [] op.kind = "restore" ->
            data' = [data EXCEPT !.inst[op.plan].running = op.was] /\ UNCHANGED <<dirty, prep>>
       [] op.kind = "sample" -> UNCHANGED <<data, dirty, prep>>
  /\ UNCHANGED <<router, sample, model, disk, counts>>

-----------------------------------------------------------------------------
\* HostStore.flush(), by its timer.
Flush ==
  /\ dirty /\ dirty' = FALSE /\ disk' = data
  /\ UNCHANGED <<router, sample, model, data, prep, op, counts>>

\* A new engine: after dispose(), which flushes what is dirty, or after a crash.
\* The script that was running is cut off.
Restart(disposed) ==
  /\ restarts < MaxRestarts /\ restarts' = restarts + 1
  /\ disk' = IF disposed /\ dirty THEN data ELSE disk
  /\ data' = disk' /\ dirty' = FALSE
  /\ sample' = <<>> /\ model' = <<>>
  /\ prep' = [p \in Plans |-> NoPrep] /\ op' = Idle
  /\ broken' = (broken \/ op.kind # "idle" \/ (dirty /\ ~disposed))
  /\ UNCHANGED <<router, forms, actions, failures>>

\* A reboot of the router keeps its configuration, not its rules and routes.
Reboot ==
  /\ failures < MaxFailures /\ failures' = failures + 1
  /\ router' = [router EXCEPT !.rules = {}, !.route = FALSE]
  /\ IF AtRouter THEN GiveUp ELSE broken' = TRUE /\ UNCHANGED <<op, prep, data>>
  /\ UNCHANGED <<sample, model, disk, dirty, forms, actions, restarts>>

Works == Line \/ RememberTable \/ SaveInstance \/ Reconciled \/ Finish

Next ==
  \/ \E p \in Plans :
       \/ \E c \in Pairs : Check(p, c)
       \/ Apply(p) \/ Drop(p) \/ Revalidate(p) \/ PrepareTable(p) \/ Install(p) \/ Delete(p)
       \/ \E run \in BOOLEAN : SetRunning(p, run)
  \/ Sweep \/ TakeSample \/ Works \/ Break \/ Flush \/ Reboot
  \/ \E disposed \in BOOLEAN : Restart(disposed)

Safety == Init /\ [][Next]_vars

\* What runs comes to its end.  A sample waits for exclusive(), a chain, and gets
\* it again and again; the poller sweeps again and again.
CanTake == op.kind = "idle" /\ sample # <<>>
CanSweep == sample = <<>> /\ op.kind # "sample"
Fairness == WF_vars(Works) /\ []<>~CanTake /\ []<>~CanSweep

Spec == Safety /\ Fairness

-----------------------------------------------------------------------------
(***************************************************************************)
(* Properties                                                              *)
(***************************************************************************)

\* No two instances share a slot or an interface, in memory or on disk, nor do two
\* plans that are being prepared, although a slot and a table are chosen long
\* before anything is reserved, and reservations do not outlive the engine.
SlotsAreExclusive ==
  /\ \A store \in {data, disk} : \A p, q \in Saved(store) :
       p # q => /\ store.inst[p].slot # store.inst[q].slot
                /\ store.inst[p].pair # store.inst[q].pair
  /\ \A p, q \in Reserved : p # q => ~Overlaps(p, q)

\* No two WANs get the same routing table, whatever is checked, cancelled and
\* applied in between.
TablesAreUnique ==
  \A c, d \in Pairs : c # d /\ router.table[c] # NoTable => router.table[c] # router.table[d]

\* As long as no script has failed, of itself or because it was cut off, and nothing
\* stored was lost, the router has what the stored instances need and nothing else.
AsStored ==
  op.kind = "idle" /\ ~broken =>
    /\ router.rules = {Rule(data.inst[p]) : p \in Saved(data)}
    /\ Saved(data) # {} => router.route

PreparationsAgree == SlotsAreExclusive /\ TablesAreUnique /\ AsStored

\* In the end every stored instance has its catch-all rule.
GuardsConverge == <>[](\A p \in Saved(data) : Rule(data.inst[p]) \in router.rules)
=============================================================================
