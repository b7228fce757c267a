-------------------------------- MODULE Pppoe --------------------------------
(***************************************************************************)
(* modules/openwrt/main/pppoe.ts with uci.ts and the job runner of jobs.ts: *)
(* batches of PPPoE sessions are checked, created and deleted by jobs that *)
(* run beside each other, chunk by chunk, can be cancelled between two     *)
(* items and abort at the first command that fails.                        *)
(*                                                                         *)
(* A sequence number stands for one chunk of sessions: its sections and    *)
(* its routing tables.  All batches have one prefix, carrier and VLAN; the *)
(* firewall zone lists networks (zoneMode "networks").  `uci` and `zone`   *)
(* are the committed configuration, `live` and `liveZone` what runs.  A    *)
(* `uci delete` of what is not there is no failure.  The actions that start *)
(* and stop sessions, with the waves that do so before a deletion, their   *)
(* states and the watchdog are left out, and so are a reset of the module  *)
(* and a second deletion of a batch while the first one still reloads.     *)
(***************************************************************************)
EXTENDS Naturals, Sequences, FiniteSets, SequencesExt

CONSTANTS
  Size,          \* chunks of a batch
  Limit,         \* allocationLimit(): the last sequence number
  Occupied,      \* where the operator may have a section of their own
  Patient,       \* whether users wait for the end of a creation before they delete the batch
  MaxForms,      \* forms that are checked
  MaxDeletes, MaxCancels, MaxFailures   \* bounds on what else happens

VARIABLES
  router,        \* [uci, live, zone, liveZone, vlan]
  recorded,      \* HostStore: seqFrom of each batch, 0 when it has no record
  nextSeq,
  token,         \* the range that the form was checked with, 0 without a token
  seen,          \* the inventory that apply() awaits or has got
  job,           \* for each batch, the job that creates it and the one that deletes it
  chain,         \* the jobs that wait for firewallChain, its holder first
  deleting,
  made,          \* the batches whose creation was recorded as "done"
  lasting,       \* whether something failed that no reload makes up for
  forms, deletes, cancels, failures

counts == <<forms, deletes, cancels, failures>>
vars == <<router, recorded, nextSeq, token, seen, job, chain, deleting, made, lasting, counts>>

Batches == 1..MaxForms      \* in the order of their forms
Seqs == 1..Limit
None == 0
Other == MaxForms + 1       \* a section of the operator
Jobs == {"create", "delete"} \X Batches
NoJob == [state |-> "none"]
NotAsked == {0}
Chunks(from) == {from + i : i \in 0..(Size - 1)}
Members(batches) == UNION {Chunks(recorded[b]) : b \in {x \in batches : recorded[x] # 0}}
Do(command) == [do |-> command, seq |-> 0]
DoAt(command, s) == [do |-> command, seq |-> s]

TypeOK ==
  /\ router \in [uci : [Seqs -> Batches \cup {None, Other}], live : SUBSET Seqs,
                 zone : SUBSET Seqs, liveZone : SUBSET Seqs, vlan : BOOLEAN]
  /\ recorded \in [Batches -> 0..Limit] /\ token \in [Batches -> 0..Limit]
  /\ nextSeq \in 1..(Limit + 1)
  /\ \A b \in Batches : seen[b] \subseteq 0..Limit
  /\ \A j \in Jobs : job[j].state \in {"none", "running", "closing"}
  /\ ToSet(chain) \subseteq Jobs /\ deleting \subseteq Batches /\ made \subseteq Batches
  /\ lasting \in BOOLEAN

Init ==
  /\ \E s \in Occupied \cup {0} :
       router = [uci |-> [t \in Seqs |-> IF t = s THEN Other ELSE None],
                 live |-> Seqs \cap {s}, zone |-> {}, liveZone |-> {}, vlan |-> FALSE]
  /\ recorded = [b \in Batches |-> 0] /\ nextSeq = 1
  /\ token = [b \in Batches |-> 0] /\ seen = [b \in Batches |-> NotAsked]
  /\ job = [j \in Jobs |-> NoJob] /\ chain = <<>>
  /\ deleting = {} /\ made = {} /\ lasting = FALSE
  /\ forms = 0 /\ deletes = 0 /\ cancels = 0 /\ failures = 0

Sections == {s \in Seqs : router.uci[s] # None}

-----------------------------------------------------------------------------
(***************************************************************************)
(* The form.                                                               *)
(***************************************************************************)

\* Mutant: apply() trusts the range of the check.
FreeThen(from, inventory) ==
  Chunks(from) \subseteq Seqs /\ Chunks(from) \cap inventory = {}

\* rangeStillFree(), and what findSequenceRange() looks for.
Free(from, inventory) ==
  /\ Chunks(from) \subseteq Seqs
  /\ Chunks(from) \cap (Members(Batches) \cup inventory) = {}

\* scanSequenceRange() from nextSeq on, then from 1.
FoundRanges ==
  LET free == {s \in Seqs : Free(s, Sections)}
      ahead == {s \in free : s >= nextSeq}
      first(ranges) == {s \in ranges : \A t \in ranges : s <= t}
  IN IF ahead # {} THEN first(ahead) ELSE first(free)

\* check(): what it reads is read again by apply().
Check(b) ==
  /\ b = forms + 1
  /\ \E from \in FoundRanges : token' = [token EXCEPT ![b] = from]
  /\ forms' = b
  /\ UNCHANGED <<router, recorded, nextSeq, seen, job, chain, deleting, made, lasting, deletes,
                 cancels, failures>>

\* apply() until the inventory of the router has been read.
Asks(b) ==
  /\ token[b] # 0 /\ seen[b] = NotAsked
  /\ seen' = [seen EXCEPT ![b] = Sections]
  /\ UNCHANGED <<router, recorded, nextSeq, token, job, chain, deleting, made, lasting, counts>>

CreateItems(from) ==
  [i \in 1..Size |-> <<DoAt("set", from + i - 1), Do("reload")>>]
    \o << <<Do("firewall")>>, <<Do("verify")>> >>

Started(from, items) ==
  [state |-> "running", from |-> from, items |-> items, cmds |-> <<>>, plan |-> {},
   failed |-> FALSE, cancelled |-> FALSE, mutated |-> FALSE, reloaded |-> FALSE]

\* The rest of apply().
Apply(b) ==
  LET from == token[b] IN
  /\ seen[b] # NotAsked
  /\ seen' = [seen EXCEPT ![b] = NotAsked]
  /\ token' = [token EXCEPT ![b] = 0]
  /\ IF recorded[b] = 0 /\ Free(from, seen[b])
     THEN /\ recorded' = [recorded EXCEPT ![b] = from]
          /\ nextSeq' = IF nextSeq > from + Size THEN nextSeq ELSE from + Size
          /\ job' = [job EXCEPT ![<<"create", b>>] = Started(from, CreateItems(from))]
     ELSE UNCHANGED <<recorded, nextSeq, job>>
  /\ UNCHANGED <<router, chain, deleting, made, lasting, counts>>

\* batchDelete().
DeleteItems(from) ==
  << <<Do("inspect")>> >>
    \o [i \in 1..Size |-> <<DoAt("delete", from + i - 1)>>]
    \o << <<Do("survey"), Do("reload"), Do("reloadFirewall")>> >>

Delete(b) ==
  LET j == <<"delete", b>> IN
  /\ deletes < MaxDeletes /\ deletes' = deletes + 1
  /\ recorded[b] # 0 /\ b \notin deleting /\ job[j] = NoJob
  /\ Patient => job[<<"create", b>>] = NoJob
  /\ deleting' = deleting \cup {b}
  /\ made' = made \ {b}
  /\ job' = [job EXCEPT ![j] = Started(recorded[b], DeleteItems(recorded[b]))]
  /\ UNCHANGED <<router, recorded, nextSeq, token, seen, chain, lasting, forms, cancels, failures>>

\* jobs.ts cancel().
Cancel(j) ==
  /\ cancels < MaxCancels /\ cancels' = cancels + 1
  /\ job[j].state = "running"
  /\ job' = [job EXCEPT ![j].cancelled = TRUE]
  /\ UNCHANGED <<router, recorded, nextSeq, token, seen, chain, deleting, made, lasting, forms,
                 deletes, failures>>

-----------------------------------------------------------------------------
(***************************************************************************)
(* The runner, one command on the router after the other.                  *)
(***************************************************************************)

Batch(j) == j[2]
Creates(j) == j[1] = "create"
Upcoming(j) == Head(job[j].cmds).do
Holds(j) == chain # <<>> /\ Head(chain) = j /\ Upcoming(j) # "wait"

\* withFirewall(): what it runs waits for what came before.  A deletion has decided by
\* then which members remain.
Joined(j, rest) ==
  /\ chain' = Append(chain, j)
  /\ job' = [job EXCEPT ![j].cmds = <<Do("wait")>> \o rest,
                        ![j].plan = Members(Batches \ {Batch(j)})]

\* Jobs.run(): the next item.
NextItem(j) ==
  /\ job[j].state = "running" /\ job[j].cmds = <<>>
  /\ job[j].items # <<>> /\ ~job[j].failed /\ ~job[j].cancelled
  /\ LET item == Head(job[j].items) IN
     IF Head(item).do = "firewall"
     THEN /\ chain' = Append(chain, j)
          /\ job' = [job EXCEPT ![j].items = Tail(@), ![j].cmds = <<Do("wait")>>]
     ELSE /\ job' = [job EXCEPT ![j].items = Tail(@), ![j].cmds = item]
          /\ UNCHANGED chain
  /\ UNCHANGED <<router, recorded, nextSeq, token, seen, deleting, made, lasting, counts>>

\* Mutant: nothing is made up for when a deletion breaks off.
EndsAbruptly(j) ==
  LET b == Batch(j)
      done == ~job[j].failed /\ ~job[j].cancelled
  IN
  /\ job[j].state = "running" /\ job[j].cmds = <<>> /\ (job[j].items = <<>> \/ ~done)
  /\ made' = IF Creates(j) /\ done /\ recorded[b] # 0 THEN made \cup {b} ELSE made
  /\ recorded' = IF ~Creates(j) /\ done THEN [recorded EXCEPT ![b] = 0] ELSE recorded
  /\ deleting' = deleting \ {b}
  /\ job' = [job EXCEPT ![j] = NoJob]
  /\ UNCHANGED <<router, nextSeq, token, seen, chain, lasting, counts>>

\* The end of Jobs.run() and the onFinished hook.
Ends(j) ==
  LET b == Batch(j)
      done == ~job[j].failed /\ ~job[j].cancelled
  IN
  /\ job[j].state = "running" /\ job[j].cmds = <<>>
  /\ job[j].items = <<>> \/ ~done
  /\ IF Creates(j)
     THEN /\ made' = IF done /\ recorded[b] # 0 /\ b \notin deleting THEN made \cup {b} ELSE made
          /\ job' = [job EXCEPT ![j] = NoJob]
          /\ UNCHANGED <<recorded, deleting>>
     ELSE /\ deleting' = deleting \ {b}
          /\ recorded' = IF done THEN [recorded EXCEPT ![b] = 0] ELSE recorded
          /\ job' = IF job[j].mutated /\ ~job[j].reloaded
                    THEN [job EXCEPT ![j].state = "closing",
                                     ![j].cmds = <<Do("reload"), Do("reloadFirewall")>>]
                    ELSE [job EXCEPT ![j] = NoJob]
          /\ UNCHANGED made
  /\ UNCHANGED <<router, nextSeq, token, seen, chain, lasting, counts>>

\* What a command does to the router.
Effect(j, command) ==
  LET s == command.seq IN
  CASE command.do = "set" ->
         [router EXCEPT !.uci[s] = Batch(j), !.vlan = @ \/ s = job[j].from]
    [] command.do = "delete" -> [router EXCEPT !.uci[s] = None, !.zone = @ \ {s}]
    [] command.do = "dropVlan" -> [router EXCEPT !.vlan = FALSE]
    [] command.do = "clear" -> [router EXCEPT !.zone = {}]
    [] command.do = "add" -> [router EXCEPT !.zone = @ \cup job[j].plan]
    [] command.do = "reload" -> [router EXCEPT !.live = Sections]
    [] command.do = "reloadFirewall" -> [router EXCEPT !.liveZone = router.zone]
    [] OTHER -> router

\* The job's turn of firewallChain: buildFirewallPlan(), for a creation of what is
\* recorded now.
Rebuild(j, plan) ==
  <<Do("clear")>> \o (IF plan = {} THEN <<>> ELSE <<Do("add")>>)
    \o (IF Creates(j) THEN <<Do("reloadFirewall")>> ELSE <<>>)

Granted(j) ==
  LET plan == IF Creates(j) THEN Members(Batches) ELSE job[j].plan IN
  /\ chain # <<>> /\ Head(chain) = j /\ Upcoming(j) = "wait"
  /\ job' = [job EXCEPT ![j].plan = plan, ![j].cmds = Rebuild(j, plan) \o Tail(@)]
  /\ UNCHANGED <<router, recorded, nextSeq, token, seen, chain, deleting, made, lasting, counts>>

Active(j) == job[j].state # "none" /\ job[j].cmds # <<>> /\ Upcoming(j) # "wait"

\* A command has succeeded.
Succeeds(j) ==
  LET command == Head(job[j].cmds)
      rest == Tail(job[j].cmds)
      used == \E s \in Seqs : router.uci[s] \in Batches
  IN
  /\ Active(j)
  /\ command.do = "verify" => Chunks(job[j].from) \subseteq router.live
  /\ router' = Effect(j, command)
  /\ CASE command.do = "survey" /\ router.vlan /\ ~used ->
            /\ job' = [job EXCEPT ![j].cmds = <<Do("dropVlan")>> \o rest, ![j].mutated = TRUE]
            /\ UNCHANGED chain
       [] command.do = "dropVlan" \/ (command.do = "survey" /\ (used \/ ~router.vlan)) ->
            Joined(j, rest)
       [] OTHER ->
            /\ job' = [job EXCEPT
                 ![j] = IF rest = <<>> /\ @.state = "closing" THEN NoJob
                        ELSE [@ EXCEPT
                                !.cmds = rest,
                                !.mutated = job[j].mutated \/ command.do = "delete",
                                !.reloaded = job[j].reloaded
                                  \/ (~Creates(j) /\ command.do = "reloadFirewall")]]
            /\ chain' = IF Holds(j) /\ (rest = <<>> \/ Head(rest).do = "reload")
                        THEN Tail(chain) ELSE chain
  /\ UNCHANGED <<recorded, nextSeq, token, seen, deleting, made, lasting, counts>>

\* A command fails, with its effect or without: the item throws, the runner aborts.
Aborted(j) ==
  /\ job' = [job EXCEPT ![j] = IF @.state = "closing" THEN NoJob
                               ELSE [@ EXCEPT !.cmds = <<>>, !.failed = TRUE,
                                              !.mutated = job[j].mutated
                                                \/ Upcoming(j) = "delete"]]
  /\ chain' = IF Holds(j) THEN Tail(chain) ELSE chain
  /\ UNCHANGED <<recorded, nextSeq, token, seen, deleting, made>>

Fails(j) ==
  /\ Active(j)
  /\ failures < MaxFailures /\ failures' = failures + 1
  /\ router' \in {router, Effect(j, Head(job[j].cmds))}
  /\ lasting' = (lasting \/ Creates(j) \/ job[j].state = "closing")
  /\ Aborted(j)
  /\ UNCHANGED <<forms, deletes, cancels>>

\* The verification finds that sessions are missing.
Missed(j) ==
  /\ Active(j) /\ Upcoming(j) = "verify" /\ ~(Chunks(job[j].from) \subseteq router.live)
  /\ Aborted(j)
  /\ UNCHANGED <<router, lasting, counts>>

Runs(j) == NextItem(j) \/ Ends(j) \/ Granted(j) \/ Succeeds(j) \/ Fails(j) \/ Missed(j)

Next ==
  \/ \E b \in Batches : Check(b) \/ Asks(b) \/ Apply(b) \/ Delete(b)
  \/ \E j \in Jobs : Cancel(j) \/ Runs(j)

Fairness == \A j \in Jobs : WF_vars(Runs(j))
Spec == Init /\ [][Next]_vars /\ Fairness

-----------------------------------------------------------------------------
(***************************************************************************)
(* Properties.                                                             *)
(***************************************************************************)

\* No two batches have a sequence number in common, and none has one of the operator's:
\* what a form was checked for is looked at again when it is applied, beside creations
\* and deletions that run meanwhile (apply(), findSequenceRange()).
RangesAreApart ==
  /\ \A a, b \in Batches :
       a # b /\ recorded[a] # 0 /\ recorded[b] # 0
         => Chunks(recorded[a]) \cap Chunks(recorded[b]) = {}
  /\ \A b \in Batches : recorded[b] # 0 =>
       \A s \in Chunks(recorded[b]) : router.uci[s] \in {None, b}

\* The sessions on the router belong to a batch that is recorded, so that somebody can
\* see and delete them, wherever a job was cancelled or aborted.
SectionsAreRecorded ==
  \A s \in Seqs : LET b == router.uci[s] IN
    b \in Batches => recorded[b] # 0 /\ s \in Chunks(recorded[b])

AtRest == \A j \in Jobs : job[j] = NoJob

\* When no job runs, the router runs what is committed, unless a command of a creation
\* or the last reload itself has failed: a deletion that is cancelled or fails between
\* two of its commands makes up for it.
RunningIsCommitted ==
  AtRest /\ ~lasting => router.live = Sections /\ router.liveZone = router.zone

\* A batch whose creation is done is in the firewall zone, whatever other creations and
\* deletions rebuild the zone, as long as no command fails.
MadeAreMembers ==
  AtRest /\ failures = 0 => \A b \in made : Chunks(recorded[b]) \subseteq router.liveZone

PppoeAgrees == RangesAreApart /\ RunningIsCommitted /\ MadeAreMembers
               /\ (Patient => SectionsAreRecorded)

\* Not a property of the code: a deletion looks for the sessions that use the VLAN device
\* and then removes the device, while a creation may have committed its first chunk.
DevicesExist == AtRest /\ (\E s \in Seqs : router.uci[s] \in Batches) => router.vlan

\* In the end every job has ended.
Settled == AtRest

=============================================================================
