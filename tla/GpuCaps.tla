------------------------------ MODULE GpuCaps ------------------------------
(***************************************************************************)
(* The auto power cap of the GPU module (modules/gpu/main/service.ts): a   *)
(* poller that asks whether the machine is busy and puts the idle or the   *)
(* running cap on each watched GPU, the calls of the page that change what *)
(* it does, and the commands of both that are under way on the machine.    *)
(*                                                                         *)
(* The service of one activation is the record `svc`; `saved` and the caps *)
(* outlive it.  autoCapGeneration is only ever compared for equality by    *)
(* the tick under way, so it is that tick's flag `fresh`.  The calls that  *)
(* `waiting` for a tick resume one right after the other when it ends, in  *)
(* the order in which they came: nothing happens while one is `ready`.     *)
(***************************************************************************)
EXTENDS Naturals, Sequences, FiniteSetsExt

CONSTANTS
  Gpus,        \* indexes of the GPUs of the machine
  Plans,       \* pairs of caps a user sets, [idle |-> watts, running |-> watts]
  MaxEvents    \* bound on the calls of the page, activations, failures and changes of
               \* the load, together

None == 0
DefaultCap == 9
Triggers == {"docker", "gpu"}
Intervals == {1, 2}

VARIABLES
  svc,       \* the service of the live instance, or Off
  saved,     \* what hostDataSet() saved for this machine
  cap,       \* the cap each GPU has
  load,      \* GPUs with a compute process; all containers use one
  strays,    \* commands of disposed services still under way
  foreign,   \* GPUs whose cap was last set by something else than the watcher
  stalled,   \* a call that had stopped the watcher was refused
  events     \* what has happened of what MaxEvents bounds

machine == <<cap, load, strays, foreign>>
vars == <<svc, saved, machine, stalled, events>>

Off == [alive |-> FALSE]
NoTick == [stage |-> "none"]
NoPlan == [idle |-> 0, running |-> 0]
Defaults == [enabled |-> FALSE, trigger |-> "docker", interval |-> 1,
             plan |-> [g \in Gpus |-> NoPlan]]

Configs == [enabled : BOOLEAN, trigger : Triggers, interval : Intervals,
            plan : [Gpus -> Plans \cup {NoPlan}]]
Caps == {p.idle : p \in Plans} \cup {p.running : p \in Plans} \cup {DefaultCap}
Ticks == {NoTick} \cup [stage : {"probing"}, fresh : BOOLEAN, trigger : Triggers]
                  \cup [stage : {"setting"}, fresh : BOOLEAN, busy : SUBSET Gpus,
                        gpu : Gpus, watts : Caps, todo : SUBSET Gpus]
Requests ==
  [name : {"set"}, gpu : Gpus, plan : Plans] \cup [name : {"clear"}, gpu : Gpus]
    \cup [name : {"configure"}, interval : Intervals, trigger : Triggers]
    \cup [name : {"start", "stop"}]

TypeOK ==
  /\ svc \in {Off} \cup [alive : {TRUE}, cfg : Configs, ms : Intervals \cup {0},
                         poller : Intervals \cup {0}, applied : [Gpus -> Caps \cup {None}],
                         tick : Ticks, waiting : Seq(Requests),
                         ready : Seq(Requests)]
  /\ saved \in Configs
  /\ cap \in [Gpus -> Caps] /\ load \subseteq Gpus /\ foreign \subseteq Gpus
  /\ strays \subseteq [gpu : Gpus, watts : Caps]
  /\ stalled \in BOOLEAN
  /\ events \in 0..MaxEvents

Init ==
  /\ svc = Off
  /\ saved \in {Defaults} \cup {[Defaults EXCEPT !.enabled = TRUE, !.plan = [g \in Gpus |-> p]] :
                              p \in Plans}
  /\ cap = [g \in Gpus |-> DefaultCap]
  /\ load = {} /\ strays = {} /\ foreign = {} /\ stalled = FALSE
  /\ events = 0

Watched(cfg) == {g \in Gpus : cfg.plan[g] # NoPlan}
Wanted(cfg) == IF cfg.enabled /\ Watched(cfg) # {} THEN cfg.interval ELSE 0

\* Which GPUs count as busy, by the trigger.
Busy(trigger) == IF trigger = "gpu" \/ load = {} THEN load ELSE Gpus
Target(cfg, g, busy) == IF g \in busy THEN cfg.plan[g].running ELSE cfg.plan[g].idle

Event == events < MaxEvents /\ events' = events + 1

-----------------------------------------------------------------------------
(***************************************************************************)
(* Mutants: plausible mistakes in the code, not part of the specification. *)
(***************************************************************************)

\* Pause: the calls do not say that the watcher is stopped.
PauseSilently(s) ==
  [s EXCEPT !.poller = 0, !.tick = IF @ = NoTick THEN @ ELSE [@ EXCEPT !.fresh = FALSE]]

-----------------------------------------------------------------------------
(***************************************************************************)
(* The pieces of the methods, as functions of a service.                   *)
(***************************************************************************)

\* autoCapTick() up to the await of readBusy().  The loop of the poller starts
\* no tick while one is under way.
Begin(s) ==
  IF s.tick = NoTick /\ s.cfg.enabled /\ Watched(s.cfg) # {}
  THEN [s EXCEPT !.tick = [stage |-> "probing", fresh |-> TRUE, trigger |-> s.cfg.trigger]]
  ELSE s

\* Poller.start() with the interval i, or stop(): an interval that does not
\* change keeps its phase, another one ticks at once.
StartPoller(s, i) ==
  IF s.poller = i THEN s
  ELSE IF i = 0 THEN [s EXCEPT !.poller = 0]
  ELSE Begin([s EXCEPT !.poller = i])

Outdate(s) == [s EXCEPT !.tick = IF @ = NoTick THEN @ ELSE [@ EXCEPT !.fresh = FALSE]]

\* pauseAutoCapWork() up to its await, and stopWatcher().
Pause(s) == Outdate([s EXCEPT !.ms = 0, !.poller = 0])

\* applyAutoCap() for the machine the service has read the config of.
Apply(s) ==
  LET wanted == Wanted(s.cfg)
  IN IF s.ms = wanted THEN s ELSE StartPoller([s EXCEPT !.ms = wanted], wanted)

\* The change a call makes once no tick is under way.
Changed(s, r) ==
  CASE r.name = "set"       -> [s EXCEPT !.cfg.plan[r.gpu] = r.plan, !.cfg.enabled = TRUE,
                                         !.applied[r.gpu] = None]
    [] r.name = "clear"     -> LET rest == Watched(s.cfg) \ {r.gpu}
                               IN [s EXCEPT !.cfg.plan[r.gpu] = NoPlan, !.applied[r.gpu] = None,
                                            !.cfg.enabled = @ /\ rest # {}]
    [] r.name = "configure" -> [s EXCEPT !.cfg.interval = r.interval, !.cfg.trigger = r.trigger]
    [] r.name = "start"     -> [s EXCEPT !.cfg.enabled = TRUE]
    [] r.name = "stop"      -> [s EXCEPT !.cfg.enabled = FALSE,
                                         !.applied = [g \in Gpus |-> None]]

\* The tick ends, and the calls that waited for it are due.
EndTick(s) == [s EXCEPT !.tick = NoTick, !.ready = s.waiting, !.waiting = <<>>]

\* The loop of autoCapTick() over the indexes left: the next GPU whose cap is
\* not what the watcher last put there gets its command.
Advance(s, todo, busy) ==
  LET due == {g \in todo : s.cfg.plan[g] # NoPlan /\ s.applied[g] # Target(s.cfg, g, busy)}
      g == Min(due)
  IN IF due = {} THEN EndTick(s)
     ELSE [s EXCEPT !.tick = [stage |-> "setting", fresh |-> TRUE, busy |-> busy, gpu |-> g,
                              watts |-> Target(s.cfg, g, busy),
                              todo |-> {h \in todo : h > g}]]

-----------------------------------------------------------------------------
(***************************************************************************)
(* The host: activation, applyPollers() and dispose().                     *)
(***************************************************************************)

\* The module goes live and the saved caps are read; a config that watches
\* nothing is read as switched off.
Activate ==
  /\ ~svc.alive /\ Event
  /\ LET cfg == [saved EXCEPT !.enabled = @ /\ Watched(saved) # {}]
     IN svc' = Apply([alive |-> TRUE, cfg |-> cfg, ms |-> 0, poller |-> 0,
                      applied |-> [g \in Gpus |-> None], tick |-> NoTick, waiting |-> <<>>,
                      ready |-> <<>>])
  /\ stalled' = FALSE
  /\ UNCHANGED <<saved, machine>>

ApplyPollers ==
  /\ svc.alive
  /\ svc' = Apply(svc)
  /\ stalled' = FALSE
  /\ UNCHANGED <<saved, machine, events>>

\* dispose(): nobody waits for a command that is under way, and the calls that
\* wait find the context revoked before they save anything.
Dispose ==
  /\ svc.alive
  /\ svc' = Off
  /\ strays' = IF svc.tick.stage = "setting"
               THEN strays \cup {[gpu |-> svc.tick.gpu, watts |-> svc.tick.watts]} ELSE strays
  /\ UNCHANGED <<saved, cap, load, foreign, stalled, events>>

-----------------------------------------------------------------------------
(***************************************************************************)
(* The watcher.                                                            *)
(***************************************************************************)

TimerFires ==
  /\ svc.alive /\ svc.poller # 0 /\ Begin(svc) # svc
  /\ svc' = Begin(svc)
  /\ UNCHANGED <<saved, machine, stalled, events>>

\* readBusy() answers.
Probed ==
  /\ svc.alive /\ svc.tick.stage = "probing"
  /\ svc' = IF svc.tick.fresh THEN Advance(svc, Watched(svc.cfg), Busy(svc.tick.trigger))
            ELSE EndTick(svc)
  /\ UNCHANGED <<saved, machine, stalled, events>>

\* The probe exits with an error: every cap stays.
ProbeFails ==
  /\ svc.alive /\ svc.tick.stage = "probing" /\ Event
  /\ svc' = EndTick(svc)
  /\ UNCHANGED <<saved, machine, stalled>>

\* The executor refuses a command: the tick rejects, and with it every call that
\* awaits it, after it has stopped the watcher.
Refused ==
  /\ svc.alive /\ svc.tick # NoTick /\ Event
  /\ svc' = [svc EXCEPT !.tick = NoTick, !.waiting = <<>>]
  /\ stalled' = (stalled \/ (svc.waiting # <<>> /\ svc.ms = 0))
  /\ UNCHANGED <<saved, machine>>

\* applyPowerLimit() answers: a tick that was overtaken notes nothing.
CapSet ==
  LET t == svc.tick
      s == [svc EXCEPT !.applied[t.gpu] = t.watts]
  IN /\ svc.alive /\ t.stage = "setting"
     /\ cap' = [cap EXCEPT ![t.gpu] = t.watts]
     /\ foreign' = foreign \ {t.gpu}
     /\ svc' = IF t.fresh THEN Advance(s, t.todo, t.busy) ELSE EndTick(svc)
     /\ UNCHANGED <<saved, load, strays, stalled, events>>

CapFails ==
  LET t == svc.tick
  IN /\ svc.alive /\ t.stage = "setting" /\ Event
     /\ svc' = IF t.fresh THEN Advance(svc, t.todo, t.busy) ELSE EndTick(svc)
     /\ UNCHANGED <<saved, machine, stalled>>

-----------------------------------------------------------------------------
(***************************************************************************)
(* The calls of the page.                                                  *)
(***************************************************************************)

\* What a call checks before it stops the watcher.
Valid(r) ==
  /\ r.name = "clear" => svc.cfg.plan[r.gpu] # NoPlan
  /\ r.name = "start" => Watched(svc.cfg) # {}

\* autoCapSet(), autoCapClear(), autoCapConfigure(), autoCapStart() and autoCapStop(),
\* up to the await of the tick under way.
Request(r) ==
  /\ svc.alive /\ Valid(r) /\ Event
  /\ svc' = LET s == Pause(svc)
            IN IF s.tick = NoTick THEN [s EXCEPT !.ready = <<r>>]
               ELSE [s EXCEPT !.waiting = Append(@, r)]
  /\ UNCHANGED <<saved, machine, stalled>>

\* The rest of the first call that is due, with saveAutoCap().
Resume ==
  LET s == Outdate(Changed(svc, Head(svc.ready)))
      wanted == Wanted(s.cfg)
  IN /\ svc' = StartPoller([s EXCEPT !.ready = Tail(@), !.ms = wanted], wanted)
     /\ saved' = s.cfg
     /\ stalled' = FALSE
     /\ UNCHANGED <<machine, events>>

\* setPowerLimit(), to a cap that is in no plan.
SetPowerLimit(g) ==
  /\ svc.alive /\ Event
  /\ cap' = [cap EXCEPT ![g] = DefaultCap]
  /\ foreign' = foreign \cup {g}
  /\ UNCHANGED <<svc, saved, load, strays, stalled>>

-----------------------------------------------------------------------------
(***************************************************************************)
(* The machine.                                                            *)
(***************************************************************************)

\* A command of a disposed service ends, with or without effect.
StrayEnds(c) ==
  /\ c \in strays
  /\ strays' = strays \ {c}
  /\ \/ /\ cap' = [cap EXCEPT ![c.gpu] = c.watts]
        /\ foreign' = foreign \cup {c.gpu}
     \/ UNCHANGED <<cap, foreign>>
  /\ UNCHANGED <<svc, saved, load, stalled, events>>

LoadChanges(busy) ==
  /\ busy # load /\ Event
  /\ load' = busy
  /\ UNCHANGED <<svc, saved, cap, strays, foreign, stalled>>

-----------------------------------------------------------------------------

Watches == TimerFires \/ Probed \/ ProbeFails \/ Refused \/ CapSet \/ CapFails
Hosts == Activate \/ ApplyPollers \/ Dispose
Asks == \/ \E r \in Requests : Request(r)
        \/ \E g \in Gpus : SetPowerLimit(g)
Lives == \/ \E c \in strays : StrayEnds(c)
         \/ \E busy \in SUBSET Gpus : LoadChanges(busy)

Due == svc.alive /\ svc.ready # <<>>

Next == IF Due THEN Resume ELSE Watches \/ Hosts \/ Asks \/ Lives

\* A running poller ticks, and commands end by their timeouts.
Fairness ==
  /\ WF_vars(Due /\ Resume)
  /\ WF_vars(~Due /\ TimerFires) /\ WF_vars(~Due /\ Probed) /\ WF_vars(~Due /\ CapSet)
  /\ WF_vars(~Due /\ \E c \in strays : StrayEnds(c))

Spec == Init /\ [][Next]_vars /\ Fairness

-----------------------------------------------------------------------------
(***************************************************************************)
(* Properties.                                                             *)
(***************************************************************************)

CallsUnderWay == svc.waiting # <<>> \/ svc.ready # <<>>

\* With no call under way the watcher runs exactly when it is switched on and has
\* a GPU to watch, however calls, ticks and applyPollers() were interleaved; only a
\* refused probe leaves it stopped until the next applyPollers() (service.ts:665-670).
WatcherRuns ==
  svc.alive /\ ~CallsUnderWay =>
    /\ svc.poller = svc.ms
    /\ svc.ms = IF stalled THEN svc.ms ELSE Wanted(svc.cfg)

\* Once autoCapStop() or the release of a GPU is answered no command of the watcher
\* for that GPU is under way: "the caps now on the GPUs stay as they are"
\* (service.ts:810).
StoppedIsQuiet ==
  svc.alive /\ ~CallsUnderWay /\ svc.tick.stage = "setting" =>
    svc.cfg.enabled /\ svc.cfg.plan[svc.tick.gpu] # NoPlan

CapsAgree == WatcherRuns /\ StoppedIsQuiet

\* The watched GPUs that something else has not capped since, and those of them
\* of whose cap the watcher is not mistaken.
Own == Watched(svc.cfg) \ foreign
Known == {g \in Own : svc.applied[g] \in {None, cap[g]}}

Follows(G) == \A g \in G : cap[g] = Target(svc.cfg, g, Busy(svc.cfg.trigger))

\* In the end a running watcher has put the cap for what the machine does on every
\* GPU whose cap it knows.
Settled == svc.alive /\ svc.ms # 0 => Follows(Known)

\* "Every interval seconds the watcher asks whether the machine is busy and puts the
\* running or the idle cap on each GPU it was given" (modules/gpu/README.md:32).
CapsFollow == <>[](svc.alive /\ svc.ms # 0 => Follows(Own))

=============================================================================
