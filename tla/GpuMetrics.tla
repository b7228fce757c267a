----------------------------- MODULE GpuMetrics -----------------------------
(***************************************************************************)
(* The readings of the GPU module (modules/gpu/main/service.ts): a stream  *)
(* of nvidia-smi rows on the machine, retried when it fails and given up   *)
(* for a poller after three failures in a row, the batches its rows are    *)
(* gathered in, and the process query that completes a batch.              *)
(*                                                                         *)
(* Streams are numbers.  streamAttempt and metricsGeneration are only ever *)
(* compared for equality: `attempt` is the stream whose callbacks still    *)
(* find the numbers they captured, and a batch of an earlier one is stale. *)
(***************************************************************************)
EXTENDS Naturals, FiniteSets

CONSTANTS
  Gpus,        \* indexes of the GPUs of the machine
  Streams,     \* numbers for the streams that are open or opening at a time
  MaxChanges,  \* bound on the calls of the host and the changes of the machine
  MaxRefusals  \* bound on the process queries the executor refuses

None == 0
Intervals == {1, 2}

VARIABLES
  alive,      \* the module has not been disposed of
  interval,   \* metricsIntervalMs
  stream,     \* what has become of each stream
  attempt,    \* the stream of streamAttempt, None between two attempts
  handle,     \* streamHandle
  starting,   \* streamStarting
  failed,     \* streamFailures
  fallback,   \* fallbackSession
  restart,    \* restartTimer is set
  watchdog,   \* watchdogTimer is set
  batchTimer, \* batchTimer is set
  rows,       \* GPUs with a row in streamRows, their streamIndexes
  queued,     \* the stream of queuedGpuRows, None when there are none
  drain,      \* the stream whose batch drainStreamSamples() is completing
  poller,     \* interval of the fallback poller, 0 when it is stopped
  sampling,   \* sampleExec() is under way
  mute,       \* nvidia-smi prints nothing, for the time being
  changes, refusals

attempts == <<attempt, handle, starting, failed, fallback, restart, watchdog>>
batches == <<batchTimer, rows, queued>>
vars == <<alive, interval, stream, attempts, batches, drain, poller, sampling, mute, changes,
          refusals>>

TypeOK ==
  /\ alive \in BOOLEAN /\ interval \in Intervals \cup {0} /\ poller \in Intervals \cup {0}
  /\ stream \in [Streams -> {"free", "opening", "live"}]
  /\ {attempt, handle, queued, drain} \subseteq Streams \cup {None}
  /\ failed \in 0..3
  /\ {starting, fallback, restart, watchdog, batchTimer, sampling, mute} \subseteq BOOLEAN
  /\ rows \subseteq Gpus
  /\ changes \in 0..MaxChanges /\ refusals \in 0..MaxRefusals

Init ==
  /\ alive = TRUE /\ interval = 0 /\ poller = 0 /\ sampling = FALSE
  /\ stream = [s \in Streams |-> "free"]
  /\ attempt = None /\ handle = None /\ queued = None /\ drain = None
  /\ failed = 0
  /\ starting = FALSE /\ fallback = FALSE /\ restart = FALSE
  /\ watchdog = FALSE /\ batchTimer = FALSE
  /\ rows = {}
  /\ mute \in BOOLEAN
  /\ changes = 0 /\ refusals = 0

Change == changes < MaxChanges /\ changes' = changes + 1
Refusal == refusals < MaxRefusals /\ refusals' = refusals + 1

-----------------------------------------------------------------------------
(***************************************************************************)
(* Mutants: plausible mistakes in the code, not part of the specification. *)
(***************************************************************************)

\* Opened: the stream of an earlier attempt is left to itself.
OpenedUnkilled(s) ==
  /\ stream[s] = "opening" /\ s # attempt
  /\ stream' = [stream EXCEPT ![s] = "live"]
  /\ UNCHANGED <<alive, interval, attempts, batches, drain, poller, sampling, mute, changes,
                 refusals>>

-----------------------------------------------------------------------------
(***************************************************************************)
(* The pieces of the methods.                                              *)
(***************************************************************************)

\* A stream number nobody refers to any more.
Unused == {s \in Streams : stream[s] = "free" /\ s \notin {attempt, drain}}

Killed == IF handle = None THEN stream ELSE [stream EXCEPT ![handle] = "free"]

\* What stopMetrics() and streamFailed() forget.
DropRows == rows' = {} /\ queued' = None /\ batchTimer' = FALSE

\* stopMetrics()
Stop ==
  /\ interval' = 0 /\ poller' = 0
  /\ attempt' = None /\ handle' = None
  /\ starting' = FALSE /\ restart' = FALSE /\ watchdog' = FALSE
  /\ stream' = Killed
  /\ DropRows

\* startMetrics() with another interval, or when nothing is at work: stopMetrics(),
\* then the fallback poller or launchStream().
Restart(i) ==
  /\ interval' = i /\ failed' = 0 /\ handle' = None
  /\ restart' = FALSE /\ watchdog' = FALSE
  /\ DropRows
  /\ IF fallback
     THEN /\ poller' = i /\ attempt' = None /\ starting' = FALSE
          /\ stream' = Killed
     ELSE \E s \in Unused \ {handle} :
            /\ attempt' = s /\ starting' = TRUE /\ poller' = 0
            /\ stream' = [Killed EXCEPT ![s] = "opening"]
  /\ UNCHANGED fallback

\* streamFailed() after the handle was forgotten: another attempt later, or the
\* poller for the rest of this connection.
StreamFailed ==
  /\ attempt' = None /\ handle' = None /\ starting' = FALSE /\ watchdog' = FALSE
  /\ DropRows
  /\ failed' = failed + 1
  /\ fallback' = (failed' = 3)
  /\ restart' = ~fallback'
  /\ poller' = IF fallback' THEN interval ELSE poller

\* flushStreamRows(): the rows wait behind the batch that is being completed, in
\* the place of those that waited before.
Flush ==
  IF drain = None THEN drain' = attempt /\ UNCHANGED queued
  ELSE queued' = attempt /\ UNCHANGED drain

-----------------------------------------------------------------------------
(***************************************************************************)
(* The host.                                                               *)
(***************************************************************************)

\* applyPollers() with the interval of the settings, or 0 when nobody looks.
ApplyPollers(i) ==
  /\ alive /\ Change
  /\ IF i = 0 THEN Stop /\ UNCHANGED <<failed, fallback>>
     ELSE /\ ~(interval = i /\ (fallback \/ handle # None \/ starting \/ restart))
          /\ Restart(i)
  /\ UNCHANGED <<alive, drain, sampling, mute, refusals>>

\* reset()
Reset ==
  /\ alive /\ Change
  /\ Stop /\ fallback' = FALSE /\ failed' = 0
  /\ UNCHANGED <<alive, drain, sampling, mute, refusals>>

Dispose ==
  /\ alive /\ alive' = FALSE
  /\ Stop
  /\ UNCHANGED <<failed, fallback, drain, sampling, mute, changes, refusals>>

-----------------------------------------------------------------------------
(***************************************************************************)
(* The stream.                                                             *)
(***************************************************************************)

\* ctx.stream() resolves for the attempt that is still wanted.
Started(s) ==
  /\ stream[s] = "opening" /\ s = attempt
  /\ stream' = [stream EXCEPT ![s] = "live"]
  /\ starting' = FALSE /\ handle' = s /\ watchdog' = TRUE
  /\ UNCHANGED <<alive, interval, attempt, failed, fallback, restart, batches, drain, poller,
                 sampling, mute, changes, refusals>>

\* It resolves for one that is not: the handle is killed.
Opened(s) ==
  /\ stream[s] = "opening" /\ s # attempt
  /\ stream' = [stream EXCEPT ![s] = "free"]
  /\ UNCHANGED <<alive, interval, attempts, batches, drain, poller, sampling, mute, changes,
                 refusals>>

\* ctx.stream() rejects, the stream exits, or the watchdog finds it silent.
Broken(s) ==
  /\ s = attempt
  /\ \/ stream[s] = "opening"
     \/ stream[s] = "live" /\ s = handle
  /\ stream' = [stream EXCEPT ![s] = "free"]
  /\ StreamFailed
  /\ UNCHANGED <<alive, interval, drain, sampling, mute, changes, refusals>>

WatchdogFires ==
  /\ watchdog /\ handle # None
  /\ stream' = Killed
  /\ StreamFailed
  /\ UNCHANGED <<alive, interval, drain, sampling, mute, changes, refusals>>

\* The retry: launchStream().
RestartFires ==
  /\ restart
  /\ restart' = FALSE
  /\ \E s \in Unused :
       /\ attempt' = s /\ starting' = TRUE
       /\ stream' = [stream EXCEPT ![s] = "opening"]
  /\ UNCHANGED <<alive, interval, handle, failed, fallback, watchdog, batches, drain, poller,
                 sampling, mute, changes, refusals>>

\* onStreamData(): the second row of a GPU begins the next batch.
Row(g) ==
  /\ handle # None /\ ~mute
  /\ IF g \in rows THEN Flush ELSE UNCHANGED <<queued, drain>>
  /\ rows' = IF g \in rows THEN {g} ELSE rows \cup {g}
  /\ batchTimer' = TRUE
  /\ UNCHANGED <<alive, interval, stream, attempts, poller, sampling, mute, changes, refusals>>

BatchTimerFires ==
  /\ batchTimer
  /\ batchTimer' = FALSE
  /\ IF rows # {} THEN Flush ELSE UNCHANGED <<queued, drain>>
  /\ rows' = {}
  /\ UNCHANGED <<alive, interval, stream, attempts, poller, sampling, mute, changes, refusals>>

\* drainStreamSamples() goes on with the rows that wait, those of a later
\* generation too.
NextBatch == drain' = queued /\ queued' = None

\* The process query answers: a batch of the present attempt is pushed.
Sampled ==
  /\ drain # None
  /\ failed' = IF drain = attempt THEN 0 ELSE failed
  /\ NextBatch
  /\ UNCHANGED <<alive, interval, stream, attempt, handle, starting, fallback, restart, watchdog,
                 batchTimer, rows, poller, sampling, mute, changes, refusals>>

\* The executor refuses it: the batch is dropped.
QueryRefused ==
  /\ drain # None /\ Refusal
  /\ NextBatch
  /\ UNCHANGED <<alive, interval, stream, attempts, batchTimer, rows, poller, sampling, mute,
                 changes>>

-----------------------------------------------------------------------------
(***************************************************************************)
(* The fallback poller and the machine.                                    *)
(***************************************************************************)

FallbackTick ==
  /\ poller # 0 /\ ~sampling
  /\ sampling' = TRUE
  /\ UNCHANGED <<alive, interval, stream, attempts, batches, drain, poller, mute, changes,
                 refusals>>

\* sampleExec() answers, and pushes what it read whoever waits for it.
FallbackSampled ==
  /\ sampling
  /\ sampling' = FALSE
  /\ UNCHANGED <<alive, interval, stream, attempts, batches, drain, poller, mute, changes,
                 refusals>>

Mute ==
  /\ Change
  /\ mute' = ~mute
  /\ UNCHANGED <<alive, interval, stream, attempts, batches, drain, poller, sampling, refusals>>

-----------------------------------------------------------------------------

Hosts == \/ \E i \in Intervals \cup {0} : ApplyPollers(i)
         \/ Reset \/ Dispose

Streaming == \/ \E s \in Streams : Started(s) \/ Opened(s) \/ Broken(s)
             \/ WatchdogFires \/ RestartFires
             \/ \E g \in Gpus : Row(g)
             \/ BatchTimerFires

Samples == Sampled \/ QueryRefused \/ FallbackTick \/ FallbackSampled

Next == Hosts \/ Streaming \/ Samples \/ Mute

\* A stream opens or fails, timers fire, queries end by their timeouts; of the
\* machine that a stream which is not mute goes on printing.  A watchdog has to
\* fire only when nothing is printed.
Fairness ==
  /\ \A s \in Streams : WF_vars(Started(s) \/ (stream[s] = "opening" /\ Broken(s)))
                        /\ WF_vars(Opened(s))
  /\ WF_vars(mute /\ WatchdogFires) /\ WF_vars(RestartFires)
  /\ \A g \in Gpus : WF_vars(Row(g))
  /\ WF_vars(Sampled) /\ WF_vars(FallbackTick) /\ WF_vars(FallbackSampled)

Spec == Init /\ [][Next]_vars /\ Fairness

-----------------------------------------------------------------------------
(***************************************************************************)
(* Properties.                                                             *)
(***************************************************************************)

\* No stream of an attempt that was overtaken stays open on the machine: the one
\* that runs is the one that can be killed (service.ts:220-228, 331).
NoForgottenStream == \A s \in Streams : stream[s] = "live" => s = handle

\* While readings are wanted exactly one source of them is at work or on its way,
\* otherwise none (service.ts:158-196, 268-312).
OneSource ==
  LET sources == {<<"handle", handle # None>>, <<"starting", starting>>,
                  <<"restart", restart>>, <<"poller", poller # 0>>}
  IN Cardinality({x \in sources : x[2]}) = IF interval = 0 THEN 0 ELSE 1

\* A silent stream is noticed, rows that were gathered are flushed, and rows that
\* wait are behind a batch under way (service.ts:249, 369-374, 389, 419-424).
NothingWaitsForNothing ==
  /\ handle # None => watchdog
  /\ rows # {} => batchTimer
  /\ queued # None => drain # None

MetricsAgree == NoForgottenStream /\ OneSource /\ NothingWaitsForNothing

\* While readings are wanted they come, from the stream or else from the poller,
\* whatever the stream does (service.ts:292-297).
Reading == (Sampled /\ drain = attempt) \/ FallbackSampled
ReadingsCome == <>[](interval # 0) => []<><<Reading>>_vars

=============================================================================
