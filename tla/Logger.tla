-------------------------------- MODULE Logger --------------------------------
(***************************************************************************)
(* logsys::Logger: producers that enqueue events, the asynchronous worker  *)
(* that filters them and writes them to the sinks of the router, threads   *)
(* that call Flush (one of them the periodic flush thread), somebody who   *)
(* reconfigures the logger meanwhile, and the destructor at the end.       *)
(*                                                                         *)
(* An event is its producer, its number and its level; what the formatter  *)
(* makes of it is left out. A sink is a kind and the number of the routing *)
(* that created it: ApplyRoutingLocked never reuses one. Metrics that the  *)
(* code updates right after a step are part of that step.                  *)
(***************************************************************************)
EXTENDS Integers, FiniteSets, SequencesExt, TLC

CONSTANTS
    Producers,      \* threads that log; the module and the file of an event are its producer's
    Flushers,       \* threads that call Flush once each
    Configs,        \* the LoggerConfigV2 values of ApplyConfigV2
    FirstConfig,    \* the one the logger has at the start
    Scripts,        \* what the producers log: functions that give the levels of each one's events
    LevelSinks,     \* a set of levels: AddLevelSink is called for them
    OutputKinds,    \* what SetOutputEnabled may be called with
    MaxGen,         \* bound: how often the routing is applied again
    GroupLimit      \* 64 in the code: the grouped lines that force a flush

Fatal == 5
Severities == 0..6

AllConfigs == Configs \cup {FirstConfig}

ASSUME LoggerAssumption ==
    /\ IsFiniteSet(Producers)
    /\ Scripts \subseteq [Producers -> Seq(Severities)]
    /\ MaxGen \in Nat /\ GroupLimit \in Nat \ {0}
    /\ \A c \in AllConfigs :
          /\ "backpressure" \in DOMAIN c /\ "kinds" \in DOMAIN c
          /\ c.backpressure \in [on : BOOLEAN, watermark : Nat, below : Severities]
    /\ LevelSinks \subseteq Severities
    /\ "periodic" \notin Flushers /\ "destructor" \notin Flushers

VARIABLES
    script,         \* what is logged in this run
    config,         \* config_v2_ (and default_options_, which follows it)
    router,         \* router_: the default sinks and the sinks of a level
    gen,            \* how often the routing was applied
    producer,       \* where an Enqueue call is, its event and the backpressure it read
    queue,          \* async_queue_
    processing,     \* async_worker_processing_
    worker,         \* where the worker is, its event and the sinks still to be served
    grouped,        \* grouped_outputs_
    pending,        \* pending_event_count_
    metrics,        \* the metrics_ counters but metrics_flushed_, a count of calls
    flush,          \* where a Flush call is and the sinks it still has to flush
    periodic,       \* the periodic flush thread
    admin,          \* where a reconfiguration or the destructor is
    stopRequested,  \* async_worker_stop_requested_
    written,        \* the lines of every sink
    unflushed,      \* the lines of a sink that are still in its buffer
    fate,           \* history: what has become of an event
    owed            \* history: the events a Flush must have made visible when it returns

queueVars == <<script, producer, queue, pending>>
routeVars == <<config, router, gen>>
outVars == <<written, unflushed>>
adminVars == <<periodic, admin, stopRequested>>
flushVars == <<flush, owed>>
vars == <<routeVars, queueVars, processing, worker, grouped, metrics, flushVars, adminVars, outVars, fate>>

Events == UNION {{[who |-> p, n |-> n, level |-> script[p][n]] : n \in DOMAIN script[p]} : p \in Producers}
Kinds == {"console", "file", "level"}
Sinks == [kind : Kinds, gen : 0..MaxGen]
Threads == Flushers \cup {"periodic", "destructor"}

------------------------------------------------------------------------------
(* Profiles and routing. *)

\* ApplyOptionalProfile: what the profile sets, and the rest as it was.
ApplyOptionalProfile(result, profile) == profile.set @@ result

\* The first profile of the module, then over it the first one of the file.
Resolve(c, e) ==
    LET ofModule == SelectSeq(c.profiles, LAMBDA p : p.module = e.who)
        ofFile == SelectSeq(c.profiles, LAMBDA p : p.file = e.who)
        base == [f \in {"record", "output", "order", "kinds"} |-> c[f]]
        withModule == IF ofModule = <<>> THEN base ELSE ApplyOptionalProfile(base, ofModule[1])
    IN  IF ofFile = <<>> THEN withModule ELSE ApplyOptionalProfile(withModule, ofFile[1])

\* ApplyRoutingLocked: new sinks, and the sinks of single levels are gone.
ApplyRouting(c, g) ==
    [defaults |-> (IF "console" \in c.kinds THEN <<[kind |-> "console", gen |-> g]>> ELSE <<>>)
                     \o (IF "file" \in c.kinds THEN <<[kind |-> "file", gen |-> g]>> ELSE <<>>),
     byLevel |-> [l \in Severities |-> <<>>]]

\* LevelRouter::Resolve.
SinksOf(r, level) == r.defaults \o r.byLevel[level]

\* A profile can silence the console and the file, not the other sinks.
Allowed(kinds, sink) == sink.kind \in kinds \cup {"level"}

AllSinks(r) == ToSet(r.defaults) \cup UNION {ToSet(r.byLevel[l]) : l \in Severities}

\* What becomes of these events.
Settle(events, what) ==
    fate' = [e \in DOMAIN fate \cup events |-> IF e \in events THEN what ELSE fate[e]]

------------------------------------------------------------------------------
(* Enqueue. *)

EnqueueBegin(p) ==
    LET n == producer[p].event.n + 1 IN
    /\ producer[p].at = "out" /\ n \in DOMAIN script[p]
    /\ producer' = [producer EXCEPT ![p] =
                      [at |-> "counting", event |-> [who |-> p, n |-> n, level |-> script[p][n]],
                       limit |-> config.backpressure]]
    /\ metrics' = [metrics EXCEPT !.accepted = @ + 1]
    /\ UNCHANGED <<script, routeVars, queue, pending, processing, worker, grouped, flushVars, adminVars, outVars, fate>>

\* Mutant of Overloaded: one more than the watermark is let in.
OverloadedLate(limit, now, e) == limit.on /\ now > limit.watermark + 1 /\ e.level < limit.below

\* Is the event to be dropped, when the counter stands at now?
Overloaded(limit, now, e) == limit.on /\ now > limit.watermark /\ e.level < limit.below

EnqueueCount(p) ==
    LET x == producer[p] IN
    /\ x.at = "counting"
    /\ pending' = pending + 1
    /\ producer' = [producer EXCEPT ![p].at =
                      IF Overloaded(x.limit, pending + 1, x.event) THEN "dropping" ELSE "pushing"]
    /\ UNCHANGED <<script, routeVars, queue, processing, worker, grouped, metrics, flushVars, adminVars, outVars, fate>>

EnqueueDrop(p) ==
    /\ producer[p].at = "dropping"
    /\ metrics' = [metrics EXCEPT !.dropped = @ + 1]
    /\ pending' = pending - 1
    /\ Settle({producer[p].event}, "dropped")
    /\ producer' = [producer EXCEPT ![p].at = "out"]
    /\ UNCHANGED <<script, routeVars, queue, processing, worker, grouped, flushVars, adminVars, outVars>>

EnqueuePush(p) ==
    /\ producer[p].at = "pushing"
    /\ queue' = Append(queue, producer[p].event)
    /\ metrics' = [metrics EXCEPT !.queued = @ + 1]
    /\ Settle({producer[p].event}, "queued")
    /\ producer' = [producer EXCEPT ![p].at = "out"]
    /\ UNCHANGED <<script, routeVars, pending, processing, worker, grouped, flushVars, adminVars, outVars>>

------------------------------------------------------------------------------
(* FlushGroupedOutputsLocked: by level, and within a level in the order of arrival. *)

Before(entries, i, j) ==
    \/ entries[i].event.level < entries[j].event.level
    \/ entries[i].event.level = entries[j].event.level /\ i < j

\* Does the line go to that sink?
GoesTo(entry, sink) ==
    sink \in ToSet(SinksOf(router, entry.event.level)) /\ Allowed(entry.kinds, sink)

\* The lines a sink gets: the k-th is the one that k - 1 others come before.
LinesFor(entries, sink) ==
    LET mine == {i \in DOMAIN entries : GoesTo(entries[i], sink)}
        rank == [i \in mine |-> Cardinality({j \in mine : Before(entries, j, i)})]
    IN  [k \in 1..Cardinality(mine) |-> entries[CHOOSE i \in mine : rank[i] = k - 1].event]

FlushGrouped(entries) ==
    /\ written' = [s \in Sinks |-> written[s] \o LinesFor(entries, s)]
    /\ unflushed' = [s \in Sinks |-> unflushed[s] \cup {x.event : x \in {y \in ToSet(entries) : GoesTo(y, s)}}]
    /\ metrics' = [metrics EXCEPT !.emitted = @ + Len(entries)]
    /\ grouped' = <<>>
    /\ Settle({x.event : x \in ToSet(entries)}, "writtenInGroup")

------------------------------------------------------------------------------
(* The worker: StartAsyncWorker's loop and LogEventNow. *)

WorkerTake ==
    /\ worker.at = "waiting" /\ queue # <<>>
    /\ worker' = [at |-> "taken", event |-> Head(queue), kinds |-> {}, sinks |-> <<>>]
    /\ queue' = Tail(queue)
    /\ processing' = TRUE
    /\ UNCHANGED <<script, routeVars, producer, pending, grouped, metrics, flushVars, adminVars, outVars, fate>>

WorkerCount ==
    /\ worker.at = "taken"
    /\ pending' = pending - 1
    /\ worker' = [worker EXCEPT !.at = "resolving"]
    /\ UNCHANGED <<script, routeVars, producer, queue, processing, grouped, metrics, flushVars, adminVars, outVars, fate>>

\* Below the record level nothing is counted, below the output level nothing is written.
WorkerResolve ==
    LET e == worker.event
        profile == Resolve(config, e)
        next == IF e.level < profile.record THEN "unrecorded"
                ELSE IF e.level < profile.output THEN "recorded"
                ELSE IF profile.order = "grouped" THEN "grouped" ELSE "mixed"
    IN  /\ worker.at = "resolving"
        /\ worker' = [worker EXCEPT !.at = IF next \in {"unrecorded", "recorded"} THEN "done" ELSE next,
                                    !.kinds = profile.kinds]
        /\ Settle({e}, next)
        /\ UNCHANGED <<routeVars, queueVars, processing, grouped, metrics, flushVars, adminVars, outVars>>

\* Grouped lines wait for a flush, a fatal one too.
WorkerGroup ==
    LET entries == Append(grouped, [event |-> worker.event, kinds |-> worker.kinds]) IN
    /\ worker.at = "grouped"
    /\ IF Len(entries) >= GroupLimit
       THEN FlushGrouped(entries)
       ELSE grouped' = entries /\ UNCHANGED <<metrics, outVars, fate>>
    /\ worker' = [worker EXCEPT !.at = "done"]
    /\ UNCHANGED <<routeVars, queueVars, processing, flushVars, adminVars>>

WorkerSinks ==
    /\ worker.at = "mixed"
    /\ worker' = [worker EXCEPT !.at = "writing",
                    !.sinks = SinksOf(router, worker.event.level)]
    /\ UNCHANGED <<routeVars, queueVars, processing, grouped, metrics, flushVars, adminVars, outVars, fate>>

WorkerWrite ==
    /\ worker.at = "writing" /\ worker.sinks # <<>>
    /\ IF Allowed(worker.kinds, Head(worker.sinks))
       THEN /\ written' = [written EXCEPT ![Head(worker.sinks)] = Append(@, worker.event)]
            /\ unflushed' = [unflushed EXCEPT ![Head(worker.sinks)] = @ \cup {worker.event}]
       ELSE UNCHANGED outVars
    /\ worker' = [worker EXCEPT !.sinks = Tail(@)]
    /\ UNCHANGED <<routeVars, queueVars, processing, grouped, metrics, flushVars, adminVars, fate>>

\* FlushOnFatal is read from the configuration here; "off" stands for SetFlushOnFatal(false).
WorkerEmitted ==
    /\ worker.at = "writing" /\ worker.sinks = <<>>
    /\ metrics' = [metrics EXCEPT !.emitted = @ + 1]
    /\ Settle({worker.event}, "written")
    /\ worker' = [worker EXCEPT !.at =
                    IF worker.event.level = Fatal /\ config.fatal # "off" THEN "fatal" ELSE "done"]
    /\ UNCHANGED <<routeVars, queueVars, processing, grouped, flushVars, adminVars, outVars>>

\* Flush on the worker's own thread does not wait for the queue.
WorkerFatalCollect ==
    /\ worker.at = "fatal"
    /\ FlushGrouped(grouped)
    /\ worker' = [worker EXCEPT !.at = "flushing", !.sinks = SetToSeq(AllSinks(router))]
    /\ UNCHANGED <<routeVars, queueVars, processing, flushVars, adminVars>>

WorkerFatalFlush ==
    /\ worker.at = "flushing" /\ worker.sinks # <<>>
    /\ unflushed' = [unflushed EXCEPT ![Head(worker.sinks)] = {}]
    /\ worker' = [worker EXCEPT !.sinks = Tail(@)]
    /\ UNCHANGED <<routeVars, queueVars, processing, grouped, metrics, flushVars, adminVars, written, fate>>

WorkerFatalEnd ==
    /\ worker.at = "flushing" /\ worker.sinks = <<>>
    /\ config.fatal # "abort"
    /\ worker' = [worker EXCEPT !.at = "done"]
    /\ UNCHANGED <<routeVars, queueVars, processing, grouped, flushVars, adminVars, outVars, fate, metrics>>

\* AbortAfterFlush ends the process, every thread of it.
WorkerAbort ==
    /\ worker.at = "flushing" /\ worker.sinks = <<>>
    /\ config.fatal = "abort"
    /\ worker' = [worker EXCEPT !.at = "aborted"]
    /\ producer' = [p \in Producers |-> [producer[p] EXCEPT !.at = "dead"]]
    /\ flush' = [f \in Threads |-> [at |-> "dead", sinks |-> <<>>]]
    /\ admin' = [admin EXCEPT !.at = "dead"]
    /\ periodic' = [periodic EXCEPT !.at = "dead"]
    /\ UNCHANGED <<script, routeVars, queue, pending, processing, grouped, owed, stopRequested, outVars, fate, metrics>>

\* Mutant of WorkerDone: async_worker_processing_ stays set.
WorkerStaysBusy ==
    /\ worker.at = "done"
    /\ worker' = [worker EXCEPT !.at = "waiting"]
    /\ UNCHANGED <<routeVars, queueVars, processing, grouped, metrics, flushVars, adminVars, outVars, fate>>

WorkerDone ==
    /\ worker.at = "done"
    /\ worker' = [worker EXCEPT !.at = "waiting"]
    /\ processing' = FALSE
    /\ UNCHANGED <<routeVars, queueVars, grouped, metrics, flushVars, adminVars, outVars, fate>>

\* Asked to stop, the worker leaves only when the queue is empty.
WorkerExit ==
    /\ worker.at = "waiting" /\ stopRequested /\ queue = <<>>
    /\ worker' = [worker EXCEPT !.at = "exited"]
    /\ processing' = FALSE
    /\ UNCHANGED <<routeVars, queueVars, grouped, metrics, flushVars, adminVars, outVars, fate>>

------------------------------------------------------------------------------
(* Flush, on any thread but the worker. *)

FlushStart(f) ==
    /\ flush' = [flush EXCEPT ![f] = [at |-> "draining", sinks |-> <<>>]]
    /\ owed' = [owed EXCEPT ![f] = {e \in DOMAIN fate : fate[e] # "dropped"}]

FlushBegin(f) ==
    /\ f \in Flushers /\ flush[f].at = "out"
    /\ admin.at # "closing"
    /\ FlushStart(f)
    /\ UNCHANGED <<routeVars, queueVars, processing, worker, grouped, metrics, adminVars, outVars, fate>>

\* Mutant of Drained: an empty queue is enough.
QueueEmpty == queue = <<>>

\* The predicate async_drain_cv_ waits for.
Drained == queue = <<>> /\ ~processing

FlushDrained(f) ==
    /\ flush[f].at = "draining" /\ Drained
    /\ flush' = [flush EXCEPT ![f].at = "collecting"]
    /\ UNCHANGED <<routeVars, queueVars, processing, worker, grouped, metrics, owed, adminVars, outVars, fate>>

FlushCollect(f) ==
    /\ flush[f].at = "collecting"
    /\ FlushGrouped(grouped)
    /\ flush' = [flush EXCEPT ![f] = [at |-> "flushing", sinks |-> SetToSeq(AllSinks(router))]]
    /\ UNCHANGED <<routeVars, queueVars, processing, worker, owed, adminVars>>

FlushSink(f) ==
    /\ flush[f].at = "flushing" /\ flush[f].sinks # <<>>
    /\ unflushed' = [unflushed EXCEPT ![Head(flush[f].sinks)] = {}]
    /\ flush' = [flush EXCEPT ![f].sinks = Tail(@)]
    /\ UNCHANGED <<routeVars, queueVars, processing, worker, grouped, metrics, owed, adminVars, written, fate>>

\* The periodic flush thread waits for its next round or for StopPeriodicFlush.
FlushEnd(f) ==
    /\ flush[f].at = "flushing" /\ flush[f].sinks = <<>>
    /\ flush' = [flush EXCEPT ![f].at = IF f = "periodic" THEN "out" ELSE "returned"]
    /\ owed' = [owed EXCEPT ![f] = {}]
    /\ UNCHANGED <<routeVars, queueVars, processing, worker, grouped, adminVars, outVars, fate, metrics>>

\* Bound: the periodic thread makes a round only when something was logged since the last one.
PeriodicTick ==
    /\ periodic.at = "running" /\ flush["periodic"].at = "out"
    /\ metrics.accepted > periodic.seen
    /\ periodic' = [periodic EXCEPT !.seen = metrics.accepted]
    /\ FlushStart("periodic")
    /\ UNCHANGED <<routeVars, queueVars, processing, worker, grouped, metrics, admin, stopRequested, outVars, fate>>

------------------------------------------------------------------------------
(* Reconfiguration and the destructor. *)

\* ApplyConfigV2 up to the end of its lock; ConfigureDefaultLogger with a periodic = FALSE.
ApplyConfigV2(c) ==
    /\ admin.at = "out" /\ gen < MaxGen
    /\ config' = c
    /\ gen' = gen + 1
    /\ router' = ApplyRouting(c, gen + 1)
    /\ admin' = [at |-> "stopping", next |-> IF c.periodic THEN "start" ELSE "out"]
    /\ UNCHANGED <<queueVars, processing, worker, grouped, metrics, flushVars, periodic, stopRequested, outVars, fate>>

\* SetOutputEnabled, EnableConsoleOutput, EnableFileOutput: routing again, the rest stays.
SetOutputEnabled(kinds) ==
    /\ admin.at = "out" /\ gen < MaxGen
    /\ config' = [config EXCEPT !.kinds = kinds]
    /\ gen' = gen + 1
    /\ router' = ApplyRouting(config', gen + 1)
    /\ UNCHANGED <<queueVars, processing, worker, grouped, metrics, flushVars, adminVars, outVars, fate>>

AddLevelSink(l) ==
    /\ admin.at = "out" /\ l \in LevelSinks
    /\ router.byLevel[l] = <<>>
    /\ router' = [router EXCEPT !.byLevel[l] = <<[kind |-> "level", gen |-> gen]>>]
    /\ UNCHANGED <<config, gen, queueVars, processing, worker, grouped, metrics, flushVars, adminVars, outVars, fate>>

\* StopPeriodicFlush clears periodic_flush_running_ and joins the thread.
StopPeriodicFlush ==
    /\ admin.at \in {"stopping", "closing"} /\ periodic.at = "running"
    /\ periodic' = [periodic EXCEPT !.at = "stopping"]
    /\ UNCHANGED <<routeVars, queueVars, processing, worker, grouped, metrics, flushVars, admin, stopRequested, outVars, fate>>

JoinPeriodicFlush ==
    /\ periodic.at = "stopping" /\ flush["periodic"].at = "out"
    /\ periodic' = [periodic EXCEPT !.at = "none"]
    /\ UNCHANGED <<routeVars, queueVars, processing, worker, grouped, metrics, flushVars, admin, stopRequested, outVars, fate>>

StartPeriodicFlush ==
    /\ admin.at = "stopping" /\ periodic.at = "none"
    /\ admin' = [admin EXCEPT !.at = "out"]
    /\ periodic' = [periodic EXCEPT !.at = IF admin.next = "start" THEN "running" ELSE "none"]
    /\ UNCHANGED <<routeVars, queueVars, processing, worker, grouped, metrics, flushVars, stopRequested, outVars, fate>>

\* ~Logger begins when no other thread is in a call.
Close ==
    /\ admin.at = "out"
    /\ \A p \in Producers : producer[p].at = "out" /\ producer[p].event.n = Len(script[p])
    /\ \A f \in Flushers : flush[f].at = "returned"
    /\ admin' = [at |-> "closing", next |-> "out"]
    /\ UNCHANGED <<routeVars, queueVars, processing, worker, grouped, metrics, flushVars, periodic, stopRequested,
                   outVars, fate>>

StopAsyncWorker ==
    /\ admin.at = "closing" /\ periodic.at = "none" /\ ~stopRequested /\ worker.at # "exited"
    /\ stopRequested' = TRUE
    /\ UNCHANGED <<routeVars, queueVars, processing, worker, grouped, metrics, flushVars, periodic, admin, outVars, fate>>

\* The worker is joined, the flags are reset and the destructor flushes.
JoinAsyncWorker ==
    /\ stopRequested /\ worker.at = "exited"
    /\ stopRequested' = FALSE
    /\ processing' = FALSE
    /\ FlushStart("destructor")
    /\ UNCHANGED <<routeVars, queueVars, worker, grouped, metrics, periodic, admin, outVars, fate>>

------------------------------------------------------------------------------
Init ==
    /\ script \in Scripts
    /\ config = FirstConfig /\ gen = 0
    /\ router = ApplyRouting(FirstConfig, 0)
    /\ producer = [p \in Producers |-> [at |-> "out", event |-> [who |-> p, n |-> 0, level |-> 0],
                                        limit |-> FirstConfig.backpressure]]
    /\ queue = <<>> /\ pending = 0 /\ processing = FALSE
    /\ worker = [at |-> "waiting"]
    /\ grouped = <<>>
    /\ metrics = [accepted |-> 0, emitted |-> 0, dropped |-> 0, queued |-> 0]
    /\ flush = [f \in Threads |-> [at |-> "out", sinks |-> <<>>]]
    /\ owed = [f \in Threads |-> {}]
    /\ periodic = [at |-> IF FirstConfig.periodic THEN "running" ELSE "none", seen |-> 0]
    /\ admin = [at |-> "out", next |-> "out"]
    /\ stopRequested = FALSE
    /\ written = [s \in Sinks |-> <<>>]
    /\ unflushed = [s \in Sinks |-> {}]
    /\ fate = <<>>

Enqueue(p) ==
    \/ EnqueueBegin(p) \/ EnqueueCount(p) \/ EnqueueDrop(p) \/ EnqueuePush(p)

Worker ==
    \/ WorkerTake \/ WorkerCount \/ WorkerResolve \/ WorkerGroup \/ WorkerSinks \/ WorkerWrite
    \/ WorkerEmitted \/ WorkerFatalCollect \/ WorkerFatalFlush \/ WorkerFatalEnd
    \/ WorkerAbort \/ WorkerDone \/ WorkerExit

Flush(f) == FlushDrained(f) \/ FlushCollect(f) \/ FlushSink(f) \/ FlushEnd(f)

Admin ==
    \/ StopPeriodicFlush \/ JoinPeriodicFlush \/ StartPeriodicFlush
    \/ StopAsyncWorker \/ JoinAsyncWorker

Next ==
    \/ \E p \in Producers : Enqueue(p)
    \/ Worker
    \/ \E f \in Threads : Flush(f) \/ FlushBegin(f)
    \/ PeriodicTick
    \/ \E c \in Configs : ApplyConfigV2(c)
    \/ \E kinds \in OutputKinds : SetOutputEnabled(kinds)
    \/ \E l \in LevelSinks : AddLevelSink(l)
    \/ Admin
    \/ Close

\* The threads of the logger run, and a call that has begun goes on.
Fairness ==
    /\ WF_vars(Worker)
    /\ \A f \in Threads : WF_vars(Flush(f))
    /\ WF_vars(Admin)

Spec == Init /\ [][Next]_vars /\ Fairness

------------------------------------------------------------------------------
(* What the logger promises. *)

CountAt(places) == Cardinality({p \in Producers : producer[p].at \in places})

Emitted == {e \in DOMAIN fate : fate[e] \in {"written", "writtenInGroup"}}

\* The levels every configuration may drop, and who has such an event on its way to the queue or in it.
LowLevels == {l \in Severities : \A c \in AllConfigs : c.backpressure.on /\ l < c.backpressure.below}
LowPushing == {p \in Producers : producer[p].at = "pushing" /\ producer[p].event.level \in LowLevels}
LowQueued == {i \in DOMAIN queue : queue[i].level \in LowLevels}

PendingExact ==
    pending = CountAt({"dropping", "pushing"}) + Len(queue) + (IF worker.at = "taken" THEN 1 ELSE 0)

MetricsAdd ==
    /\ metrics.accepted = metrics.dropped + metrics.queued + CountAt({"counting", "dropping", "pushing"})
    /\ metrics.emitted = Cardinality(Emitted)

WatermarkKept ==
    \A m \in {c.backpressure.watermark : c \in AllConfigs} :
        (\A c \in AllConfigs : c.backpressure.watermark <= m) =>
            Cardinality(LowPushing) + Cardinality(LowQueued) <= m

\* Backpressure works on a counter that producers and the worker change outside the lock
\* of the queue. The counter is exactly what is on its way to the queue or in it, the
\* metrics add up, and of the levels every configuration may drop, no more than the
\* watermark are ever admitted at the same time.
Backpressure ==
    worker.at # "aborted" => PendingExact /\ MetricsAdd /\ WatermarkKept

\* What no longer changes.
Settled == {"dropped", "unrecorded", "recorded", "written", "writtenInGroup"}

Visible(e) ==
    /\ fate[e] \in Settled
    /\ \A s \in AllSinks(router) : e \notin unflushed[s]

\* Flush is the boundary callers have (docs/modules/logsys.md): when it returns, every
\* event whose Enqueue had returned before it began is filtered out or written, and no
\* sink of the router still buffers it, whatever the worker, other flushes and a
\* reconfiguration did meanwhile. The destructor leaves nothing behind, and a fatal abort
\* nothing of what the worker had taken. (Sinks no longer routed are closed, hence flushed,
\* by their last owner.)
FlushIsBoundary ==
    /\ \A f \in Threads : flush[f].at = "flushing" /\ flush[f].sinks = <<>> =>
          \A e \in owed[f] : Visible(e)
    /\ flush["destructor"].at = "returned" => \A e \in DOMAIN fate : Visible(e)
    /\ worker.at = "aborted" => \A e \in DOMAIN fate : fate[e] = "queued" \/ Visible(e)

\* Lines of one producer and one level that take the same way appear in every sink in the
\* order they were logged, and none appears twice: grouped lines are sorted by level only.
LogOrder ==
    \A s \in Sinks : \A i, j \in DOMAIN written[s] : i < j =>
        LET x == written[s][i]
            y == written[s][j]
        IN  x.who = y.who /\ x.level = y.level /\ fate[x] = fate[y] => x.n < y.n

\* What was accepted reaches the sinks: with a Flush, everything that was logged before it, and in each
\* sink in the order in which it was logged (the loop of StartAsyncWorker, Flush, ApplyConfigV2).
LinesReachSinks == FlushIsBoundary /\ LogOrder

\* No flush, reconfiguration or destruction waits for ever: not a Flush on the worker's
\* own thread, nor one that reconfiguration joins while it waits for the queue to drain.
LoggerProgress ==
    /\ \A f \in Threads : flush[f].at = "draining" ~> flush[f].at \in {"out", "returned", "dead"}
    /\ admin.at = "stopping" ~> admin.at # "stopping"
    /\ admin.at = "closing" ~> flush["destructor"].at \in {"returned", "dead"}

------------------------------------------------------------------------------
(* What makes Backpressure and LinesReachSinks inductive. *)

EventType == [who : Producers, n : Nat, level : Severities]
InCall == {"counting", "dropping", "pushing"}
Limits == {c.backpressure : c \in AllConfigs}
Busy == {"taken", "resolving", "grouped", "mixed", "writing", "fatal", "flushing", "aborted", "done"}
InHandAt == {"taken", "resolving", "grouped", "mixed", "writing"}

LoggerTypeOK ==
    /\ "backpressure" \in DOMAIN config /\ config.backpressure \in Limits
    /\ script \in [Producers -> Seq(Severities)]
    /\ producer \in [Producers -> [at : {"out", "dead"} \cup InCall, event : EventType, limit : Limits]]
    /\ queue \in Seq(EventType) /\ pending \in Int
    /\ "at" \in DOMAIN worker /\ worker.at \in Busy \cup {"waiting", "exited"}
    /\ worker.at \in Busy =>
          DOMAIN worker = {"at", "event", "kinds", "sinks"} /\ worker.event \in EventType
    /\ processing \in BOOLEAN /\ (processing <=> worker.at \in Busy)
    /\ grouped \in Seq(ToSet(grouped))
    /\ metrics \in [accepted : Nat, emitted : Nat, dropped : Nat, queued : Nat]
    /\ IsFiniteSet(DOMAIN fate) /\ DOMAIN fate \subseteq EventType

\* The events of a call are new until the call has pushed or dropped them.
Numbered ==
    /\ \A p \in Producers : producer[p].event.who = p
    /\ \A e \in DOMAIN fate :
          /\ e.n <= producer[e.who].event.n
          /\ producer[e.who].at \in InCall => e.n < producer[e.who].event.n

InHand(e, places) == worker.at \in places /\ worker.event = e

InGroup(e) == \E i \in DOMAIN grouped : grouped[i].event = e

\* Whether it is queued, grouped or being written, an event is in one place, and once.
InOnePlace ==
    /\ \A e \in DOMAIN fate :
          \/ fate[e] \in Settled
          \/ fate[e] \in {"queued", "grouped", "mixed"}
    /\ \A e \in DOMAIN fate :
          /\ fate[e] = "queued" => e \in ToSet(queue) \/ InHand(e, {"taken", "resolving"})
          /\ fate[e] = "grouped" => InGroup(e) \/ InHand(e, {"grouped"})
          /\ fate[e] = "mixed" => InHand(e, {"mixed", "writing"})
    /\ IsInjective(queue)
    /\ \A e \in ToSet(queue) : e \in DOMAIN fate /\ fate[e] = "queued"
    /\ \A i, j \in DOMAIN grouped : grouped[i].event = grouped[j].event => i = j
    /\ \A i \in DOMAIN grouped : grouped[i].event \in DOMAIN fate /\ fate[grouped[i].event] = "grouped"
    /\ worker.at \in {"taken", "resolving", "grouped", "mixed", "writing"} => worker.event \in DOMAIN fate
    /\ worker.at \in {"taken", "resolving"} => fate[worker.event] = "queued" /\ worker.event \notin ToSet(queue)
    /\ worker.at = "grouped" => fate[worker.event] = "grouped" /\ ~InGroup(worker.event)
    /\ worker.at \in {"mixed", "writing"} => fate[worker.event] = "mixed"

LedgerInv == LoggerTypeOK /\ Numbered /\ InOnePlace /\ Backpressure

\* Was the sink ever one of the router's?
WasRouted(s) == s.gen < gen \/ s \in AllSinks(router)

\* A sink buffers only lines that went to it, and none before it was routed.
SinksOK ==
    /\ gen \in 0..MaxGen
    /\ router.defaults \in Seq(Sinks) /\ router.byLevel \in [Severities -> Seq(Sinks)]
    /\ \A s \in AllSinks(router) : s.gen = gen
    /\ worker.at \in {"writing", "flushing"} =>
          worker.sinks \in Seq(Sinks) /\ \A s \in ToSet(worker.sinks) : WasRouted(s)
    /\ flush \in [Threads -> [at : {"out", "draining", "collecting", "flushing", "returned", "dead"}, sinks : Seq(Sinks)]]
    /\ unflushed \in [Sinks -> SUBSET DOMAIN fate]
    /\ \A s \in Sinks : \A e \in unflushed[s] : WasRouted(s) /\ fate[e] \in {"mixed", "written", "writtenInGroup"}

\* How far a flush is with what it owes.
StillIn(e, sinks) == \A s \in AllSinks(router) : e \in unflushed[s] => s \in ToSet(sinks)

OwedInFlush ==
    /\ owed \in [Threads -> SUBSET DOMAIN fate]
    /\ \A f \in Threads :
        /\ flush[f].at = "collecting" =>
              \A e \in owed[f] : fate[e] \in Settled \/ InGroup(e)
        /\ flush[f].at = "flushing" =>
              \A e \in owed[f] : fate[e] \in Settled /\ StillIn(e, flush[f].sinks)

\* Once a fatal event made the worker collect, only what is still queued is left.
FatalOwes ==
    /\ worker.at = "flushing" =>
          \A e \in DOMAIN fate : fate[e] = "queued" \/ (fate[e] \in Settled /\ StillIn(e, worker.sinks))
    /\ worker.at = "aborted" => \A e \in DOMAIN fate : fate[e] = "queued" \/ Visible(e)

\* Nothing is logged any more when the destructor flushes.
ClosedInv ==
    LET d == flush["destructor"] IN
    /\ admin \in [at : {"out", "stopping", "closing", "dead"}, next : {"start", "out"}]
    /\ stopRequested => admin.at \in {"closing", "dead"}
    /\ admin.at = "dead" => worker.at = "aborted"
    /\ admin.at = "closing" =>
          \A p \in Producers : producer[p].at = "out" /\ producer[p].event.n = Len(script[p])
    /\ d.at \notin {"out", "dead"} => admin.at = "closing" /\ worker.at = "exited"
    /\ d.at \in {"draining", "collecting", "flushing"} =>
          \A e \in DOMAIN fate : fate[e] = "dropped" \/ e \in owed["destructor"]
    /\ d.at = "returned" => \A e \in DOMAIN fate : Visible(e)

LoggerInv == LedgerInv /\ SinksOK /\ OwedInFlush /\ FatalOwes /\ ClosedInv

\* Lines that were written at once, or in a group.
AtOnce == {"mixed", "written"}

\* A sink of a level stands once in what the router gives.
SinksOnce ==
    /\ IsInjective(router.defaults) /\ \A s \in ToSet(router.defaults) : s.kind # "level"
    /\ \A l \in Severities : IsInjective(router.byLevel[l]) /\ \A s \in ToSet(router.byLevel[l]) : s.kind = "level"
    /\ worker.at = "writing" => IsInjective(worker.sinks)

\* The order of a producer's events: what is queued comes after all that was taken, the event the
\* worker has in hand after all it handled before, and what is grouped after all that was written so.
QueueOrder ==
    /\ \A i, j \in DOMAIN queue : i < j /\ queue[i].who = queue[j].who => queue[i].n < queue[j].n
    /\ \A x \in ToSet(queue) : \A e \in DOMAIN fate \ ToSet(queue) :
          e.who = x.who /\ fate[e] # "dropped" => e.n < x.n

HandOrder ==
    worker.at \in InHandAt =>
        \A e \in DOMAIN fate \ {worker.event} :
            e.who = worker.event.who /\ fate[e] \notin {"dropped", "queued"} => e.n < worker.event.n

GroupOrder ==
    /\ \A i, j \in DOMAIN grouped :
          i < j /\ grouped[i].event.who = grouped[j].event.who => grouped[i].event.n < grouped[j].event.n
    /\ \A i \in DOMAIN grouped : \A e \in DOMAIN fate :
          e.who = grouped[i].event.who /\ fate[e] = "writtenInGroup" => e.n < grouped[i].event.n

\* And in the sinks.
SinkOrder ==
    /\ written \in [Sinks -> Seq(DOMAIN fate)]
    /\ \A s \in Sinks : \A e \in ToSet(written[s]) : fate[e] \in AtOnce \cup {"writtenInGroup"}
    /\ \A s \in Sinks : \A i, j \in DOMAIN written[s] : i < j =>
          LET x == written[s][i]
              y == written[s][j]
          IN  x.who = y.who => /\ fate[x] \in AtOnce /\ fate[y] \in AtOnce => x.n < y.n
                               /\ fate[x] = "writtenInGroup" /\ fate[y] = "writtenInGroup" =>
                                      (x.level = y.level => x.n < y.n)

\* What the worker writes at once is in none of the sinks it has left.
Unwritten ==
    /\ worker.at = "mixed" => \A s \in Sinks : worker.event \notin ToSet(written[s])
    /\ worker.at = "writing" => \A s \in ToSet(worker.sinks) : worker.event \notin ToSet(written[s])

OrderInv == LoggerInv /\ SinksOnce /\ QueueOrder /\ HandOrder /\ GroupOrder /\ SinkOrder /\ Unwritten
==============================================================================
