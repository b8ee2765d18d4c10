----------------------------- MODULE LoggerProofs ------------------------------
(***************************************************************************)
(* logsys::Logger, for every number of producers and flushing threads,     *)
(* every configuration and everything that is logged: the counter of the   *)
(* backpressure and the metrics are exact, Flush is a boundary, and the    *)
(* lines of a producer keep their order in every sink.                     *)
(***************************************************************************)
EXTENDS Logger, FunctionTheorems, FiniteSetTheorems, SequenceTheorems, TLAPS

------------------------------------------------------------------------------
(* Lists without repetition. *)

\* A new element at the end of a list (EnqueuePush, WorkerGroup).
LEMMA AppendedList ==
    ASSUME NEW S, NEW s \in Seq(S), NEW x
    PROVE  /\ Len(Append(s, x)) = Len(s) + 1 /\ Len(s) \in Nat
           /\ DOMAIN s = 1..Len(s) /\ DOMAIN Append(s, x) = 1..(Len(s) + 1)
           /\ \A i \in 1..Len(s) : Append(s, x)[i] = s[i]
           /\ Append(s, x)[Len(s) + 1] = x
           /\ Append(s, x) \in Seq(S \cup {x})
           /\ IsInjective(s) /\ x \notin ToSet(s) => IsInjective(Append(s, x))
<1>0. s \in Seq(S \cup {x})
  <2>1. s \in [1..Len(s) -> S \cup {x}] /\ Len(s) \in Nat
      BY LenProperties
  <2> QED
      BY <2>1, IsASeq
<1>1. /\ Append(s, x) \in Seq(S \cup {x}) /\ Len(Append(s, x)) = Len(s) + 1
      /\ \A i \in 1..Len(s) : Append(s, x)[i] = s[i]
      /\ Append(s, x)[Len(s) + 1] = x
    BY <1>0, AppendProperties
<1>2. DOMAIN s = 1..Len(s) /\ DOMAIN Append(s, x) = 1..(Len(s) + 1) /\ Len(s) \in Nat
    BY <1>1, LenProperties
<1>3. IsInjective(s) /\ x \notin ToSet(s) => IsInjective(Append(s, x))
    BY <1>1, <1>2 DEF IsInjective, ToSet
<1> QED
    BY <1>1, <1>2, <1>3

\* The elements of the longer list.
LEMMA AppendedSet ==
    ASSUME NEW S, NEW s \in Seq(S), NEW x
    PROVE  ToSet(Append(s, x)) = ToSet(s) \cup {x}
    BY AppendedList DEF ToSet

\* A list without its first element (WorkerTake).
LEMMA TailOfList ==
    ASSUME NEW S, NEW s \in Seq(S), s # <<>>
    PROVE  /\ Tail(s) \in Seq(S) /\ Head(s) \in S /\ Head(s) \in ToSet(s)
           /\ Len(Tail(s)) = Len(s) - 1 /\ Len(s) \in Nat
           /\ DOMAIN s = 1..Len(s) /\ DOMAIN Tail(s) = 1..(Len(s) - 1)
           /\ s[1] = Head(s) /\ \A i \in 1..(Len(s) - 1) : Tail(s)[i] = s[i + 1]
           /\ ToSet(s) = ToSet(Tail(s)) \cup {Head(s)}
           /\ IsInjective(s) => IsInjective(Tail(s)) /\ Head(s) \notin ToSet(Tail(s))
<1>1. /\ Tail(s) \in Seq(S) /\ Head(s) \in S /\ Len(Tail(s)) = Len(s) - 1
      /\ \A i \in 1..Len(Tail(s)) : Tail(s)[i] = s[i + 1]
    BY HeadTailProperties
<1>2. /\ DOMAIN s = 1..Len(s) /\ DOMAIN Tail(s) = 1..(Len(s) - 1)
      /\ Len(s) \in Nat /\ Len(s) # 0 /\ Head(s) = s[1]
    BY <1>1, LenProperties, EmptySeq
<1>3. \A i \in DOMAIN s : i # 1 => i - 1 \in DOMAIN Tail(s) /\ Tail(s)[i - 1] = s[i]
    BY <1>1, <1>2
<1>4. \A i \in DOMAIN Tail(s) : i + 1 \in DOMAIN s /\ i + 1 # 1 /\ Tail(s)[i] = s[i + 1]
    BY <1>1, <1>2
<1>5. 1 \in DOMAIN s
    BY <1>2
<1>6. ToSet(s) = ToSet(Tail(s)) \cup {Head(s)}
  <2>1. ASSUME NEW x \in ToSet(s), x # Head(s) PROVE x \in ToSet(Tail(s))
    <3>1. PICK i \in DOMAIN s : x = s[i]
        BY DEF ToSet
    <3> QED
        BY <3>1, <2>1, <1>2, <1>3 DEF ToSet
  <2>2. ToSet(Tail(s)) \subseteq ToSet(s)
      BY <1>4 DEF ToSet
  <2>3. Head(s) \in ToSet(s)
      BY <1>2, <1>5 DEF ToSet
  <2> QED
      BY <2>1, <2>2, <2>3
<1>7. ASSUME IsInjective(s) PROVE IsInjective(Tail(s)) /\ Head(s) \notin ToSet(Tail(s))
  <2>1. IsInjective(Tail(s))
      BY <1>1, <1>2, <1>4, <1>7 DEF IsInjective
  <2>2. \A i \in DOMAIN Tail(s) : Tail(s)[i] # Head(s)
      BY <1>2, <1>4, <1>5, <1>7 DEF IsInjective
  <2> QED
      BY <2>1, <2>2 DEF ToSet
<1> QED
    BY <1>1, <1>2, <1>6, <1>7

\* A list is one of its own elements.
LEMMA OwnList ==
    ASSUME NEW S, NEW s \in Seq(S)
    PROVE  s \in Seq(ToSet(s))
<1>1. Len(s) \in Nat /\ s \in [1..Len(s) -> S]
    BY LenProperties
<1>2. s \in [1..Len(s) -> ToSet(s)]
    BY <1>1 DEF ToSet
<1> QED
    BY <1>1, <1>2, IsASeq

------------------------------------------------------------------------------
(* Types. *)

\* What is in the configuration and in a producer comes from the configurations.
LEMMA TypeInit ==
    Init => LoggerTypeOK
<1> SUFFICES ASSUME Init PROVE LoggerTypeOK
    OBVIOUS
<1>1. /\ FirstConfig \in AllConfigs /\ "backpressure" \in DOMAIN FirstConfig
      /\ FirstConfig.backpressure \in Limits
    BY LoggerAssumption DEF AllConfigs, Limits
<1>2. script \in [Producers -> Seq(Severities)]
    BY LoggerAssumption DEF Init
<1>3. producer \in [Producers -> [at : {"out", "dead"} \cup InCall, event : EventType, limit : Limits]]
    BY <1>1 DEF Init, EventType, Severities
<1>4. IsFiniteSet(DOMAIN fate) /\ DOMAIN fate \subseteq EventType
    BY FS_EmptySet DEF Init
<1>5. "at" \in DOMAIN worker /\ worker.at = "waiting" /\ processing = FALSE
    BY DEF Init
<1>6. grouped \in Seq(ToSet(grouped))
    BY OwnList DEF Init
<1>7. metrics \in [accepted : Nat, emitted : Nat, dropped : Nat, queued : Nat]
    BY DEF Init
<1>8. "backpressure" \in DOMAIN config /\ config.backpressure \in Limits
    BY <1>1 DEF Init
<1>9. queue \in Seq(EventType) /\ pending \in Int
    BY DEF Init
<1> QED
    BY <1>2, <1>3, <1>4, <1>5, <1>6, <1>7, <1>8, <1>9 DEF LoggerTypeOK, Busy

\* Steps that leave the events, where they are and the counters alone.
Elsewhere ==
    \/ WorkerSinks \/ WorkerWrite \/ WorkerFatalFlush \/ WorkerFatalEnd \/ WorkerDone \/ WorkerExit
    \/ PeriodicTick \/ StopPeriodicFlush \/ JoinPeriodicFlush \/ StartPeriodicFlush
    \/ StopAsyncWorker \/ JoinAsyncWorker \/ Close
    \/ \E f \in Threads : FlushDrained(f) \/ FlushSink(f) \/ FlushEnd(f) \/ FlushBegin(f)
    \/ \E c \in Configs : ApplyConfigV2(c)
    \/ \E kinds \in OutputKinds : SetOutputEnabled(kinds)
    \/ \E l \in LevelSinks : AddLevelSink(l)
    \/ UNCHANGED vars

\* The others.
EventStep ==
    \/ \E p \in Producers : EnqueueBegin(p) \/ EnqueueCount(p) \/ EnqueueDrop(p) \/ EnqueuePush(p)
    \/ WorkerTake \/ WorkerCount \/ WorkerResolve \/ WorkerGroup \/ WorkerEmitted
    \/ WorkerFatalCollect \/ WorkerAbort
    \/ \E f \in Threads : FlushCollect(f)

\* Every step is one of the two kinds.
LEMMA TwoKinds ==
    [Next]_vars <=> Elsewhere \/ EventStep
    BY DEF Next, Elsewhere, EventStep, Enqueue, Worker, Flush, Admin

\* The configuration of every moment has the backpressure of one that was asked for.
LEMMA ConfigStep ==
    ASSUME LoggerTypeOK, [Next]_vars
    PROVE  "backpressure" \in DOMAIN config' /\ config'.backpressure \in Limits
<1>1. CASE UNCHANGED config
    BY <1>1 DEF LoggerTypeOK
<1>2. ASSUME NEW c \in Configs, ApplyConfigV2(c)
      PROVE  "backpressure" \in DOMAIN config' /\ config'.backpressure \in Limits
    BY <1>2, LoggerAssumption DEF ApplyConfigV2, AllConfigs, Limits
<1>3. ASSUME NEW kinds \in OutputKinds, SetOutputEnabled(kinds)
      PROVE  "backpressure" \in DOMAIN config' /\ config'.backpressure \in Limits
    BY <1>3 DEF SetOutputEnabled, LoggerTypeOK
<1>4. EventStep => UNCHANGED config
    BY DEF EventStep, EnqueueBegin, EnqueueCount, EnqueueDrop, EnqueuePush, WorkerTake, WorkerCount,
           WorkerResolve, WorkerGroup, WorkerEmitted, WorkerFatalCollect, WorkerAbort, FlushCollect, routeVars
<1>5. Elsewhere => \/ UNCHANGED config
                   \/ \E c \in Configs : ApplyConfigV2(c)
                   \/ \E kinds \in OutputKinds : SetOutputEnabled(kinds)
    BY DEF Elsewhere, WorkerSinks, WorkerWrite, WorkerFatalFlush, WorkerFatalEnd, WorkerDone, WorkerExit,
           PeriodicTick, StopPeriodicFlush, JoinPeriodicFlush, StartPeriodicFlush, StopAsyncWorker,
           JoinAsyncWorker, Close, FlushDrained, FlushSink, FlushEnd, FlushBegin, AddLevelSink, vars, routeVars
<1> QED
    BY <1>1, <1>2, <1>3, <1>4, <1>5, TwoKinds

\* Elsewhere, only where the worker is and which sinks it has left can change.
LEMMA ElsewhereEvents ==
    ASSUME Elsewhere, LoggerTypeOK
    PROVE  /\ UNCHANGED <<script, producer, queue, pending, grouped, metrics, fate>>
           /\ "at" \in DOMAIN worker'
           /\ \/ worker' = worker
              \/ /\ worker.at \in Busy /\ worker'.at \in Busy
                 /\ worker'.event = worker.event /\ DOMAIN worker' = DOMAIN worker
                 /\ \/ worker'.at = worker.at
                    \/ worker.at = "mixed" /\ worker'.at = "writing"
                    \/ worker.at = "flushing" /\ worker'.at = "done"
              \/ worker.at = "done" /\ worker'.at = "waiting"
              \/ worker.at = "waiting" /\ worker'.at = "exited"
           /\ processing' \in BOOLEAN /\ (processing' <=> worker'.at \in Busy)
<1>1. CASE WorkerSinks
    BY <1>1 DEF WorkerSinks, LoggerTypeOK, queueVars, Busy
<1>2. CASE WorkerWrite
    BY <1>2 DEF WorkerWrite, LoggerTypeOK, queueVars, Busy
<1>3. CASE WorkerFatalFlush
    BY <1>3 DEF WorkerFatalFlush, LoggerTypeOK, queueVars, Busy
<1>4. CASE WorkerFatalEnd
    BY <1>4 DEF WorkerFatalEnd, LoggerTypeOK, queueVars, Busy
<1>5. CASE WorkerDone
    BY <1>5 DEF WorkerDone, LoggerTypeOK, queueVars, Busy
<1>6. CASE WorkerExit
    BY <1>6 DEF WorkerExit, LoggerTypeOK, queueVars, Busy
<1>7. CASE JoinAsyncWorker
    BY <1>7 DEF JoinAsyncWorker, FlushStart, LoggerTypeOK, queueVars, Busy
<1>8. CASE \/ PeriodicTick \/ StopPeriodicFlush \/ JoinPeriodicFlush \/ StartPeriodicFlush
           \/ StopAsyncWorker \/ Close \/ UNCHANGED vars
    BY <1>8 DEF PeriodicTick, FlushStart, StopPeriodicFlush, JoinPeriodicFlush, StartPeriodicFlush,
                StopAsyncWorker, Close, LoggerTypeOK, queueVars, vars
<1>9. CASE \E f \in Threads : FlushDrained(f) \/ FlushSink(f) \/ FlushEnd(f) \/ FlushBegin(f)
    BY <1>9 DEF FlushDrained, FlushSink, FlushEnd, FlushBegin, FlushStart, LoggerTypeOK, queueVars
<1>10. CASE \/ \E c \in Configs : ApplyConfigV2(c)
            \/ \E kinds \in OutputKinds : SetOutputEnabled(kinds)
            \/ \E l \in LevelSinks : AddLevelSink(l)
    BY <1>10 DEF ApplyConfigV2, SetOutputEnabled, AddLevelSink, LoggerTypeOK, queueVars
<1> QED
    BY <1>1, <1>2, <1>3, <1>4, <1>5, <1>6, <1>7, <1>8, <1>9, <1>10 DEF Elsewhere

\* New fates: a set of events, finite, of the right type.
LEMMA SettleType ==
    ASSUME LoggerTypeOK, NEW E \in SUBSET EventType, IsFiniteSet(E), NEW what, Settle(E, what)
    PROVE  /\ IsFiniteSet(DOMAIN fate') /\ DOMAIN fate' = DOMAIN fate \cup E /\ DOMAIN fate' \subseteq EventType
           /\ \A e \in E : fate'[e] = what
           /\ \A e \in DOMAIN fate \ E : fate'[e] = fate[e]
<1>1. IsFiniteSet(DOMAIN fate \cup E)
    BY FS_Union DEF LoggerTypeOK
<1> QED
    BY <1>1 DEF Settle, LoggerTypeOK

\* The events of the grouped lines are as many as the lines.
LEMMA GroupedEvents ==
    ASSUME NEW S, NEW s \in Seq(S), \A i, j \in DOMAIN s : s[i].event = s[j].event => i = j
    PROVE  LET E == {x.event : x \in ToSet(s)} IN
           /\ IsFiniteSet(E) /\ Cardinality(E) = Len(s)
           /\ \A e : e \in E <=> \E i \in DOMAIN s : s[i].event = e
<1> DEFINE E == {x.event : x \in ToSet(s)}
           f == [i \in 1..Len(s) |-> s[i].event]
<1>1. Len(s) \in Nat /\ DOMAIN s = 1..Len(s)
    BY LenProperties
<1>2. \A e : e \in E <=> \E i \in DOMAIN s : s[i].event = e
    BY DEF ToSet
<1>3. f \in Bijection(1..Len(s), E)
  <2>1. f \in [1..Len(s) -> E]
      BY <1>1, <1>2
  <2>2. \A e \in E : \E i \in 1..Len(s) : f[i] = e
      BY <1>1, <1>2
  <2>3. \A i, j \in 1..Len(s) : f[i] = f[j] => i = j
      BY <1>1
  <2> HIDE DEF f, E
  <2> QED
      BY <2>1, <2>2, <2>3, Fun_IsBij
<1>4. IsFiniteSet(1..Len(s)) /\ Cardinality(1..Len(s)) = Len(s)
  <2>1. 1 \in Int /\ Len(s) \in Int /\ (Len(s) >= 1 \/ Len(s) = 0)
      BY <1>1
  <2> QED
      BY <2>1, FS_Interval
<1> HIDE DEF f, E
<1>5. IsFiniteSet(E) /\ Cardinality(E) = Cardinality(1..Len(s))
    BY <1>3, <1>4, FS_Bijection DEF ExistsBijection
<1> QED
    BY <1>2, <1>4, <1>5 DEF E

\* FlushGrouped settles the grouped events, all of them different.
LEMMA FlushGroupedFates ==
    ASSUME LoggerTypeOK, InOnePlace, NEW S, NEW entries \in Seq(S), FlushGrouped(entries),
           \A i, j \in DOMAIN entries : entries[i].event = entries[j].event => i = j,
           \A i \in DOMAIN entries :
               entries[i].event \in DOMAIN fate /\ fate[entries[i].event] = "grouped"
    PROVE  \E E :
           /\ IsFiniteSet(E) /\ Cardinality(E) = Len(entries) /\ Len(entries) \in Nat
           /\ E \subseteq DOMAIN fate /\ \A e \in E : fate[e] = "grouped"
           /\ \A e : e \in E <=> \E i \in DOMAIN entries : entries[i].event = e
           /\ DOMAIN fate' = DOMAIN fate
           /\ \A e \in DOMAIN fate : fate'[e] = IF e \in E THEN "writtenInGroup" ELSE fate[e]
           /\ grouped' = <<>> /\ grouped' \in Seq(ToSet(grouped')) /\ DOMAIN grouped' = {}
           /\ metrics' = [metrics EXCEPT !.emitted = @ + Len(entries)]
<1> DEFINE E == {x.event : x \in ToSet(entries)}
<1>1. /\ IsFiniteSet(E) /\ Cardinality(E) = Len(entries)
      /\ \A e : e \in E <=> \E i \in DOMAIN entries : entries[i].event = e
    BY GroupedEvents
<1>2. Len(entries) \in Nat
    BY LenProperties
<1>3. /\ Settle(E, "writtenInGroup") /\ grouped' = <<>>
      /\ metrics' = [metrics EXCEPT !.emitted = @ + Len(entries)]
    BY DEF FlushGrouped
<1> HIDE DEF E
<1>4. E \subseteq DOMAIN fate /\ \A e \in E : fate[e] = "grouped"
    BY <1>1
<1>5. /\ DOMAIN fate' = DOMAIN fate
      /\ \A e \in DOMAIN fate : fate'[e] = IF e \in E THEN "writtenInGroup" ELSE fate[e]
    BY <1>3, <1>4 DEF Settle
<1>6. grouped' \in Seq(ToSet(grouped')) /\ DOMAIN grouped' = {}
    BY <1>3, OwnList
<1> QED
    BY <1>1, <1>2, <1>3, <1>4, <1>5, <1>6

\* What WorkerGroup makes of the grouped lines.
LEMMA WorkerGroupEntries ==
    ASSUME LoggerTypeOK, InOnePlace, WorkerGroup
    PROVE  LET entries == Append(grouped, [event |-> worker.event, kinds |-> worker.kinds]) IN
           /\ entries \in Seq(ToSet(entries))
           /\ \A i, j \in DOMAIN entries : entries[i].event = entries[j].event => i = j
           /\ \A i \in DOMAIN entries : entries[i].event \in DOMAIN fate /\ fate[entries[i].event] = "grouped"
           /\ \A e : (\E i \in DOMAIN entries : entries[i].event = e) <=> (InGroup(e) \/ e = worker.event)
           /\ \/ FlushGrouped(entries)
              \/ grouped' = entries /\ UNCHANGED <<metrics, fate>>
<1> DEFINE x == [event |-> worker.event, kinds |-> worker.kinds]
           entries == Append(grouped, x)
<1>1. /\ worker.at = "grouped" /\ worker.event \in DOMAIN fate /\ fate[worker.event] = "grouped"
      /\ ~InGroup(worker.event)
    BY DEF WorkerGroup, InOnePlace
<1>2. x.event = worker.event
    OBVIOUS
<1>3. grouped \in Seq(ToSet(grouped))
    BY DEF LoggerTypeOK
<1>4. \/ FlushGrouped(entries)
      \/ grouped' = entries /\ UNCHANGED <<metrics, fate>>
    BY DEF WorkerGroup
<1> HIDE DEF x
<1>5. /\ DOMAIN grouped = 1..Len(grouped) /\ DOMAIN entries = 1..(Len(grouped) + 1) /\ Len(grouped) \in Nat
      /\ \A i \in 1..Len(grouped) : entries[i] = grouped[i]
      /\ entries[Len(grouped) + 1] = x
      /\ entries \in Seq(ToSet(grouped) \cup {x})
    BY <1>3, AppendedList
<1> HIDE DEF entries
<1>6. entries \in Seq(ToSet(entries))
    BY <1>5, OwnList
<1>7. \A i \in DOMAIN entries : \/ i \in DOMAIN grouped /\ entries[i] = grouped[i]
                                \/ i = Len(grouped) + 1 /\ entries[i] = x
    BY <1>5
<1>8. \A i \in DOMAIN grouped : i \in DOMAIN entries /\ entries[i] = grouped[i] /\ grouped[i].event # worker.event
    BY <1>1, <1>5 DEF InGroup
<1>9. Len(grouped) + 1 \in DOMAIN entries
    BY <1>5
<1>10. \A i, j \in DOMAIN entries : entries[i].event = entries[j].event => i = j
    BY <1>2, <1>7, <1>8 DEF InOnePlace
<1>11. \A i \in DOMAIN entries : entries[i].event \in DOMAIN fate /\ fate[entries[i].event] = "grouped"
    BY <1>1, <1>2, <1>7 DEF InOnePlace
<1>12. \A e : (\E i \in DOMAIN entries : entries[i].event = e) <=> (InGroup(e) \/ e = worker.event)
    BY <1>2, <1>5, <1>7, <1>8, <1>9 DEF InGroup
<1> QED
    BY <1>4, <1>6, <1>10, <1>11, <1>12 DEF entries, x

\* A producer's step, and what it does to its record.
LEMMA ProducerType ==
    ASSUME LoggerTypeOK, NEW p \in Producers, NEW at \in {"out", "dead"} \cup InCall,
           producer' = [producer EXCEPT ![p].at = at]
    PROVE  /\ producer' \in [Producers -> [at : {"out", "dead"} \cup InCall, event : EventType, limit : Limits]]
           /\ producer'[p].at = at
           /\ \A q \in Producers : /\ producer'[q].event = producer[q].event /\ producer'[q].limit = producer[q].limit
                                   /\ q # p => producer'[q] = producer[q]
    BY DEF LoggerTypeOK

\* One more of one of the counters, or some more lines emitted.
LEMMA MetricsType ==
    ASSUME LoggerTypeOK, NEW k \in Nat,
           \/ metrics' = [metrics EXCEPT !.accepted = @ + 1]
           \/ metrics' = [metrics EXCEPT !.dropped = @ + 1]
           \/ metrics' = [metrics EXCEPT !.queued = @ + 1]
           \/ metrics' = [metrics EXCEPT !.emitted = @ + k]
    PROVE  metrics' \in [accepted : Nat, emitted : Nat, dropped : Nat, queued : Nat]
<1> DEFINE M == [accepted : Nat, emitted : Nat, dropped : Nat, queued : Nat]
<1>1. metrics \in M
    BY DEF LoggerTypeOK
<1>2. /\ metrics.accepted + 1 \in Nat /\ metrics.dropped + 1 \in Nat /\ metrics.queued + 1 \in Nat
      /\ metrics.emitted + k \in Nat
    BY <1>1
<1>3. \A m \in M, n \in Nat : /\ [m EXCEPT !.accepted = n] \in M /\ [m EXCEPT !.dropped = n] \in M
                              /\ [m EXCEPT !.queued = n] \in M /\ [m EXCEPT !.emitted = n] \in M
    OBVIOUS
<1> QED
    BY <1>1, <1>2, <1>3

\* Every variable keeps its type.
LEMMA TypeStep ==
    ASSUME LoggerTypeOK, InOnePlace, [Next]_vars
    PROVE  LoggerTypeOK'
<1>0. "backpressure" \in DOMAIN config' /\ config'.backpressure \in Limits
    BY ConfigStep
<1>1. CASE Elsewhere
    BY <1>0, <1>1, ElsewhereEvents DEF LoggerTypeOK, Busy
<1>2. ASSUME NEW p \in Producers, EnqueueBegin(p) PROVE LoggerTypeOK'
  <2> DEFINE n == producer[p].event.n + 1
             x == [at |-> "counting", event |-> [who |-> p, n |-> n, level |-> script[p][n]],
                   limit |-> config.backpressure]
  <2>1. n \in Nat /\ n \in DOMAIN script[p] /\ script[p][n] \in Severities
    <3>1. script[p] \in Seq(Severities)
        BY DEF LoggerTypeOK
    <3>2. \A i \in DOMAIN script[p] : script[p][i] \in Severities
        BY <3>1, LenProperties
    <3> QED
        BY <1>2, <3>2 DEF EnqueueBegin, LoggerTypeOK, EventType
  <2>2. x \in [at : {"out", "dead"} \cup InCall, event : EventType, limit : Limits]
      BY <2>1 DEF LoggerTypeOK, InCall, EventType
  <2>3. producer' = [producer EXCEPT ![p] = x]
      BY <1>2 DEF EnqueueBegin
  <2>4. metrics' \in [accepted : Nat, emitted : Nat, dropped : Nat, queued : Nat]
    <3>1. metrics' = [metrics EXCEPT !.accepted = @ + 1] /\ 0 \in Nat
        BY <1>2 DEF EnqueueBegin
    <3> QED
        BY <3>1, MetricsType
  <2> HIDE DEF x, n
  <2>5. producer' \in [Producers -> [at : {"out", "dead"} \cup InCall, event : EventType, limit : Limits]]
      BY <2>2, <2>3 DEF LoggerTypeOK
  <2>6. UNCHANGED <<script, queue, pending, processing, worker, grouped, fate>>
      BY <1>2 DEF EnqueueBegin
  <2> QED
      BY <1>0, <2>4, <2>5, <2>6 DEF LoggerTypeOK
<1>3. ASSUME NEW p \in Producers, EnqueueCount(p) PROVE LoggerTypeOK'
  <2> DEFINE at == IF Overloaded(producer[p].limit, pending + 1, producer[p].event) THEN "dropping" ELSE "pushing"
  <2>1. producer' = [producer EXCEPT ![p].at = at] /\ at \in {"out", "dead"} \cup InCall
      BY <1>3 DEF EnqueueCount, InCall
  <2> HIDE DEF at
  <2>2. producer' \in [Producers -> [at : {"out", "dead"} \cup InCall, event : EventType, limit : Limits]]
      BY <2>1, ProducerType
  <2>3. pending' \in Int /\ UNCHANGED <<script, queue, metrics, processing, worker, grouped, fate>>
      BY <1>3 DEF EnqueueCount, LoggerTypeOK
  <2> QED
      BY <1>0, <2>2, <2>3 DEF LoggerTypeOK
<1>4. ASSUME NEW p \in Producers, EnqueueDrop(p) PROVE LoggerTypeOK'
  <2>1. producer' \in [Producers -> [at : {"out", "dead"} \cup InCall, event : EventType, limit : Limits]]
      BY <1>4, ProducerType DEF EnqueueDrop
  <2>2. IsFiniteSet(DOMAIN fate') /\ DOMAIN fate' \subseteq EventType
    <3>1. producer[p].event \in EventType
        BY DEF LoggerTypeOK
    <3>2. {producer[p].event} \in SUBSET EventType /\ IsFiniteSet({producer[p].event})
        BY <3>1, FS_Singleton
    <3> QED
        BY <1>4, <3>2, SettleType DEF EnqueueDrop
  <2>3. metrics' \in [accepted : Nat, emitted : Nat, dropped : Nat, queued : Nat]
    <3>1. metrics' = [metrics EXCEPT !.dropped = @ + 1] /\ 0 \in Nat
        BY <1>4 DEF EnqueueDrop
    <3> QED
        BY <3>1, MetricsType
  <2>4. pending' \in Int /\ UNCHANGED <<script, queue, processing, worker, grouped>>
      BY <1>4 DEF EnqueueDrop, LoggerTypeOK
  <2> QED
      BY <1>0, <2>1, <2>2, <2>3, <2>4 DEF LoggerTypeOK
<1>5. ASSUME NEW p \in Producers, EnqueuePush(p) PROVE LoggerTypeOK'
  <2>1. producer' \in [Producers -> [at : {"out", "dead"} \cup InCall, event : EventType, limit : Limits]]
      BY <1>5, ProducerType DEF EnqueuePush
  <2>2. IsFiniteSet(DOMAIN fate') /\ DOMAIN fate' \subseteq EventType
    <3>1. producer[p].event \in EventType
        BY DEF LoggerTypeOK
    <3>2. {producer[p].event} \in SUBSET EventType /\ IsFiniteSet({producer[p].event})
        BY <3>1, FS_Singleton
    <3> QED
        BY <1>5, <3>2, SettleType DEF EnqueuePush
  <2>3. queue' \in Seq(EventType)
      BY <1>5, AppendProperties DEF EnqueuePush, LoggerTypeOK
  <2>4. metrics' \in [accepted : Nat, emitted : Nat, dropped : Nat, queued : Nat]
    <3>1. metrics' = [metrics EXCEPT !.queued = @ + 1] /\ 0 \in Nat
        BY <1>5 DEF EnqueuePush
    <3> QED
        BY <3>1, MetricsType
  <2>5. UNCHANGED <<script, pending, processing, worker, grouped>>
      BY <1>5 DEF EnqueuePush
  <2> QED
      BY <1>0, <2>1, <2>2, <2>3, <2>4, <2>5 DEF LoggerTypeOK
<1>6. CASE WorkerTake
  <2>1. queue' \in Seq(EventType) /\ Head(queue) \in EventType
      BY <1>6, TailOfList DEF WorkerTake, LoggerTypeOK
  <2>2. /\ worker' = [at |-> "taken", event |-> Head(queue), kinds |-> {}, sinks |-> <<>>] /\ processing' = TRUE
        /\ UNCHANGED <<script, producer, pending, grouped, metrics, fate>>
      BY <1>6 DEF WorkerTake
  <2>3. /\ "at" \in DOMAIN worker' /\ worker'.at = "taken" /\ worker'.event = Head(queue)
        /\ DOMAIN worker' = {"at", "event", "kinds", "sinks"}
      BY <2>2
  <2>4. worker'.at \in Busy
      BY <2>3 DEF Busy
  <2> QED
      BY <1>0, <2>1, <2>2, <2>3, <2>4 DEF LoggerTypeOK
<1>7. CASE WorkerCount
    BY <1>0, <1>7 DEF WorkerCount, LoggerTypeOK, Busy
<1>8. CASE WorkerResolve
  <2>1. /\ worker.at = "resolving" /\ \E what : Settle({worker.event}, what)
        /\ DOMAIN worker' = DOMAIN worker
        /\ UNCHANGED <<script, producer, queue, pending, processing, grouped, metrics>>
      BY <1>8 DEF WorkerResolve, queueVars, LoggerTypeOK
  <2>2. worker'.at \in {"done", "grouped", "mixed"} /\ worker'.event = worker.event
      BY <1>8 DEF WorkerResolve, LoggerTypeOK, Busy
  <2>3. worker.event \in EventType
      BY <2>1 DEF LoggerTypeOK, Busy
  <2>4. IsFiniteSet(DOMAIN fate') /\ DOMAIN fate' \subseteq EventType
    <3>1. {worker.event} \in SUBSET EventType /\ IsFiniteSet({worker.event})
        BY <2>3, FS_Singleton
    <3> QED
        BY <2>1, <3>1, SettleType
  <2> QED
      BY <1>0, <2>1, <2>2, <2>3, <2>4 DEF LoggerTypeOK, Busy
<1>9. CASE WorkerGroup
  <2> DEFINE entries == Append(grouped, [event |-> worker.event, kinds |-> worker.kinds])
  <2>1. /\ entries \in Seq(ToSet(entries))
        /\ \A i, j \in DOMAIN entries : entries[i].event = entries[j].event => i = j
        /\ \A i \in DOMAIN entries : entries[i].event \in DOMAIN fate /\ fate[entries[i].event] = "grouped"
        /\ \/ FlushGrouped(entries)
           \/ grouped' = entries /\ UNCHANGED <<metrics, fate>>
      BY <1>9, WorkerGroupEntries
  <2>2. /\ UNCHANGED <<script, producer, queue, pending, processing>>
        /\ worker.at = "grouped" /\ worker' = [worker EXCEPT !.at = "done"]
      BY <1>9 DEF WorkerGroup, queueVars
  <2> HIDE DEF entries
  <2>3. /\ grouped' \in Seq(ToSet(grouped'))
        /\ metrics' \in [accepted : Nat, emitted : Nat, dropped : Nat, queued : Nat]
        /\ IsFiniteSet(DOMAIN fate') /\ DOMAIN fate' \subseteq EventType
    <3>1. CASE FlushGrouped(entries)
      <4>1. /\ Len(entries) \in Nat /\ DOMAIN fate' = DOMAIN fate /\ grouped' \in Seq(ToSet(grouped'))
            /\ metrics' = [metrics EXCEPT !.emitted = @ + Len(entries)]
          BY <2>1, <3>1, FlushGroupedFates
      <4>2. metrics' \in [accepted : Nat, emitted : Nat, dropped : Nat, queued : Nat]
          BY <4>1, MetricsType
      <4> QED
          BY <4>1, <4>2 DEF LoggerTypeOK
    <3>2. CASE grouped' = entries /\ UNCHANGED <<metrics, fate>>
        BY <2>1, <3>2 DEF LoggerTypeOK
    <3> QED
        BY <2>1, <3>1, <3>2
  <2> QED
      BY <1>0, <2>2, <2>3 DEF LoggerTypeOK, Busy
<1>10. CASE WorkerEmitted
  <2>1. /\ worker.at = "writing" /\ Settle({worker.event}, "written")
        /\ metrics' = [metrics EXCEPT !.emitted = @ + 1]
        /\ UNCHANGED <<script, producer, queue, pending, processing, grouped>>
      BY <1>10 DEF WorkerEmitted, queueVars
  <2>2. worker'.at \in {"fatal", "done"} /\ worker'.event = worker.event /\ DOMAIN worker' = DOMAIN worker
      BY <1>10, <2>1 DEF WorkerEmitted, LoggerTypeOK, Busy
  <2>3. worker.event \in EventType
      BY <2>1 DEF LoggerTypeOK, Busy
  <2>4. IsFiniteSet(DOMAIN fate') /\ DOMAIN fate' \subseteq EventType
    <3>1. {worker.event} \in SUBSET EventType /\ IsFiniteSet({worker.event})
        BY <2>3, FS_Singleton
    <3> QED
        BY <2>1, <3>1, SettleType
  <2>5. metrics' \in [accepted : Nat, emitted : Nat, dropped : Nat, queued : Nat]
    <3>1. 1 \in Nat
        OBVIOUS
    <3> QED
        BY <2>1, <3>1, MetricsType
  <2> QED
      BY <1>0, <2>1, <2>2, <2>3, <2>4, <2>5 DEF LoggerTypeOK, Busy
<1>11. ASSUME FlushGrouped(grouped)
       PROVE  /\ grouped' \in Seq(ToSet(grouped'))
              /\ metrics' \in [accepted : Nat, emitted : Nat, dropped : Nat, queued : Nat]
              /\ IsFiniteSet(DOMAIN fate') /\ DOMAIN fate' \subseteq EventType
  <2>1. grouped \in Seq(ToSet(grouped))
      BY DEF LoggerTypeOK
  <2>2. /\ Len(grouped) \in Nat /\ DOMAIN fate' = DOMAIN fate /\ grouped' \in Seq(ToSet(grouped'))
        /\ metrics' = [metrics EXCEPT !.emitted = @ + Len(grouped)]
      BY <1>11, <2>1, FlushGroupedFates DEF InOnePlace
  <2>3. metrics' \in [accepted : Nat, emitted : Nat, dropped : Nat, queued : Nat]
      BY <2>2, MetricsType
  <2> QED
      BY <2>2, <2>3 DEF LoggerTypeOK
<1>12. CASE WorkerFatalCollect
  <2>1. /\ UNCHANGED <<script, producer, queue, pending, processing>>
        /\ worker.at = "fatal" /\ FlushGrouped(grouped)
      BY <1>12 DEF WorkerFatalCollect, queueVars
  <2>2. worker'.at = "flushing" /\ worker'.event = worker.event /\ DOMAIN worker' = DOMAIN worker
      BY <1>12, <2>1 DEF WorkerFatalCollect, LoggerTypeOK, Busy
  <2> QED
      BY <1>0, <1>11, <2>1, <2>2 DEF LoggerTypeOK, Busy
<1>13. CASE WorkerAbort
  <2>1. /\ UNCHANGED <<script, queue, pending, processing, grouped, metrics, fate>>
        /\ worker.at = "flushing" /\ worker' = [worker EXCEPT !.at = "aborted"]
        /\ producer' = [p \in Producers |-> [producer[p] EXCEPT !.at = "dead"]]
      BY <1>13 DEF WorkerAbort
  <2>2. producer' \in [Producers -> [at : {"out", "dead"} \cup InCall, event : EventType, limit : Limits]]
    <3>1. producer \in [Producers -> [at : {"out", "dead"} \cup InCall, event : EventType, limit : Limits]]
        BY DEF LoggerTypeOK
    <3>2. \A p \in Producers : [producer[p] EXCEPT !.at = "dead"]
                                   \in [at : {"out", "dead"} \cup InCall, event : EventType, limit : Limits]
        BY <3>1
    <3> QED
        BY <2>1, <3>2
  <2> QED
      BY <1>0, <2>1, <2>2 DEF LoggerTypeOK, Busy
<1>14. ASSUME NEW f \in Threads, FlushCollect(f) PROVE LoggerTypeOK'
  <2>1. UNCHANGED <<script, producer, queue, pending, processing, worker>> /\ FlushGrouped(grouped)
      BY <1>14 DEF FlushCollect, queueVars
  <2> QED
      BY <1>0, <1>11, <2>1 DEF LoggerTypeOK
<1> QED
    BY <1>1, <1>2, <1>3, <1>4, <1>5, <1>6, <1>7, <1>8, <1>9, <1>10, <1>12, <1>13, <1>14, TwoKinds DEF EventStep

------------------------------------------------------------------------------
(* Every event in one place. *)

\* What an Enqueue call has in its hands is new.
LEMMA NewEvent ==
    ASSUME LoggerTypeOK, Numbered, NEW p \in Producers, producer[p].at \in InCall
    PROVE  /\ producer[p].event \notin DOMAIN fate /\ producer[p].event \in EventType
           /\ producer[p].event.who = p
    BY DEF LoggerTypeOK, Numbered, EventType

\* The worker and the flushes know only events that were pushed.
LEMMA NothingNew ==
    ASSUME LoggerTypeOK, InOnePlace,
           \/ WorkerTake \/ WorkerCount \/ WorkerResolve \/ WorkerGroup \/ WorkerEmitted \/ WorkerFatalCollect
           \/ WorkerAbort \/ \E f \in Threads : FlushCollect(f)
    PROVE  DOMAIN fate' = DOMAIN fate
<1>1. CASE WorkerTake \/ WorkerCount \/ WorkerAbort
    BY <1>1 DEF WorkerTake, WorkerCount, WorkerAbort
<1>2. CASE WorkerResolve \/ WorkerEmitted
  <2>1. worker.event \in DOMAIN fate /\ \E what : Settle({worker.event}, what)
      BY <1>2 DEF WorkerResolve, WorkerEmitted, InOnePlace
  <2> QED
      BY <2>1 DEF Settle
<1>3. CASE WorkerGroup
    BY <1>3, WorkerGroupEntries, FlushGroupedFates
<1>4. CASE WorkerFatalCollect \/ \E f \in Threads : FlushCollect(f)
  <2>1. FlushGrouped(grouped)
      BY <1>4 DEF WorkerFatalCollect, FlushCollect
  <2>2. grouped \in Seq(ToSet(grouped))
      BY DEF LoggerTypeOK
  <2> QED
      BY <2>1, <2>2, FlushGroupedFates DEF InOnePlace
<1> QED
    BY <1>1, <1>2, <1>3, <1>4

\* Only drops and pushes make events known.
LEMMA KnownEvents ==
    ASSUME LoggerTypeOK, InOnePlace, EventStep
    PROVE  \/ DOMAIN fate' = DOMAIN fate
           \/ \E p \in Producers : /\ EnqueueDrop(p) \/ EnqueuePush(p)
                                   /\ DOMAIN fate' = DOMAIN fate \cup {producer[p].event}
<1>1. ASSUME NEW p \in Producers, EnqueueBegin(p) \/ EnqueueCount(p) PROVE DOMAIN fate' = DOMAIN fate
    BY <1>1 DEF EnqueueBegin, EnqueueCount
<1>2. ASSUME NEW p \in Producers, EnqueueDrop(p) \/ EnqueuePush(p)
      PROVE  DOMAIN fate' = DOMAIN fate \cup {producer[p].event}
    BY <1>2 DEF EnqueueDrop, EnqueuePush, Settle
<1> QED
    BY <1>1, <1>2, NothingNew DEF EventStep

\* Events stay numbered.
LEMMA NumberedStep ==
    ASSUME LoggerTypeOK, Numbered, InOnePlace, [Next]_vars
    PROVE  Numbered'
<1>1. CASE Elsewhere
  <2>1. UNCHANGED <<producer, fate>>
      BY <1>1, ElsewhereEvents
  <2> QED
      BY <2>1 DEF Numbered
<1>2. ASSUME NEW p \in Producers, EnqueueBegin(p) PROVE Numbered'
  <2> DEFINE x == [at |-> "counting",
                   event |-> [who |-> p, n |-> producer[p].event.n + 1, level |-> script[p][producer[p].event.n + 1]],
                   limit |-> config.backpressure]
  <2>1. producer' = [producer EXCEPT ![p] = x] /\ UNCHANGED fate
      BY <1>2 DEF EnqueueBegin
  <2>2. x.event.who = p /\ x.event.n = producer[p].event.n + 1
      OBVIOUS
  <2> HIDE DEF x
  <2>3. /\ producer'[p].event.who = p /\ producer'[p].event.n = producer[p].event.n + 1
        /\ \A q \in Producers : q # p => producer'[q] = producer[q]
      BY <2>1, <2>2 DEF LoggerTypeOK
  <2>4. \A e \in DOMAIN fate : e.who \in Producers /\ e.n \in Nat /\ e.n <= producer[e.who].event.n
      BY DEF Numbered, LoggerTypeOK, EventType
  <2>5. producer[p].event.n \in Nat
      BY DEF LoggerTypeOK, EventType
  <2> QED
      BY <2>1, <2>3, <2>4, <2>5 DEF Numbered
<1>3. ASSUME NEW p \in Producers, EnqueueCount(p) PROVE Numbered'
  <2>1. \E at \in InCall : producer' = [producer EXCEPT ![p].at = at]
      BY <1>3 DEF EnqueueCount, InCall
  <2>2. producer[p].at \in InCall /\ UNCHANGED fate
      BY <1>3 DEF EnqueueCount, InCall
  <2>3. \A q \in Producers : producer'[q].event = producer[q].event /\ (q # p => producer'[q] = producer[q])
      BY <2>1, ProducerType
  <2> QED
      BY <2>2, <2>3 DEF Numbered, LoggerTypeOK, EventType
<1>4. ASSUME NEW p \in Producers, EnqueueDrop(p) \/ EnqueuePush(p) PROVE Numbered'
  <2>1. producer' = [producer EXCEPT ![p].at = "out"]
      BY <1>4 DEF EnqueueDrop, EnqueuePush
  <2>2. /\ producer'[p].at = "out"
        /\ \A q \in Producers : producer'[q].event = producer[q].event /\ (q # p => producer'[q] = producer[q])
      BY <2>1, ProducerType
  <2>3. DOMAIN fate' = DOMAIN fate \cup {producer[p].event}
      BY <1>4 DEF EnqueueDrop, EnqueuePush, Settle
  <2>4. producer[p].event.who = p /\ producer[p].event.n \in Nat /\ "out" \notin InCall
      BY DEF Numbered, LoggerTypeOK, EventType, InCall
  <2>5. \A e \in DOMAIN fate : /\ e.who \in Producers /\ e.n <= producer[e.who].event.n
                               /\ producer[e.who].at \in InCall => e.n < producer[e.who].event.n
      BY DEF Numbered, LoggerTypeOK, EventType
  <2>6. \A q \in Producers : producer'[q].event.who = q
      BY <2>2 DEF Numbered
  <2>7. ASSUME NEW e \in DOMAIN fate'
        PROVE  e.n <= producer'[e.who].event.n /\ (producer'[e.who].at \in InCall => e.n < producer'[e.who].event.n)
    <3>1. CASE e = producer[p].event
      <4>1. e.who = p /\ e.n = producer[p].event.n /\ e.n \in Nat
          BY <3>1, <2>4
      <4>2. producer'[e.who].event.n = e.n /\ producer'[e.who].at = "out"
          BY <4>1, <2>2
      <4> QED
          BY <4>1, <4>2, <2>4
    <3>2. CASE e \in DOMAIN fate
      <4>1. /\ e.who \in Producers /\ e.n <= producer[e.who].event.n
            /\ producer[e.who].at \in InCall => e.n < producer[e.who].event.n
          BY <3>2, <2>5
      <4>2. producer'[e.who].event = producer[e.who].event
          BY <4>1, <2>2
      <4>3. producer'[e.who].at = "out" \/ producer'[e.who] = producer[e.who]
          BY <4>1, <2>2
      <4> QED
          BY <4>1, <4>2, <4>3, <2>4
    <3> QED
        BY <3>1, <3>2, <2>3
  <2> QED
      BY <2>6, <2>7 DEF Numbered
<1>5. CASE WorkerAbort
  <2>1. producer' = [p \in Producers |-> [producer[p] EXCEPT !.at = "dead"]] /\ UNCHANGED fate
      BY <1>5 DEF WorkerAbort
  <2>2. \A p \in Producers : producer'[p].event = producer[p].event /\ producer'[p].at = "dead"
      BY <2>1 DEF LoggerTypeOK
  <2>3. "dead" \notin InCall /\ \A e \in DOMAIN fate : e.who \in Producers
      BY DEF LoggerTypeOK, EventType, InCall
  <2> QED
      BY <2>1, <2>2, <2>3 DEF Numbered
<1>6. CASE \/ WorkerTake \/ WorkerCount \/ WorkerResolve \/ WorkerGroup \/ WorkerEmitted
           \/ WorkerFatalCollect \/ \E f \in Threads : FlushCollect(f)
  <2>1. UNCHANGED producer
      BY <1>6 DEF WorkerTake, WorkerCount, WorkerResolve, WorkerGroup, WorkerEmitted, WorkerFatalCollect,
                  FlushCollect, queueVars
  <2>2. ASSUME NEW p \in Producers, EnqueueDrop(p) \/ EnqueuePush(p) PROVE FALSE
    <3>1. producer'[p].at = "out" /\ producer[p].at # "out"
        BY <2>2, ProducerType DEF EnqueueDrop, EnqueuePush
    <3> QED
        BY <2>1, <3>1
  <2>3. DOMAIN fate' = DOMAIN fate
      BY <1>6, <2>2, KnownEvents DEF EventStep
  <2> QED
      BY <2>1, <2>3 DEF Numbered
<1> QED
    BY <1>1, <1>2, <1>3, <1>4, <1>5, <1>6, TwoKinds DEF EventStep

\* Steps that move no event.
LEMMA UnmovedStep ==
    ASSUME LoggerTypeOK, InOnePlace, UNCHANGED <<queue, grouped, fate>>,
           \/ worker' = worker
           \/ worker'.event = worker.event /\ worker'.at = worker.at
           \/ worker'.event = worker.event /\ worker.at \in {"mixed", "writing"} /\ worker'.at \in {"mixed", "writing"}
           \/ worker'.event = worker.event /\ worker.at \in {"taken", "resolving"} /\ worker'.at \in {"taken", "resolving"}
           \/ /\ worker.at \in {"waiting", "exited", "fatal", "flushing", "aborted", "done"}
              /\ worker'.at \in {"waiting", "exited", "fatal", "flushing", "aborted", "done"}
    PROVE  InOnePlace'
    BY DEF InOnePlace, InHand, InGroup

\* Every step leaves each event in one place.
LEMMA OnePlaceStep ==
    ASSUME LoggerTypeOK, Numbered, InOnePlace, [Next]_vars
    PROVE  InOnePlace'
<1>1. CASE Elsewhere
    BY <1>1, ElsewhereEvents, UnmovedStep
<1>2. ASSUME NEW p \in Producers, EnqueueBegin(p) \/ EnqueueCount(p) PROVE InOnePlace'
  <2>1. UNCHANGED <<queue, grouped, fate, worker>>
      BY <1>2 DEF EnqueueBegin, EnqueueCount
  <2> QED
      BY <2>1, UnmovedStep
<1>3. CASE WorkerAbort
    BY <1>3, UnmovedStep DEF WorkerAbort, LoggerTypeOK
<1>4. CASE WorkerCount
    BY <1>4, UnmovedStep DEF WorkerCount, LoggerTypeOK, Busy
<1>5. ASSUME NEW p \in Producers, EnqueueDrop(p) PROVE InOnePlace'
  <2> DEFINE x == producer[p].event
  <2>1. /\ x \notin DOMAIN fate /\ UNCHANGED <<queue, grouped, worker>>
        /\ fate' = [e \in DOMAIN fate \cup {x} |-> IF e \in {x} THEN "dropped" ELSE fate[e]]
      BY <1>5, NewEvent DEF EnqueueDrop, InCall, Settle
  <2> HIDE DEF x
  <2>2. /\ DOMAIN fate' = DOMAIN fate \cup {x} /\ fate'[x] = "dropped"
        /\ \A e \in DOMAIN fate : fate'[e] = fate[e]
      BY <2>1
  <2> QED
      BY <2>1, <2>2 DEF InOnePlace, InHand, InGroup, Settled
<1>6. ASSUME NEW p \in Producers, EnqueuePush(p) PROVE InOnePlace'
  <2> DEFINE x == producer[p].event
  <2>1. /\ x \notin DOMAIN fate /\ UNCHANGED <<grouped, worker>> /\ queue' = Append(queue, x)
        /\ fate' = [e \in DOMAIN fate \cup {x} |-> IF e \in {x} THEN "queued" ELSE fate[e]]
      BY <1>6, NewEvent DEF EnqueuePush, InCall, Settle
  <2> HIDE DEF x
  <2>2. /\ DOMAIN fate' = DOMAIN fate \cup {x} /\ fate'[x] = "queued"
        /\ \A e \in DOMAIN fate : fate'[e] = fate[e]
      BY <2>1
  <2>3. ToSet(queue') = ToSet(queue) \cup {x} /\ IsInjective(queue')
    <3>1. queue \in Seq(EventType) /\ IsInjective(queue) /\ x \notin ToSet(queue)
        BY <2>1 DEF LoggerTypeOK, InOnePlace
    <3>2. ToSet(Append(queue, x)) = ToSet(queue) \cup {x}
        BY <3>1, AppendedSet, SMT
    <3>3. IsInjective(Append(queue, x))
        BY <3>1, AppendedList, Zenon
    <3> QED
        BY <2>1, <3>2, <3>3
  <2> QED
      BY <2>1, <2>2, <2>3 DEF InOnePlace, InHand, InGroup, Settled
<1>7. CASE WorkerTake
  <2>1. /\ UNCHANGED <<grouped, fate>> /\ queue # <<>> /\ queue' = Tail(queue)
        /\ worker.at = "waiting" /\ worker'.at = "taken" /\ worker'.event = Head(queue)
      BY <1>7 DEF WorkerTake
  <2>2. /\ ToSet(queue) = ToSet(queue') \cup {Head(queue)} /\ IsInjective(queue')
        /\ Head(queue) \notin ToSet(queue')
    <3>1. queue \in Seq(EventType) /\ IsInjective(queue)
        BY DEF LoggerTypeOK, InOnePlace
    <3> QED
        BY <2>1, <3>1, TailOfList
  <2> QED
      BY <2>1, <2>2 DEF InOnePlace, InHand, InGroup
<1>8. CASE WorkerResolve
  <2> DEFINE e == worker.event
  <2>1. PICK next \in {"unrecorded", "recorded", "grouped", "mixed"} :
           /\ Settle({e}, next)
           /\ worker'.at = IF next \in {"unrecorded", "recorded"} THEN "done" ELSE next
      BY <1>8 DEF WorkerResolve, LoggerTypeOK, Busy
  <2>2. /\ worker.at = "resolving" /\ worker'.event = e /\ UNCHANGED <<queue, grouped>>
      BY <1>8 DEF WorkerResolve, LoggerTypeOK, Busy, queueVars
  <2>3. e \in DOMAIN fate /\ fate[e] = "queued" /\ e \notin ToSet(queue)
      BY <2>2 DEF InOnePlace
  <2> HIDE DEF e
  <2>4. /\ DOMAIN fate' = DOMAIN fate /\ fate'[e] = next
        /\ \A y \in DOMAIN fate : y # e => fate'[y] = fate[y]
      BY <2>1, <2>3 DEF Settle
  <2>5. ~InGroup(e) /\ worker.event = e
      BY <2>3 DEF InOnePlace, InGroup, e
  <2> QED
      BY <2>1, <2>2, <2>3, <2>4, <2>5 DEF InOnePlace, InHand, InGroup, Settled
<1>9. CASE WorkerEmitted
  <2> DEFINE e == worker.event
  <2>1. /\ worker.at = "writing" /\ Settle({e}, "written") /\ UNCHANGED <<queue, grouped>>
        /\ worker'.at \in {"fatal", "done"}
      BY <1>9 DEF WorkerEmitted, LoggerTypeOK, Busy, queueVars
  <2>2. e \in DOMAIN fate /\ fate[e] = "mixed"
      BY <2>1 DEF InOnePlace
  <2>3. /\ DOMAIN fate' = DOMAIN fate /\ fate'[e] = "written"
        /\ \A y \in DOMAIN fate : y # e => fate'[y] = fate[y]
      BY <2>1, <2>2 DEF Settle
  <2>4. worker.event = e
      OBVIOUS
  <2> HIDE DEF e
  <2> QED
      BY <2>1, <2>2, <2>3, <2>4 DEF InOnePlace, InHand, InGroup, Settled
<1>10. CASE WorkerGroup
  <2> DEFINE entries == Append(grouped, [event |-> worker.event, kinds |-> worker.kinds])
  <2>1. /\ entries \in Seq(ToSet(entries))
        /\ \A i, j \in DOMAIN entries : entries[i].event = entries[j].event => i = j
        /\ \A i \in DOMAIN entries : entries[i].event \in DOMAIN fate /\ fate[entries[i].event] = "grouped"
        /\ \A e : (\E i \in DOMAIN entries : entries[i].event = e) <=> (InGroup(e) \/ e = worker.event)
        /\ \/ FlushGrouped(entries)
           \/ grouped' = entries /\ UNCHANGED <<metrics, fate>>
      BY <1>10, WorkerGroupEntries
  <2>2. /\ worker.at = "grouped" /\ worker'.at = "done" /\ UNCHANGED queue
      BY <1>10 DEF WorkerGroup, queueVars, LoggerTypeOK
  <2> HIDE DEF entries
  <2>3. CASE FlushGrouped(entries)
    <3>1. PICK E : /\ E \subseteq DOMAIN fate /\ \A e \in E : fate[e] = "grouped"
                   /\ \A e : e \in E <=> \E i \in DOMAIN entries : entries[i].event = e
                   /\ DOMAIN fate' = DOMAIN fate /\ DOMAIN grouped' = {}
                   /\ \A e \in DOMAIN fate : fate'[e] = IF e \in E THEN "writtenInGroup" ELSE fate[e]
        BY <2>1, <2>3, FlushGroupedFates
    <3>2. \A e : e \in E <=> InGroup(e) \/ e = worker.event
        BY <2>1, <3>1
    <3> QED
        BY <2>2, <3>1, <3>2 DEF InOnePlace, InHand, InGroup, Settled
  <2>4. CASE grouped' = entries /\ UNCHANGED <<metrics, fate>>
      BY <2>1, <2>2, <2>4 DEF InOnePlace, InHand, InGroup
  <2> QED
      BY <2>1, <2>3, <2>4
<1>11. CASE WorkerFatalCollect \/ \E f \in Threads : FlushCollect(f)
  <2>1. /\ FlushGrouped(grouped) /\ UNCHANGED queue
        /\ \/ worker' = worker
           \/ worker.at = "fatal" /\ worker'.at = "flushing"
      BY <1>11 DEF WorkerFatalCollect, FlushCollect, queueVars, LoggerTypeOK
  <2>2. /\ grouped \in Seq(ToSet(grouped))
        /\ \A i, j \in DOMAIN grouped : grouped[i].event = grouped[j].event => i = j
        /\ \A i \in DOMAIN grouped : grouped[i].event \in DOMAIN fate /\ fate[grouped[i].event] = "grouped"
      BY DEF LoggerTypeOK, InOnePlace
  <2>3. PICK E :
           /\ IsFiniteSet(E) /\ Cardinality(E) = Len(grouped) /\ Len(grouped) \in Nat
           /\ E \subseteq DOMAIN fate /\ \A e \in E : fate[e] = "grouped"
           /\ \A e : e \in E <=> \E i \in DOMAIN grouped : grouped[i].event = e
           /\ DOMAIN fate' = DOMAIN fate
           /\ \A e \in DOMAIN fate : fate'[e] = IF e \in E THEN "writtenInGroup" ELSE fate[e]
           /\ grouped' = <<>> /\ grouped' \in Seq(ToSet(grouped')) /\ DOMAIN grouped' = {}
           /\ metrics' = [metrics EXCEPT !.emitted = @ + Len(grouped)]
      BY <2>1, <2>2, FlushGroupedFates
  <2>4. \A e : e \in E <=> InGroup(e)
      BY <2>3 DEF InGroup
  <2>5. CASE worker' = worker
      BY <2>1, <2>3, <2>4, <2>5 DEF InOnePlace, InHand, InGroup, Settled
  <2>6. CASE worker.at = "fatal" /\ worker'.at = "flushing"
      BY <2>1, <2>3, <2>4, <2>6 DEF InOnePlace, InHand, InGroup, Settled
  <2> QED
      BY <2>1, <2>5, <2>6
<1> QED
    BY <1>1, <1>2, <1>3, <1>4, <1>5, <1>6, <1>7, <1>8, <1>9, <1>10, <1>11, TwoKinds DEF EventStep

------------------------------------------------------------------------------
(* The counters. *)

\* One producer enters or leaves a set of places.
LEMMA CountMoves ==
    ASSUME NEW p \in Producers, NEW places, \A q \in Producers \ {p} : producer'[q].at = producer[q].at
    PROVE  /\ CountAt(places) \in Nat /\ CountAt(places)' \in Nat
           /\ (producer[p].at \in places <=> producer'[p].at \in places) => CountAt(places)' = CountAt(places)
           /\ producer[p].at \notin places /\ producer'[p].at \in places => CountAt(places)' = CountAt(places) + 1
           /\ producer[p].at \in places /\ producer'[p].at \notin places => CountAt(places) = CountAt(places)' + 1
<1> DEFINE A == {q \in Producers : producer[q].at \in places}
           B == {q \in Producers : producer'[q].at \in places}
<1>1. IsFiniteSet(A) /\ IsFiniteSet(B)
    BY LoggerAssumption, FS_Subset
<1>2. CountAt(places) = Cardinality(A) /\ CountAt(places)' = Cardinality(B)
    BY DEF CountAt
<1>3. /\ (producer[p].at \in places <=> producer'[p].at \in places) => A = B
      /\ producer[p].at \notin places /\ producer'[p].at \in places => B = A \cup {p} /\ p \notin A
      /\ producer[p].at \in places /\ producer'[p].at \notin places => A = B \cup {p} /\ p \notin B
    OBVIOUS
<1> HIDE DEF A, B
<1>4. Cardinality(A) \in Nat /\ Cardinality(B) \in Nat
    BY <1>1, FS_CardinalityType
<1>5. p \notin A => Cardinality(A \cup {p}) = Cardinality(A) + 1
    BY <1>1, FS_AddElement
<1>6. p \notin B => Cardinality(B \cup {p}) = Cardinality(B) + 1
    BY <1>1, FS_AddElement
<1> QED
    BY <1>2, <1>3, <1>4, <1>5, <1>6

\* What of the counter is spent on the lowest levels is at most all of it.
LEMMA LowBound ==
    ASSUME NEW P, NEW q \in Seq(EventType)
    PROVE  LET pushing == {p \in Producers : P[p].at = "pushing" /\ P[p].event.level \in LowLevels}
               queued == {i \in DOMAIN q : q[i].level \in LowLevels}
               counted == {p \in Producers : P[p].at \in {"dropping", "pushing"}}
           IN  /\ Cardinality(pushing) \in Nat /\ Cardinality(queued) \in Nat /\ Cardinality(counted) \in Nat
               /\ Cardinality(pushing) <= Cardinality(counted) /\ Cardinality(queued) <= Len(q) /\ Len(q) \in Nat
               /\ IsFiniteSet(pushing) /\ IsFiniteSet(queued)
<1> DEFINE pushing == {p \in Producers : P[p].at = "pushing" /\ P[p].event.level \in LowLevels}
           queued == {i \in DOMAIN q : q[i].level \in LowLevels}
           counted == {p \in Producers : P[p].at \in {"dropping", "pushing"}}
<1>1. IsFiniteSet(counted) /\ pushing \subseteq counted
    BY LoggerAssumption, FS_Subset
<1>2. Len(q) \in Nat /\ queued \subseteq 1..Len(q)
    BY LenProperties
<1>3. IsFiniteSet(1..Len(q)) /\ Cardinality(1..Len(q)) = Len(q)
  <2>1. 1 \in Int /\ Len(q) \in Int /\ (1 > Len(q) => Len(q) = 0)
      BY <1>2
  <2> QED
      BY <2>1, FS_Interval
<1> HIDE DEF pushing, queued, counted
<1>4. IsFiniteSet(pushing) /\ Cardinality(pushing) <= Cardinality(counted)
    BY <1>1, FS_Subset
<1>5. IsFiniteSet(queued) /\ Cardinality(queued) <= Len(q)
    BY <1>2, <1>3, FS_Subset
<1>6. Cardinality(pushing) \in Nat /\ Cardinality(queued) \in Nat /\ Cardinality(counted) \in Nat
    BY <1>1, <1>4, <1>5, FS_CardinalityType
<1> QED
    BY <1>2, <1>4, <1>5, <1>6 DEF pushing, queued, counted

\* A producer that enters or leaves the critical stretch with such an event.
LEMMA LowPushingMoves ==
    ASSUME LoggerTypeOK, NEW p \in Producers,
           \A q \in Producers \ {p} : producer'[q] = producer[q]
    PROVE  /\ Cardinality(LowPushing) \in Nat /\ Cardinality(LowPushing)' \in Nat
           /\ (p \in LowPushing <=> p \in LowPushing') => Cardinality(LowPushing)' = Cardinality(LowPushing)
           /\ p \in LowPushing /\ p \notin LowPushing' => Cardinality(LowPushing) = Cardinality(LowPushing)' + 1
<1>1. IsFiniteSet(LowPushing) /\ IsFiniteSet(LowPushing')
    BY LoggerAssumption, FS_Subset DEF LowPushing
<1>2. /\ (p \in LowPushing <=> p \in LowPushing') => LowPushing' = LowPushing
      /\ p \in LowPushing /\ p \notin LowPushing' => LowPushing = LowPushing' \cup {p}
    BY DEF LowPushing
<1>3. Cardinality(LowPushing) \in Nat /\ Cardinality(LowPushing') \in Nat
    BY <1>1, FS_CardinalityType
<1>4. p \notin LowPushing' => Cardinality(LowPushing' \cup {p}) = Cardinality(LowPushing') + 1
    BY <1>1, FS_AddElement
<1> QED
    BY <1>2, <1>3, <1>4

\* The queue grows by one event.
LEMMA LowQueuedPush ==
    ASSUME LoggerTypeOK, NEW e \in EventType, queue' = Append(queue, e)
    PROVE  /\ Cardinality(LowQueued) \in Nat /\ Cardinality(LowQueued)' \in Nat
           /\ Len(queue') = Len(queue) + 1
           /\ e.level \in LowLevels => Cardinality(LowQueued)' = Cardinality(LowQueued) + 1
           /\ e.level \notin LowLevels => Cardinality(LowQueued)' = Cardinality(LowQueued)
<1> DEFINE n == Len(queue) + 1
<1>1. queue \in Seq(EventType)
    BY DEF LoggerTypeOK
<1>2. /\ DOMAIN queue = 1..Len(queue) /\ DOMAIN queue' = 1..(Len(queue) + 1)
      /\ Len(queue') = Len(queue) + 1 /\ Len(queue) \in Nat
      /\ \A i \in 1..Len(queue) : queue'[i] = queue[i]
      /\ queue'[Len(queue) + 1] = e
    BY <1>1, AppendedList
<1>3. n \notin LowQueued /\ LowQueued' = IF e.level \in LowLevels THEN LowQueued \cup {n} ELSE LowQueued
  <2>1. n \notin DOMAIN queue /\ DOMAIN queue' = DOMAIN queue \cup {n}
      BY <1>2
  <2>2. queue'[n] = e /\ \A i \in DOMAIN queue : queue'[i] = queue[i]
      BY <1>2
  <2> HIDE DEF n
  <2> QED
      BY <2>1, <2>2 DEF LowQueued
<1>4. IsFiniteSet(LowQueued) /\ Cardinality(LowQueued) \in Nat
    BY <1>1, LowBound DEF LowQueued
<1> HIDE DEF n
<1>5. Cardinality(LowQueued \cup {n}) = Cardinality(LowQueued) + 1
    BY <1>3, <1>4, FS_AddElement
<1> QED
    BY <1>2, <1>3, <1>4, <1>5

\* The queue loses its first event.
LEMMA LowQueuedPop ==
    ASSUME LoggerTypeOK, queue # <<>>, queue' = Tail(queue)
    PROVE  /\ Cardinality(LowQueued) \in Nat /\ Cardinality(LowQueued)' \in Nat
           /\ Len(queue') = Len(queue) - 1 /\ Len(queue) \in Nat
           /\ Cardinality(LowQueued)' <= Cardinality(LowQueued)
<1>1. queue \in Seq(EventType) /\ queue' \in Seq(EventType)
    BY TailOfList DEF LoggerTypeOK
<1>2. /\ DOMAIN queue = 1..Len(queue) /\ DOMAIN queue' = 1..(Len(queue) - 1) /\ Len(queue) \in Nat
      /\ Len(queue') = Len(queue) - 1
      /\ \A i \in 1..(Len(queue) - 1) : queue'[i] = queue[i + 1]
    BY <1>1, TailOfList
<1> DEFINE f == [i \in LowQueued' |-> i + 1]
<1>3. f \in Injection(LowQueued', LowQueued)
  <2>1. \A i \in LowQueued' : i + 1 \in LowQueued /\ i \in Int
      BY <1>2 DEF LowQueued
  <2>2. f \in [LowQueued' -> LowQueued] /\ \A i, j \in LowQueued' : f[i] = f[j] => i = j
      BY <2>1
  <2> HIDE DEF f
  <2> QED
      BY <2>2, Fun_IsInj
<1>4. IsFiniteSet(LowQueued) /\ Cardinality(LowQueued) \in Nat
    BY <1>1, LowBound DEF LowQueued
<1> HIDE DEF f
<1>5. IsFiniteSet(LowQueued') /\ Cardinality(LowQueued') <= Cardinality(LowQueued)
    BY <1>3, <1>4, FS_Injection
<1>6. Cardinality(LowQueued') \in Nat
    BY <1>5, FS_CardinalityType
<1> QED
    BY <1>2, <1>4, <1>5, <1>6

\* A step of a producer: what the others have is left alone.
LEMMA ProducerSteps ==
    ASSUME LoggerTypeOK, NEW p \in Producers,
           EnqueueBegin(p) \/ EnqueueCount(p) \/ EnqueueDrop(p) \/ EnqueuePush(p)
    PROVE  /\ \A q \in Producers \ {p} : producer'[q] = producer[q]
           /\ UNCHANGED worker
           /\ EnqueueBegin(p) => producer[p].at = "out" /\ producer'[p].at = "counting"
           /\ EnqueueCount(p) =>
                 /\ producer[p].at = "counting" /\ producer'[p].event = producer[p].event
                 /\ producer'[p].at = IF Overloaded(producer[p].limit, pending + 1, producer[p].event)
                                      THEN "dropping" ELSE "pushing"
           /\ EnqueueDrop(p) => producer[p].at = "dropping" /\ producer'[p].at = "out"
           /\ EnqueuePush(p) => producer[p].at = "pushing" /\ producer'[p].at = "out"
<1>1. UNCHANGED worker
    BY DEF EnqueueBegin, EnqueueCount, EnqueueDrop, EnqueuePush
<1>2. CASE EnqueueBegin(p)
    BY <1>1, <1>2 DEF EnqueueBegin, EnqueueCount, EnqueueDrop, EnqueuePush, LoggerTypeOK
<1>3. CASE EnqueueCount(p)
    BY <1>1, <1>3 DEF EnqueueBegin, EnqueueCount, EnqueueDrop, EnqueuePush, LoggerTypeOK
<1>4. CASE EnqueueDrop(p)
    BY <1>1, <1>4 DEF EnqueueBegin, EnqueueCount, EnqueueDrop, EnqueuePush, LoggerTypeOK
<1>5. CASE EnqueuePush(p)
    BY <1>1, <1>5 DEF EnqueueBegin, EnqueueCount, EnqueueDrop, EnqueuePush, LoggerTypeOK
<1> QED
    BY <1>2, <1>3, <1>4, <1>5

\* Other steps of the worker and of a flush leave the producers and the queue alone.
LEMMA WorkerSteps ==
    ASSUME LoggerTypeOK,
           \/ WorkerCount \/ WorkerResolve \/ WorkerGroup \/ WorkerEmitted \/ WorkerFatalCollect
           \/ \E f \in Threads : FlushCollect(f)
    PROVE  /\ UNCHANGED <<producer, queue>>
           /\ \/ WorkerCount /\ worker.at = "taken" /\ worker'.at = "resolving" /\ pending' = pending - 1
                 /\ UNCHANGED <<metrics, fate>>
              \/ ~WorkerCount /\ pending' = pending /\ worker.at \notin {"taken", "aborted"}
                 /\ worker'.at \notin {"taken", "aborted"}
              \/ (\E f \in Threads : FlushCollect(f)) /\ UNCHANGED <<pending, worker>>
<1>1. CASE WorkerCount
    BY <1>1 DEF WorkerCount, LoggerTypeOK
<1>2. CASE WorkerResolve
    BY <1>2 DEF WorkerCount, WorkerResolve, LoggerTypeOK, Busy, queueVars
<1>3. CASE WorkerGroup
    BY <1>3 DEF WorkerCount, WorkerGroup, LoggerTypeOK, queueVars
<1>4. CASE WorkerEmitted
    BY <1>4 DEF WorkerCount, WorkerEmitted, LoggerTypeOK, queueVars
<1>5. CASE WorkerFatalCollect
    BY <1>5 DEF WorkerCount, WorkerFatalCollect, LoggerTypeOK, queueVars
<1>6. CASE \E f \in Threads : FlushCollect(f)
    BY <1>6 DEF FlushCollect, queueVars
<1> QED
    BY <1>1, <1>2, <1>3, <1>4, <1>5, <1>6

\* The counter stays exact.
LEMMA PendingStep ==
    ASSUME LoggerTypeOK, PendingExact, worker'.at # "aborted", [Next]_vars
    PROVE  PendingExact'
<1> DEFINE places == {"dropping", "pushing"}
<1>0. Len(queue) \in Nat /\ pending \in Int
    BY LenProperties DEF LoggerTypeOK
<1>1. CASE Elsewhere
  <2>1. UNCHANGED <<producer, queue, pending>> /\ (worker'.at = "taken" <=> worker.at = "taken")
      BY <1>1, ElsewhereEvents
  <2> QED
      BY <2>1 DEF PendingExact, CountAt
<1>2. ASSUME NEW p \in Producers,
             EnqueueBegin(p) \/ EnqueueCount(p) \/ EnqueueDrop(p) \/ EnqueuePush(p)
      PROVE  PendingExact'
  <2>1. \A q \in Producers \ {p} : producer'[q].at = producer[q].at
      BY <1>2, ProducerSteps
  <2>2. UNCHANGED worker
      BY <1>2, ProducerSteps
  <2>3. /\ CountAt(places) \in Nat /\ CountAt(places)' \in Nat
        /\ (producer[p].at \in places <=> producer'[p].at \in places) => CountAt(places)' = CountAt(places)
        /\ producer[p].at \notin places /\ producer'[p].at \in places => CountAt(places)' = CountAt(places) + 1
        /\ producer[p].at \in places /\ producer'[p].at \notin places => CountAt(places) = CountAt(places)' + 1
      BY <2>1, CountMoves
  <2>4. CASE EnqueueBegin(p)
    <3>1. producer[p].at = "out" /\ producer'[p].at = "counting" /\ UNCHANGED <<pending, queue>>
        BY <1>2, <2>4, ProducerSteps DEF EnqueueBegin
    <3> QED
        BY <2>2, <2>3, <3>1 DEF PendingExact
  <2>5. CASE EnqueueCount(p)
    <3>1. /\ producer[p].at = "counting" /\ producer'[p].at \in places
          /\ pending' = pending + 1 /\ UNCHANGED queue
        BY <1>2, <2>5, ProducerSteps DEF EnqueueCount
    <3> QED
        BY <1>0, <2>2, <2>3, <3>1 DEF PendingExact
  <2>6. CASE EnqueueDrop(p)
    <3>1. /\ producer[p].at = "dropping" /\ producer'[p].at = "out"
          /\ pending' = pending - 1 /\ UNCHANGED queue
        BY <1>2, <2>6, ProducerSteps DEF EnqueueDrop
    <3> QED
        BY <1>0, <2>2, <2>3, <3>1 DEF PendingExact
  <2>7. CASE EnqueuePush(p)
    <3>1. /\ producer[p].at = "pushing" /\ producer'[p].at = "out"
          /\ queue' = Append(queue, producer[p].event) /\ UNCHANGED pending
        BY <1>2, <2>7, ProducerSteps DEF EnqueuePush
    <3>2. Len(queue') = Len(queue) + 1
        BY <3>1, AppendProperties DEF LoggerTypeOK
    <3> QED
        BY <1>0, <2>2, <2>3, <3>1, <3>2 DEF PendingExact
  <2> QED
      BY <1>2, <2>4, <2>5, <2>6, <2>7
<1>3. CASE WorkerTake
  <2>1. /\ queue # <<>> /\ queue' = Tail(queue) /\ UNCHANGED <<producer, pending>>
        /\ worker.at = "waiting" /\ worker'.at = "taken"
      BY <1>3 DEF WorkerTake
  <2>2. Len(queue') = Len(queue) - 1
      BY <2>1, LowQueuedPop
  <2>3. CountAt(places)' = CountAt(places)
      BY <2>1 DEF CountAt
  <2>4. CountAt(places) + (Len(queue) - 1) + 1 = CountAt(places) + Len(queue) + 0
    <3>1. IsFiniteSet({p \in Producers : producer[p].at \in places})
        BY LoggerAssumption, FS_Subset
    <3>2. CountAt(places) \in Nat
        BY <3>1, FS_CardinalityType DEF CountAt
    <3> QED
        BY <1>0, <3>2
  <2> QED
      BY <2>1, <2>2, <2>3, <2>4 DEF PendingExact
<1>4. CASE \/ WorkerCount \/ WorkerResolve \/ WorkerGroup \/ WorkerEmitted \/ WorkerFatalCollect
           \/ \E f \in Threads : FlushCollect(f)
  <2>1. /\ UNCHANGED <<producer, queue>>
        /\ \/ worker.at = "taken" /\ worker'.at = "resolving" /\ pending' = pending - 1
           \/ pending' = pending /\ worker.at # "taken" /\ worker'.at # "taken"
           \/ UNCHANGED <<pending, worker>>
      BY <1>4, WorkerSteps
  <2>2. CountAt(places)' = CountAt(places)
      BY <2>1 DEF CountAt
  <2>3. CountAt(places) \in Nat
    <3>1. IsFiniteSet({p \in Producers : producer[p].at \in places})
        BY LoggerAssumption, FS_Subset
    <3> QED
        BY <3>1, FS_CardinalityType DEF CountAt
  <2> QED
      BY <1>0, <2>1, <2>2, <2>3 DEF PendingExact
<1>5. CASE WorkerAbort
    BY <1>5 DEF WorkerAbort, LoggerTypeOK
<1> QED
    BY <1>1, <1>2, <1>3, <1>4, <1>5, TwoKinds DEF EventStep

\* The admitted events of the lowest levels stay within the watermark: who is let in has seen
\* a counter, its own event in it, that is at most the watermark.
LEMMA WatermarkStep ==
    ASSUME LoggerTypeOK, LoggerTypeOK', PendingExact', WatermarkKept, worker'.at # "aborted", [Next]_vars
    PROVE  WatermarkKept'
<1> SUFFICES ASSUME NEW c0 \in AllConfigs, \A c \in AllConfigs : c.backpressure.watermark <= c0.backpressure.watermark
             PROVE  (Cardinality(LowPushing) + Cardinality(LowQueued))' <= c0.backpressure.watermark
    BY DEF WatermarkKept
<1> DEFINE m == c0.backpressure.watermark
<1>0. m \in Nat /\ Cardinality(LowPushing) + Cardinality(LowQueued) <= m
    BY LoggerAssumption DEF WatermarkKept
<1> HIDE DEF m
<1>1. ASSUME UNCHANGED <<producer, queue>> PROVE (Cardinality(LowPushing) + Cardinality(LowQueued))' <= m
    BY <1>0, <1>1 DEF LowPushing, LowQueued
<1>2. ASSUME NEW p \in Producers,
             EnqueueBegin(p) \/ EnqueueCount(p) \/ EnqueueDrop(p) \/ EnqueuePush(p)
      PROVE  (Cardinality(LowPushing) + Cardinality(LowQueued))' <= m
  <2>1. \A q \in Producers \ {p} : producer'[q] = producer[q]
      BY <1>2, ProducerSteps
  <2>2. /\ Cardinality(LowPushing) \in Nat /\ Cardinality(LowPushing)' \in Nat
        /\ (p \in LowPushing <=> p \in LowPushing') => Cardinality(LowPushing)' = Cardinality(LowPushing)
        /\ p \in LowPushing /\ p \notin LowPushing' => Cardinality(LowPushing) = Cardinality(LowPushing)' + 1
      BY <2>1, LowPushingMoves
  <2>3. CASE EnqueueBegin(p) \/ EnqueueDrop(p)
    <3>1. producer[p].at # "pushing" /\ producer'[p].at # "pushing"
        BY <1>2, <2>3, ProducerSteps
    <3>2. p \notin LowPushing /\ p \notin LowPushing'
        BY <3>1 DEF LowPushing
    <3>3. UNCHANGED queue
        BY <2>3 DEF EnqueueBegin, EnqueueDrop
    <3>4. Cardinality(LowQueued)' = Cardinality(LowQueued)
        BY <3>3 DEF LowQueued
    <3> QED
        BY <1>0, <2>2, <3>2, <3>4
  <2>4. CASE EnqueueCount(p)
    <3>1. /\ producer[p].at = "counting" /\ producer'[p].event = producer[p].event
          /\ producer'[p].at = IF Overloaded(producer[p].limit, pending + 1, producer[p].event)
                               THEN "dropping" ELSE "pushing"
          /\ pending' = pending + 1 /\ UNCHANGED <<queue, worker>>
        BY <1>2, <2>4, ProducerSteps DEF EnqueueCount
    <3>2. Cardinality(LowQueued)' = Cardinality(LowQueued)
        BY <3>1 DEF LowQueued
    <3>3. p \notin LowPushing
        BY <3>1 DEF LowPushing
    <3>4. CASE p \notin LowPushing'
        BY <1>0, <2>2, <3>2, <3>3, <3>4
    <3>5. CASE p \in LowPushing'
      <4>1. producer'[p].at = "pushing" /\ producer[p].event.level \in LowLevels
          BY <3>1, <3>5 DEF LowPushing
      <4>2. PICK c \in AllConfigs : producer[p].limit = c.backpressure
        <5>1. producer[p].limit \in Limits
            BY DEF LoggerTypeOK
        <5> QED
            BY <5>1 DEF Limits
      <4>3. c.backpressure.on /\ producer[p].event.level < c.backpressure.below
          BY <4>1 DEF LowLevels
      <4>4. pending' <= m
        <5>1. ~Overloaded(producer[p].limit, pending + 1, producer[p].event)
            BY <3>1, <4>1
        <5>2. ~(pending + 1 > c.backpressure.watermark)
            BY <4>2, <4>3, <5>1 DEF Overloaded
        <5>3. c.backpressure.watermark \in Nat /\ c.backpressure.watermark <= m
            BY LoggerAssumption DEF m
        <5>4. pending \in Int
            BY DEF LoggerTypeOK
        <5> QED
            BY <1>0, <3>1, <5>2, <5>3, <5>4
      <4>5. queue' \in Seq(EventType)
          BY DEF LoggerTypeOK
      <4>6. /\ Cardinality(LowPushing)' \in Nat /\ Cardinality(LowQueued)' \in Nat
            /\ CountAt({"dropping", "pushing"})' \in Nat
            /\ Cardinality(LowPushing)' <= CountAt({"dropping", "pushing"})'
            /\ Cardinality(LowQueued)' <= Len(queue)' /\ Len(queue)' \in Nat
          BY <4>5, LowBound DEF LowPushing, LowQueued, CountAt
      <4>7. pending' = CountAt({"dropping", "pushing"})' + Len(queue)' + (IF worker'.at = "taken" THEN 1 ELSE 0)
          BY DEF PendingExact
      <4> QED
          BY <1>0, <4>4, <4>6, <4>7
    <3> QED
        BY <3>4, <3>5
  <2>5. CASE EnqueuePush(p)
    <3>1. /\ producer[p].at = "pushing" /\ producer'[p].at = "out"
          /\ queue' = Append(queue, producer[p].event)
        BY <1>2, <2>5, ProducerSteps DEF EnqueuePush
    <3>2. producer[p].event \in EventType
        BY DEF LoggerTypeOK
    <3>3. p \notin LowPushing' /\ (p \in LowPushing <=> producer[p].event.level \in LowLevels)
        BY <3>1 DEF LowPushing
    <3>4. /\ Cardinality(LowQueued) \in Nat /\ Cardinality(LowQueued)' \in Nat
          /\ producer[p].event.level \in LowLevels => Cardinality(LowQueued)' = Cardinality(LowQueued) + 1
          /\ producer[p].event.level \notin LowLevels => Cardinality(LowQueued)' = Cardinality(LowQueued)
        BY <3>1, <3>2, LowQueuedPush
    <3> QED
        BY <1>0, <2>2, <3>3, <3>4
  <2> QED
      BY <1>2, <2>3, <2>4, <2>5
<1>3. ASSUME WorkerTake PROVE (Cardinality(LowPushing) + Cardinality(LowQueued))' <= m
  <2>1. queue # <<>> /\ queue' = Tail(queue) /\ UNCHANGED producer
      BY <1>3 DEF WorkerTake
  <2>2. /\ Cardinality(LowQueued) \in Nat /\ Cardinality(LowQueued)' \in Nat
        /\ Cardinality(LowQueued)' <= Cardinality(LowQueued)
      BY <2>1, LowQueuedPop
  <2>3. LowPushing' = LowPushing
      BY <2>1 DEF LowPushing
  <2>4. Cardinality(LowPushing) \in Nat
    <3>1. IsFiniteSet(LowPushing)
        BY LoggerAssumption, FS_Subset DEF LowPushing
    <3> QED
        BY <3>1, FS_CardinalityType
  <2>5. Cardinality(LowPushing)' = Cardinality(LowPushing)
      BY <2>3
  <2> QED
      BY <1>0, <2>2, <2>4, <2>5
<1>4. ASSUME WorkerAbort PROVE FALSE
    BY <1>4 DEF WorkerAbort, LoggerTypeOK
<1>5. ASSUME Elsewhere PROVE (Cardinality(LowPushing) + Cardinality(LowQueued))' <= m
  <2>1. UNCHANGED <<producer, queue>>
      BY <1>5, ElsewhereEvents
  <2> QED
      BY <1>1, <2>1
<1>6. ASSUME \/ WorkerCount \/ WorkerResolve \/ WorkerGroup \/ WorkerEmitted \/ WorkerFatalCollect
             \/ \E f \in Threads : FlushCollect(f)
      PROVE  (Cardinality(LowPushing) + Cardinality(LowQueued))' <= m
  <2>1. UNCHANGED <<producer, queue>>
      BY <1>6, WorkerSteps
  <2> QED
      BY <1>1, <2>1
<1>7. (Cardinality(LowPushing) + Cardinality(LowQueued))' <= m
    BY <1>1, <1>2, <1>3, <1>4, <1>5, <1>6, TwoKinds DEF EventStep
<1> QED
    BY <1>7 DEF m

\* What a step adds to the written events.
LEMMA WrittenGrows ==
    ASSUME LoggerTypeOK, NEW E \in SUBSET DOMAIN fate, IsFiniteSet(E),
           E \cap Emitted = {},
           Emitted' = Emitted \cup E
    PROVE  /\ Cardinality(Emitted) \in Nat /\ Cardinality(E) \in Nat
           /\ Cardinality(Emitted') =
                 Cardinality(Emitted) + Cardinality(E)
<1>1. IsFiniteSet(Emitted)
    BY FS_Subset DEF Emitted, LoggerTypeOK
<1>2. Emitted' = Emitted \cup E /\ Emitted \cap E = {}
    OBVIOUS
<1>3. Cardinality(Emitted \cup E) = Cardinality(Emitted) + Cardinality(E) - Cardinality(Emitted \cap E)
    BY <1>1, FS_Union
<1>4. Cardinality(Emitted \cap E) = 0
    BY <1>2, FS_EmptySet
<1>5. Cardinality(Emitted) \in Nat /\ Cardinality(E) \in Nat
    BY <1>1, FS_CardinalityType
<1> QED
    BY <1>2, <1>3, <1>4, <1>5

\* The lines emitted are counted when they are written.
LEMMA EmittedStep ==
    ASSUME LoggerTypeOK, Numbered, InOnePlace, [Next]_vars,
           metrics.emitted = Cardinality(Emitted)
    PROVE  metrics'.emitted = Cardinality(Emitted')
<1>0. metrics.emitted = Cardinality(Emitted) /\ metrics \in [accepted : Nat, emitted : Nat, dropped : Nat, queued : Nat]
    BY DEF LoggerTypeOK
<1>1. CASE Elsewhere
  <2>1. UNCHANGED <<metrics, fate>>
      BY <1>1, ElsewhereEvents
  <2> QED
      BY <1>0, <2>1 DEF Emitted
<1>2. ASSUME NEW p \in Producers, EnqueueBegin(p) \/ EnqueueCount(p)
      PROVE  metrics'.emitted = Cardinality(Emitted')
  <2>1. UNCHANGED fate /\ metrics'.emitted = metrics.emitted
      BY <1>0, <1>2 DEF EnqueueBegin, EnqueueCount
  <2> QED
      BY <1>0, <2>1 DEF Emitted
<1>3. ASSUME NEW p \in Producers, EnqueueDrop(p) \/ EnqueuePush(p)
      PROVE  metrics'.emitted = Cardinality(Emitted')
  <2> DEFINE x == producer[p].event
  <2>1. /\ x \notin DOMAIN fate /\ metrics'.emitted = metrics.emitted
        /\ \E what \in {"dropped", "queued"} : Settle({x}, what)
      BY <1>0, <1>3, NewEvent DEF EnqueueDrop, EnqueuePush, InCall
  <2> HIDE DEF x
  <2>2. /\ DOMAIN fate' = DOMAIN fate \cup {x} /\ fate'[x] \in {"dropped", "queued"}
        /\ \A e \in DOMAIN fate : fate'[e] = fate[e]
      BY <2>1 DEF Settle
  <2>3. Emitted' = Emitted
      BY <2>1, <2>2 DEF Emitted
  <2> QED
      BY <1>0, <2>1, <2>3
<1>4. CASE WorkerTake \/ WorkerCount \/ WorkerAbort
  <2>1. UNCHANGED <<metrics, fate>>
      BY <1>4 DEF WorkerTake, WorkerCount, WorkerAbort
  <2> QED
      BY <1>0, <2>1 DEF Emitted
<1>5. CASE WorkerResolve
  <2> DEFINE e == worker.event
  <2>1. /\ e \in DOMAIN fate /\ fate[e] = "queued" /\ UNCHANGED metrics
        /\ \E next \in {"unrecorded", "recorded", "grouped", "mixed"} : Settle({e}, next)
      BY <1>5 DEF WorkerResolve, InOnePlace
  <2> HIDE DEF e
  <2>2. /\ DOMAIN fate' = DOMAIN fate /\ fate'[e] \in {"unrecorded", "recorded", "grouped", "mixed"}
        /\ \A y \in DOMAIN fate : y # e => fate'[y] = fate[y]
      BY <2>1 DEF Settle
  <2>3. Emitted' = Emitted
      BY <2>1, <2>2 DEF Emitted
  <2> QED
      BY <1>0, <2>1, <2>3
<1>6. CASE WorkerEmitted
  <2> DEFINE e == worker.event
  <2>1. /\ e \in DOMAIN fate /\ fate[e] = "mixed" /\ Settle({e}, "written")
        /\ metrics'.emitted = metrics.emitted + 1
      BY <1>0, <1>6 DEF WorkerEmitted, InOnePlace
  <2> HIDE DEF e
  <2>2. /\ DOMAIN fate' = DOMAIN fate /\ fate'[e] = "written"
        /\ \A y \in DOMAIN fate : y # e => fate'[y] = fate[y]
      BY <2>1 DEF Settle
  <2>3. Emitted' = Emitted \cup {e} /\ {e} \cap Emitted = {} /\ {e} \in SUBSET DOMAIN fate
      BY <2>1, <2>2 DEF Emitted
  <2>4. IsFiniteSet({e}) /\ Cardinality({e}) = 1
      BY FS_Singleton
  <2>5. Cardinality(Emitted') = Cardinality(Emitted) + Cardinality({e})
      BY <2>3, <2>4, WrittenGrows
  <2> QED
      BY <1>0, <2>1, <2>4, <2>5
<1>7. ASSUME NEW S, NEW entries \in Seq(S), FlushGrouped(entries),
             \A i, j \in DOMAIN entries : entries[i].event = entries[j].event => i = j,
             \A i \in DOMAIN entries : entries[i].event \in DOMAIN fate /\ fate[entries[i].event] = "grouped"
      PROVE  metrics'.emitted = Cardinality(Emitted')
  <2>1. PICK E : /\ IsFiniteSet(E) /\ Cardinality(E) = Len(entries)
                 /\ E \subseteq DOMAIN fate /\ \A e \in E : fate[e] = "grouped"
                 /\ DOMAIN fate' = DOMAIN fate
                 /\ \A e \in DOMAIN fate : fate'[e] = IF e \in E THEN "writtenInGroup" ELSE fate[e]
                 /\ metrics' = [metrics EXCEPT !.emitted = @ + Len(entries)]
      BY <1>7, FlushGroupedFates
  <2>2. Emitted' = Emitted \cup E /\ E \cap Emitted = {}
      BY <2>1 DEF Emitted
  <2>3. Cardinality(Emitted') = Cardinality(Emitted) + Cardinality(E)
      BY <2>1, <2>2, WrittenGrows
  <2>4. metrics'.emitted = metrics.emitted + Len(entries)
      BY <1>0, <2>1
  <2> QED
      BY <1>0, <2>1, <2>3, <2>4
<1>8. CASE WorkerGroup
  <2> DEFINE entries == Append(grouped, [event |-> worker.event, kinds |-> worker.kinds])
  <2>1. /\ entries \in Seq(ToSet(entries))
        /\ \A i, j \in DOMAIN entries : entries[i].event = entries[j].event => i = j
        /\ \A i \in DOMAIN entries : entries[i].event \in DOMAIN fate /\ fate[entries[i].event] = "grouped"
        /\ \/ FlushGrouped(entries)
           \/ UNCHANGED <<metrics, fate>>
      BY <1>8, WorkerGroupEntries
  <2> HIDE DEF entries
  <2>2. UNCHANGED <<metrics, fate>> => metrics'.emitted = Cardinality(Emitted')
      BY <1>0 DEF Emitted
  <2> QED
      BY <1>7, <2>1, <2>2
<1>9. CASE WorkerFatalCollect \/ \E f \in Threads : FlushCollect(f)
  <2>1. FlushGrouped(grouped)
      BY <1>9 DEF WorkerFatalCollect, FlushCollect
  <2>2. grouped \in Seq(ToSet(grouped))
      BY DEF LoggerTypeOK
  <2>3. /\ \A i, j \in DOMAIN grouped : grouped[i].event = grouped[j].event => i = j
        /\ \A i \in DOMAIN grouped : grouped[i].event \in DOMAIN fate /\ fate[grouped[i].event] = "grouped"
      BY DEF InOnePlace
  <2> QED
      BY <1>7, <2>1, <2>2, <2>3
<1> QED
    BY <1>1, <1>2, <1>3, <1>4, <1>5, <1>6, <1>8, <1>9, TwoKinds DEF EventStep

\* Every accepted event is dropped, queued or still in its call.
LEMMA AcceptedStep ==
    ASSUME LoggerTypeOK, [Next]_vars, worker'.at # "aborted",
           metrics.accepted = metrics.dropped + metrics.queued + CountAt(InCall)
    PROVE  metrics'.accepted = metrics'.dropped + metrics'.queued + CountAt(InCall)'
<1>0. metrics \in [accepted : Nat, emitted : Nat, dropped : Nat, queued : Nat]
    BY DEF LoggerTypeOK
<1>1. ASSUME UNCHANGED <<producer, metrics>>
      PROVE  metrics'.accepted = metrics'.dropped + metrics'.queued + CountAt(InCall)'
    BY <1>1 DEF CountAt
<1>2. ASSUME NEW p \in Producers,
             EnqueueBegin(p) \/ EnqueueCount(p) \/ EnqueueDrop(p) \/ EnqueuePush(p)
      PROVE  metrics'.accepted = metrics'.dropped + metrics'.queued + CountAt(InCall)'
  <2>1. \A q \in Producers \ {p} : producer'[q].at = producer[q].at
      BY <1>2, ProducerSteps
  <2>2. /\ CountAt(InCall) \in Nat /\ CountAt(InCall)' \in Nat
        /\ (producer[p].at \in InCall <=> producer'[p].at \in InCall) => CountAt(InCall)' = CountAt(InCall)
        /\ producer[p].at \notin InCall /\ producer'[p].at \in InCall => CountAt(InCall)' = CountAt(InCall) + 1
        /\ producer[p].at \in InCall /\ producer'[p].at \notin InCall => CountAt(InCall) = CountAt(InCall)' + 1
      BY <2>1, CountMoves
  <2>3. CASE EnqueueBegin(p)
    <3>1. producer[p].at \notin InCall /\ producer'[p].at \in InCall
        BY <1>2, <2>3, ProducerSteps DEF InCall
    <3>2. /\ metrics'.accepted = metrics.accepted + 1 /\ metrics'.dropped = metrics.dropped
          /\ metrics'.queued = metrics.queued
        BY <1>0, <2>3 DEF EnqueueBegin
    <3> QED
        BY <1>0, <2>2, <3>1, <3>2
  <2>4. CASE EnqueueCount(p)
    <3>1. producer[p].at \in InCall /\ producer'[p].at \in InCall /\ UNCHANGED metrics
        BY <1>2, <2>4, ProducerSteps DEF InCall, EnqueueCount
    <3> QED
        BY <1>0, <2>2, <3>1
  <2>5. CASE EnqueueDrop(p)
    <3>1. producer[p].at \in InCall /\ producer'[p].at \notin InCall
        BY <1>2, <2>5, ProducerSteps DEF InCall
    <3>2. /\ metrics'.accepted = metrics.accepted /\ metrics'.dropped = metrics.dropped + 1
          /\ metrics'.queued = metrics.queued
        BY <1>0, <2>5 DEF EnqueueDrop
    <3> QED
        BY <1>0, <2>2, <3>1, <3>2
  <2>6. CASE EnqueuePush(p)
    <3>1. producer[p].at \in InCall /\ producer'[p].at \notin InCall
        BY <1>2, <2>6, ProducerSteps DEF InCall
    <3>2. /\ metrics'.accepted = metrics.accepted /\ metrics'.dropped = metrics.dropped
          /\ metrics'.queued = metrics.queued + 1
        BY <1>0, <2>6 DEF EnqueuePush
    <3> QED
        BY <1>0, <2>2, <3>1, <3>2
  <2> QED
      BY <1>2, <2>3, <2>4, <2>5, <2>6
<1>3. CASE Elsewhere
    BY <1>1, <1>3, ElsewhereEvents
<1>4. CASE WorkerTake \/ WorkerCount \/ WorkerResolve
    BY <1>1, <1>4 DEF WorkerTake, WorkerCount, WorkerResolve, queueVars
<1>5. CASE WorkerGroup \/ WorkerEmitted \/ WorkerFatalCollect \/ \E f \in Threads : FlushCollect(f)
  <2>1. UNCHANGED producer
      BY <1>5 DEF WorkerGroup, WorkerEmitted, WorkerFatalCollect, FlushCollect, queueVars
  <2>2. \/ UNCHANGED metrics
        \/ \E k : metrics' = [metrics EXCEPT !.emitted = @ + k]
      BY <1>5 DEF WorkerGroup, WorkerEmitted, WorkerFatalCollect, FlushCollect, FlushGrouped
  <2>3. /\ metrics'.accepted = metrics.accepted /\ metrics'.dropped = metrics.dropped
        /\ metrics'.queued = metrics.queued
      BY <1>0, <2>2
  <2>4. CountAt(InCall)' = CountAt(InCall)
      BY <2>1 DEF CountAt
  <2> QED
      BY <2>3, <2>4
<1>6. ASSUME WorkerAbort PROVE FALSE
    BY <1>6 DEF WorkerAbort, LoggerTypeOK
<1> QED
    BY <1>2, <1>3, <1>4, <1>5, <1>6, TwoKinds DEF EventStep

\* In the initial states nothing was logged.
LEMMA LedgerInit ==
    Init => LedgerInv
<1> SUFFICES ASSUME Init PROVE LedgerInv
    OBVIOUS
<1>1. LoggerTypeOK
    BY TypeInit
<1>2. \A p \in Producers : producer[p].at = "out" /\ producer[p].event.who = p
    BY DEF Init
<1>3. DOMAIN fate = {} /\ queue = <<>> /\ grouped = <<>> /\ worker.at = "waiting" /\ pending = 0
    BY DEF Init
<1>4. metrics.accepted = 0 /\ metrics.emitted = 0 /\ metrics.dropped = 0 /\ metrics.queued = 0
    BY DEF Init
<1>5. Numbered
    BY <1>2, <1>3 DEF Numbered
<1>6. ToSet(queue) = {} /\ IsInjective(queue) /\ DOMAIN grouped = {}
    BY <1>3 DEF ToSet, IsInjective
<1>7. InOnePlace
    BY <1>3, <1>6 DEF InOnePlace
<1>8. /\ {p \in Producers : producer[p].at \in {"dropping", "pushing"}} = {}
      /\ {p \in Producers : producer[p].at \in {"counting", "dropping", "pushing"}} = {}
      /\ Emitted = {} /\ LowPushing = {} /\ LowQueued = {} /\ Len(queue) = 0
    BY <1>2, <1>3 DEF Emitted, LowPushing, LowQueued
<1>9. Cardinality({}) = 0
    BY FS_EmptySet
<1>10. PendingExact /\ MetricsAdd
  <2>1. CountAt({"dropping", "pushing"}) = 0 /\ CountAt({"counting", "dropping", "pushing"}) = 0
      BY <1>8, <1>9 DEF CountAt
  <2>2. Cardinality(Emitted) = 0 /\ Len(queue) = 0 /\ worker.at # "taken"
      BY <1>3, <1>8, <1>9
  <2> QED
      BY <1>3, <1>4, <2>1, <2>2 DEF PendingExact, MetricsAdd
<1>11. WatermarkKept
  <2>1. \A c \in AllConfigs : c.backpressure.watermark \in Nat
      BY LoggerAssumption
  <2> QED
      BY <2>1, <1>8, <1>9 DEF WatermarkKept
<1> QED
    BY <1>1, <1>5, <1>7, <1>10, <1>11 DEF LedgerInv, Backpressure

\* Every step keeps the ledger.
LEMMA LedgerStep ==
    LedgerInv /\ [Next]_vars => LedgerInv'
<1> SUFFICES ASSUME LedgerInv, [Next]_vars PROVE LedgerInv'
    OBVIOUS
<1>1. LoggerTypeOK /\ Numbered /\ InOnePlace /\ Backpressure
    BY DEF LedgerInv
<1>2. LoggerTypeOK' /\ Numbered' /\ InOnePlace'
    BY <1>1, TypeStep, NumberedStep, OnePlaceStep
<1>3. ASSUME worker'.at # "aborted" PROVE PendingExact' /\ MetricsAdd' /\ WatermarkKept'
  <2>1. worker.at # "aborted"
    <3>1. CASE Elsewhere
        BY <1>1, <1>3, <3>1, ElsewhereEvents
    <3>2. CASE \E p \in Producers : EnqueueBegin(p) \/ EnqueueCount(p) \/ EnqueueDrop(p) \/ EnqueuePush(p)
        BY <1>1, <1>3, <3>2, ProducerSteps
    <3>3. CASE WorkerTake \/ WorkerAbort
        BY <3>3 DEF WorkerTake, WorkerAbort
    <3>4. CASE \/ WorkerCount \/ WorkerResolve \/ WorkerGroup \/ WorkerEmitted \/ WorkerFatalCollect
               \/ \E f \in Threads : FlushCollect(f)
        BY <1>1, <1>3, <3>4, WorkerSteps
    <3> QED
        BY <3>1, <3>2, <3>3, <3>4, TwoKinds DEF EventStep
  <2>2. PendingExact /\ MetricsAdd /\ WatermarkKept
      BY <1>1, <2>1 DEF Backpressure
  <2>3. PendingExact'
      BY <1>1, <1>3, <2>2, PendingStep
  <2>4. WatermarkKept'
      BY <1>1, <1>2, <1>3, <2>2, <2>3, WatermarkStep
  <2>5. metrics'.emitted = Cardinality(Emitted')
      BY <1>1, <2>2, EmittedStep DEF MetricsAdd
  <2>6. metrics'.accepted = metrics'.dropped + metrics'.queued + CountAt(InCall)'
      BY <1>1, <1>3, <2>2, AcceptedStep DEF MetricsAdd, InCall
  <2> QED
      BY <2>3, <2>4, <2>5, <2>6 DEF MetricsAdd, InCall
<1> QED
    BY <1>2, <1>3 DEF LedgerInv, Backpressure

\* Whatever the threads do, no event is lost or in two places between Enqueue and the sinks,
\* and no call takes an event again that is already known (Enqueue, StartAsyncWorker, LogEventNow).
THEOREM EventsInOnePlace ==
    Spec => [](LoggerTypeOK /\ Numbered /\ InOnePlace)
<1>1. Spec => []LedgerInv
    BY LedgerInit, LedgerStep, PTL DEF Spec
<1>2. LedgerInv => LoggerTypeOK /\ Numbered /\ InOnePlace
    BY DEF LedgerInv
<1> QED
    BY <1>1, <1>2, PTL

\* The counter of the backpressure is exact, the metrics add up and the watermark is kept, for
\* every number of producers and however the configuration changes while they log.
THEOREM BackpressureHolds ==
    Spec => []Backpressure
<1>1. Spec => []LedgerInv
    BY LedgerInit, LedgerStep, PTL DEF Spec
<1>2. LedgerInv => Backpressure
    BY DEF LedgerInv
<1> QED
    BY <1>1, <1>2, PTL

------------------------------------------------------------------------------
(* Sinks. *)

\* The list of a finite set has its elements.
LEMMA ListOfSet ==
    ASSUME NEW S, IsFiniteSet(S)
    PROVE  SetToSeq(S) \in Seq(S) /\ ToSet(SetToSeq(S)) = S
<1> DEFINE n == Cardinality(S)
           f == SetToSeq(S)
<1>1. n \in Nat /\ IsFiniteSet(1..n) /\ Cardinality(1..n) = n
  <2>1. n \in Nat
      BY FS_CardinalityType
  <2>2. 1 \in Int /\ n \in Int /\ (1 > n => n = 0)
      BY <2>1
  <2> QED
      BY <2>1, <2>2, FS_Interval
<1>2. PICK g \in Bijection(1..n, S) : TRUE
    BY <1>1, FS_SameCardinalityBij DEF ExistsBijection
<1>3. \E h \in [1..Cardinality(S) -> S] : IsInjective(h)
    BY <1>2 DEF Bijection, Injection, IsInjective
<1>4. f \in [1..Cardinality(S) -> S] /\ IsInjective(f)
    BY <1>3 DEF SetToSeq
<1> HIDE DEF f
<1>5. f \in Injection(1..n, S)
    BY <1>4, Fun_IsInj DEF IsInjective
<1>6. f \in Surjection(1..n, S)
    BY <1>1, <1>5, FS_Injection
<1>7. \A s \in S : \E i \in 1..n : f[i] = s
    BY <1>6 DEF Surjection
<1>8. ToSet(f) = S
    BY <1>4, <1>7 DEF ToSet
<1>9. f \in Seq(S)
    BY <1>1, <1>4, IsASeq
<1> QED
    BY <1>8, <1>9 DEF f

\* There are finitely many sinks in use.
LEMMA SinksInUse ==
    ASSUME SinksOK
    PROVE  AllSinks(router) \in SUBSET Sinks /\ IsFiniteSet(AllSinks(router))
<1>1. AllSinks(router) \subseteq Sinks
  <2>1. \A l \in Severities : router.byLevel[l] \in Seq(Sinks)
      BY DEF SinksOK
  <2>2. \A q \in Seq(Sinks) : ToSet(q) \subseteq Sinks
      BY LenProperties DEF ToSet
  <2> QED
      BY <2>1, <2>2 DEF SinksOK, AllSinks
<1> DEFINE K == {[kind |-> "console", gen |-> gen], [kind |-> "file", gen |-> gen], [kind |-> "level", gen |-> gen]}
<1>2. AllSinks(router) \subseteq K
    BY <1>1 DEF SinksOK, Sinks, Kinds
<1>3. IsFiniteSet(K)
  <2>1. ASSUME NEW a, NEW b, NEW c PROVE IsFiniteSet({a, b, c})
    <3>1. {a, b, c} = {a} \cup {b} \cup {c}
        OBVIOUS
    <3>2. IsFiniteSet({a} \cup {b} \cup {c})
        BY FS_Singleton, FS_Union
    <3> QED
        BY <3>1, <3>2, Zenon
  <2> QED
      BY <2>1
<1> QED
    BY <1>1, <1>2, <1>3, FS_Subset

\* A routing has sinks of its own.
LEMMA NewRouting ==
    ASSUME NEW c, NEW g \in 0..MaxGen
    PROVE  LET r == ApplyRouting(c, g) IN
           /\ r.defaults \in Seq(Sinks) /\ r.byLevel \in [Severities -> Seq(Sinks)]
           /\ \A s \in AllSinks(r) : s.gen = g
<1> DEFINE T == {s \in Sinks : s.gen = g}
           a == IF "console" \in c.kinds THEN <<[kind |-> "console", gen |-> g]>> ELSE <<>>
           b == IF "file" \in c.kinds THEN <<[kind |-> "file", gen |-> g]>> ELSE <<>>
           r == ApplyRouting(c, g)
<1>1. [kind |-> "console", gen |-> g] \in T /\ [kind |-> "file", gen |-> g] \in T
    BY DEF Sinks, Kinds
<1> HIDE DEF T
<1>2. a \in Seq(T) /\ b \in Seq(T)
    BY <1>1
<1>3. r.defaults = a \o b /\ r.byLevel = [l \in Severities |-> <<>>]
    BY DEF ApplyRouting
<1> HIDE DEF a, b, r
<1>4. r.defaults \in Seq(T)
    BY <1>2, <1>3, ConcatProperties
<1>5. \A q \in Seq(T) : ToSet(q) \subseteq T /\ q \in Seq(Sinks)
  <2> SUFFICES ASSUME NEW q \in Seq(T) PROVE ToSet(q) \subseteq T /\ q \in Seq(Sinks)
      OBVIOUS
  <2>1. Len(q) \in Nat /\ q \in [1..Len(q) -> T]
      BY LenProperties
  <2>2. q \in [1..Len(q) -> Sinks]
      BY <2>1 DEF T
  <2> QED
      BY <2>1, <2>2, IsASeq DEF ToSet
<1>6. \A l \in Severities : r.byLevel[l] = <<>>
    BY <1>3
<1>7. ToSet(<<>>) = {}
    BY DEF ToSet
<1>8. AllSinks(r) \subseteq T
  <2>1. UNION {ToSet(r.byLevel[l]) : l \in Severities} = {}
      BY <1>6, <1>7
  <2> QED
      BY <1>4, <1>5, <2>1 DEF AllSinks
<1>9. r.byLevel \in [Severities -> Seq(Sinks)]
    BY <1>3
<1> QED
    BY <1>4, <1>5, <1>8, <1>9 DEF r, T

\* What reconfiguration does to the sinks: those in use are replaced by new ones, or one is added
\* that was never in use before.
RouterGrows ==
    /\ gen' \in 0..MaxGen /\ gen <= gen'
    /\ router'.defaults \in Seq(Sinks) /\ router'.byLevel \in [Severities -> Seq(Sinks)]
    /\ \A s \in AllSinks(router') : s.gen = gen'
    /\ \A s \in Sinks : WasRouted(s) => WasRouted(s)'
    /\ \A s \in AllSinks(router') : s \in AllSinks(router) \/ ~WasRouted(s)

\* Every step is of that kind.
LEMMA RouterStep ==
    ASSUME SinksOK, [Next]_vars
    PROVE  RouterGrows
<1>0. gen \in Nat /\ MaxGen \in Nat /\ gen \in 0..MaxGen /\ \A s \in AllSinks(router) : s.gen = gen
    BY LoggerAssumption DEF SinksOK
<1>1. ASSUME UNCHANGED <<router, gen>> PROVE RouterGrows
    BY <1>0, <1>1 DEF RouterGrows, SinksOK, WasRouted
<1>2. ASSUME NEW c, gen < MaxGen, gen' = gen + 1, router' = ApplyRouting(c, gen + 1) PROVE RouterGrows
  <2>1. gen + 1 \in 0..MaxGen
      BY <1>0, <1>2
  <2>2. /\ router'.defaults \in Seq(Sinks) /\ router'.byLevel \in [Severities -> Seq(Sinks)]
        /\ \A s \in AllSinks(router') : s.gen = gen + 1
      BY <1>2, <2>1, NewRouting
  <2>3. \A s \in Sinks : WasRouted(s) => s.gen < gen + 1
      BY <1>0 DEF WasRouted, Sinks
  <2>4. \A s \in AllSinks(router') : ~WasRouted(s)
      BY <1>0, <2>2 DEF WasRouted
  <2> QED
      BY <1>0, <1>2, <2>1, <2>2, <2>3, <2>4 DEF RouterGrows, WasRouted
<1>3. ASSUME NEW l \in LevelSinks, AddLevelSink(l) PROVE RouterGrows
  <2> DEFINE x == [kind |-> "level", gen |-> gen]
  <2>1. /\ UNCHANGED gen /\ router.byLevel[l] = <<>> /\ router' = [router EXCEPT !.byLevel[l] = <<x>>]
        /\ l \in Severities
      BY <1>3, LoggerAssumption DEF AddLevelSink
  <2>2. x \in Sinks /\ x.gen = gen
      BY <1>0 DEF Sinks, Kinds
  <2> HIDE DEF x
  <2>3. /\ router'.defaults = router.defaults
        /\ router'.byLevel = [router.byLevel EXCEPT ![l] = <<x>>]
      BY <2>1 DEF SinksOK
  <2>4. router'.byLevel \in [Severities -> Seq(Sinks)] /\ router'.byLevel[l] = <<x>>
      BY <2>1, <2>2, <2>3 DEF SinksOK
  <2>5. \A k \in Severities : k # l => router'.byLevel[k] = router.byLevel[k]
      BY <2>3 DEF SinksOK
  <2>6. ToSet(<<>>) = {} /\ ToSet(<<x>>) = {x}
      BY DEF ToSet
  <2>7. AllSinks(router') = AllSinks(router) \cup {x}
      BY <2>1, <2>3, <2>4, <2>5, <2>6 DEF AllSinks
  <2>8. x \in AllSinks(router) \/ ~WasRouted(x)
      BY <1>0, <2>2 DEF WasRouted
  <2>9. \A s \in AllSinks(router') : s.gen = gen'
      BY <1>0, <2>1, <2>2, <2>7
  <2>10. \A s \in Sinks : WasRouted(s) => WasRouted(s)'
      BY <2>1, <2>7 DEF WasRouted
  <2>11. router'.defaults \in Seq(Sinks)
      BY <2>3 DEF SinksOK
  <2>12. \A s \in AllSinks(router') : s \in AllSinks(router) \/ ~WasRouted(s)
      BY <2>7, <2>8
  <2> QED
      BY <1>0, <2>1, <2>4, <2>9, <2>10, <2>11, <2>12 DEF RouterGrows
<1>4. EventStep => UNCHANGED <<router, gen>>
    BY DEF EventStep, EnqueueBegin, EnqueueCount, EnqueueDrop, EnqueuePush, WorkerTake, WorkerCount,
           WorkerResolve, WorkerGroup, WorkerEmitted, WorkerFatalCollect, WorkerAbort, FlushCollect, routeVars
<1>5. Elsewhere => \/ UNCHANGED <<router, gen>>
                   \/ \E c \in Configs : ApplyConfigV2(c)
                   \/ \E kinds \in OutputKinds : SetOutputEnabled(kinds)
                   \/ \E l \in LevelSinks : AddLevelSink(l)
    BY DEF Elsewhere, WorkerSinks, WorkerWrite, WorkerFatalFlush, WorkerFatalEnd, WorkerDone, WorkerExit,
           PeriodicTick, StopPeriodicFlush, JoinPeriodicFlush, StartPeriodicFlush, StopAsyncWorker,
           JoinAsyncWorker, Close, FlushDrained, FlushSink, FlushEnd, FlushBegin, AddLevelSink, vars, routeVars
<1>6. ASSUME NEW c \in Configs, ApplyConfigV2(c) PROVE RouterGrows
    BY <1>2, <1>6 DEF ApplyConfigV2
<1>7. ASSUME NEW kinds \in OutputKinds, SetOutputEnabled(kinds) PROVE RouterGrows
    BY <1>2, <1>7 DEF SetOutputEnabled
<1> QED
    BY <1>1, <1>3, <1>4, <1>5, <1>6, <1>7, TwoKinds

\* Two lists, one after the other.
LEMMA JoinedLists ==
    ASSUME NEW S, NEW a \in Seq(S), NEW b \in Seq(S)
    PROVE  /\ a \o b \in Seq(S)
           /\ DOMAIN a = 1..Len(a) /\ DOMAIN b = 1..Len(b) /\ DOMAIN (a \o b) = 1..(Len(a) + Len(b))
           /\ Len(a) \in Nat /\ Len(b) \in Nat
           /\ \A i \in DOMAIN (a \o b) :
                 \/ i \in DOMAIN a /\ (a \o b)[i] = a[i]
                 \/ i - Len(a) \in DOMAIN b /\ (a \o b)[i] = b[i - Len(a)] /\ i \notin DOMAIN a
           /\ ToSet(a \o b) \subseteq ToSet(a) \cup ToSet(b)
<1>1. /\ a \o b \in Seq(S) /\ Len(a \o b) = Len(a) + Len(b)
      /\ \A i \in 1..(Len(a) + Len(b)) : (a \o b)[i] = IF i <= Len(a) THEN a[i] ELSE b[i - Len(a)]
    BY ConcatProperties
<1>2. /\ DOMAIN a = 1..Len(a) /\ DOMAIN b = 1..Len(b) /\ DOMAIN (a \o b) = 1..(Len(a) + Len(b))
      /\ Len(a) \in Nat /\ Len(b) \in Nat
    BY <1>1, LenProperties
<1>3. \A i \in DOMAIN (a \o b) :
          \/ i \in DOMAIN a /\ (a \o b)[i] = a[i]
          \/ i - Len(a) \in DOMAIN b /\ (a \o b)[i] = b[i - Len(a)] /\ i \notin DOMAIN a
    BY <1>1, <1>2
<1>4. ToSet(a \o b) \subseteq ToSet(a) \cup ToSet(b)
    BY <1>3 DEF ToSet
<1> QED
    BY <1>1, <1>2, <1>3, <1>4

\* The sinks of a level are in use.
LEMMA SinksOfLevel ==
    ASSUME SinksOK, NEW l \in Severities
    PROVE  /\ SinksOf(router, l) \in Seq(Sinks)
           /\ ToSet(SinksOf(router, l)) \subseteq AllSinks(router)
<1>1. router.defaults \in Seq(Sinks) /\ router.byLevel[l] \in Seq(Sinks)
    BY DEF SinksOK
<1>2. /\ ToSet(router.defaults) \subseteq AllSinks(router)
      /\ ToSet(router.byLevel[l]) \subseteq AllSinks(router)
    BY DEF AllSinks
<1> QED
    BY <1>1, <1>2, JoinedLists DEF SinksOf

\* What a step does to the fates: they come to an end, and new ones begin.
FatesGrow ==
    /\ DOMAIN fate \subseteq DOMAIN fate'
    /\ \A e \in DOMAIN fate :
          /\ fate[e] \in Settled => fate'[e] = fate[e]
          /\ fate[e] = "mixed" => fate'[e] \in {"mixed", "written"}
          /\ fate[e] = "queued" => fate'[e] = "queued" \/ InHand(e, {"resolving"})
          /\ InGroup(e) => InGroup(e)' \/ fate'[e] = "writtenInGroup"
    /\ \A e \in DOMAIN fate' :
          \/ e \in DOMAIN fate
          \/ fate'[e] \in {"dropped", "queued"} /\ \E p \in Producers : producer[p].at \in InCall

\* Every step is of that kind.
LEMMA FatesStep ==
    ASSUME LoggerTypeOK, Numbered, InOnePlace, [Next]_vars
    PROVE  FatesGrow
<1>1. ASSUME UNCHANGED <<grouped, fate>> PROVE FatesGrow
    BY <1>1 DEF FatesGrow, InGroup
<1>2. CASE Elsewhere
    BY <1>1, <1>2, ElsewhereEvents
<1>3. ASSUME NEW p \in Producers, EnqueueBegin(p) \/ EnqueueCount(p) PROVE FatesGrow
    BY <1>1, <1>3 DEF EnqueueBegin, EnqueueCount
<1>4. CASE WorkerTake \/ WorkerCount \/ WorkerAbort
    BY <1>1, <1>4 DEF WorkerTake, WorkerCount, WorkerAbort
<1>5. ASSUME NEW p \in Producers, EnqueueDrop(p) \/ EnqueuePush(p) PROVE FatesGrow
  <2> DEFINE x == producer[p].event
  <2>0. /\ producer[p].at \in InCall /\ UNCHANGED grouped
        /\ \E what \in {"dropped", "queued"} : Settle({x}, what)
      BY <1>5 DEF EnqueueDrop, EnqueuePush, InCall
  <2>1. x \notin DOMAIN fate
      BY <2>0, NewEvent
  <2> HIDE DEF x
  <2>2. /\ DOMAIN fate' = DOMAIN fate \cup {x} /\ fate'[x] \in {"dropped", "queued"}
        /\ \A e \in DOMAIN fate : fate'[e] = fate[e]
      BY <2>0, <2>1 DEF Settle
  <2> QED
      BY <2>0, <2>1, <2>2 DEF FatesGrow, InGroup
<1>6. CASE WorkerResolve \/ WorkerEmitted
  <2> DEFINE e == worker.event
  <2>1. /\ e \in DOMAIN fate /\ fate[e] \in {"queued", "mixed"} /\ UNCHANGED grouped
        /\ fate[e] = "queued" => worker.at = "resolving"
        /\ \E what : Settle({e}, what) /\ (fate[e] = "mixed" => what = "written")
    <3>1. CASE WorkerResolve
      <4>1. /\ e \in DOMAIN fate /\ fate[e] = "queued" /\ worker.at = "resolving"
            /\ UNCHANGED grouped /\ \E what : Settle({e}, what)
          BY <3>1 DEF WorkerResolve, InOnePlace
      <4> QED
          BY <4>1
    <3>2. CASE WorkerEmitted
      <4>1. e \in DOMAIN fate /\ fate[e] = "mixed" /\ UNCHANGED grouped /\ Settle({e}, "written")
          BY <3>2 DEF WorkerEmitted, InOnePlace
      <4> QED
          BY <4>1
    <3> QED
        BY <1>6, <3>1, <3>2
  <2>2. ~InGroup(e)
      BY <2>1 DEF InOnePlace, InGroup
  <2> HIDE DEF e
  <2>3. /\ DOMAIN fate' = DOMAIN fate /\ (fate[e] = "mixed" => fate'[e] = "written")
        /\ \A y \in DOMAIN fate : y # e => fate'[y] = fate[y]
      BY <2>1 DEF Settle
  <2>4. fate[e] \notin Settled /\ (fate[e] = "queued" => InHand(e, {"resolving"}))
      BY <2>1 DEF Settled, InHand, e
  <2> QED
      BY <2>1, <2>2, <2>3, <2>4 DEF FatesGrow, InGroup
<1>7. ASSUME NEW S, NEW entries \in Seq(S), FlushGrouped(entries),
             \A i, j \in DOMAIN entries : entries[i].event = entries[j].event => i = j,
             \A i \in DOMAIN entries : entries[i].event \in DOMAIN fate /\ fate[entries[i].event] = "grouped",
             \A e : InGroup(e) => \E i \in DOMAIN entries : entries[i].event = e
      PROVE  FatesGrow
  <2>1. PICK E : /\ \A e \in E : fate[e] = "grouped"
                 /\ \A e : e \in E <=> \E i \in DOMAIN entries : entries[i].event = e
                 /\ DOMAIN fate' = DOMAIN fate
                 /\ \A e \in DOMAIN fate : fate'[e] = IF e \in E THEN "writtenInGroup" ELSE fate[e]
      BY <1>7, FlushGroupedFates
  <2>2. \A e : InGroup(e) => e \in E
      BY <1>7, <2>1
  <2> QED
      BY <2>1, <2>2 DEF FatesGrow, Settled
<1>8. CASE WorkerGroup
  <2> DEFINE entries == Append(grouped, [event |-> worker.event, kinds |-> worker.kinds])
  <2>1. /\ entries \in Seq(ToSet(entries))
        /\ \A i, j \in DOMAIN entries : entries[i].event = entries[j].event => i = j
        /\ \A i \in DOMAIN entries : entries[i].event \in DOMAIN fate /\ fate[entries[i].event] = "grouped"
        /\ \A e : (\E i \in DOMAIN entries : entries[i].event = e) <=> (InGroup(e) \/ e = worker.event)
        /\ \/ FlushGrouped(entries)
           \/ grouped' = entries /\ UNCHANGED <<metrics, fate>>
      BY <1>8, WorkerGroupEntries
  <2> HIDE DEF entries
  <2>2. CASE FlushGrouped(entries)
      BY <1>7, <2>1, <2>2
  <2>3. CASE grouped' = entries /\ UNCHANGED <<metrics, fate>>
      BY <2>1, <2>3 DEF FatesGrow, InGroup
  <2> QED
      BY <2>1, <2>2, <2>3
<1>9. CASE WorkerFatalCollect \/ \E f \in Threads : FlushCollect(f)
  <2>1. FlushGrouped(grouped)
      BY <1>9 DEF WorkerFatalCollect, FlushCollect
  <2>2. /\ grouped \in Seq(ToSet(grouped))
        /\ \A i, j \in DOMAIN grouped : grouped[i].event = grouped[j].event => i = j
        /\ \A i \in DOMAIN grouped : grouped[i].event \in DOMAIN fate /\ fate[grouped[i].event] = "grouped"
      BY DEF LoggerTypeOK, InOnePlace
  <2>3. \A e : InGroup(e) => \E i \in DOMAIN grouped : grouped[i].event = e
      BY DEF InGroup
  <2> QED
      BY <1>7, <2>1, <2>2, <2>3
<1> QED
    BY <1>2, <1>3, <1>4, <1>5, <1>6, <1>8, <1>9, TwoKinds DEF EventStep

\* What a step adds to the buffers of the sinks: lines that are being written, to sinks in use.
BuffersGrow ==
    /\ unflushed' \in [Sinks -> SUBSET DOMAIN fate']
    /\ \A s \in Sinks : \A e \in unflushed'[s] :
          \/ e \in unflushed[s]
          \/ WasRouted(s) /\ e \in DOMAIN fate /\ fate[e] \in {"mixed", "grouped"}
                          /\ fate'[e] \in {"mixed", "writtenInGroup"}

\* Grouped lines go to the sinks of their level.
LEMMA GroupBuffers ==
    ASSUME LoggerTypeOK, InOnePlace, SinksOK, NEW S, NEW entries \in Seq(S), FlushGrouped(entries),
           \A i, j \in DOMAIN entries : entries[i].event = entries[j].event => i = j,
           \A i \in DOMAIN entries :
               entries[i].event \in DOMAIN fate /\ fate[entries[i].event] = "grouped"
    PROVE  BuffersGrow
<1>1. PICK E : /\ \A e \in E : fate[e] = "grouped"
               /\ E \subseteq DOMAIN fate
               /\ \A e : e \in E <=> \E i \in DOMAIN entries : entries[i].event = e
               /\ DOMAIN fate' = DOMAIN fate
               /\ \A e \in DOMAIN fate : fate'[e] = IF e \in E THEN "writtenInGroup" ELSE fate[e]
    BY FlushGroupedFates
<1>2. unflushed' = [s \in Sinks |-> unflushed[s] \cup {x.event : x \in {y \in ToSet(entries) : GoesTo(y, s)}}]
    BY DEF FlushGrouped
<1>3. ASSUME NEW s \in Sinks, NEW x \in ToSet(entries), GoesTo(x, s)
      PROVE  WasRouted(s) /\ x.event \in E
  <2>1. x.event \in E
      BY <1>1, <1>3 DEF ToSet
  <2>2. x.event.level \in Severities
      BY <1>1, <2>1 DEF LoggerTypeOK, EventType
  <2>3. s \in AllSinks(router)
      BY <1>3, <2>2, SinksOfLevel DEF GoesTo
  <2> QED
      BY <2>1, <2>3 DEF WasRouted
<1>4. \A s \in Sinks : \A e \in unflushed'[s] : e \in unflushed[s] \/ (WasRouted(s) /\ e \in E)
    BY <1>2, <1>3
<1>5. unflushed \in [Sinks -> SUBSET DOMAIN fate]
    BY DEF SinksOK
<1>6. unflushed' \in [Sinks -> SUBSET DOMAIN fate']
    BY <1>1, <1>2, <1>4, <1>5
<1> QED
    BY <1>1, <1>4, <1>6 DEF BuffersGrow

\* Every step is of that kind.
LEMMA BuffersStep ==
    ASSUME LoggerTypeOK, Numbered, InOnePlace, SinksOK, [Next]_vars
    PROVE  BuffersGrow
<1>0. FatesGrow /\ unflushed \in [Sinks -> SUBSET DOMAIN fate]
    BY FatesStep DEF SinksOK
<1>1. ASSUME UNCHANGED unflushed PROVE BuffersGrow
    BY <1>0, <1>1 DEF BuffersGrow, FatesGrow
<1>2. ASSUME NEW s \in Sinks, unflushed' = [unflushed EXCEPT ![s] = {}] PROVE BuffersGrow
    BY <1>0, <1>2 DEF BuffersGrow, FatesGrow
<1>3. CASE WorkerWrite
  <2> DEFINE s == Head(worker.sinks)
             e == worker.event
  <2>1. /\ worker.at = "writing" /\ worker.sinks # <<>> /\ UNCHANGED fate
        /\ \/ unflushed' = [unflushed EXCEPT ![s] = @ \cup {e}]
           \/ UNCHANGED unflushed
      BY <1>3 DEF WorkerWrite, outVars
  <2>2. e \in DOMAIN fate /\ fate[e] = "mixed"
      BY <2>1 DEF InOnePlace
  <2>3. s \in Sinks /\ WasRouted(s)
      BY <2>1, TailOfList DEF SinksOK
  <2> HIDE DEF s, e
  <2> QED
      BY <1>0, <1>1, <2>1, <2>2, <2>3 DEF BuffersGrow
<1>4. CASE WorkerFatalFlush
  <2>1. /\ worker.at = "flushing" /\ worker.sinks # <<>>
        /\ unflushed' = [unflushed EXCEPT ![Head(worker.sinks)] = {}]
      BY <1>4 DEF WorkerFatalFlush
  <2>2. Head(worker.sinks) \in Sinks
      BY <2>1, TailOfList DEF SinksOK
  <2> QED
      BY <1>2, <2>1, <2>2
<1>5. ASSUME NEW f \in Threads, FlushSink(f) PROVE BuffersGrow
  <2>1. /\ flush[f].sinks # <<>> /\ flush[f].sinks \in Seq(Sinks)
        /\ unflushed' = [unflushed EXCEPT ![Head(flush[f].sinks)] = {}]
      BY <1>5 DEF FlushSink, SinksOK
  <2>2. Head(flush[f].sinks) \in Sinks
      BY <2>1, TailOfList
  <2> QED
      BY <1>2, <2>1, <2>2
<1>6. CASE WorkerGroup
  <2> DEFINE entries == Append(grouped, [event |-> worker.event, kinds |-> worker.kinds])
  <2>1. /\ entries \in Seq(ToSet(entries))
        /\ \A i, j \in DOMAIN entries : entries[i].event = entries[j].event => i = j
        /\ \A i \in DOMAIN entries : entries[i].event \in DOMAIN fate /\ fate[entries[i].event] = "grouped"
        /\ \A e : (\E i \in DOMAIN entries : entries[i].event = e) <=> (InGroup(e) \/ e = worker.event)
        /\ \/ FlushGrouped(entries)
           \/ grouped' = entries /\ UNCHANGED <<metrics, fate>>
      BY <1>6, WorkerGroupEntries
  <2>2. FlushGrouped(entries) \/ UNCHANGED unflushed
      BY <1>6 DEF WorkerGroup, outVars
  <2> HIDE DEF entries
  <2> QED
      BY <1>1, <2>1, <2>2, GroupBuffers
<1>7. CASE WorkerFatalCollect \/ \E f \in Threads : FlushCollect(f)
  <2>1. FlushGrouped(grouped)
      BY <1>7 DEF WorkerFatalCollect, FlushCollect
  <2>2. /\ grouped \in Seq(ToSet(grouped))
        /\ \A i, j \in DOMAIN grouped : grouped[i].event = grouped[j].event => i = j
        /\ \A i \in DOMAIN grouped : grouped[i].event \in DOMAIN fate /\ fate[grouped[i].event] = "grouped"
      BY DEF LoggerTypeOK, InOnePlace
  <2> QED
      BY <2>1, <2>2, GroupBuffers
<1>8. Elsewhere => \/ UNCHANGED unflushed
                   \/ WorkerWrite \/ WorkerFatalFlush
                   \/ \E f \in Threads : FlushSink(f)
    BY DEF Elsewhere, WorkerSinks, WorkerFatalEnd, WorkerDone, WorkerExit,
           PeriodicTick, StopPeriodicFlush, JoinPeriodicFlush, StartPeriodicFlush, StopAsyncWorker,
           JoinAsyncWorker, Close, FlushDrained, FlushEnd, FlushBegin, AddLevelSink, ApplyConfigV2,
           SetOutputEnabled, vars, outVars
<1>9. EventStep => \/ UNCHANGED unflushed
                   \/ WorkerGroup
                   \/ WorkerFatalCollect \/ \E f \in Threads : FlushCollect(f)
    BY DEF EventStep, EnqueueBegin, EnqueueCount, EnqueueDrop, EnqueuePush, WorkerTake, WorkerCount,
           WorkerResolve, WorkerEmitted, WorkerAbort, outVars
<1> QED
    BY <1>1, <1>3, <1>4, <1>5, <1>6, <1>7, <1>8, <1>9, TwoKinds

\* Flushed is flushed: what no longer changes is in no buffer that did not have it before, and a
\* new event is in none.
LEMMA OnlyFlushed ==
    ASSUME SinksOK, RouterGrows, BuffersGrow
    PROVE  /\ \A e \in DOMAIN fate : fate[e] \in Settled =>
                 \A s \in AllSinks(router') : e \in unflushed'[s] => s \in AllSinks(router) /\ e \in unflushed[s]
           /\ \A e : e \notin DOMAIN fate => \A s \in AllSinks(router') : e \notin unflushed'[s]
<1>1. \A s \in AllSinks(router') : s \in Sinks
  <2>1. \A q \in Seq(Sinks) : ToSet(q) \subseteq Sinks
      BY LenProperties DEF ToSet
  <2> QED
      BY <2>1 DEF RouterGrows, AllSinks
<1>2. ASSUME NEW s \in AllSinks(router'), NEW e \in unflushed'[s],
             e \in DOMAIN fate => fate[e] \in Settled
      PROVE  s \in AllSinks(router) /\ e \in unflushed[s]
  <2>1. e \in unflushed[s]
      BY <1>1, <1>2 DEF BuffersGrow, Settled
  <2>2. WasRouted(s)
      BY <1>1, <2>1 DEF SinksOK
  <2> QED
      BY <2>1, <2>2 DEF RouterGrows
<1>3. \A s \in AllSinks(router') : \A e \in unflushed'[s] : e \in DOMAIN fate \/ e \in unflushed[s]
    BY <1>1 DEF BuffersGrow
<1>4. \A s \in Sinks : unflushed[s] \subseteq DOMAIN fate
    BY DEF SinksOK
<1> QED
    BY <1>1, <1>2, <1>3, <1>4

\* Where the flush calls are, and the sinks they have left.
LEMMA FlushType ==
    ASSUME SinksOK, [Next]_vars
    PROVE  flush' \in [Threads -> [at : {"out", "draining", "collecting", "flushing", "returned", "dead"},
                                   sinks : Seq(Sinks)]]
<1> DEFINE Places == {"out", "draining", "collecting", "flushing", "returned", "dead"}
           T == [Threads -> [at : Places, sinks : Seq(Sinks)]]
<1>1. flush \in T
    BY DEF SinksOK
<1>2. <<>> \in Seq(Sinks)
    OBVIOUS
<1>3. ASSUME NEW f \in Threads, FlushStart(f) PROVE flush' \in T
    BY <1>1, <1>2, <1>3 DEF FlushStart
<1>4. ASSUME NEW f \in Threads, FlushDrained(f) \/ FlushEnd(f) PROVE flush' \in T
    BY <1>1, <1>4 DEF FlushDrained, FlushEnd
<1>5. ASSUME NEW f \in Threads, FlushCollect(f) PROVE flush' \in T
  <2>1. SetToSeq(AllSinks(router)) \in Seq(Sinks)
      BY SinksInUse, ListOfSet
  <2> QED
      BY <1>1, <1>5, <2>1 DEF FlushCollect
<1>6. ASSUME NEW f \in Threads, FlushSink(f) PROVE flush' \in T
  <2>1. flush[f].sinks # <<>> /\ flush' = [flush EXCEPT ![f].sinks = Tail(@)]
      BY <1>6 DEF FlushSink
  <2>2. Tail(flush[f].sinks) \in Seq(Sinks)
      BY <1>1, <2>1, TailOfList
  <2> QED
      BY <1>1, <2>1, <2>2
<1>7. CASE WorkerAbort
    BY <1>2, <1>7 DEF WorkerAbort
<1>8. Elsewhere => \/ UNCHANGED flush
                   \/ \E f \in Threads : FlushStart(f) \/ FlushDrained(f) \/ FlushEnd(f) \/ FlushSink(f)
    BY DEF Elsewhere, WorkerSinks, WorkerWrite, WorkerFatalFlush, WorkerFatalEnd, WorkerDone, WorkerExit,
           PeriodicTick, StopPeriodicFlush, JoinPeriodicFlush, StartPeriodicFlush, StopAsyncWorker,
           JoinAsyncWorker, Close, FlushBegin, AddLevelSink, ApplyConfigV2,
           SetOutputEnabled, vars, flushVars, Threads
<1>9. EventStep => \/ UNCHANGED flush
                   \/ WorkerAbort
                   \/ \E f \in Threads : FlushCollect(f)
    BY DEF EventStep, EnqueueBegin, EnqueueCount, EnqueueDrop, EnqueuePush, WorkerTake, WorkerCount,
           WorkerResolve, WorkerGroup, WorkerEmitted, WorkerFatalCollect, flushVars
<1> QED
    BY <1>1, <1>3, <1>4, <1>5, <1>6, <1>7, <1>8, <1>9, TwoKinds

\* The sinks the worker has left were in use when it took them.
LEMMA WorkerSinksStep ==
    ASSUME LoggerTypeOK, InOnePlace, SinksOK, [Next]_vars
    PROVE  worker'.at \in {"writing", "flushing"} =>
              worker'.sinks \in Seq(Sinks) /\ \A s \in ToSet(worker'.sinks) : WasRouted(s)
<1> DEFINE Good(w) == w.at \in {"writing", "flushing"} =>
                          w.sinks \in Seq(Sinks) /\ \A s \in ToSet(w.sinks) : WasRouted(s)
<1>1. Good(worker)
    BY DEF SinksOK
<1>2. CASE worker' = worker
    BY <1>1, <1>2
<1>3. CASE worker'.at \notin {"writing", "flushing"}
    BY <1>3
<1>4. CASE WorkerSinks
  <2>1. worker.event.level \in Severities /\ worker'.sinks = SinksOf(router, worker.event.level)
      BY <1>4 DEF WorkerSinks, LoggerTypeOK, EventType, Busy
  <2>2. \A s \in AllSinks(router) : WasRouted(s)
      BY DEF WasRouted
  <2> QED
      BY <2>1, <2>2, SinksOfLevel
<1>5. CASE WorkerWrite \/ WorkerFatalFlush
  <2>1. /\ worker.at \in {"writing", "flushing"} /\ worker.sinks # <<>>
        /\ worker' = [worker EXCEPT !.sinks = Tail(@)]
        /\ DOMAIN worker = {"at", "event", "kinds", "sinks"}
      BY <1>5 DEF WorkerWrite, WorkerFatalFlush, LoggerTypeOK, Busy
  <2>2. worker'.sinks = Tail(worker.sinks)
      BY <2>1
  <2>3. Tail(worker.sinks) \in Seq(Sinks) /\ ToSet(Tail(worker.sinks)) \subseteq ToSet(worker.sinks)
      BY <1>1, <2>1, TailOfList
  <2> QED
      BY <1>1, <2>1, <2>2, <2>3
<1>6. CASE WorkerFatalCollect
  <2>1. worker'.sinks = SetToSeq(AllSinks(router))
      BY <1>6 DEF WorkerFatalCollect, LoggerTypeOK, Busy
  <2>2. \A s \in AllSinks(router) : WasRouted(s)
      BY DEF WasRouted
  <2> QED
      BY <2>1, <2>2, SinksInUse, ListOfSet
<1>7. Elsewhere => \/ worker' = worker
                   \/ worker'.at \notin {"writing", "flushing"}
                   \/ WorkerSinks \/ WorkerWrite \/ WorkerFatalFlush
    BY DEF Elsewhere, WorkerFatalEnd, WorkerDone, WorkerExit, LoggerTypeOK,
           PeriodicTick, StopPeriodicFlush, JoinPeriodicFlush, StartPeriodicFlush, StopAsyncWorker,
           JoinAsyncWorker, Close, FlushDrained, FlushSink, FlushEnd, FlushBegin, AddLevelSink, ApplyConfigV2,
           SetOutputEnabled, vars
<1>8. EventStep => \/ worker' = worker
                   \/ worker'.at \notin {"writing", "flushing"}
                   \/ WorkerFatalCollect
  <2>1. WorkerResolve \/ WorkerEmitted => worker'.at \notin {"writing", "flushing"}
      BY DEF WorkerResolve, WorkerEmitted, LoggerTypeOK
  <2>2. WorkerTake \/ WorkerCount \/ WorkerGroup \/ WorkerAbort => worker'.at \notin {"writing", "flushing"}
      BY DEF WorkerTake, WorkerCount, WorkerGroup, WorkerAbort, LoggerTypeOK
  <2> QED
      BY <2>1, <2>2 DEF EventStep, EnqueueBegin, EnqueueCount, EnqueueDrop, EnqueuePush, FlushCollect
<1> QED
    BY <1>2, <1>3, <1>4, <1>5, <1>6, <1>7, <1>8, TwoKinds

\* A step keeps what the sinks buffer.
LEMMA SinksOKStep ==
    ASSUME LoggerTypeOK, Numbered, InOnePlace, SinksOK, [Next]_vars
    PROVE  SinksOK'
<1>1. RouterGrows /\ FatesGrow /\ BuffersGrow
    BY RouterStep, FatesStep, BuffersStep
<1>2. /\ gen' \in 0..MaxGen
      /\ router'.defaults \in Seq(Sinks) /\ router'.byLevel \in [Severities -> Seq(Sinks)]
      /\ \A s \in AllSinks(router') : s.gen = gen'
      /\ \A s \in Sinks : WasRouted(s) => WasRouted(s)'
    BY <1>1 DEF RouterGrows
<1>3. worker'.at \in {"writing", "flushing"} =>
          worker'.sinks \in Seq(Sinks) /\ \A s \in ToSet(worker'.sinks) : WasRouted(s)'
  <2>1. \A q \in Seq(Sinks) : ToSet(q) \subseteq Sinks
      BY LenProperties DEF ToSet
  <2> QED
      BY <1>2, <2>1, WorkerSinksStep
<1>4. \A s \in Sinks : \A e \in unflushed'[s] :
          WasRouted(s)' /\ fate'[e] \in {"mixed", "written", "writtenInGroup"}
  <2> SUFFICES ASSUME NEW s \in Sinks, NEW e \in unflushed'[s]
               PROVE  WasRouted(s)' /\ fate'[e] \in {"mixed", "written", "writtenInGroup"}
      OBVIOUS
  <2>1. CASE e \in unflushed[s]
    <3>1. WasRouted(s) /\ e \in DOMAIN fate /\ fate[e] \in {"mixed", "written", "writtenInGroup"}
        BY <2>1 DEF SinksOK
    <3>2. fate'[e] \in {"mixed", "written", "writtenInGroup"}
        BY <1>1, <3>1 DEF FatesGrow, Settled
    <3> QED
        BY <1>2, <3>1, <3>2
  <2>2. CASE e \notin unflushed[s]
      BY <1>1, <1>2, <2>2 DEF BuffersGrow
  <2> QED
      BY <2>1, <2>2
<1>5. unflushed' \in [Sinks -> SUBSET DOMAIN fate']
    BY <1>1 DEF BuffersGrow
<1> QED
    BY <1>2, <1>3, <1>4, <1>5, FlushType DEF SinksOK

------------------------------------------------------------------------------
(* Flush is a boundary. *)

\* How a step moves a flush and what it owes.
LEMMA FlushMoves ==
    ASSUME SinksOK, OwedInFlush, [Next]_vars, NEW f \in Threads
    PROVE  /\ owed'[f] = owed[f] \/ owed'[f] = {} \/ owed'[f] = {e \in DOMAIN fate : fate[e] # "dropped"}
           /\ \/ flush'[f] = flush[f] /\ owed'[f] = owed[f]
              \/ flush'[f].at \notin {"collecting", "flushing"}
              \/ owed'[f] = owed[f] /\ (FlushDrained(f) \/ FlushCollect(f) \/ FlushSink(f))
<1> DEFINE Move == /\ owed'[f] = owed[f] \/ owed'[f] = {} \/ owed'[f] = {e \in DOMAIN fate : fate[e] # "dropped"}
                   /\ \/ flush'[f] = flush[f] /\ owed'[f] = owed[f]
                      \/ flush'[f].at \notin {"collecting", "flushing"}
                      \/ owed'[f] = owed[f] /\ (FlushDrained(f) \/ FlushCollect(f) \/ FlushSink(f))
<1>0. /\ flush \in [Threads -> [at : {"out", "draining", "collecting", "flushing", "returned", "dead"},
                                sinks : Seq(Sinks)]]
      /\ owed \in [Threads -> SUBSET DOMAIN fate]
    BY DEF SinksOK, OwedInFlush
<1>1. CASE UNCHANGED flushVars
    BY <1>1 DEF flushVars
<1>2. ASSUME NEW g \in Threads, FlushStart(g) PROVE Move
    BY <1>0, <1>2 DEF FlushStart
<1>3. ASSUME NEW g \in Threads, FlushDrained(g) \/ FlushCollect(g) \/ FlushSink(g) PROVE Move
    BY <1>0, <1>3 DEF FlushDrained, FlushCollect, FlushSink
<1>4. ASSUME NEW g \in Threads, FlushEnd(g) PROVE Move
    BY <1>0, <1>4 DEF FlushEnd
<1>5. CASE WorkerAbort
    BY <1>5 DEF WorkerAbort
<1>6. Elsewhere => \/ UNCHANGED flushVars
                   \/ \E g \in Threads : FlushStart(g) \/ FlushDrained(g) \/ FlushEnd(g) \/ FlushSink(g)
    BY DEF Elsewhere, WorkerSinks, WorkerWrite, WorkerFatalFlush, WorkerFatalEnd, WorkerDone, WorkerExit,
           PeriodicTick, StopPeriodicFlush, JoinPeriodicFlush, StartPeriodicFlush, StopAsyncWorker,
           JoinAsyncWorker, Close, FlushBegin, AddLevelSink, ApplyConfigV2,
           SetOutputEnabled, vars, flushVars, Threads
<1>7. EventStep => \/ UNCHANGED flushVars
                   \/ WorkerAbort
                   \/ \E g \in Threads : FlushCollect(g)
    BY DEF EventStep, EnqueueBegin, EnqueueCount, EnqueueDrop, EnqueuePush, WorkerTake, WorkerCount,
           WorkerResolve, WorkerGroup, WorkerEmitted, WorkerFatalCollect, flushVars
<1> QED
    BY <1>1, <1>2, <1>3, <1>4, <1>5, <1>6, <1>7, TwoKinds

\* A step keeps the flushes' account.
LEMMA OwedStep ==
    ASSUME LoggerTypeOK, Numbered, InOnePlace, SinksOK, OwedInFlush, [Next]_vars
    PROVE  OwedInFlush'
<1>1. RouterGrows /\ FatesGrow /\ BuffersGrow
    BY RouterStep, FatesStep, BuffersStep
<1>2. \A e \in DOMAIN fate : fate[e] \in Settled =>
          /\ fate'[e] \in Settled
          /\ \A s \in AllSinks(router') : e \in unflushed'[s] => s \in AllSinks(router) /\ e \in unflushed[s]
    BY <1>1, OnlyFlushed DEF FatesGrow
<1>3. owed' \in [Threads -> SUBSET DOMAIN fate']
  <2>1. \A f \in Threads : owed'[f] \subseteq DOMAIN fate
      BY FlushMoves DEF OwedInFlush
  <2>2. owed' = [f \in Threads |-> owed'[f]]
    <3>1. owed \in [Threads -> SUBSET DOMAIN fate]
        BY DEF OwedInFlush
    <3>2. UNCHANGED owed \/ \E g \in Threads : \E v : owed' = [owed EXCEPT ![g] = v]
      <4>1. Elsewhere => \/ UNCHANGED owed
                         \/ \E g \in Threads : FlushStart(g) \/ FlushEnd(g)
          BY DEF Elsewhere, WorkerSinks, WorkerWrite, WorkerFatalFlush, WorkerFatalEnd, WorkerDone, WorkerExit,
                 PeriodicTick, StopPeriodicFlush, JoinPeriodicFlush, StartPeriodicFlush, StopAsyncWorker,
                 JoinAsyncWorker, Close, FlushBegin, FlushDrained, FlushSink, AddLevelSink, ApplyConfigV2,
                 SetOutputEnabled, vars, flushVars, Threads
      <4>2. EventStep => UNCHANGED owed
          BY DEF EventStep, EnqueueBegin, EnqueueCount, EnqueueDrop, EnqueuePush, WorkerTake, WorkerCount,
                 WorkerResolve, WorkerGroup, WorkerEmitted, WorkerFatalCollect, WorkerAbort, FlushCollect, flushVars
      <4> QED
          BY <4>1, <4>2, TwoKinds DEF FlushStart, FlushEnd
    <3> QED
        BY <3>1, <3>2
  <2> QED
      BY <1>1, <2>1, <2>2 DEF FatesGrow
<1> SUFFICES ASSUME NEW f \in Threads
             PROVE  /\ flush'[f].at = "collecting" =>
                          \A e \in owed'[f] : fate'[e] \in Settled \/ InGroup(e)'
                    /\ flush'[f].at = "flushing" =>
                          \A e \in owed'[f] : fate'[e] \in Settled /\ StillIn(e, flush[f].sinks)'
    BY <1>3 DEF OwedInFlush
<1>4. owed[f] \subseteq DOMAIN fate
    BY DEF OwedInFlush
<1>5. CASE flush'[f] = flush[f] /\ owed'[f] = owed[f]
  <2>1. ASSUME flush[f].at = "collecting", NEW e \in owed[f] PROVE fate'[e] \in Settled \/ InGroup(e)'
      BY <1>1, <1>2, <1>4, <2>1 DEF OwedInFlush, FatesGrow, Settled
  <2>2. ASSUME flush[f].at = "flushing", NEW e \in owed[f]
        PROVE  fate'[e] \in Settled /\ StillIn(e, flush[f].sinks)'
    <3>1. fate[e] \in Settled /\ StillIn(e, flush[f].sinks)
        BY <2>2 DEF OwedInFlush
    <3> QED
        BY <1>2, <1>4, <1>5, <3>1 DEF StillIn
  <2> QED
      BY <1>5, <2>1, <2>2
<1>6. CASE flush'[f].at \notin {"collecting", "flushing"}
    BY <1>6
<1>7. CASE owed'[f] = owed[f] /\ FlushDrained(f)
  <2>1. /\ queue = <<>> /\ ~processing /\ UNCHANGED <<fate, grouped>>
        /\ flush'[f].at = "collecting"
      BY <1>7 DEF FlushDrained, Drained, SinksOK
  <2>2. worker.at \notin Busy
      BY <2>1 DEF LoggerTypeOK
  <2>3. \A e \in DOMAIN fate : fate[e] \in Settled \/ InGroup(e)
      BY <2>1, <2>2 DEF InOnePlace, InHand, Busy, ToSet
  <2> QED
      BY <1>4, <1>7, <2>1, <2>3 DEF InGroup
<1>8. CASE owed'[f] = owed[f] /\ FlushCollect(f)
  <2>1. /\ flush[f].at = "collecting" /\ grouped' = <<>> /\ UNCHANGED router
        /\ flush'[f] = [at |-> "flushing", sinks |-> SetToSeq(AllSinks(router))]
      BY <1>8 DEF FlushCollect, FlushGrouped, SinksOK, routeVars
  <2>2. \A e : ~InGroup(e)'
      BY <2>1 DEF InGroup
  <2>3. \A e \in owed[f] : fate'[e] \in Settled
      BY <1>1, <1>2, <1>4, <2>1, <2>2 DEF FatesGrow, OwedInFlush, Settled
  <2>4. ToSet(SetToSeq(AllSinks(router))) = AllSinks(router)
      BY SinksInUse, ListOfSet
  <2>5. \A e : StillIn(e, flush[f].sinks)'
      BY <2>1, <2>4 DEF StillIn
  <2> QED
      BY <1>8, <2>1, <2>3, <2>5
<1>9. CASE owed'[f] = owed[f] /\ FlushSink(f)
  <2>1. /\ flush[f].at = "flushing" /\ flush[f].sinks # <<>> /\ flush[f].sinks \in Seq(Sinks)
        /\ unflushed' = [unflushed EXCEPT ![Head(flush[f].sinks)] = {}]
        /\ flush'[f].at = "flushing" /\ flush'[f].sinks = Tail(flush[f].sinks)
      BY <1>9 DEF FlushSink, SinksOK
  <2>2. /\ Head(flush[f].sinks) \in Sinks
        /\ ToSet(flush[f].sinks) = ToSet(Tail(flush[f].sinks)) \cup {Head(flush[f].sinks)}
      BY <2>1, TailOfList
  <2>3. unflushed'[Head(flush[f].sinks)] = {}
      BY <2>1, <2>2 DEF SinksOK
  <2>4. ASSUME NEW e \in owed[f] PROVE fate'[e] \in Settled /\ StillIn(e, flush[f].sinks)'
    <3>1. fate[e] \in Settled /\ StillIn(e, flush[f].sinks)
        BY <2>1 DEF OwedInFlush
    <3> QED
        BY <1>2, <1>4, <2>1, <2>2, <2>3, <3>1 DEF StillIn
  <2> QED
      BY <1>9, <2>1, <2>4
<1> QED
    BY <1>5, <1>6, <1>7, <1>8, <1>9, FlushMoves

\* The worker's own flush, after a fatal event.
LEMMA FatalStep ==
    ASSUME LoggerTypeOK, Numbered, InOnePlace, SinksOK, FatalOwes, [Next]_vars
    PROVE  FatalOwes'
<1>1. RouterGrows /\ FatesGrow /\ BuffersGrow
    BY RouterStep, FatesStep, BuffersStep
<1>2. \A e \in DOMAIN fate : fate[e] \in Settled =>
          /\ fate'[e] \in Settled
          /\ \A s \in AllSinks(router') : e \in unflushed'[s] => s \in AllSinks(router) /\ e \in unflushed[s]
    BY <1>1, OnlyFlushed DEF FatesGrow
<1>3. \A e \in DOMAIN fate' : e \notin DOMAIN fate =>
          fate'[e] \in {"dropped", "queued"} /\ \A s \in AllSinks(router') : e \notin unflushed'[s]
    BY <1>1, OnlyFlushed DEF FatesGrow
<1>4. \A e \in DOMAIN fate : fate[e] = "queued" /\ worker.at # "resolving" => fate'[e] = "queued"
    BY <1>1 DEF FatesGrow, InHand
<1>5. ASSUME worker.at = "flushing", worker' = worker PROVE FatalOwes'
    BY <1>2, <1>3, <1>4, <1>5 DEF FatalOwes, StillIn, Settled
<1>6. ASSUME worker.at = "aborted", worker' = worker PROVE FatalOwes'
    BY <1>2, <1>3, <1>4, <1>6 DEF FatalOwes, Visible, Settled
<1>7. CASE worker'.at \notin {"flushing", "aborted"}
    BY <1>7 DEF FatalOwes
<1>8. CASE WorkerFatalCollect
  <2>1. /\ worker.at = "fatal" /\ grouped' = <<>> /\ UNCHANGED router
        /\ worker'.at = "flushing" /\ worker'.sinks = SetToSeq(AllSinks(router))
      BY <1>8 DEF WorkerFatalCollect, FlushGrouped, LoggerTypeOK, Busy, routeVars
  <2>2. \A e \in DOMAIN fate : fate[e] = "queued" \/ fate[e] \in Settled \/ InGroup(e)
      BY <2>1 DEF InOnePlace, InHand
  <2>3. \A e : ~InGroup(e)'
      BY <2>1 DEF InGroup
  <2>4. \A e \in DOMAIN fate' : fate'[e] = "queued" \/ fate'[e] \in Settled
      BY <1>1, <1>2, <1>3, <1>4, <2>1, <2>2, <2>3 DEF FatesGrow, Settled
  <2>5. ToSet(SetToSeq(AllSinks(router))) = AllSinks(router)
      BY SinksInUse, ListOfSet
  <2> QED
      BY <2>1, <2>4, <2>5 DEF FatalOwes, StillIn
<1>9. CASE WorkerFatalFlush
  <2>1. /\ worker.at = "flushing" /\ worker.sinks # <<>> /\ worker.sinks \in Seq(Sinks)
        /\ unflushed' = [unflushed EXCEPT ![Head(worker.sinks)] = {}]
        /\ worker'.at = "flushing" /\ worker'.sinks = Tail(worker.sinks)
      BY <1>9 DEF WorkerFatalFlush, SinksOK, LoggerTypeOK, Busy
  <2>2. /\ Head(worker.sinks) \in Sinks
        /\ ToSet(worker.sinks) = ToSet(Tail(worker.sinks)) \cup {Head(worker.sinks)}
      BY <2>1, TailOfList
  <2>3. unflushed'[Head(worker.sinks)] = {} /\ UNCHANGED <<fate, router>>
      BY <1>9, <2>1, <2>2 DEF SinksOK, WorkerFatalFlush, routeVars
  <2>4. ASSUME NEW e \in DOMAIN fate, fate[e] # "queued"
        PROVE  fate[e] \in Settled /\ StillIn(e, worker.sinks)'
    <3>1. fate[e] \in Settled /\ StillIn(e, worker.sinks)
        BY <2>1, <2>4 DEF FatalOwes
    <3> QED
        BY <1>2, <2>1, <2>2, <2>3, <3>1 DEF StillIn
  <2> QED
      BY <2>1, <2>3, <2>4 DEF FatalOwes
<1>10. CASE WorkerAbort
  <2>1. /\ worker.at = "flushing" /\ worker.sinks = <<>> /\ UNCHANGED <<fate, router, unflushed>>
        /\ worker'.at = "aborted"
      BY <1>10 DEF WorkerAbort, routeVars, outVars, LoggerTypeOK, Busy
  <2> QED
      BY <2>1 DEF FatalOwes, StillIn, Visible, ToSet
<1>11. Elsewhere => \/ worker' = worker
                    \/ worker'.at \notin {"flushing", "aborted"}
                    \/ WorkerFatalFlush
  <2>1. WorkerSinks \/ WorkerWrite \/ WorkerFatalEnd \/ WorkerDone \/ WorkerExit =>
            worker'.at \notin {"flushing", "aborted"}
      BY DEF WorkerSinks, WorkerWrite, WorkerFatalEnd, WorkerDone, WorkerExit, LoggerTypeOK
  <2> QED
      BY <2>1 DEF Elsewhere,
           PeriodicTick, StopPeriodicFlush, JoinPeriodicFlush, StartPeriodicFlush, StopAsyncWorker,
           JoinAsyncWorker, Close, FlushDrained, FlushSink, FlushEnd, FlushBegin, AddLevelSink, ApplyConfigV2,
           SetOutputEnabled, vars
<1>12. EventStep => \/ worker' = worker
                    \/ worker'.at \notin {"flushing", "aborted"}
                    \/ WorkerFatalCollect \/ WorkerAbort
  <2>1. WorkerResolve \/ WorkerEmitted => worker'.at \notin {"flushing", "aborted"}
      BY DEF WorkerResolve, WorkerEmitted, LoggerTypeOK
  <2>2. WorkerTake \/ WorkerCount \/ WorkerGroup => worker'.at \notin {"flushing", "aborted"}
      BY DEF WorkerTake, WorkerCount, WorkerGroup, LoggerTypeOK
  <2> QED
      BY <2>1, <2>2 DEF EventStep, EnqueueBegin, EnqueueCount, EnqueueDrop, EnqueuePush, FlushCollect
<1> QED
    BY <1>5, <1>6, <1>7, <1>8, <1>9, <1>10, <1>11, <1>12, TwoKinds

\* The destructor begins when nothing is logged any more, and nothing is logged afterwards.
LEMMA ClosingStep ==
    ASSUME LoggerTypeOK, ClosedInv, [Next]_vars
    PROVE  /\ admin' \in [at : {"out", "stopping", "closing", "dead"}, next : {"start", "out"}]
           /\ stopRequested' => admin'.at \in {"closing", "dead"}
           /\ admin'.at = "dead" => worker'.at = "aborted"
           /\ admin'.at = "closing" =>
                 \A p \in Producers : producer'[p].at = "out" /\ producer'[p].event.n = Len(script'[p])
<1> DEFINE Silent == \A p \in Producers : producer[p].at = "out" /\ producer[p].event.n = Len(script[p])
<1>0. /\ admin \in [at : {"out", "stopping", "closing", "dead"}, next : {"start", "out"}]
      /\ stopRequested => admin.at \in {"closing", "dead"}
      /\ admin.at = "dead" => worker.at = "aborted"
      /\ admin.at = "closing" => Silent
    BY DEF ClosedInv
<1>1. Elsewhere => UNCHANGED <<producer, script>> /\ (worker.at = "aborted" => worker' = worker)
  <2>1. Elsewhere => UNCHANGED <<producer, script>>
      BY ElsewhereEvents
  <2>2. Elsewhere /\ worker.at = "aborted" => worker' = worker
    <3>1. Elsewhere => \/ worker' = worker
                       \/ WorkerSinks \/ WorkerWrite \/ WorkerFatalFlush \/ WorkerFatalEnd \/ WorkerDone \/ WorkerExit
        BY DEF Elsewhere, PeriodicTick, StopPeriodicFlush, JoinPeriodicFlush, StartPeriodicFlush, StopAsyncWorker,
               JoinAsyncWorker, Close, FlushDrained, FlushSink, FlushEnd, FlushBegin, AddLevelSink, ApplyConfigV2,
               SetOutputEnabled, vars
    <3> QED
        BY <3>1 DEF WorkerSinks, WorkerWrite, WorkerFatalFlush, WorkerFatalEnd, WorkerDone, WorkerExit
  <2> QED
      BY <2>1, <2>2
<1>2. Elsewhere => \/ UNCHANGED <<admin, stopRequested>>
                   \/ Close \/ StopAsyncWorker \/ JoinAsyncWorker \/ StartPeriodicFlush
                   \/ \E c \in Configs : ApplyConfigV2(c)
    BY DEF Elsewhere, WorkerSinks, WorkerWrite, WorkerFatalFlush, WorkerFatalEnd, WorkerDone, WorkerExit,
           PeriodicTick, StopPeriodicFlush, JoinPeriodicFlush,
           FlushDrained, FlushSink, FlushEnd, FlushBegin, AddLevelSink, SetOutputEnabled, vars, adminVars
<1>3. ASSUME Elsewhere, UNCHANGED <<admin, stopRequested>> PROVE admin'.at = "closing" => Silent'
    BY <1>0, <1>1, <1>3
<1>4. CASE Elsewhere /\ UNCHANGED <<admin, stopRequested>>
    BY <1>0, <1>1, <1>4
<1>5. CASE Elsewhere /\ Close
    BY <1>0, <1>1, <1>5 DEF Close
<1>6. CASE Elsewhere /\ (StopAsyncWorker \/ JoinAsyncWorker)
    BY <1>0, <1>1, <1>6 DEF StopAsyncWorker, JoinAsyncWorker
<1>7. CASE Elsewhere /\ StartPeriodicFlush
    BY <1>0, <1>1, <1>7 DEF StartPeriodicFlush
<1>8. CASE Elsewhere /\ \E c \in Configs : ApplyConfigV2(c)
    BY <1>0, <1>1, <1>8 DEF ApplyConfigV2
<1>9. ASSUME NEW p \in Producers, EnqueueBegin(p) \/ EnqueueCount(p) \/ EnqueueDrop(p) \/ EnqueuePush(p)
      PROVE  /\ admin.at # "closing" /\ UNCHANGED <<admin, stopRequested, worker>>
  <2>1. UNCHANGED <<admin, stopRequested, worker>>
      BY <1>9 DEF EnqueueBegin, EnqueueCount, EnqueueDrop, EnqueuePush, adminVars
  <2>2. producer[p].at # "out" \/ producer[p].event.n + 1 \in DOMAIN script[p]
      BY <1>9 DEF EnqueueBegin, EnqueueCount, EnqueueDrop, EnqueuePush
  <2>3. DOMAIN script[p] = 1..Len(script[p]) /\ Len(script[p]) \in Nat
      BY LenProperties DEF LoggerTypeOK
  <2> QED
      BY <1>0, <2>1, <2>2, <2>3
<1>10. CASE \E p \in Producers : EnqueueBegin(p) \/ EnqueueCount(p) \/ EnqueueDrop(p) \/ EnqueuePush(p)
    BY <1>0, <1>9, <1>10
<1>11. CASE WorkerAbort
    BY <1>0, <1>11 DEF WorkerAbort, LoggerTypeOK
<1>12. CASE \/ WorkerTake \/ WorkerCount \/ WorkerResolve \/ WorkerGroup \/ WorkerEmitted \/ WorkerFatalCollect
            \/ \E f \in Threads : FlushCollect(f)
  <2>1. UNCHANGED <<admin, stopRequested, producer, script>>
      BY <1>12 DEF WorkerTake, WorkerCount, WorkerResolve, WorkerGroup, WorkerEmitted, WorkerFatalCollect,
             FlushCollect, adminVars, queueVars
  <2>2. worker.at = "aborted" => worker' = worker
      BY <1>12 DEF WorkerTake, WorkerCount, WorkerResolve, WorkerGroup, WorkerEmitted, WorkerFatalCollect,
             FlushCollect
  <2> QED
      BY <1>0, <2>1, <2>2
<1> QED
    BY <1>2, <1>4, <1>5, <1>6, <1>7, <1>8, <1>10, <1>11, <1>12, TwoKinds DEF EventStep

\* A step keeps what the destructor has done.
LEMMA ClosedStep ==
    ASSUME LoggerTypeOK, Numbered, InOnePlace, SinksOK, OwedInFlush, ClosedInv, [Next]_vars
    PROVE  ClosedInv'
<1> DEFINE d == flush["destructor"]
<1>1. RouterGrows /\ FatesGrow /\ BuffersGrow
    BY RouterStep, FatesStep, BuffersStep
<1>2. \A e \in DOMAIN fate : fate[e] \in Settled =>
          /\ fate'[e] = fate[e]
          /\ \A s \in AllSinks(router') : e \in unflushed'[s] => s \in AllSinks(router) /\ e \in unflushed[s]
    BY <1>1, OnlyFlushed DEF FatesGrow
<1>3. "destructor" \in Threads /\ "destructor" # "periodic"
    BY DEF Threads
<1>4. ASSUME worker.at = "exited" PROVE worker' = worker
  <2>1. Elsewhere => worker' = worker
    <3>1. Elsewhere => \/ worker' = worker
                       \/ WorkerSinks \/ WorkerWrite \/ WorkerFatalFlush \/ WorkerFatalEnd \/ WorkerDone \/ WorkerExit
        BY DEF Elsewhere, PeriodicTick, StopPeriodicFlush, JoinPeriodicFlush, StartPeriodicFlush, StopAsyncWorker,
               JoinAsyncWorker, Close, FlushDrained, FlushSink, FlushEnd, FlushBegin, AddLevelSink, ApplyConfigV2,
               SetOutputEnabled, vars
    <3> QED
        BY <1>4, <3>1 DEF WorkerSinks, WorkerWrite, WorkerFatalFlush, WorkerFatalEnd, WorkerDone, WorkerExit
  <2>2. EventStep => worker' = worker
      BY <1>4 DEF EventStep, EnqueueBegin, EnqueueCount, EnqueueDrop, EnqueuePush, WorkerTake, WorkerCount,
             WorkerResolve, WorkerGroup, WorkerEmitted, WorkerFatalCollect, WorkerAbort, FlushCollect
  <2> QED
      BY <2>1, <2>2, TwoKinds
<1>5. ASSUME admin.at = "closing" PROVE DOMAIN fate' \subseteq DOMAIN fate /\ (admin' = admin \/ worker'.at = "aborted")
  <2>1. DOMAIN fate' \subseteq DOMAIN fate
      BY <1>1, <1>5 DEF FatesGrow, ClosedInv, InCall
  <2>2. Elsewhere => UNCHANGED admin
      BY <1>5 DEF Elsewhere, WorkerSinks, WorkerWrite, WorkerFatalFlush, WorkerFatalEnd, WorkerDone, WorkerExit,
           PeriodicTick, StopPeriodicFlush, JoinPeriodicFlush, StartPeriodicFlush, StopAsyncWorker, JoinAsyncWorker,
           Close, ApplyConfigV2,
           FlushDrained, FlushSink, FlushEnd, FlushBegin, AddLevelSink, SetOutputEnabled, vars, adminVars
  <2>3. EventStep => UNCHANGED admin \/ worker'.at = "aborted"
      BY DEF EventStep, EnqueueBegin, EnqueueCount, EnqueueDrop, EnqueuePush, WorkerTake, WorkerCount,
             WorkerResolve, WorkerGroup, WorkerEmitted, WorkerFatalCollect, WorkerAbort, FlushCollect, adminVars,
             LoggerTypeOK
  <2> QED
      BY <2>1, <2>2, <2>3, TwoKinds
<1>6. ASSUME d.at \notin {"out", "dead"} PROVE worker'.at = "exited" /\ admin'.at = "closing"
  <2>1. admin.at = "closing" /\ worker.at = "exited"
      BY <1>6 DEF ClosedInv
  <2> QED
      BY <1>4, <1>5, <2>1
<1>7. \/ flush'["destructor"] = d /\ owed'["destructor"] = owed["destructor"]
      \/ flush'["destructor"].at = "dead"
      \/ JoinAsyncWorker
      \/ FlushDrained("destructor") \/ FlushCollect("destructor") \/ FlushSink("destructor") \/ FlushEnd("destructor")
  <2>1. /\ flush \in [Threads -> [at : {"out", "draining", "collecting", "flushing", "returned", "dead"},
                                  sinks : Seq(Sinks)]]
        /\ owed \in [Threads -> SUBSET DOMAIN fate]
      BY DEF SinksOK, OwedInFlush
  <2> DEFINE Kept == flush'["destructor"] = d /\ owed'["destructor"] = owed["destructor"]
  <2>2. ASSUME NEW f \in Threads, f # "destructor",
               FlushStart(f) \/ FlushDrained(f) \/ FlushCollect(f) \/ FlushSink(f) \/ FlushEnd(f)
        PROVE  Kept
      BY <1>3, <2>1, <2>2 DEF FlushStart, FlushDrained, FlushCollect, FlushSink, FlushEnd
  <2>3. UNCHANGED flushVars => Kept
      BY DEF flushVars
  <2>4. Elsewhere => \/ UNCHANGED flushVars
                     \/ JoinAsyncWorker
                     \/ \E f \in Threads : f # "destructor" /\ FlushStart(f)
                     \/ \E f \in Threads : FlushDrained(f) \/ FlushEnd(f) \/ FlushSink(f)
      BY <1>3, LoggerAssumption DEF Elsewhere, WorkerSinks, WorkerWrite, WorkerFatalFlush, WorkerFatalEnd, WorkerDone,
           WorkerExit, PeriodicTick, StopPeriodicFlush, JoinPeriodicFlush, StartPeriodicFlush, StopAsyncWorker,
           Close, FlushBegin, AddLevelSink, ApplyConfigV2, SetOutputEnabled, vars, flushVars, Threads
  <2>5. EventStep => \/ UNCHANGED flushVars
                     \/ WorkerAbort
                     \/ \E f \in Threads : FlushCollect(f)
      BY DEF EventStep, EnqueueBegin, EnqueueCount, EnqueueDrop, EnqueuePush, WorkerTake, WorkerCount,
           WorkerResolve, WorkerGroup, WorkerEmitted, WorkerFatalCollect, flushVars
  <2>6. WorkerAbort => flush'["destructor"].at = "dead"
      BY <1>3 DEF WorkerAbort
  <2> QED
      BY <2>2, <2>3, <2>4, <2>5, <2>6, TwoKinds
<1>8. \A e \in DOMAIN fate : fate[e] = "dropped" => \A s \in AllSinks(router) : e \notin unflushed[s]
  <2>1. \A q \in Seq(Sinks) : ToSet(q) \subseteq Sinks
      BY LenProperties DEF ToSet
  <2>2. AllSinks(router) \subseteq Sinks
      BY <2>1 DEF SinksOK, AllSinks
  <2> QED
      BY <2>2 DEF SinksOK
<1>9. CASE flush'["destructor"].at \in {"out", "dead"}
    BY <1>9, ClosingStep DEF ClosedInv
<1>10. CASE flush'["destructor"] = d /\ owed'["destructor"] = owed["destructor"] /\ d.at \notin {"out", "dead"}
  <2>1. admin.at = "closing" /\ DOMAIN fate' = DOMAIN fate
      BY <1>1, <1>5, <1>10 DEF ClosedInv, FatesGrow
  <2>2. d.at \in {"draining", "collecting", "flushing"} =>
            \A e \in DOMAIN fate' : fate'[e] = "dropped" \/ e \in owed'["destructor"]
      BY <1>2, <1>10, <2>1 DEF ClosedInv, Settled
  <2>3. d.at = "returned" => \A e \in DOMAIN fate' : Visible(e)'
      BY <1>2, <1>10, <2>1 DEF ClosedInv, Visible
  <2> QED
      BY <1>6, <1>10, <2>2, <2>3, ClosingStep DEF ClosedInv
<1>11. CASE JoinAsyncWorker
  <2>1. /\ stopRequested /\ worker.at = "exited" /\ UNCHANGED <<fate, worker, admin>>
        /\ flush'["destructor"].at = "draining"
        /\ owed'["destructor"] = {e \in DOMAIN fate : fate[e] # "dropped"}
      BY <1>3, <1>11 DEF JoinAsyncWorker, FlushStart, SinksOK, OwedInFlush
  <2>2. admin.at = "closing"
      BY <2>1 DEF ClosedInv
  <2>3. worker'.at = "exited" /\ admin'.at = "closing"
      BY <2>1, <2>2
  <2>4. \A e \in DOMAIN fate' : fate'[e] = "dropped" \/ e \in owed'["destructor"]
      BY <2>1
  <2> QED
      BY <2>1, <2>3, <2>4, ClosingStep DEF ClosedInv
<1>12. CASE FlushDrained("destructor") \/ FlushCollect("destructor") \/ FlushSink("destructor")
  <2>1. /\ d.at \in {"draining", "collecting", "flushing"}
        /\ flush'["destructor"].at \in {"collecting", "flushing"}
        /\ owed' = owed
      BY <1>3, <1>12 DEF FlushDrained, FlushCollect, FlushSink, SinksOK
  <2>2. admin.at = "closing" /\ DOMAIN fate' = DOMAIN fate
      BY <1>1, <1>5, <2>1 DEF ClosedInv, FatesGrow
  <2>3. \A e \in DOMAIN fate' : fate'[e] = "dropped" \/ e \in owed'["destructor"]
      BY <1>2, <2>1, <2>2 DEF ClosedInv, Settled
  <2> QED
      BY <1>6, <2>1, <2>3, ClosingStep DEF ClosedInv
<1>13. CASE FlushEnd("destructor")
  <2>1. /\ d.at = "flushing" /\ d.sinks = <<>> /\ UNCHANGED <<fate, router, unflushed>>
        /\ flush'["destructor"].at = "returned"
      BY <1>3, <1>13 DEF FlushEnd, SinksOK, routeVars, outVars
  <2>2. \A e \in owed["destructor"] : fate[e] \in Settled /\ StillIn(e, <<>>)
      BY <1>3, <2>1 DEF OwedInFlush
  <2>3. \A e \in DOMAIN fate : Visible(e)
      BY <1>8, <2>1, <2>2 DEF ClosedInv, Visible, StillIn, ToSet, Settled
  <2>4. \A e \in DOMAIN fate' : Visible(e)'
      BY <2>1, <2>3 DEF Visible
  <2> QED
      BY <1>6, <2>1, <2>4, ClosingStep DEF ClosedInv
<1> QED
    BY <1>7, <1>9, <1>10, <1>11, <1>12, <1>13

\* The invariant holds at the start.
LEMMA LoggerInit ==
    Init => LoggerInv
<1> SUFFICES ASSUME Init PROVE LoggerInv
    OBVIOUS
<1>1. DOMAIN fate = {} /\ worker.at = "waiting" /\ \A s \in Sinks : unflushed[s] = {}
    BY DEF Init
<1>2. \A f \in Threads : flush[f] = [at |-> "out", sinks |-> <<>>] /\ owed[f] = {}
    BY DEF Init
<1>3. SinksOK
  <2>1. 0 \in 0..MaxGen
      BY LoggerAssumption
  <2>2. /\ router.defaults \in Seq(Sinks) /\ router.byLevel \in [Severities -> Seq(Sinks)]
        /\ \A s \in AllSinks(router) : s.gen = 0
      BY <2>1, NewRouting DEF Init
  <2>3. gen = 0 /\ unflushed \in [Sinks -> SUBSET DOMAIN fate]
      BY DEF Init
  <2>4. flush \in [Threads -> [at : {"out", "draining", "collecting", "flushing", "returned", "dead"},
                               sinks : Seq(Sinks)]]
      BY DEF Init
  <2> QED
      BY <1>1, <2>1, <2>2, <2>3, <2>4 DEF SinksOK
<1>4. OwedInFlush
    BY <1>2 DEF Init, OwedInFlush
<1>5. FatalOwes
    BY <1>1 DEF FatalOwes
<1>6. ClosedInv
  <2>1. admin = [at |-> "out", next |-> "out"] /\ stopRequested = FALSE
      BY DEF Init
  <2>2. flush["destructor"].at = "out"
      BY <1>2 DEF Threads
  <2> QED
      BY <2>1, <2>2 DEF ClosedInv
<1> QED
    BY <1>3, <1>4, <1>5, <1>6, LedgerInit DEF LoggerInv

\* Every step keeps the invariant.
LEMMA LoggerStep ==
    LoggerInv /\ [Next]_vars => LoggerInv'
<1> SUFFICES ASSUME LoggerInv, [Next]_vars PROVE LoggerInv'
    OBVIOUS
<1>1. LedgerInv /\ SinksOK /\ OwedInFlush /\ FatalOwes /\ ClosedInv
    BY DEF LoggerInv
<1>2. LoggerTypeOK /\ Numbered /\ InOnePlace
    BY <1>1 DEF LedgerInv
<1>3. SinksOK'
    BY <1>1, <1>2, SinksOKStep
<1>4. OwedInFlush'
    BY <1>1, <1>2, OwedStep
<1>5. FatalOwes'
    BY <1>1, <1>2, FatalStep
<1>6. ClosedInv'
    BY <1>1, <1>2, ClosedStep
<1> QED
    BY <1>1, <1>3, <1>4, <1>5, <1>6, LedgerStep DEF LoggerInv

\* When Flush returns, every event whose Enqueue had returned before it began is filtered out or
\* written and no sink of the router still buffers it; the destructor leaves nothing behind, a fatal
\* abort nothing of what the worker had taken: for every number of producers, flushing threads and
\* levels, whatever is reconfigured meanwhile (Logger::Flush, ~Logger, AbortAfterFlush).
THEOREM FlushIsBoundaryHolds ==
    Spec => []FlushIsBoundary
<1>1. Spec => []LoggerInv
    BY LoggerInit, LoggerStep, PTL DEF Spec
<1>2. LoggerInv => FlushIsBoundary
  <2> SUFFICES ASSUME LoggerInv PROVE FlushIsBoundary
      OBVIOUS
  <2>1. OwedInFlush /\ FatalOwes /\ ClosedInv
      BY DEF LoggerInv
  <2> QED
      BY <2>1 DEF FlushIsBoundary, OwedInFlush, FatalOwes, ClosedInv, Visible, StillIn, ToSet
<1> QED
    BY <1>1, <1>2, PTL

------------------------------------------------------------------------------
(* The order of the lines. *)

\* The places of a finite list that satisfy something, ranked by the order of FlushGrouped, are counted
\* through from 0.
LEMMA Ranks ==
    ASSUME NEW S, NEW entries \in Seq(S), NEW I \in SUBSET DOMAIN entries,
           \A i \in I : entries[i].event.level \in Int
    PROVE  LET rank == [i \in I |-> Cardinality({j \in I : Before(entries, j, i)})] IN
           /\ IsFiniteSet(I) /\ Cardinality(I) \in Nat
           /\ \A i, j \in I : Before(entries, i, j) => rank[i] < rank[j]
           /\ \A k \in 1..Cardinality(I) : \E i \in I : rank[i] = k - 1
           /\ \A i \in I : rank[i] \in Nat
<1> DEFINE pred(i) == {j \in I : Before(entries, j, i)}
           rank == [i \in I |-> Cardinality({j \in I : Before(entries, j, i)})]
           n == Cardinality(I)
<1>1. DOMAIN entries = 1..Len(entries) /\ Len(entries) \in Nat
    BY LenProperties
<1>2. IsFiniteSet(I) /\ n \in Nat
  <2>1. 1 \in Int /\ Len(entries) \in Int
      BY <1>1
  <2>2. IsFiniteSet(1..Len(entries))
      BY <2>1, FS_Interval, Zenon
  <2>3. IsFiniteSet(DOMAIN entries)
      BY <1>1, <2>2
  <2> QED
      BY <2>3, FS_Subset, FS_CardinalityType
<1>3. \A i \in I : i \in Int
    BY <1>1
<1>4. \A i \in I : pred(i) \in SUBSET I /\ IsFiniteSet(pred(i)) /\ rank[i] = Cardinality(pred(i)) /\ rank[i] \in Nat
    BY <1>2, FS_Subset, FS_CardinalityType
<1>5. \A i, j \in I : Before(entries, i, j) \/ i = j \/ Before(entries, j, i)
    BY <1>3 DEF Before
<1>6. \A i \in I : ~Before(entries, i, i)
    BY <1>3 DEF Before
<1>7. \A i, j, k \in I : Before(entries, i, j) /\ Before(entries, j, k) => Before(entries, i, k)
    BY <1>3 DEF Before
<1>8. ASSUME NEW T \in SUBSET I, NEW U \in SUBSET T, NEW x \in T, x \notin U
      PROVE  Cardinality(U) < Cardinality(T)
  <2>1. /\ IsFiniteSet(T) /\ IsFiniteSet(U) /\ Cardinality(U) <= Cardinality(T)
        /\ Cardinality(T) = Cardinality(U) => T = U
      BY <1>2, FS_Subset
  <2>2. Cardinality(U) \in Nat /\ Cardinality(T) \in Nat
      BY <2>1, FS_CardinalityType
  <2> QED
      BY <1>8, <2>1, <2>2
<1>9. ASSUME NEW i \in I, NEW j \in I, Before(entries, i, j) PROVE rank[i] < rank[j]
  <2>1. pred(i) \in SUBSET pred(j) /\ i \in pred(j) /\ i \notin pred(i)
      BY <1>6, <1>7, <1>9
  <2> QED
      BY <1>4, <1>8, <2>1
<1>10. \A i \in I : rank[i] < n
    BY <1>4, <1>6, <1>8
<1>11. rank \in Injection(I, 0..(n - 1))
  <2>1. rank = [i \in I |-> rank[i]] /\ \A i \in I : rank[i] \in Nat
      BY <1>4
  <2> HIDE DEF rank, n
  <2>2. rank \in [I -> 0..(n - 1)]
      BY <1>2, <1>10, <2>1
  <2>3. \A i, j \in I : rank[i] = rank[j] => i = j
      BY <1>5, <1>9, <2>1
  <2> QED
      BY <2>2, <2>3, Fun_IsInj
<1>12. rank \in Surjection(I, 0..(n - 1))
  <2> HIDE DEF rank, n
  <2>1. 0 \in Int /\ n - 1 \in Int
      BY <1>2
  <2>2. IsFiniteSet(0..(n - 1)) /\ Cardinality(0..(n - 1)) = IF 0 > n - 1 THEN 0 ELSE n - 1 - 0 + 1
      BY <2>1, FS_Interval, Zenon
  <2>3. Cardinality(0..(n - 1)) = n
      BY <1>2, <2>2
  <2> QED
      BY <1>11, <2>2, <2>3, FS_Injection DEF n
<1>13. ASSUME NEW k \in 1..n PROVE \E i \in I : rank[i] = k - 1
  <2>1. k - 1 \in 0..(n - 1)
      BY <1>2
  <2> HIDE DEF rank
  <2> QED
      BY <1>12, <2>1 DEF Surjection
<1> QED
    BY <1>2, <1>4, <1>9, <1>13

\* These are the places of the group the lines of a sink come from.
LinesFrom(entries, s, n, place) ==
    LET lines == LinesFor(entries, s) IN
    /\ DOMAIN lines = 1..n /\ lines = [k \in 1..n |-> lines[k]]
    /\ \A k \in 1..n : /\ place[k] \in DOMAIN entries /\ GoesTo(entries[place[k]], s)
                       /\ lines[k] = entries[place[k]].event
    /\ \A k, m \in 1..n : k < m => Before(entries, place[k], place[m])

\* The lines of a group come to a sink from different places of the group, in its order.
LEMMA LinesInOrder ==
    ASSUME NEW S, NEW entries \in Seq(S), NEW s,
           \A i \in DOMAIN entries : entries[i].event.level \in Int
    PROVE  \E n \in Nat : \E place : LinesFrom(entries, s, n, place)
<1> DEFINE I == {i \in DOMAIN entries : GoesTo(entries[i], s)}
           rank == [i \in I |-> Cardinality({j \in I : Before(entries, j, i)})]
           n == Cardinality(I)
           place == [k \in 1..n |-> CHOOSE i \in I : rank[i] = k - 1]
           lines == LinesFor(entries, s)
<1>1. lines = [k \in 1..n |-> entries[CHOOSE i \in I : rank[i] = k - 1].event]
    BY DEF LinesFor
<1>2. /\ n \in Nat
      /\ \A i, j \in I : Before(entries, i, j) => rank[i] < rank[j]
      /\ \A k \in 1..n : \E i \in I : rank[i] = k - 1
      /\ \A i \in I : rank[i] \in Nat
  <2>1. I \in SUBSET DOMAIN entries /\ \A i \in I : entries[i].event.level \in Int
      OBVIOUS
  <2> HIDE DEF I
  <2> QED
      BY <2>1, Ranks
<1>3. \A i \in I : i \in Int /\ entries[i].event.level \in Int
    BY LenProperties
<1> HIDE DEF rank
<1>4. \A k \in 1..n : place[k] \in I /\ rank[place[k]] = k - 1 /\ lines[k] = entries[place[k]].event
    BY <1>1, <1>2
<1>5. \A k, m \in 1..n : k < m => Before(entries, place[k], place[m])
  <2> SUFFICES ASSUME NEW k \in 1..n, NEW m \in 1..n, k < m PROVE Before(entries, place[k], place[m])
      OBVIOUS
  <2> DEFINE a == place[k]
             b == place[m]
  <2>1. a \in I /\ b \in I /\ rank[a] = k - 1 /\ rank[b] = m - 1
      BY <1>4
  <2> HIDE DEF a, b, place, I, n
  <2>2. rank[a] < rank[b] /\ k \in Int /\ m \in Int
      BY <1>2, <2>1
  <2>3. ~Before(entries, b, a) /\ a # b
      BY <1>2, <2>1, <2>2
  <2>4. Before(entries, a, b)
      BY <1>3, <2>1, <2>3 DEF Before
  <2> QED
      BY <2>4 DEF a, b
<1>6. DOMAIN lines = 1..n /\ lines = [k \in 1..n |-> lines[k]]
    BY <1>1
<1>7. LinesFrom(entries, s, n, place)
    BY <1>4, <1>5, <1>6 DEF LinesFrom
<1> QED
    BY <1>2, <1>7

\* What is queued comes after everything that was taken.
LEMMA QueueOrderStep ==
    ASSUME LoggerTypeOK, Numbered, InOnePlace, QueueOrder, [Next]_vars
    PROVE  QueueOrder'
<1>1. ASSUME UNCHANGED queue, DOMAIN fate' = DOMAIN fate,
             \A e \in DOMAIN fate : fate[e] = "dropped" => fate'[e] = "dropped"
      PROVE  QueueOrder'
    BY <1>1 DEF QueueOrder
<1>2. FatesGrow
    BY FatesStep
<1>3. \A e \in DOMAIN fate : fate[e] = "dropped" => fate'[e] = "dropped"
    BY <1>2 DEF FatesGrow, Settled
<1>4. CASE Elsewhere
    BY <1>1, <1>4, ElsewhereEvents
<1>5. ASSUME NEW p \in Producers, EnqueueBegin(p) \/ EnqueueCount(p) PROVE QueueOrder'
    BY <1>1, <1>5 DEF EnqueueBegin, EnqueueCount
<1>6. ASSUME NEW p \in Producers, EnqueueDrop(p) PROVE QueueOrder'
  <2> DEFINE x == producer[p].event
  <2>1. UNCHANGED queue /\ Settle({x}, "dropped")
      BY <1>6 DEF EnqueueDrop
  <2>2. DOMAIN fate' = DOMAIN fate \cup {x} /\ fate'[x] = "dropped"
        /\ \A e \in DOMAIN fate : e # x => fate'[e] = fate[e]
      BY <2>1 DEF Settle
  <2> HIDE DEF x
  <2> QED
      BY <2>1, <2>2 DEF QueueOrder
<1>7. ASSUME NEW p \in Producers, EnqueuePush(p) PROVE QueueOrder'
  <2> DEFINE x == producer[p].event
  <2>0. producer[p].at \in InCall /\ queue' = Append(queue, x) /\ Settle({x}, "queued")
      BY <1>7 DEF EnqueuePush, InCall
  <2>1. x \notin DOMAIN fate /\ x.who = p
      BY <2>0, NewEvent
  <2>2. \A e \in DOMAIN fate : e.who = x.who => e.n < x.n
      BY <2>0, <2>1 DEF Numbered
  <2> HIDE DEF x
  <2>3. /\ DOMAIN fate' = DOMAIN fate \cup {x}
        /\ \A e \in DOMAIN fate : fate'[e] = fate[e]
      BY <2>0, <2>1 DEF Settle
  <2>4. queue \in Seq(EventType)
      BY DEF LoggerTypeOK
  <2>5. /\ DOMAIN queue = 1..Len(queue) /\ DOMAIN queue' = 1..(Len(queue) + 1) /\ Len(queue) \in Nat
        /\ \A i \in 1..Len(queue) : queue'[i] = queue[i]
        /\ queue'[Len(queue) + 1] = x
      BY <2>0, <2>4, AppendedList
  <2>6. ToSet(queue') = ToSet(queue) \cup {x}
      BY <2>0, <2>4, AppendedSet
  <2>7. \A i \in DOMAIN queue : queue[i] \in DOMAIN fate
      BY DEF InOnePlace, ToSet
  <2>8. ASSUME NEW i \in DOMAIN queue', NEW j \in DOMAIN queue', i < j, queue'[i].who = queue'[j].who
        PROVE  queue'[i].n < queue'[j].n
    <3>1. CASE j = Len(queue) + 1
      <4>1. i \in DOMAIN queue /\ queue'[i] = queue[i] /\ queue'[j] = x
          BY <2>5, <2>8, <3>1
      <4> QED
          BY <2>2, <2>7, <2>8, <4>1
    <3>2. CASE j # Len(queue) + 1
      <4>1. i \in DOMAIN queue /\ j \in DOMAIN queue /\ queue'[i] = queue[i] /\ queue'[j] = queue[j]
          BY <2>5, <2>8, <3>2
      <4> QED
          BY <2>8, <4>1 DEF QueueOrder
    <3> QED
        BY <3>1, <3>2
  <2>9. \A y \in ToSet(queue') : \A e \in DOMAIN fate' \ ToSet(queue') :
            e.who = y.who /\ fate'[e] # "dropped" => e.n < y.n
      BY <2>2, <2>3, <2>6 DEF QueueOrder
  <2> QED
      BY <2>8, <2>9 DEF QueueOrder
<1>8. CASE WorkerTake
  <2>1. queue # <<>> /\ queue \in Seq(EventType) /\ queue' = Tail(queue) /\ UNCHANGED fate
      BY <1>8 DEF WorkerTake, LoggerTypeOK
  <2>2. /\ DOMAIN queue = 1..Len(queue) /\ DOMAIN queue' = 1..(Len(queue) - 1) /\ Len(queue) \in Nat
        /\ queue[1] = Head(queue) /\ \A i \in 1..(Len(queue) - 1) : queue'[i] = queue[i + 1]
        /\ ToSet(queue) = ToSet(queue') \cup {Head(queue)}
      BY <2>1, TailOfList
  <2>3. \A i \in DOMAIN queue' : i \in Int /\ i + 1 \in DOMAIN queue /\ 1 < i + 1 /\ queue'[i] = queue[i + 1]
      BY <2>2
  <2>4. \A i, j \in DOMAIN queue' : i < j => i + 1 < j + 1
      BY <2>3
  <2>5. \A i, j \in DOMAIN queue' : i < j /\ queue'[i].who = queue'[j].who => queue'[i].n < queue'[j].n
      BY <2>3, <2>4 DEF QueueOrder
  <2>6. \A y \in ToSet(queue') : Head(queue).who = y.who => Head(queue).n < y.n
    <3> SUFFICES ASSUME NEW i \in DOMAIN queue', Head(queue).who = queue'[i].who PROVE Head(queue).n < queue'[i].n
        BY DEF ToSet
    <3>1. 1 \in DOMAIN queue /\ i + 1 \in DOMAIN queue /\ 1 < i + 1 /\ queue'[i] = queue[i + 1]
        BY <2>2, <2>3
    <3> QED
        BY <2>2, <3>1 DEF QueueOrder
  <2>7. \A y \in ToSet(queue') : \A e \in DOMAIN fate \ ToSet(queue') :
            e.who = y.who /\ fate[e] # "dropped" => e.n < y.n
      BY <2>2, <2>6 DEF QueueOrder
  <2> QED
      BY <2>1, <2>5, <2>7 DEF QueueOrder
<1>9. CASE \/ WorkerCount \/ WorkerResolve \/ WorkerGroup \/ WorkerEmitted \/ WorkerFatalCollect \/ WorkerAbort
           \/ \E f \in Threads : FlushCollect(f)
  <2>1. UNCHANGED queue
    <3>1. CASE WorkerAbort
        BY <3>1 DEF WorkerAbort
    <3> QED
        BY <1>9, <3>1, WorkerSteps
  <2>2. DOMAIN fate' = DOMAIN fate
      BY <1>9, NothingNew
  <2> QED
      BY <1>1, <1>3, <2>1, <2>2
<1> QED
    BY <1>4, <1>5, <1>6, <1>7, <1>8, <1>9, TwoKinds DEF EventStep

\* Whose turn it is at the worker.
LEMMA WorkerHand ==
    ASSUME LoggerTypeOK, [Next]_vars
    PROVE  \/ worker'.at \notin InHandAt
           \/ worker.at \in InHandAt /\ worker'.event = worker.event
           \/ WorkerTake
<1>1. Elsewhere => \/ worker'.at \notin InHandAt
                   \/ worker.at \in InHandAt /\ worker'.event = worker.event
    BY ElsewhereEvents DEF InHandAt
<1>2. WorkerCount => worker.at \in InHandAt /\ worker'.event = worker.event
    BY DEF WorkerCount, LoggerTypeOK, Busy, InHandAt
<1>3. WorkerResolve => worker.at \in InHandAt /\ worker'.event = worker.event
    BY DEF WorkerResolve, LoggerTypeOK, Busy, InHandAt
<1>4. WorkerGroup \/ WorkerEmitted \/ WorkerFatalCollect \/ WorkerAbort => worker'.at \notin InHandAt
    BY DEF WorkerGroup, WorkerEmitted, WorkerFatalCollect, WorkerAbort, LoggerTypeOK, InHandAt
<1>5. ASSUME worker' = worker
      PROVE  worker'.at \notin InHandAt \/ (worker.at \in InHandAt /\ worker'.event = worker.event)
    BY <1>5
<1>6. (\E f \in Threads : FlushCollect(f)) => worker' = worker
    BY DEF FlushCollect
<1>7. (\E p \in Producers : EnqueueBegin(p) \/ EnqueueCount(p) \/ EnqueueDrop(p) \/ EnqueuePush(p)) => worker' = worker
    BY DEF EnqueueBegin, EnqueueCount, EnqueueDrop, EnqueuePush
<1> QED
    BY <1>1, <1>2, <1>3, <1>4, <1>5, <1>6, <1>7, TwoKinds DEF EventStep

\* What the worker has in hand comes after everything of its producer that it handled before.
LEMMA HandOrderStep ==
    ASSUME LoggerTypeOK, Numbered, InOnePlace, QueueOrder, HandOrder, [Next]_vars
    PROVE  HandOrder'
<1>1. FatesGrow
    BY FatesStep
<1>2. CASE worker'.at \notin InHandAt
    BY <1>2 DEF HandOrder
<1>3. CASE worker.at \in InHandAt /\ worker'.event = worker.event
  <2> SUFFICES ASSUME NEW e \in DOMAIN fate', e # worker.event, e.who = worker.event.who,
                      fate'[e] \notin {"dropped", "queued"}
               PROVE  e.n < worker.event.n
      BY <1>3 DEF HandOrder
  <2>1. e \in DOMAIN fate /\ fate[e] \notin {"dropped", "queued"}
      BY <1>1 DEF FatesGrow, Settled, InHand
  <2> QED
      BY <1>3, <2>1 DEF HandOrder
<1>4. CASE WorkerTake
  <2> DEFINE x == Head(queue)
  <2>1. /\ queue # <<>> /\ queue \in Seq(EventType) /\ UNCHANGED fate
        /\ worker.at = "waiting" /\ worker'.event = x
      BY <1>4 DEF WorkerTake, LoggerTypeOK
  <2>2. x \in ToSet(queue)
      BY <2>1, TailOfList
  <2>3. \A e \in DOMAIN fate : fate[e] \notin {"dropped", "queued"} => e \notin ToSet(queue)
      BY DEF InOnePlace
  <2>4. \A e \in DOMAIN fate : e.who = x.who /\ fate[e] \notin {"dropped", "queued"} => e.n < x.n
      BY <2>2, <2>3 DEF QueueOrder
  <2> QED
      BY <2>1, <2>4 DEF HandOrder
<1> QED
    BY <1>2, <1>3, <1>4, WorkerHand

\* What is grouped is in order, the event that joins it too.
LEMMA EntriesInOrder ==
    ASSUME LoggerTypeOK, InOnePlace, HandOrder, GroupOrder, WorkerGroup
    PROVE  LET entries == Append(grouped, [event |-> worker.event, kinds |-> worker.kinds]) IN
           /\ \A i, j \in DOMAIN entries :
                 i < j /\ entries[i].event.who = entries[j].event.who => entries[i].event.n < entries[j].event.n
           /\ \A i \in DOMAIN entries : \A e \in DOMAIN fate :
                 e.who = entries[i].event.who /\ fate[e] = "writtenInGroup" => e.n < entries[i].event.n
<1> DEFINE x == [event |-> worker.event, kinds |-> worker.kinds]
           entries == Append(grouped, x)
<1>1. grouped \in Seq(ToSet(grouped)) /\ x.event = worker.event
    BY DEF LoggerTypeOK
<1>2. /\ worker.at = "grouped" /\ worker.event \in DOMAIN fate /\ fate[worker.event] = "grouped"
      /\ ~InGroup(worker.event)
    BY DEF WorkerGroup, InOnePlace
<1>3. \A e \in DOMAIN fate : e # worker.event /\ e.who = worker.event.who /\ fate[e] \in {"grouped", "writtenInGroup"} =>
          e.n < worker.event.n
    BY <1>2 DEF HandOrder, InHandAt
<1>4. \A i \in DOMAIN grouped : /\ grouped[i].event \in DOMAIN fate /\ fate[grouped[i].event] = "grouped"
                                /\ grouped[i].event # worker.event
    BY <1>2 DEF InOnePlace, InGroup
<1> HIDE DEF x
<1>5. /\ DOMAIN grouped = 1..Len(grouped) /\ DOMAIN entries = 1..(Len(grouped) + 1) /\ Len(grouped) \in Nat
      /\ \A i \in 1..Len(grouped) : entries[i] = grouped[i]
      /\ entries[Len(grouped) + 1] = x
    BY <1>1, AppendedList
<1> HIDE DEF entries
<1>6. \A i \in DOMAIN entries : \/ i \in DOMAIN grouped /\ entries[i] = grouped[i]
                                \/ i = Len(grouped) + 1 /\ entries[i] = x
    BY <1>5
<1>7. \A i, j \in DOMAIN entries : i < j => i \in DOMAIN grouped
    BY <1>5
<1>8. ASSUME NEW i \in DOMAIN entries, NEW j \in DOMAIN entries, i < j, entries[i].event.who = entries[j].event.who
      PROVE  entries[i].event.n < entries[j].event.n
  <2>1. i \in DOMAIN grouped /\ entries[i] = grouped[i]
      BY <1>5, <1>7, <1>8
  <2>2. CASE j \in DOMAIN grouped /\ entries[j] = grouped[j]
      BY <1>8, <2>1, <2>2 DEF GroupOrder
  <2>3. CASE entries[j] = x
      BY <1>1, <1>3, <1>4, <1>8, <2>1, <2>3
  <2> QED
      BY <1>6, <2>2, <2>3
<1>9. ASSUME NEW i \in DOMAIN entries, NEW e \in DOMAIN fate, e.who = entries[i].event.who, fate[e] = "writtenInGroup"
      PROVE  e.n < entries[i].event.n
  <2>1. CASE i \in DOMAIN grouped /\ entries[i] = grouped[i]
      BY <1>9, <2>1 DEF GroupOrder
  <2>2. CASE entries[i] = x
      BY <1>1, <1>2, <1>3, <1>9, <2>2
  <2> QED
      BY <1>6, <2>1, <2>2
<1> QED
    BY <1>8, <1>9 DEF entries, x

\* A step keeps the order of what is grouped.
LEMMA GroupOrderStep ==
    ASSUME LoggerTypeOK, Numbered, InOnePlace, HandOrder, GroupOrder, [Next]_vars
    PROVE  GroupOrder'
<1>1. FatesGrow
    BY FatesStep
<1>2. CASE grouped' = <<>>
    BY <1>2 DEF GroupOrder
<1>3. ASSUME UNCHANGED grouped,
             \A e \in DOMAIN fate' : fate'[e] = "writtenInGroup" => e \in DOMAIN fate /\ fate[e] = "writtenInGroup"
      PROVE  GroupOrder'
    BY <1>3 DEF GroupOrder
<1>4. CASE Elsewhere
    BY <1>3, <1>4, ElsewhereEvents
<1>5. ASSUME NEW p \in Producers, EnqueueBegin(p) \/ EnqueueCount(p) PROVE GroupOrder'
    BY <1>3, <1>5 DEF EnqueueBegin, EnqueueCount
<1>6. ASSUME NEW p \in Producers, EnqueueDrop(p) \/ EnqueuePush(p) PROVE GroupOrder'
  <2>1. UNCHANGED grouped /\ \E what \in {"dropped", "queued"} : Settle({producer[p].event}, what)
      BY <1>6 DEF EnqueueDrop, EnqueuePush
  <2>2. \A e \in DOMAIN fate' : fate'[e] = "writtenInGroup" => e \in DOMAIN fate /\ fate[e] = "writtenInGroup"
      BY <2>1 DEF Settle
  <2> QED
      BY <1>3, <2>1, <2>2
<1>7. CASE WorkerTake \/ WorkerCount \/ WorkerAbort
    BY <1>3, <1>7 DEF WorkerTake, WorkerCount, WorkerAbort
<1>8. CASE WorkerResolve \/ WorkerEmitted
  <2>1. UNCHANGED grouped /\ \E what : Settle({worker.event}, what) /\ what # "writtenInGroup"
    <3>1. CASE WorkerResolve
        BY <3>1 DEF WorkerResolve
    <3>2. CASE WorkerEmitted
        BY <3>2 DEF WorkerEmitted
    <3> QED
        BY <1>8, <3>1, <3>2
  <2>2. \A e \in DOMAIN fate' : fate'[e] = "writtenInGroup" => e \in DOMAIN fate /\ fate[e] = "writtenInGroup"
      BY <2>1 DEF Settle
  <2> QED
      BY <1>3, <2>1, <2>2
<1>9. CASE WorkerGroup
  <2> DEFINE entries == Append(grouped, [event |-> worker.event, kinds |-> worker.kinds])
  <2>1. grouped' = <<>> \/ (grouped' = entries /\ UNCHANGED fate)
      BY <1>9 DEF WorkerGroup, FlushGrouped
  <2>2. /\ \A i, j \in DOMAIN entries :
              i < j /\ entries[i].event.who = entries[j].event.who => entries[i].event.n < entries[j].event.n
        /\ \A i \in DOMAIN entries : \A e \in DOMAIN fate :
              e.who = entries[i].event.who /\ fate[e] = "writtenInGroup" => e.n < entries[i].event.n
      BY <1>9, EntriesInOrder
  <2> HIDE DEF entries
  <2> QED
      BY <1>2, <2>1, <2>2 DEF GroupOrder
<1>10. CASE WorkerFatalCollect \/ \E f \in Threads : FlushCollect(f)
    BY <1>2, <1>10 DEF WorkerFatalCollect, FlushCollect, FlushGrouped
<1> QED
    BY <1>4, <1>5, <1>6, <1>7, <1>8, <1>9, <1>10, TwoKinds DEF EventStep

\* Two lists without repetition and without a common element, one after the other.
LEMMA JoinedOnce ==
    ASSUME NEW S, NEW a \in Seq(S), NEW b \in Seq(S), IsInjective(a), IsInjective(b), ToSet(a) \cap ToSet(b) = {}
    PROVE  IsInjective(a \o b)
<1>1. /\ DOMAIN a = 1..Len(a) /\ DOMAIN b = 1..Len(b) /\ DOMAIN (a \o b) = 1..(Len(a) + Len(b))
      /\ Len(a) \in Nat /\ Len(b) \in Nat
    BY JoinedLists
<1>2. \A i \in DOMAIN (a \o b) : i \in Int
    BY <1>1
<1>3. \A i \in DOMAIN (a \o b) :
          \/ i \in DOMAIN a /\ (a \o b)[i] = a[i]
          \/ i - Len(a) \in DOMAIN b /\ (a \o b)[i] = b[i - Len(a)]
    BY JoinedLists
<1>4. \A i \in DOMAIN a, j \in DOMAIN b : a[i] # b[j]
    BY DEF ToSet
<1> SUFFICES ASSUME NEW i \in DOMAIN (a \o b), NEW j \in DOMAIN (a \o b), (a \o b)[i] = (a \o b)[j]
             PROVE  i = j
    BY DEF IsInjective
<1>5. ASSUME i \in DOMAIN a, j \in DOMAIN a, a[i] = a[j] PROVE i = j
    BY <1>5 DEF IsInjective
<1>6. ASSUME i - Len(a) \in DOMAIN b, j - Len(a) \in DOMAIN b, b[i - Len(a)] = b[j - Len(a)] PROVE i = j
  <2>1. i - Len(a) = j - Len(a)
      BY <1>6 DEF IsInjective
  <2> QED
      BY <1>1, <1>2, <2>1
<1> QED
    BY <1>3, <1>4, <1>5, <1>6

\* A list of at most one element.
LEMMA OneOrNone ==
    ASSUME NEW x
    PROVE  /\ IsInjective(<<>>) /\ ToSet(<<>>) = {}
           /\ IsInjective(<<x>>) /\ ToSet(<<x>>) = {x}
    BY DEF IsInjective, ToSet

\* Each sink of a routing is there once.
LEMMA RoutingOnce ==
    ASSUME NEW c, NEW g \in 0..MaxGen
    PROVE  LET r == ApplyRouting(c, g) IN
           /\ IsInjective(r.defaults) /\ \A s \in ToSet(r.defaults) : s.kind # "level"
           /\ r.byLevel = [l \in Severities |-> <<>>]
<1> DEFINE x == [kind |-> "console", gen |-> g]
           y == [kind |-> "file", gen |-> g]
           a == IF "console" \in c.kinds THEN <<x>> ELSE <<>>
           b == IF "file" \in c.kinds THEN <<y>> ELSE <<>>
           r == ApplyRouting(c, g)
<1>1. x.kind # "level" /\ y.kind # "level" /\ x # y
    OBVIOUS
<1>2. r.defaults = a \o b /\ r.byLevel = [l \in Severities |-> <<>>]
    BY DEF ApplyRouting
<1> HIDE DEF x, y, r
<1>3. a \in Seq({x, y}) /\ b \in Seq({x, y})
  <2>1. <<x>> \in Seq({x, y}) /\ <<y>> \in Seq({x, y}) /\ <<>> \in Seq({x, y})
      OBVIOUS
  <2> QED
      BY <2>1, Zenon
<1>4. IsInjective(a) /\ IsInjective(b) /\ ToSet(a) \subseteq {x} /\ ToSet(b) \subseteq {y}
    BY OneOrNone
<1> HIDE DEF a, b
<1>5. IsInjective(a \o b) /\ ToSet(a \o b) \subseteq ToSet(a) \cup ToSet(b)
    BY <1>1, <1>3, <1>4, JoinedOnce, JoinedLists
<1> QED
    BY <1>1, <1>2, <1>4, <1>5 DEF r

\* A level's sinks are listed once.
LEMMA LevelSinksOnce ==
    ASSUME SinksOK, SinksOnce, NEW l \in Severities
    PROVE  IsInjective(SinksOf(router, l))
<1>1. router.defaults \in Seq(Sinks) /\ router.byLevel[l] \in Seq(Sinks)
    BY DEF SinksOK
<1>2. IsInjective(router.defaults) /\ IsInjective(router.byLevel[l])
    BY DEF SinksOnce
<1>3. ToSet(router.defaults) \cap ToSet(router.byLevel[l]) = {}
    BY DEF SinksOnce
<1> QED
    BY <1>1, <1>2, <1>3, JoinedOnce DEF SinksOf

\* A step keeps every sink once.
LEMMA SinksOnceStep ==
    ASSUME LoggerTypeOK, InOnePlace, SinksOK, SinksOnce, [Next]_vars
    PROVE  SinksOnce'
<1> DEFINE Once(r) == /\ IsInjective(r.defaults) /\ \A s \in ToSet(r.defaults) : s.kind # "level"
                      /\ \A l \in Severities : /\ IsInjective(r.byLevel[l])
                                               /\ \A s \in ToSet(r.byLevel[l]) : s.kind = "level"
<1>1. Once(router')
  <2>1. CASE UNCHANGED router
      BY <2>1 DEF SinksOnce
  <2>2. ASSUME NEW c, gen < MaxGen, router' = ApplyRouting(c, gen + 1) PROVE Once(router')
    <3>1. gen + 1 \in 0..MaxGen
        BY <2>2, LoggerAssumption DEF SinksOK
    <3>2. /\ IsInjective(router'.defaults) /\ \A s \in ToSet(router'.defaults) : s.kind # "level"
          /\ router'.byLevel = [l \in Severities |-> <<>>]
        BY <2>2, <3>1, RoutingOnce
    <3>3. \A l \in Severities : router'.byLevel[l] = <<>>
        BY <3>2
    <3> QED
        BY <3>2, <3>3, OneOrNone
  <2>3. ASSUME NEW k \in LevelSinks, AddLevelSink(k) PROVE Once(router')
    <3> DEFINE x == [kind |-> "level", gen |-> gen]
    <3>1. k \in Severities /\ router' = [router EXCEPT !.byLevel[k] = <<x>>]
        BY <2>3, LoggerAssumption DEF AddLevelSink
    <3>2. x.kind = "level"
        OBVIOUS
    <3> HIDE DEF x
    <3>3. /\ router'.defaults = router.defaults
          /\ \A l \in Severities : router'.byLevel[l] = IF l = k THEN <<x>> ELSE router.byLevel[l]
        BY <3>1 DEF SinksOK
    <3> QED
        BY <3>2, <3>3, OneOrNone DEF SinksOnce
  <2>4. \/ UNCHANGED router
        \/ \E c \in Configs : ApplyConfigV2(c)
        \/ \E kinds \in OutputKinds : SetOutputEnabled(kinds)
        \/ \E l \in LevelSinks : AddLevelSink(l)
    <3>1. EventStep => UNCHANGED router
        BY DEF EventStep, EnqueueBegin, EnqueueCount, EnqueueDrop, EnqueuePush, WorkerTake, WorkerCount,
               WorkerResolve, WorkerGroup, WorkerEmitted, WorkerFatalCollect, WorkerAbort, FlushCollect, routeVars
    <3>2. Elsewhere => \/ UNCHANGED router
                       \/ \E c \in Configs : ApplyConfigV2(c)
                       \/ \E kinds \in OutputKinds : SetOutputEnabled(kinds)
                       \/ \E l \in LevelSinks : AddLevelSink(l)
        BY DEF Elsewhere, WorkerSinks, WorkerWrite, WorkerFatalFlush, WorkerFatalEnd, WorkerDone, WorkerExit,
               PeriodicTick, StopPeriodicFlush, JoinPeriodicFlush, StartPeriodicFlush, StopAsyncWorker,
               JoinAsyncWorker, Close, FlushDrained, FlushSink, FlushEnd, FlushBegin, vars, routeVars
    <3> QED
        BY <3>1, <3>2, TwoKinds
  <2>5. ASSUME NEW c \in Configs, ApplyConfigV2(c) PROVE Once(router')
      BY <2>2, <2>5 DEF ApplyConfigV2
  <2>6. ASSUME NEW kinds \in OutputKinds, SetOutputEnabled(kinds) PROVE Once(router')
      BY <2>2, <2>6 DEF SetOutputEnabled
  <2> QED
      BY <2>1, <2>3, <2>4, <2>5, <2>6
<1>2. worker'.at = "writing" => IsInjective(worker'.sinks)
  <2>1. CASE worker' = worker
      BY <2>1 DEF SinksOnce
  <2>2. CASE WorkerSinks
    <3>1. worker.event.level \in Severities /\ worker'.sinks = SinksOf(router, worker.event.level)
        BY <2>2 DEF WorkerSinks, LoggerTypeOK, EventType, Busy
    <3> QED
        BY <3>1, LevelSinksOnce
  <2>3. CASE WorkerWrite
    <3>1. /\ worker.at = "writing" /\ worker.sinks # <<>> /\ worker.sinks \in Seq(Sinks)
          /\ worker'.sinks = Tail(worker.sinks)
        BY <2>3 DEF WorkerWrite, LoggerTypeOK, SinksOK, Busy
    <3>2. IsInjective(worker.sinks)
        BY <3>1 DEF SinksOnce
    <3> QED
        BY <3>1, <3>2, TailOfList
  <2>4. CASE worker'.at # "writing"
      BY <2>4
  <2>5. \/ worker' = worker \/ worker'.at # "writing" \/ WorkerSinks \/ WorkerWrite
    <3>1. WorkerFatalFlush \/ WorkerFatalEnd \/ WorkerDone \/ WorkerExit => worker'.at # "writing"
        BY DEF WorkerFatalFlush, WorkerFatalEnd, WorkerDone, WorkerExit, LoggerTypeOK
    <3>2. Elsewhere => \/ worker' = worker \/ WorkerSinks \/ WorkerWrite
                       \/ WorkerFatalFlush \/ WorkerFatalEnd \/ WorkerDone \/ WorkerExit
        BY DEF Elsewhere,
           PeriodicTick, StopPeriodicFlush, JoinPeriodicFlush, StartPeriodicFlush, StopAsyncWorker,
           JoinAsyncWorker, Close, FlushDrained, FlushSink, FlushEnd, FlushBegin, AddLevelSink, ApplyConfigV2,
           SetOutputEnabled, vars
    <3>3. WorkerResolve \/ WorkerEmitted => worker'.at # "writing"
        BY DEF WorkerResolve, WorkerEmitted, LoggerTypeOK
    <3>4. WorkerTake \/ WorkerCount \/ WorkerGroup \/ WorkerFatalCollect \/ WorkerAbort => worker'.at # "writing"
      <4>1. WorkerTake \/ WorkerAbort => worker'.at # "writing"
          BY DEF WorkerTake, WorkerAbort, LoggerTypeOK
      <4>2. WorkerCount \/ WorkerGroup \/ WorkerFatalCollect => worker'.at # "writing"
          BY DEF WorkerCount, WorkerGroup, WorkerFatalCollect, LoggerTypeOK
      <4> QED
          BY <4>1, <4>2
    <3>5. EventStep => worker' = worker \/ worker'.at # "writing"
        BY <3>3, <3>4 DEF EventStep, EnqueueBegin, EnqueueCount, EnqueueDrop, EnqueuePush, FlushCollect
    <3> QED
        BY <3>1, <3>2, <3>5, TwoKinds
  <2> QED
      BY <2>1, <2>2, <2>3, <2>4, <2>5
<1> QED
    BY <1>1, <1>2 DEF SinksOnce

\* A group comes to the sinks after all that came in a group before, and in its own order.
LEMMA GroupLines ==
    ASSUME LoggerTypeOK, InOnePlace, SinkOrder, NEW S, NEW entries \in Seq(S), FlushGrouped(entries),
           \A i, j \in DOMAIN entries : entries[i].event = entries[j].event => i = j,
           \A i \in DOMAIN entries :
               entries[i].event \in DOMAIN fate /\ fate[entries[i].event] = "grouped",
           \A i, j \in DOMAIN entries :
               i < j /\ entries[i].event.who = entries[j].event.who => entries[i].event.n < entries[j].event.n,
           \A i \in DOMAIN entries : \A e \in DOMAIN fate :
               e.who = entries[i].event.who /\ fate[e] = "writtenInGroup" => e.n < entries[i].event.n
    PROVE  /\ SinkOrder'
           /\ \A s \in Sinks : \A e \in ToSet(written'[s]) : e \in ToSet(written[s]) \/ fate[e] = "grouped"
<1>1. PICK E : /\ \A e \in E : fate[e] = "grouped"
               /\ E \subseteq DOMAIN fate
               /\ \A e : e \in E <=> \E i \in DOMAIN entries : entries[i].event = e
               /\ DOMAIN fate' = DOMAIN fate
               /\ \A e \in DOMAIN fate : fate'[e] = IF e \in E THEN "writtenInGroup" ELSE fate[e]
    BY FlushGroupedFates
<1>2. written' = [s \in Sinks |-> written[s] \o LinesFor(entries, s)]
    BY DEF FlushGrouped
<1>3. \A i \in DOMAIN entries : entries[i].event.level \in Int /\ i \in Int
  <2>1. \A i \in DOMAIN entries : i \in Int
      BY LenProperties
  <2>2. \A e \in DOMAIN fate : e.level \in Int
    <3>1. DOMAIN fate \subseteq EventType
        BY DEF LoggerTypeOK
    <3> QED
        BY <3>1 DEF EventType, Severities
  <2> QED
      BY <2>1, <2>2
<1>4. ASSUME NEW s \in Sinks
      PROVE  /\ written'[s] \in Seq(DOMAIN fate)
             /\ \A e \in ToSet(written'[s]) : e \in ToSet(written[s]) \/ e \in E
             /\ \A i, j \in DOMAIN written'[s] : i < j =>
                   LET x == written'[s][i]
                       y == written'[s][j]
                   IN  x.who = y.who => /\ fate'[x] \in AtOnce /\ fate'[y] \in AtOnce => x.n < y.n
                                        /\ fate'[x] = "writtenInGroup" /\ fate'[y] = "writtenInGroup" =>
                                               (x.level = y.level => x.n < y.n)
  <2> DEFINE w == written[s]
             lines == LinesFor(entries, s)
  <2>1. w \in Seq(DOMAIN fate) /\ \A e \in ToSet(w) : fate[e] \in AtOnce \cup {"writtenInGroup"}
      BY DEF SinkOrder
  <2>2. \A i, j \in DOMAIN w : i < j =>
            (w[i].who = w[j].who => /\ fate[w[i]] \in AtOnce /\ fate[w[j]] \in AtOnce => w[i].n < w[j].n
                                    /\ fate[w[i]] = "writtenInGroup" /\ fate[w[j]] = "writtenInGroup" =>
                                           (w[i].level = w[j].level => w[i].n < w[j].n))
      BY DEF SinkOrder
  <2>a. PICK n \in Nat : \E place : LinesFrom(entries, s, n, place)
      BY <1>3, LinesInOrder
  <2>b. PICK place : LinesFrom(entries, s, n, place)
      BY <2>a
  <2>3. /\ DOMAIN lines = 1..n /\ lines = [k \in 1..n |-> lines[k]]
        /\ \A k \in 1..n : /\ place[k] \in DOMAIN entries /\ GoesTo(entries[place[k]], s)
                           /\ lines[k] = entries[place[k]].event
        /\ \A k, m \in 1..n : k < m => Before(entries, place[k], place[m])
      BY <2>b DEF LinesFrom
  <2>4. written'[s] = w \o lines
      BY <1>2
  <2> HIDE DEF w, lines
  <2>5. \A k \in 1..n : lines[k] \in E /\ lines[k] \in DOMAIN fate
      BY <1>1, <2>3
  <2>6. lines \in Seq(DOMAIN fate) /\ Len(lines) = n
    <3>1. lines \in [1..n -> DOMAIN fate]
        BY <2>3, <2>5
    <3>2. lines \in Seq(DOMAIN fate)
        BY <3>1, IsASeq
    <3> QED
        BY <2>3, <3>2, LenProperties
  <2>7. /\ w \o lines \in Seq(DOMAIN fate)
        /\ DOMAIN w = 1..Len(w) /\ Len(w) \in Nat /\ DOMAIN (w \o lines) = 1..(Len(w) + Len(lines))
        /\ \A i \in DOMAIN (w \o lines) :
              \/ i \in DOMAIN w /\ (w \o lines)[i] = w[i]
              \/ i - Len(w) \in DOMAIN lines /\ (w \o lines)[i] = lines[i - Len(w)] /\ i \notin DOMAIN w
      BY <2>1, <2>6, JoinedLists
  <2>8. DOMAIN w = 1..Len(w) /\ Len(w) \in Nat /\ DOMAIN (w \o lines) = 1..(Len(w) + n)
      BY <2>6, <2>7
  <2>9. \A i \in DOMAIN (w \o lines) :
            \/ i \in DOMAIN w /\ (w \o lines)[i] = w[i]
            \/ i - Len(w) \in 1..n /\ (w \o lines)[i] = lines[i - Len(w)] /\ i \notin DOMAIN w
      BY <2>3, <2>7
  <2>10. \A e \in ToSet(w) : fate'[e] = fate[e]
    <3>1. \A e \in ToSet(w) : e \in DOMAIN fate /\ e \notin E
        BY <1>1, <2>1, LenProperties DEF ToSet, AtOnce
    <3> QED
        BY <1>1, <3>1
  <2>11. \A e \in ToSet(w \o lines) : e \in ToSet(w) \/ e \in E
      BY <2>5, <2>9 DEF ToSet
  <2>12. ASSUME NEW i \in DOMAIN (w \o lines), NEW j \in DOMAIN (w \o lines), i < j
         PROVE  LET x == (w \o lines)[i]
                    y == (w \o lines)[j]
                IN  x.who = y.who => /\ fate'[x] \in AtOnce /\ fate'[y] \in AtOnce => x.n < y.n
                                     /\ fate'[x] = "writtenInGroup" /\ fate'[y] = "writtenInGroup" =>
                                            (x.level = y.level => x.n < y.n)
    <3> DEFINE x == (w \o lines)[i]
               y == (w \o lines)[j]
    <3> HIDE DEF x, y
    <3>0. i \in Int /\ j \in Int /\ (j \in DOMAIN w => i \in DOMAIN w)
        BY <2>8, <2>12
    <3>1. CASE j \in DOMAIN w /\ y = w[j]
      <4>1. i \in DOMAIN w /\ x = w[i]
          BY <2>9, <3>0, <3>1 DEF x
      <4>2. x \in ToSet(w) /\ y \in ToSet(w)
          BY <3>1, <4>1 DEF ToSet
      <4>3. fate'[x] = fate[x] /\ fate'[y] = fate[y]
          BY <2>10, <4>2
      <4> QED
          BY <2>2, <2>12, <3>1, <4>1, <4>3 DEF x, y
    <3>2. CASE j - Len(w) \in 1..n /\ y = lines[j - Len(w)]
      <4> DEFINE m == j - Len(w)
      <4>1. m \in 1..n /\ y = lines[m] /\ y \in E /\ fate'[y] = "writtenInGroup"
          BY <1>1, <2>5, <3>2
      <4>2. place[m] \in DOMAIN entries /\ y = entries[place[m]].event
          BY <2>3, <4>1
      <4>3. fate'[y] \notin AtOnce
          BY <4>1 DEF AtOnce
      <4> HIDE DEF m
      <4>4. CASE i \in DOMAIN w /\ x = w[i]
        <5>1. x \in ToSet(w) /\ fate'[x] = fate[x] /\ x \in DOMAIN fate
            BY <2>1, <2>8, <2>10, <4>4, LenProperties DEF ToSet
        <5> QED
            BY <4>2, <4>3, <5>1 DEF x, y
      <4>5. CASE i - Len(w) \in 1..n /\ x = lines[i - Len(w)]
        <5> DEFINE k == i - Len(w)
        <5>1. k \in 1..n /\ x = lines[k] /\ k < m
            BY <2>8, <2>12, <3>0, <4>5 DEF m
        <5> HIDE DEF k
        <5>2. place[k] \in DOMAIN entries /\ x = entries[place[k]].event /\ Before(entries, place[k], place[m])
            BY <2>3, <4>1, <5>1
        <5>3. x.level = y.level => place[k] < place[m]
            BY <1>3, <4>2, <5>2 DEF Before
        <5> QED
            BY <4>2, <4>3, <5>2, <5>3 DEF x, y
      <4> QED
          BY <2>9, <4>4, <4>5 DEF x
    <3> QED
        BY <2>9, <3>1, <3>2 DEF y
  <2> QED
      BY <2>4, <2>7, <2>11, <2>12 DEF w
<1>5. \A s \in Sinks : \A e \in ToSet(written'[s]) : fate'[e] \in AtOnce \cup {"writtenInGroup"}
  <2> SUFFICES ASSUME NEW s \in Sinks, NEW e \in ToSet(written'[s])
               PROVE  fate'[e] \in AtOnce \cup {"writtenInGroup"}
      OBVIOUS
  <2>1. written'[s] \in Seq(DOMAIN fate)
      BY <1>4
  <2>2. e \in DOMAIN fate
      BY <2>1, LenProperties DEF ToSet
  <2>3. e \in E \/ fate[e] \in AtOnce \cup {"writtenInGroup"}
      BY <1>4 DEF SinkOrder
  <2> QED
      BY <1>1, <2>2, <2>3
<1>6. written' \in [Sinks -> Seq(DOMAIN fate')]
    BY <1>1, <1>2, <1>4
<1> QED
    BY <1>1, <1>4, <1>5, <1>6 DEF SinkOrder

\* A step writes nothing, or what the worker has in hand, or a group.
LEMMA LinesGrow ==
    ASSUME LoggerTypeOK, InOnePlace, HandOrder, GroupOrder, SinkOrder, [Next]_vars
    PROVE  \/ UNCHANGED written
           \/ WorkerWrite
           \/ /\ SinkOrder'
              /\ \A s \in Sinks : \A e \in ToSet(written'[s]) : e \in ToSet(written[s]) \/ fate[e] = "grouped"
<1>1. Elsewhere => UNCHANGED written \/ WorkerWrite
    BY DEF Elsewhere, WorkerSinks, WorkerFatalFlush, WorkerFatalEnd, WorkerDone, WorkerExit,
           PeriodicTick, StopPeriodicFlush, JoinPeriodicFlush, StartPeriodicFlush, StopAsyncWorker,
           JoinAsyncWorker, Close, FlushDrained, FlushSink, FlushEnd, FlushBegin, AddLevelSink, ApplyConfigV2,
           SetOutputEnabled, vars, outVars
<1>2. EventStep => \/ UNCHANGED written
                   \/ WorkerGroup
                   \/ WorkerFatalCollect \/ \E f \in Threads : FlushCollect(f)
    BY DEF EventStep, EnqueueBegin, EnqueueCount, EnqueueDrop, EnqueuePush, WorkerTake, WorkerCount,
           WorkerResolve, WorkerEmitted, WorkerAbort, outVars
<1> DEFINE Grown == /\ SinkOrder'
                    /\ \A s \in Sinks : \A e \in ToSet(written'[s]) : e \in ToSet(written[s]) \/ fate[e] = "grouped"
<1>3. CASE WorkerGroup
  <2> DEFINE entries == Append(grouped, [event |-> worker.event, kinds |-> worker.kinds])
  <2>1. /\ entries \in Seq(ToSet(entries))
        /\ \A i, j \in DOMAIN entries : entries[i].event = entries[j].event => i = j
        /\ \A i \in DOMAIN entries : entries[i].event \in DOMAIN fate /\ fate[entries[i].event] = "grouped"
        /\ \A e : (\E i \in DOMAIN entries : entries[i].event = e) <=> (InGroup(e) \/ e = worker.event)
        /\ \/ FlushGrouped(entries)
           \/ grouped' = entries /\ UNCHANGED <<metrics, fate>>
      BY <1>3, WorkerGroupEntries
  <2>2. FlushGrouped(entries) \/ UNCHANGED written
      BY <1>3 DEF WorkerGroup, outVars
  <2>3. /\ \A i, j \in DOMAIN entries :
              i < j /\ entries[i].event.who = entries[j].event.who => entries[i].event.n < entries[j].event.n
        /\ \A i \in DOMAIN entries : \A e \in DOMAIN fate :
              e.who = entries[i].event.who /\ fate[e] = "writtenInGroup" => e.n < entries[i].event.n
      BY <1>3, EntriesInOrder
  <2> HIDE DEF entries
  <2>4. FlushGrouped(entries) => Grown
      BY <2>1, <2>3, GroupLines
  <2> QED
      BY <2>2, <2>4
<1>4. CASE WorkerFatalCollect \/ \E f \in Threads : FlushCollect(f)
  <2>1. FlushGrouped(grouped)
      BY <1>4 DEF WorkerFatalCollect, FlushCollect
  <2>2. /\ grouped \in Seq(ToSet(grouped))
        /\ \A i, j \in DOMAIN grouped : grouped[i].event = grouped[j].event => i = j
        /\ \A i \in DOMAIN grouped : grouped[i].event \in DOMAIN fate /\ fate[grouped[i].event] = "grouped"
      BY DEF LoggerTypeOK, InOnePlace
  <2>3. /\ \A i, j \in DOMAIN grouped :
              i < j /\ grouped[i].event.who = grouped[j].event.who => grouped[i].event.n < grouped[j].event.n
        /\ \A i \in DOMAIN grouped : \A e \in DOMAIN fate :
              e.who = grouped[i].event.who /\ fate[e] = "writtenInGroup" => e.n < grouped[i].event.n
      BY DEF GroupOrder
  <2> QED
      BY <2>1, <2>2, <2>3, GroupLines
<1> QED
    BY <1>1, <1>2, <1>3, <1>4, TwoKinds

\* A line of the worker comes after those of its producer that were written at once before.
LEMMA WriteOrder ==
    ASSUME LoggerTypeOK, InOnePlace, SinksOK, HandOrder, SinkOrder, Unwritten, WorkerWrite
    PROVE  SinkOrder'
<1> DEFINE h == Head(worker.sinks)
           e == worker.event
           w == written[h]
<1>1. /\ worker.at = "writing" /\ worker.sinks # <<>> /\ UNCHANGED fate
      /\ written' = [written EXCEPT ![h] = Append(@, e)] \/ UNCHANGED written
    BY DEF WorkerWrite, outVars
<1>2. e \in DOMAIN fate /\ fate[e] = "mixed"
    BY <1>1 DEF InOnePlace
<1>3. h \in Sinks /\ h \in ToSet(worker.sinks)
    BY <1>1, TailOfList DEF SinksOK
<1>4. e \notin ToSet(w)
    BY <1>1, <1>3 DEF Unwritten
<1>5. written \in [Sinks -> Seq(DOMAIN fate)] /\ w \in Seq(DOMAIN fate)
    BY <1>3 DEF SinkOrder
<1>6. \A x \in ToSet(w) : /\ x \in DOMAIN fate /\ fate[x] \in AtOnce \cup {"writtenInGroup"}
                          /\ x.who = e.who /\ fate[x] \in AtOnce => x.n < e.n
  <2>1. \A x \in ToSet(w) : x \in DOMAIN fate /\ fate[x] \in AtOnce \cup {"writtenInGroup"} /\ x # e
      BY <1>3, <1>4, <1>5, LenProperties DEF SinkOrder, ToSet
  <2> QED
      BY <1>1, <2>1 DEF HandOrder, InHandAt, AtOnce
<1>7. CASE UNCHANGED written
    BY <1>1, <1>7 DEF SinkOrder
<1>8. CASE written' = [written EXCEPT ![h] = Append(@, e)]
  <2>1. /\ written'[h] = Append(w, e)
        /\ \A s \in Sinks : s # h => written'[s] = written[s]
      BY <1>3, <1>5, <1>8
  <2> HIDE DEF h, e, w
  <2>2. /\ DOMAIN w = 1..Len(w) /\ DOMAIN Append(w, e) = 1..(Len(w) + 1) /\ Len(w) \in Nat
        /\ \A i \in 1..Len(w) : Append(w, e)[i] = w[i]
        /\ Append(w, e)[Len(w) + 1] = e
        /\ Append(w, e) \in Seq(DOMAIN fate \cup {e})
      BY <1>5, AppendedList
  <2>3. ToSet(Append(w, e)) = ToSet(w) \cup {e}
      BY <1>5, AppendedSet
  <2>4. written' \in [Sinks -> Seq(DOMAIN fate')]
    <3>1. DOMAIN fate \cup {e} = DOMAIN fate
        BY <1>2
    <3>2. Append(w, e) \in Seq(DOMAIN fate)
        BY <2>2, <3>1
    <3> QED
        BY <1>1, <1>3, <1>5, <1>8, <2>1, <3>2
  <2>5. \A s \in Sinks : \A x \in ToSet(written'[s]) : fate'[x] \in AtOnce \cup {"writtenInGroup"}
    <3>1. \A x \in ToSet(written'[h]) : fate'[x] \in AtOnce \cup {"writtenInGroup"}
        BY <1>1, <1>2, <1>6, <2>1, <2>3 DEF AtOnce
    <3> QED
        BY <1>1, <2>1, <3>1 DEF SinkOrder
  <2>6. ASSUME NEW i \in DOMAIN Append(w, e), NEW j \in DOMAIN Append(w, e), i < j
        PROVE  LET x == Append(w, e)[i]
                   y == Append(w, e)[j]
               IN  x.who = y.who => /\ fate[x] \in AtOnce /\ fate[y] \in AtOnce => x.n < y.n
                                    /\ fate[x] = "writtenInGroup" /\ fate[y] = "writtenInGroup" =>
                                           (x.level = y.level => x.n < y.n)
    <3>1. CASE j = Len(w) + 1
      <4>1. i \in DOMAIN w /\ Append(w, e)[i] = w[i] /\ Append(w, e)[j] = e
          BY <2>2, <2>6, <3>1
      <4>2. w[i] \in ToSet(w)
          BY <4>1 DEF ToSet
      <4> QED
          BY <1>2, <1>6, <4>1, <4>2
    <3>2. CASE j # Len(w) + 1
      <4>1. i \in DOMAIN w /\ j \in DOMAIN w /\ Append(w, e)[i] = w[i] /\ Append(w, e)[j] = w[j]
          BY <2>2, <2>6, <3>2
      <4> QED
          BY <1>3, <2>6, <4>1 DEF SinkOrder, w
    <3> QED
        BY <3>1, <3>2
  <2>7. \A s \in Sinks : \A i, j \in DOMAIN written'[s] : i < j =>
          LET x == written'[s][i]
              y == written'[s][j]
          IN  x.who = y.who => /\ fate'[x] \in AtOnce /\ fate'[y] \in AtOnce => x.n < y.n
                               /\ fate'[x] = "writtenInGroup" /\ fate'[y] = "writtenInGroup" =>
                                      (x.level = y.level => x.n < y.n)
    <3> SUFFICES ASSUME NEW s \in Sinks, NEW i \in DOMAIN written'[s], NEW j \in DOMAIN written'[s], i < j
                 PROVE  LET x == written'[s][i]
                            y == written'[s][j]
                        IN  x.who = y.who => /\ fate'[x] \in AtOnce /\ fate'[y] \in AtOnce => x.n < y.n
                                             /\ fate'[x] = "writtenInGroup" /\ fate'[y] = "writtenInGroup" =>
                                                    (x.level = y.level => x.n < y.n)
        OBVIOUS
    <3>1. CASE s = h
        BY <1>1, <2>1, <2>6, <3>1
    <3>2. CASE s # h
        BY <1>1, <2>1, <3>2 DEF SinkOrder
    <3> QED
        BY <3>1, <3>2
  <2> QED
      BY <2>4, <2>5, <2>7 DEF SinkOrder
<1> QED
    BY <1>1, <1>7, <1>8

\* A step keeps the order in the sinks.
LEMMA SinkOrderStep ==
    ASSUME LoggerTypeOK, Numbered, InOnePlace, SinksOK, HandOrder, GroupOrder, SinkOrder, Unwritten, [Next]_vars
    PROVE  SinkOrder'
<1>1. FatesGrow
    BY FatesStep
<1>2. CASE UNCHANGED written
  <2>1. ASSUME NEW s \in Sinks, NEW e \in ToSet(written[s])
        PROVE  /\ e \in DOMAIN fate
               /\ fate'[e] \in AtOnce \cup {"writtenInGroup"}
               /\ fate'[e] \in AtOnce => fate[e] \in AtOnce
               /\ fate'[e] = "writtenInGroup" => fate[e] = "writtenInGroup"
    <3>1. e \in DOMAIN fate /\ fate[e] \in AtOnce \cup {"writtenInGroup"}
        BY LenProperties DEF SinkOrder, ToSet
    <3> QED
        BY <1>1, <3>1 DEF FatesGrow, AtOnce, Settled
  <2>2. \A s \in Sinks : \A i \in DOMAIN written[s] : written[s][i] \in ToSet(written[s])
      BY DEF ToSet
  <2>3. written' \in [Sinks -> Seq(DOMAIN fate')]
    <3>1. \A s \in Sinks : written[s] \in Seq(DOMAIN fate')
      <4> SUFFICES ASSUME NEW s \in Sinks PROVE written[s] \in Seq(DOMAIN fate')
          OBVIOUS
      <4>1. written[s] \in Seq(DOMAIN fate) /\ DOMAIN fate \subseteq DOMAIN fate'
          BY <1>1 DEF SinkOrder, FatesGrow
      <4>2. Len(written[s]) \in Nat /\ written[s] \in [1..Len(written[s]) -> DOMAIN fate']
          BY <4>1, LenProperties
      <4> QED
          BY <4>2, IsASeq
    <3> QED
        BY <1>2, <3>1 DEF SinkOrder
  <2> QED
      BY <1>2, <2>1, <2>2, <2>3 DEF SinkOrder
<1>3. CASE WorkerWrite
    BY <1>3, WriteOrder
<1> QED
    BY <1>2, <1>3, LinesGrow

\* What the worker has in hand is not yet in the sinks it has left.
LEMMA UnwrittenStep ==
    ASSUME LoggerTypeOK, InOnePlace, SinksOK, SinksOnce, HandOrder, GroupOrder, SinkOrder, Unwritten, [Next]_vars
    PROVE  Unwritten'
<1>1. CASE worker'.at \notin {"mixed", "writing"}
    BY <1>1 DEF Unwritten
<1>2. CASE worker' = worker
  <2>1. UNCHANGED written \/ WorkerWrite
        \/ \A s \in Sinks : \A e \in ToSet(written'[s]) : e \in ToSet(written[s]) \/ fate[e] = "grouped"
      BY LinesGrow
  <2>2. worker.at \in {"mixed", "writing"} => fate[worker.event] = "mixed"
      BY DEF InOnePlace
  <2>3. ~WorkerWrite
    <3> SUFFICES ASSUME WorkerWrite PROVE FALSE
        OBVIOUS
    <3>1. /\ worker.sinks # <<>> /\ worker.sinks \in Seq(Sinks) /\ worker.sinks = Tail(worker.sinks)
        BY <1>2 DEF WorkerWrite, LoggerTypeOK, SinksOK, Busy
    <3>2. Len(Tail(worker.sinks)) = Len(worker.sinks) - 1 /\ Len(worker.sinks) \in Nat
        BY <3>1, TailOfList
    <3>3. Len(worker.sinks) = Len(worker.sinks) - 1
        BY <3>1, <3>2
    <3> QED
        BY <3>2, <3>3
  <2>4. \A s \in Sinks : worker.at \in {"mixed", "writing"} /\ worker.event \notin ToSet(written[s]) =>
            worker.event \notin ToSet(written'[s])
      BY <2>1, <2>2, <2>3
  <2>5. worker.at = "writing" => \A s \in ToSet(worker.sinks) : s \in Sinks
      BY LenProperties DEF SinksOK, ToSet
  <2> QED
      BY <1>2, <2>4, <2>5 DEF Unwritten
<1>3. CASE WorkerResolve
  <2>1. /\ worker.at = "resolving" /\ UNCHANGED written /\ worker'.at # "writing"
        /\ worker'.event = worker.event
      BY <1>3 DEF WorkerResolve, outVars, LoggerTypeOK, Busy
  <2>2. fate[worker.event] = "queued"
      BY <2>1 DEF InOnePlace
  <2>3. \A s \in Sinks : worker.event \notin ToSet(written[s])
      BY <2>2 DEF SinkOrder, AtOnce
  <2> QED
      BY <2>1, <2>3 DEF Unwritten
<1>4. CASE WorkerSinks
  <2>1. /\ worker.at = "mixed" /\ UNCHANGED written /\ worker'.at = "writing"
        /\ worker'.event = worker.event
        /\ worker'.sinks = SinksOf(router, worker.event.level)
        /\ worker.event.level \in Severities
      BY <1>4 DEF WorkerSinks, outVars, LoggerTypeOK, Busy, EventType
  <2>2. \A s \in ToSet(worker'.sinks) : s \in Sinks
      BY <2>1, SinksOfLevel, LenProperties DEF ToSet
  <2> QED
      BY <2>1, <2>2 DEF Unwritten
<1>5. CASE WorkerWrite
  <2> DEFINE h == Head(worker.sinks)
  <2>1. /\ worker.at = "writing" /\ worker.sinks # <<>> /\ worker.sinks \in Seq(Sinks)
        /\ worker'.at = "writing" /\ worker'.sinks = Tail(worker.sinks) /\ worker'.event = worker.event
        /\ written' = [written EXCEPT ![h] = Append(@, worker.event)] \/ UNCHANGED written
      BY <1>5 DEF WorkerWrite, LoggerTypeOK, SinksOK, Busy, outVars
  <2>2. IsInjective(worker.sinks)
      BY <2>1 DEF SinksOnce
  <2>3. /\ h \notin ToSet(Tail(worker.sinks))
        /\ ToSet(worker.sinks) = ToSet(Tail(worker.sinks)) \cup {h}
      BY <2>1, <2>2, TailOfList
  <2>4. \A s \in ToSet(worker.sinks) : s \in Sinks
      BY <2>1, LenProperties DEF ToSet
  <2>5. \A s \in ToSet(Tail(worker.sinks)) : written'[s] = written[s]
      BY <2>1, <2>3, <2>4 DEF SinkOrder
  <2> QED
      BY <2>1, <2>3, <2>5 DEF Unwritten
<1>6. \/ worker' = worker \/ worker'.at \notin {"mixed", "writing"} \/ WorkerSinks \/ WorkerWrite \/ WorkerResolve
  <2>1. WorkerFatalFlush \/ WorkerFatalEnd \/ WorkerDone \/ WorkerExit => worker'.at \notin {"mixed", "writing"}
      BY DEF WorkerFatalFlush, WorkerFatalEnd, WorkerDone, WorkerExit, LoggerTypeOK
  <2>2. Elsewhere => \/ worker' = worker \/ WorkerSinks \/ WorkerWrite
                     \/ WorkerFatalFlush \/ WorkerFatalEnd \/ WorkerDone \/ WorkerExit
      BY DEF Elsewhere,
         PeriodicTick, StopPeriodicFlush, JoinPeriodicFlush, StartPeriodicFlush, StopAsyncWorker,
         JoinAsyncWorker, Close, FlushDrained, FlushSink, FlushEnd, FlushBegin, AddLevelSink, ApplyConfigV2,
         SetOutputEnabled, vars
  <2>3. WorkerEmitted \/ WorkerTake \/ WorkerAbort => worker'.at \notin {"mixed", "writing"}
      BY DEF WorkerEmitted, WorkerTake, WorkerAbort, LoggerTypeOK
  <2>4. WorkerCount \/ WorkerGroup \/ WorkerFatalCollect => worker'.at \notin {"mixed", "writing"}
      BY DEF WorkerCount, WorkerGroup, WorkerFatalCollect, LoggerTypeOK
  <2>5. EventStep => worker' = worker \/ worker'.at \notin {"mixed", "writing"} \/ WorkerResolve
      BY <2>3, <2>4 DEF EventStep, EnqueueBegin, EnqueueCount, EnqueueDrop, EnqueuePush, FlushCollect
  <2> QED
      BY <2>1, <2>2, <2>5, TwoKinds
<1> QED
    BY <1>1, <1>2, <1>3, <1>4, <1>5, <1>6

\* The order holds at the start: there are no lines, and each sink of the first routing is there once.
LEMMA OrderInit ==
    Init => OrderInv
<1> SUFFICES ASSUME Init PROVE OrderInv
    OBVIOUS
<1>1. DOMAIN fate = {} /\ worker.at = "waiting" /\ queue = <<>> /\ grouped = <<>>
      /\ written = [s \in Sinks |-> <<>>]
    BY DEF Init
<1>2. ToSet(queue) = {} /\ DOMAIN queue = {} /\ DOMAIN grouped = {}
    BY <1>1 DEF ToSet
<1>3. SinksOnce
  <2>1. 0 \in 0..MaxGen /\ router = ApplyRouting(FirstConfig, 0)
      BY LoggerAssumption DEF Init
  <2>2. /\ IsInjective(router.defaults) /\ \A s \in ToSet(router.defaults) : s.kind # "level"
        /\ router.byLevel = [l \in Severities |-> <<>>]
      BY <2>1, RoutingOnce
  <2>3. \A l \in Severities : IsInjective(router.byLevel[l]) /\ ToSet(router.byLevel[l]) = {}
      BY <2>2, OneOrNone
  <2> QED
      BY <1>1, <2>2, <2>3 DEF SinksOnce
<1>4. QueueOrder
    BY <1>2 DEF QueueOrder
<1>5. HandOrder
    BY <1>1 DEF HandOrder, InHandAt
<1>6. GroupOrder
    BY <1>2 DEF GroupOrder
<1>7. SinkOrder
  <2>1. \A s \in Sinks : written[s] = <<>> /\ ToSet(written[s]) = {} /\ DOMAIN written[s] = {}
      BY <1>1 DEF ToSet
  <2>2. <<>> \in Seq(DOMAIN fate)
      OBVIOUS
  <2>3. written \in [Sinks -> Seq(DOMAIN fate)]
      BY <1>1, <2>2
  <2> QED
      BY <2>1, <2>3 DEF SinkOrder
<1>8. Unwritten
    BY <1>1 DEF Unwritten
<1> QED
    BY <1>3, <1>4, <1>5, <1>6, <1>7, <1>8, LoggerInit DEF OrderInv

\* Every step keeps the order.
LEMMA OrderStep ==
    OrderInv /\ [Next]_vars => OrderInv'
<1> SUFFICES ASSUME OrderInv, [Next]_vars PROVE OrderInv'
    OBVIOUS
<1>1. LoggerInv /\ SinksOnce /\ QueueOrder /\ HandOrder /\ GroupOrder /\ SinkOrder /\ Unwritten
    BY DEF OrderInv
<1>2. LoggerTypeOK /\ Numbered /\ InOnePlace /\ SinksOK
    BY <1>1 DEF LoggerInv, LedgerInv
<1>3. LoggerInv'
    BY <1>1, LoggerStep
<1>4. SinksOnce'
    BY <1>1, <1>2, SinksOnceStep
<1>5. QueueOrder'
    BY <1>1, <1>2, QueueOrderStep
<1>6. HandOrder'
    BY <1>1, <1>2, HandOrderStep
<1>7. GroupOrder'
    BY <1>1, <1>2, GroupOrderStep
<1>8. SinkOrder'
    BY <1>1, <1>2, SinkOrderStep
<1>9. Unwritten'
    BY <1>1, <1>2, UnwrittenStep
<1> QED
    BY <1>3, <1>4, <1>5, <1>6, <1>7, <1>8, <1>9 DEF OrderInv

\* What was accepted reaches the sinks: a Flush is a boundary, and in each sink the lines of one
\* producer and one level that take the same way stand in the order they were logged, each once, for
\* every script, configuration and group limit (StartAsyncWorker, FlushGroupedOutputsLocked, Flush).
THEOREM LinesReachSinksHolds ==
    Spec => []LinesReachSinks
<1>1. Spec => []OrderInv
    BY OrderInit, OrderStep, PTL DEF Spec
<1>2. OrderInv => LogOrder
  <2> SUFFICES ASSUME OrderInv, NEW s \in Sinks, NEW i \in DOMAIN written[s], NEW j \in DOMAIN written[s],
                      i < j,
                      written[s][i].who = written[s][j].who, written[s][i].level = written[s][j].level,
                      fate[written[s][i]] = fate[written[s][j]]
               PROVE  written[s][i].n < written[s][j].n
      BY DEF LogOrder
  <2>1. SinkOrder
      BY DEF OrderInv
  <2>2. written[s][i] \in ToSet(written[s]) /\ written[s][j] \in ToSet(written[s])
      BY DEF ToSet
  <2>3. fate[written[s][i]] \in AtOnce \cup {"writtenInGroup"}
      BY <2>1, <2>2 DEF SinkOrder
  <2> QED
      BY <2>1, <2>3 DEF SinkOrder
<1>3. Spec => []FlushIsBoundary
    BY FlushIsBoundaryHolds
<1>4. LogOrder /\ FlushIsBoundary => LinesReachSinks
    BY DEF LinesReachSinks
<1> QED
    BY <1>1, <1>2, <1>3, <1>4, PTL

===============================================================================
