------------------------ MODULE ThreadPoolLedgerProofs -------------------------
(***************************************************************************)
(* The books of asyncx::ThreadPool, for every number of threads, tasks and *)
(* queue slots: CustodyInv follows each task from the posting call to the  *)
(* end of its run, and on it rest that no accepted task is lost or run     *)
(* twice, that the counters of the tasks and of the scheduler add up, and  *)
(* what an idle and a joined pool have left behind; and no wakeup is lost. *)
(***************************************************************************)
EXTENDS ThreadPoolProofs

------------------------------------------------------------------------------
(* Facts about the data. *)

\* A scheduled entry whose time comes, or which is put back, is the same task.
LEMMA EntryOfTask ==
    ASSUME NEW entry \in ScheduledEntry, NEW b \in BOOLEAN
    PROVE  [entry EXCEPT !.due = b] = [task |-> entry.task, due |-> b]
    BY DEF ScheduledEntry

\* Whoever carries a task carries one of its kind.
LEMMA CarriersStep ==
    ASSUME LifecycleInv, CarriersOfKind, [Next]_vars
    PROVE  CarriersOfKind'
<1> USE ThreadAssumption, TaskAssumption DEF LifecycleInv, TypeOK, PlacesOfKind,
        TasksInHand, CarriersOfKind, Offering, InHand, InEnqueue, MayGoOn, At,
        EnqueueFails, Threads, Enqueuers, NoRequest, history, ScheduledEntry
<1>1. ASSUME NEW p \in Producers, NEW task \in PostTasks, NEW pr \in UsedPriorities,
                NEW kind \in {"post", "try", "until"},
             PostBegin(p, task, pr, kind)
      PROVE  CarriersOfKind'
    BY <1>1 DEF PostBegin
<1>2. ASSUME NEW p \in Producers, NEW task \in DelayedTasks \cup PeriodicTasks, NEW due \in BOOLEAN,
             Schedule(p, task, due)
      PROVE  CarriersOfKind'
    BY <1>2 DEF Schedule
<1>3. ASSUME NEW p \in Producers, NEW entry \in scheduled, CancelScheduled(p, entry)
      PROVE  CarriersOfKind'
    BY <1>3 DEF CancelScheduled
<1>4. ASSUME NEW e \in Enqueuers, Enqueue(e) PROVE CarriersOfKind'
    BY <1>4 DEF Enqueue, EnqueuePush, EnqueueReject, EnqueueFull, EnqueueBlock, EnqueueTimeout,
        EnqueueNotify
<1>5. ASSUME NEW w \in Workers, Worker(w) PROVE CarriersOfKind'
    BY <1>5 DEF Worker, WorkerWait, WorkerExit, WorkerTake, WorkerFinish, WorkerRelease
<1>6. ASSUME NEW entry \in scheduled, SchedulerDispatch(entry) PROVE CarriersOfKind'
    BY <1>6 DEF SchedulerDispatch, AfterDispatch
<1>7. CASE SchedulerWait \/ SchedulerWakes \/ SchedulerExit
    BY <1>7 DEF SchedulerWait, SchedulerWakes, SchedulerExit
<1>8. ASSUME NEW entry \in scheduled, ComesDue(entry) PROVE CarriersOfKind'
    BY <1>8 DEF ComesDue
<1>9. ASSUME NEW i \in Waiters, IdleWaiter(i) PROVE CarriersOfKind'
    BY <1>9 DEF IdleWaiter, IdleCall, IdleResume, IdleTimeout
<1>10. CASE Lifecycle
    BY <1>10 DEF Lifecycle, SetBackpressurePolicy, StartFlags, MayStart, Spawn, SpawnFails,
        Unwind, UnwindEnd, Stop, JoinBegin, JoinEnd, NoThreads, ThreadsEnded, ThreadsOfStart,
        NoThreadYet
<1>11. CASE UNCHANGED vars
    BY <1>11 DEF vars
<1> HIDE DEF LifecycleInv, TypeOK, PlacesOfKind, TasksInHand, CarriersOfKind, Offering,
        InHand, InEnqueue, MayGoOn, At, EnqueueFails, Threads, Enqueuers, NoRequest,
        history, ScheduledEntry
<1> QED
    BY <1>1, <1>2, <1>3, <1>4, <1>5, <1>6, <1>7, <1>8, <1>9, <1>10, <1>11 DEF Next, Posting,
        Scheduler

\* No task that may only run once is copied.
LEMMA OneCopyStep ==
    ASSUME LifecycleInv, CustodyInv, [Next]_vars
    PROVE  OneCopy'
<1> USE ThreadAssumption, TaskAssumption DEF LifecycleInv, TypeOK, PlacesOfKind,
        TasksInHand, QueueTypeOK, CustodyInv, CarriersOfKind, OneCopy, OnePlace, Offering,
        Offered, InHand, Pending, Queued, Running, OneShot, InEnqueue, MayGoOn, At,
        EnqueueFails, Threads, Enqueuers, Entry, ScheduledEntry, queueVars, history
<1>1. ASSUME NEW p \in Producers, NEW task \in PostTasks, NEW pr \in UsedPriorities,
                NEW kind \in {"post", "try", "until"},
             PostBegin(p, task, pr, kind)
      PROVE  OneCopy'
    BY <1>1 DEF PostBegin
<1>2. ASSUME NEW p \in Producers, NEW task \in DelayedTasks \cup PeriodicTasks, NEW due \in BOOLEAN,
             Schedule(p, task, due)
      PROVE  OneCopy'
    BY <1>2 DEF Schedule
<1>3. ASSUME NEW p \in Producers, NEW entry \in scheduled, CancelScheduled(p, entry) PROVE OneCopy'
    BY <1>3 DEF CancelScheduled
<1>4. ASSUME NEW e \in Enqueuers, EnqueuePush(e) PROVE OneCopy'
    BY <1>4 DEF EnqueuePush, Push
<1>5. ASSUME NEW e \in Enqueuers, EnqueueReject(e) \/ EnqueueFull(e) \/ EnqueueTimeout(e)
      PROVE  OneCopy'
    BY <1>5 DEF EnqueueReject, EnqueueFull, EnqueueTimeout
<1>6. ASSUME NEW e \in Enqueuers, EnqueueBlock(e) \/ EnqueueNotify(e) PROVE OneCopy'
    BY <1>6 DEF EnqueueBlock, EnqueueNotify
<1>7. ASSUME NEW w \in Workers, WorkerWait(w) PROVE OneCopy'
    BY <1>7 DEF WorkerWait
<1>8. ASSUME NEW w \in Workers, WorkerExit(w) PROVE OneCopy'
    BY <1>8 DEF WorkerExit
<1>9. ASSUME NEW w \in Workers, WorkerTake(w) PROVE OneCopy'
    BY <1>9 DEF WorkerTake, Dispatch, Oldest, OfPriority
<1>10. ASSUME NEW w \in Workers, WorkerFinish(w) PROVE OneCopy'
    BY <1>10 DEF WorkerFinish
<1>11. ASSUME NEW w \in Workers, WorkerRelease(w) PROVE OneCopy'
    BY <1>11 DEF WorkerRelease
<1>12. ASSUME NEW entry \in scheduled, SchedulerDispatch(entry) PROVE OneCopy'
    <2> DEFINE y == [entry EXCEPT !.due = FALSE]
    <2>1. PICK z \in {{}, {y}} : scheduled' = (scheduled \ {entry}) \cup z
          BY <1>12 DEF SchedulerDispatch, AfterDispatch
    <2>2. y.task = entry.task
          BY EntryOfTask
    <2> HIDE DEF y
    <2> QED
          BY <1>12, <2>1, <2>2 DEF SchedulerDispatch
<1>13. CASE SchedulerWait \/ SchedulerWakes \/ SchedulerExit
    BY <1>13 DEF SchedulerWait, SchedulerWakes, SchedulerExit
<1>14. ASSUME NEW entry \in scheduled, ComesDue(entry) PROVE OneCopy'
    <2> DEFINE y == [entry EXCEPT !.due = TRUE]
    <2>1. y.task = entry.task /\ scheduled' = (scheduled \ {entry}) \cup {y}
          BY <1>14, EntryOfTask DEF ComesDue
    <2> HIDE DEF y
    <2> QED
          BY <1>14, <2>1 DEF ComesDue
<1>15. ASSUME NEW i \in Waiters, IdleWaiter(i) PROVE OneCopy'
    BY <1>15 DEF IdleWaiter, IdleCall, IdleResume, IdleTimeout
<1>16. CASE Lifecycle
    BY <1>16 DEF Lifecycle, SetBackpressurePolicy, StartFlags, MayStart, Spawn, SpawnFails,
        Unwind, UnwindEnd, Stop, JoinBegin, JoinEnd, NoThreads, ThreadsEnded, ThreadsOfStart,
        NoThreadYet, Discard
<1>17. CASE UNCHANGED vars
    BY <1>17 DEF vars
<1> HIDE DEF LifecycleInv, TypeOK, PlacesOfKind, TasksInHand, QueueTypeOK, CustodyInv,
        CarriersOfKind, OneCopy, OnePlace, Offering, Offered, InHand, Pending, Queued,
        Running, OneShot, InEnqueue, MayGoOn, At, EnqueueFails, Threads, Enqueuers, Entry,
        ScheduledEntry, queueVars, history
<1> QED
    BY <1>1, <1>2, <1>3, <1>4, <1>5, <1>6, <1>7, <1>8, <1>9, <1>10, <1>11, <1>12, <1>13, <1>14,
        <1>15, <1>16, <1>17 DEF Next, Posting, Enqueue, Worker, Scheduler

\* A task moves from one place to the next.
LEMMA OnePlaceStep ==
    ASSUME LifecycleInv, CustodyInv, [Next]_vars
    PROVE  OnePlace'
<1> USE ThreadAssumption, TaskAssumption DEF LifecycleInv, TypeOK, PlacesOfKind,
        TasksInHand, QueueTypeOK, CustodyInv, CarriersOfKind, OneCopy, OnePlace, Offering,
        Offered, InHand, Pending, Queued, Running, OneShot, InEnqueue, MayGoOn, At,
        EnqueueFails, Threads, Enqueuers, Entry, ScheduledEntry, queueVars, history
<1>1. ASSUME NEW p \in Producers, NEW task \in PostTasks, NEW pr \in UsedPriorities,
                NEW kind \in {"post", "try", "until"},
             PostBegin(p, task, pr, kind)
      PROVE  OnePlace'
    BY <1>1 DEF PostBegin
<1>2. ASSUME NEW p \in Producers, NEW task \in DelayedTasks \cup PeriodicTasks, NEW due \in BOOLEAN,
             Schedule(p, task, due)
      PROVE  OnePlace'
    <2>1. CASE accepted' = accepted /\ Pending' = Pending
          BY <1>2, <2>1 DEF Schedule
    <2>2. CASE accepted' = accepted \cup {task} /\ Pending' = Pending \cup {task}
          BY <1>2, <2>2 DEF Schedule
    <2>3. \/ accepted' = accepted /\ scheduled' = scheduled
          \/ accepted' = accepted \cup {task} /\ \E x : x.task = task /\ scheduled' = scheduled \cup {x}
          BY <1>2 DEF Schedule
    <2> QED
          BY <2>1, <2>2, <2>3
<1>3. ASSUME NEW p \in Producers, NEW entry \in scheduled, CancelScheduled(p, entry) PROVE OnePlace'
    BY <1>3 DEF CancelScheduled
<1>4. ASSUME NEW e \in Enqueuers, EnqueuePush(e) PROVE OnePlace'
    <2> DEFINE t == request[e].task
    <2>1. PICK x : x.task = t /\ queue' = queue \cup {x}
          BY <1>4 DEF EnqueuePush, Push
    <2>4. Queued' = Queued \cup {t} /\ accepted' = accepted \cup {t}
          BY <1>4, <2>1 DEF EnqueuePush
    <2>2. e = Sched => InHand = {t} /\ InHand' = {} /\ Offered' = Offered
          BY <1>4 DEF EnqueuePush
    <2>3. e # Sched => t \in Offered /\ Offered' = Offered \ {t} /\ InHand' = InHand
          BY <1>4 DEF EnqueuePush
    <2>5. UNCHANGED <<Pending, Running, fresh, finished, dropped>>
          BY <1>4 DEF EnqueuePush
    <2>6. Offered \subseteq PostTasks /\ InHand \subseteq DelayedTasks \cup PeriodicTasks
          OBVIOUS
    <2> HIDE DEF LifecycleInv, TypeOK, CarriersOfKind, OneCopy, Offered, InHand, Pending, Queued, Running, t
    <2>7. CASE e = Sched
          BY <2>2, <2>4, <2>5, <2>6, <2>7
    <2>8. CASE e # Sched
          BY <2>3, <2>4, <2>5, <2>6, <2>8
    <2> QED
          BY <2>7, <2>8
<1>5. ASSUME NEW e \in Enqueuers, EnqueueReject(e) \/ EnqueueFull(e) \/ EnqueueTimeout(e)
      PROVE  OnePlace'
    BY <1>5 DEF EnqueueReject, EnqueueFull, EnqueueTimeout
<1>6. ASSUME NEW e \in Enqueuers, EnqueueBlock(e) \/ EnqueueNotify(e) PROVE OnePlace'
    BY <1>6 DEF EnqueueBlock, EnqueueNotify
<1>7. ASSUME NEW w \in Workers, WorkerWait(w) PROVE OnePlace'
    BY <1>7 DEF WorkerWait
<1>8. ASSUME NEW w \in Workers, WorkerExit(w) PROVE OnePlace'
    BY <1>8 DEF WorkerExit
<1>9. ASSUME NEW w \in Workers, WorkerTake(w) PROVE OnePlace'
    BY <1>9 DEF WorkerTake, Dispatch, Oldest, OfPriority
<1>10. ASSUME NEW w \in Workers, WorkerFinish(w) PROVE OnePlace'
    BY <1>10 DEF WorkerFinish
<1>11. ASSUME NEW w \in Workers, WorkerRelease(w) PROVE OnePlace'
    BY <1>11 DEF WorkerRelease
<1>12. ASSUME NEW entry \in scheduled, SchedulerDispatch(entry) PROVE OnePlace'
    BY <1>12 DEF SchedulerDispatch, AfterDispatch
<1>13. CASE SchedulerWait \/ SchedulerWakes \/ SchedulerExit
    BY <1>13 DEF SchedulerWait, SchedulerWakes, SchedulerExit
<1>14. ASSUME NEW entry \in scheduled, ComesDue(entry) PROVE OnePlace'
    <2> DEFINE y == [entry EXCEPT !.due = TRUE]
    <2>1. y.task = entry.task /\ scheduled' = (scheduled \ {entry}) \cup {y}
          BY <1>14, EntryOfTask DEF ComesDue
    <2> HIDE DEF y
    <2>2. Pending' = Pending
          BY <2>1
    <2> QED
          BY <1>14, <2>2 DEF ComesDue
<1>15. ASSUME NEW i \in Waiters, IdleWaiter(i) PROVE OnePlace'
    BY <1>15 DEF IdleWaiter, IdleCall, IdleResume, IdleTimeout
<1>16. CASE Lifecycle
    BY <1>16 DEF Lifecycle, SetBackpressurePolicy, StartFlags, MayStart, Spawn, SpawnFails,
        Unwind, UnwindEnd, Stop, JoinBegin, JoinEnd, NoThreads, ThreadsEnded, ThreadsOfStart,
        NoThreadYet, Discard
<1>17. CASE UNCHANGED vars
    BY <1>17 DEF vars
<1> HIDE DEF LifecycleInv, TypeOK, PlacesOfKind, TasksInHand, QueueTypeOK, CustodyInv,
        CarriersOfKind, OneCopy, OnePlace, Offering, Offered, InHand, Pending, Queued,
        Running, OneShot, InEnqueue, MayGoOn, At, EnqueueFails, Threads, Enqueuers, Entry,
        ScheduledEntry, queueVars, history
<1> QED
    BY <1>1, <1>2, <1>3, <1>4, <1>5, <1>6, <1>7, <1>8, <1>9, <1>10, <1>11, <1>12, <1>13, <1>14,
        <1>15, <1>16, <1>17 DEF Next, Posting, Enqueue, Worker, Scheduler

\* What is pushed next is new.
LEMMA NewEntriesStep ==
    ASSUME LifecycleInv, CustodyInv, [Next]_vars
    PROVE  NewEntries'
<1> USE ThreadAssumption, TaskAssumption DEF LifecycleInv, TypeOK, PlacesOfKind,
        TasksInHand, QueueTypeOK, CustodyInv, CarriersOfKind, NewEntries, NoThreadYet,
        ThreadsOfStart, SlotOfStart, FlagsAgree, Offering, InHand, Queued, InEnqueue,
        MayGoOn, At, EnqueueFails, Threads, Enqueuers, Entry, queueVars, history
<1>1. ASSUME NEW p \in Producers, NEW task \in PostTasks, NEW pr \in UsedPriorities,
                NEW kind \in {"post", "try", "until"},
             PostBegin(p, task, pr, kind)
      PROVE  NewEntries'
    BY <1>1 DEF PostBegin
<1>2. ASSUME NEW p \in Producers, NEW task \in DelayedTasks \cup PeriodicTasks, NEW due \in BOOLEAN,
             Schedule(p, task, due)
      PROVE  NewEntries'
    BY <1>2 DEF Schedule
<1>3. ASSUME NEW p \in Producers, NEW entry \in scheduled, CancelScheduled(p, entry)
      PROVE  NewEntries'
    BY <1>3 DEF CancelScheduled
<1>4. ASSUME NEW e \in Enqueuers, EnqueuePush(e) PROVE NewEntries'
    BY <1>4 DEF EnqueuePush, Push
<1>5. ASSUME NEW e \in Enqueuers, EnqueueReject(e) \/ EnqueueFull(e) \/ EnqueueTimeout(e)
      PROVE  NewEntries'
    BY <1>5 DEF EnqueueReject, EnqueueFull, EnqueueTimeout
<1>6. ASSUME NEW e \in Enqueuers, EnqueueBlock(e) \/ EnqueueNotify(e) PROVE NewEntries'
    BY <1>6 DEF EnqueueBlock, EnqueueNotify
<1>7. ASSUME NEW w \in Workers, Worker(w) PROVE NewEntries'
    BY <1>7 DEF Worker, WorkerWait, WorkerExit, WorkerTake, WorkerFinish, WorkerRelease,
        Dispatch, Oldest, OfPriority
<1>8. ASSUME NEW entry \in scheduled, SchedulerDispatch(entry) PROVE NewEntries'
    BY <1>8 DEF SchedulerDispatch, AfterDispatch
<1>9. CASE SchedulerWait \/ SchedulerWakes \/ SchedulerExit
    BY <1>9 DEF SchedulerWait, SchedulerWakes, SchedulerExit
<1>10. ASSUME NEW entry \in scheduled, ComesDue(entry) PROVE NewEntries'
    BY <1>10 DEF ComesDue
<1>11. ASSUME NEW i \in Waiters, IdleWaiter(i) PROVE NewEntries'
    BY <1>11 DEF IdleWaiter, IdleCall, IdleResume, IdleTimeout
<1>12. CASE Lifecycle
    BY <1>12 DEF Lifecycle, SetBackpressurePolicy, StartFlags, MayStart, Spawn, SpawnFails,
        Unwind, UnwindEnd, Stop, JoinBegin, JoinEnd, NoThreads, ThreadsEnded
<1>13. CASE UNCHANGED vars
    BY <1>13 DEF vars
<1> HIDE DEF LifecycleInv, TypeOK, PlacesOfKind, TasksInHand, QueueTypeOK, CustodyInv,
        CarriersOfKind, NewEntries, NoThreadYet, ThreadsOfStart, SlotOfStart, FlagsAgree,
        Offering, InHand, Queued, InEnqueue, MayGoOn, At, EnqueueFails, Threads,
        Enqueuers, Entry, queueVars, history
<1> QED
    BY <1>1, <1>2, <1>3, <1>4, <1>5, <1>6, <1>7, <1>8, <1>9, <1>10, <1>11, <1>12, <1>13 DEF
        Next, Posting, Enqueue, Scheduler

\* A new pool holds no task.
LEMMA CustodyInit == Init => CustodyInv
<1> SUFFICES ASSUME Init PROVE CustodyInv
    OBVIOUS
<1> USE ThreadAssumption, TaskAssumption DEF Init, QueueInit, Threads, Enqueuers
<1>1. Offering = {} /\ InHand = {} /\ Queued = {} /\ Pending = {} /\ Running = {}
    BY DEF Offering, InEnqueue, InHand, At, Queued, Pending, Running
<1>2. CarriersOfKind
    BY <1>1 DEF CarriersOfKind
<1>3. OneCopy
    BY <1>1 DEF OneCopy, OneShot
<1>4. OnePlace
    BY <1>1 DEF OnePlace, Offered
<1>5. NewEntries
    BY <1>1 DEF NewEntries
<1> QED
    BY <1>2, <1>3, <1>4, <1>5 DEF CustodyInv

\* Every task the pool has accepted is in one place at a time, and nothing holds a
\* second copy of it, from the posting call to the end of its run.
THEOREM TaskCustody == Spec => []CustodyInv
<1>1. LifecycleInv /\ CustodyInv /\ [Next]_vars => CustodyInv'
    BY CarriersStep, OneCopyStep, OnePlaceStep, NewEntriesStep DEF CustodyInv
<1> QED
    BY <1>1, CustodyInit, PoolLifecycle, PTL DEF Spec

\* The six places are told apart by CustodyInv.
LEMMA CustodyPlaces == LifecycleInv /\ CustodyInv => ExactlyOnce
<1> SUFFICES ASSUME LifecycleInv, CustodyInv, NEW task \in accepted \cap OneShot
             PROVE  /\ \E place \in DOMAIN Whereabouts :
                          {p \in DOMAIN Whereabouts : task \in Whereabouts[p]} = {place}
                    /\ \A e, f \in queue : e.task = task /\ f.task = task => e = f
                    /\ \A v, w \in Workers : job[v] = task /\ job[w] = task => v = w
    BY DEF ExactlyOnce
<1>1. /\ DOMAIN Whereabouts = {"pending", "inHand", "queued", "running", "finished", "dropped"}
      /\ Whereabouts["pending"] = Pending /\ Whereabouts["inHand"] = InHand
      /\ Whereabouts["queued"] = Queued /\ Whereabouts["running"] = Running
      /\ Whereabouts["finished"] = finished /\ Whereabouts["dropped"] = dropped
    BY DEF Whereabouts
<1>2. \E place \in DOMAIN Whereabouts :
          \A p \in DOMAIN Whereabouts : task \in Whereabouts[p] <=> p = place
    BY <1>1 DEF CustodyInv, OnePlace
<1>3. \A e, f \in queue : e.task = task /\ f.task = task => e = f
    BY DEF CustodyInv, OneCopy
<1>4. \A v, w \in Workers : job[v] = task /\ job[w] = task => v = w
    BY DEF CustodyInv, OneCopy
<1> QED
    BY <1>2, <1>3, <1>4

\* No accepted one-shot task is lost and none runs twice, through backpressure,
\* cancellation, stop requests, failed starts and restarts.
THEOREM EveryTaskInOnePlace == Spec => []ExactlyOnce
    BY CustodyPlaces, TaskCustody, PoolLifecycle, PTL

------------------------------------------------------------------------------
(* The counters of the tasks. *)

\* There are finitely many threads.
LEMMA ThreadsFinite ==
    ASSUME NEW places
    PROVE  IsFiniteSet(At(places)) /\ Cardinality(At(places)) \in Nat
<1>1. At(places) \in SUBSET Threads
    BY DEF At
<1> QED
    BY <1>1, ThreadAssumption, FS_Subset, FS_CardinalityType

\* Sets of threads that differ by one thread.
LEMMA ThreadCount ==
    ASSUME NEW S \in SUBSET Threads, NEW t \in Threads
    PROVE  /\ Cardinality(S) \in Nat
           /\ t \notin S => Cardinality(S \cup {t}) = Cardinality(S) + 1
           /\ t \in S => /\ Cardinality(S) > 0
                         /\ Cardinality(S \ {t}) = Cardinality(S) - 1
<1>1. IsFiniteSet(S)
    BY ThreadAssumption, FS_Subset
<1>2. Cardinality(S) \in Nat /\ (S # {} => Cardinality(S) # 0)
    BY <1>1, FS_CardinalityType, FS_EmptySet
<1>3. t \notin S => Cardinality(S \cup {t}) = Cardinality(S) + 1
    BY <1>1, FS_AddElement
<1>4. t \in S => Cardinality(S \ {t}) = Cardinality(S) - 1
    BY <1>1, FS_RemoveElement
<1> QED
    BY <1>2, <1>3, <1>4

\* A push adds exactly one entry to the queue: no queued entry equals the new one.
LEMMA PushAddsOne ==
    ASSUME LifecycleInv, CustodyInv, NEW e \in Enqueuers, EnqueuePush(e)
    PROVE  Cardinality(queue') = Cardinality(queue) + 1
<1> DEFINE x == [task |-> request[e].task, priority |-> request[e].priority,
                 sequence |-> nextSequence]
<1>1. queue' = queue \cup {x} /\ x.task = request[e].task /\ x.sequence = nextSequence
    BY DEF EnqueuePush, Push
<1> HIDE DEF x
<1>2. e \in Producers => x.task \in Offered /\ x.task \in PostTasks
    BY <1>1 DEF EnqueuePush, MayGoOn, Offered, Offering, CustodyInv, CarriersOfKind
<1>3. e = Sched => x.task \in InHand
    BY <1>1 DEF EnqueuePush, MayGoOn, InEnqueue, InHand, At, Threads
<1>4. x \notin queue
  <2>1. ASSUME e \in Producers, x \in queue PROVE FALSE
        BY <1>2, <2>1 DEF Queued, CustodyInv, OnePlace, OneShot
  <2>2. ASSUME e = Sched, x \in queue PROVE FALSE
        BY <1>1, <1>3, <2>2, TaskAssumption
           DEF CustodyInv, CarriersOfKind, NewEntries, LifecycleInv, TypeOK, QueueTypeOK
  <2> QED
        BY <2>1, <2>2 DEF Enqueuers
<1> QED
    BY <1>1, <1>4, FS_AddElement DEF LifecycleInv, TypeOK, QueueTypeOK

\* A dispatch takes exactly one entry.
LEMMA TakeRemovesOne ==
    ASSUME LifecycleInv, NEW w \in Workers, WorkerTake(w)
    PROVE  Cardinality(queue) \in Nat /\ Cardinality(queue') = Cardinality(queue) - 1
<1>1. PICK e \in queue : queue' = queue \ {e}
    BY DEF WorkerTake, Dispatch
<1> QED
    BY <1>1, FS_RemoveElement, FS_CardinalityType DEF LifecycleInv, TypeOK, QueueTypeOK

InTask == At({"w_run"})

\* A worker that takes a task is one more that runs one.
LEMMA EntersTask ==
    ASSUME NEW w \in Threads, pc \in [Threads -> Places], pc[w] = "w_check",
           pc' = [pc EXCEPT ![w] = "w_run"]
    PROVE  Cardinality(InTask') = Cardinality(InTask) + 1 /\ Cardinality(InTask) \in Nat
<1>1. w \notin InTask /\ InTask' = InTask \cup {w} /\ InTask \in SUBSET Threads
    BY DEF InTask, At
<1> QED
    BY <1>1, ThreadCount

\* Taking and finishing a task keep the ledger; no other step changes who runs
\* one.
LEMMA InTaskStep ==
    ASSUME LifecycleInv, CustodyInv, TaskLedger, [Next]_vars
    PROVE  UNCHANGED InTask \/ TaskLedger'
<1> USE ThreadAssumption DEF LifecycleInv, TypeOK, PlacesOfKind, TasksInHand,
        ThreadsOfStart, NoThreadYet, InTask, At, InEnqueue, MayGoOn, EnqueueFails,
        Threads, Enqueuers, history
<1>1. ASSUME NEW p \in Producers, NEW task \in PostTasks, NEW pr \in UsedPriorities,
                NEW kind \in {"post", "try", "until"},
             PostBegin(p, task, pr, kind)
      PROVE  UNCHANGED InTask \/ TaskLedger'
    BY <1>1 DEF PostBegin
<1>2. ASSUME NEW p \in Producers, NEW task \in DelayedTasks \cup PeriodicTasks, NEW due \in BOOLEAN,
             Schedule(p, task, due)
      PROVE  UNCHANGED InTask \/ TaskLedger'
    BY <1>2 DEF Schedule
<1>3. ASSUME NEW p \in Producers, NEW entry \in scheduled, CancelScheduled(p, entry)
      PROVE  UNCHANGED InTask \/ TaskLedger'
    BY <1>3 DEF CancelScheduled
<1>4. ASSUME NEW e \in Enqueuers, Enqueue(e) PROVE UNCHANGED InTask \/ TaskLedger'
    BY <1>4 DEF Enqueue, EnqueuePush, EnqueueReject, EnqueueFull, EnqueueBlock, EnqueueTimeout,
        EnqueueNotify
<1>5. ASSUME NEW w \in Workers, WorkerWait(w) PROVE UNCHANGED InTask \/ TaskLedger'
    BY <1>5 DEF WorkerWait
<1>6. ASSUME NEW w \in Workers, WorkerExit(w) PROVE UNCHANGED InTask \/ TaskLedger'
    BY <1>6 DEF WorkerExit
<1>7. ASSUME NEW w \in Workers, WorkerTake(w) PROVE UNCHANGED InTask \/ TaskLedger'
    <2>1. Cardinality(queue) \in Nat /\ Cardinality(queue') = Cardinality(queue) - 1
          BY <1>7, TakeRemovesOne
    <2>2. /\ pc[w] = "w_check" /\ w \in Threads /\ pc' = [pc EXCEPT ![w] = "w_run"]
          /\ pc \in [Threads -> Places]
          BY <1>7 DEF WorkerTake
    <2> HIDE DEF InTask
    <2>3. Cardinality(InTask') = Cardinality(InTask) + 1 /\ Cardinality(InTask) \in Nat
          BY <2>2, EntersTask
    <2>4. stats' = stats /\ discarded' = discarded
          BY <1>7 DEF WorkerTake
    <2> QED
          BY <2>1, <2>3, <2>4 DEF TaskLedger, InTask, Counters
<1>8. ASSUME NEW w \in Workers, WorkerFinish(w) PROVE UNCHANGED InTask \/ TaskLedger'
    <2>1. w \in InTask /\ InTask' = InTask \ {w} /\ InTask \in SUBSET Threads
          BY <1>8 DEF WorkerFinish
    <2> HIDE DEF InTask
    <2>2. Cardinality(InTask') = Cardinality(InTask) - 1 /\ Cardinality(InTask) \in Nat
          BY <2>1, ThreadCount
    <2>3. Cardinality(queue) \in Nat
          BY FS_CardinalityType DEF QueueTypeOK
    <2>4. /\ stats' = [stats EXCEPT !["completed"] = @ + 1]
          /\ discarded' = discarded /\ queue' = queue
          BY <1>8 DEF WorkerFinish, Bump, queueVars
    <2> QED
          BY <2>2, <2>3, <2>4 DEF TaskLedger, InTask, Counters
<1>9. ASSUME NEW w \in Workers, WorkerRelease(w) PROVE UNCHANGED InTask \/ TaskLedger'
    BY <1>9 DEF WorkerRelease
<1>10. ASSUME NEW entry \in scheduled, SchedulerDispatch(entry) PROVE UNCHANGED InTask \/ TaskLedger'
    BY <1>10 DEF SchedulerDispatch, AfterDispatch
<1>11. CASE SchedulerWait \/ SchedulerWakes \/ SchedulerExit
    BY <1>11 DEF SchedulerWait, SchedulerWakes, SchedulerExit
<1>12. ASSUME NEW entry \in scheduled, ComesDue(entry) PROVE UNCHANGED InTask \/ TaskLedger'
    BY <1>12 DEF ComesDue
<1>13. ASSUME NEW i \in Waiters, IdleWaiter(i) PROVE UNCHANGED InTask \/ TaskLedger'
    BY <1>13 DEF IdleWaiter, IdleCall, IdleResume, IdleTimeout
<1>14. CASE Lifecycle
    BY <1>14 DEF Lifecycle, SetBackpressurePolicy, StartFlags, MayStart, Spawn, SpawnFails,
        Unwind, UnwindEnd, Stop, JoinBegin, JoinEnd, NoThreads, ThreadsEnded
<1>15. CASE UNCHANGED vars
    BY <1>15 DEF vars
<1> HIDE DEF LifecycleInv, TypeOK, PlacesOfKind, TasksInHand, ThreadsOfStart, NoThreadYet,
        InTask, At, InEnqueue, MayGoOn, EnqueueFails, Threads, Enqueuers, history
<1> QED
    BY <1>1, <1>2, <1>3, <1>4, <1>5, <1>6, <1>7, <1>8, <1>9, <1>10, <1>11, <1>12, <1>13, <1>14,
        <1>15 DEF Next, Posting, Worker, Scheduler

\* Every other step moves two counts of the ledger, or none.
LEMMA TaskLedgerStep ==
    ASSUME LifecycleInv, CustodyInv, TaskLedger, [Next]_vars
    PROVE  (UNCHANGED InTask => TaskLedger')
<1> USE DEF LifecycleInv, TypeOK, QueueTypeOK, TaskLedger, InTask, Bump, Counters,
        EnqueueFails, queueVars, history
<1>1. ASSUME NEW p \in Producers, NEW task \in PostTasks, NEW pr \in UsedPriorities,
                NEW kind \in {"post", "try", "until"},
             PostBegin(p, task, pr, kind)
      PROVE  (UNCHANGED InTask => TaskLedger')
    BY <1>1 DEF PostBegin
<1>2. ASSUME NEW p \in Producers, NEW task \in DelayedTasks \cup PeriodicTasks, NEW due \in BOOLEAN,
             Schedule(p, task, due)
      PROVE  (UNCHANGED InTask => TaskLedger')
    BY <1>2 DEF Schedule
<1>3. ASSUME NEW p \in Producers, NEW entry \in scheduled, CancelScheduled(p, entry)
      PROVE  (UNCHANGED InTask => TaskLedger')
    BY <1>3 DEF CancelScheduled
<1>4. ASSUME NEW e \in Enqueuers, EnqueuePush(e) PROVE (UNCHANGED InTask => TaskLedger')
    <2>1. Cardinality(queue') = Cardinality(queue) + 1
          BY <1>4, PushAddsOne
    <2>2. stats' = [stats EXCEPT !["submitted"] = @ + 1] /\ UNCHANGED discarded
          BY <1>4 DEF EnqueuePush, Push
    <2>3. Cardinality(queue) \in Nat /\ Cardinality(InTask) \in Nat
          BY ThreadsFinite, FS_CardinalityType
    <2> QED
          BY <2>1, <2>2, <2>3
<1>5. ASSUME NEW e \in Enqueuers, EnqueueReject(e) \/ EnqueueFull(e) \/ EnqueueTimeout(e)
      PROVE  (UNCHANGED InTask => TaskLedger')
    BY <1>5 DEF EnqueueReject, EnqueueFull, EnqueueTimeout
<1>6. ASSUME NEW e \in Enqueuers, EnqueueBlock(e) \/ EnqueueNotify(e)
      PROVE  (UNCHANGED InTask => TaskLedger')
    BY <1>6 DEF EnqueueBlock, EnqueueNotify
<1>7. ASSUME NEW w \in Workers, WorkerWait(w) PROVE (UNCHANGED InTask => TaskLedger')
    BY <1>7 DEF WorkerWait
<1>8. ASSUME NEW w \in Workers, WorkerExit(w) PROVE (UNCHANGED InTask => TaskLedger')
    BY <1>8 DEF WorkerExit
<1>9. ASSUME NEW w \in Workers, WorkerTake(w) PROVE (UNCHANGED InTask => TaskLedger')
    <2>1. w \notin InTask /\ w \in InTask'
          BY <1>9, ThreadAssumption DEF WorkerTake, At, Threads
    <2> QED
          BY <2>1
<1>10. ASSUME NEW w \in Workers, WorkerFinish(w) PROVE (UNCHANGED InTask => TaskLedger')
    <2>1. w \in InTask /\ w \notin InTask'
          BY <1>10, ThreadAssumption DEF WorkerFinish, At, Threads
    <2> QED
          BY <2>1
<1>11. ASSUME NEW w \in Workers, WorkerRelease(w) PROVE (UNCHANGED InTask => TaskLedger')
    BY <1>11 DEF WorkerRelease
<1>12. ASSUME NEW entry \in scheduled, SchedulerDispatch(entry)
      PROVE  (UNCHANGED InTask => TaskLedger')
    BY <1>12 DEF SchedulerDispatch, AfterDispatch
<1>13. CASE SchedulerWait \/ SchedulerWakes \/ SchedulerExit
    BY <1>13 DEF SchedulerWait, SchedulerWakes, SchedulerExit
<1>14. ASSUME NEW entry \in scheduled, ComesDue(entry) PROVE (UNCHANGED InTask => TaskLedger')
    BY <1>14 DEF ComesDue
<1>15. ASSUME NEW i \in Waiters, IdleWaiter(i) PROVE (UNCHANGED InTask => TaskLedger')
    BY <1>15 DEF IdleWaiter, IdleCall, IdleResume, IdleTimeout
<1>16. ASSUME NEW b \in {"Block", "Reject"}, SetBackpressurePolicy(b)
      PROVE  (UNCHANGED InTask => TaskLedger')
    BY <1>16 DEF SetBackpressurePolicy
<1>17. CASE StartFlags
    BY <1>17 DEF StartFlags, MayStart
<1>18. CASE Spawn \/ \E created \in SUBSET Workers : SpawnFails(created)
    BY <1>18 DEF Spawn, SpawnFails
<1>19. CASE Unwind
    BY <1>19 DEF Unwind
<1>20. CASE UnwindEnd \/ JoinEnd
    BY <1>20 DEF UnwindEnd, JoinEnd
<1>21. ASSUME NEW mode \in {"Drain", "CancelPending"}, Stop(mode)
      PROVE  (UNCHANGED InTask => TaskLedger')
    <2>1. PICK gone \in SUBSET queue : queue' = queue \ gone /\ Discard(gone)
          BY <1>21 DEF Stop
    <2>2. /\ Cardinality(gone) \in Nat /\ Cardinality(queue) \in Nat
          /\ Cardinality(queue') = Cardinality(queue) - Cardinality(gone)
      <3>1. queue \cap gone = gone /\ IsFiniteSet(gone)
            BY FS_Subset
      <3> QED
            BY <2>1, <3>1, FS_Difference, FS_CardinalityType
    <2>3. /\ discarded' = discarded + Cardinality(gone)
          /\ stats'["submitted"] = stats["submitted"] /\ stats'["completed"] = stats["completed"]
          BY <2>1 DEF Discard
    <2>4. Cardinality(InTask) \in Nat
          BY ThreadsFinite
    <2> QED
          BY <2>2, <2>3, <2>4
<1>22. CASE JoinBegin
    <2>1. /\ discarded' = discarded
          /\ stats'["submitted"] = stats["submitted"] /\ stats'["completed"] = stats["completed"]
          BY <1>22, FS_EmptySet DEF JoinBegin, Discard
    <2> QED
          BY <1>22, <2>1 DEF JoinBegin
<1>23. CASE UNCHANGED vars
    BY <1>23 DEF vars
<1> HIDE DEF LifecycleInv, TypeOK, QueueTypeOK, TaskLedger, InTask, Bump, Counters,
        EnqueueFails, queueVars, history
<1> QED
    BY <1>1, <1>2, <1>3, <1>4, <1>5, <1>6, <1>7, <1>8, <1>9, <1>10, <1>11, <1>12, <1>13, <1>14,
        <1>15, <1>16, <1>17, <1>18, <1>19, <1>20, <1>21, <1>22, <1>23 DEF Next, Posting,
        Enqueue, Worker, Scheduler, Lifecycle

\* The counters of GetStats add up in every state another thread can see: what was
\* submitted has completed, runs, is queued or was discarded by Stop.
THEOREM TaskCountersAddUp == Spec => []TaskLedger
<1>1. Init => TaskLedger
  <2> SUFFICES ASSUME Init PROVE TaskLedger
      OBVIOUS
  <2>1. At({"w_run"}) = {}
        BY ThreadAssumption DEF Init, At, Threads
  <2> QED
        BY <2>1, FS_EmptySet DEF Init, QueueInit, TaskLedger, Counters
<1>2. LifecycleInv /\ CustodyInv /\ TaskLedger /\ [Next]_vars => TaskLedger'
    BY InTaskStep, TaskLedgerStep
<1> QED
    BY <1>1, <1>2, TaskCustody, PoolLifecycle, PTL DEF Spec

------------------------------------------------------------------------------
(* What an idle and a joined pool leave behind. *)

\* An idle pool holds no posted task: every accepted one has run or was discarded.
LEMMA IdleHoldsNoPosted ==
    ASSUME LifecycleInv, CustodyInv, ActiveWorkers, IsIdleLocked
    PROVE  accepted \cap PostTasks \subseteq finished \cup dropped
<1>1. Queued = {} /\ Pending = {}
    BY DEF IsIdleLocked, Queued, Pending
<1>2. Running = {}
  <2>1. Cardinality(At({"w_run", "w_ran"})) = 0
        BY DEF IsIdleLocked, ActiveWorkers
  <2>2. At({"w_run", "w_ran"}) = {}
        BY <2>1, ThreadsFinite, FS_EmptySet
  <2> QED
        BY <2>2 DEF Running, CustodyInv, CarriersOfKind, At, Threads
<1>3. InHand \cap PostTasks = {}
    BY TaskAssumption DEF CustodyInv, CarriersOfKind
<1> QED
    BY <1>1, <1>2, <1>3 DEF CustodyInv, OnePlace, OneShot

\* WaitForIdle returns OK only after it has seen the pool idle under the mutex.
LEMMA OkSawIdle ==
    ASSUME LifecycleInv, [Next]_vars, NEW i \in Waiters, pc[i] # "i_ok", pc'[i] = "i_ok"
    PROVE  IsIdleLocked
<1> USE ThreadAssumption DEF LifecycleInv, TypeOK, PlacesOfKind, InEnqueue, MayGoOn,
        EnqueueFails, Threads, Enqueuers, history
<1>1. ASSUME NEW p \in Producers, NEW task \in PostTasks, NEW pr \in UsedPriorities,
                NEW kind \in {"post", "try", "until"},
             PostBegin(p, task, pr, kind)
      PROVE  IsIdleLocked
    BY <1>1 DEF PostBegin
<1>2. ASSUME NEW p \in Producers, NEW task \in DelayedTasks \cup PeriodicTasks, NEW due \in BOOLEAN,
             Schedule(p, task, due)
      PROVE  IsIdleLocked
    BY <1>2 DEF Schedule
<1>3. ASSUME NEW p \in Producers, NEW entry \in scheduled, CancelScheduled(p, entry)
      PROVE  IsIdleLocked
    BY <1>3 DEF CancelScheduled
<1>4. ASSUME NEW e \in Enqueuers, Enqueue(e) PROVE IsIdleLocked
    BY <1>4 DEF Enqueue, EnqueuePush, EnqueueReject, EnqueueFull, EnqueueBlock, EnqueueTimeout,
        EnqueueNotify
<1>5. ASSUME NEW w \in Workers, Worker(w) PROVE IsIdleLocked
    BY <1>5 DEF Worker, WorkerWait, WorkerExit, WorkerTake, WorkerFinish, WorkerRelease
<1>6. ASSUME NEW entry \in scheduled, SchedulerDispatch(entry) PROVE IsIdleLocked
    BY <1>6 DEF SchedulerDispatch, AfterDispatch
<1>7. CASE SchedulerWait \/ SchedulerWakes \/ SchedulerExit
    BY <1>7 DEF SchedulerWait, SchedulerWakes, SchedulerExit
<1>8. ASSUME NEW entry \in scheduled, ComesDue(entry) PROVE IsIdleLocked
    BY <1>8 DEF ComesDue
<1>11. ASSUME NEW k \in Waiters, IdleWaiter(k) PROVE IsIdleLocked
    BY <1>11 DEF IdleWaiter, IdleCall, IdleResume, IdleTimeout
<1>9. CASE Lifecycle
    BY <1>9 DEF Lifecycle, SetBackpressurePolicy, StartFlags, MayStart, Spawn, SpawnFails,
        Unwind, UnwindEnd, Stop, JoinBegin, JoinEnd, NoThreads, ThreadsEnded
<1>10. CASE UNCHANGED vars
    BY <1>10 DEF vars
<1> HIDE DEF LifecycleInv, TypeOK, PlacesOfKind, InEnqueue, MayGoOn, EnqueueFails,
        Threads, Enqueuers, history
<1> QED
    BY <1>1, <1>2, <1>3, <1>4, <1>5, <1>6, <1>7, <1>8, <1>9, <1>10, <1>11 DEF Next, Posting, Scheduler

\* WaitForIdle returns OK only when every task accepted by a posting call has run or
\* was discarded.
THEOREM IdleAfterPosted == Spec => IdleMeansPostedTasksRan
<1>1. LifecycleInv /\ CustodyInv /\ ActiveWorkers /\ [Next]_vars =>
          [\A i \in Waiters : (pc[i] # "i_ok" /\ pc'[i] = "i_ok")
               => accepted \cap PostTasks \subseteq finished \cup dropped]_vars
    BY IdleHoldsNoPosted, OkSawIdle
<1> QED
    BY <1>1, PoolLifecycle, TaskCustody, ActiveWorkersCounted, PTL DEF Spec, IdleMeansPostedTasksRan

\* A stop request leaves nothing scheduled and the workers it ends leave nothing
\* queued.
LEMMA CleanStopStep ==
    ASSUME LifecycleInv, CustodyInv, CleanStop, [Next]_vars
    PROVE  CleanStop'
<1> USE ThreadAssumption, TaskAssumption DEF LifecycleInv, TypeOK, PlacesOfKind,
        TasksInHand, QueueTypeOK, CleanStop, FlagsAgree, ThreadsOfStart, SlotOfStart,
        NoThreadYet, CustodyInv, CarriersOfKind, InHand, InEnqueue, MayGoOn, At,
        EnqueueFails, Threads, Enqueuers, ScheduledEntry, flags, queueVars, history
<1>1. ASSUME NEW p \in Producers, NEW task \in PostTasks, NEW pr \in UsedPriorities,
                NEW kind \in {"post", "try", "until"},
             PostBegin(p, task, pr, kind)
      PROVE  CleanStop'
    BY <1>1 DEF PostBegin
<1>2. ASSUME NEW p \in Producers, NEW task \in DelayedTasks \cup PeriodicTasks, NEW due \in BOOLEAN,
             Schedule(p, task, due)
      PROVE  CleanStop'
    BY <1>2 DEF Schedule, Closed
<1>3. ASSUME NEW p \in Producers, NEW entry \in scheduled, CancelScheduled(p, entry)
      PROVE  CleanStop'
    BY <1>3 DEF CancelScheduled
<1>4. ASSUME NEW e \in Enqueuers, EnqueuePush(e) PROVE CleanStop'
    BY <1>4 DEF EnqueuePush, Push, Closed
<1>5. ASSUME NEW e \in Enqueuers, EnqueueReject(e) \/ EnqueueFull(e) \/ EnqueueTimeout(e)
      PROVE  CleanStop'
    BY <1>5 DEF EnqueueReject, EnqueueFull, EnqueueTimeout
<1>6. ASSUME NEW e \in Enqueuers, EnqueueBlock(e) \/ EnqueueNotify(e) PROVE CleanStop'
    BY <1>6 DEF EnqueueBlock, EnqueueNotify
<1>7. ASSUME NEW w \in Workers, Worker(w) PROVE CleanStop'
    BY <1>7 DEF Worker, WorkerWait, WorkerExit, WorkerTake, WorkerFinish, WorkerRelease,
        Dispatch
<1>8. ASSUME NEW entry \in scheduled, SchedulerDispatch(entry) PROVE CleanStop'
    BY <1>8 DEF SchedulerDispatch, AfterDispatch
<1>9. CASE SchedulerWait \/ SchedulerWakes \/ SchedulerExit
    BY <1>9 DEF SchedulerWait, SchedulerWakes, SchedulerExit
<1>10. ASSUME NEW entry \in scheduled, ComesDue(entry) PROVE CleanStop'
    BY <1>10 DEF ComesDue
<1>11. ASSUME NEW i \in Waiters, IdleWaiter(i) PROVE CleanStop'
    BY <1>11 DEF IdleWaiter, IdleCall, IdleResume, IdleTimeout
<1>12. ASSUME NEW b \in {"Block", "Reject"}, SetBackpressurePolicy(b) PROVE CleanStop'
    BY <1>12 DEF SetBackpressurePolicy
<1>13. CASE StartFlags
    BY <1>13 DEF StartFlags, MayStart
<1>14. CASE Spawn \/ \E created \in SUBSET Workers : SpawnFails(created)
    BY <1>14 DEF Spawn, SpawnFails
<1>15. CASE Unwind
    BY <1>15 DEF Unwind
<1>16. CASE UnwindEnd \/ JoinEnd
    BY <1>16 DEF UnwindEnd, JoinEnd, NoThreads, ThreadsEnded
<1>17. ASSUME NEW mode \in {"Drain", "CancelPending"}, Stop(mode) PROVE CleanStop'
    <2>1. PICK gone \in SUBSET queue : queue' = queue \ gone /\ Discard(gone)
          BY <1>17 DEF Stop
    <2>2. PostTasks \cap dropped' # {} => discarded' > 0
      <3>1. Cardinality(gone) \in Nat /\ (gone # {} => Cardinality(gone) > 0)
            BY FS_Subset, FS_CardinalityType, FS_EmptySet
      <3>2. PostTasks \cap dropped' # {} => gone # {} \/ PostTasks \cap dropped # {}
            BY <2>1 DEF Discard
      <3> QED
            BY <2>1, <3>1, <3>2 DEF Discard
    <2> QED
          BY <1>17, <2>1, <2>2 DEF Stop, Discard
<1>18. CASE JoinBegin
    <2>1. PostTasks \cap dropped' = PostTasks \cap dropped /\ discarded' = discarded
          BY <1>18, FS_EmptySet DEF JoinBegin, Discard
    <2> QED
          BY <1>18, <2>1 DEF JoinBegin, Discard
<1>19. CASE UNCHANGED vars
    BY <1>19 DEF vars
<1> HIDE DEF LifecycleInv, TypeOK, PlacesOfKind, TasksInHand, QueueTypeOK, CleanStop,
        FlagsAgree, ThreadsOfStart, SlotOfStart, NoThreadYet, CustodyInv, CarriersOfKind,
        InHand, InEnqueue, MayGoOn, At, EnqueueFails, Threads, Enqueuers, ScheduledEntry,
        flags, queueVars, history
<1> QED
    BY <1>1, <1>2, <1>3, <1>4, <1>5, <1>6, <1>7, <1>8, <1>9, <1>10, <1>11, <1>12, <1>13, <1>14,
        <1>15, <1>16, <1>17, <1>18, <1>19 DEF Next, Posting, Enqueue, Scheduler, Lifecycle

\* After Join nothing is left behind, and if no Stop(CancelPending) discarded anything,
\* every posted task that was accepted has run.
THEOREM JoinLosesNothing == Spec => []JoinLeavesNothing
<1>1. Init => CleanStop
    BY ThreadAssumption DEF Init, QueueInit, CleanStop, Threads
<1>2. LifecycleInv /\ CustodyInv /\ CleanStop /\ [Next]_vars => CleanStop'
    BY CleanStopStep
<1>3. LifecycleInv /\ CustodyInv /\ CleanStop /\ ActiveWorkers => JoinLeavesNothing
  <2> SUFFICES ASSUME LifecycleInv, CustodyInv, CleanStop, ActiveWorkers,
                      pc[Owner] = "o_idle", ~running, ~SpawnMayFail
               PROVE  /\ queue = {} /\ active = 0 /\ scheduled = {}
                      /\ discarded = 0 => accepted \cap PostTasks \subseteq finished
      BY DEF JoinLeavesNothing
  <2>1. queue = {} /\ scheduled = {}
        BY DEF CleanStop, LifecycleInv, FlagsAgree
  <2>2. At({"w_run", "w_ran"}) = {}
        BY ThreadAssumption DEF LifecycleInv, PlacesOfKind, ThreadsOfStart, NoThreadYet, At, Threads
  <2>3. active = 0
        BY <2>2, FS_EmptySet DEF ActiveWorkers
  <2>4. discarded = 0 => PostTasks \cap dropped = {}
        BY DEF CleanStop
  <2> QED
        BY <2>1, <2>3, <2>4, IdleHoldsNoPosted DEF IsIdleLocked
<1> QED
    BY <1>1, <1>2, <1>3, PoolLifecycle, TaskCustody, ActiveWorkersCounted, PTL DEF Spec

------------------------------------------------------------------------------
(* The counters of the scheduler. *)

\* scheduled_tasks_ grows by one entry when a task is scheduled, and shrinks by one
\* when an entry is taken out; putting an entry back keeps its size.
LEMMA ScheduledCount ==
    ASSUME LifecycleInv, CustodyInv
    PROVE  /\ Cardinality(scheduled) \in Nat
           /\ \A task \in fresh, due \in BOOLEAN :
                 Cardinality(scheduled \cup {[task |-> task, due |-> due]})
                     = Cardinality(scheduled) + 1
           /\ \A entry \in scheduled :
                 /\ Cardinality(scheduled \ {entry}) = Cardinality(scheduled) - 1
                 /\ \A due \in BOOLEAN :
                       Cardinality((scheduled \ {entry}) \cup {[entry EXCEPT !.due = due]})
                           = Cardinality(scheduled)
<1>1. IsFiniteSet(scheduled) /\ scheduled \subseteq ScheduledEntry
    BY DEF LifecycleInv, TypeOK
<1>2. ASSUME NEW task \in fresh, NEW due \in BOOLEAN
      PROVE  Cardinality(scheduled \cup {[task |-> task, due |-> due]})
                 = Cardinality(scheduled) + 1
  <2>1. [task |-> task, due |-> due] \notin scheduled
        BY DEF CustodyInv, OnePlace, Pending
  <2> QED
        BY <1>1, <2>1, FS_AddElement
<1>3. ASSUME NEW entry \in scheduled, NEW due \in BOOLEAN
      PROVE  /\ Cardinality(scheduled \ {entry}) = Cardinality(scheduled) - 1
             /\ Cardinality((scheduled \ {entry}) \cup {[entry EXCEPT !.due = due]})
                    = Cardinality(scheduled)
  <2> DEFINE y == [entry EXCEPT !.due = due]
             rest == scheduled \ {entry}
  <2>1. IsFiniteSet(rest) /\ Cardinality(rest) = Cardinality(scheduled) - 1
        BY <1>1, FS_RemoveElement
  <2>2. y \notin rest
    <3>1. y.task = entry.task
          BY <1>1, EntryOfTask
    <3> QED
          BY <3>1 DEF CustodyInv, OneCopy
  <2>3. Cardinality(scheduled) \in Nat
        BY <1>1, FS_CardinalityType
  <2> HIDE DEF y, rest
  <2>4. Cardinality(rest \cup {y}) = Cardinality(rest) + 1
        BY <2>1, <2>2, FS_AddElement
  <2> QED
        BY <2>1, <2>3, <2>4 DEF rest, y
<1> QED
    BY <1>1, <1>2, <1>3, FS_CardinalityType

\* A periodic entry is counted again when it is put back; a one-shot entry leaves
\* scheduled_tasks_. Either way the scheduler thread carries one dispatch more.
LEMMA DispatchCounts ==
    ASSUME LifecycleInv, CustodyInv, DispatchesInv,
           NEW entry \in scheduled, SchedulerDispatch(entry)
    PROVE  DispatchesInv'
<1> DEFINE back == (scheduled \ {entry}) \cup {[entry EXCEPT !.due = FALSE]}
           out == scheduled \ {entry}
<1>1. /\ Cardinality(back) = Cardinality(scheduled)
      /\ Cardinality(out) = Cardinality(scheduled) - 1
      /\ Cardinality(scheduled) \in Nat
    BY ScheduledCount
<1>2. \/ scheduled' = back /\ stats' = [stats EXCEPT !["rescheduled"] = @ + 1]
      \/ scheduled' = out /\ stats' = stats
    BY Zenon DEF SchedulerDispatch, AfterDispatch, Bump
<1>3. Carried = 0 /\ Carried' = 1 /\ SchedulerAlive /\ SchedulerAlive'
    BY ThreadAssumption
       DEF SchedulerDispatch, Carried, SchedulerAlive, LifecycleInv, TypeOK, Threads
<1>4. stats \in [Counters -> Nat] /\ starts' = starts
    BY DEF LifecycleInv, TypeOK, SchedulerDispatch, history
<1> HIDE DEF back, out
<1>5. CASE scheduled' = back /\ stats' = [stats EXCEPT !["rescheduled"] = @ + 1]
    BY <1>1, <1>3, <1>4, <1>5 DEF DispatchesInv, LostDispatches, Counters
<1>6. CASE scheduled' = out /\ stats' = stats
    BY <1>1, <1>3, <1>4, <1>6 DEF DispatchesInv, LostDispatches, Counters
<1> QED
    BY <1>2, <1>5, <1>6

\* Every dispatch stays accounted for, but for the one a scheduler thread loses
\* when the pool is closed under it.
LEMMA DispatchesStep ==
    ASSUME LifecycleInv, CustodyInv, DispatchesInv, [Next]_vars
    PROVE  DispatchesInv'
<1> USE ThreadAssumption, ScheduledCount DEF LifecycleInv, TypeOK, PlacesOfKind,
        TasksInHand, ThreadsOfStart, NoThreadYet, DispatchesInv, LostDispatches, Carried,
        SchedulerAlive, Bump, Counters, InEnqueue, MayGoOn, EnqueueFails, Threads,
        Enqueuers, flags, queueVars, history
<1>1. ASSUME NEW p \in Producers, NEW task \in PostTasks, NEW pr \in UsedPriorities,
                NEW kind \in {"post", "try", "until"},
             PostBegin(p, task, pr, kind)
      PROVE  DispatchesInv'
    BY <1>1 DEF PostBegin
<1>2. ASSUME NEW p \in Producers, NEW task \in DelayedTasks \cup PeriodicTasks, NEW due \in BOOLEAN,
             Schedule(p, task, due)
      PROVE  DispatchesInv'
    BY <1>2 DEF Schedule
<1>3. ASSUME NEW p \in Producers, NEW entry \in scheduled, CancelScheduled(p, entry)
      PROVE  DispatchesInv'
    BY <1>3 DEF CancelScheduled
<1>4. ASSUME NEW e \in Enqueuers, EnqueuePush(e) PROVE DispatchesInv'
    BY <1>4 DEF EnqueuePush
<1>5. ASSUME NEW e \in Enqueuers, EnqueueReject(e) \/ EnqueueFull(e) \/ EnqueueTimeout(e)
      PROVE  DispatchesInv'
    BY <1>5 DEF EnqueueReject, EnqueueFull, EnqueueTimeout
<1>6. ASSUME NEW e \in Enqueuers, EnqueueBlock(e) PROVE DispatchesInv'
    BY <1>6 DEF EnqueueBlock
<1>7. ASSUME NEW e \in Enqueuers, EnqueueNotify(e) PROVE DispatchesInv'
    BY <1>7 DEF EnqueueNotify
<1>8. ASSUME NEW w \in Workers, Worker(w) PROVE DispatchesInv'
    BY <1>8 DEF Worker, WorkerWait, WorkerExit, WorkerTake, WorkerFinish, WorkerRelease
<1>9. ASSUME NEW entry \in scheduled, SchedulerDispatch(entry) PROVE DispatchesInv'
    BY <1>9, DispatchCounts
<1>10. CASE SchedulerWait \/ SchedulerWakes \/ SchedulerExit
    BY <1>10 DEF SchedulerWait, SchedulerWakes, SchedulerExit
<1>11. ASSUME NEW entry \in scheduled, ComesDue(entry) PROVE DispatchesInv'
    BY <1>11 DEF ComesDue
<1>12. ASSUME NEW i \in Waiters, IdleWaiter(i) PROVE DispatchesInv'
    BY <1>12 DEF IdleWaiter, IdleCall, IdleResume, IdleTimeout
<1>13. ASSUME NEW b \in {"Block", "Reject"}, SetBackpressurePolicy(b) PROVE DispatchesInv'
    BY <1>13 DEF SetBackpressurePolicy
<1>14. CASE StartFlags
    BY <1>14 DEF StartFlags, MayStart
<1>15. CASE Spawn \/ \E created \in SUBSET Workers : SpawnFails(created)
    BY <1>15 DEF Spawn, SpawnFails
<1>16. CASE Unwind
    BY <1>16 DEF Unwind
<1>17. CASE UnwindEnd \/ JoinEnd
    BY <1>17 DEF UnwindEnd, JoinEnd, NoThreads, ThreadsEnded
<1>18. ASSUME NEW mode \in {"Drain", "CancelPending"}, Stop(mode) PROVE DispatchesInv'
    <2>1. PICK gone \in SUBSET queue : Discard(gone)
          BY <1>18 DEF Stop
    <2>2. /\ Cardinality(scheduled') = 0
          /\ stats'["created"] = stats["created"] /\ stats'["rescheduled"] = stats["rescheduled"]
          /\ stats'["fired"] = stats["fired"]
          /\ stats'["cancelled"] = stats["cancelled"] + Cardinality(scheduled)
          BY <2>1, FS_EmptySet, DiscardTypes DEF Discard
    <2> QED
          BY <1>18, <2>2 DEF Stop
<1>19. CASE JoinBegin
    <2>1. CASE Discard({})
      <3>1. /\ Cardinality(scheduled') = 0
            /\ stats'["created"] = stats["created"] /\ stats'["rescheduled"] = stats["rescheduled"]
            /\ stats'["fired"] = stats["fired"]
            /\ stats'["cancelled"] = stats["cancelled"] + Cardinality(scheduled)
            BY <2>1, FS_EmptySet, DiscardTypes DEF Discard
      <3> QED
            BY <1>19, <3>1 DEF JoinBegin
    <2>2. CASE UNCHANGED <<scheduled, stats>>
          BY <1>19, <2>2 DEF JoinBegin
    <2> QED
          BY <1>19, <2>1, <2>2 DEF JoinBegin
<1>20. CASE UNCHANGED vars
    BY <1>20 DEF vars
<1> HIDE DEF LifecycleInv, TypeOK, PlacesOfKind, TasksInHand, ThreadsOfStart, NoThreadYet,
        DispatchesInv, LostDispatches, Carried, SchedulerAlive, Bump, Counters, InEnqueue,
        MayGoOn, EnqueueFails, Threads, Enqueuers, flags, queueVars, history
<1> QED
    BY <1>1, <1>2, <1>3, <1>4, <1>5, <1>6, <1>7, <1>8, <1>9, <1>10, <1>11, <1>12, <1>13, <1>14,
        <1>15, <1>16, <1>17, <1>18, <1>19, <1>20 DEF Next, Posting, Enqueue, Scheduler,
        Lifecycle

\* Every scheduled dispatch is accounted for, but for at most one per scheduler thread.
THEOREM DispatchesAccounted == Spec => []SchedulerLedger
<1>1. Init => DispatchesInv
    BY ThreadAssumption, FS_EmptySet
       DEF Init, DispatchesInv, LostDispatches, Carried, SchedulerAlive, Counters, Threads
<1>2. LifecycleInv /\ CustodyInv /\ DispatchesInv /\ [Next]_vars => DispatchesInv'
    BY DispatchesStep
<1>3. LifecycleInv /\ CustodyInv /\ DispatchesInv => SchedulerLedger
    BY ScheduledCount DEF DispatchesInv, SchedulerLedger, LostDispatches, Carried, LifecycleInv, TypeOK, Counters
<1> QED
    BY <1>1, <1>2, <1>3, PoolLifecycle, TaskCustody, PTL DEF Spec

------------------------------------------------------------------------------
(* No wakeup is lost: neither of a worker, nor of a producer that waits for a  *)
(* slot, nor of a caller of WaitForIdle. Each condition variable is notified   *)
(* once per change, so the proofs count: the entries and slots nobody has      *)
(* looked at against the threads that are on their way to look.                *)

\* Who closes the pool wakes the producers, and only Start opens it.
LEMMA OpenStep ==
    ASSUME LifecycleInv, OpenAgrees, [Next]_vars
    PROVE  OpenAgrees'
<1> USE ThreadAssumption DEF LifecycleInv, TypeOK, PlacesOfKind, TasksInHand,
        SleepersWait, FlagsAgree, ThreadsOfStart, NoThreadYet, OpenAgrees, Closed,
        SleepingAt, At, Awake, InEnqueue, MayGoOn, EnqueueFails, NotifyOne, NotifyIdle,
        WokenByStop, Threads, Enqueuers, flags, history
<1>1. ASSUME NEW p \in Producers, NEW task \in PostTasks, NEW pr \in UsedPriorities,
                NEW kind \in {"post", "try", "until"},
             PostBegin(p, task, pr, kind)
      PROVE  OpenAgrees'
    BY <1>1 DEF PostBegin
<1>2. ASSUME NEW p \in Producers, NEW task \in DelayedTasks \cup PeriodicTasks, NEW due \in BOOLEAN,
             Schedule(p, task, due)
      PROVE  OpenAgrees'
    BY <1>2 DEF Schedule
<1>3. ASSUME NEW p \in Producers, NEW entry \in scheduled, CancelScheduled(p, entry)
      PROVE  OpenAgrees'
    BY <1>3 DEF CancelScheduled
<1>4. ASSUME NEW e \in Enqueuers, EnqueuePush(e) PROVE OpenAgrees'
    BY <1>4 DEF EnqueuePush
<1>5. ASSUME NEW e \in Enqueuers, EnqueueReject(e) \/ EnqueueFull(e) \/ EnqueueTimeout(e)
      PROVE  OpenAgrees'
    BY <1>5 DEF EnqueueReject, EnqueueFull, EnqueueTimeout
<1>6. ASSUME NEW e \in Enqueuers, EnqueueBlock(e) \/ EnqueueNotify(e) PROVE OpenAgrees'
    BY <1>6 DEF EnqueueBlock, EnqueueNotify
<1>7. ASSUME NEW w \in Workers, Worker(w) PROVE OpenAgrees'
    BY <1>7 DEF Worker, WorkerWait, WorkerExit, WorkerTake, WorkerFinish, WorkerRelease
<1>8. ASSUME NEW entry \in scheduled, SchedulerDispatch(entry) PROVE OpenAgrees'
    BY <1>8 DEF SchedulerDispatch, AfterDispatch
<1>9. CASE SchedulerWait \/ SchedulerWakes \/ SchedulerExit
    BY <1>9 DEF SchedulerWait, SchedulerWakes, SchedulerExit
<1>10. ASSUME NEW entry \in scheduled, ComesDue(entry) PROVE OpenAgrees'
    BY <1>10 DEF ComesDue
<1>11. ASSUME NEW i \in Waiters, IdleWaiter(i) PROVE OpenAgrees'
    BY <1>11 DEF IdleWaiter, IdleCall, IdleResume, IdleTimeout
<1>12. ASSUME NEW b \in {"Block", "Reject"}, SetBackpressurePolicy(b) PROVE OpenAgrees'
    BY <1>12 DEF SetBackpressurePolicy
<1>13. CASE StartFlags
    BY <1>13 DEF StartFlags, MayStart
<1>14. CASE Spawn \/ \E created \in SUBSET Workers : SpawnFails(created)
    BY <1>14 DEF Spawn, SpawnFails
<1>15. CASE Unwind
    BY <1>15 DEF Unwind
<1>16. CASE UnwindEnd \/ JoinEnd
    BY <1>16 DEF UnwindEnd, JoinEnd, NoThreads, ThreadsEnded
<1>17. ASSUME NEW mode \in {"Drain", "CancelPending"}, Stop(mode) PROVE OpenAgrees'
    BY <1>17 DEF Stop
<1>18. CASE JoinBegin
    BY <1>18 DEF JoinBegin
<1>19. CASE UNCHANGED vars
    BY <1>19 DEF vars
<1> HIDE DEF LifecycleInv, TypeOK, PlacesOfKind, TasksInHand, SleepersWait, FlagsAgree,
        ThreadsOfStart, NoThreadYet, OpenAgrees, Closed, SleepingAt, At, Awake, InEnqueue,
        MayGoOn, EnqueueFails, NotifyOne, NotifyIdle, WokenByStop, Threads, Enqueuers,
        flags, history
<1> QED
    BY <1>1, <1>2, <1>3, <1>4, <1>5, <1>6, <1>7, <1>8, <1>9, <1>10, <1>11, <1>12, <1>13, <1>14,
        <1>15, <1>16, <1>17, <1>18, <1>19 DEF Next, Posting, Enqueue, Scheduler, Lifecycle

(* Workers: cv_not_empty_. *)

Looking == At({"w_check"}) \ blocked     \* the workers that look at the queue next
Notifying == At({"e_notify"})            \* the posting calls whose notification is due
Dozing == SleepingAt({"w_check"})

\* Nothing a sleeping worker would miss has changed.
WorkersUndisturbed == UNCHANGED <<queue, Looking, Notifying>> /\ Dozing' \subseteq Dozing

\* A push announces the entry it adds.
LEMMA PushIsAnnounced ==
    ASSUME LifecycleInv, CustodyInv, NoStrandedTask, NEW e \in Enqueuers, EnqueuePush(e)
    PROVE  NoStrandedTask'
<1>1. Cardinality(queue') = Cardinality(queue) + 1
    BY PushAddsOne
<1>2. /\ e \notin Notifying /\ Notifying' = Notifying \cup {e} /\ Notifying \in SUBSET Threads
      /\ e \in Threads
      /\ Looking' = Looking /\ Dozing' = Dozing /\ Looking \in SUBSET Threads
    BY ThreadAssumption
       DEF EnqueuePush, MayGoOn, InEnqueue, Notifying, Looking, Dozing, SleepingAt, At, Threads,
           Enqueuers, LifecycleInv, TypeOK, PlacesOfKind
<1>3. Cardinality(queue) \in Nat
    BY FS_CardinalityType DEF LifecycleInv, TypeOK, QueueTypeOK
<1> HIDE DEF Notifying, Looking, Dozing
<1>4. Cardinality(Notifying') = Cardinality(Notifying) + 1 /\ Cardinality(Notifying) \in Nat
    BY <1>2, ThreadCount
<1>5. Cardinality(Looking) \in Nat
    BY <1>2, ThreadCount
<1>6. Dozing # {} => Cardinality(queue) <= Cardinality(Looking) + Cardinality(Notifying)
    BY DEF NoStrandedTask, Notifying, Looking, Dozing
<1>7. Dozing' # {} => Cardinality(queue') <= Cardinality(Looking') + Cardinality(Notifying')
    BY <1>1, <1>2, <1>3, <1>4, <1>5, <1>6
<1> QED
    BY <1>7 DEF NoStrandedTask, Notifying, Looking, Dozing

\* The notify_one after a push ends the announcement and sends a sleeper to look.
LEMMA NotifyWakesOne ==
    ASSUME LifecycleInv, NoStrandedTask, NEW e \in Enqueuers, EnqueueNotify(e)
    PROVE  NoStrandedTask'
<1>1. /\ e \in Notifying /\ Notifying' = Notifying \ {e}
      /\ Notifying \in SUBSET Threads /\ Looking \in SUBSET Threads /\ Dozing \subseteq Threads
      /\ queue' = queue
    BY ThreadAssumption
       DEF EnqueueNotify, Notifying, Looking, Dozing, SleepingAt, At, Threads, Enqueuers, queueVars,
           LifecycleInv, TypeOK, PlacesOfKind
<1>2. Dozing' = {} \/ \E t \in Dozing : t \notin Looking /\ Looking' = Looking \cup {t} /\ Dozing' \subseteq Dozing
    BY ThreadAssumption
       DEF EnqueueNotify, NotifyOne, Looking, Dozing, SleepingAt, At, Threads, Enqueuers, queueVars,
           LifecycleInv, TypeOK, PlacesOfKind
<1>3. Cardinality(queue) \in Nat
    BY FS_CardinalityType DEF LifecycleInv, TypeOK, QueueTypeOK
<1>4. Dozing # {} => Cardinality(queue) <= Cardinality(Looking) + Cardinality(Notifying)
    BY DEF NoStrandedTask, Notifying, Looking, Dozing
<1> HIDE DEF Notifying, Looking, Dozing
<1>5. Cardinality(Notifying') = Cardinality(Notifying) - 1 /\ Cardinality(Notifying) \in Nat
    BY <1>1, ThreadCount
<1>6. ASSUME NEW t \in Dozing, t \notin Looking, Looking' = Looking \cup {t}
      PROVE  Cardinality(Looking') = Cardinality(Looking) + 1 /\ Cardinality(Looking) \in Nat
    BY <1>1, <1>6, ThreadCount
<1>7. Dozing' # {} => Cardinality(queue') <= Cardinality(Looking') + Cardinality(Notifying')
    BY <1>1, <1>2, <1>3, <1>4, <1>5, <1>6
<1> QED
    BY <1>7 DEF NoStrandedTask, Notifying, Looking, Dozing

\* A worker that takes an entry was one of those on the way to it.
LEMMA TakerWasLooking ==
    ASSUME LifecycleInv, NoStrandedTask, NEW w \in Workers, WorkerTake(w)
    PROVE  NoStrandedTask'
<1>1. /\ w \in Looking /\ Looking' = Looking \ {w} /\ Looking \in SUBSET Threads
      /\ Notifying' = Notifying /\ Notifying \in SUBSET Threads /\ Dozing' = Dozing
    BY ThreadAssumption
       DEF WorkerTake, NotifyOne, Awake, Notifying, Looking, Dozing, SleepingAt, At, Threads,
           LifecycleInv, TypeOK, PlacesOfKind
<1>2. Cardinality(queue) \in Nat /\ Cardinality(queue') = Cardinality(queue) - 1
    BY TakeRemovesOne
<1>3. Dozing # {} => Cardinality(queue) <= Cardinality(Looking) + Cardinality(Notifying)
    BY DEF NoStrandedTask, Notifying, Looking, Dozing
<1> HIDE DEF Notifying, Looking, Dozing
<1>4. Cardinality(Looking') = Cardinality(Looking) - 1 /\ Cardinality(Looking) \in Nat
    BY <1>1, ThreadCount
<1>5. Cardinality(Notifying) \in Nat
    BY <1>1, ThreadCount
<1>6. Dozing' # {} => Cardinality(queue') <= Cardinality(Looking') + Cardinality(Notifying')
    BY <1>1, <1>2, <1>3, <1>4, <1>5
<1> QED
    BY <1>6 DEF NoStrandedTask, Notifying, Looking, Dozing

\* A worker that has run a task looks at the queue again.
LEMMA ReleaserLooks ==
    ASSUME LifecycleInv, NoStrandedTask, NEW w \in Workers, WorkerRelease(w)
    PROVE  NoStrandedTask'
<1>1. /\ w \notin Looking /\ Looking' = Looking \cup {w} /\ Looking \in SUBSET Threads
      /\ w \in Threads /\ queue' = queue
      /\ Notifying' = Notifying /\ Notifying \in SUBSET Threads /\ Dozing' = Dozing
    BY ThreadAssumption
       DEF WorkerRelease, NotifyIdle, Notifying, Looking, Dozing, SleepingAt, At, Threads, queueVars,
           LifecycleInv, TypeOK, PlacesOfKind, SleepersWait
<1>2. Cardinality(queue) \in Nat
    BY FS_CardinalityType DEF LifecycleInv, TypeOK, QueueTypeOK
<1>3. Dozing # {} => Cardinality(queue) <= Cardinality(Looking) + Cardinality(Notifying)
    BY DEF NoStrandedTask, Notifying, Looking, Dozing
<1> HIDE DEF Notifying, Looking, Dozing
<1>4. Cardinality(Looking') = Cardinality(Looking) + 1 /\ Cardinality(Looking) \in Nat
    BY <1>1, ThreadCount
<1>5. Cardinality(Notifying) \in Nat
    BY <1>1, ThreadCount
<1>6. Dozing' # {} => Cardinality(queue') <= Cardinality(Looking') + Cardinality(Notifying')
    BY <1>1, <1>2, <1>3, <1>4, <1>5
<1> QED
    BY <1>6 DEF NoStrandedTask, Notifying, Looking, Dozing

\* No other step adds work that a sleeping worker would miss, or takes away who
\* is on the way to it.
LEMMA WorkersStep ==
    ASSUME LifecycleInv, CustodyInv, NoStrandedTask, [Next]_vars
    PROVE  WorkersUndisturbed \/ NoStrandedTask'
<1> USE ThreadAssumption DEF LifecycleInv, TypeOK, PlacesOfKind, SleepersWait,
        ThreadsOfStart, NoThreadYet, WorkersUndisturbed, Looking, Notifying, Dozing,
        SleepingAt, At, Awake, InEnqueue, MayGoOn, EnqueueFails, NotifyOne, NotifyIdle,
        WokenByStop, Threads, Enqueuers, queueVars, history
<1>1. ASSUME NEW p \in Producers, NEW task \in PostTasks, NEW pr \in UsedPriorities,
                NEW kind \in {"post", "try", "until"},
             PostBegin(p, task, pr, kind)
      PROVE  WorkersUndisturbed \/ NoStrandedTask'
    BY <1>1 DEF PostBegin
<1>2. ASSUME NEW p \in Producers, NEW task \in DelayedTasks \cup PeriodicTasks, NEW due \in BOOLEAN,
             Schedule(p, task, due)
      PROVE  WorkersUndisturbed \/ NoStrandedTask'
    BY <1>2 DEF Schedule
<1>3. ASSUME NEW p \in Producers, NEW entry \in scheduled, CancelScheduled(p, entry)
      PROVE  WorkersUndisturbed \/ NoStrandedTask'
    BY <1>3 DEF CancelScheduled
<1>4. ASSUME NEW e \in Enqueuers, EnqueuePush(e) PROVE WorkersUndisturbed \/ NoStrandedTask'
    BY <1>4, PushIsAnnounced
<1>5. ASSUME NEW e \in Enqueuers, EnqueueReject(e) \/ EnqueueFull(e) \/ EnqueueTimeout(e)
      PROVE  WorkersUndisturbed \/ NoStrandedTask'
    BY <1>5 DEF EnqueueReject, EnqueueFull, EnqueueTimeout
<1>6. ASSUME NEW e \in Enqueuers, EnqueueBlock(e) PROVE WorkersUndisturbed \/ NoStrandedTask'
    BY <1>6 DEF EnqueueBlock
<1>7. ASSUME NEW e \in Enqueuers, EnqueueNotify(e) PROVE WorkersUndisturbed \/ NoStrandedTask'
    BY <1>7, NotifyWakesOne
<1>8. ASSUME NEW w \in Workers, WorkerWait(w) PROVE WorkersUndisturbed \/ NoStrandedTask'
    <2>1. queue' = {} /\ Looking' \in SUBSET Threads /\ Notifying' \in SUBSET Threads
          BY <1>8 DEF WorkerWait
    <2> HIDE DEF Looking, Notifying, Dozing
    <2>2. Cardinality(queue') = 0 /\ Cardinality(Looking') \in Nat /\ Cardinality(Notifying') \in Nat
          BY <2>1, FS_EmptySet, ThreadCount
    <2>3. Dozing' # {} => Cardinality(queue') <= Cardinality(Looking') + Cardinality(Notifying')
          BY <2>2
    <2> QED
          BY <2>3 DEF NoStrandedTask, Looking, Notifying, Dozing
<1>9. ASSUME NEW w \in Workers, WorkerExit(w) PROVE WorkersUndisturbed \/ NoStrandedTask'
    <2>1. queue' = {} /\ Looking' \in SUBSET Threads /\ Notifying' \in SUBSET Threads
          BY <1>9 DEF WorkerExit, MayLeave
    <2> HIDE DEF Looking, Notifying, Dozing
    <2>2. Cardinality(queue') = 0 /\ Cardinality(Looking') \in Nat /\ Cardinality(Notifying') \in Nat
          BY <2>1, FS_EmptySet, ThreadCount
    <2>3. Dozing' # {} => Cardinality(queue') <= Cardinality(Looking') + Cardinality(Notifying')
          BY <2>2
    <2> QED
          BY <2>3 DEF NoStrandedTask, Looking, Notifying, Dozing
<1>10. ASSUME NEW w \in Workers, WorkerTake(w) PROVE WorkersUndisturbed \/ NoStrandedTask'
    BY <1>10, TakerWasLooking
<1>11. ASSUME NEW w \in Workers, WorkerFinish(w) PROVE WorkersUndisturbed \/ NoStrandedTask'
    BY <1>11 DEF WorkerFinish
<1>12. ASSUME NEW w \in Workers, WorkerRelease(w) PROVE WorkersUndisturbed \/ NoStrandedTask'
    BY <1>12, ReleaserLooks
<1>13. ASSUME NEW entry \in scheduled, SchedulerDispatch(entry)
      PROVE  WorkersUndisturbed \/ NoStrandedTask'
    BY <1>13 DEF SchedulerDispatch, AfterDispatch
<1>14. CASE SchedulerWait \/ SchedulerWakes \/ SchedulerExit
    BY <1>14 DEF SchedulerWait, SchedulerWakes, SchedulerExit
<1>15. ASSUME NEW entry \in scheduled, ComesDue(entry) PROVE WorkersUndisturbed \/ NoStrandedTask'
    BY <1>15 DEF ComesDue
<1>16. ASSUME NEW i \in Waiters, IdleWaiter(i) PROVE WorkersUndisturbed \/ NoStrandedTask'
    BY <1>16 DEF IdleWaiter, IdleCall, IdleResume, IdleTimeout
<1>17. ASSUME NEW b \in {"Block", "Reject"}, SetBackpressurePolicy(b)
      PROVE  WorkersUndisturbed \/ NoStrandedTask'
    BY <1>17 DEF SetBackpressurePolicy
<1>18. CASE StartFlags
    BY <1>18 DEF StartFlags, MayStart
<1>19. CASE Spawn \/ \E created \in SUBSET Workers : SpawnFails(created)
    BY <1>19 DEF Spawn, SpawnFails, NoStrandedTask
<1>20. CASE Unwind
    BY <1>20 DEF Unwind, NoStrandedTask
<1>21. CASE UnwindEnd \/ JoinEnd
    BY <1>21 DEF UnwindEnd, JoinEnd, NoThreads, ThreadsEnded, NoStrandedTask
<1>22. ASSUME NEW mode \in {"Drain", "CancelPending"}, Stop(mode)
      PROVE  WorkersUndisturbed \/ NoStrandedTask'
    BY <1>22 DEF Stop, NoStrandedTask
<1>23. CASE JoinBegin
    BY <1>23 DEF JoinBegin, NoStrandedTask
<1>24. CASE UNCHANGED vars
    BY <1>24 DEF vars
<1> HIDE DEF LifecycleInv, TypeOK, PlacesOfKind, SleepersWait, ThreadsOfStart,
        NoThreadYet, WorkersUndisturbed, Looking, Notifying, Dozing, SleepingAt, At,
        Awake, InEnqueue, MayGoOn, EnqueueFails, NotifyOne, NotifyIdle, WokenByStop,
        Threads, Enqueuers, queueVars, history
<1> QED
    BY <1>1, <1>2, <1>3, <1>4, <1>5, <1>6, <1>7, <1>8, <1>9, <1>10, <1>11, <1>12, <1>13, <1>14,
        <1>15, <1>16, <1>17, <1>18, <1>19, <1>20, <1>21, <1>22, <1>23, <1>24 DEF Next, Posting,
        Enqueue, Worker, Scheduler, Lifecycle

\* No lost wakeup of cv_not_empty_.
LEMMA TaskWakeupStep ==
    ASSUME LifecycleInv, CustodyInv, NoStrandedTask, [Next]_vars
    PROVE  NoStrandedTask'
<1>1. Dozing # {} => Cardinality(queue) <= Cardinality(Looking) + Cardinality(Notifying)
    BY DEF NoStrandedTask, Notifying, Looking, Dozing
<1>2. WorkersUndisturbed => (Dozing' # {} => Cardinality(queue') <= Cardinality(Looking') + Cardinality(Notifying'))
  <2> HIDE DEF Notifying, Looking, Dozing
  <2> QED
      BY <1>1 DEF WorkersUndisturbed
<1>3. WorkersUndisturbed => NoStrandedTask'
    BY <1>2 DEF NoStrandedTask, Notifying, Looking, Dozing
<1> QED
    BY <1>3, WorkersStep

------------------------------------------------------------------------------
(* Producers: cv_not_full_. *)

Returning == At({"e_full"}) \ blocked    \* the woken producers that look for a slot next
Waiting == SleepingAt({"e_full"})

\* Nothing a producer that waits for a slot would miss has changed.
ProducersUndisturbed ==
    /\ UNCHANGED <<queue, Returning>> /\ Waiting' \subseteq Waiting
    /\ Closed => Closed' \/ Waiting' = {}

\* A push takes the slot its producer was on the way to.
LEMMA PushTakesSlot ==
    ASSUME LifecycleInv, CustodyInv, NoStrandedProducer, NEW e \in Enqueuers, EnqueuePush(e)
    PROVE  NoStrandedProducer'
<1>1. Cardinality(queue') = Cardinality(queue) + 1
    BY PushAddsOne
<1>2. /\ Returning' = Returning \ {e} /\ Returning \in SUBSET Threads /\ e \in Threads
      /\ Waiting' \subseteq Waiting /\ ~Closed
    BY ThreadAssumption
       DEF EnqueuePush, MayGoOn, InEnqueue, Awake, Returning, Waiting, SleepingAt, At, Threads,
           Enqueuers, LifecycleInv, TypeOK, PlacesOfKind
<1>3. Cardinality(queue) \in Nat
    BY FS_CardinalityType DEF LifecycleInv, TypeOK, QueueTypeOK
<1>4. (Waiting # {} /\ ~Closed) => Capacity - Cardinality(queue) <= Cardinality(Returning)
    BY DEF NoStrandedProducer, Returning, Waiting
<1> HIDE DEF Returning, Waiting
<1>5. /\ Cardinality(Returning) \in Nat
      /\ Cardinality(Returning') = Cardinality(Returning) - 1 \/ Returning' = Returning
    BY <1>2, ThreadCount
<1>6. (Waiting' # {} /\ ~Closed') => Capacity - Cardinality(queue') <= Cardinality(Returning')
    BY <1>1, <1>2, <1>3, <1>4, <1>5, CapacityAssumption
<1> QED
    BY <1>6 DEF NoStrandedProducer, Returning, Waiting

\* A dispatch frees a slot and sends a sleeping producer to it.
LEMMA TakeFreesSlot ==
    ASSUME LifecycleInv, NoStrandedProducer, NEW w \in Workers, WorkerTake(w)
    PROVE  NoStrandedProducer'
<1>1. Cardinality(queue) \in Nat /\ Cardinality(queue') = Cardinality(queue) - 1
    BY TakeRemovesOne
<1>2. /\ Returning \in SUBSET Threads /\ Waiting \subseteq Threads /\ Waiting' \subseteq Waiting
      /\ Waiting' = {} \/ \E t \in Waiting : t \notin Returning /\ Returning' = Returning \cup {t}
      /\ Closed' = Closed
    BY ThreadAssumption
       DEF WorkerTake, NotifyOne, Returning, Waiting, SleepingAt, At, Threads, Closed, flags,
           LifecycleInv, TypeOK, PlacesOfKind
<1>3. (Waiting # {} /\ ~Closed) => Capacity - Cardinality(queue) <= Cardinality(Returning)
    BY DEF NoStrandedProducer, Returning, Waiting
<1> HIDE DEF Returning, Waiting
<1>4. ASSUME NEW t \in Waiting, t \notin Returning, Returning' = Returning \cup {t}
      PROVE  Cardinality(Returning') = Cardinality(Returning) + 1 /\ Cardinality(Returning) \in Nat
    BY <1>2, <1>4, ThreadCount
<1>5. (Waiting' # {} /\ ~Closed') => Capacity - Cardinality(queue') <= Cardinality(Returning')
    BY <1>1, <1>2, <1>3, <1>4, CapacityAssumption
<1> QED
    BY <1>5 DEF NoStrandedProducer, Returning, Waiting

\* A producer only goes to sleep, or gives up, while the queue is full.
LEMMA FullQueueStrandsNobody ==
    ASSUME LifecycleInv, NEW e \in Enqueuers, EnqueueBlock(e) \/ EnqueueTimeout(e)
    PROVE  NoStrandedProducer'
<1>1. /\ queue' = queue /\ ~HasRoom /\ Returning' \in SUBSET Threads /\ e \in Threads
    BY DEF EnqueueBlock, EnqueueTimeout, EnqueueFails, Returning, At, Threads, Enqueuers, queueVars
<1>2. Cardinality(queue) \in Nat
    BY FS_CardinalityType DEF LifecycleInv, TypeOK, QueueTypeOK
<1> HIDE DEF Returning
<1>3. Cardinality(Returning') \in Nat
    BY <1>1, ThreadCount
<1>4. Capacity - Cardinality(queue') <= Cardinality(Returning')
    BY <1>1, <1>2, <1>3, CapacityAssumption DEF HasRoom
<1> QED
    BY <1>4 DEF NoStrandedProducer, Returning

\* No other step frees a slot that a sleeping producer would miss.
LEMMA ProducersStep ==
    ASSUME LifecycleInv, CustodyInv, OpenAgrees, NoStrandedProducer, [Next]_vars
    PROVE  ProducersUndisturbed \/ NoStrandedProducer'
<1> USE ThreadAssumption DEF LifecycleInv, TypeOK, PlacesOfKind, SleepersWait, FlagsAgree,
        ThreadsOfStart, NoThreadYet, OpenAgrees, ProducersUndisturbed, Returning, Waiting,
        SleepingAt, At, Awake, InEnqueue, MayGoOn, Closed, EnqueueFails, NotifyOne,
        NotifyIdle, WokenByStop, Threads, Enqueuers, queueVars, flags, history
<1>1. ASSUME NEW p \in Producers, NEW task \in PostTasks, NEW pr \in UsedPriorities,
                NEW kind \in {"post", "try", "until"},
             PostBegin(p, task, pr, kind)
      PROVE  ProducersUndisturbed \/ NoStrandedProducer'
    BY <1>1 DEF PostBegin
<1>2. ASSUME NEW p \in Producers, NEW task \in DelayedTasks \cup PeriodicTasks, NEW due \in BOOLEAN,
             Schedule(p, task, due)
      PROVE  ProducersUndisturbed \/ NoStrandedProducer'
    BY <1>2 DEF Schedule
<1>3. ASSUME NEW p \in Producers, NEW entry \in scheduled, CancelScheduled(p, entry)
      PROVE  ProducersUndisturbed \/ NoStrandedProducer'
    BY <1>3 DEF CancelScheduled
<1>4. ASSUME NEW e \in Enqueuers, EnqueuePush(e) PROVE ProducersUndisturbed \/ NoStrandedProducer'
    BY <1>4, PushTakesSlot
<1>5. ASSUME NEW e \in Enqueuers, EnqueueReject(e) PROVE ProducersUndisturbed \/ NoStrandedProducer'
    BY <1>5 DEF EnqueueReject, NoStrandedProducer
<1>6. ASSUME NEW e \in Enqueuers, EnqueueFull(e) PROVE ProducersUndisturbed \/ NoStrandedProducer'
    BY <1>6 DEF EnqueueFull
<1>7. ASSUME NEW e \in Enqueuers, EnqueueTimeout(e)
      PROVE  ProducersUndisturbed \/ NoStrandedProducer'
    BY <1>7, FullQueueStrandsNobody
<1>8. ASSUME NEW e \in Enqueuers, EnqueueBlock(e) PROVE ProducersUndisturbed \/ NoStrandedProducer'
    BY <1>8, FullQueueStrandsNobody
<1>9. ASSUME NEW e \in Enqueuers, EnqueueNotify(e) PROVE ProducersUndisturbed \/ NoStrandedProducer'
    BY <1>9 DEF EnqueueNotify
<1>10. ASSUME NEW w \in Workers, WorkerWait(w) PROVE ProducersUndisturbed \/ NoStrandedProducer'
    BY <1>10 DEF WorkerWait
<1>11. ASSUME NEW w \in Workers, WorkerExit(w) PROVE ProducersUndisturbed \/ NoStrandedProducer'
    BY <1>11 DEF WorkerExit
<1>12. ASSUME NEW w \in Workers, WorkerTake(w) PROVE ProducersUndisturbed \/ NoStrandedProducer'
    BY <1>12, TakeFreesSlot
<1>13. ASSUME NEW w \in Workers, WorkerFinish(w) PROVE ProducersUndisturbed \/ NoStrandedProducer'
    BY <1>13 DEF WorkerFinish
<1>14. ASSUME NEW w \in Workers, WorkerRelease(w) PROVE ProducersUndisturbed \/ NoStrandedProducer'
    BY <1>14 DEF WorkerRelease
<1>15. ASSUME NEW entry \in scheduled, SchedulerDispatch(entry)
      PROVE  ProducersUndisturbed \/ NoStrandedProducer'
    BY <1>15 DEF SchedulerDispatch, AfterDispatch
<1>16. CASE SchedulerWait \/ SchedulerWakes \/ SchedulerExit
    BY <1>16 DEF SchedulerWait, SchedulerWakes, SchedulerExit
<1>17. ASSUME NEW entry \in scheduled, ComesDue(entry)
      PROVE  ProducersUndisturbed \/ NoStrandedProducer'
    BY <1>17 DEF ComesDue
<1>18. ASSUME NEW i \in Waiters, IdleWaiter(i) PROVE ProducersUndisturbed \/ NoStrandedProducer'
    BY <1>18 DEF IdleWaiter, IdleCall, IdleResume, IdleTimeout
<1>19. ASSUME NEW b \in {"Block", "Reject"}, SetBackpressurePolicy(b)
      PROVE  ProducersUndisturbed \/ NoStrandedProducer'
    BY <1>19 DEF SetBackpressurePolicy
<1>20. CASE StartFlags
    BY <1>20 DEF StartFlags, MayStart, NoStrandedProducer
<1>21. CASE Spawn \/ \E created \in SUBSET Workers : SpawnFails(created)
    BY <1>21 DEF Spawn, SpawnFails
<1>22. CASE Unwind
    BY <1>22 DEF Unwind, NoStrandedProducer
<1>23. CASE UnwindEnd \/ JoinEnd
    BY <1>23 DEF UnwindEnd, JoinEnd, NoThreads, ThreadsEnded, NoStrandedProducer
<1>24. ASSUME NEW mode \in {"Drain", "CancelPending"}, Stop(mode)
      PROVE  ProducersUndisturbed \/ NoStrandedProducer'
    BY <1>24 DEF Stop, NoStrandedProducer
<1>25. CASE JoinBegin
    BY <1>25 DEF JoinBegin, NoStrandedProducer
<1>26. CASE UNCHANGED vars
    BY <1>26 DEF vars
<1> HIDE DEF LifecycleInv, TypeOK, PlacesOfKind, SleepersWait, FlagsAgree, ThreadsOfStart,
        NoThreadYet, OpenAgrees, ProducersUndisturbed, Returning, Waiting, SleepingAt, At,
        Awake, InEnqueue, MayGoOn, Closed, EnqueueFails, NotifyOne, NotifyIdle,
        WokenByStop, Threads, Enqueuers, queueVars, flags, history
<1> QED
    BY <1>1, <1>2, <1>3, <1>4, <1>5, <1>6, <1>7, <1>8, <1>9, <1>10, <1>11, <1>12, <1>13, <1>14,
        <1>15, <1>16, <1>17, <1>18, <1>19, <1>20, <1>21, <1>22, <1>23, <1>24, <1>25, <1>26 DEF
        Next, Posting, Enqueue, Worker, Scheduler, Lifecycle

\* No lost wakeup of cv_not_full_.
LEMMA ProducerWakeupStep ==
    ASSUME LifecycleInv, CustodyInv, OpenAgrees, NoStrandedProducer, [Next]_vars
    PROVE  NoStrandedProducer'
<1>1. (Waiting # {} /\ ~Closed) => Capacity - Cardinality(queue) <= Cardinality(Returning)
    BY DEF NoStrandedProducer, Returning, Waiting
<1>2. ProducersUndisturbed =>
          ((Waiting' # {} /\ ~Closed') => Capacity - Cardinality(queue') <= Cardinality(Returning'))
  <2> HIDE DEF Returning, Waiting, Closed
  <2> QED
      BY <1>1 DEF ProducersUndisturbed
<1>3. ProducersUndisturbed => NoStrandedProducer'
    BY <1>2 DEF NoStrandedProducer, Returning, Waiting
<1> QED
    BY <1>3, ProducersStep

\* No wakeup is lost, neither of a worker that sleeps while work is queued nor of a
\* producer that sleeps while there is room.
THEOREM NoWakeupLost == Spec => []NoStrandedSleeper
<1>1. Init => OpenAgrees /\ NoStrandedTask /\ NoStrandedProducer
    BY ThreadAssumption DEF Init, OpenAgrees, NoStrandedTask, NoStrandedProducer, SleepingAt, Threads
<1>2. LifecycleInv /\ OpenAgrees /\ [Next]_vars => OpenAgrees'
    BY OpenStep
<1>3. LifecycleInv /\ CustodyInv /\ NoStrandedTask /\ [Next]_vars => NoStrandedTask'
    BY TaskWakeupStep
<1>4. LifecycleInv /\ CustodyInv /\ OpenAgrees /\ NoStrandedProducer /\ [Next]_vars => NoStrandedProducer'
    BY ProducerWakeupStep
<1>5. NoStrandedTask /\ NoStrandedProducer => NoStrandedSleeper
    BY DEF NoStrandedSleeper
<1> QED
    BY <1>1, <1>2, <1>3, <1>4, <1>5, PoolLifecycle, TaskCustody, PTL DEF Spec

------------------------------------------------------------------------------
(* Callers of WaitForIdle: cv_idle_. *)

\* A pool without threads counts no active worker.
LEMMA NoThreadNoActive ==
    ASSUME LifecycleInv, ActiveWorkers, NoThreadYet
    PROVE  active = 0
<1>1. At({"w_run", "w_ran"}) = {}
    BY ThreadAssumption DEF LifecycleInv, PlacesOfKind, NoThreadYet, At, Threads
<1> QED
    BY <1>1, FS_EmptySet DEF ActiveWorkers

\* A full queue holds something: the capacity is at least 1.
LEMMA FullIsNotEmpty == LifecycleInv /\ ~HasRoom => queue # {}
    BY CapacityAssumption, FS_EmptySet DEF HasRoom

\* Whatever makes the pool idle notifies cv_idle_, or carries a task, or is a
\* Join that will.
LEMMA WaitersStep ==
    ASSUME LifecycleInv, OpenAgrees, ActiveWorkers, NoStrandedWaiter, [Next]_vars
    PROVE  NoStrandedWaiter'
<1> USE ThreadAssumption, FullIsNotEmpty DEF LifecycleInv, TypeOK, PlacesOfKind,
        SleepersWait, FlagsAgree, ThreadsOfStart, NoThreadYet, OpenAgrees, IsIdleLocked,
        NoStrandedWaiter, SleepingAt, At, Awake, InEnqueue, MayGoOn, Closed, EnqueueFails,
        NotifyOne, NotifyIdle, WokenByStop, Threads, Enqueuers, queueVars, flags, history
<1>1. ASSUME NEW p \in Producers, NEW task \in PostTasks, NEW pr \in UsedPriorities,
                NEW kind \in {"post", "try", "until"},
             PostBegin(p, task, pr, kind)
      PROVE  NoStrandedWaiter'
    BY <1>1 DEF PostBegin
<1>2. ASSUME NEW p \in Producers, NEW task \in DelayedTasks \cup PeriodicTasks, NEW due \in BOOLEAN,
             Schedule(p, task, due)
      PROVE  NoStrandedWaiter'
    BY <1>2 DEF Schedule
<1>3. ASSUME NEW p \in Producers, NEW entry \in scheduled, CancelScheduled(p, entry)
      PROVE  NoStrandedWaiter'
    BY <1>3 DEF CancelScheduled
<1>4. ASSUME NEW e \in Enqueuers, EnqueuePush(e) PROVE NoStrandedWaiter'
    BY <1>4 DEF EnqueuePush, Push
<1>5. ASSUME NEW e \in Enqueuers, EnqueueReject(e) PROVE NoStrandedWaiter'
    BY <1>5 DEF EnqueueReject
<1>6. ASSUME NEW e \in Enqueuers, EnqueueFull(e) PROVE NoStrandedWaiter'
    BY <1>6 DEF EnqueueFull
<1>7. ASSUME NEW e \in Enqueuers, EnqueueTimeout(e) PROVE NoStrandedWaiter'
    BY <1>7 DEF EnqueueTimeout
<1>8. ASSUME NEW e \in Enqueuers, EnqueueBlock(e) PROVE NoStrandedWaiter'
    BY <1>8 DEF EnqueueBlock
<1>9. ASSUME NEW e \in Enqueuers, EnqueueNotify(e) PROVE NoStrandedWaiter'
    BY <1>9 DEF EnqueueNotify
<1>10. ASSUME NEW w \in Workers, WorkerWait(w) PROVE NoStrandedWaiter'
    BY <1>10 DEF WorkerWait
<1>11. ASSUME NEW w \in Workers, WorkerExit(w) PROVE NoStrandedWaiter'
    BY <1>11 DEF WorkerExit
<1>12. ASSUME NEW w \in Workers, WorkerTake(w) PROVE NoStrandedWaiter'
    BY <1>12 DEF WorkerTake
<1>13. ASSUME NEW w \in Workers, WorkerFinish(w) PROVE NoStrandedWaiter'
    BY <1>13 DEF WorkerFinish
<1>14. ASSUME NEW w \in Workers, WorkerRelease(w) PROVE NoStrandedWaiter'
    BY <1>14 DEF WorkerRelease
<1>15. ASSUME NEW entry \in scheduled, SchedulerDispatch(entry) PROVE NoStrandedWaiter'
    BY <1>15 DEF SchedulerDispatch, AfterDispatch
<1>16. CASE SchedulerWait \/ SchedulerWakes \/ SchedulerExit
    BY <1>16 DEF SchedulerWait, SchedulerWakes, SchedulerExit
<1>17. ASSUME NEW entry \in scheduled, ComesDue(entry) PROVE NoStrandedWaiter'
    BY <1>17 DEF ComesDue
<1>18. ASSUME NEW i \in Waiters, IdleWaiter(i) PROVE NoStrandedWaiter'
    BY <1>18 DEF IdleWaiter, IdleCall, IdleResume, IdleTimeout
<1>19. ASSUME NEW b \in {"Block", "Reject"}, SetBackpressurePolicy(b) PROVE NoStrandedWaiter'
    BY <1>19 DEF SetBackpressurePolicy
<1>20. CASE StartFlags
    BY <1>20, NoThreadNoActive DEF StartFlags, MayStart
<1>21. CASE Spawn \/ \E created \in SUBSET Workers : SpawnFails(created)
    BY <1>21 DEF Spawn, SpawnFails
<1>22. CASE Unwind
    BY <1>22 DEF Unwind
<1>23. CASE UnwindEnd
    BY <1>23 DEF UnwindEnd, NoThreads, ThreadsEnded
<1>24. CASE JoinEnd
    BY <1>24 DEF JoinEnd, NoThreads, ThreadsEnded
<1>25. ASSUME NEW mode \in {"Drain", "CancelPending"}, Stop(mode) PROVE NoStrandedWaiter'
    BY <1>25 DEF Stop
<1>26. CASE JoinBegin
    BY <1>26 DEF JoinBegin
<1>27. CASE UNCHANGED vars
    BY <1>27 DEF vars
<1> HIDE DEF LifecycleInv, TypeOK, PlacesOfKind, SleepersWait, FlagsAgree, ThreadsOfStart,
        NoThreadYet, OpenAgrees, IsIdleLocked, NoStrandedWaiter, SleepingAt, At, Awake,
        InEnqueue, MayGoOn, Closed, EnqueueFails, NotifyOne, NotifyIdle, WokenByStop,
        Threads, Enqueuers, queueVars, flags, history
<1> QED
    BY <1>1, <1>2, <1>3, <1>4, <1>5, <1>6, <1>7, <1>8, <1>9, <1>10, <1>11, <1>12, <1>13, <1>14,
        <1>15, <1>16, <1>17, <1>18, <1>19, <1>20, <1>21, <1>22, <1>23, <1>24, <1>25, <1>26,
        <1>27 DEF Next, Posting, Enqueue, Worker, Scheduler, Lifecycle

\* WaitForIdle never sleeps through an idle pool, but for the moment the scheduler
\* carries a task it has just taken, or until the Join that emptied it ends.
THEOREM NoWaiterStranded == Spec => []NoStrandedWaiter
<1>1. Init => OpenAgrees /\ NoStrandedWaiter
    BY ThreadAssumption DEF Init, OpenAgrees, NoStrandedWaiter, SleepingAt, Threads
<1>2. LifecycleInv /\ OpenAgrees /\ [Next]_vars => OpenAgrees'
    BY OpenStep
<1>3. LifecycleInv /\ OpenAgrees /\ ActiveWorkers /\ NoStrandedWaiter /\ [Next]_vars => NoStrandedWaiter'
    BY WaitersStep
<1> QED
    BY <1>1, <1>2, <1>3, PoolLifecycle, ActiveWorkersCounted, PTL DEF Spec
==============================================================================
