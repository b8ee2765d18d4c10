---------------------------- MODULE ThreadPoolProofs ----------------------------
(***************************************************************************)
(* Safety of asyncx::ThreadPool for every number of threads, tasks and     *)
(* queue slots: LifecycleInv is inductive, and on it rest the bound of the *)
(* queue, the count of active workers, the wakeups of a stop request and   *)
(* the refinement of TaskQueue.                                            *)
(***************************************************************************)
EXTENDS ThreadPool, FiniteSetTheorems, TLAPS

------------------------------------------------------------------------------
(* Facts about the data. *)

\* A dispatch moves next_dispatch_slot_ to another slot of the array.
LEMMA NextSlot ==
    ASSUME NEW s \in 0..6, NEW o \in 0..6
    PROVE  (((s + o) % 7) + 1) % 7 \in 0..6
    OBVIOUS

\* A scheduled entry stays one when its time comes or it is put back.
LEMMA EntryDue ==
    ASSUME NEW entry \in ScheduledEntry, NEW b \in BOOLEAN
    PROVE  /\ [entry EXCEPT !.due = b] \in ScheduledEntry
           /\ entry.task \in Task
    BY TaskAssumption DEF ScheduledEntry

\* scheduled_tasks_ stays a finite set of entries when one is put in or taken out.
LEMMA ScheduledChange ==
    ASSUME NEW S, S \subseteq ScheduledEntry, IsFiniteSet(S), NEW x, NEW y \in ScheduledEntry
    PROVE  /\ S \cup {y} \subseteq ScheduledEntry /\ IsFiniteSet(S \cup {y})
           /\ S \ {x} \subseteq ScheduledEntry /\ IsFiniteSet(S \ {x})
           /\ (S \ {x}) \cup {y} \subseteq ScheduledEntry /\ IsFiniteSet((S \ {x}) \cup {y})
<1>1. IsFiniteSet(S \ {x})
    BY FS_RemoveElement
<1>2. IsFiniteSet(S \cup {y}) /\ IsFiniteSet((S \ {x}) \cup {y})
    BY <1>1, FS_AddElement
<1> QED
    BY <1>1, <1>2

\* What a stop request discards: counters grow by numbers of things, and only
\* tasks are dropped.
LEMMA DiscardTypes ==
    ASSUME TypeOK, NEW gone \in SUBSET queue, Discard(gone)
    PROVE  /\ scheduled' \subseteq ScheduledEntry /\ IsFiniteSet(scheduled')
           /\ stats' \in [Counters -> Nat]
           /\ discarded' \in Nat
           /\ dropped' \subseteq Task
<1>1. Cardinality(gone) \in Nat /\ Cardinality(scheduled) \in Nat
    BY FS_Subset, FS_CardinalityType DEF TypeOK, QueueTypeOK
<1>2. scheduled' = {} /\ IsFiniteSet(scheduled')
    BY FS_EmptySet DEF Discard
<1>3. stats' \in [Counters -> Nat] /\ discarded' \in Nat
  <2> DEFINE n == Cardinality(gone)
             m == Cardinality(scheduled)
  <2>1. /\ stats' = [stats EXCEPT !["rejected"] = @ + m + n, !["cancelled"] = @ + m]
        /\ discarded' = discarded + n
        BY DEF Discard
  <2>2. n \in Nat /\ m \in Nat
        BY <1>1
  <2> HIDE DEF n, m
  <2> QED
        BY <2>1, <2>2 DEF TypeOK, Counters
<1>4. dropped' \subseteq Task
  <2>1. \A entry \in scheduled : entry.task \in Task
        BY EntryDue DEF TypeOK
  <2>2. \A e \in gone : e.task \in Task
        BY DEF TypeOK, QueueTypeOK, Entry
  <2> QED
        BY <2>1, <2>2 DEF Discard, TypeOK
<1> QED
    BY <1>2, <1>3, <1>4

------------------------------------------------------------------------------
(* LifecycleInv. *)

\* Every variable keeps its type.
LEMMA TypeStep ==
    ASSUME LifecycleInv, [Next]_vars
    PROVE  TypeOK'
<1> USE ThreadAssumption, TaskAssumption DEF LifecycleInv, TypeOK, QueueTypeOK,
        PlacesOfKind, TasksInHand, SleepersWait, Request, Entry, Places, Counters,
        NoRequest, Bump, At, NotifyOne, NotifyIdle, WokenByStop, InEnqueue,
        EnqueueFails, NoThreads, vars, queueVars, flags, history, Threads, Enqueuers
<1>1. ASSUME NEW p \in Producers, NEW task \in PostTasks, NEW pr \in UsedPriorities,
                NEW kind \in {"post", "try", "until"},
             PostBegin(p, task, pr, kind)
     PROVE  TypeOK'
    BY <1>1 DEF PostBegin
<1>2. ASSUME NEW p \in Producers, NEW task \in DelayedTasks \cup PeriodicTasks, NEW due \in BOOLEAN,
             Schedule(p, task, due)
     PROVE  TypeOK'
    <2>1. [task |-> task, due |-> due] \in ScheduledEntry
          BY DEF ScheduledEntry
    <2>2. PICK x \in ScheduledEntry : scheduled' = scheduled \/ scheduled' = scheduled \cup {x}
          BY <1>2, <2>1 DEF Schedule
    <2>3. IsFiniteSet(scheduled) /\ IsFiniteSet(scheduled \cup {x})
          BY FS_AddElement
    <2>4. IsFiniteSet(scheduled')
          BY <2>2, <2>3, Zenon
    <2>5. scheduled' \subseteq ScheduledEntry
          BY <2>2
    <2> QED
          BY <1>2, <2>4, <2>5 DEF Schedule
<1>3. ASSUME NEW p \in Producers, NEW entry \in scheduled, CancelScheduled(p, entry)
     PROVE  TypeOK'
    <2>1. scheduled' \subseteq ScheduledEntry /\ IsFiniteSet(scheduled')
          BY <1>3, FS_RemoveElement DEF CancelScheduled
    <2>2. entry.task \in Task
          BY EntryDue
    <2>3. dropped' \subseteq Task /\ stats' \in [Counters -> Nat]
          BY <1>3, <2>2 DEF CancelScheduled
    <2> QED
          BY <1>3, <2>1, <2>3 DEF CancelScheduled
<1>4. ASSUME NEW e \in Enqueuers, EnqueuePush(e) PROVE TypeOK'
    <2>1. queue' \subseteq Entry
          BY <1>4 DEF EnqueuePush, Push, MayGoOn
    <2>2. IsFiniteSet(queue')
          BY <1>4, FS_AddElement DEF EnqueuePush, Push
    <2>3. nextSequence' \in Nat \ {0}
          BY <1>4 DEF EnqueuePush, Push
    <2>4. accepted' \subseteq Task
          BY <1>4 DEF EnqueuePush, MayGoOn
    <2> QED
          BY <1>4, <2>1, <2>2, <2>3, <2>4 DEF EnqueuePush, Push
<1>5. ASSUME NEW e \in Enqueuers, EnqueueReject(e) PROVE TypeOK'
    BY <1>5 DEF EnqueueReject
<1>6. ASSUME NEW e \in Enqueuers, EnqueueFull(e) PROVE TypeOK'
    BY <1>6 DEF EnqueueFull
<1>7. ASSUME NEW e \in Enqueuers, EnqueueBlock(e) PROVE TypeOK'
    BY <1>7 DEF EnqueueBlock
<1>8. ASSUME NEW e \in Enqueuers, EnqueueTimeout(e) PROVE TypeOK'
    BY <1>8 DEF EnqueueTimeout
<1>9. ASSUME NEW e \in Enqueuers, EnqueueNotify(e) PROVE TypeOK'
    BY <1>9 DEF EnqueueNotify
<1>10. ASSUME NEW w \in Workers, WorkerWait(w) PROVE TypeOK'
    BY <1>10 DEF WorkerWait
<1>11. ASSUME NEW w \in Workers, WorkerExit(w) PROVE TypeOK'
    BY <1>11 DEF WorkerExit
<1>12. ASSUME NEW w \in Workers, WorkerTake(w) PROVE TypeOK'
    <2>1. PICK e \in queue : Dispatch(e) /\ job' = [job EXCEPT ![w] = e.task]
          BY <1>12 DEF WorkerTake
    <2>2. queue' \subseteq Entry /\ IsFiniteSet(queue') /\ nextSequence' = nextSequence
          BY <2>1, FS_RemoveElement DEF Dispatch
    <2>3. slot' \in 0..(SlotCount - 1)
          BY <2>1, NextSlot DEF Dispatch, SlotAt, SlotCount
    <2>4. job' \in [Workers -> Task \cup {NoTask}]
          BY <2>1
    <2> QED
          BY <1>12, <2>2, <2>3, <2>4 DEF WorkerTake
<1>13. ASSUME NEW w \in Workers, WorkerFinish(w) PROVE TypeOK'
    BY <1>13 DEF WorkerFinish
<1>14. ASSUME NEW w \in Workers, WorkerRelease(w) PROVE TypeOK'
    BY <1>14 DEF WorkerRelease
<1>15. ASSUME SchedulerWait PROVE TypeOK'
    BY <1>15 DEF SchedulerWait
<1>16. ASSUME SchedulerWakes PROVE TypeOK'
    BY <1>16 DEF SchedulerWakes
<1>17. ASSUME SchedulerExit PROVE TypeOK'
    BY <1>17 DEF SchedulerExit
<1>18. ASSUME NEW entry \in scheduled, SchedulerDispatch(entry) PROVE TypeOK'
    <2>1. entry.task \in Task /\ [entry EXCEPT !.due = FALSE] \in ScheduledEntry
          BY EntryDue
    <2>2. scheduled' \subseteq ScheduledEntry /\ IsFiniteSet(scheduled')
          BY <1>18, <2>1, ScheduledChange, FS_RemoveElement DEF SchedulerDispatch, AfterDispatch
    <2>3. request' \in [Enqueuers -> Request \cup {NoRequest}]
          BY <1>18, <2>1 DEF SchedulerDispatch, Priority
    <2> QED
          BY <1>18, <2>2, <2>3 DEF SchedulerDispatch
<1>19. ASSUME NEW entry \in scheduled, ComesDue(entry) PROVE TypeOK'
    <2>1. [entry EXCEPT !.due = TRUE] \in ScheduledEntry
          BY EntryDue
    <2>2. scheduled' \subseteq ScheduledEntry /\ IsFiniteSet(scheduled')
          BY <1>19, <2>1, ScheduledChange DEF ComesDue
    <2> QED
          BY <1>19, <2>2 DEF ComesDue
<1>20. ASSUME NEW i \in Waiters, NEW place \in {"i_wait", "i_until"}, IdleCall(i, place)
     PROVE  TypeOK'
    BY <1>20 DEF IdleCall
<1>21. ASSUME NEW i \in Waiters, IdleResume(i) PROVE TypeOK'
    BY <1>21 DEF IdleResume
<1>22. ASSUME NEW i \in Waiters, IdleTimeout(i) PROVE TypeOK'
    BY <1>22 DEF IdleTimeout
<1>23. ASSUME NEW b \in {"Block", "Reject"}, SetBackpressurePolicy(b) PROVE TypeOK'
    BY <1>23 DEF SetBackpressurePolicy
<1>24. ASSUME StartFlags PROVE TypeOK'
    <2>1. starts' \in 0..MaxStarts /\ slot' \in 0..(SlotCount - 1) /\ nextSequence' \in Nat \ {0}
          BY <1>24, BoundAssumption DEF StartFlags, SlotCount
    <2> QED
          BY <1>24, <2>1 DEF StartFlags
<1>25. ASSUME Spawn PROVE TypeOK'
    BY <1>25 DEF Spawn
<1>26. ASSUME NEW created \in SUBSET Workers, SpawnFails(created) PROVE TypeOK'
    BY <1>26 DEF SpawnFails
<1>27. ASSUME Unwind PROVE TypeOK'
    BY <1>27 DEF Unwind
<1>28. ASSUME UnwindEnd PROVE TypeOK'
    BY <1>28 DEF UnwindEnd
<1>29. ASSUME NEW mode \in {"Drain", "CancelPending"}, Stop(mode) PROVE TypeOK'
    <2>1. PICK gone \in SUBSET queue : queue' = queue \ gone /\ Discard(gone)
          BY <1>29 DEF Stop
    <2>2. queue' \subseteq Entry /\ IsFiniteSet(queue')
          BY <2>1, FS_Subset
    <2> QED
          BY <1>29, <2>1, <2>2, DiscardTypes DEF Stop
<1>30. ASSUME JoinBegin PROVE TypeOK'
    <2>1. CASE running /\ ~stopRequested
      <3>1. Discard({})
            BY <1>30, <2>1 DEF JoinBegin
      <3> QED
            BY <1>30, <2>1, <3>1, DiscardTypes DEF JoinBegin
    <2>2. CASE ~(running /\ ~stopRequested)
          BY <1>30, <2>2 DEF JoinBegin
    <2> QED
          BY <2>1, <2>2
<1>31. ASSUME JoinEnd PROVE TypeOK'
    BY <1>31 DEF JoinEnd
<1>32. CASE UNCHANGED vars
    BY <1>32
<1> HIDE DEF LifecycleInv, TypeOK, QueueTypeOK, PlacesOfKind, TasksInHand,
        SleepersWait, Request, Entry, Places, Counters, NoRequest, Bump, At,
        NotifyOne, NotifyIdle, WokenByStop, InEnqueue, EnqueueFails, NoThreads,
        vars, queueVars, flags, history, Threads, Enqueuers
<1> QED
    BY <1>1, <1>2, <1>3, <1>4, <1>5, <1>6, <1>7, <1>8, <1>9, <1>10, <1>11, <1>12,
       <1>13, <1>14, <1>15, <1>16, <1>17, <1>18, <1>19, <1>20, <1>21, <1>22, <1>23,
       <1>24, <1>25, <1>26, <1>27, <1>28, <1>29, <1>30, <1>31, <1>32
       DEF Next, Posting, Enqueue, Worker, Scheduler, IdleWaiter, Lifecycle

\* A thread stays at the places of its kind.
LEMMA PlacesStep ==
    ASSUME LifecycleInv, [Next]_vars
    PROVE  PlacesOfKind'
<1> USE ThreadAssumption DEF LifecycleInv, TypeOK, PlacesOfKind, InEnqueue,
        EnqueueFails, NoThreads, vars, queueVars, flags, history, Threads, Enqueuers
<1>1. ASSUME NEW p \in Producers, NEW task \in PostTasks, NEW pr \in UsedPriorities,
                NEW kind \in {"post", "try", "until"},
             PostBegin(p, task, pr, kind)
     PROVE  PlacesOfKind'
    BY <1>1 DEF PostBegin
<1>2. ASSUME NEW p \in Producers, NEW task \in DelayedTasks \cup PeriodicTasks, NEW due \in BOOLEAN,
             Schedule(p, task, due)
     PROVE  PlacesOfKind'
    BY <1>2 DEF Schedule
<1>3. ASSUME NEW p \in Producers, NEW entry \in scheduled, CancelScheduled(p, entry)
     PROVE  PlacesOfKind'
    BY <1>3 DEF CancelScheduled
<1>4. ASSUME NEW e \in Enqueuers, EnqueuePush(e) PROVE PlacesOfKind'
    BY <1>4 DEF EnqueuePush
<1>5. ASSUME NEW e \in Enqueuers, EnqueueReject(e) PROVE PlacesOfKind'
    BY <1>5 DEF EnqueueReject
<1>6. ASSUME NEW e \in Enqueuers, EnqueueFull(e) PROVE PlacesOfKind'
    BY <1>6 DEF EnqueueFull
<1>7. ASSUME NEW e \in Enqueuers, EnqueueBlock(e) PROVE PlacesOfKind'
    BY <1>7 DEF EnqueueBlock
<1>8. ASSUME NEW e \in Enqueuers, EnqueueTimeout(e) PROVE PlacesOfKind'
    BY <1>8 DEF EnqueueTimeout
<1>9. ASSUME NEW e \in Enqueuers, EnqueueNotify(e) PROVE PlacesOfKind'
    BY <1>9 DEF EnqueueNotify
<1>10. ASSUME NEW w \in Workers, WorkerWait(w) PROVE PlacesOfKind'
    BY <1>10 DEF WorkerWait
<1>11. ASSUME NEW w \in Workers, WorkerExit(w) PROVE PlacesOfKind'
    BY <1>11 DEF WorkerExit
<1>12. ASSUME NEW w \in Workers, WorkerTake(w) PROVE PlacesOfKind'
    BY <1>12 DEF WorkerTake
<1>13. ASSUME NEW w \in Workers, WorkerFinish(w) PROVE PlacesOfKind'
    BY <1>13 DEF WorkerFinish
<1>14. ASSUME NEW w \in Workers, WorkerRelease(w) PROVE PlacesOfKind'
    BY <1>14 DEF WorkerRelease
<1>15. ASSUME SchedulerWait PROVE PlacesOfKind'
    BY <1>15 DEF SchedulerWait
<1>16. ASSUME SchedulerWakes PROVE PlacesOfKind'
    BY <1>16 DEF SchedulerWakes
<1>17. ASSUME SchedulerExit PROVE PlacesOfKind'
    BY <1>17 DEF SchedulerExit
<1>18. ASSUME NEW entry \in scheduled, SchedulerDispatch(entry) PROVE PlacesOfKind'
    BY <1>18 DEF SchedulerDispatch
<1>19. ASSUME NEW entry \in scheduled, ComesDue(entry) PROVE PlacesOfKind'
    BY <1>19 DEF ComesDue
<1>20. ASSUME NEW i \in Waiters, NEW place \in {"i_wait", "i_until"}, IdleCall(i, place)
     PROVE  PlacesOfKind'
    BY <1>20 DEF IdleCall
<1>21. ASSUME NEW i \in Waiters, IdleResume(i) PROVE PlacesOfKind'
    BY <1>21 DEF IdleResume
<1>22. ASSUME NEW i \in Waiters, IdleTimeout(i) PROVE PlacesOfKind'
    BY <1>22 DEF IdleTimeout
<1>23. ASSUME NEW b \in {"Block", "Reject"}, SetBackpressurePolicy(b)
     PROVE  PlacesOfKind'
    BY <1>23 DEF SetBackpressurePolicy
<1>24. ASSUME StartFlags PROVE PlacesOfKind'
    BY <1>24 DEF StartFlags
<1>25. ASSUME Spawn PROVE PlacesOfKind'
    BY <1>25 DEF Spawn
<1>26. ASSUME NEW created \in SUBSET Workers, SpawnFails(created) PROVE PlacesOfKind'
    BY <1>26 DEF SpawnFails
<1>27. ASSUME Unwind PROVE PlacesOfKind'
    BY <1>27 DEF Unwind
<1>28. ASSUME UnwindEnd PROVE PlacesOfKind'
    BY <1>28 DEF UnwindEnd
<1>29. ASSUME NEW mode \in {"Drain", "CancelPending"}, Stop(mode) PROVE PlacesOfKind'
    BY <1>29 DEF Stop
<1>30. ASSUME JoinBegin PROVE PlacesOfKind'
    BY <1>30 DEF JoinBegin
<1>31. ASSUME JoinEnd PROVE PlacesOfKind'
    BY <1>31 DEF JoinEnd
<1>32. CASE UNCHANGED vars
    BY <1>32
<1> HIDE DEF LifecycleInv, TypeOK, PlacesOfKind, InEnqueue, EnqueueFails, NoThreads,
        vars, queueVars, flags, history, Threads, Enqueuers
<1> QED
    BY <1>1, <1>2, <1>3, <1>4, <1>5, <1>6, <1>7, <1>8, <1>9, <1>10, <1>11, <1>12,
       <1>13, <1>14, <1>15, <1>16, <1>17, <1>18, <1>19, <1>20, <1>21, <1>22, <1>23,
       <1>24, <1>25, <1>26, <1>27, <1>28, <1>29, <1>30, <1>31, <1>32
       DEF Next, Posting, Enqueue, Worker, Scheduler, IdleWaiter, Lifecycle

\* Calls of EnqueueTask and running workers hold tasks.
LEMMA HandsStep ==
    ASSUME LifecycleInv, [Next]_vars
    PROVE  TasksInHand'
<1> USE ThreadAssumption, TaskAssumption DEF LifecycleInv, TypeOK, PlacesOfKind,
        TasksInHand, InEnqueue, Awake, MayGoOn, EnqueueFails, NoThreads, Push,
        Dispatch, Oldest, OfPriority, Entry, QueueTypeOK, vars, queueVars, flags,
        history, Threads, Enqueuers, Request, ScheduledEntry, Priority
<1>1. ASSUME NEW p \in Producers, NEW task \in PostTasks, NEW pr \in UsedPriorities,
                NEW kind \in {"post", "try", "until"},
             PostBegin(p, task, pr, kind)
     PROVE  TasksInHand'
    BY <1>1 DEF PostBegin
<1>2. ASSUME NEW p \in Producers, NEW task \in DelayedTasks \cup PeriodicTasks, NEW due \in BOOLEAN,
             Schedule(p, task, due)
     PROVE  TasksInHand'
    BY <1>2 DEF Schedule
<1>3. ASSUME NEW p \in Producers, NEW entry \in scheduled, CancelScheduled(p, entry)
     PROVE  TasksInHand'
    BY <1>3 DEF CancelScheduled
<1>4. ASSUME NEW e \in Enqueuers, EnqueuePush(e) PROVE TasksInHand'
    BY <1>4 DEF EnqueuePush
<1>5. ASSUME NEW e \in Enqueuers, EnqueueReject(e) PROVE TasksInHand'
    BY <1>5 DEF EnqueueReject
<1>6. ASSUME NEW e \in Enqueuers, EnqueueFull(e) PROVE TasksInHand'
    BY <1>6 DEF EnqueueFull
<1>7. ASSUME NEW e \in Enqueuers, EnqueueBlock(e) PROVE TasksInHand'
    BY <1>7 DEF EnqueueBlock
<1>8. ASSUME NEW e \in Enqueuers, EnqueueTimeout(e) PROVE TasksInHand'
    BY <1>8 DEF EnqueueTimeout
<1>9. ASSUME NEW e \in Enqueuers, EnqueueNotify(e) PROVE TasksInHand'
    BY <1>9 DEF EnqueueNotify
<1>10. ASSUME NEW w \in Workers, WorkerWait(w) PROVE TasksInHand'
    BY <1>10 DEF WorkerWait
<1>11. ASSUME NEW w \in Workers, WorkerExit(w) PROVE TasksInHand'
    BY <1>11 DEF WorkerExit
<1>12. ASSUME NEW w \in Workers, WorkerTake(w) PROVE TasksInHand'
    BY <1>12 DEF WorkerTake
<1>13. ASSUME NEW w \in Workers, WorkerFinish(w) PROVE TasksInHand'
    BY <1>13 DEF WorkerFinish
<1>14. ASSUME NEW w \in Workers, WorkerRelease(w) PROVE TasksInHand'
    BY <1>14 DEF WorkerRelease
<1>15. ASSUME SchedulerWait PROVE TasksInHand'
    BY <1>15 DEF SchedulerWait
<1>16. ASSUME SchedulerWakes PROVE TasksInHand'
    BY <1>16 DEF SchedulerWakes
<1>17. ASSUME SchedulerExit PROVE TasksInHand'
    BY <1>17 DEF SchedulerExit
<1>18. ASSUME NEW entry \in scheduled, SchedulerDispatch(entry) PROVE TasksInHand'
    BY <1>18 DEF SchedulerDispatch
<1>19. ASSUME NEW entry \in scheduled, ComesDue(entry) PROVE TasksInHand'
    BY <1>19 DEF ComesDue
<1>20. ASSUME NEW i \in Waiters, NEW place \in {"i_wait", "i_until"}, IdleCall(i, place)
     PROVE  TasksInHand'
    BY <1>20 DEF IdleCall
<1>21. ASSUME NEW i \in Waiters, IdleResume(i) PROVE TasksInHand'
    BY <1>21 DEF IdleResume
<1>22. ASSUME NEW i \in Waiters, IdleTimeout(i) PROVE TasksInHand'
    BY <1>22 DEF IdleTimeout
<1>23. ASSUME NEW b \in {"Block", "Reject"}, SetBackpressurePolicy(b) PROVE TasksInHand'
    BY <1>23 DEF SetBackpressurePolicy
<1>24. ASSUME StartFlags PROVE TasksInHand'
    BY <1>24 DEF StartFlags
<1>25. ASSUME Spawn PROVE TasksInHand'
    BY <1>25 DEF Spawn
<1>26. ASSUME NEW created \in SUBSET Workers, SpawnFails(created) PROVE TasksInHand'
    BY <1>26 DEF SpawnFails
<1>27. ASSUME Unwind PROVE TasksInHand'
    BY <1>27 DEF Unwind
<1>28. ASSUME UnwindEnd PROVE TasksInHand'
    BY <1>28 DEF UnwindEnd
<1>29. ASSUME NEW mode \in {"Drain", "CancelPending"}, Stop(mode) PROVE TasksInHand'
    BY <1>29 DEF Stop
<1>30. ASSUME JoinBegin PROVE TasksInHand'
    BY <1>30 DEF JoinBegin
<1>31. ASSUME JoinEnd PROVE TasksInHand'
    BY <1>31 DEF JoinEnd
<1>32. CASE UNCHANGED vars
    BY <1>32
<1> HIDE DEF LifecycleInv, TypeOK, PlacesOfKind, TasksInHand, InEnqueue, Awake,
        MayGoOn, EnqueueFails, NoThreads, Push, Dispatch, Oldest, OfPriority, Entry,
        QueueTypeOK, vars, queueVars, flags, history, Threads, Enqueuers, Request,
        ScheduledEntry, Priority
<1> QED
    BY <1>1, <1>2, <1>3, <1>4, <1>5, <1>6, <1>7, <1>8, <1>9, <1>10, <1>11, <1>12,
       <1>13, <1>14, <1>15, <1>16, <1>17, <1>18, <1>19, <1>20, <1>21, <1>22, <1>23,
       <1>24, <1>25, <1>26, <1>27, <1>28, <1>29, <1>30, <1>31, <1>32
       DEF Next, Posting, Enqueue, Worker, Scheduler, IdleWaiter, Lifecycle

\* Nobody falls asleep but at a wait.
LEMMA SleepersStep ==
    ASSUME LifecycleInv, [Next]_vars
    PROVE  SleepersWait'
<1> USE ThreadAssumption DEF LifecycleInv, TypeOK, PlacesOfKind, SleepersWait, At,
        Awake, MayGoOn, InEnqueue, EnqueueFails, NoThreads, ThreadsEnded, NotifyOne,
        NotifyIdle, WokenByStop, vars, queueVars, flags, history, Threads, Enqueuers
<1>1. ASSUME NEW p \in Producers, NEW task \in PostTasks, NEW pr \in UsedPriorities,
                NEW kind \in {"post", "try", "until"},
             PostBegin(p, task, pr, kind)
     PROVE  SleepersWait'
    BY <1>1 DEF PostBegin
<1>2. ASSUME NEW p \in Producers, NEW task \in DelayedTasks \cup PeriodicTasks, NEW due \in BOOLEAN,
             Schedule(p, task, due)
     PROVE  SleepersWait'
    BY <1>2 DEF Schedule
<1>3. ASSUME NEW p \in Producers, NEW entry \in scheduled, CancelScheduled(p, entry)
     PROVE  SleepersWait'
    BY <1>3 DEF CancelScheduled
<1>4. ASSUME NEW e \in Enqueuers, EnqueuePush(e) PROVE SleepersWait'
    BY <1>4 DEF EnqueuePush
<1>5. ASSUME NEW e \in Enqueuers, EnqueueReject(e) PROVE SleepersWait'
    BY <1>5 DEF EnqueueReject
<1>6. ASSUME NEW e \in Enqueuers, EnqueueFull(e) PROVE SleepersWait'
    BY <1>6 DEF EnqueueFull
<1>7. ASSUME NEW e \in Enqueuers, EnqueueBlock(e) PROVE SleepersWait'
    BY <1>7 DEF EnqueueBlock
<1>8. ASSUME NEW e \in Enqueuers, EnqueueTimeout(e) PROVE SleepersWait'
    BY <1>8 DEF EnqueueTimeout
<1>9. ASSUME NEW e \in Enqueuers, EnqueueNotify(e) PROVE SleepersWait'
    BY <1>9 DEF EnqueueNotify
<1>10. ASSUME NEW w \in Workers, WorkerWait(w) PROVE SleepersWait'
    BY <1>10 DEF WorkerWait
<1>11. ASSUME NEW w \in Workers, WorkerExit(w) PROVE SleepersWait'
    BY <1>11 DEF WorkerExit
<1>12. ASSUME NEW w \in Workers, WorkerTake(w) PROVE SleepersWait'
    BY <1>12 DEF WorkerTake
<1>13. ASSUME NEW w \in Workers, WorkerFinish(w) PROVE SleepersWait'
    BY <1>13 DEF WorkerFinish
<1>14. ASSUME NEW w \in Workers, WorkerRelease(w) PROVE SleepersWait'
    BY <1>14 DEF WorkerRelease
<1>15. ASSUME SchedulerWait PROVE SleepersWait'
    BY <1>15 DEF SchedulerWait
<1>16. ASSUME SchedulerWakes PROVE SleepersWait'
    BY <1>16 DEF SchedulerWakes
<1>17. ASSUME SchedulerExit PROVE SleepersWait'
    BY <1>17 DEF SchedulerExit
<1>18. ASSUME NEW entry \in scheduled, SchedulerDispatch(entry) PROVE SleepersWait'
    BY <1>18 DEF SchedulerDispatch
<1>19. ASSUME NEW entry \in scheduled, ComesDue(entry) PROVE SleepersWait'
    BY <1>19 DEF ComesDue
<1>20. ASSUME NEW i \in Waiters, NEW place \in {"i_wait", "i_until"}, IdleCall(i, place)
     PROVE  SleepersWait'
    BY <1>20 DEF IdleCall
<1>21. ASSUME NEW i \in Waiters, IdleResume(i) PROVE SleepersWait'
    BY <1>21 DEF IdleResume
<1>22. ASSUME NEW i \in Waiters, IdleTimeout(i) PROVE SleepersWait'
    BY <1>22 DEF IdleTimeout
<1>23. ASSUME NEW b \in {"Block", "Reject"}, SetBackpressurePolicy(b)
     PROVE  SleepersWait'
    BY <1>23 DEF SetBackpressurePolicy
<1>24. ASSUME StartFlags PROVE SleepersWait'
    BY <1>24 DEF StartFlags
<1>25. ASSUME Spawn PROVE SleepersWait'
    BY <1>25 DEF Spawn
<1>26. ASSUME NEW created \in SUBSET Workers, SpawnFails(created) PROVE SleepersWait'
    BY <1>26 DEF SpawnFails
<1>27. ASSUME Unwind PROVE SleepersWait'
    BY <1>27 DEF Unwind
<1>28. ASSUME UnwindEnd PROVE SleepersWait'
    BY <1>28 DEF UnwindEnd
<1>29. ASSUME NEW mode \in {"Drain", "CancelPending"}, Stop(mode) PROVE SleepersWait'
    BY <1>29 DEF Stop
<1>30. ASSUME JoinBegin PROVE SleepersWait'
    BY <1>30 DEF JoinBegin
<1>31. ASSUME JoinEnd PROVE SleepersWait'
    BY <1>31 DEF JoinEnd
<1>32. CASE UNCHANGED vars
    BY <1>32
<1> HIDE DEF LifecycleInv, TypeOK, PlacesOfKind, SleepersWait, At, Awake, MayGoOn,
        InEnqueue, EnqueueFails, NoThreads, ThreadsEnded, NotifyOne, NotifyIdle,
        WokenByStop, vars, queueVars, flags, history, Threads, Enqueuers
<1> QED
    BY <1>1, <1>2, <1>3, <1>4, <1>5, <1>6, <1>7, <1>8, <1>9, <1>10, <1>11, <1>12,
       <1>13, <1>14, <1>15, <1>16, <1>17, <1>18, <1>19, <1>20, <1>21, <1>22, <1>23,
       <1>24, <1>25, <1>26, <1>27, <1>28, <1>29, <1>30, <1>31, <1>32
       DEF Next, Posting, Enqueue, Worker, Scheduler, IdleWaiter, Lifecycle

\* The flags keep agreeing with each other and with the owner.
LEMMA FlagsStep ==
    ASSUME LifecycleInv, [Next]_vars
    PROVE  FlagsAgree'
<1> USE ThreadAssumption DEF LifecycleInv, TypeOK, FlagsAgree, EnqueueFails,
        NoThreads, vars, flags, Threads, PlacesOfKind, InEnqueue, MayGoOn, Enqueuers
<1>1. ASSUME NEW p \in Producers, NEW task \in PostTasks, NEW pr \in UsedPriorities,
                NEW kind \in {"post", "try", "until"},
             PostBegin(p, task, pr, kind)
     PROVE  FlagsAgree'
    BY <1>1 DEF PostBegin
<1>2. ASSUME NEW p \in Producers, NEW task \in DelayedTasks \cup PeriodicTasks, NEW due \in BOOLEAN,
             Schedule(p, task, due)
     PROVE  FlagsAgree'
    BY <1>2 DEF Schedule
<1>3. ASSUME NEW p \in Producers, NEW entry \in scheduled, CancelScheduled(p, entry)
     PROVE  FlagsAgree'
    BY <1>3 DEF CancelScheduled
<1>4. ASSUME NEW e \in Enqueuers, EnqueuePush(e) PROVE FlagsAgree'
    BY <1>4 DEF EnqueuePush
<1>5. ASSUME NEW e \in Enqueuers, EnqueueReject(e) PROVE FlagsAgree'
    BY <1>5 DEF EnqueueReject
<1>6. ASSUME NEW e \in Enqueuers, EnqueueFull(e) PROVE FlagsAgree'
    BY <1>6 DEF EnqueueFull
<1>7. ASSUME NEW e \in Enqueuers, EnqueueBlock(e) PROVE FlagsAgree'
    BY <1>7 DEF EnqueueBlock
<1>8. ASSUME NEW e \in Enqueuers, EnqueueTimeout(e) PROVE FlagsAgree'
    BY <1>8 DEF EnqueueTimeout
<1>9. ASSUME NEW e \in Enqueuers, EnqueueNotify(e) PROVE FlagsAgree'
    BY <1>9 DEF EnqueueNotify
<1>10. ASSUME NEW w \in Workers, WorkerWait(w) PROVE FlagsAgree'
    BY <1>10 DEF WorkerWait
<1>11. ASSUME NEW w \in Workers, WorkerExit(w) PROVE FlagsAgree'
    BY <1>11 DEF WorkerExit
<1>12. ASSUME NEW w \in Workers, WorkerTake(w) PROVE FlagsAgree'
    BY <1>12 DEF WorkerTake
<1>13. ASSUME NEW w \in Workers, WorkerFinish(w) PROVE FlagsAgree'
    BY <1>13 DEF WorkerFinish
<1>14. ASSUME NEW w \in Workers, WorkerRelease(w) PROVE FlagsAgree'
    BY <1>14 DEF WorkerRelease
<1>15. ASSUME SchedulerWait PROVE FlagsAgree'
    BY <1>15 DEF SchedulerWait
<1>16. ASSUME SchedulerWakes PROVE FlagsAgree'
    BY <1>16 DEF SchedulerWakes
<1>17. ASSUME SchedulerExit PROVE FlagsAgree'
    BY <1>17 DEF SchedulerExit
<1>18. ASSUME NEW entry \in scheduled, SchedulerDispatch(entry) PROVE FlagsAgree'
    BY <1>18 DEF SchedulerDispatch
<1>19. ASSUME NEW entry \in scheduled, ComesDue(entry) PROVE FlagsAgree'
    BY <1>19 DEF ComesDue
<1>20. ASSUME NEW i \in Waiters, NEW place \in {"i_wait", "i_until"}, IdleCall(i, place)
     PROVE  FlagsAgree'
    BY <1>20 DEF IdleCall
<1>21. ASSUME NEW i \in Waiters, IdleResume(i) PROVE FlagsAgree'
    BY <1>21 DEF IdleResume
<1>22. ASSUME NEW i \in Waiters, IdleTimeout(i) PROVE FlagsAgree'
    BY <1>22 DEF IdleTimeout
<1>23. ASSUME NEW b \in {"Block", "Reject"}, SetBackpressurePolicy(b) PROVE FlagsAgree'
    BY <1>23 DEF SetBackpressurePolicy
<1>24. ASSUME StartFlags PROVE FlagsAgree'
    BY <1>24 DEF StartFlags
<1>25. ASSUME Spawn PROVE FlagsAgree'
    BY <1>25 DEF Spawn
<1>26. ASSUME NEW created \in SUBSET Workers, SpawnFails(created) PROVE FlagsAgree'
    BY <1>26 DEF SpawnFails
<1>27. ASSUME Unwind PROVE FlagsAgree'
    BY <1>27 DEF Unwind
<1>28. ASSUME UnwindEnd PROVE FlagsAgree'
    BY <1>28 DEF UnwindEnd
<1>29. ASSUME NEW mode \in {"Drain", "CancelPending"}, Stop(mode) PROVE FlagsAgree'
    BY <1>29 DEF Stop
<1>30. ASSUME JoinBegin PROVE FlagsAgree'
    BY <1>30 DEF JoinBegin
<1>31. ASSUME JoinEnd PROVE FlagsAgree'
    BY <1>31 DEF JoinEnd
<1>32. CASE UNCHANGED vars
    BY <1>32
<1> HIDE DEF LifecycleInv, TypeOK, FlagsAgree, EnqueueFails, NoThreads, vars, flags,
        Threads, PlacesOfKind, InEnqueue, MayGoOn, Enqueuers
<1> QED
    BY <1>1, <1>2, <1>3, <1>4, <1>5, <1>6, <1>7, <1>8, <1>9, <1>10, <1>11, <1>12,
       <1>13, <1>14, <1>15, <1>16, <1>17, <1>18, <1>19, <1>20, <1>21, <1>22, <1>23,
       <1>24, <1>25, <1>26, <1>27, <1>28, <1>29, <1>30, <1>31, <1>32
       DEF Next, Posting, Enqueue, Worker, Scheduler, IdleWaiter, Lifecycle

\* Threads exist only between a Start and the Join after it.
LEMMA ThreadsStep ==
    ASSUME LifecycleInv, [Next]_vars
    PROVE  ThreadsOfStart'
<1> USE ThreadAssumption DEF LifecycleInv, TypeOK, FlagsAgree, ThreadsOfStart,
        NoThreadYet, MayStart, EnqueueFails, NoThreads, vars, flags, Threads,
        PlacesOfKind, InEnqueue, MayGoOn, Enqueuers
<1>1. ASSUME NEW p \in Producers, NEW task \in PostTasks, NEW pr \in UsedPriorities,
                NEW kind \in {"post", "try", "until"},
             PostBegin(p, task, pr, kind)
     PROVE  ThreadsOfStart'
    BY <1>1 DEF PostBegin
<1>2. ASSUME NEW p \in Producers, NEW task \in DelayedTasks \cup PeriodicTasks, NEW due \in BOOLEAN,
             Schedule(p, task, due)
     PROVE  ThreadsOfStart'
    BY <1>2 DEF Schedule
<1>3. ASSUME NEW p \in Producers, NEW entry \in scheduled, CancelScheduled(p, entry)
     PROVE  ThreadsOfStart'
    BY <1>3 DEF CancelScheduled
<1>4. ASSUME NEW e \in Enqueuers, EnqueuePush(e) PROVE ThreadsOfStart'
    BY <1>4 DEF EnqueuePush
<1>5. ASSUME NEW e \in Enqueuers, EnqueueReject(e) PROVE ThreadsOfStart'
    BY <1>5 DEF EnqueueReject
<1>6. ASSUME NEW e \in Enqueuers, EnqueueFull(e) PROVE ThreadsOfStart'
    BY <1>6 DEF EnqueueFull
<1>7. ASSUME NEW e \in Enqueuers, EnqueueBlock(e) PROVE ThreadsOfStart'
    BY <1>7 DEF EnqueueBlock
<1>8. ASSUME NEW e \in Enqueuers, EnqueueTimeout(e) PROVE ThreadsOfStart'
    BY <1>8 DEF EnqueueTimeout
<1>9. ASSUME NEW e \in Enqueuers, EnqueueNotify(e) PROVE ThreadsOfStart'
    BY <1>9 DEF EnqueueNotify
<1>10. ASSUME NEW w \in Workers, WorkerWait(w) PROVE ThreadsOfStart'
    BY <1>10 DEF WorkerWait
<1>11. ASSUME NEW w \in Workers, WorkerExit(w) PROVE ThreadsOfStart'
    BY <1>11 DEF WorkerExit
<1>12. ASSUME NEW w \in Workers, WorkerTake(w) PROVE ThreadsOfStart'
    BY <1>12 DEF WorkerTake
<1>13. ASSUME NEW w \in Workers, WorkerFinish(w) PROVE ThreadsOfStart'
    BY <1>13 DEF WorkerFinish
<1>14. ASSUME NEW w \in Workers, WorkerRelease(w) PROVE ThreadsOfStart'
    BY <1>14 DEF WorkerRelease
<1>15. ASSUME SchedulerWait PROVE ThreadsOfStart'
    BY <1>15 DEF SchedulerWait
<1>16. ASSUME SchedulerWakes PROVE ThreadsOfStart'
    BY <1>16 DEF SchedulerWakes
<1>17. ASSUME SchedulerExit PROVE ThreadsOfStart'
    BY <1>17 DEF SchedulerExit
<1>18. ASSUME NEW entry \in scheduled, SchedulerDispatch(entry) PROVE ThreadsOfStart'
    BY <1>18 DEF SchedulerDispatch
<1>19. ASSUME NEW entry \in scheduled, ComesDue(entry) PROVE ThreadsOfStart'
    BY <1>19 DEF ComesDue
<1>20. ASSUME NEW i \in Waiters, NEW place \in {"i_wait", "i_until"}, IdleCall(i, place)
     PROVE  ThreadsOfStart'
    BY <1>20 DEF IdleCall
<1>21. ASSUME NEW i \in Waiters, IdleResume(i) PROVE ThreadsOfStart'
    BY <1>21 DEF IdleResume
<1>22. ASSUME NEW i \in Waiters, IdleTimeout(i) PROVE ThreadsOfStart'
    BY <1>22 DEF IdleTimeout
<1>23. ASSUME NEW b \in {"Block", "Reject"}, SetBackpressurePolicy(b)
     PROVE  ThreadsOfStart'
    BY <1>23 DEF SetBackpressurePolicy
<1>24. ASSUME StartFlags PROVE ThreadsOfStart'
    BY <1>24 DEF StartFlags
<1>25. ASSUME Spawn PROVE ThreadsOfStart'
    BY <1>25 DEF Spawn
<1>26. ASSUME NEW created \in SUBSET Workers, SpawnFails(created) PROVE ThreadsOfStart'
    BY <1>26 DEF SpawnFails
<1>27. ASSUME Unwind PROVE ThreadsOfStart'
    BY <1>27 DEF Unwind
<1>28. ASSUME UnwindEnd PROVE ThreadsOfStart'
    BY <1>28 DEF UnwindEnd
<1>29. ASSUME NEW mode \in {"Drain", "CancelPending"}, Stop(mode) PROVE ThreadsOfStart'
    BY <1>29 DEF Stop
<1>30. ASSUME JoinBegin PROVE ThreadsOfStart'
    BY <1>30 DEF JoinBegin
<1>31. ASSUME JoinEnd PROVE ThreadsOfStart'
    BY <1>31 DEF JoinEnd
<1>32. CASE UNCHANGED vars
    BY <1>32
<1> HIDE DEF LifecycleInv, TypeOK, FlagsAgree, ThreadsOfStart, NoThreadYet,
        MayStart, EnqueueFails, NoThreads, vars, flags, Threads, PlacesOfKind,
        InEnqueue, MayGoOn, Enqueuers
<1> QED
    BY <1>1, <1>2, <1>3, <1>4, <1>5, <1>6, <1>7, <1>8, <1>9, <1>10, <1>11, <1>12,
       <1>13, <1>14, <1>15, <1>16, <1>17, <1>18, <1>19, <1>20, <1>21, <1>22, <1>23,
       <1>24, <1>25, <1>26, <1>27, <1>28, <1>29, <1>30, <1>31, <1>32
       DEF Next, Posting, Enqueue, Worker, Scheduler, IdleWaiter, Lifecycle

\* Nothing is pushed behind the back of the last worker.
LEMMA SlotStep ==
    ASSUME LifecycleInv, [Next]_vars
    PROVE  SlotOfStart'
<1> USE ThreadAssumption DEF LifecycleInv, TypeOK, QueueTypeOK, FlagsAgree,
        ThreadsOfStart, NoThreadYet, SlotOfStart, MayStart, MayLeave, ThreadsEnded,
        Closed, EnqueueFails, NoThreads, Push, Dispatch, Oldest, OfPriority, vars,
        queueVars, flags, Threads, PlacesOfKind, InEnqueue, MayGoOn, Enqueuers
<1>1. ASSUME NEW p \in Producers, NEW task \in PostTasks, NEW pr \in UsedPriorities,
                NEW kind \in {"post", "try", "until"},
             PostBegin(p, task, pr, kind)
     PROVE  SlotOfStart'
    BY <1>1 DEF PostBegin
<1>2. ASSUME NEW p \in Producers, NEW task \in DelayedTasks \cup PeriodicTasks, NEW due \in BOOLEAN,
             Schedule(p, task, due)
     PROVE  SlotOfStart'
    BY <1>2 DEF Schedule
<1>3. ASSUME NEW p \in Producers, NEW entry \in scheduled, CancelScheduled(p, entry)
     PROVE  SlotOfStart'
    BY <1>3 DEF CancelScheduled
<1>4. ASSUME NEW e \in Enqueuers, EnqueuePush(e) PROVE SlotOfStart'
    BY <1>4 DEF EnqueuePush
<1>5. ASSUME NEW e \in Enqueuers, EnqueueReject(e) PROVE SlotOfStart'
    BY <1>5 DEF EnqueueReject
<1>6. ASSUME NEW e \in Enqueuers, EnqueueFull(e) PROVE SlotOfStart'
    BY <1>6 DEF EnqueueFull
<1>7. ASSUME NEW e \in Enqueuers, EnqueueBlock(e) PROVE SlotOfStart'
    BY <1>7 DEF EnqueueBlock
<1>8. ASSUME NEW e \in Enqueuers, EnqueueTimeout(e) PROVE SlotOfStart'
    BY <1>8 DEF EnqueueTimeout
<1>9. ASSUME NEW e \in Enqueuers, EnqueueNotify(e) PROVE SlotOfStart'
    BY <1>9 DEF EnqueueNotify
<1>10. ASSUME NEW w \in Workers, WorkerWait(w) PROVE SlotOfStart'
    BY <1>10 DEF WorkerWait
<1>11. ASSUME NEW w \in Workers, WorkerExit(w) PROVE SlotOfStart'
    BY <1>11 DEF WorkerExit
<1>12. ASSUME NEW w \in Workers, WorkerTake(w) PROVE SlotOfStart'
    BY <1>12 DEF WorkerTake
<1>13. ASSUME NEW w \in Workers, WorkerFinish(w) PROVE SlotOfStart'
    BY <1>13 DEF WorkerFinish
<1>14. ASSUME NEW w \in Workers, WorkerRelease(w) PROVE SlotOfStart'
    BY <1>14 DEF WorkerRelease
<1>15. ASSUME SchedulerWait PROVE SlotOfStart'
    BY <1>15 DEF SchedulerWait
<1>16. ASSUME SchedulerWakes PROVE SlotOfStart'
    BY <1>16 DEF SchedulerWakes
<1>17. ASSUME SchedulerExit PROVE SlotOfStart'
    BY <1>17 DEF SchedulerExit
<1>18. ASSUME NEW entry \in scheduled, SchedulerDispatch(entry) PROVE SlotOfStart'
    BY <1>18 DEF SchedulerDispatch
<1>19. ASSUME NEW entry \in scheduled, ComesDue(entry) PROVE SlotOfStart'
    BY <1>19 DEF ComesDue
<1>20. ASSUME NEW i \in Waiters, NEW place \in {"i_wait", "i_until"}, IdleCall(i, place)
     PROVE  SlotOfStart'
    BY <1>20 DEF IdleCall
<1>21. ASSUME NEW i \in Waiters, IdleResume(i) PROVE SlotOfStart'
    BY <1>21 DEF IdleResume
<1>22. ASSUME NEW i \in Waiters, IdleTimeout(i) PROVE SlotOfStart'
    BY <1>22 DEF IdleTimeout
<1>23. ASSUME NEW b \in {"Block", "Reject"}, SetBackpressurePolicy(b) PROVE SlotOfStart'
    BY <1>23 DEF SetBackpressurePolicy
<1>24. ASSUME StartFlags PROVE SlotOfStart'
    BY <1>24 DEF StartFlags
<1>25. ASSUME Spawn PROVE SlotOfStart'
    BY <1>25 DEF Spawn
<1>26. ASSUME NEW created \in SUBSET Workers, SpawnFails(created) PROVE SlotOfStart'
    BY <1>26 DEF SpawnFails
<1>27. ASSUME Unwind PROVE SlotOfStart'
    BY <1>27 DEF Unwind
<1>28. ASSUME UnwindEnd PROVE SlotOfStart'
    BY <1>28 DEF UnwindEnd
<1>29. ASSUME NEW mode \in {"Drain", "CancelPending"}, Stop(mode) PROVE SlotOfStart'
    BY <1>29 DEF Stop
<1>30. ASSUME JoinBegin PROVE SlotOfStart'
    BY <1>30 DEF JoinBegin
<1>31. ASSUME JoinEnd PROVE SlotOfStart'
    BY <1>31 DEF JoinEnd
<1>32. CASE UNCHANGED vars
    BY <1>32
<1> HIDE DEF LifecycleInv, TypeOK, QueueTypeOK, FlagsAgree, ThreadsOfStart,
        NoThreadYet, SlotOfStart, MayStart, MayLeave, ThreadsEnded, Closed,
        EnqueueFails, NoThreads, Push, Dispatch, Oldest, OfPriority, vars,
        queueVars, flags, Threads, PlacesOfKind, InEnqueue, MayGoOn, Enqueuers
<1> QED
    BY <1>1, <1>2, <1>3, <1>4, <1>5, <1>6, <1>7, <1>8, <1>9, <1>10, <1>11, <1>12,
       <1>13, <1>14, <1>15, <1>16, <1>17, <1>18, <1>19, <1>20, <1>21, <1>22, <1>23,
       <1>24, <1>25, <1>26, <1>27, <1>28, <1>29, <1>30, <1>31, <1>32
       DEF Next, Posting, Enqueue, Worker, Scheduler, IdleWaiter, Lifecycle

\* A fresh pool: no threads, an empty queue, nothing scheduled.
LEMMA LifecycleInit == Init => LifecycleInv
<1> SUFFICES ASSUME Init PROVE LifecycleInv
    OBVIOUS
<1> USE ThreadAssumption DEF Init, Threads, Enqueuers
<1>1. TypeOK
  <2>1. QueueTypeOK
        BY FS_EmptySet DEF QueueInit, QueueTypeOK, SlotCount
  <2>2. pc \in [Threads -> Places]
        BY DEF Places
  <2>3. starts \in 0..MaxStarts
        BY BoundAssumption
  <2> QED
        BY <2>1, <2>2, <2>3, FS_EmptySet DEF TypeOK, Counters
<1>2. PlacesOfKind
    BY DEF PlacesOfKind
<1>3. TasksInHand
    BY <1>2 DEF TasksInHand, PlacesOfKind, InEnqueue
<1>4. SleepersWait /\ FlagsAgree
    BY DEF SleepersWait, FlagsAgree
<1>5. ThreadsOfStart /\ SlotOfStart
    BY DEF ThreadsOfStart, NoThreadYet, SlotOfStart, QueueInit
<1> QED
    BY <1>1, <1>2, <1>3, <1>4, <1>5 DEF LifecycleInv

\* Every step preserves every part.
LEMMA LifecycleStep == LifecycleInv /\ [Next]_vars => LifecycleInv'
    BY TypeStep, PlacesStep, HandsStep, SleepersStep, FlagsStep, ThreadsStep, SlotStep
       DEF LifecycleInv

\* What Start, Stop and Join rely on when they touch the flags and the thread
\* objects in separate critical sections: a stopped pool has no threads, an open
\* one is running and not asked to stop, and whoever sleeps is at a wait.
THEOREM PoolLifecycle == Spec => []LifecycleInv
    BY LifecycleInit, LifecycleStep, PTL DEF Spec

\* Every variable of the pool keeps its type.
THEOREM PoolTypeCorrect == Spec => []TypeOK
<1>1. LifecycleInv => TypeOK
    BY DEF LifecycleInv
<1> QED
    BY <1>1, PoolLifecycle, PTL

------------------------------------------------------------------------------
(* The bound of the queue. *)

\* A push finds room; every other step leaves the queue or takes from it.
LEMMA BoundStep ==
    ASSUME LifecycleInv, QueueBounded, [Next]_vars
    PROVE  QueueBounded'
<1> USE CapacityAssumption DEF LifecycleInv, TypeOK, QueueTypeOK, QueueBounded,
        EnqueueFails, queueVars, vars
<1>1. ASSUME NEW p \in Producers, NEW task \in PostTasks, NEW pr \in UsedPriorities,
                NEW kind \in {"post", "try", "until"},
             PostBegin(p, task, pr, kind)
     PROVE  QueueBounded'
    BY <1>1 DEF PostBegin
<1>2. ASSUME NEW p \in Producers, NEW task \in DelayedTasks \cup PeriodicTasks, NEW due \in BOOLEAN,
             Schedule(p, task, due)
     PROVE  QueueBounded'
    BY <1>2 DEF Schedule
<1>3. ASSUME NEW p \in Producers, NEW entry \in scheduled, CancelScheduled(p, entry)
     PROVE  QueueBounded'
    BY <1>3 DEF CancelScheduled
<1>4. ASSUME NEW e \in Enqueuers, EnqueuePush(e) PROVE QueueBounded'
    <2>1. PICK x : queue' = queue \cup {x} /\ Cardinality(queue) < Capacity
          BY <1>4 DEF EnqueuePush, Push, HasRoom
    <2>2. Cardinality(queue) \in Nat
          BY FS_CardinalityType
    <2>3. Cardinality(queue \cup {x}) = IF x \in queue THEN Cardinality(queue)
                                        ELSE Cardinality(queue) + 1
          BY FS_AddElement
    <2>4. Cardinality(queue \cup {x}) <= Capacity
          BY <2>1, <2>2, <2>3
    <2> QED
          BY <2>1, <2>4
<1>5. ASSUME NEW e \in Enqueuers, EnqueueReject(e) PROVE QueueBounded'
    BY <1>5 DEF EnqueueReject
<1>6. ASSUME NEW e \in Enqueuers, EnqueueFull(e) PROVE QueueBounded'
    BY <1>6 DEF EnqueueFull
<1>7. ASSUME NEW e \in Enqueuers, EnqueueBlock(e) PROVE QueueBounded'
    BY <1>7 DEF EnqueueBlock
<1>8. ASSUME NEW e \in Enqueuers, EnqueueTimeout(e) PROVE QueueBounded'
    BY <1>8 DEF EnqueueTimeout
<1>9. ASSUME NEW e \in Enqueuers, EnqueueNotify(e) PROVE QueueBounded'
    BY <1>9 DEF EnqueueNotify
<1>10. ASSUME NEW w \in Workers, WorkerWait(w) PROVE QueueBounded'
    BY <1>10 DEF WorkerWait
<1>11. ASSUME NEW w \in Workers, WorkerExit(w) PROVE QueueBounded'
    BY <1>11 DEF WorkerExit
<1>12. ASSUME NEW w \in Workers, WorkerTake(w) PROVE QueueBounded'
    <2>1. queue' \in SUBSET queue
          BY <1>12 DEF WorkerTake, Dispatch
    <2>2. Cardinality(queue') <= Cardinality(queue) /\ Cardinality(queue') \in Nat
          BY <2>1, FS_Subset, FS_CardinalityType
    <2> QED
          BY <2>2, FS_CardinalityType
<1>13. ASSUME NEW w \in Workers, WorkerFinish(w) PROVE QueueBounded'
    BY <1>13 DEF WorkerFinish
<1>14. ASSUME NEW w \in Workers, WorkerRelease(w) PROVE QueueBounded'
    BY <1>14 DEF WorkerRelease
<1>15. ASSUME SchedulerWait PROVE QueueBounded'
    BY <1>15 DEF SchedulerWait
<1>16. ASSUME SchedulerWakes PROVE QueueBounded'
    BY <1>16 DEF SchedulerWakes
<1>17. ASSUME SchedulerExit PROVE QueueBounded'
    BY <1>17 DEF SchedulerExit
<1>18. ASSUME NEW entry \in scheduled, SchedulerDispatch(entry) PROVE QueueBounded'
    BY <1>18 DEF SchedulerDispatch
<1>19. ASSUME NEW entry \in scheduled, ComesDue(entry) PROVE QueueBounded'
    BY <1>19 DEF ComesDue
<1>20. ASSUME NEW i \in Waiters, NEW place \in {"i_wait", "i_until"}, IdleCall(i, place)
     PROVE  QueueBounded'
    BY <1>20 DEF IdleCall
<1>21. ASSUME NEW i \in Waiters, IdleResume(i) PROVE QueueBounded'
    BY <1>21 DEF IdleResume
<1>22. ASSUME NEW i \in Waiters, IdleTimeout(i) PROVE QueueBounded'
    BY <1>22 DEF IdleTimeout
<1>23. ASSUME NEW b \in {"Block", "Reject"}, SetBackpressurePolicy(b)
     PROVE  QueueBounded'
    BY <1>23 DEF SetBackpressurePolicy
<1>24. ASSUME StartFlags PROVE QueueBounded'
    BY <1>24 DEF StartFlags
<1>25. ASSUME Spawn PROVE QueueBounded'
    BY <1>25 DEF Spawn
<1>26. ASSUME NEW created \in SUBSET Workers, SpawnFails(created) PROVE QueueBounded'
    BY <1>26 DEF SpawnFails
<1>27. ASSUME Unwind PROVE QueueBounded'
    BY <1>27 DEF Unwind
<1>28. ASSUME UnwindEnd PROVE QueueBounded'
    BY <1>28 DEF UnwindEnd
<1>29. ASSUME NEW mode \in {"Drain", "CancelPending"}, Stop(mode) PROVE QueueBounded'
    <2>1. queue' \in SUBSET queue
          BY <1>29 DEF Stop
    <2>2. Cardinality(queue') <= Cardinality(queue) /\ Cardinality(queue') \in Nat
          BY <2>1, FS_Subset, FS_CardinalityType
    <2> QED
          BY <2>2, FS_CardinalityType
<1>30. ASSUME JoinBegin PROVE QueueBounded'
    BY <1>30 DEF JoinBegin
<1>31. ASSUME JoinEnd PROVE QueueBounded'
    BY <1>31 DEF JoinEnd
<1>32. CASE UNCHANGED vars
    BY <1>32
<1> HIDE DEF LifecycleInv, TypeOK, QueueTypeOK, QueueBounded, EnqueueFails,
        queueVars, vars
<1> QED
    BY <1>1, <1>2, <1>3, <1>4, <1>5, <1>6, <1>7, <1>8, <1>9, <1>10, <1>11, <1>12,
       <1>13, <1>14, <1>15, <1>16, <1>17, <1>18, <1>19, <1>20, <1>21, <1>22, <1>23,
       <1>24, <1>25, <1>26, <1>27, <1>28, <1>29, <1>30, <1>31, <1>32
       DEF Next, Posting, Enqueue, Worker, Scheduler, IdleWaiter, Lifecycle

\* However many producers wake up together, and whatever deadline passes while a
\* slot is freed, the queue never holds more than its capacity.
THEOREM QueueNeverOverfull == Spec => []QueueBounded
<1>1. Init => QueueBounded
    BY CapacityAssumption, FS_EmptySet DEF Init, QueueInit, QueueBounded
<1>2. LifecycleInv /\ QueueBounded /\ [Next]_vars => QueueBounded'
    BY BoundStep
<1> QED
    BY <1>1, <1>2, PoolLifecycle, PTL DEF Spec

------------------------------------------------------------------------------
(* Stop requests. *)

\* After a stop request nobody falls asleep where Join or a caller would wait.
LEMMA StopWakesStep ==
    ASSUME LifecycleInv, StopWakesEveryone, [Next]_vars
    PROVE  StopWakesEveryone'
<1> USE ThreadAssumption DEF LifecycleInv, TypeOK, PlacesOfKind, SleepersWait,
        FlagsAgree, ThreadsOfStart, NoThreadYet, StopWakesEveryone, SleepingAt, At,
        Awake, MayGoOn, InEnqueue, Closed, MayStart, EnqueueFails, NoThreads,
        ThreadsEnded, NotifyOne, NotifyIdle, WokenByStop, vars, queueVars, flags,
        history, Threads, Enqueuers
<1>1. ASSUME NEW p \in Producers, NEW task \in PostTasks, NEW pr \in UsedPriorities,
                NEW kind \in {"post", "try", "until"},
             PostBegin(p, task, pr, kind)
     PROVE  StopWakesEveryone'
    BY <1>1 DEF PostBegin
<1>2. ASSUME NEW p \in Producers, NEW task \in DelayedTasks \cup PeriodicTasks, NEW due \in BOOLEAN,
             Schedule(p, task, due)
     PROVE  StopWakesEveryone'
    BY <1>2 DEF Schedule
<1>3. ASSUME NEW p \in Producers, NEW entry \in scheduled, CancelScheduled(p, entry)
     PROVE  StopWakesEveryone'
    BY <1>3 DEF CancelScheduled
<1>4. ASSUME NEW e \in Enqueuers, EnqueuePush(e) PROVE StopWakesEveryone'
    BY <1>4 DEF EnqueuePush
<1>5. ASSUME NEW e \in Enqueuers, EnqueueReject(e) PROVE StopWakesEveryone'
    BY <1>5 DEF EnqueueReject
<1>6. ASSUME NEW e \in Enqueuers, EnqueueFull(e) PROVE StopWakesEveryone'
    BY <1>6 DEF EnqueueFull
<1>7. ASSUME NEW e \in Enqueuers, EnqueueBlock(e) PROVE StopWakesEveryone'
    BY <1>7 DEF EnqueueBlock
<1>8. ASSUME NEW e \in Enqueuers, EnqueueTimeout(e) PROVE StopWakesEveryone'
    BY <1>8 DEF EnqueueTimeout
<1>9. ASSUME NEW e \in Enqueuers, EnqueueNotify(e) PROVE StopWakesEveryone'
    BY <1>9 DEF EnqueueNotify
<1>10. ASSUME NEW w \in Workers, WorkerWait(w) PROVE StopWakesEveryone'
    BY <1>10 DEF WorkerWait
<1>11. ASSUME NEW w \in Workers, WorkerExit(w) PROVE StopWakesEveryone'
    BY <1>11 DEF WorkerExit
<1>12. ASSUME NEW w \in Workers, WorkerTake(w) PROVE StopWakesEveryone'
    BY <1>12 DEF WorkerTake
<1>13. ASSUME NEW w \in Workers, WorkerFinish(w) PROVE StopWakesEveryone'
    BY <1>13 DEF WorkerFinish
<1>14. ASSUME NEW w \in Workers, WorkerRelease(w) PROVE StopWakesEveryone'
    BY <1>14 DEF WorkerRelease
<1>15. ASSUME SchedulerWait PROVE StopWakesEveryone'
    BY <1>15 DEF SchedulerWait
<1>16. ASSUME SchedulerWakes PROVE StopWakesEveryone'
    BY <1>16 DEF SchedulerWakes
<1>17. ASSUME SchedulerExit PROVE StopWakesEveryone'
    BY <1>17 DEF SchedulerExit
<1>18. ASSUME NEW entry \in scheduled, SchedulerDispatch(entry) PROVE StopWakesEveryone'
    BY <1>18 DEF SchedulerDispatch
<1>19. ASSUME NEW entry \in scheduled, ComesDue(entry) PROVE StopWakesEveryone'
    BY <1>19 DEF ComesDue
<1>20. ASSUME NEW i \in Waiters, NEW place \in {"i_wait", "i_until"}, IdleCall(i, place)
     PROVE  StopWakesEveryone'
    BY <1>20 DEF IdleCall
<1>21. ASSUME NEW i \in Waiters, IdleResume(i) PROVE StopWakesEveryone'
    BY <1>21 DEF IdleResume
<1>22. ASSUME NEW i \in Waiters, IdleTimeout(i) PROVE StopWakesEveryone'
    BY <1>22 DEF IdleTimeout
<1>23. ASSUME NEW b \in {"Block", "Reject"}, SetBackpressurePolicy(b)
     PROVE  StopWakesEveryone'
    BY <1>23 DEF SetBackpressurePolicy
<1>24. ASSUME StartFlags PROVE StopWakesEveryone'
    BY <1>24 DEF StartFlags
<1>25. ASSUME Spawn PROVE StopWakesEveryone'
    BY <1>25 DEF Spawn
<1>26. ASSUME NEW created \in SUBSET Workers, SpawnFails(created)
     PROVE  StopWakesEveryone'
    BY <1>26 DEF SpawnFails
<1>27. ASSUME Unwind PROVE StopWakesEveryone'
    BY <1>27 DEF Unwind
<1>28. ASSUME UnwindEnd PROVE StopWakesEveryone'
    BY <1>28 DEF UnwindEnd
<1>29. ASSUME NEW mode \in {"Drain", "CancelPending"}, Stop(mode)
     PROVE  StopWakesEveryone'
    BY <1>29 DEF Stop
<1>30. ASSUME JoinBegin PROVE StopWakesEveryone'
    BY <1>30 DEF JoinBegin
<1>31. ASSUME JoinEnd PROVE StopWakesEveryone'
    BY <1>31 DEF JoinEnd
<1>32. CASE UNCHANGED vars
    BY <1>32
<1> HIDE DEF LifecycleInv, TypeOK, PlacesOfKind, SleepersWait, FlagsAgree,
        ThreadsOfStart, NoThreadYet, StopWakesEveryone, SleepingAt, At, Awake,
        MayGoOn, InEnqueue, Closed, MayStart, EnqueueFails, NoThreads, ThreadsEnded,
        NotifyOne, NotifyIdle, WokenByStop, vars, queueVars, flags, history,
        Threads, Enqueuers
<1> QED
    BY <1>1, <1>2, <1>3, <1>4, <1>5, <1>6, <1>7, <1>8, <1>9, <1>10, <1>11, <1>12,
       <1>13, <1>14, <1>15, <1>16, <1>17, <1>18, <1>19, <1>20, <1>21, <1>22, <1>23,
       <1>24, <1>25, <1>26, <1>27, <1>28, <1>29, <1>30, <1>31, <1>32
       DEF Next, Posting, Enqueue, Worker, Scheduler, IdleWaiter, Lifecycle

\* A stop request reaches every sleeper, whichever of Stop, Join and the catch of
\* Start makes it and wherever the threads are at that moment.
THEOREM StopReachesSleepers == Spec => []StopWakesEveryone
<1>1. Init => StopWakesEveryone
    BY DEF Init, StopWakesEveryone
<1>2. LifecycleInv /\ StopWakesEveryone /\ [Next]_vars => StopWakesEveryone'
    BY StopWakesStep
<1> QED
    BY <1>1, <1>2, PoolLifecycle, PTL DEF Spec

------------------------------------------------------------------------------
(* The count of active workers. *)

Busy == At({"w_run", "w_ran"})

\* Adding a thread to those that hold a task, or taking one away, moves their
\* number by one.
LEMMA BusyCounts ==
    ASSUME LifecycleInv, NEW t \in Threads
    PROVE  /\ Cardinality(Busy) \in Nat
           /\ t \notin Busy => Cardinality(Busy \cup {t}) = Cardinality(Busy) + 1
           /\ t \in Busy => /\ Cardinality(Busy) > 0
                           /\ Cardinality(Busy \ {t}) = Cardinality(Busy) - 1
<1>1. Busy \in SUBSET Threads /\ IsFiniteSet(Busy)
    BY ThreadAssumption, FS_Subset DEF Busy, At
<1>2. Cardinality(Busy) \in Nat
    BY <1>1, FS_CardinalityType
<1>3. t \notin Busy => Cardinality(Busy \cup {t}) = Cardinality(Busy) + 1
    BY <1>1, FS_AddElement
<1>4. t \in Busy => Cardinality(Busy \ {t}) = Cardinality(Busy) - 1
    BY <1>1, FS_RemoveElement
<1>5. t \in Busy => Cardinality(Busy) > 0
    BY <1>1, <1>2, FS_EmptySet
<1> QED
    BY <1>2, <1>3, <1>4, <1>5

\* Only taking and releasing a task moves active_workers_, and a restart finds it 0.
LEMMA ActiveStep ==
    ASSUME LifecycleInv, active = Cardinality(Busy), [Next]_vars
    PROVE  active' = Cardinality(Busy')
<1> USE ThreadAssumption DEF LifecycleInv, TypeOK, PlacesOfKind, ThreadsOfStart,
        Busy, At, InEnqueue, MayGoOn, EnqueueFails, NoThreads, NoThreadYet,
        ThreadsEnded, vars, queueVars, flags, history, Threads, Enqueuers
<1>1. ASSUME NEW p \in Producers, NEW task \in PostTasks, NEW pr \in UsedPriorities,
                NEW kind \in {"post", "try", "until"},
             PostBegin(p, task, pr, kind)
     PROVE  active' = Cardinality(Busy')
    BY <1>1 DEF PostBegin
<1>2. ASSUME NEW p \in Producers, NEW task \in DelayedTasks \cup PeriodicTasks, NEW due \in BOOLEAN,
             Schedule(p, task, due)
     PROVE  active' = Cardinality(Busy')
    BY <1>2 DEF Schedule
<1>3. ASSUME NEW p \in Producers, NEW entry \in scheduled, CancelScheduled(p, entry)
     PROVE  active' = Cardinality(Busy')
    BY <1>3 DEF CancelScheduled
<1>4. ASSUME NEW e \in Enqueuers, EnqueuePush(e) PROVE active' = Cardinality(Busy')
    BY <1>4 DEF EnqueuePush
<1>5. ASSUME NEW e \in Enqueuers, EnqueueReject(e) PROVE active' = Cardinality(Busy')
    BY <1>5 DEF EnqueueReject
<1>6. ASSUME NEW e \in Enqueuers, EnqueueFull(e) PROVE active' = Cardinality(Busy')
    BY <1>6 DEF EnqueueFull
<1>7. ASSUME NEW e \in Enqueuers, EnqueueBlock(e) PROVE active' = Cardinality(Busy')
    BY <1>7 DEF EnqueueBlock
<1>8. ASSUME NEW e \in Enqueuers, EnqueueTimeout(e) PROVE active' = Cardinality(Busy')
    BY <1>8 DEF EnqueueTimeout
<1>9. ASSUME NEW e \in Enqueuers, EnqueueNotify(e) PROVE active' = Cardinality(Busy')
    BY <1>9 DEF EnqueueNotify
<1>10. ASSUME NEW w \in Workers, WorkerWait(w) PROVE active' = Cardinality(Busy')
    BY <1>10 DEF WorkerWait
<1>11. ASSUME NEW w \in Workers, WorkerExit(w) PROVE active' = Cardinality(Busy')
    BY <1>11 DEF WorkerExit
<1>12. ASSUME NEW w \in Workers, WorkerTake(w) PROVE active' = Cardinality(Busy')
    <2>1. w \notin Busy /\ Busy' = Busy \cup {w} /\ active' = active + 1
          BY <1>12 DEF WorkerTake
    <2> QED
          BY <2>1, BusyCounts
<1>13. ASSUME NEW w \in Workers, WorkerFinish(w) PROVE active' = Cardinality(Busy')
    BY <1>13 DEF WorkerFinish
<1>14. ASSUME NEW w \in Workers, WorkerRelease(w) PROVE active' = Cardinality(Busy')
    <2>1. w \in Busy /\ Busy' = Busy \ {w}
          BY <1>14 DEF WorkerRelease
    <2>2. active' = IF active > 0 THEN active - 1 ELSE active
          BY <1>14 DEF WorkerRelease
    <2> QED
          BY <2>1, <2>2, BusyCounts
<1>15. ASSUME SchedulerWait PROVE active' = Cardinality(Busy')
    BY <1>15 DEF SchedulerWait
<1>16. ASSUME SchedulerWakes PROVE active' = Cardinality(Busy')
    BY <1>16 DEF SchedulerWakes
<1>17. ASSUME SchedulerExit PROVE active' = Cardinality(Busy')
    BY <1>17 DEF SchedulerExit
<1>18. ASSUME NEW entry \in scheduled, SchedulerDispatch(entry)
     PROVE  active' = Cardinality(Busy')
    BY <1>18 DEF SchedulerDispatch
<1>19. ASSUME NEW entry \in scheduled, ComesDue(entry)
     PROVE  active' = Cardinality(Busy')
    BY <1>19 DEF ComesDue
<1>20. ASSUME NEW i \in Waiters, NEW place \in {"i_wait", "i_until"}, IdleCall(i, place)
     PROVE  active' = Cardinality(Busy')
    BY <1>20 DEF IdleCall
<1>21. ASSUME NEW i \in Waiters, IdleResume(i) PROVE active' = Cardinality(Busy')
    BY <1>21 DEF IdleResume
<1>22. ASSUME NEW i \in Waiters, IdleTimeout(i) PROVE active' = Cardinality(Busy')
    BY <1>22 DEF IdleTimeout
<1>23. ASSUME NEW b \in {"Block", "Reject"}, SetBackpressurePolicy(b)
     PROVE  active' = Cardinality(Busy')
    BY <1>23 DEF SetBackpressurePolicy
<1>24. ASSUME StartFlags PROVE active' = Cardinality(Busy')
    <2>1. NoThreadYet /\ active' = 0
          BY <1>24 DEF StartFlags, MayStart, ThreadsOfStart
    <2>2. Busy' = {}
          BY <1>24, <2>1 DEF StartFlags, NoThreadYet
    <2> QED
          BY <2>1, <2>2, FS_EmptySet
<1>25. ASSUME Spawn PROVE active' = Cardinality(Busy')
    BY <1>25 DEF Spawn
<1>26. ASSUME NEW created \in SUBSET Workers, SpawnFails(created)
     PROVE  active' = Cardinality(Busy')
    BY <1>26 DEF SpawnFails
<1>27. ASSUME Unwind PROVE active' = Cardinality(Busy')
    BY <1>27 DEF Unwind
<1>28. ASSUME UnwindEnd PROVE active' = Cardinality(Busy')
    BY <1>28 DEF UnwindEnd
<1>29. ASSUME NEW mode \in {"Drain", "CancelPending"}, Stop(mode)
     PROVE  active' = Cardinality(Busy')
    BY <1>29 DEF Stop
<1>30. ASSUME JoinBegin PROVE active' = Cardinality(Busy')
    BY <1>30 DEF JoinBegin
<1>31. ASSUME JoinEnd PROVE active' = Cardinality(Busy')
    BY <1>31 DEF JoinEnd
<1>32. CASE UNCHANGED vars
    BY <1>32
<1> HIDE DEF LifecycleInv, TypeOK, PlacesOfKind, ThreadsOfStart, Busy, At,
        InEnqueue, MayGoOn, EnqueueFails, NoThreads, NoThreadYet, ThreadsEnded,
        vars, queueVars, flags, history, Threads, Enqueuers
<1> QED
    BY <1>1, <1>2, <1>3, <1>4, <1>5, <1>6, <1>7, <1>8, <1>9, <1>10, <1>11, <1>12,
       <1>13, <1>14, <1>15, <1>16, <1>17, <1>18, <1>19, <1>20, <1>21, <1>22, <1>23,
       <1>24, <1>25, <1>26, <1>27, <1>28, <1>29, <1>30, <1>31, <1>32
       DEF Next, Posting, Enqueue, Worker, Scheduler, IdleWaiter, Lifecycle

\* active_workers_ is the number of workers between taking and releasing a task,
\* across restarts: the guard on its decrement never hides a miscount.
THEOREM ActiveWorkersCounted == Spec => []ActiveWorkers
<1>1. Init => ActiveWorkers
  <2> SUFFICES ASSUME Init PROVE active = Cardinality(Busy)
      BY DEF ActiveWorkers, Busy
  <2>1. Busy = {}
        BY ThreadAssumption DEF Init, Busy, At, Threads
  <2> QED
        BY <2>1, FS_EmptySet DEF Init
<1>2. LifecycleInv /\ ActiveWorkers /\ [Next]_vars => ActiveWorkers'
    BY ActiveStep DEF ActiveWorkers, Busy
<1> QED
    BY <1>1, <1>2, PoolLifecycle, PTL DEF Spec

------------------------------------------------------------------------------
(* Refinement of TaskQueue. *)

\* Every step pushes, dispatches, clears or renumbers the queue, or leaves it alone.
LEMMA QueueRefinementStep ==
    ASSUME LifecycleInv, [Next]_vars
    PROVE  QueueNext \/ UNCHANGED queueVars
<1> USE ThreadAssumption DEF EnqueueFails, queueVars, vars
<1>1. ASSUME NEW p \in Producers, NEW task \in PostTasks, NEW pr \in UsedPriorities,
                NEW kind \in {"post", "try", "until"},
             PostBegin(p, task, pr, kind)
     PROVE  QueueNext \/ UNCHANGED queueVars
    BY <1>1 DEF PostBegin
<1>2. ASSUME NEW p \in Producers, NEW task \in DelayedTasks \cup PeriodicTasks, NEW due \in BOOLEAN,
             Schedule(p, task, due)
     PROVE  QueueNext \/ UNCHANGED queueVars
    BY <1>2 DEF Schedule
<1>3. ASSUME NEW p \in Producers, NEW entry \in scheduled, CancelScheduled(p, entry)
     PROVE  QueueNext \/ UNCHANGED queueVars
    BY <1>3 DEF CancelScheduled
<1>4. ASSUME NEW e \in Enqueuers, EnqueuePush(e) PROVE QueueNext \/ UNCHANGED queueVars
    <2>1. request[e].task \in Task /\ request[e].priority \in Priority
          BY <1>4 DEF EnqueuePush, MayGoOn, InEnqueue, LifecycleInv, TasksInHand, Request
    <2> QED
          BY <1>4, <2>1 DEF EnqueuePush, QueueNext
<1>5. ASSUME NEW e \in Enqueuers, EnqueueReject(e)
     PROVE  QueueNext \/ UNCHANGED queueVars
    BY <1>5 DEF EnqueueReject
<1>6. ASSUME NEW e \in Enqueuers, EnqueueFull(e) PROVE QueueNext \/ UNCHANGED queueVars
    BY <1>6 DEF EnqueueFull
<1>7. ASSUME NEW e \in Enqueuers, EnqueueBlock(e) PROVE QueueNext \/ UNCHANGED queueVars
    BY <1>7 DEF EnqueueBlock
<1>8. ASSUME NEW e \in Enqueuers, EnqueueTimeout(e)
     PROVE  QueueNext \/ UNCHANGED queueVars
    BY <1>8 DEF EnqueueTimeout
<1>9. ASSUME NEW e \in Enqueuers, EnqueueNotify(e)
     PROVE  QueueNext \/ UNCHANGED queueVars
    BY <1>9 DEF EnqueueNotify
<1>10. ASSUME NEW w \in Workers, WorkerWait(w) PROVE QueueNext \/ UNCHANGED queueVars
    BY <1>10 DEF WorkerWait
<1>11. ASSUME NEW w \in Workers, WorkerExit(w) PROVE QueueNext \/ UNCHANGED queueVars
    BY <1>11 DEF WorkerExit
<1>12. ASSUME NEW w \in Workers, WorkerTake(w) PROVE QueueNext \/ UNCHANGED queueVars
    BY <1>12 DEF WorkerTake, QueueNext
<1>13. ASSUME NEW w \in Workers, WorkerFinish(w) PROVE QueueNext \/ UNCHANGED queueVars
    BY <1>13 DEF WorkerFinish
<1>14. ASSUME NEW w \in Workers, WorkerRelease(w) PROVE QueueNext \/ UNCHANGED queueVars
    BY <1>14 DEF WorkerRelease
<1>15. ASSUME SchedulerWait PROVE QueueNext \/ UNCHANGED queueVars
    BY <1>15 DEF SchedulerWait
<1>16. ASSUME SchedulerWakes PROVE QueueNext \/ UNCHANGED queueVars
    BY <1>16 DEF SchedulerWakes
<1>17. ASSUME SchedulerExit PROVE QueueNext \/ UNCHANGED queueVars
    BY <1>17 DEF SchedulerExit
<1>18. ASSUME NEW entry \in scheduled, SchedulerDispatch(entry)
     PROVE  QueueNext \/ UNCHANGED queueVars
    BY <1>18 DEF SchedulerDispatch
<1>19. ASSUME NEW entry \in scheduled, ComesDue(entry)
     PROVE  QueueNext \/ UNCHANGED queueVars
    BY <1>19 DEF ComesDue
<1>20. ASSUME NEW i \in Waiters, NEW place \in {"i_wait", "i_until"}, IdleCall(i, place)
     PROVE  QueueNext \/ UNCHANGED queueVars
    BY <1>20 DEF IdleCall
<1>21. ASSUME NEW i \in Waiters, IdleResume(i) PROVE QueueNext \/ UNCHANGED queueVars
    BY <1>21 DEF IdleResume
<1>22. ASSUME NEW i \in Waiters, IdleTimeout(i) PROVE QueueNext \/ UNCHANGED queueVars
    BY <1>22 DEF IdleTimeout
<1>23. ASSUME NEW b \in {"Block", "Reject"}, SetBackpressurePolicy(b)
     PROVE  QueueNext \/ UNCHANGED queueVars
    BY <1>23 DEF SetBackpressurePolicy
<1>24. ASSUME StartFlags PROVE QueueNext \/ UNCHANGED queueVars
    <2>1. ThreadsOfStart /\ SlotOfStart /\ FlagsAgree
          BY DEF LifecycleInv
    <2>2. queue = {} \/ slot = 0
          BY <1>24, <2>1 DEF StartFlags, MayStart, ThreadsOfStart, SlotOfStart, NoThreadYet
    <2> QED
          BY <1>24, <2>2 DEF StartFlags, QueueNext, Renumber
<1>25. ASSUME Spawn PROVE QueueNext \/ UNCHANGED queueVars
    BY <1>25 DEF Spawn
<1>26. ASSUME NEW created \in SUBSET Workers, SpawnFails(created)
     PROVE  QueueNext \/ UNCHANGED queueVars
    BY <1>26 DEF SpawnFails
<1>27. ASSUME Unwind PROVE QueueNext \/ UNCHANGED queueVars
    BY <1>27 DEF Unwind
<1>28. ASSUME UnwindEnd PROVE QueueNext \/ UNCHANGED queueVars
    BY <1>28 DEF UnwindEnd
<1>29. ASSUME NEW mode \in {"Drain", "CancelPending"}, Stop(mode)
     PROVE  QueueNext \/ UNCHANGED queueVars
    BY <1>29 DEF Stop, QueueNext, Clear
<1>30. ASSUME JoinBegin PROVE QueueNext \/ UNCHANGED queueVars
    BY <1>30 DEF JoinBegin
<1>31. ASSUME JoinEnd PROVE QueueNext \/ UNCHANGED queueVars
    BY <1>31 DEF JoinEnd
<1>32. CASE UNCHANGED vars
    BY <1>32
<1> HIDE DEF EnqueueFails, queueVars, vars
<1> QED
    BY <1>1, <1>2, <1>3, <1>4, <1>5, <1>6, <1>7, <1>8, <1>9, <1>10, <1>11, <1>12,
       <1>13, <1>14, <1>15, <1>16, <1>17, <1>18, <1>19, <1>20, <1>21, <1>22, <1>23,
       <1>24, <1>25, <1>26, <1>27, <1>28, <1>29, <1>30, <1>31, <1>32
       DEF Next, Posting, Enqueue, Worker, Scheduler, IdleWaiter, Lifecycle

\* Every step of the pool on its queue is a step TaskQueue allows. That Start
\* renumbers only an empty queue, or one whose dispatch slot never moved, is what
\* LifecycleInv is needed for.
THEOREM PoolImplementsTaskQueue == Spec => ImplementsTaskQueue
<1>1. Init => QueueInit
    BY DEF Init
<1>2. LifecycleInv /\ [Next]_vars => [QueueNext]_queueVars
    BY QueueRefinementStep
<1> QED
    BY <1>1, <1>2, PoolLifecycle, PTL DEF Spec, ImplementsTaskQueue, QueueSpec
================================================================================
