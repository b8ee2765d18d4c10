------------------------------ MODULE ThreadPool ------------------------------
(***************************************************************************)
(* asyncx::ThreadPool: worker threads, a scheduler thread, producers that  *)
(* post under backpressure, callers of WaitForIdle and of CancelScheduled, *)
(* any thread that calls Stop, and one owner that calls Start and Join.    *)
(*                                                                         *)
(* One action is one critical section of mu_, or one step taken outside it *)
(* (running a task, the notify_one after a push). A thread is at the place *)
(* pc gives; a thread in "blocked" sleeps on the condition variable of its *)
(* place:  w_check cv_not_empty_, e_full cv_not_full_, s_check             *)
(* cv_scheduler_, i_wait and i_until cv_idle_. The notify_all calls that   *)
(* follow a critical section are folded into it: a thread they wake sees   *)
(* the flags the section has set however late it is woken.                 *)
(*                                                                         *)
(* The owner is one thread because Start and Join hand the thread objects  *)
(* over outside the mutex; two concurrent Join calls are not modelled.     *)
(***************************************************************************)
EXTENDS TaskQueue

CONSTANTS
    Producers, Workers, Waiters,   \* threads
    Sched, Owner,                  \* the scheduler thread, the caller of Start and Join
    PostTasks,                     \* tasks given to Post, TryPost, PostUntil
    DelayedTasks,                  \* tasks given to PostDelayedUntil
    PeriodicTasks,                 \* tasks given to ScheduleEvery
    UsedPriorities,                \* bound: the priorities the posting calls use
    NoTask,
    SpawnMayFail,                  \* may the creation of a thread throw?
    MaxStarts,                     \* bound: calls of Start that find the pool stopped
    MaxRescheduled                 \* bound: clock ticks that make a periodic task due again

Enqueuers == Producers \cup {Sched}
Threads == Producers \cup Workers \cup Waiters \cup {Sched, Owner}

ASSUME ThreadAssumption ==
    /\ IsFiniteSet(Threads)
    /\ Workers # {}
    /\ Producers \cap (Workers \cup Waiters \cup {Sched, Owner}) = {}
    /\ Workers \cap (Waiters \cup {Sched, Owner}) = {}
    /\ Waiters \cap {Sched, Owner} = {}
    /\ Sched # Owner
ASSUME TaskAssumption ==
    /\ Task = PostTasks \cup DelayedTasks \cup PeriodicTasks
    /\ PostTasks \cap (DelayedTasks \cup PeriodicTasks) = {}
    /\ DelayedTasks \cap PeriodicTasks = {}
    /\ NoTask \notin Task
    /\ UsedPriorities \subseteq Priority
ASSUME BoundAssumption ==
    SpawnMayFail \in BOOLEAN /\ MaxStarts \in Nat /\ MaxRescheduled \in Nat

VARIABLES
    running,        \* running_
    accepting,      \* accepting_
    stopRequested,  \* stop_requested_, and scheduler_stop_requested_ which always equals it
    policy,         \* backpressure_policy_
    active,         \* active_workers_
    scheduled,      \* scheduled_tasks_; due stands for "its time has come"
    stats,          \* the atomic counters
    pc, blocked,    \* where each thread is, and who sleeps there
    request,        \* arguments of an EnqueueTask call in progress
    job,            \* the task a worker has taken
    fresh,          \* tasks no caller has used yet
    accepted,       \* history: tasks a caller was told were accepted
    finished,       \* history: tasks that have run to their end
    dropped,        \* history: accepted tasks that Stop or CancelScheduled discarded
    discarded,      \* history: number of queue entries Stop discarded
    starts          \* history: number of Start calls that started the pool

history == <<fresh, accepted, finished, dropped, discarded, starts>>
flags == <<running, accepting, stopRequested>>
vars == <<queueVars, flags, policy, active, scheduled, stats, pc, blocked,
          request, job, history>>

ScheduledEntry == [task : DelayedTasks \cup PeriodicTasks, due : BOOLEAN]
Request == [task : Task, priority : Priority, wait : BOOLEAN, timed : BOOLEAN]
NoRequest == [task |-> NoTask, priority |-> "Normal", wait |-> FALSE, timed |-> FALSE]
Counters == {"submitted", "completed", "rejected", "timedOut", "backpressureRejected",
             "created", "fired", "cancelled", "rescheduled"}

Closed == ~running \/ ~accepting
IdleWithoutActive == queue = {} /\ scheduled = {}      \* mutant: a running task is overlooked
IsIdleLocked == queue = {} /\ active = 0 /\ scheduled = {}

At(places) == {t \in Threads : pc[t] \in places}
SleepingAt(places) == blocked \cap At(places)
Awake(t) == t \notin blocked

NotifyNobody(place, b) == {b}       \* mutant: the notification is forgotten

\* What may be left of the sleepers b after notify_one on the variable of place.
NotifyOne(place, b) ==
    IF b \cap At({place}) = {} THEN {b}
    ELSE {b \ {t} : t \in b \cap At({place})}

WakeWorkersOnly == At({"w_check", "s_check"})    \* mutant: producers sleep through a stop
WakeProducersOnly == At({"e_full", "s_check"})   \* mutant: workers sleep through a stop

\* The sleepers notified when the pool is told to stop.
WokenByStop == At({"w_check", "e_full", "s_check"})

Bump(counter, n) == [stats EXCEPT ![counter] = @ + n]

------------------------------------------------------------------------------
(* EnqueueTask, entered by the posting calls and by the scheduler. *)

\* Post and PostWithPriority read the policy in a critical section of their
\* own; PostUntil always waits, TryPost never does.
PostBegin(p, task, pr, kind) ==
    /\ pc[p] = "p_idle"
    /\ task \in fresh \cap PostTasks
    /\ request' = [request EXCEPT ![p] =
                     [task |-> task, priority |-> pr,
                      wait |-> kind = "until" \/ (kind = "post" /\ policy = "Block"),
                      timed |-> kind = "until"]]
    /\ pc' = [pc EXCEPT ![p] = "e_try"]
    /\ fresh' = fresh \ {task}
    /\ UNCHANGED <<queueVars, flags, policy, active, scheduled, stats, blocked, job,
                   accepted, finished, dropped, discarded, starts>>

InEnqueue(e) == pc[e] \in {"e_try", "e_full"}

\* A waiter of cv_not_full_ goes on when it was notified or, if it has a
\* deadline, when the deadline may have passed.
MayGoOn(e) == InEnqueue(e) /\ (Awake(e) \/ request[e].timed)

\* The call fails: a producer returns, the scheduler thread ends.
EnqueueFails(e) ==
    /\ pc' = [pc EXCEPT ![e] = IF e = Sched THEN "s_exit" ELSE "p_idle"]
    /\ blocked' = blocked \ {e}
    /\ request' = [request EXCEPT ![e] = NoRequest]
    /\ dropped' = IF request[e].task \in DelayedTasks
                  THEN dropped \cup {request[e].task} ELSE dropped
    /\ UNCHANGED <<queueVars, flags, policy, active, scheduled, job, fresh, accepted,
                   finished, discarded, starts>>

EnqueuePush(e) ==
    /\ MayGoOn(e)
    /\ ~Closed
    /\ Push(request[e].task, request[e].priority)
    /\ stats' = Bump("submitted", 1)
    /\ pc' = [pc EXCEPT ![e] = "e_notify"]
    /\ blocked' = blocked \ {e}
    /\ accepted' = accepted \cup {request[e].task}
    /\ UNCHANGED <<flags, policy, active, scheduled, request, job, fresh, finished,
                   dropped, discarded, starts>>

\* mutant: the call is counted as submitted before the pool is found closed
EnqueueRejectCounted(e) ==
    /\ MayGoOn(e)
    /\ Closed
    /\ stats' = [stats EXCEPT !["rejected"] = @ + 1, !["submitted"] = @ + 1]
    /\ EnqueueFails(e)

EnqueueReject(e) ==
    /\ MayGoOn(e)
    /\ Closed
    /\ stats' = Bump("rejected", 1)
    /\ EnqueueFails(e)

EnqueueFull(e) ==
    /\ pc[e] = "e_try"
    /\ ~Closed /\ ~HasRoom /\ ~request[e].wait
    /\ stats' = [stats EXCEPT !["rejected"] = @ + 1, !["backpressureRejected"] = @ + 1]
    /\ EnqueueFails(e)

EnqueueBlock(e) ==
    /\ InEnqueue(e) /\ Awake(e)
    /\ ~Closed /\ ~HasRoom /\ request[e].wait
    /\ pc' = [pc EXCEPT ![e] = "e_full"]
    /\ blocked' = blocked \cup {e}
    /\ UNCHANGED <<queueVars, flags, policy, active, scheduled, stats, request, job, history>>

EnqueueTimeout(e) ==
    /\ pc[e] = "e_full" /\ request[e].timed
    /\ ~HasRoom
    /\ stats' = Bump("timedOut", 1)
    /\ EnqueueFails(e)

\* After the unlock: cv_not_empty_.notify_one(), then the call returns.
EnqueueNotify(e) ==
    /\ pc[e] = "e_notify"
    /\ blocked' \in NotifyOne("w_check", blocked)
    /\ pc' = [pc EXCEPT ![e] = IF e = Sched THEN "s_check" ELSE "p_idle"]
    /\ request' = [request EXCEPT ![e] = NoRequest]
    /\ stats' = IF e = Sched THEN Bump("fired", 1) ELSE stats
    /\ UNCHANGED <<queueVars, flags, policy, active, scheduled, job, history>>

Enqueue(e) ==
    \/ EnqueuePush(e) \/ EnqueueReject(e) \/ EnqueueFull(e)
    \/ EnqueueBlock(e) \/ EnqueueTimeout(e) \/ EnqueueNotify(e)

------------------------------------------------------------------------------
(* WorkerLoop. *)

WorkerWait(w) ==
    /\ pc[w] = "w_check" /\ Awake(w)
    /\ queue = {} /\ ~stopRequested
    /\ blocked' = blocked \cup {w}
    /\ UNCHANGED <<queueVars, flags, policy, active, scheduled, stats, pc, request, job, history>>

LeavesAtOnce == stopRequested       \* mutant: a stop request is obeyed before the queue is drained
MayLeave == queue = {} /\ stopRequested

WorkerExit(w) ==
    /\ pc[w] = "w_check" /\ Awake(w)
    /\ MayLeave
    /\ pc' = [pc EXCEPT ![w] = "w_exit"]
    /\ UNCHANGED <<queueVars, flags, policy, active, scheduled, stats, blocked, request,
                   job, history>>

WorkerTake(w) ==
    /\ pc[w] = "w_check" /\ Awake(w)
    /\ \E e \in queue :
          /\ Dispatch(e)
          /\ job' = [job EXCEPT ![w] = e.task]
    /\ active' = active + 1
    /\ pc' = [pc EXCEPT ![w] = "w_run"]
    /\ blocked' \in NotifyOne("e_full", blocked)
    /\ UNCHANGED <<flags, policy, scheduled, stats, request, history>>

\* The task returns or throws; either way completed_ is incremented, before
\* mu_ is taken again.
WorkerFinish(w) ==
    /\ pc[w] = "w_run"
    /\ pc' = [pc EXCEPT ![w] = "w_ran"]
    /\ finished' = finished \cup {job[w]}
    /\ job' = [job EXCEPT ![w] = NoTask]
    /\ stats' = Bump("completed", 1)
    /\ UNCHANGED <<queueVars, flags, policy, active, scheduled, blocked, request, fresh,
                   accepted, dropped, discarded, starts>>

NotifyNoWaiter(b) == b              \* mutant: cv_idle_ is never notified

\* The sleepers left by cv_idle_.notify_all() if the pool is idle afterwards.
NotifyIdle(b) == b \ (IF IsIdleLocked' THEN At({"i_wait", "i_until"}) ELSE {})

WorkerRelease(w) ==
    /\ pc[w] = "w_ran"
    /\ active' = IF active > 0 THEN active - 1 ELSE active
    /\ pc' = [pc EXCEPT ![w] = "w_check"]
    /\ UNCHANGED <<queueVars, flags, policy, scheduled, stats, request, job, history>>
    /\ blocked' = NotifyIdle(blocked)

Worker(w) ==
    \/ WorkerWait(w) \/ WorkerExit(w) \/ WorkerTake(w)
    \/ WorkerFinish(w) \/ WorkerRelease(w)

------------------------------------------------------------------------------
(* Scheduling: PostDelayedUntil, ScheduleEvery, CancelScheduled, SchedulerLoop. *)

\* A task given to ScheduleEvery(run_immediately = true) is due at once.
Schedule(p, task, due) ==
    /\ pc[p] = "p_idle"
    /\ task \in fresh \ PostTasks
    /\ due => task \in PeriodicTasks
    /\ fresh' = fresh \ {task}
    /\ \/ /\ Closed
          /\ stats' = Bump("rejected", 1)
          /\ UNCHANGED <<scheduled, blocked, accepted>>
       \/ /\ ~Closed
          /\ scheduled' = scheduled \cup {[task |-> task, due |-> due]}
          /\ stats' = Bump("created", 1)
          /\ accepted' = accepted \cup {task}
          /\ blocked' \in NotifyOne("s_check", blocked)
    /\ UNCHANGED <<queueVars, flags, policy, active, pc, request, job, finished, dropped,
                   discarded, starts>>

CancelScheduled(p, entry) ==
    /\ pc[p] = "p_idle"
    /\ entry \in scheduled
    /\ scheduled' = scheduled \ {entry}
    /\ stats' = [stats EXCEPT !["rejected"] = @ + 1, !["cancelled"] = @ + 1]
    /\ dropped' = dropped \cup {entry.task}
    /\ UNCHANGED <<queueVars, flags, policy, active, pc, request, job, fresh, accepted,
                   finished, discarded, starts>>
    /\ blocked' = NotifyIdle(blocked \ At({"s_check"}))

\* Time passes: the due time of an entry is reached.
ComesDue(entry) ==
    /\ entry \in scheduled /\ ~entry.due
    /\ entry.task \in PeriodicTasks => stats["rescheduled"] < MaxRescheduled
    /\ scheduled' = (scheduled \ {entry}) \cup {[entry EXCEPT !.due = TRUE]}
    /\ UNCHANGED <<queueVars, flags, policy, active, stats, pc, blocked, request, job, history>>

SomeDue == \E entry \in scheduled : entry.due

\* wait(lock) while nothing is scheduled, wait_until(lock, due) while nothing is due.
SchedulerWait ==
    /\ pc[Sched] = "s_check" /\ Awake(Sched)
    /\ ~stopRequested /\ running /\ ~SomeDue
    /\ blocked' = blocked \cup {Sched}
    /\ UNCHANGED <<queueVars, flags, policy, active, scheduled, stats, pc, request, job, history>>

SchedulerWakes ==
    /\ pc[Sched] = "s_check" /\ Sched \in blocked /\ SomeDue
    /\ blocked' = blocked \ {Sched}
    /\ UNCHANGED <<queueVars, flags, policy, active, scheduled, stats, pc, request, job, history>>

SchedulerExit ==
    /\ pc[Sched] = "s_check" /\ Awake(Sched)
    /\ stopRequested \/ ~running
    /\ pc' = [pc EXCEPT ![Sched] = "s_exit"]
    /\ UNCHANGED <<queueVars, flags, policy, active, scheduled, stats, blocked, request,
                   job, history>>

\* mutant: a one-shot entry stays scheduled while its task is enqueued
KeepsEntry(entry) ==
    IF entry.task \in PeriodicTasks
    THEN (scheduled \ {entry}) \cup {[entry EXCEPT !.due = FALSE]} ELSE scheduled

AfterDispatch(entry) ==
    IF entry.task \in PeriodicTasks
    THEN (scheduled \ {entry}) \cup {[entry EXCEPT !.due = FALSE]} ELSE scheduled \ {entry}

\* The entry leaves scheduled_tasks_ (or is pushed one interval ahead) in the
\* critical section; the task then travels to the queue outside it.
SchedulerDispatch(entry) ==
    /\ pc[Sched] = "s_check" /\ Awake(Sched)
    /\ ~stopRequested /\ running
    /\ entry \in scheduled /\ entry.due
    /\ scheduled' = AfterDispatch(entry)
    /\ stats' = IF entry.task \in PeriodicTasks THEN Bump("rescheduled", 1) ELSE stats
    /\ request' = [request EXCEPT ![Sched] =
                     [task |-> entry.task, priority |-> "Normal", wait |-> TRUE, timed |-> FALSE]]
    /\ pc' = [pc EXCEPT ![Sched] = "e_try"]
    /\ UNCHANGED <<queueVars, flags, policy, active, blocked, job, history>>

Scheduler ==
    \/ SchedulerWait \/ SchedulerWakes \/ SchedulerExit
    \/ \E entry \in scheduled : SchedulerDispatch(entry)

------------------------------------------------------------------------------
(* WaitForIdle and WaitForIdleUntil; each waiter makes one call. *)

IdleCall(i, place) ==
    /\ pc[i] = "i_call"
    /\ IF IsIdleLocked
       THEN pc' = [pc EXCEPT ![i] = "i_ok"] /\ UNCHANGED blocked
       ELSE pc' = [pc EXCEPT ![i] = place] /\ blocked' = blocked \cup {i}
    /\ UNCHANGED <<queueVars, flags, policy, active, scheduled, stats, request, job, history>>

IdleResume(i) ==
    /\ pc[i] \in {"i_wait", "i_until"} /\ Awake(i)
    /\ IF IsIdleLocked
       THEN pc' = [pc EXCEPT ![i] = "i_ok"] /\ UNCHANGED blocked
       ELSE blocked' = blocked \cup {i} /\ UNCHANGED pc
    /\ UNCHANGED <<queueVars, flags, policy, active, scheduled, stats, request, job, history>>

IdleTimeout(i) ==
    /\ pc[i] = "i_until"
    /\ blocked' = blocked \ {i}
    /\ IF IsIdleLocked
       THEN pc' = [pc EXCEPT ![i] = "i_ok"] /\ UNCHANGED stats
       ELSE pc' = [pc EXCEPT ![i] = "i_timeout"] /\ stats' = Bump("timedOut", 1)
    /\ UNCHANGED <<queueVars, flags, policy, active, scheduled, request, job, history>>

IdleWaiter(i) ==
    \/ \E place \in {"i_wait", "i_until"} : IdleCall(i, place)
    \/ IdleResume(i) \/ IdleTimeout(i)

------------------------------------------------------------------------------
(* Lifecycle. *)

SetBackpressurePolicy(p) ==
    /\ policy # p
    /\ policy' = p
    /\ UNCHANGED <<queueVars, flags, active, scheduled, stats, pc, blocked, request, job, history>>

StartsAgain == pc[Owner] = "o_idle"      \* mutant: Start does not see that the pool runs
MayStart == pc[Owner] = "o_idle" /\ ~running

StartFlags ==
    /\ MayStart
    /\ starts < MaxStarts
    /\ starts' = starts + 1
    /\ stopRequested' = FALSE /\ accepting' = TRUE /\ running' = TRUE
    /\ active' = 0 /\ nextSequence' = 1 /\ slot' = 0
    /\ pc' = [pc EXCEPT ![Owner] = "o_spawn"]
    /\ UNCHANGED <<queue, policy, scheduled, stats, blocked, request, job, fresh, accepted,
                   finished, dropped, discarded>>

\* The threads are created after mu_ is released.
Spawn ==
    /\ pc[Owner] = "o_spawn"
    /\ pc' = [t \in Threads |-> IF t \in Workers THEN "w_check"
                                ELSE IF t = Sched THEN "s_check"
                                ELSE IF t = Owner THEN "o_idle" ELSE pc[t]]
    /\ UNCHANGED <<queueVars, flags, policy, active, scheduled, stats, blocked, request,
                   job, history>>

\* Creating a thread throws when some of the workers already run.
SpawnFails(created) ==
    /\ SpawnMayFail
    /\ pc[Owner] = "o_spawn"
    /\ pc' = [t \in Threads |-> IF t \in created THEN "w_check"
                                ELSE IF t = Owner THEN "o_unwind" ELSE pc[t]]
    /\ UNCHANGED <<queueVars, flags, policy, active, scheduled, stats, blocked, request,
                   job, history>>

\* catch: the flags are set and every sleeper but the idle waiters is notified.
Unwind ==
    /\ pc[Owner] = "o_unwind"
    /\ accepting' = FALSE /\ stopRequested' = TRUE
    /\ blocked' = blocked \ WokenByStop
    /\ pc' = [pc EXCEPT ![Owner] = "o_unjoin"]
    /\ UNCHANGED <<queueVars, running, policy, active, scheduled, stats, request, job, history>>

ThreadsEnded == \A t \in Workers \cup {Sched} :
    pc[t] \in {"w_none", "w_exit", "s_none", "s_exit"}

NoThreads(place) == [t \in Threads |-> IF t \in Workers THEN "w_none"
                                      ELSE IF t = Sched THEN "s_none"
                                      ELSE IF t = Owner THEN place ELSE pc[t]]

UnwindEnd ==
    /\ pc[Owner] = "o_unjoin"
    /\ ThreadsEnded
    /\ running' = FALSE /\ stopRequested' = FALSE
    /\ pc' = NoThreads("o_idle")
    /\ UNCHANGED <<queueVars, accepting, policy, active, scheduled, stats, blocked,
                   request, job, history>>

\* mutant: scheduled_tasks_ is counted after it was cleared
DiscardCountsLate(gone) ==
    /\ scheduled' = {}
    /\ dropped' = dropped \cup {entry.task : entry \in scheduled} \cup {e.task : e \in gone}
    /\ discarded' = discarded + Cardinality(gone)
    /\ stats' = [stats EXCEPT !["rejected"] = @ + Cardinality(gone)]

\* What a stop request discards: the scheduled entries and, of the queue, gone.
Discard(gone) ==
    /\ scheduled' = {}
    /\ dropped' = dropped \cup {entry.task : entry \in scheduled} \cup {e.task : e \in gone}
    /\ discarded' = discarded + Cardinality(gone)
    /\ stats' = [stats EXCEPT !["rejected"] = @ + Cardinality(scheduled) + Cardinality(gone),
                              !["cancelled"] = @ + Cardinality(scheduled)]

Stop(mode) ==
    /\ running
    /\ accepting' = FALSE /\ stopRequested' = TRUE
    /\ LET gone == IF mode = "CancelPending" THEN queue ELSE {}
       IN  queue' = queue \ gone /\ Discard(gone)
    /\ UNCHANGED <<nextSequence, slot, running, policy, active, pc, request, job, fresh,
                   accepted, finished, starts>>
    /\ blocked' = NotifyIdle(blocked \ WokenByStop)

\* Join stops the pool itself if nobody has; unlike Stop it never discards the
\* queue and does not look at cv_idle_ yet.
JoinBegin ==
    /\ pc[Owner] = "o_idle"
    /\ pc' = [pc EXCEPT ![Owner] = "o_join"]
    /\ IF running /\ ~stopRequested
       THEN /\ accepting' = FALSE /\ stopRequested' = TRUE
            /\ Discard({})
       ELSE UNCHANGED <<accepting, stopRequested, scheduled, stats, dropped, discarded>>
    /\ blocked' = blocked \ WokenByStop
    /\ UNCHANGED <<queueVars, running, policy, active, request, job, fresh, accepted,
                   finished, starts>>

JoinEnd ==
    /\ pc[Owner] = "o_join"
    /\ ThreadsEnded
    /\ running' = FALSE /\ accepting' = FALSE /\ stopRequested' = FALSE
    /\ pc' = NoThreads("o_idle")
    /\ UNCHANGED <<queueVars, policy, active, scheduled, stats, request, job, history>>
    /\ blocked' = NotifyIdle(blocked \ At({"e_full"}))

Lifecycle ==
    \/ \E p \in {"Block", "Reject"} : SetBackpressurePolicy(p)
    \/ StartFlags \/ Spawn
    \/ \E created \in SUBSET Workers : SpawnFails(created)
    \/ Unwind \/ UnwindEnd
    \/ \E mode \in {"Drain", "CancelPending"} : Stop(mode)
    \/ JoinBegin \/ JoinEnd

------------------------------------------------------------------------------
Init ==
    /\ QueueInit
    /\ running = FALSE /\ accepting = FALSE /\ stopRequested = FALSE
    /\ policy \in {"Block", "Reject"}
    /\ active = 0
    /\ scheduled = {}
    /\ stats = [c \in Counters |-> 0]
    /\ pc = [t \in Threads |-> IF t \in Producers THEN "p_idle"
                               ELSE IF t \in Workers THEN "w_none"
                               ELSE IF t \in Waiters THEN "i_call"
                               ELSE IF t = Sched THEN "s_none" ELSE "o_idle"]
    /\ blocked = {}
    /\ request = [e \in Enqueuers |-> NoRequest]
    /\ job = [w \in Workers |-> NoTask]
    /\ fresh = Task
    /\ accepted = {} /\ finished = {} /\ dropped = {}
    /\ discarded = 0
    /\ starts = 0

Posting ==
    \E p \in Producers :
        \/ \E task \in PostTasks, pr \in UsedPriorities, kind \in {"post", "try", "until"} :
               PostBegin(p, task, pr, kind)
        \/ \E task \in DelayedTasks \cup PeriodicTasks, due \in BOOLEAN : Schedule(p, task, due)
        \/ \E entry \in scheduled : CancelScheduled(p, entry)

Next ==
    \/ Posting
    \/ \E e \in Enqueuers : Enqueue(e)
    \/ \E w \in Workers : Worker(w)
    \/ Scheduler
    \/ \E entry \in scheduled : ComesDue(entry)
    \/ \E i \in Waiters : IdleWaiter(i)
    \/ Lifecycle

Spec == Init /\ [][Next]_vars

(***************************************************************************)
(* Fairness: every thread the pool owns, and every call in progress, keeps *)
(* taking its next step when it can; tasks end; due times are reached. No  *)
(* new call, Start, Stop or Join is ever owed. Strong fairness of a        *)
(* dispatch stands for FindNextDueLocked, which takes the earliest entry.  *)
(***************************************************************************)
Fairness ==
    /\ \A e \in Enqueuers : WF_vars(Enqueue(e))
    /\ \A w \in Workers : WF_vars(Worker(w))
    /\ WF_vars(Scheduler)
    /\ \A task \in DelayedTasks \cup PeriodicTasks :
          /\ WF_vars(ComesDue([task |-> task, due |-> FALSE]))
          /\ SF_vars(SchedulerDispatch([task |-> task, due |-> TRUE]))
    /\ \A i \in Waiters : WF_vars(IdleResume(i))
    /\ WF_vars(Spawn \/ Unwind \/ UnwindEnd \/ JoinEnd)

FairSpec == Spec /\ Fairness

------------------------------------------------------------------------------
Places == {"p_idle", "e_try", "e_full", "e_notify", "w_none", "w_check", "w_run", "w_ran",
           "w_exit", "s_none", "s_check", "s_exit", "i_call", "i_wait", "i_until", "i_ok",
           "i_timeout", "o_idle", "o_spawn", "o_unwind", "o_unjoin", "o_join"}

TypeOK ==
    /\ QueueTypeOK
    /\ running \in BOOLEAN /\ accepting \in BOOLEAN /\ stopRequested \in BOOLEAN
    /\ policy \in {"Block", "Reject"}
    /\ active \in Nat
    /\ scheduled \subseteq ScheduledEntry /\ IsFiniteSet(scheduled)
    /\ stats \in [Counters -> Nat]
    /\ pc \in [Threads -> Places]
    /\ blocked \subseteq Threads
    /\ request \in [Enqueuers -> Request \cup {NoRequest}]
    /\ job \in [Workers -> Task \cup {NoTask}]
    /\ fresh \subseteq Task /\ accepted \subseteq Task
    /\ finished \subseteq Task /\ dropped \subseteq Task
    /\ discarded \in Nat
    /\ starts \in 0..MaxStarts

\* The queue never holds more than its capacity, whoever wakes up together and
\* whatever deadline passes while a slot is freed (EnqueueTask).
QueueBounded == Cardinality(queue) <= Capacity

\* The counters of GetStats add up in every state another thread can see:
\* what was submitted has completed, runs, is queued or was discarded by Stop.
TaskLedger ==
    stats["submitted"] = stats["completed"] + Cardinality(At({"w_run"}))
                         + Cardinality(queue) + discarded

\* active_workers_ is the number of workers between taking and releasing a task,
\* across restarts: the guard on its decrement never hides a miscount.
ActiveWorkers == active = Cardinality(At({"w_run", "w_ran"}))

------------------------------------------------------------------------------
(* What makes the invariants above, but for TaskLedger, inductive. *)

\* Every thread runs the loop or the call of its kind.
PlacesOfKind ==
    /\ \A p \in Producers : pc[p] \in {"p_idle", "e_try", "e_full", "e_notify"}
    /\ \A w \in Workers : pc[w] \in {"w_none", "w_check", "w_run", "w_ran", "w_exit"}
    /\ \A i \in Waiters : pc[i] \in {"i_call", "i_wait", "i_until", "i_ok", "i_timeout"}
    /\ pc[Sched] \in {"s_none", "s_check", "e_try", "e_full", "e_notify", "s_exit"}
    /\ pc[Owner] \in {"o_idle", "o_spawn", "o_unwind", "o_unjoin", "o_join"}

\* A call of EnqueueTask has a task in its hands, and so has a running worker.
TasksInHand ==
    /\ \A e \in Enqueuers : InEnqueue(e) => request[e] \in Request
    /\ \A w \in Workers : pc[w] = "w_run" => job[w] \in Task

\* Whoever sleeps does so at a wait of a condition variable.
SleepersWait == blocked \subseteq At({"w_check", "e_full", "s_check", "i_wait", "i_until"})

\* The flags agree with each other and with what the owner is doing.
FlagsAgree ==
    /\ accepting => running /\ ~stopRequested
    /\ pc[Owner] \in {"o_spawn", "o_unwind", "o_unjoin"} => running
    /\ pc[Owner] = "o_unjoin" => ~accepting

NoThreadYet == pc[Sched] = "s_none" /\ \A w \in Workers : pc[w] = "w_none"

\* A stopped pool has no threads, and Start creates them from none.
ThreadsOfStart ==
    (pc[Owner] = "o_spawn" \/ (pc[Owner] \in {"o_idle", "o_join"} /\ ~running)) => NoThreadYet

\* Workers only leave an empty queue that stays empty, so Start finds nothing
\* queued or a slot that never moved.
SlotOfStart ==
    /\ (\E w \in Workers : pc[w] = "w_exit") => queue = {} /\ ~accepting
    /\ (\A w \in Workers : pc[w] = "w_none") => slot = 0 \/ (queue = {} /\ ~accepting)

\* The inductive invariant of ThreadPoolProofs, which TLC checks first: what
\* Start, Stop and Join rely on when they touch the flags and the thread objects
\* in separate critical sections.
LifecycleInv ==
    /\ TypeOK
    /\ PlacesOfKind /\ TasksInHand /\ SleepersWait
    /\ FlagsAgree /\ ThreadsOfStart /\ SlotOfStart

------------------------------------------------------------------------------
OneShot == PostTasks \cup DelayedTasks
Offering == {p \in Producers : InEnqueue(p)}
Offered == {request[p].task : p \in Offering}
InHand == {request[e].task : e \in {Sched} \cap At({"e_try", "e_full"})}
Running == {job[w] : w \in Workers} \ {NoTask}
Queued == {e.task : e \in queue}
Pending == {entry.task : entry \in scheduled}

Whereabouts == [pending |-> Pending, inHand |-> InHand, queued |-> Queued,
                running |-> Running, finished |-> finished, dropped |-> dropped]

\* An accepted task is in exactly one place: waiting for its time, in the
\* scheduler's hands, queued, running, run, or discarded by Stop or
\* CancelScheduled. None is lost, and none is queued or run twice.
ExactlyOnce ==
    \A task \in accepted \cap OneShot :
        /\ \E place \in DOMAIN Whereabouts :
              {p \in DOMAIN Whereabouts : task \in Whereabouts[p]} = {place}
        /\ \A e, f \in queue : e.task = task /\ f.task = task => e = f
        /\ \A v, w \in Workers : job[v] = task /\ job[w] = task => v = w

\* After Join nothing is left behind, and if no Stop(CancelPending) discarded
\* anything, every posted task that was accepted has run (StopMode::Drain).
JoinLeavesNothing ==
    (pc[Owner] = "o_idle" /\ ~running /\ ~SpawnMayFail) =>
        /\ queue = {} /\ active = 0 /\ scheduled = {}
        /\ discarded = 0 => accepted \cap PostTasks \subseteq finished

------------------------------------------------------------------------------
(* What makes ExactlyOnce and the ledgers inductive. *)

\* Posting calls carry posted tasks, the scheduler thread scheduled ones, and only
\* a running worker has a task.
CarriersOfKind ==
    /\ \A p \in Offering : request[p].task \in PostTasks
    /\ InHand \subseteq DelayedTasks \cup PeriodicTasks
    /\ \A w \in Workers : pc[w] # "w_run" => job[w] = NoTask

\* Nothing holds two copies of a task that may only run once.
OneCopy ==
    /\ \A p, q \in Offering : request[p].task = request[q].task => p = q
    /\ \A e, f \in scheduled : e.task = f.task => e = f
    /\ \A e, f \in queue : e.task = f.task /\ e.task \in OneShot => e = f
    /\ \A v, w \in Workers : job[v] = job[w] /\ job[v] \in OneShot => v = w

\* A task is unused, offered or accepted, and the places of an accepted task do
\* not overlap.
OnePlace ==
    /\ fresh \cap (accepted \cup Offered) = {} /\ Offered \cap accepted = {}
    /\ Pending \cup InHand \subseteq accepted
    /\ accepted \cap OneShot =
          (Pending \cup InHand \cup Queued \cup Running \cup finished \cup dropped) \cap OneShot
    /\ OneShot \cap Pending \cap (InHand \cup Queued \cup Running \cup finished \cup dropped) = {}
    /\ OneShot \cap InHand \cap (Queued \cup Running \cup finished \cup dropped) = {}
    /\ OneShot \cap Queued \cap (Running \cup finished \cup dropped) = {}
    /\ OneShot \cap Running \cap (finished \cup dropped) = {}
    /\ OneShot \cap finished \cap dropped = {}

\* The queue never holds an entry equal to the one that is pushed next: what was
\* queued before a restart began the numbering again is a posted task.
NewEntries ==
    /\ \A e \in queue : e.sequence < nextSequence \/ e.task \in PostTasks
    /\ pc[Sched] # "s_none" => \A w \in Workers : pc[w] # "w_none"
    /\ NoThreadYet => Queued \subseteq PostTasks

CustodyInv == CarriersOfKind /\ OneCopy /\ OnePlace /\ NewEntries

\* Without a failed creation of a thread, a stop request leaves nothing scheduled,
\* and the workers it ends leave nothing queued.
CleanStop ==
    /\ PostTasks \cap dropped # {} => discarded > 0
    /\ pc[Owner] = "o_join" => ~accepting
    /\ ~SpawnMayFail =>
          /\ pc[Owner] \notin {"o_unwind", "o_unjoin"}
          /\ ~accepting => scheduled = {}
          /\ ~running => queue = {}
          /\ running /\ pc[Owner] # "o_spawn" => \A w \in Workers : pc[w] # "w_none"

\* A pool that is not open has no producer asleep, an open one has not been told
\* to stop, and a failed Start never had a scheduler thread.
OpenAgrees ==
    /\ Closed => SleepingAt({"e_full"}) = {}
    /\ running /\ ~stopRequested => accepting
    /\ pc[Owner] \in {"o_unwind", "o_unjoin"} => pc[Sched] = "s_none"

\* No lost wakeup of cv_not_empty_: while a worker sleeps, every queued entry has
\* a worker on its way or a notification still to be sent.
NoStrandedTask ==
    SleepingAt({"w_check"}) # {} =>
        Cardinality(queue) <= Cardinality(At({"w_check"}) \ blocked)
                              + Cardinality(At({"e_notify"}))

\* No lost wakeup of cv_not_full_: while a producer sleeps on an open pool, every
\* free slot has a woken producer on its way to it.
NoStrandedProducer ==
    (SleepingAt({"e_full"}) # {} /\ ~Closed) =>
        Capacity - Cardinality(queue) <= Cardinality(At({"e_full"}) \ blocked)

\* No wakeup is lost, neither of a worker that sleeps while work is queued nor of a
\* producer that sleeps while there is room (EnqueueTask, WorkerLoop).
NoStrandedSleeper == NoStrandedTask /\ NoStrandedProducer

\* A stopped pool leaves no thread asleep that Join or a caller waits for.
StopWakesEveryone ==
    stopRequested => SleepingAt({"w_check", "e_full", "s_check"}) = {}

\* WaitForIdle never sleeps through an idle pool, except while the scheduler
\* carries a task it has just taken from scheduled_tasks_, or until the Join that
\* emptied scheduled_tasks_ ends.
NoStrandedWaiter ==
    (SleepingAt({"i_wait", "i_until"}) # {} /\ IsIdleLocked) =>
        (pc[Sched] = "e_try" /\ ~Closed) \/ pc[Owner] = "o_join"

Carried == IF pc[Sched] \in {"e_try", "e_full", "e_notify"} THEN 1 ELSE 0
LostDispatches ==
    stats["created"] + stats["rescheduled"]
    - (stats["fired"] + stats["cancelled"] + Cardinality(scheduled) + Carried)

\* Every scheduled dispatch is accounted for, but for at most one per scheduler
\* thread: the one in its hands when the pool was stopped.
SchedulerLedger == 0 <= LostDispatches /\ LostDispatches <= starts

\* A scheduler thread that has not ended may still lose the dispatch it carries.
SchedulerAlive == pc[Owner] = "o_spawn" \/ pc[Sched] \in {"s_check", "e_try", "e_full", "e_notify"}
DispatchesInv ==
    0 <= LostDispatches /\ LostDispatches + (IF SchedulerAlive THEN 1 ELSE 0) <= starts

\* WaitForIdle returns OK only when every task accepted by a posting call has
\* run or was discarded.
IdleMeansPostedTasksRan ==
    [][\A i \in Waiters : (pc[i] # "i_ok" /\ pc'[i] = "i_ok")
          => accepted \cap PostTasks \subseteq finished \cup dropped]_vars

\* The same, and "WaitForIdle includes scheduled tasks": every one-shot task the
\* pool has accepted, the delayed ones too (tests/asyncx_tests.cpp,
\* WaitForIdleIncludesScheduledTasks).
IdleIncludesScheduledTasks ==
    [][\A i \in Waiters : (pc[i] # "i_ok" /\ pc'[i] = "i_ok")
          => accepted \cap OneShot \subseteq finished \cup dropped]_vars

\* Every step of the pool on its queue is a step TaskQueue allows: a push within
\* capacity, the weighted dispatch, a clearing or a renumbering.
ImplementsTaskQueue == QueueSpec

\* Every accepted task runs or is discarded, if its thread was created.
EveryTaskEnds ==
    \A task \in OneShot : (task \in accepted) ~> (task \in finished \cup dropped)

\* Join terminates: no worker and no scheduler sleeps through the stop request.
JoinTerminates == (pc[Owner] = "o_join") ~> (pc[Owner] = "o_idle")

\* A posting call that waits for a slot returns.
BlockedPostReturns == \A p \in Producers : (pc[p] = "e_full") ~> (pc[p] = "p_idle")
==============================================================================
