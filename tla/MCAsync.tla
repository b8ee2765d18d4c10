-------------------------------- MODULE MCAsync --------------------------------
(***************************************************************************)
(* Instances of TaskGroup and ThreadPool for TLC, under the fairness they  *)
(* state. They share no state here: a behavior runs one of them, and the   *)
(* other stays as it begins, where nothing that is owed is enabled.        *)
(***************************************************************************)
EXTENDS TaskGroup

CONSTANTS p1, q1, sched, owner, a1, d1, noTask

VARIABLES part, queue, nextSequence, slot, running, accepting, stopRequested, policy, active, scheduled,
          counters, pc, blocked, request, job, fresh, accepted, finished, dropped, discarded, starts

poolVars == <<queue, nextSequence, slot, running, accepting, stopRequested, policy, active, scheduled,
              counters, pc, blocked, request, job, fresh, accepted, finished, dropped, discarded, starts>>

\* A posted and a delayed task, one producer and one worker, a queue of one place.
Pool == INSTANCE ThreadPool WITH
    Producers <- {p1}, Workers <- {q1}, Waiters <- {}, Sched <- sched, Owner <- owner,
    PostTasks <- {a1}, DelayedTasks <- {d1}, PeriodicTasks <- {}, Task <- {a1, d1}, NoTask <- noTask,
    UsedPriorities <- {"Normal"}, Capacity <- 1,
    SpawnMayFail <- FALSE, MaxStarts <- 1, MaxRescheduled <- 0, stats <- counters

MCInit ==
    /\ part \in {"group", "pool"}
    /\ Init /\ Pool!Init
    /\ part = "group" => policy = "Block"

GroupStep == part = "group" /\ Next /\ UNCHANGED <<part, poolVars>>
PoolStep == part = "pool" /\ Pool!Next /\ UNCHANGED <<part, vars>>

MCSpec == MCInit /\ [][GroupStep \/ PoolStep]_<<part, vars, poolVars>> /\ Fairness /\ Pool!Fairness

\* Work that was handed to the pool makes progress: accepted tasks end, Join
\* returns, and a producer that sleeps for a slot returns (Stop, Join, WorkerLoop,
\* EnqueueTask).
PoolProgress == Pool!EveryTaskEnds /\ Pool!JoinTerminates /\ Pool!BlockedPostReturns
================================================================================
