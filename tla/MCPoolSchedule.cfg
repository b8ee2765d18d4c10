CONSTANTS
    Producers = {p1}
    Workers = {w1}
    Waiters = {i1}
    Sched = sched
    Owner = owner
    PostTasks = {t1}
    DelayedTasks = {d1}
    PeriodicTasks = {q1}
    UsedPriorities = {"High"}
    Task <- AllTasks
    NoTask = NoTask
    Capacity = 1
    SpawnMayFail = TRUE
    MaxStarts = 2
    MaxRescheduled = 1
SPECIFICATION Spec
INVARIANTS
    ExactlyOnce
    SchedulerLedger
    NoStrandedWaiter
    ActiveWorkers
PROPERTIES
    ImplementsTaskQueue
