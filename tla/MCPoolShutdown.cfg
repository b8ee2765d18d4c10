CONSTANTS
    Producers = {p1, p2}
    Workers = {w1, w2}
    Waiters = {i1}
    Sched = sched
    Owner = owner
    PostTasks = {t1, t2, t3}
    DelayedTasks = {}
    PeriodicTasks = {}
    UsedPriorities = {"Low"}
    Task <- AllTasks
    NoTask = NoTask
    Capacity = 1
    SpawnMayFail = FALSE
    MaxStarts = 1
    MaxRescheduled = 0
SPECIFICATION Spec
SYMMETRY Symmetry
INVARIANTS
    TaskLedger
    JoinLeavesNothing
    NoStrandedSleeper
    StopWakesEveryone
PROPERTIES
    IdleMeansPostedTasksRan
