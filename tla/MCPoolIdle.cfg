CONSTANTS
    Producers = {p1}
    Workers = {w1}
    Waiters = {i1}
    Sched = sched
    Owner = owner
    PostTasks = {}
    DelayedTasks = {d1}
    PeriodicTasks = {}
    UsedPriorities = {"Normal"}
    Task <- AllTasks
    NoTask = NoTask
    Capacity = 1
    SpawnMayFail = FALSE
    MaxStarts = 1
    MaxRescheduled = 0
SPECIFICATION Spec
PROPERTIES
    IdleIncludesScheduledTasks
