SPECIFICATION MCSpec
CONSTANTS
    Tasks = {t1, t2}
    OwnTokens = {t1}
    Waiters = {w1, w2}
    MaxWaits = 2
    p1 = p1
    q1 = q1
    sched = sched
    owner = owner
    a1 = a1
    d1 = d1
    noTask = noTask
INVARIANTS
    OutcomesAgree
PROPERTIES
    WaitClassifiesUnheld
    WaitReturns
    PoolProgress
CHECK_DEADLOCK FALSE
