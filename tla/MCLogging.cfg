SPECIFICATION Spec
CONSTANTS
    p1 = p1
    p2 = p2
    f1 = f1
    Producers = {p1, p2}
    Flushers = {f1}
    Configs <- ToGrouping
    FirstConfig <- Mixed
    Scripts <- MCScripts
    OutputKinds <- OnlyFile
    LevelSinks = {5}
    MaxGen = 1
    GroupLimit = 2
INVARIANTS
    Backpressure
    LinesReachSinks
PROPERTIES
    LoggerProgress
CHECK_DEADLOCK FALSE
