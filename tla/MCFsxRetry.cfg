CONSTANTS
    a = a
    b = b
    d = d
    Files = {a, b}
    Payloads = {d}
    Foreign = foreign
    Plans <- Copies
    Retried <- Copies
    Policies = {"Overwrite"}
    FailFast = {TRUE}
    Modes = {"BestEffort"}
    NoJournal = NoJournal
    NoPath = NoPath
    TornWrites = FALSE
    MaxRuns = 1
    MaxFaults = 0
    MaxCrashes = 1
    MaxForeign = 0
SPECIFICATION Spec
INVARIANTS
    RecoveredRestores
CHECK_DEADLOCK FALSE
