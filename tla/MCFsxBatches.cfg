CONSTANTS
    a = a
    b = b
    d = d
    Files = {a, b}
    Payloads = {d}
    Foreign = foreign
    Plans <- Distinct
    Retried <- Writes
    Policies = {"Overwrite"}
    FailFast = {TRUE, FALSE}
    Modes = {"BestEffort", "Strict"}
    NoJournal = NoJournal
    NoPath = NoPath
    TornWrites = TRUE
    MaxRuns = 1
    MaxFaults = 1
    MaxCrashes = 2
    MaxForeign = 1
SPECIFICATION MCSpec
INVARIANTS
    UndoNeverStuck
    RolledBackRestores
    RecoveredRestores
    ContentsSurvive
    NoStagingLeft
PROPERTIES
    ImplementsAtomicBatch
    ForeignSurvives
CHECK_DEADLOCK FALSE
