SPECIFICATION PartSpec
CONSTANTS
    Runs <- OneRun
    Workers <- OneWorker
    WorkerOf <- OneWorkerOf
    Executors = {e1, e2}
    WorkerWrites = {"ready", "paused"}
    Outcomes = {"completed", "failed", "cancelled", "interrupted"}
    MaxAttempts = 2
    MaxTokens = 2
    MaxFaults = 2
    Spaces = {"s", "c"}
    First = {"s"}
    Items <- Versions
    Shelf = {"a1", "d"}
    Stable <- StableOf
    Version <- VersionOf
    Deps <- DepsOf
    Scopes <- ScopesOf
    MaxGrants = 2
    MaxPending = 1
    MaxTurns = 2
    Callers = {1, 2}
    Requests <- AskedFor
    Limit = 1
    Slots = 1
    MaxIds = 2
    Copiers = {1, 2, 3}
    Files = 2
    MaxSlips = 2
    w1 = w1
    e1 = e1
    e2 = e2
INVARIANTS
    TypeOK
    LeaseFencesCurrentAttempt
    TerminalReleasesExecution
    CopiedOnceAndWhole
    AdmittedOnce
PROPERTIES
    AttemptNeverReopens
    TerminalAbsorbing
    LibraryExact
CHECK_DEADLOCK FALSE
