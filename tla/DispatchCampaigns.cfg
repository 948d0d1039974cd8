SPECIFICATION CampaignSpec
CONSTANTS
    Runs <- TwoRuns
    Workers <- OneWorker
    WorkerOf <- OneWorkerOf
    Executors = {e1}
    WorkerWrites = {"ready", "starting", "paused", "needs_input"}
    Outcomes = {"completed", "failed", "interrupted", "cancelled"}
    Kinds = {}
    MaxAttempts = 2
    MaxTokens = 2
    Threads = {t1, t2}
    Self = e1
    Faults = {"capacity", "needs_input", "unconfirmed"}
    Launched = {1, 2}
    MaxGens = 2
    MaxImages = 2
    MaxOutages = 1
    w1 = w1
    e1 = e1
    t1 = t1
    t2 = t2
SYMMETRY ThreadSymmetry
INVARIANTS
    ProcessesExclusive
    ClosedIsQuiet
    CleanRoomHolds
CHECK_DEADLOCK FALSE
