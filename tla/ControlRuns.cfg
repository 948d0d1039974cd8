SPECIFICATION FairControlSpec
CONSTANTS
    Runs <- OneRun
    Workers <- OneWorker
    WorkerOf <- OneWorkerOf
    Executors = {e1, e2}
    WorkerWrites = {"paused"}
    Outcomes = {"completed", "interrupted"}
    Kinds = {"pause_run", "resume_run", "interrupt_run", "max_duration", "stop_run", "terminate_worker", "pause_worker", "resume_worker", "idle", "needs_input", "paused"}
    MaxAttempts = 2
    MaxTokens = 2
    w1 = w1
    e1 = e1
    e2 = e2
INVARIANTS
    LedgerInv
    ReleaseFindsIdle
PROPERTIES
    PausedStaysPaused
    StopSettles
CHECK_DEADLOCK FALSE
