SPECIFICATION ControlSpec
CONSTANTS
    Runs <- TwoRuns
    Workers <- OneWorker
    WorkerOf <- OneWorkerOf
    Executors = {e1}
    WorkerWrites = {}
    Outcomes = {"completed"}
    Kinds = {"stop_run", "steer_run"}
    MaxAttempts = 1
    MaxTokens = 1
    w1 = w1
    e1 = e1
    e2 = e2
INVARIANTS
    WorkerExclusive
    StopAndSteerHold
CHECK_DEADLOCK FALSE
