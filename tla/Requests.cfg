SPECIFICATION RequestsSpec
CONSTANTS
    one = one
    two = two
    clrk = clrk
    Keys = {1, 2}
    Mixes <- AllMixes
    Executors = {one, two}
    FirstStates = {"queued", "running", "failed"}
    MaxOps = 2
    MaxMishaps = 1
    SlowExecutors = TRUE
    Flows <- Mixed
    Clerks = {clrk}
    Preferred = TRUE
    MaxTrouble = 2
    Environments <- ThreeEnvironments
    Threads = {1}
    MaxControls = 2
    MaxTime = 1
    MaxRuns = 1
    MaxArtifacts = 2
    MaxTtl = 1
INVARIANTS WorkOnceAndTrue WorkStoppedIsEmpty AccountUsedOnce FaultsExact
SYMMETRY Processes
CHECK_DEADLOCK FALSE
