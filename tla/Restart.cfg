SPECIFICATION FairRsSpec
CONSTANTS
    Adoptions = {TRUE, FALSE}
    MaxAttempts = 4
    MaxRestarts = 2
    MaxFaults = 1
INVARIANTS OneGeneration ResultIsFresh
PROPERTIES RunSettles ArmedIsApplied
CHECK_DEADLOCK FALSE
