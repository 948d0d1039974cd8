SPECIFICATION FairWsSpec
CONSTANTS
    a = a
    b = b
    Replayers = {a, b}
    Collectors = {a, b}
    Clients = {b}
    MaxRuns = 1
    MaxTrouble = 1
    Parallel = TRUE
INVARIANTS AnnouncedAfterRevocation
PROPERTIES CollectedIsRemoved TerminationTakesEffect
CHECK_DEADLOCK FALSE
