SPECIFICATION FairSchedSpec
CONSTANTS
    Definitions = {d1}
    Jobs = {}
    Tokens = {1}
    Threads = {t1}
    MaxTime = 1
    Policy = "skip"
    Window = 2
    OverlapSkip = TRUE
    UserLimit = 1
    MaxEvents = 2
INVARIANTS
PROPERTIES
    EndedStaysEnded
    ClaimResolves
CHECK_DEADLOCK FALSE
