SPECIFICATION GateSpec
CONSTANTS
    Runs = {r1, r2, r3}
    Executors = {e1, e2}
    Docker = {r1, r2}
    Pools <- MCPools
    Memory = 1
    Headroom = 0
    Adopt = TRUE
    MaxFaults = 1
    LaneLimit = 2
    Single = {r1, r3}
    Missions = {1, 2}
    Conversations = {2}
    Handlers = {t1, t2}
    Cooldowns = {1, 2}
    MaxFailures = 2
    MaxAttempts = 3
    LastTime = 1
INVARIANTS
    AdmittedWithinLimits
PROPERTIES
    CircuitsRouteOnce
SYMMETRY Interchangeable
CHECK_DEADLOCK FALSE
