SPECIFICATION FairProviderSpec
CONSTANTS
    Requests = {q1, q2}
    Base = {q1}
    Armed = {q1}
    Family <- MCFamily
    Turn <- MCTurn
    MaxRuns = 2
    MaxFaults = 1
INVARIANTS
    OneAuthor
PROPERTIES
    StopHolds
    SettlesOrOrphaned
CHECK_DEADLOCK FALSE
