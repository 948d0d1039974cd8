SPECIFICATION DeliverySpec
CONSTANTS
    Runs = {r1}
    Notices = {"started"}
    Senders = {s1, s2}
    Emitters = {e1}
    Contracts = {1}
    Usable = {1}
    Tries = 1
    MaxTotal = 2
    MaxRecoveries = 1
    MaxFaults = 1
    Passes = {s1, s2}
    MaxAttempts = 2
    MaxWaits = 2
    MaxRefreshes = 2
    Procs = {s1, s2}
    RunOf <- OneRunOf
    Ops = {"pause"}
    MaxGen = 2
    Stubborn = {1}
    MaxControls = 1
    MaxCrashes = 1
    MaxMishaps = 1
SYMMETRY Symmetry
INVARIANTS
    RowsAreTrue
    NoticesTrue
    StopsExact
PROPERTY ImplementsReceipt
CHECK_DEADLOCK FALSE
