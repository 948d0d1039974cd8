SPECIFICATION FairOutboxSpec
CONSTANTS
    Runs = {r1}
    Notices = {}
    Senders = {s1}
    Emitters = {e1}
    Contracts = {1, 2}
    Usable = {2}
    Tries = 2
    MaxTotal = 2
    MaxRecoveries = 1
    MaxFaults = 1
PROPERTIES
    ResultArrives
CHECK_DEADLOCK FALSE
