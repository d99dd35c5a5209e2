SPECIFICATION MergedFairSpec
CONSTANTS
    d1 = d1
    a1 = a1
    a2 = a2
    s1 = s1
    c1 = c1
    u1 = u1
    u2 = u2
    Daemons = {d1}
    Auxes = {a1, a2}
    Shares = {s1}
    Calls = {c1}
    Updates = {u1, u2}
    Easy = {a1}
    Works <- TwoWorks
    LastWork <- FirstMoves
    Network = Network
    NoJob = NoJob
    NoWork = NoWork
    Polling = FALSE
    MaxHeight = 0
    MaxFaults = 1
    Faults = {"aux", "start"}
PROPERTIES
    TakenIsAnnounced
    AuxWorkReachesJob
    ParentUndisturbed
CHECK_DEADLOCK FALSE
