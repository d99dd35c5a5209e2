SPECIFICATION FairSpec
CONSTANTS
    d1 = d1
    d2 = d2
    s1 = s1
    s2 = s2
    c1 = c1
    c2 = c2
    Daemons = {d1, d2}
    Auxes = {}
    Shares = {s1}
    Calls = {c1}
    Works = {}
    Network = Network
    NoJob = NoJob
    NoWork = NoWork
    Polling = TRUE
    MaxHeight = 2
    MaxFaults = 1
    Faults = {"start", "notice", "submit", "check", "crash"}
INVARIANTS
    TypeOK
    FoundIsRecorded
PROPERTIES
    BlockIsRecorded
    JobFollowsTip
    ServesInTheEnd
CHECK_DEADLOCK FALSE
