SPECIFICATION FairSpec
CONSTANTS
    t1 = t1
    a2 = a2
    a3 = a3
    a4 = a4
    a5 = a5
    b2 = b2
    b3 = b3
    b4 = b4
    b5 = b5
    d3 = d3
    d4 = d4
    d5 = d5
    shared = shared
    Blocks = {t1, a2, a3, a4, a5, b2, b3, b4, b5, d3, d4, d5}
    HeightOf <- Heights
    Base = 101
    Ancestors <- Chains
    TxsOf <- Transactions
    Roots = {t1}
    NoBlock = NoBlock
    SaveEvery = 2
    MaxDepth = 2
    MaxReorgs = 2
    LastFork = 103
    MaxFaults = 1
    Faults = {"crash", "stop", "rpc_error", "query_error"}
INVARIANTS
    NoForkLeftBehind
    RemovedIsRecorded
PROPERTIES
    StaleIsRemoved
    IndexCatchesUp
