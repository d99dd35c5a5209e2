SPECIFICATION Spec
CONSTANTS
    w1 = w1
    w2 = w2
    c1 = c1
    c2 = c2
    b1 = b1
    b2 = b2
    Workers = {w1, w2}
    Resolvable = {w1}
    Cycles = {c1, c2}
    CommandsFile = CommandsFile
    Blocks = {b1}
    HeightOf <- OneHeight
    RoundHashes <- TwoHashes
    MinPayment = 500
    Threshold = 700
    MaxRetries = 1
    BlockReward = 1200
    InitialFunds = 1200
    NetworkFees = {1}
    MaxReorgs = 2
    Faults = {"odd_tx", "balance_error", "redis_error", "crash", "early_restart", "reload"}
INVARIANTS
    FiledOnce
    ConfirmedMatured
CHECK_DEADLOCK FALSE
