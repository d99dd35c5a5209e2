SPECIFICATION FairSpec
CONSTANTS
    w1 = w1
    w2 = w2
    c1 = c1
    c2 = c2
    b1 = b1
    b2 = b2
    Workers = {w1, w2}
    Resolvable = {w1}
    Cycles = {c1}
    CommandsFile = CommandsFile
    Blocks = {b1, b2}
    HeightOf <- HeightsDistinct
    RoundHashes <- TwoHashes
    MinPayment = 500
    Threshold = 700
    MaxRetries = 2
    BlockReward = 1200
    InitialFunds = 0
    NetworkFees = {1, 100}
    MaxReorgs = 2
    Faults = {"setup_error", "batch_error", "odd_tx", "lookup_error", "balance_error", "send_refused", "redis_error", "crash", "reply_lost"}
INVARIANTS
    CreditExact
    PaidIsDeducted
    FundsConserved
PROPERTIES
    KeepsTheLedger
    MaturedIsCredited
    LostIsFiled
    FundsReachMiners
