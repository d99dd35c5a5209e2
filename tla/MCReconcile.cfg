SPECIFICATION FairSpec
CONSTANTS
    w1 = w1
    w2 = w2
    b1 = b1
    b2 = b2
    b3 = b3
    Workers = {w1, w2}
    Blocks = {b1, b2, b3}
    HeightOf <- TwoHeights
    Finder <- Finders
    Truncated = {b3}
    Reward = 2
    Splits <- SharedRewards
    NoBlock = NoBlock
    NotAsked = NotAsked
    MaxReorgs = 2
    MaxInterrupts = 1
    Faults = {"rpc_error", "killed", "cycle_ends"}
INVARIANTS
    LedgerTotal
PROPERTIES
    DebitedForCause
    PhantomIsMoved
