SPECIFICATION FairSpec
CONSTANTS
    r1 = r1
    r2 = r2
    m = m
    x = x
    addr = addr
    other = other
    junk = junk
    Workers = {r1, r2, m, x}
    AddressOf <- RigAddress
    Payable = {addr, other}
    Debts <- MixedDebts
    Wallets = {0, 1800, 4200, 20000}
    NetworkFees = {2, 60}
    MinPayment = 1000
    Threshold = 3000
    MaxRetries = 5
INVARIANTS
    StepConserves
    SmallestFirst
    NoIdleFunds
    WithinSpendable
PROPERTIES
    StepEnds
CHECK_DEADLOCK FALSE
