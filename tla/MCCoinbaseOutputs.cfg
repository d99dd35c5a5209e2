SPECIFICATION CoinbaseSpec
CONSTANTS
    node = node
    fund = fund
    seller = seller
    opA = opA
    opB = opB
    opC = opC
    Pool = Pool
    NoPayee = NoPayee
    Payees = {node, fund, seller, opA, opB, opC}
    Invalid = {opB}
    Templates <- MCTemplates
    Fees <- MCFees
INVARIANTS
    ValueIsConserved
    FeeIsAdvertised
    NoNegativeOutput
CHECK_DEADLOCK FALSE
