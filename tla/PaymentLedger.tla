---------------------------- MODULE PaymentLedger ----------------------------
(* The payment processor keeps the ledger of PoolLedger: the refinement    *)
(* mapping, from what Redis holds.                                         *)
EXTENDS PaymentProcessor

StatusInRedis ==
    [b \in Blocks |-> IF b \in blocksPending THEN "pending"
                      ELSE IF b \in blocksConfirmed THEN "won"
                      ELSE IF b \in blocksOrphaned THEN "lost" ELSE "none"]

StakeInRedis ==
    [b \in Blocks |-> IF b \in blocksPending THEN roundShares[HeightOf[b]]
                                             ELSE NoShares]

Ledger == INSTANCE PoolLedger WITH
    status  <- StatusInRedis,
    current <- roundCurrent,
    stake   <- StakeInRedis,
    owed    <- balances,
    paid    <- deducted

(* A payment cycle is one entry of the ledger, whatever fails in it and    *)
(* wherever the process ends: lines 634 to 714 write the blocks, shares,   *)
(* balances and payouts of a cycle in one MULTI, from what lines 163 to    *)
(* 621 have read and computed many callbacks before.                       *)
KeepsTheLedger == Ledger!Spec

=============================================================================
