----------------------------- MODULE PoolLedger -----------------------------
(***************************************************************************)
(* What the payment processor promises the miners, without its cycles,     *)
(* its reads and its failures: a ledger of blocks, shares and debts, kept  *)
(* in one step at a time.                                                  *)
(*                                                                         *)
(* A block is found with the shares of its round.  In one entry of the     *)
(* ledger some pending blocks are won and credited by those shares, others *)
(* are lost and give them back to the current round, and some of the debt  *)
(* is paid.                                                                *)
(***************************************************************************)
EXTENDS PayoutAllocation

CONSTANTS
    Blocks,       \* the blocks the pool may find
    BlockReward,  \* what each of them pays
    RoundHashes   \* the shares a round of mining may add

VARIABLES
    status,   \* what became of each block
    current,  \* the shares of the current round
    stake,    \* the shares that wait for a pending block
    owed,     \* the debt to each worker
    paid      \* what has been taken off the debts for payments, gross

ledger == <<status, current, stake, owed, paid>>

NothingOwed == [w \in Workers |-> 0]

Init ==
    /\ status = [b \in Blocks |-> "none"]
    /\ current = NoShares
    /\ stake = [b \in Blocks |-> NoShares]
    /\ owed = NothingOwed
    /\ paid = NothingOwed

(* A block is found: its round is over and the next begins.                *)
Find(b) ==
    /\ status[b] = "none"
    /\ status' = [status EXCEPT ![b] = "pending"]
    /\ \E more \in RoundHashes :
          stake' = [stake EXCEPT ![b] = [w \in Workers |-> current[w] + more[w]]]
    /\ current' = NoShares
    /\ UNCHANGED <<owed, paid>>

Credited(won) ==
    [w \in Workers |-> owed[w]
        + SumFunctionOnSet([b \in Blocks |-> RewardSplit(BlockReward, stake[b])[w]],
                           won)]

PaidNow(w) == paid'[w] - paid[w]

(* Nobody loses a debt but by being paid, or by giving all of a large one  *)
(* to others.                                                              *)
KeepsDebt(w, due)  == owed'[w] + PaidNow(w) >= due[w]
GivesDebt(w, due)  == owed'[w] = 0 /\ PaidNow(w) = 0 /\ due[w] >= Threshold

(* Debts are paid from what is owed, in no small amounts; none goes below  *)
(* zero, and together they stay what they were.                            *)
Settles(due) ==
    /\ owed' \in [Workers -> Int]
    /\ \A w \in Workers :
          /\ owed'[w] >= 0
          /\ PaidNow(w) = 0 \/ PaidNow(w) >= MinPayment
          /\ KeepsDebt(w, due) \/ GivesDebt(w, due)
    /\ SumOver(owed') + SumOver(paid') = SumOver(due) + SumOver(paid)

Enter(won, lost) ==
    /\ \A b \in won \cup lost : status[b] = "pending"
    /\ won \cap lost = {}
    /\ status' = [b \in Blocks |-> IF b \in won THEN "won"
                                   ELSE IF b \in lost THEN "lost" ELSE status[b]]
    /\ current' = [w \in Workers |-> current[w]
                      + SumFunctionOnSet([b \in Blocks |-> stake[b][w]], lost)]
    /\ stake' = [b \in Blocks |-> IF b \in won \cup lost THEN NoShares ELSE stake[b]]
    /\ Settles(Credited(won))

Next == \/ \E b \in Blocks : Find(b)
        \/ \E won, lost \in SUBSET Blocks : Enter(won, lost)

Spec == Init /\ [][Next]_ledger

=============================================================================
