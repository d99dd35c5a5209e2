-------------------------- MODULE PayoutAllocation --------------------------
(***************************************************************************)
(* The arithmetic of one payment cycle of the pool's payment processor     *)
(* (patches/unomp-pool/libs/paymentProcessor.js), as operators: how a      *)
(* matured block's reward is split over the shares of its round, and how   *)
(* much of what each worker is owed one sendmany pays, smallest first, out *)
(* of the wallet's spendable balance, with the withheld network fee.       *)
(*                                                                         *)
(* Amounts are integers, as the code keeps them ("deal with numbers in     *)
(* smallest possible units", line 160).                                    *)
(***************************************************************************)
EXTENDS Integers, Sequences, FiniteSets, Functions

CONSTANTS
    Workers,      \* worker keys, "address.workername"
    MinPayment,   \* minPaymentSatoshis: paymentProcessing.minimumPayment
    Threshold,    \* REDISTRIBUTE_THRESHOLD_SATOSHIS: 100 coins
    MaxRetries    \* MAX_RETRIES: 5

ASSUME PayoutAssumption ==
    /\ IsFiniteSet(Workers)
    /\ MinPayment \in Nat \ {0}
    /\ Threshold \in Nat \ {0}
    /\ MaxRetries \in Nat

(* A share hash of Redis, "shares:round<height>": worker -> shares.  A     *)
(* hash without fields is a key that does not exist.                       *)
ShareHash == [Workers -> Nat]
NoShares  == [w \in Workers |-> 0]

SumOver(f) == SumFunctionOnSet(f, Workers)

-----------------------------------------------------------------------------
(* The reward of a matured block, split over the shares of its round.      *)
RewardSplit(amount, shares) ==
    LET total == SumOver(shares)
    IN  [w \in Workers |-> IF shares[w] = 0 THEN 0
                                            ELSE (amount * shares[w]) \div total]

(* What the n-th resend of a batch withholds for the network fee: 0.1%,    *)
(* doubled on every retry; and what is left of a gross amount to send.     *)
WithheldPermille(retry) == 2 ^ retry

ASSUME FeeAssumption ==
    \A retry \in 0..MaxRetries : WithheldPermille(retry) \in 1..1000

NetAmount(gross, retry) == (gross * (1000 - WithheldPermille(retry))) \div 1000

(* Mutant: a debt is paid in full or not at all.                           *)
AllOrNothing(owed, remaining) ==
    IF owed < MinPayment \/ owed > remaining THEN 0 ELSE owed

(* The part of a debt the next payment of a batch takes out of what is     *)
(* left of the spendable balance: nothing below the minimum payment.       *)
GrossAmount(owed, remaining) ==
    LET available == IF remaining > 0 THEN remaining ELSE 0
        gross     == IF owed < available THEN owed ELSE available
    IN  IF owed < MinPayment \/ gross < MinPayment THEN 0 ELSE gross

(* Mutant: the comparison of the sort is the wrong way round.              *)
DescendingOrders(valid, owed) ==
    { order \in [1..Cardinality(valid) -> valid] :
        \A i, j \in 1..Cardinality(valid) :
            i < j => order[i] # order[j] /\ owed[order[i]] >= owed[order[j]] }

(* validResults after the sort: the resolvable workers, ascending by what  *)
(* they are owed; equal debts stay in the order their lookups returned,    *)
(* which is any order.                                                     *)
AscendingOrders(valid, owed) ==
    { order \in [1..Cardinality(valid) -> valid] :
        \A i, j \in 1..Cardinality(valid) :
            i < j => order[i] # order[j] /\ owed[order[i]] <= owed[order[j]] }

(* Mutant: remaining is not reduced by what has been allocated.            *)
NeverReduced(order, owed, spendable) == [i \in 1..(Len(order) + 1) |-> spendable]

(* What is left of the spendable balance before each payment of the batch, *)
(* and after the last.                                                     *)
RemainingBefore(order, owed, spendable) ==
    LET rem[i \in 1..(Len(order) + 1)] ==
            IF i = 1 THEN spendable
            ELSE rem[i - 1] - GrossAmount(owed[order[i - 1]], rem[i - 1])
    IN  rem

(* The place of a worker in the batch. *)
Place(order, w) == CHOOSE i \in 1..Len(order) : order[i] = w

(* The gross amount of every worker: what an attempt takes off its debt.   *)
GrossAmounts(order, owed, remaining) ==
    [w \in Workers |-> IF \E i \in 1..Len(order) : order[i] = w
                       THEN GrossAmount(owed[w], remaining[Place(order, w)])
                       ELSE 0]

-----------------------------------------------------------------------------
(* A worker without a payout address whose debt has reached the threshold  *)
(* gives the whole of it to a worker that has one; recipient[d] is the     *)
(* worker that absorbs what donor d is owed.                               *)
Donors(valid, owed) ==
    IF valid = {} THEN {} ELSE { w \in Workers \ valid : owed[w] >= Threshold }

Absorbed(w, recipient, owed) ==
    SumFunctionOnSet(owed, { d \in DOMAIN recipient : recipient[d] = w })
=============================================================================
