--------------------------- MODULE CoinbaseOutputs ---------------------------
(***************************************************************************)
(* How a block's reward is split: SetupRecipients of                       *)
(* patches/merged-pooler/lib/pool.js (337-362) turns the configured fees   *)
(* into recipients, and generateOutputTransactions of lib/transactions.js  *)
(* (126-253) writes the outputs of the generation transaction, one after   *)
(* the other: masternodes, superblock, payee, recipients, and in front of  *)
(* them the pool, which gets what is left.                                 *)
(*                                                                         *)
(* Amounts are integers, as in the code.  A fee is a floating point        *)
(* fraction there; here it is in percent, and its product with the reward  *)
(* may come out just below a whole number.  Scripts and serialisation are  *)
(* left out.                                                               *)
(***************************************************************************)
EXTENDS Integers, Sequences, Functions

CONSTANTS
    Payees,     \* who may be paid besides the pool
    Templates,  \* the block templates a daemon may send
    Fees,       \* what options.rewardRecipients may be
    Invalid,    \* the recipients without a valid address
    Pool        \* options.poolAddressScript

(* A template has coinbasevalue, the amounts of the masternodes and of the *)
(* superblock (empty when absent), and a payee (NoPayee when absent) with  *)
(* payee_amount (0 when absent); a fee list has one payee and percentage   *)
(* each.                                                                   *)
CONSTANT NoPayee

Part == [to : Payees, amount : Nat]
ASSUME TemplateAssumption ==
    /\ Templates \subseteq [coinbasevalue : Nat, masternode : Seq(Part),
                            superblock : Seq(Part),
                            payee : Payees \cup {NoPayee}, payee_amount : Nat]
    /\ Fees \subseteq Seq([to : Payees, percent : Nat])
    /\ Pool \notin Payees /\ NoPayee \notin Payees

VARIABLES
    phase,        \* what is written next
    template,     \* rpcData
    configured,   \* the entries of options.rewardRecipients still to be read
    recipients,   \* options.recipients
    feePercent,   \* options.feePercent
    pending,      \* the entries of the list that is being written
    reward,
    rewardToPool,
    outputs       \* txOutputBuffers

coinbaseVars == <<phase, template, configured, recipients, feePercent, pending,
                  reward, rewardToPool, outputs>>

Phase == { "setup", "masternode", "superblock", "recipients", "done" }

Output(to, amount) == [to |-> to, amount |-> amount]

-----------------------------------------------------------------------------
CoinbaseInit ==
    /\ phase = "setup"
    /\ template \in Templates
    /\ configured \in Fees
    /\ recipients = <<>> /\ feePercent = 0
    /\ pending = <<>>
    /\ reward = 0 /\ rewardToPool = 0
    /\ outputs = <<>>

(* Mutant: the fee is added up before the address is looked at.            *)
SetupRecipientCountedFirst ==
    /\ phase = "setup" /\ configured # <<>>
    /\ LET r == Head(configured)
       IN  /\ recipients' = IF r.to \in Invalid THEN recipients
                                                ELSE Append(recipients, r)
           /\ feePercent' = feePercent + r.percent
    /\ configured' = Tail(configured)
    /\ UNCHANGED <<phase, template, pending, reward, rewardToPool, outputs>>

(* One turn of SetupRecipients: an address that cannot be converted throws *)
(* before the recipient is stored and counted.                             *)
SetupRecipient ==
    /\ phase = "setup" /\ configured # <<>>
    /\ LET r == Head(configured)
       IN  IF r.to \in Invalid THEN UNCHANGED <<recipients, feePercent>>
           ELSE /\ recipients' = Append(recipients, r)
                /\ feePercent' = feePercent + r.percent
    /\ configured' = Tail(configured)
    /\ UNCHANGED <<phase, template, pending, reward, rewardToPool, outputs>>

(* Lines 128 to 131.                                                       *)
Begin ==
    /\ phase = "setup" /\ configured = <<>>
    /\ phase' = "masternode"
    /\ pending' = template.masternode
    /\ reward' = template.coinbasevalue
    /\ rewardToPool' = template.coinbasevalue
    /\ UNCHANGED <<template, configured, recipients, feePercent, outputs>>

(* Mutant: the deduction is taken off the reward only.                     *)
DeductFromReward(amount) == reward' = reward - amount /\ UNCHANGED rewardToPool

(* What masternodes, superblock and payee get comes off both.              *)
Deduct(amount) == /\ reward' = reward - amount
                  /\ rewardToPool' = rewardToPool - amount

(* Lines 135 to 172 and 174 to 196: one entry of either list.              *)
PayPart ==
    /\ phase \in {"masternode", "superblock"} /\ pending # <<>>
    /\ Deduct(Head(pending).amount)
    /\ outputs' = Append(outputs, Head(pending))
    /\ pending' = Tail(pending)
    /\ UNCHANGED <<phase, template, configured, recipients, feePercent>>

Superblock ==
    /\ phase = "masternode" /\ pending = <<>>
    /\ phase' = "superblock"
    /\ pending' = template.superblock
    /\ UNCHANGED <<template, configured, recipients, feePercent, reward,
                   rewardToPool, outputs>>

(* Lines 202 to 206: an amount of zero is no amount, and a fifth of what   *)
(* is left is paid, rounded up.                                            *)
PayeeReward == IF template.payee_amount # 0 THEN template.payee_amount
                                            ELSE (reward + 4) \div 5

(* Lines 199 to 217.                                                       *)
PayPayee ==
    /\ phase = "superblock" /\ pending = <<>>
    /\ phase' = "recipients"
    /\ pending' = recipients
    /\ IF template.payee = NoPayee THEN UNCHANGED <<reward, rewardToPool, outputs>>
       ELSE /\ Deduct(PayeeReward)
            /\ outputs' = Append(outputs, Output(template.payee, PayeeReward))
    /\ UNCHANGED <<template, configured, recipients, feePercent>>

(* Mutant: a fee is rounded up.                                            *)
RoundedUp(percent) == { (percent * reward + 99) \div 100 }

(* Math.floor(percent * reward): a product that is a whole number may be   *)
(* represented just below it.                                              *)
RecipientReward(percent) ==
    LET exact == percent * reward
    IN  IF exact % 100 = 0 /\ exact > 0 THEN {exact \div 100, exact \div 100 - 1}
                                        ELSE {exact \div 100}

(* Lines 221 to 230.                                                       *)
PayRecipient ==
    /\ phase = "recipients" /\ pending # <<>>
    /\ \E amount \in RecipientReward(Head(pending).percent) :
          /\ rewardToPool' = rewardToPool - amount
          /\ outputs' = Append(outputs, Output(Head(pending).to, amount))
    /\ pending' = Tail(pending)
    /\ UNCHANGED <<phase, template, configured, recipients, feePercent, reward>>

(* Lines 233 to 251.  A witness commitment, when there is one, comes before *)
(* it with an amount of 0 and is left out.                                 *)
PayPool ==
    /\ phase = "recipients" /\ pending = <<>>
    /\ phase' = "done"
    /\ outputs' = <<Output(Pool, rewardToPool)>> \o outputs
    /\ UNCHANGED <<template, configured, recipients, feePercent, pending,
                   reward, rewardToPool>>

CoinbaseNext == SetupRecipient \/ Begin \/ PayPart \/ Superblock \/ PayPayee
                \/ PayRecipient \/ PayPool

CoinbaseSpec == CoinbaseInit /\ [][CoinbaseNext]_coinbaseVars

-----------------------------------------------------------------------------
Amounts(entries) == [i \in DOMAIN entries |-> entries[i].amount]

Total(entries) == SumFunction(Amounts(entries))

(* The recipients are paid last.                                           *)
LastPlaces(entries, n) == {i \in DOMAIN entries : i > Len(entries) - n}
LastSum(entries, n) == SumFunctionOnSet(Amounts(entries), LastPlaces(entries, n))

(* The outputs and what the pool is still to get make up coinbasevalue at  *)
(* every point of generateOutputTransactions, whatever parts a template    *)
(* has: the finished transaction neither loses nor claims a satoshi.       *)
ValueIsConserved ==
    phase # "setup" =>
        Total(outputs) + (IF phase = "done" THEN 0 ELSE rewardToPool)
            = template.coinbasevalue

(* The fee that the pool announces at its start (pool.js 131) is what its  *)
(* recipients get of the reward after the deductions, less at most one     *)
(* satoshi each, also when some of the configured addresses are not valid. *)
FeeIsAdvertised ==
    phase = "done" =>
        LET paid == LastSum(outputs, Len(recipients))
        IN  /\ paid * 100 <= feePercent * reward
            /\ paid * 100 >= feePercent * reward - 100 * Len(recipients)

(* With fees of at most 100 percent and deductions within the value of the *)
(* block, no output is negative: packInt64LE would write a huge amount.    *)
NoNegativeOutput ==
    (phase = "done" /\ feePercent <= 100
       /\ Total(template.masternode) + Total(template.superblock)
             + template.payee_amount <= template.coinbasevalue)
    => \A i \in DOMAIN outputs : outputs[i].amount >= 0

=============================================================================
