------------------------------ MODULE PayoutStep ------------------------------
(***************************************************************************)
(* The fourth step of a payment cycle by itself, callback by callback      *)
(* (patches/unomp-pool/libs/paymentProcessor.js lines 387-626): the        *)
(* address lookups answer in any order, large debts without an address are *)
(* redistributed, the spendable balance arrives, and sendmany is tried     *)
(* again with a growing fee until it is accepted or given up.              *)
(*                                                                         *)
(* A behaviour is one run of the step, from any debts and any wallet of    *)
(* the instance.  PaymentProcessor takes the same step in fewer actions,   *)
(* with everything that can happen around it.                              *)
(***************************************************************************)
EXTENDS PayoutAllocation

CONSTANTS
    Debts,        \* the <<balance, reward>> pairs a worker may come with
    Wallets,      \* the spendable balances of the wallet
    NetworkFees,  \* what the network may ask for a batch
    AddressOf,    \* getProperAddress: "address.rig" -> "address"
    Payable       \* the addresses the wallet recognises

ASSUME StepAssumption ==
    /\ Debts \subseteq Nat \X Nat
    /\ Wallets \subseteq Nat
    /\ NetworkFees \subseteq Nat
    /\ DOMAIN AddressOf = Workers

VARIABLES
    pc,              \* "lookup", "balance", "send", "done"
    answered,        \* workers whose getaddressinfo has been answered
    validResults,    \* the workers with an address, as a sequence
    balance, reward, \* worker.balance, worker.reward
    owed,            \* res.owed
    spendable,       \* spendableSatoshis
    retry,           \* retryCount
    pendingPayable,  \* worker -> grossAmount
    balanceChange, sent,
    \* outside the step
    wallet, credit,  \* the wallet's funds; the rewards the step started with
    sentGross        \* what the accepted batch took

vars == <<pc, answered, validResults, balance, reward, owed, spendable,
          retry, pendingPayable, balanceChange, sent, wallet, credit, sentGross>>

Zero      == [w \in Workers |-> 0]
Addresses == { AddressOf[w] : w \in Workers }
Valid     == Range(validResults)

Init ==
    /\ pc = "lookup"
    /\ answered = {}
    /\ validResults = << >>
    /\ \E debt \in [Workers -> Debts] :
        /\ balance = [w \in Workers |-> debt[w][1]]
        /\ reward = [w \in Workers |-> debt[w][2]]
    /\ credit = reward
    /\ owed = [w \in Workers |-> balance[w] + reward[w]]
    /\ spendable = 0
    /\ retry = 0
    /\ pendingPayable = Zero
    /\ balanceChange = Zero
    /\ sent = Zero
    /\ wallet \in Wallets
    /\ sentGross = Zero

-----------------------------------------------------------------------------
(* Mutant: the callback of a failed lookup is never called.                *)
GoodResults(w) ==
    IF AddressOf[w] \in Payable THEN {Append(validResults, w)} ELSE {}

(* What the lookup of w adds to validResults: the address, an error for a  *)
(* string that is none, or an error of the call itself.                    *)
Results(w) ==
    {validResults} \cup
        (IF AddressOf[w] \in Payable THEN {Append(validResults, w)} ELSE {})

LookupAnswered(w) ==
    /\ pc = "lookup"
    /\ w \notin answered
    /\ answered' = answered \cup {w}
    /\ answered' # Workers
    /\ validResults' \in Results(w)
    /\ UNCHANGED <<pc, balance, reward, owed, spendable, retry,
                   pendingPayable, balanceChange, sent, wallet, credit, sentGross>>

(* pool = validResults.slice(0, min(3, length)) *)
RecipientPool(results) ==
    Range(SubSeq(results, 1, IF Len(results) < 3 THEN Len(results) ELSE 3))

(* Array.prototype.sort keeps equal debts in the order they had. *)
StableSort(results, amount) ==
    { order \in AscendingOrders(Range(results), amount) :
        \A i, j \in 1..Len(order) :
            i < j /\ amount[order[i]] = amount[order[j]]
                => Place(results, order[i]) < Place(results, order[j]) }

(* The last answer: redistribute, sort, ask for the spendable balance.     *)
LastLookupAnswered(w) ==
    /\ pc = "lookup"
    /\ answered' = answered \cup {w}
    /\ w \notin answered
    /\ answered' = Workers
    /\ \E results \in Results(w) :
        \E to \in [Donors(Range(results), owed) -> RecipientPool(results)] :
            LET gain  == [v \in Workers |-> Absorbed(v, to, owed)]
                debt  == [v \in Workers |-> owed[v] + gain[v]]
            IN  /\ reward' = [v \in Workers |-> reward[v] + gain[v]]
                /\ owed' = debt
                /\ validResults' \in StableSort(results, debt)
                /\ balanceChange' = [v \in Workers |->
                      IF v \in DOMAIN to THEN -balance[v]
                      ELSE IF v \in Range(results) THEN 0 ELSE reward[v]]
    /\ pc' = "balance"
    /\ UNCHANGED <<balance, spendable, retry, pendingPayable, sent, wallet, credit,
                   sentGross>>

(* Mutant: a deferred worker is not credited its reward.                   *)
DeferUncredited(ws) ==
    balanceChange' = [w \in Workers |-> IF w \in ws THEN 0 ELSE balanceChange[w]]

(* worker.balanceChange = worker.reward for a set of workers.              *)
Defer(ws) ==
    balanceChange' = [w \in Workers |-> IF w \in ws THEN reward[w] ELSE balanceChange[w]]

(* attempt(retryCount): allocate from the reported balance; the workers    *)
(* that get nothing are deferred; with nobody to pay the step is over.     *)
Attempt(retryCount, reported) ==
    LET amounts == GrossAmounts(validResults, owed,
                                RemainingBefore(validResults, owed, reported))
    IN  /\ retry' = retryCount
        /\ pendingPayable' = amounts
        /\ Defer({ w \in Valid : amounts[w] = 0 })
        /\ pc' = IF amounts = Zero THEN "done" ELSE "send"

BalanceAnswered ==
    /\ pc = "balance"
    /\ spendable' = wallet
    /\ Attempt(0, wallet)
    /\ UNCHANGED <<answered, validResults, balance, reward, owed, sent,
                   wallet, credit, sentGross>>

BalanceFailed ==
    /\ pc = "balance"
    /\ pc' = "done"
    /\ Defer(Valid)
    /\ UNCHANGED <<answered, validResults, balance, reward, owed,
                   spendable, retry, pendingPayable, sent, wallet, credit, sentGross>>

(* One amount per address, the sum over its workers.                       *)
AddressAmounts ==
    [a \in Addresses |->
        SumFunctionOnSet([w \in Workers |-> NetAmount(pendingPayable[w], retry)],
                         { w \in Valid : AddressOf[w] = a })]

BatchAmount == SumFunctionOnSet(AddressAmounts, Addresses)

Paid == { w \in Valid : pendingPayable[w] # 0 }

SendAccepted ==
    /\ pc = "send"
    /\ \E fee \in NetworkFees :
        /\ BatchAmount + fee <= wallet
        /\ wallet' = wallet - BatchAmount - fee
    /\ sentGross' = pendingPayable
    /\ sent' = [w \in Workers |-> IF w \in Paid
                                  THEN NetAmount(pendingPayable[w], retry) ELSE sent[w]]
    /\ balanceChange' = [w \in Workers |-> IF w \in Paid
                            THEN reward[w] - pendingPayable[w] ELSE balanceChange[w]]
    /\ pc' = "done"
    /\ UNCHANGED <<answered, validResults, balance, reward, owed,
                   spendable, retry, pendingPayable, credit>>

Insufficient == pc = "send" /\ \E fee \in NetworkFees : BatchAmount + fee > wallet

SendRetried ==
    /\ Insufficient
    /\ retry < MaxRetries
    /\ Attempt(retry + 1, spendable)
    /\ UNCHANGED <<answered, validResults, balance, reward, owed,
                   spendable, sent, wallet, credit, sentGross>>

(* Given up after MAX_RETRIES, or refused for another reason.              *)
SendDeferred ==
    /\ pc = "send"
    /\ pc' = "done"
    /\ Defer(Paid)
    /\ UNCHANGED <<answered, validResults, balance, reward, owed,
                   spendable, retry, pendingPayable, sent, wallet, credit, sentGross>>

Next ==
    \/ \E w \in Workers : LookupAnswered(w) \/ LastLookupAnswered(w)
    \/ BalanceAnswered \/ BalanceFailed
    \/ SendAccepted \/ SendRetried \/ SendDeferred

Spec == Init /\ [][Next]_vars

(* Every call of the step is answered. *)
FairSpec == Spec /\ WF_vars(Next)

-----------------------------------------------------------------------------
TypeOK ==
    /\ pc \in {"lookup", "balance", "send", "done"}
    /\ answered \subseteq Workers
    /\ validResults \in Seq(Workers)
    /\ retry \in 0..MaxRetries
    /\ \A f \in {balance, reward, owed, pendingPayable, sent, credit, sentGross} :
          f \in [Workers -> Nat]
    /\ balanceChange \in [Workers -> Int]
    /\ wallet \in Nat /\ spendable \in Nat

(* Lines 405-418 and 466-474: whatever path the step takes, the changes it *)
(* leaves for Redis and what it sent add up to the rewards it was given:   *)
(* moving a debt, deferring and paying in part lose nothing.               *)
StepConserves ==
    pc = "done" => SumOver(balanceChange) + SumOver(sentGross) = SumOver(credit)

(* Lines 405-412 and 546-553: a worker is paid only if every worker that   *)
(* is owed less, and at least the minimum, is paid in full.                *)
SmallestFirst ==
    \A u, v \in Valid :
        /\ MinPayment <= owed[u]
        /\ owed[u] < owed[v]
        /\ pendingPayable[v] > 0
        => pendingPayable[u] = owed[u]

(* Lines 405-413: no large debt keeps the others from being paid: a batch  *)
(* leaves less than the minimum payment of the reported balance, or pays   *)
(* every debt that has reached the minimum.                                *)
NoIdleFunds ==
    pc = "send" =>
        \/ spendable - SumOver(pendingPayable) < MinPayment
        \/ \A w \in Valid : owed[w] >= MinPayment => pendingPayable[w] = owed[w]

(* Lines 408-409 and 546: a batch takes no more off the debts than the     *)
(* wallet reported to be spendable, and less is sent than is taken off.    *)
WithinSpendable ==
    pc = "send" => /\ SumOver(pendingPayable) <= spendable
                   /\ BatchAmount < SumOver(pendingPayable)

(* Lines 387-625: however the calls are answered, the step ends.           *)
StepEnds == <>(pc = "done")
=============================================================================
