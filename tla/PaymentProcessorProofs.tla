----------------------- MODULE PaymentProcessorProofs -----------------------
(***************************************************************************)
(* What holds of the payment processor for any number of payment cycles    *)
(* under way at once, any faults, and any workers, blocks and amounts:     *)
(* every variable keeps its type, every block is in one list, and rewards  *)
(* come from matured coinbases only.  Then, for a processor of one cycle   *)
(* at a time: every block is credited once, money is neither made nor      *)
(* lost, and every step is one of PoolLedger or none.                      *)
(*                                                                         *)
(* The lemmas about the arithmetic of a payment cycle come first.          *)
(* PayoutStepProofs proves those it needs itself: PayoutStep has variables *)
(* of the same names as this module's.                                     *)
(***************************************************************************)
EXTENDS PaymentLedger, SumLemmas

-----------------------------------------------------------------------------
LEMMA NetAmountType ==
    ASSUME NEW g \in Nat, NEW r \in 0..MaxRetries
    PROVE  NetAmount(g, r) \in Nat
<1> DEFINE k == 1000 - WithheldPermille(r)
<1>0. WithheldPermille(r) \in 1..1000
  BY FeeAssumption
<1>1. k \in Nat
  BY <1>0
<1>2. g * k \in Nat
  BY <1>1
<1>3. (g * k) \div 1000 \in Nat
  BY <1>2
<1> QED  BY <1>3 DEF NetAmount

LEMMA GrossAmountType ==
    ASSUME NEW o \in Int, NEW r \in Int
    PROVE  /\ GrossAmount(o, r) \in Nat
           /\ GrossAmount(o, r) > 0 => GrossAmount(o, r) <= o
           /\ GrossAmount(o, r) = 0 \/ GrossAmount(o, r) >= MinPayment
  BY PayoutAssumption DEF GrossAmount

LEMMA SumOverType ==
    ASSUME NEW f
    PROVE  /\ f \in [Workers -> Nat] => SumOver(f) \in Nat
           /\ f \in [Workers -> Int] => SumOver(f) \in Int
<1>1. IsFiniteSet(Workers)
  BY PayoutAssumption
<1>2. ASSUME f \in [Workers -> Nat] PROVE SumFunctionOnSet(f, Workers) \in Nat
  BY <1>1, <1>2, SumNat
<1>3. ASSUME f \in [Workers -> Int] PROVE SumFunctionOnSet(f, Workers) \in Int
  BY <1>1, <1>3, SumInt
<1> QED  BY <1>2, <1>3 DEF SumOver

LEMMA AbsorbedType ==
    ASSUME NEW v \in SUBSET Workers, NEW o \in [Workers -> Int], NEW first,
           NEW recipient \in [Donors(v, o) -> first], NEW w
    PROVE  Absorbed(w, recipient, o) \in Nat
<1> DEFINE from == { d \in DOMAIN recipient : recipient[d] = w }
<1>1. IsFiniteSet(from) /\ \A d \in from : o[d] \in Nat
  <2>1. from \subseteq { d \in Workers : o[d] >= Threshold }
    BY DEF Donors
  <2>2. IsFiniteSet(from)
    BY <2>1, PayoutAssumption, FS_Subset
  <2> QED  BY <2>1, <2>2, PayoutAssumption
<1> HIDE DEF from
<1>2. SumFunctionOnSet(o, from) \in Nat
  BY <1>1, SumNat
<1> QED  BY <1>2 DEF Absorbed, from

(* The order of a batch is a sequence of the valid workers.                *)
LEMMA OrderType ==
    ASSUME NEW v \in SUBSET Workers, NEW o, NEW order \in AscendingOrders(v, o)
    PROVE  Len(order) \in Nat /\ order \in [1..Len(order) -> v]
<1>1. IsFiniteSet(v)
  BY PayoutAssumption, FS_Subset
<1>2. Cardinality(v) \in Nat
  BY <1>1, FS_CardinalityType
<1>3. order \in [1..Cardinality(v) -> v]
  BY DEF AscendingOrders
<1>4. Len(order) = Cardinality(v)
  BY <1>2, <1>3
<1> QED  BY <1>2, <1>3, <1>4

(* Each payment is taken off what was left before it.                      *)
Depletes(rem, order, o, funds) ==
    \A i \in 1..(Len(order) + 1) :
        rem[i] = IF i = 1 THEN funds
                 ELSE rem[i - 1] - GrossAmount(o[order[i - 1]], rem[i - 1])

LEMMA RemainingBeforeDef ==
    ASSUME NEW v \in SUBSET Workers, NEW o \in [Workers -> Int], NEW funds \in Int,
           NEW order, Len(order) \in Nat, order \in [1..Len(order) -> v]
    PROVE  LET rem == RemainingBefore(order, o, funds)
           IN  /\ rem \in [1..(Len(order) + 1) -> Int]
               /\ Depletes(rem, order, o, funds)
<1> DEFINE n == Len(order) + 1
           Next1(i, r) == r - GrossAmount(o[order[i - 1]], r)
           IsRem(f) == f = [i \in 1..n |-> IF i = 1 THEN funds
                                           ELSE Next1(i, f[i - 1])]
           step == [i \in 1..n |-> [r \in Int |-> IF i = 1 THEN 0 ELSE Next1(i, r)]]
<1>1. ASSUME NEW i \in 1..n, i # 1, NEW r \in Int PROVE Next1(i, r) \in Int
  <2>1. order[i - 1] \in Workers
    BY <1>1
  <2>2. GrossAmount(o[order[i - 1]], r) \in Nat
    BY <2>1, GrossAmountType
  <2> QED  BY <2>2
<1>2. step \in [1..n -> [Int -> Int]]
  <2> HIDE DEF Next1, n
  <2> QED  BY <1>1
<1>3. n \in Nat /\ funds \in Int
  OBVIOUS
<1>4. PICK f \in [1..n -> Int] : Iterates(f, n, funds, step)
  <2> HIDE DEF step, n
  <2> QED  BY <1>2, <1>3, IntervalRecursion
<1>5. ASSUME NEW i \in 1..n, i # 1
      PROVE  i - 1 \in 1..n /\ step[i][f[i - 1]] = Next1(i, f[i - 1])
  <2>1. i - 1 \in 1..n
    BY <1>3, <1>5
  <2>2. f[i - 1] \in Int
    BY <2>1
  <2> HIDE DEF Next1
  <2> QED  BY <1>5, <2>1, <2>2
<1>6. IsRem(f)
  <2> HIDE DEF Next1, step, n
  <2> QED  BY <1>4, <1>5 DEF Iterates
<1> DEFINE rem == CHOOSE g : IsRem(g)
<1>7. IsRem(rem)
  BY <1>6
<1>8. rem = RemainingBefore(order, o, funds)
  BY DEF RemainingBefore
<1>9. ASSUME NEW i \in 1..n, i > 1 => i - 1 \in {k \in 1..n : rem[k] \in Int}
      PROVE  i \in {k \in 1..n : rem[k] \in Int}
  <2>1. rem[i] = IF i = 1 THEN funds ELSE Next1(i, rem[i - 1])
    <3> HIDE DEF rem, Next1, n
    <3> QED  BY <1>7
  <2>2. i # 1 => rem[i - 1] \in Int
    <3> HIDE DEF rem
    <3> QED  BY <1>3, <1>9
  <2> HIDE DEF rem, Next1, n
  <2> QED  BY <1>1, <1>3, <2>1, <2>2
<1>10. 1..n \subseteq {k \in 1..n : rem[k] \in Int}
  <2> HIDE DEF rem, n
  <2> QED  BY <1>3, <1>9, IntervalInduction
<1>11. rem \in [1..n -> Int]
  <2> HIDE DEF rem, Next1, n
  <2> QED  BY <1>7, <1>10
<1>12. Depletes(rem, order, o, funds)
  <2>1. ASSUME NEW i \in 1..n
        PROVE  rem[i] = IF i = 1 THEN funds ELSE Next1(i, rem[i - 1])
    <3> HIDE DEF rem, Next1, n
    <3> QED  BY <1>7
  <2> HIDE DEF rem
  <2> QED  BY <2>1 DEF Depletes
<1> HIDE DEF rem
<1> QED  BY <1>8, <1>11, <1>12

LEMMA GrossAmountsType ==
    ASSUME NEW v \in SUBSET Workers, NEW o \in [Workers -> Int],
           NEW order \in AscendingOrders(v, o), NEW funds \in Int
    PROVE  LET batch == GrossAmounts(order, o, RemainingBefore(order, o, funds))
           IN  /\ batch \in [Workers -> Nat]
               /\ \A w \in Workers :
                     /\ batch[w] > 0 => w \in v /\ batch[w] <= o[w]
                     /\ batch[w] = 0 \/ batch[w] >= MinPayment
<1> DEFINE rem == RemainingBefore(order, o, funds)
           batch == GrossAmounts(order, o, rem)
<1>1. Len(order) \in Nat /\ order \in [1..Len(order) -> v]
  BY OrderType
<1>2. rem \in [1..(Len(order) + 1) -> Int]
  BY <1>1, RemainingBeforeDef
<1>3. ASSUME NEW w \in Workers, \E i \in 1..Len(order) : order[i] = w
      PROVE  w \in v /\ rem[Place(order, w)] \in Int
  <2>1. Place(order, w) \in 1..Len(order)
    BY <1>3 DEF Place
  <2> HIDE DEF rem
  <2> QED  BY <1>1, <1>2, <1>3, <2>1
<1>4. ASSUME NEW w \in Workers
      PROVE  /\ batch[w] \in Nat
             /\ batch[w] > 0 => w \in v /\ batch[w] <= o[w]
             /\ batch[w] = 0 \/ batch[w] >= MinPayment
  <2> HIDE DEF rem
  <2>1. CASE \E i \in 1..Len(order) : order[i] = w
    <3>1. batch[w] = GrossAmount(o[w], rem[Place(order, w)])
      BY <2>1 DEF GrossAmounts
    <3>2. w \in v /\ rem[Place(order, w)] \in Int /\ o[w] \in Int
      BY <1>3, <2>1
    <3> QED  BY <3>1, <3>2, GrossAmountType
  <2>2. CASE ~\E i \in 1..Len(order) : order[i] = w
    BY <2>2 DEF GrossAmounts
  <2> QED  BY <2>1, <2>2
<1>5. batch \in [Workers -> Nat]
  <2> HIDE DEF rem
  <2> QED  BY <1>4 DEF GrossAmounts
<1> QED  BY <1>4, <1>5

(* What is earned when debts move: the donors lose theirs, the recipients  *)
(* get them.                                                               *)
AfterMove(bal, rew, debts, v, recipient) ==
    [w \in Workers |-> IF w \in Donors(v, debts) THEN -bal[w]
                       ELSE rew[w] + Absorbed(w, recipient, debts)]

(* A debt that is redistributed is taken from its donor: the sum stays.    *)
LEMMA DebtsMove ==
    ASSUME NEW bal \in [Workers -> Int], NEW rew \in [Workers -> Nat],
           NEW debts \in [Workers -> Int], \A w \in Workers : debts[w] = bal[w] + rew[w],
           NEW v \in SUBSET Workers, NEW first \in SUBSET v,
           NEW recipient \in [Donors(v, debts) -> first]
    PROVE  SumOver(AfterMove(bal, rew, debts, v, recipient)) = SumOver(rew)
<1> DEFINE D == Donors(v, debts)
           new == AfterMove(bal, rew, debts, v, recipient)
           from(w) == {d \in D : recipient[d] = w}
<1>1. /\ D \in SUBSET Workers /\ IsFiniteSet(Workers)
      /\ recipient \in [D -> Workers] /\ \A d \in D : recipient[d] \notin D
  BY PayoutAssumption DEF Donors
<1>2. rew \in [Workers -> Int]
  OBVIOUS
<1>3. ASSUME NEW w \in Workers
      PROVE  new[w] = IF w \in D THEN rew[w] - debts[w]
                      ELSE rew[w] + SumFunctionOnSet(debts, {d \in D : recipient[d] = w})
  <2>1. Absorbed(w, recipient, debts) = SumFunctionOnSet(debts, from(w))
    <3>1. from(w) = {d \in DOMAIN recipient : recipient[d] = w}
      OBVIOUS
    <3> HIDE DEF from
    <3> QED  BY <3>1 DEF Absorbed
  <2>2. new[w] = IF w \in D THEN -bal[w] ELSE rew[w] + Absorbed(w, recipient, debts)
    BY DEF AfterMove
  <2>3. rew[w] - debts[w] = -bal[w]
    OBVIOUS
  <2> HIDE DEF new, D
  <2> QED  BY <2>1, <2>2, <2>3
<1>4. SumFunctionOnSet(new, Workers) = SumFunctionOnSet(rew, Workers)
  <2>1. MovedBy(recipient, D, Workers, rew, debts, new)
    <3> HIDE DEF new, D
    <3> QED  BY <1>3 DEF MovedBy
  <2> HIDE DEF D, new
  <2> QED  BY <1>1, <1>2, <2>1, SumMoved
<1> QED  BY <1>4 DEF SumOver

LEMMA RewardSplitType ==
    ASSUME NEW amount \in Nat, NEW shares \in ShareHash
    PROVE  RewardSplit(amount, shares) \in [Workers -> Nat]
<1> DEFINE total == SumOver(shares)
<1>1. ASSUME NEW w \in Workers, shares[w] # 0
      PROVE  (amount * shares[w]) \div total \in Nat
  <2>1. IsFiniteSet(Workers) /\ IsFiniteSet(Workers \ {w})
    BY PayoutAssumption, FS_Subset
  <2>2. \A v \in Workers : shares[v] \in Nat /\ shares[v] \in Int
    BY DEF ShareHash
  <2>3. SumFunctionOnSet(shares, Workers \ {w}) \in Nat
    BY <2>1, <2>2, SumNat
  <2>4. total = shares[w] + SumFunctionOnSet(shares, Workers \ {w})
    BY <2>1, <2>2, SumTake DEF SumOver
  <2>5. total \in Nat \ {0}
    BY <1>1, <2>2, <2>3, <2>4
  <2>6. amount * shares[w] \in Nat
    BY <2>2
  <2> HIDE DEF total
  <2>7. \A p \in Nat, t \in Nat \ {0} : p \div t \in Nat
    OBVIOUS
  <2> QED  BY <2>5, <2>6, <2>7
<1> QED  BY <1>1 DEF RewardSplit

-----------------------------------------------------------------------------
LEMMA CycleRewardsType ==
    ASSUME NEW rds \in SUBSET Blocks, NEW cats, NEW hashes \in [Blocks -> ShareHash]
    PROVE  CycleRewards(rds, cats, hashes) \in [Workers -> Nat]
<1> DEFINE won == { b \in rds : cats[b] = "generate" /\ hashes[b] # NoShares }
           part(w) == [b \in Blocks |-> RewardSplit(BlockReward, hashes[b])[w]]
<1>1. IsFiniteSet(won)
  BY ProcessorAssumption, FS_Subset
<1>2. ASSUME NEW w \in Workers PROVE SumFunctionOnSet(part(w), won) \in Nat
  <2>1. \A b \in won : part(w)[b] \in Nat
    BY RewardSplitType, ProcessorAssumption
  <2> HIDE DEF won, part
  <2> QED  BY <1>1, <2>1, SumNat
<1> QED  BY <1>2 DEF CycleRewards

LEMMA MergedSharesType ==
    ASSUME NEW c, roundCurrent \in ShareHash, canDeleteShares[c] \in SUBSET Blocks,
           workerShares[c] \in [Blocks -> ShareHash]
    PROVE  MergedShares(c) \in ShareHash
<1> DEFINE part(w) == [b \in Blocks |-> workerShares[c][b][w]]
           lost == canDeleteShares[c]
<1>1. IsFiniteSet(lost)
  BY ProcessorAssumption, FS_Subset
<1>2. ASSUME NEW w \in Workers
      PROVE  roundCurrent[w] + SumFunctionOnSet(part(w), lost) \in Nat
  <2>1. \A b \in lost : part(w)[b] \in Nat
    BY DEF ShareHash
  <2>2. SumFunctionOnSet(part(w), lost) \in Nat
    <3> HIDE DEF lost, part
    <3> QED  BY <1>1, <2>1, SumNat
  <2>3. roundCurrent[w] \in Nat
    BY DEF ShareHash
  <2> HIDE DEF lost, part
  <2> QED  BY <2>2, <2>3
<1> QED  BY <1>2 DEF MergedShares, ShareHash

-----------------------------------------------------------------------------
(* Type correctness, for any number of cycles under way and any faults.    *)

LEMMA EmptyTypes ==
    /\ NoRewards \in [Workers -> Nat]
    /\ NoShares \in ShareHash
    /\ NoHashes \in [Blocks -> ShareHash]
    /\ NoCategory \in [Blocks -> Category]
    /\ 0 \in 0..MaxRetries
    /\ CommandsFile \in Slots
    /\ \A b \in Blocks : HeightOf[b] \in Heights
  BY PayoutAssumption
     DEF NoRewards, NoShares, NoHashes, NoCategory, ShareHash, Category, Slots, Heights

LEMMA InitType == Init => TypeOK
  BY EmptyTypes, ProcessorAssumption
     DEF Init, TypeOK, RedisTypeOK, NodeTypeOK, LocalTypeOK, HistoryTypeOK,
         ChainView, Stage, NoRewards, ShareHash

LEMMA ForgetType ==
    ASSUME LocalTypeOK, pc \in [Slots -> Stage], NEW s \in Slots, Forget(s)
    PROVE  LocalTypeOK' /\ pc' \in [Slots -> Stage]
  BY EmptyTypes DEF LocalTypeOK, Forget, Stage

LEMMA RestartType ==
    ASSUME LocalTypeOK, pc \in [Slots -> Stage], Restart
    PROVE  LocalTypeOK' /\ pc' \in [Slots -> Stage]
  BY EmptyTypes DEF LocalTypeOK, Restart, Survives, Stage

LEMMA OpenBatchesType ==
    ASSUME LocalTypeOK PROVE OpenBatches \in [Workers -> Nat]
<1> DEFINE open(w) == [c \in Cycles |-> IF pc[c] = "commit" THEN gross[c][w] ELSE 0]
<1>1. ASSUME NEW w \in Workers PROVE SumFunctionOnSet(open(w), Cycles) \in Nat
  <2>1. \A c \in Cycles : open(w)[c] \in Nat
    BY DEF LocalTypeOK, Slots
  <2> HIDE DEF open
  <2> QED  BY <2>1, SumNat, ProcessorAssumption
<1> QED  BY <1>1 DEF OpenBatches

LEMMA ExecuteType ==
    ASSUME TypeOK, NEW s \in Slots, Execute(s)
    PROVE  RedisTypeOK' /\ HistoryTypeOK'
<1> USE DEF TypeOK, LocalTypeOK
<1>1. balances' \in [Workers -> Int]
  BY DEF RedisTypeOK, Execute, BalanceChange
<1>2. payouts' \in [Workers -> Nat]
  <2>1. \A w \in Workers : NetAmount(gross[s][w], retry[s]) \in Nat
    BY NetAmountType
  <2> QED  BY <2>1 DEF RedisTypeOK, Execute
<1>3. roundShares' \in [Heights -> ShareHash] /\ roundCurrent' \in ShareHash
  <2>1. MergedShares(s) \in ShareHash
    BY MergedSharesType DEF RedisTypeOK
  <2> QED  BY <2>1, EmptyTypes DEF RedisTypeOK, Execute
<1>4. /\ blocksPending' \subseteq Blocks
      /\ blocksConfirmed' \subseteq Blocks
      /\ blocksOrphaned' \subseteq Blocks
  BY DEF RedisTypeOK, Execute, Moved
<1>5. creditedWith' \in [Blocks -> Seq(ShareHash)]
  BY DEF HistoryTypeOK, Execute
<1>6. deducted' \in [Workers -> Nat]
  BY DEF HistoryTypeOK, Execute
<1>7. UNCHANGED <<sharesAt, paid, unrecorded>>
  BY DEF Execute
<1> QED  BY <1>1, <1>2, <1>3, <1>4, <1>5, <1>6, <1>7 DEF RedisTypeOK, HistoryTypeOK

LEMMA MoveToFileType ==
    ASSUME NEW S, NEW f \in [Slots -> S], NEW empty \in S, NEW c \in Slots
    PROVE  MoveToFile(f, c, empty) \in [Slots -> S]
  BY DEF MoveToFile, Slots

LEMMA CycleStepType ==
    ASSUME TypeOK, NEW c \in Cycles, CycleStep(c)
    PROVE  TypeOK'
<1> USE DEF TypeOK
<1>0. c \in Slots /\ CommandsFile \in Slots
  BY DEF Slots
<1>1. CASE ReadRounds(c)
  BY <1>0, <1>1 DEF ReadRounds, Goto, redis, node, history, RedisTypeOK, NodeTypeOK,
                    LocalTypeOK, HistoryTypeOK, Stage
<1>2. CASE StopCycle(c)
  <2>1. LocalTypeOK' /\ pc' \in [Slots -> Stage]
    BY <1>0, <1>2, ForgetType DEF StopCycle
  <2> QED  BY <1>2, <2>1 DEF StopCycle, redis, node, history, RedisTypeOK, NodeTypeOK,
                             HistoryTypeOK
<1>3. CASE ClassifyRounds(c)
  <2>1. LocalTypeOK'
    BY <1>0, <1>3 DEF ClassifyRounds, LocalTypeOK, Category
  <2> QED  BY <1>0, <1>3, <2>1 DEF ClassifyRounds, Goto, redis, node, history,
                                   RedisTypeOK, NodeTypeOK, HistoryTypeOK, Stage
<1>4. CASE ReadShares(c)
  <2> DEFINE hashes == [b \in Blocks |-> IF b \in rounds[c]
                                         THEN roundShares[HeightOf[b]] ELSE NoShares]
  <2>a. hashes \in [Blocks -> ShareHash]
    BY EmptyTypes DEF RedisTypeOK
  <2>b. workerShares' \in [Slots -> [Blocks -> ShareHash]]
    BY <1>4, <2>a DEF ReadShares, LocalTypeOK
  <2>c. reward' \in [Slots -> [Workers -> Nat]]
    <3>1. CycleRewards(rounds[c], category[c], hashes) \in [Workers -> Nat]
      <4>1. rounds[c] \in SUBSET Blocks
        BY <1>0 DEF LocalTypeOK
      <4> HIDE DEF hashes
      <4> QED  BY <2>a, <4>1, CycleRewardsType
    <3>2. reward' = [reward EXCEPT ![c] = CycleRewards(rounds[c], category[c], hashes)]
      BY <1>4 DEF ReadShares
    <3> QED  BY <3>1, <3>2 DEF LocalTypeOK
  <2>1. LocalTypeOK'
    BY <1>4, <2>b, <2>c DEF ReadShares, LocalTypeOK
  <2> QED  BY <1>0, <1>4, <2>1 DEF ReadShares, Goto, redis, node, history,
                                   RedisTypeOK, NodeTypeOK, HistoryTypeOK, Stage
<1>5. CASE LookupAddresses(c)
  <2>0. PICK v \in SUBSET Resolvable :
          \E first \in FirstResults(v) :
            \E recipient \in [Donors(v, Owed(c)) -> first] :
              reward' = [reward EXCEPT ![c] =
                  [w \in Workers |-> reward[c][w] + Absorbed(w, recipient, Owed(c))]]
    BY <1>5 DEF LookupAddresses
  <2>1. PICK first \in FirstResults(v) :
          \E recipient \in [Donors(v, Owed(c)) -> first] :
            reward' = [reward EXCEPT ![c] =
                [w \in Workers |-> reward[c][w] + Absorbed(w, recipient, Owed(c))]]
    BY <2>0
  <2>p. PICK recipient \in [Donors(v, Owed(c)) -> first] :
            reward' = [reward EXCEPT ![c] =
                [w \in Workers |-> reward[c][w] + Absorbed(w, recipient, Owed(c))]]
    BY <2>1
  <2>2. v \in SUBSET Workers /\ Owed(c) \in [Workers -> Int]
    BY <1>0, ProcessorAssumption DEF Owed, LocalTypeOK
  <2>3. \A w \in Workers : Absorbed(w, recipient, Owed(c)) \in Nat
    BY <2>2, AbsorbedType
  <2>4. reward' \in [Slots -> [Workers -> Nat]]
    BY <1>0, <2>p, <2>3 DEF LocalTypeOK
  <2>5. LocalTypeOK'
    BY <1>0, <1>5, <2>4, ProcessorAssumption DEF LookupAddresses, LocalTypeOK, Donors
  <2> QED  BY <1>0, <1>5, <2>5 DEF LookupAddresses, Goto, redis, node, history,
                                   RedisTypeOK, NodeTypeOK, HistoryTypeOK, Stage
<1>6. CASE GetBalance(c)
  <2>1. Owed(c) \in [Workers -> Int]
    BY <1>0 DEF Owed, LocalTypeOK
  <2>a. valid[c] \in SUBSET Workers
    BY <1>0 DEF LocalTypeOK
  <2>b. wallet \in Int
    BY DEF NodeTypeOK
  <2>d. PICK order \in AscendingOrders(valid[c], Owed(c)) :
            gross' = [gross EXCEPT ![c] = GrossAmounts(order, Owed(c),
                                          RemainingBefore(order, Owed(c), wallet))]
    BY <1>6 DEF GetBalance
  <2>e. GrossAmounts(order, Owed(c), RemainingBefore(order, Owed(c), wallet))
            \in [Workers -> Nat]
    BY <2>1, <2>a, <2>b, GrossAmountsType
  <2>c. gross' \in [Slots -> [Workers -> Nat]]
    BY <2>d, <2>e DEF LocalTypeOK
  <2>2. LocalTypeOK'
    BY <1>6, <2>c DEF GetBalance, LocalTypeOK
  <2> QED  BY <1>0, <1>6, <2>2 DEF GetBalance, Goto, redis, node, history,
                                   RedisTypeOK, NodeTypeOK, HistoryTypeOK, Stage
<1>7. CASE BalanceUnknown(c)
  BY <1>0, <1>7 DEF BalanceUnknown, Goto, redis, node, local, history, RedisTypeOK,
                    NodeTypeOK, LocalTypeOK, HistoryTypeOK, Stage
<1>8. ASSUME WalletSends(c), unrecorded' \in [Workers -> Nat]
      PROVE  NodeTypeOK' /\ HistoryTypeOK'
  BY <1>0, <1>8 DEF WalletSends, NodeTypeOK, HistoryTypeOK, LocalTypeOK
<1>9. CASE SendAccepted(c)
  <2>1. NodeTypeOK' /\ HistoryTypeOK'
    BY <1>8, <1>9 DEF SendAccepted, HistoryTypeOK
  <2> QED  BY <1>0, <1>9, <2>1 DEF SendAccepted, Goto, redis, local, RedisTypeOK,
                                   LocalTypeOK, Stage
<1>10. CASE SendInsufficient(c)
  <2>1. LocalTypeOK'
    <3>1. retry[c] \in 0..MaxRetries
      BY <1>0 DEF LocalTypeOK
    <3>2. CASE retry[c] >= MaxRetries
      BY <1>10, <3>2, EmptyTypes
         DEF SendInsufficient, DeferPendingPayable, RetriesUsed, LocalTypeOK
    <3>3. CASE ~(retry[c] >= MaxRetries)
      <4>1. retry[c] + 1 \in 0..MaxRetries
        BY <3>1, <3>3, PayoutAssumption
      <4> QED  BY <1>10, <3>3, <4>1 DEF SendInsufficient, RetriesUsed, LocalTypeOK
    <3> QED  BY <3>2, <3>3
  <2> QED  BY <1>0, <1>10, <2>1 DEF SendInsufficient, DeferPendingPayable, Goto, redis,
                                    node, history,
                                    RedisTypeOK, NodeTypeOK, HistoryTypeOK, Stage
<1>11. CASE SendFailed(c)
  <2>1. LocalTypeOK'
    BY <1>0, <1>11, EmptyTypes DEF SendFailed, DeferPendingPayable, LocalTypeOK
  <2>2. NodeTypeOK' /\ HistoryTypeOK'
    <3>1. \A w \in Workers : gross[c][w] \in Nat
      BY <1>0 DEF LocalTypeOK
    <3>2. CASE UNCHANGED <<node, history>>
      BY <3>2 DEF node, history, NodeTypeOK, HistoryTypeOK
    <3>3. CASE /\ WalletSends(c)
               /\ unrecorded' = [w \in Workers |-> unrecorded[w] + gross[c][w]]
      <4>1. unrecorded' \in [Workers -> Nat]
        BY <3>1, <3>3 DEF HistoryTypeOK
      <4> QED  BY <1>8, <3>3, <4>1
    <3> QED  BY <1>11, <3>2, <3>3 DEF SendFailed
  <2> QED  BY <1>0, <1>11, <2>1, <2>2 DEF SendFailed, DeferPendingPayable, Goto, redis,
                                          RedisTypeOK, Stage
<1>12. CASE Commit(c)
  <2>1. LocalTypeOK' /\ pc' \in [Slots -> Stage]
    BY <1>0, <1>12, ForgetType DEF Commit
  <2>2. RedisTypeOK' /\ HistoryTypeOK'
    BY <1>0, <1>12, ExecuteType DEF Commit
  <2> QED  BY <1>12, <2>1, <2>2 DEF Commit, node, NodeTypeOK
<1>13. CASE CommitFails(c)
  <2>1. LocalTypeOK'
    <3> USE DEF LocalTypeOK
    <3>1. rounds' \in [Slots -> SUBSET Blocks]
      BY <1>0, <1>13, MoveToFileType DEF CommitFails
    <3>2. category' \in [Slots -> [Blocks -> Category]]
      BY <1>0, <1>13, EmptyTypes, MoveToFileType DEF CommitFails
    <3>3. canDeleteShares' \in [Slots -> SUBSET Blocks]
      BY <1>0, <1>13, MoveToFileType DEF CommitFails
    <3>4. workerShares' \in [Slots -> [Blocks -> ShareHash]]
      BY <1>0, <1>13, EmptyTypes, MoveToFileType DEF CommitFails
    <3>5. balance' \in [Slots -> [Workers -> Int]]
      <4>1. NoRewards \in [Workers -> Int]
        BY DEF NoRewards
      <4> QED  BY <1>0, <1>13, <4>1, MoveToFileType DEF CommitFails
    <3>6. reward' \in [Slots -> [Workers -> Nat]]
      BY <1>0, <1>13, EmptyTypes, MoveToFileType DEF CommitFails
    <3>7. valid' \in [Slots -> SUBSET Workers]
      BY <1>0, <1>13, MoveToFileType DEF CommitFails
    <3>8. donors' \in [Slots -> SUBSET Workers]
      BY <1>0, <1>13, MoveToFileType DEF CommitFails
    <3>9. gross' \in [Slots -> [Workers -> Nat]]
      BY <1>0, <1>13, EmptyTypes, MoveToFileType DEF CommitFails
    <3>10. retry' \in [Slots -> 0..MaxRetries]
      BY <1>0, <1>13, EmptyTypes, MoveToFileType DEF CommitFails
    <3> QED  BY <3>1, <3>2, <3>3, <3>4, <3>5, <3>6, <3>7, <3>8, <3>9, <3>10
  <2>2. HistoryTypeOK'
    BY <1>0, <1>13 DEF CommitFails, HistoryTypeOK, LocalTypeOK
  <2> QED  BY <1>0, <1>13, <2>1, <2>2 DEF CommitFails, ClearInterval, redis, node,
                                    RedisTypeOK, NodeTypeOK, Stage
<1>14. CASE CommitThrows(c)
  <2>1. LocalTypeOK' /\ pc' \in [Slots -> Stage]
    BY <1>14, RestartType DEF CommitThrows
  <2> QED  BY <1>14, <2>1 DEF CommitThrows, Restart, redis, node,
                              RedisTypeOK, NodeTypeOK, HistoryTypeOK
<1> QED  BY <1>1, <1>2, <1>3, <1>4, <1>5, <1>6, <1>7, <1>9, <1>10, <1>11, <1>12,
            <1>13, <1>14 DEF CycleStep

LEMMA SurroundingsType ==
    ASSUME TypeOK, NEW b \in Blocks, FindBlock(b) \/ Mature(b) \/ Reorg(b)
    PROVE  TypeOK'
<1> USE DEF TypeOK
<1>1. CASE FindBlock(b)
  <2>1. PICK shares \in RoundHashes :
            /\ roundShares' = [roundShares EXCEPT ![HeightOf[b]] =
                                  [w \in Workers |-> roundCurrent[w] + shares[w]]]
            /\ sharesAt' = [sharesAt EXCEPT ![b] =
                                  [w \in Workers |-> roundCurrent[w] + shares[w]]]
    BY <1>1 DEF FindBlock
  <2>2. shares \in ShareHash
    BY ProcessorAssumption
  <2>3. [w \in Workers |-> roundCurrent[w] + shares[w]] \in ShareHash
    BY <2>2 DEF RedisTypeOK, ShareHash
  <2>4. roundShares' \in [Heights -> ShareHash] /\ roundCurrent' \in ShareHash
    BY <1>1, <2>1, <2>3, EmptyTypes DEF FindBlock, RedisTypeOK
  <2>5. RedisTypeOK'
    BY <1>1, <2>4 DEF FindBlock, RedisTypeOK
  <2>6. sharesAt' \in [Blocks -> ShareHash]
    BY <2>1, <2>3 DEF HistoryTypeOK
  <2>8. HistoryTypeOK'
    BY <1>1, <2>6 DEF FindBlock, HistoryTypeOK
  <2>9. NodeTypeOK'
    BY <1>1 DEF FindBlock, NodeTypeOK, ChainView
  <2> QED  BY <1>1, <2>5, <2>8, <2>9 DEF FindBlock, local, LocalTypeOK
<1>2. CASE Mature(b)
  <2>1. NodeTypeOK'
    BY <1>2, ProcessorAssumption DEF Mature, NodeTypeOK, ChainView
  <2> QED  BY <1>2, <2>1 DEF Mature, redis, local, history, RedisTypeOK, LocalTypeOK,
                             HistoryTypeOK
<1>3. CASE Reorg(b)
  <2>1. NodeTypeOK'
    BY <1>3, ProcessorAssumption DEF Reorg, NodeTypeOK, ChainView
  <2> QED  BY <1>3, <2>1 DEF Reorg, redis, local, history, RedisTypeOK, LocalTypeOK,
                             HistoryTypeOK
<1> QED  BY <1>1, <1>2, <1>3

LEMMA NextType == TypeOK /\ [Next]_vars => TypeOK'
<1> SUFFICES ASSUME TypeOK, [Next]_vars PROVE TypeOK'
  OBVIOUS
<1>1. CASE SetupForPool \/ ReloadPool
  BY <1>1 DEF SetupForPool, ReloadPool, TypeOK, redis, node, local, history, NodeTypeOK,
              RedisTypeOK, LocalTypeOK, HistoryTypeOK
<1>2. CASE Crash
  <2>1. LocalTypeOK' /\ pc' \in [Slots -> Stage]
    BY <1>2, RestartType DEF Crash, TypeOK
  <2>2. HistoryTypeOK'
    BY <1>2, OpenBatchesType DEF Crash, Restart, TypeOK, HistoryTypeOK
  <2> QED  BY <1>2, <2>1, <2>2 DEF Crash, Restart, TypeOK, redis, node,
                                   RedisTypeOK, NodeTypeOK
<1>3. CASE RunCommandsFile
  <2>1. CommandsFile \in Slots
    BY DEF Slots
  <2>2. LocalTypeOK' /\ pc' \in [Slots -> Stage]
    BY <1>3, <2>1, ForgetType DEF RunCommandsFile, TypeOK
  <2>3. RedisTypeOK' /\ HistoryTypeOK'
    BY <1>3, <2>1, ExecuteType DEF RunCommandsFile
  <2> QED  BY <1>3, <2>2, <2>3 DEF RunCommandsFile, TypeOK, node, NodeTypeOK
<1>4. CASE Surroundings
  BY <1>4, SurroundingsType DEF Surroundings
<1>5. ASSUME NEW c \in Cycles, CycleStep(c) PROVE TypeOK'
  BY <1>5, CycleStepType
<1>6. CASE UNCHANGED vars
  BY <1>6 DEF vars, TypeOK, redis, node, local, history, NodeTypeOK, RedisTypeOK,
              LocalTypeOK, HistoryTypeOK
<1> QED  BY <1>1, <1>2, <1>3, <1>4, <1>5, <1>6 DEF Next

(* Every variable keeps its type, however many cycles overlap and whatever *)
(* fails.                                                                  *)
THEOREM TypeCorrect == Spec => []TypeOK
  BY InitType, NextType, PTL DEF Spec

-----------------------------------------------------------------------------
(* What blocks are filed as, for any number of cycles under way and any    *)
(* faults.  A round is called matured only if its block has matured, which *)
(* is for good; two cycles may call a block different things, but SMOVE    *)
(* files it only once.                                                     *)

Classified == { "shares", "lookup", "balance", "send", "commit", "failed" }

FilingInv ==
    /\ FiledOnce
    /\ ConfirmedMatured
    /\ \A s \in Slots : pc[s] \in Classified =>
          \A b \in rounds[s] :
             /\ category[s][b] \in Settled
             /\ category[s][b] = "generate" => chain[b] = "generate"

LEMMA FilingInit == Init => FilingInv
  BY DEF Init, FilingInv, FiledOnce, ConfirmedMatured, Classified

(* A step that leaves the lists and the chain alone, and the classified    *)
(* rounds of every slot, or forgets them.                                  *)
LEMMA FilingKept ==
    ASSUME FilingInv,
           UNCHANGED <<blocksPending, blocksConfirmed, blocksOrphaned, chain>>,
           \A s \in Slots :
              pc'[s] \in Classified =>
                 /\ pc[s] \in Classified
                 /\ UNCHANGED <<rounds[s], category[s]>>
    PROVE  FilingInv'
  BY DEF FilingInv, FiledOnce, ConfirmedMatured

LEMMA FilingExecute ==
    ASSUME TypeOK, FilingInv, NEW s \in Slots, pc[s] \in Classified,
           Execute(s), Forget(s), UNCHANGED chain
    PROVE  FilingInv'
<1> USE DEF TypeOK, LocalTypeOK
<1>1. FiledOnce'
  BY DEF FilingInv, FiledOnce, Execute, Moved, RedisTypeOK, Lost, Settled
<1>2. ConfirmedMatured'
  BY DEF FilingInv, ConfirmedMatured, Execute, Moved
<1>3. \A t \in Slots : pc'[t] \in Classified =>
         /\ pc[t] \in Classified
         /\ UNCHANGED <<rounds[t], category[t]>>
  BY DEF Forget, Classified
<1> QED  BY <1>1, <1>2, <1>3 DEF FilingInv

LEMMA FilingCycleStep ==
    ASSUME TypeOK, FilingInv, NEW c \in Cycles, CycleStep(c)
    PROVE  FilingInv'
<1> USE DEF TypeOK, LocalTypeOK
<1>0. c \in Slots /\ c # CommandsFile
  BY ProcessorAssumption DEF Slots
<1>1. CASE ReadRounds(c) \/ StopCycle(c)
  BY <1>0, <1>1, FilingKept
     DEF ReadRounds, StopCycle, Forget, Goto, redis, node, Classified
<1>2. CASE ClassifyRounds(c)
  <2>1. PICK cats \in [rounds[c] -> Category] :
            /\ \A b \in rounds[c] : cats[b] \in Reported(b)
            /\ rounds' = [rounds EXCEPT ![c] =
                  { b \in rounds[c] : cats[b] \in Settled }]
            /\ category' = [category EXCEPT ![c] = [b \in Blocks |->
                  IF b \in { r \in rounds[c] : cats[r] \in Settled }
                  THEN cats[b] ELSE "undefined"]]
    BY <1>2 DEF ClassifyRounds
  <2>2. \A b \in rounds'[c] :
           /\ category'[c][b] \in Settled
           /\ category'[c][b] = "generate" => chain[b] = "generate"
    BY <1>0, <2>1 DEF Reported
  <2>3. \A s \in Slots \ {c} : UNCHANGED <<pc[s], rounds[s], category[s]>>
    BY <1>2, <2>1 DEF ClassifyRounds, Goto
  <2>4. FiledOnce' /\ ConfirmedMatured' /\ UNCHANGED chain
    BY <1>2 DEF ClassifyRounds, redis, node, FilingInv, FiledOnce, ConfirmedMatured
  <2> QED  BY <2>2, <2>3, <2>4 DEF FilingInv
<1>3. CASE ReadShares(c) \/ LookupAddresses(c) \/ GetBalance(c) \/ BalanceUnknown(c)
  BY <1>0, <1>3, FilingKept
     DEF ReadShares, LookupAddresses, GetBalance, BalanceUnknown, Goto, redis, node,
         local, Classified
<1>4. CASE SendAccepted(c) \/ SendInsufficient(c) \/ SendFailed(c)
  BY <1>0, <1>4, FilingKept
     DEF SendAccepted, SendInsufficient, SendFailed, DeferPendingPayable, WalletSends,
         Goto, redis, node,
         local, Classified
<1>5. CASE Commit(c)
  BY <1>0, <1>5, FilingExecute DEF Commit, Classified, node
<1>6. CASE CommitFails(c)
  <2>1. /\ pc[c] \in Classified
        /\ rounds'[CommandsFile] = rounds[c]
        /\ category'[CommandsFile] = category[c]
        /\ pc'[c] = "idle"
    BY <1>0, <1>6 DEF CommitFails, MoveToFile, Classified, Slots
  <2>2. \A s \in Slots \ {c, CommandsFile} : UNCHANGED <<pc[s], rounds[s], category[s]>>
    BY <1>6 DEF CommitFails, MoveToFile
  <2>3. FiledOnce' /\ ConfirmedMatured' /\ UNCHANGED chain
    BY <1>6 DEF CommitFails, redis, node, FilingInv, FiledOnce, ConfirmedMatured
  <2>4. ASSUME NEW s \in Slots, pc'[s] \in Classified, NEW b \in rounds'[s]
        PROVE  /\ category'[s][b] \in Settled
               /\ category'[s][b] = "generate" => chain'[b] = "generate"
    <3>1. CASE s = CommandsFile
      BY <1>0, <2>1, <2>3, <2>4, <3>1 DEF FilingInv
    <3>2. CASE s = c
      BY <2>1, <2>4, <3>2 DEF Classified
    <3>3. CASE s \in Slots \ {c, CommandsFile}
      BY <2>2, <2>3, <2>4, <3>3 DEF FilingInv
    <3> QED  BY <3>1, <3>2, <3>3
  <2> QED  BY <2>3, <2>4 DEF FilingInv
<1>7. CASE CommitThrows(c)
  BY <1>7, FilingKept DEF CommitThrows, Restart, Survives, redis, node, Classified
<1> QED  BY <1>1, <1>2, <1>3, <1>4, <1>5, <1>6, <1>7 DEF CycleStep

LEMMA FilingSurroundings ==
    ASSUME TypeOK, FilingInv, NEW b \in Blocks, FindBlock(b) \/ Mature(b) \/ Reorg(b)
    PROVE  FilingInv'
<1> USE DEF TypeOK, NodeTypeOK, RedisTypeOK
<1>1. UNCHANGED <<pc, rounds, category>>
  BY DEF FindBlock, Mature, Reorg, local
<1>2. \A o \in Blocks : chain[o] = "generate" => chain'[o] = "generate"
  BY DEF FindBlock, Mature, Reorg, Lost
<1>3. FiledOnce'
  BY DEF FindBlock, Mature, Reorg, Lost, redis, FilingInv, FiledOnce
<1>4. ConfirmedMatured'
  BY <1>2 DEF FindBlock, Mature, Reorg, redis, FilingInv, ConfirmedMatured
<1> QED  BY <1>1, <1>2, <1>3, <1>4 DEF FilingInv, LocalTypeOK

LEMMA FilingNext == TypeOK /\ FilingInv /\ [Next]_vars => FilingInv'
<1> SUFFICES ASSUME TypeOK, FilingInv, [Next]_vars PROVE FilingInv'
  OBVIOUS
<1>1. CASE SetupForPool \/ ReloadPool
  BY <1>1, FilingKept DEF SetupForPool, ReloadPool, redis, node, local
<1>2. CASE Crash
  BY <1>2, FilingKept DEF Crash, Restart, Survives, redis, node, Classified
<1>3. CASE RunCommandsFile
  BY <1>3, FilingExecute DEF RunCommandsFile, node, Classified, Slots
<1>4. CASE Surroundings
  BY <1>4, FilingSurroundings DEF Surroundings
<1>5. ASSUME NEW c \in Cycles, CycleStep(c) PROVE FilingInv'
  BY <1>5, FilingCycleStep
<1>6. CASE UNCHANGED vars
  BY <1>6, FilingKept DEF vars, redis, node, local
<1> QED  BY <1>1, <1>2, <1>3, <1>4, <1>5, <1>6 DEF Next

(* Lines 670-683: every block the pool found is in exactly one list,       *)
(* however many cycles overlap and whatever fails.                         *)
THEOREM BlocksFiledOnce == Spec => []FiledOnce
<1>1. FilingInv => FiledOnce
  BY DEF FilingInv
<1> QED  BY <1>1, TypeCorrect, FilingInit, FilingNext, PTL DEF Spec

(* Lines 284 and 304-314: no reward is paid from a coinbase the chain can  *)
(* still drop.                                                             *)
THEOREM RewardsAreMatured == Spec => []ConfirmedMatured
<1>1. FilingInv => ConfirmedMatured
  BY DEF FilingInv
<1> QED  BY <1>1, TypeCorrect, FilingInit, FilingNext, PTL DEF Spec

-----------------------------------------------------------------------------
(* What is paid out for the credits of blocks, each time that they are     *)
(* credited, for any number of cycles under way and any faults: what a     *)
(* slot adds to the balances and to what has been taken off them is the    *)
(* reward of the blocks it credits, because the rewards of a round are its *)
(* blocks' rewards, because a debt that moves is taken from its donor, and *)
(* because a batch pays no donor.                                          *)

WithBatch == { "send", "commit", "failed" }

(* A batch pays valid workers, and no more than they are owed.             *)
BatchWithinDebts(s) ==
    /\ pc[s] \in {"balance"} \cup WithBatch => donors[s] \cap valid[s] = {}
    /\ pc[s] \notin WithBatch => gross[s] = NoRewards
    /\ \A w \in Workers : gross[s][w] > 0 =>
          w \in valid[s] /\ gross[s][w] <= balance[s][w] + reward[s][w]

(* The blocks a slot credits, and what they pay together.                  *)
Won(s) == { b \in rounds[s] : /\ category[s][b] = "generate"
                              /\ workerShares[s][b] # NoShares }

BlockCredit(hash) == SumOver(RewardSplit(BlockReward, hash))

RoundCredit(s) ==
    SumFunctionOnSet([b \in Blocks |-> BlockCredit(workerShares[s][b])], Won(s))

(* The change of a worker's balance without the payment of the batch.      *)
Earned(s) ==
    [w \in Workers |-> IF w \in donors[s] THEN -balance[s][w] ELSE reward[s][w]]

EarnedIsCredit(s) ==
    /\ pc[s] = "lookup" => SumOver(reward[s]) = RoundCredit(s)
    /\ pc[s] \in {"balance"} \cup WithBatch => SumOver(Earned(s)) = RoundCredit(s)

(* What the payments of a block's reward add up to, over every time that   *)
(* it was credited: two cycles that overlap may both credit it.            *)
CreditOf(b) ==
    SumFunctionOnSet([i \in DOMAIN creditedWith[b] |->
                         SumOver(RewardSplit(BlockReward, creditedWith[b][i]))],
                     DOMAIN creditedWith[b])

CreditsAdd ==
    SumOver(balances) + SumOver(deducted)
        = SumFunctionOnSet([b \in Blocks |-> CreditOf(b)], Blocks)

FundsInv ==
    /\ \A s \in Slots : BatchWithinDebts(s) /\ EarnedIsCredit(s)
    /\ CreditsAdd

LEMMA BlockCreditType ==
    ASSUME NEW hash \in ShareHash PROVE BlockCredit(hash) \in Nat
<1>1. RewardSplit(BlockReward, hash) \in [Workers -> Nat]
  BY RewardSplitType, ProcessorAssumption
<1> QED  BY <1>1, SumOverType DEF BlockCredit

(* The rewards of a cycle are those of its matured rounds, shared out.     *)
LEMMA RewardsOfRounds ==
    ASSUME NEW rds \in SUBSET Blocks, NEW cats, NEW hashes \in [Blocks -> ShareHash]
    PROVE  SumOver(CycleRewards(rds, cats, hashes))
             = SumFunctionOnSet([b \in Blocks |-> BlockCredit(hashes[b])],
                   { b \in rds : cats[b] = "generate" /\ hashes[b] # NoShares })
<1> DEFINE won == { b \in rds : cats[b] = "generate" /\ hashes[b] # NoShares }
           split == [b \in Blocks |-> RewardSplit(BlockReward, hashes[b])]
<1>1. split \in [Blocks -> [Workers -> Int]]
  <2>1. ASSUME NEW b \in Blocks
        PROVE  RewardSplit(BlockReward, hashes[b]) \in [Workers -> Int]
    <3>1. RewardSplit(BlockReward, hashes[b]) \in [Workers -> Nat]
      BY RewardSplitType, ProcessorAssumption
    <3> QED  BY <3>1
  <2> QED  BY <2>1
<1>2. IsFiniteSet(Workers) /\ IsFiniteSet(Blocks) /\ won \in SUBSET Blocks
  BY PayoutAssumption, ProcessorAssumption
<1>3. SumFunctionOnSet(
          [w \in Workers |-> SumFunctionOnSet([b \in Blocks |-> split[b][w]], won)],
          Workers)
        = SumFunctionOnSet([b \in Blocks |-> SumFunctionOnSet(split[b], Workers)], won)
  <2>1. ASSUME NEW f \in [Blocks -> [Workers -> Int]], NEW U \in SUBSET Blocks
        PROVE  SumFunctionOnSet(
                  [w \in Workers |-> SumFunctionOnSet([b \in Blocks |-> f[b][w]], U)],
                  Workers)
                = SumFunctionOnSet([b \in Blocks |-> SumFunctionOnSet(f[b], Workers)], U)
    BY <1>2, SumSwap
  <2> HIDE DEF won, split
  <2> QED  BY <1>1, <1>2, <2>1
<1>4. [w \in Workers |-> SumFunctionOnSet([b \in Blocks |-> split[b][w]], won)]
        = CycleRewards(rds, cats, hashes)
  <2>1. ASSUME NEW w \in Workers
        PROVE  [b \in Blocks |-> split[b][w]]
                 = [b \in Blocks |-> RewardSplit(BlockReward, hashes[b])[w]]
    OBVIOUS
  <2> HIDE DEF split
  <2> QED  BY <2>1 DEF CycleRewards
<1>5. [b \in Blocks |-> SumFunctionOnSet(split[b], Workers)]
        = [b \in Blocks |-> BlockCredit(hashes[b])]
  BY DEF BlockCredit, SumOver
<1> HIDE DEF won, split
<1>6. SumFunctionOnSet(CycleRewards(rds, cats, hashes), Workers)
        = SumFunctionOnSet([b \in Blocks |-> BlockCredit(hashes[b])], won)
  BY <1>3, <1>4, <1>5
<1> QED  BY <1>6 DEF SumOver, won

(* The payments of a list of share hashes, and of one more.                *)
CreditSum(list) ==
    SumFunctionOnSet([i \in DOMAIN list |-> BlockCredit(list[i])], DOMAIN list)

LEMMA CreditSumType ==
    ASSUME NEW list \in Seq(ShareHash) PROVE CreditSum(list) \in Int
<1> DEFINE f == [i \in DOMAIN list |-> BlockCredit(list[i])]
           n == Len(list)
<1>1. n \in Nat /\ DOMAIN list = 1..n
  OBVIOUS
<1>2. \A i \in 1..n : f[i] \in Int
  <2>1. ASSUME NEW i \in 1..n PROVE BlockCredit(list[i]) \in Int
    BY BlockCreditType
  <2> QED  BY <1>1, <2>1
<1>3. IsFiniteSet(1..n)
  BY <1>1, FS_Interval
<1>4. SumFunctionOnSet(f, 1..n) \in Int
  <2> HIDE DEF f, n
  <2> QED  BY <1>2, <1>3, SumInt
<1> QED  BY <1>1, <1>4 DEF CreditSum

LEMMA CreditSumAppend ==
    ASSUME NEW list \in Seq(ShareHash), NEW hash \in ShareHash
    PROVE  CreditSum(Append(list, hash)) = CreditSum(list) + BlockCredit(hash)
<1> DEFINE more == Append(list, hash)
           n == Len(list)
           f == [i \in DOMAIN list |-> BlockCredit(list[i])]
           g == [i \in DOMAIN more |-> BlockCredit(more[i])]
<1>1. /\ n \in Nat /\ DOMAIN list = 1..n /\ DOMAIN more = 1..(n + 1)
      /\ \A i \in 1..n : more[i] = list[i]
      /\ more[n + 1] = hash
  OBVIOUS
<1>2. \A i \in 1..n : f[i] \in Int /\ g[i] = f[i]
  <2>1. ASSUME NEW i \in 1..n PROVE BlockCredit(list[i]) \in Int
    BY BlockCreditType
  <2> HIDE DEF more
  <2> QED  BY <1>1, <2>1
<1>3. g[n + 1] = BlockCredit(hash) /\ g[n + 1] \in Int
  <2>1. BlockCredit(hash) \in Int /\ n + 1 \in 1..(n + 1)
    BY BlockCreditType
  <2> HIDE DEF more, n
  <2> QED  BY <1>1, <2>1
<1>4. SumFunctionOnSet(g, 1..(n + 1)) = SumFunctionOnSet(f, 1..n) + g[n + 1]
  <2> HIDE DEF f, g, n
  <2> QED  BY <1>1, <1>2, <1>3, SumExtend
<1> QED
  <2> HIDE DEF more, n
  <2> QED  BY <1>1, <1>3, <1>4 DEF CreditSum

LEMMA CreditOfType ==
    ASSUME HistoryTypeOK, NEW b \in Blocks
    PROVE  CreditOf(b) = CreditSum(creditedWith[b]) /\ CreditOf(b) \in Int
<1>1. CreditOf(b) = CreditSum(creditedWith[b])
  BY DEF CreditOf, CreditSum, BlockCredit
<1>2. creditedWith[b] \in Seq(ShareHash)
  BY DEF HistoryTypeOK
<1> QED  BY <1>1, <1>2, CreditSumType

(* A slot that a step does not touch, or that holds no batch yet.          *)
LEMMA SlotKept ==
    ASSUME NEW s, BatchWithinDebts(s), EarnedIsCredit(s),
           UNCHANGED <<pc[s], rounds[s], category[s], workerShares[s], balance[s],
                       reward[s], valid[s], donors[s], gross[s]>>
    PROVE  BatchWithinDebts(s)' /\ EarnedIsCredit(s)'
<1>1. RoundCredit(s)' = RoundCredit(s)
  BY DEF RoundCredit, Won
<1>2. Earned(s)' = Earned(s)
  BY DEF Earned
<1> QED  BY <1>1, <1>2 DEF BatchWithinDebts, EarnedIsCredit

LEMMA SlotEmpty ==
    ASSUME NEW s, pc'[s] \in {"idle", "classify", "shares"}, gross'[s] = NoRewards
    PROVE  BatchWithinDebts(s)' /\ EarnedIsCredit(s)'
  BY DEF BatchWithinDebts, EarnedIsCredit, WithBatch, NoRewards

LEMMA FundsKept ==
    ASSUME FundsInv, UNCHANGED <<balances, deducted, creditedWith>>, NEW c,
           \A s \in Slots \ {c} :
              UNCHANGED <<pc[s], rounds[s], category[s], workerShares[s], balance[s],
                          reward[s], valid[s], donors[s], gross[s]>>,
           c \in Slots => BatchWithinDebts(c)' /\ EarnedIsCredit(c)'
    PROVE  FundsInv'
<1>1. CreditsAdd'
  BY DEF FundsInv, CreditsAdd, CreditOf
<1>2. ASSUME NEW s \in Slots \ {c}
      PROVE  BatchWithinDebts(s)' /\ EarnedIsCredit(s)'
  BY <1>2, SlotKept DEF FundsInv
<1> QED  BY <1>1, <1>2 DEF FundsInv

LEMMA FundsInit == Init => FundsInv
<1> SUFFICES ASSUME Init PROVE FundsInv
  OBVIOUS
<1>1. \A s \in Slots : BatchWithinDebts(s) /\ EarnedIsCredit(s)
  BY DEF Init, BatchWithinDebts, EarnedIsCredit, WithBatch, NoRewards
<1>2. SumOver(balances) = 0 /\ SumOver(deducted) = 0
  <2>1. \A w \in Workers : balances[w] = 0 /\ deducted[w] = 0
    BY DEF Init, NoRewards
  <2> QED  BY <2>1, SumZero, PayoutAssumption DEF SumOver
<1>3. ASSUME NEW b \in Blocks PROVE CreditOf(b) = 0
  <2>1. creditedWith[b] = << >> /\ DOMAIN << >> = {}
    BY DEF Init
  <2>2. DOMAIN creditedWith[b] = {}
    BY <2>1
  <2> QED  BY <2>2, SumEmpty DEF CreditOf
<1> DEFINE credit == [b \in Blocks |-> CreditOf(b)]
<1>4. \A b \in Blocks : credit[b] = 0
  BY <1>3
<1>5. SumFunctionOnSet(credit, Blocks) = 0
  <2> HIDE DEF credit
  <2> QED  BY <1>4, SumZero, ProcessorAssumption
<1>6. CreditsAdd
  BY <1>2, <1>5 DEF CreditsAdd
<1> QED  BY <1>1, <1>6 DEF FundsInv

(* The final MULTI: the changes of the balances are what is credited less  *)
(* what is taken off for the batch.                                        *)
LEMMA ExecuteChanges ==
    ASSUME TypeOK, NEW s \in Slots, BatchWithinDebts(s), EarnedIsCredit(s),
           pc[s] \in {"commit", "failed"}, Execute(s)
    PROVE  /\ SumOver(balances') = SumOver(balances)
                                     + (RoundCredit(s) - SumOver(gross[s]))
           /\ SumOver(deducted') = SumOver(deducted) + SumOver(gross[s])
           /\ SumOver(balances) \in Int /\ SumOver(deducted) \in Int
           /\ SumOver(gross[s]) \in Int /\ RoundCredit(s) \in Int
<1> DEFINE earn == Earned(s)
           take == gross[s]
           due  == [w \in Workers |-> balances[w] + earn[w]]
<1>1. /\ IsFiniteSet(Workers)
      /\ balances \in [Workers -> Int] /\ deducted \in [Workers -> Int]
      /\ take \in [Workers -> Nat] /\ take \in [Workers -> Int]
      /\ earn \in [Workers -> Int]
  <2>1. IsFiniteSet(Workers)
    BY PayoutAssumption
  <2>2. balances \in [Workers -> Int] /\ deducted \in [Workers -> Nat]
    BY DEF TypeOK, RedisTypeOK, HistoryTypeOK
  <2>3. /\ take \in [Workers -> Nat] /\ balance[s] \in [Workers -> Int]
        /\ reward[s] \in [Workers -> Nat]
    BY DEF TypeOK, LocalTypeOK
  <2>4. earn \in [Workers -> Int]
    BY <2>3 DEF Earned
  <2> QED  BY <2>1, <2>2, <2>3, <2>4
<1>2. ASSUME NEW w \in Workers PROVE BalanceChange(s, w) = earn[w] - take[w]
  <2>1. CASE w \in donors[s]
    <3>1. take[w] = 0
      BY <1>1, <2>1 DEF BatchWithinDebts, WithBatch
    <3>2. earn[w] = -balance[s][w] /\ BalanceChange(s, w) = -balance[s][w]
      BY <2>1 DEF Earned, BalanceChange
    <3>3. earn[w] \in Int
      BY <1>1
    <3> HIDE DEF earn, take
    <3> QED  BY <3>1, <3>2, <3>3
  <2>2. CASE w \notin donors[s]
    BY <2>2 DEF Earned, BalanceChange
  <2> QED  BY <2>1, <2>2
<1>3. due \in [Workers -> Int]
  <2> HIDE DEF earn
  <2> QED  BY <1>1
<1>4. balances' = [w \in Workers |-> due[w] - take[w]]
  <2>1. balances' = [w \in Workers |-> balances[w] + BalanceChange(s, w)]
    BY DEF Execute
  <2>2. ASSUME NEW w \in Workers
        PROVE  balances[w] + BalanceChange(s, w) = due[w] - take[w]
    <3>1. due[w] = balances[w] + earn[w]
      OBVIOUS
    <3>2. balances[w] \in Int /\ earn[w] \in Int /\ take[w] \in Int
      BY <1>1
    <3> HIDE DEF earn, take, due
    <3> QED  BY <1>2, <3>1, <3>2
  <2> HIDE DEF due, take
  <2> QED  BY <2>1, <2>2
<1>5. deducted' = [w \in Workers |-> deducted[w] + take[w]]
  BY DEF Execute
<1> HIDE DEF earn, take
<1>6. SumFunctionOnSet(due, Workers)
        = SumFunctionOnSet(balances, Workers) + SumFunctionOnSet(earn, Workers)
  BY <1>1, SumAdded
<1> HIDE DEF due
<1>7. SumFunctionOnSet(balances', Workers)
        = SumFunctionOnSet(due, Workers) - SumFunctionOnSet(take, Workers)
  <2>1. SumFunctionOnSet([w \in Workers |-> due[w] - take[w]], Workers)
          = SumFunctionOnSet(due, Workers) - SumFunctionOnSet(take, Workers)
    BY <1>1, <1>3, SumTaken
  <2> QED  BY <1>4, <2>1
<1>8. SumFunctionOnSet(deducted', Workers)
        = SumFunctionOnSet(deducted, Workers) + SumFunctionOnSet(take, Workers)
  <2>1. SumFunctionOnSet([w \in Workers |-> deducted[w] + take[w]], Workers)
          = SumFunctionOnSet(deducted, Workers) + SumFunctionOnSet(take, Workers)
    BY <1>1, SumAdded
  <2> QED  BY <1>5, <2>1
<1>9. /\ SumOver(earn) = RoundCredit(s)
      /\ SumOver(balances) \in Int /\ SumOver(deducted) \in Int
      /\ SumOver(take) \in Int /\ SumOver(earn) \in Int
  <2>1. SumOver(earn) = RoundCredit(s)
    BY DEF EarnedIsCredit, WithBatch, earn
  <2> QED  BY <1>1, <2>1, SumOverType
<1>10. SumOver(balances') = SumOver(balances) + (RoundCredit(s) - SumOver(take))
  <2>1. SumOver(balances') = (SumOver(balances) + SumOver(earn)) - SumOver(take)
    BY <1>6, <1>7 DEF SumOver
  <2> QED  BY <1>9, <2>1
<1> QED  BY <1>8, <1>9, <1>10 DEF SumOver, take

LEMMA FundsExecute ==
    ASSUME TypeOK, FundsInv, NEW s \in Slots, pc[s] \in {"commit", "failed"}, Execute(s)
    PROVE  CreditsAdd'
<1> DEFINE credit == [b \in Blocks |-> CreditOf(b)]
           pay    == [b \in Blocks |-> BlockCredit(workerShares[s][b])]
           gain   == [b \in Blocks |-> IF b \in Won(s) THEN pay[b] ELSE 0]
<1>1. /\ IsFiniteSet(Blocks) /\ Won(s) \in SUBSET Blocks
      /\ workerShares[s] \in [Blocks -> ShareHash]
      /\ HistoryTypeOK /\ HistoryTypeOK'
  BY ProcessorAssumption, ExecuteType DEF TypeOK, LocalTypeOK, Won
<1>2. /\ \A b \in Blocks : pay[b] \in Int
      /\ gain \in [Blocks -> Int]
  <2>1. ASSUME NEW b \in Blocks PROVE BlockCredit(workerShares[s][b]) \in Int
    BY <1>1, BlockCreditType
  <2> QED  BY <2>1
<1>3. credit \in [Blocks -> Int]
  BY <1>1, CreditOfType
<1>4. ASSUME NEW b \in Blocks PROVE CreditOf(b)' = credit[b] + gain[b]
  <2>1. CreditOf(b) = CreditSum(creditedWith[b]) /\ CreditOf(b) \in Int
    BY <1>1, CreditOfType
  <2>2. CreditOf(b)' = CreditSum(creditedWith'[b])
    BY <1>1 DEF CreditOf, CreditSum, BlockCredit
  <2>3. CASE b \in Won(s)
    <3>1. creditedWith'[b] = Append(creditedWith[b], workerShares[s][b])
      BY <2>3 DEF Execute, Won
    <3>2. creditedWith[b] \in Seq(ShareHash) /\ workerShares[s][b] \in ShareHash
      BY <1>1 DEF HistoryTypeOK
    <3>3. CreditOf(b)' = CreditOf(b) + BlockCredit(workerShares[s][b])
      BY <2>1, <2>2, <3>1, <3>2, CreditSumAppend
    <3> QED  BY <2>3, <3>3
  <2>4. CASE b \notin Won(s)
    <3>1. creditedWith'[b] = creditedWith[b]
      BY <2>4 DEF Execute, Won
    <3>2. CreditOf(b)' = CreditOf(b)
      BY <2>1, <2>2, <3>1
    <3> QED  BY <2>1, <2>4, <3>2
  <2> QED  BY <2>3, <2>4
<1>5. SumFunctionOnSet(gain, Blocks) = RoundCredit(s)
  <2>1. SumFunctionOnSet(gain, Blocks) = SumFunctionOnSet(pay, Won(s))
    <3> HIDE DEF pay
    <3> QED  BY <1>1, <1>2, SumWhere
  <2> QED  BY <2>1 DEF RoundCredit
<1> DEFINE after == [b \in Blocks |-> credit[b] + gain[b]]
<1>6. SumFunctionOnSet(after, Blocks)
        = SumFunctionOnSet(credit, Blocks) + SumFunctionOnSet(gain, Blocks)
  <2> HIDE DEF credit, gain
  <2> QED  BY <1>1, <1>2, <1>3, SumAdded
<1>7. [b \in Blocks |-> CreditOf(b)'] = after
  <2> HIDE DEF credit, gain
  <2> QED  BY <1>4
<1>8. SumFunctionOnSet(credit, Blocks) \in Int
  <2> HIDE DEF credit
  <2> QED  BY <1>1, <1>3, SumInt
<1>9. SumOver(balances) + SumOver(deducted) = SumFunctionOnSet(credit, Blocks)
  BY DEF FundsInv, CreditsAdd
<1>10. CreditsAdd' = (SumOver(balances') + SumOver(deducted')
                            = SumFunctionOnSet([b \in Blocks |-> CreditOf(b)'], Blocks))
  BY DEF CreditsAdd, SumOver
<1>11. /\ SumOver(balances') = SumOver(balances)
                                 + (RoundCredit(s) - SumOver(gross[s]))
       /\ SumOver(deducted') = SumOver(deducted) + SumOver(gross[s])
       /\ SumOver(balances) \in Int /\ SumOver(deducted) \in Int
       /\ SumOver(gross[s]) \in Int /\ RoundCredit(s) \in Int
  BY ExecuteChanges DEF FundsInv
<1>12. SumFunctionOnSet([b \in Blocks |-> CreditOf(b)'], Blocks)
         = SumFunctionOnSet(credit, Blocks) + RoundCredit(s)
  <2> HIDE DEF credit, gain, after
  <2> QED  BY <1>5, <1>6, <1>7
<1>13. SumOver(balances') + SumOver(deducted')
         = SumFunctionOnSet([b \in Blocks |-> CreditOf(b)'], Blocks)
  <2> HIDE DEF credit
  <2> QED  BY <1>8, <1>9, <1>11, <1>12
<1> QED  BY <1>10, <1>13

(* The rewards of the rounds that ReadShares has kept are their credit.    *)
LEMMA CreditRead ==
    ASSUME TypeOK, NEW c \in Slots, ReadShares(c)
    PROVE  SumOver(reward'[c]) = RoundCredit(c)'
<1> DEFINE hashes == [b \in Blocks |-> IF b \in rounds[c]
                                       THEN roundShares[HeightOf[b]] ELSE NoShares]
           won == { b \in rounds[c] : category[c][b] = "generate" /\ hashes[b] # NoShares }
<1>1. /\ rounds[c] \in SUBSET Blocks
      /\ hashes \in [Blocks -> ShareHash]
  BY EmptyTypes DEF TypeOK, LocalTypeOK, RedisTypeOK
<1>2. /\ reward'[c] = CycleRewards(rounds[c], category[c], hashes)
      /\ workerShares'[c] = hashes
      /\ UNCHANGED <<rounds, category>>
  BY DEF ReadShares, TypeOK, LocalTypeOK
<1> HIDE DEF hashes
<1>3. SumOver(CycleRewards(rounds[c], category[c], hashes))
        = SumFunctionOnSet([b \in Blocks |-> BlockCredit(hashes[b])], won)
  BY <1>1, RewardsOfRounds
<1>4. Won(c)' = won
  BY <1>2 DEF Won
<1>5. RoundCredit(c)' = SumFunctionOnSet([b \in Blocks |-> BlockCredit(hashes[b])], won)
  <2>1. RoundCredit(c)' = SumFunctionOnSet(
                              [b \in Blocks |-> BlockCredit(workerShares'[c][b])], Won(c)')
    BY DEF RoundCredit, BlockCredit, SumOver, RewardSplit
  <2> QED  BY <1>2, <1>4, <2>1
<1> QED  BY <1>2, <1>3, <1>5

(* What a debt's new owners earn, the donor loses.                         *)
LEMMA EarnedAfterLookup ==
    ASSUME TypeOK, NEW c \in Slots, LookupAddresses(c)
    PROVE  /\ SumOver(Earned(c)') = SumOver(reward[c])
           /\ donors'[c] \cap valid'[c] = {}
<1>1. PICK v \in SUBSET Resolvable :
        /\ \E first \in FirstResults(v) :
            \E recipient \in [Donors(v, Owed(c)) -> first] :
              reward' = [reward EXCEPT ![c] =
                  [w \in Workers |-> reward[c][w] + Absorbed(w, recipient, Owed(c))]]
        /\ valid' = [valid EXCEPT ![c] = v]
        /\ donors' = [donors EXCEPT ![c] = Donors(v, Owed(c))]
  BY DEF LookupAddresses
<1>2. PICK first \in FirstResults(v) :
          \E recipient \in [Donors(v, Owed(c)) -> first] :
            reward' = [reward EXCEPT ![c] =
                [w \in Workers |-> reward[c][w] + Absorbed(w, recipient, Owed(c))]]
  BY <1>1
<1>3. PICK recipient \in [Donors(v, Owed(c)) -> first] :
          reward' = [reward EXCEPT ![c] =
              [w \in Workers |-> reward[c][w] + Absorbed(w, recipient, Owed(c))]]
  BY <1>2
<1>4. /\ v \in SUBSET Workers /\ first \in SUBSET v
      /\ balance[c] \in [Workers -> Int] /\ reward[c] \in [Workers -> Nat]
      /\ Owed(c) \in [Workers -> Int]
      /\ \A w \in Workers : Owed(c)[w] = balance[c][w] + reward[c][w]
  <2>1. v \in SUBSET Workers /\ first \in SUBSET v
    BY ProcessorAssumption DEF FirstResults
  <2>2. balance[c] \in [Workers -> Int] /\ reward[c] \in [Workers -> Nat]
    BY DEF TypeOK, LocalTypeOK
  <2> QED  BY <2>1, <2>2 DEF Owed
<1>5. SumOver(AfterMove(balance[c], reward[c], Owed(c), v, recipient)) = SumOver(reward[c])
  BY <1>4, DebtsMove
<1>6. /\ reward'[c] = [w \in Workers |-> reward[c][w] + Absorbed(w, recipient, Owed(c))]
      /\ donors'[c] = Donors(v, Owed(c)) /\ valid'[c] = v
      /\ balance' = balance
  BY <1>1, <1>3 DEF LookupAddresses, TypeOK, LocalTypeOK
<1>7. Earned(c)' = AfterMove(balance[c], reward[c], Owed(c), v, recipient)
  BY <1>6 DEF Earned, AfterMove
<1>8. Donors(v, Owed(c)) \cap v = {}
  BY DEF Donors
<1> QED  BY <1>5, <1>6, <1>7, <1>8

(* A step after the rewards are settled, which may choose a batch.         *)
LEMMA SlotGoesOn ==
    ASSUME NEW c \in Slots, BatchWithinDebts(c), EarnedIsCredit(c),
           pc[c] \in {"balance"} \cup WithBatch, pc'[c] \in WithBatch,
           UNCHANGED <<rounds[c], category[c], workerShares[c], balance[c], reward[c],
                       valid[c], donors[c]>>,
           \A w \in Workers : gross'[c][w] > 0 =>
              w \in valid[c] /\ gross'[c][w] <= balance[c][w] + reward[c][w]
    PROVE  BatchWithinDebts(c)' /\ EarnedIsCredit(c)'
<1>1. RoundCredit(c)' = RoundCredit(c)
  BY DEF RoundCredit, Won
<1>2. Earned(c)' = Earned(c)
  BY DEF Earned
<1>3. BatchWithinDebts(c)'
  BY DEF BatchWithinDebts, WithBatch
<1> QED  BY <1>1, <1>2, <1>3 DEF EarnedIsCredit, WithBatch

LEMMA BatchChosen ==
    ASSUME TypeOK, NEW c \in Slots, GetBalance(c)
    PROVE  \A w \in Workers :
              /\ gross'[c][w] > 0 =>
                    w \in valid[c] /\ gross'[c][w] <= balance[c][w] + reward[c][w]
              /\ gross'[c][w] = 0 \/ gross'[c][w] >= MinPayment
<1>1. PICK order \in AscendingOrders(valid[c], Owed(c)) :
          gross' = [gross EXCEPT ![c] = GrossAmounts(order, Owed(c),
                                        RemainingBefore(order, Owed(c), wallet))]
  BY DEF GetBalance
<1>2. /\ Owed(c) \in [Workers -> Int] /\ valid[c] \in SUBSET Workers
      /\ wallet \in Int
  BY DEF TypeOK, LocalTypeOK, NodeTypeOK, Owed
<1>3. gross'[c] = GrossAmounts(order, Owed(c), RemainingBefore(order, Owed(c), wallet))
  BY <1>1 DEF TypeOK, LocalTypeOK
<1>4. \A w \in Workers :
         /\ gross'[c][w] > 0 => w \in valid[c] /\ gross'[c][w] <= Owed(c)[w]
         /\ gross'[c][w] = 0 \/ gross'[c][w] >= MinPayment
  BY <1>2, <1>3, GrossAmountsType
<1> QED  BY <1>4 DEF Owed

LEMMA FundsRestart == ASSUME FundsInv, Restart PROVE FundsInv'
<1>1. CreditsAdd'
  BY DEF Restart, redis, FundsInv, CreditsAdd, CreditOf
<1>2. ASSUME NEW s \in Slots \ {CommandsFile}
      PROVE  BatchWithinDebts(s)' /\ EarnedIsCredit(s)'
  <2>1. pc'[s] = "idle" /\ gross'[s] = NoRewards
    BY DEF Restart, Survives
  <2> QED  BY <2>1, SlotEmpty
<1>3. CommandsFile \in Slots
  BY DEF Slots
<1>4. BatchWithinDebts(CommandsFile)' /\ EarnedIsCredit(CommandsFile)'
  BY <1>3, SlotKept DEF Restart, Survives, FundsInv
<1> QED  BY <1>1, <1>2, <1>4 DEF FundsInv

LEMMA FundsCycleStep ==
    ASSUME TypeOK, FundsInv, NEW c \in Cycles, CycleStep(c)
    PROVE  FundsInv'
<1>0. /\ c \in Slots /\ c # CommandsFile /\ CommandsFile \in Slots
      /\ LocalTypeOK /\ pc \in [Slots -> Stage]
      /\ BatchWithinDebts(c) /\ EarnedIsCredit(c)
      /\ \A w \in Workers : ~(NoRewards[w] > 0)
  BY ProcessorAssumption DEF Slots, TypeOK, FundsInv, NoRewards
<1> USE DEF LocalTypeOK
<1>1. CASE ReadRounds(c) \/ StopCycle(c) \/ ClassifyRounds(c)
  <2>1. pc'[c] \in {"idle", "classify", "shares"} /\ gross'[c] = NoRewards
    BY <1>0, <1>1
       DEF ReadRounds, StopCycle, ClassifyRounds, Forget, Goto, BatchWithinDebts, WithBatch
  <2> QED  BY <1>0, <1>1, <2>1, SlotEmpty, FundsKept
           DEF ReadRounds, StopCycle, ClassifyRounds, Forget, Goto, redis, history
<1>2. CASE ReadShares(c)
  <2>1. pc'[c] = "lookup" /\ gross'[c] = NoRewards
    BY <1>0, <1>2 DEF ReadShares, Goto, BatchWithinDebts, WithBatch
  <2>2. BatchWithinDebts(c)'
    BY <1>0, <2>1 DEF BatchWithinDebts, WithBatch
  <2>3. EarnedIsCredit(c)'
    BY <1>0, <1>2, <2>1, CreditRead DEF EarnedIsCredit, WithBatch
  <2> QED  BY <1>0, <1>2, <2>2, <2>3, FundsKept DEF ReadShares, Goto, redis, history
<1>3. CASE LookupAddresses(c)
  <2>1. pc[c] = "lookup" /\ pc'[c] = "balance" /\ gross'[c] = NoRewards
    BY <1>0, <1>3 DEF LookupAddresses, Goto, BatchWithinDebts, WithBatch
  <2>2. SumOver(Earned(c)') = SumOver(reward[c]) /\ donors'[c] \cap valid'[c] = {}
    BY <1>0, <1>3, EarnedAfterLookup
  <2>3. RoundCredit(c)' = RoundCredit(c)
    BY <1>3 DEF LookupAddresses, RoundCredit, Won
  <2>4. SumOver(reward[c]) = RoundCredit(c)
    BY <1>0, <2>1 DEF EarnedIsCredit
  <2>5. SumOver(Earned(c))' = SumOver(Earned(c)')
    BY DEF SumOver
  <2>6. EarnedIsCredit(c)'
    BY <2>1, <2>2, <2>3, <2>4, <2>5 DEF EarnedIsCredit
  <2>7. BatchWithinDebts(c)'
    BY <1>0, <2>1, <2>2 DEF BatchWithinDebts, WithBatch
  <2> QED  BY <1>0, <1>3, <2>6, <2>7, FundsKept DEF LookupAddresses, Goto, redis, history
<1>4. CASE GetBalance(c)
  <2>1. pc[c] = "balance" /\ pc'[c] \in WithBatch
    BY <1>0, <1>4 DEF GetBalance, Goto, WithBatch
  <2>2. \A w \in Workers : gross'[c][w] > 0 =>
           w \in valid[c] /\ gross'[c][w] <= balance[c][w] + reward[c][w]
    BY <1>0, <1>4, BatchChosen
  <2>3. BatchWithinDebts(c)' /\ EarnedIsCredit(c)'
    BY <1>0, <1>4, <2>1, <2>2, SlotGoesOn DEF GetBalance
  <2> QED  BY <1>0, <1>4, <2>3, FundsKept DEF GetBalance, Goto, redis, history
<1>5. CASE BalanceUnknown(c) \/ SendAccepted(c) \/ SendInsufficient(c) \/ SendFailed(c)
  <2>1. pc[c] \in {"balance", "send"} /\ pc'[c] \in WithBatch
    BY <1>0, <1>5
       DEF BalanceUnknown, SendAccepted, SendInsufficient, SendFailed, Goto, WithBatch
  <2>2. UNCHANGED <<rounds, category, workerShares, balance, reward, valid, donors>>
    BY <1>5 DEF BalanceUnknown, SendAccepted, SendInsufficient, SendFailed, local
  <2>3. gross'[c] = gross[c] \/ gross'[c] = NoRewards
    BY <1>0, <1>5 DEF BalanceUnknown, SendAccepted, SendInsufficient, SendFailed,
                      DeferPendingPayable, local
  <2>4. \A w \in Workers : gross'[c][w] > 0 =>
           w \in valid[c] /\ gross'[c][w] <= balance[c][w] + reward[c][w]
    BY <1>0, <2>3 DEF BatchWithinDebts
  <2>5. BatchWithinDebts(c)' /\ EarnedIsCredit(c)'
    BY <1>0, <2>1, <2>2, <2>4, SlotGoesOn DEF WithBatch
  <2>6. UNCHANGED <<balances, deducted, creditedWith>>
    BY <1>5 DEF BalanceUnknown, SendAccepted, SendInsufficient, SendFailed, WalletSends,
                redis, history
  <2>7. \A s \in Slots \ {c} : UNCHANGED <<pc[s], gross[s]>>
    BY <1>0, <1>5 DEF BalanceUnknown, SendAccepted, SendInsufficient, SendFailed,
                      DeferPendingPayable, Goto, local
  <2> QED  BY <1>0, <2>2, <2>5, <2>6, <2>7, FundsKept
<1>6. CASE Commit(c)
  <2>1. CreditsAdd'
    BY <1>0, <1>6, FundsExecute DEF Commit
  <2>2. BatchWithinDebts(c)' /\ EarnedIsCredit(c)'
    BY <1>0, <1>6, SlotEmpty DEF Commit, Forget
  <2>3. ASSUME NEW s \in Slots \ {c} PROVE BatchWithinDebts(s)' /\ EarnedIsCredit(s)'
    BY <1>0, <1>6, <2>3, SlotKept DEF Commit, Forget, FundsInv
  <2> QED  BY <2>1, <2>2, <2>3 DEF FundsInv
<1>7. CASE CommitFails(c)
  <2>1. CreditsAdd'
    BY <1>7 DEF CommitFails, redis, FundsInv, CreditsAdd, CreditOf
  <2>2. BatchWithinDebts(c)' /\ EarnedIsCredit(c)'
    BY <1>0, <1>7, SlotEmpty DEF CommitFails, MoveToFile
  <2>3. /\ pc[c] = "commit" /\ pc'[CommandsFile] = "failed"
        /\ rounds'[CommandsFile] = rounds[c]
        /\ category'[CommandsFile] = category[c]
        /\ workerShares'[CommandsFile] = workerShares[c]
        /\ balance'[CommandsFile] = balance[c]
        /\ reward'[CommandsFile] = reward[c]
        /\ valid'[CommandsFile] = valid[c]
        /\ donors'[CommandsFile] = donors[c]
        /\ gross'[CommandsFile] = gross[c]
    BY <1>0, <1>7 DEF CommitFails, MoveToFile
  <2>4. RoundCredit(CommandsFile)' = RoundCredit(c)
    BY <2>3 DEF RoundCredit, Won
  <2>5. Earned(CommandsFile)' = Earned(c)
    BY <2>3 DEF Earned
  <2>6. BatchWithinDebts(CommandsFile)'
    BY <1>0, <2>3 DEF BatchWithinDebts, WithBatch
  <2>7. EarnedIsCredit(CommandsFile)'
    BY <1>0, <2>3, <2>4, <2>5 DEF EarnedIsCredit, WithBatch
  <2>8. ASSUME NEW s \in Slots \ {c, CommandsFile}
        PROVE  BatchWithinDebts(s)' /\ EarnedIsCredit(s)'
    BY <1>0, <1>7, <2>8, SlotKept DEF CommitFails, MoveToFile, FundsInv
  <2> QED  BY <2>1, <2>2, <2>6, <2>7, <2>8 DEF FundsInv
<1>8. CASE CommitThrows(c)
  BY <1>8, FundsRestart DEF CommitThrows
<1> QED  BY <1>1, <1>2, <1>3, <1>4, <1>5, <1>6, <1>7, <1>8 DEF CycleStep

LEMMA FundsNext == TypeOK /\ FundsInv /\ [Next]_vars => FundsInv'
<1> SUFFICES ASSUME TypeOK, FundsInv, [Next]_vars PROVE FundsInv'
  OBVIOUS
<1>1. CASE SetupForPool \/ ReloadPool \/ Surroundings \/ UNCHANGED vars
  <2>1. UNCHANGED <<balances, deducted, creditedWith, pc, local>>
    BY <1>1 DEF SetupForPool, ReloadPool, Surroundings, FindBlock, Mature, Reorg, vars, redis, history
  <2>2. CreditsAdd'
    BY <2>1 DEF FundsInv, CreditsAdd, CreditOf
  <2>3. ASSUME NEW s \in Slots PROVE BatchWithinDebts(s)' /\ EarnedIsCredit(s)'
    BY <2>1, SlotKept DEF local, FundsInv
  <2> QED  BY <2>2, <2>3 DEF FundsInv
<1>2. CASE Crash
  BY <1>2, FundsRestart DEF Crash
<1>3. CASE RunCommandsFile
  <2>1. CommandsFile \in Slots /\ LocalTypeOK /\ pc \in [Slots -> Stage]
    BY DEF Slots, TypeOK
  <2>2. CreditsAdd'
    BY <1>3, <2>1, FundsExecute DEF RunCommandsFile
  <2>3. BatchWithinDebts(CommandsFile)' /\ EarnedIsCredit(CommandsFile)'
    BY <1>3, <2>1, SlotEmpty DEF RunCommandsFile, Forget, LocalTypeOK
  <2>4. ASSUME NEW s \in Slots \ {CommandsFile}
        PROVE  BatchWithinDebts(s)' /\ EarnedIsCredit(s)'
    BY <1>3, <2>1, <2>4, SlotKept DEF RunCommandsFile, Forget, FundsInv, LocalTypeOK
  <2> QED  BY <2>2, <2>3, <2>4 DEF FundsInv
<1>4. ASSUME NEW c \in Cycles, CycleStep(c) PROVE FundsInv'
  BY <1>4, FundsCycleStep
<1> QED  BY <1>1, <1>2, <1>3, <1>4 DEF Next

-----------------------------------------------------------------------------
(***************************************************************************)
(* What a payment processor guarantees that runs one cycle at a time: no   *)
(* cycle is started while another is under way (the code does not make     *)
(* sure of that; it holds while a cycle is shorter than paymentInterval),  *)
(* and it is neither restarted nor reloaded while commands wait in the     *)
(* file.  Under these assumptions, and blocks of different heights, the    *)
(* invariants hold for all numbers of workers and blocks, all amounts, and *)
(* all other faults.                                                       *)
(***************************************************************************)
OneAtATime      == \A c, d \in Cycles : c = d
DistinctHeights == \A a, b \in Blocks : HeightOf[a] = HeightOf[b] => a = b
FaultsApart     == {"early_restart", "reload"} \cap Faults = {}

WithShares == { "lookup", "balance", "send", "commit", "failed" }

(* One slot at most is in use, and the file only when the timer is off.    *)
Exclusive ==
    /\ pc[CommandsFile] \in {"idle", "failed"}
    /\ pc[CommandsFile] = "failed" => timer = "off" /\ "redis_error" \in Faults
    /\ timer # "twice"
    /\ timer # "on" => \A c \in Cycles : pc[c] = "idle"
    /\ \A c \in Cycles : pc[c] # "failed"

(* The shares of a pending block's round are still there.                  *)
SharesKept ==
    \A b \in blocksPending :
        roundShares[HeightOf[b]] = sharesAt[b] /\ sharesAt[b] # NoShares

(* What a cycle has read is still so, and its batch is within the debts.   *)
ViewCurrent(s) ==
    /\ pc[s] # "idle" => balance[s] = balances /\ rounds[s] \subseteq blocksPending
    /\ pc[s] \in Classified =>
          canDeleteShares[s] = { b \in rounds[s] : category[s][b] \in Lost }
    /\ pc[s] \in WithShares => \A b \in rounds[s] : workerShares[s][b] = sharesAt[b]

SafetyInv ==
    /\ TypeOK
    /\ FilingInv
    /\ Exclusive
    /\ SharesKept
    /\ \A s \in Slots : ViewCurrent(s) /\ BatchWithinDebts(s)
    /\ NoOverdraft
    /\ CreditExact

(* Between sendmany and Redis, what the wallet has sent is the batch.      *)
PaidInv ==
    /\ \A s \in Slots : pc[s] \in {"commit", "failed"} =>
          \A w \in Workers : paid[w] = deducted[w] + unrecorded[w] + gross[s][w]
    /\ PaidIsDeducted

-----------------------------------------------------------------------------
LEMMA SafetyInit == Init => SafetyInv
<1> SUFFICES ASSUME Init PROVE SafetyInv
  OBVIOUS
<1>1. TypeOK /\ FilingInv
  BY InitType, FilingInit
<1>2. Exclusive /\ SharesKept
  BY DEF Init, Exclusive, SharesKept, Slots
<1>3. \A s \in Slots : ViewCurrent(s) /\ BatchWithinDebts(s)
  BY DEF Init, ViewCurrent, BatchWithinDebts, Classified, WithShares, WithBatch, NoRewards
<1>4. NoOverdraft /\ CreditExact
  BY DEF Init, NoOverdraft, CreditExact, NoRewards
<1> QED  BY <1>1, <1>2, <1>3, <1>4 DEF SafetyInv

LEMMA IdleSlot ==
    ASSUME NEW s \in Slots, pc'[s] = "idle", gross'[s] = NoRewards
    PROVE  ViewCurrent(s)' /\ BatchWithinDebts(s)'
  BY DEF ViewCurrent, BatchWithinDebts, Classified, WithShares, WithBatch, NoRewards

LEMMA OthersIdle ==
    ASSUME SafetyInv, OneAtATime, NEW c \in Cycles, timer = "on"
    PROVE  \A s \in Slots \ {c} : pc[s] = "idle" /\ gross[s] = NoRewards
<1>1. \A s \in Slots \ {c} : pc[s] = "idle"
  BY DEF SafetyInv, Exclusive, OneAtATime, Slots
<1> QED  BY <1>1 DEF SafetyInv, BatchWithinDebts, WithBatch

(* A step of a cycle that changes only what the cycle has in memory.       *)
LEMMA LocalStep ==
    ASSUME SafetyInv, OneAtATime, NEW c \in Cycles, timer = "on",
           TypeOK', FilingInv',
           UNCHANGED <<balances, blocksPending, blocksConfirmed, roundShares,
                       sharesAt, creditedWith, timer>>,
           \A s \in Slots \ {c} : UNCHANGED <<pc[s], gross[s]>>,
           pc'[c] # "failed", ViewCurrent(c)', BatchWithinDebts(c)'
    PROVE  SafetyInv'
<1>0. c # CommandsFile
  BY ProcessorAssumption
<1>1. Exclusive'
  BY <1>0 DEF SafetyInv, Exclusive, OneAtATime, Slots
<1>2. SharesKept' /\ NoOverdraft' /\ CreditExact'
  BY DEF SafetyInv, SharesKept, NoOverdraft, CreditExact
<1>3. \A s \in Slots : ViewCurrent(s)' /\ BatchWithinDebts(s)'
  <2>1. \A s \in Slots \ {c} : pc'[s] = "idle" /\ gross'[s] = NoRewards
    BY OthersIdle
  <2> QED  BY <2>1, IdleSlot
<1> QED  BY <1>1, <1>2, <1>3 DEF SafetyInv

(* What the final MULTI does to Redis.                                     *)
LEMMA ExecuteSafe ==
    ASSUME SafetyInv, DistinctHeights, NEW s \in Slots, pc[s] \in {"commit", "failed"},
           Execute(s)
    PROVE  NoOverdraft' /\ CreditExact' /\ SharesKept'
<1> USE DEF SafetyInv, TypeOK
<1>0. /\ balance[s] = balances
      /\ rounds[s] \subseteq blocksPending
      /\ canDeleteShares[s] = { b \in rounds[s] : category[s][b] \in Lost }
      /\ \A b \in rounds[s] : workerShares[s][b] = sharesAt[b]
      /\ donors[s] \cap valid[s] = {}
  BY DEF ViewCurrent, BatchWithinDebts, Classified, WithShares, WithBatch
<1>1. ASSUME NEW w \in Workers PROVE balances'[w] >= 0
  <2>1. balances'[w] = balances[w] + BalanceChange(s, w)
    BY DEF Execute
  <2>2. balances[w] \in Int /\ reward[s][w] \in Nat /\ gross[s][w] \in Nat
    BY DEF RedisTypeOK, LocalTypeOK
  <2>3. balances[w] >= 0
    BY DEF NoOverdraft
  <2>4. CASE w \in donors[s]
    BY <1>0, <2>1, <2>2, <2>4 DEF BalanceChange
  <2>5. CASE w \notin donors[s]
    <3>1. gross[s][w] > 0 => gross[s][w] <= balances[w] + reward[s][w]
      BY <1>0 DEF BatchWithinDebts
    <3> QED  BY <2>1, <2>2, <2>3, <2>5, <3>1 DEF BalanceChange
  <2> QED  BY <2>4, <2>5
<1>2. ASSUME NEW b \in Blocks
      PROVE  creditedWith'[b] = IF b \in blocksConfirmed' THEN << sharesAt'[b] >> ELSE << >>
  <2>1. sharesAt'[b] = sharesAt[b]
    BY DEF Execute
  <2>2. CASE b \in rounds[s] /\ category[s][b] = "generate"
    <3>1. b \in blocksPending /\ b \notin blocksConfirmed /\ b \in blocksConfirmed'
      BY <1>0, <2>2 DEF Execute, Moved, FilingInv, FiledOnce
    <3>2. creditedWith[b] = << >>
      BY <3>1 DEF CreditExact
    <3>3. workerShares[s][b] = sharesAt[b] /\ sharesAt[b] # NoShares
      BY <1>0, <2>2, <3>1 DEF SharesKept
    <3>4. creditedWith'[b] = Append(creditedWith[b], workerShares[s][b])
      BY <2>2, <3>3 DEF Execute
    <3>5. Append(<< >>, sharesAt[b]) = << sharesAt[b] >>
      OBVIOUS
    <3> QED  BY <2>1, <3>1, <3>2, <3>3, <3>4, <3>5
  <2>3. CASE ~(b \in rounds[s] /\ category[s][b] = "generate")
    BY <2>1, <2>3 DEF Execute, Moved, CreditExact
  <2> QED  BY <2>2, <2>3
<1>3. ASSUME NEW b \in blocksPending'
      PROVE  roundShares'[HeightOf[b]] = sharesAt'[b] /\ sharesAt'[b] # NoShares
  <2>1. b \in blocksPending /\ b \notin rounds[s] /\ b \in Blocks
    BY <1>3 DEF Execute, Moved, RedisTypeOK
  <2>2. HeightOf[b] \in Heights
    BY <2>1, EmptyTypes
  <2>3. HeightOf[b] \notin RoundsToDelete(s)
    BY <1>0, <2>1 DEF RoundsToDelete, DistinctHeights, LocalTypeOK
  <2> QED  BY <2>1, <2>2, <2>3 DEF Execute, SharesKept
<1> QED  BY <1>1, <1>2, <1>3 DEF NoOverdraft, CreditExact, SharesKept

(* The shares of the rounds a cycle writes out are there: nothing throws.  *)
LEMMA NothingMissing ==
    ASSUME SafetyInv, NEW s \in Slots, pc[s] \in {"commit", "failed"}
    PROVE  ~SharesMissing(s)
  BY DEF SafetyInv, ViewCurrent, SharesKept, SharesMissing, Classified, WithShares

-----------------------------------------------------------------------------
LEMMA SafetyCycleStep ==
    ASSUME SafetyInv, OneAtATime, DistinctHeights, FaultsApart,
           NEW c \in Cycles, CycleStep(c)
    PROVE  SafetyInv'
<1> USE DEF SafetyInv
<1>0. /\ c \in Slots
      /\ c # CommandsFile
      /\ timer = "on"
  BY ProcessorAssumption
     DEF Slots, Exclusive, CycleStep, TimerRuns, ReadRounds, StopCycle, ClassifyRounds,
         ReadShares,
         LookupAddresses, GetBalance, BalanceUnknown, SendAccepted, SendInsufficient,
         SendFailed, DeferPendingPayable, Commit, CommitFails, CommitThrows
<1>t. TypeOK' /\ FilingInv'
  BY CycleStepType, FilingCycleStep
<1>v. ViewCurrent(c) /\ BatchWithinDebts(c)
  BY <1>0
<1>y. LocalTypeOK /\ pc \in [Slots -> Stage] /\ RedisTypeOK
  BY DEF TypeOK
<1> USE DEF LocalTypeOK
<1>1. CASE ReadRounds(c)
  <2>1. ViewCurrent(c)' /\ BatchWithinDebts(c)'
    BY <1>0, <1>1, <1>v, <1>y DEF ReadRounds, Goto, redis, history, ViewCurrent,
         BatchWithinDebts, Classified, WithShares, WithBatch, NoRewards
  <2> QED  BY <1>0, <1>1, <1>t, <1>y, <2>1, LocalStep
           DEF TimerRuns, ReadRounds, Goto, redis, history
<1>2. CASE StopCycle(c)
  <2>1. ViewCurrent(c)' /\ BatchWithinDebts(c)'
    BY <1>0, <1>2, <1>y, IdleSlot DEF StopCycle, Forget
  <2> QED  BY <1>0, <1>2, <1>t, <1>y, <2>1, LocalStep
           DEF StopCycle, Forget, redis, history
<1>3. CASE ClassifyRounds(c)
  <2>1. PICK cats \in [rounds[c] -> Category] :
            /\ rounds' = [rounds EXCEPT ![c] =
                  { b \in rounds[c] : cats[b] \in Settled }]
            /\ category' = [category EXCEPT ![c] = [b \in Blocks |->
                  IF b \in { r \in rounds[c] : cats[r] \in Settled }
                  THEN cats[b] ELSE "undefined"]]
            /\ canDeleteShares' = [canDeleteShares EXCEPT ![c] =
                  { b \in { r \in rounds[c] : cats[r] \in Settled } :
                        cats[b] \in Lost /\ CanDeleteShares(rounds[c], cats, b) }]
    BY <1>3 DEF ClassifyRounds
  <2>2. \A b \in rounds[c] : CanDeleteShares(rounds[c], cats, b)
    BY <1>0, <1>y DEF CanDeleteShares, DistinctHeights
  <2>3. canDeleteShares'[c] = { b \in rounds'[c] : category'[c][b] \in Lost }
    BY <1>0, <1>y, <2>1, <2>2
  <2>4. ViewCurrent(c)'
    <3>1. balance'[c] = balances' /\ rounds'[c] \subseteq blocksPending'
      BY <1>0, <1>3, <1>v, <1>y, <2>1 DEF ClassifyRounds, redis, ViewCurrent
    <3>2. pc'[c] = "shares"
      BY <1>0, <1>3, <1>y DEF ClassifyRounds, Goto
    <3> QED  BY <2>3, <3>1, <3>2 DEF ViewCurrent, WithShares
  <2>5. BatchWithinDebts(c)'
    BY <1>0, <1>3, <1>v, <1>y DEF ClassifyRounds, Goto, BatchWithinDebts, WithBatch,
                                  NoRewards
  <2> QED  BY <1>0, <1>3, <1>t, <1>y, <2>4, <2>5, LocalStep
           DEF ClassifyRounds, Goto, redis, history
<1>4. CASE ReadShares(c)
  <2>1. \A b \in rounds[c] : workerShares'[c][b] = roundShares[HeightOf[b]]
    BY <1>0, <1>4, <1>y DEF ReadShares
  <2>2. \A b \in rounds[c] : roundShares[HeightOf[b]] = sharesAt[b]
    BY <1>4, <1>v DEF ReadShares, ViewCurrent, SharesKept
  <2>3. ViewCurrent(c)'
    BY <1>0, <1>4, <1>v, <1>y, <2>1, <2>2
       DEF ReadShares, Goto, redis, history, ViewCurrent, Classified
  <2>4. BatchWithinDebts(c)'
    BY <1>0, <1>4, <1>v, <1>y DEF ReadShares, Goto, BatchWithinDebts, WithBatch, NoRewards
  <2> QED  BY <1>0, <1>4, <1>t, <1>y, <2>3, <2>4, LocalStep
           DEF ReadShares, Goto, redis, history
<1>5. CASE LookupAddresses(c)
  <2>1. ViewCurrent(c)'
    BY <1>0, <1>5, <1>v, <1>y
       DEF LookupAddresses, Goto, redis, history, ViewCurrent, Classified, WithShares
  <2>2. donors'[c] \cap valid'[c] = {}
    BY <1>0, <1>5, <1>y DEF LookupAddresses, Donors
  <2>3. BatchWithinDebts(c)'
    BY <1>0, <1>5, <1>v, <1>y, <2>2
       DEF LookupAddresses, Goto, BatchWithinDebts, WithBatch, NoRewards
  <2> QED  BY <1>0, <1>5, <1>t, <1>y, <2>1, <2>3, LocalStep
           DEF LookupAddresses, Goto, redis, history
<1>6. CASE GetBalance(c)
  <2>1. Owed(c) \in [Workers -> Int] /\ valid[c] \in SUBSET Workers
    BY <1>0, <1>y DEF Owed
  <2>2. PICK order \in AscendingOrders(valid[c], Owed(c)) :
            gross' = [gross EXCEPT ![c] = GrossAmounts(order, Owed(c),
                                          RemainingBefore(order, Owed(c), wallet))]
    BY <1>6 DEF GetBalance
  <2>3. wallet \in Int
    BY DEF TypeOK, NodeTypeOK
  <2>4. \A w \in Workers : gross'[c][w] > 0 =>
            w \in valid[c] /\ gross'[c][w] <= balance[c][w] + reward[c][w]
    <3>1. gross'[c] = GrossAmounts(order, Owed(c),
                                   RemainingBefore(order, Owed(c), wallet))
      BY <1>0, <1>y, <2>2
    <3>2. \A w \in Workers : gross'[c][w] > 0 =>
             w \in valid[c] /\ gross'[c][w] <= Owed(c)[w]
      BY <2>1, <2>3, <3>1, GrossAmountsType
    <3> QED  BY <3>2 DEF Owed
  <2>5. pc'[c] \in {"commit", "send"}
    BY <1>0, <1>6, <1>y DEF GetBalance, Goto
  <2>6. BatchWithinDebts(c)'
    BY <1>0, <1>6, <1>v, <1>y, <2>4, <2>5 DEF GetBalance, BatchWithinDebts, WithBatch
  <2>7. ViewCurrent(c)'
    BY <1>0, <1>6, <1>v, <1>y, <2>5
       DEF GetBalance, redis, history, ViewCurrent, Classified, WithShares
  <2> QED  BY <1>0, <1>6, <1>t, <1>y, <2>2, <2>5, <2>6, <2>7, LocalStep
           DEF GetBalance, Goto, redis, history
<1>7. CASE BalanceUnknown(c)
  <2>1. ViewCurrent(c)' /\ BatchWithinDebts(c)'
    BY <1>0, <1>7, <1>v, <1>y
       DEF BalanceUnknown, Goto, redis, local, history, ViewCurrent, BatchWithinDebts,
           Classified, WithShares, WithBatch, NoRewards
  <2> QED  BY <1>0, <1>7, <1>t, <1>y, <2>1, LocalStep
           DEF BalanceUnknown, Goto, redis, local, history
<1>8. CASE SendAccepted(c)
  <2>1. ViewCurrent(c)' /\ BatchWithinDebts(c)'
    BY <1>0, <1>8, <1>v, <1>y
       DEF SendAccepted, WalletSends, Goto, redis, local, ViewCurrent, BatchWithinDebts,
           Classified, WithShares, WithBatch
  <2> QED  BY <1>0, <1>8, <1>t, <1>y, <2>1, LocalStep
           DEF SendAccepted, WalletSends, Goto, redis, local
<1>9. CASE SendInsufficient(c)
  <2>1. ViewCurrent(c)' /\ BatchWithinDebts(c)'
    BY <1>0, <1>9, <1>v, <1>y
       DEF SendInsufficient, DeferPendingPayable, Goto, redis, history, ViewCurrent,
           BatchWithinDebts,
           Classified, WithShares, WithBatch, NoRewards
  <2> QED  BY <1>0, <1>9, <1>t, <1>y, <2>1, LocalStep
           DEF SendInsufficient, DeferPendingPayable, Goto, redis, history
<1>10. CASE SendFailed(c)
  <2>1. UNCHANGED <<sharesAt, creditedWith>>
    BY <1>10 DEF SendFailed, WalletSends, history
  <2>2. ViewCurrent(c)' /\ BatchWithinDebts(c)'
    BY <1>0, <1>10, <1>v, <1>y, <2>1
       DEF SendFailed, DeferPendingPayable, Goto, redis, ViewCurrent, BatchWithinDebts,
           Classified, WithShares, WithBatch, NoRewards
  <2> QED  BY <1>0, <1>10, <1>t, <1>y, <2>1, <2>2, LocalStep
           DEF SendFailed, DeferPendingPayable, Goto, redis
<1>11. CASE Commit(c)
  <2>1. NoOverdraft' /\ CreditExact' /\ SharesKept'
    BY <1>0, <1>11, ExecuteSafe DEF Commit
  <2>2. \A s \in Slots : pc'[s] = "idle" /\ gross'[s] = NoRewards
    BY <1>0, <1>11, <1>y, OthersIdle DEF Commit, Forget
  <2>3. Exclusive'
    BY <1>0, <1>11, <2>2 DEF Commit, Exclusive, Slots
  <2> QED  BY <1>t, <2>1, <2>2, <2>3, IdleSlot
<1>12. CASE CommitFails(c)
  <2>1. NoOverdraft' /\ CreditExact' /\ SharesKept'
    BY <1>12 DEF CommitFails, redis, NoOverdraft, CreditExact, SharesKept
  <2>2. \A s \in Slots \ {CommandsFile} : pc'[s] = "idle" /\ gross'[s] = NoRewards
    BY <1>0, <1>12, <1>y, OthersIdle DEF CommitFails, MoveToFile
  <2>3. pc[c] = "commit" /\ pc'[CommandsFile] = "failed"
    BY <1>12, <1>y DEF CommitFails, Slots
  <2>4. Exclusive'
    <3>1. \A d \in Cycles : pc'[d] = "idle"
      BY <2>2, ProcessorAssumption DEF Slots
    <3>2. timer' = "off" /\ "redis_error" \in Faults
      BY <1>0, <1>12 DEF CommitFails, ClearInterval, FaultsApart
    <3> QED  BY <2>3, <3>1, <3>2 DEF Exclusive
  <2>5. /\ rounds'[CommandsFile] = rounds[c]
        /\ category'[CommandsFile] = category[c]
        /\ canDeleteShares'[CommandsFile] = canDeleteShares[c]
        /\ workerShares'[CommandsFile] = workerShares[c]
        /\ balance'[CommandsFile] = balance[c]
        /\ reward'[CommandsFile] = reward[c]
        /\ valid'[CommandsFile] = valid[c]
        /\ donors'[CommandsFile] = donors[c]
        /\ gross'[CommandsFile] = gross[c]
    BY <1>0, <1>12, <1>y DEF CommitFails, MoveToFile, Slots
  <2>6. ViewCurrent(CommandsFile)'
    BY <1>12, <1>v, <2>3, <2>5
       DEF CommitFails, redis, ViewCurrent, Classified, WithShares
  <2>7. BatchWithinDebts(CommandsFile)'
    BY <1>v, <2>3, <2>5 DEF BatchWithinDebts, WithBatch
  <2> QED  BY <1>t, <2>1, <2>2, <2>4, <2>6, <2>7, IdleSlot
<1>13. CASE CommitThrows(c)
  BY <1>0, <1>13, NothingMissing DEF CommitThrows
<1> QED  BY <1>1, <1>2, <1>3, <1>4, <1>5, <1>6, <1>7, <1>8, <1>9, <1>10, <1>11, <1>12,
            <1>13 DEF CycleStep

(* Steps of the surroundings: a new block changes nothing a cycle uses.    *)
LEMMA SafetySurroundings ==
    ASSUME SafetyInv, DistinctHeights, NEW b \in Blocks,
           FindBlock(b) \/ Mature(b) \/ Reorg(b)
    PROVE  SafetyInv'
<1> USE DEF SafetyInv
<1>1. TypeOK' /\ FilingInv'
  BY SurroundingsType, FilingSurroundings
<1>2. UNCHANGED <<timer, pc, local, balances, blocksConfirmed, creditedWith>>
  BY DEF FindBlock, Mature, Reorg, redis, history
<1>3. CASE Mature(b) \/ Reorg(b)
  <2>1. UNCHANGED <<blocksPending, roundShares, sharesAt>>
    BY <1>3 DEF Mature, Reorg, redis, history
  <2>2. Exclusive' /\ SharesKept' /\ NoOverdraft' /\ CreditExact'
    BY <1>2, <2>1 DEF Exclusive, SharesKept, NoOverdraft, CreditExact
  <2>3. \A s \in Slots : ViewCurrent(s)' /\ BatchWithinDebts(s)'
    BY <1>2, <2>1 DEF local, ViewCurrent, BatchWithinDebts
  <2> QED  BY <1>1, <2>2, <2>3
<1>4. CASE FindBlock(b)
  <2>1. b \notin blocksPending /\ b \notin blocksConfirmed
    BY <1>4 DEF FindBlock, FilingInv, FiledOnce
  <2>2. PICK shares \in RoundHashes :
            LET hash == [w \in Workers |-> roundCurrent[w] + shares[w]]
            IN  /\ roundShares' = [roundShares EXCEPT ![HeightOf[b]] = hash]
                /\ sharesAt' = [sharesAt EXCEPT ![b] = hash]
    BY <1>4 DEF FindBlock
  <2>3. roundCurrent \in [Workers -> Nat] /\ shares \in [Workers -> Nat] /\ shares # NoShares
    BY ProcessorAssumption DEF TypeOK, RedisTypeOK, ShareHash
  <2>4. [w \in Workers |-> roundCurrent[w] + shares[w]] # NoShares
    <3>1. PICK w \in Workers : shares[w] # 0
      BY <2>3 DEF NoShares
    <3>2. roundCurrent[w] + shares[w] # 0
      BY <2>3, <3>1
    <3> QED  BY <3>2 DEF NoShares
  <2>5. /\ \A o \in Blocks \ {b} : HeightOf[o] # HeightOf[b]
        /\ \A o \in Blocks : HeightOf[o] \in Heights
    BY EmptyTypes DEF DistinctHeights
  <2>6. \A o \in Blocks \ {b} :
            UNCHANGED <<roundShares[HeightOf[o]], sharesAt[o]>>
    BY <2>2, <2>5 DEF TypeOK, RedisTypeOK, HistoryTypeOK
  <2>7. roundShares'[HeightOf[b]] = sharesAt'[b] /\ sharesAt'[b] # NoShares
    BY <2>2, <2>4, <2>5 DEF TypeOK, RedisTypeOK, HistoryTypeOK
  <2>8. blocksPending' = blocksPending \cup {b} /\ blocksPending \subseteq Blocks
    BY <1>4 DEF FindBlock, TypeOK, RedisTypeOK
  <2>9. SharesKept'
    BY <2>6, <2>7, <2>8 DEF SharesKept
  <2>10. CreditExact'
    BY <1>2, <2>1, <2>6 DEF CreditExact
  <2>11. Exclusive' /\ NoOverdraft'
    BY <1>2 DEF Exclusive, NoOverdraft
  <2>12. ASSUME NEW s \in Slots PROVE ViewCurrent(s)' /\ BatchWithinDebts(s)'
    <3>1. pc[s] # "idle" => rounds[s] \subseteq Blocks \ {b}
      BY <2>1, <2>8 DEF ViewCurrent
    <3>2. ViewCurrent(s)'
      BY <1>2, <2>6, <2>8, <3>1 DEF local, ViewCurrent, Classified, WithShares
    <3> QED  BY <1>2, <3>2 DEF local, BatchWithinDebts
  <2> QED  BY <1>1, <2>9, <2>10, <2>11, <2>12
<1> QED  BY <1>3, <1>4

LEMMA SafetyNext ==
    ASSUME SafetyInv, OneAtATime, DistinctHeights, FaultsApart, [Next]_vars
    PROVE  SafetyInv'
<1> USE DEF SafetyInv
<1>1. TypeOK' /\ FilingInv'
  BY NextType, FilingNext
<1>2. CASE SetupForPool \/ ReloadPool \/ UNCHANGED vars
  <2>0. ~ReloadPool
    BY DEF ReloadPool, FaultsApart
  <2>1. UNCHANGED <<redis, pc, local, history>>
    BY <1>2, <2>0 DEF SetupForPool, vars
  <2>2. timer' # timer => timer = "starting" /\ timer' \in {"on", "off"}
    BY <1>2, <2>0 DEF SetupForPool, vars
  <2>3. Exclusive'
    BY <2>1, <2>2 DEF Exclusive
  <2>4. SharesKept' /\ NoOverdraft' /\ CreditExact'
    BY <2>1 DEF redis, history, SharesKept, NoOverdraft, CreditExact
  <2>5. \A s \in Slots : ViewCurrent(s)' /\ BatchWithinDebts(s)'
    BY <2>1 DEF redis, local, history, ViewCurrent, BatchWithinDebts
  <2> QED  BY <1>1, <2>3, <2>4, <2>5
<1>3. CASE Crash
  <2>1. pc[CommandsFile] = "idle" /\ gross[CommandsFile] = NoRewards
    BY <1>3 DEF Crash, FaultsApart, Exclusive, BatchWithinDebts, WithBatch, Slots
  <2>2. \A s \in Slots : pc'[s] = "idle" /\ gross'[s] = NoRewards
    BY <1>3, <2>1 DEF Crash, Restart, Survives
  <2>3. SharesKept' /\ NoOverdraft' /\ CreditExact'
    BY <1>3 DEF Crash, Restart, redis, SharesKept, NoOverdraft, CreditExact
  <2>4. Exclusive'
    BY <1>3, <2>2 DEF Crash, Restart, Exclusive, Slots
  <2> QED  BY <1>1, <2>2, <2>3, <2>4, IdleSlot
<1>4. CASE RunCommandsFile
  <2>1. pc[CommandsFile] = "failed" /\ CommandsFile \in Slots
    BY <1>4 DEF RunCommandsFile, Slots
  <2>2. NoOverdraft' /\ CreditExact' /\ SharesKept'
    BY <1>4, <2>1, ExecuteSafe DEF RunCommandsFile
  <2>3. timer' = "off" /\ \A c \in Cycles : pc[c] = "idle"
    BY <1>4, <2>1 DEF RunCommandsFile, Exclusive
  <2>4. \A c \in Cycles : gross[c] = NoRewards
    BY <2>3 DEF BatchWithinDebts, WithBatch, Slots
  <2>5. \A s \in Slots : pc'[s] = "idle" /\ gross'[s] = NoRewards
    BY <1>4, <2>1, <2>3, <2>4
       DEF RunCommandsFile, Forget, Slots, TypeOK, LocalTypeOK
  <2>6. Exclusive'
    BY <2>3, <2>5 DEF Exclusive, Slots
  <2> QED  BY <1>1, <2>2, <2>5, <2>6, IdleSlot
<1>5. CASE Surroundings
  BY <1>5, SafetySurroundings DEF Surroundings
<1>6. ASSUME NEW c \in Cycles, CycleStep(c) PROVE SafetyInv'
  BY <1>6, SafetyCycleStep
<1> QED  BY <1>2, <1>3, <1>4, <1>5, <1>6 DEF Next

-----------------------------------------------------------------------------
(* Every reachable state of such a processor satisfies the invariant.      *)
THEOREM SafetyInvariant ==
    ASSUME OneAtATime, DistinctHeights, FaultsApart
    PROVE  Spec => []SafetyInv
<1>1. SafetyInv /\ [Next]_vars => SafetyInv'
  BY SafetyNext
<1> QED  BY SafetyInit, <1>1, PTL DEF Spec

(* Lines 614-619: no balance goes below zero, for any rewards, shares,     *)
(* spendable balances, network fees and reorgs: what is taken off was      *)
(* there.                                                                  *)
THEOREM BalancesCover ==
    ASSUME OneAtATime, DistinctHeights, FaultsApart
    PROVE  Spec => []NoOverdraft
<1>1. SafetyInv => NoOverdraft
  BY DEF SafetyInv
<1> QED  BY SafetyInvariant, <1>1, PTL

(* Lines 358-371 and 679: every confirmed block has been credited once, by *)
(* the shares of its round.                                                *)
THEOREM BlocksCreditedOnce ==
    ASSUME OneAtATime, DistinctHeights, FaultsApart
    PROVE  Spec => []CreditExact
<1>1. SafetyInv => CreditExact
  BY DEF SafetyInv
<1> QED  BY SafetyInvariant, <1>1, PTL

(* A block that is credited once, by the shares of its round.              *)
LEMMA CreditOnce ==
    ASSUME TypeOK, CreditExact, NEW b \in Blocks
    PROVE  CreditOf(b) = IF b \in blocksConfirmed
                         THEN SumOver(RewardSplit(BlockReward, sharesAt[b])) ELSE 0
<1>1. CASE b \in blocksConfirmed
  <2> DEFINE pay == [i \in {1} |-> SumOver(RewardSplit(BlockReward, << sharesAt[b] >>[i]))]
  <2>1. creditedWith[b] = << sharesAt[b] >>
    BY <1>1 DEF CreditExact
  <2>d. DOMAIN << sharesAt[b] >> = {1}
    <3>1. DOMAIN << sharesAt[b] >> = 1..1
      OBVIOUS
    <3> QED  BY <3>1
  <2>2. CreditOf(b) = SumFunctionOnSet(pay, {1})
    BY <2>1, <2>d DEF CreditOf
  <2>3. pay[1] = SumOver(RewardSplit(BlockReward, sharesAt[b])) /\ pay[1] \in Int
    <3>1. BlockCredit(sharesAt[b]) \in Nat
      BY BlockCreditType DEF TypeOK, HistoryTypeOK
    <3> QED  BY <3>1 DEF BlockCredit
  <2>4. SumFunctionOnSet(pay, {1}) = pay[1] + SumFunctionOnSet(pay, {1} \ {1})
    <3> HIDE DEF pay
    <3>1. IsFiniteSet({1}) /\ \A x \in {1} : pay[x] \in Int
      BY <2>3, FS_Singleton
    <3> QED  BY <3>1, SumTake
  <2>5. {1} \ {1} = {}
    OBVIOUS
  <2>6. SumFunctionOnSet(pay, {}) = 0
    BY SumEmpty
  <2> HIDE DEF pay
  <2> QED  BY <1>1, <2>2, <2>3, <2>4, <2>5, <2>6
<1>2. CASE b \notin blocksConfirmed
  <2>1. creditedWith[b] = << >>
    BY <1>2 DEF CreditExact
  <2>2. DOMAIN creditedWith[b] = {}
    <3>1. DOMAIN << >> = 1..0
      OBVIOUS
    <3> QED  BY <2>1, <3>1
  <2> QED  BY <1>2, <2>2, SumEmpty DEF CreditOf
<1> QED  BY <1>1, <1>2

LEMMA EachCreditOnce ==
    ASSUME TypeOK, CreditExact, CreditsAdd
    PROVE  FundsConserved
<1> DEFINE worth(b) == SumOver(RewardSplit(BlockReward, sharesAt[b]))
           f == [b \in Blocks |-> worth(b)]
           g == [b \in Blocks |-> CreditOf(b)]
           h == [b \in Blocks |-> IF b \in blocksConfirmed THEN f[b] ELSE 0]
<1>1. IsFiniteSet(Blocks) /\ blocksConfirmed \in SUBSET Blocks
  BY ProcessorAssumption DEF TypeOK, RedisTypeOK
<1>2. ASSUME NEW b \in Blocks PROVE f[b] \in Int /\ g[b] = h[b]
  <2>1. BlockCredit(sharesAt[b]) \in Nat
    BY BlockCreditType DEF TypeOK, HistoryTypeOK
  <2> QED  BY <2>1, CreditOnce DEF BlockCredit
<1>3. SumFunctionOnSet(g, Blocks) = SumFunctionOnSet(h, Blocks)
  <2> HIDE DEF g, h
  <2> QED  BY <1>1, <1>2, SumEqual
<1>4. SumFunctionOnSet(h, Blocks) = SumFunctionOnSet(f, blocksConfirmed)
  <2> HIDE DEF f
  <2> QED  BY <1>1, <1>2, SumWhere
<1> QED  BY <1>3, <1>4 DEF CreditsAdd, FundsConserved

(* Lines 358-371, 405-418 and 475-478: no cycle makes or loses money: the  *)
(* balances and what has been taken off them add up to the rewards of the  *)
(* confirmed blocks, each counted once.                                    *)
THEOREM MoneyIsConserved ==
    ASSUME OneAtATime, DistinctHeights, FaultsApart
    PROVE  Spec => []FundsConserved
<1>1. SafetyInv /\ FundsInv => FundsConserved
  BY EachCreditOnce DEF SafetyInv, FundsInv
<1> QED  BY <1>1, SafetyInvariant, TypeCorrect, FundsInit, FundsNext, PTL DEF Spec

-----------------------------------------------------------------------------
(* What the wallet has sent is the deducted amounts, the open batch and    *)
(* the batches whose record was lost.                                      *)
AllRecorded == \A w \in Workers : paid[w] = deducted[w] + unrecorded[w]

LEMMA PaidInit == Init => PaidInv
  BY DEF Init, PaidInv, PaidIsDeducted, NoRewards

(* The one cycle there is has the open batch.                              *)
LEMMA OpenBatch ==
    ASSUME TypeOK, OneAtATime, NEW w \in Workers
    PROVE  /\ \A c \in Cycles : pc[c] = "commit" => OpenBatches[w] = gross[c][w]
           /\ (\A c \in Cycles : pc[c] # "commit") => OpenBatches[w] = 0
<1> DEFINE open == [c \in Cycles |-> IF pc[c] = "commit" THEN gross[c][w] ELSE 0]
<1>1. OpenBatches[w] = SumFunctionOnSet(open, Cycles)
  BY DEF OpenBatches
<1>2. \A c \in Cycles : open[c] \in Int
  BY DEF TypeOK, LocalTypeOK, Slots
<1>3. ASSUME NEW c \in Cycles, pc[c] = "commit" PROVE OpenBatches[w] = gross[c][w]
  <2>1. Cycles \ {c} = {}
    BY DEF OneAtATime
  <2>2. open[c] = gross[c][w]
    BY <1>3
  <2> HIDE DEF open
  <2>3. SumFunctionOnSet(open, Cycles) = open[c] + SumFunctionOnSet(open, Cycles \ {c})
    BY <1>2, SumTake, ProcessorAssumption
  <2>4. SumFunctionOnSet(open, Cycles \ {c}) = 0
    BY <2>1, SumEmpty
  <2>5. open[c] \in Int
    BY <1>2
  <2> QED  BY <1>1, <2>2, <2>3, <2>4, <2>5
<1>4. ASSUME \A c \in Cycles : pc[c] # "commit" PROVE OpenBatches[w] = 0
  <2>1. \A c \in Cycles : open[c] = 0
    BY <1>4
  <2> HIDE DEF open
  <2> QED  BY <1>1, <2>1, SumZero, ProcessorAssumption
<1> QED  BY <1>3, <1>4

LEMMA PaidCycleStep ==
    ASSUME SafetyInv, PaidInv, OneAtATime, NEW c \in Cycles, CycleStep(c)
    PROVE  PaidInv'
<1> USE DEF SafetyInv
<1>0. /\ c \in Slots
      /\ c # CommandsFile
      /\ timer = "on"
  BY ProcessorAssumption
     DEF Slots, Exclusive, CycleStep, TimerRuns, ReadRounds, StopCycle, ClassifyRounds,
         ReadShares,
         LookupAddresses, GetBalance, BalanceUnknown, SendAccepted, SendInsufficient,
         SendFailed, DeferPendingPayable, Commit, CommitFails, CommitThrows
<1>t. TypeOK /\ LocalTypeOK /\ pc \in [Slots -> Stage] /\ HistoryTypeOK
  BY DEF TypeOK
<1>o. \A s \in Slots \ {c} : pc[s] = "idle" /\ gross[s] = NoRewards
  BY <1>0, OthersIdle
<1>d. pc[c] \notin {"commit", "failed"} => AllRecorded
  BY <1>o DEF PaidInv, PaidIsDeducted, AllRecorded
<1>z. \A w \in Workers : /\ NoRewards[w] = 0 /\ paid[w] \in Nat /\ deducted[w] \in Nat
                         /\ unrecorded[w] \in Nat /\ gross[c][w] \in Nat
  BY <1>0, <1>t DEF NoRewards, HistoryTypeOK, LocalTypeOK
<1> USE DEF LocalTypeOK, HistoryTypeOK
<1>1. CASE ReadRounds(c) \/ StopCycle(c) \/ ClassifyRounds(c) \/ ReadShares(c)
              \/ LookupAddresses(c)
  <2>1. UNCHANGED <<paid, deducted, unrecorded>> /\ pc[c] \notin {"commit", "failed"}
    BY <1>1 DEF ReadRounds, StopCycle, ClassifyRounds, ReadShares, LookupAddresses,
                history
  <2>2. \A s \in Slots : pc'[s] \notin {"commit", "failed"}
    BY <1>0, <1>1, <1>t, <1>o
       DEF ReadRounds, StopCycle, ClassifyRounds, ReadShares, LookupAddresses, Goto,
           Forget
  <2> QED  BY <1>d, <2>1, <2>2 DEF PaidInv, PaidIsDeducted, AllRecorded
<1>2. CASE GetBalance(c) \/ BalanceUnknown(c)
  <2>1. UNCHANGED <<paid, deducted, unrecorded>> /\ AllRecorded
    BY <1>2, <1>d DEF GetBalance, BalanceUnknown, history
  <2>2. \A s \in Slots \ {c} : pc'[s] = "idle"
    BY <1>0, <1>2, <1>o, <1>t DEF GetBalance, BalanceUnknown, Goto
  <2>3. pc'[c] = "commit" => gross'[c] = NoRewards
    <3>1. CASE GetBalance(c)
      <4>1. PICK batch :
              /\ gross' = [gross EXCEPT ![c] = batch]
              /\ pc' = [pc EXCEPT ![c] = IF batch = NoRewards THEN "commit" ELSE "send"]
        BY <3>1 DEF GetBalance, Goto
      <4> QED  BY <1>0, <1>t, <4>1
    <3>2. CASE BalanceUnknown(c)
      BY <1>0, <3>2 DEF BalanceUnknown, local, BatchWithinDebts, WithBatch
    <3> QED  BY <1>2, <3>1, <3>2
  <2>4. pc'[c] \in {"commit", "send"}
    BY <1>0, <1>2, <1>t DEF GetBalance, BalanceUnknown, Goto
  <2> QED  BY <1>z, <2>1, <2>2, <2>3, <2>4 DEF PaidInv, PaidIsDeducted, AllRecorded
<1>3. CASE SendAccepted(c)
  <2>1. /\ paid' = [w \in Workers |-> paid[w] + gross[c][w]]
        /\ deducted' = deducted /\ unrecorded' = unrecorded
        /\ gross' = gross /\ pc[c] = "send"
    BY <1>3 DEF SendAccepted, WalletSends, local
  <2>2. pc'[c] = "commit" /\ \A s \in Slots \ {c} : pc'[s] = "idle"
    BY <1>0, <1>3, <1>o, <1>t DEF SendAccepted, Goto
  <2>3. AllRecorded
    BY <1>d, <2>1
  <2>4. \A w \in Workers : paid'[w] = deducted'[w] + unrecorded'[w] + gross'[c][w]
    BY <1>z, <2>1, <2>3 DEF AllRecorded
  <2> QED  BY <1>0, <2>2, <2>4 DEF PaidInv, PaidIsDeducted
<1>4. CASE SendInsufficient(c) \/ SendFailed(c)
  <2>1. AllRecorded'
    <3>1. AllRecorded
      BY <1>4, <1>d DEF SendInsufficient, SendFailed
    <3>2. CASE UNCHANGED <<paid, deducted, unrecorded>>
      BY <3>1, <3>2 DEF AllRecorded
    <3>3. CASE /\ paid' = [w \in Workers |-> paid[w] + gross[c][w]]
               /\ deducted' = deducted
               /\ unrecorded' = [w \in Workers |-> unrecorded[w] + gross[c][w]]
      BY <1>z, <3>1, <3>3 DEF AllRecorded
    <3> QED  BY <1>4, <3>2, <3>3
             DEF SendInsufficient, SendFailed, WalletSends, history
  <2>2. \A s \in Slots \ {c} : pc'[s] = "idle"
    BY <1>0, <1>4, <1>o, <1>t DEF SendInsufficient, SendFailed, DeferPendingPayable, Goto
  <2>3. pc'[c] = "send" \/ (pc'[c] = "commit" /\ gross'[c] = NoRewards)
    BY <1>0, <1>4, <1>t DEF SendInsufficient, SendFailed, DeferPendingPayable, Goto
  <2>4. /\ paid' \in [Workers -> Nat] /\ deducted' \in [Workers -> Nat]
        /\ unrecorded' \in [Workers -> Nat]
    BY CycleStepType DEF TypeOK
  <2>5. \A w \in Workers :
           paid'[w] = deducted'[w] + unrecorded'[w] + NoRewards[w]
    BY <1>z, <2>1, <2>4 DEF AllRecorded
  <2> QED  BY <2>1, <2>2, <2>3, <2>5 DEF PaidInv, PaidIsDeducted, AllRecorded
<1>5. CASE Commit(c)
  <2>1. /\ paid' = paid /\ unrecorded' = unrecorded
        /\ \A w \in Workers : paid[w] = deducted[w] + unrecorded[w] + gross[c][w]
    BY <1>0, <1>5 DEF Commit, Execute, PaidInv
  <2>2. \A s \in Slots : pc'[s] = "idle"
    BY <1>0, <1>5, <1>o, <1>t DEF Commit, Forget
  <2>3. deducted' = [w \in Workers |-> deducted[w] + gross[c][w]]
    BY <1>5 DEF Commit, Execute
  <2>4. \A w \in Workers : paid'[w] = deducted'[w] + unrecorded'[w]
    BY <1>z, <2>1, <2>3
  <2> QED  BY <2>2, <2>4 DEF PaidInv, PaidIsDeducted
<1>6. CASE CommitFails(c)
  <2>0. CommandsFile \in Slots /\ gross[CommandsFile] = NoRewards
    BY <1>0, <1>o DEF Slots
  <2>1. UNCHANGED <<paid, deducted>> /\ pc[c] = "commit"
    BY <1>6 DEF CommitFails
  <2>2. gross'[CommandsFile] = gross[c] /\ pc'[CommandsFile] = "failed"
    BY <1>0, <1>6, <1>t DEF CommitFails, MoveToFile, Slots
  <2>3. \A s \in Slots \ {CommandsFile} : pc'[s] = "idle"
    BY <1>0, <1>6, <1>o, <1>t DEF CommitFails
  <2>4. \A w \in Workers : paid[w] = deducted[w] + unrecorded[w] + gross[c][w]
    BY <1>0, <2>1 DEF PaidInv
  <2>5. \A w \in Workers : unrecorded'[w] = unrecorded[w]
    BY <1>6, <1>z, <2>0 DEF CommitFails
  <2> QED  BY <2>1, <2>2, <2>3, <2>4, <2>5 DEF PaidInv, PaidIsDeducted, Slots
<1>7. CASE CommitThrows(c)
  BY <1>0, <1>7, NothingMissing DEF CommitThrows
<1> QED  BY <1>1, <1>2, <1>3, <1>4, <1>5, <1>6, <1>7 DEF CycleStep

LEMMA PaidNext ==
    ASSUME SafetyInv, PaidInv, OneAtATime, FaultsApart, [Next]_vars
    PROVE  PaidInv'
<1>t. /\ pc \in [Slots -> Stage] /\ TypeOK
      /\ \A w \in Workers : /\ paid[w] \in Nat /\ deducted[w] \in Nat
                            /\ unrecorded[w] \in Nat
                            /\ \A s \in Slots : gross[s][w] \in Nat
  BY DEF SafetyInv, TypeOK, HistoryTypeOK, LocalTypeOK
<1>1. CASE SetupForPool \/ ReloadPool \/ Surroundings \/ UNCHANGED vars
  <2>1. UNCHANGED <<pc, gross, paid, deducted, unrecorded>>
    BY <1>1 DEF SetupForPool, ReloadPool, Surroundings, FindBlock, Mature, Reorg, vars,
                local, history
  <2> QED  BY <2>1 DEF PaidInv, PaidIsDeducted
<1>2. CASE Crash
  <2>1. pc[CommandsFile] = "idle" /\ UNCHANGED <<paid, deducted>>
    BY <1>2 DEF Crash, Restart, FaultsApart
  <2>2. \A s \in Slots : pc'[s] = "idle"
    BY <1>2, <2>1 DEF Crash, Restart, Survives
  <2>3. ASSUME NEW w \in Workers PROVE paid[w] = deducted[w] + unrecorded'[w]
    <3>1. unrecorded'[w] = unrecorded[w] + OpenBatches[w]
      BY <1>2 DEF Crash
    <3>2. CASE \E c \in Cycles : pc[c] = "commit"
      <4>1. PICK c \in Cycles : pc[c] = "commit"
        BY <3>2
      <4>2. c \in Slots /\ OpenBatches[w] = gross[c][w]
        BY <1>t, <4>1, OpenBatch DEF Slots
      <4>3. paid[w] = deducted[w] + unrecorded[w] + gross[c][w]
        BY <4>1, <4>2 DEF PaidInv
      <4> QED  BY <1>t, <3>1, <4>2, <4>3
    <3>3. CASE \A c \in Cycles : pc[c] # "commit"
      <4>1. OpenBatches[w] = 0
        BY <1>t, <3>3, OpenBatch
      <4>2. \A s \in Slots : pc[s] \notin {"commit", "failed"}
        BY <2>1, <3>3 DEF Slots, SafetyInv, Exclusive
      <4>3. paid[w] = deducted[w] + unrecorded[w]
        BY <4>2 DEF PaidInv, PaidIsDeducted
      <4> QED  BY <1>t, <3>1, <4>1, <4>3
    <3> QED  BY <3>2, <3>3
  <2> QED  BY <2>1, <2>2, <2>3 DEF PaidInv, PaidIsDeducted
<1>3. CASE RunCommandsFile
  <2>1. CommandsFile \in Slots /\ pc[CommandsFile] = "failed"
    BY <1>3 DEF RunCommandsFile, Slots
  <2>2. /\ deducted' = [w \in Workers |-> deducted[w] + gross[CommandsFile][w]]
        /\ paid' = paid /\ unrecorded' = unrecorded
    BY <1>3 DEF RunCommandsFile, Execute
  <2>3. ASSUME NEW w \in Workers PROVE paid'[w] = deducted'[w] + unrecorded'[w]
    <3>1. paid[w] = deducted[w] + unrecorded[w] + gross[CommandsFile][w]
      BY <2>1 DEF PaidInv
    <3> QED  BY <1>t, <2>1, <2>2, <3>1
  <2>4. \A s \in Slots : pc'[s] = "idle"
    BY <1>3, <1>t, <2>1 DEF RunCommandsFile, Forget, Slots, SafetyInv, Exclusive
  <2> QED  BY <2>3, <2>4 DEF PaidInv, PaidIsDeducted
<1>4. ASSUME NEW c \in Cycles, CycleStep(c) PROVE PaidInv'
  BY <1>4, PaidCycleStep
<1> QED  BY <1>1, <1>2, <1>3, <1>4 DEF Next

(* Lines 578-587, 614-619 and 714-724: what the wallet has sent is taken   *)
(* off the balances exactly once, but for the batches whose record was     *)
(* lost by a lost answer or the end of the process.                        *)
THEOREM PaymentsAreDeducted ==
    ASSUME OneAtATime, DistinctHeights, FaultsApart
    PROVE  Spec => []PaidIsDeducted
<1>1. SafetyInv /\ PaidInv /\ [Next]_vars => PaidInv'
  BY PaidNext
<1>2. PaidInv => PaidIsDeducted
  BY DEF PaidInv
<1> QED  BY SafetyInvariant, PaidInit, <1>1, <1>2, PTL DEF Spec

-----------------------------------------------------------------------------
(* The refinement of PoolLedger, for a processor of one cycle at a time.   *)
(* Besides SafetyInv it needs what a cycle has granted: nobody is given    *)
(* less than its share of the matured rounds, unless it is a donor, whose  *)
(* debt was large.                                                         *)

Granted(s) == CycleRewards(rounds[s], category[s], workerShares[s])

DebtsKept(s) ==
    /\ pc[s] = "lookup" => reward[s] = Granted(s)
    /\ pc[s] \in {"balance"} \cup WithBatch => \A w \in Workers :
          IF w \in donors[s] THEN balance[s][w] + Granted(s)[w] >= Threshold
                             ELSE reward[s][w] >= Granted(s)[w]
    /\ \A w \in Workers : gross[s][w] = 0 \/ gross[s][w] >= MinPayment

DebtsInv == \A s \in Slots : DebtsKept(s)

LEMMA DebtsInit == Init => DebtsInv
  BY DEF Init, DebtsInv, DebtsKept, WithBatch, NoRewards

LEMMA DebtsSlotKept ==
    ASSUME NEW s, DebtsKept(s),
           UNCHANGED <<pc[s], rounds[s], category[s], workerShares[s], balance[s],
                       reward[s], donors[s], gross[s]>>
    PROVE  DebtsKept(s)'
<1>1. Granted(s)' = Granted(s)
  BY DEF Granted, CycleRewards
<1> QED  BY <1>1 DEF DebtsKept

LEMMA DebtsSlotEmpty ==
    ASSUME NEW s, pc'[s] \in {"idle", "classify", "shares"}, gross'[s] = NoRewards
    PROVE  DebtsKept(s)'
  BY DEF DebtsKept, WithBatch, NoRewards

LEMMA DebtsGoOn ==
    ASSUME NEW s, DebtsKept(s),
           pc[s] \in {"balance"} \cup WithBatch, pc'[s] \in WithBatch,
           UNCHANGED <<rounds[s], category[s], workerShares[s], balance[s], reward[s],
                       donors[s]>>,
           \A w \in Workers : gross'[s][w] = 0 \/ gross'[s][w] >= MinPayment
    PROVE  DebtsKept(s)'
<1>1. Granted(s)' = Granted(s)
  BY DEF Granted, CycleRewards
<1> QED  BY <1>1 DEF DebtsKept, WithBatch

LEMMA DebtsAfterLookup ==
    ASSUME TypeOK, NEW c \in Slots, DebtsKept(c), LookupAddresses(c)
    PROVE  \A w \in Workers :
              IF w \in donors'[c] THEN balance'[c][w] + Granted(c)'[w] >= Threshold
                                  ELSE reward'[c][w] >= Granted(c)'[w]
<1>1. PICK v \in SUBSET Resolvable :
        /\ \E first \in FirstResults(v) :
            \E recipient \in [Donors(v, Owed(c)) -> first] :
              reward' = [reward EXCEPT ![c] =
                  [w \in Workers |-> reward[c][w] + Absorbed(w, recipient, Owed(c))]]
        /\ donors' = [donors EXCEPT ![c] = Donors(v, Owed(c))]
  BY DEF LookupAddresses
<1>2. PICK first \in FirstResults(v) :
          \E recipient \in [Donors(v, Owed(c)) -> first] :
            reward' = [reward EXCEPT ![c] =
                [w \in Workers |-> reward[c][w] + Absorbed(w, recipient, Owed(c))]]
  BY <1>1
<1>3. PICK recipient \in [Donors(v, Owed(c)) -> first] :
          reward' = [reward EXCEPT ![c] =
              [w \in Workers |-> reward[c][w] + Absorbed(w, recipient, Owed(c))]]
  BY <1>2
<1>4. /\ v \in SUBSET Workers /\ Owed(c) \in [Workers -> Int]
      /\ reward[c] \in [Workers -> Nat]
      /\ \A w \in Workers : Owed(c)[w] = balance[c][w] + reward[c][w]
  BY ProcessorAssumption DEF Owed, TypeOK, LocalTypeOK
<1>5. \A w \in Workers : Absorbed(w, recipient, Owed(c)) \in Nat
  BY <1>4, AbsorbedType
<1>6. Granted(c)' = Granted(c) /\ Granted(c) = reward[c] /\ balance' = balance
  BY DEF LookupAddresses, DebtsKept, Granted, CycleRewards
<1>7. /\ donors'[c] = Donors(v, Owed(c))
      /\ reward'[c] = [w \in Workers |-> reward[c][w] + Absorbed(w, recipient, Owed(c))]
  BY <1>1, <1>3 DEF TypeOK, LocalTypeOK
<1>8. \A w \in Donors(v, Owed(c)) : Owed(c)[w] >= Threshold
  BY DEF Donors
<1> QED  BY <1>4, <1>5, <1>6, <1>7, <1>8

LEMMA DebtsRestart == ASSUME DebtsInv, Restart PROVE DebtsInv'
<1>1. ASSUME NEW s \in Slots \ {CommandsFile} PROVE DebtsKept(s)'
  <2>1. pc'[s] = "idle" /\ gross'[s] = NoRewards
    BY DEF Restart, Survives
  <2> QED  BY <2>1, DebtsSlotEmpty
<1>2. CommandsFile \in Slots
  BY DEF Slots
<1>3. DebtsKept(CommandsFile)'
  BY <1>2, DebtsSlotKept DEF Restart, Survives, DebtsInv
<1> QED  BY <1>1, <1>3 DEF DebtsInv

LEMMA DebtsCycleStep ==
    ASSUME TypeOK, FundsInv, DebtsInv, NEW c \in Cycles, CycleStep(c)
    PROVE  DebtsInv'
<1>0. /\ c \in Slots /\ c # CommandsFile /\ CommandsFile \in Slots
      /\ LocalTypeOK /\ pc \in [Slots -> Stage]
      /\ BatchWithinDebts(c) /\ DebtsKept(c)
      /\ \A w \in Workers : NoRewards[w] = 0
  BY ProcessorAssumption DEF Slots, TypeOK, FundsInv, DebtsInv, NoRewards
<1> USE DEF LocalTypeOK
<1>o. ASSUME \A s \in Slots \ {c} :
                UNCHANGED <<pc[s], rounds[s], category[s], workerShares[s], balance[s],
                            reward[s], donors[s], gross[s]>>,
             DebtsKept(c)'
      PROVE  DebtsInv'
  BY <1>o, DebtsSlotKept DEF DebtsInv
<1>1. CASE ReadRounds(c) \/ StopCycle(c) \/ ClassifyRounds(c) \/ Commit(c)
  <2>1. pc'[c] \in {"idle", "classify", "shares"} /\ gross'[c] = NoRewards
    BY <1>0, <1>1 DEF ReadRounds, StopCycle, ClassifyRounds, Commit, Forget, Goto,
                      BatchWithinDebts, WithBatch
  <2> QED  BY <1>0, <1>1, <1>o, <2>1, DebtsSlotEmpty
           DEF ReadRounds, StopCycle, ClassifyRounds, Commit, Forget, Goto
<1>2. CASE ReadShares(c)
  <2>1. pc'[c] = "lookup" /\ gross'[c] = NoRewards
    BY <1>0, <1>2 DEF ReadShares, Goto, BatchWithinDebts, WithBatch
  <2>2. reward'[c] = CycleRewards(rounds[c], category[c], workerShares'[c])
    BY <1>0, <1>2 DEF ReadShares
  <2>3. Granted(c)' = CycleRewards(rounds'[c], category'[c], workerShares'[c])
    BY DEF Granted, CycleRewards, RewardSplit, SumOver
  <2>4. reward'[c] = Granted(c)'
    BY <1>2, <2>2, <2>3 DEF ReadShares
  <2>5. DebtsKept(c)'
    BY <1>0, <2>1, <2>4 DEF DebtsKept, WithBatch
  <2> QED  BY <1>0, <1>2, <1>o, <2>5 DEF ReadShares, Goto
<1>3. CASE LookupAddresses(c)
  <2>1. pc'[c] = "balance" /\ gross'[c] = NoRewards
    BY <1>0, <1>3 DEF LookupAddresses, Goto, BatchWithinDebts, WithBatch
  <2>2. DebtsKept(c)'
    BY <1>0, <1>3, <2>1, DebtsAfterLookup DEF DebtsKept
  <2> QED  BY <1>0, <1>3, <1>o, <2>2 DEF LookupAddresses, Goto
<1>4. CASE GetBalance(c)
  <2>1. pc[c] = "balance" /\ pc'[c] \in WithBatch
    BY <1>0, <1>4 DEF GetBalance, Goto, WithBatch
  <2>2. \A w \in Workers : gross'[c][w] = 0 \/ gross'[c][w] >= MinPayment
    BY <1>0, <1>4, BatchChosen
  <2>3. DebtsKept(c)'
    BY <1>0, <1>4, <2>1, <2>2, DebtsGoOn DEF GetBalance
  <2> QED  BY <1>0, <1>4, <1>o, <2>3 DEF GetBalance, Goto
<1>5. CASE BalanceUnknown(c) \/ SendAccepted(c) \/ SendInsufficient(c) \/ SendFailed(c)
  <2>1. pc[c] \in {"balance", "send"} /\ pc'[c] \in WithBatch
    BY <1>0, <1>5
       DEF BalanceUnknown, SendAccepted, SendInsufficient, SendFailed, Goto, WithBatch
  <2>2. UNCHANGED <<rounds, category, workerShares, balance, reward, donors>>
    BY <1>5 DEF BalanceUnknown, SendAccepted, SendInsufficient, SendFailed, local
  <2>3. gross'[c] = gross[c] \/ gross'[c] = NoRewards
    BY <1>0, <1>5 DEF BalanceUnknown, SendAccepted, SendInsufficient, SendFailed,
                      DeferPendingPayable, local
  <2>4. \A w \in Workers : gross'[c][w] = 0 \/ gross'[c][w] >= MinPayment
    BY <1>0, <2>3 DEF DebtsKept
  <2>5. DebtsKept(c)'
    BY <1>0, <2>1, <2>2, <2>4, DebtsGoOn DEF WithBatch
  <2>6. \A s \in Slots \ {c} : UNCHANGED <<pc[s], gross[s]>>
    BY <1>0, <1>5 DEF BalanceUnknown, SendAccepted, SendInsufficient, SendFailed,
                      DeferPendingPayable, Goto, local
  <2> QED  BY <1>o, <2>2, <2>5, <2>6
<1>6. CASE CommitFails(c)
  <2>1. DebtsKept(c)'
    BY <1>0, <1>6, DebtsSlotEmpty DEF CommitFails, MoveToFile
  <2>2. /\ pc[c] = "commit" /\ pc'[CommandsFile] = "failed"
        /\ rounds'[CommandsFile] = rounds[c]
        /\ category'[CommandsFile] = category[c]
        /\ workerShares'[CommandsFile] = workerShares[c]
        /\ balance'[CommandsFile] = balance[c]
        /\ reward'[CommandsFile] = reward[c]
        /\ donors'[CommandsFile] = donors[c]
        /\ gross'[CommandsFile] = gross[c]
    BY <1>0, <1>6 DEF CommitFails, MoveToFile
  <2>3. Granted(CommandsFile)' = Granted(c)
    BY <2>2 DEF Granted, CycleRewards, RewardSplit, SumOver
  <2>4. DebtsKept(CommandsFile)'
    BY <1>0, <2>2, <2>3 DEF DebtsKept, WithBatch
  <2>5. ASSUME NEW s \in Slots \ {c, CommandsFile} PROVE DebtsKept(s)'
    BY <1>0, <1>6, <2>5, DebtsSlotKept DEF CommitFails, MoveToFile, DebtsInv
  <2> QED  BY <2>1, <2>4, <2>5 DEF DebtsInv
<1>7. CASE CommitThrows(c)
  BY <1>7, DebtsRestart DEF CommitThrows
<1> QED  BY <1>1, <1>2, <1>3, <1>4, <1>5, <1>6, <1>7 DEF CycleStep

LEMMA DebtsNext == TypeOK /\ FundsInv /\ DebtsInv /\ [Next]_vars => DebtsInv'
<1> SUFFICES ASSUME TypeOK, FundsInv, DebtsInv, [Next]_vars PROVE DebtsInv'
  OBVIOUS
<1>1. CASE SetupForPool \/ ReloadPool \/ Surroundings \/ UNCHANGED vars
  <2>1. UNCHANGED <<pc, local>>
    BY <1>1 DEF SetupForPool, ReloadPool, Surroundings, FindBlock, Mature, Reorg, vars
  <2> QED  BY <2>1, DebtsSlotKept DEF local, DebtsInv
<1>2. CASE Crash
  BY <1>2, DebtsRestart DEF Crash
<1>3. CASE RunCommandsFile
  <2>1. CommandsFile \in Slots /\ LocalTypeOK /\ pc \in [Slots -> Stage]
    BY DEF Slots, TypeOK
  <2>2. DebtsKept(CommandsFile)'
    BY <1>3, <2>1, DebtsSlotEmpty DEF RunCommandsFile, Forget, LocalTypeOK
  <2>3. ASSUME NEW s \in Slots \ {CommandsFile} PROVE DebtsKept(s)'
    BY <1>3, <2>1, <2>3, DebtsSlotKept DEF RunCommandsFile, Forget, DebtsInv, LocalTypeOK
  <2> QED  BY <2>2, <2>3 DEF DebtsInv
<1>4. ASSUME NEW c \in Cycles, CycleStep(c) PROVE DebtsInv'
  BY <1>4, DebtsCycleStep
<1> QED  BY <1>1, <1>2, <1>3, <1>4 DEF Next

(* The operators of PoolLedger are those of the processor's arithmetic.    *)
LEMMA SameArithmetic ==
    /\ Ledger!NoShares = NoShares
    /\ \A f, S : Ledger!SumFunctionOnSet(f, S) = SumFunctionOnSet(f, S)
    /\ \A f : Ledger!SumOver(f) = SumOver(f)
    /\ \A amount, shares :
          Ledger!RewardSplit(amount, shares) = RewardSplit(amount, shares)
<1>1. Ledger!NoShares = NoShares
  BY DEF Ledger!NoShares, NoShares
<1>2. ASSUME NEW f, NEW S PROVE Ledger!SumFunctionOnSet(f, S) = SumFunctionOnSet(f, S)
  BY DEF Ledger!SumFunctionOnSet, Ledger!FoldFunctionOnSet, Ledger!MapThenFoldSet,
         SumFunctionOnSet, FoldFunctionOnSet, MapThenFoldSet
<1>3. ASSUME NEW f PROVE Ledger!SumOver(f) = SumOver(f)
  BY <1>2 DEF Ledger!SumOver, SumOver
<1>4. ASSUME NEW amount, NEW shares
      PROVE  Ledger!RewardSplit(amount, shares) = RewardSplit(amount, shares)
  BY <1>3 DEF Ledger!RewardSplit, RewardSplit
<1> QED  BY <1>1, <1>2, <1>3, <1>4

LEMMA LedgerInit == Init => Ledger!Init
  BY SameArithmetic, EmptyTypes
     DEF Init, Ledger!Init, StatusInRedis, StakeInRedis, NoRewards, Ledger!NothingOwed

(* A step that leaves Redis alone is none of the ledger's.                 *)
LEMMA LedgerStutter ==
    ASSUME UNCHANGED <<redis, deducted>> PROVE UNCHANGED Ledger!ledger
  BY DEF redis, Ledger!ledger, StatusInRedis, StakeInRedis

LEMMA LedgerFind ==
    ASSUME SafetyInv, DistinctHeights, NEW b \in Blocks, FindBlock(b)
    PROVE  Ledger!Find(b)
<1> USE DEF SafetyInv
<1>1. /\ b \notin blocksPending /\ b \notin blocksConfirmed /\ b \notin blocksOrphaned
      /\ blocksPending \subseteq Blocks
  BY DEF FindBlock, FilingInv, FiledOnce, TypeOK, RedisTypeOK
<1>2. PICK shares \in RoundHashes :
          roundShares' = [roundShares EXCEPT ![HeightOf[b]] =
                             [w \in Workers |-> roundCurrent[w] + shares[w]]]
  BY DEF FindBlock
<1>3. /\ blocksPending' = blocksPending \cup {b}
      /\ UNCHANGED <<blocksConfirmed, blocksOrphaned, balances, deducted>>
      /\ roundCurrent' = NoShares
  BY DEF FindBlock
<1>4. StatusInRedis[b] = "none"
  BY <1>1 DEF StatusInRedis
<1>5. StatusInRedis' = [StatusInRedis EXCEPT ![b] = "pending"]
  BY <1>1, <1>3 DEF StatusInRedis
<1>6. /\ \A o \in Blocks : HeightOf[o] \in Heights
      /\ \A o \in Blocks \ {b} : HeightOf[o] # HeightOf[b]
      /\ roundShares \in [Heights -> ShareHash]
  BY EmptyTypes DEF DistinctHeights, TypeOK, RedisTypeOK
<1>7. StakeInRedis' = [StakeInRedis EXCEPT ![b] =
                          [w \in Workers |-> roundCurrent[w] + shares[w]]]
  <2> DEFINE hash == [w \in Workers |-> roundCurrent[w] + shares[w]]
  <2>1. roundShares'[HeightOf[b]] = hash
    BY <1>2, <1>6
  <2>2. \A o \in Blocks \ {b} : roundShares'[HeightOf[o]] = roundShares[HeightOf[o]]
    BY <1>2, <1>6
  <2>3. StakeInRedis' = [o \in Blocks |-> IF o \in blocksPending'
                                          THEN roundShares'[HeightOf[o]] ELSE NoShares]
    BY DEF StakeInRedis, NoShares
  <2> HIDE DEF hash
  <2>4. \A o \in Blocks : StakeInRedis'[o] = IF o = b THEN hash ELSE StakeInRedis[o]
    BY <1>1, <1>3, <2>1, <2>2, <2>3 DEF StakeInRedis
  <2> QED  BY <2>3, <2>4 DEF StakeInRedis, hash
<1>8. \E more \in RoundHashes :
          StakeInRedis' = [StakeInRedis EXCEPT ![b] =
                              [w \in Workers |-> roundCurrent[w] + more[w]]]
  BY <1>7
<1>9. roundCurrent' = Ledger!NoShares
  BY <1>3, SameArithmetic
<1> HIDE DEF SafetyInv
<1> QED  BY <1>3, <1>4, <1>5, <1>8, <1>9 DEF Ledger!Find

(* What a slot is about to write: the rounds that are won and lost, by     *)
(* the shares that still are in Redis.                                     *)
Matured(s) == { b \in rounds[s] : category[s][b] = "generate" }
Dropped(s) == { b \in rounds[s] : category[s][b] \in Lost }

LEMMA SlotWrites ==
    ASSUME SafetyInv, NEW s \in Slots, pc[s] \in {"commit", "failed"}
    PROVE  /\ rounds[s] \subseteq blocksPending /\ blocksPending \subseteq Blocks
           /\ rounds[s] = Matured(s) \cup Dropped(s)
           /\ Matured(s) \cap Dropped(s) = {}
           /\ canDeleteShares[s] = Dropped(s)
           /\ Won(s) = Matured(s)
           /\ \A b \in rounds[s] : workerShares[s][b] = StakeInRedis[b]
           /\ balance[s] = balances
<1> USE DEF SafetyInv
<1>1. /\ rounds[s] \subseteq blocksPending /\ blocksPending \subseteq Blocks
      /\ balance[s] = balances
      /\ canDeleteShares[s] = Dropped(s)
      /\ \A b \in rounds[s] : workerShares[s][b] = sharesAt[b]
      /\ \A b \in rounds[s] : category[s][b] \in Settled
  BY DEF ViewCurrent, FilingInv, Classified, WithShares, Dropped, TypeOK, RedisTypeOK
<1>2. \A b \in rounds[s] : sharesAt[b] = roundShares[HeightOf[b]] /\ sharesAt[b] # NoShares
  BY <1>1 DEF SharesKept
<1>3. \A b \in rounds[s] : workerShares[s][b] = StakeInRedis[b]
  BY <1>1, <1>2 DEF StakeInRedis
<1>4. Won(s) = Matured(s)
  BY <1>1, <1>2 DEF Won, Matured
<1>5. rounds[s] = Matured(s) \cup Dropped(s) /\ Matured(s) \cap Dropped(s) = {}
  BY <1>1 DEF Matured, Dropped, Settled, Lost
<1> QED  BY <1>1, <1>3, <1>4, <1>5

(* What the ledger owes after the won blocks are credited.                 *)
LEMMA LedgerDue ==
    ASSUME SafetyInv, NEW s \in Slots, pc[s] \in {"commit", "failed"}
    PROVE  /\ Ledger!Credited(Matured(s)) \in [Workers -> Int]
           /\ \A w \in Workers :
                 Ledger!Credited(Matured(s))[w] = balances[w] + Granted(s)[w]
           /\ SumOver(Ledger!Credited(Matured(s)))
                 = SumOver(balances) + RoundCredit(s)
           /\ Granted(s) \in [Workers -> Nat]
<1> DEFINE due == Ledger!Credited(Matured(s))
           part(w) == [b \in Blocks |-> RewardSplit(BlockReward, workerShares[s][b])[w]]
           wins(w) == [b \in Blocks |-> RewardSplit(BlockReward, StakeInRedis[b])[w]]
<1>1. /\ rounds[s] \subseteq Blocks /\ Won(s) = Matured(s) /\ Matured(s) \subseteq Blocks
      /\ \A b \in Matured(s) : workerShares[s][b] = StakeInRedis[b]
      /\ workerShares[s] \in [Blocks -> ShareHash]
      /\ balances \in [Workers -> Int]
      /\ IsFiniteSet(Matured(s)) /\ IsFiniteSet(Workers)
  <2>1. /\ rounds[s] \subseteq Blocks /\ Won(s) = Matured(s)
        /\ \A b \in rounds[s] : workerShares[s][b] = StakeInRedis[b]
    BY SlotWrites
  <2>2. Matured(s) \subseteq rounds[s]
    BY DEF Matured
  <2> QED  BY <2>1, <2>2, PayoutAssumption, ProcessorAssumption, FS_Subset
           DEF SafetyInv, TypeOK, LocalTypeOK, RedisTypeOK
<1>2. Granted(s) \in [Workers -> Nat]
  BY <1>1, CycleRewardsType DEF Granted
<1>3. \A w \in Workers : Granted(s)[w] = SumFunctionOnSet(part(w), Won(s))
  BY DEF Granted, CycleRewards, Won
<1>4. ASSUME NEW w \in Workers
      PROVE  due[w] = balances[w] + SumFunctionOnSet(wins(w), Matured(s))
  BY SameArithmetic DEF Ledger!Credited
<1>5. ASSUME NEW w \in Workers
      PROVE  SumFunctionOnSet(part(w), Matured(s)) = SumFunctionOnSet(wins(w), Matured(s))
  <2>1. \A b \in Matured(s) : part(w)[b] = wins(w)[b]
    BY <1>1
  <2> HIDE DEF part, wins
  <2> QED  BY <1>1, <2>1, SumEqual
<1>6. ASSUME NEW w \in Workers PROVE due[w] = balances[w] + Granted(s)[w]
  <2> HIDE DEF part, wins, due
  <2> QED  BY <1>1, <1>3, <1>4, <1>5
<1>7. due = [w \in Workers |-> balances[w] + Granted(s)[w]]
  <2>1. due = [w \in Workers |-> due[w]]
    BY DEF Ledger!Credited
  <2> HIDE DEF due
  <2> QED  BY <1>6, <2>1
<1>8. SumOver(Granted(s)) = RoundCredit(s)
  <2>1. rounds[s] \in SUBSET Blocks
    BY <1>1
  <2> QED  BY <1>1, <2>1, RewardsOfRounds DEF Granted, RoundCredit, Won
<1>9. SumFunctionOnSet([w \in Workers |-> balances[w] + Granted(s)[w]], Workers)
        = SumFunctionOnSet(balances, Workers) + SumFunctionOnSet(Granted(s), Workers)
  <2>1. Granted(s) \in [Workers -> Int]
    BY <1>2
  <2> QED  BY <1>1, <2>1, SumAdded
<1>10. SumOver(due) = SumOver(balances) + RoundCredit(s)
  <2> HIDE DEF due
  <2> QED  BY <1>7, <1>8, <1>9 DEF SumOver
<1>11. due \in [Workers -> Int]
  <2> HIDE DEF due
  <2> QED  BY <1>1, <1>2, <1>7
<1> QED  BY <1>2, <1>6, <1>10, <1>11

(* The MULTI of a cycle is one entry of the ledger.                        *)
LEMMA LedgerSettles ==
    ASSUME SafetyInv, FundsInv, DebtsInv, DistinctHeights,
           NEW s \in Slots, pc[s] \in {"commit", "failed"}, Execute(s)
    PROVE  Ledger!Settles(Ledger!Credited(Matured(s)))
<1> DEFINE due == Ledger!Credited(Matured(s))
<1>1. /\ due \in [Workers -> Int]
      /\ \A w \in Workers : due[w] = balances[w] + Granted(s)[w]
      /\ SumOver(due) = SumOver(balances) + RoundCredit(s)
      /\ Granted(s) \in [Workers -> Nat]
  BY LedgerDue
<1> HIDE DEF due
<1>2. /\ TypeOK /\ BatchWithinDebts(s) /\ EarnedIsCredit(s) /\ DebtsKept(s)
      /\ balance[s] = balances
  BY SlotWrites DEF SafetyInv, FundsInv, DebtsInv
<1>3. balances' \in [Workers -> Int] /\ \A w \in Workers : balances'[w] >= 0
  BY <1>2, ExecuteType, ExecuteSafe DEF RedisTypeOK, NoOverdraft
<1>4. ASSUME NEW w \in Workers
      PROVE  /\ deducted'[w] - deducted[w] = gross[s][w]
             /\ gross[s][w] \in Nat
             /\ gross[s][w] = 0 \/ gross[s][w] >= MinPayment
             /\ w \in donors[s] => gross[s][w] = 0
             /\ balances[w] \in Int /\ reward[s][w] \in Nat
             /\ balances'[w] = balances[w] + BalanceChange(s, w)
  <2>1. deducted[w] \in Nat /\ gross[s][w] \in Nat /\ balances[w] \in Int
        /\ reward[s][w] \in Nat
    BY <1>2 DEF TypeOK, HistoryTypeOK, LocalTypeOK, RedisTypeOK
  <2>2. deducted'[w] = deducted[w] + gross[s][w]
        /\ balances'[w] = balances[w] + BalanceChange(s, w)
    BY DEF Execute
  <2>3. w \in donors[s] => gross[s][w] = 0
    BY <1>2, <2>1 DEF BatchWithinDebts, WithBatch
  <2>4. gross[s][w] = 0 \/ gross[s][w] >= MinPayment
    BY <1>2 DEF DebtsKept
  <2> QED  BY <2>1, <2>2, <2>3, <2>4
<1>5. ASSUME NEW w \in Workers
      PROVE  Ledger!KeepsDebt(w, due) \/ Ledger!GivesDebt(w, due)
  <2>1. Granted(s)[w] \in Nat
    BY <1>1
  <2>2. CASE w \in donors[s]
    <3>1. BalanceChange(s, w) = -balances[w]
      BY <1>2, <2>2 DEF BalanceChange
    <3>2. balances[w] + Granted(s)[w] >= Threshold
      BY <1>2, <2>2 DEF DebtsKept, WithBatch
    <3>3. balances'[w] = 0
      BY <1>4, <3>1
    <3>4. deducted'[w] - deducted[w] = 0
      BY <1>4, <2>2
    <3> QED  BY <1>1, <3>2, <3>3, <3>4 DEF Ledger!GivesDebt, Ledger!PaidNow
  <2>3. CASE w \notin donors[s]
    <3>1. BalanceChange(s, w) = reward[s][w] - gross[s][w]
      BY <2>3 DEF BalanceChange
    <3>2. reward[s][w] >= Granted(s)[w]
      BY <1>2, <2>3 DEF DebtsKept, WithBatch
    <3>3. balances'[w] + gross[s][w] = balances[w] + reward[s][w]
      BY <1>4, <3>1
    <3>4. balances'[w] + gross[s][w] >= due[w]
      BY <1>1, <1>4, <2>1, <3>2, <3>3
    <3> QED  BY <1>4, <3>4 DEF Ledger!KeepsDebt, Ledger!PaidNow
  <2> QED  BY <2>2, <2>3
<1>6. ASSUME NEW w \in Workers
      PROVE  Ledger!PaidNow(w) = 0 \/ Ledger!PaidNow(w) >= MinPayment
  BY <1>4 DEF Ledger!PaidNow
<1>7. SumOver(balances') + SumOver(deducted') = SumOver(due) + SumOver(deducted)
  <2>1. /\ SumOver(balances') = SumOver(balances)
                                  + (RoundCredit(s) - SumOver(gross[s]))
        /\ SumOver(deducted') = SumOver(deducted) + SumOver(gross[s])
        /\ SumOver(balances) \in Int /\ SumOver(deducted) \in Int
        /\ SumOver(gross[s]) \in Int /\ RoundCredit(s) \in Int
    BY <1>2, ExecuteChanges
  <2> QED  BY <1>1, <2>1
<1>8. Ledger!Settles(due)
  BY <1>3, <1>5, <1>6, <1>7, SameArithmetic DEF Ledger!Settles
<1> QED  BY <1>8 DEF due

LEMMA LedgerEnter ==
    ASSUME SafetyInv, FundsInv, DebtsInv, DistinctHeights,
           NEW s \in Slots, pc[s] \in {"commit", "failed"}, Execute(s)
    PROVE  Ledger!Enter(Matured(s), Dropped(s))
<1>1. /\ rounds[s] \subseteq blocksPending /\ blocksPending \subseteq Blocks
      /\ rounds[s] = Matured(s) \cup Dropped(s)
      /\ Matured(s) \cap Dropped(s) = {}
      /\ canDeleteShares[s] = Dropped(s)
      /\ \A b \in rounds[s] : workerShares[s][b] = StakeInRedis[b]
  BY SlotWrites
<1>2. \A b \in Matured(s) \cup Dropped(s) : StatusInRedis[b] = "pending"
  BY <1>1 DEF StatusInRedis
<1>3. /\ blocksPending' = blocksPending \ rounds[s]
      /\ blocksConfirmed' = blocksConfirmed \cup Matured(s)
      /\ blocksOrphaned' = blocksOrphaned \cup Dropped(s)
  BY <1>1 DEF Execute, Moved, Matured, Dropped
<1>4. StatusInRedis' = [b \in Blocks |-> IF b \in Matured(s) THEN "won"
                                         ELSE IF b \in Dropped(s) THEN "lost"
                                         ELSE StatusInRedis[b]]
  <2>1. blocksPending \cap blocksConfirmed = {} /\ blocksPending \cap blocksOrphaned = {}
    BY DEF SafetyInv, FilingInv, FiledOnce
  <2> QED  BY <1>1, <1>3, <2>1 DEF StatusInRedis
<1>5. StakeInRedis' = [b \in Blocks |-> IF b \in Matured(s) \cup Dropped(s) THEN NoShares
                                        ELSE StakeInRedis[b]]
  <2>1. \A b \in blocksPending' : roundShares'[HeightOf[b]] = roundShares[HeightOf[b]]
    <3>1. SharesKept' /\ SharesKept
      BY ExecuteSafe DEF SafetyInv
    <3>2. sharesAt' = sharesAt /\ blocksPending' \subseteq blocksPending
      BY <1>3 DEF Execute
    <3> QED  BY <3>1, <3>2 DEF SharesKept
  <2> QED  BY <1>1, <1>3, <2>1 DEF StakeInRedis
<1>6. roundCurrent' = [w \in Workers |-> roundCurrent[w]
           + SumFunctionOnSet([b \in Blocks |-> StakeInRedis[b][w]], Dropped(s))]
  <2> DEFINE mine(w) == [b \in Blocks |-> workerShares[s][b][w]]
             theirs(w) == [b \in Blocks |-> StakeInRedis[b][w]]
  <2>1. IsFiniteSet(Dropped(s)) /\ Dropped(s) \subseteq Blocks
    BY <1>1, ProcessorAssumption, FS_Subset
  <2>2. ASSUME NEW w \in Workers
        PROVE  SumFunctionOnSet(mine(w), Dropped(s)) = SumFunctionOnSet(theirs(w), Dropped(s))
    <3>1. \A b \in Dropped(s) : mine(w)[b] = theirs(w)[b]
      BY <1>1, <2>1
    <3> HIDE DEF mine, theirs
    <3> QED  BY <2>1, <3>1, SumEqual
  <2>3. roundCurrent' = [w \in Workers |->
                            roundCurrent[w] + SumFunctionOnSet(mine(w), Dropped(s))]
    BY <1>1 DEF Execute, MergedShares
  <2>4. roundCurrent' = [w \in Workers |->
                            roundCurrent[w] + SumFunctionOnSet(theirs(w), Dropped(s))]
    <3> HIDE DEF mine, theirs
    <3> QED  BY <2>2, <2>3
  <2> QED  BY <2>4
<1>7. Ledger!Settles(Ledger!Credited(Matured(s)))
  BY LedgerSettles
<1> QED  BY <1>1, <1>2, <1>4, <1>5, <1>6, <1>7, SameArithmetic DEF Ledger!Enter

LEMMA LedgerNext ==
    ASSUME SafetyInv, FundsInv, DebtsInv, OneAtATime, DistinctHeights, [Next]_vars
    PROVE  Ledger!Next \/ UNCHANGED Ledger!ledger
<1>1. CASE SetupForPool \/ ReloadPool \/ Crash \/ UNCHANGED vars
  BY <1>1, LedgerStutter DEF SetupForPool, ReloadPool, Crash, Restart, vars, history
<1>2. ASSUME NEW s \in Slots, pc[s] \in {"commit", "failed"}, Execute(s)
      PROVE  Ledger!Next
  <2>1. Ledger!Enter(Matured(s), Dropped(s))
    BY <1>2, LedgerEnter
  <2>2. Matured(s) \in SUBSET Blocks /\ Dropped(s) \in SUBSET Blocks
    BY <1>2, SlotWrites
  <2> QED  BY <2>1, <2>2 DEF Ledger!Next
<1>3. CASE RunCommandsFile
  BY <1>2, <1>3 DEF RunCommandsFile, Slots
<1>4. CASE Surroundings
  <2>1. PICK b \in Blocks : FindBlock(b) \/ Mature(b) \/ Reorg(b)
    BY <1>4 DEF Surroundings
  <2>2. CASE FindBlock(b)
    BY <2>2, LedgerFind DEF Ledger!Next
  <2>3. CASE Mature(b) \/ Reorg(b)
    BY <2>3, LedgerStutter DEF Mature, Reorg, history
  <2> QED  BY <2>1, <2>2, <2>3
<1>5. ASSUME NEW c \in Cycles, CycleStep(c)
      PROVE  Ledger!Next \/ UNCHANGED Ledger!ledger
  <2>1. CASE Commit(c)
    BY <1>2, <2>1 DEF Commit, Slots
  <2>2. CASE ~Commit(c)
    <3>1. UNCHANGED <<redis, deducted>>
      BY <1>5, <2>2
         DEF CycleStep, ReadRounds, StopCycle, ClassifyRounds, ReadShares,
             LookupAddresses, GetBalance, BalanceUnknown, SendAccepted,
             SendInsufficient, SendFailed, WalletSends, CommitFails, CommitThrows,
             Restart, history
    <3> QED  BY <3>1, LedgerStutter
  <2> QED  BY <2>1, <2>2
<1> QED  BY <1>1, <1>3, <1>4, <1>5 DEF Next

(* Lines 163-728: a processor of one cycle at a time keeps the ledger,     *)
(* whatever fails in the cycles and wherever the process ends.             *)
THEOREM CyclesKeepTheLedger ==
    ASSUME OneAtATime, DistinctHeights, FaultsApart
    PROVE  Spec => KeepsTheLedger
<1>1. SafetyInv /\ FundsInv /\ DebtsInv /\ [Next]_vars => [Ledger!Next]_Ledger!ledger
  BY LedgerNext
<1>2. TypeOK /\ FundsInv /\ DebtsInv /\ [Next]_vars => FundsInv' /\ DebtsInv'
  BY FundsNext, DebtsNext
<1> QED  BY SafetyInvariant, TypeCorrect, LedgerInit, FundsInit, DebtsInit, <1>1, <1>2,
            PTL DEF Spec, KeepsTheLedger, Ledger!Spec
=============================================================================
