-------------------------- MODULE PayoutStepProofs --------------------------
(***************************************************************************)
(* What one run of the payout step leaves behind, for any workers, debts,  *)
(* wallet, fees and answers of the daemon: no money is lost, small debts   *)
(* come first, and a batch stays within the spendable balance without      *)
(* leaving any of it idle.                                                 *)
(*                                                                         *)
(* First what the arithmetic of a payment cycle computes: types and bounds *)
(* of the amounts, the recursion behind the remaining balance of a batch,  *)
(* and the debts that are moved to another worker.                         *)
(***************************************************************************)
EXTENDS PayoutStep, SumLemmas

-----------------------------------------------------------------------------
LEMMA NetAmountType ==
    ASSUME NEW g \in Nat, NEW r \in 0..MaxRetries
    PROVE  NetAmount(g, r) \in Nat
<1> DEFINE k == 1000 - WithheldPermille(r)
<1>0. WithheldPermille(r) \in 1..1000
  BY FeeAssumption
<1>1. k \in Nat
  BY <1>0
<1>2. g * k \in Nat
  BY <1>1
<1>3. (g * k) \div 1000 \in Nat
  BY <1>2
<1> QED  BY <1>3 DEF NetAmount

LEMMA GrossAmountType ==
    ASSUME NEW o \in Int, NEW r \in Int
    PROVE  /\ GrossAmount(o, r) \in Nat
           /\ GrossAmount(o, r) > 0 => GrossAmount(o, r) <= o
           /\ GrossAmount(o, r) = 0 \/ GrossAmount(o, r) >= MinPayment
  BY PayoutAssumption DEF GrossAmount

LEMMA SumOverType ==
    ASSUME NEW f
    PROVE  /\ f \in [Workers -> Nat] => SumOver(f) \in Nat
           /\ f \in [Workers -> Int] => SumOver(f) \in Int
<1>1. IsFiniteSet(Workers)
  BY PayoutAssumption
<1>2. ASSUME f \in [Workers -> Nat] PROVE SumFunctionOnSet(f, Workers) \in Nat
  BY <1>1, <1>2, SumNat
<1>3. ASSUME f \in [Workers -> Int] PROVE SumFunctionOnSet(f, Workers) \in Int
  BY <1>1, <1>3, SumInt
<1> QED  BY <1>2, <1>3 DEF SumOver

LEMMA AbsorbedType ==
    ASSUME NEW v \in SUBSET Workers, NEW o \in [Workers -> Int], NEW first,
           NEW recipient \in [Donors(v, o) -> first], NEW w
    PROVE  Absorbed(w, recipient, o) \in Nat
<1> DEFINE from == { d \in DOMAIN recipient : recipient[d] = w }
<1>1. IsFiniteSet(from) /\ \A d \in from : o[d] \in Nat
  <2>1. from \subseteq { d \in Workers : o[d] >= Threshold }
    BY DEF Donors
  <2>2. IsFiniteSet(from)
    BY <2>1, PayoutAssumption, FS_Subset
  <2> QED  BY <2>1, <2>2, PayoutAssumption
<1> HIDE DEF from
<1>2. SumFunctionOnSet(o, from) \in Nat
  BY <1>1, SumNat
<1> QED  BY <1>2 DEF Absorbed, from

(* The order of a batch is a sequence of the valid workers.                *)
LEMMA OrderType ==
    ASSUME NEW v \in SUBSET Workers, NEW o, NEW order \in AscendingOrders(v, o)
    PROVE  Len(order) \in Nat /\ order \in [1..Len(order) -> v]
<1>1. IsFiniteSet(v)
  BY PayoutAssumption, FS_Subset
<1>2. Cardinality(v) \in Nat
  BY <1>1, FS_CardinalityType
<1>3. order \in [1..Cardinality(v) -> v]
  BY DEF AscendingOrders
<1>4. Len(order) = Cardinality(v)
  BY <1>2, <1>3
<1> QED  BY <1>2, <1>3, <1>4

(* Each payment is taken off what was left before it.                      *)
Depletes(rem, order, o, funds) ==
    \A i \in 1..(Len(order) + 1) :
        rem[i] = IF i = 1 THEN funds
                 ELSE rem[i - 1] - GrossAmount(o[order[i - 1]], rem[i - 1])

LEMMA RemainingBeforeDef ==
    ASSUME NEW v \in SUBSET Workers, NEW o \in [Workers -> Int], NEW funds \in Int,
           NEW order, Len(order) \in Nat, order \in [1..Len(order) -> v]
    PROVE  LET rem == RemainingBefore(order, o, funds)
           IN  /\ rem \in [1..(Len(order) + 1) -> Int]
               /\ Depletes(rem, order, o, funds)
<1> DEFINE n == Len(order) + 1
           Next1(i, r) == r - GrossAmount(o[order[i - 1]], r)
           IsRem(f) == f = [i \in 1..n |-> IF i = 1 THEN funds
                                           ELSE Next1(i, f[i - 1])]
           step == [i \in 1..n |-> [r \in Int |-> IF i = 1 THEN 0 ELSE Next1(i, r)]]
<1>1. ASSUME NEW i \in 1..n, i # 1, NEW r \in Int PROVE Next1(i, r) \in Int
  <2>1. order[i - 1] \in Workers
    BY <1>1
  <2>2. GrossAmount(o[order[i - 1]], r) \in Nat
    BY <2>1, GrossAmountType
  <2> QED  BY <2>2
<1>2. step \in [1..n -> [Int -> Int]]
  <2> HIDE DEF Next1, n
  <2> QED  BY <1>1
<1>3. n \in Nat /\ funds \in Int
  OBVIOUS
<1>4. PICK f \in [1..n -> Int] : Iterates(f, n, funds, step)
  <2> HIDE DEF step, n
  <2> QED  BY <1>2, <1>3, IntervalRecursion
<1>5. ASSUME NEW i \in 1..n, i # 1
      PROVE  i - 1 \in 1..n /\ step[i][f[i - 1]] = Next1(i, f[i - 1])
  <2>1. i - 1 \in 1..n
    BY <1>3, <1>5
  <2>2. f[i - 1] \in Int
    BY <2>1
  <2> HIDE DEF Next1
  <2> QED  BY <1>5, <2>1, <2>2
<1>6. IsRem(f)
  <2> HIDE DEF Next1, step, n
  <2> QED  BY <1>4, <1>5 DEF Iterates
<1> DEFINE rem == CHOOSE g : IsRem(g)
<1>7. IsRem(rem)
  BY <1>6
<1>8. rem = RemainingBefore(order, o, funds)
  BY DEF RemainingBefore
<1>9. ASSUME NEW i \in 1..n, i > 1 => i - 1 \in {k \in 1..n : rem[k] \in Int}
      PROVE  i \in {k \in 1..n : rem[k] \in Int}
  <2>1. rem[i] = IF i = 1 THEN funds ELSE Next1(i, rem[i - 1])
    <3> HIDE DEF rem, Next1, n
    <3> QED  BY <1>7
  <2>2. i # 1 => rem[i - 1] \in Int
    <3> HIDE DEF rem
    <3> QED  BY <1>3, <1>9
  <2> HIDE DEF rem, Next1, n
  <2> QED  BY <1>1, <1>3, <2>1, <2>2
<1>10. 1..n \subseteq {k \in 1..n : rem[k] \in Int}
  <2> HIDE DEF rem, n
  <2> QED  BY <1>3, <1>9, IntervalInduction
<1>11. rem \in [1..n -> Int]
  <2> HIDE DEF rem, Next1, n
  <2> QED  BY <1>7, <1>10
<1>12. Depletes(rem, order, o, funds)
  <2>1. ASSUME NEW i \in 1..n
        PROVE  rem[i] = IF i = 1 THEN funds ELSE Next1(i, rem[i - 1])
    <3> HIDE DEF rem, Next1, n
    <3> QED  BY <1>7
  <2> HIDE DEF rem
  <2> QED  BY <2>1 DEF Depletes
<1> HIDE DEF rem
<1> QED  BY <1>8, <1>11, <1>12

LEMMA GrossAmountsType ==
    ASSUME NEW v \in SUBSET Workers, NEW o \in [Workers -> Int],
           NEW order \in AscendingOrders(v, o), NEW funds \in Int
    PROVE  LET batch == GrossAmounts(order, o, RemainingBefore(order, o, funds))
           IN  /\ batch \in [Workers -> Nat]
               /\ \A w \in Workers :
                     /\ batch[w] > 0 => w \in v /\ batch[w] <= o[w]
                     /\ batch[w] = 0 \/ batch[w] >= MinPayment
<1> DEFINE rem == RemainingBefore(order, o, funds)
           batch == GrossAmounts(order, o, rem)
<1>1. Len(order) \in Nat /\ order \in [1..Len(order) -> v]
  BY OrderType
<1>2. rem \in [1..(Len(order) + 1) -> Int]
  BY <1>1, RemainingBeforeDef
<1>3. ASSUME NEW w \in Workers, \E i \in 1..Len(order) : order[i] = w
      PROVE  w \in v /\ rem[Place(order, w)] \in Int
  <2>1. Place(order, w) \in 1..Len(order)
    BY <1>3 DEF Place
  <2> HIDE DEF rem
  <2> QED  BY <1>1, <1>2, <1>3, <2>1
<1>4. ASSUME NEW w \in Workers
      PROVE  /\ batch[w] \in Nat
             /\ batch[w] > 0 => w \in v /\ batch[w] <= o[w]
             /\ batch[w] = 0 \/ batch[w] >= MinPayment
  <2> HIDE DEF rem
  <2>1. CASE \E i \in 1..Len(order) : order[i] = w
    <3>1. batch[w] = GrossAmount(o[w], rem[Place(order, w)])
      BY <2>1 DEF GrossAmounts
    <3>2. w \in v /\ rem[Place(order, w)] \in Int /\ o[w] \in Int
      BY <1>3, <2>1
    <3> QED  BY <3>1, <3>2, GrossAmountType
  <2>2. CASE ~\E i \in 1..Len(order) : order[i] = w
    BY <2>2 DEF GrossAmounts
  <2> QED  BY <2>1, <2>2
<1>5. batch \in [Workers -> Nat]
  <2> HIDE DEF rem
  <2> QED  BY <1>4 DEF GrossAmounts
<1> QED  BY <1>4, <1>5

(* What is earned when debts move: the donors lose theirs, the recipients  *)
(* get them.                                                               *)
AfterMove(bal, rew, debts, v, recipient) ==
    [w \in Workers |-> IF w \in Donors(v, debts) THEN -bal[w]
                       ELSE rew[w] + Absorbed(w, recipient, debts)]

(* A debt that is redistributed is taken from its donor: the sum stays.    *)
LEMMA DebtsMove ==
    ASSUME NEW bal \in [Workers -> Int], NEW rew \in [Workers -> Nat],
           NEW debts \in [Workers -> Int], \A w \in Workers : debts[w] = bal[w] + rew[w],
           NEW v \in SUBSET Workers, NEW first \in SUBSET v,
           NEW recipient \in [Donors(v, debts) -> first]
    PROVE  SumOver(AfterMove(bal, rew, debts, v, recipient)) = SumOver(rew)
<1> DEFINE D == Donors(v, debts)
           new == AfterMove(bal, rew, debts, v, recipient)
           from(w) == {d \in D : recipient[d] = w}
<1>1. /\ D \in SUBSET Workers /\ IsFiniteSet(Workers)
      /\ recipient \in [D -> Workers] /\ \A d \in D : recipient[d] \notin D
  BY PayoutAssumption DEF Donors
<1>2. rew \in [Workers -> Int]
  OBVIOUS
<1>3. ASSUME NEW w \in Workers
      PROVE  new[w] = IF w \in D THEN rew[w] - debts[w]
                      ELSE rew[w] + SumFunctionOnSet(debts, {d \in D : recipient[d] = w})
  <2>1. Absorbed(w, recipient, debts) = SumFunctionOnSet(debts, from(w))
    <3>1. from(w) = {d \in DOMAIN recipient : recipient[d] = w}
      OBVIOUS
    <3> HIDE DEF from
    <3> QED  BY <3>1 DEF Absorbed
  <2>2. new[w] = IF w \in D THEN -bal[w] ELSE rew[w] + Absorbed(w, recipient, debts)
    BY DEF AfterMove
  <2>3. rew[w] - debts[w] = -bal[w]
    OBVIOUS
  <2> HIDE DEF new, D
  <2> QED  BY <2>1, <2>2, <2>3
<1>4. SumFunctionOnSet(new, Workers) = SumFunctionOnSet(rew, Workers)
  <2>1. MovedBy(recipient, D, Workers, rew, debts, new)
    <3> HIDE DEF new, D
    <3> QED  BY <1>3 DEF MovedBy
  <2> HIDE DEF D, new
  <2> QED  BY <1>1, <1>2, <2>1, SumMoved
<1> QED  BY <1>4 DEF SumOver

(* A part of the fee is always withheld.                                   *)
LEMMA NetAmountBelow ==
    ASSUME NEW g \in Nat \ {0}, NEW r \in 0..MaxRetries
    PROVE  NetAmount(g, r) < g
<1> DEFINE k == WithheldPermille(r)
<1>1. k \in 1..1000
  BY FeeAssumption
<1> HIDE DEF k
<1>2. g * (1000 - k) = 1000 * g - g * k
  BY <1>1
<1>3. g * k \in Nat /\ g * k > 0
  <2>1. \A a, b \in Nat \ {0} : a * b \in Nat /\ a * b > 0
    OBVIOUS
  <2> QED  BY <1>1, <2>1
<1>4. \A p \in Nat : p < 1000 * g => p \div 1000 < g
  OBVIOUS
<1>5. g * (1000 - k) \in Nat
  <2>1. 1000 - k \in Nat
    BY <1>1
  <2>2. \A a, b \in Nat : a * b \in Nat
    OBVIOUS
  <2> QED  BY <2>1, <2>2
<1>6. g * (1000 - k) < 1000 * g
  BY <1>2, <1>3, <1>5
<1>7. (g * (1000 - k)) \div 1000 < g
  BY <1>4, <1>5, <1>6
<1> QED  BY <1>7 DEF NetAmount, k

(* Every valid worker has one place in the batch.                          *)
LEMMA OrderCovers ==
    ASSUME NEW v \in SUBSET Workers, NEW o, NEW order \in AscendingOrders(v, o)
    PROVE  /\ Range(order) = v
           /\ \A i \in 1..Len(order) : Place(order, order[i]) = i
<1> DEFINE n == Cardinality(v)
<1>1. IsFiniteSet(v) /\ n \in Nat
  BY PayoutAssumption, FS_Subset, FS_CardinalityType
<1>2. order \in [1..n -> v] /\ Len(order) = n
  <2>1. order \in [1..n -> v]
    BY DEF AscendingOrders
  <2> QED  BY <1>1, <2>1
<1>3. ASSUME NEW i \in 1..n, NEW j \in 1..n, order[i] = order[j]
      PROVE  i = j
  <2>1. ~(i < j) /\ ~(j < i)
    BY <1>3 DEF AscendingOrders
  <2> QED  BY <1>1, <2>1
<1>4. order \in Injection(1..n, v)
  BY <1>2, <1>3 DEF Injection, IsInjective
<1>5. IsFiniteSet(1..n) /\ Cardinality(1..n) = n
  BY <1>1, FS_Interval
<1>6. order \in Surjection(1..n, v)
  BY <1>1, <1>4, <1>5, FS_Injection
<1>7. Range(order) = v
  BY <1>2, <1>6 DEF Surjection, Range
<1>8. ASSUME NEW i \in 1..Len(order) PROVE Place(order, order[i]) = i
  <2>1. Place(order, order[i]) \in 1..n
    BY <1>2 DEF Place
  <2>2. order[Place(order, order[i])] = order[i]
    BY <1>2 DEF Place
  <2> QED  BY <1>2, <1>3, <2>1, <2>2
<1> QED  BY <1>7, <1>8

(* The balance is never overdrawn, and what a payment takes is gone for    *)
(* all that follow.                                                        *)
LEMMA RemainingFalls ==
    ASSUME NEW v \in SUBSET Workers, NEW o \in [Workers -> Int], NEW funds \in Nat,
           NEW order, Len(order) \in Nat, order \in [1..Len(order) -> v]
    PROVE  LET rem == RemainingBefore(order, o, funds)
           IN  /\ \A i \in 1..(Len(order) + 1) : rem[i] \in Nat
               /\ \A i \in 1..Len(order) : \A j \in 1..(Len(order) + 1) :
                     i < j => rem[j] <= rem[i] - GrossAmount(o[order[i]], rem[i])
<1> DEFINE rem == RemainingBefore(order, o, funds)
           n == Len(order) + 1
           take(i) == GrossAmount(o[order[i]], rem[i])
<1>1. /\ rem \in [1..n -> Int] /\ n \in Nat
      /\ rem[1] = funds
      /\ \A i \in 1..n : i # 1 => rem[i] = rem[i - 1] - take(i - 1)
  <2>1. funds \in Int
    OBVIOUS
  <2>2. rem \in [1..n -> Int] /\ Depletes(rem, order, o, funds)
    BY <2>1, RemainingBeforeDef
  <2> HIDE DEF rem
  <2> QED  BY <2>2 DEF Depletes
<1>2. ASSUME NEW i \in 1..Len(order)
      PROVE  take(i) \in Nat /\ (rem[i] \in Nat => take(i) <= rem[i])
  <2>1. o[order[i]] \in Int /\ rem[i] \in Int
    <3> HIDE DEF rem
    <3> QED  BY <1>1
  <2> HIDE DEF rem
  <2>2. take(i) \in Nat
    BY <2>1, GrossAmountType
  <2>3. rem[i] \in Nat => take(i) <= rem[i]
    BY <2>1 DEF GrossAmount
  <2> QED  BY <2>2, <2>3
<1> HIDE DEF rem, take
<1>3. \A i \in 1..n : rem[i] \in Nat
  <2> DEFINE B == {i \in 1..n : rem[i] \in Nat}
  <2>1. ASSUME NEW i \in 1..n, i > 1 => i - 1 \in B PROVE i \in B
    <3>1. CASE i = 1
      BY <1>1, <3>1
    <3>2. CASE i # 1
      <4>1. i - 1 \in 1..Len(order) /\ rem[i - 1] \in Nat
        BY <1>1, <2>1, <3>2
      <4>2. take(i - 1) \in Nat /\ take(i - 1) <= rem[i - 1]
        BY <1>2, <4>1
      <4>3. rem[i] = rem[i - 1] - take(i - 1)
        BY <1>1, <3>2
      <4> QED  BY <4>1, <4>2, <4>3
    <3> QED  BY <3>1, <3>2
  <2> HIDE DEF B
  <2>2. 1..n \subseteq B
    BY <1>1, <2>1, IntervalInduction
  <2> QED  BY <2>2 DEF B
<1>4. ASSUME NEW i \in 1..Len(order)
      PROVE  \A j \in 1..n : i < j => rem[j] <= rem[i] - take(i)
  <2> DEFINE B == {j \in 1..n : i < j => rem[j] <= rem[i] - take(i)}
  <2>1. ASSUME NEW j \in 1..n, j > 1 => j - 1 \in B PROVE j \in B
    <3>1. CASE i < j
      <4>1. /\ j # 1 /\ j - 1 \in 1..Len(order) /\ j - 1 \in 1..n
            /\ i \in 1..n
        BY <1>1, <3>1
      <4>2. rem[j] = rem[j - 1] - take(j - 1) /\ take(j - 1) \in Nat
        BY <1>1, <1>2, <4>1
      <4>3. /\ rem[j] \in Int /\ rem[j - 1] \in Int /\ rem[i] \in Int
            /\ take(i) \in Int
        <5>1. take(i) \in Nat
          BY <1>2
        <5> HIDE DEF n
        <5> QED  BY <1>3, <4>1, <5>1
      <4>4. CASE i = j - 1
        BY <4>2, <4>3, <4>4
      <4>5. CASE i # j - 1
        <5>1. i < j - 1 /\ j - 1 \in B
          BY <2>1, <3>1, <4>1, <4>5
        <5>2. rem[j - 1] <= rem[i] - take(i)
          BY <5>1
        <5> QED  BY <4>2, <4>3, <5>2
      <4> QED  BY <4>4, <4>5
    <3> QED  BY <3>1
  <2> HIDE DEF B
  <2>2. 1..n \subseteq B
    BY <1>1, <2>1, IntervalInduction
  <2> QED  BY <2>2 DEF B
<1> QED  BY <1>3, <1>4 DEF rem, take

(* The gross amounts of a batch, one by one and together.                  *)
LEMMA BatchTakes ==
    ASSUME NEW v \in SUBSET Workers, NEW o \in [Workers -> Int], NEW funds \in Nat,
           NEW order \in AscendingOrders(v, o)
    PROVE  LET rem   == RemainingBefore(order, o, funds)
               batch == GrossAmounts(order, o, rem)
           IN  /\ \A i \in 1..Len(order) :
                     batch[order[i]] = GrossAmount(o[order[i]], rem[i])
               /\ SumOver(batch) = funds - rem[Len(order) + 1]
<1> DEFINE rem == RemainingBefore(order, o, funds)
           batch == GrossAmounts(order, o, rem)
           n == Len(order)
           take == [i \in 1..n |-> GrossAmount(o[order[i]], rem[i])]
           from(w) == {i \in 1..n : order[i] = w}
<1>1. /\ n \in Nat /\ order \in [1..n -> v]
      /\ \A i \in 1..n : Place(order, order[i]) = i
  BY OrderType, OrderCovers
<1>2. /\ rem \in [1..(n + 1) -> Int]
      /\ rem[1] = funds
      /\ \A i \in 1..n : rem[i + 1] = rem[i] - take[i]
  <2>1. /\ rem \in [1..(n + 1) -> Int]
        /\ \A i \in 1..(n + 1) :
              rem[i] = IF i = 1 THEN funds
                       ELSE rem[i - 1] - GrossAmount(o[order[i - 1]], rem[i - 1])
    <3>1. funds \in Int
      OBVIOUS
    <3>2. rem \in [1..(n + 1) -> Int] /\ Depletes(rem, order, o, funds)
      BY <1>1, <3>1, RemainingBeforeDef
    <3> HIDE DEF rem
    <3> QED  BY <3>2 DEF Depletes
  <2> HIDE DEF rem, n
  <2>2. \A i \in 1..n : i + 1 \in 1..(n + 1) /\ i + 1 # 1 /\ (i + 1) - 1 = i
    BY <1>1
  <2>3. ASSUME NEW i \in 1..n
        PROVE  rem[i + 1] = rem[i] - GrossAmount(o[order[i]], rem[i])
    BY <2>1, <2>2
  <2>4. 1 \in 1..(n + 1)
    BY <1>1
  <2> QED  BY <2>1, <2>3, <2>4
<1>3. take \in [1..n -> Nat]
  <2>1. ASSUME NEW i \in 1..n PROVE GrossAmount(o[order[i]], rem[i]) \in Nat
    <3>1. o[order[i]] \in Int /\ rem[i] \in Int
      <4> HIDE DEF rem, n
      <4> QED  BY <1>1, <1>2
    <3> HIDE DEF rem, n
    <3> QED  BY <3>1, GrossAmountType
  <2> HIDE DEF rem, n
  <2> QED  BY <2>1
<1>4. ASSUME NEW i \in 1..n PROVE batch[order[i]] = take[i]
  <2> HIDE DEF rem
  <2>1. order[i] \in Workers
    BY <1>1
  <2> QED  BY <1>1, <1>4, <2>1 DEF GrossAmounts
<1>5. ASSUME NEW w \in Workers PROVE batch[w] = SumFunctionOnSet(take, from(w))
  <2>1. CASE \E i \in 1..n : order[i] = w
    <3>1. PICK i \in 1..n : order[i] = w
      BY <2>1
    <3>2. from(w) = {i}
      BY <1>1, <3>1
    <3>3. IsFiniteSet({i}) /\ {i} \ {i} = {} /\ i \in {i}
      BY FS_Singleton
    <3>4. \A x \in {i} : take[x] \in Int
      <4> HIDE DEF take
      <4> QED  BY <1>3
    <3>5. SumFunctionOnSet(take, {i}) = take[i] + SumFunctionOnSet(take, {})
      <4>1. SumFunctionOnSet(take, {i}) = take[i] + SumFunctionOnSet(take, {i} \ {i})
        <5> HIDE DEF take
        <5> QED  BY <3>3, <3>4, SumTake
      <4> HIDE DEF take
      <4> QED  BY <3>3, <4>1
    <3>6. SumFunctionOnSet(take, {}) = 0
      BY SumEmpty
    <3>7. take[i] \in Int /\ batch[w] = take[i]
      <4>1. batch[order[i]] = take[i]
        BY <1>4
      <4> HIDE DEF take, batch
      <4> QED  BY <3>1, <3>4, <4>1
    <3> HIDE DEF take, batch, from
    <3>8. SumFunctionOnSet(take, {i}) = take[i]
      BY <3>5, <3>6, <3>7
    <3> QED  BY <3>2, <3>7, <3>8
  <2>2. CASE ~\E i \in 1..n : order[i] = w
    <3>1. from(w) = {}
      BY <2>2
    <3>2. batch[w] = 0
      <4> HIDE DEF rem
      <4> QED  BY <2>2 DEF GrossAmounts
    <3> HIDE DEF take, batch, from
    <3> QED  BY <3>1, <3>2, SumEmpty
  <2> QED  BY <2>1, <2>2
<1> HIDE DEF rem, take
<1>6. batch = [w \in Workers |-> SumFunctionOnSet(take, from(w))]
  <2>1. batch = [w \in Workers |-> batch[w]]
    BY DEF GrossAmounts
  <2> HIDE DEF batch, from
  <2> QED  BY <1>5, <2>1
<1>7. SumOver(batch) = SumFunctionOnSet(take, 1..n)
  <2>1. IsFiniteSet(1..n) /\ IsFiniteSet(Workers) /\ order \in [1..n -> Workers]
    BY <1>1, PayoutAssumption, FS_Interval
  <2>2. \A i \in 1..n : take[i] \in Int
    BY <1>3
  <2>3. SumFunctionOnSet([w \in Workers |-> SumFunctionOnSet(take, from(w))], Workers)
          = SumFunctionOnSet(take, 1..n)
    <3> DEFINE D == 1..n
    <3>1. SumFunctionOnSet([w \in Workers |->
              SumFunctionOnSet(take, {i \in D : order[i] = w})], Workers)
            = SumFunctionOnSet(take, D)
      <4>1. IsFiniteSet(D) /\ order \in [D -> Workers] /\ \A i \in D : take[i] \in Int
        BY <2>1, <2>2
      <4>2. IsFiniteSet(Workers)
        BY <2>1
      <4> HIDE DEF D
      <4> QED  BY ONLY <4>1, <4>2, SumPartition
    <3> QED  BY <3>1
  <2> HIDE DEF n, batch, from
  <2> QED  BY <1>6, <2>3 DEF SumOver
<1> DEFINE B == {k \in 1..n : SumFunctionOnSet(take, 1..k) = funds - rem[k + 1]}
<1>8. ASSUME NEW k \in 1..n, k > 1 => k - 1 \in B PROVE k \in B
  <2>1. k - 1 \in Nat /\ (k - 1) + 1 = k
    BY <1>1
  <2>2. \A i \in 1..k : i \in 1..n
    BY <1>1
  <2>3. /\ \A i \in 1..(k - 1) : take[i] \in Int
        /\ take[k] \in Int /\ rem[k] \in Int /\ rem[k + 1] \in Int
    <3>1. \A i \in 1..(k - 1) : i \in 1..n
      BY <1>1
    <3>2. k \in 1..(n + 1) /\ k + 1 \in 1..(n + 1)
      BY <1>1
    <3> HIDE DEF n
    <3>3. \A i \in 1..n : take[i] \in Int
      BY <1>3
    <3>4. \A i \in 1..(n + 1) : rem[i] \in Int
      BY <1>2
    <3> QED  BY <3>1, <3>2, <3>3, <3>4
  <2>4. SumFunctionOnSet(take, 1..((k - 1) + 1))
          = SumFunctionOnSet(take, 1..(k - 1)) + take[(k - 1) + 1]
    <3> DEFINE p == k - 1
    <3>1. p \in Nat /\ take[p + 1] \in Int /\ \A i \in 1..p : take[i] \in Int
      BY <2>1, <2>3
    <3>2. SumFunctionOnSet(take, 1..(p + 1)) = SumFunctionOnSet(take, 1..p) + take[p + 1]
      <4> HIDE DEF p
      <4> QED  BY <3>1, SumExtend
    <3> QED  BY <3>2
  <2>5. SumFunctionOnSet(take, 1..(k - 1)) = funds - rem[k]
    <3>1. CASE k = 1
      <4>1. 1..(k - 1) = {} /\ rem[k] = funds
        BY <1>2, <3>1
      <4> QED  BY <4>1, SumEmpty
    <3>2. CASE k # 1
      BY <1>8, <2>1, <3>2
    <3> QED  BY <3>1, <3>2
  <2>6. SumFunctionOnSet(take, 1..k) = funds - rem[k + 1]
    BY <1>2, <2>1, <2>3, <2>4, <2>5
  <2> QED  BY <2>6
<1>9. SumFunctionOnSet(take, 1..n) = funds - rem[n + 1]
  <2>1. CASE n = 0
    <3>1. 1..n = {} /\ n + 1 = 1
      BY <2>1
    <3> QED  BY <1>2, <3>1, SumEmpty
  <2>2. CASE n # 0
    <3> HIDE DEF B, n
    <3>1. 1..n \subseteq B
      BY <1>1, <1>8, IntervalInduction
    <3>2. n \in 1..n
      BY <1>1, <2>2
    <3> QED  BY <3>1, <3>2 DEF B
  <2> QED  BY <2>1, <2>2
<1>10. \A i \in 1..n : batch[order[i]] = GrossAmount(o[order[i]], rem[i])
  BY <1>4 DEF take
<1> HIDE DEF batch
<1>11. SumOver(batch) = funds - rem[n + 1]
  BY <1>7, <1>9
<1> QED  BY <1>10, <1>11 DEF batch, rem

(* A debt that is not paid in full though it has reached the minimum is    *)
(* the last that is paid.                                                  *)
LEMMA PartIsLast ==
    ASSUME NEW debts \in Int, debts >= MinPayment, NEW rem \in Nat,
           GrossAmount(debts, rem) # debts
    PROVE  rem - GrossAmount(debts, rem) < MinPayment
  BY PayoutAssumption DEF GrossAmount

(* What a batch pays, and in which order it runs out of money.             *)
LEMMA BatchPays ==
    ASSUME NEW v \in SUBSET Workers, NEW o \in [Workers -> Int], NEW funds \in Nat,
           NEW order \in AscendingOrders(v, o)
    PROVE  LET batch == GrossAmounts(order, o, RemainingBefore(order, o, funds))
           IN  /\ SumOver(batch) \in Int /\ SumOver(batch) <= funds
               /\ \A u, w \in v :
                     MinPayment <= o[u] /\ o[u] < o[w] /\ batch[w] > 0
                        => batch[u] = o[u]
               /\ \/ funds - SumOver(batch) < MinPayment
                  \/ \A w \in v : o[w] >= MinPayment => batch[w] = o[w]
<1> DEFINE rem == RemainingBefore(order, o, funds)
           batch == GrossAmounts(order, o, rem)
           n == Len(order)
<1>1. n \in Nat /\ order \in [1..n -> v] /\ Range(order) = v
  BY OrderType, OrderCovers
<1>2. /\ \A i \in 1..n : batch[order[i]] = GrossAmount(o[order[i]], rem[i])
      /\ SumOver(batch) = funds - rem[n + 1]
  BY BatchTakes
<1>3. /\ \A i \in 1..(n + 1) : rem[i] \in Nat
      /\ \A i \in 1..n : \A j \in 1..(n + 1) :
            i < j => rem[j] <= rem[i] - GrossAmount(o[order[i]], rem[i])
  BY <1>1, RemainingFalls
<1> HIDE DEF rem, batch, n
<1>4. ASSUME NEW w \in v PROVE \E i \in 1..n : order[i] = w
  BY <1>1 DEF Range
<1>5. ASSUME NEW i \in 1..n, NEW j \in 1..(n + 1), i < j,
             o[order[i]] >= MinPayment, batch[order[i]] # o[order[i]]
      PROVE  rem[j] < MinPayment
  <2>1. o[order[i]] \in Int /\ i \in 1..(n + 1)
    BY <1>1
  <2>2. rem[i] \in Nat /\ GrossAmount(o[order[i]], rem[i]) # o[order[i]]
    BY <1>2, <1>3, <1>5, <2>1
  <2>3. rem[i] - GrossAmount(o[order[i]], rem[i]) < MinPayment
    BY <1>5, <2>1, <2>2, PartIsLast
  <2>4. GrossAmount(o[order[i]], rem[i]) \in Nat /\ rem[j] \in Nat
    <3>1. rem[i] \in Int
      BY <2>2
    <3>2. GrossAmount(o[order[i]], rem[i]) \in Nat
      BY <2>1, <3>1, GrossAmountType
    <3> QED  BY <1>3, <3>2
  <2>5. rem[j] <= rem[i] - GrossAmount(o[order[i]], rem[i])
    BY <1>3, <1>5
  <2> QED  BY <2>2, <2>3, <2>4, <2>5, PayoutAssumption
<1>6. ASSUME NEW u \in v, NEW w \in v, MinPayment <= o[u], o[u] < o[w], batch[w] > 0
      PROVE  batch[u] = o[u]
  <2>1. PICK i \in 1..n : order[i] = u
    BY <1>4
  <2>2. PICK j \in 1..n : order[j] = w
    BY <1>4
  <2>3. o[u] \in Int /\ o[w] \in Int
    OBVIOUS
  <2>4. i < j
    <3>1. ~(j < i)
      <4>1. j < i => o[order[j]] <= o[order[i]]
        <5>1. n = Cardinality(v)
          <6>1. order \in [1..Cardinality(v) -> v] /\ Cardinality(v) \in Nat
            BY PayoutAssumption, FS_Subset, FS_CardinalityType DEF AscendingOrders
          <6> QED  BY <6>1 DEF n
        <5> QED  BY <5>1 DEF AscendingOrders
      <4> QED  BY <1>6, <2>1, <2>2, <2>3, <4>1
    <3>2. i # j
      BY <1>6, <2>1, <2>2, <2>3
    <3> QED  BY <1>1, <3>1, <3>2
  <2>5. j \in 1..(n + 1)
    BY <1>1
  <2>6. rem[j] >= MinPayment
    <3>1. batch[w] = GrossAmount(o[w], rem[j]) /\ rem[j] \in Nat
      BY <1>2, <1>3, <2>2, <2>5
    <3> QED  BY <1>6, <2>3, <3>1, PayoutAssumption DEF GrossAmount
  <2>7. rem[j] \in Nat
    BY <1>3, <2>5
  <2>8. CASE batch[u] # o[u]
    <3>1. rem[j] < MinPayment
      BY <1>5, <1>6, <2>1, <2>3, <2>4, <2>5, <2>8, PayoutAssumption
    <3> QED  BY <2>6, <2>7, <3>1, PayoutAssumption
  <2> QED  BY <2>8
<1>7. rem[n + 1] \in Nat
  BY <1>1, <1>3
<1>8. ASSUME ~(funds - SumOver(batch) < MinPayment), NEW w \in v, o[w] >= MinPayment
      PROVE  batch[w] = o[w]
  <2>1. PICK i \in 1..n : order[i] = w
    BY <1>4
  <2>2. i < n + 1 /\ n + 1 \in 1..(n + 1)
    BY <1>1
  <2>3. ~(rem[n + 1] < MinPayment)
    BY <1>2, <1>7, <1>8, PayoutAssumption
  <2> QED  BY <1>5, <1>8, <2>1, <2>2, <2>3
<1>9. SumOver(batch) \in Int /\ SumOver(batch) <= funds
  BY <1>2, <1>7
<1> QED  BY <1>6, <1>8, <1>9 DEF batch, rem

-----------------------------------------------------------------------------
(* What an attempt allocates, out of the reported balance.                 *)
Batch == GrossAmounts(validResults, owed,
                      RemainingBefore(validResults, owed, spendable))

(* What every worker's change comes to when nothing is sent any more.      *)
Final == [w \in Workers |-> IF w \in Valid THEN reward[w] ELSE balanceChange[w]]

(* The debts are redistributed only with the last answer.                  *)
LookupInv ==
    pc = "lookup" => credit = reward

(* From then on the batch is fixed: every attempt allocates the same.      *)
BatchInv ==
    /\ pc # "lookup" => validResults \in AscendingOrders(Valid, owed)
    /\ pc \in {"lookup", "balance"} => pendingPayable = Zero
    /\ pc = "send" => pendingPayable # Zero
    /\ pendingPayable \in {Zero, Batch}

ChangeInv ==
    /\ \A w \in Workers : owed[w] = balance[w] + reward[w]
    /\ pc \in {"balance", "send"} => SumOver(Final) = SumOver(credit)
    /\ pc = "send" =>
          \A w \in Valid : pendingPayable[w] = 0 => balanceChange[w] = reward[w]
    /\ pc # "done" => sentGross = Zero
    /\ StepConserves

StepInv == TypeOK /\ LookupInv /\ BatchInv /\ ChangeInv

LEMMA AmountsType ==
    ASSUME TypeOK
    PROVE  /\ balance \in [Workers -> Nat] /\ reward \in [Workers -> Nat]
           /\ owed \in [Workers -> Nat] /\ pendingPayable \in [Workers -> Nat]
           /\ sent \in [Workers -> Nat] /\ credit \in [Workers -> Nat]
           /\ sentGross \in [Workers -> Nat]
  BY DEF TypeOK

LEMMA ZeroType ==
    /\ Zero \in [Workers -> Nat]
    /\ SumOver(Zero) = 0
<1>1. \A w \in Workers : Zero[w] = 0
  BY DEF Zero
<1>2. SumFunctionOnSet(Zero, Workers) = 0
  BY <1>1, SumZero, PayoutAssumption
<1> QED  BY <1>2 DEF Zero, SumOver

LEMMA ValidType ==
    ASSUME TypeOK PROVE Valid \in SUBSET Workers /\ IsFiniteSet(Valid)
<1>1. Valid \in SUBSET Workers
  BY DEF Valid, Range, TypeOK
<1> QED  BY <1>1, PayoutAssumption, FS_Subset

LEMMA ResultsType ==
    ASSUME TypeOK, NEW w \in Workers, NEW results \in Results(w)
    PROVE  results \in Seq(Workers) /\ Range(results) \in SUBSET Workers
<1>1. validResults \in Seq(Workers)
  BY DEF TypeOK
<1>2. Append(validResults, w) \in Seq(Workers)
  BY <1>1
<1>3. results \in {validResults, Append(validResults, w)}
  BY DEF Results
<1>4. results \in Seq(Workers)
  BY <1>1, <1>2, <1>3
<1> QED  BY <1>4 DEF Range

LEMMA OrderSeq ==
    ASSUME NEW v \in SUBSET Workers, NEW o, NEW order \in AscendingOrders(v, o)
    PROVE  order \in Seq(Workers)
<1>1. Len(order) \in Nat /\ order \in [1..Len(order) -> v]
  BY OrderType
<1> QED  BY <1>1

(* What an attempt allocates is of the right type and for valid workers.   *)
LEMMA BatchType ==
    ASSUME TypeOK, validResults \in AscendingOrders(Valid, owed),
           NEW reported \in Nat
    PROVE  LET amounts == GrossAmounts(validResults, owed,
                              RemainingBefore(validResults, owed, reported))
           IN  /\ amounts \in [Workers -> Nat]
               /\ \A w \in Workers : amounts[w] > 0 => w \in Valid
<1>1. Valid \in SUBSET Workers /\ owed \in [Workers -> Int] /\ reported \in Int
  BY ValidType, AmountsType
<1> QED  BY <1>1, GrossAmountsType

(* One amount per address or one per worker: the sum is the same.          *)
LEMMA BatchAmountSum ==
    ASSUME TypeOK
    PROVE  /\ BatchAmount \in Nat
           /\ BatchAmount = SumFunctionOnSet(
                 [w \in Workers |-> NetAmount(pendingPayable[w], retry)], Valid)
<1> DEFINE net == [w \in Workers |-> NetAmount(pendingPayable[w], retry)]
           at == [w \in Valid |-> AddressOf[w]]
<1>1. \A w \in Workers : net[w] \in Nat
  <2>1. ASSUME NEW w \in Workers PROVE NetAmount(pendingPayable[w], retry) \in Nat
    <3>1. pendingPayable[w] \in Nat /\ retry \in 0..MaxRetries
      BY AmountsType DEF TypeOK
    <3> QED  BY <3>1, NetAmountType
  <2> QED  BY <2>1
<1>2. IsFiniteSet(Addresses) /\ Valid \in SUBSET Workers /\ IsFiniteSet(Valid)
  <2>1. IsFiniteSet(Addresses)
    <3> DEFINE f == [w \in Workers |-> AddressOf[w]]
    <3>1. f \in Surjection(Workers, Addresses)
      BY DEF Surjection, Addresses
    <3> HIDE DEF f
    <3> QED  BY <3>1, FS_Surjection, PayoutAssumption
  <2> QED  BY <2>1, ValidType
<1>3. at \in [Valid -> Addresses] /\ \A w \in Valid : net[w] \in Int /\ net[w] \in Nat
  <2> HIDE DEF net
  <2> QED  BY <1>1, <1>2 DEF Addresses
<1>4. SumFunctionOnSet([a \in Addresses |->
          SumFunctionOnSet(net, {w \in Valid : at[w] = a})], Addresses)
        = SumFunctionOnSet(net, Valid)
  <2>1. \A w \in Valid : net[w] \in Int
    BY <1>3
  <2>2. IsFiniteSet(Valid) /\ IsFiniteSet(Addresses) /\ at \in [Valid -> Addresses]
    BY <1>2, <1>3
  <2> HIDE DEF net, at
  <2> QED  BY ONLY <2>1, <2>2, SumPartition
<1>5. \A a \in Addresses : {w \in Valid : at[w] = a} = {w \in Valid : AddressOf[w] = a}
  OBVIOUS
<1>6. AddressAmounts = [a \in Addresses |->
          SumFunctionOnSet(net, {w \in Valid : at[w] = a})]
  <2>1. AddressAmounts = [a \in Addresses |->
            SumFunctionOnSet(net, {w \in Valid : AddressOf[w] = a})]
    BY DEF AddressAmounts
  <2> HIDE DEF net, at
  <2> QED  BY <1>5, <2>1
<1>7. BatchAmount = SumFunctionOnSet(net, Valid)
  <2> HIDE DEF net, at
  <2> QED  BY <1>4, <1>6 DEF BatchAmount
<1>8. SumFunctionOnSet(net, Valid) \in Nat
  <2> HIDE DEF net
  <2> QED  BY <1>2, <1>3, SumNat
<1> QED  BY <1>7, <1>8

-----------------------------------------------------------------------------
(* The invariant.                                                          *)

LEMMA StepInit == Init => StepInv
<1> SUFFICES ASSUME Init PROVE StepInv
  OBVIOUS
<1>1. PICK debt \in [Workers -> Debts] :
          /\ balance = [w \in Workers |-> debt[w][1]]
          /\ reward = [w \in Workers |-> debt[w][2]]
  BY DEF Init
<1>2. balance \in [Workers -> Nat] /\ reward \in [Workers -> Nat]
  <2>1. \A w \in Workers : debt[w][1] \in Nat /\ debt[w][2] \in Nat
    BY StepAssumption
  <2> QED  BY <1>1, <2>1
<1>3. owed \in [Workers -> Nat] /\ \A w \in Workers : owed[w] = balance[w] + reward[w]
  BY <1>2 DEF Init
<1>4. TypeOK
  BY <1>2, <1>3, ZeroType, PayoutAssumption, StepAssumption DEF Init, TypeOK
<1>5. LookupInv /\ BatchInv
  BY DEF Init, LookupInv, BatchInv
<1>6. ChangeInv
  BY <1>3 DEF Init, ChangeInv, StepConserves
<1> QED  BY <1>4, <1>5, <1>6 DEF StepInv

LEMMA LookupStep ==
    ASSUME StepInv, NEW w \in Workers, LookupAnswered(w) PROVE StepInv'
<1>1. validResults' \in Seq(Workers)
  BY ResultsType DEF LookupAnswered, StepInv
<1>2. TypeOK'
  BY <1>1 DEF TypeOK, StepInv, LookupAnswered
<1>3. LookupInv' /\ BatchInv'
  BY DEF LookupAnswered, StepInv, LookupInv, BatchInv, Zero
<1>4. ChangeInv'
  BY DEF LookupAnswered, StepInv, ChangeInv, StepConserves, Zero
<1> QED  BY <1>2, <1>3, <1>4 DEF StepInv

(* An attempt allocates the fixed batch and defers whom it gives nothing.  *)
LEMMA AttemptStep ==
    ASSUME StepInv, pc \in {"balance", "send"},
           NEW count \in 0..MaxRetries, NEW reported \in Nat,
           Attempt(count, reported), spendable' = reported,
           pc = "send" => reported = spendable,
           UNCHANGED <<answered, validResults, balance, reward, owed, sent,
                       wallet, credit, sentGross>>
    PROVE  StepInv'
<1> DEFINE amounts == GrossAmounts(validResults, owed,
                          RemainingBefore(validResults, owed, reported))
<1>1. /\ retry' = count /\ pendingPayable' = amounts
      /\ balanceChange' = [w \in Workers |->
            IF w \in {u \in Valid : amounts[u] = 0} THEN reward[w]
            ELSE balanceChange[w]]
      /\ pc' = IF amounts = Zero THEN "done" ELSE "send"
  BY DEF Attempt, Defer
<1>2. validResults \in AscendingOrders(Valid, owed)
  BY DEF StepInv, BatchInv
<1>3. /\ amounts \in [Workers -> Nat]
      /\ \A w \in Workers : amounts[w] > 0 => w \in Valid
  BY <1>2, BatchType DEF StepInv
<1>4. amounts = Batch' /\ Valid' = Valid
  BY DEF Batch, Valid
<1>5. Valid \in SUBSET Workers /\ TypeOK
  BY ValidType DEF StepInv
<1>6. pc = "send" => amounts = pendingPayable
  BY DEF StepInv, BatchInv, Batch
<1> HIDE DEF amounts
<1>7. balanceChange' \in [Workers -> Int]
  <2>1. reward \in [Workers -> Nat] /\ balanceChange \in [Workers -> Int]
    BY <1>5 DEF TypeOK
  <2> QED  BY <1>1, <2>1
<1>8. TypeOK'
  BY <1>1, <1>3, <1>5, <1>7 DEF TypeOK
<1>9. LookupInv' /\ BatchInv'
  <2>1. pc' # "lookup"
    BY <1>1
  <2>2. (validResults \in AscendingOrders(Valid, owed))'
    BY <1>2, <1>4
  <2>3. /\ pc' \in {"send", "done"} /\ (pc' = "send" => amounts # Zero)
        /\ Zero' = Zero
    BY <1>1 DEF Zero
  <2> QED  BY <1>1, <1>4, <2>1, <2>2, <2>3 DEF LookupInv, BatchInv
<1>10. Final' = Final
  <2>1. \A w \in Workers : w \notin Valid => balanceChange'[w] = balanceChange[w]
    BY <1>1
  <2> QED  BY <1>4, <2>1 DEF Final
<1>11. SumOver(Final') = SumOver(credit')
  BY <1>10 DEF StepInv, ChangeInv
<1>12. \A w \in Valid : amounts[w] = 0 => balanceChange'[w] = reward[w]
  BY <1>1, <1>5
<1>13. pc' = "done" => SumOver(balanceChange') + SumOver(sentGross') = SumOver(credit')
  <2> SUFFICES ASSUME pc' = "done"
               PROVE  SumOver(balanceChange') + SumOver(sentGross') = SumOver(credit')
    OBVIOUS
  <2>1. amounts = Zero
    BY <1>1
  <2>2. balanceChange' = Final'
    <3>1. \A w \in Valid : amounts[w] = 0
      BY <1>5, <2>1 DEF Zero
    <3>2. \A w \in Workers : balanceChange'[w] = Final'[w]
      BY <1>4, <1>5, <1>12, <3>1 DEF Final
    <3>3. balanceChange' = [w \in Workers |-> balanceChange'[w]]
      BY <1>7
    <3>4. Final' = [w \in Workers |-> Final'[w]]
      BY DEF Final
    <3> QED  BY <3>2, <3>3, <3>4
  <2>3. SumOver(sentGross') = 0
    BY ZeroType DEF StepInv, ChangeInv
  <2>4. SumOver(credit') \in Int
    <3>1. credit' \in [Workers -> Nat]
      BY <1>8 DEF TypeOK
    <3>2. SumOver(credit') \in Nat
      BY <3>1, SumOverType
    <3> QED  BY <3>2
  <2> QED  BY <1>11, <2>2, <2>3, <2>4
<1>14. ChangeInv'
  <2>1. \A w \in Workers : owed'[w] = balance'[w] + reward'[w]
    BY DEF StepInv, ChangeInv
  <2>2. SumOver(Final)' = SumOver(credit)'
    BY <1>11 DEF SumOver
  <2>3. (SumOver(balanceChange) + SumOver(sentGross) = SumOver(credit))'
           \/ pc' # "done"
    BY <1>13 DEF SumOver
  <2>4. sentGross' = Zero'
    BY DEF StepInv, ChangeInv, Zero
  <2> QED
    BY <1>1, <1>4, <1>12, <2>1, <2>2, <2>3, <2>4 DEF ChangeInv, StepConserves
<1> QED  BY <1>8, <1>9, <1>14 DEF StepInv

LEMMA BalanceStep == ASSUME StepInv, BalanceAnswered PROVE StepInv'
<1>1. 0 \in 0..MaxRetries /\ wallet \in Nat
  BY PayoutAssumption DEF StepInv, TypeOK
<1> QED  BY <1>1, AttemptStep DEF BalanceAnswered

LEMMA RetryStep == ASSUME StepInv, SendRetried PROVE StepInv'
<1>1. retry + 1 \in 0..MaxRetries /\ spendable \in Nat
  BY PayoutAssumption DEF StepInv, TypeOK, SendRetried
<1> QED  BY <1>1, AttemptStep DEF SendRetried, Insufficient

(* The step ends with nothing sent: everybody keeps what is final.         *)
LEMMA DeferredStep ==
    ASSUME StepInv, pc \in {"balance", "send"}, pc' = "done", balanceChange' = Final,
           UNCHANGED <<answered, validResults, balance, reward, owed, spendable,
                       retry, pendingPayable, sent, wallet, credit, sentGross>>
    PROVE  StepInv'
<1>1. Final \in [Workers -> Int]
  BY DEF Final, StepInv, TypeOK
<1>2. TypeOK'
  BY <1>1 DEF StepInv, TypeOK
<1>3. LookupInv' /\ BatchInv'
  <2>1. /\ validResults \in AscendingOrders(Valid, owed)
        /\ pendingPayable \in {Zero, Batch}
    BY DEF StepInv, BatchInv
  <2>2. Valid' = Valid /\ Batch' = Batch /\ Zero' = Zero
    BY DEF Valid, Batch, Zero
  <2> QED  BY <2>1, <2>2 DEF LookupInv, BatchInv
<1>4. ChangeInv'
  <2>1. SumOver(Final) = SumOver(credit) /\ sentGross = Zero
    BY DEF StepInv, ChangeInv
  <2>2. SumOver(credit) \in Int
    <3>1. SumOver(credit) \in Nat
      BY AmountsType, SumOverType DEF StepInv
    <3> QED  BY <3>1
  <2>3. SumOver(balanceChange') + SumOver(sentGross') = SumOver(credit')
    <3>1. balanceChange' = Final /\ sentGross' = Zero /\ credit' = credit
      BY <2>1
    <3>2. SumOver(balanceChange') = SumOver(credit) /\ SumOver(sentGross') = 0
      BY <2>1, <3>1, ZeroType
    <3>3. SumOver(balanceChange') + SumOver(sentGross') = SumOver(credit)
      BY <2>2, <3>2
    <3> QED  BY <3>1, <3>3
  <2>4. (SumOver(balanceChange) + SumOver(sentGross) = SumOver(credit))'
    BY <2>3 DEF SumOver
  <2>5. \A w \in Workers : owed'[w] = balance'[w] + reward'[w]
    BY DEF StepInv, ChangeInv
  <2> QED  BY <2>4, <2>5 DEF ChangeInv, StepConserves
<1> QED  BY <1>2, <1>3, <1>4 DEF StepInv

LEMMA FailedStep == ASSUME StepInv, BalanceFailed PROVE StepInv'
<1>1. balanceChange' = Final
  BY DEF BalanceFailed, Defer, Final
<1> QED  BY <1>1, DeferredStep DEF BalanceFailed

LEMMA GivenUpStep == ASSUME StepInv, SendDeferred PROVE StepInv'
<1>1. balanceChange' = [w \in Workers |-> IF w \in Paid THEN reward[w] ELSE balanceChange[w]]
  BY DEF SendDeferred, Defer
<1>2. \A w \in Valid : w \notin Paid => balanceChange[w] = reward[w]
  BY DEF Paid, SendDeferred, StepInv, ChangeInv
<1>3. Paid \subseteq Valid
  BY DEF Paid
<1>4. balanceChange' = Final
  BY <1>1, <1>2, <1>3 DEF Final
<1> QED  BY <1>4, DeferredStep DEF SendDeferred

LEMMA AcceptedStep == ASSUME StepInv, SendAccepted PROVE StepInv'
<1>1. /\ pc = "send" /\ pc' = "done" /\ sentGross' = pendingPayable
      /\ UNCHANGED <<answered, validResults, balance, reward, owed,
                     spendable, retry, pendingPayable, credit>>
  BY DEF SendAccepted
<1>2. /\ pendingPayable = Batch
      /\ validResults \in AscendingOrders(Valid, owed)
      /\ spendable \in Nat /\ TypeOK
  BY <1>1 DEF StepInv, BatchInv, TypeOK
<1>3. \A w \in Workers : w \notin Valid => pendingPayable[w] = 0
  <2>1. \A w \in Workers : pendingPayable[w] > 0 => w \in Valid
    BY <1>2, BatchType DEF Batch
  <2> QED  BY <1>2, <2>1, AmountsType
<1>4. /\ reward \in [Workers -> Nat] /\ pendingPayable \in [Workers -> Nat]
      /\ Final \in [Workers -> Int] /\ pendingPayable \in [Workers -> Int]
      /\ sent \in [Workers -> Nat]
  <2>1. Final \in [Workers -> Int]
    BY DEF Final, StepInv, TypeOK
  <2> QED  BY <1>2, <2>1, AmountsType
<1>5. balanceChange' = [w \in Workers |-> Final[w] - pendingPayable[w]]
  <2>1. balanceChange' = [w \in Workers |-> IF w \in Paid
                            THEN reward[w] - pendingPayable[w] ELSE balanceChange[w]]
    BY DEF SendAccepted
  <2>2. ASSUME NEW w \in Workers
        PROVE  (IF w \in Paid THEN reward[w] - pendingPayable[w] ELSE balanceChange[w])
                 = Final[w] - pendingPayable[w]
    <3>1. CASE w \in Paid
      BY <3>1 DEF Paid, Final
    <3>2. CASE w \notin Paid
      <4>1. pendingPayable[w] = 0
        BY <1>3, <3>2 DEF Paid
      <4>2. Final[w] = balanceChange[w] /\ Final[w] \in Int
        BY <1>1, <1>4, <4>1 DEF Final, StepInv, ChangeInv
      <4> QED  BY <3>2, <4>1, <4>2
    <3> QED  BY <3>1, <3>2
  <2> QED  BY <2>1, <2>2
<1>6. TypeOK'
  <2>1. wallet' \in Nat
    <3>1. PICK fee \in NetworkFees : /\ BatchAmount + fee <= wallet
                                    /\ wallet' = wallet - BatchAmount - fee
      BY DEF SendAccepted
    <3>2. BatchAmount \in Nat /\ fee \in Nat /\ wallet \in Nat
      BY <1>2, BatchAmountSum, StepAssumption DEF TypeOK
    <3> QED  BY <3>1, <3>2
  <2>2. sent' \in [Workers -> Nat]
    <3>1. \A w \in Workers : NetAmount(pendingPayable[w], retry) \in Nat
      <4>1. retry \in 0..MaxRetries
        BY <1>2 DEF TypeOK
      <4> QED  BY <1>4, <4>1, NetAmountType
    <3>2. sent' = [w \in Workers |-> IF w \in Paid
                       THEN NetAmount(pendingPayable[w], retry) ELSE sent[w]]
      BY DEF SendAccepted
    <3> QED  BY <1>4, <3>1, <3>2
  <2>3. balanceChange' \in [Workers -> Int]
    <3>1. \A w \in Workers : Final[w] - pendingPayable[w] \in Int
      BY <1>4
    <3> QED  BY <1>5, <3>1
  <2>4. \A f \in {balance', reward', owed', pendingPayable', sent', credit', sentGross'} :
           f \in [Workers -> Nat]
    BY <1>1, <1>2, <1>4, <2>2, AmountsType
  <2> QED  BY <1>1, <1>2, <2>1, <2>3, <2>4 DEF TypeOK
<1>7. LookupInv' /\ BatchInv'
  <2>1. Valid' = Valid /\ Batch' = Batch
    BY <1>1 DEF Valid, Batch
  <2> QED  BY <1>1, <1>2, <2>1 DEF LookupInv, BatchInv
<1>8. ChangeInv'
  <2>1. SumOver(Final) = SumOver(credit)
    BY <1>1 DEF StepInv, ChangeInv
  <2>2. SumFunctionOnSet([w \in Workers |-> Final[w] - pendingPayable[w]], Workers)
          = SumFunctionOnSet(Final, Workers) - SumFunctionOnSet(pendingPayable, Workers)
    BY <1>4, SumTaken, PayoutAssumption
  <2>3. SumFunctionOnSet(balanceChange', Workers)
          = SumFunctionOnSet(Final, Workers) - SumFunctionOnSet(pendingPayable, Workers)
    BY <1>5, <2>2
  <2>4. SumOver(Final) \in Int /\ SumOver(pendingPayable) \in Int
    BY <1>4, SumOverType
  <2>5. (SumOver(balanceChange) + SumOver(sentGross) = SumOver(credit))'
    BY <1>1, <2>1, <2>3, <2>4 DEF SumOver
  <2>6. \A w \in Workers : owed'[w] = balance'[w] + reward'[w]
    BY <1>1 DEF StepInv, ChangeInv
  <2> QED  BY <1>1, <2>5, <2>6 DEF ChangeInv, StepConserves
<1> QED  BY <1>6, <1>7, <1>8 DEF StepInv

(* The last answer moves the large debts without an address.               *)
LEMMA RedistributeStep ==
    ASSUME StepInv, NEW w \in Workers, LastLookupAnswered(w) PROVE StepInv'
<1>1. PICK results \in Results(w) :
          \E to \in [Donors(Range(results), owed) -> RecipientPool(results)] :
            LET gain  == [v \in Workers |-> Absorbed(v, to, owed)]
                debt  == [v \in Workers |-> owed[v] + gain[v]]
            IN  /\ reward' = [v \in Workers |-> reward[v] + gain[v]]
                /\ owed' = debt
                /\ validResults' \in StableSort(results, debt)
                /\ balanceChange' = [v \in Workers |->
                      IF v \in DOMAIN to THEN -balance[v]
                      ELSE IF v \in Range(results) THEN 0 ELSE reward[v]]
  BY DEF LastLookupAnswered
<1>2. PICK to \in [Donors(Range(results), owed) -> RecipientPool(results)] :
            LET gain  == [v \in Workers |-> Absorbed(v, to, owed)]
                debt  == [v \in Workers |-> owed[v] + gain[v]]
            IN  /\ reward' = [v \in Workers |-> reward[v] + gain[v]]
                /\ owed' = debt
                /\ validResults' \in StableSort(results, debt)
                /\ balanceChange' = [v \in Workers |->
                      IF v \in DOMAIN to THEN -balance[v]
                      ELSE IF v \in Range(results) THEN 0 ELSE reward[v]]
  BY <1>1
<1> DEFINE R == Range(results)
           D == Donors(R, owed)
           gain == [v \in Workers |-> Absorbed(v, to, owed)]
           debt == [v \in Workers |-> owed[v] + gain[v]]
<1>3. /\ reward' = [v \in Workers |-> reward[v] + gain[v]]
      /\ owed' = debt
      /\ validResults' \in AscendingOrders(R, debt)
      /\ balanceChange' = [v \in Workers |->
              IF v \in D THEN -balance[v] ELSE IF v \in R THEN 0 ELSE reward[v]]
  BY <1>2 DEF StableSort
<1>4. /\ TypeOK /\ pc = "lookup" /\ pc' = "balance" /\ answered' = Workers
      /\ UNCHANGED <<balance, spendable, retry, pendingPayable, sent, wallet, credit,
                     sentGross>>
  BY DEF LastLookupAnswered, StepInv
<1>5. R \in SUBSET Workers /\ D \in SUBSET Workers /\ D \cap R = {}
  <2>1. R \in SUBSET Workers
    BY <1>4, ResultsType
  <2> QED  BY <2>1 DEF Donors
<1>6. RecipientPool(results) \in SUBSET R
  <2>1. results \in Seq(Workers)
    BY <1>4, ResultsType
  <2> DEFINE k == IF Len(results) < 3 THEN Len(results) ELSE 3
  <2>2. k \in Nat /\ k <= Len(results) /\ Len(results) \in Nat
    BY <2>1
  <2> HIDE DEF k
  <2>3. /\ DOMAIN SubSeq(results, 1, k) = 1..k
        /\ \A i \in 1..k : SubSeq(results, 1, k)[i] = results[i] /\ i \in DOMAIN results
    BY <2>1, <2>2
  <2> QED  BY <2>3 DEF RecipientPool, Range, k
<1>7. /\ balance \in [Workers -> Nat] /\ reward \in [Workers -> Nat]
      /\ owed \in [Workers -> Nat] /\ owed \in [Workers -> Int]
      /\ balance \in [Workers -> Int]
  BY <1>4, AmountsType
<1>8. gain \in [Workers -> Nat]
  <2>1. ASSUME NEW v \in Workers PROVE Absorbed(v, to, owed) \in Nat
    BY <1>5, <1>7, AbsorbedType
  <2> QED  BY <2>1
<1>9. \A v \in Workers : v \notin R => gain[v] = 0
  <2>1. ASSUME NEW v \in Workers, v \notin R PROVE Absorbed(v, to, owed) = 0
    <3>1. {d \in DOMAIN to : to[d] = v} = {}
      BY <1>6, <2>1
    <3> QED  BY <3>1, SumEmpty DEF Absorbed
  <2> QED  BY <2>1
<1>10. SumOver(AfterMove(balance, reward, owed, R, to)) = SumOver(reward)
  <2>1. to \in [Donors(R, owed) -> RecipientPool(results)]
    OBVIOUS
  <2>2. \A v \in Workers : owed[v] = balance[v] + reward[v]
    BY DEF StepInv, ChangeInv
  <2>3. R \in SUBSET Workers /\ RecipientPool(results) \in SUBSET R
    BY <1>5, <1>6
  <2> HIDE DEF R
  <2> QED  BY ONLY <1>7, <2>1, <2>2, <2>3, DebtsMove
<1>11. \A v \in Workers : AfterMove(balance, reward, owed, R, to)[v]
                             = IF v \in D THEN -balance[v] ELSE reward[v] + gain[v]
  BY DEF AfterMove
<1> HIDE DEF gain
<1>12. /\ debt \in [Workers -> Nat] /\ debt \in [Workers -> Int]
       /\ reward' \in [Workers -> Nat]
  BY <1>3, <1>7, <1>8
<1> HIDE DEF R, D, debt
<1>13. Valid' = R /\ validResults' \in Seq(Workers)
  BY <1>3, <1>5, OrderCovers, OrderSeq DEF Valid
<1>14. TypeOK'
  <2>1. balanceChange' \in [Workers -> Int]
    <3>1. \A v \in Workers : -balance[v] \in Int /\ reward[v] \in Int
      BY <1>7
    <3> QED  BY <1>3, <3>1
  <2>2. \A f \in {balance', reward', owed', pendingPayable', sent', credit', sentGross'} :
           f \in [Workers -> Nat]
    BY <1>3, <1>4, <1>12, AmountsType
  <2> QED  BY <1>4, <1>13, <2>1, <2>2 DEF TypeOK
<1>15. LookupInv' /\ BatchInv'
  <2>1. pendingPayable' = Zero'
    BY <1>4 DEF StepInv, BatchInv, Zero
  <2> QED  BY <1>3, <1>4, <1>13, <2>1 DEF LookupInv, BatchInv
<1>16. Final' = AfterMove(balance, reward, owed, R, to)
  <2>1. ASSUME NEW v \in Workers
        PROVE  Final'[v] = AfterMove(balance, reward, owed, R, to)[v]
    <3>1. CASE v \in R
      <4>1. Final'[v] = reward[v] + gain[v]
        BY <1>3, <1>13, <3>1 DEF Final
      <4> QED  BY <1>5, <1>11, <3>1, <4>1
    <3>2. CASE v \notin R
      <4>1. Final'[v] = IF v \in D THEN -balance[v] ELSE reward[v]
        BY <1>3, <1>13, <3>2 DEF Final
      <4>2. gain[v] = 0 /\ reward[v] \in Nat
        BY <1>7, <1>9, <3>2
      <4> QED  BY <1>11, <4>1, <4>2
    <3> QED  BY <3>1, <3>2
  <2>2. /\ Final' = [v \in Workers |-> Final'[v]]
        /\ AfterMove(balance, reward, owed, R, to)
             = [v \in Workers |-> AfterMove(balance, reward, owed, R, to)[v]]
    BY DEF Final, AfterMove
  <2> QED  BY <2>1, <2>2
<1>17. ChangeInv'
  <2>1. \A v \in Workers : owed'[v] = balance'[v] + reward'[v]
    <3>1. \A v \in Workers : owed[v] = balance[v] + reward[v]
      BY DEF StepInv, ChangeInv
    <3> QED  BY <1>3, <1>4, <1>7, <1>8, <3>1 DEF debt
  <2>2. credit = reward /\ sentGross = Zero
    BY <1>4 DEF StepInv, LookupInv, ChangeInv
  <2>3. SumOver(Final') = SumOver(credit')
    BY <1>4, <1>10, <1>16, <2>2
  <2>4. (SumOver(Final) = SumOver(credit))'
    BY <2>3 DEF SumOver
  <2>5. sentGross' = Zero'
    BY <1>4, <2>2 DEF Zero
  <2> QED  BY <1>4, <2>1, <2>4, <2>5 DEF ChangeInv, StepConserves
<1> QED  BY <1>14, <1>15, <1>17 DEF StepInv

LEMMA StepNext == StepInv /\ [Next]_vars => StepInv'
<1> SUFFICES ASSUME StepInv, [Next]_vars PROVE StepInv'
  OBVIOUS
<1>1. CASE UNCHANGED vars
  <2>1. TypeOK' /\ LookupInv' /\ BatchInv'
    BY <1>1 DEF vars, StepInv, TypeOK, LookupInv, BatchInv, Valid, Batch, Zero
  <2>2. ChangeInv'
    BY <1>1 DEF vars, StepInv, ChangeInv, StepConserves, Valid, Final, Zero, SumOver
  <2> QED  BY <2>1, <2>2 DEF StepInv
<1>2. ASSUME NEW w \in Workers, LookupAnswered(w) PROVE StepInv'
  BY <1>2, LookupStep
<1>3. ASSUME NEW w \in Workers, LastLookupAnswered(w) PROVE StepInv'
  BY <1>3, RedistributeStep
<1>4. CASE BalanceAnswered
  BY <1>4, BalanceStep
<1>5. CASE BalanceFailed
  BY <1>5, FailedStep
<1>6. CASE SendAccepted
  BY <1>6, AcceptedStep
<1>7. CASE SendRetried
  BY <1>7, RetryStep
<1>8. CASE SendDeferred
  BY <1>8, GivenUpStep
<1> QED  BY <1>1, <1>2, <1>3, <1>4, <1>5, <1>6, <1>7, <1>8 DEF Next

-----------------------------------------------------------------------------
(* The theorems.                                                           *)

LEMMA StepInvariant == Spec => []StepInv
<1>1. Init => StepInv
  BY StepInit
<1>2. StepInv /\ [Next]_vars => StepInv'
  BY StepNext
<1> QED  BY <1>1, <1>2, PTL DEF Spec

(* Every variable of the step keeps its type, for any debts and answers:   *)
(* in particular no sum of a batch is negative or larger than the wallet   *)
(* that pays it (lines 387-625).                                           *)
THEOREM StepTypeCorrect == Spec => []TypeOK
<1>1. StepInv => TypeOK
  BY DEF StepInv
<1> QED  BY <1>1, StepInvariant, PTL

(* Lines 405-418 and 466-474: for any debts, answers, fees and retries, a  *)
(* step that has ended leaves changes and payments that add up to the      *)
(* rewards it was given.                                                   *)
THEOREM StepLosesNothing == Spec => []StepConserves
<1>1. StepInv => StepConserves
  BY DEF StepInv, ChangeInv
<1> QED  BY <1>1, StepInvariant, PTL

LEMMA BatchIsPaid ==
    ASSUME StepInv, pendingPayable # Zero
    PROVE  /\ pendingPayable = Batch
           /\ validResults \in AscendingOrders(Valid, owed)
           /\ Valid \in SUBSET Workers /\ IsFiniteSet(Valid)
           /\ owed \in [Workers -> Int] /\ spendable \in Nat
           /\ pendingPayable \in [Workers -> Nat]
           /\ \A w \in Workers : pendingPayable[w] > 0 => w \in Valid
<1>1. /\ pendingPayable = Batch /\ pc # "lookup"
      /\ validResults \in AscendingOrders(Valid, owed)
  BY DEF StepInv, BatchInv
<1>2. TypeOK /\ spendable \in Nat
  BY DEF StepInv, TypeOK
<1>3. \A w \in Workers : pendingPayable[w] > 0 => w \in Valid
  BY <1>1, <1>2, BatchType DEF Batch
<1> QED  BY <1>1, <1>2, <1>3, ValidType, AmountsType

(* Lines 405-412 and 546-553: whatever the debts, a batch pays a worker    *)
(* only after every smaller debt of at least the minimum.                  *)
THEOREM SmallDebtsFirst == Spec => []SmallestFirst
<1>1. ASSUME StepInv PROVE SmallestFirst
  <2>1. CASE pendingPayable = Zero
    <3>1. Valid \in SUBSET Workers
      BY <1>1, ValidType DEF StepInv
    <3>2. \A v \in Workers : pendingPayable[v] = 0
      BY <2>1 DEF Zero
    <3> QED  BY <3>1, <3>2 DEF SmallestFirst
  <2>2. CASE pendingPayable # Zero
    <3>1. \A u, v \in Valid : MinPayment <= owed[u] /\ owed[u] < owed[v] /\ Batch[v] > 0
                                 => Batch[u] = owed[u]
      BY <1>1, <2>2, BatchIsPaid, BatchPays DEF Batch
    <3>2. pendingPayable = Batch
      BY <1>1, <2>2, BatchIsPaid
    <3> QED  BY <3>1, <3>2 DEF SmallestFirst
  <2> QED  BY <2>1, <2>2
<1> QED  BY <1>1, StepInvariant, PTL

(* Lines 405-413: no batch leaves a minimum payment of the reported        *)
(* balance idle while a debt it could pay is not paid in full.             *)
THEOREM FundsAreUsed == Spec => []NoIdleFunds
<1>1. ASSUME StepInv PROVE NoIdleFunds
  <2> SUFFICES ASSUME pc = "send"
               PROVE  \/ spendable - SumOver(pendingPayable) < MinPayment
                      \/ \A w \in Valid : owed[w] >= MinPayment => pendingPayable[w] = owed[w]
    BY DEF NoIdleFunds
  <2>1. pendingPayable # Zero
    BY <1>1 DEF StepInv, BatchInv
  <2>2. \/ spendable - SumOver(Batch) < MinPayment
        \/ \A w \in Valid : owed[w] >= MinPayment => Batch[w] = owed[w]
    BY <1>1, <2>1, BatchIsPaid, BatchPays DEF Batch
  <2>3. pendingPayable = Batch
    BY <1>1, <2>1, BatchIsPaid
  <2> QED  BY <2>2, <2>3
<1> QED  BY <1>1, StepInvariant, PTL

(* Lines 408-409 and 546: a batch takes at most the reported balance off   *)
(* the debts, and the sum it sends, per address, is smaller.               *)
THEOREM BatchesAreCovered == Spec => []WithinSpendable
<1>1. ASSUME StepInv PROVE WithinSpendable
  <2> SUFFICES ASSUME pc = "send"
               PROVE  /\ SumOver(pendingPayable) <= spendable
                      /\ BatchAmount < SumOver(pendingPayable)
    BY DEF WithinSpendable
  <2>1. pendingPayable # Zero /\ TypeOK
    BY <1>1 DEF StepInv, BatchInv
  <2>2. /\ pendingPayable = Batch
        /\ Valid \in SUBSET Workers /\ IsFiniteSet(Valid)
        /\ pendingPayable \in [Workers -> Nat]
        /\ \A w \in Workers : pendingPayable[w] > 0 => w \in Valid
    BY <1>1, <2>1, BatchIsPaid
  <2>3. SumOver(Batch) <= spendable
    BY <1>1, <2>1, BatchIsPaid, BatchPays DEF Batch
  <2> DEFINE net == [w \in Workers |-> NetAmount(pendingPayable[w], retry)]
  <2>4. BatchAmount = SumFunctionOnSet(net, Valid)
    BY <2>1, BatchAmountSum
  <2>5. ASSUME NEW w \in Valid
        PROVE  /\ net[w] \in Int /\ pendingPayable[w] \in Int
               /\ net[w] <= pendingPayable[w]
               /\ pendingPayable[w] > 0 => net[w] < pendingPayable[w]
    <3>1. pendingPayable[w] \in Nat /\ retry \in 0..MaxRetries /\ w \in Workers
      BY <2>1, <2>2 DEF TypeOK
    <3>2. NetAmount(pendingPayable[w], retry) \in Nat
      BY <3>1, NetAmountType
    <3>3. pendingPayable[w] > 0 => NetAmount(pendingPayable[w], retry) < pendingPayable[w]
      BY <3>1, NetAmountBelow
    <3>4. pendingPayable[w] = 0 => NetAmount(pendingPayable[w], retry) = 0
      <4>1. 1000 - WithheldPermille(retry) \in Nat
        <5>1. WithheldPermille(retry) \in 1..1000
          BY <3>1, FeeAssumption
        <5>2. \A k \in 1..1000 : 1000 - k \in Nat
          OBVIOUS
        <5> QED  BY <5>1, <5>2
      <4>2. \A k \in Nat : (0 * k) \div 1000 = 0
        OBVIOUS
      <4> QED  BY <4>1, <4>2 DEF NetAmount
    <3> QED  BY <3>1, <3>2, <3>3, <3>4
  <2>6. PICK y \in Valid : pendingPayable[y] > 0
    <3>1. \E y \in Workers : pendingPayable[y] # 0
      <4>1. SUFFICES ASSUME \A y \in Workers : pendingPayable[y] = 0 PROVE FALSE
        OBVIOUS
      <4>2. pendingPayable = [w \in Workers |-> 0]
        BY <2>2, <4>1
      <4> QED  BY <2>1, <4>2 DEF Zero
    <3> QED  BY <2>2, <3>1
  <2>7. SumFunctionOnSet(net, Valid) < SumFunctionOnSet(pendingPayable, Valid)
    <3> HIDE DEF net
    <3> QED  BY <2>2, <2>5, <2>6, SumStrict
  <2>8. SumFunctionOnSet(pendingPayable, Valid) = SumOver(pendingPayable)
    <3> DEFINE where == [w \in Workers |-> IF w \in Valid THEN pendingPayable[w] ELSE 0]
    <3>1. where = pendingPayable
      BY <2>2
    <3>2. SumFunctionOnSet(where, Workers) = SumFunctionOnSet(pendingPayable, Valid)
      BY <2>2, <2>5, SumWhere, PayoutAssumption
    <3> HIDE DEF where
    <3> QED  BY <3>1, <3>2 DEF SumOver
  <2> HIDE DEF net
  <2>9. SumOver(pendingPayable) <= spendable
    BY <2>2, <2>3
  <2> QED  BY <2>4, <2>7, <2>8, <2>9
<1> QED  BY <1>1, StepInvariant, PTL

=============================================================================
