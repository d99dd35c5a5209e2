--------------------------- MODULE ReconcileProofs ---------------------------
(***************************************************************************)
(* What holds of the reconciliation of confirmed blocks for any blocks,    *)
(* heights, rewards and payments, however often the chain changes, and     *)
(* wherever the script ends early.                                         *)
(***************************************************************************)
EXTENDS Reconcile, SumLemmas

LEMMA InitType == Init => TypeOK
  BY ReconcileAssumption DEF Init, TypeOK, Nobody

(* What a cycle earns and pays every worker.                               *)
LEMMA RewardsType ==
    ASSUME TypeOK, NEW split \in [matured -> Splits]
    PROVE  Rewards(split) \in [Workers -> Nat]
<1> SUFFICES ASSUME NEW w \in Workers
             PROVE  SumFunctionOnSet([b \in Blocks |-> split[b][w]], matured) \in Nat
  <2>1. DOMAIN split = matured
    OBVIOUS
  <2> QED  BY <2>1 DEF Rewards
<1> DEFINE part == [b \in Blocks |-> split[b][w]]
<1>1. \A b \in matured : part[b] \in Nat
  BY ReconcileAssumption DEF TypeOK
<1>2. IsFiniteSet(matured)
  BY ReconcileAssumption, FS_Subset DEF TypeOK
<1>3. SumFunctionOnSet(part, matured) \in Nat
  <2> HIDE DEF part
  <2> QED  BY <1>1, <1>2, SumNat
<1> QED  BY <1>3

LEMMA BatchesType ==
    ASSUME TypeOK, NEW reward
    PROVE  Batches(reward) \subseteq [Workers -> Nat]
  BY DEF Batches

LEMMA NextType == TypeOK /\ [Next]_vars => TypeOK'
<1> SUFFICES ASSUME TypeOK, [Next]_vars PROVE TypeOK'
  OBVIOUS
<1> USE DEF TypeOK
<1>1. CASE Start \/ NothingToApply
  BY <1>1 DEF Start, NothingToApply, EmptyCache, redis, node, script, cycle, history
<1>2. CASE MoveEntry
  BY <1>2 DEF MoveEntry, node, cycle, history
<1>3. ASSUME NEW b \in Blocks, Skip(b) PROVE TypeOK'
  BY <1>3 DEF Skip, redis, node, cycle, history
<1>4. ASSUME NEW b \in Blocks, CheckEntry(b) PROVE TypeOK'
  <2>1. HeightOf[b] \in Heights
    BY <1>4 DEF Heights
  <2>2. thrown' \subseteq Heights
    BY <1>4, <2>1 DEF CheckEntry, AskHeight
  <2>3. PICK hash \in Blocks \cup {NoBlock} :
            /\ heightHashCache' = [heightHashCache EXCEPT ![HeightOf[b]] = hash]
            /\ mismatches' = IF Mismatch(b, hash) THEN mismatches \cup {b} ELSE mismatches
    BY <1>4 DEF CheckEntry
  <2> QED  BY <1>4, <2>2, <2>3 DEF CheckEntry, redis, node, cycle
<1>5. ASSUME NEW b \in Blocks, ReverseCredit(b) PROVE TypeOK'
  <2>1. Finder[b] \in Workers /\ Debit(b) \in Nat
    BY <1>5, ReconcileAssumption DEF Debit
  <2> QED  BY <1>5, <2>1 DEF ReverseCredit, node, cycle
<1>6. CASE Killed
  <2>1. interrupted' \in 0..MaxInterrupts
    BY <1>6, ReconcileAssumption DEF Killed
  <2>2. pc' = "idle" /\ current' = NoBlock /\ entries' = {} /\ mismatches' = {}
    BY <1>6 DEF Killed
  <2>3. UNCHANGED <<redis, node, heightHashCache, cycle, debited, deducted,
                    undistributed, wasOff, thrown>>
    BY <1>6 DEF Killed
  <2> QED  BY <2>1, <2>2, <2>3 DEF redis, node, cycle
<1>7. CASE ReadRounds \/ ClassifyRounds
  BY <1>7 DEF ReadRounds, ClassifyRounds, redis, node, script, history
<1>8. CASE Commit
  <2>1. PICK split \in [matured -> Splits] :
          \E gross \in Batches(Rewards(split)) :
            /\ balances' = [w \in Workers |->
                              balances[w] + (Rewards(split)[w] - gross[w])]
            /\ deducted' = deducted + SumFunctionOnSet(gross, Workers)
            /\ undistributed' = undistributed + (Reward * Cardinality(matured)
                                    - SumFunctionOnSet(Rewards(split), Workers))
    BY <1>8 DEF Commit
  <2> DEFINE reward == Rewards(split)
  <2>2. PICK gross \in Batches(reward) :
            /\ balances' = [w \in Workers |-> balances[w] + (reward[w] - gross[w])]
            /\ deducted' = deducted + SumFunctionOnSet(gross, Workers)
            /\ undistributed' = undistributed + (Reward * Cardinality(matured)
                                    - SumFunctionOnSet(reward, Workers))
    BY <2>1
  <2>3. reward \in [Workers -> Nat] /\ gross \in [Workers -> Nat]
    BY RewardsType, BatchesType
  <2> HIDE DEF reward
  <2>4. SumFunctionOnSet(gross, Workers) \in Nat /\ SumFunctionOnSet(reward, Workers) \in Nat
    BY <2>3, SumNat, ReconcileAssumption
  <2>5. Reward * Cardinality(matured) \in Nat
    <3>1. Cardinality(matured) \in Nat
      BY ReconcileAssumption, FS_Subset, FS_CardinalityType
    <3> QED  BY <3>1, ReconcileAssumption
  <2>6. balances' \in [Workers -> Int]
    BY <2>2, <2>3
  <2>7. deducted' \in Nat /\ undistributed' \in Int
    BY <2>2, <2>4, <2>5
  <2> QED  BY <1>8, <2>6, <2>7 DEF Commit, EndCycle, Nobody, node, script
<1>9. CASE CycleEnds
  BY <1>9 DEF CycleEnds, EndCycle, Nobody, redis, node, script, history
<1>10. ASSUME NEW h \in Heights, Reorg(h) PROVE TypeOK'
  BY <1>10, ReconcileAssumption DEF Reorg, redis, script, cycle
<1>11. CASE UNCHANGED vars
  BY <1>11 DEF vars, redis, node, script, cycle, history
<1> QED  BY <1>1, <1>2, <1>3, <1>4, <1>5, <1>6, <1>7, <1>8, <1>9, <1>10, <1>11
            DEF Next, ScriptStep

(* Every variable keeps its type, whatever the script is doing when the    *)
(* processor pays, the chain changes or the script ends.                   *)
THEOREM ReconcileTypeCorrect == Spec => []TypeOK
  BY InitType, NextType, PTL DEF Spec

-----------------------------------------------------------------------------
(* What the script may hold against an entry.                              *)
Cause(b) == b \in wasOff \/ HeightOf[b] \in thrown

(* What is off the chain has left it since it was confirmed; what is       *)
(* cached as off the chain, or is a mismatch, has, or its height's call    *)
(* has raised.                                                             *)
PhantomInv ==
    /\ blocksConfirmed \ OnChain \subseteq wasOff
    /\ pc = "check" =>
          /\ entries \subseteq blocksConfirmed
          /\ \A b \in entries :
                heightHashCache[HeightOf[b]] \notin {NotAsked, b} => Cause(b)
    /\ \A b \in mismatches : Cause(b)

LEMMA PhantomInit == TypeOK /\ Init => PhantomInv
  BY DEF Init, PhantomInv

LEMMA PhantomNext ==
    ASSUME TypeOK, PhantomInv, [Next]_vars
    PROVE  PhantomInv'
<1> USE DEF TypeOK, PhantomInv, Cause
<1>1. CASE Start
  BY <1>1 DEF Start, EmptyCache, redis, node, OnChain, Heights
<1>2. CASE NothingToApply
  BY <1>2 DEF NothingToApply, redis, node, history, OnChain
<1>3. CASE MoveEntry
  BY <1>3 DEF MoveEntry, node, history, OnChain
<1>4. ASSUME NEW b \in Blocks, Skip(b) PROVE PhantomInv'
  BY <1>4 DEF Skip, redis, node, history, OnChain
<1>5. ASSUME NEW b \in Blocks, CheckEntry(b) PROVE PhantomInv'
  <2>1. HeightOf[b] \in Heights /\ b \in entries /\ pc = "check"
    BY <1>5 DEF Heights, CheckEntry
  <2>2. PICK hash \in Blocks \cup {NoBlock} :
            /\ IF heightHashCache[HeightOf[b]] = NotAsked
               THEN AskHeight(HeightOf[b], hash)
               ELSE hash = heightHashCache[HeightOf[b]] /\ UNCHANGED thrown
            /\ heightHashCache' = [heightHashCache EXCEPT ![HeightOf[b]] = hash]
            /\ mismatches' = IF Mismatch(b, hash) THEN mismatches \cup {b} ELSE mismatches
    BY <1>5 DEF CheckEntry
  <2>3. /\ UNCHANGED <<redis, node, pc, wasOff>> /\ entries' \subseteq entries
        /\ thrown \subseteq thrown'
    BY <1>5, <2>2 DEF CheckEntry, AskHeight
  <2>4. ASSUME NEW a \in entries, HeightOf[a] = HeightOf[b], hash # a
        PROVE  Cause(a)'
    <3>1. CASE hash = bestChain[HeightOf[b]] /\ heightHashCache[HeightOf[b]] = NotAsked
      <4>1. a \in blocksConfirmed \ OnChain
        BY <2>1, <2>4, <3>1 DEF OnChain
      <4> QED  BY <2>3, <4>1
    <3>2. CASE HeightOf[b] \in thrown'
      BY <2>4, <3>2
    <3>3. CASE heightHashCache[HeightOf[b]] # NotAsked
      <4>1. Cause(a)
        BY <2>1, <2>2, <2>4, <3>3
      <4> QED  BY <2>3, <4>1
    <3> QED  BY <2>2, <3>1, <3>2, <3>3 DEF AskHeight
  <2>5. \A a \in mismatches' : Cause(a)'
    BY <2>1, <2>2, <2>3, <2>4 DEF Mismatch
  <2>6. ASSUME NEW a \in entries', heightHashCache'[HeightOf[a]] \notin {NotAsked, a}
        PROVE  Cause(a)'
    BY <2>1, <2>2, <2>3, <2>4, <2>6
  <2> QED  BY <2>1, <2>3, <2>5, <2>6 DEF redis, node, OnChain
<1>6. ASSUME NEW b \in Blocks, ReverseCredit(b) PROVE PhantomInv'
  BY <1>6 DEF ReverseCredit, node, OnChain
<1>7. CASE Killed
  BY <1>7 DEF Killed, redis, node, OnChain
<1>8. CASE ReadRounds \/ ClassifyRounds
  BY <1>8 DEF ReadRounds, ClassifyRounds, redis, node, script, history, OnChain
<1>9. CASE Commit
  BY <1>9 DEF Commit, node, script, OnChain
<1>10. CASE CycleEnds
  BY <1>10 DEF CycleEnds, redis, node, script, history, OnChain
<1>11. ASSUME NEW h \in Heights, Reorg(h) PROVE PhantomInv'
  <2>1. PICK b :
            /\ bestChain' = [bestChain EXCEPT ![h] = b]
            /\ wasOff' = wasOff \cup { a \in blocksConfirmed : HeightOf[a] = h /\ a # b }
    BY <1>11 DEF Reorg
  <2>2. ASSUME NEW a \in blocksConfirmed, a \notin OnChain' PROVE a \in wasOff'
    <3>1. a \in Blocks /\ HeightOf[a] \in Heights
      BY DEF Heights
    <3>2. CASE HeightOf[a] = h
      BY <2>1, <2>2, <3>1, <3>2 DEF OnChain
    <3>3. CASE HeightOf[a] # h
      BY <2>1, <2>2, <3>1, <3>3 DEF OnChain
    <3> QED  BY <3>2, <3>3
  <2> QED  BY <1>11, <2>1, <2>2 DEF Reorg, redis, script
<1>12. CASE UNCHANGED vars
  BY <1>12 DEF vars, redis, node, script, history, OnChain
<1> QED  BY <1>1, <1>2, <1>3, <1>4, <1>5, <1>6, <1>7, <1>8, <1>9, <1>10, <1>11, <1>12
            DEF Next, ScriptStep

(* A debit is the correction of a mismatch.                                *)
LEMMA DebitStep ==
    ASSUME TypeOK, PhantomInv, [Next]_vars, NEW b \in Blocks, debited'[b] > debited[b]
    PROVE  Cause(b)
<1>1. CASE UNCHANGED debited
  BY <1>1 DEF TypeOK
<1>2. ASSUME NEW a \in Blocks, ReverseCredit(a) PROVE Cause(b)
  <2>1. a \in mismatches /\ debited' = [debited EXCEPT ![a] = @ + Debit(a)]
    BY <1>2 DEF ReverseCredit
  <2>2. a = b
    BY <2>1 DEF TypeOK
  <2> QED  BY <2>1, <2>2 DEF PhantomInv
<1>3. Commit => UNCHANGED debited
  BY DEF Commit
<1> QED  BY <1>1, <1>2, <1>3
         DEF Next, ScriptStep, Start, NothingToApply, MoveEntry, Skip, CheckEntry, Killed,
             ReadRounds, ClassifyRounds, CycleEnds, Reorg, vars, history

(* Lines 84, 96-106 and 151: no entry is debited whose block has stayed on *)
(* the chain since it was confirmed, unless the question for its height    *)
(* raised in the same run: with any interleaving of the script, the        *)
(* payments and the reorganisations.                                       *)
THEOREM NoDebitWithoutCause == Spec => DebitedForCause
<1>1. TypeOK /\ PhantomInv /\ [Next]_vars => PhantomInv'
  BY PhantomNext
<1>2. TypeOK /\ PhantomInv /\ [Next]_vars
      => [\A b \in Blocks : debited'[b] > debited[b]
              => b \in wasOff \/ HeightOf[b] \in thrown]_vars
  BY DebitStep DEF Cause
<1> QED  BY <1>1, <1>2, InitType, PhantomInit, ReconcileTypeCorrect, PTL
            DEF Spec, DebitedForCause

-----------------------------------------------------------------------------
(* What the script has listed and not yet corrected is still confirmed.    *)
ListedAreConfirmed ==
    /\ blocksPending \cap blocksConfirmed = {}
    /\ rounds \subseteq blocksPending
    /\ matured \subseteq blocksPending
    /\ pc = "check" => entries \subseteq blocksConfirmed
    /\ mismatches \subseteq blocksConfirmed
    /\ pc = "move" => current \in mismatches

LEMMA ListedInit == Init => ListedAreConfirmed
  BY DEF Init, ListedAreConfirmed

LEMMA ListedNext ==
    ASSUME TypeOK, ListedAreConfirmed, [Next]_vars
    PROVE  ListedAreConfirmed'
<1> USE DEF ListedAreConfirmed
<1>1. CASE Start \/ NothingToApply
  BY <1>1 DEF Start, NothingToApply, redis, cycle
<1>2. CASE MoveEntry
  BY <1>2 DEF MoveEntry, cycle
<1>3. ASSUME NEW b \in Blocks, Skip(b) \/ CheckEntry(b) \/ ReverseCredit(b)
      PROVE  ListedAreConfirmed'
  <2>1. CASE Skip(b)
    BY <2>1 DEF Skip, redis, cycle
  <2>2. CASE CheckEntry(b)
    <3>1. b \in entries /\ pc = "check" /\ UNCHANGED <<redis, pc, cycle>>
          /\ entries' \subseteq entries /\ mismatches' \subseteq mismatches \cup {b}
      BY <2>2 DEF CheckEntry
    <3> QED  BY <3>1 DEF redis, cycle
  <2>3. CASE ReverseCredit(b)
    BY <2>3 DEF ReverseCredit, cycle
  <2> QED  BY <1>3, <2>1, <2>2, <2>3
<1>4. CASE Killed
  BY <1>4 DEF Killed, redis, cycle
<1>5. CASE ReadRounds \/ ClassifyRounds \/ CycleEnds
  BY <1>5 DEF ReadRounds, ClassifyRounds, CycleEnds, EndCycle, redis, script
<1>6. CASE Commit
  BY <1>6 DEF Commit, EndCycle, script
<1>7. CASE \E h \in Heights : Reorg(h)
  BY <1>7 DEF Reorg, redis, script, cycle
<1>8. CASE UNCHANGED vars
  BY <1>8 DEF vars, redis, script, cycle
<1> QED  BY <1>1, <1>2, <1>3, <1>4, <1>5, <1>6, <1>7, <1>8 DEF Next, ScriptStep

(* Between a debit and its move the ledger is one reward short.            *)
Owed == SumFunctionOnSet(balances, Workers)

BlocksOwed ==
    Cardinality(blocksConfirmed) - interrupted - (IF pc = "move" THEN 1 ELSE 0)

(* What was paid, what is owed and the rests.                              *)
Booked == deducted + Owed + undistributed

MoneyAdds == Booked = Reward * BlocksOwed

LEMMA MoneyInit == Init => MoneyAdds
<1> SUFFICES ASSUME Init PROVE MoneyAdds
  OBVIOUS
<1>1. Owed = 0
  BY SumZero, ReconcileAssumption DEF Init, Nobody, Owed
<1>2. BlocksOwed = 0
  BY FS_EmptySet DEF Init, BlocksOwed
<1> QED  BY <1>1, <1>2, ReconcileAssumption DEF Init, MoneyAdds, Booked

LEMMA LedgerNumbers ==
    ASSUME TypeOK
    PROVE  /\ Owed \in Int /\ BlocksOwed \in Int /\ Booked \in Int
           /\ Reward \in Nat /\ deducted \in Nat /\ undistributed \in Int
           /\ IsFiniteSet(blocksConfirmed) /\ Cardinality(blocksConfirmed) \in Nat
           /\ interrupted \in Nat
<1>1. IsFiniteSet(blocksConfirmed)
  BY ReconcileAssumption, FS_Subset DEF TypeOK
<1>2. Cardinality(blocksConfirmed) \in Nat
  BY <1>1, FS_CardinalityType
<1>3. Owed \in Int
  BY ReconcileAssumption, SumInt DEF TypeOK, Owed
<1> QED  BY <1>1, <1>2, <1>3, ReconcileAssumption DEF TypeOK, BlocksOwed, Booked

(* One worker's balance changes.                                           *)
LEMMA OwedExcept ==
    ASSUME TypeOK, NEW w \in Workers, NEW amount \in Int
    PROVE  SumFunctionOnSet([balances EXCEPT ![w] = amount], Workers)
             = Owed + (amount - balances[w])
<1>1. balances \in [Workers -> Int] /\ IsFiniteSet(Workers)
  BY ReconcileAssumption DEF TypeOK
<1> QED  BY <1>1, SumUpdate DEF Owed

(* The MULTI of a payment cycle: what is credited and the rests are whole  *)
(* rewards, what is paid goes from the balances.                           *)
LEMMA CommitBooks ==
    ASSUME TypeOK, Commit
    PROVE  Booked' = Booked + Reward * Cardinality(matured)
<1>1. PICK split \in [matured -> Splits] :
        \E gross \in Batches(Rewards(split)) :
          /\ balances' = [w \in Workers |->
                            balances[w] + (Rewards(split)[w] - gross[w])]
          /\ deducted' = deducted + SumFunctionOnSet(gross, Workers)
          /\ undistributed' = undistributed + (Reward * Cardinality(matured)
                                  - SumFunctionOnSet(Rewards(split), Workers))
  BY DEF Commit
<1> DEFINE reward == Rewards(split)
           earned == SumFunctionOnSet(reward, Workers)
           whole == Reward * Cardinality(matured)
<1>2. PICK gross \in Batches(reward) :
          /\ balances' = [w \in Workers |-> balances[w] + (reward[w] - gross[w])]
          /\ deducted' = deducted + SumFunctionOnSet(gross, Workers)
          /\ undistributed' = undistributed + (whole - earned)
  BY <1>1
<1> DEFINE change == [w \in Workers |-> reward[w] - gross[w]]
<1>3. reward \in [Workers -> Int] /\ gross \in [Workers -> Int] /\ IsFiniteSet(Workers)
  BY RewardsType, BatchesType, ReconcileAssumption
<1>4. whole \in Int
  <2>1. Cardinality(matured) \in Nat
    BY ReconcileAssumption, FS_Subset, FS_CardinalityType DEF TypeOK
  <2> QED  BY <2>1, ReconcileAssumption
<1> HIDE DEF reward, whole
<1>5. earned \in Int /\ SumFunctionOnSet(gross, Workers) \in Int
  BY <1>3, SumInt
<1>6. SumFunctionOnSet(change, Workers) = earned - SumFunctionOnSet(gross, Workers)
  BY <1>3, SumTaken
<1>7. change \in [Workers -> Int] /\ balances \in [Workers -> Int]
  BY <1>3 DEF TypeOK
<1>8. Owed' = Owed + SumFunctionOnSet(change, Workers)
  <2>1. balances' = [w \in Workers |-> balances[w] + change[w]]
    BY <1>2
  <2> HIDE DEF change
  <2> QED  BY <1>3, <1>7, <2>1, SumAdded DEF Owed
<1> HIDE DEF earned, change
<1> QED  BY <1>2, <1>4, <1>5, <1>6, <1>8, LedgerNumbers DEF Booked, whole

LEMMA MoneyNext ==
    ASSUME TypeOK, TypeOK', ListedAreConfirmed, MoneyAdds, [Next]_vars
    PROVE  MoneyAdds'
<1>0. /\ Owed \in Int /\ BlocksOwed \in Int /\ Booked \in Int
      /\ Reward \in Nat /\ deducted \in Nat /\ undistributed \in Int
      /\ IsFiniteSet(blocksConfirmed) /\ Cardinality(blocksConfirmed) \in Nat
      /\ interrupted \in Nat
  BY LedgerNumbers
<1>a. ASSUME NEW d \in {-1, 0}, Booked' = Booked + d * Reward, BlocksOwed' = BlocksOwed + d
      PROVE  MoneyAdds'
  BY <1>0, <1>a DEF MoneyAdds
(* A step that moves no money and no block. *)
<1>b. ASSUME UNCHANGED <<balances, blocksConfirmed, deducted, undistributed, interrupted>>,
             (pc' = "move") <=> (pc = "move")
      PROVE  MoneyAdds'
  BY <1>b DEF Owed, BlocksOwed, Booked, MoneyAdds
<1>1. CASE Start \/ NothingToApply
  <2>1. UNCHANGED <<balances, blocksConfirmed, deducted, undistributed, interrupted>>
    BY <1>1 DEF Start, NothingToApply, redis, history
  <2>2. pc # "move" /\ pc' # "move"
    BY <1>1 DEF Start, NothingToApply, AllChecked
  <2> QED  BY <1>b, <2>1, <2>2
<1>2. CASE MoveEntry
  <2>1. current \in blocksConfirmed
    BY <1>2 DEF MoveEntry, ListedAreConfirmed
  <2>2. Cardinality(blocksConfirmed') = Cardinality(blocksConfirmed) - 1
    BY <1>0, <1>2, <2>1, FS_RemoveElement DEF MoveEntry
  <2>3. UNCHANGED <<balances, deducted, undistributed, interrupted>>
    BY <1>2 DEF MoveEntry, history
  <2>4. pc = "move" /\ pc' # "move"
    BY <1>2 DEF MoveEntry
  <2>5. BlocksOwed' = BlocksOwed
    BY <1>0, <2>2, <2>3, <2>4 DEF BlocksOwed
  <2>6. Booked' = Booked
    BY <2>3 DEF Booked, Owed
  <2> QED  BY <1>0, <1>a, <2>5, <2>6
<1>3. ASSUME NEW b \in Blocks, Skip(b) \/ CheckEntry(b) PROVE MoneyAdds'
  <2>1. UNCHANGED <<balances, blocksConfirmed, deducted, undistributed, interrupted, pc>>
    BY <1>3 DEF Skip, CheckEntry, redis, history
  <2> QED  BY <1>b, <2>1
<1>4. ASSUME NEW b \in Blocks, ReverseCredit(b) PROVE MoneyAdds'
  <2> DEFINE w == Finder[b]
             less == balances[w] - Reward
  <2>1. w \in Workers /\ balances[w] \in Int /\ less \in Int
    BY <1>0, ReconcileAssumption DEF TypeOK
  <2>2. balances' = [balances EXCEPT ![w] = less]
    BY <1>4 DEF ReverseCredit, Debit
  <2> HIDE DEF w
  <2>3. Owed' = Owed + (less - balances[w])
    <3> HIDE DEF less
    <3>1. SumFunctionOnSet([balances EXCEPT ![w] = less], Workers)
            = Owed + (less - balances[w])
      BY <2>1, OwedExcept
    <3> QED  BY <2>2, <3>1 DEF Owed
  <2>4. UNCHANGED <<blocksConfirmed, deducted, undistributed, interrupted>>
    BY <1>4 DEF ReverseCredit
  <2>5. pc # "move" /\ pc' = "move"
    BY <1>4 DEF ReverseCredit, AllChecked
  <2>6. Booked' = Booked - Reward
    BY <1>0, <2>1, <2>3, <2>4 DEF Booked
  <2>7. BlocksOwed' = BlocksOwed - 1
    BY <1>0, <2>4, <2>5 DEF BlocksOwed
  <2> QED  BY <1>0, <1>a, <2>6, <2>7
<1>5. CASE Killed
  <2>1. UNCHANGED <<balances, blocksConfirmed, deducted, undistributed>>
    BY <1>5 DEF Killed, redis
  <2>2. interrupted' = IF pc = "move" THEN interrupted + 1 ELSE interrupted
    BY <1>5 DEF Killed
  <2>3. pc' = "idle"
    BY <1>5 DEF Killed
  <2>4. BlocksOwed' = BlocksOwed
    BY <1>0, <2>1, <2>2, <2>3 DEF BlocksOwed
  <2>5. Booked' = Booked
    BY <2>1 DEF Booked, Owed
  <2> QED  BY <1>0, <1>a, <2>4, <2>5
<1>6. CASE Commit
  <2> DEFINE n == Cardinality(matured)
  <2>1. IsFiniteSet(matured) /\ matured \cap blocksConfirmed = {}
    BY ReconcileAssumption, FS_Subset DEF TypeOK, ListedAreConfirmed
  <2>2. n \in Nat
    BY <2>1, FS_CardinalityType
  <2>3. Cardinality(blocksConfirmed \cup matured) = Cardinality(blocksConfirmed) + n
    <3>1. blocksConfirmed \cap matured = {}
      BY <2>1
    <3>2. Cardinality(blocksConfirmed \cup matured)
            = Cardinality(blocksConfirmed) + n - Cardinality({})
      BY <1>0, <2>1, <3>1, FS_Union
    <3> QED  BY <1>0, <2>2, <3>2, FS_EmptySet
  <2>4. blocksConfirmed' = blocksConfirmed \cup matured /\ UNCHANGED <<pc, interrupted>>
    BY <1>6 DEF Commit, script
  <2> HIDE DEF n
  <2>5. BlocksOwed' = BlocksOwed + n
    BY <1>0, <2>2, <2>3, <2>4 DEF BlocksOwed
  <2>6. Booked' = Booked + Reward * n
    BY <1>6, CommitBooks DEF n
  <2>7. Reward * (BlocksOwed + n) = Reward * BlocksOwed + Reward * n
    BY <1>0, <2>2
  <2> QED  BY <2>5, <2>6, <2>7 DEF MoneyAdds
<1>7. CASE ReadRounds \/ ClassifyRounds \/ CycleEnds \/ UNCHANGED vars
           \/ \E h \in Heights : Reorg(h)
  <2>1. UNCHANGED <<balances, blocksConfirmed, deducted, undistributed, interrupted, pc>>
    BY <1>7 DEF ReadRounds, ClassifyRounds, CycleEnds, Reorg, vars, redis, script, history
  <2> QED  BY <1>b, <2>1
<1> QED  BY <1>1, <1>2, <1>3, <1>4, <1>5, <1>6, <1>7 DEF Next, ScriptStep

(* Lines 150-152: what has been paid, what is owed and the rests of        *)
(* rounding down are, together, the rewards of the confirmed blocks, less  *)
(* one for every time the script ended between a debit and its move: with  *)
(* any workers, blocks, splits, payments, reorganisations and answers of   *)
(* the node.                                                               *)
THEOREM LedgerBalances == Spec => []LedgerTotal
<1>1. TypeOK /\ MoneyAdds => LedgerTotal
  BY LedgerNumbers DEF MoneyAdds, LedgerTotal, Booked, Owed, BlocksOwed
<1>2. TypeOK /\ ListedAreConfirmed /\ [Next]_vars => ListedAreConfirmed'
  BY ListedNext
<1>3. TypeOK /\ TypeOK' /\ ListedAreConfirmed /\ MoneyAdds /\ [Next]_vars
      => MoneyAdds'
  BY MoneyNext
<1> QED  BY <1>1, <1>2, <1>3, ListedInit, MoneyInit, ReconcileTypeCorrect, PTL
            DEF Spec
=============================================================================
