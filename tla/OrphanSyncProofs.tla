--------------------------- MODULE OrphanSyncProofs ---------------------------
(***************************************************************************)
(* What holds of the explorer's fork repair for any blocks, any            *)
(* reorganisations and wherever the process ends.                          *)
(***************************************************************************)
EXTENDS OrphanSync, TLAPS

Hashes == Blocks \cup {NoBlock}

(* The positions of the walk, which begins above height 0. *)
WalkInv ==
    /\ pc # "idle" => current > 0 /\ count > 0
    /\ unresolved \in Seq(Nat \ {0})
    /\ pc = "good" => unresolved # << >>

(* What the wallet and MongoDB answer is a block of the tree, or none. *)
LEMMA HashTypes ==
    ASSUME TypeOK
    PROVE  /\ \A h : ChainAt(h) \in Hashes
           /\ \A b \in Blocks : PrevOf(b) \in Hashes
           /\ \A h : HashesAt(h) \subseteq Blocks
           /\ \A b : b \in Hashes => WithBlock(b) \in [Txs -> Hashes]
<1>1. OnChain \subseteq Blocks
  BY OrphanSyncAssumption DEF OnChain, TypeOK
<1>2. ASSUME NEW h PROVE ChainAt(h) \in Hashes
  BY <1>1 DEF ChainAt, Hashes
<1>3. ASSUME NEW b \in Blocks PROVE PrevOf(b) \in Hashes
  <2>1. Ancestors[b] \subseteq Blocks
    BY OrphanSyncAssumption
  <2> QED  BY <2>1 DEF PrevOf, Hashes
<1>4. ASSUME NEW h PROVE HashesAt(h) \subseteq Blocks
  BY DEF HashesAt, IndexedIn, TypeOK
<1>5. ASSUME NEW b \in Hashes PROVE WithBlock(b) \in [Txs -> Hashes]
  BY DEF WithBlock, TypeOK, Hashes
<1> QED  BY <1>2, <1>3, <1>4, <1>5

LEMMA IndexedType ==
    ASSUME NEW db \in [Txs -> Hashes]
    PROVE  IndexedIn(db) \subseteq Blocks
  BY DEF IndexedIn, Hashes

(* A fault that can still happen leaves room for itself. *)
LEMMA FaultCount ==
    ASSUME TypeOK, NEW kind, Fails(kind)
    PROVE  faults + 1 \in 0..MaxFaults
  BY OrphanSyncAssumption DEF TypeOK, Fails

LEMMA InitType == Init => TypeOK /\ WalkInv
<1> SUFFICES ASSUME Init PROVE TypeOK /\ WalkInv
  OBVIOUS
<1>1. best \in Blocks /\ HeightOf[best] \in Nat \ {0} /\ OnChain \subseteq Blocks
  <2>1. best \in Blocks
    BY OrphanSyncAssumption DEF Init
  <2>2. best \in Ancestors[best] /\ HeightOf[best] >= Base
    BY <2>1, OrphanSyncAssumption
  <2> QED  BY <2>1, <2>2, OrphanSyncAssumption DEF OnChain
<1>2. txes \in [Txs -> Hashes]
  BY <1>1 DEF Init, Hashes
<1>3. indexed \subseteq Blocks
  BY <1>2, IndexedType DEF Init
<1>4. {last, count, orphanIndex, orphanCurrent, current} \subseteq Nat
  BY <1>1 DEF Init
<1>5. {stopSync, fromScratch, torn} \subseteq BOOLEAN
  BY Zenon DEF Init
<1>6. reorgs \in 0..MaxReorgs /\ faults \in 0..MaxFaults
  BY OrphanSyncAssumption DEF Init
<1>7. unresolved \in Seq(Nat) /\ WalkInv
  BY DEF Init, WalkInv
<1>8. /\ pc = "idle" /\ good = NoBlock /\ orphan = NoBlock
      /\ {forked, txids, tx, orphans, failed} \subseteq {{}}
  BY DEF Init
<1> QED
  BY <1>1, <1>2, <1>3, <1>4, <1>5, <1>6, <1>7, <1>8 DEF TypeOK, Hashes

(* Forget leaves every variable of the run with a value of its type. *)
LEMMA ForgetType ==
    ASSUME Forget
    PROVE  /\ pc' = "idle" /\ {count', current'} \subseteq Nat
           /\ unresolved' \in Seq(Nat) /\ WalkInv'
           /\ {good', orphan'} \subseteq Hashes
           /\ forked' \subseteq Hashes /\ txids' \subseteq Txs /\ tx' \subseteq Txs
           /\ stopSync' \in BOOLEAN
<1>1. unresolved' \in Seq(Nat) /\ WalkInv'
  BY DEF Forget, WalkInv
<1>2. stopSync' \in BOOLEAN
  BY Zenon DEF Forget
<1> QED  BY <1>1, <1>2 DEF Forget, Hashes

LEMMA NextType == TypeOK /\ WalkInv /\ [Next]_vars => (TypeOK /\ WalkInv)'
<1> SUFFICES ASSUME TypeOK, WalkInv, [Next]_vars PROVE (TypeOK /\ WalkInv)'
  OBVIOUS
<1> USE DEF TypeOK, Hashes
<1>1. CASE Start
  <2>1. current' \in Nat \ {0} /\ count' \in Nat \ {0}
    BY <1>1, OrphanSyncAssumption DEF Start
  <2> QED
    BY <1>1, <2>1 DEF Start, WalkInv, mongo, chain, repair, history
<1>2. CASE IndexBlock
  <2>1. txes' \in [Txs -> Hashes]
    BY <1>2, HashTypes DEF IndexBlock
  <2>2. indexed' \subseteq Blocks
    BY <1>2, <2>1, IndexedType DEF IndexBlock
  <2> QED  BY <1>2, <2>1, <2>2 DEF IndexBlock, WalkInv, chain, repair
<1>3. CASE StopIndexing
  BY <1>3, ForgetType DEF StopIndexing, mongo, chain, history
<1>4. CASE FindEarliest
  <2>1. /\ {orphanIndex', orphanCurrent', current'} \subseteq Nat
        /\ current' > 0
    <3>1. \A b \in Blocks : HeightOf[b] \in Nat \ {0}
      BY OrphanSyncAssumption
    <3> QED  BY <1>4, <3>1 DEF FindEarliest, WalkInv
  <2> QED  BY <1>4, <2>1 DEF FindEarliest, WalkInv, chain, repair, history
<1>5. CASE CheckHeight
  <2>1. {orphanIndex', orphanCurrent'} \subseteq Nat
    BY <1>5 DEF CheckHeight, SaveProgress, WalkInv
  <2>2. PICK hash \in Hashes :
            /\ faults' = faults \/ (faults' = faults + 1 /\ Fails("rpc_error"))
            /\ \/ /\ current' = current + 1
                  /\ UNCHANGED <<pc, unresolved, forked>>
               \/ /\ unresolved # << >>
                  /\ current' = unresolved[Len(unresolved)] + 1
                  /\ pc' = "good"
                  /\ UNCHANGED <<unresolved, forked>>
               \/ /\ unresolved' = Append(unresolved, current)
                  /\ current' = current + 1
                  /\ UNCHANGED <<pc, forked>>
               \/ /\ forked' = ForkHashes(current, hash) \ {good}
                  /\ pc' = "orphan"
                  /\ UNCHANGED <<current, unresolved>>
    <3>1. ChainAt(current) \in Hashes
      BY HashTypes
    <3>2. PICK hash \in {ChainAt(current)}
                         \cup (IF Fails("rpc_error") THEN {NoBlock} ELSE {}) :
              /\ faults' = IF hash = ChainAt(current) THEN faults ELSE faults + 1
              /\ \/ /\ current' = current + 1
                    /\ UNCHANGED <<pc, unresolved, forked>>
                 \/ /\ unresolved # << >>
                    /\ current' = unresolved[Len(unresolved)] + 1
                    /\ pc' = "good"
                    /\ UNCHANGED <<unresolved, forked>>
                 \/ /\ unresolved' = Append(unresolved, current)
                    /\ current' = current + 1
                    /\ UNCHANGED <<pc, forked>>
                 \/ /\ forked' = ForkHashes(current, hash) \ {good}
                    /\ pc' = "orphan"
                    /\ UNCHANGED <<current, unresolved>>
      BY <1>5, Zenon DEF CheckHeight
    <3> QED  BY <3>1, <3>2
  <2>3. faults' \in 0..MaxFaults
    BY <2>2, FaultCount
  <2>4. forked' \subseteq Hashes
    BY <2>2, HashTypes DEF ForkHashes
  <2>5. /\ current' \in Nat \ {0} /\ unresolved' \in Seq(Nat \ {0})
        /\ unresolved' \in Seq(Nat) /\ pc' \in {"check", "good", "orphan"}
        /\ pc' = "good" => unresolved' # << >>
    <3>1. current \in Nat \ {0} /\ pc = "check" /\ unresolved \in Seq(Nat \ {0})
      BY <1>5 DEF CheckHeight, WalkInv
    <3>2. unresolved # << >> => unresolved[Len(unresolved)] \in Nat \ {0}
      BY <3>1
    <3>3. /\ Append(unresolved, current) \in Seq(Nat \ {0})
          /\ Append(unresolved, current) \in Seq(Nat)
      BY <3>1
    <3>4. CASE UNCHANGED <<pc, unresolved>> /\ current' = current + 1
      BY <3>1, <3>4
    <3>5. CASE /\ unresolved # << >> /\ unresolved' = unresolved /\ pc' = "good"
               /\ current' = unresolved[Len(unresolved)] + 1
      BY <3>1, <3>2, <3>5
    <3>6. CASE /\ unresolved' = Append(unresolved, current) /\ pc' = pc
               /\ current' = current + 1
      BY <3>1, <3>3, <3>6
    <3>7. CASE pc' = "orphan" /\ UNCHANGED <<current, unresolved>>
      BY <3>1, <3>7
    <3> QED  BY <2>2, <3>4, <3>5, <3>6, <3>7
  <2>6. UNCHANGED <<txes, orphans, last, chain, count, good, orphan, txids, tx,
                    stopSync, indexed, fromScratch, torn, failed>>
    BY <1>5 DEF CheckHeight
  <2>7. {last, count, orphanIndex, orphanCurrent, current}' \subseteq Nat
    BY <2>1, <2>5, <2>6
  <2>8. WalkInv'
    <3>1. count > 0
      BY <1>5 DEF CheckHeight, WalkInv
    <3> QED  BY <2>5, <2>6, <3>1 DEF WalkInv
  <2> QED  BY <2>3, <2>4, <2>5, <2>6, <2>7, <2>8 DEF chain
<1>6. CASE FindGood
  <2>1. ChainAt(current) \in Blocks /\ good' \in Hashes
    BY <1>6, HashTypes DEF FindGood
  <2>2. /\ Len(unresolved) \in Nat \ {0}
        /\ unresolved[Len(unresolved)] \in Nat \ {0}
    BY <1>6 DEF FindGood, WalkInv
  <2>3. /\ SubSeq(unresolved, 1, Len(unresolved) - 1) \in Seq(Nat \ {0})
        /\ SubSeq(unresolved, 1, Len(unresolved) - 1) \in Seq(Nat)
    BY <2>2 DEF WalkInv
  <2> QED
    BY <1>6, <2>1, <2>2, <2>3 DEF FindGood, WalkInv, mongo, chain, repair, history
<1>7. CASE Abort
  <2>1. faults' \in 0..MaxFaults
    BY <1>7, FaultCount DEF Abort
  <2> QED  BY <1>7, <2>1, ForgetType DEF Abort, mongo, chain
<1>8. CASE Finish
  <2>1. {orphanIndex', orphanCurrent'} \subseteq Nat
    BY <1>8 DEF Finish, FirstUnresolved, WalkInv
  <2> QED  BY <1>8, <2>1, ForgetType DEF Finish, chain, history
<1>9. ASSUME NEW b \in Hashes, CreateOrphan(b) PROVE (TypeOK /\ WalkInv)'
  <2>1. /\ txids' \subseteq Txs /\ orphans' \subseteq Hashes
        /\ failed' \subseteq Blocks
    BY <1>9 DEF CreateOrphan, Recorded
  <2>2. faults' \in 0..MaxFaults
    BY <1>9, FaultCount DEF CreateOrphan
  <2>3. torn' \in BOOLEAN
    BY <1>9, Zenon DEF CreateOrphan
  <2> QED  BY <1>9, <2>1, <2>2, <2>3 DEF CreateOrphan, WalkInv, chain
<1>10. ASSUME NEW t \in Txs, DeleteTx(t) PROVE (TypeOK /\ WalkInv)'
  BY <1>10 DEF DeleteTx, WalkInv, chain, history
<1>11. CASE ReaddTx
  <2>1. txes' \in [Txs -> Hashes]
    <3>1. OnChain \subseteq Blocks
      BY OrphanSyncAssumption DEF OnChain
    <3> DEFINE homes == { b \in OnChain \ {orphan} : tx \subseteq TxsOf[b] }
    <3>2. homes # {} => (CHOOSE b \in homes : TRUE) \in Blocks
      BY <3>1
    <3>3. CASE txes' = txes
      BY <3>3
    <3>4. CASE txes' = [t \in Txs |-> IF t \in tx /\ homes # {}
                                     THEN CHOOSE b \in homes : TRUE ELSE txes[t]]
      <4> HIDE DEF homes
      <4> QED  BY <3>2, <3>4
    <3> QED  BY <1>11, <3>3, <3>4, Zenon DEF ReaddTx
  <2>2. indexed' \subseteq Blocks
    BY <1>11, <2>1, IndexedType DEF ReaddTx
  <2>3. torn' \in BOOLEAN
    BY <1>11, Zenon DEF ReaddTx
  <2>4. faults' \in 0..MaxFaults
    BY <1>11, FaultCount DEF ReaddTx
  <2> QED  BY <1>11, <2>1, <2>2, <2>3, <2>4 DEF ReaddTx, WalkInv, chain
<1>12. CASE OrphanDone
  BY <1>12 DEF OrphanDone, WalkInv, mongo, chain, history
<1>13. CASE AddMissing
  <2>1. txes' \in [Txs -> Hashes]
    BY <1>13, HashTypes DEF AddMissing
  <2>2. indexed' \subseteq Blocks
    BY <1>13, <2>1, IndexedType DEF AddMissing
  <2>3. torn' \in BOOLEAN
    BY <1>13, Zenon DEF AddMissing
  <2>4. faults' \in 0..MaxFaults
    BY <1>13, FaultCount DEF AddMissing
  <2> QED
    BY <1>13, <2>1, <2>2, <2>3, <2>4 DEF AddMissing, WalkInv, chain, repair
<1>14. CASE SaveRepair
  <2>1. {orphanIndex', orphanCurrent'} \subseteq Nat
    BY <1>14 DEF SaveRepair, FirstUnresolved, WalkInv
  <2>2. faults' \in 0..MaxFaults
    BY <1>14, FaultCount DEF SaveRepair
  <2> QED  BY <1>14, <2>1, <2>2 DEF SaveRepair, WalkInv, chain, repair
<1>15. CASE Stop
  <2>1. faults' \in 0..MaxFaults /\ stopSync' \in BOOLEAN
    BY <1>15, FaultCount DEF Stop
  <2> QED  BY <1>15, <2>1 DEF Stop, WalkInv, mongo, chain, repair
<1>16. CASE Crash
  <2>1. faults' \in 0..MaxFaults
    BY <1>16, FaultCount DEF Crash
  <2>2. torn' \in BOOLEAN
    BY <1>16, Zenon DEF Crash
  <2> QED  BY <1>16, <2>1, <2>2, ForgetType DEF Crash, mongo, chain
<1>17. CASE Extend
  BY <1>17 DEF Extend, WalkInv, mongo, run, repair, history
<1>18. CASE Reorg
  <2>1. reorgs' \in 0..MaxReorgs /\ best' \in Blocks
    BY <1>18, OrphanSyncAssumption DEF Reorg
  <2> QED  BY <1>18, <2>1 DEF Reorg, WalkInv, mongo, run, repair, history
<1>19. CASE UNCHANGED vars
  BY <1>19 DEF vars, WalkInv, mongo, chain, run, repair, history
<1> QED
  BY <1>1, <1>2, <1>3, <1>4, <1>5, <1>6, <1>7, <1>8, <1>9, <1>10, <1>11, <1>12,
     <1>13, <1>14, <1>15, <1>16, <1>17, <1>18, <1>19 DEF Next, SyncStep

(* Every variable of the repair keeps its type, whatever the chain does    *)
(* meanwhile and wherever a run is stopped, fails or ends.                 *)
THEOREM SyncTypeCorrect == Spec => []TypeOK
  BY InitType, NextType, PTL DEF Spec

-----------------------------------------------------------------------------
(* The transactions that are to be deleted are those of the orphan under   *)
(* repair, which has been recorded before; one that is looked up again has *)
(* just been deleted.                                                      *)
RecordInv ==
    /\ RemovedIsRecorded
    /\ pc # "readd" => tx = {}
    /\ pc \in {"delete", "readd"} =>
          /\ orphan \in orphans \cup failed \cup {NoBlock}
          /\ \A t \in txids : txes[t] = orphan
          /\ tx \cap txids = {}
          /\ \A t \in tx : txes[t] = NoBlock

(* What only fills gaps in the index removes no block from it. *)
LEMMA FillingRemovesNothing ==
    ASSUME NEW db \in [Txs -> Hashes], NEW filled \in [Txs -> Hashes],
           \A t \in Txs : db[t] # NoBlock => filled[t] = db[t]
    PROVE  IndexedIn(db) \subseteq IndexedIn(filled)
  BY DEF IndexedIn

LEMMA RecordInit == Init => RecordInv
  BY DEF Init, RecordInv, RemovedIsRecorded

LEMMA RecordNext ==
    ASSUME TypeOK, TypeOK', RecordInv, [Next]_vars
    PROVE  RecordInv'
<1> USE DEF RecordInv
<1>1. CASE IndexBlock \/ AddMissing
  <2>1. PICK b : b \in Hashes /\ (txes' = WithBlock(b) \/ txes' = txes)
    BY <1>1, HashTypes DEF IndexBlock, AddMissing
  <2>2. \A t \in Txs : txes[t] # NoBlock => txes'[t] = txes[t]
    BY <2>1 DEF WithBlock
  <2>3. IndexedIn(txes) \subseteq IndexedIn(txes')
    BY <2>2, FillingRemovesNothing DEF TypeOK, Hashes
  <2>4. /\ indexed' = indexed \cup IndexedIn(txes')
        /\ UNCHANGED <<orphans, failed>> /\ pc' \in {"index", "save", "check"}
        /\ tx' = {}
    BY <1>1 DEF IndexBlock, AddMissing, repair
  <2> QED  BY <2>3, <2>4 DEF RemovedIsRecorded
<1>2. ASSUME NEW b \in Hashes, CreateOrphan(b) PROVE RecordInv'
  <2>1. /\ UNCHANGED <<txes, indexed, tx>> /\ orphan' = b /\ pc' = "delete"
        /\ orphans \cup failed \subseteq orphans' \cup failed'
        /\ b \in orphans' \cup failed' \cup {NoBlock}
        /\ \A t \in txids' : txes[t] = b
    BY <1>2 DEF CreateOrphan, Recorded
  <2>2. tx = {}
    BY <1>2 DEF CreateOrphan
  <2> QED  BY <2>1, <2>2 DEF RemovedIsRecorded
<1>3. ASSUME NEW t \in Txs, DeleteTx(t) PROVE RecordInv'
  <2>1. /\ pc = "delete" /\ pc' = "readd" /\ t \in txids
        /\ txes' = [txes EXCEPT ![t] = NoBlock] /\ txids' = txids \ {t} /\ tx' = {t}
        /\ UNCHANGED <<orphans, failed, indexed, orphan>>
    BY <1>3 DEF DeleteTx, history
  <2>2. txes[t] = orphan
    BY <2>1
  <2>3. IndexedIn(txes) \subseteq IndexedIn(txes') \cup {orphan}
    BY <2>1, <2>2 DEF IndexedIn, TypeOK
  <2>4. indexed' \ IndexedIn(txes') \subseteq orphans' \cup failed'
    <3>1. orphan \in orphans \cup failed \cup {NoBlock} /\ NoBlock \notin indexed
      BY <2>1, OrphanSyncAssumption DEF TypeOK
    <3>2. indexed \ IndexedIn(txes) \subseteq orphans \cup failed
      BY DEF RemovedIsRecorded
    <3> QED  BY <2>1, <2>3, <3>1, <3>2
  <2> QED  BY <2>1, <2>4 DEF RemovedIsRecorded, TypeOK
<1>4. CASE ReaddTx
  <2>1. /\ pc = "readd" /\ pc' = "delete" /\ tx' = {}
        /\ indexed' = indexed \cup IndexedIn(txes')
        /\ UNCHANGED <<orphans, failed, orphan, txids>>
    BY <1>4 DEF ReaddTx
  <2>2. \A t \in Txs \ tx : txes'[t] = txes[t]
    BY <1>4 DEF ReaddTx
  <2>3. IndexedIn(txes) \subseteq IndexedIn(txes')
    BY <2>1, <2>2, FillingRemovesNothing DEF TypeOK, Hashes
  <2>4. \A t \in txids : txes'[t] = orphan
    BY <2>1, <2>2 DEF TypeOK
  <2> QED  BY <2>1, <2>3, <2>4 DEF RemovedIsRecorded
<1>5. CASE Start \/ StopIndexing \/ FindEarliest \/ CheckHeight \/ FindGood \/ Finish
           \/ SaveRepair \/ Abort \/ Crash \/ OrphanDone
  <2>1. /\ UNCHANGED <<txes, orphans, failed, indexed>>
        /\ pc' \notin {"delete", "readd"} /\ tx' = {}
    BY <1>5 DEF Start, StopIndexing, FindEarliest, CheckHeight, FindGood, Finish,
                SaveRepair, Abort, Crash, OrphanDone, Forget, mongo, repair,
                history
  <2> QED  BY <2>1 DEF RemovedIsRecorded, IndexedIn
<1>6. CASE Stop \/ Extend \/ Reorg \/ UNCHANGED vars
  <2>1. UNCHANGED <<txes, orphans, failed, indexed, pc, orphan, txids, tx>>
    BY <1>6 DEF Stop, Extend, Reorg, vars, mongo, run, repair, history
  <2> QED  BY <2>1 DEF RemovedIsRecorded, IndexedIn
<1> QED
  BY <1>1, <1>2, <1>3, <1>4, <1>5, <1>6 DEF Next, SyncStep, Hashes

(* A block that disappears from the index has been recorded as an orphan,  *)
(* whatever the chain does meanwhile and wherever the process ends, unless *)
(* MongoDB failed for the block.                                           *)
THEOREM RemovedBlocksRecorded == Spec => []RemovedIsRecorded
<1>1. TypeOK /\ WalkInv /\ RecordInv /\ [Next]_vars => (TypeOK /\ WalkInv /\ RecordInv)'
  BY NextType, RecordNext
<1>2. RecordInv => RemovedIsRecorded
  BY DEF RecordInv
<1> QED  BY InitType, RecordInit, <1>1, <1>2, PTL DEF Spec

-----------------------------------------------------------------------------
(* No dropped block is left behind.                                        *)

(* The two conditions under which the search finds what it has to: the     *)
(* chain never drops a block below the last but one, and it is longer than *)
(* the heights that stopped runs can lose of the position, so that a       *)
(* position of 0, "nothing has been searched yet", is never saved.         *)
ShallowReorgs == MaxDepth <= 2
LongChain == \A b \in Roots : HeightOf[b] > MaxFaults + 1

(* The blocks a repair has to find, and those among them that the chain    *)
(* had dropped before the run began.                                       *)
Bad == Stale \ failed
Old == { b \in Bad : HeightOf[b] < count - 1 }

Walk == {"check", "good", "orphan", "delete", "readd", "save"}

(* A run that is stopped or ends may lose one height of its position.      *)
Floor == (MaxFaults + 1 - faults) + (IF stopSync THEN 1 ELSE 0)

SavedInv ==
    /\ HeightOf[best] >= MaxFaults + 2
    /\ Resume <= HeightOf[best] - 1
    /\ pc # "idle" => /\ count <= HeightOf[best] /\ count >= MaxFaults + 2
                      /\ Resume <= count - 1
    /\ pc \in {"idle", "index"} =>
          /\ unresolved = << >> /\ good = NoBlock
          /\ orphanIndex >= MaxFaults + 1 - faults
          /\ orphanCurrent # 0 => orphanCurrent >= MaxFaults + 1 - faults

PositionInv ==
    pc \in Walk =>
        /\ current <= count /\ (pc # "check" => current < count)
        /\ current >= Floor
        /\ \A i \in 1..Len(unresolved) :
              /\ unresolved[i] < current /\ unresolved[i] >= Floor
              /\ \A j \in 1..Len(unresolved) : j < i => unresolved[j] < unresolved[i]
        /\ orphanIndex >= Floor - 1
        /\ orphanCurrent # 0 => orphanCurrent >= Floor - 1

SearchInv ==
    pc \in Walk =>
        /\ good # NoBlock => good \in OnChain \/ HeightOf[good] >= count - 1
        /\ pc \in {"delete", "readd"} =>
              \/ orphan \in failed \cup {NoBlock}
              \/ \A t \in Txs : txes[t] = orphan => t \in txids
        /\ \A b \in Old :
              \/ \E i \in 1..Len(unresolved) : HeightOf[b] = unresolved[i]
              \/ HeightOf[b] > current
              \/ HeightOf[b] = current /\ pc \in {"check", "good"}
              \/ b \in forked /\ pc \in {"orphan", "delete", "readd"}
              \/ b = orphan /\ pc \in {"delete", "readd"}

ForksAhead == \A b \in Bad : HeightOf[b] >= Resume

SearchedInv == SavedInv /\ PositionInv /\ SearchInv /\ ForksAhead

Typed == TypeOK /\ WalkInv

LEMMA Bounds ==
    /\ MaxFaults \in Nat /\ MaxDepth \in Nat
    /\ \A b \in Blocks : HeightOf[b] \in Nat /\ Ancestors[b] \subseteq Blocks
  BY OrphanSyncAssumption

LEMMA Positions ==
    ASSUME Typed
    PROVE  /\ Resume \in Nat /\ count \in Nat /\ current \in Nat
           /\ orphanIndex \in Nat /\ orphanCurrent \in Nat
           /\ faults \in 0..MaxFaults /\ Floor \in Int
           /\ best \in Blocks /\ HeightOf[best] \in Nat
           /\ OnChain \subseteq Blocks
           /\ Bad \subseteq Blocks
           /\ Len(unresolved) \in Nat
           /\ \A i \in 1..Len(unresolved) : unresolved[i] \in Nat \ {0}
<1>1. /\ {last, count, orphanIndex, orphanCurrent, current} \subseteq Nat
      /\ faults \in 0..MaxFaults /\ best \in Blocks
      /\ unresolved \in Seq(Nat \ {0})
  BY DEF Typed, TypeOK, WalkInv
<1>2. Resume \in Nat
  BY <1>1 DEF Resume
<1>3. Floor \in Int
  BY <1>1, Bounds DEF Floor
<1>4. Bad \subseteq Blocks
  BY DEF Bad, Stale, IndexedIn, Typed, TypeOK
<1>5. OnChain \subseteq Blocks /\ HeightOf[best] \in Nat
  BY <1>1, Bounds DEF OnChain
<1> QED  BY <1>1, <1>2, <1>3, <1>4, <1>5

(* As long as the chain stays, only dropped blocks of before are dropped.  *)
LEMMA BadKept ==
    ASSUME UNCHANGED best, failed \subseteq failed',
           IndexedIn(txes') \subseteq IndexedIn(txes) \cup OnChain
    PROVE  Bad' \subseteq Bad /\ (count' = count => Old' \subseteq Old)
<1>1. OnChain' = OnChain
  BY DEF OnChain
<1>2. Stale' \subseteq Stale
  BY <1>1 DEF Stale
<1> QED  BY <1>2 DEF Bad, Old

LEMMA BadSame ==
    ASSUME UNCHANGED <<best, txes, failed>>
    PROVE  Bad' = Bad /\ (count' = count => Old' = Old)
<1>1. OnChain' = OnChain /\ Stale' = Stale
  BY DEF OnChain, Stale, IndexedIn
<1> QED  BY <1>1 DEF Bad, Old

(* Filling in what is missing of a block of the chain.                     *)
LEMMA FillsFromChain ==
    ASSUME NEW h, TypeOK
    PROVE  IndexedIn(WithBlock(ChainAt(h))) \subseteq IndexedIn(txes) \cup OnChain
<1>1. ChainAt(h) \in OnChain \cup {NoBlock}
  BY DEF ChainAt
<1>2. \A t \in Txs : WithBlock(ChainAt(h))[t] \in {txes[t], ChainAt(h)}
  BY DEF WithBlock
<1> QED  BY <1>1, <1>2 DEF IndexedIn

(* A run that is over leaves what it has saved.                            *)
LEMMA ForgetSearched ==
    ASSUME Typed, SavedInv, ForksAhead, Forget, UNCHANGED <<txes, failed, best>>,
           Resume' <= HeightOf[best] - 1,
           \A b \in Bad : HeightOf[b] >= Resume',
           orphanIndex' >= MaxFaults + 1 - faults',
           orphanCurrent' # 0 => orphanCurrent' >= MaxFaults + 1 - faults'
    PROVE  SearchedInv'
<1>1. pc' = "idle" /\ unresolved' = << >> /\ good' = NoBlock
  BY DEF Forget
<1>2. Bad' = Bad
  BY BadSame
<1>3. PositionInv' /\ SearchInv'
  BY <1>1 DEF PositionInv, SearchInv, Walk
<1>4. SavedInv'
  BY <1>1 DEF SavedInv
<1>5. ForksAhead'
  BY <1>2 DEF ForksAhead
<1> QED  BY <1>3, <1>4, <1>5 DEF SearchedInv

LEMMA StartSearched == ASSUME Typed, SearchedInv, Start PROVE SearchedInv'
<1>1. /\ pc = "idle" /\ pc' = "index" /\ count' = HeightOf[best]
      /\ UNCHANGED <<txes, failed, best, orphanIndex, orphanCurrent, unresolved, good,
                     faults, stopSync>>
  BY DEF Start, mongo, chain, history
<1>2. Bad' = Bad /\ Resume' = Resume
  BY <1>1, BadSame DEF Resume
<1>3. SavedInv'
  BY <1>1, <1>2, Positions DEF SearchedInv, SavedInv
<1>4. PositionInv' /\ SearchInv'
  BY <1>1 DEF PositionInv, SearchInv, Walk
<1>5. ForksAhead'
  BY <1>1, <1>2 DEF SearchedInv, ForksAhead
<1> QED  BY <1>3, <1>4, <1>5 DEF SearchedInv

LEMMA IndexSearched == ASSUME Typed, SearchedInv, IndexBlock PROVE SearchedInv'
<1>1. /\ pc = "index" /\ txes' = WithBlock(ChainAt(current))
      /\ UNCHANGED <<pc, failed, best, orphanIndex, orphanCurrent, unresolved, good,
                     faults, stopSync, count>>
  BY DEF IndexBlock, chain, repair
<1>2. Bad' \subseteq Bad /\ Resume' = Resume
  BY <1>1, BadKept, FillsFromChain DEF Typed, Resume
<1>3. SavedInv'
  BY <1>1, <1>2 DEF SearchedInv, SavedInv
<1>4. PositionInv' /\ SearchInv'
  BY <1>1 DEF PositionInv, SearchInv, Walk
<1>5. ForksAhead'
  BY <1>1, <1>2 DEF SearchedInv, ForksAhead
<1> QED  BY <1>3, <1>4, <1>5 DEF SearchedInv

(* StopIndexing, Abort and Crash keep the saved position; a fault pays for *)
(* what a walk may have lost of it.                                        *)
LEMMA EndSearched ==
    ASSUME Typed, Typed', SearchedInv, StopIndexing \/ Abort \/ Crash
    PROVE  SearchedInv'
<1>1. /\ Forget /\ UNCHANGED <<txes, failed, best, orphanIndex, orphanCurrent>>
      /\ \/ pc = "index" /\ faults' = faults
         \/ pc # "idle" /\ faults' = faults + 1
  BY DEF StopIndexing, Abort, Crash, mongo, chain, history
<1>2. Resume' = Resume /\ Resume <= HeightOf[best] - 1
  BY <1>1 DEF SearchedInv, SavedInv, Resume
<1>3. pc \in {"idle", "index"} \cup Walk
  BY DEF Typed, TypeOK, Walk
<1>4. /\ orphanIndex >= MaxFaults + 1 - faults'
      /\ orphanCurrent # 0 => orphanCurrent >= MaxFaults + 1 - faults'
  <2>1. CASE pc \in {"idle", "index"}
    <3>1. /\ orphanIndex >= MaxFaults + 1 - faults
          /\ orphanCurrent # 0 => orphanCurrent >= MaxFaults + 1 - faults
      BY <2>1 DEF SearchedInv, SavedInv
    <3> QED  BY <1>1, <3>1, Positions, Bounds
  <2>2. CASE pc \in Walk
    <3>1. faults' = faults + 1
      BY <1>1, <2>2 DEF Walk
    <3>2. /\ orphanIndex >= Floor - 1
          /\ orphanCurrent # 0 => orphanCurrent >= Floor - 1
      BY <2>2 DEF SearchedInv, PositionInv
    <3> QED  BY <3>1, <3>2, Positions, Bounds DEF Floor
  <2> QED  BY <1>3, <2>1, <2>2
<1> QED  BY <1>1, <1>2, <1>4, ForgetSearched DEF SearchedInv, ForksAhead

(* The search begins where the last run saved it.                          *)
LEMMA FindSearched == ASSUME Typed, SearchedInv, FindEarliest PROVE SearchedInv'
<1>1. /\ pc = "index" /\ pc' = "check" /\ ~stopSync
      /\ UNCHANGED <<txes, failed, best, unresolved, good, faults, stopSync, count>>
  BY DEF FindEarliest, chain, repair, history
<1>2. /\ orphanIndex >= MaxFaults + 1 - faults
      /\ orphanCurrent # 0 => orphanCurrent >= MaxFaults + 1 - faults
      /\ unresolved = << >> /\ good = NoBlock
      /\ count <= HeightOf[best] /\ Resume <= count - 1
  BY <1>1 DEF SearchedInv, SavedInv
<1>3. UNCHANGED <<orphanIndex, orphanCurrent>> /\ current' = Resume
  <2>1. orphanIndex # 0
    BY <1>2, Positions, Bounds
  <2> QED  BY <2>1 DEF FindEarliest, Resume
<1>4. Resume' = Resume /\ Bad' = Bad /\ Old' = Old
  BY <1>1, <1>3, BadSame DEF Resume
<1>5. SavedInv'
  BY <1>1, <1>3, <1>4 DEF SearchedInv, SavedInv
<1>6. PositionInv'
  BY <1>1, <1>2, <1>3, Positions, Bounds DEF PositionInv, Floor, Walk, Resume
<1>7. SearchInv'
  <2>1. \A b \in Old : HeightOf[b] >= Resume
    BY DEF SearchedInv, ForksAhead, Old
  <2>2. \A b \in Old : HeightOf[b] > current' \/ HeightOf[b] = current'
    BY <1>3, <2>1, Positions, Bounds DEF Old
  <2> QED  BY <1>1, <1>2, <1>4, <2>2 DEF SearchInv, Walk
<1>8. ForksAhead'
  BY <1>4 DEF SearchedInv, ForksAhead
<1> QED  BY <1>5, <1>6, <1>7, <1>8 DEF SearchedInv

(* While the walk goes on, what is ahead or remembered is all there is.    *)
LEMMA AheadOfWalk ==
    ASSUME Typed, SearchedInv, pc = "check", unresolved = << >>
    PROVE  \A b \in Bad : HeightOf[b] >= current \/ HeightOf[b] >= count - 1
<1> SUFFICES ASSUME NEW b \in Bad, HeightOf[b] < count - 1
             PROVE  HeightOf[b] >= current
  <2>1. \A b \in Bad : HeightOf[b] \in Nat
    BY Positions, Bounds
  <2> QED  BY <2>1, Positions
<1>1. b \in Old
  BY DEF Old
<1>2. HeightOf[b] > current \/ HeightOf[b] = current
  BY <1>1 DEF SearchedInv, SearchInv, Walk
<1> QED  BY <1>2, Positions, Bounds

(* A height that passes for good has no dropped block.                     *)
LEMMA GoodHeight ==
    ASSUME Typed, NEW hash \in {ChainAt(current), NoBlock},
           ForkHashes(current, hash) = {}
    PROVE  \A b \in Bad : HeightOf[b] # current
<1>1. HashesAt(current) \subseteq {hash}
  BY DEF ForkHashes
<1>2. hash \in OnChain \cup {NoBlock}
  BY DEF ChainAt
<1>3. ASSUME NEW b \in Bad, HeightOf[b] = current PROVE FALSE
  <2>1. b \in IndexedIn(txes) /\ b \notin OnChain /\ b # NoBlock
    BY DEF Bad, Stale, IndexedIn
  <2>2. b \in HashesAt(current)
    BY <1>3, <2>1 DEF HashesAt
  <2> QED  BY <1>1, <1>2, <2>1, <2>2
<1> QED  BY <1>3

LEMMA CheckSearched ==
    ASSUME Typed, Typed', SearchedInv, CheckHeight
    PROVE  SearchedInv'
<1>1. /\ pc = "check" /\ ~stopSync /\ current < count /\ SaveProgress
      /\ UNCHANGED <<txes, failed, best, count, good, stopSync>>
  BY DEF CheckHeight, chain
<1>2. PICK hash \in {ChainAt(current), NoBlock} :
          /\ faults' \in {faults, faults + 1}
          /\ \/ /\ ForkHashes(current, hash) = {} /\ unresolved = << >>
                /\ current' = current + 1
                /\ UNCHANGED <<pc, unresolved, forked>>
             \/ /\ ForkHashes(current, hash) = {} /\ unresolved # << >>
                /\ current' = unresolved[Len(unresolved)] + 1
                /\ pc' = "good"
                /\ UNCHANGED <<unresolved, forked>>
             \/ /\ unresolved' = Append(unresolved, current)
                /\ current' = current + 1
                /\ UNCHANGED <<pc, forked>>
             \/ /\ good # NoBlock
                /\ forked' = ForkHashes(current, hash) \ {good}
                /\ ForkHashes(current, hash) # {}
                /\ pc' = "orphan"
                /\ UNCHANGED <<current, unresolved>>
  BY DEF CheckHeight
<1>3. Bad' = Bad /\ Old' = Old /\ OnChain' = OnChain
  BY <1>1, BadSame DEF OnChain
<1>4. /\ count <= HeightOf[best] /\ Resume <= count - 1
      /\ count >= MaxFaults + 2 /\ HeightOf[best] >= MaxFaults + 2
  BY <1>1 DEF SearchedInv, SavedInv
<1>5. /\ current >= Floor /\ orphanIndex >= Floor - 1
      /\ orphanCurrent # 0 => orphanCurrent >= Floor - 1
      /\ \A i \in 1..Len(unresolved) :
            /\ unresolved[i] < current /\ unresolved[i] >= Floor
            /\ \A j \in 1..Len(unresolved) : j < i => unresolved[j] < unresolved[i]
  BY <1>1 DEF SearchedInv, PositionInv, Walk
<1>6. Floor' \in Int /\ Floor' <= Floor
  BY <1>1, <1>2, Positions, Bounds DEF Floor
<1>7. \/ UNCHANGED <<orphanIndex, orphanCurrent>>
      \/ unresolved = << >> /\ orphanIndex' = current - 1 /\ orphanCurrent' = 0
  BY <1>1 DEF SaveProgress
<1>8. /\ Resume' <= count - 1 /\ orphanIndex' >= Floor' - 1
      /\ orphanCurrent' # 0 => orphanCurrent' >= Floor' - 1
  <2>1. CASE UNCHANGED <<orphanIndex, orphanCurrent>>
    BY <1>4, <1>5, <1>6, <2>1, Positions DEF Resume
  <2>2. CASE unresolved = << >> /\ orphanIndex' = current - 1 /\ orphanCurrent' = 0
    BY <1>1, <1>5, <1>6, <2>2, Positions DEF Resume
  <2> QED  BY <1>7, <2>1, <2>2
<1>9. ForksAhead'
  <2>1. CASE UNCHANGED <<orphanIndex, orphanCurrent>>
    BY <1>3, <2>1 DEF SearchedInv, ForksAhead, Resume
  <2>2. CASE unresolved = << >> /\ orphanIndex' = current - 1 /\ orphanCurrent' = 0
    <3>1. Resume' = current - 1
      BY <2>2 DEF Resume
    <3>2. \A b \in Bad : HeightOf[b] >= current \/ HeightOf[b] >= count - 1
      BY <1>1, <2>2, AheadOfWalk
    <3>3. \A b \in Bad : HeightOf[b] >= current - 1
      BY <1>1, <3>2, Positions, Bounds
    <3> QED  BY <1>3, <3>1, <3>3 DEF ForksAhead
  <2> QED  BY <1>7, <2>1, <2>2
<1>10. SavedInv'
  <2>1. pc' \notin {"idle", "index"}
    BY <1>1, <1>2
  <2>2. Resume' \in Nat
    BY DEF Typed, TypeOK, Resume
  <2>3. Resume' <= HeightOf[best] - 1
    BY <1>4, <1>8, <2>2, Positions
  <2> QED  BY <1>1, <1>4, <1>8, <2>1, <2>3 DEF SavedInv
<1>11. /\ good # NoBlock => good \in OnChain \/ HeightOf[good] >= count - 1
       /\ \A b \in Old :
             \/ \E i \in 1..Len(unresolved) : HeightOf[b] = unresolved[i]
             \/ HeightOf[b] > current
             \/ HeightOf[b] = current
  BY <1>1 DEF SearchedInv, SearchInv, Walk
<1>12. Old \subseteq Bad /\ \A b \in Old : HeightOf[b] \in Nat
  BY Positions, Bounds DEF Old
<1>13. PositionInv' /\ SearchInv'
  <2>1. CASE /\ ForkHashes(current, hash) = {} /\ unresolved = << >>
             /\ current' = current + 1
             /\ UNCHANGED <<pc, unresolved, forked>>
    <3>1. PositionInv'
      BY <1>1, <1>5, <1>6, <1>8, <2>1, Positions DEF PositionInv, Walk
    <3>2. \A b \in Old : HeightOf[b] > current
      BY <1>11, <1>12, <2>1, GoodHeight
    <3>3. \A b \in Old : HeightOf[b] > current' \/ HeightOf[b] = current'
      BY <1>12, <2>1, <3>2, Positions
    <3>4. pc' = "check" /\ UNCHANGED good
      BY <1>1, <2>1
    <3>5. SearchInv'
      BY <1>1, <1>3, <1>11, <2>1, <3>3, <3>4 DEF SearchInv
    <3> QED  BY <3>1, <3>5
  <2>2. CASE /\ ForkHashes(current, hash) = {} /\ unresolved # << >>
             /\ current' = unresolved[Len(unresolved)] + 1
             /\ pc' = "good"
             /\ UNCHANGED <<unresolved, forked>>
    <3> DEFINE n == Len(unresolved)
    <3>1. n \in 1..n /\ unresolved \in Seq(Nat \ {0})
      BY <2>2, Positions DEF Typed, WalkInv
    <3>2. /\ unresolved[n] \in Nat /\ unresolved[n] < current
          /\ unresolved[n] >= Floor /\ current' <= current
      BY <1>5, <2>2, <3>1, Positions
    <3>3. \A i \in 1..n : unresolved[i] < current'
      <4>1. \A i \in 1..n : i < n => unresolved[i] < unresolved[n]
        BY <1>5, <3>1
      <4>2. \A i \in 1..n : i < n \/ i = n
        BY <3>1
      <4> HIDE DEF n
      <4> QED  BY <2>2, <3>1, <3>2, <4>1, <4>2, Positions DEF n
    <3>4. PositionInv'
      BY <1>1, <1>5, <1>6, <1>8, <2>2, <3>2, <3>3, Positions DEF PositionInv, Walk
    <3>5. \A b \in Old :
             \/ \E i \in 1..n : HeightOf[b] = unresolved[i]
             \/ HeightOf[b] > current'
             \/ HeightOf[b] = current'
      <4> SUFFICES ASSUME NEW b \in Old
                   PROVE  \/ \E i \in 1..n : HeightOf[b] = unresolved[i]
                          \/ HeightOf[b] > current'
                          \/ HeightOf[b] = current'
        OBVIOUS
      <4>1. CASE HeightOf[b] > current \/ HeightOf[b] = current
        <5>1. current' \in Nat /\ current \in Nat /\ HeightOf[b] \in Nat
          BY <1>12, <2>2, <3>2, Positions
        <5> QED  BY <3>2, <4>1, <5>1
      <4> QED  BY <1>11, <4>1
    <3> QED  BY <1>1, <1>3, <1>11, <2>2, <3>4, <3>5 DEF SearchInv
  <2>3. CASE /\ unresolved' = Append(unresolved, current)
             /\ current' = current + 1
             /\ UNCHANGED <<pc, forked>>
    <3> DEFINE n == Len(unresolved)
    <3>1. /\ n \in Nat /\ Len(unresolved') = n + 1
          /\ \A i \in 1..n : unresolved'[i] = unresolved[i]
          /\ unresolved'[n + 1] = current
      BY <2>3 DEF Typed, TypeOK
    <3>2. \A i \in 1..(n + 1) : i \in 1..n \/ i = n + 1
      BY <3>1
    <3>3. \A i \in 1..(n + 1) : unresolved'[i] < current' /\ unresolved'[i] >= Floor'
      BY <1>5, <1>6, <2>3, <3>1, <3>2, Positions
    <3>4. \A i, j \in 1..(n + 1) : j < i => unresolved'[j] < unresolved'[i]
      <4>1. \A i, j \in 1..(n + 1) : j < i => j \in 1..n
        BY <3>1
      <4> QED  BY <1>5, <3>1, <3>2, <4>1, Positions
    <3>5. PositionInv'
      BY <1>1, <1>5, <1>6, <1>8, <2>3, <3>1, <3>3, <3>4, Positions
         DEF PositionInv, Walk
    <3>6. ASSUME NEW b \in Old
          PROVE  \/ \E i \in 1..(n + 1) : HeightOf[b] = unresolved'[i]
                 \/ HeightOf[b] > current' \/ HeightOf[b] = current'
      <4>1. CASE \E i \in 1..n : HeightOf[b] = unresolved[i]
        <5>1. PICK i \in 1..n : HeightOf[b] = unresolved[i]
          BY <4>1
        <5>2. i \in 1..(n + 1) /\ HeightOf[b] = unresolved'[i]
          BY <3>1, <5>1
        <5> QED  BY <5>2
      <4>2. CASE HeightOf[b] > current
        BY <1>12, <2>3, <4>2, Positions
      <4>3. CASE HeightOf[b] = current
        <5>1. n + 1 \in 1..(n + 1)
          BY <3>1
        <5> QED  BY <3>1, <4>3, <5>1
      <4> QED  BY <1>11, <4>1, <4>2, <4>3
    <3>7. SearchInv'
      BY <1>1, <1>3, <1>11, <2>3, <3>1, <3>6 DEF SearchInv
    <3> QED  BY <3>5, <3>7
  <2>4. CASE /\ good # NoBlock
             /\ forked' = ForkHashes(current, hash) \ {good}
             /\ ForkHashes(current, hash) # {}
             /\ pc' = "orphan"
             /\ UNCHANGED <<current, unresolved>>
    <3>1. PositionInv'
      BY <1>1, <1>5, <1>6, <1>8, <2>4, Positions DEF PositionInv, Walk
    <3>2. ASSUME NEW b \in Old, HeightOf[b] = current PROVE b \in forked'
      <4>1. b \in IndexedIn(txes) /\ b \notin OnChain /\ HeightOf[b] < count - 1
        BY DEF Old, Bad, Stale
      <4>2. b \in ForkHashes(current, hash)
        BY <2>4, <3>2, <4>1 DEF ForkHashes, HashesAt
      <4>3. b # good
        BY <1>11, <1>12, <2>4, <4>1, Positions
      <4> QED  BY <2>4, <4>2, <4>3
    <3>3. SearchInv'
      BY <1>1, <1>3, <1>11, <2>4, <3>2 DEF SearchInv
    <3> QED  BY <3>1, <3>3
  <2> QED  BY <1>2, <2>1, <2>2, <2>3, <2>4
<1> QED  BY <1>9, <1>10, <1>13 DEF SearchedInv

(* The good block is the chain's, as long as the height is settled.        *)
LEMMA GoodSearched == ASSUME Typed, SearchedInv, FindGood PROVE SearchedInv'
<1> DEFINE n == Len(unresolved)
<1>1. /\ pc = "good" /\ pc' = "check" /\ ChainAt(current) # NoBlock
      /\ good' = PrevOf(ChainAt(current)) /\ current' = unresolved[n]
      /\ unresolved' = SubSeq(unresolved, 1, n - 1)
      /\ UNCHANGED <<txes, failed, best, orphanIndex, orphanCurrent, count, faults,
                     stopSync>>
  BY DEF FindGood, mongo, chain, history
<1>2. Bad' = Bad /\ Old' = Old /\ OnChain' = OnChain /\ Resume' = Resume
  BY <1>1, BadSame DEF OnChain, Resume
<1>3. /\ n \in 1..n /\ n \in Nat /\ n - 1 \in Nat
      /\ unresolved \in Seq(Nat \ {0})
  BY <1>1, Positions DEF Typed, WalkInv
<1>4. /\ current < count /\ orphanIndex >= Floor - 1
      /\ orphanCurrent # 0 => orphanCurrent >= Floor - 1
      /\ \A i \in 1..n :
            /\ unresolved[i] < current /\ unresolved[i] >= Floor
            /\ \A j \in 1..n : j < i => unresolved[j] < unresolved[i]
  BY <1>1 DEF SearchedInv, PositionInv, Walk
<1>5. Floor' = Floor
  BY <1>1 DEF Floor
<1>6. /\ Len(unresolved') = n - 1
      /\ \A i \in 1..(n - 1) : i \in 1..n /\ i < n /\ unresolved'[i] = unresolved[i]
  <2>1. \A k \in Nat : k <= n =>
            /\ Len(SubSeq(unresolved, 1, k)) = k
            /\ \A i \in 1..k : SubSeq(unresolved, 1, k)[i] = unresolved[i]
    BY <1>3
  <2>2. \A i \in 1..(n - 1) : i \in 1..n /\ i < n
    BY <1>3
  <2>3. n - 1 <= n
    BY <1>3
  <2> HIDE DEF n
  <2> QED  BY <1>1, <1>3, <2>1, <2>2, <2>3
<1>7. /\ current' \in Nat /\ current' < current /\ current' >= Floor
      /\ \A i \in 1..(n - 1) : unresolved[i] < current'
  BY <1>1, <1>3, <1>4, <1>6, Positions
<1>8. PositionInv'
  <2>1. current' <= count'
    BY <1>1, <1>4, <1>7, Positions
  <2>2. \A i \in 1..Len(unresolved') :
           /\ unresolved'[i] < current' /\ unresolved'[i] >= Floor'
           /\ \A j \in 1..Len(unresolved') :
                 j < i => unresolved'[j] < unresolved'[i]
    <3> HIDE DEF n
    <3> QED  BY <1>4, <1>5, <1>6, <1>7
  <2> QED  BY <1>1, <1>4, <1>5, <1>7, <2>1, <2>2 DEF PositionInv
<1>9. SavedInv'
  BY <1>1, <1>2 DEF SearchedInv, SavedInv
<1>10. good' \in OnChain \cup {NoBlock}
  <2>1. ChainAt(current) \in OnChain
    BY <1>1 DEF ChainAt
  <2>2. ChainAt(current) \in Ancestors[best] /\ best \in Blocks
    BY <2>1, Positions DEF OnChain
  <2>3. Ancestors[ChainAt(current)] \subseteq OnChain
    BY <2>2, OrphanSyncAssumption DEF OnChain
  <2> QED  BY <1>1, <2>3 DEF PrevOf
<1>11. ASSUME NEW b \in Old
       PROVE  \/ \E i \in 1..(n - 1) : HeightOf[b] = unresolved'[i]
              \/ HeightOf[b] > current' \/ HeightOf[b] = current'
  <2>1. HeightOf[b] \in Nat
    BY Positions, Bounds DEF Old
  <2>2. \/ \E i \in 1..n : HeightOf[b] = unresolved[i]
        \/ HeightOf[b] > current \/ HeightOf[b] = current
    BY <1>1 DEF SearchedInv, SearchInv, Walk
  <2>3. CASE \E i \in 1..n : HeightOf[b] = unresolved[i]
    <3>1. PICK i \in 1..n : HeightOf[b] = unresolved[i]
      BY <2>3
    <3>2. i = n \/ i \in 1..(n - 1)
      BY <1>3
    <3> QED  BY <1>1, <1>6, <3>1, <3>2
  <2>4. CASE HeightOf[b] > current \/ HeightOf[b] = current
    BY <1>7, <2>1, <2>4, Positions
  <2> QED  BY <2>2, <2>3, <2>4
<1>12. SearchInv'
  BY <1>1, <1>2, <1>6, <1>10, <1>11 DEF SearchInv
<1>13. ForksAhead'
  BY <1>2 DEF SearchedInv, ForksAhead
<1> QED  BY <1>8, <1>9, <1>12, <1>13 DEF SearchedInv

(* What is remembered comes before what is ahead.                          *)
LEMMA FirstIsLowest ==
    ASSUME Typed, SearchedInv, pc \in Walk, unresolved # << >>
    PROVE  /\ FirstUnresolved(unresolved) = unresolved[1]
           /\ unresolved[1] \in Nat \ {0}
           /\ unresolved[1] < current /\ unresolved[1] >= Floor
           /\ \A i \in 1..Len(unresolved) : unresolved[i] >= unresolved[1]
<1>1. FirstUnresolved(unresolved) = unresolved[1]
  BY DEF FirstUnresolved
<1>2. 1 \in 1..Len(unresolved)
  BY DEF Typed, WalkInv
<1>3. \A i \in 1..Len(unresolved) :
         /\ unresolved[i] < current /\ unresolved[i] >= Floor
         /\ \A j \in 1..Len(unresolved) : j < i => unresolved[j] < unresolved[i]
  BY DEF SearchedInv, PositionInv
<1>4. ASSUME NEW i \in 1..Len(unresolved) PROVE unresolved[i] >= unresolved[1]
  <2>1. i = 1 \/ 1 < i
    BY <1>2
  <2>2. unresolved[i] \in Nat /\ unresolved[1] \in Nat
    BY <1>2, Positions
  <2> QED  BY <1>2, <1>3, <2>1, <2>2
<1> QED  BY <1>1, <1>2, <1>3, <1>4, Positions

(* The position to save when the heights below current are settled.        *)
LEMMA NothingBefore ==
    ASSUME Typed, SearchedInv, pc \in {"check", "save"}, current <= count,
           NEW p \in Nat, p <= current, p <= count - 1,
           unresolved # << >> => p = unresolved[1]
    PROVE  \A b \in Bad : HeightOf[b] >= p
<1> SUFFICES ASSUME NEW b \in Bad PROVE HeightOf[b] >= p
  OBVIOUS
<1>1. HeightOf[b] \in Nat /\ count \in Nat /\ current \in Nat
  BY Positions, Bounds
<1>2. CASE HeightOf[b] >= count - 1
  BY <1>1, <1>2
<1>3. CASE HeightOf[b] < count - 1
  <2>1. b \in Old
    BY <1>3 DEF Old
  <2>2. \/ \E i \in 1..Len(unresolved) : HeightOf[b] = unresolved[i]
        \/ HeightOf[b] > current
        \/ HeightOf[b] = current
    BY <2>1 DEF SearchedInv, SearchInv, Walk
  <2>3. CASE \E i \in 1..Len(unresolved) : HeightOf[b] = unresolved[i]
    <3>1. PICK i \in 1..Len(unresolved) : HeightOf[b] = unresolved[i]
      BY <2>3
    <3>2. unresolved # << >>
      BY <3>1
    <3> QED  BY <3>1, <3>2, FirstIsLowest DEF Walk
  <2>4. CASE HeightOf[b] > current \/ HeightOf[b] = current
    BY <1>1, <2>4
  <2> QED  BY <2>2, <2>3, <2>4
<1> QED  BY <1>1, <1>2, <1>3

LEMMA FinishSearched == ASSUME Typed, SearchedInv, Finish PROVE SearchedInv'
<1>1. /\ pc = "check" /\ (stopSync \/ current >= count)
      /\ orphanIndex' = current - 1
      /\ orphanCurrent' = FirstUnresolved(unresolved)
      /\ Forget /\ UNCHANGED <<txes, failed, best, faults>>
  BY DEF Finish, chain, history
<1>2. /\ count <= HeightOf[best] /\ count >= MaxFaults + 2
      /\ current <= count /\ current >= Floor
  BY <1>1 DEF SearchedInv, SavedInv, PositionInv, Walk
<1>3. current - 1 >= MaxFaults + 1 - faults /\ current - 1 \in Nat
  <2>1. CASE stopSync
    BY <1>2, <2>1, Positions, Bounds DEF Floor
  <2>2. CASE current >= count
    BY <1>2, <2>2, Positions, Bounds
  <2> QED  BY <1>1, <2>1, <2>2
<1>4. /\ orphanCurrent' # 0 => orphanCurrent' >= MaxFaults + 1 - faults
      /\ Resume' \in Nat /\ Resume' <= current - 1
      /\ unresolved # << >> => Resume' = unresolved[1]
  <2>1. CASE unresolved = << >>
    <3>1. orphanCurrent' = 0 /\ Resume' = current - 1
      BY <1>1, <2>1 DEF FirstUnresolved, Resume
    <3> QED  BY <1>3, <2>1, <3>1
  <2>2. CASE unresolved # << >>
    <3>1. /\ orphanCurrent' = unresolved[1] /\ unresolved[1] \in Nat \ {0}
          /\ unresolved[1] < current /\ unresolved[1] >= Floor
      BY <1>1, <2>2, FirstIsLowest DEF Walk
    <3>2. Resume' = unresolved[1]
      BY <3>1 DEF Resume
    <3> QED  BY <3>1, <3>2, Positions, Bounds DEF Floor
  <2> QED  BY <2>1, <2>2
<1>5. \A b \in Bad : HeightOf[b] >= Resume'
  <2>1. Resume' <= current /\ Resume' <= count - 1
    BY <1>2, <1>4, Positions
  <2> QED  BY <1>1, <1>2, <1>4, <2>1, NothingBefore
<1>6. Resume' <= HeightOf[best] - 1
  BY <1>2, <1>4, Positions
<1> QED  BY <1>1, <1>3, <1>4, <1>5, <1>6, ForgetSearched DEF SearchedInv

-----------------------------------------------------------------------------
(* Where the dropped blocks of before are while a height is repaired.      *)
Located ==
    /\ good # NoBlock => good \in OnChain \/ HeightOf[good] >= count - 1
    /\ \A b \in Old :
          \/ \E i \in 1..Len(unresolved) : HeightOf[b] = unresolved[i]
          \/ HeightOf[b] > current
          \/ b \in forked
          \/ b = orphan /\ pc \in {"delete", "readd"}

(* A step of a repair stays at its height; a fault lowers the floor.       *)
LEMMA RepairSearched ==
    ASSUME Typed, SearchedInv, pc \in {"orphan", "delete", "readd"},
           pc' \in Walk, faults' \in {faults, faults + 1},
           UNCHANGED <<best, orphanIndex, orphanCurrent, count, current, unresolved,
                       good, stopSync>>,
           Bad' \subseteq Bad
    PROVE  /\ SavedInv' /\ PositionInv' /\ ForksAhead'
           /\ Old' \subseteq Old /\ OnChain' = OnChain /\ Located
<1>1. pc \in Walk /\ pc' \notin {"idle", "index"} /\ pc # "check" /\ pc # "good"
  BY DEF Walk
<1>2. Resume' = Resume
  BY DEF Resume
<1>3. SavedInv'
  BY <1>1, <1>2 DEF SearchedInv, SavedInv, Walk
<1>4. Floor' <= Floor /\ Floor' \in Int
  BY Positions, Bounds DEF Floor
<1>5. /\ current <= count /\ current < count /\ current >= Floor
      /\ \A i \in 1..Len(unresolved) :
            /\ unresolved[i] < current /\ unresolved[i] >= Floor
            /\ \A j \in 1..Len(unresolved) : j < i => unresolved[j] < unresolved[i]
      /\ orphanIndex >= Floor - 1
      /\ orphanCurrent # 0 => orphanCurrent >= Floor - 1
  BY <1>1 DEF SearchedInv, PositionInv
<1>6. PositionInv'
  <2>1. /\ current >= Floor' /\ orphanIndex >= Floor' - 1
        /\ orphanCurrent # 0 => orphanCurrent >= Floor' - 1
    BY <1>4, <1>5, Positions
  <2>2. \A i \in 1..Len(unresolved) : unresolved[i] >= Floor'
    BY <1>4, <1>5, Positions
  <2> QED  BY <1>5, <2>1, <2>2 DEF PositionInv
<1>7. ForksAhead'
  BY <1>2 DEF SearchedInv, ForksAhead
<1>8. Old' \subseteq Old /\ OnChain' = OnChain
  BY DEF Old, OnChain
<1>9. Located
  BY <1>1 DEF SearchedInv, SearchInv, Located
<1> QED  BY <1>3, <1>6, <1>7, <1>8, <1>9

LEMMA CreateSearched ==
    ASSUME Typed, SearchedInv, NEW b \in Blocks \cup {NoBlock}, CreateOrphan(b)
    PROVE  SearchedInv'
<1>1. /\ pc = "orphan" /\ pc' = "delete" /\ b \in forked
      /\ forked' = forked \ {b} /\ orphan' = b
      /\ UNCHANGED <<txes, best, orphanIndex, orphanCurrent, count, current,
                     unresolved, good, stopSync>>
      /\ faults' \in {faults, faults + 1} /\ failed \subseteq failed'
      /\ \/ b \in failed' \cup {NoBlock}
         \/ \A t \in Txs : txes[t] = b => t \in txids'
  BY DEF CreateOrphan, chain
<1>2. Bad' \subseteq Bad
  <2>1. IndexedIn(txes') = IndexedIn(txes)
    BY <1>1
  <2> QED  BY <1>1, <2>1, BadKept
<1>3. pc' \in Walk
  BY <1>1 DEF Walk
<1>4. /\ SavedInv' /\ PositionInv' /\ ForksAhead'
      /\ Old' \subseteq Old /\ OnChain' = OnChain /\ Located
  BY <1>1, <1>2, <1>3, RepairSearched
<1>5. SearchInv'
  BY <1>1, <1>4 DEF SearchInv, Located
<1> QED  BY <1>4, <1>5 DEF SearchedInv

LEMMA DeleteSearched ==
    ASSUME Typed, SearchedInv, NEW t \in Txs, DeleteTx(t)
    PROVE  SearchedInv'
<1>1. /\ pc = "delete" /\ pc' = "readd"
      /\ txids' = txids \ {t} /\ txes' = [txes EXCEPT ![t] = NoBlock]
      /\ UNCHANGED <<best, orphanIndex, orphanCurrent, count, current, unresolved, good,
                     forked, orphan, stopSync, faults, failed>>
  BY DEF DeleteTx, chain, history
<1>2. \A u \in Txs : txes'[u] = IF u = t THEN NoBlock ELSE txes[u]
  BY <1>1 DEF Typed, TypeOK
<1>3. Bad' \subseteq Bad
  <2>1. IndexedIn(txes') \subseteq IndexedIn(txes) \cup OnChain
    BY <1>2 DEF IndexedIn
  <2> QED  BY <1>1, <2>1, BadKept
<1>4. pc' \in Walk
  BY <1>1 DEF Walk
<1>5. /\ SavedInv' /\ PositionInv' /\ ForksAhead'
      /\ Old' \subseteq Old /\ OnChain' = OnChain /\ Located
  BY <1>1, <1>3, <1>4, RepairSearched
<1>6. \/ orphan \in failed \cup {NoBlock}
      \/ \A u \in Txs : txes'[u] = orphan => u \in txids'
  <2>1. \/ orphan \in failed \cup {NoBlock}
        \/ \A u \in Txs : txes[u] = orphan => u \in txids
    BY <1>1 DEF SearchedInv, SearchInv, Walk
  <2> QED  BY <1>1, <1>2, <2>1
<1>7. SearchInv'
  BY <1>1, <1>5, <1>6 DEF SearchInv, Located
<1> QED  BY <1>5, <1>7 DEF SearchedInv

LEMMA ReaddSearched == ASSUME Typed, SearchedInv, ReaddTx PROVE SearchedInv'
<1>1. /\ pc = "readd" /\ pc' = "delete" /\ faults' \in {faults, faults + 1}
      /\ UNCHANGED <<best, orphanIndex, orphanCurrent, count, current, unresolved, good,
                     forked, orphan, txids, stopSync, failed>>
  BY DEF ReaddTx, chain
<1>2. \A u \in Txs : txes'[u] = txes[u] \/ txes'[u] \in OnChain \ {orphan}
  <2> DEFINE homes == { b \in OnChain \ {orphan} : tx \subseteq TxsOf[b] }
  <2>1. CASE UNCHANGED txes
    BY <2>1
  <2>2. CASE txes' = [t \in Txs |-> IF t \in tx /\ homes # {}
                                    THEN CHOOSE b \in homes : TRUE ELSE txes[t]]
    <3>1. homes # {} => (CHOOSE b \in homes : TRUE) \in OnChain \ {orphan}
      OBVIOUS
    <3> QED  BY <2>2, <3>1
  <2> QED  BY <2>1, <2>2 DEF ReaddTx
<1>3. Bad' \subseteq Bad
  <2>1. IndexedIn(txes') \subseteq IndexedIn(txes) \cup OnChain
    BY <1>2 DEF IndexedIn
  <2> QED  BY <1>1, <2>1, BadKept
<1>4. pc' \in Walk
  BY <1>1 DEF Walk
<1>5. /\ SavedInv' /\ PositionInv' /\ ForksAhead'
      /\ Old' \subseteq Old /\ OnChain' = OnChain /\ Located
  BY <1>1, <1>3, <1>4, RepairSearched
<1>6. \/ orphan \in failed \cup {NoBlock}
      \/ \A u \in Txs : txes'[u] = orphan => u \in txids
  <2>1. \/ orphan \in failed \cup {NoBlock}
        \/ \A u \in Txs : txes[u] = orphan => u \in txids
    BY <1>1 DEF SearchedInv, SearchInv, Walk
  <2> QED  BY <1>2, <2>1
<1>7. SearchInv'
  BY <1>1, <1>5, <1>6 DEF SearchInv, Located
<1> QED  BY <1>5, <1>7 DEF SearchedInv

(* The repaired block has gone from the index, or a query failed for it.   *)
LEMMA DoneSearched == ASSUME Typed, SearchedInv, OrphanDone PROVE SearchedInv'
<1>1. /\ pc = "delete" /\ pc' = "orphan" /\ txids = {}
      /\ UNCHANGED <<txes, best, orphanIndex, orphanCurrent, count, current, unresolved,
                     good, forked, stopSync, faults, failed>>
  BY DEF OrphanDone, mongo, chain, history
<1>2. Bad' \subseteq Bad
  BY <1>1, BadSame
<1>3. pc' \in Walk
  BY <1>1 DEF Walk
<1>4. /\ SavedInv' /\ PositionInv' /\ ForksAhead'
      /\ Old' \subseteq Old /\ OnChain' = OnChain /\ Located
  BY <1>1, <1>2, <1>3, RepairSearched
<1>5. orphan \notin Bad
  <2>1. \/ orphan \in failed \cup {NoBlock}
        \/ \A u \in Txs : txes[u] # orphan
    BY <1>1 DEF SearchedInv, SearchInv, Walk
  <2> QED  BY <2>1 DEF Bad, Stale, IndexedIn
<1>6. SearchInv'
  BY <1>1, <1>4, <1>5 DEF SearchInv, Old, Located
<1> QED  BY <1>4, <1>6 DEF SearchedInv

LEMMA AddSearched == ASSUME Typed, SearchedInv, AddMissing PROVE SearchedInv'
<1>1. /\ pc = "orphan" /\ pc' \in {"save", "check"} /\ forked = {}
      /\ txes' \in {txes, WithBlock(ChainAt(current))}
      /\ faults' \in {faults, faults + 1}
      /\ UNCHANGED <<best, orphanIndex, orphanCurrent, count, current, unresolved, good,
                     forked, stopSync, failed>>
  BY DEF AddMissing, chain, repair
<1>2. Bad' \subseteq Bad
  <2>1. IndexedIn(txes') \subseteq IndexedIn(txes) \cup OnChain
    BY <1>1, FillsFromChain DEF Typed
  <2> QED  BY <1>1, <2>1, BadKept
<1>3. pc' \in Walk
  BY <1>1 DEF Walk
<1>4. /\ SavedInv' /\ PositionInv' /\ ForksAhead'
      /\ Old' \subseteq Old /\ OnChain' = OnChain /\ Located
  BY <1>1, <1>2, <1>3, RepairSearched
<1>5. SearchInv'
  BY <1>1, <1>4 DEF SearchInv, Located
<1> QED  BY <1>4, <1>5 DEF SearchedInv

(* Back at the head of the loop, with the height repaired.                 *)
LEMMA SaveSearched ==
    ASSUME Typed, Typed', SearchedInv, SaveRepair
    PROVE  SearchedInv'
<1>1. /\ pc = "save" /\ pc' = "check" /\ current' = current + 1 /\ good' = NoBlock
      /\ faults' \in {faults, faults + 1}
      /\ UNCHANGED <<txes, best, count, unresolved, stopSync, failed>>
      /\ \/ UNCHANGED <<orphanIndex, orphanCurrent>>
         \/ orphanIndex' = current /\ orphanCurrent' = FirstUnresolved(unresolved)
  BY DEF SaveRepair, chain
<1>2. Bad' = Bad /\ Old' = Old
  BY <1>1, BadSame
<1>3. /\ count <= HeightOf[best] /\ count >= MaxFaults + 2
      /\ HeightOf[best] >= MaxFaults + 2 /\ Resume <= count - 1
      /\ current <= count /\ current < count /\ current >= Floor
      /\ \A i \in 1..Len(unresolved) :
            /\ unresolved[i] < current /\ unresolved[i] >= Floor
            /\ \A j \in 1..Len(unresolved) : j < i => unresolved[j] < unresolved[i]
      /\ orphanIndex >= Floor - 1
      /\ orphanCurrent # 0 => orphanCurrent >= Floor - 1
  BY <1>1 DEF SearchedInv, SavedInv, PositionInv, Walk
<1>4. Floor' <= Floor /\ Floor' \in Int
  BY <1>1, Positions, Bounds DEF Floor
<1>5. Resume' \in Nat
  BY DEF Typed, TypeOK, Resume
<1>6. /\ Resume' <= count - 1
      /\ \A b \in Bad : HeightOf[b] >= Resume'
      /\ orphanIndex' >= Floor' - 1
      /\ orphanCurrent' # 0 => orphanCurrent' >= Floor' - 1
  <2>1. CASE UNCHANGED <<orphanIndex, orphanCurrent>>
    <3>1. Resume' = Resume
      BY <2>1 DEF Resume
    <3>2. /\ orphanIndex' >= Floor' - 1
          /\ orphanCurrent' # 0 => orphanCurrent' >= Floor' - 1
      BY <1>3, <1>4, <2>1, Positions
    <3> QED  BY <1>3, <3>1, <3>2 DEF SearchedInv, ForksAhead
  <2>2. CASE orphanIndex' = current /\ orphanCurrent' = FirstUnresolved(unresolved)
    <3>1. CASE unresolved = << >>
      <4>1. orphanCurrent' = 0 /\ Resume' = current
        BY <2>2, <3>1 DEF FirstUnresolved, Resume
      <4>2. Resume' <= current /\ Resume' <= count - 1
        BY <1>3, <4>1, Positions
      <4>3. \A b \in Bad : HeightOf[b] >= Resume'
        BY <1>1, <1>3, <1>5, <3>1, <4>2, NothingBefore
      <4>4. orphanIndex' >= Floor' - 1
        BY <1>3, <1>4, <2>2, Positions
      <4> QED  BY <4>1, <4>2, <4>3, <4>4
    <3>2. CASE unresolved # << >>
      <4>1. /\ orphanCurrent' = unresolved[1] /\ unresolved[1] \in Nat \ {0}
            /\ unresolved[1] < current /\ unresolved[1] >= Floor
        BY <1>1, <2>2, <3>2, FirstIsLowest DEF Walk
      <4>2. Resume' = unresolved[1]
        BY <4>1 DEF Resume
      <4>3. Resume' <= current /\ Resume' <= count - 1
        BY <1>3, <4>1, <4>2, Positions
      <4>4. \A b \in Bad : HeightOf[b] >= Resume'
        BY <1>1, <1>3, <1>5, <4>2, <4>3, NothingBefore
      <4>5. orphanIndex' >= Floor' - 1 /\ orphanCurrent' >= Floor' - 1
        BY <1>3, <1>4, <2>2, <4>1, Positions
      <4> QED  BY <4>3, <4>4, <4>5
    <3> QED  BY <3>1, <3>2
  <2> QED  BY <1>1, <2>1, <2>2
<1>7. SavedInv'
  <2>1. Resume' <= HeightOf[best] - 1
    BY <1>3, <1>5, <1>6, Positions
  <2> QED  BY <1>1, <1>3, <1>6, <2>1 DEF SavedInv
<1>8. PositionInv'
  <2>1. current' <= count /\ current' >= Floor'
    BY <1>1, <1>3, <1>4, Positions
  <2>2. \A i \in 1..Len(unresolved) :
           unresolved[i] < current' /\ unresolved[i] >= Floor'
    BY <1>1, <1>3, <1>4, Positions
  <2> QED  BY <1>1, <1>3, <1>6, <2>1, <2>2 DEF PositionInv
<1>9. SearchInv'
  <2>1. ASSUME NEW b \in Old
        PROVE  \/ \E i \in 1..Len(unresolved) : HeightOf[b] = unresolved[i]
               \/ HeightOf[b] > current'
               \/ HeightOf[b] = current'
    <3>1. \/ \E i \in 1..Len(unresolved) : HeightOf[b] = unresolved[i]
          \/ HeightOf[b] > current
      BY <1>1 DEF SearchedInv, SearchInv, Walk
    <3>2. HeightOf[b] \in Nat /\ current \in Nat
      BY Positions, Bounds DEF Old
    <3>3. HeightOf[b] > current => HeightOf[b] > current' \/ HeightOf[b] = current'
      BY <1>1, <3>2
    <3> QED  BY <3>1, <3>3
  <2> QED  BY <1>1, <1>2, <2>1 DEF SearchInv
<1>10. ForksAhead'
  BY <1>2, <1>6 DEF ForksAhead
<1> QED  BY <1>7, <1>8, <1>9, <1>10 DEF SearchedInv

(* A signal pays with a fault for the height it may make the run lose.     *)
LEMMA StopSearched == ASSUME Typed, SearchedInv, Stop PROVE SearchedInv'
<1>1. /\ pc # "idle" /\ ~stopSync /\ stopSync' /\ faults' = faults + 1
      /\ UNCHANGED <<txes, best, orphanIndex, orphanCurrent, pc, count, current,
                     unresolved, good, forked, orphan, txids, failed>>
  BY DEF Stop, mongo, chain, repair
<1>2. Bad' = Bad /\ Old' = Old /\ OnChain' = OnChain /\ Resume' = Resume
  BY <1>1, BadSame DEF OnChain, Resume
<1>3. Floor' = Floor
  BY <1>1, Positions, Bounds DEF Floor
<1>4. SavedInv'
  BY <1>1, <1>2, Positions, Bounds DEF SearchedInv, SavedInv
<1>5. PositionInv'
  BY <1>1, <1>3 DEF SearchedInv, PositionInv
<1>6. SearchInv'
  BY <1>1, <1>2 DEF SearchedInv, SearchInv
<1>7. ForksAhead'
  BY <1>2 DEF SearchedInv, ForksAhead
<1> QED  BY <1>4, <1>5, <1>6, <1>7 DEF SearchedInv

(* What the chain drops is above where any run takes its search up.        *)
LEMMA ChainMoved ==
    ASSUME Typed, SearchedInv, UNCHANGED <<mongo, run, history>>,
           best' \in Blocks, HeightOf[best'] >= HeightOf[best],
           \A a \in OnChain \ OnChain' : HeightOf[a] >= HeightOf[best] - 1
    PROVE  SearchedInv'
<1>1. UNCHANGED <<txes, orphanIndex, orphanCurrent, pc, count, current, unresolved,
                  good, forked, orphan, txids, stopSync, faults, failed>>
  BY DEF mongo, run, repair, history
<1>2. Resume' = Resume /\ Floor' = Floor
  BY <1>1 DEF Resume, Floor
<1>3. HeightOf[best'] \in Nat
  BY Bounds
<1>4. SavedInv'
  <2>1. /\ HeightOf[best'] >= MaxFaults + 2 /\ Resume <= HeightOf[best'] - 1
    BY <1>3, Positions, Bounds DEF SearchedInv, SavedInv
  <2>2. pc # "idle" => count <= HeightOf[best']
    BY <1>3, Positions, Bounds DEF SearchedInv, SavedInv
  <2> QED  BY <1>1, <1>2, <2>1, <2>2 DEF SearchedInv, SavedInv
<1>5. PositionInv'
  BY <1>1, <1>2 DEF SearchedInv, PositionInv
<1>6. \A b \in Bad' : b \in Bad \/ HeightOf[b] >= HeightOf[best] - 1
  <2>1. IndexedIn(txes') = IndexedIn(txes)
    BY <1>1
  <2> QED  BY <1>1, <2>1 DEF Bad, Stale
<1>7. ForksAhead'
  <2>1. Resume <= HeightOf[best] - 1
    BY DEF SearchedInv, SavedInv
  <2>2. \A b \in Bad : HeightOf[b] >= Resume
    BY DEF SearchedInv, ForksAhead
  <2>3. \A b \in Bad' : b \in Blocks
    BY <1>1 DEF Bad, Stale, IndexedIn, Typed, TypeOK
  <2>4. \A b \in Bad' : HeightOf[b] >= Resume
    BY <1>6, <2>1, <2>2, <2>3, Positions, Bounds
  <2> QED  BY <1>2, <2>4 DEF ForksAhead
<1>8. SearchInv'
  <2> SUFFICES ASSUME pc \in Walk PROVE SearchInv'
    BY <1>1 DEF SearchInv
  <2>1. count <= HeightOf[best]
    BY DEF Walk, SearchedInv, SavedInv
  <2>2. Old' \subseteq Old
    <3> SUFFICES ASSUME NEW b \in Old' PROVE b \in Old
      OBVIOUS
    <3>1. b \in Bad' /\ HeightOf[b] < count - 1 /\ b \in Blocks
      BY <1>1 DEF Old, Bad, Stale, IndexedIn, Typed, TypeOK
    <3>2. ~(HeightOf[b] >= HeightOf[best] - 1)
      BY <2>1, <3>1, Positions, Bounds
    <3> QED  BY <1>6, <3>1, <3>2 DEF Old
  <2>3. good # NoBlock => good \in OnChain' \/ HeightOf[good] >= count - 1
    <3>1. good # NoBlock => good \in OnChain \/ HeightOf[good] >= count - 1
      BY DEF SearchedInv, SearchInv
    <3>2. ASSUME good \in OnChain, good \notin OnChain'
          PROVE  HeightOf[good] >= count - 1
      <4>1. HeightOf[good] >= HeightOf[best] - 1 /\ HeightOf[good] \in Nat
        BY <3>2, Positions, Bounds
      <4> QED  BY <2>1, <4>1, Positions
    <3> QED  BY <3>1, <3>2
  <2> QED  BY <1>1, <2>2, <2>3 DEF SearchedInv, SearchInv
<1> QED  BY <1>4, <1>5, <1>7, <1>8 DEF SearchedInv

LEMMA ExtendSearched == ASSUME Typed, SearchedInv, Extend PROVE SearchedInv'
<1>1. PICK b \in Blocks : best = PrevOf(b) /\ best' = b
  BY DEF Extend
<1>2. best \in Ancestors[b]
  <2>1. best # NoBlock
    BY Positions, OrphanSyncAssumption
  <2> QED  BY <1>1, <2>1 DEF PrevOf
<1>3. OnChain \subseteq OnChain' /\ HeightOf[best] <= HeightOf[best']
  <2>1. b \in Ancestors[b]
    BY OrphanSyncAssumption
  <2> QED  BY <1>1, <1>2, <2>1, OrphanSyncAssumption DEF OnChain
<1>4. UNCHANGED <<mongo, run, history>>
  BY DEF Extend
<1>5. HeightOf[best'] >= HeightOf[best]
  BY <1>1, <1>3, Positions, Bounds
<1>6. \A a \in OnChain \ OnChain' : HeightOf[a] >= HeightOf[best] - 1
  BY <1>3
<1> QED  BY <1>1, <1>4, <1>5, <1>6, ChainMoved

LEMMA ReorgSearched ==
    ASSUME ShallowReorgs, Typed, SearchedInv, Reorg
    PROVE  SearchedInv'
<1>1. PICK b \in Blocks :
          /\ HeightOf[b] > HeightOf[best]
          /\ \A a \in OnChain \ Ancestors[b] : HeightOf[best] - HeightOf[a] < MaxDepth
          /\ best' = b
  BY DEF Reorg
<1>2. UNCHANGED <<mongo, run, history>>
  BY DEF Reorg
<1>3. best' \in Blocks /\ HeightOf[best'] >= HeightOf[best]
  BY <1>1, Positions, Bounds
<1>4. ASSUME NEW a \in OnChain \ OnChain' PROVE HeightOf[a] >= HeightOf[best] - 1
  <2>1. HeightOf[best] - HeightOf[a] < MaxDepth
    BY <1>1 DEF OnChain
  <2>2. HeightOf[a] \in Nat
    BY Positions, Bounds
  <2> QED  BY <2>1, <2>2, Positions, Bounds DEF ShallowReorgs
<1> QED  BY <1>2, <1>3, <1>4, ChainMoved

LEMMA SearchedInit == ASSUME LongChain, Init PROVE ~fromScratch => SearchedInv
<1> SUFFICES ASSUME ~fromScratch PROVE SearchedInv
  OBVIOUS
<1>1. /\ best \in Roots /\ pc = "idle" /\ unresolved = << >> /\ good = NoBlock
      /\ orphanIndex = HeightOf[best] - 1 /\ orphanCurrent = 0 /\ faults = 0
  BY DEF Init
<1>2. /\ HeightOf[best] \in Nat /\ HeightOf[best] > MaxFaults + 1
  BY <1>1, OrphanSyncAssumption DEF LongChain
<1>3. \A t \in Txs : txes[t] \in OnChain \cup {NoBlock}
  BY DEF Init
<1>4. Bad = {}
  BY <1>3 DEF Bad, Stale, IndexedIn
<1>5. SavedInv
  BY <1>1, <1>2, Bounds DEF SavedInv, Resume
<1> QED  BY <1>1, <1>4, <1>5 DEF SearchedInv, PositionInv, SearchInv, ForksAhead, Walk

LEMMA SearchedNext ==
    ASSUME ShallowReorgs, Typed, Typed', SearchedInv, [Next]_vars
    PROVE  SearchedInv'
<1>1. CASE StopIndexing \/ Abort \/ Crash
  BY <1>1, EndSearched
<1>2. CASE \E b \in Blocks \cup {NoBlock} : CreateOrphan(b)
  BY <1>2, CreateSearched
<1>3. CASE \E t \in Txs : DeleteTx(t)
  BY <1>3, DeleteSearched
<1>4. CASE UNCHANGED vars
  <2>1. UNCHANGED <<mongo, run, history>> /\ best' = best
    BY <1>4 DEF vars, chain
  <2>2. best' \in Blocks /\ HeightOf[best'] >= HeightOf[best] /\ OnChain' = OnChain
    BY <2>1, Positions DEF OnChain
  <2> QED  BY <2>1, <2>2, ChainMoved
<1> QED
  BY <1>1, <1>2, <1>3, <1>4, StartSearched, IndexSearched, FindSearched, CheckSearched,
     GoodSearched, FinishSearched, ReaddSearched, DoneSearched, AddSearched,
     SaveSearched, StopSearched, ExtendSearched, ReorgSearched
     DEF Next, SyncStep

(* Wherever a run ends, what the chain has dropped is not behind the point *)
(* where the next run takes its search up: for every tree of blocks, every *)
(* save interval and any number of faults and reorganisations, under the   *)
(* two conditions.                                                         *)
THEOREM NothingLeftBehind ==
    ASSUME ShallowReorgs, LongChain
    PROVE  Spec => []NoForkLeftBehind
<1> DEFINE Inv == TypeOK /\ WalkInv /\ (~fromScratch => SearchedInv)
<1>1. Init => Inv
  BY InitType, SearchedInit DEF Typed
<1>2. Inv /\ [Next]_vars => Inv'
  <2> SUFFICES ASSUME Inv, [Next]_vars PROVE Inv'
    OBVIOUS
  <2>1. TypeOK' /\ WalkInv'
    BY NextType
  <2>2. fromScratch' = fromScratch
    BY DEF Next, SyncStep, Start, IndexBlock, StopIndexing, FindEarliest, CheckHeight,
           FindGood, Finish, CreateOrphan, DeleteTx, ReaddTx, OrphanDone, AddMissing,
           SaveRepair, Abort, Stop, Crash, Extend, Reorg, vars, history
  <2>3. ~fromScratch => SearchedInv'
    BY <2>1, SearchedNext DEF Typed
  <2> QED  BY <2>1, <2>2, <2>3
<1>3. Inv => NoForkLeftBehind
  BY DEF SearchedInv, ForksAhead, Bad, NoForkLeftBehind
<1> QED  BY <1>1, <1>2, <1>3, PTL DEF Spec

=============================================================================
