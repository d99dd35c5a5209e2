------------------------------ MODULE OrphanSync ------------------------------
(***************************************************************************)
(* "sync.js index update" of the explorer, patches/eiquidus/scripts/       *)
(* sync.js: systemd starts it again 30 seconds after every end.  A run     *)
(* indexes the blocks from the last indexed one to the tip, then walks     *)
(* from where the previous run left off and repairs the heights whose      *)
(* transactions belong to blocks the chain has dropped (update_orphans).   *)
(*                                                                         *)
(* An action is what happens between two calls of the wallet or MongoDB    *)
(* the order of which matters; the chain grows and reorganises between any *)
(* two, and the process may be stopped or end there.  Only one run is      *)
(* under way at a time: its lock is external.  A block is its hash;        *)
(* block_sync.js is external, and is modelled by what the calls are for.   *)
(***************************************************************************)
EXTENDS Integers, Sequences

CONSTANTS
    Blocks,
    HeightOf,
    Base,         \* bound: the height the tree of blocks begins at
    Ancestors,    \* the chain that ends in a block, itself included
    TxsOf,        \* the transactions of a block
    Roots,        \* the chain the explorer has indexed when it starts, a tip
    NoBlock,
    SaveEvery,    \* settings.sync.save_stats_after_sync_blocks
    MaxDepth,     \* bound: how many blocks a reorganisation drops
    MaxReorgs,    \* bound: how often the chain reorganises
    LastFork,     \* bound: the highest block that is ever dropped
    MaxFaults,    \* bound: how often something goes wrong
    Faults        \* a subset of {"crash", "stop", "rpc_error", "query_error"}

Txs == UNION { TxsOf[b] : b \in Blocks }

ASSUME OrphanSyncAssumption ==
    /\ HeightOf \in [Blocks -> Nat]
    /\ Base \in Nat \ {0}
    /\ Ancestors \in [Blocks -> SUBSET Blocks]
    /\ \A b \in Blocks : b \in Ancestors[b] /\ Base <= HeightOf[b]
    /\ \A b \in Blocks : \A a, c \in Ancestors[b] :
          /\ Ancestors[a] \subseteq Ancestors[b]
          /\ HeightOf[a] <= HeightOf[b]
          /\ HeightOf[a] = HeightOf[c] => a = c
          /\ TxsOf[a] \cap TxsOf[c] # {} => a = c
    /\ DOMAIN TxsOf = Blocks
    /\ Roots \subseteq Blocks
    /\ NoBlock \notin Blocks
    /\ SaveEvery \in Nat \ {0}
    /\ {MaxDepth, MaxReorgs, LastFork, MaxFaults} \subseteq Nat
    /\ Faults \subseteq {"crash", "stop", "rpc_error", "query_error"}

VARIABLES
    \* MongoDB
    txes,           \* the block of each transaction in the txes collection
    orphans,        \* the orphan_blockhash values of the orphans collection
    last,           \* stats.last
    orphanIndex,    \* stats.orphan_index
    orphanCurrent,  \* stats.orphan_current
    \* the wallet
    best,           \* the tip of the best chain
    reorgs,
    \* the run
    pc,             \* "idle", "index", "check", "good", "orphan", "delete",
                    \* "readd", "save"
    count,          \* last_blockindex: the height the run goes to
    current,        \* current_block
    unresolved,     \* unresolved_forks
    good,           \* correct_block_data.prev_hash
    forked,         \* the block hashes of current_block still to be resolved
    orphan,         \* the one being resolved
    txids,          \* its transactions still to be deleted
    tx,             \* the one just deleted
    stopSync,
    \* history, read by no action but for the bound on faults
    faults,
    indexed,        \* the blocks that were ever in txes
    fromScratch,    \* the explorer started with an empty database
    torn,           \* a repair ended halfway
    failed          \* the blocks a query failed for while they were repaired

mongo   == <<txes, orphans, last, orphanIndex, orphanCurrent>>
chain   == <<best, reorgs>>
repair  == <<forked, orphan, txids, tx>>
run     == <<pc, count, current, unresolved, good, repair, stopSync>>
history == <<faults, indexed, fromScratch, torn, failed>>
vars    == <<mongo, chain, run, history>>

-----------------------------------------------------------------------------
OnChain == Ancestors[best]

(* getblockhash *)
ChainAt(h) ==
    IF \E b \in OnChain : HeightOf[b] = h
    THEN CHOOSE b \in OnChain : HeightOf[b] = h ELSE NoBlock

(* The previousblockhash of a block. *)
PrevOf(b) ==
    IF \E a \in Ancestors[b] : HeightOf[a] = HeightOf[b] - 1
    THEN CHOOSE a \in Ancestors[b] : HeightOf[a] = HeightOf[b] - 1 ELSE NoBlock

IndexedIn(db) == { db[t] : t \in Txs } \ {NoBlock}

(* Mutant: a height that has the good block has no fork. *)
BestHashesAt(h) ==
    LET all == { b \in IndexedIn(txes) : HeightOf[b] = h }
    IN  IF all \cap OnChain = {} THEN all ELSE all \cap OnChain

(* The block hashes of the transactions at a height. *)
HashesAt(h) == { b \in IndexedIn(txes) : HeightOf[b] = h }

(* Mutant: a block of which a transaction is there is taken for indexed. *)
WithNewBlock(b) ==
    [t \in Txs |-> IF b # NoBlock /\ t \in TxsOf[b] /\ \A u \in TxsOf[b] : txes[u] = NoBlock
                   THEN b ELSE txes[t]]

(* update_tx_db for one height: what is missing of its block is added. *)
WithBlock(b) ==
    [t \in Txs |-> IF b # NoBlock /\ txes[t] = NoBlock /\ t \in TxsOf[b]
                   THEN b ELSE txes[t]]

(* Mutant: the forks still unresolved are not saved. *)
NothingUnresolved(forks) == 0

(* unresolved_forks.length == 0 ? 0 : unresolved_forks[0] *)
FirstUnresolved(forks) == IF forks = << >> THEN 0 ELSE forks[1]

Fails(kind) == kind \in Faults /\ faults < MaxFaults

(* The run is over and its variables are gone. *)
Forget ==
    /\ pc' = "idle"
    /\ count' = 0 /\ current' = 0
    /\ unresolved' = << >>
    /\ good' = NoBlock
    /\ forked' = {} /\ orphan' = NoBlock
    /\ txids' = {} /\ tx' = {}
    /\ stopSync' = FALSE

Init ==
    /\ best \in Roots
    /\ reorgs = 0
    /\ fromScratch \in BOOLEAN
    /\ txes = [t \in Txs |->
          IF ~fromScratch /\ \E b \in OnChain : t \in TxsOf[b]
          THEN CHOOSE b \in OnChain : t \in TxsOf[b] ELSE NoBlock]
    /\ orphans = {}
    /\ last = IF fromScratch THEN 0 ELSE HeightOf[best]
    /\ orphanIndex = IF fromScratch THEN 0 ELSE HeightOf[best] - 1
    /\ orphanCurrent = 0
    /\ pc = "idle"
    /\ count = 0 /\ current = 0
    /\ unresolved = << >>
    /\ good = NoBlock
    /\ forked = {} /\ orphan = NoBlock
    /\ txids = {} /\ tx = {}
    /\ stopSync = FALSE
    /\ faults = 0
    /\ indexed = IndexedIn(txes)
    /\ torn = FALSE
    /\ failed = {}

-----------------------------------------------------------------------------
(* db.update_db: the height of the tip; block_sync starts at stats.last.   *)
Start ==
    /\ pc = "idle"
    /\ pc' = "index"
    /\ count' = HeightOf[best]
    /\ current' = IF last < Base THEN Base ELSE last
    /\ UNCHANGED <<mongo, chain, unresolved, good, repair, stopSync, history>>

(* blkSync.update_tx_db(last, count), a block at a time: batch_size is 1.  *)
IndexBlock ==
    /\ pc = "index"
    /\ ~stopSync
    /\ current <= count
    /\ txes' = WithBlock(ChainAt(current))
    /\ indexed' = indexed \cup IndexedIn(txes')
    /\ last' = current
    /\ current' = current + 1
    /\ UNCHANGED <<orphans, orphanIndex, orphanCurrent, chain, pc, count, unresolved,
                   good, repair, stopSync, faults, fromScratch, torn, failed>>

StopIndexing ==
    /\ pc = "index"
    /\ stopSync
    /\ Forget
    /\ UNCHANGED <<mongo, chain, history>>

(* get_earliest_orphan_block: with an orphan_index of 0, the lowest height *)
(* with the transactions of two blocks, or nothing to look for.            *)
FindEarliest ==
    /\ pc = "index"
    /\ ~stopSync
    /\ current > count
    /\ LET forks == { h \in { HeightOf[b] : b \in Blocks } :
                        \E a, b \in HashesAt(h) : a # b }
       IN  IF orphanIndex # 0
           THEN UNCHANGED <<orphanIndex, orphanCurrent>>
           ELSE IF forks # {}
           THEN \E h \in forks : /\ \A k \in forks : h <= k
                                 /\ orphanCurrent' = h
                                 /\ orphanIndex' = h - 1
           ELSE /\ orphanCurrent' = 0
                /\ orphanIndex' = count
    /\ current' = IF orphanCurrent' = 0 THEN orphanIndex' ELSE orphanCurrent'
    /\ pc' = "check"
    /\ UNCHANGED <<txes, orphans, last, chain, count, unresolved, good, repair,
                   stopSync, history>>

-----------------------------------------------------------------------------
(* The head of the loop: every SaveEvery heights the position is saved.    *)
SaveProgress ==
    IF unresolved = << >> /\ current % SaveEvery = 0
    THEN orphanIndex' = current - 1 /\ orphanCurrent' = 0
    ELSE UNCHANGED <<orphanIndex, orphanCurrent>>

(* check_block_height_for_fork, with the hash the wallet gave: the hashes  *)
(* of a height with a fork; the empty set is its null.                     *)
ForkHashes(h, hash) ==
    IF HashesAt(h) \subseteq {hash} THEN {} ELSE HashesAt(h) \cup {hash}

(* check_block_height_for_fork(current_block), and what follows from it:   *)
(* go on; or, having come to a good block, return to the last fork; or     *)
(* remember a fork; or, back at it with the good hash, resolve it.         *)
CheckHeight ==
    /\ pc = "check"
    /\ ~stopSync /\ current < count
    /\ SaveProgress
    /\ \E hash \in {ChainAt(current)} \cup (IF Fails("rpc_error") THEN {NoBlock} ELSE {}) :
        /\ faults' = IF hash = ChainAt(current) THEN faults ELSE faults + 1
        /\ LET blockhashes == ForkHashes(current, hash)
               isGood == blockhashes = {}
           IN  \/ /\ isGood /\ unresolved = << >>
                  /\ current' = current + 1
                  /\ UNCHANGED <<pc, unresolved, forked>>
               \/ /\ isGood /\ unresolved # << >>
                  /\ current' = unresolved[Len(unresolved)] + 1
                  /\ pc' = "good"
                  /\ UNCHANGED <<unresolved, forked>>
               \/ /\ ~isGood /\ good = NoBlock
                  /\ unresolved' = Append(unresolved, current)
                  /\ current' = current + 1
                  /\ UNCHANGED <<pc, forked>>
               \/ /\ ~isGood /\ good # NoBlock
                  /\ forked' = blockhashes \ {good}
                  /\ pc' = "orphan"
                  /\ UNCHANGED <<current, unresolved>>
    /\ UNCHANGED <<txes, orphans, last, chain, count, good, orphan, txids, tx,
                   stopSync, indexed, fromScratch, torn, failed>>

(* get_blockhash and get_block of the height after the fork.               *)
FindGood ==
    /\ pc = "good"
    /\ ChainAt(current) # NoBlock
    /\ good' = PrevOf(ChainAt(current))
    /\ current' = unresolved[Len(unresolved)]
    /\ unresolved' = SubSeq(unresolved, 1, Len(unresolved) - 1)
    /\ pc' = "check"
    /\ UNCHANGED <<mongo, chain, count, repair, stopSync, history>>

(* "cannot find block", or an error of a query: no position is saved.      *)
Abort ==
    /\ \/ pc = "index" /\ current > count /\ orphanIndex = 0 /\ Fails("query_error")
       \/ pc = "check" /\ Fails("query_error")
       \/ pc = "good" /\ Fails("rpc_error")
    /\ faults' = faults + 1
    /\ Forget
    /\ UNCHANGED <<mongo, chain, indexed, fromScratch, torn, failed>>

(* The end of the loop. *)
Finish ==
    /\ pc = "check"
    /\ stopSync \/ current >= count
    /\ orphanIndex' = current - 1
    /\ orphanCurrent' = FirstUnresolved(unresolved)
    /\ Forget
    /\ UNCHANGED <<txes, orphans, last, chain, history>>

-----------------------------------------------------------------------------
(* Mutant: blockindex is the key of the collection. *)
OneOrphanPerHeight(b) ==
    IF \E o \in orphans \cap Blocks : b \in Blocks /\ HeightOf[o] = HeightOf[b]
    THEN orphans ELSE orphans \cup {b}

Recorded(b) == orphans \cup {b}

(* get_orphaned_txids and create_orphan for one of the orphaned hashes: an *)
(* error of either is passed over.                                         *)
CreateOrphan(b) ==
    /\ pc = "orphan"
    /\ b \in forked
    /\ forked' = forked \ {b}
    /\ orphan' = b
    /\ LET found == { t \in Txs : b # NoBlock /\ txes[t] = b }
       IN  \/ /\ txids' = found
              /\ orphans' = Recorded(b)
              /\ UNCHANGED <<faults, torn, failed>>
           \/ /\ Fails("query_error")
              /\ \/ txids' = {} /\ orphans' = Recorded(b)
                 \/ txids' = found /\ orphans' = orphans
              /\ faults' = faults + 1
              /\ torn' = TRUE
              /\ failed' = failed \cup ({b} \ {NoBlock})
    /\ pc' = "delete"
    /\ UNCHANGED <<txes, last, orphanIndex, orphanCurrent, chain, count, current,
                   unresolved, good, tx, stopSync, indexed, fromScratch>>

(* blkSync.delete_and_cleanup_tx *)
DeleteTx(t) ==
    /\ pc = "delete"
    /\ t \in txids
    /\ txids' = txids \ {t}
    /\ txes' = [txes EXCEPT ![t] = NoBlock]
    /\ tx' = {t}
    /\ pc' = "readd"
    /\ UNCHANGED <<orphans, last, orphanIndex, orphanCurrent, chain, count, current,
                   unresolved, good, forked, orphan, stopSync, history>>

(* check_add_tx: the transaction may be in another block of the chain.     *)
ReaddTx ==
    /\ pc = "readd"
    /\ LET homes == { b \in OnChain \ {orphan} : tx \subseteq TxsOf[b] }
       IN  \/ /\ txes' = [t \in Txs |-> IF t \in tx /\ homes # {}
                                        THEN CHOOSE b \in homes : TRUE ELSE txes[t]]
              /\ UNCHANGED <<faults, torn>>
           \/ /\ Fails("rpc_error")
              /\ faults' = faults + 1
              /\ torn' = TRUE
              /\ UNCHANGED txes
    /\ indexed' = indexed \cup IndexedIn(txes')
    /\ tx' = {}
    /\ pc' = "delete"
    /\ UNCHANGED <<orphans, last, orphanIndex, orphanCurrent, chain, count, current,
                   unresolved, good, forked, orphan, txids, stopSync, fromScratch, failed>>

OrphanDone ==
    /\ pc = "delete"
    /\ txids = {}
    /\ orphan' = NoBlock
    /\ pc' = "orphan"
    /\ UNCHANGED <<mongo, chain, count, current, unresolved, good, forked, txids, tx,
                   stopSync, history>>

(* "add missing txes for the current block"; when the stats cannot be read *)
(* the loop goes on at the same height, and the good hash is still known.  *)
AddMissing ==
    /\ pc = "orphan"
    /\ forked = {}
    /\ \/ /\ txes' = WithBlock(ChainAt(current))
          /\ pc' = "save"
          /\ UNCHANGED <<faults, torn>>
       \/ /\ Fails("query_error")
          /\ faults' = faults + 1
          /\ torn' = TRUE
          /\ pc' = "check"
          /\ UNCHANGED txes
    /\ indexed' = indexed \cup IndexedIn(txes')
    /\ UNCHANGED <<orphans, last, orphanIndex, orphanCurrent, chain, count, current,
                   unresolved, good, repair, stopSync, fromScratch, failed>>

(* "in case the sync is interrupted before finishing" *)
SaveRepair ==
    /\ pc = "save"
    /\ \/ /\ orphanIndex' = current
          /\ orphanCurrent' = FirstUnresolved(unresolved)
          /\ UNCHANGED faults
       \/ /\ Fails("query_error")
          /\ faults' = faults + 1
          /\ UNCHANGED <<orphanIndex, orphanCurrent>>
    /\ good' = NoBlock
    /\ current' = current + 1
    /\ pc' = "check"
    /\ UNCHANGED <<txes, orphans, last, chain, count, unresolved, repair, stopSync,
                   indexed, fromScratch, torn, failed>>

-----------------------------------------------------------------------------
(* SIGTERM or SIGINT. *)
Stop ==
    /\ Fails("stop")
    /\ pc # "idle" /\ ~stopSync
    /\ stopSync' = TRUE
    /\ faults' = faults + 1
    /\ UNCHANGED <<mongo, chain, pc, count, current, unresolved, good, repair, indexed,
                   fromScratch, torn, failed>>

(* The process ends where it is. *)
Crash ==
    /\ Fails("crash")
    /\ pc # "idle"
    /\ faults' = faults + 1
    /\ torn' = (torn \/ pc \in {"orphan", "delete", "readd"})
    /\ Forget
    /\ UNCHANGED <<mongo, chain, indexed, fromScratch, failed>>

(* The chain grows, or leaves its last blocks for a longer chain.          *)
Extend ==
    /\ \E b \in Blocks : /\ best = PrevOf(b)
                         /\ best' = b
    /\ UNCHANGED <<mongo, reorgs, run, history>>

Reorg ==
    /\ reorgs < MaxReorgs
    /\ HeightOf[best] <= LastFork
    /\ \E b \in Blocks :
        LET dropped == OnChain \ Ancestors[b]
        IN  /\ HeightOf[b] > HeightOf[best]
            /\ dropped # {}
            /\ \A a \in dropped : HeightOf[best] - HeightOf[a] < MaxDepth
            /\ best' = b
    /\ reorgs' = reorgs + 1
    /\ UNCHANGED <<mongo, run, history>>

-----------------------------------------------------------------------------
SyncStep ==
    \/ Start \/ IndexBlock \/ StopIndexing \/ FindEarliest
    \/ CheckHeight \/ FindGood \/ Finish
    \/ \E b \in Blocks \cup {NoBlock} : CreateOrphan(b)
    \/ \E t \in Txs : DeleteTx(t)
    \/ ReaddTx \/ OrphanDone \/ AddMissing \/ SaveRepair

Next == SyncStep \/ Abort \/ Stop \/ Crash \/ Extend \/ Reorg

Spec == Init /\ [][Next]_vars

(* Restart=always starts every run again, the wallet and MongoDB answer,   *)
(* and blocks keep coming.                                                 *)
FairSpec == Spec /\ WF_vars(SyncStep) /\ WF_vars(Extend)

-----------------------------------------------------------------------------
TypeOK ==
    /\ txes \in [Txs -> Blocks \cup {NoBlock}]
    /\ orphans \subseteq Blocks \cup {NoBlock}
    /\ {last, count, orphanIndex, orphanCurrent, current} \subseteq Nat
    /\ best \in Blocks
    /\ reorgs \in 0..MaxReorgs
    /\ pc \in {"idle", "index", "check", "good", "orphan", "delete", "readd", "save"}
    /\ unresolved \in Seq(Nat)
    /\ good \in Blocks \cup {NoBlock}
    /\ forked \subseteq Blocks \cup {NoBlock}
    /\ orphan \in Blocks \cup {NoBlock}
    /\ txids \subseteq Txs /\ tx \subseteq Txs
    /\ faults \in 0..MaxFaults
    /\ indexed \subseteq Blocks /\ failed \subseteq Blocks
    /\ {stopSync, fromScratch, torn} \subseteq BOOLEAN

Stale == { b \in IndexedIn(txes) : b \notin OnChain }

(* Where the next run takes the search for forks up. *)
Resume == IF orphanCurrent = 0 THEN orphanIndex ELSE orphanCurrent

(* Lines 94-108, 239-244 and 356-360: wherever the process ends, no block  *)
(* the chain has dropped is left behind the point where the next run takes *)
(* up its search: for a database that has been searched before, and        *)
(* reorganisations of at most MaxDepth blocks.                             *)
NoForkLeftBehind ==
    ~fromScratch => \A b \in Stale \ failed : HeightOf[b] >= Resume

(* Lines 189-195: a block that was indexed and is so no more has been      *)
(* recorded as an orphan, also if the run ended in the middle of it.       *)
RemovedIsRecorded == indexed \ IndexedIn(txes) \subseteq orphans \cup failed

(* Line 79: "fixes data belonging to orphaned blocks": what the chain has  *)
(* dropped leaves the index for good, unless a query failed for it.        *)
StaleIsRemoved == ~fromScratch => <>[](Stale \subseteq failed)

Complete == \A b \in OnChain : \A t \in TxsOf[b] : txes[t] = b

(* Lines 202-238: the transactions a repair removes are added again where  *)
(* they belong: if no repair ended halfway, the index is the chain in the  *)
(* end.                                                                    *)
IndexCatchesUp == ~fromScratch /\ [](~torn) => <>[]Complete

=============================================================================
