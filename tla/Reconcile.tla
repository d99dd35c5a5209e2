------------------------------ MODULE Reconcile ------------------------------
(***************************************************************************)
(* scripts/reconcile-blocksConfirmed.py --apply, started every hour by     *)
(* systemd/defcoin-reconcile.timer: it reads blocksConfirmed, asks the     *)
(* node for the hash at the height of every entry, and for every entry     *)
(* that is not the block of its height takes the reward off the balance    *)
(* of the worker that found it and moves it to blocksOrphaned.             *)
(*                                                                         *)
(* The script is one process, and every redis-cli call and every RPC is an *)
(* action: between two of them the payment processor writes to the same    *)
(* keys and the chain may change.  Of the payment processor one cycle at a *)
(* time is modelled, by its reads, its questions about the blocks and its  *)
(* final MULTI; PaymentProcessor has the rest.                             *)
(***************************************************************************)
EXTENDS Integers, FiniteSets, Functions

CONSTANTS
    Workers,
    Blocks,      \* entries, "hash:tx:height:worker:time:reward"
    HeightOf,
    Finder,      \* the worker field of an entry
    Truncated,   \* entries of fewer than six fields, from an older pool
    Reward,      \* the reward field of an entry
    Splits,      \* how a reward may be split, every worker's part rounded down
    NoBlock,     \* None: no hash for this height
    NotAsked,    \* a height that is not in height_hash_cache
    MaxReorgs,   \* bound: how often the chain changes
    MaxInterrupts,  \* bound: how often the script ends between two calls
    Faults       \* a subset of {"rpc_error", "killed", "cycle_ends"}

Heights == { HeightOf[b] : b \in Blocks }

ASSUME ReconcileAssumption ==
    /\ IsFiniteSet(Workers) /\ IsFiniteSet(Blocks)
    /\ DOMAIN HeightOf = Blocks
    /\ Finder \in [Blocks -> Workers]
    /\ Truncated \subseteq Blocks
    /\ Reward \in Nat \ {0}
    /\ Splits \subseteq [Workers -> Nat]
    /\ NoBlock \notin Blocks /\ NotAsked \notin Blocks \cup {NoBlock}
    /\ MaxReorgs \in Nat /\ MaxInterrupts \in Nat
    /\ Faults \subseteq {"rpc_error", "killed", "cycle_ends"}

VARIABLES
    balances, blocksPending, blocksConfirmed, blocksOrphaned,  \* Redis
    bestChain, reorgs,    \* the block of each height
    pc,                   \* "idle", "check", "debit", "move"
    entries,              \* the entries still to be checked
    heightHashCache,      \* height_hash_cache
    mismatches,           \* the entries still to be corrected
    current,              \* the entry being corrected
    stage,                \* the payment cycle: "idle", "classify", "commit"
    rounds,               \* the pending blocks it has read
    balance,              \* worker.balance, as it was when the cycle began
    matured, lost,        \* what it makes of its rounds
    \* history, read by no action
    debited,              \* what the script took off its finder for each block
    deducted,             \* what payments took off the balances
    undistributed,        \* the rests of the rewards that were split
    wasOff,               \* blocks off the chain since they were confirmed
    thrown,               \* heights whose getblockhash raised, in this run
    interrupted           \* how often the script ended between two calls

redis   == <<balances, blocksPending, blocksConfirmed, blocksOrphaned>>
node    == <<bestChain, reorgs>>
script  == <<pc, entries, heightHashCache, mismatches, current>>
cycle   == <<stage, rounds, balance, matured, lost>>
history == <<debited, deducted, undistributed, wasOff, thrown, interrupted>>
vars    == <<redis, node, script, cycle, history>>

Nobody  == [w \in Workers |-> 0]
OnChain == { b \in Blocks : bestChain[HeightOf[b]] = b }

Init ==
    /\ balances = Nobody
    /\ blocksPending = Blocks
    /\ blocksConfirmed = {}
    /\ blocksOrphaned = {}
    /\ bestChain \in { f \in [Heights -> Blocks] : \A h \in Heights : HeightOf[f[h]] = h }
    /\ reorgs = 0
    /\ pc = "idle"
    /\ entries = {}
    /\ heightHashCache = [h \in Heights |-> NotAsked]
    /\ mismatches = {}
    /\ current = NoBlock
    /\ stage = "idle"
    /\ rounds = {}
    /\ balance = Nobody
    /\ matured = {}
    /\ lost = {}
    /\ debited = [b \in Blocks |-> 0]
    /\ deducted = 0
    /\ undistributed = 0
    /\ wasOff = {}
    /\ thrown = {}
    /\ interrupted = 0

-----------------------------------------------------------------------------
(* Mutant: the answers of the last run are kept.                           *)
KeptCache == heightHashCache

(* height_hash_cache = {}                                                  *)
EmptyCache == [h \in Heights |-> NotAsked]

(* The timer starts the script; SMEMBERS blocksConfirmed.                  *)
Start ==
    /\ pc = "idle"
    /\ pc' = "check"
    /\ entries' = blocksConfirmed
    /\ heightHashCache' = EmptyCache
    /\ mismatches' = {}
    /\ thrown' = {}
    /\ UNCHANGED <<redis, node, current, cycle, debited, deducted, undistributed,
                   wasOff, interrupted>>

(* Mutant: a height without a block is not looked into.                    *)
WrongHash(b, hash) == hash \notin {b, NoBlock}

(* real_hash == block_hash, negated *)
Mismatch(b, hash) == hash # b

Skip(b) ==
    /\ pc = "check"
    /\ b \in entries \cap Truncated
    /\ entries' = entries \ {b}
    /\ UNCHANGED <<redis, node, pc, heightHashCache, mismatches, current, cycle,
                   history>>

(* getblockhash at a height that is asked for the first time: whatever     *)
(* exception it raises, the height counts as one that "doesn't exist on    *)
(* current chain at all".                                                  *)
AskHeight(height, hash) ==
    \/ hash = bestChain[height] /\ UNCHANGED thrown
    \/ /\ "rpc_error" \in Faults
       /\ hash = NoBlock
       /\ thrown' = thrown \cup {height}

CheckEntry(b) ==
    /\ pc = "check"
    /\ b \in entries \ Truncated
    /\ \E hash \in Blocks \cup {NoBlock} :
        /\ IF heightHashCache[HeightOf[b]] = NotAsked
           THEN AskHeight(HeightOf[b], hash)
           ELSE hash = heightHashCache[HeightOf[b]] /\ UNCHANGED thrown
        /\ heightHashCache' = [heightHashCache EXCEPT ![HeightOf[b]] = hash]
        /\ mismatches' = IF Mismatch(b, hash) THEN mismatches \cup {b} ELSE mismatches
    /\ entries' = entries \ {b}
    /\ UNCHANGED <<redis, node, pc, current, cycle, debited, deducted, undistributed,
                   wasOff, interrupted>>

AllChecked == pc = "check" /\ entries = {}

(* "Nothing to apply." *)
NothingToApply ==
    /\ AllChecked
    /\ mismatches = {}
    /\ pc' = "idle"
    /\ UNCHANGED <<redis, node, entries, heightHashCache, mismatches, current, cycle,
                   history>>

(* Mutant: every entry is debited all that its worker has to give back.    *)
DebitPerWorker(b) ==
    Reward * Cardinality({ m \in mismatches : Finder[m] = Finder[b] })

(* reward_dfc: the whole reward of the block.                              *)
Debit(b) == Reward

(* HINCRBYFLOAT balances <worker> -reward                                  *)
ReverseCredit(b) ==
    /\ AllChecked \/ pc = "debit"
    /\ b \in mismatches
    /\ balances' = [balances EXCEPT ![Finder[b]] = @ - Debit(b)]
    /\ debited' = [debited EXCEPT ![b] = @ + Debit(b)]
    /\ current' = b
    /\ pc' = "move"
    /\ UNCHANGED <<blocksPending, blocksConfirmed, blocksOrphaned, node, entries,
                   heightHashCache, mismatches, cycle, deducted, undistributed, wasOff,
                   thrown, interrupted>>

(* SMOVE blocksConfirmed blocksOrphaned; then the next entry, or the end.  *)
MoveEntry ==
    /\ pc = "move"
    /\ blocksConfirmed' = blocksConfirmed \ {current}
    /\ blocksOrphaned' = blocksOrphaned \cup ({current} \cap blocksConfirmed)
    /\ mismatches' = mismatches \ {current}
    /\ current' = NoBlock
    /\ pc' = IF mismatches = {current} THEN "idle" ELSE "debit"
    /\ UNCHANGED <<balances, blocksPending, node, entries, heightHashCache, cycle,
                   history>>

(* The script ends early: check_call raises, or the machine goes down.     *)
Killed ==
    /\ "killed" \in Faults
    /\ pc # "idle"
    /\ pc' = "idle"
    /\ current' = NoBlock
    /\ entries' = {}
    /\ mismatches' = {}
    /\ IF pc = "move" THEN /\ interrupted < MaxInterrupts
                           /\ interrupted' = interrupted + 1
                      ELSE UNCHANGED interrupted
    /\ UNCHANGED <<redis, node, heightHashCache, cycle, debited, deducted,
                   undistributed, wasOff, thrown>>

-----------------------------------------------------------------------------
(* A payment cycle reads the balances and the pending blocks.              *)
ReadRounds ==
    /\ stage = "idle"
    /\ stage' = "classify"
    /\ rounds' = blocksPending
    /\ balance' = balances
    /\ UNCHANGED <<redis, node, script, matured, lost, history>>

(* gettransaction for every round: what is on the chain may have matured,  *)
(* what is not may be called lost; an odd error leaves it for later.       *)
ClassifyRounds ==
    /\ stage = "classify"
    /\ stage' = "commit"
    /\ matured' \in SUBSET (rounds \cap OnChain)
    /\ lost' \in SUBSET (rounds \ OnChain)
    /\ UNCHANGED <<redis, node, script, rounds, balance, history>>

(* worker.reward                                                           *)
Rewards(split) ==
    [w \in Workers |-> SumFunctionOnSet([b \in Blocks |-> split[b][w]], DOMAIN split)]

(* What a batch may take off: part of what was read and earned, or nothing.*)
Batches(reward) ==
    { gross \in [Workers -> 0..(Reward * Cardinality(Blocks))] :
        \A w \in Workers : gross[w] > 0 => gross[w] <= balance[w] + reward[w] }

EndCycle ==
    /\ stage' = "idle"
    /\ rounds' = {}
    /\ balance' = Nobody
    /\ matured' = {}
    /\ lost' = {}

(* The final MULTI; redistributed debts go from worker to worker and are   *)
(* left out.                                                               *)
Commit ==
    /\ stage = "commit"
    /\ \E split \in [matured -> Splits] :
        LET reward == Rewards(split)
        IN  \E gross \in Batches(reward) :
            /\ balances' = [w \in Workers |-> balances[w] + (reward[w] - gross[w])]
            /\ deducted' = deducted + SumFunctionOnSet(gross, Workers)
            /\ undistributed' = undistributed + (Reward * Cardinality(matured)
                                    - SumFunctionOnSet(reward, Workers))
    /\ blocksPending' = blocksPending \ (matured \cup lost)
    /\ blocksConfirmed' = blocksConfirmed \cup matured
    /\ blocksOrphaned' = blocksOrphaned \cup lost
    /\ wasOff' = wasOff \cup (matured \ OnChain)
    /\ EndCycle
    /\ UNCHANGED <<node, script, debited, thrown, interrupted>>

(* A cycle ends without having written anything.                           *)
CycleEnds ==
    /\ "cycle_ends" \in Faults
    /\ stage # "idle"
    /\ EndCycle
    /\ UNCHANGED <<redis, node, script, history>>

(* A deep reorganisation: another block at the height, or none any more.   *)
Reorg(h) ==
    /\ reorgs < MaxReorgs
    /\ reorgs' = reorgs + 1
    /\ \E b \in { a \in Blocks : HeightOf[a] = h } \cup {NoBlock} :
        /\ bestChain' = [bestChain EXCEPT ![h] = b]
        /\ wasOff' = wasOff \cup { a \in blocksConfirmed : HeightOf[a] = h /\ a # b }
    /\ UNCHANGED <<redis, script, cycle, debited, deducted, undistributed, thrown,
                   interrupted>>

-----------------------------------------------------------------------------
ScriptStep ==
    \/ Start \/ NothingToApply \/ MoveEntry
    \/ \E b \in Blocks : Skip(b) \/ CheckEntry(b) \/ ReverseCredit(b)

Next ==
    \/ ScriptStep \/ Killed
    \/ ReadRounds \/ ClassifyRounds \/ Commit \/ CycleEnds
    \/ \E h \in Heights : Reorg(h)

Spec == Init /\ [][Next]_vars

(* The timer starts the script again and again, the calls of the script    *)
(* return, and it does not end early for ever.                             *)
KilledEarly == Killed /\ ~ScriptStep

FairSpec == Spec /\ WF_vars(ScriptStep) /\ <>[][~KilledEarly]_vars

-----------------------------------------------------------------------------
TypeOK ==
    /\ balances \in [Workers -> Int]
    /\ blocksPending \subseteq Blocks
    /\ blocksConfirmed \subseteq Blocks
    /\ blocksOrphaned \subseteq Blocks
    /\ bestChain \in [Heights -> Blocks \cup {NoBlock}]
    /\ reorgs \in 0..MaxReorgs
    /\ pc \in {"idle", "check", "debit", "move"}
    /\ entries \subseteq Blocks
    /\ heightHashCache \in [Heights -> Blocks \cup {NoBlock, NotAsked}]
    /\ mismatches \subseteq Blocks
    /\ current \in Blocks \cup {NoBlock}
    /\ stage \in {"idle", "classify", "commit"}
    /\ rounds \subseteq Blocks
    /\ balance \in [Workers -> Int]
    /\ matured \subseteq Blocks
    /\ lost \subseteq Blocks
    /\ debited \in [Blocks -> Nat]
    /\ deducted \in Nat
    /\ undistributed \in Int
    /\ wasOff \subseteq Blocks
    /\ thrown \subseteq Heights
    /\ interrupted \in 0..MaxInterrupts

(* Lines 84 and 96-106: an entry is debited only if its block has been off *)
(* the chain since it was confirmed, or if the question for its height     *)
(* raised in this very run; the chain may change between the answer for a  *)
(* height and its use for a later entry or for the corrections.            *)
DebitedForCause ==
    [][\A b \in Blocks : debited'[b] > debited[b]
            => b \in wasOff \/ HeightOf[b] \in thrown]_vars

(* Lines 8-11, 100 and 122 say of the entries that are corrected that they *)
(* are "orphaned": their blocks have left the chain.                       *)
OnlyPhantomDebited == \A b \in Blocks : debited[b] > 0 => b \in wasOff

(* Lines 150-152: over all workers, what has been paid, what is owed and   *)
(* the rests of rounding down are the rewards of the confirmed blocks,     *)
(* whatever payments go on meanwhile, but for one reward every time the    *)
(* script ended between a debit and its move.  The debit takes the rest    *)
(* too, which nobody was credited with: rests of moved entries stay.       *)
LedgerTotal ==
    pc # "move" =>
        deducted + SumFunctionOnSet(balances, Workers) + undistributed
            = Reward * (Cardinality(blocksConfirmed) - interrupted)

(* Lines 16-19: "this is the thing that actually closes the gap": a        *)
(* confirmed block that has left the chain, and does not come back, is     *)
(* found and moved in the end.                                             *)
PhantomIsMoved ==
    \A b \in Blocks \ Truncated :
        b \in blocksConfirmed \ OnChain ~> (b \notin blocksConfirmed \/ b \in OnChain)

=============================================================================
