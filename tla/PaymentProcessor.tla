-------------------------- MODULE PaymentProcessor --------------------------
(***************************************************************************)
(* The pool's payment processor, patches/unomp-pool/libs/                  *)
(* paymentProcessor.js: a timer starts processPayments every               *)
(* paymentInterval seconds; one payment cycle is an async waterfall that   *)
(* reads balances and pending blocks from Redis, asks the wallet what      *)
(* became of those blocks, reads the shares of their rounds, looks up the  *)
(* payout addresses, sends one batch with sendmany and finally writes the  *)
(* whole outcome to Redis in one MULTI.                                    *)
(*                                                                         *)
(* Node runs one callback at a time, so an action is one callback; what    *)
(* can happen between two callbacks of a cycle is an action of another     *)
(* cycle (nothing keeps the timer from starting one while another is under *)
(* way), of the wallet and the chain, of the share processor, or the end   *)
(* of the process.                                                         *)
(*                                                                         *)
(* Every worker of the model has a field in the balances hash from the     *)
(* start (it has been paid before).                                        *)
(***************************************************************************)
EXTENDS PayoutAllocation

CONSTANTS
    Cycles,        \* the payment cycles that may be under way at once
    CommandsFile,  \* <coin>_finalRedisCommands.txt
    Blocks,        \* blocks the pool may find
    HeightOf,      \* their heights
    Resolvable,    \* the workers whose key holds an address of the network
    BlockReward,   \* the amount of a coinbase that pays the pool
    InitialFunds,  \* spendable coins of the wallet when the run starts
    RoundHashes,   \* the share counts a round of mining may add up to
    NetworkFees,   \* what a batch may cost the wallet in network fees
    MaxReorgs,     \* bound: how often the chain changes its mind
    Faults         \* what may go wrong, a subset of AllFaults

AllFaults ==
    { "setup_error",    \* SetupForPool: the wallet does not answer
      "batch_error",    \* a batched read fails as a whole
      "odd_tx",         \* an "odd error" for one gettransaction
      "lookup_error",   \* getaddressinfo fails for a good address
      "balance_error",  \* getbalance fails or cannot be parsed
      "send_refused",   \* sendmany fails and sends nothing
      "reply_lost",     \* sendmany sends, its answer is lost
      "redis_error",    \* the final MULTI is not applied
      "crash",          \* the process ends
      "early_restart",  \* it is started again while commands wait in the file
      "reload" }        \* a 'reloadpool' message sets the pool up once more

(* Where the state of a cycle may be: in the memory of the process, or, as *)
(* the commands it could not run, in the file.                             *)
Slots == Cycles \cup {CommandsFile}

Heights == { HeightOf[b] : b \in Blocks }

ASSUME ProcessorAssumption ==
    /\ CommandsFile \notin Cycles
    /\ IsFiniteSet(Cycles)
    /\ IsFiniteSet(Blocks)
    /\ DOMAIN HeightOf = Blocks
    /\ Resolvable \subseteq Workers
    /\ BlockReward \in Nat
    /\ InitialFunds \in Nat
    /\ RoundHashes \subseteq (ShareHash \ {NoShares})
    /\ NetworkFees \subseteq Nat
    /\ MaxReorgs \in Nat
    /\ Faults \subseteq AllFaults

VARIABLES
    \* Redis
    balances,         \* <coin>:balances
    payouts,          \* <coin>:payouts
    blocksPending,    \* <coin>:blocksPending
    blocksConfirmed,  \* <coin>:blocksConfirmed
    blocksOrphaned,   \* <coin>:blocksOrphaned
    roundShares,      \* <coin>:shares:round<height>
    roundCurrent,     \* <coin>:shares:roundCurrent
    \* the wallet and the chain
    chain,            \* what became of each block
    wallet,           \* the spendable balance
    reorgs,
    \* the process
    timer,            \* "starting"; setInterval is "off", "on", or set "twice"
    pc,               \* where each cycle is in the waterfall
    rounds,           \* the rounds of each cycle
    category,         \* round.category
    canDeleteShares,  \* the rounds with r.canDeleteShares
    workerShares,     \* the share hashes read for the rounds
    balance,          \* worker.balance
    reward,           \* worker.reward
    valid,            \* validResults
    donors,           \* the workers whose debt was redistributed
    gross,            \* grossAmount of the pending payable workers
    retry,            \* retryCount
    \* history, read by no action
    sharesAt,         \* the shares of the round each block ended
    creditedWith,     \* the share hashes each block was paid out by
    paid,             \* gross amounts of the batches the wallet sent
    deducted,         \* gross amounts taken off the balances
    unrecorded        \* those of batches whose record was lost

redis   == <<balances, payouts, blocksPending, blocksConfirmed, blocksOrphaned,
             roundShares, roundCurrent>>
node    == <<chain, wallet, reorgs>>
local   == <<rounds, category, canDeleteShares, workerShares, balance, reward,
             valid, donors, gross, retry>>
history == <<sharesAt, creditedWith, paid, deducted, unrecorded>>
vars    == <<redis, node, timer, pc, local, history>>

-----------------------------------------------------------------------------
(* Data the actions share.                                                 *)

Stage     == { "idle", "classify", "shares", "lookup", "balance", "send",
               "commit", "failed" }
ChainView == { "unmined", "immature", "generate", "orphan", "kicked" }
Category  == { "undefined", "immature", "generate", "orphan", "kicked" }
Lost      == { "orphan", "kicked" }
(* The filter of line 304: the other rounds wait for another cycle.        *)
Settled   == Lost \cup { "generate" }

NoRewards  == [w \in Workers |-> 0]
NoCategory == [b \in Blocks |-> "undefined"]
NoHashes   == [b \in Blocks |-> NoShares]

(* compareR.height === r.height: a round of the same height that is not    *)
(* lost keeps the shares where they are.                                   *)
CanDeleteShares(rds, cats, b) ==
    \A r \in rds : (r # b /\ HeightOf[r] = HeightOf[b]) => cats[r] \in Lost

(* Mutant: an immature coinbase is taken for a matured one.                *)
ReportedEarly(b) == {IF chain[b] = "immature" THEN "generate" ELSE chain[b]}

(* What gettransaction may say of a pending round.                         *)
Reported(b) ==
    {chain[b]} \cup (IF "odd_tx" \in Faults THEN {"undefined"} ELSE {})

Owed(c) == [w \in Workers |-> balance[c][w] + reward[c][w]]

(* worker.reward after the waterfall's third step.                         *)
CycleRewards(rds, cats, hashes) ==
    [w \in Workers |->
        SumFunctionOnSet([b \in Blocks |-> RewardSplit(BlockReward, hashes[b])[w]],
                         { b \in rds : cats[b] = "generate" /\ hashes[b] # NoShares })]

(* Mutant: what a donor gave away stays on its balance.                    *)
DonorKeepsDebt(c, w) == reward[c][w] - gross[c][w]

(* worker.balanceChange when the cycle gets to write its outcome.          *)
BalanceChange(c, w) ==
    IF w \in donors[c] THEN -balance[c][w] ELSE reward[c][w] - gross[c][w]

BatchTotal(c) ==
    SumOver([w \in Workers |-> NetAmount(gross[c][w], retry[c])])

(* The workers a donor's debt may go to: any of the first three lookups    *)
(* that found an address, whatever these workers are owed.                 *)
FirstResults(v) ==
    { f \in SUBSET v : Cardinality(f) = IF Cardinality(v) < 3 THEN Cardinality(v) ELSE 3 }

(* Mutant: HSET in the place of HINCRBY.                                   *)
SharesOverwritten(c) ==
    [w \in Workers |->
        LET lost == { b \in canDeleteShares[c] : workerShares[c][b][w] # 0 }
        IN  IF lost = {} THEN roundCurrent[w]
            ELSE SumFunctionOnSet([b \in Blocks |-> workerShares[c][b][w]], lost)]

(* moveSharesToCurrent, for every lost round that can delete its shares.   *)
MergedShares(c) ==
    [w \in Workers |-> roundCurrent[w]
        + SumFunctionOnSet([b \in Blocks |-> workerShares[c][b][w]],
                           canDeleteShares[c])]

(* The keys "shares:round<height>" the final MULTI deletes.                *)
RoundsToDelete(c) ==
    { HeightOf[b] : b \in canDeleteShares[c]
                          \cup { r \in rounds[c] : category[c][r] = "generate" } }

(* Object.keys(r.workerShares) of a hash that was not there throws.        *)
SharesMissing(c) == \E b \in canDeleteShares[c] : workerShares[c][b] = NoShares

(* Mutants: SADD and SREM in the place of SMOVE; the SMOVE of the lost or  *)
(* of the confirmed blocks forgotten.                                      *)
MovedAnyway(c)   == rounds[c]
MovedMatured(c)  == { b \in rounds[c] \cap blocksPending : category[c][b] = "generate" }
MovedLost(c)     == { b \in rounds[c] \cap blocksPending : category[c][b] \in Lost }

(* SMOVE moves a block only if it is still in the list it is taken from.   *)
Moved(c) == rounds[c] \cap blocksPending

(* Mutant: a cycle without pending blocks is skipped, whatever is owed.    *)
TimerNeedsBlocks == timer = "on" /\ blocksPending # {}

(* setInterval is set and has not been cleared.                            *)
TimerRuns == timer \in {"on", "twice"}

(* clearInterval clears the interval of the closure the cycle runs in: one *)
(* of two, or, after a reload, one that has been cleared before.           *)
ClearInterval ==
    \/ timer' = (IF timer = "twice" THEN "on" ELSE "off")
    \/ "reload" \in Faults /\ timer' = timer

(* Mutant: an unsent batch is taken off the balances.                      *)
DeferNothing(c) == UNCHANGED gross

(* deferPendingPayable: nothing is taken off for the batch.                *)
DeferPendingPayable(c) == gross' = [gross EXCEPT ![c] = NoRewards]

(* retryCount >= MAX_RETRIES                                               *)
RetriesUsed(c) == retry[c] >= MaxRetries

(* The cycle is over and its variables are gone.                           *)
Forget(c) ==
    /\ pc' = [pc EXCEPT ![c] = "idle"]
    /\ rounds' = [rounds EXCEPT ![c] = {}]
    /\ category' = [category EXCEPT ![c] = NoCategory]
    /\ canDeleteShares' = [canDeleteShares EXCEPT ![c] = {}]
    /\ workerShares' = [workerShares EXCEPT ![c] = NoHashes]
    /\ balance' = [balance EXCEPT ![c] = NoRewards]
    /\ reward' = [reward EXCEPT ![c] = NoRewards]
    /\ valid' = [valid EXCEPT ![c] = {}]
    /\ donors' = [donors EXCEPT ![c] = {}]
    /\ gross' = [gross EXCEPT ![c] = NoRewards]
    /\ retry' = [retry EXCEPT ![c] = 0]

Goto(c, stage) == pc' = [pc EXCEPT ![c] = stage]

-----------------------------------------------------------------------------
Init ==
    /\ balances = NoRewards
    /\ payouts = NoRewards
    /\ blocksPending = {}
    /\ blocksConfirmed = {}
    /\ blocksOrphaned = {}
    /\ roundShares = [h \in Heights |-> NoShares]
    /\ roundCurrent = NoShares
    /\ chain = [b \in Blocks |-> "unmined"]
    /\ wallet = InitialFunds
    /\ reorgs = 0
    /\ timer = "starting"
    /\ pc = [s \in Slots |-> "idle"]
    /\ rounds = [s \in Slots |-> {}]
    /\ category = [s \in Slots |-> NoCategory]
    /\ canDeleteShares = [s \in Slots |-> {}]
    /\ workerShares = [s \in Slots |-> NoHashes]
    /\ balance = [s \in Slots |-> NoRewards]
    /\ reward = [s \in Slots |-> NoRewards]
    /\ valid = [s \in Slots |-> {}]
    /\ donors = [s \in Slots |-> {}]
    /\ gross = [s \in Slots |-> NoRewards]
    /\ retry = [s \in Slots |-> 0]
    /\ sharesAt = NoHashes
    /\ creditedWith = [b \in Blocks |-> <<>>]
    /\ paid = NoRewards
    /\ deducted = NoRewards
    /\ unrecorded = NoRewards

-----------------------------------------------------------------------------
(* SetupForPool: the pool address and the precision are asked of the       *)
(* wallet; only when both answers are good is the interval set.            *)
SetupForPool ==
    /\ timer = "starting"
    /\ \/ timer' = "on"
       \/ /\ "setup_error" \in Faults
          /\ timer' = "off"
    /\ UNCHANGED <<redis, node, pc, local, history>>

(* A 'reloadpool' message of the master process: SetupForPool is called    *)
(* once more, and the interval that may be there stays.  Nothing is seen   *)
(* of it before its calls are answered; if they fail, nothing has changed. *)
(* More than two intervals do what two do.                                 *)
ReloadPool ==
    /\ "reload" \in Faults
    /\ timer \in {"on", "off"}
    /\ timer' = (IF timer = "on" THEN "twice" ELSE "on")
    /\ UNCHANGED <<redis, node, pc, local, history>>

(* The timer fires: balances and pending blocks are read in one MULTI.     *)
ReadRounds(c) ==
    /\ TimerRuns
    /\ pc[c] = "idle"
    /\ balance' = [balance EXCEPT ![c] = balances]
    /\ rounds' = [rounds EXCEPT ![c] = blocksPending]
    /\ Goto(c, "classify")
    /\ UNCHANGED <<redis, node, timer, category, canDeleteShares, workerShares,
                   reward, valid, donors, gross, retry, history>>

(* A batched read fails: the waterfall ends, nothing has been written.     *)
StopCycle(c) ==
    /\ "batch_error" \in Faults
    /\ pc[c] \in {"classify", "shares"}
    /\ Forget(c)
    /\ UNCHANGED <<redis, node, timer, history>>

(* The wallet's answers to gettransaction: rounds it calls matured or lost *)
(* are kept, the others wait for another cycle.                            *)
ClassifyRounds(c) ==
    /\ pc[c] = "classify"
    /\ \E cats \in [rounds[c] -> Category] :
        LET settled == { b \in rounds[c] : cats[b] \in Settled }
        IN  /\ \A b \in rounds[c] : cats[b] \in Reported(b)
            /\ rounds' = [rounds EXCEPT ![c] = settled]
            /\ category' = [category EXCEPT ![c] =
                  [b \in Blocks |-> IF b \in settled THEN cats[b] ELSE "undefined"]]
            /\ canDeleteShares' = [canDeleteShares EXCEPT ![c] =
                  { b \in settled : /\ cats[b] \in Lost
                                    /\ CanDeleteShares(rounds[c], cats, b) }]
    /\ Goto(c, "shares")
    /\ UNCHANGED <<redis, node, timer, workerShares, balance, reward, valid,
                   donors, gross, retry, history>>

(* The shares of the kept rounds; matured rounds turn into rewards.        *)
ReadShares(c) ==
    /\ pc[c] = "shares"
    /\ LET hashes == [b \in Blocks |-> IF b \in rounds[c]
                                       THEN roundShares[HeightOf[b]] ELSE NoShares]
       IN  /\ workerShares' = [workerShares EXCEPT ![c] = hashes]
           /\ reward' = [reward EXCEPT ![c] =
                             CycleRewards(rounds[c], category[c], hashes)]
    /\ Goto(c, "lookup")
    /\ UNCHANGED <<redis, node, timer, rounds, category, canDeleteShares, balance,
                   valid, donors, gross, retry, history>>

(* Every getaddressinfo has been answered: large debts of workers without  *)
(* an address move to workers with one.                                    *)
LookupAddresses(c) ==
    /\ pc[c] = "lookup"
    /\ \E v \in SUBSET Resolvable :
        /\ v = Resolvable \/ "lookup_error" \in Faults
        /\ \E first \in FirstResults(v) :
            \E recipient \in [Donors(v, Owed(c)) -> first] :
                reward' = [reward EXCEPT ![c] =
                    [w \in Workers |-> reward[c][w] + Absorbed(w, recipient, Owed(c))]]
        /\ valid' = [valid EXCEPT ![c] = v]
        /\ donors' = [donors EXCEPT ![c] = Donors(v, Owed(c))]
    /\ Goto(c, "balance")
    /\ UNCHANGED <<redis, node, timer, rounds, category, canDeleteShares,
                   workerShares, balance, gross, retry, history>>

(* The spendable balance arrives and attempt(0) builds the batch; with     *)
(* nothing to pay the cycle goes straight to Redis.                        *)
GetBalance(c) ==
    /\ pc[c] = "balance"
    /\ \E order \in AscendingOrders(valid[c], Owed(c)) :
        LET batch == GrossAmounts(order, Owed(c),
                                  RemainingBefore(order, Owed(c), wallet))
        IN  /\ gross' = [gross EXCEPT ![c] = batch]
            /\ Goto(c, IF batch = NoRewards THEN "commit" ELSE "send")
    /\ UNCHANGED <<redis, node, timer, rounds, category, canDeleteShares,
                   workerShares, balance, reward, valid, donors, retry,
                   history>>

(* No spendable balance: every valid worker is deferred.                   *)
BalanceUnknown(c) ==
    /\ "balance_error" \in Faults
    /\ pc[c] = "balance"
    /\ Goto(c, "commit")
    /\ UNCHANGED <<redis, node, timer, local, history>>

(* The wallet sends the batch, if it covers the batch and its fee.         *)
WalletSends(c) ==
    /\ \E cost \in { BatchTotal(c) + fee : fee \in NetworkFees } \cap (0..wallet) :
            wallet' = wallet - cost
    /\ paid' = [w \in Workers |-> paid[w] + gross[c][w]]
    /\ UNCHANGED <<chain, reorgs, sharesAt, creditedWith, deducted>>

SendAccepted(c) ==
    /\ pc[c] = "send"
    /\ WalletSends(c)
    /\ Goto(c, "commit")
    /\ UNCHANGED <<redis, timer, local, unrecorded>>

(* Error -6: resend with twice the withheld fee, or give up.               *)
SendInsufficient(c) ==
    /\ pc[c] = "send"
    /\ \E fee \in NetworkFees : BatchTotal(c) + fee > wallet
    /\ IF RetriesUsed(c)
       THEN /\ DeferPendingPayable(c)
            /\ Goto(c, "commit")
            /\ UNCHANGED retry
       ELSE /\ retry' = [retry EXCEPT ![c] = @ + 1]
            /\ UNCHANGED <<pc, gross>>
    /\ UNCHANGED <<redis, node, timer, rounds, category, canDeleteShares,
                   workerShares, balance, reward, valid, donors,
                   history>>

(* Any other error is taken for "nothing was sent"; it may be that the     *)
(* wallet sent the batch and only its answer was lost.                     *)
SendFailed(c) ==
    /\ pc[c] = "send"
    /\ \/ /\ "send_refused" \in Faults
          /\ UNCHANGED <<node, history>>
       \/ /\ "reply_lost" \in Faults
          /\ WalletSends(c)
          /\ unrecorded' = [w \in Workers |-> unrecorded[w] + gross[c][w]]
    /\ DeferPendingPayable(c)
    /\ Goto(c, "commit")
    /\ UNCHANGED <<redis, timer, rounds, category, canDeleteShares, workerShares,
                   balance, reward, valid, donors, retry>>

(* The final MULTI, as Redis executes it: one SMOVE per round, the shares  *)
(* of lost rounds, balances, payouts and the deleted round keys.           *)
Execute(c) ==
    /\ balances' = [w \in Workers |-> balances[w] + BalanceChange(c, w)]
    /\ payouts' = [w \in Workers |-> payouts[w] + NetAmount(gross[c][w], retry[c])]
    /\ blocksConfirmed' = blocksConfirmed
          \cup { b \in Moved(c) : category[c][b] = "generate" }
    /\ blocksOrphaned' = blocksOrphaned
          \cup { b \in Moved(c) : category[c][b] \in Lost }
    /\ blocksPending' = blocksPending \ Moved(c)
    /\ roundCurrent' = MergedShares(c)
    /\ roundShares' = [h \in Heights |-> IF h \in RoundsToDelete(c)
                                         THEN NoShares ELSE roundShares[h]]
    /\ creditedWith' = [b \in Blocks |->
          IF b \in rounds[c] /\ category[c][b] = "generate" /\ workerShares[c][b] # NoShares
          THEN Append(creditedWith[b], workerShares[c][b]) ELSE creditedWith[b]]
    /\ deducted' = [w \in Workers |-> deducted[w] + gross[c][w]]
    /\ UNCHANGED <<sharesAt, paid, unrecorded>>

Commit(c) ==
    /\ pc[c] = "commit"
    /\ ~SharesMissing(c)
    /\ Execute(c)
    /\ Forget(c)
    /\ UNCHANGED <<node, timer>>

(* The MULTI fails: the interval is cleared, and the commands are left in  *)
(* a file, over whatever an earlier failure left there.                    *)
MoveToFile(f, c, empty) == [f EXCEPT ![CommandsFile] = f[c], ![c] = empty]

CommitFails(c) ==
    /\ "redis_error" \in Faults
    /\ pc[c] = "commit"
    /\ ~SharesMissing(c)
    /\ ClearInterval
    /\ pc' = [pc EXCEPT ![CommandsFile] = "failed", ![c] = "idle"]
    /\ unrecorded' = [w \in Workers |-> unrecorded[w] + gross[CommandsFile][w]]
    /\ rounds' = MoveToFile(rounds, c, {})
    /\ category' = MoveToFile(category, c, NoCategory)
    /\ canDeleteShares' = MoveToFile(canDeleteShares, c, {})
    /\ workerShares' = MoveToFile(workerShares, c, NoHashes)
    /\ balance' = MoveToFile(balance, c, NoRewards)
    /\ reward' = MoveToFile(reward, c, NoRewards)
    /\ valid' = MoveToFile(valid, c, {})
    /\ donors' = MoveToFile(donors, c, {})
    /\ gross' = MoveToFile(gross, c, NoRewards)
    /\ retry' = MoveToFile(retry, c, 0)
    /\ UNCHANGED <<redis, node, sharesAt, creditedWith, paid, deducted>>

(* Someone runs the commands of the file, as the log asks.                 *)
RunCommandsFile ==
    /\ pc[CommandsFile] = "failed"
    /\ Execute(CommandsFile)
    /\ Forget(CommandsFile)
    /\ UNCHANGED <<node, timer>>

-----------------------------------------------------------------------------
(* The process ends, in mid-cycle or between cycles, and is started again. *)
(* What is left is the file.                                               *)
Survives(f, empty) == [s \in Slots |-> IF s = CommandsFile THEN f[s] ELSE empty]

Restart ==
    /\ timer' = "starting"
    /\ pc' = Survives(pc, "idle")
    /\ rounds' = Survives(rounds, {})
    /\ category' = Survives(category, NoCategory)
    /\ canDeleteShares' = Survives(canDeleteShares, {})
    /\ workerShares' = Survives(workerShares, NoHashes)
    /\ balance' = Survives(balance, NoRewards)
    /\ reward' = Survives(reward, NoRewards)
    /\ valid' = Survives(valid, {})
    /\ donors' = Survives(donors, {})
    /\ gross' = Survives(gross, NoRewards)
    /\ retry' = Survives(retry, 0)
    /\ UNCHANGED <<redis, node, sharesAt, creditedWith, paid, deducted>>

(* The batches that have been sent and not been written.                   *)
OpenBatches ==
    [w \in Workers |->
        SumFunctionOnSet([c \in Cycles |-> IF pc[c] = "commit" THEN gross[c][w] ELSE 0],
                         Cycles)]

(* Whoever starts it again runs the commands of the file first, as the log *)
(* asks, if that is not what goes wrong.                                   *)
Crash ==
    /\ "crash" \in Faults
    /\ timer # "starting"
    /\ pc[CommandsFile] = "idle" \/ "early_restart" \in Faults
    /\ unrecorded' = [w \in Workers |-> unrecorded[w] + OpenBatches[w]]
    /\ Restart

(* Somebody starts a processor again that has disabled itself.             *)
StartAgain == timer = "off" /\ Crash

(* moveSharesToCurrent throws in a callback: the process ends.  This loses *)
(* the record of the batch too, but it is the program's own doing.         *)
CommitThrows(c) ==
    /\ pc[c] = "commit"
    /\ SharesMissing(c)
    /\ Restart
    /\ UNCHANGED unrecorded

-----------------------------------------------------------------------------
(* The surroundings.  The share processor ends a round with a block: the   *)
(* current shares become the shares of its height and the block is         *)
(* pending.  The chain has one block of a height; the wallet does not know *)
(* the coinbase of a block that was never part of it.                      *)
OnChain(height) ==
    \E b \in Blocks : HeightOf[b] = height /\ chain[b] \in {"immature", "generate"}

FindBlock(b) ==
    /\ chain[b] = "unmined"
    /\ \E shares \in RoundHashes :
        LET hash == [w \in Workers |-> roundCurrent[w] + shares[w]]
        IN  /\ roundShares' = [roundShares EXCEPT ![HeightOf[b]] = hash]
            /\ sharesAt' = [sharesAt EXCEPT ![b] = hash]
    /\ roundCurrent' = NoShares
    /\ blocksPending' = blocksPending \cup {b}
    /\ \E view \in {"immature", "kicked"} :
        /\ view = "immature" => ~OnChain(HeightOf[b])
        /\ chain' = [chain EXCEPT ![b] = view]
    /\ UNCHANGED <<balances, payouts, blocksConfirmed, blocksOrphaned, wallet, reorgs,
                   timer, pc, local, creditedWith, paid, deducted, unrecorded>>

(* A coinbase matures: its reward can be spent, and it is there to stay.   *)
Mature(b) ==
    /\ chain[b] = "immature"
    /\ chain' = [chain EXCEPT ![b] = "generate"]
    /\ wallet' = wallet + BlockReward
    /\ UNCHANGED <<redis, reorgs, timer, pc, local, history>>

(* The chain drops a block that has not matured, or takes one in.          *)
Reorg(b) ==
    /\ reorgs < MaxReorgs
    /\ \/ /\ chain[b] = "immature"
          /\ chain' = [chain EXCEPT ![b] = "orphan"]
       \/ /\ chain[b] \in Lost
          /\ ~OnChain(HeightOf[b])
          /\ chain' = [chain EXCEPT ![b] = "immature"]
    /\ reorgs' = reorgs + 1
    /\ UNCHANGED <<redis, wallet, timer, pc, local, history>>

-----------------------------------------------------------------------------
CycleStep(c) ==
    \/ ReadRounds(c) \/ StopCycle(c) \/ ClassifyRounds(c) \/ ReadShares(c)
    \/ LookupAddresses(c) \/ GetBalance(c) \/ BalanceUnknown(c)
    \/ SendAccepted(c) \/ SendInsufficient(c) \/ SendFailed(c)
    \/ Commit(c) \/ CommitFails(c) \/ CommitThrows(c)

Surroundings == \E b \in Blocks : FindBlock(b) \/ Mature(b) \/ Reorg(b)

Next == SetupForPool \/ ReloadPool \/ Crash \/ RunCommandsFile \/ Surroundings
            \/ \E c \in Cycles : CycleStep(c)

Spec == Init /\ [][Next]_vars

(* A step that only something going wrong explains: deferring the workers  *)
(* because the balance is not known is no fault where the known balance    *)
(* would have paid nobody either.  Network fees that no retry withholds    *)
(* enough for count as one.                                                *)
FaultStep ==
    \/ Crash /\ timer # "off" /\ \A c \in Cycles : ~CommitThrows(c)
    \/ SetupForPool /\ timer' = "off"
    \/ \E c \in Cycles :
        \/ StopCycle(c) \/ CommitFails(c)
        \/ BalanceUnknown(c) /\ ~GetBalance(c)
        \/ SendFailed(c) /\ ~SendInsufficient(c)
        \/ SendInsufficient(c) /\ RetriesUsed(c)
        \/ LookupAddresses(c) /\ valid'[c] # Resolvable
        \/ /\ ClassifyRounds(c)
           /\ \E b \in rounds[c] \ rounds'[c] : chain[b] \in Settled

(* Fairness: setInterval keeps firing, the daemon and Redis answer every   *)
(* call in the end, the chain buries what it keeps; somebody runs the file *)
(* and starts a disabled processor again; and what goes wrong, for however *)
(* long, does not go wrong for ever.                                       *)
Fairness ==
    /\ WF_vars(SetupForPool)
    /\ WF_vars(RunCommandsFile)
    /\ WF_vars(StartAgain)
    /\ \A c \in Cycles : WF_vars(CycleStep(c))
    /\ \A b \in Blocks : WF_vars(Mature(b))
    /\ <>[][~FaultStep]_vars

FairSpec == Spec /\ Fairness
-----------------------------------------------------------------------------
(* Every variable has the type the code gives it. *)
RedisTypeOK ==
    /\ balances \in [Workers -> Int]
    /\ payouts \in [Workers -> Nat]
    /\ blocksPending \subseteq Blocks
    /\ blocksConfirmed \subseteq Blocks
    /\ blocksOrphaned \subseteq Blocks
    /\ roundShares \in [Heights -> ShareHash]
    /\ roundCurrent \in ShareHash

NodeTypeOK ==
    /\ chain \in [Blocks -> ChainView]
    /\ wallet \in Nat
    /\ reorgs \in 0..MaxReorgs

LocalTypeOK ==
    /\ rounds \in [Slots -> SUBSET Blocks]
    /\ category \in [Slots -> [Blocks -> Category]]
    /\ canDeleteShares \in [Slots -> SUBSET Blocks]
    /\ workerShares \in [Slots -> [Blocks -> ShareHash]]
    /\ balance \in [Slots -> [Workers -> Int]]
    /\ reward \in [Slots -> [Workers -> Nat]]
    /\ valid \in [Slots -> SUBSET Workers]
    /\ donors \in [Slots -> SUBSET Workers]
    /\ gross \in [Slots -> [Workers -> Nat]]
    /\ retry \in [Slots -> 0..MaxRetries]

HistoryTypeOK ==
    /\ sharesAt \in [Blocks -> ShareHash]
    /\ creditedWith \in [Blocks -> Seq(ShareHash)]
    /\ paid \in [Workers -> Nat]
    /\ deducted \in [Workers -> Nat]
    /\ unrecorded \in [Workers -> Nat]

TypeOK ==
    /\ RedisTypeOK
    /\ NodeTypeOK
    /\ timer \in {"starting", "on", "twice", "off"}
    /\ pc \in [Slots -> Stage]
    /\ LocalTypeOK
    /\ HistoryTypeOK

(* Lines 670-683: a block the pool found is in exactly one of the three    *)
(* lists, whatever two cycles that saw the chain at different times write. *)
FiledOnce ==
    /\ blocksPending \cup blocksConfirmed \cup blocksOrphaned
          = { b \in Blocks : chain[b] # "unmined" }
    /\ blocksPending \cap (blocksConfirmed \cup blocksOrphaned) = {}
    /\ blocksConfirmed \cap blocksOrphaned = {}

(* Lines 284 and 304-314: rewards are paid from coinbases that have        *)
(* matured, never from one the chain can still drop.                       *)
ConfirmedMatured == \A b \in blocksConfirmed : chain[b] = "generate"

(* Lines 614-619: nothing is taken off a balance that is not there: no     *)
(* balance goes below zero.                                                *)
NoOverdraft == \A w \in Workers : balances[w] >= 0

(* Lines 358-371 and 679: a confirmed block is credited exactly once, by   *)
(* the shares of the round that found it; no other block is credited.      *)
CreditExact ==
    \A b \in Blocks : creditedWith[b] = IF b \in blocksConfirmed
                                        THEN << sharesAt[b] >> ELSE << >>

(* Lines 578-587, 614-619 and 714-724: when no cycle is between sendmany   *)
(* and Redis, and no commands wait, what the wallet has sent has been      *)
(* taken off the balances exactly once, but for the batches whose record   *)
(* was lost: by the answer of sendmany, or by the end of the process       *)
(* before the MULTI.                                                       *)
PaidIsDeducted ==
    (\A s \in Slots : pc[s] \notin {"commit", "failed"})
        => \A w \in Workers : paid[w] = deducted[w] + unrecorded[w]

(* Lines 358-371, 405-418 and 475-478: what is in the balances and what    *)
(* has been taken off them for payments add up to the rewards of the       *)
(* confirmed blocks, each counted once, also when debts move between       *)
(* workers, batches fail or the process ends.                              *)
FundsConserved ==
    SumOver(balances) + SumOver(deducted)
        = SumFunctionOnSet([b \in Blocks |-> SumOver(RewardSplit(BlockReward, sharesAt[b]))],
                           blocksConfirmed)

-----------------------------------------------------------------------------
(* Lines 138-145, 282-284, 679: a pending block that matures and that the  *)
(* chain never dropped is credited in the end, whatever fails on the way.  *)
MaturedIsCredited ==
    \A b \in Blocks : [](chain[b] \notin Lost)
        => (chain[b] = "generate" ~> b \in blocksConfirmed)

(* Lines 251-254, 304-310, 672: a lost block leaves the pending list,      *)
(* unless the chain takes it in again.                                     *)
LostIsFiled ==
    \A b \in Blocks : chain[b] \in Lost
        ~> (chain[b] \notin Lost \/ b \in blocksOrphaned)

(* Lines 405-413: spendable funds that would pay a worker do not lie idle  *)
(* for ever: when the wallet holds the minimum and a worker with an        *)
(* address is owed it, a payment is made.                                  *)
SomeonePayable ==
    /\ wallet >= MinPayment
    /\ \E w \in Resolvable : balances[w] >= MinPayment

FundsReachMiners == SomeonePayable ~> ~SomeonePayable
=============================================================================
