# Formal models of the Defcoin pool, explorer and node setup

This directory holds TLA+ models of the programs that `defcoin-setup`
installs, the TLC runs that check them on small instances, and proofs, checked
by TLAPS, of the properties that matter most.  The models are translated from
the source; a line number without a path is one of the file under discussion.

Contents: 1 the system, 2 the modules and how they correspond to the code,
3 the runs and their bounds, 4 fairness, 5 the proofs, 6 where the code and
what is said about it disagree, 7 what is left out, 8 the plan.

## 1. The system

The repository installs a Defcoin node, a mining pool (UNOMP, with a patched
payment processor and the stratum library `merged-pooler`), a block explorer
(eIquidus, with a patched synchronisation) and some scripts that systemd
timers start.

```
   miners --stratum--> pool.js --submitblock--> defcoind <--RPC-- sync.js --> MongoDB
                         | 'share'                 ^  ^  ^
                         v                         |  |  +-- wait-for-defcoind.sh
              UNOMP share processor                |  +----- blocknotify-push.sh
                         | shares, blocksPending   |
                         v                         |
                       Redis <---> paymentProcessor.js
                         ^
                         +-- reconcile-blocksConfirmed.py (hourly)
```

### Payment processor — `patches/unomp-pool/libs/paymentProcessor.js`

*State.*  In Redis: `balances` and `payouts` by worker, three sets of blocks
(`blocksPending`, `blocksConfirmed`, `blocksOrphaned`), the share hashes
`shares:round<height>` and `shares:roundCurrent`.  In memory, one set of
variables for every cycle: workers, rounds, the valid addresses, the batch.
In the file system: `<coin>_finalRedisCommands.txt` after a failed write.

*Operations.*  `SetupForPool` (72-147) validates the pool address and sets the
timer.  `processPayments` (153-738) is a waterfall of five steps: read
balances and pending blocks; classify the blocks by `gettransaction`; read the
shares and split matured rewards; look the payout addresses up, redistribute
large debts without an address, allocate the spendable balance smallest debt
first, `sendmany`, retry with a larger withheld fee; write everything in one
MULTI.

*What is hard.*  Five kinds of asynchronous calls, each with an error path of
its own; nothing keeps the timer from starting a cycle while another waits for
the wallet; what was read in the first step is written back in the last; the
process may end between `sendmany` and the MULTI; a lost answer of `sendmany`
looks like a refusal.

*Correct means*: what is sent is deducted, once; a block is credited
exactly once and by the shares of its round; a lost block's shares go back to
the current round, none is lost or counted twice; every block is filed exactly
once, as confirmed only when matured; money is neither made nor lost; and in
the end matured blocks are credited, lost blocks filed and payable debts paid.

### Reconciliation — `scripts/reconcile-blocksConfirmed.py`

*State.*  None that survives a run; it reads and writes `balances`,
`blocksConfirmed` and `blocksOrphaned` of the pool.  *Operations*: an hourly
run asks the node for the hash at the height of every confirmed entry, takes
the reward of every entry with another hash off its finder's balance and moves
the entry to `blocksOrphaned`.  *What is hard*: the payment processor and the
chain go on during the run; a run may end between a debit and its move.
*Correct means*: only blocks that left the chain are debited; what was
credited is what is taken back, once; a lasting phantom is found.

### Stratum pool — `patches/merged-pooler/lib/pool.js`, `daemon.js`

*State*: the block template and current job, the jobs shares are taken for,
the broadcast timer, shares under way, and what each daemon has answered so
far.  *Operations*: start (interfaces, detection of the coin, wait for the
synchronised chain, first job); new templates by poll, block notification,
broadcast timeout or force; share handling with `submitblock` to every daemon
and a look at the block afterwards.  A share is announced by the 'share' event,
a found block also by the 'block' event (436), accepted or not; the share
processor files what the first says, and no code in this repository listens to
the second.  `daemon.js` sends a
call to one daemon or to all, and hands over results together or as they come.
*What is hard*: calls whose callback never comes (an answer that cannot be
parsed, HTTP 401), answers of several daemons in any order, a share whose
block one daemon takes and another does not, a process that ends with a block
under way.  *Correct means*: a block that was found is never given up by
mistake and comes to be recorded; miners come to work on the tip; a start
comes to serve.

### Merged mining — `patches/merged-pooler/lib/pool.js`

*State*: the work of every auxiliary chain, one flag that tells whether any of
it is new, submissions under way.  *Operations*: `UpdateAuxes` every five
seconds (61-84), submission of a proof, look-up and announcement (295-402).
*What is hard*: updates overlap and share the flag; an error ends an update
early; the work changes between a submission and the look at its result.
*Correct means*: a block that was taken is announced; new work reaches the
miners; the parent chain is not disturbed.

### Coinbase outputs — `pool.js` 337-362, `transactions.js`

Pure computation in a loop: masternodes, superblock, payee, recipients, and
the pool gets what is left.  *Correct means*: nothing of the value of a block is
lost or invented, the recipients get the fee that is announced, no amount is negative.

### Explorer synchronisation — `patches/eiquidus/scripts/sync.js`, `lib/node.js`

*State*: in MongoDB the `txes`, `addresses`, `addresstxes`, `orphans` and
`peers` collections and the positions `last`, `orphan_index` and
`orphan_current` of `coinstats`; a lock file.  *Operations*: a run indexes the
blocks from the last one to the tip (`block_sync` 849-901), then walks up from
where the previous run left off and repairs the heights whose transactions
belong to dropped blocks (`update_orphans` 80-376,
`check_block_height_for_fork` 434-485); the peer list (903-1110); the modes of
the command line (1229-1394).  systemd starts a run again 30 seconds after
every end.  *What is hard*: the chain reorganises while a run walks; forks are
found going up and resolved going down, and only a position or two is saved;
a repair deletes, looks up and adds one transaction at a time and may be
interrupted anywhere; a lock that is tested and then taken; an RPC queue that
a lost answer blocks.  *Correct means*: no dropped block is left behind the
position where the next run starts; what is removed is recorded as an orphan;
in the end the index is the index of the best chain.

### Explorer pages — `patches/eiquidus/lib/database.js`

*State*: `coinstats`, `richlist`, `networkhistory`, `claimaddresses`.
*Operations*: `update_db` (1659-1703), `update_richlist` (958-1126),
`update_network_history` (1514-1625) at the end of "index update", the same
after deleting the list in "index reindex-rich" (`sync.js` 1287-1323), and, in
the web server, the claim of a name (716-806).  *What is hard*: each step is a
query of its own that may fail while the run goes on; the server reads a whole
list and writes it back; the supply is older than the list, because
`03-setup-explorer.sh` 136 sets it to `COINBASE`, what the index holds of the
coinbase, which a run asks for before it indexes its blocks; burned addresses
are taken off a query that is limited.  *Correct means*: a list is a ranking of
some height of the index, no coin is counted twice, and the pages come to show
the chain, with what is left for all other addresses not negative.

### Seed DNS — `scripts/update-seed-bootstrap-dns.py`

*State*: the A records at Cloudflare; a run keeps what it has read.
*Operations*: ask two nodes for their peers, list the records, add, remove.
*What is hard*: any call may fail and ends the run; a run by hand beside the
timer's.  *Correct means*: the name never becomes empty by a run of its own,
what the relay node knows stays published, the records come to be what the
nodes know.

### Block relay, start order — `scripts/*.sh`, `systemd/`

`blocknotify-push.sh` relays a block notification to the pool once;
`wait-for-defcoind.sh` holds the services back until the node answers.

### Installation scripts, pages

Sequential shell scripts that copy and configure files, and static text.

## 2. The modules

| Module | Models |
|---|---|
| `PayoutAllocation` | the arithmetic of a cycle, as operators: reward split, allocation, withheld fee, redistribution |
| `PaymentProcessor` | the payment processor with any number of cycles, the wallet, the chain and the share processor around it, every fault |
| `PayoutStep` | the fourth step of a cycle callback by callback |
| `Reconcile` | the reconciliation script call by call, with a payment cycle and reorganisations around it |
| `OrphanSync` | the explorer's index update and fork repair call by call, with a chain that grows and reorganises and a process that may end anywhere |
| `PoolLedger` | the abstract specification of the payment processor: a ledger of blocks, shares and debts that is kept in one step per entry |
| `PaymentLedger` | the refinement mapping from `PaymentProcessor` to `PoolLedger` |
| `StratumPool` | the pool from its start to the recorded block, with several daemons |
| `MergedMining` | `StratumPool` composed with the auxiliary chains |
| `CoinbaseOutputs` | the split of a block's value into outputs |
| `ExplorerPages` | rich list, distribution and network history, made by `sync.js` and changed by the web server |
| `SeedDns` | the seed DNS script, with runs that overlap |
| `MC...` | small instances of the module of the same name |
| `SumLemmas` | lemmas: sums of a function over a finite set |
| `PaymentProcessorProofs`, `PayoutStepProofs`, `ReconcileProofs`, `OrphanSyncProofs`, `PoolProofs`, `ExplorerPagesProofs`, `SeedDnsProofs` | theorems and proofs; `PoolProofs` is about `StratumPool`, `MergedMining` and `CoinbaseOutputs` |

### `PaymentProcessor`

An action is one callback of the code, because Node runs one at a time.

| Action | Code | What it does |
|---|---|---|
| `SetupForPool` | 95-147 | the timer is set, or is not: a failed setup is not tried again by itself |
| `ReloadPool` | 16-48 | a 'reloadpool' message sets the pool up once more; an interval that is there stays, so that two may run |
| `ReadRounds(c)` | 163-217 | cycle `c` starts: balances and pending blocks in one MULTI |
| `ClassifyRounds(c)` | 221-320 | the wallet's view of every pending block; an "odd error" leaves a block for another cycle |
| `ReadShares(c)` | 325-378 | the share hashes; rewards of matured rounds |
| `StopCycle(c)` | 230-238, 335-339 | a batched read fails, the cycle ends |
| `LookupAddresses(c)` | 387-491 | all `getaddressinfo` answers; redistribution of large debts |
| `GetBalance(c)` / `BalanceUnknown(c)` | 492-576 | the allocation, or everybody deferred |
| `SendAccepted(c)`, `SendInsufficient(c)`, `SendFailed(c)` | 577-621 | the batch is sent; error -6, retried up to `MaxRetries` times; any other error, among them the lost answer of a batch that was sent |
| `Commit(c)` / `CommitFails(c)` / `CommitThrows(c)` | 627-728 | the final MULTI as a whole; the commands go to the file and the interval is cleared, one of two or, after a reload, one cleared before (`ClearInterval`); `moveSharesToCurrent` throws on a share hash that is gone |
| `RunCommandsFile` | 718-724 | somebody runs the file, as the log asks for |
| `Crash`, `StartAgain` | — | the process ends and is started again; cycles are gone, Redis and the file remain.  Whoever starts it runs the file first, as the log asks, unless the fault `early_restart` is among those of the instance |
| `FindBlock`, `Mature`, `Reorg` | external | the share processor files a block; a coinbase matures; the chain drops an immature block or takes one in |

The variables of all cycles are functions of `Slots`: the cycles, and one slot
for the commands file, which holds what a cycle knew when its MULTI failed.
`sharesAt`, `creditedWith`, `paid`, `deducted` and `unrecorded` are history: no
guard reads them, they state what the properties compare.  `unrecorded` is the
sum of the batches whose record was lost between `sendmany` and Redis: the
answer was lost, the process ended, or a second file replaced the first.

A matured coinbase cannot be dropped any more in this model (`Mature`); the
deeper reorganisation that the reconciliation script exists for is modelled in
`Reconcile`.

### `PoolLedger` and `PaymentLedger`

`PoolLedger` says what the processor promises without its cycles, reads and
failures: `Find(b)` ends a round, `Enter(won, lost)` credits the blocks that
were won by the shares that wait for them, gives the shares of the lost ones
back to the current round and pays some of the debt, all at once.  An entry
may not make or lose money, pay less than the minimum, push a debt below zero
or take a debt off somebody who is not paid, but for a large one that is given
away whole.  The mapping is what Redis holds: the three sets are the status,
the share hashes the stake, `balances` the debt.  Every other action of
`PaymentProcessor` is a stutter.  So the promise is kept by a program whose
cycle is spread over many callbacks, in any of which it may end.

### `PayoutStep`

The same fourth step with one action per answer.  `LookupAnswered` and
`LastLookupAnswered` let the lookups answer in any order, so that
`validResults` is a sequence in the order of the answers and its stable sort
means what it means in the code; `BalanceAnswered` and `BalanceFailed` are the
two ways out of `getbalance`; `SendAccepted`, `SendRetried` and `SendDeferred`
those of `sendmany`.  Several workers may have one address; the batch holds
one amount for each address.

### `Reconcile`

`Start`, `Skip`, `CheckEntry`, `NothingToApply`, `ReverseCredit` and
`MoveEntry` are the script's calls; `Killed` ends it between any two of them.
The payment processor is one cycle in three steps: `ReadRounds` reads balances
and pending blocks, `ClassifyRounds` asks for the blocks, `Commit` is the final
MULTI, which writes what the earlier steps saw, in part or in full; `CycleEnds`
is an error before it.  `Reorg` changes the block of a height at any time, also
between these steps.  `AskHeight` is `getblockhash` with its `except` (97-100);
what every worker gets of a reward is rounded down (`Splits`).  The
script visits entries in the order SMEMBERS returns them, which is none: the
model takes any order.

### `OrphanSync`

| Action | Code | What it does |
|---|---|---|
| `Start` | `database.js` 1659-1703 | `update_db`: the height of the tip; indexing starts at `last` |
| `IndexBlock`, `StopIndexing` | 849-863 | `update_tx_db` from `last` to the tip, a block at a time (`batch_size` is 1); a stop ends the run |
| `FindEarliest` | 378-432 | where the walk begins; the first time at the lowest height with two blocks, or at the tip |
| `CheckHeight` | 99-176, 286-300, 434-485 | saves the position now and then; a good height is passed, or, with forks below it, leads back to the last of them; a fork is remembered, or repaired if the good hash is known |
| `FindGood` | 136-163 | the block above the last fork names the good one |
| `CreateOrphan(b)`, `DeleteTx(t)`, `ReaddTx`, `OrphanDone` | 179-232, 487-580 | a dropped block is recorded, its transactions are deleted one by one and looked up again in case they are in another block |
| `AddMissing`, `SaveRepair` | 232-277 | the good block is indexed, the position saved |
| `Finish`, `Abort` | 163-168, 305-372 | the end of the walk, with and without saving the position |
| `Stop`, `Crash` | 21-37, — | SIGTERM; the process ends where it is |
| `Extend`, `Reorg` | external | the chain grows; it leaves its last blocks for a longer chain |

Errors of calls and queries are disjuncts of the action that makes the call.
A block stands for its hash; the tree of blocks is a constant.
`block_sync.js` is not in the repository: `WithBlock` says what
`update_tx_db` is called for.  `indexed`, `fromScratch`, `torn` and `failed`
are history.

### `StratumPool`

| Action | Code | What it does |
|---|---|---|
| `SetupDaemonInterfaces`, `DetectCoinData`, `CheckSynced`, `UpdateAuxes`, `StartFails` | 40-114, 144-199, 452-595 | the chain of callbacks of `start`; a call without an answer ends it for good |
| `AskFor` in `Poll`, `ProcessBlockNotify`, `BroadcastTimeout`, `CheckBlockAccepted` | 607, 693-721, 787-797 | `getblocktemplate` is asked of every daemon |
| `TemplateArrives(m)`, `TemplateFails(c, d)` | 722-737; `daemon.js` 51-108 | each answer is handled as it comes: a new job, a job of the same block, or nothing; the timer that a broadcast sets |
| `PlainShare`, `BlockShare` | 380-427, 257-276 | a share is emitted, or its block is sent to every daemon |
| `Submitted`, `SubmitFails`, `SubmitDone` | 276-292 | a daemon takes the block, has it, refuses it; its answer is an error, or lost, or never comes; all answers together decide whether the block is looked up |
| `CheckBlockAccepted` | 428-445, 761-785 | the block is looked up, the share emitted, as a block or not, and the 'block' event after it, either way |
| `Crash` | — | the process ends and UNOMP forks it again; a share before the first auxiliary work throws (410) |
| `Synchronised`, `NetworkBlock`, `CatchUp`, `TemplateBuilt`, `NoticeLost` | external | the daemons |

`daemon.js` is part of these actions: `cmd` with streamed results is `AskFor`
and `TemplateArrives`, without them `SubmitDone` (`AllAnswered`); the paths of
`performHttpRequest` that never call back are the answers `"silent"` and the
lost requests.  `UpdateAuxes` is what the parent chain sees of `MergedMining`;
without auxiliary chains it asks for the first job at once.

### `MergedMining`

It extends `StratumPool` with `FirstUpdate`, `IntervalUpdate`, `WorkArrives`,
`WorkFails` (`UpdateAuxes` and `GetAuxWork`, 61-84 and 741-760), `MergedShare`,
`AuxSubmitted`, `SubmitAuxAnswered`, `AuxResult` and `SubmitAuxFails` (295-402)
and the auxiliary daemons.  An update may be ahead of the final callback of
`async.each`, be over without it, or get answers after it.  `ParentUndisturbed`
is the specification of `StratumPool`: the composition implements it.  `missed`
is history: the blocks that were taken and whose answer was lost, or was
handled after newer work had come (329).

### `CoinbaseOutputs`

`SetupRecipient` (341-361) reads one configured fee; `Begin`, `PayPart`,
`Superblock`, `PayPayee`, `PayRecipient`, `PayPool` write the outputs one after
the other (`transactions.js` 126-253).  A percentage of the reward that is a
whole number may come out one satoshi less in floating point.

### `ExplorerPages`

| Action | Code | What it does |
|---|---|---|
| `Start`, `SaveStats` | 1659-1703 | height, then the `COINBASE` supply of the index so far; an unanswered supply is stored as 0 |
| `IndexBlock` | `sync.js` 849-859 | `update_tx_db`, a block at a time |
| `DeleteRichlist`, `CreateRichlist` | 1328-1357, `sync.js` 1288-1300 | reindex-rich; both go on after an error, and a list created beside one that was not deleted is one of `spares`, which surface when the first is deleted |
| `ReadReceived`, `WriteReceived`, `ReadBalance`, `WriteBalance` | 958-1126 | a query and an update each |
| `SaveHistory`, `PruneHistory` | 1514-1603 | an entry for the indexed height; all but the newest are deleted, or those whose block is older than some hours, which may be all |
| `Claim`, `ReadRichlist`, `WriteRichlist`, `ClaimThrows` | 716-806, 58-68 | the web server: a name is claimed, the list is read and written back; without a list the server ends |
| `Initialise`, `RestartServer` | 2237-2248 | a server that starts creates a missing list |
| `Crash`, `Extend` | external | `sync.js` ends anywhere; the chain grows |

The lock of `sync.js` keeps a second run out, so that one program counter is
enough; the server is a second process.

### `SeedDns`

`GetLocalAddresses`, `GetMainNodeAddresses`, `ListRecords`, `Add`, `Remove`
and `Done` are the calls of a run (72-131), of which `Runs` may overlap: the
timer's and one by hand, which may also be a dry run.  A call that fails may
have had its effect.  `Gossip` changes what a node knows at any time.

## 3. The runs

Runs that pass:

| Run | Checks | Instance |
|---|---|---|
| `payments_restart` | `CreditExact`, `PaidIsDeducted`, `FundsConserved`, `KeepsTheLedger`, `MaturedIsCredited`, `LostIsFiled`, `FundsReachMiners` | one cycle, two blocks of different heights, two workers, one of them without an address; every call may fail, the process may end anywhere, answers of `sendmany` get lost and the MULTI fails |
| `payments_overlap` | `FiledOnce`, `ConfirmedMatured` | two cycles at once, one block, a reloaded pool, crashes, a failing MULTI and restarts that do not wait for the file, funds in the wallet from the start |
| `payout_step` | `StepConserves`, `SmallestFirst`, `NoIdleFunds`, `WithinSpendable`, `StepEnds` | four workers, two of them with one address and one without; four debts each, four wallets, two network fees |
| `reconcile` | `LedgerTotal`, `DebitedForCause`, `PhantomIsMoved` | three blocks, two at one height, one of an old format; rewards of 2 that split into 2 or, rounded down, into 1; two reorganisations, `getblockhash` raising any number of times, payment cycles that end early, one interruption between debit and move |
| `orphan_sync` | `NoForkLeftBehind`, `RemovedIsRecorded`, `StaleIsRemoved`, `IndexCatchesUp` | a tree of twelve blocks on five heights, three branches, two reorganisations of up to two blocks, a transaction in blocks of two branches; one fault of any kind anywhere |
| `pool_blocks` | `TypeOK`, `FoundIsRecorded`, `BlockIsRecorded`, `JobFollowsTip`, `ServesInTheEnd` | two daemons that synchronise, extend the chain and copy each other's blocks; one share that may solve a block; polling that may or may not happen; one fault: a failed start, a lost notification, a failed `submitblock` or `getblock`, the end of the process |
| `pool_merged` | `TakenIsAnnounced`, `AuxWorkReachesJob`, `ParentUndisturbed` | two auxiliary chains with two and one works, one of them within reach of a share; two updates at once; one failed call |
| `coinbase` | `ValueIsConserved`, `FeeIsAdvertised`, `NoNegativeOutput` | every mixture of template parts, values around multiples of five and of a hundred, fees up to 100% over up to three recipients, one of them invalid |
| `explorer_pages` | `ListsAreRankings`, `NoCoinCountedTwice`, `PagesCatchUp` | five addresses (one burned, one hidden), lists of two, three heights with an overtaken address; one claim, two failures anywhere, both settings |
| `seed_dns` | `NeverBlank`, `RelayStaysPublished`, `DnsCatchesUp` | two IPv4 addresses, an IPv6 address, a name; two changes of what the nodes know, one failing call, the timer's run and one by hand |

Two runs find a violation, `payments_double_pay` (`NoOverdraft`) and
`reconcile_rpc_error` (`OnlyPhantomDebited`); see section 6.

What the payment runs show together, and what not.  With one cycle at a time and
blocks of different heights, Redis is right after every step, whatever call
fails and wherever the process ends: no block, share, credit or debt is lost or
counted twice, and nothing is stuck for ever.  It does not follow that miners
are paid once: a batch whose answer was lost, or whose process ended before the
MULTI, was paid, is not deducted and will be paid again.  `PaidIsDeducted` says
that there is no other way to lose a payment, and keeps the account of these
(`unrecorded`); the ledger does not see them, because it only knows
deductions.  Two blocks of one height break the ledger without any
fault (section 6).  With overlapping cycles only the lists of blocks are right:
balances are overdrawn (`payments_double_pay`), and one block may be credited
by both cycles.  `payments_restart` also leaves out a restart while commands
wait in the file, which pays them again, as the log line at 718 warns, and a
reloaded pool, which makes cycles overlap; both are in `payments_overlap`.

What the reconciliation runs show: an exception of `getblockhash` debits good
blocks (`reconcile_rpc_error`), but those of the height that was asked for and
in that run only (`DebitedForCause`); a run that ends between the debit and the move
debits the block twice, once for every such end (`LedgerTotal` counts them).

What the pool runs show: whichever daemon takes a block first and whatever the
other answers, the share of a block that was found is not given up and comes to be
recorded, as long as its own calls are answered (`FoundIsRecorded`,
`BlockIsRecorded`).  A lost
notification does no harm, because the broadcast timeout asks again, in a run
in which no `getblocktemplate` fails (section 6); the deployment
sets no `blockRefreshInterval`, so nothing rests on polls: they are allowed
and not fair.  Auxiliary work that
the shared flag forgets reaches the miners with the next broadcast timeout, and
only with that.
A block that an auxiliary chain took is announced in the end, unless the
answer finds newer work than it was submitted for (`missed`).

What `explorer_pages` shows: at any time the lists are rankings and count no
coin twice, but the supply beside them may be that of an earlier height; once
the chain rests, a run that has nothing to index stores the supply of the list.

The type invariants are theorems (section 5), and only the pool's, on
`pool_blocks`, is a property of a run too.

*Bounds.*  Two blocks let a lost and a matured round be settled in one cycle
and in different ones, and let shares of a lost round be merged into one that
is settled later.  Two workers are a payable one and a donor; the redistribution
among more is the subject of `payout_step` with
four workers.  `MaxReorgs = 2` lets a block be dropped
and taken back, or two blocks be dropped.  `MinPayment`, `Threshold` and
`BlockReward` (500, 700, 1200) are not to scale: they are chosen so that one reward can be below
or above either limit depending on how it is split.  `MaxRetries` is 5 in
`payout_step`, as in the code, and 1 or 2 where cycles interleave.  The share
hashes of a round (`TwoHashes`) are that of a single worker and one of two
workers whose split leaves no remainder at 1200.

In `orphan_sync` a reorganisation drops at most `MaxDepth = 2` blocks, because
the walk of a run starts at the height below the last tip: what a deeper one
drops is outside of what the code looks at (section 7).  Two reorganisations
of that depth on five heights (101 to 105, the root is never dropped) give
one fork, two forks in a row, a fork in a branch that was itself
repaired, and a chain that comes back while the repair is under way;
`LastFork = 103` lets two blocks be found after the last of
them, which the walk needs to tell a good block from a fork.  `SaveEvery = 2`
makes some heights save the position and others not.  One fault is enough to
separate any two steps of a run; `NoForkLeftBehind`, `StaleIsRemoved` and
`IndexCatchesUp` are about databases that have been searched before, while
the run also starts from an empty one.

In `pool_blocks` a chain of two blocks lets a block of the pool be extended,
be beaten by one of the same height, and be mined on a job that is already old;
two daemons let every answer differ.  One share is enough for what a block
goes through, and one `getblocktemplate` at a time (`Calls`) still has the answers of two
daemons come late and in any order.  In `pool_merged` the chain within reach
of the share has two works, so that one can replace the other before, during
and after a submission; `MaxHeight = 0` rests the parent chain, whose movements
are the subject of the other run.

In `explorer_pages` two failures can hit two steps of one run or steps of two
runs, which is what it takes to have received list, balance list and burned coins of
different heights; three heights let an address overtake another and lose a place.  In
`seed_dns` two changes let an address be published, forgotten and learned
again while another run is under way.

*Network fees.*  The network fee is what the wallet needs beyond the batch.
In `payments_restart` it is 1 or 100, the second of which exceeds what the last
retry withholds, so that retries are used up; `FundsReachMiners` assumes that
this does not happen for ever, or it would be false, of the model and of the
pool.  `payout_step` has such a fee (60) too.

*Deadlock* is checked in `payments_restart`, `payments_double_pay`,
`reconcile`, `reconcile_rpc_error`, `orphan_sync`, `explorer_pages` and `seed_dns`,
processes that go on.  It is not in `payments_overlap`, where a cleared timer may stop the processor, in
`pool_blocks` and `pool_merged`, where a start whose call is lost ends in a
pool that does nothing, and in `payout_step` and `coinbase`, where the computation ends.

Every property of a passing run comes with a mutant, an operator called
`Mutant: ...` in the comment before it, that stands for a plausible mistake in
the operator after it; with the mutant in place the property is violated.

## 4. Fairness

`PaymentProcessor!Fairness`: weak fairness of the setup and of every cycle
(`setInterval` keeps firing, the daemon and Redis answer each call in the
end), of `Mature` (the chain buries what it keeps), and of the operator, who
runs the commands of the file as the log asks (`RunCommandsFile`) and starts a
processor again that has disabled itself or failed to set up (`StartAgain`).
Faults may happen any number of times but not for ever: `<>[][~FaultStep]_vars`.
A step counts as a fault only if nothing but a fault explains it; that the
wallet refuses a batch after the last retry, for its network fee, is one.  The code justifies the first
part as far as calls are answered; `daemon.js` 65-86 has a path on which the
callback is never called, which `StratumPool` models.

`PayoutStep` assumes only that each call is answered somehow; `StepEnds` then
holds with any answers.

`Reconcile!FairSpec`: the timer starts the script again and again
(`defcoin-reconcile.timer`, hourly) and the script is not ended early for
ever.  The service is `Type=oneshot`, so two runs never overlap.

`OrphanSync!FairSpec`: weak fairness of the run as a whole
(`Restart=always` in `defcoin-sync.service`, and calls are answered in the
end) and of `Extend`: blocks keep coming, up to the last of the instance.
Faults are bounded by `MaxFaults`.

`StratumPool!Fairness`: a call that is not lost is answered, timers fire (the
broadcast timeout, `checkSynced`), a node that synchronises gets there, and
the daemons exchange blocks in the end.  Nobody has to find a block, and no
notification has to arrive.  `CheckBlockAccepted` and the broadcast timeout are strongly fair because they
ask for a template and the bound on calls under way may be used up by others.
`MergedFairness` has the same for the parent chain's templates, and for the
five-second interval, where some call is answered, not each one; the answers of
an update, and those of a submission and of the look at its block, which starts
an update, are strongly fair for the same reason.  Faults are bounded by `MaxFaults`.

`ExplorerPages!Fairness`: systemd starts "index update" again 30 seconds after
every end, queries are answered, the server finishes what it began, and blocks
come up to the last of the instance.  Nothing is assumed of reindex-rich, the
operator's command.

`SeedDns!Fairness`: the timer starts the script every 20 minutes and every
call ends, with an answer or a timeout.

## 5. The proofs

`SumLemmas` holds what the others cite: what `SumFunctionOnSet` of the
community modules computes, that is, that the sum exists and is unique, what it
becomes when an element or a value changes or is moved to another element, that
it splits over a partition, respects order, and can be taken in either order
over two sets.  An induction is stated over a set that is closed under adding
one element, or over an interval of numbers (`SubsetInduction`,
`IntervalInduction`), with a set in the place of a predicate; that is what the
provers can instantiate.  `RecursionFromZero` gives a recursive function over
`0 .. n` its equations, `SumImage` and `SumSplit` take a sum over the places of
a sequence through a change of the places.

`PaymentProcessorProofs` and `PayoutStepProofs` begin with the arithmetic of
`PayoutAllocation`: types and bounds of every operator, that `RemainingBefore`
is the recursion it says it is, that a redistribution keeps the sum of the debts
(`DebtsMove`), and what a batch takes of the spendable balance (`BatchTakes`,
`BatchPays`).

`PaymentProcessorProofs`, for every number of workers, blocks, overlapping
cycles, all amounts and all faults:

- `TypeCorrect`: `Spec => []TypeOK`, one step per action.
- `BlocksFiledOnce`, `RewardsAreMatured`: from `FilingInv`.  `FiledOnce` and
  `ConfirmedMatured` are not inductive: a cycle carries classifications to a
  later step.  The invariant adds that in every slot that has classified its
  rounds each round is settled, and that a round called `generate` has
  matured, which no later step undoes; the filter of SMOVE does the rest.
- `FundsInv` follows the money through a cycle.  What its rewards, later its
  changes without the payments, add up to is what the rounds it is about to
  confirm are worth (`EarnedIsCredit`), and its batch pays only whom it has
  looked up, at most what it read.  It needs no exclusion between cycles,
  because it counts every credit that is written (`CreditsAdd`).

The same module, for processors with one cycle at a time
(`OneAtATime`), blocks of different heights (`DistinctHeights`), and neither a
restart that does not wait for the commands file nor a reload of the pool
(`FaultsApart`); a crash, a lost answer and a failing MULTI may all happen:

- `SafetyInvariant`: `SafetyInv` is inductive.  Its parts: at most one slot is
  in use, and the file only with the timer off (`Exclusive`); the shares of a
  pending block are still under its height (`SharesKept`); what a cycle has
  read is still so (`ViewCurrent`); its batch is within the debts
  (`BatchWithinDebts`).  The second and third are why the write of the last
  step is right although it uses what was read in the first.
- `BalancesCover` and `BlocksCreditedOnce` follow from it; the first says that
  the violation of `payments_double_pay` takes overlapping cycles.  It is no
  claim that nobody is paid twice.
- `MoneyIsConserved`: every block has been credited exactly once, so that
  the credits that `FundsInv` counts are the rewards of the confirmed blocks.
- `PaymentsAreDeducted` uses `PaidInv`: between `sendmany` and the MULTI the
  difference of what was sent and what was deducted or lost is the open batch.
- `CyclesKeepTheLedger`: the processor implements `PoolLedger`.  `FindBlock` is
  `Find`, the MULTI of `Commit` is one `Enter` of the whole cycle, and every
  other action leaves the ledger alone.  That `Enter` is allowed needs
  `SafetyInv` (the rounds are still pending and hold the shares that were
  read), `FundsInv` (the entry keeps the sum) and `DebtsInv`: nobody is granted
  less than his share but a donor of a large debt, and no payment is below
  the minimum.

`PayoutStepProofs`, for any workers, debts, fees, wallet answers and retries:
all four invariants of `PayoutStep` follow from `StepInv`.  It says that the
debts are redistributed only with the last answer, that from then on every
attempt allocates the same batch (`BatchInv`), and what the changes will come
to when nothing is sent any more (`ChangeInv`).

- `StepTypeCorrect`, and `StepLosesNothing` from `ChangeInv` and `DebtsMove`.
- `SmallDebtsFirst`, `FundsAreUsed`, `BatchesAreCovered`: what is left falls along
  the order (`RemainingFalls`), and whoever is paid in part is the last of it
  (`PartIsLast`); the batch is a partition of what was there before it.

`ReconcileProofs`:

- `ReconcileTypeCorrect`: `Spec => []TypeOK`.
- `NoDebitWithoutCause`, without assumptions.  `PhantomInv` says that every
  confirmed block off the chain, every entry whose cached hash is another, and
  every mismatch has left the chain since it was confirmed, or its height was
  asked for in vain in this run.
- `LedgerBalances`, without assumptions on the splits: what rounding down loses
  is a term of the sum.  The sum is one reward short between a debit and its
  move (`MoneyAdds`); that the entry of the move is still confirmed is
  `ListedAreConfirmed`.

`OrphanSyncProofs`, for any tree of blocks and reorganisations of any depth:

- `SyncTypeCorrect`: `Spec => []TypeOK`, with `WalkInv`: positions are above
  zero during a run and the list of unresolved forks is not empty when the
  walk goes back to one of them.
- `RemovedBlocksRecorded`: from `RecordInv`.  `RemovedIsRecorded` is not
  inductive: that a transaction may be deleted depends on its still
  belonging to the orphan recorded before, and that the transaction looked up
  again cannot push another block out depends on its having been
  deleted.
- `NothingLeftBehind`, for any number of faults and reorganisations, under two
  conditions.  `ShallowReorgs`: the chain drops at most its last two blocks; a
  deeper one may drop a block below where the next walk starts.  `LongChain`:
  the explorer starts with a chain longer than `MaxFaults + 1`.  A run that is
  stopped before its first height saves the height before it (356), so that
  every stop may lose one; a position of 0 means "nothing has been searched
  yet", and the next run would skip to the lowest fork or to the tip.
  TLC finds `NoForkLeftBehind` violated when either condition is dropped: in
  the run's tree with `MaxDepth` 3 and `LastFork` 104, or with a chain that
  starts at height 2.
  The invariant `SearchedInv` says of every block the chain has dropped before
  the run began that its height is still ahead of the walk, or in
  `unresolved`, or being repaired with the block among the hashes to be
  resolved; that a block it is resolving has no transaction left but those
  it is about to delete; that the good hash is the chain's or as high as the
  tip; and that `unresolved` is ascending, so that its first is the position
  to save.

`PoolProofs`, for any daemons, shares, heights and faults:

- `PoolTypeCorrect`: `Spec => []TypeOK`, with `PoolInv`: a share whose block
  is being submitted or looked up was mined on a job.
- `FoundBlocksRecorded` from `FoundInv`, which follows a block: what a job builds
  on, some daemon has (`TipHeld`, `WorkHeld`); that daemon takes the block or
  has it already, so that no answer turns the share down (`Arriving`,
  `NotTurnedDown`); no daemon loses a block (`DaemonsGrow`), so that one of them
  returns it when it is looked up.

and for any auxiliary chains and overlapping updates:

- `MergedMiningImplements`: the composition implements `StratumPool`.  The
  step simulation `StepRefines` needs `StageInv`: the first update is under way
  only in the stage before the first template, updates of the interval and
  submissions only while the pool serves.  Without it an answer might
  ask for a second first template, which `StratumPool` does not allow.
  `FoundBlocksRecordedMerged` carries the theorem of the pool over.
- `MergedTypeCorrect`.

and for any template, payees, fees and invalid addresses of a coinbase
transaction:

- `CoinbaseConserved`, `CoinbaseFee`, `CoinbaseSigns` from `CoinbaseInv`.  What has
  been written and what the pool is still to get are the value of the block
  (`ValueInv`); the recipients paid so far, who hold the last places, have got
  their percentages of the reward less a satoshi each, and the pool's share is
  less by that sum (`FeesInv`); the parts of the template that are still to be
  deducted are there (`SignInv`).  The properties speak of the finished
  transaction, the invariant of every place of the list before it.

`ExplorerPagesProofs`, for any addresses, settings, claims and failures, and any
chain whose supply never falls (`SupplyAssumption`):

- `PagesTypeCorrect`: `Spec => []TypeOK`.
- `ListsRanked` from `RankInv`: what is in the database, what the server has
  read and will write back, and what the run has read are rankings of some height
  of the index.  The last needs most of the work: the loop of lines
  1093-1106 drops the omitted addresses from a query of limited length
  (`ShownIsPicked`), and what it keeps is the top of the others because the
  limit of the query has room for all that are dropped (`ShownIsTop`).
- `CoinsCountedOnce` from `SumInv`: the balance list and the burned coins beside
  it take no address twice (`ShownWithinSupply`, `ListWithinSupply`), so that they
  are at most the coins of the height they were read at; and the index, whose
  coins only grow, has gone no further back.
  TLC has checked `PagesInv` (`TypeOK`, `RankInv`, `SumInv`) on the instance
  of the run.

`SeedDnsProofs`, for any addresses and runs:

- `DnsTypeCorrect`: the ids of the records are bounded in the model, and that
  one is left for every new record (`IdLeft`) is a pigeonhole argument: neither
  the records nor what any run has listed has two of one address.
- `NameStaysPublished` from `DnsInv`.  While a run that is alone goes on, the
  others are idle, and what it wants is in the records or still to be added
  and is never among what it removes.
- `RelayIsKept` from `RelayInv`: an address that the relay node knows all along
  is wanted by every run under way, however many there are, and is among what
  none of them removes.

The assumptions are needed: `payments_double_pay` violates `NoOverdraft`
without `OneAtATime`, and section 6 says what TLC finds without
`DistinctHeights`.  With `early_restart` or `reload` among the faults it finds
`CreditExact` violated.  The assumptions hold in the instances of the runs that
check the properties.

*Model-checked only.*  The liveness properties, because fairness is out of the
prover's reach: `MaturedIsCredited`, `LostIsFiled`, `FundsReachMiners`,
`StepEnds`, `PhantomIsMoved`, `StaleIsRemoved`, `IndexCatchesUp`,
`BlockIsRecorded`, `JobFollowsTip`, `ServesInTheEnd`, `TakenIsAnnounced`,
`AuxWorkReachesJob`, `PagesCatchUp`, `DnsCatchesUp`.  Every safety property of a run, invariant,
action property or refinement, is a theorem: as the run states it, or, where an
assumption is named above, under that assumption.

## 6. Where code and comments disagree

`payments_double_pay` is a run that TLC finds violated: `setInterval` (138)
starts a cycle while another waits for the wallet; both read the same balances
and pay them, and the balance goes below zero.

`reconcile_rpc_error` is another: every exception of `getblockhash`, a busy or
restarting node or a timeout included, counts as a height without a block
(`reconcile-blocksConfirmed.py` 99), and the finder of a good block is debited.
`PROJECT.json` quotes the lines that say otherwise.

The others came up while the models were written; each is a disjunct of the
action named.

Payments and reconciliation:

- Every error of `sendmany` but -6 is taken for a batch that was not sent
  (603-609), also when only the answer was lost; the batch is paid again
  (`SendFailed`).
- A failed `getaddressinfo` makes a worker with a good address one without,
  and its large debt is given to others (`LookupAddresses`).
- The recipients of a redistributed debt are the first three answers (459),
  not the three lowest balances (391); the withheld fee grows up to 3.2% on
  retries (528), while the page for miners says 0.1%.
- The whole reward is taken from the finder (151), although it was credited by
  shares, and the rests of rounding down (368) with it.
- Two blocks of one height share one share hash, the case that
  `canDeleteShares` (289) is there for.  A second block found
  between the reads of a cycle and its MULTI puts its shares under the hash that
  the MULTI deletes with a lost block of that height (673).  If the
  second block is lost too, `moveSharesToCurrent` throws after `sendmany`
  (657), the process ends, and so does every cycle after the restart, each after
  paying again what it owes; if it matures, it is never credited.  Two lost
  blocks settled in one cycle both merge the one hash, and the second block's
  RENAME replaces the shares of the first.  No fault is needed: with
  `HeightOf` giving both blocks one height and `Faults = {}`, TLC violates
  `PaidIsDeducted`, `CreditExact`, `FundsConserved` and `KeepsTheLedger` of
  `payments_restart`.  No passing run has the case; the model does.

Explorer:

- A height without transactions counts as one without forks (`sync.js` 477),
  so that a repair that ends after its deletions (196) and before it adds the
  good block (238) is never finished.
- A claimed name is written into the field `name` of the list (`database.js`
  778), which no query fills or reads, though the comment at 758 says that it
  displays the new alias; it shows with the next index update
  (`WriteBack`).
- The server writes a balance list back beside burned coins that are newer
  (`mixed`), and an unanswered supply is stored as 0 (1675): the distribution
  is wrong until the next update.
- With the `COINBASE` supply every run stores a supply without the blocks it
  indexes afterwards (1668): the list may hold more than the supply beside it,
  and what is left for all others (1445) be negative, until a run that has
  nothing to index.  `PagesCatchUp` says that this ends when the chain rests.
- A rich list that reindex-rich deleted and did not come to create is created
  by nothing but a start of the web server; a claim meanwhile ends the server
  (763).  A create after a failed delete saves a second document, which a later
  reindex-rich brings up, empty, in the place of the first (`spares`).
- A failed deletion of old network history is not tried again until the next height.
- `get_stats` answers null after an error, and `sync.js` 881 throws on it,
  leaving the lock for the next run to find stale.

Pool:

- One daemon's error on `submitblock` drops the share of the block (270)
  although another daemon has it (`SubmitDone`; `BlockIsRecorded` excepts
  shares hit by a fault).
- A rejected auxiliary block is only logged (384), and what is looked up is
  the hash of the work of that moment (329): a block that was taken may not be
  announced (`missed`).
- The 'block' event (436) is emitted for a block that no daemon returned too,
  with height and transaction undefined.
- An update that starts while another is under way clears its flag (69): new
  work then waits for the broadcast timeout.  Configuring two instances of an
  auxiliary daemon would call the callback of `async.each` twice.
- A `getblocktemplate` that fails at the broadcast timeout (611) leaves the timer off: the next notification
  has to set it.  The timeout also takes a template that is older than the
  current job.
- `isOnline` tests the array of results for an error (`daemon.js` 43): any
  answer counts as online.
- A payee whose amount is 0 gets a fifth of the block (`transactions.js` 206);
  fees above 100% make the pool's own output negative.

Seed DNS: an address like a `.onion` or `.i2p` name has no colon and passes
for IPv4 (88-91); Cloudflare refuses it, the exception ends the run before
anything is removed, and so does every later run, though the docstring (4-6)
says that the records are kept in sync.  `DnsCatchesUp` excepts this case.

## 7. What is abstracted or left out

- Amounts are integers.  The code keeps satoshis in a cycle but coins, as
  floating point numbers, in Redis; rounding to eight places is not modelled.
- Worker keys, addresses, blocks and share hashes are model values or small
  functions; `getProperAddress` is the constant `AddressOf` in `PayoutStep`
  and the set `Resolvable` in `PaymentProcessor`.
- Statistics for display (`Allblocks`, `stats:totalPaid`) and logging.
- Blocks of one height in the payment runs and proofs: `CanDeleteShares` and
  all that follows are modelled, and the code is wrong there (section 6).
- A matured block that a deep reorganisation drops, in the payment runs
  (`Mature`); `Reconcile` has them.
- A reload whose setup fails, which changes nothing, and more than two
  intervals, which do what two do.
- A MULTI that Redis applied and whose answer was lost.
- The dry run of the reconciliation script.
- In `OrphanSync`: the counters of transactions, `next_blockhash` of an
  orphan (324-354), which is display; the restart on a stack size error; the
  pages after the repair, which are `ExplorerPages`.
- A block that a reorganisation of more than two blocks drops, seen from the
  last tip a run has indexed, stays in the index: the next walk starts above
  it.  No comment says otherwise.
- What a query error leaves behind for good: a dropped block whose
  transactions could not be read (525) is recorded and skipped, one
  that could not be saved (500-503) is removed unrecorded.  The properties of
  `OrphanSync` except these blocks (`failed`).
- The job manager, the stratum server and the share processor are not in the
  repository: `IsNewWork`, `ProcessTemplate` and `UpdateCurrentJob` are modelled
  from how `pool.js` uses them.  Variable difficulty, banning, clients handed
  over to a new fork, and the serialisation of transactions are left out.
- In `CoinbaseOutputs`: the witness commitment, an output of no value.
- In `ExplorerPages`: `last_updated` values, the count of addresses, the fees,
  which a coinbase pays out again so that the `COINBASE` supply counts them twice,
  the heavycoin fields, and burned addresses written in another case.  The index
  is a height; `save_tx` and the balances of addresses are in `block_sync.js`,
  which is not in the repository.
- `is_locked` and the lock file are in `explorer.js`, which is not in the
  repository: one run at a time is taken from how `sync.js` uses it.
- Explorer peers, markets and masternodes: records copied from what a service
  answers, one by one.  The other reindex modes delete or check and then run
  the functions that are modelled.  The RPC queue is in `explorer.js`;
  `node.js` hands a call on.
- Seed DNS: a listing of more records than one answer of Cloudflare holds.
- The relay script pushes a notification once: in `StratumPool` it is
  a notice that may be lost.  The waiting loop of the start order keeps no state;
  `StartFails` is what happens without it.
- The installation scripts: they copy and configure files and have no state a
  property could be about.  Pages: static text, but for the fee they state.

## 8. Plan

What would come next is in the models that are still thin: blocks of one height
in the payment runs once the code handles them, a MULTI whose answer is lost, and reorganisations in the
explorer that drop more than two blocks, with the conditions of the theorems
above restated for them.
