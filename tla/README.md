# A verification of the Abelian bridge indexer

The program moves deposits from an L1 chain (Abelian) to an L2 chain (an
Ethereum compatible rollup). It reads every L1 block, stores the deposits it
finds in a database and mints each of them on L2 with a transaction of its own
key. This directory holds TLA+ models of its services, the TLC configurations
that check them and proofs checked by TLAPS.

## The system

| Part | Source | State it keeps | Operations |
|---|---|---|---|
| L1 indexer service | `internal/logic/indexer/indexer_service.go` | the cursor in row 1 of `btc_index`, the rows of `deposit_history`, a copy of the cursor in memory | `OnStart` (loop over blocks), `HandleResults`, `SaveParsedResult` |
| Abelian client | `internal/logic/indexer/indexer_abelian.go` | none | `LatestBlock`, `GetBlockByHeight`, `ParseBlock`, `parseTx`, `CheckConfirmations`, `BlockChainInfo` |
| Deposit service | `internal/logic/indexer/bridge_deposit_service.go` | the status, hash, nonce, sender and retries of each deposit; the goroutines that wait for a transaction | `Deposit` (loop over three lists), `HandleDeposit`, `HandleUnconfirmedDeposit`, `WaitMined`, `CheckDeposit` |
| Bridge client | `internal/logic/indexer/bridge.go` | the private key | `Deposit`, `sendTransaction`, `retrySendTransaction`, `WaitMined`, `TransactionReceipt`, `TransactionByHash` |
| Rollup indexer | `internal/logic/rollup/rollup_service.go` | the cursor in `rollup_index`, the rows of `rollup_deposit_history` | `OnStart` (loop over L2 blocks), `handelDepositEvent` |
| Withdraw service | `internal/logic/indexer/bridge_withdraw_service.go` | status of withdrawals and of the L1 transactions that pay them | `OnStart`, `ConstructTx`, `GetUnspentList`, `BroadcastTx` |
| Command | `internal/handler/index.go`, `internal/handler/util.go`, `cmd` | the goroutines of the services, error channels, `stopChan` | `NewDB`, `HandleIndexCmd`, `runIndexerService`, `startIndexProvider`, `startBridgeProvider` |

The services share nothing but the database: the indexer creates rows with
status *pending*, the deposit service takes them from there. A callback
service, another program on the same database, inserts rows as well. The
command starts the indexer and the deposit service; the rollup indexer and the
withdraw service are not started at this commit.

What is hard in this code:

* The cursor of the indexer is a pair (block, transaction) in which
  transaction 0 means *the block is finished*. Every failure path computes a
  cursor by hand, and memory, cursor row and deposit rows must agree after any
  failure, lost acknowledgement or crash.
* An L2 transaction can be signed again for the same deposit: with a higher
  price when it waits, with the same nonce when the node lost it, with a new
  nonce when the nonce is used. The contract does not refuse a second mint, so
  the service must never have two nonces in use for one deposit.
* The transaction is sent first and the row updated afterwards.
* The goroutine that waits for a transaction outlives the call that started
  it; its late verdict is written into a row that a later cycle handles.
* Lists are read once and worked through for minutes; one failing deposit ends
  the list of unconfirmed ones, and failures are counted against a limit.
* The best block is indexed at once and confirmations are only asked for before
  the mint; a block is read with two calls, between which the chain may change.
* A row that cannot be decided (an L1 transaction a reorganisation removed, a mint
  whose event is not stored) is selected again in every cycle and keeps its place in
  a list of limited length.
* The goroutine that starts the services leaves their error channels after five
  seconds.

## Modules

| Module | Models | Checked with |
|---|---|---|
| `IndexerService` | the L1 indexer service with the outcomes of the Abelian client | `MCIndexerService` |
| `DepositLog` | abstract: what the indexer promises to the readers of its table | through `IndexerService` |
| `IndexerServiceProofs` | proofs about `IndexerService` | TLAPS |
| `IndexerRefinesLog` | the proof that `IndexerService` implements `DepositLog` | TLAPS |
| `RollupIndexer` | the rollup indexer | `MCRollupIndexer` |
| `RollupIndexerProofs` | proofs about `RollupIndexer` | TLAPS |
| `L2Chain` | the L2 chain as `bridge.go` uses it (external) | through `DepositService` |
| `DepositService` | the deposit service and the bridge client | `MCDepositService` |
| `DepositServiceProofs` | proofs about `DepositService` | TLAPS |
| `DepositMintProofs` | proofs about `DepositService`: one mint for one deposit, under the faults that leave every submission recorded | TLAPS |
| `RollupTable` | abstract: what the rollup indexer promises to the readers of its table | through `RollupIndexer` |
| `CheckDeposit` | the goroutine that compares minted rows with stored events, on a `RollupTable` | `MCCheckDeposit` |
| `CheckDepositProofs` | proofs about `CheckDeposit` | TLAPS |
| `AbelianChain` | the L1 chain with reorganisations (external) | through `BridgePipeline` |
| `AbelianClient` | the calls of the Abelian client and `parseTx` in a state of that chain | through `BridgePipeline` |
| `Command` | the goroutine main: start, error channels, end, next start | through `BridgePipeline` |
| `BridgePipeline` | composition: chain, client, command, indexer and deposit service | `MCBridgePipeline` |
| `BridgePipelineProofs` | proofs about `BridgePipeline` | TLAPS |
| `ConstructTx` | amounts, pages, inputs and fee of an L1 transaction, as operators | through `WithdrawService` |
| `WithdrawBook` | abstract: what the withdraw service promises to those who request withdrawals | through `WithdrawService` |
| `WithdrawService` | the four loops of the withdraw service | `MCWithdrawService` |
| `WithdrawServiceProofs` | proofs about `WithdrawService` | TLAPS |

Operators named with an underscore (`RollBackTo_SkipsOne`) are changed copies of
the definition that follows them. No specification uses them; they are there to
show that a property notices the change.

### IndexerService

The contents of the L1 chain are constants: `Deposits` are the positions (block
height, index in the block) for which `parseTx` returns a result, `SelfPaid`
those `HandleResults` skips, `Malformed` those for which `parseTx` returns an
error. `tip` grows. `index` and `hasIndex` are row 1 of `btc_index`, `row` says
for each deposit whether it has no row, one of the callback service, or one with
listener status success. `pc` names the statement of `OnStart` at which the
goroutine is: `load` the start, `outer` the head of the outer loop, `wait` the
sleep, `parse`, `handle`, `write` and `save` the inner loop. `todo` is what is
left of the results of `ParseBlock`. An action is one call (RPC or database
statement) with the assignments up to the next one. A database transaction is
split at its read (`Lookup`) and its commit (`Commit`), since another program
may insert a row in between. `CommitFail`, `SaveBlockFail` and `StartFail`
contain the lost acknowledgement: the write may have happened.

`origin`, the block at which the cursor was created, is a history variable:
the indexer owes the deposits above it.

* `NoDepositSkipped`: in every state the stored cursor has not passed a
  deposit without its row. It is restricted to blocks in which the code does
  not lose deposits by itself (`Exposed`: a deposit at index 0; one at index 1
  while the database may fail; one the callback service may insert). The
  restriction is exact: `NoDepositLost`, without it, is violated by the runs
  `IndexerIndexOne` and `IndexerDuplicate`.
* `IndexBlockNeverDecreases`: no step moves the stored cursor to an earlier
  block, although the cursor in memory moves back.
* `StoredInOrder`: the indexer implements `DepositLog`. The log consists of the
  deposits above its first block; the only step on it appends the first one that
  is missing. It is the refinement mapping that carries the content: `stored` is the
  set of rows with their final listener status, so every roll back, every block that
  is processed a second time and every restart must come out as a step that leaves
  the log alone. The deposit service orders its list by block and by row id
  (`bridge_deposit_service.go:211-212`), so this is also the order of the mints.
* `EventuallyIndexed`: every owed deposit below the tip is stored in the end.

### L2Chain and DepositService

`L2Chain` keeps, for the keys of the bridge, the nonces (`account`), the pool of
waiting transactions, all transactions ever accepted, those mined and those
that failed. A node answers a submission with *accepted*, *already known*,
*nonce too low* or *underpriced* as go-ethereum does. A forgotten or replaced
transaction may be mined all the same (fault `resurface`): it was passed on to
the network before.

`DepositService` has the row of each deposit (status, the last transaction
recorded, retries), the control state of the goroutine `Deposit`, the list it
works on as it was read (`batch`), the locals of `HandleDeposit`, and a record for
each goroutine started to wait. The columns `b2_tx_hash`, `b2_tx_nonce` and
`b2_tx_from` are always written together, so `hash` is the transaction itself.
`pc` names the next call: `lookup` TransactionByHash, `confirm`
CheckConfirmations and the AA address, `nonce` the calls up to the signature,
`send` SendTransaction, `record` the update of the row, `await` the select over
the channel and the timer, `failed` the error switch.

The calls between two changes of shared state are one action: the nonce, the
gas price, the estimate and the chain id are read in `PickNonce` or
`BumpPrice`, and any of them failing is `CallFail`. All errors that lead to the
default case of the switch are `"other"`.

* `NoDoubleMint`: no two transactions that mint the same deposit are mined
  successfully.
* `NoOrphan`: a transaction in the pool is the one its row names, or is about
  to be recorded.
* `StatusTrue`: the transaction a row with status *success* names minted its deposit,
  and the one a row with *status failed* names has failed. The goroutines write the
  status without the hash, and late: the verdict of one transaction could be
  written next to the hash of another. `CheckDeposit` relies on it.
* `FinalKeepsHash`: once a row had status *success* or *status failed*, its hash is never
  replaced. The status is not so firm: a goroutine that ran out of time writes so late, over a final
  status, and the next cycle handles the row again. `Fixed` says why it comes to the same end: the
  transaction of the row is mined, no list that sends without a look selects the row, and
  nothing under way will send for it. The property says that a final status leads there and that
  no step leads out. `CheckDeposit` relies on this as well.
* `EventuallySettled`: every deposit comes to a final status or to the end of
  its retries and stays there.

### RollupIndexer

The rollup indexer has a position of three parts (block, transaction, log), but
only the block decides what is read; the other two serve to skip the one event the
position names when its block is read again. `index` is the row of
`rollup_index`, `current` the local copy of it, `stored` the events in the rows of
`rollup_deposit_history`, `todo` what is left of the answer of FilterLogs. The loop
reads its position anew in each iteration, so `Crash` is the same as the
beginning of an iteration. A failing `BlockNumber`, `FilterLogs`, insert and `Save`
each have the consequence of their `continue`: the first ends the iteration, the
others go on with the next block, event or block. `failed` is a history variable: the
events such a failure hit.

* `NoEventPassed`: an event below or at the stored position is in the table, or a
  failed call hit it, or its transaction has another event there. The third case is
  the unique key on the transaction hash. It says that re-reading a block, with the
  unique key and the comparison of the position in play, drops nothing else.
* `PositionNeverBack`: the stored position never moves to an earlier block.
* `EventuallyRead`: every deposit event of the chain is accounted for in the end.
* `TableGrowsByNewTx`: the indexer implements `RollupTable`, in which every step adds a
  block to the chain, or a row for an event of a block that is there and of a
  transaction that has no row. It is all that `CheckDeposit` is built on: events may be
  stored in any order, or never.

The event with transaction and log index 0 of the block in which the position is
created is never stored (a new position is equal to it); the model has this, and
`Owed` begins above that block.

### CheckDeposit

`CheckDeposit` shares two tables with other goroutines: `rollup_deposit_history`, which is
the variable `stored` of `RollupTable`, and `deposit_history`, of which `status`, `hash` and
`check` matter. What the deposit service does to a row until it counts as minted
is the one step `Settle`, with the outcomes `StatusTrue` leaves: a row with status success
names a transaction that minted the deposit, while *tx hash exist* says nothing about
the transaction it names. The late goroutine of `FinalKeepsHash` is `Reopen`: the row is open
again, in the middle of a comparison perhaps, and comes back with its hash (`Resettle`). That such a goroutine
takes back a row with status *tx hash exist* is not modelled. Which deposit an event names and whom it credits are
constants, as the contract is external. Several events may name one deposit; `First` returns the one
with the lowest row id, which depends on the order they were stored in, so any of them.
A row has four ways through the loop body (`NotStored`, `Compare`, `TakeOver`,
`NoBranch`), and any call of it may fail (`CheckFail`).

The amount of a row is compared with the amount of the event after `Bridge.Deposit`
multiplied it with 1e11 (`bridge.go:160`) and `handelDepositEvent` divided it by 1e10
(`rollup_service.go:203`). `StoredValue` does both, with factors 10 and 1 in the run: a mint of
an amount other than 0 is always marked as failed. The code does not
say which factor is meant, so the model has the difference and no property judges it.

* `CheckedNamesItsEvent`: a row that is checked, with either result, names the
  transaction of its event. The branch for status success does not compare
  hashes: that the hash is right rests on `StatusTrue`, and on the deposit having been minted once.
* `EventuallyChecked`: a row whose event is stored is decided in the end, unless rows
  that cannot be decided fill the list before it. Such a row is one whose event is never
  stored, or one with status *tx hash exist* that names the transaction of its event
  already: no branch is for it (`bridge_deposit_service.go:566-567`).

### AbelianChain, AbelianClient, Command and BridgePipeline

`AbelianChain` is the best chain: a block is the sequence of its transactions, and
`Extend(n)` replaces the last `n` blocks by `n + 1` others. `AbelianClient` says what
the calls return in a state of it. The memo of a transaction is a record of what `parseTx`
looks at: whether it is a deposit memo that can be decoded, the addresses with their prefix, and the
amount with its notation. The amount is converted and parsed before the receiver is
looked at, so that a memo to anybody with an amount that is no 64 bit integer is
`Malformed`: the whole block cannot be parsed, and the indexer stays before it.

`Command` is the goroutine main. Its two states that matter are `window`, the five
seconds in which an error of the indexer is received, and what comes after it: an
indexer that fails then blocks in its send (`Stuck`), while the process goes on
with the deposit service only. `serving` ends with the process: the context main waits
for is never cancelled, so `WaitForQuitSignals` is never reached, and a signal
(`Kill`) ends the process between any two steps. `restart: always`
(`docker/docker-compose.yml:25`) starts it again, also after it returned.

`BridgePipeline` composes them with the two services. The faults inside a block are those of
`IndexerService` and the L2 side of a deposit is that of `DepositService`; here
the indexer reads a block call by call, with the chain changing in between, and
the deposit service is its list, its confirmations and the outcome of the mint. `replaced`
is a history variable: heights at which a block took the place of one that had been
read. The callback service is not part of it.

* `MintedIsFinal`: what was minted is in the best chain for ever. The indexer takes
  blocks without confirmations, `CheckConfirmations` is one call, and the mint comes
  later: it holds because `targetConfirmations` is more than the number of blocks
  a reorganisation replaces. The shipped default of 1 (`config/config.go:39`) tolerates none.
* `OneRow`: one transaction is one row, although a reorganisation brings it back in
  another block and a block may be read several times.
* `OnlyReorgsLose`: a deposit in a block the stored cursor declares finished has a
  row, unless the block replaced one that had been read. A block read while it was
  being replaced counts as read, too.
* `EventuallyStored`: a deposit the indexer owes is stored in the end, through failed starts,
  signals and reorganisations elsewhere, unless a block cannot be parsed or the
  indexer is stuck.
* `EventuallyMinted`: a deposit with confirmations enough is minted in the end, as long as the rows
  before it whose transaction is not confirmed do not fill the list. They use no try
  (`bridge_deposit_service.go:270-274`), so they are never given up.

### ConstructTx and WithdrawService

The main loop reads the waiting withdrawals (`GetPending`), constructs one L1
transaction for all of them (`FirstPage`, `NextPage`) and stores it (`Submit`). Three more
goroutines take the rows of `withdraw_tx` further: `Broadcasting` sends what the
signers have signed, `Confirming` looks for six confirmations, `Completing`
carries the outcome back to `withdraw_history`. Each keeps the list it read
(`signed`, `watched`, `finished`) and writes one row after another, so that all
interleavings of stale lists are there. `txs` is keyed by `BtcTxID`, as
`Submit` looks rows up by it; the id is the record of what the transaction spends and
pays and of its `variant`, which stands for the order of the outputs (the map of
`mergeDuplicateAddresses`) and the fee rate. The rows of requests and the
signatures come from other programs (`Arrive`, `Sign`). `Mine` is the sixth
confirmation. `alive` is whether
the broadcasting goroutine is there: with `MultisigNum` above 0 the first signed
transaction ends it (`Panic`), since the list of signatures is never filled
(`bridge_withdraw_service.go:138-156`).

`ConstructTx` (the code's function of this name) asks the API for the outputs, which is one call for each page;
the chain and the other goroutines go on in between. `scan` holds its locals: the
first page, which is what every later page is compared together with, all
outputs read, the number of outputs of the first answer and the counter of the loop. `IsCut` says
how many of the outputs become inputs, `Change` what is left; a negative change is the error
*insufficient balance*, after which everything starts again. Sizes are counted in inputs and
outputs. In which order the API lists outputs is a constant; it counts pages as the
code does. The change of a transaction is not listed as a new output.

* `OneOpenTx`: at every step a submitted or paid withdrawal is in exactly one transaction
  that did not fail, and a waiting one in none. `Submit` and `Completing`
  write both tables in one database transaction each; what could break it is a stale
  list, and the row that is reused when the same transaction is constructed again
  after a failure.
* `SuccessIsPaid`: a withdrawal is reported as paid only with a confirmed transaction.
* `KeepsBook`: the service implements `WithdrawBook`. The book has no ids and no statuses of
  transactions: it has the payments under way, each the set of its withdrawals, those reported
  as paid, and those L1 has confirmed a transaction for. A payment is made of waiting withdrawals,
  is paid or given back as a whole, is paid only when it is confirmed, and no step touches what is paid. The
  mapping takes them from the rows of `withdraw_tx`, so the row that is used again after a failure, the
  lost commit and the outdated list must each come out as one step of the book or none. That a
  payment that is given back has no effect on L1 is not in the book: a transaction whose answer was lost may be mined.
* `EventuallyPaid`: a requested withdrawal is paid in the end, for `MultisigNum` 0, the
  value in the `.env` files of the repository.
  Each output has to be enough alone (`Plenty`). Otherwise it is not so, also when the balance is: the loop over the
  pages leaves before it takes the page that is enough.
* `ShortListSpendsOnce`: no transaction spends an output twice when the first answer tells
  of less than two full pages. The loop begins with the page it has already (`bridge_withdraw_service.go:493`), and
  appends it again if twice its sum is not enough. With one full page this then is all there is, and
  the balance is insufficient; with two (32 outputs) a third page can make up for it, and the
  property without its bound is violated.
* `SubmittedIsInTx` is violated by the run `WithdrawTwins`: two withdrawals of one
  amount to one receiver. The tables say nothing about double payments: a
  transaction that is broadcast, whose answer is lost and that is refused when it is
  sent again counts as failed, and its withdrawals are paid by another one.

## Runs

| Run | Expect | What it shows |
|---|---|---|
| `IndexerSafety` | pass | `TypeOK`, `NoDepositSkipped`, `IndexBlockNeverDecreases`, `StoredInOrder`, `EventuallyIndexed` for four blocks: one with deposits at 0, 1 and 2 and a row of the callback service, one with a self payment between two deposits, one plain, one with a malformed transaction in front of a deposit; RPC and database failures without limit, a crash. |
| `IndexerIndexOne` | violation | `NoDepositLost`: the roll back of index 1. |
| `IndexerDuplicate` | violation | `NoDepositLost`: a duplicate key ends the block. |
| `DepositSafety` | pass | `TypeOK`, `NoDoubleMint`, `NoOrphan`, `EventuallySettled` for two deposits that compete for nonces, with one retry, under a failing call, estimate, forgotten or reverted transaction. |
| `DepositFaults` | pass | `StatusTrue`, `FinalKeepsHash` for one deposit and two keys under three faults of any of ten kinds. |
| `RollupEvents` | pass | `TypeOK`, `NoEventPassed`, `PositionNeverBack`, `EventuallyRead`, `TableGrowsByNewTx` for three blocks with equal indexes in two of them, two deposits in one transaction, a withdrawal, failures without limit and two crashes. |
| `CheckDeposit` | pass | `TypeOK`, `CheckedNamesItsEvent`, `EventuallyChecked` for four deposits: one minted twice, one minted by a transaction its row does not name, one that may be undecidable, one credited to another address; a list of two, two faults, of which one may take a row back. |
| `Pipeline` | pass | `TypeOK`, `MintedIsFinal`, `OneRow`, `OnlyReorgsLose`, `EventuallyStored`, `EventuallyMinted` for four blocks of four contents, reorganisations of one block, two faults of four kinds. |
| `WithdrawSafety` | pass | `TypeOK`, `OneOpenTx`, `SuccessIsPaid`, `EventuallyPaid`, `ShortListSpendsOnce`, `KeepsBook` for two withdrawals of different amounts, with and without signatures, with outputs that are all enough, of which one is enough, or of which none is, under two faults of any of six kinds. |
| `WithdrawTwins` | violation | `SubmittedIsInTx`: the same transaction id for two withdrawals. |
| `DepositCrash` | violation | `NoDoubleMint`: a crash between send and record. |
| `DepositRegistered` | violation | `RegisteredIsServed`: a sender registered too late is not served. |

Bounds. `MaxHeight`: four blocks hold each kind of block next to each other; the
state of the indexer spans two blocks. `MaxCrashes` is 1 for the indexer, whose failures
are unlimited (the proofs hold for any number), and 2 for the rollup indexer: a crash
during the recovery from a crash is the deepest case, because start-up has no other
memory than the tables. `MaxFaults`, `MaxPrice`, `MaxNonce`, `RetryLimit` and `BatchLimit` bound the
deposit service: one bump of the price reaches the replacement of a
transaction, two deposits with a list of one or two reach the competition for nonces
and the order of the lists, and a retry limit of 0 or 1 reaches the end of the retries.
A transaction at `MaxPrice` is left waiting. `MaxNonce` is never reached in a
passing run: each new nonce after the first of a deposit costs a fault. For
`WithdrawService`, four outputs are enough for two withdrawals that are each paid again
after a fault; a reused transaction id needs one variant only, and two variants with one
fault were found to add nothing. With four outputs and pages of two, lists of two pages, of one and a rest, and of less
than one occur; a page of small outputs is less than one withdrawal, less than the other even when taken twice,
or equal to it. `CHECK_DEADLOCK FALSE`: the service rests when
everything is paid, or when its broadcasting goroutine is gone.

For `Pipeline`, two confirmations are more than a
reorganisation of one block; with one the run finds a minted deposit that is gone. Four
blocks reach a reorganisation of a block that was read, one between the two calls, and the
same transaction at another height; a list of one reaches the row that hides the
others; two faults reach both tries of `NewDB`. Its contents have a deposit with a plain
and one with a scientific amount, a block that cannot be parsed because of a memo to somebody
else, and an empty block. `CHECK_DEADLOCK FALSE`: the process rests when the chain
does. For `CheckDeposit`, a list of two holds one row that cannot be decided and one
that can, and four rows reach a full list.

Faults the restricted runs leave out. `NoDoubleMint` fails with any of `crash`,
`lost`, `db`, `resurface` and `rotate` among the faults of `DepositSafety`, and with
`FirstNonce = 0`; `DepositCrash` shows the first. The others are the same
disagreement in other clothes: the answer of the node is lost, the update of the
row fails, a replaced transaction is mined although only the last hash is stored,
the waiting transaction of the old key is bumped with the new one
(`bridge_deposit_service.go:424`), and nonce 0 is taken for no nonce
(`bridge.go:250`).

Fairness. `IndexerService`: the goroutine runs on (weak fairness of the local
steps), and a call that is repeated for ever is assumed to succeed for ever again
(strong fairness of each call): the loops of the code repeat every failed call, some
after a sleep, and nothing else is needed. The command is started again after it
ended. `DepositService`: weak fairness of the goroutines, of block production for
transactions that wait and of the restart; faults are bounded. `RollupIndexer`: strong
fairness of the calls at the head of the loop, which every iteration repeats; weak fairness
of the calls of a block, each of which either succeeds or fails for good. `WithdrawService`:
weak fairness of each goroutine, of the signers and of block production; faults are bounded.
`CheckDeposit`: weak fairness of the goroutine, which repeats its cycle every ten
seconds. `BridgePipeline`: weak fairness of the start (the process is restarted), of the
indexer and of the deposit service, each as one goroutine; nothing is assumed about the chain.

## Proofs

The proofs about `IndexerService` use one assumption, `ChainAssumption`: the
positions are pairs of numbers, a malformed transaction is not a deposit, and
the callback service inserts rows only of deposits the indexer would store. `Faults` is any
set, the chain has any height and any contents, and crashes have any bound. Those
about `RollupIndexer` use `EventAssumption`, which says as much of its events. Those
about `BridgePipeline` use the types of its constants only, and `MintedStays` that
`targetConfirmations` is above `MaxReorg`; those about `CheckDeposit` use `OutcomeAssumption`,
which is `StatusTrue` of `DepositService` said about constants, and proved there (`StatusIsTrue`) from
nothing but the types of the constants. Its steps `Reopen` and `Resettle` rest on `FinalHashKept` in the same way.
Both hold under faults of every kind. The two theorems of `DepositMintProofs` are about the faults
that leave every submission recorded (`Recorded`): no crash between the send and the update of the row, no
lost answer of the node, no failing update, no change of the key, and no key that begins with
nonce 0. Failing calls, refusals of the node, transactions that are forgotten, replaced,
outbid or reverted, estimates that fail, late goroutines and late registrations are all left in. The
hypotheses cannot be weakened by one of these: each of them alone makes TLC find a deposit
minted twice (see *Faults the restricted runs leave out*). `MintedAtMostOnce` also excludes
`resurface`, a forgotten or replaced transaction that is mined all the same; `EveryWaitingIsNamed` holds with it.

| Theorem | Statement |
|---|---|
| `TypeCorrect` | `Spec => []TypeOK` |
| `CursorSafe` | `Spec => []NoDepositSkipped` |
| `CursorMonotone` | `Spec => IndexBlockNeverDecreases` |
| `IndexerImplementsLog` | `Spec => StoredInOrder` |
| `RollupIndexerProofs!TypeCorrect` | `Spec => []TypeOK` |
| `PositionSafe` | `Spec => []NoEventPassed` |
| `PositionMonotone` | `Spec => PositionNeverBack` |
| `IndexerImplementsTable` | `Spec => TableGrowsByNewTx` |
| `BridgePipelineProofs!TypeCorrect` | `Spec => []TypeOK` |
| `OneRowPerTransaction` | `Spec => []OneRow` |
| `MintedStays` | `Spec => []MintedIsFinal`, when `MaxReorg < targetConfirmations` |
| `LossNeedsReorg` | `Spec => []OnlyReorgsLose` |
| `WithdrawServiceProofs!TypeCorrect` | `Spec => []TypeOK` |
| `PaidIsTrue` | `Spec => []SuccessIsPaid` |
| `TablesAgree` | `Spec => []OneOpenTx`, when no two sets of withdrawals are the same payment (`NoTwins`) |
| `ServiceKeepsBook` | `Spec => KeepsBook`, under `NoTwins` |
| `PaidForEver` | for all `w`, `Spec => [](w is paid => [](w is paid))`, under `NoTwins` |
| `DepositServiceProofs!TypeCorrect` | `Spec => []TypeOK` |
| `StatusIsTrue` | `Spec => []StatusTrue` |
| `FinalHashKept` | `Spec => FinalKeepsHash` |
| `FinalHashForEver` | for all `d` and `t`, `Spec => [](final status of d with hash t => [](hash of d is t))` |
| `EveryWaitingIsNamed` | `Spec => []NoOrphan`, when the faults are `Recorded` |
| `MintedAtMostOnce` | `Spec => []NoDoubleMint`, when they are and nothing resurfaces |
| `CheckDepositProofs!TypeCorrect` | `Spec => []TypeOK` |
| `CheckedNames` | `Spec => []CheckedNamesItsEvent` |

`TypeOK` alone is not inductive: `RollBackTo` takes 1 from the block or from the
index, so `Control` has to say that a loop never is at block 0, that the index
is 0 whenever the block is 0, and that `EnterLoop` never hands on index 1.
`NoDepositSkipped` speaks of the stored cursor, but the code moves it from the
locals. The invariant `IInv` therefore has a part for each of the places where
the same claim is kept:

* `MemoryCovered` says at each control state which deposits are stored: all those the
  cursor in memory has passed; during a block, all those before it and those of
  it that are no longer in `todo`.
* `Rows` is what the transaction relies on between `First` and its commit: a row that
  `First` did not see can only be one of the callback service (so a duplicate key
  means that the block is exposed), and one it saw as indexed stays so.
* `CursorBehind` says that the stored cursor is never above the block the loop is
  at. It is what makes the cursor monotone, since the cursor in memory is not.

The lemmas follow the actions: `RollBackCovers` is the arithmetic of the roll
back, with the case of index 1 as its hypothesis; `CommitCovers` is the database
transaction; `CoverageStart` and `CoverageStep` put them together before and
after the cursor exists. For the refinement, `StoreAppends` shows that the
transaction at the head of `todo` is the first one missing, from `MemoryCovered`
alone, and `LogStep` that nothing else touches the log.

The proof about `RollupIndexer` is built the same way. `MemoryAccounted` is the claim of
`NoEventPassed` for the position in memory, which is ahead of the stored one after
a failed `Save`, and for the block being read. It is what covers the skipped event:
it is skipped only when its block is not above the position in memory.

`BridgePipelineProofs`: `TypeOK` again needs `Control`, for the positions computed by hand.
`MintedIsFinal` speaks of the chain and what was minted. A call of `CheckConfirmations` that succeeds
is followed by the mint in a later step, with any number of reorganisations in between, so
`MintConfirmed` makes the same claim for the row that is about to be minted: its transaction has its
confirmations still. `ConfirmationsStay` is the argument: with more confirmations than a reorganisation replaces
blocks, the block of the transaction stays where it is, and the chain only gets longer (`ExtendFacts`).
`OnlyReorgsLose` is kept in two places: `CursorCovered` for the stored cursor, and `BlockCovered` for
the block in memory, which is that of the chain unless it was replaced since it was asked for, and whose
deposits that are not left to handle have rows. `CursorBelow`, the cursor is at a block that exists,
makes sure that a height counts as replaced before another block stands there.

`DepositServiceProofs`: a final status is written by the loop, from a receipt or after an error, and by the
goroutines it started, which may be late. The loop writes about the hash in the snapshot of the row it took
from a list, so `Snapshots` says that only the loop itself replaces the hash of a row. A
goroutine writes about the transaction it waited for. `Waits` says that one the loop no longer
listens to has its verdict already (the timer of the loop is the longer one), and that a verdict
that becomes a final status is about the transaction the row names. `NoRival` is why this stays so until
it is written: the transaction was mined before the verdict, so whenever the loop looks at the row
again it finds the receipt and sends nothing, and the lists that send without a look do not select the
row. The invariant was first checked by TLC in the instances of `DepositSafety` and `DepositFaults`.
For `FinalKeepsHash`, `FinalWritten` shows that whoever writes a final status writes it where `Fixed`
holds, and `FixedStep` that `Fixed` is kept, with the hash: `FinalFixed` is then an invariant.

`DepositMintProofs`: a deposit has at most one transaction that may take effect. `MintInv` says which one,
`Current`: that of its row, or the one that was just accepted and is about to be recorded
(`AliveNamed`; it is about what waits and what is mined, or, when something may resurface, about what waits). The
step to defend is the send. `Looked` is what the code knows when it signs: either the new transaction
has the nonce of the recorded one, so that the node keeps only one of them, or the lookup has found nothing
(neither waiting nor mined), or the nonce of the recorded one is used up. The last case is `UsedUp`: status
*nonce too low* is written for a row only when its transaction can no longer be mined, and stays true in the
list as it was read, although `account` moves on. `Slots` says that what waits has a
nonce that is not used up, so *used up* and *not mined* exclude *waiting*; and that no nonce is 0, which
the code takes for no nonce. TLC checked `MintInv` with the fault sets of the runs, and with `resurface`, before it was proved.

`CheckDepositProofs`: `CheckedNamesItsEvent` is inductive with three more claims: a row that has or had status
success names the transaction that minted the deposit (`SuccessNamed`, from the assumption; a row taken back
keeps its hash), a checked row has an event in the table (`CheckedHasEvent`), and a row in the list of the
cycle counted as minted when the list was read (`Listed`).

`WithdrawServiceProofs`: `SuccessIsPaid` needs that *confirmed* is true of the chain both in the row and
in the list of the completing goroutine, which may be older than the row (`ConfirmedIsMined`). For `OneOpenTx` the
lists have to be fresh: a row in the list of a goroutine still has the status it was selected for
(`Fresh`), hence no two goroutines have the same row at hand. The one action that could break it is `StoreTx`, which sets
back a row in whatever status. `Made` says that the withdrawals of a row are paid by
its id; with `NoTwins` a transaction that has a row already was made for the very withdrawals
that wait now, so by the agreement of the tables it failed (`MadeBefore`). `NoTwins` is exactly what
the run `WithdrawTwins` lacks. The refinement has one lemma for each kind of write: `BookStatus`, a status that
does not end a transaction, is no step of the book; `BookStore` is `Submit`, also when the row was there;
`BookOutcome` is `Pay` or `GiveBack`, where a second payment under way with the same withdrawals would make
the step wrong, and the agreement of the tables excludes it. `Known` adds that what L1 mines has a row. `PaidForEver` is then
a consequence of the book: its payments do not overlap (`BookKeepsApart`), so that giving one back cannot touch what is paid.

Only model-checked: all liveness properties (they need fairness, which the prover does not
handle), and `ShortListSpendsOnce`, since what a sum over a sequence is when a page is appended needs
induction. Every other invariant and action property of the passing runs is a theorem.

## Not modelled

* **Several processes on one database.** One instance of each service is assumed, as
  the command starts it.
* **The callback service in `BridgePipeline`.** It is in `IndexerService` only: with it the
  losses of `IndexerDuplicate` would have to be excluded again.
* **Blocks inside `BridgePipeline`.** Failing writes in a block are those of `IndexerService`,
  the transactions on L2 those of `DepositService`; the composition has the outcomes they leave.
* **Meaning of the amounts.** The two scalings disagree (see `CheckDeposit`); no text of the
  repository says which one is meant, so no property judges it.
* **Withdrawals: scripts, addresses, signatures.** Data. Also a broadcast transaction that the
  network forgets, and the change of a transaction as an output of its own. The requests and the
  signers are other programs. The command does not start the service.
* **Code without a caller:** `Transfer` of the bridge client, `BroadcastTx`,
  `handelWithdrawEvent`, `parseNullData`; and code that is never reached: `WaitForQuitSignals` and the
  `OnStop` of the services.
* **Bitcoin client.** Its constructor is commented out.
* **Configuration, logging, encryption.** No state of the bridge.

## Plan

1. A module of the columns `DepositService` and `CheckDeposit` share, as `RollupTable` is one for the
   rollup indexer, so that the steps `Settle`, `Reopen` and `Resettle` of `CheckDeposit` are refined by
   `DepositService` and not only justified by `StatusTrue` and `FinalKeepsHash`. It needs the status *tx hash exist* in
   both: what a late goroutine does to such a row while `CheckDeposit` has it at hand, which no model has yet.
2. Sums over sequences without induction, to prove `ShortListSpendsOnce`.
