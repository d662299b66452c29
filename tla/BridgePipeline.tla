--------------------------- MODULE BridgePipeline ---------------------------
(***************************************************************************)
(* The way of a deposit through the whole process: the L1 chain with its   *)
(* reorganisations, the Abelian client, the indexer, the deposit service   *)
(* and the command that starts both.  The faults of the database inside a  *)
(* block are those of IndexerService and the L2 side of a deposit is that  *)
(* of DepositService: here a block is handled call by call, and the L2     *)
(* chain mints a deposit or refuses it.                                    *)
(***************************************************************************)
EXTENDS AbelianClient, Command, FiniteSets

CONSTANTS
    BatchLimit,  \* BatchDepositLimit
    Faults,      \* kinds of fault: "rpc" (L1), "db", "l2", "kill"
    MaxFaults    \* bound: number of faults

ASSUME PipelineAssumption == BatchLimit \in Nat \ {0} /\ MaxFaults \in Nat

VARIABLES
    cursor,     \* btc_index: the block and transaction, or none
    table,      \* deposit_history: its deposits in the order of their ids
    minted,     \* those of them with status success
    ipc,        \* control state of the indexer goroutine
    latest,     \* latestBlock
    at,         \* currentBlock and currentTxIndex
    block,      \* the block between the two calls of GetBlockByHeight, or
                \* the one whose results are handled
    todo,       \* positions of the results not yet handled
    dpc,        \* control state of the goroutine Deposit
    batch,      \* the rows of its list not yet handled
    origin,     \* history: block of the cursor when it was created
    replaced,   \* history: heights whose block was read and then replaced
    faults      \* number of faults so far

indexer == <<ipc, latest, at, block, todo>>
deposits == <<dpc, batch>>
command == <<main, attempt>>
tables == <<cursor, table, minted>>
vars == <<blocks, command, tables, indexer, deposits, origin, replaced, faults>>

None == [block |-> 0, tx |-> 0]
Position == [block : Nat, tx : Nat]

TypeOK ==
    /\ ChainTypeOK /\ CommandTypeOK
    /\ cursor \in Position
    /\ table \in Seq(Txs)
    /\ minted \subseteq Txs
    /\ ipc \in {"off", "start", "load", "failed", "loop", "hash", "block", "handle"}
    /\ latest \in Nat
    /\ at \in Position
    /\ block \in Seq(Txs)
    /\ todo \subseteq 1 .. Len(block)
    /\ dpc \in {"off", "sleep", "next", "mint"}
    /\ batch \subseteq 1 .. Len(table)
    /\ origin \in Nat
    /\ replaced \subseteq Nat
    /\ faults \in Nat

Init ==
    /\ ChainInit /\ CommandInit
    /\ cursor = None /\ table = <<>> /\ minted = {}
    /\ ipc = "off" /\ latest = 0 /\ at = None /\ block = <<>> /\ todo = {}
    /\ dpc = "off" /\ batch = {}
    /\ origin = 0 /\ replaced = {}
    /\ faults = 0

Fault(kind) ==
    /\ kind \in Faults /\ faults < MaxFaults
    /\ faults' = faults + 1

-----------------------------------------------------------------------------
(* The L1 chain. *)

\* Blocks the indexer has read, the one it asked for included.
WasRead(h) ==
    \/ cursor # None /\ h <= cursor.block
    \/ ipc \in {"block", "handle"} /\ h <= at.block

Grow(n) ==
    /\ Extend(n)
    /\ replaced' = replaced \union {h \in Height - n + 1 .. Height : WasRead(h)}
    /\ UNCHANGED <<command, tables, indexer, deposits, origin, faults>>

-----------------------------------------------------------------------------
(* The command. *)

\* The goroutines end with the process.
GoroutinesEnd ==
    /\ ipc' = "off" /\ latest' = 0 /\ at' = None /\ block' = <<>> /\ todo' = {}
    /\ dpc' = "off" /\ batch' = {}

KeepGoroutines == UNCHANGED <<indexer, deposits>>
KeepRest == UNCHANGED <<blocks, tables, origin, replaced>>

Begin ==
    /\ Launch \/ OpenDb
    /\ KeepGoroutines /\ KeepRest /\ UNCHANGED faults

BeginFail ==
    /\ \/ Fault("db") /\ OpenDbFail /\ KeepGoroutines
       \/ Fault("rpc") /\ StartIndexerFail /\ GoroutinesEnd
       \/ Fault("db") /\ StartIndexerFail /\ GoroutinesEnd
       \/ Fault("l2") /\ StartBridgeFail /\ GoroutinesEnd
    /\ KeepRest

StartServices ==
    /\ \/ StartIndexer /\ ipc' = "start" /\ UNCHANGED dpc
       \/ WindowOver /\ UNCHANGED <<ipc, dpc>>
       \/ StartBridge /\ dpc' = "sleep" /\ UNCHANGED ipc
    /\ UNCHANGED <<latest, at, block, todo, batch, faults>> /\ KeepRest

\* The indexer sends its error and main is still there to receive it.
ReportError ==
    /\ ipc = "failed"
    /\ IndexerErrorSeen
    /\ GoroutinesEnd /\ KeepRest /\ UNCHANGED faults

KillProcess ==
    /\ Fault("kill")
    /\ Kill
    /\ GoroutinesEnd /\ KeepRest

-----------------------------------------------------------------------------
(* The indexer: OnStart. *)

KeepOthers ==
    UNCHANGED <<blocks, command, minted, deposits, replaced>>

ReadLatest ==
    /\ ipc = "start"
    /\ latest' = LatestBlock
    /\ ipc' = "load"
    /\ UNCHANGED <<cursor, table, at, block, todo, origin, faults>> /\ KeepOthers

\* The cursor is loaded, or created at the tip.
Load ==
    /\ ipc = "load"
    /\ cursor' = IF cursor = None THEN [block |-> latest, tx |-> 0] ELSE cursor
    /\ origin' = IF cursor = None THEN latest ELSE origin
    /\ at' = cursor'
    /\ ipc' = "loop"
    /\ UNCHANGED <<table, latest, block, todo, faults>> /\ KeepOthers

\* OnStart returns an error, which the goroutine sends to errCh.
StartFail ==
    /\ \/ ipc = "start" /\ Fault("rpc")
       \/ ipc = "load" /\ Fault("db")
    /\ ipc' = "failed"
    /\ UNCHANGED <<cursor, table, latest, at, block, todo, origin>> /\ KeepOthers

\* The answer is not kept.
Refresh_Dropped ==
    /\ ipc = "loop" /\ latest <= at.block
    /\ latest # LatestBlock
    /\ UNCHANGED <<cursor, table, indexer, origin, faults>> /\ KeepOthers

\* The chain has not grown: sleep and ask again.
Refresh ==
    /\ ipc = "loop" /\ latest <= at.block
    /\ latest' = LatestBlock /\ latest' # latest
    /\ UNCHANGED <<cursor, table, ipc, at, block, todo, origin, faults>> /\ KeepOthers

RefreshFail ==
    /\ ipc = "loop" /\ latest <= at.block
    /\ Fault("rpc")
    /\ latest' = 0
    /\ UNCHANGED <<cursor, table, ipc, at, block, todo, origin>> /\ KeepOthers

EnterLoop ==
    /\ ipc = "loop" /\ at.block < latest
    /\ at' = IF at.tx = 0 THEN [block |-> at.block + 1, tx |-> 0]
                          ELSE [block |-> at.block, tx |-> at.tx + 1]
    /\ ipc' = "hash"
    /\ UNCHANGED <<cursor, table, latest, block, todo, origin, faults>> /\ KeepOthers

\* GetBlockByHeight, first call.
AskHash ==
    /\ ipc = "hash"
    /\ block' = GetBlockHash(at.block)
    /\ ipc' = "block"
    /\ UNCHANGED <<cursor, table, latest, at, todo, origin, faults>> /\ KeepOthers

\* Its second call, and the results.
ReadBlock ==
    /\ ipc = "block"
    /\ ~ParseBlockFails(block, at.tx)
    /\ todo' = ParseBlock(block, at.tx)
    /\ ipc' = "handle"
    /\ UNCHANGED <<cursor, table, latest, at, block, origin, faults>> /\ KeepOthers

\* The block is never taken back.
Before_TxOnly(p) == [p EXCEPT !.tx = @ - 1]

\* The position before p, computed by hand where ParseBlock failed.
Before(p) == IF p.tx = 0 THEN [p EXCEPT !.block = @ - 1] ELSE [p EXCEPT !.tx = @ - 1]

\* ParseBlock returns an error.
ReadFail ==
    /\ \/ ipc \in {"hash", "block"} /\ Fault("rpc")
       \/ ipc = "block" /\ ParseBlockFails(block, at.tx) /\ UNCHANGED faults
    /\ at' = Before(at)
    /\ block' = <<>>
    /\ ipc' = "loop"
    /\ UNCHANGED <<cursor, table, latest, todo, origin>> /\ KeepOthers

IsStored(t) == \E n \in 1 .. Len(table) : table[n] = t

\* The row is not looked for.
SaveResult_Unchecked(k) ==
    /\ ipc = "handle" /\ k \in todo /\ \A j \in todo : k <= j
    /\ table' = Append(table, block[k])
    /\ cursor' = [block |-> at.block, tx |-> k]
    /\ todo' = todo \ {k}
    /\ UNCHANGED <<ipc, latest, at, block, origin, faults>> /\ KeepOthers

\* SaveParsedResult: the row unless there is one for the transaction hash,
\* and the cursor.
SaveResult(k) ==
    /\ ipc = "handle" /\ k \in todo /\ \A j \in todo : k <= j
    /\ table' = IF IsStored(block[k]) THEN table ELSE Append(table, block[k])
    /\ cursor' = [block |-> at.block, tx |-> k]
    /\ todo' = todo \ {k}
    /\ UNCHANGED <<ipc, latest, at, block, origin, faults>> /\ KeepOthers

SaveBlock ==
    /\ ipc = "handle" /\ todo = {}
    /\ cursor' = [block |-> at.block, tx |-> 0]
    /\ IF at.block + 1 <= latest
       THEN at' = [block |-> at.block + 1, tx |-> 0] /\ ipc' = "hash"
       ELSE at' = cursor' /\ ipc' = "loop"
    /\ block' = <<>>
    /\ UNCHANGED <<table, latest, todo, origin, faults>> /\ KeepOthers

-----------------------------------------------------------------------------
(* The deposit service. *)

KeepIndexer == UNCHANGED <<blocks, command, cursor, table, indexer, origin, replaced>>

\* GetTxToDeposit: the rows that are not minted, in the order of the table,
\* which is that of their blocks too.  (Waiting_All: the status is not looked
\* at.)
Waiting_All == 1 .. Len(table)

Waiting == {n \in 1 .. Len(table) : table[n] \notin minted}

GetTxToDeposit ==
    /\ dpc = "sleep" /\ Waiting # {}
    /\ batch' = {n \in Waiting : Cardinality({m \in Waiting : m < n}) < BatchLimit}
    /\ dpc' = "next"
    /\ UNCHANGED <<minted, faults>> /\ KeepIndexer

\* The row at hand.
First(n) == n \in batch /\ \A m \in batch : n <= m

\* HandleDeposit returns.
Done(n) ==
    /\ batch' = batch \ {n}
    /\ dpc' = IF batch' = {} THEN "sleep" ELSE "next"

\* HandleDeposit up to the confirmations: an error leaves the row as it is, its
\* retry counter too, and the list goes on.
Confirm(n) ==
    /\ dpc = "next" /\ First(n)
    /\ CheckConfirmations(table[n])
    /\ dpc' = "mint"
    /\ UNCHANGED <<batch, minted, faults>> /\ KeepIndexer

ConfirmFail(n) ==
    /\ dpc = "next" /\ First(n)
    /\ \/ ~CheckConfirmations(table[n]) /\ UNCHANGED faults
       \/ Fault("rpc")
    /\ Done(n)
    /\ UNCHANGED minted /\ KeepIndexer

\* The rest of HandleDeposit, when the L2 chain mints the deposit.
Mint(n) ==
    /\ dpc = "mint" /\ First(n)
    /\ minted' = minted \union {table[n]}
    /\ Done(n)
    /\ UNCHANGED faults /\ KeepIndexer

\* The L2 side fails: the row is taken again.
MintFail(n) ==
    /\ dpc = "mint" /\ First(n)
    /\ Fault("l2")
    /\ Done(n)
    /\ UNCHANGED minted /\ KeepIndexer

-----------------------------------------------------------------------------
Chain == \E n \in 0 .. MaxReorg : Grow(n)

Start == Begin \/ StartServices \/ ReportError

Indexer ==
    \/ ReadLatest \/ Load \/ StartFail
    \/ Refresh \/ RefreshFail \/ EnterLoop
    \/ AskHash \/ ReadBlock \/ ReadFail
    \/ \E k \in todo : SaveResult(k)
    \/ SaveBlock

Deposit ==
    \/ GetTxToDeposit
    \/ \E n \in batch : Confirm(n) \/ ConfirmFail(n) \/ Mint(n) \/ MintFail(n)

Next == Chain \/ Start \/ BeginFail \/ KillProcess \/ Indexer \/ Deposit

\* The process is started again, and each goroutine goes on as long as it can.
Fairness == WF_vars(Start) /\ WF_vars(Indexer) /\ WF_vars(Deposit)

Spec == Init /\ [][Next]_vars
FairSpec == Spec /\ Fairness

-----------------------------------------------------------------------------
(* Properties. *)

\* What was minted on L2 stays paid on L1, although the indexer reads blocks
\* without confirmations and the chain may change between any two calls: the
\* confirmations asked for are more than the blocks a reorganisation replaces.
MintedIsFinal == \A t \in minted : OnChain(t)

\* A transaction that comes back at another height is one deposit still.
OneRow == \A m, n \in 1 .. Len(table) : table[m] = table[n] => m = n

\* Blocks the stored cursor declares finished, from the first one on.
Finished(h) == origin < h /\ (h < cursor.block \/ (h = cursor.block /\ cursor.tx = 0))

\* Only a reorganisation loses deposits: one in a finished block that has no
\* row is in a block that took the place of one read before.
OnlyReorgsLose ==
    \A h \in 1 .. Height : Finished(h) /\ h \notin replaced =>
        \A k \in 1 .. Len(blocks[h]) :
            IsDeposit(blocks[h][k]) => IsStored(blocks[h][k])

\* The indexer waits for ever to report an error nobody listens to any more.
Stuck == ipc = "failed" /\ main \in {"bridging", "serving"}

\* No block from the cursor on has a transaction that stops the indexer.
Clear == \A h \in 1 .. Height : \A k \in 1 .. Len(blocks[h]) :
            Malformed(blocks[h][k]) => h <= origin

Accepted == {t \in Txs : IsDeposit(t)}

\* Deposits the indexer comes to, unless the chain changes under it.  One of the
\* last block may wait for the next one, after a restart inside that block.
Owed(t) ==
    \E h \in 1 .. Height :
        /\ origin < h /\ h < Height /\ cursor # None /\ h \notin replaced
        /\ Holds(blocks[h], t)

\* A deposit of the chain is stored in the end, through failed starts, killed
\* processes and reorganisations, unless its block replaces one read before, a
\* block cannot be parsed, or the indexer is stuck.
EventuallyStored ==
    \A t \in Accepted : Owed(t) ~> (IsStored(t) \/ ~Owed(t) \/ Stuck \/ ~Clear)

\* A row whose transaction a reorganisation removed is never given up, and one
\* that is not confirmed is not either: both keep their place in the list.
Blocks(t) == {m \in Waiting : ~CheckConfirmations(table[m]) /\
                \E n \in Waiting : m < n /\ table[n] = t}
Served(t) ==
    /\ IsStored(t) /\ CheckConfirmations(t)
    /\ Cardinality(Blocks(t)) < BatchLimit

\* A confirmed deposit is minted in the end, whatever the other rows are, as
\* long as those before it that cannot be minted do not fill the list.
EventuallyMinted ==
    \A t \in Accepted : Served(t) ~> (t \in minted \/ ~Served(t))
=============================================================================
