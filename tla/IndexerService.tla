--------------------------- MODULE IndexerService ---------------------------
(***************************************************************************)
(* The L1 indexer (internal/logic/indexer/indexer_service.go): one         *)
(* goroutine that walks the L1 chain block by block, stores every deposit  *)
(* it parses in table deposit_history and keeps its own position in the    *)
(* single row of table btc_index.  Both tables survive a crash of the      *)
(* process; everything else is lost.                                       *)
(*                                                                         *)
(* A position is a pair <<block height, index of the transaction>>.  The   *)
(* contents of the chain are constants: the chain itself only grows.       *)
(***************************************************************************)
EXTENDS Integers

CONSTANTS
    MaxHeight,     \* bound: height of the last L1 block
    Deposits,      \* positions for which parseTx returns a result
    SelfPaid,      \* those whose sender is the listened address
    Malformed,     \* positions for which parseTx returns an error
    CallbackTxs,   \* deposits the external callback service may insert
    Faults,        \* kinds of call that may fail: "rpc" (L1), "db"
    MaxCrashes     \* bound: crashes of the process

ASSUME ChainAssumption ==
    /\ MaxHeight \in Nat
    /\ Deposits \subseteq Nat \X Nat
    /\ SelfPaid \subseteq Deposits
    /\ Malformed \subseteq Nat \X Nat
    /\ CallbackTxs \subseteq Deposits \ SelfPaid
    /\ Malformed \intersect Deposits = {}
    /\ MaxCrashes \in Nat

\* The deposits HandleResults stores: ToInFroms drops the others.
ToSave == Deposits \ SelfPaid

VARIABLES
    tip,            \* L1: height of the best block
    hasIndex,       \* btc_index: does row 1 exist?
    index,          \* btc_index: [block, tx] of row 1
    row,            \* deposit_history: what is stored for a deposit
    pc,             \* control state of the indexer goroutine
    latestBlock,    \* locals of OnStart
    currentBlock,
    currentTxIndex,
    i,              \* loop variable: the block being parsed
    todo,           \* HandleResults: transactions of block i not yet handled
    found,          \* SaveParsedResult: what First returned
    origin,         \* history: block of the cursor when it was created
    crashes         \* number of crashes so far

locals == <<latestBlock, currentBlock, currentTxIndex, i, todo, found>>
tables == <<hasIndex, index, row>>
vars == <<tip, tables, pc, locals, origin, crashes>>

RowStates == {"none",       \* no row
              "callback",   \* CallbackStatus success, ListenerStatus pending
              "indexed"}    \* ListenerStatus success

TypeOK ==
    /\ tip \in Nat
    /\ hasIndex \in BOOLEAN
    /\ index \in [block : Nat, tx : Nat]
    /\ row \in [ToSave -> RowStates]
    /\ pc \in {"down", "load", "outer", "wait",
               "parse", "handle", "write", "save"}
    /\ latestBlock \in Nat /\ currentBlock \in Nat /\ currentTxIndex \in Nat
    /\ i \in Nat
    /\ todo \subseteq Nat
    /\ found \in RowStates
    /\ origin \in Nat
    /\ crashes \in Nat

Init ==
    /\ tip \in 0 .. MaxHeight
    /\ hasIndex = FALSE
    /\ index = [block |-> 0, tx |-> 0]
    /\ row = [p \in ToSave |-> "none"]
    /\ pc = "down"
    /\ latestBlock = 0 /\ currentBlock = 0 /\ currentTxIndex = 0
    /\ i = 0
    /\ todo = {}
    /\ found = "none"
    /\ origin = 0
    /\ crashes = 0

-----------------------------------------------------------------------------
(* The environment. *)

NewBlock ==
    /\ tip < MaxHeight
    /\ tip' = tip + 1
    /\ UNCHANGED <<tables, pc, locals, origin, crashes>>

\* The callback service (another program on the same database) inserts the
\* row of a deposit it was told of, with its listener status pending.
CallbackInsert(p) ==
    /\ row[p] = "none"
    /\ row' = [row EXCEPT ![p] = "callback"]
    /\ UNCHANGED <<tip, hasIndex, index, pc, locals, origin, crashes>>

Crash ==
    /\ crashes < MaxCrashes
    /\ pc # "down"
    /\ pc' = "down"
    /\ crashes' = crashes + 1
    /\ UNCHANGED <<tip, tables, locals, origin>>

-----------------------------------------------------------------------------
(* Start-up: LatestBlock, then the cursor is loaded or created. *)

ReadLatest ==
    /\ pc = "down"
    /\ latestBlock' = tip
    /\ pc' = "load"
    /\ UNCHANGED <<tip, tables, currentBlock, currentTxIndex, i, todo, found,
                   origin, crashes>>

Load ==
    /\ pc = "load"
    /\ hasIndex
    /\ currentBlock' = index.block
    /\ currentTxIndex' = index.tx
    /\ pc' = "outer"
    /\ UNCHANGED <<tip, tables, latestBlock, i, todo, found, origin, crashes>>

CreateRow ==
    /\ ~hasIndex
    /\ hasIndex' = TRUE
    /\ index' = [block |-> latestBlock, tx |-> 0]
    /\ origin' = latestBlock
    /\ UNCHANGED row

Create ==
    /\ pc = "load"
    /\ CreateRow
    /\ currentBlock' = latestBlock
    /\ currentTxIndex' = 0
    /\ pc' = "outer"
    /\ UNCHANGED <<tip, latestBlock, i, todo, found, crashes>>

\* First or Create returned an error: OnStart returns it and the command
\* ends.  An insert whose acknowledgement was lost is still in the table.
StartFail ==
    /\ pc = "load"
    /\ "db" \in Faults
    /\ \/ CreateRow
       \/ UNCHANGED <<tables, origin>>
    /\ pc' = "down"
    /\ UNCHANGED <<tip, locals, crashes>>

-----------------------------------------------------------------------------
(* The outer loop. *)

\* latestBlock <= currentBlock: sleep.
Idle ==
    /\ pc = "outer"
    /\ latestBlock <= currentBlock
    /\ pc' = "wait"
    /\ UNCHANGED <<tip, tables, locals, origin, crashes>>

\* As below, but the new height is dropped.
Refresh_Dropped ==
    /\ pc = "wait"
    /\ pc' = "outer"
    /\ UNCHANGED <<tip, tables, locals, origin, crashes>>

Refresh ==
    /\ pc = "wait"
    /\ latestBlock' = tip
    /\ pc' = "outer"
    /\ UNCHANGED <<tip, tables, currentBlock, currentTxIndex, i, todo, found,
                   origin, crashes>>

\* LatestBlock returns 0 with its error, and the error is only logged.
RefreshFail ==
    /\ pc = "wait"
    /\ "rpc" \in Faults
    /\ latestBlock' = 0
    /\ pc' = "outer"
    /\ UNCHANGED <<tip, tables, currentBlock, currentTxIndex, i, todo, found,
                   origin, crashes>>

\* tx = 0 means that the block is finished, tx > 0 that the block is finished
\* up to and including transaction tx.
NextPosition(block, tx) ==
    IF tx = 0 THEN [block |-> block + 1, tx |-> 0]
              ELSE [block |-> block, tx |-> tx + 1]

EnterLoop ==
    /\ pc = "outer"
    /\ currentBlock < latestBlock
    /\ LET next == NextPosition(currentBlock, currentTxIndex)
       IN  /\ currentBlock' = next.block
           /\ currentTxIndex' = next.tx
           /\ i' = next.block
    /\ pc' = "parse"
    /\ UNCHANGED <<tip, tables, latestBlock, todo, found, origin, crashes>>

-----------------------------------------------------------------------------
(* The inner loop: one block. *)

\* The decrement of the index is forgotten: transaction tx is skipped.
RollBackTo_SkipsOne(tx) ==
    /\ IF tx = 0
       THEN currentBlock' = i - 1 /\ currentTxIndex' = 0
       ELSE currentBlock' = i /\ currentTxIndex' = tx
    /\ pc' = "outer"

\* The case tx = 0 is forgotten.
RollBackTo_Always(tx) ==
    /\ currentBlock' = i /\ currentTxIndex' = tx - 1
    /\ pc' = "outer"

\* Block i could not be finished: leave the loop with the cursor just before
\* transaction tx of block i.
RollBackTo(tx) ==
    /\ IF tx = 0
       THEN currentBlock' = i - 1 /\ currentTxIndex' = 0
       ELSE currentBlock' = i /\ currentTxIndex' = tx - 1
    /\ pc' = "outer"

HandleOrSave(rest) == IF rest = {} THEN "save" ELSE "handle"

\* ParseBlock parses the transactions from currentTxIndex on; one that cannot
\* be parsed makes the whole call fail.
Parsable ==
    \A p \in Malformed : ~(p[1] = i /\ p[2] >= currentTxIndex)

ParseBlock ==
    /\ pc = "parse"
    /\ Parsable
    /\ todo' = {p[2] : p \in {q \in Deposits :
                                q[1] = i /\ q[2] >= currentTxIndex}}
    /\ pc' = HandleOrSave(todo')
    /\ UNCHANGED <<tip, tables, latestBlock, currentBlock, currentTxIndex, i,
                   found, origin, crashes>>

ParseFail ==
    /\ pc = "parse"
    /\ ~Parsable \/ "rpc" \in Faults
    /\ RollBackTo(currentTxIndex)
    /\ UNCHANGED <<tip, tables, latestBlock, i, todo, found, origin, crashes>>

\* The results are handled from the last one down.
Head_Last(k) == k \in todo /\ \A j \in todo : j <= k

\* The transaction HandleResults is at.
Head(k) == k \in todo /\ \A j \in todo : k <= j

SkipSelfPaid(k) ==
    /\ pc = "handle"
    /\ Head(k)
    /\ <<i, k>> \in SelfPaid
    /\ todo' = todo \ {k}
    /\ pc' = HandleOrSave(todo')
    /\ UNCHANGED <<tip, tables, latestBlock, currentBlock, currentTxIndex, i,
                   found, origin, crashes>>

\* SaveParsedResult: tx.First by transaction hash.
Lookup(k) ==
    /\ pc = "handle"
    /\ Head(k)
    /\ <<i, k>> \notin SelfPaid
    /\ found' = row[<<i, k>>]
    /\ pc' = "write"
    /\ UNCHANGED <<tip, tables, latestBlock, currentBlock, currentTxIndex, i,
                   todo, origin, crashes>>

\* The rest of the database transaction: create the row, or set the listener
\* status of the row the callback service made, and save the cursor with it.
StoreDeposit(k) ==
    /\ found = "none" => row[<<i, k>>] = "none"
    /\ row' = IF found = "indexed" THEN row
              ELSE [row EXCEPT ![<<i, k>>] = "indexed"]
    /\ index' = [block |-> i, tx |-> k]
    /\ UNCHANGED hasIndex

Commit(k) ==
    /\ pc = "write"
    /\ Head(k)
    /\ StoreDeposit(k)
    /\ todo' = todo \ {k}
    /\ pc' = HandleOrSave(todo')
    /\ UNCHANGED <<tip, latestBlock, currentBlock, currentTxIndex, i, found,
                   origin, crashes>>

\* The transaction fails, in First or later; or it commits and the answer of
\* the database is lost, which the caller cannot tell apart.
CommitFail(k) ==
    /\ "db" \in Faults
    /\ Head(k)
    /\ \/ /\ pc = "handle" /\ <<i, k>> \notin SelfPaid
          /\ UNCHANGED tables
       \/ pc = "write" /\ UNCHANGED tables
       \/ pc = "write" /\ StoreDeposit(k)
    /\ RollBackTo(k)
    /\ UNCHANGED <<tip, latestBlock, i, todo, found, origin, crashes>>

\* The row appeared after First: Create fails with 23505, HandleResults
\* returns, and the loop goes on to the end of the block.
Duplicate(k) ==
    /\ pc = "write"
    /\ Head(k)
    /\ found = "none" /\ row[<<i, k>>] # "none"
    /\ currentTxIndex' = k
    /\ currentBlock' = i
    /\ pc' = "save"
    /\ UNCHANGED <<tip, tables, latestBlock, i, todo, found, origin, crashes>>

\* The end of a block.
SaveBlock ==
    /\ pc = "save"
    /\ index' = [block |-> i, tx |-> 0]
    /\ currentBlock' = i
    /\ currentTxIndex' = 0
    /\ IF i + 1 <= latestBlock
       THEN i' = i + 1 /\ pc' = "parse"
       ELSE i' = i /\ pc' = "outer"
    /\ UNCHANGED <<tip, hasIndex, row, latestBlock, todo, found, origin, crashes>>

\* The roll back goes one block too far.
SaveBlockFail_TwoBack ==
    /\ pc = "save"
    /\ "db" \in Faults
    /\ index' \in {index, [block |-> i, tx |-> 0]}
    /\ currentBlock' = IF i = 1 THEN 0 ELSE i - 2
    /\ currentTxIndex' = 0
    /\ pc' = "outer"
    /\ UNCHANGED <<tip, hasIndex, row, latestBlock, i, todo, found, origin, crashes>>

\* Save returned an error; the row may have been written all the same.
SaveBlockFail ==
    /\ pc = "save"
    /\ "db" \in Faults
    /\ index' \in {index, [block |-> i, tx |-> 0]}
    /\ currentBlock' = i - 1
    /\ currentTxIndex' = 0
    /\ pc' = "outer"
    /\ UNCHANGED <<tip, hasIndex, row, latestBlock, i, todo, found, origin, crashes>>

-----------------------------------------------------------------------------
TxIndexes == {p[2] : p \in Deposits}

Next ==
    \/ NewBlock
    \/ \E p \in CallbackTxs : CallbackInsert(p)
    \/ Crash
    \/ ReadLatest \/ Load \/ Create \/ StartFail
    \/ Idle \/ Refresh \/ RefreshFail \/ EnterLoop
    \/ ParseBlock \/ ParseFail
    \/ \E k \in TxIndexes :
          \/ SkipSelfPaid(k) \/ Lookup(k)
          \/ Commit(k) \/ CommitFail(k) \/ Duplicate(k)
    \/ SaveBlock \/ SaveBlockFail

\* The local steps are taken, and the command is started again when it ended.
\* The loops repeat every call for ever; one that is repeated for ever is
\* assumed to succeed for ever again.
Fairness ==
    /\ WF_vars(Idle) /\ WF_vars(EnterLoop)
    /\ SF_vars(ReadLatest) /\ SF_vars(Load \/ Create)
    /\ SF_vars(Refresh) /\ SF_vars(ParseBlock)
    /\ SF_vars(\E k \in TxIndexes : SkipSelfPaid(k) \/ Lookup(k))
    /\ SF_vars(\E k \in TxIndexes : Commit(k) \/ Duplicate(k))
    /\ SF_vars(SaveBlock)

Spec == Init /\ [][Next]_vars
FairSpec == Spec /\ Fairness

-----------------------------------------------------------------------------
(* Properties. *)

\* Position p is before the end of the part a cursor declares finished.
Covers(block, tx, p) ==
    p[1] < block \/ (p[1] = block /\ (tx = 0 \/ p[2] <= tx))

\* Blocks of which the code may lose deposits: one with a deposit at index 0
\* (the cursor it stores means "block finished"), one with a deposit at index
\* 1 when the database may fail (the roll back of index 1 is index 0), and one
\* with a deposit the callback service may insert (23505 ends the block).
Exposed(h) ==
    \/ <<h, 0>> \in ToSave
    \/ <<h, 1>> \in ToSave /\ "db" \in Faults
    \/ \E p \in CallbackTxs : p[1] = h

\* The deposits the indexer owes: those above the block it was started at.
Owed == {p \in ToSave : p[1] > origin}
Safe == {p \in Owed : ~Exposed(p[1])}

\* Whatever fails and whenever the process dies, the stored cursor never
\* passes a deposit that is not stored: no restart loses one (SaveParsedResult
\* writes both in one transaction, the roll backs of OnStart).
NoDepositSkipped ==
    hasIndex => \A p \in Safe : Covers(index.block, index.tx, p)
                                   => row[p] = "indexed"

\* What the comments of OnStart say without restriction: a failed write is
\* rolled back, and a duplicate row does not stop the block.
NoDepositLost ==
    pc \in {"outer", "wait"} =>
        \A p \in Owed : Covers(currentBlock, currentTxIndex, p)
                           => row[p] = "indexed"

\* The stored cursor may be moved back within a block (a block is processed
\* again when its last Save failed) but never to an earlier block: a deposit
\* of a finished block is never processed again.
IndexBlockNeverDecreases ==
    [][hasIndex => hasIndex' /\ index'.block >= index.block]_vars

\* The log of deposits that the other services read from the table.
Log == INSTANCE DepositLog WITH
          Positions <- {p \in ToSave : ~Exposed(p[1])},
          started <- hasIndex,
          first <- origin,
          stored <- {p \in Safe : row[p] = "indexed"}

\* The deposits get their final listener status one by one and in the order of
\* the chain, across failures, roll backs, restarts and repeated blocks; the
\* deposit service reads them in the same order.
StoredInOrder == Log!Spec

\* No malformed deposit at or below block h stops the indexer before it.
Clear(h) == \A q \in Malformed : q[1] > h \/ q[1] <= origin

\* Every owed deposit below the tip is stored in the end, whatever sequence of
\* failures and crashes the loops go through.  A deposit of the tip itself may
\* wait for the next block: after a roll back inside the tip latestBlock <=
\* currentBlock holds.
EventuallyIndexed ==
    \A p \in ToSave :
        (hasIndex /\ p \in Safe /\ Clear(p[1]) /\ p[1] < tip)
            ~> row[p] = "indexed"

=============================================================================
