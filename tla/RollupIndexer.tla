---------------------------- MODULE RollupIndexer ----------------------------
(***************************************************************************)
(* The rollup indexer (internal/logic/rollup/rollup_service.go): one       *)
(* goroutine that reads the events of the bridge contract from L2 block by *)
(* block, stores the deposit events in table rollup_deposit_history and    *)
(* keeps its position in the single row of table rollup_index.  The loop   *)
(* begins by reading its position again, so a restart is a new iteration.  *)
(*                                                                         *)
(* An event is a triple <<block, index of the transaction, index of the    *)
(* log in the block>>.                                                     *)
(***************************************************************************)
EXTENDS Integers

CONSTANTS
    MaxHeight,       \* bound: height of the last L2 block
    Events,          \* events of the contract: deposits and withdrawals
    DepositEvents,   \* the deposit events among them
    Faults,          \* kinds of call that may fail: "rpc" (L2), "db"
    MaxCrashes       \* bound: crashes of the process

ASSUME EventAssumption ==
    /\ MaxHeight \in Nat
    /\ Events \subseteq Nat \X Nat \X Nat
    /\ DepositEvents \subseteq Events
    /\ MaxCrashes \in Nat

VARIABLES
    tip,        \* L2: number of the latest block
    hasIndex,   \* rollup_index: does row 1 exist?
    index,      \* rollup_index: row 1
    stored,     \* rollup_deposit_history: the events of its rows
    pc,         \* control state of the goroutine
    current,    \* locals currentBlock, currentTxIndex, currentLogIndex
    latest,     \* local latestBlock
    i,          \* loop variable: the block being read
    todo,       \* events of block i not yet handled
    first,      \* history: block of the position when it was created
    failed,     \* history: events that met a failed call
    crashes     \* number of crashes so far

locals == <<current, latest, i, todo>>
history == <<first, failed>>
vars == <<tip, hasIndex, index, stored, pc, locals, history, crashes>>

Position == [block : Nat, tx : Nat, log : Nat]

TypeOK ==
    /\ tip \in Nat
    /\ hasIndex \in BOOLEAN
    /\ index \in Position
    /\ stored \subseteq DepositEvents
    /\ pc \in {"sleep", "create", "latest", "filter", "handle", "save"}
    /\ current \in Position
    /\ latest \in Nat /\ i \in Nat
    /\ todo \subseteq Events
    /\ first \in Nat
    /\ failed \subseteq Events
    /\ crashes \in Nat

Start(block) == [block |-> block, tx |-> 0, log |-> 0]

Init ==
    /\ tip \in 0 .. MaxHeight
    /\ hasIndex = FALSE
    /\ index = Start(0)
    /\ stored = {}
    /\ pc = "sleep"
    /\ current = Start(0)
    /\ latest = 0 /\ i = 0
    /\ todo = {}
    /\ first = 0
    /\ failed = {}
    /\ crashes = 0

NewBlock ==
    /\ tip < MaxHeight
    /\ tip' = tip + 1
    /\ UNCHANGED <<hasIndex, index, stored, pc, locals, history, crashes>>

Crash ==
    /\ crashes < MaxCrashes
    /\ pc # "sleep"
    /\ pc' = "sleep"
    /\ crashes' = crashes + 1
    /\ UNCHANGED <<tip, hasIndex, index, stored, locals, history>>

-----------------------------------------------------------------------------
(* The head of the loop: the position is read, or created at the tip. *)

Load ==
    /\ pc = "sleep"
    /\ hasIndex
    /\ current' = index
    /\ pc' = "latest"
    /\ UNCHANGED <<tip, hasIndex, index, stored, latest, i, todo, history,
                   crashes>>

NotFound ==
    /\ pc = "sleep"
    /\ ~hasIndex
    /\ latest' = tip
    /\ pc' = "create"
    /\ UNCHANGED <<tip, hasIndex, index, stored, current, i, todo, history,
                   crashes>>

CreateRow ==
    /\ hasIndex' = TRUE
    /\ index' = Start(latest)
    /\ first' = latest

Create ==
    /\ pc = "create"
    /\ CreateRow
    /\ current' = Start(latest)
    /\ pc' = "latest"
    /\ UNCHANGED <<tip, stored, latest, i, todo, failed, crashes>>

\* Create returned an error; the row may have been written all the same.
CreateFail ==
    /\ pc = "create"
    /\ "db" \in Faults
    /\ CreateRow \/ UNCHANGED <<hasIndex, index, first>>
    /\ pc' = "sleep"
    /\ UNCHANGED <<tip, stored, locals, failed, crashes>>

\* As below, but the block before the position is read again as well.
ReadLatest_OneBack ==
    /\ pc = "latest"
    /\ latest' = tip
    /\ IF tip <= current.block
       THEN pc' = "sleep" /\ UNCHANGED i
       ELSE pc' = "filter" /\ i' = IF current.block = 0 THEN 0
                                                      ELSE current.block - 1
    /\ UNCHANGED <<tip, hasIndex, index, stored, current, todo, history, crashes>>

\* Nothing to do when there is no block above the position; otherwise the
\* block of the position is read once more.
ReadLatest ==
    /\ pc = "latest"
    /\ latest' = tip
    /\ IF tip <= current.block
       THEN pc' = "sleep" /\ UNCHANGED i
       ELSE pc' = "filter" /\ i' = current.block
    /\ UNCHANGED <<tip, hasIndex, index, stored, current, todo, history, crashes>>

ReadLatestFail ==
    /\ pc = "latest"
    /\ "rpc" \in Faults
    /\ pc' = "sleep"
    /\ UNCHANGED <<tip, hasIndex, index, stored, locals, history, crashes>>

-----------------------------------------------------------------------------
(* One block. *)

\* The last block is left out.
NextBlock_Exclusive ==
    IF i + 1 < latest THEN pc' = "filter" /\ i' = i + 1
                      ELSE pc' = "sleep" /\ UNCHANGED i

NextBlock ==
    IF i < latest THEN pc' = "filter" /\ i' = i + 1
                  ELSE pc' = "sleep" /\ UNCHANGED i

InBlock(block) == {e \in Events : e[1] = block}

HandleOrSave(rest) == IF rest = {} THEN "save" ELSE "handle"

Filter ==
    /\ pc = "filter"
    /\ todo' = InBlock(i)
    /\ pc' = HandleOrSave(todo')
    /\ UNCHANGED <<tip, hasIndex, index, stored, current, latest, i, history,
                   crashes>>

\* FilterLogs failed: the loop goes on with the next block.
FilterFail ==
    /\ pc = "filter"
    /\ "rpc" \in Faults
    /\ failed' = failed \union InBlock(i)
    /\ NextBlock
    /\ UNCHANGED <<tip, hasIndex, index, stored, current, latest, todo, first,
                   crashes>>

\* The event at hand: the logs come in their order.
Head(e) == e \in todo /\ \A f \in todo : e[3] <= f[3]

\* The number of the block is not compared.
AtCursor_AnyBlock(e) == current.tx = e[2] /\ current.log = e[3]

\* The event the position names was handled before it was saved.
AtCursor(e) == current = [block |-> e[1], tx |-> e[2], log |-> e[3]]

\* The row is looked for by the log as well.
TxStored_ThisLog(e) == e \in stored

\* The transaction hash is unique in the table.
TxStored(e) == \E s \in stored : s[1] = e[1] /\ s[2] = e[2]

Done(e) == todo' = todo \ {e} /\ pc' = HandleOrSave(todo')

Skip(e) ==
    /\ pc = "handle"
    /\ Head(e)
    /\ AtCursor(e)
    /\ Done(e)
    /\ UNCHANGED <<tip, hasIndex, index, stored, current, latest, i, history,
                   crashes>>

\* The kind of the event is not looked at.
Handle_StoresAll(e) ==
    /\ pc = "handle"
    /\ Head(e)
    /\ ~AtCursor(e)
    /\ ~TxStored(e) /\ stored' = stored \union {e}
    /\ current' = [current EXCEPT !.tx = e[2], !.log = e[3]]
    /\ Done(e)
    /\ UNCHANGED <<tip, hasIndex, index, latest, i, history, crashes>>

\* A deposit event is stored, a withdrawal is not (its handler is commented
\* out); the position moves to either.
Handle(e) ==
    /\ pc = "handle"
    /\ Head(e)
    /\ ~AtCursor(e)
    /\ IF e \in DepositEvents
       THEN ~TxStored(e) /\ stored' = stored \union {e}
       ELSE UNCHANGED stored
    /\ current' = [current EXCEPT !.tx = e[2], !.log = e[3]]
    /\ Done(e)
    /\ UNCHANGED <<tip, hasIndex, index, latest, i, history, crashes>>

\* The transaction is in the table: the insert fails, the position stays.
HandleAgain(e) ==
    /\ pc = "handle"
    /\ Head(e)
    /\ ~AtCursor(e)
    /\ e \in DepositEvents
    /\ TxStored(e)
    /\ Done(e)
    /\ UNCHANGED <<tip, hasIndex, index, stored, current, latest, i, history,
                   crashes>>

\* The insert fails; it may have been done all the same.
HandleFail(e) ==
    /\ pc = "handle"
    /\ "db" \in Faults
    /\ Head(e)
    /\ ~AtCursor(e)
    /\ e \in DepositEvents
    /\ ~TxStored(e)
    /\ stored' \in {stored, stored \union {e}}
    /\ failed' = failed \union {e}
    /\ Done(e)
    /\ UNCHANGED <<tip, hasIndex, index, current, latest, i, first, crashes>>

Save ==
    /\ pc = "save"
    /\ current' = [current EXCEPT !.block = i]
    /\ index' = current'
    /\ NextBlock
    /\ UNCHANGED <<tip, hasIndex, stored, latest, todo, history, crashes>>

SaveFail ==
    /\ pc = "save"
    /\ "db" \in Faults
    /\ current' = [current EXCEPT !.block = i]
    /\ index' \in {index, current'}
    /\ NextBlock
    /\ UNCHANGED <<tip, hasIndex, stored, latest, todo, history, crashes>>

-----------------------------------------------------------------------------
Next ==
    \/ NewBlock \/ Crash
    \/ Load \/ NotFound \/ Create \/ CreateFail
    \/ ReadLatest \/ ReadLatestFail
    \/ Filter \/ FilterFail
    \/ \E e \in Events : Skip(e) \/ Handle(e) \/ HandleAgain(e) \/ HandleFail(e)
    \/ Save \/ SaveFail

\* The goroutine runs on.  A call that is repeated for ever is assumed to
\* succeed for ever again; a failed one of the inner loop is not repeated.
Fairness ==
    /\ SF_vars(Load \/ NotFound) /\ SF_vars(Create) /\ SF_vars(ReadLatest)
    /\ WF_vars(Filter \/ FilterFail)
    /\ WF_vars(\E e \in Events :
                  Skip(e) \/ Handle(e) \/ HandleAgain(e) \/ HandleFail(e))
    /\ WF_vars(Save \/ SaveFail)

Spec == Init /\ [][Next]_vars
FairSpec == Spec /\ Fairness

-----------------------------------------------------------------------------
(* Properties. *)

\* The events the indexer owes: those above the block it was started at (of
\* that block it passes over the event with both indexes 0).
Owed == {e \in DepositEvents : e[1] > first}

\* An event is missing from the table for a reason: a call that failed when
\* it was its turn, or another event of the same transaction.
Accounted(e) == TxStored(e) \/ e \in failed

\* However often the process dies and blocks are read again, the stored
\* position never passes an event that is neither stored nor lost to a failed
\* call: neither the comparison with the position nor the unique key drops
\* one (the loop over vlog and the Save behind it).
NoEventPassed ==
    hasIndex => \A e \in Owed : e[1] <= index.block => Accounted(e)

\* The stored position never goes back to an earlier block, although the loop
\* begins with the block it names and Save may fail.
PositionNeverBack ==
    [][hasIndex => hasIndex' /\ index'.block >= index.block]_vars

\* Every event of a block of the chain is stored in the end, unless a call
\* failed when it was its turn.
EventuallyRead ==
    \A e \in DepositEvents :
        (hasIndex /\ e \in Owed /\ e[1] <= tip) ~> Accounted(e)

Table == INSTANCE RollupTable

\* To the readers of its table, CheckDeposit among them, the indexer adds one
\* deposit event of an existing block at a time and never a second one of a
\* transaction, whatever fails and however often blocks are read again
\* (the unique key of handelDepositEvent's insert).
TableGrowsByNewTx == Table!TableSpec
=============================================================================
