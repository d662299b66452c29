------------------------ MODULE BridgePipelineProofs ------------------------
(***************************************************************************)
(* Proofs about BridgePipeline, for every chain, every depth of a          *)
(* reorganisation, every memo and any number of faults.                    *)
(***************************************************************************)
EXTENDS BridgePipeline, SequenceTheorems, TLAPS

\* The position EnterLoop and SaveBlock go on with.
After(p) == IF p.tx = 0 THEN [block |-> p.block + 1, tx |-> 0]
                        ELSE [block |-> p.block, tx |-> p.tx + 1]

\* Where the indexer is, relative to the stored cursor and to the chain: it is
\* never at a block that does not exist.
Control ==
    /\ Height >= 1 /\ latest <= Height
    /\ ipc = "load" => latest >= 1
    /\ ipc \in {"loop", "hash", "block", "handle"} => cursor # None
    /\ cursor # None => cursor.block >= 1
    /\ ipc = "loop" => at = cursor
    /\ ipc \in {"hash", "block"} => at = After(cursor) /\ at.block <= latest
    /\ ipc = "handle" =>
         /\ at.block <= latest
         /\ \/ cursor.block = at.block
            \/ cursor.tx = 0 /\ cursor.block + 1 = at.block
    /\ ipc # "handle" => todo = {}
    /\ main \in {"down", "opening", "probing"} => ipc = "off"
    /\ main # "serving" => dpc = "off"

-----------------------------------------------------------------------------
(* The chain. *)

\* A reorganisation leaves the blocks below it alone.
LEMMA ExtendFacts ==
    ASSUME ChainTypeOK, NEW n \in Nat, Extend(n)
    PROVE  /\ ChainTypeOK'
           /\ Len(blocks) \in Nat /\ n < Len(blocks)
           /\ Len(blocks') = Len(blocks) + 1
           /\ \A h \in 1 .. Len(blocks) - n : blocks'[h] = blocks[h]
<1> DEFINE S == Seq(Txs)
           kept == SubSeq(blocks, 1, Height - n)
<1>1. blocks \in Seq(S) /\ Height = Len(blocks) /\ Len(blocks) \in Nat
  BY DEF ChainTypeOK, Height
<1>2. n < Height
  BY DEF Extend
<1>3. PICK branch \in [1 .. n + 1 -> Contents] : blocks' = kept \o branch
  BY DEF Extend
<1>4. branch \in Seq(S) /\ Len(branch) = n + 1
  <2>1. branch \in [1 .. n + 1 -> S]
    BY <1>3, L1Assumption
  <2> QED
    BY <2>1, SeqDef, LenProperties
<1>5. /\ kept \in Seq(S) /\ Len(kept) = Height - n
      /\ \A h \in 1 .. Height - n : kept[h] = blocks[h]
  <2>1. \A h \in 1 .. Height - n : blocks[h] \in S
    BY <1>1, ElementOfSeq
  <2>2. 1 \in Int /\ Height - n \in Int /\ 1 <= Height - n
    BY <1>1, <1>2
  <2> HIDE DEF S
  <2>3. /\ kept \in Seq(S) /\ Len(kept) = Height - n - 1 + 1
        /\ \A h \in 1 .. Height - n - 1 + 1 : kept[h] = blocks[1 + h - 1]
    BY <2>1, <2>2, SubSeqProperties
  <2> QED
    BY <1>1, <2>3
<1> HIDE DEF kept, S
<1>6. /\ kept \o branch \in Seq(S) /\ Len(kept \o branch) = (Height - n) + (n + 1)
      /\ \A h \in 1 .. Height - n : (kept \o branch)[h] = kept[h]
  <2>1. /\ kept \o branch \in Seq(S)
        /\ Len(kept \o branch) = Len(kept) + Len(branch)
        /\ \A h \in 1 .. Len(kept) + Len(branch) :
              (kept \o branch)[h] = IF h <= Len(kept) THEN kept[h]
                                    ELSE branch[h - Len(kept)]
    BY <1>4, <1>5, ConcatProperties
  <2> QED
    BY <1>1, <1>2, <1>4, <1>5, <2>1
<1> QED
  BY <1>1, <1>2, <1>3, <1>5, <1>6 DEF ChainTypeOK, S

\* Confirmations enough to outlast a reorganisation are never lost.
LEMMA ConfirmationsStay ==
    ASSUME ChainTypeOK, NEW n \in Nat, Extend(n), n < targetConfirmations,
           NEW t, CheckConfirmations(t)
    PROVE  CheckConfirmations(t)'
<1>1. PICK h \in 1 .. Height :
         Holds(blocks[h], t) /\ Height - h + 1 >= targetConfirmations
  BY DEF CheckConfirmations, HasConfirmations
<1>2. targetConfirmations \in Nat
  BY ClientAssumption
<1>3. h \in 1 .. Len(blocks) - n /\ h \in 1 .. Len(blocks')
  BY <1>1, <1>2, ExtendFacts DEF Height
<1>4. blocks'[h] = blocks[h] /\ Len(blocks') - h + 1 >= targetConfirmations
  BY <1>1, <1>2, <1>3, ExtendFacts DEF Height
<1> QED
  BY <1>1, <1>3, <1>4 DEF CheckConfirmations, HasConfirmations, Height, Holds

-----------------------------------------------------------------------------
(* Types and control. *)

LEMMA TypeInit == Init => TypeOK /\ Control
<1> SUFFICES ASSUME Init PROVE TypeOK /\ Control
  OBVIOUS
<1>1. <<>> \in Seq(Txs)
  OBVIOUS
<1>2. ChainTypeOK /\ Height = 1
  BY <1>1 DEF Init, ChainInit, ChainTypeOK, Height
<1>3. <<>> \in Seq(Txs) /\ Len(<<>>) = 0
  OBVIOUS
<1> QED
  BY <1>2, <1>3 DEF Init, CommandInit, TypeOK, CommandTypeOK, MainStates, Attempts,
                    Control, None, Position

LEMMA GrowStep ==
    ASSUME TypeOK, Control, NEW n \in 0 .. MaxReorg, Grow(n)
    PROVE  TypeOK' /\ Control'
<1>1. n \in Nat /\ Extend(n)
  BY L1Assumption DEF Grow
<1>2. ChainTypeOK' /\ Height' = Height + 1 /\ Height \in Nat
  BY <1>1, ExtendFacts DEF TypeOK, Height
<1>3. replaced' \subseteq Nat
  <2>1. \A h \in Height - n + 1 .. Height : h \in Nat
    BY <1>1, <1>2, ExtendFacts DEF TypeOK, Height
  <2> QED
    BY <2>1 DEF Grow, TypeOK
<1>4. UNCHANGED <<command, tables, indexer, deposits, origin, faults>>
  BY DEF Grow
<1> QED
  BY <1>2, <1>3, <1>4
     DEF TypeOK, Control, CommandTypeOK, command, tables, indexer, deposits

LEMMA CommandStep ==
    ASSUME TypeOK, Control, Start \/ BeginFail \/ KillProcess
    PROVE  /\ TypeOK' /\ Control' /\ UNCHANGED <<blocks, tables, origin, replaced>>
           /\ \/ UNCHANGED <<indexer, deposits>>
              \/ GoroutinesEnd
              \/ /\ ipc' = "start" \/ ipc' = ipc
                 /\ dpc' = "sleep" \/ dpc' = dpc
                 /\ UNCHANGED <<latest, at, block, todo, batch>>
<1> USE DEF KeepRest, KeepGoroutines
<1>1. UNCHANGED <<blocks, tables, origin, replaced>>
  BY DEF Start, Begin, StartServices, ReportError, BeginFail, KillProcess
<1>2. CommandTypeOK' /\ faults' \in Nat
  <2>1. CommandTypeOK'
    BY DEF Start, Begin, StartServices, ReportError, BeginFail, KillProcess, Launch,
       OpenDb, OpenDbFail, StartIndexer, StartIndexerFail, IndexerErrorSeen, WindowOver,
       StartBridge, StartBridgeFail, Kill, Goto, TypeOK, CommandTypeOK, MainStates,
       Attempts
  <2>2. faults' \in Nat
    BY DEF Start, Begin, StartServices, ReportError, BeginFail, KillProcess, Fault, TypeOK
  <2> QED
    BY <2>1, <2>2
<1>3. \/ UNCHANGED <<indexer, deposits>>
      \/ GoroutinesEnd
      \/ /\ ipc' = "start" \/ ipc' = ipc
         /\ dpc' = "sleep" \/ dpc' = dpc
         /\ UNCHANGED <<latest, at, block, todo, batch>>
  BY DEF Start, Begin, StartServices, ReportError, BeginFail, KillProcess
<1>4. CASE Begin \/ (Fault("db") /\ OpenDbFail /\ KeepGoroutines)
  <2>1. /\ main' \in {"down", "opening", "probing"}
        /\ main \in {"down", "opening"}
        /\ UNCHANGED <<indexer, deposits>>
    BY <1>4 DEF Begin, Launch, OpenDb, OpenDbFail, Goto
  <2> QED
    BY <1>1, <1>2, <2>1
       DEF TypeOK, Control, ChainTypeOK, tables, indexer, deposits, Height
<1>5. CASE GoroutinesEnd
  BY <1>1, <1>2, <1>5
     DEF GoroutinesEnd, TypeOK, Control, ChainTypeOK, tables, Height, Position, None
<1>6. CASE StartServices
  <2>1. \/ main = "probing" /\ main' = "window" /\ ipc' = "start" /\ dpc' = dpc
        \/ main = "window" /\ main' = "bridging" /\ ipc' = ipc /\ dpc' = dpc
        \/ main = "bridging" /\ main' = "serving" /\ ipc' = ipc /\ dpc' = "sleep"
    BY <1>6 DEF StartServices, StartIndexer, WindowOver, StartBridge, Goto
  <2>2. UNCHANGED <<latest, at, block, todo, batch>>
    BY <1>6 DEF StartServices
  <2> QED
    BY <1>1, <1>2, <2>1, <2>2
       DEF TypeOK, Control, ChainTypeOK, tables, Height
<1> QED
  BY <1>1, <1>3, <1>4, <1>5, <1>6 DEF Start, ReportError, BeginFail, KillProcess

LEMMA FaultType == ASSUME TypeOK, NEW kind, Fault(kind) PROVE faults' \in Nat
BY DEF TypeOK, Fault

\* A row is added at the end of the table, or none.
LEMMA AppendFacts ==
    ASSUME TypeOK, ipc = "handle", NEW k \in todo, SaveResult(k)
    PROVE  /\ block[k] \in Txs
           /\ table' \in Seq(Txs)
           /\ Len(table) \in Nat
           /\ Len(table') \in {Len(table), Len(table) + 1}
           /\ \A n \in 1 .. Len(table) : table'[n] = table[n]
           /\ IsStored(block[k]) => table' = table
           /\ ~IsStored(block[k]) =>
                 Len(table') = Len(table) + 1 /\ table'[Len(table) + 1] = block[k]
<1>1. block[k] \in Txs
  BY ElementOfSeq DEF TypeOK
<1>2. table \in Seq(Txs) /\ Len(table) \in Nat
  BY LenProperties DEF TypeOK
<1>3. CASE IsStored(block[k])
  BY <1>1, <1>2, <1>3 DEF SaveResult
<1>4. CASE ~IsStored(block[k])
  <2>1. table' = Append(table, block[k])
    BY <1>4 DEF SaveResult
  <2> QED
    BY <1>1, <1>2, <1>4, <2>1, AppendProperties
<1> QED
  BY <1>3, <1>4

LEMMA IndexerStep ==
    ASSUME TypeOK, Control, Indexer
    PROVE  TypeOK' /\ Control'
<1> USE DEF TypeOK, Control, ChainTypeOK, Position, Height, KeepOthers, command, deposits
<1>0. CommandTypeOK' /\ UNCHANGED <<blocks, main, dpc, batch, minted, replaced>>
  BY DEF Indexer, ReadLatest, Load, StartFail, Refresh, RefreshFail, EnterLoop,
         AskHash, ReadBlock, ReadFail, SaveResult, SaveBlock, CommandTypeOK
<1>1. ASSUME UNCHANGED <<cursor, table, at, block, todo, origin>>, faults' \in Nat,
             latest' \in Nat, latest' <= Len(blocks),
             \/ ipc = "start" /\ ipc' = "load" /\ latest' = Len(blocks)
             \/ ipc = "start" /\ ipc' = "failed"
             \/ ipc = "load" /\ ipc' = "failed"
             \/ ipc = "loop" /\ ipc' = "loop"
      PROVE  TypeOK' /\ Control'
  BY <1>0, <1>1
<1>2. Len(blocks) \in Nat
  BY LenProperties
<1>3. CASE ReadLatest \/ Refresh
  BY <1>1, <1>2, <1>3 DEF ReadLatest, Refresh, LatestBlock
<1>4. CASE StartFail \/ RefreshFail
  <2>1. faults' \in Nat
    BY <1>4, FaultType DEF StartFail, RefreshFail
  <2> QED
    BY <1>1, <1>2, <1>4, <2>1 DEF StartFail, RefreshFail
<1>5. CASE Load
  <2>1. cursor' \in Position /\ cursor' # None /\ cursor'.block >= 1 /\ origin' \in Nat
    BY <1>5 DEF Load, None
  <2> QED
    BY <1>0, <1>5, <2>1 DEF Load
<1>6. CASE EnterLoop
  <2>1. at' = After(cursor) /\ at' \in Position /\ at'.block <= latest
    BY <1>6 DEF EnterLoop, After
  <2> QED
    BY <1>0, <1>6, <2>1 DEF EnterLoop
<1>7. CASE AskHash
  <2>1. at.block \in 1 .. Len(blocks)
    BY <1>2, <1>7 DEF AskHash, After
  <2>2. block' \in Seq(Txs)
    BY <1>7, <2>1, ElementOfSeq DEF AskHash, GetBlockHash
  <2> QED
    BY <1>0, <1>7, <2>2 DEF AskHash
<1>8. CASE ReadBlock
  <2>1. todo' \subseteq 1 .. Len(block)
    BY <1>8 DEF ReadBlock, ParseBlock, From
  <2>2. \/ cursor.block = at.block
        \/ cursor.tx = 0 /\ cursor.block + 1 = at.block
    BY <1>8 DEF ReadBlock, After
  <2> QED
    BY <1>0, <1>8, <2>1, <2>2 DEF ReadBlock
<1>9. CASE ReadFail
  <2>1. faults' \in Nat
    BY <1>9, FaultType DEF ReadFail
  <2>2. at' = cursor
    BY <1>9 DEF ReadFail, Before, After
  <2>3. block' \in Seq(Txs) /\ todo = {} /\ ipc \in {"hash", "block"}
    BY <1>9 DEF ReadFail
  <2> QED
    BY <1>0, <1>9, <2>1, <2>2, <2>3 DEF ReadFail
<1>10. ASSUME NEW k \in todo, SaveResult(k) PROVE TypeOK' /\ Control'
  <2>1. /\ ipc = "handle" /\ ipc' = "handle"
        /\ cursor' = [block |-> at.block, tx |-> k] /\ todo' = todo \ {k}
        /\ UNCHANGED <<latest, at, block, origin, faults>>
    BY <1>10 DEF SaveResult
  <2>2. table' \in Seq(Txs) /\ batch \subseteq 1 .. Len(table')
    <3> HIDE DEF TypeOK, Control
    <3>1. /\ table' \in Seq(Txs) /\ Len(table) \in Nat
          /\ Len(table') \in {Len(table), Len(table) + 1}
      BY <1>10, <2>1, AppendFacts
    <3>2. batch \subseteq 1 .. Len(table)
      BY DEF TypeOK
    <3> QED
      BY <3>1, <3>2
  <2>3. k \in Nat /\ k # 0 /\ at.block >= 1
    BY <2>1
  <2>4. cursor' \in Position /\ cursor' # None /\ cursor'.block >= 1
    BY <2>1, <2>3 DEF None
  <2> QED
    BY <1>0, <2>1, <2>2, <2>4
<1>11. CASE SaveBlock
  <2>1. at.block >= 1 /\ ipc = "handle" /\ todo = {}
    BY <1>11 DEF SaveBlock
  <2>2. cursor' \in Position /\ cursor' # None /\ cursor'.block >= 1
    BY <1>11, <2>1 DEF SaveBlock, None
  <2>3. CASE at.block + 1 <= latest
    <3>1. at' = After(cursor)' /\ at' \in Position /\ at'.block <= latest /\ ipc' = "hash"
      BY <1>11, <2>3 DEF SaveBlock, After
    <3> QED
      BY <1>0, <1>11, <2>1, <2>2, <3>1 DEF SaveBlock
  <2>4. CASE ~(at.block + 1 <= latest)
    BY <1>0, <1>11, <2>1, <2>2, <2>4 DEF SaveBlock
  <2> QED
    BY <2>3, <2>4
<1> QED
  BY <1>3, <1>4, <1>5, <1>6, <1>7, <1>8, <1>9, <1>10, <1>11 DEF Indexer

LEMMA DepositStep ==
    ASSUME TypeOK, Control, Deposit
    PROVE  /\ TypeOK' /\ Control'
           /\ UNCHANGED <<blocks, main, cursor, table, indexer, origin, replaced>>
<1>1. UNCHANGED <<blocks, command, cursor, table, indexer, origin, replaced>>
  BY DEF Deposit, GetTxToDeposit, Confirm, ConfirmFail, Mint, MintFail, KeepIndexer
<1>2. faults' \in Nat
  BY FaultType DEF Deposit, GetTxToDeposit, Confirm, ConfirmFail, Mint, MintFail, TypeOK
<1>3. /\ batch' \subseteq 1 .. Len(table) /\ minted' \subseteq Txs
      /\ dpc # "off" /\ dpc' \in {"sleep", "next", "mint"}
  <2>1. CASE GetTxToDeposit
    BY <2>1 DEF GetTxToDeposit, Waiting, TypeOK
  <2>2. ASSUME NEW n \in batch, Confirm(n) \/ ConfirmFail(n) \/ MintFail(n)
        PROVE  <1>3
    BY <2>2 DEF Confirm, ConfirmFail, MintFail, Done, TypeOK
  <2>3. ASSUME NEW n \in batch, Mint(n) PROVE <1>3
    <3>1. table[n] \in Txs
      BY ElementOfSeq DEF TypeOK
    <3> QED
      BY <2>3, <3>1 DEF Mint, Done, TypeOK
  <2> QED
    BY <2>1, <2>2, <2>3 DEF Deposit
<1> QED
  BY <1>1, <1>2, <1>3
     DEF TypeOK, Control, CommandTypeOK, ChainTypeOK, command, indexer, Height

LEMMA TypeStep ==
    ASSUME TypeOK, Control, [Next]_vars
    PROVE  TypeOK' /\ Control'
<1>1. CASE Chain
  BY <1>1, GrowStep DEF Chain
<1>2. CASE Start \/ BeginFail \/ KillProcess
  BY <1>2, CommandStep
<1>3. CASE Indexer \/ Deposit
  BY <1>3, IndexerStep, DepositStep
<1>4. CASE UNCHANGED vars
  BY <1>4 DEF vars, TypeOK, Control, CommandTypeOK, ChainTypeOK, Height, command,
              tables, indexer, deposits
<1> QED
  BY <1>1, <1>2, <1>3, <1>4 DEF Next

LEMMA ControlAlways == Spec => [](TypeOK /\ Control)
<1>1. TypeOK /\ Control /\ [Next]_vars => (TypeOK /\ Control)'
  BY TypeStep
<1> QED
  BY <1>1, TypeInit, PTL DEF Spec

\* The variables keep their types: no roll back of the indexer goes below the first
\* block, and the lists of both services only name what is there.
THEOREM TypeCorrect == Spec => []TypeOK
BY ControlAlways, PTL

-----------------------------------------------------------------------------
(* The table. *)

\* What the steps other than SaveResult leave alone.
LEMMA TableStays ==
    ASSUME [Next]_vars, \A k \in todo : ~SaveResult(k)
    PROVE  table' = table
BY DEF Next, vars, Chain, Grow, Start, Begin, StartServices, ReportError, BeginFail,
       KillProcess, KeepRest, Indexer, ReadLatest, Load, StartFail, Refresh, RefreshFail,
       EnterLoop, AskHash, ReadBlock, ReadFail, SaveBlock, Deposit, GetTxToDeposit,
       Confirm, ConfirmFail, Mint, MintFail, KeepIndexer, tables

\* What a row names it names for ever, and a row stays.
LEMMA RowsStay ==
    ASSUME TypeOK, [Next]_vars
    PROVE  /\ \A n \in 1 .. Len(table) : n \in 1 .. Len(table') /\ table'[n] = table[n]
           /\ \A t : IsStored(t) => IsStored(t)'
<1>1. \A n \in 1 .. Len(table) : n \in 1 .. Len(table') /\ table'[n] = table[n]
  <2>1. ASSUME NEW k \in todo, SaveResult(k) PROVE <1>1
    <3>1. ipc = "handle"
      BY <2>1 DEF SaveResult
    <3>2. /\ Len(table) \in Nat /\ Len(table') \in {Len(table), Len(table) + 1}
          /\ \A n \in 1 .. Len(table) : table'[n] = table[n]
      BY <2>1, <3>1, AppendFacts
    <3> QED
      BY <3>2
  <2> QED
    BY <2>1, TableStays
<1> QED
  BY <1>1 DEF IsStored

LEMMA OneRowStep ==
    ASSUME TypeOK, OneRow, [Next]_vars
    PROVE  OneRow'
<1>1. ASSUME NEW k \in todo, SaveResult(k), ~IsStored(block[k]) PROVE OneRow'
  <2>1. ipc = "handle"
    BY <1>1 DEF SaveResult
  <2>2. /\ Len(table) \in Nat /\ Len(table') = Len(table) + 1
        /\ \A n \in 1 .. Len(table) : table'[n] = table[n]
        /\ table'[Len(table) + 1] = block[k]
    BY <1>1, <2>1, AppendFacts
  <2>3. \A n \in 1 .. Len(table) : table[n] # block[k]
    BY <1>1 DEF IsStored
  <2>4. ASSUME NEW m \in 1 .. Len(table'), NEW n \in 1 .. Len(table'),
               table'[m] = table'[n]
        PROVE  m = n
    <3>1. \/ m \in 1 .. Len(table) /\ n \in 1 .. Len(table)
          \/ m \in 1 .. Len(table) /\ n = Len(table) + 1
          \/ m = Len(table) + 1 /\ n \in 1 .. Len(table)
          \/ m = n
      BY <2>2
    <3> QED
      BY <2>2, <2>3, <2>4, <3>1 DEF OneRow
  <2> QED
    BY <2>4 DEF OneRow
<1>2. ASSUME NEW k \in todo, SaveResult(k), IsStored(block[k]) PROVE OneRow'
  <2>1. table' = table
    BY <1>2 DEF SaveResult
  <2> QED
    BY <2>1 DEF OneRow
<1>3. CASE \A k \in todo : ~SaveResult(k)
  BY <1>3, TableStays DEF OneRow
<1> QED
  BY <1>1, <1>2, <1>3

\* However the chain is reorganised and wherever the process dies, a transaction
\* has one row at most.
THEOREM OneRowPerTransaction == Spec => []OneRow
<1>1. Init => OneRow
  BY DEF Init, OneRow
<1>2. TypeOK /\ OneRow /\ [Next]_vars => OneRow'
  BY OneRowStep
<1> QED
  BY <1>1, <1>2, TypeCorrect, PTL DEF Spec

-----------------------------------------------------------------------------
(* Confirmations. *)

\* A minted deposit has its confirmations still, and so has the one about to be.
MintConfirmed ==
    /\ \A t \in minted : CheckConfirmations(t)
    /\ dpc = "mint" => \A n \in batch : First(n) => CheckConfirmations(table[n])

LEMMA MintConfirmedStep ==
    ASSUME MaxReorg < targetConfirmations, TypeOK, Control, MintConfirmed, [Next]_vars
    PROVE  MintConfirmed'
<1>1. CASE Chain
  <2>1. PICK n \in 0 .. MaxReorg : Grow(n)
    BY <1>1 DEF Chain
  <2>2. n \in Nat /\ n < targetConfirmations /\ Extend(n) /\ ChainTypeOK
    BY <2>1, L1Assumption, ClientAssumption DEF Grow, TypeOK
  <2>3. \A t : CheckConfirmations(t) => CheckConfirmations(t)'
    BY <2>2, ConfirmationsStay
  <2>4. UNCHANGED <<minted, table, dpc, batch>>
    BY <2>1 DEF Grow, tables, deposits
  <2> QED
    BY <2>3, <2>4 DEF MintConfirmed, First
<1>2. ASSUME UNCHANGED blocks
      PROVE  \A t : CheckConfirmations(t) <=> CheckConfirmations(t)'
  BY <1>2 DEF CheckConfirmations, HasConfirmations, Height
<1>3. CASE Start \/ BeginFail \/ KillProcess
  <2>1. /\ UNCHANGED <<blocks, minted, table>>
        /\ \/ dpc' # "mint"
           \/ UNCHANGED <<dpc, batch>>
    BY <1>3, CommandStep DEF tables, deposits, GoroutinesEnd
  <2> QED
    BY <1>2, <2>1 DEF MintConfirmed, First
<1>4. CASE Indexer
  <2>1. UNCHANGED <<blocks, minted, dpc, batch>>
    BY <1>4 DEF Indexer, ReadLatest, Load, StartFail, Refresh, RefreshFail, EnterLoop,
       AskHash, ReadBlock, ReadFail, SaveResult, SaveBlock, KeepOthers, deposits
  <2>2. \A n \in batch : table'[n] = table[n]
    BY RowsStay DEF TypeOK
  <2> QED
    BY <1>2, <2>1, <2>2 DEF MintConfirmed, First
<1>5. CASE Deposit
  <2>1. UNCHANGED <<blocks, table>>
    BY <1>5, DepositStep
  <2>2. CASE GetTxToDeposit
    BY <1>2, <2>1, <2>2 DEF GetTxToDeposit, MintConfirmed
  <2>3. ASSUME NEW n \in batch, Confirm(n) PROVE MintConfirmed'
    <3>1. \A m \in batch : First(m) => m = n
      BY <2>3 DEF Confirm, First, TypeOK
    <3> QED
      BY <1>2, <2>1, <2>3, <3>1 DEF Confirm, MintConfirmed, First
  <2>4. ASSUME NEW n \in batch, ConfirmFail(n) \/ MintFail(n) PROVE MintConfirmed'
    BY <1>2, <2>1, <2>4 DEF ConfirmFail, MintFail, Done, MintConfirmed
  <2>5. ASSUME NEW n \in batch, Mint(n) PROVE MintConfirmed'
    BY <1>2, <2>1, <2>5 DEF Mint, Done, MintConfirmed
  <2> QED
    BY <1>5, <2>2, <2>3, <2>4, <2>5 DEF Deposit
<1>6. CASE UNCHANGED vars
  <2>1. UNCHANGED <<blocks, minted, table, dpc, batch>>
    BY <1>6 DEF vars, tables, deposits
  <2> QED
    BY <1>2, <2>1 DEF MintConfirmed, First
<1> QED
  BY <1>1, <1>3, <1>4, <1>5, <1>6 DEF Next

\* What is minted stays on the L1 chain, as long as more confirmations are asked
\* for than a reorganisation replaces blocks.
THEOREM MintedStays ==
    ASSUME MaxReorg < targetConfirmations
    PROVE  Spec => []MintedIsFinal
<1>1. Init => MintConfirmed
  BY DEF Init, MintConfirmed
<1>2. TypeOK /\ Control /\ MintConfirmed /\ [Next]_vars => MintConfirmed'
  BY MintConfirmedStep
<1>3. MintConfirmed => MintedIsFinal
  BY DEF MintConfirmed, MintedIsFinal, CheckConfirmations, HasConfirmations, OnChain
<1> QED
  BY <1>1, <1>2, <1>3, ControlAlways, PTL DEF Spec

-----------------------------------------------------------------------------
(* Reorganisations. *)

\* Position k of block h is not behind the stored cursor.
Passed(h, k) == h < cursor.block \/ (h = cursor.block /\ (cursor.tx = 0 \/ k <= cursor.tx))

Counts(h) == h \in 1 .. Height /\ origin < h /\ h \notin replaced

\* The deposits the cursor has passed have rows, in every block that did not take
\* the place of one read before.
CursorCovered ==
    \A h \in 1 .. Height : Counts(h) =>
        \A k \in 1 .. Len(blocks[h]) : Passed(h, k) =>
            \A t : t = blocks[h][k] /\ IsDeposit(t) => IsStored(t)

\* The block in memory is that of the chain, unless it was replaced since it was
\* asked for, and its deposits that are not left to handle have rows.
BlockCovered ==
    /\ ipc \in {"block", "handle"} /\ Counts(at.block) => block = blocks[at.block]
    /\ ipc = "handle" /\ Counts(at.block) =>
          \A k \in 1 .. Len(block) : k \notin todo =>
              \A t : t = block[k] /\ IsDeposit(t) => IsStored(t)

\* The cursor is at a block that exists.
CursorBelow == cursor.block <= Height

CoverInv == CursorCovered /\ BlockCovered /\ CursorBelow

\* Whether a memo is a deposit does not change.
LEMMA MemoStays == \A t : IsDeposit(t)' <=> IsDeposit(t)
BY DEF IsDeposit, IsDepositMemo, Malformed, ParsesAsInt, ConvertScientificToBigIntString,
       WithoutPrefix, Empty

\* Steps that leave the chain and the cursor alone, and of the block in memory at
\* most forget it.
LEMMA CoverQuiet ==
    ASSUME TypeOK, CoverInv, [Next]_vars,
           UNCHANGED <<blocks, cursor, origin, replaced>>,
           \/ ipc' \notin {"block", "handle"}
           \/ UNCHANGED <<ipc, at, block, todo>>
    PROVE  CoverInv'
BY RowsStay, MemoStays
   DEF CoverInv, CursorCovered, BlockCovered, CursorBelow, Counts, Passed, Height

LEMMA CoverGrow ==
    ASSUME TypeOK, Control, CoverInv, NEW n \in 0 .. MaxReorg, Grow(n), [Next]_vars
    PROVE  CoverInv'
<1>1. /\ n \in Nat /\ Height \in Nat /\ n < Height /\ Height' = Height + 1
      /\ \A h \in 1 .. Height - n : blocks'[h] = blocks[h]
  BY L1Assumption, ExtendFacts DEF Grow, TypeOK, Height
<1>2. UNCHANGED <<cursor, table, origin, ipc, latest, at, block, todo>>
  BY DEF Grow, tables, indexer
<1>3. /\ replaced \subseteq replaced'
      /\ \A h \in Height - n + 1 .. Height : WasRead(h) => h \in replaced'
  BY DEF Grow
\* A block that counts and was read is one of those kept.
<1>4. ASSUME NEW h \in 1 .. Height', Counts(h)', WasRead(h)
      PROVE  h \in 1 .. Height /\ Counts(h) /\ blocks'[h] = blocks[h]
  <2>1. h <= Height
    BY <1>1, <1>4 DEF WasRead, TypeOK, Control, Position, CoverInv, CursorBelow
  <2>2. h \notin Height - n + 1 .. Height
    BY <1>3, <1>4 DEF Counts
  <2>3. h \in 1 .. Height - n
    BY <1>1, <1>4, <2>1, <2>2
  <2> QED
    BY <1>1, <1>2, <1>3, <1>4, <2>1, <2>3 DEF Counts
<1>5. CursorCovered'
  <2> SUFFICES ASSUME NEW h \in 1 .. Height', Counts(h)',
                      NEW k \in 1 .. Len(blocks'[h]), Passed(h, k)',
                      NEW t, t = blocks'[h][k], IsDeposit(t)
               PROVE  IsStored(t)'
    BY MemoStays DEF CursorCovered
  <2>1. WasRead(h)
    BY <1>2 DEF Passed, WasRead, None, TypeOK, Position
  <2>2. h \in 1 .. Height /\ Counts(h) /\ blocks'[h] = blocks[h]
    BY <1>4, <2>1
  <2>3. Passed(h, k)
    BY <1>2 DEF Passed
  <2>4. IsStored(t)
    BY <2>2, <2>3 DEF CoverInv, CursorCovered
  <2> QED
    BY <1>2, <2>2, <2>4 DEF IsStored
<1>6. BlockCovered'
  <2> SUFFICES ASSUME ipc \in {"block", "handle"}, Counts(at.block)'
               PROVE  /\ block = blocks'[at.block]
                      /\ Counts(at.block)
    BY <1>2, MemoStays DEF BlockCovered, CoverInv, IsStored
  <2>1. at.block \in 1 .. Height' /\ WasRead(at.block)
    BY <1>2 DEF Counts, WasRead, TypeOK, Position
  <2>2. Counts(at.block)' /\ Counts(at.block) /\ blocks'[at.block] = blocks[at.block]
    BY <1>2, <1>4, <2>1
  <2> QED
    BY <2>2 DEF CoverInv, BlockCovered
<1> QED
  BY <1>1, <1>2, <1>5, <1>6 DEF CoverInv, CursorBelow, TypeOK, Position

LEMMA CoverIndexer ==
    ASSUME TypeOK, Control, CoverInv, Indexer, [Next]_vars
    PROVE  CoverInv'
<1>0. UNCHANGED <<blocks, replaced>> /\ Height \in Nat
  BY LenProperties
     DEF Indexer, ReadLatest, Load, StartFail, Refresh, RefreshFail, EnterLoop, AskHash,
         ReadBlock, ReadFail, SaveResult, SaveBlock, KeepOthers, Height, TypeOK, ChainTypeOK
<1>1. CASE ReadLatest \/ StartFail \/ Refresh \/ RefreshFail \/ EnterLoop \/ ReadFail
  BY <1>0, <1>1, CoverQuiet
     DEF ReadLatest, StartFail, Refresh, RefreshFail, EnterLoop, ReadFail
<1>2. CASE Load
  <2>1. CASE cursor # None
    <3>1. UNCHANGED <<cursor, origin>> /\ ipc' = "loop"
      BY <1>2, <2>1 DEF Load
    <3> QED
      BY <1>0, <3>1, CoverQuiet
  \* The block of a new cursor is the first one not read, so nothing is owed yet.
  <2>2. CASE cursor = None
    <3>1. /\ cursor' = [block |-> latest, tx |-> 0] /\ origin' = latest
          /\ ipc' = "loop" /\ UNCHANGED latest
      BY <1>2, <2>2 DEF Load
    <3>2. latest \in Nat /\ latest <= Height /\ Height' = Height
      BY <1>0 DEF TypeOK, Control, Height
    <3>3. CursorCovered'
      <4>1. ASSUME NEW h \in 1 .. Height', Counts(h)' PROVE \A k : ~Passed(h, k)'
        BY <1>0, <3>1, <3>2, <4>1 DEF Counts, Passed
      <4> QED
        BY <4>1 DEF CursorCovered
    <3> QED
      BY <3>1, <3>2, <3>3 DEF CoverInv, BlockCovered, CursorBelow
  <2> QED
    BY <2>1, <2>2
<1>3. CASE AskHash
  <2>1. /\ ipc' = "block" /\ block' = blocks[at.block]
        /\ UNCHANGED <<cursor, table, at, origin>>
    BY <1>3 DEF AskHash, GetBlockHash
  <2> QED
    BY <1>0, <2>1, MemoStays
       DEF CoverInv, CursorCovered, BlockCovered, CursorBelow, Counts, Passed, IsStored,
           Height
<1>4. CASE ReadBlock
  <2>1. /\ ipc = "block" /\ ipc' = "handle"
        /\ todo' = {k \in 1 .. Len(block) : k >= at.tx /\ IsDeposit(block[k])}
        /\ UNCHANGED <<cursor, table, at, block, origin>>
        /\ at = After(cursor)
    BY <1>4 DEF ReadBlock, ParseBlock, From, Control
  <2>2. CursorCovered' /\ CursorBelow'
    BY <1>0, <2>1, MemoStays
       DEF CoverInv, CursorCovered, CursorBelow, Counts, Passed, IsStored, Height
  <2>3. ASSUME Counts(at.block), NEW k \in 1 .. Len(block), k \notin todo',
               NEW t, t = block[k], IsDeposit(t)
        PROVE  IsStored(t)
    <3>1. k \in Nat /\ k >= 1 /\ ~(k >= at.tx)
      BY <2>1, <2>3 DEF TypeOK
    <3>2. at.block = cursor.block /\ k <= cursor.tx
      BY <2>1, <3>1 DEF After, TypeOK, Position
    <3>3. block = blocks[at.block] /\ at.block \in 1 .. Height
      BY <2>1, <2>3 DEF CoverInv, BlockCovered, Counts
    <3>4. Passed(at.block, k)
      BY <3>2 DEF Passed
    <3> QED
      BY <2>3, <3>3, <3>4 DEF CoverInv, CursorCovered
  <2>4. BlockCovered'
    BY <1>0, <2>1, <2>3, MemoStays
       DEF CoverInv, BlockCovered, Counts, IsStored, Height
  <2> QED
    BY <2>2, <2>4 DEF CoverInv
\* The cursor is written behind position k, or behind the whole block.
<1>5. ASSUME NEW b, b = at.block,
             ipc = "handle", cursor'.block = b, origin' = origin,
             \A k \in 1 .. Len(block) : Passed(b, k)' =>
                 \A t : t = block[k] /\ IsDeposit(t) /\ Counts(at.block) => IsStored(t)'
      PROVE  CursorCovered' /\ CursorBelow'
  <2>1. Height' = Height /\ at.block <= Height
    BY <1>0, <1>5 DEF Control, TypeOK, Position, Height
  <2>2. CursorBelow'
    BY <1>5, <2>1 DEF CursorBelow
  <2>3. ASSUME NEW h \in 1 .. Height, Counts(h),
               NEW k \in 1 .. Len(blocks[h]), Passed(h, k)',
               NEW t, t = blocks[h][k], IsDeposit(t)
        PROVE  IsStored(t)'
    <3>1. CASE h = at.block
      <4>1. block = blocks[at.block]
        BY <1>5, <2>3, <3>1 DEF CoverInv, BlockCovered
      <4> QED
        BY <1>5, <2>3, <3>1, <4>1
    <3>2. CASE h < at.block
      <4>1. \/ cursor.block = at.block
            \/ cursor.tx = 0 /\ cursor.block + 1 = at.block
        BY <1>5 DEF Control
      <4>2. cursor.block \in Nat /\ at.block \in Nat /\ h \in Nat
        BY <1>0, <2>3 DEF TypeOK, Position
      <4>3. h < cursor.block \/ (h = cursor.block /\ cursor.tx = 0)
        BY <3>2, <4>1, <4>2
      <4>4. Passed(h, k)
        BY <4>3 DEF Passed
      <4>5. IsStored(t)
        BY <2>3, <4>4 DEF CoverInv, CursorCovered
      <4> QED
        BY <4>5, RowsStay
    <3> QED
      BY <1>5, <2>3, <3>1, <3>2 DEF Passed, TypeOK, Position
  <2>4. CursorCovered'
    BY <1>0, <1>5, <2>1, <2>3, MemoStays DEF CursorCovered, Counts, Height
  <2> QED
    BY <2>2, <2>4
<1>6. ASSUME NEW k \in todo, SaveResult(k) PROVE CoverInv'
  <2>1. /\ ipc = "handle" /\ ipc' = "handle"
        /\ cursor' = [block |-> at.block, tx |-> k] /\ todo' = todo \ {k}
        /\ \A j \in todo : k <= j
        /\ UNCHANGED <<latest, at, block, origin>>
    BY <1>6 DEF SaveResult
  <2>2. k \in 1 .. Len(block) /\ Len(block) \in Nat
    BY LenProperties DEF TypeOK
  <2>3. IsStored(block[k])'
    <3>1. CASE IsStored(block[k])
      <4>1. block' = block /\ table' = table
        BY <1>6, <2>1, <3>1 DEF SaveResult
      <4> QED
        BY <3>1, <4>1 DEF IsStored
    <3>2. CASE ~IsStored(block[k])
      <4>1. /\ Len(table) \in Nat /\ Len(table') = Len(table) + 1
            /\ table'[Len(table) + 1] = block[k]
        BY <1>6, <2>1, <3>2, AppendFacts
      <4> QED
        BY <2>1, <4>1 DEF IsStored
    <3> QED
      BY <3>1, <3>2
  <2>4. ASSUME Counts(at.block), NEW j \in 1 .. Len(block), j \notin todo',
               NEW t, t = block[j], IsDeposit(t)
        PROVE  IsStored(t)'
    <3>1. CASE j = k
      BY <2>1, <2>3, <2>4, <3>1 DEF IsStored
    <3>2. CASE j # k
      <4>1. j \notin todo
        BY <2>1, <2>4, <3>2
      <4>2. IsStored(t)
        BY <2>1, <2>4, <4>1 DEF CoverInv, BlockCovered
      <4> QED
        BY <4>2, RowsStay
    <3> QED
      BY <3>1, <3>2
  <2>5. ASSUME NEW j \in 1 .. Len(block), Passed(at.block, j)'
        PROVE  j \notin todo'
    <3>1. j <= k
      BY <2>1, <2>2, <2>5 DEF Passed, TypeOK, Position
    <3> QED
      BY <2>1, <2>2, <3>1
  <2>6. CursorCovered' /\ CursorBelow'
    BY <1>5, <2>1, <2>4, <2>5
  <2>7. Counts(at.block)' <=> Counts(at.block)
    BY <1>0, <2>1 DEF Counts, Height
  <2>8. BlockCovered'
    <3>1. Counts(at.block) => block = blocks[at.block]
      BY <2>1 DEF CoverInv, BlockCovered
    <3> QED
      BY <1>0, <2>1, <2>4, <2>7, <3>1, MemoStays DEF BlockCovered
  <2> QED
    BY <2>6, <2>8 DEF CoverInv
<1>7. CASE SaveBlock
  <2>1. /\ ipc = "handle" /\ todo = {} /\ ipc' \in {"hash", "loop"}
        /\ cursor' = [block |-> at.block, tx |-> 0]
        /\ UNCHANGED <<table, origin>>
    BY <1>7 DEF SaveBlock
  <2>2. ASSUME Counts(at.block), NEW k \in 1 .. Len(block),
               NEW t, t = block[k], IsDeposit(t)
        PROVE  IsStored(t)'
    <3>1. IsStored(t)
      BY <2>1, <2>2 DEF CoverInv, BlockCovered
    <3> QED
      BY <3>1, RowsStay
  <2>3. CursorCovered' /\ CursorBelow'
    BY <1>5, <2>1, <2>2
  <2> QED
    BY <2>1, <2>3 DEF CoverInv, BlockCovered
<1> QED
  BY <1>1, <1>2, <1>3, <1>4, <1>6, <1>7 DEF Indexer

LEMMA CoverStep ==
    ASSUME TypeOK, Control, CoverInv, [Next]_vars
    PROVE  CoverInv'
<1>1. CASE Chain
  BY <1>1, CoverGrow DEF Chain
<1>2. CASE Indexer
  BY <1>2, CoverIndexer
<1>3. CASE Start \/ BeginFail \/ KillProcess
  <2>1. UNCHANGED <<blocks, tables, origin, replaced>>
    BY <1>3, CommandStep
  <2>2. \/ ipc' \notin {"block", "handle"}
        \/ UNCHANGED <<ipc, at, block, todo>>
    BY <1>3, CommandStep DEF indexer, GoroutinesEnd
  <2> QED
    BY <2>1, <2>2, CoverQuiet DEF tables
<1>4. CASE Deposit \/ UNCHANGED vars
  <2>1. UNCHANGED <<blocks, cursor, origin, replaced, indexer>>
    BY <1>4, DepositStep DEF vars, tables
  <2> QED
    BY <2>1, CoverQuiet DEF indexer
<1> QED
  BY <1>1, <1>2, <1>3, <1>4 DEF Next

\* Only a reorganisation loses deposits: whatever fails and wherever the process
\* dies, a finished block without one has a row for each of its deposits.
THEOREM LossNeedsReorg == Spec => []OnlyReorgsLose
<1>1. Init => CoverInv
  <2> SUFFICES ASSUME Init PROVE CoverInv
    OBVIOUS
  <2>1. cursor.block = 0 /\ ipc = "off" /\ Height = 1
    BY DEF Init, ChainInit, None, Height
  <2> QED
    BY <2>1 DEF CoverInv, CursorCovered, BlockCovered, CursorBelow, Passed
<1>2. TypeOK /\ Control /\ CoverInv /\ [Next]_vars => CoverInv'
  BY CoverStep
<1>3. CoverInv => OnlyReorgsLose
  BY DEF CoverInv, CursorCovered, OnlyReorgsLose, Finished, Counts, Passed
<1> QED
  BY <1>1, <1>2, <1>3, ControlAlways, PTL DEF Spec
=============================================================================
