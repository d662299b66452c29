------------------------ MODULE IndexerServiceProofs ------------------------
(***************************************************************************)
(* Proofs about IndexerService, for every chain, every set of faults and   *)
(* any number of crashes.                                                  *)
(***************************************************************************)
EXTENDS IndexerService, TLAPS

InLoop == pc \in {"parse", "handle", "write", "save"}

\* The control state and the values it comes with.
Control ==
    /\ ~hasIndex => pc \in {"down", "load"}
    /\ InLoop => i >= 1
    /\ index.tx # 0 => index.block >= 1
    /\ pc \in {"outer", "wait"} /\ currentTxIndex # 0 => currentBlock >= 1
    /\ pc = "parse" => currentTxIndex # 1
    /\ pc \in {"handle", "write"} => \A k \in todo : <<i, k>> \in Deposits
    /\ pc = "write" => \A k \in todo : Head(k) => <<i, k>> \notin SelfPaid

\* A row First did not see is one of the callback service, and a stored
\* deposit it saw is still there.
Rows ==
    /\ \A p \in ToSave : row[p] = "callback" => p \in CallbackTxs
    /\ pc = "write" => \A k \in todo : Head(k) =>
          /\ found = "none" => row[<<i, k>>] # "indexed"
          /\ found = "indexed" => row[<<i, k>>] = "indexed"

\* What is stored, at each control state: the cursor in the locals never
\* passes a deposit that is not stored, either.
AllStored(S) == \A p \in S : row[p] = "indexed"

MemoryCovered ==
    /\ pc \in {"outer", "wait"} =>
         AllStored({p \in Safe : Covers(currentBlock, currentTxIndex, p)})
    /\ pc = "parse" =>
         AllStored({p \in Safe : p[1] < i \/ (p[1] = i /\ p[2] < currentTxIndex)})
    /\ pc \in {"handle", "write"} =>
         AllStored({p \in Safe : p[1] < i \/ (p[1] = i /\ p[2] \notin todo)})
    /\ pc = "save" => AllStored({p \in Safe : p[1] <= i})

\* The stored cursor is not above the block the loops are at.
CursorBehind ==
    /\ InLoop => index.block <= i
    /\ pc \in {"outer", "wait"} =>
         index.block <= NextPosition(currentBlock, currentTxIndex).block

IInv ==
    /\ TypeOK
    /\ Control
    /\ Rows
    /\ NoDepositSkipped
    /\ MemoryCovered
    /\ CursorBehind

-----------------------------------------------------------------------------
\* Positions are pairs of numbers.
LEMMA Positions ==
    \A p \in ToSave : p[1] \in Nat /\ p[2] \in Nat /\ p = <<p[1], p[2]>>
BY ChainAssumption DEF ToSave

LEMMA TypeInit == Init => TypeOK /\ Control
<1> SUFFICES ASSUME Init PROVE TypeOK /\ Control
  OBVIOUS
<1>1. tip \in Nat
  BY ChainAssumption DEF Init
<1>2. row \in [ToSave -> RowStates]
  BY DEF Init, RowStates
<1> QED
  BY <1>1, <1>2 DEF Init, TypeOK, Control, InLoop, RowStates

\* Types and control state are preserved by every step.
LEMMA TypeStep ==
    ASSUME TypeOK, Control, [Next]_vars
    PROVE  TypeOK' /\ Control'
<1> USE DEF TypeOK, Control, InLoop, RowStates, tables, locals
<1>1. CASE NewBlock
  BY <1>1 DEF NewBlock, Head
<1>2. ASSUME NEW p \in CallbackTxs, CallbackInsert(p)
      PROVE  TypeOK' /\ Control'
  BY <1>2 DEF CallbackInsert, Head
<1>3. CASE Crash
  BY <1>3 DEF Crash
<1>4. CASE ReadLatest
  BY <1>4 DEF ReadLatest
<1>5. CASE Load
  BY <1>5 DEF Load
<1>6. CASE Create
  BY <1>6 DEF Create, CreateRow
<1>7. CASE StartFail
  <2>1. CASE UNCHANGED <<tables, origin>>
    BY <1>7, <2>1 DEF StartFail
  <2>2. CASE CreateRow
    BY <1>7, <2>2 DEF StartFail, CreateRow
  <2> QED
    BY <1>7, <2>1, <2>2 DEF StartFail
<1>8. CASE Idle
  BY <1>8 DEF Idle
<1>9. CASE Refresh \/ RefreshFail
  <2>1. CASE Refresh
    BY <2>1 DEF Refresh
  <2>2. CASE RefreshFail
    BY <2>2 DEF RefreshFail
  <2> QED
    BY <1>9, <2>1, <2>2
<1>10. CASE EnterLoop
  <2>1. /\ currentBlock' = i' /\ i' \in Nat /\ i' >= 1
        /\ currentTxIndex' \in Nat /\ currentTxIndex' # 1
    <3>1. CASE currentTxIndex = 0
      BY <1>10, <3>1 DEF EnterLoop, NextPosition
    <3>2. CASE currentTxIndex # 0
      BY <1>10, <3>2 DEF EnterLoop, NextPosition
    <3> QED
      BY <3>1, <3>2
  <2> QED
    BY <1>10, <2>1 DEF EnterLoop
<1>11. CASE ParseBlock
  <2>1. \A k \in todo' : k \in Nat /\ <<i, k>> \in Deposits
    BY <1>11, ChainAssumption DEF ParseBlock
  <2> QED
    BY <1>11, <2>1 DEF ParseBlock, HandleOrSave
<1>12. CASE ParseFail
  BY <1>12 DEF ParseFail, RollBackTo
<1>13. ASSUME NEW k \in TxIndexes, SkipSelfPaid(k)
       PROVE  TypeOK' /\ Control'
  BY <1>13 DEF SkipSelfPaid, HandleOrSave
<1>14. ASSUME NEW k \in TxIndexes, Lookup(k)
       PROVE  TypeOK' /\ Control'
  <2>1. <<i, k>> \in ToSave /\ k \in todo
    BY <1>14 DEF Lookup, Head, ToSave
  <2>2. \A j \in todo' : Head(j)' => j = k
    BY <1>14 DEF Lookup, Head
  <2> QED
    BY <1>14, <2>1, <2>2 DEF Lookup
<1>15. ASSUME NEW k \in TxIndexes, Commit(k)
       PROVE  TypeOK' /\ Control'
  BY <1>15 DEF Commit, StoreDeposit, HandleOrSave, Head
<1>16. ASSUME NEW k \in TxIndexes, CommitFail(k)
       PROVE  TypeOK' /\ Control'
  <2>1. currentBlock' \in Nat /\ currentTxIndex' \in Nat /\ pc' = "outer"
        /\ (currentTxIndex' # 0 => currentBlock' >= 1)
    BY <1>16 DEF CommitFail, RollBackTo, Head
  <2>2. index' \in [block : Nat, tx : Nat] /\ row' \in [ToSave -> RowStates]
        /\ UNCHANGED hasIndex /\ (index'.tx # 0 => index'.block >= 1)
    BY <1>16 DEF CommitFail, StoreDeposit, Head
  <2>3. hasIndex
    BY <1>16 DEF CommitFail
  <2> QED
    BY <1>16, <2>1, <2>2, <2>3 DEF CommitFail
<1>17. ASSUME NEW k \in TxIndexes, Duplicate(k)
       PROVE  TypeOK' /\ Control'
  BY <1>17 DEF Duplicate, Head
<1>18. CASE SaveBlock
  BY <1>18 DEF SaveBlock
<1>19. CASE SaveBlockFail
  BY <1>19 DEF SaveBlockFail
<1>20. CASE UNCHANGED vars
  BY <1>20 DEF vars, Head
<1> QED
  BY <1>1, <1>2, <1>3, <1>4, <1>5, <1>6, <1>7, <1>8, <1>9, <1>10, <1>11, <1>12,
     <1>13, <1>14, <1>15, <1>16, <1>17, <1>18, <1>19, <1>20 DEF Next

\* The variables keep their types in every run of the indexer.
THEOREM TypeCorrect == Spec => []TypeOK
<1>1. TypeOK /\ Control /\ [Next]_vars => (TypeOK /\ Control)'
  BY TypeStep
<1> QED
  BY <1>1, TypeInit, PTL DEF Spec

-----------------------------------------------------------------------------
\* A position of a loaded set is the k that HandleResults is at.
LEMMA HeadPosition ==
    ASSUME TypeOK, Control, NEW k, Head(k), pc \in {"handle", "write"},
           <<i, k>> \notin SelfPaid
    PROVE  <<i, k>> \in ToSave /\ k \in Nat /\ \A j : Head(j) => j = k
<1>1. k \in todo /\ k \in Nat /\ <<i, k>> \in ToSave
  BY DEF TypeOK, Control, Head, ToSave
<1>2. \A j : Head(j) => j \in Nat /\ j <= k /\ k <= j
  BY <1>1 DEF TypeOK, Head
<1> QED
  BY <1>1, <1>2

LEMMA RowsStep ==
    ASSUME TypeOK, Control, Rows, [Next]_vars
    PROVE  Rows'
<1> USE DEF Rows, tables, locals
<1>1. CASE row' = row /\ pc' # "write"
  BY <1>1
<1>2. ASSUME NEW p \in CallbackTxs, CallbackInsert(p)
      PROVE  Rows'
  <2>1. p \in ToSave /\ row[p] = "none"
    BY <1>2, ChainAssumption DEF CallbackInsert, ToSave
  <2>2. \A q \in ToSave : row'[q] = IF q = p THEN "callback" ELSE row[q]
    BY <1>2, <2>1 DEF CallbackInsert, TypeOK
  <2>3. pc = "write" => \A k \in todo : Head(k) => <<i, k>> \in ToSave
    BY HeadPosition DEF Control
  <2> QED
    BY <1>2, <2>2, <2>3 DEF CallbackInsert, Head
<1>3. ASSUME NEW k \in TxIndexes, Lookup(k)
      PROVE  Rows'
  <2>1. \A j \in todo' : Head(j)' => j = k
    BY <1>3 DEF Lookup, Head, TypeOK
  <2> QED
    BY <1>3, <2>1 DEF Lookup
<1>4. ASSUME NEW k \in TxIndexes, Commit(k) \/ CommitFail(k)
      PROVE  Rows'
  <2>1. pc' # "write"
    BY <1>4 DEF Commit, CommitFail, HandleOrSave, RollBackTo
  <2>2. row' = row \/ row' = [row EXCEPT ![<<i, k>>] = "indexed"]
    BY <1>4 DEF Commit, CommitFail, StoreDeposit
  <2>3. \A q \in ToSave : row'[q] = row[q] \/ row'[q] = "indexed"
    BY <2>2 DEF TypeOK
  <2> QED
    BY <2>1, <2>3
<1>5. CASE UNCHANGED vars \/ NewBlock
  BY <1>5 DEF vars, NewBlock, Head
<1>6. CASE ReadLatest \/ Load \/ Create \/ StartFail \/ Crash
  BY <1>6, <1>1 DEF ReadLatest, Load, Create, StartFail, Crash, CreateRow
<1>7. CASE Idle \/ Refresh \/ RefreshFail \/ EnterLoop
  BY <1>7, <1>1 DEF Idle, Refresh, RefreshFail, EnterLoop
<1>8. CASE ParseBlock \/ ParseFail \/ SaveBlock \/ SaveBlockFail
  BY <1>8, <1>1 DEF ParseBlock, ParseFail, SaveBlock, SaveBlockFail,
                    HandleOrSave, RollBackTo
<1>9. ASSUME NEW k \in TxIndexes, SkipSelfPaid(k) \/ Duplicate(k)
      PROVE  Rows'
  BY <1>9, <1>1 DEF SkipSelfPaid, Duplicate, HandleOrSave
<1> QED
  BY <1>2, <1>3, <1>4, <1>5, <1>6, <1>7, <1>8, <1>9 DEF Next

-----------------------------------------------------------------------------
\* No step takes a stored deposit away, and the deposits owed stay the same
\* once there is a cursor.
LEMMA StoredStays ==
    ASSUME TypeOK, [Next]_vars, NEW p \in ToSave, row[p] = "indexed"
    PROVE  row'[p] = "indexed"
<1>1. ASSUME NEW q \in CallbackTxs, CallbackInsert(q)
      PROVE  row'[p] = "indexed"
  BY <1>1 DEF CallbackInsert, TypeOK
<1>2. ASSUME NEW k \in TxIndexes, Commit(k) \/ CommitFail(k)
      PROVE  row'[p] = "indexed"
  <2>1. row' = row \/ row' = [row EXCEPT ![<<i, k>>] = "indexed"]
    BY <1>2 DEF Commit, CommitFail, StoreDeposit, tables
  <2> QED
    BY <2>1 DEF TypeOK
<1>3. CASE row' = row
  BY <1>3
<1> QED
  BY <1>1, <1>2, <1>3 DEF Next, vars, tables, NewBlock, Crash, ReadLatest,
     Load, Create, StartFail, CreateRow, Idle, Refresh, RefreshFail, EnterLoop,
     ParseBlock, ParseFail, SkipSelfPaid, Lookup, Duplicate, SaveBlock,
     SaveBlockFail

LEMMA OriginStays ==
    ASSUME hasIndex, [Next]_vars
    PROVE  hasIndex' /\ origin' = origin
BY DEF Next, vars, tables, NewBlock, CallbackInsert, Crash, ReadLatest,
     Load, Create, StartFail, CreateRow, Idle, Refresh, RefreshFail, EnterLoop,
     ParseBlock, ParseFail, SkipSelfPaid, Lookup, Commit, CommitFail,
     StoreDeposit, Duplicate, SaveBlock, SaveBlockFail

-----------------------------------------------------------------------------
\* The transaction at the head of todo is stored with everything before it.
LEMMA CommitCovers ==
    ASSUME TypeOK, Control, Rows, MemoryCovered, NEW k, Head(k), pc = "write",
           StoreDeposit(k)
    PROVE  \A p \in Safe :
             p[1] < i \/ (p[1] = i /\ p[2] \notin todo \ {k})
               => row'[p] = "indexed"
<1> SUFFICES ASSUME NEW p \in Safe,
                    p[1] < i \/ (p[1] = i /\ p[2] \notin todo \ {k})
             PROVE  row'[p] = "indexed"
  OBVIOUS
<1>1. p \in ToSave /\ p = <<p[1], p[2]>>
  BY Positions DEF Safe, Owed
<1>2. <<i, k>> \in ToSave
  BY HeadPosition DEF Control, Head
<1>3. CASE p = <<i, k>>
  <2>1. found = "indexed" => row[p] = "indexed"
    BY <1>3 DEF Rows, Head
  <2> QED
    BY <1>1, <1>2, <1>3, <2>1 DEF StoreDeposit, TypeOK
<1>4. CASE p # <<i, k>>
  <2>1. row[p] = "indexed"
    BY <1>1, <1>4 DEF MemoryCovered, AllStored
  <2> QED
    BY <1>1, <1>2, <2>1 DEF StoreDeposit, TypeOK
<1> QED
  BY <1>3, <1>4

\* The roll back of transaction k keeps the cursor in memory below it.
LEMMA RollBackCovers ==
    ASSUME TypeOK, Control, NEW k \in Nat, RollBackTo(k),
           k = 1 => \A p \in Safe : p[1] # i
    PROVE  \A p \in Safe : Covers(currentBlock', currentTxIndex', p)
              => p[1] < i \/ (p[1] = i /\ p[2] < k)
<1>1. CASE k = 0
  BY <1>1, Positions DEF RollBackTo, Covers, TypeOK, Safe, Owed
<1>2. CASE k # 0
  BY <1>2, Positions DEF RollBackTo, Covers, TypeOK, Safe, Owed
<1> QED
  BY <1>1, <1>2

-----------------------------------------------------------------------------
Coverage == NoDepositSkipped /\ MemoryCovered

\* As long as there is no cursor, nothing is owed to be stored.
LEMMA CoverageStart ==
    ASSUME IInv, [Next]_vars, ~hasIndex
    PROVE  Coverage'
<1> USE DEF Coverage, NoDepositSkipped, MemoryCovered, AllStored
<1>1. pc \in {"down", "load"}
  BY DEF IInv, Control
<1>2. CASE CreateRow /\ pc' \in {"down", "outer"}
                     /\ (pc' = "outer" => Create)
  <2>1. \A p \in Safe' : ~Covers(index'.block, index'.tx, p)
    BY <1>2, Positions DEF CreateRow, Covers, Safe, Owed, IInv, TypeOK
  <2>2. pc' = "outer" => currentBlock' = index'.block
                         /\ currentTxIndex' = index'.tx
    BY <1>2 DEF Create, CreateRow
  <2>3. NoDepositSkipped'
    BY <2>1
  <2>4. CASE pc' = "down"
    BY <2>3, <2>4
  <2>5. CASE pc' = "outer"
    <3>1. \A p \in Safe' : ~Covers(currentBlock', currentTxIndex', p)
      BY <2>1, <2>2, <2>5
    <3> QED
      BY <2>3, <2>5, <3>1
  <2> QED
    BY <1>2, <2>4, <2>5
<1>3. CASE ~hasIndex' /\ pc' \in {"down", "load"}
  BY <1>3
<1>4. CASE StartFail
  BY <1>2, <1>3, <1>4 DEF StartFail, tables
<1>5. CASE Create
  BY <1>2, <1>5 DEF Create
<1>6. Create \/ StartFail \/ (~hasIndex' /\ pc' \in {"down", "load"})
  <2> HIDE DEF Coverage, NoDepositSkipped, MemoryCovered, AllStored
  <2> QED
    BY <1>1 DEF Next, vars, tables, NewBlock, CallbackInsert,
       Crash, ReadLatest, Load, Idle, Refresh, RefreshFail, EnterLoop,
       ParseBlock, ParseFail, SkipSelfPaid, Lookup, Commit, CommitFail,
       Duplicate, SaveBlock, SaveBlockFail
<1> QED
  BY <1>3, <1>4, <1>5, <1>6

\* Once there is one, no step stores or keeps a cursor beyond a deposit that
\* is not stored.
LEMMA CoverageStep ==
    ASSUME IInv, [Next]_vars, hasIndex
    PROVE  Coverage'
<1> USE DEF IInv, Coverage
<1>1. hasIndex' /\ Safe' = Safe
  BY OriginStays DEF Safe, Owed
<1>2. \A p \in Safe : row[p] = "indexed" => row'[p] = "indexed"
  BY StoredStays DEF Safe, Owed
<1>3. \A p \in Safe : p[1] \in Nat /\ p[2] \in Nat /\ p = <<p[1], p[2]>>
  BY Positions DEF Safe, Owed
<1>4. index' = index => NoDepositSkipped'
  BY <1>1, <1>2 DEF NoDepositSkipped
<1>5. CASE UNCHANGED <<pc, locals>> /\ index' = index
  BY <1>1, <1>2, <1>4, <1>5 DEF MemoryCovered, AllStored, locals
<1>6. CASE pc' \in {"down", "load"} /\ index' = index
  BY <1>4, <1>6 DEF MemoryCovered
<1>7. CASE Load
  BY <1>1, <1>2, <1>4, <1>7
     DEF Load, NoDepositSkipped, MemoryCovered, AllStored, tables
<1>8. CASE Idle \/ Refresh \/ RefreshFail
  <2>1. /\ pc \in {"outer", "wait"} /\ pc' \in {"outer", "wait"}
        /\ UNCHANGED <<currentBlock, currentTxIndex, index>>
    BY <1>8 DEF Idle, Refresh, RefreshFail, tables, locals
  <2> QED
    BY <1>1, <1>2, <1>4, <2>1 DEF MemoryCovered, AllStored
<1>9. CASE EnterLoop
  <2>1. \A p \in Safe :
          p[1] < i' \/ (p[1] = i' /\ p[2] < currentTxIndex')
            => Covers(currentBlock, currentTxIndex, p)
    <3>1. CASE currentTxIndex = 0
      BY <1>3, <1>9, <3>1 DEF EnterLoop, NextPosition, Covers, TypeOK
    <3>2. CASE currentTxIndex # 0
      BY <1>3, <1>9, <3>2 DEF EnterLoop, NextPosition, Covers, TypeOK
    <3> QED
      BY <3>1, <3>2
  <2>2. pc = "outer" /\ pc' = "parse" /\ index' = index
    BY <1>9 DEF EnterLoop, tables
  <2> QED
    BY <1>1, <1>2, <1>4, <2>1, <2>2 DEF MemoryCovered, AllStored
<1>10. CASE ParseBlock
  <2>1. \A p \in Safe : p[1] = i /\ p[2] \notin todo' => p[2] < currentTxIndex
    BY <1>3, <1>10 DEF ParseBlock, Safe, Owed, ToSave, TypeOK
  <2>2. /\ pc = "parse" /\ pc' \in {"handle", "save"} /\ i' = i
        /\ index' = index /\ (pc' = "save" => todo' = {})
    BY <1>10 DEF ParseBlock, HandleOrSave, tables
  <2> QED
    BY <1>1, <1>2, <1>3, <1>4, <2>1, <2>2 DEF MemoryCovered, AllStored, TypeOK
<1>11. CASE ParseFail
  <2>1. \A p \in Safe : Covers(currentBlock', currentTxIndex', p)
          => p[1] < i \/ (p[1] = i /\ p[2] < currentTxIndex)
    BY <1>11, RollBackCovers DEF ParseFail, Control, TypeOK
  <2>2. pc = "parse" /\ pc' = "outer" /\ index' = index
    BY <1>11 DEF ParseFail, RollBackTo, tables
  <2> QED
    BY <1>1, <1>2, <1>4, <2>1, <2>2 DEF MemoryCovered, AllStored
<1>12. ASSUME NEW k \in TxIndexes, SkipSelfPaid(k)
       PROVE  Coverage'
  <2>1. \A p \in Safe : p # <<i, k>>
    BY <1>12 DEF SkipSelfPaid, Safe, Owed, ToSave
  <2>2. /\ pc = "handle" /\ pc' \in {"handle", "save"} /\ i' = i
        /\ index' = index /\ todo' = todo \ {k} /\ (pc' = "save" => todo' = {})
    BY <1>12 DEF SkipSelfPaid, HandleOrSave, tables
  <2> QED
    BY <1>1, <1>2, <1>3, <1>4, <2>1, <2>2 DEF MemoryCovered, AllStored, TypeOK
<1>13. ASSUME NEW k \in TxIndexes, Lookup(k)
       PROVE  Coverage'
  <2>1. /\ pc = "handle" /\ pc' = "write" /\ i' = i /\ todo' = todo
        /\ index' = index
    BY <1>13 DEF Lookup, tables
  <2> QED
    BY <1>1, <1>2, <1>4, <2>1 DEF MemoryCovered, AllStored
<1>14. ASSUME NEW k \in TxIndexes, Head(k), pc = "write", StoreDeposit(k)
       PROVE  NoDepositSkipped'
  <2>1. k \in Nat /\ <<i, k>> \in ToSave
    BY <1>14, HeadPosition DEF Control, Head
  <2>2. \A p \in Safe : p[1] = i => k # 0
    BY <2>1 DEF Safe, Exposed
  <2>3. \A p \in Safe : Covers(i, k, p) =>
          p[1] < i \/ (p[1] = i /\ p[2] \notin todo \ {k})
    BY <1>3, <1>14, <2>1, <2>2 DEF Covers, Head, TypeOK
  <2>4. \A p \in Safe : Covers(i, k, p) => row'[p] = "indexed"
    BY <1>14, <2>3, CommitCovers
  <2> QED
    BY <1>1, <1>14, <2>4 DEF NoDepositSkipped, StoreDeposit
<1>15. ASSUME NEW k \in TxIndexes, Commit(k)
       PROVE  Coverage'
  <2>1. NoDepositSkipped'
    BY <1>14, <1>15 DEF Commit
  <2>2. \A p \in Safe : p[1] < i \/ (p[1] = i /\ p[2] \notin todo \ {k})
             => row'[p] = "indexed"
    BY <1>15, CommitCovers DEF Commit
  <2>3. /\ pc' \in {"handle", "save"} /\ i' = i
        /\ todo' = todo \ {k} /\ (pc' = "save" => todo' = {})
    BY <1>15 DEF Commit, HandleOrSave
  <2> QED
    BY <1>1, <1>3, <2>1, <2>2, <2>3 DEF MemoryCovered, AllStored, TypeOK
<1>16. ASSUME NEW k \in TxIndexes, CommitFail(k)
       PROVE  Coverage'
  <2>1. NoDepositSkipped'
    BY <1>4, <1>14, <1>16 DEF CommitFail, tables
  <2>2. /\ k \in Nat /\ <<i, k>> \in ToSave /\ \A j \in todo : k <= j
        /\ pc \in {"handle", "write"} /\ pc' = "outer"
    BY <1>16, HeadPosition DEF CommitFail, Control, Head, RollBackTo
  <2>3. \A p \in Safe : Covers(currentBlock', currentTxIndex', p)
          => p[1] < i \/ (p[1] = i /\ p[2] < k)
    BY <1>16, <2>2, RollBackCovers DEF CommitFail, Safe, Exposed
  <2>4. \A p \in Safe : p[1] = i /\ p[2] < k => p[2] \notin todo
    BY <1>3, <2>2 DEF TypeOK
  <2> QED
    BY <1>1, <1>2, <2>1, <2>2, <2>3, <2>4 DEF MemoryCovered, AllStored
<1>17. ASSUME NEW k \in TxIndexes, Duplicate(k)
       PROVE  Coverage'
  <2>1. <<i, k>> \in CallbackTxs
    <3>1. <<i, k>> \in ToSave /\ k \in todo
      BY <1>17, HeadPosition DEF Duplicate, Control, Head
    <3>2. row[<<i, k>>] = "callback"
      BY <1>17, <3>1 DEF Duplicate, Rows, TypeOK, RowStates
    <3> QED
      BY <3>1, <3>2 DEF Rows
  <2>2. \A p \in Safe : p[1] # i
    BY <2>1 DEF Safe, Exposed
  <2>3. pc = "write" /\ pc' = "save" /\ i' = i /\ index' = index
    BY <1>17 DEF Duplicate, tables
  <2> QED
    BY <1>1, <1>2, <1>3, <1>4, <2>2, <2>3 DEF MemoryCovered, AllStored, TypeOK
<1>18. \A p \in Safe : Covers(i, 0, p) => p[1] <= i
  BY <1>3 DEF Covers, TypeOK
<1>19. CASE SaveBlock
  <2>1. pc = "save" /\ index' = [block |-> i, tx |-> 0]
    BY <1>19 DEF SaveBlock
  <2>2. NoDepositSkipped'
    BY <1>1, <1>2, <1>18, <2>1 DEF NoDepositSkipped, MemoryCovered, AllStored
  <2>3. CASE i' = i + 1 /\ pc' = "parse" /\ currentTxIndex' = 0
    <3>1. \A p \in Safe : p[1] < i' \/ (p[1] = i' /\ p[2] < currentTxIndex')
            => p[1] <= i
      BY <1>3, <2>3 DEF TypeOK
    <3> QED
      BY <1>1, <1>2, <2>1, <2>2, <2>3, <3>1 DEF MemoryCovered, AllStored
  <2>4. CASE pc' = "outer" /\ currentBlock' = i /\ currentTxIndex' = 0
    BY <1>1, <1>2, <1>18, <2>1, <2>2, <2>4 DEF MemoryCovered, AllStored
  <2> QED
    BY <1>19, <2>3, <2>4 DEF SaveBlock
<1>20. CASE SaveBlockFail
  <2>1. pc = "save" /\ pc' = "outer" /\ currentBlock' = i - 1
        /\ currentTxIndex' = 0
    BY <1>20 DEF SaveBlockFail
  <2>2. NoDepositSkipped'
    BY <1>1, <1>2, <1>4, <1>18, <1>20, <2>1
       DEF SaveBlockFail, NoDepositSkipped, MemoryCovered, AllStored
  <2>3. \A p \in Safe : Covers(i - 1, 0, p) => p[1] <= i
    BY <1>3 DEF Covers, TypeOK
  <2> QED
    BY <1>1, <1>2, <2>1, <2>2, <2>3 DEF MemoryCovered, AllStored
<1>21. CASE NewBlock \/ UNCHANGED vars
  BY <1>5, <1>21 DEF NewBlock, vars, tables, locals
<1>22. ASSUME NEW p \in CallbackTxs, CallbackInsert(p)
       PROVE  Coverage'
  BY <1>5, <1>22 DEF CallbackInsert, locals
<1>23. CASE Crash \/ ReadLatest \/ StartFail
  BY <1>6, <1>23 DEF Crash, ReadLatest, StartFail, CreateRow, tables
<1>24. ~Create
  BY DEF Create, CreateRow
<1> QED
  BY <1>7, <1>8, <1>9, <1>10, <1>11, <1>12, <1>13, <1>15, <1>16, <1>17, <1>19,
     <1>20, <1>21, <1>22, <1>23, <1>24 DEF Next

-----------------------------------------------------------------------------
LEMMA BehindStep ==
    ASSUME IInv, [Next]_vars
    PROVE  CursorBehind'
<1> USE DEF IInv, CursorBehind, InLoop, TypeOK, tables, locals
<1>1. CASE pc' \in {"down", "load"}
  BY <1>1
<1>2. CASE NewBlock \/ (\E p \in CallbackTxs : CallbackInsert(p))
           \/ Idle \/ Refresh \/ RefreshFail \/ UNCHANGED vars
  BY <1>2 DEF NewBlock, CallbackInsert, Idle, Refresh, RefreshFail, vars
<1>3. CASE Crash \/ ReadLatest \/ StartFail
  BY <1>1, <1>3 DEF Crash, ReadLatest, StartFail
<1>4. CASE Load
  BY <1>4 DEF Load, NextPosition
<1>5. CASE Create
  BY <1>5 DEF Create, CreateRow, NextPosition
<1>6. CASE EnterLoop
  BY <1>6 DEF EnterLoop
<1>7. ASSUME NEW k \in Nat, RollBackTo(k), i >= 1,
             index'.block \in Nat, index'.block <= i
      PROVE  CursorBehind'
  <2>1. CASE k = 0
    BY <1>7, <2>1 DEF RollBackTo, NextPosition
  <2>2. CASE k = 1
    BY <1>7, <2>2 DEF RollBackTo, NextPosition
  <2>3. CASE k > 1
    BY <1>7, <2>3 DEF RollBackTo, NextPosition
  <2> QED
    BY <2>1, <2>2, <2>3
<1>8. CASE ParseBlock
  BY <1>8 DEF ParseBlock, HandleOrSave
<1>9. CASE ParseFail
  BY <1>7, <1>9 DEF ParseFail, Control
<1>10. ASSUME NEW k \in TxIndexes,
              SkipSelfPaid(k) \/ Lookup(k) \/ Commit(k) \/ Duplicate(k)
       PROVE  CursorBehind'
  BY <1>10 DEF SkipSelfPaid, Lookup, Commit, Duplicate, StoreDeposit,
               HandleOrSave
<1>11. ASSUME NEW k \in TxIndexes, CommitFail(k)
       PROVE  CursorBehind'
  <2>1. k \in Nat /\ i >= 1 /\ index'.block \in Nat /\ index'.block <= i
    BY <1>11 DEF CommitFail, StoreDeposit, Head, Control
  <2> QED
    BY <1>7, <1>11, <2>1 DEF CommitFail
<1>12. CASE SaveBlock
  BY <1>12 DEF SaveBlock, NextPosition
<1>13. CASE SaveBlockFail
  BY <1>13 DEF SaveBlockFail, NextPosition, Control
<1> QED
  BY <1>2, <1>3, <1>4, <1>5, <1>6, <1>8, <1>9, <1>10, <1>11, <1>12, <1>13
     DEF Next

LEMMA IInvInit == Init => IInv
<1> SUFFICES ASSUME Init PROVE IInv
  OBVIOUS
<1>1. TypeOK /\ Control
  BY TypeInit
<1>2. Rows
  BY DEF Init, Rows
<1> QED
  BY <1>1, <1>2 DEF Init, IInv, NoDepositSkipped, MemoryCovered, CursorBehind,
                    InLoop

LEMMA IInvStep == IInv /\ [Next]_vars => IInv'
<1> SUFFICES ASSUME IInv, [Next]_vars PROVE IInv'
  OBVIOUS
<1>1. (TypeOK /\ Control /\ Rows)'
  BY TypeStep, RowsStep DEF IInv
<1>2. Coverage'
  BY CoverageStart, CoverageStep
<1>3. CursorBehind'
  BY BehindStep
<1> QED
  BY <1>1, <1>2, <1>3 DEF IInv, Coverage

LEMMA IInvAlways == Spec => []IInv
BY IInvInit, IInvStep, PTL DEF Spec

-----------------------------------------------------------------------------
\* The stored cursor never passes a deposit that is not stored, in the blocks
\* the roll back arithmetic and the duplicate key branch do not expose.
THEOREM CursorSafe == Spec => []NoDepositSkipped
<1>1. IInv => NoDepositSkipped
  BY DEF IInv
<1> QED
  BY <1>1, IInvAlways, PTL

\* A cursor that is stored changes to one in block i or not at all.
LEMMA IndexMoves ==
    ASSUME hasIndex, [Next]_vars
    PROVE  index' = index \/ (InLoop /\ index'.block = i)
<1> USE DEF tables, InLoop
<1>1. ASSUME NEW k \in TxIndexes, Commit(k)
      PROVE  InLoop /\ index'.block = i
  BY <1>1 DEF Commit, StoreDeposit
<1>2. ASSUME NEW k \in TxIndexes, CommitFail(k)
      PROVE  index' = index \/ (InLoop /\ index'.block = i)
  <2>1. CASE UNCHANGED tables
    BY <2>1
  <2>2. CASE pc = "write" /\ StoreDeposit(k)
    BY <2>2 DEF StoreDeposit
  <2> QED
    BY <1>2, <2>1, <2>2 DEF CommitFail
<1>3. CASE SaveBlock
  BY <1>3 DEF SaveBlock
<1>4. CASE SaveBlockFail
  BY <1>4 DEF SaveBlockFail
<1>5. CASE StartFail \/ Create
  BY <1>5 DEF StartFail, Create, CreateRow
<1> QED
  BY <1>1, <1>2, <1>3, <1>4, <1>5 DEF Next, vars, NewBlock, CallbackInsert,
     Crash, ReadLatest, Load, Idle, Refresh, RefreshFail, EnterLoop,
     ParseBlock, ParseFail, SkipSelfPaid, Lookup, Duplicate

\* The block of the stored cursor never decreases.
THEOREM CursorMonotone == Spec => IndexBlockNeverDecreases
<1>1. ASSUME IInv, [Next]_vars
      PROVE  [hasIndex => hasIndex' /\ index'.block >= index.block]_vars
  <2> SUFFICES ASSUME hasIndex
               PROVE  hasIndex' /\ index'.block >= index.block
    OBVIOUS
  <2>1. hasIndex' /\ (index' = index \/ (InLoop /\ index'.block = i))
    BY <1>1, OriginStays, IndexMoves
  <2>2. index.block \in Nat /\ i \in Nat /\ (InLoop => index.block <= i)
    BY <1>1 DEF IInv, CursorBehind, TypeOK
  <2> QED
    BY <2>1, <2>2
<1> QED
  BY <1>1, IInvAlways, PTL DEF Spec, IndexBlockNeverDecreases
=============================================================================
