------------------------- MODULE IndexerRefinesLog -------------------------
(***************************************************************************)
(* Proof that IndexerService implements DepositLog: every step appends the *)
(* next missing deposit to the log, begins it, or leaves it as it is.      *)
(***************************************************************************)
EXTENDS IndexerServiceProofs

Stored == {p \in Safe : row[p] = "indexed"}

\* Without a cursor nothing is stored.
NothingBefore == ~hasIndex => \A p \in ToSave : row[p] # "indexed"

LEMMA NothingStep ==
    ASSUME TypeOK, Control, NothingBefore, [Next]_vars
    PROVE  NothingBefore'
<1> USE DEF NothingBefore, tables
<1>1. CASE hasIndex
  BY <1>1, OriginStays
<1>2. ASSUME NEW p \in CallbackTxs, CallbackInsert(p)
      PROVE  NothingBefore'
  BY <1>2 DEF CallbackInsert, TypeOK
<1>3. CASE ~hasIndex /\ row' = row
  BY <1>3 DEF CreateRow
<1>4. ~hasIndex => pc \in {"down", "load"}
  BY DEF Control
<1> QED
  BY <1>1, <1>2, <1>3, <1>4 DEF Next, vars, NewBlock, Crash, ReadLatest,
     Load, Create, StartFail, CreateRow, Idle, Refresh, RefreshFail, EnterLoop,
     ParseBlock, ParseFail, SkipSelfPaid, Lookup, Commit, CommitFail,
     Duplicate, SaveBlock, SaveBlockFail

LEMMA NothingAlways == Spec => [](IInv /\ NothingBefore)
<1>1. Init => NothingBefore
  BY DEF Init, NothingBefore
<1>2. IInv /\ NothingBefore /\ [Next]_vars => NothingBefore'
  BY NothingStep DEF IInv
<1> QED
  BY <1>1, <1>2, IInvInit, IInvStep, PTL DEF Spec

-----------------------------------------------------------------------------
\* The deposit StoreDeposit writes is the next one of the log, if it belongs
\* to the log and is not stored already.
LEMMA StoreAppends ==
    ASSUME IInv, hasIndex, hasIndex', origin' = origin, NEW k, Head(k),
           pc = "write", StoreDeposit(k), NEW d, d = <<i, k>>
    PROVE  Stored' = Stored \/ Log!Append(d)
<1>1. d \in ToSave /\ k \in Nat /\ Safe' = Safe
  BY HeadPosition DEF IInv, Control, Head, Safe, Owed
<1>2. d[1] = i /\ d[2] = k
  OBVIOUS
<1>3. \A p \in ToSave : p # d => row'[p] = row[p]
  BY <1>1 DEF StoreDeposit, IInv, TypeOK
<1>4. row'[d] = "indexed"
  BY <1>1 DEF StoreDeposit, IInv, TypeOK, Rows, Head
<1>5. CASE d \notin Safe \/ row[d] = "indexed"
  BY <1>1, <1>3, <1>4, <1>5 DEF Stored, Safe, Owed
<1>6. CASE d \in Safe /\ row[d] # "indexed"
  <2>1. Stored' = Stored \union {d}
    BY <1>1, <1>3, <1>4, <1>6 DEF Stored, Safe, Owed
  <2>2. d \in Log!Missing
    BY <1>6 DEF Log!Missing, Safe, Owed
  <2>3. ASSUME NEW q \in Log!Missing
        PROVE  ~Log!Before(q, d)
    <3>1. q \in Safe /\ row[q] # "indexed" /\ q[1] \in Nat /\ q[2] \in Nat
      BY <2>3, Positions DEF Log!Missing, Safe, Owed
    <3>2. ~(q[1] < i \/ (q[1] = i /\ q[2] \notin todo))
      BY <3>1 DEF IInv, MemoryCovered, AllStored
    <3>3. q[2] \in todo => k <= q[2]
      BY DEF Head
    <3> QED
      BY <1>1, <1>2, <3>1, <3>2, <3>3 DEF Log!Before
  <2> QED
    BY <2>1, <2>2, <2>3 DEF Log!Append, Stored
<1> QED
  BY <1>5, <1>6

\* Every step of the indexer is a step of the log or leaves it as it is.
LEMMA LogStep ==
    ASSUME IInv, NothingBefore, [Next]_vars
    PROVE  Log!Next \/ UNCHANGED Log!log
<1> USE DEF tables
<1>1. CASE hasIndex
  <2>1. hasIndex' /\ origin' = origin /\ Safe' = Safe
    BY <1>1, OriginStays DEF Safe, Owed
  <2>2. CASE Stored' = Stored
    BY <1>1, <2>1, <2>2 DEF Log!log, Stored
  <2>3. ASSUME NEW k \in TxIndexes, Head(k), pc = "write", StoreDeposit(k)
        PROVE  Log!Next \/ UNCHANGED Log!log
    <3>1. PICK d : d = <<i, k>>
      OBVIOUS
    <3>2. CASE Log!Append(d)
      <4>1. d \in {p \in ToSave : ~Exposed(p[1])}
        BY <3>2 DEF Log!Append, Log!Missing
      <4> QED
        BY <3>2, <4>1 DEF Log!Next
    <3> QED
      BY <1>1, <2>1, <2>2, <2>3, <3>1, <3>2, StoreAppends
  <2>4. ASSUME NEW p \in CallbackTxs, CallbackInsert(p)
        PROVE  Stored' = Stored
    <3>1. \A q \in ToSave : row'[q] = "indexed" <=> row[q] = "indexed"
      BY <2>4 DEF CallbackInsert, IInv, TypeOK
    <3> QED
      BY <2>1, <3>1 DEF Stored, Safe, Owed
  <2>5. CASE row' = row
    BY <2>1, <2>2, <2>5 DEF Stored
  <2> QED
    BY <2>2, <2>3, <2>4, <2>5 DEF Next, vars, NewBlock, Crash, ReadLatest,
       Load, Create, StartFail, CreateRow, Idle, Refresh, RefreshFail,
       EnterLoop, ParseBlock, ParseFail, SkipSelfPaid, Lookup, Commit,
       CommitFail, Duplicate, SaveBlock, SaveBlockFail
<1>2. CASE ~hasIndex
  <2>1. NothingBefore'
    BY NothingStep DEF IInv
  <2>2. Stored = {}
    BY <1>2 DEF NothingBefore, Stored, Safe, Owed
  <2>3. CASE CreateRow
    <3>1. Stored' = {}
      BY <1>2, <2>3 DEF CreateRow, NothingBefore, Stored, Safe, Owed
    <3>2. origin' \in Nat
      BY <2>3 DEF CreateRow, IInv, TypeOK
    <3>3. Log!Begin
      BY <1>2, <2>2, <2>3, <3>1, <3>2 DEF CreateRow, Log!Begin, Stored
    <3> QED
      BY <3>3 DEF Log!Next
  <2>4. CASE UNCHANGED <<hasIndex, origin>>
    <3>1. Stored' = {}
      BY <1>2, <2>1, <2>4 DEF NothingBefore, Stored, Safe, Owed
    <3>2. Stored' = Stored /\ hasIndex' = hasIndex
      BY <2>2, <2>4, <3>1
    <3>3. UNCHANGED Log!log
      BY <2>4, <3>2 DEF Log!log, Stored
    <3> QED
      BY <3>3
  <2>5. pc \in {"down", "load"}
    BY <1>2 DEF IInv, Control
  <2> QED
    BY <1>2, <2>3, <2>4, <2>5 DEF Next, vars, NewBlock, CallbackInsert, Crash,
       ReadLatest, Load, Create, StartFail, Idle, Refresh, RefreshFail,
       EnterLoop, ParseBlock, ParseFail, SkipSelfPaid, Lookup, Commit,
       CommitFail, Duplicate, SaveBlock, SaveBlockFail
<1> QED
  BY <1>1, <1>2

\* The indexer stores the deposits of ordinary blocks one by one and in the
\* order of the chain, leaves none out and takes none back.
THEOREM IndexerImplementsLog == Spec => StoredInOrder
<1>1. Init => Log!Init
  BY DEF Init, Log!Init, Safe, Owed
<1>2. IInv /\ NothingBefore /\ [Next]_vars => [Log!Next]_(Log!log)
  <2> SUFFICES ASSUME IInv, NothingBefore, [Next]_vars
               PROVE  Log!Next \/ UNCHANGED Log!log
    OBVIOUS
  <2> QED
    BY LogStep
<1> QED
  BY <1>1, <1>2, NothingAlways, PTL DEF Spec, StoredInOrder, Log!Spec
=============================================================================
