------------------------ MODULE RollupIndexerProofs ------------------------
(***************************************************************************)
(* Proofs about RollupIndexer, for every set of events, every set of       *)
(* faults and any number of crashes.                                       *)
(***************************************************************************)
EXTENDS RollupIndexer, TLAPS

InBlockLoop == pc \in {"filter", "handle", "save"}

Control ==
    /\ ~hasIndex => pc \in {"sleep", "create"}
    /\ pc = "create" => ~hasIndex

\* Which events are accounted for at each control state.  The position in
\* memory is ahead of the stored one after a failed Save.
AccountedTo(block) == \A e \in Owed : e[1] <= block => Accounted(e)

MemoryAccounted ==
    /\ pc = "latest" \/ InBlockLoop => AccountedTo(current.block)
    /\ InBlockLoop => \A e \in Owed : e[1] < i => Accounted(e)
    /\ pc \in {"handle", "save"} =>
         \A e \in Owed : e[1] = i => Accounted(e) \/ (pc = "handle" /\ e \in todo)

\* The stored position is not above the block being read.
PositionBehind ==
    /\ pc = "latest" => index.block <= current.block
    /\ InBlockLoop => index.block <= i

IInv ==
    /\ TypeOK
    /\ Control
    /\ NoEventPassed
    /\ MemoryAccounted
    /\ PositionBehind

-----------------------------------------------------------------------------
LEMMA EventParts ==
    \A e \in Events : e[1] \in Nat /\ e[2] \in Nat /\ e[3] \in Nat
BY EventAssumption

LEMMA TypeInit == Init => TypeOK /\ Control
<1> SUFFICES ASSUME Init PROVE TypeOK /\ Control
  OBVIOUS
<1>1. tip \in Nat
  BY EventAssumption DEF Init
<1> QED
  BY <1>1 DEF Init, TypeOK, Control, Position, Start

LEMMA TypeStep ==
    ASSUME TypeOK, Control, [Next]_vars
    PROVE  TypeOK' /\ Control'
<1> USE DEF TypeOK, Control, Position, locals, history
<1>1. CASE NewBlock \/ Crash \/ UNCHANGED vars
  BY <1>1 DEF NewBlock, Crash, vars
<1>2. CASE Load \/ NotFound
  BY <1>2 DEF Load, NotFound
<1>3. CASE Create \/ CreateFail
  <2>1. CreateRow => hasIndex' /\ index' \in Position /\ first' \in Nat
    BY DEF CreateRow, Start
  <2>2. CASE Create
    BY <2>1, <2>2 DEF Create, CreateRow, Start
  <2>3. CASE CreateFail
    <3>1. index' \in Position /\ first' \in Nat /\ hasIndex' \in BOOLEAN
      BY <2>1, <2>3 DEF CreateFail, CreateRow
    <3> QED
      BY <2>3, <3>1 DEF CreateFail
  <2> QED
    BY <1>3, <2>2, <2>3
<1>4. CASE ReadLatest \/ ReadLatestFail
  BY <1>4 DEF ReadLatest, ReadLatestFail
<1>5. CASE Filter
  <2>1. todo' \subseteq Events
    BY <1>5 DEF Filter, InBlock
  <2>2. pc' \in {"handle", "save"}
    BY <1>5 DEF Filter, HandleOrSave
  <2> QED
    BY <1>5, <2>1, <2>2 DEF Filter
<1>6. CASE FilterFail
  <2>1. failed' \subseteq Events
    BY <1>6 DEF FilterFail, InBlock
  <2>2. i' \in Nat /\ pc' \in {"filter", "sleep"}
    BY <1>6 DEF FilterFail, NextBlock
  <2> QED
    BY <1>6, <2>1, <2>2 DEF FilterFail
<1>7. ASSUME NEW e \in Events, Skip(e) \/ HandleAgain(e)
      PROVE  TypeOK' /\ Control'
  BY <1>7 DEF Skip, HandleAgain, Done, HandleOrSave
<1>8. ASSUME NEW e \in Events, Handle(e)
      PROVE  TypeOK' /\ Control'
  BY <1>8, EventParts DEF Handle, Done, HandleOrSave
<1>9. ASSUME NEW e \in Events, HandleFail(e)
      PROVE  TypeOK' /\ Control'
  BY <1>9 DEF HandleFail, Done, HandleOrSave
<1>10. CASE Save \/ SaveFail
  <2>1. current' \in Position /\ index' \in Position
    BY <1>10 DEF Save, SaveFail
  <2> QED
    BY <1>10, <2>1 DEF Save, SaveFail, NextBlock
<1> QED
  BY <1>1, <1>2, <1>3, <1>4, <1>5, <1>6, <1>7, <1>8, <1>9, <1>10 DEF Next

\* The variables keep their types in every run of the rollup indexer.
THEOREM TypeCorrect == Spec => []TypeOK
<1>1. TypeOK /\ Control /\ [Next]_vars => (TypeOK /\ Control)'
  BY TypeStep
<1> QED
  BY <1>1, TypeInit, PTL DEF Spec

-----------------------------------------------------------------------------
\* No step takes a row away or forgets a failure, and once there is a position
\* it stays, and with it the events owed.
LEMMA NothingForgotten ==
    ASSUME [Next]_vars
    PROVE  stored \subseteq stored' /\ failed \subseteq failed'
<1> USE DEF history
<1>1. ASSUME NEW e \in Events,
             Skip(e) \/ Handle(e) \/ HandleAgain(e) \/ HandleFail(e)
      PROVE  stored \subseteq stored' /\ failed \subseteq failed'
  BY <1>1 DEF Skip, Handle, HandleAgain, HandleFail
<1> QED
  BY <1>1 DEF Next, vars, NewBlock, Crash, Load, NotFound, Create, CreateFail,
     ReadLatest, ReadLatestFail, Filter, FilterFail, Save, SaveFail

LEMMA AccountedStays ==
    ASSUME [Next]_vars
    PROVE  \A e : Accounted(e) => Accounted(e)'
BY NothingForgotten DEF Accounted, TxStored

LEMMA FirstStays ==
    ASSUME Control, hasIndex, [Next]_vars
    PROVE  hasIndex' /\ first' = first /\ Owed' = Owed
<1> USE DEF history
<1>1. ASSUME NEW e \in Events,
             Skip(e) \/ Handle(e) \/ HandleAgain(e) \/ HandleFail(e)
      PROVE  hasIndex' = hasIndex /\ first' = first
  BY <1>1 DEF Skip, Handle, HandleAgain, HandleFail
<1>2. ~Create /\ ~CreateFail
  BY DEF Create, CreateFail, Control
<1> QED
  BY <1>1, <1>2
     DEF Next, vars, NewBlock, Crash, Load, NotFound, Create, CreateFail,
         CreateRow, ReadLatest, ReadLatestFail, Filter, FilterFail, Save,
         SaveFail, Owed

-----------------------------------------------------------------------------
\* Once there is a position, every step keeps the account of the events.
LEMMA AccountedStep ==
    ASSUME IInv, [Next]_vars, hasIndex
    PROVE  NoEventPassed' /\ MemoryAccounted' /\ PositionBehind'
<1> USE DEF IInv, NoEventPassed, MemoryAccounted, AccountedTo, PositionBehind,
            InBlockLoop
<1>1. hasIndex' /\ Owed' = Owed
  BY FirstStays
<1>2. \A e : Accounted(e) => Accounted(e)'
  BY AccountedStays
<1>3. \A e \in Owed : e \in Events /\ e[1] \in Nat /\ e[2] \in Nat /\ e[3] \in Nat
  BY EventParts, EventAssumption DEF Owed
<1>4. CASE NewBlock \/ UNCHANGED vars
  BY <1>1, <1>2, <1>4 DEF NewBlock, vars, locals
<1>5. CASE index' = index /\ pc' = "sleep"
  BY <1>1, <1>2, <1>5
<1>6. CASE Crash \/ ReadLatestFail
  BY <1>5, <1>6 DEF Crash, ReadLatestFail
<1>7. CASE Load
  BY <1>1, <1>2, <1>7 DEF Load, TypeOK, Position
<1>8. CASE ReadLatest
  <2>1. CASE pc' = "sleep"
    BY <1>5, <1>8, <2>1 DEF ReadLatest
  <2>2. CASE pc' = "filter" /\ i' = current.block
    <3>1. \A e \in Owed : e[1] < current.block => e[1] <= current.block
      BY <1>3 DEF TypeOK, Position
    <3> QED
      BY <1>1, <1>2, <1>8, <2>2, <3>1 DEF ReadLatest
  <2> QED
    BY <1>8, <2>1, <2>2 DEF ReadLatest
<1>9. CASE Filter
  <2>1. \A e \in Owed : e[1] = i => e \in todo'
    BY <1>3, <1>9 DEF Filter, InBlock
  <2>2. /\ pc = "filter" /\ pc' \in {"handle", "save"}
        /\ (pc' = "save" => todo' = {})
        /\ UNCHANGED <<index, current, i>>
    BY <1>9 DEF Filter, HandleOrSave
  <2> QED
    BY <1>1, <1>2, <2>1, <2>2
\* The end of block i, once every event of it is accounted for.
<1>10. ASSUME \A e \in Owed : e[1] <= i => Accounted(e)',
              NextBlock, index'.block <= i, index'.block \in Nat,
              NoEventPassed',
              current' = current \/ current'.block = i,
              pc \in {"filter", "save"}
       PROVE  NoEventPassed' /\ MemoryAccounted' /\ PositionBehind'
  <2>1. CASE pc' = "sleep"
    BY <1>10, <2>1
  <2>2. CASE pc' = "filter" /\ i' = i + 1
    <3>1. \A e \in Owed : e[1] < i + 1 => e[1] <= i
      BY <1>3 DEF TypeOK
    <3>2. \A e \in Owed : e[1] <= current'.block => Accounted(e)'
      BY <1>2, <1>10
    <3>3. index'.block <= i + 1
      BY <1>10 DEF TypeOK
    <3> QED
      BY <1>1, <1>10, <2>2, <3>1, <3>2, <3>3
  <2> QED
    BY <1>10, <2>1, <2>2 DEF NextBlock
<1>11. CASE FilterFail
  <2>1. \A e \in Owed : e[1] = i => Accounted(e)'
    BY <1>3, <1>11 DEF FilterFail, InBlock, Accounted
  <2>2. \A e \in Owed : e[1] <= i => e[1] < i \/ e[1] = i
    BY <1>3 DEF TypeOK
  <2>3. \A e \in Owed : e[1] <= i => Accounted(e)'
    BY <1>2, <1>11, <2>1, <2>2 DEF FilterFail
  <2>4. NoEventPassed' /\ index'.block <= i /\ index'.block \in Nat
    BY <1>1, <1>2, <1>11 DEF FilterFail, TypeOK, Position
  <2> QED
    BY <1>10, <1>11, <2>3, <2>4 DEF FilterFail
\* One event.
<1>12. ASSUME NEW e \in Events, pc = "handle", Done(e),
              UNCHANGED <<index, i>>, current'.block = current.block,
              e \in Owed /\ e[1] = i => Accounted(e)'
       PROVE  NoEventPassed' /\ MemoryAccounted' /\ PositionBehind'
  <2>1. /\ pc' \in {"handle", "save"} /\ todo' = todo \ {e}
        /\ (pc' = "save" => todo' = {})
    BY <1>12 DEF Done, HandleOrSave
  <2>2. \A f \in Owed : f[1] = i => Accounted(f)' \/ f \in todo'
    BY <1>2, <1>12, <2>1
  <2>3. NoEventPassed' /\ PositionBehind'
    BY <1>1, <1>2, <1>12, <2>1
  <2> QED
    BY <1>1, <1>2, <1>12, <2>1, <2>2, <2>3
<1>13. ASSUME NEW e \in Events, Skip(e)
       PROVE  NoEventPassed' /\ MemoryAccounted' /\ PositionBehind'
  <2>1. e \in Owed => Accounted(e)'
    BY <1>2, <1>3, <1>13 DEF Skip, AtCursor
  <2> QED
    BY <1>12, <1>13, <2>1 DEF Skip
<1>14. ASSUME NEW e \in Events, Handle(e)
       PROVE  NoEventPassed' /\ MemoryAccounted' /\ PositionBehind'
  <2>1. e \in Owed => Accounted(e)'
    BY <1>14 DEF Handle, Owed, Accounted, TxStored
  <2>2. current'.block = current.block
    BY <1>14 DEF Handle, TypeOK, Position
  <2> QED
    BY <1>12, <1>14, <2>1, <2>2 DEF Handle
<1>15. ASSUME NEW e \in Events, HandleAgain(e)
       PROVE  NoEventPassed' /\ MemoryAccounted' /\ PositionBehind'
  BY <1>2, <1>12, <1>15 DEF HandleAgain, Accounted
<1>16. ASSUME NEW e \in Events, HandleFail(e)
       PROVE  NoEventPassed' /\ MemoryAccounted' /\ PositionBehind'
  <2>1. Accounted(e)'
    BY <1>16 DEF HandleFail, Accounted
  <2> QED
    BY <1>12, <1>16, <2>1 DEF HandleFail
<1>17. CASE Save \/ SaveFail
  <2>1. pc = "save" /\ NextBlock /\ current'.block = i
        /\ index' \in {index, current'}
    BY <1>17 DEF Save, SaveFail, TypeOK, Position
  <2>2. \A e \in Owed : e[1] <= i => e[1] < i \/ e[1] = i
    BY <1>3 DEF TypeOK
  <2>3. \A e \in Owed : e[1] <= i => Accounted(e)'
    BY <1>2, <2>1, <2>2
  <2>4. index'.block <= i /\ index'.block \in Nat
    BY <2>1 DEF TypeOK, Position
  <2>5. NoEventPassed'
    BY <1>1, <1>2, <2>1, <2>3
  <2> QED
    BY <1>10, <2>1, <2>3, <2>4, <2>5
<1>18. ~NotFound /\ ~Create /\ ~CreateFail
  BY DEF NotFound, Create, CreateFail, Control
<1> QED
  BY <1>4, <1>6, <1>7, <1>8, <1>9, <1>11, <1>13, <1>14, <1>15, <1>16, <1>17,
     <1>18 DEF Next

\* The step that creates the position owes nothing yet.
LEMMA AccountedStart ==
    ASSUME IInv, [Next]_vars, ~hasIndex
    PROVE  NoEventPassed' /\ MemoryAccounted' /\ PositionBehind'
<1> USE DEF NoEventPassed, MemoryAccounted, AccountedTo, PositionBehind,
            InBlockLoop
<1>1. pc \in {"sleep", "create"}
  BY DEF IInv, Control
<1>2. CASE ~hasIndex' /\ pc' \in {"sleep", "create"}
  BY <1>2
<1>3. CASE CreateRow /\ (pc' = "sleep" \/ (pc' = "latest" /\ current' = index'))
  <2>1. index'.block = latest /\ first' = latest /\ latest \in Nat
    BY <1>3 DEF CreateRow, Start, IInv, TypeOK
  <2>2. \A e \in Owed' : ~(e[1] <= latest)
    BY <2>1, EventParts, EventAssumption DEF Owed
  <2> QED
    BY <1>3, <2>1, <2>2
<1>4. CASE Create
  BY <1>3, <1>4 DEF Create, CreateRow
<1>5. CASE CreateFail
  BY <1>2, <1>3, <1>5 DEF CreateFail
<1>6. Create \/ CreateFail \/ (~hasIndex' /\ pc' \in {"sleep", "create"})
  <2> HIDE DEF NoEventPassed, MemoryAccounted, PositionBehind
  <2> QED
    BY <1>1 DEF Next, vars, NewBlock, Crash, Load, NotFound, ReadLatest,
       ReadLatestFail, Filter, FilterFail, Skip, Handle, HandleAgain,
       HandleFail, Save, SaveFail
<1> QED
  BY <1>2, <1>4, <1>5, <1>6

LEMMA IInvAlways == Spec => []IInv
<1>1. Init => IInv
  <2> SUFFICES ASSUME Init PROVE IInv
    OBVIOUS
  <2>1. TypeOK /\ Control
    BY TypeInit
  <2> QED
    BY <2>1 DEF Init, IInv, NoEventPassed, MemoryAccounted, PositionBehind,
                InBlockLoop
<1>2. IInv /\ [Next]_vars => IInv'
  <2> SUFFICES ASSUME IInv, [Next]_vars PROVE IInv'
    OBVIOUS
  <2>1. TypeOK' /\ Control'
    BY TypeStep DEF IInv
  <2>2. NoEventPassed' /\ MemoryAccounted' /\ PositionBehind'
    BY AccountedStart, AccountedStep
  <2> QED
    BY <2>1, <2>2 DEF IInv
<1> QED
  BY <1>1, <1>2, PTL DEF Spec

\* The stored position never passes an event that is neither stored nor lost
\* to a failed call.
THEOREM PositionSafe == Spec => []NoEventPassed
<1>1. IInv => NoEventPassed
  BY DEF IInv
<1> QED
  BY <1>1, IInvAlways, PTL

\* The block of the stored position never decreases.
THEOREM PositionMonotone == Spec => PositionNeverBack
<1>1. ASSUME IInv, [Next]_vars
      PROVE  [hasIndex => hasIndex' /\ index'.block >= index.block]_vars
  <2> SUFFICES ASSUME hasIndex
               PROVE  hasIndex' /\ index'.block >= index.block
    OBVIOUS
  <2>1. hasIndex'
    BY <1>1, FirstStays DEF IInv
  <2>2. CASE index' = index
    BY <1>1, <2>1, <2>2 DEF IInv, TypeOK, Position
  <2>3. CASE Save \/ SaveFail
    <3>1. index.block <= i /\ (index' = index \/ index'.block = i)
      BY <1>1, <2>3 DEF Save, SaveFail, IInv, PositionBehind, InBlockLoop,
                        TypeOK, Position
    <3> QED
      BY <1>1, <2>1, <2>2, <3>1 DEF IInv, TypeOK, Position
  <2>4. ~Create /\ ~CreateFail
    BY <1>1 DEF Create, CreateFail, IInv, Control
  <2> QED
    BY <1>1, <2>1, <2>2, <2>3, <2>4
       DEF Next, vars, NewBlock, Crash, Load, NotFound, ReadLatest,
           ReadLatestFail, Filter, FilterFail, Skip, Handle, HandleAgain,
           HandleFail
<1> QED
  BY <1>1, IInvAlways, PTL DEF Spec, PositionNeverBack

-----------------------------------------------------------------------------
(* The refinement. *)

\* The blocks being read exist, and what is left to handle is of block i.
ReadsTheChain ==
    /\ tip \in 0 .. MaxHeight
    /\ InBlockLoop => i <= latest /\ latest <= tip
    /\ pc = "handle" => todo \subseteq InBlock(i)

LEMMA ReadsTheChainStep ==
    ASSUME TypeOK, ReadsTheChain, [Next]_vars
    PROVE  ReadsTheChain'
<1> USE DEF TypeOK, ReadsTheChain, InBlockLoop, locals, history
<1>1. CASE NewBlock
  BY <1>1, EventAssumption DEF NewBlock
<1>2. CASE Crash \/ Load \/ NotFound \/ Create \/ CreateFail \/ UNCHANGED vars
  BY <1>2 DEF Crash, Load, NotFound, Create, CreateFail, vars, InBlock
<1>3. CASE ReadLatest \/ ReadLatestFail
  BY <1>3 DEF ReadLatest, ReadLatestFail, Position
<1>4. CASE Filter
  BY <1>4 DEF Filter, HandleOrSave, InBlock
<1>5. ASSUME NextBlock, i <= latest, latest <= tip, UNCHANGED <<tip, latest>>
      PROVE  ReadsTheChain'
  BY <1>5 DEF NextBlock
<1>6. CASE FilterFail \/ Save \/ SaveFail
  BY <1>5, <1>6 DEF FilterFail, Save, SaveFail
<1>7. ASSUME NEW e \in Events,
             Skip(e) \/ Handle(e) \/ HandleAgain(e) \/ HandleFail(e)
      PROVE  ReadsTheChain'
  BY <1>7 DEF Skip, Handle, HandleAgain, HandleFail, Done, HandleOrSave, InBlock
<1> QED
  BY <1>1, <1>2, <1>3, <1>4, <1>6, <1>7 DEF Next

\* A row is only written for an event of a block that exists, whose
\* transaction has none.
LEMMA TableStep ==
    ASSUME TypeOK, ReadsTheChain, [Next]_vars
    PROVE  [Table!TableNext]_<<tip, stored>>
<1> USE DEF locals, history
<1>1. CASE NewBlock
  BY <1>1 DEF NewBlock, Table!TableNext, Table!Grow
<1>2. ASSUME NEW e \in Events, Handle(e) \/ HandleFail(e)
      PROVE  [Table!TableNext]_<<tip, stored>>
  <2>1. CASE stored' = stored
    BY <1>2, <2>1 DEF Handle, HandleFail
  <2>2. CASE stored' # stored
    <3>1. /\ e \in DepositEvents /\ ~TxStored(e)
          /\ stored' = stored \union {e} /\ tip' = tip
          /\ pc = "handle" /\ e \in todo
      BY <1>2, <2>2 DEF Handle, HandleFail, Head
    <3>2. e[1] <= tip
      BY <3>1 DEF ReadsTheChain, InBlockLoop, InBlock, TypeOK
    <3>3. \A f \in stored : ~Table!SameTx(e, f)
      BY <3>1 DEF TxStored, Table!SameTx
    <3> QED
      BY <3>1, <3>2, <3>3 DEF Table!TableNext, Table!Store
  <2> QED
    BY <2>1, <2>2
<1>3. ASSUME NEW e \in Events, Skip(e) \/ HandleAgain(e)
      PROVE  UNCHANGED <<tip, stored>>
  BY <1>3 DEF Skip, HandleAgain
<1> QED
  BY <1>1, <1>2, <1>3
     DEF Next, vars, Crash, Load, NotFound, Create, CreateFail, ReadLatest,
         ReadLatestFail, Filter, FilterFail, Save, SaveFail

\* Whatever fails, the table grows by one deposit event of an existing block at
\* a time and never by a second one of a transaction.
THEOREM IndexerImplementsTable == Spec => TableGrowsByNewTx
<1>1. Init => ReadsTheChain /\ Table!TableInit
  BY DEF Init, ReadsTheChain, InBlockLoop, Table!TableInit
<1>2. TypeOK /\ ReadsTheChain /\ [Next]_vars
      => ReadsTheChain' /\ [Table!TableNext]_<<tip, stored>>
  BY ReadsTheChainStep, TableStep
<1> QED
  BY <1>1, <1>2, TypeCorrect, PTL DEF Spec, TableGrowsByNewTx, Table!TableSpec
=============================================================================
