------------------------ MODULE WithdrawServiceProofs ------------------------
(***************************************************************************)
(* Proofs about WithdrawService, for all withdrawals and outputs, every    *)
(* interleaving of the four goroutines, any number of signatures and any   *)
(* number of faults.                                                       *)
(***************************************************************************)
EXTENDS WithdrawService, SequenceTheorems, TLAPS

TxRow == [status : TxStatus, hashes : SUBSET Withdrawals]
WithdrawRows == [Withdrawals -> {"Absent", "Pending", "SubmitTxMsg", "Success"}]

\* The goroutines know rows that are there, and the main loop constructs one
\* transaction for the withdrawals of its list.
Control ==
    /\ signed \subseteq DOMAIN txs /\ watched \subseteq DOMAIN txs
    /\ \A f \in finished : f.tx \in DOMAIN txs
    /\ pc # "idle" => ids # {}
    /\ pc = "submit" => tx \in TxId /\ tx.pays = Merged(ids)

-----------------------------------------------------------------------------
(* The writes. *)

\* A status is written into one row.
LEMMA StatusFacts ==
    ASSUME TypeOK, NEW t \in DOMAIN txs, NEW s \in TxStatus, SetTxStatus(t, s)
    PROVE  /\ DOMAIN txs' = DOMAIN txs
           /\ \A u \in DOMAIN txs :
                 /\ txs'[u] \in TxRow
                 /\ txs'[u].hashes = txs[u].hashes
                 /\ txs'[u].status = IF u = t THEN s ELSE txs[u].status
BY DEF TypeOK, SetTxStatus, TxRow

\* A transaction and its withdrawals are stored.
LEMMA StoreFacts ==
    ASSUME TypeOK, tx \in TxId, StoreTx
    PROVE  /\ withdraw' \in WithdrawRows
           /\ \A w \in Withdrawals :
                 withdraw'[w] = IF w \in ids THEN "SubmitTxMsg" ELSE withdraw[w]
           /\ DOMAIN txs' = DOMAIN txs \union {tx}
           /\ \A u \in DOMAIN txs' : txs'[u] \in TxRow
           /\ \A u \in DOMAIN txs : u # tx => txs'[u] = txs[u]
           /\ \A u \in DOMAIN txs : txs'[u].hashes = txs[u].hashes
           /\ txs'[tx].status = "Pending"
           /\ tx \notin DOMAIN txs => txs'[tx].hashes = ids
BY DEF TypeOK, StoreTx, TxRow, WithdrawRows, TxStatus

\* An outcome is carried back.
LEMMA OutcomeFacts ==
    ASSUME TypeOK, Control, NEW f \in finished, StoreOutcome(f)
    PROVE  /\ withdraw' \in WithdrawRows
           /\ \A w \in Withdrawals :
                 withdraw'[w] = IF w \notin txs[f.tx].hashes THEN withdraw[w]
                                ELSE IF f.status = "Confirmed" THEN "Success" ELSE "Pending"
           /\ DOMAIN txs' = DOMAIN txs
           /\ \A u \in DOMAIN txs :
                 /\ txs'[u] \in TxRow
                 /\ txs'[u].hashes = txs[u].hashes
                 /\ txs'[u].status =
                      IF u # f.tx THEN txs[u].status
                      ELSE IF f.status = "Confirmed" THEN "Success" ELSE "Failed"
<1>1. f.tx \in DOMAIN txs
  BY DEF Control
<1> DEFINE s == IF f.status = "Confirmed" THEN "Success" ELSE "Failed"
<1>2. s \in TxStatus /\ SetTxStatus(f.tx, s)
  BY DEF StoreOutcome, TxStatus
<1>3. withdraw' = [w \in Withdrawals |->
                      IF w \notin txs[f.tx].hashes THEN withdraw[w]
                      ELSE IF f.status = "Confirmed" THEN "Success" ELSE "Pending"]
  BY DEF StoreOutcome
<1>4. withdraw' \in WithdrawRows
  BY <1>3 DEF WithdrawRows, TypeOK
<1> HIDE DEF s
<1>5. /\ DOMAIN txs' = DOMAIN txs
      /\ \A u \in DOMAIN txs :
            /\ txs'[u] \in TxRow
            /\ txs'[u].hashes = txs[u].hashes
            /\ txs'[u].status = IF u = f.tx THEN s ELSE txs[u].status
  BY <1>1, <1>2, StatusFacts
<1> QED
  BY <1>3, <1>4, <1>5 DEF s

-----------------------------------------------------------------------------
(* Type correctness. *)

\* What a step has to keep when it writes the two tables only.
LEMMA TablesType ==
    ASSUME TypeOK, Control,
           withdraw' \in WithdrawRows,
           DOMAIN txs \subseteq DOMAIN txs', DOMAIN txs' \subseteq TxId,
           \A u \in DOMAIN txs' : txs'[u] \in TxRow
    PROVE  /\ withdraw' \in [Withdrawals -> {"Absent", "Pending", "SubmitTxMsg", "Success"}]
           /\ \A t \in DOMAIN txs' : txs'[t] \in [status : TxStatus,
                                                  hashes : SUBSET Withdrawals]
           /\ signed \subseteq DOMAIN txs' /\ watched \subseteq DOMAIN txs'
           /\ \A f \in finished : f.tx \in DOMAIN txs'
BY DEF TxRow, WithdrawRows, Control

LEMMA InitStep == Init => TypeOK /\ Control
BY WithdrawAssumption DEF Init, TypeOK, Control

LEMMA FaultType == ASSUME TypeOK, NEW kind, Fault(kind) PROVE faults' \in 0 .. MaxFaults
BY WithdrawAssumption DEF Fault, TypeOK

LEMMA EnvironmentType ==
    ASSUME TypeOK, Control,
           \/ \E w \in Withdrawals : Arrive(w)
           \/ \E t \in DOMAIN txs : Sign(t)
           \/ \E t \in pool : Mine(t)
           \/ Crash
    PROVE  TypeOK' /\ Control'
<1>1. ASSUME NEW w \in Withdrawals, Arrive(w) PROVE TypeOK' /\ Control'
  BY <1>1 DEF Arrive, TypeOK, Control, config, chain, broadcaster, main
<1>2. ASSUME NEW t \in DOMAIN txs, Sign(t) PROVE TypeOK' /\ Control'
  <2>1. SetTxStatus(t, "SignatureCompleted") /\ "SignatureCompleted" \in TxStatus
    BY <1>2 DEF Sign, TxStatus
  <2>2. /\ DOMAIN txs' = DOMAIN txs
        /\ \A u \in DOMAIN txs : txs'[u] \in TxRow
    BY <2>1, StatusFacts
  <2> QED
    BY <1>2, <2>2 DEF Sign, TypeOK, Control, config, chain, broadcaster, main, TxRow
<1>3. ASSUME NEW t \in pool, Mine(t) PROVE TypeOK' /\ Control'
  BY <1>3 DEF Mine, TypeOK, Control, config, tables, broadcaster, main
<1>4. CASE Crash
  BY <1>4, FaultType DEF Crash, Idle, TypeOK, Control, config, tables, chain
<1> QED
  BY <1>1, <1>2, <1>3, <1>4

\* A page of a list has outputs of the list.
LEMMA PageType ==
    ASSUME NEW S \in SUBSET Outputs, NEW cursor \in Nat
    PROVE  Page(List[S], cursor) \in Seq(Outputs) /\ Len(List[S]) \in Nat
<1> DEFINE list == List[S]
           from == cursor * PageSize + 1
           to == IF (cursor + 1) * PageSize < Len(list) THEN (cursor + 1) * PageSize
                 ELSE Len(list)
<1>1. list \in Seq(Outputs) /\ Len(list) \in Nat
  BY ConstructAssumption, LenProperties
<1>2. cursor * PageSize \in Nat /\ (cursor + 1) * PageSize \in Nat
  BY ConstructAssumption
<1>3. from \in Nat \ {0} /\ to \in Nat /\ to <= Len(list)
  BY <1>1, <1>2
<1> HIDE DEF list, from, to
<1>4. SubSeq(list, from, to) \in Seq(Outputs)
  <2>1. \A i \in from .. to : list[i] \in Outputs
    BY <1>1, <1>3, LenProperties
  <2> QED
    BY <1>3, <2>1, SubSeqProperties
<1> QED
  BY <1>1, <1>4 DEF Page, list, from, to

\* A transaction that is constructed has a type and its change is not negative.
LEMMA BuildType ==
    ASSUME TypeOK, NEW outputs \in Seq(Outputs), NEW v \in Variants, Build(outputs, v),
           UNCHANGED config
    PROVE  \/ Idle
           \/ /\ pc' = "submit" /\ UNCHANGED ids
              /\ tx' \in TxId /\ tx'.pays = Merged(ids)
              /\ Change(worth', tx') >= 0
<1>1. PICK n \in 1 .. Len(outputs) :
        /\ tx' = Tx(outputs, n, Merged(ids), v)
        /\ \/ pc' = "submit" /\ Change(worth, tx') >= 0 /\ UNCHANGED ids
           \/ Idle
  BY DEF Build
<1>2. SubSeq(outputs, 1, n) \in Seq(Outputs)
  <2>1. n \in Int /\ 1 \in Int /\ \A i \in 1 .. n : outputs[i] \in Outputs
    BY LenProperties
  <2> QED
    BY <2>1, SubSeqProperties
<1>3. Merged(ids) \in {Merged(S) : S \in SUBSET Withdrawals}
  BY DEF TypeOK
<1>4. tx' \in TxId /\ tx'.pays = Merged(ids)
  BY <1>1, <1>2, <1>3 DEF Tx, TxId
<1>5. worth' = worth
  BY DEF config
<1> QED
  BY <1>1, <1>4, <1>5

LEMMA MainType ==
    ASSUME TypeOK, Control, MainLoop
    PROVE  TypeOK' /\ Control'
<1>1. CASE GetPending
  BY <1>1 DEF GetPending, TypeOK, Control, config, tables, chain, broadcaster
<1>2. ASSUME FirstPage \/ NextPage \/ ConstructFail PROVE TypeOK' /\ Control'
  <2>1. /\ UNCHANGED <<tables, chain, config, broadcaster, watched, finished>>
        /\ ids # {} /\ faults' \in 0 .. MaxFaults
    BY <1>2, FaultType DEF FirstPage, NextPage, ConstructFail, Control, TypeOK
  <2>2. CASE Idle
    BY <2>1, <2>2 DEF Idle, TypeOK, Control, tables, chain, config, broadcaster
  <2>3. ASSUME NEW outputs \in Seq(Outputs), NEW v \in Variants, Build(outputs, v)
        PROVE  TypeOK' /\ Control'
    BY <2>1, <2>2, <2>3, BuildType
       DEF TypeOK, Control, tables, chain, config, broadcaster
  <2>4. ASSUME NEW first \in Seq(Outputs), NEW unspent \in Seq(Outputs),
               NEW total \in Nat, NEW page \in Nat, ReadOn(first, unspent, total, page)
        PROVE  TypeOK' /\ Control'
    BY <2>1, <2>4 DEF ReadOn, TypeOK, Control, tables, chain, config, broadcaster
  <2>5. CASE FirstPage
    <3>1. PICK S \in SUBSET Outputs, v \in Variants :
             \/ Idle
             \/ Build(Page(List[S], 0), v)
             \/ ReadOn(Page(List[S], 0), Page(List[S], 0), Len(List[S]), 0)
      BY <2>5 DEF FirstPage
    <3>2. Page(List[S], 0) \in Seq(Outputs) /\ Len(List[S]) \in Nat
      BY PageType
    <3> QED
      BY <2>2, <2>3, <2>4, <3>1, <3>2
  <2>6. CASE NextPage
    <3>1. PICK S \in SUBSET Outputs, v \in Variants :
             \/ Build(scan.unspent, v)
             \/ Build(scan.unspent \o Page(List[S], scan.page), v)
             \/ ReadOn(scan.first, scan.unspent \o Page(List[S], scan.page), scan.total,
                       scan.page + 1)
      BY <2>6 DEF NextPage
    <3>2. /\ scan.first \in Seq(Outputs) /\ scan.unspent \in Seq(Outputs)
          /\ scan.total \in Nat /\ scan.page \in Nat /\ scan.page + 1 \in Nat
      BY <2>6 DEF NextPage, TypeOK
    <3>3. scan.unspent \o Page(List[S], scan.page) \in Seq(Outputs)
      BY <3>2, PageType, ConcatProperties
    <3> QED
      BY <2>3, <2>4, <3>1, <3>2, <3>3
  <2> QED
    BY <1>2, <2>2, <2>5, <2>6 DEF ConstructFail
<1>3. CASE Submit \/ SubmitFail
  <2>1. /\ pc = "submit" /\ Idle
        /\ UNCHANGED <<chain, config, broadcaster, watched, finished>>
        /\ StoreTx \/ UNCHANGED tables
    BY <1>3 DEF Submit, SubmitFail
  <2>2. faults' \in 0 .. MaxFaults
    BY <1>3, FaultType DEF Submit, SubmitFail, TypeOK
  <2>3. /\ withdraw' \in WithdrawRows
        /\ DOMAIN txs \subseteq DOMAIN txs' /\ DOMAIN txs' \subseteq TxId
        /\ \A u \in DOMAIN txs' : txs'[u] \in TxRow
    <3>1. CASE UNCHANGED tables
      BY <3>1 DEF tables, TypeOK, WithdrawRows, TxRow
    <3>2. CASE StoreTx
      <4>1. tx \in TxId /\ DOMAIN txs \subseteq TxId
        BY <2>1 DEF Control, TypeOK
      <4> QED
        BY <3>2, <4>1, StoreFacts
    <3> QED
      BY <2>1, <3>1, <3>2
  <2> QED
    BY <2>1, <2>2, <2>3, TablesType DEF Idle, TypeOK, Control, config, chain, broadcaster
<1> QED
  BY <1>1, <1>2, <1>3 DEF MainLoop

LEMMA BroadcastingType ==
    ASSUME TypeOK, Control, Broadcasting
    PROVE  TypeOK' /\ Control'
<1>1. CASE GetSigned
  BY <1>1 DEF GetSigned, HasStatus, TypeOK, Control, config, tables, chain, main
<1>2. CASE Panic
  BY <1>2 DEF Panic, TypeOK, Control, config, tables, chain, main
<1>3. CASE Record
  <2>1. sent.tx \in DOMAIN txs /\ sent.status \in TxStatus
    BY <1>3 DEF Record, TypeOK, Control, config, TxStatus
  <2>2. /\ DOMAIN txs' = DOMAIN txs
        /\ \A u \in DOMAIN txs : txs'[u] \in TxRow
    BY <1>3, <2>1, StatusFacts DEF Record
  <2> QED
    BY <1>3, <2>2 DEF Record, Recorded, TypeOK, Control, config, chain, main, TxRow
<1>4. CASE RecordFail
  BY <1>4, FaultType DEF RecordFail, Recorded, TypeOK, Control, config, tables, chain, main
<1>5. ASSUME NEW t \in signed, Broadcast(t) \/ Refuse(t) \/ BroadcastLost(t)
      PROVE  TypeOK' /\ Control'
  <2>1. PICK status \in {"BroadcastSuccess", "BroadcastFailed"} : Send(t, status)
    BY <1>5 DEF Broadcast, Refuse, BroadcastLost
  <2>2. faults' \in 0 .. MaxFaults
    BY <1>5, FaultType DEF Broadcast, Refuse, BroadcastLost, TypeOK
  <2>3. pool' \subseteq TxId
    BY <1>5 DEF Broadcast, Refuse, BroadcastLost, TypeOK
  <2>4. sent' \in [tx : signed, status : {"BroadcastSuccess", "BroadcastFailed"}]
    BY <2>1 DEF Send
  <2> QED
    BY <2>1, <2>2, <2>3, <2>4 DEF Send, TypeOK, Control, config, tables, main
<1> QED
  BY <1>1, <1>2, <1>3, <1>4, <1>5 DEF Broadcasting

LEMMA ConfirmingType ==
    ASSUME TypeOK, Control, Confirming
    PROVE  TypeOK' /\ Control'
<1>1. CASE GetBroadcast
  BY <1>1 DEF GetBroadcast, HasStatus, TypeOK, Control, config, tables, chain, broadcaster, main
<1>2. ASSUME NEW t \in watched, Confirm(t) PROVE TypeOK' /\ Control'
  <2>1. /\ DOMAIN txs' = DOMAIN txs
        /\ \A u \in DOMAIN txs : txs'[u] \in TxRow
    <3>1. CASE SetTxStatus(t, "Confirmed")
      <4>1. t \in DOMAIN txs /\ "Confirmed" \in TxStatus
        BY DEF Control, TxStatus
      <4> QED
        BY <3>1, <4>1, StatusFacts
    <3>2. CASE UNCHANGED txs
      BY <3>2 DEF TypeOK, TxRow
    <3> QED
      BY <1>2, <3>1, <3>2 DEF Confirm
  <2> QED
    BY <1>2, <2>1 DEF Confirm, TypeOK, Control, config, chain, broadcaster, main, TxRow
<1>3. ASSUME NEW t \in watched, ConfirmFail(t) PROVE TypeOK' /\ Control'
  BY <1>3, FaultType DEF ConfirmFail, TypeOK, Control, config, tables, chain, broadcaster, main
<1> QED
  BY <1>1, <1>2, <1>3 DEF Confirming

LEMMA CompletingType ==
    ASSUME TypeOK, Control, Completing
    PROVE  TypeOK' /\ Control'
<1>1. CASE GetFinal
  <2>1. finished' = {[tx |-> t, status |-> txs[t].status] : t \in HasStatus(Final)}
    BY <1>1 DEF GetFinal
  <2>2. /\ finished' \subseteq [tx : TxId, status : {"Confirmed", "BroadcastFailed"}]
        /\ \A f \in finished' : f.tx \in DOMAIN txs
    BY <2>1 DEF HasStatus, Final, TypeOK
  <2> QED
    BY <1>1, <2>2 DEF GetFinal, TypeOK, Control, config, tables, chain, broadcaster, main
<1>2. ASSUME NEW f \in finished, Complete(f) \/ CompleteFail(f)
      PROVE  TypeOK' /\ Control'
  <2>1. /\ finished' \subseteq finished
        /\ UNCHANGED <<chain, config, broadcaster, watched, main>>
        /\ StoreOutcome(f) \/ UNCHANGED tables
    BY <1>2 DEF Complete, CompleteFail
  <2>2. faults' \in 0 .. MaxFaults
    BY <1>2, FaultType DEF Complete, CompleteFail, TypeOK
  <2>3. /\ withdraw' \in WithdrawRows
        /\ DOMAIN txs' = DOMAIN txs
        /\ \A u \in DOMAIN txs' : txs'[u] \in TxRow
    <3>1. CASE UNCHANGED tables
      BY <3>1 DEF tables, TypeOK, WithdrawRows, TxRow
    <3>2. CASE StoreOutcome(f)
      BY <3>2, OutcomeFacts
    <3> QED
      BY <2>1, <3>1, <3>2
  <2> QED
    BY <2>1, <2>2, <2>3 DEF TypeOK, Control, config, chain, broadcaster, main, TxRow, WithdrawRows
<1> QED
  BY <1>1, <1>2 DEF Completing

LEMMA TypeStep == TypeOK /\ Control /\ [Next]_vars => TypeOK' /\ Control'
<1> SUFFICES ASSUME TypeOK, Control, [Next]_vars PROVE TypeOK' /\ Control'
  OBVIOUS
<1>1. CASE UNCHANGED vars
  <2>1. UNCHANGED <<withdraw, txs, pool, mined, multisig, worth, alive, signed,
                    sent, watched, finished, pc, ids, scan, tx, faults>>
    BY <1>1 DEF vars, tables, chain, config, broadcaster, main
  <2>2. Merged(ids') = Merged(ids) /\ Change(worth', tx') = Change(worth, tx)
    BY <2>1
  <2> QED
    BY <2>1, <2>2 DEF TypeOK, Control
<1> QED
  BY <1>1, EnvironmentType, MainType, BroadcastingType, ConfirmingType, CompletingType
     DEF Next

LEMMA ControlAlways == Spec => [](TypeOK /\ Control)
<1> QED
  BY InitStep, TypeStep, PTL DEF Spec

\* The tables, the lists of the four goroutines and the transaction between its
\* construction and its row keep their types.
THEOREM TypeCorrect == Spec => []TypeOK
BY ControlAlways, PTL

-----------------------------------------------------------------------------
(* What is reported as paid. *)

\* A transaction counts as confirmed only with its confirmations, in its row and
\* in the list of the completing goroutine, which may be older than the row.
ConfirmedIsMined ==
    /\ \A t \in DOMAIN txs : txs[t].status = "Confirmed" => t \in mined
    /\ \A f \in finished : f.status = "Confirmed" => f.tx \in mined

PaidByRow ==
    \A w \in Withdrawals : withdraw[w] = "Success" =>
        \E t \in DOMAIN txs : t \in mined /\ w \in txs[t].hashes

PaidInv == ConfirmedIsMined /\ PaidByRow

\* Steps that write neither table.
LEMMA PaidQuiet ==
    ASSUME PaidInv, UNCHANGED tables, mined \subseteq mined', finished' \subseteq finished
    PROVE  PaidInv'
BY DEF PaidInv, ConfirmedIsMined, PaidByRow, tables

\* Steps that write one status.
LEMMA PaidStatus ==
    ASSUME TypeOK, PaidInv, NEW t \in DOMAIN txs, NEW s \in TxStatus, SetTxStatus(t, s),
           s = "Confirmed" => t \in mined,
           UNCHANGED <<withdraw, mined, finished>>
    PROVE  PaidInv'
BY StatusFacts DEF PaidInv, ConfirmedIsMined, PaidByRow

LEMMA PaidStep ==
    ASSUME TypeOK, Control, PaidInv, [Next]_vars
    PROVE  PaidInv'
<1>1. CASE UNCHANGED vars
  BY <1>1, PaidQuiet DEF vars, chain
<1>2. ASSUME NEW w \in Withdrawals, Arrive(w) PROVE PaidInv'
  BY <1>2 DEF Arrive, PaidInv, ConfirmedIsMined, PaidByRow, chain, TypeOK
<1>3. ASSUME NEW t \in DOMAIN txs, Sign(t) PROVE PaidInv'
  <2>1. "SignatureCompleted" \in TxStatus
    BY DEF TxStatus
  <2> QED
    BY <1>3, <2>1, PaidStatus DEF Sign, chain
<1>4. ASSUME NEW t \in pool, Mine(t) PROVE PaidInv'
  BY <1>4, PaidQuiet DEF Mine
<1>5. CASE Crash
  BY <1>5, PaidQuiet DEF Crash, chain
<1>6. CASE MainLoop
  <2>1. UNCHANGED <<mined, finished>>
    BY <1>6 DEF MainLoop, GetPending, FirstPage, NextPage, ConstructFail, Submit, SubmitFail, chain
  <2>2. CASE UNCHANGED tables
    BY <2>1, <2>2, PaidQuiet
  <2>3. CASE StoreTx /\ tx \in TxId
    BY <2>1, <2>3, StoreFacts DEF PaidInv, ConfirmedIsMined, PaidByRow
  <2> QED
    BY <1>6, <2>2, <2>3
       DEF MainLoop, GetPending, FirstPage, NextPage, ConstructFail, Submit, SubmitFail, Control
<1>7. CASE Broadcasting
  <2>1. UNCHANGED <<mined, finished>>
    BY <1>7 DEF Broadcasting, GetSigned, Panic, Record, RecordFail, Broadcast, Refuse,
               BroadcastLost, Send, chain
  <2>2. CASE Record
    <3>1. /\ sent.tx \in DOMAIN txs /\ sent.status \in TxStatus
          /\ sent.status # "Confirmed"
      BY <2>2 DEF Record, TypeOK, Control, TxStatus
    <3> QED
      BY <2>1, <2>2, <3>1, PaidStatus DEF Record
  <2>3. CASE UNCHANGED tables
    BY <2>1, <2>3, PaidQuiet
  <2> QED
    BY <1>7, <2>2, <2>3
       DEF Broadcasting, GetSigned, Panic, RecordFail, Broadcast, Refuse, BroadcastLost, Send
<1>8. CASE Confirming
  <2>1. UNCHANGED <<withdraw, mined, finished>>
    BY <1>8 DEF Confirming, GetBroadcast, Confirm, ConfirmFail, chain, tables
  <2>2. ASSUME NEW t \in watched, Confirmed(t), SetTxStatus(t, "Confirmed") PROVE PaidInv'
    <3>1. t \in DOMAIN txs /\ "Confirmed" \in TxStatus
      BY DEF Control, TxStatus
    <3> QED
      BY <2>1, <2>2, <3>1, PaidStatus DEF Confirmed
  <2>3. CASE UNCHANGED txs
    BY <2>1, <2>3, PaidQuiet DEF tables
  <2> QED
    BY <1>8, <2>2, <2>3 DEF Confirming, GetBroadcast, Confirm, ConfirmFail, tables
<1>9. CASE GetFinal
  <2>1. finished' = {[tx |-> t, status |-> txs[t].status] : t \in HasStatus(Final)}
        /\ UNCHANGED <<tables, chain>>
    BY <1>9 DEF GetFinal
  <2>2. \A f \in finished' : f.status = "Confirmed" => f.tx \in mined
    BY <2>1 DEF HasStatus, PaidInv, ConfirmedIsMined
  <2> QED
    BY <2>1, <2>2 DEF PaidInv, ConfirmedIsMined, PaidByRow, tables, chain
<1>10. ASSUME NEW f \in finished, Complete(f) \/ CompleteFail(f) PROVE PaidInv'
  <2>1. /\ finished' \subseteq finished /\ UNCHANGED mined
        /\ StoreOutcome(f) \/ UNCHANGED tables
    BY <1>10 DEF Complete, CompleteFail, chain
  <2>2. CASE UNCHANGED tables
    BY <2>1, <2>2, PaidQuiet
  <2>3. CASE StoreOutcome(f)
    <3>1. f.tx \in DOMAIN txs /\ (f.status = "Confirmed" => f.tx \in mined)
      BY DEF Control, PaidInv, ConfirmedIsMined
    <3>2. ConfirmedIsMined'
      BY <2>1, <2>3, OutcomeFacts DEF PaidInv, ConfirmedIsMined
    <3>3. PaidByRow'
      BY <2>1, <2>3, <3>1, OutcomeFacts DEF PaidInv, PaidByRow
    <3> QED
      BY <3>2, <3>3 DEF PaidInv
  <2> QED
    BY <2>1, <2>2, <2>3
<1> QED
  BY <1>1, <1>2, <1>3, <1>4, <1>5, <1>6, <1>7, <1>8, <1>9, <1>10 DEF Next, Completing

\* A withdrawal is reported as paid only when a transaction for it has its
\* confirmations, also when rows are set back that other goroutines have read.
THEOREM PaidIsTrue == Spec => []SuccessIsPaid
<1>1. Init => PaidInv
  BY DEF Init, PaidInv, ConfirmedIsMined, PaidByRow
<1>2. TypeOK /\ Control /\ PaidInv /\ [Next]_vars => PaidInv'
  BY PaidStep
<1>3. PaidInv => SuccessIsPaid
  BY DEF PaidInv, PaidByRow, SuccessIsPaid
<1> QED
  BY <1>1, <1>2, <1>3, ControlAlways, PTL DEF Spec

-----------------------------------------------------------------------------
(* The two tables. *)

\* What the run WithdrawTwins lacks: the payments tell the withdrawals.
NoTwins == \A S, T \in SUBSET Withdrawals : Merged(S) = Merged(T) => S = T

\* A row in the list of a goroutine has the status it was selected for, so that
\* no two goroutines have the same row at hand.
Fresh ==
    /\ \A t \in signed : txs[t].status = "SignatureCompleted"
    /\ \A t \in watched : txs[t].status = "BroadcastSuccess"
    /\ \A f \in finished : txs[f.tx].status = f.status
    /\ pc # "idle" => \A w \in ids : withdraw[w] = "Pending"

Made == \A t \in DOMAIN txs : txs[t].hashes # {} /\ t.pays = Merged(txs[t].hashes)

IsOpen(t, w) == t \in DOMAIN txs /\ w \in txs[t].hashes /\ txs[t].status # "Failed"
Settled(w) == withdraw[w] \in {"SubmitTxMsg", "Success"}

\* OneOpenTx in the parts the steps keep.
Agree ==
    /\ \A w \in Withdrawals : \A t \in DOMAIN txs : IsOpen(t, w) => Settled(w)
    /\ \A w \in Withdrawals : \A t, u \in DOMAIN txs :
          IsOpen(t, w) /\ IsOpen(u, w) => t = u
    /\ \A w \in Withdrawals : Settled(w) => \E t \in DOMAIN txs : IsOpen(t, w)

AgreeInv == Fresh /\ Made /\ Agree

LEMMA AgreeQuiet ==
    ASSUME AgreeInv, UNCHANGED tables,
           signed' \subseteq signed, watched' \subseteq watched, finished' \subseteq finished,
           pc' = "idle" \/ (pc # "idle" /\ ids' = ids)
    PROVE  AgreeInv'
BY DEF AgreeInv, Fresh, Made, Agree, IsOpen, Settled, tables

\* A status that does not end the transaction.
LEMMA AgreeStatus ==
    ASSUME TypeOK, Control, AgreeInv, NEW t \in DOMAIN txs, NEW s \in TxStatus,
           SetTxStatus(t, s), s # "Failed", txs[t].status # "Failed",
           UNCHANGED <<withdraw, pc, ids>>,
           signed' \subseteq signed \ {t}, watched' \subseteq watched \ {t},
           finished' \subseteq {f \in finished : f.tx # t}
    PROVE  AgreeInv'
<1>1. /\ DOMAIN txs' = DOMAIN txs
      /\ \A u \in DOMAIN txs :
            /\ txs'[u].hashes = txs[u].hashes
            /\ txs'[u].status = IF u = t THEN s ELSE txs[u].status
  BY StatusFacts
<1>2. Fresh'
  BY <1>1 DEF AgreeInv, Fresh, Control
<1>3. Made'
  BY <1>1 DEF AgreeInv, Made
<1>4. Agree'
  BY <1>1 DEF AgreeInv, Agree, IsOpen, Settled
<1> QED
  BY <1>2, <1>3, <1>4 DEF AgreeInv

\* A transaction that has a row already was made for the same withdrawals, which
\* wait again: it failed.
LEMMA MadeBefore ==
    ASSUME NoTwins, TypeOK, Control, AgreeInv, pc = "submit", tx \in DOMAIN txs
    PROVE  txs[tx].hashes = ids /\ txs[tx].status = "Failed"
<1>1. /\ tx.pays = Merged(ids) /\ ids # {} /\ ids \subseteq Withdrawals
      /\ \A w \in ids : withdraw[w] = "Pending"
  BY DEF Control, AgreeInv, Fresh, TypeOK
<1>2. txs[tx].hashes \in SUBSET Withdrawals
  BY DEF TypeOK
<1>3. txs[tx].hashes = ids
  BY <1>1, <1>2 DEF NoTwins, AgreeInv, Made
<1>4. PICK w \in ids : withdraw[w] = "Pending"
  BY <1>1
<1>5. ~IsOpen(tx, w)
  BY <1>1, <1>4 DEF AgreeInv, Agree, Settled
<1> QED
  BY <1>3, <1>5 DEF IsOpen

LEMMA AgreeStore ==
    ASSUME NoTwins, TypeOK, Control, AgreeInv, pc = "submit", StoreTx,
           pc' = "idle", UNCHANGED <<signed, watched, finished>>
    PROVE  AgreeInv'
<1>1. /\ tx \in TxId /\ tx.pays = Merged(ids) /\ ids # {} /\ ids \subseteq Withdrawals
      /\ \A w \in ids : withdraw[w] = "Pending"
  BY DEF Control, AgreeInv, Fresh, TypeOK
<1>2. ASSUME tx \in DOMAIN txs PROVE txs[tx].hashes = ids /\ txs[tx].status = "Failed"
  BY <1>2, MadeBefore
<1>3. /\ \A w \in Withdrawals :
            withdraw'[w] = IF w \in ids THEN "SubmitTxMsg" ELSE withdraw[w]
      /\ DOMAIN txs' = DOMAIN txs \union {tx}
      /\ \A u \in DOMAIN txs : u # tx => txs'[u] = txs[u]
      /\ txs'[tx].status = "Pending"
      /\ txs'[tx].hashes = ids
  BY <1>1, <1>2, StoreFacts
<1>4. Fresh'
  <2>1. tx \notin signed /\ tx \notin watched /\ \A f \in finished : f.tx # tx
    BY <1>2 DEF Control, AgreeInv, Fresh, TypeOK
  <2> QED
    BY <1>3, <2>1 DEF Control, AgreeInv, Fresh
<1>5. Made'
  <2>1. ASSUME NEW t \in DOMAIN txs' PROVE txs'[t].hashes # {} /\ t.pays = Merged(txs'[t].hashes)
    BY <1>1, <1>3 DEF AgreeInv, Made
  <2> QED
    BY <2>1 DEF Made
<1>6. \A w \in Withdrawals, t \in DOMAIN txs' :
         IsOpen(t, w)' <=> IF t = tx THEN w \in ids ELSE IsOpen(t, w)
  BY <1>3 DEF IsOpen
<1>7. \A w \in Withdrawals : Settled(w)' <=> w \in ids \/ Settled(w)
  BY <1>3 DEF Settled
<1>8. \A w \in ids : ~Settled(w) /\ \A t \in DOMAIN txs : ~IsOpen(t, w)
  BY <1>1 DEF AgreeInv, Agree, Settled
<1>9. \A w \in Withdrawals : ~IsOpen(tx, w)
  BY <1>2 DEF IsOpen
<1>10. Agree'
  <2>1. ASSUME NEW w \in Withdrawals, NEW t \in DOMAIN txs', IsOpen(t, w)' PROVE Settled(w)'
    BY <2>1, <1>3, <1>6, <1>7 DEF AgreeInv, Agree
  <2>2. ASSUME NEW w \in Withdrawals, NEW t \in DOMAIN txs', NEW u \in DOMAIN txs',
               IsOpen(t, w)', IsOpen(u, w)'
        PROVE  t = u
    BY <2>2, <1>3, <1>6, <1>8 DEF AgreeInv, Agree
  <2>3. ASSUME NEW w \in Withdrawals, Settled(w)' PROVE \E t \in DOMAIN txs' : IsOpen(t, w)'
    BY <2>3, <1>3, <1>6, <1>7, <1>9 DEF AgreeInv, Agree
  <2> QED
    BY <2>1, <2>2, <2>3 DEF Agree
<1> QED
  BY <1>4, <1>5, <1>10 DEF AgreeInv

LEMMA AgreeOutcome ==
    ASSUME TypeOK, Control, AgreeInv, NEW f \in finished, StoreOutcome(f),
           finished' = finished \ {f}, UNCHANGED <<signed, watched, pc, ids>>
    PROVE  AgreeInv'
<1> DEFINE t == f.tx
<1>1. t \in DOMAIN txs /\ txs[t].status = f.status /\ f.status \in {"Confirmed", "BroadcastFailed"}
  BY DEF Control, AgreeInv, Fresh, TypeOK
<1>2. /\ DOMAIN txs' = DOMAIN txs
      /\ \A u \in DOMAIN txs :
            /\ txs'[u].hashes = txs[u].hashes
            /\ txs'[u].status =
                 IF u # t THEN txs[u].status
                 ELSE IF f.status = "Confirmed" THEN "Success" ELSE "Failed"
      /\ \A w \in Withdrawals :
            withdraw'[w] = IF w \notin txs[t].hashes THEN withdraw[w]
                           ELSE IF f.status = "Confirmed" THEN "Success" ELSE "Pending"
  BY OutcomeFacts
<1>3. \A w \in Withdrawals : w \in txs[t].hashes => IsOpen(t, w) /\ Settled(w)
  BY <1>1 DEF IsOpen, AgreeInv, Agree
<1>4. ids \subseteq Withdrawals
  BY DEF TypeOK
<1>5. Fresh'
  <2>1. t \notin signed /\ t \notin watched
    BY <1>1 DEF AgreeInv, Fresh
  <2>2. \A g \in finished' : g.tx # t
    <3>1. ASSUME NEW g \in finished, g.tx = t PROVE g = f
      <4>1. g.status = f.status
        BY <1>1, <3>1 DEF AgreeInv, Fresh
      <4>2. /\ g \in [tx : TxId, status : {"Confirmed", "BroadcastFailed"}]
            /\ f \in [tx : TxId, status : {"Confirmed", "BroadcastFailed"}]
        BY DEF TypeOK
      <4> QED
        BY <3>1, <4>1, <4>2
    <3> QED
      BY <3>1
  <2>3. pc # "idle" => \A w \in ids : w \notin txs[t].hashes
    BY <1>3, <1>4 DEF AgreeInv, Fresh, Settled
  <2> QED
    BY <1>2, <1>4, <2>1, <2>2, <2>3 DEF AgreeInv, Fresh, Control
<1>6. Made'
  BY <1>2 DEF AgreeInv, Made
<1>7. \A w \in Withdrawals, u \in DOMAIN txs :
         IsOpen(u, w)' <=> IsOpen(u, w) /\ (u = t => f.status = "Confirmed")
  BY <1>1, <1>2 DEF IsOpen
<1>8. \A w \in Withdrawals :
         Settled(w)' <=> IF w \in txs[t].hashes THEN f.status = "Confirmed" ELSE Settled(w)
  BY <1>2 DEF Settled
<1> HIDE DEF t
<1>9. Agree'
  <2>1. ASSUME NEW w \in Withdrawals, NEW u \in DOMAIN txs', IsOpen(u, w)' PROVE Settled(w)'
    BY <2>1, <1>2, <1>1, <1>3, <1>7, <1>8 DEF AgreeInv, Agree
  <2>2. ASSUME NEW w \in Withdrawals, NEW u \in DOMAIN txs', NEW v \in DOMAIN txs',
               IsOpen(u, w)', IsOpen(v, w)'
        PROVE  u = v
    BY <2>2, <1>2, <1>7 DEF AgreeInv, Agree
  <2>3. ASSUME NEW w \in Withdrawals, Settled(w)' PROVE \E u \in DOMAIN txs' : IsOpen(u, w)'
    <3>1. CASE w \in txs[t].hashes
      BY <2>3, <3>1, <1>1, <1>2, <1>3, <1>7, <1>8
    <3>2. CASE w \notin txs[t].hashes
      <4>1. PICK u \in DOMAIN txs : IsOpen(u, w)
        BY <2>3, <3>2, <1>8 DEF AgreeInv, Agree
      <4>2. u # t
        BY <3>2, <4>1 DEF IsOpen
      <4> QED
        BY <4>1, <4>2, <1>2, <1>7
    <3> QED
      BY <3>1, <3>2
  <2> QED
    BY <2>1, <2>2, <2>3 DEF Agree
<1> QED
  BY <1>5, <1>6, <1>9 DEF AgreeInv

LEMMA AgreeEnvironment ==
    ASSUME TypeOK, Control, AgreeInv,
           \/ \E w \in Withdrawals : Arrive(w)
           \/ \E t \in DOMAIN txs : Sign(t)
           \/ \E t \in pool : Mine(t)
           \/ Crash
    PROVE  AgreeInv'
<1>1. ASSUME NEW w \in Withdrawals, Arrive(w) PROVE AgreeInv'
  <2>1. /\ withdraw' = [withdraw EXCEPT ![w] = "Pending"] /\ withdraw[w] = "Absent"
        /\ UNCHANGED <<txs, signed, watched, finished, pc, ids>>
    BY <1>1 DEF Arrive, broadcaster, main
  <2>2. \A v \in Withdrawals : withdraw'[v] = IF v = w THEN "Pending" ELSE withdraw[v]
    BY <2>1 DEF TypeOK
  <2>3. \A v \in Withdrawals : Settled(v)' <=> Settled(v)
    BY <2>1, <2>2 DEF Settled
  <2>4. Fresh'
    BY <2>1, <2>2 DEF AgreeInv, Fresh, TypeOK
  <2> QED
    BY <2>1, <2>3, <2>4 DEF AgreeInv, Made, Agree, IsOpen
<1>2. ASSUME NEW t \in DOMAIN txs, Sign(t) PROVE AgreeInv'
  <2>1. "SignatureCompleted" \in TxStatus
    BY DEF TxStatus
  <2>2. t \notin signed /\ t \notin watched /\ \A f \in finished : f.tx # t
    BY <1>2 DEF Sign, AgreeInv, Fresh, TypeOK
  <2> QED
    BY <1>2, <2>1, <2>2, AgreeStatus DEF Sign, broadcaster, main
<1>3. ASSUME NEW t \in pool, Mine(t) PROVE AgreeInv'
  <2>1. UNCHANGED <<tables, signed, watched, finished, pc, ids>>
    BY <1>3 DEF Mine, broadcaster, main
  <2> QED
    BY <2>1, AgreeQuiet
<1>4. CASE Crash
  BY <1>4, AgreeQuiet DEF Crash, Idle
<1> QED
  BY <1>1, <1>2, <1>3, <1>4

LEMMA AgreeMain ==
    ASSUME NoTwins, TypeOK, Control, AgreeInv, MainLoop
    PROVE  AgreeInv'
<1>1. UNCHANGED <<signed, watched, finished>>
  BY DEF MainLoop, GetPending, FirstPage, NextPage, ConstructFail, Submit, SubmitFail, broadcaster
<1>2. CASE GetPending
  BY <1>1, <1>2 DEF GetPending, AgreeInv, Fresh, Made, Agree, IsOpen, Settled, tables
<1>3. ASSUME FirstPage \/ NextPage \/ ConstructFail PROVE AgreeInv'
  <2>1. UNCHANGED tables /\ (pc' = "idle" \/ (pc # "idle" /\ ids' = ids))
    BY <1>3 DEF FirstPage, NextPage, ConstructFail, Build, ReadOn, Idle
  <2> QED
    BY <1>1, <2>1, AgreeQuiet
<1>4. CASE Submit \/ SubmitFail
  <2>1. pc = "submit" /\ pc' = "idle" /\ (StoreTx \/ UNCHANGED tables)
    BY <1>4 DEF Submit, SubmitFail, Idle
  <2> QED
    BY <1>1, <2>1, AgreeStore, AgreeQuiet
<1> QED
  BY <1>2, <1>3, <1>4 DEF MainLoop

LEMMA AgreeBroadcasting ==
    ASSUME TypeOK, Control, AgreeInv, Broadcasting
    PROVE  AgreeInv'
<1>1. UNCHANGED <<withdraw, watched, finished, pc, ids>>
  BY DEF Broadcasting, GetSigned, Panic, Record, RecordFail, Broadcast, Refuse,
         BroadcastLost, Send, tables, main
<1>2. CASE GetSigned
  BY <1>1, <1>2
     DEF GetSigned, HasStatus, AgreeInv, Fresh, Made, Agree, IsOpen, Settled, tables
<1>3. CASE Record
  <2>1. /\ sent.tx \in signed /\ sent.status \in {"BroadcastSuccess", "BroadcastFailed"}
        /\ SetTxStatus(sent.tx, sent.status) /\ signed' = signed \ {sent.tx}
    BY <1>3 DEF Record, Recorded, TypeOK
  <2>2. sent.tx \in DOMAIN txs /\ txs[sent.tx].status = "SignatureCompleted"
    BY <2>1 DEF Control, AgreeInv, Fresh
  <2>3. sent.tx \notin watched /\ \A f \in finished : f.tx # sent.tx
    BY <2>2 DEF AgreeInv, Fresh, TypeOK
  <2>4. sent.status \in TxStatus /\ sent.status # "Failed"
    BY <2>1 DEF TxStatus
  <2> QED
    BY <1>1, <2>1, <2>2, <2>3, <2>4, AgreeStatus
<1>4. CASE UNCHANGED tables /\ signed' \subseteq signed
  <2>1. pc' = "idle" \/ (pc # "idle" /\ ids' = ids)
    BY <1>1
  <2> QED
    BY <1>1, <1>4, <2>1, AgreeQuiet
<1> QED
  BY <1>2, <1>3, <1>4
     DEF Broadcasting, Panic, RecordFail, Recorded, Broadcast, Refuse, BroadcastLost, Send

LEMMA AgreeConfirming ==
    ASSUME TypeOK, Control, AgreeInv, Confirming
    PROVE  AgreeInv'
<1>1. UNCHANGED <<withdraw, signed, finished, pc, ids>>
  BY DEF Confirming, GetBroadcast, Confirm, ConfirmFail, tables, broadcaster, main
<1>2. CASE GetBroadcast
  BY <1>1, <1>2
     DEF GetBroadcast, HasStatus, AgreeInv, Fresh, Made, Agree, IsOpen, Settled, tables
<1>3. ASSUME NEW t \in watched, SetTxStatus(t, "Confirmed"), watched' = watched \ {t}
      PROVE  AgreeInv'
  <2>1. t \in DOMAIN txs /\ txs[t].status = "BroadcastSuccess" /\ "Confirmed" \in TxStatus
    BY DEF Control, AgreeInv, Fresh, TxStatus
  <2>2. t \notin signed /\ \A f \in finished : f.tx # t
    BY <2>1 DEF AgreeInv, Fresh, TypeOK
  <2> QED
    BY <1>1, <1>3, <2>1, <2>2, AgreeStatus
<1>4. CASE UNCHANGED txs /\ watched' \subseteq watched
  <2>1. UNCHANGED tables /\ (pc' = "idle" \/ (pc # "idle" /\ ids' = ids))
    BY <1>1, <1>4 DEF tables
  <2> QED
    BY <1>1, <1>4, <2>1, AgreeQuiet
<1> QED
  BY <1>2, <1>3, <1>4 DEF Confirming, Confirm, ConfirmFail, tables

LEMMA AgreeCompleting ==
    ASSUME TypeOK, Control, AgreeInv, Completing
    PROVE  AgreeInv'
<1>1. UNCHANGED <<signed, watched, pc, ids>>
  BY DEF Completing, GetFinal, Complete, CompleteFail, broadcaster, main
<1>2. CASE GetFinal
  <2>1. /\ finished' = {[tx |-> t, status |-> txs[t].status] : t \in HasStatus(Final)}
        /\ UNCHANGED <<withdraw, txs>>
    BY <1>2 DEF GetFinal, tables
  <2>2. \A f \in finished' : txs[f.tx].status = f.status
    BY <2>1
  <2> QED
    BY <1>1, <2>1, <2>2 DEF AgreeInv, Fresh, Made, Agree, IsOpen, Settled
<1>3. ASSUME NEW f \in finished, Complete(f) \/ CompleteFail(f) PROVE AgreeInv'
  <2>1. finished' = finished \ {f} /\ (StoreOutcome(f) \/ UNCHANGED tables)
    BY <1>3 DEF Complete, CompleteFail
  <2>2. pc' = "idle" \/ (pc # "idle" /\ ids' = ids)
    BY <1>1
  <2> QED
    BY <1>1, <2>1, <2>2, AgreeOutcome, AgreeQuiet
<1> QED
  BY <1>2, <1>3 DEF Completing

LEMMA AgreeStep ==
    ASSUME NoTwins, TypeOK, Control, AgreeInv, [Next]_vars
    PROVE  AgreeInv'
<1>1. CASE UNCHANGED vars
  <2>1. UNCHANGED <<withdraw, txs, signed, watched, finished, pc, ids>>
    BY <1>1 DEF vars, tables, broadcaster, main
  <2> QED
    BY <2>1 DEF AgreeInv, Fresh, Made, Agree, IsOpen, Settled
<1> QED
  BY <1>1, AgreeEnvironment, AgreeMain, AgreeBroadcasting, AgreeConfirming, AgreeCompleting
     DEF Next

\* The two tables agree at every step of the four goroutines, when no two sets of
\* withdrawals are the same payment.
THEOREM TablesAgree == ASSUME NoTwins PROVE Spec => []OneOpenTx
<1>1. Init => AgreeInv
  BY DEF Init, AgreeInv, Fresh, Made, Agree, IsOpen, Settled
<1>2. TypeOK /\ Control /\ AgreeInv /\ [Next]_vars => AgreeInv'
  BY AgreeStep, NoTwins
<1>3. AgreeInv => OneOpenTx
  <2> SUFFICES ASSUME AgreeInv, NEW w \in Withdrawals
               PROVE  IF Settled(w) THEN \E t \in DOMAIN txs : Open(w) = {t} ELSE Open(w) = {}
    BY DEF OneOpenTx, Settled
  <2>1. Open(w) = {t \in DOMAIN txs : IsOpen(t, w)}
    BY DEF Open, IsOpen
  <2>2. CASE Settled(w)
    <3>1. PICK t \in DOMAIN txs : IsOpen(t, w)
      BY <2>2 DEF AgreeInv, Agree
    <3>2. Open(w) = {t}
      BY <2>1, <3>1 DEF AgreeInv, Agree
    <3> QED
      BY <2>2, <3>2
  <2>3. CASE ~Settled(w)
    BY <2>1, <2>3 DEF AgreeInv, Agree
  <2> QED
    BY <2>2, <2>3
<1> QED
  BY <1>1, <1>2, <1>3, ControlAlways, PTL DEF Spec

-----------------------------------------------------------------------------
(* The book. *)

Ongoing == HashesOf(DOMAIN txs \ HasStatus({"Success", "Failed"}))
Paid == HashesOf(HasStatus({"Success"}))
OnChain == HashesOf(mined \intersect DOMAIN txs)

\* What L1 knows has a row, and what has a row was requested.
Known ==
    /\ pool \subseteq DOMAIN txs /\ mined \subseteq DOMAIN txs
    /\ \A t \in DOMAIN txs : \A w \in txs[t].hashes : withdraw[w] # "Absent"

BookInv == TypeOK /\ Control /\ PaidInv /\ AgreeInv /\ Known

LEMMA Members ==
    /\ \A S : S \in Ongoing <=> \E t \in DOMAIN txs :
                   S = txs[t].hashes /\ txs[t].status \notin {"Success", "Failed"}
    /\ \A S : S \in Paid <=> \E t \in DOMAIN txs :
                   S = txs[t].hashes /\ txs[t].status = "Success"
    /\ \A S : S \in OnChain <=> \E t \in DOMAIN txs :
                   S = txs[t].hashes /\ t \in mined
BY DEF Ongoing, Paid, OnChain, HashesOf, HasStatus

LEMMA MembersNext ==
    /\ \A S : S \in Ongoing' <=> \E t \in DOMAIN txs' :
                   S = txs'[t].hashes /\ txs'[t].status \notin {"Success", "Failed"}
    /\ \A S : S \in Paid' <=> \E t \in DOMAIN txs' :
                   S = txs'[t].hashes /\ txs'[t].status = "Success"
    /\ \A S : S \in OnChain' <=> \E t \in DOMAIN txs' :
                   S = txs'[t].hashes /\ t \in mined'
BY DEF Ongoing, Paid, OnChain, HashesOf, HasStatus

LEMMA BookQuiet ==
    ASSUME UNCHANGED tables, UNCHANGED mined
    PROVE  UNCHANGED Book!book
BY DEF Book!book, HashesOf, HasStatus, tables

\* A status that does not end the transaction.
LEMMA BookStatus ==
    ASSUME TypeOK, NEW t \in DOMAIN txs, NEW s \in TxStatus, SetTxStatus(t, s),
           s \notin {"Success", "Failed"}, txs[t].status \notin {"Success", "Failed"},
           UNCHANGED <<withdraw, mined>>
    PROVE  UNCHANGED Book!book
<1>1. /\ DOMAIN txs' = DOMAIN txs
      /\ \A u \in DOMAIN txs :
            /\ txs'[u].hashes = txs[u].hashes
            /\ txs'[u].status = IF u = t THEN s ELSE txs[u].status
  BY StatusFacts
<1>2. \A S : S \in Ongoing' <=> S \in Ongoing
  BY <1>1, Members, MembersNext
<1>3. \A S : S \in Paid' <=> S \in Paid
  BY <1>1, Members, MembersNext
<1>4. \A S : S \in OnChain' <=> S \in OnChain
  BY <1>1, Members, MembersNext
<1>5. Ongoing' = Ongoing /\ Paid' = Paid /\ OnChain' = OnChain
  BY <1>2, <1>3, <1>4
<1> QED
  BY <1>5 DEF Book!book, Ongoing, Paid, OnChain

\* The withdrawals of the constructed transaction become one payment.
LEMMA BookStore ==
    ASSUME NoTwins, BookInv, pc = "submit", StoreTx, UNCHANGED mined
    PROVE  Book!Submit(ids)
<1>1. /\ tx \in TxId /\ ids # {} /\ ids \subseteq Withdrawals
      /\ \A w \in ids : withdraw[w] = "Pending"
  BY DEF BookInv, Control, AgreeInv, Fresh, TypeOK
<1>2. ASSUME tx \in DOMAIN txs PROVE txs[tx].hashes = ids /\ txs[tx].status = "Failed"
  BY <1>2, MadeBefore DEF BookInv
<1>3. /\ DOMAIN txs' = DOMAIN txs \union {tx}
      /\ \A u \in DOMAIN txs : u # tx => txs'[u] = txs[u]
      /\ txs'[tx].status = "Pending"
      /\ txs'[tx].hashes = ids
  BY <1>1, <1>2, StoreFacts DEF BookInv
<1>4. withdraw' = Book!Marked(ids, "SubmitTxMsg")
  BY DEF StoreTx, Book!Marked
<1>5. Ongoing' = Ongoing \union {ids}
  <2>1. \A S : S \in Ongoing' <=> S \in Ongoing \/ S = ids
    BY <1>2, <1>3, Members, MembersNext
  <2> QED
    BY <2>1
<1>6. Paid' = Paid
  <2>1. \A S : S \in Paid' <=> S \in Paid
    BY <1>2, <1>3, Members, MembersNext
  <2> QED
    BY <2>1
<1>7. OnChain' = OnChain
  <2>1. \A S : S \in OnChain' <=> S \in OnChain
    BY <1>2, <1>3, Members, MembersNext DEF BookInv, Known
  <2> QED
    BY <2>1
<1> QED
  BY <1>1, <1>4, <1>5, <1>6, <1>7 DEF Book!Submit, Ongoing, Paid, OnChain

\* The withdrawals of a transaction that ended are paid, or wait again.
LEMMA BookOutcome ==
    ASSUME BookInv, NEW f \in finished, StoreOutcome(f), UNCHANGED mined
    PROVE  Book!Pay(txs[f.tx].hashes) \/ Book!GiveBack(txs[f.tx].hashes)
<1> DEFINE t == f.tx
           group == txs[t].hashes
<1>1. /\ t \in DOMAIN txs /\ txs[t].status = f.status
      /\ f.status \in {"Confirmed", "BroadcastFailed"}
      /\ f.status = "Confirmed" => t \in mined
  BY DEF BookInv, Control, AgreeInv, Fresh, TypeOK, PaidInv, ConfirmedIsMined
<1>2. /\ DOMAIN txs' = DOMAIN txs
      /\ \A u \in DOMAIN txs :
            /\ txs'[u].hashes = txs[u].hashes
            /\ txs'[u].status =
                 IF u # t THEN txs[u].status
                 ELSE IF f.status = "Confirmed" THEN "Success" ELSE "Failed"
  BY OutcomeFacts DEF BookInv
<1>3. withdraw' = Book!Marked(group, IF f.status = "Confirmed" THEN "Success" ELSE "Pending")
  BY DEF StoreOutcome, Book!Marked
<1>4. group \in Ongoing /\ (f.status = "Confirmed" => group \in OnChain)
  BY <1>1, Members
<1> HIDE DEF t
<1>5. \A u \in DOMAIN txs :
         txs[u].hashes = group /\ txs[u].status \notin {"Success", "Failed"} => u = t
  <2>1. PICK w \in group : w \in Withdrawals
    BY <1>1 DEF BookInv, AgreeInv, Made, TypeOK
  <2> QED
    BY <1>1, <2>1 DEF BookInv, AgreeInv, Agree, IsOpen
<1> HIDE DEF group
<1>6. Ongoing' = Ongoing \ {group}
  <2>1. \A S : S \in Ongoing' <=> S \in Ongoing /\ S # group
    <3>1. txs[t].hashes = group
      BY DEF group
    <3> QED
      BY <1>1, <1>2, <1>5, <3>1, Members, MembersNext
  <2> QED
    BY <2>1
<1>7. Paid' = IF f.status = "Confirmed" THEN Paid \union {group} ELSE Paid
  <2>1. \A S : S \in Paid' <=> S \in Paid \/ (f.status = "Confirmed" /\ S = group)
    BY <1>1, <1>2, Members, MembersNext DEF group
  <2> QED
    BY <2>1
<1>8. OnChain' = OnChain
  <2>1. \A S : S \in OnChain' <=> S \in OnChain
    BY <1>2, Members, MembersNext
  <2> QED
    BY <2>1
<1> QED
  BY <1>3, <1>4, <1>6, <1>7, <1>8 DEF Book!Pay, Book!GiveBack, Ongoing, Paid, OnChain, group, t

LEMMA KnownStep ==
    ASSUME BookInv, [Next]_vars
    PROVE  Known'
<1>1. ASSUME UNCHANGED tables, pool' \union mined' \subseteq pool \union mined \union signed
      PROVE  Known'
  BY <1>1 DEF BookInv, Control, Known, tables
<1>2. ASSUME NEW t \in DOMAIN txs, NEW s \in TxStatus, SetTxStatus(t, s),
             UNCHANGED <<withdraw, pool, mined>>
      PROVE  Known'
  BY <1>2, StatusFacts DEF BookInv, Known
<1>3. CASE UNCHANGED vars
  BY <1>1, <1>3 DEF vars, chain
<1>4. ASSUME NEW w \in Withdrawals, Arrive(w) PROVE Known'
  BY <1>4 DEF Arrive, BookInv, Known, TypeOK, chain
<1>5. ASSUME NEW t \in DOMAIN txs, Sign(t) PROVE Known'
  BY <1>2, <1>5 DEF Sign, TxStatus, chain
<1>6. ASSUME NEW t \in pool, Mine(t) PROVE Known'
  BY <1>1, <1>6 DEF Mine
<1>7. CASE Crash
  BY <1>1, <1>7 DEF Crash, chain
<1>8. CASE MainLoop
  <2>1. UNCHANGED <<pool, mined>>
    BY <1>8 DEF MainLoop, GetPending, FirstPage, NextPage, ConstructFail, Submit, SubmitFail, chain
  <2>2. CASE UNCHANGED tables
    BY <1>1, <2>1, <2>2
  <2>3. CASE StoreTx /\ pc = "submit"
    <3>1. tx \in TxId /\ ids \subseteq Withdrawals
      BY <2>3 DEF BookInv, Control, TypeOK
    <3>2. \A u \in DOMAIN txs' : txs'[u].hashes = IF u \in DOMAIN txs THEN txs[u].hashes ELSE ids
      BY <2>3, <3>1, StoreFacts DEF BookInv
    <3>3. \A w \in Withdrawals : w \in ids \/ withdraw[w] # "Absent" => withdraw'[w] # "Absent"
      BY <2>3, <3>1, StoreFacts DEF BookInv
    <3>4. \A u \in DOMAIN txs : txs[u].hashes \subseteq Withdrawals
      BY DEF BookInv, TypeOK
    <3> QED
      BY <2>1, <2>3, <3>1, <3>2, <3>3, <3>4, StoreFacts DEF BookInv, Known
  <2> QED
    BY <1>8, <2>2, <2>3
       DEF MainLoop, GetPending, FirstPage, NextPage, ConstructFail, Submit, SubmitFail
<1>9. CASE Broadcasting
  <2>1. CASE Record
    <3>1. sent.tx \in DOMAIN txs /\ sent.status \in TxStatus
      BY <2>1 DEF Record, BookInv, TypeOK, Control, TxStatus
    <3> QED
      BY <1>2, <2>1, <3>1 DEF Record, chain
  <2>2. ASSUME NEW t \in signed, Broadcast(t) \/ Refuse(t) \/ BroadcastLost(t) PROVE Known'
    BY <1>1, <2>2 DEF Broadcast, Refuse, BroadcastLost, Send
  <2>3. CASE GetSigned \/ Panic \/ RecordFail
    BY <1>1, <2>3 DEF GetSigned, Panic, RecordFail, chain
  <2> QED
    BY <1>9, <2>1, <2>2, <2>3 DEF Broadcasting
<1>10. CASE Confirming
  <2>1. ASSUME NEW t \in watched, SetTxStatus(t, "Confirmed") PROVE Known'
    BY <1>2, <1>10, <2>1
       DEF BookInv, Control, TxStatus, Confirming, GetBroadcast, Confirm, ConfirmFail, tables, chain
  <2>2. CASE UNCHANGED tables
    BY <1>1, <1>10, <2>2 DEF Confirming, GetBroadcast, Confirm, ConfirmFail, chain
  <2> QED
    BY <1>10, <2>1, <2>2 DEF Confirming, GetBroadcast, Confirm, ConfirmFail, tables
<1>11. CASE Completing
  <2>1. UNCHANGED <<pool, mined>>
    BY <1>11 DEF Completing, GetFinal, Complete, CompleteFail, chain
  <2>2. ASSUME NEW f \in finished, StoreOutcome(f) PROVE Known'
    BY <2>1, <2>2, OutcomeFacts DEF BookInv, Known, TypeOK
  <2>3. CASE UNCHANGED tables
    BY <1>1, <2>1, <2>3
  <2> QED
    BY <1>11, <2>2, <2>3 DEF Completing, GetFinal, Complete, CompleteFail
<1> QED
  BY <1>3, <1>4, <1>5, <1>6, <1>7, <1>8, <1>9, <1>10, <1>11 DEF Next

LEMMA BookInvInit == Init => BookInv
BY InitStep
   DEF Init, BookInv, PaidInv, ConfirmedIsMined, PaidByRow, AgreeInv, Fresh, Made, Agree,
       IsOpen, Settled, Known

LEMMA BookInvStep == ASSUME NoTwins, BookInv, [Next]_vars PROVE BookInv'
BY TypeStep, PaidStep, AgreeStep, KnownStep DEF BookInv

\* Every step is a step of the book, or none.
LEMMA BookStep == ASSUME NoTwins, BookInv, [Next]_vars PROVE [Book!Next]_(Book!book)
<1>1. ASSUME UNCHANGED tables, UNCHANGED mined PROVE UNCHANGED Book!book
  BY <1>1, BookQuiet
<1>2. ASSUME NEW S \in SUBSET Withdrawals,
             Book!Submit(S) \/ Book!Settle(S) \/ Book!Pay(S) \/ Book!GiveBack(S)
      PROVE  Book!Next
  BY <1>2 DEF Book!Next
<1>3. CASE UNCHANGED vars
  BY <1>1, <1>3 DEF vars, chain
<1>4. ASSUME NEW w \in Withdrawals, Arrive(w) PROVE Book!Next
  <2>1. withdraw' = Book!Marked({w}, "Pending")
    BY <1>4 DEF Arrive, Book!Marked, BookInv, TypeOK
  <2>2. Book!Request(w)
    BY <1>4, <2>1 DEF Arrive, Book!Request, chain, HashesOf, HasStatus
  <2> QED
    BY <2>2 DEF Book!Next
<1>5. ASSUME NEW t \in DOMAIN txs, Sign(t) PROVE UNCHANGED Book!book
  <2>1. /\ UNCHANGED <<withdraw, mined>> /\ txs[t].status = "Pending"
        /\ SetTxStatus(t, "SignatureCompleted") /\ "SignatureCompleted" \in TxStatus
    BY <1>5 DEF Sign, TxStatus, chain
  <2> QED
    BY <2>1, BookStatus DEF BookInv
<1>6. ASSUME NEW t \in pool, Mine(t) PROVE Book!Next
  <2> DEFINE group == txs[t].hashes
  <2>1. /\ t \in DOMAIN txs /\ UNCHANGED tables /\ mined' = mined \union {t}
        /\ group \in SUBSET Withdrawals /\ group # {} /\ \A w \in group : withdraw[w] # "Absent"
    BY <1>6 DEF Mine, BookInv, Known, TypeOK, AgreeInv, Made
  <2>2. OnChain' = OnChain \union {group}
    BY <2>1 DEF OnChain, HashesOf, tables
  <2>3. Ongoing' = Ongoing /\ Paid' = Paid
    BY <2>1 DEF Ongoing, Paid, HashesOf, HasStatus, tables
  <2>4. Book!Settle(group)
    BY <2>1, <2>2, <2>3 DEF Book!Settle, Ongoing, Paid, OnChain, tables
  <2> QED
    BY <1>2, <2>1, <2>4
<1>7. CASE Crash
  BY <1>1, <1>7 DEF Crash, chain
<1>8. CASE MainLoop
  <2>1. UNCHANGED mined
    BY <1>8 DEF MainLoop, GetPending, FirstPage, NextPage, ConstructFail, Submit, SubmitFail, chain
  <2>2. CASE UNCHANGED tables
    BY <1>1, <2>1, <2>2
  <2>3. CASE StoreTx /\ pc = "submit"
    <3>1. Book!Submit(ids) /\ ids \in SUBSET Withdrawals
      BY <2>1, <2>3, BookStore DEF BookInv, TypeOK
    <3> QED
      BY <1>2, <3>1
  <2> QED
    BY <1>8, <2>2, <2>3
       DEF MainLoop, GetPending, FirstPage, NextPage, ConstructFail, Submit, SubmitFail
<1>9. CASE Broadcasting
  <2>1. UNCHANGED mined
    BY <1>9 DEF Broadcasting, GetSigned, Panic, Record, RecordFail, Broadcast, Refuse,
               BroadcastLost, Send, chain
  <2>2. CASE Record
    <3>1. /\ sent.tx \in DOMAIN txs /\ sent.status \in {"BroadcastSuccess", "BroadcastFailed"}
          /\ txs[sent.tx].status = "SignatureCompleted"
      BY <2>2 DEF Record, BookInv, TypeOK, Control, AgreeInv, Fresh
    <3>2. UNCHANGED withdraw /\ SetTxStatus(sent.tx, sent.status) /\ sent.status \in TxStatus
      BY <2>2, <3>1 DEF Record, TxStatus
    <3> QED
      BY <2>1, <3>1, <3>2, BookStatus DEF BookInv
  <2>3. CASE UNCHANGED tables
    BY <1>1, <2>1, <2>3
  <2> QED
    BY <1>9, <2>2, <2>3
       DEF Broadcasting, GetSigned, Panic, RecordFail, Broadcast, Refuse, BroadcastLost, Send
<1>10. CASE Confirming
  <2>1. UNCHANGED <<withdraw, mined>>
    BY <1>10 DEF Confirming, GetBroadcast, Confirm, ConfirmFail, chain, tables
  <2>2. ASSUME NEW t \in watched, SetTxStatus(t, "Confirmed") PROVE UNCHANGED Book!book
    <3>1. /\ t \in DOMAIN txs /\ txs[t].status = "BroadcastSuccess"
          /\ "Confirmed" \in TxStatus
      BY DEF BookInv, Control, AgreeInv, Fresh, TxStatus
    <3> QED
      BY <2>1, <2>2, <3>1, BookStatus DEF BookInv
  <2>3. CASE UNCHANGED tables
    BY <1>1, <2>1, <2>3
  <2> QED
    BY <1>10, <2>1, <2>2, <2>3 DEF Confirming, GetBroadcast, Confirm, ConfirmFail, tables
<1>11. CASE Completing
  <2>1. UNCHANGED mined
    BY <1>11 DEF Completing, GetFinal, Complete, CompleteFail, chain
  <2>2. ASSUME NEW f \in finished, StoreOutcome(f) PROVE Book!Next
    <3>1. txs[f.tx].hashes \in SUBSET Withdrawals
      BY DEF BookInv, Control, TypeOK
    <3> QED
      BY <1>2, <2>1, <2>2, <3>1, BookOutcome
  <2>3. CASE UNCHANGED tables
    BY <1>1, <2>1, <2>3
  <2> QED
    BY <1>11, <2>2, <2>3 DEF Completing, GetFinal, Complete, CompleteFail
<1> QED
  BY <1>3, <1>4, <1>5, <1>6, <1>7, <1>8, <1>9, <1>10, <1>11 DEF Next

\* The withdraw service keeps the book of WithdrawBook, when no two sets of withdrawals
\* are the same payment: payments are settled or given back as a whole, a withdrawal is in
\* one at a time, and one that is reported as paid is left alone.
THEOREM ServiceKeepsBook == ASSUME NoTwins PROVE Spec => KeepsBook
<1>1. Init => BookInv
  BY BookInvInit
<1>2. Init => Book!Init
  BY DEF Init, Book!Init, HashesOf, HasStatus
<1>3. BookInv /\ [Next]_vars => BookInv'
  BY BookInvStep, NoTwins
<1>4. BookInv /\ [Next]_vars => [Book!Next]_(Book!book)
  BY BookStep, NoTwins
<1> QED
  BY <1>1, <1>2, <1>3, <1>4, PTL DEF Spec, KeepsBook, Book!Spec

\* Payments under way do not share a withdrawal, and theirs are all submitted.
Apart ==
    \A S \in Ongoing :
        /\ \A w \in S : withdraw[w] = "SubmitTxMsg"
        /\ \A T \in Ongoing : S \intersect T # {} => S = T

PaidStays == \A w \in Withdrawals : withdraw[w] = "Success" => withdraw'[w] = "Success"

\* What follows from the book alone.
LEMMA BookKeepsApart ==
    ASSUME Apart, Ongoing \subseteq SUBSET Withdrawals, [Book!Next]_(Book!book)
    PROVE  Apart' /\ PaidStays
<1>1. CASE UNCHANGED Book!book
  <2>1. withdraw' = withdraw /\ Ongoing' = Ongoing
    BY <1>1 DEF Book!book, Ongoing
  <2> QED
    BY <2>1 DEF Apart, PaidStays
<1>2. ASSUME NEW w \in Withdrawals, Book!Request(w) PROVE Apart' /\ PaidStays
  <2>1. /\ withdraw[w] = "Absent" /\ Ongoing' = Ongoing
        /\ withdraw' = [v \in Withdrawals |-> IF v \in {w} THEN "Pending" ELSE withdraw[v]]
    BY <1>2 DEF Book!Request, Book!Marked, Ongoing
  <2> QED
    BY <2>1 DEF Apart, PaidStays
<1>3. ASSUME NEW S \in SUBSET Withdrawals, Book!Submit(S) PROVE Apart' /\ PaidStays
  <2>1. /\ \A w \in S : withdraw[w] = "Pending"
        /\ Ongoing' = Ongoing \union {S}
        /\ withdraw' = [v \in Withdrawals |-> IF v \in S THEN "SubmitTxMsg" ELSE withdraw[v]]
    BY <1>3 DEF Book!Submit, Book!Marked, Ongoing
  <2>2. \A T \in Ongoing : S \intersect T = {}
    BY <2>1 DEF Apart
  <2>3. Apart'
    BY <2>1, <2>2 DEF Apart
  <2>4. PaidStays
    BY <2>1 DEF PaidStays
  <2> QED
    BY <2>3, <2>4
<1>4. ASSUME NEW S \in SUBSET Withdrawals, Book!Settle(S) PROVE Apart' /\ PaidStays
  <2>1. withdraw' = withdraw /\ Ongoing' = Ongoing
    BY <1>4 DEF Book!Settle, Ongoing
  <2> QED
    BY <2>1 DEF Apart, PaidStays
<1>5. ASSUME NEW S \in SUBSET Withdrawals, Book!Pay(S) \/ Book!GiveBack(S)
      PROVE  Apart' /\ PaidStays
  <2>1. S \in Ongoing /\ Ongoing' = Ongoing \ {S}
    BY <1>5 DEF Book!Pay, Book!GiveBack, Ongoing
  <2>2. PICK s \in {"Success", "Pending"} :
          withdraw' = [v \in Withdrawals |-> IF v \in S THEN s ELSE withdraw[v]]
    BY <1>5 DEF Book!Pay, Book!GiveBack, Book!Marked
  <2>3. Apart'
    BY <2>1, <2>2 DEF Apart
  <2>4. PaidStays
    BY <2>1, <2>2 DEF PaidStays, Apart
  <2> QED
    BY <2>3, <2>4
<1> QED
  BY <1>1, <1>2, <1>3, <1>4, <1>5 DEF Book!Next

\* A withdrawal that was reported as paid is never waiting again: no list, however old,
\* brings it into another transaction.
THEOREM PaidForEver ==
    ASSUME NoTwins, NEW w \in Withdrawals
    PROVE  Spec => [](withdraw[w] = "Success" => [](withdraw[w] = "Success"))
<1> DEFINE IsPaid == withdraw[w] = "Success"
<1>1. Init => BookInv /\ Apart
  <2>1. Init => BookInv
    BY BookInvInit
  <2>2. Init => Apart
    BY DEF Init, Apart, Ongoing, HashesOf, HasStatus
  <2> QED
    BY <2>1, <2>2
<1>2. BookInv => Ongoing \subseteq SUBSET Withdrawals
  BY Members DEF BookInv, TypeOK
<1>3. BookInv /\ Apart /\ [Next]_vars => (BookInv /\ Apart)' /\ (IsPaid => IsPaid')
  BY <1>2, NoTwins, BookInvStep, BookStep, BookKeepsApart DEF PaidStays
<1> QED
  BY <1>1, <1>3, PTL DEF Spec
=============================================================================
