------------------------ MODULE DepositServiceProofs ------------------------
(***************************************************************************)
(* Proofs about DepositService, for all deposits, keys and limits, every   *)
(* kind and number of faults and every interleaving of the loop with the   *)
(* goroutines it started.                                                  *)
(***************************************************************************)
EXTENDS DepositService, TLAPS

\* What the loop has at hand at each of its calls.
Control ==
    /\ job = None <=> pc \in {"down", "sleep", "pick"}
    /\ pc \in {"send", "record", "await"} => tx \in Tx /\ tx.dep = job.dep
    /\ pc = "failed" => err # "none"

\* A mined transaction uses up its nonce, and a row names a transaction of its deposit.
Named ==
    /\ \A t \in mined : t.nonce < account[t.from]
    /\ \A d \in Deposits : row[d].hash # None => row[d].hash.dep = d

\* The hash in a snapshot of a row is the one of the row until the loop replaces
\* it itself, and no row with a final status is in a list.
Snapshots ==
    /\ \A s \in batch : s.row.status \notin Final
    /\ \A s \in batch : (job # None /\ s.dep = job.dep) \/ s.row.hash = row[s.dep].hash
    /\ job # None => job.row.status \notin Final
    /\ pc \in {"lookup", "confirm", "nonce", "send", "record", "failed"} =>
          job.row.hash = row[job.dep].hash
    /\ pc = "await" => row[job.dep].hash = tx /\ row[job.dep].status \notin Early

\* The loop waits as long as the goroutine it started, so that a goroutine it no
\* longer listens to has its verdict already.  A verdict that becomes a final status
\* is true of the transaction the row names.
Waits ==
    /\ \A w \in waiters : w.verdict = "waiting" => ~w.late
    /\ \A w \in waiters : ~w.late => pc = "await" /\ w.tx = tx
    /\ \A w, u \in waiters : ~w.late /\ ~u.late => w = u
    /\ \A w \in waiters : w.verdict \in Final =>
          /\ w.tx \in mined /\ w.verdict = ReceiptStatus(w.tx)
          /\ row[w.tx.dep].hash = w.tx

\* While such a verdict is not written, the deposit is not handled again: it is in
\* none of the lists that would send for it, and the look at its row finds the receipt.
NoRival ==
    \A w \in waiters : w.verdict \in Final =>
        /\ row[w.tx.dep].status \notin Early
        /\ job # None /\ job.dep = w.tx.dep => pc = "await"
        /\ mode # "unconfirmed" =>
              \A s \in batch : s.dep = w.tx.dep =>
                  pc = "await" /\ job # None /\ job.dep = w.tx.dep

StatusInv == Named /\ Snapshots /\ Waits /\ NoRival /\ StatusTrue
IInv == Control /\ StatusInv

-----------------------------------------------------------------------------
(* The writes. *)

\* A handler returns.
LEMMA ReturnFacts ==
    ASSUME NEW d, NEW ok, Return(d, ok)
    PROVE  /\ pc' \in {"sleep", "pick"} /\ batch' \subseteq batch
           /\ pc' = "pick" => \A s \in batch' : s.dep # d
           /\ pc' = "sleep" => batch' = {}
           /\ job' = None /\ old' = None /\ reset' = FALSE /\ tx' = None /\ err' = "none"
           /\ mode' = mode
BY DEF Return

\* A status is written into one row.
LEMMA SetStatusFacts ==
    ASSUME TypeOK, NEW d \in Deposits, NEW st \in Statuses, SetStatus(d, st)
    PROVE  /\ row' \in [Deposits -> Row]
           /\ \A e \in Deposits : row'[e].hash = row[e].hash
           /\ \A e \in Deposits : row'[e].status = IF e = d THEN st ELSE row[e].status
BY DEF TypeOK, SetStatus, Row

\* The status after an error is one of the code's.
LEMMA ErrorStatusType ==
    ASSUME TypeOK, job # None, err # "none", NEW hasReceipt \in BOOLEAN
    PROVE  ErrorStatus(hasReceipt) \in Statuses
<1>1. job.row.status \in Statuses
  BY DEF TypeOK, Snapshot, Row
<1>2. err \in {"exist", "balance", "gas", "known", "low", "other"}
  BY DEF TypeOK, ErrorKinds
<1> QED
  BY <1>1, <1>2 DEF ErrorStatus, ReceiptStatus, Statuses

\* An error is written into the row of the job.
LEMMA ErrorRowFacts ==
    ASSUME TypeOK, job # None, err # "none", NEW hasReceipt \in BOOLEAN,
           row' = ErrorRow(hasReceipt)
    PROVE  /\ row' \in [Deposits -> Row]
           /\ \A e \in Deposits : row'[e].hash = row[e].hash
           /\ \A e \in Deposits :
                 row'[e].status = IF e = job.dep THEN ErrorStatus(hasReceipt)
                                  ELSE row[e].status
<1> DEFINE st == ErrorStatus(hasReceipt)
           again == IF err = "other" THEN job.row.retry + 1 ELSE row[job.dep].retry
<1>1. st \in Statuses
  BY ErrorStatusType
<1>2. job.dep \in Deposits /\ job.row.retry \in Nat
  BY DEF TypeOK, Snapshot, Row
<1>3. row \in [Deposits -> Row]
  BY DEF TypeOK
<1>4. again \in Nat
  BY <1>2, <1>3 DEF Row
<1>5. row' = [row EXCEPT ![job.dep] = [[row[job.dep] EXCEPT !.status = st] EXCEPT !.retry = again]]
  BY <1>2, <1>3 DEF ErrorRow, Row
<1> HIDE DEF st, again
<1>6. row' \in [Deposits -> Row]
  BY <1>1, <1>2, <1>3, <1>4, <1>5 DEF Row
<1>7. \A e \in Deposits : row'[e].hash = row[e].hash
  BY <1>2, <1>3, <1>5 DEF Row
<1>8. \A e \in Deposits : row'[e].status = IF e = job.dep THEN st ELSE row[e].status
  BY <1>2, <1>3, <1>5 DEF Row
<1> QED
  BY <1>6, <1>7, <1>8 DEF st

\* The transaction that was sent is written into the row of the job.
LEMMA RecordFacts ==
    ASSUME TypeOK, job # None, tx \in Tx, row' = RecordedRow
    PROVE  /\ row' \in [Deposits -> Row]
           /\ \A e \in Deposits : row'[e].hash = IF e = job.dep THEN tx ELSE row[e].hash
           /\ \A e \in Deposits :
                 row'[e].status = IF e = job.dep THEN "WaitMined" ELSE row[e].status
<1>1. job.dep \in Deposits
  BY DEF TypeOK, Snapshot
<1> QED
  BY <1>1 DEF TypeOK, RecordedRow, Row, Statuses

\* A list has rows as they are, in the statuses it selects.
LEMMA QueryFacts ==
    ASSUME TypeOK, NEW m, NEW s \in Query(m)
    PROVE  s \in Snapshot /\ s.row = row[s.dep] /\ s.row.status \in Selected(m)
<1>1. PICK d \in IF m = "unconfirmed" THEN Wanted(m) ELSE WithinLimit(Wanted(m)) :
         s = [dep |-> d, row |-> row[d]]
  BY DEF Query
<1>2. d \in Wanted(m)
  BY DEF WithinLimit
<1>3. d \in Deposits /\ row[d].status \in Selected(m)
  BY <1>2 DEF Wanted
<1> QED
  BY <1>1, <1>3 DEF TypeOK, Snapshot

-----------------------------------------------------------------------------
(* Type correctness. *)

LEMMA InitType == Init => TypeOK /\ Control
<1> SUFFICES ASSUME Init PROVE TypeOK /\ Control
  OBVIOUS
<1>1. ChainTypeOK
  BY L2Assumption DEF Init, ChainInit, ChainTypeOK
<1>2. row \in [Deposits -> Row]
  BY DEF Init, Row, Statuses
<1>3. key \in Keys /\ registered \subseteq Deposits
  BY ServiceAssumption DEF Init
<1> QED
  BY <1>1, <1>2, <1>3 DEF Init, TypeOK, Control, ErrorKinds

LEMMA FaultType == ASSUME TypeOK, NEW kind, Fault(kind) PROVE faults' \in Nat
BY DEF TypeOK, Fault

\* A step at which the handler of a deposit returns, and at most its row is written.
LEMMA ReturnType ==
    ASSUME TypeOK, NEW d, NEW ok, Return(d, ok), row' \in [Deposits -> Row],
           UNCHANGED <<chain, registered, key>>, waiters' \subseteq Waiter, faults' \in Nat
    PROVE  TypeOK' /\ Control'
<1>1. batch' \subseteq Snapshot /\ pc' \in {"sleep", "pick"}
  BY ReturnFacts DEF TypeOK
<1> QED
  BY <1>1, ReturnFacts DEF TypeOK, Control, chain, ChainTypeOK, ErrorKinds

\* A step that leaves the goroutine of the loop alone.
LEMMA MainKept ==
    ASSUME TypeOK, Control, UNCHANGED main, ChainTypeOK', row' \in [Deposits -> Row],
           registered' \subseteq Deposits, key' \in Keys, waiters' \subseteq Waiter,
           faults' \in Nat
    PROVE  TypeOK' /\ Control'
BY DEF main, TypeOK, Control

LEMMA ListsType ==
    ASSUME TypeOK, Control, BeginCycle \/ EndList \/ EndListFail \/ EndCycle
    PROVE  TypeOK' /\ Control'
<1>1. \A m : Query(m) \subseteq Snapshot
  BY QueryFacts
<1>2. NextList \in {"pending", "aa"}
  BY DEF NextList
<1>3. faults' \in Nat
  BY FaultType DEF BeginCycle, EndList, EndListFail, EndCycle, TypeOK
<1>4. CASE BeginCycle
  BY <1>1, <1>3, <1>4 DEF BeginCycle, TypeOK, Control, chain, ChainTypeOK
<1>5. CASE EndList
  BY <1>1, <1>2, <1>3, <1>5 DEF EndList, TypeOK, Control, chain, ChainTypeOK
<1>6. CASE EndListFail
  BY <1>3, <1>6 DEF EndListFail, TypeOK, Control, chain, ChainTypeOK
<1>7. CASE EndCycle
  BY <1>3, <1>7 DEF EndCycle, TypeOK, Control, chain, ChainTypeOK
<1> QED
  BY <1>4, <1>5, <1>6, <1>7

LEMMA UnconfirmedType ==
    ASSUME TypeOK, Control, HandleUnconfirmedDeposit
    PROVE  TypeOK' /\ Control'
<1>1. ASSUME NEW s \in batch, ReceiptFound(s) PROVE TypeOK' /\ Control'
  <2>1. s.dep \in Deposits /\ ReceiptStatus(s.row.hash) \in Statuses
    BY DEF TypeOK, Snapshot, ReceiptStatus, Statuses
  <2>2. row' \in [Deposits -> Row]
    BY <1>1, <2>1, SetStatusFacts DEF ReceiptFound, MaybeSetStatus, TypeOK
  <2>3. faults' \in Nat
    BY <1>1, FaultType DEF ReceiptFound, TypeOK
  <2>4. /\ Return(s.dep, TRUE) \/ Return(s.dep, FALSE)
        /\ UNCHANGED <<chain, registered, key, waiters>>
    BY <1>1 DEF ReceiptFound
  <2> QED
    BY <2>2, <2>3, <2>4, ReturnType DEF TypeOK
<1>2. ASSUME NEW s \in batch, ReceiptNotFound(s) PROVE TypeOK' /\ Control'
  <2>1. s \in Snapshot /\ s # None
    BY NoneAssumption DEF TypeOK
  <2>2. reset' \in BOOLEAN /\ mode' = "unconfirmed"
    BY <1>2 DEF ReceiptNotFound
  <2> QED
    BY <1>2, <2>1, <2>2 DEF ReceiptNotFound, TypeOK, Control, chain, ChainTypeOK
<1>3. ASSUME NEW s \in batch, ReceiptFail(s) PROVE TypeOK' /\ Control'
  BY <1>3, FaultType, ReturnType DEF ReceiptFail, TypeOK
<1>4. CASE Lookup
  <2>1. old' \in Tx \union {None}
    BY <1>4 DEF Lookup, TypeOK, ChainTypeOK
  <2> QED
    BY <1>4, <2>1 DEF Lookup, TypeOK, Control, chain, ChainTypeOK
<1>5. CASE LookupMined
  BY <1>5, ReturnType DEF LookupMined, TypeOK
<1>6. CASE LookupFail
  BY <1>6, FaultType, ReturnType DEF LookupFail, TypeOK
<1> QED
  BY <1>1, <1>2, <1>3, <1>4, <1>5, <1>6 DEF HandleUnconfirmedDeposit

\* Steps of the handler that go on with the job.
LEMMA JobType ==
    ASSUME TypeOK, Control,
           \/ \E s \in batch : TakeJob(s)
           \/ Confirm \/ PickNonce \/ BumpPrice \/ Send \/ SendLost \/ CallFail
    PROVE  TypeOK' /\ Control'
<1>1. faults' \in Nat
  BY FaultType DEF TakeJob, Confirm, PickNonce, BumpPrice, Send, SendLost, CallFail, TypeOK
<1>2. ASSUME NEW s \in batch, TakeJob(s) PROVE TypeOK' /\ Control'
  <2>1. s \in Snapshot /\ s # None
    BY NoneAssumption DEF TypeOK
  <2> QED
    BY <1>1, <1>2, <2>1 DEF TakeJob, TypeOK, Control, chain, ChainTypeOK
<1>3. ASSUME UNCHANGED <<row, registered, key, mode, batch, job, old, reset, waiters>>,
             NEW kind \in ErrorKinds \ {"none"}, Failed(kind), job # None, ChainTypeOK'
      PROVE  TypeOK' /\ Control'
  BY <1>1, <1>3 DEF Failed, TypeOK, Control
<1>4. ASSUME UNCHANGED <<chain, row, registered, key, mode, batch, job, old, reset, waiters>>,
             NEW n \in Nat, NEW p \in Nat, Sign(n, p), job # None
      PROVE  TypeOK' /\ Control'
  <2>1. tx' \in Tx /\ tx'.dep = job.dep
    BY <1>4 DEF Sign, Tx, TypeOK, Snapshot
  <2> QED
    BY <1>1, <1>4, <2>1 DEF Sign, TypeOK, Control, chain, ChainTypeOK
<1>5. UNCHANGED chain => ChainTypeOK'
  BY DEF TypeOK, chain, ChainTypeOK
<1>6. {"exist", "balance", "gas", "known", "low", "other"} = ErrorKinds \ {"none"}
  BY DEF ErrorKinds
<1>7. CASE Confirm
  <2>1. job # None
    BY <1>7 DEF Confirm, Control
  <2>2. CASE Failed("other")
    BY <1>3, <1>5, <1>6, <1>7, <2>1, <2>2 DEF Confirm
  <2>3. CASE pc' = "nonce" /\ UNCHANGED <<tx, err>>
    BY <1>1, <1>7, <2>1, <2>3 DEF Confirm, TypeOK, Control, chain, ChainTypeOK
  <2> QED
    BY <1>7, <2>2, <2>3 DEF Confirm
<1>8. CASE PickNonce
  <2>1. job # None /\ UNCHANGED <<chain, row, registered, key, mode, batch, job, old, reset, waiters>>
    BY <1>8 DEF PickNonce, Control
  <2>2. CASE Failed("other")
    BY <1>3, <1>5, <1>6, <2>1, <2>2
  <2>3. NonceOf(job.row) \in Nat
    BY <2>1 DEF NonceOf, TypeOK, Snapshot, Row, Tx
  <2>4. ASSUME NEW n \in FirstNonce .. MaxNonce, Sign(n, 1) PROVE TypeOK' /\ Control'
    <3>1. n \in Nat
      BY L2Assumption
    <3> QED
      BY <1>4, <2>1, <2>4, <3>1
  <2>5. CASE Sign(NonceOf(job.row), 1)
    BY <1>4, <2>1, <2>3, <2>5
  <2> QED
    BY <1>8, <2>2, <2>4, <2>5 DEF PickNonce
<1>9. CASE BumpPrice
  <2>1. job # None /\ UNCHANGED <<chain, row, registered, key, mode, batch, job, old, reset, waiters>>
    BY <1>9 DEF BumpPrice, Control
  <2>2. ASSUME NEW kind \in {"exist", "balance", "gas", "other"}, Failed(kind)
        PROVE  TypeOK' /\ Control'
    BY <1>3, <1>5, <1>6, <2>1, <2>2
  <2>3. account[key] \in Nat /\ old \in Tx
    BY <1>9 DEF BumpPrice, TypeOK, ChainTypeOK
  <2>4. \/ \E kind \in {"exist", "balance", "gas", "other"} : Failed(kind)
        \/ Sign(IF reset THEN account[key] ELSE old.nonce, old.price + 1)
    BY <1>9 DEF BumpPrice
  <2>5. CASE Sign(IF reset THEN account[key] ELSE old.nonce, old.price + 1)
    <3>1. (IF reset THEN account[key] ELSE old.nonce) \in Nat /\ old.price + 1 \in Nat
      BY <2>3 DEF Tx
    <3> QED
      BY <1>4, <2>1, <2>5, <3>1
  <2> QED
    BY <2>2, <2>4, <2>5
<1>10. CASE Send \/ SendLost
  <2>1. /\ job # None /\ tx \in Tx /\ pc = "send"
        /\ UNCHANGED <<row, registered, key, mode, batch, job, old, reset, waiters>>
    BY <1>10 DEF Send, SendLost, Control
  <2>2. ChainTypeOK'
    BY <1>5, <1>10, <2>1 DEF Send, SendLost, Accept, TypeOK, ChainTypeOK
  <2>3. CASE \E kind \in {"known", "low", "other"} : Failed(kind)
    BY <1>3, <1>6, <2>1, <2>2, <2>3
  <2>4. CASE pc' = "record" /\ UNCHANGED <<tx, err>>
    BY <1>1, <2>1, <2>2, <2>4 DEF TypeOK, Control
  <2> QED
    BY <1>10, <2>3, <2>4 DEF Send, SendLost
<1>11. CASE CallFail
  BY <1>3, <1>5, <1>6, <1>11 DEF CallFail, Control
<1> QED
  BY <1>2, <1>7, <1>8, <1>9, <1>10, <1>11

\* Steps of the handler that write the row.
LEMMA RecordType ==
    ASSUME TypeOK, Control,
           ConfirmFail \/ Record \/ RecordFail \/ Timeout \/ HandleError \/ HandleErrorFail
    PROVE  TypeOK' /\ Control'
<1>1. faults' \in Nat
  BY FaultType
     DEF ConfirmFail, Record, RecordFail, Timeout, HandleError, HandleErrorFail, TypeOK
<1>2. job # None
  BY DEF ConfirmFail, Record, RecordFail, Timeout, HandleError, HandleErrorFail, Control
<1>3. CASE ConfirmFail
  BY <1>1, <1>3, ReturnType DEF ConfirmFail, TypeOK
<1>4. CASE Record
  <2>1. tx \in Tx
    BY <1>4 DEF Record, Control
  <2>2. row' \in [Deposits -> Row]
    BY <1>2, <1>4, <2>1, RecordFacts DEF Record
  <2>3. waiters' \subseteq Waiter
    <3>1. [tx |-> tx, verdict |-> "waiting", late |-> FALSE] \in Waiter
      BY <2>1 DEF Waiter
    <3> QED
      BY <1>4, <3>1 DEF Record, TypeOK
  <2> QED
    BY <1>1, <1>2, <1>4, <2>2, <2>3 DEF Record, TypeOK, Control, chain, ChainTypeOK
<1>5. CASE RecordFail
  <2>1. tx \in Tx
    BY <1>5 DEF RecordFail, Control
  <2>2. row' \in [Deposits -> Row]
    BY <1>2, <1>5, <2>1, RecordFacts DEF RecordFail, TypeOK
  <2> QED
    BY <1>1, <1>5, <2>2, ReturnType DEF RecordFail, TypeOK
<1>6. CASE Timeout
  <2>1. waiters' \subseteq Waiter
    BY <1>6 DEF Timeout, TypeOK, Waiter
  <2> QED
    BY <1>1, <1>6, <2>1, ReturnType DEF Timeout, TypeOK
<1>7. CASE HandleError \/ HandleErrorFail
  <2>1. err # "none"
    BY <1>7 DEF HandleError, HandleErrorFail, Control
  <2>2. PICK hasReceipt \in BOOLEAN : row' = row \/ row' = ErrorRow(hasReceipt)
    <3>1. IsMined(job.row.hash) \in BOOLEAN /\ FALSE \in BOOLEAN
      BY DEF IsMined
    <3>2. \/ row' = row \/ row' = ErrorRow(FALSE)
          \/ row' = ErrorRow(IsMined(job.row.hash))
      BY <1>7, Zenon DEF HandleError, HandleErrorFail
    <3> QED
      BY <3>1, <3>2, Zenon
  <2>3. row' \in [Deposits -> Row]
    BY <1>2, <2>1, <2>2, ErrorRowFacts DEF TypeOK
  <2> QED
    BY <1>1, <1>7, <2>3, ReturnType DEF HandleError, HandleErrorFail, TypeOK
<1> QED
  BY <1>3, <1>4, <1>5, <1>6, <1>7

LEMMA WaitMinedType ==
    ASSUME TypeOK, Control, WaitMined
    PROVE  TypeOK' /\ Control'
<1>1. PICK w \in waiters : Verdict(w) \/ Write(w) \/ WriteFail(w)
  BY DEF WaitMined
<1>2. w \in Waiter
  BY DEF TypeOK
<1>3. faults' \in Nat /\ UNCHANGED <<chain, registered, key>>
  BY <1>1, FaultType DEF Verdict, Write, WriteFail, TypeOK, Verdicts
<1>4. ChainTypeOK'
  BY <1>3 DEF TypeOK, chain, ChainTypeOK
<1>5. CASE Verdict(w)
  <2>1. waiters' \subseteq Waiter
    BY <1>2, <1>5 DEF Verdict, TypeOK, Waiter
  <2> QED
    BY <1>3, <1>4, <1>5, <2>1, MainKept DEF Verdict, TypeOK
<1>6. CASE Write(w) \/ WriteFail(w)
  <2>1. w.tx.dep \in Deposits /\ w.verdict \in Statuses
    BY <1>2, <1>6 DEF Write, WriteFail, Waiter, Tx, Verdicts, Statuses
  <2>2. row' \in [Deposits -> Row]
    BY <1>6, <2>1, SetStatusFacts DEF Write, WriteFail, MaybeSetStatus, TypeOK
  <2>3. waiters' \subseteq Waiter
    BY <1>6 DEF Write, WriteFail, TypeOK
  <2>4. Return(w.tx.dep, FALSE) \/ UNCHANGED main
    BY <1>6 DEF Write, WriteFail, Report
  <2> QED
    BY <1>3, <1>4, <2>2, <2>3, <2>4, ReturnType, MainKept DEF TypeOK
<1> QED
  BY <1>1, <1>5, <1>6

LEMMA MineType == ASSUME TypeOK, NEW t \in sent, NEW ok, Mine(t, ok) PROVE ChainTypeOK'
BY DEF Mine, TypeOK, ChainTypeOK, Tx

LEMMA EnvironmentType ==
    ASSUME TypeOK, Control, Environment
    PROVE  TypeOK' /\ Control'
<1>1. UNCHANGED chain => ChainTypeOK'
  BY DEF TypeOK, chain, ChainTypeOK
<1>2. ASSUME NEW d \in Deposits, Arrive(d) PROVE TypeOK' /\ Control'
  <2>1. "Pending" \in Statuses
    BY DEF Statuses
  <2> QED
    BY <1>1, <1>2, <2>1, SetStatusFacts, MainKept DEF Arrive, TypeOK
<1>3. ASSUME NEW d \in Deposits, Register(d) PROVE TypeOK' /\ Control'
  BY <1>1, <1>3, MainKept DEF Register, TypeOK
<1>4. CASE MineOne \/ MineOther \/ EvictOne
  <2>1. faults' \in Nat
    BY <1>4, FaultType DEF MineOne, MineOther, EvictOne, TypeOK
  <2>2. ChainTypeOK'
    <3>1. ASSUME NEW t, NEW ok, Mine(t, ok) PROVE ChainTypeOK'
      <4>1. t \in sent
        BY <3>1 DEF Mine
      <4> QED
        BY <3>1, <4>1, MineType
    <3>2. ASSUME NEW t, Evict(t) PROVE ChainTypeOK'
      BY <3>2 DEF Evict, TypeOK, ChainTypeOK
    <3> QED
      BY <1>4, <3>1, <3>2 DEF MineOne, MineOther, EvictOne
  <2> QED
    BY <1>4, <2>1, <2>2, MainKept DEF MineOne, MineOther, EvictOne, TypeOK
<1>5. CASE Crash
  BY <1>1, <1>5, FaultType DEF Crash, TypeOK, Control, ErrorKinds
<1>6. CASE Restart
  BY <1>1, <1>6 DEF Restart, TypeOK, Control
<1>7. CASE RotateKey
  BY <1>1, <1>7, FaultType, MainKept DEF RotateKey, TypeOK
<1> QED
  BY <1>2, <1>3, <1>4, <1>5, <1>6, <1>7 DEF Environment

LEMMA TypeStep == TypeOK /\ Control /\ [Next]_vars => TypeOK' /\ Control'
<1> SUFFICES ASSUME TypeOK, Control, [Next]_vars PROVE TypeOK' /\ Control'
  OBVIOUS
<1>1. CASE UNCHANGED vars
  BY <1>1, MainKept DEF vars, chain, TypeOK, ChainTypeOK
<1>2. CASE Deposit
  BY <1>2, ListsType, UnconfirmedType, JobType, RecordType DEF Deposit, HandleDeposit
<1>3. CASE WaitMined
  BY <1>3, WaitMinedType
<1>4. CASE Environment
  BY <1>4, EnvironmentType
<1> QED
  BY <1>1, <1>2, <1>3, <1>4 DEF Next

\* Type correctness: whatever faults happen, at any place of the loop and of the
\* goroutines, the variables keep the values the code can give them.
THEOREM TypeCorrect == Spec => []TypeOK
<1>1. Init => TypeOK /\ Control
  BY InitType
<1>2. (TypeOK /\ Control) /\ [Next]_vars => (TypeOK /\ Control)'
  BY TypeStep
<1> QED
  BY <1>1, <1>2, PTL DEF Spec

-----------------------------------------------------------------------------
(* A final status is true. *)

LEMMA StatusesApart ==
    /\ Final \intersect Early = {} /\ Verdicts \intersect Early = {}
    /\ "WaitMined" \notin Early /\ "Pending" \in Early
    /\ \A m \in {"unconfirmed", "pending", "aa"} : Selected(m) \intersect Final = {}
    /\ \A m \in {"pending", "aa"} : Selected(m) \subseteq Early
<1>1. /\ Selected("pending") =
             {"Pending", "InsufficientBalance", "FromAccountGasInsufficient"}
      /\ Selected("aa") = {"AAAddressNotFound"}
      /\ Selected("unconfirmed") = {"ContextDeadlineExceeded", "WaitMined",
                                    "WaitMinedFailed", "IsPending", "NonceToLow"}
  BY DEF Selected
<1> HIDE DEF Selected
<1> QED
  BY <1>1 DEF Early, Final, Verdicts

\* Deposits of the records at hand.
LEMMA DepositsOf ==
    ASSUME TypeOK
    PROVE  /\ \A s \in batch : s.dep \in Deposits
           /\ job # None => job.dep \in Deposits
           /\ \A w \in waiters : w.tx \in Tx /\ w.tx # None /\ w.tx.dep \in Deposits
<1>1. \A w \in waiters : w.tx \in Tx
  BY DEF TypeOK, Waiter
<1> QED
  BY <1>1, NoneAssumption DEF TypeOK, Snapshot, Tx

\* A verdict that is still to be written, of a deposit with this hash and status.
Unwritten(w, hash, status) ==
    w.verdict \in Final =>
        /\ w.tx \in mined /\ w.verdict = ReceiptStatus(w.tx)
        /\ hash = w.tx /\ status \notin Early

\* A step at which the handler of deposit d returns.
LEMMA ReturnInv ==
    ASSUME TypeOK, Control, StatusInv, NEW d, NEW ok, Return(d, ok),
           job = None \/ d = job.dep,
           UNCHANGED chain,
           \A e \in Deposits : row'[e].hash # None => row'[e].hash.dep = e,
           \A e \in Deposits : e # d => row'[e].hash = row[e].hash,
           \A u \in waiters' :
               /\ u.late /\ u.verdict # "waiting"
               /\ \E w \in waiters : u.tx = w.tx /\ u.verdict = w.verdict
               /\ Unwritten(u, row'[u.tx.dep].hash, row'[u.tx.dep].status),
           StatusTrue'
    PROVE  StatusInv'
<1>1. /\ UNCHANGED <<account, mined, reverted, mode>>
      /\ pc' \in {"sleep", "pick"} /\ job' = None
      /\ batch' \subseteq batch /\ \A s \in batch' : s.dep # d
  BY ReturnFacts DEF chain
<1>2. Named'
  BY <1>1 DEF StatusInv, Named
<1>3. Snapshots'
  BY <1>1, DepositsOf DEF StatusInv, Snapshots
<1>4. Waits'
  BY <1>1 DEF Waits, ReceiptStatus, Unwritten
<1>5. NoRival'
  <2>1. ASSUME NEW u \in waiters', u.verdict \in Final, mode # "unconfirmed",
               NEW s \in batch', s.dep = u.tx.dep
        PROVE  FALSE
    <3>1. PICK w \in waiters : u.tx = w.tx /\ u.verdict = w.verdict
      OBVIOUS
    <3>2. job # None /\ job.dep = s.dep
      BY <1>1, <2>1, <3>1 DEF StatusInv, NoRival
    <3> QED
      BY <1>1, <2>1, <3>2
  <2> QED
    BY <1>1, <2>1 DEF NoRival, Unwritten
<1> QED
  BY <1>2, <1>3, <1>4, <1>5 DEF StatusInv

\* The goroutines, when the loop does not wait.
LEMMA AllLate ==
    ASSUME StatusInv, pc # "await"
    PROVE  \A w \in waiters :
               /\ w.late /\ w.verdict # "waiting"
               /\ Unwritten(w, row[w.tx.dep].hash, row[w.tx.dep].status)
<1>1. \A w \in waiters : w.late
  BY DEF StatusInv, Waits
<1> QED
  BY <1>1 DEF StatusInv, Waits, NoRival, Unwritten

\* A step at which the handler returns, the hashes stay, and no row goes back to the
\* other lists while a verdict of it is to be written.
LEMMA ReturnKept ==
    ASSUME TypeOK, Control, StatusInv, NEW d, NEW ok, Return(d, ok), pc # "await",
           job = None \/ d = job.dep,
           UNCHANGED <<chain, waiters>>,
           \A e \in Deposits : row'[e].hash = row[e].hash,
           \A e \in Deposits : row'[e].status \in Early =>
               row[e].status \in Early \/ (job # None /\ e = job.dep),
           StatusTrue'
    PROVE  StatusInv'
<1>1. \A e \in Deposits : row'[e].hash # None => row'[e].hash.dep = e
  BY DEF StatusInv, Named
<1>2. \A w \in waiters :
          /\ w.late /\ w.verdict # "waiting"
          /\ Unwritten(w, row'[w.tx.dep].hash, row'[w.tx.dep].status)
  <2>1. ASSUME NEW w \in waiters, w.verdict \in Final
        PROVE  row'[w.tx.dep].status \notin Early
    BY <2>1, DepositsOf DEF StatusInv, NoRival
  <2> QED
    BY <2>1, AllLate, DepositsOf DEF Unwritten
<1> QED
  BY <1>1, <1>2, ReturnInv

\* The status of a receipt is true of its transaction.
LEMMA ReceiptTrue ==
    ASSUME StatusInv, NEW d \in Deposits, row[d].hash \in mined, row[d].hash # None
    PROVE  /\ ReceiptStatus(row[d].hash) = "Success" => row[d].hash \in Mints(d)
           /\ ReceiptStatus(row[d].hash) = "WaitMinedStatusFailed" =>
                 row[d].hash \in reverted
BY DEF StatusInv, Named, ReceiptStatus, Mints

\* One row gets a status, and when it is final it is the one of the receipt.
LEMMA StatusWritten ==
    ASSUME StatusInv, NEW d, NEW st, UNCHANGED chain,
           \A e \in Deposits : row'[e].hash = row[e].hash,
           \A e \in Deposits : row'[e].status = IF e = d THEN st ELSE row[e].status,
           d \in Deposits /\ st \in Final =>
               /\ row[d].hash \in mined /\ row[d].hash # None
               /\ st = ReceiptStatus(row[d].hash)
    PROVE  StatusTrue'
<1>1. \A e \in Deposits : Mints(e)' = Mints(e)
  BY DEF chain, Mints
<1>2. reverted' = reverted
  BY DEF chain
<1>3. ASSUME NEW e \in Deposits
      PROVE  /\ row'[e].status = "Success" => row'[e].hash \in Mints(e)
             /\ row'[e].status = "WaitMinedStatusFailed" => row'[e].hash \in reverted
  <2>1. CASE e = d /\ st \in Final
    BY <1>3, <2>1, ReceiptTrue
  <2>2. CASE e = d /\ st \notin Final
    BY <1>3, <2>2 DEF Final
  <2>3. CASE e # d
    BY <1>3, <2>3 DEF StatusInv, StatusTrue
  <2> QED
    BY <2>1, <2>2, <2>3
<1> QED
  BY <1>1, <1>2, <1>3 DEF StatusTrue

LEMMA NoStatusWritten ==
    ASSUME StatusInv, UNCHANGED <<chain, row>>
    PROVE  StatusTrue'
BY DEF StatusInv, StatusTrue, Mints, chain

LEMMA ListsInv ==
    ASSUME TypeOK, Control, StatusInv, BeginCycle \/ EndList \/ EndListFail \/ EndCycle
    PROVE  StatusInv'
<1>1. /\ UNCHANGED <<chain, account, mined, reverted, row, job, waiters>>
      /\ job = None /\ pc' \in {"sleep", "pick"} /\ pc \in {"sleep", "pick"}
  BY DEF BeginCycle, EndList, EndListFail, EndCycle, Control, chain
<1>2. \/ mode' = "unconfirmed" /\ batch' \in {batch, Query("unconfirmed")}
      \/ batch' = {}
      \/ \E m \in {"pending", "aa"} : batch' = Query(m)
  BY DEF BeginCycle, EndList, EndListFail, EndCycle, NextList
<1>3. \A s \in batch' : s.row.status \notin Final /\ s.row.hash = row[s.dep].hash
  <2>1. CASE batch' = batch
    BY <1>1, <2>1 DEF StatusInv, Snapshots
  <2>2. ASSUME NEW m \in {"unconfirmed", "pending", "aa"}, batch' = Query(m)
        PROVE  \A s \in batch' : s.row.status \notin Final /\ s.row.hash = row[s.dep].hash
    BY <2>2, QueryFacts, StatusesApart
  <2> QED
    BY <1>2, <2>1, <2>2
<1>4. mode' # "unconfirmed" => \A s \in batch' : row[s.dep].status \in Early
  <2>1. ASSUME NEW m \in {"pending", "aa"}, batch' = Query(m)
        PROVE  \A s \in batch' : row[s.dep].status \in Early
    BY <2>1, QueryFacts, StatusesApart
  <2> QED
    BY <1>2, <2>1
<1>5. Named' /\ Snapshots'
  BY <1>1, <1>3 DEF StatusInv, Named, Snapshots
<1>6. Waits'
  BY <1>1 DEF StatusInv, Waits, ReceiptStatus
<1>7. NoRival'
  BY <1>1, <1>4 DEF StatusInv, NoRival
<1> QED
  BY <1>1, <1>5, <1>6, <1>7, NoStatusWritten DEF StatusInv

\* The handler starts with a row of the list, or goes on with its row, when no verdict
\* of its deposit is to be written.
LEMMA GoOn ==
    ASSUME TypeOK, Control, StatusInv,
           UNCHANGED <<account, mined, reverted, row, mode, batch, waiters>>,
           pc \in {"pick", "lookup", "confirm", "nonce", "send"},
           pc' \in {"lookup", "confirm", "nonce", "send", "record", "failed"},
           job' # None,
           IF pc = "pick" THEN job' \in batch ELSE job' = job,
           \A w \in waiters : w.verdict \in Final => w.tx.dep # job'.dep
    PROVE  StatusInv'
<1>1. Named'
  BY DEF StatusInv, Named
<1>2. Snapshots'
  BY DEF StatusInv, Snapshots, Control
<1>3. Waits'
  BY DEF StatusInv, Waits, ReceiptStatus
<1>4. NoRival'
  BY DEF StatusInv, NoRival
<1>5. StatusTrue'
  BY DEF StatusInv, StatusTrue, Mints
<1> QED
  BY <1>1, <1>2, <1>3, <1>4, <1>5 DEF StatusInv

\* The look at a row: a verdict of it that is not written is one of a transaction that
\* was mined, so that the receipt is found.
LEMMA UnconfirmedInv ==
    ASSUME TypeOK, Control, StatusInv, HandleUnconfirmedDeposit
    PROVE  StatusInv'
<1>1. ASSUME NEW s \in batch, ReceiptFound(s) PROVE StatusInv'
  <2>1. /\ pc = "pick" /\ job = None /\ s.dep \in Deposits
        /\ UNCHANGED <<chain, waiters>>
        /\ Return(s.dep, TRUE) \/ Return(s.dep, FALSE)
    BY <1>1, DepositsOf DEF ReceiptFound, Control
  <2>2. s.row.hash = row[s.dep].hash /\ row[s.dep].hash \in mined /\ row[s.dep].hash # None
    BY <1>1, <2>1, NoneAssumption
       DEF ReceiptFound, IsMined, StatusInv, Snapshots, TypeOK, ChainTypeOK
  <2>3. ReceiptStatus(s.row.hash) \in Statuses /\ ReceiptStatus(s.row.hash) \in Final
    BY DEF ReceiptStatus, Statuses, Final
  <2>4. CASE SetStatus(s.dep, ReceiptStatus(s.row.hash))
    <3>1. /\ \A e \in Deposits : row'[e].hash = row[e].hash
          /\ \A e \in Deposits :
                row'[e].status = IF e = s.dep THEN ReceiptStatus(s.row.hash)
                                 ELSE row[e].status
      BY <2>1, <2>3, <2>4, SetStatusFacts
    <3>2. StatusTrue'
      BY <2>1, <2>2, <3>1, StatusWritten
    <3>3. \A e \in Deposits : row'[e].status \in Early => row[e].status \in Early
      BY <2>3, <3>1, StatusesApart
    <3> QED
      BY <2>1, <3>1, <3>2, <3>3, ReturnKept
  <2>5. CASE UNCHANGED row
    BY <2>1, <2>5, NoStatusWritten, ReturnKept
  <2> QED
    BY <1>1, <2>4, <2>5 DEF ReceiptFound, MaybeSetStatus
<1>2. ASSUME NEW s \in batch, ReceiptNotFound(s) PROVE StatusInv'
  <2>1. /\ pc = "pick" /\ job = None /\ s # None
        /\ s.row.hash \notin mined /\ job' = s /\ pc' = "lookup"
        /\ UNCHANGED <<account, mined, reverted, row, mode, batch, waiters>>
    BY <1>2, NoneAssumption DEF ReceiptNotFound, IsMined, Control, TypeOK, chain
  <2>2. s.row.hash = row[s.dep].hash
    BY <2>1 DEF StatusInv, Snapshots
  <2>3. \A w \in waiters : w.verdict \in Final => w.tx.dep # job'.dep
    BY <2>1, <2>2 DEF StatusInv, Waits
  <2> QED
    BY <2>1, <2>3, GoOn
<1>3. ASSUME NEW s \in batch, ReceiptFail(s) PROVE StatusInv'
  <2>1. pc = "pick" /\ job = None /\ UNCHANGED <<chain, row, waiters>> /\ Return(s.dep, FALSE)
    BY <1>3 DEF ReceiptFail, Control
  <2> QED
    BY <2>1, NoStatusWritten, ReturnKept
<1>4. CASE Lookup
  <2>1. /\ pc = "lookup" /\ pc' = "confirm" /\ job # None /\ job' = job
        /\ UNCHANGED <<account, mined, reverted, row, mode, batch, waiters>>
    BY <1>4 DEF Lookup, chain, Control
  <2> QED
    BY <2>1, GoOn DEF StatusInv, NoRival
<1>5. CASE LookupMined \/ LookupFail
  <2>1. pc = "lookup" /\ UNCHANGED <<chain, row, waiters>> /\ Return(job.dep, FALSE)
    BY <1>5 DEF LookupMined, LookupFail
  <2> QED
    BY <2>1, NoStatusWritten, ReturnKept
<1> QED
  BY <1>1, <1>2, <1>3, <1>4, <1>5 DEF HandleUnconfirmedDeposit

\* The calls of the handler: only what the node has and the loop's own variables change.
LEMMA JobInv ==
    ASSUME TypeOK, Control, StatusInv,
           \/ \E s \in batch : TakeJob(s)
           \/ Confirm \/ PickNonce \/ BumpPrice \/ Send \/ SendLost \/ CallFail
    PROVE  StatusInv'
<1>1. ASSUME NEW s \in batch, TakeJob(s) PROVE StatusInv'
  <2>1. /\ pc = "pick" /\ mode # "unconfirmed" /\ job' = s /\ s # None /\ pc' = "confirm"
        /\ UNCHANGED <<account, mined, reverted, row, mode, batch, waiters>>
    BY <1>1, NoneAssumption DEF TakeJob, TypeOK, chain
  <2>2. \A w \in waiters : w.verdict \in Final => w.tx.dep # job'.dep
    BY <2>1 DEF StatusInv, NoRival
  <2> QED
    BY <2>1, <2>2, GoOn
<1>2. CASE Confirm \/ PickNonce \/ BumpPrice \/ Send \/ SendLost \/ CallFail
  <2>1. /\ pc \in {"confirm", "nonce", "send"} /\ job # None /\ job' = job
        /\ UNCHANGED <<row, mode, batch, waiters>>
    BY <1>2 DEF Confirm, PickNonce, BumpPrice, Send, SendLost, CallFail, Control
  <2>2. UNCHANGED <<account, mined, reverted>>
    BY <1>2 DEF Confirm, PickNonce, BumpPrice, Send, SendLost, CallFail, Accept, chain
  <2>3. pc' \in {"nonce", "send", "record", "failed"}
    BY <1>2 DEF Confirm, PickNonce, BumpPrice, Send, SendLost, CallFail, Failed, Sign
  <2> QED
    BY <2>1, <2>2, <2>3, GoOn DEF StatusInv, NoRival
<1> QED
  BY <1>1, <1>2

\* The handler writes its row, or stops waiting.
LEMMA RecordInv ==
    ASSUME TypeOK, Control, StatusInv,
           ConfirmFail \/ Record \/ RecordFail \/ Timeout \/ HandleError \/ HandleErrorFail
    PROVE  StatusInv'
<1>1. job # None /\ job.dep \in Deposits
  BY DepositsOf
     DEF ConfirmFail, Record, RecordFail, Timeout, HandleError, HandleErrorFail, Control
<1>2. CASE ConfirmFail
  <2>1. pc = "confirm" /\ UNCHANGED <<chain, row, waiters>> /\ Return(job.dep, FALSE)
    BY <1>2 DEF ConfirmFail
  <2> QED
    BY <2>1, NoStatusWritten, ReturnKept
<1>3. ASSUME pc = "record", row' = RecordedRow, UNCHANGED chain
      PROVE  /\ \A e \in Deposits : row'[e].hash = IF e = job.dep THEN tx ELSE row[e].hash
             /\ row'[job.dep].status \notin Early
             /\ \A e \in Deposits : row'[e].hash # None => row'[e].hash.dep = e
             /\ \A w \in waiters :
                   /\ w.late /\ w.verdict # "waiting"
                   /\ Unwritten(w, row'[w.tx.dep].hash, row'[w.tx.dep].status)
             /\ StatusTrue'
  <2>1. tx \in Tx /\ tx.dep = job.dep
    BY <1>3 DEF Control
  <2>2. /\ \A e \in Deposits : row'[e].hash = IF e = job.dep THEN tx ELSE row[e].hash
        /\ \A e \in Deposits :
              row'[e].status = IF e = job.dep THEN "WaitMined" ELSE row[e].status
    BY <1>1, <1>3, <2>1, RecordFacts
  <2>3. \A e \in Deposits : row'[e].hash # None => row'[e].hash.dep = e
    BY <2>1, <2>2 DEF StatusInv, Named
  <2>4. \A w \in waiters : w.verdict \in Final => w.tx.dep # job.dep
    BY <1>1, <1>3 DEF StatusInv, NoRival
  <2>5. \A w \in waiters :
            /\ w.late /\ w.verdict # "waiting"
            /\ Unwritten(w, row'[w.tx.dep].hash, row'[w.tx.dep].status)
    BY <1>3, <2>2, <2>4, AllLate, DepositsOf DEF Unwritten
  <2>6. StatusTrue'
    BY <1>3, <2>2 DEF StatusInv, StatusTrue, Mints, chain
  <2> QED
    BY <1>1, <2>2, <2>3, <2>5, <2>6, StatusesApart
<1>4. CASE Record
  <2> DEFINE new == [tx |-> tx, verdict |-> "waiting", late |-> FALSE]
  <2>1. /\ pc = "record" /\ row' = RecordedRow /\ pc' = "await"
        /\ UNCHANGED <<chain, account, mined, reverted, mode, batch, job, tx>>
        /\ waiters' = waiters \union {new}
    BY <1>4 DEF Record, chain
  <2>2. Named'
    BY <1>3, <2>1 DEF StatusInv, Named
  <2>3. Snapshots'
    BY <1>1, <1>3, <2>1, DepositsOf DEF StatusInv, Snapshots
  <2>4. new.tx = tx /\ new.verdict \notin Final /\ ~new.late
    BY DEF Final
  <2> HIDE DEF new
  <2>5. \A w \in waiters' : w \in waiters \/ w = new
    BY <2>1
  <2>6. Waits'
    BY <1>3, <2>1, <2>4, <2>5 DEF Waits, Unwritten, ReceiptStatus
  <2>7. NoRival'
    BY <1>3, <2>1, <2>4, <2>5 DEF StatusInv, NoRival, Unwritten
  <2> QED
    BY <1>3, <2>1, <2>2, <2>3, <2>6, <2>7 DEF StatusInv
<1>5. CASE RecordFail
  <2>1. /\ pc = "record" /\ Return(job.dep, FALSE) /\ UNCHANGED <<chain, waiters>>
        /\ row' = row \/ row' = RecordedRow
    BY <1>5 DEF RecordFail
  <2>2. CASE row' = row
    BY <2>1, <2>2, NoStatusWritten, ReturnKept
  <2>3. CASE row' = RecordedRow
    <3>1. \A e \in Deposits : e # job.dep => row'[e].hash = row[e].hash
      BY <1>3, <2>1, <2>3
    <3> QED
      BY <1>3, <2>1, <2>3, <3>1, ReturnInv
  <2> QED
    BY <2>1, <2>2, <2>3
<1>6. CASE Timeout
  <2>1. /\ pc = "await" /\ Return(job.dep, TRUE) /\ UNCHANGED <<chain, row>>
        /\ \A w \in waiters : Awaited(w) => w.verdict # "waiting"
        /\ waiters' = {[w EXCEPT !.late = TRUE] : w \in waiters}
    BY <1>6 DEF Timeout
  <2>2. \A w \in waiters : w.verdict # "waiting"
    BY <2>1 DEF StatusInv, Waits, Awaited
  <2>3. ASSUME NEW u \in waiters'
        PROVE  /\ u.late /\ u.verdict # "waiting"
               /\ \E w \in waiters : u.tx = w.tx /\ u.verdict = w.verdict
               /\ Unwritten(u, row'[u.tx.dep].hash, row'[u.tx.dep].status)
    <3>1. PICK w \in waiters : u = [w EXCEPT !.late = TRUE]
      BY <2>1, <2>3
    <3>2. w \in Waiter
      BY DEF TypeOK
    <3>3. u.tx = w.tx /\ u.verdict = w.verdict /\ u.late
      BY <3>1, <3>2 DEF Waiter
    <3> QED
      BY <2>1, <2>2, <3>3 DEF StatusInv, Waits, NoRival, Unwritten
  <2>4. \A e \in Deposits : row'[e].hash # None => row'[e].hash.dep = e
    BY <2>1 DEF StatusInv, Named
  <2> QED
    BY <2>1, <2>3, <2>4, NoStatusWritten, ReturnInv
<1>7. CASE HandleError \/ HandleErrorFail
  <2>1. /\ pc = "failed" /\ err # "none" /\ UNCHANGED <<chain, waiters>>
        /\ Return(job.dep, err = "other") \/ Return(job.dep, FALSE)
    BY <1>7 DEF HandleError, HandleErrorFail, Control
  <2>2. \/ row' = row \/ row' = ErrorRow(FALSE)
        \/ row' = ErrorRow(IsMined(job.row.hash))
    BY <1>7, Zenon DEF HandleError, HandleErrorFail
  <2>3. CASE row' = row
    BY <2>1, <2>3, NoStatusWritten, ReturnKept
  <2>4. ASSUME NEW hasReceipt \in BOOLEAN, row' = ErrorRow(hasReceipt),
               hasReceipt => job.row.hash \in mined
        PROVE  StatusInv'
    <3>1. /\ \A e \in Deposits : row'[e].hash = row[e].hash
          /\ \A e \in Deposits :
                row'[e].status = IF e = job.dep THEN ErrorStatus(hasReceipt)
                                 ELSE row[e].status
      BY <1>1, <2>1, <2>4, ErrorRowFacts
    <3>2. job.row.hash = row[job.dep].hash /\ job.row.status \notin Final
      BY <1>1, <2>1 DEF StatusInv, Snapshots
    <3>3. err \in {"exist", "balance", "gas", "known", "low", "other"}
      BY <2>1 DEF TypeOK, ErrorKinds
    <3>4. ErrorStatus(hasReceipt) \in Final =>
             hasReceipt /\ ErrorStatus(hasReceipt) = ReceiptStatus(job.row.hash)
      BY <3>2, <3>3 DEF ErrorStatus, Final
    <3>5. ErrorStatus(hasReceipt) \in Final =>
             /\ row[job.dep].hash \in mined /\ row[job.dep].hash # None
             /\ ErrorStatus(hasReceipt) = ReceiptStatus(row[job.dep].hash)
      BY <2>4, <3>2, <3>4, NoneAssumption DEF TypeOK, ChainTypeOK
    <3>6. StatusTrue'
      <4>1. PICK st : st = ErrorStatus(hasReceipt)
        OBVIOUS
      <4>2. /\ \A e \in Deposits :
                  row'[e].status = IF e = job.dep THEN st ELSE row[e].status
            /\ st \in Final =>
                  /\ row[job.dep].hash \in mined /\ row[job.dep].hash # None
                  /\ st = ReceiptStatus(row[job.dep].hash)
        BY <3>1, <3>5, <4>1
      <4> QED
        BY <2>1, <3>1, <4>2, StatusWritten
    <3>7. \A e \in Deposits : row'[e].status \in Early =>
             row[e].status \in Early \/ (job # None /\ e = job.dep)
      BY <1>1, <3>1
    <3> QED
      BY <1>1, <2>1, <3>1, <3>6, <3>7, ReturnKept
  <2>5. IsMined(job.row.hash) \in BOOLEAN /\ FALSE \in BOOLEAN
    BY DEF IsMined
  <2>6. CASE row' = ErrorRow(FALSE)
    BY <2>4, <2>5, <2>6, Zenon
  <2>7. CASE row' = ErrorRow(IsMined(job.row.hash))
    <3>1. IsMined(job.row.hash) => job.row.hash \in mined
      BY DEF IsMined
    <3> QED
      BY <2>4, <2>5, <2>7, <3>1, Zenon
  <2> QED
    BY <2>2, <2>3, <2>6, <2>7
<1> QED
  BY <1>2, <1>4, <1>5, <1>6, <1>7

\* The goroutines: a late one writes a verdict that is still true.
LEMMA WaitMinedInv ==
    ASSUME TypeOK, Control, StatusInv, WaitMined
    PROVE  StatusInv'
<1>1. PICK w \in waiters : Verdict(w) \/ Write(w) \/ WriteFail(w)
  BY DEF WaitMined
<1>2. w \in Waiter
  BY DEF TypeOK
<1>3. CASE Verdict(w)
  <2>1. PICK v \in Verdicts :
           /\ v \in Final => w.tx \in mined /\ v = ReceiptStatus(w.tx)
           /\ waiters' = (waiters \ {w}) \union {[w EXCEPT !.verdict = v]}
    BY <1>3 DEF Verdict, Verdicts, Final
  <2> DEFINE u == [w EXCEPT !.verdict = v]
  <2>2. u.tx = w.tx /\ u.verdict = v /\ u.late = w.late
    BY <1>2 DEF Waiter
  <2>3. waiters' = (waiters \ {w}) \union {u}
    BY <2>1
  <2>4. v # "waiting"
    BY DEF Verdicts
  <2> HIDE DEF u
  <2>5. /\ UNCHANGED <<chain, account, mined, reverted, row>>
        /\ UNCHANGED <<pc, mode, batch, job, tx>>
    BY <1>3 DEF Verdict, chain, main
  <2>6. ~w.late /\ pc = "await" /\ w.tx = tx
    BY <1>3 DEF Verdict, StatusInv, Waits
  <2>7. job # None /\ job.dep = w.tx.dep
    BY <2>6 DEF Control
  <2>8. row[w.tx.dep].hash = w.tx /\ row[w.tx.dep].status \notin Early
    BY <2>6, <2>7 DEF StatusInv, Snapshots
  <2>9. Named' /\ Snapshots'
    BY <2>5 DEF StatusInv, Named, Snapshots
  <2>10. \A x \in waiters' : (x \in waiters /\ x # w) \/ x = u
    BY <2>3
  <2>11. Waits'
    BY <2>1, <2>2, <2>4, <2>5, <2>6, <2>8, <2>10 DEF StatusInv, Waits, ReceiptStatus
  <2>12. NoRival'
    BY <2>2, <2>5, <2>6, <2>7, <2>8, <2>10 DEF StatusInv, NoRival
  <2> QED
    BY <2>5, <2>9, <2>11, <2>12, NoStatusWritten DEF StatusInv
<1>4. CASE Write(w) \/ WriteFail(w)
  <2>1. /\ UNCHANGED <<chain, account, mined, reverted>>
        /\ waiters' = waiters \ {w}
        /\ row' = row \/ SetStatus(w.tx.dep, w.verdict)
        /\ (Awaited(w) /\ Return(w.tx.dep, FALSE)) \/ UNCHANGED main
    BY <1>4 DEF Write, WriteFail, MaybeSetStatus, Report, chain
  <2>2. w.verdict \in Statuses /\ w.verdict \in Verdicts
    BY <1>2, <1>4 DEF Write, WriteFail, Waiter, Verdicts, Statuses
  <2>3. /\ \A e \in Deposits : row'[e].hash = row[e].hash
        /\ \A e \in Deposits : row'[e].status \in Early => row[e].status \in Early
        /\ StatusTrue'
    <3>1. CASE row' = row
      BY <2>1, <3>1, NoStatusWritten
    <3>2. CASE SetStatus(w.tx.dep, w.verdict)
      <4>1. /\ \A e \in Deposits : row'[e].hash = row[e].hash
            /\ \A e \in Deposits :
                  row'[e].status = IF e = w.tx.dep THEN w.verdict ELSE row[e].status
        BY <2>2, <3>2, DepositsOf, SetStatusFacts
      <4>2. w.verdict \in Final =>
               /\ row[w.tx.dep].hash \in mined /\ row[w.tx.dep].hash # None
               /\ w.verdict = ReceiptStatus(row[w.tx.dep].hash)
        BY DepositsOf DEF StatusInv, Waits
      <4>3. StatusTrue'
        BY <2>1, <4>1, <4>2, StatusWritten
      <4> QED
        BY <2>2, <4>1, <4>3, StatusesApart
    <3> QED
      BY <2>1, <3>1, <3>2
  <2>4. \A x \in waiters' : x.verdict # "waiting" \/ ~x.late
    BY <2>1 DEF StatusInv, Waits
  <2>5. \A x \in waiters' :
            x \in waiters /\ Unwritten(x, row'[x.tx.dep].hash, row'[x.tx.dep].status)
    BY <2>1, <2>3, DepositsOf DEF StatusInv, Waits, NoRival, Unwritten
  <2>6. \A e \in Deposits : row'[e].hash # None => row'[e].hash.dep = e
    BY <2>3 DEF StatusInv, Named
  <2>7. CASE Awaited(w) /\ Return(w.tx.dep, FALSE)
    <3>1. job # None /\ w.tx.dep = job.dep /\ ~w.late
      BY <2>7 DEF Awaited, Control
    <3>2. \A x \in waiters' : x.late
      BY <2>1, <3>1 DEF StatusInv, Waits
    <3> QED
      BY <2>1, <2>3, <2>4, <2>5, <2>6, <2>7, <3>1, <3>2, ReturnInv
  <2>8. CASE UNCHANGED main
    <3>1. UNCHANGED <<pc, mode, batch, job, tx>>
      BY <2>8 DEF main
    <3>2. Named'
      BY <2>1, <2>6 DEF StatusInv, Named
    <3>3. Snapshots'
      <4>1. pc \in {"lookup", "confirm", "nonce", "send", "record", "failed", "await"} =>
               job # None
        BY DEF Control
      <4> QED
        BY <2>3, <3>1, <4>1, DepositsOf DEF StatusInv, Snapshots
    <3>4. Waits'
      BY <2>1, <2>5, <3>1 DEF StatusInv, Waits, Unwritten, ReceiptStatus
    <3>5. NoRival'
      BY <2>5, <3>1 DEF StatusInv, NoRival, Unwritten
    <3> QED
      BY <2>3, <3>2, <3>3, <3>4, <3>5 DEF StatusInv
  <2> QED
    BY <2>1, <2>7, <2>8
<1> QED
  BY <1>1, <1>3, <1>4

\* A transaction is mined: its nonce was not used up before, so it is none of those
\* mined already, whose receipts stay what they are.
LEMMA MineInv ==
    ASSUME TypeOK, StatusInv, NEW t, NEW ok, Mine(t, ok), UNCHANGED <<row, main, waiters>>
    PROVE  StatusInv'
<1>1. t.from \in Keys /\ account[t.from] \in Nat
  BY DEF Mine, TypeOK, ChainTypeOK, Tx
<1>2. t \notin mined
  BY <1>1 DEF Mine, StatusInv, Named
<1>3. /\ mined' = mined \union {t} /\ reverted \subseteq reverted'
      /\ \A u \in mined : u \in reverted' <=> u \in reverted
  BY <1>2 DEF Mine
<1>4. UNCHANGED <<row, waiters, pc, mode, batch, job, tx>>
  BY DEF main
<1>5. Named'
  <2>1. \A u \in mined \union {t} : u.from \in Keys /\ u.nonce \in Nat
    BY <1>1 DEF Mine, TypeOK, ChainTypeOK, Tx
  <2>2. \A k \in Keys : account'[k] = IF k = t.from THEN account[k] + 1 ELSE account[k]
    BY <1>1 DEF Mine, TypeOK, ChainTypeOK
  <2>3. \A k \in Keys : account[k] \in Nat
    BY DEF TypeOK, ChainTypeOK
  <2>4. \A u \in mined \union {t} : u.nonce < account'[u.from]
    BY <2>1, <2>2, <2>3 DEF Mine, StatusInv, Named
  <2> QED
    BY <1>3, <1>4, <2>4 DEF StatusInv, Named
<1>6. Snapshots' /\ NoRival'
  BY <1>4 DEF StatusInv, Snapshots, NoRival
<1>7. Waits'
  BY <1>3, <1>4 DEF StatusInv, Waits, ReceiptStatus
<1>8. StatusTrue'
  <2>1. \A d \in Deposits : Mints(d) \subseteq Mints(d)'
    BY <1>3 DEF Mints
  <2> QED
    BY <1>3, <1>4, <2>1 DEF StatusInv, StatusTrue
<1> QED
  BY <1>5, <1>6, <1>7, <1>8 DEF StatusInv

\* Nothing happens that the invariant speaks about.
LEMMA Kept ==
    ASSUME StatusInv, UNCHANGED <<account, mined, reverted, row, main, waiters>>
    PROVE  StatusInv'
<1>1. UNCHANGED <<account, mined, reverted, row, pc, mode, batch, job, tx, waiters>>
  BY DEF main
<1>2. Named' /\ Snapshots' /\ NoRival'
  BY <1>1 DEF StatusInv, Named, Snapshots, NoRival
<1>3. Waits'
  BY <1>1 DEF StatusInv, Waits, ReceiptStatus
<1>4. StatusTrue'
  BY <1>1 DEF StatusInv, StatusTrue, Mints
<1> QED
  BY <1>2, <1>3, <1>4 DEF StatusInv

LEMMA EnvironmentInv ==
    ASSUME TypeOK, Control, StatusInv, Environment
    PROVE  StatusInv'
<1>1. ASSUME NEW d \in Deposits, Arrive(d) PROVE StatusInv'
  <2>1. /\ \A e \in Deposits : row'[e].hash = row[e].hash
        /\ \A e \in Deposits : row'[e].status = IF e = d THEN "Pending" ELSE row[e].status
    BY <1>1, SetStatusFacts DEF Arrive, Statuses
  <2>2. \A e \in Deposits : row'[e].status \in Early => row[e].status \in Early
    BY <1>1, <2>1 DEF Arrive, Early
  <2>3. /\ UNCHANGED <<chain, account, mined, reverted, waiters>>
        /\ UNCHANGED <<pc, mode, batch, job, tx>>
    BY <1>1 DEF Arrive, chain, main
  <2>4. "Pending" \notin Final
    BY DEF Final
  <2>5. StatusTrue'
    BY <2>1, <2>3, <2>4, StatusWritten
  <2>6. Named'
    BY <2>1, <2>3 DEF StatusInv, Named
  <2>7. Snapshots'
    <3>1. pc \in {"lookup", "confirm", "nonce", "send", "record", "failed", "await"} =>
             job # None
      BY DEF Control
    <3> QED
      BY <2>1, <2>2, <2>3, <3>1, DepositsOf DEF StatusInv, Snapshots
  <2>8. Waits'
    BY <2>1, <2>3, DepositsOf DEF StatusInv, Waits, ReceiptStatus
  <2>9. NoRival'
    BY <2>2, <2>3, DepositsOf DEF StatusInv, NoRival
  <2> QED
    BY <2>5, <2>6, <2>7, <2>8, <2>9 DEF StatusInv
<1>2. ASSUME NEW d \in Deposits, Register(d) PROVE StatusInv'
  BY <1>2, Kept DEF Register, chain
<1>3. CASE MineOne \/ MineOther
  BY <1>3, MineInv DEF MineOne, MineOther
<1>4. CASE EvictOne
  BY <1>4, Kept DEF EvictOne, Evict
<1>5. CASE Crash
  <2>1. /\ UNCHANGED <<chain, account, mined, reverted, row>>
        /\ pc' = "down" /\ batch' = {} /\ job' = None /\ waiters' = {}
    BY <1>5 DEF Crash, chain
  <2>2. Named' /\ Snapshots'
    BY <2>1 DEF StatusInv, Named, Snapshots
  <2>3. Waits' /\ NoRival'
    BY <2>1 DEF Waits, NoRival
  <2> QED
    BY <2>1, <2>2, <2>3, NoStatusWritten DEF StatusInv
<1>6. CASE Restart
  <2>1. /\ UNCHANGED <<chain, account, mined, reverted, row, mode, batch, job, tx, waiters>>
        /\ pc = "down" /\ pc' = "sleep" /\ job = None
    BY <1>6 DEF Restart, chain, Control
  <2>2. Named' /\ Snapshots'
    BY <2>1 DEF StatusInv, Named, Snapshots
  <2>3. Waits' /\ NoRival'
    BY <2>1 DEF StatusInv, Waits, NoRival, ReceiptStatus
  <2> QED
    BY <2>1, <2>2, <2>3, NoStatusWritten DEF StatusInv
<1>7. CASE RotateKey
  BY <1>7, Kept DEF RotateKey, chain
<1> QED
  BY <1>1, <1>2, <1>3, <1>4, <1>5, <1>6, <1>7 DEF Environment

LEMMA InvStep == (TypeOK /\ IInv) /\ [Next]_vars => (TypeOK /\ IInv)'
<1> SUFFICES ASSUME TypeOK, Control, StatusInv, [Next]_vars
             PROVE  (TypeOK /\ IInv)'
  BY DEF IInv
<1>1. TypeOK' /\ Control'
  BY TypeStep
<1>2. StatusInv'
  <2>1. CASE UNCHANGED vars
    BY <2>1, Kept DEF vars, chain
  <2>2. CASE Deposit
    BY <2>2, ListsInv, UnconfirmedInv, JobInv, RecordInv DEF Deposit, HandleDeposit
  <2>3. CASE WaitMined
    BY <2>3, WaitMinedInv
  <2>4. CASE Environment
    BY <2>4, EnvironmentInv
  <2> QED
    BY <2>1, <2>2, <2>3, <2>4 DEF Next
<1> QED
  BY <1>1, <1>2 DEF IInv

LEMMA InitInv == Init => TypeOK /\ IInv
<1> SUFFICES ASSUME Init PROVE TypeOK /\ IInv
  OBVIOUS
<1>1. TypeOK /\ Control
  BY InitType
<1>2. Named /\ Snapshots /\ Waits /\ NoRival /\ StatusTrue
  BY DEF Init, ChainInit, Named, Snapshots, Waits, NoRival, StatusTrue
<1> QED
  BY <1>1, <1>2 DEF IInv, StatusInv

\* A final status is true of the very transaction the row names, whichever goroutine
\* wrote it, however late and after whatever faults.
THEOREM StatusIsTrue == Spec => []StatusTrue
<1>1. IInv => StatusTrue
  BY DEF IInv, StatusInv
<1> QED
  BY <1>1, InitInv, InvStep, PTL DEF Spec

-----------------------------------------------------------------------------
(* A final status keeps its transaction. *)

\* A handler returns, and the row of d keeps its transaction and stays out of the lists.
LEMMA FixedReturn ==
    ASSUME NEW d \in Deposits, Fixed(d), NEW e, NEW ok, Return(e, ok),
           job = None \/ e = job.dep,
           UNCHANGED mined, row'[d].hash = row[d].hash, row'[d].status \notin Early
    PROVE  Fixed(d)'
BY ReturnFacts DEF Fixed

\* The loop is where it was, or goes on with the row of another deposit.
LEMMA FixedGoOn ==
    ASSUME NEW d \in Deposits, Fixed(d), UNCHANGED <<row, mode, batch>>, mined \subseteq mined',
           \/ UNCHANGED <<pc, job>>
           \/ pc # "await" /\ job' # None /\ job'.dep # d
           \/ job = None /\ job' = None
    PROVE  Fixed(d)'
BY DEF Fixed

\* The row of another deposit is written.
LEMMA FixedJob ==
    ASSUME TypeOK, Control, NEW d \in Deposits, Fixed(d), RecordFail \/ HandleError
           \/ HandleErrorFail \/ Record
    PROVE  Fixed(d)' /\ row'[d].hash = row[d].hash
<1>1. /\ pc \in {"record", "failed"} /\ job # None /\ job.dep # d /\ UNCHANGED mined
      /\ pc = "failed" => err # "none"
  BY DEF RecordFail, HandleError, HandleErrorFail, Record, Control, Fixed, chain
<1>2. UNCHANGED row[d]
  <2>1. ASSUME row' = RecordedRow, pc = "record" PROVE row'[d] = row[d]
    BY <1>1, <2>1 DEF RecordedRow, TypeOK
  <2>2. ASSUME NEW hasReceipt, row' = ErrorRow(hasReceipt) PROVE row'[d] = row[d]
    BY <1>1, <2>2 DEF ErrorRow, TypeOK
  <2>3. CASE RecordFail \/ Record
    BY <2>1, <2>3 DEF RecordFail, Record
  <2>4. CASE HandleError \/ HandleErrorFail
    <3>1. \/ row' = row \/ row' = ErrorRow(FALSE)
          \/ row' = ErrorRow(IsMined(job.row.hash))
      BY <2>4, Zenon DEF HandleError, HandleErrorFail
    <3> QED
      BY <2>2, <3>1
  <2> QED
    BY <2>3, <2>4
<1>3. CASE Record
  BY <1>1, <1>2, <1>3 DEF Record, Fixed
<1>4. CASE RecordFail \/ HandleError \/ HandleErrorFail
  <2>1. Return(job.dep, FALSE) \/ Return(job.dep, err = "other")
    BY <1>4 DEF RecordFail, HandleError, HandleErrorFail
  <2> QED
    BY <1>1, <1>2, <2>1, FixedReturn DEF Fixed
<1> QED
  BY <1>3, <1>4

LEMMA FixedDeposit ==
    ASSUME TypeOK, Control, StatusInv, NEW d \in Deposits, Fixed(d), Deposit
    PROVE  Fixed(d)' /\ row'[d].hash = row[d].hash
<1>1. ASSUME NEW e, Return(e, TRUE) \/ Return(e, FALSE), job = None \/ e = job.dep,
             UNCHANGED <<chain, row>>
      PROVE  Fixed(d)' /\ row'[d].hash = row[d].hash
  BY <1>1, FixedReturn DEF Fixed, chain
<1>2. CASE BeginCycle \/ EndList \/ EndListFail \/ EndCycle
  <2>1. UNCHANGED <<mined, row, job>> /\ job = None
    BY <1>2 DEF BeginCycle, EndList, EndListFail, EndCycle, Control, chain
  <2>2. \/ mode' = "unconfirmed" \/ batch' = {}
        \/ \E m \in {"pending", "aa"} : batch' = Query(m)
    BY <1>2 DEF BeginCycle, EndList, EndListFail, EndCycle, NextList
  <2>3. ASSUME NEW m \in {"pending", "aa"}, NEW s \in Query(m) PROVE s.dep # d
    BY QueryFacts, StatusesApart DEF Fixed
  <2> QED
    BY <2>1, <2>2, <2>3 DEF Fixed
<1>3. ASSUME NEW s \in batch, ReceiptFound(s)
      PROVE  Fixed(d)' /\ row'[d].hash = row[d].hash
  <2>1. /\ job = None /\ UNCHANGED mined /\ s.dep \in Deposits
        /\ Return(s.dep, TRUE) \/ Return(s.dep, FALSE)
    BY <1>3, DepositsOf DEF ReceiptFound, Control, chain
  <2>2. ReceiptStatus(s.row.hash) \in Statuses /\ ReceiptStatus(s.row.hash) \in Final
    BY DEF ReceiptStatus, Statuses, Final
  <2>3. UNCHANGED row \/ SetStatus(s.dep, ReceiptStatus(s.row.hash))
    BY <1>3 DEF ReceiptFound, MaybeSetStatus
  <2>4. row'[d].hash = row[d].hash /\ row'[d].status \notin Early
    BY <2>1, <2>2, <2>3, SetStatusFacts, StatusesApart DEF Fixed
  <2> QED
    BY <2>1, <2>4, FixedReturn
<1>4. ASSUME NEW s \in batch, ReceiptNotFound(s) \/ TakeJob(s)
      PROVE  Fixed(d)' /\ row'[d].hash = row[d].hash
  <2>1. /\ pc = "pick" /\ job = None /\ job' = s /\ s # None
        /\ UNCHANGED <<row, mode, batch, mined>>
    BY <1>4, NoneAssumption DEF ReceiptNotFound, TakeJob, Control, TypeOK, chain
  <2>2. s.dep # d
    BY <1>4, <2>1 DEF ReceiptNotFound, TakeJob, IsMined, StatusInv, Snapshots, Fixed
  <2> QED
    BY <2>1, <2>2, FixedGoOn
<1>5. CASE \E s \in batch : ReceiptFail(s)
  BY <1>1, <1>5 DEF ReceiptFail, Control
<1>6. CASE LookupMined \/ LookupFail \/ ConfirmFail
  BY <1>1, <1>6 DEF LookupMined, LookupFail, ConfirmFail
<1>7. CASE Lookup \/ Confirm \/ PickNonce \/ BumpPrice \/ Send \/ SendLost \/ CallFail
  <2>1. /\ pc \in {"lookup", "confirm", "nonce", "send"} /\ job # None /\ UNCHANGED job
        /\ UNCHANGED <<row, mode, batch, mined>>
    BY <1>7 DEF Lookup, Confirm, PickNonce, BumpPrice, Send, SendLost, CallFail, Control,
                Accept, chain
  <2>2. job.dep # d
    BY <2>1 DEF Fixed
  <2> QED
    BY <2>1, <2>2, FixedGoOn
<1>8. CASE Timeout
  BY <1>1, <1>8 DEF Timeout
<1> QED
  BY <1>2, <1>3, <1>4, <1>5, <1>6, <1>7, <1>8, FixedJob
     DEF Deposit, HandleUnconfirmedDeposit, HandleDeposit

LEMMA FixedStep ==
    ASSUME TypeOK, Control, StatusInv, [Next]_vars, NEW d \in Deposits, Fixed(d)
    PROVE  Fixed(d)' /\ row'[d].hash = row[d].hash
<1>1. ASSUME UNCHANGED <<main, row>>, mined \subseteq mined'
      PROVE  Fixed(d)' /\ row'[d].hash = row[d].hash
  BY <1>1, FixedGoOn DEF main
<1>2. CASE UNCHANGED vars
  BY <1>1, <1>2 DEF vars, chain
<1>3. CASE Deposit
  BY <1>3, FixedDeposit
<1>4. CASE WaitMined
  <2>1. PICK w \in waiters : Verdict(w) \/ Write(w) \/ WriteFail(w)
    BY <1>4 DEF WaitMined
  <2>2. CASE Verdict(w)
    BY <1>1, <2>2 DEF Verdict, chain
  <2>3. CASE Write(w) \/ WriteFail(w)
    <3>1. /\ UNCHANGED mined
          /\ row' = row \/ SetStatus(w.tx.dep, w.verdict)
          /\ (Awaited(w) /\ Return(w.tx.dep, FALSE)) \/ UNCHANGED main
      BY <2>3 DEF Write, WriteFail, MaybeSetStatus, Report, chain
    <3>2. w.verdict \in Statuses /\ w.verdict \in Verdicts /\ w.tx.dep \in Deposits
      BY <2>3, DepositsOf DEF Write, WriteFail, TypeOK, Waiter, Verdicts, Statuses
    <3>3. row'[d].hash = row[d].hash /\ row'[d].status \notin Early
      BY <3>1, <3>2, SetStatusFacts, StatusesApart DEF Fixed
    <3>4. Awaited(w) => job # None /\ w.tx.dep = job.dep
      BY DEF Awaited, Control
    <3>5. CASE UNCHANGED main
      BY <3>1, <3>3, <3>5 DEF main, Fixed
    <3> QED
      BY <3>1, <3>3, <3>4, <3>5, FixedReturn
  <2> QED
    BY <2>1, <2>2, <2>3
<1>5. CASE Environment
  <2>1. ASSUME NEW e \in Deposits, Arrive(e) PROVE Fixed(d)' /\ row'[d].hash = row[d].hash
    <3>1. e # d /\ UNCHANGED <<mined, main>> /\ "Pending" \in Statuses
      BY <2>1 DEF Arrive, Fixed, Early, chain, Statuses
    <3>2. row'[d].hash = row[d].hash /\ row'[d].status = row[d].status
      BY <2>1, <3>1, SetStatusFacts DEF Arrive
    <3> QED
      BY <3>1, <3>2 DEF main, Fixed
  <2>2. ASSUME NEW e \in Deposits, Register(e)
        PROVE  Fixed(d)' /\ row'[d].hash = row[d].hash
    BY <1>1, <2>2 DEF Register, chain
  <2>3. CASE MineOne \/ MineOther
    <3>1. \E t, ok : Mine(t, ok) /\ UNCHANGED <<row, main>>
      BY <2>3 DEF MineOne, MineOther
    <3> QED
      BY <1>1, <3>1 DEF Mine
  <2>4. CASE EvictOne
    BY <1>1, <2>4 DEF EvictOne, Evict
  <2>5. CASE RotateKey
    BY <1>1, <2>5 DEF RotateKey, chain
  <2>6. CASE Crash \/ Restart
    BY <2>6 DEF Crash, Restart, Fixed, chain, Control
  <2> QED
    BY <1>5, <2>1, <2>2, <2>3, <2>4, <2>5, <2>6 DEF Environment
<1> QED
  BY <1>2, <1>3, <1>4, <1>5 DEF Next

\* A row with a final status is handled by nobody who might send for it.
FinalFixed == \A d \in Deposits : row[d].status \in Final => Fixed(d)

\* The row a handler returns from has the status of a receipt.
LEMMA FinalReturned ==
    ASSUME NEW d \in Deposits, NEW ok, Return(d, ok), UNCHANGED mined,
           row'[d].hash \in mined, row'[d].status \notin Early
    PROVE  Fixed(d)'
BY ReturnFacts DEF Fixed

\* The status of a row becomes final: it is written by the handler of the row, which
\* returns, or by a goroutine, which has no rival.
LEMMA FinalWritten ==
    ASSUME TypeOK, Control, StatusInv, [Next]_vars, NEW d \in Deposits,
           row[d].status \notin Final, row'[d].status \in Final
    PROVE  Fixed(d)'
<1>1. row'[d] # row[d] /\ row'[d].status \notin Early
  BY StatusesApart
<1>2. CASE Deposit
  <2>1. \/ \E s \in batch : ReceiptFound(s)
        \/ Record \/ RecordFail
        \/ HandleError \/ HandleErrorFail
    BY <1>1, <1>2 DEF Deposit, BeginCycle, EndList, EndListFail, EndCycle,
       HandleUnconfirmedDeposit, ReceiptNotFound, ReceiptFail, Lookup, LookupMined, LookupFail,
       HandleDeposit, TakeJob, Confirm, ConfirmFail, PickNonce, BumpPrice, Send, SendLost,
       CallFail, Timeout
  <2>2. ASSUME NEW s \in batch, ReceiptFound(s) PROVE Fixed(d)'
    <3>1. /\ pc = "pick" /\ job = None /\ UNCHANGED mined /\ s.dep \in Deposits
          /\ s.row.hash \in mined
          /\ Return(s.dep, TRUE) \/ Return(s.dep, FALSE)
      BY <2>2, DepositsOf DEF ReceiptFound, IsMined, Control, chain
    <3>2. SetStatus(s.dep, ReceiptStatus(s.row.hash))
      BY <1>1, <2>2 DEF ReceiptFound, MaybeSetStatus
    <3>3. ReceiptStatus(s.row.hash) \in Statuses
      BY DEF ReceiptStatus, Statuses
    <3>4. s.dep = d /\ row'[d].hash = row[d].hash
      BY <3>1, <3>2, <3>3, SetStatusFacts
    <3>5. s.row.hash = row[d].hash
      BY <3>1, <3>4 DEF StatusInv, Snapshots
    <3> QED
      BY <1>1, <3>1, <3>4, <3>5, FinalReturned
  <2>3. CASE Record \/ RecordFail
    <3>1. job # None /\ tx \in Tx /\ row' = RecordedRow
      BY <1>1, <2>3 DEF Record, RecordFail, Control
    <3>2. row'[d].status \in {"WaitMined", row[d].status}
      BY <3>1, RecordFacts
    <3> QED
      BY <3>2 DEF Final
  <2>4. CASE HandleError \/ HandleErrorFail
    <3>1. /\ pc = "failed" /\ err # "none" /\ job # None /\ job.dep \in Deposits
          /\ UNCHANGED mined
          /\ Return(job.dep, err = "other") \/ Return(job.dep, FALSE)
      BY <2>4, DepositsOf DEF HandleError, HandleErrorFail, Control, chain
    <3>2. job.row.hash = row[job.dep].hash /\ job.row.status \notin Final
      BY <3>1 DEF StatusInv, Snapshots
    <3>3. ASSUME NEW hasReceipt \in BOOLEAN, row' = ErrorRow(hasReceipt),
                 hasReceipt => job.row.hash \in mined
          PROVE  d = job.dep /\ row'[d].hash \in mined
      <4>1. /\ \A e \in Deposits : row'[e].hash = row[e].hash
            /\ \A e \in Deposits :
                  row'[e].status = IF e = job.dep THEN ErrorStatus(hasReceipt)
                                   ELSE row[e].status
        BY <3>1, <3>3, ErrorRowFacts
      <4>2. d = job.dep /\ ErrorStatus(hasReceipt) \in Final
        BY <4>1
      <4>3. err \in {"exist", "balance", "gas", "known", "low", "other"}
        BY <3>1 DEF TypeOK, ErrorKinds
      <4>4. ErrorStatus(hasReceipt) \in Final => hasReceipt
        BY <3>2, <4>3 DEF ErrorStatus, Final
      <4> QED
        BY <3>2, <3>3, <4>1, <4>2, <4>4
    <3>4. row' = ErrorRow(FALSE) \/ row' = ErrorRow(IsMined(job.row.hash))
      <4>1. \/ row' = row \/ row' = ErrorRow(FALSE)
            \/ row' = ErrorRow(IsMined(job.row.hash))
        BY <2>4, Zenon DEF HandleError, HandleErrorFail
      <4> QED
        BY <1>1, <4>1
    <3>5. PICK hasReceipt \in BOOLEAN :
             row' = ErrorRow(hasReceipt) /\ (hasReceipt => job.row.hash \in mined)
      <4>1. IsMined(job.row.hash) \in BOOLEAN /\ (IsMined(job.row.hash) => job.row.hash \in mined)
        BY DEF IsMined
      <4> QED
        BY <3>4, <4>1, Zenon
    <3>6. d = job.dep /\ row'[d].hash \in mined
      BY <3>3, <3>5
    <3> QED
      BY <1>1, <3>1, <3>6, FinalReturned
  <2> QED
    BY <2>1, <2>2, <2>3, <2>4
<1>3. CASE WaitMined
  <2>1. PICK w \in waiters : Write(w) \/ WriteFail(w)
    BY <1>1, <1>3 DEF WaitMined, Verdict
  <2>2. /\ UNCHANGED mined /\ SetStatus(w.tx.dep, w.verdict)
        /\ (Awaited(w) /\ Return(w.tx.dep, FALSE)) \/ UNCHANGED main
    BY <1>1, <2>1 DEF Write, WriteFail, MaybeSetStatus, Report, chain
  <2>3. w.verdict \in Statuses /\ w.tx.dep \in Deposits
    BY <2>1, DepositsOf DEF Write, WriteFail, TypeOK, Waiter, Verdicts, Statuses
  <2>4. d = w.tx.dep /\ w.verdict \in Final /\ row'[d].hash = row[d].hash
    BY <2>2, <2>3, SetStatusFacts
  <2>5. Fixed(d)
    BY <2>4 DEF StatusInv, Waits, NoRival, Fixed
  <2> QED
    BY <1>3, <2>5, FixedStep
<1>4. CASE Environment \/ UNCHANGED vars
  <2>1. PICK e \in Deposits : Arrive(e)
    BY <1>1, <1>4 DEF Environment, Register, MineOne, MineOther, EvictOne, Crash, Restart,
                      RotateKey, vars
  <2>2. "Pending" \in Statuses /\ "Pending" \notin Final
    BY DEF Statuses, Final
  <2>3. row'[d].status \in {"Pending", row[d].status}
    BY <2>1, <2>2, SetStatusFacts DEF Arrive
  <2> QED
    BY <2>2, <2>3
<1> QED
  BY <1>2, <1>3, <1>4 DEF Next

LEMMA FinalStep ==
    TypeOK /\ IInv /\ FinalFixed /\ [Next]_vars => FinalFixed'
<1> SUFFICES ASSUME TypeOK, IInv, FinalFixed, [Next]_vars, NEW d \in Deposits,
                    row'[d].status \in Final
             PROVE  Fixed(d)'
  BY DEF FinalFixed
<1>1. CASE row[d].status \in Final
  BY <1>1, FixedStep DEF IInv, FinalFixed
<1>2. CASE row[d].status \notin Final
  BY <1>2, FinalWritten DEF IInv
<1> QED
  BY <1>1, <1>2

LEMMA FinalIsInvariant == Spec => [](TypeOK /\ IInv /\ FinalFixed)
<1>1. Init => FinalFixed
  BY DEF Init, FinalFixed, Final
<1> QED
  BY <1>1, InitInv, InvStep, FinalStep, PTL DEF Spec

\* No step gives a deposit that has a final status, or had one, another transaction,
\* whatever a late goroutine does to the status.
THEOREM FinalHashKept == Spec => FinalKeepsHash
<1>1. TypeOK /\ IInv /\ FinalFixed /\ [Next]_vars =>
         [\A d \in Deposits : row[d].status \in Final \/ Fixed(d) =>
             Fixed(d)' /\ row'[d].hash = row[d].hash]_vars
  BY FixedStep DEF IInv, FinalFixed
<1> QED
  BY <1>1, FinalIsInvariant, PTL DEF Spec, FinalKeepsHash

\* The same over whole behaviours: the transaction a deposit has with a final status
\* is the one its row names ever after.
THEOREM FinalHashForEver ==
    ASSUME NEW d \in Deposits, NEW t
    PROVE  Spec => [](row[d].status \in Final /\ row[d].hash = t => [](row[d].hash = t))
<1> DEFINE Ended == row[d].status \in Final /\ row[d].hash = t
           Stays == Fixed(d) /\ row[d].hash = t
           Same == row[d].hash = t
<1>1. TypeOK /\ IInv /\ FinalFixed /\ Ended => Stays
  BY DEF FinalFixed
<1>2. TypeOK /\ IInv /\ FinalFixed /\ Stays /\ [Next]_vars => Stays'
  BY FixedStep DEF IInv
<1>3. Stays => Same
  OBVIOUS
<1>4. Spec => [](Ended => []Same)
  <2> HIDE DEF Ended, Stays, Same
  <2> QED
    BY <1>1, <1>2, <1>3, FinalIsInvariant, PTL DEF Spec
<1> QED
  BY <1>4
=============================================================================
