--------------------------- MODULE DepositService ---------------------------
(***************************************************************************)
(* The deposit service (bridge_deposit_service.go) with the bridge client  *)
(* it calls (bridge.go): the goroutine Deposit takes the rows of table     *)
(* deposit_history through their states, sends one L2 transaction at a     *)
(* time and starts, for each one sent, a goroutine that waits until it is  *)
(* mined.  The rows survive a crash; the goroutines do not.                *)
(***************************************************************************)
EXTENDS L2Chain, FiniteSets

CONSTANTS
    None,           \* no transaction, no job
    RetryLimit,     \* the 300 of GetTxToDeposit
    BatchLimit,     \* BatchDepositLimit
    MaxPrice,       \* bound: price up to which a waiting transaction is bumped
    InitialKey,     \* key of the first start
    Registered,     \* deposits whose sender has an AA address from the start
    Faults,         \* kinds of fault that may happen
    MaxFaults       \* bound: number of faults

ASSUME ServiceAssumption ==
    /\ RetryLimit \in Nat /\ BatchLimit \in Nat /\ MaxPrice \in Nat
    /\ InitialKey \in Keys
    /\ Registered \subseteq Deposits
    /\ MaxFaults \in Nat

\* model/deposit.go; "Absent": the indexer has not stored the deposit yet.
Statuses == {"Absent", "Success", "Pending", "WaitMinedFailed", "TxHashExist",
             "WaitMinedStatusFailed", "InsufficientBalance",
             "ContextDeadlineExceeded", "FromAccountGasInsufficient",
             "WaitMined", "AAAddressNotFound", "IsPending", "NonceToLow"}

\* B2TxHash, B2TxNonce and B2TxFrom are always written together: hash stands
\* for the three.
Row == [status : Statuses, hash : Tx \union {None}, retry : Nat]
Snapshot == [dep : Deposits, row : Row]
Verdicts == {"Success", "WaitMinedStatusFailed", "ContextDeadlineExceeded",
             "WaitMinedFailed"}
Waiter == [tx : Tx, verdict : Verdicts \union {"waiting"}, late : BOOLEAN]
ErrorKinds == {"none", "exist", "balance", "gas", "known", "low", "other"}

ASSUME NoneAssumption == None \notin Tx /\ None \notin Snapshot

VARIABLES
    row,         \* deposit_history
    registered,  \* deposits GetPubKey finds an address for
    key,         \* the key in the configuration
    pc,          \* control state of the goroutine Deposit
    mode,        \* which of its three lists it works on
    batch,       \* the rows of the list still to handle, as they were read
    job,         \* the row being handled
    old,         \* HandleDeposit's oldTx
    reset,       \* HandleDeposit's resetNonce
    tx,          \* the signed transaction
    err,         \* the error Bridge.Deposit returned
    waiters,     \* the goroutines started by HandleDeposit
    faults       \* number of faults so far

main == <<pc, mode, batch, job, old, reset, tx, err>>
vars == <<chain, row, registered, key, main, waiters, faults>>

TypeOK ==
    /\ ChainTypeOK
    /\ row \in [Deposits -> Row]
    /\ registered \subseteq Deposits
    /\ key \in Keys
    /\ pc \in {"down", "sleep", "pick", "lookup", "confirm", "nonce", "send",
               "record", "await", "failed"}
    /\ mode \in {"unconfirmed", "pending", "aa"}
    /\ batch \subseteq Snapshot
    /\ job \in Snapshot \union {None}
    /\ old \in Tx \union {None}
    /\ reset \in BOOLEAN
    /\ tx \in Tx \union {None}
    /\ err \in ErrorKinds
    /\ waiters \subseteq Waiter
    /\ faults \in Nat

Init ==
    /\ ChainInit
    /\ row = [d \in Deposits |-> [status |-> "Absent", hash |-> None, retry |-> 0]]
    /\ registered = Registered
    /\ key = InitialKey
    /\ pc = "sleep" /\ mode = "unconfirmed"
    /\ batch = {} /\ job = None /\ old = None /\ reset = FALSE
    /\ tx = None /\ err = "none"
    /\ waiters = {}
    /\ faults = 0

Fault(kind) ==
    /\ kind \in Faults
    /\ faults < MaxFaults
    /\ faults' = faults + 1

SetStatus(d, status) == row' = [row EXCEPT ![d].status = status]

\* A write that fails: it may have been done all the same.
MaybeSetStatus(d, status) == UNCHANGED row \/ SetStatus(d, status)

IsMined(hash) == hash \in mined

\* The status of the receipt is not looked at.
ReceiptStatus_Ignored(hash) == "Success"

ReceiptStatus(hash) ==
    IF hash \in reverted THEN "WaitMinedStatusFailed" ELSE "Success"

-----------------------------------------------------------------------------
(* The lists of the loop of Deposit. *)

\* A list of unconfirmed deposits that forgets those out of time.
Selected_NoDeadline(m) ==
    CASE m = "unconfirmed" ->
           {"WaitMined", "WaitMinedFailed", "IsPending", "NonceToLow"}
      [] m = "pending" ->
           {"Pending", "InsufficientBalance", "FromAccountGasInsufficient"}
      [] m = "aa" -> {"AAAddressNotFound"}

Selected(m) ==
    CASE m = "unconfirmed" ->
           {"ContextDeadlineExceeded", "WaitMined", "WaitMinedFailed",
            "IsPending", "NonceToLow"}
      [] m = "pending" ->
           {"Pending", "InsufficientBalance", "FromAccountGasInsufficient"}
      [] m = "aa" -> {"AAAddressNotFound"}

Wanted(m) == {d \in Deposits :
    /\ row[d].status \in Selected(m)
    /\ m = "pending" => row[d].retry <= RetryLimit}

\* Only the list of unconfirmed deposits has no limit.
WithinLimit(S) == {d \in S : Cardinality({e \in S : e < d}) < BatchLimit}

Query(m) ==
    {[dep |-> d, row |-> row[d]] :
        d \in IF m = "unconfirmed" THEN Wanted(m) ELSE WithinLimit(Wanted(m))}

NonceOf(r) == IF r.hash = None THEN 0 ELSE r.hash.nonce

\* Order of the lists: by nonce, or by L1 position.
Precedes(s, u) == IF mode = "unconfirmed" THEN NonceOf(s.row) < NonceOf(u.row)
                                          ELSE s.dep < u.dep

IsNext(s) == s \in batch /\ \A u \in batch : ~Precedes(u, s)

BeginCycle ==
    /\ pc = "sleep"
    /\ mode' = "unconfirmed"
    /\ batch' = Query("unconfirmed")
    /\ pc' = "pick"
    /\ UNCHANGED <<chain, row, registered, key, job, old, reset, tx, err,
                   waiters, faults>>

NextList == IF mode = "unconfirmed" THEN "pending" ELSE "aa"

EndList ==
    /\ pc = "pick" /\ batch = {} /\ mode # "aa"
    /\ mode' = NextList
    /\ batch' = Query(NextList)
    /\ UNCHANGED <<chain, row, registered, key, pc, job, old, reset, tx, err,
                   waiters, faults>>

\* GetTxToDeposit failed: the error is only logged, the list is empty.
EndListFail ==
    /\ pc = "pick" /\ batch = {} /\ mode = "unconfirmed"
    /\ Fault("db")
    /\ mode' = "pending"
    /\ UNCHANGED <<chain, row, registered, key, pc, batch, job, old, reset, tx,
                   err, waiters>>

EndCycle ==
    /\ pc = "pick" /\ batch = {} /\ mode = "aa"
    /\ pc' = "sleep"
    /\ mode' = "unconfirmed"
    /\ UNCHANGED <<chain, row, registered, key, batch, job, old, reset, tx, err,
                   waiters, faults>>

\* The handler of deposit d returns; an error ends the list of unconfirmed
\* deposits and with it the cycle, but not the other lists.
Return(d, ok) ==
    /\ IF ok \/ mode # "unconfirmed"
       THEN pc' = "pick" /\ batch' = {s \in batch : s.dep # d}
       ELSE pc' = "sleep" /\ batch' = {}
    /\ job' = None /\ old' = None /\ reset' = FALSE /\ tx' = None /\ err' = "none"
    /\ UNCHANGED mode

-----------------------------------------------------------------------------
(* HandleUnconfirmedDeposit *)

\* The receipt is there.
ReceiptFound(s) ==
    /\ pc = "pick" /\ mode = "unconfirmed" /\ IsNext(s)
    /\ IsMined(s.row.hash)
    /\ \/ /\ SetStatus(s.dep, ReceiptStatus(s.row.hash))
          /\ Return(s.dep, TRUE)
          /\ UNCHANGED faults
       \/ /\ Fault("db")
          /\ MaybeSetStatus(s.dep, ReceiptStatus(s.row.hash))
          /\ Return(s.dep, FALSE)
    /\ UNCHANGED <<chain, registered, key, waiters>>

ReceiptNotFound(s) ==
    /\ pc = "pick" /\ mode = "unconfirmed" /\ IsNext(s)
    /\ ~IsMined(s.row.hash)
    /\ job' = s
    /\ reset' = \/ s.row.status = "NonceToLow"
                \/ s.row.hash = None
                \/ s.row.hash # None /\ s.row.hash.from # key
    /\ pc' = "lookup"
    /\ UNCHANGED <<chain, row, registered, key, mode, batch, old, tx, err,
                   waiters, faults>>

ReceiptFail(s) ==
    /\ pc = "pick" /\ mode = "unconfirmed" /\ IsNext(s)
    /\ Fault("rpc")
    /\ Return(s.dep, FALSE)
    /\ UNCHANGED <<chain, row, registered, key, waiters>>

\* TransactionByHash: it waits (and is bumped), or the node does not know it.
\* A transaction at MaxPrice is left until it is mined: the bound.
Lookup ==
    /\ pc = "lookup"
    /\ job.row.hash \notin mined
    /\ \/ job.row.hash \in pool /\ job.row.hash.price < MaxPrice
          /\ old' = job.row.hash
       \/ job.row.hash \notin pool /\ old' = None
    /\ pc' = "confirm"
    /\ UNCHANGED <<chain, row, registered, key, mode, batch, job, reset, tx,
                   err, waiters, faults>>

\* It was mined since the receipt was asked for: the error of that call is
\* returned.
LookupMined ==
    /\ pc = "lookup"
    /\ job.row.hash \in mined
    /\ Return(job.dep, FALSE)
    /\ UNCHANGED <<chain, row, registered, key, waiters, faults>>

LookupFail ==
    /\ pc = "lookup"
    /\ Fault("rpc")
    /\ Return(job.dep, FALSE)
    /\ UNCHANGED <<chain, row, registered, key, waiters>>

-----------------------------------------------------------------------------
(* HandleDeposit *)

TakeJob(s) ==
    /\ pc = "pick" /\ mode # "unconfirmed" /\ IsNext(s)
    /\ job' = s
    /\ pc' = "confirm"
    /\ UNCHANGED <<chain, row, registered, key, mode, batch, old, reset, tx,
                   err, waiters, faults>>

\* Bridge.Deposit returns an error.
Failed(kind) == pc' = "failed" /\ err' = kind /\ UNCHANGED tx

\* GetPubKey returns an address: the service knows the L1 transaction, with its
\* sender and network, and a receiver for it.
GetPubKey(d) == d \in registered

\* CheckConfirmations, then the AA address of the sender.
Confirm ==
    /\ pc = "confirm"
    /\ IF GetPubKey(job.dep)
       THEN pc' = "nonce" /\ UNCHANGED <<tx, err>>
       ELSE Failed("other")
    /\ UNCHANGED <<chain, row, registered, key, mode, batch, job, old, reset,
                   waiters, faults>>

\* The L1 transaction cannot be read or lacks confirmations.
ConfirmFail ==
    /\ pc = "confirm"
    /\ Fault("l1")
    /\ Return(job.dep, FALSE)
    /\ UNCHANGED <<chain, row, registered, key, waiters>>

\* The nonce of the row may be used again; NonceOf = 0 means none.
Reuses == NonceOf(job.row) # 0 /\ ~reset

Sign(nonce, price) ==
    /\ tx' = [dep |-> job.dep, from |-> key, nonce |-> nonce, price |-> price]
    /\ pc' = "send"
    /\ UNCHANGED err

\* The same, without looking at the nonce of the row.
PickNonce_AlwaysNew ==
    /\ pc = "nonce" /\ old = None
    /\ \E n \in FirstNonce .. MaxNonce : IsPendingNonce(key, n) /\ Sign(n, 1)
    /\ UNCHANGED <<chain, row, registered, key, mode, batch, job, old, reset,
                   waiters, faults>>

\* sendTransaction, up to the signature: a nonce of the row that is too high
\* is an error (ErrOldNonceToHeight).
PickNonce ==
    /\ pc = "nonce" /\ old = None
    /\ IF Reuses
       THEN IF NonceOf(job.row) > account[key]
            THEN Failed("other")
            ELSE Sign(NonceOf(job.row), 1)
       ELSE \E n \in FirstNonce .. MaxNonce : IsPendingNonce(key, n) /\ Sign(n, 1)
    /\ UNCHANGED <<chain, row, registered, key, mode, batch, job, old, reset,
                   waiters, faults>>

\* retrySendTransaction: the transaction that waits, at twice the price.  Its
\* estimate may fail for a reason the contract or the node gives.
BumpPrice ==
    /\ pc = "nonce" /\ old # None
    /\ LET nonce == IF reset THEN account[key] ELSE old.nonce
       IN  IF nonce > account[key]
           THEN Failed("other") /\ UNCHANGED faults
           ELSE \/ Sign(nonce, old.price + 1) /\ UNCHANGED faults
                \/ /\ Fault("estimate")
                   /\ \E kind \in {"exist", "balance", "gas", "other"} :
                         Failed(kind)
    /\ UNCHANGED <<chain, row, registered, key, mode, batch, job, old, reset,
                   waiters>>

\* SendTransaction.
Send ==
    /\ pc = "send"
    /\ \/ Acceptable(tx) /\ Accept(tx) /\ pc' = "record" /\ UNCHANGED <<tx, err>>
       \/ AlreadyKnown(tx) /\ Failed("known") /\ UNCHANGED chain
       \/ NonceTooLow(tx) /\ Failed("low") /\ UNCHANGED chain
       \/ Underpriced(tx) /\ Failed("other") /\ UNCHANGED chain
    /\ UNCHANGED <<row, registered, key, mode, batch, job, old, reset, waiters,
                   faults>>

\* The node accepts it and the answer is lost.
SendLost ==
    /\ pc = "send"
    /\ Fault("lost")
    /\ Acceptable(tx) /\ Accept(tx)
    /\ Failed("other")
    /\ UNCHANGED <<row, registered, key, mode, batch, job, old, reset, waiters>>

\* A call to the L2 node fails.
CallFail ==
    /\ pc \in {"nonce", "send"}
    /\ Fault("rpc")
    /\ Failed("other")
    /\ UNCHANGED <<chain, row, registered, key, mode, batch, job, old, reset,
                   waiters>>

\* The first hash is kept when the transaction is replaced.
RecordedRow_FirstHash ==
    [row EXCEPT ![job.dep].status = "WaitMined",
                ![job.dep].hash = IF @ = None THEN tx ELSE @]

RecordedRow ==
    [row EXCEPT ![job.dep].status = "WaitMined", ![job.dep].hash = tx]

\* The row names the transaction, and a goroutine waits for it.
Record ==
    /\ pc = "record"
    /\ row' = RecordedRow
    /\ waiters' = waiters \union {[tx |-> tx, verdict |-> "waiting", late |-> FALSE]}
    /\ pc' = "await"
    /\ UNCHANGED <<chain, registered, key, mode, batch, job, old, reset, tx,
                   err, faults>>

RecordFail ==
    /\ pc = "record"
    /\ Fault("db")
    /\ row' \in {row, RecordedRow}
    /\ Return(job.dep, FALSE)
    /\ UNCHANGED <<chain, registered, key, waiters>>

\* The goroutine whose channel the service listens to.
Awaited(w) == pc = "await" /\ w.tx = tx /\ ~w.late

\* The timer runs out before the deadline of WaitMined.
Timeout_Early ==
    /\ pc = "await"
    /\ waiters' = {[w EXCEPT !.late = TRUE] : w \in waiters}
    /\ Return(job.dep, TRUE)
    /\ UNCHANGED <<chain, row, registered, key, faults>>

\* The timer of HandleDeposit: ten seconds after the deadline of WaitMined.
\* It is also what ends the wait for a transaction that was mined.
Timeout ==
    /\ pc = "await"
    /\ \A w \in waiters : Awaited(w) => w.verdict # "waiting"
    /\ waiters' = {[w EXCEPT !.late = TRUE] : w \in waiters}
    /\ Return(job.dep, TRUE)
    /\ UNCHANGED <<chain, row, registered, key, faults>>

\* The status of the row after an error of Bridge.Deposit.
ErrorStatus(hasReceipt) ==
    CASE err = "exist" -> IF hasReceipt
                          THEN ReceiptStatus(job.row.hash) ELSE "TxHashExist"
      [] err = "balance" -> "InsufficientBalance"
      [] err = "gas" -> "FromAccountGasInsufficient"
      [] err = "known" -> IF job.row.hash # None
                          THEN "IsPending" ELSE job.row.status
      [] err = "low" -> "NonceToLow"
      [] err = "other" -> "Pending"

ErrorRow(hasReceipt) ==
    [row EXCEPT ![job.dep].status = ErrorStatus(hasReceipt),
                ![job.dep].retry = IF err = "other" THEN job.row.retry + 1 ELSE @]

\* The default case returns nil.  A receipt that cannot be read counts as one
\* that is not there.
HandleError ==
    /\ pc = "failed"
    /\ \/ row' = ErrorRow(IsMined(job.row.hash)) /\ UNCHANGED faults
       \/ err = "exist" /\ Fault("rpc") /\ row' = ErrorRow(FALSE)
    /\ Return(job.dep, err = "other")
    /\ UNCHANGED <<chain, registered, key, waiters>>

HandleErrorFail ==
    /\ pc = "failed"
    /\ Fault("db")
    /\ row' \in {row, ErrorRow(IsMined(job.row.hash))}
    /\ Return(job.dep, FALSE)
    /\ UNCHANGED <<chain, registered, key, waiters>>

-----------------------------------------------------------------------------
(* WaitMined, one goroutine for each transaction recorded. *)

\* The wait ends: mined, out of time, or (Dial) no connection.
Verdict(w) ==
    /\ w.verdict = "waiting"
    /\ \E v \in Verdicts :
        /\ CASE v \in {"Success", "WaitMinedStatusFailed"} ->
                  w.tx \in mined /\ v = ReceiptStatus(w.tx) /\ UNCHANGED faults
             [] v = "ContextDeadlineExceeded" -> UNCHANGED faults
             [] v = "WaitMinedFailed" -> Fault("rpc")
        /\ waiters' = (waiters \ {w}) \union {[w EXCEPT !.verdict = v]}
    /\ UNCHANGED <<chain, row, registered, key, main>>

\* HandleDeposit receives an error from the goroutine it listens to, and
\* nothing at all when the transaction was mined.
Report(w, ok) ==
    IF Awaited(w) /\ ~ok THEN Return(w.tx.dep, FALSE) ELSE UNCHANGED main

\* The status is written before the wait ended.
Write_Early(w) ==
    /\ SetStatus(w.tx.dep, w.verdict)
    /\ waiters' = waiters \ {w}
    /\ Report(w, w.verdict = "Success")
    /\ UNCHANGED <<chain, registered, key, faults>>

Write(w) ==
    /\ w.verdict # "waiting"
    /\ SetStatus(w.tx.dep, w.verdict)
    /\ waiters' = waiters \ {w}
    /\ Report(w, w.verdict = "Success")
    /\ UNCHANGED <<chain, registered, key, faults>>

WriteFail(w) ==
    /\ w.verdict # "waiting"
    /\ Fault("db")
    /\ MaybeSetStatus(w.tx.dep, w.verdict)
    /\ waiters' = waiters \ {w}
    /\ Report(w, FALSE)
    /\ UNCHANGED <<chain, registered, key>>

-----------------------------------------------------------------------------
(* The environment. *)

\* The indexer stores a deposit.
Arrive(d) ==
    /\ row[d].status = "Absent"
    /\ SetStatus(d, "Pending")
    /\ UNCHANGED <<chain, registered, key, main, waiters, faults>>

\* The sender gets an AA address.
Register(d) ==
    /\ d \notin registered
    /\ registered' = registered \union {d}
    /\ UNCHANGED <<chain, row, key, main, waiters, faults>>

MineOne ==
    /\ \E t \in pool : Mine(t, TRUE)
    /\ UNCHANGED <<row, registered, key, main, waiters, faults>>

\* A transaction fails on the chain, or one the node no longer holds is mined.
MineOther ==
    /\ \/ Fault("revert") /\ \E t \in pool : Mine(t, FALSE)
       \/ Fault("resurface") /\ \E t \in sent \ pool : Mine(t, TRUE)
    /\ UNCHANGED <<row, registered, key, main, waiters>>

EvictOne ==
    /\ Fault("evict")
    /\ \E t \in pool : Evict(t)
    /\ UNCHANGED <<row, registered, key, main, waiters>>

Crash ==
    /\ pc # "down"
    /\ Fault("crash")
    /\ pc' = "down" /\ mode' = "unconfirmed" /\ batch' = {}
    /\ job' = None /\ old' = None /\ reset' = FALSE /\ tx' = None /\ err' = "none"
    /\ waiters' = {}
    /\ UNCHANGED <<chain, row, registered, key>>

Restart ==
    /\ pc = "down"
    /\ pc' = "sleep"
    /\ UNCHANGED <<chain, row, registered, key, mode, batch, job, old, reset,
                   tx, err, waiters, faults>>

\* The service is stopped while nothing is going on and started again with
\* another key in the configuration.
RotateKey ==
    /\ pc = "sleep" /\ waiters = {}
    /\ Fault("rotate")
    /\ key' \in Keys \ {key}
    /\ UNCHANGED <<chain, row, registered, main, waiters>>

-----------------------------------------------------------------------------
HandleUnconfirmedDeposit ==
    \/ \E s \in batch : ReceiptFound(s) \/ ReceiptNotFound(s) \/ ReceiptFail(s)
    \/ Lookup \/ LookupMined \/ LookupFail

HandleDeposit ==
    \/ \E s \in batch : TakeJob(s)
    \/ Confirm \/ ConfirmFail
    \/ PickNonce \/ BumpPrice
    \/ Send \/ SendLost \/ CallFail
    \/ Record \/ RecordFail
    \/ Timeout
    \/ HandleError \/ HandleErrorFail

Deposit ==
    \/ BeginCycle \/ EndList \/ EndListFail \/ EndCycle
    \/ HandleUnconfirmedDeposit
    \/ HandleDeposit

WaitMined == \E w \in waiters : Verdict(w) \/ Write(w) \/ WriteFail(w)

Environment ==
    \/ \E d \in Deposits : Arrive(d) \/ Register(d)
    \/ MineOne \/ MineOther \/ EvictOne
    \/ Crash \/ Restart \/ RotateKey

Next == Deposit \/ WaitMined \/ Environment

\* The loop goes on as long as it can, goroutines end, the L2 chain mines the
\* transactions that wait and the command is started again after a crash.
Fairness ==
    /\ WF_vars(Deposit) /\ WF_vars(WaitMined)
    /\ WF_vars(MineOne) /\ WF_vars(Restart)

Spec == Init /\ [][Next]_vars
FairSpec == Spec /\ Fairness

-----------------------------------------------------------------------------
(* Properties. *)

\* No deposit is minted twice.  The contract cannot refuse a second mint, so
\* this rests on the service alone: it never signs a second nonce for a
\* deposit while a transaction of the first one may still be mined.
NoDoubleMint == \A d \in Deposits : \A t, u \in Mints(d) : t = u

\* Every transaction that waits is named by the row of its deposit, or about
\* to be: a later look at the row finds it.
NoOrphan ==
    \A t \in pool : row[t.dep].hash = t \/ (pc = "record" /\ tx = t)

\* A final status is true of the very transaction the row names, whichever
\* goroutine wrote it and however late.
StatusTrue ==
    \A d \in Deposits :
        /\ row[d].status = "Success" => row[d].hash \in Mints(d)
        /\ row[d].status = "WaitMinedStatusFailed" => row[d].hash \in reverted

\* The statuses a receipt gives, and those of rows the service may send for without
\* a look at the receipt, or is yet to get.
Final == {"Success", "WaitMinedStatusFailed"}
Early == {"Absent"} \union Selected("pending") \union Selected("aa")

\* The transaction of the row is mined and nothing under way will send another.
Fixed(d) ==
    /\ row[d].hash \in mined
    /\ row[d].status \notin Early
    /\ job # None /\ job.dep = d => pc = "await"
    /\ mode # "unconfirmed" =>
          \A s \in batch : s.dep = d => pc = "await" /\ job # None /\ job.dep = d

\* A deposit that once had a final status has the same transaction for ever.  A
\* goroutine that is late may take the status back, and the deposit is handled
\* again, but always with the same outcome.
FinalKeepsHash ==
    [][\A d \in Deposits : row[d].status \in Final \/ Fixed(d) =>
          Fixed(d)' /\ row'[d].hash = row[d].hash]_vars

Settled(d) ==
    row[d].status \in {"Success", "WaitMinedStatusFailed", "TxHashExist"}

\* No list selects the row any more.
Abandoned(d) ==
    row[d].status \in Selected("pending") /\ row[d].retry > RetryLimit

\* Every deposit comes to an end it does not leave: a final status, or the end
\* of its retries.  A goroutine that is late may take a final status back, but
\* not for ever.
EventuallySettled ==
    \A d \in Deposits :
        <>[](row[d].status = "Absent" \/ Settled(d) \/ Abandoned(d))

\* The comment of handleAADeposit: a deposit whose sender is not registered
\* is handled again next time.
RegisteredIsServed ==
    \A d \in Deposits :
        (row[d].status # "Absent" /\ d \in registered) ~> Settled(d)
=============================================================================
