--------------------------- MODULE WithdrawService ---------------------------
(***************************************************************************)
(* The withdraw service (internal/logic/indexer/                           *)
(* bridge_withdraw_service.go): the main loop of OnStart puts all waiting  *)
(* withdrawals into one L1 transaction; three more goroutines broadcast    *)
(* the signed transactions, look for their confirmations and carry the     *)
(* outcome back to the withdrawals.  They share the two tables only.       *)
(***************************************************************************)
EXTENDS ConstructTx

CONSTANTS
    Worths,          \* values of the outputs considered
    MultisigNums,    \* configured numbers of signatures considered
    Faults,          \* "rpc", "reject", "lost", "record", "db", "crash"
    MaxFaults,       \* bound: faults that happen
    None             \* no transaction, no list

ASSUME WithdrawAssumption ==
    /\ Worths \subseteq [Outputs -> Nat]
    /\ MultisigNums \subseteq Nat
    /\ MaxFaults \in Nat

VARIABLES
    withdraw,    \* withdraw_history: status of each withdrawal
    txs,         \* withdraw_tx: status and B2TxHashes for each BtcTxID
    pool,        \* L1: transactions waiting in the node
    mined,       \* L1: transactions with six confirmations
    multisig,    \* configuration: MultisigNum
    worth,       \* L1: value of each output
    alive,       \* is the broadcasting goroutine there?
    signed,      \* its list
    sent,        \* what it sent last, with the outcome, not yet recorded
    watched,     \* list of the confirming goroutine
    finished,    \* list of the completing goroutine, with the status read
    pc,          \* control state of the main loop
    ids,         \* its list of withdrawals
    scan,        \* ConstructTx while it reads pages: the first page, all
                 \* outputs so far, the number listed and the next page
    tx,          \* the transaction it constructed
    faults       \* number of faults so far

tables == <<withdraw, txs>>
chain == <<pool, mined>>
broadcaster == <<alive, signed, sent>>
config == <<multisig, worth>>
main == <<pc, ids, scan, tx>>
vars == <<tables, chain, config, broadcaster, watched, finished, main, faults>>

TxStatus == {"Pending", "SignatureCompleted", "BroadcastSuccess",
             "BroadcastFailed", "Confirmed", "Success", "Failed"}

TypeOK ==
    /\ withdraw \in [Withdrawals -> {"Absent", "Pending", "SubmitTxMsg", "Success"}]
    /\ DOMAIN txs \subseteq TxId
    /\ \A t \in DOMAIN txs : txs[t] \in [status : TxStatus,
                                         hashes : SUBSET Withdrawals]
    /\ pool \subseteq TxId /\ mined \subseteq TxId
    /\ multisig \in MultisigNums
    /\ worth \in Worths
    /\ alive \in BOOLEAN
    /\ signed \subseteq TxId
    /\ sent = None \/ sent \in [tx : signed,
                                status : {"BroadcastSuccess", "BroadcastFailed"}]
    /\ watched \subseteq TxId
    /\ finished \subseteq [tx : TxId, status : {"Confirmed", "BroadcastFailed"}]
    /\ pc \in {"idle", "construct", "page", "submit"}
    /\ ids \subseteq Withdrawals
    /\ pc = "page" => scan \in [first : Seq(Outputs), unspent : Seq(Outputs),
                                total : Nat, page : Nat]
    /\ pc = "submit" => tx \in TxId /\ Change(worth, tx) >= 0
    /\ faults \in 0 .. MaxFaults

Init ==
    /\ withdraw = [w \in Withdrawals |-> "Absent"]
    /\ txs = [t \in {} |-> {}]
    /\ pool = {} /\ mined = {}
    /\ multisig \in MultisigNums
    /\ worth \in Worths
    /\ alive = TRUE /\ signed = {} /\ sent = None
    /\ watched = {} /\ finished = {}
    /\ pc = "idle" /\ ids = {} /\ scan = None /\ tx = None
    /\ faults = 0

Fault(kind) ==
    /\ kind \in Faults
    /\ faults < MaxFaults
    /\ faults' = faults + 1

HasStatus(S) == {t \in DOMAIN txs : txs[t].status \in S}

\* The main loop starts again.
Idle == pc' = "idle" /\ ids' = {} /\ scan' = None /\ tx' = None

SetTxStatus(t, status) == txs' = [txs EXCEPT ![t].status = status]

-----------------------------------------------------------------------------
(* The environment. *)

\* A withdrawal is requested: another program inserts its row.
Arrive(w) ==
    /\ withdraw[w] = "Absent"
    /\ withdraw' = [withdraw EXCEPT ![w] = "Pending"]
    /\ UNCHANGED <<txs, chain, config, broadcaster, watched, finished, main,
                   faults>>

\* The signers write their signatures into the row.
Sign(t) ==
    /\ txs[t].status = "Pending"
    /\ SetTxStatus(t, "SignatureCompleted")
    /\ UNCHANGED <<withdraw, chain, config, broadcaster, watched, finished,
                   main, faults>>

Mine(t) ==
    /\ t \in pool
    /\ pool' = pool \ {t}
    /\ mined' = mined \union {t}
    /\ UNCHANGED <<tables, config, broadcaster, watched, finished, main,
                   faults>>

Crash ==
    /\ Fault("crash")
    /\ alive' = TRUE /\ signed' = {} /\ sent' = None
    /\ watched' = {} /\ finished' = {}
    /\ Idle
    /\ UNCHANGED <<tables, chain, config>>

-----------------------------------------------------------------------------
(* The main loop. *)

GetPending ==
    /\ pc = "idle"
    /\ ids' = {w \in Withdrawals : withdraw[w] = "Pending"}
    /\ ids' # {}
    /\ pc' = "construct"
    /\ UNCHANGED <<tables, chain, config, broadcaster, watched, finished, scan,
                   tx, faults>>

Inputs(S) == UNION {Range(t.inputs) : t \in S}

\* GetUnspentList: the outputs the API lists.  It may still list the ones that
\* waiting transactions spend.
Listed(S) == S \in {Outputs \ Inputs(mined), Outputs \ Inputs(pool \union mined)}

\* The balance is not looked at.
Build_AnyBalance(outputs, v) ==
    \E n \in 1 .. Len(outputs) :
        /\ IsCut(worth, outputs, n, Merged(ids), v)
        /\ tx' = Tx(outputs, n, Merged(ids), v)
        /\ pc' = "submit" /\ scan' = None /\ UNCHANGED ids

\* The inputs are taken from the outputs that were read, and the rest is change.
Build(outputs, v) ==
    \E n \in 1 .. Len(outputs) :
        /\ IsCut(worth, outputs, n, Merged(ids), v)
        /\ tx' = Tx(outputs, n, Merged(ids), v)
        /\ IF Change(worth, tx') >= 0
           THEN pc' = "submit" /\ scan' = None /\ UNCHANGED ids
           ELSE Idle

ReadOn(first, unspent, total, page) ==
    /\ pc' = "page"
    /\ scan' = [first |-> first, unspent |-> unspent, total |-> total, page |-> page]
    /\ UNCHANGED <<ids, tx>>

\* ConstructTx up to its second call of the API, or to its end.
FirstPage ==
    /\ pc = "construct"
    /\ \E S \in SUBSET Outputs, v \in Variants :
          LET first == Page(List[S], 0)
              total == Len(List[S])
              enough == Sum(worth, first) > Total(Merged(ids)) \/ total < PageSize
          IN /\ Listed(S)
             /\ \/ S = {} /\ Idle
                \/ S # {} /\ enough /\ Build(first, v)
                \/ S # {} /\ ~enough /\ ReadOn(first, first, total, 0)
    /\ UNCHANGED <<tables, chain, config, broadcaster, watched, finished, faults>>

\* As below, but the page is appended before the loop is left.
NextPage_AppendFirst ==
    /\ pc = "page"
    /\ \E S \in SUBSET Outputs, v \in Variants :
          LET next == Page(List[S], scan.page)
              unspent == scan.unspent \o next
              leave == Sum(worth, scan.first) + Sum(worth, next) > Total(Merged(ids))
              last == (scan.page + 2) * PageSize > scan.total
          IN /\ Listed(S)
             /\ \/ (leave \/ last) /\ Build(unspent, v)
                \/ ~leave /\ ~last /\ ReadOn(scan.first, unspent, scan.total, scan.page + 1)
    /\ UNCHANGED <<tables, chain, config, broadcaster, watched, finished, faults>>

\* Another page: the loop begins with the page that was read first, and is left
\* when this page and the first one alone are enough, without taking it.
NextPage ==
    /\ pc = "page"
    /\ \E S \in SUBSET Outputs, v \in Variants :
          LET next == Page(List[S], scan.page)
              unspent == scan.unspent \o next
              leave == Sum(worth, scan.first) + Sum(worth, next) > Total(Merged(ids))
              last == (scan.page + 2) * PageSize > scan.total
          IN /\ Listed(S)
             /\ \/ leave /\ Build(scan.unspent, v)
                \/ ~leave /\ last /\ Build(unspent, v)
                \/ ~leave /\ ~last /\ ReadOn(scan.first, unspent, scan.total, scan.page + 1)
    /\ UNCHANGED <<tables, chain, config, broadcaster, watched, finished, faults>>

\* A call of the API fails.
ConstructFail ==
    /\ pc \in {"construct", "page"}
    /\ Fault("rpc")
    /\ Idle
    /\ UNCHANGED <<tables, chain, config, broadcaster, watched, finished>>

\* A row that is there is left as it is.
StoreTx_NoReset ==
    /\ withdraw' = [w \in Withdrawals |->
                      IF w \in ids THEN "SubmitTxMsg" ELSE withdraw[w]]
    /\ txs' = [t \in DOMAIN txs \union {tx} |->
                 IF t \in DOMAIN txs THEN txs[t]
                 ELSE [status |-> "Pending", hashes |-> ids]]

\* The database transaction: a row with this id that is there already is set
\* back and keeps the withdrawals it was made for.
StoreTx ==
    /\ withdraw' = [w \in Withdrawals |->
                      IF w \in ids THEN "SubmitTxMsg" ELSE withdraw[w]]
    /\ txs' = [t \in DOMAIN txs \union {tx} |->
                 IF t # tx THEN txs[t]
                 ELSE [status |-> "Pending",
                       hashes |-> IF t \in DOMAIN txs THEN txs[t].hashes ELSE ids]]

Submit ==
    /\ pc = "submit"
    /\ StoreTx
    /\ Idle
    /\ UNCHANGED <<chain, config, broadcaster, watched, finished, faults>>

\* The transaction is rolled back, or it commits and the answer is lost.
SubmitFail ==
    /\ pc = "submit"
    /\ Fault("db")
    /\ StoreTx \/ UNCHANGED tables
    /\ Idle
    /\ UNCHANGED <<chain, config, broadcaster, watched, finished>>

-----------------------------------------------------------------------------
(* Broadcasting. *)

GetSigned ==
    /\ alive /\ signed = {}
    /\ signed' = HasStatus({"SignatureCompleted"})
    /\ signed' # {}
    /\ UNCHANGED <<tables, chain, config, alive, sent, watched, finished,
                   main, faults>>

\* signatures is never filled: the first access to signes panics, and recover
\* ends the goroutine.
Panic ==
    /\ signed # {} /\ sent = None
    /\ multisig > 0
    /\ alive' = FALSE /\ signed' = {}
    /\ UNCHANGED <<tables, chain, config, sent, watched, finished, main, faults>>

\* The node takes a transaction that spends nothing twice, that it has not mined
\* and that no other one conflicts with.
Acceptable(t) ==
    /\ IsInjective(t.inputs)
    /\ t \notin mined
    /\ Range(t.inputs) \cap Inputs((pool \union mined) \ {t}) = {}

Send(t, status) ==
    /\ t \in signed /\ sent = None /\ multisig = 0
    /\ sent' = [tx |-> t, status |-> status]
    /\ UNCHANGED <<tables, mined, config, alive, signed, watched, finished, main>>

Broadcast(t) ==
    /\ Acceptable(t)
    /\ pool' = pool \union {t}
    /\ Send(t, "BroadcastSuccess")
    /\ UNCHANGED faults

\* The node refuses it for a conflict, because it has it already, or for a
\* reason of its own.
Refuse(t) ==
    /\ \/ (~Acceptable(t) \/ t \in pool) /\ UNCHANGED faults
       \/ Acceptable(t) /\ Fault("reject")
    /\ Send(t, "BroadcastFailed")
    /\ UNCHANGED pool

\* The node takes it and its answer is lost.
BroadcastLost(t) ==
    /\ Acceptable(t)
    /\ Fault("lost")
    /\ pool' = pool \union {t}
    /\ Send(t, "BroadcastFailed")

Recorded == signed' = signed \ {sent.tx} /\ sent' = None

Record ==
    /\ sent # None
    /\ SetTxStatus(sent.tx, sent.status)
    /\ Recorded
    /\ UNCHANGED <<withdraw, chain, config, alive, watched, finished, main,
                   faults>>

RecordFail ==
    /\ sent # None
    /\ Fault("record")
    /\ Recorded
    /\ UNCHANGED <<tables, chain, config, alive, watched, finished, main>>

-----------------------------------------------------------------------------
(* Confirming. *)

GetBroadcast ==
    /\ watched = {}
    /\ watched' = HasStatus({"BroadcastSuccess"})
    /\ watched' # {}
    /\ UNCHANGED <<tables, chain, config, broadcaster, finished, main, faults>>

\* The number of confirmations is not looked at.
Confirmed_AnyNumber(t) == t \in pool \union mined

Confirmed(t) == t \in mined

Confirm(t) ==
    /\ t \in watched
    /\ IF Confirmed(t) THEN SetTxStatus(t, "Confirmed") ELSE UNCHANGED txs
    /\ watched' = watched \ {t}
    /\ UNCHANGED <<withdraw, chain, config, broadcaster, finished, main, faults>>

ConfirmFail(t) ==
    /\ t \in watched
    /\ Fault("db")
    /\ watched' = watched \ {t}
    /\ UNCHANGED <<tables, chain, config, broadcaster, finished, main>>

-----------------------------------------------------------------------------
(* Completing. *)

\* Failed transactions are not selected.
Final_OnlyConfirmed == {"Confirmed"}

\* Transactions that are done are selected again.
Final_DoneToo == {"Confirmed", "BroadcastFailed", "Success"}

Final == {"Confirmed", "BroadcastFailed"}

GetFinal ==
    /\ finished = {}
    /\ finished' = {[tx |-> t, status |-> txs[t].status] : t \in HasStatus(Final)}
    /\ finished' # {}
    /\ UNCHANGED <<tables, chain, config, broadcaster, watched, main, faults>>

\* One database transaction; a failed transaction gives its withdrawals back.
StoreOutcome(f) ==
    /\ SetTxStatus(f.tx, IF f.status = "Confirmed" THEN "Success" ELSE "Failed")
    /\ withdraw' = [w \in Withdrawals |->
                      IF w \notin txs[f.tx].hashes THEN withdraw[w]
                      ELSE IF f.status = "Confirmed" THEN "Success" ELSE "Pending"]

Complete(f) ==
    /\ f \in finished
    /\ StoreOutcome(f)
    /\ finished' = finished \ {f}
    /\ UNCHANGED <<chain, config, broadcaster, watched, main, faults>>

CompleteFail(f) ==
    /\ f \in finished
    /\ Fault("db")
    /\ StoreOutcome(f) \/ UNCHANGED tables
    /\ finished' = finished \ {f}
    /\ UNCHANGED <<chain, config, broadcaster, watched, main>>

-----------------------------------------------------------------------------
MainLoop == GetPending \/ FirstPage \/ NextPage \/ ConstructFail \/ Submit \/ SubmitFail
Broadcasting ==
    \/ GetSigned \/ Panic \/ Record \/ RecordFail
    \/ \E t \in signed : Broadcast(t) \/ Refuse(t) \/ BroadcastLost(t)
Confirming == GetBroadcast \/ \E t \in watched : Confirm(t) \/ ConfirmFail(t)
Completing == GetFinal \/ \E f \in finished : Complete(f) \/ CompleteFail(f)

Next ==
    \/ \E w \in Withdrawals : Arrive(w)
    \/ \E t \in DOMAIN txs : Sign(t)
    \/ \E t \in pool : Mine(t)
    \/ Crash
    \/ MainLoop \/ Broadcasting \/ Confirming \/ Completing

\* The goroutines run on, the signers sign and the node mines.
Fairness ==
    /\ WF_vars(MainLoop) /\ WF_vars(Broadcasting)
    /\ WF_vars(Confirming) /\ WF_vars(Completing)
    /\ WF_vars(\E t \in DOMAIN txs : Sign(t))
    /\ WF_vars(\E t \in pool : Mine(t))

Spec == Init /\ [][Next]_vars
FairSpec == Spec /\ Fairness

-----------------------------------------------------------------------------
(* Properties. *)

\* The transactions made for a withdrawal that did not fail.
Open(w) == {t \in DOMAIN txs : w \in txs[t].hashes /\ txs[t].status # "Failed"}

\* The two tables agree at every moment, whatever the four goroutines read
\* before the others wrote: a submitted or paid withdrawal is in one transaction
\* that did not fail, a waiting one is in none, so that no two transactions the
\* service believes in pay the same withdrawal.
OneOpenTx ==
    \A w \in Withdrawals :
        IF withdraw[w] \in {"SubmitTxMsg", "Success"}
        THEN \E t \in DOMAIN txs : Open(w) = {t}
        ELSE Open(w) = {}

\* A withdrawal is reported as paid only when a transaction for it has its
\* confirmations.
SuccessIsPaid ==
    \A w \in Withdrawals :
        withdraw[w] = "Success" => \E t \in mined : w \in txs[t].hashes

\* A requested withdrawal is paid in the end, through refused transactions,
\* competing inputs, lost answers and restarts; without signatures, that is,
\* since with them nothing is ever sent, and with outputs each of which is enough.
Plenty ==
    \A o \in Outputs, v \in Variants :
        worth[o] > Total(Merged(Withdrawals)) + Fee(1, Merged(Withdrawals), v)

EventuallyPaid ==
    \A w \in Withdrawals :
        (withdraw[w] = "Pending" /\ multisig = 0 /\ Plenty) ~> withdraw[w] = "Success"

\* No transaction is constructed that spends an output twice, as long as the first
\* answer of the API tells of less than two full pages: the page that is
\* read a second time is appended only when it cannot be enough.
ShortListSpendsOnce ==
    [][(pc' = "submit" /\ pc # "submit" /\ (scan = None \/ scan.total < 2 * PageSize))
          => IsInjective(tx'.inputs)]_main

\* The book the tables are for those who request withdrawals.
HashesOf(S) == {txs[t].hashes : t \in S}

Book == INSTANCE WithdrawBook WITH
            status <- withdraw,
            open <- HashesOf(DOMAIN txs \ HasStatus({"Success", "Failed"})),
            paid <- HashesOf(HasStatus({"Success"})),
            settled <- HashesOf(mined \intersect DOMAIN txs)

\* The service keeps this book: the withdrawals of a transaction go through its life
\* together, whatever rows the goroutines have read before, they are given back only
\* from a transaction that is not reported as paid, are paid only with one that is
\* confirmed, and are not touched any more when they are paid.
KeepsBook == Book!Spec

\* The sequence of model/withdraw.go: a submitted withdrawal is in a transaction
\* that goes on to its end.
SubmittedIsInTx ==
    \A w \in Withdrawals : withdraw[w] = "SubmitTxMsg" => Open(w) # {}

=============================================================================
