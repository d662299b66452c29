---------------------------- MODULE CheckDeposit ----------------------------
(***************************************************************************)
(* The goroutine CheckDeposit of the deposit service (with                 *)
(* EnableRollupListener): it compares the rows of table deposit_history    *)
(* that count as minted with the events the rollup indexer has stored, and *)
(* takes over the transaction of a mint the service did not know of.       *)
(*                                                                         *)
(* The two goroutines share the table of RollupTable only.  What           *)
(* DepositService does to a row until it counts as minted is one step.     *)
(* After that the row may be taken back and comes back with the same       *)
(* transaction, which is FinalKeepsHash of DepositService.                 *)
(***************************************************************************)
EXTENDS RollupTable, FiniteSets

CONSTANTS
    None,          \* no transaction
    Deposits,      \* rows of deposit_history, in the order of their nonces
    value,         \* BtcValue of each of them
    address,       \* BtcFromAAAddress of each of them
    mints,         \* the deposit each event names
    receiver,      \* the address each event credits
    Outcomes,      \* the states in which DepositService may leave each of them
    MintFactor,    \* an amount is multiplied with it when it is minted
    EventDivisor,  \* and divided by it when its event is stored
    BatchLimit,    \* BatchDepositLimit
    MaxFaults      \* bound: number of faults

ASSUME CheckAssumption ==
    /\ Deposits \subseteq Nat
    /\ value \in [Deposits -> Nat]
    /\ mints \in [DepositEvents -> Deposits]
    /\ MintFactor \in Nat \ {0} /\ EventDivisor \in Nat \ {0}
    /\ BatchLimit \in Nat \ {0} /\ MaxFaults \in Nat

TxOf(e) == <<e[1], e[2]>>
Hashes == {TxOf(e) : e \in DepositEvents} \union {None}

\* StatusTrue of DepositService: a row with status success names a transaction
\* that minted the deposit.
ASSUME OutcomeAssumption ==
    /\ \A e \in DepositEvents : TxOf(e) # None
    /\ Outcomes \in
         [Deposits -> SUBSET [status : {"Success", "TxHashExist"}, hash : Hashes]]
    /\ \A d \in Deposits : \A o \in Outcomes[d] : o.status = "Success" =>
         \E e \in DepositEvents : mints[e] = d /\ TxOf(e) = o.hash

VARIABLES
    status,   \* deposit_history: "open" until the deposit counts as minted
    hash,     \* B2TxHash, with B2TxNonce
    check,    \* B2TxCheck
    list,     \* rows of the cycle not yet handled
    faults    \* number of faults so far

table == <<tip, stored>>
row == <<status, hash, check>>
vars == <<table, row, list, faults>>

TypeOK ==
    /\ tip \in 0 .. MaxHeight /\ stored \subseteq DepositEvents
    /\ status \in [Deposits -> {"open", "Success", "TxHashExist"}]
    /\ hash \in [Deposits -> Hashes]
    /\ check \in [Deposits -> {"Pending", "Success", "Failed"}]
    /\ list \subseteq Deposits
    /\ faults \in Nat
    /\ \A d \in Deposits :
          check[d] # "Pending" => status[d] # "TxHashExist" /\ hash[d] # None

Init ==
    /\ TableInit
    /\ status = [d \in Deposits |-> "open"]
    /\ hash = [d \in Deposits |-> None]
    /\ check = [d \in Deposits |-> "Pending"]
    /\ list = {}
    /\ faults = 0

Fault == faults < MaxFaults /\ faults' = faults + 1

-----------------------------------------------------------------------------
(* The other goroutines. *)

RollupIndexer == TableNext /\ UNCHANGED <<row, list, faults>>

Mined(tx) == \E e \in DepositEvents : e[1] <= tip /\ TxOf(e) = tx

\* DepositService is done with a deposit: its transaction is mined, or the
\* contract said that it was minted before.
Settle(d) ==
    /\ status[d] = "open" /\ hash[d] = None
    /\ \E e \in DepositEvents : mints[e] = d /\ Mined(TxOf(e))
    /\ \E o \in Outcomes[d] :
          /\ o.hash = None \/ Mined(o.hash)
          /\ status' = [status EXCEPT ![d] = o.status]
          /\ hash' = [hash EXCEPT ![d] = o.hash]
    /\ UNCHANGED <<table, check, list, faults>>

\* A goroutine that waited for a transaction writes late that it ran out of time.
Reopen(d) ==
    /\ status[d] = "Success"
    /\ Fault
    /\ status' = [status EXCEPT ![d] = "open"]
    /\ UNCHANGED <<table, hash, check, list>>

\* The next look at the row finds the receipt.
Resettle(d) ==
    /\ status[d] = "open" /\ hash[d] # None
    /\ status' = [status EXCEPT ![d] = "Success"]
    /\ UNCHANGED <<table, hash, check, list, faults>>

-----------------------------------------------------------------------------
(* The list of a cycle. *)

\* The rows that are checked are not left out.
ToCheck_Again == {d \in Deposits : status[d] # "open"}

ToCheck == {d \in Deposits : status[d] # "open" /\ check[d] = "Pending"}

\* By nonce; a row without a transaction has nonce 0.
Before(c, d) ==
    \/ hash[c] = None /\ hash[d] # None
    \/ (hash[c] = None <=> hash[d] = None) /\ c < d

\* A row that cannot be decided keeps its place among the first BatchLimit.
List ==
    /\ list = {}
    /\ list' = {d \in ToCheck :
                  Cardinality({c \in ToCheck : Before(c, d)}) < BatchLimit}
    /\ UNCHANGED <<table, row, faults>>

-----------------------------------------------------------------------------
(* One row. *)

Take(d) ==
    /\ d \in list /\ \A c \in list : ~Before(c, d)
    /\ list' = list \ {d}
    /\ UNCHANGED table

\* First by transaction hash: the row with the lowest id, which may be any.
EventsOf(d) == {e \in stored : mints[e] = d}

\* Bridge.Deposit mints the amount of the row times MintFactor, the event has
\* that amount, and handelDepositEvent stores it divided by EventDivisor.
StoredValue(e) == (value[mints[e]] * MintFactor) \div EventDivisor

Agrees(d, e) == receiver[e] = address[d] /\ StoredValue(e) = value[d]

\* No event yet: the next cycle looks again.
NotStored(d) ==
    /\ Take(d)
    /\ EventsOf(d) = {}
    /\ UNCHANGED <<row, faults>>

\* The row was read with status success; it may have been taken back since.
Compare(d) ==
    /\ Take(d)
    /\ status[d] # "TxHashExist"
    /\ \E e \in EventsOf(d) :
          check' = [check EXCEPT ![d] = IF Agrees(d, e) THEN "Success" ELSE "Failed"]
    /\ UNCHANGED <<status, hash, faults>>

\* The status is not written.
TakeOver_KeepsStatus(d) ==
    /\ Take(d)
    /\ status[d] = "TxHashExist"
    /\ \E e \in EventsOf(d) :
          /\ hash[d] # TxOf(e)
          /\ hash' = [hash EXCEPT ![d] = TxOf(e)]
          /\ check' = [check EXCEPT ![d] = "Success"]
    /\ UNCHANGED <<status, faults>>

\* The hash is not written.
TakeOver_KeepsHash(d) ==
    /\ Take(d)
    /\ status[d] = "TxHashExist"
    /\ \E e \in EventsOf(d) :
          /\ hash[d] # TxOf(e)
          /\ status' = [status EXCEPT ![d] = "Success"]
          /\ check' = [check EXCEPT ![d] = "Success"]
    /\ UNCHANGED <<hash, faults>>

\* The row takes over the transaction of the event.
TakeOver(d) ==
    /\ Take(d)
    /\ status[d] = "TxHashExist"
    /\ \E e \in EventsOf(d) :
          /\ hash[d] # TxOf(e)
          /\ status' = [status EXCEPT ![d] = "Success"]
          /\ hash' = [hash EXCEPT ![d] = TxOf(e)]
          /\ check' = [check EXCEPT ![d] = "Success"]
    /\ UNCHANGED faults

\* The row names the event already: no branch is for it.
NoBranch(d) ==
    /\ Take(d)
    /\ status[d] = "TxHashExist"
    /\ \E e \in EventsOf(d) : hash[d] = TxOf(e)
    /\ UNCHANGED <<row, faults>>

\* A query, TransactionByHash or the update fails: the next cycle looks again.
CheckFail(d) ==
    /\ Take(d)
    /\ Fault
    /\ UNCHANGED row

\* The process dies.
Crash ==
    /\ Fault
    /\ list' = {}
    /\ UNCHANGED <<table, row>>

CheckDeposit ==
    \/ List
    \/ \E d \in list : NotStored(d) \/ Compare(d) \/ TakeOver(d) \/ NoBranch(d)
                       \/ CheckFail(d)

Next ==
    \/ RollupIndexer
    \/ \E d \in Deposits : Settle(d) \/ Reopen(d) \/ Resettle(d)
    \/ CheckDeposit \/ Crash

Spec == Init /\ [][Next]_vars

\* The goroutine repeats its cycle every ten seconds.
FairSpec == Spec /\ WF_vars(CheckDeposit)

-----------------------------------------------------------------------------
(* Properties. *)

MintedOnce(d) == \A e, f \in DepositEvents : mints[e] = d /\ mints[f] = d => e = f

\* A checked row names the event it was checked against, although the branch
\* that compares does not look at the hash: as long as the deposit was minted
\* once, whoever minted it.
CheckedNamesItsEvent ==
    \A d \in Deposits : check[d] # "Pending" /\ MintedOnce(d) =>
        \E e \in EventsOf(d) : hash[d] = TxOf(e)

\* No branch decides the row, now or later: its event is not stored, or the row
\* counts as minted before by the very transaction it names.
Undecided(d) ==
    \/ EventsOf(d) = {}
    \/ status[d] = "TxHashExist" /\ \E e \in EventsOf(d) : hash[d] = TxOf(e)

Due(d) ==
    /\ d \in ToCheck /\ ~Undecided(d)
    /\ Cardinality({c \in ToCheck : Undecided(c) /\ Before(c, d)}) < BatchLimit

\* A row whose event is stored is decided in the end, unless rows that cannot
\* be decided fill the list before it.
EventuallyChecked ==
    \A d \in Deposits : Due(d) ~> (check[d] # "Pending" \/ ~Due(d))
=============================================================================
