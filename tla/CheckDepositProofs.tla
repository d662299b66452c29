------------------------- MODULE CheckDepositProofs -------------------------
(***************************************************************************)
(* Proofs about CheckDeposit, for every set of events, every way the       *)
(* deposit service leaves a row and any number of faults.                  *)
(***************************************************************************)
EXTENDS CheckDeposit, TLAPS

\* A row with status success, also when it was taken back, names a transaction that
\* minted its deposit.
SuccessNamed ==
    \A d \in Deposits :
        status[d] = "Success" \/ (status[d] = "open" /\ hash[d] # None) =>
            \E e \in DepositEvents : mints[e] = d /\ TxOf(e) = hash[d]

\* A row is checked against an event of the table only.
CheckedHasEvent == \A d \in Deposits : check[d] # "Pending" => EventsOf(d) # {}

\* A row of the list counts as minted, or did.
Listed == \A d \in list : status[d] # "open" \/ hash[d] # None

IInv == TypeOK /\ SuccessNamed /\ CheckedHasEvent /\ Listed

-----------------------------------------------------------------------------
LEMMA TxIsHash == \A e \in DepositEvents : TxOf(e) \in Hashes
BY DEF Hashes

LEMMA InitStep == Init => IInv
BY HeightAssumption
   DEF Init, TableInit, IInv, TypeOK, SuccessNamed, CheckedHasEvent, Listed, Hashes

\* The table keeps its rows.
LEMMA TableStep ==
    ASSUME TypeOK, TableNext
    PROVE  /\ tip' \in 0 .. MaxHeight /\ stored' \subseteq DepositEvents
           /\ stored \subseteq stored'
<1>1. CASE Grow
  BY <1>1, HeightAssumption DEF Grow, TypeOK
<1>2. ASSUME NEW e \in DepositEvents, Store(e)
      PROVE  /\ tip' \in 0 .. MaxHeight /\ stored' \subseteq DepositEvents
             /\ stored \subseteq stored'
  BY <1>2 DEF Store, TypeOK
<1> QED
  BY <1>1, <1>2 DEF TableNext

LEMMA SettleStep ==
    ASSUME IInv, NEW d \in Deposits, Settle(d)
    PROVE  IInv'
<1>1. PICK o \in Outcomes[d] :
         /\ status' = [status EXCEPT ![d] = o.status]
         /\ hash' = [hash EXCEPT ![d] = o.hash]
  BY DEF Settle
<1>2. o.status \in {"Success", "TxHashExist"} /\ o.hash \in Hashes
  <2>1. Outcomes[d] \subseteq [status : {"Success", "TxHashExist"}, hash : Hashes]
    BY OutcomeAssumption
  <2>2. o \in [status : {"Success", "TxHashExist"}, hash : Hashes]
    BY <2>1
  <2> QED
    BY <2>2
<1>3. o.status = "Success" => \E e \in DepositEvents : mints[e] = d /\ TxOf(e) = o.hash
  BY <1>1, OutcomeAssumption
<1> USE DEF IInv, TypeOK
<1>4. /\ status[d] = "open" /\ hash[d] = None /\ check[d] = "Pending"
      /\ UNCHANGED <<tip, stored, check, list, faults>>
  BY DEF Settle, table
<1>5. TypeOK'
  BY <1>1, <1>2, <1>4
<1>6. SuccessNamed'
  BY <1>1, <1>2, <1>3 DEF SuccessNamed
<1>7. CheckedHasEvent' /\ Listed'
  BY <1>1, <1>2, <1>4 DEF CheckedHasEvent, Listed, EventsOf
<1> QED
  BY <1>5, <1>6, <1>7

LEMMA SuccessHasHash ==
    ASSUME SuccessNamed, NEW d \in Deposits, status[d] = "Success"
    PROVE  hash[d] # None
<1>1. \E e \in DepositEvents : TxOf(e) = hash[d]
  BY DEF SuccessNamed
<1> QED
  BY <1>1, OutcomeAssumption

\* A row that is taken back, or comes back, keeps its transaction.
LEMMA ReopenStep ==
    ASSUME IInv, NEW d \in Deposits, Reopen(d) \/ Resettle(d)
    PROVE  IInv'
<1> USE DEF IInv, TypeOK
<1>1. PICK s \in {"open", "Success"} : status' = [status EXCEPT ![d] = s]
  BY DEF Reopen, Resettle
<1>2. /\ status[d] = "Success" \/ (status[d] = "open" /\ hash[d] # None)
      /\ UNCHANGED <<tip, stored, hash, check, list>> /\ faults' \in Nat
  BY DEF Reopen, Resettle, Fault, table
<1>3. hash[d] # None
  BY <1>2, SuccessHasHash
<1>4. TypeOK'
  BY <1>1, <1>2, <1>3
<1>5. SuccessNamed' /\ CheckedHasEvent' /\ Listed'
  BY <1>1, <1>2, <1>3 DEF SuccessNamed, CheckedHasEvent, Listed, EventsOf
<1> QED
  BY <1>4, <1>5

LEMMA RowStep ==
    ASSUME IInv, NEW d \in list,
           NotStored(d) \/ Compare(d) \/ TakeOver(d) \/ NoBranch(d) \/ CheckFail(d)
    PROVE  IInv'
<1> USE DEF IInv, TypeOK, table, row, Take
<1>1. CASE NotStored(d) \/ NoBranch(d) \/ CheckFail(d)
  <2>1. faults' \in Nat /\ list' \subseteq list /\ UNCHANGED <<table, row>>
    BY <1>1 DEF NotStored, NoBranch, CheckFail, Fault
  <2> QED
    BY <2>1 DEF SuccessNamed, CheckedHasEvent, Listed, EventsOf
<1>2. CASE Compare(d)
  <2>1. PICK e \in EventsOf(d) :
           check' = [check EXCEPT ![d] = IF Agrees(d, e) THEN "Success" ELSE "Failed"]
    BY <1>2 DEF Compare
  <2>2. /\ status[d] # "TxHashExist" /\ hash[d] # None /\ list' \subseteq list
        /\ UNCHANGED <<tip, stored, status, hash, faults>>
    BY <1>2, SuccessHasHash DEF Compare, Listed
  <2>3. check'[d] \in {"Success", "Failed"} /\ \A c \in Deposits \ {d} : check'[c] = check[c]
    BY <2>1
  <2>4. TypeOK'
    BY <2>1, <2>2, <2>3
  <2>5. SuccessNamed' /\ CheckedHasEvent' /\ Listed'
    BY <2>1, <2>2, <2>3 DEF SuccessNamed, CheckedHasEvent, Listed, EventsOf
  <2> QED
    BY <2>4, <2>5
<1>3. CASE TakeOver(d)
  <2>1. PICK e \in EventsOf(d) :
           /\ status' = [status EXCEPT ![d] = "Success"]
           /\ hash' = [hash EXCEPT ![d] = TxOf(e)]
           /\ check' = [check EXCEPT ![d] = "Success"]
    BY <1>3 DEF TakeOver
  <2>2. e \in DepositEvents /\ mints[e] = d
    BY DEF EventsOf
  <2>3. list' \subseteq list /\ UNCHANGED <<tip, stored, faults>> /\ TxOf(e) # None
    BY <1>3, <2>2, OutcomeAssumption DEF TakeOver
  <2>4. TypeOK'
    BY <2>1, <2>2, <2>3, TxIsHash
  <2>5. SuccessNamed' /\ CheckedHasEvent' /\ Listed'
    BY <2>1, <2>2, <2>3 DEF SuccessNamed, CheckedHasEvent, Listed, EventsOf
  <2> QED
    BY <2>4, <2>5
<1> QED
  BY <1>1, <1>2, <1>3

LEMMA IInvStep == IInv /\ [Next]_vars => IInv'
<1> SUFFICES ASSUME IInv, [Next]_vars PROVE IInv'
  OBVIOUS
<1>1. CASE RollupIndexer
  <2>1. /\ tip' \in 0 .. MaxHeight /\ stored' \subseteq DepositEvents
        /\ stored \subseteq stored'
    BY <1>1, TableStep DEF RollupIndexer, IInv
  <2>2. UNCHANGED <<status, hash, check, list, faults>>
    BY <1>1 DEF RollupIndexer, row
  <2>3. TypeOK'
    BY <2>1, <2>2 DEF IInv, TypeOK
  <2>4. SuccessNamed' /\ Listed'
    BY <2>2 DEF IInv, SuccessNamed, Listed
  <2>5. CheckedHasEvent'
    BY <2>1, <2>2 DEF IInv, CheckedHasEvent, EventsOf
  <2> QED
    BY <2>3, <2>4, <2>5 DEF IInv
<1>2. CASE \E d \in Deposits : Settle(d) \/ Reopen(d) \/ Resettle(d)
  BY <1>2, SettleStep, ReopenStep
<1>3. CASE List \/ Crash \/ UNCHANGED vars
  <2>1. /\ faults' \in Nat /\ UNCHANGED <<table, row>>
        /\ list' \subseteq list \/ (list' \subseteq Deposits /\ \A d \in list' : status[d] # "open")
    <3>1. ASSUME List
          PROVE  list' \subseteq Deposits /\ \A d \in list' : status[d] # "open"
      BY <3>1 DEF List, ToCheck
    <3>2. faults \in Nat /\ list \subseteq Deposits
      BY DEF IInv, TypeOK
    <3>3. UNCHANGED <<table, row>>
      BY <1>3 DEF List, Crash, vars
    <3>4. CASE List
      BY <3>1, <3>2, <3>3, <3>4 DEF List
    <3>5. CASE Crash \/ UNCHANGED vars
      BY <3>2, <3>3, <3>5 DEF Crash, Fault, vars
    <3> QED
      BY <1>3, <3>4, <3>5
  <2>2. UNCHANGED <<tip, stored, status, hash, check>>
    BY <2>1 DEF table, row
  <2>3. TypeOK'
    BY <2>1, <2>2 DEF IInv, TypeOK
  <2>4. SuccessNamed' /\ CheckedHasEvent' /\ Listed'
    BY <2>1, <2>2 DEF IInv, SuccessNamed, CheckedHasEvent, Listed, EventsOf
  <2> QED
    BY <2>3, <2>4 DEF IInv
<1>4. CASE CheckDeposit
  BY <1>3, <1>4, RowStep DEF CheckDeposit
<1> QED
  BY <1>1, <1>2, <1>3, <1>4 DEF Next

LEMMA IInvAlways == Spec => []IInv
<1>1. Init => IInv
  BY InitStep
<1> QED
  BY <1>1, IInvStep, PTL DEF Spec

\* The rows keep their types, and a row is only checked after it was minted.
THEOREM TypeCorrect == Spec => []TypeOK
<1>1. IInv => TypeOK
  BY DEF IInv
<1> QED
  BY <1>1, IInvAlways, PTL

\* A row that was checked names the event it was checked against, as long as its
\* deposit was minted once.
THEOREM CheckedNames == Spec => []CheckedNamesItsEvent
<1>1. ASSUME IInv, NEW d \in Deposits, check[d] # "Pending", MintedOnce(d)
      PROVE  \E e \in EventsOf(d) : hash[d] = TxOf(e)
  <2>1. PICK e \in EventsOf(d) : TRUE
    BY <1>1 DEF IInv, CheckedHasEvent
  <2>2. e \in DepositEvents /\ mints[e] = d
    BY <1>1 DEF EventsOf, IInv, TypeOK
  <2>3. PICK f \in DepositEvents : mints[f] = d /\ TxOf(f) = hash[d]
    BY <1>1 DEF IInv, TypeOK, SuccessNamed
  <2>4. e = f
    BY <1>1, <2>2, <2>3 DEF MintedOnce
  <2> QED
    BY <2>1, <2>3, <2>4
<1>2. IInv => CheckedNamesItsEvent
  BY <1>1 DEF CheckedNamesItsEvent
<1> QED
  BY <1>2, IInvAlways, PTL
=============================================================================
