------------------------- MODULE DepositMintProofs -------------------------
(***************************************************************************)
(* Proofs about DepositService: every transaction that may still be mined  *)
(* is the one its row names, and no deposit is minted twice, for all       *)
(* deposits, keys and limits and any number of the faults under which the  *)
(* two can hold at all.                                                    *)
(***************************************************************************)
EXTENDS DepositServiceProofs

\* Every transaction the node takes gets into its row, and with the key of the last
\* one: the service does not die in between, the answer of the node is not lost, the
\* row is written, and the key stays.  Nonce 0 is none for the code.
Recorded ==
    /\ Faults \intersect {"crash", "lost", "db", "rotate"} = {}
    /\ FirstNonce # 0

\* The transactions that may take effect or did.  When a replaced transaction can be
\* mined all the same, the invariant is about those that wait.
Alive == IF "resurface" \in Faults THEN pool ELSE pool \union mined

\* The transaction a deposit has: the one of its row, or the one just accepted.
Current(d) == IF pc = "record" /\ tx.dep = d THEN tx ELSE row[d].hash

\* The hash of the row being handled.
JobHash == row[job.dep].hash

Used(hash) == hash # None => hash.nonce < account[key]

\* Nonces: one that waits is not used up, none is 0, all are of the one key.
Slots ==
    /\ \A t \in pool : t.nonce >= account[t.from]
    /\ account[key] >= FirstNonce
    /\ \A d \in Deposits : row[d].hash # None => row[d].hash.from = key /\ row[d].hash.nonce > 0
    /\ pc \in {"send", "record"} => tx.from = key /\ tx.nonce > 0

AliveNamed == \A t \in Alive : t = Current(t.dep)

\* A row with status "nonce to low" names a transaction whose nonce is used up, so that
\* it is not one that waits.
UsedUp ==
    /\ \A d \in Deposits : row[d].status = "NonceToLow" => Used(row[d].hash)
    /\ \A s \in batch : s.row.status = "NonceToLow" => Used(s.row.hash)
    /\ pc \in {"lookup", "confirm", "nonce", "send"} /\ reset => Used(JobHash)
    /\ pc = "failed" /\ err = "low" => Used(JobHash)

\* What HandleDeposit knows of the transaction of the row: either the next one
\* takes its place at the same nonce, or it is no longer there.
Looked ==
    /\ mode # "unconfirmed" => pc # "lookup"
    /\ mode # "unconfirmed" \/ job = None => old = None /\ reset = FALSE
    /\ pc \in {"confirm", "nonce"} =>
          /\ mode = "unconfirmed" /\ old = None => JobHash \notin Alive
          /\ old # None => old = JobHash /\ reset = FALSE
    /\ pc = "send" =>
          \/ JobHash = None \/ SameSlot(tx, JobHash)
          \/ reset /\ JobHash \notin Alive

MintInv == Slots /\ AliveNamed /\ UsedUp /\ Looked

-----------------------------------------------------------------------------
(* What every step keeps. *)

LEMMA NoFault ==
    ASSUME Recorded
    PROVE  \A kind \in {"crash", "lost", "db", "rotate"} : ~Fault(kind)
BY DEF Recorded, Fault

LEMMA KeyFacts == ASSUME TypeOK PROVE key \in Keys /\ account[key] \in Nat
BY DEF TypeOK, ChainTypeOK

\* The job is at its row.
LEMMA JobFacts ==
    ASSUME TypeOK, Control, StatusInv,
           pc \in {"lookup", "confirm", "nonce", "send", "record", "failed"}
    PROVE  /\ job # None /\ job.dep \in Deposits
           /\ job.row.hash = JobHash /\ JobHash \in Tx \union {None}
           /\ JobHash # None => JobHash.dep = job.dep
<1>1. job # None /\ job.dep \in Deposits
  BY DepositsOf DEF Control
<1>2. job.row.hash = JobHash /\ (JobHash # None => JobHash.dep = job.dep)
  BY <1>1 DEF StatusInv, Named, Snapshots, JobHash
<1> QED
  BY <1>1, <1>2 DEF TypeOK, Row, JobHash

\* A transaction that is alive has the key and nonce of a row, or was just accepted.
LEMMA AliveFacts ==
    ASSUME TypeOK, StatusInv, MintInv, NEW t \in Alive
    PROVE  t \in Tx /\ t # None /\ t = Current(t.dep) /\ (t \in pool \/ t \in mined)
BY NoneAssumption DEF TypeOK, ChainTypeOK, Alive, MintInv, AliveNamed

\* A step at which a handler returns and rows change in their status only.
LEMMA MintReturn ==
    ASSUME TypeOK, MintInv, NEW d, NEW ok, Return(d, ok), pc # "record",
           UNCHANGED <<chain, key>>,
           \A e \in Deposits : row'[e].hash = row[e].hash,
           \A e \in Deposits : row'[e].status = "NonceToLow" => Used(row[e].hash)
    PROVE  MintInv'
<1>1. /\ UNCHANGED <<account, pool, mined, key, mode>>
      /\ pc' \in {"sleep", "pick"} /\ batch' \subseteq batch
      /\ job' = None /\ old' = None /\ reset' = FALSE
  BY ReturnFacts DEF chain
<1>2. Slots'
  BY <1>1 DEF MintInv, Slots
<1>3. AliveNamed'
  <2>1. \A t \in Alive : t.dep \in Deposits
    BY DEF TypeOK, ChainTypeOK, Tx, Alive
  <2> QED
    BY <1>1, <2>1 DEF MintInv, AliveNamed, Alive, Current
<1>4. UsedUp'
  BY <1>1 DEF MintInv, UsedUp, Used
<1>5. Looked'
  BY <1>1 DEF MintInv, Looked
<1> QED
  BY <1>2, <1>3, <1>4, <1>5 DEF MintInv

\* A step that leaves the goroutine of the loop alone: what is used up stays so, and
\* no transaction comes alive.
LEMMA MintKept ==
    ASSUME TypeOK, Control, MintInv, UNCHANGED <<main, key>>,
           account' \in [Keys -> Nat], \A k \in Keys : account'[k] >= account[k],
           pool' \subseteq pool, Alive' \subseteq Alive,
           \A t \in pool' : t.nonce >= account'[t.from],
           \A e \in Deposits : row'[e].hash = row[e].hash,
           \A e \in Deposits : row'[e].status = "NonceToLow" => Used(row[e].hash)
    PROVE  MintInv'
<1>1. UNCHANGED <<pc, mode, batch, job, old, reset, tx, err, key>>
  BY DEF main
<1>2. pc \in {"lookup", "confirm", "nonce", "send", "failed"} => JobHash' = JobHash
  BY <1>1, DepositsOf DEF Control, JobHash
<1>3. \A hash \in Tx \union {None} : Used(hash) => Used(hash)'
  <2>1. account[key] \in Nat /\ account'[key] \in Nat /\ account'[key] >= account[key]
    BY KeyFacts
  <2> QED
    BY <1>1, <2>1 DEF Used, Tx
<1>4. Slots'
  <2>1. account[key] \in Nat /\ account'[key] \in Nat /\ account'[key] >= account[key]
    BY KeyFacts
  <2>2. account'[key] >= FirstNonce
    BY <2>1, L2Assumption DEF MintInv, Slots
  <2> QED
    BY <1>1, <2>2 DEF MintInv, Slots
<1>5. AliveNamed'
  <2>1. \A t \in Alive : t.dep \in Deposits
    BY DEF TypeOK, ChainTypeOK, Tx, Alive
  <2> QED
    BY <1>1, <2>1 DEF MintInv, AliveNamed, Current
<1>6. UsedUp'
  <2>1. \A e \in Deposits : row[e].hash \in Tx \union {None}
    BY DEF TypeOK, Row
  <2>2. \A s \in batch : s.row.hash \in Tx \union {None}
    BY DEF TypeOK, Snapshot, Row
  <2>3. pc \in {"lookup", "confirm", "nonce", "send", "failed"} =>
            JobHash \in Tx \union {None}
    BY <2>1, DepositsOf DEF Control, JobHash
  <2>4. \A e \in Deposits : (row[e].status = "NonceToLow" => Used(row[e].hash))'
    BY <1>3, <2>1
  <2>5. \A s \in batch' : s.row.status = "NonceToLow" => Used(s.row.hash)'
    BY <1>1, <1>3, <2>2 DEF MintInv, UsedUp
  <2>6. /\ pc' \in {"lookup", "confirm", "nonce", "send"} /\ reset' => Used(JobHash)'
        /\ pc' = "failed" /\ err' = "low" => Used(JobHash)'
    BY <1>1, <1>2, <1>3, <2>3 DEF MintInv, UsedUp, Used
  <2> QED
    BY <2>4, <2>5, <2>6 DEF UsedUp, Used
<1>7. Looked'
  BY <1>1, <1>2 DEF MintInv, Looked
<1> QED
  BY <1>4, <1>5, <1>6, <1>7 DEF MintInv

-----------------------------------------------------------------------------
(* The steps. *)

LEMMA MintLists ==
    ASSUME TypeOK, Control, MintInv, BeginCycle \/ EndList \/ EndListFail \/ EndCycle
    PROVE  MintInv'
<1>1. /\ UNCHANGED <<account, pool, mined, row, key, job, old, reset, tx>>
      /\ job = None /\ pc \in {"sleep", "pick"} /\ pc' \in {"sleep", "pick"}
  BY DEF BeginCycle, EndList, EndListFail, EndCycle, Control, chain
<1>2. batch' \subseteq batch \/ \E m : batch' = Query(m)
  BY DEF BeginCycle, EndList, EndListFail, EndCycle
<1>3. \A s \in batch' : s.row.status = "NonceToLow" => Used(s.row.hash)
  <2>1. ASSUME NEW m, NEW s \in Query(m), s.row.status = "NonceToLow"
        PROVE  Used(s.row.hash)
    BY <2>1, QueryFacts DEF MintInv, UsedUp, Snapshot
  <2> QED
    BY <1>2, <2>1 DEF MintInv, UsedUp
<1>4. Slots' /\ AliveNamed'
  BY <1>1 DEF MintInv, Slots, AliveNamed, Alive, Current
<1>5. UsedUp'
  BY <1>1, <1>3 DEF MintInv, UsedUp, Used
<1>6. Looked'
  BY <1>1 DEF MintInv, Looked
<1> QED
  BY <1>4, <1>5, <1>6 DEF MintInv

\* The look at a row.  A transaction that the node does not know and that has no receipt
\* is not alive; one that waits has a nonce that is not used up, so that the nonce of
\* its row is kept.
LEMMA MintUnconfirmed ==
    ASSUME TypeOK, Control, StatusInv, MintInv, HandleUnconfirmedDeposit
    PROVE  MintInv'
<1>1. ASSUME NEW s \in batch, ReceiptFound(s) PROVE MintInv'
  <2>1. /\ pc = "pick" /\ UNCHANGED <<chain, key>> /\ s.dep \in Deposits
        /\ Return(s.dep, TRUE) \/ Return(s.dep, FALSE)
    BY <1>1, DepositsOf DEF ReceiptFound
  <2>2. /\ ReceiptStatus(s.row.hash) \in Statuses
        /\ ReceiptStatus(s.row.hash) # "NonceToLow"
    BY DEF ReceiptStatus, Statuses
  <2>3. \/ UNCHANGED row
        \/ SetStatus(s.dep, ReceiptStatus(s.row.hash))
    BY <1>1 DEF ReceiptFound, MaybeSetStatus
  <2>4. /\ \A e \in Deposits : row'[e].hash = row[e].hash
        /\ \A e \in Deposits :
              row'[e].status = "NonceToLow" => row[e].status = "NonceToLow"
    BY <2>1, <2>2, <2>3, SetStatusFacts
  <2> QED
    BY <2>1, <2>4, MintReturn DEF MintInv, UsedUp
<1>2. ASSUME NEW s \in batch, ReceiptNotFound(s) PROVE MintInv'
  <2>1. /\ pc = "pick" /\ mode = "unconfirmed" /\ job = None
        /\ job' = s /\ s \in Snapshot /\ s # None /\ pc' = "lookup"
        /\ UNCHANGED <<account, pool, mined, row, key, mode, batch, old, tx>>
    BY <1>2, NoneAssumption DEF ReceiptNotFound, Control, TypeOK, chain
  <2>2. s.row.hash = row[s.dep].hash /\ s.dep \in Deposits
    BY <2>1, DepositsOf DEF StatusInv, Snapshots
  <2>3. reset' => Used(row[s.dep].hash)
    BY <1>2, <2>2 DEF ReceiptNotFound, MintInv, UsedUp, Slots, Used
  <2>4. Slots' /\ AliveNamed'
    BY <2>1 DEF MintInv, Slots, AliveNamed, Alive, Current
  <2>5. UsedUp'
    BY <2>1, <2>3 DEF MintInv, UsedUp, Used, JobHash
  <2>6. Looked'
    BY <2>1 DEF MintInv, Looked
  <2> QED
    BY <2>4, <2>5, <2>6 DEF MintInv
<1>3. ASSUME NEW d, Return(d, FALSE), pc \in {"pick", "lookup"}, UNCHANGED <<chain, row, key>>
      PROVE  MintInv'
  BY <1>3, MintReturn DEF MintInv, UsedUp
<1>4. ASSUME NEW s \in batch, ReceiptFail(s) PROVE MintInv'
  BY <1>3, <1>4 DEF ReceiptFail
<1>5. CASE Lookup
  <2>1. /\ pc = "lookup" /\ pc' = "confirm" /\ mode = "unconfirmed"
        /\ UNCHANGED <<account, pool, mined, row, key, mode, batch, job, reset, tx>>
    BY <1>5 DEF Lookup, chain, MintInv, Looked
  <2>2. job # None /\ JobHash' = JobHash /\ JobHash \in Tx \union {None} /\ job.dep \in Deposits
    BY <2>1, JobFacts DEF JobHash
  <2>3. /\ JobHash \notin mined
        /\ \/ JobHash \in pool /\ old' = JobHash
           \/ JobHash \notin pool /\ old' = None
    BY <1>5, <2>1, JobFacts DEF Lookup
  <2>4. old' = None => JobHash \notin Alive
    BY <2>3, NoneAssumption DEF TypeOK, ChainTypeOK, Alive
  <2>5. ASSUME old' # None, reset PROVE FALSE
    <3>1. JobHash \in pool /\ JobHash \in Tx /\ JobHash # None
      BY <2>2, <2>3, <2>5
    <3>2. JobHash.nonce < account[key] /\ JobHash.from = key
      BY <2>1, <2>2, <2>5, <3>1 DEF MintInv, UsedUp, Slots, Used, JobHash
    <3> QED
      BY <3>1, <3>2, KeyFacts DEF MintInv, Slots, Tx
  <2>6. Slots' /\ AliveNamed'
    BY <2>1 DEF MintInv, Slots, AliveNamed, Alive, Current
  <2>7. UsedUp'
    BY <2>1, <2>2 DEF MintInv, UsedUp, Used
  <2>8. reset \in BOOLEAN
    BY DEF TypeOK
  <2>9. Looked'
    BY <2>1, <2>2, <2>3, <2>4, <2>5, <2>8 DEF Looked, Alive
  <2> QED
    BY <2>6, <2>7, <2>9 DEF MintInv
<1>6. CASE LookupMined \/ LookupFail
  BY <1>3, <1>6 DEF LookupMined, LookupFail
<1> QED
  BY <1>1, <1>2, <1>4, <1>5, <1>6 DEF HandleUnconfirmedDeposit

\* The handler up to the signature: the next transaction has the key and nonce of the
\* row's, unless the row has none or none that is alive.
LEMMA MintSign ==
    ASSUME Recorded, TypeOK, Control, StatusInv, MintInv,
           \/ \E s \in batch : TakeJob(s)
           \/ Confirm \/ PickNonce \/ BumpPrice \/ CallFail
    PROVE  MintInv'
<1>1. UNCHANGED <<account, pool, mined, row, key, mode, batch, old, reset>>
  BY DEF TakeJob, Confirm, PickNonce, BumpPrice, CallFail, chain
<1>2. pc # "record" /\ pc' # "record"
  BY DEF TakeJob, Confirm, PickNonce, BumpPrice, CallFail, Failed, Sign
<1>3. AliveNamed'
  BY <1>1, <1>2 DEF MintInv, AliveNamed, Alive, Current
<1>4. ASSUME NEW s \in batch, TakeJob(s) PROVE MintInv'
  <2>1. /\ mode # "unconfirmed" /\ job' = s /\ s # None /\ pc' = "confirm"
        /\ old = None /\ reset = FALSE
    BY <1>4, NoneAssumption DEF TakeJob, TypeOK, MintInv, Looked
  <2> QED
    BY <1>1, <1>3, <2>1 DEF MintInv, Slots, UsedUp, Used, Looked
<1>5. ASSUME Failed("other") \/ \E kind \in {"exist", "balance", "gas", "other"} : Failed(kind),
             job # None, job' = job
      PROVE  MintInv'
  <2>1. pc' = "failed" /\ err' # "low"
    BY <1>5 DEF Failed
  <2> QED
    BY <1>1, <1>3, <1>5, <2>1 DEF MintInv, Slots, UsedUp, Used, Looked
<1>6. ASSUME pc \in {"confirm", "nonce"}, job # None, job' = job,
             NEW n \in Nat, NEW p, Sign(n, p), n > 0,
             \/ JobHash = None \/ (key = JobHash.from /\ n = JobHash.nonce)
             \/ reset /\ JobHash \notin Alive
      PROVE  MintInv'
  <2>1. pc' = "send" /\ tx'.from = key /\ tx'.nonce = n
    BY <1>6 DEF Sign
  <2>2. JobHash' = JobHash
    BY <1>1, <1>6 DEF JobHash
  <2>3. Slots'
    BY <1>1, <1>6, <2>1 DEF MintInv, Slots
  <2>4. UsedUp'
    BY <1>1, <1>6, <2>1, <2>2 DEF MintInv, UsedUp, Used
  <2>5. Looked'
    BY <1>1, <1>6, <2>1, <2>2 DEF MintInv, Looked, SameSlot, Alive
  <2> QED
    BY <1>3, <2>3, <2>4, <2>5 DEF MintInv
<1>7. CASE Confirm
  <2>1. pc = "confirm" /\ job # None /\ job' = job
    BY <1>7 DEF Confirm, Control
  <2>2. CASE pc' = "nonce" /\ UNCHANGED <<tx, err>>
    <3>1. JobHash' = JobHash
      BY <1>1, <2>1 DEF JobHash
    <3> QED
      BY <1>1, <1>3, <2>1, <2>2, <3>1 DEF MintInv, Slots, UsedUp, Used, Looked, Alive
  <2> QED
    BY <1>5, <1>7, <2>1, <2>2 DEF Confirm
<1>8. CASE PickNonce
  <2>1. pc = "nonce" /\ old = None /\ job # None /\ job' = job
    BY <1>8 DEF PickNonce, Control
  <2>2. job.row.hash = JobHash /\ JobHash \in Tx \union {None} /\ job.dep \in Deposits
    BY <2>1, JobFacts
  <2>3. JobHash # None => JobHash.from = key /\ JobHash.nonce > 0 /\ JobHash.nonce \in Nat
    BY <2>2 DEF MintInv, Slots, JobHash, Tx
  <2>4. CASE Reuses /\ Sign(NonceOf(job.row), 1)
    <3>1. JobHash # None /\ NonceOf(job.row) = JobHash.nonce
      BY <2>2, <2>4 DEF Reuses, NonceOf
    <3> QED
      BY <1>6, <2>1, <2>3, <2>4, <3>1
  <2>5. CASE ~Reuses /\ \E n \in FirstNonce .. MaxNonce : IsPendingNonce(key, n) /\ Sign(n, 1)
    <3>1. PICK n \in FirstNonce .. MaxNonce : IsPendingNonce(key, n) /\ Sign(n, 1)
      BY <2>5
    <3>2. n \in Nat /\ n > 0
      BY L2Assumption DEF Recorded
    <3>3. JobHash = None \/ reset
      BY <2>2, <2>3, <2>5 DEF Reuses, NonceOf
    <3>4. reset => JobHash \notin Alive
      BY <2>1 DEF MintInv, Looked, TypeOK
    <3> QED
      BY <1>6, <2>1, <3>1, <3>2, <3>3, <3>4
  <2>6. \/ Failed("other")
        \/ Reuses /\ Sign(NonceOf(job.row), 1)
        \/ ~Reuses /\ \E n \in FirstNonce .. MaxNonce : IsPendingNonce(key, n) /\ Sign(n, 1)
    BY <1>8 DEF PickNonce
  <2> QED
    BY <1>5, <2>1, <2>4, <2>5, <2>6
<1>9. CASE BumpPrice
  <2>1. pc = "nonce" /\ old # None /\ job # None /\ job' = job
    BY <1>9 DEF BumpPrice, Control
  <2>2. old = JobHash /\ reset = FALSE
    BY <2>1 DEF MintInv, Looked
  <2>3. JobHash.from = key /\ JobHash.nonce > 0 /\ JobHash.nonce \in Nat
    BY <2>1, <2>2, JobFacts DEF MintInv, Slots, JobHash, Tx
  <2>4. \/ Failed("other") \/ Sign(old.nonce, old.price + 1)
        \/ \E kind \in {"exist", "balance", "gas", "other"} : Failed(kind)
    BY <1>9, <2>2 DEF BumpPrice
  <2> QED
    BY <1>5, <1>6, <2>1, <2>2, <2>3, <2>4
<1>10. CASE CallFail
  <2>1. job # None /\ job' = job /\ Failed("other")
    BY <1>10 DEF CallFail, Control
  <2> QED
    BY <1>5, <2>1
<1> QED
  BY <1>4, <1>7, <1>8, <1>9, <1>10

\* The node takes a transaction: the one of the row, when it is alive, has its key and
\* nonce and waits, so that it is replaced.
LEMMA MintSend ==
    ASSUME TypeOK, Control, StatusInv, MintInv, Send
    PROVE  MintInv'
<1>1. /\ pc = "send" /\ UNCHANGED <<account, mined, row, key, mode, batch, job, old, reset>>
  BY DEF Send, Accept, chain
<1>2. tx \in Tx /\ tx.dep = job.dep /\ tx.from = key /\ tx.nonce > 0
  BY <1>1 DEF Control, MintInv, Slots
<1>3. /\ job # None /\ job.dep \in Deposits /\ JobHash' = JobHash
      /\ JobHash \in Tx \union {None}
  BY <1>1, JobFacts DEF JobHash
<1>4. \/ JobHash = None \/ SameSlot(tx, JobHash)
      \/ reset /\ JobHash \notin Alive
  BY <1>1 DEF MintInv, Looked
<1>5. CASE Acceptable(tx) /\ Accept(tx) /\ pc' = "record" /\ UNCHANGED <<tx, err>>
  <2>1. pool' = (pool \ Rivals(tx)) \union {tx}
    BY <1>5 DEF Accept
  <2>2. Slots'
    BY <1>1, <1>2, <1>5, <2>1 DEF MintInv, Slots, Acceptable
  <2>3. ASSUME NEW t \in Alive, t # tx, t \notin Rivals(tx), t.dep = job.dep
        PROVE  t \in mined
    <3>1. t = JobHash /\ t \in Tx /\ t # None /\ (t \in pool \/ t \in mined)
      BY <1>1, <2>3, AliveFacts DEF Current, JobHash
    <3>2. SameSlot(t, tx)
      BY <1>4, <2>3, <3>1 DEF SameSlot
    <3> QED
      BY <2>3, <3>1, <3>2 DEF Rivals
  <2>4. ASSUME NEW t \in Alive, t \in mined, t.dep = job.dep PROVE FALSE
    <3>1. t = JobHash /\ t \in Tx /\ t # None
      BY <1>1, <2>4, AliveFacts DEF Current, JobHash
    <3>2. SameSlot(t, tx)
      BY <1>4, <2>4, <3>1 DEF SameSlot
    <3>3. t.nonce < account[t.from] /\ account[t.from] \in Nat
      BY <2>4, <3>1 DEF StatusInv, Named, TypeOK, ChainTypeOK, Tx
    <3>4. tx.nonce >= account[tx.from]
      BY <1>5 DEF Acceptable
    <3> QED
      BY <1>2, <3>1, <3>2, <3>3, <3>4 DEF SameSlot, Tx
  <2>5. \A t \in Alive' : t = tx \/ (t \in Alive /\ (t \in mined \/ t \notin Rivals(tx)))
    BY <1>1, <2>1 DEF Alive
  <2>6. ASSUME NEW t \in Alive' PROVE t = Current(t.dep)'
    <3>1. CASE t = tx
      BY <1>5, <3>1 DEF Current
    <3>2. CASE t # tx
      <4>1. t \in Alive /\ t.dep # job.dep
        BY <2>3, <2>4, <2>5, <3>2
      <4>2. t = row[t.dep].hash
        BY <1>1, <4>1, AliveFacts DEF Current
      <4> QED
        BY <1>1, <1>2, <1>5, <4>1, <4>2 DEF Current
    <3> QED
      BY <3>1, <3>2
  <2>7. AliveNamed'
    BY <2>6 DEF AliveNamed
  <2>8. UsedUp' /\ Looked'
    BY <1>1, <1>3, <1>5 DEF MintInv, UsedUp, Used, Looked
  <2> QED
    BY <2>2, <2>7, <2>8 DEF MintInv
<1>6. ASSUME NEW kind, Failed(kind), kind = "low" => NonceTooLow(tx), UNCHANGED chain
      PROVE  MintInv'
  <2>1. UNCHANGED pool /\ pc' = "failed" /\ err' = kind
    BY <1>6 DEF chain, Failed
  <2>2. kind = "low" => Used(JobHash)
    BY <1>1, <1>2, <1>4, <1>6 DEF NonceTooLow, SameSlot, Used, MintInv, UsedUp
  <2>3. Slots' /\ AliveNamed'
    BY <1>1, <2>1 DEF MintInv, Slots, AliveNamed, Alive, Current
  <2>4. UsedUp' /\ Looked'
    BY <1>1, <1>3, <2>1, <2>2 DEF MintInv, UsedUp, Used, Looked
  <2> QED
    BY <2>3, <2>4 DEF MintInv
<1> QED
  BY <1>5, <1>6 DEF Send

\* The row of the job gets its transaction, or a status.
LEMMA MintRecord ==
    ASSUME Recorded, TypeOK, Control, StatusInv, MintInv,
           ConfirmFail \/ Record \/ Timeout \/ HandleError
    PROVE  MintInv'
<1>1. CASE ConfirmFail \/ Timeout
  <2>1. /\ pc # "record" /\ UNCHANGED <<chain, row, key>>
        /\ Return(job.dep, FALSE) \/ Return(job.dep, TRUE)
    BY <1>1 DEF ConfirmFail, Timeout
  <2> QED
    BY <2>1, MintReturn DEF MintInv, UsedUp
<1>2. CASE Record
  <2>1. /\ pc = "record" /\ pc' = "await"
        /\ UNCHANGED <<account, pool, mined, key, mode, batch, job, old, reset, tx>>
    BY <1>2 DEF Record, chain
  <2>2. job # None /\ job.dep \in Deposits /\ tx \in Tx /\ tx.dep = job.dep
    BY <2>1, DepositsOf DEF Control
  <2>3. /\ \A e \in Deposits : row'[e].hash = IF e = job.dep THEN tx ELSE row[e].hash
        /\ \A e \in Deposits :
              row'[e].status = IF e = job.dep THEN "WaitMined" ELSE row[e].status
    BY <1>2, <2>2, RecordFacts DEF Record
  <2>4. Slots'
    BY <2>1, <2>2, <2>3 DEF MintInv, Slots
  <2>5. AliveNamed'
    BY <2>1, <2>2, <2>3, AliveFacts DEF AliveNamed, Alive, Current, Tx
  <2>6. UsedUp' /\ Looked'
    BY <2>1, <2>3 DEF MintInv, UsedUp, Used, Looked
  <2> QED
    BY <2>4, <2>5, <2>6 DEF MintInv
<1>3. CASE HandleError
  <2>1. /\ pc = "failed" /\ err # "none" /\ UNCHANGED <<chain, key>>
        /\ Return(job.dep, err = "other")
    BY <1>3 DEF HandleError, Control
  <2>2. /\ job # None /\ job.dep \in Deposits
        /\ job.row.hash = row[job.dep].hash /\ JobHash = row[job.dep].hash
    BY <2>1, JobFacts DEF JobHash
  <2>3. PICK hasReceipt \in BOOLEAN : row' = ErrorRow(hasReceipt)
    <3>1. IsMined(job.row.hash) \in BOOLEAN /\ FALSE \in BOOLEAN
      BY DEF IsMined
    <3>2. row' = ErrorRow(FALSE) \/ row' = ErrorRow(IsMined(job.row.hash))
      BY <1>3, Zenon DEF HandleError
    <3> QED
      BY <3>1, <3>2, Zenon
  <2>4. /\ \A e \in Deposits : row'[e].hash = row[e].hash
        /\ \A e \in Deposits :
              row'[e].status = IF e = job.dep THEN ErrorStatus(hasReceipt)
                               ELSE row[e].status
    BY <2>1, <2>2, <2>3, ErrorRowFacts
  <2>5. ErrorStatus(hasReceipt) = "NonceToLow" => Used(row[job.dep].hash)
    <3>1. err \in {"exist", "balance", "gas", "known", "low", "other"}
      BY <2>1 DEF TypeOK, ErrorKinds
    <3>2. err = "low" => Used(row[job.dep].hash)
      BY <2>1, <2>2 DEF MintInv, UsedUp
    <3>3. err = "known" =>
             ErrorStatus(hasReceipt) # "NonceToLow" \/ row[job.dep].hash = None
      BY <2>2 DEF ErrorStatus
    <3>4. err \in {"exist", "balance", "gas", "other"} =>
             ErrorStatus(hasReceipt) # "NonceToLow"
      BY DEF ErrorStatus, ReceiptStatus
    <3> QED
      BY <3>1, <3>2, <3>3, <3>4 DEF Used
  <2>6. \A e \in Deposits : row'[e].status = "NonceToLow" => Used(row[e].hash)
    BY <2>4, <2>5 DEF MintInv, UsedUp
  <2> QED
    BY <2>1, <2>4, <2>6, MintReturn
<1> QED
  BY <1>1, <1>2, <1>3

\* What keeps the chain and the rows' transactions as they are.
LEMMA MintMainKept ==
    ASSUME TypeOK, Control, MintInv, UNCHANGED <<main, key, chain>>,
           \A e \in Deposits : row'[e].hash = row[e].hash,
           \A e \in Deposits : row'[e].status = "NonceToLow" => row[e].status = "NonceToLow"
    PROVE  MintInv'
<1>1. UNCHANGED <<account, pool, mined>> /\ Alive' = Alive
  BY DEF chain, Alive
<1>2. account \in [Keys -> Nat]
  BY DEF TypeOK, ChainTypeOK
<1> QED
  BY <1>1, <1>2, MintKept DEF MintInv, UsedUp, Slots

LEMMA MintWaitMined ==
    ASSUME Recorded, TypeOK, Control, StatusInv, MintInv, WaitMined
    PROVE  MintInv'
<1>1. PICK w \in waiters : Verdict(w) \/ Write(w)
  BY NoFault DEF WaitMined, WriteFail
<1>2. CASE Verdict(w)
  BY <1>2, MintMainKept DEF Verdict
<1>3. CASE Write(w)
  <2>1. w.tx.dep \in Deposits /\ w.verdict \in Statuses /\ w.verdict # "NonceToLow"
    BY <1>3 DEF Write, TypeOK, Waiter, Tx, Verdicts, Statuses
  <2>2. /\ \A e \in Deposits : row'[e].hash = row[e].hash
        /\ \A e \in Deposits :
              row'[e].status = "NonceToLow" => row[e].status = "NonceToLow"
    BY <1>3, <2>1, SetStatusFacts DEF Write
  <2>3. UNCHANGED <<chain, key>>
    BY <1>3 DEF Write
  <2>4. \/ UNCHANGED main
        \/ pc = "await" /\ Return(w.tx.dep, FALSE)
    BY <1>3 DEF Write, Report, Awaited
  <2> QED
    BY <2>2, <2>3, <2>4, MintReturn, MintMainKept DEF MintInv, UsedUp
<1> QED
  BY <1>1, <1>2, <1>3

\* A transaction is mined: one that waits, or, when only those that wait are spoken of,
\* any.  It uses up the lowest nonce not used up yet.
LEMMA MintMine ==
    ASSUME TypeOK, Control, MintInv, UNCHANGED <<row, main, key>>,
           NEW t, NEW ok, Mine(t, ok), t \in pool \/ "resurface" \in Faults
    PROVE  MintInv'
<1>1. t \in Tx /\ t.from \in Keys /\ account \in [Keys -> Nat] /\ pool \subseteq Tx
  BY DEF Mine, TypeOK, ChainTypeOK, Tx
<1>2. \A k \in Keys : account'[k] = IF k = t.from THEN account[k] + 1 ELSE account[k]
  BY <1>1 DEF Mine
<1>3. account' \in [Keys -> Nat] /\ \A k \in Keys : account'[k] >= account[k]
  BY <1>1, <1>2 DEF Mine
<1>4. pool' \subseteq pool /\ Alive' \subseteq Alive
  BY DEF Mine, Alive
<1>5. \A u \in pool' : u.nonce >= account'[u.from]
  <2>1. ASSUME NEW u \in pool, ~SameSlot(u, t) PROVE u.nonce >= account'[u.from]
    <3>1. u \in Tx /\ u.nonce >= account[u.from] /\ account[u.from] \in Nat
      BY <1>1 DEF MintInv, Slots, Tx
    <3>2. u.from = t.from => u.nonce # account[t.from]
      BY <2>1 DEF SameSlot, Mine
    <3> QED
      BY <1>2, <3>1, <3>2 DEF Tx
  <2> QED
    BY <2>1 DEF Mine
<1> QED
  BY <1>3, <1>4, <1>5, MintKept DEF MintInv, UsedUp

LEMMA MintEnvironment ==
    ASSUME Recorded, TypeOK, Control, StatusInv, MintInv, Environment
    PROVE  MintInv'
<1>1. ASSUME NEW d \in Deposits, Arrive(d) PROVE MintInv'
  <2>1. /\ \A e \in Deposits : row'[e].hash = row[e].hash
        /\ \A e \in Deposits :
              row'[e].status = "NonceToLow" => row[e].status = "NonceToLow"
    BY <1>1, SetStatusFacts DEF Arrive, Statuses
  <2> QED
    BY <1>1, <2>1, MintMainKept DEF Arrive
<1>2. ASSUME NEW d \in Deposits, Register(d) PROVE MintInv'
  BY <1>2, MintMainKept DEF Register
<1>3. CASE MineOne \/ MineOther
  BY <1>3, MintMine DEF MineOne, MineOther, Fault
<1>4. CASE EvictOne
  <2>1. pool' \subseteq pool /\ UNCHANGED <<account, mined, row, key, main>>
    BY <1>4 DEF EvictOne, Evict
  <2>2. Alive' \subseteq Alive /\ account' \in [Keys -> Nat]
    BY <2>1 DEF Alive, TypeOK, ChainTypeOK
  <2>3. \A k \in Keys : account'[k] >= account[k]
    BY <2>1 DEF TypeOK, ChainTypeOK
  <2> QED
    BY <2>1, <2>2, <2>3, MintKept DEF MintInv, UsedUp, Slots
<1>5. CASE Restart
  <2>1. /\ UNCHANGED <<account, pool, mined, row, key, mode, batch, job, old, reset, tx>>
        /\ pc = "down" /\ pc' = "sleep" /\ job = None
    BY <1>5 DEF Restart, chain, Control
  <2>2. Slots' /\ AliveNamed'
    BY <2>1 DEF MintInv, Slots, AliveNamed, Alive, Current
  <2> QED
    BY <2>1, <2>2 DEF MintInv, UsedUp, Used, Looked
<1> QED
  BY <1>1, <1>2, <1>3, <1>4, <1>5, NoFault DEF Environment, Crash, RotateKey

-----------------------------------------------------------------------------
(* The theorems. *)

LEMMA InitMint == Recorded /\ Init => MintInv
<1> SUFFICES ASSUME Recorded, Init PROVE MintInv
  OBVIOUS
<1>1. Slots
  BY L2Assumption, ServiceAssumption DEF Recorded, Init, ChainInit, Slots
<1>2. AliveNamed /\ UsedUp /\ Looked
  BY DEF Init, ChainInit, AliveNamed, Alive, UsedUp, Looked
<1> QED
  BY <1>1, <1>2 DEF MintInv

LEMMA MintStep ==
    ASSUME Recorded, TypeOK, IInv, MintInv, [Next]_vars
    PROVE  MintInv'
<1> USE DEF IInv
<1>1. CASE UNCHANGED vars
  BY <1>1, MintMainKept DEF vars
<1>2. CASE Deposit
  <2>1. \/ BeginCycle \/ EndList \/ EndListFail \/ EndCycle
        \/ HandleUnconfirmedDeposit
        \/ \E s \in batch : TakeJob(s)
        \/ Confirm \/ PickNonce \/ BumpPrice \/ CallFail
        \/ Send
        \/ ConfirmFail \/ Record \/ Timeout \/ HandleError
    BY <1>2, NoFault
       DEF Deposit, HandleDeposit, SendLost, RecordFail, HandleErrorFail
  <2> QED
    BY <2>1, MintLists, MintUnconfirmed, MintSign, MintSend, MintRecord
<1>3. CASE WaitMined
  BY <1>3, MintWaitMined
<1>4. CASE Environment
  BY <1>4, MintEnvironment
<1> QED
  BY <1>1, <1>2, <1>3, <1>4 DEF Next

LEMMA MintIsInvariant == ASSUME Recorded PROVE Spec => [](TypeOK /\ IInv /\ MintInv)
<1>1. Init => TypeOK /\ IInv /\ MintInv
  BY InitMint, InitInv
<1>2. (TypeOK /\ IInv /\ MintInv) /\ [Next]_vars => (TypeOK /\ IInv /\ MintInv)'
  BY MintStep, InvStep
<1> QED
  BY <1>1, <1>2, PTL DEF Spec

\* Every transaction that waits in the node is the one its row names or is about to name,
\* as long as every transaction the node takes gets into its row: whatever else fails,
\* and whatever the node forgets, replaces or mines all the same.
THEOREM EveryWaitingIsNamed == ASSUME Recorded PROVE Spec => []NoOrphan
<1>1. TypeOK /\ MintInv => NoOrphan
  <2> SUFFICES ASSUME TypeOK, MintInv, NEW t \in pool
               PROVE  row[t.dep].hash = t \/ (pc = "record" /\ tx = t)
    BY DEF NoOrphan
  <2> QED
    BY DEF MintInv, AliveNamed, Alive, Current
<1> QED
  BY <1>1, MintIsInvariant, PTL

\* No deposit is minted twice, as long as every transaction the node takes gets into its
\* row and none that was replaced or forgotten is mined.
THEOREM MintedAtMostOnce ==
    ASSUME Recorded, "resurface" \notin Faults
    PROVE  Spec => []NoDoubleMint
<1>1. TypeOK /\ MintInv => NoDoubleMint
  BY DEF MintInv, AliveNamed, Alive, NoDoubleMint, Mints
<1> QED
  BY <1>1, MintIsInvariant, PTL
=============================================================================
