------------------------------ MODULE L2Chain ------------------------------
(***************************************************************************)
(* The L2 chain as the bridge uses it (external: an Ethereum node and the  *)
(* network behind it).  Only the transactions signed by the keys of the    *)
(* bridge are modelled: each mints one deposit.  Transactions of one key   *)
(* are mined in the order of their nonces, one for each nonce.             *)
(*                                                                         *)
(* The contract method mintWAbel has the receiver, the amount and the lock *)
(* time as arguments, not the L1 transaction: the contract cannot tell a   *)
(* second mint of a deposit from another deposit.                          *)
(***************************************************************************)
EXTENDS Naturals

CONSTANTS
    Deposits,     \* numbers of the deposits, in the order of their L1 position
    Keys,         \* signing keys
    FirstNonce,   \* nonce of the keys when the bridge is first started
    MaxNonce      \* bound: last nonce used

ASSUME L2Assumption ==
    /\ Deposits \subseteq Nat
    /\ FirstNonce \in Nat /\ MaxNonce \in Nat

\* A transaction; two with the same fields have the same hash.  The price
\* stands for the factor the gas price was multiplied with.
Tx == [dep : Deposits, from : Keys, nonce : Nat, price : Nat]

VARIABLES
    account,    \* number of the next nonce to be mined, for each key
    pool,       \* transactions waiting in the node
    sent,       \* transactions the node ever accepted
    mined,      \* transactions in blocks
    reverted    \* those of them that failed

chain == <<account, pool, sent, mined, reverted>>

ChainTypeOK ==
    /\ account \in [Keys -> Nat]
    /\ pool \subseteq Tx
    /\ sent \subseteq Tx
    /\ mined \subseteq Tx
    /\ reverted \subseteq mined

ChainInit ==
    /\ account = [key \in Keys |-> FirstNonce]
    /\ pool = {} /\ sent = {} /\ mined = {} /\ reverted = {}

SameSlot(t, u) == t.from = u.from /\ t.nonce = u.nonce

Rivals(t) == {u \in pool : u # t /\ SameSlot(u, t)}

\* The answers of eth_sendRawTransaction.
AlreadyKnown(t) == t \in pool
NonceTooLow(t) == t \notin pool /\ t.nonce < account[t.from]
Underpriced(t) ==
    /\ t \notin pool /\ t.nonce >= account[t.from]
    /\ \E u \in Rivals(t) : u.price >= t.price
Acceptable(t) ==
    /\ t \notin pool /\ t.nonce >= account[t.from]
    /\ \A u \in Rivals(t) : u.price < t.price

Accept(t) ==
    /\ pool' = (pool \ Rivals(t)) \union {t}
    /\ sent' = sent \union {t}
    /\ UNCHANGED <<account, mined, reverted>>

\* PendingNonceAt: the first nonce neither mined nor waiting.
IsPendingNonce(key, n) ==
    /\ n >= account[key]
    /\ ~ \E t \in pool : t.from = key /\ t.nonce = n
    /\ \A m \in account[key] .. (n - 1) :
          \E t \in pool : t.from = key /\ t.nonce = m

\* A transaction is mined.  It may be one the node forgot or replaced: it was
\* sent on to the network before.
Mine(t, ok) ==
    /\ t \in sent
    /\ t.nonce = account[t.from]
    /\ account' = [account EXCEPT ![t.from] = @ + 1]
    /\ mined' = mined \union {t}
    /\ reverted' = IF ok THEN reverted ELSE reverted \union {t}
    /\ pool' = {u \in pool : ~SameSlot(u, t)}
    /\ UNCHANGED sent

\* The node forgets a transaction that waits.
Evict(t) ==
    /\ t \in pool
    /\ pool' = pool \ {t}
    /\ UNCHANGED <<account, sent, mined, reverted>>

\* The mints of a deposit.
Mints(d) == {t \in mined \ reverted : t.dep = d}
=============================================================================
