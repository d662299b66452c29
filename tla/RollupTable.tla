----------------------------- MODULE RollupTable ----------------------------
(***************************************************************************)
(* What the rollup indexer promises to the readers of the table            *)
(* rollup_deposit_history, and CheckDeposit relies on: the table grows one *)
(* row at a time, a row is a deposit event of a block the chain has, and   *)
(* one row stands for a transaction.  In which order the rows come, and    *)
(* that every event gets one, is not promised.                             *)
(***************************************************************************)
EXTENDS Naturals

CONSTANTS
    MaxHeight,       \* bound: height of the last L2 block
    DepositEvents    \* triples <<block, index of the transaction, of the log>>

ASSUME HeightAssumption == MaxHeight \in Nat

VARIABLES
    tip,        \* L2: number of the latest block
    stored      \* the events that have a row

SameTx(e, f) == e[1] = f[1] /\ e[2] = f[2]

TableInit == tip \in 0 .. MaxHeight /\ stored = {}

Grow == tip < MaxHeight /\ tip' = tip + 1 /\ UNCHANGED stored

Store(e) ==
    /\ e[1] <= tip
    /\ \A f \in stored : ~SameTx(e, f)
    /\ stored' = stored \union {e}
    /\ UNCHANGED tip

TableNext == Grow \/ \E e \in DepositEvents : Store(e)

TableSpec == TableInit /\ [][TableNext]_<<tip, stored>>
=============================================================================
