---------------------------- MODULE AbelianChain ----------------------------
(***************************************************************************)
(* The L1 chain as the bridge reads it (external: an Abelian node).  The   *)
(* best chain grows; a reorganisation replaces its last blocks by a longer *)
(* branch, which may hold other transactions, the same ones at other       *)
(* heights, or none of them.                                               *)
(*                                                                         *)
(* A block is the sequence of its transactions.  The coinbase transaction, *)
(* which has index 0 and is never a deposit, is left out: position k of    *)
(* the sequence is index k in the block.                                   *)
(***************************************************************************)
EXTENDS Naturals, Sequences

CONSTANTS
    Txs,        \* transactions that may be in a block
    Contents,   \* what a block may hold
    MaxHeight,  \* bound: height of the last block
    MaxReorg    \* blocks a reorganisation replaces at most

ASSUME L1Assumption ==
    /\ Contents \subseteq Seq(Txs)
    /\ MaxHeight \in Nat /\ MaxReorg \in Nat

VARIABLE blocks     \* the best chain

Height == Len(blocks)
Holds(block, t) == \E k \in 1 .. Len(block) : block[k] = t
OnChain(t) == \E h \in 1 .. Height : Holds(blocks[h], t)

\* The block of t and the ones after it: n at least.
HasConfirmations(t, n) ==
    \E h \in 1 .. Height : Holds(blocks[h], t) /\ Height - h + 1 >= n

\* A transaction is in the chain once.
NoRepeat(chain) ==
    \A g, h \in 1 .. Len(chain) :
        \A j \in 1 .. Len(chain[g]), k \in 1 .. Len(chain[h]) :
            chain[g][j] = chain[h][k] => g = h /\ j = k

ChainTypeOK == blocks \in Seq(Seq(Txs))

\* The bridge is set up on a chain that has blocks already.
ChainInit == blocks = << <<>> >>

\* The last n blocks are replaced by n + 1 others; n = 0 is a new block.
Extend(n) ==
    /\ n < Height /\ Height < MaxHeight
    /\ \E branch \in [1 .. n + 1 -> Contents] :
          /\ blocks' = SubSeq(blocks, 1, Height - n) \o branch
          /\ NoRepeat(blocks')
=============================================================================
