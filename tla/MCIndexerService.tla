-------------------------- MODULE MCIndexerService --------------------------
(* Finite chains for IndexerService. *)
EXTENDS IndexerService

\* Blocks of every kind: one with deposits at index 0 and 1, plain ones with
\* two deposits, one of them with a payment of the bridge to itself between,
\* and a last one with a transaction that cannot be parsed.
MixedDeposits == {<<1, 0>>, <<1, 1>>, <<1, 2>>,
                  <<2, 2>>, <<2, 3>>, <<2, 4>>,
                  <<3, 2>>, <<3, 4>>, <<4, 3>>}
MixedSelfPaid == {<<2, 3>>}
MixedCallback == {<<1, 2>>}
LateMalformed == {<<4, 2>>}

\* A deposit at index 1 of a block, and another one behind it.
FirstAtOne == {<<1, 1>>, <<1, 2>>}

\* Two deposits of a block, of which the callback service knows the first.
TwoInBlock == {<<1, 2>>, <<1, 3>>}
KnownTwo == {<<1, 2>>}

NoPositions == {}
=============================================================================
