-------------------------- MODULE MCRollupIndexer --------------------------
(* A finite chain for RollupIndexer. *)
EXTENDS RollupIndexer

\* Two blocks with an event at the same indexes, the second of them with two
\* deposits of one transaction and a withdrawal, and one with an event at index 0.
FewDeposits == {<<1, 1, 1>>, <<2, 0, 0>>, <<3, 1, 1>>, <<3, 1, 2>>}
FewEvents == FewDeposits \union {<<3, 2, 3>>}
=============================================================================
