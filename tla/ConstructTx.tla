----------------------------- MODULE ConstructTx -----------------------------
(***************************************************************************)
(* What ConstructTx of the withdraw service computes (internal/logic/      *)
(* indexer/bridge_withdraw_service.go): amounts, pages of outputs, inputs  *)
(* and fee of an L1 transaction.                                           *)
(*                                                                         *)
(* The id of a transaction depends on what it spends and pays, on the      *)
(* order of its outputs and on the fee rate (together: its variant), not   *)
(* on the withdrawals it is made for.                                      *)
(***************************************************************************)
EXTENDS Integers, Sequences, FiniteSetsExt, Functions

CONSTANTS
    Withdrawals,
    To,              \* receiver of each withdrawal
    Value,           \* amount of each withdrawal
    Outputs,         \* bound: the outputs the bridge can spend
    List,            \* the sequence in which the API lists a set of outputs
    PageSize,        \* outputs in one answer of the API, 16
    Variants,        \* bound: orders of the outputs and fee rates
    Rate             \* fee rate of each variant

ASSUME ConstructAssumption ==
    /\ Value \in [Withdrawals -> Nat]
    /\ List \in [SUBSET Outputs -> Seq(Outputs)]
    /\ \A S \in SUBSET Outputs : Range(List[S]) = S /\ IsInjective(List[S])
    /\ PageSize \in Nat \ {0}
    /\ Rate \in [Variants -> Nat]

\* mergeDuplicateAddresses: the amounts of a receiver are added up.
Merged(S) ==
    [a \in {To[w] : w \in S} |->
        MapThenSumSet(LAMBDA w : Value[w], {w \in S : To[w] = a})]

TxId == [inputs : Seq(Outputs), variant : Variants,
         pays : {Merged(S) : S \in SUBSET Withdrawals}]

\* totalTransferAmount
Total(pays) == MapThenSumSet(LAMBDA a : pays[a], DOMAIN pays)

\* The sum of the values of some outputs.
Sum(worth, outputs) == MapThenSumSet(LAMBDA i : worth[outputs[i]], DOMAIN outputs)

\* The answer of the API for a cursor, which the code counts in pages.
Page(list, cursor) ==
    SubSeq(list, cursor * PageSize + 1,
           IF (cursor + 1) * PageSize < Len(list) THEN (cursor + 1) * PageSize ELSE Len(list))

\* The fee of n inputs; an input and an output, with the change, are one unit each.
Fee(n, pays, v) == (n + Cardinality(DOMAIN pays) + 1) * Rate[v]

Tx(outputs, n, pays, v) == [inputs |-> SubSeq(outputs, 1, n), variant |-> v, pays |-> pays]

\* changeAmount
Change(worth, t) ==
    Sum(worth, t.inputs) - Fee(Len(t.inputs), t.pays, t.variant) - Total(t.pays)

\* Inputs are taken until they are more than amount and fee, or all are taken.
IsCut(worth, outputs, n, pays, v) ==
    /\ n = Len(outputs) \/ Change(worth, Tx(outputs, n, pays, v)) > 0
    /\ \A k \in 1 .. n - 1 : ~(Change(worth, Tx(outputs, k, pays, v)) > 0)

=============================================================================
