-------------------------- MODULE MCWithdrawService --------------------------
(* Two withdrawals to one receiver, for WithdrawService. *)
EXTENDS WithdrawService, SequencesExt

CONSTANTS w1, w2

TwoWithdrawals == {w1, w2}
OneReceiver == [w \in TwoWithdrawals |-> "a"]

Different == (w1 :> 30) @@ (w2 :> 40)
Equal == (w1 :> 30) @@ (w2 :> 30)

Ascending == [S \in SUBSET Outputs |-> SetToSortSeq(S, <)]
OneUnit == [v \in Variants |-> 1]

\* Every output is enough; the first one is; none is, also not with another one.
Large == [o \in Outputs |-> 100]
Mixed == [o \in Outputs |-> IF o = 1 THEN 100 ELSE 10]
Small == [o \in Outputs |-> 10]
AllLarge == {Large}
ThreeKinds == {Large, Mixed, Small}
=============================================================================
