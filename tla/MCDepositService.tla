-------------------------- MODULE MCDepositService --------------------------
(* Small instances of DepositService. *)
EXTENDS DepositService
One == {1}
Two == {1, 2}
NoDeposits == {}
=============================================================================
