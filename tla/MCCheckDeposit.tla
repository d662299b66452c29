--------------------------- MODULE MCCheckDeposit ---------------------------
(* Four deposits and their events for CheckDeposit. *)
EXTENDS CheckDeposit

\* The first deposit was minted twice, the second by a transaction its row does
\* not name, the third ends either way, the fourth has an event to another
\* address.
MintEvents == {<<1, 1, 1>>, <<2, 0, 0>>, <<2, 1, 1>>, <<3, 1, 2>>, <<3, 2, 3>>}
FourRows == 1 .. 4
RowValues == <<4, 4, 0, 0>>
RowAddresses == <<"a", "a", "a", "a">>
EventMints == [e \in MintEvents |->
    CASE TxOf(e) \in {<<1, 1>>, <<2, 0>>} -> 1
      [] TxOf(e) = <<2, 1>> -> 2
      [] TxOf(e) = <<3, 1>> -> 3
      [] OTHER -> 4]
EventReceivers == [e \in MintEvents |-> IF TxOf(e) = <<3, 2>> THEN "b" ELSE "a"]

Left(status_, hash_) == [status |-> status_, hash |-> hash_]
RowOutcomes ==
    << {Left("Success", <<1, 1>>), Left("Success", <<2, 0>>)},
       {Left("TxHashExist", None)},
       {Left("Success", <<3, 1>>), Left("TxHashExist", <<3, 1>>)},
       {Left("Success", <<3, 2>>), Left("TxHashExist", None)} >>
=============================================================================
