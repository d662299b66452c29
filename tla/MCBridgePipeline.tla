--------------------------- MODULE MCBridgePipeline -------------------------
(* A small L1 chain for BridgePipeline. *)
EXTENDS BridgePipeline

Bridge == [prefix |-> "0x", digits |-> "e3"]
BareBridge == [prefix |-> "", digits |-> "e3"]
User == [prefix |-> "0x", digits |-> "cb"]

Amounts(notation, tenths) == [notation |-> notation, tenths |-> tenths]
MemoTo(to, value) == [form |-> "deposit", to |-> to, from |-> User, value |-> value]

\* Two deposits, one written with 0x and as a plain number, the other without
\* and in scientific notation with a fraction; a memo to somebody else whose
\* amount is one more than ParseInt accepts; a memo of another action.
PipelineTxs == {1, 2, 3, 4}
PipelineMemo ==
    << MemoTo(Bridge, Amounts("plain", 30)),
       MemoTo(BareBridge, Amounts("scientific", 25)),
       MemoTo(User, Amounts("plain", 80)),
       [MemoTo(Bridge, Amounts("text", 0)) EXCEPT !.form = "other"] >>

PipelineContents == { <<>>, <<1>>, <<4, 1, 2>>, <<2, 3>> }
=============================================================================
