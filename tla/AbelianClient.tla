---------------------------- MODULE AbelianClient ---------------------------
(***************************************************************************)
(* The Abelian client (indexer_abelian.go): what its calls return in a     *)
(* state of the L1 chain.  The memo of a transaction is a record with the  *)
(* fields parseTx looks at.                                                *)
(***************************************************************************)
EXTENDS AbelianChain, Integers

CONSTANTS
    memo,                 \* the memo of each transaction
    listenAddress,        \* IndexerListenAddress
    targetConfirmations,  \* IndexerListenTargetConfirmations; with 0 a transaction
                          \* of the mempool would do, which is left out
    MaxInt64              \* largest value ParseInt accepts (2^63 - 1)

\* An address is its hexadecimal digits behind a prefix.
Address == [prefix : {"", "0x", "0X"}, digits : STRING]

\* An amount as it is written.  Tenths are enough to tell an amount that is
\* not a whole number from one that is.
Amount == [notation : {"plain", "scientific", "text"}, tenths : Int]

\* "none": too short or not hexadecimal; "other": another action or protocol;
\* "broken": a deposit whose fields json.Unmarshal refuses.
Forms == {"none", "other", "broken", "deposit"}
Memo == [form : Forms, to : Address, from : Address, value : Amount]

ASSUME ClientAssumption ==
    /\ memo \in [Txs -> Memo]
    /\ listenAddress \in Address
    /\ targetConfirmations \in Nat \ {0}
    /\ MaxInt64 \in Nat

\* has0xPrefix also knows 0X, but only 0x is taken off.
WithoutPrefix(address) ==
    IF address.prefix = "0x" THEN [address EXCEPT !.prefix = ""] ELSE address

Empty(address) == address.prefix = "" /\ address.digits = ""

\* The fraction of an amount in scientific notation is cut off.
ConvertScientificToBigIntString(v) ==
    LET whole == IF v.tenths >= 0 THEN v.tenths \div 10 ELSE -((-v.tenths) \div 10)
    IN  IF v.notation = "scientific"
        THEN [notation |-> "plain", tenths |-> 10 * whole] ELSE v

\* strconv.ParseInt accepts whole numbers of 64 bits.
ParsesAsInt(v) ==
    /\ v.notation = "plain"
    /\ v.tenths % 10 = 0
    /\ v.tenths \div 10 \in -(MaxInt64 + 1) .. MaxInt64

-----------------------------------------------------------------------------
(* parseTx *)

IsDepositMemo(t) == memo[t].form \in {"broken", "deposit"}

\* parseTx returns an error: the amount is parsed before the receiver is
\* compared, so the memo need not be addressed to the bridge.
Malformed(t) ==
    /\ IsDepositMemo(t)
    /\ \/ memo[t].form = "broken"
       \/ ~ParsesAsInt(ConvertScientificToBigIntString(memo[t].value))

\* parseTx returns a result.
IsDeposit(t) ==
    /\ IsDepositMemo(t) /\ ~Malformed(t)
    /\ WithoutPrefix(memo[t].to) = WithoutPrefix(listenAddress)
    /\ WithoutPrefix(memo[t].from) # WithoutPrefix(listenAddress)
    /\ ~Empty(memo[t].from)

-----------------------------------------------------------------------------
(* The calls *)

LatestBlock == Height

\* The block GetBlockByHeight asks for: its first call returns the hash of the
\* block that is at this height now, its second call the block of that hash.
GetBlockHash(height) == blocks[height]

\* ParseBlock returns the deposits of a block from transaction txIndex on, or
\* the error of the first of these transactions that is malformed.
\* (From_Behind: txIndex itself is left out.)
From_Behind(block, txIndex) == {k \in 1 .. Len(block) : k > txIndex}

From(block, txIndex) == {k \in 1 .. Len(block) : k >= txIndex}
ParseBlockFails(block, txIndex) == \E k \in From(block, txIndex) : Malformed(block[k])
ParseBlock(block, txIndex) == {k \in From(block, txIndex) : IsDeposit(block[k])}

\* As below, but the confirmation that is missing is not asked for.
CheckConfirmations_OneShort(t) == HasConfirmations(t, targetConfirmations - 1)

\* Without an error: the node knows the transaction, and it has confirmations
\* enough.  One that a reorganisation removed has none.
CheckConfirmations(t) == HasConfirmations(t, targetConfirmations)
=============================================================================
