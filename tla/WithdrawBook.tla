---------------------------- MODULE WithdrawBook ----------------------------
(***************************************************************************)
(* What the withdraw service promises to those who request withdrawals:    *)
(* requests are put together to payments, each of which is paid or given   *)
(* back as a whole; no request is in two payments at a time, only what is  *)
(* given back is paid again, and nothing changes once it is reported as    *)
(* paid.  That a payment which is given back has no effect on L1 is not    *)
(* promised.                                                               *)
(***************************************************************************)

CONSTANT Withdrawals

VARIABLES
    status,     \* of each withdrawal, as its row tells it
    open,       \* payments under way, each the set of its withdrawals
    paid,       \* payments reported as paid
    settled     \* those that have a confirmed transaction on L1

book == <<status, open, paid, settled>>

Init ==
    /\ status = [w \in Withdrawals |-> "Absent"]
    /\ open = {} /\ paid = {} /\ settled = {}

Marked(S, s) == [w \in Withdrawals |-> IF w \in S THEN s ELSE status[w]]

Request(w) ==
    /\ status[w] = "Absent"
    /\ status' = Marked({w}, "Pending")
    /\ UNCHANGED <<open, paid, settled>>

Submit(S) ==
    /\ S # {} /\ \A w \in S : status[w] = "Pending"
    /\ status' = Marked(S, "SubmitTxMsg")
    /\ open' = open \union {S}
    /\ UNCHANGED <<paid, settled>>

\* L1 confirms a transaction for the payment, at any time.
Settle(S) ==
    /\ S # {} /\ \A w \in S : status[w] # "Absent"
    /\ settled' = settled \union {S}
    /\ UNCHANGED <<status, open, paid>>

Pay(S) ==
    /\ S \in open \intersect settled
    /\ status' = Marked(S, "Success")
    /\ open' = open \ {S}
    /\ paid' = paid \union {S}
    /\ UNCHANGED settled

GiveBack(S) ==
    /\ S \in open
    /\ status' = Marked(S, "Pending")
    /\ open' = open \ {S}
    /\ UNCHANGED <<paid, settled>>

Next ==
    \/ \E w \in Withdrawals : Request(w)
    \/ \E S \in SUBSET Withdrawals : Submit(S) \/ Settle(S) \/ Pay(S) \/ GiveBack(S)

Spec == Init /\ [][Next]_book
=============================================================================
