----------------------------- MODULE DepositLog -----------------------------
(***************************************************************************)
(* What the L1 indexer promises to the services that read its table: from  *)
(* some block on the deposits of the chain are stored one by one, in the   *)
(* order of the chain, none left out and none ever taken back.             *)
(***************************************************************************)
EXTENDS Naturals

CONSTANT Positions   \* positions of the deposits: block and transaction

VARIABLES
    started,   \* was the log begun?
    first,     \* the last block that is left out
    stored     \* the deposits in the log

log == <<started, first, stored>>

Before(p, q) == p[1] < q[1] \/ (p[1] = q[1] /\ p[2] < q[2])

Missing == {p \in Positions : p[1] > first /\ p \notin stored}

Init == started = FALSE /\ first = 0 /\ stored = {}

Begin ==
    /\ ~started
    /\ started' = TRUE
    /\ first' \in Nat
    /\ UNCHANGED stored

Append(p) ==
    /\ started
    /\ p \in Missing
    /\ \A q \in Missing : ~Before(q, p)
    /\ stored' = stored \union {p}
    /\ UNCHANGED <<started, first>>

Next == Begin \/ \E p \in Positions : Append(p)

Spec == Init /\ [][Next]_log
=============================================================================
