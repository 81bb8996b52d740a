----------------------------- MODULE AppendLog -----------------------------
(***************************************************************************)
(* What the audit trail promises to whoever reads it, with no locks,       *)
(* hashes or dialects in sight: it only grows, and it grows by the whole   *)
(* of one transaction's events, in the order they were recorded.           *)
(***************************************************************************)
EXTENDS Naturals, Sequences

CONSTANTS Txs,      \* the transactions that record events
          Appends   \* how many events each may record

VARIABLE log

Authors == {log[i][1] : i \in DOMAIN log}

Init == log = <<>>

Record(t) ==
    /\ t \notin Authors
    /\ \E n \in 1..Appends[t] : log' = log \o [k \in 1..n |-> <<t, k>>]

Next == \E t \in Txs : Record(t)

Spec == Init /\ [][Next]_log
=============================================================================
