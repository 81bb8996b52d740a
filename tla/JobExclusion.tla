---------------------------- MODULE JobExclusion ----------------------------
(***************************************************************************)
(* What the ledger promises to whoever reads it, with no processes,        *)
(* threads, timeouts or restarts in sight: a job has at most one open      *)
(* attempt, an attempt is closed once, and how it was closed never         *)
(* changes.                                                                *)
(***************************************************************************)
CONSTANTS Jobs, Outcomes

VARIABLES open,    \* the open attempts of each job
          closed   \* how each closed attempt ended

vars == <<open, closed>>

Attempts == DOMAIN closed \union UNION {open[j] : j \in Jobs}

Init == open = [j \in Jobs |-> {}] /\ closed = [i \in {} |-> {}]

Open(j) ==
    /\ open[j] = {}
    /\ \E i \in open'[j] : i \notin Attempts /\ open' = [open EXCEPT ![j] = {i}]
    /\ UNCHANGED closed

\* Several attempts may close together: a reconcile is one transaction.
Close(S, outcome) ==
    /\ S \subseteq UNION {open[j] : j \in Jobs}
    /\ open' = [j \in Jobs |-> open[j] \ S]
    /\ closed' = [i \in DOMAIN closed \union S |->
                     IF i \in S THEN outcome ELSE closed[i]]

Next ==
    \/ \E j \in Jobs : Open(j)
    \/ \E o \in Outcomes, S \in SUBSET UNION {open[j] : j \in Jobs} : Close(S, o)

Spec == Init /\ [][Next]_vars
=============================================================================
