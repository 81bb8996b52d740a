------------------------------ MODULE FourEyes ------------------------------
(***************************************************************************)
(* What maker-checker promises of a proposal: its effect appears once, at  *)
(* the decision of somebody other than its maker, or never.                *)
(***************************************************************************)
EXTENDS Naturals, Sequences

CONSTANTS Users, NoOne

VARIABLE proposals   \* in the order they were made: maker, outcome, who decided

Proposed(u) == [maker |-> u, outcome |-> "open", by |-> NoOne]

\* Somebody proposes.
Propose(u) == proposals' = Append(proposals, Proposed(u))

\* Another person agrees, and the effect is there.
TakeEffect(p, u) ==
    /\ proposals[p].outcome = "open" /\ proposals[p].maker # u
    /\ proposals' = [proposals EXCEPT ![p].outcome = "effective", ![p].by = u]

\* Open proposals are turned down, or run out of time together.
Lapse(P) ==
    /\ P # {} /\ \A p \in P : proposals[p].outcome = "open"
    /\ proposals' = [p \in DOMAIN proposals |->
                       IF p \in P THEN [proposals[p] EXCEPT !.outcome = "void"] ELSE proposals[p]]

Init == proposals = <<>>

Next == \/ \E u \in Users : Propose(u)
        \/ \E p \in DOMAIN proposals, u \in Users : TakeEffect(p, u)
        \/ \E P \in SUBSET DOMAIN proposals : Lapse(P)

Spec == Init /\ [][Next]_proposals
=============================================================================
