---------------------------- MODULE MCJobRunner ----------------------------
(***************************************************************************)
(* JobRunner for TLC: the specification with its fairness, the properties  *)
(* of every job and caller, and one the code does not have.                *)
(***************************************************************************)
EXTENDS JobRunner

FairSpec == Spec /\ Fairness

\* JobFrees for every job (runner._execute's timeout, ledger.start_or_refuse).
JobsFree == \A j \in Jobs : JobFrees(j)

\* CallReturns for every caller (runner.run_now, with its recursion).
CallsReturn == \A c \in Callers : CallReturns(c)

-----------------------------------------------------------------------------
\* reconcile's docstring (runner.py:159): every run that a restart found running is
\* resolved by its job's policy, so that a server which accepts triggers has run it again.
\* What ends a start half-way, a crash or a job taken meanwhile, ends the list of the
\* interrupted runs with it, and the next start looks for running rows only.
EveryOrphanRunAgain ==
    proc[Server] = "up" =>
        \A i \in DOMAIN rows : rows[i].state = INTERRUPTED =>
            \E k \in DOMAIN rows : workers[k].call.own /\ workers[k].call.after = i
=============================================================================
