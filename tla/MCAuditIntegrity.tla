-------------------------- MODULE MCAuditIntegrity --------------------------
(***************************************************************************)
(* AuditIntegrity for TLC: three transactions of two processes, two        *)
(* requests of one event loop, or a lone job, and a property the code does *)
(* not have.                                                               *)
(***************************************************************************)
EXTENDS AuditIntegrity

CONSTANTS r1, r2, job, cli, loop, thread, shell, server

\* A request, a job's handler that records twice, and `radarctl`.
ThreeTxs    == {r1, job, cli}
ThreeThread == [t \in ThreeTxs |-> CASE t = r1 -> loop [] t = job -> thread [] t = cli -> shell]
ThreeHost   == [t \in ThreeTxs |-> IF t = cli THEN shell ELSE server]
ThreeAppend == [t \in ThreeTxs |-> IF t = job THEN 2 ELSE 1]

\* Two requests that record one event each.
TwoRequests == {r1, r2}
LoopThread  == [t \in TwoRequests |-> loop]
LoopHost    == [t \in TwoRequests |-> server]
OneAppend   == [t \in TwoRequests |-> 1]

\* A job's handler that records more than once, alone.
OneTx       == {job}
OneThread   == [t \in OneTx |-> thread]
OneHost     == [t \in OneTx |-> server]
FourAppends == [t \in OneTx |-> 4]

FairSpec == Spec /\ Fairness
-----------------------------------------------------------------------------
\* spec.md:541: a change made directly in the database breaks the hash chain and is
\* reported by the integrity check.  A check of a range does not ask whether its
\* first row is the first of the chain.
BreakReported == VerifyAll # None ~> alarm # None
=============================================================================
