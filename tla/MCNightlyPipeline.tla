------------------------- MODULE MCNightlyPipeline -------------------------
(***************************************************************************)
(* NightlyPipeline for TLC: the mixes of disturbances that are explored.   *)
(***************************************************************************)
EXTENDS NightlyPipeline

Mix(triggers, failures, timeouts, crashes, closes, empties, misses) ==
    [triggers |-> triggers, failures |-> failures, timeouts |-> timeouts,
     crashes |-> crashes, closes |-> closes, empties |-> empties, misses |-> misses]

\* A failing handler with a restart; two restarts, the second also of the reconcile;
\* failures that exhaust a step, so that the batch itself is retried; two batches
\* and a lone step with a failure, or with a restart; a wait given up; a book
\* that is empty for one scoring, with a restart; an entry missed, with a failure and a
\* restart; two entries missed, by a step whose attempts are exhausted.
AllMixes == {Mix(1, 1, 0, 1, 1, 0, 0), Mix(1, 0, 0, 2, 0, 0, 0), Mix(1, 2, 0, 0, 1, 0, 0),
             Mix(2, 1, 0, 0, 1, 0, 0), Mix(2, 0, 0, 1, 1, 0, 0), Mix(1, 0, 1, 0, 0, 0, 0),
             Mix(1, 0, 0, 1, 0, 1, 0),
             Mix(1, 1, 0, 1, 0, 0, 1), Mix(1, 2, 0, 0, 0, 0, 2)}

\* A wait given up, and nothing else.
LateMix == {Mix(1, 0, 1, 0, 0, 0, 0)}
=============================================================================
