----------------------------- MODULE JobLedger -----------------------------
(***************************************************************************)
(* The job_run table (scheduler/ledger.py) as a sequence of rows: the      *)
(* index of a row is its primary key.  A row carries the fields that the   *)
(* ledger's guards read.  A logical run is named after the first row it    *)
(* was given, so run ids need no supply of fresh values; 0 in a request    *)
(* stands for run_id=None.                                                 *)
(***************************************************************************)
EXTENDS Naturals, Sequences

CONSTANT Jobs

RUNNING     == "running"
SUCCEEDED   == "succeeded"
FAILED      == "failed"
INTERRUPTED == "interrupted"
ABANDONED   == "abandoned"

TerminalStates == {SUCCEEDED, FAILED, INTERRUPTED, ABANDONED}
RunStates      == TerminalStates \union {RUNNING}

JobRun  == [job : Jobs, run : Nat \ {0}, attempt : Nat \ {0}, state : RunStates]
Request == [job : Jobs, run : Nat, attempt : Nat \ {0}]

\* running_runs and running_run: the rows a reconcile, or a start, looks at.
RunningRuns(rows)   == {i \in DOMAIN rows : rows[i].state = RUNNING}
RunningRun(rows, j) == {i \in RunningRuns(rows) : rows[i].job = j}

\* The row start_or_refuse inserts once it has found no running row.
InsertedWithoutRunId(rows, r) ==
    Append(rows, [job |-> r.job, run |-> r.run, attempt |-> r.attempt, state |-> RUNNING])

Inserted(rows, r) ==
    Append(rows, [job     |-> r.job,
                  run     |-> IF r.run = 0 THEN Len(rows) + 1 ELSE r.run,
                  attempt |-> r.attempt,
                  state   |-> RUNNING])

\* UPDATE job_run SET state = to WHERE id IN S AND state = 'running'.
UnguardedTransition(rows, S, to) ==
    [i \in DOMAIN rows |-> IF i \in S THEN [rows[i] EXCEPT !.state = to] ELSE rows[i]]

Transition(rows, S, to) ==
    [i \in DOMAIN rows |-> IF i \in S \intersect RunningRuns(rows)
                             THEN [rows[i] EXCEPT !.state = to]
                             ELSE rows[i]]
=============================================================================
