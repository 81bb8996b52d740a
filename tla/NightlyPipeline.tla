-------------------------- MODULE NightlyPipeline --------------------------
(***************************************************************************)
(* The nightly batch: scheduler/pipeline.py drives the six step jobs of    *)
(* services/nightly.py under one run id, inside the pipeline job's own     *)
(* handler, in the server process.  Every run_now is a row of the ledger   *)
(* and a call: the row's handler thread and whoever waits for it.  The     *)
(* threads' commits to the forecast, triage, case and notification tables  *)
(* are steps apart from the commits that settle their rows.                *)
(***************************************************************************)
EXTENDS JobLedger, FiniteSets

CONSTANTS Borrowers,
          Triggered,     \* the jobs an administrator or a cron tick starts
          MaxAttempts,   \* default_step_policy: of the pipeline and of each step
          Budgets        \* bounds: how many triggers, failures, timeouts, crashes,
                         \* closed cases, scorings of an empty book and threads
                         \* that miss an entry a behaviour may have, in each mix

PIPELINE_STEPS == <<"ingest", "test", "score", "rank", "update_cases", "dispatch">>
PIPELINE == "pipeline"

ASSUME PipelineAssumption ==
    /\ Jobs = {PIPELINE} \union {PIPELINE_STEPS[n] : n \in DOMAIN PIPELINE_STEPS}
    /\ Triggered \subseteq Jobs
    /\ IsFiniteSet(Borrowers) /\ MaxAttempts \in Nat \ {0}
    /\ Budgets \subseteq [{"triggers", "failures", "timeouts", "crashes",
                             "closes", "empties", "misses"} -> Nat]

VARIABLES
    rows,        \* the job_run table
    calls,       \* the run_now call behind each row, parallel to rows
    forecasts,   \* ForecastRun rows, each named after the row of the thread that made it
    queue,       \* committed batches of TriageEntry rows
    cases,       \* Case rows; seq is the ordinal in the UNIQUE reference, and
                 \* closed the length of the ledger when it was closed, 0 before
    notes,       \* Notification rows of template band_change
    proc,        \* "down", "starting" (reconcile) or "up"
    todo,        \* reconcile: interrupted rows still to be run again
    missed,      \* what each step has skipped or failed to insert: the metrics its
                 \* thread returns, which the job_run row keeps if it succeeds
    left,        \* what is left of the mix the behaviour began with
    gaveup       \* history: a wait has ended before its thread

store  == <<forecasts, queue, cases, notes>>
bounds == <<left, gaveup, missed>>
vars   == <<rows, calls, store, proc, todo, bounds>>

Reference == Borrowers \X (Nat \ {0})
Batch     == [f : Nat \ {0}, by : Nat \ {0}, act : SUBSET Borrowers]
Work      == (SUBSET Borrowers) \union (SUBSET Reference)

\* parent: the row whose handler waits for this one; 0 for a thread of the pool,
\* or for main while the server starts.  step counts the steps a pipeline thread
\* has seen succeed.  f, work and seq are what a step's thread has read so far.
Call == [parent  : Nat,
         awaited : BOOLEAN,
         phase   : {"check", "go", "wait", "raise", "return",
                    "read", "count", "write", "saved", "done"},
         step    : 0..Len(PIPELINE_STEPS),
         f       : Nat,
         work    : Work,
         seq     : [Borrowers -> Nat]]

NewCall(r, p) ==
    [parent |-> p, awaited |-> TRUE, step |-> 0, f |-> 0, work |-> {},
     phase |-> IF r.job = PIPELINE THEN "check" ELSE "read", seq |-> [b \in Borrowers |-> 0]]

Free(job) == RunningRun(rows, job) = {}

Spend(what) == left[what] > 0 /\ left' = [left EXCEPT ![what] = @ - 1]

Init ==
    /\ rows = <<>> /\ calls = <<>>
    /\ forecasts = {} /\ queue = {} /\ cases = {} /\ notes = {}
    /\ proc = "up" /\ todo = {}
    /\ left \in Budgets /\ gaveup = FALSE /\ missed = {}
-----------------------------------------------------------------------------
\* run_now, cut down to what JobRunner shows of it: one atomic start.
RunNow(r, p, cs) ==
    /\ rows' = Inserted(rows, r)
    /\ calls' = Append(cs, NewCall(r, p))

\* A cron tick or an administrator starts a batch, or one step of it alone, under
\* a fresh run id.
Trigger(job) ==
    /\ proc = "up" /\ Free(job)
    /\ Spend("triggers")
    /\ RunNow([job |-> job, run |-> 0, attempt |-> 1], 0, calls)
    /\ UNCHANGED <<store, proc, todo, gaveup, missed>>

\* A thread that is over, and what it read forgotten.
Over(c) == [c EXCEPT !.phase = "done", !.f = 0, !.work = {}, !.seq = [b \in Borrowers |-> 0]]

\* A thread writes the outcome of its row, which a timeout may have settled before.
Settle(k, from, outcome) ==
    /\ calls[k].phase = from
    /\ rows' = Transition(rows, {k}, outcome)
    /\ calls' = [calls EXCEPT ![k] = Over(@)]
    /\ UNCHANGED <<store, proc, todo, bounds>>

\* The wait for a thread ends before the thread does.
TimeOut(k) ==
    /\ calls[k].awaited /\ calls[k].phase # "done" /\ rows[k].state = RUNNING
    /\ Spend("timeouts")
    /\ rows' = Transition(rows, {k}, FAILED)
    /\ gaveup' = TRUE
    /\ UNCHANGED <<calls, store, proc, todo, missed>>

\* What an outcome is to the pipeline thread waiting for it.
Passed(cs, p) ==
    IF p = 0 THEN cs
    ELSE [cs EXCEPT ![p].step = @ + 1,
                    ![p].phase = IF cs[p].step + 1 = Len(PIPELINE_STEPS) THEN "return" ELSE "go"]

HaltIgnored(cs, p) == Passed(cs, p)

Halted(cs, p) == IF p = 0 THEN cs ELSE [cs EXCEPT ![p].phase = "raise"]

Die ==
    /\ proc' = "down" /\ todo' = {}
    /\ calls' = [k \in DOMAIN calls |->
                   [Over(calls[k]) EXCEPT !.awaited = FALSE]]

RetryOf(k) == [job |-> rows[k].job, run |-> rows[k].run, attempt |-> rows[k].attempt + 1]

\* run_now looks at the outcome: retry it, or hand it to the caller.  A retry that
\* finds its job taken raises, and ends the caller, or the startup.
Answer(k) ==
    LET p    == calls[k].parent
        done == [calls EXCEPT ![k].awaited = FALSE]
    IN  /\ calls[k].awaited /\ rows[k].state # RUNNING
        /\ \/ /\ rows[k].state = SUCCEEDED
              /\ calls' = Passed(done, p) /\ UNCHANGED <<rows, proc, todo>>
           \/ /\ rows[k].state = FAILED /\ rows[k].attempt < MaxAttempts /\ Free(rows[k].job)
              /\ RunNow(RetryOf(k), p, done) /\ UNCHANGED <<proc, todo>>
           \/ /\ rows[k].state = FAILED /\ rows[k].attempt < MaxAttempts /\ ~Free(rows[k].job)
              /\ IF p = 0 /\ proc = "starting"
                   THEN Die /\ UNCHANGED rows
                   ELSE calls' = Halted(done, p) /\ UNCHANGED <<rows, proc, todo>>
           \/ /\ rows[k].state = FAILED /\ rows[k].attempt >= MaxAttempts
              /\ calls' = Halted(done, p) /\ UNCHANGED <<rows, proc, todo>>
        /\ UNCHANGED <<store, bounds>>
-----------------------------------------------------------------------------
\* The pipeline's handler: run_nightly_pipeline.
IsPipeline(k) == rows[k].job = PIPELINE

\* _refuse_overlapping_pipeline: a running row of another run halts this one.
CheckOverlap(k) ==
    /\ IsPipeline(k) /\ calls[k].phase = "check"
    /\ calls' = [calls EXCEPT ![k].phase =
                   IF \E i \in RunningRuns(rows) : rows[i].run # rows[k].run
                     THEN "raise" ELSE "go"]
    /\ UNCHANGED <<rows, store, proc, todo, bounds>>

\* The next step of the fixed order, under the pipeline's run id, attempt 1.
\* JobAlreadyRunningError is caught by nobody between here and the row.
StartStep(k) ==
    LET step == PIPELINE_STEPS[calls[k].step + 1]
    IN  /\ IsPipeline(k) /\ calls[k].phase = "go"
        /\ IF Free(step)
             THEN RunNow([job |-> step, run |-> rows[k].run, attempt |-> 1], k,
                         [calls EXCEPT ![k].phase = "wait"])
             ELSE calls' = Halted(calls, k) /\ UNCHANGED rows
        /\ UNCHANGED <<store, proc, todo, bounds>>

PipelineEnds(k) ==
    IsPipeline(k) /\ (Settle(k, "return", SUCCEEDED) \/ Settle(k, "raise", FAILED))
-----------------------------------------------------------------------------
\* The handlers of the steps.  Reads and commits are apart: other threads' commits
\* come between.
At(k, step, phase) == rows[k].job = step /\ calls[k].phase = phase

Saved(k) == calls' = [calls EXCEPT ![k] = [Over(@) EXCEPT !.phase = "saved"]]

\* Thread k counts or names items in its metrics; those in lost are a disturbance.
Report(k, items, lost) ==
    /\ missed' = missed \union {[by |-> k, of |-> i] : i \in items}
    /\ IF lost = {} THEN UNCHANGED left ELSE Spend("misses")
    /\ UNCHANGED gaveup

Read(k, f, work) ==
    /\ calls' = [calls EXCEPT ![k].phase = "write", ![k].f = f, ![k].work = work]
    /\ UNCHANGED <<rows, store, proc, todo>>

Commit(k) == Saved(k) /\ UNCHANGED <<rows, proc, todo>>

\* _existing_forecast_run: the newest by created_at, an order that the commits of
\* two concurrent creators do not fix; 0 when the run id has none.
ForecastsOf(run) == {f \in forecasts : rows[f].run = run}
Existing(run) == IF ForecastsOf(run) = {} THEN {0} ELSE ForecastsOf(run)

\* Ingestion and testing commit to tables that the later steps' control does not
\* read: all that is seen of them is that they end.
Prepare(k) == rows[k].job \in {"ingest", "test"} /\ Settle(k, "read", SUCCEEDED)

\* A book without a covenant to forecast leaves the batch without a ForecastRun.
NothingToScore(k) ==
    /\ At(k, "score", "read") /\ Spend("empties")
    /\ rows' = Transition(rows, {k}, SUCCEEDED)
    /\ calls' = [calls EXCEPT ![k] = Over(@)]
    /\ UNCHANGED <<store, proc, todo, gaveup, missed>>

\* _current_job_run, then the run to resume.
ReadScore(k) ==
    /\ At(k, "score", "read")
    /\ \E i \in RunningRun(rows, "score") : rows[i].run = rows[k].run
    /\ \E f \in Existing(rows[k].run) : Read(k, f, {})
    /\ UNCHANGED bounds

\* _current_job_run raises when no row of this run's step is running: a thread
\* that its wait gave up on ends here, unless a retry is running.
ScoreRefused(k) ==
    /\ rows[k].job = "score"
    /\ ~ \E i \in RunningRun(rows, "score") : rows[i].run = rows[k].run
    /\ Settle(k, "read", FAILED)

ScoreAlways(k) ==
    /\ At(k, "score", "write") /\ Commit(k)
    /\ forecasts' = forecasts \union {k}
    /\ UNCHANGED <<queue, cases, notes, bounds>>

\* Resume the run that was found, whose rows are all there, or create one.
Score(k) ==
    /\ At(k, "score", "write") /\ Commit(k)
    /\ forecasts' = IF calls[k].f = 0 THEN forecasts \union {k} ELSE forecasts
    /\ UNCHANGED <<queue, cases, notes, bounds>>

ReadRankUnchecked(k) ==
    /\ At(k, "rank", "read")
    /\ \E f \in Existing(rows[k].run) : Read(k, f, {})
    /\ UNCHANGED bounds

\* A forecast whose queue is there already leaves rank nothing to insert.
ReadRank(k) ==
    /\ At(k, "rank", "read")
    /\ \E f \in Existing(rows[k].run) :
         Read(k, IF \E e \in queue : e.f = f THEN 0 ELSE f, {})
    /\ UNCHANGED bounds

\* The day's queue, inserted once per forecast run; any borrowers may be in the
\* act band.
Rank(k) ==
    /\ At(k, "rank", "write") /\ Commit(k)
    /\ IF calls[k].f = 0 THEN UNCHANGED queue
       ELSE \E act \in SUBSET Borrowers :
              queue' = queue \union {[f |-> calls[k].f, by |-> k, act |-> act]}
    /\ UNCHANGED <<forecasts, cases, notes, bounds>>

\* update_cases, for each act entry: look for an open case, count the borrower's
\* cases for the next reference, insert.
OpenCases(b) == {c \in cases : c.borrower = b /\ c.closed = 0}
CasesOf(b)   == {c \in cases : c.borrower = b}

ReadCasesUnchecked(k) ==
    /\ At(k, "update_cases", "read")
    /\ \E f \in Existing(rows[k].run) :
         calls' = [calls EXCEPT
           ![k].phase = "count", ![k].f = f,
           ![k].work = UNION {e.act : e \in {q \in queue : q.f = f}}]
    /\ UNCHANGED <<rows, store, proc, todo, bounds>>

ReadCases(k) ==
    /\ At(k, "update_cases", "read")
    /\ \E f \in Existing(rows[k].run) :
         calls' = [calls EXCEPT
           ![k].phase = "count", ![k].f = f,
           ![k].work = {b \in UNION {e.act : e \in {q \in queue : q.f = f}} : OpenCases(b) = {}}]
    /\ UNCHANGED <<rows, store, proc, todo, bounds>>

CountOpenCases(k) ==
    /\ At(k, "update_cases", "count")
    /\ calls' = [calls EXCEPT ![k].phase = "write",
                              ![k].seq = [b \in Borrowers |-> IF b \in calls[k].work
                                            THEN Cardinality(OpenCases(b)) + 1 ELSE 0]]
    /\ UNCHANGED <<rows, store, proc, todo, bounds>>

CountCases(k) ==
    /\ At(k, "update_cases", "count")
    /\ calls' = [calls EXCEPT ![k].phase = "write",
                              ![k].seq = [b \in Borrowers |-> IF b \in calls[k].work
                                            THEN Cardinality(CasesOf(b)) + 1 ELSE 0]]
    /\ UNCHANGED <<rows, store, proc, todo, bounds>>

\* Each insert has a savepoint of its own: where the reference is taken it fails, and any
\* other may fail as well.  The borrower is recorded and skipped, the step goes on.
Unused(k) == {b \in calls[k].work : \A c \in CasesOf(b) : c.seq # calls[k].seq[b]}

Open(k, opened) ==
    cases' = cases \union
        {[borrower |-> b, seq |-> calls[k].seq[b], f |-> calls[k].f, closed |-> 0] : b \in opened}

UpdateCasesUnrecorded(k) ==
    \E opened \in SUBSET Unused(k) :
        /\ At(k, "update_cases", "write") /\ Commit(k) /\ Open(k, opened)
        /\ Report(k, {}, Unused(k) \ opened)
        /\ UNCHANGED <<forecasts, queue, notes>>

UpdateCases(k) ==
    \E opened \in SUBSET Unused(k) :
        /\ At(k, "update_cases", "write") /\ Commit(k) /\ Open(k, opened)
        /\ Report(k, calls[k].work \ opened, Unused(k) \ opened)
        /\ UNCHANGED <<forecasts, queue, notes>>

\* dispatch: one band_change notification for each case opened from the run that has an
\* assignee; the others are counted.
Ref(c)        == <<c.borrower, c.seq>>
Refs(cs)      == {Ref(c) : c \in cs}
Opened(f)     == {c \in cases : c.f = f}
Unnotified(f) == {c \in Opened(f) : \A n \in notes : n.case # Ref(c)}

ReadDispatchAll(k) ==
    /\ At(k, "dispatch", "read")
    /\ \E f \in Existing(rows[k].run) : Read(k, f, Refs(Opened(f)))
    /\ UNCHANGED bounds

ReadDispatch(k) ==
    /\ At(k, "dispatch", "read")
    /\ \E f \in Existing(rows[k].run) :
         \E unassigned \in SUBSET Refs(Unnotified(f)) :
             /\ Read(k, f, Refs(Unnotified(f)) \ unassigned)
             /\ Report(k, unassigned, unassigned)

\* A notification whose savepoint fails is recorded and skipped as well.
Dispatch(k) ==
    \E sent \in SUBSET calls[k].work :
        /\ At(k, "dispatch", "write") /\ Commit(k)
        /\ notes' = notes \union {[case |-> c, by |-> k] : c \in sent}
        /\ Report(k, calls[k].work \ sent, calls[k].work \ sent)
        /\ UNCHANGED <<forecasts, queue, cases>>

\* A handler that raises has rolled its transaction back.
HandlerFails(k) ==
    /\ ~IsPipeline(k) /\ calls[k].phase \in {"read", "count", "write"}
    /\ Spend("failures")
    /\ rows' = Transition(rows, {k}, FAILED)
    /\ calls' = [calls EXCEPT ![k] = Over(@)]
    /\ UNCHANGED <<store, proc, todo, gaveup, missed>>

StepEnds(k) == ~IsPipeline(k) /\ Settle(k, "saved", SUCCEEDED)

StepHandler(k) ==
    \/ Prepare(k) \/ NothingToScore(k) \/ ReadScore(k) \/ ScoreRefused(k) \/ Score(k)
    \/ ReadRank(k) \/ Rank(k)
    \/ ReadCases(k) \/ CountCases(k) \/ UpdateCases(k)
    \/ ReadDispatch(k) \/ Dispatch(k)
    \/ StepEnds(k)
-----------------------------------------------------------------------------
\* A user closes a case.
CloseCase ==
    /\ proc = "up" /\ Spend("closes")
    /\ \E c \in cases : /\ c.closed = 0
                        /\ cases' = (cases \ {c}) \union {[c EXCEPT !.closed = Len(rows)]}
    /\ UNCHANGED <<rows, calls, forecasts, queue, notes, proc, todo, gaveup, missed>>

Crash ==
    /\ proc # "down" /\ Spend("crashes")
    /\ Die /\ UNCHANGED <<rows, store, gaveup, missed>>

\* reconcile: interrupt every running row, then run each again before serving.
Restart ==
    /\ proc = "down" /\ proc' = "starting"
    /\ rows' = Transition(rows, RunningRuns(rows), INTERRUPTED)
    /\ todo' = RunningRuns(rows)
    /\ UNCHANGED <<calls, store, bounds>>

MainIdle == \A k \in DOMAIN calls : ~(calls[k].awaited /\ calls[k].parent = 0)

ResumeNext(i) ==
    /\ proc = "starting" /\ MainIdle /\ i \in todo
    /\ IF Free(rows[i].job)
         THEN RunNow(RetryOf(i), 0, calls) /\ todo' = todo \ {i} /\ UNCHANGED proc
         ELSE Die /\ UNCHANGED rows
    /\ UNCHANGED <<store, bounds>>

Ready ==
    /\ proc = "starting" /\ MainIdle /\ todo = {}
    /\ proc' = "up"
    /\ UNCHANGED <<rows, calls, store, todo, bounds>>

Next ==
    \/ \E job \in Triggered : Trigger(job)
    \/ \E k \in DOMAIN rows :
         \/ CheckOverlap(k) \/ StartStep(k) \/ PipelineEnds(k)
         \/ StepHandler(k) \/ HandlerFails(k)
         \/ TimeOut(k) \/ Answer(k) \/ ResumeNext(k)
    \/ CloseCase \/ Crash \/ Restart \/ Ready

Spec == Init /\ [][Next]_vars
-----------------------------------------------------------------------------
\* The ledger, the calls and the store hold what their tables can hold.
TypeOK ==
    /\ rows \in Seq(JobRun) /\ calls \in Seq(Call) /\ Len(calls) = Len(rows)
    /\ forecasts \subseteq DOMAIN rows
    /\ queue \subseteq Batch
    /\ cases \subseteq [borrower : Borrowers, seq : Nat \ {0}, f : forecasts, closed : Nat]
    /\ notes \subseteq [case : Reference, by : DOMAIN rows]
    /\ missed \subseteq [by : Nat \ {0}, of : Borrowers \union Reference]
    /\ proc \in {"down", "starting", "up"} /\ todo \subseteq DOMAIN rows
    /\ left \in [DOMAIN left -> Nat] /\ gaveup \in BOOLEAN

Attempted(run, job) == {i \in DOMAIN rows : rows[i].run = run /\ rows[i].job = job}
Achieved(run, job)  == {i \in Attempted(run, job) : rows[i].state = SUCCEEDED}
IsBatch(run)        == Attempted(run, PIPELINE) # {}
Delivered(run)      == Achieved(run, PIPELINE) # {}

Needed == [job \in Jobs |->
    {PIPELINE_STEPS[m] : m \in {m \in DOMAIN PIPELINE_STEPS :
        \/ job = PIPELINE
        \/ \E n \in DOMAIN PIPELINE_STEPS : job = PIPELINE_STEPS[n] /\ m < n}}]

Due(r) ==
    Needed[r.job] \subseteq
        {rows[e].job : e \in {e \in DOMAIN rows : rows[e].run = r.run /\ rows[e].state = SUCCEEDED}}

\* What a step of the system does when it starts a step of a batch, or ends a batch
\* as a success.
InOrder ==
    /\ Len(rows') > Len(rows) =>
         LET r == rows'[Len(rows')]
         IN  r.job # PIPELINE /\ IsBatch(r.run) => Due(r)
    /\ \A i \in DOMAIN rows :
         IsPipeline(i) /\ rows[i].state # SUCCEEDED /\ rows'[i].state = SUCCEEDED =>
             Due(rows[i])

\* run_nightly_pipeline halts at the first step that does not succeed
\* (pipeline.py:249): no step of a batch is started before every earlier one has
\* succeeded, and the batch does not become a success before all of them have,
\* whatever retries, zombies of timed-out attempts and restarts took part.
StepsInOrder == [][InOrder]_vars

\* nightly.py:31: the first attempt of a run id creates its ForecastRun, every
\* later one finds it.
OneForecastRun ==
    \A f, g \in forecasts : rows[f].run = rows[g].run => f = g

\* No wait has given up on a live thread.  The properties that follow are
\* the pipeline's idempotency; a thread that outlives its wait runs beside its own
\* retry and breaks them.
Patient == ~gaveup

PatientForecastRun == Patient => OneForecastRun

\* nightly.py:890: a rank retried, or repeated by a restart, does not insert the
\* day's queue again.
OneQueue == Patient => \A d, e \in queue : d.f = e.f => d = e

\* nightly.py:1139: however often dispatch is repeated, the opening of a case is
\* notified once.
NotifiedOnce == Patient => \A m, n \in notes : m.case = n.case => m = n

\* nightly.py:1037: a borrower has at most one open case, also when batches
\* open cases after users have closed earlier ones.
OneOpenCase == Patient => \A b \in Borrowers : Cardinality(OpenCases(b)) <= 1

\* nightly.py:1054: the reference counted for a borrower is still free at the insert, with
\* cases closed, batches repeated and rows resumed in between, so that no borrower is
\* skipped for a reference that another case has.
ReferencesFree ==
    Patient => \A k \in DOMAIN rows :
        At(k, "update_cases", "write") => Unused(k) = calls[k].work

\* Thread k has named item in the metrics of its row, or counted it there.
Reported(k, item) == [by |-> k, of |-> item] \in missed

\* Borrower b has a case opened from forecast f, or one that was open when row u began.
Covered(b, f, u) ==
    \E c \in CasesOf(b) : c.f = f \/ c.closed = 0 \/ u <= c.closed

\* What a run has once one of its update_cases, u, and one of its dispatches, d, are done.
Complete(run, u, d) ==
    \A f \in ForecastsOf(run) :
        /\ \E e \in queue : e.f = f
        /\ \A e \in queue : e.f = f => \A b \in e.act : Covered(b, f, u) \/ Reported(u, b)
        /\ \A c \in Unnotified(f) : Reported(d, Ref(c))

\* What a step of the system has before it when it records a batch as a success.
RecordsComplete ==
    Patient => \A k \in DOMAIN rows :
        IsPipeline(k) /\ rows[k].state # SUCCEEDED /\ rows'[k].state = SUCCEEDED =>
            \E u \in Achieved(rows[k].run, "update_cases") :
                \E d \in Achieved(rows[k].run, "dispatch") : Complete(rows[k].run, u, d)

\* nightly.py:16, every isolated failure stays visible in that step's own JobRun.metrics:
\* when a batch is recorded a success, its forecast has a queue, and all that it lacks, a
\* case for a borrower of the act band or the notice of a case, is in the metrics that
\* rows of its steps have kept, although a step commits before its row takes the metrics
\* and a crash in between loses them.
BatchDelivered == [][RecordsComplete]_vars

\* _latest_step_states: for each step of a run the state of its highest attempt.  The
\* query has no order, so of rows with equal attempts any may be the one it keeps.
EarliestStates(run, step) ==
    {rows[i].state : i \in {i \in Attempted(run, step) :
                              \A j \in Attempted(run, step) : rows[i].attempt <= rows[j].attempt}}

LatestStates(run, step) ==
    {rows[i].state : i \in {i \in Attempted(run, step) :
                              \A j \in Attempted(run, step) : rows[j].attempt <= rows[i].attempt}}

\* check_deadline is silent about a run that PipelineRunStatus.is_complete calls complete.
SeenComplete(run) ==
    \A n \in DOMAIN PIPELINE_STEPS : LatestStates(run, PIPELINE_STEPS[n]) = {SUCCEEDED}

\* test_batch_resilience.py:607: no deadline alert is raised for a batch that is done.
\* It holds of every batch whose pipeline row succeeded at its first attempt, however
\* its steps were retried; a second attempt numbers the steps from 1 again, and what
\* check_deadline says of that batch is not promised.
DeliverySeen ==
    \A i \in DOMAIN rows :
        IsPipeline(i) /\ rows[i].state = SUCCEEDED /\ Attempted(rows[i].run, PIPELINE) = {i}
            => SeenComplete(rows[i].run)
=============================================================================
