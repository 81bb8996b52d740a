--------------------------- MODULE PatienceProofs ---------------------------
(***************************************************************************)
(* The idempotency of the nightly steps, for any borrowers and mixes of    *)
(* disturbances: as long as no wait has ended before its thread, a job     *)
(* has one thread at a time, and what a thread has read of its own table   *)
(* is still true when it commits.                                          *)
(***************************************************************************)
EXTENDS PipelineProofs

Live(k) == calls[k].phase # "done"

\* While the process is down no thread runs and nobody waits.
NoneRuns == proc = "down" => \A k \in DOMAIN rows : ~Live(k) /\ ~calls[k].awaited

\* start_or_refuse: a job has at most one running row.
Exclusive ==
    \A i, j \in DOMAIN rows :
        rows[i].state = RUNNING /\ rows[j].state = RUNNING /\ rows[i].job = rows[j].job => i = j

\* A thread's row runs as long as the thread.
Alone == \A k \in DOMAIN rows : Live(k) => rows[k].state = RUNNING

\* What a thread has read is still so.
Fresh(k) ==
    /\ At(k, "score", "write") /\ calls[k].f = 0 => ForecastsOf(rows[k].run) = {}
    /\ At(k, "rank", "write") /\ calls[k].f # 0 => \A e \in queue : e.f # calls[k].f
    /\ At(k, "update_cases", "count") \/ At(k, "update_cases", "write") =>
         \A b \in calls[k].work : OpenCases(b) = {}
    /\ At(k, "dispatch", "write") => \A c \in calls[k].work : \A n \in notes : n.case # c

\* OneOpenCase, without counting.
OneOpen ==
    \A c, d \in cases : c.closed = 0 /\ d.closed = 0 /\ c.borrower = d.borrower => c = d

\* A run has one forecast, a forecast one queue, a case one notice, a borrower one
\* open case.
Once ==
    /\ OneForecastRun /\ OneOpen
    /\ \A d, e \in queue : d.f = e.f => d = e
    /\ \A m, n \in notes : m.case = n.case => m = n

PatienceInv ==
    /\ BatchInv /\ NoneRuns /\ Exclusive
    /\ Patient => Alone /\ Once /\ \A k \in DOMAIN rows : Fresh(k)
-----------------------------------------------------------------------------
\* Threads that read, and threads that know what they knew.
Learns(k)  == ReadScore(k) \/ ReadRank(k) \/ ReadCases(k) \/ CountCases(k) \/ ReadDispatch(k)
Unmoved(k) == /\ calls'[k].phase = calls[k].phase /\ calls'[k].f = calls[k].f
              /\ calls'[k].work = calls[k].work

\* What a step does to a row that was there, to a row it adds, and to the process.
OldRow(k) ==
    /\ k \in DOMAIN rows' /\ rows'[k].job = rows[k].job /\ rows'[k].run = rows[k].run
    /\ rows'[k].state = RUNNING => rows[k].state = RUNNING
    /\ calls'[k].phase # "done" => Live(k)
    /\ calls'[k].phase # "done" /\ rows[k].state = RUNNING /\ ~gaveup' => rows'[k].state = RUNNING
    /\ rows[k].job # PIPELINE /\ calls'[k].phase \in {"count", "write"} => Unmoved(k) \/ Learns(k)

NewRow(n) ==
    /\ rows'[n].state = RUNNING /\ calls'[n].phase \in {"check", "read"}
    /\ \A i \in DOMAIN rows : rows'[i].state = RUNNING => rows'[i].job # rows'[n].job
    /\ \A m \in DOMAIN rows' \ DOMAIN rows : m = n

ThreadStep ==
    /\ \A k \in DOMAIN rows : OldRow(k)
    /\ \A n \in DOMAIN rows' \ DOMAIN rows : NewRow(n)
    /\ gaveup => gaveup'
    /\ NoneRuns'

\* A live thread moves on, and settles its row only as it ends.
LEMMA OneThread ==
    ASSUME BatchInv, NoneRuns, NEW k \in DOMAIN rows, NEW c, Live(k),
           calls' = [calls EXCEPT ![k] = c], proc' = proc, gaveup' = gaveup,
           \/ rows' = rows
           \/ c.phase = "done" /\ \E to \in {SUCCEEDED, FAILED} : rows' = Transition(rows, {k}, to),
           rows[k].job # PIPELINE /\ c.phase \in {"count", "write"} => Learns(k)
    PROVE  ThreadStep
<1>1. /\ DOMAIN calls = DOMAIN rows /\ rows \in Seq(JobRun)
  BY LedgerShape DEF BatchInv, Order, LedgerOK
<1>2. calls'[k] = c /\ \A i \in DOMAIN rows : i # k => calls'[i] = calls[i]
  BY <1>1
<1>3. {SUCCEEDED, FAILED} \subseteq RunStates
  BY DEF RunStates, TerminalStates
<1>4. /\ DOMAIN rows' = DOMAIN rows
      /\ \A i \in DOMAIN rows : /\ rows'[i].job = rows[i].job /\ rows'[i].run = rows[i].run
                                /\ i # k \/ c.phase # "done" => rows'[i].state = rows[i].state
                                /\ rows'[i].state = RUNNING => rows[i].state = RUNNING
  <2>1. CASE rows' = rows
    BY <2>1
  <2>2. ASSUME NEW to \in {SUCCEEDED, FAILED}, c.phase = "done", rows' = Transition(rows, {k}, to)
        PROVE  /\ DOMAIN rows' = DOMAIN rows
               /\ \A i \in DOMAIN rows : /\ rows'[i].job = rows[i].job /\ rows'[i].run = rows[i].run
                                         /\ i # k \/ c.phase # "done" => rows'[i].state = rows[i].state
                                         /\ rows'[i].state = RUNNING => rows[i].state = RUNNING
    BY <1>1, <1>3, <2>2, TransitionFacts DEF SUCCEEDED, FAILED, RUNNING
  <2> QED
    BY <2>1, <2>2
<1>5. proc # "down"
  BY DEF NoneRuns
<1>6. \A i \in DOMAIN rows : OldRow(i)
  BY <1>2, <1>4 DEF OldRow, Unmoved, Live
<1> QED
  BY <1>4, <1>5, <1>6 DEF ThreadStep, NoneRuns

\* A row is added for a job that has none running.
LEMMA AddedRow ==
    ASSUME BatchInv, NEW r \in Request, NEW p \in Nat, NEW cs \in Seq(Call), RunNow(r, p, cs),
           Free(r.job), Len(cs) = Len(rows), proc' # "down", gaveup' = gaveup,
           \A k \in DOMAIN rows :
               /\ cs[k].f = calls[k].f /\ cs[k].work = calls[k].work
               /\ cs[k].phase = calls[k].phase \/ (calls[k].phase = "go" /\ cs[k].phase = "wait")
    PROVE  ThreadStep
<1>1. rows \in Seq(JobRun) /\ DOMAIN rows = 1..Len(rows) /\ Len(rows) \in Nat
  BY LedgerShape DEF BatchInv, Order, LedgerOK
<1> DEFINE n == Len(rows) + 1
<1>2. /\ DOMAIN rows' = DOMAIN rows \union {n} /\ n \notin DOMAIN rows
      /\ \A i \in DOMAIN rows : rows'[i] = rows[i]
      /\ rows'[n].job = r.job /\ rows'[n].state = RUNNING
  BY <1>1, InsertedFacts DEF RunNow
<1>3. NewCall(r, p) \in Call
  <2>1. 0 \in 0..Len(PIPELINE_STEPS) /\ {} \in Work /\ [b \in Borrowers |-> 0] \in [Borrowers -> Nat]
    BY StepsDistinct DEF Work
  <2> QED
    BY <2>1 DEF NewCall, Call
<1>4. /\ calls'[n] = NewCall(r, p) /\ \A i \in DOMAIN rows : calls'[i] = cs[i]
  BY <1>1, <1>3, AppendProperties DEF RunNow
<1>5. calls'[n].phase \in {"check", "read"}
  BY <1>4 DEF NewCall
<1>6. \A i \in DOMAIN rows : rows[i].state = RUNNING => rows[i].job # r.job
  BY DEF Free, RunningRun, RunningRuns
<1> HIDE DEF n
<1>7. \A i \in DOMAIN rows : OldRow(i)
  BY <1>2, <1>4 DEF OldRow, Unmoved, Live
<1>8. NewRow(n)
  BY <1>2, <1>5, <1>6 DEF NewRow
<1> QED
  BY <1>2, <1>7, <1>8 DEF ThreadStep, NoneRuns

\* The process ends.
LEMMA DieThreads ==
    ASSUME BatchInv, Die, rows' = rows, gaveup' = gaveup
    PROVE  ThreadStep
<1>1. DOMAIN calls = DOMAIN rows /\ \A k \in DOMAIN rows : calls[k] \in Call
  BY LedgerShape DEF BatchInv, Order
<1>2. \A k \in DOMAIN rows : calls'[k].phase = "done" /\ ~calls'[k].awaited
  <2> TAKE k \in DOMAIN rows
  <2>1. Over(calls[k]) \in Call /\ Over(calls[k]).phase = "done"
    BY <1>1, OverCall
  <2>2. calls'[k] = [Over(calls[k]) EXCEPT !.awaited = FALSE]
    BY <1>1 DEF Die
  <2> QED
    BY <2>1, <2>2 DEF Call
<1> QED
  BY <1>2 DEF ThreadStep, OldRow, NoneRuns, Live

\* No thread moves: rows are failed by a wait that ends early, or interrupted when
\* no thread is left.
LEMMA IdleThreads ==
    ASSUME BatchInv, NoneRuns, calls' = calls,
           \/ rows' = rows /\ gaveup' = gaveup /\ (proc' = "down" => proc = "down")
           \/ /\ gaveup' = TRUE /\ proc' = proc
              /\ \E k \in DOMAIN rows : rows' = Transition(rows, {k}, FAILED)
           \/ /\ proc = "down" /\ proc' = "starting" /\ gaveup' = gaveup
              /\ rows' = Transition(rows, RunningRuns(rows), INTERRUPTED)
    PROVE  ThreadStep
<1>1. rows \in Seq(JobRun) /\ {FAILED, INTERRUPTED} \subseteq RunStates /\ gaveup \in BOOLEAN
  BY DEF BatchInv, RestOK, Order, LedgerOK, RunStates, TerminalStates
<1>2. CASE rows' = rows /\ gaveup' = gaveup /\ (proc' = "down" => proc = "down")
  BY <1>2 DEF ThreadStep, OldRow, NoneRuns, Live, Unmoved
<1>3. ASSUME NEW S, NEW to \in {FAILED, INTERRUPTED}, rows' = Transition(rows, S, to)
      PROVE  /\ DOMAIN rows' = DOMAIN rows
             /\ \A i \in DOMAIN rows : /\ rows'[i].job = rows[i].job /\ rows'[i].run = rows[i].run
                                       /\ rows'[i].state = RUNNING => rows[i].state = RUNNING
  BY <1>1, <1>3, TransitionFacts DEF FAILED, INTERRUPTED, RUNNING
<1>4. ASSUME NEW k \in DOMAIN rows, gaveup' = TRUE, proc' = proc,
             rows' = Transition(rows, {k}, FAILED)
      PROVE  ThreadStep
  BY <1>3, <1>4 DEF ThreadStep, OldRow, NoneRuns, Live, Unmoved
<1>5. ASSUME proc = "down", proc' = "starting", gaveup' = gaveup,
             rows' = Transition(rows, RunningRuns(rows), INTERRUPTED)
      PROVE  ThreadStep
  BY <1>3, <1>5 DEF ThreadStep, OldRow, NoneRuns, Live, Unmoved
<1> QED
  BY <1>2, <1>4, <1>5

\* A pipeline that is told moves from its wait; no other thread does.
LEMMA ToldThreads ==
    ASSUME BatchInv, NoneRuns, NEW k \in DOMAIN rows, calls[k].awaited,
           rows' = rows, proc' = proc, gaveup' = gaveup,
           \/ calls' = Passed(Answered(calls, k), calls[k].parent)
           \/ calls' = Halted(Answered(calls, k), calls[k].parent)
    PROVE  ThreadStep
<1> DEFINE p  == calls[k].parent
           ds == Answered(calls, k)
<1>1. /\ DOMAIN calls = DOMAIN rows /\ \A m \in DOMAIN rows : calls[m] \in Call
      /\ p \in Nat /\ Order(rows, calls)
  BY LedgerShape DEF BatchInv, Order
<1>2. ds[k] = [calls[k] EXCEPT !.awaited = FALSE] /\ \A m \in DOMAIN rows : m # k => ds[m] = calls[m]
  BY <1>1 DEF Answered
<1>3. ds[k].phase = calls[k].phase /\ ds[k].f = calls[k].f /\ ds[k].work = calls[k].work
  BY <1>1, <1>2 DEF Call
<1>4. p # 0 => p \in DOMAIN rows /\ rows[p].job = PIPELINE /\ Live(p)
  BY <1>1 DEF Order, Paired, Live
<1>5. \A m \in DOMAIN rows : m # p \/ p = 0 => calls'[m] = ds[m]
  BY <1>1 DEF Passed, Halted, Answered
<1> HIDE DEF ds, p
<1>6. \A m \in DOMAIN rows : m # p \/ p = 0 => Unmoved(m)
  BY <1>2, <1>3, <1>5 DEF Unmoved
<1>7. \A m \in DOMAIN rows : OldRow(m)
  BY <1>4, <1>6 DEF OldRow, Unmoved, Live
<1>8. proc # "down"
  BY DEF NoneRuns
<1> QED
  BY <1>7, <1>8 DEF ThreadStep, NoneRuns

\* run_now looks at the outcome of a call.
LEMMA AnswerThreads ==
    ASSUME BatchInv, NoneRuns, NEW k \in DOMAIN rows, Answer(k)
    PROVE  ThreadStep
<1> DEFINE p  == calls[k].parent
           ds == Answered(calls, k)
<1>1. calls[k].awaited /\ gaveup' = gaveup /\ proc # "down"
  BY DEF Answer, bounds, NoneRuns
<1>2. /\ DOMAIN calls = DOMAIN rows /\ \A m \in DOMAIN rows : calls[m] \in Call
      /\ p \in Nat /\ Order(rows, calls)
  BY LedgerShape DEF BatchInv, Order
<1>3. ASSUME RunNow(RetryOf(k), p, ds), Free(rows[k].job), UNCHANGED proc
      PROVE  ThreadStep
  <2>1. ds \in Seq(Call) /\ Len(ds) = Len(rows)
    BY <1>2, AnsweredOrder DEF Order, LedgerOK
  <2>2. \A m \in DOMAIN rows : /\ ds[m].f = calls[m].f /\ ds[m].work = calls[m].work
                               /\ ds[m].phase = calls[m].phase
    <3>1. ds[k] = [calls[k] EXCEPT !.awaited = FALSE] /\ \A m \in DOMAIN rows : m # k => ds[m] = calls[m]
      BY <1>2 DEF Answered
    <3>2. calls[k] \in Call
      BY <1>2
    <3> QED
      BY <3>1, <3>2 DEF Call
  <2>3. RetryOf(k) \in Request /\ RetryOf(k).job = rows[k].job
    BY LedgerShape DEF RetryOf, Request, JobRun, BatchInv, Order
  <2> HIDE DEF p, ds
  <2> QED
    BY <1>1, <1>2, <1>3, <2>1, <2>2, <2>3, AddedRow
<1>4. \/ calls' = Passed(ds, p) /\ UNCHANGED <<rows, proc>>
      \/ RunNow(RetryOf(k), p, ds) /\ Free(rows[k].job) /\ UNCHANGED proc
      \/ Die /\ UNCHANGED rows
      \/ calls' = Halted(ds, p) /\ UNCHANGED <<rows, proc>>
  BY DEF Answer, Answered
<1>5. ASSUME calls' = Passed(ds, p) \/ calls' = Halted(ds, p), UNCHANGED <<rows, proc>>
      PROVE  ThreadStep
  BY <1>1, <1>5, ToldThreads
<1>6. ASSUME Die, UNCHANGED rows PROVE ThreadStep
  BY <1>1, <1>6, DieThreads
<1> HIDE DEF p, ds
<1> QED
  BY <1>3, <1>4, <1>5, <1>6

\* A pipeline starts its next step, or halts.
LEMMA StartStepThreads ==
    ASSUME BatchInv, NoneRuns, NEW k \in DOMAIN rows, StartStep(k)
    PROVE  ThreadStep
<1> DEFINE step == PIPELINE_STEPS[calls[k].step + 1]
           r    == [job |-> step, run |-> rows[k].run, attempt |-> 1]
           cs   == [calls EXCEPT ![k].phase = "wait"]
<1>1. /\ DOMAIN calls = DOMAIN rows /\ calls[k] \in Call /\ k \in Nat \ {0}
      /\ calls \in Seq(Call) /\ Len(calls) = Len(rows) /\ rows[k] \in JobRun
      /\ calls[k].phase = "go" /\ rows[k].job = PIPELINE /\ Live(k)
      /\ UNCHANGED <<proc, gaveup>> /\ Order(rows, calls)
  BY LedgerShape DEF BatchInv, Order, LedgerOK, StartStep, IsPipeline, bounds, Live
<1>2. proc # "down"
  BY <1>1 DEF NoneRuns
<1>3. ASSUME Free(step), RunNow(r, k, cs)
      PROVE  ThreadStep
  <2>1. [calls[k] EXCEPT !.phase = "wait"] \in Call
    BY <1>1 DEF Call
  <2>2. cs \in Seq(Call) /\ Len(cs) = Len(rows)
    BY <1>1, <2>1, ExceptSeq
  <2>3. cs[k] = [calls[k] EXCEPT !.phase = "wait"] /\ \A m \in DOMAIN rows : m # k => cs[m] = calls[m]
    BY <1>1
  <2>4. \A m \in DOMAIN rows :
          /\ cs[m].f = calls[m].f /\ cs[m].work = calls[m].work
          /\ cs[m].phase = calls[m].phase \/ (calls[m].phase = "go" /\ cs[m].phase = "wait")
    BY <1>1, <2>3 DEF Call
  <2>5. calls[k].step + 1 \in Steps
    <3>1. calls[k].step < Len(PIPELINE_STEPS)
      BY <1>1 DEF Order, Counted
    <3>2. calls[k].step \in 0..6
      BY <1>1, LedgerShape DEF Order
    <3> QED
      BY <3>1, <3>2, StepsDistinct
  <2>6. r \in Request /\ r.job = step
    BY <1>1, <2>5, StepsDistinct DEF Request, JobRun
  <2> HIDE DEF cs, r, step
  <2> QED
    BY <1>1, <1>2, <1>3, <2>2, <2>4, <2>6, AddedRow
<1>4. ASSUME calls' = Halted(calls, k), UNCHANGED rows
      PROVE  ThreadStep
  <2>1. calls' = [calls EXCEPT ![k] = [calls[k] EXCEPT !.phase = "raise"]]
    BY <1>1, <1>4 DEF Halted
  <2> QED
    BY <1>1, <1>4, <2>1, OneThread
<1> QED
  BY <1>3, <1>4 DEF StartStep
-----------------------------------------------------------------------------
\* Every step moves one thread at most, as far as its row and its kind allow.
LEMMA NextThreads ==
    ASSUME BatchInv, NoneRuns, Next
    PROVE  ThreadStep
<1>1. ASSUME NEW job \in Triggered, Trigger(job) PROVE ThreadStep
  <2>1. /\ [job |-> job, run |-> 0, attempt |-> 1] \in Request
        /\ calls \in Seq(Call) /\ Len(calls) = Len(rows)
    BY PipelineAssumption DEF Request, BatchInv, Order, LedgerOK
  <2>2. /\ RunNow([job |-> job, run |-> 0, attempt |-> 1], 0, calls) /\ Free(job)
        /\ proc' = "up" /\ gaveup' = gaveup
    BY <1>1 DEF Trigger
  <2> QED
    BY <2>1, <2>2, AddedRow
<1>2. ASSUME NEW k \in DOMAIN rows, CheckOverlap(k) PROVE ThreadStep
  <2>1. PICK ph \in {"raise", "go"} : calls' = [calls EXCEPT ![k].phase = ph]
    BY <1>2 DEF CheckOverlap
  <2>2. /\ calls' = [calls EXCEPT ![k] = [calls[k] EXCEPT !.phase = ph]]
        /\ rows' = rows /\ proc' = proc /\ gaveup' = gaveup /\ Live(k)
        /\ rows[k].job = PIPELINE
    BY <1>2, <2>1 DEF CheckOverlap, bounds, Live, IsPipeline
  <2> QED
    BY <2>2, OneThread
<1>3. ASSUME NEW k \in DOMAIN rows, PipelineEnds(k) \/ Prepare(k) \/ NothingToScore(k)
                 \/ ScoreRefused(k) \/ HandlerFails(k) \/ StepEnds(k)
      PROVE  ThreadStep
  <2>1. /\ calls' = [calls EXCEPT ![k] = Over(@)] /\ UNCHANGED <<proc, gaveup>> /\ Live(k)
        /\ \E to \in {SUCCEEDED, FAILED} : rows' = Transition(rows, {k}, to)
    BY <1>3 DEF PipelineEnds, Prepare, NothingToScore, ScoreRefused, HandlerFails, StepEnds,
       Settle, At, bounds, Live
  <2>2. Over(calls[k]).phase = "done"
    BY LedgerShape, OverCall DEF BatchInv, Order
  <2>3. calls' = [calls EXCEPT ![k] = Over(calls[k])]
    BY <2>1
  <2> QED
    BY <2>1, <2>2, <2>3, OneThread
<1>4. ASSUME NEW k \in DOMAIN rows, Learns(k) PROVE ThreadStep
  <2>1. UNCHANGED <<rows, proc, gaveup>> /\ Live(k)
    BY <1>4 DEF Learns, ReadScore, ReadRank, ReadCases, CountCases, ReadDispatch, Read, Report,
       At, Live, bounds
  <2>2. \E c : calls' = [calls EXCEPT ![k] = c]
    BY <1>4 DEF Learns, ReadScore, ReadRank, ReadCases, CountCases, ReadDispatch, Read
  <2> QED
    BY <1>4, <2>1, <2>2, OneThread
<1>5. ASSUME NEW k \in DOMAIN rows, Score(k) \/ Rank(k) \/ UpdateCases(k) \/ Dispatch(k)
      PROVE  ThreadStep
  <2>1. Commit(k) /\ Live(k)
    BY <1>5 DEF Score, Rank, UpdateCases, Dispatch, At, Live
  <2>2. Over(calls[k]) \in Call
    BY LedgerShape, OverCall DEF BatchInv, Order
  <2>3. [Over(calls[k]) EXCEPT !.phase = "saved"].phase = "saved"
    BY <2>2 DEF Call
  <2>4. /\ calls' = [calls EXCEPT ![k] = [Over(calls[k]) EXCEPT !.phase = "saved"]]
        /\ UNCHANGED <<rows, proc, gaveup>>
    BY <1>5, <2>1 DEF Score, Rank, UpdateCases, Dispatch, Commit, Saved, Report, bounds
  <2> QED
    BY <2>1, <2>3, <2>4, OneThread
<1>6. ASSUME NEW k \in DOMAIN rows, TimeOut(k) PROVE ThreadStep
  BY <1>6, IdleThreads DEF TimeOut
<1>7. ASSUME NEW k \in DOMAIN rows, ResumeNext(k) PROVE ThreadStep
  <2>1. CASE Die /\ UNCHANGED rows
    BY <1>7, <2>1, DieThreads DEF ResumeNext, bounds
  <2>2. CASE RunNow(RetryOf(k), 0, calls) /\ Free(rows[k].job) /\ UNCHANGED proc
    <3>1. RetryOf(k) \in Request /\ RetryOf(k).job = rows[k].job
      BY LedgerShape DEF RetryOf, Request, JobRun, BatchInv, Order
    <3>2. calls \in Seq(Call) /\ Len(calls) = Len(rows)
      BY DEF BatchInv, Order, LedgerOK
    <3>3. proc' # "down" /\ gaveup' = gaveup
      BY <1>7, <2>2 DEF ResumeNext, bounds
    <3> QED
      BY <2>2, <3>1, <3>2, <3>3, AddedRow
  <2> QED
    BY <1>7, <2>1, <2>2 DEF ResumeNext
<1>8. ASSUME CloseCase \/ Restart \/ Ready PROVE ThreadStep
  BY <1>8, IdleThreads DEF CloseCase, Restart, Ready, bounds
<1>9. ASSUME Crash PROVE ThreadStep
  BY <1>9, DieThreads DEF Crash
<1> QED
  BY <1>1, <1>2, <1>3, <1>4, <1>5, <1>6, <1>7, <1>8, <1>9, StartStepThreads, AnswerThreads
  DEF Next, StepHandler, Learns
-----------------------------------------------------------------------------
\* A job keeps to one running row, and a live thread to its row.
LEMMA ThreadsKeep ==
    ASSUME BatchInv, ThreadStep, Exclusive
    PROVE  Exclusive' /\ (Alone /\ ~gaveup' => Alone')
<1>1. ASSUME NEW i \in DOMAIN rows', NEW j \in DOMAIN rows',
             rows'[i].state = RUNNING, rows'[j].state = RUNNING, rows'[i].job = rows'[j].job
      PROVE  i = j
  <2>1. CASE i \in DOMAIN rows /\ j \in DOMAIN rows
    BY <1>1, <2>1 DEF ThreadStep, OldRow, Exclusive
  <2>2. CASE i \notin DOMAIN rows
    BY <1>1, <2>2 DEF ThreadStep, NewRow
  <2>3. CASE j \notin DOMAIN rows
    BY <1>1, <2>3 DEF ThreadStep, NewRow
  <2> QED
    BY <2>1, <2>2, <2>3
<1>2. ASSUME Alone, ~gaveup', NEW k \in DOMAIN rows', calls'[k].phase # "done"
      PROVE  rows'[k].state = RUNNING
  <2>1. CASE k \in DOMAIN rows
    BY <1>2, <2>1 DEF ThreadStep, OldRow, Alone
  <2>2. CASE k \notin DOMAIN rows
    BY <1>2, <2>2 DEF ThreadStep, NewRow
  <2> QED
    BY <2>1, <2>2
<1> QED
  BY <1>1, <1>2 DEF Exclusive, Alone, Live

\* Who changes the tables: a user, or the commit of a step's thread.
Commits(k) == Score(k) \/ Rank(k) \/ UpdateCases(k) \/ Dispatch(k)

\* Nobody else does.
LEMMA WhoWrites ==
    ASSUME Next
    PROVE  \/ UNCHANGED store
           \/ CloseCase
           \/ \E k \in DOMAIN rows : Commits(k)
<1>1. CASE \E job \in Triggered : Trigger(job)
  BY <1>1 DEF Trigger
<1>2. ASSUME NEW k \in DOMAIN rows,
             CheckOverlap(k) \/ StartStep(k) \/ PipelineEnds(k) \/ HandlerFails(k) \/ TimeOut(k)
                 \/ Answer(k) \/ ResumeNext(k)
      PROVE  UNCHANGED store
  BY <1>2 DEF CheckOverlap, StartStep, PipelineEnds, HandlerFails, TimeOut, Answer, ResumeNext, Settle
<1>3. ASSUME NEW k \in DOMAIN rows, StepHandler(k)
      PROVE  UNCHANGED store \/ Commits(k)
  BY <1>3 DEF StepHandler, Prepare, NothingToScore, ReadScore, ScoreRefused, ReadRank, ReadCases,
     CountCases, ReadDispatch, StepEnds, Settle, Read, Commits
<1>4. CASE Crash \/ Restart \/ Ready
  BY <1>4 DEF Crash, Restart, Ready
<1> QED
  BY <1>1, <1>2, <1>3, <1>4 DEF Next

\* Of the threads of one job one commits, and it is then past its commit.
LEMMA CommitsAlone ==
    ASSUME BatchInv, Exclusive, Alone, NEW w \in DOMAIN rows, Commits(w),
           NEW k \in DOMAIN rows, calls'[k].phase \in {"count", "write"}, Live(k)
    PROVE  rows[k].job # rows[w].job
<1>1. Live(w) /\ Commit(w)
  BY DEF Commits, Score, Rank, UpdateCases, Dispatch, At, Live
<1>2. rows[k].job = rows[w].job => k = w
  BY <1>1 DEF Alone, Exclusive
<1>3. calls'[w].phase = "saved"
  <2>1. DOMAIN calls = DOMAIN rows /\ Over(calls[w]) \in Call
    BY LedgerShape, OverCall DEF BatchInv, Order
  <2> QED
    BY <1>1, <2>1 DEF Commit, Saved, Call
<1> QED
  BY <1>2, <1>3

\* What a thread reads is so.
LEMMA LearnsFresh ==
    ASSUME BatchInv, NEW k \in DOMAIN rows, Fresh(k), Learns(k)
    PROVE  Fresh(k)'
<1>1. /\ DOMAIN calls = DOMAIN rows /\ calls[k] \in Call /\ UNCHANGED <<rows, store>>
      /\ forecasts \subseteq Nat \ {0}
  BY LedgerShape DEF BatchInv, Order, StoreOK, Learns, ReadScore, ReadRank, ReadCases, CountCases,
     ReadDispatch, Read
<1>2. ASSUME NEW f, NEW work, Read(k, f, work)
      PROVE  calls'[k].phase = "write" /\ calls'[k].f = f /\ calls'[k].work = work
  BY <1>1, <1>2 DEF Read, Call
<1>3. CASE ReadScore(k)
  <2>1. PICK f \in Existing(rows[k].run) : Read(k, f, {})
    BY <1>3 DEF ReadScore
  <2>2. f = 0 => ForecastsOf(rows[k].run) = {}
    BY <1>1 DEF Existing, ForecastsOf
  <2>3. rows[k].job = "score"
    BY <1>3 DEF ReadScore, At
  <2> QED
    BY <1>1, <1>2, <2>1, <2>2, <2>3 DEF Fresh, At, ForecastsOf, store
<1>4. CASE ReadRank(k)
  <2>1. PICK f \in Existing(rows[k].run) : Read(k, IF \E e \in queue : e.f = f THEN 0 ELSE f, {})
    BY <1>4 DEF ReadRank
  <2>2. calls'[k].f # 0 => \A e \in queue : e.f # calls'[k].f
    BY <1>2, <2>1
  <2>3. rows[k].job = "rank"
    BY <1>4 DEF ReadRank, At
  <2> QED
    BY <1>1, <2>2, <2>3 DEF Fresh, At, store
<1>5. CASE ReadCases(k)
  <2>1. \A b \in calls'[k].work : OpenCases(b) = {}
    BY <1>1, <1>5 DEF ReadCases, Call
  <2>2. rows[k].job = "update_cases"
    BY <1>5 DEF ReadCases, At
  <2> QED
    BY <1>1, <2>1, <2>2 DEF Fresh, At, OpenCases, store
<1>6. CASE CountCases(k)
  <2>1. calls'[k].work = calls[k].work /\ At(k, "update_cases", "count")
    BY <1>1, <1>6 DEF CountCases, Call
  <2> QED
    BY <1>1, <2>1 DEF Fresh, At, OpenCases, store
<1>7. CASE ReadDispatch(k)
  <2> PICK f \in Existing(rows[k].run) :
         \E unassigned \in SUBSET Refs(Unnotified(f)) :
             Read(k, f, Refs(Unnotified(f)) \ unassigned)
    BY <1>7 DEF ReadDispatch
  <2>1. PICK unassigned \in SUBSET Refs(Unnotified(f)) :
          Read(k, f, Refs(Unnotified(f)) \ unassigned)
    OBVIOUS
  <2>2. \A c \in calls'[k].work : \A n \in notes : n.case # c
    BY <1>2, <2>1 DEF Unnotified, Refs
  <2>3. rows[k].job = "dispatch"
    BY <1>7 DEF ReadDispatch, At
  <2> QED
    BY <1>1, <2>2, <2>3 DEF Fresh, At, store
<1> QED
  BY <1>3, <1>4, <1>5, <1>6, <1>7 DEF Learns

\* A commit changes one table, in one way.
LEMMA CommitEffect ==
    ASSUME NEW w \in DOMAIN rows, Commits(w)
    PROVE  /\ rows' = rows
           /\ \/ At(w, "score", "write") /\ UNCHANGED <<queue, cases, notes>>
              \/ At(w, "rank", "write") /\ UNCHANGED <<forecasts, cases, notes>>
              \/ At(w, "update_cases", "write") /\ UNCHANGED <<forecasts, queue, notes>>
              \/ At(w, "dispatch", "write") /\ UNCHANGED <<forecasts, queue, cases>>
  BY DEF Commits, Score, Rank, UpdateCases, Dispatch, Commit

\* What a thread has read stays so: nobody else writes to the table of its job.
LEMMA FreshKept ==
    ASSUME BatchInv, Next, ThreadStep, Exclusive, Alone, \A m \in DOMAIN rows : Fresh(m),
           NEW k \in DOMAIN rows'
    PROVE  Fresh(k)'
<1>1. CASE calls'[k].phase \notin {"count", "write"}
  BY <1>1 DEF Fresh, At
<1>2. CASE k \notin DOMAIN rows
  BY <1>2 DEF ThreadStep, NewRow, Fresh, At
<1>3. CASE k \in DOMAIN rows /\ rows[k].job = PIPELINE
  BY <1>3 DEF ThreadStep, OldRow, Fresh, At, PIPELINE
<1>4. ASSUME k \in DOMAIN rows, rows[k].job # PIPELINE, calls'[k].phase \in {"count", "write"},
             Unmoved(k)
      PROVE  Fresh(k)'
  <2>1. /\ Fresh(k) /\ rows'[k].job = rows[k].job /\ rows'[k].run = rows[k].run /\ Live(k)
        /\ \A i \in DOMAIN rows : rows'[i].run = rows[i].run
        /\ forecasts \subseteq DOMAIN rows
    BY <1>4 DEF ThreadStep, OldRow, BatchInv, StoreOK
  <2>2. UNCHANGED forecasts => ForecastsOf(rows[k].run)' = ForecastsOf(rows[k].run)
    BY <2>1 DEF ForecastsOf
  <2>3. CASE UNCHANGED store
    BY <1>4, <2>1, <2>2, <2>3 DEF Fresh, At, Unmoved, OpenCases, store
  <2>4. CASE CloseCase
    <3>1. PICK c \in cases : c.closed = 0 /\ cases' = (cases \ {c}) \union {[c EXCEPT !.closed = Len(rows)]}
      BY <2>4 DEF CloseCase
    <3>2. Len(rows) # 0 /\ [c EXCEPT !.closed = Len(rows)].closed = Len(rows)
      BY <3>1, LedgerShape DEF BatchInv, StoreOK, Order
    <3>3. \A b : OpenCases(b)' \subseteq OpenCases(b)
      BY <3>1, <3>2 DEF OpenCases
    <3>4. UNCHANGED <<forecasts, queue, notes>>
      BY <2>4 DEF CloseCase
    <3> QED
      BY <1>4, <2>1, <2>2, <3>3, <3>4 DEF Fresh, At, Unmoved
  <2>5. ASSUME NEW w \in DOMAIN rows, Commits(w)
        PROVE  Fresh(k)'
    <3>1. rows[k].job # rows[w].job
      BY <1>4, <2>1, <2>5, CommitsAlone
    <3>2. /\ \/ rows[w].job = "score" /\ UNCHANGED <<queue, cases, notes>>
             \/ rows[w].job = "rank" /\ UNCHANGED <<forecasts, cases, notes>>
             \/ rows[w].job = "update_cases" /\ UNCHANGED <<forecasts, queue, notes>>
             \/ rows[w].job = "dispatch" /\ UNCHANGED <<forecasts, queue, cases>>
      BY <2>5, CommitEffect DEF At
    <3>3. UNCHANGED cases => \A b : OpenCases(b)' = OpenCases(b)
      BY DEF OpenCases
    <3>4. rows[k].job = "score" => UNCHANGED forecasts
      BY <3>1, <3>2
    <3>5. rows[k].job = "rank" => UNCHANGED queue
      BY <3>1, <3>2
    <3>6. rows[k].job = "update_cases" => UNCHANGED cases
      BY <3>1, <3>2
    <3>7. rows[k].job = "dispatch" => UNCHANGED notes
      BY <3>1, <3>2
    <3> QED
      BY <1>4, <2>1, <2>2, <3>3, <3>4, <3>5, <3>6, <3>7 DEF Fresh, At, Unmoved
  <2> QED
    BY <2>3, <2>4, <2>5, WhoWrites
<1>5. ASSUME k \in DOMAIN rows, Learns(k)
      PROVE  Fresh(k)'
  BY <1>5, LearnsFresh
<1> QED
  BY <1>1, <1>2, <1>3, <1>4, <1>5 DEF ThreadStep, OldRow

\* A commit adds to a table what a fresh look has found missing.
LEMMA CommitOnce ==
    ASSUME BatchInv, Once, NEW k \in DOMAIN rows, Fresh(k), Commits(k)
    PROVE  Once'
<1>1. rows' = rows
  BY CommitEffect
<1>2. CASE Score(k)
  <2>1. UNCHANGED <<queue, cases, notes>> /\ At(k, "score", "write")
    BY <1>2 DEF Score
  <2>2. OneForecastRun'
    <3>1. CASE calls[k].f # 0
      BY <1>1, <1>2, <3>1 DEF Score, OneForecastRun, Once
    <3>2. CASE calls[k].f = 0
      <4>1. \A f \in forecasts : rows[f].run # rows[k].run
        BY <2>1, <3>2 DEF Fresh, ForecastsOf
      <4>2. forecasts' = forecasts \union {k}
        BY <1>2, <3>2 DEF Score
      <4> QED
        BY <1>1, <4>1, <4>2 DEF OneForecastRun, Once
    <3> QED
      BY <3>1, <3>2
  <2> QED
    BY <2>1, <2>2 DEF Once, OneOpen
<1>3. CASE Rank(k)
  <2>1. UNCHANGED <<forecasts, cases, notes>> /\ At(k, "rank", "write")
    BY <1>3 DEF Rank
  <2>2. \A d, e \in queue' : d.f = e.f => d = e
    <3>1. CASE UNCHANGED queue
      BY <3>1 DEF Once
    <3>2. ASSUME calls[k].f # 0, NEW act, queue' = queue \union {[f |-> calls[k].f, by |-> k, act |-> act]}
          PROVE  \A d, e \in queue' : d.f = e.f => d = e
      <4>1. \A e \in queue : e.f # calls[k].f
        BY <2>1, <3>2 DEF Fresh
      <4> QED
        BY <3>2, <4>1 DEF Once
    <3> QED
      BY <1>3, <3>1, <3>2 DEF Rank
  <2> QED
    BY <1>1, <2>1, <2>2 DEF Once, OneOpen, OneForecastRun
<1>4. CASE UpdateCases(k)
  <2> PICK fresh \in SUBSET Unused(k) :
         /\ UNCHANGED <<forecasts, queue, notes>> /\ At(k, "update_cases", "write")
         /\ Open(k, fresh)
    BY <1>4 DEF UpdateCases
  <2> DEFINE opened(b) == [borrower |-> b, seq |-> calls[k].seq[b], f |-> calls[k].f, closed |-> 0]
  <2>1. /\ UNCHANGED <<forecasts, queue, notes>> /\ At(k, "update_cases", "write")
        /\ cases' = cases \union {opened(b) : b \in fresh} /\ fresh \subseteq calls[k].work
    BY DEF Open, Unused
  <2>2. \A b \in fresh : \A c \in cases : c.borrower = b => c.closed # 0
    BY <2>1 DEF Fresh, OpenCases
  <2>3. \A b : opened(b).borrower = b
    OBVIOUS
  <2> HIDE DEF opened
  <2>4. OneOpen'
    BY <2>1, <2>2, <2>3 DEF OneOpen, Once
  <2> QED
    BY <1>1, <2>1, <2>4 DEF Once, OneForecastRun
<1>5. CASE Dispatch(k)
  <2> PICK sent \in SUBSET calls[k].work :
         /\ UNCHANGED <<forecasts, queue, cases>> /\ At(k, "dispatch", "write")
         /\ notes' = notes \union {[case |-> c, by |-> k] : c \in sent}
    BY <1>5 DEF Dispatch
  <2>1. /\ UNCHANGED <<forecasts, queue, cases>> /\ At(k, "dispatch", "write")
        /\ notes' = notes \union {[case |-> c, by |-> k] : c \in sent}
    OBVIOUS
  <2>2. \A c \in sent : \A n \in notes : n.case # c
    BY <2>1 DEF Fresh
  <2>3. \A m, n \in notes' : m.case = n.case => m = n
    BY <2>1, <2>2 DEF Once
  <2> QED
    BY <1>1, <2>1, <2>3 DEF Once, OneOpen, OneForecastRun
<1> QED
  BY <1>2, <1>3, <1>4, <1>5 DEF Commits

\* A user's closing adds to no table, and opens no case.
LEMMA CloseOnce ==
    ASSUME BatchInv, Once, CloseCase
    PROVE  Once'
<1>1. PICK c \in cases : c.closed = 0 /\ cases' = (cases \ {c}) \union {[c EXCEPT !.closed = Len(rows)]}
  BY DEF CloseCase
<1>2. Len(rows) # 0 /\ [c EXCEPT !.closed = Len(rows)].closed = Len(rows)
  BY <1>1, LedgerShape DEF BatchInv, StoreOK, Order
<1>3. UNCHANGED <<rows, forecasts, queue, notes>>
  BY DEF CloseCase
<1> QED
  BY <1>1, <1>2, <1>3 DEF Once, OneOpen, OneForecastRun
-----------------------------------------------------------------------------
\* The tables keep their rows apart as long as every wait has been patient.
LEMMA NextOnce ==
    ASSUME BatchInv, Next, ThreadStep, Once, \A k \in DOMAIN rows : Fresh(k)
    PROVE  Once'
<1>1. CASE UNCHANGED store
  <2>1. /\ forecasts \subseteq DOMAIN rows /\ \A i \in DOMAIN rows : rows'[i].run = rows[i].run
        /\ UNCHANGED <<forecasts, queue, cases, notes>>
    BY <1>1 DEF BatchInv, StoreOK, ThreadStep, OldRow, store
  <2> QED
    BY <2>1 DEF Once, OneForecastRun, OneOpen
<1> QED
  BY <1>1, WhoWrites, CommitOnce, CloseOnce

\* The invariant of the batch and of its threads' patience holds in every behaviour.
LEMMA PatienceInductive == Spec => []PatienceInv
<1>1. Init => PatienceInv
  <2> SUFFICES ASSUME Init PROVE PatienceInv
    OBVIOUS
  <2>1. rows = <<>> /\ DOMAIN rows = {} /\ proc = "up"
    BY DEF Init
  <2>2. forecasts = {} /\ queue = {} /\ cases = {} /\ notes = {}
    BY DEF Init
  <2> QED
    BY <2>1, <2>2, InitInv DEF PatienceInv, NoneRuns, Exclusive, Alone, Once, OneForecastRun, OneOpen
<1>2. PatienceInv /\ [Next]_vars => PatienceInv'
  <2> SUFFICES ASSUME PatienceInv, [Next]_vars PROVE PatienceInv'
    OBVIOUS
  <2>1. CASE Next
    <3>1. BatchInv /\ BatchInv' /\ ThreadStep /\ NoneRuns'
      BY <2>1, NextInv, NextThreads DEF PatienceInv, ThreadStep
    <3>2. gaveup \in BOOLEAN /\ gaveup' \in BOOLEAN /\ (gaveup => gaveup')
      BY <3>1 DEF BatchInv, RestOK, ThreadStep
    <3>3. Exclusive' /\ (Alone /\ ~gaveup' => Alone')
      BY <3>1, ThreadsKeep DEF PatienceInv
    <3>4. ASSUME ~gaveup' PROVE Alone' /\ Once' /\ \A k \in DOMAIN rows' : Fresh(k)'
      <4>1. Alone /\ Once /\ \A k \in DOMAIN rows : Fresh(k)
        BY <3>2, <3>4 DEF PatienceInv, Patient
      <4> QED
        BY <2>1, <3>1, <3>3, <3>4, <4>1, NextOnce, FreshKept DEF PatienceInv
    <3> QED
      BY <3>1, <3>3, <3>4 DEF PatienceInv, Patient
  <2>2. CASE UNCHANGED vars
    BY <2>2 DEF vars, store, bounds, PatienceInv, BatchInv, StoreOK, RestOK, NoneRuns, Exclusive,
       Alone, Live, Once, OneForecastRun, OneOpen, Fresh, At, ForecastsOf, OpenCases, Patient
  <2> QED
    BY <2>1, <2>2
<1> QED
  BY <1>1, <1>2, PTL DEF Spec

\* nightly.py:31: with every wait patient, a run id has one ForecastRun, however often
\* its score is retried or resumed.
THEOREM OneForecastPerRun == Spec => []PatientForecastRun
<1>1. PatienceInv => PatientForecastRun
  BY DEF PatienceInv, Once, PatientForecastRun
<1> QED
  BY <1>1, PatienceInductive, PTL

\* nightly.py:890: the day's queue of a forecast is inserted once.
THEOREM OneQueuePerForecast == Spec => []OneQueue
<1>1. PatienceInv => OneQueue
  BY DEF PatienceInv, Once, OneQueue
<1> QED
  BY <1>1, PatienceInductive, PTL

\* nightly.py:1139: the opening of a case is notified once, however often dispatch is
\* repeated.
THEOREM NoticeOnce == Spec => []NotifiedOnce
<1>1. PatienceInv => NotifiedOnce
  BY DEF PatienceInv, Once, NotifiedOnce
<1> QED
  BY <1>1, PatienceInductive, PTL

\* services/cases.py:230: a borrower has at most one open case, also when batches open
\* cases after users have closed earlier ones.
THEOREM OneOpenCasePerBorrower == Spec => []OneOpenCase
<1>1. ASSUME PatienceInv, Patient, NEW b \in Borrowers
      PROVE  Cardinality(OpenCases(b)) <= 1
  <2>1. \A c, d \in OpenCases(b) : c = d
    BY <1>1 DEF PatienceInv, Once, OneOpen, OpenCases
  <2>2. CASE OpenCases(b) = {}
    BY <2>2, FS_EmptySet
  <2>3. CASE OpenCases(b) # {}
    <3>1. PICK c : c \in OpenCases(b)
      BY <2>3
    <3>2. OpenCases(b) = {c}
      BY <2>1, <3>1
    <3> QED
      BY <3>2, FS_Singleton
  <2> QED
    BY <2>2, <2>3
<1>2. PatienceInv => OneOpenCase
  BY <1>1 DEF OneOpenCase
<1> QED
  BY <1>2, PatienceInductive, PTL
=============================================================================
