-------------------------- MODULE DeliveryProofs ----------------------------
(***************************************************************************)
(* Why a batch that is recorded a success accounts for all that it lacks,  *)
(* for any borrowers and mixes of disturbances.  First who waits for a     *)
(* run: every live thread has a caller, and two rows of a run are waited   *)
(* for only as a pipeline and its step.  Then what the tables hold of a    *)
(* run: what its threads have read, and what its steps have left there or  *)
(* named in their metrics.  Every step of the system is a turn of a few    *)
(* rows and calls, and keeps the tables of a run unless a step of that run *)
(* commits.                                                                *)
(***************************************************************************)
EXTENDS PatienceProofs

\* WHO WAITS FOR A RUN.
SameRun(i, j)   == rows[i].run = rows[j].run
HasSucceeded(k) == rows[k].state = SUCCEEDED

\* A live thread has somebody waiting for it, and so has a running row.
Attended ==
    \A k \in DOMAIN rows : /\ Live(k) => calls[k].awaited
                           /\ rows[k].state = RUNNING /\ proc # "down" => calls[k].awaited

\* Two rows of a run are waited for only as a batch and its step.
InTree ==
    \A i, j \in DOMAIN rows :
        i # j /\ SameRun(i, j) /\ calls[i].awaited /\ calls[j].awaited =>
            calls[i].parent = j \/ calls[j].parent = i

LeftInv == Attended /\ InTree
-----------------------------------------------------------------------------
\* HOW A STEP MOVES THE CALLS.  No old row changes its job, its run, its caller, or its
\* outcome once it has one; nobody waits who did not.
OldStays(m) ==
    /\ m \in DOMAIN rows' /\ rows'[m].job = rows[m].job /\ rows'[m].run = rows[m].run
    /\ calls'[m].parent = calls[m].parent
    /\ rows[m].state # RUNNING => rows'[m].state = rows[m].state
    /\ calls'[m].awaited => calls[m].awaited
    /\ calls'[m].phase # "done" => Live(m)

\* Thread k moves on, and may end with its row.
Moves(k) ==
    /\ Live(k) /\ proc' = proc /\ todo' = todo /\ DOMAIN rows' = DOMAIN rows
    /\ \A m \in DOMAIN rows : /\ OldStays(m) /\ calls'[m].awaited = calls[m].awaited
                              /\ calls'[m].step = calls[m].step
                              /\ m # k => rows'[m] = rows[m] /\ calls'[m] = calls[m]
    /\ IsPipeline(k) /\ rows'[k].state = SUCCEEDED => calls[k].phase = "return"

\* The wait for row k ends, and a pipeline that waited for it counts a success.
Tells(k) ==
    /\ calls[k].awaited /\ rows[k].state # RUNNING /\ ~calls'[k].awaited
    /\ rows' = rows /\ proc' = proc /\ todo' = todo
    /\ \A m \in DOMAIN rows :
         /\ OldStays(m)
         /\ m # k => calls'[m].awaited = calls[m].awaited
         /\ calls'[m].phase = calls[m].phase \/ IsPipeline(m)
         /\ calls'[m].f = calls[m].f /\ calls'[m].work = calls[m].work /\ calls'[m].seq = calls[m].seq
         /\ \/ calls'[m].step = calls[m].step
            \/ HasSucceeded(k) /\ calls[k].parent = m /\ calls'[m].step = calls[m].step + 1

\* A row is added at n, for caller p; the wait for old, if there is one, ends.
AddsRow(n, job, run, p, old) ==
    /\ n \in Nat /\ n \notin DOMAIN rows /\ DOMAIN rows' = DOMAIN rows \union {n}
    /\ \A m \in DOMAIN rows :
         /\ m < n /\ rows'[m] = rows[m] /\ OldStays(m)
         /\ calls'[m].awaited = (calls[m].awaited /\ m # old)
         /\ calls'[m].step = calls[m].step
         /\ calls'[m].phase = calls[m].phase \/ IsPipeline(m)
         /\ calls'[m].f = calls[m].f /\ calls'[m].work = calls[m].work /\ calls'[m].seq = calls[m].seq
    /\ rows'[n].job = job /\ rows'[n].run = run /\ rows'[n].state = RUNNING
    /\ calls'[n].awaited /\ calls'[n].parent = p /\ calls'[n].step = 0
    /\ calls'[n].phase = IF job = PIPELINE THEN "check" ELSE "read"
    /\ proc' = proc

\* A run of its own, the next attempt at a failed row, a pipeline's next step, a row that a
\* restart resumes.
Triggers(n)   == \E job : AddsRow(n, job, n, 0, 0) /\ proc = "up" /\ todo' = todo
Repeats(n, k) == /\ calls[k].awaited /\ rows[k].state = FAILED /\ todo' = todo
                 /\ AddsRow(n, rows[k].job, rows[k].run, calls[k].parent, k)
Starts(n, p)  == /\ IsPipeline(p) /\ calls[p].phase = "go" /\ todo' = todo
                 /\ \E job : job # PIPELINE /\ AddsRow(n, job, rows[p].run, p, 0)
Resumes(n, i) == /\ proc = "starting" /\ MainIdle /\ i \in todo /\ todo' = todo \ {i}
                 /\ AddsRow(n, rows[i].job, rows[i].run, 0, 0)

\* The process ends, and starts again; nothing happens to rows or calls.
Dies ==
    /\ rows' = rows /\ proc # "down" /\ proc' = "down" /\ todo' = {}
    /\ \A m \in DOMAIN rows : OldStays(m) /\ ~calls'[m].awaited /\ calls'[m].phase = "done"
Restarts ==
    /\ proc = "down" /\ proc' = "starting" /\ todo' = RunningRuns(rows)
    /\ calls' = calls /\ DOMAIN rows' = DOMAIN rows
    /\ \A m \in DOMAIN rows :
         /\ OldStays(m)
         /\ rows'[m].state = IF rows[m].state = RUNNING THEN INTERRUPTED ELSE rows[m].state
Rests ==
    /\ rows' = rows /\ calls' = calls /\ todo' = todo
    /\ \A m \in DOMAIN rows : OldStays(m)
    /\ proc' = proc \/ (proc = "starting" /\ proc' = "up" /\ MainIdle /\ todo = {})

Turn ==
    \/ \E k \in DOMAIN rows : Moves(k) \/ Tells(k)
    \/ \E n : Triggers(n) \/ \E k \in DOMAIN rows : Repeats(n, k) \/ Starts(n, k) \/ Resumes(n, k)
    \/ Dies \/ Restarts \/ Rests

\* A thread moves on, its row perhaps settled.
LEMMA MovesFrom ==
    ASSUME BatchInv, NEW k \in DOMAIN rows, NEW c, Live(k), Alone,
           calls' = [calls EXCEPT ![k] = c], proc' = proc, todo' = todo,
           c.awaited = calls[k].awaited, c.parent = calls[k].parent, c.step = calls[k].step,
           \/ rows' = rows
           \/ \E to \in {SUCCEEDED, FAILED} :
                /\ rows' = Transition(rows, {k}, to)
                /\ IsPipeline(k) /\ to = SUCCEEDED => calls[k].phase = "return"
    PROVE  Moves(k)
<1>1. /\ DOMAIN calls = DOMAIN rows /\ rows \in Seq(JobRun) /\ rows[k].state = RUNNING
      /\ \A m \in DOMAIN rows : rows[m] \in JobRun
  BY LedgerShape DEF BatchInv, Order, LedgerOK, Alone
<1>2. calls'[k] = c /\ \A i \in DOMAIN rows : i # k => calls'[i] = calls[i]
  BY <1>1
<1>3. /\ DOMAIN rows' = DOMAIN rows
      /\ \A i \in DOMAIN rows : /\ rows'[i].job = rows[i].job /\ rows'[i].run = rows[i].run
                                /\ i # k => rows'[i] = rows[i]
      /\ IsPipeline(k) /\ rows'[k].state = SUCCEEDED => calls[k].phase = "return"
  <2>1. CASE rows' = rows
    BY <1>1, <2>1 DEF SUCCEEDED, RUNNING
  <2>2. ASSUME NEW to \in {SUCCEEDED, FAILED}, rows' = Transition(rows, {k}, to),
               IsPipeline(k) /\ to = SUCCEEDED => calls[k].phase = "return"
        PROVE  /\ DOMAIN rows' = DOMAIN rows
               /\ \A i \in DOMAIN rows : /\ rows'[i].job = rows[i].job /\ rows'[i].run = rows[i].run
                                         /\ i # k => rows'[i] = rows[i]
               /\ IsPipeline(k) /\ rows'[k].state = SUCCEEDED => calls[k].phase = "return"
    <3>1. to \in RunStates
      BY DEF RunStates, TerminalStates
    <3>2. \A i \in DOMAIN rows : i # k => rows'[i] = rows[i]
      BY <2>2 DEF Transition
    <3>3. rows'[k].state = to /\ SUCCEEDED # FAILED
      BY <1>1, <2>2, <3>1, TransitionFacts DEF SUCCEEDED, FAILED
    <3>4. /\ DOMAIN rows' = DOMAIN rows
          /\ \A i \in DOMAIN rows : rows'[i].job = rows[i].job /\ rows'[i].run = rows[i].run
      BY <1>1, <2>2, <3>1, TransitionFacts
    <3> QED
      BY <2>2, <3>2, <3>3, <3>4
  <2> QED
    BY <2>1, <2>2
<1>4. \A m \in DOMAIN rows : OldStays(m)
  BY <1>1, <1>2, <1>3 DEF OldStays, Live
<1> QED
  BY <1>2, <1>3, <1>4 DEF Moves

\* What run_now adds, the wait for row old having ended before.
LEMMA AddsFrom ==
    ASSUME BatchInv, NEW r \in Request, NEW p \in Nat, NEW ds \in Seq(Call), NEW old,
           Len(ds) = Len(rows), RunNow(r, p, ds), proc' = proc,
           \A m \in DOMAIN rows :
               /\ ds[m].parent = calls[m].parent /\ ds[m].step = calls[m].step
               /\ ds[m].awaited = (calls[m].awaited /\ m # old)
               /\ ds[m].phase = calls[m].phase \/ (IsPipeline(m) /\ Live(m))
               /\ ds[m].f = calls[m].f /\ ds[m].work = calls[m].work /\ ds[m].seq = calls[m].seq
    PROVE  \E n : AddsRow(n, r.job, IF r.run = 0 THEN n ELSE r.run, p, old)
<1> DEFINE n == Len(rows) + 1
<1>1. rows \in Seq(JobRun) /\ DOMAIN rows = 1..Len(rows) /\ Len(rows) \in Nat
  BY LedgerShape DEF BatchInv, Order, LedgerOK
<1>2. Adds(rows, ds, r, p, rows', calls')
  BY <1>1, AddedFacts DEF RunNow
<1>3. /\ DOMAIN rows' = DOMAIN rows \union {n} /\ n \notin DOMAIN rows
      /\ \A m \in DOMAIN rows : rows'[m] = rows[m] /\ calls'[m] = ds[m]
      /\ rows'[n].job = r.job /\ rows'[n].state = RUNNING
      /\ rows'[n].run = IF r.run = 0 THEN n ELSE r.run
      /\ calls'[n].awaited /\ calls'[n].parent = p /\ calls'[n].step = 0
      /\ calls'[n].phase = IF r.job = PIPELINE THEN "check" ELSE "read"
  BY <1>2 DEF Adds
<1>4. n \in Nat /\ \A m \in DOMAIN rows : m < n
  BY <1>1
<1> HIDE DEF n
<1>5. \A m \in DOMAIN rows : OldStays(m)
  BY <1>3 DEF OldStays, Live
<1> QED
  BY <1>3, <1>4, <1>5 DEF AddsRow

\* The process ends.
LEMMA DieTurn ==
    ASSUME BatchInv, Die, rows' = rows, proc # "down"
    PROVE  Dies
<1>1. DOMAIN calls = DOMAIN rows /\ \A k \in DOMAIN rows : calls[k] \in Call
  BY LedgerShape DEF BatchInv, Order
<1>2. ASSUME NEW k \in DOMAIN rows
      PROVE  calls'[k].phase = "done" /\ ~calls'[k].awaited /\ calls'[k].parent = calls[k].parent
  <2>1. /\ Over(calls[k]) \in Call /\ Over(calls[k]).phase = "done"
        /\ Over(calls[k]).parent = calls[k].parent
    BY <1>1, OverCall
  <2>2. calls'[k] = [Over(calls[k]) EXCEPT !.awaited = FALSE]
    BY <1>1 DEF Die
  <2> QED
    BY <2>1, <2>2 DEF Call
<1>3. \A m \in DOMAIN rows : OldStays(m)
  BY <1>2 DEF OldStays
<1> QED
  BY <1>2, <1>3 DEF Dies, Die

\* A job is started by itself.
LEMMA TriggerTurn ==
    ASSUME BatchInv, NEW job \in Triggered, Trigger(job)
    PROVE  \E n : Triggers(n)
<1> DEFINE r == [job |-> job, run |-> 0, attempt |-> 1]
<1>1. r \in Request /\ calls \in Seq(Call) /\ Len(calls) = Len(rows)
  BY PipelineAssumption DEF Request, BatchInv, Order, LedgerOK
<1>2. RunNow(r, 0, calls) /\ proc = "up" /\ proc' = proc /\ todo' = todo
  BY DEF Trigger
<1>3. \A m \in DOMAIN rows : calls[m].awaited = (calls[m].awaited /\ m # 0)
  BY LedgerShape DEF BatchInv, Order, Call
<1>4. r.job = job /\ r.run = 0
  OBVIOUS
<1> HIDE DEF r
<1>5. PICK n : AddsRow(n, r.job, IF r.run = 0 THEN n ELSE r.run, 0, 0)
  BY <1>1, <1>2, <1>3, AddsFrom
<1>6. AddsRow(n, job, n, 0, 0)
  BY <1>4, <1>5
<1> QED
  BY <1>2, <1>6 DEF Triggers

\* A pipeline starts its next step, or halts.
LEMMA StartStepTurn ==
    ASSUME BatchInv, Alone, NEW k \in DOMAIN rows, StartStep(k)
    PROVE  Moves(k) \/ \E n : Starts(n, k)
<1> DEFINE step == PIPELINE_STEPS[calls[k].step + 1]
           r    == [job |-> step, run |-> rows[k].run, attempt |-> 1]
           cs   == [calls EXCEPT ![k].phase = "wait"]
<1>1. /\ DOMAIN calls = DOMAIN rows /\ calls[k] \in Call /\ k \in Nat \ {0}
      /\ calls \in Seq(Call) /\ Len(calls) = Len(rows) /\ rows[k] \in JobRun
      /\ calls[k].phase = "go" /\ IsPipeline(k) /\ Live(k)
      /\ UNCHANGED <<proc, todo>> /\ Order(rows, calls)
  BY LedgerShape DEF BatchInv, Order, LedgerOK, StartStep, Live
<1>2. calls[k].step + 1 \in Steps
  <2>1. calls[k].step < Len(PIPELINE_STEPS)
    BY <1>1 DEF Order, Counted, IsPipeline
  <2>2. calls[k].step \in 0..6
    BY <1>1, LedgerShape DEF Order
  <2> QED
    BY <2>1, <2>2, StepsDistinct
<1>3. ASSUME RunNow(r, k, cs)
      PROVE  \E n : Starts(n, k)
  <2>1. [calls[k] EXCEPT !.phase = "wait"] \in Call
    BY <1>1 DEF Call
  <2>2. cs \in Seq(Call) /\ Len(cs) = Len(rows)
    BY <1>1, <2>1, ExceptSeq
  <2>3. cs[k] = [calls[k] EXCEPT !.phase = "wait"] /\ \A m \in DOMAIN rows : m # k => cs[m] = calls[m]
    BY <1>1
  <2>4. \A m \in DOMAIN rows : m # 0 /\ calls[m] \in Call
    BY <1>1, LedgerShape DEF Order
  <2>5. \A m \in DOMAIN rows :
               /\ cs[m].parent = calls[m].parent /\ cs[m].step = calls[m].step
               /\ cs[m].awaited = (calls[m].awaited /\ m # 0)
               /\ cs[m].phase = calls[m].phase \/ (IsPipeline(m) /\ Live(m))
               /\ cs[m].f = calls[m].f /\ cs[m].work = calls[m].work /\ cs[m].seq = calls[m].seq
    BY <1>1, <2>3, <2>4 DEF Call
  <2>6. r \in Request /\ r.job # PIPELINE /\ r.run = rows[k].run /\ rows[k].run # 0
    BY <1>1, <1>2, StepsDistinct DEF Request, JobRun
  <2> HIDE DEF cs, r
  <2>7. \E n : AddsRow(n, r.job, IF r.run = 0 THEN n ELSE r.run, k, 0)
    BY <1>1, <1>3, <2>2, <2>5, <2>6, AddsFrom
  <2> QED
    BY <1>1, <2>6, <2>7 DEF Starts
<1>4. ASSUME calls' = Halted(calls, k), rows' = rows
      PROVE  Moves(k)
  <2> DEFINE c == [calls[k] EXCEPT !.phase = "raise"]
  <2>1. calls' = [calls EXCEPT ![k] = c] /\ c \in Call
    BY <1>1, <1>4 DEF Halted, Call
  <2>2. /\ c.awaited = calls[k].awaited /\ c.parent = calls[k].parent /\ c.step = calls[k].step
    BY <1>1 DEF Call
  <2> HIDE DEF c
  <2> QED
    BY <1>1, <1>4, <2>1, <2>2, MovesFrom
<1> QED
  BY <1>3, <1>4 DEF StartStep

\* reconcile runs a row again, or fails and ends the process.
LEMMA ResumeTurn ==
    ASSUME BatchInv, NEW i \in DOMAIN rows, ResumeNext(i)
    PROVE  Dies \/ \E n : Resumes(n, i)
<1>1. CASE Die /\ UNCHANGED rows
  BY <1>1, DieTurn DEF ResumeNext
<1>2. CASE RunNow(RetryOf(i), 0, calls) /\ todo' = todo \ {i} /\ UNCHANGED proc
  <2>1. /\ RetryOf(i) \in Request /\ RetryOf(i).job = rows[i].job
        /\ RetryOf(i).run = rows[i].run /\ rows[i].run # 0
    BY LedgerShape DEF RetryOf, Request, JobRun, BatchInv, Order
  <2>2. calls \in Seq(Call) /\ Len(calls) = Len(rows)
    BY DEF BatchInv, Order, LedgerOK
  <2>3. \A m \in DOMAIN rows : calls[m].awaited = (calls[m].awaited /\ m # 0)
    BY LedgerShape DEF BatchInv, Order, Call
  <2>4. PICK n : AddsRow(n, RetryOf(i).job, IF RetryOf(i).run = 0 THEN n ELSE RetryOf(i).run, 0, 0)
    BY <1>2, <2>1, <2>2, <2>3, AddsFrom
  <2>5. AddsRow(n, rows[i].job, rows[i].run, 0, 0)
    BY <2>1, <2>4
  <2> QED
    BY <1>2, <2>5 DEF Resumes, ResumeNext
<1> QED
  BY <1>1, <1>2 DEF ResumeNext

\* A wait ends, and the pipeline that waited goes on or halts.
LEMMA TellsFrom ==
    ASSUME BatchInv, NEW k \in DOMAIN rows, calls[k].awaited, rows[k].state # RUNNING,
           UNCHANGED <<rows, proc, todo>>,
           \/ calls' = Passed(Answered(calls, k), calls[k].parent) /\ HasSucceeded(k)
           \/ calls' = Halted(Answered(calls, k), calls[k].parent)
    PROVE  Tells(k)
<1> DEFINE p  == calls[k].parent
           ds == Answered(calls, k)
<1>1. /\ DOMAIN calls = DOMAIN rows /\ \A m \in DOMAIN rows : calls[m] \in Call
      /\ p \in Nat /\ Order(rows, calls) /\ k # 0
  BY LedgerShape DEF BatchInv, Order
<1>2. ds[k] = [calls[k] EXCEPT !.awaited = FALSE] /\ \A m \in DOMAIN rows : m # k => ds[m] = calls[m]
  BY <1>1 DEF Answered
<1>3. DOMAIN ds = DOMAIN rows
  BY <1>1 DEF Answered
<1>4. ASSUME NEW m \in DOMAIN rows
      PROVE  /\ ds[m] \in Call /\ ds[m].phase = calls[m].phase /\ ds[m].f = calls[m].f
             /\ ds[m].work = calls[m].work /\ ds[m].seq = calls[m].seq /\ ds[m].step = calls[m].step
             /\ ds[m].parent = calls[m].parent /\ (m # k => ds[m].awaited = calls[m].awaited)
  <2>1. CASE m = k
    <3>1. calls[k] \in Call /\ ds[m] = [calls[k] EXCEPT !.awaited = FALSE]
      BY <1>1, <1>2, <2>1
    <3> HIDE DEF ds
    <3> QED
      BY <2>1, <3>1 DEF Call
  <2>2. CASE m # k
    BY <1>1, <1>2, <2>2
  <2> QED
    BY <2>1, <2>2
<1>5. ~ds[k].awaited
  BY <1>1, <1>2 DEF Call
<1>6. p # 0 => p \in DOMAIN rows /\ IsPipeline(p) /\ Live(p) /\ p # k
  <2>1. p # 0 => /\ p \in DOMAIN rows /\ IsPipeline(p) /\ calls[p].phase = "wait"
                 /\ rows[k].job = PIPELINE_STEPS[calls[p].step + 1] /\ calls[p].step < Len(PIPELINE_STEPS)
    BY <1>1 DEF Order, Paired, IsPipeline, Counted
  <2>2. p # 0 => calls[p].step + 1 \in Steps
    BY <1>1, <2>1, LedgerShape, StepsDistinct DEF Order
  <2>3. p # 0 => ~IsPipeline(k)
    BY <2>1, <2>2, StepsDistinct DEF IsPipeline
  <2> QED
    BY <2>1, <2>3 DEF Live
<1>7. ASSUME NEW m \in DOMAIN rows, m # p \/ p = 0
      PROVE  calls'[m] = ds[m]
  BY <1>1, <1>3, <1>7 DEF Passed, Halted
<1>8. ASSUME p # 0
      PROVE  /\ calls'[p].awaited = ds[p].awaited /\ calls'[p].parent = ds[p].parent
             /\ calls'[p].f = ds[p].f /\ calls'[p].work = ds[p].work /\ calls'[p].seq = ds[p].seq
             /\ calls'[p].step = ds[p].step \/ (HasSucceeded(k) /\ calls'[p].step = ds[p].step + 1)
  <2>1. CASE calls' = Halted(ds, p)
    <3>1. calls'[p] = [ds[p] EXCEPT !.phase = "raise"]
      BY <1>3, <1>6, <1>8, <2>1 DEF Halted
    <3> QED
      BY <1>4, <1>6, <1>8, <3>1 DEF Call
  <2>2. CASE calls' = Passed(ds, p) /\ HasSucceeded(k)
    <3>1. PICK ph : calls'[p] = [ds[p] EXCEPT !.step = ds[p].step + 1, !.phase = ph]
      BY <1>3, <1>6, <1>8, <2>2 DEF Passed
    <3> QED
      BY <1>4, <1>6, <1>8, <2>2, <3>1 DEF Call
  <2> QED
    BY <2>1, <2>2
<1> HIDE DEF ds
<1>9. ASSUME NEW m \in DOMAIN rows
      PROVE  /\ calls'[m].awaited = ds[m].awaited /\ calls'[m].parent = calls[m].parent
             /\ calls'[m].f = calls[m].f /\ calls'[m].work = calls[m].work
             /\ calls'[m].seq = calls[m].seq
             /\ \/ calls'[m].step = calls[m].step
                \/ HasSucceeded(k) /\ calls[k].parent = m /\ calls'[m].step = calls[m].step + 1
             /\ calls'[m].phase = calls[m].phase \/ (IsPipeline(m) /\ Live(m))
  <2>1. CASE m # p \/ p = 0
    BY <1>4, <1>7, <2>1
  <2>2. CASE m = p /\ p # 0
    BY <1>4, <1>6, <1>8, <2>2
  <2> QED
    BY <2>1, <2>2
<1>10. \A m \in DOMAIN rows : calls'[m].awaited => calls[m].awaited
  BY <1>4, <1>5, <1>9
<1>11. \A m \in DOMAIN rows : OldStays(m)
  BY <1>9, <1>10 DEF OldStays, Live
<1> QED
  BY <1>4, <1>5, <1>9, <1>11 DEF Tells

\* run_now looks at the outcome of a call.
LEMMA AnswerTurn ==
    ASSUME BatchInv, NoneRuns, NEW k \in DOMAIN rows, Answer(k)
    PROVE  Tells(k) \/ Dies \/ \E n : Repeats(n, k)
<1> DEFINE p  == calls[k].parent
           ds == Answered(calls, k)
<1>1. calls[k].awaited /\ rows[k].state # RUNNING /\ proc # "down"
  BY DEF Answer, NoneRuns
<1>2. /\ DOMAIN calls = DOMAIN rows /\ \A m \in DOMAIN rows : calls[m] \in Call
      /\ p \in Nat /\ Order(rows, calls)
  BY LedgerShape DEF BatchInv, Order
<1>3. ASSUME RunNow(RetryOf(k), p, ds), rows[k].state = FAILED, UNCHANGED <<proc, todo>>
      PROVE  \E n : Repeats(n, k)
  <2>1. ds \in Seq(Call) /\ Len(ds) = Len(rows)
    BY <1>2, AnsweredOrder DEF Order, LedgerOK
  <2>2. ASSUME NEW m \in DOMAIN rows
        PROVE  /\ ds[m].parent = calls[m].parent /\ ds[m].step = calls[m].step
               /\ ds[m].awaited = (calls[m].awaited /\ m # k)
               /\ ds[m].phase = calls[m].phase
               /\ ds[m].f = calls[m].f /\ ds[m].work = calls[m].work /\ ds[m].seq = calls[m].seq
    <3>1. ds[k] = [calls[k] EXCEPT !.awaited = FALSE] /\ (m # k => ds[m] = calls[m])
      BY <1>2 DEF Answered
    <3>2. calls[k] \in Call /\ calls[m] \in Call
      BY <1>2
    <3> QED
      BY <3>1, <3>2 DEF Call
  <2>3. /\ RetryOf(k) \in Request /\ RetryOf(k).job = rows[k].job
        /\ RetryOf(k).run = rows[k].run /\ rows[k].run # 0
    BY LedgerShape DEF RetryOf, Request, JobRun, BatchInv, Order
  <2> HIDE DEF ds
  <2>4. PICK n : AddsRow(n, RetryOf(k).job, IF RetryOf(k).run = 0 THEN n ELSE RetryOf(k).run, p, k)
    BY <1>2, <1>3, <2>1, <2>2, <2>3, AddsFrom
  <2>5. AddsRow(n, rows[k].job, rows[k].run, p, k)
    BY <2>3, <2>4
  <2> QED
    BY <1>1, <1>3, <2>5 DEF Repeats
<1>4. \/ calls' = Passed(ds, p) /\ HasSucceeded(k) /\ UNCHANGED <<rows, proc, todo>>
      \/ RunNow(RetryOf(k), p, ds) /\ rows[k].state = FAILED /\ UNCHANGED <<proc, todo>>
      \/ Die /\ UNCHANGED rows
      \/ calls' = Halted(ds, p) /\ UNCHANGED <<rows, proc, todo>>
  BY DEF Answer, Answered, HasSucceeded
<1> QED
  BY <1>1, <1>3, <1>4, TellsFrom, DieTurn

\* The reads and the commits of the handlers, and the ends of their threads.
LEMMA HandlerTurn ==
    ASSUME BatchInv, Alone, NEW k \in DOMAIN rows,
           CheckOverlap(k) \/ PipelineEnds(k) \/ StepHandler(k) \/ HandlerFails(k)
    PROVE  Moves(k)
<1>1. /\ DOMAIN calls = DOMAIN rows /\ calls[k] \in Call /\ Over(calls[k]) \in Call
      /\ Over(calls[k]).awaited = calls[k].awaited /\ Over(calls[k]).parent = calls[k].parent
      /\ Over(calls[k]).step = calls[k].step
  BY LedgerShape, OverCall DEF BatchInv, Order
<1>2. CASE CheckOverlap(k)
  <2>1. PICK ph : calls' = [calls EXCEPT ![k].phase = ph]
    BY <1>2 DEF CheckOverlap
  <2> DEFINE c == [calls[k] EXCEPT !.phase = ph]
  <2>2. calls' = [calls EXCEPT ![k] = c] /\ UNCHANGED <<rows, proc, todo>> /\ Live(k)
    BY <1>2, <2>1 DEF CheckOverlap, Live
  <2>3. c.awaited = calls[k].awaited /\ c.parent = calls[k].parent /\ c.step = calls[k].step
    BY <1>1 DEF Call
  <2> HIDE DEF c
  <2> QED
    BY <2>2, <2>3, MovesFrom
<1>3. CASE \/ PipelineEnds(k) \/ Prepare(k) \/ NothingToScore(k) \/ ScoreRefused(k)
           \/ HandlerFails(k) \/ StepEnds(k)
  <2>1. calls' = [calls EXCEPT ![k] = Over(calls[k])] /\ UNCHANGED <<proc, todo>> /\ Live(k)
    BY <1>3 DEF PipelineEnds, Prepare, NothingToScore, ScoreRefused, HandlerFails, StepEnds,
       Settle, At, Live
  <2>2. PICK to \in {SUCCEEDED, FAILED} :
          /\ rows' = Transition(rows, {k}, to)
          /\ IsPipeline(k) /\ to = SUCCEEDED => calls[k].phase = "return"
    BY <1>3 DEF PipelineEnds, Prepare, NothingToScore, ScoreRefused, HandlerFails, StepEnds,
       Settle, At, IsPipeline, PIPELINE, SUCCEEDED, FAILED
  <2> QED
    BY <1>1, <2>1, <2>2, MovesFrom
<1>4. CASE ReadScore(k) \/ ReadRank(k) \/ ReadDispatch(k)
  <2>1. PICK f, work : Read(k, f, work)
    <3>1. CASE ReadScore(k) \/ ReadRank(k)
      BY <3>1 DEF ReadScore, ReadRank
    <3>2. CASE ReadDispatch(k)
      BY <3>2 DEF ReadDispatch
    <3> QED
      BY <1>4, <3>1, <3>2
  <2> DEFINE c == [calls[k] EXCEPT !.phase = "write", !.f = f, !.work = work]
  <2>2. calls' = [calls EXCEPT ![k] = c] /\ UNCHANGED <<rows, proc, todo>> /\ Live(k)
    BY <1>4, <2>1 DEF ReadScore, ReadRank, ReadDispatch, Read, At, Live
  <2>3. c.awaited = calls[k].awaited /\ c.parent = calls[k].parent /\ c.step = calls[k].step
    BY <1>1 DEF Call
  <2> HIDE DEF c
  <2> QED
    BY <2>2, <2>3, MovesFrom
<1>5. CASE ReadCases(k)
  <2>1. PICK f, work : calls' = [calls EXCEPT ![k].phase = "count", ![k].f = f, ![k].work = work]
    BY <1>5 DEF ReadCases
  <2> DEFINE c == [calls[k] EXCEPT !.phase = "count", !.f = f, !.work = work]
  <2>2. calls' = [calls EXCEPT ![k] = c] /\ UNCHANGED <<rows, proc, todo>> /\ Live(k)
    BY <1>5, <2>1 DEF ReadCases, At, Live
  <2>3. c.awaited = calls[k].awaited /\ c.parent = calls[k].parent /\ c.step = calls[k].step
    BY <1>1 DEF Call
  <2> HIDE DEF c
  <2> QED
    BY <2>2, <2>3, MovesFrom
<1>6. CASE CountCases(k)
  <2>1. PICK seq : calls' = [calls EXCEPT ![k].phase = "write", ![k].seq = seq]
    BY <1>6 DEF CountCases
  <2> DEFINE c == [calls[k] EXCEPT !.phase = "write", !.seq = seq]
  <2>2. calls' = [calls EXCEPT ![k] = c] /\ UNCHANGED <<rows, proc, todo>> /\ Live(k)
    BY <1>6, <2>1 DEF CountCases, At, Live
  <2>3. c.awaited = calls[k].awaited /\ c.parent = calls[k].parent /\ c.step = calls[k].step
    BY <1>1 DEF Call
  <2> HIDE DEF c
  <2> QED
    BY <2>2, <2>3, MovesFrom
<1>7. CASE Commits(k)
  <2> DEFINE c == [Over(calls[k]) EXCEPT !.phase = "saved"]
  <2>1. calls' = [calls EXCEPT ![k] = c] /\ UNCHANGED <<rows, proc, todo>> /\ Live(k)
    BY <1>7 DEF Commits, Score, Rank, UpdateCases, Dispatch, Commit, Saved, At, Live
  <2>2. c.awaited = calls[k].awaited /\ c.parent = calls[k].parent /\ c.step = calls[k].step
    BY <1>1 DEF Call
  <2> HIDE DEF c
  <2> QED
    BY <2>1, <2>2, MovesFrom
<1> QED
  BY <1>2, <1>3, <1>4, <1>5, <1>6, <1>7 DEF StepHandler, Commits

\* Every step is one of these turns, as long as every wait is patient.
LEMMA NextTurn ==
    ASSUME BatchInv, NoneRuns, Alone, Next, ~gaveup'
    PROVE  Turn
<1>1. ASSUME NEW job \in Triggered, Trigger(job) PROVE Turn
  BY <1>1, TriggerTurn DEF Turn
<1>2. ASSUME NEW k \in DOMAIN rows, CheckOverlap(k) \/ PipelineEnds(k) \/ StepHandler(k) \/ HandlerFails(k)
      PROVE  Turn
  BY <1>2, HandlerTurn DEF Turn
<1>3. ASSUME NEW k \in DOMAIN rows, StartStep(k) \/ Answer(k) \/ ResumeNext(k)
      PROVE  Turn
  BY <1>3, StartStepTurn, AnswerTurn, ResumeTurn DEF Turn
<1>4. ASSUME NEW k \in DOMAIN rows, TimeOut(k) PROVE Turn
  BY <1>4 DEF TimeOut
<1>5. CASE CloseCase \/ Ready
  <2>1. \A m \in DOMAIN rows : OldStays(m)
    BY <1>5 DEF CloseCase, Ready, OldStays, Live
  <2> QED
    BY <1>5, <2>1 DEF CloseCase, Ready, Turn, Rests
<1>6. CASE Crash
  BY <1>6, DieTurn DEF Crash, Turn
<1>7. CASE Restart
  <2>1. rows \in Seq(JobRun) /\ INTERRUPTED \in RunStates
    BY DEF BatchInv, Order, LedgerOK, RunStates, TerminalStates
  <2>2. /\ DOMAIN rows' = DOMAIN rows
        /\ \A m \in DOMAIN rows :
             /\ rows'[m].job = rows[m].job /\ rows'[m].run = rows[m].run
             /\ rows'[m].state = IF rows[m].state = RUNNING THEN INTERRUPTED ELSE rows[m].state
    BY <1>7, <2>1, TransitionFacts DEF Restart, RunningRuns
  <2>3. \A m \in DOMAIN rows : OldStays(m)
    BY <1>7, <2>2 DEF OldStays, Restart, Live
  <2> QED
    BY <1>7, <2>2, <2>3 DEF Restart, Restarts, Turn
<1> QED
  BY <1>1, <1>2, <1>3, <1>4, <1>5, <1>6, <1>7 DEF Next

-----------------------------------------------------------------------------
\* A call that a pipeline waits for is a step of its run, and the pipeline is alive.
LEMMA Parents ==
    ASSUME BatchInv, Attended, NEW k \in DOMAIN rows, calls[k].awaited, NEW p, p = calls[k].parent, p # 0
    PROVE  /\ p \in DOMAIN rows /\ IsPipeline(p) /\ ~IsPipeline(k) /\ calls[p].phase = "wait"
           /\ Live(p) /\ calls[p].awaited /\ SameRun(k, p)
           /\ calls[p].step + 1 \in Steps /\ rows[k].job = PIPELINE_STEPS[calls[p].step + 1]
           /\ \A m \in DOMAIN rows : calls[m].awaited /\ calls[m].parent = p => m = k
<1>1. Order(rows, calls) /\ p \in Nat \ {0}
  BY LedgerShape DEF BatchInv, Order
<1>2. /\ p \in DOMAIN rows /\ IsPipeline(p) /\ calls[p].phase = "wait" /\ SameRun(k, p)
      /\ rows[k].job = PIPELINE_STEPS[calls[p].step + 1] /\ calls[p].step < Len(PIPELINE_STEPS)
      /\ \A m \in DOMAIN rows : calls[m].awaited /\ calls[m].parent = p => m = k
  BY <1>1 DEF Order, Paired, IsPipeline, Counted, SameRun
<1>3. calls[p].step + 1 \in Steps
  BY <1>1, <1>2, LedgerShape, StepsDistinct DEF Order
<1>4. ~IsPipeline(k)
  BY <1>2, <1>3, StepsDistinct DEF IsPipeline
<1> QED
  BY <1>2, <1>3, <1>4 DEF Live, Attended

\* Nobody waits when main does not.
LEMMA NobodyWaits ==
    ASSUME BatchInv, Attended, MainIdle
    PROVE  \A k \in DOMAIN rows : ~calls[k].awaited
<1> SUFFICES ASSUME NEW k \in DOMAIN rows, calls[k].awaited PROVE FALSE
  OBVIOUS
<1>1. DOMAIN calls = DOMAIN rows
  BY LedgerShape DEF BatchInv, Order
<1> DEFINE p == calls[k].parent
<1>2. p # 0
  BY <1>1 DEF MainIdle
<1>3. p \in DOMAIN rows /\ IsPipeline(p) /\ calls[p].awaited
  BY <1>2, Parents
<1>4. calls[p].parent # 0
  BY <1>1, <1>3 DEF MainIdle
<1>5. ~IsPipeline(p)
  BY <1>3, <1>4, Parents
<1> QED
  BY <1>3, <1>5

\* Two rows of a run that are waited for are a waiting pipeline and its step.
LEMMA TwoWaited ==
    ASSUME BatchInv, Attended, InTree, NEW i \in DOMAIN rows, NEW j \in DOMAIN rows, i # j,
           SameRun(i, j), calls[i].awaited, calls[j].awaited, ~IsPipeline(i)
    PROVE  calls[i].parent = j /\ IsPipeline(j) /\ calls[j].phase = "wait" /\ Live(j)
<1>1. i # 0 /\ j # 0
  BY LedgerShape DEF BatchInv, Order
<1>2. calls[j].parent # i
  BY <1>1, Parents
<1>3. calls[i].parent = j
  BY <1>2 DEF InTree
<1> QED
  BY <1>1, <1>3, Parents

\* A thread that moves, a wait that ends, the end of the process, its start and its rest.
LEMMA OldTurns ==
    ASSUME BatchInv, LeftInv, Alone, NoneRuns,
           (\E k \in DOMAIN rows : Moves(k) \/ Tells(k)) \/ Dies \/ Restarts \/ Rests
    PROVE  LeftInv'
<1>1. DOMAIN rows' = DOMAIN rows /\ \A m \in DOMAIN rows : OldStays(m)
  BY DEF Moves, Tells, Dies, Restarts, Rests
<1>2. InTree'
  BY <1>1 DEF LeftInv, InTree, SameRun, OldStays
<1>3. ASSUME NEW k \in DOMAIN rows, Moves(k)
      PROVE  Attended'
  <2>1. proc # "down" /\ rows[k].state = RUNNING
    BY <1>3 DEF Moves, NoneRuns, Alone
  <2> QED
    BY <1>3, <2>1 DEF LeftInv, Attended, Moves, OldStays, Live
<1>4. ASSUME NEW k \in DOMAIN rows, Tells(k)
      PROVE  Attended'
  <2>1. proc # "down"
    BY <1>4 DEF Tells, NoneRuns
  <2> QED
    BY <1>4, <2>1 DEF LeftInv, Attended, Tells, OldStays, Live, Alone
<1>5. ASSUME Dies PROVE Attended'
  BY <1>5 DEF Dies, Attended, Live
<1>6. ASSUME Restarts PROVE Attended'
  <2>1. INTERRUPTED # RUNNING /\ \A m \in DOMAIN rows : ~Live(m)
    BY <1>6 DEF Restarts, NoneRuns, INTERRUPTED, RUNNING
  <2> QED
    BY <1>6, <2>1 DEF Restarts, Attended, Live
<1>7. ASSUME Rests PROVE Attended'
  BY <1>7 DEF Rests, LeftInv, Attended, Live
<1> QED
  BY <1>2, <1>3, <1>4, <1>5, <1>6, <1>7 DEF LeftInv
-----------------------------------------------------------------------------
\* A row may be added to a run that nobody waits for but the row's caller; the row whose
\* place it takes is over.
MayAdd(run, p, old) ==
    /\ \A m \in DOMAIN rows : rows[m].run = run /\ calls[m].awaited /\ m # old => m = p
    /\ old \in DOMAIN rows => ~Live(old) /\ rows[old].state # RUNNING

\* Such a row keeps the invariant.
LEMMA AddedKeeps ==
    ASSUME LeftInv, NEW n, NEW job, NEW run, NEW p, NEW old,
           AddsRow(n, job, run, p, old), MayAdd(run, p, old), proc # "down"
    PROVE  LeftInv'
<1>1. /\ n \notin DOMAIN rows /\ DOMAIN rows' = DOMAIN rows \union {n}
      /\ rows'[n].run = run /\ calls'[n].awaited /\ calls'[n].parent = p /\ proc' = proc
      /\ \A m \in DOMAIN rows : /\ rows'[m] = rows[m] /\ OldStays(m)
                                /\ calls'[m].awaited = (calls[m].awaited /\ m # old)
                                /\ calls'[m].parent = calls[m].parent
  BY DEF AddsRow, OldStays
<1>2. old \in DOMAIN rows => ~Live(old) /\ rows[old].state # RUNNING
  BY DEF MayAdd
<1>3. \A m \in DOMAIN rows : rows[m].run = run /\ calls'[m].awaited => m = p
  BY <1>1 DEF MayAdd
<1>4. Attended'
  <2>1. ASSUME NEW m \in DOMAIN rows
        PROVE  /\ calls'[m].phase # "done" => calls'[m].awaited
               /\ rows'[m].state = RUNNING => calls'[m].awaited
    <3>1. calls'[m].phase # "done" \/ rows'[m].state = RUNNING => m # old
      BY <1>1, <1>2 DEF OldStays
    <3>2. (Live(m) \/ rows[m].state = RUNNING) => calls[m].awaited
      BY DEF LeftInv, Attended
    <3> QED
      BY <1>1, <3>1, <3>2 DEF OldStays
  <2> QED
    BY <1>1, <2>1 DEF Attended, Live
<1>5. InTree'
  <2> SUFFICES ASSUME NEW i \in DOMAIN rows', NEW j \in DOMAIN rows', i # j, SameRun(i, j)',
                      calls'[i].awaited, calls'[j].awaited
               PROVE  calls'[i].parent = j \/ calls'[j].parent = i
    BY DEF InTree
  <2>1. CASE i \in DOMAIN rows /\ j \in DOMAIN rows
    <3>1. SameRun(i, j) /\ calls[i].awaited /\ calls[j].awaited
      BY <1>1, <2>1 DEF SameRun
    <3>2. calls[i].parent = j \/ calls[j].parent = i
      BY <2>1, <3>1 DEF LeftInv, InTree
    <3> QED
      BY <1>1, <2>1, <3>2
  <2>2. CASE i = n
    BY <1>1, <1>3, <2>2 DEF SameRun
  <2>3. CASE j = n
    BY <1>1, <1>3, <2>3 DEF SameRun
  <2> QED
    BY <1>1, <2>1, <2>2, <2>3
<1> QED
  BY <1>4, <1>5 DEF LeftInv

\* A job that is started by itself has a run of its own.
LEMMA TriggersKeep ==
    ASSUME BatchInv, LeftInv, NEW n, Triggers(n)
    PROVE  LeftInv'
<1>1. PICK job : AddsRow(n, job, n, 0, 0)
  BY DEF Triggers
<1>2. \A m \in DOMAIN rows : m # 0 /\ rows[m].run # n
  <2>1. \A m \in DOMAIN rows : m \in Nat /\ m # 0 /\ m < n /\ rows[m].run \in 1..m /\ n \in Nat
    BY <1>1, LedgerShape DEF AddsRow, BatchInv, Order, LedgerOK
  <2> QED
    BY <2>1
<1>3. MayAdd(n, 0, 0) /\ proc # "down"
  BY <1>2 DEF MayAdd, Triggers
<1> QED
  BY <1>1, <1>3, AddedKeeps

\* The next attempt takes the place of the failed one.
LEMMA RepeatsKeep ==
    ASSUME BatchInv, LeftInv, Alone, NoneRuns, NEW n, NEW k \in DOMAIN rows, Repeats(n, k)
    PROVE  LeftInv'
<1> DEFINE run == rows[k].run
           p   == calls[k].parent
<1>1. /\ calls[k].awaited /\ rows[k].state = FAILED
      /\ AddsRow(n, rows[k].job, run, p, k)
  BY DEF Repeats
<1>2. ~Live(k) /\ rows[k].state # RUNNING /\ proc # "down"
  BY <1>1 DEF Alone, RUNNING, FAILED, NoneRuns
<1>3. ASSUME NEW m \in DOMAIN rows, rows[m].run = run, calls[m].awaited, m # k
      PROVE  m = p
  <2>1. m # 0 /\ k # 0
    BY LedgerShape DEF BatchInv, Order
  <2>2. calls[m].parent # k
    BY <1>2, <1>3, <2>1, Parents DEF LeftInv
  <2> QED
    BY <1>1, <1>3, <2>2 DEF LeftInv, InTree, SameRun
<1> HIDE DEF run, p
<1>4. MayAdd(run, p, k)
  BY <1>2, <1>3 DEF MayAdd
<1> QED
  BY <1>1, <1>2, <1>4, AddedKeeps

\* A pipeline's next step is the only call it waits for.
LEMMA StartsKeep ==
    ASSUME BatchInv, LeftInv, Alone, NoneRuns, NEW n, NEW p \in DOMAIN rows, Starts(n, p)
    PROVE  LeftInv'
<1>1. PICK job : AddsRow(n, job, rows[p].run, p, 0)
  BY DEF Starts
<1>2. /\ IsPipeline(p) /\ calls[p].phase = "go" /\ Live(p) /\ calls[p].awaited /\ proc # "down"
      /\ \A m \in DOMAIN rows : m # 0
  BY LedgerShape DEF Starts, Live, LeftInv, Attended, NoneRuns, BatchInv, Order
<1>3. ASSUME NEW m \in DOMAIN rows, rows[m].run = rows[p].run, calls[m].awaited
      PROVE  m = p
  <2>1. calls[m].parent # p
    BY <1>2, <1>3, Parents DEF LeftInv
  <2>2. calls[p].parent # m
    BY <1>2, <1>3, Parents DEF LeftInv
  <2> QED
    BY <1>2, <1>3, <2>1, <2>2 DEF LeftInv, InTree, SameRun
<1>4. MayAdd(rows[p].run, p, 0)
  BY <1>2, <1>3 DEF MayAdd
<1> QED
  BY <1>1, <1>2, <1>4, AddedKeeps

\* A resumed row is added when nobody waits for any.
LEMMA ResumesKeep ==
    ASSUME BatchInv, LeftInv, NEW n, NEW i \in DOMAIN rows, Resumes(n, i)
    PROVE  LeftInv'
<1>1. /\ proc = "starting" /\ MainIdle /\ AddsRow(n, rows[i].job, rows[i].run, 0, 0)
  BY DEF Resumes
<1>2. \A m \in DOMAIN rows : ~calls[m].awaited /\ m # 0
  BY <1>1, NobodyWaits, LedgerShape DEF LeftInv, BatchInv, Order
<1>3. MayAdd(rows[i].run, 0, 0)
  BY <1>2 DEF MayAdd
<1> QED
  BY <1>1, <1>3, AddedKeeps

\* Every step leaves the run's callers in their tree.
LEMMA LeftStep ==
    ASSUME BatchInv, LeftInv, Alone, NoneRuns, Turn
    PROVE  LeftInv'
<1>1. ASSUME NEW n, Triggers(n)
      PROVE  LeftInv'
  BY <1>1, TriggersKeep
<1>2. ASSUME NEW n, NEW k \in DOMAIN rows, Repeats(n, k) \/ Starts(n, k) \/ Resumes(n, k)
      PROVE  LeftInv'
  BY <1>2, RepeatsKeep, StartsKeep, ResumesKeep
<1> QED
  BY <1>1, <1>2, OldTurns DEF Turn
-----------------------------------------------------------------------------
\* WHAT THE TABLES HOLD.  The queue of a forecast, the borrowers of its act band, and what
\* step u has done for one of them.
QueueOf(f)      == {e \in queue : e.f = f}
Acted(f)        == UNION {e.act : e \in QueueOf(f)}
Served(b, f, u) == Covered(b, f, u) \/ Reported(u, b)

\* What rank, update_cases and dispatch promise of a run.
AllQueued(run)    == \A f \in ForecastsOf(run) : QueueOf(f) # {}
AllServed(run, u) == \A f \in ForecastsOf(run) : \A b \in Acted(f) : Served(b, f, u)
AllTold(run, d)   == \A f \in ForecastsOf(run) : \A c \in Unnotified(f) : Reported(d, Ref(c))
SomeServed(run)   == \E u \in Achieved(run, "update_cases") : AllServed(run, u)
SomeTold(run)     == \E d \in Achieved(run, "dispatch") : AllTold(run, d)

\* What a thread has read, as far as its commit must account for all of it.
ReadsAll(k, run) ==
    /\ At(k, "rank", "write") =>
         /\ calls[k].f # 0 => calls[k].f \in ForecastsOf(run)
         /\ \A f \in ForecastsOf(run) : calls[k].f = f \/ QueueOf(f) # {}
    /\ At(k, "update_cases", "count") \/ At(k, "update_cases", "write") =>
         /\ calls[k].f # 0 => calls[k].f \in ForecastsOf(run)
         /\ calls[k].work # {} => calls[k].f # 0
         /\ ForecastsOf(run) \subseteq {calls[k].f}
         /\ \A f \in ForecastsOf(run) : \A b \in Acted(f) : b \in calls[k].work \/ Served(b, f, k)
    /\ At(k, "dispatch", "write") =>
         \A f \in ForecastsOf(run) : \A c \in Unnotified(f) :
             Ref(c) \in calls[k].work \/ Reported(k, Ref(c))

\* What a step's commit has done, before its wait ends ...
Committed(k) == calls[k].phase = "saved" \/ HasSucceeded(k)
HasDone(k, run) ==
    Committed(k) => /\ rows[k].job = "rank" => AllQueued(run)
                    /\ rows[k].job = "update_cases" => AllServed(run, k)
                    /\ rows[k].job = "dispatch" => AllTold(run, k)

\* ... and what the steps have done that a pipeline counts.
CountsDone(k, run) ==
    /\ calls[k].step >= 4 => AllQueued(run)
    /\ calls[k].step >= 5 => SomeServed(run)
    /\ calls[k].step >= 6 => SomeTold(run)

Claims ==
    \A k \in DOMAIN rows : \A run \in Nat : rows[k].run = run =>
        /\ calls[k].awaited /\ ~IsPipeline(k) => ReadsAll(k, run) /\ HasDone(k, run)
        /\ Live(k) /\ IsPipeline(k) => CountsDone(k, run)
-----------------------------------------------------------------------------
\* HOW A STEP MOVES THE TABLES.  What they hold of a run's forecasts stays, and no more is
\* to be notified.
TablesKept(run) ==
    /\ ForecastsOf(run)' = ForecastsOf(run)
    /\ missed \subseteq missed'
    /\ \A f \in ForecastsOf(run) :
         /\ QueueOf(f)' = QueueOf(f)
         /\ \A c \in Unnotified(f)' : \E d \in Unnotified(f) : Ref(d) = Ref(c)
         /\ \A b : \A u \in DOMAIN rows : Covered(b, f, u) => Covered(b, f, u)'

\* What has been reported stays so.
LEMMA MissedGrows ==
    ASSUME Next
    PROVE  missed \subseteq missed'
<1>1. ASSUME NEW job \in Triggered, Trigger(job) PROVE missed' = missed
  BY <1>1 DEF Trigger
<1>2. ASSUME NEW k \in DOMAIN rows,
             CheckOverlap(k) \/ StartStep(k) \/ PipelineEnds(k) \/ HandlerFails(k) \/ TimeOut(k)
                 \/ Answer(k) \/ ResumeNext(k)
      PROVE  missed' = missed
  BY <1>2 DEF CheckOverlap, StartStep, PipelineEnds, HandlerFails, TimeOut, Answer, ResumeNext,
     Settle, bounds
<1>3. ASSUME NEW k \in DOMAIN rows, StepHandler(k) PROVE missed \subseteq missed'
  <2>1. CASE UpdateCases(k) \/ ReadDispatch(k) \/ Dispatch(k)
    BY <2>1 DEF UpdateCases, ReadDispatch, Dispatch, Report
  <2>2. CASE ~(UpdateCases(k) \/ ReadDispatch(k) \/ Dispatch(k))
    BY <1>3, <2>2 DEF StepHandler, Prepare, NothingToScore, ReadScore, ScoreRefused, Score, ReadRank,
       Rank, ReadCases, CountCases, StepEnds, Settle, bounds
  <2> QED
    BY <2>1, <2>2
<1>4. CASE CloseCase \/ Crash \/ Restart \/ Ready
  BY <1>4 DEF CloseCase, Crash, Restart, Ready, bounds
<1> QED
  BY <1>1, <1>2, <1>3, <1>4 DEF Next

\* What a run has of its steps is kept with its tables.
LEMMA KeptAll ==
    ASSUME NEW run, TablesKept(run)
    PROVE  /\ AllQueued(run) => AllQueued(run)'
           /\ \A u \in DOMAIN rows : AllServed(run, u) => AllServed(run, u)'
           /\ \A d : AllTold(run, d) => AllTold(run, d)'
<1>1. \A f \in ForecastsOf(run) : Acted(f)' = Acted(f)
  BY DEF TablesKept, Acted
<1>2. AllQueued(run) => AllQueued(run)'
  BY DEF TablesKept, AllQueued
<1>3. ASSUME NEW u \in DOMAIN rows, AllServed(run, u) PROVE AllServed(run, u)'
  <2>1. \A f \in ForecastsOf(run) : \A b \in Acted(f) : Served(b, f, u)'
    BY <1>3 DEF AllServed, Served, TablesKept, Reported
  <2> QED
    BY <1>1, <2>1 DEF AllServed, TablesKept
<1>4. ASSUME NEW d, AllTold(run, d) PROVE AllTold(run, d)'
  <2>1. ASSUME NEW f \in ForecastsOf(run), NEW c \in Unnotified(f)' PROVE Reported(d, Ref(c))'
    <3>1. PICK e \in Unnotified(f) : Ref(e) = Ref(c)
      BY <2>1 DEF TablesKept
    <3>2. Reported(d, Ref(c))
      BY <1>4, <2>1, <3>1 DEF AllTold
    <3> QED
      BY <3>2 DEF TablesKept, Reported
  <2> QED
    BY <2>1 DEF AllTold, TablesKept
<1> QED
  BY <1>2, <1>3, <1>4

\* So is what its recorded steps have done: a row that has succeeded stays so.
LEMMA KeptSome ==
    ASSUME NEW run, TablesKept(run), \A m \in DOMAIN rows : OldStays(m)
    PROVE  /\ SomeServed(run) => SomeServed(run)'
           /\ SomeTold(run) => SomeTold(run)'
<1>1. \A job : \A m \in Achieved(run, job) : m \in DOMAIN rows /\ m \in Achieved(run, job)'
  BY DEF Achieved, Attempted, OldStays, SUCCEEDED, RUNNING
<1>2. ASSUME SomeServed(run) PROVE SomeServed(run)'
  <2>1. PICK u \in Achieved(run, "update_cases") : AllServed(run, u)
    BY <1>2 DEF SomeServed
  <2> QED
    BY <1>1, <2>1, KeptAll DEF SomeServed
<1>3. ASSUME SomeTold(run) PROVE SomeTold(run)'
  <2>1. PICK d \in Achieved(run, "dispatch") : AllTold(run, d)
    BY <1>3 DEF SomeTold
  <2> QED
    BY <1>1, <2>1, KeptAll DEF SomeTold
<1> QED
  BY <1>2, <1>3

\* What a thread of the run has read is kept with it.
LEMMA KeptReads ==
    ASSUME NEW run, TablesKept(run), NEW k \in DOMAIN rows, rows[k].run = run,
           rows'[k].job = rows[k].job, ReadsAll(k, run), Unmoved(k)
    PROVE  ReadsAll(k, run)'
<1>1. /\ ForecastsOf(run)' = ForecastsOf(run)
      /\ \A f \in ForecastsOf(run) : QueueOf(f)' = QueueOf(f) /\ Acted(f)' = Acted(f)
      /\ calls'[k].f = calls[k].f /\ calls'[k].work = calls[k].work
  BY DEF TablesKept, Acted, Unmoved
<1>2. \A job, phase : At(k, job, phase)' = At(k, job, phase)
  BY DEF At, Unmoved
<1>3. ASSUME At(k, "rank", "write")
      PROVE  /\ calls[k].f # 0 => calls[k].f \in ForecastsOf(run)'
             /\ \A f \in ForecastsOf(run)' : calls[k].f = f \/ QueueOf(f)' # {}
  BY <1>1, <1>3 DEF ReadsAll
<1>4. ASSUME At(k, "update_cases", "count") \/ At(k, "update_cases", "write")
      PROVE  /\ calls[k].f # 0 => calls[k].f \in ForecastsOf(run)'
             /\ calls[k].work # {} => calls[k].f # 0
             /\ ForecastsOf(run)' \subseteq {calls[k].f}
             /\ \A f \in ForecastsOf(run)' : \A b \in Acted(f)' : b \in calls[k].work \/ Served(b, f, k)'
  <2>1. /\ calls[k].f # 0 => calls[k].f \in ForecastsOf(run)
        /\ calls[k].work # {} => calls[k].f # 0
        /\ ForecastsOf(run) \subseteq {calls[k].f}
        /\ \A f \in ForecastsOf(run) : \A b \in Acted(f) : b \in calls[k].work \/ Served(b, f, k)
    BY <1>4 DEF ReadsAll
  <2>2. ASSUME NEW f \in ForecastsOf(run), NEW b, Served(b, f, k) PROVE Served(b, f, k)'
    BY <2>2 DEF Served, TablesKept, Reported
  <2>3. \A f \in ForecastsOf(run)' : \A b \in Acted(f)' : b \in calls[k].work \/ Served(b, f, k)'
    BY <1>1, <2>1, <2>2
  <2> QED
    BY <1>1, <2>1, <2>3
<1>5. ASSUME At(k, "dispatch", "write"), NEW f \in ForecastsOf(run), NEW c \in Unnotified(f)'
      PROVE  Ref(c) \in calls[k].work \/ Reported(k, Ref(c))'
  <2>1. PICK d \in Unnotified(f) : Ref(d) = Ref(c)
    BY <1>5 DEF TablesKept
  <2>2. Ref(c) \in calls[k].work \/ Reported(k, Ref(c))
    BY <1>5, <2>1 DEF ReadsAll
  <2> QED
    BY <2>2 DEF TablesKept, Reported
<1> QED
  BY <1>1, <1>2, <1>3, <1>4, <1>5 DEF ReadsAll

\* What a step does to a step's row: its thread commits before it has saved, reads before it
\* writes, and ends as a success only then.
StepRow(m) ==
    /\ calls'[m].phase = "saved" => calls[m].phase = "saved" \/ Commits(m)
    /\ calls'[m].phase \in {"count", "write"} => Learns(m) \/ Unmoved(m)
    /\ HasSucceeded(m)' =>
         HasSucceeded(m) \/ calls[m].phase = "saved" \/ rows[m].job \in {"ingest", "test", "score"}

\* That of the thread that acts.
LEMMA ActorRow ==
    ASSUME BatchInv, Alone, NEW k \in DOMAIN rows, ~IsPipeline(k), StepHandler(k) \/ HandlerFails(k)
    PROVE  StepRow(k)
<1>1. /\ DOMAIN calls = DOMAIN rows /\ calls[k] \in Call /\ Over(calls[k]) \in Call
      /\ Over(calls[k]).phase = "done" /\ rows \in Seq(JobRun)
  BY LedgerShape, OverCall DEF BatchInv, Order, LedgerOK
<1>2. ASSUME calls' = [calls EXCEPT ![k] = Over(@)]
      PROVE  calls'[k].phase = "done"
  BY <1>1, <1>2
<1>3. ASSUME rows' = Transition(rows, {k}, FAILED)
      PROVE  ~HasSucceeded(k)' \/ HasSucceeded(k)
  <2>1. FAILED \in RunStates /\ FAILED # SUCCEEDED
    BY DEF RunStates, TerminalStates, FAILED, SUCCEEDED
  <2> QED
    BY <1>1, <1>3, <2>1, TransitionFacts DEF HasSucceeded
<1>4. CASE Prepare(k) \/ NothingToScore(k) \/ ScoreRefused(k) \/ StepEnds(k) \/ HandlerFails(k)
  <2>1. calls'[k].phase = "done"
    BY <1>2, <1>4 DEF Prepare, NothingToScore, ScoreRefused, StepEnds, HandlerFails, Settle
  <2>2. \/ rows' = Transition(rows, {k}, FAILED) \/ calls[k].phase = "saved"
        \/ rows[k].job \in {"ingest", "test", "score"}
    BY <1>4 DEF Prepare, NothingToScore, ScoreRefused, StepEnds, HandlerFails, Settle, At
  <2> QED
    BY <1>3, <2>1, <2>2 DEF StepRow
<1>5. ASSUME NEW f, NEW work, Read(k, f, work)
      PROVE  calls'[k].phase = "write"
  BY <1>1, <1>5 DEF Read, Call
<1>6. CASE Learns(k)
  <2>1. calls'[k].phase # "saved"
    <3>1. CASE ReadScore(k) \/ ReadRank(k) \/ ReadDispatch(k)
      BY <1>5, <3>1 DEF ReadScore, ReadRank, ReadDispatch
    <3>2. CASE ReadCases(k)
      BY <1>1, <3>2 DEF ReadCases, Call
    <3>3. CASE CountCases(k)
      BY <1>1, <3>3 DEF CountCases, Call
    <3> QED
      BY <1>6, <3>1, <3>2, <3>3 DEF Learns
  <2>2. rows' = rows
    BY <1>6 DEF Learns, ReadScore, ReadRank, ReadCases, CountCases, ReadDispatch, Read
  <2> QED
    BY <1>6, <2>1, <2>2 DEF StepRow, HasSucceeded
<1>7. CASE Commits(k)
  <2>1. rows' = rows
    BY <1>7, CommitEffect
  <2>2. calls'[k].phase = "saved"
    BY <1>1, <1>7 DEF Commits, Score, Rank, UpdateCases, Dispatch, Commit, Saved, Call
  <2> QED
    BY <1>7, <2>1, <2>2 DEF StepRow, HasSucceeded
<1> QED
  BY <1>4, <1>6, <1>7 DEF StepHandler, Learns, Commits

\* That of every step's row.
LEMMA StepRows ==
    ASSUME BatchInv, NoneRuns, Alone, Next, ~gaveup', NEW m \in DOMAIN rows, ~IsPipeline(m)
    PROVE  StepRow(m)
<1>1. ASSUME calls'[m].phase = calls[m].phase, calls'[m].f = calls[m].f, calls'[m].work = calls[m].work,
             HasSucceeded(m)' => HasSucceeded(m)
      PROVE  StepRow(m)
  BY <1>1 DEF StepRow, Unmoved
<1>2. ASSUME NEW n, NEW job, NEW run, NEW p, NEW old, AddsRow(n, job, run, p, old)
      PROVE  StepRow(m)
  BY <1>1, <1>2 DEF AddsRow, HasSucceeded
<1>3. ASSUME NEW k \in DOMAIN rows, Tells(k)
      PROVE  StepRow(m)
  BY <1>1, <1>3 DEF Tells, HasSucceeded
<1>4. ASSUME Dies PROVE StepRow(m)
  BY <1>4 DEF Dies, StepRow, HasSucceeded
<1>5. ASSUME NEW k \in DOMAIN rows, Moves(k), m # k
      PROVE  StepRow(m)
  BY <1>1, <1>5 DEF Moves, HasSucceeded
<1>6. ASSUME NEW n, NEW k \in DOMAIN rows, Repeats(n, k) \/ Starts(n, k) \/ Resumes(n, k)
      PROVE  StepRow(m)
  BY <1>2, <1>6 DEF Repeats, Starts, Resumes
<1>7. ASSUME NEW job \in Triggered, Trigger(job) PROVE StepRow(m)
  <2>1. PICK n : Triggers(n)
    BY <1>7, TriggerTurn
  <2> QED
    BY <1>2, <2>1 DEF Triggers
<1>8. ASSUME NEW k \in DOMAIN rows, CheckOverlap(k) \/ PipelineEnds(k) \/ StepHandler(k) \/ HandlerFails(k)
      PROVE  StepRow(m)
  <2>1. Moves(k)
    BY <1>8, HandlerTurn
  <2>2. CASE m = k
    <3>1. StepHandler(k) \/ HandlerFails(k)
      BY <1>8, <2>2 DEF CheckOverlap, PipelineEnds
    <3> QED
      BY <2>2, <3>1, ActorRow
  <2> QED
    BY <1>5, <2>1, <2>2
<1>9. ASSUME NEW k \in DOMAIN rows, StartStep(k) PROVE StepRow(m)
  <2>1. m # k
    BY <1>9 DEF StartStep
  <2> QED
    BY <1>5, <1>6, <1>9, <2>1, StartStepTurn
<1>10. ASSUME NEW k \in DOMAIN rows, Answer(k) \/ ResumeNext(k) PROVE StepRow(m)
  BY <1>3, <1>4, <1>6, <1>10, AnswerTurn, ResumeTurn
<1>11. CASE CloseCase \/ Ready
  BY <1>1, <1>11 DEF CloseCase, Ready, HasSucceeded
<1>12. CASE Crash
  BY <1>4, <1>12, DieTurn DEF Crash
<1>13. CASE Restart
  <2>1. rows \in Seq(JobRun) /\ INTERRUPTED \in RunStates /\ INTERRUPTED # SUCCEEDED
    BY DEF BatchInv, Order, LedgerOK, RunStates, TerminalStates, INTERRUPTED, SUCCEEDED
  <2>2. HasSucceeded(m)' => HasSucceeded(m)
    BY <1>13, <2>1, TransitionFacts DEF Restart, HasSucceeded
  <2> QED
    BY <1>1, <1>13, <2>2 DEF Restart
<1>14. ASSUME NEW k \in DOMAIN rows, TimeOut(k) PROVE StepRow(m)
  BY <1>14 DEF TimeOut
<1> QED
  BY <1>7, <1>8, <1>9, <1>10, <1>11, <1>12, <1>13, <1>14 DEF Next

\* No row is lost, and none changes its job or its run.
RowsStay ==
    \A m \in DOMAIN rows : m \in DOMAIN rows' /\ rows'[m].job = rows[m].job /\ rows'[m].run = rows[m].run

\* Every case is there as it was, or closed now.
Closable(c, d) ==
    /\ d.borrower = c.borrower /\ d.seq = c.seq /\ d.f = c.f
    /\ d = c \/ (c.closed = 0 /\ d.closed = Len(rows))

\* The tables of a run are kept by a step that adds nothing to them.
LEMMA KeptFrom ==
    ASSUME BatchInv, RowsStay, NEW run, ForecastsOf(run)' = ForecastsOf(run), missed \subseteq missed',
           \A f \in ForecastsOf(run) : QueueOf(f)' = QueueOf(f),
           \A c \in cases : \E d \in cases' : Closable(c, d),
           \A d \in cases' : d.f \in ForecastsOf(run) => \E c \in cases : Closable(c, d),
           notes \subseteq notes'
    PROVE  TablesKept(run)
<1>1. DOMAIN rows = 1..Len(rows) /\ Len(rows) \in Nat
  BY LedgerShape DEF BatchInv, Order
<1>2. ASSUME NEW f \in ForecastsOf(run), NEW c \in Unnotified(f)'
      PROVE  \E d \in Unnotified(f) : Ref(d) = Ref(c)
  <2>1. c \in cases' /\ c.f = f /\ \A n \in notes' : n.case # Ref(c)
    BY <1>2 DEF Unnotified, Opened
  <2>2. PICK d \in cases : Closable(d, c)
    BY <1>2, <2>1
  <2>3. d.f = f /\ Ref(d) = Ref(c)
    BY <2>1, <2>2 DEF Closable, Ref
  <2>4. d \in Unnotified(f)
    BY <2>1, <2>2, <2>3 DEF Unnotified, Opened
  <2> QED
    BY <2>3, <2>4
<1>3. ASSUME NEW f, NEW b, NEW u \in DOMAIN rows, Covered(b, f, u)
      PROVE  Covered(b, f, u)'
  <2>1. PICK c \in cases : c.borrower = b /\ (c.f = f \/ c.closed = 0 \/ u <= c.closed)
    BY <1>3 DEF Covered, CasesOf
  <2>2. PICK d \in cases' : Closable(c, d)
    OBVIOUS
  <2>3. d.borrower = b /\ (d.f = f \/ d.closed = 0 \/ u <= d.closed)
    BY <1>1, <2>1, <2>2 DEF Closable
  <2> QED
    BY <2>3 DEF Covered, CasesOf
<1> QED
  BY <1>2, <1>3 DEF TablesKept

\* Nothing is written.
LEMMA IdleKept ==
    ASSUME BatchInv, Next, RowsStay, UNCHANGED store, NEW run
    PROVE  TablesKept(run)
<1>1. forecasts \subseteq DOMAIN rows /\ UNCHANGED <<forecasts, queue, cases, notes>>
  BY DEF BatchInv, StoreOK, store
<1>2. ForecastsOf(run)' = ForecastsOf(run)
  BY <1>1 DEF ForecastsOf, RowsStay
<1>3. \A f : QueueOf(f)' = QueueOf(f)
  BY <1>1 DEF QueueOf
<1>4. \A c \in cases : Closable(c, c)
  BY DEF Closable
<1> QED
  BY <1>1, <1>2, <1>3, <1>4, KeptFrom, MissedGrows

\* A user closes a case, which keeps its reference.
LEMMA CloseKept ==
    ASSUME BatchInv, Next, CloseCase, NEW run
    PROVE  TablesKept(run)
<1>1. PICK c \in cases : c.closed = 0 /\ cases' = (cases \ {c}) \union {[c EXCEPT !.closed = Len(rows)]}
  BY DEF CloseCase
<1> DEFINE d == [c EXCEPT !.closed = Len(rows)]
<1>2. UNCHANGED <<rows, forecasts, queue, notes>>
  BY DEF CloseCase
<1>3. c \in [borrower : Borrowers, seq : Nat \ {0}, f : forecasts, closed : Nat]
  BY <1>1 DEF BatchInv, StoreOK
<1>4. d.borrower = c.borrower /\ d.seq = c.seq /\ d.f = c.f /\ d.closed = Len(rows)
  BY <1>3
<1>5. cases' = (cases \ {c}) \union {d}
  BY <1>1
<1> HIDE DEF d
<1>6. Closable(c, d) /\ \A e : Closable(e, e)
  BY <1>1, <1>4 DEF Closable
<1>7. ForecastsOf(run)' = ForecastsOf(run) /\ \A f : QueueOf(f)' = QueueOf(f)
  BY <1>2 DEF ForecastsOf, QueueOf
<1>8. RowsStay
  BY <1>2 DEF RowsStay
<1>9. \A e \in cases : \E x \in cases' : Closable(e, x)
  BY <1>5, <1>6
<1>10. \A x \in cases' : \E e \in cases : Closable(e, x)
  BY <1>5, <1>6
<1> QED
  BY <1>2, <1>7, <1>8, <1>9, <1>10, KeptFrom, MissedGrows

\* A commit is the work of a step that is waited for, and moves its thread alone.
LEMMA CommitShape ==
    ASSUME BatchInv, NoneRuns, Alone, Attended, Claims, NEW w \in DOMAIN rows, Commits(w)
    PROVE  /\ rows' = rows /\ proc' = proc /\ todo' = todo /\ proc # "down"
           /\ Live(w) /\ calls[w].awaited /\ ~IsPipeline(w) /\ ~HasSucceeded(w)
           /\ calls[w].phase = "write" /\ calls'[w].phase = "saved"
           /\ \A m \in DOMAIN rows : /\ calls'[m].awaited = calls[m].awaited
                                     /\ calls'[m].step = calls[m].step
                                     /\ m # w => calls'[m] = calls[m]
           /\ ReadsAll(w, rows[w].run)
<1>1. /\ DOMAIN calls = DOMAIN rows /\ \A m \in DOMAIN rows : calls[m] \in Call /\ rows[m] \in JobRun
      /\ Over(calls[w]) \in Call
      /\ Over(calls[w]).awaited = calls[w].awaited /\ Over(calls[w]).step = calls[w].step
  BY LedgerShape, OverCall DEF BatchInv, Order
<1>2. /\ rows' = rows /\ proc' = proc /\ todo' = todo /\ calls[w].phase = "write"
      /\ calls' = [calls EXCEPT ![w] = [Over(@) EXCEPT !.phase = "saved"]]
      /\ rows[w].job \in {"score", "rank", "update_cases", "dispatch"}
  BY DEF Commits, Score, Rank, UpdateCases, Dispatch, Commit, Saved, At
<1>3. /\ calls'[w] = [Over(calls[w]) EXCEPT !.phase = "saved"]
      /\ \A m \in DOMAIN rows : m # w => calls'[m] = calls[m]
  BY <1>1, <1>2
<1>4. /\ calls'[w].phase = "saved" /\ calls'[w].awaited = calls[w].awaited
      /\ calls'[w].step = calls[w].step
  BY <1>1, <1>3 DEF Call
<1>5. Live(w) /\ ~IsPipeline(w)
  BY <1>2 DEF Live, IsPipeline, PIPELINE
<1>6. calls[w].awaited /\ rows[w].state = RUNNING /\ proc # "down"
  BY <1>5 DEF Attended, Alone, NoneRuns
<1>7. ReadsAll(w, rows[w].run)
  BY <1>1, <1>5, <1>6 DEF Claims, JobRun
<1> QED
  BY <1>2, <1>3, <1>4, <1>5, <1>6, <1>7 DEF HasSucceeded, RUNNING, SUCCEEDED

\* It writes to the tables of its own run, and a dispatch to none that its run counts.
LEMMA CommitKept ==
    ASSUME BatchInv, Next, NEW w \in DOMAIN rows, ReadsAll(w, rows[w].run), Commits(w), NEW run,
           run # rows[w].run \/ rows[w].job = "dispatch"
    PROVE  TablesKept(run)
<1>1. rows' = rows /\ RowsStay
  BY CommitEffect DEF RowsStay
<1>2. \A c : Closable(c, c)
  BY DEF Closable
<1>3. UNCHANGED queue => \A f : QueueOf(f)' = QueueOf(f)
  BY DEF QueueOf
<1>4. UNCHANGED forecasts => ForecastsOf(run)' = ForecastsOf(run)
  BY <1>1 DEF ForecastsOf
<1>5. missed \subseteq missed'
  BY MissedGrows
<1>6. CASE Score(w)
  <2>1. UNCHANGED <<queue, cases, notes>> /\ forecasts' \subseteq forecasts \union {w} /\ forecasts \subseteq forecasts'
    BY <1>6 DEF Score
  <2>2. run # rows[w].run
    BY <1>6 DEF Score, At
  <2>3. ForecastsOf(run)' = ForecastsOf(run)
    BY <1>1, <2>1, <2>2 DEF ForecastsOf
  <2> QED
    BY <1>1, <1>2, <1>3, <1>5, <2>1, <2>3, KeptFrom
<1>7. CASE Rank(w)
  <2>1. UNCHANGED <<forecasts, cases, notes>> /\ At(w, "rank", "write")
    BY <1>7 DEF Rank
  <2>2. run # rows[w].run
    BY <2>1 DEF At
  <2>3. \A f \in ForecastsOf(run) : calls[w].f # 0 => f # calls[w].f
    BY <2>1, <2>2 DEF ReadsAll, ForecastsOf
  <2>4. \A f \in ForecastsOf(run) : QueueOf(f)' = QueueOf(f)
    <3>1. CASE calls[w].f = 0
      BY <1>3, <1>7, <3>1 DEF Rank
    <3>2. CASE calls[w].f # 0
      <4>1. PICK act : queue' = queue \union {[f |-> calls[w].f, by |-> w, act |-> act]}
        BY <1>7, <3>2 DEF Rank
      <4>2. \A e \in queue' : e \in queue \/ e.f = calls[w].f
        BY <4>1
      <4> QED
        BY <2>3, <3>2, <4>1, <4>2 DEF QueueOf
    <3> QED
      BY <3>1, <3>2
  <2> QED
    BY <1>1, <1>2, <1>4, <1>5, <2>1, <2>4, KeptFrom
<1>8. CASE UpdateCases(w)
  <2>1. PICK opened \in SUBSET Unused(w) :
          /\ UNCHANGED <<forecasts, queue, notes>> /\ At(w, "update_cases", "write")
          /\ Open(w, opened)
    BY <1>8 DEF UpdateCases
  <2>2. run # rows[w].run
    BY <2>1 DEF At
  <2>3. opened # {} => calls[w].f \in ForecastsOf(rows[w].run)
    BY <2>1 DEF ReadsAll, Unused
  <2>4. cases \subseteq cases' /\ \A d \in cases' : d \in cases \/ (opened # {} /\ d.f = calls[w].f)
    BY <2>1 DEF Open
  <2>5. \A d \in cases' : d.f \in ForecastsOf(run) => d \in cases
    BY <2>2, <2>3, <2>4 DEF ForecastsOf
  <2> QED
    BY <1>1, <1>2, <1>3, <1>4, <1>5, <2>1, <2>4, <2>5, KeptFrom
<1>9. CASE Dispatch(w)
  <2>1. UNCHANGED <<forecasts, queue, cases>> /\ notes \subseteq notes'
    BY <1>9 DEF Dispatch
  <2> QED
    BY <1>1, <1>2, <1>3, <1>4, <1>5, <2>1, KeptFrom
<1> QED
  BY <1>6, <1>7, <1>8, <1>9 DEF Commits

\* What a thread reads covers its run.
LEMMA LearnsAll ==
    ASSUME BatchInv, OneForecastRun, NEW k \in DOMAIN rows, NEW run, rows[k].run = run,
           ReadsAll(k, run), Learns(k), missed \subseteq missed'
    PROVE  ReadsAll(k, run)'
<1>1. /\ DOMAIN calls = DOMAIN rows /\ calls[k] \in Call /\ rows' = rows
      /\ UNCHANGED <<forecasts, queue, cases, notes>>
      /\ forecasts \subseteq Nat \ {0} /\ queue \subseteq Batch
  <2>1. UNCHANGED <<rows, store>>
    <3>1. CASE ReadDispatch(k)
      BY <3>1 DEF ReadDispatch, Read
    <3>2. CASE ~ReadDispatch(k)
      BY <3>2 DEF Learns, ReadScore, ReadRank, ReadCases, CountCases, Read
    <3> QED
      BY <3>1, <3>2
  <2> QED
    BY <2>1, LedgerShape DEF BatchInv, Order, StoreOK, store
<1>2. /\ ForecastsOf(run)' = ForecastsOf(run)
      /\ \A f : QueueOf(f)' = QueueOf(f) /\ Acted(f)' = Acted(f) /\ Unnotified(f)' = Unnotified(f)
  BY <1>1 DEF ForecastsOf, QueueOf, Acted, Unnotified, Opened
<1>3. \A b, f : Served(b, f, k) => Served(b, f, k)'
  BY <1>1 DEF Served, Covered, CasesOf, Reported
<1>4. ASSUME NEW f, NEW work, Read(k, f, work)
      PROVE  calls'[k].phase = "write" /\ calls'[k].f = f /\ calls'[k].work = work
  BY <1>1, <1>4 DEF Read, Call
<1>5. ASSUME NEW f \in Existing(run)
      PROVE  /\ f # 0 => f \in ForecastsOf(run)
             /\ ForecastsOf(run) \subseteq {f}
  BY <1>1, <1>5 DEF Existing, ForecastsOf, OneForecastRun
<1>6. CASE ReadScore(k)
  <2>1. rows'[k].job = "score"
    BY <1>1, <1>6 DEF ReadScore, At
  <2> QED
    BY <2>1 DEF ReadsAll, At
<1>7. CASE ReadRank(k)
  <2>1. PICK f \in Existing(run) : Read(k, IF \E e \in queue : e.f = f THEN 0 ELSE f, {})
    BY <1>7 DEF ReadRank
  <2>2. rows'[k].job = "rank"
    BY <1>1, <1>7 DEF ReadRank, At
  <2>3. calls'[k].f # 0 => calls'[k].f \in ForecastsOf(run)
    BY <1>4, <1>5, <2>1
  <2>4. \A g \in ForecastsOf(run) : calls'[k].f = g \/ QueueOf(g) # {}
    BY <1>4, <1>5, <2>1 DEF QueueOf
  <2> QED
    BY <1>2, <2>2, <2>3, <2>4 DEF ReadsAll, At
<1>8. CASE ReadCases(k)
  <2>1. PICK f \in Existing(run) :
          calls' = [calls EXCEPT ![k].phase = "count", ![k].f = f,
                      ![k].work = {b \in UNION {e.act : e \in {q \in queue : q.f = f}} : OpenCases(b) = {}}]
    BY <1>8 DEF ReadCases
  <2>2. /\ calls'[k].phase = "count" /\ calls'[k].f = f
        /\ calls'[k].work = {b \in Acted(f) : OpenCases(b) = {}}
    BY <1>1, <2>1 DEF Call, Acted, QueueOf
  <2>3. rows'[k].job = "update_cases"
    BY <1>1, <1>8 DEF ReadCases, At
  <2>4. ASSUME calls'[k].work # {} PROVE f # 0
    <3>1. PICK e \in queue : e.f = f
      BY <2>2, <2>4 DEF Acted, QueueOf
    <3> QED
      BY <1>1, <3>1 DEF Batch
  <2>5. ASSUME NEW g \in ForecastsOf(run), NEW b \in Acted(g), b \notin calls'[k].work
        PROVE  Served(b, g, k)'
    <3>1. OpenCases(b) # {}
      BY <1>5, <2>2, <2>5
    <3>2. Served(b, g, k)
      BY <3>1 DEF Served, Covered, CasesOf, OpenCases
    <3> QED
      BY <1>3, <3>2
  <2> QED
    BY <1>2, <1>5, <2>2, <2>3, <2>4, <2>5 DEF ReadsAll, At
<1>9. CASE CountCases(k)
  <2>1. /\ calls'[k].phase = "write" /\ calls'[k].f = calls[k].f /\ calls'[k].work = calls[k].work
        /\ At(k, "update_cases", "count")
    BY <1>1, <1>9 DEF CountCases, Call
  <2>2. rows'[k].job = "update_cases"
    BY <1>1, <2>1 DEF At
  <2> QED
    BY <1>2, <1>3, <2>1, <2>2 DEF ReadsAll, At
<1>10. CASE ReadDispatch(k)
  <2>1. PICK f \in Existing(run) :
          \E unassigned \in SUBSET Refs(Unnotified(f)) :
             /\ Read(k, f, Refs(Unnotified(f)) \ unassigned)
             /\ Report(k, unassigned, unassigned)
    BY <1>10 DEF ReadDispatch
  <2>2. PICK unassigned \in SUBSET Refs(Unnotified(f)) :
             /\ Read(k, f, Refs(Unnotified(f)) \ unassigned)
             /\ Report(k, unassigned, unassigned)
    BY <2>1
  <2>3. rows'[k].job = "dispatch"
    BY <1>1, <1>10 DEF ReadDispatch, At
  <2>4. \A i \in unassigned : Reported(k, i)'
    BY <2>2 DEF Report, Reported
  <2>5. \A g \in ForecastsOf(run) : \A c \in Unnotified(g) : Ref(c) \in calls'[k].work \/ Reported(k, Ref(c))'
    BY <1>4, <1>5, <2>2, <2>4 DEF Refs
  <2> QED
    BY <1>2, <2>3, <2>5, <1>4, <2>2 DEF ReadsAll, At
<1> QED
  BY <1>6, <1>7, <1>8, <1>9, <1>10 DEF Learns

\* A commit completes what it is for, or reports what it has missed.
LEMMA CommitDone ==
    ASSUME BatchInv, NEW w \in DOMAIN rows, NEW run, run = rows[w].run, ReadsAll(w, run), Commits(w)
    PROVE  HasDone(w, run)'
<1>1. rows' = rows /\ forecasts \subseteq Nat \ {0}
  BY CommitEffect, LedgerShape DEF BatchInv, StoreOK, Order
<1>2. UNCHANGED forecasts => ForecastsOf(run)' = ForecastsOf(run)
  BY <1>1 DEF ForecastsOf
<1>3. CASE Score(w)
  <2>1. rows'[w].job = "score"
    BY <1>1, <1>3 DEF Score, At
  <2> QED
    BY <2>1 DEF HasDone
<1>4. CASE Rank(w)
  <2>1. UNCHANGED forecasts /\ At(w, "rank", "write")
    BY <1>4 DEF Rank
  <2>2. ASSUME NEW g \in ForecastsOf(run) PROVE QueueOf(g)' # {}
    <3>1. CASE QueueOf(g) # {}
      <4>1. queue \subseteq queue'
        BY <1>4 DEF Rank
      <4> QED
        BY <3>1, <4>1 DEF QueueOf
    <3>2. CASE calls[w].f = g
      <4>1. g # 0
        BY <1>1, <2>2 DEF ForecastsOf
      <4>2. PICK act : queue' = queue \union {[f |-> g, by |-> w, act |-> act]}
        BY <1>4, <3>2, <4>1 DEF Rank
      <4> DEFINE e == [f |-> g, by |-> w, act |-> act]
      <4>3. e \in queue' /\ e.f = g
        BY <4>2
      <4> HIDE DEF e
      <4> QED
        BY <4>3 DEF QueueOf
    <3>3. calls[w].f = g \/ QueueOf(g) # {}
      BY <2>1, <2>2 DEF ReadsAll
    <3> QED
      BY <3>1, <3>2, <3>3
  <2>3. AllQueued(run)'
    BY <1>2, <2>1, <2>2 DEF AllQueued
  <2>4. rows'[w].job = "rank"
    BY <1>1, <2>1 DEF At
  <2> QED
    BY <2>3, <2>4 DEF HasDone
<1>5. CASE UpdateCases(w)
  <2>1. PICK opened \in SUBSET Unused(w) :
          /\ UNCHANGED <<forecasts, queue>> /\ At(w, "update_cases", "write")
          /\ Open(w, opened) /\ Report(w, calls[w].work \ opened, Unused(w) \ opened)
    BY <1>5 DEF UpdateCases
  <2>2. cases \subseteq cases' /\ missed \subseteq missed'
    BY <2>1 DEF Open, Report
  <2>3. ASSUME NEW f \in ForecastsOf(run), NEW b \in Acted(f) PROVE Served(b, f, w)'
    <3>1. (b \in calls[w].work \/ Served(b, f, w)) /\ calls[w].f = f
      BY <2>1, <2>3 DEF ReadsAll
    <3>2. CASE b \in opened
      <4> DEFINE c == [borrower |-> b, seq |-> calls[w].seq[b], f |-> calls[w].f, closed |-> 0]
      <4>1. c \in cases' /\ c.borrower = b /\ c.f = f
        BY <2>1, <3>1, <3>2 DEF Open
      <4> HIDE DEF c
      <4> QED
        BY <4>1 DEF Served, Covered, CasesOf
    <3>3. CASE b \in calls[w].work \ opened
      BY <2>1, <3>3 DEF Served, Report, Reported
    <3>4. CASE Served(b, f, w)
      BY <2>2, <3>4 DEF Served, Covered, CasesOf, Reported
    <3> QED
      BY <3>1, <3>2, <3>3, <3>4
  <2>4. \A f : Acted(f)' = Acted(f)
    BY <2>1 DEF Acted, QueueOf
  <2>5. AllServed(run, w)'
    BY <1>2, <2>1, <2>3, <2>4 DEF AllServed
  <2>6. rows[w].job = "update_cases"
    BY <2>1 DEF At
  <2> QED
    BY <1>1, <2>5, <2>6 DEF HasDone
<1>6. CASE Dispatch(w)
  <2>1. PICK sent \in SUBSET calls[w].work :
          /\ UNCHANGED <<forecasts, cases>> /\ At(w, "dispatch", "write")
          /\ notes' = notes \union {[case |-> c, by |-> w] : c \in sent}
          /\ Report(w, calls[w].work \ sent, calls[w].work \ sent)
    BY <1>6 DEF Dispatch
  <2>2. ASSUME NEW f \in ForecastsOf(run), NEW c \in Unnotified(f)' PROVE Reported(w, Ref(c))'
    <3>1. c \in cases /\ c.f = f /\ \A n \in notes' : n.case # Ref(c)
      BY <2>1, <2>2 DEF Unnotified, Opened
    <3>2. c \in Unnotified(f)
      BY <2>1, <3>1 DEF Unnotified, Opened
    <3>3. Ref(c) \in calls[w].work \/ Reported(w, Ref(c))
      BY <2>1, <3>2 DEF ReadsAll
    <3>4. Ref(c) \notin sent
      <4> SUFFICES ASSUME Ref(c) \in sent PROVE FALSE
        OBVIOUS
      <4> DEFINE n == [case |-> Ref(c), by |-> w]
      <4>1. n \in notes' /\ n.case = Ref(c)
        BY <2>1
      <4> HIDE DEF n
      <4> QED
        BY <3>1, <4>1
    <3> QED
      BY <2>1, <3>3, <3>4 DEF Report, Reported
  <2>3. AllTold(run, w)'
    BY <1>2, <2>1, <2>2 DEF AllTold
  <2>4. rows[w].job = "dispatch"
    BY <2>1 DEF At
  <2> QED
    BY <1>1, <2>3, <2>4 DEF HasDone
<1> QED
  BY <1>3, <1>4, <1>5, <1>6 DEF Commits

\* The tables of a run are kept as long as nobody commits to it but a dispatch.
LEMMA QuietKept ==
    ASSUME BatchInv, NoneRuns, Alone, Attended, Claims, Next, RowsStay, NEW run,
           \A w \in DOMAIN rows : Commits(w) => rows[w].run # run \/ rows[w].job = "dispatch"
    PROVE  TablesKept(run)
<1>1. ASSUME NEW w \in DOMAIN rows, Commits(w) PROVE TablesKept(run)
  BY <1>1, CommitShape, CommitKept
<1> QED
  BY <1>1, WhoWrites, IdleKept, CloseKept

\* A row that is added has counted nothing, read nothing and done nothing.
LEMMA AddedRows ==
    ASSUME Turn, NEW n \in DOMAIN rows', n \notin DOMAIN rows
    PROVE  /\ calls'[n].step = 0 /\ calls'[n].phase \in {"check", "read"}
           /\ rows'[n].state = RUNNING
<1>1. \E m, job, run, p, old : AddsRow(m, job, run, p, old)
  BY DEF Turn, Moves, Tells, Triggers, Repeats, Starts, Resumes, Dies, Restarts, Rests
<1> QED
  BY <1>1 DEF AddsRow

\* No turn loses a row.
LEMMA TurnStays ==
    ASSUME Turn
    PROVE  RowsStay /\ \A m \in DOMAIN rows : OldStays(m)
<1>1. \A m \in DOMAIN rows : OldStays(m)
  BY DEF Turn, Moves, Tells, Triggers, Repeats, Starts, Resumes, AddsRow, Dies, Restarts, Rests
<1> QED
  BY <1>1 DEF RowsStay, OldStays


\* What a waited-for step has read and done is so after every step.
LEMMA StepClaims ==
    ASSUME BatchInv, NoneRuns, Alone, OneForecastRun, LeftInv, Claims,
           Next, ~gaveup', Turn, NEW k \in DOMAIN rows, NEW run \in Nat, rows[k].run = run,
           ~IsPipeline(k), calls'[k].awaited
    PROVE  ReadsAll(k, run)' /\ HasDone(k, run)'
<1>1. /\ RowsStay /\ OldStays(k) /\ calls[k].awaited /\ rows'[k].job = rows[k].job /\ Attended /\ InTree
  BY TurnStays DEF OldStays, LeftInv
<1>2. ReadsAll(k, run) /\ HasDone(k, run)
  BY <1>1 DEF Claims
<1>3. CASE Commits(k)
  <2>1. calls'[k].phase = "saved"
    BY <1>1, <1>3, CommitShape
  <2>2. ReadsAll(k, run)'
    BY <2>1 DEF ReadsAll, At
  <2> QED
    BY <1>2, <1>3, <2>2, CommitDone
<1>4. CASE ~Commits(k)
  <2>1. ASSUME NEW w \in DOMAIN rows, Commits(w) PROVE rows[w].run # run
    <3>1. calls[w].awaited /\ ~IsPipeline(w) /\ w # k
      BY <1>1, <1>4, <2>1, CommitShape
    <3> QED
      BY <1>1, <3>1, TwoWaited DEF SameRun
  <2>2. TablesKept(run)
    BY <1>1, <2>1, QuietKept
  <2>3. StepRow(k)
    BY StepRows
  <2>4. HasDone(k, run)'
    <3>1. Committed(k)' => Committed(k) \/ rows[k].job \in {"ingest", "test", "score"}
      BY <1>4, <2>3 DEF StepRow, Committed
    <3>2. /\ AllQueued(run) => AllQueued(run)'
          /\ AllServed(run, k) => AllServed(run, k)'
          /\ AllTold(run, k) => AllTold(run, k)'
      BY <2>2, KeptAll
    <3> QED
      BY <1>1, <1>2, <3>1, <3>2 DEF HasDone
  <2>5. ReadsAll(k, run)'
    <3>1. CASE Learns(k)
      BY <1>2, <3>1, LearnsAll, MissedGrows
    <3>2. CASE calls'[k].phase \notin {"count", "write"}
      BY <3>2 DEF ReadsAll, At
    <3>3. CASE Unmoved(k)
      BY <1>1, <1>2, <2>2, <3>3, KeptReads
    <3> QED
      BY <2>3, <3>1, <3>2, <3>3 DEF StepRow
  <2> QED
    BY <2>4, <2>5
<1> QED
  BY <1>3, <1>4

\* So is what a pipeline has counted.
LEMMA BatchClaims ==
    ASSUME BatchInv, NoneRuns, Alone, LeftInv, Claims, Next, Turn,
           NEW k \in DOMAIN rows, NEW run \in Nat, rows[k].run = run, IsPipeline(k),
           calls'[k].phase # "done"
    PROVE  CountsDone(k, run)'
<1>1. /\ RowsStay /\ OldStays(k) /\ Live(k) /\ calls[k].awaited /\ proc # "down" /\ k # 0
      /\ Attended /\ InTree /\ calls[k].step \in Nat
  BY TurnStays, LedgerShape DEF OldStays, LeftInv, Attended, NoneRuns, BatchInv, Order
<1>2. ASSUME TablesKept(run)
      PROVE  /\ AllQueued(run) => AllQueued(run)'
             /\ SomeServed(run) => SomeServed(run)'
             /\ SomeTold(run) => SomeTold(run)'
  BY <1>2, TurnStays, KeptAll, KeptSome
<1>3. CountsDone(k, run)
  BY <1>1 DEF Claims
<1>4. ASSUME NEW w \in DOMAIN rows, Commits(w), rows[w].run = run
      PROVE  calls[k].step + 1 \in Steps /\ rows[w].job = PIPELINE_STEPS[calls[k].step + 1]
  <2>1. calls[w].awaited /\ ~IsPipeline(w)
    BY <1>1, <1>4, CommitShape
  <2>2. calls[w].parent = k
    BY <1>1, <1>4, <2>1, TwoWaited DEF SameRun
  <2> QED
    BY <1>1, <2>1, <2>2, Parents
<1>5. \/ calls'[k].step = calls[k].step
      \/ \E j \in DOMAIN rows : /\ Tells(j) /\ HasSucceeded(j) /\ calls[j].parent = k
                                /\ calls'[k].step = calls[k].step + 1
  BY <1>1 DEF Turn, Moves, Tells, Triggers, Repeats, Starts, Resumes, AddsRow, Dies, Restarts, Rests
<1>6. CASE calls'[k].step = calls[k].step
  <2>1. CASE \A w \in DOMAIN rows : Commits(w) => rows[w].run # run \/ rows[w].job = "dispatch"
    <3>1. TablesKept(run)
      BY <1>1, <2>1, QuietKept
    <3> QED
      BY <1>2, <1>3, <1>6, <3>1 DEF CountsDone
  <2>2. ASSUME NEW w \in DOMAIN rows, Commits(w), rows[w].run = run, rows[w].job # "dispatch"
        PROVE  CountsDone(k, run)'
    <3>1. calls[k].step + 1 \in Steps /\ rows[w].job = PIPELINE_STEPS[calls[k].step + 1]
      BY <1>4, <2>2
    <3>2. rows[w].job \in {"score", "rank", "update_cases"}
      BY <2>2, CommitEffect DEF At
    <3>3. /\ PIPELINE_STEPS[5] = "update_cases" /\ PIPELINE_STEPS[6] = "dispatch"
          /\ Steps = 1..6
      BY StepsDistinct DEF PIPELINE_STEPS
    <3>4. calls[k].step + 1 # 6
      BY <2>2, <3>1, <3>3
    <3>5. calls[k].step <= 4 /\ (calls[k].step >= 4 => calls[k].step + 1 = 5)
      BY <1>1, <3>1, <3>3, <3>4
    <3>6. ASSUME calls[k].step >= 4 PROVE AllQueued(run)'
      <4>1. rows[w].job = "update_cases"
        BY <3>1, <3>3, <3>5, <3>6
      <4>2. UNCHANGED <<forecasts, queue, rows>>
        BY <2>2, <4>1, CommitEffect DEF At
      <4>3. ForecastsOf(run)' = ForecastsOf(run) /\ \A f : QueueOf(f)' = QueueOf(f)
        BY <4>2 DEF ForecastsOf, QueueOf
      <4> QED
        BY <1>3, <3>6, <4>3 DEF CountsDone, AllQueued
    <3>7. ~(calls[k].step >= 5) /\ ~(calls[k].step >= 6)
      BY <1>1, <3>5
    <3> QED
      BY <1>6, <3>6, <3>7 DEF CountsDone
  <2> QED
    BY <2>1, <2>2
<1>7. ASSUME NEW j \in DOMAIN rows, Tells(j), HasSucceeded(j), calls[j].parent = k,
             calls'[k].step = calls[k].step + 1
      PROVE  CountsDone(k, run)'
  <2>1. calls[j].awaited /\ ~calls'[j].awaited
    BY <1>7 DEF Tells
  <2>2. /\ calls[k].step + 1 \in Steps /\ rows[j].job = PIPELINE_STEPS[calls[k].step + 1]
        /\ rows[j].run = run /\ ~IsPipeline(j)
    BY <1>1, <1>7, <2>1, Parents DEF SameRun
  <2>3. HasDone(j, run)
    BY <2>1, <2>2 DEF Claims
  <2>4. ASSUME NEW w \in DOMAIN rows, Commits(w) PROVE FALSE
    <3>1. calls[w].phase = "write" /\ calls'[w].phase = "saved" /\ ~IsPipeline(w)
      BY <1>1, <2>4, CommitShape
    <3>2. calls'[w].phase = calls[w].phase
      BY <1>7, <3>1 DEF Tells
    <3> QED
      BY <3>1, <3>2
  <2>5. TablesKept(run)
    BY <1>1, <2>4, QuietKept
  <2>6. PIPELINE_STEPS[4] = "rank" /\ PIPELINE_STEPS[5] = "update_cases" /\ PIPELINE_STEPS[6] = "dispatch"
    BY DEF PIPELINE_STEPS
  <2>7. j \in Achieved(run, rows[j].job)
    BY <1>7, <2>2 DEF Achieved, Attempted, HasSucceeded
  <2>8. /\ rows[j].job = "rank" => AllQueued(run)
        /\ rows[j].job = "update_cases" => SomeServed(run)
        /\ rows[j].job = "dispatch" => SomeTold(run)
    BY <1>7, <2>3, <2>7 DEF HasDone, Committed, SomeServed, SomeTold
  <2> DEFINE s == calls[k].step
  <2>9. /\ s + 1 >= 4 => s + 1 = 4 \/ s >= 4
        /\ s + 1 >= 5 => s + 1 = 5 \/ s >= 5
        /\ s + 1 >= 6 => s + 1 = 6 \/ s >= 6
    BY <1>1
  <2>10. /\ s + 1 = 4 => rows[j].job = "rank"
         /\ s + 1 = 5 => rows[j].job = "update_cases"
         /\ s + 1 = 6 => rows[j].job = "dispatch"
    BY <2>2, <2>6
  <2> HIDE DEF s
  <2>11. /\ s >= 4 => AllQueued(run)
         /\ s >= 5 => SomeServed(run)
         /\ s >= 6 => SomeTold(run)
    BY <1>3 DEF CountsDone, s
  <2>12. calls'[k].step = s + 1
    BY <1>7 DEF s
  <2> QED
    BY <1>2, <2>5, <2>8, <2>9, <2>10, <2>11, <2>12 DEF CountsDone
<1> QED
  BY <1>5, <1>6, <1>7

\* The claims of every row.
LEMMA ClaimsStep ==
    ASSUME BatchInv, NoneRuns, Alone, OneForecastRun, LeftInv, Claims, Next, ~gaveup', Turn
    PROVE  Claims'
<1> SUFFICES ASSUME NEW k \in DOMAIN rows', NEW run \in Nat, rows'[k].run = run
             PROVE  /\ calls'[k].awaited /\ ~IsPipeline(k)' => ReadsAll(k, run)' /\ HasDone(k, run)'
                    /\ calls'[k].phase # "done" /\ IsPipeline(k)' => CountsDone(k, run)'
  BY DEF Claims, Live
<1>1. CASE k \in DOMAIN rows
  <2>1. rows[k].run = run /\ (IsPipeline(k)' <=> IsPipeline(k))
    BY <1>1, TurnStays DEF RowsStay, IsPipeline
  <2> QED
    BY <1>1, <2>1, StepClaims, BatchClaims
<1>2. CASE k \notin DOMAIN rows
  <2>1. calls'[k].step = 0 /\ calls'[k].phase \in {"check", "read"} /\ rows'[k].state = RUNNING
    BY <1>2, AddedRows
  <2>2. ReadsAll(k, run)'
    BY <2>1 DEF ReadsAll, At
  <2>3. HasDone(k, run)'
    BY <2>1 DEF HasDone, Committed, HasSucceeded, RUNNING, SUCCEEDED
  <2>4. CountsDone(k, run)'
    BY <2>1 DEF CountsDone
  <2> QED
    BY <2>2, <2>3, <2>4
<1> QED
  BY <1>1, <1>2
-----------------------------------------------------------------------------
\* The invariant of the batch, of its threads' patience and of what its steps account for.
DeliveredInv == PatienceInv /\ (Patient => LeftInv /\ Claims)

\* It holds in every behaviour.
LEMMA DeliveredInductive == Spec => []DeliveredInv
<1>1. Init => LeftInv /\ Claims
  BY DEF Init, LeftInv, Attended, InTree, Claims
<1>2. PatienceInv /\ PatienceInv' /\ (Patient => LeftInv /\ Claims) /\ [Next]_vars
        => (Patient => LeftInv /\ Claims)'
  <2> SUFFICES ASSUME PatienceInv, PatienceInv', Patient => LeftInv /\ Claims, [Next]_vars, ~gaveup'
               PROVE  LeftInv' /\ Claims'
    BY DEF Patient
  <2>1. CASE Next
    <3>1. BatchInv /\ NoneRuns /\ gaveup \in BOOLEAN
      BY DEF PatienceInv, BatchInv, RestOK
    <3>2. ~gaveup
      BY <2>1, <3>1, NextThreads DEF ThreadStep
    <3>3. LeftInv /\ Claims /\ Alone /\ OneForecastRun
      BY <3>2 DEF Patient, PatienceInv, Once
    <3>4. Turn
      BY <2>1, <3>1, <3>3, NextTurn
    <3> QED
      BY <2>1, <3>1, <3>3, <3>4, LeftStep, ClaimsStep
  <2>2. CASE UNCHANGED vars
    <3>1. /\ LeftInv /\ Claims
          /\ UNCHANGED <<rows, calls, forecasts, queue, cases, notes, proc, missed>>
      BY <2>2 DEF Patient, vars, store, bounds
    <3>2. LeftInv'
      BY <3>1 DEF LeftInv, Attended, InTree, Live, SameRun
    <3>3. /\ \A run : ForecastsOf(run)' = ForecastsOf(run)
          /\ \A run, job : Achieved(run, job)' = Achieved(run, job)
          /\ \A f : QueueOf(f)' = QueueOf(f) /\ Acted(f)' = Acted(f) /\ Unnotified(f)' = Unnotified(f)
          /\ \A b : CasesOf(b)' = CasesOf(b)
      BY <3>1 DEF ForecastsOf, Achieved, Attempted, QueueOf, Acted, Unnotified, Opened, CasesOf
    <3>4. \A b, f, u : Served(b, f, u)' = Served(b, f, u) /\ Reported(u, b)' = Reported(u, b)
      BY <3>1, <3>3 DEF Served, Covered, Reported
    <3>5. ASSUME NEW k, NEW run
          PROVE  /\ ReadsAll(k, run)' = ReadsAll(k, run) /\ HasDone(k, run)' = HasDone(k, run)
                 /\ CountsDone(k, run)' = CountsDone(k, run)
      <4>1. /\ AllQueued(run)' = AllQueued(run)
            /\ \A u : AllServed(run, u)' = AllServed(run, u) /\ AllTold(run, u)' = AllTold(run, u)
        BY <3>3, <3>4 DEF AllQueued, AllServed, AllTold
      <4>2. SomeServed(run)' = SomeServed(run) /\ SomeTold(run)' = SomeTold(run)
        BY <3>3, <4>1 DEF SomeServed, SomeTold
      <4>3. ReadsAll(k, run)' = ReadsAll(k, run)
        BY <3>1, <3>3, <3>4 DEF ReadsAll, At
      <4> QED
        BY <3>1, <4>1, <4>2, <4>3 DEF HasDone, CountsDone, Committed, HasSucceeded
    <3>6. Claims'
      BY <3>1, <3>5 DEF Claims, IsPipeline, Live
    <3> QED
      BY <3>2, <3>6
  <2> QED
    BY <2>1, <2>2
<1> QED
  BY <1>1, <1>2, PatienceInductive, PTL DEF Spec, DeliveredInv

\* A pipeline at the end of its loop has all that its steps account for.
LEMMA ReturnsComplete ==
    ASSUME DeliveredInv, Patient, NEW k \in DOMAIN rows, IsPipeline(k), calls[k].phase = "return"
    PROVE  \E u \in Achieved(rows[k].run, "update_cases") :
               \E d \in Achieved(rows[k].run, "dispatch") : Complete(rows[k].run, u, d)
<1> DEFINE run == rows[k].run
<1>1. Order(rows, calls) /\ Claims
  BY DEF DeliveredInv, PatienceInv, BatchInv
<1>2. rows[k] \in JobRun /\ run \in Nat
  BY <1>1, LedgerShape DEF Order, JobRun
<1>3. calls[k].step = 6
  BY <1>1, StepsDistinct DEF Order, Counted, IsPipeline, PIPELINE_STEPS
<1>4. Live(k)
  BY DEF Live
<1> HIDE DEF run
<1>5. CountsDone(k, run)
  BY <1>1, <1>2, <1>4 DEF Claims, run
<1>6. AllQueued(run) /\ SomeServed(run) /\ SomeTold(run)
  BY <1>3, <1>5 DEF CountsDone
<1>7. PICK u \in Achieved(run, "update_cases") : AllServed(run, u)
  BY <1>6 DEF SomeServed
<1>8. PICK d \in Achieved(run, "dispatch") : AllTold(run, d)
  BY <1>6 DEF SomeTold
<1>9. Complete(run, u, d)
  BY <1>6, <1>7, <1>8 DEF Complete, AllQueued, AllServed, AllTold, Served, QueueOf, Acted
<1> QED
  BY <1>7, <1>8, <1>9 DEF run

\* nightly.py:16, every isolated failure stays visible in that step's own JobRun.metrics:
\* for any borrowers, attempts and mixes of disturbances, as long as every wait is patient,
\* a batch that is recorded a success has a queue for its forecast, and a case for every
\* borrower of the act band and a notice of every case that the queue led to, or else its
\* rows have kept the metrics that name what is missing: no failure, retry, crash or
\* restart between a step's commit and its row loses an entry without a trace.
THEOREM DeliveryComplete == Spec => BatchDelivered
<1>1. DeliveredInv /\ [Next]_vars => [RecordsComplete]_vars
  <2> SUFFICES ASSUME DeliveredInv, Next, Patient, NEW k \in DOMAIN rows, IsPipeline(k),
                      rows[k].state # SUCCEEDED, rows'[k].state = SUCCEEDED
               PROVE  calls[k].phase = "return"
    BY ReturnsComplete DEF RecordsComplete
  <2> QED
    BY NextInv DEF DeliveredInv, PatienceInv, LedgerStep
<1> QED
  BY <1>1, DeliveredInductive, PTL DEF Spec, BatchDelivered
=============================================================================
