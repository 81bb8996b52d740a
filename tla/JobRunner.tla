----------------------------- MODULE JobRunner -----------------------------
(***************************************************************************)
(* scheduler/runner.py: the operating-system processes that run jobs       *)
(* against one job_run ledger.  The server process holds one JobRunner,    *)
(* whose run_now is called by the threads of its pool (a cron tick, an     *)
(* administrator's trigger) and, while it starts, by its main thread       *)
(* (reconcile).  Each `radarctl job run` is a process with a runner of its *)
(* own and one calling thread.  run_now launches a daemon thread for the   *)
(* handler and waits for it with a timeout; nothing stops that thread.     *)
(* The handler of a composite job (the nightly pipeline) is a caller too:  *)
(* it runs its steps by run_now under its own run id, each as attempt 1.   *)
(***************************************************************************)
EXTENDS JobLedger, FiniteSets

CONSTANTS Pool,         \* threads of the server's ThreadPoolExecutor
          Main,         \* the server's main thread, which reconciles
          Clis,         \* `radarctl job run` processes, each its own caller
          Server,       \* the server process
          Slots,        \* bound: how many handlers of a process may be in a run_now
          Composites,   \* jobs whose handler runs other jobs
          Steps,        \* the jobs it runs
          ResumeJobs,   \* jobs whose interruption policy is RESUME
          MaxAttempts,  \* RetryPolicy.max_attempts
          AtomicStart,  \* TRUE: PostgreSQL's advisory lock; FALSE: SQLite
          MaxTriggers,  \* bound: calls of run_now that somebody asks for
          MaxCrashes,   \* bound: processes killed
          MaxFaults     \* bound: ledger writes that raise

ASSUME RunnerAssumption ==
    /\ Main \notin Pool \union Clis /\ Pool \intersect Clis = {}
    /\ Server \notin Clis
    /\ (Pool \union {Main} \union Clis) \intersect (Slots \X ({Server} \union Clis)) = {}
    /\ Jobs # {} /\ ResumeJobs \subseteq Jobs
    /\ Composites \subseteq Jobs /\ Steps \subseteq Jobs \ Composites
    /\ MaxAttempts \in Nat \ {0}
    /\ AtomicStart \in BOOLEAN
    /\ {MaxTriggers, MaxCrashes, MaxFaults} \subseteq Nat

Procs    == {Server} \union Clis
Handlers == Slots \X Procs   \* handler threads of composite jobs, as callers
Callers  == Pool \union {Main} \union Clis \union Handlers

HostOf(c)  == IF c \in Clis THEN c ELSE IF c \in Handlers THEN c[2] ELSE Server
Threads(p) == {c \in Callers : HostOf(c) = p}

VARIABLES
    rows,      \* the job_run table
    workers,   \* the handler thread of each row, parallel to rows
    proc,      \* the life of each process; stopping and stopped are _shutting_down
    pc,        \* where each caller is in run_now
    req,       \* the arguments of each caller's current run_now
    at,        \* the row each caller has started, its run_pk
    todo,      \* reconcile: the interrupted rows still to be run again
    snap,      \* shutdown: the in-flight rows still to be waited for
    triggers, crashes, faults   \* what has been spent of the bounds

vars == <<rows, workers, proc, pc, req, at, todo, snap, triggers, crashes, faults>>
spent == <<triggers, crashes, faults>>

ProcStates == {"down", "starting", "up", "stopping", "stopped"}
HasRow == {"started", "waiting", "expired", "backoff"}
CallerStates == {"idle", "admit", "checked"} \union HasRow

\* unborn: the row is committed and its thread not started; lost: over, with
\* nothing recorded; dead: gone with its process.
WorkerStates == {"unborn", "handling", "done", "lost", "dead"}

\* The arguments of run_now, with what the code leaves to its stack: `by`, the row in
\* whose handler the call is made; `after`, the row that it repeats; and whether that
\* is the runner's own doing.  0 stands for no row.
Call == [job : Jobs, run : Nat, attempt : Nat \ {0},
         by : Nat, after : Nat, own : BOOLEAN]

Worker == [host : Procs, phase : WorkerStates, call : Call]

ShuttingDown(p) == proc[p] \in {"stopping", "stopped"}
Running(i)      == i \in RunningRuns(rows)
Inflight(p)     == {i \in DOMAIN workers : workers[i].host = p /\ workers[i].phase = "handling"}

Fresh(j)  == [job |-> j, run |-> 0, attempt |-> 1, by |-> 0, after |-> 0, own |-> FALSE]
NoRequest == Fresh(CHOOSE j \in Jobs : TRUE)

\* Run job j under the run id of row i, as an attempt of some number.
Under(i, j, n) == [Fresh(j) EXCEPT !.run = rows[i].run, !.attempt = n]

Repeat(i) == [Under(i, rows[i].job, rows[i].attempt + 1) EXCEPT !.after = i]

Init ==
    /\ rows = <<>> /\ workers = <<>>
    /\ proc = [p \in Procs |-> "down"]
    /\ pc = [c \in Callers |-> "idle"]
    /\ req = [c \in Callers |-> NoRequest]
    /\ at = [c \in Callers |-> 0]
    /\ todo = {} /\ snap = {}
    /\ triggers = 0 /\ crashes = 0 /\ faults = 0
-----------------------------------------------------------------------------
\* Callers whose run_now is over, by return, exception or death.
Release(C) ==
    /\ pc'  = [c \in Callers |-> IF c \in C THEN "idle" ELSE pc[c]]
    /\ req' = [c \in Callers |-> IF c \in C THEN NoRequest ELSE req[c]]
    /\ at'  = [c \in Callers |-> IF c \in C THEN 0 ELSE at[c]]

\* The end of a process takes every thread of it along, whatever it was doing.
Die(p) ==
    /\ proc' = [proc EXCEPT ![p] = "down"]
    /\ Release(Threads(p))
    /\ workers' = [i \in DOMAIN workers |->
                     IF workers[i].host = p /\ workers[i].phase \in {"unborn", "handling"}
                       THEN [workers[i] EXCEPT !.phase = "dead"]
                       ELSE workers[i]]
    /\ todo' = IF p = Server THEN {} ELSE todo
    /\ snap' = IF p = Server THEN {} ELSE snap

\* run_now returns, or raises, to whoever called it: the pool takes the future,
\* the command line exits, and reconcile goes on or lets the exception end startup.
Return(c) ==
    IF c \in Clis THEN Die(c) ELSE Release({c}) /\ UNCHANGED <<workers, proc, todo, snap>>

Raise(c) == IF c = Main THEN Die(Server) ELSE Return(c)

Enter(c, r) ==
    /\ req' = [req EXCEPT ![c] = r]
    /\ pc' = [pc EXCEPT ![c] = "admit"]

\* Somebody asks for a call of run_now.
Ask(c, r) ==
    /\ pc[c] = "idle"
    /\ triggers < MaxTriggers /\ triggers' = triggers + 1
    /\ Enter(c, r)
    /\ UNCHANGED <<rows, workers, at, todo, snap, crashes, faults>>

\* A cron tick, or an administrator's trigger, on a pool thread: a run of its own.
Tick(c, j) == proc[Server] = "up" /\ Ask(c, Fresh(j)) /\ UNCHANGED proc

\* An administrator asks for a failed row again, be it the newest of its run or not,
\* and however often it has been repeated.
RetryFailed(c, i) ==
    /\ proc[Server] = "up"
    /\ rows[i].state = FAILED /\ RunningRun(rows, rows[i].job) = {}
    /\ Ask(c, Repeat(i)) /\ UNCHANGED proc

\* `radarctl job run`: a fresh process, a fresh runner, one call of run_now.
Invoke(c, j) ==
    /\ proc[c] = "down" /\ proc' = [proc EXCEPT ![c] = "up"]
    /\ Ask(c, Fresh(j))

\* The handler of a composite job calls run_now for a step, under its own run id and
\* as attempt 1, also when an earlier attempt of it has done so before.
CallStep(c, i, j) ==
    /\ workers[i].phase = "handling" /\ workers[i].host = HostOf(c)
    /\ rows[i].job \in Composites
    /\ ~ShuttingDown(HostOf(c))
    /\ \A d \in Callers : req[d].by # i
    /\ Ask(c, [Under(i, j, 1) EXCEPT !.by = i]) /\ UNCHANGED proc

\* start_or_refuse finds a running row: JobAlreadyRunningError.
Refuse(c) ==
    /\ pc[c] = "admit" /\ RunningRun(rows, req[c].job) # {}
    /\ Raise(c)
    /\ UNCHANGED <<rows, spent>>

LockAroundExecute(c) ==
    \A d \in Callers : (pc[d] = "checked" \/ at[d] # 0) /\ HostOf(d) = HostOf(c)
                         => req[d].job # req[c].job

NoProcessLock(c) == c \in Callers

\* The process lock of _process_lock: one _start at a time per job and process.
LockFree(c) ==
    \A d \in Callers : pc[d] = "checked" /\ HostOf(d) = HostOf(c) => req[d].job # req[c].job

\* On SQLite _acquire_start_lock takes nothing: session.connection() has begun
\* the transaction already, so BEGIN IMMEDIATE is never sent, and the check is
\* a statement apart from the insert.
LookUp(c) ==
    /\ ~AtomicStart
    /\ pc[c] = "admit" /\ LockFree(c) /\ RunningRun(rows, req[c].job) = {}
    /\ pc' = [pc EXCEPT ![c] = "checked"]
    /\ UNCHANGED <<rows, workers, proc, req, at, todo, snap, spent>>

StartUnchecked(c) ==
    /\ IF AtomicStart THEN pc[c] = "admit" ELSE pc[c] = "checked"
    /\ rows' = Inserted(rows, req[c])
    /\ workers' = Append(workers, [host |-> HostOf(c), phase |-> "unborn", call |-> req[c]])
    /\ at' = [at EXCEPT ![c] = Len(rows) + 1]
    /\ pc' = [pc EXCEPT ![c] = "started"]
    /\ UNCHANGED <<proc, req, todo, snap, spent>>

\* _start: under PostgreSQL's advisory lock the check and the insert are one step.
Start(c) ==
    /\ IF AtomicStart THEN pc[c] = "admit" /\ RunningRun(rows, req[c].job) = {}
                      ELSE pc[c] = "checked"
    /\ rows' = Inserted(rows, req[c])
    /\ workers' = Append(workers, [host |-> HostOf(c), phase |-> "unborn", call |-> req[c]])
    /\ at' = [at EXCEPT ![c] = Len(rows) + 1]
    /\ pc' = [pc EXCEPT ![c] = "started"]
    /\ UNCHANGED <<proc, req, todo, snap, spent>>

\* _execute: register the row as in flight and start its thread.
Launch(c) ==
    /\ pc[c] = "started"
    /\ workers' = [workers EXCEPT ![at[c]].phase = "handling"]
    /\ pc' = [pc EXCEPT ![c] = "waiting"]
    /\ UNCHANGED <<rows, proc, req, at, todo, snap, spent>>
-----------------------------------------------------------------------------
\* The handler thread (_work) ends, leaves _inflight and lets its caller go on.
\* What a handler does to the rest of the database, and makes of its steps' outcomes,
\* is NightlyPipeline's subject.
Ends(i, ph) ==
    /\ i \in DOMAIN workers /\ workers[i].phase = "handling"
    /\ \A c \in Callers : req[c].by # i
    /\ workers' = [workers EXCEPT ![i].phase = ph]
    /\ UNCHANGED <<proc, pc, req, at, todo, snap>>

Succeed(i) == Ends(i, "done") /\ rows' = Transition(rows, {i}, SUCCEEDED) /\ UNCHANGED spent

FailUnrecorded(i) == Ends(i, "done") /\ UNCHANGED <<rows, spent>>

Fail(i) == Ends(i, "done") /\ rows' = Transition(rows, {i}, FAILED) /\ UNCHANGED spent

\* A ledger write raises.
Fault == faults < MaxFaults /\ faults' = faults + 1 /\ UNCHANGED <<triggers, crashes>>

\* When _finalize_success raises, _work records a failure in its place, which is
\* Fail; when _finalize_failure raises, it ends with the row still running.
Lose(i) == Ends(i, "lost") /\ Fault /\ UNCHANGED rows
-----------------------------------------------------------------------------
\* run_now's choice once an attempt has an outcome: back off and retry, or return.
Answer(c, outcome) ==
    IF outcome = FAILED /\ req[c].attempt < MaxAttempts
      THEN pc' = [pc EXCEPT ![c] = "backoff"] /\ UNCHANGED <<workers, proc, req, at, todo, snap>>
      ELSE Return(c)

\* done.wait returned in time: read outcome_box, which a lost thread left empty.
Collect(c) ==
    /\ pc[c] = "waiting"
    /\ \/ workers[at[c]].phase = "done" /\ Answer(c, rows[at[c]].state)
       \/ workers[at[c]].phase = "lost" /\ Raise(c)
    /\ UNCHANGED <<rows, spent>>

NeverExpires(c) == FALSE /\ UNCHANGED vars

\* done.wait gave up.  The thread goes on.
Expire(c) ==
    /\ pc[c] = "waiting" /\ workers[at[c]].phase = "handling"
    /\ pc' = [pc EXCEPT ![c] = "expired"]
    /\ UNCHANGED <<rows, workers, proc, req, at, todo, snap, spent>>

TimeOutDeaf(c) ==
    /\ pc[c] = "expired"
    /\ rows' = Transition(rows, {at[c]}, FAILED)
    /\ Answer(c, FAILED)
    /\ UNCHANGED spent

\* _finalize_timeout, in a race with the thread's own answer: the row tells who won.
TimeOut(c) ==
    /\ pc[c] = "expired"
    /\ rows' = Transition(rows, {at[c]}, FAILED)
    /\ Answer(c, rows'[at[c]].state)
    /\ UNCHANGED spent

TimeOutFault(c) ==
    /\ pc[c] = "expired" /\ Fault /\ Raise(c) /\ UNCHANGED rows

RetryRequest(r, i) ==
    [r EXCEPT !.run = rows[i].run, !.attempt = @ + 1, !.after = i, !.own = TRUE]

\* The recursive run_now after the backoff, which looks at _shutting_down first.
Retry(c) ==
    /\ pc[c] = "backoff"
    /\ IF ShuttingDown(HostOf(c))
         THEN Raise(c)
         ELSE Enter(c, RetryRequest(req[c], at[c])) /\ UNCHANGED <<workers, proc, at, todo, snap>>
    /\ UNCHANGED <<rows, spent>>
-----------------------------------------------------------------------------
StartServerWithinBudget ==
    /\ proc[Server] = "down"
    /\ proc' = [proc EXCEPT ![Server] = "starting"]
    /\ todo' = {i \in RunningRuns(rows) : rows[i].attempt < MaxAttempts}
    /\ rows' = Transition(rows, todo', INTERRUPTED)
    /\ UNCHANGED <<workers, pc, req, at, snap, spent>>

StartServerAgain ==
    /\ proc[Server] = "down"
    /\ proc' = [proc EXCEPT ![Server] = "starting"]
    /\ todo' = {i \in DOMAIN rows : rows[i].state \in {RUNNING, INTERRUPTED}}
    /\ rows' = Transition(rows, RunningRuns(rows), INTERRUPTED)
    /\ UNCHANGED <<workers, pc, req, at, snap, spent>>

\* Scheduler.start: reconcile's first transaction interrupts every running row,
\* whichever process it belongs to.
StartServer ==
    /\ proc[Server] = "down"
    /\ proc' = [proc EXCEPT ![Server] = "starting"]
    /\ todo' = RunningRuns(rows)
    /\ rows' = Transition(rows, RunningRuns(rows), INTERRUPTED)
    /\ UNCHANGED <<workers, pc, req, at, snap, spent>>

ResumeSameAttempt(i) ==
    [Fresh(rows[i].job) EXCEPT !.after = i, !.own = TRUE,
         !.run = IF rows[i].job \in ResumeJobs THEN rows[i].run ELSE 0,
         !.attempt = IF rows[i].job \in ResumeJobs THEN rows[i].attempt ELSE 1]

\* RESUME goes on with the logical run, RESTART begins another.
ResumeRequest(i) ==
    IF rows[i].job \in ResumeJobs
      THEN [Repeat(i) EXCEPT !.own = TRUE]
      ELSE [Fresh(rows[i].job) EXCEPT !.after = i, !.own = TRUE]

\* One orphan at a time, to its end: run_now blocks, retries included.
Reconcile ==
    /\ proc[Server] = "starting" /\ pc[Main] = "idle"
    /\ \E i \in todo : Enter(Main, ResumeRequest(i)) /\ todo' = todo \ {i}
    /\ UNCHANGED <<rows, workers, proc, at, snap, spent>>

Ready ==
    /\ proc[Server] = "starting" /\ pc[Main] = "idle" /\ todo = {}
    /\ proc' = [proc EXCEPT ![Server] = "up"]
    /\ UNCHANGED <<rows, workers, pc, req, at, todo, snap, spent>>

\* shutdown: raise the flag and take the snapshot of the runs in flight.
Shutdown ==
    /\ proc[Server] = "up"
    /\ proc' = [proc EXCEPT ![Server] = "stopping"]
    /\ snap' = Inflight(Server)
    /\ UNCHANGED <<rows, workers, pc, req, at, todo, spent>>

DrainWithoutAbandon ==
    /\ proc[Server] = "stopping"
    /\ \E i \in snap : snap' = snap \ {i} /\ UNCHANGED rows
    /\ UNCHANGED <<workers, proc, pc, req, at, todo, spent>>

\* One turn of shutdown's loop: the run is over, or the grace period is.
Drain ==
    /\ proc[Server] = "stopping"
    /\ \E i \in snap :
         /\ snap' = snap \ {i}
         /\ rows' = IF workers[i].phase = "handling" THEN Transition(rows, {i}, ABANDONED) ELSE rows
    /\ UNCHANGED <<workers, proc, pc, req, at, todo, spent>>

\* shutdown returns, or the write of an abandonment raises out of it.
Stopped ==
    /\ proc[Server] = "stopping"
    /\ \/ snap = {} /\ UNCHANGED spent
       \/ snap # {} /\ Fault
    /\ proc' = [proc EXCEPT ![Server] = "stopped"]
    /\ snap' = {}
    /\ UNCHANGED <<rows, workers, pc, req, at, todo>>

Exit == proc[Server] = "stopped" /\ Die(Server) /\ UNCHANGED <<rows, spent>>

Crash(p) ==
    /\ proc[p] # "down"
    /\ crashes < MaxCrashes /\ crashes' = crashes + 1
    /\ Die(p)
    /\ UNCHANGED <<rows, triggers, faults>>
-----------------------------------------------------------------------------
CallerStep(c) ==
    \/ Refuse(c) \/ LookUp(c) \/ Start(c) \/ Launch(c)
    \/ Collect(c) \/ Expire(c) \/ TimeOut(c) \/ Retry(c)

WorkerStep(i) == Succeed(i) \/ Fail(i) \/ Lose(i)

Next ==
    \/ \E c \in Pool, j \in Jobs : Tick(c, j)
    \/ \E c \in Pool, i \in DOMAIN rows : RetryFailed(c, i)
    \/ \E c \in Clis, j \in Jobs : Invoke(c, j)
    \/ \E c \in Handlers, i \in DOMAIN rows, j \in Steps : CallStep(c, i, j)
    \/ \E c \in Callers : CallerStep(c) \/ TimeOutFault(c)
    \/ \E i \in DOMAIN workers : WorkerStep(i)
    \/ StartServer \/ Reconcile \/ Ready
    \/ Shutdown \/ Drain \/ Stopped \/ Exit
    \/ \E p \in Procs : Crash(p)

Spec == Init /\ [][Next]_vars
-----------------------------------------------------------------------------
\* What is where: a request names a run that exists, a caller past _start holds
\* the row of its request, and rows and threads go in pairs.
TypeOK ==
    /\ rows \in Seq(JobRun) /\ workers \in Seq(Worker) /\ Len(workers) = Len(rows)
    /\ proc \in [Procs -> ProcStates]
    /\ pc \in [Callers -> CallerStates]
    /\ req \in [Callers -> Call]
    /\ at \in [Callers -> Nat]
    /\ todo \in SUBSET DOMAIN rows /\ snap \in SUBSET DOMAIN rows
    /\ triggers \in Nat /\ crashes \in Nat /\ faults \in Nat
    /\ \A i \in DOMAIN rows : rows[i].run \in 1..i
    /\ \A c \in Callers :
         /\ req[c].run \in 0..Len(rows)
         /\ pc[c] \in HasRow => at[c] \in DOMAIN rows

\* JobRunner._start with JobLedger.start_or_refuse: however triggers, retries,
\* resumes and processes interleave, a job never has two running rows.
AtMostOneRunning ==
    \A i, k \in RunningRuns(rows) : rows[i].job = rows[k].job => i = k

\* What another attempt may be made of.
Repeatable == {FAILED, INTERRUPTED}

\* run_now's recursion, reconcile's RESUME and the administrator's retry: what counts
\* as attempt n + 1 repeats one earlier row, attempt n of the same job under the same
\* run id, and that row has ended failed or interrupted for good.
AttemptChain ==
    \A k \in DOMAIN rows : rows[k].attempt > 1 =>
        \E i \in 1..(k - 1) :
            /\ workers[k].call.after = i
            /\ rows[i].job = rows[k].job /\ rows[i].run = rows[k].run
            /\ rows[i].attempt + 1 = rows[k].attempt
            /\ rows[i].state \in Repeatable

\* The runner repeats no row twice, nor one that may still succeed: a caller's retry
\* after a timeout, a late handler thread (_work after _finalize_timeout), a reconcile
\* in another process and those of later starts all meet at the row, and one of them
\* at most may take it.  Only an administrator repeats a row again.
RepeatedOnce ==
    \A k \in DOMAIN rows : workers[k].call.own =>
        /\ rows[workers[k].call.after].state \in Repeatable
        /\ \A l \in DOMAIN rows :
             workers[l].call.own /\ workers[l].call.after = workers[k].call.after => l = k

\* A running row has someone who will settle it: the caller waiting for it or
\* the thread working on it.  Otherwise its process is gone, or the thread could
\* not write its end, and the next start of the server resolves it.
Owned(i) ==
    \/ workers[i].phase = "handling"
    \/ \E c \in Callers : at[c] = i /\ pc[c] \in {"started", "waiting", "expired"}

RunningRunsOwned ==
    \A i \in RunningRuns(rows) : Owned(i) \/ workers[i].phase \in {"dead", "lost"}

\* reconcile: a server that accepts triggers again has left none of its own rows
\* running from before it went down.
NoOrphanAfterStart ==
    proc[Server] \in {"starting", "up"} =>
      \A i \in RunningRuns(rows) : ~(workers[i].host = Server /\ workers[i].phase = "dead")

\* shutdown's report: a run leaves the list shutdown waits on only once its row
\* is settled, by its own thread or as abandoned, unless its thread lost the write.
DrainedRunsSettled ==
    [][proc'[Server] = "stopping" =>
         \A i \in snap \ snap' : rows'[i].state # RUNNING \/ workers[i].phase = "lost"]_vars

\* The ledger as its readers see it.
OpenRuns   == [j \in Jobs |-> RunningRun(rows, j)]
ClosedRuns == [i \in DOMAIN rows \ RunningRuns(rows) |-> rows[i].state]

Exclusion == INSTANCE JobExclusion
               WITH Outcomes <- TerminalStates, open <- OpenRuns, closed <- ClosedRuns

\* The runner implements the promise of ledger.py's docstring: one open attempt
\* per job, and a terminal state nobody can clobber.
ImplementsExclusion == Exclusion!Spec
-----------------------------------------------------------------------------
\* Scheduling: callers run, and a wait with a timeout ends.  A handler owes
\* nothing: only its timeout bounds it.
Fairness == \A c \in Callers : WF_vars(CallerStep(c))

\* With every write succeeding, a job is not blocked for ever by an attempt whose
\* process lives: start_or_refuse accepts it again after the timeout at the latest.
Blocked(j) == \E i \in RunningRun(rows, j) : workers[i].phase # "dead"

JobFrees(j) == Blocked(j) ~> (faults > 0 \/ ~Blocked(j))

\* run_now blocks until the attempt and its retries finish, and no longer.
CallReturns(c) == pc[c] # "idle" ~> pc[c] = "idle"
=============================================================================
