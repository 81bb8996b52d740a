-------------------------- MODULE JobRunnerProofs --------------------------
(***************************************************************************)
(* Proofs about the runner for every number of jobs, threads, processes,   *)
(* attempts, crashes and faults.  First what implements the exclusion;     *)
(* then why a row is repeated only after it has failed or was interrupted, *)
(* and by the runner only once, on either database: whoever is about to    *)
(* repeat a row has taken the right to it from the caller that waited for  *)
(* it, or from reconcile, and nobody else holds it.  Last, who settles a   *)
(* running row, and what shutdown leaves behind it.                        *)
(***************************************************************************)
EXTENDS JobRunner, JobLedgerProofs

\* TypeOK, the part about the ledger and its threads apart from the callers.
LedgerOK(rs, ws) ==
    /\ rs \in Seq(JobRun) /\ ws \in Seq(Worker) /\ Len(ws) = Len(rs)
    /\ \A i \in DOMAIN rs : rs[i].run \in 1..i

\* TypeOK, conjunct by conjunct.
LEMMA TypeSplit ==
    TypeOK <=>
      /\ LedgerOK(rows, workers)
      /\ proc \in [Procs -> ProcStates] /\ pc \in [Callers -> CallerStates]
      /\ req \in [Callers -> Call] /\ at \in [Callers -> Nat]
      /\ todo \in SUBSET DOMAIN rows /\ snap \in SUBSET DOMAIN rows
      /\ triggers \in Nat /\ crashes \in Nat /\ faults \in Nat
      /\ \A c \in Callers :
           /\ req[c].run \in 0..Len(rows)
           /\ pc[c] \in HasRow => at[c] \in DOMAIN rows
  BY DEF TypeOK, LedgerOK

\* A call adds its row as any other request does.
LEMMA InsertedCall ==
    ASSUME NEW rs \in Seq(JobRun), NEW r \in Call
    PROVE  LET t == Inserted(rs, r)
               n == Len(rs) + 1
           IN  /\ t \in Seq(JobRun) /\ Len(t) = n /\ DOMAIN t = DOMAIN rs \union {n}
               /\ DOMAIN rs = 1..Len(rs) /\ n \notin DOMAIN rs
               /\ \A i \in DOMAIN rs : t[i] = rs[i]
               /\ t[n].job = r.job /\ t[n].attempt = r.attempt /\ t[n].state = RUNNING
               /\ t[n].run = IF r.run = 0 THEN n ELSE r.run
  BY InsertedRow DEF Call

\* The call for a run of its own, and the one of an idle caller.
LEMMA FreshCall ==
    /\ \A j \in Jobs : Fresh(j) \in Call /\ Fresh(j).run = 0
    /\ NoRequest \in Call /\ NoRequest.run = 0
<1>1. \A j \in Jobs : Fresh(j) \in Call /\ Fresh(j).run = 0
  BY DEF Fresh, Call
<1> QED
  BY <1>1, RunnerAssumption DEF NoRequest

\* The calls that name the run of an earlier row.
LEMMA RowCalls ==
    ASSUME TypeOK, NEW i \in DOMAIN rows
    PROVE  /\ \A j \in Jobs : [Under(i, j, 1) EXCEPT !.by = i] \in Call
           /\ \A j \in Jobs : [Under(i, j, 1) EXCEPT !.by = i].run \in 0..Len(rows)
           /\ Repeat(i) \in Call /\ Repeat(i).run \in 0..Len(rows)
           /\ ResumeRequest(i) \in Call /\ ResumeRequest(i).run \in 0..Len(rows)
           /\ \A r \in Call : /\ RetryRequest(r, i) \in Call
                               /\ RetryRequest(r, i).run \in 0..Len(rows)
<1>1. DOMAIN rows = 1..Len(rows) /\ Len(rows) \in Nat /\ rows[i] \in JobRun
  BY LenProperties, ElementOfSeq DEF TypeOK
<1>2. /\ rows[i].job \in Jobs /\ rows[i].attempt \in Nat \ {0} /\ rows[i].run \in Nat
      /\ rows[i].run \in 0..Len(rows) /\ i \in Nat
  BY <1>1 DEF JobRun, TypeOK
<1>3. ASSUME NEW j \in Jobs, NEW n \in Nat \ {0}
      PROVE  Under(i, j, n) \in Call /\ Under(i, j, n).run = rows[i].run
  BY <1>2 DEF Under, Fresh, Call
<1>4. Repeat(i) \in Call /\ Repeat(i).run = rows[i].run
  <2>1. rows[i].attempt + 1 \in Nat \ {0}
    BY <1>2
  <2>2. PICK u \in Call : u = Under(i, rows[i].job, rows[i].attempt + 1) /\ u.run = rows[i].run
    BY <1>2, <1>3, <2>1
  <2>3. [u EXCEPT !.after = i] \in Call /\ [u EXCEPT !.after = i].run = u.run
    BY <1>2 DEF Call
  <2> QED
    BY <2>2, <2>3 DEF Repeat
<1>5. ResumeRequest(i) \in Call /\ ResumeRequest(i).run \in {0, rows[i].run}
  <2>1. ASSUME NEW u \in Call
        PROVE  /\ [u EXCEPT !.own = TRUE] \in Call /\ [u EXCEPT !.own = TRUE].run = u.run
               /\ [u EXCEPT !.after = i, !.own = TRUE] \in Call
               /\ [u EXCEPT !.after = i, !.own = TRUE].run = u.run
    BY <1>2 DEF Call
  <2> QED
    BY <1>2, <1>4, <2>1, FreshCall DEF ResumeRequest
<1>6. ASSUME NEW r \in Call
      PROVE  RetryRequest(r, i) \in Call /\ RetryRequest(r, i).run = rows[i].run
  <2>1. PICK m \in Nat, n \in Nat \ {0} : m = rows[i].run /\ n = r.attempt + 1
    BY <1>2 DEF Call
  <2>2. RetryRequest(r, i) = [r EXCEPT !.run = m, !.attempt = n, !.after = i, !.own = TRUE]
    BY <2>1 DEF RetryRequest, Call
  <2>3. /\ [r EXCEPT !.run = m, !.attempt = n, !.after = i, !.own = TRUE] \in Call
        /\ [r EXCEPT !.run = m, !.attempt = n, !.after = i, !.own = TRUE].run = m
    BY <1>2 DEF Call
  <2> QED
    BY <2>1, <2>2, <2>3
<1>7. ASSUME NEW j \in Jobs
      PROVE  /\ [Under(i, j, 1) EXCEPT !.by = i] \in Call
             /\ [Under(i, j, 1) EXCEPT !.by = i].run = rows[i].run
  <2>1. PICK u \in Call : u = Under(i, j, 1) /\ u.run = rows[i].run
    BY <1>3
  <2>2. [u EXCEPT !.by = i] \in Call /\ [u EXCEPT !.by = i].run = u.run
    BY <1>2 DEF Call
  <2> QED
    BY <2>1, <2>2
<1>8. rows[i].run \in 0..Len(rows) /\ 0 \in 0..Len(rows)
  BY <1>1, <1>2
<1>9. ResumeRequest(i) \in Call /\ ResumeRequest(i).run \in 0..Len(rows)
  BY <1>5, <1>8
<1>10. \A r \in Call : RetryRequest(r, i) \in Call /\ RetryRequest(r, i).run \in 0..Len(rows)
  BY <1>6, <1>8
<1>11. /\ \A j \in Jobs : [Under(i, j, 1) EXCEPT !.by = i] \in Call
       /\ \A j \in Jobs : [Under(i, j, 1) EXCEPT !.by = i].run \in 0..Len(rows)
  BY <1>7, <1>8
<1>12. Repeat(i) \in Call /\ Repeat(i).run \in 0..Len(rows)
  BY <1>4, <1>8
<1> QED
  BY <1>9, <1>10, <1>11, <1>12

\* The thread of a new row is one of the caller's process, with its call.
LEMMA Newborn ==
    ASSUME NEW c \in Callers, req \in [Callers -> Call]
    PROVE  [host |-> HostOf(c), phase |-> "unborn", call |-> req[c]] \in Worker
<1>1. HostOf(c) \in Procs
  BY DEF HostOf, Handlers, Procs
<1> QED
  BY <1>1 DEF Worker, WorkerStates

\* Rows and threads are indexed alike, from 1.
LEMMA DomainsAgree ==
    ASSUME NEW rs, NEW ws, LedgerOK(rs, ws)
    PROVE  DOMAIN ws = DOMAIN rs /\ DOMAIN rs = 1..Len(rs) /\ Len(rs) \in Nat
  BY LenProperties DEF LedgerOK

\* Settling rows keeps the ledger and its threads paired.
LEMMA TransitionLedgerOK ==
    ASSUME NEW rs, NEW ws, NEW S, NEW to \in RunStates, LedgerOK(rs, ws)
    PROVE  LedgerOK(Transition(rs, S, to), ws) /\ DOMAIN Transition(rs, S, to) = DOMAIN rs
                                               /\ Len(Transition(rs, S, to)) = Len(rs)
  BY TransitionFacts, DomainsAgree DEF LedgerOK

\* So does a thread that moves on.
LEMMA PhaseLedgerOK ==
    ASSUME NEW rs, NEW ws, NEW i \in DOMAIN ws, NEW ph \in WorkerStates, LedgerOK(rs, ws)
    PROVE  LedgerOK(rs, [ws EXCEPT ![i].phase = ph])
<1>1. i \in 1..Len(ws) /\ ws[i] \in Worker
  BY LenProperties, ElementOfSeq DEF LedgerOK
<1>2. [ws[i] EXCEPT !.phase = ph] \in Worker
  BY <1>1 DEF Worker
<1>3. [ws EXCEPT ![i].phase = ph] = [ws EXCEPT ![i] = [ws[i] EXCEPT !.phase = ph]]
  OBVIOUS
<1> QED
  BY <1>1, <1>2, <1>3, ExceptSeq DEF LedgerOK

\* What the end of some calls, or the answer to one, leaves of the types.
Ended ==
    /\ LedgerOK(rows, workers')
    /\ proc' \in [Procs -> ProcStates] /\ pc' \in [Callers -> CallerStates]
    /\ req' \in [Callers -> Call] /\ at' \in [Callers -> Nat]
    /\ todo' \subseteq todo /\ snap' \subseteq snap
    /\ \A c \in Callers :
         \/ pc'[c] = "idle" /\ req'[c].run = 0
         \/ req'[c] = req[c] /\ at'[c] = at[c] /\ (pc'[c] \in HasRow => pc[c] \in HasRow)

\* A released caller is idle with the empty request, any other as before.
LEMMA ReleaseType ==
    ASSUME TypeOK, NEW C, Release(C)
    PROVE  /\ pc' \in [Callers -> CallerStates]
           /\ req' \in [Callers -> Call] /\ at' \in [Callers -> Nat]
           /\ \A c \in Callers :
                \/ pc'[c] = "idle" /\ req'[c].run = 0
                \/ pc'[c] = pc[c] /\ req'[c] = req[c] /\ at'[c] = at[c]
<1>1. NoRequest \in Call /\ NoRequest.run = 0
  BY FreshCall
<1> QED
  BY <1>1 DEF Release, TypeOK, CallerStates

\* The end of a process leaves its callers idle and its threads dead.
LEMMA DieType ==
    ASSUME TypeOK, NEW p \in Procs, Die(p)
    PROVE  Ended
<1>1. DOMAIN workers = 1..Len(workers) /\ \A i \in DOMAIN workers : workers[i] \in Worker
  BY LenProperties, ElementOfSeq DEF TypeOK
<1>2. /\ workers' \in [1..Len(workers) -> Worker] /\ DOMAIN workers' = DOMAIN workers
  BY <1>1 DEF Die, Worker, WorkerStates
<1>3. workers' \in Seq(Worker) /\ Len(workers') = Len(workers)
  BY <1>1, <1>2, SeqDef, LenProperties DEF TypeOK
<1>4. LedgerOK(rows, workers')
  BY <1>3 DEF LedgerOK, TypeOK
<1>5. proc' \in [Procs -> ProcStates]
  BY DEF Die, TypeOK, ProcStates
<1>6. todo' \subseteq todo /\ snap' \subseteq snap
  BY DEF Die
<1>7. Release(Threads(p))
  BY DEF Die
<1> QED
  BY <1>4, <1>5, <1>6, <1>7, ReleaseType DEF Ended

\* A call that returns leaves its caller idle.
LEMMA ReturnType ==
    ASSUME TypeOK, NEW c \in Callers, Return(c)
    PROVE  Ended
<1>1. CASE c \in Clis
  BY <1>1, DieType DEF Return, Procs
<1>2. CASE c \notin Clis
  <2>1. Release({c}) /\ UNCHANGED <<workers, proc, todo, snap>>
    BY <1>2 DEF Return
  <2> QED
    BY <2>1, ReleaseType, TypeSplit DEF Ended
<1> QED
  BY <1>1, <1>2

\* A call that raises does, or takes the starting server along.
LEMMA RaiseType ==
    ASSUME TypeOK, NEW c \in Callers, Raise(c)
    PROVE  Ended
  BY DieType, ReturnType DEF Raise, Procs

\* run_now with an outcome in hand backs off or returns.
LEMMA AnswerType ==
    ASSUME TypeOK, NEW c \in Callers, NEW outcome, Answer(c, outcome), pc[c] \in HasRow
    PROVE  Ended
<1>1. CASE outcome = FAILED /\ req[c].attempt < MaxAttempts
  <2>1. pc' = [pc EXCEPT ![c] = "backoff"] /\ UNCHANGED <<workers, proc, req, at, todo, snap>>
    BY <1>1 DEF Answer
  <2> QED
    BY <2>1, TypeSplit DEF Ended, CallerStates, HasRow
<1>2. CASE ~(outcome = FAILED /\ req[c].attempt < MaxAttempts)
  BY <1>2, ReturnType DEF Answer
<1> QED
  BY <1>1, <1>2

\* Rows that only change state, calls that only end: the types survive.
LEMMA EndedTypeOK ==
    ASSUME TypeOK, Ended, LedgerOK(rows', workers'),
           DOMAIN rows' = DOMAIN rows, Len(rows') = Len(rows),
           triggers' \in Nat, crashes' \in Nat, faults' \in Nat
    PROVE  TypeOK'
<1>1. Len(rows) \in Nat
  BY LenProperties DEF TypeOK
<1>2. ASSUME NEW c \in Callers
      PROVE  /\ req'[c].run \in 0..Len(rows')
             /\ pc'[c] \in HasRow => at'[c] \in DOMAIN rows'
  <2>1. CASE pc'[c] = "idle" /\ req'[c].run = 0
    BY <1>1, <2>1 DEF HasRow
  <2>2. CASE req'[c] = req[c] /\ at'[c] = at[c] /\ (pc'[c] \in HasRow => pc[c] \in HasRow)
    BY <2>2 DEF TypeOK
  <2> QED
    BY <2>1, <2>2 DEF Ended
<1>3. todo' \in SUBSET DOMAIN rows' /\ snap' \in SUBSET DOMAIN rows'
  BY DEF Ended, TypeOK
<1> QED
  BY <1>2, <1>3 DEF Ended, TypeOK, LedgerOK

\* The same, when the ledger is left alone.
LEMMA EndedKeepsRows ==
    ASSUME TypeOK, Ended, rows' = rows,
           triggers' \in Nat, crashes' \in Nat, faults' \in Nat
    PROVE  TypeOK'
<1>1. LedgerOK(rows', workers') /\ DOMAIN rows' = DOMAIN rows /\ Len(rows') = Len(rows)
  BY DEF Ended
<1> QED
  BY <1>1, EndedTypeOK

\* A caller between calls of run_now, or about to make the next one.
LEMMA EnterType ==
    ASSUME TypeOK, NEW c \in Callers, NEW r \in Call, r.run \in 0..Len(rows),
           Enter(c, r), UNCHANGED <<rows, workers, at, snap>>,
           proc' \in [Procs -> ProcStates], todo' \subseteq todo,
           triggers' \in Nat, crashes' \in Nat, faults' \in Nat
    PROVE  TypeOK'
<1>1. pc' \in [Callers -> CallerStates] /\ req' \in [Callers -> Call]
  BY DEF Enter, TypeOK, CallerStates
<1>2. \A d \in Callers : req'[d].run \in 0..Len(rows) /\ (pc'[d] \in HasRow => at[d] \in DOMAIN rows)
  BY DEF Enter, TypeOK, HasRow
<1> QED
  BY <1>1, <1>2 DEF TypeOK

\* A caller that goes on, with its request, to a row it has or needs none yet.
LEMMA StepType ==
    ASSUME TypeOK, NEW c \in Callers, NEW l \in CallerStates,
           l \in HasRow => pc[c] \in HasRow,
           pc' = [pc EXCEPT ![c] = l], UNCHANGED <<rows, proc, req, at, todo, snap, spent>>,
           LedgerOK(rows, workers')
    PROVE  TypeOK'
  BY DEF TypeOK, LedgerOK, spent

\* The handler of a row ends; the row may change state.
LEMMA EndsType ==
    ASSUME TypeOK, NEW i, NEW ph \in WorkerStates, Ends(i, ph),
           LedgerOK(rows', workers) /\ DOMAIN rows' = DOMAIN rows /\ Len(rows') = Len(rows),
           triggers' \in Nat, crashes' \in Nat, faults' \in Nat
    PROVE  TypeOK'
<1>1. LedgerOK(rows', workers')
  BY PhaseLedgerOK DEF Ends
<1> QED
  BY <1>1, TypeSplit DEF Ends, TypeOK, LedgerOK

\* The empty ledger and its idle callers are well typed.
LEMMA InitType == Init => TypeOK
<1> SUFFICES ASSUME Init PROVE TypeOK
  OBVIOUS
<1>1. NoRequest \in Call /\ NoRequest.run = 0
  BY FreshCall
<1>2. rows \in Seq(JobRun) /\ workers \in Seq(Worker) /\ Len(rows) = 0 /\ Len(workers) = 0
      /\ DOMAIN rows = {}
  BY DEF Init
<1>3. proc \in [Procs -> ProcStates] /\ pc \in [Callers -> CallerStates]
  BY DEF Init, ProcStates, CallerStates
<1>4. req \in [Callers -> Call] /\ at \in [Callers -> Nat]
  BY <1>1 DEF Init
<1>5. \A c \in Callers : req[c].run \in 0..Len(rows) /\ (pc[c] \in HasRow => at[c] \in DOMAIN rows)
  BY <1>1, <1>2 DEF Init, HasRow
<1>6. todo \in SUBSET DOMAIN rows /\ snap \in SUBSET DOMAIN rows
      /\ triggers \in Nat /\ crashes \in Nat /\ faults \in Nat
  BY DEF Init
<1> QED
  BY <1>2, <1>3, <1>4, <1>5, <1>6 DEF TypeOK

\* A start adds a row and a thread, and its caller holds the new row.
LEMMA StartType ==
    ASSUME TypeOK, NEW c \in Callers, Start(c)
    PROVE  TypeOK'
<1> DEFINE n == Len(rows) + 1
           w == [host |-> HostOf(c), phase |-> "unborn", call |-> req[c]]
<1>1. Len(rows) \in Nat /\ DOMAIN rows = 1..Len(rows) /\ req[c] \in Call
  BY LenProperties DEF TypeOK
<1>2. /\ rows' \in Seq(JobRun) /\ Len(rows') = n /\ DOMAIN rows' = DOMAIN rows \union {n}
      /\ \A i \in DOMAIN rows : rows'[i] = rows[i]
      /\ rows'[n].run = IF req[c].run = 0 THEN n ELSE req[c].run
  <2>1. rows' = Inserted(rows, req[c]) /\ rows \in Seq(JobRun)
    BY DEF Start, TypeOK
  <2> QED
    BY <1>1, <2>1, InsertedCall
<1>3. w \in Worker
  BY Newborn DEF TypeOK
<1>4. workers' \in Seq(Worker) /\ Len(workers') = Len(rows')
  BY <1>2, <1>3, AppendProperties DEF Start, TypeOK
<1>5. \A i \in DOMAIN rows' : rows'[i].run \in 1..i
  BY <1>1, <1>2 DEF TypeOK
<1>6. at' \in [Callers -> Nat] /\ pc' \in [Callers -> CallerStates]
  BY <1>1 DEF Start, TypeOK, CallerStates, HasRow
<1>7. ASSUME NEW d \in Callers
      PROVE  req'[d].run \in 0..Len(rows') /\ (pc'[d] \in HasRow => at'[d] \in DOMAIN rows')
  BY <1>1, <1>2 DEF Start, TypeOK
<1>8. todo' \in SUBSET DOMAIN rows' /\ snap' \in SUBSET DOMAIN rows'
  BY <1>2 DEF Start, TypeOK
<1> QED
  BY <1>2, <1>4, <1>5, <1>6, <1>7, <1>8 DEF Start, TypeOK, spent

\* Every step keeps the types: one step of the proof per action.
LEMMA NextType ==
    ASSUME TypeOK, [Next]_vars
    PROVE  TypeOK'
<1> USE DEF spent
<1>0. /\ LedgerOK(rows, workers) /\ DOMAIN workers = DOMAIN rows
      /\ Len(rows) \in Nat /\ DOMAIN rows = 1..Len(rows)
  BY TypeSplit, DomainsAgree
<1>1. CASE UNCHANGED vars
  BY <1>1 DEF vars, TypeOK
<1>2. ASSUME NEW c \in Callers, NEW r \in Call, r.run \in 0..Len(rows), Ask(c, r),
             proc' \in [Procs -> ProcStates]
      PROVE  TypeOK'
  <2>1. /\ Enter(c, r) /\ UNCHANGED <<rows, workers, at, snap>> /\ todo' \subseteq todo
        /\ triggers' \in Nat /\ crashes' \in Nat /\ faults' \in Nat
    BY <1>2 DEF Ask, TypeOK
  <2> QED
    BY <1>2, <2>1, EnterType
<1>3. ASSUME NEW c \in Callers, NEW j \in Jobs,
             \/ Tick(c, j)
             \/ c \in Clis /\ Invoke(c, j)
             \/ \E i \in DOMAIN rows : RetryFailed(c, i) \/ CallStep(c, i, j)
      PROVE  TypeOK'
  <2>1. proc' \in [Procs -> ProcStates]
    BY <1>3 DEF Tick, Invoke, RetryFailed, CallStep, TypeOK, ProcStates
  <2>2. CASE Tick(c, j) \/ Invoke(c, j)
    <3>1. Fresh(j) \in Call /\ Fresh(j).run \in 0..Len(rows)
      BY <1>0, FreshCall
    <3> QED
      BY <1>2, <2>1, <2>2, <3>1 DEF Tick, Invoke
  <2>3. ASSUME NEW i \in DOMAIN rows, RetryFailed(c, i) PROVE TypeOK'
    BY <1>2, <2>1, <2>3, RowCalls DEF RetryFailed
  <2>4. ASSUME NEW i \in DOMAIN rows, CallStep(c, i, j) PROVE TypeOK'
    BY <1>2, <2>1, <2>4, RowCalls DEF CallStep
  <2> QED
    BY <1>3, <2>2, <2>3, <2>4
<1>4. ASSUME NEW c \in Callers, Refuse(c) PROVE TypeOK'
  <2>1. Ended
    BY <1>4, RaiseType DEF Refuse
  <2>2. rows' = rows /\ triggers' \in Nat /\ crashes' \in Nat /\ faults' \in Nat
    BY <1>0, <1>4 DEF Refuse, TypeOK
  <2> QED
    BY <2>1, <2>2, EndedKeepsRows
<1>5. ASSUME NEW c \in Callers, LookUp(c) PROVE TypeOK'
  BY <1>0, <1>5, StepType DEF LookUp, CallerStates, HasRow
<1>6. ASSUME NEW c \in Callers, Start(c) PROVE TypeOK'
  BY <1>6, StartType
<1>7. ASSUME NEW c \in Callers, Launch(c) PROVE TypeOK'
  <2>1. at[c] \in DOMAIN workers
    BY <1>0, <1>7 DEF Launch, TypeOK, HasRow
  <2>2. LedgerOK(rows, workers')
    BY <1>0, <1>7, <2>1, PhaseLedgerOK DEF Launch, WorkerStates
  <2> QED
    BY <1>7, <2>2, StepType DEF Launch, CallerStates, HasRow
<1>8. ASSUME NEW c \in Callers, Collect(c) PROVE TypeOK'
  <2>1. Ended
    BY <1>8, AnswerType, RaiseType DEF Collect, HasRow
  <2>2. rows' = rows /\ triggers' \in Nat /\ crashes' \in Nat /\ faults' \in Nat
    BY <1>0, <1>8 DEF Collect, TypeOK
  <2> QED
    BY <2>1, <2>2, EndedKeepsRows
<1>9. ASSUME NEW c \in Callers, Expire(c) PROVE TypeOK'
  BY <1>0, <1>9, StepType DEF Expire, CallerStates, HasRow
<1>10. ASSUME NEW c \in Callers, TimeOut(c) PROVE TypeOK'
  <2>1. Ended
    BY <1>10, AnswerType DEF TimeOut, HasRow
  <2>2. LedgerOK(rows', workers') /\ DOMAIN rows' = DOMAIN rows /\ Len(rows') = Len(rows)
    BY <1>10, <2>1, TransitionLedgerOK DEF TimeOut, Ended, RunStates, TerminalStates
  <2> QED
    BY <1>10, <2>1, <2>2, EndedTypeOK DEF TimeOut, TypeOK
<1>11. ASSUME NEW c \in Callers, TimeOutFault(c) PROVE TypeOK'
  <2>1. Ended
    BY <1>11, RaiseType DEF TimeOutFault
  <2>2. rows' = rows /\ triggers' \in Nat /\ crashes' \in Nat /\ faults' \in Nat
    BY <1>0, <1>11 DEF TimeOutFault, Fault, TypeOK
  <2> QED
    BY <2>1, <2>2, EndedKeepsRows
<1>12. ASSUME NEW c \in Callers, Retry(c) PROVE TypeOK'
  <2>1. CASE ShuttingDown(HostOf(c))
    <3>1. Ended
      BY <1>12, <2>1, RaiseType DEF Retry
    <3>2. rows' = rows /\ triggers' \in Nat /\ crashes' \in Nat /\ faults' \in Nat
      BY <1>0, <1>12 DEF Retry, TypeOK
    <3> QED
      BY <3>1, <3>2, EndedKeepsRows
  <2>2. CASE ~ShuttingDown(HostOf(c))
    <3>1. at[c] \in DOMAIN rows /\ rows[at[c]].run \in 1..at[c] /\ req[c] \in Call
      BY <1>12 DEF Retry, TypeOK, HasRow
    <3>2. RetryRequest(req[c], at[c]) \in Call /\ RetryRequest(req[c], at[c]).run \in 0..Len(rows)
      BY <3>1, RowCalls
    <3> QED
      BY <1>0, <1>12, <2>2, <3>2, EnterType DEF Retry, TypeOK
  <2> QED
    BY <2>1, <2>2
<1>13. ASSUME NEW i, Succeed(i) PROVE TypeOK'
  <2>1. LedgerOK(rows', workers) /\ DOMAIN rows' = DOMAIN rows /\ Len(rows') = Len(rows)
    BY <1>0, <1>13, TransitionLedgerOK DEF Succeed, RunStates, TerminalStates
  <2> QED
    BY <1>13, <2>1, EndsType DEF Succeed, WorkerStates, TypeOK
<1>14. ASSUME NEW i, Fail(i) PROVE TypeOK'
  <2>1. LedgerOK(rows', workers) /\ DOMAIN rows' = DOMAIN rows /\ Len(rows') = Len(rows)
    BY <1>0, <1>14, TransitionLedgerOK DEF Fail, RunStates, TerminalStates
  <2> QED
    BY <1>14, <2>1, EndsType DEF Fail, WorkerStates, TypeOK
<1>15. ASSUME NEW i, Lose(i) PROVE TypeOK'
  BY <1>0, <1>15, EndsType DEF Lose, Fault, WorkerStates, TypeOK
<1>16. CASE StartServer
  <2>1. LedgerOK(rows', workers) /\ DOMAIN rows' = DOMAIN rows /\ Len(rows') = Len(rows)
    BY <1>0, <1>16, TransitionLedgerOK DEF StartServer, RunStates, TerminalStates
  <2>2. proc' \in [Procs -> ProcStates] /\ todo' \in SUBSET DOMAIN rows
    BY <1>16 DEF StartServer, TypeOK, ProcStates, RunningRuns
  <2> QED
    BY <1>16, <2>1, <2>2 DEF StartServer, TypeOK, LedgerOK
<1>17. CASE Reconcile
  <2> PICK i \in todo : Enter(Main, ResumeRequest(i)) /\ todo' = todo \ {i}
    BY <1>17 DEF Reconcile
  <2>1. ResumeRequest(i) \in Call /\ ResumeRequest(i).run \in 0..Len(rows)
    BY RowCalls DEF TypeOK
  <2> QED
    BY <1>0, <1>17, <2>1, EnterType DEF Reconcile, TypeOK, Callers
<1>18. CASE Ready
  BY <1>18 DEF Ready, TypeOK, ProcStates
<1>19. CASE Shutdown
  BY <1>0, <1>19 DEF Shutdown, TypeOK, ProcStates, Inflight
<1>20. CASE Drain
  <2> PICK i \in snap :
         /\ snap' = snap \ {i}
         /\ rows' = IF workers[i].phase = "handling" THEN Transition(rows, {i}, ABANDONED) ELSE rows
    BY <1>20 DEF Drain
  <2>1. LedgerOK(rows', workers) /\ DOMAIN rows' = DOMAIN rows /\ Len(rows') = Len(rows)
    BY <1>0, TransitionLedgerOK DEF RunStates, TerminalStates
  <2> QED
    BY <1>20, <2>1 DEF Drain, TypeOK, LedgerOK
<1>21. CASE Stopped
  <2>1. /\ proc' = [proc EXCEPT ![Server] = "stopped"] /\ snap' = {}
        /\ UNCHANGED <<rows, workers, pc, req, at, todo>>
    BY <1>21 DEF Stopped
  <2>2. triggers' \in Nat /\ crashes' \in Nat /\ faults' \in Nat
    BY <1>21 DEF Stopped, Fault, TypeOK
  <2> QED
    BY <2>1, <2>2 DEF TypeOK, ProcStates
<1>22. CASE Exit
  <2>1. Ended
    BY <1>22, DieType DEF Exit, Procs
  <2>2. rows' = rows /\ triggers' \in Nat /\ crashes' \in Nat /\ faults' \in Nat
    BY <1>0, <1>22 DEF Exit, TypeOK
  <2> QED
    BY <2>1, <2>2, EndedKeepsRows
<1>23. ASSUME NEW p \in Procs, Crash(p) PROVE TypeOK'
  <2>1. Ended
    BY <1>23, DieType DEF Crash
  <2>2. rows' = rows /\ triggers' \in Nat /\ crashes' \in Nat /\ faults' \in Nat
    BY <1>0, <1>23 DEF Crash, TypeOK
  <2> QED
    BY <2>1, <2>2, EndedKeepsRows
<1>24. Jobs # {} /\ Steps \subseteq Jobs /\ Pool \union Clis \union Handlers \subseteq Callers
  BY RunnerAssumption DEF Callers
<1>25. ASSUME \/ \E c \in Pool, j \in Jobs : Tick(c, j)
              \/ \E c \in Pool, i \in DOMAIN rows : RetryFailed(c, i)
              \/ \E c \in Clis, j \in Jobs : Invoke(c, j)
              \/ \E c \in Handlers, i \in DOMAIN rows, j \in Steps : CallStep(c, i, j)
       PROVE  TypeOK'
  BY <1>3, <1>24, <1>25
<1>26. ASSUME NEW c \in Callers, CallerStep(c) \/ TimeOutFault(c) PROVE TypeOK'
  BY <1>4, <1>5, <1>6, <1>7, <1>8, <1>9, <1>10, <1>11, <1>12, <1>26 DEF CallerStep
<1>27. ASSUME NEW i, WorkerStep(i) PROVE TypeOK'
  BY <1>13, <1>14, <1>15, <1>27 DEF WorkerStep
<1> QED
  BY <1>1, <1>16, <1>17, <1>18, <1>19, <1>20, <1>21, <1>22, <1>23, <1>25, <1>26, <1>27 DEF Next

\* Every reachable state is well typed, for any instance of the runner.
THEOREM TypeCorrect == Spec => []TypeOK
  BY InitType, NextType, PTL DEF Spec
-----------------------------------------------------------------------------
\* Whatever step is taken, the table gains one row or some rows settle, or neither.
LEMMA RowsStep ==
    ASSUME [Next]_vars
    PROVE  \/ rows' = rows
           \/ \E c \in Callers : Start(c)
           \/ \E to \in TerminalStates, S \in SUBSET RunningRuns(rows) : rows' = Transition(rows, S, to)
<1> DEFINE Settles == \E to \in TerminalStates, S \in SUBSET RunningRuns(rows) :
                        rows' = Transition(rows, S, to)
<1>1. \A S : \A to \in TerminalStates : rows' = Transition(rows, S, to) => Settles
  <2> TAKE S
  <2> TAKE to \in TerminalStates
  <2> HAVE rows' = Transition(rows, S, to)
  <2>1. Transition(rows, S, to) = Transition(rows, S \intersect RunningRuns(rows), to)
    BY DEF Transition
  <2> QED
    BY <2>1
<1>2. {SUCCEEDED, FAILED, INTERRUPTED, ABANDONED} \subseteq TerminalStates
  BY DEF TerminalStates
<1> HIDE DEF Settles
<1>3. ASSUME NEW c \in Callers, CallerStep(c) \/ TimeOutFault(c)
      PROVE  rows' = rows \/ Start(c) \/ Settles
  BY <1>1, <1>2, <1>3 DEF CallerStep, Refuse, LookUp, Launch, Collect, Expire, TimeOut, Retry,
     TimeOutFault
<1>4. ASSUME NEW i, WorkerStep(i)
      PROVE  rows' = rows \/ Settles
  BY <1>1, <1>2, <1>4 DEF WorkerStep, Succeed, Fail, Lose
<1>5. ASSUME StartServer \/ Drain
      PROVE  rows' = rows \/ Settles
  BY <1>1, <1>2, <1>5 DEF StartServer, Drain
<1>6. ASSUME \/ UNCHANGED vars \/ Reconcile \/ Ready \/ Shutdown \/ Stopped \/ Exit
             \/ \E c \in Pool, j \in Jobs : Tick(c, j)
             \/ \E c \in Pool, i \in DOMAIN rows : RetryFailed(c, i)
             \/ \E c \in Clis, j \in Jobs : Invoke(c, j)
             \/ \E c \in Handlers, i \in DOMAIN rows, j \in Steps : CallStep(c, i, j)
             \/ \E p \in Procs : Crash(p)
      PROVE  rows' = rows
  BY <1>6 DEF vars, Reconcile, Ready, Shutdown, Stopped, Exit, Tick, RetryFailed, Invoke, CallStep,
     Ask, Crash
<1> QED
  BY <1>3, <1>4, <1>5, <1>6 DEF Next, Settles

\* What a start and a settling do to the running rows.
LEMMA StartRunning ==
    ASSUME TypeOK, AtomicStart, NEW c \in Callers, Start(c)
    PROVE  LET n == Len(rows) + 1 IN
           /\ DOMAIN rows' = DOMAIN rows \union {n} /\ n \notin DOMAIN rows
           /\ \A i \in DOMAIN rows : rows'[i] = rows[i]
           /\ rows'[n].job = req[c].job /\ rows'[n].state = RUNNING
           /\ RunningRun(rows, req[c].job) = {} /\ req[c].job \in Jobs
<1>1. rows' = Inserted(rows, req[c]) /\ rows \in Seq(JobRun) /\ req[c] \in Call
  BY DEF Start, TypeOK
<1>2. RunningRun(rows, req[c].job) = {} /\ req[c].job \in Jobs
  BY <1>1 DEF Start, Call
<1> QED
  BY <1>1, <1>2, InsertedCall

\* Settling takes rows out of the running ones and touches nothing else.
LEMMA SettleRunning ==
    ASSUME TypeOK, NEW to \in TerminalStates, NEW S \in SUBSET RunningRuns(rows),
           rows' = Transition(rows, S, to)
    PROVE  /\ DOMAIN rows' = DOMAIN rows
           /\ \A i \in DOMAIN rows : rows'[i].job = rows[i].job
           /\ \A i \in S : rows'[i].state = to
           /\ \A i \in DOMAIN rows \ S : rows'[i].state = rows[i].state
           /\ RunningRuns(rows') = RunningRuns(rows) \ S
<1>1. rows \in Seq(JobRun) /\ to \in RunStates /\ to # RUNNING
  BY DEF TypeOK, RunStates, TerminalStates, RUNNING, SUCCEEDED, FAILED, INTERRUPTED, ABANDONED
<1>2. /\ DOMAIN rows' = DOMAIN rows
      /\ \A i \in DOMAIN rows :
           /\ rows'[i].job = rows[i].job
           /\ rows'[i].state = IF i \in S /\ rows[i].state = RUNNING THEN to ELSE rows[i].state
  BY <1>1, TransitionFacts
<1> QED
  BY <1>1, <1>2 DEF RunningRuns

\* A start needs a job with no running row, and no other step adds one.
LEMMA NextExclusive ==
    ASSUME TypeOK, AtomicStart, AtMostOneRunning, [Next]_vars
    PROVE  AtMostOneRunning'
<1>1. CASE rows' = rows
  BY <1>1 DEF AtMostOneRunning
<1>2. ASSUME NEW c \in Callers, Start(c) PROVE AtMostOneRunning'
  <2> DEFINE n == Len(rows) + 1
  <2>1. /\ DOMAIN rows' = DOMAIN rows \union {n}
        /\ \A i \in DOMAIN rows : rows'[i] = rows[i]
        /\ rows'[n].job = req[c].job
        /\ RunningRun(rows, req[c].job) = {}
    BY <1>2, StartRunning
  <2> HIDE DEF n
  <2>2. \A i \in RunningRuns(rows') : i = n \/ (i \in RunningRuns(rows) /\ rows'[i] = rows[i])
    BY <2>1 DEF RunningRuns
  <2>3. \A i \in RunningRuns(rows) : rows[i].job # req[c].job
    BY <2>1 DEF RunningRun
  <2> QED
    BY <2>1, <2>2, <2>3 DEF AtMostOneRunning
<1>3. ASSUME NEW to \in TerminalStates, NEW S \in SUBSET RunningRuns(rows),
             rows' = Transition(rows, S, to)
      PROVE  AtMostOneRunning'
  BY <1>3, SettleRunning DEF AtMostOneRunning, RunningRuns
<1> QED
  BY <1>1, <1>2, <1>3, RowsStep

\* ledger.start_or_refuse: with the start lock of PostgreSQL, two attempts of a job
\* are never running together, whatever processes, retries and restarts do.
THEOREM OneRunningRow == ASSUME AtomicStart PROVE Spec => []AtMostOneRunning
<1>1. Init => AtMostOneRunning
  BY DEF Init, AtMostOneRunning, RunningRuns
<1> QED
  BY <1>1, NextExclusive, TypeCorrect, PTL DEF Spec
-----------------------------------------------------------------------------
\* A step after which no thread of the server that lived is dead, unless the
\* server is down or stopping.
Dead(w) == w.host = Server /\ w.phase = "dead"
Serving == proc[Server] \in {"starting", "up"}

Spares ==
    Serving' => /\ Serving
                /\ \A i \in DOMAIN workers : Dead(workers'[i]) => Dead(workers[i])

\* The end of a process spares the server's threads, or is the server's end.
LEMMA DieSpares ==
    ASSUME TypeOK, NEW p \in Procs, Die(p)
    PROVE  Spares
<1>1. CASE p = Server
  BY <1>1 DEF Die, Spares, Serving, TypeOK
<1>2. CASE p # Server
  <2>1. proc'[Server] = proc[Server]
    BY <1>2 DEF Die, TypeOK
  <2>2. ASSUME NEW i \in DOMAIN workers, Dead(workers'[i]) PROVE Dead(workers[i])
    <3>1. workers[i] \in Worker
      BY LenProperties, ElementOfSeq DEF TypeOK
    <3>2. \/ workers'[i] = workers[i]
          \/ workers[i].host = p /\ workers'[i] = [workers[i] EXCEPT !.phase = "dead"]
      BY DEF Die
    <3> QED
      BY <1>2, <2>2, <3>1, <3>2 DEF Dead, Worker
  <2> QED
    BY <2>1, <2>2 DEF Spares, Serving
<1> QED
  BY <1>1, <1>2

\* So do the ends of a call, by return or exception, and the choice to retry.
LEMMA CallSpares ==
    ASSUME TypeOK, NEW c \in Callers
    PROVE  /\ Return(c) => Spares
           /\ Raise(c) => Spares
           /\ \A outcome : Answer(c, outcome) => Spares
<1>1. UNCHANGED <<workers, proc>> => Spares
  BY DEF Spares, Serving
<1>2. Return(c) => Spares
  BY <1>1, DieSpares DEF Return, Procs
<1>3. Raise(c) => Spares
  BY <1>2, DieSpares DEF Raise, Procs
<1>4. \A outcome : Answer(c, outcome) => Spares
  BY <1>1, <1>2 DEF Answer
<1> QED
  BY <1>2, <1>3, <1>4

\* Every step but an insert and a start of the server spares the threads.
LEMMA NextSpares ==
    ASSUME TypeOK, [Next]_vars
    PROVE  Spares \/ StartServer \/ \E c \in Callers : Start(c)
<1>0. UNCHANGED <<workers, proc>> => Spares
  BY DEF Spares, Serving
<1>1. ASSUME NEW c \in Callers, CallerStep(c) \/ TimeOutFault(c), ~Start(c) PROVE Spares
  <2>1. CASE Refuse(c) \/ Collect(c) \/ TimeOut(c) \/ TimeOutFault(c)
    BY <2>1, CallSpares DEF Refuse, Collect, TimeOut, TimeOutFault
  <2>2. CASE LookUp(c) \/ Expire(c)
    BY <1>0, <2>2 DEF LookUp, Expire
  <2>3. CASE Launch(c)
    <3>1. workers' = [workers EXCEPT ![at[c]].phase = "handling"] /\ proc' = proc
      BY <2>3 DEF Launch
    <3>2. \A i \in DOMAIN workers : workers[i] \in Worker
      BY LenProperties, ElementOfSeq DEF TypeOK
    <3>3. \A i \in DOMAIN workers : Dead(workers'[i]) => Dead(workers[i])
      BY <3>1, <3>2 DEF Dead, Worker
    <3> QED
      BY <3>1, <3>3 DEF Spares, Serving
  <2>4. CASE Retry(c)
    BY <1>0, <2>4, CallSpares DEF Retry
  <2> QED
    BY <1>1, <2>1, <2>2, <2>3, <2>4 DEF CallerStep
<1>2. ASSUME NEW i, WorkerStep(i) PROVE Spares
  <2>1. PICK ph \in {"done", "lost"} : Ends(i, ph)
    BY <1>2 DEF WorkerStep, Succeed, Fail, Lose
  <2>2. \A k \in DOMAIN workers : workers[k] \in Worker
    BY LenProperties, ElementOfSeq DEF TypeOK
  <2>3. workers' = [workers EXCEPT ![i].phase = ph] /\ proc' = proc
    BY <2>1 DEF Ends
  <2>4. \A k \in DOMAIN workers : Dead(workers'[k]) => Dead(workers[k])
    BY <2>2, <2>3 DEF Dead, Worker
  <2> QED
    BY <2>3, <2>4 DEF Spares, Serving
<1>3. ASSUME NEW p \in Procs, Crash(p) PROVE Spares
  BY <1>3, DieSpares DEF Crash
<1>4. CASE Exit
  BY <1>4, DieSpares DEF Exit, Procs
<1>5. ASSUME NEW c \in Clis, NEW j \in Jobs, Invoke(c, j) PROVE Spares
  BY <1>5, RunnerAssumption DEF Invoke, Ask, Spares, Serving, TypeOK
<1>6. CASE Ready
  BY <1>6 DEF Ready, Spares, Serving
<1>7. CASE Shutdown \/ Stopped
  BY <1>7 DEF Shutdown, Stopped, Spares, Serving, TypeOK, Procs
<1>8. ASSUME \/ UNCHANGED vars \/ Reconcile \/ Drain
             \/ \E c \in Pool, j \in Jobs : Tick(c, j)
             \/ \E c \in Pool, i \in DOMAIN rows : RetryFailed(c, i)
             \/ \E c \in Handlers, i \in DOMAIN rows, j \in Steps : CallStep(c, i, j)
      PROVE  Spares
  BY <1>0, <1>8 DEF vars, Reconcile, Enter, Drain, Tick, RetryFailed, CallStep, Ask
<1> QED
  BY <1>1, <1>2, <1>3, <1>4, <1>5, <1>6, <1>7, <1>8 DEF Next

\* The server leaves no row of its own past life running when it serves again.
LEMMA NextNoOrphan ==
    ASSUME TypeOK, NoOrphanAfterStart, [Next]_vars
    PROVE  NoOrphanAfterStart'
<1>0. /\ rows \in Seq(JobRun) /\ workers \in Seq(Worker) /\ Len(workers) = Len(rows)
      /\ DOMAIN workers = DOMAIN rows /\ DOMAIN rows = 1..Len(rows)
  BY TypeSplit, DomainsAgree DEF TypeOK
<1>1. NoOrphanAfterStart <=> (Serving => \A i \in RunningRuns(rows) : ~Dead(workers[i]))
  BY DEF NoOrphanAfterStart, Serving, Dead
<1>2. NoOrphanAfterStart' <=> (Serving' => \A i \in RunningRuns(rows') : ~Dead(workers'[i]))
  BY DEF NoOrphanAfterStart, Serving, Dead
<1>3. ASSUME Spares, RunningRuns(rows') \subseteq RunningRuns(rows) PROVE NoOrphanAfterStart'
  BY <1>0, <1>1, <1>2, <1>3 DEF Spares, RunningRuns
<1>4. CASE StartServer
  <2>1. rows' = Transition(rows, RunningRuns(rows), INTERRUPTED) /\ INTERRUPTED \in TerminalStates
    BY <1>4 DEF StartServer, TerminalStates
  <2>2. RunningRuns(rows') = {}
    BY <2>1, SettleRunning
  <2> QED
    BY <1>2, <2>2
<1>5. ASSUME NEW c \in Callers, Start(c) PROVE NoOrphanAfterStart'
  <2> DEFINE n == Len(rows) + 1
             w == [host |-> HostOf(c), phase |-> "unborn", call |-> req[c]]
  <2>1. rows' = Inserted(rows, req[c]) /\ req[c] \in Call /\ proc' = proc
    BY <1>5 DEF Start, TypeOK
  <2>2. /\ DOMAIN rows' = DOMAIN rows \union {n}
        /\ \A i \in DOMAIN rows : rows'[i] = rows[i]
    BY <1>0, <2>1, InsertedCall
  <2>3. w \in Worker /\ workers' = Append(workers, w)
    BY <1>5, Newborn DEF Start, TypeOK
  <2>4. workers'[n] = w /\ \A i \in DOMAIN rows : workers'[i] = workers[i]
    BY <1>0, <2>3, AppendProperties
  <2>5. ~Dead(w)
    BY DEF Dead
  <2> HIDE DEF n, w
  <2> QED
    BY <1>1, <1>2, <2>1, <2>2, <2>4, <2>5 DEF Serving, RunningRuns
<1>6. CASE Spares /\ ~ \E c \in Callers : Start(c)
  <2>1. RunningRuns(rows') \subseteq RunningRuns(rows)
    BY <1>6, RowsStep, SettleRunning
  <2> QED
    BY <1>3, <1>6, <2>1
<1> QED
  BY <1>4, <1>5, <1>6, NextSpares

\* reconcile, on SQLite as on PostgreSQL: a server that serves has no running row
\* whose thread died with an earlier life of it.
THEOREM NoOrphans == Spec => []NoOrphanAfterStart
<1>1. Init => NoOrphanAfterStart
  BY DEF Init, NoOrphanAfterStart, RunningRuns
<1> QED
  BY <1>1, NextNoOrphan, TypeCorrect, PTL DEF Spec
-----------------------------------------------------------------------------
\* No row, no open and no closed attempt.
LEMMA InitExclusion == Init => Exclusion!Init
  BY DEF Init, Exclusion!Init, OpenRuns, ClosedRuns, RunningRun, RunningRuns

\* A start is an Open of the abstract runner, a settling a Close, the rest stutters.
LEMMA NextExclusion ==
    ASSUME TypeOK, AtomicStart, [Next]_vars
    PROVE  [Exclusion!Next]_(Exclusion!vars)
<1>0. /\ UNION {OpenRuns[j] : j \in Jobs} = RunningRuns(rows)
      /\ DOMAIN ClosedRuns = DOMAIN rows \ RunningRuns(rows)
  <2>1. rows \in Seq(JobRun) /\ DOMAIN rows = 1..Len(rows)
    BY LenProperties DEF TypeOK
  <2>2. \A i \in DOMAIN rows : rows[i] \in JobRun
    BY <2>1, ElementOfSeq
  <2>3. \A i \in DOMAIN rows : rows[i].job \in Jobs
    BY <2>2 DEF JobRun
  <2> QED
    BY <2>3 DEF OpenRuns, ClosedRuns, RunningRun, RunningRuns
<1>1. CASE rows' = rows
  BY <1>1 DEF Exclusion!vars, OpenRuns, ClosedRuns
<1>2. ASSUME NEW c \in Callers, Start(c) PROVE Exclusion!Next
  <2> DEFINE n == Len(rows) + 1
             j == req[c].job
  <2>1. /\ DOMAIN rows' = DOMAIN rows \union {n} /\ n \notin DOMAIN rows
        /\ \A i \in DOMAIN rows : rows'[i] = rows[i]
        /\ rows'[n].job = j /\ rows'[n].state = RUNNING
        /\ RunningRun(rows, j) = {} /\ j \in Jobs
    BY <1>2, StartRunning
  <2> HIDE DEF n, j
  <2>2. RunningRuns(rows') = RunningRuns(rows) \union {n}
    BY <2>1 DEF RunningRuns
  <2>3. \A k \in Jobs : RunningRun(rows', k) = IF k = j THEN {n} ELSE RunningRun(rows, k)
    <3> TAKE k \in Jobs
    <3>1. CASE k = j
      BY <2>1, <2>2, <3>1 DEF RunningRun, RunningRuns
    <3>2. CASE k # j
      BY <2>1, <2>2, <3>2 DEF RunningRun, RunningRuns
    <3> QED
      BY <3>1, <3>2
  <2>4. OpenRuns[j] = {} /\ n \notin Exclusion!Attempts
    BY <1>0, <2>1 DEF OpenRuns, Exclusion!Attempts, RunningRuns
  <2>5. OpenRuns' = [OpenRuns EXCEPT ![j] = {n}]
    BY <2>1, <2>3 DEF OpenRuns
  <2>6. n \in OpenRuns'[j]
    BY <2>1, <2>3 DEF OpenRuns
  <2>7. ClosedRuns' = ClosedRuns
    BY <2>1, <2>2 DEF ClosedRuns, RunningRuns
  <2> QED
    BY <2>1, <2>4, <2>5, <2>6, <2>7 DEF Exclusion!Next, Exclusion!Open
<1>3. ASSUME NEW to \in TerminalStates, NEW S \in SUBSET RunningRuns(rows),
             rows' = Transition(rows, S, to)
      PROVE  Exclusion!Next
  <2>1. /\ DOMAIN rows' = DOMAIN rows
        /\ \A i \in DOMAIN rows : rows'[i].job = rows[i].job
        /\ \A i \in S : rows'[i].state = to
        /\ \A i \in DOMAIN rows \ S : rows'[i].state = rows[i].state
        /\ RunningRuns(rows') = RunningRuns(rows) \ S
    BY <1>3, SettleRunning
  <2>2. OpenRuns' = [j \in Jobs |-> OpenRuns[j] \ S]
    BY <2>1 DEF OpenRuns, RunningRun, RunningRuns
  <2>3. DOMAIN rows' \ RunningRuns(rows') = (DOMAIN rows \ RunningRuns(rows)) \union S
    BY <2>1 DEF RunningRuns
  <2>4. ClosedRuns' = [i \in DOMAIN ClosedRuns \union S |->
                         IF i \in S THEN to ELSE ClosedRuns[i]]
    BY <1>0, <2>1, <2>3 DEF ClosedRuns
  <2>5. Exclusion!Close(S, to)
    BY <1>0, <2>2, <2>4 DEF Exclusion!Close
  <2> QED
    BY <1>0, <2>5 DEF Exclusion!Next
<1> QED
  BY <1>1, <1>2, <1>3, RowsStep

\* The ledger's docstring, for any instance: seen through its open and closed
\* attempts, the runner is the abstract JobExclusion.
THEOREM Implementation == ASSUME AtomicStart PROVE Spec => ImplementsExclusion
<1>1. TypeOK /\ [Next]_vars => [Exclusion!Next]_(Exclusion!vars)
  BY NextExclusion
<1> QED
  BY <1>1, InitExclusion, TypeCorrect, PTL DEF Spec, ImplementsExclusion, Exclusion!Spec
-----------------------------------------------------------------------------
\* A caller about to insert, and the callers and rows that repeat row i of the runner's own.
Asks(c)         == pc[c] \in {"admit", "checked"}
AskRepeats(c, i) == Asks(c) /\ req[c].own /\ req[c].after = i
RowRepeats(k, i) == workers[k].call.own /\ workers[k].call.after = i

Taken(i) == (\E k \in DOMAIN rows : RowRepeats(k, i)) \/ (\E c \in Callers : AskRepeats(c, i))

\* What a call repeats has ended failed or interrupted; attempt n + 1 repeats attempt n.
Good(r) ==
    /\ r.after # 0 => r.after \in DOMAIN rows /\ rows[r.after].state \in Repeatable
    /\ r.attempt > 1 => /\ r.after # 0
                        /\ rows[r.after].job = r.job /\ rows[r.after].run = r.run
                        /\ rows[r.after].attempt + 1 = r.attempt
    /\ r.own => r.after # 0

\* A row is what its call asked for, and comes after the row it repeats.
Lineage ==
    \A k \in DOMAIN rows :
        /\ Good(workers[k].call) /\ workers[k].call.after < k
        /\ rows[k].job = workers[k].call.job /\ rows[k].attempt = workers[k].call.attempt
        /\ workers[k].call.run # 0 => rows[k].run = workers[k].call.run

GoodCalls == \A c \in Callers : Asks(c) => Good(req[c])

\* The runner's own repetitions of a row, made or asked for, are one.
OneClaim ==
    \A i \in DOMAIN rows :
        /\ \A k, l \in DOMAIN rows : RowRepeats(k, i) /\ RowRepeats(l, i) => k = l
        /\ \A k \in DOMAIN rows, c \in Callers : RowRepeats(k, i) => ~AskRepeats(c, i)
        /\ \A c, d \in Callers : AskRepeats(c, i) /\ AskRepeats(d, i) => c = d

\* A caller past _start has a row of its own, that of its request.
OwnRow ==
    \A c \in Callers : pc[c] \in HasRow =>
        /\ rows[at[c]].job = req[c].job /\ rows[at[c]].attempt = req[c].attempt
        /\ pc[c] = "backoff" => rows[at[c]].state = FAILED
        /\ \A d \in Callers : pc[d] \in HasRow /\ at[d] = at[c] => c = d

\* The right to repeat a row lies with the caller that waits for the failed one ...
MayRetry ==
    \A c \in Callers : pc[c] \in HasRow /\ rows[at[c]].state = FAILED => ~Taken(at[c])

\* ... or with reconcile, for the row it interrupted.
MayResume == \A i \in todo : rows[i].state = INTERRUPTED /\ ~Taken(i)

AttemptInv ==
    TypeOK /\ Lineage /\ GoodCalls /\ OneClaim /\ OwnRow /\ MayRetry /\ MayResume
-----------------------------------------------------------------------------
\* What a step may do to the table without adding to it: rows settle.
Settles ==
    /\ DOMAIN rows' = DOMAIN rows
    /\ \A i \in DOMAIN rows :
         /\ rows'[i].job = rows[i].job /\ rows'[i].run = rows[i].run
         /\ rows'[i].attempt = rows[i].attempt
         /\ \/ rows'[i].state = rows[i].state
            \/ rows[i].state = RUNNING /\ rows'[i].state \in TerminalStates

\* A thread keeps the call it was born for.
CallsKept == \A i \in DOMAIN rows : workers'[i].call = workers[i].call

\* What a step may do to one caller, short of repeating a row of the runner's own accord.
Proceeds(c) ==
    \/ pc'[c] = "idle"
    \/ /\ pc[c] \in HasRow /\ pc'[c] \in HasRow /\ req'[c] = req[c] /\ at'[c] = at[c]
       /\ pc'[c] = "backoff" => rows'[at[c]].state = FAILED
    \/ /\ pc[c] \in {"admit", "checked"} /\ pc'[c] \in {"admit", "checked"} /\ req'[c] = req[c]
    \/ pc'[c] = "admit" /\ ~req'[c].own /\ Good(req'[c])

\* Rows that reconcile is to run again were so before, or have just been interrupted.
Queues ==
    \A i \in todo' : i \in todo \/ (i \in DOMAIN rows /\ rows[i].state = RUNNING /\ rows'[i].state = INTERRUPTED)

Ordinary == Settles /\ Queues /\ \A c \in Callers : Proceeds(c)

\* Rows, threads, requests and their fields are what TypeOK says.
LEMMA Shapes ==
    ASSUME TypeOK
    PROVE  /\ rows \in Seq(JobRun) /\ DOMAIN rows = 1..Len(rows) /\ Len(rows) \in Nat
           /\ \A i \in DOMAIN rows : /\ rows[i] \in JobRun /\ rows[i].attempt \in Nat \ {0}
                                     /\ rows[i].run \in 1..i /\ rows[i].state \in RunStates
                                     /\ workers[i] \in Worker /\ workers[i].call \in Call
           /\ DOMAIN workers = DOMAIN rows
           /\ \A c \in Callers : /\ req[c] \in Call /\ req[c].attempt \in Nat \ {0}
                                 /\ req[c].run \in 0..Len(rows) /\ req[c].after \in Nat
                                 /\ pc[c] \in CallerStates
                                 /\ pc[c] \in HasRow => at[c] \in DOMAIN rows
           /\ todo \subseteq DOMAIN rows
<1>1. /\ rows \in Seq(JobRun) /\ DOMAIN rows = 1..Len(rows) /\ Len(rows) \in Nat
      /\ DOMAIN workers = 1..Len(rows) /\ workers \in Seq(Worker)
  BY LenProperties DEF TypeOK
<1>2. \A i \in DOMAIN rows : rows[i] \in JobRun /\ workers[i] \in Worker
  BY <1>1, ElementOfSeq
<1>3. \A i \in DOMAIN rows : /\ rows[i].attempt \in Nat \ {0} /\ rows[i].run \in 1..i
                             /\ rows[i].state \in RunStates /\ workers[i].call \in Call
  BY <1>2 DEF JobRun, Worker, TypeOK
<1>4. \A c \in Callers : req[c] \in Call /\ req[c].attempt \in Nat \ {0} /\ req[c].after \in Nat
  BY DEF TypeOK, Call
<1> QED
  BY <1>1, <1>2, <1>3, <1>4 DEF TypeOK

\* What is taken has ended failed or interrupted.
LEMMA TakenEnded ==
    ASSUME Lineage, GoodCalls, NEW i, Taken(i)
    PROVE  i \in DOMAIN rows /\ rows[i].state \in Repeatable
<1>1. ASSUME NEW k \in DOMAIN rows, RowRepeats(k, i) PROVE i \in DOMAIN rows /\ rows[i].state \in Repeatable
  BY <1>1 DEF RowRepeats, Lineage, Good
<1>2. ASSUME NEW c \in Callers, AskRepeats(c, i) PROVE i \in DOMAIN rows /\ rows[i].state \in Repeatable
  BY <1>2 DEF AskRepeats, GoodCalls, Good
<1> QED
  BY <1>1, <1>2 DEF Taken

\* A call stays good while rows settle.
LEMMA GoodSettles ==
    ASSUME Settles, NEW r, Good(r)
    PROVE  Good(r)'
<1>1. /\ DOMAIN rows' = DOMAIN rows
      /\ \A i \in DOMAIN rows : /\ rows'[i].job = rows[i].job /\ rows'[i].run = rows[i].run
                                /\ rows'[i].attempt = rows[i].attempt
                                /\ rows[i].state \in Repeatable => rows'[i].state = rows[i].state
  BY DEF Settles, Repeatable, RUNNING, FAILED, INTERRUPTED
<1> QED
  BY <1>1 DEF Good

\* An ordinary step takes no row, and gives nobody the right to one who had it not.
LEMMA OrdinaryKeeps ==
    ASSUME AttemptInv, Ordinary, CallsKept, TypeOK'
    PROVE  AttemptInv'
<1>1. /\ TypeOK /\ Lineage /\ GoodCalls /\ OneClaim /\ OwnRow /\ MayRetry /\ MayResume
      /\ Settles /\ Queues /\ \A c \in Callers : Proceeds(c)
  BY DEF AttemptInv, Ordinary
<1>2. /\ DOMAIN rows' = DOMAIN rows
      /\ \A i \in DOMAIN rows : /\ rows'[i].job = rows[i].job /\ rows'[i].run = rows[i].run
                                /\ rows'[i].attempt = rows[i].attempt
                                /\ rows[i].state # RUNNING => rows'[i].state = rows[i].state
  BY <1>1 DEF Settles
<1>3. \A c \in Callers : Asks(c)' => \/ Asks(c) /\ req'[c] = req[c]
                                     \/ ~req'[c].own /\ Good(req'[c])
  BY <1>1 DEF Proceeds, Asks, HasRow
<1>4. \A k \in DOMAIN rows, i \in DOMAIN rows : RowRepeats(k, i)' <=> RowRepeats(k, i)
  BY DEF RowRepeats, CallsKept
<1>5. \A c \in Callers, i \in DOMAIN rows : AskRepeats(c, i)' => AskRepeats(c, i)
  BY <1>3 DEF AskRepeats
<1>6. \A i \in DOMAIN rows : Taken(i)' => Taken(i)
  BY <1>2, <1>4, <1>5 DEF Taken
<1>7. \A i \in DOMAIN rows : rows[i].state = RUNNING => ~Taken(i)'
  BY <1>1, <1>6, TakenEnded DEF Repeatable, RUNNING, FAILED, INTERRUPTED
<1>8. \A c \in Callers : pc'[c] \in HasRow =>
         /\ pc[c] \in HasRow /\ req'[c] = req[c] /\ at'[c] = at[c] /\ at[c] \in DOMAIN rows
         /\ pc'[c] = "backoff" => rows'[at[c]].state = FAILED
  BY <1>1, Shapes DEF Proceeds, HasRow
<1>9. Lineage'
  <2>1. ASSUME NEW k \in DOMAIN rows, NEW r, r = workers[k].call, workers'[k].call = r
        PROVE  /\ Good(r)' /\ r.after < k
               /\ rows'[k].job = r.job /\ rows'[k].attempt = r.attempt
               /\ r.run # 0 => rows'[k].run = r.run
    <3>1. Good(r) /\ r.after < k /\ rows[k].job = r.job /\ rows[k].attempt = r.attempt
          /\ (r.run # 0 => rows[k].run = r.run)
      BY <1>1, <2>1 DEF Lineage
    <3>2. Good(r)'
      BY <1>1, <3>1, GoodSettles
    <3> QED
      BY <1>2, <3>1, <3>2
  <2>2. ASSUME NEW k \in DOMAIN rows
        PROVE  /\ Good(workers[k].call)' /\ workers'[k].call.after < k
               /\ rows'[k].job = workers'[k].call.job /\ rows'[k].attempt = workers'[k].call.attempt
               /\ workers'[k].call.run # 0 => rows'[k].run = workers'[k].call.run
    <3>1. PICK r : r = workers[k].call /\ r = workers'[k].call
      BY DEF CallsKept
    <3>2. /\ Good(r)' /\ r.after < k
          /\ rows'[k].job = r.job /\ rows'[k].attempt = r.attempt
          /\ r.run # 0 => rows'[k].run = r.run
      BY <2>1, <3>1
    <3> QED
      BY <3>1, <3>2 DEF Good
  <2> QED
    BY <1>2, <2>2 DEF Lineage
<1>10. GoodCalls'
  <2>1. ASSUME NEW c \in Callers, Asks(c)', NEW r, r = req'[c] PROVE Good(r)'
    BY <1>1, <1>3, <2>1, GoodSettles DEF GoodCalls
  <2>2. ASSUME NEW c \in Callers, Asks(c)' PROVE Good(req[c])'
    <3>1. PICK r : r = req'[c]
      OBVIOUS
    <3>2. Good(r)'
      BY <2>1, <2>2, <3>1
    <3> QED
      BY <3>1, <3>2 DEF Good
  <2> QED
    BY <2>2 DEF GoodCalls
<1>11. OneClaim'
  BY <1>1, <1>2, <1>4, <1>5 DEF OneClaim
<1>12. OwnRow'
  BY <1>1, <1>2, <1>8 DEF OwnRow
<1>13. MayRetry'
  <2>1. ASSUME NEW c \in Callers, NEW i, i = at[c], pc'[c] \in HasRow, rows'[i].state = FAILED
        PROVE  i = at'[c] /\ ~Taken(i)'
    <3>1. i \in DOMAIN rows /\ pc[c] \in HasRow /\ i = at'[c]
      BY <1>8, <2>1
    <3>2. CASE rows[i].state = RUNNING
      BY <1>7, <3>1, <3>2
    <3>3. CASE rows[i].state = FAILED
      <4>1. ~Taken(i)
        BY <1>1, <2>1, <3>1, <3>3 DEF MayRetry, Taken, AskRepeats, RowRepeats
      <4> QED
        BY <1>6, <3>1, <4>1
    <3> QED
      BY <1>2, <2>1, <3>1, <3>2, <3>3
  <2>2. ASSUME NEW c \in Callers, pc'[c] \in HasRow, rows'[at'[c]].state = FAILED
        PROVE  ~Taken(at[c])'
    <3>1. PICK i : i = at[c] /\ i = at'[c]
      BY <1>8, <2>2
    <3>2. ~Taken(i)'
      BY <2>1, <2>2, <3>1
    <3> QED
      BY <3>1, <3>2 DEF Taken, AskRepeats, RowRepeats
  <2> QED
    BY <2>2 DEF MayRetry
<1>14. MayResume'
  <2>1. ASSUME NEW i \in todo'
        PROVE  rows'[i].state = INTERRUPTED /\ ~Taken(i)'
    <3>1. CASE i \in todo
      <4>1. i \in DOMAIN rows /\ rows[i].state = INTERRUPTED /\ ~Taken(i)
        BY <1>1, <3>1, Shapes DEF MayResume
      <4> QED
        BY <1>2, <1>6, <4>1 DEF RUNNING, INTERRUPTED
    <3>2. CASE i \in DOMAIN rows /\ rows[i].state = RUNNING /\ rows'[i].state = INTERRUPTED
      BY <1>7, <3>2
    <3> QED
      BY <1>1, <2>1, <3>1, <3>2 DEF Queues
  <2> QED
    BY <2>1 DEF MayResume
<1> QED
  BY <1>9, <1>10, <1>11, <1>12, <1>13, <1>14 DEF AttemptInv

\* A caller repeats row i for the runner, the row being nobody else's to repeat.
Again(c, i) ==
    /\ i \in DOMAIN rows /\ rows[i].state \in Repeatable /\ ~Taken(i)
    /\ ~Asks(c)
    /\ \A d \in Callers : d # c /\ pc[d] \in HasRow /\ rows[at[d]].state = FAILED => at[d] # i
    /\ i \notin todo' /\ todo' \subseteq todo
    /\ rows' = rows /\ at' = at
    /\ \E r : Enter(c, r) /\ r.own /\ r.after = i /\ Good(r)

\* Asking to repeat a row takes the right to it.
LEMMA AgainKeeps ==
    ASSUME AttemptInv, TypeOK', CallsKept, NEW c \in Callers, NEW i, Again(c, i)
    PROVE  AttemptInv'
<1>1. /\ TypeOK /\ Lineage /\ GoodCalls /\ OneClaim /\ OwnRow /\ MayRetry /\ MayResume
  BY DEF AttemptInv
<1>2. /\ i \in DOMAIN rows /\ rows[i].state \in Repeatable /\ ~Taken(i) /\ ~Asks(c)
      /\ rows' = rows /\ at' = at /\ todo' \subseteq todo /\ i \notin todo'
  BY DEF Again
<1>3. PICK r : Enter(c, r) /\ r.own /\ r.after = i /\ Good(r)
  BY DEF Again
<1>4. /\ pc'[c] = "admit" /\ req'[c] = r
      /\ \A d \in Callers \ {c} : pc'[d] = pc[d] /\ req'[d] = req[d]
  BY <1>1, <1>3 DEF Enter, TypeOK
<1>5. /\ Asks(c)' /\ \A d \in Callers \ {c} : Asks(d)' <=> Asks(d)
  BY <1>4 DEF Asks
<1>6. \A s : Good(s) => Good(s)'
  BY <1>2 DEF Good
<1>7. \A k \in DOMAIN rows, l \in DOMAIN rows : RowRepeats(k, l)' <=> RowRepeats(k, l)
  BY DEF RowRepeats, CallsKept
<1>8. /\ \A d \in Callers \ {c}, l \in DOMAIN rows : AskRepeats(d, l)' <=> AskRepeats(d, l)
      /\ \A l \in DOMAIN rows : AskRepeats(c, l)' => l = i
  BY <1>3, <1>4, <1>5 DEF AskRepeats
<1>9. \A l \in DOMAIN rows : Taken(l)' => Taken(l) \/ l = i
  BY <1>2, <1>7, <1>8 DEF Taken
<1>10. Lineage'
  <2>1. ASSUME NEW k \in DOMAIN rows, NEW s, s = workers[k].call, workers'[k].call = s
        PROVE  /\ Good(s)' /\ s.after < k
               /\ rows'[k].job = s.job /\ rows'[k].attempt = s.attempt
               /\ s.run # 0 => rows'[k].run = s.run
    BY <1>1, <1>2, <1>6, <2>1 DEF Lineage
  <2>2. ASSUME NEW k \in DOMAIN rows
        PROVE  /\ Good(workers[k].call)' /\ workers'[k].call.after < k
               /\ rows'[k].job = workers'[k].call.job /\ rows'[k].attempt = workers'[k].call.attempt
               /\ workers'[k].call.run # 0 => rows'[k].run = workers'[k].call.run
    <3>1. PICK s : s = workers[k].call /\ s = workers'[k].call
      BY DEF CallsKept
    <3>2. /\ Good(s)' /\ s.after < k
          /\ rows'[k].job = s.job /\ rows'[k].attempt = s.attempt
          /\ s.run # 0 => rows'[k].run = s.run
      BY <2>1, <3>1
    <3> QED
      BY <3>1, <3>2 DEF Good
  <2> QED
    BY <1>2, <2>2 DEF Lineage
<1>11. GoodCalls'
  <2>1. ASSUME NEW d \in Callers, Asks(d)' PROVE Good(req[d])'
    <3>1. PICK s : s = req'[d]
      OBVIOUS
    <3>2. Good(s)
      BY <1>1, <1>3, <1>4, <1>5, <2>1, <3>1 DEF GoodCalls
    <3>3. Good(s)'
      BY <1>6, <3>2
    <3> QED
      BY <3>1, <3>3 DEF Good
  <2> QED
    BY <2>1 DEF GoodCalls
<1>12. OneClaim'
  <2>1. ASSUME NEW l \in DOMAIN rows, l # i
        PROVE  /\ \A k, m \in DOMAIN rows : RowRepeats(k, l)' /\ RowRepeats(m, l)' => k = m
               /\ \A k \in DOMAIN rows, d \in Callers : RowRepeats(k, l)' => ~AskRepeats(d, l)'
               /\ \A d, e \in Callers : AskRepeats(d, l)' /\ AskRepeats(e, l)' => d = e
    <3>1. \A d \in Callers : AskRepeats(d, l)' => AskRepeats(d, l)
      BY <1>8, <2>1
    <3> QED
      BY <1>1, <1>7, <3>1 DEF OneClaim
  <2>2. /\ \A k \in DOMAIN rows : ~RowRepeats(k, i)'
        /\ \A d \in Callers : AskRepeats(d, i)' => d = c
    BY <1>2, <1>7, <1>8 DEF Taken
  <2> QED
    BY <1>2, <2>1, <2>2 DEF OneClaim
<1>13. \A d \in Callers : pc'[d] \in HasRow => d # c
  BY <1>4 DEF HasRow
<1>14. OwnRow'
  BY <1>1, <1>2, <1>4, <1>13 DEF OwnRow
<1>15. MayRetry'
  <2>1. ASSUME NEW d \in Callers, pc'[d] \in HasRow, rows[at[d]].state = FAILED
        PROVE  ~Taken(at[d])'
    <3>1. d # c /\ pc[d] \in HasRow /\ at[d] \in DOMAIN rows
      BY <1>1, <1>4, <1>13, <2>1, Shapes
    <3>2. PICK k \in DOMAIN rows : k = at[d]
      BY <3>1
    <3>3. k # i /\ ~Taken(k)
      BY <1>1, <2>1, <3>1, <3>2 DEF Again, MayRetry, Taken, RowRepeats, AskRepeats
    <3>4. ~Taken(k)'
      BY <1>9, <3>2, <3>3
    <3> QED
      BY <1>2, <3>2, <3>4 DEF Taken, RowRepeats, AskRepeats
  <2> QED
    BY <1>2, <2>1 DEF MayRetry
<1>16. MayResume'
  <2>1. ASSUME NEW k \in todo' PROVE rows[k].state = INTERRUPTED /\ ~Taken(k)'
    <3>1. k \in DOMAIN rows /\ k # i /\ rows[k].state = INTERRUPTED /\ ~Taken(k)
      BY <1>1, <1>2, <2>1, Shapes DEF MayResume
    <3> QED
      BY <1>9, <3>1
  <2> QED
    BY <1>2, <2>1 DEF MayResume
<1> QED
  BY <1>10, <1>11, <1>12, <1>14, <1>15, <1>16 DEF AttemptInv

\* A start turns what its caller asked for into a row.
LEMMA StartKeeps ==
    ASSUME AttemptInv, TypeOK', NEW c \in Callers, Start(c)
    PROVE  AttemptInv'
<1> DEFINE n == Len(rows) + 1
           w == [host |-> HostOf(c), phase |-> "unborn", call |-> req[c]]
<1>1. /\ TypeOK /\ Lineage /\ GoodCalls /\ OneClaim /\ OwnRow /\ MayRetry /\ MayResume
  BY DEF AttemptInv
<1>2. PICK m, r : m = n /\ r = req[c]
  OBVIOUS
<1>3. /\ DOMAIN rows' = DOMAIN rows \union {m} /\ m \notin DOMAIN rows
      /\ \A i \in DOMAIN rows : rows'[i] = rows[i] /\ i < m
      /\ rows'[m].job = r.job /\ rows'[m].attempt = r.attempt /\ rows'[m].state = RUNNING
      /\ r.run # 0 => rows'[m].run = r.run
      /\ DOMAIN rows = 1..(m - 1) /\ m \in Nat \ {0}
  <2>1. rows' = Inserted(rows, req[c]) /\ rows \in Seq(JobRun) /\ req[c] \in Call
    BY <1>1, Shapes DEF Start
  <2>2. Len(rows) \in Nat /\ DOMAIN rows = 1..Len(rows)
    BY <1>1, Shapes
  <2>3. /\ DOMAIN rows' = DOMAIN rows \union {n} /\ n \notin DOMAIN rows
        /\ \A i \in DOMAIN rows : rows'[i] = rows[i]
        /\ rows'[n].job = req[c].job /\ rows'[n].attempt = req[c].attempt /\ rows'[n].state = RUNNING
        /\ rows'[n].run = IF req[c].run = 0 THEN n ELSE req[c].run
    BY <2>1, InsertedCall
  <2>4. m - 1 = Len(rows) /\ m \in Nat \ {0}
    BY <1>2, <2>2
  <2>5. \A i \in DOMAIN rows : i < m
    BY <1>2, <2>2
  <2> HIDE DEF n
  <2> QED
    BY <1>2, <2>2, <2>3, <2>4, <2>5
<1>4. workers'[m].call = r /\ \A i \in DOMAIN rows : workers'[i] = workers[i]
  <2>1. /\ w \in Worker /\ workers \in Seq(Worker) /\ workers' = Append(workers, w)
        /\ DOMAIN rows = 1..Len(rows) /\ Len(workers) = Len(rows)
    BY <1>1, Shapes, Newborn DEF Start, TypeOK
  <2>2. workers'[n] = w /\ \A i \in DOMAIN rows : workers'[i] = workers[i]
    BY <2>1, AppendProperties
  <2>3. w.call = req[c]
    OBVIOUS
  <2> HIDE DEF n, w
  <2> QED
    BY <1>2, <2>2, <2>3
<1>5. /\ pc'[c] = "started" /\ at'[c] = m /\ req' = req /\ todo' = todo
      /\ \A d \in Callers \ {c} : pc'[d] = pc[d] /\ at'[d] = at[d]
      /\ Asks(c)
  BY <1>1, <1>2 DEF Start, TypeOK, Asks
<1> HIDE DEF n, w
<1>6. ~Asks(c)' /\ \A d \in Callers : Asks(d)' => d # c /\ Asks(d)
  BY <1>5 DEF Asks
<1>7. Good(r) /\ r.after \in Nat
  BY <1>1, <1>2, <1>5, Shapes DEF GoodCalls
<1>8. \A s : Good(s) => Good(s)'
  BY <1>3 DEF Good
<1>9. /\ \A k, i \in DOMAIN rows : RowRepeats(k, i)' <=> RowRepeats(k, i)
      /\ \A i \in DOMAIN rows : RowRepeats(m, i)' <=> AskRepeats(c, i)
  BY <1>2, <1>4, <1>5 DEF RowRepeats, AskRepeats
<1>10. \A d \in Callers, i \in DOMAIN rows : AskRepeats(d, i)' => d # c /\ AskRepeats(d, i)
  BY <1>5, <1>6 DEF AskRepeats
<1>11. \A i \in DOMAIN rows : Taken(i)' => Taken(i)
  BY <1>3, <1>9, <1>10 DEF Taken
<1>12. Lineage'
  <2>1. ASSUME NEW k \in DOMAIN rows', NEW s, s = workers'[k].call
        PROVE  /\ Good(s)' /\ s.after < k
               /\ rows'[k].job = s.job /\ rows'[k].attempt = s.attempt
               /\ s.run # 0 => rows'[k].run = s.run
    <3>1. CASE k = m
      <4>1. s = r /\ Good(s) /\ r.after < m
        BY <1>3, <1>4, <1>7, <2>1, <3>1 DEF Good
      <4> QED
        BY <1>3, <1>8, <3>1, <4>1
    <3>2. CASE k \in DOMAIN rows
      <4>1. /\ s = workers[k].call /\ Good(s) /\ s.after < k
            /\ rows[k].job = s.job /\ rows[k].attempt = s.attempt
            /\ s.run # 0 => rows[k].run = s.run
        BY <1>1, <1>4, <2>1, <3>2 DEF Lineage
      <4> QED
        BY <1>3, <1>8, <3>2, <4>1
    <3> QED
      BY <1>3, <3>1, <3>2
  <2>2. ASSUME NEW k \in DOMAIN rows'
        PROVE  /\ Good(workers[k].call)' /\ workers'[k].call.after < k
               /\ rows'[k].job = workers'[k].call.job /\ rows'[k].attempt = workers'[k].call.attempt
               /\ workers'[k].call.run # 0 => rows'[k].run = workers'[k].call.run
    <3>1. PICK s : s = workers'[k].call
      OBVIOUS
    <3>2. /\ Good(s)' /\ s.after < k
          /\ rows'[k].job = s.job /\ rows'[k].attempt = s.attempt
          /\ s.run # 0 => rows'[k].run = s.run
      BY <2>1, <3>1
    <3> QED
      BY <3>1, <3>2 DEF Good
  <2> QED
    BY <2>2 DEF Lineage
<1>13. GoodCalls'
  <2>1. ASSUME NEW d \in Callers, Asks(d)' PROVE Good(req[d])'
    <3>1. PICK s : s = req[d] /\ s = req'[d]
      BY <1>5
    <3>2. Good(s)'
      BY <1>1, <1>6, <1>8, <2>1, <3>1 DEF GoodCalls
    <3> QED
      BY <3>1, <3>2 DEF Good
  <2> QED
    BY <2>1 DEF GoodCalls
<1>15. \A d \in Callers : ~AskRepeats(d, m)'
  <2>1. ASSUME NEW d \in Callers, Asks(d)', req[d].own, req[d].after = m PROVE FALSE
    <3>1. Good(req[d])
      BY <1>1, <1>6, <2>1 DEF GoodCalls
    <3> QED
      BY <1>3, <2>1, <3>1 DEF Good
  <2> QED
    BY <1>5, <2>1 DEF AskRepeats
<1>16. OneClaim'
  <2>1. ASSUME NEW i \in DOMAIN rows
        PROVE  /\ \A k, l \in DOMAIN rows' : RowRepeats(k, i)' /\ RowRepeats(l, i)' => k = l
               /\ \A k \in DOMAIN rows', d \in Callers : RowRepeats(k, i)' => ~AskRepeats(d, i)'
               /\ \A d, e \in Callers : AskRepeats(d, i)' /\ AskRepeats(e, i)' => d = e
    <3>1. ASSUME NEW k \in DOMAIN rows', NEW l \in DOMAIN rows', RowRepeats(k, i)', RowRepeats(l, i)'
          PROVE  k = l
      <4>1. CASE k = m /\ l = m
        BY <4>1
      <4>2. CASE k \in DOMAIN rows /\ l \in DOMAIN rows
        BY <1>1, <1>9, <3>1, <4>2 DEF OneClaim
      <4>3. CASE (k = m /\ l \in DOMAIN rows) \/ (l = m /\ k \in DOMAIN rows)
        BY <1>1, <1>9, <3>1, <4>3 DEF OneClaim
      <4> QED
        BY <1>3, <4>1, <4>2, <4>3
    <3>2. ASSUME NEW k \in DOMAIN rows', NEW d \in Callers, RowRepeats(k, i)', AskRepeats(d, i)'
          PROVE  FALSE
      <4>1. d # c /\ AskRepeats(d, i)
        BY <1>10, <3>2
      <4>2. CASE k = m
        BY <1>1, <1>9, <3>2, <4>1, <4>2 DEF OneClaim
      <4>3. CASE k \in DOMAIN rows
        BY <1>1, <1>9, <3>2, <4>1, <4>3 DEF OneClaim
      <4> QED
        BY <1>3, <4>2, <4>3
    <3>3. \A d, e \in Callers : AskRepeats(d, i)' /\ AskRepeats(e, i)' => d = e
      BY <1>1, <1>10 DEF OneClaim
    <3> QED
      BY <3>1, <3>2, <3>3
  <2>2. /\ \A k \in DOMAIN rows' : ~RowRepeats(k, m)'
        /\ \A d \in Callers : ~AskRepeats(d, m)'
    <3>1. \A k \in DOMAIN rows' : ~RowRepeats(k, m)'
      BY <1>3, <1>12 DEF RowRepeats, Lineage
    <3> QED
      BY <3>1, <1>15
  <2>3. \A i \in DOMAIN rows' : i \in DOMAIN rows \/ i = m
    BY <1>3
  <2> QED
    BY <2>1, <2>2, <2>3 DEF OneClaim
<1>17. \A d \in Callers : pc'[d] \in HasRow => d = c \/ (d # c /\ pc[d] \in HasRow /\ at[d] \in DOMAIN rows)
  BY <1>1, <1>5, Shapes
<1>18. OwnRow'
  <2>1. rows'[m].job = req[c].job /\ rows'[m].attempt = req[c].attempt
    BY <1>2, <1>3
  <2>2. ASSUME NEW d \in Callers, pc'[d] \in HasRow
        PROVE  /\ rows'[at'[d]].job = req[d].job /\ rows'[at'[d]].attempt = req[d].attempt
               /\ pc'[d] = "backoff" => rows'[at'[d]].state = FAILED
               /\ \A e \in Callers : pc'[e] \in HasRow /\ at'[e] = at'[d] => d = e
    <3>1. CASE d = c
      BY <1>3, <1>5, <1>17, <2>1, <3>1
    <3>2. CASE d # c
      BY <1>1, <1>3, <1>5, <1>17, <2>2, <3>2 DEF OwnRow
    <3> QED
      BY <3>1, <3>2
  <2> QED
    BY <1>5, <2>2 DEF OwnRow
<1>19. MayRetry'
  <2>1. ASSUME NEW d \in Callers, pc'[d] \in HasRow, rows'[at'[d]].state = FAILED
        PROVE  ~Taken(at[d])'
    <3>1. d # c
      BY <1>3, <1>5, <2>1 DEF RUNNING, FAILED
    <3>2. /\ at'[d] = at[d] /\ at[d] \in DOMAIN rows /\ pc[d] \in HasRow
          /\ rows[at[d]].state = FAILED
      BY <1>3, <1>5, <1>17, <2>1, <3>1
    <3>3. PICK i \in DOMAIN rows : i = at[d]
      BY <3>2
    <3>4. ~Taken(i)
      BY <1>1, <3>2, <3>3 DEF MayRetry, Taken, RowRepeats, AskRepeats
    <3>5. ~Taken(i)'
      BY <1>11, <3>3, <3>4
    <3> QED
      BY <3>2, <3>3, <3>5 DEF Taken, RowRepeats, AskRepeats
  <2> QED
    BY <2>1 DEF MayRetry
<1>20. MayResume'
  <2>1. ASSUME NEW k \in todo PROVE rows'[k].state = INTERRUPTED /\ ~Taken(k)'
    <3>1. k \in DOMAIN rows /\ rows[k].state = INTERRUPTED /\ ~Taken(k)
      BY <1>1, <2>1, Shapes DEF MayResume
    <3> QED
      BY <1>3, <1>11, <3>1
  <2> QED
    BY <1>5, <2>1 DEF MayResume
<1> QED
  BY <1>12, <1>13, <1>16, <1>18, <1>19, <1>20 DEF AttemptInv
-----------------------------------------------------------------------------
\* Settling, or leaving, the rows; a caller that goes on with what it was doing.
LEMMA SettlesFacts ==
    ASSUME TypeOK
    PROVE  /\ rows' = rows => Settles
           /\ \A S, to : to \in TerminalStates /\ rows' = Transition(rows, S, to) => Settles
<1>1. rows' = rows => Settles
  BY DEF Settles
<1>2. ASSUME NEW S, NEW to \in TerminalStates, rows' = Transition(rows, S, to) PROVE Settles
  <2>1. rows \in Seq(JobRun) /\ to \in RunStates
    BY Shapes DEF RunStates
  <2> QED
    BY <1>2, <2>1, TransitionFacts DEF Settles
<1> QED
  BY <1>1, <1>2

\* Callers that a step releases, or leaves where they were.
Quiet ==
    /\ todo' \subseteq todo
    /\ \A d \in Callers : pc'[d] = "idle" \/ (pc'[d] = pc[d] /\ req'[d] = req[d] /\ at'[d] = at[d])

\* A caller that is released, or stays, proceeds.
LEMMA StaysProceeds ==
    ASSUME AttemptInv, Settles, NEW d \in Callers,
           pc'[d] = "idle" \/ (pc'[d] = pc[d] /\ req'[d] = req[d] /\ at'[d] = at[d])
    PROVE  Proceeds(d)
<1>1. TypeOK /\ OwnRow
  BY DEF AttemptInv
<1>2. CASE pc[d] \in HasRow /\ pc'[d] = pc[d] /\ req'[d] = req[d] /\ at'[d] = at[d]
  <2>1. at[d] \in DOMAIN rows
    BY <1>1, <1>2, Shapes
  <2>2. pc[d] = "backoff" => rows'[at[d]].state = FAILED
    BY <1>1, <1>2, <2>1 DEF OwnRow, Settles, FAILED, RUNNING
  <2> QED
    BY <1>2, <2>2 DEF Proceeds
<1>3. CASE pc[d] \notin HasRow /\ pc'[d] = pc[d] /\ req'[d] = req[d] /\ at'[d] = at[d]
  <2>1. pc[d] \in CallerStates
    BY <1>1, Shapes
  <2> QED
    BY <1>3, <2>1 DEF Proceeds, CallerStates
<1> QED
  BY <1>2, <1>3 DEF Proceeds

\* A step in which rows settle and callers are released is ordinary.
LEMMA QuietOrdinary ==
    ASSUME AttemptInv, Settles, Quiet
    PROVE  Ordinary
<1>1. \A d \in Callers : Proceeds(d)
  BY StaysProceeds DEF Quiet
<1> QED
  BY <1>1 DEF Ordinary, Queues, Quiet

\* Calls that end, by return, exception or the death of their process.
LEMMA EndsQuiet ==
    ASSUME NEW c \in Callers
    PROVE  /\ \A p : Die(p) => Quiet
           /\ Return(c) => Quiet
           /\ Raise(c) => Quiet
<1>1. \A C : Release(C) => \A d \in Callers :
                 pc'[d] = "idle" \/ (pc'[d] = pc[d] /\ req'[d] = req[d] /\ at'[d] = at[d])
  BY DEF Release
<1>2. \A p : Die(p) => Quiet
  BY <1>1 DEF Die, Quiet
<1>3. Return(c) => Quiet
  BY <1>1, <1>2 DEF Return, Quiet
<1> QED
  BY <1>2, <1>3 DEF Raise

\* An attempt answered: its caller returns, or goes to its backoff after a failure.
LEMMA AnswerOrdinary ==
    ASSUME AttemptInv, Settles, NEW c \in Callers, NEW outcome, Answer(c, outcome),
           pc[c] \in HasRow, outcome = FAILED => rows'[at[c]].state = FAILED
    PROVE  Ordinary
<1>1. CASE Return(c)
  BY <1>1, EndsQuiet, QuietOrdinary
<1>2. CASE ~Return(c)
  <2>1. /\ outcome = FAILED /\ pc' = [pc EXCEPT ![c] = "backoff"]
        /\ UNCHANGED <<workers, proc, req, at, todo, snap>>
    BY <1>2 DEF Answer
  <2>2. \A d \in Callers \ {c} : Proceeds(d)
    BY <2>1, StaysProceeds DEF AttemptInv, TypeOK
  <2>3. Proceeds(c)
    BY <2>1 DEF Proceeds, HasRow, AttemptInv, TypeOK
  <2> QED
    BY <2>1, <2>2, <2>3 DEF Ordinary, Queues
<1> QED
  BY <1>1, <1>2

\* One caller moves on without an answer; it may ask for a call of somebody's choice.
LEMMA MoveOrdinary ==
    ASSUME AttemptInv, rows' = rows, NEW c \in Callers, NEW l, pc' = [pc EXCEPT ![c] = l],
           \A d \in Callers \ {c} : req'[d] = req[d],
           at' = at, todo' \subseteq todo, Proceeds(c)
    PROVE  Ordinary
<1>1. Settles
  BY SettlesFacts DEF AttemptInv
<1>2. \A d \in Callers \ {c} : Proceeds(d)
  BY <1>1, StaysProceeds DEF AttemptInv, TypeOK
<1> QED
  BY <1>1, <1>2 DEF Ordinary, Queues
-----------------------------------------------------------------------------
\* What each step is: an ordinary one, a row repeated by the runner, or a start.
Kind ==
    \/ Ordinary
    \/ \E c \in Callers : Start(c)
    \/ \E c \in Callers, i \in DOMAIN rows : Again(c, i)

\* The recursive run_now is refused by the shutdown flag, or follows the caller's own row.
LEMMA RetryKind ==
    ASSUME AttemptInv, NEW c \in Callers, Retry(c)
    PROVE  Kind
<1>1. TypeOK /\ OwnRow /\ MayRetry /\ MayResume /\ pc[c] = "backoff" /\ rows' = rows
  BY DEF AttemptInv, Retry
<1>2. CASE Raise(c)
  BY <1>1, <1>2, SettlesFacts, EndsQuiet, QuietOrdinary DEF Kind
<1>3. CASE ~Raise(c)
  <2>1. /\ Enter(c, RetryRequest(req[c], at[c])) /\ UNCHANGED <<workers, proc, at, todo, snap>>
    BY <1>3 DEF Retry
  <2>2. PICK i : i = at[c]
    OBVIOUS
  <2>3. /\ pc[c] \in HasRow /\ i \in DOMAIN rows
        /\ rows[i].job = req[c].job /\ rows[i].attempt = req[c].attempt /\ rows[i].state = FAILED
    BY <1>1, <2>2, Shapes DEF OwnRow, HasRow
  <2>4. PICK r : r = RetryRequest(req[c], i)
    OBVIOUS
  <2>5. Enter(c, r) /\ r.own /\ r.after = i /\ Good(r)
    <3>1. req[c] \in Call /\ rows[i].attempt \in Nat
      BY <1>1, <2>3, Shapes
    <3>2. /\ r.own /\ r.after = i /\ r.job = rows[i].job /\ r.run = rows[i].run
          /\ r.attempt = rows[i].attempt + 1
      BY <2>3, <2>4, <3>1 DEF RetryRequest, Call
    <3>3. Enter(c, r) /\ i # 0
      BY <1>1, <2>1, <2>2, <2>3, <2>4, Shapes
    <3> QED
      BY <2>3, <3>1, <3>2, <3>3 DEF Good, Repeatable
  <2>8. ~Taken(i)
    BY <1>1, <2>2, <2>3 DEF MayRetry, Taken, RowRepeats, AskRepeats
  <2>6. \A d \in Callers : d # c /\ pc[d] \in HasRow => at[d] # i
    BY <1>1, <2>2, <2>3 DEF OwnRow
  <2>7. i \notin todo
    BY <1>1, <2>3 DEF MayResume, INTERRUPTED, FAILED
  <2> QED
    BY <1>1, <2>1, <2>3, <2>5, <2>6, <2>7, <2>8 DEF Again, Repeatable, Asks, Kind
<1> QED
  BY <1>2, <1>3

\* The call that names row i as a failed or interrupted one to repeat.
LEMMA RepeatGood ==
    ASSUME TypeOK, NEW i \in DOMAIN rows, rows[i].state \in Repeatable
    PROVE  /\ Good(Repeat(i)) /\ ~Repeat(i).own
           /\ Good(ResumeRequest(i)) /\ ResumeRequest(i).own /\ ResumeRequest(i).after = i
<1>1. rows[i].job \in Jobs /\ rows[i].attempt \in Nat \ {0} /\ rows[i].run \in Nat /\ i \in Nat \ {0}
  <2>1. rows[i] \in JobRun /\ i \in 1..Len(rows) /\ Len(rows) \in Nat
    BY Shapes
  <2> QED
    BY <2>1 DEF JobRun
<1>2. PICK r : r = Repeat(i)
  OBVIOUS
<1>3. /\ r \in Call /\ r.after = i /\ ~r.own /\ r.job = rows[i].job /\ r.run = rows[i].run
      /\ r.attempt = rows[i].attempt + 1
  <2>1. r \in Call
    BY <1>2, RowCalls
  <2>2. r = [job |-> rows[i].job, run |-> rows[i].run, attempt |-> rows[i].attempt + 1,
             by |-> 0, after |-> i, own |-> FALSE]
    BY <1>2 DEF Repeat, Under, Fresh
  <2> QED
    BY <2>1, <2>2
<1>4. Good(r)
  BY <1>1, <1>3 DEF Good
<1>5. CASE rows[i].job \in ResumeJobs
  <2>1. ResumeRequest(i) = [r EXCEPT !.own = TRUE]
    BY <1>2, <1>5 DEF ResumeRequest
  <2>2. PICK s : s = [r EXCEPT !.own = TRUE]
    OBVIOUS
  <2>3. /\ s.after = i /\ s.own /\ s.job = rows[i].job /\ s.run = rows[i].run
        /\ s.attempt = rows[i].attempt + 1
    BY <1>3, <2>2 DEF Call
  <2>4. Good(s)
    BY <1>1, <2>3 DEF Good
  <2> QED
    BY <1>2, <1>3, <1>4, <2>1, <2>2, <2>3, <2>4
<1>6. CASE rows[i].job \notin ResumeJobs
  <2>1. PICK s : s = [Fresh(rows[i].job) EXCEPT !.after = i, !.own = TRUE]
    OBVIOUS
  <2>2. ResumeRequest(i) = s
    BY <1>6, <2>1 DEF ResumeRequest
  <2>3. s = [job |-> rows[i].job, run |-> 0, attempt |-> 1, by |-> 0, after |-> i, own |-> TRUE]
    BY <2>1 DEF Fresh
  <2>4. Good(s) /\ s.own /\ s.after = i
    BY <1>1, <2>3 DEF Good
  <2> QED
    BY <1>2, <1>3, <1>4, <2>2, <2>4
<1> QED
  BY <1>5, <1>6

\* Reconcile repeats the row it interrupted, under its run id or a new one.
LEMMA ReconcileKind ==
    ASSUME AttemptInv, Reconcile
    PROVE  Kind
<1>1. TypeOK /\ MayResume /\ pc[Main] = "idle" /\ rows' = rows /\ at' = at
  BY DEF AttemptInv, Reconcile
<1>2. PICK i \in todo : Enter(Main, ResumeRequest(i)) /\ todo' = todo \ {i}
  BY DEF Reconcile
<1>3. i \in DOMAIN rows /\ rows[i].state = INTERRUPTED /\ ~Taken(i) /\ Main \in Callers
  BY <1>1, <1>2, Shapes DEF MayResume, Callers
<1>4. PICK r : r = ResumeRequest(i)
  OBVIOUS
<1>5. Enter(Main, r) /\ r.own /\ r.after = i /\ Good(r)
  BY <1>1, <1>2, <1>3, <1>4, RepeatGood DEF Repeatable
<1>6. \A d \in Callers : rows[at[d]].state = FAILED => at[d] # i
  BY <1>3 DEF INTERRUPTED, FAILED
<1> QED
  BY <1>1, <1>2, <1>3, <1>5, <1>6 DEF Again, Repeatable, Asks, Kind

\* A call that somebody asks for repeats no row, or is an administrator's own business.
LEMMA TriggerKind ==
    ASSUME AttemptInv, NEW c \in Callers, NEW r, Ask(c, r), ~r.own, Good(r)
    PROVE  Kind
<1>1. /\ Proceeds(c) /\ pc' = [pc EXCEPT ![c] = "admit"]
      /\ rows' = rows /\ at' = at /\ todo' = todo
      /\ \A d \in Callers \ {c} : req'[d] = req[d]
  BY DEF AttemptInv, Ask, Enter, Proceeds, TypeOK
<1> QED
  BY <1>1, MoveOrdinary DEF Kind

\* So for each of the four that ask.
LEMMA AskKind ==
    ASSUME AttemptInv
    PROVE  /\ \A c \in Callers, j \in Jobs : Tick(c, j) \/ Invoke(c, j) => Kind
           /\ \A c \in Callers, i \in DOMAIN rows : RetryFailed(c, i) => Kind
           /\ \A c \in Callers, i \in DOMAIN rows, j \in Jobs : CallStep(c, i, j) => Kind
<1>1. ASSUME NEW c \in Callers, NEW j \in Jobs, Tick(c, j) \/ Invoke(c, j) PROVE Kind
  <2>1. PICK r : r = Fresh(j)
    OBVIOUS
  <2>2. ~r.own /\ Good(r)
    BY <2>1 DEF Fresh, Good
  <2> QED
    BY <1>1, <2>1, <2>2, TriggerKind DEF Tick, Invoke
<1>2. ASSUME NEW c \in Callers, NEW i \in DOMAIN rows, RetryFailed(c, i) PROVE Kind
  <2>1. PICK r : r = Repeat(i)
    OBVIOUS
  <2>2. ~r.own /\ Good(r)
    BY <1>2, <2>1, RepeatGood DEF RetryFailed, Repeatable, AttemptInv
  <2> QED
    BY <1>2, <2>1, <2>2, TriggerKind DEF RetryFailed
<1>3. ASSUME NEW c \in Callers, NEW i \in DOMAIN rows, NEW j \in Jobs, CallStep(c, i, j) PROVE Kind
  <2>1. PICK r : r = [Under(i, j, 1) EXCEPT !.by = i]
    OBVIOUS
  <2>2. ~r.own /\ Good(r)
    BY <2>1 DEF Under, Fresh, Good
  <2> QED
    BY <1>3, <2>1, <2>2, TriggerKind DEF CallStep
<1> QED
  BY <1>1, <1>2, <1>3

\* The steps of run_now.
LEMMA CallerKind ==
    ASSUME AttemptInv, NEW c \in Callers, CallerStep(c) \/ TimeOutFault(c)
    PROVE  Kind
<1>0. TypeOK /\ (rows' = rows => Settles) /\ FAILED \in TerminalStates
  BY SettlesFacts DEF AttemptInv, TerminalStates
<1>1. CASE Refuse(c) \/ TimeOutFault(c)
  BY <1>0, <1>1, EndsQuiet, QuietOrdinary DEF Refuse, TimeOutFault, Kind
<1>2. CASE LookUp(c) \/ Launch(c) \/ Expire(c)
  <2>1. PICK l \in {"checked", "waiting", "expired"} :
          /\ pc' = [pc EXCEPT ![c] = l] /\ rows' = rows /\ req' = req /\ at' = at /\ todo' = todo
          /\ l = "checked" => pc[c] = "admit"
          /\ l # "checked" => pc[c] \in {"started", "waiting"}
    BY <1>2 DEF LookUp, Launch, Expire
  <2>2. Proceeds(c)
    BY <1>0, <2>1 DEF Proceeds, HasRow, TypeOK
  <2> QED
    BY <2>1, <2>2, MoveOrdinary DEF Kind
<1>3. CASE Collect(c)
  <2>1. rows' = rows /\ pc[c] \in HasRow
    BY <1>3 DEF Collect, HasRow
  <2>2. CASE Raise(c)
    BY <1>0, <2>1, <2>2, EndsQuiet, QuietOrdinary DEF Kind
  <2>3. CASE Answer(c, rows[at[c]].state)
    BY <1>0, <2>1, <2>3, AnswerOrdinary DEF Kind
  <2> QED
    BY <1>3, <2>2, <2>3 DEF Collect
<1>4. CASE TimeOut(c)
  <2>1. PICK o : o = rows'[at[c]].state
    OBVIOUS
  <2>2. pc[c] \in HasRow /\ Settles /\ Answer(c, o)
    BY <1>0, <1>4, <2>1, SettlesFacts DEF TimeOut, HasRow
  <2> QED
    BY <2>1, <2>2, AnswerOrdinary DEF Kind
<1>5. CASE Start(c)
  BY <1>5 DEF Kind
<1> QED
  BY <1>1, <1>2, <1>3, <1>4, <1>5, RetryKind DEF CallerStep

\* The steps of the runner.
LEMMA NextKind ==
    ASSUME AttemptInv, [Next]_vars
    PROVE  Kind
<1>0. TypeOK /\ (rows' = rows => Settles)
  BY SettlesFacts DEF AttemptInv
<1>1. ASSUME Settles, UNCHANGED <<pc, req, at>>, todo' \subseteq todo PROVE Kind
  BY <1>1, QuietOrdinary DEF Quiet, Kind
<1>2. CASE UNCHANGED vars
  BY <1>0, <1>1, <1>2 DEF vars
<1>3. Pool \union Clis \union Handlers \subseteq Callers /\ Steps \subseteq Jobs
  BY RunnerAssumption DEF Callers
<1>5. ASSUME NEW i, WorkerStep(i) PROVE Kind
  <2>1. UNCHANGED <<pc, req, at, todo>>
    BY <1>5 DEF WorkerStep, Succeed, Fail, Lose, Ends
  <2>2. Settles
    BY <1>0, <1>5, SettlesFacts DEF WorkerStep, Succeed, Fail, Lose, TerminalStates
  <2> QED
    BY <1>1, <2>1, <2>2
<1>6. CASE StartServer
  <2>1. /\ rows' = Transition(rows, RunningRuns(rows), INTERRUPTED) /\ todo' = RunningRuns(rows)
        /\ UNCHANGED <<pc, req, at>>
    BY <1>6 DEF StartServer
  <2>2. Settles /\ rows \in Seq(JobRun) /\ INTERRUPTED \in RunStates
    BY <1>0, <2>1, SettlesFacts, Shapes DEF TerminalStates, RunStates
  <2>3. Queues
    BY <2>1, <2>2, TransitionFacts DEF Queues, RunningRuns
  <2>4. \A d \in Callers : Proceeds(d)
    BY <2>1, <2>2, StaysProceeds
  <2> QED
    BY <2>2, <2>3, <2>4 DEF Ordinary, Kind
<1>7. CASE Ready \/ Shutdown \/ Stopped
  BY <1>0, <1>1, <1>7 DEF Ready, Shutdown, Stopped
<1>8. CASE Drain
  <2>1. Settles
    BY <1>0, <1>8, SettlesFacts DEF Drain, TerminalStates
  <2> QED
    BY <1>1, <1>8, <2>1 DEF Drain
<1>9. ASSUME NEW p, Die(p), rows' = rows PROVE Kind
  <2>1. Main \in Callers
    BY DEF Callers
  <2> QED
    BY <1>0, <1>9, <2>1, EndsQuiet, QuietOrdinary DEF Kind
<1>10. CASE Exit \/ \E p \in Procs : Crash(p)
  BY <1>9, <1>10 DEF Exit, Crash
<1> QED
  BY <1>2, <1>3, <1>5, <1>6, <1>7, <1>8, <1>10, AskKind, CallerKind, ReconcileKind DEF Next

\* An empty ledger and idle callers satisfy the invariant.
LEMMA InitAttempts == Init => AttemptInv
<1> SUFFICES ASSUME Init PROVE AttemptInv
  OBVIOUS
<1>1. TypeOK
  BY InitType
<1>2. DOMAIN rows = {} /\ todo = {} /\ \A c \in Callers : pc[c] = "idle"
  BY DEF Init
<1> QED
  BY <1>1, <1>2 DEF AttemptInv, Lineage, GoodCalls, OneClaim, OwnRow, MayRetry, MayResume,
                    Asks, HasRow

\* The end of a process, or a thread that moves on, leaves the calls of the threads alone.
LEMMA NextCalls ==
    ASSUME TypeOK, [Next]_vars
    PROVE  CallsKept \/ \E c \in Callers : Start(c)
<1>0. /\ workers' = workers => CallsKept
      /\ DOMAIN workers = DOMAIN rows /\ \A i \in DOMAIN rows : workers[i] \in Worker
  BY Shapes DEF CallsKept
<1>1. ASSUME NEW p, Die(p) PROVE CallsKept
  BY <1>0, <1>1 DEF Die, CallsKept, Worker
<1>2. ASSUME NEW c, Return(c) \/ Raise(c) \/ \E o : Answer(c, o) PROVE CallsKept
  BY <1>0, <1>1, <1>2 DEF Return, Raise, Answer
<1>3. ASSUME NEW i, NEW ph, workers' = [workers EXCEPT ![i].phase = ph] PROVE CallsKept
  BY <1>0, <1>3 DEF CallsKept, Worker
<1>4. ASSUME NEW c \in Callers, CallerStep(c) \/ TimeOutFault(c), ~Start(c) PROVE CallsKept
  BY <1>0, <1>2, <1>3, <1>4
     DEF CallerStep, Refuse, LookUp, Launch, Collect, Expire, TimeOut, Retry, TimeOutFault
<1>5. ASSUME NEW i, WorkerStep(i) PROVE CallsKept
  BY <1>3, <1>5 DEF WorkerStep, Succeed, Fail, Lose, Ends
<1>6. CASE Exit \/ \E p \in Procs : Crash(p)
  BY <1>1, <1>6 DEF Exit, Crash
<1>7. ASSUME \/ UNCHANGED vars \/ StartServer \/ Reconcile \/ Ready \/ Shutdown \/ Drain \/ Stopped
             \/ \E c \in Pool, j \in Jobs : Tick(c, j)
             \/ \E c \in Pool, i \in DOMAIN rows : RetryFailed(c, i)
             \/ \E c \in Clis, j \in Jobs : Invoke(c, j)
             \/ \E c \in Handlers, i \in DOMAIN rows, j \in Steps : CallStep(c, i, j)
      PROVE  CallsKept
  BY <1>0, <1>7 DEF vars, StartServer, Reconcile, Ready, Shutdown, Drain, Stopped, Tick, RetryFailed,
     Invoke, CallStep, Ask
<1> QED
  BY <1>4, <1>5, <1>6, <1>7 DEF Next

\* Every step preserves it.
LEMMA NextAttempts ==
    ASSUME AttemptInv, [Next]_vars
    PROVE  AttemptInv'
<1>1. TypeOK'
  BY NextType DEF AttemptInv
<1>2. CASE \E c \in Callers : Start(c)
  BY <1>1, <1>2, StartKeeps
<1>3. CASE CallsKept /\ ~ \E c \in Callers : Start(c)
  <2>1. Ordinary \/ \E c \in Callers, i \in DOMAIN rows : Again(c, i)
    BY <1>3, NextKind DEF Kind
  <2> QED
    BY <1>1, <1>3, <2>1, OrdinaryKeeps, AgainKeeps
<1> QED
  BY <1>2, <1>3, NextCalls DEF AttemptInv

\* It holds in every reachable state.
LEMMA AttemptsHold == Spec => []AttemptInv
  BY InitAttempts, NextAttempts, PTL DEF Spec

\* run_now's retries, reconcile's resumes and the administrator's retries, on either
\* database, with nested calls and whatever crashes: attempt n + 1 repeats an attempt n
\* of its job and run id that has failed or was interrupted.
THEOREM AttemptsChain == Spec => []AttemptChain
<1>1. ASSUME AttemptInv PROVE AttemptChain
  <2> SUFFICES ASSUME NEW k \in DOMAIN rows, rows[k].attempt > 1
               PROVE  \E i \in 1..(k - 1) :
                        /\ workers[k].call.after = i
                        /\ rows[i].job = rows[k].job /\ rows[i].run = rows[k].run
                        /\ rows[i].attempt + 1 = rows[k].attempt
                        /\ rows[i].state \in Repeatable
    BY DEF AttemptChain
  <2>1. PICK r : r = workers[k].call
    OBVIOUS
  <2>2. /\ Good(r) /\ r.after < k /\ r.after \in Nat /\ k \in Nat
        /\ rows[k].job = r.job /\ rows[k].attempt = r.attempt
        /\ r.run # 0 => rows[k].run = r.run
    BY <1>1, <2>1, Shapes DEF AttemptInv, Lineage, Call
  <2>3. /\ r.after \in DOMAIN rows /\ rows[r.after].state \in Repeatable
        /\ rows[r.after].job = r.job /\ rows[r.after].run = r.run
        /\ rows[r.after].attempt + 1 = r.attempt
    BY <2>2 DEF Good
  <2>4. r.run # 0 /\ r.after \in 1..(k - 1)
    BY <1>1, <2>2, <2>3, Shapes DEF AttemptInv
  <2> QED
    BY <2>1, <2>2, <2>3, <2>4
<1> QED
  BY <1>1, AttemptsHold, PTL

\* _work beside _finalize_timeout, run_now beside another process's reconcile: the runner
\* repeats a row at most once, and never one that runs, has succeeded or was abandoned.
THEOREM RunnerRepeatsOnce == Spec => []RepeatedOnce
<1>1. ASSUME AttemptInv PROVE RepeatedOnce
  <2> SUFFICES ASSUME NEW k \in DOMAIN rows, workers[k].call.own
               PROVE  /\ rows[workers[k].call.after].state \in Repeatable
                      /\ \A l \in DOMAIN rows :
                           workers[l].call.own /\ workers[l].call.after = workers[k].call.after => l = k
    BY DEF RepeatedOnce
  <2>1. PICK i : i = workers[k].call.after
    OBVIOUS
  <2>2. i \in DOMAIN rows /\ rows[i].state \in Repeatable
    BY <1>1, <2>1 DEF AttemptInv, Lineage, Good
  <2>3. \A l \in DOMAIN rows : workers[l].call.own /\ workers[l].call.after = i => l = k
    BY <1>1, <2>1, <2>2 DEF AttemptInv, OneClaim, RowRepeats
  <2> QED
    BY <2>1, <2>2, <2>3
<1> QED
  BY <1>1, AttemptsHold, PTL
-----------------------------------------------------------------------------
\* A row whose thread has not been started belongs to the caller that inserted it, in the
\* process that will run it; a thread that is done has left its row settled.
Holds(c, i) == pc[c] = "started" /\ at[c] = i /\ HostOf(c) = workers[i].host

ThreadsTold ==
    \A i \in DOMAIN rows :
        /\ workers[i].phase = "unborn" => \E c \in Callers : Holds(c, i)
        /\ workers[i].phase = "done" => rows[i].state # RUNNING

\* The same, where the rows only settle.
LEMMA ToldKept ==
    ASSUME ThreadsTold, Settles,
           \A i \in DOMAIN rows :
              /\ workers'[i].phase = "unborn" =>
                    workers[i].phase = "unborn" /\ \A c \in Callers : Holds(c, i) => Holds(c, i)'
              /\ workers'[i].phase = "done" => workers[i].phase = "done" \/ rows'[i].state # RUNNING
    PROVE  ThreadsTold'
<1>1. ASSUME NEW i \in DOMAIN rows, workers'[i].phase = "unborn"
      PROVE  \E c \in Callers : Holds(c, i)'
  BY <1>1 DEF ThreadsTold
<1>2. ASSUME NEW i \in DOMAIN rows, workers'[i].phase = "done"
      PROVE  rows'[i].state # RUNNING
  BY <1>2 DEF ThreadsTold, Settles, TerminalStates, RUNNING, SUCCEEDED, FAILED, INTERRUPTED, ABANDONED
<1> QED
  BY <1>1, <1>2 DEF ThreadsTold, Settles

\* The end of a process leaves no thread of it unborn.
LEMMA DieTold ==
    ASSUME TypeOK, ThreadsTold, Settles, NEW p, Die(p)
    PROVE  ThreadsTold'
<1>1. DOMAIN workers = DOMAIN rows /\ \A i \in DOMAIN workers : workers[i] \in Worker
  BY LenProperties, ElementOfSeq DEF TypeOK
<1>2. \A i \in DOMAIN rows :
        \/ workers'[i] = workers[i] /\ (workers[i].phase = "unborn" => workers[i].host # p)
        \/ workers'[i].phase = "dead"
  BY <1>1 DEF Die, Worker
<1>3. \A c \in Callers : HostOf(c) # p => pc'[c] = pc[c] /\ at'[c] = at[c]
  BY DEF Die, Release, Threads
<1> QED
  BY <1>2, <1>3, ToldKept DEF Holds

\* A caller that has launched its thread is not what an unborn one waits for.
LEMMA ReleaseTold ==
    ASSUME ThreadsTold, Settles, workers' = workers, NEW c \in Callers, pc[c] # "started",
           \A d \in Callers \ {c} : pc'[d] = pc[d] /\ at'[d] = at[d]
    PROVE  ThreadsTold'
  BY ToldKept DEF Holds

\* So for the ways a call ends or goes on.
LEMMA CallTold ==
    ASSUME TypeOK, ThreadsTold, Settles, NEW c \in Callers, pc[c] # "started"
    PROVE  /\ Return(c) => ThreadsTold'
           /\ Raise(c) => ThreadsTold'
           /\ \A outcome : Answer(c, outcome) => ThreadsTold'
<1>1. ASSUME Return(c) PROVE ThreadsTold'
  <2>1. CASE c \in Clis
    BY <1>1, <2>1, DieTold DEF Return
  <2>2. CASE c \notin Clis
    BY <1>1, <2>2, ReleaseTold DEF Return, Release
  <2> QED
    BY <2>1, <2>2
<1>2. ASSUME Raise(c) PROVE ThreadsTold'
  BY <1>1, <1>2, DieTold DEF Raise
<1>3. ASSUME NEW outcome, Answer(c, outcome) PROVE ThreadsTold'
  <2>1. CASE ~Return(c)
    BY <1>3, <2>1, ReleaseTold DEF Answer, TypeOK
  <2> QED
    BY <1>1, <2>1
<1> QED
  BY <1>1, <1>2, <1>3

\* A start leaves a row whose thread its caller is to start.
LEMMA StartTold ==
    ASSUME TypeOK, ThreadsTold, NEW c \in Callers, Start(c)
    PROVE  ThreadsTold'
<1> DEFINE n == Len(rows) + 1
           w == [host |-> HostOf(c), phase |-> "unborn", call |-> req[c]]
<1>1. rows' = Inserted(rows, req[c]) /\ rows \in Seq(JobRun) /\ req[c] \in Call
  BY DEF Start, TypeOK
<1>2. /\ DOMAIN rows' = DOMAIN rows \union {n} /\ \A i \in DOMAIN rows : rows'[i] = rows[i]
      /\ DOMAIN rows = 1..Len(rows) /\ n \notin DOMAIN rows
  BY <1>1, InsertedCall
<1>3. w \in Worker /\ workers \in Seq(Worker) /\ Len(workers) = Len(rows) /\ workers' = Append(workers, w)
  BY Newborn DEF Start, TypeOK
<1>4. workers'[n] = w /\ \A i \in DOMAIN rows : workers'[i] = workers[i]
  BY <1>2, <1>3, AppendProperties
<1>5. /\ pc[c] # "started" /\ pc'[c] = "started" /\ at'[c] = n
      /\ \A d \in Callers \ {c} : pc'[d] = pc[d] /\ at'[d] = at[d]
  BY DEF Start, TypeOK
<1>6. w.host = HostOf(c) /\ w.phase = "unborn"
  OBVIOUS
<1>7. PICK m, v : m = n /\ v = w
  OBVIOUS
<1> HIDE DEF n, w
<1>8. Holds(c, m)'
  BY <1>4, <1>5, <1>6, <1>7 DEF Holds
<1>9. ASSUME NEW i \in DOMAIN rows
      PROVE  /\ workers'[i].phase = "unborn" => \E d \in Callers : Holds(d, i)'
             /\ workers'[i].phase = "done" => rows'[i].state # RUNNING
  <2>1. \A d \in Callers : Holds(d, i) => Holds(d, i)'
    BY <1>4, <1>5 DEF Holds
  <2> QED
    BY <1>2, <1>4, <2>1 DEF ThreadsTold
<1>10. workers'[m].phase = "unborn"
  BY <1>4, <1>6, <1>7
<1> QED
  BY <1>2, <1>7, <1>8, <1>9, <1>10 DEF ThreadsTold

\* A thread is started, or comes to its end.
LEMMA PhaseTold ==
    ASSUME TypeOK, ThreadsTold, Settles, NEW i \in DOMAIN rows, NEW ph \in {"handling", "done", "lost"},
           workers' = [workers EXCEPT ![i].phase = ph],
           ph = "done" => rows'[i].state # RUNNING,
           \A d \in Callers : pc[d] = "started" /\ at[d] # i => pc'[d] = pc[d] /\ at'[d] = at[d]
    PROVE  ThreadsTold'
<1>1. DOMAIN workers = DOMAIN rows /\ \A k \in DOMAIN workers : workers[k] \in Worker
  BY LenProperties, ElementOfSeq DEF TypeOK
<1>2. /\ workers'[i].phase = ph
      /\ \A k \in DOMAIN rows \ {i} : workers'[k] = workers[k]
  BY <1>1 DEF Worker
<1>3. ASSUME NEW k \in DOMAIN rows
      PROVE  /\ workers'[k].phase = "unborn" =>
                  workers[k].phase = "unborn" /\ \A c \in Callers : Holds(c, k) => Holds(c, k)'
             /\ workers'[k].phase = "done" => workers[k].phase = "done" \/ rows'[k].state # RUNNING
  <2>1. CASE k = i
    BY <1>2, <2>1
  <2>2. CASE k # i
    BY <1>2, <2>2 DEF Holds
  <2> QED
    BY <2>1, <2>2
<1> QED
  BY <1>3, ToldKept

\* The steps of run_now, for their threads.
LEMMA CallerTold ==
    ASSUME TypeOK, ThreadsTold, NEW c \in Callers, CallerStep(c) \/ TimeOutFault(c)
    PROVE  ThreadsTold'
<1>0. (rows' = rows => Settles) /\ FAILED \in TerminalStates
  BY SettlesFacts DEF TerminalStates
<1>1. CASE Refuse(c) \/ TimeOutFault(c) \/ Collect(c)
  BY <1>0, <1>1, CallTold DEF Refuse, TimeOutFault, Collect
<1>2. CASE LookUp(c) \/ Expire(c)
  <2>1. /\ pc[c] # "started" /\ rows' = rows /\ workers' = workers /\ at' = at
        /\ \A d \in Callers \ {c} : pc'[d] = pc[d]
    BY <1>2 DEF LookUp, Expire, TypeOK
  <2> QED
    BY <1>0, <2>1, ReleaseTold
<1>3. CASE Launch(c)
  <2>1. PICK i : i = at[c]
    OBVIOUS
  <2>2. /\ i \in DOMAIN rows /\ rows' = rows /\ at' = at
        /\ workers' = [workers EXCEPT ![i].phase = "handling"]
        /\ \A d \in Callers : at[d] # i => pc'[d] = pc[d]
    BY <1>3, <2>1, Shapes DEF Launch, HasRow, TypeOK
  <2> QED
    BY <1>0, <2>2, PhaseTold
<1>4. CASE TimeOut(c)
  <2>1. Settles /\ pc[c] # "started"
    BY <1>0, <1>4, SettlesFacts DEF TimeOut
  <2>2. PICK o : o = rows'[at[c]].state
    OBVIOUS
  <2> QED
    BY <1>4, <2>1, <2>2, CallTold DEF TimeOut
<1>5. CASE Retry(c)
  <2>1. pc[c] # "started" /\ rows' = rows
    BY <1>5 DEF Retry
  <2>2. CASE ~Raise(c)
    <3>1. workers' = workers /\ at' = at /\ \A d \in Callers \ {c} : pc'[d] = pc[d]
      BY <1>5, <2>2 DEF Retry, Enter, TypeOK
    <3> QED
      BY <1>0, <2>1, <3>1, ReleaseTold
  <2> QED
    BY <1>0, <2>1, <2>2, CallTold
<1> QED
  BY <1>1, <1>2, <1>3, <1>4, <1>5, StartTold DEF CallerStep

\* A process of the command line that is not there has no call.
CallsLive == \A c \in Clis : proc[c] = "down" => pc[c] = "idle"

\* A command's process lives as long as its one call.
LEMMA NextLive ==
    ASSUME TypeOK, CallsLive, [Next]_vars
    PROVE  CallsLive'
<1> DEFINE Lives(c) == \/ pc'[c] = "idle"
                       \/ pc[c] # "idle" /\ proc'[c] = proc[c]
                       \/ proc'[c] # "down"
           Served == \A c \in Clis : Lives(c)
<1>0. Server \notin Clis /\ Main \notin Clis /\ Clis \subseteq Callers /\ Clis \subseteq Procs
      /\ \A c \in Clis : HostOf(c) = c
  BY RunnerAssumption DEF Callers, Procs, HostOf
<1>1. Served => CallsLive'
  BY DEF CallsLive
<1>3. (\A c \in Clis : pc'[c] = pc[c] /\ proc'[c] = proc[c]) => CallsLive'
  BY DEF CallsLive
<1>4. ASSUME NEW p \in Procs, Die(p) PROVE Served
  <2>1. ASSUME NEW c \in Clis PROVE Lives(c)
    <3>1. CASE c = p
      BY <1>0, <1>4, <3>1 DEF Die, Release, Threads
    <3>2. CASE c # p
      BY <1>0, <1>4, <3>2 DEF Die, Release, Threads, TypeOK, CallsLive
    <3> QED
      BY <3>1, <3>2
  <2> QED
    BY <2>1
<1>5. ASSUME NEW c \in Callers, pc[c] # "idle", Return(c) \/ Raise(c) \/ \E o : Answer(c, o)
      PROVE  Served
  <2>1. ASSUME Return(c) PROVE Served
    <3>1. CASE c \in Clis
      BY <1>0, <1>4, <2>1, <3>1 DEF Return
    <3>2. CASE c \notin Clis
      BY <1>0, <2>1, <3>2 DEF Return, Release, CallsLive
    <3> QED
      BY <3>1, <3>2
  <2>2. ASSUME Raise(c) PROVE Served
    BY <1>4, <2>1, <2>2 DEF Raise, Procs
  <2>3. ASSUME ~Return(c), NEW o, Answer(c, o) PROVE Served
    BY <1>0, <1>5, <2>3 DEF Answer, TypeOK, CallsLive
  <2> QED
    BY <1>5, <2>1, <2>2, <2>3
<1> HIDE DEF Served
<1>6. ASSUME NEW c \in Callers, CallerStep(c) \/ TimeOutFault(c) PROVE CallsLive'
  <2>1. pc[c] # "idle"
    BY <1>6 DEF CallerStep, Refuse, LookUp, Start, Launch, Collect, Expire, TimeOut, Retry, TimeOutFault
  <2>2. CASE \E l : pc' = [pc EXCEPT ![c] = l] /\ proc' = proc
    BY <1>0, <2>1, <2>2 DEF CallsLive, TypeOK
  <2>3. CASE Return(c) \/ Raise(c) \/ \E o : Answer(c, o)
    BY <1>1, <1>5, <2>1, <2>3
  <2> QED
    BY <1>6, <2>2, <2>3
       DEF CallerStep, Refuse, LookUp, Start, Launch, Collect, Expire, TimeOut, Retry, TimeOutFault, Enter
<1>7. ASSUME NEW c \in Pool \union Handlers, NEW r, Ask(c, r), proc' = proc PROVE CallsLive'
  <2>1. c \notin Clis
    BY RunnerAssumption DEF Handlers, Procs
  <2> QED
    BY <1>0, <1>3, <1>7, <2>1 DEF Ask, Enter, TypeOK
<1>8. ASSUME NEW c \in Clis, NEW j \in Jobs, Invoke(c, j) PROVE CallsLive'
  BY <1>0, <1>8 DEF Invoke, Ask, Enter, TypeOK, CallsLive
<1>9. ASSUME UNCHANGED vars \/ Drain \/ \E i \in DOMAIN workers : WorkerStep(i) PROVE CallsLive'
  BY <1>3, <1>9 DEF vars, Drain, WorkerStep, Succeed, Fail, Lose, Ends
<1>10. ASSUME StartServer \/ Ready \/ Shutdown \/ Stopped PROVE CallsLive'
  BY <1>0, <1>3, <1>10 DEF StartServer, Ready, Shutdown, Stopped, TypeOK
<1>11. CASE Reconcile
  BY <1>0, <1>3, <1>11 DEF Reconcile, Enter, TypeOK
<1>12. CASE Exit \/ \E p \in Procs : Crash(p)
  BY <1>1, <1>4, <1>12 DEF Exit, Crash, Procs
<1> QED
  BY <1>6, <1>7, <1>8, <1>9, <1>10, <1>11, <1>12 DEF Next, Tick, RetryFailed, CallStep

\* The steps of the runner, for its threads.
LEMMA NextTold ==
    ASSUME TypeOK, ThreadsTold, CallsLive, [Next]_vars
    PROVE  ThreadsTold'
<1>0. rows' = rows => Settles
  BY SettlesFacts
<1>1. ASSUME Settles, UNCHANGED <<pc, at, workers>> PROVE ThreadsTold'
  BY <1>1, ToldKept DEF Holds
<1>2. CASE UNCHANGED vars
  BY <1>0, <1>1, <1>2 DEF vars
<1>3. ASSUME NEW c \in Callers, NEW r, pc[c] # "started", Enter(c, r), UNCHANGED <<rows, workers, at>>
      PROVE  ThreadsTold'
  BY <1>0, <1>3, ReleaseTold DEF Enter, TypeOK
<1>4. ASSUME NEW c \in Pool \union Handlers, NEW r, Ask(c, r) PROVE ThreadsTold'
  BY <1>3, <1>4 DEF Ask, Callers
<1>5. ASSUME NEW c \in Clis, NEW j \in Jobs, Invoke(c, j) PROVE ThreadsTold'
  <2>1. c \in Callers /\ pc[c] # "started"
    BY <1>5 DEF Invoke, CallsLive, Callers
  <2> QED
    BY <1>3, <1>5, <2>1 DEF Invoke, Ask
<1>6. ASSUME NEW i, WorkerStep(i) PROVE ThreadsTold'
  <2>1. /\ i \in DOMAIN rows /\ UNCHANGED <<pc, at>>
        /\ workers' = [workers EXCEPT ![i].phase = "done"] \/ workers' = [workers EXCEPT ![i].phase = "lost"]
    BY <1>6, LenProperties DEF WorkerStep, Succeed, Fail, Lose, Ends, TypeOK
  <2>2. CASE Lose(i)
    BY <1>0, <2>1, <2>2, PhaseTold DEF Lose, Ends
  <2>3. CASE Succeed(i) \/ Fail(i)
    <3>1. PICK to \in {SUCCEEDED, FAILED} : rows' = Transition(rows, {i}, to)
      BY <2>3 DEF Succeed, Fail
    <3>2. to \in TerminalStates /\ to \in RunStates /\ to # RUNNING /\ rows \in Seq(JobRun)
      BY Shapes DEF TerminalStates, RunStates, RUNNING, SUCCEEDED, FAILED
    <3>3. Settles /\ rows'[i].state # RUNNING
      BY <2>1, <3>1, <3>2, SettlesFacts, TransitionFacts
    <3>4. workers' = [workers EXCEPT ![i].phase = "done"]
      BY <2>3 DEF Succeed, Fail, Ends
    <3> QED
      BY <2>1, <3>3, <3>4, PhaseTold
  <2> QED
    BY <1>6, <2>2, <2>3 DEF WorkerStep
<1>7. CASE StartServer
  <2>1. Settles
    BY <1>7, SettlesFacts DEF StartServer, TerminalStates
  <2> QED
    BY <1>1, <1>7, <2>1 DEF StartServer
<1>8. CASE Reconcile
  BY <1>3, <1>8 DEF Reconcile, Callers
<1>9. CASE Ready \/ Shutdown \/ Stopped
  BY <1>0, <1>1, <1>9 DEF Ready, Shutdown, Stopped
<1>10. CASE Drain
  <2>1. Settles
    BY <1>0, <1>10, SettlesFacts DEF Drain, TerminalStates
  <2> QED
    BY <1>1, <1>10, <2>1 DEF Drain
<1>11. CASE Exit \/ \E p \in Procs : Crash(p)
  BY <1>0, <1>11, DieTold DEF Exit, Crash
<1> QED
  BY <1>2, <1>4, <1>5, <1>6, <1>7, <1>8, <1>9, <1>10, <1>11, CallerTold
     DEF Next, Tick, RetryFailed, CallStep

\* runner._execute and _work: a running row has a caller or a thread that will settle it,
\* unless its process is gone or its thread could not write.
THEOREM RunsOwned == Spec => []RunningRunsOwned
<1>1. Init => ThreadsTold /\ CallsLive
  BY DEF Init, ThreadsTold, CallsLive, Callers
<1>2. ASSUME TypeOK, ThreadsTold PROVE RunningRunsOwned
  <2>1. ASSUME NEW i \in RunningRuns(rows), workers[i].phase \notin {"dead", "lost"} PROVE Owned(i)
    <3>1. i \in DOMAIN rows /\ rows[i].state = RUNNING /\ workers[i].phase \in {"unborn", "handling", "done"}
      <4>1. i \in DOMAIN workers /\ i \in DOMAIN rows /\ rows[i].state = RUNNING
        BY <1>2, LenProperties DEF RunningRuns, TypeOK
      <4>2. workers[i] \in Worker
        BY <1>2, <4>1, LenProperties, ElementOfSeq DEF TypeOK
      <4> QED
        BY <2>1, <4>1, <4>2 DEF Worker, WorkerStates
    <3> QED
      BY <1>2, <3>1 DEF ThreadsTold, Holds, Owned
  <2> QED
    BY <2>1 DEF RunningRunsOwned
<1> QED
  BY <1>1, <1>2, NextTold, NextLive, TypeCorrect, PTL DEF Spec
-----------------------------------------------------------------------------
\* What shutdown waits for are rows of its own process, whose threads it has seen at work.
Seen == {"handling", "done", "lost"}

SnapSeen ==
    /\ \A i \in snap : workers[i].host = Server /\ workers[i].phase \in Seen
    /\ proc[Server] # "stopping" => snap = {}

\* A step that keeps the server's state and lets none of its threads die.
Spared ==
    /\ proc'[Server] = proc[Server] /\ snap' \subseteq snap
    /\ \A i \in DOMAIN workers : workers[i].host = Server /\ workers[i].phase \in Seen =>
                                    workers'[i].host = Server /\ workers'[i].phase \in Seen

\* Such a step keeps what shutdown has seen.
LEMMA SparedSeen ==
    ASSUME TypeOK, SnapSeen, Spared
    PROVE  SnapSeen'
<1>1. snap \subseteq DOMAIN workers
  BY LenProperties DEF TypeOK
<1> QED
  BY <1>1 DEF SnapSeen, Spared

\* The end of the server ends its shutdown; that of another process is nothing to it.
LEMMA DieSeen ==
    ASSUME TypeOK, SnapSeen, NEW p \in Procs, Die(p)
    PROVE  SnapSeen'
<1>1. CASE p = Server
  BY <1>1 DEF Die, SnapSeen, TypeOK
<1>2. CASE p # Server
  <2>1. snap' = snap /\ proc'[Server] = proc[Server]
    BY <1>2 DEF Die, TypeOK
  <2>2. \A i \in DOMAIN workers : workers[i].host = Server => workers'[i] = workers[i]
    BY <1>2 DEF Die
  <2> QED
    BY <2>1, <2>2, SparedSeen DEF Spared
<1> QED
  BY <1>1, <1>2

\* So for the end of a call, which may be the end of its process.
LEMMA CallSeen ==
    ASSUME TypeOK, SnapSeen, NEW c \in Callers
    PROVE  /\ Return(c) => SnapSeen'
           /\ Raise(c) => SnapSeen'
           /\ \A outcome : Answer(c, outcome) => SnapSeen'
<1>1. UNCHANGED <<workers, proc, snap>> => SnapSeen'
  BY DEF SnapSeen
<1>2. Return(c) => SnapSeen'
  BY <1>1, DieSeen DEF Return, Procs
<1>3. Raise(c) => SnapSeen'
  BY <1>2, DieSeen DEF Raise, Procs
<1> QED
  BY <1>1, <1>2, <1>3 DEF Answer

\* A thread that is started, or ends, is seen.
LEMMA PhaseSeen ==
    ASSUME TypeOK, SnapSeen, NEW i, NEW ph \in Seen,
           workers' = [workers EXCEPT ![i].phase = ph], UNCHANGED <<proc, snap>>
    PROVE  SnapSeen'
<1>1. \A k \in DOMAIN workers : workers[k] \in Worker
  BY LenProperties, ElementOfSeq DEF TypeOK
<1>2. \A k \in DOMAIN workers : workers'[k].host = workers[k].host
                               /\ (workers'[k].phase = workers[k].phase \/ workers'[k].phase = ph)
  BY <1>1 DEF Worker
<1> QED
  BY <1>2, SparedSeen DEF Spared

\* Every step keeps what shutdown has seen.
LEMMA NextSeen ==
    ASSUME TypeOK, SnapSeen, [Next]_vars
    PROVE  SnapSeen'
<1>1. UNCHANGED <<workers, proc, snap>> => SnapSeen'
  BY DEF SnapSeen
<1>2. ASSUME NEW c \in Callers, CallerStep(c) \/ TimeOutFault(c) PROVE SnapSeen'
  <2>1. CASE Refuse(c) \/ Collect(c) \/ TimeOut(c) \/ TimeOutFault(c)
    BY <2>1, CallSeen DEF Refuse, Collect, TimeOut, TimeOutFault
  <2>2. CASE LookUp(c) \/ Expire(c)
    BY <1>1, <2>2 DEF LookUp, Expire
  <2>3. CASE Launch(c)
    BY <2>3, PhaseSeen DEF Launch, Seen
  <2>4. CASE Retry(c)
    BY <1>1, <2>4, CallSeen DEF Retry
  <2>5. CASE Start(c)
    <3>1. PICK w \in Worker : workers' = Append(workers, w)
      BY <2>5, Newborn DEF Start, TypeOK
    <3>2. \A i \in DOMAIN workers : workers'[i] = workers[i]
      BY <3>1, AppendProperties, LenProperties DEF TypeOK
    <3> QED
      BY <2>5, <3>2, SparedSeen DEF Start, Spared
  <2> QED
    BY <1>2, <2>1, <2>2, <2>3, <2>4, <2>5 DEF CallerStep
<1>3. ASSUME NEW i, WorkerStep(i) PROVE SnapSeen'
  <2>1. PICK ph \in {"done", "lost"} : Ends(i, ph)
    BY <1>3 DEF WorkerStep, Succeed, Fail, Lose
  <2> QED
    BY <2>1, PhaseSeen DEF Ends, Seen
<1>4. CASE Exit \/ \E p \in Procs : Crash(p)
  BY <1>4, DieSeen DEF Exit, Crash, Procs
<1>5. ASSUME NEW c \in Clis, NEW j \in Jobs, Invoke(c, j) PROVE SnapSeen'
  <2>1. proc'[Server] = proc[Server]
    BY <1>5, RunnerAssumption DEF Invoke, TypeOK, Procs
  <2> QED
    BY <1>5, <2>1 DEF Invoke, Ask, SnapSeen
<1>6. CASE StartServer \/ Ready \/ Stopped
  BY <1>6 DEF StartServer, Ready, Stopped, SnapSeen, TypeOK, Procs
<1>7. CASE Shutdown
  <2>1. /\ proc'[Server] = "stopping" /\ workers' = workers
        /\ snap' = {i \in DOMAIN workers : workers[i].host = Server /\ workers[i].phase = "handling"}
    BY <1>7 DEF Shutdown, Inflight, TypeOK, Procs
  <2> QED
    BY <2>1 DEF SnapSeen, Seen
<1>8. CASE Drain
  BY <1>8, SparedSeen DEF Drain, Spared
<1>9. ASSUME \/ UNCHANGED vars \/ Reconcile \/ \E c \in Pool, j \in Jobs : Tick(c, j)
             \/ \E c \in Pool, i \in DOMAIN rows : RetryFailed(c, i)
             \/ \E c \in Handlers, i \in DOMAIN rows, j \in Steps : CallStep(c, i, j)
      PROVE  SnapSeen'
  BY <1>1, <1>9 DEF vars, Reconcile, Enter, Tick, RetryFailed, CallStep, Ask
<1> QED
  BY <1>2, <1>3, <1>4, <1>5, <1>6, <1>7, <1>8, <1>9 DEF Next

\* Only a turn of shutdown's loop takes a row off its list while it is stopping.
LEMMA DrainOnly ==
    ASSUME TypeOK, SnapSeen, [Next]_vars, proc'[Server] = "stopping"
    PROVE  snap \subseteq snap' \/ Drain
<1>1. CASE proc[Server] # "stopping"
  BY <1>1 DEF SnapSeen
<1>2. \A p : Die(p) => p = Server \/ snap' = snap
  BY DEF Die
<1>3. \A p \in Procs : Die(p) => proc'[p] = "down"
  BY DEF Die, TypeOK
<1>4. \A p \in Procs : Die(p) => snap' = snap
  BY <1>2, <1>3
<1>5. \A c \in Callers : Return(c) \/ Raise(c) \/ (\E o : Answer(c, o)) => snap' = snap
  BY <1>4 DEF Return, Raise, Answer, Procs
<1>6. ASSUME NEW c \in Callers, CallerStep(c) \/ TimeOutFault(c) PROVE snap' = snap
  BY <1>5, <1>6
     DEF CallerStep, Refuse, LookUp, Start, Launch, Collect, Expire, TimeOut, Retry, TimeOutFault
<1>7. ASSUME \/ UNCHANGED vars \/ Reconcile \/ StartServer \/ Ready
             \/ \E i \in DOMAIN workers : WorkerStep(i)
             \/ \E c \in Pool, j \in Jobs : Tick(c, j)
             \/ \E c \in Pool, i \in DOMAIN rows : RetryFailed(c, i)
             \/ \E c \in Clis, j \in Jobs : Invoke(c, j)
             \/ \E c \in Handlers, i \in DOMAIN rows, j \in Steps : CallStep(c, i, j)
      PROVE  snap' = snap
  BY <1>7 DEF vars, Reconcile, StartServer, Ready, WorkerStep, Succeed, Fail, Lose, Ends, Tick,
     RetryFailed, Invoke, CallStep, Ask
<1>8. CASE Exit \/ \E p \in Procs : Crash(p)
  BY <1>4, <1>8 DEF Exit, Crash, Procs
<1>9. CASE Shutdown
  BY <1>1, <1>9 DEF Shutdown
<1>10. ~Stopped
  BY DEF Stopped, TypeOK, Procs
<1> QED
  BY <1>6, <1>7, <1>8, <1>9, <1>10 DEF Next

\* runner.shutdown: a run leaves the list it waits on only with its row settled, by its
\* own thread or as abandoned, unless its thread lost the write.
THEOREM ShutdownSettles == Spec => DrainedRunsSettled
<1>1. Init => SnapSeen /\ ThreadsTold /\ CallsLive
  BY DEF Init, SnapSeen, ThreadsTold, CallsLive, Callers
<1>2. ASSUME TypeOK, SnapSeen, ThreadsTold, [Next]_vars
      PROVE  proc'[Server] = "stopping" =>
               \A i \in snap \ snap' : rows'[i].state # RUNNING \/ workers[i].phase = "lost"
  <2> SUFFICES ASSUME proc'[Server] = "stopping", NEW i \in snap, i \notin snap',
                      workers[i].phase # "lost"
               PROVE  rows'[i].state # RUNNING
    OBVIOUS
  <2>1. Drain
    BY <1>2, DrainOnly
  <2>2. i \in DOMAIN rows /\ workers[i].phase \in {"handling", "done"}
    BY <1>2 DEF SnapSeen, Seen, TypeOK
  <2>3. rows' = IF workers[i].phase = "handling" THEN Transition(rows, {i}, ABANDONED) ELSE rows
    BY <2>1 DEF Drain
  <2>4. CASE workers[i].phase = "handling"
    <3>1. rows \in Seq(JobRun) /\ ABANDONED \in RunStates /\ ABANDONED # RUNNING
      BY <1>2, Shapes DEF RunStates, TerminalStates, RUNNING, ABANDONED
    <3> QED
      BY <2>2, <2>3, <2>4, <3>1, TransitionFacts
  <2>5. CASE workers[i].phase = "done"
    BY <1>2, <2>2, <2>3, <2>5 DEF ThreadsTold
  <2> QED
    BY <2>2, <2>4, <2>5
<1> QED
  BY <1>1, <1>2, NextSeen, NextTold, NextLive, TypeCorrect, PTL DEF Spec, DrainedRunsSettled
=============================================================================
