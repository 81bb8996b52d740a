--------------------------- MODULE PipelineProofs ---------------------------
(***************************************************************************)
(* The steps of a batch in their fixed order, for any borrowers, attempts  *)
(* and mixes of disturbances: a pipeline's thread counts the steps it has  *)
(* seen succeed, and waits for one call at a time.  And the delivery of a  *)
(* batch as check_deadline sees it: in the run of a pipeline at its first  *)
(* attempt nothing runs but what the pipeline waits for, so the latest     *)
(* attempt at every step that it has counted is a success.                 *)
(***************************************************************************)
EXTENDS NightlyPipeline, JobLedgerProofs, FiniteSetTheorems

Steps == 1..Len(PIPELINE_STEPS)

\* The ledger and its calls are well formed and indexed alike.
LedgerOK(rs, cs) ==
    /\ rs \in Seq(JobRun) /\ cs \in Seq(Call) /\ Len(cs) = Len(rs)
    /\ \A i \in DOMAIN rs : rs[i].run \in 1..i

\* A pipeline thread in "wait" waits for one call, that of its next step under its own
\* run id, and no other thread waits for any.
Paired(rs, cs) ==
    \A k \in DOMAIN rs : \A p \in Nat \ {0} : cs[k].awaited /\ cs[k].parent = p =>
        /\ p \in DOMAIN rs /\ rs[p].job = PIPELINE /\ cs[p].phase = "wait"
        /\ rs[k].run = rs[p].run /\ rs[k].job = PIPELINE_STEPS[cs[p].step + 1]
        /\ \A m \in DOMAIN rs : cs[m].awaited /\ cs[m].parent = p => m = k

\* Step n of a run is recorded a success.
Achieves(rs, run, n) ==
    \E i \in DOMAIN rs :
        rs[i].run = run /\ rs[i].job = PIPELINE_STEPS[n] /\ rs[i].state = SUCCEEDED

\* The steps that a pipeline's thread counts have succeeded, and it counts no more
\* than there are.
Counted(rs, cs) ==
    \A k \in DOMAIN rs : rs[k].job = PIPELINE =>
        /\ \A n \in Steps : n <= cs[k].step => Achieves(rs, rs[k].run, n)
        /\ cs[k].phase = "return" => cs[k].step = Len(PIPELINE_STEPS)
        /\ cs[k].phase \in {"check", "go", "wait"} => cs[k].step < Len(PIPELINE_STEPS)

\* The run has a pipeline row.
BatchOf(rs, run) == \E i \in DOMAIN rs : rs[i].run = run /\ rs[i].job = PIPELINE

\* Every row of a batch's step has all the earlier steps behind it.
InTurn(rs) ==
    \A i \in DOMAIN rs : \A n \in Steps :
        rs[i].job = PIPELINE_STEPS[n] /\ BatchOf(rs, rs[i].run) =>
            \A m \in Steps : m < n => Achieves(rs, rs[i].run, m)

Order(rs, cs) == LedgerOK(rs, cs) /\ Paired(rs, cs) /\ Counted(rs, cs) /\ InTurn(rs)
-----------------------------------------------------------------------------
\* The six steps are distinct jobs, and none is the pipeline.
LEMMA StepsDistinct ==
    /\ Steps = 1..6 /\ Steps = DOMAIN PIPELINE_STEPS /\ Len(PIPELINE_STEPS) = 6
    /\ \A m, n \in Steps : PIPELINE_STEPS[m] = PIPELINE_STEPS[n] => m = n
    /\ \A n \in Steps : PIPELINE_STEPS[n] \in Jobs /\ PIPELINE_STEPS[n] # PIPELINE
    /\ PIPELINE \in Jobs
<1>1. Len(PIPELINE_STEPS) = 6 /\ DOMAIN PIPELINE_STEPS = 1..6
  BY DEF PIPELINE_STEPS
<1>2. /\ PIPELINE_STEPS[1] = "ingest" /\ PIPELINE_STEPS[2] = "test" /\ PIPELINE_STEPS[3] = "score"
      /\ PIPELINE_STEPS[4] = "rank" /\ PIPELINE_STEPS[5] = "update_cases"
      /\ PIPELINE_STEPS[6] = "dispatch"
  BY DEF PIPELINE_STEPS
<1>3. \A n \in 1..6 : n = 1 \/ n = 2 \/ n = 3 \/ n = 4 \/ n = 5 \/ n = 6
  OBVIOUS
<1>4. \A n \in Steps : PIPELINE_STEPS[n] \in Jobs /\ PIPELINE_STEPS[n] # PIPELINE
  BY <1>1, <1>2, <1>3, PipelineAssumption DEF Steps, PIPELINE
<1>5. \A m, n \in Steps : PIPELINE_STEPS[m] = PIPELINE_STEPS[n] => m = n
  BY <1>1, <1>2, <1>3 DEF Steps
<1> QED
  BY <1>1, <1>4, <1>5, PipelineAssumption DEF Steps

\* What LedgerOK says of one row and its call.
LEMMA LedgerShape ==
    ASSUME NEW rs, NEW cs, LedgerOK(rs, cs)
    PROVE  /\ DOMAIN cs = DOMAIN rs /\ DOMAIN rs = 1..Len(rs) /\ Len(rs) \in Nat
           /\ \A i \in DOMAIN rs :
                /\ rs[i] \in JobRun /\ cs[i] \in Call /\ i \in Nat \ {0}
                /\ cs[i].step \in 0..6 /\ cs[i].parent \in Nat
<1>1. DOMAIN cs = DOMAIN rs /\ DOMAIN rs = 1..Len(rs) /\ Len(rs) \in Nat
  BY LenProperties DEF LedgerOK
<1>2. \A i \in DOMAIN rs : rs[i] \in JobRun /\ cs[i] \in Call /\ i \in Nat \ {0}
  BY <1>1, ElementOfSeq DEF LedgerOK
<1> QED
  BY <1>1, <1>2, StepsDistinct DEF Call

\* Rows settle: nothing of a row changes but the state of a running one.
Settled(rs, ss) ==
    /\ ss \in Seq(JobRun) /\ Len(ss) = Len(rs) /\ DOMAIN ss = DOMAIN rs
    /\ \A i \in DOMAIN rs :
         /\ ss[i].job = rs[i].job /\ ss[i].run = rs[i].run
         /\ rs[i].state # RUNNING => ss[i].state = rs[i].state

\* A settled row takes no success away.
LEMMA SettleOrder ==
    ASSUME NEW rs, NEW cs, NEW ss, Order(rs, cs), Settled(rs, ss)
    PROVE  Order(ss, cs)
<1>1. LedgerOK(ss, cs)
  BY DEF Order, Settled, LedgerOK
<1>2. \A run, n : Achieves(rs, run, n) => Achieves(ss, run, n)
  BY DEF Achieves, Settled, SUCCEEDED, RUNNING
<1>3. \A run : BatchOf(ss, run) <=> BatchOf(rs, run)
  BY DEF BatchOf, Settled
<1>4. Paired(ss, cs)
  BY DEF Order, Paired, Settled
<1>5. Counted(ss, cs)
  BY <1>2 DEF Order, Counted, Settled
<1>6. InTurn(ss)
  BY <1>2, <1>3 DEF Order, InTurn, Settled
<1> QED
  BY <1>1, <1>4, <1>5, <1>6 DEF Order

\* A thread for which nobody's wait is told moves on.
LEMMA MoveOrder ==
    ASSUME NEW rs, NEW cs, NEW k \in DOMAIN rs, NEW c \in Call, Order(rs, cs),
           c.awaited => cs[k].awaited, c.parent = cs[k].parent, c.step = cs[k].step,
           rs[k].job = PIPELINE =>
               \/ cs[k].phase # "wait" /\ c.phase \in {"raise", "done"}
               \/ cs[k].phase = "check" /\ c.phase = "go"
               \/ c.phase = cs[k].phase
    PROVE  Order(rs, [cs EXCEPT ![k] = c])
<1> DEFINE ds == [cs EXCEPT ![k] = c]
<1>1. LedgerOK(rs, cs) /\ DOMAIN cs = DOMAIN rs /\ DOMAIN rs = 1..Len(rs)
  BY LedgerShape DEF Order
<1>2. ds \in Seq(Call) /\ Len(ds) = Len(cs) /\ DOMAIN ds = DOMAIN rs
  BY <1>1, ExceptSeq DEF LedgerOK
<1>3. ds[k] = c /\ \A m \in DOMAIN rs : m # k => ds[m] = cs[m]
  BY <1>1
<1> HIDE DEF ds
<1>4. LedgerOK(rs, ds)
  BY <1>1, <1>2 DEF LedgerOK
<1>5. \A m \in DOMAIN rs : /\ ds[m].awaited => cs[m].awaited
                           /\ ds[m].parent = cs[m].parent /\ ds[m].step = cs[m].step
                           /\ rs[m].job = PIPELINE /\ cs[m].phase = "wait" => ds[m].phase = "wait"
  BY <1>3
<1>6. Paired(rs, ds)
  BY <1>5 DEF Order, Paired
<1>7. Counted(rs, ds)
  <2> SUFFICES ASSUME NEW m \in DOMAIN rs, rs[m].job = PIPELINE
               PROVE  /\ \A n \in Steps : n <= ds[m].step => Achieves(rs, rs[m].run, n)
                      /\ ds[m].phase = "return" => ds[m].step = Len(PIPELINE_STEPS)
                      /\ ds[m].phase \in {"check", "go", "wait"} => ds[m].step < Len(PIPELINE_STEPS)
    BY DEF Counted
  <2>1. CASE m = k
    BY <2>1, <1>3, <1>5 DEF Order, Counted
  <2>2. CASE m # k
    BY <2>2, <1>3 DEF Order, Counted
  <2> QED
    BY <2>1, <2>2
<1> QED
  BY <1>4, <1>6, <1>7 DEF Order, ds

\* A pipeline's thread that waits for nobody goes on, as far as its count allows.
LEMMA ProceedOrder ==
    ASSUME NEW rs, NEW cs, NEW p \in DOMAIN rs, NEW c \in Call, Order(rs, cs),
           rs[p].job = PIPELINE,
           \A m \in DOMAIN rs : ~ (cs[m].awaited /\ cs[m].parent = p),
           c.awaited = cs[p].awaited, c.parent = cs[p].parent,
           \A n \in Steps : n <= c.step => Achieves(rs, rs[p].run, n),
           c.phase = "return" => c.step = Len(PIPELINE_STEPS),
           c.phase \in {"check", "go", "wait"} => c.step < Len(PIPELINE_STEPS)
    PROVE  Order(rs, [cs EXCEPT ![p] = c])
<1> DEFINE ds == [cs EXCEPT ![p] = c]
<1>1. LedgerOK(rs, cs) /\ DOMAIN cs = DOMAIN rs /\ DOMAIN rs = 1..Len(rs)
  BY LedgerShape DEF Order
<1>2. ds \in Seq(Call) /\ Len(ds) = Len(cs) /\ DOMAIN ds = DOMAIN rs
  BY <1>1, ExceptSeq DEF LedgerOK
<1>3. ds[p] = c /\ \A m \in DOMAIN rs : m # p => ds[m] = cs[m]
  BY <1>1
<1> HIDE DEF ds
<1>4. LedgerOK(rs, ds)
  BY <1>1, <1>2 DEF LedgerOK
<1>5. \A m \in DOMAIN rs : ds[m].awaited = cs[m].awaited /\ ds[m].parent = cs[m].parent
  BY <1>3
<1>6. Paired(rs, ds)
  BY <1>3, <1>5 DEF Order, Paired
<1>7. Counted(rs, ds)
  BY <1>3 DEF Order, Counted
<1> QED
  BY <1>4, <1>6, <1>7 DEF Order, ds

\* run_now has looked at the outcome of a call.
Answered(cs, k) == [cs EXCEPT ![k].awaited = FALSE]

\* Nothing else changes, and the thread that waited for it waits for nobody.
Released(rs, cs, ds, k) ==
    /\ cs[k].awaited /\ cs[k].parent # 0 =>
         \A m \in DOMAIN rs : ~ (ds[m].awaited /\ ds[m].parent = cs[k].parent)
    /\ \A m \in DOMAIN rs : ds[m].step = cs[m].step /\ ds[m].phase = cs[m].phase

\* A wait that ends is nobody's any more.
LEMMA AnsweredOrder ==
    ASSUME NEW rs, NEW cs, NEW k \in DOMAIN rs, Order(rs, cs)
    PROVE  Order(rs, Answered(cs, k)) /\ Released(rs, cs, Answered(cs, k), k)
<1> DEFINE c == [cs[k] EXCEPT !.awaited = FALSE]
<1>1. cs[k] \in Call /\ DOMAIN cs = DOMAIN rs
  BY LedgerShape DEF Order
<1>2. /\ c \in Call /\ ~c.awaited /\ c.parent = cs[k].parent /\ c.step = cs[k].step
      /\ c.phase = cs[k].phase
  BY <1>1 DEF Call
<1>3. Answered(cs, k) = [cs EXCEPT ![k] = c]
  BY DEF Answered
<1> HIDE DEF c
<1>4. Order(rs, Answered(cs, k))
  <2>1. Order(rs, [cs EXCEPT ![k] = c])
    BY <1>2, MoveOrder
  <2> QED
    BY <2>1, <1>3
<1>5. Answered(cs, k)[k] = c /\ \A m \in DOMAIN rs : m # k => Answered(cs, k)[m] = cs[m]
  BY <1>1, <1>3
<1>6. cs[k].awaited /\ cs[k].parent # 0 =>
        \A m \in DOMAIN rs : cs[m].awaited /\ cs[m].parent = cs[k].parent => m = k
  BY LedgerShape DEF Order, Paired
<1>7. Released(rs, cs, Answered(cs, k), k)
  BY <1>2, <1>5, <1>6 DEF Released
<1> QED
  BY <1>4, <1>7

\* A success told to the pipeline that waits for it is counted.
LEMMA PassedOrder ==
    ASSUME NEW rs, NEW cs, NEW k \in DOMAIN rs, Order(rs, cs),
           cs[k].awaited, rs[k].state = SUCCEEDED
    PROVE  Order(rs, Passed(Answered(cs, k), cs[k].parent))
<1>0. Order(rs, Answered(cs, k)) /\ Released(rs, cs, Answered(cs, k), k)
  BY AnsweredOrder
<1> DEFINE p  == cs[k].parent
           ds == Answered(cs, k)
           c  == [ds[p] EXCEPT !.step = @ + 1,
                               !.phase = IF ds[p].step + 1 = Len(PIPELINE_STEPS) THEN "return" ELSE "go"]
<1>1. Order(rs, ds) /\ p \in Nat
  BY <1>0, LedgerShape DEF Order
<1>2. CASE p = 0
  BY <1>1, <1>2 DEF Passed
<1>3. CASE p # 0
  <2>1. /\ p \in DOMAIN rs /\ rs[p].job = PIPELINE /\ cs[p].phase = "wait"
        /\ rs[k].run = rs[p].run /\ rs[k].job = PIPELINE_STEPS[cs[p].step + 1]
    BY <1>1, <1>3 DEF Order, Paired
  <2>2. /\ \A m \in DOMAIN rs : ~ (ds[m].awaited /\ ds[m].parent = p)
        /\ ds[p].step = cs[p].step /\ ds[p].phase = "wait"
    <3>1. \A m \in DOMAIN rs : ~ (ds[m].awaited /\ ds[m].parent = p)
      BY <1>0, <1>3 DEF Released
    <3>2. \A m \in DOMAIN rs : ds[m].step = cs[m].step /\ ds[m].phase = cs[m].phase
      BY <1>0 DEF Released
    <3> QED
      BY <2>1, <3>1, <3>2
  <2>3. ds[p] \in Call /\ ds[p].step \in 0..6
    BY <1>1, <2>1, LedgerShape DEF Order
  <2>4. ds[p].step < 6
    BY <1>1, <2>1, <2>2, StepsDistinct DEF Order, Counted
  <2>5. /\ c \in Call /\ c.awaited = ds[p].awaited /\ c.parent = ds[p].parent
        /\ c.step = ds[p].step + 1
        /\ c.phase = IF ds[p].step + 1 = 6 THEN "return" ELSE "go"
    <3>1. ds[p].step + 1 \in 0..Len(PIPELINE_STEPS) /\ Len(PIPELINE_STEPS) = 6
      BY <2>3, <2>4, StepsDistinct
    <3> HIDE DEF ds, p
    <3> QED
      BY <2>3, <3>1 DEF Call
  <2>6. Passed(ds, p) = [ds EXCEPT ![p] = c]
    BY <1>3 DEF Passed
  <2>7. Achieves(rs, rs[p].run, ds[p].step + 1)
    BY <2>1, <2>2 DEF Achieves
  <2>8. \A n \in Steps : n <= ds[p].step => Achieves(rs, rs[p].run, n)
    BY <1>1, <2>1 DEF Order, Counted
  <2>9. \A n \in Steps : n <= c.step => Achieves(rs, rs[p].run, n)
    BY <2>3, <2>5, <2>7, <2>8, StepsDistinct
  <2>10. /\ c.phase = "return" => c.step = Len(PIPELINE_STEPS)
         /\ c.phase \in {"check", "go", "wait"} => c.step < Len(PIPELINE_STEPS)
    BY <2>4, <2>3, <2>5, StepsDistinct
  <2> HIDE DEF c, ds, p
  <2> QED
    BY <1>1, <2>1, <2>2, <2>5, <2>6, <2>9, <2>10, ProceedOrder DEF ds, p
<1> QED
  BY <1>2, <1>3

\* A failure told to the pipeline that waits for it ends its loop.
LEMMA HaltedOrder ==
    ASSUME NEW rs, NEW cs, NEW p \in Nat, Order(rs, cs),
           p # 0 => /\ p \in DOMAIN rs /\ rs[p].job = PIPELINE
                    /\ \A m \in DOMAIN rs : ~ (cs[m].awaited /\ cs[m].parent = p)
    PROVE  Order(rs, Halted(cs, p))
<1> DEFINE c == [cs[p] EXCEPT !.phase = "raise"]
<1>1. CASE p = 0
  BY <1>1 DEF Halted
<1>2. CASE p # 0
  <2>1. cs[p] \in Call
    BY <1>2, LedgerShape DEF Order
  <2>2. /\ c \in Call /\ c.awaited = cs[p].awaited /\ c.parent = cs[p].parent
        /\ c.step = cs[p].step /\ c.phase = "raise"
    BY <2>1 DEF Call
  <2>3. \A n \in Steps : n <= c.step => Achieves(rs, rs[p].run, n)
    BY <1>2, <2>2 DEF Order, Counted
  <2>4. Halted(cs, p) = [cs EXCEPT ![p] = c]
    BY <1>2 DEF Halted
  <2> HIDE DEF c
  <2>5. /\ p \in DOMAIN rs /\ rs[p].job = PIPELINE
        /\ \A m \in DOMAIN rs : ~ (cs[m].awaited /\ cs[m].parent = p)
    BY <1>2
  <2>6. /\ ~ (c.phase = "return") /\ c.phase \notin {"check", "go", "wait"}
    BY <2>2
  <2>7. Order(rs, [cs EXCEPT ![p] = c])
    BY <2>2, <2>3, <2>5, <2>6, ProceedOrder
  <2> QED
    BY <2>4, <2>7
<1> QED
  BY <1>1, <1>2

\* The end of the process leaves no wait and no thread.
Dead(cs) == [k \in DOMAIN cs |-> [Over(cs[k]) EXCEPT !.awaited = FALSE]]

\* A thread that is over is still a call, waited for or not.
LEMMA OverCall ==
    ASSUME NEW c \in Call
    PROVE  /\ Over(c) \in Call /\ Over(c).phase = "done" /\ Over(c).awaited = c.awaited
           /\ Over(c).parent = c.parent /\ Over(c).step = c.step
           /\ [Over(c) EXCEPT !.awaited = FALSE] \in Call
           /\ [Over(c) EXCEPT !.phase = "saved"] \in Call
<1>1. [b \in Borrowers |-> 0] \in [Borrowers -> Nat] /\ {} \in Work
  BY DEF Work
<1> QED
  BY <1>1 DEF Over, Call

\* The end of the process keeps the order: nobody waits, and what is recorded stays.
LEMMA DeadOrder ==
    ASSUME NEW rs, NEW cs, Order(rs, cs)
    PROVE  Order(rs, Dead(cs))
<1>1. LedgerOK(rs, cs) /\ DOMAIN cs = DOMAIN rs /\ DOMAIN rs = 1..Len(rs) /\ Len(rs) \in Nat
  BY LedgerShape DEF Order
<1>2. \A k \in DOMAIN rs : cs[k] \in Call
  BY <1>1, LedgerShape
<1>3. \A k \in DOMAIN rs : /\ Dead(cs)[k] \in Call /\ ~Dead(cs)[k].awaited
                           /\ Dead(cs)[k].phase = "done" /\ Dead(cs)[k].step = cs[k].step
  <2> TAKE k \in DOMAIN rs
  <2>1. Dead(cs)[k] = [Over(cs[k]) EXCEPT !.awaited = FALSE]
    BY <1>1 DEF Dead
  <2>2. Over(cs[k]) \in Call /\ Over(cs[k]).phase = "done" /\ Over(cs[k]).step = cs[k].step
    BY <1>2, OverCall
  <2> QED
    BY <2>1, <2>2 DEF Call
<1>4. Dead(cs) \in [1..Len(rs) -> Call]
  BY <1>1, <1>3 DEF Dead
<1>5. Dead(cs) \in Seq(Call) /\ Len(Dead(cs)) = Len(rs)
  BY <1>1, <1>4, SeqDef, LenProperties
<1>6. LedgerOK(rs, Dead(cs))
  BY <1>1, <1>5 DEF LedgerOK
<1>7. Paired(rs, Dead(cs)) /\ Counted(rs, Dead(cs))
  BY <1>3 DEF Paired, Counted, Order
<1> QED
  BY <1>6, <1>7 DEF Order

\* A row may be added for request r, waited for by the pipeline thread p: what the
\* run asks for has the earlier steps behind it, and p waits for nobody else.
MayStart(rs, cs, r, p) ==
    /\ r \in Request /\ r.run \in 0..Len(rs) /\ p \in Nat
    /\ p # 0 => /\ p \in DOMAIN rs /\ rs[p].job = PIPELINE /\ cs[p].phase = "wait"
                /\ r.run = rs[p].run /\ r.job = PIPELINE_STEPS[cs[p].step + 1]
                /\ \A m \in DOMAIN rs : ~ (cs[m].awaited /\ cs[m].parent = p)
    /\ r.run # 0 /\ r.job = PIPELINE => BatchOf(rs, r.run)
    /\ \A n \in Steps : r.job = PIPELINE_STEPS[n] /\ r.run # 0 /\ BatchOf(rs, r.run) =>
         \A m \in Steps : m < n => Achieves(rs, r.run, m)

\* A new row finds its place in the order.
LEMMA InsertOrder ==
    ASSUME NEW rs, NEW cs, NEW r, NEW p, Order(rs, cs), MayStart(rs, cs, r, p)
    PROVE  Order(Inserted(rs, r), Append(cs, NewCall(r, p)))
<1> DEFINE ss == Inserted(rs, r)
           c  == NewCall(r, p)
           ds == Append(cs, c)
           n  == Len(rs) + 1
<1>1. LedgerOK(rs, cs) /\ DOMAIN cs = DOMAIN rs /\ DOMAIN rs = 1..Len(rs) /\ Len(rs) \in Nat
  BY LedgerShape DEF Order
<1>2. r \in Request /\ p \in Nat /\ r.run \in 0..Len(rs)
  BY DEF MayStart
<1>3. /\ c \in Call /\ c.parent = p /\ c.step = 0
      /\ c.phase = IF r.job = PIPELINE THEN "check" ELSE "read"
  <2>1. [b \in Borrowers |-> 0] \in [Borrowers -> Nat] /\ {} \in Work /\ 0 \in 0..Len(PIPELINE_STEPS)
    BY StepsDistinct DEF Work
  <2> QED
    BY <1>2, <2>1 DEF NewCall, Call
<1>4. /\ ss \in Seq(JobRun) /\ Len(ss) = n /\ DOMAIN ss = DOMAIN rs \union {n} /\ n \notin DOMAIN rs
      /\ \A i \in DOMAIN rs : ss[i] = rs[i]
      /\ ss[n].job = r.job /\ ss[n].state = RUNNING
      /\ ss[n].run = IF r.run = 0 THEN n ELSE r.run
  BY <1>1, <1>2, InsertedFacts DEF LedgerOK
<1>5. /\ ds \in Seq(Call) /\ Len(ds) = n /\ ds[n] = c
      /\ \A i \in DOMAIN rs : ds[i] = cs[i]
  BY <1>1, <1>3, AppendProperties DEF LedgerOK
<1> HIDE DEF ss, ds, c
<1>6. LedgerOK(ss, ds)
  BY <1>1, <1>2, <1>4, <1>5 DEF LedgerOK
<1>7. \A i \in DOMAIN rs : rs[i].run \in 1..Len(rs) /\ rs[i].run # n
  BY <1>1 DEF LedgerOK
<1>8. \A run, m : Achieves(rs, run, m) => Achieves(ss, run, m)
  BY <1>4 DEF Achieves
<1>9. \A i \in DOMAIN rs : BatchOf(ss, rs[i].run) => BatchOf(rs, rs[i].run)
  BY <1>4, <1>7 DEF BatchOf, MayStart
<1>10. r.run # 0 /\ BatchOf(ss, r.run) => BatchOf(rs, r.run)
  BY <1>4 DEF BatchOf, MayStart
<1>11. r.run = 0 /\ r.job # PIPELINE => ~BatchOf(ss, n)
  BY <1>4, <1>7 DEF BatchOf
<1>12. Paired(ss, ds)
  <2> SUFFICES ASSUME NEW k \in DOMAIN ss, NEW q \in Nat \ {0}, ds[k].awaited, ds[k].parent = q
               PROVE  /\ q \in DOMAIN ss /\ ss[q].job = PIPELINE /\ ds[q].phase = "wait"
                      /\ ss[k].run = ss[q].run /\ ss[k].job = PIPELINE_STEPS[ds[q].step + 1]
                      /\ \A m \in DOMAIN ss : ds[m].awaited /\ ds[m].parent = q => m = k
    BY DEF Paired
  <2>1. CASE k \in DOMAIN rs
    <3>1. /\ q \in DOMAIN rs /\ rs[q].job = PIPELINE /\ cs[q].phase = "wait"
          /\ rs[k].run = rs[q].run /\ rs[k].job = PIPELINE_STEPS[cs[q].step + 1]
          /\ \A m \in DOMAIN rs : cs[m].awaited /\ cs[m].parent = q => m = k
      BY <1>5, <2>1 DEF Order, Paired
    <3>2. p # q
      BY <1>5, <2>1 DEF MayStart
    <3> QED
      BY <1>3, <1>4, <1>5, <2>1, <3>1, <3>2
  <2>2. CASE k = n
    <3>1. q = p /\ p # 0
      BY <1>3, <1>5, <2>2
    <3>2. /\ p \in DOMAIN rs /\ rs[p].job = PIPELINE /\ cs[p].phase = "wait"
          /\ r.run = rs[p].run /\ r.job = PIPELINE_STEPS[cs[p].step + 1]
          /\ \A m \in DOMAIN rs : ~ (cs[m].awaited /\ cs[m].parent = p)
      BY <3>1 DEF MayStart
    <3>3. r.run # 0
      BY <1>1, <3>2 DEF LedgerOK
    <3> QED
      BY <1>4, <1>5, <2>2, <3>1, <3>2, <3>3
  <2> QED
    BY <1>4, <2>1, <2>2
<1>13. Counted(ss, ds)
  <2> SUFFICES ASSUME NEW k \in DOMAIN ss, ss[k].job = PIPELINE
               PROVE  /\ \A m \in Steps : m <= ds[k].step => Achieves(ss, ss[k].run, m)
                      /\ ds[k].phase = "return" => ds[k].step = Len(PIPELINE_STEPS)
                      /\ ds[k].phase \in {"check", "go", "wait"} => ds[k].step < Len(PIPELINE_STEPS)
    BY DEF Counted
  <2>1. CASE k \in DOMAIN rs
    BY <1>4, <1>5, <1>8, <2>1 DEF Order, Counted
  <2>2. CASE k = n
    BY <1>3, <1>5, <2>2, StepsDistinct
  <2> QED
    BY <1>4, <2>1, <2>2
<1>14. InTurn(ss)
  <2> SUFFICES ASSUME NEW i \in DOMAIN ss, NEW j \in Steps, ss[i].job = PIPELINE_STEPS[j],
                      BatchOf(ss, ss[i].run), NEW m \in Steps, m < j
               PROVE  Achieves(ss, ss[i].run, m)
    BY DEF InTurn
  <2>1. CASE i \in DOMAIN rs
    BY <1>4, <1>8, <1>9, <2>1 DEF Order, InTurn
  <2>2. CASE i = n
    BY <1>4, <1>8, <1>10, <1>11, <2>2, StepsDistinct DEF MayStart
  <2> QED
    BY <1>4, <2>1, <2>2
<1> QED
  BY <1>6, <1>12, <1>13, <1>14 DEF Order, ss, ds, c
-----------------------------------------------------------------------------
\* What a handler's thread has read, as far as its commit relies on it.
Sound(fs, job, c) ==
    /\ job = "update_cases" /\ c.phase \in {"count", "write"} =>
         c.work \subseteq Borrowers /\ (c.work # {} => c.f \in fs)
    /\ job = "update_cases" /\ c.phase = "write" => \A b \in c.work : c.seq[b] \in Nat \ {0}
    /\ job = "dispatch" /\ c.phase = "write" => c.work \subseteq Reference

\* That of every thread.
ReadsSound(fs, rs, cs) == \A k \in DOMAIN rs : Sound(fs, rs[k].job, cs[k])

\* The disturbances a mix counts.
Kinds == {"triggers", "failures", "timeouts", "crashes", "closes", "empties", "misses"}

\* TypeOK of the tables, of which the cases are finitely many and can be counted ...
StoreOK ==
    /\ forecasts \subseteq DOMAIN rows /\ queue \subseteq Batch
    /\ cases \subseteq [borrower : Borrowers, seq : Nat \ {0}, f : forecasts, closed : Nat]
    /\ IsFiniteSet(cases)
    /\ notes \subseteq [case : Reference, by : DOMAIN rows]

\* ... and of the rest.
RestOK ==
    /\ proc \in {"down", "starting", "up"} /\ todo \subseteq DOMAIN rows
    /\ left \in [Kinds -> Nat] /\ gaveup \in BOOLEAN
    /\ missed \subseteq [by : Nat \ {0}, of : Borrowers \union Reference]

BatchInv ==
    Order(rows, calls) /\ ReadsSound(forecasts, rows, calls) /\ StoreOK /\ RestOK

\* What every step does to the ledger: it adds a row in its turn or none, and a
\* pipeline succeeds only at the end of its loop.
LedgerStep ==
    /\ Order(rows', calls') /\ ReadsSound(forecasts', rows', calls')
    /\ DOMAIN rows \subseteq DOMAIN rows'
    /\ \/ Len(rows') = Len(rows)
       \/ \E cs, r, p : Order(rows, cs) /\ MayStart(rows, cs, r, p) /\ rows' = Inserted(rows, r)
    /\ \A i \in DOMAIN rows :
         IsPipeline(i) /\ rows[i].state # SUCCEEDED /\ rows'[i].state = SUCCEEDED =>
             calls[i].phase = "return"

\* An UPDATE of job_run settles rows.
LEMMA TransitionSettles ==
    ASSUME NEW rs \in Seq(JobRun), NEW S, NEW to \in RunStates
    PROVE  Settled(rs, Transition(rs, S, to))
  BY TransitionFacts DEF Settled

\* A thread that moves on, its row perhaps settled.
LEMMA MoveStep ==
    ASSUME BatchInv, NEW k \in DOMAIN rows, NEW c \in Call, Settled(rows, rows'),
           calls' = [calls EXCEPT ![k] = c],
           c.awaited = calls[k].awaited, c.parent = calls[k].parent, c.step = calls[k].step,
           IsPipeline(k) =>
               \/ calls[k].phase # "wait" /\ c.phase \in {"raise", "done"}
               \/ calls[k].phase = "check" /\ c.phase = "go"
               \/ c.phase = calls[k].phase,
           \A i \in DOMAIN rows :
               IsPipeline(i) /\ rows[i].state # SUCCEEDED /\ rows'[i].state = SUCCEEDED =>
                   calls[i].phase = "return",
           forecasts \subseteq forecasts', Sound(forecasts', rows[k].job, c)
    PROVE  LedgerStep
<1>1. Order(rows, calls) /\ DOMAIN calls = DOMAIN rows
  BY LedgerShape DEF BatchInv, Order
<1>2. Order(rows, calls')
  BY <1>1, MoveOrder DEF IsPipeline
<1>3. Order(rows', calls')
  BY <1>2, SettleOrder
<1>4. /\ DOMAIN rows' = DOMAIN rows /\ Len(rows') = Len(rows)
      /\ \A i \in DOMAIN rows : rows'[i].job = rows[i].job
  BY DEF Settled
<1>5. calls'[k] = c /\ \A i \in DOMAIN rows : i # k => calls'[i] = calls[i]
  BY <1>1
<1>6. ASSUME NEW i \in DOMAIN rows PROVE Sound(forecasts', rows'[i].job, calls'[i])
  <2>1. CASE i = k
    BY <1>4, <1>5, <2>1
  <2>2. CASE i # k
    <3>1. Sound(forecasts, rows[i].job, calls[i])
      BY DEF BatchInv, ReadsSound
    <3> QED
      BY <1>4, <1>5, <2>2, <3>1 DEF Sound
  <2> QED
    BY <2>1, <2>2
<1>7. ReadsSound(forecasts', rows', calls')
  BY <1>4, <1>6 DEF ReadsSound
<1> QED
  BY <1>3, <1>4, <1>7 DEF LedgerStep

\* A thread that is over writes its outcome, if nobody has.
LEMMA SettleStep ==
    ASSUME BatchInv, NEW k \in DOMAIN rows, NEW to \in {SUCCEEDED, FAILED},
           rows' = Transition(rows, {k}, to), calls' = [calls EXCEPT ![k] = Over(@)],
           IsPipeline(k) =>
               calls[k].phase = "return" \/ (calls[k].phase = "raise" /\ to = FAILED),
           forecasts' = forecasts
    PROVE  LedgerStep
<1> DEFINE c == Over(calls[k])
<1>1. /\ rows \in Seq(JobRun) /\ to \in RunStates /\ calls[k] \in Call
  BY LedgerShape DEF BatchInv, Order, LedgerOK, RunStates, TerminalStates
<1>2. Settled(rows, rows')
  BY <1>1, TransitionSettles
<1>3. /\ c \in Call /\ c.phase = "done" /\ c.awaited = calls[k].awaited
      /\ c.parent = calls[k].parent /\ c.step = calls[k].step
  BY <1>1, OverCall
<1>4. \A i \in DOMAIN rows : rows'[i].state = SUCCEEDED /\ rows[i].state # SUCCEEDED =>
                                 i = k /\ to = SUCCEEDED
  BY <1>1, TransitionFacts
<1>5. SUCCEEDED # FAILED
  BY DEF SUCCEEDED, FAILED
<1>6. calls' = [calls EXCEPT ![k] = c]
  OBVIOUS
<1>7. Sound(forecasts', rows[k].job, c)
  BY <1>3 DEF Sound
<1> HIDE DEF c
<1>8. \A i \in DOMAIN rows :
        IsPipeline(i) /\ rows[i].state # SUCCEEDED /\ rows'[i].state = SUCCEEDED =>
            calls[i].phase = "return"
  BY <1>4, <1>5
<1>9. IsPipeline(k) => calls[k].phase # "wait" /\ c.phase \in {"raise", "done"}
  BY <1>3
<1> QED
  BY <1>2, <1>3, <1>6, <1>7, <1>8, <1>9, MoveStep

\* A step that leaves the table alone settles nothing.
LEMMA SameRows ==
    ASSUME BatchInv, rows' = rows
    PROVE  /\ Settled(rows, rows')
           /\ \A i \in DOMAIN rows :
                IsPipeline(i) /\ rows[i].state # SUCCEEDED /\ rows'[i].state = SUCCEEDED =>
                    calls[i].phase = "return"
  BY DEF Settled, BatchInv, Order, LedgerOK

\* A handler's commit.
LEMMA CommitStep ==
    ASSUME BatchInv, NEW k \in DOMAIN rows, ~IsPipeline(k), rows' = rows, Saved(k),
           forecasts \subseteq forecasts'
    PROVE  LedgerStep
<1> DEFINE c == [Over(calls[k]) EXCEPT !.phase = "saved"]
<1>1. calls[k] \in Call
  BY LedgerShape DEF BatchInv, Order
<1>2. /\ c \in Call /\ c.phase = "saved" /\ c.awaited = calls[k].awaited
      /\ c.parent = calls[k].parent /\ c.step = calls[k].step
  <2>1. /\ Over(calls[k]) \in Call /\ Over(calls[k]).awaited = calls[k].awaited
        /\ Over(calls[k]).parent = calls[k].parent /\ Over(calls[k]).step = calls[k].step
        /\ c \in Call
    BY <1>1, OverCall
  <2> QED
    BY <2>1 DEF Call
<1>3. calls' = [calls EXCEPT ![k] = c]
  BY DEF Saved
<1>4. Sound(forecasts', rows[k].job, c)
  BY <1>2 DEF Sound
<1> HIDE DEF c
<1> QED
  BY <1>2, <1>3, <1>4, SameRows, MoveStep

\* A handler's read, of a kind that its commit may rely on.
LEMMA ReadStep ==
    ASSUME BatchInv, NEW k \in DOMAIN rows, ~IsPipeline(k), rows' = rows, forecasts' = forecasts,
           NEW c \in Call, calls' = [calls EXCEPT ![k] = c],
           c.awaited = calls[k].awaited, c.parent = calls[k].parent, c.step = calls[k].step,
           Sound(forecasts, rows[k].job, c)
    PROVE  LedgerStep
  BY SameRows, MoveStep

\* No thread moves; rows may settle, but not a pipeline as a success.
LEMMA IdleStep ==
    ASSUME BatchInv, calls' = calls, forecasts' = forecasts,
           \/ rows' = rows
           \/ \E S : \E to \in {FAILED, INTERRUPTED} : rows' = Transition(rows, S, to)
    PROVE  LedgerStep
<1>1. Order(rows, calls) /\ rows \in Seq(JobRun) /\ ReadsSound(forecasts, rows, calls)
  BY DEF BatchInv, Order, LedgerOK
<1>2. CASE rows' = rows
  BY <1>1, <1>2 DEF LedgerStep
<1>3. ASSUME NEW S, NEW to \in {FAILED, INTERRUPTED}, rows' = Transition(rows, S, to)
      PROVE  LedgerStep
  <2>1. to \in RunStates /\ to # SUCCEEDED
    BY DEF RunStates, TerminalStates, FAILED, INTERRUPTED, SUCCEEDED
  <2>2. Settled(rows, rows') /\ \A i \in DOMAIN rows :
          rows'[i].state = SUCCEEDED => rows[i].state = SUCCEEDED
    BY <1>1, <1>3, <2>1, TransitionSettles, TransitionFacts
  <2>3. Order(rows', calls)
    BY <1>1, <2>2, SettleOrder
  <2>4. ReadsSound(forecasts', rows', calls')
    BY <1>1, <2>2 DEF ReadsSound, Settled
  <2> QED
    BY <2>2, <2>3, <2>4 DEF LedgerStep, Settled
<1> QED
  BY <1>2, <1>3

\* Only the calls change, and no thread has read more.
LEMMA CallsStep ==
    ASSUME BatchInv, rows' = rows, forecasts' = forecasts, Order(rows, calls'),
           \A k \in DOMAIN rows : Sound(forecasts, rows[k].job, calls'[k])
    PROVE  LedgerStep
  BY DEF LedgerStep, BatchInv, Order, LedgerOK, ReadsSound

\* The process ends.
LEMMA DieStep ==
    ASSUME BatchInv, rows' = rows, forecasts' = forecasts, Die
    PROVE  LedgerStep /\ proc' = "down" /\ todo' = {}
<1>1. Order(rows, calls) /\ calls' = Dead(calls) /\ DOMAIN calls = DOMAIN rows
  BY LedgerShape DEF BatchInv, Order, Die, Dead
<1>2. Order(rows, calls')
  BY <1>1, DeadOrder
<1>3. ASSUME NEW k \in DOMAIN rows PROVE calls'[k].phase = "done"
  <2>1. Over(calls[k]).phase = "done" /\ Over(calls[k]) \in Call
    BY <1>1, LedgerShape, OverCall DEF Order
  <2>2. calls'[k] = [Over(calls[k]) EXCEPT !.awaited = FALSE]
    BY <1>1 DEF Dead
  <2> QED
    BY <2>1, <2>2 DEF Call
<1>4. \A k \in DOMAIN rows : Sound(forecasts, rows[k].job, calls'[k])
  BY <1>3 DEF Sound
<1> QED
  BY <1>2, <1>4, CallsStep DEF Die

\* run_now adds a row and its call.
LEMMA RunNowStep ==
    ASSUME BatchInv, NEW r, NEW p, NEW cs, RunNow(r, p, cs), forecasts' = forecasts,
           Order(rows, cs), MayStart(rows, cs, r, p),
           \A k \in DOMAIN rows : Sound(forecasts, rows[k].job, cs[k])
    PROVE  LedgerStep
<1>1. /\ rows' = Inserted(rows, r) /\ calls' = Append(cs, NewCall(r, p))
      /\ Order(rows', calls')
  BY InsertOrder DEF RunNow
<1>2. /\ rows \in Seq(JobRun) /\ cs \in Seq(Call) /\ Len(cs) = Len(rows)
      /\ DOMAIN rows = 1..Len(rows) /\ r \in Request
  BY LedgerShape DEF Order, LedgerOK, MayStart
<1>3. /\ DOMAIN rows' = DOMAIN rows \union {Len(rows) + 1}
      /\ \A i \in DOMAIN rows : rows'[i] = rows[i]
      /\ rows'[Len(rows) + 1].job = r.job
  BY <1>1, <1>2, InsertedFacts
<1>4. NewCall(r, p) \in Call
  <2>1. p \in Nat /\ 0 \in 0..Len(PIPELINE_STEPS) /\ {} \in Work
    BY StepsDistinct DEF MayStart, Work
  <2>2. [b \in Borrowers |-> 0] \in [Borrowers -> Nat]
    OBVIOUS
  <2> QED
    BY <2>1, <2>2 DEF NewCall, Call
<1>5. /\ calls'[Len(rows) + 1] = NewCall(r, p)
      /\ \A i \in DOMAIN rows : calls'[i] = cs[i]
  BY <1>1, <1>2, <1>4, AppendProperties
<1>6. Sound(forecasts', rows'[Len(rows) + 1].job, calls'[Len(rows) + 1])
  BY <1>5 DEF Sound, NewCall
<1>7. ReadsSound(forecasts', rows', calls')
  BY <1>3, <1>5, <1>6 DEF ReadsSound
<1>8. \E ds, s, q : Order(rows, ds) /\ MayStart(rows, ds, s, q) /\ rows' = Inserted(rows, s)
  BY <1>1
<1> QED
  BY <1>1, <1>3, <1>7, <1>8 DEF LedgerStep

\* What a caller without a pipeline may ask for: a run of its own, or the next
\* attempt at a row.
LEMMA FreshStart ==
    ASSUME NEW rs, NEW cs, Order(rs, cs), NEW job \in Jobs
    PROVE  MayStart(rs, cs, [job |-> job, run |-> 0, attempt |-> 1], 0)
  BY LedgerShape DEF MayStart, Request, Order

\* RetryOf, for any table.
Retry(rs, k) == [job |-> rs[k].job, run |-> rs[k].run, attempt |-> rs[k].attempt + 1]

\* An attempt is repeated for nobody, or for the pipeline its predecessor was for.
LEMMA RetryStart ==
    ASSUME NEW rs, NEW cs, NEW ds, NEW k \in DOMAIN rs, Order(rs, cs), NEW p \in Nat,
           p # 0 => cs[k].awaited /\ cs[k].parent = p /\ Released(rs, cs, ds, k)
    PROVE  MayStart(rs, ds, Retry(rs, k), p)
<1> DEFINE r == Retry(rs, k)
<1>1. /\ rs[k] \in JobRun /\ k \in 1..Len(rs) /\ rs[k].run \in 1..k /\ Len(rs) \in Nat
  BY LedgerShape DEF Order, LedgerOK
<1>2. /\ r.job = rs[k].job /\ r.run = rs[k].run /\ r.run \in 0..Len(rs) /\ r \in Request
  BY <1>1 DEF Retry, JobRun, Request
<1> HIDE DEF r
<1>3. r.job = PIPELINE => BatchOf(rs, r.run)
  BY <1>2 DEF BatchOf
<1>4. \A n \in Steps : r.job = PIPELINE_STEPS[n] /\ BatchOf(rs, r.run) =>
         \A m \in Steps : m < n => Achieves(rs, r.run, m)
  BY <1>2 DEF Order, InTurn
<1>5. p # 0 => /\ p \in DOMAIN rs /\ rs[p].job = PIPELINE /\ ds[p].phase = "wait"
               /\ r.run = rs[p].run /\ r.job = PIPELINE_STEPS[ds[p].step + 1]
               /\ \A m \in DOMAIN rs : ~ (ds[m].awaited /\ ds[m].parent = p)
  BY <1>2 DEF Order, Paired, Released
<1> QED
  BY <1>2, <1>3, <1>4, <1>5 DEF MayStart, r
-----------------------------------------------------------------------------
\* A step that keeps the ledger in order and leaves the tables alone.
LEMMA StoreKept ==
    ASSUME BatchInv, LedgerStep, UNCHANGED store,
           proc' \in {"down", "starting", "up"}, todo' \subseteq DOMAIN rows,
           left' \in [Kinds -> Nat], gaveup' \in BOOLEAN,
           missed' \subseteq [by : Nat \ {0}, of : Borrowers \union Reference]
    PROVE  BatchInv'
  BY DEF BatchInv, LedgerStep, StoreOK, RestOK, store

\* What a disturbance leaves of its mix.
LEMMA SpendType ==
    ASSUME RestOK, NEW what \in Kinds, Spend(what)
    PROVE  left' \in [Kinds -> Nat]
  BY DEF RestOK, Spend

\* An administrator or a cron tick starts a job under a run id of its own.
LEMMA TriggerInv ==
    ASSUME BatchInv, NEW job \in Triggered, Trigger(job)
    PROVE  LedgerStep /\ BatchInv'
<1>1. LedgerStep
  <2>1. /\ RunNow([job |-> job, run |-> 0, attempt |-> 1], 0, calls) /\ forecasts' = forecasts
        /\ job \in Jobs
    BY PipelineAssumption DEF Trigger, store
  <2>2. /\ Order(rows, calls)
        /\ \A k \in DOMAIN rows : Sound(forecasts, rows[k].job, calls[k])
    BY DEF BatchInv, ReadsSound
  <2>3. MayStart(rows, calls, [job |-> job, run |-> 0, attempt |-> 1], 0)
    BY <2>1, <2>2, FreshStart
  <2> QED
    BY <2>1, <2>2, <2>3, RunNowStep
<1>2. left' \in [Kinds -> Nat]
  BY SpendType DEF Trigger, BatchInv, Kinds
<1> QED
  BY <1>1, <1>2, StoreKept DEF Trigger, BatchInv, RestOK

\* _refuse_overlapping_pipeline only decides where its thread goes.
LEMMA CheckOverlapInv ==
    ASSUME BatchInv, NEW k \in DOMAIN rows, CheckOverlap(k)
    PROVE  LedgerStep /\ BatchInv'
<1>1. calls[k] \in Call /\ rows' = rows /\ forecasts' = forecasts
  BY LedgerShape DEF BatchInv, Order, CheckOverlap, store
<1>2. PICK ph \in {"raise", "go"} : calls' = [calls EXCEPT ![k].phase = ph]
  BY DEF CheckOverlap
<1> DEFINE c == [calls[k] EXCEPT !.phase = ph]
<1>3. /\ c \in Call /\ c.phase = ph /\ c.awaited = calls[k].awaited
      /\ c.parent = calls[k].parent /\ c.step = calls[k].step
  BY <1>1 DEF Call
<1>4. calls' = [calls EXCEPT ![k] = c]
  BY <1>2
<1>5. calls[k].phase = "check"
  BY DEF CheckOverlap
<1> HIDE DEF c
<1>6. Sound(forecasts', rows[k].job, c)
  BY <1>3 DEF Sound
<1>7. \/ calls[k].phase # "wait" /\ c.phase \in {"raise", "done"}
      \/ calls[k].phase = "check" /\ c.phase = "go"
  BY <1>3, <1>5
<1>8. LedgerStep
  BY <1>1, <1>3, <1>4, <1>6, <1>7, SameRows, MoveStep
<1> QED
  BY <1>8, StoreKept DEF CheckOverlap, BatchInv, RestOK, bounds

\* A pipeline starts its next step, with all the earlier ones behind it, or halts.
LEMMA StartStepInv ==
    ASSUME BatchInv, NEW k \in DOMAIN rows, StartStep(k)
    PROVE  LedgerStep /\ BatchInv'
<1> DEFINE step == PIPELINE_STEPS[calls[k].step + 1]
           r    == [job |-> step, run |-> rows[k].run, attempt |-> 1]
           c    == [calls[k] EXCEPT !.phase = "wait"]
           cs   == [calls EXCEPT ![k].phase = "wait"]
<1>1. /\ Order(rows, calls) /\ DOMAIN calls = DOMAIN rows /\ rows[k].job = PIPELINE
      /\ calls[k].phase = "go" /\ calls[k] \in Call /\ calls[k].step \in 0..6
      /\ forecasts' = forecasts /\ k \in Nat \ {0}
      /\ ReadsSound(forecasts, rows, calls)
  BY LedgerShape DEF BatchInv, Order, StartStep, IsPipeline, store
<1>2. calls[k].step < 6 /\ calls[k].step + 1 \in Steps
  BY <1>1, StepsDistinct DEF Order, Counted
<1>3. \A m \in DOMAIN rows : ~ (calls[m].awaited /\ calls[m].parent = k)
  BY <1>1 DEF Order, Paired
<1>4. \A n \in Steps : n <= calls[k].step => Achieves(rows, rows[k].run, n)
  BY <1>1 DEF Order, Counted
<1>5. ASSUME Free(step), RunNow(r, k, cs)
      PROVE  LedgerStep
  <2>1. /\ c \in Call /\ c.phase = "wait" /\ c.awaited = calls[k].awaited
        /\ c.parent = calls[k].parent /\ c.step = calls[k].step
    BY <1>1 DEF Call
  <2>2. cs = [calls EXCEPT ![k] = c]
    OBVIOUS
  <2> HIDE DEF c
  <2>3. Order(rows, [calls EXCEPT ![k] = c])
    BY <1>1, <1>2, <1>3, <1>4, <2>1, StepsDistinct, ProceedOrder
  <2>4. cs[k] = c /\ \A m \in DOMAIN rows : m # k => cs[m] = calls[m]
    BY <1>1, <2>2
  <2>5. \A m \in DOMAIN rows : Sound(forecasts, rows[m].job, cs[m])
    <3>1. Sound(forecasts, rows[k].job, cs[k])
      BY <2>1, <2>4 DEF Sound
    <3> QED
      BY <1>1, <2>4, <3>1 DEF ReadsSound
  <2>6. \A m \in DOMAIN rows : ~ (cs[m].awaited /\ cs[m].parent = k)
    BY <1>3, <2>1, <2>4
  <2>7. /\ r.job = PIPELINE_STEPS[calls[k].step + 1] /\ r.run = rows[k].run
        /\ r \in Request /\ r.run \in 0..Len(rows) /\ r.job # PIPELINE
    <3>1. rows[k].run \in 1..k /\ k \in 1..Len(rows) /\ Len(rows) \in Nat
      BY <1>1, LedgerShape DEF Order, LedgerOK
    <3> QED
      BY <1>2, <3>1, StepsDistinct DEF Request
  <2>8. \A n \in Steps : r.job = PIPELINE_STEPS[n] =>
           \A m \in Steps : m < n => Achieves(rows, r.run, m)
    <3>1. \A n \in Steps : r.job = PIPELINE_STEPS[n] => n = calls[k].step + 1
      BY <1>2, <2>7, StepsDistinct
    <3> HIDE DEF r
    <3> QED
      BY <1>1, <1>4, <2>7, <3>1, StepsDistinct
  <2> HIDE DEF r, cs, step
  <2>9. MayStart(rows, cs, r, k)
    BY <1>1, <2>1, <2>4, <2>6, <2>7, <2>8 DEF MayStart
  <2> QED
    BY <1>1, <1>5, <2>2, <2>3, <2>5, <2>9, RunNowStep
<1>6. ASSUME ~Free(step), calls' = Halted(calls, k), rows' = rows
      PROVE  LedgerStep
  <2>1. Order(rows, calls')
    BY <1>1, <1>3, <1>6, HaltedOrder
  <2>2. \A m \in DOMAIN rows : Sound(forecasts, rows[m].job, calls'[m])
    <3>1. calls' = [calls EXCEPT ![k].phase = "raise"]
      BY <1>1, <1>6 DEF Halted
    <3>2. calls'[k].phase = "raise" /\ \A m \in DOMAIN rows : m # k => calls'[m] = calls[m]
      BY <1>1, <3>1 DEF Call
    <3>3. Sound(forecasts, rows[k].job, calls'[k])
      BY <3>2 DEF Sound
    <3> QED
      BY <1>1, <3>2, <3>3 DEF ReadsSound
  <2> QED
    BY <1>1, <1>6, <2>1, <2>2, CallsStep
<1>7. LedgerStep
  BY <1>5, <1>6 DEF StartStep
<1> QED
  BY <1>7, StoreKept DEF StartStep, BatchInv, RestOK, bounds

\* PipelineEnds, and each way a handler's thread ends with its row.
LEMMA EndInv ==
    ASSUME BatchInv, NEW k \in DOMAIN rows,
           \/ PipelineEnds(k) \/ Prepare(k) \/ NothingToScore(k) \/ ScoreRefused(k)
           \/ HandlerFails(k) \/ StepEnds(k)
    PROVE  LedgerStep /\ BatchInv'
<1>1. PICK to \in {SUCCEEDED, FAILED} :
        /\ rows' = Transition(rows, {k}, to) /\ calls' = [calls EXCEPT ![k] = Over(@)]
        /\ IsPipeline(k) => calls[k].phase = "return" \/ (calls[k].phase = "raise" /\ to = FAILED)
  BY DEF PipelineEnds, Prepare, NothingToScore, ScoreRefused, HandlerFails, StepEnds, Settle,
         At, IsPipeline, PIPELINE
<1>2. /\ UNCHANGED <<store, proc, todo, gaveup, missed>> /\ forecasts' = forecasts
      /\ left' = left \/ Spend("empties") \/ Spend("failures")
  BY DEF PipelineEnds, Prepare, NothingToScore, ScoreRefused, HandlerFails, StepEnds, Settle,
         store, bounds
<1>3. LedgerStep
  BY <1>1, <1>2, SettleStep
<1>4. left' \in [Kinds -> Nat]
  BY <1>2, SpendType DEF BatchInv, RestOK, Kinds
<1> QED
  BY <1>2, <1>3, <1>4, StoreKept DEF BatchInv, RestOK
-----------------------------------------------------------------------------
\* _existing_forecast_run finds a forecast or none.
LEMMA ExistingForecast ==
    ASSUME BatchInv, NEW run, NEW f \in Existing(run)
    PROVE  f \in Nat /\ (f = 0 \/ f \in forecasts)
  BY LedgerShape DEF Existing, ForecastsOf, BatchInv, StoreOK, Order

\* What a thread puts in its metrics are borrowers or references.
LEMMA ReportRest ==
    ASSUME BatchInv, NEW k \in DOMAIN rows, NEW items \in SUBSET (Borrowers \union Reference),
           NEW lost, Report(k, items, lost)
    PROVE  /\ left' \in [Kinds -> Nat] /\ gaveup' \in BOOLEAN
           /\ missed' \subseteq [by : Nat \ {0}, of : Borrowers \union Reference]
<1>1. k \in Nat \ {0}
  BY LedgerShape DEF BatchInv, Order
<1>2. left' \in [Kinds -> Nat]
  <2>1. CASE UNCHANGED left
    BY <2>1 DEF BatchInv, RestOK
  <2>2. CASE Spend("misses")
    BY <2>2, SpendType DEF BatchInv, Kinds
  <2> QED
    BY <2>1, <2>2 DEF Report
<1>3. gaveup' = gaveup /\ missed' = missed \union {[by |-> k, of |-> i] : i \in items}
  BY DEF Report
<1> QED
  BY <1>1, <1>2, <1>3 DEF BatchInv, RestOK

\* Reading changes nothing but what the thread knows and reports.
LEMMA ReadInv ==
    ASSUME BatchInv, NEW k \in DOMAIN rows, NEW f \in Nat, NEW work \in Work, Read(k, f, work),
           ~IsPipeline(k), rows[k].job # "update_cases",
           rows[k].job = "dispatch" => work \subseteq Reference,
           left' \in [Kinds -> Nat], gaveup' \in BOOLEAN,
           missed' \subseteq [by : Nat \ {0}, of : Borrowers \union Reference]
    PROVE  LedgerStep /\ BatchInv'
<1> DEFINE c == [calls[k] EXCEPT !.phase = "write", !.f = f, !.work = work]
<1>1. calls[k] \in Call /\ UNCHANGED <<rows, store, proc, todo>>
  BY LedgerShape DEF BatchInv, Order, Read
<1>2. /\ c \in Call /\ c.phase = "write" /\ c.work = work /\ c.awaited = calls[k].awaited
      /\ c.parent = calls[k].parent /\ c.step = calls[k].step
  BY <1>1 DEF Call
<1>3. calls' = [calls EXCEPT ![k] = c]
  BY DEF Read
<1> HIDE DEF c
<1>4. Sound(forecasts, rows[k].job, c)
  BY <1>2 DEF Sound
<1>5. LedgerStep
  BY <1>1, <1>2, <1>3, <1>4, ReadStep DEF store
<1> QED
  BY <1>1, <1>5, StoreKept DEF BatchInv, RestOK

\* Leaving the bounds alone keeps their types.
LEMMA BoundsKept ==
    ASSUME BatchInv, UNCHANGED bounds
    PROVE  /\ left' \in [Kinds -> Nat] /\ gaveup' \in BOOLEAN
           /\ missed' \subseteq [by : Nat \ {0}, of : Borrowers \union Reference]
  BY DEF BatchInv, RestOK, bounds

\* The reads of score, rank and dispatch.
LEMMA ReadsInv ==
    ASSUME BatchInv, NEW k \in DOMAIN rows, ReadScore(k) \/ ReadRank(k) \/ ReadDispatch(k)
    PROVE  LedgerStep /\ BatchInv'
<1>1. \A f : Refs(Unnotified(f)) \subseteq Reference
  BY DEF Refs, Ref, Opened, Unnotified, BatchInv, StoreOK, Reference
<1>2. {} \in Work
  BY DEF Work
<1>3. CASE ReadScore(k)
  <2>1. PICK f \in Existing(rows[k].run) : Read(k, f, {})
    BY <1>3 DEF ReadScore
  <2>2. ~IsPipeline(k) /\ rows[k].job = "score" /\ UNCHANGED bounds
    BY <1>3 DEF ReadScore, At, IsPipeline, PIPELINE
  <2> QED
    BY <1>2, <2>1, <2>2, ExistingForecast, BoundsKept, ReadInv
<1>4. CASE ReadRank(k)
  <2>1. PICK f \in Existing(rows[k].run) : Read(k, IF \E e \in queue : e.f = f THEN 0 ELSE f, {})
    BY <1>4 DEF ReadRank
  <2>2. ~IsPipeline(k) /\ rows[k].job = "rank" /\ UNCHANGED bounds
    BY <1>4 DEF ReadRank, At, IsPipeline, PIPELINE
  <2>3. (IF \E e \in queue : e.f = f THEN 0 ELSE f) \in Nat
    BY ExistingForecast
  <2> QED
    BY <1>2, <2>1, <2>2, <2>3, BoundsKept, ReadInv
<1>5. CASE ReadDispatch(k)
  <2> PICK f \in Existing(rows[k].run) :
         \E unassigned \in SUBSET Refs(Unnotified(f)) :
             /\ Read(k, f, Refs(Unnotified(f)) \ unassigned)
             /\ Report(k, unassigned, unassigned)
    BY <1>5 DEF ReadDispatch
  <2>1. PICK unassigned \in SUBSET Refs(Unnotified(f)) :
          /\ Read(k, f, Refs(Unnotified(f)) \ unassigned)
          /\ Report(k, unassigned, unassigned)
    OBVIOUS
  <2>2. ~IsPipeline(k) /\ rows[k].job = "dispatch"
    BY <1>5 DEF ReadDispatch, At, IsPipeline, PIPELINE
  <2> DEFINE work == Refs(Unnotified(f)) \ unassigned
  <2>3. work \subseteq Reference /\ unassigned \subseteq Reference /\ f \in Nat /\ Read(k, f, work)
    BY <1>1, <2>1, ExistingForecast
  <2> HIDE DEF work
  <2>4. work \in Work /\ unassigned \in SUBSET (Borrowers \union Reference)
    BY <2>3 DEF Work
  <2>5. /\ left' \in [Kinds -> Nat] /\ gaveup' \in BOOLEAN
        /\ missed' \subseteq [by : Nat \ {0}, of : Borrowers \union Reference]
    BY <2>1, <2>4, ReportRest
  <2> QED
    BY <2>2, <2>3, <2>4, <2>5, ReadInv
<1> QED
  BY <1>3, <1>4, <1>5

\* update_cases reads the queue of a forecast that exists.
LEMMA ReadCasesInv ==
    ASSUME BatchInv, NEW k \in DOMAIN rows, ReadCases(k)
    PROVE  LedgerStep /\ BatchInv'
<1>1. PICK f \in Existing(rows[k].run) :
        calls' = [calls EXCEPT
           ![k].phase = "count", ![k].f = f,
           ![k].work = {b \in UNION {e.act : e \in {q \in queue : q.f = f}} : OpenCases(b) = {}}]
  BY DEF ReadCases
<1> DEFINE work == {b \in UNION {e.act : e \in {q \in queue : q.f = f}} : OpenCases(b) = {}}
           c    == [calls[k] EXCEPT !.phase = "count", !.f = f, !.work = work]
<1>2. /\ calls[k] \in Call /\ UNCHANGED <<rows, store, proc, todo, bounds>>
      /\ ~IsPipeline(k) /\ rows[k].job = "update_cases"
  BY LedgerShape DEF BatchInv, Order, ReadCases, At, IsPipeline, PIPELINE
<1>3. \A e \in queue : e.f \in Nat \ {0} /\ e.act \subseteq Borrowers
  BY DEF BatchInv, StoreOK, Batch
<1>4. work \subseteq Borrowers /\ work \in Work
  BY <1>3 DEF Work
<1>5. work # {} => f # 0
  BY <1>3
<1>6. f \in Nat /\ (f = 0 \/ f \in forecasts)
  BY ExistingForecast
<1>7. calls' = [calls EXCEPT ![k] = c]
  BY <1>1
<1> HIDE DEF work
<1>8. /\ c \in Call /\ c.phase = "count" /\ c.f = f /\ c.work = work
      /\ c.awaited = calls[k].awaited /\ c.parent = calls[k].parent /\ c.step = calls[k].step
  BY <1>2, <1>4, <1>6 DEF Call
<1> HIDE DEF c
<1>9. Sound(forecasts, rows[k].job, c)
  BY <1>2, <1>4, <1>5, <1>6, <1>8 DEF Sound
<1>10. LedgerStep
  BY <1>2, <1>7, <1>8, <1>9, ReadStep DEF store
<1> QED
  BY <1>2, <1>10, StoreKept DEF BatchInv, RestOK, bounds

\* The ordinal of the next reference is a number, as the cases are finitely many.
LEMMA CountCasesInv ==
    ASSUME BatchInv, NEW k \in DOMAIN rows, CountCases(k)
    PROVE  LedgerStep /\ BatchInv'
<1> DEFINE seq == [b \in Borrowers |->
                     IF b \in calls[k].work THEN Cardinality(CasesOf(b)) + 1 ELSE 0]
           c   == [calls[k] EXCEPT !.phase = "write", !.seq = seq]
<1>1. /\ calls[k] \in Call /\ UNCHANGED <<rows, store, proc, todo, bounds>>
      /\ ~IsPipeline(k) /\ rows[k].job = "update_cases" /\ calls[k].phase = "count"
      /\ Sound(forecasts, rows[k].job, calls[k])
  BY LedgerShape DEF BatchInv, ReadsSound, Order, CountCases, At, IsPipeline, PIPELINE
<1>2. \A b : Cardinality(CasesOf(b)) \in Nat
  <2> TAKE b
  <2>1. CasesOf(b) \in SUBSET cases /\ IsFiniteSet(cases)
    BY DEF CasesOf, BatchInv, StoreOK
  <2>2. IsFiniteSet(CasesOf(b))
    BY <2>1, FS_Subset
  <2> QED
    BY <2>2, FS_CardinalityType
<1>3. seq \in [Borrowers -> Nat] /\ \A b \in Borrowers : b \in calls[k].work => seq[b] \in Nat \ {0}
  BY <1>2
<1>4. calls' = [calls EXCEPT ![k] = c]
  BY DEF CountCases
<1> HIDE DEF seq
<1>5. /\ c \in Call /\ c.phase = "write" /\ c.f = calls[k].f /\ c.work = calls[k].work
      /\ c.seq = seq
      /\ c.awaited = calls[k].awaited /\ c.parent = calls[k].parent /\ c.step = calls[k].step
  BY <1>1, <1>3 DEF Call
<1> HIDE DEF c
<1>6. calls[k].work \subseteq Borrowers /\ (calls[k].work # {} => calls[k].f \in forecasts)
  BY <1>1 DEF Sound
<1>7. Sound(forecasts, rows[k].job, c)
  BY <1>1, <1>3, <1>5, <1>6 DEF Sound
<1>8. LedgerStep
  BY <1>1, <1>4, <1>5, <1>7, ReadStep DEF store
<1> QED
  BY <1>1, <1>8, StoreKept DEF BatchInv, RestOK, bounds
-----------------------------------------------------------------------------
\* A handler's commit, and the tables after it.
LEMMA CommitInv ==
    ASSUME BatchInv, NEW k \in DOMAIN rows, ~IsPipeline(k), Commit(k),
           forecasts \subseteq forecasts', StoreOK',
           left' \in [Kinds -> Nat], gaveup' \in BOOLEAN,
           missed' \subseteq [by : Nat \ {0}, of : Borrowers \union Reference]
    PROVE  LedgerStep /\ BatchInv'
<1>1. LedgerStep
  BY CommitStep DEF Commit
<1> QED
  BY <1>1 DEF BatchInv, LedgerStep, RestOK, Commit

\* score and rank.
LEMMA ScoreRankInv ==
    ASSUME BatchInv, NEW k \in DOMAIN rows, Score(k) \/ Rank(k)
    PROVE  LedgerStep /\ BatchInv'
<1>1. /\ Commit(k) /\ ~IsPipeline(k) /\ rows' = rows /\ k \in Nat \ {0} /\ calls[k] \in Call
      /\ forecasts \subseteq forecasts' /\ UNCHANGED <<cases, notes, bounds>>
  BY LedgerShape DEF BatchInv, Order, Score, Rank, Commit, At, IsPipeline, PIPELINE
<1>2. forecasts' \subseteq DOMAIN rows'
  BY <1>1 DEF Score, Rank, BatchInv, StoreOK
<1>3. queue' \subseteq Batch
  <2>1. CASE UNCHANGED queue
    BY <2>1 DEF BatchInv, StoreOK
  <2>2. ASSUME calls[k].f # 0, NEW act \in SUBSET Borrowers,
               queue' = queue \union {[f |-> calls[k].f, by |-> k, act |-> act]}
        PROVE  queue' \subseteq Batch
    <3>1. calls[k].f \in Nat \ {0}
      BY <1>1, <2>2 DEF Call
    <3> QED
      BY <1>1, <2>2, <3>1 DEF Batch, BatchInv, StoreOK
  <2> QED
    BY <2>1, <2>2 DEF Score, Rank
<1>4. StoreOK'
  BY <1>1, <1>2, <1>3 DEF BatchInv, StoreOK
<1> QED
  BY <1>1, <1>4, BoundsKept, CommitInv

\* update_cases opens finitely many cases, of a forecast that exists.
LEMMA UpdateCasesInv ==
    ASSUME BatchInv, NEW k \in DOMAIN rows, UpdateCases(k)
    PROVE  LedgerStep /\ BatchInv'
<1> PICK fresh \in SUBSET Unused(k) :
             /\ At(k, "update_cases", "write") /\ Commit(k) /\ Open(k, fresh)
             /\ Report(k, calls[k].work \ fresh, Unused(k) \ fresh)
             /\ UNCHANGED <<forecasts, queue, notes>>
  BY DEF UpdateCases
<1> DEFINE new == {[borrower |-> b, seq |-> calls[k].seq[b], f |-> calls[k].f, closed |-> 0] : b \in fresh}
<1>1. /\ Commit(k) /\ ~IsPipeline(k) /\ rows' = rows
      /\ cases' = cases \union new /\ UNCHANGED <<forecasts, queue, notes>>
      /\ rows[k].job = "update_cases" /\ calls[k].phase = "write"
      /\ Sound(forecasts, rows[k].job, calls[k])
  BY DEF Open, Commit, At, IsPipeline, PIPELINE, BatchInv, ReadsSound
<1>2. /\ fresh \subseteq Borrowers /\ \A b \in fresh : calls[k].seq[b] \in Nat \ {0}
      /\ calls[k].work \subseteq Borrowers /\ (fresh # {} => calls[k].f \in forecasts)
  BY <1>1 DEF Sound, Unused
<1>3. IsFiniteSet(fresh)
  BY <1>2, FS_Subset, PipelineAssumption
<1>4. IsFiniteSet(new)
  <2> DEFINE g == [b \in fresh |->
                     [borrower |-> b, seq |-> calls[k].seq[b], f |-> calls[k].f, closed |-> 0]]
  <2>1. g \in [fresh -> new] /\ \A t \in new : \E b \in fresh : g[b] = t
    OBVIOUS
  <2>2. g \in Surjection(fresh, new)
    BY <2>1 DEF Surjection
  <2> QED
    BY <1>3, <2>2, FS_Surjection
<1>5. new \subseteq [borrower : Borrowers, seq : Nat \ {0}, f : forecasts, closed : Nat]
  BY <1>2
<1> HIDE DEF new
<1>6. IsFiniteSet(cases')
  BY <1>1, <1>4, FS_Union DEF BatchInv, StoreOK
<1>7. StoreOK'
  BY <1>1, <1>5, <1>6 DEF BatchInv, StoreOK
<1>8. /\ left' \in [Kinds -> Nat] /\ gaveup' \in BOOLEAN
      /\ missed' \subseteq [by : Nat \ {0}, of : Borrowers \union Reference]
  BY <1>2, ReportRest
<1> QED
  BY <1>1, <1>7, <1>8, CommitInv

\* dispatch notifies of the cases it has read.
LEMMA DispatchInv ==
    ASSUME BatchInv, NEW k \in DOMAIN rows, Dispatch(k)
    PROVE  LedgerStep /\ BatchInv'
<1> PICK sent \in SUBSET calls[k].work :
             /\ At(k, "dispatch", "write") /\ Commit(k)
             /\ notes' = notes \union {[case |-> c, by |-> k] : c \in sent}
             /\ Report(k, calls[k].work \ sent, calls[k].work \ sent)
             /\ UNCHANGED <<forecasts, queue, cases>>
  BY DEF Dispatch
<1>1. /\ Commit(k) /\ ~IsPipeline(k) /\ rows' = rows
      /\ notes' = notes \union {[case |-> c, by |-> k] : c \in sent}
      /\ UNCHANGED <<forecasts, queue, cases>>
      /\ rows[k].job = "dispatch" /\ calls[k].phase = "write"
      /\ Sound(forecasts, rows[k].job, calls[k])
  BY DEF Commit, At, IsPipeline, PIPELINE, BatchInv, ReadsSound
<1>2. calls[k].work \subseteq Reference
  BY <1>1 DEF Sound
<1>3. StoreOK'
  BY <1>1, <1>2 DEF BatchInv, StoreOK
<1>4. /\ left' \in [Kinds -> Nat] /\ gaveup' \in BOOLEAN
      /\ missed' \subseteq [by : Nat \ {0}, of : Borrowers \union Reference]
  BY <1>2, ReportRest
<1> QED
  BY <1>1, <1>3, <1>4, CommitInv

\* A user closes a case, which stays in the table.
LEMMA CloseCaseInv ==
    ASSUME BatchInv, CloseCase
    PROVE  LedgerStep /\ BatchInv'
<1>1. UNCHANGED <<rows, calls, forecasts, queue, notes, proc, todo, gaveup, missed>> /\ Spend("closes")
  BY DEF CloseCase
<1>2. LedgerStep
  BY <1>1, IdleStep
<1>3. PICK c \in cases : cases' = (cases \ {c}) \union {[c EXCEPT !.closed = Len(rows)]}
  BY DEF CloseCase
<1>4. IsFiniteSet(cases')
  <2>1. IsFiniteSet(cases \ {c})
    BY FS_RemoveElement DEF BatchInv, StoreOK
  <2> QED
    BY <1>3, <2>1, FS_AddElement
<1>5. Len(rows) \in Nat
  BY LedgerShape DEF BatchInv, Order
<1>6. cases' \subseteq [borrower : Borrowers, seq : Nat \ {0}, f : forecasts, closed : Nat]
  BY <1>3, <1>5 DEF BatchInv, StoreOK
<1>7. StoreOK'
  BY <1>1, <1>4, <1>6 DEF BatchInv, StoreOK
<1>8. left' \in [Kinds -> Nat]
  BY <1>1, SpendType DEF BatchInv, Kinds
<1> QED
  BY <1>1, <1>2, <1>7, <1>8 DEF BatchInv, RestOK, LedgerStep

\* A wait that ends before its thread fails the row and leaves the thread.
LEMMA TimeOutInv ==
    ASSUME BatchInv, NEW k \in DOMAIN rows, TimeOut(k)
    PROVE  LedgerStep /\ BatchInv'
<1>1. LedgerStep
  BY IdleStep DEF TimeOut, store
<1>2. left' \in [Kinds -> Nat]
  BY SpendType DEF TimeOut, BatchInv, Kinds
<1> QED
  BY <1>1, <1>2, StoreKept DEF TimeOut, BatchInv, RestOK

\* A crash, the start of reconcile, and its end.
LEMMA ProcessInv ==
    ASSUME BatchInv, Crash \/ Restart \/ Ready
    PROVE  LedgerStep /\ BatchInv'
<1>1. CASE Crash
  <2>1. LedgerStep /\ proc' = "down" /\ todo' = {}
    BY <1>1, DieStep DEF Crash, store
  <2>2. left' \in [Kinds -> Nat]
    BY <1>1, SpendType DEF Crash, BatchInv, Kinds
  <2> QED
    BY <1>1, <2>1, <2>2, StoreKept DEF Crash, BatchInv, RestOK
<1>2. CASE Restart
  <2>1. LedgerStep
    BY <1>2, IdleStep DEF Restart, store
  <2>2. RunningRuns(rows) \subseteq DOMAIN rows
    BY DEF RunningRuns
  <2> QED
    BY <1>2, <2>1, <2>2, StoreKept DEF Restart, BatchInv, RestOK, bounds
<1>3. CASE Ready
  <2>1. LedgerStep
    BY <1>3, IdleStep DEF Ready, store
  <2> QED
    BY <1>3, <2>1, StoreKept DEF Ready, BatchInv, RestOK, bounds
<1> QED
  BY <1>1, <1>2, <1>3

\* Being told, or no longer waited for, is not reading.
LEMMA AnswerSound ==
    ASSUME BatchInv, NEW k \in DOMAIN rows
    PROVE  \A m \in DOMAIN rows :
             /\ Sound(forecasts, rows[m].job, Answered(calls, k)[m])
             /\ calls[k].awaited =>
                  /\ Sound(forecasts, rows[m].job, Passed(Answered(calls, k), calls[k].parent)[m])
                  /\ Sound(forecasts, rows[m].job, Halted(Answered(calls, k), calls[k].parent)[m])
<1> DEFINE ds == Answered(calls, k)
           p  == calls[k].parent
<1>1. /\ DOMAIN calls = DOMAIN rows /\ \A m \in DOMAIN rows : calls[m] \in Call
      /\ ReadsSound(forecasts, rows, calls) /\ p \in Nat
  BY LedgerShape DEF BatchInv, Order
<1>2. \A m \in DOMAIN rows : m # k => ds[m] = calls[m]
  BY <1>1 DEF Answered
<1>3. ds[k] = [calls[k] EXCEPT !.awaited = FALSE]
  BY <1>1 DEF Answered
<1>4. /\ ds[k].phase = calls[k].phase /\ ds[k].f = calls[k].f
      /\ ds[k].work = calls[k].work /\ ds[k].seq = calls[k].seq
  BY <1>1, <1>3 DEF Call
<1> HIDE DEF ds
<1>5. \A m \in DOMAIN rows : Sound(forecasts, rows[m].job, ds[m])
  BY <1>1, <1>2, <1>4 DEF ReadsSound, Sound
<1>6. calls[k].awaited /\ p # 0 => p \in DOMAIN rows /\ rows[p].job = PIPELINE
  BY <1>1 DEF BatchInv, Order, Paired
<1>7. \A m \in DOMAIN rows : rows[m].job = PIPELINE => \A c : Sound(forecasts, rows[m].job, c)
  BY DEF Sound, PIPELINE
<1>8. \A m \in DOMAIN rows : m # p \/ p = 0 => Passed(ds, p)[m] = ds[m] /\ Halted(ds, p)[m] = ds[m]
  BY <1>1 DEF Passed, Halted, ds, Answered
<1>9. ASSUME NEW m \in DOMAIN rows, calls[k].awaited
      PROVE  /\ Sound(forecasts, rows[m].job, Passed(ds, p)[m])
             /\ Sound(forecasts, rows[m].job, Halted(ds, p)[m])
  <2>1. CASE m # p \/ p = 0
    BY <1>5, <1>8, <2>1
  <2>2. CASE m = p /\ p # 0
    BY <1>6, <1>7, <1>9, <2>2
  <2> QED
    BY <2>1, <2>2
<1> QED
  BY <1>5, <1>9 DEF ds

\* run_now looks at the outcome of a call.
LEMMA AnswerInv ==
    ASSUME BatchInv, NEW k \in DOMAIN rows, Answer(k)
    PROVE  LedgerStep /\ BatchInv'
<1> DEFINE p  == calls[k].parent
           ds == Answered(calls, k)
<1>1. /\ Order(rows, calls) /\ p \in Nat /\ calls[k].awaited
      /\ UNCHANGED <<store, bounds>> /\ forecasts' = forecasts
  BY LedgerShape DEF BatchInv, Order, Answer, store
<1>2. Order(rows, ds) /\ Released(rows, calls, ds, k)
  BY <1>1, AnsweredOrder
<1>3. ASSUME rows[k].state = SUCCEEDED, calls' = Passed(ds, p), UNCHANGED <<rows, proc, todo>>
      PROVE  LedgerStep /\ BatchInv'
  <2>1. Order(rows, calls')
    BY <1>1, <1>3, PassedOrder
  <2>2. LedgerStep
    BY <1>1, <1>3, <2>1, AnswerSound, CallsStep
  <2> QED
    BY <1>1, <1>3, <2>2, StoreKept DEF BatchInv, RestOK, bounds
<1>4. ASSUME RunNow(RetryOf(k), p, ds), UNCHANGED <<proc, todo>>
      PROVE  LedgerStep /\ BatchInv'
  <2>1. RetryOf(k) = Retry(rows, k)
    BY DEF RetryOf, Retry
  <2>2. MayStart(rows, ds, RetryOf(k), p)
    BY <1>1, <1>2, <2>1, RetryStart
  <2>3. LedgerStep
    BY <1>1, <1>2, <1>4, <2>2, AnswerSound, RunNowStep
  <2> QED
    BY <1>1, <1>4, <2>3, StoreKept DEF BatchInv, RestOK, bounds
<1>5. ASSUME Die, UNCHANGED rows
      PROVE  LedgerStep /\ BatchInv'
  <2>1. LedgerStep /\ proc' = "down" /\ todo' = {}
    BY <1>1, <1>5, DieStep
  <2> QED
    BY <1>1, <2>1, StoreKept DEF BatchInv, RestOK, bounds
<1>6. ASSUME calls' = Halted(ds, p), UNCHANGED <<rows, proc, todo>>
      PROVE  LedgerStep /\ BatchInv'
  <2>1. p # 0 => /\ p \in DOMAIN rows /\ rows[p].job = PIPELINE
                 /\ \A m \in DOMAIN rows : ~ (ds[m].awaited /\ ds[m].parent = p)
    BY <1>1, <1>2 DEF Order, Paired, Released
  <2>2. Order(rows, calls')
    BY <1>1, <1>2, <1>6, <2>1, HaltedOrder
  <2>3. LedgerStep
    BY <1>1, <1>6, <2>2, AnswerSound, CallsStep
  <2> QED
    BY <1>1, <1>6, <2>3, StoreKept DEF BatchInv, RestOK, bounds
<1>7. \/ rows[k].state = SUCCEEDED /\ calls' = Passed(ds, p) /\ UNCHANGED <<rows, proc, todo>>
      \/ RunNow(RetryOf(k), p, ds) /\ UNCHANGED <<proc, todo>>
      \/ Die /\ UNCHANGED rows
      \/ calls' = Halted(ds, p) /\ UNCHANGED <<rows, proc, todo>>
  BY DEF Answer, Answered
<1> HIDE DEF p, ds
<1> QED
  BY <1>3, <1>4, <1>5, <1>6, <1>7

\* reconcile runs an interrupted row again, waited for by nobody.
LEMMA ResumeInv ==
    ASSUME BatchInv, NEW i \in DOMAIN rows, ResumeNext(i)
    PROVE  LedgerStep /\ BatchInv'
<1>1. Order(rows, calls) /\ UNCHANGED <<store, bounds>> /\ forecasts' = forecasts
  BY DEF BatchInv, ResumeNext, store
<1>2. ASSUME RunNow(RetryOf(i), 0, calls), todo' = todo \ {i}, UNCHANGED proc
      PROVE  LedgerStep /\ BatchInv'
  <2>1. RetryOf(i) = Retry(rows, i)
    BY DEF RetryOf, Retry
  <2>2. MayStart(rows, calls, RetryOf(i), 0)
    BY <1>1, <2>1, RetryStart
  <2>3. \A k \in DOMAIN rows : Sound(forecasts, rows[k].job, calls[k])
    BY DEF BatchInv, ReadsSound
  <2>4. LedgerStep
    BY <1>1, <1>2, <2>2, <2>3, RunNowStep
  <2> QED
    BY <1>1, <1>2, <2>4, StoreKept DEF BatchInv, RestOK, bounds
<1>3. ASSUME Die, UNCHANGED rows
      PROVE  LedgerStep /\ BatchInv'
  <2>1. LedgerStep /\ proc' = "down" /\ todo' = {}
    BY <1>1, <1>3, DieStep
  <2> QED
    BY <1>1, <2>1, StoreKept DEF BatchInv, RestOK, bounds
<1> QED
  BY <1>2, <1>3 DEF ResumeNext

\* The invariant holds of an empty ledger.
LEMMA InitInv == Init => BatchInv
<1> SUFFICES ASSUME Init PROVE BatchInv
  OBVIOUS
<1>1. rows = <<>> /\ calls = <<>> /\ DOMAIN rows = {}
  BY DEF Init
<1>2. Order(rows, calls)
  BY <1>1 DEF Order, LedgerOK, Paired, Counted, InTurn
<1>3. StoreOK
  BY FS_EmptySet DEF Init, StoreOK
<1>4. RestOK
  BY PipelineAssumption DEF Init, RestOK, Kinds
<1> QED
  BY <1>1, <1>2, <1>3, <1>4 DEF BatchInv, ReadsSound

\* Every step keeps the invariant.
LEMMA NextInv ==
    ASSUME BatchInv, Next
    PROVE  LedgerStep /\ BatchInv'
<1>1. ASSUME NEW job \in Triggered, Trigger(job) PROVE LedgerStep /\ BatchInv'
  BY <1>1, TriggerInv
<1>2. ASSUME NEW k \in DOMAIN rows,
             CheckOverlap(k) \/ StartStep(k) \/ TimeOut(k) \/ Answer(k) \/ ResumeNext(k)
      PROVE  LedgerStep /\ BatchInv'
  BY <1>2, CheckOverlapInv, StartStepInv, TimeOutInv, AnswerInv, ResumeInv
<1>3. ASSUME NEW k \in DOMAIN rows, PipelineEnds(k) \/ HandlerFails(k) \/ StepHandler(k)
      PROVE  LedgerStep /\ BatchInv'
  BY <1>3, EndInv, ReadsInv, ReadCasesInv, CountCasesInv, ScoreRankInv, UpdateCasesInv,
     DispatchInv DEF StepHandler
<1>4. ASSUME CloseCase \/ Crash \/ Restart \/ Ready PROVE LedgerStep /\ BatchInv'
  BY <1>4, CloseCaseInv, ProcessInv
<1> QED
  BY <1>1, <1>2, <1>3, <1>4 DEF Next
-----------------------------------------------------------------------------
\* A row is due once every step before its own has succeeded.
LEMMA DueFrom ==
    ASSUME NEW r \in JobRun, NEW n \in Nat,
           \/ n \in Steps /\ r.job = PIPELINE_STEPS[n]
           \/ r.job = PIPELINE /\ n = Len(PIPELINE_STEPS) + 1,
           \A m \in Steps : m < n => Achieves(rows, r.run, m)
    PROVE  Due(r)
<1>1. r.job \in Jobs
  BY DEF JobRun
<1>2. ASSUME NEW m \in Steps,
             \/ r.job = PIPELINE
             \/ \E j \in Steps : r.job = PIPELINE_STEPS[j] /\ m < j
      PROVE  m < n
  BY <1>2, StepsDistinct
<1>3. Needed[r.job] = {PIPELINE_STEPS[m] : m \in {m \in Steps :
          r.job = PIPELINE \/ \E j \in Steps : r.job = PIPELINE_STEPS[j] /\ m < j}}
  BY <1>1, StepsDistinct DEF Needed
<1>4. ASSUME NEW m \in Steps, m < n
      PROVE  PIPELINE_STEPS[m] \in
               {rows[e].job : e \in {e \in DOMAIN rows : rows[e].run = r.run /\ rows[e].state = SUCCEEDED}}
  BY <1>4 DEF Achieves
<1> QED
  BY <1>2, <1>3, <1>4 DEF Due

\* A row that is added finds the steps before it done.
LEMMA AddedDue ==
    ASSUME BatchInv, LedgerStep, Len(rows') > Len(rows),
           rows'[Len(rows')].job # PIPELINE, IsBatch(rows'[Len(rows')].run)
    PROVE  Due(rows'[Len(rows')])
<1>1. /\ rows \in Seq(JobRun) /\ Len(rows) \in Nat /\ \A i \in DOMAIN rows : rows[i].run \in 1..Len(rows)
  BY LedgerShape DEF BatchInv, Order, LedgerOK
<1>2. PICK cs, r, p : MayStart(rows, cs, r, p) /\ rows' = Inserted(rows, r)
  BY <1>1 DEF LedgerStep
<1>3. r \in Request
  BY <1>2 DEF MayStart
<1> DEFINE n == Len(rows) + 1
<1>4. /\ Len(rows') = n /\ rows'[n].job = r.job /\ rows' \in Seq(JobRun)
      /\ rows'[n].run = IF r.run = 0 THEN n ELSE r.run
      /\ n \in DOMAIN rows'
  <2>1. DOMAIN rows' = DOMAIN rows \union {n}
    BY <1>1, <1>2, <1>3, InsertedFacts
  <2>2. Len(rows') = n /\ rows' \in Seq(JobRun)
    BY <1>1, <1>2, <1>3, InsertedFacts
  <2>3. rows'[n].job = r.job /\ rows'[n].run = IF r.run = 0 THEN n ELSE r.run
    BY <1>1, <1>2, <1>3, InsertedFacts
  <2> QED
    BY <2>1, <2>2, <2>3
<1>5. rows'[n] \in JobRun
  BY <1>4, LenProperties, ElementOfSeq
<1>6. \A run : IsBatch(run) => BatchOf(rows, run)
  BY DEF IsBatch, Attempted, BatchOf
<1>7. r.run # 0
  BY <1>1, <1>4, <1>6 DEF BatchOf
<1>8. PICK j \in Steps : r.job = PIPELINE_STEPS[j]
  BY <1>3, <1>4, PipelineAssumption, StepsDistinct DEF Request
<1>9. \A m \in Steps : m < j => Achieves(rows, r.run, m)
  BY <1>2, <1>4, <1>6, <1>7, <1>8 DEF MayStart
<1> QED
  BY <1>4, <1>5, <1>7, <1>8, <1>9, DueFrom, StepsDistinct

\* A pipeline that becomes a success has all its steps behind it.
LEMMA EndedDue ==
    ASSUME BatchInv, LedgerStep, NEW i \in DOMAIN rows, IsPipeline(i),
           rows[i].state # SUCCEEDED, rows'[i].state = SUCCEEDED
    PROVE  Due(rows[i])
<1>1. calls[i].phase = "return" /\ rows[i] \in JobRun /\ rows[i].job = PIPELINE
  BY LedgerShape DEF LedgerStep, BatchInv, Order, IsPipeline
<1>2. \A n \in Steps : Achieves(rows, rows[i].run, n)
  BY <1>1, StepsDistinct DEF BatchInv, Order, Counted
<1> QED
  BY <1>1, <1>2, DueFrom, StepsDistinct

\* run_nightly_pipeline (pipeline.py:249) halts at the first step that does not succeed:
\* for any borrowers, attempts and mixes of failures, timeouts and crashes, no step of a
\* batch is started before every earlier one has succeeded, and no batch becomes a
\* success before all of them have.
THEOREM StepsKeepOrder == Spec => StepsInOrder
<1>1. BatchInv /\ [Next]_vars => BatchInv' /\ [InOrder]_vars
  <2> SUFFICES ASSUME BatchInv, [Next]_vars PROVE BatchInv' /\ [InOrder]_vars
    OBVIOUS
  <2>1. CASE Next
    <3>1. LedgerStep /\ BatchInv'
      BY <2>1, NextInv
    <3>2. InOrder
      BY <3>1, AddedDue, EndedDue DEF InOrder
    <3> QED
      BY <3>1, <3>2
  <2>2. CASE UNCHANGED vars
    BY <2>2 DEF vars, store, bounds, BatchInv, StoreOK, RestOK
  <2> QED
    BY <2>1, <2>2
<1> QED
  BY <1>1, InitInv, PTL DEF Spec, StepsInOrder

\* The ledger, the calls and the tables of the batch hold what they can hold, for any
\* borrowers and mixes of disturbances.
THEOREM NightlyTypeCorrect == Spec => []TypeOK
<1>1. BatchInv /\ [Next]_vars => BatchInv'
  BY NextInv DEF vars, store, bounds, BatchInv, StoreOK, RestOK
<1>2. BatchInv => TypeOK
  BY DEF BatchInv, Order, LedgerOK, StoreOK, RestOK, TypeOK
<1> QED
  BY <1>1, <1>2, InitInv, PTL DEF Spec
-----------------------------------------------------------------------------
\* The rows of step n of a run, and which of some rows has the highest attempt.
OfStep(rs, run, n) == {m \in DOMAIN rs : rs[m].run = run /\ rs[m].job = PIPELINE_STEPS[n]}
Highest(rs, j, S)  == j \in S /\ \A m \in S \ {j} : rs[m].attempt < rs[j].attempt

\* A pipeline row at the first attempt of its run, which is a success or may become one.
InLoop == {"check", "go", "wait", "return"}

Promising(rs, cs, i) ==
    /\ rs[i].job = PIPELINE
    /\ \A j \in DOMAIN rs : rs[j].run = rs[i].run /\ rs[j].job = PIPELINE => j = i
    /\ rs[i].state = SUCCEEDED \/ (rs[i].state = RUNNING /\ cs[i].phase \in InLoop)

\* The steps that it has seen succeed.
Seen(rs, cs, i) == IF rs[i].state = SUCCEEDED THEN Len(PIPELINE_STEPS) ELSE cs[i].step

\* All that runs, or is waited for, in its run is what it waits for itself.
OnlyAwaited(rs, cs, i) ==
    \A m \in DOMAIN rs :
        rs[m].run = rs[i].run /\ m # i /\ (rs[m].state = RUNNING \/ cs[m].awaited) =>
            cs[m].awaited /\ cs[m].parent = i

\* The highest attempt at step n is a success; or is the one that is waited for.
LatestDone(rs, run, n) ==
    \E j \in OfStep(rs, run, n) : Highest(rs, j, OfStep(rs, run, n)) /\ rs[j].state = SUCCEEDED

LatestAwaited(rs, cs, i, n) ==
    \E j \in OfStep(rs, rs[i].run, n) :
        Highest(rs, j, OfStep(rs, rs[i].run, n)) /\ cs[j].awaited /\ cs[j].parent = i

\* Its steps are done as far as it has seen them, and not begun but for the next.
Progress(rs, cs, i) ==
    \A n \in Steps :
        /\ n <= Seen(rs, cs, i) => LatestDone(rs, rs[i].run, n)
        /\ Seen(rs, cs, i) < n =>
             IF cs[i].phase = "wait" /\ n = cs[i].step + 1
               THEN LatestAwaited(rs, cs, i, n)
               ELSE OfStep(rs, rs[i].run, n) = {}

Kept(rs, cs, td, i) ==
    /\ \A m \in td : rs[m].run # rs[i].run
    /\ OnlyAwaited(rs, cs, i)
    /\ rs[i].state = SUCCEEDED => cs[i].phase = "done"
    /\ Progress(rs, cs, i)

PromiseKept(rs, cs, td) == \A i \in DOMAIN rs : Promising(rs, cs, i) => Kept(rs, cs, td, i)

\* Rows settle without a change of their attempt.
SettledAttempts(rs, ss) ==
    /\ DOMAIN ss = DOMAIN rs
    /\ \A m \in DOMAIN rs :
         /\ ss[m].job = rs[m].job /\ ss[m].run = rs[m].run /\ ss[m].attempt = rs[m].attempt
         /\ rs[m].state # RUNNING => ss[m].state = rs[m].state

\* Nobody's wait ends or begins, and pipelines leave their loop only upwards.
QuietCalls(rs, cs, ds) ==
    \A m \in DOMAIN rs :
        /\ ds[m].awaited = cs[m].awaited /\ ds[m].parent = cs[m].parent /\ ds[m].step = cs[m].step
        /\ cs[m].phase = "done" => ds[m].phase = "done"
        /\ rs[m].job = PIPELINE /\ ds[m].phase \in InLoop =>
             cs[m].phase \in InLoop /\ (ds[m].phase = "wait" <=> cs[m].phase = "wait")

\* The latest attempt at a step is the same row when rows settle, and a success stays one.
LEMMA LatestSettles ==
    ASSUME NEW rs, NEW ss, SettledAttempts(rs, ss), NEW run, NEW n
    PROVE  /\ OfStep(ss, run, n) = OfStep(rs, run, n)
           /\ \A j : Highest(rs, j, OfStep(rs, run, n)) => Highest(ss, j, OfStep(ss, run, n))
           /\ LatestDone(rs, run, n) => LatestDone(ss, run, n)
<1>1. OfStep(ss, run, n) = OfStep(rs, run, n)
  BY DEF OfStep, SettledAttempts
<1>2. \A j \in OfStep(rs, run, n) : j \in DOMAIN rs
  BY DEF OfStep
<1>3. \A j : Highest(rs, j, OfStep(rs, run, n)) => Highest(ss, j, OfStep(ss, run, n))
  BY <1>1, <1>2 DEF Highest, SettledAttempts
<1>4. LatestDone(rs, run, n) => LatestDone(ss, run, n)
  BY <1>1, <1>2, <1>3 DEF LatestDone, SettledAttempts, RUNNING, SUCCEEDED
<1> QED
  BY <1>1, <1>3, <1>4

\* Threads that move, and rows that settle, outside of the waits break no promise.
LEMMA QuietKeeps ==
    ASSUME NEW rs, NEW cs, NEW td, NEW ss, NEW ds, NEW ud, Order(rs, cs),
           PromiseKept(rs, cs, td), SettledAttempts(rs, ss), QuietCalls(rs, cs, ds),
           td \subseteq DOMAIN rs, ud \subseteq td,
           \A m \in DOMAIN rs :
               rs[m].job = PIPELINE /\ rs[m].state # SUCCEEDED /\ ss[m].state = SUCCEEDED =>
                   cs[m].phase = "return" /\ ds[m].phase = "done"
    PROVE  PromiseKept(ss, ds, ud)
<1> SUFFICES ASSUME NEW i \in DOMAIN ss, Promising(ss, ds, i) PROVE Kept(ss, ds, ud, i)
  BY DEF PromiseKept
<1>1. i \in DOMAIN rs /\ rs[i].job = PIPELINE /\ ss[i].run = rs[i].run
  BY DEF SettledAttempts, Promising
<1>2. Promising(rs, cs, i)
  <2>1. \A j \in DOMAIN rs : rs[j].run = rs[i].run /\ rs[j].job = PIPELINE => j = i
    BY <1>1 DEF SettledAttempts, Promising
  <2>2. CASE ss[i].state = SUCCEEDED
    BY <1>1, <2>1, <2>2 DEF SettledAttempts, Promising, InLoop
  <2>3. CASE ss[i].state = RUNNING /\ ds[i].phase \in InLoop
    BY <1>1, <2>1, <2>3 DEF SettledAttempts, QuietCalls, Promising
  <2> QED
    BY <2>2, <2>3 DEF Promising
<1>3. Kept(rs, cs, td, i)
  BY <1>1, <1>2 DEF PromiseKept
<1>4. \A m \in ud : ss[m].run # ss[i].run
  BY <1>1, <1>3 DEF Kept, SettledAttempts
<1>5. OnlyAwaited(ss, ds, i)
  BY <1>1, <1>3 DEF Kept, OnlyAwaited, SettledAttempts, QuietCalls
<1>6. ss[i].state = SUCCEEDED => ds[i].phase = "done"
  BY <1>1, <1>3 DEF Kept, QuietCalls
<1>7. Progress(ss, ds, i)
  <2> SUFFICES ASSUME NEW n \in Steps
               PROVE  /\ n <= Seen(ss, ds, i) => LatestDone(ss, ss[i].run, n)
                      /\ Seen(ss, ds, i) < n =>
                           IF ds[i].phase = "wait" /\ n = ds[i].step + 1
                             THEN LatestAwaited(ss, ds, i, n)
                             ELSE OfStep(ss, ss[i].run, n) = {}
    BY DEF Progress
  <2>1. LatestDone(rs, rs[i].run, n) => LatestDone(ss, ss[i].run, n)
    BY <1>1, LatestSettles
  <2>2. /\ n <= Seen(rs, cs, i) => LatestDone(rs, rs[i].run, n)
        /\ Seen(rs, cs, i) < n =>
             IF cs[i].phase = "wait" /\ n = cs[i].step + 1
               THEN LatestAwaited(rs, cs, i, n)
               ELSE OfStep(rs, rs[i].run, n) = {}
    BY <1>3 DEF Kept, Progress
  <2>3. n \in 1..6 /\ Len(PIPELINE_STEPS) = 6
    BY StepsDistinct
  <2>4. CASE ss[i].state = SUCCEEDED
    <3>1. Seen(ss, ds, i) = 6
      BY <2>3, <2>4 DEF Seen
    <3>2. Seen(rs, cs, i) = 6
      BY <1>1, <2>3, <2>4 DEF Seen, Order, Counted
    <3> QED
      BY <2>1, <2>2, <2>3, <3>1, <3>2
  <2>5. CASE ss[i].state # SUCCEEDED
    <3>1. ss[i].state = RUNNING /\ ds[i].phase \in InLoop
      BY <2>5 DEF Promising
    <3>2. rs[i].state # SUCCEEDED
      BY <1>1, <2>5 DEF SettledAttempts, SUCCEEDED, RUNNING
    <3>3. Seen(ss, ds, i) = ds[i].step /\ Seen(rs, cs, i) = ds[i].step /\ ds[i].step = cs[i].step
      BY <1>1, <2>5, <3>2 DEF Seen, QuietCalls
    <3>4. ds[i].phase = "wait" <=> cs[i].phase = "wait"
      BY <1>1, <3>1 DEF QuietCalls
    <3>5. OfStep(ss, ss[i].run, n) = OfStep(rs, rs[i].run, n)
      BY <1>1, LatestSettles
    <3>6. LatestAwaited(rs, cs, i, n) => LatestAwaited(ss, ds, i, n)
      <4> SUFFICES ASSUME NEW j \in OfStep(rs, rs[i].run, n), cs[j].awaited, cs[j].parent = i,
                          Highest(rs, j, OfStep(rs, rs[i].run, n))
                   PROVE  LatestAwaited(ss, ds, i, n)
        BY DEF LatestAwaited
      <4>1. Highest(ss, j, OfStep(ss, rs[i].run, n))
        BY LatestSettles
      <4>2. ds[j].awaited /\ ds[j].parent = i
        BY DEF OfStep, QuietCalls
      <4> QED
        BY <1>1, <3>5, <4>1, <4>2 DEF LatestAwaited
    <3> QED
      BY <2>1, <2>2, <3>3, <3>4, <3>5, <3>6
  <2> QED
    BY <2>4, <2>5
<1> QED
  BY <1>4, <1>5, <1>6, <1>7 DEF Kept

\* Nothing runs any more in the run of a success.
LEMMA SuccessRests ==
    ASSUME NEW rs, NEW cs, NEW td, Order(rs, cs), PromiseKept(rs, cs, td),
           NEW i \in DOMAIN rs, Promising(rs, cs, i), rs[i].state = SUCCEEDED,
           NEW m \in DOMAIN rs, rs[m].run = rs[i].run
    PROVE  rs[m].state # RUNNING
<1> SUFFICES ASSUME rs[m].state = RUNNING PROVE FALSE
  OBVIOUS
<1>1. m # i
  BY DEF RUNNING, SUCCEEDED
<1>2. Kept(rs, cs, td, i)
  BY DEF PromiseKept
<1>3. cs[m].awaited /\ cs[m].parent = i /\ cs[i].phase = "done"
  BY <1>1, <1>2 DEF Kept, OnlyAwaited
<1>4. i \in Nat \ {0}
  BY LedgerShape DEF Order
<1>5. cs[i].phase = "wait"
  BY <1>3, <1>4 DEF Order, Paired
<1> QED
  BY <1>3, <1>5

\* The end of the process, and the restart's interruption of every running row, leave
\* only the promises that are fulfilled.
LEMMA FulfilledKeep ==
    ASSUME NEW rs, NEW cs, NEW td, NEW ss, NEW ds, NEW ud, Order(rs, cs),
           PromiseKept(rs, cs, td), SettledAttempts(rs, ss),
           \A m \in DOMAIN rs : /\ ss[m].state = SUCCEEDED => rs[m].state = SUCCEEDED
                                /\ cs[m].phase = "done" => ds[m].phase = "done"
                                /\ ss[m].state # RUNNING \/ ds[m].phase = "done"
                                /\ ds[m].awaited => cs[m].awaited
                                /\ ds[m].parent = cs[m].parent,
           ud \subseteq RunningRuns(rs)
    PROVE  PromiseKept(ss, ds, ud)
<1> SUFFICES ASSUME NEW i \in DOMAIN ss, Promising(ss, ds, i) PROVE Kept(ss, ds, ud, i)
  BY DEF PromiseKept
<1>1. i \in DOMAIN rs /\ rs[i].job = PIPELINE /\ ss[i].run = rs[i].run
  BY DEF SettledAttempts, Promising
<1>2. rs[i].state = SUCCEEDED /\ ss[i].state = SUCCEEDED
  BY <1>1 DEF Promising, InLoop
<1>3. Promising(rs, cs, i) /\ Kept(rs, cs, td, i)
  <2>1. Promising(rs, cs, i)
    BY <1>1, <1>2 DEF SettledAttempts, Promising
  <2> QED
    BY <1>1, <2>1 DEF PromiseKept
<1>4. \A m \in ud : ss[m].run # ss[i].run
  BY <1>1, <1>2, <1>3, SuccessRests DEF RunningRuns, SettledAttempts
<1>5. OnlyAwaited(ss, ds, i)
  <2> SUFFICES ASSUME NEW m \in DOMAIN ss, ss[m].run = ss[i].run, m # i,
                      ss[m].state = RUNNING \/ ds[m].awaited
               PROVE  FALSE
    BY DEF OnlyAwaited
  <2>1. m \in DOMAIN rs /\ rs[m].run = rs[i].run /\ (ss[m].state = RUNNING => rs[m].state = RUNNING)
    BY <1>1 DEF SettledAttempts
  <2>2. rs[m].state # RUNNING
    BY <1>1, <1>2, <1>3, <2>1, SuccessRests
  <2>3. cs[m].awaited /\ cs[m].parent = i
    BY <1>3, <2>1, <2>2 DEF Kept, OnlyAwaited
  <2>4. i \in Nat \ {0}
    BY <1>1, LedgerShape DEF Order
  <2>5. cs[i].phase = "wait" /\ cs[i].phase = "done"
    BY <1>2, <1>3, <2>1, <2>3, <2>4 DEF Order, Paired, Kept
  <2> QED
    BY <2>5
<1>6. ds[i].phase = "done"
  BY <1>1, <1>2, <1>3 DEF Kept
<1>7. Progress(ss, ds, i)
  <2>1. \A n \in Steps : n <= 6 /\ ~(6 < n)
    BY StepsDistinct
  <2>2. Seen(ss, ds, i) = 6 /\ Seen(rs, cs, i) = 6
    BY <1>2, StepsDistinct DEF Seen
  <2>3. \A n \in Steps : LatestDone(ss, ss[i].run, n)
    BY <1>1, <1>3, <2>1, <2>2, LatestSettles DEF Kept, Progress
  <2> QED
    BY <2>1, <2>2, <2>3 DEF Progress
<1> QED
  BY <1>4, <1>5, <1>6, <1>7 DEF Kept
-----------------------------------------------------------------------------
\* What a step may do to the rows and the calls of a run without touching its promise.
Untouched(rs, cs, ss, ds, i) ==
    /\ DOMAIN rs \subseteq DOMAIN ss
    /\ \A m \in DOMAIN rs :
         /\ ss[m] = rs[m]
         /\ rs[m].run = rs[i].run =>
              /\ ds[m].phase = cs[m].phase /\ ds[m].step = cs[m].step
              /\ m # i => ds[m].awaited = cs[m].awaited /\ ds[m].parent = cs[m].parent
    /\ \A m \in DOMAIN ss \ DOMAIN rs : ss[m].run # rs[i].run

\* The promise of an untouched run is as it was.
LEMMA UntouchedKeeps ==
    ASSUME NEW rs, NEW cs, NEW td, NEW ss, NEW ds, NEW ud, NEW i \in DOMAIN rs,
           PromiseKept(rs, cs, td), Promising(ss, ds, i), Untouched(rs, cs, ss, ds, i),
           \A m \in ud : ss[m].run # rs[i].run
    PROVE  Promising(rs, cs, i) /\ Kept(ss, ds, ud, i)
<1>1. /\ ss[i] = rs[i] /\ ds[i].phase = cs[i].phase /\ ds[i].step = cs[i].step
      /\ rs[i].job = PIPELINE
  BY DEF Untouched, Promising
<1>2. Promising(rs, cs, i) /\ Kept(rs, cs, td, i)
  BY <1>1 DEF Promising, Untouched, PromiseKept
<1>3. OnlyAwaited(ss, ds, i)
  BY <1>1, <1>2 DEF Kept, OnlyAwaited, Untouched
<1>4. \A n : OfStep(ss, ss[i].run, n) = OfStep(rs, rs[i].run, n)
  BY <1>1 DEF OfStep, Untouched
<1>5. \A n, j : Highest(rs, j, OfStep(rs, rs[i].run, n)) => Highest(ss, j, OfStep(rs, rs[i].run, n))
  BY DEF OfStep, Highest, Untouched
<1>6. \A n : LatestDone(rs, rs[i].run, n) => LatestDone(ss, ss[i].run, n)
  <2>1. \A n : \A j \in OfStep(rs, rs[i].run, n) : ss[j].state = rs[j].state
    BY DEF OfStep, Untouched
  <2> QED
    BY <1>4, <1>5, <2>1 DEF LatestDone
<1>7. \A n \in Steps : LatestAwaited(rs, cs, i, n) => LatestAwaited(ss, ds, i, n)
  <2> SUFFICES ASSUME NEW n \in Steps, NEW j \in OfStep(rs, rs[i].run, n),
                      cs[j].awaited, cs[j].parent = i,
                      Highest(rs, j, OfStep(rs, rs[i].run, n))
               PROVE  LatestAwaited(ss, ds, i, n)
    BY DEF LatestAwaited
  <2>1. j # i /\ j \in DOMAIN rs /\ rs[j].run = rs[i].run
    BY <1>1, StepsDistinct DEF OfStep
  <2>2. ds[j].awaited /\ ds[j].parent = i
    BY <2>1 DEF Untouched
  <2> QED
    BY <1>4, <1>5, <2>2 DEF LatestAwaited
<1>8. Seen(ss, ds, i) = Seen(rs, cs, i)
  BY <1>1 DEF Seen
<1>9. Progress(ss, ds, i)
  BY <1>1, <1>2, <1>4, <1>6, <1>7, <1>8 DEF Kept, Progress
<1> QED
  BY <1>1, <1>2, <1>3, <1>9 DEF Kept

\* An awaited row in the run of a promise is the pipeline's own, or what it waits for.
LEMMA AwaitedHere ==
    ASSUME NEW rs, NEW cs, NEW td, NEW i \in DOMAIN rs, NEW k \in DOMAIN rs,
           PromiseKept(rs, cs, td), Promising(rs, cs, i), cs[k].awaited,
           rs[k].run = rs[i].run
    PROVE  k = i \/ cs[k].parent = i
  BY DEF PromiseKept, Kept, OnlyAwaited

\* A pipeline at its first attempt that waits for a call runs, and the call is the latest
\* attempt at its next step.
LEMMA WaiterKept ==
    ASSUME NEW rs, NEW cs, NEW td, NEW k \in DOMAIN rs, Order(rs, cs),
           PromiseKept(rs, cs, td), cs[k].awaited, cs[k].parent # 0,
           rs[cs[k].parent].state \in {RUNNING, SUCCEEDED},
           \A j \in DOMAIN rs : rs[j].run = rs[cs[k].parent].run /\ rs[j].job = PIPELINE =>
               j = cs[k].parent
    PROVE  /\ Kept(rs, cs, td, cs[k].parent) /\ rs[cs[k].parent].state = RUNNING
           /\ Highest(rs, k, OfStep(rs, rs[k].run, cs[cs[k].parent].step + 1))
<1> DEFINE p == cs[k].parent
<1>1. /\ p \in DOMAIN rs /\ rs[p].job = PIPELINE /\ cs[p].phase = "wait"
      /\ rs[k].run = rs[p].run /\ rs[k].job = PIPELINE_STEPS[cs[p].step + 1]
      /\ \A m \in DOMAIN rs : cs[m].awaited /\ cs[m].parent = p => m = k
  BY LedgerShape DEF Order, Paired
<1>2. Promising(rs, cs, p)
  BY <1>1 DEF Promising, InLoop
<1>3. Kept(rs, cs, td, p)
  BY <1>1, <1>2 DEF PromiseKept
<1>4. rs[p].state = RUNNING
  BY <1>1, <1>3 DEF Kept
<1>5. cs[p].step \in 0..6 /\ cs[p].step < 6
  BY <1>1, LedgerShape, StepsDistinct DEF Order, Counted
<1>6. cs[p].step + 1 \in Steps /\ Seen(rs, cs, p) < cs[p].step + 1
  BY <1>4, <1>5, StepsDistinct DEF Seen, RUNNING, SUCCEEDED
<1>7. LatestAwaited(rs, cs, p, cs[p].step + 1)
  BY <1>1, <1>3, <1>6 DEF Kept, Progress
<1>8. PICK j \in OfStep(rs, rs[p].run, cs[p].step + 1) :
        Highest(rs, j, OfStep(rs, rs[p].run, cs[p].step + 1)) /\ cs[j].awaited /\ cs[j].parent = p
  BY <1>7 DEF LatestAwaited
<1>9. j = k
  BY <1>1, <1>8 DEF OfStep
<1> QED
  BY <1>1, <1>3, <1>4, <1>8, <1>9
-----------------------------------------------------------------------------
\* What is left of a call, and of the others, once its outcome has been looked at.
LEMMA AnsweredFacts ==
    ASSUME NEW rs, NEW cs, NEW k \in DOMAIN rs, Order(rs, cs)
    PROVE  /\ Answered(cs, k) \in Seq(Call) /\ Len(Answered(cs, k)) = Len(rs)
           /\ DOMAIN Answered(cs, k) = DOMAIN rs /\ ~Answered(cs, k)[k].awaited
           /\ \A m \in DOMAIN rs :
                /\ Answered(cs, k)[m] \in Call
                /\ m # k => Answered(cs, k)[m] = cs[m]
                /\ Answered(cs, k)[m].phase = cs[m].phase /\ Answered(cs, k)[m].step = cs[m].step
                /\ Answered(cs, k)[m].parent = cs[m].parent
<1>1. /\ DOMAIN cs = DOMAIN rs /\ \A m \in DOMAIN rs : cs[m] \in Call
  BY LedgerShape DEF Order
<1>2. Answered(cs, k) \in Seq(Call) /\ Len(Answered(cs, k)) = Len(rs)
  BY AnsweredOrder DEF Order, LedgerOK
<1>3. /\ DOMAIN Answered(cs, k) = DOMAIN rs
      /\ Answered(cs, k)[k] = [cs[k] EXCEPT !.awaited = FALSE]
      /\ \A m \in DOMAIN rs : m # k => Answered(cs, k)[m] = cs[m]
  BY <1>1 DEF Answered
<1>4. /\ Answered(cs, k)[k] \in Call
      /\ ~Answered(cs, k)[k].awaited /\ Answered(cs, k)[k].phase = cs[k].phase
      /\ Answered(cs, k)[k].step = cs[k].step /\ Answered(cs, k)[k].parent = cs[k].parent
  BY <1>1, <1>3 DEF Call
<1> QED
  BY <1>1, <1>2, <1>3, <1>4

\* What an outcome does to the calls: nothing but what the pipeline that waited is told.
LEMMA ToldFacts ==
    ASSUME NEW rs, NEW cs, NEW k \in DOMAIN rs, Order(rs, cs), cs[k].awaited, NEW p, p = cs[k].parent
    PROVE  /\ p = 0 => /\ Passed(Answered(cs, k), p) = Answered(cs, k)
                       /\ Halted(Answered(cs, k), p) = Answered(cs, k)
           /\ p # 0 =>
                /\ p \in DOMAIN rs /\ p # k
                /\ \A m \in DOMAIN rs : m # p =>
                     /\ Passed(Answered(cs, k), p)[m] = Answered(cs, k)[m]
                     /\ Halted(Answered(cs, k), p)[m] = Answered(cs, k)[m]
                /\ Passed(Answered(cs, k), p)[p].step = cs[p].step + 1
                /\ Passed(Answered(cs, k), p)[p].phase \in {"go", "return"}
                /\ Halted(Answered(cs, k), p)[p].phase = "raise"
<1> DEFINE ds == Answered(cs, k)
<1>1. /\ DOMAIN ds = DOMAIN rs /\ \A m \in DOMAIN rs : ds[m] \in Call
      /\ \A m \in DOMAIN rs : ds[m].step = cs[m].step
  BY AnsweredFacts
<1>2. p # 0 => p \in DOMAIN rs /\ rs[p].job = PIPELINE /\ cs[p].step + 1 \in Steps
              /\ rs[k].job = PIPELINE_STEPS[cs[p].step + 1]
  <2> SUFFICES ASSUME p # 0 PROVE p \in DOMAIN rs /\ rs[p].job = PIPELINE /\ cs[p].step + 1 \in Steps
                                  /\ rs[k].job = PIPELINE_STEPS[cs[p].step + 1]
    OBVIOUS
  <2>1. p \in DOMAIN rs /\ rs[p].job = PIPELINE /\ cs[p].phase = "wait"
        /\ rs[k].job = PIPELINE_STEPS[cs[p].step + 1]
    BY LedgerShape DEF Order, Paired
  <2>2. cs[p].step \in 0..6 /\ cs[p].step < 6
    BY <2>1, LedgerShape, StepsDistinct DEF Order, Counted
  <2> QED
    BY <2>1, <2>2, StepsDistinct
<1> HIDE DEF ds
<1>3. p # 0 => p # k
  BY <1>2, StepsDistinct
<1>4. p # 0 => ds[p] \in Call
  BY <1>1, <1>2
<1>5. p # 0 => /\ Passed(ds, p)[p].step = cs[p].step + 1
               /\ Passed(ds, p)[p].phase \in {"go", "return"}
               /\ Halted(ds, p)[p].phase = "raise"
  BY <1>1, <1>2, <1>4 DEF Passed, Halted, Call
<1>6. p # 0 => \A m \in DOMAIN rs : m # p => Passed(ds, p)[m] = ds[m] /\ Halted(ds, p)[m] = ds[m]
  BY <1>1 DEF Passed, Halted
<1>7. p = 0 => Passed(ds, p) = ds /\ Halted(ds, p) = ds
  BY DEF Passed, Halted
<1> QED
  BY <1>2, <1>3, <1>5, <1>6, <1>7 DEF ds

\* A pipeline that is told goes on to the next step, or leaves its loop.
LEMMA ToldKeeps ==
    ASSUME NEW rs, NEW cs, NEW td, NEW k \in DOMAIN rs, NEW es, Order(rs, cs),
           PromiseKept(rs, cs, td), cs[k].awaited,
           \/ rs[k].state = SUCCEEDED /\ es = Passed(Answered(cs, k), cs[k].parent)
           \/ es = Halted(Answered(cs, k), cs[k].parent)
    PROVE  PromiseKept(rs, es, td)
<1> DEFINE p  == cs[k].parent
           ds == Answered(cs, k)
<1> SUFFICES ASSUME NEW i \in DOMAIN rs, Promising(rs, es, i) PROVE Kept(rs, es, td, i)
  BY DEF PromiseKept
<1>1. /\ \A m \in DOMAIN rs : ds[m].phase = cs[m].phase /\ ds[m].step = cs[m].step
                              /\ ds[m].parent = cs[m].parent
                              /\ (m # k => ds[m] = cs[m])
      /\ ~ds[k].awaited
  BY AnsweredFacts
<1>2. /\ p = 0 => es = ds
      /\ p # 0 => p \in DOMAIN rs /\ p # k /\ \A m \in DOMAIN rs : m # p => es[m] = ds[m]
  BY ToldFacts
<1>3. p # 0 => /\ rs[p].job = PIPELINE /\ rs[k].run = rs[p].run /\ cs[p].phase = "wait"
               /\ rs[k].job = PIPELINE_STEPS[cs[p].step + 1]
               /\ \A m \in DOMAIN rs : cs[m].awaited /\ cs[m].parent = p => m = k
  BY LedgerShape DEF Order, Paired
<1>4. i \in Nat \ {0}
  BY LedgerShape DEF Order
<1>5. CASE p = 0 \/ i # p
  <2>1. es[i].phase = cs[i].phase
    BY <1>1, <1>2, <1>5
  <2>2. Promising(rs, cs, i)
    BY <2>1 DEF Promising
  <2>3. p # 0 => rs[p].run # rs[i].run
    BY <1>2, <1>3, <1>5 DEF Promising
  <2>4. rs[k].run = rs[i].run => k = i
    BY <1>3, <1>4, <1>5, <2>2, <2>3, AwaitedHere
  <2>5. Kept(rs, cs, td, i)
    BY <2>2 DEF PromiseKept
  <2> HIDE DEF p, ds
  <2>6. Untouched(rs, cs, rs, es, i)
    BY <1>1, <1>2, <2>3, <2>4 DEF Untouched
  <2>7. \A m \in td : rs[m].run # rs[i].run
    BY <2>5 DEF Kept
  <2> QED
    BY <2>6, <2>7, UntouchedKeeps
<1>6. CASE p # 0 /\ i = p
  <2>0. rs[p].state \in {RUNNING, SUCCEEDED}
        /\ \A j \in DOMAIN rs : rs[j].run = rs[p].run /\ rs[j].job = PIPELINE => j = p
    BY <1>6 DEF Promising
  <2>1. /\ Kept(rs, cs, td, p) /\ rs[p].state = RUNNING
        /\ Highest(rs, k, OfStep(rs, rs[k].run, cs[p].step + 1))
    BY <1>6, <2>0, WaiterKept
  <2>2. es[p].phase # "raise"
    BY <1>6, <2>1 DEF Promising, InLoop, RUNNING, SUCCEEDED
  <2>3. rs[k].state = SUCCEEDED /\ es[p].step = cs[p].step + 1 /\ es[p].phase \in {"go", "return"}
    BY <1>6, <2>2, ToldFacts
  <2>4. cs[p].step \in Nat
    BY <1>2, <1>6, LedgerShape DEF Order
  <2> HIDE DEF p, ds
  <2>5. Seen(rs, es, p) = cs[p].step + 1 /\ Seen(rs, cs, p) = cs[p].step
    BY <2>1, <2>3 DEF Seen, RUNNING, SUCCEEDED
  <2>6. LatestDone(rs, rs[p].run, cs[p].step + 1)
    BY <1>3, <1>6, <2>1, <2>3 DEF LatestDone, Highest
  <2>7. Progress(rs, es, p)
    <3> SUFFICES ASSUME NEW n \in Steps
                 PROVE  /\ n <= cs[p].step + 1 => LatestDone(rs, rs[p].run, n)
                        /\ cs[p].step + 1 < n => OfStep(rs, rs[p].run, n) = {}
      BY <2>3, <2>5 DEF Progress
    <3>1. /\ n <= cs[p].step => LatestDone(rs, rs[p].run, n)
          /\ cs[p].step < n /\ n # cs[p].step + 1 => OfStep(rs, rs[p].run, n) = {}
      BY <2>1, <2>5 DEF Kept, Progress
    <3>2. n \in Nat
      BY StepsDistinct
    <3> QED
      BY <2>4, <2>6, <3>1, <3>2
  <2>8. OnlyAwaited(rs, es, p)
    <3> SUFFICES ASSUME NEW m \in DOMAIN rs, rs[m].run = rs[p].run, m # p,
                        rs[m].state = RUNNING \/ es[m].awaited
                 PROVE  FALSE
      BY DEF OnlyAwaited
    <3>1. m # k
      BY <1>1, <1>2, <1>6, <2>3 DEF RUNNING, SUCCEEDED
    <3>2. es[m] = cs[m]
      BY <1>1, <1>2, <1>6, <3>1
    <3>3. cs[m].awaited /\ cs[m].parent = p
      BY <2>1, <3>2 DEF Kept, OnlyAwaited
    <3> QED
      BY <1>3, <1>6, <3>1, <3>3
  <2> QED
    BY <1>6, <2>1, <2>7, <2>8 DEF Kept, RUNNING, SUCCEEDED
<1> QED
  BY <1>5, <1>6
-----------------------------------------------------------------------------
\* ss and es are the table rs and the calls ds with a new row for request r, waited for
\* by p.
Adds(rs, ds, r, p, ss, es) ==
    LET n == Len(rs) + 1
    IN  /\ DOMAIN ss = DOMAIN rs \union {n} /\ n \notin DOMAIN rs /\ n \in Nat \ {0}
        /\ \A m \in DOMAIN rs : ss[m] = rs[m] /\ es[m] = ds[m]
        /\ ss[n].job = r.job /\ ss[n].attempt = r.attempt /\ ss[n].state = RUNNING
        /\ ss[n].run = IF r.run = 0 THEN n ELSE r.run
        /\ es[n].awaited /\ es[n].parent = p /\ es[n].step = 0
        /\ es[n].phase = IF r.job = PIPELINE THEN "check" ELSE "read"

\* That is what run_now makes of them.
LEMMA AddedFacts ==
    ASSUME NEW rs \in Seq(JobRun), NEW ds \in Seq(Call), Len(ds) = Len(rs),
           NEW r \in Request, NEW p \in Nat
    PROVE  Adds(rs, ds, r, p, Inserted(rs, r), Append(ds, NewCall(r, p)))
<1> DEFINE n  == Len(rs) + 1
           ss == Inserted(rs, r)
           es == Append(ds, NewCall(r, p))
           c  == NewCall(r, p)
<1>1. Len(rs) \in Nat /\ DOMAIN rs = 1..Len(rs)
  BY LenProperties
<1>2. /\ c \in Call /\ c.awaited /\ c.parent = p /\ c.step = 0
      /\ c.phase = IF r.job = PIPELINE THEN "check" ELSE "read"
  <2>1. [b \in Borrowers |-> 0] \in [Borrowers -> Nat] /\ {} \in Work /\ 0 \in 0..Len(PIPELINE_STEPS)
    BY StepsDistinct DEF Work
  <2> QED
    BY <2>1 DEF NewCall, Call
<1>3. /\ DOMAIN ss = DOMAIN rs \union {n} /\ n \notin DOMAIN rs
      /\ \A m \in DOMAIN rs : ss[m] = rs[m]
      /\ ss[n].job = r.job /\ ss[n].attempt = r.attempt /\ ss[n].state = RUNNING
      /\ ss[n].run = IF r.run = 0 THEN n ELSE r.run
  BY InsertedFacts
<1>4. es[n] = c /\ \A m \in DOMAIN rs : es[m] = ds[m]
  BY <1>1, <1>2, AppendProperties
<1> QED
  BY <1>1, <1>2, <1>3, <1>4 DEF Adds

\* A new row is a promise only if its run is new, and then a promise that is kept.
LEMMA AddKeeps ==
    ASSUME NEW rs, NEW cs, NEW ds \in Seq(Call), NEW td, NEW ud, NEW r \in Request, NEW p \in Nat,
           Order(rs, cs), Len(ds) = Len(rs), td \subseteq DOMAIN rs, ud \subseteq td,
           PromiseKept(rs, cs, td),
           r.run # 0 /\ r.job = PIPELINE => BatchOf(rs, r.run),
           \A i \in DOMAIN rs :
               Promising(Inserted(rs, r), Append(ds, NewCall(r, p)), i) =>
                   Kept(Inserted(rs, r), Append(ds, NewCall(r, p)), ud, i)
    PROVE  PromiseKept(Inserted(rs, r), Append(ds, NewCall(r, p)), ud)
<1> DEFINE n  == Len(rs) + 1
           ss == Inserted(rs, r)
           es == Append(ds, NewCall(r, p))
<1>1. rs \in Seq(JobRun) /\ Len(rs) \in Nat /\ \A m \in DOMAIN rs : rs[m].run \in 1..Len(rs)
  BY LedgerShape DEF Order, LedgerOK
<1>0. n = Len(rs) + 1 /\ ss = Inserted(rs, r) /\ es = Append(ds, NewCall(r, p))
  OBVIOUS
<1>00. Adds(rs, ds, r, p, ss, es)
  BY <1>1, AddedFacts
<1> HIDE DEF n, ss, es
<1>2. /\ DOMAIN ss = DOMAIN rs \union {n} /\ n \notin DOMAIN rs
      /\ \A m \in DOMAIN rs : ss[m] = rs[m] /\ es[m] = ds[m]
      /\ ss[n].job = r.job /\ ss[n].state = RUNNING
      /\ ss[n].run = IF r.run = 0 THEN n ELSE r.run
      /\ es[n].step = 0 /\ es[n].phase = IF r.job = PIPELINE THEN "check" ELSE "read"
  BY <1>0, <1>00 DEF Adds
<1>3. ASSUME Promising(ss, es, n) PROVE Kept(ss, es, ud, n)
  <2>1. r.job = PIPELINE
    BY <1>2, <1>3 DEF Promising
  <2>2. r.run = 0
    BY <1>2, <1>3, <2>1 DEF Promising, BatchOf
  <2>3. /\ ss[n].run = n /\ es[n].phase = "check" /\ es[n].step = 0 /\ ss[n].state # SUCCEEDED
    BY <1>2, <2>1, <2>2 DEF RUNNING, SUCCEEDED
  <2>4. \A m \in DOMAIN rs : ss[m].run # n
    BY <1>1, <1>2, <1>0
  <2>5. \A m \in ud : ss[m].run # ss[n].run
    BY <2>3, <2>4
  <2>6. OnlyAwaited(ss, es, n)
    BY <1>2, <2>3, <2>4 DEF OnlyAwaited
  <2>7. \A j \in Steps : OfStep(ss, n, j) = {}
    BY <1>2, <2>1, <2>4, StepsDistinct DEF OfStep
  <2>8. \A j \in Steps : ~(j <= 0)
    BY StepsDistinct
  <2>9. Progress(ss, es, n)
    BY <2>3, <2>7, <2>8 DEF Progress, Seen
  <2> QED
    BY <2>3, <2>5, <2>6, <2>9 DEF Kept
<1>4. ASSUME NEW i \in DOMAIN ss, Promising(ss, es, i) PROVE Kept(ss, es, ud, i)
  BY <1>2, <1>3, <1>4 DEF ss, es
<1> QED
  BY <1>4 DEF PromiseKept, ss, es

\* A row of another run does not touch a promise.
LEMMA AddUntouched ==
    ASSUME NEW rs, NEW cs, NEW ds \in Seq(Call), NEW r \in Request, NEW p \in Nat,
           Order(rs, cs), Len(ds) = Len(rs), NEW i \in DOMAIN rs,
           r.run # rs[i].run,
           \A m \in DOMAIN rs : rs[m].run = rs[i].run =>
               /\ ds[m].phase = cs[m].phase /\ ds[m].step = cs[m].step
               /\ m # i => ds[m].awaited = cs[m].awaited /\ ds[m].parent = cs[m].parent
    PROVE  Untouched(rs, cs, Inserted(rs, r), Append(ds, NewCall(r, p)), i)
<1>1. rs \in Seq(JobRun) /\ Len(rs) \in Nat /\ \A m \in DOMAIN rs : rs[m].run \in 1..Len(rs)
  BY LedgerShape DEF Order, LedgerOK
<1> DEFINE n  == Len(rs) + 1
           ss == Inserted(rs, r)
           es == Append(ds, NewCall(r, p))
<1>0. n = Len(rs) + 1 /\ ss = Inserted(rs, r) /\ es = Append(ds, NewCall(r, p))
  OBVIOUS
<1>00. Adds(rs, ds, r, p, ss, es)
  BY <1>1, AddedFacts
<1> HIDE DEF n, ss, es
<1>2. /\ DOMAIN ss = DOMAIN rs \union {n} /\ n \notin DOMAIN rs
      /\ \A m \in DOMAIN rs : ss[m] = rs[m] /\ es[m] = ds[m]
      /\ ss[n].run = IF r.run = 0 THEN n ELSE r.run
  BY <1>0, <1>00 DEF Adds
<1>3. ss[n].run # rs[i].run
  BY <1>1, <1>2, <1>0
<1>4. Untouched(rs, cs, ss, es, i)
  BY <1>2, <1>3 DEF Untouched
<1> QED
  BY <1>4 DEF ss, es

\* The promises of other runs than the new row's are kept as they were.
LEMMA AddKeepsOthers ==
    ASSUME NEW rs, NEW cs, NEW ds \in Seq(Call), NEW td, NEW ud, NEW r \in Request, NEW p \in Nat,
           Order(rs, cs), Len(ds) = Len(rs), td \subseteq DOMAIN rs, ud \subseteq td,
           PromiseKept(rs, cs, td), NEW i \in DOMAIN rs,
           Promising(Inserted(rs, r), Append(ds, NewCall(r, p)), i),
           r.run # rs[i].run, ds[i].phase = cs[i].phase,
           Promising(rs, cs, i) => \A m \in DOMAIN rs : rs[m].run = rs[i].run =>
               /\ ds[m].phase = cs[m].phase /\ ds[m].step = cs[m].step
               /\ m # i => ds[m].awaited = cs[m].awaited /\ ds[m].parent = cs[m].parent
    PROVE  Kept(Inserted(rs, r), Append(ds, NewCall(r, p)), ud, i)
<1> DEFINE ss == Inserted(rs, r)
           es == Append(ds, NewCall(r, p))
<1>1. rs \in Seq(JobRun)
  BY DEF Order, LedgerOK
<1>0. ss = Inserted(rs, r) /\ es = Append(ds, NewCall(r, p))
  OBVIOUS
<1>00. Adds(rs, ds, r, p, ss, es)
  BY <1>1, AddedFacts
<1> HIDE DEF ss, es
<1>2. /\ DOMAIN rs \subseteq DOMAIN ss
      /\ \A m \in DOMAIN rs : ss[m] = rs[m] /\ es[m] = ds[m]
  BY <1>0, <1>00 DEF Adds
<1>3. Promising(rs, cs, i)
  <2>1. Promising(ss, es, i)
    BY DEF ss, es
  <2> QED
    BY <1>2, <2>1 DEF Promising
<1>4. Untouched(rs, cs, ss, es, i)
  BY <1>3, <1>0, AddUntouched
<1>5. \A m \in ud : ss[m].run # rs[i].run
  BY <1>2, <1>3 DEF PromiseKept, Kept
<1> QED
  BY <1>4, <1>5, UntouchedKeeps DEF ss, es
-----------------------------------------------------------------------------
\* The row a pipeline waits for next is the latest of its step, and the only one that
\* runs beside the pipeline's own.
LEMMA NextAwaited ==
    ASSUME NEW rs, NEW cs, NEW ds, NEW td, NEW r, NEW p \in DOMAIN rs, NEW ss, NEW es,
           Order(rs, cs), Kept(rs, cs, td, p), rs[p].job = PIPELINE, rs[p].state = RUNNING,
           td \subseteq DOMAIN rs, Adds(rs, ds, r, p, ss, es), r.run = rs[p].run,
           r.job = PIPELINE_STEPS[cs[p].step + 1], cs[p].step + 1 \in Steps,
           ds[p].phase = "wait", ds[p].step = cs[p].step,
           \A m \in DOMAIN rs : m # p /\ rs[m].run = rs[p].run =>
               rs[m].state # RUNNING /\ ~ds[m].awaited,
           \A m \in OfStep(rs, rs[p].run, cs[p].step + 1) : rs[m].attempt < r.attempt
    PROVE  Kept(ss, es, td, p)
<1> DEFINE n == Len(rs) + 1
           s == cs[p].step + 1
<1>1. /\ DOMAIN ss = DOMAIN rs \union {n} /\ n \notin DOMAIN rs
      /\ \A m \in DOMAIN rs : ss[m] = rs[m] /\ es[m] = ds[m]
      /\ ss[n].job = r.job /\ ss[n].attempt = r.attempt /\ ss[n].run = rs[p].run
      /\ es[n].awaited /\ es[n].parent = p
  <2>1. r.run # 0
    BY DEF Order, LedgerOK
  <2> QED
    BY <2>1 DEF Adds
<1>2. cs[p].step \in Nat /\ s \in Steps /\ s = cs[p].step + 1
  BY LedgerShape DEF Order
<1> HIDE DEF n, s
<1>3. \A m \in td : ss[m].run # ss[p].run
  BY <1>1 DEF Kept
<1>4. OnlyAwaited(ss, es, p)
  BY <1>1 DEF OnlyAwaited
<1>5. ss[p].state # SUCCEEDED
  BY <1>1 DEF RUNNING, SUCCEEDED
<1>6. OfStep(ss, rs[p].run, s) = OfStep(rs, rs[p].run, s) \union {n}
  BY <1>1, <1>2 DEF OfStep
<1>7. \A j \in Steps : j # s => OfStep(ss, rs[p].run, j) = OfStep(rs, rs[p].run, j)
  BY <1>1, <1>2, StepsDistinct DEF OfStep
<1>8. LatestAwaited(ss, es, p, s)
  <2>1. \A m \in OfStep(rs, rs[p].run, s) : ss[m].attempt < ss[n].attempt
    BY <1>1, <1>2 DEF OfStep
  <2>2. Highest(ss, n, OfStep(ss, rs[p].run, s))
    BY <1>6, <2>1 DEF Highest
  <2> QED
    BY <1>1, <2>2 DEF LatestAwaited, Highest
<1>9. \A j \in Steps : j # s /\ LatestDone(rs, rs[p].run, j) => LatestDone(ss, rs[p].run, j)
  <2> SUFFICES ASSUME NEW j \in Steps, j # s, NEW m \in OfStep(rs, rs[p].run, j),
                      Highest(rs, m, OfStep(rs, rs[p].run, j)), rs[m].state = SUCCEEDED
               PROVE  LatestDone(ss, rs[p].run, j)
    BY DEF LatestDone
  <2>1. \A q \in OfStep(rs, rs[p].run, j) : ss[q] = rs[q]
    BY <1>1 DEF OfStep
  <2> QED
    BY <1>7, <2>1 DEF LatestDone, Highest
<1>10. Seen(rs, cs, p) = cs[p].step /\ Seen(ss, es, p) = cs[p].step
  BY <1>1, <1>5 DEF Seen, RUNNING, SUCCEEDED
<1>11. Progress(ss, es, p)
  <2> SUFFICES ASSUME NEW j \in Steps
               PROVE  /\ j <= cs[p].step => LatestDone(ss, rs[p].run, j)
                      /\ cs[p].step < j => IF j = s THEN LatestAwaited(ss, es, p, j)
                                                    ELSE OfStep(ss, rs[p].run, j) = {}
    BY <1>1, <1>2, <1>10 DEF Progress
  <2>1. /\ j <= cs[p].step => LatestDone(rs, rs[p].run, j)
        /\ cs[p].step < j /\ j # s => OfStep(rs, rs[p].run, j) = {}
    BY <1>2, <1>10 DEF Kept, Progress
  <2>2. j <= cs[p].step => j # s
    BY <1>2, StepsDistinct
  <2> QED
    BY <1>7, <1>8, <1>9, <2>1, <2>2
<1> QED
  BY <1>3, <1>4, <1>5, <1>11 DEF Kept

\* A failed attempt is followed by one that the same pipeline waits for.
LEMMA RetryKeeps ==
    ASSUME NEW rs, NEW cs, NEW td, NEW k \in DOMAIN rs, Order(rs, cs), td \subseteq DOMAIN rs,
           PromiseKept(rs, cs, td), cs[k].awaited, rs[k].state = FAILED
    PROVE  PromiseKept(Inserted(rs, Retry(rs, k)),
                       Append(Answered(cs, k), NewCall(Retry(rs, k), cs[k].parent)), td)
<1> DEFINE p  == cs[k].parent
           ds == Answered(cs, k)
           r  == Retry(rs, k)
           ss == Inserted(rs, r)
           es == Append(ds, NewCall(r, p))
<1>1. /\ ds \in Seq(Call) /\ Len(ds) = Len(rs) /\ ~ds[k].awaited
      /\ \A m \in DOMAIN rs : /\ ds[m].phase = cs[m].phase /\ ds[m].step = cs[m].step
                              /\ (m # k => ds[m] = cs[m])
  BY AnsweredFacts
<1>2. /\ rs \in Seq(JobRun) /\ rs[k] \in JobRun /\ p \in Nat /\ rs[k].run # 0
  BY LedgerShape DEF Order, LedgerOK, JobRun
<1>3. /\ r \in Request /\ r.job = rs[k].job /\ r.run = rs[k].run /\ r.attempt = rs[k].attempt + 1
  BY <1>2 DEF Retry, Request, JobRun
<1>4. p # 0 => /\ p \in DOMAIN rs /\ rs[p].job = PIPELINE /\ rs[k].run = rs[p].run
               /\ cs[p].phase = "wait" /\ rs[k].job = PIPELINE_STEPS[cs[p].step + 1]
               /\ \A m \in DOMAIN rs : cs[m].awaited /\ cs[m].parent = p => m = k
  BY LedgerShape DEF Order, Paired
<1>5. p = cs[k].parent /\ Adds(rs, ds, r, p, ss, es)
  BY <1>1, <1>2, <1>3, AddedFacts
<1> HIDE DEF p, ds, r, ss, es
<1>6. ASSUME NEW i \in DOMAIN rs,
             Promising(ss, es, i)
      PROVE  Kept(ss, es, td, i)
  <2>0. i \in Nat \ {0}
    BY LedgerShape DEF Order
  <2>1. /\ rs[i].job = PIPELINE
        /\ \A j \in DOMAIN rs : rs[j].run = rs[i].run /\ rs[j].job = PIPELINE => j = i
        /\ rs[i].state = SUCCEEDED \/ (rs[i].state = RUNNING /\ ds[i].phase \in InLoop)
    BY <1>5, <1>6 DEF Adds, Promising
  <2>2. Promising(rs, cs, i)
    BY <1>1, <2>1 DEF Promising
  <2>3. k # i
    BY <2>1 DEF RUNNING, SUCCEEDED, FAILED
  <2>4. CASE p = 0 \/ i # p
    <3>1. rs[k].run # rs[i].run
      BY <1>5, <2>0, <2>2, <2>3, <2>4, <1>4, AwaitedHere
    <3>2. ds[i].phase = cs[i].phase
      BY <1>1
    <3>3. \A m \in DOMAIN rs : rs[m].run = rs[i].run =>
            /\ ds[m].phase = cs[m].phase /\ ds[m].step = cs[m].step
            /\ m # i => ds[m].awaited = cs[m].awaited /\ ds[m].parent = cs[m].parent
      BY <1>1, <3>1
    <3> QED
      BY <1>1, <1>2, <1>3, <1>6, <3>1, <3>2, <3>3, AddKeepsOthers DEF ss, es
  <2>5. CASE p # 0 /\ i = p
    <3>0. p \in DOMAIN rs /\ rs[p].state \in {RUNNING, SUCCEEDED}
          /\ \A j \in DOMAIN rs : rs[j].run = rs[p].run /\ rs[j].job = PIPELINE => j = p
      BY <2>1, <2>5
    <3>1. /\ Kept(rs, cs, td, p) /\ rs[p].state = RUNNING
          /\ Highest(rs, k, OfStep(rs, rs[k].run, cs[p].step + 1))
      BY <1>5, <2>5, <3>0, WaiterKept
    <3>2. cs[p].step + 1 \in Steps
      <4>1. cs[p].step \in 0..6 /\ cs[p].step < 6
        BY <1>4, <2>5, LedgerShape, StepsDistinct DEF Order, Counted
      <4> QED
        BY <4>1, StepsDistinct
    <3>3. \A m \in DOMAIN rs : m # p /\ rs[m].run = rs[p].run =>
               rs[m].state # RUNNING /\ ~ds[m].awaited
      <4> SUFFICES ASSUME NEW m \in DOMAIN rs, m # p, rs[m].run = rs[p].run,
                          rs[m].state = RUNNING \/ ds[m].awaited
                   PROVE  FALSE
        OBVIOUS
      <4>1. m # k
        BY <1>1 DEF RUNNING, FAILED
      <4>2. cs[m].awaited /\ cs[m].parent = p
        BY <1>1, <3>1, <4>1 DEF Kept, OnlyAwaited
      <4> QED
        BY <1>4, <2>5, <4>1, <4>2
    <3>4. \A m \in OfStep(rs, rs[p].run, cs[p].step + 1) : rs[m].attempt < r.attempt
      <4>1. \A m \in OfStep(rs, rs[p].run, cs[p].step + 1) : rs[m].attempt \in Nat
        BY LedgerShape DEF OfStep, Order, JobRun
      <4>2. rs[k].attempt \in Nat
        BY <1>2 DEF JobRun
      <4> QED
        BY <1>3, <1>4, <2>5, <3>1, <4>1, <4>2 DEF Highest
    <3>5. ds[p].phase = "wait" /\ ds[p].step = cs[p].step
      BY <1>1, <1>4, <2>5
    <3> QED
      BY <1>3, <1>4, <1>5, <2>5, <3>1, <3>2, <3>3, <3>4, <3>5, NextAwaited
  <2> QED
    BY <2>4, <2>5
<1>7. r.job = PIPELINE => BatchOf(rs, r.run)
  BY <1>3 DEF BatchOf
<1>8. PromiseKept(ss, es, td)
  BY <1>1, <1>2, <1>3, <1>6, <1>7, AddKeeps DEF ss, es
<1> QED
  BY <1>8 DEF p, ds, r, ss, es

\* The request of a pipeline for its next step, and the calls when it waits for it.
FirstOf(rs, cs, k) ==
    [job |-> PIPELINE_STEPS[cs[k].step + 1], run |-> rs[k].run, attempt |-> 1]

Waiting(cs, k) == [cs EXCEPT ![k].phase = "wait"]

\* The first attempt at a step finds none before it.
LEMMA StartKeeps ==
    ASSUME NEW rs, NEW cs, NEW td, NEW k \in DOMAIN rs, Order(rs, cs),
           td \subseteq DOMAIN rs, PromiseKept(rs, cs, td),
           rs[k].job = PIPELINE, cs[k].phase = "go"
    PROVE  PromiseKept(Inserted(rs, FirstOf(rs, cs, k)),
                       Append(Waiting(cs, k), NewCall(FirstOf(rs, cs, k), k)), td)
<1> DEFINE r  == FirstOf(rs, cs, k)
           ds == Waiting(cs, k)
           ss == Inserted(rs, r)
           es == Append(ds, NewCall(r, k))
<1>1. /\ rs \in Seq(JobRun) /\ cs \in Seq(Call) /\ Len(cs) = Len(rs) /\ DOMAIN cs = DOMAIN rs
      /\ cs[k] \in Call /\ rs[k] \in JobRun /\ k \in Nat \ {0} /\ cs[k].step \in 0..6
  BY LedgerShape DEF Order, LedgerOK
<1>2. cs[k].step + 1 \in Steps
  BY <1>1, StepsDistinct DEF Order, Counted
<1>3. /\ ds \in Seq(Call) /\ Len(ds) = Len(rs) /\ ds[k].phase = "wait"
      /\ \A m \in DOMAIN rs : m # k => ds[m] = cs[m]
      /\ \A m \in DOMAIN rs : /\ ds[m].step = cs[m].step /\ ds[m].awaited = cs[m].awaited
                              /\ ds[m].parent = cs[m].parent
  <2>1. [cs[k] EXCEPT !.phase = "wait"] \in Call
    BY <1>1 DEF Call
  <2>2. ds = [cs EXCEPT ![k] = [cs[k] EXCEPT !.phase = "wait"]]
    BY DEF Waiting
  <2>3. ds \in Seq(Call) /\ Len(ds) = Len(rs)
    BY <1>1, <2>1, <2>2, ExceptSeq
  <2>4. ds[k] = [cs[k] EXCEPT !.phase = "wait"] /\ \A m \in DOMAIN rs : m # k => ds[m] = cs[m]
    BY <1>1, <2>2
  <2> QED
    BY <1>1, <2>3, <2>4 DEF Call
<1>4. /\ r \in Request /\ r.job = PIPELINE_STEPS[cs[k].step + 1] /\ r.run = rs[k].run
      /\ r.attempt = 1 /\ r.job # PIPELINE
  BY <1>1, <1>2, StepsDistinct DEF Request, JobRun, FirstOf
<1>5. Adds(rs, ds, r, k, ss, es)
  BY <1>1, <1>3, <1>4, AddedFacts
<1> HIDE DEF r, ds, ss, es
<1>6. ASSUME NEW i \in DOMAIN rs,
             Promising(ss, es, i)
      PROVE  Kept(ss, es, td, i)
  <2>1. /\ rs[i].job = PIPELINE
        /\ \A j \in DOMAIN rs : rs[j].run = rs[i].run /\ rs[j].job = PIPELINE => j = i
        /\ rs[i].state = SUCCEEDED \/ (rs[i].state = RUNNING /\ ds[i].phase \in InLoop)
    BY <1>5, <1>6 DEF Adds, Promising
  <2>2. CASE i # k
    <3>1. r.run # rs[i].run
      BY <1>4, <2>1, <2>2
    <3>2. ds[i].phase = cs[i].phase
      BY <1>3, <2>2
    <3>3. \A m \in DOMAIN rs : rs[m].run = rs[i].run =>
            /\ ds[m].phase = cs[m].phase /\ ds[m].step = cs[m].step
            /\ m # i => ds[m].awaited = cs[m].awaited /\ ds[m].parent = cs[m].parent
      BY <1>3, <1>4, <3>1
    <3> QED
      BY <1>1, <1>3, <1>4, <1>6, <3>1, <3>2, <3>3, AddKeepsOthers DEF ss, es
  <2>3. CASE i = k
    <3>1. Promising(rs, cs, k) /\ Kept(rs, cs, td, k)
      <4>1. Promising(rs, cs, k)
        BY <2>1, <2>3 DEF Promising, InLoop
      <4> QED
        BY <4>1 DEF PromiseKept
    <3>2. rs[k].state = RUNNING
      BY <2>1, <2>3, <3>1 DEF Kept
    <3>3. \A m \in DOMAIN rs : m # k /\ rs[m].run = rs[k].run =>
               rs[m].state # RUNNING /\ ~ds[m].awaited
      <4> SUFFICES ASSUME NEW m \in DOMAIN rs, m # k, rs[m].run = rs[k].run,
                          rs[m].state = RUNNING \/ ds[m].awaited
                   PROVE  FALSE
        OBVIOUS
      <4>1. cs[m].awaited /\ cs[m].parent = k
        BY <1>3, <3>1 DEF Kept, OnlyAwaited
      <4> QED
        BY <1>1, <4>1 DEF Order, Paired
    <3>4. OfStep(rs, rs[k].run, cs[k].step + 1) = {}
      <4>1. Seen(rs, cs, k) < cs[k].step + 1
        BY <1>1, <3>2 DEF Seen, RUNNING, SUCCEEDED
      <4> QED
        BY <1>2, <3>1, <4>1 DEF Kept, Progress
    <3> QED
      BY <1>2, <1>3, <1>4, <1>5, <2>3, <3>1, <3>2, <3>3, <3>4, NextAwaited
  <2> QED
    BY <2>2, <2>3
<1>7. PromiseKept(ss, es, td)
  BY <1>1, <1>3, <1>4, <1>6, AddKeeps DEF ss, es
<1> QED
  BY <1>7 DEF r, ds, ss, es
-----------------------------------------------------------------------------
\* A row that nobody's pipeline waits for touches no promise of another run.
LEMMA UnwaitedKeeps ==
    ASSUME NEW rs, NEW cs, NEW td, NEW ud, NEW r \in Request, Order(rs, cs),
           td \subseteq DOMAIN rs, ud \subseteq td, PromiseKept(rs, cs, td),
           r.run # 0 /\ r.job = PIPELINE => BatchOf(rs, r.run),
           \A i \in DOMAIN rs : Promising(rs, cs, i) => r.run # rs[i].run
    PROVE  PromiseKept(Inserted(rs, r), Append(cs, NewCall(r, 0)), ud)
<1> DEFINE ss == Inserted(rs, r)
           es == Append(cs, NewCall(r, 0))
<1>1. rs \in Seq(JobRun) /\ cs \in Seq(Call) /\ Len(cs) = Len(rs) /\ 0 \in Nat
  BY DEF Order, LedgerOK
<1>2. Adds(rs, cs, r, 0, ss, es)
  BY <1>1, AddedFacts
<1> HIDE DEF ss, es
<1>3. ASSUME NEW i \in DOMAIN rs, Promising(ss, es, i) PROVE Kept(ss, es, ud, i)
  <2>1. Promising(rs, cs, i)
    BY <1>2, <1>3 DEF Adds, Promising
  <2> QED
    BY <1>1, <1>3, <2>1, AddKeepsOthers DEF ss, es
<1>4. PromiseKept(ss, es, ud)
  BY <1>1, <1>3, AddKeeps DEF ss, es
<1> QED
  BY <1>4 DEF ss, es
-----------------------------------------------------------------------------
\* The invariant: the order of the steps, and every promise kept.
DeliveryInv == BatchInv /\ PromiseKept(rows, calls, todo)

\* An UPDATE of job_run settles rows, and no attempt changes.
LEMMA TransitionSettlesAttempts ==
    ASSUME NEW rs \in Seq(JobRun), NEW S, NEW to \in RunStates
    PROVE  SettledAttempts(rs, Transition(rs, S, to))
  BY TransitionFacts DEF SettledAttempts

\* One thread moves, not told of anything, and its row perhaps settles.
LEMMA MoveKeeps ==
    ASSUME DeliveryInv, NEW k \in DOMAIN rows, NEW c, calls' = [calls EXCEPT ![k] = c],
           c.awaited = calls[k].awaited, c.parent = calls[k].parent, c.step = calls[k].step,
           calls[k].phase # "done",
           IsPipeline(k) /\ c.phase \in InLoop =>
               calls[k].phase \in InLoop /\ c.phase # "wait" /\ calls[k].phase # "wait",
           \/ rows' = rows
           \/ /\ \E to \in {SUCCEEDED, FAILED} : rows' = Transition(rows, {k}, to)
              /\ c.phase = "done"
              /\ IsPipeline(k) /\ rows' = Transition(rows, {k}, SUCCEEDED) =>
                     calls[k].phase = "return",
           todo' = todo
    PROVE  PromiseKept(rows', calls', todo')
<1>1. /\ Order(rows, calls) /\ rows \in Seq(JobRun) /\ DOMAIN calls = DOMAIN rows
      /\ todo \subseteq DOMAIN rows
  BY LedgerShape DEF DeliveryInv, BatchInv, RestOK, Order, LedgerOK
<1>2. {SUCCEEDED, FAILED} \subseteq RunStates /\ SUCCEEDED # FAILED
  BY DEF RunStates, TerminalStates, SUCCEEDED, FAILED
<1>3. SettledAttempts(rows, rows')
  <2>1. CASE rows' = rows
    BY <2>1 DEF SettledAttempts
  <2>2. CASE \E to \in {SUCCEEDED, FAILED} : rows' = Transition(rows, {k}, to)
    BY <1>1, <1>2, <2>2, TransitionSettlesAttempts
  <2> QED
    BY <2>1, <2>2
<1>4. calls'[k] = c /\ \A m \in DOMAIN rows : m # k => calls'[m] = calls[m]
  BY <1>1
<1>5. QuietCalls(rows, calls, calls')
  BY <1>4 DEF QuietCalls, IsPipeline
<1>6. \A m \in DOMAIN rows :
        rows[m].job = PIPELINE /\ rows[m].state # SUCCEEDED /\ rows'[m].state = SUCCEEDED =>
            calls[m].phase = "return" /\ calls'[m].phase = "done"
  <2>1. CASE rows' = rows
    BY <2>1
  <2>2. ASSUME NEW to \in {SUCCEEDED, FAILED}, rows' = Transition(rows, {k}, to), c.phase = "done",
               IsPipeline(k) /\ rows' = Transition(rows, {k}, SUCCEEDED) => calls[k].phase = "return",
               NEW m \in DOMAIN rows, rows[m].job = PIPELINE, rows[m].state # SUCCEEDED,
               rows'[m].state = SUCCEEDED
        PROVE  calls[m].phase = "return" /\ calls'[m].phase = "done"
    <3>1. to \in RunStates
      BY <1>2
    <3>2. m = k /\ to = SUCCEEDED
      BY <1>1, <1>2, <2>2, <3>1, TransitionFacts
    <3> QED
      BY <1>4, <2>2, <3>2 DEF IsPipeline
  <2> QED
    BY <2>1, <2>2
<1>7. PromiseKept(rows, calls, todo) /\ todo' \subseteq todo
  BY DEF DeliveryInv
<1> QED
  BY <1>1, <1>3, <1>5, <1>6, <1>7, QuietKeeps

\* No thread moves, and rows settle but none as a success.
LEMMA IdleKeeps ==
    ASSUME DeliveryInv, calls' = calls, todo' = todo,
           rows' = rows \/ \E k \in DOMAIN rows : rows' = Transition(rows, {k}, FAILED)
    PROVE  PromiseKept(rows', calls', todo')
<1>1. /\ Order(rows, calls) /\ rows \in Seq(JobRun) /\ todo \subseteq DOMAIN rows
      /\ PromiseKept(rows, calls, todo) /\ todo' \subseteq todo
  BY DEF DeliveryInv, BatchInv, RestOK, Order, LedgerOK
<1>2. FAILED \in RunStates /\ SUCCEEDED # FAILED
  BY DEF RunStates, TerminalStates, SUCCEEDED, FAILED
<1>3. SettledAttempts(rows, rows')
      /\ \A m \in DOMAIN rows : rows[m].state # SUCCEEDED => rows'[m].state # SUCCEEDED
  <2>1. CASE rows' = rows
    BY <2>1 DEF SettledAttempts
  <2>2. ASSUME NEW k \in DOMAIN rows, rows' = Transition(rows, {k}, FAILED)
        PROVE  SettledAttempts(rows, rows')
               /\ \A m \in DOMAIN rows : rows[m].state # SUCCEEDED => rows'[m].state # SUCCEEDED
    <3>1. SettledAttempts(rows, rows')
      BY <1>1, <1>2, <2>2, TransitionSettlesAttempts
    <3>2. \A m \in DOMAIN rows : rows[m].state # SUCCEEDED => rows'[m].state # SUCCEEDED
      BY <1>1, <1>2, <2>2, TransitionFacts
    <3> QED
      BY <3>1, <3>2
  <2> QED
    BY <2>1, <2>2
<1>4. QuietCalls(rows, calls, calls')
  BY DEF QuietCalls
<1> QED
  BY <1>1, <1>3, <1>4, QuietKeeps

\* The process ends.
LEMMA DieKeeps ==
    ASSUME DeliveryInv, Die, rows' = rows
    PROVE  PromiseKept(rows', calls', todo')
<1>1. /\ Order(rows, calls) /\ DOMAIN calls = DOMAIN rows /\ PromiseKept(rows, calls, todo)
      /\ \A m \in DOMAIN rows : calls[m] \in Call
  BY LedgerShape DEF DeliveryInv, BatchInv, Order
<1>2. \A m \in DOMAIN rows : /\ calls'[m].phase = "done" /\ ~calls'[m].awaited
                             /\ calls'[m].parent = calls[m].parent
  <2> TAKE m \in DOMAIN rows
  <2>1. /\ Over(calls[m]) \in Call /\ Over(calls[m]).phase = "done"
        /\ Over(calls[m]).parent = calls[m].parent
    BY <1>1, OverCall
  <2>2. calls'[m] = [Over(calls[m]) EXCEPT !.awaited = FALSE]
    BY <1>1 DEF Die
  <2> QED
    BY <2>1, <2>2 DEF Call
<1>3. SettledAttempts(rows, rows')
  BY DEF SettledAttempts
<1>4. todo' \subseteq RunningRuns(rows)
  BY DEF Die
<1>5. \A m \in DOMAIN rows : /\ rows'[m].state = SUCCEEDED => rows[m].state = SUCCEEDED
                             /\ calls[m].phase = "done" => calls'[m].phase = "done"
                             /\ rows'[m].state # RUNNING \/ calls'[m].phase = "done"
                             /\ calls'[m].awaited => calls[m].awaited
                             /\ calls'[m].parent = calls[m].parent
  BY <1>2
<1> QED
  BY <1>1, <1>3, <1>4, <1>5, FulfilledKeep

\* reconcile interrupts whatever runs.
LEMMA RestartKeeps ==
    ASSUME DeliveryInv, Restart
    PROVE  PromiseKept(rows', calls', todo')
<1>1. /\ Order(rows, calls) /\ rows \in Seq(JobRun) /\ PromiseKept(rows, calls, todo)
      /\ rows' = Transition(rows, RunningRuns(rows), INTERRUPTED) /\ calls' = calls
      /\ todo' \subseteq RunningRuns(rows)
  BY DEF DeliveryInv, BatchInv, Order, LedgerOK, Restart
<1>2. INTERRUPTED \in RunStates /\ INTERRUPTED # SUCCEEDED /\ INTERRUPTED # RUNNING
  BY DEF RunStates, TerminalStates, INTERRUPTED, SUCCEEDED, RUNNING
<1>3. SettledAttempts(rows, rows')
  BY <1>1, <1>2, TransitionSettlesAttempts
<1>4. \A m \in DOMAIN rows : /\ rows'[m].state = SUCCEEDED => rows[m].state = SUCCEEDED
                             /\ rows'[m].state # RUNNING
  BY <1>1, <1>2, TransitionFacts DEF RunningRuns
<1>5. \A m \in DOMAIN rows : /\ rows'[m].state = SUCCEEDED => rows[m].state = SUCCEEDED
                             /\ calls[m].phase = "done" => calls'[m].phase = "done"
                             /\ rows'[m].state # RUNNING \/ calls'[m].phase = "done"
                             /\ calls'[m].awaited => calls[m].awaited
                             /\ calls'[m].parent = calls[m].parent
  BY <1>1, <1>4
<1> QED
  BY <1>1, <1>3, <1>5, FulfilledKeep

\* A job is started by itself.
LEMMA TriggerKeeps ==
    ASSUME DeliveryInv, NEW job \in Triggered, Trigger(job)
    PROVE  PromiseKept(rows', calls', todo')
<1> DEFINE r == [job |-> job, run |-> 0, attempt |-> 1]
<1>1. /\ Order(rows, calls) /\ PromiseKept(rows, calls, todo) /\ todo \subseteq DOMAIN rows
      /\ \A m \in DOMAIN rows : rows[m].run \in 1..m /\ m \in Nat
  BY LedgerShape DEF DeliveryInv, BatchInv, RestOK, Order, LedgerOK
<1>2. r \in Request /\ r.run = 0
  BY PipelineAssumption DEF Request
<1>3. rows' = Inserted(rows, r) /\ calls' = Append(calls, NewCall(r, 0)) /\ todo' = todo
  BY DEF Trigger, RunNow
<1> HIDE DEF r
<1>4. PromiseKept(Inserted(rows, r), Append(calls, NewCall(r, 0)), todo)
  BY <1>1, <1>2, UnwaitedKeeps
<1> QED
  BY <1>3, <1>4

\* reconcile runs an interrupted row again, whose run is none that has a promise.
LEMMA ResumeKeeps ==
    ASSUME DeliveryInv, NEW i \in DOMAIN rows, ResumeNext(i)
    PROVE  PromiseKept(rows', calls', todo')
<1>1. /\ Order(rows, calls) /\ PromiseKept(rows, calls, todo) /\ todo \subseteq DOMAIN rows
      /\ i \in todo /\ rows[i] \in JobRun
  BY LedgerShape DEF DeliveryInv, BatchInv, RestOK, Order, ResumeNext
<1>2. CASE Die /\ UNCHANGED rows
  BY <1>2, DieKeeps
<1>3. CASE RunNow(RetryOf(i), 0, calls) /\ todo' = todo \ {i}
  <2> DEFINE r == RetryOf(i)
  <2>1. r \in Request /\ r.run = rows[i].run /\ r.job = rows[i].job
    BY <1>1 DEF RetryOf, Request, JobRun
  <2>2. rows' = Inserted(rows, r) /\ calls' = Append(calls, NewCall(r, 0))
    BY <1>3 DEF RunNow
  <2> HIDE DEF r
  <2>3. r.job = PIPELINE => BatchOf(rows, r.run)
    BY <2>1 DEF BatchOf
  <2>4. \A j \in DOMAIN rows : Promising(rows, calls, j) => r.run # rows[j].run
    BY <1>1, <2>1 DEF PromiseKept, Kept
  <2>5. todo \ {i} \subseteq todo
    OBVIOUS
  <2>6. PromiseKept(Inserted(rows, r), Append(calls, NewCall(r, 0)), todo \ {i})
    BY <1>1, <2>1, <2>3, <2>4, <2>5, UnwaitedKeeps
  <2> QED
    BY <1>3, <2>2, <2>6
<1> QED
  BY <1>2, <1>3 DEF ResumeNext

\* run_now looks at the outcome of a call.
LEMMA AnswerKeeps ==
    ASSUME DeliveryInv, NEW k \in DOMAIN rows, Answer(k)
    PROVE  PromiseKept(rows', calls', todo')
<1> DEFINE p  == calls[k].parent
           ds == Answered(calls, k)
<1>1. /\ Order(rows, calls) /\ PromiseKept(rows, calls, todo) /\ todo \subseteq DOMAIN rows
      /\ calls[k].awaited
  BY DEF DeliveryInv, BatchInv, RestOK, Answer
<1>2. \/ rows[k].state = SUCCEEDED /\ calls' = Passed(ds, p) /\ UNCHANGED <<rows, todo>>
      \/ rows[k].state = FAILED /\ RunNow(Retry(rows, k), p, ds) /\ UNCHANGED todo
      \/ Die /\ UNCHANGED rows
      \/ calls' = Halted(ds, p) /\ UNCHANGED <<rows, todo>>
  BY DEF Answer, Answered, RetryOf, Retry
<1>3. CASE (rows[k].state = SUCCEEDED /\ calls' = Passed(ds, p)) \/ calls' = Halted(ds, p)
  <2>1. PromiseKept(rows, calls', todo)
    BY <1>1, <1>3, ToldKeeps
  <2>2. CASE UNCHANGED <<rows, todo>>
    BY <2>1, <2>2
  <2>3. CASE Die /\ UNCHANGED rows
    BY <2>3, DieKeeps
  <2>4. CASE rows[k].state = FAILED /\ RunNow(Retry(rows, k), p, ds) /\ UNCHANGED todo
    <3>1. PromiseKept(Inserted(rows, Retry(rows, k)),
                      Append(ds, NewCall(Retry(rows, k), p)), todo)
      BY <1>1, <2>4, RetryKeeps
    <3> QED
      BY <2>4, <3>1 DEF RunNow
  <2> QED
    BY <1>2, <2>2, <2>3, <2>4
<1>4. CASE rows[k].state = FAILED /\ RunNow(Retry(rows, k), p, ds) /\ UNCHANGED todo
  <2>1. PromiseKept(Inserted(rows, Retry(rows, k)),
                    Append(ds, NewCall(Retry(rows, k), p)), todo)
    BY <1>1, <1>4, RetryKeeps
  <2> QED
    BY <1>4, <2>1 DEF RunNow
<1>5. CASE Die /\ UNCHANGED rows
  BY <1>5, DieKeeps
<1> QED
  BY <1>2, <1>3, <1>4, <1>5

\* A pipeline starts its next step, or halts.
LEMMA StartStepKeeps ==
    ASSUME DeliveryInv, NEW k \in DOMAIN rows, StartStep(k)
    PROVE  PromiseKept(rows', calls', todo')
<1>1. /\ Order(rows, calls) /\ PromiseKept(rows, calls, todo) /\ todo \subseteq DOMAIN rows
      /\ rows[k].job = PIPELINE /\ calls[k].phase = "go" /\ todo' = todo
      /\ calls[k] \in Call /\ k \in Nat \ {0} /\ DOMAIN calls = DOMAIN rows
  BY LedgerShape DEF DeliveryInv, BatchInv, RestOK, StartStep, IsPipeline, Order
<1>2. CASE RunNow(FirstOf(rows, calls, k), k, Waiting(calls, k))
  <2>1. PromiseKept(Inserted(rows, FirstOf(rows, calls, k)),
                    Append(Waiting(calls, k), NewCall(FirstOf(rows, calls, k), k)), todo)
    BY <1>1, StartKeeps
  <2> QED
    BY <1>1, <1>2, <2>1 DEF RunNow
<1>3. CASE calls' = Halted(calls, k) /\ UNCHANGED rows
  <2> DEFINE c == [calls[k] EXCEPT !.phase = "raise"]
  <2>1. calls' = [calls EXCEPT ![k] = c]
    BY <1>1, <1>3 DEF Halted
  <2>2. /\ c.awaited = calls[k].awaited /\ c.parent = calls[k].parent
        /\ c.step = calls[k].step /\ c.phase = "raise"
    BY <1>1 DEF Call
  <2> HIDE DEF c
  <2> QED
    BY <1>1, <1>3, <2>1, <2>2, MoveKeeps DEF InLoop
<1> QED
  BY <1>2, <1>3 DEF StartStep, FirstOf, Waiting

\* The two outcomes of a row differ unless it has settled before.
LEMMA OutcomeTells ==
    ASSUME NEW rs \in Seq(JobRun), NEW k \in DOMAIN rs,
           Transition(rs, {k}, SUCCEEDED) = Transition(rs, {k}, FAILED)
    PROVE  Transition(rs, {k}, SUCCEEDED) = rs
<1> DEFINE s == Transition(rs, {k}, SUCCEEDED)
           f == Transition(rs, {k}, FAILED)
<1>1. {SUCCEEDED, FAILED} \subseteq RunStates /\ SUCCEEDED # FAILED
  BY DEF RunStates, TerminalStates, SUCCEEDED, FAILED
<1>2. rs[k].state = RUNNING => s[k].state = SUCCEEDED
  BY <1>1, TransitionFacts
<1>3. rs[k].state = RUNNING => f[k].state = FAILED
  BY <1>1, TransitionFacts
<1>4. rs[k].state # RUNNING
  BY <1>1, <1>2, <1>3
<1>5. s = [i \in DOMAIN rs |-> rs[i]]
  BY <1>4 DEF Transition, RunningRuns
<1>6. rs = [i \in DOMAIN rs |-> rs[i]]
  BY SeqDef
<1> QED
  BY <1>5, <1>6

\* The reads and the commits of the steps' handlers, and the end of any handler.
LEMMA HandlerKeeps ==
    ASSUME DeliveryInv, NEW k \in DOMAIN rows,
           CheckOverlap(k) \/ PipelineEnds(k) \/ StepHandler(k) \/ HandlerFails(k)
    PROVE  PromiseKept(rows', calls', todo')
<1>1. calls[k] \in Call /\ todo' = todo
  BY LedgerShape DEF DeliveryInv, BatchInv, Order, CheckOverlap, PipelineEnds, StepHandler,
     HandlerFails, Settle, Prepare, NothingToScore, ReadScore, ScoreRefused, Score, ReadRank, Rank,
     ReadCases, CountCases, UpdateCases, ReadDispatch, Dispatch, StepEnds, Read, Commit
<1>2. CASE CheckOverlap(k)
  <2>1. PICK ph \in {"raise", "go"} : calls' = [calls EXCEPT ![k].phase = ph]
    BY <1>2 DEF CheckOverlap
  <2> DEFINE c == [calls[k] EXCEPT !.phase = ph]
  <2>2. calls' = [calls EXCEPT ![k] = c] /\ rows' = rows /\ calls[k].phase = "check"
    BY <1>2, <2>1 DEF CheckOverlap
  <2>3. /\ c.awaited = calls[k].awaited /\ c.parent = calls[k].parent
        /\ c.step = calls[k].step /\ c.phase = ph
    BY <1>1 DEF Call
  <2> HIDE DEF c
  <2> QED
    BY <1>1, <2>2, <2>3, MoveKeeps DEF InLoop
<1>3. CASE PipelineEnds(k) \/ Prepare(k) \/ NothingToScore(k) \/ ScoreRefused(k)
              \/ HandlerFails(k) \/ StepEnds(k)
  <2> DEFINE c == Over(calls[k])
  <2>1. PICK to \in {SUCCEEDED, FAILED} :
          /\ rows' = Transition(rows, {k}, to) /\ calls' = [calls EXCEPT ![k] = c]
          /\ calls[k].phase # "done"
          /\ IsPipeline(k) => \/ calls[k].phase = "return"
                              \/ calls[k].phase = "raise" /\ to = FAILED
    BY <1>3 DEF PipelineEnds, Prepare, NothingToScore, ScoreRefused, HandlerFails, StepEnds,
       Settle, At, IsPipeline, PIPELINE
  <2>2. /\ c.awaited = calls[k].awaited /\ c.parent = calls[k].parent
        /\ c.step = calls[k].step /\ c.phase = "done"
    BY <1>1, OverCall
  <2>3. /\ rows \in Seq(JobRun) /\ {SUCCEEDED, FAILED} \subseteq RunStates /\ SUCCEEDED # FAILED
    BY DEF DeliveryInv, BatchInv, Order, LedgerOK, RunStates, TerminalStates, SUCCEEDED, FAILED
  <2> HIDE DEF c
  <2>4. CASE rows' = rows
    BY <1>1, <2>1, <2>2, <2>4, MoveKeeps DEF InLoop
  <2>5. CASE rows' # rows
    <3>1. IsPipeline(k) /\ rows' = Transition(rows, {k}, SUCCEEDED) => calls[k].phase = "return"
      <4> SUFFICES ASSUME rows' = Transition(rows, {k}, SUCCEEDED),
                          rows' = Transition(rows, {k}, FAILED)
                   PROVE  FALSE
        BY <2>1
      <4>1. rows' = rows
        BY <2>3, OutcomeTells
      <4> QED
        BY <2>5, <4>1
    <3> QED
      BY <1>1, <2>1, <2>2, <3>1, MoveKeeps DEF InLoop
  <2> QED
    BY <2>4, <2>5
<1>4. CASE ReadScore(k) \/ ReadRank(k) \/ ReadCases(k) \/ CountCases(k) \/ ReadDispatch(k)
  <2>1. /\ rows' = rows /\ ~IsPipeline(k) /\ calls[k].phase # "done"
    BY <1>4 DEF ReadScore, ReadRank, ReadCases, CountCases, ReadDispatch, Read, At, IsPipeline,
       PIPELINE
  <2>2. PICK c : /\ calls' = [calls EXCEPT ![k] = c] /\ c.awaited = calls[k].awaited
                 /\ c.parent = calls[k].parent /\ c.step = calls[k].step
    <3>1. ASSUME NEW f, NEW work, NEW ph,
                 calls' = [calls EXCEPT ![k].phase = ph, ![k].f = f, ![k].work = work]
          PROVE  \E c : /\ calls' = [calls EXCEPT ![k] = c] /\ c.awaited = calls[k].awaited
                        /\ c.parent = calls[k].parent /\ c.step = calls[k].step
      <4> DEFINE c == [calls[k] EXCEPT !.phase = ph, !.f = f, !.work = work]
      <4>1. calls' = [calls EXCEPT ![k] = c]
        BY <3>1
      <4>2. /\ c.awaited = calls[k].awaited /\ c.parent = calls[k].parent /\ c.step = calls[k].step
        BY <1>1 DEF Call
      <4> QED
        BY <4>1, <4>2
    <3>2. ASSUME NEW seq, calls' = [calls EXCEPT ![k].phase = "write", ![k].seq = seq]
          PROVE  \E c : /\ calls' = [calls EXCEPT ![k] = c] /\ c.awaited = calls[k].awaited
                        /\ c.parent = calls[k].parent /\ c.step = calls[k].step
      <4> DEFINE c == [calls[k] EXCEPT !.phase = "write", !.seq = seq]
      <4>1. calls' = [calls EXCEPT ![k] = c]
        BY <3>2
      <4>2. /\ c.awaited = calls[k].awaited /\ c.parent = calls[k].parent /\ c.step = calls[k].step
        BY <1>1 DEF Call
      <4> QED
        BY <4>1, <4>2
    <3> QED
      BY <1>4, <3>1, <3>2 DEF ReadScore, ReadRank, ReadCases, CountCases, ReadDispatch, Read
  <2> QED
    BY <1>1, <2>1, <2>2, MoveKeeps
<1>5. CASE Score(k) \/ Rank(k) \/ UpdateCases(k) \/ Dispatch(k)
  <2> DEFINE c == [Over(calls[k]) EXCEPT !.phase = "saved"]
  <2>1. /\ calls' = [calls EXCEPT ![k] = c] /\ rows' = rows /\ ~IsPipeline(k)
        /\ calls[k].phase # "done"
    BY <1>5 DEF Score, Rank, UpdateCases, Dispatch, Commit, Saved, At, IsPipeline, PIPELINE
  <2>2. /\ c.awaited = calls[k].awaited /\ c.parent = calls[k].parent /\ c.step = calls[k].step
    <3>1. /\ Over(calls[k]) \in Call /\ Over(calls[k]).awaited = calls[k].awaited
          /\ Over(calls[k]).parent = calls[k].parent /\ Over(calls[k]).step = calls[k].step
      BY <1>1, OverCall
    <3> QED
      BY <3>1 DEF Call
  <2> HIDE DEF c
  <2> QED
    BY <1>1, <2>1, <2>2, MoveKeeps
<1> QED
  BY <1>2, <1>3, <1>4, <1>5 DEF StepHandler

\* Every step keeps every promise.
LEMMA DeliveryStep ==
    ASSUME DeliveryInv, [Next]_vars
    PROVE  DeliveryInv'
<1>1. BatchInv'
  BY NextInv DEF DeliveryInv, vars, store, bounds, BatchInv, StoreOK, RestOK
<1>2. CASE UNCHANGED vars
  BY <1>1, <1>2 DEF DeliveryInv, vars
<1>3. ASSUME NEW job \in Triggered, Trigger(job) PROVE PromiseKept(rows', calls', todo')
  BY <1>3, TriggerKeeps
<1>4. ASSUME NEW k \in DOMAIN rows,
             \/ CheckOverlap(k) \/ StartStep(k) \/ PipelineEnds(k)
             \/ StepHandler(k) \/ HandlerFails(k) \/ Answer(k) \/ ResumeNext(k)
      PROVE  PromiseKept(rows', calls', todo')
  BY <1>4, HandlerKeeps, StartStepKeeps, AnswerKeeps, ResumeKeeps
<1>5. ASSUME \/ \E k \in DOMAIN rows : TimeOut(k)
             \/ CloseCase
             \/ Ready
      PROVE  PromiseKept(rows', calls', todo')
  BY <1>5, IdleKeeps DEF TimeOut, CloseCase, Ready
<1>6. ASSUME Crash PROVE PromiseKept(rows', calls', todo')
  BY <1>6, DieKeeps DEF Crash
<1>7. ASSUME Restart PROVE PromiseKept(rows', calls', todo')
  BY <1>7, RestartKeeps
<1> QED
  BY <1>1, <1>2, <1>3, <1>4, <1>5, <1>6, <1>7 DEF DeliveryInv, Next

\* Highest attempts are latest states.
LEMMA SeenFromPromises ==
    ASSUME DeliveryInv
    PROVE  DeliverySeen
<1> SUFFICES ASSUME NEW i \in DOMAIN rows, IsPipeline(i), rows[i].state = SUCCEEDED,
                    Attempted(rows[i].run, PIPELINE) = {i}, NEW n \in DOMAIN PIPELINE_STEPS
             PROVE  LatestStates(rows[i].run, PIPELINE_STEPS[n]) = {SUCCEEDED}
  BY DEF DeliverySeen, SeenComplete
<1>1. Promising(rows, calls, i)
  BY DEF Attempted, Promising, IsPipeline
<1>2. n \in Steps /\ n <= Seen(rows, calls, i)
  BY StepsDistinct DEF Seen
<1>3. LatestDone(rows, rows[i].run, n)
  BY <1>1, <1>2 DEF DeliveryInv, PromiseKept, Kept, Progress
<1> DEFINE S == OfStep(rows, rows[i].run, n)
<1>4. PICK j \in S : Highest(rows, j, S) /\ rows[j].state = SUCCEEDED
  BY <1>3 DEF LatestDone
<1>5. S = Attempted(rows[i].run, PIPELINE_STEPS[n])
  BY DEF OfStep, Attempted
<1>6. \A m \in S : rows[m].attempt \in Nat
  BY LedgerShape DEF DeliveryInv, BatchInv, Order, OfStep, JobRun
<1> HIDE DEF S
<1>7. \A m \in S : (\A q \in S : rows[q].attempt <= rows[m].attempt) <=> m = j
  BY <1>4, <1>6 DEF Highest
<1> QED
  BY <1>4, <1>5, <1>7 DEF LatestStates

\* DeliverySeen (test_batch_resilience.py:607): for any borrowers, attempts and mixes of
\* failures, timeouts and crashes, check_deadline sees a batch whose pipeline succeeded at
\* its first attempt as complete, whatever retries its steps took.
THEOREM DeliveryIsSeen == Spec => []DeliverySeen
<1>1. Init => DeliveryInv
  <2> SUFFICES ASSUME Init PROVE DeliveryInv
    OBVIOUS
  <2>1. DOMAIN rows = {}
    BY DEF Init
  <2> QED
    BY <2>1, InitInv DEF DeliveryInv, PromiseKept
<1>2. DeliveryInv /\ [Next]_vars => DeliveryInv'
  BY DeliveryStep
<1>3. DeliveryInv => DeliverySeen
  BY SeenFromPromises
<1> QED
  BY <1>1, <1>2, <1>3, PTL DEF Spec
=============================================================================
