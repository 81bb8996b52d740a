-------------------------- MODULE JobLedgerProofs --------------------------
(***************************************************************************)
(* What the two writes to job_run do to a table of well-formed rows: the   *)
(* lemmas that the proofs about the runner and the pipeline share.         *)
(***************************************************************************)
EXTENDS JobLedger, SequenceTheorems, TLAPS

\* An UPDATE of job_run keeps the rows, their number and all but their state.
LEMMA TransitionFacts ==
    ASSUME NEW rs \in Seq(JobRun), NEW S, NEW to \in RunStates
    PROVE  LET t == Transition(rs, S, to) IN
           /\ t \in Seq(JobRun) /\ Len(t) = Len(rs) /\ DOMAIN t = DOMAIN rs
           /\ \A i \in DOMAIN rs :
                /\ t[i].job = rs[i].job /\ t[i].run = rs[i].run /\ t[i].attempt = rs[i].attempt
                /\ t[i].state = IF i \in S /\ rs[i].state = RUNNING THEN to ELSE rs[i].state
<1> DEFINE t == Transition(rs, S, to)
<1>1. DOMAIN rs = 1..Len(rs) /\ Len(rs) \in Nat
  BY LenProperties
<1>2. \A i \in DOMAIN rs : rs[i] \in JobRun
  BY <1>1, ElementOfSeq
<1>3. /\ DOMAIN t = DOMAIN rs
      /\ \A i \in DOMAIN rs :
           t[i] = IF i \in S /\ rs[i].state = RUNNING THEN [rs[i] EXCEPT !.state = to] ELSE rs[i]
  BY DEF Transition, RunningRuns
<1>4. \A i \in DOMAIN rs :
        /\ t[i] \in JobRun
        /\ t[i].job = rs[i].job /\ t[i].run = rs[i].run /\ t[i].attempt = rs[i].attempt
        /\ t[i].state = IF i \in S /\ rs[i].state = RUNNING THEN to ELSE rs[i].state
  BY <1>2, <1>3 DEF JobRun
<1>5. t \in [1..Len(rs) -> JobRun]
  BY <1>1, <1>3, <1>4 DEF Transition
<1>6. t \in Seq(JobRun)
  BY <1>1, <1>5, SeqDef
<1>7. Len(t) = Len(rs)
  BY <1>1, <1>3, <1>6, LenProperties
<1> QED
  BY <1>3, <1>4, <1>6, <1>7

\* An INSERT into job_run adds one running row and changes none.
LEMMA InsertedRow ==
    ASSUME NEW rs \in Seq(JobRun), NEW r,
           r.job \in Jobs, r.run \in Nat, r.attempt \in Nat \ {0}
    PROVE  LET t == Inserted(rs, r)
               n == Len(rs) + 1
           IN  /\ t \in Seq(JobRun) /\ Len(t) = n /\ DOMAIN t = DOMAIN rs \union {n}
               /\ DOMAIN rs = 1..Len(rs) /\ n \notin DOMAIN rs
               /\ \A i \in DOMAIN rs : t[i] = rs[i]
               /\ t[n].job = r.job /\ t[n].attempt = r.attempt /\ t[n].state = RUNNING
               /\ t[n].run = IF r.run = 0 THEN n ELSE r.run
<1> DEFINE n == Len(rs) + 1
           row == [job |-> r.job, run |-> IF r.run = 0 THEN n ELSE r.run,
                   attempt |-> r.attempt, state |-> RUNNING]
           t == Append(rs, row)
<1>1. Len(rs) \in Nat /\ DOMAIN rs = 1..Len(rs)
  BY LenProperties
<1>2. row \in JobRun
  BY <1>1 DEF JobRun, RunStates
<1>3. /\ t \in Seq(JobRun) /\ Len(t) = n /\ t[n] = row
      /\ \A i \in 1..Len(rs) : t[i] = rs[i]
  BY <1>2, AppendProperties
<1>4. DOMAIN t = 1..n
  BY <1>3, LenProperties
<1> HIDE DEF t
<1>5. /\ DOMAIN t = DOMAIN rs \union {n} /\ n \notin DOMAIN rs
  BY <1>1, <1>4
<1>6. t = Inserted(rs, r)
  BY DEF t, Inserted
<1> QED
  BY <1>1, <1>3, <1>5, <1>6

\* So for a request as the pipeline makes it.
LEMMA InsertedFacts ==
    ASSUME NEW rs \in Seq(JobRun), NEW r \in Request
    PROVE  LET t == Inserted(rs, r)
               n == Len(rs) + 1
           IN  /\ t \in Seq(JobRun) /\ Len(t) = n /\ DOMAIN t = DOMAIN rs \union {n}
               /\ DOMAIN rs = 1..Len(rs) /\ n \notin DOMAIN rs
               /\ \A i \in DOMAIN rs : t[i] = rs[i]
               /\ t[n].job = r.job /\ t[n].attempt = r.attempt /\ t[n].state = RUNNING
               /\ t[n].run = IF r.run = 0 THEN n ELSE r.run
  BY InsertedRow DEF Request
=============================================================================
