---------------------------- MODULE ServicesProofs ----------------------------
(***************************************************************************)
(* Proofs about the database's circuit breaker for any number of threads,  *)
(* any threshold, recovery time and number of tries; about the ceilings on *)
(* model calls for any number of callers, any ceilings, costs and lengths  *)
(* of an hour, a day and a month; and that the runs' composition of these  *)
(* two with the registry shows each as if it were alone.                   *)
(***************************************************************************)
EXTENDS MCServices, RegistryProofs, FiniteSetTheorems

\* THE CIRCUIT BREAKER.  The type and the threshold are an inductive invariant together.
BreakerInv == BreakerTypeOK /\ OpenAtThreshold

\* The breakers' invariant holds when no store has been tried.
LEMMA BreakerStarts == ASSUME BreakerInit PROVE BreakerInv
<1>1. \A t \in Threads : Outside \in [at : {"out", "trying", "ok", "failed"}, left : 0..Tries]
  BY BreakerAssumption DEF Outside
<1> QED
  BY <1>1, BreakerAssumption DEF BreakerInit, BreakerInv, BreakerTypeOK, OpenAtThreshold,
                                 CLOSED, OPEN, HALF_OPEN

\* Every step of a breaker keeps it.
LEMMA BreakerSteps == ASSUME BreakerInv, [BreakerNext]_breakerVars PROVE BreakerInv'
<1> DEFINE Doing == [at : {"out", "trying", "ok", "failed"}, left : 0..Tries]
<1>1. /\ state \in {CLOSED, OPEN, HALF_OPEN} /\ failures \in 0..Threshold /\ age \in 0..Recovery
      /\ attempt \in [Threads -> Doing] /\ up \in BOOLEAN /\ (state = CLOSED <=> failures < Threshold)
  BY DEF BreakerInv, BreakerTypeOK, OpenAtThreshold
<1>2. /\ Threshold \in Nat \ {0} /\ Recovery \in Nat \ {0} /\ Tries \in Nat \ {0}
      /\ CLOSED # OPEN /\ CLOSED # HALF_OPEN /\ OPEN # HALF_OPEN
  BY BreakerAssumption DEF CLOSED, OPEN, HALF_OPEN
<1>3. Outside \in Doing
  BY <1>2 DEF Outside
<1>4. CASE UNCHANGED breakerVars
  BY <1>1, <1>4 DEF breakerVars, BreakerInv, BreakerTypeOK, OpenAtThreshold
<1>5. ASSUME NEW t \in Threads, Admit(t)
      PROVE  BreakerInv'
  <2>1. [at |-> "trying", left |-> Tries] \in Doing
    BY <1>2
  <2>2. state' \in {CLOSED, OPEN, HALF_OPEN} /\ (state' = CLOSED <=> state = CLOSED)
    BY <1>1, <1>2, <1>5 DEF Admit, Resolved
  <2>3. attempt' \in [Threads -> Doing]
    BY <1>1, <1>5, <2>1 DEF Admit
  <2> QED
    BY <1>1, <1>5, <2>2, <2>3 DEF Admit, BreakerInv, BreakerTypeOK, OpenAtThreshold
<1>6. ASSUME NEW t \in Threads, Try(t)
      PROVE  BreakerInv'
  <2>1. [at |-> "ok", left |-> 0] \in Doing /\ [at |-> "failed", left |-> 0] \in Doing
    BY <1>2
  <2>2. attempt[t].left > 1 => [attempt[t] EXCEPT !.left = attempt[t].left - 1] \in Doing
    BY <1>1, <1>2
  <2>3. PICK d : /\ attempt' = [attempt EXCEPT ![t] = d]
                 /\ d = CASE up -> [at |-> "ok", left |-> 0]
                         [] ~up /\ attempt[t].left > 1 ->
                              [attempt[t] EXCEPT !.left = attempt[t].left - 1]
                         [] OTHER -> [at |-> "failed", left |-> 0]
    BY <1>6 DEF Try
  <2>4. d \in Doing
    <3>1. CASE up
      BY <2>1, <2>3, <3>1
    <3>2. CASE ~up /\ attempt[t].left > 1
      BY <2>2, <2>3, <3>2
    <3>3. CASE ~up /\ ~(attempt[t].left > 1)
      BY <2>1, <2>3, <3>3
    <3> QED
      BY <3>1, <3>2, <3>3
  <2>5. attempt' \in [Threads -> Doing]
    BY <1>1, <2>3, <2>4
  <2> QED
    BY <1>1, <1>6, <2>5 DEF Try, BreakerInv, BreakerTypeOK, OpenAtThreshold
<1>7. ASSUME NEW t \in Threads, OnSuccess(t)
      PROVE  BreakerInv'
  <2>1. attempt' \in [Threads -> Doing]
    BY <1>1, <1>3, <1>7 DEF OnSuccess
  <2> QED
    BY <1>1, <1>2, <1>7, <2>1 DEF OnSuccess, BreakerInv, BreakerTypeOK, OpenAtThreshold
\* A failure past the threshold counts as one at it; the circuit is open by then.
<1>8. ASSUME NEW t \in Threads, OnFailure(t)
      PROVE  BreakerInv'
  <2>1. attempt' \in [Threads -> Doing]
    BY <1>1, <1>3, <1>8 DEF OnFailure
  <2>2. failures' = IF failures < Threshold THEN failures + 1 ELSE failures
    BY <1>8 DEF OnFailure
  <2>3. CASE state = HALF_OPEN \/ failures + 1 >= Threshold
    <3>1. state' = OPEN /\ age' = 0 /\ up' = up
      BY <1>8, <2>3 DEF OnFailure
    <3>2. failures' = Threshold
      BY <1>1, <1>2, <2>2, <2>3
    <3> QED
      BY <1>1, <1>2, <2>1, <3>1, <3>2 DEF BreakerInv, BreakerTypeOK, OpenAtThreshold
  <2>4. CASE ~(state = HALF_OPEN \/ failures + 1 >= Threshold)
    <3>1. state' = state /\ age' = age /\ up' = up
      BY <1>8, <2>4 DEF OnFailure
    <3>2. failures' = failures + 1 /\ failures' < Threshold /\ state = CLOSED
      BY <1>1, <1>2, <2>2, <2>4
    <3> QED
      BY <1>1, <1>2, <2>1, <3>1, <3>2 DEF BreakerInv, BreakerTypeOK, OpenAtThreshold
  <2> QED
    BY <2>3, <2>4
<1>9. CASE Wait
  BY <1>1, <1>2, <1>9 DEF Wait, BreakerInv, BreakerTypeOK, OpenAtThreshold
<1>10. CASE DatabaseChanges
  BY <1>1, <1>10 DEF DatabaseChanges, BreakerInv, BreakerTypeOK, OpenAtThreshold
<1> QED
  BY <1>4, <1>5, <1>6, <1>7, <1>8, <1>9, <1>10 DEF BreakerNext, Report

\* The breaker's variables keep their types, with any number of calls in flight.
THEOREM BreakerTypeCorrect == BreakerSpec => []BreakerTypeOK
<1>1. BreakerInit => BreakerInv
  BY BreakerStarts
<1>2. BreakerInv /\ [BreakerNext]_breakerVars => BreakerInv'
  BY BreakerSteps
<1>3. BreakerInv => BreakerTypeOK
  BY DEF BreakerInv
<1> QED
  BY <1>1, <1>2, <1>3, PTL DEF BreakerSpec

\* The circuit is closed exactly while fewer than the threshold have failed since the last
\* success, in whatever order late outcomes come in (_on_failure and _on_success).
THEOREM OpensAtThreshold == BreakerSpec => []OpenAtThreshold
<1>1. BreakerInit => BreakerInv
  BY BreakerStarts
<1>2. BreakerInv /\ [BreakerNext]_breakerVars => BreakerInv'
  BY BreakerSteps
<1>3. BreakerInv => OpenAtThreshold
  BY DEF BreakerInv
<1> QED
  BY <1>1, <1>2, <1>3, PTL DEF BreakerSpec
-----------------------------------------------------------------------------
\* THE CEILINGS ON MODEL CALLS.  First, numbers and finite sets of them.

\* A set that has 0, and with every number below the bound the next one, has all.
LEMMA Climb ==
    ASSUME NEW top \in Nat, NEW S, 0 \in S, \A n \in 0..top : n < top /\ n \in S => n + 1 \in S
    PROVE  \A n \in 0..top : n \in S
<1> SUFFICES ASSUME NEW k \in 0..top, k \notin S PROVE FALSE
  OBVIOUS
<1> DEFINE T == {0..n : n \in {m \in 0..top : m \notin S}}
<1>1. T \subseteq SUBSET (0..top) /\ T # {}
  <2>1. \A n \in 0..top : 0..n \subseteq 0..top
    OBVIOUS
  <2> QED
    BY <2>1
<1>2. IsWellFoundedOn(StrictSubsetOrdering(0..top), SUBSET (0..top))
  <2>1. IsFiniteSet(0..top)
    BY FS_Interval
  <2>2. FiniteSubsetsOf(0..top) = SUBSET (0..top)
    BY <2>1, FS_FiniteSubsetsOfFinite
  <2> QED
    BY <2>2, FS_StrictSubsetOrderingWellFounded
<1>3. PICK low \in T : \A other \in T : ~ (<<other, low>> \in StrictSubsetOrdering(0..top))
  <2> HIDE DEF T
  <2> QED
    BY <1>1, <1>2, WFMin
<1>4. PICK m \in 0..top : m \notin S /\ low = 0..m
  BY <1>3
<1>5. m # 0 /\ m - 1 \in 0..top /\ m - 1 < top
  BY <1>4
<1>6. m - 1 \notin S
  BY <1>4, <1>5
<1>7. 0..(m - 1) \in T /\ 0..(m - 1) \subseteq 0..m /\ m \notin 0..(m - 1) /\ m \in 0..m
  BY <1>5, <1>6
<1> QED
  BY <1>1, <1>3, <1>4, <1>7 DEF StrictSubsetOrdering

\* A finite set of numbers that is not empty has a greatest.
LEMMA Greatest ==
    ASSUME NEW S \in SUBSET Nat, IsFiniteSet(S), S # {}
    PROVE  \E n \in S : \A m \in S : m <= n
<1> DEFINE above(n) == {m \in S : n < m}
           T == {above(n) : n \in S}
<1>1. T \subseteq SUBSET S /\ T # {}
  OBVIOUS
<1>2. IsWellFoundedOn(StrictSubsetOrdering(S), SUBSET S)
  <2>1. FiniteSubsetsOf(S) = SUBSET S
    BY FS_FiniteSubsetsOfFinite
  <2> QED
    BY <2>1, FS_StrictSubsetOrderingWellFounded
<1>3. PICK low \in T : \A other \in T : ~ (<<other, low>> \in StrictSubsetOrdering(S))
  <2> HIDE DEF T
  <2> QED
    BY <1>1, <1>2, WFMin
<1>4. PICK n \in S : low = above(n)
  BY <1>3
<1>5. ASSUME NEW m \in S, n < m
      PROVE  FALSE
  <2>1. above(m) \subseteq above(n) /\ m \in above(n) /\ m \notin above(m)
    <3>1. \A k \in S : k \in Nat /\ (m < k => n < k) /\ ~ (m < m)
      BY <1>5
    <3> QED
      BY <1>5, <3>1
  <2>2. above(m) \in T /\ above(m) # above(n) /\ above(n) \subseteq S
    BY <2>1
  <2> HIDE DEF T, above
  <2> QED
    BY <1>3, <1>4, <2>1, <2>2 DEF StrictSubsetOrdering
<1> QED
  BY <1>5
-----------------------------------------------------------------------------
\* Months: the later, the greater; one begins where it begins.
LEMMA Months ==
    ASSUME NEW s \in Nat, NEW t \in Nat
    PROVE  /\ MonthOf(s) \in Nat
           /\ s <= t => MonthOf(s) <= MonthOf(t)
           /\ s < MonthOf(t) * Month <=> MonthOf(s) < MonthOf(t)
<1>m. Month \in Nat /\ Month > 0
  BY BudgetAssumption
<1> DEFINE q == s \div Month  p == t \div Month
<1>1. q \in Nat /\ q * Month <= s /\ s < (q + 1) * Month
  BY <1>m
<1>2. p \in Nat /\ p * Month <= t /\ t < (p + 1) * Month
  BY <1>m
<1> HIDE DEF q, p
<1>3. s < p * Month <=> q < p
  BY <1>1, <1>2, <1>m
<1>4. s <= t => q <= p
  BY <1>1, <1>2, <1>m
<1> QED
  BY <1>1, <1>3, <1>4 DEF MonthOf, q, p


\* f is the running sum of the weights of a sequence of this length.
Runs(f, w, length) ==
    /\ f \in [0..length -> Nat]
    /\ f[0] = 0
    /\ \A i \in 1..length : f[i] = f[i - 1] + w[i]

\* What each entry of a sequence adds to the spend of a set of them.
Weights(rows, S) == [i \in 1..Len(rows) |-> IF i \in S THEN rows[i].cost ELSE 0]

\* Every sequence of weights has its running sum, and Spend ends with it.
LEMMA RunsExist ==
    ASSUME NEW length \in Nat, NEW w \in [1..length -> Nat]
    PROVE  \E f : Runs(f, w, length) /\ f = [i \in 0..length |-> IF i = 0 THEN 0 ELSE f[i - 1] + w[i]]
<1> DEFINE done == {n \in 0..length : \E f \in [0..n -> Nat] :
                      f = [i \in 0..n |-> IF i = 0 THEN 0 ELSE f[i - 1] + w[i]]}
<1>1. 0 \in done
  <2> DEFINE g == [i \in 0..0 |-> 0]
  <2>1. g \in [0..0 -> Nat] /\ g = [i \in 0..0 |-> IF i = 0 THEN 0 ELSE g[i - 1] + w[i]]
    OBVIOUS
  <2> HIDE DEF g
  <2> QED
    BY <2>1
<1>2. \A n \in 0..length : n < length /\ n \in done => n + 1 \in done
  <2> SUFFICES ASSUME NEW n \in 0..length, n < length, NEW f \in [0..n -> Nat],
                      f = [i \in 0..n |-> IF i = 0 THEN 0 ELSE f[i - 1] + w[i]]
               PROVE  n + 1 \in done
    OBVIOUS
  <2> DEFINE g == [i \in 0..(n + 1) |-> IF i = n + 1 THEN f[n] + w[n + 1] ELSE f[i]]
  <2>1. n + 1 \in 1..length /\ w[n + 1] \in Nat /\ f[n] \in Nat
    OBVIOUS
  <2>2. g \in [0..(n + 1) -> Nat]
    <3>1. \A i \in 0..(n + 1) : i # n + 1 => i \in 0..n /\ f[i] \in Nat
      OBVIOUS
    <3> QED
      BY <2>1, <3>1
  <2>3. ASSUME NEW i \in 0..(n + 1)
        PROVE  g[i] = IF i = 0 THEN 0 ELSE g[i - 1] + w[i]
    <3>1. CASE i = n + 1
      <4>1. i - 1 = n /\ i - 1 \in 0..(n + 1) /\ i - 1 # n + 1 /\ i # 0
        BY <3>1
      <4>2. g[i - 1] = f[n] /\ g[i] = f[n] + w[i]
        BY <3>1, <4>1
      <4> QED
        BY <4>1, <4>2
    <3>2. CASE i # n + 1
      <4>1. i \in 0..n /\ g[i] = f[i]
        BY <3>2
      <4>2. f[i] = IF i = 0 THEN 0 ELSE f[i - 1] + w[i]
        BY <4>1
      <4>3. i # 0 => i - 1 \in 0..(n + 1) /\ i - 1 # n + 1
        BY <4>1
      <4>4. i # 0 => g[i - 1] = f[i - 1]
        BY <4>3
      <4> QED
        BY <4>1, <4>2, <4>4
    <3> QED
      BY <3>1, <3>2
  <2> HIDE DEF g
  <2>4. g = [i \in 0..(n + 1) |-> IF i = 0 THEN 0 ELSE g[i - 1] + w[i]]
    BY <2>2, <2>3
  <2>5. n + 1 \in 0..length
    OBVIOUS
  <2> QED
    BY <2>2, <2>4, <2>5
<1>3. length \in done
  <2> HIDE DEF done
  <2>1. \A n \in 0..length : n \in done
    BY <1>1, <1>2, Climb
  <2> QED
    BY <2>1
<1>4. PICK f \in [0..length -> Nat] : f = [i \in 0..length |-> IF i = 0 THEN 0 ELSE f[i - 1] + w[i]]
  BY <1>3
<1>5. f[0] = 0 /\ \A i \in 1..length : f[i] = f[i - 1] + w[i]
  <2>1. \A i \in 0..length : f[i] = IF i = 0 THEN 0 ELSE f[i - 1] + w[i]
    BY <1>4
  <2>2. \A i \in 1..length : i \in 0..length /\ i # 0
    OBVIOUS
  <2>3. 0 \in 0..length
    OBVIOUS
  <2> QED
    BY <2>1, <2>2, <2>3
<1> QED
  BY <1>4, <1>5 DEF Runs

\* What a month's ledger adds up to is the last of a sequence of running sums.
LEMMA SpendRuns ==
    ASSUME NEW rows, Len(rows) \in Nat, \A i \in 1..Len(rows) : rows[i].cost \in Nat, NEW S
    PROVE  \E f : Runs(f, Weights(rows, S), Len(rows)) /\ Spend(rows, S) = f[Len(rows)]
<1> DEFINE L == Len(rows)
           w == Weights(rows, S)
           IsUpTo(f) == f = [i \in 0..L |-> IF i = 0 THEN 0
                                           ELSE f[i - 1] + (IF i \in S THEN rows[i].cost ELSE 0)]
           upTo == CHOOSE f : IsUpTo(f)
<1>1. w \in [1..L -> Nat]
  BY DEF Weights
<1>2. \E f : Runs(f, w, L) /\ f = [i \in 0..L |-> IF i = 0 THEN 0 ELSE f[i - 1] + w[i]]
  <2> HIDE DEF w
  <2> QED
    BY <1>1, RunsExist
<1>3. ASSUME NEW i \in 0..L, i # 0
      PROVE  w[i] = IF i \in S THEN rows[i].cost ELSE 0
  <2>1. i \in 1..L
    BY <1>3
  <2> QED
    BY <2>1 DEF Weights
<1>4. PICK f : Runs(f, w, L) /\ f = [i \in 0..L |-> IF i = 0 THEN 0 ELSE f[i - 1] + w[i]]
  BY <1>2
<1>5. IsUpTo(f)
  <2> HIDE DEF w
  <2>1. \A i \in 0..L : (IF i = 0 THEN 0 ELSE f[i - 1] + w[i])
                        = (IF i = 0 THEN 0 ELSE f[i - 1] + (IF i \in S THEN rows[i].cost ELSE 0))
    BY <1>3
  <2> QED
    BY <1>4, <2>1
<1>6. IsUpTo(upTo)
  <2> HIDE DEF IsUpTo
  <2> QED
    BY <1>5
<1>7. ASSUME NEW i \in 0..L
      PROVE  upTo[i] = IF i = 0 THEN 0 ELSE upTo[i - 1] + (IF i \in S THEN rows[i].cost ELSE 0)
  BY <1>6
<1>8. upTo = [i \in 0..L |-> upTo[i]]
  BY <1>6
<1>9. f = [i \in 0..L |-> f[i]] /\ \A i \in 0..L : f[i] \in Nat
  BY <1>4 DEF Runs
<1>10. \A i \in 0..L : f[i] = IF i = 0 THEN 0 ELSE f[i - 1] + (IF i \in S THEN rows[i].cost ELSE 0)
  BY <1>5
<1> HIDE DEF IsUpTo, upTo
<1>11. \A i \in 0..L : i \in {n \in 0..L : upTo[n] = f[n]}
  <2> DEFINE same == {n \in 0..L : upTo[n] = f[n]}
  <2>1. 0 \in same
    BY <1>7, <1>10
  <2>2. ASSUME NEW n \in 0..L, n < L, n \in same
        PROVE  n + 1 \in same
    <3>1. n + 1 \in 0..L /\ n + 1 # 0 /\ (n + 1) - 1 = n
      BY <2>2
    <3> QED
      BY <2>2, <3>1, <1>7, <1>10
  <2> HIDE DEF same
  <2> QED
    BY <2>1, <2>2, Climb DEF same
<1>12. Spend(rows, S) = upTo[L]
  BY DEF Spend, upTo, IsUpTo
<1> QED
  BY <1>4, <1>11, <1>12
-----------------------------------------------------------------------------
\* Running sums compare: of two with the second's weights at least the first's, the first
\* weightless on the stretch it has before.
LEMMA RunsCompare ==
    ASSUME NEW p \in Nat, NEW q \in Nat, NEW d \in Nat, d + q <= p,
           NEW v, NEW w, NEW f, NEW g, Runs(f, v, p), Runs(g, w, q),
           \A j \in 1..d : v[j] = 0,
           \A i \in 1..q : v[d + i] \in Nat /\ w[i] \in Nat /\ v[d + i] <= w[i]
    PROVE  f[d + q] <= g[q]
<1>1. /\ f \in [0..p -> Nat] /\ f[0] = 0 /\ \A i \in 1..p : f[i] = f[i - 1] + v[i]
      /\ g \in [0..q -> Nat] /\ g[0] = 0 /\ \A i \in 1..q : g[i] = g[i - 1] + w[i]
  BY DEF Runs
<1>2. \A n \in 0..d : n \in {k \in 0..d : f[k] = 0}
  <2> DEFINE nil == {k \in 0..d : f[k] = 0}
  <2>1. 0 \in nil
    BY <1>1
  <2>2. ASSUME NEW n \in 0..d, n < d, n \in nil
        PROVE  n + 1 \in nil
    <3>1. n + 1 \in 1..p /\ n + 1 \in 1..d /\ (n + 1) - 1 = n /\ f[n] = 0
      BY <2>2
    <3>2. f[n + 1] = f[n] + v[n + 1] /\ v[n + 1] = 0
      BY <3>1, <1>1
    <3> QED
      BY <3>1, <3>2
  <2> HIDE DEF nil
  <2> QED
    BY <2>1, <2>2, Climb DEF nil
<1>3. \A n \in 0..q : n \in {k \in 0..q : f[d + k] <= g[k]}
  <2> DEFINE less == {k \in 0..q : f[d + k] <= g[k]}
  <2>1. 0 \in less
    BY <1>1, <1>2
  <2>2. ASSUME NEW n \in 0..q, n < q, n \in less
        PROVE  n + 1 \in less
    <3>1. n + 1 \in 1..q /\ (n + 1) - 1 = n /\ d + (n + 1) \in 1..p /\ (d + (n + 1)) - 1 = d + n
      BY <2>2
    <3>2. f[d + (n + 1)] = f[d + n] + v[d + (n + 1)] /\ g[n + 1] = g[n] + w[n + 1]
      BY <1>1, <3>1
    <3>3. /\ f[d + n] \in Nat /\ g[n] \in Nat
          /\ v[d + (n + 1)] \in Nat /\ w[n + 1] \in Nat /\ v[d + (n + 1)] <= w[n + 1]
      BY <1>1, <3>1
    <3>4. f[d + n] <= g[n]
      BY <2>2
    <3>5. f[d + (n + 1)] <= g[n + 1]
      BY <3>2, <3>3, <3>4
    <3> QED
      BY <2>2, <3>1, <3>5
  <2> HIDE DEF less
  <2> QED
    BY <2>1, <2>2, Climb DEF less
<1> QED
  BY <1>3

\* One weight more heavy by some amount makes the sum more heavy by no more.
LEMMA RunsGrow ==
    ASSUME NEW p \in Nat, NEW k \in 1..p, NEW x \in Nat,
           NEW v \in [1..p -> Nat], NEW w \in [1..p -> Nat],
           NEW f, NEW g, Runs(f, v, p), Runs(g, w, p),
           \A i \in 1..p : i # k => v[i] <= w[i], v[k] <= w[k] + x
    PROVE  f[p] <= g[p] + x
<1>1. /\ f \in [0..p -> Nat] /\ f[0] = 0 /\ \A i \in 1..p : f[i] = f[i - 1] + v[i]
      /\ g \in [0..p -> Nat] /\ g[0] = 0 /\ \A i \in 1..p : g[i] = g[i - 1] + w[i]
  BY DEF Runs
<1>2. \A n \in 0..p : n \in {i \in 0..p : f[i] <= g[i] + (IF i < k THEN 0 ELSE x)}
  <2> DEFINE less == {i \in 0..p : f[i] <= g[i] + (IF i < k THEN 0 ELSE x)}
  <2>1. 0 \in less
    BY <1>1
  <2>2. ASSUME NEW n \in 0..p, n < p, n \in less
        PROVE  n + 1 \in less
    <3>1. n + 1 \in 1..p /\ n + 1 \in 0..p /\ (n + 1) - 1 = n
      BY <2>2
    <3>2. f[n + 1] = f[n] + v[n + 1] /\ g[n + 1] = g[n] + w[n + 1]
      BY <1>1, <3>1
    <3>3. f[n] \in Nat /\ g[n] \in Nat /\ v[n + 1] \in Nat /\ w[n + 1] \in Nat
      BY <1>1, <3>1
    <3>4. f[n] <= g[n] + (IF n < k THEN 0 ELSE x)
      BY <2>2
    <3>5. IF n + 1 = k THEN v[n + 1] <= w[n + 1] + x ELSE v[n + 1] <= w[n + 1]
      BY <3>1
    <3>6. f[n + 1] <= g[n + 1] + (IF n + 1 < k THEN 0 ELSE x)
      <4> DEFINE fn == f[n]  gn == g[n]  vn == v[n + 1]  wn == w[n + 1]
      <4>1. fn \in Nat /\ gn \in Nat /\ vn \in Nat /\ wn \in Nat /\ k \in Nat /\ n \in Nat
        BY <3>3
      <4>2. /\ fn <= gn + (IF n < k THEN 0 ELSE x)
            /\ IF n + 1 = k THEN vn <= wn + x ELSE vn <= wn
        BY <3>4, <3>5
      <4>3. f[n + 1] = fn + vn /\ g[n + 1] = gn + wn
        BY <3>2
      <4> HIDE DEF fn, gn, vn, wn
      <4>4. fn + vn <= gn + wn + (IF n + 1 < k THEN 0 ELSE x)
        <5>1. CASE n + 1 < k
          BY <4>1, <4>2, <5>1
        <5>2. CASE n + 1 = k
          <6>1. n < k
            BY <4>1, <5>2
          <6>2. fn <= gn /\ vn <= wn + x
            BY <4>1, <4>2, <5>2, <6>1
          <6> QED
            BY <4>1, <5>2, <6>2
        <5>3. CASE k < n + 1
          <6>1. fn <= gn + x /\ vn <= wn
            BY <4>1, <4>2, <5>3
          <6> QED
            BY <4>1, <5>3, <6>1
        <5> QED
          BY <4>1, <5>1, <5>2, <5>3
      <4> QED
        BY <4>1, <4>3, <4>4
    <3> QED
      BY <3>1, <3>6
  <2> HIDE DEF less
  <2> QED
    BY <2>1, <2>2, Climb DEF less
<1>3. p \in 0..p /\ ~ (p < k)
  OBVIOUS
<1> QED
  BY <1>2, <1>3


LedgerEntry == [attempt : Nat, at : Nat, cost : Nat]
Attempt     == [at : Nat, reserved : Nat, cost : Nat]
Calling(c) == call[c].doing = "calling"

\* No stamp is later than the reservation, and no reservation later than the clock.
Timely ==
    /\ \A j \in 1..Len(sent) : sent[j].at <= sent[j].reserved /\ sent[j].reserved <= instant
    /\ \A c \in Callers : call[c].at <= instant

\* These entries are those of the attempts after the d-th, in their order.
EntriesAfter(rows, d) ==
    /\ rows \in Seq(LedgerEntry)
    /\ Len(sent) = d + Len(rows)
    /\ \A i \in 1..Len(rows) : /\ rows[i].attempt = d + i
                               /\ rows[i].at = sent[d + i].at
                               /\ rows[i].cost = sent[d + i].cost

\* The month of each of the first d attempts is over.
OverUpTo(d) == \A j \in 1..d : MonthOf(sent[j].at) < MonthOf(instant)

\* The ledger forgets attempts from the front, and only what a past month sent.
LedgerKeepsMonth == \E d \in 0..Len(sent) : EntriesAfter(entries, d) /\ OverUpTo(d)

\* Each call in flight has an attempt of its own, unsettled and with the call's stamp.
InFlight ==
    /\ \A c \in Callers : Calling(c) => /\ call[c].attempt \in 1..Len(sent)
                                        /\ sent[call[c].attempt].cost = Estimate
                                        /\ sent[call[c].attempt].at = call[c].at
    /\ \A c, e \in Callers : Calling(c) /\ Calling(e) /\ call[c].attempt = call[e].attempt => c = e

LedgerInv == BudgetTypeOK /\ Timely /\ LedgerKeepsMonth /\ InFlight /\ SettledWithinMonth
-----------------------------------------------------------------------------
\* What the assumption says, fact by fact.
LEMMA BudgetConstants ==
    /\ Hour \in Nat /\ Hour > 0 /\ Day \in Nat /\ Day > 0 /\ Month \in Nat /\ Month > 0
    /\ PerHour \in Nat /\ PerHour > 0 /\ PerDay \in Nat /\ PerDay > 0
    /\ MonthlyBudget \in Nat /\ Estimate \in Nat /\ MaxInstant \in Nat /\ MaxSent \in Nat
    /\ Costs \subseteq Nat /\ IsFiniteSet(Costs) /\ IsFiniteSet(Callers)
BY BudgetAssumption

\* The types, in the terms of these proofs.
LEMMA BudgetTypes ==
    ASSUME BudgetTypeOK
    PROVE  /\ instant \in Nat /\ entries \in Seq(LedgerEntry) /\ sent \in Seq(Attempt)
           /\ Len(sent) \in Nat /\ Len(entries) \in Nat
           /\ DOMAIN sent = 1..Len(sent) /\ DOMAIN entries = 1..Len(entries)
           /\ \A j \in 1..Len(sent) : /\ sent[j] \in Attempt /\ sent[j].at \in Nat
                                      /\ sent[j].reserved \in Nat /\ sent[j].cost \in Nat
           /\ \A i \in 1..Len(entries) : /\ entries[i] \in LedgerEntry /\ entries[i].at \in Nat
                                         /\ entries[i].attempt \in Nat /\ entries[i].cost \in Nat
           /\ call \in [Callers -> Resting \union Busy]
           /\ \A c \in Callers : call[c].at \in Nat /\ call[c].attempt \in Nat
<1>1. instant \in Nat /\ entries \in Seq(LedgerEntry) /\ sent \in Seq(Attempt)
  BY DEF BudgetTypeOK, LedgerEntry, Attempt
<1>2. \A j \in 1..Len(sent) : sent[j] \in Attempt
  BY <1>1
<1>3. \A i \in 1..Len(entries) : entries[i] \in LedgerEntry
  BY <1>1
<1>4. call \in [Callers -> Resting \union Busy]
  BY DEF BudgetTypeOK
<1>5. \A x \in Resting \union Busy : x.at \in Nat /\ x.attempt \in Nat
  BY DEF Resting, Busy
<1>6. Len(sent) \in Nat /\ Len(entries) \in Nat /\ DOMAIN sent = 1..Len(sent) /\ DOMAIN entries = 1..Len(entries)
  BY <1>1
<1>7. \A a \in Attempt : a.at \in Nat /\ a.reserved \in Nat /\ a.cost \in Nat
  BY DEF Attempt
<1>8. \A a \in LedgerEntry : a.at \in Nat /\ a.attempt \in Nat /\ a.cost \in Nat
  BY DEF LedgerEntry
<1> QED
  BY <1>1, <1>2, <1>3, <1>4, <1>5, <1>6, <1>7, <1>8

\* _prune takes entries off the front, and only those of a past month.
LEMMA PrunedDrops ==
    ASSUME BudgetTypeOK, NEW t \in Nat
    PROVE  \E n \in 0..Len(entries) :
              /\ Pruned(t) = SubSeq(entries, n + 1, Len(entries))
              /\ \A i \in 1..n : MonthOf(entries[i].at) < MonthOf(t)
<1> DEFINE old(e) == e.at < MonthOf(t) * Month
           keep == {n \in 0..Len(entries) : \A i \in 1..n : old(entries[i])}
           drop == CHOOSE n \in keep : \A m \in keep : m <= n
<1>1. Len(entries) \in Nat /\ \A i \in 1..Len(entries) : entries[i].at \in Nat
  BY BudgetTypes
<1>2. keep \in SUBSET Nat /\ keep # {} /\ IsFiniteSet(keep)
  <2>1. 0 \in keep /\ keep \subseteq 0..Len(entries) /\ keep \in SUBSET Nat
    BY <1>1
  <2>2. IsFiniteSet(0..Len(entries))
    BY <1>1, FS_Interval
  <2> HIDE DEF keep
  <2> QED
    BY <2>1, <2>2, FS_Subset
<1>3. \E n \in keep : \A m \in keep : m <= n
  <2> HIDE DEF keep
  <2> QED
    BY <1>1, <1>2, Greatest
<1>4. drop \in keep
  <2> HIDE DEF keep
  <2> QED
    BY <1>3
<1>5. Pruned(t) = SubSeq(entries, drop + 1, Len(entries))
  BY DEF Pruned
<1> HIDE DEF drop
<1>6. ASSUME NEW i \in 1..drop
      PROVE  MonthOf(entries[i].at) < MonthOf(t)
  <2>1. entries[i].at < MonthOf(t) * Month /\ entries[i].at \in Nat
    BY <1>1, <1>4
  <2> QED
    BY <2>1, Months
<1> QED
  BY <1>4, <1>5, <1>6

\* After pruning for a call's stamp the ledger still has all that the month sent.
LEMMA PrunedKeepsMonth ==
    ASSUME BudgetTypeOK, LedgerKeepsMonth, NEW t \in Nat, t <= instant
    PROVE  \E d \in 0..Len(sent) : EntriesAfter(Pruned(t), d) /\ OverUpTo(d)
<1>1. /\ instant \in Nat /\ entries \in Seq(LedgerEntry) /\ Len(sent) \in Nat /\ Len(entries) \in Nat
      /\ \A j \in 1..Len(sent) : sent[j].at \in Nat
  BY BudgetTypes
<1>2. PICK b \in 0..Len(sent) : EntriesAfter(entries, b) /\ OverUpTo(b)
  BY DEF LedgerKeepsMonth
<1>3. PICK n \in 0..Len(entries) : /\ Pruned(t) = SubSeq(entries, n + 1, Len(entries))
                                   /\ \A i \in 1..n : MonthOf(entries[i].at) < MonthOf(t)
  BY PrunedDrops
<1> DEFINE rows == SubSeq(entries, n + 1, Len(entries))
<1>4. /\ rows \in Seq(LedgerEntry) /\ Len(rows) = Len(entries) - n
      /\ \A i \in 1..Len(rows) : rows[i] = entries[n + i]
  <2>1. n + 1 \in 1..(Len(entries) + 1) /\ Len(entries) \in n..Len(entries)
    BY <1>1
  <2>2. \A i \in (n + 1)..Len(entries) : entries[i] \in LedgerEntry
    BY <1>1
  <2>3. rows \in Seq(LedgerEntry) /\ Len(rows) = Len(entries) - n
    BY <1>1, <2>1, <2>2
  <2>4. \A i \in 1..(Len(entries) - n) : rows[i] = entries[n + i]
    BY <1>1, <2>1
  <2> QED
    BY <2>3, <2>4
<1> HIDE DEF rows
<1>5. Len(sent) = b + Len(entries)
  BY <1>2 DEF EntriesAfter
<1>6. b + n \in 0..Len(sent) /\ Len(sent) = (b + n) + Len(rows)
  BY <1>1, <1>4, <1>5
<1>7. EntriesAfter(rows, b + n)
  <2>1. ASSUME NEW i \in 1..Len(rows)
        PROVE  rows[i].attempt = (b + n) + i /\ rows[i].at = sent[(b + n) + i].at /\ rows[i].cost = sent[(b + n) + i].cost
    <3>1. n + i \in 1..Len(entries) /\ rows[i] = entries[n + i] /\ b + (n + i) = (b + n) + i
      BY <1>1, <1>4
    <3> QED
      BY <1>2, <3>1 DEF EntriesAfter
  <2> QED
    BY <1>4, <1>6, <2>1 DEF EntriesAfter
<1>8. OverUpTo(b + n)
  <2> SUFFICES ASSUME NEW j \in 1..(b + n)
               PROVE  MonthOf(sent[j].at) < MonthOf(instant)
    BY DEF OverUpTo
  <2>1. CASE j <= b
    BY <1>2, <2>1 DEF OverUpTo
  <2>2. CASE b < j
    <3>1. j - b \in 1..n /\ j - b \in 1..Len(entries) /\ b + (j - b) = j /\ j \in 1..Len(sent)
      BY <1>1, <1>6, <2>2
    <3>2. entries[j - b].at = sent[j].at
      BY <1>2, <3>1 DEF EntriesAfter
    <3>3. MonthOf(sent[j].at) < MonthOf(t)
      BY <1>3, <3>1, <3>2
    <3>4. MonthOf(t) <= MonthOf(instant) /\ MonthOf(t) \in Nat /\ MonthOf(instant) \in Nat
      BY <1>1, Months
    <3>5. MonthOf(sent[j].at) \in Nat
      BY <1>1, <3>1, Months
    <3> QED
      BY <3>3, <3>4, <3>5
  <2> QED
    BY <2>1, <2>2
<1> QED
  BY <1>3, <1>6, <1>7, <1>8 DEF rows


\* The ledger's invariant holds of an empty ledger.
LEMMA LedgerStarts == ASSUME BudgetInit PROVE LedgerInv
<1>1. instant = 0 /\ entries = <<>> /\ sent = <<>> /\ call = [c \in Callers |-> AtRest]
  BY DEF BudgetInit
<1>2. AtRest \in Resting /\ AtRest.doing = "idle" /\ AtRest.at = 0
  BY DEF AtRest, Resting
<1>3. BudgetTypeOK
  BY <1>1, <1>2 DEF BudgetTypeOK
<1>4. Len(sent) = 0 /\ Len(entries) = 0 /\ entries \in Seq(LedgerEntry)
  BY <1>1
<1>5. EntriesAfter(entries, 0) /\ OverUpTo(0)
  BY <1>4 DEF EntriesAfter, OverUpTo
<1>6. \A c \in Callers : call[c].doing = "idle" /\ call[c].at = 0
  BY <1>1, <1>2
<1> QED
  BY <1>1, <1>3, <1>4, <1>5, <1>6 DEF LedgerInv, Timely, LedgerKeepsMonth, InFlight, SettledWithinMonth, Calling

\* A step that leaves the ledger and the attempts alone and sets one call to rest.
LEMMA CallEnds ==
    ASSUME LedgerInv, NEW c \in Callers, call' = [call EXCEPT ![c] = AtRest],
           UNCHANGED <<instant, sent>>, LedgerKeepsMonth', entries' \in Seq(LedgerEntry)
    PROVE  LedgerInv'
<1>1. AtRest \in Resting /\ AtRest.doing = "idle" /\ AtRest.at = 0
  BY DEF AtRest, Resting
<1>2. call \in [Callers -> Resting \union Busy] /\ instant \in Nat
  BY DEF LedgerInv, BudgetTypeOK
<1>3. BudgetTypeOK'
  BY <1>1, <1>2 DEF LedgerInv, BudgetTypeOK, LedgerEntry
<1>4. \A e \in Callers : call'[e] = IF e = c THEN AtRest ELSE call[e]
  BY <1>2
<1>5. Timely'
  BY <1>1, <1>2, <1>4 DEF LedgerInv, Timely
<1>6. InFlight'
  BY <1>1, <1>4 DEF LedgerInv, InFlight, Calling
<1>7. SettledWithinMonth'
  BY <1>1, <1>4 DEF LedgerInv, SettledWithinMonth
<1> QED
  BY <1>3, <1>5, <1>6, <1>7 DEF LedgerInv

\* A busy call that is given an attempt stays one.
LEMMA GivenAttempt ==
    ASSUME NEW b \in Busy, NEW n \in Nat
    PROVE  [b EXCEPT !.attempt = n, !.doing = "calling"] \in Busy
<1>1. [b EXCEPT !.attempt = n, !.doing = "calling"]
        = [at |-> b.at, attempt |-> n, retries |-> b.retries, doing |-> "calling"]
  <2>1. DOMAIN b = {"at", "attempt", "retries", "doing"}
    BY DEF Busy
  <2>2. [b EXCEPT !.attempt = n, !.doing = "calling"]
          = [f \in DOMAIN b |-> IF f = "doing" THEN "calling" ELSE IF f = "attempt" THEN n ELSE b[f]]
    BY <2>1
  <2> QED
    BY <2>1, <2>2
<1>2. b.at \in Nat /\ b.retries \in 0..1
  BY DEF Busy
<1>3. [at |-> b.at, attempt |-> n, retries |-> b.retries, doing |-> "calling"] \in Busy
  BY <1>2 DEF Busy
<1> QED
  BY <1>1, <1>3

\* A busy call whose settling finds no entry stays one, with its stamp.
LEMMA LeftUnsettled ==
    ASSUME NEW b \in Busy
    PROVE  LET left == [b EXCEPT !.doing = "unsettled"] IN
           left \in Busy /\ left.at = b.at /\ left.doing = "unsettled"
<1> DEFINE left == [at |-> b.at, attempt |-> b.attempt, retries |-> b.retries, doing |-> "unsettled"]
<1>1. [b EXCEPT !.doing = "unsettled"] = left
  BY DEF Busy
<1>2. b.at \in Nat /\ b.attempt \in Nat /\ b.retries \in 0..1
  BY DEF Busy
<1>3. left \in Busy /\ left.at = b.at /\ left.doing = "unsettled"
  BY <1>2 DEF Busy
<1> QED
  BY <1>1, <1>3

\* A new attempt: its entry follows what the pruning left.
LEMMA ReserveKeeps ==
    ASSUME LedgerInv, NEW c \in Callers, Reserve(c)
    PROVE  /\ LedgerInv'
           /\ ~ Calling(c) /\ call'[c].attempt = Len(sent) + 1
           /\ \A e \in Callers : e # c => call'[e] = call[e]
<1> DEFINE t == call[c].at
           new == [at |-> t, reserved |-> instant, cost |-> Estimate]
           row == [attempt |-> Len(sent) + 1, at |-> t, cost |-> Estimate]
<1>1. BudgetTypeOK /\ Timely /\ LedgerKeepsMonth /\ InFlight /\ SettledWithinMonth
  BY DEF LedgerInv
<1>2. /\ instant \in Nat /\ sent \in Seq(Attempt) /\ Len(sent) \in Nat /\ t \in Nat /\ t <= instant
      /\ call \in [Callers -> Resting \union Busy]
  BY <1>1, BudgetTypes DEF Timely
<1>3. PICK d \in 0..Len(sent) : EntriesAfter(Pruned(t), d) /\ OverUpTo(d)
  BY <1>1, <1>2, PrunedKeepsMonth
<1>4. PICK rows \in Seq(LedgerEntry) : rows = Pruned(t)
  BY <1>3 DEF EntriesAfter
<1>5. /\ call[c].doing = "stamped"
      /\ sent' = Append(sent, new) /\ entries' = Append(rows, row) /\ instant' = instant
      /\ call' = [call EXCEPT ![c].attempt = Len(sent) + 1, ![c].doing = "calling"]
  BY <1>4 DEF Reserve
<1>6. new \in Attempt /\ row \in LedgerEntry
  BY <1>2, BudgetConstants DEF Attempt, LedgerEntry
<1> HIDE DEF t
<1>7. /\ sent' \in Seq(Attempt) /\ Len(sent') = Len(sent) + 1 /\ sent'[Len(sent) + 1] = new
      /\ \A j \in 1..Len(sent) : sent'[j] = sent[j]
  BY <1>2, <1>5, <1>6
<1>8. /\ entries' \in Seq(LedgerEntry) /\ Len(entries') = Len(rows) + 1 /\ entries'[Len(rows) + 1] = row
      /\ \A i \in 1..Len(rows) : entries'[i] = rows[i]
  BY <1>4, <1>5, <1>6
<1>9. [call[c] EXCEPT !.attempt = Len(sent) + 1, !.doing = "calling"] \in Busy
  <2>1. call[c] \in Busy
    BY <1>2, <1>5 DEF Resting
  <2>2. Len(sent) + 1 \in Nat
    BY <1>2
  <2> QED
    BY <2>1, <2>2, GivenAttempt
<1>10. \A e \in Callers : IF e = c
            THEN /\ call'[e].attempt = Len(sent) + 1 /\ call'[e].doing = "calling" /\ call'[e].at = t
            ELSE call'[e] = call[e]
  <2>1. call[c] \in Busy
    BY <1>2, <1>5 DEF Resting
  <2>2. call'[c] = [call[c] EXCEPT !.attempt = Len(sent) + 1, !.doing = "calling"]
    BY <1>2, <1>5
  <2>3. call'[c].attempt = Len(sent) + 1 /\ call'[c].doing = "calling" /\ call'[c].at = t
    BY <2>1, <2>2 DEF Busy, t
  <2> QED
    BY <1>2, <1>5, <2>3
<1>11. BudgetTypeOK'
  BY <1>2, <1>5, <1>7, <1>8, <1>9 DEF BudgetTypeOK, LedgerEntry, Attempt
<1>12. Timely'
  <2>1. new.at = t /\ new.reserved = instant
    OBVIOUS
  <2>2. \A j \in 1..Len(sent') : j = Len(sent) + 1 \/ j \in 1..Len(sent)
    BY <1>2, <1>7
  <2>3. \A j \in 1..Len(sent') : sent'[j].at <= sent'[j].reserved /\ sent'[j].reserved <= instant
    BY <1>1, <1>2, <1>7, <2>1, <2>2 DEF Timely
  <2>4. \A e \in Callers : call'[e].at <= instant
    BY <1>1, <1>2, <1>10 DEF Timely
  <2> QED
    BY <1>5, <2>3, <2>4 DEF Timely
<1>13. LedgerKeepsMonth'
  <2>1. Len(sent) = d + Len(rows)
    BY <1>3, <1>4 DEF EntriesAfter
  <2>2. d \in 0..Len(sent') /\ Len(sent') = d + Len(entries')
    BY <1>2, <1>7, <1>8, <2>1
  <2>3. ASSUME NEW i \in 1..Len(entries')
        PROVE  /\ entries'[i].attempt = d + i /\ entries'[i].at = sent'[d + i].at
               /\ entries'[i].cost = sent'[d + i].cost
    <3>1. CASE i = Len(rows) + 1
      <4>1. d + i = Len(sent) + 1
        BY <1>2, <1>4, <2>1, <3>1
      <4>2. row.attempt = Len(sent) + 1 /\ row.at = new.at /\ row.cost = new.cost
        OBVIOUS
      <4> QED
        BY <1>7, <1>8, <3>1, <4>1, <4>2
    <3>2. CASE i # Len(rows) + 1
      <4>1. i \in 1..Len(rows) /\ d + i \in 1..Len(sent)
        BY <1>2, <1>4, <1>8, <2>1, <3>2
      <4> QED
        BY <1>3, <1>4, <1>7, <1>8, <4>1 DEF EntriesAfter
    <3> QED
      BY <3>1, <3>2
  <2>4. EntriesAfter(entries, d)'
    BY <1>8, <2>2, <2>3 DEF EntriesAfter
  <2>5. OverUpTo(d)'
    BY <1>2, <1>3, <1>5, <1>7 DEF OverUpTo
  <2> QED
    BY <2>2, <2>4, <2>5 DEF LedgerKeepsMonth
<1>14. InFlight'
  <2>1. new.at = t /\ new.cost = Estimate
    OBVIOUS
  <2>2. \A e \in Callers : e # c /\ Calling(e)' => Calling(e) /\ call'[e] = call[e]
    BY <1>10 DEF Calling
  <2>3. \A e \in Callers : e # c /\ Calling(e)' => call[e].attempt \in 1..Len(sent)
    BY <1>1, <2>2 DEF InFlight
  <2>4. \A j \in 1..Len(sent) : j \in 1..Len(sent') /\ j # Len(sent) + 1
    BY <1>2, <1>7
  <2>5. Len(sent) + 1 \in 1..Len(sent')
    BY <1>2, <1>7
  <2>6. ASSUME NEW e \in Callers, Calling(e)'
        PROVE  /\ call'[e].attempt \in 1..Len(sent')
               /\ sent'[call'[e].attempt].cost = Estimate
               /\ sent'[call'[e].attempt].at = call'[e].at
    <3>1. CASE e = c
      BY <1>7, <1>10, <2>1, <2>5, <3>1
    <3>2. CASE e # c
      BY <1>1, <1>7, <2>2, <2>3, <2>4, <2>6, <3>2 DEF InFlight
    <3> QED
      BY <3>1, <3>2
  <2>7. ASSUME NEW e \in Callers, NEW g \in Callers, Calling(e)', Calling(g)',
               call'[e].attempt = call'[g].attempt
        PROVE  e = g
    BY <1>1, <1>10, <2>2, <2>3, <2>4, <2>7 DEF InFlight
  <2> QED
    BY <2>6, <2>7 DEF InFlight
<1>15. SettledWithinMonth'
  BY <1>1, <1>5, <1>10 DEF SettledWithinMonth
<1> QED
  BY <1>5, <1>10, <1>11, <1>12, <1>13, <1>14, <1>15 DEF LedgerInv, Calling

\* settle, with the type of the call's next rest given.
LEMMA SettleKeeps ==
    ASSUME LedgerInv, NEW c \in Callers, NEW cost \in Nat, NEW next \in Resting \union Busy,
           next.doing \in {"idle", "stamped"}, next.at <= instant, SettleAttempt(c, cost, next)
    PROVE  /\ LedgerInv'
           /\ call[c].attempt \in 1..Len(sent) /\ Len(sent') = Len(sent)
           /\ sent[call[c].attempt].cost = Estimate
           /\ \A j \in 1..Len(sent) : /\ sent'[j].at = sent[j].at /\ sent'[j].reserved = sent[j].reserved
                                      /\ sent'[j].cost = IF j = call[c].attempt THEN cost ELSE sent[j].cost
           /\ \A e \in Callers : Calling(e)' <=> Calling(e) /\ e # c
           /\ \A e \in Callers : e # c => call'[e] = call[e]
<1> DEFINE k == call[c].attempt
           own == {i \in DOMAIN entries : entries[i].attempt = k}
<1>1. BudgetTypeOK /\ Timely /\ LedgerKeepsMonth /\ InFlight /\ SettledWithinMonth
  BY DEF LedgerInv
<1>2. /\ instant \in Nat /\ sent \in Seq(Attempt) /\ Len(sent) \in Nat
      /\ entries \in Seq(LedgerEntry) /\ Len(entries) \in Nat
      /\ DOMAIN sent = 1..Len(sent) /\ DOMAIN entries = 1..Len(entries)
      /\ call \in [Callers -> Resting \union Busy]
      /\ \A j \in 1..Len(sent) : sent[j] \in Attempt
      /\ \A i \in 1..Len(entries) : entries[i] \in LedgerEntry
  BY <1>1, BudgetTypes
<1>3. PICK d \in 0..Len(sent) : EntriesAfter(entries, d) /\ OverUpTo(d)
  BY <1>1 DEF LedgerKeepsMonth
<1>4. /\ call[c].doing = "calling" /\ instant' = instant
      /\ entries' = [i \in DOMAIN entries |->
                       IF i \in own THEN [entries[i] EXCEPT !.cost = cost] ELSE entries[i]]
      /\ sent' = [sent EXCEPT ![k].cost = cost]
      /\ call' = [call EXCEPT ![c] = IF own = {} THEN [call[c] EXCEPT !.doing = "unsettled"] ELSE next]
  BY DEF SettleAttempt
<1>5. k \in 1..Len(sent) /\ sent[k].cost = Estimate /\ sent[k].at = call[c].at
  BY <1>1, <1>4 DEF InFlight, Calling
<1>6. call[c] \in Busy
  BY <1>2, <1>4 DEF Resting
<1>7. own = {} => OverUpTo(k) /\ k <= d
  <2> SUFFICES ASSUME own = {} PROVE k <= d
    BY <1>2, <1>3, <1>5 DEF OverUpTo
  <2> SUFFICES ASSUME d < k PROVE FALSE
    BY <1>2, <1>5
  <2>1. Len(sent) = d + Len(entries)
    BY <1>3 DEF EntriesAfter
  <2>2. k - d \in 1..Len(entries) /\ d + (k - d) = k
    BY <1>2, <1>5, <2>1
  <2>3. entries[k - d].attempt = d + (k - d)
    BY <1>3, <2>2 DEF EntriesAfter
  <2> QED
    BY <1>2, <2>2, <2>3
<1> HIDE DEF own, k
<1>8. /\ sent' \in Seq(Attempt) /\ Len(sent') = Len(sent)
      /\ \A j \in 1..Len(sent) : /\ sent'[j].at = sent[j].at /\ sent'[j].reserved = sent[j].reserved
                                 /\ sent'[j].cost = IF j = k THEN cost ELSE sent[j].cost
  <2>1. [sent[k] EXCEPT !.cost = cost] \in Attempt
    BY <1>2, <1>5 DEF Attempt
  <2>2. sent' \in Seq(Attempt) /\ Len(sent') = Len(sent)
    BY <1>2, <1>4, <1>5, <2>1
  <2>3. \A j \in 1..Len(sent) : sent'[j] = IF j = k THEN [sent[k] EXCEPT !.cost = cost] ELSE sent[j]
    BY <1>2, <1>4, <1>5
  <2>4. /\ [sent[k] EXCEPT !.cost = cost].at = sent[k].at
        /\ [sent[k] EXCEPT !.cost = cost].reserved = sent[k].reserved
        /\ [sent[k] EXCEPT !.cost = cost].cost = cost
    BY <1>2, <1>5 DEF Attempt
  <2> QED
    BY <2>2, <2>3, <2>4
<1>9. /\ entries' \in Seq(LedgerEntry) /\ Len(entries') = Len(entries)
      /\ \A i \in 1..Len(entries) : /\ entries'[i].at = entries[i].at
                                    /\ entries'[i].attempt = entries[i].attempt
                                    /\ entries'[i].cost = IF i \in own THEN cost ELSE entries[i].cost
  <2>1. \A i \in 1..Len(entries) : /\ [entries[i] EXCEPT !.cost = cost] \in LedgerEntry
                                   /\ [entries[i] EXCEPT !.cost = cost].at = entries[i].at
                                   /\ [entries[i] EXCEPT !.cost = cost].attempt = entries[i].attempt
                                   /\ [entries[i] EXCEPT !.cost = cost].cost = cost
    BY <1>2 DEF LedgerEntry
  <2>2. \A i \in 1..Len(entries) :
           entries'[i] = IF i \in own THEN [entries[i] EXCEPT !.cost = cost] ELSE entries[i]
    BY <1>2, <1>4
  <2>3. entries' \in [1..Len(entries) -> LedgerEntry]
    BY <1>2, <1>4, <2>1, <2>2
  <2>4. entries' \in Seq(LedgerEntry) /\ Len(entries') = Len(entries)
    BY <1>2, <2>3
  <2> QED
    BY <2>1, <2>2, <2>4
<1>10. PICK rest : /\ rest = IF own = {} THEN [call[c] EXCEPT !.doing = "unsettled"] ELSE next
                   /\ call' = [call EXCEPT ![c] = rest]
  BY <1>4
<1>11. /\ rest \in Resting \union Busy /\ rest.at <= instant /\ rest.doing # "calling"
       /\ rest.doing = "unsettled" => MonthOf(rest.at) < MonthOf(instant)
  <2>1. CASE own = {}
    <3>1. rest \in Busy /\ rest.at = call[c].at /\ rest.doing = "unsettled"
      BY <1>6, <1>10, <2>1, LeftUnsettled
    <3>2. MonthOf(sent[k].at) < MonthOf(instant)
      BY <1>5, <1>7, <2>1 DEF OverUpTo
    <3> QED
      BY <1>1, <1>5, <3>1, <3>2 DEF Timely
  <2>2. CASE own # {}
    BY <1>10, <2>2
  <2> QED
    BY <2>1, <2>2
<1>12. \A e \in Callers : call'[e] = IF e = c THEN rest ELSE call[e]
  <2>1. call' = [call EXCEPT ![c] = rest] /\ call \in [Callers -> Resting \union Busy]
    BY <1>2, <1>10
  <2> QED
    BY <2>1
<1>13. BudgetTypeOK'
  BY <1>2, <1>4, <1>8, <1>9, <1>10, <1>11 DEF BudgetTypeOK, LedgerEntry, Attempt
<1>14. Timely'
  BY <1>1, <1>4, <1>8, <1>11, <1>12 DEF Timely
<1>15. LedgerKeepsMonth'
  <2>1. EntriesAfter(entries, d)'
    <3>1. Len(sent') = d + Len(entries')
      BY <1>3, <1>8, <1>9 DEF EntriesAfter
    <3>2. ASSUME NEW i \in 1..Len(entries')
          PROVE  /\ entries'[i].attempt = d + i /\ entries'[i].at = sent'[d + i].at
                 /\ entries'[i].cost = sent'[d + i].cost
      <4>1. i \in 1..Len(entries) /\ d + i \in 1..Len(sent)
        BY <1>2, <1>8, <1>9, <3>1
      <4>2. entries[i].attempt = d + i /\ entries[i].at = sent[d + i].at /\ entries[i].cost = sent[d + i].cost
        BY <1>3, <4>1 DEF EntriesAfter
      <4>3. i \in own <=> d + i = k
        BY <1>2, <4>1, <4>2 DEF own
      <4> QED
        BY <1>8, <1>9, <4>1, <4>2, <4>3
    <3> QED
      BY <1>9, <3>1, <3>2 DEF EntriesAfter
  <2>2. OverUpTo(d)'
    <3>1. \A j \in 1..d : j \in 1..Len(sent)
      BY <1>2
    <3> QED
      BY <1>3, <1>4, <1>8, <3>1 DEF OverUpTo
  <2> QED
    BY <1>8, <2>1, <2>2 DEF LedgerKeepsMonth
<1>16. \A e \in Callers : Calling(e)' <=> Calling(e) /\ e # c
  BY <1>11, <1>12 DEF Calling
<1>17. InFlight'
  <2>1. ASSUME NEW e \in Callers, Calling(e)'
        PROVE  /\ call'[e].attempt \in 1..Len(sent')
               /\ sent'[call'[e].attempt].cost = Estimate
               /\ sent'[call'[e].attempt].at = call'[e].at
    <3>1. Calling(e) /\ e # c /\ call'[e] = call[e] /\ Calling(c)
      BY <1>4, <1>12, <1>16, <2>1 DEF Calling
    <3>2. call[e].attempt # k /\ call[e].attempt \in 1..Len(sent)
      BY <1>1, <3>1 DEF InFlight, k
    <3> QED
      BY <1>1, <1>8, <3>1, <3>2 DEF InFlight
  <2>2. ASSUME NEW e \in Callers, NEW g \in Callers, Calling(e)', Calling(g)',
               call'[e].attempt = call'[g].attempt
        PROVE  e = g
    BY <1>1, <1>12, <1>16, <2>2 DEF InFlight
  <2> QED
    BY <2>1, <2>2 DEF InFlight
<1>18. SettledWithinMonth'
  BY <1>1, <1>4, <1>11, <1>12 DEF SettledWithinMonth
<1> QED
  BY <1>5, <1>8, <1>12, <1>13, <1>14, <1>15, <1>16, <1>17, <1>18 DEF LedgerInv, k


\* The ceilings at every instant, those to come included.
CeilingsAlways == \A t \in Nat : /\ Cardinality(SentIn(t, Hour)) <= PerHour
                                 /\ Cardinality(SentIn(t, Day)) <= PerDay

\* A set that maps one to one into a finite set has no more elements.
LEMMA NoMoreThan ==
    ASSUME NEW A, NEW B, IsFiniteSet(B), NEW f \in [A -> B],
           \A x, y \in A : f[x] = f[y] => x = y
    PROVE  IsFiniteSet(A) /\ Cardinality(A) <= Cardinality(B)
<1>1. f \in Injection(A, B)
  BY DEF Injection, IsInjective
<1> QED
  BY <1>1, FS_Injection

\* A set of attempts is finite, and so is a window.
LEMMA WindowsFinite ==
    ASSUME NEW n \in Nat, NEW S \in SUBSET (1..n)
    PROVE  IsFiniteSet(S) /\ Cardinality(S) \in Nat
<1>1. IsFiniteSet(1..n)
  BY FS_Interval
<1>2. IsFiniteSet(S)
  BY <1>1, FS_Subset
<1> QED
  BY <1>2, FS_CardinalityType

\* The ceiling tested on the pruned entries bounds the attempts of the window, whichever
\* month and stamp the others of the window have.
LEMMA CeilingAfterReserve ==
    ASSUME LedgerInv, NEW c \in Callers, Reserve(c), NEW len \in Nat, NEW per \in Nat, NEW t \in Nat,
           Cardinality(InWindow(Pruned(call[c].at), call[c].at, len)) < per,
           Cardinality(SentIn(t, len)) <= per
    PROVE  Cardinality(SentIn(t, len)') <= per
<1> DEFINE a == call[c].at
           new == [at |-> a, reserved |-> instant, cost |-> Estimate]
           n == Len(sent)
<1>1. BudgetTypeOK /\ Timely /\ LedgerKeepsMonth
  BY DEF LedgerInv
<1>2. /\ instant \in Nat /\ sent \in Seq(Attempt) /\ n \in Nat /\ a \in Nat /\ a <= instant
      /\ DOMAIN sent = 1..n
      /\ \A j \in 1..n : sent[j].at \in Nat /\ sent[j].reserved \in Nat
  BY <1>1, BudgetTypes DEF Timely
<1>3. PICK d \in 0..n : EntriesAfter(Pruned(a), d) /\ OverUpTo(d)
  BY <1>1, <1>2, PrunedKeepsMonth
<1>4. PICK rows \in Seq(LedgerEntry) : rows = Pruned(a)
  BY <1>3 DEF EntriesAfter
<1>5. sent' = Append(sent, new)
  BY DEF Reserve
<1>6. new \in Attempt /\ new.at = a /\ new.reserved = instant
  BY <1>2, BudgetConstants DEF Attempt
<1> HIDE DEF new, a
<1>7. /\ DOMAIN sent' = 1..(n + 1) /\ sent'[n + 1] = new
      /\ \A j \in 1..n : sent'[j] = sent[j]
  BY <1>2, <1>5, <1>6
<1> DEFINE before == SentIn(t, len)
           after == SentIn(t, len)'
           window == InWindow(rows, a, len)
<1>8. after = {i \in 1..(n + 1) : /\ MonthOf(sent'[i].at) = MonthOf(t) /\ MonthOf(sent'[i].reserved) = MonthOf(t)
                                  /\ sent'[i].at <= t /\ sent'[i].at + len > t}
  BY <1>7 DEF SentIn, SentInMonth
<1>9. before = {i \in 1..n : /\ MonthOf(sent[i].at) = MonthOf(t) /\ MonthOf(sent[i].reserved) = MonthOf(t)
                             /\ sent[i].at <= t /\ sent[i].at + len > t}
  BY <1>2 DEF SentIn, SentInMonth
<1>10. before = after \ {n + 1} /\ before \subseteq 1..n
  BY <1>2, <1>7, <1>8, <1>9
<1>11. n + 1 \in after => MonthOf(a) = MonthOf(t) /\ MonthOf(instant) = MonthOf(t) /\ a <= t
  BY <1>6, <1>7, <1>8
<1>12. window = {i \in 1..Len(rows) : rows[i].at + len > a} /\ Len(rows) \in Nat /\ n = d + Len(rows)
  BY <1>3, <1>4 DEF InWindow, EntriesAfter
<1>13. IsFiniteSet(before) /\ IsFiniteSet(window) /\ Cardinality(window) \in Nat /\ Cardinality(before) \in Nat
  BY <1>2, <1>10, <1>12, WindowsFinite
<1>14. CASE n + 1 \notin after
  BY <1>10, <1>14
<1>15. CASE n + 1 \in after
  <2> DEFINE f == [j \in before |-> j - d]
  <2>1. ASSUME NEW j \in before
        PROVE  j - d \in window
    <3>1. /\ j \in 1..n /\ MonthOf(sent[j].at) = MonthOf(t) /\ sent[j].at <= t /\ sent[j].at + len > t
          /\ sent[j].at \in Nat
      BY <1>2, <1>9
    <3>2. d < j
      <4> SUFFICES ASSUME j <= d PROVE FALSE
        BY <1>2, <3>1
      <4>1. MonthOf(sent[j].at) < MonthOf(instant)
        BY <1>3, <3>1 DEF OverUpTo
      <4>2. MonthOf(t) \in Nat /\ MonthOf(instant) = MonthOf(t)
        BY <1>11, <1>15, Months
      <4> QED
        BY <3>1, <4>1, <4>2
    <3>3. j - d \in 1..Len(rows) /\ d + (j - d) = j
      BY <1>2, <1>12, <3>1, <3>2
    <3>4. rows[j - d].at = sent[j].at
      BY <1>3, <1>4, <3>3 DEF EntriesAfter
    <3>5. rows[j - d].at + len > a
      BY <1>2, <1>11, <1>15, <3>1, <3>4
    <3> QED
      BY <1>12, <3>3, <3>5
  <2>2. f \in [before -> window]
    BY <2>1
  <2>3. \A x, y \in before : f[x] = f[y] => x = y
    BY <1>10, <1>2
  <2> HIDE DEF f, before, window
  <2>4. Cardinality(before) <= Cardinality(window)
    BY <1>13, <2>2, <2>3, NoMoreThan
  <2>5. Cardinality(window) < per
    BY <1>4 DEF window, a
  <2>6. after = before \union {n + 1} /\ n + 1 \notin before
    BY <1>2, <1>10, <1>15
  <2>7. Cardinality(after) = Cardinality(before) + 1
    <3> HIDE DEF after
    <3> QED
      BY <1>13, <2>6, FS_AddElement
  <2> QED
    BY <1>13, <2>4, <2>5, <2>7
<1> QED
  BY <1>14, <1>15

\* A step that changes no stamp changes no window.
LEMMA SentInUnchanged ==
    ASSUME NEW t, NEW len, BudgetTypeOK, BudgetTypeOK', Len(sent') = Len(sent),
           \A j \in 1..Len(sent) : sent'[j].at = sent[j].at /\ sent'[j].reserved = sent[j].reserved
    PROVE  SentIn(t, len)' = SentIn(t, len) /\ SentInMonth(t)' = SentInMonth(t)
<1>1. DOMAIN sent = 1..Len(sent) /\ DOMAIN sent' = 1..Len(sent)
  BY DEF BudgetTypeOK
<1>2. SentInMonth(t)' = SentInMonth(t)
  BY <1>1 DEF SentInMonth
<1>3. SentInMonth(t) \subseteq 1..Len(sent)
  BY <1>1 DEF SentInMonth
<1> QED
  BY <1>1, <1>2, <1>3 DEF SentIn
-----------------------------------------------------------------------------
\* The most an attempt may cost beyond its estimate, and nothing costs more.
LEMMA ExcessBounds ==
    Excess \in Nat /\ \A x \in Costs : x <= Estimate + Excess
<1> DEFINE dear == {y \in Costs : y > Estimate}
           over == {0} \union {x - Estimate : x \in dear}
<1>1. Costs \subseteq Nat /\ Estimate \in Nat /\ IsFiniteSet(Costs)
  BY BudgetConstants
<1>2. over \subseteq Nat /\ over # {}
  BY <1>1
<1>3. IsFiniteSet({x - Estimate : x \in dear})
  <2> DEFINE f == [x \in dear |-> x - Estimate]
  <2>1. IsFiniteSet(dear)
    BY <1>1, FS_Subset
  <2>2. f \in Surjection(dear, {x - Estimate : x \in dear})
    BY DEF Surjection
  <2> HIDE DEF f, dear
  <2> QED
    BY <2>1, <2>2, FS_Surjection
<1>4. IsFiniteSet(over)
  <2> HIDE DEF dear
  <2> QED
    BY <1>3, FS_AddElement
<1>5. \E x \in over : \A y \in over : y <= x
  <2> HIDE DEF over
  <2> QED
    BY <1>2, <1>4, Greatest
<1>6. Excess \in over /\ \A y \in over : y <= Excess
  <2>1. Excess = CHOOSE x \in over : \A y \in over : y <= x
    BY DEF Excess
  <2> HIDE DEF over
  <2> QED
    BY <1>5, <2>1
<1>7. ASSUME NEW x \in Costs
      PROVE  x <= Estimate + Excess
  <2>1. x \in Nat /\ Excess \in Nat
    BY <1>1, <1>2, <1>6
  <2>2. x > Estimate => x - Estimate <= Excess
    BY <1>6
  <2> QED
    BY <1>1, <2>1, <2>2
<1> QED
  BY <1>2, <1>6, <1>7


\* The calls in flight whose attempt was made in a month.
Unsettled(t) == {c \in Callers : Calling(c) /\ call[c].attempt \in SentInMonth(t)}

\* At every instant, those to come included: what the month has spent, and what the calls
\* in flight may yet add to it.
BudgetAlways ==
    \A t \in Nat : Spend(sent, SentInMonth(t)) + Cardinality(Unsettled(t)) * Excess
                     <= MonthlyBudget + Cardinality(Callers) * Excess

BudgetInv == LedgerInv /\ CeilingsAlways /\ BudgetAlways

\* A spend is a number, and so is a count of callers.
LEMMA SpendType ==
    ASSUME NEW rows, Len(rows) \in Nat, \A i \in 1..Len(rows) : rows[i].cost \in Nat, NEW S
    PROVE  Spend(rows, S) \in Nat
<1>1. PICK f : Runs(f, Weights(rows, S), Len(rows)) /\ Spend(rows, S) = f[Len(rows)]
  BY SpendRuns
<1> QED
  BY <1>1 DEF Runs

\* Callers are finitely many, and no set of them has more.
LEMMA CallersCounted ==
    ASSUME NEW C \in SUBSET Callers
    PROVE  /\ IsFiniteSet(C) /\ Cardinality(C) \in Nat /\ Cardinality(C) <= Cardinality(Callers)
           /\ Cardinality(Callers) \in Nat
<1>1. IsFiniteSet(Callers)
  BY BudgetConstants
<1>2. IsFiniteSet(C) /\ Cardinality(C) <= Cardinality(Callers)
  BY <1>1, FS_Subset
<1> QED
  BY <1>1, <1>2, FS_CardinalityType

\* The numbers that the bound is made of are numbers.
LEMMA BoundTypes ==
    ASSUME BudgetTypeOK, NEW t
    PROVE  /\ Spend(sent, SentInMonth(t)) \in Nat
           /\ IsFiniteSet(Unsettled(t)) /\ Cardinality(Unsettled(t)) \in Nat
           /\ Cardinality(Callers) \in Nat /\ Excess \in Nat /\ MonthlyBudget \in Nat /\ Estimate \in Nat
<1>1. Len(sent) \in Nat /\ \A j \in 1..Len(sent) : sent[j].cost \in Nat
  BY BudgetTypes
<1>2. Unsettled(t) \in SUBSET Callers
  BY DEF Unsettled
<1> QED
  BY <1>1, <1>2, SpendType, CallersCounted, ExcessBounds, BudgetConstants

\* Two spends compare as their weights do.
LEMMA SpendCompare ==
    ASSUME NEW rows, NEW S, NEW later, NEW R, NEW d \in Nat,
           Len(rows) \in Nat, Len(later) \in Nat, Len(rows) = d + Len(later),
           \A j \in 1..Len(rows) : rows[j].cost \in Nat,
           \A i \in 1..Len(later) : later[i].cost \in Nat,
           \A j \in 1..d : j \notin S,
           \A i \in 1..Len(later) : d + i \in S => i \in R /\ rows[d + i].cost <= later[i].cost
    PROVE  Spend(rows, S) <= Spend(later, R)
<1> DEFINE p == Len(rows)  q == Len(later)  v == Weights(rows, S)  w == Weights(later, R)
<1>1. PICK f : Runs(f, v, p) /\ Spend(rows, S) = f[p]
  BY SpendRuns
<1>2. PICK g : Runs(g, w, q) /\ Spend(later, R) = g[q]
  BY SpendRuns
<1>3. \A j \in 1..d : v[j] = 0
  <2>1. \A j \in 1..d : j \in 1..p
    OBVIOUS
  <2> QED
    BY <2>1 DEF Weights
<1>4. ASSUME NEW i \in 1..q
      PROVE  v[d + i] \in Nat /\ w[i] \in Nat /\ v[d + i] <= w[i]
  <2>1. d + i \in 1..p
    OBVIOUS
  <2>2. /\ v[d + i] = IF d + i \in S THEN rows[d + i].cost ELSE 0
        /\ w[i] = IF i \in R THEN later[i].cost ELSE 0
    BY <2>1 DEF Weights
  <2>3. rows[d + i].cost \in Nat /\ later[i].cost \in Nat
    BY <2>1
  <2> QED
    BY <2>2, <2>3
<1>p. p \in Nat /\ q \in Nat /\ d + q <= p /\ d + q = p
  OBVIOUS
<1> HIDE DEF v, w, p, q
<1>5. f[d + q] <= g[q]
  BY <1>p, <1>1, <1>2, <1>3, <1>4, RunsCompare
<1> QED
  BY <1>p, <1>1, <1>2, <1>5

\* An attempt more, and what it costs.
LEMMA SpendMore ==
    ASSUME NEW rows, NEW S, NEW more, NEW R, Len(rows) \in Nat, Len(more) = Len(rows) + 1,
           \A j \in 1..Len(rows) : more[j] = rows[j] /\ rows[j].cost \in Nat,
           more[Len(rows) + 1].cost \in Nat, S = R \ {Len(rows) + 1}
    PROVE  Spend(more, R) = Spend(rows, S)
                              + (IF Len(rows) + 1 \in R THEN more[Len(rows) + 1].cost ELSE 0)
<1> DEFINE n == Len(rows)  v == Weights(more, R)  w == Weights(rows, S)
<1>1. \A j \in 1..Len(more) : more[j].cost \in Nat
  <2>1. \A j \in 1..Len(more) : j = n + 1 \/ j \in 1..n
    OBVIOUS
  <2> QED
    BY <2>1
<1>2. PICK f : Runs(f, v, n + 1) /\ Spend(more, R) = f[n + 1]
  BY <1>1, SpendRuns
<1>3. PICK g : Runs(g, w, n) /\ Spend(rows, S) = g[n]
  BY SpendRuns
<1>4. v[n + 1] = IF n + 1 \in R THEN more[n + 1].cost ELSE 0
  BY DEF Weights
<1>5. ASSUME NEW i \in 1..n
      PROVE  v[i] = w[i]
  <2>1. i \in 1..(n + 1) /\ (i \in R <=> i \in S)
    OBVIOUS
  <2> QED
    BY <2>1 DEF Weights
<1>6. v[n + 1] \in Nat
  BY <1>4
<1> HIDE DEF v, w
<1>7. /\ f \in [0..(n + 1) -> Nat] /\ f[0] = 0 /\ \A i \in 1..(n + 1) : f[i] = f[i - 1] + v[i]
      /\ g \in [0..n -> Nat] /\ g[0] = 0 /\ \A i \in 1..n : g[i] = g[i - 1] + w[i]
  BY <1>2, <1>3 DEF Runs
<1>8. \A i \in 0..n : i \in {k \in 0..n : f[k] = g[k]}
  <2> DEFINE same == {k \in 0..n : f[k] = g[k]}
  <2>1. 0 \in same
    BY <1>7
  <2>2. ASSUME NEW i \in 0..n, i < n, i \in same
        PROVE  i + 1 \in same
    <3>1. i + 1 \in 1..n /\ i + 1 \in 1..(n + 1) /\ (i + 1) - 1 = i /\ f[i] = g[i]
      BY <2>2
    <3>2. f[i + 1] = f[i] + v[i + 1] /\ g[i + 1] = g[i] + w[i + 1] /\ v[i + 1] = w[i + 1]
      BY <1>5, <1>7, <3>1
    <3> QED
      BY <3>1, <3>2
  <2> HIDE DEF same
  <2> QED
    BY <2>1, <2>2, Climb DEF same
<1>9. f[n + 1] = f[n] + v[n + 1]
  BY <1>7
<1> QED
  BY <1>2, <1>3, <1>4, <1>8, <1>9

\* An entry more dear, and by how much.
LEMMA SpendGrows ==
    ASSUME NEW rows, NEW S, NEW dear, NEW k \in 1..Len(rows), NEW x \in Nat, Len(rows) \in Nat, Len(dear) = Len(rows),
           \A j \in 1..Len(rows) : /\ rows[j].cost \in Nat /\ dear[j].cost \in Nat
                                   /\ j # k => dear[j].cost = rows[j].cost,
           dear[k].cost <= rows[k].cost + x
    PROVE  Spend(dear, S) <= Spend(rows, S) + (IF k \in S THEN x ELSE 0)
<1> DEFINE p == Len(rows)  v == Weights(dear, S)  w == Weights(rows, S)
           y == IF k \in S THEN x ELSE 0
<1>1. PICK f : Runs(f, v, p) /\ Spend(dear, S) = f[p]
  BY SpendRuns
<1>2. PICK g : Runs(g, w, p) /\ Spend(rows, S) = g[p]
  BY SpendRuns
<1>3. v \in [1..p -> Nat] /\ w \in [1..p -> Nat]
  BY DEF Weights
<1>4. \A i \in 1..p : i # k => v[i] <= w[i]
  <2> SUFFICES ASSUME NEW i \in 1..p, i # k PROVE v[i] <= w[i]
    OBVIOUS
  <2>1. v[i] = w[i]
    BY DEF Weights
  <2>2. v[i] \in Nat
    BY <1>3
  <2> HIDE DEF v, w
  <2> QED
    BY <2>1, <2>2
<1>5. v[k] <= w[k] + y
  BY DEF Weights
<1> HIDE DEF v, w
<1>6. y \in Nat
  OBVIOUS
<1> HIDE DEF y
<1>7. f[p] <= g[p] + y
  BY <1>1, <1>2, <1>3, <1>4, <1>5, <1>6, RunsGrow
<1> QED
  BY <1>1, <1>2, <1>7 DEF y


\* Products with the excess.
LEMMA Products ==
    ASSUME NEW x \in Nat, NEW m \in Nat, NEW n \in Nat, m <= n
    PROVE  m * x <= n * x /\ m * x \in Nat /\ n * x \in Nat /\ (m + 1) * x = m * x + x
<1>1. m * x \in Nat /\ n * x \in Nat /\ (m + 1) * x = m * x + x
  OBVIOUS
<1>2. PICK k \in Nat : n = m + k
  <2>1. n - m \in Nat /\ n = m + (n - m)
    OBVIOUS
  <2> QED
    BY <2>1
<1>3. n * x = m * x + k * x /\ k * x \in Nat
  BY <1>2
<1> QED
  BY <1>1, <1>3

\* Where no attempt is made and none settled, both bounds stand.
LEMMA BoundsStay ==
    ASSUME BudgetTypeOK, BudgetTypeOK', sent' = sent, CeilingsAlways, BudgetAlways,
           \A c \in Callers : Calling(c)' => Calling(c) /\ call'[c].attempt = call[c].attempt
    PROVE  CeilingsAlways' /\ BudgetAlways'
<1>1. ASSUME NEW t \in Nat
      PROVE  /\ SentInMonth(t)' = SentInMonth(t)
             /\ SentIn(t, Hour)' = SentIn(t, Hour) /\ SentIn(t, Day)' = SentIn(t, Day)
  BY DEF SentInMonth, SentIn
<1>2. CeilingsAlways'
  BY <1>1 DEF CeilingsAlways
<1>3. ASSUME NEW t \in Nat
      PROVE  (Spend(sent, SentInMonth(t)) + Cardinality(Unsettled(t)) * Excess
                     <= MonthlyBudget + Cardinality(Callers) * Excess)'
  <2>1. Unsettled(t)' \in SUBSET Unsettled(t)
    BY <1>1 DEF Unsettled
  <2>2. Spend(sent, SentInMonth(t))' = Spend(sent, SentInMonth(t))
    BY <1>1
  <2> DEFINE S == Spend(sent, SentInMonth(t))
             u == Cardinality(Unsettled(t))
             v == Cardinality(Unsettled(t)')
             x == Excess  b == MonthlyBudget  n == Cardinality(Callers)
  <2>3. v <= u /\ v \in Nat /\ u \in Nat /\ S \in Nat /\ x \in Nat /\ b \in Nat /\ n \in Nat
    <3>1. IsFiniteSet(Unsettled(t))
      BY BoundTypes
    <3>2. v <= u /\ IsFiniteSet(Unsettled(t)')
      BY <2>1, <3>1, FS_Subset
    <3> QED
      BY <3>1, <3>2, BoundTypes, FS_CardinalityType
  <2>4. S + u * x <= b + n * x
    BY DEF BudgetAlways
  <2> HIDE DEF S, u, v, x, b, n
  <2>5. S + v * x <= b + n * x
    <3>1. v * x <= u * x /\ v * x \in Nat /\ u * x \in Nat /\ n * x \in Nat
      BY <2>3, Products
    <3> QED
      BY <2>3, <2>4, <3>1
  <2> QED
    BY <2>2, <2>5 DEF S, u, v, x, b, n
<1>4. BudgetAlways'
  BY <1>3 DEF BudgetAlways
<1> QED
  BY <1>2, <1>4

\* The ceiling on the spend tested on the pruned entries bounds what the month has spent.
LEMMA SpendAtReserve ==
    ASSUME LedgerInv, NEW c \in Callers, Reserve(c), NEW t \in Nat,
           MonthOf(call[c].at) = MonthOf(t), MonthOf(instant) = MonthOf(t)
    PROVE  Spend(sent, SentInMonth(t)) + Estimate <= MonthlyBudget
<1> DEFINE a == call[c].at
<1>1. BudgetTypeOK /\ Timely /\ LedgerKeepsMonth
  BY DEF LedgerInv
<1>2. /\ instant \in Nat /\ Len(sent) \in Nat /\ a \in Nat /\ a <= instant /\ DOMAIN sent = 1..Len(sent)
      /\ \A j \in 1..Len(sent) : sent[j].at \in Nat /\ sent[j].cost \in Nat
  BY <1>1, BudgetTypes DEF Timely
<1>3. PICK d \in 0..Len(sent) : EntriesAfter(Pruned(a), d) /\ OverUpTo(d)
  BY <1>1, <1>2, PrunedKeepsMonth
<1>4. PICK rows \in Seq(LedgerEntry) : rows = Pruned(a)
  BY <1>3 DEF EntriesAfter
<1>5. Spend(rows, InMonth(rows, a)) + Estimate <= MonthlyBudget
  BY <1>4 DEF Reserve, Permitted
<1>6. Len(rows) \in Nat /\ DOMAIN rows = 1..Len(rows) /\ \A i \in 1..Len(rows) : rows[i].cost \in Nat
  <2>1. Len(rows) \in Nat /\ DOMAIN rows = 1..Len(rows) /\ \A i \in 1..Len(rows) : rows[i] \in LedgerEntry
    OBVIOUS
  <2>2. \A e \in LedgerEntry : e.cost \in Nat
    BY DEF LedgerEntry
  <2> QED
    BY <2>1, <2>2
<1>7. Len(sent) = d + Len(rows)
  BY <1>3, <1>4 DEF EntriesAfter
<1>8. ASSUME NEW j \in 1..d
      PROVE  j \notin SentInMonth(t)
  <2>1. MonthOf(sent[j].at) < MonthOf(t)
    BY <1>3 DEF OverUpTo
  <2>2. j \in 1..Len(sent)
    BY <1>2
  <2>3. MonthOf(sent[j].at) \in Nat /\ MonthOf(t) \in Nat
    BY <1>2, <2>2, Months
  <2> QED
    BY <2>1, <2>3 DEF SentInMonth
<1>9. ASSUME NEW i \in 1..Len(rows), d + i \in SentInMonth(t)
      PROVE  i \in InMonth(rows, a) /\ sent[d + i].cost <= rows[i].cost
  <2>1. rows[i].at = sent[d + i].at /\ rows[i].cost = sent[d + i].cost
    BY <1>3, <1>4 DEF EntriesAfter
  <2>2. MonthOf(sent[d + i].at) = MonthOf(t)
    BY <1>9 DEF SentInMonth
  <2> QED
    BY <1>6, <2>1, <2>2 DEF InMonth
<1>10. Spend(sent, SentInMonth(t)) <= Spend(rows, InMonth(rows, a))
  <2>1. d \in Nat
    OBVIOUS
  <2> QED
    BY <1>2, <1>6, <1>7, <1>8, <1>9, <2>1, SpendCompare
<1>11. Spend(sent, SentInMonth(t)) \in Nat /\ Estimate \in Nat /\ MonthlyBudget \in Nat
  BY <1>1, BoundTypes
<1>12. Spend(rows, InMonth(rows, a)) \in Nat
  BY <1>6, SpendType
<1> QED
  BY <1>5, <1>10, <1>11, <1>12


\* A new attempt keeps both bounds.
LEMMA BoundsAfterReserve ==
    ASSUME BudgetInv, NEW c \in Callers, Reserve(c)
    PROVE  BudgetInv'
<1> DEFINE a == call[c].at
           new == [at |-> a, reserved |-> instant, cost |-> Estimate]
           n == Len(sent)
<1>1. LedgerInv /\ CeilingsAlways /\ BudgetAlways /\ BudgetTypeOK
  BY DEF BudgetInv, LedgerInv
<1>2. /\ LedgerInv' /\ BudgetTypeOK'
      /\ ~ Calling(c) /\ call'[c].attempt = n + 1
      /\ \A e \in Callers : e # c => call'[e] = call[e]
  <2>1. LedgerInv' => BudgetTypeOK'
    BY DEF LedgerInv
  <2> QED
    BY <1>1, <2>1, ReserveKeeps
<1>3. CeilingsAlways'
  <2>1. /\ Cardinality(InWindow(Pruned(call[c].at), call[c].at, Hour)) < PerHour
        /\ Cardinality(InWindow(Pruned(call[c].at), call[c].at, Day)) < PerDay
    BY DEF Reserve, Permitted
  <2>2. ASSUME NEW t \in Nat
        PROVE  /\ Cardinality(SentIn(t, Hour)') <= PerHour
               /\ Cardinality(SentIn(t, Day)') <= PerDay
    <3>1. Cardinality(SentIn(t, Hour)) <= PerHour /\ Cardinality(SentIn(t, Day)) <= PerDay
      BY <1>1 DEF CeilingsAlways
    <3>2. Hour \in Nat /\ Day \in Nat /\ PerHour \in Nat /\ PerDay \in Nat
      BY BudgetConstants
    <3> QED
      BY <1>1, <2>1, <3>1, <3>2, CeilingAfterReserve
  <2> QED
    BY <2>2 DEF CeilingsAlways
<1>4. /\ n \in Nat /\ DOMAIN sent = 1..n /\ \A j \in 1..n : sent[j].cost \in Nat
      /\ instant \in Nat /\ a \in Nat
  BY <1>1, BudgetTypes
<1>5. /\ DOMAIN sent' = 1..(n + 1) /\ Len(sent') = n + 1 /\ sent'[n + 1] = new
      /\ \A j \in 1..n : sent'[j] = sent[j]
  <2>1. sent' = Append(sent, new) /\ sent \in Seq(Attempt)
    BY <1>1, BudgetTypes DEF Reserve
  <2>2. new \in Attempt
    BY <1>4, BudgetConstants DEF Attempt
  <2> QED
    BY <1>4, <2>1, <2>2
<1>6. new.at = a /\ new.reserved = instant /\ new.cost = Estimate /\ Estimate \in Nat
  BY BudgetConstants
<1> HIDE DEF new
<1>7. ASSUME NEW t \in Nat
      PROVE  (Spend(sent, SentInMonth(t)) + Cardinality(Unsettled(t)) * Excess
                     <= MonthlyBudget + Cardinality(Callers) * Excess)'
  <2>1. SentInMonth(t) = SentInMonth(t)' \ {n + 1}
    BY <1>4, <1>5 DEF SentInMonth
  <2>2. n + 1 \in SentInMonth(t)' <=> MonthOf(a) = MonthOf(t) /\ MonthOf(instant) = MonthOf(t)
    BY <1>4, <1>5, <1>6 DEF SentInMonth
  <2>3. Spend(sent', SentInMonth(t)') = Spend(sent, SentInMonth(t))
           + (IF n + 1 \in SentInMonth(t)' THEN Estimate ELSE 0)
    BY <1>4, <1>5, <1>6, <2>1, SpendMore
  <2> DEFINE S == Spend(sent, SentInMonth(t))
             T == Spend(sent', SentInMonth(t)')
             u == Cardinality(Unsettled(t))
             v == Cardinality(Unsettled(t)')
             x == Excess  b == MonthlyBudget  m == Cardinality(Callers)
  <2>4. S \in Nat /\ u \in Nat /\ x \in Nat /\ b \in Nat /\ m \in Nat /\ Estimate \in Nat
    BY <1>1, BoundTypes
  <2>5. T \in Nat /\ v \in 0..m /\ v \in Nat
    <3>1. T \in Nat
      BY <2>3, <2>4
    <3>2. Unsettled(t)' \in SUBSET Callers
      BY DEF Unsettled
    <3>3. v \in Nat /\ v <= m
      BY <3>2, CallersCounted
    <3> QED
      BY <2>4, <3>1, <3>3
  <2>6. S + u * x <= b + m * x
    BY <1>1 DEF BudgetAlways
  <2>7. T + v * x <= b + m * x
    <3>1. CASE n + 1 \in SentInMonth(t)'
      <4>1. S + Estimate <= b
        BY <1>1, <2>2, <3>1, SpendAtReserve
      <4>2. T = S + Estimate
        BY <2>3, <3>1
      <4> HIDE DEF S, T, u, v, x, b, m
      <4>3. v * x <= m * x /\ v * x \in Nat /\ m * x \in Nat
        BY <2>4, <2>5, Products
      <4> QED
        BY <2>4, <2>5, <4>1, <4>2, <4>3
    <3>2. CASE n + 1 \notin SentInMonth(t)'
      <4>1. Unsettled(t)' = Unsettled(t)
        <5>1. ASSUME NEW e \in Callers
              PROVE  Calling(e)' /\ call'[e].attempt \in SentInMonth(t)'
                        <=> Calling(e) /\ call[e].attempt \in SentInMonth(t)
          <6>1. CASE e = c
            BY <1>2, <3>2, <6>1
          <6>2. CASE e # c
            <7>1. call'[e] = call[e] /\ (Calling(e)' <=> Calling(e))
              BY <1>2, <6>2 DEF Calling
            <7> QED
              BY <2>1, <3>2, <7>1
          <6> QED
            BY <6>1, <6>2
        <5> QED
          BY <5>1 DEF Unsettled
      <4>2. T = S + 0
        BY <2>3, <3>2
      <4>3. v = u
        BY <4>1
      <4> HIDE DEF S, T, u, v, x, b, m
      <4> QED
        BY <2>4, <2>6, <4>2, <4>3
    <3> QED
      BY <3>1, <3>2
  <2> QED
    BY <2>7
<1>8. BudgetAlways'
  BY <1>7 DEF BudgetAlways
<1> QED
  BY <1>2, <1>3, <1>8 DEF BudgetInv

\* What an attempt turns out to cost keeps both bounds: the call is not in flight any more.
LEMMA BoundsAfterSettle ==
    ASSUME BudgetInv, NEW c \in Callers, NEW cost \in Nat, NEW next \in Resting \union Busy,
           next.doing \in {"idle", "stamped"}, next.at <= instant, SettleAttempt(c, cost, next),
           cost <= Estimate + Excess
    PROVE  BudgetInv'
<1> DEFINE k == call[c].attempt
           n == Len(sent)
<1>1. LedgerInv /\ CeilingsAlways /\ BudgetAlways /\ BudgetTypeOK
  BY DEF BudgetInv, LedgerInv
<1>2. /\ LedgerInv' /\ k \in 1..n /\ Len(sent') = n /\ sent[k].cost = Estimate
      /\ \A j \in 1..n : /\ sent'[j].at = sent[j].at /\ sent'[j].reserved = sent[j].reserved
                         /\ sent'[j].cost = IF j = k THEN cost ELSE sent[j].cost
      /\ \A e \in Callers : Calling(e)' <=> Calling(e) /\ e # c
      /\ \A e \in Callers : e # c => call'[e] = call[e]
  BY <1>1, SettleKeeps
<1>3. BudgetTypeOK'
  BY <1>2 DEF LedgerInv
<1>4. \A t \in Nat : /\ SentInMonth(t)' = SentInMonth(t)
                     /\ SentIn(t, Hour)' = SentIn(t, Hour) /\ SentIn(t, Day)' = SentIn(t, Day)
  BY <1>1, <1>2, <1>3, SentInUnchanged
<1>5. CeilingsAlways'
  BY <1>1, <1>4 DEF CeilingsAlways
<1>6. Calling(c)
  BY DEF SettleAttempt, Calling
<1>7. n \in Nat /\ \A j \in 1..n : sent[j].cost \in Nat
  BY <1>1, BudgetTypes
<1>8. ASSUME NEW t \in Nat
      PROVE  (Spend(sent, SentInMonth(t)) + Cardinality(Unsettled(t)) * Excess
                     <= MonthlyBudget + Cardinality(Callers) * Excess)'
  <2> DEFINE S == Spend(sent, SentInMonth(t))
             T == Spend(sent', SentInMonth(t))
             u == Cardinality(Unsettled(t))
             v == Cardinality(Unsettled(t)')
             x == Excess  b == MonthlyBudget  m == Cardinality(Callers)
  <2>1. /\ S \in Nat /\ u \in Nat /\ x \in Nat /\ b \in Nat /\ m \in Nat /\ Estimate \in Nat
        /\ IsFiniteSet(Unsettled(t))
    BY <1>1, BoundTypes
  <2>2. SentInMonth(t)' = SentInMonth(t)
    BY <1>4
  <2>3. T \in Nat /\ v \in Nat
    <3>1. \A j \in 1..n : sent'[j].cost \in Nat
      BY <1>2, <1>7
    <3>2. T \in Nat
      BY <1>2, <1>7, <3>1, SpendType
    <3>3. Unsettled(t)' \in SUBSET Callers
      BY DEF Unsettled
    <3> QED
      BY <3>2, <3>3, CallersCounted
  <2>4. T <= S + (IF k \in SentInMonth(t) THEN x ELSE 0)
    <3>1. \A j \in 1..n : /\ sent[j].cost \in Nat /\ sent'[j].cost \in Nat
                          /\ j # k => sent'[j].cost = sent[j].cost
      BY <1>2, <1>7
    <3>2. sent'[k].cost <= sent[k].cost + x
      BY <1>2
    <3> HIDE DEF x, k
    <3> QED
      BY <1>2, <1>7, <2>1, <3>1, <3>2, SpendGrows
  <2>5. Unsettled(t)' = Unsettled(t) \ {c}
    BY <1>2, <2>2 DEF Unsettled
  <2>6. c \in Unsettled(t) <=> k \in SentInMonth(t)
    BY <1>6 DEF Unsettled
  <2>7. v = IF k \in SentInMonth(t) THEN u - 1 ELSE u
    BY <2>1, <2>5, <2>6, FS_RemoveElement
  <2>8. S + u * x <= b + m * x
    BY <1>1 DEF BudgetAlways
  <2>9. T + v * x <= b + m * x
    <3> HIDE DEF S, T, u, v, x, b, m
    <3>1. CASE k \in SentInMonth(t)
      <4>1. u = v + 1 /\ T <= S + x
        BY <2>1, <2>3, <2>4, <2>7, <3>1
      <4>2. u * x = v * x + x /\ v * x \in Nat /\ m * x \in Nat
        BY <2>1, <2>3, <4>1, Products
      <4> QED
        BY <2>1, <2>3, <2>8, <4>1, <4>2
    <3>2. CASE k \notin SentInMonth(t)
      <4>1. u = v /\ T <= S
        BY <2>1, <2>3, <2>4, <2>7, <3>2
      <4>2. u * x \in Nat /\ m * x \in Nat
        BY <2>1, Products
      <4> QED
        BY <2>1, <2>3, <2>8, <4>1, <4>2
    <3> QED
      BY <3>1, <3>2
  <2> QED
    BY <2>2, <2>9
<1>9. BudgetAlways'
  BY <1>8 DEF BudgetAlways
<1> QED
  BY <1>2, <1>5, <1>9 DEF BudgetInv
-----------------------------------------------------------------------------
\* The invariant of the ceilings holds before the first request.
LEMMA BudgetStarts == ASSUME BudgetInit PROVE BudgetInv
<1>1. sent = <<>> /\ call = [c \in Callers |-> AtRest]
  BY DEF BudgetInit
<1>2. LedgerInv /\ BudgetTypeOK
  BY LedgerStarts DEF LedgerInv
<1>3. \A t \in Nat : SentInMonth(t) = {} /\ SentIn(t, Hour) = {} /\ SentIn(t, Day) = {} /\ Unsettled(t) = {}
  BY <1>1 DEF SentInMonth, SentIn, Unsettled
<1>4. CeilingsAlways
  BY <1>3, BudgetConstants, FS_EmptySet DEF CeilingsAlways
<1>5. Spend(sent, {}) = 0
  <2>1. Len(sent) = 0 /\ Len(sent) \in Nat /\ \A j \in 1..Len(sent) : sent[j].cost \in Nat
    BY <1>1
  <2>2. PICK f : Runs(f, Weights(sent, {}), Len(sent)) /\ Spend(sent, {}) = f[Len(sent)]
    BY <2>1, SpendRuns
  <2> QED
    BY <2>1, <2>2 DEF Runs
<1>6. ASSUME NEW t \in Nat
      PROVE  Spend(sent, SentInMonth(t)) + Cardinality(Unsettled(t)) * Excess
                     <= MonthlyBudget + Cardinality(Callers) * Excess
  <2>1. Cardinality(Unsettled(t)) = 0
    BY <1>3, FS_EmptySet
  <2>2. Cardinality(Callers) \in Nat /\ Excess \in Nat /\ MonthlyBudget \in Nat
    BY <1>2, BoundTypes
  <2>3. Cardinality(Callers) * Excess \in Nat /\ 0 * Excess = 0
    BY <2>2
  <2>4. Spend(sent, SentInMonth(t)) = 0
    BY <1>3, <1>5
  <2> DEFINE room == Cardinality(Callers) * Excess
  <2>5. Cardinality(Unsettled(t)) * Excess = 0 /\ room \in Nat
    BY <2>1, <2>3
  <2> HIDE DEF room
  <2>6. 0 + 0 <= MonthlyBudget + room
    BY <2>2, <2>5
  <2> QED
    BY <2>4, <2>5, <2>6 DEF room
<1> QED
  BY <1>2, <1>4, <1>6 DEF BudgetInv, BudgetAlways

\* Every attempt, answer and tick of the clock keeps it.
LEMMA BudgetSteps == ASSUME BudgetInv, [BudgetNext]_budgetVars PROVE BudgetInv'
<1>1. LedgerInv /\ CeilingsAlways /\ BudgetAlways /\ BudgetTypeOK
  BY DEF BudgetInv, LedgerInv
<1>2. /\ instant \in Nat /\ entries \in Seq(LedgerEntry) /\ call \in [Callers -> Resting \union Busy]
      /\ \A e \in Callers : call[e].at \in Nat /\ call[e].at <= instant
  BY <1>1, BudgetTypes DEF LedgerInv, Timely
<1>3. AtRest \in Resting /\ AtRest.doing = "idle" /\ AtRest.at = 0
  BY DEF AtRest, Resting
\* Steps that only set a call to rest.
<1>4. ASSUME NEW c \in Callers, call' = [call EXCEPT ![c] = AtRest], UNCHANGED <<instant, sent>>,
             LedgerKeepsMonth', entries' \in Seq(LedgerEntry)
      PROVE  BudgetInv'
  <2>1. LedgerInv' /\ BudgetTypeOK'
    <3>1. LedgerInv' => BudgetTypeOK'
      BY DEF LedgerInv
    <3> QED
      BY <1>1, <1>4, <3>1, CallEnds
  <2>2. \A e \in Callers : Calling(e)' => Calling(e) /\ call'[e].attempt = call[e].attempt
    BY <1>2, <1>3, <1>4 DEF Calling
  <2>3. sent' = sent
    BY <1>4
  <2> QED
    BY <1>1, <2>1, <2>2, <2>3, BoundsStay DEF BudgetInv
<1>5. CASE UNCHANGED budgetVars
  <2>1. LedgerInv' /\ BudgetTypeOK'
    BY <1>1, <1>5 DEF budgetVars, LedgerInv, BudgetTypeOK, Timely, LedgerKeepsMonth, EntriesAfter,
                      OverUpTo, InFlight, Calling, SettledWithinMonth
  <2>2. sent' = sent /\ \A e \in Callers : Calling(e)' => Calling(e) /\ call'[e].attempt = call[e].attempt
    BY <1>5 DEF budgetVars, Calling
  <2> QED
    BY <1>1, <2>1, <2>2, BoundsStay DEF BudgetInv
<1>6. ASSUME NEW c \in Callers, Stamp(c)
      PROVE  BudgetInv'
  <2> DEFINE s == [at |-> instant, attempt |-> 0, retries |-> 0, doing |-> "stamped"]
  <2>1. s \in Busy /\ s.doing = "stamped" /\ s.at = instant
    BY <1>2 DEF Busy
  <2>2. call' = [call EXCEPT ![c] = s] /\ UNCHANGED <<instant, entries, sent>>
    BY <1>6 DEF Stamp
  <2> HIDE DEF s
  <2>3. \A e \in Callers : call'[e] = IF e = c THEN s ELSE call[e]
    BY <1>2, <2>2
  <2>4. BudgetTypeOK'
    BY <1>1, <1>2, <2>1, <2>2 DEF BudgetTypeOK
  <2>5. Timely' /\ LedgerKeepsMonth'
    <3>1. \A e \in Callers : call'[e].at <= instant
      BY <1>2, <2>1, <2>3
    <3>2. Timely'
      BY <1>1, <2>2, <3>1 DEF LedgerInv, Timely
    <3>3. LedgerKeepsMonth'
      BY <1>1, <2>2 DEF LedgerInv, LedgerKeepsMonth, EntriesAfter, OverUpTo
    <3> QED
      BY <3>2, <3>3
  <2>6. InFlight' /\ SettledWithinMonth'
    BY <1>1, <2>1, <2>2, <2>3 DEF LedgerInv, InFlight, Calling, SettledWithinMonth
  <2>7. \A e \in Callers : Calling(e)' => Calling(e) /\ call'[e].attempt = call[e].attempt
    BY <2>1, <2>3 DEF Calling
  <2>8. sent' = sent
    BY <2>2
  <2> QED
    BY <1>1, <2>4, <2>5, <2>6, <2>7, <2>8, BoundsStay DEF BudgetInv, LedgerInv
<1>7. ASSUME NEW c \in Callers, Reserve(c)
      PROVE  BudgetInv'
  BY <1>7, BoundsAfterReserve
<1>8. ASSUME NEW c \in Callers, Ceiling(c)
      PROVE  BudgetInv'
  <2> DEFINE t == call[c].at
  <2>1. entries' = Pruned(t) /\ call' = [call EXCEPT ![c] = AtRest] /\ UNCHANGED <<instant, sent>>
    BY <1>8 DEF Ceiling
  <2>2. PICK d \in 0..Len(sent) : EntriesAfter(Pruned(t), d) /\ OverUpTo(d)
    BY <1>1, <1>2, PrunedKeepsMonth DEF LedgerInv
  <2>3. LedgerKeepsMonth' /\ entries' \in Seq(LedgerEntry)
    <3>1. EntriesAfter(entries, d)' /\ OverUpTo(d)'
      BY <2>1, <2>2 DEF EntriesAfter, OverUpTo
    <3> QED
      BY <2>1, <3>1 DEF LedgerKeepsMonth, EntriesAfter
  <2> QED
    BY <1>4, <2>1, <2>3
<1>9. ASSUME NEW c \in Callers, Answered(c)
      PROVE  BudgetInv'
  <2>1. PICK cost \in Costs : SettleAttempt(c, cost, AtRest)
    BY <1>9 DEF Answered
  <2>2. cost \in Nat /\ cost <= Estimate + Excess
    BY BudgetConstants, ExcessBounds
  <2>3. AtRest \in Resting \union Busy /\ AtRest.doing \in {"idle", "stamped"} /\ AtRest.at <= instant
    BY <1>2, <1>3
  <2> QED
    BY <2>1, <2>2, <2>3, BoundsAfterSettle
<1>10. Estimate \in Nat /\ Estimate <= Estimate + Excess
  BY BudgetConstants, ExcessBounds
<1>11. ASSUME NEW c \in Callers, ProviderFails(c)
       PROVE  BudgetInv'
  <2>1. SettleAttempt(c, Estimate, AtRest)
    BY <1>11 DEF ProviderFails
  <2>2. AtRest \in Resting \union Busy /\ AtRest.doing \in {"idle", "stamped"} /\ AtRest.at <= instant
    BY <1>2, <1>3
  <2> QED
    BY <1>10, <2>1, <2>2, BoundsAfterSettle
<1>12. ASSUME NEW c \in Callers, Retry(c)
       PROVE  BudgetInv'
  <2> DEFINE s == [at |-> instant, attempt |-> 0, retries |-> 1, doing |-> "stamped"]
  <2>1. SettleAttempt(c, Estimate, s)
    BY <1>12 DEF Retry
  <2>2. s \in Resting \union Busy /\ s.doing \in {"idle", "stamped"} /\ s.at <= instant
    BY <1>2 DEF Busy
  <2> HIDE DEF s
  <2> QED
    BY <1>10, <2>1, <2>2, BoundsAfterSettle
<1>13. ASSUME NEW c \in Callers, GiveUp(c)
       PROVE  BudgetInv'
  <2>1. call' = [call EXCEPT ![c] = AtRest] /\ UNCHANGED <<instant, entries, sent>>
    BY <1>13 DEF GiveUp
  <2>2. LedgerKeepsMonth' /\ entries' \in Seq(LedgerEntry)
    BY <1>1, <1>2, <2>1 DEF LedgerInv, LedgerKeepsMonth, EntriesAfter, OverUpTo
  <2> QED
    BY <1>4, <2>1, <2>2
<1>14. CASE ClockTicks
  <2>1. instant' = instant + 1 /\ instant' \in Nat /\ UNCHANGED <<entries, sent, call>>
    BY <1>2, <1>14 DEF ClockTicks
  <2>2. MonthOf(instant) \in Nat /\ MonthOf(instant') \in Nat /\ MonthOf(instant) <= MonthOf(instant')
    BY <1>2, <2>1, Months
  <2>3. BudgetTypeOK' /\ InFlight'
    BY <1>1, <2>1 DEF LedgerInv, BudgetTypeOK, InFlight, Calling
  <2>4. Timely'
    <3>1. \A j \in 1..Len(sent) : sent[j].reserved \in Nat /\ sent[j].at <= sent[j].reserved /\ sent[j].reserved <= instant
      BY <1>1, BudgetTypes DEF LedgerInv, Timely
    <3> QED
      BY <1>2, <2>1, <3>1 DEF Timely
  <2>5. LedgerKeepsMonth'
    <3>1. PICK d \in 0..Len(sent) : EntriesAfter(entries, d) /\ OverUpTo(d)
      BY <1>1 DEF LedgerInv, LedgerKeepsMonth
    <3>2. \A j \in 1..d : MonthOf(sent[j].at) \in Nat
      <4>1. \A j \in 1..d : sent[j].at \in Nat
        BY <1>1, BudgetTypes
      <4> QED
        BY <4>1, Months
    <3>3. OverUpTo(d)'
      BY <2>1, <2>2, <3>1, <3>2 DEF OverUpTo
    <3>4. EntriesAfter(entries, d)'
      BY <2>1, <3>1 DEF EntriesAfter
    <3> QED
      BY <2>1, <3>3, <3>4 DEF LedgerKeepsMonth
  <2>6. SettledWithinMonth'
    <3>1. \A e \in Callers : MonthOf(call[e].at) \in Nat
      BY <1>2, Months
    <3> QED
      BY <1>1, <2>1, <2>2, <3>1 DEF LedgerInv, SettledWithinMonth
  <2>7. sent' = sent /\ \A e \in Callers : Calling(e)' => Calling(e) /\ call'[e].attempt = call[e].attempt
    BY <2>1 DEF Calling
  <2> QED
    BY <1>1, <2>3, <2>4, <2>5, <2>6, <2>7, BoundsStay DEF BudgetInv, LedgerInv
<1> QED
  BY <1>5, <1>6, <1>7, <1>8, <1>9, <1>11, <1>12, <1>13, <1>14 DEF BudgetNext

\* The invariant gives what the runs check.
LEMMA BudgetInvGives ==
    ASSUME BudgetInv PROVE BudgetTypeOK /\ CeilingsHold /\ OverrunBounded /\ SettledWithinMonth
<1>1. BudgetTypeOK /\ CeilingsAlways /\ BudgetAlways /\ SettledWithinMonth /\ instant \in Nat
  BY DEF BudgetInv, LedgerInv, BudgetTypeOK
<1>2. \A t \in 0..instant : t \in Nat
  OBVIOUS
<1>3. CeilingsHold
  BY <1>1, <1>2 DEF CeilingsHold, CeilingsAlways
<1>4. ASSUME NEW t \in 0..instant
      PROVE  Spend(sent, SentInMonth(t)) <= MonthlyBudget + Cardinality(Callers) * Excess
  <2> DEFINE S == Spend(sent, SentInMonth(t))
             u == Cardinality(Unsettled(t))
             x == Excess  b == MonthlyBudget  m == Cardinality(Callers)
  <2>1. S \in Nat /\ u \in Nat /\ x \in Nat /\ b \in Nat /\ m \in Nat
    BY <1>1, BoundTypes
  <2>2. S + u * x <= b + m * x
    BY <1>1, <1>2 DEF BudgetAlways
  <2> HIDE DEF S, u, x, b, m
  <2>3. u * x \in Nat /\ m * x \in Nat
    BY <2>1
  <2>4. S <= b + m * x
    BY <2>1, <2>2, <2>3
  <2> QED
    BY <2>4 DEF S, x, b, m
<1> QED
  BY <1>1, <1>3, <1>4 DEF OverrunBounded

\* The budget's variables keep their types, for any number of callers.
THEOREM BudgetTypeCorrect == BudgetSpec => []BudgetTypeOK
<1>1. BudgetInit => BudgetInv
  BY BudgetStarts
<1>2. BudgetInv /\ [BudgetNext]_budgetVars => BudgetInv'
  BY BudgetSteps
<1>3. BudgetInv => BudgetTypeOK
  BY BudgetInvGives
<1> QED
  BY <1>1, <1>2, <1>3, PTL DEF BudgetSpec

\* No hour and no day of one calendar month sees more attempts than its ceiling, however
\* the calls interleave and however late their stamps are (BudgetLedger.reserve).
THEOREM CeilingsRespected == BudgetSpec => []CeilingsHold
<1>1. BudgetInit => BudgetInv
  BY BudgetStarts
<1>2. BudgetInv /\ [BudgetNext]_budgetVars => BudgetInv'
  BY BudgetSteps
<1>3. BudgetInv => CeilingsHold
  BY BudgetInvGives
<1> QED
  BY <1>1, <1>2, <1>3, PTL DEF BudgetSpec

\* A month overruns its budget by no more than what the calls in flight at once can cost
\* beyond their estimates (BudgetLedger.reserve and settle).
THEOREM OverrunHasBound == BudgetSpec => []OverrunBounded
<1>1. BudgetInit => BudgetInv
  BY BudgetStarts
<1>2. BudgetInv /\ [BudgetNext]_budgetVars => BudgetInv'
  BY BudgetSteps
<1>3. BudgetInv => OverrunBounded
  BY BudgetInvGives
<1> QED
  BY <1>1, <1>2, <1>3, PTL DEF BudgetSpec

\* settle misses the entry of its attempt only when the month of the attempt is over.
THEOREM MissedOnlyAfterMonth == BudgetSpec => []SettledWithinMonth
<1>1. BudgetInit => BudgetInv
  BY BudgetStarts
<1>2. BudgetInv /\ [BudgetNext]_budgetVars => BudgetInv'
  BY BudgetSteps
<1>3. BudgetInv => SettledWithinMonth
  BY BudgetInvGives
<1> QED
  BY <1>1, <1>2, <1>3, PTL DEF BudgetSpec
-----------------------------------------------------------------------------
\* THE THREE TOGETHER.  A step of the composition is a step of one service, and the others
\* see it as none.
THEOREM EachServiceAsAlone == ServicesSpec => Spec /\ BudgetSpec /\ BreakerSpec
<1>1. InitServices => Init /\ BudgetInit /\ BreakerInit
  BY DEF InitServices
<1>2. [NextServices]_serviceVars => [Next]_vars /\ [BudgetNext]_budgetVars /\ [BreakerNext]_breakerVars
  <2>1. CASE RegistryStep
    BY <2>1 DEF RegistryStep
  <2>2. CASE BudgetStep
    BY <2>2 DEF BudgetStep
  <2>3. CASE BreakerStep
    BY <2>3 DEF BreakerStep
  <2>4. CASE UNCHANGED serviceVars
    BY <2>4 DEF serviceVars
  <2> QED
    BY <2>1, <2>2, <2>3, <2>4 DEF NextServices
<1> QED
  BY <1>1, <1>2, PTL DEF ServicesSpec, Spec, BudgetSpec, BreakerSpec

\* Every variable of the three services keeps its type in the composition that TLC explores.
THEOREM ServicesTypeCorrect == ServicesSpec => []TypesOK
<1>1. TypesOK <=> TypeOK /\ BudgetTypeOK /\ BreakerTypeOK
  BY DEF TypesOK
<1> QED
  BY <1>1, EachServiceAsAlone, RegistryTypeCorrect, BudgetTypeCorrect, BreakerTypeCorrect, PTL
=============================================================================
