----------------------------- MODULE CallBudget -----------------------------
(***************************************************************************)
(* ai/budget.py as ai/client.py:345-490 uses it: the ceilings on model     *)
(* calls of one process.  A call reads the clock, and then under the       *)
(* ledger's lock drops what is older than its month, tests the ceilings    *)
(* and appends its entry; when the provider has answered it settles what   *)
(* the attempt cost.  Requests call from threads of their own.             *)
(***************************************************************************)
EXTENDS Naturals, Sequences, FiniteSets

CONSTANTS Callers,                  \* threads that call the model
          Hour, Day, Month,         \* lengths, in ticks of the clock
          PerHour, PerDay,          \* calls_per_hour, calls_per_day
          MonthlyBudget, Estimate,  \* monthly_budget, and the cost a call reserves
          Costs,                    \* what a provider may charge for an attempt
          MaxInstant, MaxSent       \* bounds: ticks, and attempts made

ASSUME BudgetAssumption ==
    /\ {Hour, Day, Month, PerHour, PerDay} \subseteq Nat \ {0}
    /\ Hour <= Day
    /\ {MonthlyBudget, Estimate, MaxInstant, MaxSent} \subseteq Nat
    /\ Costs \subseteq Nat
    /\ IsFiniteSet(Costs) /\ IsFiniteSet(Callers)

VARIABLES
    instant,   \* the clock
    entries,   \* BudgetLedger._entries: which attempt, its instant and its cost
    sent,      \* every attempt that went out: its stamp, when it was reserved, its cost
    call       \* what each caller is doing

budgetVars == <<instant, entries, sent, call>>

Resting  == [at : {0}, attempt : {0}, retries : {0}, doing : {"idle"}]
Busy     == [at : Nat, attempt : Nat, retries : 0..1, doing : {"stamped", "calling", "unsettled"}]
AtRest   == [at |-> 0, attempt |-> 0, retries |-> 0, doing |-> "idle"]

BudgetTypeOK ==
    /\ instant \in Nat
    /\ entries \in Seq([attempt : Nat, at : Nat, cost : Nat])
    /\ sent \in Seq([at : Nat, reserved : Nat, cost : Nat])
    /\ call \in [Callers -> Resting \union Busy]

MonthOf(t) == t \div Month

PrunedToDay(t) == SelectSeq(entries, LAMBDA e : e.at + Day > t)

\* _prune: the entries at the head that are older than the month of t.
Pruned(t) ==
    LET old(e) == e.at < MonthOf(t) * Month
        keep   == {n \in 0..Len(entries) : \A i \in 1..n : old(entries[i])}
        drop   == CHOOSE n \in keep : \A m \in keep : m <= n
    IN  SubSeq(entries, drop + 1, Len(entries))

InClosedWindow(rows, t, length) ==
    {i \in DOMAIN rows : rows[i].at <= t /\ rows[i].at + length > t}

\* _entries_in_window: what occurred after t - length, with no upper end.
InWindow(rows, t, length) == {i \in DOMAIN rows : rows[i].at + length > t}
InMonth(rows, t) == {i \in DOMAIN rows : MonthOf(rows[i].at) = MonthOf(t)}

\* The sum of the costs of some entries.
Spend(rows, S) ==
    LET upTo[i \in 0..Len(rows)] ==
            IF i = 0 THEN 0 ELSE upTo[i - 1] + (IF i \in S THEN rows[i].cost ELSE 0)
    IN  upTo[Len(rows)]

\* The three ceilings, in the order they are tested.
Permitted(rows, t) ==
    /\ Cardinality(InWindow(rows, t, Hour)) < PerHour
    /\ Cardinality(InWindow(rows, t, Day)) < PerDay
    /\ Spend(rows, InMonth(rows, t)) + Estimate <= MonthlyBudget
-----------------------------------------------------------------------------
\* A call begins: reserve reads the clock before it takes the lock.
Stamp(c) ==
    /\ call[c].doing = "idle" /\ Len(sent) < MaxSent
    /\ call' = [call EXCEPT ![c] = [at |-> instant, attempt |-> 0, retries |-> 0, doing |-> "stamped"]]
    /\ UNCHANGED <<instant, entries, sent>>

ReserveUnpriced(c) ==
    LET t == call[c].at
        rows == Pruned(t)
    IN  /\ call[c].doing = "stamped" /\ Len(sent) < MaxSent
        /\ Permitted(rows, t)
        /\ sent' = Append(sent, [at |-> t, reserved |-> instant, cost |-> Estimate])
        /\ entries' = Append(rows, [attempt |-> Len(sent) + 1, at |-> t, cost |-> 0])
        /\ call' = [call EXCEPT ![c].attempt = Len(sent) + 1, ![c].doing = "calling"]
        /\ UNCHANGED instant

\* reserve: the attempt has its entry and goes out.
Reserve(c) ==
    LET t == call[c].at
        rows == Pruned(t)
    IN  /\ call[c].doing = "stamped" /\ Len(sent) < MaxSent
        /\ Permitted(rows, t)
        /\ sent' = Append(sent, [at |-> t, reserved |-> instant, cost |-> Estimate])
        /\ entries' = Append(rows, [attempt |-> Len(sent) + 1, at |-> t, cost |-> Estimate])
        /\ call' = [call EXCEPT ![c].attempt = Len(sent) + 1, ![c].doing = "calling"]
        /\ UNCHANGED instant

\* CeilingReached ends the call; the pruning stays.
Ceiling(c) ==
    LET t == call[c].at IN
    /\ call[c].doing = "stamped"
    /\ ~Permitted(Pruned(t), t)
    /\ entries' = Pruned(t)
    /\ call' = [call EXCEPT ![c] = AtRest]
    /\ UNCHANGED <<instant, sent>>

\* settle finds the attempt's entry, or raises ValueError and the call ends unsettled.
SettleAttempt(c, cost, next) ==
    LET own == {i \in DOMAIN entries : entries[i].attempt = call[c].attempt} IN
    /\ call[c].doing = "calling"
    /\ entries' = [i \in DOMAIN entries |->
                     IF i \in own THEN [entries[i] EXCEPT !.cost = cost] ELSE entries[i]]
    /\ sent' = [sent EXCEPT ![call[c].attempt].cost = cost]
    /\ call' = [call EXCEPT ![c] = IF own = {} THEN [@ EXCEPT !.doing = "unsettled"] ELSE next]
    /\ UNCHANGED instant

\* The provider answers, and the attempt costs what it charged.
Answered(c) == \E cost \in Costs : SettleAttempt(c, cost, AtRest)

\* The provider fails: the estimate stands, and a retryable failure is tried again once.
ProviderFails(c) == SettleAttempt(c, Estimate, AtRest)

RetryUncounted(c) ==
    SettleAttempt(c, Estimate, [at |-> instant, attempt |-> 0, doing |-> "stamped",
                                retries |-> call[c].retries + 1])

Retry(c) ==
    /\ call[c].retries = 0
    /\ SettleAttempt(c, Estimate, [at |-> instant, attempt |-> 0, retries |-> 1, doing |-> "stamped"])

\* The ValueError has reached the caller's caller.
GiveUp(c) ==
    /\ call[c].doing = "unsettled"
    /\ call' = [call EXCEPT ![c] = AtRest]
    /\ UNCHANGED <<instant, entries, sent>>

ClockTicks ==
    /\ instant < MaxInstant
    /\ instant' = instant + 1
    /\ UNCHANGED <<entries, sent, call>>

BudgetInit ==
    /\ instant = 0 /\ entries = <<>> /\ sent = <<>>
    /\ call = [c \in Callers |-> AtRest]

BudgetNext ==
    \/ \E c \in Callers : \/ Stamp(c) \/ Reserve(c) \/ Ceiling(c)
                          \/ Answered(c) \/ ProviderFails(c) \/ Retry(c) \/ GiveUp(c)
    \/ ClockTicks

BudgetSpec == BudgetInit /\ [][BudgetNext]_budgetVars
-----------------------------------------------------------------------------
\* Attempts stamped and reserved in one calendar month, and those of a rolling window.
SentInMonth(t) ==
    {i \in DOMAIN sent : MonthOf(sent[i].at) = MonthOf(t) /\ MonthOf(sent[i].reserved) = MonthOf(t)}
SentIn(t, length) == {i \in SentInMonth(t) : sent[i].at <= t /\ sent[i].at + length > t}

\* T7 (spec.md:1033): however calls, retries and late stamps interleave, no hour and no
\* day of one calendar month sees more attempts than its ceiling.
CeilingsHold ==
    \A t \in 0..instant : /\ Cardinality(SentIn(t, Hour)) <= PerHour
                          /\ Cardinality(SentIn(t, Day)) <= PerDay

\* What one attempt may cost beyond the estimate its reservation put aside.
Excess ==
    LET over == {0} \union {x - Estimate : x \in {y \in Costs : y > Estimate}}
    IN  CHOOSE x \in over : \A y \in over : y <= x

\* Calls whose cost is known only afterwards overrun a month's budget by no more than
\* the calls in flight can: an overrun closes the ledger to the next (budget.py:213-226).
OverrunBounded ==
    \A t \in 0..instant :
        Spend(sent, SentInMonth(t)) <= MonthlyBudget + Cardinality(Callers) * Excess

\* settle misses its entry only when the month of the attempt was over (budget.py:283).
SettledWithinMonth ==
    \A c \in Callers : call[c].doing = "unsettled" => MonthOf(call[c].at) < MonthOf(instant)
=============================================================================
