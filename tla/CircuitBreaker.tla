--------------------------- MODULE CircuitBreaker ---------------------------
(***************************************************************************)
(* DatabaseCircuitBreaker of db/session.py, and the calls that run under   *)
(* it: check_database_connection and SqlAlchemyUnitOfWork.__enter__, each  *)
(* a few tries at a connection.  The lock covers a call's admission and    *)
(* the report of its outcome, not the tries between them: outcomes come in *)
(* late, and out of the order the calls were admitted in.                  *)
(***************************************************************************)
EXTENDS Naturals

CONSTANTS Threads,    \* threads that share the breaker
          Threshold,  \* failure_threshold
          Recovery,   \* recovery_timeout_seconds, in ticks
          Tries       \* retry_attempts

ASSUME BreakerAssumption == {Threshold, Recovery, Tries} \subseteq Nat \ {0}

VARIABLES
    state,      \* _state
    failures,   \* _consecutive_failures; what exceeds the threshold is not told apart
    age,        \* time since _opened_at, up to the recovery timeout
    attempt,    \* what each thread's call is doing, and the tries it has left
    up          \* whether the database answers

breakerVars == <<state, failures, age, attempt, up>>

CLOSED == "closed"
OPEN == "open"
HALF_OPEN == "half_open"

BreakerTypeOK ==
    /\ state \in {CLOSED, OPEN, HALF_OPEN}
    /\ failures \in 0..Threshold
    /\ age \in 0..Recovery
    /\ attempt \in [Threads -> [at : {"out", "trying", "ok", "failed"}, left : 0..Tries]]
    /\ up \in BOOLEAN

Outside == [at |-> "out", left |-> 0]

\* _resolve_state
Resolved == IF state = OPEN /\ age >= Recovery THEN HALF_OPEN ELSE state
-----------------------------------------------------------------------------
AdmitClosing(t) ==
    /\ attempt[t].at = "out" /\ Resolved # OPEN
    /\ state' = CLOSED
    /\ attempt' = [attempt EXCEPT ![t] = [at |-> "trying", left |-> Tries]]
    /\ UNCHANGED <<failures, age, up>>

\* call: admitted unless the circuit is open.  A refused call changes nothing.
Admit(t) ==
    /\ attempt[t].at = "out" /\ Resolved # OPEN
    /\ state' = Resolved
    /\ attempt' = [attempt EXCEPT ![t] = [at |-> "trying", left |-> Tries]]
    /\ UNCHANGED <<failures, age, up>>

\* One try at a connection; the last one that fails is the call's outcome.
Try(t) ==
    /\ attempt[t].at = "trying"
    /\ attempt' = [attempt EXCEPT ![t] =
         CASE up -> [at |-> "ok", left |-> 0]
           [] ~up /\ attempt[t].left > 1 -> [attempt[t] EXCEPT !.left = @ - 1]
           [] OTHER -> [at |-> "failed", left |-> 0]]
    /\ UNCHANGED <<state, failures, age, up>>

OnSuccessCounting(t) ==
    /\ attempt[t].at = "ok"
    /\ failures' = 0 /\ age' = 0
    /\ attempt' = [attempt EXCEPT ![t] = Outside]
    /\ UNCHANGED <<state, up>>

\* _on_success
OnSuccess(t) ==
    /\ attempt[t].at = "ok"
    /\ state' = CLOSED /\ failures' = 0 /\ age' = 0
    /\ attempt' = [attempt EXCEPT ![t] = Outside]
    /\ UNCHANGED up

OnFailurePastThreshold(t) ==
    /\ attempt[t].at = "failed"
    /\ failures' = IF failures < Threshold THEN failures + 1 ELSE failures
    /\ IF state = HALF_OPEN \/ failures >= Threshold
       THEN state' = OPEN /\ age' = 0
       ELSE UNCHANGED <<state, age>>
    /\ attempt' = [attempt EXCEPT ![t] = Outside]
    /\ UNCHANGED up

\* _on_failure: in the half-open state one failure is enough.
OnFailure(t) ==
    /\ attempt[t].at = "failed"
    /\ failures' = IF failures < Threshold THEN failures + 1 ELSE failures
    /\ IF state = HALF_OPEN \/ failures + 1 >= Threshold
       THEN state' = OPEN /\ age' = 0
       ELSE UNCHANGED <<state, age>>
    /\ attempt' = [attempt EXCEPT ![t] = Outside]
    /\ UNCHANGED up

\* Time passes for an open circuit.
Wait ==
    /\ state = OPEN /\ age < Recovery
    /\ age' = age + 1
    /\ UNCHANGED <<state, failures, attempt, up>>

\* The database fails or comes back.
DatabaseChanges == up' = ~up /\ UNCHANGED <<state, failures, age, attempt>>

BreakerInit ==
    /\ state = CLOSED /\ failures = 0 /\ age = 0
    /\ attempt = [t \in Threads |-> Outside]
    /\ up \in BOOLEAN

Report(t) == OnSuccess(t) \/ OnFailure(t)

BreakerNext ==
    \/ \E t \in Threads : Admit(t) \/ Try(t) \/ Report(t)
    \/ Wait
    \/ DatabaseChanges

BreakerSpec == BreakerInit /\ [][BreakerNext]_breakerVars
-----------------------------------------------------------------------------
\* "once config.failure_threshold is reached the circuit opens" (session.py:125): with
\* any number of calls in flight, the circuit is closed exactly as long as fewer than
\* that many have failed since the last success.
OpenAtThreshold == state = CLOSED <=> failures < Threshold
=============================================================================
