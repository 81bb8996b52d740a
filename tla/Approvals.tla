------------------------------ MODULE Approvals ------------------------------
(***************************************************************************)
(* services/approvals.py over the table of registry.py's adapter: the      *)
(* requests of maker-checker, their expiry and the notice it owes the      *)
(* maker.  What a decision applies, and when it commits, is the business   *)
(* of the service that composes these operations.                          *)
(***************************************************************************)
EXTENDS Naturals, Sequences

CONSTANTS Users,     \* people who may propose and approve
          NoOne,     \* a column that names nobody
          Window,    \* expiry_window, in ticks of the clock
          MaxClock   \* bound: how far the clock runs

ASSUME ApprovalsAssumption ==
    /\ NoOne \notin Users
    /\ Window \in Nat \ {0}
    /\ MaxClock \in Nat

VARIABLES
    clock,      \* the service's clock
    requests,   \* rows of maker_checker_request, in order of creation
    notices     \* expiry notices queued for the maker of each request

PENDING == "pending"
APPROVED == "approved"
REJECTED == "rejected"
EXPIRED == "expired"
RequestStates == {PENDING, APPROVED, REJECTED, EXPIRED}

\* ApprovalService.submit with the control enabled: one pending row.
Submitted(operation, subject, maker) ==
    Append(requests, [operation |-> operation, subject |-> subject, maker |-> maker,
                      checker |-> NoOne, state |-> PENDING, created |-> clock])

Submit(operation, subject, maker) ==
    /\ requests' = Submitted(operation, subject, maker)
    /\ notices' = Append(notices, 0)

Due(i) == clock >= requests[i].created + Window

DecidableByAnyone(i, u) == requests[i].state = PENDING /\ u \in Users

\* The tests of decide, in their order, up to the expiry.
Decidable(i, u) == requests[i].state = PENDING /\ requests[i].maker # u

\* repository.decide: the row takes its final state.
Decide(i, u, outcome) ==
    /\ requests' = [requests EXCEPT ![i].state = outcome, ![i].checker = u]
    /\ UNCHANGED notices

\* _expire_locked of each request of a set: the state, and a notice to the maker.
Expire(S) ==
    /\ requests' = [i \in DOMAIN requests |->
                      IF i \in S THEN [requests[i] EXCEPT !.state = EXPIRED] ELSE requests[i]]
    /\ notices' = [i \in DOMAIN notices |-> IF i \in S THEN notices[i] + 1 ELSE notices[i]]

DueForEver(u) ==
    {i \in DOMAIN requests : requests[i].state \in {PENDING, EXPIRED} /\ requests[i].maker # u /\ Due(i)}

\* What list_pending finds to expire when u opens the queue.
DueFor(u) == {i \in DOMAIN requests : Decidable(i, u) /\ Due(i)}

\* Time passes; nothing in the process waits on it.
Tick == clock < MaxClock /\ clock' = clock + 1

ApprovalsInit == clock = 1 /\ requests = <<>> /\ notices = <<>>
=============================================================================
