------------------------------ MODULE Registry ------------------------------
(***************************************************************************)
(* services/registry.py with maker-checker on, as the application composes *)
(* it (web/application.py:305), on PostgreSQL: covenants, their versions   *)
(* and their waivers, each change proposed by one person and applied by    *)
(* the decision of another.  A request is one transaction (web/application *)
(* .py:220): its handler runs on one worker process and what it flushed    *)
(* commits after it, also when it answered a DomainError.  decide locks    *)
(* the request's row but no row of a covenant, so what an approval reads   *)
(* may have changed when it writes; a handler that writes what no other    *)
(* transaction can touch meanwhile is one step.                            *)
(***************************************************************************)
EXTENDS Approvals

CONSTANTS Workers,     \* server processes
          Covenants,   \* references a covenant may be registered under
          Days,        \* the dates terms may begin or end on
          Forever,     \* effective_to is null: later than every date
          MaxRequests  \* bound: requests made

ASSUME RegistryAssumption ==
    /\ Days \subseteq Nat
    /\ Forever \in Nat /\ \A d \in Days : d < Forever
    /\ MaxRequests \in Nat

VARIABLES
    active,    \* Covenant.is_active, or "absent" before registration
    versions,  \* rows of covenant_version of each covenant, by version_no
    waivers,   \* rows of covenant_waiver of each covenant
    cure,      \* whether a test of the covenant has an open cure window
    tx         \* what each worker's transaction has read and not yet written

registryVars == <<active, versions, waivers, cure, tx>>
vars == <<clock, requests, notices, active, versions, waivers, cure, tx>>

REGISTRATION == "registration"
AMENDMENT == "amendment"
WAIVER == "waiver"
RETIREMENT == "retirement"
Operations == {REGISTRATION, AMENDMENT, WAIVER, RETIREMENT}

DRAFT == "draft"
PENDING_APPROVAL == "pending_approval"
LIVE == "live"
SUPERSEDED == "superseded"
RETIRED == "retired"
Staged == {DRAFT, PENDING_APPROVAL}
Status == Staged \union {LIVE, SUPERSEDED, RETIRED}

Person  == Users \union {NoOne}
Version == [from : Days, to : Days \union {Forever}, status : Status, maker : Users, approver : Person]
Waiver  == [state : {"requested", APPROVED, REJECTED}, maker : Users, approver : Person]
Subject == [covenant : Covenants, number : Nat]
Request == [operation : Operations, subject : Subject, maker : Users, checker : Person,
            state : RequestStates, created : Nat]

Idle      == [kind |-> "idle"]
Retiring  == [kind : {"retiring"}, user : Users, subject : Subject]
Approving == [kind : {"approving"}, user : Users, request : Nat, current : Nat]

TypeOK ==
    /\ clock \in Nat
    /\ requests \in Seq(Request)
    /\ notices \in Seq(Nat) /\ Len(notices) = Len(requests)
    /\ active \in [Covenants -> {"absent", "active", "inactive"}]
    /\ versions \in [Covenants -> Seq(Version)]
    /\ waivers \in [Covenants -> Seq(Waiver)]
    /\ cure \in [Covenants -> BOOLEAN]
    /\ tx \in [Workers -> {Idle} \union Retiring \union Approving]
-----------------------------------------------------------------------------
Last(c)  == Len(versions[c])
About(c, n) == [covenant |-> c, number |-> n]
Staging(f, t, st, u) == [from |-> f, to |-> t, status |-> st, maker |-> u, approver |-> NoOne]

LiveVersions(c) == {n \in DOMAIN versions[c] : versions[c][n].status = LIVE}

\* The rows decide has locked in transactions still open.
NothingLocked == {}

Locked == {tx[w].request : w \in {v \in Workers : tx[v].kind = "approving"}}

\* A range of dates excludes its end.
Covers(v, d) == v.from <= d /\ d < v.to
Overlap(f, t, v) == f < v.to /\ v.from < t

\* live_at: the versions in force on a date, of those with status live.
LiveAt(c, d) == {n \in LiveVersions(c) : Covers(versions[c][n], d)}

MayAsk == Len(requests) < MaxRequests
-----------------------------------------------------------------------------
\* register: a covenant with a draft as version 1, and its approval request.
Register(w, u, c, f, t) ==
    /\ tx[w] = Idle /\ MayAsk
    /\ active[c] = "absent" /\ f < t
    /\ active' = [active EXCEPT ![c] = "active"]
    /\ versions' = [versions EXCEPT ![c] = <<Staging(f, t, DRAFT, u)>>]
    /\ Submit(REGISTRATION, About(c, 1), u)
    /\ UNCHANGED <<clock, waivers, cure, tx>>

\* _validate_no_overlap, where current is the last version.
NoOverlap(c, current, f, t) ==
    /\ f > versions[c][current].from
    /\ \A n \in DOMAIN versions[c] : n < Last(c) => ~Overlap(f, t, versions[c][n])

\* amend: the next version, pending.  Neither activity nor the date is asked for.
\* UNIQUE (covenant_id, version_no) makes the second of two racing inserts fail.
Amend(w, u, c, f, t) ==
    /\ tx[w] = Idle /\ MayAsk
    /\ \A n \in DOMAIN versions[c] : versions[c][n].status \notin Staged
    /\ \E current \in LiveVersions(c) :
         /\ \A n \in LiveVersions(c) : n <= current
         /\ f < t /\ NoOverlap(c, current, f, t)
         /\ Last(c) = current
    /\ versions' = [versions EXCEPT ![c] = Append(@, Staging(f, t, PENDING_APPROVAL, u))]
    /\ Submit(AMENDMENT, About(c, Last(c) + 1), u)
    /\ UNCHANGED <<clock, active, waivers, cure, tx>>

\* request_waiver asks of the covenant only that it exists.
RequestWaiver(w, u, c) ==
    /\ tx[w] = Idle /\ MayAsk
    /\ active[c] # "absent"
    /\ waivers' = [waivers EXCEPT ![c] =
                     Append(@, [state |-> "requested", maker |-> u, approver |-> NoOne])]
    /\ Submit(WAIVER, About(c, Len(waivers[c]) + 1), u)
    /\ UNCHANGED <<clock, active, versions, cure, tx>>

\* retire reads the live version, the cure state and the pending requests ...
CheckRetirement(w, u, c) ==
    /\ tx[w] = Idle /\ MayAsk
    /\ ~cure[c]
    /\ \A i \in DOMAIN requests :
         ~(/\ requests[i].operation = RETIREMENT /\ requests[i].state = PENDING
           /\ requests[i].subject.covenant = c)
    /\ \E n \in LiveVersions(c) :
         /\ \A m \in LiveVersions(c) : m <= n
         /\ tx' = [tx EXCEPT ![w] = [kind |-> "retiring", user |-> u, subject |-> About(c, n)]]
    /\ UNCHANGED <<clock, requests, notices, active, versions, waivers, cure>>

\* ... and inserts its own, which no constraint keeps from being a second one.
SubmitRetirement(w) ==
    /\ tx[w].kind = "retiring" /\ MayAsk
    /\ Submit(RETIREMENT, tx[w].subject, tx[w].user)
    /\ tx' = [tx EXCEPT ![w] = Idle]
    /\ UNCHANGED <<clock, active, versions, waivers, cure>>
-----------------------------------------------------------------------------
\* A decision that comes too late commits the expiry and answers Conflict.
DecideLate(w, u, i) ==
    /\ tx[w] = Idle /\ i \notin Locked
    /\ Decidable(i, u) /\ Due(i)
    /\ Expire({i})
    /\ UNCHANGED <<clock, registryVars>>

\* A rejection touches nothing of a covenant but a waiver.
Reject(w, u, i) ==
    /\ tx[w] = Idle /\ i \notin Locked
    /\ Decidable(i, u) /\ ~Due(i)
    /\ Decide(i, u, REJECTED)
    /\ LET s == requests[i].subject IN
       waivers' = IF requests[i].operation = WAIVER
                  THEN [waivers EXCEPT ![s.covenant][s.number].state = REJECTED]
                  ELSE waivers
    /\ UNCHANGED <<clock, active, versions, cure, tx>>

\* The waiver's own row is locked too, so its approval is one step.
ApproveWaiver(w, u, i) ==
    /\ tx[w] = Idle /\ i \notin Locked
    /\ Decidable(i, u) /\ ~Due(i) /\ requests[i].operation = WAIVER
    /\ LET s == requests[i].subject IN
       /\ waivers[s.covenant][s.number].state = "requested"
       /\ waivers' = [waivers EXCEPT ![s.covenant][s.number].state = APPROVED,
                                     ![s.covenant][s.number].approver = u]
    /\ Decide(i, u, APPROVED)
    /\ UNCHANGED <<clock, active, versions, cure, tx>>

\* What the callback of an operation asks of the rows it reads.
MayRegister(s) == versions[s.covenant][s.number].status \in Staged

MayAmend(s, current) ==
    LET rows == versions[s.covenant] IN
    /\ rows[s.number].status \in Staged
    /\ LiveVersions(s.covenant) = {current}
    /\ s.number > current /\ rows[s.number].from > rows[current].from

MayRetire(s) ==
    /\ ~cure[s.covenant] /\ active[s.covenant] = "active"
    /\ versions[s.covenant][s.number].status = LIVE

\* An approval has its request's row locked, has read the covenant's rows and has
\* not flushed.  A callback that refuses leaves the request pending.
Approve(w, u, i) ==
    /\ tx[w] = Idle /\ i \notin Locked
    /\ Decidable(i, u) /\ ~Due(i)
    /\ LET s == requests[i].subject IN
       \E current \in 1..Last(s.covenant) :
         /\ \/ requests[i].operation = REGISTRATION /\ current = s.number /\ MayRegister(s)
            \/ requests[i].operation = AMENDMENT    /\ MayAmend(s, current)
            \/ requests[i].operation = RETIREMENT   /\ current = s.number /\ MayRetire(s)
         /\ tx' = [tx EXCEPT ![w] =
                     [kind |-> "approving", user |-> u, request |-> i, current |-> current]]
    /\ UNCHANGED <<clock, requests, notices, active, versions, waivers, cure>>

\* The rest of an approval: its rows written, the request decided, the commit.
Applying(w, operation) ==
    /\ tx[w].kind = "approving" /\ requests[tx[w].request].operation = operation
    /\ Decide(tx[w].request, tx[w].user, APPROVED)
    /\ tx' = [tx EXCEPT ![w] = Idle]
    /\ UNCHANGED <<clock, waivers, cure>>

\* _apply_registration_approval
ApplyRegistration(w) ==
    /\ Applying(w, REGISTRATION)
    /\ LET s == requests[tx[w].request].subject IN
       versions' = [versions EXCEPT ![s.covenant][s.number].status = LIVE,
                                    ![s.covenant][s.number].approver = tx[w].user]
    /\ UNCHANGED active

\* _apply_amendment_approval without the supersession, and with a date that keeps an end.
ApplyAmendmentBeside(w) ==
    /\ Applying(w, AMENDMENT)
    /\ LET s == requests[tx[w].request].subject IN
       versions' = [versions EXCEPT
          ![s.covenant][tx[w].current].to = versions[s.covenant][s.number].from,
          ![s.covenant][s.number].status = LIVE,
          ![s.covenant][s.number].approver = tx[w].user]
    /\ UNCHANGED active

ApplyAmendmentKeepingEnd(w) ==
    /\ Applying(w, AMENDMENT)
    /\ LET s == requests[tx[w].request].subject IN
       versions' = [versions EXCEPT
          ![s.covenant][tx[w].current].to = IF @ = Forever THEN versions[s.covenant][s.number].from
                                                           ELSE @,
          ![s.covenant][tx[w].current].status = SUPERSEDED,
          ![s.covenant][s.number].status = LIVE,
          ![s.covenant][s.number].approver = tx[w].user]
    /\ UNCHANGED active

\* _apply_amendment_approval: the current version is closed, whatever end it had,
\* and superseded at once, whatever the date the new one begins.
ApplyAmendment(w) ==
    /\ Applying(w, AMENDMENT)
    /\ LET s == requests[tx[w].request].subject IN
       versions' = [versions EXCEPT
          ![s.covenant][tx[w].current].to = versions[s.covenant][s.number].from,
          ![s.covenant][tx[w].current].status = SUPERSEDED,
          ![s.covenant][s.number].status = LIVE,
          ![s.covenant][s.number].approver = tx[w].user]
    /\ UNCHANGED active

\* _apply_retirement_approval and _apply_retirement
ApplyRetirement(w) ==
    /\ Applying(w, RETIREMENT)
    /\ LET s == requests[tx[w].request].subject IN
       /\ active' = [active EXCEPT ![s.covenant] = "inactive"]
       /\ versions' = [versions EXCEPT ![s.covenant][s.number].status = RETIRED]

OpenQueueUnlocked(w, u) ==
    /\ tx[w] = Idle
    /\ DueFor(u) # {}
    /\ Expire(DueFor(u))
    /\ UNCHANGED <<clock, registryVars>>

\* pending_approvals: who opens the queue expires what is due in it; it waits for
\* a row that another transaction has locked.
OpenQueue(w, u) ==
    /\ tx[w] = Idle
    /\ DueFor(u) # {} /\ DueFor(u) \intersect Locked = {}
    /\ Expire(DueFor(u))
    /\ UNCHANGED <<clock, registryVars>>
-----------------------------------------------------------------------------
\* The engine's tests open a cure window on a live covenant, and it ends.
CureChanges(c) ==
    /\ cure[c] \/ (active[c] = "active" /\ LiveVersions(c) # {})
    /\ cure' = [cure EXCEPT ![c] = ~@]
    /\ UNCHANGED <<clock, requests, notices, active, versions, waivers, tx>>

\* A worker is lost: the database rolls its transaction back.
Crash(w) ==
    /\ tx[w] # Idle
    /\ tx' = [tx EXCEPT ![w] = Idle]
    /\ UNCHANGED <<clock, requests, notices, active, versions, waivers, cure>>

Elapse == Tick /\ UNCHANGED <<requests, notices, registryVars>>

Init ==
    /\ ApprovalsInit
    /\ active = [c \in Covenants |-> "absent"]
    /\ versions = [c \in Covenants |-> <<>>]
    /\ waivers = [c \in Covenants |-> <<>>]
    /\ cure = [c \in Covenants |-> FALSE]
    /\ tx = [w \in Workers |-> Idle]

Propose(w, u, c) ==
    \/ \E f \in Days, t \in Days \union {Forever} : Register(w, u, c, f, t) \/ Amend(w, u, c, f, t)
    \/ RequestWaiver(w, u, c)
    \/ CheckRetirement(w, u, c)

Settle(w, u, i) ==
    DecideLate(w, u, i) \/ Reject(w, u, i) \/ ApproveWaiver(w, u, i) \/ Approve(w, u, i)

Write(w) == SubmitRetirement(w) \/ ApplyRegistration(w) \/ ApplyAmendment(w) \/ ApplyRetirement(w)

Next ==
    \/ \E w \in Workers : \/ \E u \in Users : \/ \E c \in Covenants : Propose(w, u, c)
                                              \/ \E i \in DOMAIN requests : Settle(w, u, i)
                                              \/ OpenQueue(w, u)
                          \/ Write(w) \/ Crash(w)
    \/ \E c \in Covenants : CureChanges(c)
    \/ Elapse

Spec == Init /\ [][Next]_vars
-----------------------------------------------------------------------------
\* The engine takes the live version of a covenant and refuses to test one that has
\* two (services/engine.py:617): no order of amendments, retirements and approvals on
\* several workers makes a second version live.
OneLive == \A c \in Covenants : \A m, n \in LiveVersions(c) : m = n

\* R-05.d (spec.md:382): terms are in use only by an approved request for exactly that
\* version, decided by somebody other than the user who registered it.
ApprovedByAnother ==
    \A c \in Covenants : \A n \in DOMAIN versions[c] :
        LET v == versions[c][n] IN
        v.status \notin Staged =>
            /\ v.approver # v.maker
            /\ \E i \in DOMAIN requests :
                 /\ requests[i].operation \in {REGISTRATION, AMENDMENT}
                 /\ requests[i].subject = About(c, n)
                 /\ requests[i].state = APPROVED /\ requests[i].checker = v.approver

\* T-031 (tasks.md:825) refuses overlapping effective ranges: no date is covered by two
\* versions that are or were live, though approval rewrites the end of the current one.
RangesDisjoint ==
    \A c \in Covenants : \A m, n \in DOMAIN versions[c] :
        /\ m < n
        /\ versions[c][m].status \in {LIVE, SUPERSEDED}
        /\ versions[c][n].status \in {LIVE, SUPERSEDED}
        => versions[c][m].to <= versions[c][n].from

\* The maker of an expired request is told so, once, whoever and however many opened the
\* queue or tried to decide it; nobody is told of another's (approvals.py:313).
ToldOnce == \A i \in DOMAIN requests : notices[i] = IF requests[i].state = EXPIRED THEN 1 ELSE 0

\* "a prior decision cannot be changed" (approvals.py:159): not by a second checker on
\* another worker, nor by an expiry that found the request pending.
DecisionFinal ==
    [][\A i \in DOMAIN requests : requests[i].state # PENDING => requests'[i] = requests[i]]_vars

\* Whether what a request asks for is there, and by whose decision.
Effective(i) ==
    LET s == requests[i].subject IN
    CASE requests[i].operation \in {REGISTRATION, AMENDMENT} ->
             versions[s.covenant][s.number].approver # NoOne
      [] requests[i].operation = WAIVER -> waivers[s.covenant][s.number].approver # NoOne
      [] OTHER -> requests[i].state = APPROVED /\ active[s.covenant] = "inactive"

EffectiveBy(i) ==
    LET s == requests[i].subject IN
    CASE requests[i].operation \in {REGISTRATION, AMENDMENT} ->
             versions[s.covenant][s.number].approver
      [] requests[i].operation = WAIVER -> waivers[s.covenant][s.number].approver
      [] OTHER -> requests[i].checker

Outcome(i) ==
    CASE Effective(i) /\ requests[i].state = APPROVED -> "effective"
      [] ~Effective(i) /\ requests[i].state = PENDING -> "open"
      [] ~Effective(i) /\ requests[i].state \in {REJECTED, EXPIRED} -> "void"
      [] OTHER -> "inconsistent"

Proposals ==
    [i \in DOMAIN requests |->
        [maker |-> requests[i].maker, outcome |-> Outcome(i),
         by |-> IF Effective(i) THEN EffectiveBy(i) ELSE NoOne]]

Abstract == INSTANCE FourEyes WITH proposals <- Proposals

\* "If either fails, the transaction boundary rolls back both" (approvals.py:186): the
\* decision of a request and its effect on the registry are one event, by one other person.
ImplementsFourEyes == Abstract!Spec

\* The repository's live_at (covenant.py:79): rows whose range covers the date; those
\* that were never approved are not in force.
InForce(c, d) ==
    {n \in DOMAIN versions[c] : versions[c][n].status \in {LIVE, SUPERSEDED} /\ Covers(versions[c][n], d)}

\* tasks.md:824: "live_at(facility, date) returns the versions in force on that date",
\* and the engine tests what it returns: today's version of an active covenant is in it.
InForceIsLive ==
    \A c \in Covenants : active[c] = "active" => InForce(c, clock) \subseteq LiveAt(c, clock)
=============================================================================
