--------------------------- MODULE RegistryProofs ---------------------------
(***************************************************************************)
(* Proofs about the registry for every number of users, workers, covenants *)
(* and dates.  The inductive invariant says which rows belong together: a  *)
(* request and the version or waiver it is about, a version and the one    *)
(* before it, and a transaction and the request whose row it has locked.   *)
(***************************************************************************)
EXTENDS Registry, SequenceTheorems, TLAPS

ForVersion(i) == requests[i].operation \in {REGISTRATION, AMENDMENT}
ForWaiver(i)  == requests[i].operation = WAIVER
ForEnd(i)     == requests[i].operation = RETIREMENT

VersionOf(i) == versions[requests[i].subject.covenant][requests[i].subject.number]
WaiverOf(i)  == waivers[requests[i].subject.covenant][requests[i].subject.number]

\* A request is about rows that are there; a version has one request that proposes it,
\* and so has a waiver.
Refer ==
    \A i \in DOMAIN requests :
        LET s == requests[i].subject IN
        /\ ForVersion(i) => s.number \in DOMAIN versions[s.covenant]
        /\ ForEnd(i)     => s.number \in DOMAIN versions[s.covenant]
        /\ ForWaiver(i)  => s.number \in DOMAIN waivers[s.covenant]
        /\ requests[i].operation = REGISTRATION => s.number = 1

OneRequest ==
    \A i, j \in DOMAIN requests :
        /\ requests[i].subject = requests[j].subject
        /\ (ForVersion(i) /\ ForVersion(j)) \/ (ForWaiver(i) /\ ForWaiver(j))
        => i = j

Proposed ==
    \A c \in Covenants : \A n \in DOMAIN versions[c] :
        \E i \in DOMAIN requests : ForVersion(i) /\ requests[i].subject = About(c, n)

\* A row carries the name of an approver exactly when its request was approved, by that
\* person, who is not the one who made it.
Agree ==
    \A i \in DOMAIN requests :
        /\ requests[i].state = APPROVED => requests[i].checker \in Users \ {requests[i].maker}
        /\ ForVersion(i) => /\ VersionOf(i).maker = requests[i].maker
                            /\ VersionOf(i).approver = IF requests[i].state = APPROVED
                                                       THEN requests[i].checker ELSE NoOne
        /\ ForWaiver(i) => WaiverOf(i).approver = IF requests[i].state = APPROVED
                                                  THEN requests[i].checker ELSE NoOne
        /\ ForEnd(i) => /\ VersionOf(i).approver # NoOne
                        /\ requests[i].state = APPROVED =>
                               active[requests[i].subject.covenant] = "inactive"

\* The versions of a covenant: the last may be staged, the one before it may then still
\* be live, and their ranges follow one another.
InOrder(activity, rows) ==
    /\ activity = "absent" => rows = <<>>
    /\ \A n \in DOMAIN rows :
         /\ rows[n].status \in Staged <=> rows[n].approver = NoOne
         /\ rows[n].status \in Staged => n = Len(rows)
         /\ rows[n].status = LIVE =>
              n = Len(rows) \/ (n + 1 = Len(rows) /\ rows[Len(rows)].status \in Staged)
    /\ \A m, n \in DOMAIN rows : m < n =>
         /\ rows[m].from < rows[n].from
         /\ rows[m].approver # NoOne /\ rows[n].approver # NoOne => rows[m].to <= rows[n].from

Ordered == \A c \in Covenants : InOrder(active[c], versions[c])

\* An open approval holds a pending request that no other one holds.
Held ==
    /\ \A w \in Workers :
         /\ tx[w].kind = "approving" =>
              LET i == tx[w].request IN
              /\ i \in DOMAIN requests
              /\ requests[i].state = PENDING /\ requests[i].maker # tx[w].user
              /\ ~ForWaiver(i)
              /\ requests[i].operation = AMENDMENT =>
                   /\ tx[w].current + 1 = requests[i].subject.number
                   /\ tx[w].current \in DOMAIN versions[requests[i].subject.covenant]
         /\ tx[w].kind = "retiring" =>
              LET s == tx[w].subject IN
              /\ s.number \in DOMAIN versions[s.covenant]
              /\ versions[s.covenant][s.number].approver # NoOne
    /\ \A v, w \in Workers :
         tx[v].kind = "approving" /\ tx[w].kind = "approving" /\ tx[v].request = tx[w].request => v = w

Inv == TypeOK /\ Refer /\ OneRequest /\ Proposed /\ Agree /\ Ordered /\ Held /\ ToldOnce
-----------------------------------------------------------------------------
\* A row added to a table.
LEMMA AppendFacts ==
    ASSUME NEW S, NEW s \in Seq(S), NEW e \in S
    PROVE  /\ Append(s, e) \in Seq(S) /\ Len(Append(s, e)) = Len(s) + 1
           /\ DOMAIN s = 1..Len(s) /\ Len(s) \in Nat /\ Len(s) + 1 \notin DOMAIN s
           /\ DOMAIN Append(s, e) = DOMAIN s \union {Len(s) + 1}
           /\ \A i \in DOMAIN s : Append(s, e)[i] = s[i]
           /\ Append(s, e)[Len(s) + 1] = e
<1>1. Len(s) \in Nat /\ DOMAIN s = 1..Len(s)
  BY LenProperties
<1>2. /\ Append(s, e) \in Seq(S) /\ Len(Append(s, e)) = Len(s) + 1
      /\ \A i \in 1..Len(s) : Append(s, e)[i] = s[i]
      /\ Append(s, e)[Len(s) + 1] = e
  BY AppendProperties
<1>3. DOMAIN Append(s, e) = 1..(Len(s) + 1)
  BY <1>2, LenProperties
<1> DEFINE t == Append(s, e)
<1> HIDE DEF t
<1>4. 1..(Len(s) + 1) = (1..Len(s)) \union {Len(s) + 1} /\ Len(s) + 1 \notin 1..Len(s)
  BY <1>1
<1> QED
  BY <1>1, <1>2, <1>3, <1>4

\* A table whose rows are replaced one for one.
LEMMA ReplaceFacts ==
    ASSUME NEW S, NEW s \in Seq(S), NEW t, DOMAIN t = DOMAIN s, t = [i \in DOMAIN s |-> t[i]],
           \A i \in DOMAIN s : t[i] \in S
    PROVE  t \in Seq(S) /\ Len(t) = Len(s)
<1>1. Len(s) \in Nat /\ DOMAIN s = 1..Len(s)
  BY LenProperties
<1>2. t \in [1..Len(s) -> S]
  BY <1>1
<1>3. t \in Seq(S)
  BY <1>1, <1>2, SeqDef
<1>4. Len(t) \in Nat /\ DOMAIN t = 1..Len(t)
  BY <1>3, LenProperties
<1> QED
  BY <1>1, <1>3, <1>4

\* What the types say of single rows.
LEMMA Rows ==
    ASSUME TypeOK
    PROVE  /\ DOMAIN requests = 1..Len(requests) /\ Len(requests) \in Nat
           /\ DOMAIN notices = DOMAIN requests
           /\ \A i \in DOMAIN requests :
                /\ requests[i] \in Request /\ requests[i].subject \in Subject
                /\ requests[i].subject.covenant \in Covenants /\ requests[i].subject.number \in Nat
                /\ requests[i].maker \in Users /\ requests[i].operation \in Operations
           /\ \A c \in Covenants :
                /\ versions[c] \in Seq(Version) /\ waivers[c] \in Seq(Waiver)
                /\ DOMAIN versions[c] = 1..Last(c) /\ Last(c) \in Nat
                /\ DOMAIN waivers[c] = 1..Len(waivers[c]) /\ Len(waivers[c]) \in Nat
                /\ \A n \in DOMAIN versions[c] : versions[c][n] \in Version
                /\ \A n \in DOMAIN waivers[c] : waivers[c][n] \in Waiver
<1>1. /\ requests \in Seq(Request) /\ notices \in Seq(Nat) /\ Len(notices) = Len(requests)
      /\ versions \in [Covenants -> Seq(Version)] /\ waivers \in [Covenants -> Seq(Waiver)]
  BY DEF TypeOK
<1>2. /\ DOMAIN requests = 1..Len(requests) /\ Len(requests) \in Nat
      /\ DOMAIN notices = DOMAIN requests
  BY <1>1, LenProperties
<1>3. \A i \in DOMAIN requests : requests[i] \in Request
  BY <1>1, <1>2, ElementOfSeq
<1>4. ASSUME NEW c \in Covenants
      PROVE  /\ versions[c] \in Seq(Version) /\ waivers[c] \in Seq(Waiver)
             /\ DOMAIN versions[c] = 1..Last(c) /\ Last(c) \in Nat
             /\ DOMAIN waivers[c] = 1..Len(waivers[c]) /\ Len(waivers[c]) \in Nat
             /\ \A n \in DOMAIN versions[c] : versions[c][n] \in Version
             /\ \A n \in DOMAIN waivers[c] : waivers[c][n] \in Waiver
  <2>1. versions[c] \in Seq(Version) /\ waivers[c] \in Seq(Waiver)
    BY <1>1
  <2>2. /\ DOMAIN versions[c] = 1..Last(c) /\ Last(c) \in Nat
        /\ DOMAIN waivers[c] = 1..Len(waivers[c]) /\ Len(waivers[c]) \in Nat
    BY <2>1, LenProperties DEF Last
  <2>3. \A n \in DOMAIN versions[c] : versions[c][n] \in Version
    BY <2>1, <2>2, ElementOfSeq DEF Last
  <2>4. \A n \in DOMAIN waivers[c] : waivers[c][n] \in Waiver
    BY <2>1, <2>2, ElementOfSeq
  <2> QED
    BY <2>1, <2>2, <2>3, <2>4
<1>5. \A i \in DOMAIN requests :
        /\ requests[i].subject \in Subject
        /\ requests[i].subject.covenant \in Covenants /\ requests[i].subject.number \in Nat
        /\ requests[i].maker \in Users /\ requests[i].operation \in Operations
  BY <1>3 DEF Request, Subject
<1> QED
  BY <1>2, <1>3, <1>4, <1>5

\* What they say of a transaction.
LEMMA Transactions ==
    ASSUME TypeOK, NEW w \in Workers
    PROVE  /\ tx[w].kind = "approving" =>
                tx[w].user \in Users /\ tx[w].request \in Nat /\ tx[w].current \in Nat
           /\ tx[w].kind = "retiring" => tx[w].user \in Users /\ tx[w].subject \in Subject
           /\ tx[w] = Idle => tx[w].kind = "idle"
<1>1. tx[w] \in {Idle} \union Retiring \union Approving
  BY DEF TypeOK
<1>2. CASE tx[w] = Idle
  BY <1>2 DEF Idle
<1>3. CASE tx[w] \in Retiring
  BY <1>3 DEF Retiring, Idle
<1>4. CASE tx[w] \in Approving
  BY <1>4 DEF Approving, Idle
<1> QED
  BY <1>1, <1>2, <1>3, <1>4

\* A request that is submitted: one pending row, and nothing owed for it.
LEMMA SubmitFacts ==
    ASSUME TypeOK, NEW op \in Operations, NEW s \in Subject, NEW u \in Users, Submit(op, s, u)
    PROVE  LET k == Len(requests) + 1 IN
           /\ requests' \in Seq(Request) /\ notices' \in Seq(Nat) /\ Len(notices') = Len(requests')
           /\ DOMAIN requests' = DOMAIN requests \union {k} /\ k \notin DOMAIN requests
           /\ \A i \in DOMAIN requests : requests'[i] = requests[i] /\ notices'[i] = notices[i]
           /\ requests'[k].operation = op /\ requests'[k].subject = s /\ requests'[k].maker = u
           /\ requests'[k].state = PENDING /\ notices'[k] = 0
<1> DEFINE r == [operation |-> op, subject |-> s, maker |-> u,
                 checker |-> NoOne, state |-> PENDING, created |-> clock]
<1>1. r \in Request
  BY DEF TypeOK, Request, Person, RequestStates
<1>2. requests \in Seq(Request) /\ notices \in Seq(Nat) /\ Len(notices) = Len(requests)
  BY DEF TypeOK
<1>3. requests' = Append(requests, r) /\ notices' = Append(notices, 0)
  BY DEF Submit, Submitted
<1>4. r.operation = op /\ r.subject = s /\ r.maker = u /\ r.state = PENDING
  OBVIOUS
<1> HIDE DEF r
<1>5. /\ Append(requests, r) \in Seq(Request) /\ Len(Append(requests, r)) = Len(requests) + 1
      /\ Len(requests) + 1 \notin DOMAIN requests
      /\ DOMAIN Append(requests, r) = DOMAIN requests \union {Len(requests) + 1}
      /\ \A i \in DOMAIN requests : Append(requests, r)[i] = requests[i]
      /\ Append(requests, r)[Len(requests) + 1] = r
  BY <1>1, <1>2, AppendFacts
<1>6. /\ Append(notices, 0) \in Seq(Nat) /\ Len(Append(notices, 0)) = Len(notices) + 1
      /\ \A i \in DOMAIN notices : Append(notices, 0)[i] = notices[i]
      /\ Append(notices, 0)[Len(notices) + 1] = 0
  BY <1>2, AppendFacts
<1>7. DOMAIN notices = DOMAIN requests
  BY Rows
<1> QED
  BY <1>2, <1>3, <1>4, <1>5, <1>6, <1>7

\* A request that is decided.
LEMMA DecideFacts ==
    ASSUME TypeOK, NEW i \in DOMAIN requests, NEW u \in Users, NEW o \in {APPROVED, REJECTED},
           Decide(i, u, o)
    PROVE  /\ requests' \in Seq(Request) /\ notices' = notices
           /\ DOMAIN requests' = DOMAIN requests /\ Len(requests') = Len(requests)
           /\ \A j \in DOMAIN requests : j # i => requests'[j] = requests[j]
           /\ requests'[i].operation = requests[i].operation
           /\ requests'[i].subject = requests[i].subject /\ requests'[i].maker = requests[i].maker
           /\ requests'[i].state = o /\ requests'[i].checker = u
<1>1. requests \in Seq(Request) /\ requests[i] \in Request
  BY Rows DEF TypeOK
<1>2. requests' = [requests EXCEPT ![i] = [[requests[i] EXCEPT !.state = o] EXCEPT !.checker = u]]
      /\ notices' = notices
  BY <1>1 DEF Decide
<1> DEFINE r == [[requests[i] EXCEPT !.state = o] EXCEPT !.checker = u]
<1>3. /\ r \in Request
      /\ r.operation = requests[i].operation /\ r.subject = requests[i].subject
      /\ r.maker = requests[i].maker /\ r.state = o /\ r.checker = u
  BY <1>1 DEF Request, Person, RequestStates
<1> HIDE DEF r
<1>4. /\ DOMAIN requests' = DOMAIN requests /\ requests' = [j \in DOMAIN requests |-> requests'[j]]
      /\ \A j \in DOMAIN requests : j # i => requests'[j] = requests[j]
      /\ requests'[i] = r
  BY <1>2 DEF r
<1>5. \A j \in DOMAIN requests : requests'[j] \in Request
  BY <1>3, <1>4, Rows
<1>6. requests' \in Seq(Request) /\ Len(requests') = Len(requests)
  BY <1>1, <1>4, <1>5, ReplaceFacts
<1> QED
  BY <1>2, <1>3, <1>4, <1>6

\* Requests that expire.
LEMMA ExpireFacts ==
    ASSUME TypeOK, NEW S, S \subseteq DOMAIN requests, Expire(S)
    PROVE  /\ requests' \in Seq(Request) /\ notices' \in Seq(Nat)
           /\ Len(notices') = Len(requests') /\ Len(requests') = Len(requests)
           /\ DOMAIN requests' = DOMAIN requests
           /\ \A j \in DOMAIN requests :
                /\ requests'[j].operation = requests[j].operation
                /\ requests'[j].subject = requests[j].subject
                /\ requests'[j].maker = requests[j].maker
                /\ requests'[j].checker = requests[j].checker
                /\ j \in S => requests'[j].state = EXPIRED /\ notices'[j] = notices[j] + 1
                /\ j \notin S => requests'[j] = requests[j] /\ notices'[j] = notices[j]
<1>1. /\ requests \in Seq(Request) /\ notices \in Seq(Nat) /\ Len(notices) = Len(requests)
      /\ DOMAIN notices = DOMAIN requests
      /\ \A j \in DOMAIN requests : requests[j] \in Request /\ notices[j] \in Nat
  <2>1. /\ requests \in Seq(Request) /\ notices \in Seq(Nat) /\ Len(notices) = Len(requests)
    BY DEF TypeOK
  <2>2. /\ DOMAIN notices = DOMAIN requests /\ DOMAIN notices = 1..Len(notices)
        /\ \A j \in DOMAIN requests : requests[j] \in Request
    BY <2>1, Rows
  <2>3. \A j \in DOMAIN notices : notices[j] \in Nat
    BY <2>1, <2>2, ElementOfSeq
  <2> QED
    BY <2>1, <2>2, <2>3
<1>2. /\ DOMAIN requests' = DOMAIN requests /\ DOMAIN notices' = DOMAIN notices
      /\ requests' = [j \in DOMAIN requests |-> requests'[j]]
      /\ notices' = [j \in DOMAIN notices |-> notices'[j]]
      /\ \A j \in DOMAIN requests : requests'[j] =
            IF j \in S THEN [requests[j] EXCEPT !.state = EXPIRED] ELSE requests[j]
      /\ \A j \in DOMAIN requests : notices'[j] = IF j \in S THEN notices[j] + 1 ELSE notices[j]
  BY <1>1 DEF Expire
<1>3. ASSUME NEW j \in DOMAIN requests
      PROVE  LET r == [requests[j] EXCEPT !.state = EXPIRED] IN
             /\ r \in Request /\ r.state = EXPIRED
             /\ r.operation = requests[j].operation /\ r.subject = requests[j].subject
             /\ r.maker = requests[j].maker /\ r.checker = requests[j].checker
  BY <1>1 DEF Request, RequestStates
<1>4. \A j \in DOMAIN requests : requests'[j] \in Request /\ notices'[j] \in Nat
  BY <1>1, <1>2, <1>3
<1>5. requests' \in Seq(Request) /\ Len(requests') = Len(requests)
  BY <1>1, <1>2, <1>4, ReplaceFacts
<1>6. notices' \in Seq(Nat) /\ Len(notices') = Len(notices)
  BY <1>1, <1>2, <1>4, ReplaceFacts
<1> QED
  BY <1>1, <1>2, <1>3, <1>5, <1>6

\* A row nobody holds.
LEMMA NotLocked ==
    ASSUME NEW i, i \notin Locked
    PROVE  \A v \in Workers : tx[v].kind = "approving" => tx[v].request # i
BY DEF Locked
-----------------------------------------------------------------------------
\* What every step keeps: what was asked for, the rows there are, who approved them.
AsksKept ==
    /\ DOMAIN requests \subseteq DOMAIN requests'
    /\ \A i \in DOMAIN requests : /\ requests'[i].operation = requests[i].operation
                                  /\ requests'[i].subject = requests[i].subject
                                  /\ requests'[i].maker = requests[i].maker

RowsKept ==
    \A c \in Covenants :
        /\ DOMAIN versions[c] \subseteq DOMAIN versions'[c]
        /\ \A n \in DOMAIN versions[c] :
             versions[c][n].approver # NoOne => versions'[c][n].approver # NoOne

LEMMA HeldKept ==
    ASSUME TypeOK, Refer, Held, AsksKept, RowsKept,
           \A w \in Workers : tx'[w] = tx[w] \/ tx'[w] = Idle,
           \A w \in Workers : tx'[w] # Idle /\ tx[w].kind = "approving" =>
                                  requests'[tx[w].request].state = PENDING
    PROVE  Held'
<1>1. \A w \in Workers : tx[w] = Idle => tx[w].kind = "idle"
  BY DEF Idle
<1>2. \A w \in Workers : tx'[w] = Idle => tx'[w].kind = "idle"
  BY DEF Idle
<1>3. ASSUME NEW w \in Workers, tx'[w].kind = "approving"
      PROVE  LET i == tx'[w].request IN
             /\ i \in DOMAIN requests'
             /\ requests'[i].state = PENDING /\ requests'[i].maker # tx'[w].user
             /\ requests'[i].operation # WAIVER
             /\ requests'[i].operation = AMENDMENT =>
                  /\ tx'[w].current + 1 = requests'[i].subject.number
                  /\ tx'[w].current \in DOMAIN versions'[requests'[i].subject.covenant]
  <2>1. tx'[w] = tx[w] /\ tx'[w] # Idle /\ tx[w].kind = "approving"
    BY <1>1, <1>2, <1>3
  <2>2. LET i == tx[w].request IN
        /\ i \in DOMAIN requests
        /\ requests[i].maker # tx[w].user /\ requests[i].operation # WAIVER
        /\ requests[i].operation = AMENDMENT =>
             /\ tx[w].current + 1 = requests[i].subject.number
             /\ tx[w].current \in DOMAIN versions[requests[i].subject.covenant]
    BY <2>1 DEF Held, ForWaiver
  <2>3. requests[tx[w].request].subject.covenant \in Covenants
    BY <2>2, Rows
  <2> QED
    BY <2>1, <2>2, <2>3 DEF AsksKept, RowsKept
<1>4. ASSUME NEW w \in Workers, tx'[w].kind = "retiring"
      PROVE  LET s == tx'[w].subject IN
             /\ s.number \in DOMAIN versions'[s.covenant]
             /\ versions'[s.covenant][s.number].approver # NoOne
  <2>1. tx'[w] = tx[w] /\ tx[w].kind = "retiring"
    BY <1>2, <1>4
  <2>2. tx[w].subject.covenant \in Covenants
    BY <2>1, Transactions DEF Subject
  <2> QED
    BY <2>1, <2>2 DEF Held, RowsKept
<1>5. ASSUME NEW v \in Workers, NEW w \in Workers, tx'[v].kind = "approving",
             tx'[w].kind = "approving", tx'[v].request = tx'[w].request
      PROVE  v = w
  BY <1>2, <1>5 DEF Held
<1> QED
  BY <1>3, <1>4, <1>5 DEF Held, ForWaiver

\* The rows of requests, versions and waivers that belong together are the same rows.
LEMMA SameRows ==
    ASSUME TypeOK, Refer, OneRequest, Proposed, AsksKept, DOMAIN requests' = DOMAIN requests,
           \A c \in Covenants : /\ DOMAIN versions'[c] = DOMAIN versions[c]
                                /\ DOMAIN waivers'[c] = DOMAIN waivers[c]
    PROVE  Refer' /\ OneRequest' /\ Proposed'
<1>1. \A i \in DOMAIN requests : /\ requests[i].subject.covenant \in Covenants
                                 /\ ForVersion(i)' = ForVersion(i) /\ ForWaiver(i)' = ForWaiver(i)
                                 /\ ForEnd(i)' = ForEnd(i)
  BY Rows DEF AsksKept, ForVersion, ForWaiver, ForEnd
<1>2. Refer'
  BY <1>1 DEF Refer, AsksKept
<1>3. OneRequest'
  BY <1>1 DEF OneRequest, AsksKept
<1>4. Proposed'
  BY <1>1 DEF Proposed, AsksKept, About
<1> QED
  BY <1>2, <1>3, <1>4
-----------------------------------------------------------------------------
\* Steps that write no row.
LEMMA NothingWritten ==
    ASSUME Inv, UNCHANGED <<requests, notices, active, versions, waivers>>,
           clock' \in Nat, cure' \in [Covenants -> BOOLEAN],
           tx' \in [Workers -> {Idle} \union Retiring \union Approving], Held'
    PROVE  Inv'
<1>1. requests' = requests /\ notices' = notices /\ active' = active
      /\ versions' = versions /\ waivers' = waivers
  OBVIOUS
<1>2. TypeOK'
  BY <1>1 DEF Inv, TypeOK
<1>3. Refer' /\ OneRequest' /\ Proposed'
  BY <1>1 DEF Inv, Refer, OneRequest, Proposed, ForVersion, ForWaiver, ForEnd
<1>4. Agree'
  BY <1>1 DEF Inv, Agree, ForVersion, ForWaiver, ForEnd, VersionOf, WaiverOf
<1>5. Ordered' /\ ToldOnce'
  BY <1>1 DEF Inv, Ordered, ToldOnce
<1> QED
  BY <1>2, <1>3, <1>4, <1>5 DEF Inv

\* A transaction that ends or goes on, and rows that stay.
LEMMA NothingRead ==
    ASSUME Inv, UNCHANGED <<requests, notices, active, versions, waivers>>,
           clock' \in Nat, cure' \in [Covenants -> BOOLEAN],
           tx' \in [Workers -> {Idle} \union Retiring \union Approving],
           \A w \in Workers : tx'[w] = tx[w] \/ tx'[w] = Idle
    PROVE  Inv'
<1>1. \A w \in Workers : tx[w].kind = "approving" => requests'[tx[w].request].state = PENDING
  BY DEF Inv, Held
<1>2. AsksKept /\ RowsKept
  BY DEF AsksKept, RowsKept
<1>3. Held'
  BY <1>1, <1>2, HeldKept DEF Inv
<1> QED
  BY <1>3, NothingWritten

LEMMA CrashKeeps == ASSUME Inv, NEW w \in Workers, Crash(w) PROVE Inv'
<1>1. /\ clock' \in Nat /\ cure' \in [Covenants -> BOOLEAN]
      /\ tx' \in [Workers -> {Idle} \union Retiring \union Approving]
      /\ \A v \in Workers : tx'[v] = tx[v] \/ tx'[v] = Idle
  BY DEF Inv, TypeOK, Crash
<1> QED
  BY <1>1, NothingRead DEF Crash

LEMMA CureKeeps == ASSUME Inv, NEW c \in Covenants, CureChanges(c) PROVE Inv'
<1>1. /\ clock' \in Nat /\ cure' \in [Covenants -> BOOLEAN]
      /\ tx' \in [Workers -> {Idle} \union Retiring \union Approving]
      /\ \A v \in Workers : tx'[v] = tx[v] \/ tx'[v] = Idle
  BY DEF Inv, TypeOK, CureChanges
<1> QED
  BY <1>1, NothingRead DEF CureChanges

LEMMA ElapseKeeps == ASSUME Inv, Elapse PROVE Inv'
<1>1. /\ clock' \in Nat /\ cure' \in [Covenants -> BOOLEAN]
      /\ tx' \in [Workers -> {Idle} \union Retiring \union Approving]
      /\ \A v \in Workers : tx'[v] = tx[v] \/ tx'[v] = Idle
  BY DEF Inv, TypeOK, Elapse, Tick, registryVars
<1> QED
  BY <1>1, NothingRead DEF Elapse, registryVars

\* A live version has been approved.
LEMMA LiveApproved ==
    ASSUME Inv, NEW c \in Covenants, NEW n \in LiveVersions(c)
    PROVE  n \in DOMAIN versions[c] /\ n \in Nat /\ versions[c][n].approver # NoOne
<1>1. n \in DOMAIN versions[c] /\ versions[c][n].status = LIVE
  BY DEF LiveVersions
<1>2. n \in Nat
  BY <1>1, Rows DEF Inv
<1> QED
  BY <1>1, <1>2 DEF Inv, Ordered, InOrder, Last, Staged, LIVE, DRAFT, PENDING_APPROVAL

\* What retire has read when it has made its checks.
LEMMA CheckRetirementKeeps ==
    ASSUME Inv, NEW w \in Workers, NEW u \in Users, NEW c \in Covenants, CheckRetirement(w, u, c)
    PROVE  Inv'
<1>1. PICK n \in LiveVersions(c) :
        tx' = [tx EXCEPT ![w] = [kind |-> "retiring", user |-> u, subject |-> About(c, n)]]
  BY DEF CheckRetirement
<1>2. n \in DOMAIN versions[c] /\ n \in Nat /\ versions[c][n].approver # NoOne
  BY LiveApproved
<1> DEFINE r == [kind |-> "retiring", user |-> u, subject |-> About(c, n)]
<1>3. r \in Retiring /\ r.kind = "retiring" /\ r.subject.covenant = c /\ r.subject.number = n
  BY <1>2 DEF Retiring, About, Subject
<1> HIDE DEF r
<1>4. tx \in [Workers -> {Idle} \union Retiring \union Approving]
  BY DEF Inv, TypeOK
<1>5. tx'[w] = r /\ \A v \in Workers : v # w => tx'[v] = tx[v]
  BY <1>1, <1>4 DEF r
<1>6. tx' \in [Workers -> {Idle} \union Retiring \union Approving]
  BY <1>1, <1>3, <1>4 DEF r
<1>7. UNCHANGED <<clock, requests, notices, active, versions, waivers, cure>>
  BY DEF CheckRetirement
<1>8. Held'
  BY <1>2, <1>3, <1>5, <1>7 DEF Inv, Held, ForWaiver
<1>9. clock' \in Nat /\ cure' \in [Covenants -> BOOLEAN]
  BY <1>7 DEF Inv, TypeOK
<1> QED
  BY <1>6, <1>7, <1>8, <1>9, NothingWritten
\* The version an approved amendment will close is the one before the amendment's.
LEMMA CurrentPrecedes ==
    ASSUME Inv, NEW s \in Subject, s.number \in DOMAIN versions[s.covenant],
           NEW current, MayAmend(s, current)
    PROVE  /\ current \in DOMAIN versions[s.covenant] /\ current + 1 = s.number
           /\ s.number = Last(s.covenant)
<1> DEFINE c == s.covenant
<1>1. c \in Covenants /\ s.number \in Nat
  BY DEF Subject
<1>2. current \in LiveVersions(c) /\ s.number > current /\ versions[c][s.number].status \in Staged
  BY DEF MayAmend
<1>3. current \in DOMAIN versions[c] /\ current \in Nat /\ versions[c][current].status = LIVE
  BY <1>1, <1>2, LiveApproved DEF LiveVersions
<1>4. s.number = Last(c)
  BY <1>1, <1>2 DEF Inv, Ordered, InOrder, Last
<1>5. current = Last(c) \/ current + 1 = Last(c)
  BY <1>1, <1>3 DEF Inv, Ordered, InOrder, Last
<1> QED
  BY <1>1, <1>2, <1>3, <1>4, <1>5

\* What an approval holds when it has read the rows it asks about.
LEMMA ApproveKeeps ==
    ASSUME Inv, NEW w \in Workers, NEW u \in Users, NEW i \in DOMAIN requests, Approve(w, u, i)
    PROVE  Inv'
<1> DEFINE s == requests[i].subject
<1>1. PICK current \in 1..Last(s.covenant) :
        /\ \/ requests[i].operation = REGISTRATION
           \/ requests[i].operation = AMENDMENT /\ MayAmend(s, current)
           \/ requests[i].operation = RETIREMENT
        /\ tx' = [tx EXCEPT ![w] =
                    [kind |-> "approving", user |-> u, request |-> i, current |-> current]]
  BY DEF Approve
<1>2. /\ s \in Subject /\ s.covenant \in Covenants /\ i \in Nat /\ current \in Nat
      /\ DOMAIN versions[s.covenant] = 1..Last(s.covenant)
  BY <1>1, Rows DEF Inv
<1>3. requests[i].operation # WAIVER
  BY <1>1 DEF REGISTRATION, AMENDMENT, RETIREMENT, WAIVER
<1>4. requests[i].operation = AMENDMENT =>
        current + 1 = s.number /\ current \in DOMAIN versions[s.covenant]
  <2>1. requests[i].operation = AMENDMENT => MayAmend(s, current)
    BY <1>1 DEF REGISTRATION, AMENDMENT, RETIREMENT
  <2>2. requests[i].operation = AMENDMENT => s.number \in DOMAIN versions[s.covenant]
    BY DEF Inv, Refer, ForVersion
  <2> QED
    BY <1>2, <2>1, <2>2, CurrentPrecedes
<1>5. requests[i].state = PENDING /\ requests[i].maker # u /\ i \notin Locked
  BY DEF Approve, Decidable
<1>6. \A v \in Workers : tx[v].kind = "approving" => tx[v].request # i
  BY <1>5, NotLocked
<1> DEFINE r == [kind |-> "approving", user |-> u, request |-> i, current |-> current]
<1>7. r \in Approving /\ r.kind = "approving" /\ r.user = u /\ r.request = i /\ r.current = current
  BY <1>2 DEF Approving
<1> HIDE DEF r
<1>8. tx \in [Workers -> {Idle} \union Retiring \union Approving]
  BY DEF Inv, TypeOK
<1>9. tx'[w] = r /\ \A v \in Workers : v # w => tx'[v] = tx[v]
  BY <1>1, <1>8 DEF r
<1>10. tx' \in [Workers -> {Idle} \union Retiring \union Approving]
  BY <1>1, <1>7, <1>8 DEF r
<1>11. UNCHANGED <<clock, requests, notices, active, versions, waivers, cure>>
  BY DEF Approve
<1>12. Held'
  <2>1. requests' = requests /\ versions' = versions
    BY <1>11
  <2>2. \A v \in Workers : v # w => tx'[v] = tx[v]
    BY <1>9
  <2>3. tx'[w].kind = "approving" /\ tx'[w].user = u /\ tx'[w].request = i /\ tx'[w].current = current
    BY <1>7, <1>9
  <2>4. Held
    BY DEF Inv
  <2> HIDE DEF s
  <2> QED
    BY <1>3, <1>4, <1>5, <1>6, <2>1, <2>2, <2>3, <2>4 DEF Held, ForWaiver, s
<1>13. clock' \in Nat /\ cure' \in [Covenants -> BOOLEAN]
  BY <1>11 DEF Inv, TypeOK
<1> QED
  BY <1>10, <1>11, <1>12, <1>13, NothingWritten
-----------------------------------------------------------------------------
\* Steps that end pending requests without the effect they ask for.
Unmet(S) ==
    /\ S \subseteq DOMAIN requests
    /\ active' = active /\ versions' = versions /\ tx' = tx
    /\ AsksKept /\ DOMAIN requests' = DOMAIN requests
    /\ \A i \in S : /\ requests[i].state = PENDING /\ requests'[i].state \in {REJECTED, EXPIRED}
                    /\ \A v \in Workers : tx[v].kind = "approving" => tx[v].request # i
    /\ \A i \in DOMAIN requests \ S : requests'[i] = requests[i]
    /\ \A c \in Covenants :
         /\ DOMAIN waivers'[c] = DOMAIN waivers[c]
         /\ \A n \in DOMAIN waivers[c] : waivers'[c][n].approver = waivers[c][n].approver

LEMMA UnmetKeeps ==
    ASSUME Inv, NEW S, Unmet(S)
    PROVE  Refer' /\ OneRequest' /\ Proposed' /\ Agree' /\ Ordered' /\ Held'
<1> USE DEF Unmet
<1>1. RowsKept
  BY DEF RowsKept
<1>2. Refer' /\ OneRequest' /\ Proposed'
  BY SameRows DEF Inv
<1>3. \A w \in Workers : tx[w].kind = "approving" => requests'[tx[w].request].state = PENDING
  BY DEF Inv, Held
<1>4. Held'
  BY <1>1, <1>3, HeldKept DEF Inv
<1>5. Ordered'
  BY DEF Inv, Ordered
<1>6. ASSUME NEW i \in DOMAIN requests
      PROVE  /\ requests'[i].state = APPROVED <=> requests[i].state = APPROVED
             /\ requests[i].state = APPROVED => requests'[i].checker = requests[i].checker
             /\ requests[i].subject.covenant \in Covenants
             /\ ForVersion(i)' = ForVersion(i) /\ ForWaiver(i)' = ForWaiver(i)
             /\ ForEnd(i)' = ForEnd(i)
             /\ requests'[i].subject = requests[i].subject /\ requests'[i].maker = requests[i].maker
  BY Rows DEF Inv, AsksKept, ForVersion, ForWaiver, ForEnd, APPROVED, PENDING, REJECTED, EXPIRED
<1>7. Agree'
  BY <1>6 DEF Inv, Refer, Agree, VersionOf, WaiverOf
<1> QED
  BY <1>2, <1>4, <1>5, <1>7

\* An expiry, whoever finds it due.
LEMMA ExpireKeeps ==
    ASSUME Inv, NEW S, S \subseteq DOMAIN requests, Expire(S), UNCHANGED <<clock, registryVars>>,
           \A i \in S : requests[i].state = PENDING /\ i \notin Locked
    PROVE  Inv'
<1>1. /\ requests' \in Seq(Request) /\ notices' \in Seq(Nat) /\ Len(notices') = Len(requests')
      /\ DOMAIN requests' = DOMAIN requests
      /\ \A j \in DOMAIN requests :
           /\ requests'[j].operation = requests[j].operation
           /\ requests'[j].subject = requests[j].subject
           /\ requests'[j].maker = requests[j].maker
           /\ j \in S => requests'[j].state = EXPIRED /\ notices'[j] = notices[j] + 1
           /\ j \notin S => requests'[j] = requests[j] /\ notices'[j] = notices[j]
  BY ExpireFacts DEF Inv
<1>2. UNCHANGED <<clock, active, versions, waivers, cure, tx>>
  BY DEF registryVars
<1>3. TypeOK'
  BY <1>1, <1>2 DEF Inv, TypeOK
<1>4. AsksKept
  BY <1>1 DEF AsksKept
<1>5. \A i \in S : \A v \in Workers : tx[v].kind = "approving" => tx[v].request # i
  BY NotLocked
<1>6. Refer' /\ OneRequest' /\ Proposed' /\ Agree' /\ Ordered' /\ Held'
  <2>1. \A i \in S : /\ requests[i].state = PENDING /\ requests'[i].state \in {REJECTED, EXPIRED}
                     /\ \A v \in Workers : tx[v].kind = "approving" => tx[v].request # i
    BY <1>1, <1>5
  <2>2. \A i \in DOMAIN requests \ S : requests'[i] = requests[i]
    BY <1>1
  <2>3. \A c \in Covenants :
          /\ DOMAIN waivers'[c] = DOMAIN waivers[c]
          /\ \A n \in DOMAIN waivers[c] : waivers'[c][n].approver = waivers[c][n].approver
    BY <1>2
  <2>4. active' = active /\ versions' = versions /\ tx' = tx
    BY <1>2
  <2>5. Unmet(S)
    BY <1>1, <1>4, <2>1, <2>2, <2>3, <2>4 DEF Unmet
  <2> QED
    BY <2>5, UnmetKeeps
<1>7. ToldOnce'
  <2>1. \A j \in DOMAIN requests : notices[j] = IF requests[j].state = EXPIRED THEN 1 ELSE 0
    BY DEF Inv, ToldOnce
  <2>2. PENDING # EXPIRED
    BY DEF PENDING, EXPIRED
  <2>3. ASSUME NEW j \in DOMAIN requests
        PROVE  notices'[j] = IF requests'[j].state = EXPIRED THEN 1 ELSE 0
    <3>1. CASE j \in S
      <4>1. notices[j] = 0
        BY <2>1, <2>2, <3>1
      <4>2. notices'[j] = 1
        BY <1>1, <3>1, <4>1
      <4> QED
        BY <1>1, <3>1, <4>2
    <3>2. CASE j \notin S
      BY <1>1, <2>1, <3>2
    <3> QED
      BY <3>1, <3>2
  <2> QED
    BY <1>1, <2>3 DEF ToldOnce
<1> QED
  BY <1>3, <1>6, <1>7 DEF Inv

LEMMA DecideLateKeeps ==
    ASSUME Inv, NEW w \in Workers, NEW u \in Users, NEW i \in DOMAIN requests, DecideLate(w, u, i)
    PROVE  Inv'
<1>1. {i} \subseteq DOMAIN requests /\ requests[i].state = PENDING /\ i \notin Locked
  BY DEF DecideLate, Decidable
<1> QED
  BY <1>1, ExpireKeeps DEF DecideLate

LEMMA OpenQueueKeeps ==
    ASSUME Inv, NEW w \in Workers, NEW u \in Users, OpenQueue(w, u)
    PROVE  Inv'
<1>1. /\ DueFor(u) \subseteq DOMAIN requests
      /\ \A i \in DueFor(u) : requests[i].state = PENDING /\ i \notin Locked
  BY DEF OpenQueue, DueFor, Decidable
<1> QED
  BY <1>1, ExpireKeeps DEF OpenQueue

\* A waiver's row, changed in its place.
LEMMA WaiverReplaced ==
    ASSUME TypeOK, NEW c \in Covenants, NEW n \in DOMAIN waivers[c], NEW row \in Waiver,
           waivers' = [waivers EXCEPT ![c] = [waivers[c] EXCEPT ![n] = row]]
    PROVE  /\ waivers' \in [Covenants -> Seq(Waiver)]
           /\ \A d \in Covenants : DOMAIN waivers'[d] = DOMAIN waivers[d]
           /\ waivers'[c][n] = row
           /\ \A d \in Covenants : \A m \in DOMAIN waivers[d] :
                d # c \/ m # n => waivers'[d][m] = waivers[d][m]
<1>1. /\ waivers \in [Covenants -> Seq(Waiver)] /\ waivers[c] \in Seq(Waiver)
      /\ \A m \in DOMAIN waivers[c] : waivers[c][m] \in Waiver
  BY Rows DEF TypeOK
<1> DEFINE rows == [waivers[c] EXCEPT ![n] = row]
<1>2. /\ DOMAIN rows = DOMAIN waivers[c] /\ rows = [m \in DOMAIN waivers[c] |-> rows[m]]
      /\ rows[n] = row /\ \A m \in DOMAIN waivers[c] : m # n => rows[m] = waivers[c][m]
  OBVIOUS
<1> HIDE DEF rows
<1>3. \A m \in DOMAIN waivers[c] : rows[m] \in Waiver
  BY <1>1, <1>2
<1>4. rows \in Seq(Waiver)
  BY <1>1, <1>2, <1>3, ReplaceFacts
<1>5. waivers' = [waivers EXCEPT ![c] = rows]
  BY DEF rows
<1>6. waivers'[c] = rows /\ \A d \in Covenants : d # c => waivers'[d] = waivers[d]
  BY <1>1, <1>5
<1> QED
  BY <1>1, <1>2, <1>4, <1>5, <1>6

LEMMA RejectKeeps ==
    ASSUME Inv, NEW w \in Workers, NEW u \in Users, NEW i \in DOMAIN requests, Reject(w, u, i)
    PROVE  Inv'
<1> DEFINE s == requests[i].subject
<1>1. /\ requests[i].state = PENDING /\ i \notin Locked /\ Decide(i, u, REJECTED)
      /\ UNCHANGED <<clock, active, versions, cure, tx>>
  BY DEF Reject, Decidable
<1>2. /\ requests' \in Seq(Request) /\ notices' = notices /\ Len(requests') = Len(requests)
      /\ DOMAIN requests' = DOMAIN requests
      /\ \A j \in DOMAIN requests : j # i => requests'[j] = requests[j]
      /\ requests'[i].operation = requests[i].operation
      /\ requests'[i].subject = requests[i].subject /\ requests'[i].maker = requests[i].maker
      /\ requests'[i].state = REJECTED
  BY <1>1, DecideFacts DEF Inv
<1>3. /\ waivers' \in [Covenants -> Seq(Waiver)]
      /\ \A c \in Covenants :
           /\ DOMAIN waivers'[c] = DOMAIN waivers[c]
           /\ \A n \in DOMAIN waivers[c] : waivers'[c][n].approver = waivers[c][n].approver
  <2>1. CASE requests[i].operation = WAIVER
    <3>1. /\ s.covenant \in Covenants /\ s.number \in DOMAIN waivers[s.covenant]
          /\ waivers[s.covenant][s.number] \in Waiver /\ waivers \in [Covenants -> Seq(Waiver)]
      BY <2>1, Rows DEF Inv, Refer, ForWaiver, TypeOK
    <3> DEFINE row == [waivers[s.covenant][s.number] EXCEPT !.state = REJECTED]
    <3>2. row \in Waiver /\ row.approver = waivers[s.covenant][s.number].approver
      BY <3>1 DEF Waiver
    <3>3. waivers' = [waivers EXCEPT ![s.covenant] =
                                       [waivers[s.covenant] EXCEPT ![s.number] = row]]
      BY <2>1, <3>1 DEF Reject
    <3> HIDE DEF row, s
    <3> QED
      BY <3>1, <3>2, <3>3, WaiverReplaced DEF Inv
  <2>2. CASE requests[i].operation # WAIVER
    <3>1. waivers' = waivers
      BY <2>2 DEF Reject
    <3> QED
      BY <3>1 DEF Inv, TypeOK
  <2> QED
    BY <2>1, <2>2
<1>4. TypeOK'
  BY <1>1, <1>2, <1>3 DEF Inv, TypeOK
<1>5. AsksKept
  BY <1>2 DEF AsksKept
<1>6. Refer' /\ OneRequest' /\ Proposed' /\ Agree' /\ Ordered' /\ Held'
  <2>1. \A v \in Workers : tx[v].kind = "approving" => tx[v].request # i
    BY <1>1, NotLocked
  <2>2. Unmet({i})
    BY <1>1, <1>2, <1>3, <1>5, <2>1 DEF Unmet
  <2> QED
    BY <2>2, UnmetKeeps
<1>7. ToldOnce'
  BY <1>1, <1>2 DEF Inv, ToldOnce, PENDING, REJECTED, EXPIRED
<1> QED
  BY <1>4, <1>6, <1>7 DEF Inv
-----------------------------------------------------------------------------
LEMMA ApproveWaiverKeeps ==
    ASSUME Inv, NEW w \in Workers, NEW u \in Users, NEW i \in DOMAIN requests,
           ApproveWaiver(w, u, i)
    PROVE  Inv'
<1> DEFINE s == requests[i].subject
<1>1. /\ requests[i].state = PENDING /\ requests[i].maker # u /\ i \notin Locked
      /\ requests[i].operation = WAIVER /\ Decide(i, u, APPROVED)
      /\ UNCHANGED <<clock, active, versions, cure, tx>>
  BY DEF ApproveWaiver, Decidable
<1>2. /\ requests' \in Seq(Request) /\ notices' = notices /\ Len(requests') = Len(requests)
      /\ DOMAIN requests' = DOMAIN requests
      /\ \A j \in DOMAIN requests : j # i => requests'[j] = requests[j]
      /\ requests'[i].operation = requests[i].operation
      /\ requests'[i].subject = requests[i].subject /\ requests'[i].maker = requests[i].maker
      /\ requests'[i].state = APPROVED /\ requests'[i].checker = u
  BY <1>1, DecideFacts DEF Inv
<1>3. /\ s.covenant \in Covenants /\ s.number \in DOMAIN waivers[s.covenant]
      /\ waivers[s.covenant][s.number] \in Waiver /\ waivers \in [Covenants -> Seq(Waiver)]
  BY <1>1, Rows DEF Inv, Refer, ForWaiver, TypeOK
<1> DEFINE row == [[waivers[s.covenant][s.number] EXCEPT !.state = APPROVED] EXCEPT !.approver = u]
<1>4. row \in Waiver /\ row.approver = u
  BY <1>3 DEF Waiver, Person
<1>5. waivers' = [waivers EXCEPT ![s.covenant] = [waivers[s.covenant] EXCEPT ![s.number] = row]]
  BY <1>3 DEF ApproveWaiver
<1> HIDE DEF row
<1>6. /\ waivers' \in [Covenants -> Seq(Waiver)]
      /\ \A d \in Covenants : DOMAIN waivers'[d] = DOMAIN waivers[d]
      /\ waivers'[s.covenant][s.number] = row
      /\ \A d \in Covenants : \A m \in DOMAIN waivers[d] :
           d # s.covenant \/ m # s.number => waivers'[d][m] = waivers[d][m]
  <2> HIDE DEF s
  <2> QED
    BY <1>3, <1>4, <1>5, WaiverReplaced DEF Inv
<1>7. TypeOK'
  BY <1>1, <1>2, <1>6 DEF Inv, TypeOK
<1>8. AsksKept
  BY <1>2 DEF AsksKept
<1>9. Refer' /\ OneRequest' /\ Proposed'
  BY <1>1, <1>2, <1>6, <1>8, SameRows DEF Inv
<1>10. Held'
  <2>1. \A v \in Workers : tx[v].kind = "approving" => tx[v].request # i /\ tx[v].request \in DOMAIN requests
    BY <1>1, NotLocked DEF Inv, Held
  <2>2. \A v \in Workers : tx[v].kind = "approving" => requests'[tx[v].request].state = PENDING
    BY <1>2, <2>1 DEF Inv, Held
  <2>3. RowsKept
    BY <1>1 DEF RowsKept
  <2> QED
    BY <1>1, <1>8, <2>2, <2>3, HeldKept DEF Inv
<1>11. Ordered'
  BY <1>1 DEF Inv, Ordered
<1>12. Agree'
  <2>1. ASSUME NEW j \in DOMAIN requests, j # i, ForWaiver(j)
        PROVE  WaiverOf(j)' = WaiverOf(j)
    <3>1. requests[j].subject # s
      BY <1>1, <2>1 DEF Inv, OneRequest, ForWaiver
    <3>2. requests[j].subject \in Subject /\ s \in Subject
      BY Rows DEF Inv
    <3>3. requests[j].subject.covenant # s.covenant \/ requests[j].subject.number # s.number
      BY <3>1, <3>2 DEF Subject
    <3>4. /\ requests[j].subject.covenant \in Covenants
          /\ requests[j].subject.number \in DOMAIN waivers[requests[j].subject.covenant]
      BY <2>1, Rows DEF Inv, Refer
    <3> QED
      BY <1>2, <1>6, <2>1, <3>3, <3>4 DEF WaiverOf
  <2>2. WaiverOf(i)' = row
    BY <1>2, <1>6 DEF WaiverOf
  <2>3. u \in Users \ {requests[i].maker}
    BY <1>1
  <2>4. ~ForVersion(i) /\ ~ForEnd(i)
    BY <1>1 DEF ForVersion, ForEnd, WAIVER, REGISTRATION, AMENDMENT, RETIREMENT
  <2>5. /\ \A j \in DOMAIN requests : /\ ForVersion(j)' = ForVersion(j)
                                      /\ ForWaiver(j)' = ForWaiver(j) /\ ForEnd(j)' = ForEnd(j)
                                      /\ VersionOf(j)' = VersionOf(j)
    BY <1>1, <1>2 DEF ForVersion, ForWaiver, ForEnd, VersionOf
  <2> QED
    BY <1>1, <1>2, <1>4, <2>1, <2>2, <2>3, <2>4, <2>5 DEF Inv, Agree
<1>13. ToldOnce'
  BY <1>1, <1>2 DEF Inv, ToldOnce, PENDING, APPROVED, EXPIRED
<1> QED
  BY <1>7, <1>9, <1>10, <1>11, <1>12, <1>13 DEF Inv
-----------------------------------------------------------------------------
\* The rows a request brings with it: what it proposes, beside all there was.
Brings(op, s, u) ==
    /\ \A c \in Covenants :
         /\ DOMAIN versions[c] \subseteq DOMAIN versions'[c]
         /\ \A n \in DOMAIN versions[c] : versions'[c][n] = versions[c][n]
         /\ \A n \in DOMAIN versions'[c] \ DOMAIN versions[c] :
              op \in {REGISTRATION, AMENDMENT} /\ s = About(c, n)
         /\ DOMAIN waivers[c] \subseteq DOMAIN waivers'[c]
         /\ \A n \in DOMAIN waivers[c] : waivers'[c][n] = waivers[c][n]
         /\ active[c] = "inactive" => active'[c] = "inactive"
    /\ op \in {REGISTRATION, AMENDMENT} =>
         /\ s.number \in DOMAIN versions'[s.covenant] \ DOMAIN versions[s.covenant]
         /\ versions'[s.covenant][s.number].maker = u
         /\ versions'[s.covenant][s.number].approver = NoOne
    /\ op = REGISTRATION => s.number = 1
    /\ op = WAIVER => /\ s.number \in DOMAIN waivers'[s.covenant] \ DOMAIN waivers[s.covenant]
                      /\ waivers'[s.covenant][s.number].approver = NoOne
    /\ op = RETIREMENT => /\ s.number \in DOMAIN versions[s.covenant]
                          /\ versions[s.covenant][s.number].approver # NoOne

LEMMA SubmissionKeeps ==
    ASSUME Inv, NEW op \in Operations, NEW s \in Subject, NEW u \in Users,
           Submit(op, s, u), Brings(op, s, u),
           \A w \in Workers : tx'[w] = tx[w] \/ tx'[w] = Idle
    PROVE  /\ requests' \in Seq(Request) /\ notices' \in Seq(Nat) /\ Len(notices') = Len(requests')
           /\ Refer' /\ OneRequest' /\ Proposed' /\ Agree' /\ Held' /\ ToldOnce'
<1>1. PICK k :
      /\ requests' \in Seq(Request) /\ notices' \in Seq(Nat) /\ Len(notices') = Len(requests')
      /\ DOMAIN requests' = DOMAIN requests \union {k} /\ k \notin DOMAIN requests
      /\ \A i \in DOMAIN requests : requests'[i] = requests[i] /\ notices'[i] = notices[i]
      /\ requests'[k].operation = op /\ requests'[k].subject = s /\ requests'[k].maker = u
      /\ requests'[k].state = PENDING /\ notices'[k] = 0
  BY SubmitFacts DEF Inv
<1>2. s.covenant \in Covenants /\ s.number \in Nat
  BY DEF Subject
<1>3. \A i \in DOMAIN requests : /\ requests[i].subject \in Subject
                                 /\ requests[i].subject.covenant \in Covenants
                                 /\ ForVersion(i)' = ForVersion(i)
                                 /\ ForWaiver(i)' = ForWaiver(i) /\ ForEnd(i)' = ForEnd(i)
  BY <1>1, Rows DEF Inv, ForVersion, ForWaiver, ForEnd
<1>4. /\ ForVersion(k)' <=> op \in {REGISTRATION, AMENDMENT}
      /\ ForWaiver(k)' <=> op = WAIVER
      /\ ForEnd(k)' <=> op = RETIREMENT
  BY <1>1 DEF ForVersion, ForWaiver, ForEnd
<1>5. Refer'
  <2>1. ASSUME NEW i \in DOMAIN requests
        PROVE  LET t == requests'[i].subject IN
               /\ ForVersion(i)' => t.number \in DOMAIN versions'[t.covenant]
               /\ ForEnd(i)'     => t.number \in DOMAIN versions'[t.covenant]
               /\ ForWaiver(i)'  => t.number \in DOMAIN waivers'[t.covenant]
               /\ requests'[i].operation = REGISTRATION => t.number = 1
    BY <1>1, <1>3 DEF Inv, Refer, Brings
  <2>2. /\ ForVersion(k)' => s.number \in DOMAIN versions'[s.covenant]
        /\ ForEnd(k)'     => s.number \in DOMAIN versions'[s.covenant]
        /\ ForWaiver(k)'  => s.number \in DOMAIN waivers'[s.covenant]
        /\ requests'[k].operation = REGISTRATION => s.number = 1
    BY <1>1, <1>2, <1>4 DEF Brings
  <2> QED
    BY <1>1, <2>1, <2>2 DEF Refer
<1>6. OneRequest'
  <2>1. ASSUME NEW i \in DOMAIN requests, requests[i].subject = s,
               (ForVersion(i) /\ op \in {REGISTRATION, AMENDMENT}) \/ (ForWaiver(i) /\ op = WAIVER)
        PROVE  FALSE
    BY <2>1 DEF Inv, Refer, Brings
  <2>2. ASSUME NEW i \in DOMAIN requests', NEW j \in DOMAIN requests',
               requests'[i].subject = requests'[j].subject,
               (ForVersion(i)' /\ ForVersion(j)') \/ (ForWaiver(i)' /\ ForWaiver(j)')
        PROVE  i = j
    <3>1. CASE i = k /\ j = k
      BY <3>1
    <3>2. CASE i # k /\ j = k
      BY <1>1, <1>3, <1>4, <2>1, <2>2, <3>2
    <3>3. CASE i = k /\ j # k
      BY <1>1, <1>3, <1>4, <2>1, <2>2, <3>3
    <3>4. CASE i # k /\ j # k
      BY <1>1, <1>3, <2>2, <3>4 DEF Inv, OneRequest
    <3> QED
      BY <3>1, <3>2, <3>3, <3>4
  <2> QED
    BY <2>2 DEF OneRequest
<1>7. Proposed'
  <2>1. ASSUME NEW c \in Covenants, NEW n \in DOMAIN versions'[c]
        PROVE  \E i \in DOMAIN requests' : ForVersion(i)' /\ requests'[i].subject = About(c, n)
    <3>1. CASE n \in DOMAIN versions[c]
      BY <1>1, <1>3, <3>1 DEF Inv, Proposed
    <3>2. CASE n \notin DOMAIN versions[c]
      BY <1>1, <1>4, <3>2 DEF Brings
    <3> QED
      BY <3>1, <3>2
  <2> QED
    BY <2>1 DEF Proposed, About
<1>8. Agree'
  <2>1. ASSUME NEW i \in DOMAIN requests
        PROVE  /\ ForVersion(i) \/ ForEnd(i) => VersionOf(i)' = VersionOf(i)
               /\ ForWaiver(i) => WaiverOf(i)' = WaiverOf(i)
    BY <1>1, <1>3 DEF Inv, Refer, Brings, VersionOf, WaiverOf
  <2>2. /\ ForVersion(k)' => VersionOf(k)'.maker = u /\ VersionOf(k)'.approver = NoOne
        /\ ForWaiver(k)' => WaiverOf(k)'.approver = NoOne
        /\ ForEnd(k)' => VersionOf(k)'.approver # NoOne
    BY <1>1, <1>2, <1>4 DEF Brings, VersionOf, WaiverOf
  <2>3. requests'[k].state # APPROVED
    BY <1>1 DEF PENDING, APPROVED
  <2>4. \A c \in Covenants : active[c] = "inactive" => active'[c] = "inactive"
    BY DEF Brings
  <2> QED
    BY <1>1, <1>3, <2>1, <2>2, <2>3, <2>4 DEF Inv, Agree
<1>9. Held'
  <2>1. AsksKept
    BY <1>1 DEF AsksKept
  <2>2. RowsKept
    BY DEF Brings, RowsKept
  <2>3. \A w \in Workers : tx[w].kind = "approving" => requests'[tx[w].request].state = PENDING
    BY <1>1 DEF Inv, Held
  <2> QED
    BY <2>1, <2>2, <2>3, HeldKept DEF Inv
<1>10. ToldOnce'
  BY <1>1 DEF Inv, ToldOnce, PENDING, EXPIRED
<1> QED
  BY <1>1, <1>5, <1>6, <1>7, <1>8, <1>9, <1>10

LEMMA RegisterKeeps ==
    ASSUME Inv, NEW w \in Workers, NEW u \in Users, NEW c \in Covenants,
           NEW f \in Days, NEW t \in Days \union {Forever}, Register(w, u, c, f, t)
    PROVE  Inv'
<1> DEFINE row == Staging(f, t, DRAFT, u)
<1>1. /\ active[c] = "absent" /\ active' = [active EXCEPT ![c] = "active"]
      /\ versions' = [versions EXCEPT ![c] = <<row>>]
      /\ Submit(REGISTRATION, About(c, 1), u)
      /\ UNCHANGED <<clock, waivers, cure, tx>>
  BY DEF Register
<1>2. row \in Version /\ row.status \in Staged /\ row.approver = NoOne /\ row.maker = u
  BY DEF Staging, Version, Status, Staged, Person
<1> HIDE DEF row
<1>3. <<row>> \in Seq(Version) /\ DOMAIN <<row>> = {1} /\ Len(<<row>>) = 1 /\ <<row>>[1] = row
  BY <1>2
<1>4. active \in [Covenants -> {"absent", "active", "inactive"}]
      /\ versions \in [Covenants -> Seq(Version)]
  BY DEF Inv, TypeOK
<1> DEFINE rows == <<row>>
<1> HIDE DEF rows
<1>5. /\ versions'[c] = rows /\ \A d \in Covenants : d # c => versions'[d] = versions[d]
      /\ active'[c] = "active" /\ \A d \in Covenants : d # c => active'[d] = active[d]
      /\ versions' \in [Covenants -> Seq(Version)]
      /\ active' \in [Covenants -> {"absent", "active", "inactive"}]
      /\ DOMAIN rows = {1} /\ rows[1] = row /\ Len(rows) = 1
  BY <1>1, <1>3, <1>4 DEF rows
<1>6. DOMAIN versions[c] = {}
  BY <1>1 DEF Inv, Ordered, InOrder, Last
<1>7. /\ About(c, 1) \in Subject /\ About(c, 1).covenant = c /\ About(c, 1).number = 1
      /\ REGISTRATION \in Operations /\ REGISTRATION \notin {WAIVER, RETIREMENT}
  BY DEF About, Subject, Operations, REGISTRATION, WAIVER, RETIREMENT
<1>8. Brings(REGISTRATION, About(c, 1), u)
  BY <1>1, <1>2, <1>5, <1>6, <1>7 DEF Brings
<1>9. /\ requests' \in Seq(Request) /\ notices' \in Seq(Nat) /\ Len(notices') = Len(requests')
      /\ Refer' /\ OneRequest' /\ Proposed' /\ Agree' /\ Held' /\ ToldOnce'
  BY <1>1, <1>7, <1>8, SubmissionKeeps
<1>10. TypeOK'
  BY <1>1, <1>5, <1>9 DEF Inv, TypeOK
<1>11. Ordered'
  <2>1. row.status # LIVE
    BY DEF row, Staging, DRAFT, LIVE
  <2>2. InOrder("active", rows)
    BY <1>2, <1>5, <2>1 DEF InOrder
  <2> QED
    BY <1>5, <2>2 DEF Inv, Ordered
<1> QED
  BY <1>9, <1>10, <1>11 DEF Inv

LEMMA AmendKeeps ==
    ASSUME Inv, NEW w \in Workers, NEW u \in Users, NEW c \in Covenants,
           NEW f \in Days, NEW t \in Days \union {Forever}, Amend(w, u, c, f, t)
    PROVE  Inv'
<1> DEFINE row == Staging(f, t, PENDING_APPROVAL, u)
           k == Last(c) + 1
<1>1. /\ \A n \in DOMAIN versions[c] : versions[c][n].status \notin Staged
      /\ Last(c) \in LiveVersions(c) /\ f > versions[c][Last(c)].from
      /\ versions' = [versions EXCEPT ![c] = Append(versions[c], row)]
      /\ Submit(AMENDMENT, About(c, k), u)
      /\ UNCHANGED <<clock, active, waivers, cure, tx>>
  BY DEF Amend, NoOverlap, Inv, TypeOK
<1>2. /\ row \in Version /\ row.status \in Staged /\ row.status # LIVE
      /\ row.approver = NoOne /\ row.maker = u /\ row.from = f
  BY DEF Staging, Version, Status, Staged, Person, PENDING_APPROVAL, LIVE
<1>3. /\ versions \in [Covenants -> Seq(Version)] /\ versions[c] \in Seq(Version)
      /\ Last(c) \in Nat /\ DOMAIN versions[c] = 1..Last(c)
      /\ Last(c) \in DOMAIN versions[c]
      /\ \A n \in DOMAIN versions[c] : versions[c][n].from \in Nat
  <2>1. /\ versions \in [Covenants -> Seq(Version)] /\ versions[c] \in Seq(Version)
        /\ Last(c) \in Nat /\ DOMAIN versions[c] = 1..Last(c)
        /\ \A n \in DOMAIN versions[c] : versions[c][n] \in Version
    BY Rows DEF Inv, TypeOK
  <2>2. Last(c) \in DOMAIN versions[c]
    BY <1>1 DEF LiveVersions
  <2> QED
    BY <2>1, <2>2, RegistryAssumption DEF Version
<1> DEFINE rows == Append(versions[c], row)
<1> HIDE DEF row
<1>4. /\ rows \in Seq(Version) /\ Len(rows) = k /\ k \notin DOMAIN versions[c]
      /\ DOMAIN rows = DOMAIN versions[c] \union {k} /\ rows[k] = row
      /\ \A n \in DOMAIN versions[c] : rows[n] = versions[c][n]
  BY <1>2, <1>3, AppendFacts DEF Last
<1> HIDE DEF rows
<1>5. /\ versions'[c] = rows /\ \A d \in Covenants : d # c => versions'[d] = versions[d]
      /\ versions' \in [Covenants -> Seq(Version)]
  BY <1>1, <1>3, <1>4 DEF rows
<1>6. /\ About(c, k) \in Subject /\ About(c, k).covenant = c /\ About(c, k).number = k
      /\ AMENDMENT \in Operations /\ AMENDMENT \notin {REGISTRATION, WAIVER, RETIREMENT}
  BY <1>3 DEF About, Subject, Operations, REGISTRATION, AMENDMENT, WAIVER, RETIREMENT
<1>7. Brings(AMENDMENT, About(c, k), u)
  BY <1>1, <1>2, <1>4, <1>5, <1>6 DEF Brings
<1>8. /\ requests' \in Seq(Request) /\ notices' \in Seq(Nat) /\ Len(notices') = Len(requests')
      /\ Refer' /\ OneRequest' /\ Proposed' /\ Agree' /\ Held' /\ ToldOnce'
  BY <1>1, <1>6, <1>7, SubmissionKeeps
<1>9. TypeOK'
  BY <1>1, <1>5, <1>8 DEF Inv, TypeOK
<1>10. Ordered'
  <2>1. ASSUME NEW d \in Covenants, d # c
        PROVE  versions'[d] = versions[d] /\ active'[d] = active[d] /\ Last(d)' = Last(d)
    BY <1>1, <1>5, <2>1 DEF Last
  <2>2. Last(c)' = k /\ k \in Nat
    BY <1>3, <1>4, <1>5 DEF Last
  <2>3. active'[c] # "absent"
    BY <1>1, <1>3 DEF Inv, Ordered, InOrder, Last
  <2>4. ASSUME NEW n \in DOMAIN rows
        PROVE  /\ rows[n].status \in Staged <=> rows[n].approver = NoOne
               /\ rows[n].status \in Staged => n = k
               /\ rows[n].status = LIVE => n = k \/ (n + 1 = k /\ rows[k].status \in Staged)
    <3>1. CASE n = k
      BY <1>2, <1>4, <3>1
    <3>2. CASE n \in DOMAIN versions[c]
      BY <1>1, <1>2, <1>3, <1>4, <3>2 DEF Inv, Ordered, InOrder, Last
    <3> QED
      BY <1>4, <3>1, <3>2
  <2>5. \A m \in DOMAIN versions[c] : versions[c][m].from < f
    <3>1. \A m \in DOMAIN versions[c] : m = Last(c) \/ m < Last(c)
      BY <1>3
    <3>2. \A m \in DOMAIN versions[c] : m < Last(c) => versions[c][m].from < versions[c][Last(c)].from
      BY <1>3 DEF Inv, Ordered, InOrder, Last
    <3>3. f \in Nat
      BY RegistryAssumption
    <3> QED
      BY <1>1, <1>3, <3>1, <3>2, <3>3
  <2>6. ASSUME NEW m \in DOMAIN rows, NEW n \in DOMAIN rows, m < n
        PROVE  /\ rows[m].from < rows[n].from
               /\ rows[m].approver # NoOne /\ rows[n].approver # NoOne =>
                    rows[m].to <= rows[n].from
    <3>1. m \in DOMAIN versions[c]
      BY <1>3, <1>4, <2>6
    <3>2. CASE n = k
      BY <1>2, <1>4, <2>5, <3>1, <3>2
    <3>3. CASE n \in DOMAIN versions[c]
      BY <1>4, <2>6, <3>1, <3>3 DEF Inv, Ordered, InOrder, Last
    <3> QED
      BY <1>4, <3>2, <3>3
  <2>7. InOrder(active'[c], rows)
    BY <1>4, <2>3, <2>4, <2>6 DEF InOrder
  <2> QED
    BY <1>5, <2>1, <2>7 DEF Inv, Ordered
<1> QED
  BY <1>8, <1>9, <1>10 DEF Inv

LEMMA RequestWaiverKeeps ==
    ASSUME Inv, NEW w \in Workers, NEW u \in Users, NEW c \in Covenants, RequestWaiver(w, u, c)
    PROVE  Inv'
<1> DEFINE row == [state |-> "requested", maker |-> u, approver |-> NoOne]
           k == Len(waivers[c]) + 1
<1>1. /\ waivers' = [waivers EXCEPT ![c] = Append(waivers[c], row)]
      /\ Submit(WAIVER, About(c, k), u)
      /\ UNCHANGED <<clock, active, versions, cure, tx>>
  BY DEF RequestWaiver, Inv, TypeOK
<1>2. row \in Waiver /\ row.approver = NoOne
  BY DEF Waiver, Person
<1> HIDE DEF row
<1>3. /\ waivers \in [Covenants -> Seq(Waiver)] /\ waivers[c] \in Seq(Waiver)
      /\ Len(waivers[c]) \in Nat
  BY Rows DEF Inv, TypeOK
<1> DEFINE rows == Append(waivers[c], row)
<1>4. /\ rows \in Seq(Waiver) /\ k \notin DOMAIN waivers[c]
      /\ DOMAIN rows = DOMAIN waivers[c] \union {k} /\ rows[k] = row
      /\ \A n \in DOMAIN waivers[c] : rows[n] = waivers[c][n]
  BY <1>2, <1>3, AppendFacts
<1> HIDE DEF rows
<1>5. /\ waivers'[c] = rows /\ \A d \in Covenants : d # c => waivers'[d] = waivers[d]
      /\ waivers' \in [Covenants -> Seq(Waiver)]
  BY <1>1, <1>3, <1>4 DEF rows
<1>6. /\ About(c, k) \in Subject /\ About(c, k).covenant = c /\ About(c, k).number = k
      /\ WAIVER \in Operations /\ WAIVER \notin {REGISTRATION, AMENDMENT, RETIREMENT}
  BY <1>3 DEF About, Subject, Operations, REGISTRATION, AMENDMENT, WAIVER, RETIREMENT
<1>7. Brings(WAIVER, About(c, k), u)
  BY <1>1, <1>2, <1>4, <1>5, <1>6 DEF Brings
<1>8. /\ requests' \in Seq(Request) /\ notices' \in Seq(Nat) /\ Len(notices') = Len(requests')
      /\ Refer' /\ OneRequest' /\ Proposed' /\ Agree' /\ Held' /\ ToldOnce'
  BY <1>1, <1>6, <1>7, SubmissionKeeps
<1>9. TypeOK'
  BY <1>1, <1>5, <1>8 DEF Inv, TypeOK
<1>10. Ordered'
  BY <1>1 DEF Inv, Ordered
<1> QED
  BY <1>8, <1>9, <1>10 DEF Inv

LEMMA SubmitRetirementKeeps ==
    ASSUME Inv, NEW w \in Workers, SubmitRetirement(w)
    PROVE  Inv'
<1> DEFINE s == tx[w].subject
           u == tx[w].user
<1>1. /\ tx[w].kind = "retiring" /\ Submit(RETIREMENT, s, u) /\ tx' = [tx EXCEPT ![w] = Idle]
      /\ UNCHANGED <<clock, active, versions, waivers, cure>>
  BY DEF SubmitRetirement
<1>2. s \in Subject /\ s.covenant \in Covenants /\ u \in Users
  BY <1>1, Transactions DEF Inv, Subject
<1>3. s.number \in DOMAIN versions[s.covenant] /\ versions[s.covenant][s.number].approver # NoOne
  BY <1>1 DEF Inv, Held
<1>4. RETIREMENT \in Operations /\ RETIREMENT \notin {REGISTRATION, AMENDMENT, WAIVER}
  BY DEF Operations, REGISTRATION, AMENDMENT, WAIVER, RETIREMENT
<1>5. Brings(RETIREMENT, s, u)
  BY <1>1, <1>3, <1>4 DEF Brings
<1>6. /\ tx' \in [Workers -> {Idle} \union Retiring \union Approving]
      /\ \A v \in Workers : tx'[v] = tx[v] \/ tx'[v] = Idle
  BY <1>1 DEF Inv, TypeOK
<1>7. /\ requests' \in Seq(Request) /\ notices' \in Seq(Nat) /\ Len(notices') = Len(requests')
      /\ Refer' /\ OneRequest' /\ Proposed' /\ Agree' /\ Held' /\ ToldOnce'
  <2> HIDE DEF s, u
  <2> QED
    BY <1>1, <1>2, <1>4, <1>5, <1>6, SubmissionKeeps
<1>8. TypeOK'
  BY <1>1, <1>6, <1>7 DEF Inv, TypeOK
<1>9. Ordered'
  BY <1>1 DEF Inv, Ordered
<1> QED
  BY <1>7, <1>8, <1>9 DEF Inv
-----------------------------------------------------------------------------
\* What an approval that commits changes: the row its request proposes gets its approver,
\* a retirement ends its covenant.
Applies(op, i, u) ==
    /\ \A c \in Covenants :
         /\ DOMAIN versions'[c] = DOMAIN versions[c]
         /\ \A n \in DOMAIN versions[c] :
              /\ versions'[c][n].maker = versions[c][n].maker
              /\ requests[i].subject # About(c, n) \/ op = RETIREMENT =>
                   versions'[c][n].approver = versions[c][n].approver
         /\ active[c] = "inactive" => active'[c] = "inactive"
    /\ op \in {REGISTRATION, AMENDMENT} =>
         versions'[requests[i].subject.covenant][requests[i].subject.number].approver = u
    /\ op = RETIREMENT => active'[requests[i].subject.covenant] = "inactive"

\* The transaction that commits, and the request it decides.
LEMMA ApplyingFacts ==
    ASSUME Inv, NEW w \in Workers, NEW op \in Operations \ {WAIVER}, Applying(w, op),
           NEW i, i = tx[w].request, NEW u, u = tx[w].user
    PROVE  /\ i \in DOMAIN requests /\ u \in Users /\ requests[i].operation = op
           /\ requests[i].state = PENDING /\ requests[i].maker # u
           /\ requests[i].subject \in Subject /\ requests[i].subject.covenant \in Covenants
           /\ requests[i].subject.number \in DOMAIN versions[requests[i].subject.covenant]
           /\ requests' \in Seq(Request) /\ notices' = notices /\ Len(requests') = Len(requests)
           /\ DOMAIN requests' = DOMAIN requests
           /\ \A j \in DOMAIN requests : j # i => requests'[j] = requests[j]
           /\ requests'[i].operation = op /\ requests'[i].subject = requests[i].subject
           /\ requests'[i].maker = requests[i].maker
           /\ requests'[i].state = APPROVED /\ requests'[i].checker = u
           /\ tx' \in [Workers -> {Idle} \union Retiring \union Approving]
           /\ tx'[w] = Idle /\ \A v \in Workers : v # w => tx'[v] = tx[v]
           /\ UNCHANGED <<clock, waivers, cure>>
<1>1. /\ tx[w].kind = "approving" /\ requests[i].operation = op
      /\ Decide(i, u, APPROVED) /\ tx' = [tx EXCEPT ![w] = Idle]
      /\ UNCHANGED <<clock, waivers, cure>>
  BY DEF Applying
<1>2. i \in DOMAIN requests /\ requests[i].state = PENDING /\ requests[i].maker # u
  BY <1>1 DEF Inv, Held
<1>3. u \in Users
  BY <1>1, Transactions DEF Inv
<1>4. requests[i].subject \in Subject /\ requests[i].subject.covenant \in Covenants
  BY <1>2, Rows DEF Inv
<1>5. requests[i].subject.number \in DOMAIN versions[requests[i].subject.covenant]
  BY <1>1, <1>2 DEF Inv, Refer, ForVersion, ForEnd, Operations
<1>6. tx \in [Workers -> {Idle} \union Retiring \union Approving]
  BY DEF Inv, TypeOK
<1>7. /\ requests' \in Seq(Request) /\ notices' = notices /\ Len(requests') = Len(requests)
      /\ DOMAIN requests' = DOMAIN requests
      /\ \A j \in DOMAIN requests : j # i => requests'[j] = requests[j]
      /\ requests'[i].operation = requests[i].operation
      /\ requests'[i].subject = requests[i].subject /\ requests'[i].maker = requests[i].maker
      /\ requests'[i].state = APPROVED /\ requests'[i].checker = u
  BY <1>1, <1>2, <1>3, DecideFacts DEF Inv
<1> QED
  BY <1>1, <1>2, <1>3, <1>4, <1>5, <1>6, <1>7

LEMMA AppliedKeeps ==
    ASSUME Inv, NEW w \in Workers, NEW op \in Operations \ {WAIVER}, Applying(w, op),
           NEW i, i = tx[w].request, NEW u, u = tx[w].user, Applies(op, i, u)
    PROVE  Refer' /\ OneRequest' /\ Proposed' /\ Agree' /\ Held' /\ ToldOnce'
<1>1. /\ i \in DOMAIN requests /\ u \in Users /\ requests[i].operation = op
      /\ requests[i].state = PENDING /\ requests[i].maker # u
      /\ requests[i].subject \in Subject /\ requests[i].subject.covenant \in Covenants
      /\ DOMAIN requests' = DOMAIN requests
      /\ \A j \in DOMAIN requests : j # i => requests'[j] = requests[j]
      /\ requests'[i].operation = op /\ requests'[i].subject = requests[i].subject
      /\ requests'[i].maker = requests[i].maker
      /\ requests'[i].state = APPROVED /\ requests'[i].checker = u
      /\ tx'[w] = Idle /\ \A v \in Workers : v # w => tx'[v] = tx[v]
      /\ notices' = notices /\ waivers' = waivers
  BY ApplyingFacts
<1>2. u # NoOne /\ op # WAIVER
  BY <1>1, ApprovalsAssumption
<1>3. AsksKept
  BY <1>1 DEF AsksKept
<1>4. Refer' /\ OneRequest' /\ Proposed'
  BY <1>1, <1>3, SameRows DEF Inv, Applies
<1>5. ASSUME NEW j \in DOMAIN requests
      PROVE  /\ requests[j].subject \in Subject /\ requests[j].subject.covenant \in Covenants
             /\ requests[j].subject.number \in DOMAIN versions[requests[j].subject.covenant]
                  \/ ForWaiver(j)
             /\ ForVersion(j)' = ForVersion(j) /\ ForWaiver(j)' = ForWaiver(j)
             /\ ForEnd(j)' = ForEnd(j)
             /\ requests'[j].subject = requests[j].subject /\ requests'[j].maker = requests[j].maker
             /\ About(requests[j].subject.covenant, requests[j].subject.number)
                  = requests[j].subject
  <2>1. /\ requests[j].subject \in Subject /\ requests[j].subject.covenant \in Covenants
        /\ requests[j].operation \in Operations
    BY Rows DEF Inv
  <2>2. ForVersion(j) \/ ForWaiver(j) \/ ForEnd(j)
    BY <2>1 DEF Operations, ForVersion, ForWaiver, ForEnd
  <2>3. About(requests[j].subject.covenant, requests[j].subject.number) = requests[j].subject
    BY <2>1 DEF Subject, About
  <2>4. /\ ForVersion(j)' = ForVersion(j) /\ ForWaiver(j)' = ForWaiver(j) /\ ForEnd(j)' = ForEnd(j)
        /\ requests'[j].subject = requests[j].subject /\ requests'[j].maker = requests[j].maker
    BY <1>3 DEF AsksKept, ForVersion, ForWaiver, ForEnd
  <2> QED
    BY <2>1, <2>2, <2>3, <2>4 DEF Inv, Refer
<1>6. RowsKept
  <2>1. ASSUME NEW c \in Covenants, NEW n \in DOMAIN versions[c], versions[c][n].approver # NoOne
        PROVE  versions'[c][n].approver # NoOne
    <3>1. CASE requests[i].subject # About(c, n) \/ op = RETIREMENT
      BY <2>1, <3>1 DEF Applies
    <3>2. CASE requests[i].subject = About(c, n) /\ op # RETIREMENT
      <4>1. op \in {REGISTRATION, AMENDMENT}
        BY <3>2 DEF Operations
      <4> QED
        BY <1>2, <3>2, <4>1 DEF Applies, About
    <3> QED
      BY <3>1, <3>2
  <2> QED
    BY <2>1 DEF Applies, RowsKept
<1>7. Held'
  <2>1. ASSUME NEW v \in Workers, tx'[v] # Idle, tx[v].kind = "approving"
        PROVE  requests'[tx[v].request].state = PENDING
    <3>1. v # w
      BY <1>1, <2>1
    <3>2. tx[w].kind = "approving"
      BY DEF Applying
    <3>3. tx[v].request # i /\ tx[v].request \in DOMAIN requests
          /\ requests[tx[v].request].state = PENDING
      BY <2>1, <3>1, <3>2 DEF Inv, Held
    <3> QED
      BY <1>1, <3>3
  <2>2. \A v \in Workers : tx'[v] = tx[v] \/ tx'[v] = Idle
    BY <1>1
  <2> QED
    BY <1>3, <1>6, <2>1, <2>2, HeldKept DEF Inv
<1>8. Agree'
  <2>1. ASSUME NEW j \in DOMAIN requests, j # i
        PROVE  /\ ForVersion(j) => /\ VersionOf(j)'.maker = VersionOf(j).maker
                                   /\ VersionOf(j)'.approver = VersionOf(j).approver
               /\ ForWaiver(j) => WaiverOf(j)' = WaiverOf(j)
               /\ ForEnd(j) /\ VersionOf(j).approver # NoOne => VersionOf(j)'.approver # NoOne
    <3>1. ForVersion(j) /\ op # RETIREMENT => requests[j].subject # requests[i].subject
      BY <1>1, <1>2, <2>1 DEF Inv, OneRequest, ForVersion, Operations
    <3>2. ForVersion(j) => ~ForWaiver(j)
      BY DEF ForVersion, ForWaiver, REGISTRATION, AMENDMENT, WAIVER
    <3>3. ForVersion(j) => /\ VersionOf(j)'.maker = VersionOf(j).maker
                           /\ VersionOf(j)'.approver = VersionOf(j).approver
      BY <1>5, <3>1, <3>2 DEF Applies, VersionOf
    <3>4. ForWaiver(j) => WaiverOf(j)' = WaiverOf(j)
      BY <1>1, <1>5 DEF WaiverOf
    <3>5. ForEnd(j) => ~ForWaiver(j)
      BY DEF ForEnd, ForWaiver, RETIREMENT, WAIVER
    <3>6. ForEnd(j) /\ VersionOf(j).approver # NoOne => VersionOf(j)'.approver # NoOne
      BY <1>5, <1>6, <3>5 DEF RowsKept, VersionOf
    <3> QED
      BY <3>3, <3>4, <3>6
  <2>2. /\ ForVersion(i) => VersionOf(i)'.maker = VersionOf(i).maker /\ VersionOf(i)'.approver = u
        /\ ~ForWaiver(i)
        /\ ForEnd(i) => /\ VersionOf(i).approver # NoOne => VersionOf(i)'.approver # NoOne
                        /\ active'[requests[i].subject.covenant] = "inactive"
    <3>1. ~ForWaiver(i)
      BY <1>1, <1>2 DEF ForWaiver
    <3>2. requests[i].subject.number \in DOMAIN versions[requests[i].subject.covenant]
      BY <1>1, <1>5, <3>1
    <3>3. ForVersion(i) => VersionOf(i)'.maker = VersionOf(i).maker /\ VersionOf(i)'.approver = u
      BY <1>1, <3>2 DEF ForVersion, VersionOf, Applies
    <3>4. ForEnd(i) => (VersionOf(i).approver # NoOne => VersionOf(i)'.approver # NoOne)
      BY <1>1, <1>6, <3>2 DEF RowsKept, VersionOf
    <3>5. ForEnd(i) => active'[requests[i].subject.covenant] = "inactive"
      BY <1>1 DEF ForEnd, Applies
    <3> QED
      BY <3>1, <3>3, <3>4, <3>5
  <2>3. \A c \in Covenants : active[c] = "inactive" => active'[c] = "inactive"
    BY DEF Applies
  <2>4. ASSUME NEW j \in DOMAIN requests
        PROVE  /\ requests'[j].state = APPROVED => requests'[j].checker \in Users \ {requests'[j].maker}
               /\ ForVersion(j)' => /\ VersionOf(j)'.maker = requests'[j].maker
                                    /\ VersionOf(j)'.approver = IF requests'[j].state = APPROVED
                                                       THEN requests'[j].checker ELSE NoOne
               /\ ForWaiver(j)' => WaiverOf(j)'.approver = IF requests'[j].state = APPROVED
                                                           THEN requests'[j].checker ELSE NoOne
               /\ ForEnd(j)' => /\ VersionOf(j)'.approver # NoOne
                                /\ requests'[j].state = APPROVED =>
                                       active'[requests'[j].subject.covenant] = "inactive"
    <3>1. CASE j = i
      BY <1>1, <1>5, <2>2, <3>1 DEF Inv, Agree
    <3>2. CASE j # i
      <4>1. requests'[j] = requests[j]
        BY <1>1, <3>2
      <4> QED
        BY <1>5, <2>1, <2>3, <3>2, <4>1 DEF Inv, Agree
    <3> QED
      BY <3>1, <3>2
  <2> QED
    BY <1>1, <2>4 DEF Agree
<1>9. ToldOnce'
  BY <1>1 DEF Inv, ToldOnce, PENDING, APPROVED, EXPIRED
<1> QED
  BY <1>4, <1>7, <1>8, <1>9

\* A row of a table, changed in its place.
LEMMA RowReplaced ==
    ASSUME NEW S, NEW s \in Seq(S), NEW n \in DOMAIN s, NEW e \in S, NEW t, t = [s EXCEPT ![n] = e]
    PROVE  /\ t \in Seq(S) /\ DOMAIN t = DOMAIN s /\ Len(t) = Len(s) /\ t[n] = e
           /\ \A m \in DOMAIN s : m # n => t[m] = s[m]
<1>1. /\ DOMAIN t = DOMAIN s /\ t = [m \in DOMAIN s |-> t[m]] /\ t[n] = e
      /\ \A m \in DOMAIN s : m # n => t[m] = s[m]
  OBVIOUS
<1>2. Len(s) \in Nat /\ DOMAIN s = 1..Len(s)
  BY LenProperties
<1>3. \A m \in DOMAIN s : s[m] \in S
  BY <1>2, ElementOfSeq
<1>4. \A m \in DOMAIN s : t[m] \in S
  BY <1>1, <1>3
<1>5. t \in Seq(S) /\ Len(t) = Len(s)
  BY <1>1, <1>4, ReplaceFacts
<1> QED
  BY <1>1, <1>5

LEMMA ApplyRegistrationKeeps ==
    ASSUME Inv, NEW w \in Workers, ApplyRegistration(w)
    PROVE  Inv'
<1>1. PICK i, u : i = tx[w].request /\ u = tx[w].user
  OBVIOUS
<1>2. PICK s : s = requests[i].subject
  OBVIOUS
<1>3. PICK c, n : c = s.covenant /\ n = s.number
  OBVIOUS
<1>4. REGISTRATION \in Operations \ {WAIVER} /\ REGISTRATION # RETIREMENT
  BY DEF Operations, REGISTRATION, WAIVER, RETIREMENT
<1>5. Applying(w, REGISTRATION) /\ active' = active
  BY DEF ApplyRegistration
<1>6. /\ i \in DOMAIN requests /\ u \in Users /\ requests[i].operation = REGISTRATION
      /\ requests[i].state = PENDING /\ s \in Subject /\ c \in Covenants
      /\ n \in DOMAIN versions[c]
      /\ requests' \in Seq(Request) /\ notices' = notices /\ Len(requests') = Len(requests)
      /\ tx' \in [Workers -> {Idle} \union Retiring \union Approving]
      /\ UNCHANGED <<clock, waivers, cure>>
  BY <1>1, <1>2, <1>3, <1>4, <1>5, ApplyingFacts
<1>7. /\ versions[c] \in Seq(Version) /\ versions[c][n] \in Version
      /\ versions \in [Covenants -> Seq(Version)]
      /\ Len(versions[c]) \in Nat /\ DOMAIN versions[c] = 1..Len(versions[c])
  BY <1>6, Rows DEF Inv, TypeOK, Last
\* The row it writes was staged, so it is the last one.
<1>8. versions[c][n].approver = NoOne /\ n = Len(versions[c]) /\ u # NoOne
  <2>1. versions[c][n].approver = NoOne
    BY <1>2, <1>3, <1>6 DEF Inv, Agree, ForVersion, VersionOf, PENDING, APPROVED
  <2> QED
    BY <1>6, <2>1, ApprovalsAssumption DEF Inv, Ordered, InOrder
<1>9. PICK row : row = [[versions[c][n] EXCEPT !.status = LIVE] EXCEPT !.approver = u]
  OBVIOUS
<1>10. /\ row \in Version /\ row.status = LIVE /\ row.approver = u
       /\ row.maker = versions[c][n].maker /\ row.from = versions[c][n].from
       /\ LIVE \notin Staged
  BY <1>6, <1>7, <1>9 DEF Version, Status, Person, Staged, LIVE, DRAFT, PENDING_APPROVAL
<1>11. PICK rows : rows = [versions[c] EXCEPT ![n] = row]
  OBVIOUS
<1>12. /\ rows \in Seq(Version) /\ DOMAIN rows = DOMAIN versions[c]
       /\ Len(rows) = Len(versions[c]) /\ rows[n] = row
       /\ \A m \in DOMAIN versions[c] : m # n => rows[m] = versions[c][m]
  BY <1>6, <1>7, <1>10, <1>11, RowReplaced
<1>13. versions' = [versions EXCEPT ![c] = rows]
  BY <1>1, <1>2, <1>3, <1>6, <1>7, <1>9, <1>11 DEF ApplyRegistration
<1>14. /\ versions'[c] = rows /\ \A d \in Covenants : d # c => versions'[d] = versions[d]
       /\ versions' \in [Covenants -> Seq(Version)]
  BY <1>6, <1>7, <1>12, <1>13
<1>15. \A d \in Covenants : \A m \in DOMAIN versions[d] :
         s # About(d, m) => d # c \/ m # n
  BY <1>3, <1>6 DEF Subject, About
<1>16. Applies(REGISTRATION, i, u)
  BY <1>2, <1>3, <1>4, <1>5, <1>6, <1>10, <1>12, <1>14, <1>15 DEF Applies
<1>17. Refer' /\ OneRequest' /\ Proposed' /\ Agree' /\ Held' /\ ToldOnce'
  BY <1>1, <1>4, <1>5, <1>16, AppliedKeeps
<1>18. TypeOK'
  BY <1>5, <1>6, <1>14 DEF Inv, TypeOK
<1>19. Ordered'
  <2>1. InOrder(active[c], versions[c])
    BY <1>6 DEF Inv, Ordered
  <2>2. n = 1 /\ DOMAIN rows = {1}
    <3>1. n = 1
      BY <1>2, <1>3, <1>6 DEF Inv, Refer
    <3> QED
      BY <1>7, <1>8, <1>12, <3>1
  <2>3. active[c] # "absent"
    BY <1>6, <2>1 DEF InOrder
  <2>4. \A m \in DOMAIN rows : m = n /\ n = Len(rows)
    BY <1>8, <1>12, <2>2
  <2>5. \A m \in DOMAIN rows : rows[m].status \notin Staged /\ rows[m].approver # NoOne
    BY <1>8, <1>10, <1>12, <2>4
  <2>6. \A k, m \in DOMAIN rows : ~(k < m)
    BY <2>2
  <2>7. InOrder(active[c], rows)
    BY <2>3, <2>4, <2>5, <2>6 DEF InOrder
  <2> QED
    BY <1>5, <1>14, <2>7 DEF Inv, Ordered
<1> QED
  BY <1>17, <1>18, <1>19 DEF Inv

LEMMA ApplyRetirementKeeps ==
    ASSUME Inv, NEW w \in Workers, ApplyRetirement(w)
    PROVE  Inv'
<1>1. PICK i, u : i = tx[w].request /\ u = tx[w].user
  OBVIOUS
<1>2. PICK s : s = requests[i].subject
  OBVIOUS
<1>3. PICK c, n : c = s.covenant /\ n = s.number
  OBVIOUS
<1>4. /\ RETIREMENT \in Operations \ {WAIVER} /\ RETIREMENT \notin {REGISTRATION, AMENDMENT}
  BY DEF Operations, REGISTRATION, AMENDMENT, WAIVER, RETIREMENT
<1>5. Applying(w, RETIREMENT)
  BY DEF ApplyRetirement
<1>6. /\ i \in DOMAIN requests /\ requests[i].operation = RETIREMENT
      /\ s \in Subject /\ c \in Covenants /\ n \in DOMAIN versions[c]
      /\ requests' \in Seq(Request) /\ notices' = notices /\ Len(requests') = Len(requests)
      /\ tx' \in [Workers -> {Idle} \union Retiring \union Approving]
      /\ UNCHANGED <<clock, waivers, cure>>
  BY <1>1, <1>2, <1>3, <1>4, <1>5, ApplyingFacts
<1>7. /\ versions[c] \in Seq(Version) /\ versions[c][n] \in Version
      /\ versions \in [Covenants -> Seq(Version)]
      /\ active \in [Covenants -> {"absent", "active", "inactive"}]
  BY <1>6, Rows DEF Inv, TypeOK
<1>8. versions[c][n].approver # NoOne
  BY <1>2, <1>3, <1>6 DEF Inv, Agree, ForEnd, VersionOf
<1>9. PICK row : row = [versions[c][n] EXCEPT !.status = RETIRED]
  OBVIOUS
<1>10. /\ row \in Version /\ row.status = RETIRED /\ row.approver = versions[c][n].approver
       /\ row.maker = versions[c][n].maker /\ row.from = versions[c][n].from
       /\ row.to = versions[c][n].to /\ RETIRED \notin Staged /\ RETIRED # LIVE
  BY <1>7, <1>9 DEF Version, Status, Staged, LIVE, RETIRED, DRAFT, PENDING_APPROVAL
<1>11. PICK rows : rows = [versions[c] EXCEPT ![n] = row]
  OBVIOUS
<1>12. /\ rows \in Seq(Version) /\ DOMAIN rows = DOMAIN versions[c]
       /\ Len(rows) = Len(versions[c]) /\ rows[n] = row
       /\ \A m \in DOMAIN versions[c] : m # n => rows[m] = versions[c][m]
  BY <1>6, <1>7, <1>10, <1>11, RowReplaced
<1>13. versions' = [versions EXCEPT ![c] = rows] /\ active' = [active EXCEPT ![c] = "inactive"]
  BY <1>1, <1>2, <1>3, <1>6, <1>7, <1>9, <1>11 DEF ApplyRetirement
<1>14. /\ versions'[c] = rows /\ \A d \in Covenants : d # c => versions'[d] = versions[d]
       /\ versions' \in [Covenants -> Seq(Version)]
       /\ active'[c] = "inactive" /\ \A d \in Covenants : d # c => active'[d] = active[d]
       /\ active' \in [Covenants -> {"absent", "active", "inactive"}]
  BY <1>6, <1>7, <1>12, <1>13
<1>15. Applies(RETIREMENT, i, u)
  <2>1. ASSUME NEW d \in Covenants, NEW m \in DOMAIN versions[d]
        PROVE  /\ DOMAIN versions'[d] = DOMAIN versions[d]
               /\ versions'[d][m].maker = versions[d][m].maker
               /\ versions'[d][m].approver = versions[d][m].approver
    BY <1>6, <1>10, <1>12, <1>14
  <2>2. \A d \in Covenants : DOMAIN versions'[d] = DOMAIN versions[d]
    BY <1>12, <1>14
  <2>3. \A d \in Covenants : active[d] = "inactive" => active'[d] = "inactive"
    BY <1>14
  <2> QED
    BY <1>2, <1>3, <1>4, <1>14, <2>1, <2>2, <2>3 DEF Applies
<1>16. Refer' /\ OneRequest' /\ Proposed' /\ Agree' /\ Held' /\ ToldOnce'
  BY <1>1, <1>4, <1>5, <1>15, AppliedKeeps
<1>17. TypeOK'
  BY <1>6, <1>14 DEF Inv, TypeOK
<1>18. Ordered'
  <2>1. InOrder(active[c], versions[c])
    BY <1>6 DEF Inv, Ordered
  <2>2. \A m \in DOMAIN rows :
          /\ rows[m].from = versions[c][m].from /\ rows[m].to = versions[c][m].to
          /\ rows[m].approver = versions[c][m].approver
          /\ rows[m].status \in Staged <=> versions[c][m].status \in Staged
          /\ rows[m].status = LIVE => versions[c][m].status = LIVE
    BY <1>6, <1>8, <1>10, <1>12, <2>1 DEF InOrder
  <2>3. ASSUME NEW m \in DOMAIN rows, rows[m].status = LIVE
        PROVE  m = Len(rows) \/ (m + 1 = Len(rows) /\ rows[Len(rows)].status \in Staged)
    <3>1. \A k \in DOMAIN versions[c] : k \in Nat
      BY <1>6, Rows DEF Inv
    <3>2. m = Len(rows) \/ (m + 1 = Len(rows) /\ versions[c][Len(rows)].status \in Staged)
      BY <1>12, <2>1, <2>2, <2>3 DEF InOrder
    <3>3. DOMAIN versions[c] = 1..Len(versions[c])
      BY <1>6, Rows DEF Inv, Last
    <3> QED
      BY <1>12, <2>2, <3>1, <3>2, <3>3
  <2>4. InOrder("inactive", rows)
    BY <1>12, <2>1, <2>2, <2>3 DEF InOrder
  <2> QED
    BY <1>14, <2>4 DEF Inv, Ordered
<1> QED
  BY <1>16, <1>17, <1>18 DEF Inv

LEMMA ApplyAmendmentKeeps ==
    ASSUME Inv, NEW w \in Workers, ApplyAmendment(w)
    PROVE  Inv'
<1>1. PICK i, u, k : i = tx[w].request /\ u = tx[w].user /\ k = tx[w].current
  OBVIOUS
<1>2. PICK s : s = requests[i].subject
  OBVIOUS
<1>3. PICK c, n : c = s.covenant /\ n = s.number
  OBVIOUS
<1>4. AMENDMENT \in Operations \ {WAIVER} /\ AMENDMENT # RETIREMENT
  BY DEF Operations, AMENDMENT, WAIVER, RETIREMENT
<1>5. Applying(w, AMENDMENT) /\ active' = active
  BY DEF ApplyAmendment
<1>6. /\ i \in DOMAIN requests /\ u \in Users /\ requests[i].operation = AMENDMENT
      /\ requests[i].state = PENDING /\ s \in Subject /\ c \in Covenants
      /\ n \in DOMAIN versions[c]
      /\ requests' \in Seq(Request) /\ notices' = notices /\ Len(requests') = Len(requests)
      /\ tx' \in [Workers -> {Idle} \union Retiring \union Approving]
      /\ UNCHANGED <<clock, waivers, cure>>
  BY <1>1, <1>2, <1>3, <1>4, <1>5, ApplyingFacts
<1>7. /\ versions[c] \in Seq(Version) /\ \A m \in DOMAIN versions[c] : versions[c][m] \in Version
      /\ versions \in [Covenants -> Seq(Version)]
      /\ Len(versions[c]) \in Nat /\ DOMAIN versions[c] = 1..Len(versions[c])
  BY <1>6, Rows DEF Inv, TypeOK, Last
\* The row it makes live is the last, the one it closes stands before it.
<1>8. InOrder(active[c], versions[c])
  BY <1>6 DEF Inv, Ordered
<1>9. versions[c][n].approver = NoOne /\ n = Len(versions[c]) /\ u # NoOne
  <2>1. versions[c][n].approver = NoOne
    BY <1>2, <1>3, <1>6 DEF Inv, Agree, ForVersion, VersionOf, PENDING, APPROVED
  <2> QED
    BY <1>6, <1>8, <2>1, ApprovalsAssumption DEF InOrder
<1>10. k \in DOMAIN versions[c] /\ k + 1 = n /\ k \in Nat /\ k # n
  <2>1. k \in DOMAIN versions[c] /\ k + 1 = n
    BY <1>1, <1>2, <1>3, <1>5, <1>6 DEF Inv, Held, Applying
  <2> QED
    BY <1>7, <2>1
<1>11. versions[c][k].status \notin Staged /\ versions[c][k].approver # NoOne
  BY <1>8, <1>9, <1>10 DEF InOrder
<1>12. PICK closed : closed = [[versions[c][k] EXCEPT !.to = versions[c][n].from]
                                              EXCEPT !.status = SUPERSEDED]
  OBVIOUS
<1>13. PICK opened : opened = [[versions[c][n] EXCEPT !.status = LIVE] EXCEPT !.approver = u]
  OBVIOUS
<1>14. /\ closed \in Version /\ closed.status = SUPERSEDED /\ closed.to = versions[c][n].from
       /\ closed.from = versions[c][k].from /\ closed.maker = versions[c][k].maker
       /\ closed.approver = versions[c][k].approver
       /\ SUPERSEDED \notin Staged /\ SUPERSEDED # LIVE /\ LIVE \notin Staged
  BY <1>6, <1>7, <1>10, <1>12
     DEF Version, Status, Staged, LIVE, SUPERSEDED, DRAFT, PENDING_APPROVAL
<1>15. /\ opened \in Version /\ opened.status = LIVE /\ opened.approver = u
       /\ opened.maker = versions[c][n].maker /\ opened.from = versions[c][n].from
  BY <1>6, <1>7, <1>13 DEF Version, Status, Person, Staged
<1>16. PICK half, rows : half = [versions[c] EXCEPT ![k] = closed] /\ rows = [half EXCEPT ![n] = opened]
  OBVIOUS
<1>17. /\ half \in Seq(Version) /\ DOMAIN half = DOMAIN versions[c] /\ Len(half) = Len(versions[c])
       /\ half[k] = closed /\ \A m \in DOMAIN versions[c] : m # k => half[m] = versions[c][m]
  BY <1>7, <1>10, <1>14, <1>16, RowReplaced
<1>18. /\ rows \in Seq(Version) /\ DOMAIN rows = DOMAIN half /\ Len(rows) = Len(half)
       /\ rows[n] = opened /\ \A m \in DOMAIN half : m # n => rows[m] = half[m]
  BY <1>6, <1>15, <1>16, <1>17, RowReplaced
<1>19. versions' = [versions EXCEPT ![c] = rows]
  <2>1. versions' = [versions EXCEPT
          ![c][k].to = versions[c][n].from, ![c][k].status = SUPERSEDED,
          ![c][n].status = LIVE, ![c][n].approver = u]
    BY <1>1, <1>2, <1>3 DEF ApplyAmendment
  <2>2. PICK a, b : /\ a = [versions[c][k] EXCEPT !.to = versions[c][n].from]
                    /\ b = [versions[c][n] EXCEPT !.status = LIVE]
    OBVIOUS
  <2>3. PICK h, j : h = [versions[c] EXCEPT ![k] = a] /\ j = [half EXCEPT ![n] = b]
    OBVIOUS
  <2>4. /\ h[k] = a /\ [h EXCEPT ![k] = closed] = half /\ [a EXCEPT !.status = SUPERSEDED] = closed
    BY <1>7, <1>10, <1>12, <1>16, <2>2, <2>3
  <2>5. /\ half[n] = versions[c][n] /\ j[n] = b /\ [j EXCEPT ![n] = opened] = rows
        /\ [b EXCEPT !.approver = u] = opened
    BY <1>6, <1>10, <1>13, <1>16, <1>17, <2>2, <2>3
  <2>6. PICK v1, v2, v3 : /\ v1 = [versions EXCEPT ![c] = h] /\ v2 = [v1 EXCEPT ![c] = half]
                          /\ v3 = [v2 EXCEPT ![c] = j]
    OBVIOUS
  <2>7. v1[c] = h /\ v2[c] = half /\ v3[c] = j /\ [v3 EXCEPT ![c] = rows] = [versions EXCEPT ![c] = rows]
    BY <1>6, <1>7, <2>6
  <2>8. v1 = [versions EXCEPT ![c][k].to = versions[c][n].from]
    BY <2>2, <2>3, <2>6
  <2>9. v2 = [v1 EXCEPT ![c][k].status = SUPERSEDED]
    <3>1. half = [v1[c] EXCEPT ![k] = [v1[c][k] EXCEPT !.status = SUPERSEDED]]
      BY <2>4, <2>7
    <3> QED
      BY <2>6, <3>1
  <2>10. v3 = [v2 EXCEPT ![c][n].status = LIVE]
    <3>1. j = [v2[c] EXCEPT ![n] = [v2[c][n] EXCEPT !.status = LIVE]]
      BY <2>2, <2>3, <2>5, <2>7
    <3> QED
      BY <2>6, <3>1
  <2>11. [v3 EXCEPT ![c] = rows] = [v3 EXCEPT ![c][n].approver = u]
    <3>1. rows = [v3[c] EXCEPT ![n] = [v3[c][n] EXCEPT !.approver = u]]
      BY <2>5, <2>7
    <3> QED
      BY <3>1
  <2> QED
    BY <2>1, <2>7, <2>8, <2>9, <2>10, <2>11
<1>20. /\ versions'[c] = rows /\ \A d \in Covenants : d # c => versions'[d] = versions[d]
       /\ versions' \in [Covenants -> Seq(Version)]
  BY <1>6, <1>7, <1>18, <1>19
<1>21. \A d \in Covenants : \A m \in DOMAIN versions[d] : s # About(d, m) => d # c \/ m # n
  BY <1>3, <1>6 DEF Subject, About
<1>22. \A m \in DOMAIN versions[c] :
         /\ rows[m].from = versions[c][m].from /\ rows[m].maker = versions[c][m].maker
         /\ m # n => rows[m].approver = versions[c][m].approver
         /\ m # n /\ m # k => rows[m] = versions[c][m]
         /\ m = k => rows[m] = closed
  BY <1>10, <1>14, <1>15, <1>17, <1>18
<1>23. Applies(AMENDMENT, i, u)
  <2>1. \A d \in Covenants : /\ DOMAIN versions'[d] = DOMAIN versions[d]
                             /\ active[d] = "inactive" => active'[d] = "inactive"
    BY <1>5, <1>17, <1>18, <1>20
  <2>2. ASSUME NEW d \in Covenants, NEW m \in DOMAIN versions[d]
        PROVE  /\ versions'[d][m].maker = versions[d][m].maker
               /\ d # c \/ m # n => versions'[d][m].approver = versions[d][m].approver
    BY <1>20, <1>22
  <2>3. versions'[c][n].approver = u
    BY <1>15, <1>18, <1>20
  <2> QED
    BY <1>2, <1>3, <1>4, <1>21, <2>1, <2>2, <2>3 DEF Applies
<1>24. Refer' /\ OneRequest' /\ Proposed' /\ Agree' /\ Held' /\ ToldOnce'
  BY <1>1, <1>4, <1>5, <1>23, AppliedKeeps
<1>25. TypeOK'
  BY <1>5, <1>6, <1>20 DEF Inv, TypeOK
<1>26. Ordered'
  <2>1. active[c] # "absent" /\ DOMAIN rows = DOMAIN versions[c] /\ n = Len(rows)
    BY <1>6, <1>8, <1>9, <1>17, <1>18 DEF InOrder
  <2>2. ASSUME NEW m \in DOMAIN rows
        PROVE  /\ rows[m].status \notin Staged /\ rows[m].approver # NoOne
               /\ rows[m].status = LIVE => m = Len(rows)
    <3>1. CASE m = n
      BY <1>9, <1>14, <1>15, <1>18, <2>1, <3>1
    <3>2. CASE m = k
      BY <1>11, <1>14, <1>22, <2>1, <3>2
    <3>3. CASE m # n /\ m # k
      <4>1. rows[m] = versions[c][m] /\ m \in DOMAIN versions[c] /\ m # Len(versions[c])
        BY <1>9, <1>22, <2>1, <3>3
      <4>2. m + 1 # Len(versions[c])
        BY <1>7, <1>9, <1>10, <3>3, <4>1
      <4> QED
        BY <1>8, <4>1, <4>2 DEF InOrder
    <3> QED
      BY <3>1, <3>2, <3>3
  <2>3. ASSUME NEW l \in DOMAIN rows, NEW m \in DOMAIN rows, l < m
        PROVE  rows[l].from < rows[m].from /\ rows[l].to <= rows[m].from
    <3>1. rows[l].from < rows[m].from
      BY <1>8, <1>22, <2>1, <2>3 DEF InOrder
    <3>2. l # n /\ (l = k => m = n)
      BY <1>7, <1>9, <1>10, <2>1, <2>3
    <3>3. CASE l = k
      <4>1. m = n /\ rows[l].to = versions[c][n].from
        BY <1>14, <1>22, <2>1, <3>2, <3>3
      <4>2. versions[c][n].from \in Nat
        BY <1>6, <1>7, RegistryAssumption DEF Version
      <4> QED
        BY <1>22, <2>1, <3>1, <4>1, <4>2
    <3>4. CASE l # k
      <4>1. rows[l] = versions[c][l] /\ versions[c][l].approver # NoOne
        BY <1>22, <2>1, <2>2, <3>2, <3>4
      <4>2. CASE m # n
        <5>1. versions[c][m].approver # NoOne
          BY <1>22, <2>1, <2>2, <4>2
        <5> QED
          BY <1>8, <1>22, <2>1, <2>3, <3>1, <4>1, <5>1 DEF InOrder
      <4>3. CASE m = n
        <5>1. l < k
          BY <1>7, <1>10, <2>1, <2>3, <3>4, <4>3
        <5>2. /\ versions[c][l].to <= versions[c][k].from
              /\ versions[c][k].from < versions[c][n].from
          BY <1>6, <1>7, <1>8, <1>10, <1>11, <2>1, <4>1, <5>1 DEF InOrder
        <5>3. /\ versions[c][l].to \in Nat /\ versions[c][k].from \in Nat
              /\ versions[c][n].from \in Nat
          BY <1>6, <1>7, <1>10, <2>1, RegistryAssumption DEF Version
        <5> QED
          BY <1>22, <2>1, <3>1, <4>1, <4>3, <5>2, <5>3
      <4> QED
        BY <4>2, <4>3
    <3> QED
      BY <3>3, <3>4
  <2>4. InOrder(active[c], rows)
    BY <2>1, <2>2, <2>3 DEF InOrder
  <2> QED
    BY <1>5, <1>20, <2>4 DEF Inv, Ordered
<1> QED
  BY <1>24, <1>25, <1>26 DEF Inv
-----------------------------------------------------------------------------
LEMMA InitHolds == ASSUME Init PROVE Inv
<1>1. /\ clock = 1 /\ requests = <<>> /\ notices = <<>>
      /\ active = [c \in Covenants |-> "absent"] /\ versions = [c \in Covenants |-> <<>>]
      /\ waivers = [c \in Covenants |-> <<>>] /\ cure = [c \in Covenants |-> FALSE]
      /\ tx = [w \in Workers |-> Idle]
  BY DEF Init, ApprovalsInit
<1>2. TypeOK
  BY <1>1 DEF TypeOK
<1>3. \A w \in Workers : tx[w].kind = "idle"
  BY <1>1 DEF Idle
<1>4. Held
  BY <1>3 DEF Held
<1>5. DOMAIN requests = {} /\ \A c \in Covenants : versions[c] = <<>> /\ DOMAIN versions[c] = {}
  BY <1>1
<1>6. Refer /\ OneRequest /\ Proposed /\ Agree /\ ToldOnce
  BY <1>5 DEF Refer, OneRequest, Proposed, Agree, ToldOnce
<1>7. Ordered
  BY <1>5 DEF Ordered, InOrder
<1> QED
  BY <1>2, <1>4, <1>6, <1>7 DEF Inv

LEMMA StepKeeps == ASSUME Inv, [Next]_vars PROVE Inv'
<1>1. CASE UNCHANGED vars
  <2>1. UNCHANGED <<clock, requests, notices, active, versions, waivers, cure, tx>>
    BY <1>1 DEF vars
  <2>2. /\ clock' \in Nat /\ cure' \in [Covenants -> BOOLEAN]
        /\ tx' \in [Workers -> {Idle} \union Retiring \union Approving]
    BY <2>1 DEF Inv, TypeOK
  <2> QED
    BY <2>1, <2>2, NothingRead
<1>2. ASSUME NEW w \in Workers, NEW u \in Users, NEW c \in Covenants, Propose(w, u, c)
      PROVE  Inv'
  BY <1>2, RegisterKeeps, AmendKeeps, RequestWaiverKeeps, CheckRetirementKeeps DEF Propose
<1>3. ASSUME NEW w \in Workers, NEW u \in Users, NEW i \in DOMAIN requests, Settle(w, u, i)
      PROVE  Inv'
  BY <1>3, DecideLateKeeps, RejectKeeps, ApproveWaiverKeeps, ApproveKeeps DEF Settle
<1>4. ASSUME NEW w \in Workers, NEW u \in Users, OpenQueue(w, u)
      PROVE  Inv'
  BY <1>4, OpenQueueKeeps
<1>5. ASSUME NEW w \in Workers, Write(w)
      PROVE  Inv'
  BY <1>5, SubmitRetirementKeeps, ApplyRegistrationKeeps, ApplyAmendmentKeeps,
     ApplyRetirementKeeps DEF Write
<1>6. ASSUME NEW w \in Workers, Crash(w)
      PROVE  Inv'
  BY <1>6, CrashKeeps
<1>7. ASSUME NEW c \in Covenants, CureChanges(c)
      PROVE  Inv'
  BY <1>7, CureKeeps
<1>8. CASE Elapse
  BY <1>8, ElapseKeeps
<1> QED
  BY <1>1, <1>2, <1>3, <1>4, <1>5, <1>6, <1>7, <1>8 DEF Next

\* The rows of requests, versions, waivers and transactions stay consistent with one
\* another, whoever works on them at the same time and whoever is lost (services/registry.py).
THEOREM Invariance == Spec => []Inv
<1>1. Init => Inv
  BY InitHolds
<1>2. Inv /\ [Next]_vars => Inv'
  BY StepKeeps
<1> QED
  BY <1>1, <1>2, PTL DEF Spec

\* Every column and every transaction of the registry keeps its type.
THEOREM RegistryTypeCorrect == Spec => []TypeOK
<1>1. Inv => TypeOK
  BY DEF Inv
<1> QED
  BY <1>1, Invariance, PTL

\* A covenant never has two live versions: an approved amendment supersedes the version
\* before it, and nobody can propose one beside a staged version (registry.py's amend).
THEOREM NeverTwoLive == Spec => []OneLive
<1>1. ASSUME Inv PROVE OneLive
  <2>1. ASSUME NEW c \in Covenants, NEW m \in LiveVersions(c), NEW n \in LiveVersions(c)
        PROVE  m = n
    <3>1. /\ m \in DOMAIN versions[c] /\ n \in DOMAIN versions[c]
          /\ versions[c][m].status = LIVE /\ versions[c][n].status = LIVE
      BY DEF LiveVersions
    <3>2. DOMAIN versions[c] = 1..Len(versions[c]) /\ Len(versions[c]) \in Nat
      BY <1>1, Rows DEF Inv, Last
    <3>3. LIVE \notin Staged
      BY DEF LIVE, Staged, DRAFT, PENDING_APPROVAL
    <3>4. InOrder(active[c], versions[c])
      BY <1>1 DEF Inv, Ordered
    <3> QED
      BY <3>1, <3>2, <3>3, <3>4 DEF InOrder
  <2> QED
    BY <2>1 DEF OneLive
<1> QED
  BY <1>1, Invariance, PTL

\* No version is used but by an approved request for it, decided by somebody other than
\* the user who made it (services/approvals.py's decide).
THEOREM UsedOnlyIfApproved == Spec => []ApprovedByAnother
<1>1. ASSUME Inv PROVE ApprovedByAnother
  <2>1. ASSUME NEW c \in Covenants, NEW n \in DOMAIN versions[c], versions[c][n].status \notin Staged
        PROVE  /\ versions[c][n].approver # versions[c][n].maker
               /\ \E i \in DOMAIN requests :
                    /\ requests[i].operation \in {REGISTRATION, AMENDMENT}
                    /\ requests[i].subject = About(c, n)
                    /\ requests[i].state = APPROVED
                    /\ requests[i].checker = versions[c][n].approver
    <3>1. PICK i \in DOMAIN requests : ForVersion(i) /\ requests[i].subject = About(c, n)
      BY <1>1 DEF Inv, Proposed
    <3>2. VersionOf(i) = versions[c][n]
      BY <3>1 DEF VersionOf, About
    <3>3. versions[c][n].approver # NoOne
      BY <1>1, <2>1 DEF Inv, Ordered, InOrder
    <3>4. /\ requests[i].state = APPROVED /\ requests[i].checker = versions[c][n].approver
          /\ requests[i].checker \in Users \ {requests[i].maker}
          /\ versions[c][n].maker = requests[i].maker
      BY <1>1, <3>1, <3>2, <3>3 DEF Inv, Agree
    <3> QED
      BY <3>1, <3>4 DEF ForVersion
  <2> QED
    BY <2>1 DEF ApprovedByAnother
<1> QED
  BY <1>1, Invariance, PTL

\* Two versions that are or were live cover no date together, though the approval of an
\* amendment rewrites the end of the version before it (_apply_amendment_approval).
THEOREM RangesNeverMeet == Spec => []RangesDisjoint
<1>1. ASSUME Inv PROVE RangesDisjoint
  <2>1. LIVE \notin Staged /\ SUPERSEDED \notin Staged
    BY DEF LIVE, SUPERSEDED, Staged, DRAFT, PENDING_APPROVAL
  <2>2. \A c \in Covenants : InOrder(active[c], versions[c])
    BY <1>1 DEF Inv, Ordered
  <2> QED
    BY <2>1, <2>2 DEF RangesDisjoint, InOrder
<1> QED
  BY <1>1, Invariance, PTL

\* Whoever finds an expired request, its maker is told of it once (approvals.py:313).
THEOREM MakerToldOnce == Spec => []ToldOnce
<1>1. Inv => ToldOnce
  BY DEF Inv
<1> QED
  BY <1>1, Invariance, PTL
-----------------------------------------------------------------------------
\* What a step may do to the table of requests.
Added    == \E op \in Operations, s \in Subject, u \in Users : Submit(op, s, u)
Agreed   == \E i \in DOMAIN requests, u \in Users :
              requests[i].state = PENDING /\ requests[i].maker # u /\ Decide(i, u, APPROVED)
Declined == \E i \in DOMAIN requests, u \in Users :
              requests[i].state = PENDING /\ Decide(i, u, REJECTED)
RanOut   == \E S \in SUBSET DOMAIN requests :
              S # {} /\ (\A i \in S : requests[i].state = PENDING) /\ Expire(S)

LEMMA TableSteps ==
    ASSUME Inv, [Next]_vars
    PROVE  requests' = requests \/ Added \/ Agreed \/ Declined \/ RanOut
<1>1. CASE UNCHANGED vars
  BY <1>1 DEF vars
<1>2. ASSUME NEW w \in Workers, NEW u \in Users, NEW c \in Covenants, Propose(w, u, c)
      PROVE  requests' = requests \/ Added
  <2>1. ASSUME NEW n \in Nat PROVE About(c, n) \in Subject
    BY DEF About, Subject
  <2>2. {REGISTRATION, AMENDMENT, WAIVER} \subseteq Operations
    BY DEF Operations
  <2>3. Last(c) + 1 \in Nat /\ Len(waivers[c]) + 1 \in Nat /\ 1 \in Nat
    BY Rows DEF Inv
  <2>4. CASE CheckRetirement(w, u, c)
    BY <2>4 DEF CheckRetirement
  <2>5. CASE RequestWaiver(w, u, c)
    BY <2>1, <2>2, <2>3, <2>5 DEF RequestWaiver, Added
  <2>6. ASSUME NEW f \in Days, NEW t \in Days \union {Forever}, Register(w, u, c, f, t)
        PROVE  Added
    BY <2>1, <2>2, <2>6 DEF Register, Added
  <2>7. ASSUME NEW f \in Days, NEW t \in Days \union {Forever}, Amend(w, u, c, f, t)
        PROVE  Added
    BY <2>1, <2>2, <2>3, <2>7 DEF Amend, Added
  <2> QED
    BY <1>2, <2>4, <2>5, <2>6, <2>7 DEF Propose
<1>3. ASSUME NEW w \in Workers, NEW u \in Users, NEW i \in DOMAIN requests, Settle(w, u, i)
      PROVE  requests' = requests \/ Agreed \/ Declined \/ RanOut
  <2>1. CASE DecideLate(w, u, i)
    <3>1. {i} \in SUBSET DOMAIN requests /\ {i} # {} /\ Expire({i})
          /\ \A j \in {i} : requests[j].state = PENDING
      BY <2>1 DEF DecideLate, Decidable
    <3> QED
      BY <3>1 DEF RanOut
  <2>2. CASE Reject(w, u, i)
    BY <2>2 DEF Reject, Decidable, Declined
  <2>3. CASE ApproveWaiver(w, u, i)
    BY <2>3 DEF ApproveWaiver, Decidable, Agreed
  <2>4. CASE Approve(w, u, i)
    BY <2>4 DEF Approve
  <2> QED
    BY <1>3, <2>1, <2>2, <2>3, <2>4 DEF Settle
<1>4. ASSUME NEW w \in Workers, NEW u \in Users, OpenQueue(w, u)
      PROVE  RanOut
  <2>1. DueFor(u) \in SUBSET DOMAIN requests /\ \A i \in DueFor(u) : requests[i].state = PENDING
    BY DEF DueFor, Decidable
  <2> QED
    BY <1>4, <2>1 DEF OpenQueue, RanOut
<1>5. ASSUME NEW w \in Workers, Write(w)
      PROVE  Added \/ Agreed
  <2>1. CASE SubmitRetirement(w)
    <3>1. tx[w].subject \in Subject /\ tx[w].user \in Users /\ RETIREMENT \in Operations
      BY <2>1, Transactions DEF Inv, SubmitRetirement, Operations
    <3> QED
      BY <2>1, <3>1 DEF SubmitRetirement, Added
  <2>2. ASSUME NEW op \in Operations \ {WAIVER}, Applying(w, op)
        PROVE  Agreed
    <3>1. PICK i, u : i = tx[w].request /\ u = tx[w].user
      OBVIOUS
    <3>2. i \in DOMAIN requests /\ u \in Users /\ requests[i].state = PENDING /\ requests[i].maker # u
      BY <2>2, <3>1, ApplyingFacts
    <3> QED
      BY <2>2, <3>1, <3>2 DEF Applying, Agreed
  <2>3. {REGISTRATION, AMENDMENT, RETIREMENT} \subseteq Operations \ {WAIVER}
    BY DEF Operations, REGISTRATION, AMENDMENT, WAIVER, RETIREMENT
  <2>4. CASE ApplyRegistration(w)
    BY <2>2, <2>3, <2>4 DEF ApplyRegistration
  <2>5. CASE ApplyAmendment(w)
    BY <2>2, <2>3, <2>5 DEF ApplyAmendment
  <2>6. CASE ApplyRetirement(w)
    BY <2>2, <2>3, <2>6 DEF ApplyRetirement
  <2> QED
    BY <1>5, <2>1, <2>4, <2>5, <2>6 DEF Write
<1>6. ASSUME NEW w \in Workers, Crash(w)
      PROVE  requests' = requests
  BY <1>6 DEF Crash
<1>7. ASSUME NEW c \in Covenants, CureChanges(c)
      PROVE  requests' = requests
  BY <1>7 DEF CureChanges
<1>8. CASE Elapse
  BY <1>8 DEF Elapse
<1> QED
  BY <1>1, <1>2, <1>3, <1>4, <1>5, <1>6, <1>7, <1>8 DEF Next

\* A decision stands: nobody who finds a decided or expired request writes to its row
\* (approvals.py:159).
THEOREM DecisionsStand == Spec => DecisionFinal
<1>1. ASSUME Inv, [Next]_vars
      PROVE  \A i \in DOMAIN requests : requests[i].state # PENDING => requests'[i] = requests[i]
  <2>1. CASE Added
    BY <1>1, <2>1, SubmitFacts DEF Inv, Added
  <2>2. CASE Agreed
    BY <1>1, <2>2, DecideFacts DEF Inv, Agreed
  <2>3. CASE Declined
    BY <1>1, <2>3, DecideFacts DEF Inv, Declined
  <2>4. CASE RanOut
    BY <1>1, <2>4, ExpireFacts DEF Inv, RanOut
  <2> QED
    BY <1>1, <2>1, <2>2, <2>3, <2>4, TableSteps
<1> QED
  BY <1>1, Invariance, PTL DEF Spec, DecisionFinal
-----------------------------------------------------------------------------
\* A request as a proposal, when the rows of the covenants agree with it.
Entry(r) ==
    [maker |-> r.maker,
     outcome |-> IF r.state = APPROVED THEN "effective"
                 ELSE IF r.state = PENDING THEN "open" ELSE "void",
     by |-> IF r.state = APPROVED THEN r.checker ELSE NoOne]

Read ==
    /\ Proposals = [i \in DOMAIN requests |-> Entry(requests[i])]
    /\ DOMAIN Proposals = DOMAIN requests
    /\ Proposals \in Seq({Entry(r) : r \in Request}) /\ Len(Proposals) = Len(requests)

LEMMA ProposalsAgree == ASSUME Inv PROVE Read
<1>1. ASSUME NEW i \in DOMAIN requests
      PROVE  /\ Effective(i) <=> requests[i].state = APPROVED
             /\ Effective(i) => EffectiveBy(i) = requests[i].checker
             /\ requests[i].state \in RequestStates
  <2>1. requests[i].operation \in Operations /\ requests[i].state \in RequestStates
    BY Rows DEF Inv, Request
  <2>2. requests[i].state = APPROVED => requests[i].checker # NoOne
    BY ApprovalsAssumption DEF Inv, Agree
  <2>3. CASE ForVersion(i)
    <3>1. VersionOf(i).approver = IF requests[i].state = APPROVED THEN requests[i].checker ELSE NoOne
      BY <2>3 DEF Inv, Agree
    <3>2. /\ Effective(i) <=> VersionOf(i).approver # NoOne
          /\ EffectiveBy(i) = VersionOf(i).approver
      BY <2>3 DEF Effective, EffectiveBy, ForVersion, VersionOf,
                  REGISTRATION, AMENDMENT, WAIVER
    <3> QED
      BY <2>1, <2>2, <3>1, <3>2
  <2>4. CASE ForWaiver(i)
    <3>1. WaiverOf(i).approver = IF requests[i].state = APPROVED THEN requests[i].checker ELSE NoOne
      BY <2>4 DEF Inv, Agree
    <3>2. /\ Effective(i) <=> WaiverOf(i).approver # NoOne
          /\ EffectiveBy(i) = WaiverOf(i).approver
      BY <2>4 DEF Effective, EffectiveBy, ForWaiver, WaiverOf,
                  REGISTRATION, AMENDMENT, WAIVER
    <3> QED
      BY <2>1, <2>2, <3>1, <3>2
  <2>5. CASE ForEnd(i)
    <3>1. /\ Effective(i) <=> /\ requests[i].state = APPROVED
                              /\ active[requests[i].subject.covenant] = "inactive"
          /\ EffectiveBy(i) = requests[i].checker
      BY <2>5 DEF Effective, EffectiveBy, ForEnd, REGISTRATION, AMENDMENT, WAIVER, RETIREMENT
    <3> QED
      BY <2>1, <2>5, <3>1 DEF Inv, Agree
  <2> QED
    BY <2>1, <2>3, <2>4, <2>5 DEF ForVersion, ForWaiver, ForEnd, Operations
<1>2. ASSUME NEW i \in DOMAIN requests
      PROVE  Outcome(i) = IF requests[i].state = APPROVED THEN "effective"
                          ELSE IF requests[i].state = PENDING THEN "open" ELSE "void"
  BY <1>1 DEF Outcome, RequestStates, PENDING, APPROVED, REJECTED, EXPIRED
<1>3. Proposals = [i \in DOMAIN requests |-> Entry(requests[i])]
  BY <1>1, <1>2 DEF Proposals, Entry
<1>4. /\ requests \in Seq(Request) /\ Len(requests) \in Nat
      /\ DOMAIN requests = 1..Len(requests) /\ \A i \in DOMAIN requests : requests[i] \in Request
  BY Rows DEF Inv, TypeOK
<1>5. Proposals \in [1..Len(requests) -> {Entry(r) : r \in Request}]
  BY <1>3, <1>4
<1>6. Proposals \in Seq({Entry(r) : r \in Request})
  BY <1>4, <1>5, SeqDef
<1>7. Len(Proposals) \in Nat /\ DOMAIN Proposals = 1..Len(Proposals)
  BY <1>6, LenProperties
<1> QED
  BY <1>3, <1>4, <1>6, <1>7 DEF Read

\* Every step is one of maker-checker's, or none.
LEMMA StepImplements ==
    ASSUME Inv, Read, Read', [Next]_vars
    PROVE  [Abstract!Next]_Proposals
<1>1. /\ Proposals = [i \in DOMAIN requests |-> Entry(requests[i])]
      /\ Proposals' = [i \in DOMAIN requests' |-> Entry(requests'[i])]
      /\ DOMAIN Proposals = DOMAIN requests /\ DOMAIN Proposals' = DOMAIN requests'
  BY DEF Read
<1>2. CASE requests' = requests
  BY <1>1, <1>2
<1>3. CASE Added
  <2>1. PICK op \in Operations, s \in Subject, u \in Users : Submit(op, s, u)
    BY <1>3 DEF Added
  <2>2. PICK k : k = Len(requests) + 1
    OBVIOUS
  <2>3. /\ DOMAIN requests' = DOMAIN requests \union {k}
        /\ \A i \in DOMAIN requests : requests'[i] = requests[i]
        /\ requests'[k].maker = u /\ requests'[k].state = PENDING
    BY <2>1, <2>2, SubmitFacts DEF Inv
  <2>4. Entry(requests'[k]) = Abstract!Proposed(u)
    BY <2>3 DEF Entry, Abstract!Proposed, PENDING, APPROVED
  <2>5. /\ Proposals \in Seq({Entry(r) : r \in Request} \union {Abstract!Proposed(u)})
        /\ Len(Proposals) = Len(requests)
    BY SeqMonotonic DEF Read
  <2>6. PICK more : more = Append(Proposals, Abstract!Proposed(u))
    OBVIOUS
  <2>7. /\ more \in Seq({Entry(r) : r \in Request} \union {Abstract!Proposed(u)})
        /\ DOMAIN more = DOMAIN Proposals \union {k} /\ more[k] = Abstract!Proposed(u)
        /\ \A i \in DOMAIN Proposals : more[i] = Proposals[i]
    BY <2>2, <2>5, <2>6, AppendFacts
  <2>8. more = [i \in DOMAIN more |-> more[i]]
    BY <2>7, LenProperties
  <2>9. Proposals' = more
    BY <1>1, <2>3, <2>4, <2>7, <2>8
  <2> QED
    BY <2>6, <2>9 DEF Abstract!Next, Abstract!Propose
<1>4. CASE Agreed
  <2>1. PICK i \in DOMAIN requests, u \in Users :
          requests[i].state = PENDING /\ requests[i].maker # u /\ Decide(i, u, APPROVED)
    BY <1>4 DEF Agreed
  <2>2. /\ DOMAIN requests' = DOMAIN requests
        /\ \A j \in DOMAIN requests : j # i => requests'[j] = requests[j]
        /\ requests'[i].maker = requests[i].maker /\ requests'[i].state = APPROVED
        /\ requests'[i].checker = u
    BY <2>1, DecideFacts DEF Inv
  <2>3. Proposals[i].outcome = "open" /\ Proposals[i].maker # u
    BY <1>1, <2>1 DEF Entry, PENDING, APPROVED
  <2>4. Entry(requests'[i]) = [[Proposals[i] EXCEPT !.outcome = "effective"] EXCEPT !.by = u]
    <3>1. Proposals[i] = [maker |-> requests[i].maker, outcome |-> "open", by |-> NoOne]
      BY <1>1, <2>1 DEF Entry, PENDING, APPROVED
    <3>2. Entry(requests'[i]) = [maker |-> requests[i].maker, outcome |-> "effective", by |-> u]
      BY <2>2 DEF Entry
    <3>3. PICK p : p = [Proposals[i] EXCEPT !.outcome = "effective"]
      OBVIOUS
    <3>4. p = [maker |-> requests[i].maker, outcome |-> "effective", by |-> NoOne]
      BY <3>1, <3>3
    <3>5. [p EXCEPT !.by = u] = [maker |-> requests[i].maker, outcome |-> "effective", by |-> u]
      BY <3>4
    <3> QED
      BY <3>2, <3>3, <3>5
  <2>5. Proposals' = [Proposals EXCEPT ![i].outcome = "effective", ![i].by = u]
    BY <1>1, <2>2, <2>4
  <2> QED
    BY <1>1, <2>3, <2>5 DEF Abstract!Next, Abstract!TakeEffect
<1>5. ASSUME NEW S \in SUBSET DOMAIN requests, S # {},
             \A i \in S : requests[i].state = PENDING,
             DOMAIN requests' = DOMAIN requests,
             \A i \in DOMAIN requests \ S : requests'[i] = requests[i],
             \A i \in S : requests'[i].maker = requests[i].maker
                         /\ requests'[i].state \in {REJECTED, EXPIRED}
      PROVE  Abstract!Next
  <2>1. \A i \in S : Proposals[i].outcome = "open"
    BY <1>1, <1>5 DEF Entry, PENDING, APPROVED
  <2>2. ASSUME NEW i \in S
        PROVE  Entry(requests'[i]) = [Proposals[i] EXCEPT !.outcome = "void"]
    <3>1. requests[i].state # APPROVED /\ requests'[i].state \notin {APPROVED, PENDING}
      BY <1>5 DEF PENDING, APPROVED, REJECTED, EXPIRED
    <3>2. Proposals[i] = Entry(requests[i]) /\ requests'[i].maker = requests[i].maker
      BY <1>1, <1>5
    <3> QED
      BY <3>1, <3>2 DEF Entry
  <2>3. Proposals' = [p \in DOMAIN Proposals |->
                        IF p \in S THEN [Proposals[p] EXCEPT !.outcome = "void"] ELSE Proposals[p]]
    BY <1>1, <1>5, <2>2
  <2>4. Abstract!Lapse(S)
    BY <1>5, <2>1, <2>3 DEF Abstract!Lapse
  <2> QED
    BY <1>1, <1>5, <2>4 DEF Abstract!Next
<1>6. CASE Declined
  <2>1. PICK i \in DOMAIN requests, u \in Users : requests[i].state = PENDING /\ Decide(i, u, REJECTED)
    BY <1>6 DEF Declined
  <2>2. /\ DOMAIN requests' = DOMAIN requests
        /\ \A j \in DOMAIN requests : j # i => requests'[j] = requests[j]
        /\ requests'[i].maker = requests[i].maker /\ requests'[i].state = REJECTED
    BY <2>1, DecideFacts DEF Inv
  <2>3. {i} \in SUBSET DOMAIN requests /\ {i} # {}
    OBVIOUS
  <2> QED
    BY <1>5, <2>1, <2>2, <2>3
<1>7. CASE RanOut
  <2>1. PICK S \in SUBSET DOMAIN requests :
          S # {} /\ (\A i \in S : requests[i].state = PENDING) /\ Expire(S)
    BY <1>7 DEF RanOut
  <2>2. /\ DOMAIN requests' = DOMAIN requests
        /\ \A i \in DOMAIN requests \ S : requests'[i] = requests[i]
        /\ \A i \in S : requests'[i].maker = requests[i].maker
                         /\ requests'[i].state \in {REJECTED, EXPIRED}
    BY <2>1, ExpireFacts DEF Inv
  <2> QED
    BY <1>5, <2>1, <2>2
<1> QED
  BY <1>2, <1>3, <1>4, <1>6, <1>7, TableSteps

\* A request's decision and its effect on the registry are one event, by one person who
\* did not make it, or there is neither (approvals.py:186).
THEOREM FourEyesImplementation == Spec => ImplementsFourEyes
<1>1. Init => Abstract!Init
  <2>1. ASSUME Init PROVE Proposals = <<>>
    <3>1. requests = <<>>
      BY <2>1 DEF Init, ApprovalsInit
    <3>2. Inv
      BY <2>1, InitHolds
    <3>3. Read
      BY <3>2, ProposalsAgree
    <3>4. Proposals \in Seq({Entry(r) : r \in Request}) /\ Len(Proposals) = 0
      BY <3>1, <3>3 DEF Read
    <3> QED
      BY <3>4, EmptySeq
  <2> QED
    BY <2>1 DEF Abstract!Init
<1>2. Inv => Read
  BY ProposalsAgree
<1>3. Inv /\ Read /\ Read' /\ [Next]_vars => [Abstract!Next]_Proposals
  BY StepImplements
<1> QED
  BY <1>1, <1>2, <1>3, Invariance, PTL DEF Spec, ImplementsFourEyes, Abstract!Spec
=============================================================================
