--------------------------- MODULE AuditIntegrity ---------------------------
(***************************************************************************)
(* services/integrity.py's audit-chain check over the chain that           *)
(* AuditChain's transactions grow: each run of the job verifies one batch  *)
(* of rows from a cursor the previous run left in its metrics.  The rows   *)
(* may come to harm in the database, outside the program: a row's content  *)
(* changes, a row is rewritten with a hash of its own, a row is lost.  The *)
(* newest row is spared, as no chain can vouch for it.                     *)
(***************************************************************************)
EXTENDS AuditChain, FiniteSetsExt

CONSTANTS Batch,      \* audit_chain_batch_size
          Losable,    \* the sequences whose rows may be lost
          MaxHarm     \* bound: rows that come to harm

ASSUME IntegrityAssumption == Batch \in Nat \ {0} /\ MaxHarm \in Nat

VARIABLES harm,     \* what became of each row that came to harm
          cursor,   \* last_verified_sequence, 0 at first
          alarm     \* the sequence of the break the last run found, or 0

vars == <<chainVars, harm, cursor, alarm>>

Harms == {"altered", "rewritten", "lost"}
None  == 0

Forged(body) == Append(body, "forged")

\* The table as a reader finds it: the sequences that are there, and their rows.
IsLost(s) == s \in DOMAIN harm /\ harm[s] = "lost"
Stored    == {s \in DOMAIN chain : ~IsLost(s)}

Found(s) ==
    IF s \notin DOMAIN harm THEN chain[s]
    ELSE IF harm[s] = "altered" THEN [chain[s] EXCEPT !.body = Forged(@)]
    ELSE [chain[s] EXCEPT !.body = Forged(@), !.hash = Forged(@)]

Newest == IF Stored = {} THEN 0 ELSE Max(Stored)

NoContext(from) == {}

\* The row before a range is verified with it, so that the first link is.
Context(from) == LET earlier == {s \in Stored : s < from}
                 IN IF earlier = {} THEN {} ELSE {Max(earlier)}

AlwaysFromGenesis(selected, from, s) ==
    LET earlier == {p \in selected : p < s}
    IN \/ earlier = {} /\ Found(s).prev # NoHash
       \/ earlier # {} /\ Found(s).prev # Found(Max(earlier)).hash
       \/ Found(s).hash # Found(s).body

\* chain.verify_chain's checks of row s, the rows selected being in order; from is
\* None for a verification of everything.
BreaksAt(selected, from, s) ==
    LET earlier == {p \in selected : p < s}
    IN \/ earlier = {} /\ from = None /\ Found(s).prev # NoHash
       \/ earlier # {} /\ Found(s).prev # Found(Max(earlier)).hash
       \/ Found(s).hash # Found(s).body

FirstBreak(selected, from) ==
    LET broken == {s \in selected : BreaksAt(selected, from, s)}
    IN IF broken = {} THEN None ELSE Min(broken)

\* AuditRepository.verify_chain of a range, and without one.
VerifyRange(from, to) ==
    LET range == Stored \intersect (from..to)
    IN IF range = {} THEN None ELSE FirstBreak(Context(from) \union range, from)

VerifyAll == FirstBreak(Stored, None)

\* The rows a run verifies: a cursor at the tail, or past it, starts again.
Resume == IF cursor < Newest THEN cursor ELSE 0
Batched(from) == Min({Newest, from - 1 + Batch})

NextCursorPastBreaks(from, to, found) == IF to >= Newest THEN 0 ELSE to

\* A break keeps the cursor where it is.
NextCursor(from, to, found) ==
    IF found # None THEN from - 1 ELSE IF to >= Newest THEN 0 ELSE to

\* _check_audit_chain, with the metrics the run's row keeps; a run that raises
\* keeps none.  With no events there is nothing to verify.
CheckFrom(from, to) ==
    /\ alarm' = VerifyRange(from, to)
    /\ cursor' = NextCursor(from, to, alarm')
    /\ UNCHANGED <<chainVars, harm>>

Check == \E from \in {Resume + 1} : \E to \in {Batched(from)} : CheckFrom(from, to)

ComesToHarm(seq, how) ==
    /\ Cardinality(DOMAIN harm) < MaxHarm
    /\ seq \in 1..(Len(chain) - 1) \ DOMAIN harm
    /\ how = "lost" => seq \in Losable
    /\ harm' = [s \in DOMAIN harm \union {seq} |-> IF s = seq THEN how ELSE harm[s]]
    /\ UNCHANGED <<chainVars, cursor, alarm>>

Init == ChainInit /\ harm = [s \in {} |-> "lost"] /\ cursor = 0 /\ alarm = None

Next ==
    \/ ChainNext /\ UNCHANGED <<harm, cursor, alarm>>
    \/ Check
    \/ \E seq \in DOMAIN chain, how \in Harms : ComesToHarm(seq, how)

Spec == Init /\ [][Next]_vars
-----------------------------------------------------------------------------
\* The cursor is the last row of a batch that was found sound, or the start.
TypeOK ==
    /\ ChainTypeOK
    /\ DOMAIN harm \subseteq DOMAIN chain /\ \A s \in DOMAIN harm : harm[s] \in Harms
    /\ cursor \in 0..Len(chain) /\ alarm \in 0..Len(chain)

\* _check_audit_chain and verify_chain: an alarm names a row that came to harm or
\* the next row left after one, whatever was appended meanwhile and wherever
\* the batches begin.
AlarmAtHarm ==
    alarm # None =>
      \E s \in DOMAIN harm :
        s <= alarm /\ \A r \in (s + 1)..(alarm - 1) : IsLost(r)

\* "The cursor is deliberately not advanced past a break": a run that follows an
\* alarm raises one too, as long as the row the first one named is there.  (Not if the
\* chain's first row, or every row of the run's batch, has been lost meanwhile.)
AlarmPersists ==
    [][Check /\ alarm # None /\ ~IsLost(alarm) => alarm' # None]_vars

\* The job is scheduled every night and retried; of the transactions, one that
\* can go on does.
Fairness ==
    /\ WF_vars(Check)
    /\ WF_vars((\E t \in Txs : TxStep(t)) /\ UNCHANGED <<harm, cursor, alarm>>)

\* "Every row is eventually re-verified": a row whose hash does not cover it, or
\* that does not link to the row before it, is reported by the rolling cursor,
\* however far behind the cursor it was harmed.
Unsound == \E s \in Stored : BreaksAt(Stored, 1, s)

HarmReported == Unsound ~> alarm # None
=============================================================================
