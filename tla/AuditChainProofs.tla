-------------------------- MODULE AuditChainProofs --------------------------
(***************************************************************************)
(* What holds of AuditChain for any transactions, threads and processes,   *)
(* on either database, and of the check of its rows for any batches and    *)
(* any harm that comes to them.                                            *)
(***************************************************************************)
EXTENDS AuditIntegrity, SequenceTheorems, FiniteSetTheorems, TLAPS

\* What Leave does to the transactions that are over and to the others.
LEMMA Leaving ==
    ASSUME ChainTypeOK, NEW S \in SUBSET Txs, NEW how \in Over, Leave(S, how)
    PROVE  /\ pc' \in [Txs -> {"open"} \union InCall \union Over]
           /\ own' \in [Txs -> Seq(Row)]
           /\ tail' \in [Txs -> TailSeen]
           /\ rlock' \in [Hosts -> Txs \union {Nobody}]
           /\ lock' \in Txs \union {Nobody}
           /\ \A t \in S : pc'[t] = how /\ own'[t] = <<>> /\ tail'[t] = NoTail
           /\ \A t \in Txs \ S :
                /\ pc'[t] = pc[t] /\ own'[t] = own[t] /\ tail'[t] = tail[t]
                /\ pc[t] \in {"entered", "serialised", "read"} => rlock'[HostOf[t]] = t
                /\ lock = t => lock' = t
<1>1. <<>> \in Seq(Row) /\ NoTail \in TailSeen
  BY DEF NoTail, TailSeen, NoHash
<1>2. \A t \in Txs : HostOf[t] \in Hosts
  BY DEF Hosts
<1> QED
  BY <1>1, <1>2 DEF Leave, ChainTypeOK

\* The row an append builds is a row of the table.
LEMMA NextRowType ==
    ASSUME ChainTypeOK, NEW t \in Txs
    PROVE  NextRow(t) \in Row
<1>1. tail[t] \in TailSeen /\ own[t] \in Seq(Row)
  BY DEF ChainTypeOK
<1>2. Len(own[t]) + 1 \in Nat \ {0} /\ tail[t].seq + 1 \in Nat \ {0}
  BY <1>1, LenProperties DEF TailSeen
<1> QED
  BY <1>1, <1>2 DEF NextRow, Row, TailSeen, Content

\* What a transaction sees is a sequence of rows, and its tail is one.
LEMMA ViewType ==
    ASSUME ChainTypeOK, NEW t \in Txs
    PROVE  /\ View(t) \in Seq(Row)
           /\ Len(View(t)) = Len(chain) + Len(own[t])
           /\ TailOf(View(t)) \in TailSeen
<1>1. chain \in Seq(Row) /\ own[t] \in Seq(Row)
  BY DEF ChainTypeOK
<1>2. View(t) \in Seq(Row) /\ Len(View(t)) = Len(chain) + Len(own[t])
  BY <1>1, ConcatProperties DEF View
<1>3. TailOf(View(t)) \in TailSeen
  <2>1. CASE View(t) = <<>>
    BY <2>1 DEF TailOf, NoTail, TailSeen, NoHash
  <2>2. CASE View(t) # <<>>
    <3>1. Len(View(t)) \in DOMAIN View(t)
      BY <1>2, <2>2, LenProperties, EmptySeq
    <3>2. View(t)[Len(View(t))] \in Row
      BY <1>2, <3>1, ElementOfSeq, LenProperties
    <3> QED
      BY <2>2, <3>2 DEF TailOf, Row, TailSeen
  <2> QED
    BY <2>1, <2>2
<1> QED
  BY <1>2, <1>3
-----------------------------------------------------------------------------
LEMMA TypeInit == ChainInit => ChainTypeOK
<1>1. NoTail \in TailSeen
  BY DEF NoTail, TailSeen, NoHash
<1>2. <<>> \in Seq(Row)
  OBVIOUS
<1> QED
  BY <1>1, <1>2 DEF ChainInit, ChainTypeOK

\* Every step keeps the types and who holds a process's lock.
LEMMA TypeStep == ChainTypeOK /\ [ChainNext]_chainVars => ChainTypeOK'
<1> SUFFICES ASSUME ChainTypeOK, [ChainNext]_chainVars
             PROVE  ChainTypeOK'
  OBVIOUS
<1>h. \A t \in Txs : HostOf[t] \in Hosts
  BY DEF Hosts
<1>n. Nobody \notin Txs
  BY ChainAssumption
<1>1. ASSUME NEW t \in Txs, Save(t) PROVE ChainTypeOK'
  BY <1>1 DEF ChainTypeOK, Save, InCall, Over
<1>2. ASSUME NEW t \in Txs, Saved(t) PROVE ChainTypeOK'
  BY <1>2 DEF ChainTypeOK, Saved, InCall, Over
<1>3. ASSUME NEW t \in Txs, Enter(t) PROVE ChainTypeOK'
  BY <1>3 DEF ChainTypeOK, Enter, InCall, Over
<1>4. ASSUME NEW t \in Txs, Acquire(t) PROVE ChainTypeOK'
  BY <1>4, <1>h, <1>n DEF ChainTypeOK, Acquire, InCall, Over
<1>5. ASSUME NEW t \in Txs, Serialise(t) PROVE ChainTypeOK'
  BY <1>5 DEF ChainTypeOK, Serialise, InCall, Over
<1>6. ASSUME NEW t \in Txs, ReadTail(t) PROVE ChainTypeOK'
  <2>1. TailOf(View(t)) \in TailSeen
    BY ViewType
  <2> QED
    BY <1>6, <2>1 DEF ChainTypeOK, ReadTail, InCall, Over
<1>7. ASSUME NEW t \in Txs, Insert(t) PROVE ChainTypeOK'
  <2>1. Append(own[t], NextRow(t)) \in Seq(Row)
    BY NextRowType, AppendProperties DEF ChainTypeOK
  <2>2. own' \in [Txs -> Seq(Row)]
    BY <1>7, <2>1 DEF ChainTypeOK, Insert
  <2>3. NoTail \in TailSeen
    BY DEF NoTail, TailSeen, NoHash
  <2>4. \A u \in Txs : pc'[u] \in {"entered", "serialised", "read"} => rlock'[HostOf[u]] = u
    BY <1>7, <1>h, <1>n DEF ChainTypeOK, Insert, MayWrite
  <2> QED
    BY <1>7, <2>2, <2>3, <2>4, <1>h DEF ChainTypeOK, Insert, InCall, Over
<1>8. ASSUME NEW S \in SUBSET Txs, NEW how \in Over, Leave(S, how),
             dialect' = dialect, chain' \in Seq(Row), crashes' \in Nat
      PROVE  ChainTypeOK'
  <2>1. \A u \in Txs : pc'[u] \in {"entered", "serialised", "read"} => rlock'[HostOf[u]] = u
    BY <1>8, Leaving DEF Over
  <2> QED
    BY <1>8, <2>1, Leaving DEF ChainTypeOK
<1>9. ASSUME NEW t \in Txs, Refuse(t) PROVE ChainTypeOK'
  BY <1>8, <1>9 DEF Refuse, Over, ChainTypeOK
<1>10. ASSUME NEW t \in Txs, TimeOut(t) PROVE ChainTypeOK'
  BY <1>8, <1>10 DEF TimeOut, Over, ChainTypeOK
<1>11. ASSUME NEW t \in Txs, Commit(t) PROVE ChainTypeOK'
  <2>1. chain' \in Seq(Row)
    BY <1>11, ViewType DEF Commit, View
  <2> QED
    BY <1>8, <1>11, <2>1 DEF Commit, Over, ChainTypeOK
<1>12. ASSUME NEW t \in Txs, Rollback(t) PROVE ChainTypeOK'
  BY <1>8, <1>12 DEF Rollback, Over, ChainTypeOK
<1>13. ASSUME NEW h \in Hosts, Crash(h) PROVE ChainTypeOK'
  <2>1. crashes' \in Nat
    BY <1>13 DEF Crash, ChainTypeOK
  <2> QED
    BY <1>8, <1>13, <2>1 DEF Crash, Over, ChainTypeOK
<1>14. CASE UNCHANGED chainVars
  BY <1>14 DEF ChainTypeOK, chainVars
<1> QED
  BY <1>1, <1>2, <1>3, <1>4, <1>5, <1>6, <1>7, <1>9, <1>10, <1>11, <1>12, <1>13, <1>14
     DEF ChainNext, TxStep

\* AuditRepository.append: every row written is a row of the table, and whoever is
\* between taking the process's lock and the insert holds that lock.
THEOREM ChainTypeCorrect == ChainSpec => []ChainTypeOK
  BY TypeInit, TypeStep, PTL DEF ChainSpec
-----------------------------------------------------------------------------
\* Whoever has flushed a row holds the database's lock, and on PostgreSQL whoever
\* is to read the tail or has read it.
LockHeld ==
    /\ \A t \in Txs : own[t] # <<>> => lock = t
    /\ dialect = "postgresql" =>
         \A t \in Txs : pc[t] \in {"serialised", "read"} => lock = t

\* The chain with any one transaction's rows is linked, and no append has read a
\* tail from past the end.
ViewsLinked ==
    /\ Linked(chain)
    /\ \A t \in Txs : Linked(View(t)) /\ tail[t].seq <= Len(View(t))

ChainInv == ChainTypeOK /\ LockHeld /\ ViewsLinked

LEMMA LinkedTail ==
    ASSUME NEW rows \in Seq(Row), Linked(rows)
    PROVE  TailOf(rows).seq = Len(rows)
<1>1. CASE rows = <<>>
  BY <1>1 DEF TailOf, NoTail
<1>2. CASE rows # <<>>
  <2>1. Len(rows) \in DOMAIN rows
    BY <1>2, LenProperties, EmptySeq
  <2> QED
    BY <1>2, <2>1 DEF TailOf, Linked
<1> QED
  BY <1>1, <1>2

LEMMA LinkedAppend ==
    ASSUME NEW rows \in Seq(Row), NEW row \in Row, Linked(rows),
           row.seq = Len(rows) + 1, row.prev = TailOf(rows).hash
    PROVE  Linked(Append(rows, row))
<1> DEFINE more == Append(rows, row)
<1>1. more \in Seq(Row) /\ Len(more) = Len(rows) + 1 /\ more[Len(rows) + 1] = row
  BY AppendProperties
<1>2. \A i \in DOMAIN rows : more[i] = rows[i]
  BY AppendProperties
<1>3. DOMAIN rows = 1..Len(rows) /\ DOMAIN more = 1..(Len(rows) + 1) /\ Len(rows) \in Nat
  BY <1>1, LenProperties
<1>4. ASSUME NEW i \in DOMAIN more
      PROVE  /\ more[i].seq = i
             /\ more[i].prev = IF i = 1 THEN NoHash ELSE more[i - 1].hash
  <2>1. CASE i \in DOMAIN rows
    <3>1. i = 1 \/ i - 1 \in DOMAIN rows
      BY <2>1, <1>3
    <3> QED
      BY <2>1, <3>1, <1>2 DEF Linked
  <2>2. CASE i = Len(rows) + 1 /\ rows = <<>>
    BY <2>2, <1>1 DEF TailOf, NoTail
  <2>3. CASE i = Len(rows) + 1 /\ rows # <<>>
    <3>1. Len(rows) \in DOMAIN rows /\ Len(rows) # 0
      BY <2>3, <1>3, EmptySeq
    <3>2. more[Len(rows)].hash = TailOf(rows).hash
      BY <2>3, <3>1, <1>2 DEF TailOf
    <3> QED
      BY <2>3, <3>1, <3>2, <1>1, <1>3
  <2> QED
    BY <1>3, <2>1, <2>2, <2>3
<1> QED
  BY <1>4 DEF Linked

LEMMA AppendToConcat ==
    ASSUME NEW s \in Seq(Row), NEW u \in Seq(Row), NEW row \in Row
    PROVE  s \o Append(u, row) = Append(s \o u, row)
<1> DEFINE both == s \o u  left == s \o Append(u, row)  right == Append(both, row)
<1>1. /\ both \in Seq(Row) /\ Len(both) = Len(s) + Len(u)
      /\ \A i \in 1..Len(s) + Len(u) : both[i] = IF i <= Len(s) THEN s[i] ELSE u[i - Len(s)]
  BY ConcatProperties
<1>2. /\ Append(u, row) \in Seq(Row) /\ Len(Append(u, row)) = Len(u) + 1
      /\ \A i \in 1..Len(u) : Append(u, row)[i] = u[i]
      /\ Append(u, row)[Len(u) + 1] = row
  BY AppendProperties
<1>3. /\ left \in Seq(Row) /\ Len(left) = Len(s) + (Len(u) + 1)
      /\ \A i \in 1..Len(s) + (Len(u) + 1) :
           left[i] = IF i <= Len(s) THEN s[i] ELSE Append(u, row)[i - Len(s)]
  BY <1>2, ConcatProperties
<1>4. /\ right \in Seq(Row) /\ Len(right) = Len(both) + 1
      /\ \A i \in 1..Len(both) : right[i] = both[i]
      /\ right[Len(both) + 1] = row
  BY <1>1, AppendProperties
<1>5. Len(s) \in Nat /\ Len(u) \in Nat
  BY LenProperties
<1> HIDE DEF both, left, right
<1>6. ASSUME NEW i \in 1..Len(left) PROVE left[i] = right[i]
  <2>1. CASE i <= Len(s)
    <3>1. left[i] = s[i]
      BY <2>1, <1>3
    <3>2. right[i] = both[i] /\ both[i] = s[i]
      <4>1. i \in 1..Len(s) + Len(u)
        BY <2>1, <1>3, <1>5
      <4> QED
        BY <2>1, <4>1, <1>1, <1>4
    <3> QED
      BY <3>1, <3>2
  <2>2. CASE i > Len(s) /\ i <= Len(s) + Len(u)
    <3>1. left[i] = u[i - Len(s)]
      BY <2>2, <1>2, <1>3, <1>5
    <3> QED
      BY <2>2, <3>1, <1>1, <1>4, <1>5
  <2>3. CASE i = Len(s) + Len(u) + 1
    <3>1. i - Len(s) = Len(u) + 1
      BY <2>3, <1>5
    <3>2. left[i] = row
      BY <2>3, <3>1, <1>2, <1>3, <1>5
    <3> QED
      BY <2>3, <3>2, <1>1, <1>4, <1>5
  <2>4. Len(left) = Len(s) + Len(u) + 1 /\ i \in Nat /\ i <= Len(left)
    BY <1>3, <1>5
  <2>5. i <= Len(s) \/ (i > Len(s) /\ i <= Len(s) + Len(u)) \/ i = Len(s) + Len(u) + 1
    BY <2>4, <1>5
  <2> QED
    BY <2>1, <2>2, <2>3, <2>5
<1>7. Len(left) = Len(right)
  BY <1>1, <1>3, <1>4, <1>5
<1>8. left = right
  BY <1>3, <1>4, <1>6, <1>7, SeqEqual
<1> QED
  BY <1>8 DEF left, right, both

\* A row a transaction flushes comes last of all that the transaction sees.
LEMMA InsertExtendsView ==
    ASSUME ChainTypeOK, NEW t \in Txs, own'[t] = Append(own[t], NextRow(t)), chain' = chain
    PROVE  View(t)' = Append(View(t), NextRow(t))
<1>1. chain \in Seq(Row) /\ own[t] \in Seq(Row) /\ NextRow(t) \in Row
  BY NextRowType DEF ChainTypeOK
<1>2. chain \o Append(own[t], NextRow(t)) = Append(chain \o own[t], NextRow(t))
  BY <1>1, AppendToConcat
<1> QED
  BY <1>2 DEF View

LEMMA ChainInvInit == ChainInit => ChainInv
<1> SUFFICES ASSUME ChainInit PROVE ChainInv
  OBVIOUS
<1>1. \A t \in Txs : View(t) = <<>> /\ tail[t].seq = 0
  <2>1. <<>> \o <<>> = <<>>
    BY ConcatEmptySeq, EmptySeq
  <2>2. ASSUME NEW t \in Txs PROVE chain = <<>> /\ own[t] = <<>> /\ tail[t] = NoTail
    BY DEF ChainInit
  <2>3. ASSUME NEW t \in Txs PROVE View(t) = <<>>
    BY <2>1, <2>2, Zenon DEF View
  <2>4. ASSUME NEW t \in Txs PROVE tail[t].seq = 0
    BY <2>2 DEF NoTail
  <2> QED
    BY <2>3, <2>4
<1>2. Linked(<<>>) /\ Len(<<>>) = 0
  BY DEF Linked
<1>3. LockHeld
  BY DEF ChainInit, LockHeld
<1>4. ViewsLinked
  BY <1>1, <1>2 DEF ChainInit, ViewsLinked
<1> QED
  BY <1>3, <1>4, TypeInit DEF ChainInv

LEMMA LockStep == ChainInv /\ [ChainNext]_chainVars => LockHeld'
<1> SUFFICES ASSUME ChainInv, [ChainNext]_chainVars
             PROVE  LockHeld'
  OBVIOUS
<1> USE DEF ChainInv
<1>n. Nobody \notin Txs
  BY ChainAssumption
<1>1. ASSUME NEW t \in Txs, Save(t) PROVE LockHeld'
  BY <1>1 DEF ChainTypeOK, LockHeld, Save
<1>2. ASSUME NEW t \in Txs, Saved(t) PROVE LockHeld'
  BY <1>2, <1>n DEF ChainTypeOK, LockHeld, Saved, Free
<1>3. ASSUME NEW t \in Txs, Enter(t) PROVE LockHeld'
  BY <1>3 DEF ChainTypeOK, LockHeld, Enter
<1>4. ASSUME NEW t \in Txs, Acquire(t) PROVE LockHeld'
  BY <1>4 DEF ChainTypeOK, LockHeld, Acquire
<1>5. ASSUME NEW t \in Txs, Serialise(t) PROVE LockHeld'
  BY <1>5, <1>n DEF ChainTypeOK, LockHeld, Serialise, Free
<1>6. ASSUME NEW t \in Txs, ReadTail(t) PROVE LockHeld'
  BY <1>6 DEF ChainTypeOK, LockHeld, ReadTail
<1>7. ASSUME NEW t \in Txs, Insert(t) PROVE LockHeld'
  <2>1. lock' = t
    BY <1>7, ChainAssumption DEF ChainTypeOK, LockHeld, Insert, MayWrite
  <2>2. \A u \in Txs \ {t} : own'[u] = own[u] /\ pc'[u] = pc[u]
    BY <1>7 DEF ChainTypeOK, Insert
  <2>3. \A u \in Txs : own[u] # <<>> => u = t
    BY <1>7, <1>n, ChainAssumption DEF ChainTypeOK, LockHeld, Insert, MayWrite, Free
  <2>4. pc'[t] = "open" /\ dialect' = dialect
    BY <1>7 DEF ChainTypeOK, Insert
  <2>5. dialect = "postgresql" => lock = t
    BY <1>7 DEF LockHeld, Insert, MayWrite
  <2> QED
    BY <2>1, <2>2, <2>3, <2>4, <2>5 DEF LockHeld
<1>8. ASSUME NEW S \in SUBSET Txs, NEW how \in Over, Leave(S, how), dialect' = dialect
      PROVE  LockHeld'
  <2>1. \A t \in S : own'[t] = <<>> /\ pc'[t] \notin {"serialised", "read"}
    BY <1>8, Leaving DEF Over
  <2>2. \A t \in Txs \ S : own'[t] = own[t] /\ pc'[t] = pc[t] /\ (lock = t => lock' = t)
    BY <1>8, Leaving
  <2> QED
    BY <1>8, <2>1, <2>2 DEF LockHeld
<1>9. ASSUME NEW t \in Txs, Refuse(t) \/ TimeOut(t) \/ Commit(t) \/ Rollback(t)
      PROVE  LockHeld'
  BY <1>8, <1>9 DEF Refuse, TimeOut, Commit, Rollback, Over
<1>10. ASSUME NEW h \in Hosts, Crash(h) PROVE LockHeld'
  BY <1>8, <1>10 DEF Crash, Over
<1>11. CASE UNCHANGED chainVars
  BY <1>11 DEF LockHeld, chainVars
<1> QED
  BY <1>1, <1>2, <1>3, <1>4, <1>5, <1>6, <1>7, <1>9, <1>10, <1>11 DEF ChainNext, TxStep

LEMMA ViewsStep == ChainInv /\ [ChainNext]_chainVars => ViewsLinked'
<1> SUFFICES ASSUME ChainInv, [ChainNext]_chainVars
             PROVE  ViewsLinked'
  OBVIOUS
<1> USE DEF ChainInv
<1>t. \A t \in Txs : /\ View(t) \in Seq(Row) /\ Len(View(t)) \in Nat
                     /\ Len(View(t)) = Len(chain) + Len(own[t])
                     /\ TailOf(View(t)).seq = Len(View(t))
  BY ViewType, LinkedTail, LenProperties DEF ViewsLinked
<1>c. chain \in Seq(Row) /\ Len(chain) \in Nat
  BY LenProperties DEF ChainTypeOK
<1>1. ASSUME UNCHANGED <<chain, own, tail>> PROVE ViewsLinked'
  BY <1>1 DEF ViewsLinked, View
<1>2. ASSUME NEW t \in Txs, ReadTail(t) PROVE ViewsLinked'
  <2>1. \A u \in Txs : View(u)' = View(u)
    BY <1>2 DEF ReadTail, View
  <2>2. \A u \in Txs : tail'[u] = IF u = t THEN TailOf(View(t)) ELSE tail[u]
    BY <1>2 DEF ReadTail, ChainTypeOK
  <2>3. chain' = chain
    BY <1>2 DEF ReadTail
  <2> QED
    BY <2>1, <2>2, <2>3, <1>t DEF ViewsLinked
<1>3. ASSUME NEW t \in Txs, Insert(t) PROVE ViewsLinked'
  <2>1. View(t)' = Append(View(t), NextRow(t))
    BY <1>3, InsertExtendsView DEF Insert, ChainTypeOK
  <2>2. tail[t].seq = Len(View(t)) /\ NextRow(t).prev = TailOf(View(t)).hash
    <3>1. NextRow(t).seq = tail[t].seq + 1 /\ tail[t].seq \in Nat
      BY DEF NextRow, ChainTypeOK, TailSeen
    <3>2. NextRow(t).seq > TailOf(View(t)).seq /\ NextRow(t).prev = TailOf(View(t)).hash
      BY <1>3 DEF Insert, TriggerAccepts
    <3> QED
      BY <1>t, <3>1, <3>2 DEF ViewsLinked
  <2>3. Linked(View(t)')
    <3>1. NextRow(t).seq = Len(View(t)) + 1
      BY <2>2 DEF NextRow
    <3> QED
      BY <2>1, <2>2, <3>1, <1>t, NextRowType, LinkedAppend DEF ViewsLinked
  <2>4. Len(View(t)') \in Nat
    BY <2>1, <1>t, NextRowType, AppendProperties
  <2>5. \A u \in Txs \ {t} : View(u)' = View(u) /\ tail'[u] = tail[u]
    BY <1>3 DEF Insert, View, ChainTypeOK
  <2>6. tail'[t].seq = 0 /\ chain' = chain
    BY <1>3 DEF Insert, ChainTypeOK, NoTail
  <2> QED
    BY <2>3, <2>4, <2>5, <2>6 DEF ViewsLinked
<1>4. ASSUME NEW S \in SUBSET Txs, NEW how \in Over, Leave(S, how), chain' = chain
      PROVE  ViewsLinked'
  <2>1. \A u \in S : View(u)' = chain /\ tail'[u].seq = 0
    <3>1. \A u \in S : own'[u] = <<>> /\ tail'[u] = NoTail
      BY <1>4 DEF Leave
    <3>2. chain \o <<>> = chain
      BY <1>c, ConcatEmptySeq
    <3>3. ASSUME NEW u \in S PROVE View(u)' = chain
      BY <1>4, <3>1, <3>2 DEF View
    <3> QED
      BY <3>1, <3>3 DEF NoTail
  <2>2. \A u \in Txs \ S : View(u)' = View(u) /\ tail'[u] = tail[u]
    BY <1>4, Leaving DEF View
  <2> QED
    BY <1>4, <1>c, <2>1, <2>2 DEF ViewsLinked
<1>5. ASSUME NEW t \in Txs, Commit(t) PROVE ViewsLinked'
  <2>1. Leave({t}, "committed") /\ "committed" \in Over /\ chain' = View(t)
    BY <1>5 DEF Commit, Over, View
  <2>L. /\ own'[t] = <<>> /\ tail'[t] = NoTail
        /\ \A u \in Txs \ {t} : own'[u] = own[u] /\ tail'[u] = tail[u]
    <3>1. {t} \in SUBSET Txs
      OBVIOUS
    <3> HIDE DEF ChainInv
    <3>2. ChainTypeOK
      BY DEF ChainInv
    <3> QED
      BY <2>1, <3>1, <3>2, Leaving
  <2>O. own[t] # <<>> => \A u \in Txs \ {t} : own[u] = <<>>
    BY DEF LockHeld
  <2>2. CASE own[t] = <<>>
    <3>1. chain' = chain
      BY <2>1, <2>2, <1>c, ConcatEmptySeq DEF View
    <3> QED
      BY <2>1, <3>1, <1>4
  <2>3. CASE own[t] # <<>>
    <3>1. \A u \in Txs : own'[u] = <<>> /\ tail'[u].seq <= tail[u].seq
      <4>1. own'[t] = <<>> /\ tail'[t].seq = 0 /\ tail[t].seq \in Nat
        BY <2>L DEF NoTail, ChainTypeOK, TailSeen
      <4>2. \A u \in Txs \ {t} : own[u] = <<>> /\ own'[u] = own[u] /\ tail'[u] = tail[u]
        BY <2>L, <2>O, <2>3
      <4>3. \A u \in Txs : tail[u].seq \in Nat
        BY DEF ChainTypeOK, TailSeen
      <4> QED
        BY <4>1, <4>2, <4>3
    <3>2. \A u \in Txs : View(u)' = View(t)
      BY <2>1, <3>1, <1>t, ConcatEmptySeq DEF View
    <3>3. \A u \in Txs : tail[u].seq <= Len(View(t)) /\ tail[u].seq \in Nat /\ tail'[u].seq \in Nat
      <4>1. \A u \in Txs \ {t} : own[u] = <<>> /\ tail'[u] = tail[u]
        BY <2>L, <2>O, <2>3
      <4>2. \A u \in Txs \ {t} : Len(View(u)) <= Len(View(t))
        BY <4>1, <1>t, <1>c, LenProperties DEF ChainTypeOK
      <4>3. \A u \in Txs : tail[u].seq \in Nat
        BY DEF ChainTypeOK, TailSeen
      <4>4. tail'[t].seq = 0
        BY <2>L DEF NoTail
      <4> QED
        BY <4>1, <4>2, <4>3, <4>4, <1>t DEF ViewsLinked
    <3> QED
      BY <2>1, <3>1, <3>2, <3>3, <1>t DEF ViewsLinked
  <2> QED
    BY <2>2, <2>3
<1>6. ASSUME NEW t \in Txs, Refuse(t) \/ TimeOut(t) \/ Rollback(t) PROVE ViewsLinked'
  BY <1>4, <1>6 DEF Refuse, TimeOut, Rollback, Over
<1>7. ASSUME NEW h \in Hosts, Crash(h) PROVE ViewsLinked'
  BY <1>4, <1>7 DEF Crash, Over
<1>8. ASSUME NEW t \in Txs,
             Save(t) \/ Saved(t) \/ Enter(t) \/ Acquire(t) \/ Serialise(t)
      PROVE  ViewsLinked'
  BY <1>1, <1>8 DEF Save, Saved, Enter, Acquire, Serialise
<1>9. CASE UNCHANGED chainVars
  BY <1>1, <1>9 DEF chainVars
<1> QED
  BY <1>2, <1>3, <1>5, <1>6, <1>7, <1>8, <1>9 DEF ChainNext, TxStep

LEMMA ChainInvariant == ChainSpec => []ChainInv
<1>1. ChainInv /\ [ChainNext]_chainVars => ChainInv'
  BY TypeStep, LockStep, ViewsStep DEF ChainInv
<1> QED
  BY ChainInvInit, <1>1, PTL DEF ChainSpec

\* AuditRepository.append and the insert triggers: the committed chain has neither
\* gaps nor forks, on PostgreSQL and on SQLite, for any transactions.
THEOREM ChainHasNoForks == ChainSpec => []ChainLinked
<1>1. ChainInv => ChainLinked
  BY DEF ChainInv, ViewsLinked, ChainLinked
<1> QED
  BY ChainInvariant, <1>1, PTL
-----------------------------------------------------------------------------
\* On PostgreSQL the tail an append has read is the tail until it inserts.
TailFresh ==
    dialect = "postgresql" => \A t \in Txs : pc[t] = "read" => tail[t] = TailOf(View(t))

\* No other transaction's rows are committed while t holds the advisory lock.
LEMMA OthersCommitNothing ==
    ASSUME ChainInv, NEW t \in Txs, NEW u \in Txs \ {t}, Commit(u),
           dialect = "postgresql", pc[t] = "read"
    PROVE  chain' = chain
<1>1. own[u] = <<>>
  BY DEF ChainInv, LockHeld
<1>2. chain \o <<>> = chain
  BY ConcatEmptySeq DEF ChainInv, ChainTypeOK
<1> QED
  BY <1>1, <1>2 DEF Commit

LEMMA TailFreshStep == ChainInv /\ TailFresh /\ [ChainNext]_chainVars => TailFresh'
<1> SUFFICES ASSUME ChainInv, TailFresh, [ChainNext]_chainVars,
                    dialect' = "postgresql", NEW t \in Txs, pc'[t] = "read"
             PROVE  tail'[t] = TailOf(View(t))'
  BY DEF TailFresh
<1>1. ChainTypeOK
  BY DEF ChainInv
<1>2. ASSUME dialect = "postgresql", pc[t] = "read", tail'[t] = tail[t],
             chain' = chain, own'[t] = own[t]
      PROVE  tail'[t] = TailOf(View(t))'
  <2>1. View(t)' = View(t)
    BY <1>2 DEF View
  <2> QED
    BY <1>2, <2>1 DEF TailFresh, TailOf
<1>3. ASSUME NEW u \in Txs,
             Save(u) \/ Saved(u) \/ Enter(u) \/ Acquire(u) \/ Serialise(u)
      PROVE  tail'[t] = TailOf(View(t))'
  <2>1. dialect' = dialect /\ chain' = chain /\ own' = own /\ tail' = tail
    BY <1>3 DEF Save, Saved, Enter, Acquire, Serialise
  <2>2. pc[t] = "read"
    BY <1>3, <1>1 DEF Save, Saved, Enter, Acquire, Serialise, ChainTypeOK
  <2> QED
    BY <1>2, <2>1, <2>2
<1>4. ASSUME NEW u \in Txs, ReadTail(u) PROVE tail'[t] = TailOf(View(t))'
  <2>1. CASE u = t
    <3>1. tail'[t] = TailOf(View(t)) /\ View(t)' = View(t)
      BY <1>1, <1>4, <2>1 DEF ReadTail, ChainTypeOK, View
    <3> QED
      BY <3>1 DEF TailOf
  <2>2. CASE u # t
    BY <1>1, <1>2, <1>4, <2>2 DEF ReadTail, ChainTypeOK
  <2> QED
    BY <2>1, <2>2
<1>5. ASSUME NEW u \in Txs, Insert(u) PROVE tail'[t] = TailOf(View(t))'
  <2>1. u # t
    BY <1>1, <1>5 DEF Insert, ChainTypeOK
  <2> QED
    BY <1>1, <1>2, <1>5, <2>1 DEF Insert, ChainTypeOK
<1>6. ASSUME NEW S \in SUBSET Txs, NEW how \in Over, Leave(S, how), dialect' = dialect,
             t \notin S => chain' = chain
      PROVE  tail'[t] = TailOf(View(t))'
  <2>1. t \notin S
    BY <1>6 DEF Leave, Over
  <2>2. pc[t] = "read" /\ own'[t] = own[t] /\ tail'[t] = tail[t]
    BY <1>6, <2>1 DEF Leave
  <2> QED
    BY <1>2, <1>6, <2>1, <2>2
<1>7. ASSUME NEW u \in Txs, Refuse(u) \/ TimeOut(u) \/ Rollback(u)
      PROVE  tail'[t] = TailOf(View(t))'
  BY <1>6, <1>7 DEF Refuse, TimeOut, Rollback, Over
<1>8. ASSUME NEW u \in Txs, Commit(u) PROVE tail'[t] = TailOf(View(t))'
  <2>1. Leave({u}, "committed") /\ "committed" \in Over /\ dialect' = dialect
    BY <1>8 DEF Commit, Over
  <2>2. t # u => pc[t] = "read"
    BY <2>1 DEF Leave
  <2>3. t \notin {u} => chain' = chain
    BY <1>8, <2>1, <2>2, OthersCommitNothing
  <2> QED
    BY <1>6, <2>1, <2>3
<1>9. ASSUME NEW h \in Hosts, Crash(h) PROVE tail'[t] = TailOf(View(t))'
  BY <1>6, <1>9 DEF Crash, Over
<1>10. CASE UNCHANGED chainVars
  BY <1>2, <1>10 DEF chainVars
<1> QED
  BY <1>3, <1>4, <1>5, <1>7, <1>8, <1>9, <1>10 DEF ChainNext, TxStep

LEMMA NoRefusal == ChainInv /\ TailFresh /\ NeverRefused /\ [ChainNext]_chainVars => NeverRefused'
<1> SUFFICES ASSUME ChainInv, TailFresh, NeverRefused, [ChainNext]_chainVars,
                    dialect' = "postgresql", NEW t \in Txs
             PROVE  pc'[t] # "refused"
  BY DEF NeverRefused
<1>1. ChainTypeOK
  BY DEF ChainInv
<1>2. ASSUME NEW u \in Txs, Save(u) \/ Saved(u) \/ Enter(u) \/ Acquire(u) \/ Serialise(u)
                              \/ ReadTail(u) \/ Insert(u)
      PROVE  pc'[t] # "refused"
  BY <1>1, <1>2 DEF NeverRefused, ChainTypeOK, Save, Saved, Enter, Acquire, Serialise,
                    ReadTail, Insert
<1>3. ASSUME NEW u \in Txs, Refuse(u) PROVE FALSE
  <2>1. dialect = "postgresql" /\ pc[u] = "read"
    BY <1>3 DEF Refuse, MayWrite
  <2>2. tail[u] = TailOf(View(u)) /\ tail[u].seq \in Nat
    BY <1>1, <2>1 DEF TailFresh, ChainTypeOK, TailSeen
  <2>3. TriggerAccepts(NextRow(u), TailOf(View(u)))
    BY <2>2 DEF TriggerAccepts, NextRow
  <2> QED
    BY <1>3, <2>3 DEF Refuse
<1>4. ASSUME NEW u \in Txs, TimeOut(u) \/ Commit(u) \/ Rollback(u)
      PROVE  pc'[t] # "refused"
  BY <1>4 DEF NeverRefused, TimeOut, Commit, Rollback, Leave
<1>5. ASSUME NEW h \in Hosts, Crash(h) PROVE pc'[t] # "refused"
  BY <1>5 DEF NeverRefused, Crash, Leave
<1>6. CASE UNCHANGED chainVars
  BY <1>6 DEF NeverRefused, chainVars
<1> QED
  BY <1>2, <1>3, <1>4, <1>5, <1>6 DEF ChainNext, TxStep

\* _serialise_writer: pg_advisory_xact_lock, held to the end of the transaction,
\* keeps every append's tail fresh, and the trigger refuses none of them.
THEOREM PostgresNeverRefuses == ChainSpec => []NeverRefused
<1>1. ChainInit => TailFresh /\ NeverRefused
  BY DEF ChainInit, TailFresh, NeverRefused
<1> QED
  BY <1>1, ChainInvariant, TailFreshStep, NoRefusal, PTL DEF ChainSpec
-----------------------------------------------------------------------------
\* A transaction's rows are its events, numbered from one and within its bound;
\* the rows of the chain are of transactions that have committed.
Recorded ==
    /\ \A t \in Txs : \A k \in DOMAIN own[t] : own[t][k].body = <<t, k>>
    /\ \A t \in Txs : /\ Len(own[t]) <= Appends[t]
                      /\ pc[t] \in InCall \ {"saving"} => Len(own[t]) < Appends[t]
    /\ \A i \in DOMAIN chain : \E t \in Txs : chain[i].body[1] = t /\ pc[t] = "committed"

Bodies(rows) == [i \in DOMAIN rows |-> rows[i].body]

Events(t, n) == [k \in 1..n |-> <<t, k>>]

LEMMA BodiesOfConcat ==
    ASSUME NEW rows \in Seq(Row), NEW more \in Seq(Row), NEW t \in Txs,
           \A k \in DOMAIN more : more[k].body = <<t, k>>
    PROVE  Bodies(rows \o more) = Bodies(rows) \o Events(t, Len(more))
<1> DEFINE m == Len(rows)  n == Len(more)  left == Bodies(rows \o more)
           right == Bodies(rows) \o Events(t, n)
<1>1. m \in Nat /\ n \in Nat /\ DOMAIN rows = 1..m /\ DOMAIN more = 1..n
  BY LenProperties
<1>2. /\ rows \o more \in Seq(Row) /\ Len(rows \o more) = m + n
      /\ \A i \in 1..m + n : (rows \o more)[i] = IF i <= m THEN rows[i] ELSE more[i - m]
  BY ConcatProperties
<1>3. DOMAIN (rows \o more) = 1..m + n
  BY <1>2, LenProperties
<1>4. /\ \A i \in 1..m : rows[i].body \in Content
      /\ \A i \in 1..m + n : (rows \o more)[i].body \in Content
  <2>1. \A i \in 1..m : rows[i] \in Row
    BY <1>1, ElementOfSeq
  <2>2. \A i \in 1..m + n : (rows \o more)[i] \in Row
    BY <1>2, ElementOfSeq
  <2> QED
    BY <2>1, <2>2 DEF Row
<1>5. Bodies(rows) \in Seq(Content) /\ Len(Bodies(rows)) = m
  BY <1>1, <1>4 DEF Bodies
<1>6. Events(t, n) \in Seq(Content) /\ Len(Events(t, n)) = n
  <2>1. \A k \in 1..n : <<t, k>> \in Content
    BY <1>1 DEF Content
  <2> QED
    BY <1>1, <2>1 DEF Events
<1>7. left \in Seq(Content) /\ Len(left) = m + n
  BY <1>1, <1>3, <1>4 DEF Bodies
<1>8. /\ right \in Seq(Content) /\ Len(right) = m + n
      /\ \A i \in 1..m + n :
           right[i] = IF i <= m THEN Bodies(rows)[i] ELSE Events(t, n)[i - m]
  <2>1. \A b, e \in Seq(Content) :
          /\ b \o e \in Seq(Content) /\ Len(b \o e) = Len(b) + Len(e)
          /\ \A i \in 1..Len(b) + Len(e) :
               (b \o e)[i] = IF i <= Len(b) THEN b[i] ELSE e[i - Len(b)]
    BY ConcatProperties
  <2> DEFINE b == Bodies(rows)  e == Events(t, n)
  <2>2. b \in Seq(Content) /\ e \in Seq(Content) /\ Len(b) = m /\ Len(e) = n
    BY <1>5, <1>6
  <2> HIDE DEF b, e, m, n
  <2>3. /\ b \o e \in Seq(Content) /\ Len(b \o e) = m + n
        /\ \A i \in 1..m + n : (b \o e)[i] = IF i <= m THEN b[i] ELSE e[i - m]
    BY <2>1, <2>2
  <2> QED
    BY <2>3 DEF b, e
<1>9. ASSUME NEW i \in 1..m + n PROVE left[i] = right[i]
  <2>1. left[i] = (rows \o more)[i].body
    BY <1>3 DEF Bodies
  <2>2. CASE i <= m
    BY <2>1, <2>2, <1>1, <1>2, <1>8 DEF Bodies
  <2>3. CASE i > m
    <3>1. i - m \in 1..n
      BY <2>3, <1>1
    <3>2. more[i - m].body = <<t, i - m>> /\ Events(t, n)[i - m] = <<t, i - m>>
      BY <3>1, <1>1 DEF Events
    <3>3. left[i] = more[i - m].body
      BY <2>1, <2>3, <1>1, <1>2
    <3>4. right[i] = Events(t, n)[i - m]
      BY <2>3, <1>1, <1>8
    <3> QED
      BY <3>2, <3>3, <3>4
  <2>4. i <= m \/ i > m
    BY <1>1
  <2> QED
    BY <2>2, <2>3, <2>4
<1> HIDE DEF m, n, left, right
<1>10. left = right
  BY <1>7, <1>8, <1>9, SeqEqual
<1> QED
  BY <1>10 DEF left, right, n

LEMMA RecordedStep == ChainTypeOK /\ Recorded /\ [ChainNext]_chainVars => Recorded'
<1> SUFFICES ASSUME ChainTypeOK, Recorded, [ChainNext]_chainVars
             PROVE  Recorded'
  OBVIOUS
<1>a. \A t \in Txs : Appends[t] \in Nat /\ Len(own[t]) \in Nat /\ DOMAIN own[t] = 1..Len(own[t])
  BY ChainAssumption, LenProperties DEF ChainTypeOK
\* A transaction's move that flushes nothing and commits nothing.
<1>1. ASSUME NEW t \in Txs, chain' = chain, own' = own,
             \A u \in Txs \ {t} : pc'[u] = pc[u],
             pc[t] # "committed",
             pc'[t] \in InCall \ {"saving"} => Len(own[t]) < Appends[t]
      PROVE  Recorded'
  BY <1>1 DEF Recorded
<1>2. ASSUME NEW t \in Txs, Save(t) \/ Saved(t) \/ Enter(t) \/ Acquire(t) \/ Serialise(t)
                              \/ ReadTail(t)
      PROVE  Recorded'
  <2>1. chain' = chain /\ own' = own /\ \A u \in Txs \ {t} : pc'[u] = pc[u]
    BY <1>2 DEF ChainTypeOK, Save, Saved, Enter, Acquire, Serialise, ReadTail
  <2>2. pc[t] # "committed"
    BY <1>2 DEF Save, Saved, Enter, Acquire, Serialise, ReadTail
  <2>3. pc'[t] \in InCall \ {"saving"} => Len(own[t]) < Appends[t]
    BY <1>2 DEF ChainTypeOK, Recorded, InCall, Save, Saved, Enter, Acquire, Serialise, ReadTail
  <2> QED
    BY <1>1, <2>1, <2>2, <2>3
<1>3. ASSUME NEW t \in Txs, Insert(t) PROVE Recorded'
  <2>1. /\ own'[t] = Append(own[t], NextRow(t)) /\ pc'[t] = "open" /\ chain' = chain
        /\ \A u \in Txs \ {t} : own'[u] = own[u] /\ pc'[u] = pc[u]
    BY <1>3 DEF Insert, ChainTypeOK
  <2>2. /\ Len(own'[t]) = Len(own[t]) + 1 /\ DOMAIN own'[t] = 1..(Len(own[t]) + 1)
        /\ \A k \in 1..Len(own[t]) : own'[t][k] = own[t][k]
        /\ own'[t][Len(own[t]) + 1] = NextRow(t)
    <3>1. own[t] \in Seq(Row) /\ NextRow(t) \in Row
      BY NextRowType DEF ChainTypeOK
    <3> QED
      BY <2>1, <3>1, AppendProperties, LenProperties
  <2>3. \A k \in DOMAIN own'[t] : own'[t][k].body = <<t, k>>
    <3>1. NextRow(t).body = <<t, Len(own[t]) + 1>>
      BY DEF NextRow
    <3>2. \A k \in DOMAIN own'[t] : k \in DOMAIN own[t] \/ k = Len(own[t]) + 1
      BY <2>2, <1>a
    <3>3. \A k \in DOMAIN own[t] : own'[t][k].body = <<t, k>>
      BY <2>2, <1>a DEF Recorded
    <3> QED
      BY <2>2, <3>1, <3>2, <3>3
  <2>4. Len(own'[t]) <= Appends[t]
    <3>1. Len(own[t]) < Appends[t]
      BY <1>3 DEF Insert, MayWrite, InCall, Recorded
    <3> QED
      BY <2>2, <3>1, <1>a
  <2>5. pc[t] # "committed"
    BY <1>3 DEF Insert, MayWrite
  <2> QED
    BY <2>1, <2>3, <2>4, <2>5 DEF Recorded, InCall
\* Those who leave keep no rows; how they leave decides what the chain may hold.
<1>4. ASSUME NEW S \in SUBSET Txs, NEW how \in Over, Leave(S, how),
             \A i \in DOMAIN chain' :
               \E t \in Txs : chain'[i].body[1] = t /\ pc'[t] = "committed"
      PROVE  Recorded'
  <2>1. \A t \in S : own'[t] = <<>> /\ pc'[t] = how
    BY <1>4 DEF Leave
  <2>2. \A t \in Txs \ S : own'[t] = own[t] /\ pc'[t] = pc[t]
    BY <1>4 DEF Leave
  <2>3. DOMAIN <<>> = {} /\ Len(<<>>) = 0 /\ how \notin InCall
    BY DEF Over, InCall
  <2>4. \A t \in Txs : \A k \in DOMAIN own'[t] : own'[t][k].body = <<t, k>>
    BY <2>1, <2>2, <2>3 DEF Recorded
  <2>5. \A t \in Txs : /\ Len(own'[t]) <= Appends[t]
                       /\ pc'[t] \in InCall \ {"saving"} => Len(own'[t]) < Appends[t]
    BY <2>1, <2>2, <2>3, <1>a DEF Recorded
  <2> QED
    BY <1>4, <2>4, <2>5 DEF Recorded
<1>5. ASSUME NEW t \in Txs, Refuse(t) \/ TimeOut(t) \/ Rollback(t) PROVE Recorded'
  <2>1. chain' = chain /\ pc[t] # "committed"
    BY <1>5 DEF Refuse, TimeOut, Rollback, MayWrite
  <2>2. PICK how \in Over : Leave({t}, how)
    BY <1>5 DEF Refuse, TimeOut, Rollback, Over
  <2>3. \A u \in Txs : pc[u] = "committed" => pc'[u] = "committed"
    BY <2>1, <2>2 DEF Leave
  <2>4. \A i \in DOMAIN chain' : \E u \in Txs : chain'[i].body[1] = u /\ pc'[u] = "committed"
    BY <2>1, <2>3 DEF Recorded
  <2> QED
    BY <2>1, <2>2, <2>4, <1>4
<1>6. ASSUME NEW t \in Txs, Commit(t) PROVE Recorded'
  <2>1. /\ Leave({t}, "committed") /\ pc[t] # "committed" /\ "committed" \in Over
        /\ chain' = chain \o own[t]
    BY <1>6 DEF Commit, Over
  <2>2. /\ chain \in Seq(Row) /\ own[t] \in Seq(Row)
        /\ Len(chain) \in Nat /\ DOMAIN chain = 1..Len(chain)
    BY LenProperties DEF ChainTypeOK
  <2>3. DOMAIN chain' = 1..(Len(chain) + Len(own[t]))
    BY <2>1, <2>2, ConcatProperties, LenProperties
  <2>4. \A u \in Txs : pc[u] = "committed" \/ u = t => pc'[u] = "committed"
    BY <2>1 DEF Leave
  <2>5. ASSUME NEW i \in DOMAIN chain'
        PROVE  \E u \in Txs : chain'[i].body[1] = u /\ pc'[u] = "committed"
    <3>1. CASE i \in DOMAIN chain
      <4>1. chain'[i] = chain[i]
        BY <2>1, <2>2, <2>3, <3>1, <1>a, ConcatProperties
      <4> QED
        BY <3>1, <4>1, <2>4 DEF Recorded
    <3>2. CASE i \notin DOMAIN chain
      <4>1. i - Len(chain) \in DOMAIN own[t] /\ chain'[i] = own[t][i - Len(chain)]
        BY <2>1, <2>2, <2>3, <3>2, <1>a, ConcatProperties
      <4>2. chain'[i].body = <<t, i - Len(chain)>>
        BY <4>1 DEF Recorded
      <4> QED
        BY <4>2, <2>4
    <3> QED
      BY <3>1, <3>2
  <2> QED
    BY <2>1, <2>5, <1>4
<1>7. ASSUME NEW h \in Hosts, Crash(h) PROVE Recorded'
  <2>1. PICK S \in SUBSET Txs :
          Leave(S, "failed") /\ \A t \in S : pc[t] # "committed"
    BY <1>7 DEF Crash, Over
  <2>2. chain' = chain /\ "failed" \in Over
    BY <1>7 DEF Crash, Over
  <2>3. \A u \in Txs : pc[u] = "committed" => pc'[u] = "committed"
    BY <2>1 DEF Leave
  <2>4. \A i \in DOMAIN chain' : \E u \in Txs : chain'[i].body[1] = u /\ pc'[u] = "committed"
    BY <2>2, <2>3 DEF Recorded
  <2> QED
    BY <2>1, <2>2, <2>4, <1>4
<1>8. CASE UNCHANGED chainVars
  BY <1>8 DEF Recorded, chainVars
<1> QED
  BY <1>2, <1>3, <1>5, <1>6, <1>7, <1>8 DEF ChainNext, TxStep

\* A commit records a transaction that is not in the log, with all of its events,
\* or changes nothing; no other step touches the log.
LEMMA CommitRecords ==
    ASSUME ChainTypeOK, Recorded, NEW t \in Txs, Commit(t)
    PROVE  [Log!Record(t)]_(Bodies(chain))
<1>1. chain \in Seq(Row) /\ own[t] \in Seq(Row) /\ chain' = chain \o own[t]
  BY DEF ChainTypeOK, Commit
<1>2. CASE own[t] = <<>>
  <2>1. chain' = chain
    BY <1>1, <1>2, ConcatEmptySeq
  <2> QED
    BY <2>1 DEF Bodies
<1>3. CASE own[t] # <<>>
  <2>1. Len(own[t]) \in 1..Appends[t]
    <3>1. Len(own[t]) \in Nat \ {0}
      BY <1>1, <1>3, EmptySeq
    <3>2. Appends[t] \in Nat /\ Len(own[t]) <= Appends[t]
      BY ChainAssumption DEF Recorded
    <3> QED
      BY <3>1, <3>2
  <2>2. Bodies(chain)' = Bodies(chain) \o Events(t, Len(own[t]))
    <3>1. Bodies(chain \o own[t]) = Bodies(chain) \o Events(t, Len(own[t]))
      BY <1>1, BodiesOfConcat DEF Recorded
    <3> QED
      BY <1>1, <3>1 DEF Bodies
  <2>3. t \notin Log!Authors
    <3>1. \A i \in DOMAIN chain : chain[i].body[1] # t
      BY DEF Recorded, Commit
    <3>2. Log!Authors = {Bodies(chain)[i][1] : i \in DOMAIN Bodies(chain)}
      BY DEF Log!Authors, Bodies
    <3>3. DOMAIN Bodies(chain) = DOMAIN chain
          /\ \A i \in DOMAIN chain : Bodies(chain)[i] = chain[i].body
      BY DEF Bodies
    <3> QED
      BY <3>1, <3>2, <3>3
  <2> QED
    BY <2>1, <2>2, <2>3 DEF Log!Record, Bodies, Events
<1> QED
  BY <1>2, <1>3

\* AuditRepository.append and commit: the committed chain is an append-only log of
\* whole transactions, each of them once and with its events in order.
THEOREM LogImplementation == ChainSpec => ImplementsLog
<1>1. ChainInit => Log!Init /\ Recorded
  <2> SUFFICES ASSUME ChainInit PROVE Log!Init /\ Recorded
    OBVIOUS
  <2>1. chain = <<>> /\ DOMAIN <<>> = {} /\ Len(<<>>) = 0
    BY DEF ChainInit
  <2>2. Log!Init
    BY <2>1 DEF Log!Init
  <2>3. Recorded
    BY <2>1, ChainAssumption DEF ChainInit, Recorded, InCall
  <2> QED
    BY <2>2, <2>3
<1>2. ChainTypeOK /\ Recorded /\ [ChainNext]_chainVars => [Log!Next]_(Bodies(chain))
  <2> SUFFICES ASSUME ChainTypeOK, Recorded, [ChainNext]_chainVars
               PROVE  [Log!Next]_(Bodies(chain))
    OBVIOUS
  <2>1. ASSUME NEW t \in Txs, Commit(t) PROVE [Log!Next]_(Bodies(chain))
    BY <2>1, CommitRecords DEF Log!Next
  <2>2. CASE chain' = chain
    BY <2>2 DEF Bodies
  <2>3. (\E t \in Txs : Commit(t)) \/ chain' = chain
    BY DEF ChainNext, TxStep, chainVars, Save, Saved, Enter, Acquire, Serialise, ReadTail,
           Insert, Refuse, TimeOut, Rollback, Crash
  <2> QED
    BY <2>1, <2>2, <2>3
<1> QED
  BY <1>1, <1>2, ChainTypeCorrect, RecordedStep, PTL
     DEF ChainSpec, ImplementsLog, Log!Spec, Bodies
-----------------------------------------------------------------------------
\* Max and Min, where there is something to choose.
LEMMA MinOfBounded ==
    ASSUME NEW top \in Nat, NEW S \in SUBSET (0..top), S # {}
    PROVE  Min(S) \in S /\ \A n \in S : Min(S) <= n
<1> DEFINE T == {0..n : n \in S}
<1>1. T \subseteq SUBSET (0..top) /\ T # {}
  <2>1. \A n \in S : 0..n \subseteq 0..top
    OBVIOUS
  <2> QED
    BY <2>1
<1>2. IsWellFoundedOn(StrictSubsetOrdering(0..top), SUBSET (0..top))
  <2>1. IsFiniteSet(0..top)
    BY FS_Interval
  <2>2. FiniteSubsetsOf(0..top) = SUBSET (0..top)
    BY <2>1, FS_FiniteSubsetsOfFinite
  <2> QED
    BY <2>2, FS_StrictSubsetOrderingWellFounded
<1>3. PICK low \in T : \A other \in T : ~ (<<other, low>> \in StrictSubsetOrdering(0..top))
  <2> HIDE DEF T
  <2> QED
    BY <1>1, <1>2, WFMin
<1>4. PICK m \in S : low = 0..m
  BY <1>3
<1>5. ASSUME NEW n \in S, n < m PROVE FALSE
  <2>1. 0..n \in T /\ 0..n \subseteq 0..m /\ m \notin 0..n /\ m \in 0..m
    BY <1>5
  <2> QED
    BY <1>1, <1>3, <1>4, <2>1 DEF StrictSubsetOrdering
<1>6. \A n \in S : m <= n
  BY <1>5
<1> QED
  BY <1>6 DEF Min

\* The same from above.
LEMMA MaxOfBounded ==
    ASSUME NEW top \in Nat, NEW S \in SUBSET (0..top), S # {}
    PROVE  Max(S) \in S /\ \A n \in S : n <= Max(S)
<1> DEFINE T == {n..top : n \in S}
<1>1. T \subseteq SUBSET (0..top) /\ T # {}
  <2>1. \A n \in S : n..top \subseteq 0..top
    OBVIOUS
  <2> QED
    BY <2>1
<1>2. IsWellFoundedOn(StrictSubsetOrdering(0..top), SUBSET (0..top))
  <2>1. IsFiniteSet(0..top)
    BY FS_Interval
  <2>2. FiniteSubsetsOf(0..top) = SUBSET (0..top)
    BY <2>1, FS_FiniteSubsetsOfFinite
  <2> QED
    BY <2>2, FS_StrictSubsetOrderingWellFounded
<1>3. PICK low \in T : \A other \in T : ~ (<<other, low>> \in StrictSubsetOrdering(0..top))
  <2> HIDE DEF T
  <2> QED
    BY <1>1, <1>2, WFMin
<1>4. PICK m \in S : low = m..top
  BY <1>3
<1>5. ASSUME NEW n \in S, m < n PROVE FALSE
  <2>1. n..top \in T /\ n..top \subseteq m..top /\ m \notin n..top /\ m \in m..top
    BY <1>5
  <2> QED
    BY <1>1, <1>3, <1>4, <2>1 DEF StrictSubsetOrdering
<1>6. \A n \in S : m >= n
  BY <1>5
<1>7. Max(S) \in S /\ \A n \in S : Max(S) >= n
  BY <1>6 DEF Max
<1> QED
  BY <1>7
-----------------------------------------------------------------------------
\* Every row's hash covers its body; no two rows of the chain have the same.
Hashed(rs) == \A i \in DOMAIN rs : rs[i].hash = rs[i].body

RowsHashed == Hashed(chain) /\ \A t \in Txs : Hashed(own[t])

NoneTwice == \A i, j \in DOMAIN chain : chain[i].body = chain[j].body => i = j

\* The chain keeps what it has.
Grows == /\ Len(chain) <= Len(chain') /\ DOMAIN chain \subseteq DOMAIN chain'
         /\ \A i \in DOMAIN chain : chain'[i] = chain[i]

\* What a step may do to the rows.
LEMMA RowSteps ==
    ASSUME ChainTypeOK, [ChainNext]_chainVars
    PROVE  /\ \/ chain' = chain
              \/ \E t \in Txs : Commit(t) /\ chain' = chain \o own[t]
           /\ \A t \in Txs : own'[t] \in {own[t], <<>>, Append(own[t], NextRow(t))}
<1>1. CASE UNCHANGED chainVars
  BY <1>1 DEF chainVars
<1>2. ASSUME NEW S \in SUBSET Txs, NEW how, Leave(S, how)
      PROVE  \A t \in Txs : own'[t] \in {own[t], <<>>}
  BY <1>2 DEF Leave
<1>3. ASSUME NEW t \in Txs, Refuse(t) \/ TimeOut(t) \/ Rollback(t) \/ Commit(t)
      PROVE  \A u \in Txs : own'[u] \in {own[u], <<>>}
  BY <1>2, <1>3 DEF Refuse, TimeOut, Rollback, Commit
<1>4. ASSUME NEW h \in Hosts, Crash(h)
      PROVE  \A u \in Txs : own'[u] \in {own[u], <<>>}
  BY <1>2, <1>4 DEF Crash
<1>5. ASSUME NEW t \in Txs, Insert(t)
      PROVE  \A u \in Txs : own'[u] \in {own[u], Append(own[u], NextRow(u))}
  BY <1>5 DEF Insert, ChainTypeOK
<1>6. ASSUME NEW t \in Txs, Save(t) \/ Saved(t) \/ Enter(t) \/ Acquire(t) \/ Serialise(t)
                              \/ ReadTail(t)
      PROVE  own' = own
  BY <1>6 DEF Save, Saved, Enter, Acquire, Serialise, ReadTail
<1>7. (\E t \in Txs : Commit(t)) \/ chain' = chain
  BY DEF ChainNext, TxStep, chainVars, Save, Saved, Enter, Acquire, Serialise, ReadTail,
         Insert, Refuse, TimeOut, Rollback, Crash
<1>8. \A t \in Txs : own'[t] \in {own[t], <<>>, Append(own[t], NextRow(t))}
  BY <1>1, <1>3, <1>4, <1>5, <1>6 DEF ChainNext, TxStep
<1> QED
  BY <1>7, <1>8 DEF Commit

\* Rows behind rows.
LEMMA Joined ==
    ASSUME NEW s \in Seq(Row), NEW u \in Seq(Row)
    PROVE  /\ Len(s) \in Nat /\ Len(u) \in Nat
           /\ DOMAIN s = 1..Len(s) /\ DOMAIN u = 1..Len(u)
           /\ DOMAIN (s \o u) = 1..(Len(s) + Len(u)) /\ Len(s \o u) = Len(s) + Len(u)
           /\ \A i \in DOMAIN s : (s \o u)[i] = s[i]
           /\ \A i \in DOMAIN (s \o u) \ DOMAIN s :
                i - Len(s) \in DOMAIN u /\ (s \o u)[i] = u[i - Len(s)]
<1>1. Len(s) \in Nat /\ Len(u) \in Nat /\ DOMAIN s = 1..Len(s) /\ DOMAIN u = 1..Len(u)
  BY LenProperties
<1>2. /\ s \o u \in Seq(Row) /\ Len(s \o u) = Len(s) + Len(u)
      /\ \A i \in 1..Len(s) + Len(u) : (s \o u)[i] = IF i <= Len(s) THEN s[i] ELSE u[i - Len(s)]
  BY ConcatProperties
<1>3. DOMAIN (s \o u) = 1..(Len(s) + Len(u))
  BY <1>2, LenProperties
<1> QED
  BY <1>1, <1>2, <1>3

\* Committed rows stay as they are.
LEMMA ChainGrows ==
    ASSUME ChainTypeOK, [ChainNext]_chainVars
    PROVE  Grows
<1>1. chain \in Seq(Row) /\ \A t \in Txs : own[t] \in Seq(Row)
  BY DEF ChainTypeOK
<1>2. CASE chain' = chain
  <2>1. Len(chain) \in Nat
    BY <1>1, LenProperties
  <2> QED
    BY <1>2, <2>1 DEF Grows
<1>3. ASSUME NEW t \in Txs, chain' = chain \o own[t] PROVE Grows
  BY <1>1, <1>3, Joined DEF Grows
<1> QED
  BY <1>2, <1>3, RowSteps

\* append computes the hash of what it writes.
LEMMA HashedStep == ChainTypeOK /\ RowsHashed /\ [ChainNext]_chainVars => RowsHashed'
<1> SUFFICES ASSUME ChainTypeOK, RowsHashed, [ChainNext]_chainVars
             PROVE  RowsHashed'
  OBVIOUS
<1>1. chain \in Seq(Row) /\ \A t \in Txs : own[t] \in Seq(Row) /\ NextRow(t) \in Row
  BY NextRowType DEF ChainTypeOK
<1>2. ASSUME NEW t \in Txs PROVE Hashed(own'[t])
  <2>1. Hashed(own[t]) /\ Hashed(<<>>)
    BY DEF RowsHashed, Hashed
  <2>2. Hashed(Append(own[t], NextRow(t)))
    <3>1. NextRow(t).hash = NextRow(t).body
      BY DEF NextRow
    <3>2. \A i \in DOMAIN Append(own[t], NextRow(t)) :
             \/ i \in DOMAIN own[t] /\ Append(own[t], NextRow(t))[i] = own[t][i]
             \/ Append(own[t], NextRow(t))[i] = NextRow(t)
      BY <1>1, AppendProperties, LenProperties
    <3> QED
      BY <2>1, <3>1, <3>2 DEF Hashed
  <2> QED
    BY <2>1, <2>2, RowSteps
<1>3. ASSUME NEW t \in Txs, chain' = chain \o own[t] PROVE Hashed(chain')
  BY <1>1, <1>3, Joined DEF RowsHashed, Hashed
<1> QED
  BY <1>2, <1>3, RowSteps DEF RowsHashed

\* A transaction commits once, and its events are numbered.
LEMMA NoneTwiceStep ==
    ChainTypeOK /\ Recorded /\ NoneTwice /\ [ChainNext]_chainVars => NoneTwice'
<1> SUFFICES ASSUME ChainTypeOK, Recorded, NoneTwice, [ChainNext]_chainVars
             PROVE  NoneTwice'
  OBVIOUS
<1>1. chain \in Seq(Row) /\ \A t \in Txs : own[t] \in Seq(Row)
  BY DEF ChainTypeOK
<1>2. CASE chain' = chain
  BY <1>2 DEF NoneTwice
<1>3. ASSUME NEW t \in Txs, Commit(t), chain' = chain \o own[t] PROVE NoneTwice'
  <2> DEFINE n == Len(chain)
  <2>1. /\ n \in Nat /\ DOMAIN chain = 1..n
        /\ \A i \in DOMAIN chain : chain'[i] = chain[i]
        /\ \A i \in DOMAIN chain' \ DOMAIN chain :
             i - n \in DOMAIN own[t] /\ chain'[i] = own[t][i - n]
        /\ \A i \in DOMAIN chain' : i \in Nat
    BY <1>1, <1>3, Joined
  <2> HIDE DEF n
  <2>2. \A i \in DOMAIN chain : chain'[i].body[1] # t
    BY <1>3, <2>1 DEF Recorded, Commit
  <2>3. \A i \in DOMAIN chain' \ DOMAIN chain : chain'[i].body = <<t, i - n>>
    BY <2>1 DEF Recorded
  <2>4. \A i \in DOMAIN chain' \ DOMAIN chain : chain'[i].body[1] = t /\ chain'[i].body[2] = i - n
    BY <2>3
  <2>5. ASSUME NEW i \in DOMAIN chain', NEW j \in DOMAIN chain', chain'[i].body = chain'[j].body
        PROVE  i = j
    <3>1. CASE i \in DOMAIN chain /\ j \in DOMAIN chain
      BY <2>1, <2>5, <3>1 DEF NoneTwice
    <3>2. CASE i \notin DOMAIN chain /\ j \notin DOMAIN chain
      BY <2>1, <2>4, <2>5, <3>2
    <3>3. (i \in DOMAIN chain) <=> (j \in DOMAIN chain)
      BY <2>2, <2>4, <2>5
    <3> QED
      BY <3>1, <3>2, <3>3
  <2> QED
    BY <2>5 DEF NoneTwice
<1> QED
  BY <1>2, <1>3, RowSteps

\* All that the check relies on in rows that came to no harm.
ChainSound == ChainInv /\ Recorded /\ RowsHashed /\ NoneTwice

\* The invariants of the chain, together.
LEMMA ChainIsSound == ChainSpec => []ChainSound
<1>1. ChainInit => RowsHashed /\ NoneTwice
  BY DEF ChainInit, RowsHashed, NoneTwice, Hashed
<1>2. ChainInit => Recorded
  <2> SUFFICES ASSUME ChainInit PROVE Recorded
    OBVIOUS
  <2>1. chain = <<>> /\ DOMAIN <<>> = {} /\ Len(<<>>) = 0
    BY DEF ChainInit
  <2> QED
    BY <2>1, ChainAssumption DEF ChainInit, Recorded, InCall
<1>3. ChainSound /\ [ChainNext]_chainVars => ChainSound'
  BY TypeStep, LockStep, ViewsStep, RecordedStep, HashedStep, NoneTwiceStep
     DEF ChainSound, ChainInv
<1> QED
  BY <1>1, <1>2, <1>3, ChainInvInit, PTL DEF ChainSpec, ChainSound
-----------------------------------------------------------------------------
Altered(s) == s \in DOMAIN harm /\ harm[s] = "altered"

\* Row s shows a break: its content is not its own, or the row before it is lost or
\* has another hash than row s links to.
Betrayed(s) ==
    Altered(s) \/ (s - 1 \in DOMAIN harm /\ harm[s - 1] \in {"rewritten", "lost"})

\* The newest row is spared, and those that may not be lost are not.
HarmOK ==
    /\ DOMAIN harm \subseteq 1..(Len(chain) - 1)
    /\ \A s \in DOMAIN harm : harm[s] \in Harms /\ (harm[s] = "lost" => s \in Losable)

\* Row s, or what is left of it, is the last before from.
JustBefore(s, from) == s < from /\ \A r \in (s + 1)..(from - 1) : IsLost(r)

\* A forged content is none that the program wrote.
LEMMA ForgedContent == \A b, c \in Content : Forged(b) # c
<1> SUFFICES ASSUME NEW b \in Content, NEW c \in Content, Forged(b) = c PROVE FALSE
  OBVIOUS
<1>1. PICK t, u \in Txs, k, m \in Nat \ {0} : b = <<t, k>> /\ c = <<u, m>>
  BY DEF Content
<1> DEFINE Anything == Txs \union Nat \union {"forged"}
<1>2. <<t, k>> \in Seq(Anything) /\ Len(<<t, k>>) = 2 /\ Len(<<u, m>>) = 2
  OBVIOUS
<1>3. "forged" \in Anything
  OBVIOUS
<1> HIDE DEF Anything
<1>4. Len(Append(<<t, k>>, "forged")) = 3
  BY <1>2, <1>3, AppendProperties
<1> QED
  BY <1>1, <1>2, <1>4 DEF Forged

\* What a reader finds of a row that is there.
LEMMA FoundRow ==
    ASSUME ChainSound, HarmOK, NEW s \in Stored
    PROVE  /\ s \in 1..Len(chain) /\ Len(chain) \in Nat /\ chain[s] \in Row
           /\ Found(s).prev = chain[s].prev
           /\ Found(s).hash = IF s \in DOMAIN harm /\ harm[s] = "rewritten"
                              THEN Forged(chain[s].body) ELSE chain[s].body
           /\ Found(s).hash = Found(s).body <=> ~Altered(s)
<1>1. chain \in Seq(Row) /\ s \in DOMAIN chain /\ ~IsLost(s)
  BY DEF ChainSound, ChainInv, ChainTypeOK, Stored
<1>2. s \in 1..Len(chain) /\ Len(chain) \in Nat /\ chain[s] \in Row
  BY <1>1, LenProperties, ElementOfSeq
<1>3. chain[s].hash = chain[s].body /\ chain[s].body \in Content
  BY <1>1, <1>2 DEF ChainSound, RowsHashed, Hashed, Row
<1>4. CASE s \notin DOMAIN harm
  BY <1>2, <1>3, <1>4 DEF Found, Altered
<1>5. CASE Altered(s)
  <2>1. Found(s) = [chain[s] EXCEPT !.body = Forged(@)]
    BY <1>5 DEF Found, Altered
  <2>2. /\ Found(s).prev = chain[s].prev /\ Found(s).hash = chain[s].hash
        /\ Found(s).body = Forged(chain[s].body)
    BY <2>1, <1>2 DEF Row
  <2>3. Found(s).hash # Found(s).body
    BY <2>2, <1>3, ForgedContent
  <2> QED
    BY <2>2, <2>3, <1>2, <1>3, <1>5 DEF Altered
<1>6. CASE s \in DOMAIN harm /\ harm[s] = "rewritten"
  <2>1. Found(s) = [chain[s] EXCEPT !.body = Forged(@), !.hash = Forged(@)]
    BY <1>6 DEF Found
  <2>2. /\ Found(s).prev = chain[s].prev /\ Found(s).hash = Forged(chain[s].hash)
        /\ Found(s).body = Forged(chain[s].body)
    BY <2>1, <1>2 DEF Row
  <2> QED
    BY <2>2, <1>2, <1>3, <1>6 DEF Altered
<1> QED
  BY <1>1, <1>4, <1>5, <1>6 DEF HarmOK, Harms, IsLost, Altered

\* A row links to the row stored before it exactly if that one is its predecessor and
\* still has its hash.
LEMMA FoundLink ==
    ASSUME ChainSound, HarmOK, NEW p \in Stored, NEW s \in Stored, p < s,
           \A r \in (p + 1)..(s - 1) : IsLost(r)
    PROVE  Found(s).prev # Found(p).hash <=>
             s - 1 \in DOMAIN harm /\ harm[s - 1] \in {"rewritten", "lost"}
<1>1. /\ p \in 1..Len(chain) /\ s \in 1..Len(chain) /\ Len(chain) \in Nat
      /\ chain[p] \in Row /\ Found(s).prev = chain[s].prev
      /\ Found(p).hash = IF p \in DOMAIN harm /\ harm[p] = "rewritten"
                         THEN Forged(chain[p].body) ELSE chain[p].body
  BY FoundRow
<1>2. chain \in Seq(Row) /\ DOMAIN chain = 1..Len(chain)
  BY LenProperties DEF ChainSound, ChainInv, ChainTypeOK
<1>3. s - 1 \in DOMAIN chain /\ chain[s - 1] \in Row
  BY <1>1, <1>2, ElementOfSeq
<1>4. chain[s].prev = chain[s - 1].hash
  BY <1>1, <1>2 DEF ChainSound, ChainInv, ViewsLinked, Linked
<1>5. chain[s - 1].hash = chain[s - 1].body
  BY <1>3 DEF ChainSound, RowsHashed, Hashed
<1>6. chain[p].body \in Content /\ chain[s - 1].body \in Content
  BY <1>1, <1>3 DEF Row
<1>7. CASE p = s - 1
  <2>1. ~IsLost(s - 1)
    BY <1>7 DEF Stored
  <2>2. s - 1 \in DOMAIN harm /\ harm[s - 1] \in {"rewritten", "lost"}
          <=> s - 1 \in DOMAIN harm /\ harm[s - 1] = "rewritten"
    BY <2>1 DEF IsLost
  <2> QED
    BY <2>2, <1>1, <1>4, <1>5, <1>6, <1>7, ForgedContent
<1>8. CASE p # s - 1
  <2>1. s - 1 \in (p + 1)..(s - 1)
    BY <1>1, <1>8
  <2>2. IsLost(s - 1)
    BY <2>1
  <2>3. chain[p].body # chain[s - 1].body
    BY <1>1, <1>2, <1>3, <1>8 DEF ChainSound, NoneTwice
  <2> QED
    BY <2>2, <2>3, <1>1, <1>4, <1>5, <1>6, ForgedContent DEF IsLost
<1> QED
  BY <1>7, <1>8
-----------------------------------------------------------------------------
\* The last row stored before from, if there is one.
LEMMA ContextRow ==
    ASSUME ChainSound, HarmOK, NEW from \in Nat \ {0}, from <= Len(chain)
    PROVE  /\ Context(from) \subseteq Stored
           /\ \A s : s \in Context(from) <=> s \in Stored /\ JustBefore(s, from)
           /\ \A s \in Stored : s < from => \E p \in Context(from) : s <= p
<1> DEFINE earlier == {s \in Stored : s < from}
<1>1. chain \in Seq(Row) /\ DOMAIN chain = 1..Len(chain) /\ Len(chain) \in Nat
  BY LenProperties DEF ChainSound, ChainInv, ChainTypeOK
<1>2. earlier \subseteq 0..Len(chain)
  BY <1>1 DEF Stored
<1>3. CASE earlier = {}
  <2>1. Context(from) = {}
    BY <1>3 DEF Context
  <2> QED
    BY <2>1, <1>3 DEF JustBefore
<1>4. CASE earlier # {}
  <2> DEFINE p == Max(earlier)
  <2>1. Context(from) = {p}
    BY <1>4 DEF Context
  <2>2. p \in earlier /\ \A s \in earlier : s <= p
    <3> HIDE DEF earlier
    <3> QED
      BY <1>1, <1>2, <1>4, MaxOfBounded
  <2> HIDE DEF p
  <2>3. p \in Stored /\ p < from /\ p \in 1..Len(chain)
    BY <2>2, <1>1 DEF Stored
  <2>4. ASSUME NEW r \in (p + 1)..(from - 1) PROVE IsLost(r)
    BY <1>1, <2>2, <2>3 DEF Stored
  <2>5. ASSUME NEW s \in Stored, JustBefore(s, from) PROVE s = p
    <3>1. s \in earlier /\ s \in 1..Len(chain)
      BY <2>5, <1>1 DEF JustBefore, Stored
    <3>2. CASE s < p
      <4>1. p \in (s + 1)..(from - 1)
        BY <2>3, <3>1, <3>2
      <4> QED
        BY <2>3, <2>5, <4>1 DEF JustBefore, Stored
    <3> QED
      BY <2>2, <2>3, <3>1, <3>2
  <2>6. p \in Stored /\ JustBefore(p, from)
    BY <2>3, <2>4 DEF JustBefore
  <2>7. \A s \in Stored : s < from => s <= p
    BY <2>2
  <2> QED
    BY <2>1, <2>5, <2>6, <2>7
<1> QED
  BY <1>3, <1>4

\* The rows verified, with the context.
Selected(from, to) == Context(from) \union (Stored \intersect (from..to))

\* A row breaks in the midst of those verified exactly if it shows a break and has a
\* row verified before it, or is altered.
LEMMA BreaksIf ==
    ASSUME ChainSound, HarmOK, NEW from \in Nat \ {0}, NEW to \in Nat, from <= Len(chain),
           NEW s \in Selected(from, to)
    PROVE  BreaksAt(Selected(from, to), from, s) <=>
             \/ Altered(s)
             \/ /\ \E p \in Selected(from, to) : p < s
                /\ s - 1 \in DOMAIN harm /\ harm[s - 1] \in {"rewritten", "lost"}
<1> DEFINE sel == Selected(from, to)  earlier == {p \in sel : p < s}
<1>1. chain \in Seq(Row) /\ DOMAIN chain = 1..Len(chain) /\ Len(chain) \in Nat
  BY LenProperties DEF ChainSound, ChainInv, ChainTypeOK
<1>2. /\ Context(from) \subseteq Stored
      /\ \A c : c \in Context(from) <=> c \in Stored /\ JustBefore(c, from)
      /\ \A c \in Stored : c < from => \E p \in Context(from) : c <= p
  BY ContextRow
<1>3. sel \subseteq Stored /\ \A r \in Stored : r \in 1..Len(chain) /\ r \in 0..Len(chain)
  BY <1>1, <1>2 DEF Selected, Stored
<1>4. from # None
  BY DEF None
<1>5. Found(s).hash # Found(s).body <=> Altered(s)
  BY <1>3, FoundRow
<1>6. CASE earlier = {}
  BY <1>4, <1>5, <1>6 DEF BreaksAt
<1>7. CASE earlier # {}
  <2> DEFINE p == Max(earlier)
  <2>1. p \in earlier /\ \A r \in earlier : r <= p
    <3>1. earlier \subseteq 0..Len(chain)
      BY <1>3
    <3> HIDE DEF earlier
    <3> QED
      BY <1>1, <1>7, <3>1, MaxOfBounded
  <2> HIDE DEF p
  <2>2. p \in Stored /\ p < s /\ s \in Stored /\ p \in 1..Len(chain) /\ s \in 1..Len(chain)
    BY <2>1, <1>3
  <2>3. ASSUME NEW r \in (p + 1)..(s - 1), ~IsLost(r) PROVE FALSE
    <3>1. r \in Stored /\ p < r /\ r < s
      BY <2>2, <2>3, <1>1 DEF Stored
    <3>2. CASE from <= r
      <4>1. s <= to
        BY <2>2, <3>1, <3>2, <1>2 DEF Selected, JustBefore
      <4>2. r \in sel
        BY <2>2, <3>1, <3>2, <4>1 DEF Selected
      <4> QED
        BY <2>1, <2>2, <3>1, <4>2
    <3>3. CASE r < from
      <4>1. PICK c \in Context(from) : r <= c
        BY <1>2, <3>1, <3>3
      <4>2. c \in sel /\ c < from /\ c \in 1..Len(chain)
        BY <4>1, <1>2, <1>3 DEF Selected, JustBefore
      <4>3. CASE c < s
        BY <2>1, <2>2, <3>1, <4>1, <4>2, <4>3
      <4>4. CASE s <= c
        <5>1. s \in Context(from)
          BY <2>2, <4>2, <4>4 DEF Selected
        <5>2. r \in (p + 1)..(from - 1) /\ p < from
          BY <2>2, <3>1, <3>3
        <5>3. p \in Context(from)
          BY <2>1, <2>2, <5>2 DEF Selected
        <5>4. s \in (p + 1)..(from - 1)
          BY <2>2, <4>2, <4>4
        <5>5. IsLost(s)
          BY <1>2, <5>3, <5>4 DEF JustBefore
        <5> QED
          BY <2>2, <5>5 DEF Stored
      <4> QED
        BY <2>2, <4>2, <4>3, <4>4
    <3> QED
      BY <3>1, <3>2, <3>3, <2>2
  <2>4. Found(s).prev # Found(p).hash <=>
          s - 1 \in DOMAIN harm /\ harm[s - 1] \in {"rewritten", "lost"}
    BY <2>2, <2>3, FoundLink
  <2>5. BreaksAt(sel, from, s) <=> Found(s).prev # Found(p).hash \/ Found(s).hash # Found(s).body
    BY <1>7 DEF BreaksAt, p
  <2> QED
    BY <1>5, <1>7, <2>4, <2>5
<1> QED
  BY <1>6, <1>7
-----------------------------------------------------------------------------
\* The chain's last row is there to be verified, if there is any.
LEMMA NewestIsLast ==
    ASSUME ChainSound, HarmOK
    PROVE  /\ Newest = Len(chain) /\ Len(chain) \in Nat /\ DOMAIN chain = 1..Len(chain)
           /\ Len(chain) # 0 => Len(chain) \in Stored
<1>1. chain \in Seq(Row) /\ DOMAIN chain = 1..Len(chain) /\ Len(chain) \in Nat
  BY LenProperties DEF ChainSound, ChainInv, ChainTypeOK
<1>2. CASE Len(chain) = 0
  <2>1. Stored = {}
    BY <1>1, <1>2 DEF Stored
  <2> QED
    BY <1>1, <1>2, <2>1 DEF Newest
<1>3. CASE Len(chain) # 0
  <2>1. Len(chain) \in Stored
    BY <1>1, <1>3 DEF Stored, IsLost, HarmOK
  <2>2. Stored \subseteq 0..Len(chain)
    BY <1>1 DEF Stored
  <2>3. Max(Stored) \in Stored /\ \A s \in Stored : s <= Max(Stored)
    BY <1>1, <2>1, <2>2, MaxOfBounded
  <2>4. Max(Stored) \in 0..Len(chain) /\ Len(chain) <= Max(Stored)
    BY <2>1, <2>2, <2>3
  <2> QED
    BY <1>1, <2>1, <2>4 DEF Newest
<1> QED
  BY <1>2, <1>3

\* A run's range begins behind the cursor, or at the start, and ends by the newest row.
LEMMA RangeOfRun ==
    ASSUME ChainSound, HarmOK, cursor \in 0..Len(chain)
    PROVE  /\ Resume \in Nat /\ Resume = IF cursor < Len(chain) THEN cursor ELSE 0
           /\ Batched(Resume + 1) = IF Len(chain) <= Resume + Batch THEN Len(chain)
                                    ELSE Resume + Batch
<1>1. Newest = Len(chain) /\ Len(chain) \in Nat /\ Batch \in Nat \ {0}
  BY NewestIsLast, IntegrityAssumption
<1>2. Resume \in Nat /\ Resume = IF cursor < Len(chain) THEN cursor ELSE 0
  BY <1>1 DEF Resume
<1> DEFINE ends == {Len(chain), Resume + Batch}
<1>3. Batched(Resume + 1) = Min(ends)
  <2>1. (Resume + 1) - 1 + Batch = Resume + Batch
    BY <1>1, <1>2
  <2> QED
    BY <1>1, <2>1 DEF Batched
<1>4. Min(ends) \in ends /\ \A n \in ends : Min(ends) <= n
  <2>1. ends \subseteq 0..(Len(chain) + Resume + Batch) /\ Len(chain) + Resume + Batch \in Nat
    BY <1>1, <1>2
  <2>2. ends # {}
    OBVIOUS
  <2> HIDE DEF ends
  <2> QED
    BY <2>1, <2>2, MinOfBounded
<1> QED
  BY <1>1, <1>2, <1>3, <1>4

\* The break that a verification names is one of those there are.
LEMMA Names ==
    ASSUME ChainSound, HarmOK, NEW from \in Nat \ {0}, NEW to \in Nat, from <= Len(chain)
    PROVE  /\ VerifyRange(from, to) # None =>
                /\ VerifyRange(from, to) \in Selected(from, to)
                /\ BreaksAt(Selected(from, to), from, VerifyRange(from, to))
           /\ Stored \intersect (from..to) # {} =>
                \A s \in Selected(from, to) :
                  BreaksAt(Selected(from, to), from, s) => VerifyRange(from, to) # None
<1> DEFINE sel == Selected(from, to)
           broken == {s \in sel : BreaksAt(sel, from, s)}
<1>1. DOMAIN chain = 1..Len(chain) /\ Len(chain) \in Nat
  BY NewestIsLast
<1>2. sel \subseteq Stored /\ \A s \in Stored : s \in 1..Len(chain) /\ s \in 0..Len(chain)
  BY <1>1, ContextRow DEF Selected, Stored
<1>3. broken \subseteq 0..Len(chain) /\ \A s \in broken : s # None
  BY <1>2 DEF None
<1>4. CASE Stored \intersect (from..to) = {}
  BY <1>4 DEF VerifyRange
<1>5. CASE Stored \intersect (from..to) # {} /\ broken = {}
  BY <1>5 DEF VerifyRange, FirstBreak, Selected
<1>6. CASE Stored \intersect (from..to) # {} /\ broken # {}
  <2>1. VerifyRange(from, to) = Min(broken)
    BY <1>6 DEF VerifyRange, FirstBreak, Selected
  <2>2. Min(broken) \in broken
    <3> HIDE DEF broken
    <3> QED
      BY <1>1, <1>3, <1>6, MinOfBounded
  <2> QED
    BY <2>1, <2>2, <1>3
<1> QED
  BY <1>4, <1>5, <1>6

\* What an alarm of a range says, and that the same range would say it again.
LEMMA AlarmTrue ==
    ASSUME ChainSound, HarmOK, NEW from \in Nat \ {0}, NEW to \in Nat, to <= Len(chain),
           VerifyRange(from, to) # None
    PROVE  /\ from <= Len(chain)
           /\ VerifyRange(from, to) \in Stored /\ Betrayed(VerifyRange(from, to))
           /\ \/ VerifyRange(from, to) \in from..to
              \/ Altered(VerifyRange(from, to)) /\ JustBefore(VerifyRange(from, to), from)
<1> DEFINE a == VerifyRange(from, to)
<1>1. DOMAIN chain = 1..Len(chain) /\ Len(chain) \in Nat
  BY NewestIsLast
<1>2. from <= Len(chain)
  <2>1. PICK s \in Stored \intersect (from..to) : TRUE
    BY DEF VerifyRange
  <2> QED
    BY <1>1, <2>1
<1>3. a \in Selected(from, to) /\ BreaksAt(Selected(from, to), from, a)
  BY <1>2, Names
<1>c. /\ Context(from) \subseteq Stored
      /\ \A s : s \in Context(from) <=> s \in Stored /\ JustBefore(s, from)
  BY <1>2, ContextRow
<1> HIDE DEF a
<1>4. \/ Altered(a)
      \/ /\ \E p \in Selected(from, to) : p < a
         /\ a - 1 \in DOMAIN harm /\ harm[a - 1] \in {"rewritten", "lost"}
  BY <1>2, <1>3, BreaksIf
<1>5. a \in Stored /\ Betrayed(a)
  BY <1>3, <1>4, <1>c DEF Selected, Betrayed
<1>6. CASE a \notin from..to
  <2>1. a \in Stored /\ JustBefore(a, from)
    BY <1>3, <1>6, <1>c DEF Selected
  <2>2. ASSUME NEW p \in Selected(from, to), p < a PROVE FALSE
    <3>1. a \in 1..Len(chain) /\ p \in 1..Len(chain) /\ a < from
      BY <1>1, <1>c, <2>1 DEF Stored, Selected, JustBefore
    <3>2. p \in Context(from)
      BY <2>2, <3>1 DEF Selected
    <3>3. a \in (p + 1)..(from - 1)
      BY <2>2, <3>1
    <3> QED
      BY <2>1, <3>2, <3>3, <1>c DEF JustBefore, Stored
  <2> QED
    BY <1>2, <1>4, <1>5, <2>1, <2>2 DEF a
<1> QED
  BY <1>2, <1>5, <1>6 DEF a
-----------------------------------------------------------------------------
\* The alarm is of a row that shows a break; and unless that row is lost, the next
\* run's range has it, or begins behind it.
CheckOK ==
    /\ cursor \in 0..Len(chain) /\ alarm \in 0..Len(chain)
    /\ alarm # None => Betrayed(alarm)
    /\ alarm # None /\ ~IsLost(alarm) =>
         /\ cursor < Len(chain)
         /\ \/ alarm \in (cursor + 1)..(cursor + Batch)
            \/ Altered(alarm) /\ JustBefore(alarm, cursor + 1)

IntegrityInv == ChainSound /\ HarmOK /\ CheckOK

\* A run of the check keeps what there is to know of its cursor and its alarm.
LEMMA CheckStep == IntegrityInv /\ Check => CheckOK'
<1> SUFFICES ASSUME IntegrityInv, Check PROVE CheckOK'
  OBVIOUS
<1> DEFINE from == Resume + 1  to == Batched(from)  found == VerifyRange(from, to)
<1>1. /\ alarm' = found /\ cursor' = NextCursor(from, to, found)
      /\ chain' = chain /\ harm' = harm
  BY DEF Check, CheckFrom, chainVars
<1>2. ChainSound /\ HarmOK /\ cursor \in 0..Len(chain)
  BY DEF IntegrityInv, CheckOK
<1>3. Len(chain) \in Nat /\ DOMAIN chain = 1..Len(chain) /\ Newest = Len(chain)
      /\ Batch \in Nat \ {0}
  BY <1>2, NewestIsLast, IntegrityAssumption
<1>4. /\ Resume \in Nat /\ Resume = IF cursor < Len(chain) THEN cursor ELSE 0
      /\ to = IF Len(chain) <= Resume + Batch THEN Len(chain) ELSE Resume + Batch
  BY <1>2, RangeOfRun
<1>5. /\ from \in Nat \ {0} /\ from = Resume + 1 /\ from - 1 = Resume
      /\ to \in Nat /\ to <= Len(chain) /\ to <= Resume + Batch
  BY <1>3, <1>4
<1> HIDE DEF from, to
<1>6. found # None => /\ from <= Len(chain) /\ found \in Stored /\ Betrayed(found)
                      /\ \/ found \in from..to
                         \/ Altered(found) /\ JustBefore(found, from)
  BY <1>2, <1>5, AlarmTrue
<1> HIDE DEF found
<1>7. cursor' = IF found # None THEN Resume ELSE IF to >= Len(chain) THEN 0 ELSE to
  BY <1>1, <1>3, <1>5 DEF NextCursor
<1>8. \A s : (Betrayed(s))' = Betrayed(s) /\ (IsLost(s))' = IsLost(s) /\ (Altered(s))' = Altered(s)
             /\ \A f : (JustBefore(s, f))' = JustBefore(s, f)
  BY <1>1 DEF Betrayed, IsLost, Altered, JustBefore
<1>9. cursor' \in 0..Len(chain)
  <2>1. Resume <= Len(chain)
    BY <1>3, <1>4
  <2>2. cursor' \in {Resume, 0, to}
    BY <1>7
  <2>3. Resume \in Nat /\ to \in Nat /\ to <= Len(chain) /\ Len(chain) \in Nat
    BY <1>3, <1>4, <1>5
  <2> QED
    BY <2>1, <2>2, <2>3
<1>10. CASE found = None
  BY <1>1, <1>3, <1>9, <1>10 DEF CheckOK, None
<1>11. CASE found # None
  <2>1. found \in 1..Len(chain) /\ cursor' = Resume /\ Resume < Len(chain)
    BY <1>3, <1>5, <1>6, <1>7, <1>11 DEF Stored
  <2>2. \/ found \in (Resume + 1)..(Resume + Batch)
        \/ Altered(found) /\ JustBefore(found, Resume + 1)
    <3>1. CASE found \in from..to
      <4>1. found \in Nat /\ Resume \in Nat /\ Resume + 1 <= found /\ found <= Resume + Batch
        <5>1. Resume \in Nat /\ to \in Nat /\ Batch \in Nat
          BY <1>3, <1>4, <1>5
        <5>2. from = Resume + 1 /\ to <= Resume + Batch
          BY <1>5
        <5>3. found \in Nat /\ from <= found /\ found <= to
          BY <1>3, <1>5, <2>1, <3>1, <5>1
        <5> QED
          BY <5>1, <5>2, <5>3
      <4> QED
        BY <1>3, <4>1
    <3>2. CASE Altered(found) /\ JustBefore(found, from)
      BY <1>5, <3>2
    <3> QED
      BY <1>6, <1>11, <3>1, <3>2
  <2>3. alarm' \in 0..Len(chain')
    BY <1>1, <2>1, <1>3
  <2>4. Betrayed(found)
    BY <1>6, <1>11
  <2> QED
    BY <1>1, <1>8, <1>9, <2>1, <2>2, <2>3, <2>4 DEF CheckOK
<1> QED
  BY <1>10, <1>11

\* Rows come to harm, once each: what showed a break still does.
LEMMA HarmStep ==
    ASSUME IntegrityInv, NEW seq, NEW how \in Harms, ComesToHarm(seq, how)
    PROVE  HarmOK' /\ CheckOK'
<1>1. /\ seq \in 1..(Len(chain) - 1) /\ seq \notin DOMAIN harm
      /\ how = "lost" => seq \in Losable
      /\ DOMAIN harm' = DOMAIN harm \union {seq}
      /\ harm'[seq] = how /\ \A s \in DOMAIN harm : harm'[s] = harm[s]
      /\ chain' = chain /\ cursor' = cursor /\ alarm' = alarm
  BY DEF ComesToHarm, chainVars
<1>2. HarmOK'
  BY <1>1 DEF HarmOK, IntegrityInv
<1>3. \A s : /\ IsLost(s) => (IsLost(s))'
             /\ Altered(s) => (Altered(s))'
             /\ Betrayed(s) => (Betrayed(s))'
  BY <1>1 DEF IsLost, Altered, Betrayed
<1>4. \A s, from : JustBefore(s, from) => (JustBefore(s, from))'
  BY <1>3 DEF JustBefore
<1>5. CheckOK'
  BY <1>1, <1>3, <1>4 DEF CheckOK, IntegrityInv
<1> QED
  BY <1>2, <1>5

\* Transactions only add rows behind those there are.
LEMMA AppendStep ==
    ASSUME IntegrityInv, [ChainNext]_chainVars, UNCHANGED <<harm, cursor, alarm>>
    PROVE  HarmOK' /\ CheckOK'
<1>1. Len(chain) \in Nat
  BY NewestIsLast DEF IntegrityInv
<1>2. Len(chain) <= Len(chain') /\ Len(chain') \in Nat
  <2>1. ChainTypeOK /\ ChainTypeOK'
    BY TypeStep DEF IntegrityInv, ChainSound, ChainInv
  <2> QED
    BY <2>1, ChainGrows, LenProperties DEF Grows, ChainTypeOK
<1>3. HarmOK'
  BY <1>1, <1>2 DEF HarmOK, IntegrityInv
<1>4. \A s : (IsLost(s))' = IsLost(s) /\ (Altered(s))' = Altered(s) /\ (Betrayed(s))' = Betrayed(s)
  BY DEF IsLost, Altered, Betrayed
<1>5. \A s, from : (JustBefore(s, from))' = JustBefore(s, from)
  BY <1>4 DEF JustBefore
<1>6. CheckOK'
  BY <1>1, <1>2, <1>4, <1>5 DEF CheckOK, IntegrityInv
<1> QED
  BY <1>3, <1>6

\* A behaviour of the chain and its check is one of the chain.
LEMMA ChainRuns == Spec => ChainSpec
<1>1. Init => ChainInit
  BY DEF Init
<1>2. [Next]_vars => [ChainNext]_chainVars
  BY DEF Next, vars, Check, CheckFrom, ComesToHarm
<1> QED
  BY <1>1, <1>2, PTL DEF Spec, ChainSpec

\* The invariants of the chain, of the harm done to it and of its check.
LEMMA IntegrityInvariant == Spec => []IntegrityInv
<1>1. Init => HarmOK /\ CheckOK
  <2> SUFFICES ASSUME Init PROVE HarmOK /\ CheckOK
    OBVIOUS
  <2>1. chain = <<>> /\ DOMAIN harm = {} /\ cursor = 0 /\ alarm = None
    BY DEF Init, ChainInit
  <2>2. Len(chain) = 0
    BY <2>1
  <2> QED
    BY <2>1, <2>2 DEF HarmOK, CheckOK, None
<1>2. IntegrityInv /\ [Next]_vars => (HarmOK /\ CheckOK)'
  <2> SUFFICES ASSUME IntegrityInv, [Next]_vars PROVE HarmOK' /\ CheckOK'
    OBVIOUS
  <2>1. CASE ChainNext /\ UNCHANGED <<harm, cursor, alarm>>
    BY <2>1, AppendStep
  <2>2. CASE Check
    <3>1. harm' = harm /\ chain' = chain
      BY <2>2 DEF Check, CheckFrom, chainVars
    <3>2. HarmOK'
      BY <3>1 DEF HarmOK, IntegrityInv
    <3> QED
      BY <2>2, <3>2, CheckStep
  <2>3. ASSUME NEW seq \in DOMAIN chain, NEW how \in Harms, ComesToHarm(seq, how)
        PROVE  HarmOK' /\ CheckOK'
    BY <2>3, HarmStep
  <2>4. CASE UNCHANGED vars
    BY <2>4, AppendStep DEF vars
  <2> QED
    BY <2>1, <2>2, <2>3, <2>4 DEF Next
<1> QED
  BY <1>1, <1>2, ChainRuns, ChainIsSound, PTL DEF Spec, IntegrityInv

\* _check_audit_chain: the cursor is of a row of the chain, whatever is appended to it
\* and comes to harm, and so is an alarm.
THEOREM IntegrityTypeCorrect == Spec => []TypeOK
<1>1. IntegrityInv => TypeOK
  <2> SUFFICES ASSUME IntegrityInv PROVE TypeOK
    OBVIOUS
  <2>1. DOMAIN chain = 1..Len(chain) /\ Len(chain) \in Nat
    BY NewestIsLast DEF IntegrityInv
  <2>2. DOMAIN harm \subseteq DOMAIN chain
    BY <2>1 DEF IntegrityInv, HarmOK
  <2> QED
    BY <2>2 DEF IntegrityInv, ChainSound, ChainInv, HarmOK, CheckOK, TypeOK
<1> QED
  BY <1>1, IntegrityInvariant, PTL

\* verify_chain of a range: an alarm is never raised of rows that came to no harm,
\* wherever the range begins; it names the first row harmed, or the row behind it.
THEOREM AlarmsAreTrue == Spec => []AlarmAtHarm
<1>1. IntegrityInv => AlarmAtHarm
  <2> SUFFICES ASSUME IntegrityInv, alarm # None PROVE AlarmAtHarm
    BY DEF AlarmAtHarm
  <2>1. Betrayed(alarm) /\ alarm \in Nat /\ DOMAIN harm \subseteq 1..(Len(chain) - 1)
        /\ Len(chain) \in Nat
    BY NewestIsLast DEF IntegrityInv, CheckOK, HarmOK
  <2>2. CASE Altered(alarm)
    <3>1. \A r \in (alarm + 1)..(alarm - 1) : IsLost(r)
      BY <2>1
    <3> QED
      BY <2>1, <2>2, <3>1 DEF AlarmAtHarm, Altered
  <2>3. CASE alarm - 1 \in DOMAIN harm
    <3>1. \A r \in ((alarm - 1) + 1)..(alarm - 1) : IsLost(r)
      BY <2>1
    <3>2. alarm - 1 <= alarm
      BY <2>1
    <3> QED
      BY <2>3, <3>1, <3>2 DEF AlarmAtHarm
  <2> QED
    BY <2>1, <2>2, <2>3 DEF Betrayed
<1> QED
  BY <1>1, IntegrityInvariant, PTL
-----------------------------------------------------------------------------
\* Neither the first row nor a whole batch of rows is lost.
Spared == 1 \notin Losable /\ \A n \in Nat : \E s \in (n + 1)..(n + Batch) : s \notin Losable

\* An alarm's row is found broken by the next run.
LEMMA AlarmAgain ==
    ASSUME Spared, IntegrityInv, Check, alarm # None, ~IsLost(alarm)
    PROVE  alarm' # None
<1> DEFINE from == Resume + 1  to == Batched(from)
<1>1. alarm' = VerifyRange(from, to)
  BY DEF Check, CheckFrom
<1>2. ChainSound /\ HarmOK /\ cursor \in 0..Len(chain)
  BY DEF IntegrityInv, CheckOK
<1>3. /\ Len(chain) \in Nat /\ DOMAIN chain = 1..Len(chain) /\ Batch \in Nat \ {0}
      /\ Len(chain) # 0 => Len(chain) \in Stored
  BY <1>2, NewestIsLast, IntegrityAssumption
<1>4. /\ cursor < Len(chain) /\ Betrayed(alarm) /\ alarm \in 1..Len(chain)
      /\ \/ alarm \in (cursor + 1)..(cursor + Batch)
         \/ Altered(alarm) /\ JustBefore(alarm, cursor + 1)
  BY DEF IntegrityInv, CheckOK, None
<1>5. Resume = cursor /\ cursor \in Nat
      /\ to = IF Len(chain) <= cursor + Batch THEN Len(chain) ELSE cursor + Batch
  BY <1>2, <1>3, <1>4, RangeOfRun
<1>6. /\ from \in Nat \ {0} /\ from = cursor + 1 /\ from <= Len(chain)
      /\ to \in Nat /\ to <= Len(chain)
  BY <1>3, <1>4, <1>5
<1> HIDE DEF from, to
<1>7. alarm \in Stored /\ 1 \in Stored
  BY <1>3, <1>4 DEF Stored, IsLost, HarmOK, IntegrityInv, Spared
<1>8. Stored \intersect (from..to) # {}
  <2>1. CASE Len(chain) <= cursor + Batch
    <3>1. Len(chain) \in Stored /\ to = Len(chain)
      BY <1>3, <1>4, <1>5, <2>1
    <3> QED
      BY <1>3, <1>6, <3>1
  <2>2. CASE ~ (Len(chain) <= cursor + Batch)
    <3>1. PICK s \in (cursor + 1)..(cursor + Batch) : s \notin Losable
      BY <1>5 DEF Spared
    <3>2. s \in from..to /\ s \in 1..Len(chain)
      BY <1>3, <1>5, <1>6, <2>2, <3>1
    <3>3. s \in Stored
      BY <1>2, <1>3, <3>1, <3>2 DEF Stored, IsLost, HarmOK
    <3> QED
      BY <3>2, <3>3
  <2> QED
    BY <2>1, <2>2
<1>9. /\ \A s : s \in Context(from) <=> s \in Stored /\ JustBefore(s, from)
      /\ \A s \in Stored : s < from => \E p \in Context(from) : s <= p
  BY <1>2, <1>6, ContextRow
<1>10. alarm \in Selected(from, to) /\ BreaksAt(Selected(from, to), from, alarm)
  <2>1. CASE alarm \in (cursor + 1)..(cursor + Batch)
    <3>1. alarm \in from..to
      <4>1. alarm \in Nat /\ cursor + 1 <= alarm /\ alarm <= cursor + Batch /\ alarm <= Len(chain)
        BY <1>3, <1>4, <1>5, <2>1
      <4>2. alarm <= to
        BY <1>5, <4>1
      <4> QED
        BY <1>6, <4>1, <4>2
    <3>2. alarm \in Selected(from, to)
      BY <1>7, <3>1 DEF Selected
    <3>3. alarm - 1 \in DOMAIN harm => \E p \in Selected(from, to) : p < alarm
      <4>1. CASE from = 1 /\ alarm - 1 \in DOMAIN harm
        <5>1. 1 < alarm
          BY <1>3, <1>4, <4>1 DEF HarmOK, IntegrityInv
        <5>2. 1 \in from..to
          BY <1>4, <1>6, <3>1, <4>1, <5>1
        <5> QED
          BY <1>7, <5>1, <5>2 DEF Selected
      <4>2. CASE from # 1
        <5>1. PICK p \in Context(from) : TRUE
          BY <1>6, <1>7, <1>9, <4>2
        <5>2. p \in Stored /\ p < from
          BY <1>9 DEF JustBefore
        <5>3. p < alarm /\ p \in Selected(from, to)
          BY <1>3, <1>4, <1>6, <3>1, <5>2 DEF Stored, Selected
        <5> QED
          BY <5>3
      <4> QED
        BY <4>1, <4>2
    <3> QED
      BY <1>2, <1>4, <1>6, <3>2, <3>3, BreaksIf DEF Betrayed
  <2>2. CASE Altered(alarm) /\ JustBefore(alarm, cursor + 1)
    <3>1. alarm \in Selected(from, to)
      BY <1>6, <1>7, <1>9, <2>2 DEF Selected
    <3> QED
      BY <1>2, <1>6, <2>2, <3>1, BreaksIf
  <2> QED
    BY <1>4, <2>1, <2>2
<1> QED
  BY <1>1, <1>2, <1>6, <1>8, <1>10, Names

\* "The cursor is deliberately not advanced past a break": as long as neither the first
\* row nor a whole batch can be lost, an alarm is raised again by every run until its row
\* is gone, whatever else comes to harm or is appended.
THEOREM AlarmsStand == Spared => (Spec => AlarmPersists)
<1>1. Spared /\ IntegrityInv /\ Check /\ alarm # None /\ ~IsLost(alarm) => alarm' # None
  BY AlarmAgain
<1> SUFFICES ASSUME Spared PROVE Spec => AlarmPersists
  OBVIOUS
<1>2. IntegrityInv /\ [Next]_vars =>
        [Check /\ alarm # None /\ ~IsLost(alarm) => alarm' # None]_vars
  BY <1>1
<1> QED
  BY <1>2, IntegrityInvariant, PTL DEF Spec, AlarmPersists
=============================================================================
