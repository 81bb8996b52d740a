----------------------------- MODULE AuditChain -----------------------------
(***************************************************************************)
(* db/repositories/audit.py: the audit events of a transaction and of the  *)
(* business change they describe commit together (one session per request, *)
(* one per job handler).  An append takes the process's RLock, serialises  *)
(* with other processes in the database's own way, reads the chain's tail  *)
(* and flushes a row linked to it.  PostgreSQL's advisory lock is held to  *)
(* the end of the transaction, and so is SQLite's write lock, which the    *)
(* first write takes.  The handlers of the web application are coroutines: *)
(* they share the event loop's thread, which a blocking call stops.        *)
(***************************************************************************)
EXTENDS Naturals, Sequences

CONSTANTS Txs,        \* transactions
          ThreadOf,   \* the thread each runs on
          HostOf,     \* the process each runs in
          Appends,    \* bound: the events each may record
          Dialects,   \* the databases considered
          Nobody,     \* no transaction: a lock is free
          MaxCrashes  \* bound: processes killed

ASSUME ChainAssumption ==
    /\ Appends \in [Txs -> Nat \ {0}]
    /\ Dialects \subseteq {"postgresql", "sqlite"} /\ Dialects # {}
    /\ Nobody \notin Txs
    /\ MaxCrashes \in Nat
    /\ \A t, u \in Txs : ThreadOf[t] = ThreadOf[u] => HostOf[t] = HostOf[u]

VARIABLES
    dialect,   \* the database of this deployment
    chain,     \* the committed rows of audit_event, by sequence
    own,       \* the rows each transaction has flushed and not committed
    pc,        \* where each transaction is
    tail,      \* what each append has read of the chain's tail
    rlock,     \* _AUDIT_WRITE_LOCK of each process: the transaction in append
    lock,      \* the advisory lock, or SQLite's write lock
    crashes    \* what has been spent of the bound

chainVars == <<dialect, chain, own, pc, tail, rlock, lock, crashes>>

Hosts == {HostOf[t] : t \in Txs}
Over  == {"committed", "refused", "failed"}

\* A transaction in one of these is in a call that keeps its thread.
InCall == {"saving", "entering", "entered", "serialised", "read"}

\* A row's hash stands for what it covers, and two contents never collide; the
\* content of a row is who recorded it and as which of its events.
Content  == Txs \X (Nat \ {0})
NoHash   == <<>>
Row      == [seq : Nat \ {0}, prev : Content \union {NoHash}, hash : Content, body : Content]
TailSeen == [seq : Nat, hash : Content \union {NoHash}]
NoTail   == [seq |-> 0, hash |-> NoHash]

TailOf(rows) ==
    IF rows = <<>> THEN NoTail
    ELSE [seq |-> rows[Len(rows)].seq, hash |-> rows[Len(rows)].hash]

\* What a transaction sees of the table: committed rows, then its own.
View(t) == chain \o own[t]

ChainInit ==
    /\ dialect \in Dialects
    /\ chain = <<>>
    /\ own = [t \in Txs |-> <<>>]
    /\ pc = [t \in Txs |-> "open"]
    /\ tail = [t \in Txs |-> NoTail]
    /\ rlock = [h \in Hosts |-> Nobody]
    /\ lock = Nobody
    /\ crashes = 0
-----------------------------------------------------------------------------
\* A step of t's own code needs its thread.
ThreadFree(t) == \A u \in Txs \ {t} : ThreadOf[u] = ThreadOf[t] => pc[u] \notin InCall

Free(l, t) == l \in {Nobody, t}

\* A transaction is over: its rows are dropped unless committed, its locks freed.
Leave(S, how) ==
    /\ pc' = [t \in Txs |-> IF t \in S THEN how ELSE pc[t]]
    /\ own' = [t \in Txs |-> IF t \in S THEN <<>> ELSE own[t]]
    /\ tail' = [t \in Txs |-> IF t \in S THEN NoTail ELSE tail[t]]
    /\ rlock' = [h \in Hosts |-> IF rlock[h] \in S THEN Nobody ELSE rlock[h]]
    /\ lock' = IF lock \in S THEN Nobody ELSE lock

\* A flushed business change takes SQLite's write lock before any event does.
Save(t) ==
    /\ dialect = "sqlite" /\ lock # t
    /\ pc[t] = "open" /\ ThreadFree(t)
    /\ pc' = [pc EXCEPT ![t] = "saving"]
    /\ UNCHANGED <<dialect, chain, own, tail, rlock, lock, crashes>>

Saved(t) ==
    /\ pc[t] = "saving" /\ Free(lock, t)
    /\ lock' = t
    /\ pc' = [pc EXCEPT ![t] = "open"]
    /\ UNCHANGED <<dialect, chain, own, tail, rlock, crashes>>

Enter(t) ==
    /\ pc[t] = "open" /\ ThreadFree(t)
    /\ Len(own[t]) < Appends[t]
    /\ pc' = [pc EXCEPT ![t] = "entering"]
    /\ UNCHANGED <<dialect, chain, own, tail, rlock, lock, crashes>>

AcquireNothing(t) ==
    /\ pc[t] = "entering" /\ rlock[HostOf[t]] = Nobody
    /\ pc' = [pc EXCEPT ![t] = "entered"]
    /\ UNCHANGED <<dialect, chain, own, tail, rlock, lock, crashes>>

Acquire(t) ==
    /\ pc[t] = "entering" /\ rlock[HostOf[t]] = Nobody
    /\ rlock' = [rlock EXCEPT ![HostOf[t]] = t]
    /\ pc' = [pc EXCEPT ![t] = "entered"]
    /\ UNCHANGED <<dialect, chain, own, tail, lock, crashes>>

SerialiseNothing(t) ==
    /\ pc[t] = "entered"
    /\ pc' = [pc EXCEPT ![t] = "serialised"]
    /\ UNCHANGED <<dialect, chain, own, tail, rlock, lock, crashes>>

\* On SQLite the connection is already in a transaction by SQLAlchemy's account,
\* so no BEGIN IMMEDIATE is sent and nothing is locked.
Serialise(t) ==
    /\ pc[t] = "entered"
    /\ IF dialect = "postgresql" THEN Free(lock, t) /\ lock' = t ELSE UNCHANGED lock
    /\ pc' = [pc EXCEPT ![t] = "serialised"]
    /\ UNCHANGED <<dialect, chain, own, tail, rlock, crashes>>

ReadTail(t) ==
    /\ pc[t] = "serialised"
    /\ tail' = [tail EXCEPT ![t] = TailOf(View(t))]
    /\ pc' = [pc EXCEPT ![t] = "read"]
    /\ UNCHANGED <<dialect, chain, own, rlock, lock, crashes>>

NextRow(t) == LET body == <<t, Len(own[t]) + 1>>
              IN [seq |-> tail[t].seq + 1, prev |-> tail[t].hash, hash |-> body, body |-> body]

TriggerAbsent(row, latest) == row.seq > 0

\* The BEFORE INSERT triggers of db/models/audit.py, which see what the
\* statement sees.
TriggerAccepts(row, latest) == row.prev = latest.hash /\ row.seq > latest.seq

\* SQLite's INSERT waits for the write lock, with a look at the table after it.
MayWrite(t) == pc[t] = "read" /\ (dialect = "sqlite" => Free(lock, t))

InsertCommitting(t) ==
    /\ MayWrite(t) /\ TriggerAccepts(NextRow(t), TailOf(View(t)))
    /\ chain' = Append(chain, NextRow(t))
    /\ rlock' = [rlock EXCEPT ![HostOf[t]] = Nobody]
    /\ pc' = [pc EXCEPT ![t] = "open"]
    /\ tail' = [tail EXCEPT ![t] = NoTail]
    /\ UNCHANGED <<dialect, own, lock, crashes>>

Insert(t) ==
    /\ MayWrite(t) /\ TriggerAccepts(NextRow(t), TailOf(View(t)))
    /\ own' = [own EXCEPT ![t] = Append(@, NextRow(t))]
    /\ lock' = IF dialect = "sqlite" THEN t ELSE lock
    /\ rlock' = [rlock EXCEPT ![HostOf[t]] = Nobody]
    /\ pc' = [pc EXCEPT ![t] = "open"]
    /\ tail' = [tail EXCEPT ![t] = NoTail]
    /\ UNCHANGED <<dialect, chain, crashes>>

\* A flush that fails rolls the session's whole transaction back.
Refuse(t) ==
    /\ MayWrite(t) /\ ~TriggerAccepts(NextRow(t), TailOf(View(t)))
    /\ Leave({t}, "refused")
    /\ UNCHANGED <<dialect, chain, crashes>>

NeverTimesOut(t) == FALSE /\ UNCHANGED chainVars

\* busy_timeout: "database is locked", out of the flush.
TimeOut(t) ==
    /\ dialect = "sqlite" /\ pc[t] \in {"saving", "read"} /\ ~Free(lock, t)
    /\ Leave({t}, "failed")
    /\ UNCHANGED <<dialect, chain, crashes>>

Commit(t) ==
    /\ pc[t] = "open" /\ ThreadFree(t)
    /\ chain' = chain \o own[t]
    /\ Leave({t}, "committed")
    /\ UNCHANGED <<dialect, crashes>>

\* The handler raised: the middleware, or the unit of work, rolls back.
Rollback(t) ==
    /\ pc[t] = "open" /\ ThreadFree(t)
    /\ Leave({t}, "failed")
    /\ UNCHANGED <<dialect, chain, crashes>>

\* A process dies; the database rolls its connections back.
Crash(h) ==
    /\ crashes < MaxCrashes /\ crashes' = crashes + 1
    /\ Leave({t \in Txs : HostOf[t] = h /\ pc[t] \notin Over}, "failed")
    /\ UNCHANGED <<dialect, chain>>

TxStep(t) ==
    \/ Save(t) \/ Saved(t) \/ Enter(t) \/ Acquire(t) \/ Serialise(t) \/ ReadTail(t)
    \/ Insert(t) \/ Refuse(t) \/ TimeOut(t) \/ Commit(t) \/ Rollback(t)

ChainNext == (\E t \in Txs : TxStep(t)) \/ (\E h \in Hosts : Crash(h))

ChainSpec == ChainInit /\ [][ChainNext]_chainVars
-----------------------------------------------------------------------------
\* What is where: the RLock of a process is held by the transaction in append.
ChainTypeOK ==
    /\ dialect \in Dialects
    /\ chain \in Seq(Row)
    /\ own \in [Txs -> Seq(Row)]
    /\ pc \in [Txs -> {"open"} \union InCall \union Over]
    /\ tail \in [Txs -> TailSeen]
    /\ rlock \in [Hosts -> Txs \union {Nobody}]
    /\ lock \in Txs \union {Nobody}
    /\ crashes \in Nat
    /\ \A t \in Txs : pc[t] \in {"entered", "serialised", "read"} => rlock[HostOf[t]] = t

Linked(rows) ==
    \A i \in DOMAIN rows :
      /\ rows[i].seq = i
      /\ rows[i].prev = IF i = 1 THEN NoHash ELSE rows[i - 1].hash

\* append and the triggers, on either database and however transactions
\* interleave, fail, roll back or die: the committed rows are numbered without a
\* gap and each links to the one before it, so the chain has no forks.
ChainLinked == Linked(chain)

\* _serialise_writer on PostgreSQL: no append is ever refused by the trigger for
\* having read a tail that another transaction has since outgrown.
NeverRefused == dialect = "postgresql" => \A t \in Txs : pc[t] # "refused"

Log == INSTANCE AppendLog WITH log <- [i \in DOMAIN chain |-> chain[i].body]

\* The chain implements an append-only log of whole transactions: "the business
\* change and its audit event commit together", each once and in order.
ImplementsLog == Log!Spec

\* Waits that nothing but another transaction can end.
Waiting(t) ==
    \/ pc[t] = "entering" /\ rlock[HostOf[t]] # Nobody
    \/ pc[t] = "entered" /\ dialect = "postgresql" /\ ~Free(lock, t)
    \/ pc[t] \in {"saving", "read"} /\ dialect = "sqlite" /\ ~Free(lock, t)
    \/ pc[t] = "open" /\ ~ThreadFree(t)

\* test_audit_store.py's concurrent writers all end: while there is a transaction,
\* one of them can go on.
NoStandstill == (\E t \in Txs : pc[t] \notin Over) =>
                   \E t \in Txs : pc[t] \notin Over /\ ~Waiting(t)

\* On SQLite a wait for the write lock is bounded (busy_timeout), which undoes
\* every standstill of the RLock and the event loop: all transactions end.
WritersEnd == dialect = "sqlite" ~> \A t \in Txs : pc[t] \in Over
=============================================================================
