----------------------------- MODULE AuditTrail -----------------------------
(***************************************************************************)
(* The audit log of one tenant as a hash chain (storage/audit.go):         *)
(*   - rows appended by concurrent transactions, under one advisory lock,  *)
(*     each numbered and linked to the head it finds, but stamped with the *)
(*     time its transaction began (storage/tx.go opens it with the         *)
(*     request);                                                           *)
(*   - the retention of cmd/server/main.go and storage.CleanupOldData,     *)
(*     which writes rows to a file and then deletes rows, by their time;   *)
(*   - the anchors, which the retention leaves alone, and the check of     *)
(*     rows and anchors that is to tell manipulation from retention.       *)
(* Nobody manipulates the log here.  A row's hash is the row's number in   *)
(* the history of all insertions: no two rows share one.                   *)
(***************************************************************************)
EXTENDS Integers, FiniteSets

CONSTANTS
  Tx,                  \* transactions that may be open at a time
  Days,                \* AUDIT_RETENTION_DAYS, in ticks
  MaxRows,             \* bound: rows ever inserted
  MaxTime,             \* bound: ticks
  MaxFaults,           \* bound: failed commits and files, restarts
  None                 \* no transaction, no row

VARIABLES
  tx,                  \* open transactions: when they began, the row they hold
  log,                 \* rows of audit_log
  anchors,             \* rows of audit_anchors: <<seq, hash>>
  sweep,               \* "idle" or "archived", between the file and the DELETE
  archive,             \* hashes of the rows in archive files
  now, faults,
  \* history
  inserted,            \* rows ever inserted
  committed,           \* rows ever committed
  cutoff,              \* the cutoff of the sweep's file
  aged,                \* hashes of rows that came of age between the file and the DELETE
  emptied              \* the DELETE took the last row once

\* A row is kept for a day at least.
ASSUME AuditAssumption ==
  Days \in Nat \ {0} /\ MaxRows \in Nat /\ MaxTime \in Nat /\ MaxFaults \in Nat

vars == <<tx, log, anchors, sweep, archive, now, faults, inserted, committed, cutoff, aged, emptied>>

Row == [seq : 1..MaxRows, hash : 1..MaxRows, prev : 0..MaxRows, created : 0..MaxTime]
OpenTx == [began : 0..MaxTime, row : Row \cup {None}]

TypeOK ==
  /\ tx \in [Tx -> OpenTx \cup {None}] /\ log \subseteq Row /\ anchors \subseteq (1..MaxRows) \X (1..MaxRows)
  /\ sweep \in {"idle", "archived"} /\ archive \subseteq 1..MaxRows
  /\ now \in 0..MaxTime /\ faults \in 0..MaxFaults
  /\ inserted \in 0..MaxRows /\ committed \subseteq Row /\ cutoff \in -Days..MaxTime
  /\ aged \subseteq 1..MaxRows /\ emptied \in BOOLEAN

Init ==
  /\ tx = [t \in Tx |-> None] /\ log = {} /\ anchors = {} /\ sweep = "idle" /\ archive = {}
  /\ now = 0 /\ faults = 0 /\ inserted = 0 /\ committed = {} /\ cutoff = -Days /\ aged = {}
  /\ emptied = FALSE

Fault == faults < MaxFaults /\ faults' = faults + 1

ChainHead(rows) == {r \in rows : \A q \in rows : q.seq <= r.seq}
\* Mutant of Locked: writers do not wait for each other.
NeverLocked == FALSE

Locked     == \E t \in Tx : tx[t] # None /\ tx[t].row # None

-----------------------------------------------------------------------------
(* Writing.                                                                *)

\* A request's transaction, or the log's own.
BindTenant(t) ==
  /\ tx[t] = None /\ tx' = [tx EXCEPT ![t] = [began |-> now, row |-> None]]
  /\ UNCHANGED <<log, anchors, sweep, archive, now, faults, inserted, committed, cutoff, aged, emptied>>

\* The lock is held to the end of the transaction.  The head is looked up
\* under it, and an empty log begins at 1 with no predecessor.  created_at is
\* now(), the beginning of the transaction.
WriteAuditLog(t) ==
  /\ tx[t] # None /\ tx[t].row = None /\ ~Locked /\ inserted < MaxRows
  /\ inserted' = inserted + 1
  /\ LET seqs == {r.seq : r \in ChainHead(log)}
         prev == {r.hash : r \in ChainHead(log)}
     IN  tx' = [tx EXCEPT ![t].row =
                  [seq |-> IF log = {} THEN 1 ELSE (CHOOSE s \in seqs : TRUE) + 1,
                   hash |-> inserted + 1,
                   prev |-> IF log = {} THEN 0 ELSE CHOOSE h \in prev : TRUE,
                   created |-> tx[t].began]]
  /\ UNCHANGED <<log, anchors, sweep, archive, now, faults, committed, cutoff, aged, emptied>>

\* The end of a transaction, by COMMIT or by a failure of anything in it,
\* which the rows of the request go back with.
Finish(t) ==
  /\ tx[t] # None /\ tx' = [tx EXCEPT ![t] = None]
  /\ \/ /\ log' = (IF tx[t].row = None THEN log ELSE log \cup {tx[t].row})
        /\ committed' = committed \cup (log' \ log) /\ UNCHANGED faults
     \/ Fault /\ UNCHANGED <<log, committed>>
  /\ UNCHANGED <<anchors, sweep, archive, now, inserted, cutoff, aged, emptied>>

\* ON CONFLICT DO NOTHING: a number that has an anchor keeps it.
WriteAuditAnchor ==
  /\ \E r \in ChainHead(log) :
       /\ ~\E a \in anchors : a[1] = r.seq
       /\ anchors' = anchors \cup {<<r.seq, r.hash>>}
  /\ UNCHANGED <<tx, log, sweep, archive, now, faults, inserted, committed, cutoff, aged, emptied>>

-----------------------------------------------------------------------------
(* Retention: two statements, each with a cutoff of its own.               *)

Older(time) == {r \in log : r.created < time}

\* Mutant of ArchiveAuditLogs: the file ends a day before the DELETE.
ArchiveAuditLogsLess ==
  /\ sweep = "idle" /\ sweep' = "archived"
  /\ cutoff' = now - Days /\ archive' = archive \cup {r.hash : r \in Older(now - Days - 1)}
  /\ UNCHANGED <<tx, log, anchors, now, faults, inserted, committed, aged, emptied>>

\* The file is under its name only when it is whole.
ArchiveAuditLogs ==
  /\ sweep = "idle" /\ sweep' = "archived"
  /\ cutoff' = now - Days /\ archive' = archive \cup {r.hash : r \in Older(now - Days)}
  /\ UNCHANGED <<tx, log, anchors, now, faults, inserted, committed, aged, emptied>>

\* DELETE and COMMIT; a COMMIT that fails leaves the rows, and the file too.
Purge ==
  /\ sweep = "archived" /\ sweep' = "idle"
  /\ \/ /\ log' = log \ Older(now - Days) /\ UNCHANGED faults
        /\ aged' = aged \cup {r.hash : r \in {q \in log \ log' : q.created >= cutoff}}
        /\ emptied' = (emptied \/ (log # {} /\ log' = {}))
     \/ Fault /\ UNCHANGED <<log, aged, emptied>>
  /\ UNCHANGED <<tx, anchors, archive, now, inserted, committed, cutoff>>

\* The server dies: what is not committed is gone.
Restart ==
  /\ Fault /\ tx' = [t \in Tx |-> None] /\ sweep' = "idle"
  /\ UNCHANGED <<log, anchors, archive, now, inserted, committed, cutoff, aged, emptied>>

\* A tick is a day: a transaction sees midnight once at most.
Tick ==
  /\ now < MaxTime /\ now' = now + 1
  /\ \A t \in Tx : tx[t] # None => tx[t].began = now
  /\ UNCHANGED <<tx, log, anchors, sweep, archive, faults, inserted, committed, cutoff, aged, emptied>>

Next ==
  \/ \E t \in Tx : BindTenant(t) \/ WriteAuditLog(t) \/ Finish(t)
  \/ WriteAuditAnchor \/ ArchiveAuditLogs \/ Purge \/ Restart \/ Tick

Spec == Init /\ [][Next]_vars

-----------------------------------------------------------------------------
(* The check of the chain.                                                 *)

\* Hashes cannot differ from their rows here.  A gap, or a link to another
\* row than the one before, is a row taken out of the middle; the first row
\* left may link to anything.
Gap(r, q)  == r.seq < q.seq /\ (\A s \in log : s.seq <= r.seq \/ q.seq <= s.seq) /\ q.seq # r.seq + 1
Link(r, q) == q.seq = r.seq + 1 /\ q.prev # r.hash
VerifyAuditChain ==
  /\ ~\E r, q \in log : Gap(r, q) \/ Link(r, q) \/ (r # q /\ r.seq = q.seq)
  /\ \A a \in anchors : \A r \in log : r.seq = a[1] => r.hash = a[2]

\* Retention is not what it is taken for (audit.go: it takes a prefix off) when
\* a row stands behind one of a later time.
Disordered == \E r, q \in committed : r.hash < q.hash /\ q.created < r.created

\* A log nobody has touched is found intact: over concurrent writers, failed
\* transactions, restarts and retention, unless rows are out of the order of
\* their times, or the log was empty once and counts from 1 again.
ChainIntact == VerifyAuditChain \/ Disordered \/ emptied

\* Retention deletes nothing that is not in a file: what was committed is in
\* the log or in the archive, over failures between the two.  Left out are the
\* rows that come of age between the file's cutoff and the DELETE's.
NothingLost ==
  \A r \in committed : r \in log \/ r.hash \in archive \cup aged

=============================================================================
