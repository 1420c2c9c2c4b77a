---------------------------- MODULE ConsoleProofs -----------------------------
(***************************************************************************)
(* Proofs about what the console shows and does: the audit log it writes,  *)
(* the evidence of admin sessions it tells, and the file that is applied   *)
(* to it.  The first is about AuditTrail alone, for any transactions, rows *)
(* and times; the others are about their part of Parts.                    *)
(*   AuditTrail:                                                           *)
(*   - AuditKept: no open transaction is older than the day before, so     *)
(*     that no row it brings is one the file of a sweep should have held;  *)
(*   - AuditNumbered: one transaction at a time holds a new row, and its   *)
(*     hash is above all those committed;                                  *)
(*   - AuditChained: as long as rows are in the order of their times and   *)
(*     the log has not been empty, the log is the last part of what was    *)
(*     committed, each row but its first linked to the one before, and the *)
(*     row about to be committed continues it.                             *)
(***************************************************************************)
EXTENDS Parts, FiniteSetTheorems, SequenceTheorems, TLAPS

AuditHolds(t) == tx[t] # None /\ tx[t].row # None

AuditShape ==
  /\ tx = [t \in Tx |-> tx[t]]
  /\ \A t \in Tx : tx[t] # None => tx[t] = [began |-> tx[t].began, row |-> tx[t].row] /\ tx[t].began \in Int
  /\ \A t \in Tx : AuditHolds(t) => tx[t].row.created = tx[t].began
  /\ now \in Int /\ cutoff \in Int /\ inserted \in Int /\ sweep \in {"idle", "archived"}
  /\ log \subseteq committed /\ \A r \in committed : r.created \in Int /\ r.hash \in Int

AuditKept ==
  /\ \A t \in Tx : tx[t] # None => now - 1 <= tx[t].began
  /\ cutoff <= now - Days
  /\ sweep = "archived" => \A r \in log : r.created < cutoff => r.hash \in archive
  /\ NothingLost

AuditNumbered ==
  /\ \A t, u \in Tx : AuditHolds(t) /\ AuditHolds(u) => t = u
  /\ \A t \in Tx : AuditHolds(t) => tx[t].row.hash = inserted /\ \A r \in committed : r.hash < inserted
  /\ \A r \in committed : r.hash <= inserted
  /\ \A r, q \in committed : r.hash = q.hash => r = q

AuditIsHead(h) == h \in log /\ \A q \in committed : q.seq <= h.seq

AuditChained ==
  /\ \A r \in committed : r.seq \in Int
  /\ \A r, q \in committed : r.hash < q.hash => r.seq < q.seq
  /\ \A r \in committed \ log, q \in log : r.seq < q.seq
  /\ committed # {} => \E h \in log : AuditIsHead(h)
  /\ \A r, q \in log : r.seq < q.seq => \E p \in log : p.seq = q.seq - 1 /\ q.prev = p.hash
  /\ \A a \in anchors : \E r \in committed : r.seq = a[1] /\ r.hash = a[2]
  /\ \A t \in Tx : AuditHolds(t) =>
       /\ tx[t].row.seq \in Int
       /\ committed # {} => \E h \in log : AuditIsHead(h) /\ tx[t].row.seq = h.seq + 1 /\ tx[t].row.prev = h.hash

AuditOrderly == ~Disordered /\ ~emptied

AuditInv == AuditShape /\ AuditKept /\ AuditNumbered /\ (AuditOrderly => AuditChained)

-----------------------------------------------------------------------------
(* An empty log is in order.                                               *)
LEMMA AuditInitInv == ASSUME Init PROVE AuditInv
<1> USE AuditAssumption DEF Init, AuditHolds
<1>1. AuditShape /\ AuditKept /\ AuditNumbered
  BY DEF AuditShape, AuditKept, AuditNumbered, NothingLost
<1>2. AuditChained
  BY DEF AuditChained
<1> QED
  BY <1>1, <1>2 DEF AuditInv

(* A transaction begins, and what leaves transactions and rows alone.      *)
LEMMA AuditBegins == ASSUME AuditInv, NEW t \in Tx, BindTenant(t) PROVE AuditInv'
<1> USE AuditAssumption
<1>1. /\ tx[t] = None /\ tx' = [tx EXCEPT ![t] = [began |-> now, row |-> None]]
      /\ UNCHANGED <<log, anchors, sweep, archive, now, faults, inserted, committed, cutoff, aged, emptied>>
  BY DEF BindTenant
<1>2. /\ \A u \in Tx \ {t} : tx'[u] = tx[u]
      /\ tx'[t] = [began |-> now, row |-> None]
  BY <1>1 DEF AuditInv, AuditShape
<1>3. \A u \in Tx : AuditHolds(u)' => AuditHolds(u) /\ u # t
  BY <1>2 DEF AuditHolds
<1>4. AuditShape'
  BY <1>1, <1>2, <1>3 DEF AuditInv, AuditShape, AuditHolds
<1>5. AuditKept'
  BY <1>1, <1>2 DEF AuditInv, AuditShape, AuditKept, NothingLost
<1>6. AuditNumbered'
  BY <1>1, <1>2, <1>3 DEF AuditInv, AuditNumbered, AuditHolds
<1>7. AuditOrderly' => AuditOrderly /\ AuditChained'
  BY <1>1, <1>2, <1>3 DEF AuditInv, AuditOrderly, Disordered, AuditChained,
     AuditIsHead, AuditHolds
<1> QED
  BY <1>4, <1>5, <1>6, <1>7 DEF AuditInv

(* Steps that leave the rows alone keep them in order.                     *)
LEMMA AuditStays ==
  ASSUME AuditInv, UNCHANGED <<log, committed, inserted, emptied>>,
         \A t \in Tx : AuditHolds(t)' => AuditHolds(t) /\ tx'[t].row = tx[t].row,
         \A a \in anchors' : a \in anchors \/ \E r \in log : a = <<r.seq, r.hash>>
  PROVE  AuditNumbered' /\ (AuditOrderly' => AuditChained')
<1>1. AuditNumbered'
  BY DEF AuditInv, AuditNumbered
<1>2. AuditOrderly' => AuditChained'
  <2> SUFFICES ASSUME AuditChained PROVE AuditChained'
    BY DEF AuditInv, AuditOrderly, Disordered
  <2>1. \A a \in anchors' : \E r \in committed : r.seq = a[1] /\ r.hash = a[2]
    BY DEF AuditChained, AuditInv, AuditShape
  <2> QED
    BY <2>1 DEF AuditChained, AuditIsHead
<1> QED
  BY <1>1, <1>2

(* The one element of a set is the one chosen.                             *)
LEMMA AuditSingle == \A S, n : S = {n} => (CHOOSE m \in S : TRUE) = n
<1>1. \A S, n : n \in S => (CHOOSE m \in S : TRUE) \in S
  OBVIOUS
<1> QED
  BY <1>1

(* The row under the lock continues what is there.                         *)
LEMMA AuditWrites == ASSUME AuditInv, NEW t \in Tx, WriteAuditLog(t) PROVE AuditInv'
<1> DEFINE s == IF log = {} THEN 1 ELSE (CHOOSE n \in {r.seq : r \in ChainHead(log)} : TRUE) + 1
           p == IF log = {} THEN 0 ELSE CHOOSE h \in {r.hash : r \in ChainHead(log)} : TRUE
           x == [seq |-> s, hash |-> inserted + 1, prev |-> p, created |-> tx[t].began]
<1>1. /\ tx[t] # None /\ ~Locked /\ inserted' = inserted + 1
      /\ UNCHANGED <<log, anchors, sweep, archive, now, faults, committed, cutoff, aged, emptied>>
      /\ tx' = [tx EXCEPT ![t].row = x]
  BY DEF WriteAuditLog
<1>2. x.seq = s /\ x.hash = inserted + 1 /\ x.prev = p /\ x.created = tx[t].began
  OBVIOUS
<1>3. AuditChained => s \in Int /\ (committed # {} => \E h \in log : AuditIsHead(h) /\ s = h.seq + 1 /\ p = h.hash)
  <2> SUFFICES ASSUME AuditChained PROVE s \in Int /\ (committed # {} => \E h \in log : AuditIsHead(h) /\ s = h.seq + 1 /\ p = h.hash)
    OBVIOUS
  <2>1. CASE committed = {}
    BY <2>1 DEF AuditInv, AuditShape
  <2>2. CASE committed # {}
    <3>1. PICK h \in log : AuditIsHead(h)
      BY <2>2 DEF AuditChained
    <3>2. h \in ChainHead(log) /\ h \in committed /\ h.seq \in Int
      BY <3>1 DEF AuditInv, AuditShape, AuditIsHead, ChainHead, AuditChained
    <3>3. \A r \in ChainHead(log) : r.seq = h.seq /\ r.hash = h.hash
      <4> SUFFICES ASSUME NEW r \in ChainHead(log) PROVE r.seq = h.seq /\ r.hash = h.hash
        OBVIOUS
      <4>1. r \in committed /\ r.seq = h.seq
        BY <3>1, <3>2 DEF ChainHead, AuditIsHead, AuditInv, AuditShape,
           AuditChained
      <4>2. ~(r.hash < h.hash) /\ ~(h.hash < r.hash)
        BY <3>2, <4>1 DEF AuditChained
      <4> QED
        BY <3>2, <4>1, <4>2 DEF AuditInv, AuditShape
    <3>4. {r.seq : r \in ChainHead(log)} = {h.seq} /\ {r.hash : r \in ChainHead(log)} = {h.hash}
      BY <3>2, <3>3
    <3>5. log # {}
      BY <3>1 DEF AuditIsHead
    <3>6. /\ (CHOOSE n \in {r.seq : r \in ChainHead(log)} : TRUE) = h.seq
          /\ (CHOOSE n \in {r.hash : r \in ChainHead(log)} : TRUE) = h.hash
      BY <3>4, AuditSingle, Zenon
    <3>7. s = h.seq + 1 /\ p = h.hash
      BY <3>5, <3>6, Zenon
    <3> HIDE DEF s, p
    <3> QED
      BY <3>1, <3>2, <3>7
  <2> QED
    BY <2>1, <2>2
<1> HIDE DEF s, p, x
<1>4. tx'[t] = [began |-> tx[t].began, row |-> x] /\ \A u \in Tx \ {t} : tx'[u] = tx[u]
  BY <1>1 DEF AuditInv, AuditShape
<1>5. tx'[t].began = tx[t].began /\ tx'[t].row = x
  BY <1>4
<1>6. \A u \in Tx : AuditHolds(u)' => u = t
  BY <1>1, <1>4 DEF Locked, AuditHolds
<1>7. tx' = [u \in Tx |-> tx'[u]]
  BY <1>1 DEF AuditInv, AuditShape
<1>8. AuditShape'
  BY <1>1, <1>2, <1>4, <1>5, <1>6, <1>7 DEF AuditInv, AuditShape
<1>9. AuditKept'
  BY <1>1, <1>4, <1>5 DEF AuditInv, AuditKept, NothingLost
<1>10. AuditNumbered'
  BY <1>1, <1>2, <1>5, <1>6 DEF AuditInv, AuditShape, AuditNumbered
<1>11. AuditOrderly' => AuditChained'
  <2> SUFFICES ASSUME AuditChained PROVE AuditChained'
    BY <1>1 DEF AuditInv, AuditOrderly, Disordered
  <2>1. \A h : AuditIsHead(h)' <=> AuditIsHead(h)
    BY <1>1 DEF AuditIsHead
  <2>2. \A u \in Tx : AuditHolds(u)' =>
          /\ tx'[u].row.seq \in Int
          /\ committed # {} => \E h \in log : AuditIsHead(h) /\ tx'[u].row.seq = h.seq + 1 /\ tx'[u].row.prev = h.hash
    BY <1>2, <1>3, <1>5, <1>6
  <2> QED
    BY <1>1, <2>1, <2>2 DEF AuditChained
<1> QED
  BY <1>8, <1>9, <1>10, <1>11 DEF AuditInv

(* A row that is committed continues the log; one that is not goes.        *)
LEMMA AuditEnds == ASSUME AuditInv, NEW t \in Tx, Finish(t) PROVE AuditInv'
<1> USE AuditAssumption
<1>1. /\ tx[t] # None /\ tx' = [tx EXCEPT ![t] = None]
      /\ UNCHANGED <<anchors, sweep, archive, now, inserted, cutoff, aged, emptied>>
  BY DEF Finish
<1>2. tx'[t] = None /\ \A u \in Tx \ {t} : tx'[u] = tx[u]
  BY <1>1 DEF AuditInv, AuditShape
<1>3. \A u \in Tx : AuditHolds(u)' => AuditHolds(u) /\ tx'[u].row = tx[u].row /\ u # t
  BY <1>2 DEF AuditHolds
<1>4. CASE log' = log /\ committed' = committed
  <2>1. AuditShape' /\ AuditKept'
    BY <1>1, <1>2, <1>3, <1>4 DEF AuditInv, AuditShape, AuditKept, NothingLost,
       AuditHolds
  <2>2. AuditNumbered' /\ (AuditOrderly' => AuditChained')
    BY <1>1, <1>3, <1>4, AuditStays
  <2> QED
    BY <2>1, <2>2 DEF AuditInv
<1>5. CASE AuditHolds(t) /\ log' = log \cup {tx[t].row} /\ committed' = committed \cup (log' \ log)
  <2> DEFINE x == tx[t].row
  <2>1. /\ x.created = tx[t].began /\ x.created \in Int /\ x.hash = inserted /\ x.hash \in Int
        /\ \A r \in committed : r.hash < x.hash
    BY <1>1, <1>5 DEF AuditInv, AuditShape, AuditNumbered
  <2>2. \A u \in Tx : ~AuditHolds(u)'
    BY <1>3, <1>5 DEF AuditInv, AuditNumbered
  <2> HIDE DEF x
  <2>3. log' = log \cup {x} /\ committed' = committed \cup {x} /\ log \subseteq committed /\ x \notin committed
    BY <1>5, <2>1 DEF x, AuditInv, AuditShape
  <2>4. AuditShape'
    BY <1>1, <1>2, <2>1, <2>2, <2>3 DEF AuditInv, AuditShape
  <2>5. AuditKept'
    BY <1>1, <1>2, <2>1, <2>3 DEF AuditInv, AuditKept, NothingLost, AuditShape
  <2>6. AuditNumbered'
    BY <1>1, <2>1, <2>2, <2>3 DEF AuditInv, AuditNumbered
  <2>7. AuditOrderly' => AuditChained'
    <3> SUFFICES ASSUME AuditOrderly' PROVE AuditChained'
      OBVIOUS
    <3>1. AuditChained
      BY <1>1, <2>3 DEF AuditInv, AuditOrderly, Disordered
    <3>2. CASE committed = {}
      <4>1. x.seq \in Int
        BY <1>5, <3>1 DEF AuditChained, x
      <4>2. log' = {x} /\ committed' = {x} /\ anchors' = {}
        BY <1>1, <2>3, <3>1, <3>2 DEF AuditChained
      <4> QED
        BY <2>1, <2>2, <4>1, <4>2 DEF AuditChained, AuditIsHead
    <3>3. CASE committed # {}
      <4>1. PICK h \in log : AuditIsHead(h) /\ x.seq = h.seq + 1 /\ x.prev = h.hash
        BY <1>5, <3>1, <3>3 DEF AuditChained, x
      <4>2. h \in committed /\ h.seq \in Int /\ \A r \in committed : r.seq \in Int /\ r.seq < x.seq
        BY <2>3, <3>1, <4>1 DEF AuditChained, AuditIsHead
      <4>3. x \in log' /\ x.seq \in Int /\ \A q \in committed' : q.seq <= x.seq
        BY <2>3, <4>1, <4>2
      <4>4. \A r, q \in committed' : r.hash < q.hash => r.seq < q.seq
        <5> SUFFICES ASSUME NEW r \in committed', NEW q \in committed', r.hash < q.hash PROVE r.seq < q.seq
          OBVIOUS
        <5>1. CASE r = x
          BY <2>1, <2>3, <5>1 DEF AuditInv, AuditShape
        <5>2. CASE r # x
          BY <2>3, <3>1, <4>2, <5>2 DEF AuditChained
        <5> QED
          BY <5>1, <5>2
      <4>5. \A r \in committed' \ log', q \in log' : r.seq < q.seq
        BY <2>3, <3>1, <4>2 DEF AuditChained
      <4>6. \A r, q \in log' : r.seq < q.seq => \E b \in log' : b.seq = q.seq - 1 /\ q.prev = b.hash
        <5> SUFFICES ASSUME NEW r \in log', NEW q \in log', r.seq < q.seq
                     PROVE  \E b \in log' : b.seq = q.seq - 1 /\ q.prev = b.hash
          OBVIOUS
        <5>1. CASE q = x
          BY <2>3, <4>1, <4>2, <5>1
        <5>2. CASE q # x
          <6>1. q \in log /\ q.seq < x.seq /\ q.seq \in Int
            BY <2>3, <4>2, <5>2
          <6>2. r # x
            BY <4>1, <4>2, <6>1
          <6> QED
            BY <2>3, <3>1, <6>1, <6>2 DEF AuditChained
        <5> QED
          BY <5>1, <5>2
      <4>7. \A a \in anchors' : \E r \in committed' : r.seq = a[1] /\ r.hash = a[2]
        BY <1>1, <2>3, <3>1 DEF AuditChained
      <4>8. (\A r \in committed' : r.seq \in Int) /\ \E b \in log' : AuditIsHead(b)'
        BY <2>3, <4>2, <4>3 DEF AuditIsHead
      <4> QED
        BY <2>2, <4>4, <4>5, <4>6, <4>7, <4>8 DEF AuditChained
    <3> QED
      BY <3>2, <3>3
  <2> QED
    BY <2>4, <2>5, <2>6, <2>7 DEF AuditInv
<1> QED
  BY <1>1, <1>4, <1>5 DEF Finish, AuditHolds

(* What the retention takes off is the first part of the log.              *)
LEMMA AuditPurges == ASSUME AuditInv, Purge PROVE AuditInv'
<1> USE AuditAssumption
<1>1. /\ sweep = "archived" /\ sweep' = "idle"
      /\ UNCHANGED <<tx, anchors, archive, now, inserted, committed, cutoff>>
  BY DEF Purge
<1>2. \A u \in Tx : AuditHolds(u)' => AuditHolds(u) /\ tx'[u].row = tx[u].row
  BY <1>1 DEF AuditHolds
<1>3. CASE UNCHANGED <<log, aged, emptied>>
  <2>1. AuditShape' /\ AuditKept'
    BY <1>1, <1>2, <1>3 DEF AuditInv, AuditShape, AuditKept, NothingLost
  <2>2. AuditNumbered' /\ (AuditOrderly' => AuditChained')
    BY <1>1, <1>2, <1>3, AuditStays
  <2> QED
    BY <2>1, <2>2 DEF AuditInv
<1>4. CASE /\ log' = log \ Older(now - Days)
           /\ aged' = aged \cup {r.hash : r \in {q \in log \ log' : q.created >= cutoff}}
           /\ emptied' = (emptied \/ (log # {} /\ log' = {}))
  <2>1. AuditShape'
    BY <1>1, <1>2, <1>4 DEF AuditInv, AuditShape, AuditHolds
  <2>2. AuditKept'
    <3>1. NothingLost'
      <4> SUFFICES ASSUME NEW r \in committed, r \notin log' PROVE r.hash \in archive' \cup aged'
        BY <1>1 DEF NothingLost
      <4>1. CASE r \notin log
        BY <1>1, <1>4, <4>1 DEF AuditInv, AuditKept, NothingLost
      <4>2. CASE r \in log /\ r.created < cutoff
        BY <1>1, <4>2 DEF AuditInv, AuditKept
      <4>3. CASE r \in log /\ r.created >= cutoff
        BY <1>4, <4>3
      <4> QED
        BY <4>1, <4>2, <4>3 DEF AuditInv, AuditShape
    <3> QED
      BY <1>1, <3>1 DEF AuditInv, AuditKept
  <2>3. AuditNumbered'
    BY <1>1, <1>2 DEF AuditInv, AuditNumbered
  <2>4. AuditOrderly' => AuditChained'
    <3> SUFFICES ASSUME AuditOrderly' PROVE AuditChained'
      OBVIOUS
    <3>1. AuditChained /\ ~Disordered /\ (log = {} \/ log' # {})
      BY <1>1, <1>4 DEF AuditInv, AuditOrderly, Disordered
    <3>2. log' \subseteq log /\ log \subseteq committed /\ \A r \in committed : r.seq \in Int /\ r.hash \in Int
      BY <1>4, <3>1 DEF AuditInv, AuditShape, AuditChained
    <3>3. \A r \in committed \ log', q \in log' : r.seq < q.seq
      <4> SUFFICES ASSUME NEW r \in committed \ log', NEW q \in log' PROVE r.seq < q.seq
        OBVIOUS
      <4>1. CASE r \notin log
        BY <3>1, <3>2, <4>1 DEF AuditChained
      <4>2. CASE r \in log
        <5>1. r.created < q.created
          BY <1>4, <3>2, <4>2 DEF Older, AuditInv, AuditShape
        <5>2. r.hash < q.hash
          BY <3>1, <3>2, <5>1 DEF Disordered, AuditInv, AuditNumbered
        <5> QED
          BY <3>1, <3>2, <5>2 DEF AuditChained
      <4> QED
        BY <4>1, <4>2
    <3>4. \A h \in log : AuditIsHead(h) => h \in log' /\ AuditIsHead(h)'
      <4> SUFFICES ASSUME NEW h \in log, AuditIsHead(h) PROVE h \in log'
        BY <1>1 DEF AuditIsHead
      <4>1. PICK q \in log' : TRUE
        BY <3>1
      <4> QED
        BY <3>2, <3>3, <4>1 DEF AuditIsHead
    <3>5. committed # {} => \E h \in log' : AuditIsHead(h)'
      BY <3>1, <3>4 DEF AuditChained
    <3>6. \A r, q \in log' : r.seq < q.seq => \E b \in log' : b.seq = q.seq - 1 /\ q.prev = b.hash
      <4> SUFFICES ASSUME NEW r \in log', NEW q \in log', r.seq < q.seq
                   PROVE  \E b \in log' : b.seq = q.seq - 1 /\ q.prev = b.hash
        OBVIOUS
      <4>1. PICK b \in log : b.seq = q.seq - 1 /\ q.prev = b.hash
        BY <3>1, <3>2 DEF AuditChained
      <4>2. b \in log'
        BY <3>2, <3>3, <4>1
      <4> QED
        BY <4>1, <4>2
    <3>7. \A u \in Tx : AuditHolds(u)' =>
            /\ tx'[u].row.seq \in Int
            /\ committed' # {} => \E h \in log' : AuditIsHead(h)' /\ tx'[u].row.seq = h.seq + 1 /\ tx'[u].row.prev = h.hash
      BY <1>1, <1>2, <3>1, <3>4 DEF AuditChained
    <3> QED
      BY <1>1, <3>1, <3>3, <3>5, <3>6, <3>7 DEF AuditChained
  <2> QED
    BY <2>1, <2>2, <2>3, <2>4 DEF AuditInv
<1> QED
  BY <1>3, <1>4 DEF Purge

-----------------------------------------------------------------------------
(* Every step keeps the invariant.                                         *)
LEMMA AuditStepInv == ASSUME AuditInv, [Next]_vars PROVE AuditInv'
<1> USE AuditAssumption
<1>1. ASSUME NEW t \in Tx, BindTenant(t) PROVE AuditInv'
  BY <1>1, AuditBegins
<1>2. ASSUME NEW t \in Tx, WriteAuditLog(t) PROVE AuditInv'
  BY <1>2, AuditWrites
<1>3. ASSUME NEW t \in Tx, Finish(t) PROVE AuditInv'
  BY <1>3, AuditEnds
<1>4. CASE WriteAuditAnchor
  <2>1. AuditShape' /\ AuditKept'
    BY <1>4 DEF WriteAuditAnchor, AuditInv, AuditShape, AuditKept, NothingLost,
       AuditHolds
  <2>2. \A a \in anchors' : a \in anchors \/ \E r \in log : a = <<r.seq, r.hash>>
    BY <1>4 DEF WriteAuditAnchor, ChainHead
  <2>3. AuditNumbered' /\ (AuditOrderly' => AuditChained')
    BY <1>4, <2>2, AuditStays DEF WriteAuditAnchor, AuditHolds
  <2> QED
    BY <2>1, <2>3 DEF AuditInv
<1>5. CASE ArchiveAuditLogs
  <2>1. AuditShape' /\ AuditKept'
    BY <1>5 DEF ArchiveAuditLogs, Older, AuditInv, AuditShape, AuditKept,
       NothingLost, AuditHolds
  <2>2. AuditNumbered' /\ (AuditOrderly' => AuditChained')
    BY <1>5, AuditStays DEF ArchiveAuditLogs, AuditHolds
  <2> QED
    BY <2>1, <2>2 DEF AuditInv
<1>6. CASE Purge
  BY <1>6, AuditPurges
<1>7. CASE Restart
  <2>1. \A t \in Tx : tx'[t] = None /\ ~AuditHolds(t)'
    BY <1>7 DEF Restart, AuditHolds
  <2>2. AuditShape' /\ AuditKept'
    BY <1>7, <2>1 DEF Restart, AuditInv, AuditShape, AuditKept, NothingLost
  <2>3. AuditNumbered' /\ (AuditOrderly' => AuditChained')
    BY <1>7, <2>1, AuditStays DEF Restart
  <2> QED
    BY <2>2, <2>3 DEF AuditInv
<1>8. CASE Tick
  <2>1. AuditShape' /\ AuditKept'
    BY <1>8 DEF Tick, AuditInv, AuditShape, AuditKept, NothingLost, AuditHolds
  <2>2. AuditNumbered' /\ (AuditOrderly' => AuditChained')
    BY <1>8, AuditStays DEF Tick, AuditHolds
  <2> QED
    BY <2>1, <2>2 DEF AuditInv
<1>9. CASE UNCHANGED vars
  <2>1. AuditShape' /\ AuditKept'
    BY <1>9 DEF vars, AuditInv, AuditShape, AuditKept, NothingLost, AuditHolds
  <2>2. AuditNumbered' /\ (AuditOrderly' => AuditChained')
    BY <1>9, AuditStays DEF vars, AuditHolds
  <2> QED
    BY <2>1, <2>2 DEF AuditInv
<1> QED
  BY <1>1, <1>2, <1>3, <1>4, <1>5, <1>6, <1>7, <1>8, <1>9 DEF Next

(* The invariant from which the other two follow is inductive.             *)
THEOREM AuditInvariant == Spec => []AuditInv
<1>1. Init => AuditInv
  BY AuditInitInv
<1>2. AuditInv /\ [Next]_vars => AuditInv'
  BY AuditStepInv
<1> QED
  BY <1>1, <1>2, PTL DEF Spec

(* Every row the database committed is in the log or in an archive file,   *)
(* but for rows that came of age between the file and the DELETE.          *)
THEOREM ArchivedFirst == Spec => []NothingLost
<1>1. AuditInv => NothingLost
  BY DEF AuditInv, AuditKept
<1> QED
  BY <1>1, AuditInvariant, PTL

(* A chain in the order of its times is found intact: the row before a row *)
(* is the one it links to, and an anchor's number has one row for good.    *)
LEMMA AuditIntact == ASSUME AuditInv PROVE ChainIntact
<1> SUFFICES ASSUME AuditOrderly PROVE VerifyAuditChain
  BY DEF ChainIntact, AuditOrderly
<1>1. AuditChained /\ log \subseteq committed /\ \A r \in committed : r.seq \in Int /\ r.hash \in Int
  BY DEF AuditInv, AuditShape, AuditChained
<1>2. \A r, q \in committed : r.seq = q.seq => r = q
  <2> SUFFICES ASSUME NEW r \in committed, NEW q \in committed, r.seq = q.seq PROVE r = q
    OBVIOUS
  <2>1. ~(r.hash < q.hash) /\ ~(q.hash < r.hash)
    BY <1>1 DEF AuditChained
  <2> QED
    BY <1>1, <2>1 DEF AuditInv, AuditNumbered
<1>3. ASSUME NEW r \in log, NEW q \in log PROVE ~Gap(r, q) /\ ~Link(r, q)
  <2> SUFFICES ASSUME r.seq < q.seq PROVE ~Gap(r, q) /\ ~Link(r, q)
    BY <1>1 DEF Gap, Link
  <2>1. PICK b \in log : b.seq = q.seq - 1 /\ q.prev = b.hash
    BY <1>1 DEF AuditChained
  <2>2. ~Gap(r, q)
    BY <1>1, <2>1 DEF Gap
  <2>3. ~Link(r, q)
    BY <1>1, <1>2, <2>1 DEF Link
  <2> QED
    BY <2>2, <2>3
<1>4. \A a \in anchors : \A r \in log : r.seq = a[1] => r.hash = a[2]
  BY <1>1, <1>2 DEF AuditChained
<1> QED
  BY <1>1, <1>2, <1>3, <1>4 DEF VerifyAuditChain

(* VerifyAuditChain finds no fault in a log nobody touched, unless rows     *)
(* are out of the order of their times or the log has been empty.          *)
THEOREM FoundIntact == Spec => []ChainIntact
<1>1. AuditInv => ChainIntact
  BY AuditIntact
<1> QED
  BY <1>1, AuditInvariant, PTL
-----------------------------------------------------------------------------
(* Numbers stay in bounds: a row's number is not above its hash, since it  *)
(* is one more than the head's; and any rows of the log have a head.       *)
AuditSized ==
  /\ \A r \in committed : r.seq <= r.hash /\ r.hash <= inserted
  /\ \A S \in SUBSET log : S # {} => \E h \in S : \A q \in S : q.seq <= h.seq

\* The groups of the types.
AuditTypedRows  == log \subseteq Row /\ committed \subseteq Row /\ log \subseteq committed
AuditTypedTx    == tx \in [Tx -> OpenTx \cup {None}]
AuditTypedMarks == anchors \subseteq (1..MaxRows) \X (1..MaxRows) /\ archive \subseteq 1..MaxRows /\ aged \subseteq 1..MaxRows
AuditTypedRest  ==
  /\ sweep \in {"idle", "archived"} /\ emptied \in BOOLEAN
  /\ now \in 0..MaxTime /\ faults \in 0..MaxFaults /\ inserted \in 0..MaxRows /\ cutoff \in -Days..MaxTime

AuditHeld == \A t \in Tx : AuditHolds(t) => tx[t].row.seq <= tx[t].row.hash /\ tx[t].row.hash <= inserted

AuditTyped == AuditTypedRows /\ AuditTypedTx /\ AuditTypedMarks /\ AuditTypedRest /\ AuditSized /\ AuditHeld

\* These are the types, and what bounds the numbers.
LEMMA AuditTypedIsType == AuditTyped => TypeOK
BY DEF AuditTyped, AuditTypedRows, AuditTypedTx, AuditTypedMarks,
   AuditTypedRest, TypeOK

\* They hold of an empty log.
LEMMA AuditTypedInit == ASSUME Init PROVE AuditTyped
<1> USE AuditAssumption DEF Init
<1>1. AuditTypedRows /\ AuditTypedTx /\ AuditTypedMarks /\ AuditSized
  BY DEF AuditTypedRows, AuditTypedTx, AuditTypedMarks, AuditSized
<1>2. AuditTypedRest
  <2>1. -Days \in -Days..MaxTime
    <3>1. -Days \in Int /\ -Days <= MaxTime
      BY AuditAssumption
    <3> QED
      BY <3>1, AuditAssumption
  <2>2. 0 \in 0..MaxTime /\ 0 \in 0..MaxFaults /\ 0 \in 0..MaxRows
    OBVIOUS
  <2> QED
    BY <2>1, <2>2 DEF AuditTypedRest
<1>3. AuditHeld
  BY DEF AuditHeld, AuditHolds
<1> QED
  BY <1>1, <1>2, <1>3 DEF AuditTyped

\* What the step of a transaction must show.
LEMMA AuditTypedSame ==
  ASSUME AuditTyped, log' \subseteq log, UNCHANGED <<committed, inserted>>, AuditTypedTx', AuditTypedMarks', AuditTypedRest',
         \A t \in Tx : AuditHolds(t)' => AuditHolds(t) /\ tx'[t].row = tx[t].row
  PROVE  AuditTyped'
<1>1. AuditTypedRows'
  BY DEF AuditTyped, AuditTypedRows
<1>2. AuditSized'
  BY DEF AuditTyped, AuditSized
<1>3. AuditHeld'
  BY DEF AuditTyped, AuditHeld
<1> QED
  BY <1>1, <1>2, <1>3 DEF AuditTyped

\* A fault is counted below its bound.
LEMMA AuditFaultCounts == ASSUME faults \in 0..MaxFaults, Fault PROVE faults' \in 0..MaxFaults
BY AuditAssumption DEF Fault

\* A transaction that begins is one of the types.
LEMMA AuditTypedBegins == ASSUME AuditTyped, NEW t \in Tx, BindTenant(t) PROVE AuditTyped'
<1>1. /\ tx' = [tx EXCEPT ![t] = [began |-> now, row |-> None]]
      /\ UNCHANGED <<log, anchors, sweep, archive, now, faults, inserted, committed, cutoff, aged, emptied>>
  BY DEF BindTenant
<1>2. [began |-> now, row |-> None] \in OpenTx
  BY DEF AuditTyped, AuditTypedRest, OpenTx
<1>3. AuditTypedTx'
  BY <1>1, <1>2 DEF AuditTyped, AuditTypedTx
<1>4. AuditTypedMarks' /\ AuditTypedRest'
  BY <1>1 DEF AuditTyped, AuditTypedMarks, AuditTypedRest
<1>5. \A u \in Tx : AuditHolds(u)' => AuditHolds(u) /\ tx'[u].row = tx[u].row
  BY <1>1 DEF AuditTyped, AuditTypedTx, AuditHolds
<1> QED
  BY <1>1, <1>3, <1>4, <1>5, AuditTypedSame

\* A row that is written has a number below the bound.
LEMMA AuditTypedWrites == ASSUME AuditTyped, NEW t \in Tx, WriteAuditLog(t) PROVE AuditTyped'
<1> DEFINE s == IF log = {} THEN 1 ELSE (CHOOSE n \in {r.seq : r \in ChainHead(log)} : TRUE) + 1
           p == IF log = {} THEN 0 ELSE CHOOSE h \in {r.hash : r \in ChainHead(log)} : TRUE
           x == [seq |-> s, hash |-> inserted + 1, prev |-> p, created |-> tx[t].began]
<1>1. /\ tx[t] # None /\ tx[t].row = None /\ inserted' = inserted + 1 /\ inserted < MaxRows
      /\ UNCHANGED <<log, anchors, sweep, archive, now, faults, committed, cutoff, aged, emptied>>
      /\ tx' = [tx EXCEPT ![t].row = x]
  BY DEF WriteAuditLog
<1>2. x.seq = s /\ x.hash = inserted + 1
  OBVIOUS
<1>3. inserted \in 0..MaxRows /\ inserted + 1 \in 1..MaxRows /\ inserted' \in 0..MaxRows
  BY <1>1, AuditAssumption DEF AuditTyped, AuditTypedRest
<1>4. \A r \in committed : r.seq \in 1..MaxRows /\ r.hash \in 1..MaxRows /\ r.seq <= inserted /\ r.hash <= inserted
  BY <1>3, AuditAssumption DEF AuditTyped, AuditTypedRows, AuditSized, Row
<1>5. s \in 1..MaxRows /\ s <= inserted + 1 /\ p \in 0..MaxRows
  <2>1. CASE log = {}
    BY <1>3, <2>1, AuditAssumption
  <2>2. CASE log # {}
    <3>1. PICK h \in log : \A q \in log : q.seq <= h.seq
      BY <2>2 DEF AuditTyped, AuditSized
    <3>2. h \in ChainHead(log)
      BY <3>1 DEF ChainHead
    <3>3. \A r \in ChainHead(log) : r \in committed
      BY DEF ChainHead, AuditTyped, AuditTypedRows
    <3>4. /\ (CHOOSE n \in {r.seq : r \in ChainHead(log)} : TRUE) \in {r.seq : r \in ChainHead(log)}
          /\ (CHOOSE n \in {r.hash : r \in ChainHead(log)} : TRUE) \in {r.hash : r \in ChainHead(log)}
      BY <3>2
    <3>5. PICK r \in committed : s = r.seq + 1
      BY <2>2, <3>3, <3>4
    <3>6. PICK q \in committed : p = q.hash
      BY <2>2, <3>3, <3>4
    <3> HIDE DEF s, p
    <3> QED
      BY <1>3, <1>4, <3>5, <3>6, AuditAssumption
  <2> QED
    BY <2>1, <2>2
<1>6. tx[t] \in OpenTx /\ tx[t].began \in 0..MaxTime
  BY <1>1 DEF AuditTyped, AuditTypedTx, OpenTx
<1> HIDE DEF s, p
<1>7. x \in Row
  BY <1>3, <1>5, <1>6 DEF Row
<1> HIDE DEF x
<1>8. tx' \in [Tx -> OpenTx \cup {None}] /\ tx'[t].row = x /\ \A u \in Tx : u # t => tx'[u] = tx[u]
  <2>1. [tx[t] EXCEPT !.row = x] \in OpenTx /\ [tx[t] EXCEPT !.row = x].row = x
    BY <1>6, <1>7 DEF OpenTx
  <2>2. tx' = [tx EXCEPT ![t] = [tx[t] EXCEPT !.row = x]]
    BY <1>1 DEF AuditTyped, AuditTypedTx
  <2> QED
    BY <2>1, <2>2 DEF AuditTyped, AuditTypedTx
<1>9. AuditTypedRows' /\ AuditTypedMarks'
  BY <1>1 DEF AuditTyped, AuditTypedRows, AuditTypedMarks
<1>10. AuditTypedRest'
  BY <1>1, <1>3 DEF AuditTyped, AuditTypedRest
<1>11. AuditSized'
  <2>1. \A r \in committed : r.seq <= r.hash /\ r.hash <= inserted'
    BY <1>1, <1>3, <1>4 DEF AuditTyped, AuditSized
  <2> QED
    BY <1>1, <2>1 DEF AuditTyped, AuditSized
<1>12. AuditHeld'
  <2>1. ASSUME NEW u \in Tx, AuditHolds(u)' PROVE tx'[u].row.seq <= tx'[u].row.hash /\ tx'[u].row.hash <= inserted'
    <3>1. CASE u = t
      BY <1>1, <1>2, <1>3, <1>5, <1>8, <3>1
    <3>2. CASE u # t
      <4>1. AuditHolds(u) /\ tx'[u].row = tx[u].row
        BY <1>8, <2>1, <3>2 DEF AuditHolds
      <4>2. tx[u].row \in Row
        BY <4>1 DEF AuditTyped, AuditTypedTx, OpenTx, AuditHolds
      <4>3. tx[u].row.hash \in 1..MaxRows /\ tx[u].row.seq <= tx[u].row.hash /\ tx[u].row.hash <= inserted
        BY <4>1, <4>2 DEF AuditTyped, AuditHeld, Row
      <4> QED
        BY <1>1, <1>3, <4>1, <4>3
    <3> QED
      BY <3>1, <3>2
  <2> QED
    BY <2>1 DEF AuditHeld
<1> QED
  BY <1>8, <1>9, <1>10, <1>11, <1>12 DEF AuditTyped, AuditTypedTx

\* A commit puts the row that was written into the log.
LEMMA AuditTypedEnds == ASSUME AuditTyped, NEW t \in Tx, Finish(t) PROVE AuditTyped'
<1>1. /\ tx[t] # None /\ tx' = [tx EXCEPT ![t] = None]
      /\ UNCHANGED <<anchors, sweep, archive, now, inserted, cutoff, aged, emptied>>
  BY DEF Finish
<1>2. faults' \in 0..MaxFaults
  BY AuditFaultCounts DEF Finish, AuditTyped, AuditTypedRest
<1>3. AuditTypedTx' /\ AuditTypedMarks' /\ AuditTypedRest'
  BY <1>1, <1>2 DEF AuditTyped, AuditTypedTx, AuditTypedMarks, AuditTypedRest
<1>4. \A u \in Tx : AuditHolds(u)' => AuditHolds(u) /\ tx'[u].row = tx[u].row
  BY <1>1 DEF AuditTyped, AuditTypedTx, AuditHolds
<1>5. CASE log' = log /\ committed' = committed
  BY <1>1, <1>3, <1>4, <1>5, AuditTypedSame
<1>6. CASE AuditHolds(t) /\ log' = log \cup {tx[t].row} /\ committed' = committed \cup (log' \ log)
  <2> DEFINE x == tx[t].row
  <2>1. x \in Row /\ x.seq <= x.hash /\ x.hash <= inserted
    BY <1>6 DEF AuditTyped, AuditTypedTx, OpenTx, AuditHeld, AuditHolds
  <2> HIDE DEF x
  <2>2. log' = log \cup {x} /\ log \subseteq committed /\ committed' = committed \cup {x}
    BY <1>6 DEF x, AuditTyped, AuditTypedRows
  <2>3. AuditTypedRows'
    BY <2>1, <2>2 DEF AuditTyped, AuditTypedRows
  <2>4. ASSUME NEW S \in SUBSET log', S # {} PROVE \E h \in S : \A q \in S : q.seq <= h.seq
    <3>1. \A r \in S : r.seq \in Int
      BY <2>2, <2>1 DEF AuditTyped, AuditTypedRows, Row
    <3>2. CASE S \ {x} = {}
      <4>1. S = {x}
        BY <2>4, <3>2
      <4> QED
        BY <3>1, <4>1
    <3>3. CASE S \ {x} # {}
      <4>1. S \ {x} \in SUBSET log
        BY <2>2
      <4>2. PICK h \in S \ {x} : \A q \in S \ {x} : q.seq <= h.seq
        BY <3>3, <4>1 DEF AuditTyped, AuditSized
      <4>3. CASE x \in S /\ h.seq < x.seq
        BY <3>1, <4>2, <4>3
      <4>4. CASE x \notin S
        BY <4>2, <4>4
      <4>5. CASE x \in S /\ ~(h.seq < x.seq)
        BY <3>1, <4>2, <4>5
      <4> QED
        BY <4>3, <4>4, <4>5
    <3> QED
      BY <3>2, <3>3
  <2>5. \A r \in committed' : r.seq <= r.hash /\ r.hash <= inserted'
    BY <1>1, <2>1, <2>2 DEF AuditTyped, AuditSized
  <2>6. AuditSized' /\ AuditHeld'
    BY <1>1, <1>4, <2>4, <2>5 DEF AuditTyped, AuditSized, AuditHeld
  <2> QED
    BY <1>3, <2>3, <2>6 DEF AuditTyped
<1> QED
  BY <1>1, <1>5, <1>6 DEF Finish, AuditHolds

\* Every step keeps the types.
LEMMA AuditTypedStep == ASSUME AuditTyped, [Next]_vars PROVE AuditTyped'
<1>1. AuditTypedRows /\ AuditTypedTx /\ AuditTypedMarks /\ AuditTypedRest
  BY DEF AuditTyped
<1>2. ASSUME NEW t \in Tx, BindTenant(t) \/ WriteAuditLog(t) \/ Finish(t) PROVE AuditTyped'
  BY <1>2, AuditTypedBegins, AuditTypedWrites, AuditTypedEnds
<1>3. \A r \in log : r.seq \in 1..MaxRows /\ r.hash \in 1..MaxRows
  BY <1>1 DEF AuditTypedRows, Row
<1>4. ASSUME UNCHANGED tx PROVE AuditTypedTx' /\ \A t \in Tx : AuditHolds(t)' => AuditHolds(t) /\ tx'[t].row = tx[t].row
  BY <1>1, <1>4 DEF AuditTypedTx, AuditHolds
<1>5. CASE WriteAuditAnchor
  <2>1. UNCHANGED <<tx, log, sweep, archive, now, faults, inserted, committed, cutoff, aged, emptied>>
    BY <1>5 DEF WriteAuditAnchor
  <2>2. AuditTypedMarks' /\ AuditTypedRest'
    BY <1>1, <1>3, <1>5, <2>1 DEF WriteAuditAnchor, ChainHead, AuditTypedMarks,
       AuditTypedRest
  <2> QED
    BY <1>4, <2>1, <2>2, AuditTypedSame
<1>6. CASE ArchiveAuditLogs
  <2>1. /\ UNCHANGED <<tx, log, anchors, now, faults, inserted, committed, aged, emptied>>
        /\ sweep' = "archived" /\ cutoff' = now - Days
        /\ archive' = archive \cup {r.hash : r \in Older(now - Days)} /\ Older(now - Days) \subseteq log
    BY <1>6 DEF ArchiveAuditLogs, Older
  <2>2. AuditTypedMarks'
    BY <1>1, <1>3, <2>1 DEF AuditTypedMarks
  <2>3. AuditTypedRest'
    BY <1>1, <2>1, AuditAssumption DEF AuditTypedRest
  <2> QED
    BY <1>4, <2>1, <2>2, <2>3, AuditTypedSame
<1>7. CASE Purge
  <2>1. /\ UNCHANGED <<tx, anchors, archive, now, inserted, committed, cutoff>> /\ sweep' = "idle"
        /\ log' \subseteq log
    BY <1>7 DEF Purge
  <2>2. aged' \subseteq 1..MaxRows
    <3>1. aged' = aged \/ aged' = aged \cup {r.hash : r \in {q \in log \ log' : q.created >= cutoff}}
      BY <1>7 DEF Purge
    <3>2. {r.hash : r \in {q \in log \ log' : q.created >= cutoff}} \subseteq 1..MaxRows
      BY <1>3
    <3> QED
      BY <1>1, <3>1, <3>2 DEF AuditTypedMarks
  <2>3. faults' \in 0..MaxFaults /\ emptied' \in BOOLEAN
    <3>1. faults \in 0..MaxFaults /\ emptied \in BOOLEAN
      BY <1>1 DEF AuditTypedRest
    <3>2. faults' \in 0..MaxFaults
      BY <1>7, <3>1, AuditFaultCounts DEF Purge
    <3>3. emptied' \in BOOLEAN
      BY <1>7, <3>1, Zenon DEF Purge
    <3> QED
      BY <3>2, <3>3
  <2>4. AuditTypedMarks' /\ AuditTypedRest'
    BY <1>1, <2>1, <2>2, <2>3 DEF AuditTypedMarks, AuditTypedRest
  <2> QED
    BY <1>4, <2>1, <2>4, AuditTypedSame
<1>8. CASE Restart
  <2>1. /\ UNCHANGED <<log, anchors, archive, now, inserted, committed, cutoff, aged, emptied>>
        /\ tx' = [t \in Tx |-> None] /\ sweep' = "idle" /\ Fault
    BY <1>8 DEF Restart
  <2>2. faults' \in 0..MaxFaults
    BY <1>1, <2>1, AuditFaultCounts DEF AuditTypedRest
  <2>3. AuditTypedTx' /\ AuditTypedMarks' /\ AuditTypedRest' /\ \A t \in Tx : ~AuditHolds(t)'
    BY <1>1, <2>1, <2>2 DEF AuditTypedTx, AuditTypedMarks, AuditTypedRest,
       AuditHolds
  <2> QED
    BY <2>1, <2>3, AuditTypedSame
<1>9. CASE Tick
  <2>1. /\ UNCHANGED <<tx, log, anchors, sweep, archive, faults, inserted, committed, cutoff, aged, emptied>>
        /\ now < MaxTime /\ now' = now + 1
    BY <1>9 DEF Tick
  <2>2. AuditTypedMarks'
    BY <1>1, <2>1 DEF AuditTypedMarks
  <2>3. AuditTypedRest'
    BY <1>1, <2>1, AuditAssumption DEF AuditTypedRest
  <2> QED
    BY <1>4, <2>1, <2>2, <2>3, AuditTypedSame
<1>10. CASE UNCHANGED vars
  <2>1. UNCHANGED <<tx, log, anchors, sweep, archive, now, faults, inserted, committed, cutoff, aged, emptied>>
    BY <1>10 DEF vars
  <2>2. AuditTypedMarks' /\ AuditTypedRest'
    BY <1>1, <2>1 DEF AuditTypedMarks, AuditTypedRest
  <2> QED
    BY <1>4, <2>1, <2>2, AuditTypedSame
<1> QED
  BY <1>2, <1>5, <1>6, <1>7, <1>8, <1>9, <1>10 DEF Next

(* The numbers of rows, the links, the marks and the times stay in bounds. *)
THEOREM AuditTypes == Spec => []TypeOK
<1>1. Init => AuditTyped
  BY AuditTypedInit
<1>2. AuditTyped /\ [Next]_vars => AuditTyped'
  BY AuditTypedStep
<1> QED
  BY <1>1, <1>2, AuditTypedIsType, PTL DEF Spec

-----------------------------------------------------------------------------
\* The part is chosen once.
LEMMA ConsolePartStays == ASSUME [PartNext]_<<part, vars, cells>> PROVE part' = part
BY DEF PartNext, cells

-----------------------------------------------------------------------------
(* The evidence of a session (AdminEvidence): why no row says what was not *)
(* so, and why a final window that calls itself complete is.               *)

EvHealth   == {"ok", "unsupported", "partial", "failed"}
EvSoftware == [SoftwareKey -> SoftwareVersion \cup {Absent}]
EvServices == [Service -> Fact \cup {Absent}]
EvSnapshot == [soft : EvSoftware, softHealth : EvHealth, svc : EvServices, svcHealth : EvHealth]
EvValue    == SoftwareVersion \cup Fact \cup {Absent}
EvKind     == {"software_installed", "software_removed", "software_updated", "service_installed",
               "service_removed", "service_account", "service_start", "service_definition"}
EvChange   == [kind : EvKind, key : SoftwareKey \cup Service, old : EvValue, new : EvValue,
               attr : {"human", "background", "unknown"}]
EvWindow   == [seq : 1..MaxWindows, final : BOOLEAN, changes : SUBSET EvChange,
               total : {Evidence!Cardinality(C) : C \in SUBSET EvChange}, health : EvHealth \X EvHealth,
               completeness : {"no_baseline", "partial", "stale_final", "truncated", "complete"}]
EvRow      == [seq : 1..MaxWindows, kind : EvKind, key : SoftwareKey \cup Service,
               old : EvValue, new : EvValue, attr : {"human", "background", "unknown"}]

EvTypes ==
  /\ soft \in EvSoftware /\ svc \in EvServices
  /\ pc \in {"none", "idle", "save", "saveblind", "over"}
  /\ pc # "none" => /\ file.baseline \in EvSnapshot /\ file.seq \in Nat
                    /\ base.soft \in EvSoftware /\ base.svc \in EvServices
  /\ pc \in {"save", "saveblind"} => sending \in EvWindow
  /\ mail \in Seq(EvWindow)
  /\ rows \subseteq EvRow
  /\ lastSeq \in 0..MaxWindows /\ used \in 0..MaxWindows
  /\ final \in BOOLEAN /\ muddled \in BOOLEAN

\* The baseline is what was there at the grant, where it says it is whole; it
\* is empty where the file was lost.
EvBaseline ==
  pc # "none" =>
    /\ file.baseline.softHealth = "ok" =>
         file.baseline.soft = base.soft \/ Evidence!Empty(file.baseline.soft)
    /\ file.baseline.svcHealth = "ok" =>
         file.baseline.svc = base.svc \/ Evidence!Empty(file.baseline.svc)

\* One change for each kind and key.
EvOne(C) == \A c, d \in C : c.kind = d.kind /\ c.key = d.key => c = d

\* A window that is sure of a change tells a true one, and one that is sure to
\* be the whole of it is.
EvTruth(w, sure, phase, whole) ==
  /\ \A c \in w.changes : c.attr # "unknown" => c \in sure
  /\ EvOne(w.changes)
  /\ w.final => phase = "over"
  /\ w.final /\ w.completeness = "complete" => w.changes \in whole

EvMail == \A i \in 1..Len(mail) : EvTruth(mail[i], facts, pc, delta)

\* Rows are those of numbers read, one for each number, kind and key.
EvRows ==
  /\ \A r \in rows : r.seq <= lastSeq
  /\ \A r, q \in rows : Evidence!SameRow(r, q) => r = q
  /\ final => pc = "over"

EvAt(n)   == {r \in rows : r.seq = n}
EvSaid(n) == {Evidence!Change(r.kind, r.key, r.old, r.new, r.attr) : r \in EvAt(n)}

\* While no number is used twice and no window overtaken, numbers grow, and
\* the last number the server saw is that of one window.
EvOrder ==
  ~muddled =>
    /\ lastSeq <= used
    /\ \A i \in 1..Len(mail) :
         /\ mail[i].seq <= used
         /\ mail[i].final => mail[i].seq = used
         /\ mail[i].seq = lastSeq =>
              EvAt(lastSeq) = Evidence!RowsOf(mail[i]) /\ completeness = mail[i].completeness
    /\ \A i, j \in 1..Len(mail) : i < j => mail[i].seq < mail[j].seq
    /\ final => lastSeq = used

EvInv ==
  /\ EvTypes /\ EvBaseline /\ EvMail /\ EvRows /\ EvOrder
  /\ Evidence!NoFalseAccusation /\ Evidence!ConfidentFinal
-----------------------------------------------------------------------------
\* The worse of two health marks is ok only where both are.
LEMMA EvWorse ==
  ASSUME NEW g \in EvHealth, NEW h \in EvHealth
  PROVE  /\ Evidence!WorseHealth(g, h) \in EvHealth
         /\ Evidence!WorseHealth(g, h) = "ok" => g = "ok" /\ h = "ok"
<1>1. /\ Evidence!HealthRank["ok"] = 0 /\ Evidence!HealthRank["unsupported"] = 1
      /\ Evidence!HealthRank["partial"] = 2 /\ Evidence!HealthRank["failed"] = 3
  BY DEF Evidence!HealthRank
<1> QED
  BY <1>1 DEF Evidence!WorseHealth, EvHealth

\* What is read well is what there is.
LEMMA EvSnapshots ==
  ASSUME soft \in EvSoftware, svc \in EvServices, NEW faulty \in BOOLEAN,
         NEW s \in Evidence!Snapshots(faulty)
  PROVE  /\ s \in EvSnapshot
         /\ s.softHealth = "ok" => s.soft = soft
         /\ s.svcHealth = "ok" => s.svc = svc
<1>1. DOMAIN soft = SoftwareKey /\ Evidence!NothingOf(soft) \in EvSoftware
  BY DEF EvSoftware, Evidence!NothingOf
<1>2. \A read \in SUBSET Service : [k \in Service |-> IF k \in read THEN svc[k] ELSE Absent] \in EvServices
  BY DEF EvServices
<1>3. \A a, b : Evidence!HealthOf(a, b) \in EvHealth /\ (Evidence!HealthOf(a, b) = "ok" => a = b)
  BY DEF Evidence!HealthOf, EvHealth
<1>4. PICK so, sv :
        /\ s = [soft |-> so, softHealth |-> Evidence!HealthOf(so, soft),
                svc |-> sv, svcHealth |-> Evidence!HealthOf(sv, svc)]
        /\ so \in EvSoftware /\ sv \in EvServices
  <2>1. PICK so \in IF faulty THEN {soft, Evidence!NothingOf(soft)} ELSE {soft},
             sv \in IF faulty
                    THEN {[k \in Service |-> IF k \in read THEN svc[k] ELSE Absent] : read \in SUBSET Service}
                    ELSE {svc} :
               s = [soft |-> so, softHealth |-> Evidence!HealthOf(so, soft),
                    svc |-> sv, svcHealth |-> Evidence!HealthOf(sv, svc)]
    BY DEF Evidence!Snapshots
  <2>2. so \in EvSoftware
    BY <1>1
  <2>3. sv \in EvServices
    <3>1. CASE ~faulty
      BY <3>1
    <3>2. CASE faulty
      <4>1. PICK read \in SUBSET Service : sv = [k \in Service |-> IF k \in read THEN svc[k] ELSE Absent]
        BY <3>2
      <4> QED
        BY <1>2, <4>1
    <3> QED
      BY <3>1, <3>2
  <2> QED
    BY <2>1, <2>2, <2>3
<1> QED
  BY <1>3, <1>4 DEF EvSnapshot

\* A comparison says one thing of one key.

\* What a change is made of.
LEMMA EvChanges ==
  ASSUME NEW kind \in EvKind, NEW key \in SoftwareKey \cup Service, NEW o \in EvValue, NEW n \in EvValue,
         NEW attr \in {"human", "background", "unknown"}
  PROVE  /\ Evidence!Change(kind, key, o, n, attr) \in EvChange
         /\ Evidence!Change(kind, key, o, n, attr).kind = kind
         /\ Evidence!Change(kind, key, o, n, attr).key = key
         /\ Evidence!Change(kind, key, o, n, attr).attr = attr
BY DEF Evidence!Change, EvChange

\* A diff of software is of changes of software, one for each.
LEMMA EvSoftwareFound ==
  ASSUME NEW b \in EvSoftware, NEW a \in EvSoftware, NEW C \in Evidence!DiffSoftware(b, a)
  PROVE  /\ C \subseteq EvChange /\ EvOne(C)
         /\ \A c \in C : c.kind \in {"software_installed", "software_removed", "software_updated"}
<1> DEFINE come == Evidence!Added(b, a)
           gone == Evidence!Removed(b, a)
           kept == Evidence!Kept(b, a)
<1>1. PICK pairs \in Evidence!Reinstalls(b, a) : C = Evidence!SoftwareChanges(b, a, pairs)
  BY DEF Evidence!DiffSoftware
<1>2. /\ come \subseteq SoftwareKey /\ gone \subseteq SoftwareKey /\ kept \subseteq SoftwareKey
      /\ \A k \in SoftwareKey : a[k] \in EvValue /\ b[k] \in EvValue
      /\ Absent \in EvValue
      /\ \A k \in kept : k \notin come
  BY DEF EvSoftware, EvValue, Evidence!Added, Evidence!Removed, Evidence!Kept
<1>3. /\ pairs \subseteq gone \X come
      /\ \A p, q \in pairs : NameOf[p[1]] = NameOf[q[1]] => p = q
      /\ \A p \in pairs : NameOf[p[1]] = NameOf[p[2]]
  BY <1>1 DEF Evidence!Reinstalls
<1>4. \A p, q \in pairs : p[2] = q[2] => p = q
  BY <1>3
<1>5. \A p \in pairs : p[1] \in gone /\ p[2] \in come
  BY <1>3
<1> HIDE DEF come, gone, kept
<1>6. ASSUME NEW c \in C
      PROVE  \/ \E k \in come : /\ c = Evidence!Change("software_installed", k, Absent, a[k], "human")
                                /\ k \in SoftwareKey
             \/ \E k \in gone : /\ c = Evidence!Change("software_removed", k, b[k], Absent, "human")
                                /\ k \in SoftwareKey
             \/ \E k \in kept : /\ c = Evidence!Change("software_updated", k, b[k], a[k], "background")
                                /\ k \in SoftwareKey
             \/ \E p \in pairs : /\ c = Evidence!Change("software_updated", p[2], b[p[1]], a[p[2]], "background")
                                 /\ p[1] \in SoftwareKey /\ p[2] \in come /\ p[2] \in SoftwareKey
  BY <1>1, <1>2, <1>5 DEF Evidence!SoftwareChanges, come, gone, kept
<1>7. ASSUME NEW c \in C
      PROVE  c \in EvChange /\ c.kind \in {"software_installed", "software_removed", "software_updated"}
  <2>1. CASE \E k \in come : /\ c = Evidence!Change("software_installed", k, Absent, a[k], "human")
                             /\ k \in SoftwareKey
    BY <1>2, <2>1, EvChanges DEF EvKind
  <2>2. CASE \E k \in gone : /\ c = Evidence!Change("software_removed", k, b[k], Absent, "human")
                             /\ k \in SoftwareKey
    BY <1>2, <2>2, EvChanges DEF EvKind
  <2>3. CASE \E k \in kept : /\ c = Evidence!Change("software_updated", k, b[k], a[k], "background")
                             /\ k \in SoftwareKey
    BY <1>2, <2>3, EvChanges DEF EvKind
  <2>4. CASE \E p \in pairs : /\ c = Evidence!Change("software_updated", p[2], b[p[1]], a[p[2]], "background")
                              /\ p[1] \in SoftwareKey /\ p[2] \in come /\ p[2] \in SoftwareKey
    <3>1. PICK p \in pairs : /\ c = Evidence!Change("software_updated", p[2], b[p[1]], a[p[2]], "background")
                             /\ p[1] \in SoftwareKey /\ p[2] \in SoftwareKey
      BY <2>4
    <3>2. b[p[1]] \in EvValue /\ a[p[2]] \in EvValue
      BY <1>2, <3>1
    <3>3. "software_updated" \in EvKind
      BY DEF EvKind
    <3> QED
      BY <3>1, <3>2, <3>3, EvChanges
  <2> QED
    BY <1>6, <2>1, <2>2, <2>3, <2>4
<1>8. ASSUME NEW c \in C, NEW d \in C, c.kind = d.kind, c.key = d.key PROVE c = d
  <2>1. ASSUME NEW e \in C
        PROVE  \/ e.kind = "software_installed" /\ e = Evidence!Change("software_installed", e.key, Absent, a[e.key], "human")
               \/ e.kind = "software_removed" /\ e = Evidence!Change("software_removed", e.key, b[e.key], Absent, "human")
               \/ /\ e.kind = "software_updated" /\ e.key \in kept
                  /\ e = Evidence!Change("software_updated", e.key, b[e.key], a[e.key], "background")
               \/ /\ e.kind = "software_updated" /\ e.key \in come
                  /\ \E p \in pairs : p[2] = e.key /\ e = Evidence!Change("software_updated", p[2], b[p[1]], a[p[2]], "background")
    BY <1>6 DEF Evidence!Change
  <2>2. CASE c.kind # "software_updated"
    BY <1>8, <2>1, <2>2
  <2>3. CASE c.kind = "software_updated" /\ c.key \in kept
    BY <1>2, <1>8, <2>1, <2>3
  <2>4. CASE c.kind = "software_updated" /\ c.key \in come
    <3>1. PICK p \in pairs : p[2] = c.key /\ c = Evidence!Change("software_updated", p[2], b[p[1]], a[p[2]], "background")
      BY <1>2, <2>1, <2>4
    <3>2. PICK q \in pairs : q[2] = d.key /\ d = Evidence!Change("software_updated", q[2], b[q[1]], a[q[2]], "background")
      BY <1>2, <1>8, <2>1, <2>4
    <3> QED
      BY <1>4, <1>8, <3>1, <3>2
  <2> QED
    BY <2>1, <2>2, <2>3, <2>4
<1> QED
  BY <1>7, <1>8 DEF EvOne

\* What changed about one service, one change for each kind.
LEMMA EvServiceFound ==
  ASSUME NEW k \in Service, NEW b \in EvValue, NEW a \in EvValue
  PROVE  /\ Evidence!ServiceChange(k, b, a) \subseteq EvChange
         /\ \A c \in Evidence!ServiceChange(k, b, a) :
              c.key = k /\ c.kind \in {"service_account", "service_start", "service_definition"}
         /\ \A c, d \in Evidence!ServiceChange(k, b, a) : c = d
<1>1. Evidence!AttributeService(a) \in {"human", "background"}
  BY DEF Evidence!AttributeService
<1>2. \E kind \in {"service_account", "service_start", "service_definition"}, attr \in {"human", "background"} :
        Evidence!ServiceChange(k, b, a) \subseteq {Evidence!Change(kind, k, b, a, attr)}
  <2>1. \/ Evidence!ServiceChange(k, b, a) = {Evidence!Change("service_account", k, b, a, "human")}
        \/ Evidence!ServiceChange(k, b, a) = {Evidence!Change("service_start", k, b, a, "human")}
        \/ Evidence!ServiceChange(k, b, a) = {Evidence!Change("service_start", k, b, a, "background")}
        \/ Evidence!ServiceChange(k, b, a) = {Evidence!Change("service_definition", k, b, a, Evidence!AttributeService(a))}
        \/ Evidence!ServiceChange(k, b, a) = {}
    BY Zenon DEF Evidence!ServiceChange
  <2> QED
    BY <1>1, <2>1
<1>3. \A kind \in {"service_account", "service_start", "service_definition"}, attr \in {"human", "background"} :
        /\ Evidence!Change(kind, k, b, a, attr) \in EvChange
        /\ Evidence!Change(kind, k, b, a, attr).key = k
        /\ Evidence!Change(kind, k, b, a, attr).kind = kind
  BY EvChanges DEF EvKind
<1> QED
  BY <1>2, <1>3

\* A diff of services is of changes of services, one for each.
LEMMA EvServicesFound ==
  ASSUME NEW b \in EvServices, NEW a \in EvServices
  PROVE  /\ Evidence!DiffServices(b, a) \subseteq EvChange /\ EvOne(Evidence!DiffServices(b, a))
         /\ \A c \in Evidence!DiffServices(b, a) :
              c.kind \notin {"software_installed", "software_removed", "software_updated"}
<1> DEFINE come == Evidence!Added(b, a)
           gone == Evidence!Removed(b, a)
           kept == Evidence!Kept(b, a)
           C == Evidence!DiffServices(b, a)
<1>1. /\ come \subseteq Service /\ gone \subseteq Service /\ kept \subseteq Service
      /\ \A k \in Service : a[k] \in EvValue /\ b[k] \in EvValue
      /\ Absent \in EvValue
  BY DEF EvServices, EvValue, Evidence!Added, Evidence!Removed, Evidence!Kept
<1>2. \A x : Evidence!AttributeService(x) \in {"human", "background"}
  BY DEF Evidence!AttributeService
<1>3. ASSUME NEW c \in C
      PROVE  \/ \E k \in come : c = Evidence!Change("service_installed", k, Absent, a[k], Evidence!AttributeService(a[k]))
             \/ \E k \in gone : c = Evidence!Change("service_removed", k, b[k], Absent, Evidence!AttributeService(b[k]))
             \/ \E k \in kept : c \in Evidence!ServiceChange(k, b[k], a[k])
  BY DEF Evidence!DiffServices
<1> HIDE DEF come, gone, kept, C
<1>4. ASSUME NEW c \in C
      PROVE  /\ c \in EvChange
             /\ \/ /\ c.kind = "service_installed" /\ c.key \in come
                   /\ c = Evidence!Change("service_installed", c.key, Absent, a[c.key], Evidence!AttributeService(a[c.key]))
                \/ /\ c.kind = "service_removed" /\ c.key \in gone
                   /\ c = Evidence!Change("service_removed", c.key, b[c.key], Absent, Evidence!AttributeService(b[c.key]))
                \/ /\ c.kind \in {"service_account", "service_start", "service_definition"} /\ c.key \in kept
                   /\ c \in Evidence!ServiceChange(c.key, b[c.key], a[c.key])
  <2>1. CASE \E k \in come : c = Evidence!Change("service_installed", k, Absent, a[k], Evidence!AttributeService(a[k]))
    BY <1>1, <1>2, <2>1, EvChanges DEF EvKind
  <2>2. CASE \E k \in gone : c = Evidence!Change("service_removed", k, b[k], Absent, Evidence!AttributeService(b[k]))
    BY <1>1, <1>2, <2>2, EvChanges DEF EvKind
  <2>3. CASE \E k \in kept : c \in Evidence!ServiceChange(k, b[k], a[k])
    BY <1>1, <2>3, EvServiceFound
  <2> QED
    BY <1>3, <2>1, <2>2, <2>3
<1>5. ASSUME NEW c \in C, NEW d \in C, c.kind = d.kind, c.key = d.key PROVE c = d
  <2>1. CASE c.kind \in {"service_account", "service_start", "service_definition"}
    <3>1. /\ c.key \in kept
          /\ c \in Evidence!ServiceChange(c.key, b[c.key], a[c.key])
          /\ d \in Evidence!ServiceChange(c.key, b[c.key], a[c.key])
      BY <1>4, <1>5, <2>1
    <3> QED
      BY <1>1, <3>1, EvServiceFound
  <2>2. CASE c.kind \notin {"service_account", "service_start", "service_definition"}
    BY <1>4, <1>5, <2>2
  <2> QED
    BY <2>1, <2>2
<1>6. \A c \in C : c \in EvChange /\ c.kind \notin {"software_installed", "software_removed", "software_updated"}
  BY <1>4
<1> QED
  BY <1>5, <1>6 DEF EvOne, C

\* Changes are as found, or all of them are marked unknown.
LEMMA EvDegraded ==
  ASSUME NEW C \in SUBSET EvChange, EvOne(C), NEW sh \in EvHealth, NEW vh \in EvHealth, NEW lost \in BOOLEAN
  PROVE  /\ Evidence!Degrade(C, sh, vh, lost) \subseteq EvChange
         /\ EvOne(Evidence!Degrade(C, sh, vh, lost))
         /\ \/ ~lost /\ sh = "ok" /\ vh = "ok" /\ Evidence!Degrade(C, sh, vh, lost) = C
            \/ /\ lost \/ sh # "ok" \/ vh # "ok"
               /\ \A c \in Evidence!Degrade(C, sh, vh, lost) : c.attr = "unknown"
<1> DEFINE D == Evidence!Degrade(C, sh, vh, lost)
<1>1. CASE ~lost /\ sh = "ok" /\ vh = "ok"
  BY <1>1 DEF Evidence!Degrade
<1>2. CASE lost \/ sh # "ok" \/ vh # "ok"
  <2>1. D = {[c EXCEPT !.attr = "unknown"] : c \in C}
    BY <1>2 DEF Evidence!Degrade
  <2>2. \A c \in C : /\ [c EXCEPT !.attr = "unknown"] \in EvChange
                     /\ [c EXCEPT !.attr = "unknown"].attr = "unknown"
                     /\ [c EXCEPT !.attr = "unknown"].kind = c.kind
                     /\ [c EXCEPT !.attr = "unknown"].key = c.key
    BY DEF EvChange
  <2> HIDE DEF D
  <2>3. \A d \in D : \E c \in C : d = [c EXCEPT !.attr = "unknown"]
    BY <2>1
  <2>4. ASSUME NEW d \in D, NEW e \in D, d.kind = e.kind, d.key = e.key PROVE d = e
    <3>1. PICK c \in C : d = [c EXCEPT !.attr = "unknown"]
      BY <2>3
    <3>2. PICK f \in C : e = [f EXCEPT !.attr = "unknown"]
      BY <2>3
    <3>3. c.kind = f.kind /\ c.key = f.key
      BY <2>2, <2>4, <3>1, <3>2
    <3>4. c = f
      BY <3>3 DEF EvOne
    <3> QED
      BY <3>1, <3>2, <3>4
  <2>5. D \subseteq EvChange /\ \A d \in D : d.attr = "unknown"
    BY <2>2, <2>3
  <2> QED
    BY <1>2, <2>4, <2>5 DEF D, EvOne
<1> QED
  BY <1>1, <1>2

\* A comparison finds something to tell, be it nothing.
LEMMA EvTells == ASSUME NEW b, NEW a PROVE \E C : C \in Evidence!DiffSoftware(b, a)
<1> DEFINE alike == {p \in Evidence!Removed(b, a) \X Evidence!Added(b, a) : NameOf[p[1]] = NameOf[p[2]]}
           Of(n) == CHOOSE p \in alike : NameOf[p[1]] = n
           pairs == {Of(NameOf[p[1]]) : p \in alike}
<1>1. \A p \in alike : Of(NameOf[p[1]]) \in alike /\ NameOf[Of(NameOf[p[1]])[1]] = NameOf[p[1]]
  OBVIOUS
<1> HIDE DEF Of
<1>2. ASSUME NEW p \in alike
      PROVE  \E q \in pairs : \A o \in pairs : o = q <=> NameOf[o[1]] = NameOf[p[1]]
  <2>1. Of(NameOf[p[1]]) \in pairs
    OBVIOUS
  <2>2. ASSUME NEW o \in pairs PROVE o = Of(NameOf[p[1]]) <=> NameOf[o[1]] = NameOf[p[1]]
    <3>1. PICK r \in alike : o = Of(NameOf[r[1]])
      OBVIOUS
    <3> QED
      BY <1>1, <3>1
  <2> QED
    BY <2>1, <2>2
<1>3. pairs \subseteq alike
  BY <1>1
<1>4. pairs \in Evidence!Reinstalls(b, a)
  BY <1>2, <1>3 DEF Evidence!Reinstalls
<1> QED
  BY <1>4 DEF Evidence!DiffSoftware

\* What a window built from this baseline and this snapshot says.
LEMMA EvBuilt ==
  ASSUME soft \in EvSoftware, svc \in EvServices, base.soft \in EvSoftware, base.svc \in EvServices,
         NEW st, st # None => st \in EvSnapshot,
         st # None /\ st.softHealth = "ok" => st.soft = base.soft \/ Evidence!Empty(st.soft),
         st # None /\ st.svcHealth = "ok" => st.svc = base.svc \/ Evidence!Empty(st.svc),
         NEW faulty \in BOOLEAN, NEW s \in Evidence!Snapshots(faulty),
         NEW seq \in 1..MaxWindows, NEW isFinal \in BOOLEAN, NEW late \in BOOLEAN,
         NEW w \in Evidence!BuildWindow(st, s, seq, isFinal, late)
  PROVE  /\ w \in EvWindow /\ w.seq = seq /\ w.final = isFinal /\ EvOne(w.changes)
         /\ \A c \in w.changes : c.attr # "unknown" => c \in UNION Evidence!TrueChanges
         /\ w.completeness = "complete" => w.changes \in Evidence!TrueChanges
<1> DEFINE lost == st = None
           sh == IF lost THEN s.softHealth ELSE Evidence!WorseHealth(st.softHealth, s.softHealth)
           vh == IF lost THEN s.svcHealth ELSE Evidence!WorseHealth(st.svcHealth, s.svcHealth)
           softUsable == ~lost /\ Evidence!HealthUsable(sh) /\ ~Evidence!Empty(st.soft) /\ ~Evidence!Empty(s.soft)
           svcUsable == ~lost /\ Evidence!HealthUsable(vh) /\ ~Evidence!Empty(st.svc) /\ ~Evidence!Empty(s.svc)
           services == IF svcUsable THEN Evidence!DiffServices(st.svc, s.svc) ELSE {}
<1> DEFINE Whole(C) == Evidence!Degrade(C \cup services, sh, vh, lost)
           IsBuilt(all, kept) ==
             w = [seq |-> seq, final |-> isFinal, changes |-> kept,
                  total |-> Evidence!Cardinality(all), health |-> <<sh, vh>>,
                  completeness |-> Evidence!CompletenessOf(lost, ~softUsable \/ ~svcUsable, sh, vh, late, kept # all)]
<1>1. PICK diff \in IF softUsable THEN Evidence!DiffSoftware(st.soft, s.soft) ELSE {{}} :
        \E k \in Evidence!TruncateChanges(Whole(diff)) : IsBuilt(Whole(diff), k)
  BY DEF Evidence!BuildWindow
<1> DEFINE all == Whole(diff)
<1>0. PICK kept \in Evidence!TruncateChanges(all) : IsBuilt(all, kept)
  BY <1>1
<1> HIDE DEF IsBuilt
<1>2. /\ s \in EvSnapshot
      /\ s.softHealth = "ok" => s.soft = soft
      /\ s.svcHealth = "ok" => s.svc = svc
  BY EvSnapshots
<1>3. /\ s.soft \in EvSoftware /\ s.svc \in EvServices /\ s.softHealth \in EvHealth /\ s.svcHealth \in EvHealth
      /\ st # None => /\ st.soft \in EvSoftware /\ st.svc \in EvServices
                      /\ st.softHealth \in EvHealth /\ st.svcHealth \in EvHealth
  BY <1>2 DEF EvSnapshot
<1>4. /\ sh \in EvHealth /\ vh \in EvHealth
      /\ ~lost /\ sh = "ok" => st.softHealth = "ok" /\ s.softHealth = "ok"
      /\ ~lost /\ vh = "ok" => st.svcHealth = "ok" /\ s.svcHealth = "ok"
  BY <1>3, EvWorse
<1>5. softUsable \in BOOLEAN /\ svcUsable \in BOOLEAN /\ lost \in BOOLEAN
  OBVIOUS
<1>6. /\ diff \subseteq EvChange /\ EvOne(diff)
      /\ \A c \in diff : c.kind \in {"software_installed", "software_removed", "software_updated"}
  <2>1. CASE softUsable
    <3>1. diff \in Evidence!DiffSoftware(st.soft, s.soft)
      BY <2>1
    <3> QED
      BY <1>3, <2>1, <3>1, EvSoftwareFound
  <2>2. CASE ~softUsable
    <3>1. diff = {}
      BY <2>2
    <3> QED
      BY <3>1 DEF EvOne
  <2> QED
    BY <2>1, <2>2
<1>7. /\ services \subseteq EvChange /\ EvOne(services)
      /\ \A c \in services : c.kind \notin {"software_installed", "software_removed", "software_updated"}
  <2>1. CASE svcUsable
    <3>1. services = Evidence!DiffServices(st.svc, s.svc)
      BY <2>1
    <3> QED
      BY <1>3, <2>1, <3>1, EvServicesFound
  <2>2. CASE ~svcUsable
    <3>1. services = {}
      BY <2>2
    <3> QED
      BY <3>1 DEF EvOne
  <2> QED
    BY <2>1, <2>2
<1>8. ~lost /\ sh = "ok" /\ softUsable => diff \in Evidence!DiffSoftware(base.soft, soft)
  BY <1>1, <1>2, <1>4
<1>9. ~lost /\ vh = "ok" /\ svcUsable => services = Evidence!DiffServices(base.svc, svc)
  BY <1>2, <1>4
<1>10. ~softUsable => diff = {}
  BY <1>1
<1>11. ~svcUsable => services = {}
  OBVIOUS
<1> HIDE DEF lost, sh, vh, softUsable, svcUsable, services
<1>12. /\ diff \cup services \in SUBSET EvChange /\ EvOne(diff \cup services)
  BY <1>6, <1>7 DEF EvOne
<1>13. /\ all \subseteq EvChange /\ EvOne(all)
       /\ \/ ~lost /\ sh = "ok" /\ vh = "ok" /\ all = diff \cup services
          \/ (lost \/ sh # "ok" \/ vh # "ok") /\ \A c \in all : c.attr = "unknown"
  <2> DEFINE C == diff \cup services
  <2>1. C \in SUBSET EvChange /\ EvOne(C)
    BY <1>12
  <2> HIDE DEF C
  <2>2. /\ Evidence!Degrade(C, sh, vh, lost) \subseteq EvChange
        /\ EvOne(Evidence!Degrade(C, sh, vh, lost))
        /\ \/ ~lost /\ sh = "ok" /\ vh = "ok" /\ Evidence!Degrade(C, sh, vh, lost) = C
           \/ /\ lost \/ sh # "ok" \/ vh # "ok"
              /\ \A c \in Evidence!Degrade(C, sh, vh, lost) : c.attr = "unknown"
    BY <1>4, <1>5, <2>1, EvDegraded
  <2> QED
    BY <2>2 DEF C
<1> HIDE DEF all
<1>14. kept \subseteq all
  BY <1>0 DEF Evidence!TruncateChanges
<1>15. /\ w.changes = kept /\ w.seq = seq /\ w.final = isFinal /\ w.total = Evidence!Cardinality(all)
       /\ w.health = <<sh, vh>>
       /\ w.completeness = Evidence!CompletenessOf(lost, ~softUsable \/ ~svcUsable, sh, vh, late, kept # all)
  BY <1>0 DEF IsBuilt
<1>16. w = [seq |-> seq, final |-> isFinal, changes |-> kept, total |-> Evidence!Cardinality(all), health |-> <<sh, vh>>,
            completeness |-> w.completeness]
  BY <1>0, <1>15 DEF IsBuilt
<1>17. /\ w.completeness \in {"no_baseline", "partial", "stale_final", "truncated", "complete"}
       /\ w.completeness = "complete" => ~lost /\ softUsable /\ svcUsable /\ sh = "ok" /\ vh = "ok" /\ kept = all
  BY <1>5, <1>15 DEF Evidence!CompletenessOf
<1>18. w \in EvWindow
  BY <1>4, <1>13, <1>14, <1>16, <1>17 DEF EvWindow
<1>19. EvOne(w.changes)
  BY <1>13, <1>14, <1>15 DEF EvOne
<1>20. PICK other : other \in Evidence!DiffSoftware(base.soft, soft)
  BY EvTells
<1>21. ASSUME NEW c \in w.changes, c.attr # "unknown" PROVE c \in UNION Evidence!TrueChanges
  <2>1. ~lost /\ sh = "ok" /\ vh = "ok" /\ (c \in diff \/ c \in services)
    BY <1>13, <1>14, <1>15, <1>21
  <2>2. CASE c \in diff
    <3>1. diff \in Evidence!DiffSoftware(base.soft, soft)
      BY <1>8, <1>10, <2>1, <2>2
    <3> QED
      BY <2>2, <3>1 DEF Evidence!TrueChanges
  <2>3. CASE c \in services
    <3>1. services = Evidence!DiffServices(base.svc, svc)
      BY <1>9, <1>11, <2>1, <2>3
    <3> QED
      BY <1>20, <2>3, <3>1 DEF Evidence!TrueChanges
  <2> QED
    BY <2>1, <2>2, <2>3
<1>22. w.completeness = "complete" => w.changes \in Evidence!TrueChanges
  BY <1>8, <1>9, <1>13, <1>15, <1>17 DEF Evidence!TrueChanges
<1> QED
  BY <1>15, <1>18, <1>19, <1>21, <1>22

\* The rows of a window say what it says.
LEMMA EvRowSet ==
  ASSUME NEW w \in EvWindow, EvOne(w.changes)
  PROVE  /\ Evidence!RowsOf(w) \subseteq EvRow
         /\ \A r \in Evidence!RowsOf(w) :
              r.seq = w.seq /\ Evidence!Change(r.kind, r.key, r.old, r.new, r.attr) \in w.changes
         /\ \A c \in w.changes : \E r \in Evidence!RowsOf(w) :
              c = Evidence!Change(r.kind, r.key, r.old, r.new, r.attr)
         /\ \A r, q \in Evidence!RowsOf(w) : Evidence!SameRow(r, q) => r = q
<1> DEFINE AsRow(c) == [seq |-> w.seq, kind |-> c.kind, key |-> c.key, old |-> c.old, new |-> c.new, attr |-> c.attr]
<1>1. w.seq \in 1..MaxWindows /\ w.changes \subseteq EvChange
  BY DEF EvWindow
<1>2. Evidence!RowsOf(w) = {AsRow(c) : c \in w.changes}
  BY DEF Evidence!RowsOf
<1>3. \A c \in w.changes : /\ AsRow(c) \in EvRow /\ AsRow(c).seq = w.seq /\ AsRow(c).kind = c.kind /\ AsRow(c).key = c.key
                           /\ Evidence!Change(AsRow(c).kind, AsRow(c).key, AsRow(c).old, AsRow(c).new, AsRow(c).attr) = c
  BY <1>1 DEF EvRow, EvChange, Evidence!Change
<1> HIDE DEF AsRow
<1>4. \A r \in Evidence!RowsOf(w) : \E c \in w.changes : r = AsRow(c)
  BY <1>2
<1>5. ASSUME NEW r \in Evidence!RowsOf(w), NEW q \in Evidence!RowsOf(w), Evidence!SameRow(r, q) PROVE r = q
  <2>1. PICK c \in w.changes : r = AsRow(c)
    BY <1>4
  <2>2. PICK d \in w.changes : q = AsRow(d)
    BY <1>4
  <2>3. c.kind = d.kind /\ c.key = d.key
    BY <1>3, <1>5, <2>1, <2>2 DEF Evidence!SameRow
  <2> QED
    BY <2>1, <2>2, <2>3 DEF EvOne
<1>6. Evidence!RowsOf(w) \subseteq EvRow
  BY <1>3, <1>4
<1>7. \A r \in Evidence!RowsOf(w) :
        r.seq = w.seq /\ Evidence!Change(r.kind, r.key, r.old, r.new, r.attr) \in w.changes
  BY <1>3, <1>4
<1>8. \A c \in w.changes : \E r \in Evidence!RowsOf(w) : c = Evidence!Change(r.kind, r.key, r.old, r.new, r.attr)
  BY <1>2, <1>3
<1> QED
  BY <1>5, <1>6, <1>7, <1>8

\* What the server's taking of a window does: it ignores it, or its rows are in.
LEMMA EvAccepted ==
  ASSUME EvTypes, EvRows, Evidence!NoFalseAccusation, facts \subseteq facts',
         NEW w \in EvWindow, EvOne(w.changes),
         \A c \in w.changes : c.attr # "unknown" => c \in facts',
         w.final => pc' = "over", pc = "over" => pc' = "over",
         Evidence!AcceptAdminSessionWindow(w)
  PROVE  /\ rows' \subseteq EvRow /\ lastSeq' \in 0..MaxWindows /\ final' \in BOOLEAN
         /\ EvRows' /\ Evidence!NoFalseAccusation'
         /\ \/ UNCHANGED <<rows, lastSeq, completeness, final>>
            \/ /\ lastSeq' = IF w.seq > lastSeq THEN w.seq ELSE lastSeq
               /\ completeness' = w.completeness /\ final' = (final \/ w.final)
               /\ rows' = rows \cup {q \in Evidence!RowsOf(w) : ~\E r \in rows : Evidence!SameRow(r, q)}
<1>1. /\ rows \subseteq EvRow /\ lastSeq \in 0..MaxWindows /\ final \in BOOLEAN
      /\ w.seq \in 1..MaxWindows /\ w.final \in BOOLEAN
  BY DEF EvTypes, EvWindow
<1>2. CASE UNCHANGED <<rows, lastSeq, completeness, final>>
  <2>1. EvRows'
    BY <1>2 DEF EvRows
  <2>2. Evidence!NoFalseAccusation'
    BY <1>2 DEF Evidence!NoFalseAccusation
  <2> QED
    BY <1>1, <1>2, <2>1, <2>2
<1>3. CASE /\ lastSeq' = IF w.seq > lastSeq THEN w.seq ELSE lastSeq
           /\ completeness' = w.completeness /\ final' = (final \/ w.final)
           /\ rows' = rows \cup {q \in Evidence!RowsOf(w) : ~\E r \in rows : Evidence!SameRow(r, q)}
  <2>1. rows' \subseteq EvRow
    BY <1>1, <1>3, EvRowSet
  <2>2. lastSeq' \in 0..MaxWindows /\ w.seq <= lastSeq' /\ lastSeq <= lastSeq'
    BY <1>1, <1>3, EvidenceAssumption
  <2>3. \A r \in rows' : r \in rows \/ (r \in Evidence!RowsOf(w) /\ ~\E q \in rows : Evidence!SameRow(q, r))
    BY <1>3
  <2>4. \A r \in rows' : r.seq <= lastSeq'
    <3>1. ASSUME NEW r \in rows PROVE r.seq <= lastSeq'
      <4>1. r.seq \in 1..MaxWindows /\ r.seq <= lastSeq
        BY <1>1 DEF EvRows, EvRow
      <4> QED
        BY <1>1, <2>2, <4>1
    <3>2. ASSUME NEW r \in Evidence!RowsOf(w) PROVE r.seq <= lastSeq'
      BY <2>2, EvRowSet
    <3> QED
      BY <2>3, <3>1, <3>2
  <2>5. ASSUME NEW r \in rows', NEW q \in rows', Evidence!SameRow(r, q) PROVE r = q
    <3>1. Evidence!SameRow(q, r)
      BY <2>5 DEF Evidence!SameRow
    <3> QED
      BY <2>3, <2>5, <3>1, EvRowSet DEF EvRows
  <2>6. final' => pc' = "over"
    BY <1>3 DEF EvRows
  <2>7. EvRows'
    BY <2>4, <2>5, <2>6 DEF EvRows, Evidence!SameRow
  <2>8. Evidence!NoFalseAccusation'
    <3>1. ASSUME NEW r \in rows', r.attr # "unknown"
          PROVE  Evidence!Change(r.kind, r.key, r.old, r.new, r.attr) \in facts'
      <4>1. CASE r \in rows
        BY <3>1, <4>1 DEF Evidence!NoFalseAccusation
      <4>2. CASE r \in Evidence!RowsOf(w)
        <5>1. Evidence!Change(r.kind, r.key, r.old, r.new, r.attr) \in w.changes
          BY <4>2, EvRowSet
        <5>2. Evidence!Change(r.kind, r.key, r.old, r.new, r.attr).attr # "unknown"
          BY <3>1 DEF Evidence!Change
        <5> QED
          BY <5>1, <5>2
      <4> QED
        BY <2>3, <4>1, <4>2
    <3> QED
      BY <3>1 DEF Evidence!NoFalseAccusation, Evidence!Change
  <2> QED
    BY <1>1, <1>3, <2>1, <2>2, <2>7, <2>8
<1> QED
  BY <1>2, <1>3 DEF Evidence!AcceptAdminSessionWindow, Evidence!server

\* A window whose number is the last one is all that is said under it.
LEMMA EvSays ==
  ASSUME EvTypes, EvRows, NEW w \in EvWindow, EvOne(w.changes), w.seq >= lastSeq,
         w.seq = lastSeq => EvAt(lastSeq) = Evidence!RowsOf(w),
         lastSeq' = IF w.seq > lastSeq THEN w.seq ELSE lastSeq,
         rows' = rows \cup {q \in Evidence!RowsOf(w) : ~\E r \in rows : Evidence!SameRow(r, q)}
  PROVE  lastSeq' = w.seq /\ EvAt(lastSeq)' = Evidence!RowsOf(w) /\ EvSaid(lastSeq)' = w.changes
<1>1. lastSeq \in 0..MaxWindows /\ w.seq \in 1..MaxWindows /\ rows \subseteq EvRow
  BY DEF EvTypes, EvWindow
<1>2. lastSeq' = w.seq
  BY <1>1
<1>3. EvAt(lastSeq)' = {r \in rows' : r.seq = w.seq}
  BY <1>2 DEF EvAt
<1>4. {r \in rows' : r.seq = w.seq} = Evidence!RowsOf(w)
  <2>1. CASE w.seq = lastSeq
    BY <2>1, EvRowSet DEF EvAt
  <2>2. CASE w.seq # lastSeq
    <3>1. ASSUME NEW r \in rows PROVE r.seq # w.seq
      <4>1. r.seq \in 1..MaxWindows /\ r.seq <= lastSeq
        BY <1>1 DEF EvRows, EvRow
      <4> QED
        BY <1>1, <2>2, <4>1
    <3>2. ASSUME NEW q \in Evidence!RowsOf(w) PROVE q.seq = w.seq /\ ~\E r \in rows : Evidence!SameRow(r, q)
      BY <3>1, EvRowSet DEF Evidence!SameRow
    <3> QED
      BY <3>1, <3>2
  <2> QED
    BY <2>1, <2>2
<1>5. EvSaid(lastSeq)' = {Evidence!Change(r.kind, r.key, r.old, r.new, r.attr) : r \in Evidence!RowsOf(w)}
  BY <1>3, <1>4 DEF EvSaid, Evidence!Change
<1>6. {Evidence!Change(r.kind, r.key, r.old, r.new, r.attr) : r \in Evidence!RowsOf(w)} = w.changes
  BY EvRowSet
<1> QED
  BY <1>2, <1>3, <1>4, <1>5, <1>6

\* The outbox without one of its windows.
LEMMA EvWithout ==
  ASSUME NEW s \in Seq(EvWindow), NEW i \in 1..Len(s)
  PROVE  /\ Evidence!RemoveAt(s, i) \in Seq(EvWindow)
         /\ Len(Evidence!RemoveAt(s, i)) = Len(s) - 1
         /\ \A j \in 1..Len(s) - 1 : Evidence!RemoveAt(s, i)[j] = s[IF j < i THEN j ELSE j + 1]
<1> DEFINE a == SubSeq(s, 1, i - 1)
           b == SubSeq(s, i + 1, Len(s))
<1>1. /\ a \in Seq(EvWindow) /\ Len(a) = i - 1 /\ \A j \in 1..i - 1 : a[j] = s[j]
  OBVIOUS
<1>2. /\ b \in Seq(EvWindow) /\ Len(b) = Len(s) - i /\ \A j \in 1..Len(s) - i : b[j] = s[i + j]
  OBVIOUS
<1>3. Evidence!RemoveAt(s, i) = a \o b
  BY DEF Evidence!RemoveAt
<1> HIDE DEF a, b
<1>4. /\ a \o b \in Seq(EvWindow) /\ Len(a \o b) = Len(s) - 1
      /\ \A j \in 1..Len(s) - 1 : (a \o b)[j] = IF j < i THEN a[j] ELSE b[j - (i - 1)]
  <2>1. Len(s) - 1 = (i - 1) + (Len(s) - i)
    OBVIOUS
  <2>2. /\ a \o b \in Seq(EvWindow) /\ Len(a \o b) = (i - 1) + (Len(s) - i)
        /\ \A j \in 1..(i - 1) + (Len(s) - i) : (a \o b)[j] = IF j <= i - 1 THEN a[j] ELSE b[j - (i - 1)]
    <3>1. /\ a \o b \in Seq(EvWindow) /\ Len(a \o b) = Len(a) + Len(b)
          /\ \A j \in 1..Len(a) + Len(b) : (a \o b)[j] = IF j <= Len(a) THEN a[j] ELSE b[j - Len(a)]
      BY <1>1, <1>2, ConcatProperties
    <3> QED
      BY <1>1, <1>2, <3>1
  <2>3. \A j \in 1..Len(s) - 1 : j < i <=> j <= i - 1
    OBVIOUS
  <2> QED
    BY <2>1, <2>2, <2>3
<1>5. ASSUME NEW j \in 1..Len(s) - 1 PROVE (a \o b)[j] = s[IF j < i THEN j ELSE j + 1]
  <2>1. CASE j < i
    BY <1>1, <1>4, <2>1
  <2>2. CASE ~(j < i)
    <3>1. j - (i - 1) \in 1..Len(s) - i /\ i + (j - (i - 1)) = j + 1
      BY <2>2
    <3>2. b[j - (i - 1)] = s[j + 1]
      BY <1>2, <3>1
    <3> QED
      BY <1>4, <2>2, <3>2
  <2> QED
    BY <2>1, <2>2
<1> QED
  BY <1>3, <1>4, <1>5

\* A number is what the window is built with.
LEMMA EvNumbered ==
  ASSUME NEW st, NEW s, NEW n, NEW f, NEW late, NEW w \in Evidence!BuildWindow(st, s, n, f, late)
  PROVE  w.seq = n
BY DEF Evidence!BuildWindow

\* What was true of a window stays true: facts are only added, and the truth
\* at the end is settled once.
LEMMA EvLater ==
  ASSUME facts \subseteq facts', pc = "over" => pc' = "over" /\ delta' = delta,
         NEW w, EvTruth(w, facts, pc, delta)
  PROVE  EvTruth(w, facts', pc', delta')
BY DEF EvTruth

\* A step that sends nothing leaves true what was sent.
LEMMA EvMailStays ==
  ASSUME EvMail, facts \subseteq facts', pc = "over" => pc' = "over" /\ delta' = delta, mail' = mail
  PROVE  EvMail'
<1> SUFFICES ASSUME NEW i \in 1..Len(mail) PROVE EvTruth(mail[i], facts', pc', delta')
  BY DEF EvMail
<1>1. EvTruth(mail[i], facts, pc, delta)
  BY DEF EvMail
<1> QED
  BY <1>1, EvLater

\* What the rows say, when they and the number stay.
LEMMA EvServerStays ==
  ASSUME UNCHANGED Evidence!server, facts \subseteq facts', pc = "over" => pc' = "over",
         EvRows, Evidence!NoFalseAccusation
  PROVE  EvRows' /\ Evidence!NoFalseAccusation' /\ EvAt(lastSeq)' = EvAt(lastSeq)
<1>1. rows' = rows /\ lastSeq' = lastSeq /\ completeness' = completeness /\ final' = final
  BY DEF Evidence!server
<1> QED
  BY <1>1 DEF EvRows, Evidence!NoFalseAccusation, Evidence!Change,
     Evidence!SameRow, EvAt

\* The machine changes.
LEMMA EvEditsStep == ASSUME EvInv, Evidence!Edits PROVE EvInv'
<1>1. /\ pc' = pc /\ file' = file /\ sending' = sending /\ mail' = mail /\ rows' = rows
      /\ lastSeq' = lastSeq /\ completeness' = completeness /\ final' = final
      /\ base' = base /\ facts' = facts /\ delta' = delta /\ used' = used /\ muddled' = muddled
  BY DEF Evidence!Edits, Evidence!server, Evidence!past
<1>2. soft' \in EvSoftware /\ svc' \in EvServices
  BY DEF Evidence!Edits, EvInv, EvTypes, EvSoftware, EvServices
<1>3. EvTypes'
  BY <1>1, <1>2 DEF EvInv, EvTypes
<1>4. EvBaseline' /\ EvRows'
  BY <1>1 DEF EvInv, EvBaseline, EvRows, Evidence!Empty, Evidence!SameRow
<1>5. EvMail'
  BY <1>1, EvMailStays DEF EvInv
<1>6. EvOrder'
  BY <1>1 DEF EvInv, EvOrder, EvAt, Evidence!RowsOf
<1>7. Evidence!NoFalseAccusation' /\ Evidence!ConfidentFinal'
  BY <1>1 DEF EvInv, Evidence!NoFalseAccusation, Evidence!ConfidentFinal,
     Evidence!Change
<1> QED
  BY <1>3, <1>4, <1>5, <1>6, <1>7 DEF EvInv

\* The snapshot at the grant.
LEMMA EvGrantStep == ASSUME EvInv, Evidence!GrantBaseline PROVE EvInv'
<1>1. /\ pc = "none" /\ pc' = "idle" /\ sending' = sending /\ mail' = mail /\ rows' = rows
      /\ lastSeq' = lastSeq /\ completeness' = completeness /\ final' = final /\ soft' = soft /\ svc' = svc
      /\ base' = [soft |-> soft, svc |-> svc] /\ facts' = facts /\ delta' = delta /\ used' = used
      /\ muddled' = muddled
  BY DEF Evidence!GrantBaseline, Evidence!machine, Evidence!server
<1>2. PICK faulty \in BOOLEAN : \E s \in Evidence!Snapshots(faulty) : file' = [baseline |-> s, seq |-> 0, digest |-> None]
  BY DEF Evidence!GrantBaseline
<1>3. PICK s \in Evidence!Snapshots(faulty) : file' = [baseline |-> s, seq |-> 0, digest |-> None]
  BY <1>2
<1>4. /\ s \in EvSnapshot
      /\ s.softHealth = "ok" => s.soft = soft
      /\ s.svcHealth = "ok" => s.svc = svc
  BY EvSnapshots DEF EvInv, EvTypes
<1>5. file'.baseline = s /\ file'.seq = 0 /\ base'.soft = soft /\ base'.svc = svc
  BY <1>1, <1>3
<1>6. EvTypes'
  BY <1>1, <1>4, <1>5 DEF EvInv, EvTypes
<1>10. EvBaseline'
  BY <1>1, <1>4, <1>5, Zenon DEF EvBaseline
<1>7. EvRows' /\ EvMail'
  BY <1>1, EvMailStays DEF EvInv, EvRows, Evidence!SameRow
<1>8. EvOrder'
  BY <1>1 DEF EvInv, EvOrder, EvAt, Evidence!RowsOf
<1>9. Evidence!NoFalseAccusation' /\ Evidence!ConfidentFinal'
  BY <1>1 DEF EvInv, Evidence!NoFalseAccusation, Evidence!ConfidentFinal,
     Evidence!Change
<1> QED
  BY <1>6, <1>7, <1>8, <1>9, <1>10 DEF EvInv

\* The number is saved.
LEMMA EvSaveStep == ASSUME EvInv, Evidence!SaveNumber PROVE EvInv'
<1>1. /\ pc \in {"save", "saveblind"} /\ pc' = "idle" /\ mail' = mail /\ rows' = rows
      /\ lastSeq' = lastSeq /\ completeness' = completeness /\ final' = final /\ soft' = soft /\ svc' = svc
      /\ base' = base /\ facts' = facts /\ delta' = delta /\ used' = used /\ muddled' = muddled
  BY DEF Evidence!SaveNumber, Evidence!machine, Evidence!server, Evidence!past
<1>2. /\ soft \in EvSoftware /\ svc \in EvServices /\ sending \in EvWindow
      /\ file.baseline \in EvSnapshot /\ file.seq \in Nat /\ base.soft \in EvSoftware /\ base.svc \in EvServices
  BY <1>1 DEF EvInv, EvTypes
<1>3. sending.seq \in Nat
  BY <1>2, EvidenceAssumption DEF EvWindow
<1>4. PICK b, n : /\ file'.baseline = b /\ b \in EvSnapshot /\ file'.seq = n /\ n \in Nat
                   /\ \/ b = file.baseline
                      \/ Evidence!Empty(b.soft) /\ Evidence!Empty(b.svc)
  <2>1. CASE file' = file
    BY <1>2, <2>1
  <2>2. CASE pc = "save" /\ file' = [baseline |-> file.baseline, seq |-> sending.seq, digest |-> Evidence!WindowDigest(sending)]
    BY <1>2, <1>3, <2>2
  <2> DEFINE nothing == [soft |-> Evidence!NothingOf(soft), softHealth |-> "ok", svc |-> Evidence!NothingOf(svc), svcHealth |-> "ok"]
  <2>3. CASE file' = [baseline |-> nothing, seq |-> sending.seq, digest |-> Evidence!WindowDigest(sending)]
    <3>1. DOMAIN soft = SoftwareKey /\ DOMAIN svc = Service
      BY <1>2 DEF EvSoftware, EvServices
    <3>2. Evidence!NothingOf(soft) \in EvSoftware /\ Evidence!NothingOf(svc) \in EvServices
      BY <3>1 DEF Evidence!NothingOf, EvSoftware, EvServices
    <3>3. nothing \in EvSnapshot
      BY <3>2 DEF EvSnapshot, EvHealth
    <3>4. Evidence!Empty(Evidence!NothingOf(soft)) /\ Evidence!Empty(Evidence!NothingOf(svc))
      BY DEF Evidence!NothingOf, Evidence!Empty
    <3> QED
      BY <1>3, <2>3, <3>3, <3>4
  <2> QED
    BY <1>1, <2>1, <2>2, <2>3 DEF Evidence!SaveNumber
<1>5. EvTypes'
  BY <1>1, <1>2, <1>4 DEF EvInv, EvTypes
<1>6. EvBaseline'
  <2>1. CASE b = file.baseline
    BY <1>1, <1>4, <2>1 DEF EvInv, EvBaseline
  <2>2. CASE Evidence!Empty(b.soft) /\ Evidence!Empty(b.svc)
    BY <1>4, <2>2, Zenon DEF EvBaseline
  <2> QED
    BY <1>4, <2>1, <2>2
<1>7. EvMail'
  BY <1>1, EvMailStays DEF EvInv
<1>8. EvRows' /\ EvOrder'
  BY <1>1 DEF EvInv, EvRows, Evidence!SameRow, EvOrder, EvAt, Evidence!RowsOf
<1>9. Evidence!NoFalseAccusation' /\ Evidence!ConfidentFinal'
  BY <1>1 DEF EvInv, Evidence!NoFalseAccusation, Evidence!ConfidentFinal,
     Evidence!Change
<1> QED
  BY <1>5, <1>6, <1>7, <1>8, <1>9 DEF EvInv

\* A window leaves the outbox.
LEMMA EvEvictStep ==
  ASSUME EvInv, NEW i \in DOMAIN mail, Evidence!Evict(i)
  PROVE  EvInv'
<1>1. /\ mail' = Evidence!RemoveAt(mail, i) /\ pc' = pc /\ file' = file /\ sending' = sending
      /\ rows' = rows /\ lastSeq' = lastSeq /\ completeness' = completeness /\ final' = final
      /\ soft' = soft /\ svc' = svc /\ base' = base /\ facts' = facts /\ delta' = delta
      /\ used' = used /\ muddled' = muddled
  BY DEF Evidence!Evict, Evidence!machine, Evidence!server, Evidence!past
<1>2. mail \in Seq(EvWindow) /\ Len(mail) \in Nat /\ i \in 1..Len(mail)
  BY DEF EvInv, EvTypes
<1> DEFINE from(j) == IF j < i THEN j ELSE j + 1
<1>3. /\ mail' \in Seq(EvWindow) /\ Len(mail') = Len(mail) - 1
      /\ \A j \in 1..Len(mail') : mail'[j] = mail[from(j)]
  BY <1>1, <1>2, EvWithout
<1>4. /\ \A j \in 1..Len(mail') : from(j) \in 1..Len(mail)
      /\ \A j, k \in 1..Len(mail') : j < k => from(j) < from(k)
  BY <1>2, <1>3
<1> HIDE DEF from
<1>5. EvTypes' /\ EvBaseline'
  BY <1>1, <1>3 DEF EvInv, EvTypes, EvBaseline
<1>6. EvRows'
  BY <1>1 DEF EvInv, EvRows, Evidence!SameRow
<1>7. Evidence!NoFalseAccusation' /\ Evidence!ConfidentFinal'
  BY <1>1 DEF EvInv, Evidence!NoFalseAccusation, Evidence!ConfidentFinal,
     Evidence!Change
<1>8. EvMail'
  BY <1>1, <1>3, <1>4 DEF EvInv, EvMail
<1>9. EvOrder'
  <2>1. SUFFICES ASSUME ~muddled PROVE EvOrder'
    BY <1>1 DEF EvOrder
  <2>2. EvAt(lastSeq)' = EvAt(lastSeq)
    BY <1>1 DEF EvAt
  <2>3. ASSUME NEW j \in 1..Len(mail')
        PROVE  /\ mail'[j].seq <= used
               /\ mail'[j].final => mail'[j].seq = used
               /\ mail'[j].seq = lastSeq =>
                    EvAt(lastSeq) = Evidence!RowsOf(mail'[j]) /\ completeness = mail'[j].completeness
    BY <1>3, <1>4, <2>1 DEF EvInv, EvOrder
  <2>4. ASSUME NEW j \in 1..Len(mail'), NEW k \in 1..Len(mail'), j < k PROVE mail'[j].seq < mail'[k].seq
    BY <1>3, <1>4, <2>1, <2>4 DEF EvInv, EvOrder
  <2>5. lastSeq <= used /\ (final => lastSeq = used)
    BY <2>1 DEF EvInv, EvOrder
  <2>6. \A x : Evidence!RowsOf(x)' = Evidence!RowsOf(x)
    BY DEF Evidence!RowsOf
  <2> QED
    BY <1>1, <2>2, <2>3, <2>4, <2>5 DEF EvOrder, Evidence!RowsOf
<1> QED
  BY <1>5, <1>6, <1>7, <1>8, <1>9 DEF EvInv

\* The server takes the window at the head of the outbox.
LEMMA EvDeliverStep == ASSUME EvInv, Evidence!Deliver PROVE EvInv'
<1>1. /\ pc' = pc /\ file' = file /\ sending' = sending
      /\ soft' = soft /\ svc' = svc /\ base' = base /\ facts' = facts /\ delta' = delta
      /\ used' = used /\ muddled' = (muddled \/ Head(mail).seq < lastSeq)
      /\ mail # <<>> /\ Evidence!AcceptAdminSessionWindow(Head(mail))
      /\ mail' = mail \/ mail' = Tail(mail)
  BY DEF Evidence!Deliver, Evidence!machine, Evidence!past
<1>2. mail \in Seq(EvWindow) /\ Len(mail) \in Nat /\ 1 \in 1..Len(mail) /\ Head(mail) = mail[1]
  BY <1>1 DEF EvInv, EvTypes
<1>3. PICK w \in EvWindow : w = mail[1]
  BY <1>2
<1>4. PICK n \in {0, 1} : /\ mail' \in Seq(EvWindow) /\ Len(mail') = Len(mail) - n
                          /\ \A j \in 1..Len(mail') : j + n \in 1..Len(mail) /\ mail'[j] = mail[j + n]
  <2>1. CASE mail' = mail
    BY <1>2, <2>1
  <2>2. CASE mail' = Tail(mail)
    BY <1>1, <1>2, <2>2
  <2> QED
    BY <1>1, <2>1, <2>2
<1>5. EvTruth(w, facts, pc, delta)
  BY <1>2, <1>3 DEF EvInv, EvMail
<1>6. /\ w.seq \in 1..MaxWindows /\ lastSeq \in 0..MaxWindows /\ used \in 0..MaxWindows
      /\ final \in BOOLEAN /\ muddled \in BOOLEAN /\ w.final \in BOOLEAN
  BY <1>3 DEF EvInv, EvTypes, EvWindow
<1>7. /\ rows' \subseteq EvRow /\ lastSeq' \in 0..MaxWindows /\ final' \in BOOLEAN
      /\ EvRows' /\ Evidence!NoFalseAccusation'
      /\ \/ UNCHANGED <<rows, lastSeq, completeness, final>>
         \/ /\ lastSeq' = IF w.seq > lastSeq THEN w.seq ELSE lastSeq
            /\ completeness' = w.completeness /\ final' = (final \/ w.final)
            /\ rows' = rows \cup {q \in Evidence!RowsOf(w) : ~\E r \in rows : Evidence!SameRow(r, q)}
  <2>1. /\ facts \subseteq facts' /\ EvOne(w.changes)
        /\ \A c \in w.changes : c.attr # "unknown" => c \in facts'
        /\ w.final => pc' = "over"
        /\ pc = "over" => pc' = "over"
    BY <1>1, <1>5 DEF EvTruth
  <2>2. Evidence!AcceptAdminSessionWindow(w)
    BY <1>1, <1>2, <1>3
  <2>3. EvTypes /\ EvRows /\ Evidence!NoFalseAccusation
    BY DEF EvInv
  <2> QED
    BY <2>1, <2>2, <2>3, EvAccepted
<1>8. EvTypes' /\ EvBaseline'
  BY <1>1, <1>4, <1>6, <1>7 DEF EvInv, EvTypes, EvBaseline
<1>9. EvMail'
  BY <1>1, <1>4 DEF EvInv, EvMail
<1>10. ASSUME ~muddled' PROVE ~muddled /\ w.seq >= lastSeq
  <2>1. Head(mail) = w
    BY <1>2, <1>3
  <2>2. ~muddled /\ ~(w.seq < lastSeq)
    BY <1>1, <1>10, <2>1, Zenon
  <2> QED
    BY <1>6, <2>2
<1>11. ASSUME ~muddled
       PROVE  /\ lastSeq <= used
              /\ \A i \in 1..Len(mail) :
                   /\ mail[i].seq <= used
                   /\ mail[i].final => mail[i].seq = used
                   /\ mail[i].seq = lastSeq =>
                        EvAt(lastSeq) = Evidence!RowsOf(mail[i]) /\ completeness = mail[i].completeness
              /\ \A i, j \in 1..Len(mail) : i < j => mail[i].seq < mail[j].seq
              /\ final => lastSeq = used
  BY <1>11 DEF EvInv, EvOrder
<1>12. EvOrder' /\ Evidence!ConfidentFinal'
  <2>1. CASE UNCHANGED <<rows, lastSeq, completeness, final>>
    <3>1. Evidence!ConfidentFinal'
      BY <1>1, <1>10, <2>1 DEF EvInv, Evidence!ConfidentFinal, Evidence!Change
    <3>2. ASSUME ~muddled' PROVE EvOrder'
      <4>1. /\ \A j \in 1..Len(mail') :
                 /\ mail'[j].seq <= used
                 /\ mail'[j].final => mail'[j].seq = used
                 /\ mail'[j].seq = lastSeq =>
                      EvAt(lastSeq) = Evidence!RowsOf(mail'[j]) /\ completeness = mail'[j].completeness
            /\ lastSeq <= used /\ (final => lastSeq = used)
        <5>1. /\ \A i \in 1..Len(mail) :
                   /\ mail[i].seq <= used
                   /\ mail[i].final => mail[i].seq = used
                   /\ mail[i].seq = lastSeq =>
                        EvAt(lastSeq) = Evidence!RowsOf(mail[i]) /\ completeness = mail[i].completeness
              /\ lastSeq <= used /\ (final => lastSeq = used)
          BY <1>10, <1>11, <3>2
        <5>2. ASSUME NEW j \in 1..Len(mail')
              PROVE  /\ mail'[j].seq <= used
                     /\ mail'[j].final => mail'[j].seq = used
                     /\ mail'[j].seq = lastSeq =>
                          EvAt(lastSeq) = Evidence!RowsOf(mail'[j]) /\ completeness = mail'[j].completeness
          <6>1. j + n \in 1..Len(mail) /\ mail'[j] = mail[j + n]
            BY <1>4
          <6> QED
            BY <5>1, <6>1, Zenon
        <5> QED
          BY <5>1, <5>2, Zenon
      <4>2. \A j, k \in 1..Len(mail') : j < k => mail'[j].seq < mail'[k].seq
        BY <1>2, <1>4, <1>10, <1>11, <3>2
      <4> QED
        BY <1>1, <2>1, <4>1, <4>2 DEF EvOrder, EvAt, Evidence!RowsOf
    <3> QED
      BY <3>1, <3>2 DEF EvOrder
  <2>2. CASE /\ lastSeq' = IF w.seq > lastSeq THEN w.seq ELSE lastSeq
             /\ completeness' = w.completeness /\ final' = (final \/ w.final)
             /\ rows' = rows \cup {q \in Evidence!RowsOf(w) : ~\E r \in rows : Evidence!SameRow(r, q)}
    <3>1. SUFFICES ASSUME ~muddled' PROVE EvOrder' /\ Evidence!ConfidentFinal'
      BY DEF EvOrder, Evidence!ConfidentFinal
    <3>2. /\ ~muddled /\ w.seq >= lastSeq /\ w.seq <= used
          /\ w.seq = lastSeq => EvAt(lastSeq) = Evidence!RowsOf(w) /\ completeness = w.completeness
          /\ w.final => w.seq = used
          /\ final => lastSeq = used
      BY <1>2, <1>3, <1>10, <1>11, <3>1
    <3>3. lastSeq' = w.seq /\ EvAt(lastSeq)' = Evidence!RowsOf(w) /\ EvSaid(lastSeq)' = w.changes
      <4>1. EvTypes /\ EvRows /\ EvOne(w.changes)
        BY <1>5 DEF EvInv, EvTruth
      <4> QED
        BY <2>2, <3>2, <4>1, EvSays
    <3>4. ASSUME NEW j \in 1..Len(mail'), mail'[j].seq = w.seq PROVE mail'[j] = w
      <4>1. j + n \in 1..Len(mail) /\ mail'[j] = mail[j + n]
        BY <1>4
      <4>2. ~(1 < j + n)
        BY <1>2, <1>3, <1>11, <3>2, <3>4, <4>1, <1>6
      <4> QED
        BY <1>2, <1>3, <4>1, <4>2
    <3>5. \A j \in 1..Len(mail') : mail'[j].seq <= used /\ (mail'[j].final => mail'[j].seq = used)
      BY <1>4, <1>11, <3>2
    <3>6. \A j, k \in 1..Len(mail') : j < k => mail'[j].seq < mail'[k].seq
      BY <1>2, <1>4, <1>11, <3>2
    <3>7. final' => lastSeq' = used
      BY <1>6, <2>2, <3>2, <3>3
    <3>8. EvOrder'
      BY <1>1, <2>2, <3>2, <3>3, <3>4, <3>5, <3>6, <3>7 DEF EvOrder,
         Evidence!RowsOf
    <3>9. Evidence!ConfidentFinal'
      <4>1. SUFFICES ASSUME final', completeness' = "complete" PROVE EvSaid(lastSeq)' \in delta
        BY <1>1, <3>1 DEF Evidence!ConfidentFinal, EvSaid, EvAt,
           Evidence!Change
      <4>2. CASE w.final
        BY <1>5, <2>2, <3>3, <4>1, <4>2 DEF EvTruth
      <4>3. CASE ~w.final
        <5>1. final /\ lastSeq = used /\ w.seq = lastSeq
          BY <1>6, <2>2, <3>2, <4>1, <4>3
        <5>2. completeness = "complete" /\ EvAt(lastSeq) = Evidence!RowsOf(w)
          BY <2>2, <3>2, <4>1, <5>1
        <5>3. EvSaid(lastSeq) \in delta
          BY <3>2, <5>1, <5>2 DEF EvInv, Evidence!ConfidentFinal, EvSaid, EvAt,
             Evidence!Change
        <5>4. EvSaid(lastSeq)' = EvSaid(lastSeq)
          BY <3>3, <5>2 DEF EvSaid, Evidence!Change
        <5> QED
          BY <5>3, <5>4
      <4> QED
        BY <4>2, <4>3
    <3> QED
      BY <3>8, <3>9
  <2> QED
    BY <1>7, <2>1, <2>2
<1> QED
  BY <1>7, <1>8, <1>9, <1>12 DEF EvInv

\* What a step of emitWindow builds, and what it leaves alone.
LEMMA EvEmitted ==
  ASSUME EvInv, NEW isFinal \in BOOLEAN, NEW late \in BOOLEAN, NEW luck \in Evidence!Luck,
         Evidence!EmitWindow(isFinal, late, luck)
  PROVE  \E w \in EvWindow :
           /\ w.final = isFinal /\ EvTruth(w, facts', pc', delta')
           /\ \/ /\ pc' = (IF isFinal THEN "over" ELSE "idle")
                 /\ UNCHANGED <<sending, mail, rows, lastSeq, completeness, final, muddled, used>>
              \/ /\ mail' = Append(mail, w) /\ sending' = IF isFinal THEN None ELSE w
                 /\ pc' \in IF isFinal THEN {"over"} ELSE {"save", "saveblind"}
                 /\ muddled' = (muddled \/ w.seq <= used) /\ used' = w.seq
                 /\ UNCHANGED <<rows, lastSeq, completeness, final>>
              \/ /\ isFinal /\ Evidence!AcceptAdminSessionWindow(w) /\ pc' = "over"
                 /\ muddled' = (muddled \/ w.seq <= used) /\ used' = w.seq
                 /\ UNCHANGED <<sending, mail>>
<1> DEFINE dark == luck = "blind"
           st == IF dark THEN None ELSE file.baseline
           faulty == luck = "snapshot"
<1>1. PICK s \in Evidence!Snapshots(faulty) :
        \E w \in Evidence!BuildWindow(st, s, Evidence!Number(dark), isFinal, late) :
          /\ w.seq <= MaxWindows
          /\ \/ /\ pc' = (IF isFinal THEN "over" ELSE "idle")
                /\ UNCHANGED <<sending, mail, rows, lastSeq, completeness, final, muddled, used>>
             \/ /\ mail' = Append(mail, w) /\ sending' = IF isFinal THEN None ELSE w
                /\ pc' \in IF isFinal THEN {"over"} ELSE {"save", "saveblind"}
                /\ muddled' = (muddled \/ w.seq <= used) /\ used' = w.seq
                /\ UNCHANGED <<rows, lastSeq, completeness, final>>
             \/ /\ isFinal /\ Evidence!AcceptAdminSessionWindow(w) /\ pc' = "over"
                /\ muddled' = (muddled \/ w.seq <= used) /\ used' = w.seq
                /\ UNCHANGED <<sending, mail>>
  BY DEF Evidence!EmitWindow, Evidence!server
<1>2. PICK w \in Evidence!BuildWindow(st, s, Evidence!Number(dark), isFinal, late) :
        /\ w.seq <= MaxWindows
        /\ \/ /\ pc' = (IF isFinal THEN "over" ELSE "idle")
              /\ UNCHANGED <<sending, mail, rows, lastSeq, completeness, final, muddled, used>>
           \/ /\ mail' = Append(mail, w) /\ sending' = IF isFinal THEN None ELSE w
              /\ pc' \in IF isFinal THEN {"over"} ELSE {"save", "saveblind"}
              /\ muddled' = (muddled \/ w.seq <= used) /\ used' = w.seq
              /\ UNCHANGED <<rows, lastSeq, completeness, final>>
           \/ /\ isFinal /\ Evidence!AcceptAdminSessionWindow(w) /\ pc' = "over"
              /\ muddled' = (muddled \/ w.seq <= used) /\ used' = w.seq
              /\ UNCHANGED <<sending, mail>>
  BY <1>1
<1>3. /\ pc = "idle" /\ facts' = facts \cup UNION Evidence!TrueChanges
      /\ delta' = IF isFinal THEN Evidence!TrueChanges ELSE delta
  BY DEF Evidence!EmitWindow
<1>4. /\ soft \in EvSoftware /\ svc \in EvServices /\ base.soft \in EvSoftware /\ base.svc \in EvServices
      /\ file.baseline \in EvSnapshot /\ file.seq \in Nat
  BY <1>3 DEF EvInv, EvTypes
<1>5. /\ file.baseline.softHealth = "ok" => file.baseline.soft = base.soft \/ Evidence!Empty(file.baseline.soft)
      /\ file.baseline.svcHealth = "ok" => file.baseline.svc = base.svc \/ Evidence!Empty(file.baseline.svc)
  BY <1>3 DEF EvInv, EvBaseline
<1>6. Evidence!Number(dark) \in 1..MaxWindows
  <2>1. w.seq = Evidence!Number(dark)
    BY EvNumbered
  <2>2. Evidence!Number(dark) \in Nat \ {0}
    BY <1>4 DEF Evidence!Number
  <2> QED
    BY <1>2, <2>1, <2>2, EvidenceAssumption
<1>7. /\ st # None => st \in EvSnapshot
      /\ st # None /\ st.softHealth = "ok" => st.soft = base.soft \/ Evidence!Empty(st.soft)
      /\ st # None /\ st.svcHealth = "ok" => st.svc = base.svc \/ Evidence!Empty(st.svc)
  BY <1>4, <1>5
<1> HIDE DEF st, dark, faulty
<1>8. /\ w \in EvWindow /\ w.final = isFinal /\ EvOne(w.changes)
      /\ \A c \in w.changes : c.attr # "unknown" => c \in UNION Evidence!TrueChanges
      /\ w.completeness = "complete" => w.changes \in Evidence!TrueChanges
  <2>1. faulty \in BOOLEAN
    BY DEF faulty
  <2> QED
    BY <1>4, <1>6, <1>7, <2>1, EvBuilt
<1>9. EvTruth(w, facts', pc', delta')
  <2>1. isFinal => pc' = "over"
    BY <1>2
  <2> QED
    BY <1>3, <1>8, <2>1 DEF EvTruth
<1> QED
  BY <1>2, <1>8, <1>9

\* A window is built, and goes into the outbox, to the server, or nowhere.
LEMMA EvEmitStep ==
  ASSUME EvInv, NEW isFinal \in BOOLEAN, NEW late \in BOOLEAN, NEW luck \in Evidence!Luck,
         Evidence!EmitWindow(isFinal, late, luck)
  PROVE  EvInv'
<1>1. /\ soft' = soft /\ svc' = svc /\ file' = file /\ base' = base /\ pc = "idle"
      /\ facts \subseteq facts'
  BY DEF Evidence!EmitWindow, Evidence!machine
<1>2. PICK w \in EvWindow :
           /\ w.final = isFinal /\ EvTruth(w, facts', pc', delta')
           /\ \/ /\ pc' = (IF isFinal THEN "over" ELSE "idle")
                 /\ UNCHANGED <<sending, mail, rows, lastSeq, completeness, final, muddled, used>>
              \/ /\ mail' = Append(mail, w) /\ sending' = IF isFinal THEN None ELSE w
                 /\ pc' \in IF isFinal THEN {"over"} ELSE {"save", "saveblind"}
                 /\ muddled' = (muddled \/ w.seq <= used) /\ used' = w.seq
                 /\ UNCHANGED <<rows, lastSeq, completeness, final>>
              \/ /\ isFinal /\ Evidence!AcceptAdminSessionWindow(w) /\ pc' = "over"
                 /\ muddled' = (muddled \/ w.seq <= used) /\ used' = w.seq
                 /\ UNCHANGED <<sending, mail>>
  BY EvEmitted
<1>3. /\ w.seq \in 1..MaxWindows /\ lastSeq \in 0..MaxWindows /\ used \in 0..MaxWindows
      /\ final \in BOOLEAN /\ muddled \in BOOLEAN /\ mail \in Seq(EvWindow) /\ Len(mail) \in Nat
      /\ EvOne(w.changes)
  BY <1>2 DEF EvInv, EvTypes, EvWindow, EvTruth
<1>4. ~final /\ \A i \in 1..Len(mail) : ~mail[i].final
  BY <1>1, <1>3 DEF EvInv, EvRows, EvMail, EvTruth
<1>5. ASSUME ~muddled
      PROVE  /\ lastSeq <= used
             /\ \A i \in 1..Len(mail) :
                  /\ mail[i].seq <= used
                  /\ mail[i].seq = lastSeq =>
                       EvAt(lastSeq) = Evidence!RowsOf(mail[i]) /\ completeness = mail[i].completeness
             /\ \A i, j \in 1..Len(mail) : i < j => mail[i].seq < mail[j].seq
  BY <1>5 DEF EvInv, EvOrder
<1>6. \A i \in 1..Len(mail) : mail[i].seq \in 1..MaxWindows
  <2>1. \A i \in 1..Len(mail) : mail[i] \in EvWindow
    BY <1>3
  <2> QED
    BY <2>1 DEF EvWindow
<1>7. CASE /\ pc' = (IF isFinal THEN "over" ELSE "idle")
           /\ UNCHANGED <<sending, mail, rows, lastSeq, completeness, final, muddled, used>>
  <2>1. EvTypes' /\ EvBaseline'
    BY <1>1, <1>7 DEF EvInv, EvTypes, EvBaseline
  <2>2. EvMail'
    BY <1>1, <1>7, EvMailStays DEF EvInv
  <2>3. EvRows' /\ Evidence!NoFalseAccusation' /\ EvAt(lastSeq)' = EvAt(lastSeq)
    BY <1>1, <1>7, EvServerStays DEF EvInv, Evidence!server
  <2>4. EvOrder'
    BY <1>4, <1>5, <1>7, <2>3 DEF EvOrder, Evidence!RowsOf
  <2>5. Evidence!ConfidentFinal'
    BY <1>4, <1>7 DEF Evidence!ConfidentFinal
  <2> QED
    BY <2>1, <2>2, <2>3, <2>4, <2>5 DEF EvInv
<1>8. CASE /\ mail' = Append(mail, w) /\ sending' = IF isFinal THEN None ELSE w
           /\ pc' \in IF isFinal THEN {"over"} ELSE {"save", "saveblind"}
           /\ muddled' = (muddled \/ w.seq <= used) /\ used' = w.seq
           /\ UNCHANGED <<rows, lastSeq, completeness, final>>
  <2>1. /\ mail' \in Seq(EvWindow) /\ Len(mail') = Len(mail) + 1 /\ mail'[Len(mail) + 1] = w
        /\ \A i \in 1..Len(mail) : mail'[i] = mail[i]
        /\ \A i \in 1..Len(mail') : i \in 1..Len(mail) \/ i = Len(mail) + 1
    BY <1>2, <1>3, <1>8
  <2>2. EvTypes' /\ EvBaseline'
    <3>1. pc' \in {"save", "saveblind", "over"} /\ (pc' \in {"save", "saveblind"} => sending' = w)
      BY <1>2, <1>8
    <3> QED
      BY <1>1, <1>2, <1>3, <1>8, <2>1, <3>1 DEF EvInv, EvTypes, EvBaseline
  <2>3. EvMail'
    <3>1. ASSUME NEW i \in 1..Len(mail') PROVE EvTruth(mail'[i], facts', pc', delta')
      <4>1. CASE i \in 1..Len(mail)
        <5>1. EvTruth(mail[i], facts, pc, delta)
          BY <4>1 DEF EvInv, EvMail
        <5>2. EvTruth(mail[i], facts', pc', delta')
          BY <1>1, <5>1, EvLater
        <5> QED
          BY <2>1, <4>1, <5>2
      <4>2. CASE i = Len(mail) + 1
        BY <1>2, <2>1, <4>2
      <4> QED
        BY <2>1, <4>1, <4>2
    <3> QED
      BY <3>1 DEF EvMail
  <2>4. EvRows' /\ Evidence!NoFalseAccusation' /\ EvAt(lastSeq)' = EvAt(lastSeq)
    BY <1>1, <1>8, EvServerStays DEF EvInv, Evidence!server
  <2>5. EvOrder'
    <3>1. SUFFICES ASSUME ~muddled' PROVE EvOrder'
      BY DEF EvOrder
    <3>2. ~muddled /\ w.seq > used
      <4>1. ~muddled /\ ~(w.seq <= used)
        BY <1>8, <3>1, Zenon
      <4> QED
        BY <1>3, <4>1
    <3>3. \A i \in 1..Len(mail') : mail'[i].seq <= w.seq
      BY <1>3, <1>5, <1>6, <2>1, <3>2
    <3>4. \A i \in 1..Len(mail') : mail'[i].final => mail'[i].seq = w.seq
      BY <1>4, <2>1
    <3>5. ASSUME NEW i \in 1..Len(mail'), mail'[i].seq = lastSeq
          PROVE  EvAt(lastSeq) = Evidence!RowsOf(mail'[i]) /\ completeness = mail'[i].completeness
      <4>1. i # Len(mail) + 1
        BY <1>3, <1>5, <2>1, <3>2, <3>5
      <4> QED
        BY <1>5, <2>1, <3>2, <3>5, <4>1
    <3>6. \A i, j \in 1..Len(mail') : i < j => mail'[i].seq < mail'[j].seq
      BY <1>3, <1>5, <1>6, <2>1, <3>2
    <3>7. lastSeq <= w.seq
      BY <1>3, <1>5, <3>2
    <3> QED
      BY <1>4, <1>8, <2>4, <3>3, <3>4, <3>5, <3>6, <3>7 DEF EvOrder,
         Evidence!RowsOf
  <2>6. Evidence!ConfidentFinal'
    BY <1>4, <1>8 DEF Evidence!ConfidentFinal
  <2> QED
    BY <2>2, <2>3, <2>4, <2>5, <2>6 DEF EvInv
<1>9. CASE /\ isFinal /\ Evidence!AcceptAdminSessionWindow(w) /\ pc' = "over"
           /\ muddled' = (muddled \/ w.seq <= used) /\ used' = w.seq
           /\ UNCHANGED <<sending, mail>>
  <2>1. /\ rows' \subseteq EvRow /\ lastSeq' \in 0..MaxWindows /\ final' \in BOOLEAN
        /\ EvRows' /\ Evidence!NoFalseAccusation'
        /\ \/ UNCHANGED <<rows, lastSeq, completeness, final>>
           \/ /\ lastSeq' = IF w.seq > lastSeq THEN w.seq ELSE lastSeq
              /\ completeness' = w.completeness /\ final' = (final \/ w.final)
              /\ rows' = rows \cup {q \in Evidence!RowsOf(w) : ~\E r \in rows : Evidence!SameRow(r, q)}
    <3>1. /\ EvTypes /\ EvRows /\ Evidence!NoFalseAccusation
          /\ \A c \in w.changes : c.attr # "unknown" => c \in facts'
      BY <1>2 DEF EvInv, EvTruth
    <3> QED
      BY <1>1, <1>2, <1>3, <1>9, <3>1, EvAccepted
  <2>2. EvTypes' /\ EvBaseline'
    BY <1>1, <1>3, <1>9, <2>1 DEF EvInv, EvTypes, EvBaseline
  <2>3. EvMail'
    BY <1>1, <1>9, EvMailStays DEF EvInv
  <2>4. EvOrder' /\ Evidence!ConfidentFinal'
    <3>1. SUFFICES ASSUME ~muddled' PROVE EvOrder' /\ Evidence!ConfidentFinal'
      BY DEF EvOrder, Evidence!ConfidentFinal
    <3>2. ~muddled /\ w.seq > used /\ w.seq > lastSeq /\ lastSeq <= used
      <4>1. ~muddled /\ w.seq > used
        <5>1. ~muddled /\ ~(w.seq <= used)
          BY <1>9, <3>1, Zenon
        <5> QED
          BY <1>3, <5>1
      <4> QED
        BY <1>3, <1>5, <4>1
    <3>3. \A i \in 1..Len(mail) : mail[i].seq < w.seq
      BY <1>3, <1>5, <1>6, <3>2
    <3>4. CASE UNCHANGED <<rows, lastSeq, completeness, final>>
      <4>1. EvAt(lastSeq)' = EvAt(lastSeq)
        BY <3>4 DEF EvAt
      <4>2. \A i \in 1..Len(mail) : mail[i].seq <= w.seq
        BY <1>3, <1>6, <3>3
      <4>3. lastSeq <= w.seq
        BY <1>3, <3>2
      <4> QED
        BY <1>4, <1>5, <1>9, <3>2, <3>4, <4>1, <4>2, <4>3 DEF EvOrder,
           Evidence!RowsOf, Evidence!ConfidentFinal
    <3>5. CASE /\ lastSeq' = IF w.seq > lastSeq THEN w.seq ELSE lastSeq
               /\ completeness' = w.completeness /\ final' = (final \/ w.final)
               /\ rows' = rows \cup {q \in Evidence!RowsOf(w) : ~\E r \in rows : Evidence!SameRow(r, q)}
      <4>1. lastSeq' = w.seq /\ EvSaid(lastSeq)' = w.changes
        <5>1. w.seq >= lastSeq /\ w.seq # lastSeq /\ EvTypes /\ EvRows
          BY <1>3, <3>2 DEF EvInv
        <5> QED
          BY <1>3, <3>5, <5>1, EvSays
      <4>2. \A i \in 1..Len(mail) : mail[i].seq <= w.seq /\ mail[i].seq # w.seq
        BY <1>3, <1>6, <3>3
      <4>3. EvOrder'
        BY <1>3, <1>4, <1>5, <1>9, <3>2, <4>1, <4>2 DEF EvOrder
      <4>4. w.completeness = "complete" => w.changes \in delta'
        BY <1>2, <1>9 DEF EvTruth
      <4> QED
        BY <3>5, <4>1, <4>3, <4>4 DEF Evidence!ConfidentFinal, EvSaid, EvAt,
           Evidence!Change
    <3> QED
      BY <2>1, <3>4, <3>5
  <2> QED
    BY <2>1, <2>2, <2>3, <2>4 DEF EvInv
<1> QED
  BY <1>2, <1>7, <1>8, <1>9

\* At the start nothing was told.
LEMMA EvInitInv == ASSUME Evidence!Init PROVE EvInv
<1>1. /\ soft = Installed /\ svc = RunningService /\ pc = "none" /\ mail = <<>> /\ rows = {}
      /\ lastSeq = 0 /\ final = FALSE /\ used = 0 /\ muddled = FALSE
  BY DEF Evidence!Init
<1>2. EvTypes
  <2>1. soft \in EvSoftware /\ svc \in EvServices /\ 0 \in 0..MaxWindows
    BY <1>1, EvidenceAssumption DEF EvSoftware, EvServices
  <2>2. /\ <<>> \in Seq(EvWindow) /\ {} \subseteq EvRow
        /\ final \in BOOLEAN /\ muddled \in BOOLEAN
    <3>1. <<>> \in Seq(EvWindow)
      OBVIOUS
    <3>2. final \in BOOLEAN /\ muddled \in BOOLEAN
      BY <1>1
    <3> QED
      BY <3>1, <3>2
  <2> QED
    BY <1>1, <2>1, <2>2 DEF EvTypes
<1> QED
  BY <1>1, <1>2 DEF EvInv, EvBaseline, EvMail, EvRows, EvOrder,
     Evidence!NoFalseAccusation, Evidence!ConfidentFinal

\* Every step keeps the invariant.
LEMMA EvNextInv == ASSUME EvInv, Evidence!Next PROVE EvInv'
BY EvEditsStep, EvGrantStep, EvEmitStep, EvSaveStep, EvDeliverStep, EvEvictStep
   DEF Evidence!Next

\* A step of another part leaves this one alone.
LEMMA EvPartStep ==
  ASSUME part = "evidence" => EvInv, [PartNext]_<<part, vars, cells>>
  PROVE  (part = "evidence" => EvInv)'
<1>1. part' = part
  BY ConsolePartStays
<1>2. CASE UNCHANGED <<part, vars, cells>>
  <2>1. /\ soft' = soft /\ svc' = svc /\ file' = file /\ base' = base /\ pc' = pc
        /\ facts' = facts /\ delta' = delta /\ sending' = sending /\ mail' = mail /\ rows' = rows
        /\ lastSeq' = lastSeq /\ completeness' = completeness /\ final' = final
        /\ used' = used /\ muddled' = muddled
    BY <1>2 DEF cells, inEvidence, shared
  <2>2. ASSUME EvInv PROVE EvInv'
    <3>1. EvTypes' /\ EvBaseline' /\ EvRows'
      BY <2>1, <2>2 DEF EvInv, EvTypes, EvBaseline, EvRows, Evidence!SameRow
    <3>2. EvMail'
      BY <2>1, <2>2, EvMailStays DEF EvInv
    <3>3. EvOrder' /\ Evidence!NoFalseAccusation' /\ Evidence!ConfidentFinal'
      BY <2>1, <2>2 DEF EvInv, EvOrder, EvAt, Evidence!RowsOf,
         Evidence!NoFalseAccusation, Evidence!ConfidentFinal, Evidence!Change
    <3> QED
      BY <3>1, <3>2, <3>3 DEF EvInv
  <2> QED
    BY <1>1, <2>2
<1>3. CASE PartNext
  <2>1. part = "evidence" => Evidence!Next
    BY <1>3 DEF PartNext
  <2> QED
    BY <1>1, <2>1, EvNextInv
<1> QED
  BY <1>2, <1>3

(* What the invariant of the evidence says holds of every run.             *)
THEOREM EvidenceInvariant == PartSpec => [](part = "evidence" => EvInv)
<1>1. PartInit => (part = "evidence" => EvInv)
  BY EvInitInv DEF PartInit
<1>2. (part = "evidence" => EvInv) /\ [PartNext]_<<part, vars, cells>> => (part = "evidence" => EvInv)'
  BY EvPartStep
<1> QED
  BY <1>1, <1>2, PTL DEF PartSpec

(* No row accuses a person, or the background, of what was not so, and a   *)
(* final window that reads complete is exactly what changed (AdminEvidence:*)
(* emitWindow, BuildWindow, AcceptAdminSessionWindow).                     *)
THEOREM EvidenceHolds == PartSpec => []EvidenceIsTrue
<1>1. (part = "evidence" => EvInv) => EvidenceIsTrue
  BY DEF EvInv, EvidenceIsTrue, Evidence!EvidenceIsTrue
<1> QED
  BY <1>1, EvidenceInvariant, PTL

-----------------------------------------------------------------------------
(* The file a run applies (ConfigApply): why a run that ends well leaves   *)
(* the server as the file says.                                            *)

\* The steps of a plan, as the plan of a file and the runs of it make them.
ApFits(st, f, k) ==
  \/ \E s \in Script : f.scripts[s] # None /\ st = Apply!St(1, "script", s, None, 0)
  \/ \E p \in Policy : f.policies[p] # None /\ st = Apply!St(2, "policy", p, None, 0)
  \/ \E p \in Policy, i \in Apply!Id, n \in {0, 3} :
       f.policies[p] # None /\ st = Apply!St(n, "toggle", p, f.policies[p].active, i)
  \/ \E g \in Group :
       /\ f.groups[g] # None /\ st = Apply!St(4, "group", g, None, 0)
       /\ k[g] = 0 \/ f.groups[g].color # None
  \/ \E g \in Group, x \in ProgramName :
       /\ f.groups[g] # None /\ f.groups[g].software # None
       /\ \/ /\ f.groups[g].software[x] # None
             /\ \/ \E n \in {0, 5} : st = Apply!St(n, "add", g, x, 0)
                \/ \E i \in Apply!Id : st = Apply!St(5, "replace", g, x, i)
          \/ f.groups[g].software[x] = None /\ \E i \in Apply!Id : st = Apply!St(6, "drop", g, x, i)
  \/ \E g \in Group, p \in Policy :
       /\ f.groups[g] # None /\ f.groups[g].policies # None
       /\ \/ p \in f.groups[g].policies /\ st = Apply!St(7, "assign", g, p, 0)
          \/ p \notin f.groups[g].policies /\ st = Apply!St(8, "unassign", g, p, 0)

\* A step that is to switch a policy on is one the plan remembers.
ApSwitched == \A st \in plan : st.do = "toggle" /\ st.what = TRUE => st.name \in switched

ApPlan ==
  /\ pc \in {"idle", "ok"} => plan = {}
  /\ \A st \in plan : ApFits(st, file, known)
  /\ ApSwitched

\* What the server keeps, whoever calls it.
ApStored ==
  /\ \A s \in Script : script[s] # None => script[s].platform # "linux"
  /\ \A a \in assigned : policy[a[1]] # None
  /\ \A r \in rules : r.id <= ids
  /\ \A r, q \in rules : r.id = q.id => r = q

\* While nobody else writes and every COMMIT goes through, the run knows every
\* id, and what does not agree with the file yet has its step in the plan; but
\* a policy the run was to switch on may be off for good.
ApKnown ==
  /\ \A s \in Script : known[s] = Apply!IdOf(script, s)
  /\ \A p \in Policy : known[p] = Apply!IdOf(policy, p)
  /\ \A g \in Group : known[g] = Apply!IdOf(group, g)

ApScripts ==
  \A s \in Script : file.scripts[s] # None =>
    \/ Apply!St(1, "script", s, None, 0) \in plan
    \/ /\ script[s] # None /\ script[s].content = file.scripts[s].content
       /\ script[s].platform = Apply!CanonicalPlatform(file.scripts[s].platform)

ApPolicies ==
  \A p \in Policy : file.policies[p] # None =>
    /\ \/ Apply!St(2, "policy", p, None, 0) \in plan
       \/ /\ policy[p] # None /\ policy[p].script = file.policies[p].script
          /\ policy[p].conf = file.policies[p].conf
    /\ policy[p] # None =>
         \/ policy[p].active = file.policies[p].active
         \/ \E n \in {0, 3} : Apply!St(n, "toggle", p, file.policies[p].active, policy[p].id) \in plan
         \/ file.policies[p].active /\ p \in switched

ApGroups ==
  \A g \in Group : file.groups[g] # None =>
    \/ Apply!St(4, "group", g, None, 0) \in plan
    \/ group[g] # None /\ file.groups[g].color \in {None, group[g].color}

ApIsRule(st, g, x) == st.do \in {"add", "replace", "drop"} /\ st.name = g /\ st.what = x
ApSteps(g, x) == {st \in plan : ApIsRule(st, g, x)}
ApRulesOf(g, x) == {r \in rules : r.group = g /\ r.soft = x}

\* The rules of one software of a group: right, to be made, or to be taken off.
ApRule(g, x, want) ==
  \/ ApSteps(g, x) = {} /\ {r.type : r \in ApRulesOf(g, x)} = {want} \ {None}
  \/ \E st \in plan : /\ ApSteps(g, x) = {st} /\ st.do = "add" /\ ApRulesOf(g, x) = {}
  \/ \E st \in plan, r \in rules :
       /\ ApSteps(g, x) = {st} /\ ApRulesOf(g, x) = {r}
       /\ st.do \in {"replace", "drop"} /\ st.id = r.id

ApRules ==
  \A g \in Group : file.groups[g] # None /\ file.groups[g].software # None =>
    \A x \in ProgramName : ApRule(g, x, file.groups[g].software[x])

ApAssigned ==
  \A g \in Group : file.groups[g] # None /\ file.groups[g].policies # None =>
    \A p \in Policy :
      \/ p \in file.groups[g].policies <=> <<p, g>> \in assigned
      \/ p \in file.groups[g].policies /\ Apply!St(7, "assign", g, p, 0) \in plan
      \/ p \notin file.groups[g].policies /\ Apply!St(8, "unassign", g, p, 0) \in plan

ApQuiet == ApKnown /\ ApScripts /\ ApPolicies /\ ApGroups /\ ApRules /\ ApAssigned

ApInv == Apply!TypeOK /\ ApPlan /\ ApStored /\ (quiet /\ pc # "idle" => ApQuiet)

-----------------------------------------------------------------------------
\* The rows of the server.
ApServer ==
  /\ script \in [Script -> Apply!ScriptRow \cup {None}]
  /\ policy \in [Policy -> Apply!PolicyRow \cup {None}]
  /\ group \in [Group -> Apply!GroupRow \cup {None}]
  /\ rules \subseteq [id : Apply!Id, group : Group, soft : ProgramName, type : Apply!RuleType]
  /\ assigned \subseteq Policy \X Group
  /\ ids \in 0..MaxIds

\* A new row has a number of its own.
LEMMA ApNewId ==
  ASSUME ids \in 0..MaxIds, Apply!NewId
  PROVE  ids' \in Apply!Id /\ ids' \in 0..MaxIds /\ ids' = ids + 1 /\ ids' # 0 /\ ~(ids' <= ids)
BY ApplyAssumption DEF Apply!NewId, Apply!Id

\* The rows that are written are rows.
LEMMA ApRowMade ==
  /\ \A i \in Apply!Id, f \in Apply!Platform, c \in Contents :
       LET fresh == [id |-> i, platform |-> Apply!CanonicalPlatform(f), content |-> c]
       IN  /\ fresh \in Apply!ScriptRow /\ fresh # None /\ fresh.platform # "linux" /\ fresh.id = i
           /\ fresh.platform = Apply!CanonicalPlatform(f) /\ fresh.content = c
  /\ \A i \in Apply!Id, s \in Script, c \in Contents, b \in BOOLEAN :
       LET fresh == [id |-> i, script |-> s, conf |-> c, active |-> b]
       IN  /\ fresh \in Apply!PolicyRow /\ fresh # None /\ fresh.id = i /\ fresh.script = s
           /\ fresh.conf = c /\ fresh.active = b
  /\ \A i \in Apply!Id, c \in Apply!Color :
       LET fresh == [id |-> i, color |-> c]
       IN  fresh \in Apply!GroupRow /\ fresh # None /\ fresh.id = i /\ fresh.color = c
<1>1. \A f \in Apply!Platform : Apply!CanonicalPlatform(f) \in Apply!Platform \ {"linux"}
  BY DEF Apply!CanonicalPlatform, Apply!Platform
<1> QED
  BY <1>1, ApplyAssumption DEF Apply!ScriptRow, Apply!PolicyRow, Apply!GroupRow

\* Rows are as before when their number is not lower.
LEMMA ApRulesStay ==
  ASSUME ApServer, ApStored, rules' = rules, ids' = ids \/ Apply!NewId
  PROVE  /\ ids' \in 0..MaxIds /\ \A r \in rules' : r.id <= ids'
         /\ \A r, q \in rules' : r.id = q.id => r = q
<1>1. ids \in 0..MaxIds /\ \A r \in rules : r.id \in 1..MaxIds /\ r.id <= ids
  BY DEF ApServer, ApStored, Apply!Id
<1>2. ids' \in 0..MaxIds /\ ids <= ids'
  BY <1>1, ApplyAssumption DEF Apply!NewId
<1>3. \A r \in rules : r.id <= ids'
  BY <1>1, <1>2, ApplyAssumption
<1> QED
  BY <1>2, <1>3 DEF ApStored

\* The calls on scripts.
LEMMA ApScriptPut ==
  ASSUME ApServer, ApStored, NEW s \in Script, NEW one \in Apply!ScriptRow \cup {None},
         one # None => one.platform # "linux", script' = [script EXCEPT ![s] = one],
         ids' = ids \/ Apply!NewId, UNCHANGED <<policy, group, rules, assigned>>
  PROVE  ApServer' /\ ApStored'
<1>1. ApServer'
  BY ApRulesStay DEF ApServer
<1>2. \A t \in Script : script'[t] # None => script'[t].platform # "linux"
  BY DEF ApServer, ApStored
<1> QED
  BY <1>1, <1>2, ApRulesStay DEF ApStored

\* The calls about scripts keep the rows of the server.
LEMMA ApScriptCalls ==
  ASSUME ApServer, ApStored, NEW s \in Script, NEW f \in Apply!Platform, NEW c \in Contents,
         NEW i,
         Apply!CreateScript(s, f, c) \/ Apply!UpdateScript(s, i, f, c) \/ Apply!DeleteScript(s)
  PROVE  ApServer' /\ ApStored'
<1> DEFINE new(n) == [id |-> n, platform |-> Apply!CanonicalPlatform(f), content |-> c]
<1>1. \A n \in Apply!Id : new(n) \in Apply!ScriptRow /\ new(n).platform # "linux"
  BY ApRowMade
<1>2. CASE Apply!CreateScript(s, f, c)
  <2>1. /\ script' = [script EXCEPT ![s] = new(ids')] /\ Apply!NewId
        /\ UNCHANGED <<policy, group, rules, assigned>>
    BY <1>2 DEF Apply!CreateScript
  <2>2. ids' \in Apply!Id
    BY <2>1, ApNewId DEF ApServer
  <2> HIDE DEF new
  <2> QED
    BY <1>1, <2>1, <2>2, ApScriptPut
<1>3. CASE Apply!UpdateScript(s, i, f, c)
  <2>1. /\ script' = [script EXCEPT ![s] = new(i)] /\ ids' = ids
        /\ UNCHANGED <<policy, group, rules, assigned>>
    BY <1>3 DEF Apply!UpdateScript
  <2>2. i \in Apply!Id
    BY <1>3 DEF Apply!UpdateScript, ApServer, Apply!ScriptRow
  <2> HIDE DEF new
  <2> QED
    BY <1>1, <2>1, <2>2, ApScriptPut
<1>4. CASE Apply!DeleteScript(s)
  <2>1. /\ script' = [script EXCEPT ![s] = None] /\ ids' = ids
        /\ UNCHANGED <<policy, group, rules, assigned>>
    BY <1>4 DEF Apply!DeleteScript
  <2> QED
    BY <2>1, ApScriptPut
<1> QED
  BY <1>2, <1>3, <1>4

\* The calls on policies.
LEMMA ApPolicyPut ==
  ASSUME ApServer, ApStored, NEW p \in Policy, NEW one \in Apply!PolicyRow \cup {None},
         one = None => \A a \in assigned' : a[1] # p, policy' = [policy EXCEPT ![p] = one],
         assigned' \subseteq assigned,
         ids' = ids \/ Apply!NewId, UNCHANGED <<script, group, rules>>
  PROVE  ApServer' /\ ApStored'
<1>1. ApServer'
  BY ApRulesStay DEF ApServer
<1>2. ASSUME NEW a \in assigned' PROVE policy'[a[1]] # None
  <2>1. a \in assigned /\ a[1] \in Policy /\ policy[a[1]] # None
    BY DEF ApServer, ApStored
  <2> QED
    BY <2>1 DEF ApServer
<1> QED
  BY <1>1, <1>2, ApRulesStay DEF ApStored

\* A policy is created or written as a row, on a script that is there.
LEMMA ApPolicyWrite ==
  ASSUME ApServer, ApStored, NEW p \in Policy, NEW s \in Script, NEW c \in Contents, NEW i, NEW k,
         Apply!CreateScriptPolicy(p, s, k, c) \/ Apply!UpdateScriptPolicy(p, i, s, k, c)
  PROVE  ApServer' /\ ApStored'
<1>0. policy[p] # None => policy[p] \in Apply!PolicyRow
  BY DEF ApServer
<1>1. CASE Apply!CreateScriptPolicy(p, s, k, c)
  <2> DEFINE new == [id |-> ids', script |-> s, conf |-> c, active |-> TRUE]
  <2>1. /\ policy' = [policy EXCEPT ![p] = new] /\ Apply!NewId
        /\ UNCHANGED <<script, group, rules, assigned>>
    BY <1>1 DEF Apply!CreateScriptPolicy
  <2>2. ids' \in Apply!Id
    BY <2>1, ApNewId DEF ApServer
  <2>3. new \in Apply!PolicyRow /\ new # None
    <3>1. new \in Apply!PolicyRow
      BY <2>2 DEF Apply!PolicyRow
    <3> QED
      BY <3>1, ApplyAssumption
  <2> HIDE DEF new
  <2> QED
    BY <2>1, <2>3, ApPolicyPut
<1>2. CASE Apply!UpdateScriptPolicy(p, i, s, k, c)
  <2> DEFINE new == [policy[p] EXCEPT !.script = s, !.conf = c]
  <2>1. policy[p] # None /\ ids' = ids /\ UNCHANGED <<script, group, rules, assigned>>
    BY <1>2 DEF Apply!UpdateScriptPolicy
  <2>2. policy' = [policy EXCEPT ![p] = new]
    BY <1>0, <1>2 DEF Apply!UpdateScriptPolicy, ApServer
  <2>3. new \in Apply!PolicyRow
    BY <1>0, <2>1 DEF Apply!PolicyRow
  <2> HIDE DEF new
  <2> QED
    BY <2>1, <2>2, <2>3, ApPolicyPut, ApplyAssumption
<1> QED
  BY <1>1, <1>2

\* A policy is switched and stays a row.
LEMMA ApPolicyToggle ==
  ASSUME ApServer, ApStored, NEW p \in Policy, NEW b \in BOOLEAN, NEW i, Apply!ToggleScriptPolicy(p, i, b)
  PROVE  ApServer' /\ ApStored'
<1>0. policy[p] # None => policy[p] \in Apply!PolicyRow
  BY DEF ApServer
<1> DEFINE new == [policy[p] EXCEPT !.active = b]
<1>1. /\ ids' = ids /\ UNCHANGED <<script, group, rules, assigned>>
      /\ policy' = policy \/ (policy[p] # None /\ policy' = [policy EXCEPT ![p].active = b])
  BY DEF Apply!ToggleScriptPolicy
<1>2. CASE policy' = policy
  <2>1. ApServer'
    BY <1>1, <1>2 DEF ApServer
  <2> QED
    BY <1>1, <1>2, <2>1 DEF ApStored
<1>3. CASE policy[p] # None /\ policy' = [policy EXCEPT ![p].active = b]
  <2>1. policy' = [policy EXCEPT ![p] = new]
    BY <1>3 DEF ApServer
  <2>2. new \in Apply!PolicyRow
    BY <1>0, <1>3 DEF Apply!PolicyRow
  <2> HIDE DEF new
  <2> QED
    BY <1>1, <2>1, <2>2, ApPolicyPut, ApplyAssumption
<1> QED
  BY <1>1, <1>2, <1>3

\* A policy goes with its assignments.
LEMMA ApPolicyDelete ==
  ASSUME ApServer, ApStored, NEW p \in Policy, Apply!DeleteScriptPolicy(p)
  PROVE  ApServer' /\ ApStored'
<1>1. /\ policy' = [policy EXCEPT ![p] = None] /\ ids' = ids /\ UNCHANGED <<script, group, rules>>
      /\ assigned' = {a \in assigned : a[1] # p}
  BY DEF Apply!DeleteScriptPolicy
<1> QED
  BY <1>1, ApPolicyPut

\* The calls on groups.
LEMMA ApGroupCreate ==
  ASSUME ApServer, ApStored, NEW g \in Group, NEW c \in Apply!Color \cup {None}, Apply!CreateDeviceGroup(g, c)
  PROVE  ApServer' /\ ApStored'
<1>0. "blue" \in Apply!Color
  BY DEF Apply!Color
<1> DEFINE k == IF c = None THEN "blue" ELSE c
           new == [id |-> ids', color |-> k]
<1>1. /\ group' = [group EXCEPT ![g] = new] /\ Apply!NewId
      /\ UNCHANGED <<script, policy, rules, assigned>>
  BY DEF Apply!CreateDeviceGroup
<1>2. ids' \in Apply!Id /\ k \in Apply!Color
  BY <1>0, <1>1, ApNewId DEF ApServer
<1> HIDE DEF k
<1>3. new \in Apply!GroupRow
  BY <1>2 DEF Apply!GroupRow
<1> HIDE DEF new
<1>4. ApServer'
  BY <1>1, <1>3, ApRulesStay DEF ApServer
<1> QED
  BY <1>1, <1>4, ApRulesStay DEF ApStored

\* A group is given a color and stays a row.
LEMMA ApGroupColor ==
  ASSUME ApServer, ApStored, NEW g \in Group, NEW c \in Apply!Color, NEW i, Apply!UpdateDeviceGroup(g, i, c)
  PROVE  ApServer' /\ ApStored'
<1>0. group[g] # None => group[g] \in Apply!GroupRow
  BY DEF ApServer
<1> DEFINE new == [group[g] EXCEPT !.color = c]
<1>1. /\ group[g] # None /\ group' = [group EXCEPT ![g] = new]
      /\ UNCHANGED <<script, policy, rules, assigned, ids>>
  BY <1>0 DEF Apply!UpdateDeviceGroup, ApServer
<1>2. new \in Apply!GroupRow
  BY <1>0, <1>1 DEF Apply!GroupRow
<1> HIDE DEF new
<1>3. ApServer'
  BY <1>1, <1>2, ApRulesStay DEF ApServer
<1> QED
  BY <1>1, <1>3, ApRulesStay DEF ApStored

\* A group goes with its rules and assignments.
LEMMA ApGroupDelete ==
  ASSUME ApServer, ApStored, NEW g \in Group, Apply!DeleteDeviceGroup(g)
  PROVE  ApServer' /\ ApStored'
<1>1. /\ group' = [group EXCEPT ![g] = None] /\ UNCHANGED <<script, policy, ids>>
      /\ rules' \subseteq rules /\ assigned' \subseteq assigned
  BY DEF Apply!DeleteDeviceGroup
<1>2. ApServer'
  BY <1>1 DEF ApServer
<1> QED
  BY <1>1, <1>2 DEF ApStored

\* The calls on the lists of groups.
LEMMA ApRuleAdd ==
  ASSUME ApServer, ApStored, NEW g \in Group, NEW x \in ProgramName, NEW y \in Apply!RuleType,
         NEW i, Apply!AssignSoftwarePolicyToGroup(g, i, x, y)
  PROVE  ApServer' /\ ApStored'
<1> DEFINE new == [id |-> ids', group |-> g, soft |-> x, type |-> y]
<1>1. /\ Apply!NewId /\ UNCHANGED <<script, policy, group, assigned>>
      /\ rules' = rules \cup {new}
  BY DEF Apply!AssignSoftwarePolicyToGroup
<1>2. ids' \in Apply!Id /\ ids' \in 0..MaxIds /\ ids' = ids + 1 /\ ~(ids' <= ids)
  BY <1>1, ApNewId DEF ApServer
<1>3. new \in [id : Apply!Id, group : Group, soft : ProgramName, type : Apply!RuleType] /\ new.id = ids'
  BY <1>2
<1> HIDE DEF new
<1>4. ApServer'
  BY <1>1, <1>2, <1>3 DEF ApServer
<1>5. \A r \in rules : r.id \in 1..MaxIds /\ r.id <= ids
  BY DEF ApServer, ApStored, Apply!Id
<1>6. \A r \in rules : r.id <= ids' /\ r.id # ids'
  <2>1. ids \in Nat /\ \A r \in rules : r.id \in Nat /\ r.id <= ids
    BY <1>5, ApplyAssumption DEF ApServer
  <2> QED
    BY <1>2, <2>1
<1>7. \A r \in rules' : r.id <= ids'
  BY <1>1, <1>2, <1>3, <1>6, ApplyAssumption
<1>8. \A r, q \in rules' : r.id = q.id => r = q
  BY <1>1, <1>3, <1>6 DEF ApStored
<1> QED
  BY <1>1, <1>4, <1>7, <1>8 DEF ApStored

\* A rule goes by its id.
LEMMA ApRuleDrop ==
  ASSUME ApServer, ApStored, NEW i, Apply!UnassignSoftwarePolicyFromGroup(i)
  PROVE  ApServer' /\ ApStored'
<1>1. rules' \subseteq rules /\ UNCHANGED <<script, policy, group, assigned, ids>>
  BY DEF Apply!UnassignSoftwarePolicyFromGroup
<1>2. ApServer'
  BY <1>1 DEF ApServer
<1> QED
  BY <1>1, <1>2 DEF ApStored

\* A policy that is there is assigned.
LEMMA ApAssign ==
  ASSUME ApServer, ApStored, NEW g \in Group, NEW p \in Policy, NEW i, NEW k, Apply!AssignPolicyToGroup(p, k, g, i)
  PROVE  ApServer' /\ ApStored'
<1>1. /\ UNCHANGED <<script, policy, group, rules, ids>>
      /\ policy[p] # None /\ assigned' = assigned \cup {<<p, g>>}
  BY DEF Apply!AssignPolicyToGroup
<1>2. ApServer'
  BY <1>1 DEF ApServer
<1> QED
  BY <1>1, <1>2 DEF ApStored

\* An assignment goes.
LEMMA ApUnassign ==
  ASSUME ApServer, ApStored, NEW g \in Group, NEW p \in Policy, NEW k, Apply!UnassignPolicyFromGroup(p, k, g)
  PROVE  ApServer' /\ ApStored'
<1>1. assigned' \subseteq assigned /\ UNCHANGED <<script, policy, group, rules, ids>>
  BY DEF Apply!UnassignPolicyFromGroup
<1>2. ApServer'
  BY <1>1 DEF ApServer
<1> QED
  BY <1>1, <1>2 DEF ApStored

\* What the run keeps for itself.
ApRun ==
  /\ file \in Apply!File /\ pc \in {"idle", "planned", "run", "ok"} /\ plan \subseteq Apply!Step
  /\ known \in [Apply!Name -> Apply!Id \cup {0}]
  /\ switched \subseteq Policy /\ quiet \in BOOLEAN /\ edits \in 0..MaxCalls /\ failures \in 0..MaxFailures

\* The types are those of the server and of the run.
LEMMA ApTypesAre == Apply!TypeOK <=> ApServer /\ ApRun
BY DEF Apply!TypeOK, ApServer, ApRun

\* Somebody else's call.
LEMMA ApEditsStep ==
  ASSUME ApInv,
         \/ \E s \in Script, c \in Contents : Apply!EditScripts(s, c)
         \/ \E p \in Policy : Apply!EditPolicies(p)
         \/ \E g \in Group : Apply!EditGroups(g) \/ Apply!EditLists(g)
  PROVE  ApInv'
<1>1. ApServer /\ ApStored /\ ApRun /\ ApPlan
  BY ApTypesAre DEF ApInv
<1>2. Apply!Edits
  BY DEF Apply!EditScripts, Apply!EditPolicies, Apply!EditGroups,
     Apply!EditLists
<1>3. /\ file' = file /\ pc' = pc /\ plan' = plan /\ known' = known /\ failures' = failures
      /\ switched' = switched /\ quiet' = FALSE /\ edits' \in 0..MaxCalls
  BY <1>1, <1>2, ApplyAssumption DEF Apply!Edits, ApRun
<1>4. ApRun'
  BY <1>1, <1>3 DEF ApRun
<1>5. ApPlan'
  BY <1>1, <1>3 DEF ApPlan, ApSwitched, ApFits, Apply!St
<1>6. ApServer' /\ ApStored'
  <2>1. ASSUME NEW s \in Script, NEW c \in Contents, Apply!EditScripts(s, c) PROVE ApServer' /\ ApStored'
    <3>1. "Linux" \in Apply!Platform
      BY DEF Apply!Platform
    <3>2. CASE Apply!CreateScript(s, "Linux", c) \/ Apply!DeleteScript(s)
      BY <1>1, <3>1, <3>2, ApScriptCalls
    <3>3. CASE script[s] # None /\ Apply!UpdateScript(s, script[s].id, "Linux", c)
      BY <1>1, <3>1, <3>3, ApScriptCalls
    <3> QED
      BY <2>1, <3>2, <3>3 DEF Apply!EditScripts
  <2>2. ASSUME NEW p \in Policy, Apply!EditPolicies(p) PROVE ApServer' /\ ApStored'
    <3>1. CASE Apply!DeleteScriptPolicy(p)
      BY <1>1, <3>1, ApPolicyDelete
    <3>2. CASE policy[p] # None /\ Apply!ToggleScriptPolicy(p, policy[p].id, ~policy[p].active)
      BY <1>1, <3>2, ApPolicyToggle
    <3> QED
      BY <2>2, <3>1, <3>2 DEF Apply!EditPolicies
  <2>3. ASSUME NEW g \in Group, Apply!EditGroups(g) PROVE ApServer' /\ ApStored'
    <3>1. "red" \in Apply!Color
      BY DEF Apply!Color
    <3>2. Apply!CreateDeviceGroup(g, "red") \/ Apply!DeleteDeviceGroup(g)
      BY <2>3 DEF Apply!EditGroups
    <3> QED
      BY <1>1, <3>1, <3>2, ApGroupCreate, ApGroupDelete
  <2>4. ASSUME NEW g \in Group, Apply!EditLists(g) PROVE ApServer' /\ ApStored'
    <3>1. ASSUME NEW x \in ProgramName, NEW y \in Apply!RuleType,
                 Apply!AssignSoftwarePolicyToGroup(g, group[g].id, x, y)
          PROVE  ApServer' /\ ApStored'
      BY <1>1, <3>1, ApRuleAdd
    <3>2. ASSUME NEW r \in rules, Apply!UnassignSoftwarePolicyFromGroup(r.id) PROVE ApServer' /\ ApStored'
      BY <1>1, <3>2, ApRuleDrop
    <3>3. ASSUME NEW p \in Policy, Apply!AssignPolicyToGroup(p, policy[p].id, g, group[g].id)
          PROVE  ApServer' /\ ApStored'
      BY <1>1, <3>3, ApAssign
    <3> QED
      BY <2>4, <3>1, <3>2, <3>3 DEF Apply!EditLists
  <2> QED
    BY <2>1, <2>2, <2>3, <2>4
<1>7. Apply!TypeOK'
  BY <1>4, <1>6 DEF Apply!TypeOK, ApServer, ApRun
<1> QED
  BY <1>3, <1>5, <1>6, <1>7 DEF ApInv

\* What a file may want.
LEMMA ApWants ==
  ASSUME NEW f \in Apply!File
  PROVE  /\ \A s \in Script : f.scripts[s] # None =>
              f.scripts[s].platform \in Apply!Platform /\ f.scripts[s].content \in Contents
         /\ \A p \in Policy : f.policies[p] # None =>
              /\ f.policies[p].script \in Script /\ f.policies[p].conf \in Contents
              /\ f.policies[p].active \in BOOLEAN
         /\ \A g \in Group : f.groups[g] # None =>
              /\ f.groups[g].color \in Apply!Color \cup {None}
              /\ f.groups[g].software # None =>
                   \A x \in ProgramName : f.groups[g].software[x] \in Apply!RuleType \cup {None}
              /\ f.groups[g].policies # None => f.groups[g].policies \subseteq Policy
<1> DEFINE FS == [platform : Apply!Platform, content : Contents]
           FP == [script : Script, conf : Contents, active : BOOLEAN]
           FG == [color : Apply!Color \cup {None},
                  software : [ProgramName -> Apply!RuleType \cup {None}] \cup {None},
                  policies : (SUBSET Policy) \cup {None}]
<1>1. /\ f.scripts \in [Script -> FS \cup {None}] /\ f.policies \in [Policy -> FP \cup {None}]
      /\ f.groups \in [Group -> FG \cup {None}]
  BY DEF Apply!File
<1>2. \A z \in FS : z.platform \in Apply!Platform /\ z.content \in Contents
  OBVIOUS
<1>3. \A z \in FP : z.script \in Script /\ z.conf \in Contents /\ z.active \in BOOLEAN
  OBVIOUS
<1>4. \A z \in FG : /\ z.color \in Apply!Color \cup {None}
                    /\ z.software # None => \A x \in ProgramName : z.software[x] \in Apply!RuleType \cup {None}
                    /\ z.policies # None => z.policies \subseteq Policy
  <2> SUFFICES ASSUME NEW z \in FG
               PROVE  /\ z.color \in Apply!Color \cup {None}
                      /\ z.software # None => \A x \in ProgramName : z.software[x] \in Apply!RuleType \cup {None}
                      /\ z.policies # None => z.policies \subseteq Policy
    OBVIOUS
  <2>1. /\ z.color \in Apply!Color \cup {None} /\ z.policies \in (SUBSET Policy) \cup {None}
        /\ z.software \in [ProgramName -> Apply!RuleType \cup {None}] \cup {None}
    OBVIOUS
  <2>2. ASSUME z.software # None, NEW x \in ProgramName PROVE z.software[x] \in Apply!RuleType \cup {None}
    <3>1. z.software \in [ProgramName -> Apply!RuleType \cup {None}]
      BY <2>1, <2>2
    <3> QED
      BY <3>1
  <2> HIDE DEF FG
  <2>3. z.policies # None => z.policies \subseteq Policy
    <3>1. z.policies \in (SUBSET Policy) \cup {None}
      BY <2>1
    <3> QED
      BY <3>1, Zenon
  <2> QED
    BY <2>1, <2>2, <2>3
<1> HIDE DEF FS, FP, FG
<1>5. \A s \in Script : f.scripts[s] # None => f.scripts[s] \in FS
  BY <1>1
<1>6. \A p \in Policy : f.policies[p] # None => f.policies[p] \in FP
  BY <1>1
<1>7. \A g \in Group : f.groups[g] # None => f.groups[g] \in FG
  BY <1>1
<1> QED
  BY <1>2, <1>3, <1>4, <1>5, <1>6, <1>7

\* A step that fits is a step.
LEMMA ApFitsStep ==
  ASSUME NEW f \in Apply!File, NEW k, NEW st, ApFits(st, f, k)
  PROVE  st \in Apply!Step
<1>1. \A n \in 0..8, name \in Apply!Name, i \in Apply!Id \cup {0},
         do \in {"script", "policy", "toggle", "group", "add", "replace", "drop", "assign", "unassign"},
         what \in ProgramName \cup Policy \cup BOOLEAN \cup {None} :
           Apply!St(n, do, name, what, i) \in Apply!Step
  BY DEF Apply!St, Apply!Step
<1>2. Script \subseteq Apply!Name /\ Policy \subseteq Apply!Name /\ Group \subseteq Apply!Name
  BY DEF Apply!Name
<1> HIDE DEF Apply!Step, Apply!St, Apply!Name, Apply!Id
<1>3. ASSUME NEW s \in Script, st = Apply!St(1, "script", s, None, 0) PROVE st \in Apply!Step
  BY <1>1, <1>2, <1>3
<1>4. ASSUME NEW p \in Policy, st = Apply!St(2, "policy", p, None, 0) PROVE st \in Apply!Step
  BY <1>1, <1>2, <1>4
<1>5. ASSUME NEW p \in Policy, NEW i \in Apply!Id, NEW n \in {0, 3}, f.policies[p] # None,
             st = Apply!St(n, "toggle", p, f.policies[p].active, i)
      PROVE  st \in Apply!Step
  <2>1. f.policies[p].active \in BOOLEAN
    BY <1>5 DEF Apply!File
  <2>2. n \in 0..8
    BY <1>5
  <2> QED
    BY <1>1, <1>2, <1>5, <2>1, <2>2
<1>6. ASSUME NEW g \in Group, st = Apply!St(4, "group", g, None, 0) PROVE st \in Apply!Step
  BY <1>1, <1>2, <1>6
<1>7. ASSUME NEW g \in Group, NEW x \in ProgramName, NEW n \in {0, 5}, st = Apply!St(n, "add", g, x, 0)
      PROVE  st \in Apply!Step
  BY <1>1, <1>2, <1>7
<1>8. ASSUME NEW g \in Group, NEW x \in ProgramName, NEW i \in Apply!Id,
             st = Apply!St(5, "replace", g, x, i) \/ st = Apply!St(6, "drop", g, x, i)
      PROVE  st \in Apply!Step
  BY <1>1, <1>2, <1>8
<1>9. ASSUME NEW g \in Group, NEW p \in Policy, st = Apply!St(7, "assign", g, p, 0) PROVE st \in Apply!Step
  <2>1. g \in Apply!Name /\ p \in ProgramName \cup Policy \cup BOOLEAN \cup {None}
    BY <1>2
  <2>2. 7 \in 0..8 /\ 8 \in 0..8 /\ 0 \in Apply!Id \cup {0}
    OBVIOUS
  <2> QED
    BY <1>1, <1>9, <2>1, <2>2
<1>10. ASSUME NEW g \in Group, NEW p \in Policy, st = Apply!St(8, "unassign", g, p, 0) PROVE st \in Apply!Step
  <2>1. g \in Apply!Name /\ p \in ProgramName \cup Policy \cup BOOLEAN \cup {None}
    BY <1>2
  <2>2. 7 \in 0..8 /\ 8 \in 0..8 /\ 0 \in Apply!Id \cup {0}
    OBVIOUS
  <2> QED
    BY <1>1, <1>10, <2>1, <2>2
<1> QED
  BY <1>3, <1>4, <1>5, <1>6, <1>7, <1>8, <1>9, <1>10 DEF ApFits

\* The ids of a read.
LEMMA ApReads ==
  ASSUME ApServer
  PROVE  /\ Apply!ReadIds \in [Apply!Name -> Apply!Id \cup {0}]
         /\ \A s \in Script : Apply!ReadIds[s] = Apply!IdOf(script, s)
         /\ \A p \in Policy : Apply!ReadIds[p] = Apply!IdOf(policy, p)
         /\ \A g \in Group : Apply!ReadIds[g] = Apply!IdOf(group, g)
<1>1. /\ \A s \in Script : Apply!IdOf(script, s) \in Apply!Id \cup {0}
      /\ \A p \in Policy : Apply!IdOf(policy, p) \in Apply!Id \cup {0}
      /\ \A g \in Group : Apply!IdOf(group, g) \in Apply!Id \cup {0}
  BY DEF ApServer, Apply!IdOf, Apply!ScriptRow, Apply!PolicyRow, Apply!GroupRow
<1> QED
  BY <1>1, ApplyAssumption DEF Apply!ReadIds, Apply!Name

\* The steps for the rules of one software of a group.
ApPlanRule(g, x) ==
  LET want == file.groups[g].software[x]
  IN  IF want # None
      THEN IF Apply!Oldest(g, x) = {} THEN {Apply!St(5, "add", g, x, 0)}
           ELSE {Apply!St(5, "replace", g, x, r.id) : r \in {q \in Apply!Oldest(g, x) : q.type # want}}
      ELSE {Apply!St(6, "drop", g, x, r.id) : r \in Apply!Oldest(g, x)}

\* The steps for the rules of a group are those for each of its names.
LEMMA ApPlanRules ==
  ASSUME NEW g \in Group, file.groups[g].software # None
  PROVE  /\ \A st : st \in Apply!PlanRules(g) <=> \E x \in ProgramName : st \in ApPlanRule(g, x)
         /\ \A x \in ProgramName : \A st \in ApPlanRule(g, x) : ApIsRule(st, g, x)
<1>1. Apply!PlanRules(g) = UNION {ApPlanRule(g, x) : x \in ProgramName}
  BY DEF Apply!PlanRules, ApPlanRule
<1>2. ASSUME NEW x \in ProgramName, NEW st \in ApPlanRule(g, x) PROVE ApIsRule(st, g, x)
  BY DEF ApPlanRule, ApIsRule, Apply!St
<1>3. ASSUME NEW st PROVE st \in Apply!PlanRules(g) <=> \E x \in ProgramName : st \in ApPlanRule(g, x)
  BY <1>1, Zenon
<1> QED
  BY <1>2, <1>3

\* The rules a plan is made of.
LEMMA ApOldest ==
  ASSUME ApServer, NEW g \in Group, NEW x \in ProgramName, NEW r \in Apply!Oldest(g, x)
  PROVE  r \in rules /\ r.id \in Apply!Id
BY DEF Apply!Oldest, ApServer

\* Every step of a plan fits the file.
LEMMA ApPlanFits ==
  ASSUME ApServer, file \in Apply!File, NEW st \in Apply!Plan
  PROVE  ApFits(st, file, Apply!ReadIds)
<1>1. CASE st \in Apply!PlanScripts
  <2>1. PICK s \in Script : file.scripts[s] # None /\ st = Apply!St(1, "script", s, None, 0)
    BY <1>1 DEF Apply!PlanScripts
  <2> QED
    BY <2>1 DEF ApFits
<1>2. CASE st \in Apply!PlanPolicies
  <2>1. PICK p \in Policy :
          /\ file.policies[p] # None
          /\ \/ st = Apply!St(2, "policy", p, None, 0)
             \/ policy[p] # None /\ st = Apply!St(3, "toggle", p, file.policies[p].active, policy[p].id)
    BY <1>2 DEF Apply!PlanPolicies
  <2>2. CASE st = Apply!St(2, "policy", p, None, 0)
    BY <2>1, <2>2 DEF ApFits
  <2>3. CASE policy[p] # None /\ st = Apply!St(3, "toggle", p, file.policies[p].active, policy[p].id)
    <3>1. policy[p].id \in Apply!Id
      BY <2>3 DEF ApServer, Apply!PolicyRow
    <3> QED
      BY <2>1, <2>3, <3>1 DEF ApFits
  <2> QED
    BY <2>1, <2>2, <2>3
<1>3. CASE st \in Apply!PlanGroups
  <2>1. PICK g \in Group :
          /\ file.groups[g] # None /\ st = Apply!St(4, "group", g, None, 0)
          /\ group[g] # None => file.groups[g].color # None
    BY <1>3 DEF Apply!PlanGroups
  <2>2. group[g] = None => Apply!ReadIds[g] = 0
    BY ApReads DEF Apply!IdOf
  <2> QED
    BY <2>1, <2>2 DEF ApFits
<1>4. ASSUME NEW g \in Group, file.groups[g] # None, st \in Apply!PlanRules(g) PROVE ApFits(st, file, Apply!ReadIds)
  <2>1. file.groups[g].software # None
    BY <1>4 DEF Apply!PlanRules
  <2>2. PICK x \in ProgramName : st \in ApPlanRule(g, x)
    BY <1>4, <2>1, ApPlanRules
  <2>3. \/ /\ file.groups[g].software[x] # None
           /\ \/ st = Apply!St(5, "add", g, x, 0)
              \/ \E r \in Apply!Oldest(g, x) : st = Apply!St(5, "replace", g, x, r.id)
        \/ /\ file.groups[g].software[x] = None
           /\ \E r \in Apply!Oldest(g, x) : st = Apply!St(6, "drop", g, x, r.id)
    BY <2>2 DEF ApPlanRule
  <2>4. \/ /\ file.groups[g].software[x] # None
           /\ \/ \E n \in {0, 5} : st = Apply!St(n, "add", g, x, 0)
              \/ \E i \in Apply!Id : st = Apply!St(5, "replace", g, x, i)
        \/ file.groups[g].software[x] = None /\ \E i \in Apply!Id : st = Apply!St(6, "drop", g, x, i)
    BY <2>3, ApOldest
  <2> QED
    BY <1>4, <2>1, <2>4, Zenon DEF ApFits
<1>5. ASSUME NEW g \in Group, file.groups[g] # None, st \in Apply!PlanAssignments(g)
      PROVE  ApFits(st, file, Apply!ReadIds)
  <2>1. /\ file.groups[g].policies # None
        /\ \E p \in Policy :
             \/ p \in file.groups[g].policies /\ st = Apply!St(7, "assign", g, p, 0)
             \/ p \notin file.groups[g].policies /\ st = Apply!St(8, "unassign", g, p, 0)
    <3>1. file.groups[g].policies # None => file.groups[g].policies \subseteq Policy
      BY <1>5, ApWants
    <3> QED
      BY <1>5, <3>1 DEF Apply!PlanAssignments
  <2> QED
    BY <1>5, <2>1, Zenon DEF ApFits
<1> QED
  BY <1>1, <1>2, <1>3, <1>4, <1>5 DEF Apply!Plan

\* What a plan has for the rules of one software of a group.
LEMMA ApPlanSteps ==
  ASSUME NEW g \in Group, file.groups[g] # None, file.groups[g].software # None, NEW x \in ProgramName
  PROVE  {st \in Apply!Plan : ApIsRule(st, g, x)} = ApPlanRule(g, x)
<1>1. ASSUME NEW st \in ApPlanRule(g, x) PROVE st \in Apply!Plan /\ ApIsRule(st, g, x)
  <2>1. st \in Apply!PlanRules(g) /\ ApIsRule(st, g, x)
    BY ApPlanRules
  <2> QED
    BY <2>1 DEF Apply!Plan
<1>2. ASSUME NEW st \in Apply!Plan, ApIsRule(st, g, x) PROVE st \in ApPlanRule(g, x)
  <2>1. st \notin Apply!PlanScripts \cup Apply!PlanPolicies \cup Apply!PlanGroups
    BY <1>2 DEF ApIsRule, Apply!PlanScripts, Apply!PlanPolicies,
       Apply!PlanGroups, Apply!St
  <2>2. ASSUME NEW h \in Group PROVE st \notin Apply!PlanAssignments(h)
    BY <1>2 DEF ApIsRule, Apply!PlanAssignments, Apply!St
  <2>3. PICK h \in Group : file.groups[h] # None /\ st \in Apply!PlanRules(h)
    BY <2>1, <2>2 DEF Apply!Plan
  <2>4. file.groups[h].software # None
    BY <2>3 DEF Apply!PlanRules
  <2>5. PICK y \in ProgramName : st \in ApPlanRule(h, y) /\ ApIsRule(st, h, y)
    BY <2>3, <2>4, ApPlanRules
  <2>6. h = g /\ y = x
    BY <1>2, <2>5 DEF ApIsRule
  <2> QED
    BY <2>5, <2>6
<1> QED
  BY <1>1, <1>2

\* Nothing is doubled: one rule at most, and it is the oldest.
LEMMA ApOneRule ==
  ASSUME ApServer, ApStored, ~Apply!Doubled, NEW g, NEW x
  PROVE  Apply!Oldest(g, x) = ApRulesOf(g, x) /\ \A r, q \in ApRulesOf(g, x) : r = q
<1>1. \A r, q \in ApRulesOf(g, x) : r = q
  BY DEF ApRulesOf, Apply!Doubled, ApStored
<1>2. \A r \in ApRulesOf(g, x) : r.id \in Nat
  BY ApplyAssumption DEF ApRulesOf, ApServer, Apply!Id
<1>3. Apply!Oldest(g, x) = {r \in ApRulesOf(g, x) : \A q \in ApRulesOf(g, x) : r.id <= q.id}
  BY DEF Apply!Oldest, ApRulesOf
<1>4. \A r, q \in ApRulesOf(g, x) : r.id <= q.id
  BY <1>1, <1>2
<1> QED
  BY <1>1, <1>3, <1>4

\* A fresh plan holds a step for everything that does not agree.
LEMMA ApPlannedRule ==
  ASSUME ApServer, ApStored, ~Apply!Doubled, NEW g \in Group, file.groups[g] # None, NEW x \in ProgramName,
         file.groups[g].software # None
  PROVE  LET S == {st \in Apply!Plan : ApIsRule(st, g, x)}
             want == file.groups[g].software[x]
         IN  \/ S = {} /\ {r.type : r \in ApRulesOf(g, x)} = {want} \ {None}
             \/ \E st \in Apply!Plan : S = {st} /\ st.do = "add" /\ ApRulesOf(g, x) = {}
             \/ \E st \in Apply!Plan, r \in rules :
                  S = {st} /\ ApRulesOf(g, x) = {r} /\ st.do \in {"replace", "drop"} /\ st.id = r.id
<1> DEFINE S == {st \in Apply!Plan : ApIsRule(st, g, x)}
           R == ApRulesOf(g, x)
           want == file.groups[g].software[x]
<1>1. S = ApPlanRule(g, x) /\ S \subseteq Apply!Plan
  BY ApPlanSteps
<1>2. Apply!Oldest(g, x) = R /\ (\A r, q \in R : r = q) /\ R \subseteq rules
  BY ApOneRule DEF ApRulesOf
<1> HIDE DEF S, R
<1>3. S = IF want # None
          THEN IF R = {} THEN {Apply!St(5, "add", g, x, 0)}
               ELSE {Apply!St(5, "replace", g, x, r.id) : r \in {q \in R : q.type # want}}
          ELSE {Apply!St(6, "drop", g, x, r.id) : r \in R}
  BY <1>1, <1>2 DEF ApPlanRule
<1> HIDE DEF want
<1> DEFINE Goal == \/ S = {} /\ {r.type : r \in R} = {want} \ {None}
                   \/ \E st \in Apply!Plan : S = {st} /\ st.do = "add" /\ R = {}
                   \/ \E st \in Apply!Plan, r \in rules :
                        S = {st} /\ R = {r} /\ st.do \in {"replace", "drop"} /\ st.id = r.id
<1>4. ASSUME R = {} PROVE Goal
  <2>1. CASE want = None
    BY <1>3, <1>4, <2>1
  <2>2. CASE want # None
    <3>1. S = {Apply!St(5, "add", g, x, 0)} /\ Apply!St(5, "add", g, x, 0).do = "add"
      BY <1>3, <1>4, <2>2 DEF Apply!St
    <3> QED
      BY <1>1, <1>4, <3>1
  <2> QED
    BY <2>1, <2>2
<1>5. ASSUME NEW r \in R PROVE Goal
  <2>1. R = {r} /\ r \in rules
    BY <1>2, <1>5
  <2>2. CASE want = None
    <3>1. S = {Apply!St(6, "drop", g, x, r.id)} /\ Apply!St(6, "drop", g, x, r.id).do = "drop"
          /\ Apply!St(6, "drop", g, x, r.id).id = r.id
      BY <1>3, <2>1, <2>2 DEF Apply!St
    <3> QED
      BY <1>1, <2>1, <3>1
  <2>3. CASE want # None /\ r.type = want
    BY <1>3, <2>1, <2>3
  <2>4. CASE want # None /\ r.type # want
    <3>1. S = {Apply!St(5, "replace", g, x, r.id)} /\ Apply!St(5, "replace", g, x, r.id).do = "replace"
          /\ Apply!St(5, "replace", g, x, r.id).id = r.id
      BY <1>3, <2>1, <2>4 DEF Apply!St
    <3> QED
      BY <1>1, <2>1, <3>1
  <2> QED
    BY <2>2, <2>3, <2>4
<1> QED
  BY <1>4, <1>5 DEF S, R, want

\* What is exported is a file.
LEMMA ApExports == ASSUME ApServer PROVE Apply!Exported \in Apply!File
<1>1. [s \in Script |-> IF script[s] = None THEN None
         ELSE [platform |-> script[s].platform, content |-> script[s].content]]
      \in [Script -> [platform : Apply!Platform, content : Contents] \cup {None}]
  BY DEF ApServer, Apply!ScriptRow
<1>2. [p \in Policy |-> IF policy[p] = None THEN None
         ELSE [script |-> policy[p].script, conf |-> policy[p].conf, active |-> policy[p].active]]
      \in [Policy -> [script : Script, conf : Contents, active : BOOLEAN] \cup {None}]
  BY DEF ApServer, Apply!PolicyRow
<1> DEFINE has(g) == {r \in rules : r.group = g}
           ps(g) == {p \in Policy : <<p, g>> \in assigned}
           types(g) == [x \in ProgramName |-> IF Apply!Oldest(g, x) = {} THEN None
                          ELSE (CHOOSE r \in Apply!Oldest(g, x) : TRUE).type]
           one(g) == [color |-> group[g].color,
                      software |-> IF has(g) = {} THEN None ELSE types(g),
                      policies |-> IF ps(g) = {} THEN None ELSE ps(g)]
           FG == [color : Apply!Color \cup {None},
                  software : [ProgramName -> Apply!RuleType \cup {None}] \cup {None},
                  policies : (SUBSET Policy) \cup {None}]
<1>3. ASSUME NEW g \in Group PROVE types(g) \in [ProgramName -> Apply!RuleType \cup {None}]
  <2>1. ASSUME NEW x \in ProgramName, Apply!Oldest(g, x) # {}
        PROVE  (CHOOSE r \in Apply!Oldest(g, x) : TRUE).type \in Apply!RuleType
    <3>1. \A r \in Apply!Oldest(g, x) : r.type \in Apply!RuleType
      BY DEF Apply!Oldest, ApServer
    <3>2. (CHOOSE r \in Apply!Oldest(g, x) : TRUE) \in Apply!Oldest(g, x)
      BY <2>1
    <3> QED
      BY <3>1, <3>2
  <2> QED
    BY <2>1
<1> HIDE DEF types
<1>4. ASSUME NEW g \in Group, group[g] # None PROVE one(g) \in FG
  <2>1. group[g].color \in Apply!Color \cup {None}
    BY <1>4 DEF ApServer, Apply!GroupRow
  <2>2. (IF has(g) = {} THEN None ELSE types(g)) \in [ProgramName -> Apply!RuleType \cup {None}] \cup {None}
    BY <1>3
  <2>3. (IF ps(g) = {} THEN None ELSE ps(g)) \in (SUBSET Policy) \cup {None}
    <3>1. ps(g) \in SUBSET Policy
      OBVIOUS
    <3> QED
      BY <3>1
  <2> HIDE DEF has, ps
  <2> QED
    BY <2>1, <2>2, <2>3
<1> HIDE DEF one, FG
<1>5. [g \in Group |-> IF group[g] = None THEN None ELSE one(g)] \in [Group -> FG \cup {None}]
  BY <1>4
<1>6. Apply!Exported = [scripts |-> [s \in Script |-> IF script[s] = None THEN None
                                       ELSE [platform |-> script[s].platform, content |-> script[s].content]],
                        policies |-> [p \in Policy |-> IF policy[p] = None THEN None
                                       ELSE [script |-> policy[p].script, conf |-> policy[p].conf, active |-> policy[p].active]],
                        groups |-> [g \in Group |-> IF group[g] = None THEN None ELSE one(g)]]
  BY DEF Apply!Exported, one, types
<1>7. Apply!File = [scripts : [Script -> [platform : Apply!Platform, content : Contents] \cup {None}],
                    policies : [Policy -> [script : Script, conf : Contents, active : BOOLEAN] \cup {None}],
                    groups : [Group -> FG \cup {None}]]
  BY DEF Apply!File, FG
<1> QED
  BY <1>1, <1>2, <1>5, <1>6, <1>7

\* A fresh plan switches the policies that are remembered.
LEMMA ApPlanSwitched == ASSUME Apply!ApplyPlan PROVE ApSwitched'
<1>1. plan' = Apply!Plan /\ policy' = policy
  BY DEF Apply!ApplyPlan, Apply!server
<1>2. ASSUME NEW st \in Apply!Plan, st.do = "toggle", st.what = TRUE PROVE st.name \in switched'
  <2>1. st \notin Apply!PlanScripts \cup Apply!PlanGroups
    BY <1>2 DEF Apply!PlanScripts, Apply!PlanGroups, Apply!St
  <2>2. ASSUME NEW g \in Group PROVE st \notin Apply!PlanAssignments(g)
    BY <1>2 DEF Apply!PlanAssignments, Apply!St
  <2>3. ASSUME NEW g \in Group PROVE st \notin Apply!PlanRules(g)
    <3>1. st \in Apply!PlanRules(g) => file.groups[g].software # None
      BY DEF Apply!PlanRules
    <3>2. st \in Apply!PlanRules(g) => st.do \in {"add", "replace", "drop"}
      BY <3>1, ApPlanRules DEF ApIsRule
    <3> QED
      BY <1>2, <3>2
  <2>4. st \in Apply!PlanPolicies
    BY <1>2, <2>1, <2>2, <2>3 DEF Apply!Plan
  <2>5. PICK p \in Policy :
          policy[p] # None /\ st = Apply!St(3, "toggle", p, file.policies[p].active, policy[p].id)
    BY <1>2, <2>4 DEF Apply!PlanPolicies, Apply!St
  <2>6. st.name = p /\ st = Apply!St(3, "toggle", p, TRUE, Apply!IdOf(policy, p))
    BY <1>2, <2>5 DEF Apply!St, Apply!IdOf
  <2> QED
    BY <1>1, <1>2, <2>6 DEF Apply!ApplyPlan
<1> QED
  BY <1>1, <1>2 DEF ApSwitched

\* A fresh plan, when nothing is doubled, is what the run promises.
LEMMA ApPlannedAll ==
  ASSUME ApServer, ApStored, file \in Apply!File, Apply!ApplyPlan, quiet'
  PROVE  ApQuiet'
<1>1. /\ plan' = Apply!Plan /\ known' = Apply!ReadIds /\ ~Apply!Doubled /\ file' = file /\ script' = script
      /\ policy' = policy /\ group' = group /\ rules' = rules /\ assigned' = assigned /\ ids' = ids
  BY DEF Apply!ApplyPlan, Apply!server
<1>2. ApKnown'
  BY <1>1, ApReads DEF ApKnown, Apply!IdOf
<1>3. ApScripts'
  <2> SUFFICES ASSUME NEW s \in Script, file.scripts[s] # None, Apply!St(1, "script", s, None, 0) \notin Apply!Plan
               PROVE  /\ script[s] # None /\ script[s].content = file.scripts[s].content
                      /\ script[s].platform = Apply!CanonicalPlatform(file.scripts[s].platform)
    BY <1>1 DEF ApScripts, Apply!St, Apply!CanonicalPlatform
  <2>1. script[s] # None /\ script[s].content = file.scripts[s].content /\ script[s].platform = file.scripts[s].platform
    BY DEF Apply!Plan, Apply!PlanScripts
  <2> QED
    BY <2>1 DEF ApStored, Apply!CanonicalPlatform
<1>4. ApPolicies'
  <2> SUFFICES ASSUME NEW p \in Policy, file.policies[p] # None
               PROVE  /\ \/ Apply!St(2, "policy", p, None, 0) \in Apply!Plan
                         \/ /\ policy[p] # None /\ policy[p].script = file.policies[p].script
                            /\ policy[p].conf = file.policies[p].conf
                      /\ policy[p] # None =>
                           \/ policy[p].active = file.policies[p].active
                           \/ Apply!St(3, "toggle", p, file.policies[p].active, policy[p].id) \in Apply!Plan
    BY <1>1 DEF ApPolicies, Apply!St
  <2>1. Apply!PlanPolicies \subseteq Apply!Plan
    BY DEF Apply!Plan
  <2> QED
    BY <2>1 DEF Apply!PlanPolicies, Apply!PolicyChanged
<1>5. ApGroups'
  <2> SUFFICES ASSUME NEW g \in Group, file.groups[g] # None, Apply!St(4, "group", g, None, 0) \notin Apply!Plan
               PROVE  group[g] # None /\ file.groups[g].color \in {None, group[g].color}
    BY <1>1 DEF ApGroups, Apply!St
  <2> QED
    BY DEF Apply!Plan, Apply!PlanGroups
<1>6. ApRules'
  <2> SUFFICES ASSUME NEW g \in Group, file.groups[g] # None, file.groups[g].software # None, NEW x \in ProgramName
               PROVE  ApRule(g, x, file.groups[g].software[x])'
    BY <1>1 DEF ApRules
  <2>1. ApSteps(g, x)' = {st \in Apply!Plan : ApIsRule(st, g, x)} /\ ApRulesOf(g, x)' = ApRulesOf(g, x)
    BY <1>1 DEF ApSteps, ApRulesOf, ApIsRule
  <2> QED
    BY <1>1, <2>1, ApPlannedRule DEF ApRule
<1>7. ApAssigned'
  <2> SUFFICES ASSUME NEW g \in Group, file.groups[g] # None, file.groups[g].policies # None, NEW p \in Policy
               PROVE  \/ p \in file.groups[g].policies <=> <<p, g>> \in assigned
                      \/ p \in file.groups[g].policies /\ Apply!St(7, "assign", g, p, 0) \in Apply!Plan
                      \/ p \notin file.groups[g].policies /\ Apply!St(8, "unassign", g, p, 0) \in Apply!Plan
    BY <1>1 DEF ApAssigned, Apply!St
  <2>1. Apply!PlanAssignments(g) \subseteq Apply!Plan
    BY DEF Apply!Plan
  <2> QED
    BY <2>1 DEF Apply!PlanAssignments, Apply!GroupNames
<1> QED
  BY <1>2, <1>3, <1>4, <1>5, <1>6, <1>7 DEF ApQuiet

\* The run reads the server and plans.
LEMMA ApPlanStep == ASSUME ApInv, Apply!ApplyPlan PROVE ApInv'
<1>1. ApServer /\ ApStored /\ ApRun /\ ApPlan /\ file \in Apply!File
  BY ApTypesAre DEF ApInv, ApRun
<1>2. /\ plan' = Apply!Plan /\ known' = Apply!ReadIds /\ file' = file /\ script' = script
      /\ policy' = policy /\ group' = group /\ rules' = rules /\ assigned' = assigned /\ ids' = ids
      /\ edits' = edits /\ failures' = failures /\ pc' \in {"ok", "planned"} /\ (pc' = "ok" => plan' = {})
      /\ switched' \subseteq Policy /\ quiet' \in BOOLEAN
  BY DEF Apply!ApplyPlan, Apply!server
<1>3. \A st \in Apply!Plan : ApFits(st, file, Apply!ReadIds) /\ st \in Apply!Step
  BY <1>1, ApPlanFits, ApFitsStep
<1>4. ApRun'
  BY <1>1, <1>2, <1>3, ApReads DEF ApRun
<1>5. ApServer' /\ ApStored'
  BY <1>1, <1>2 DEF ApServer, ApStored
<1>6. ApPlan'
  BY <1>2, <1>3, ApPlanSwitched DEF ApPlan
<1>7. Apply!TypeOK'
  BY <1>4, <1>5 DEF Apply!TypeOK, ApServer, ApRun
<1> QED
  BY <1>1, <1>5, <1>6, <1>7, ApPlannedAll DEF ApInv

\* What leaves the server, the plan and the ids alone, or gives the plan up.
LEMMA ApOtherSteps ==
  ASSUME ApInv,
         \/ Apply!RunApply \/ Apply!DryRun \/ Apply!Finish \/ Apply!ExportConfig
         \/ \E f \in Files : Apply!ChangeFile(f)
         \/ \E st \in plan : Apply!StepFails(st)
  PROVE  ApInv'
<1>1. ApServer /\ ApStored /\ ApRun /\ ApPlan
  BY ApTypesAre DEF ApInv
<1>2. /\ script' = script /\ policy' = policy /\ group' = group /\ rules' = rules /\ assigned' = assigned
      /\ ids' = ids /\ known' = known /\ switched' = switched /\ quiet' = quiet
  BY DEF Apply!RunApply, Apply!DryRun, Apply!Finish, Apply!ExportConfig,
     Apply!ChangeFile, Apply!StepFails, Apply!server
<1>3. /\ edits' \in 0..MaxCalls /\ failures' \in 0..MaxFailures
  <2>1. edits \in 0..MaxCalls /\ failures \in 0..MaxFailures
    BY <1>1 DEF ApRun
  <2>2. edits' = edits \/ (edits < MaxCalls /\ edits' = edits + 1)
    BY DEF Apply!RunApply, Apply!DryRun, Apply!Finish, Apply!ExportConfig,
       Apply!ChangeFile, Apply!StepFails
  <2>3. failures' = failures \/ (failures < MaxFailures /\ failures' = failures + 1)
    BY DEF Apply!RunApply, Apply!DryRun, Apply!Finish, Apply!ExportConfig,
       Apply!ChangeFile, Apply!StepFails, Apply!Fault, Apply!NoFault
  <2>4. edits' \in 0..MaxCalls
    BY <2>1, <2>2, ApplyAssumption
  <2>5. failures' \in 0..MaxFailures
    <3>1. MaxFailures \in Nat
      BY ListingAssumption
    <3> QED
      BY <2>1, <2>3, <3>1
  <2> QED
    BY <2>4, <2>5
<1>4. \/ file' = file /\ plan' = plan /\ pc' = "run" /\ pc = "planned"
      \/ file' = file /\ plan' = {} /\ pc' = "idle"
      \/ file' = file /\ plan' = plan /\ pc' = "ok" /\ pc = "run" /\ plan = {}
      \/ file' \in Apply!File /\ plan' = plan /\ pc' = "idle" /\ pc \in {"idle", "ok"}
  <2>1. CASE Apply!RunApply
    BY <2>1 DEF Apply!RunApply
  <2>2. CASE Apply!DryRun
    BY <2>2 DEF Apply!DryRun
  <2>3. CASE Apply!Finish
    BY <2>3 DEF Apply!Finish
  <2>4. CASE Apply!ExportConfig
    <3>1. /\ file' = Apply!Exported /\ plan' = plan /\ pc' = "idle" /\ pc \in {"idle", "ok"}
      BY <2>4 DEF Apply!ExportConfig
    <3> QED
      BY <1>1, <3>1, ApExports
  <2>5. ASSUME NEW f \in Files, Apply!ChangeFile(f)
        PROVE  file' \in Apply!File /\ plan' = plan /\ pc' = "idle" /\ pc \in {"idle", "ok"}
    BY <2>5, ApplyAssumption DEF Apply!ChangeFile
  <2>6. ASSUME NEW st \in plan, Apply!StepFails(st) PROVE file' = file /\ plan' = {} /\ pc' = "idle"
    BY <2>6 DEF Apply!StepFails
  <2> QED
    BY <2>1, <2>2, <2>3, <2>4, <2>5, <2>6
<1>5. ApServer' /\ ApStored'
  BY <1>1, <1>2 DEF ApServer, ApStored
<1>6. ApRun'
  BY <1>1, <1>2, <1>3, <1>4 DEF ApRun
<1>7. ApPlan'
  BY <1>1, <1>2, <1>4 DEF ApPlan, ApSwitched
<1>8. quiet' /\ pc' # "idle" => ApQuiet'
  <2> SUFFICES ASSUME quiet', pc' # "idle" PROVE ApQuiet'
    OBVIOUS
  <2>1. file' = file /\ plan' = plan /\ pc # "idle" /\ quiet
    BY <1>2, <1>4
  <2>2. ApQuiet
    BY <2>1 DEF ApInv
  <2>3. ApKnown' /\ ApScripts' /\ ApPolicies' /\ ApGroups'
    BY <1>2, <2>1, <2>2 DEF ApQuiet, ApKnown, ApScripts, ApPolicies, ApGroups,
       Apply!IdOf, Apply!St, Apply!CanonicalPlatform
  <2>4. ApRules'
    <3>1. rules' = rules /\ file' = file /\ plan' = plan
      BY <1>2, <2>1
    <3>2. \A g, x : ApSteps(g, x)' = ApSteps(g, x) /\ ApRulesOf(g, x)' = ApRulesOf(g, x)
      BY <3>1 DEF ApSteps, ApRulesOf, ApIsRule
    <3> QED
      BY <2>2, <3>1, <3>2 DEF ApQuiet, ApRules, ApRule
  <2>5. ApAssigned'
    BY <1>2, <2>1, <2>2 DEF ApQuiet, ApAssigned, Apply!St
  <2> QED
    BY <2>3, <2>4, <2>5 DEF ApQuiet
<1>9. Apply!TypeOK'
  BY <1>5, <1>6 DEF Apply!TypeOK, ApServer, ApRun
<1> QED
  BY <1>5, <1>7, <1>8, <1>9 DEF ApInv

\* The ids matter to the steps of groups only.
LEMMA ApFitsKept ==
  ASSUME NEW f, NEW k \in [Apply!Name -> Apply!Id \cup {0}], NEW n, NEW i, NEW q, ApFits(q, f, k),
         n \in Group /\ q = Apply!St(4, "group", n, None, 0) => i = k[n]
  PROVE  ApFits(q, f, [k EXCEPT ![n] = i])
<1> DEFINE kk == [k EXCEPT ![n] = i]
<1>1. \A g \in Group : q = Apply!St(4, "group", g, None, 0) => kk[g] = k[g]
  BY DEF Apply!Name
<1> HIDE DEF kk
<1>2. ASSUME NEW g \in Group, f.groups[g] # None, q = Apply!St(4, "group", g, None, 0),
             k[g] = 0 \/ f.groups[g].color # None
      PROVE  ApFits(q, f, kk)
  <2>1. kk[g] = 0 \/ f.groups[g].color # None
    BY <1>1, <1>2
  <2> QED
    BY <1>2, <2>1, Zenon DEF ApFits
<1>3. ~(\E g \in Group : /\ f.groups[g] # None /\ q = Apply!St(4, "group", g, None, 0)
                         /\ k[g] = 0 \/ f.groups[g].color # None)
      => ApFits(q, f, kk)
  BY Zenon DEF ApFits
<1>4. ApFits(q, f, kk)
  BY <1>2, <1>3, Zenon
<1> QED
  BY <1>4 DEF kk

\* A step that a step leaves for later.
ApLater(q) ==
  /\ ApFits(q, file, known) /\ \A g \in Group : q # Apply!St(4, "group", g, None, 0)
  /\ ~(q.do = "toggle" /\ q.what = TRUE)

\* A call that is answered, or whose answer is lost.
LEMMA ApAnswer ==
  ASSUME ApRun, ApPlan, pc = "run", NEW st \in plan, NEW rest, NEW n \in Apply!Name, NEW i \in Apply!Id \cup {0},
         Apply!Answered(st, rest, n, i), UNCHANGED <<file, switched, quiet, edits>>,
         n \notin Group \/ i = known[n] \/ st = Apply!St(4, "group", n, None, 0),
         \A q \in rest : ApLater(q)
  PROVE  /\ ApRun' /\ ApPlan'
         /\ \/ pc' = "idle"
            \/ pc' = "run" /\ plan' = (plan \ {st}) \cup rest /\ known' = [known EXCEPT ![n] = i]
<1> USE DEF ApRun
<1>1. CASE plan' = {} /\ pc' = "idle" /\ Apply!Fault /\ UNCHANGED known
  <2>1. failures' \in 0..MaxFailures
    <3>1. MaxFailures \in Nat
      BY ListingAssumption
    <3> QED
      BY <1>1, <3>1 DEF Apply!Fault
  <2>2. ApRun'
    BY <1>1, <2>1
  <2> QED
    BY <1>1, <2>2 DEF ApPlan, ApSwitched
<1>2. CASE /\ plan' = (plan \ {st}) \cup rest /\ known' = [known EXCEPT ![n] = i]
           /\ UNCHANGED pc /\ Apply!NoFault
  <2>1. \A q \in plan' : ApFits(q, file, known) /\ (n \in Group /\ q = Apply!St(4, "group", n, None, 0) => i = known[n])
    BY <1>2 DEF ApPlan, ApLater
  <2>2. \A q \in plan' : ApFits(q, file', known')
    BY <1>2, <2>1, ApFitsKept
  <2>3. plan' \subseteq Apply!Step
    BY <2>2, ApFitsStep
  <2>4. known' \in [Apply!Name -> Apply!Id \cup {0}]
    BY <1>2
  <2>5. ApRun'
    BY <1>2, <2>3, <2>4 DEF Apply!NoFault
  <2>6. ApSwitched'
    BY <1>2 DEF ApPlan, ApSwitched, ApLater
  <2> QED
    BY <1>2, <2>2, <2>5, <2>6 DEF ApPlan
<1> QED
  BY <1>1, <1>2 DEF Apply!Answered

\* What a step leaves alone goes on as promised.
ApTaken(st, rest) == plan' = (plan \ {st}) \cup rest

\* A step about something else leaves the scripts still to be written planned.
LEMMA ApScriptsKept ==
  ASSUME ApScripts, UNCHANGED <<file, script>>, NEW st, NEW rest, ApTaken(st, rest), st.do # "script"
  PROVE  ApScripts'
<1>1. \A s \in Script : Apply!St(1, "script", s, None, 0) \in plan => Apply!St(1, "script", s, None, 0) \in plan'
  BY DEF ApTaken, Apply!St
<1> QED
  BY <1>1 DEF ApScripts, Apply!St, Apply!CanonicalPlatform

\* A step about something else leaves what policies still need planned.
LEMMA ApPoliciesKept ==
  ASSUME ApPolicies, UNCHANGED <<file, policy, switched>>, NEW st, NEW rest, ApTaken(st, rest), st.do \notin {"policy", "toggle"}
  PROVE  ApPolicies'
<1>1. \A p, b, i : \A n \in {0, 3} :
        Apply!St(n, "toggle", p, b, i) \in plan => Apply!St(n, "toggle", p, b, i) \in plan'
  BY DEF ApTaken, Apply!St
<1>2. \A p : Apply!St(2, "policy", p, None, 0) \in plan => Apply!St(2, "policy", p, None, 0) \in plan'
  BY DEF ApTaken, Apply!St
<1> QED
  BY <1>1, <1>2 DEF ApPolicies, Apply!St

\* A step about something else leaves what groups still need planned.
LEMMA ApGroupsKept ==
  ASSUME ApGroups, UNCHANGED <<file, group>>, NEW st, NEW rest, ApTaken(st, rest), st.do # "group"
  PROVE  ApGroups'
<1>1. \A g : Apply!St(4, "group", g, None, 0) \in plan => Apply!St(4, "group", g, None, 0) \in plan'
  BY DEF ApTaken, Apply!St
<1> QED
  BY <1>1 DEF ApGroups, Apply!St

\* A step about something else leaves what rules still need planned.
LEMMA ApRulesKept ==
  ASSUME ApRules, UNCHANGED <<file, rules>>, NEW st, NEW rest, ApTaken(st, rest),
         \A q \in {st} \cup rest : q.do \notin {"add", "replace", "drop"}
  PROVE  ApRules'
<1>1. \A g, x : {q \in plan' : ApIsRule(q, g, x)} = ApSteps(g, x)
  BY DEF ApTaken, ApSteps, ApIsRule
<1>2. \A g, x : ApSteps(g, x)' = ApSteps(g, x) /\ ApRulesOf(g, x)' = ApRulesOf(g, x)
  BY <1>1 DEF ApSteps, ApRulesOf, ApIsRule
<1>3. \A g, x : ApSteps(g, x) \cap plan = ApSteps(g, x) /\ ApSteps(g, x) \cap plan' = ApSteps(g, x)
  BY <1>1 DEF ApSteps
<1>4. ASSUME NEW g, NEW x, NEW want, ApRule(g, x, want) PROVE ApRule(g, x, want)'
  <2>1. CASE ApSteps(g, x) = {} /\ {r.type : r \in ApRulesOf(g, x)} = {want} \ {None}
    BY <1>2, <2>1 DEF ApRule
  <2>2. ASSUME NEW q \in plan, ApSteps(g, x) = {q}, q.do = "add", ApRulesOf(g, x) = {}
        PROVE  ApRule(g, x, want)'
    <3>1. q \in plan'
      BY <1>3, <2>2
    <3> QED
      BY <1>2, <2>2, <3>1 DEF ApRule
  <2>3. ASSUME NEW q \in plan, NEW r \in rules, ApSteps(g, x) = {q}, ApRulesOf(g, x) = {r},
               q.do \in {"replace", "drop"}, q.id = r.id
        PROVE  ApRule(g, x, want)'
    <3>1. q \in plan' /\ r \in rules'
      BY <1>3, <2>3
    <3> QED
      BY <1>2, <2>3, <3>1 DEF ApRule
  <2> QED
    BY <1>4, <2>1, <2>2, <2>3 DEF ApRule
<1> QED
  BY <1>4 DEF ApRules

\* A step about something else leaves the assignments still needed planned.
LEMMA ApAssignedKept ==
  ASSUME ApAssigned, UNCHANGED <<file, assigned>>, NEW st, NEW rest, ApTaken(st, rest),
         st.do \notin {"assign", "unassign"}
  PROVE  ApAssigned'
<1>1. \A g, p : /\ Apply!St(7, "assign", g, p, 0) \in plan => Apply!St(7, "assign", g, p, 0) \in plan'
                /\ Apply!St(8, "unassign", g, p, 0) \in plan => Apply!St(8, "unassign", g, p, 0) \in plan'
  BY DEF ApTaken, Apply!St
<1> QED
  BY <1>1 DEF ApAssigned, Apply!St

\* What a step of the run is.
LEMMA ApDoes ==
  ASSUME NEW st, Apply!Do(st)
  PROVE  /\ pc = "run" /\ st \in plan /\ UNCHANGED <<file, switched, quiet, edits>>
         /\ st.do = "script" => Apply!StepScript(st)
         /\ st.do = "policy" => Apply!StepPolicy(st)
         /\ st.do = "toggle" => Apply!StepToggle(st)
         /\ st.do = "group" => Apply!StepGroup(st)
         /\ st.do \in {"add", "replace", "drop"} => Apply!StepRule(st)
         /\ st.do \in {"assign", "unassign"} => Apply!StepAssignment(st)
BY DEF Apply!Do, Apply!StepMade

\* The parts of the invariant are the whole of it.
LEMMA ApWhole ==
  ASSUME ApServer', ApStored', ApRun', ApPlan', quiet' /\ pc' # "idle" => ApQuiet'
  PROVE  ApInv'
<1>1. Apply!TypeOK'
  BY DEF Apply!TypeOK, ApServer, ApRun
<1> QED
  BY <1>1 DEF ApInv

\* A script is made or written.
LEMMA ApDoScript ==
  ASSUME ApInv, NEW st, Apply!Do(st), NEW s \in Script, file.scripts[s] # None,
         st = Apply!St(1, "script", s, None, 0)
  PROVE  ApInv'
<1> DEFINE f == file.scripts[s].platform
           c == file.scripts[s].content
           i == script'[s].id
<1>1. ApServer /\ ApStored /\ ApRun /\ ApPlan /\ f \in Apply!Platform /\ c \in Contents
  BY ApTypesAre, ApWants DEF ApInv, ApRun
<1>2. /\ pc = "run" /\ st \in plan /\ UNCHANGED <<file, switched, quiet, edits>>
      /\ Apply!CreateScript(s, f, c) \/ Apply!UpdateScript(s, known[s], f, c)
      /\ Apply!Answered(st, {}, s, i)
  BY ApDoes DEF Apply!St, Apply!StepScript
<1>3. ApServer' /\ ApStored'
  BY <1>1, <1>2, ApScriptCalls
<1>4. /\ UNCHANGED <<policy, group, rules, assigned>>
      /\ \A t \in Script : t # s => script'[t] = script[t]
      /\ script'[s] # None /\ script'[s].content = c /\ script'[s].platform = Apply!CanonicalPlatform(f)
  <2>1. ids' \in Apply!Id \/ Apply!UpdateScript(s, known[s], f, c)
    BY <1>1, <1>2, ApNewId DEF Apply!CreateScript, ApServer
  <2>2. \E k : /\ script' = [script EXCEPT ![s] = [id |-> k, platform |-> Apply!CanonicalPlatform(f), content |-> c]]
               /\ UNCHANGED <<policy, group, rules, assigned>>
    BY <1>2 DEF Apply!CreateScript, Apply!UpdateScript
  <2>3. /\ \A t \in Script : t # s => script'[t] = script[t]
        /\ script'[s].content = c /\ script'[s].platform = Apply!CanonicalPlatform(f)
    BY <1>1, <2>2 DEF ApServer
  <2>4. script'[s] # None
    <3>1. CASE Apply!CreateScript(s, f, c)
      <4>1. script'[s] = [id |-> ids', platform |-> Apply!CanonicalPlatform(f), content |-> c] /\ ids' \in Apply!Id
        BY <1>1, <3>1, ApNewId DEF Apply!CreateScript, ApServer
      <4> QED
        BY <1>1, <4>1, ApRowMade
    <3>2. CASE Apply!UpdateScript(s, known[s], f, c)
      <4>1. script'[s] = [id |-> known[s], platform |-> Apply!CanonicalPlatform(f), content |-> c]
            /\ known[s] \in Apply!Id
        BY <1>1, <3>2 DEF Apply!UpdateScript, ApServer, Apply!ScriptRow
      <4> QED
        BY <1>1, <4>1, ApRowMade
    <3> QED
      BY <1>2, <3>1, <3>2
  <2> QED
    BY <2>2, <2>3, <2>4
<1>5. i \in Apply!Id
  BY <1>3, <1>4 DEF ApServer, Apply!ScriptRow
<1>6. s \in Apply!Name /\ s \notin Group /\ s \notin Policy
  BY ApplyAssumption DEF Apply!Name
<1>7. /\ ApRun' /\ ApPlan'
      /\ \/ pc' = "idle"
         \/ pc' = "run" /\ ApTaken(st, {}) /\ known' = [known EXCEPT ![s] = i]
  <2>1. \A q \in {} : ApLater(q)
    OBVIOUS
  <2>2. i \in Apply!Id \cup {0} /\ s \in Apply!Name /\ s \notin Group
    BY <1>5, <1>6
  <2>3. pc = "run" /\ st \in plan /\ UNCHANGED <<file, switched, quiet, edits>> /\ Apply!Answered(st, {}, s, i)
    BY <1>2
  <2> HIDE DEF i
  <2>4. /\ ApRun' /\ ApPlan'
        /\ \/ pc' = "idle"
           \/ pc' = "run" /\ plan' = (plan \ {st}) \cup {} /\ known' = [known EXCEPT ![s] = i]
    BY <1>1, <2>1, <2>2, <2>3, ApAnswer
  <2> QED
    BY <2>4 DEF ApTaken
<1>8. ASSUME quiet', pc' # "idle" PROVE ApQuiet'
  <2>1. ApQuiet /\ ApTaken(st, {}) /\ known' = [known EXCEPT ![s] = i] /\ st.do = "script"
    BY <1>2, <1>7, <1>8 DEF ApInv, Apply!St
  <2>2. ApKnown'
    BY <1>1, <1>4, <1>6, <2>1 DEF ApQuiet, ApKnown, ApRun, Apply!IdOf,
       Apply!Name
  <2>3. \A t \in Script : t # s /\ Apply!St(1, "script", t, None, 0) \in plan
                          => Apply!St(1, "script", t, None, 0) \in plan'
    BY <2>1 DEF ApTaken, Apply!St
  <2>4. ApScripts'
    BY <1>2, <1>4, <2>1, <2>3 DEF ApQuiet, ApScripts, Apply!St,
       Apply!CanonicalPlatform
  <2>5. ApPolicies' /\ ApGroups' /\ ApRules' /\ ApAssigned'
    BY <1>2, <1>4, <2>1, ApPoliciesKept, ApGroupsKept, ApRulesKept,
       ApAssignedKept DEF ApQuiet
  <2> QED
    BY <2>2, <2>4, <2>5 DEF ApQuiet
<1> QED
  BY <1>3, <1>7, <1>8, ApWhole

\* A policy is made, with the step that switches it off, or written.
LEMMA ApDoPolicy ==
  ASSUME ApInv, NEW st, Apply!Do(st), NEW p \in Policy, file.policies[p] # None,
         st = Apply!St(2, "policy", p, None, 0)
  PROVE  ApInv'
<1> DEFINE s == file.policies[p].script
           c == file.policies[p].conf
           b == file.policies[p].active
           off == IF b THEN {} ELSE {Apply!St(0, "toggle", p, FALSE, ids')}
<1>1. ApServer /\ ApStored /\ ApRun /\ ApPlan /\ s \in Script /\ c \in Contents /\ b \in BOOLEAN
  BY ApTypesAre, ApWants DEF ApInv, ApRun
<1>2. /\ pc = "run" /\ st \in plan /\ UNCHANGED <<file, switched, quiet, edits>>
      /\ \/ Apply!CreateScriptPolicy(p, s, known[s], c) /\ Apply!Answered(st, off, p, ids')
         \/ Apply!UpdateScriptPolicy(p, known[p], s, known[s], c) /\ Apply!Answered(st, {}, p, known[p])
  <2>1. st.do = "policy" /\ st.name = p
    BY DEF Apply!St
  <2>2. pc = "run" /\ st \in plan /\ UNCHANGED <<file, switched, quiet, edits>> /\ Apply!StepPolicy(st)
    BY <2>1, ApDoes
  <2>3. known[p] = 0 => Apply!Rest(st, ids') = off
    BY <2>1 DEF Apply!Rest
  <2> HIDE DEF off
  <2> QED
    BY <2>1, <2>2, <2>3 DEF Apply!StepPolicy
<1>3. p \in Apply!Name /\ p \notin Group /\ p \notin Script
  BY ApplyAssumption DEF Apply!Name
<1>4. ApServer' /\ ApStored'
  BY <1>1, <1>2, ApPolicyWrite
<1> HIDE DEF s, c, b

\* What is left to be shown of either call.
<1> DEFINE Done(rest, i) ==
      /\ UNCHANGED <<script, group, rules, assigned>> /\ \A t \in Policy : t # p => policy'[t] = policy[t]
      /\ policy'[p] # None /\ policy'[p].script = s /\ policy'[p].conf = c /\ policy'[p].id = i
      /\ \A q \in rest : q.do = "toggle" /\ q.what = FALSE
      /\ quiet => \/ policy'[p].active = b
                  \/ Apply!St(0, "toggle", p, b, i) \in rest
                  \/ policy[p] # None /\ policy[p].id = i /\ policy'[p].active = policy[p].active
<1>5. ASSUME NEW rest, NEW i \in Apply!Id, Apply!Answered(st, rest, p, i), Done(rest, i),
             \A q \in rest : ApFits(q, file, known)
      PROVE  ApInv'
  <2>1. \A q \in rest : ApLater(q)
    BY <1>5 DEF ApLater, Apply!St
  <2>2. /\ ApRun' /\ ApPlan'
        /\ pc' = "idle" \/ (pc' = "run" /\ ApTaken(st, rest) /\ known' = [known EXCEPT ![p] = i])
    <3>1. i \in Apply!Id \cup {0} /\ p \notin Group
      BY <1>3, <1>5
    <3>2. pc = "run" /\ st \in plan /\ UNCHANGED <<file, switched, quiet, edits>> /\ Apply!Answered(st, rest, p, i)
      BY <1>2, <1>5
    <3> QED
      BY <1>1, <1>3, <2>1, <3>1, <3>2, ApAnswer DEF ApTaken
  <2>3. ASSUME quiet', pc' # "idle" PROVE ApQuiet'
    <3>1. ApQuiet /\ quiet /\ ApTaken(st, rest) /\ known' = [known EXCEPT ![p] = i] /\ st.do = "policy"
      BY <1>2, <2>2, <2>3 DEF ApInv, Apply!St
    <3>2. ApKnown'
      BY <1>1, <1>3, <1>5, <3>1 DEF ApQuiet, ApKnown, ApRun, Apply!IdOf,
         Apply!Name
    <3>3. ApPolicies'
      <4>1. /\ \A t \in Policy : t # p /\ Apply!St(2, "policy", t, None, 0) \in plan
                                 => Apply!St(2, "policy", t, None, 0) \in plan'
            /\ \A t, k, d : \A n \in {0, 3} : Apply!St(n, "toggle", t, d, k) \in plan
                                              => Apply!St(n, "toggle", t, d, k) \in plan'
        BY <3>1 DEF ApTaken, Apply!St
      <4>2. rest \subseteq plan'
        BY <3>1 DEF ApTaken
      <4>3. ASSUME NEW t \in Policy, t # p, file'.policies[t] # None
            PROVE  /\ \/ Apply!St(2, "policy", t, None, 0) \in plan'
                      \/ /\ policy'[t] # None /\ policy'[t].script = file'.policies[t].script
                         /\ policy'[t].conf = file'.policies[t].conf
                   /\ policy'[t] # None =>
                        \/ policy'[t].active = file'.policies[t].active
                        \/ \E n \in {0, 3} :
                             Apply!St(n, "toggle", t, file'.policies[t].active, policy'[t].id) \in plan'
                        \/ file'.policies[t].active /\ t \in switched'
        BY <1>2, <1>5, <3>1, <4>1, <4>3 DEF ApQuiet, ApPolicies
      <4>4. \/ policy'[p].active = file'.policies[p].active
            \/ \E n \in {0, 3} : Apply!St(n, "toggle", p, file'.policies[p].active, policy'[p].id) \in plan'
            \/ file'.policies[p].active /\ p \in switched'
        <5>1. \/ policy'[p].active = b
              \/ Apply!St(0, "toggle", p, b, i) \in plan'
              \/ \E n \in {0, 3} : Apply!St(n, "toggle", p, b, i) \in plan'
              \/ b /\ p \in switched
          <6>1. policy[p] # None => \/ policy[p].active = b
                                    \/ \E n \in {0, 3} : Apply!St(n, "toggle", p, b, policy[p].id) \in plan
                                    \/ b /\ p \in switched
            BY <3>1 DEF ApQuiet, ApPolicies, b
          <6> QED
            BY <1>5, <3>1, <4>1, <4>2, <6>1
        <5> QED
          BY <1>2, <1>5, <5>1 DEF b
      <4>5. policy'[p].script = file'.policies[p].script /\ policy'[p].conf = file'.policies[p].conf
        BY <1>2, <1>5 DEF s, c
      <4> QED
        BY <1>5, <4>3, <4>4, <4>5 DEF ApPolicies, Apply!St
    <3>4. ApScripts' /\ ApGroups' /\ ApRules' /\ ApAssigned'
      BY <1>2, <1>5, <3>1, ApScriptsKept, ApGroupsKept, ApRulesKept,
         ApAssignedKept DEF ApQuiet
    <3> QED
      BY <3>2, <3>3, <3>4 DEF ApQuiet
  <2> QED
    BY <1>4, <2>2, <2>3, ApWhole
<1> HIDE DEF off
<1>6. CASE Apply!CreateScriptPolicy(p, s, known[s], c) /\ Apply!Answered(st, off, p, ids')
  <2>1. /\ policy' = [policy EXCEPT ![p] = [id |-> ids', script |-> s, conf |-> c, active |-> TRUE]]
        /\ UNCHANGED <<script, group, rules, assigned>> /\ ids' \in Apply!Id
    BY <1>1, <1>6, ApNewId DEF Apply!CreateScriptPolicy, ApServer
  <2>2. policy'[p] # None
    <3>1. policy'[p] = [id |-> ids', script |-> s, conf |-> c, active |-> TRUE]
      BY <1>1, <2>1 DEF ApServer
    <3>2. [id |-> ids', script |-> s, conf |-> c, active |-> TRUE] \in Apply!PolicyRow
      BY <1>1, <2>1 DEF Apply!PolicyRow
    <3> QED
      BY <3>1, <3>2, ApplyAssumption
  <2>3. /\ \A q \in off : q.do = "toggle" /\ q.what = FALSE /\ ApFits(q, file, known)
        /\ b \/ Apply!St(0, "toggle", p, b, ids') \in off
    <3>1. CASE b
      BY <3>1 DEF off
    <3>2. CASE ~b
      <4>1. b = FALSE /\ off = {Apply!St(0, "toggle", p, b, ids')}
        BY <1>1, <3>2 DEF off
      <4>2. ApFits(Apply!St(0, "toggle", p, b, ids'), file, known)
        BY <2>1 DEF ApFits, b
      <4> QED
        BY <4>1, <4>2 DEF Apply!St
    <3> QED
      BY <3>1, <3>2
  <2>4. Done(off, ids')
    BY <1>1, <2>1, <2>2, <2>3 DEF ApServer
  <2> QED
    BY <1>5, <1>6, <2>1, <2>3, <2>4
<1>7. CASE Apply!UpdateScriptPolicy(p, known[p], s, known[s], c) /\ Apply!Answered(st, {}, p, known[p])
  <2>1. /\ policy[p] # None /\ policy[p].id = known[p] /\ policy[p] \in Apply!PolicyRow
        /\ policy' = [policy EXCEPT ![p].script = s, ![p].conf = c]
        /\ UNCHANGED <<script, group, rules, assigned>>
    BY <1>1, <1>7 DEF Apply!UpdateScriptPolicy, ApServer
  <2>2. /\ \A t \in Policy : t # p => policy'[t] = policy[t]
        /\ policy'[p] = [policy[p] EXCEPT !.script = s, !.conf = c]
    BY <1>1, <2>1 DEF ApServer
  <2>3. /\ policy'[p] \in Apply!PolicyRow /\ policy'[p].script = s /\ policy'[p].conf = c
        /\ policy'[p].id = known[p] /\ policy'[p].active = policy[p].active
    <3>1. ASSUME NEW z \in Apply!PolicyRow
          PROVE  LET w == [z EXCEPT !.script = s, !.conf = c]
                 IN  /\ w \in Apply!PolicyRow /\ w.script = s /\ w.conf = c
                     /\ w.id = z.id /\ w.active = z.active
      BY <1>1 DEF Apply!PolicyRow
    <3> QED
      BY <2>1, <2>2, <3>1
  <2>4. known[p] \in Apply!Id /\ policy'[p] # None
    BY <2>1, <2>3, ApplyAssumption DEF Apply!PolicyRow
  <2>5. Done({}, known[p])
    BY <2>1, <2>2, <2>3, <2>4
  <2> HIDE DEF Done
  <2>6. \A q \in {} : ApFits(q, file, known)
    OBVIOUS
  <2> QED
    BY <1>5, <1>7, <2>4, <2>5, <2>6
<1> QED
  BY <1>2, <1>6, <1>7

\* What a call that writes no id leaves of the run and of the ids.
LEMMA ApAnswerSame ==
  ASSUME ApInv, pc = "run", NEW st \in plan, NEW rest, NEW n \in Apply!Name,
         Apply!Answered(st, rest, n, known[n]), UNCHANGED <<file, switched, quiet, edits>>,
         \A q \in rest : ApFits(q, file, known) /\ q.do = "add"
  PROVE  /\ ApRun' /\ ApPlan'
         /\ pc' = "idle" \/ (pc' = "run" /\ ApTaken(st, rest) /\ known' = known)
<1>1. ApRun /\ ApPlan
  BY ApTypesAre DEF ApInv
<1>2. \A q \in rest : ApLater(q)
  BY DEF ApLater, Apply!St
<1>3. known[n] \in Apply!Id \cup {0} /\ [known EXCEPT ![n] = known[n]] = known
  BY <1>1 DEF ApRun
<1> QED
  BY <1>1, <1>2, <1>3, ApAnswer DEF ApTaken

\* A policy is switched off, if it is still the one the step is about.
LEMMA ApDoToggle ==
  ASSUME ApInv, NEW st, Apply!Do(st), NEW p \in Policy, file.policies[p] # None,
         NEW i \in Apply!Id, NEW m \in {0, 3}, st = Apply!St(m, "toggle", p, file.policies[p].active, i)
  PROVE  ApInv'
<1> DEFINE b == file.policies[p].active
<1>1. ApServer /\ ApStored /\ ApRun /\ ApPlan /\ b \in BOOLEAN
  BY ApTypesAre, ApWants DEF ApInv, ApRun
<1>2. /\ pc = "run" /\ st \in plan /\ UNCHANGED <<file, switched, quiet, edits>>
      /\ Apply!ToggleScriptPolicy(p, i, FALSE) /\ Apply!Answered(st, {}, p, known[p])
  <2>1. st.do = "toggle" /\ st.name = p /\ st.id = i
    BY DEF Apply!St
  <2>2. pc = "run" /\ st \in plan /\ UNCHANGED <<file, switched, quiet, edits>> /\ Apply!StepToggle(st)
    BY <2>1, ApDoes
  <2> QED
    BY <2>1, <2>2 DEF Apply!StepToggle
<1>3. ApServer' /\ ApStored'
  BY <1>1, <1>2, ApPolicyToggle
<1>4. /\ UNCHANGED <<script, group, rules, assigned>>
      /\ \A t \in Policy : t # p => policy'[t] = policy[t]
      /\ policy'[p] # None <=> policy[p] # None
      /\ policy[p] # None => /\ policy'[p].id = policy[p].id /\ policy'[p].script = policy[p].script
                             /\ policy'[p].conf = policy[p].conf
                             /\ policy'[p].active = IF policy[p].id = i THEN FALSE ELSE policy[p].active
  <2>1. UNCHANGED <<script, group, rules, assigned>>
    BY <1>2 DEF Apply!ToggleScriptPolicy
  <2>2. CASE policy[p] # None /\ policy[p].id = i
    <3>1. policy' = [policy EXCEPT ![p].active = FALSE] /\ policy[p] \in Apply!PolicyRow
      BY <1>1, <1>2, <2>2 DEF Apply!ToggleScriptPolicy, ApServer
    <3>2. /\ \A t \in Policy : t # p => policy'[t] = policy[t]
          /\ policy'[p] = [policy[p] EXCEPT !.active = FALSE]
      BY <1>1, <3>1 DEF ApServer
    <3>3. ASSUME NEW z \in Apply!PolicyRow
          PROVE  LET w == [z EXCEPT !.active = FALSE]
                 IN  w \in Apply!PolicyRow /\ w.active = FALSE /\ w.script = z.script /\ w.conf = z.conf /\ w.id = z.id
      BY <1>1 DEF Apply!PolicyRow
    <3> QED
      BY <2>1, <2>2, <3>1, <3>2, <3>3, ApplyAssumption
  <2>3. CASE ~(policy[p] # None /\ policy[p].id = i)
    BY <1>2, <2>1, <2>3 DEF Apply!ToggleScriptPolicy
  <2> QED
    BY <2>2, <2>3
<1>5. p \in Apply!Name
  BY DEF Apply!Name
<1>6. /\ ApRun' /\ ApPlan'
      /\ pc' = "idle" \/ (pc' = "run" /\ ApTaken(st, {}) /\ known' = known)
  BY <1>2, <1>5, ApAnswerSame
<1>7. ASSUME quiet', pc' # "idle" PROVE ApQuiet'
  <2>1. ApQuiet /\ ApTaken(st, {}) /\ known' = known /\ st.do = "toggle"
    BY <1>2, <1>6, <1>7 DEF ApInv, Apply!St
  <2>2. ApKnown'
    BY <1>4, <2>1 DEF ApQuiet, ApKnown, Apply!IdOf
  <2>3. /\ \A t : Apply!St(2, "policy", t, None, 0) \in plan => Apply!St(2, "policy", t, None, 0) \in plan'
        /\ \A t, k, d : \A n \in {0, 3} :
             (t # p \/ k # i) /\ Apply!St(n, "toggle", t, d, k) \in plan => Apply!St(n, "toggle", t, d, k) \in plan'
    BY <2>1 DEF ApTaken, Apply!St
  <2>4. ASSUME NEW t \in Policy, file'.policies[t] # None
        PROVE  /\ \/ Apply!St(2, "policy", t, None, 0) \in plan'
                  \/ /\ policy'[t] # None /\ policy'[t].script = file'.policies[t].script
                     /\ policy'[t].conf = file'.policies[t].conf
               /\ policy'[t] # None =>
                    \/ policy'[t].active = file'.policies[t].active
                    \/ \E n \in {0, 3} :
                         Apply!St(n, "toggle", t, file'.policies[t].active, policy'[t].id) \in plan'
                    \/ file'.policies[t].active /\ t \in switched'
    <3>1. /\ \/ Apply!St(2, "policy", t, None, 0) \in plan
             \/ /\ policy[t] # None /\ policy[t].script = file.policies[t].script
                /\ policy[t].conf = file.policies[t].conf
          /\ policy[t] # None =>
               \/ policy[t].active = file.policies[t].active
               \/ \E n \in {0, 3} : Apply!St(n, "toggle", t, file.policies[t].active, policy[t].id) \in plan
               \/ file.policies[t].active /\ t \in switched
      BY <1>2, <2>1, <2>4 DEF ApQuiet, ApPolicies
    <3>2. CASE t # p
      BY <1>2, <1>4, <2>3, <3>1, <3>2
    <3>3. CASE t = p
      <4>1. b => p \in switched
        BY <1>1, <1>2 DEF ApPlan, ApSwitched, Apply!St
      <4>2. ~b => b = FALSE
        BY <1>1
      <4> HIDE DEF b
      <4>3. CASE policy[p] # None /\ policy[p].id = i
        <5>1. policy'[p].active = FALSE
          BY <1>4, <4>3
        <5>2. policy'[p].active = b \/ (b /\ p \in switched)
          BY <4>1, <4>2, <5>1
        <5> QED
          BY <1>2, <1>4, <2>3, <3>1, <3>3, <5>2 DEF b
      <4>4. CASE ~(policy[p] # None /\ policy[p].id = i)
        BY <1>2, <1>4, <2>3, <3>1, <3>3, <4>4
      <4> QED
        BY <4>3, <4>4
    <3> QED
      BY <3>2, <3>3
  <2>5. ApPolicies'
    BY <2>4 DEF ApPolicies, Apply!St
  <2>6. ApScripts' /\ ApGroups' /\ ApRules' /\ ApAssigned'
    BY <1>2, <1>4, <2>1, ApScriptsKept, ApGroupsKept, ApRulesKept,
       ApAssignedKept DEF ApQuiet
  <2> QED
    BY <2>2, <2>5, <2>6 DEF ApQuiet
<1> QED
  BY <1>3, <1>6, <1>7, ApWhole

\* A group is made or painted.
LEMMA ApDoGroup ==
  ASSUME ApInv, NEW st, Apply!Do(st), NEW g \in Group, file.groups[g] # None,
         st = Apply!St(4, "group", g, None, 0), known[g] = 0 \/ file.groups[g].color # None
  PROVE  ApInv'
<1> DEFINE c == file.groups[g].color
           i == group'[g].id
<1>1. ApServer /\ ApStored /\ ApRun /\ ApPlan /\ c \in Apply!Color \cup {None}
  BY ApTypesAre, ApWants DEF ApInv, ApRun
<1>2. /\ pc = "run" /\ st \in plan /\ UNCHANGED <<file, switched, quiet, edits>>
      /\ \/ Apply!CreateDeviceGroup(g, c)
         \/ Apply!UpdateDeviceGroup(g, known[g], c) /\ c \in Apply!Color
      /\ Apply!Answered(st, {}, g, i)
  BY <1>1, ApDoes DEF Apply!St, Apply!StepGroup
<1>3. ApServer' /\ ApStored'
  BY <1>1, <1>2, ApGroupCreate, ApGroupColor
<1> HIDE DEF c
<1>4. /\ UNCHANGED <<script, policy, rules, assigned>>
      /\ \A h \in Group : h # g => group'[h] = group[h]
      /\ group'[g] # None /\ c \in {None, group'[g].color}
  <2>1. CASE Apply!CreateDeviceGroup(g, c)
    <3>1. /\ UNCHANGED <<script, policy, rules, assigned>> /\ ids' \in Apply!Id
          /\ group' = [group EXCEPT ![g] = [id |-> ids', color |-> IF c = None THEN "blue" ELSE c]]
      BY <1>1, <2>1, ApNewId DEF Apply!CreateDeviceGroup, ApServer
    <3>2. /\ \A h \in Group : h # g => group'[h] = group[h]
          /\ group'[g] = [id |-> ids', color |-> IF c = None THEN "blue" ELSE c]
      BY <1>1, <3>1 DEF ApServer
    <3>3. [id |-> ids', color |-> IF c = None THEN "blue" ELSE c] \in Apply!GroupRow
      BY <1>1, <3>1 DEF Apply!GroupRow, Apply!Color
    <3> QED
      BY <3>1, <3>2, <3>3, ApplyAssumption
  <2>2. CASE Apply!UpdateDeviceGroup(g, known[g], c) /\ c \in Apply!Color
    <3>1. /\ UNCHANGED <<script, policy, rules, assigned>> /\ group[g] \in Apply!GroupRow
          /\ group' = [group EXCEPT ![g].color = c]
      BY <1>1, <2>2 DEF Apply!UpdateDeviceGroup, ApServer
    <3>2. /\ \A h \in Group : h # g => group'[h] = group[h]
          /\ group'[g] = [group[g] EXCEPT !.color = c]
      BY <1>1, <3>1 DEF ApServer
    <3>3. \A z \in Apply!GroupRow : [z EXCEPT !.color = c] \in Apply!GroupRow /\ [z EXCEPT !.color = c].color = c
      BY <2>2 DEF Apply!GroupRow
    <3> QED
      BY <3>1, <3>2, <3>3, ApplyAssumption
  <2> QED
    BY <1>2, <2>1, <2>2
<1>5. i \in Apply!Id \cup {0}
  BY <1>3, <1>4 DEF ApServer, Apply!GroupRow
<1>6. g \in Apply!Name /\ g \notin Script /\ g \notin Policy
  BY ApplyAssumption DEF Apply!Name
<1> HIDE DEF i
<1>7. /\ ApRun' /\ ApPlan'
      /\ pc' = "idle" \/ (pc' = "run" /\ ApTaken(st, {}) /\ known' = [known EXCEPT ![g] = i])
  <2>1. \A q \in {} : ApLater(q)
    OBVIOUS
  <2>2. pc = "run" /\ st \in plan /\ UNCHANGED <<file, switched, quiet, edits>> /\ Apply!Answered(st, {}, g, i)
    BY <1>2
  <2>3. ApRun /\ ApPlan /\ g \in Apply!Name
    BY <1>1, <1>6
  <2>4. i = known[g] \/ st = Apply!St(4, "group", g, None, 0)
    OBVIOUS
  <2>5. /\ ApRun' /\ ApPlan'
        /\ \/ pc' = "idle"
           \/ pc' = "run" /\ plan' = (plan \ {st}) \cup {} /\ known' = [known EXCEPT ![g] = i]
    BY <1>5, <2>1, <2>2, <2>3, <2>4, ApAnswer
  <2> QED
    BY <2>5 DEF ApTaken
<1>8. ASSUME quiet', pc' # "idle" PROVE ApQuiet'
  <2>1. ApQuiet /\ ApTaken(st, {}) /\ known' = [known EXCEPT ![g] = i] /\ st.do = "group"
    BY <1>2, <1>7, <1>8 DEF ApInv, Apply!St
  <2>2. ApKnown'
    BY <1>1, <1>4, <1>6, <2>1 DEF ApQuiet, ApKnown, ApRun, Apply!IdOf,
       Apply!Name, i
  <2>3. \A h \in Group : h # g /\ Apply!St(4, "group", h, None, 0) \in plan
                         => Apply!St(4, "group", h, None, 0) \in plan'
    BY <2>1 DEF ApTaken, Apply!St
  <2>4. ASSUME NEW h \in Group, file'.groups[h] # None
        PROVE  \/ Apply!St(4, "group", h, None, 0) \in plan'
               \/ group'[h] # None /\ file'.groups[h].color \in {None, group'[h].color}
    <3>1. CASE h = g
      BY <1>2, <1>4, <3>1 DEF c
    <3>2. CASE h # g
      BY <1>2, <1>4, <2>1, <2>3, <2>4, <3>2 DEF ApQuiet, ApGroups
    <3> QED
      BY <3>1, <3>2
  <2>5. ApGroups'
    BY <2>4 DEF ApGroups, Apply!St
  <2>6. ApScripts' /\ ApPolicies' /\ ApRules' /\ ApAssigned'
    BY <1>2, <1>4, <2>1, ApScriptsKept, ApPoliciesKept, ApRulesKept,
       ApAssignedKept DEF ApQuiet
  <2> QED
    BY <2>2, <2>5, <2>6 DEF ApQuiet
<1> QED
  BY <1>3, <1>7, <1>8, ApWhole

\* A policy comes to a group, or leaves it.
LEMMA ApDoAssignment ==
  ASSUME ApInv, NEW st, Apply!Do(st), NEW g \in Group, NEW p \in Policy, file.groups[g] # None,
         file.groups[g].policies # None,
         \/ p \in file.groups[g].policies /\ st = Apply!St(7, "assign", g, p, 0)
         \/ p \notin file.groups[g].policies /\ st = Apply!St(8, "unassign", g, p, 0)
  PROVE  ApInv'
<1>1. ApServer /\ ApStored /\ ApRun
  BY ApTypesAre DEF ApInv
<1>2. /\ pc = "run" /\ st \in plan /\ UNCHANGED <<file, switched, quiet, edits>>
      /\ \/ st.do = "assign" /\ Apply!AssignPolicyToGroup(p, known[p], g, known[g])
         \/ st.do = "unassign" /\ Apply!UnassignPolicyFromGroup(p, known[p], g)
      /\ Apply!Answered(st, {}, g, known[g])
  BY ApDoes DEF Apply!St, Apply!StepAssignment
<1>3. ApServer' /\ ApStored'
  BY <1>1, <1>2, ApAssign, ApUnassign
<1>4. /\ UNCHANGED <<script, policy, group, rules>>
      /\ st.do = "assign" => assigned' = assigned \cup {<<p, g>>}
      /\ st.do = "unassign" => assigned' = assigned \/ assigned' = assigned \ {<<p, g>>}
  BY <1>2 DEF Apply!AssignPolicyToGroup, Apply!UnassignPolicyFromGroup
<1>5. g \in Apply!Name
  BY DEF Apply!Name
<1>6. /\ ApRun' /\ ApPlan'
      /\ pc' = "idle" \/ (pc' = "run" /\ ApTaken(st, {}) /\ known' = known)
  BY <1>2, <1>5, ApAnswerSame
<1>7. ASSUME quiet', pc' # "idle" PROVE ApQuiet'
  <2>1. ApQuiet /\ ApTaken(st, {}) /\ known' = known /\ st.do \in {"assign", "unassign"}
    BY <1>2, <1>6, <1>7 DEF ApInv
  <2>2. ApKnown'
    BY <1>4, <2>1 DEF ApQuiet, ApKnown, Apply!IdOf
  <2>3. <<p, g>> \in assigned' <=> p \in file.groups[g].policies
    <3>1. CASE st.do = "assign"
      BY <1>4, <3>1 DEF Apply!St
    <3>2. CASE st.do = "unassign" /\ policy[p] = None
      <4>1. <<p, g>> \notin assigned
        BY <1>1, <3>2 DEF ApStored
      <4> QED
        BY <1>4, <3>2, <4>1 DEF Apply!St
    <3>3. CASE st.do = "unassign" /\ policy[p] # None
      <4>1. policy[p].id = known[p]
        BY <2>1, <3>3 DEF ApQuiet, ApKnown, Apply!IdOf
      <4>2. assigned' = assigned \ {<<p, g>>}
        BY <1>2, <3>3, <4>1 DEF Apply!UnassignPolicyFromGroup
      <4> QED
        BY <3>3, <4>2 DEF Apply!St
    <3> QED
      BY <2>1, <3>1, <3>2, <3>3
  <2>4. /\ \A h, x : <<x, h>> # <<p, g>> => (<<x, h>> \in assigned' <=> <<x, h>> \in assigned)
        /\ \A h, x : /\ <<x, h>> # <<p, g>>
                     /\ Apply!St(7, "assign", h, x, 0) \in plan
                     => Apply!St(7, "assign", h, x, 0) \in plan'
        /\ \A h, x : /\ <<x, h>> # <<p, g>>
                     /\ Apply!St(8, "unassign", h, x, 0) \in plan
                     => Apply!St(8, "unassign", h, x, 0) \in plan'
    <3>1. \A h, x : <<x, h>> # <<p, g>> => (<<x, h>> \in assigned' <=> <<x, h>> \in assigned)
      BY <1>4, <2>1
    <3>2. \A h, x : <<x, h>> # <<p, g>> => /\ Apply!St(7, "assign", h, x, 0) # st
                                           /\ Apply!St(8, "unassign", h, x, 0) # st
      BY DEF Apply!St
    <3> QED
      BY <2>1, <3>1, <3>2 DEF ApTaken
  <2>5. ASSUME NEW h \in Group, NEW x \in Policy, file'.groups[h] # None, file'.groups[h].policies # None
        PROVE  \/ x \in file'.groups[h].policies <=> <<x, h>> \in assigned'
               \/ x \in file'.groups[h].policies /\ Apply!St(7, "assign", h, x, 0) \in plan'
               \/ x \notin file'.groups[h].policies /\ Apply!St(8, "unassign", h, x, 0) \in plan'
    <3>1. CASE <<x, h>> = <<p, g>>
      BY <1>2, <2>3, <3>1
    <3>2. CASE <<x, h>> # <<p, g>>
      BY <1>2, <2>1, <2>4, <2>5, <3>2 DEF ApQuiet, ApAssigned
    <3> QED
      BY <3>1, <3>2
  <2>6. ApAssigned'
    BY <2>5 DEF ApAssigned, Apply!St
  <2>7. ApScripts' /\ ApPolicies' /\ ApGroups' /\ ApRules'
    BY <1>2, <1>4, <2>1, ApScriptsKept, ApPoliciesKept, ApGroupsKept,
       ApRulesKept DEF ApQuiet
  <2> QED
    BY <2>2, <2>6, <2>7 DEF ApQuiet
<1> QED
  BY <1>3, <1>6, <1>7, ApWhole

\* A step of the rules of one software leaves those of the others alone.
LEMMA ApOtherRules ==
  ASSUME ApRules, UNCHANGED file, NEW g \in Group, NEW x \in ProgramName, NEW st, ApIsRule(st, g, x), NEW rest,
         ApTaken(st, rest), \A q \in rest : ApIsRule(q, g, x),
         \A r : (r \in rules <=> r \in rules') \/ (r.group = g /\ r.soft = x),
         file.groups[g] # None /\ file.groups[g].software # None
           => ApRule(g, x, file.groups[g].software[x])'
  PROVE  ApRules'
<1>1. ASSUME NEW h \in Group, NEW y \in ProgramName, h # g \/ y # x, NEW want, ApRule(h, y, want)
      PROVE  ApRule(h, y, want)'
  <2>1. /\ \A q \in {st} \cup rest : ~ApIsRule(q, h, y)
        /\ \A r : (r \in rules <=> r \in rules') \/ ~(r.group = h /\ r.soft = y)
    BY <1>1 DEF ApIsRule
  <2>2. {q \in plan' : ApIsRule(q, h, y)} = ApSteps(h, y)
    BY <2>1 DEF ApTaken, ApSteps
  <2>3. {r \in rules' : r.group = h /\ r.soft = y} = ApRulesOf(h, y)
    BY <2>1 DEF ApRulesOf
  <2>4. ApSteps(h, y)' = ApSteps(h, y) /\ ApRulesOf(h, y)' = ApRulesOf(h, y)
    BY <2>2, <2>3 DEF ApSteps, ApRulesOf, ApIsRule
  <2>5. /\ \A q \in plan : ApSteps(h, y) = {q} => q \in plan'
        /\ \A r \in rules : ApRulesOf(h, y) = {r} => r \in rules'
    BY <2>2, <2>3
  <2>6. CASE ApSteps(h, y) = {} /\ {r.type : r \in ApRulesOf(h, y)} = {want} \ {None}
    BY <2>4, <2>6 DEF ApRule
  <2>7. CASE \E q \in plan : ApSteps(h, y) = {q} /\ q.do = "add" /\ ApRulesOf(h, y) = {}
    BY <2>4, <2>5, <2>7 DEF ApRule
  <2>8. CASE \E q \in plan, r \in rules :
               ApSteps(h, y) = {q} /\ ApRulesOf(h, y) = {r} /\ q.do \in {"replace", "drop"} /\ q.id = r.id
    BY <2>4, <2>5, <2>8 DEF ApRule
  <2> QED
    BY <1>1, <2>6, <2>7, <2>8 DEF ApRule
<1> QED
  BY <1>1 DEF ApRules

\* A rule is made.
LEMMA ApDoAdd ==
  ASSUME ApInv, NEW st, Apply!Do(st), NEW g \in Group, NEW x \in ProgramName, file.groups[g] # None,
         file.groups[g].software # None, file.groups[g].software[x] # None, NEW m \in {0, 5},
         st = Apply!St(m, "add", g, x, 0)
  PROVE  ApInv'
<1> DEFINE want == file.groups[g].software[x]
           new == [id |-> ids', group |-> g, soft |-> x, type |-> want]
<1>1. ApServer /\ ApStored /\ ApRun /\ want \in Apply!RuleType
  BY ApTypesAre, ApWants DEF ApInv, ApRun
<1>2. /\ pc = "run" /\ st \in plan /\ UNCHANGED <<file, switched, quiet, edits>>
      /\ Apply!AssignSoftwarePolicyToGroup(g, known[g], x, want) /\ Apply!Answered(st, {}, g, known[g])
  <2>1. st.do = "add" /\ st.name = g /\ st.what = x
    BY DEF Apply!St
  <2>2. pc = "run" /\ st \in plan /\ UNCHANGED <<file, switched, quiet, edits>> /\ Apply!StepRule(st)
    BY <2>1, ApDoes
  <2> QED
    BY <2>1, <2>2 DEF Apply!StepRule
<1>3. ApServer' /\ ApStored'
  BY <1>1, <1>2, ApRuleAdd
<1>4. UNCHANGED <<script, policy, group, assigned>> /\ rules' = rules \cup {new}
  BY <1>2 DEF Apply!AssignSoftwarePolicyToGroup
<1>5. g \in Apply!Name /\ new.group = g /\ new.soft = x /\ new.type = want
  BY DEF Apply!Name
<1> HIDE DEF new
<1>6. /\ ApRun' /\ ApPlan'
      /\ pc' = "idle" \/ (pc' = "run" /\ ApTaken(st, {}) /\ known' = known)
  BY <1>2, <1>5, ApAnswerSame
<1>7. ASSUME quiet', pc' # "idle" PROVE ApQuiet'
  <2>1. ApQuiet /\ ApTaken(st, {}) /\ known' = known /\ st.do = "add" /\ ApIsRule(st, g, x)
    BY <1>2, <1>6, <1>7 DEF ApInv, Apply!St, ApIsRule
  <2>2. ApKnown'
    BY <1>4, <2>1 DEF ApQuiet, ApKnown, Apply!IdOf
  <2>3. ApSteps(g, x) = {st} /\ ApRulesOf(g, x) = {}
    <3>1. ApRule(g, x, want) /\ st \in ApSteps(g, x)
      BY <1>2, <2>1 DEF ApQuiet, ApRules, ApSteps
    <3> QED
      BY <2>1, <3>1 DEF ApRule
  <2>4. ApRule(g, x, want)'
    <3>1. {q \in plan' : ApIsRule(q, g, x)} = {}
      BY <2>1, <2>3 DEF ApTaken, ApSteps
    <3>2. {r \in rules' : r.group = g /\ r.soft = x} = {new}
      BY <1>4, <1>5, <2>3 DEF ApRulesOf
    <3>3. ApSteps(g, x)' = {} /\ ApRulesOf(g, x)' = {new}
      BY <3>1, <3>2 DEF ApSteps, ApRulesOf, ApIsRule
    <3>4. {r.type : r \in {new}} = {want} /\ want # None
      BY <1>5
    <3>5. want' = want
      BY <1>2
    <3> HIDE DEF want
    <3>6. {r.type : r \in ApRulesOf(g, x)'} = {want} \ {None}
      BY <3>3, <3>4
    <3> QED
      BY <3>3, <3>5, <3>6 DEF ApRule
  <2>5. ApRules'
    <3>1. \A r : (r \in rules <=> r \in rules') \/ (r.group = g /\ r.soft = x)
      BY <1>4, <1>5
    <3>2. ApRule(g, x, file.groups[g].software[x])'
      BY <2>4
    <3> QED
      BY <1>2, <2>1, <3>1, <3>2, ApOtherRules DEF ApQuiet
  <2>6. ApScripts' /\ ApPolicies' /\ ApGroups' /\ ApAssigned'
    BY <1>2, <1>4, <2>1, ApScriptsKept, ApPoliciesKept, ApGroupsKept,
       ApAssignedKept DEF ApQuiet
  <2> QED
    BY <2>2, <2>5, <2>6 DEF ApQuiet
<1> QED
  BY <1>3, <1>6, <1>7, ApWhole

\* A rule is taken off, for good or to be made anew.
LEMMA ApDoDrop ==
  ASSUME ApInv, NEW st, Apply!Do(st), NEW g \in Group, NEW x \in ProgramName, file.groups[g] # None,
         file.groups[g].software # None, NEW i \in Apply!Id,
         \/ file.groups[g].software[x] # None /\ st = Apply!St(5, "replace", g, x, i)
         \/ file.groups[g].software[x] = None /\ st = Apply!St(6, "drop", g, x, i)
  PROVE  ApInv'
<1> DEFINE want == file.groups[g].software[x]
           again == Apply!St(0, "add", g, x, 0)
           rest == IF st.do = "replace" THEN {again} ELSE {}
<1>1. ApServer /\ ApStored /\ ApRun
  BY ApTypesAre DEF ApInv
<1>2. /\ pc = "run" /\ st \in plan /\ UNCHANGED <<file, switched, quiet, edits>>
      /\ Apply!UnassignSoftwarePolicyFromGroup(i) /\ Apply!Answered(st, rest, g, known[g])
  <2>1. st.do \in {"replace", "drop"} /\ st.do # "add" /\ st.name = g /\ st.what = x /\ st.id = i
    BY DEF Apply!St
  <2>2. pc = "run" /\ st \in plan /\ UNCHANGED <<file, switched, quiet, edits>> /\ Apply!StepRule(st)
    BY <2>1, ApDoes
  <2> HIDE DEF again
  <2>3. /\ Apply!UnassignSoftwarePolicyFromGroup(st.id)
        /\ Apply!Answered(st, IF st.do = "replace" THEN {Apply!St(0, "add", g, st.what, 0)} ELSE {}, g, known[g])
    BY <2>1, <2>2 DEF Apply!StepRule, Apply!Rest
  <2> QED
    BY <2>1, <2>2, <2>3 DEF again
<1>3. ApServer' /\ ApStored'
  BY <1>1, <1>2, ApRuleDrop
<1>4. UNCHANGED <<script, policy, group, assigned>> /\ rules' = {r \in rules : r.id # i}
  BY <1>2 DEF Apply!UnassignSoftwarePolicyFromGroup
<1>5. g \in Apply!Name
  BY DEF Apply!Name
<1>6. /\ \A q \in rest : ApIsRule(q, g, x) /\ q.do = "add" /\ ApFits(q, file, known)
      /\ ApIsRule(st, g, x) /\ st.do \in {"replace", "drop"} /\ st.id = i
      /\ \/ rest = {again} /\ want # None
         \/ rest = {} /\ want = None
  <2>1. ApFits(again, file, known) \/ want = None
    BY DEF ApFits
  <2>2. st.do \in {"replace", "drop"} /\ st.id = i /\ (st.do = "replace" <=> want # None)
    BY DEF Apply!St
  <2>3. ApIsRule(st, g, x) /\ ApIsRule(again, g, x) /\ again.do = "add"
    BY DEF ApIsRule, Apply!St
  <2> HIDE DEF again, want
  <2> QED
    BY <2>1, <2>2, <2>3
<1>7. again.do = "add"
  BY DEF Apply!St
<1> HIDE DEF rest, again
<1>8. /\ ApRun' /\ ApPlan'
      /\ pc' = "idle" \/ (pc' = "run" /\ ApTaken(st, rest) /\ known' = known)
  BY <1>2, <1>5, <1>6, ApAnswerSame
<1>9. ASSUME quiet', pc' # "idle" PROVE ApQuiet'
  <2>1. ApQuiet /\ ApTaken(st, rest) /\ known' = known
    BY <1>2, <1>8, <1>9 DEF ApInv
  <2>2. ApKnown'
    BY <1>4, <2>1 DEF ApQuiet, ApKnown, Apply!IdOf
  <2>3. ApSteps(g, x) = {st} /\ \E r \in rules : ApRulesOf(g, x) = {r} /\ r.id = i
    <3>1. ApRule(g, x, want) /\ st \in ApSteps(g, x)
      BY <1>2, <1>6, <2>1 DEF ApQuiet, ApRules, ApSteps
    <3> QED
      BY <1>6, <3>1 DEF ApRule
  <2>4. PICK gone \in rules : ApRulesOf(g, x) = {gone} /\ gone.id = i
    BY <2>3
  <2>5. rules' = rules \ {gone} /\ gone.group = g /\ gone.soft = x
    BY <1>1, <1>4, <2>4 DEF ApStored, ApRulesOf
  <2>6. ApRule(g, x, want)'
    <3>1. {q \in plan' : ApIsRule(q, g, x)} = rest
      BY <1>6, <2>1, <2>3 DEF ApTaken, ApSteps
    <3>2. {r \in rules' : r.group = g /\ r.soft = x} = {}
      BY <2>4, <2>5 DEF ApRulesOf
    <3>3. ApSteps(g, x)' = rest /\ ApRulesOf(g, x)' = {} /\ rest \subseteq plan'
      BY <3>1, <3>2 DEF ApSteps, ApRulesOf, ApIsRule
    <3>4. want' = want
      BY <1>2
    <3> HIDE DEF want
    <3>5. CASE rest = {} /\ want = None
      BY <3>3, <3>4, <3>5 DEF ApRule
    <3>6. CASE rest = {again}
      BY <1>7, <3>3, <3>6 DEF ApRule
    <3> QED
      BY <1>6, <3>5, <3>6
  <2>7. ApRules'
    <3>1. \A r : (r \in rules <=> r \in rules') \/ (r.group = g /\ r.soft = x)
      BY <2>5
    <3>2. ApRule(g, x, file.groups[g].software[x])'
      BY <2>6
    <3> QED
      BY <1>2, <1>6, <2>1, <3>1, <3>2, ApOtherRules DEF ApQuiet
  <2>8. ApScripts' /\ ApPolicies' /\ ApGroups' /\ ApAssigned'
    BY <1>2, <1>4, <1>6, <2>1, ApScriptsKept, ApPoliciesKept, ApGroupsKept,
       ApAssignedKept DEF ApQuiet
  <2> QED
    BY <2>2, <2>7, <2>8 DEF ApQuiet
<1> QED
  BY <1>3, <1>8, <1>9, ApWhole
-----------------------------------------------------------------------------
\* A step of the run is one of a kind that fits the file.
LEMMA ApDoStep == ASSUME ApInv, NEW st, Apply!Do(st) PROVE ApInv'
<1>1. ApFits(st, file, known)
  BY ApDoes DEF ApInv, ApPlan
<1>2. ASSUME NEW s \in Script, file.scripts[s] # None, st = Apply!St(1, "script", s, None, 0) PROVE ApInv'
  BY <1>2, ApDoScript
<1>3. ASSUME NEW p \in Policy, file.policies[p] # None, st = Apply!St(2, "policy", p, None, 0) PROVE ApInv'
  BY <1>3, ApDoPolicy
<1>4. ASSUME NEW p \in Policy, NEW i \in Apply!Id, NEW n \in {0, 3}, file.policies[p] # None,
             st = Apply!St(n, "toggle", p, file.policies[p].active, i)
      PROVE  ApInv'
  BY <1>4, ApDoToggle
<1>5. ASSUME NEW g \in Group, file.groups[g] # None, st = Apply!St(4, "group", g, None, 0),
             known[g] = 0 \/ file.groups[g].color # None
      PROVE  ApInv'
  BY <1>5, ApDoGroup
<1>6. ASSUME NEW g \in Group, NEW x \in ProgramName, file.groups[g] # None, file.groups[g].software # None,
             \/ /\ file.groups[g].software[x] # None
                /\ \/ \E n \in {0, 5} : st = Apply!St(n, "add", g, x, 0)
                   \/ \E i \in Apply!Id : st = Apply!St(5, "replace", g, x, i)
             \/ file.groups[g].software[x] = None /\ \E i \in Apply!Id : st = Apply!St(6, "drop", g, x, i)
      PROVE  ApInv'
  <2>1. ASSUME NEW n \in {0, 5}, file.groups[g].software[x] # None, st = Apply!St(n, "add", g, x, 0)
        PROVE  ApInv'
    BY <1>6, <2>1, ApDoAdd
  <2>2. ASSUME NEW i \in Apply!Id, \/ file.groups[g].software[x] # None /\ st = Apply!St(5, "replace", g, x, i)
                                   \/ file.groups[g].software[x] = None /\ st = Apply!St(6, "drop", g, x, i)
        PROVE  ApInv'
    BY <1>6, <2>2, ApDoDrop
  <2> QED
    BY <1>6, <2>1, <2>2
<1>7. ASSUME NEW g \in Group, NEW p \in Policy, file.groups[g] # None, file.groups[g].policies # None,
             \/ p \in file.groups[g].policies /\ st = Apply!St(7, "assign", g, p, 0)
             \/ p \notin file.groups[g].policies /\ st = Apply!St(8, "unassign", g, p, 0)
      PROVE  ApInv'
  BY <1>7, ApDoAssignment
<1> QED
  BY <1>1, <1>2, <1>3, <1>4, <1>5, <1>6, <1>7 DEF ApFits

\* What a step still has to do fits the file, whatever number it is about.
LEMMA ApRestFits ==
  ASSUME NEW st, ApFits(st, file, known), file \in Apply!File,
         NEW i, i \in Apply!Id \/ st.do \notin {"script", "policy", "group"} \/ known[st.name] # 0,
         NEW q \in Apply!Rest(st, i)
  PROVE  /\ ApFits(q, file, known) /\ q.do \in {"toggle", "add"}
         /\ ~(q.do = "toggle" /\ q.what = TRUE)
<1>1. CASE st.do = "policy"
  <2>1. PICK p \in Policy : file.policies[p] # None /\ st = Apply!St(2, "policy", p, None, 0)
    BY <1>1 DEF ApFits, Apply!St
  <2>2. st.name = p /\ st.do = "policy"
    BY <2>1 DEF Apply!St
  <2>3. known[p] = 0 /\ ~file.policies[p].active /\ q = Apply!St(0, "toggle", p, FALSE, i) /\ i \in Apply!Id
    BY <2>2 DEF Apply!Rest
  <2>4. file.policies[p].active = FALSE
    <3>1. file.policies[p].active \in BOOLEAN
      BY <2>1, ApWants
    <3> QED
      BY <2>3, <3>1
  <2>5. ApFits(q, file, known)
    BY <2>1, <2>3, <2>4 DEF ApFits
  <2> QED
    BY <2>3, <2>5 DEF Apply!St
<1>2. CASE st.do = "replace"
  <2>1. PICK g \in Group, x \in ProgramName, j \in Apply!Id :
          /\ file.groups[g] # None /\ file.groups[g].software # None
          /\ file.groups[g].software[x] # None /\ st = Apply!St(5, "replace", g, x, j)
    BY <1>2 DEF ApFits, Apply!St
  <2>2. st.name = g /\ st.what = x
    BY <2>1 DEF Apply!St
  <2>3. q = Apply!St(0, "add", g, x, 0)
    BY <1>2, <2>2 DEF Apply!Rest
  <2>4. ApFits(q, file, known)
    BY <2>1, <2>3 DEF ApFits
  <2> QED
    BY <2>3, <2>4 DEF Apply!St
<1> QED
  BY <1>1, <1>2 DEF Apply!Rest

\* A call is answered and nothing is stored: the run goes on, and no longer
\* knows what it promised.
LEMMA ApLostStep == ASSUME ApInv, NEW st \in plan, Apply!StepLost(st) PROVE ApInv'
<1>1. ApServer /\ ApStored /\ ApRun /\ ApPlan /\ ApFits(st, file, known) /\ file \in Apply!File
  BY ApTypesAre DEF ApInv, ApPlan, ApRun
<1> DEFINE n == st.name
           fresh == st.do \in {"script", "policy", "group"} /\ known[n] = 0
<1>2. /\ UNCHANGED <<script, policy, group, rules, assigned, file, pc, switched, edits>> /\ quiet' = FALSE
      /\ plan' = (plan \ {st}) \cup Apply!Rest(st, ids') /\ pc = "run" /\ Apply!Fault
      /\ \/ fresh /\ Apply!NewId /\ known' = [known EXCEPT ![n] = ids']
         \/ ~fresh /\ ids' = ids /\ known' = known
  BY DEF Apply!StepLost
<1>3. ApServer' /\ ApStored'
  BY <1>1, <1>2, ApRulesStay DEF ApServer, ApStored
<1>4. failures' \in 0..MaxFailures
  <2>1. MaxFailures \in Nat /\ failures \in 0..MaxFailures
    BY <1>1, ListingAssumption DEF ApRun
  <2> QED
    BY <1>2, <2>1 DEF Apply!Fault
<1>5. fresh => ids' \in Apply!Id
  BY <1>1, <1>2, ApNewId DEF ApServer
<1>6. \A q \in Apply!Rest(st, ids') :
        /\ ApFits(q, file, known) /\ q.do \in {"toggle", "add"} /\ ~(q.do = "toggle" /\ q.what = TRUE)
  BY <1>1, <1>5, ApRestFits
<1>7. \A q \in plan' : ApFits(q, file, known')
  <2>1. \A q \in plan' : ApFits(q, file, known)
    BY <1>1, <1>2, <1>6 DEF ApPlan
  <2>2. CASE fresh
    <3>1. ASSUME NEW q \in plan', n \in Group, q = Apply!St(4, "group", n, None, 0) PROVE FALSE
      <4>1. q.do = "group" /\ q.name = n
        BY <3>1 DEF Apply!St
      <4>2. q \in plan /\ q # st
        BY <1>2, <1>6, <4>1
      <4>3. n \notin Script /\ n \notin Policy
        BY <3>1, ApplyAssumption
      <4>4. st = Apply!St(4, "group", n, None, 0)
        BY <1>1, <2>2, <4>3 DEF ApFits, Apply!St
      <4> QED
        BY <3>1, <4>2, <4>4
    <3>2. known \in [Apply!Name -> Apply!Id \cup {0}] /\ known' = [known EXCEPT ![n] = ids']
      BY <1>1, <1>2, <2>2 DEF ApRun
    <3> HIDE DEF n, fresh
    <3> QED
      BY <2>1, <3>1, <3>2, ApFitsKept
  <2>3. CASE ~fresh
    BY <1>2, <2>1, <2>3
  <2> QED
    BY <2>2, <2>3
<1>8. ApPlan'
  <2>1. ApSwitched'
    BY <1>1, <1>2, <1>6 DEF ApPlan, ApSwitched
  <2> QED
    BY <1>2, <1>7, <2>1 DEF ApPlan
<1>9. ApRun'
  <2>1. plan' \subseteq Apply!Step
    BY <1>1, <1>7, ApFitsStep
  <2>2. known' \in [Apply!Name -> Apply!Id \cup {0}]
    BY <1>1, <1>2, <1>5 DEF ApRun
  <2> QED
    BY <1>1, <1>2, <1>4, <2>1, <2>2 DEF ApRun
<1> QED
  BY <1>2, <1>3, <1>8, <1>9, ApWhole

\* Every step keeps the invariant.
LEMMA ApNextInv == ASSUME ApInv, Apply!Next PROVE ApInv'
BY ApEditsStep, ApPlanStep, ApOtherSteps, ApDoStep, ApLostStep DEF Apply!Next

\* A run that has not begun has no plan.
LEMMA ApInitInv == ASSUME Apply!Init PROVE ApInv
<1>1. /\ script = [s \in Script |-> None] /\ policy = [p \in Policy |-> None]
      /\ group = [g \in Group |-> None] /\ rules = {} /\ assigned = {} /\ ids = 0
      /\ file \in Files /\ pc = "idle" /\ plan = {} /\ known = [n \in Apply!Name |-> 0]
      /\ switched = {} /\ quiet = TRUE /\ edits = 0 /\ failures = 0
  BY DEF Apply!Init
<1>2. ApServer
  BY <1>1, ApplyAssumption DEF ApServer
<1>3. 0 \in 0..MaxCalls /\ 0 \in 0..MaxFailures
  <2>1. MaxCalls \in Nat
    BY ApplyAssumption
  <2>2. MaxFailures \in Nat
    BY ListingAssumption
  <2> QED
    BY <2>1, <2>2
<1>4. file \in Apply!File
  BY <1>1, ApplyAssumption
<1>5. ApRun
  BY <1>1, <1>3, <1>4 DEF ApRun
<1>6. ApStored /\ ApPlan
  BY <1>1 DEF ApStored, ApPlan, ApSwitched
<1> QED
  BY <1>1, <1>2, <1>5, <1>6, ApTypesAre DEF ApInv

\* A step of another part leaves this one alone.
LEMMA ApPartStep ==
  ASSUME part = "apply" => ApInv, [PartNext]_<<part, vars, cells>>
  PROVE  (part = "apply" => ApInv)'
<1>1. part' = part
  BY ConsolePartStays
<1>2. CASE UNCHANGED <<part, vars, cells>>
  <2>1. /\ script' = script /\ policy' = policy /\ group' = group /\ rules' = rules /\ assigned' = assigned
        /\ ids' = ids /\ file' = file /\ pc' = pc /\ plan' = plan /\ known' = known /\ switched' = switched
        /\ quiet' = quiet /\ edits' = edits /\ failures' = failures
    BY <1>2 DEF cells, inApply, shared
  <2>2. ASSUME ApInv PROVE ApInv'
    <3>1. ApServer /\ ApRun /\ ApStored /\ ApPlan
      BY <2>2, ApTypesAre DEF ApInv
    <3>2. ApServer' /\ ApRun' /\ ApStored'
      BY <2>1, <3>1 DEF ApServer, ApRun, ApStored
    <3>3. ApPlan'
      BY <2>1, <3>1 DEF ApPlan, ApSwitched
    <3>4. ASSUME ApQuiet PROVE ApQuiet'
      <4>1. ApKnown' /\ ApScripts' /\ ApPolicies' /\ ApGroups'
        BY <2>1, <3>4 DEF ApQuiet, ApKnown, ApScripts, ApPolicies, ApGroups,
           Apply!IdOf, Apply!St, Apply!CanonicalPlatform
      <4>2. ApRules'
        BY <2>1, <3>4 DEF ApQuiet, ApRules, ApRule, ApSteps, ApRulesOf,
           ApIsRule
      <4>3. ApAssigned'
        BY <2>1, <3>4 DEF ApQuiet, ApAssigned, Apply!St
      <4> QED
        BY <4>1, <4>2, <4>3 DEF ApQuiet
    <3>5. quiet' /\ pc' # "idle" => ApQuiet'
      BY <2>1, <2>2, <3>4 DEF ApInv
    <3> QED
      BY <3>2, <3>3, <3>5, ApWhole
  <2> QED
    BY <1>1, <2>2
<1>3. CASE PartNext
  <2>1. part = "apply" => Apply!Next
    BY <1>3 DEF PartNext
  <2> QED
    BY <1>1, <2>1, ApNextInv
<1> QED
  BY <1>2, <1>3

(* What holds of an apply at every moment: what the server keeps whoever   *)
(* calls it, that every step of the plan is one the file asks for, and,    *)
(* while nobody else writes and every COMMIT goes through, that the run    *)
(* knows every id and that whatever does not agree with the file yet has   *)
(* its step in the plan, but for a policy the run was to switch on, which  *)
(* the call leaves off (cmd/routineops: apply.go buildPlan, applyPlan).    *)
THEOREM ApplyInvariant == PartSpec => [](part = "apply" => ApInv)
<1>1. PartInit => (part = "apply" => ApInv)
  BY ApInitInv DEF PartInit
<1>2. (part = "apply" => ApInv) /\ [PartNext]_<<part, vars, cells>> => (part = "apply" => ApInv)'
  BY ApPartStep
<1> QED
  BY <1>1, <1>2, PTL DEF PartSpec

\* A run that is through has no step left, so that nothing disagrees.
LEMMA ApThrough == ASSUME ApInv, pc = "ok", quiet PROVE Apply!Agrees
<1>1. plan = {} /\ ApQuiet
  BY DEF ApInv, ApPlan
<1>2. \A s \in Script : file.scripts[s] # None =>
        /\ script[s] # None /\ script[s].content = file.scripts[s].content
        /\ script[s].platform = Apply!CanonicalPlatform(file.scripts[s].platform)
  BY <1>1 DEF ApQuiet, ApScripts
<1>3. \A p \in Policy : file.policies[p] # None =>
        /\ policy[p] # None /\ policy[p].script = file.policies[p].script
        /\ policy[p].conf = file.policies[p].conf
        /\ policy[p].active = file.policies[p].active \/ (file.policies[p].active /\ p \in switched)
  BY <1>1 DEF ApQuiet, ApPolicies
<1>4. \A g \in Group : file.groups[g] # None =>
        group[g] # None /\ file.groups[g].color \in {None, group[g].color}
  BY <1>1 DEF ApQuiet, ApGroups
<1>5. ASSUME NEW g \in Group, file.groups[g] # None, file.groups[g].software # None, NEW x \in ProgramName
      PROVE  {r.type : r \in {q \in rules : q.group = g /\ q.soft = x}} = {file.groups[g].software[x]} \ {None}
  <2>1. ApRule(g, x, file.groups[g].software[x])
    BY <1>1, <1>5 DEF ApQuiet, ApRules
  <2> QED
    BY <1>1, <2>1 DEF ApRule, ApRulesOf
<1>6. ASSUME NEW g \in Group, file.groups[g] # None, file.groups[g].policies # None
      PROVE  {p \in Policy : <<p, g>> \in assigned} = file.groups[g].policies
  <2>1. file.groups[g].policies \subseteq Policy
    BY <1>6, ApTypesAre, ApWants DEF ApInv, ApRun
  <2>2. \A p \in Policy : p \in file.groups[g].policies <=> <<p, g>> \in assigned
    BY <1>1, <1>6 DEF ApQuiet, ApAssigned
  <2> QED
    BY <2>1, <2>2
<1> QED
  BY <1>2, <1>3, <1>4, <1>5, <1>6 DEF Apply!Agrees

(* An apply that says it is through leaves the server as the file says,    *)
(* whatever earlier runs left half done, when nobody else wrote meanwhile, *)
(* every COMMIT went through and no software had two rules in a group;     *)
(* only a policy that the run was to switch on may be off (apply.go        *)
(* applyPlan, script_policies_handler.go toggleScriptPolicy).              *)
THEOREM ApplyHolds == PartSpec => []Applied
<1>1. (part = "apply" => ApInv) => Applied
  BY ApThrough DEF Applied, Apply!Applied
<1> QED
  BY <1>1, ApplyInvariant, PTL
=============================================================================
