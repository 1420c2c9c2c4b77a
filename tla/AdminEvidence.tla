---------------------------- MODULE AdminEvidence ----------------------------
(***************************************************************************)
(* What the windows of evidence of one session of administrator rights     *)
(* say about the machine: the snapshot at the grant, the windows the agent *)
(* builds against it (admin/window.go, admin/diff.go), their numbers and   *)
(* the file that holds them (admin/manager.go), and the rows and the       *)
(* summary the server keeps (storage/admin_session.go).                    *)
(* A window is cumulative since the grant.  Snapshots fail in part or in   *)
(* whole, the agent dies between a window and the saving of its number,    *)
(* the outbox evicts windows and repeats them, and the final one may go    *)
(* past it.  Times, vendors and names for display are left out.            *)
(***************************************************************************)
EXTENDS Integers, Sequences, FiniteSets, SequencesExt

CONSTANTS
  Software, \* identity keys of software
  NameOf,   \* the name and vendor of each: a reinstallation changes the key
  Version,
  Service,  \* identity keys of services
  Fact,     \* what is read of a service: [account, start, def, os]
  Absent,   \* not installed
  None,     \* no file, no digest
  Installed, Running, \* the inventory at the start: functions on Software, Service
  MaxWindowChanges, MaxAdminSessionSeqJump,
  MaxEdits, MaxWindows, MaxFaults \* bounds: changes of the machine, numbers, faults

VARIABLES
  soft, svc,  \* the machine, as it is
  edits,
  pc,         \* where emitWindow stands; "none" and "over" around the session
  file,       \* SessionState: the baseline, window_seq and last_window_digest
  sending,    \* the window whose number is to be saved
  mail,       \* windows in the outbox
  rows,       \* admin_session_changes
  lastSeq, completeness, final, \* last_window_seq, changes_completeness, changes_final_at
  base,       \* history: the machine at the grant
  facts,      \* history: true changes since the grant, at the time of some window
  delta,      \* history: those at the time of the final window, as they may be told
  used,       \* history: the last number handed out
  muddled,    \* history: a number was used twice, or a window came after a later one
  wfaults

machine == <<soft, svc, edits>>
server  == <<rows, lastSeq, completeness, final>>
past    == <<base, facts, delta>>
vars    == <<machine, pc, file, sending, mail, server, past, used, muddled, wfaults>>

Fault   == wfaults < MaxFaults /\ wfaults' = wfaults + 1
NoFault == wfaults' = wfaults

-----------------------------------------------------------------------------
(* diff.go: sets of changes.                                               *)

Change(kind, key, old, new, attr) ==
  [kind |-> kind, key |-> key, old |-> old, new |-> new, attr |-> attr]

Added(b, a)   == {k \in DOMAIN a : b[k] = Absent /\ a[k] # Absent}
Removed(b, a) == Added(a, b)
Kept(b, a)    == {k \in DOMAIN a : b[k] # Absent /\ a[k] # Absent}

\* A key that went and a key that came under one name are one update.  Of
\* several under one name it is one pair, any: the code goes over a Go map.
Reinstalls(b, a) ==
  LET alike == {p \in Removed(b, a) \X Added(b, a) : NameOf[p[1]] = NameOf[p[2]]}
  IN  {pairs \in SUBSET alike :
         \A p \in alike : \E q \in pairs :
            \A o \in pairs : o = q <=> NameOf[o[1]] = NameOf[p[1]]}

SoftwareChanges(b, a, pairs) ==
  LET gone == {p[1] : p \in pairs}
      come == {p[2] : p \in pairs}
  IN  {Change("software_installed", k, Absent, a[k], "human") : k \in Added(b, a) \ come}
      \cup {Change("software_removed", k, b[k], Absent, "human") : k \in Removed(b, a) \ gone}
      \cup {Change("software_updated", k, b[k], a[k], "background") :
              k \in {k \in Kept(b, a) : b[k] # a[k]}}
      \cup {Change("software_updated", p[2], b[p[1]], a[p[2]], "background") : p \in pairs}

\* What the comparison may find.
DiffSoftware(b, a) == {SoftwareChanges(b, a, pairs) : pairs \in Reinstalls(b, a)}

AttributeService(s) == IF s.os THEN "background" ELSE "human"

IsDisabling(b, a) == a.start = "disabled" /\ b.start # "disabled"

\* One change a service: the account before the start type before the rest.
ServiceChange(k, b, a) ==
  IF b.account # a.account THEN {Change("service_account", k, b, a, "human")}
  ELSE IF b.start # a.start
       THEN {Change("service_start", k, b, a,
                    IF IsDisabling(b, a) \/ ~a.os THEN "human" ELSE "background")}
  ELSE IF b.def # a.def THEN {Change("service_definition", k, b, a, AttributeService(a))}
  ELSE {}

DiffServices(b, a) ==
  {Change("service_installed", k, Absent, a[k], AttributeService(a[k])) : k \in Added(b, a)}
  \cup {Change("service_removed", k, b[k], Absent, AttributeService(b[k])) : k \in Removed(b, a)}
  \cup UNION {ServiceChange(k, b[k], a[k]) : k \in Kept(b, a)}

Degrade(changes, softHealth, svcHealth, lost) ==
  IF lost \/ softHealth # "ok" \/ svcHealth # "ok"
  THEN {[c EXCEPT !.attr = "unknown"] : c \in changes}
  ELSE changes

-----------------------------------------------------------------------------
(* window.go.                                                              *)

HealthRank == [ok |-> 0, unsupported |-> 1, partial |-> 2, failed |-> 3]
\* Mutant of WorseHealth: the health of the baseline is forgotten.
CurrentHealth(g, h) == h

WorseHealth(g, h) == IF HealthRank[g] >= HealthRank[h] THEN g ELSE h
HealthUsable(h) == h \in {"ok", "partial"}

AttrRank == [human |-> 0, unknown |-> 1, background |-> 2]

\* Over the limit, what a person likely did is kept first; the order within a
\* rank is left open.
TruncateChanges(changes) ==
  IF Cardinality(changes) <= MaxWindowChanges THEN {changes}
  ELSE {kept \in SUBSET changes :
          /\ Cardinality(kept) = MaxWindowChanges
          /\ \A c \in kept, d \in changes \ kept : AttrRank[c.attr] <= AttrRank[d.attr]}

CompletenessOf(lost, skipped, softHealth, svcHealth, stale, truncated) ==
  CASE lost -> "no_baseline"
    [] ~lost /\ (skipped \/ softHealth # "ok" \/ svcHealth # "ok") -> "partial"
    [] OTHER -> IF stale THEN "stale_final" ELSE IF truncated THEN "truncated" ELSE "complete"

Empty(inv) == \A k \in DOMAIN inv : inv[k] = Absent

\* The windows it may build: st is the baseline, None if the file could not be
\* read; cur is a snapshot.
BuildWindow(st, cur, seq, isFinal, stale) ==
  LET lost == st = None
      sh   == IF lost THEN cur.softHealth ELSE WorseHealth(st.softHealth, cur.softHealth)
      vh   == IF lost THEN cur.svcHealth ELSE WorseHealth(st.svcHealth, cur.svcHealth)
      softUsable == ~lost /\ HealthUsable(sh) /\ ~Empty(st.soft) /\ ~Empty(cur.soft)
      svcUsable  == ~lost /\ HealthUsable(vh) /\ ~Empty(st.svc) /\ ~Empty(cur.svc)
      services == IF svcUsable THEN DiffServices(st.svc, cur.svc) ELSE {}
      alls == {Degrade(found \cup services, sh, vh, lost) :
                 found \in IF softUsable THEN DiffSoftware(st.soft, cur.soft) ELSE {{}}}
  IN  UNION {{[seq |-> seq, final |-> isFinal, changes |-> kept, total |-> Cardinality(all),
               health |-> <<sh, vh>>,
               completeness |-> CompletenessOf(lost, ~softUsable \/ ~svcUsable, sh, vh, stale,
                                               kept # all)] :
                kept \in TruncateChanges(all)} : all \in alls}

WindowDigest(w) == <<w.changes, w.total, w.health, w.completeness>>

-----------------------------------------------------------------------------
(* The machine and the snapshots of it.                                    *)

NothingOf(inv) == [k \in DOMAIN inv |-> Absent]

\* Snapshot: software is read whole or not at all, services also in part; an
\* empty list is a failure of the collector.
HealthOf(seen, real) == IF Empty(seen) THEN "failed" ELSE IF seen = real THEN "ok" ELSE "partial"

Snapshots(faulty) ==
  {[soft |-> so, softHealth |-> HealthOf(so, soft), svc |-> sv, svcHealth |-> HealthOf(sv, svc)] :
     so \in IF faulty THEN {soft, NothingOf(soft)} ELSE {soft},
     sv \in IF faulty
            THEN {[k \in Service |-> IF k \in seen THEN svc[k] ELSE Absent] : seen \in SUBSET Service}
            ELSE {svc}}

\* What truly changed since the grant, in the ways it may be told.
TrueChanges ==
  {found \cup DiffServices(base.svc, svc) : found \in DiffSoftware(base.soft, soft)}

Init ==
  /\ soft = Installed /\ svc = Running /\ edits = 0
  /\ pc = "none" /\ file = None /\ sending = None /\ mail = <<>>
  /\ rows = {} /\ lastSeq = 0 /\ completeness = "none" /\ final = FALSE
  /\ base = None /\ facts = {} /\ delta = {} /\ used = 0 /\ muddled = FALSE /\ wfaults = 0

\* The machine changes, by whose hand does not matter.
Edits ==
  /\ edits < MaxEdits /\ edits' = edits + 1
  /\ \/ \E k \in Software, v \in Version \cup {Absent} :
          v # soft[k] /\ soft' = [soft EXCEPT ![k] = v] /\ UNCHANGED svc
     \/ \E k \in Service, f \in Fact \cup {Absent} :
          f # svc[k] /\ svc' = [svc EXCEPT ![k] = f] /\ UNCHANGED soft
  /\ UNCHANGED <<pc, file, sending, mail, server, past, used, muddled, wfaults>>

\* grant: the snapshot is written with the session, before the rights are given.
GrantBaseline ==
  /\ pc = "none"
  /\ \E faulty \in BOOLEAN :
       /\ IF faulty THEN Fault ELSE NoFault
       /\ \E s \in Snapshots(faulty) :
            file' = [baseline |-> s, seq |-> 0, digest |-> None]
  /\ base' = [soft |-> soft, svc |-> svc]
  /\ pc' = "idle"
  /\ UNCHANGED <<machine, sending, mail, server, facts, delta, used, muddled>>

-----------------------------------------------------------------------------
(* The server: AcceptAdminSessionWindow, one transaction.                  *)

SameRow(r, q) == r.seq = q.seq /\ r.kind = q.kind /\ r.key = q.key

RowsOf(w) == {[seq |-> w.seq, kind |-> c.kind, key |-> c.key,
               old |-> c.old, new |-> c.new, attr |-> c.attr] : c \in w.changes}

\* Rows are only added, and a second one of the same number, kind and key is
\* ignored; the summary is that of the window that came last.
AcceptAdminSessionWindow(w) ==
  IF w.seq > lastSeq + MaxAdminSessionSeqJump
  THEN UNCHANGED server
  ELSE /\ rows' = rows \cup {q \in RowsOf(w) : ~\E r \in rows : SameRow(r, q)}
       /\ lastSeq' = IF w.seq > lastSeq THEN w.seq ELSE lastSeq
       /\ completeness' = w.completeness
       /\ final' = (final \/ w.final)

\* The outbox delivers its first window; it keeps it if the reply is lost.
Deliver ==
  /\ mail # <<>>
  /\ AcceptAdminSessionWindow(Head(mail))
  /\ muddled' = (muddled \/ Head(mail).seq < lastSeq)
  /\ \/ mail' = Tail(mail) /\ NoFault
     \/ mail' = mail /\ Fault
  /\ UNCHANGED <<machine, pc, file, sending, past, used>>

\* A full outbox gives up evidence first.
Evict(i) ==
  /\ mail' = RemoveAt(mail, i)
  /\ UNCHANGED <<machine, pc, file, sending, server, past, used, muddled, wfaults>>

-----------------------------------------------------------------------------
(* emitWindow.                                                             *)

Luck == {"good", "blind", "snapshot", "refused", "lost"}

Number(blind) == IF blind THEN 1 ELSE file.seq + 1

\* Nothing new since the last window: an intermediate one is not sent.
Unchanged(w, blind) == ~w.final /\ ~blind /\ file.seq > 0 /\ WindowDigest(w) = file.digest

\* blind: the file could not be read.  refused: by the outbox; a final window
\* then goes by a direct call, which may fail too (lost).
EmitWindow(isFinal, stale, luck) ==
  /\ pc = "idle" /\ (stale => isFinal)
  /\ IF luck = "good" THEN NoFault ELSE Fault
  /\ LET blind == luck = "blind"
         st    == IF blind THEN None ELSE file.baseline
     IN  \E s \in Snapshots(luck = "snapshot") :
           \E w \in BuildWindow(st, s, Number(blind), isFinal, stale) :
             /\ w.seq <= MaxWindows
             /\ \/ /\ Unchanged(w, blind) \/ luck = "lost" \/ (luck = "refused" /\ ~isFinal)
                   /\ pc' = IF isFinal THEN "over" ELSE "idle"
                   /\ UNCHANGED <<sending, mail, server, muddled, used>>
                \/ /\ ~Unchanged(w, blind) /\ luck \notin {"refused", "lost"}
                   /\ mail' = Append(mail, w)
                   /\ sending' = IF isFinal THEN None ELSE w
                   /\ pc' = IF isFinal THEN "over" ELSE IF blind THEN "saveblind" ELSE "save"
                   /\ muddled' = (muddled \/ w.seq <= used) /\ used' = w.seq
                   /\ UNCHANGED server
                \/ /\ isFinal /\ luck = "refused"
                   /\ AcceptAdminSessionWindow(w)
                   /\ pc' = "over"
                   /\ muddled' = (muddled \/ w.seq <= used) /\ used' = w.seq
                   /\ UNCHANGED <<sending, mail>>
  /\ facts' = facts \cup UNION TrueChanges
  /\ delta' = IF isFinal THEN TrueChanges ELSE delta
  /\ UNCHANGED <<machine, file, base>>

\* The number and the digest are saved with the state that was loaded; or the
\* agent dies first, or the write fails, and the number is used again.
SaveNumber ==
  /\ pc \in {"save", "saveblind"}
  /\ \/ /\ NoFault
        /\ file' = [baseline |-> IF pc = "save" THEN file.baseline
                                 ELSE [soft |-> NothingOf(soft), softHealth |-> "ok",
                                       svc |-> NothingOf(svc), svcHealth |-> "ok"],
                    seq |-> sending.seq, digest |-> WindowDigest(sending)]
     \/ Fault /\ UNCHANGED file
  /\ pc' = "idle" /\ sending' = None
  /\ UNCHANGED <<machine, mail, server, past, used, muddled>>

-----------------------------------------------------------------------------
Next ==
  \/ Edits
  \/ GrantBaseline
  \/ \E isFinal, stale \in BOOLEAN, luck \in Luck : EmitWindow(isFinal, stale, luck)
  \/ SaveNumber
  \/ Deliver
  \/ \E i \in DOMAIN mail : Evict(i)

Spec == Init /\ [][Next]_vars

-----------------------------------------------------------------------------
TypeOK ==
  /\ soft \in [Software -> Version \cup {Absent}] /\ svc \in [Service -> Fact \cup {Absent}]
  /\ pc \in {"none", "idle", "save", "saveblind", "over"}
  /\ lastSeq \in 0..MaxWindows /\ used \in 0..MaxWindows
  /\ \A r, q \in rows : SameRow(r, q) => r = q
  /\ final => pc = "over"

(* No false accusation: a row that blames a person, or the background,     *)
(* tells a change that the machine really had at the time of some window,  *)
(* whatever part of a snapshot, then or at the grant, could not be read.   *)
(* What may be wrong is marked unknown (BuildWindow, Degrade).             *)
NoFalseAccusation ==
  \A r \in rows : r.attr # "unknown" => Change(r.kind, r.key, r.old, r.new, r.attr) \in facts

(* A final window that reads "complete" is: its rows are exactly what      *)
(* changed during the session, whichever windows before it were lost,      *)
(* refused or skipped (cumulative windows); unless a number was used twice *)
(* or an older window came after it.                                       *)
ConfidentFinal ==
  (final /\ completeness = "complete" /\ ~muddled) =>
    {Change(r.kind, r.key, r.old, r.new, r.attr) : r \in {r \in rows : r.seq = lastSeq}} \in delta

(* The evidence tells the truth, about a person and about itself.          *)
EvidenceIsTrue == NoFalseAccusation /\ ConfidentFinal
=============================================================================
