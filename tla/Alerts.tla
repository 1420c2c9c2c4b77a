------------------------------- MODULE Alerts -------------------------------
(***************************************************************************)
(* Alerts, from the agent's security monitor to an administrator's chat:   *)
(*   - the monitor's episodes (agent/security/monitor.go): one report for  *)
(*     as long as forbidden software is seen, remembered over restarts;    *)
(*   - the durable queue in between, of which Outbox shows that a report   *)
(*     stays in it until it is acknowledged: here a sequence;              *)
(*   - the gateway and the alerts table (gateway.go, storage/postgres.go), *)
(*     the transactions of storage/tx.go, whose failed COMMIT nobody sees; *)
(*   - the sweeps of cmd/server/main.go: silent devices and escalations;   *)
(*   - the reminders of the bot (notifier/telegram.go), sent once at best; *)
(*     the message about a new row, which nothing depends on, is left out. *)
(* One device, one forbidden name, one administrator.                      *)
(***************************************************************************)
EXTENDS Integers, Sequences

CONSTANTS
  After,               \* cfg.EscalateAfterMinutes, in ticks; 0 is never
  Repeat,              \* cfg.EscalateRepeatMinutes; 0 is once
  MinSeverity,         \* cfg.EscalateMinSeverity
  Unreachable,         \* cfg.UnreachableThresholdMinutes; 0 is never
  Cooldown,            \* cfg.UnreachableCooldownMinutes; 0 is none
  Levels,              \* thresholds the administrator may choose
  MaxAlerts,           \* bound: rows of alerts
  MaxTime,             \* bound: ticks
  MaxChanges,          \* bound: what happens on the device, edits of the list
  MaxFaults,           \* bound: failed calls, writes, commits, restarts
  None                 \* no alert

VARIABLES
  \* the device
  pid,                 \* the forbidden program's process, 0 is not running
  onDisk,              \* it is among the installed software
  list,                \* the list of forbidden software names it
  \* the monitor
  alerted,             \* Monitor.alerted has the name
  loaded,              \* Monitor.stateLoaded
  cache,               \* Monitor.installedCache has the name
  warm,                \* Monitor.installedAt is set
  saving,              \* the scan changed alerted, saveAlerted is next
  seenFile,            \* security_alerted.seen has the name
  queue,               \* reports in the durable queue
  blind,               \* the durable queue cannot be written
  \* the server
  known,               \* the device has a row
  lastSeen,            \* devices.last_seen_at
  outboxWasDown,       \* of the device's stream
  alert,               \* rows of alerts
  minSeverity,         \* users.notify_min_severity, "" is not set
  due,                 \* taken by TakeEscalations, not sent yet
  now, changes, faults,
  \* history
  episode,             \* scans: how often the name came up anew
  seen,                \* the last scan saw it
  heard,               \* episodes the server has answered for
  reminded,            \* per row, how many reminders the sweep gave out
  excused              \* a write or a COMMIT whose failure nobody acts on

device  == <<pid, onDisk, list>>
monitor == <<alerted, loaded, cache, warm, saving, seenFile>>
server  == <<known, lastSeen, outboxWasDown, alert, minSeverity>>
count   == <<now, changes, faults>>
past    == <<episode, seen, heard, reminded, excused>>
vars    == <<device, monitor, queue, blind, server, due, count, past>>

Id       == 1..MaxAlerts
Severity == {"critical", "high", "medium", "low"}
\* alerting.rank; a severity nobody knows ranks below all.
Rank == [s \in Severity |-> CASE s = "critical" -> 4 [] s = "high" -> 3 [] s = "medium" -> 2 [] s = "low" -> 1]

\* The type of an alert and what tells its details from another's: the
\* process, the last contact.
What ==
  ({"forbidden_software"} \X (0..MaxChanges)) \cup
  ({"agent_unreachable"} \X (0..MaxTime)) \cup {<<"outbox_unavailable", 0>>}
DefaultFor(type) == IF type = "agent_unreachable" THEN "low" ELSE "high"

Alert  == [what : What, created : 0..MaxTime, acked : BOOLEAN, escalated : -1..MaxTime]
Queued == [what : What, ep : 1..MaxChanges + 1]
Rows   == {a \in Id : alert[a] # None}

TypeOK ==
  /\ pid \in 0..MaxChanges /\ onDisk \in BOOLEAN /\ list \in BOOLEAN
  /\ {alerted, loaded, cache, warm, saving, seenFile} \subseteq BOOLEAN
  /\ queue \in Seq(Queued) /\ blind \in BOOLEAN
  /\ known \in BOOLEAN /\ lastSeen \in 0..MaxTime /\ outboxWasDown \in BOOLEAN
  /\ alert \in [Id -> Alert \cup {None}] /\ minSeverity \in Severity \cup {""}
  /\ due \subseteq Id
  /\ now \in 0..MaxTime /\ changes \in 0..MaxChanges /\ faults \in 0..MaxFaults
  /\ episode \in 0..MaxChanges + 1 /\ seen \in BOOLEAN /\ heard \subseteq 0..MaxChanges + 1
  /\ reminded \in [Id -> Nat] /\ excused \in BOOLEAN

Init ==
  /\ pid = 0 /\ onDisk \in BOOLEAN /\ list = TRUE
  /\ alerted = FALSE /\ loaded = FALSE /\ cache = FALSE /\ warm = FALSE /\ saving = FALSE /\ seenFile = FALSE
  /\ queue = <<>> /\ blind = FALSE
  /\ known = TRUE /\ lastSeen = 0 /\ outboxWasDown = FALSE
  /\ alert = [a \in Id |-> None] /\ minSeverity = ""
  /\ due = {} /\ now = 0 /\ changes = 0 /\ faults = 0
  /\ episode = 0 /\ seen = FALSE /\ heard = {} /\ reminded = [a \in Id |-> 0] /\ excused = FALSE

Change  == changes < MaxChanges /\ changes' = changes + 1 /\ UNCHANGED <<now, faults>>
Fault   == faults < MaxFaults /\ faults' = faults + 1 /\ UNCHANGED <<now, changes>>
NoFault == UNCHANGED count

-----------------------------------------------------------------------------
(* The device and its monitor.                                             *)

Software ==
  /\ Change
  /\ \/ pid = 0 /\ pid' = changes + 1 /\ UNCHANGED <<onDisk, list>>
     \/ pid # 0 /\ pid' = 0 /\ UNCHANGED <<onDisk, list>>
     \/ onDisk' = ~onDisk /\ UNCHANGED <<pid, list>>
  /\ UNCHANGED <<monitor, queue, blind, server, due, past>>

\* The policy sync rewrites the list.
SyncList ==
  /\ Change /\ list' = ~list
  /\ UNCHANGED <<pid, onDisk, monitor, queue, blind, server, due, past>>

\* The cached list of installed software is read anew at the first scan and
\* once it is ten minutes old.
FindInstalled(fresh) ==
  /\ ~warm => fresh
  /\ cache' = (IF fresh THEN onDisk ELSE cache) /\ warm' = TRUE

\* A running program is reported with its process, an installed one without.
Detail == <<"forbidden_software", pid>>

\* Mutant of Scan: the mark is set before the queue has taken the report.
ScanMarksFirst ==
  /\ list /\ ~saving
  /\ \E fresh \in BOOLEAN : FindInstalled(fresh)
  /\ LET had   == alerted \/ (~loaded /\ seenFile)
         found == pid # 0 \/ cache'
         ep    == IF seen THEN episode ELSE episode + 1
     IN  /\ loaded' = TRUE /\ seen' = found /\ alerted' = found
         /\ episode' = (IF found THEN ep ELSE episode)
         /\ queue' = (IF found /\ ~had /\ ~blind THEN Append(queue, [what |-> Detail, ep |-> ep]) ELSE queue)
         /\ saving' = (alerted' # had)
  /\ UNCHANGED <<device, seenFile, blind, server, due, count, heard, reminded, excused>>

\* One report per episode: from the first scan that sees the name until one
\* that does not.  A report the queue refuses is tried again by the next scan.
Scan ==
  /\ list /\ ~saving
  /\ \E fresh \in BOOLEAN : FindInstalled(fresh)
  /\ LET had   == alerted \/ (~loaded /\ seenFile)
         found == pid # 0 \/ cache'
         ep    == IF seen THEN episode ELSE episode + 1
     IN  /\ loaded' = TRUE /\ seen' = found
         /\ episode' = (IF found THEN ep ELSE episode)
         /\ alerted' = (found /\ (had \/ ~blind))
         /\ queue' = (IF found /\ ~had /\ ~blind THEN Append(queue, [what |-> Detail, ep |-> ep]) ELSE queue)
         /\ saving' = (alerted' # had)
  /\ UNCHANGED <<device, seenFile, blind, server, due, count, heard, reminded, excused>>

\* A write that fails is logged and forgotten.
SaveAlerted ==
  /\ saving /\ saving' = FALSE
  /\ \/ seenFile' = alerted /\ NoFault /\ UNCHANGED past
     \/ Fault /\ excused' = TRUE /\ UNCHANGED <<seenFile, episode, seen, heard, reminded>>
  /\ UNCHANGED <<device, alerted, loaded, cache, warm, queue, blind, server, due>>

\* The process dies, between a scan and its save too, and starts again.
RestartAgent ==
  /\ Fault
  /\ alerted' = FALSE /\ loaded' = FALSE /\ cache' = FALSE /\ warm' = FALSE /\ saving' = FALSE
  /\ outboxWasDown' = FALSE
  /\ excused' = (excused \/ (saving /\ seenFile # alerted /\ ~alerted))
  /\ UNCHANGED <<device, seenFile, queue, blind, known, lastSeen, alert, minSeverity, due,
                 episode, seen, heard, reminded>>

\* The directory of the queue stops taking files, and takes them again.
Blind ==
  /\ IF blind THEN NoFault ELSE Fault
  /\ blind' = ~blind
  /\ UNCHANGED <<device, monitor, queue, server, due, past>>

-----------------------------------------------------------------------------
(* The server: rows of alerts.                                             *)

\* No second row while one of the same type and details is not acknowledged.
Same(what) == {a \in Rows : alert[a].what = what /\ ~alert[a].acked}

Insert(what) ==
  \E a \in Id \ Rows :
    /\ \A b \in Id \ Rows : a <= b
    /\ alert' = [alert EXCEPT ![a] = [what |-> what, created |-> now, acked |-> FALSE, escalated |-> -1]]

\* The COMMIT behind the answer may fail and nobody looks: the caller goes on
\* as if the row were there.
CreateAlert(what) ==
  \/ Same(what) # {} /\ NoFault /\ UNCHANGED <<alert, excused>>
  \/ Same(what) = {} /\ Insert(what) /\ NoFault /\ UNCHANGED excused
  \/ Same(what) = {} /\ Fault /\ excused' = TRUE /\ UNCHANGED alert

\* A report of a device without a row is accepted and dropped.  An answer
\* that is lost leaves the report in the queue.
ReportSecurityEvent ==
  /\ queue # <<>>
  /\ LET r == Head(queue)
     IN  \/ known /\ CreateAlert(r.what) /\ queue' = Tail(queue) /\ heard' = heard \cup {r.ep}
         \/ ~known /\ queue' = Tail(queue) /\ heard' = heard \cup {r.ep} /\ NoFault
            /\ UNCHANGED <<alert, excused>>
         \/ /\ known /\ Same(r.what) = {} /\ Insert(r.what) /\ Fault
            /\ heard' = heard \cup {r.ep} /\ UNCHANGED <<queue, excused>>
  /\ UNCHANGED <<device, monitor, blind, known, lastSeen, outboxWasDown, minSeverity, due, episode, seen, reminded>>

\* The queue's trouble is reported beside it, at its beginning only: a
\* heartbeat's alert that fails is not tried again while the stream lives.
ReportOutboxHealth ==
  /\ known /\ lastSeen' = now /\ outboxWasDown' = blind
  /\ IF blind /\ ~outboxWasDown
     THEN \/ CreateAlert(<<"outbox_unavailable", 0>>)
          \/ Fault /\ UNCHANGED <<alert, excused>>
     ELSE NoFault /\ UNCHANGED <<alert, excused>>
  /\ UNCHANGED <<device, monitor, queue, blind, known, minSeverity, due, episode, seen, heard, reminded>>

\* ON DELETE CASCADE takes the alerts along; what was taken stays.
DeleteDevice ==
  /\ known /\ Change
  /\ known' = FALSE /\ alert' = [a \in Id |-> None] /\ excused' = TRUE
  /\ UNCHANGED <<device, monitor, queue, blind, lastSeen, outboxWasDown, minSeverity, due,
                 episode, seen, heard, reminded>>

\* One row per silence, and none while the last one is younger than Cooldown.
DetectUnreachable ==
  LET silent == {a \in Rows : alert[a].what[1] = "agent_unreachable"}
  IN  /\ Unreachable > 0 /\ known /\ lastSeen < now - Unreachable
      /\ \A a \in silent : alert[a].created <= lastSeen
      /\ Cooldown <= 0 \/ \A a \in silent : alert[a].created <= now - Cooldown
      /\ \E a \in Id \ Rows : /\ \A b \in Id \ Rows : a <= b
                              /\ alert' = [alert EXCEPT ![a] = [what |-> <<"agent_unreachable", lastSeen>>,
                                             created |-> now, acked |-> FALSE, escalated |-> -1]]
      /\ UNCHANGED <<device, monitor, queue, blind, known, lastSeen, outboxWasDown, minSeverity, due, count, past>>

AcknowledgeAlert(a) ==
  /\ a \in Rows /\ ~alert[a].acked /\ alert' = [alert EXCEPT ![a].acked = TRUE]
  /\ UNCHANGED <<device, monitor, queue, blind, known, lastSeen, outboxWasDown, minSeverity, due, count, past>>

SetNotifyMinSeverity ==
  /\ Change /\ minSeverity' \in Levels \ {minSeverity}
  /\ UNCHANGED <<device, monitor, queue, blind, known, lastSeen, outboxWasDown, alert, due, past>>

-----------------------------------------------------------------------------
(* The server: messages.                                                   *)

\* Whatever the recipient or the event does not say is delivered.
DeliverTo(s, threshold) == threshold = "" \/ Rank[s] >= Rank[threshold]

Overdue(a) ==
  /\ ~alert[a].acked /\ Rank[DefaultFor(alert[a].what[1])] >= Rank[MinSeverity]
  /\ alert[a].created < now - After
  /\ \/ alert[a].escalated = -1
     \/ Repeat > 0 /\ alert[a].escalated < now - Repeat

\* The rows are marked in the statement that takes them, and only then sent.
\* A COMMIT that fails takes the marks back and not the messages.
TakeEscalations ==
  /\ After > 0 /\ due = {}
  /\ LET taken == {a \in Rows : Overdue(a)}
     IN  /\ taken # {} /\ due' = taken
         /\ \/ /\ alert' = [a \in Id |-> IF a \in taken THEN [alert[a] EXCEPT !.escalated = now] ELSE alert[a]]
               /\ NoFault /\ UNCHANGED excused
            \/ Fault /\ excused' = TRUE /\ UNCHANGED alert
  /\ UNCHANGED <<device, monitor, queue, blind, known, lastSeen, outboxWasDown, minSeverity,
                 episode, seen, heard, reminded>>

\* The sweep sends one message after the other; a failed one is logged.
SendEscalation(a) ==
  /\ a \in due /\ due' = due \ {a}
  /\ reminded' = (IF alert[a] # None /\ DeliverTo(DefaultFor(alert[a].what[1]), minSeverity)
                  THEN [reminded EXCEPT ![a] = @ + 1] ELSE reminded)
  /\ UNCHANGED <<device, monitor, queue, blind, server, count, episode, seen, heard, excused>>

RestartServer ==
  /\ Fault /\ due' = {} /\ outboxWasDown' = FALSE
  /\ UNCHANGED <<device, monitor, queue, blind, known, lastSeen, alert, minSeverity, past>>

Tick ==
  /\ now < MaxTime /\ now' = now + 1
  /\ UNCHANGED <<device, monitor, queue, blind, server, due, changes, faults, past>>

Next ==
  \/ Software \/ SyncList \/ Scan \/ SaveAlerted \/ RestartAgent \/ Blind
  \/ ReportSecurityEvent \/ ReportOutboxHealth \/ DeleteDevice \/ DetectUnreachable
  \/ SetNotifyMinSeverity \/ TakeEscalations \/ RestartServer \/ Tick
  \/ \E a \in Id : AcknowledgeAlert(a) \/ SendEscalation(a)

Spec == Init /\ [][Next]_vars

-----------------------------------------------------------------------------
\* Forbidden software the monitor holds for reported is reported: of the
\* episode the last scan belongs to, a report is in the queue or has come to
\* the server.  Over restarts this rests on the file: a save that failed, or
\* that a crash forestalled, after an episode ended keeps the next one silent.
EpisodeReported ==
  seen /\ loaded /\ alerted /\ ~excused =>
    episode \in heard \/ \E i \in 1..Len(queue) : queue[i].ep = episode

\* An alert without repetition is escalated once, over restarts of the server
\* between taking and sending and a device that is silent or back: a reminder
\* is lost rather than sent twice, unless the mark itself was.
EscalatedAtMostOnce == Repeat = 0 /\ ~excused => \A a \in Id : reminded[a] <= 1

\* A breach is told, and an operator is not told of it for ever.
AlertsAreTold == EpisodeReported /\ EscalatedAtMostOnce

=============================================================================
