--------------------------- MODULE StateMigration ---------------------------
(***************************************************************************)
(* The agent's state when the Windows service starts: the directory it is  *)
(* to keep its state in is secured, what an earlier installation left in   *)
(* the old place (the service's working directory) is moved over, and the  *)
(* agent runs on one of the two places (cmd/agent/main.go runAgent,        *)
(* cmd/agent/migrate_state.go).                                            *)
(* The queue of reports is a directory of records.  The files (tasks.seen, *)
(* scripts.seen, the floor of versions, ...) are moved alike: one stands   *)
(* for them, the set of tasks the agent has run.                           *)
(***************************************************************************)
EXTENDS FiniteSets, Integers

CONSTANTS
  Record, Task,
  MaxFaults,           \* bound: failed calls of the file system
  MaxStops,            \* bound: stops and crashes of the agent
  None

VARIABLES
  outbox, seen,        \* by place: the records; the tasks of tasks.seen, or None
  at,                  \* the place the running agent uses
  step,                \* down, files, entries, running
  moving,              \* copied, the source not yet removed
  todo,                \* entries migrateDir has still to look at
  faults, stops,
  \* history
  queued,              \* reports the agent accepted
  sent, resent,        \* reports the server has; those it got again
  done,                \* tasks run
  doubled,             \* records left in both places by a fault
  missed               \* tasks of a file a fault kept from being moved or read

disk    == <<outbox, seen>>
history == <<queued, sent, resent, done, doubled, missed>>
count   == <<faults, stops>>
vars    == <<disk, at, step, moving, todo, count, history>>

Place == {"old", "new"}

TypeOK ==
  /\ outbox \in [Place -> SUBSET Record] /\ seen \in [Place -> (SUBSET Task) \cup {None}]
  /\ at \in Place /\ step \in {"down", "files", "entries", "running"}
  /\ moving \in Record \cup {"seen", None} /\ todo \subseteq Record
  /\ faults \in 0..MaxFaults /\ stops \in 0..MaxStops
  /\ queued \subseteq Record /\ sent \subseteq Record /\ resent \subseteq Record /\ done \subseteq Task
  /\ doubled \subseteq Record /\ missed \subseteq Task

\* The earlier installation ran in the old place.
Init ==
  /\ outbox = [p \in Place |-> {}] /\ seen = [p \in Place |-> None]
  /\ at = "old" /\ step = "running" /\ moving = None /\ todo = {}
  /\ faults = 0 /\ stops = 0
  /\ queued = {} /\ sent = {} /\ resent = {} /\ done = {} /\ doubled = {} /\ missed = {}

Fault   == faults < MaxFaults /\ faults' = faults + 1 /\ UNCHANGED stops
NoFault == UNCHANGED count

Known(p)      == IF seen[p] = None THEN {} ELSE seen[p]
Without(p, r) == [outbox EXCEPT ![p] = @ \ {r}]
With(p, r)    == [outbox EXCEPT ![p] = @ \cup {r}]

-----------------------------------------------------------------------------
(* The start of the service.                                               *)

\* EnsureDataDir is a gate: if the new place cannot be secured the agent
\* runs on the old one this time, and moves nothing.
EnsureDataDir ==
  /\ step = "down"
  /\ \/ /\ step' = "files" /\ at' = "new" /\ NoFault /\ UNCHANGED <<doubled, missed>>
     \/ /\ step' = "running" /\ at' = "old" /\ Fault
        /\ doubled' = doubled \cup (outbox["old"] \cap outbox["new"])
        /\ missed' = missed \cup Known("new")
  /\ UNCHANGED <<disk, moving, todo, queued, sent, resent, done>>

\* migrateLegacyState looks at the files, then at the directory.
Entries == step' = "entries" /\ todo' = outbox["old"]

\* Mutant of MigrateFile: the old file overwrites the one of the new place.
MigrateFileOver ==
  /\ step = "files" /\ moving = None
  /\ IF seen["old"] = None THEN Entries /\ UNCHANGED <<seen, moving>>
     ELSE /\ seen' = [seen EXCEPT !["new"] = seen["old"]] /\ moving' = "seen"
          /\ UNCHANGED <<step, todo>>
  /\ NoFault /\ UNCHANGED <<outbox, at, history>>

\* A file already in the new place outweighs the old one, which is removed.
MigrateFile ==
  /\ step = "files" /\ moving = None
  /\ \/ seen["old"] = None /\ Entries /\ NoFault /\ UNCHANGED <<disk, moving, missed>>
     \/ /\ seen["old"] # None /\ seen["new"] # None /\ Entries
        /\ \/ seen' = [seen EXCEPT !["old"] = None] /\ NoFault
           \/ UNCHANGED seen /\ Fault
        /\ UNCHANGED <<outbox, moving, missed>>
     \/ /\ seen["old"] # None /\ seen["new"] = None
        /\ \/ /\ seen' = [seen EXCEPT !["new"] = seen["old"]] /\ moving' = "seen"
              /\ NoFault /\ UNCHANGED <<step, todo, missed>>
           \/ /\ Entries /\ Fault
              /\ missed' = missed \cup Known("old") /\ UNCHANGED <<seen, moving>>
        /\ UNCHANGED outbox
  /\ UNCHANGED <<at, queued, sent, resent, done, doubled>>

RemoveFile ==
  /\ step = "files" /\ moving = "seen" /\ moving' = None /\ Entries
  /\ \/ seen' = [seen EXCEPT !["old"] = None] /\ NoFault
     \/ UNCHANGED seen /\ Fault
  /\ UNCHANGED <<outbox, at, history>>

\* A record with its name already in the new place is only removed.
MigrateEntry(r) ==
  /\ step = "entries" /\ moving = None /\ r \in todo
  /\ \/ /\ r \in outbox["new"] /\ todo' = todo \ {r}
        /\ \/ outbox' = Without("old", r) /\ NoFault /\ UNCHANGED doubled
           \/ UNCHANGED outbox /\ Fault /\ doubled' = doubled \cup {r}
        /\ UNCHANGED moving
     \/ /\ r \notin outbox["new"] /\ outbox' = With("new", r) /\ moving' = r
        /\ NoFault /\ UNCHANGED <<todo, doubled>>
     \/ /\ r \notin outbox["new"] /\ todo' = todo \ {r} /\ Fault
        /\ UNCHANGED <<outbox, moving, doubled>>
  /\ UNCHANGED <<seen, at, step, queued, sent, resent, done, missed>>

RemoveEntry(r) ==
  /\ step = "entries" /\ moving = r /\ moving' = None /\ todo' = todo \ {r}
  /\ \/ outbox' = Without("old", r) /\ NoFault /\ UNCHANGED doubled
     \/ UNCHANGED outbox /\ Fault /\ doubled' = doubled \cup {r}
  /\ UNCHANGED <<seen, at, step, queued, sent, resent, done, missed>>

Started ==
  /\ step = "entries" /\ moving = None /\ todo = {}
  /\ step' = "running"
  /\ UNCHANGED <<disk, at, moving, todo, count, history>>

-----------------------------------------------------------------------------
(* The agent at work, and its end.                                         *)

\* Names of records hold the nanosecond they were written at: none comes back.
Enqueue(r) ==
  /\ step = "running" /\ r \notin queued
  /\ outbox' = With(at, r) /\ queued' = queued \cup {r}
  /\ UNCHANGED <<seen, at, step, moving, todo, count, sent, resent, done, doubled, missed>>

Deliver(r) ==
  /\ step = "running" /\ r \in outbox[at]
  /\ outbox' = Without(at, r) /\ sent' = sent \cup {r}
  /\ resent' = IF r \in sent THEN resent \cup {r} ELSE resent
  /\ UNCHANGED <<seen, at, step, moving, todo, count, queued, done, doubled, missed>>

\* A task the file does not hold is run, and its number appended.
RunTask(t) ==
  /\ step = "running" /\ t \notin Known(at)
  /\ seen' = [seen EXCEPT ![at] = Known(at) \cup {t}]
  /\ done' = done \cup {t}
  /\ missed' = IF at = "old" /\ seen["new"] # None THEN missed \cup {t} ELSE missed
  /\ UNCHANGED <<outbox, at, step, moving, todo, count, queued, sent, resent, doubled>>

Stop ==
  /\ step # "down" /\ stops < MaxStops /\ stops' = stops + 1 /\ UNCHANGED faults
  /\ step' = "down" /\ moving' = None /\ todo' = {}
  /\ UNCHANGED <<disk, at, history>>

Next ==
  \/ EnsureDataDir \/ MigrateFile \/ RemoveFile \/ Started \/ Stop
  \/ \E r \in Record : MigrateEntry(r) \/ RemoveEntry(r) \/ Enqueue(r) \/ Deliver(r)
  \/ \E t \in Task : RunTask(t)

Spec == Init /\ [][Next]_vars

-----------------------------------------------------------------------------
(* Properties.                                                             *)

\* A report the agent accepted is on the server or in one of the places, and
\* goes to the server once although it may have been in both.
NotLost   == queued \subseteq sent \cup outbox["old"] \cup outbox["new"]
NotResent == resent \subseteq doubled

\* What the agent has run it knows when it works again.
SeenKept == step = "running" => done \subseteq Known(at) \cup missed

\* The move survives a stop at any step of it and a failure of any one call:
\* no record is lost or sent twice, and no task is run again, but for what a fault
\* left where it was (migrate_state.go migrateFile,
\* migrateDir: copied whole, then the source removed, file by file).
StateSurvives == NotLost /\ NotResent /\ SeenKept
=============================================================================
