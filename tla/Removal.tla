------------------------------- MODULE Removal -------------------------------
(***************************************************************************)
(* The three tasks that take something away from a device: a reboot, the   *)
(* removal of a program, and the device's decommissioning.                 *)
(*   - the API and the rows of the tasks (api/handler.go, uninstall/       *)
(*     routes.go, storage/postgres.go) and what a result does to them      *)
(*     (gateway.ReportTaskResult);                                         *)
(*   - the executor's handlers (command/executor.go), each of which        *)
(*     reports in its own way, the OS scheduler (agent/reboot), and the    *)
(*     choice of the record to remove (agent/uninstall);                   *)
(*   - the teardown of the agent itself (cmd/agent/decommission.go, agent/ *)
(*     decommission) on its three platforms.                               *)
(* Delivery is that of TaskDelivery: a pending task reaches an agent that  *)
(* has not seen it.  One device.                                           *)
(***************************************************************************)
EXTENDS Integers, FiniteSets

CONSTANTS
  Record,              \* records the device's collector may find, see below
  MaxTasks,            \* bound: rows of tasks
  MaxFaults,           \* bound: lost calls, refusals of the OS, crashes
  MaxChanges,          \* bound: installations and removals on the device
  None                 \* no task, no record

VARIABLES
  \* the server
  device,              \* devices.status
  task,                \* rows of tasks
  inventory,           \* device_software
  counted,             \* rebootGroup is between its count and its INSERT
  \* the device
  platform,
  installed,           \* what the collector would find
  left,                \* parts of the agent still there
  due,                 \* the OS has a reboot scheduled
  deleter,             \* Windows: the batch file that outlives the process
  \* the agent
  mode,                \* "up", "ending" (told to go), "teardown", "down", "gone"
  step,                \* of the teardown
  seen,                \* persistent
  work,                \* where each task's handler is
  found,               \* the record each uninstall works on
  result,              \* and what it is going to report
  outbox,              \* durable results
  faults, changes,
  \* history
  removed,             \* <<record, selector>> of every program taken off
  stuck                \* parts the OS refused to remove

server == <<device, task, inventory, counted>>
places == <<platform, installed, left, due, deleter>>
agent  == <<mode, step, seen, work, found, result, outbox>>
count  == <<faults, changes>>
past   == <<removed, stuck>>
vars   == <<server, places, agent, count, past>>

Id       == 1..MaxTasks
Kind     == {"reboot", "uninstall", "decommission"}
Platform == {"windows", "darwin", "linux"}

\* "cert" or "stored" is the identity, in files or in the store of the OS;
\* "package" the registration with the installer (MSI, dpkg or rpm, receipt).
Part == {"service", "autostart", "cert", "stored", "token", "state", "exe", "package"}
Installation(p, identity) ==
  {"service", "token", "state", "exe", "package", identity} \cup (IF p = "linux" THEN {} ELSE {"autostart"})

\* A record of the collector, all of one name.  sign: how it gives away that
\* it is the agent, by its name, key or path, or by its vendor only.
AnyRecord == [ver : 1..2, method : {"one", "two"}, sign : {"none", "path", "vendor"}]
\* Version 0 is unknown: the server's column was empty.
Selector == [ver : 0..2, method : {"one", "two"}, sign : {"none", "path"}]
Outcome  == {"removed", "absent", "changed", "ambiguous", "protected", "failed", "present"}
Row      == [kind : Kind, status : {"pending", "acked", "completed", "failed"},
             sel : Selector \cup {None}, outcome : Outcome \cup {None}]
Report   == Outcome \cup {"ok", "error", None}
Place    == {"idle", "start", "exec", "rescan", "call", "deliver", "direct"}

TypeOK ==
  /\ device \in {"active", "blocked", "decommissioned"}
  /\ task \in [Id -> Row \cup {None}] /\ inventory \subseteq Record /\ counted \in BOOLEAN
  /\ platform \in Platform /\ installed \subseteq Record /\ Record \subseteq AnyRecord /\ left \subseteq Part
  /\ due \in BOOLEAN /\ deleter \in {"none", "msi", "del"}
  /\ mode \in {"up", "ending", "teardown", "down", "gone"}
  /\ step \in {"none", "service", "store", "files", "dirs", "exe", "last"}
  /\ seen \subseteq Id /\ work \in [Id -> Place] /\ found \in [Id -> Record \cup {None}]
  /\ result \in [Id -> Report] /\ outbox \subseteq Id
  /\ faults \in 0..MaxFaults /\ changes \in 0..MaxChanges
  /\ removed \subseteq Record \X Selector /\ stuck \subseteq Part

Init ==
  /\ device = "active" /\ task = [t \in Id |-> None] /\ counted = FALSE
  /\ installed \in {{r} : r \in Record} /\ inventory = installed
  /\ platform \in Platform /\ \E i \in {"cert", "stored"} : left = Installation(platform, i)
  /\ due = FALSE /\ deleter = "none"
  /\ mode = "up" /\ step = "none" /\ seen = {} /\ outbox = {}
  /\ work = [t \in Id |-> "idle"] /\ found = [t \in Id |-> None] /\ result = [t \in Id |-> None]
  /\ faults = 0 /\ changes = 0 /\ removed = {} /\ stuck = {}

Fault   == faults < MaxFaults /\ faults' = faults + 1 /\ UNCHANGED changes
NoFault == UNCHANGED count

-----------------------------------------------------------------------------
(* The server.                                                             *)

Rows(kind, status) == {t \in Id : task[t] # None /\ task[t].kind = kind /\ task[t].status = status}

Insert(row) ==
  \E t \in Id :
    /\ task[t] = None /\ \A u \in 1..(t - 1) : task[u] # None
    /\ task' = [task EXCEPT ![t] = row]

New(kind, sel) == [kind |-> kind, status |-> "pending", sel |-> sel, outcome |-> None]

\* The operator blocks and unblocks; the terminal status stays.
UpdateDeviceStatus ==
  /\ device' \in {"active", "blocked"} \ {device} /\ device # "decommissioned"
  /\ UNCHANGED <<task, inventory, counted, places, agent, count, past>>

\* Any device but a decommissioned one, and nothing against a second task.
DecommissionDevice ==
  /\ device # "decommissioned"
  /\ Insert(New("decommission", None))
  /\ UNCHANGED <<device, inventory, counted, places, agent, count, past>>

\* One pending reboot at a time: the second request gets the first one's row.
CreateRebootTask ==
  IF Rows("reboot", "pending") = {} THEN Insert(New("reboot", None)) ELSE UNCHANGED task

RebootDevice ==
  /\ device = "active" /\ CreateRebootTask
  /\ UNCHANGED <<device, inventory, counted, places, agent, count, past>>

\* The group's reboot counts its active devices, compares the number with the
\* one the operator confirmed, and inserts for those active then.
RebootGroup(expected) ==
  /\ ~counted /\ expected = (IF device = "active" THEN 1 ELSE 0)
  /\ counted' = TRUE
  /\ UNCHANGED <<device, task, inventory, places, agent, count, past>>

FanOutRebootToGroup ==
  /\ counted /\ counted' = FALSE
  /\ IF device = "active" THEN CreateRebootTask ELSE UNCHANGED task
  /\ UNCHANGED <<device, inventory, places, agent, count, past>>

\* The target is read from the inventory; one pending task per target.
CreateUninstallTask(r, versionKnown) ==
  /\ device = "active" /\ r \in inventory
  /\ LET sel == [ver |-> IF versionKnown THEN r.ver ELSE 0, method |-> r.method,
                 sign |-> IF r.sign = "path" THEN "path" ELSE "none"]
     IN  IF \E t \in Rows("uninstall", "pending") : task[t].sel = sel
         THEN UNCHANGED task ELSE Insert(New("uninstall", sel))
  /\ UNCHANGED <<device, inventory, counted, places, agent, count, past>>

\* FailStaleAckedTasks and its like: no result for long.
Sweep(t) ==
  /\ task[t] # None /\ task[t].status = "acked"
  /\ task' = [task EXCEPT ![t].status = "failed"]
  /\ UNCHANGED <<device, inventory, counted, places, agent, count, past>>

SetTaskUninstallOutcome(t) == task[t].kind = "uninstall" /\ result[t] \in Outcome

MarkDeviceDecommissioned(t) == task[t].kind = "decommission" /\ result[t] = "ok"

\* The two are best effort (kept = FALSE: the write failed): a failure is logged
\* and the agent is told that the result was received.
ReportTaskResult(t, kept) ==
  /\ task' = [task EXCEPT ![t].status = IF result[t] \in {"ok", "removed", "absent"} THEN "completed" ELSE "failed",
                          ![t].outcome = IF kept /\ SetTaskUninstallOutcome(t) THEN result[t] ELSE @]
  /\ device' = IF kept /\ MarkDeviceDecommissioned(t) THEN "decommissioned" ELSE device

\* One unary call: answered, half done, or lost.
Call(t) ==
  \/ ReportTaskResult(t, TRUE) /\ NoFault
  \/ ReportTaskResult(t, FALSE) /\ Fault

Lost == UNCHANGED <<device, task>> /\ Fault

-----------------------------------------------------------------------------
(* The agent: receiving, and the way back of a result.                     *)

Identified == left \cap {"cert", "stored"} # {}
Running   == mode = "up" /\ Identified
Executing == mode \in {"up", "ending"} /\ Identified
GoTo(t, place) == work' = [work EXCEPT ![t] = place]
Gives(t, r) == result' = [result EXCEPT ![t] = r]

\* A device that is cut off has no stream.  The seen-set is marked first, the
\* acknowledgement may be lost.
Receive(t) ==
  /\ Running /\ device = "active" /\ task[t] # None /\ task[t].status = "pending" /\ t \notin seen
  /\ seen' = seen \cup {t} /\ GoTo(t, "start")
  /\ \/ task' = [task EXCEPT ![t].status = "acked"] /\ NoFault
     \/ UNCHANGED task /\ Fault
  /\ UNCHANGED <<device, inventory, counted, places, mode, step, found, result, outbox, past>>

ReportInventory ==
  /\ Running /\ device = "active" /\ inventory' = installed
  /\ UNCHANGED <<device, task, counted, places, agent, count, past>>

\* deliver: the queue, or, if it refuses, one direct call.
Deliver(t) ==
  /\ Executing /\ work[t] = "deliver"
  /\ \/ outbox' = outbox \cup {t} /\ GoTo(t, "idle") /\ NoFault
     \/ GoTo(t, "direct") /\ UNCHANGED outbox /\ Fault
  /\ UNCHANGED <<server, places, mode, step, seen, found, result, past>>

\* report: the last attempt.
ReportDirectly(t) ==
  /\ Executing /\ work[t] = "direct" /\ GoTo(t, "idle")
  /\ Call(t) \/ Lost
  /\ UNCHANGED <<inventory, counted, places, mode, step, seen, found, result, outbox, past>>

Flush(t) ==
  /\ Executing /\ t \in outbox
  /\ outbox' = outbox \ {t} /\ Call(t)
  /\ UNCHANGED <<inventory, counted, places, mode, step, seen, work, found, result, past>>

-----------------------------------------------------------------------------
(* Reboot.                                                                 *)

\* First the OS, then the report.
HandleReboot(t) ==
  /\ Executing /\ work[t] = "start" /\ task[t].kind = "reboot"
  /\ \/ due' = TRUE /\ Gives(t, "ok") /\ GoTo(t, "call") /\ NoFault
     \/ Gives(t, "error") /\ GoTo(t, "deliver") /\ UNCHANGED due /\ Fault
  /\ UNCHANGED <<server, platform, installed, left, deleter, mode, step, seen, found, outbox, past>>

\* A direct call, and the queue if it fails.
ReportBeforeReboot(t) ==
  /\ Executing /\ work[t] = "call" /\ task[t].kind = "reboot"
  /\ \/ Call(t) /\ GoTo(t, "idle")
     \/ Lost /\ GoTo(t, "deliver")
  /\ UNCHANGED <<inventory, counted, places, mode, step, seen, found, result, outbox, past>>

-----------------------------------------------------------------------------
(* Removing a program.                                                     *)

\* Mutant of MatchesSelector: the version is not compared.
MatchesByName(r, sel) == TRUE

\* Empty fields of the selector match anything.
MatchesSelector(r, sel) == sel.ver # 0 => r.ver = sel.ver

Candidates(sel) == {r \in installed : MatchesSelector(r, sel)}

\* Not by the name and version alone: the same record, if it is there.
FindSame(r) == r \in installed

\* Guard one looks at the selector, guard two at the record that was found.
HandleUninstall(t) ==
  /\ Executing /\ work[t] = "start" /\ task[t].kind = "uninstall"
  /\ LET sel == task[t].sel
         Answer(o) == Gives(t, o) /\ GoTo(t, "deliver") /\ UNCHANGED found
     IN  \/ sel.sign = "path" /\ Answer("protected")
         \/ /\ sel.sign # "path"
            /\ \/ installed = {} /\ Answer("absent")
               \/ installed # {} /\ Candidates(sel) = {} /\ Answer("changed")
               \/ Cardinality(Candidates(sel)) > 1 /\ Answer("ambiguous")
               \/ \E r \in Candidates(sel) :
                    /\ Candidates(sel) = {r}
                    /\ \/ r.sign # "none" /\ Answer("protected")
                       \/ r.sign = "none" /\ r.method # sel.method /\ Answer("changed")
                       \/ /\ r.sign = "none" /\ r.method = sel.method
                          /\ found' = [found EXCEPT ![t] = r] /\ GoTo(t, "exec") /\ UNCHANGED result
  /\ UNCHANGED <<server, places, mode, step, seen, outbox, count, past>>

\* The uninstaller runs: it takes the program off, or says it did and leaves
\* it (until the next reboot), or fails.  An update in place between the scan
\* and this moment is left out: a record is as good as its machine key.
Execute(t) ==
  /\ Executing /\ work[t] = "exec"
  /\ \/ /\ found[t] \in installed
        /\ installed' = installed \ {found[t]} /\ removed' = removed \cup {<<found[t], task[t].sel>>}
        /\ GoTo(t, "rescan") /\ NoFault /\ UNCHANGED result
     \/ GoTo(t, "rescan") /\ Fault /\ UNCHANGED <<installed, removed, result>>
     \/ Gives(t, "failed") /\ GoTo(t, "deliver") /\ (found[t] \in installed => faults < MaxFaults)
        /\ NoFault /\ UNCHANGED <<installed, removed>>
  /\ UNCHANGED <<server, platform, left, due, deleter, mode, step, seen, found, outbox, stuck>>

Rescan(t) ==
  /\ Executing /\ work[t] = "rescan" /\ GoTo(t, "deliver")
  /\ Gives(t, IF FindSame(found[t]) THEN "present" ELSE "removed")
  /\ UNCHANGED <<server, places, mode, step, seen, found, outbox, count, past>>

\* Users, updaters and installers.
SoftwareChanges(r) ==
  /\ changes < MaxChanges /\ changes' = changes + 1 /\ UNCHANGED faults
  /\ \/ installed' = IF r \in installed THEN installed \ {r} ELSE installed \cup {r}
     \/ \E q \in installed : q.ver # r.ver /\ installed' = (installed \ {q}) \cup {r}
  /\ UNCHANGED <<server, platform, left, due, deleter, agent, past>>

-----------------------------------------------------------------------------
(* Decommissioning.                                                        *)

\* The report goes out while there is still a certificate to send it with;
\* whether it arrives or not, the agent ends its cycle.
HandleDecommission(t) ==
  /\ Executing /\ work[t] = "start" /\ task[t].kind = "decommission"
  /\ Gives(t, "ok") /\ GoTo(t, "call")
  /\ UNCHANGED <<server, places, mode, step, seen, found, outbox, count, past>>

ConfirmDecommission(t) ==
  /\ Executing /\ work[t] = "call" /\ task[t].kind = "decommission"
  /\ Call(t) \/ Lost
  /\ GoTo(t, "idle") /\ mode' = "ending"
  /\ UNCHANGED <<inventory, counted, places, step, seen, found, result, outbox, past>>

\* Shutdown waits for the tasks in hand, FlushOnce gets five seconds for what
\* is queued, and then the teardown starts.
RunDecommission ==
  /\ mode = "ending" /\ \A t \in Id : work[t] = "idle"
  /\ mode' = "teardown" /\ step' = "service"
  /\ UNCHANGED <<server, places, seen, work, found, result, outbox, count, past>>

\* Every step of the teardown goes on whatever the OS refuses.
Remove(parts) ==
  \E refused \in SUBSET (parts \cap left) :
    /\ left' = left \ (parts \ refused) /\ stuck' = stuck \cup refused
    /\ IF refused = {} THEN NoFault ELSE Fault

Teardown(from, to) == mode = "teardown" /\ step = from /\ step' = to

restOfTeardown == <<server, platform, installed, due, seen, work, found, result, outbox, removed>>

\* The service manager's entry.  Windows and Linux ask the process to stop and
\* let it; macOS kills the one that asks, which is why it is left for last.
UninstallService ==
  /\ platform # "darwin" /\ Teardown("service", "store") /\ Remove({"service"})
  /\ UNCHANGED <<restOfTeardown, deleter, mode>>

\* Mutant of StopServiceEarlyDarwin: the service goes first, and this process with it.
StopServiceEarlyEverywhere ==
  /\ platform = "darwin" /\ Teardown("service", "none") /\ mode' = "gone" /\ Remove({"service"})
  /\ UNCHANGED <<restOfTeardown, deleter>>

StopServiceEarlyDarwin ==
  /\ platform = "darwin" /\ Teardown("service", "store")
  /\ UNCHANGED <<restOfTeardown, left, deleter, mode, stuck, count>>

PurgeKeystore ==
  /\ Teardown("store", "files") /\ Remove({"stored"})
  /\ UNCHANGED <<restOfTeardown, deleter, mode>>

\* The plan's files: certificate and key, states, the token an installer left.
RemoveFiles ==
  /\ Teardown("files", "dirs") /\ Remove({"cert", "token"})
  /\ UNCHANGED <<restOfTeardown, deleter, mode>>

\* A directory that is not removed now is tried once more at the end.
RemoveDirs ==
  /\ Teardown("dirs", "exe")
  /\ \/ left' = left \ {"state"} /\ NoFault
     \/ UNCHANGED left /\ Fault
  /\ UNCHANGED <<restOfTeardown, deleter, mode, stuck>>

\* Windows: the executable is in use, by the tray too.  The tray's start is
\* removed, and a detached batch file is left to remove the rest.
ScheduleSelfDeleteWindows ==
  /\ platform = "windows" /\ Teardown("exe", "none") /\ mode' = "gone"
  /\ left' = left \ {"autostart"}
  /\ \/ deleter' = "msi" /\ NoFault /\ UNCHANGED stuck
     \/ UNCHANGED deleter /\ Fault /\ stuck' = stuck \cup left'
  /\ UNCHANGED restOfTeardown

\* The batch file: the MSI takes its product off, unless the installer is busy
\* or fails; what is there still is then deleted file by file.
Msiexec ==
  /\ deleter = "msi" /\ mode = "gone" /\ deleter' = "del"
  /\ \/ left' = left \ {"service", "exe", "package"} /\ NoFault
     \/ left' = left \ {"service"} /\ Fault
  /\ UNCHANGED <<server, platform, installed, due, agent, past>>

BuildDeleterScript ==
  /\ deleter = "del" /\ mode = "gone" /\ deleter' = "none"
  /\ LET kept == left \cap {"package", "cert", "stored", "token"}   \* not its business
     IN  \/ left' = kept /\ stuck' = stuck \cup kept /\ NoFault
         \/ left' = left /\ stuck' = stuck \cup left /\ left # {} /\ Fault
  /\ UNCHANGED <<server, platform, installed, due, agent, removed>>

\* An operator's msi-unregister takes off the registration that stayed.
UnregisterMSI ==
  /\ platform = "windows" /\ mode = "gone" /\ deleter = "none" /\ "package" \in left
  /\ left' = left \ {"package"}
  /\ UNCHANGED <<server, platform, installed, due, deleter, agent, count, past>>

\* Unix: the executable can be unlinked while it runs.
RemoveExecutable ==
  /\ platform # "windows" /\ Teardown("exe", "last") /\ Remove({"state", "exe"})
  /\ UNCHANGED <<restOfTeardown, deleter, mode>>

\* Linux deregisters the package after that, and only after that: with the
\* executable there the package's script would stop this process.
DeregisterPackage ==
  /\ platform = "linux" /\ Teardown("last", "none") /\ mode' = "gone"
  /\ IF "exe" \in left
     THEN stuck' = stuck \cup (left \cap {"package"}) /\ UNCHANGED left /\ NoFault
     ELSE Remove({"package"})
  /\ UNCHANGED <<restOfTeardown, deleter>>

\* macOS: the tray, the receipt and the service, and with the service the process.
UninstallServiceDarwin ==
  /\ platform = "darwin" /\ Teardown("last", "none") /\ mode' = "gone"
  /\ Remove({"autostart", "package", "service"})
  /\ UNCHANGED <<restOfTeardown, deleter>>

-----------------------------------------------------------------------------
(* Ends and beginnings.                                                    *)

Stops ==
  /\ mode' = (IF mode = "gone" THEN "gone" ELSE "down") /\ step' = "none"
  /\ work' = [t \in Id |-> "idle"] /\ found' = [t \in Id |-> None]
  /\ UNCHANGED <<seen, result, outbox>>

\* The reboot that was scheduled, at any later time: it spares nothing.
Reboot ==
  /\ due /\ due' = FALSE /\ Stops
  /\ stuck' = (IF deleter # "none" THEN stuck \cup left ELSE stuck) /\ deleter' = "none"
  /\ UNCHANGED <<server, platform, installed, left, count, removed>>

Crash ==
  /\ mode \in {"up", "ending", "teardown"} /\ Fault /\ Stops
  /\ UNCHANGED <<server, places, past>>

\* The service manager starts what is still registered.
Restart ==
  /\ mode = "down" /\ {"service", "exe"} \subseteq left
  /\ mode' = "up"
  /\ UNCHANGED <<server, places, step, seen, work, found, result, outbox, count, past>>

-----------------------------------------------------------------------------
ServerStep ==
  \/ UpdateDeviceStatus \/ DecommissionDevice \/ RebootDevice
  \/ (\E n \in 0..1 : RebootGroup(n)) \/ FanOutRebootToGroup
  \/ \E r \in Record, known \in BOOLEAN : CreateUninstallTask(r, known)
  \/ \E t \in Id : Sweep(t)

TaskStep(t) ==
  \/ Receive(t) \/ Deliver(t) \/ ReportDirectly(t) \/ Flush(t)
  \/ HandleReboot(t) \/ ReportBeforeReboot(t)
  \/ HandleUninstall(t) \/ Execute(t) \/ Rescan(t)
  \/ HandleDecommission(t) \/ ConfirmDecommission(t)

TeardownStep ==
  \/ RunDecommission \/ UninstallService \/ StopServiceEarlyDarwin
  \/ PurgeKeystore \/ RemoveFiles \/ RemoveDirs
  \/ ScheduleSelfDeleteWindows \/ Msiexec \/ BuildDeleterScript \/ UnregisterMSI
  \/ RemoveExecutable \/ DeregisterPackage \/ UninstallServiceDarwin

Next ==
  \/ ServerStep \/ (\E t \in Id : TaskStep(t)) \/ TeardownStep
  \/ ReportInventory \/ (\E r \in Record : SoftwareChanges(r))
  \/ Reboot \/ Crash \/ Restart

Spec == Init /\ [][Next]_vars

-----------------------------------------------------------------------------
(* What is taken off a device is the record the operator chose, of the     *)
(* version the operator saw, and never the agent itself, whatever was      *)
(* installed and updated between the inventory and the command (the        *)
(* comments at resolve and at selfID).                                     *)
OnlyTheTarget ==
  \A p \in removed : /\ p[2].ver \in {0, p[1].ver}
                     /\ p[1].method = p[2].method /\ p[1].sign = "none"

(* A teardown that came to its end has removed every part of the agent that *)
(* the OS let it remove: it is never ended by its own steps (the comments   *)
(* at stopServiceEarly and at deregisterPackage).                           *)
TornDownWhole == mode = "gone" /\ deleter = "none" => left \subseteq stuck
=============================================================================
