------------------------------ MODULE Policies ------------------------------
(***************************************************************************)
(* Software policy: rules and groups, the list a device takes from them,   *)
(* and the compliance the console counts from its inventory.               *)
(*   - server: rules and groups (api/handler.go,                           *)
(*     api/script_policies_handler.go, storage/postgres.go), what a device *)
(*     is answered (FetchPolicyRules) and the SQL that counts compliance,  *)
(*     which decides the scope of a rule a second time;                    *)
(*   - agent: policy/sync.go, which asks with the version in its file;     *)
(*     inventory/inventory.go, which sends a snapshot of agent/collector   *)
(*     when its hash is not that of the last one sent.                     *)
(* One device.  A snapshot's hash is the snapshot, a version the multiset  *)
(* of names and types it is computed from: collisions are left out.        *)
(***************************************************************************)
EXTENDS Integers, FiniteSets

CONSTANTS
  Name,                \* names of software, the same in rules and inventory
  Group,
  OS,                  \* what the agent says it runs on
  Filters,             \* sets of platforms a rule may be asked for
  MaxEdits,            \* bound: operator's changes
  MaxChanges,          \* bound: changes on the device
  MaxFaults,           \* bound: failed calls, lost answers, failed writes and scans
  None

VARIABLES
  \* the server
  rules,               \* software_policy_rules
  groups,              \* device_groups
  row,                 \* the device: status, os, groups it is in, device_software
  \* the agent
  file,                \* the list of forbidden software and its version
  answer,              \* FetchPolicy's answer, before the file is written
  lastHash,            \* Reporter.lastHash
  report,              \* the snapshot being sent
  \* the machine
  installed,           \* software, of the machine and of a user
  session,             \* the user is logged on
  edits, changes, faults,
  \* history
  told,                \* forbidden names by the server's last answer
  blurred              \* the server may hold another snapshot than the agent thinks

server  == <<rules, groups, row>>
syncer  == <<file, answer, told>>
sender  == <<lastHash, report, blurred>>
machine == <<installed, session>>
count   == <<edits, changes, faults>>
vars    == <<server, syncer, sender, machine, count>>

Platform == {"Windows", "macOS", "Linux"}
Type     == {"allowed", "forbidden"}
Rule     == [id : 1..MaxEdits, name : Name, type : Type, where : {"all", "device"} \cup Group,
             platforms : SUBSET Platform]
Item     == [name : Name, scope : {"machine", "user"}]
Snapshot == [os : {OS}, software : SUBSET Item]
Row      == [status : {"active", "pending_approval"}, os : {"unknown", OS},
             groups : SUBSET Group, software : SUBSET Item]
Version  == [Name \X Type -> 0..MaxEdits]
List     == [version : Version \cup {None}, list : SUBSET Name]

TypeOK ==
  /\ rules \subseteq Rule /\ groups \subseteq Group /\ row \in Row \cup {None}
  /\ file \in List \cup {None} /\ answer \in List \cup {None}
  /\ lastHash \in Snapshot \cup {None} /\ report \in Snapshot \cup {None}
  /\ installed \subseteq Item /\ session \in BOOLEAN
  /\ edits \in 0..MaxEdits /\ changes \in 0..MaxChanges /\ faults \in 0..MaxFaults
  /\ told \subseteq Name /\ blurred \in BOOLEAN

NewRow == [status |-> "active", os |-> "unknown", groups |-> {}, software |-> {}]

Init ==
  /\ rules = {} /\ groups = {} /\ row = NewRow
  /\ file = None /\ answer = None /\ lastHash = None /\ report = None
  /\ installed = {} /\ session = FALSE
  /\ edits = 0 /\ changes = 0 /\ faults = 0 /\ told = {} /\ blurred = FALSE

Edit    == edits < MaxEdits /\ edits' = edits + 1 /\ UNCHANGED <<changes, faults>>
Change  == changes < MaxChanges /\ changes' = changes + 1 /\ UNCHANGED <<edits, faults>>
Fault   == faults < MaxFaults /\ faults' = faults + 1 /\ UNCHANGED <<edits, changes>>
NoFault == UNCHANGED count

-----------------------------------------------------------------------------
(* Which rules a device has.                                               *)

NormalizePlatform(os) == IF os \in {"Windows", "macOS"} THEN os ELSE "Linux"
PlatformMatches(platforms, p) == platforms = {} \/ p \in platforms

\* A device without a row has the rules for everybody; while its system is
\* not known no rule is filtered out.
FetchPolicyRules ==
  {r \in rules :
     /\ \/ r.where = "all"
        \/ row # None /\ (r.where = "device" \/ r.where \in row.groups)
     /\ row # None /\ row.os # "unknown" => PlatformMatches(r.platforms, NormalizePlatform(row.os))}

Forbidden(set) == {r.name : r \in {q \in set : q.type = "forbidden"}}

\* Of what the rules say, not of which rows say it nor of when they changed.
PolicySetVersion(set) ==
  [i \in Name \X Type |-> Cardinality({r \in set : <<r.name, r.type>> = i})]

\* Mutant of InScope: the SQL knows no platforms.
InScopeEverywhere(r) ==
  /\ row # None
  /\ r.where = "all" \/ r.where = "device" \/ r.where \in row.groups

\* The scope of a rule once more, in SQL.
InScope(r) ==
  /\ row # None
  /\ r.where = "all" \/ r.where = "device" \/ r.where \in row.groups
  /\ r.platforms = {} \/ row.os = "unknown" \/ NormalizePlatform(row.os) \in r.platforms

ListSoftwarePolicyCompliance(r) ==
  IF r.type # "forbidden" \/ ~InScope(r) THEN "none"
  ELSE IF \E s \in row.software : s.name = r.name THEN "fail" ELSE "pass"

-----------------------------------------------------------------------------
(* The operator.                                                           *)

CreatePolicyRule(name, type, where, platforms) ==
  rules' = rules \cup {[id |-> edits', name |-> name, type |-> type, where |-> where,
                        platforms |-> platforms]}

\* All three platforms are no filter.
CreatePolicy(name, type, where, platforms) ==
  /\ where = "device" => row # None
  /\ Edit
  /\ CreatePolicyRule(name, type, where, IF platforms = Platform THEN {} ELSE platforms)
  /\ UNCHANGED <<groups, row, syncer, sender, machine>>

DeletePolicy(r) ==
  /\ Edit /\ rules' = rules \ {r}
  /\ UNCHANGED <<groups, row, syncer, sender, machine>>

AssignSoftwarePolicyToGroup(g, name, type) ==
  /\ g \in groups
  /\ Edit /\ CreatePolicyRule(name, type, g, {})
  /\ UNCHANGED <<groups, row, syncer, sender, machine>>

CreateDeviceGroup(g) ==
  /\ g \notin groups
  /\ Edit /\ groups' = groups \cup {g}
  /\ UNCHANGED <<rules, row, syncer, sender, machine>>

\* ON DELETE CASCADE takes members and the group's rules along.
DeleteDeviceGroup(g) ==
  /\ Edit /\ groups' = groups \ {g}
  /\ rules' = {r \in rules : r.where # g}
  /\ row' = IF row = None THEN None ELSE [row EXCEPT !.groups = @ \ {g}]
  /\ UNCHANGED <<syncer, sender, machine>>

AddGroupMember(g) ==
  /\ g \in groups /\ row # None
  /\ Edit /\ row' = [row EXCEPT !.groups = @ \cup {g}]
  /\ UNCHANGED <<rules, groups, syncer, sender, machine>>

RemoveGroupMember(g) ==
  /\ row # None /\ Edit /\ row' = [row EXCEPT !.groups = @ \ {g}]
  /\ UNCHANGED <<rules, groups, syncer, sender, machine>>

ApproveDevice ==
  /\ row # None /\ row.status = "pending_approval"
  /\ Edit /\ row' = [row EXCEPT !.status = "active"]
  /\ UNCHANGED <<rules, groups, syncer, sender, machine>>

\* Its rules, memberships and inventory go with it.  A stream that is still
\* open brings the row back, bare.
DeleteDevice ==
  /\ row # None
  /\ Edit /\ row' = None /\ rules' = {r \in rules : r.where # "device"} /\ blurred' = TRUE
  /\ UNCHANGED <<groups, syncer, lastHash, report, machine>>

UpsertDeviceHeartbeat ==
  /\ row = None /\ row' = NewRow
  /\ UNCHANGED <<rules, groups, syncer, sender, machine, count>>

-----------------------------------------------------------------------------
(* The agent's list.                                                       *)

PendingApproval == row # None /\ row.status = "pending_approval"

KnownVersion == IF file = None THEN None ELSE file.version

\* A device that waits for an approval is given an empty list, of version 0,
\* which no question names and every answer differs from.
FetchPolicy ==
  /\ answer = None /\ UNCHANGED <<server, file, sender, machine>>
  /\ LET set == FetchPolicyRules
         now == PolicySetVersion(set)
     IN  \/ /\ PendingApproval
            /\ answer' = [version |-> None, list |-> {}] /\ NoFault /\ UNCHANGED told
         \/ /\ ~PendingApproval
            /\ KnownVersion = now /\ told' = Forbidden(set) /\ NoFault /\ UNCHANGED answer
         \/ /\ ~PendingApproval
            /\ KnownVersion # now
            /\ answer' = [version |-> now, list |-> Forbidden(set)] /\ NoFault /\ UNCHANGED told

\* The whole file by a rename; if that fails the old one stays.
WriteList ==
  /\ answer # None /\ answer' = None
  /\ \/ file' = answer /\ told' = answer.list /\ NoFault
     \/ Fault /\ UNCHANGED <<file, told>>
  /\ UNCHANGED <<server, sender, machine>>

-----------------------------------------------------------------------------
(* The agent's inventory.                                                  *)

\* One entry per name, the machine's rather than the user's.
DedupeSoftware(items) == {i \in items : i.scope = "user" => [i EXCEPT !.scope = "machine"] \notin items}

\* Registry of the machine and of the users who are logged on; package
\* managers know the machine's packages; the profiler knows all bundles.
CollectWindows == {i \in installed : i.scope = "machine" \/ session}
CollectLinux   == {i \in installed : i.scope = "machine"}
CollectDarwin  == installed

\* A source that fails is no software, and no error.
InstalledSoftware(failing) ==
  IF failing THEN {}
  ELSE DedupeSoftware(CASE OS = "Windows" -> CollectWindows
                        [] OS = "macOS"   -> CollectDarwin
                        [] OTHER          -> CollectLinux)

\* By the timer, or at once after an uninstallation.
ReportOnce ==
  /\ report = None
  /\ \E failing \in BOOLEAN :
       /\ IF failing THEN Fault ELSE NoFault
       /\ report' = [os |-> OS, software |-> InstalledSoftware(failing)]
  /\ report' # lastHash
  /\ UNCHANGED <<server, syncer, lastHash, blurred, machine>>

\* One transaction.  The answer may be lost after it.
ReportInventory ==
  /\ report # None /\ row # None
  /\ row' = [row EXCEPT !.os = report.os, !.software = report.software]
  /\ report' = None
  /\ \/ lastHash' = report /\ blurred' = FALSE /\ NoFault
     \/ Fault /\ blurred' = TRUE /\ UNCHANGED lastHash
  /\ UNCHANGED <<rules, groups, syncer, machine>>

\* No connection, an error of the database, or no row.
SendFails ==
  /\ report # None /\ report' = None
  /\ IF row = None THEN NoFault ELSE Fault
  /\ UNCHANGED <<server, syncer, lastHash, blurred, machine>>

RestartAgent ==
  /\ answer' = None /\ report' = None /\ lastHash' = None
  /\ UNCHANGED <<server, file, told, blurred, machine, count>>

\* The machine is enrolled once more, in a batch that waits for an approval,
\* and the agent starts anew over the file it has.
FinalizeBulkEnroll ==
  /\ row # None
  /\ Edit /\ row' = [row EXCEPT !.status = "pending_approval"]
  /\ answer' = None /\ report' = None /\ lastHash' = None
  /\ UNCHANGED <<rules, groups, file, told, blurred, machine>>

\* Users and installers; a user logs on or off.
MachineChanges ==
  /\ Change
  /\ \/ \E i \in Item : installed' = (IF i \in installed THEN installed \ {i} ELSE installed \cup {i})
        /\ UNCHANGED session
     \/ session' = ~session /\ UNCHANGED installed
  /\ UNCHANGED <<server, syncer, sender>>

Next ==
  \/ \E n \in Name, t \in Type :
       \/ \E w \in {"all", "device"}, p \in Filters : CreatePolicy(n, t, w, p)
       \/ \E g \in Group : AssignSoftwarePolicyToGroup(g, n, t)
  \/ \E r \in rules : DeletePolicy(r)
  \/ \E g \in Group : CreateDeviceGroup(g) \/ DeleteDeviceGroup(g) \/ AddGroupMember(g) \/ RemoveGroupMember(g)
  \/ ApproveDevice \/ FinalizeBulkEnroll \/ DeleteDevice \/ UpsertDeviceHeartbeat
  \/ FetchPolicy \/ WriteList
  \/ ReportOnce \/ ReportInventory \/ SendFails \/ RestartAgent \/ MachineChanges

Spec == Init /\ [][Next]_vars

-----------------------------------------------------------------------------

\* The list on the device is the one the server answered with last, over
\* edits, a device held and approved again, and failed writes: an answer
\* without rules stands for the rules the file was made from.
ListAsAnswered == file # None => file.list = told

\* What the console counts as a breach is what the agent would count by the
\* rules it is given and the snapshot it takes for delivered: the scope decided
\* in Go and in SQL is one, and no snapshot the agent holds for sent differs
\* from the server's.  A snapshot whose answer was lost, or whose row was
\* deleted, may differ until another one is answered for.
ComplianceTrue ==
  row # None /\ lastHash # None /\ ~blurred =>
    Forbidden({r \in rules : ListSoftwarePolicyCompliance(r) = "fail"})
      = Forbidden(FetchPolicyRules) \cap {s.name : s \in lastHash.software}

\* The two ends agree, on the rules and on what breaks them.
EndsAgree == ListAsAnswered /\ ComplianceTrue

=============================================================================
