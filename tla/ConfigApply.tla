----------------------------- MODULE ConfigApply -----------------------------
(***************************************************************************)
(* routineops apply: the configuration of the fleet in a file.             *)
(* A run reads the server, makes a plan of the calls that would turn it    *)
(* into what the file says, shows the plan, and makes the calls one by     *)
(* one, up to the first that fails (cmd/routineops: apply.go, main.go).    *)
(* The calls are those of the console (api/scripts_handler.go and          *)
(* script_policies_handler.go over storage/postgres.go): other people make *)
(* them too, between any two of the run's.                                 *)
(* Names are unique, but for the software of a group's rules.  A plan is a *)
(* set of steps in phases; the order of the steps of a phase is free, that *)
(* of the code is the file's.  The four GETs of a plan are one step: what  *)
(* changes between them is as if it had changed after them, since either   *)
(* way the run promises nothing.  Renaming is left out.                    *)
(***************************************************************************)
EXTENDS Naturals, FiniteSets

CONSTANTS
  Script, Policy, Group, Software, \* names
  Files,               \* what the file may say, see File
  Contents,            \* bodies of scripts, and of triggers
  MaxIds,              \* bound: rows ever made
  MaxEdits,            \* bound: calls of other people
  MaxFaults,           \* bound: calls that fail, answers that are lost
  None                 \* not there; in a file: not managed

VARIABLES
  \* the server
  script,              \* scripts: id, platform, content
  policy,              \* policies: id, script, config of the trigger, active
  group,               \* device_groups: id, color
  rules,               \* software_policy_rules of groups
  assigned,            \* policy_assignments
  ids,                 \* rows made so far
  \* the run
  file,
  pc,                  \* idle, planned, run, ok
  plan,                \* steps to be made
  known,               \* ids of the read and of the answers, by name
  \* history
  switched,            \* policies the run is to switch on
  quiet,               \* since the read nobody else wrote, and every COMMIT went through
  edits, faults

server == <<script, policy, group, rules, assigned, ids>>
vars   == <<server, file, pc, plan, known, switched, quiet, edits, faults>>

Platform == {"Linux", "linux", "Windows", "macOS"}
Color    == {"blue", "red"}
RuleType == {"allowed", "forbidden"}
Name     == Script \cup Policy \cup Group
Id       == 1..MaxIds
ScriptRow == [id : Id, platform : Platform, content : Contents]
PolicyRow == [id : Id, script : Script, conf : Contents, active : BOOLEAN]
GroupRow  == [id : Id, color : Color]
Step     == [phase : 0..8, do : {"script", "policy", "toggle", "group", "add", "replace", "drop",
                                 "assign", "unassign"},
             name : Name, what : Software \cup Policy \cup BOOLEAN \cup {None}, id : Id \cup {0}]

\* Of a group, the lists it leaves out are not managed; an empty list is.
File ==
  [scripts  : [Script -> [platform : Platform, content : Contents] \cup {None}],
   policies : [Policy -> [script : Script, conf : Contents, active : BOOLEAN] \cup {None}],
   groups   : [Group -> [color : Color \cup {None},
                         software : [Software -> RuleType \cup {None}] \cup {None},
                         policies : (SUBSET Policy) \cup {None}] \cup {None}]]

TypeOK ==
  /\ script \in [Script -> ScriptRow \cup {None}]
  /\ policy \in [Policy -> PolicyRow \cup {None}]
  /\ group \in [Group -> GroupRow \cup {None}]
  /\ rules \subseteq [id : Id, group : Group, soft : Software, type : RuleType]
  /\ assigned \subseteq Policy \X Group
  /\ ids \in 0..MaxIds
  /\ file \in File
  /\ pc \in {"idle", "planned", "run", "ok"}
  /\ plan \subseteq Step
  /\ known \in [Name -> Id \cup {0}]
  /\ switched \subseteq Policy /\ quiet \in BOOLEAN /\ edits \in 0..MaxEdits /\ faults \in 0..MaxFaults

Init ==
  /\ script = [s \in Script |-> None] /\ policy = [p \in Policy |-> None]
  /\ group = [g \in Group |-> None]
  /\ rules = {} /\ assigned = {} /\ ids = 0
  /\ file \in Files
  /\ pc = "idle" /\ plan = {} /\ known = [n \in Name |-> 0]
  /\ switched = {} /\ quiet = TRUE /\ edits = 0 /\ faults = 0

Fault   == faults < MaxFaults /\ faults' = faults + 1
NoFault == faults' = faults

-----------------------------------------------------------------------------
(* The calls of the server.  A call that fails its guard answers an error. *)

NewId == ids < MaxIds /\ ids' = ids + 1

\* Platforms are stored in one spelling, whatever spelling is sent.
CanonicalPlatform(p) == IF p = "linux" THEN "Linux" ELSE p

CreateScript(s, platform, content) ==
  /\ script[s] = None /\ NewId
  /\ script' = [script EXCEPT ![s] = [id |-> ids', platform |-> CanonicalPlatform(platform),
                                      content |-> content]]
  /\ UNCHANGED <<policy, group, rules, assigned>>

UpdateScript(s, id, platform, content) ==
  /\ script[s] # None /\ script[s].id = id
  /\ script' = [script EXCEPT ![s] = [id |-> id, platform |-> CanonicalPlatform(platform),
                                      content |-> content]]
  /\ UNCHANGED <<policy, group, rules, assigned, ids>>

\* A script that policies run is not deleted.
DeleteScript(s) ==
  /\ script[s] # None /\ \A p \in Policy : policy[p] # None => policy[p].script # s
  /\ script' = [script EXCEPT ![s] = None]
  /\ UNCHANGED <<policy, group, rules, assigned, ids>>

\* A new policy is active.
CreateScriptPolicy(p, s, sid, conf) ==
  /\ policy[p] = None /\ script[s] # None /\ script[s].id = sid /\ NewId
  /\ policy' = [policy EXCEPT ![p] = [id |-> ids', script |-> s, conf |-> conf, active |-> TRUE]]
  /\ UNCHANGED <<script, group, rules, assigned>>

UpdateScriptPolicy(p, id, s, sid, conf) ==
  /\ policy[p] # None /\ policy[p].id = id /\ script[s] # None /\ script[s].id = sid
  /\ policy' = [policy EXCEPT ![p].script = s, ![p].conf = conf]
  /\ UNCHANGED <<script, group, rules, assigned, ids>>

\* The rows that went are not counted: a policy that is gone is no error.
ToggleScriptPolicy(p, id, active) ==
  /\ policy' = IF policy[p] # None /\ policy[p].id = id
               THEN [policy EXCEPT ![p].active = active] ELSE policy
  /\ UNCHANGED <<script, group, rules, assigned, ids>>

DeleteScriptPolicy(p) ==
  /\ policy[p] # None
  /\ policy' = [policy EXCEPT ![p] = None]
  /\ assigned' = {a \in assigned : a[1] # p}
  /\ UNCHANGED <<script, group, rules, ids>>

CreateDeviceGroup(g, color) ==
  /\ group[g] = None /\ NewId
  /\ group' = [group EXCEPT ![g] = [id |-> ids', color |-> IF color = None THEN "blue" ELSE color]]
  /\ UNCHANGED <<script, policy, rules, assigned>>

UpdateDeviceGroup(g, id, color) ==
  /\ group[g] # None /\ group[g].id = id
  /\ group' = [group EXCEPT ![g].color = color]
  /\ UNCHANGED <<script, policy, rules, assigned, ids>>

DeleteDeviceGroup(g) ==
  /\ group[g] # None
  /\ group' = [group EXCEPT ![g] = None]
  /\ rules' = {r \in rules : r.group # g}
  /\ assigned' = {a \in assigned : a[2] # g}
  /\ UNCHANGED <<script, policy, ids>>

\* Nothing keeps a second rule for the same software away.
AssignSoftwarePolicyToGroup(g, gid, x, type) ==
  /\ group[g] # None /\ group[g].id = gid /\ NewId
  /\ rules' = rules \cup {[id |-> ids', group |-> g, soft |-> x, type |-> type]}
  /\ UNCHANGED <<script, policy, group, assigned>>

UnassignSoftwarePolicyFromGroup(id) ==
  /\ rules' = {r \in rules : r.id # id}
  /\ UNCHANGED <<script, policy, group, assigned, ids>>

AssignPolicyToGroup(p, pid, g, gid) ==
  /\ policy[p] # None /\ policy[p].id = pid /\ group[g] # None /\ group[g].id = gid
  /\ assigned' = assigned \cup {<<p, g>>}
  /\ UNCHANGED <<script, policy, group, rules, ids>>

UnassignPolicyFromGroup(p, pid, g) ==
  /\ assigned' = IF policy[p] # None /\ policy[p].id = pid THEN assigned \ {<<p, g>>} ELSE assigned
  /\ UNCHANGED <<script, policy, group, rules, ids>>

\* Somebody else's call, from the console or from another run.
Edits ==
  /\ edits < MaxEdits /\ edits' = edits + 1
  /\ quiet' = FALSE
  /\ UNCHANGED <<file, pc, plan, known, switched, faults>>

EditScripts(s, c) ==
  /\ \/ CreateScript(s, "Linux", c) \/ DeleteScript(s)
     \/ script[s] # None /\ UpdateScript(s, script[s].id, "Linux", c)
  /\ Edits

EditPolicies(p) ==
  /\ \/ DeleteScriptPolicy(p)
     \/ policy[p] # None /\ ToggleScriptPolicy(p, policy[p].id, ~policy[p].active)
  /\ Edits

EditGroups(g) ==
  /\ CreateDeviceGroup(g, "red") \/ DeleteDeviceGroup(g)
  /\ Edits

EditLists(g) ==
  /\ group[g] # None
  /\ \/ \E x \in Software, type \in RuleType :
          AssignSoftwarePolicyToGroup(g, group[g].id, x, type)
     \/ \E r \in rules : UnassignSoftwarePolicyFromGroup(r.id)
     \/ \E p \in Policy : policy[p] # None /\ AssignPolicyToGroup(p, policy[p].id, g, group[g].id)
  /\ Edits

-----------------------------------------------------------------------------
(* The plan.                                                               *)

St(phase, do, name, what, id) ==
  [phase |-> phase, do |-> do, name |-> name, what |-> what, id |-> id]

IdOf(f, n) == IF f[n] = None THEN 0 ELSE f[n].id

ReadIds ==
  [n \in Name |-> IF n \in Script THEN IdOf(script, n)
                  ELSE IF n \in Policy THEN IdOf(policy, n) ELSE IdOf(group, n)]

\* Scripts first: policies name them, and groups name policies.
PlanScripts ==
  {St(1, "script", s, None, 0) : s \in
     {t \in Script : LET want == file.scripts[t] IN want # None /\
        (script[t] # None => script[t].platform # want.platform \/ script[t].content # want.content)}}

PolicyChanged(cur, want) == cur.script # want.script \/ cur.conf # want.conf

PlanPolicies ==
  LET Wanted == {p \in Policy : file.policies[p] # None}
      There  == {p \in Wanted : policy[p] # None}
  IN  {St(2, "policy", p, None, 0) : p \in
         (Wanted \ There) \cup {q \in There : PolicyChanged(policy[q], file.policies[q])}}
      \cup {St(3, "toggle", p, file.policies[p].active, policy[p].id) : p \in
              {q \in There : policy[q].active # file.policies[q].active}}

PlanGroups ==
  {St(4, "group", g, None, 0) : g \in
     {h \in Group : LET want == file.groups[h] IN want # None /\
        (group[h] # None => want.color \notin {None, group[h].color})}}

\* Of several rules for one software the run knows the one listed last, the oldest.
Oldest(g, x) ==
  LET S == {r \in rules : r.group = g /\ r.soft = x}
  IN  {r \in S : \A q \in S : r.id <= q.id}

PlanRules(g) ==
  IF file.groups[g].software = None THEN {}
  ELSE UNION {
    LET want == file.groups[g].software[x]
    IN  IF want # None
        THEN IF Oldest(g, x) = {} THEN {St(5, "add", g, x, 0)}
             ELSE {St(5, "replace", g, x, r.id) : r \in {q \in Oldest(g, x) : q.type # want}}
        ELSE {St(6, "drop", g, x, r.id) : r \in Oldest(g, x)} : x \in Software}

GroupNames(p) == {g \in Group : <<p, g>> \in assigned}

PlanAssignments(g) ==
  LET want == file.groups[g].policies
      has  == {p \in Policy : g \in GroupNames(p)}
  IN  IF want = None THEN {}
      ELSE {St(7, "assign", g, p, 0) : p \in want \ has}
           \cup {St(8, "unassign", g, p, 0) : p \in has \ want}

Plan ==
  PlanScripts \cup PlanPolicies \cup PlanGroups
  \cup UNION {PlanRules(g) \cup PlanAssignments(g) : g \in {h \in Group : file.groups[h] # None}}

Doubled == \E r, q \in rules : r.id # q.id /\ r.group = q.group /\ r.soft = q.soft

\* applyPlan, and what is said of an empty plan.
ApplyPlan ==
  /\ pc \in {"idle", "ok"}
  /\ plan' = Plan /\ known' = ReadIds
  /\ pc' = IF plan' = {} THEN "ok" ELSE "planned"
  /\ switched' = {p \in Policy : St(3, "toggle", p, TRUE, IdOf(policy, p)) \in plan'}
  /\ quiet' = ~Doubled
  /\ UNCHANGED <<server, file, edits, faults>>

\* The question, or -y; or the answer no, or -dry-run.
RunApply ==
  /\ pc = "planned" /\ pc' = "run"
  /\ UNCHANGED <<server, file, plan, known, switched, quiet, edits, faults>>

DryRun ==
  /\ pc = "planned" /\ pc' = "idle" /\ plan' = {}
  /\ UNCHANGED <<server, file, known, switched, quiet, edits, faults>>

\* Another file is applied later.
ChangeFile(f) ==
  /\ pc \in {"idle", "ok"} /\ f # file /\ edits < MaxEdits /\ edits' = edits + 1
  /\ file' = f /\ pc' = "idle"
  /\ UNCHANGED <<server, plan, known, switched, quiet, faults>>

\* routineops export: what the server has, by name.  A list that is empty is
\* left out of the file, which then does not manage it.
Exported ==
  [scripts  |-> [s \in Script |-> IF script[s] = None THEN None
                   ELSE [platform |-> script[s].platform, content |-> script[s].content]],
   policies |-> [p \in Policy |-> IF policy[p] = None THEN None
                   ELSE [script |-> policy[p].script, conf |-> policy[p].conf, active |-> policy[p].active]],
   groups   |-> [g \in Group |-> IF group[g] = None THEN None
                   ELSE LET has == {r \in rules : r.group = g}
                            ps  == {p \in Policy : <<p, g>> \in assigned}
                        IN [color |-> group[g].color,
                            software |-> IF has = {} THEN None
                                         ELSE [x \in Software |-> IF Oldest(g, x) = {} THEN None
                                                 ELSE (CHOOSE r \in Oldest(g, x) : TRUE).type],
                            policies |-> IF ps = {} THEN None ELSE ps]]]

ExportConfig ==
  /\ pc \in {"idle", "ok"} /\ edits < MaxEdits /\ edits' = edits + 1
  /\ file' = Exported /\ pc' = "idle"
  /\ UNCHANGED <<server, plan, known, switched, quiet, faults>>

-----------------------------------------------------------------------------
(* The steps.  What a call made is known from its answer, by name.         *)

First(st) == \A q \in plan : st.phase <= q.phase

\* What a step still has to do after its first call: a new policy that the
\* file wants inactive is switched off, a rule that went is made anew.
Rest(st, id) ==
  IF st.do = "policy" /\ known[st.name] = 0 /\ ~file.policies[st.name].active
  THEN {St(0, "toggle", st.name, FALSE, id)}
  ELSE IF st.do = "replace" THEN {St(0, "add", st.name, st.what, 0)} ELSE {}

\* The call is answered; or the answer is lost, and the run stops.
Answered(st, rest, n, id) ==
  \/ /\ plan' = (plan \ {st}) \cup rest
     /\ known' = [known EXCEPT ![n] = id]
     /\ UNCHANGED pc /\ NoFault
  \/ /\ plan' = {} /\ pc' = "idle" /\ Fault /\ UNCHANGED known

StepScript(st) ==
  LET s == st.name  want == file.scripts[st.name]
  IN  /\ IF known[s] = 0 THEN CreateScript(s, want.platform, want.content)
                         ELSE UpdateScript(s, known[s], want.platform, want.content)
      /\ Answered(st, {}, s, script'[s].id)

\* Mutant of StepPolicy: the second call is forgotten.
StepPolicyActive(st) ==
  LET p == st.name  want == file.policies[st.name]
  IN  /\ known[want.script] # 0 /\ known[p] = 0
      /\ CreateScriptPolicy(p, want.script, known[want.script], want.conf)
      /\ Answered(st, {}, p, ids')

StepPolicy(st) ==
  LET p == st.name  want == file.policies[st.name]
  IN  /\ known[want.script] # 0
      /\ IF known[p] = 0
         THEN /\ CreateScriptPolicy(p, want.script, known[want.script], want.conf)
              /\ Answered(st, Rest(st, ids'), p, ids')
         ELSE /\ UpdateScriptPolicy(p, known[p], want.script, known[want.script], want.conf)
              /\ Answered(st, {}, p, known[p])

\* The value travels as is_active, the handler decodes active: what the call
\* sets is FALSE, whatever the step asks for.
StepToggle(st) ==
  /\ ToggleScriptPolicy(st.name, st.id, FALSE)
  /\ Answered(st, {}, st.name, known[st.name])

StepGroup(st) ==
  LET g == st.name  color == file.groups[st.name].color
  IN  /\ IF known[g] = 0 THEN CreateDeviceGroup(g, color) ELSE UpdateDeviceGroup(g, known[g], color)
      /\ Answered(st, {}, g, group'[g].id)

\* A rule of the other type goes first, by a call of its own.
StepRule(st) ==
  LET g == st.name
  IN  IF st.do = "add"
      THEN /\ AssignSoftwarePolicyToGroup(g, known[g], st.what, file.groups[g].software[st.what])
           /\ Answered(st, {}, g, known[g])
      ELSE /\ UnassignSoftwarePolicyFromGroup(st.id)
           /\ Answered(st, Rest(st, 0), g, known[g])

StepAssignment(st) ==
  LET g == st.name  p == st.what
  IN  /\ IF st.do = "assign"
         THEN known[p] # 0 /\ AssignPolicyToGroup(p, known[p], g, known[g])
         ELSE UnassignPolicyFromGroup(p, known[p], g)
      /\ Answered(st, {}, g, known[g])

StepMade(st) ==
  CASE st.do = "script" -> StepScript(st)
    [] st.do = "policy" -> StepPolicy(st)
    [] st.do = "toggle" -> StepToggle(st)
    [] st.do = "group"  -> StepGroup(st)
    [] st.do \in {"add", "replace", "drop"} -> StepRule(st)
    [] OTHER -> StepAssignment(st)

Do(st) ==
  /\ pc = "run" /\ st \in plan /\ First(st)
  /\ StepMade(st)
  /\ UNCHANGED <<file, switched, quiet, edits>>

\* The first error ends the run; what was done stays.  The server refuses what
\* names a row that is gone, or a name that is taken.
Refuses(st) ==
  CASE st.do = "script" -> IdOf(script, st.name) # known[st.name]
    [] st.do = "policy" -> \/ IdOf(policy, st.name) # known[st.name]
                           \/ known[file.policies[st.name].script] = 0
                           \/ IdOf(script, file.policies[st.name].script) # known[file.policies[st.name].script]
    [] st.do = "group"  -> IdOf(group, st.name) # known[st.name]
    [] st.do = "add"    -> IdOf(group, st.name) # known[st.name]
    [] st.do = "assign" -> \/ IdOf(group, st.name) # known[st.name] \/ known[st.what] = 0
                           \/ IdOf(policy, st.what) # known[st.what]
    [] OTHER -> FALSE

StepFails(st) ==
  /\ pc = "run" /\ st \in plan /\ First(st)
  /\ IF Refuses(st) THEN NoFault ELSE Fault
  /\ pc' = "idle" /\ plan' = {}
  /\ UNCHANGED <<server, file, known, switched, quiet, edits>>

\* The call is answered and its COMMIT has failed: the server stays as it was,
\* and the run goes on.
StepLost(st) ==
  /\ pc = "run" /\ st \in plan /\ First(st) /\ ~Refuses(st)
  /\ Fault /\ quiet' = FALSE
  /\ IF st.do \in {"script", "policy", "group"} /\ known[st.name] = 0
     THEN NewId /\ known' = [known EXCEPT ![st.name] = ids']
     ELSE UNCHANGED <<ids, known>>
  /\ plan' = (plan \ {st}) \cup Rest(st, ids')
  /\ UNCHANGED <<script, policy, group, rules, assigned, file, pc, switched, edits>>

Finish ==
  /\ pc = "run" /\ plan = {}
  /\ pc' = "ok"
  /\ UNCHANGED <<server, file, plan, known, switched, quiet, edits, faults>>

Next ==
  \/ \E s \in Script, c \in Contents : EditScripts(s, c)
  \/ \E p \in Policy : EditPolicies(p)
  \/ \E g \in Group : EditGroups(g) \/ EditLists(g)
  \/ ApplyPlan \/ RunApply \/ DryRun \/ Finish
  \/ \E f \in Files : ChangeFile(f)
  \/ ExportConfig
  \/ \E st \in plan : Do(st) \/ StepFails(st) \/ StepLost(st)

Spec == Init /\ [][Next]_vars

-----------------------------------------------------------------------------
(* What the file says of the server, read without the plan's eyes.  A      *)
(* policy the run was to switch on may be off, see StepToggle.             *)
Agrees ==
  /\ \A s \in Script : LET want == file.scripts[s] IN want # None =>
       /\ script[s] # None /\ script[s].content = want.content
       /\ script[s].platform = CanonicalPlatform(want.platform)
  /\ \A p \in Policy : LET want == file.policies[p] IN want # None =>
       /\ policy[p] # None /\ policy[p].script = want.script
       /\ policy[p].conf = want.conf
       /\ policy[p].active = want.active \/ (want.active /\ p \in switched)
  /\ \A g \in Group : LET want == file.groups[g] IN want # None =>
       /\ group[g] # None /\ want.color \in {None, group[g].color}
       /\ want.software # None =>
            \A x \in Software : {r.type : r \in {q \in rules : q.group = g /\ q.soft = x}}
                                = {want.software[x]} \ {None}
       /\ want.policies # None => {p \in Policy : <<p, g>> \in assigned} = want.policies

(* An apply that says it is through leaves the server as the file says,    *)
(* whatever an earlier run left half done, when nobody else wrote in the   *)
(* meantime, every COMMIT went through and no software had two rules in a  *)
(* group; only a policy that the run was to switch on may be off.          *)
Applied == pc = "ok" /\ quiet => Agrees

(* A policy of the file is as active as the file says: the test of the plan *)
(* has the value arrive by the toggle (apply_test.go:203).                 *)
ActiveAsAsked ==
  pc = "ok" /\ quiet => \A p \in Policy : file.policies[p] # None =>
                          policy[p] # None /\ policy[p].active = file.policies[p].active

(* What the test of the plan calls the main property of apply: another run *)
(* has nothing to do (apply_test.go:85).                                   *)
Repeatable == pc = "ok" /\ quiet => Plan = {}
=============================================================================
