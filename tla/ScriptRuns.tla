------------------------------ MODULE ScriptRuns ------------------------------
(***************************************************************************)
(* Script policies: what an operator assigns to a group of devices, what a *)
(* device of the group fetches, starts and reports.                        *)
(*   - server: scripts, policies, the group and its members (postgres.go,  *)
(*     api/scripts_handler.go, api/script_policies_handler.go), the fetch  *)
(*     and the result (gateway.go);                                        *)
(*   - agent: polling, the triggers, the set of on_connect versions already*)
(*     run, one goroutine per run (agent/scripts), and the durable queue   *)
(*     the result goes to, of which only the promise is kept here: a record*)
(*     it took is sent until the server takes it.                          *)
(* One device and one group.  Two changes of an operator may fall in one    *)
(* second.                                                                 *)
(***************************************************************************)
EXTENDS Integers, FiniteSets

CONSTANTS
  Policy, Script,
  MaxEdits, MaxRuns, MaxCrashes, \* bounds: operator's edits, runs and restarts of the agent
  Nothing

VARIABLES
  \* the server
  script,    \* scripts.updated_at, 0 for no row
  policy,    \* policies: state, trigger, script, updated_at
  assigned,  \* policy_assignments of the group
  member,    \* device_group_members: the device is in the group
  held,      \* the device waits for an approval
  edits,
  results,   \* script_results: the runs reported
  \* the agent
  up, ready, deferred, \* process runs; Manager.ready; Manager.pendingOnConnect
  answer,    \* FetchScriptPolicies: the answer on its way
  version,   \* Manager.version: the set it was computed from
  known,     \* Manager.policies
  caller,    \* what each of the four callers of launch still has to launch
  running,   \* Manager.running
  runs,      \* goroutines of Runner.Run
  marks, file, \* dedupSet in memory and on disk
  queue,     \* results the outbox took
  started, crashes,
  \* history
  ended,     \* runs whose script ended and whose result the outbox took
  unmarked,  \* keys whose line in the file was not written
  deleted,   \* policies deleted
  byConnect, \* the key of every run an on_connect trigger started
  unstored   \* runs whose result was acknowledged and not committed

server == <<script, policy, assigned, member, held, edits, results>>
inAgent == <<up, ready, deferred, answer, version, known, caller, running, runs, marks>>
onDisk == <<file, queue, started, crashes>>
past   == <<ended, unmarked, deleted, byConnect, unstored>>
vars   == <<server, inAgent, onDisk, past>>

Trigger == {"schedule", "event", "on_connect"}
Caller  == {"run", "stream", "cron", "watcher"}
Edit    == 1..MaxEdits
Run     == 1..MaxRuns
Second(e) == e \div 2
NoPolicy == [state |-> "none", trigger |-> "schedule", script |-> Nothing, at |-> 0]
Entry    == [id : Policy, trigger : Trigger, script : Script, at : Edit]
Empty    == [left |-> {}, hand |-> Nothing]
Key(e)   == <<e.id, Second(e.at)>>

TypeOK ==
  /\ script \in [Script -> 0..MaxEdits] /\ edits \in 0..MaxEdits
  /\ policy \in [Policy -> [state : {"none", "on", "off"}, trigger : Trigger,
                            script : Script \cup {Nothing}, at : 0..MaxEdits]]
  /\ assigned \subseteq Policy /\ member \in BOOLEAN /\ held \in BOOLEAN /\ results \subseteq Run
  /\ up \in BOOLEAN /\ ready \in BOOLEAN /\ deferred \in BOOLEAN
  /\ answer \in {Nothing} \cup [set : SUBSET Entry, version : {Nothing} \cup SUBSET Entry]
  /\ version \in {Nothing} \cup SUBSET Entry /\ known \subseteq Entry
  /\ caller \in [Caller -> [left : SUBSET Entry, hand : Entry \cup {Nothing}]]
  /\ running \subseteq Policy
  /\ \A g \in runs : g.n \in Run /\ g.e \in Entry
  /\ marks \subseteq Policy \X (0..MaxEdits) /\ file \subseteq Policy \X (0..MaxEdits)
  /\ \A q \in queue : q \in Run \X Policy
  /\ started \in 0..MaxRuns /\ crashes \in 0..MaxCrashes
  /\ ended \subseteq Run \X Policy /\ unmarked \subseteq Policy \X (0..MaxEdits) /\ deleted \subseteq Policy
  /\ byConnect \subseteq Run \X (Policy \X (0..MaxEdits)) /\ unstored \subseteq Run

Init ==
  /\ script = [s \in Script |-> 0] /\ policy = [p \in Policy |-> NoPolicy]
  /\ assigned = {} /\ member = FALSE /\ held = FALSE /\ edits = 0 /\ results = {}
  /\ up = TRUE /\ ready = FALSE /\ deferred = FALSE /\ answer = Nothing
  /\ version = Nothing /\ known = {} /\ caller = [c \in Caller |-> Empty]
  /\ running = {} /\ runs = {} /\ marks = {} /\ file = {} /\ queue = {}
  /\ started = 0 /\ crashes = 0
  /\ ended = {} /\ unmarked = {} /\ deleted = {} /\ byConnect = {} /\ unstored = {}

-----------------------------------------------------------------------------
(* The operator.  Every change takes a number, and leaves it as updated_at  *)
(* where the statement sets the column.                                    *)

Edited == edits < MaxEdits /\ edits' = edits + 1

SaveScript(s) ==   \* CreateScript, UpdateScript
  /\ Edited /\ script' = [script EXCEPT ![s] = edits']
  /\ UNCHANGED <<policy, assigned, member, held, results, inAgent, onDisk, past>>

\* Refused while a policy refers to the script.
DeleteScript(s) ==
  /\ Edited
  /\ script[s] # 0 /\ \A p \in Policy : policy[p].script # s
  /\ script' = [script EXCEPT ![s] = 0]
  /\ UNCHANGED <<policy, assigned, member, held, results, inAgent, onDisk, past>>

CreateScriptPolicy(p, s, t) ==
  /\ policy[p] = NoPolicy /\ p \notin deleted /\ script[s] # 0
  /\ Edited /\ policy' = [policy EXCEPT ![p] = [state |-> "on", trigger |-> t, script |-> s, at |-> edits']]
  /\ UNCHANGED <<script, assigned, member, held, results, inAgent, onDisk, past>>

\* updated_at stays as it was.
UpdateScriptPolicy(p, s, t) ==
  /\ Edited
  /\ policy[p] # NoPolicy /\ script[s] # 0
  /\ policy' = [policy EXCEPT ![p].trigger = t, ![p].script = s]
  /\ UNCHANGED <<script, assigned, member, held, results, inAgent, onDisk, past>>

ToggleScriptPolicy(p) ==
  /\ Edited
  /\ policy[p] # NoPolicy
  /\ policy' = [policy EXCEPT ![p].state = IF @ = "on" THEN "off" ELSE "on"]
  /\ UNCHANGED <<script, assigned, member, held, results, inAgent, onDisk, past>>

\* The assignments and the results go with it.
DeleteScriptPolicy(p) ==
  /\ Edited
  /\ policy[p] # NoPolicy
  /\ policy' = [policy EXCEPT ![p] = NoPolicy]
  /\ assigned' = assigned \ {p} /\ deleted' = deleted \cup {p}
  /\ results' = {n \in results : <<n, p>> \notin ended}
  /\ UNCHANGED <<script, member, held, inAgent, onDisk, ended, unmarked, byConnect, unstored>>

AssignPolicyToGroup(p) ==   \* or takes the assignment back
  /\ Edited
  /\ policy[p] # NoPolicy
  /\ assigned' = IF p \in assigned THEN assigned \ {p} ELSE assigned \cup {p}
  /\ UNCHANGED <<script, policy, member, held, results, inAgent, onDisk, past>>

AddDeviceToGroup ==         \* or removes it
  /\ Edited
  /\ member' = ~member
  /\ UNCHANGED <<script, policy, assigned, held, results, inAgent, onDisk, past>>

DeleteDeviceGroup ==
  /\ Edited
  /\ assigned # {} /\ member
  /\ assigned' = {} /\ member' = FALSE
  /\ UNCHANGED <<script, policy, held, results, inAgent, onDisk, past>>

Hold ==
  /\ Edited
  /\ held' = ~held
  /\ UNCHANGED <<script, policy, assigned, member, results, inAgent, onDisk, past>>

-----------------------------------------------------------------------------
(* Fetching.                                                               *)

Later(a, b) == IF a > b THEN a ELSE b

\* GetEffectiveScriptPoliciesForDevice
Effective ==
  {[id |-> p, trigger |-> policy[p].trigger, script |-> policy[p].script,
    at |-> Later(policy[p].at, script[policy[p].script])] :
   p \in {q \in assigned : member /\ policy[q].state = "on"}}

\* The version is a hash of the set; a device that waits gets an empty set
\* of no version.
FetchScriptPolicies ==
  /\ up /\ answer = Nothing
  /\ answer' = IF held THEN [set |-> {}, version |-> Nothing] ELSE [set |-> Effective, version |-> Effective]
  /\ UNCHANGED <<server, up, ready, deferred, version, known, caller, running, runs, marks, onDisk, past>>

Apply(set, v) == known' = set /\ version' = v

\* poll, and at the start what waits for the first one.
Poll(lost) ==
  /\ up /\ answer # Nothing
  /\ IF lost \/ answer.version = version THEN UNCHANGED <<known, version>>
     ELSE Apply(answer.set, answer.version)
  /\ answer' = Nothing /\ ready' = TRUE
  /\ IF ~ready /\ deferred
     THEN /\ deferred' = FALSE
          /\ caller' = [caller EXCEPT !["run"].left = {e \in known' : e.trigger = "on_connect"}]
     ELSE UNCHANGED <<deferred, caller>>
  /\ UNCHANGED <<server, up, running, runs, marks, onDisk, past>>

-----------------------------------------------------------------------------
(* Triggers.                                                               *)

Snapshot(c, trigger) ==
  caller' = [caller EXCEPT ![c].left = {e \in known : e.trigger = trigger}]

OnConnect ==
  /\ up /\ caller["stream"] = Empty
  /\ IF ready THEN Snapshot("stream", "on_connect") /\ UNCHANGED deferred
              ELSE deferred' = TRUE /\ UNCHANGED caller
  /\ UNCHANGED <<server, up, ready, answer, version, known, running, runs, marks, onDisk, past>>

OnEvent ==
  /\ up /\ caller["watcher"] = Empty
  /\ Snapshot("watcher", "event")
  /\ UNCHANGED <<server, up, ready, deferred, answer, version, known, running, runs, marks, onDisk, past>>

\* An entry of cron fires: runByID looks the policy up, whatever its trigger
\* has become.
Fire(e) ==
  /\ up /\ caller["cron"] = Empty /\ e \in known
  /\ caller' = [caller EXCEPT !["cron"].hand = e]
  /\ UNCHANGED <<server, up, ready, deferred, answer, version, known, running, runs, marks, onDisk, past>>

\* markIfNew: in memory and, as far as the disk lets it, in the file.
MarkIfNew(e, written) ==
  /\ marks' = marks \cup {Key(e)}
  /\ file' = IF written THEN file \cup {Key(e)} ELSE file
  /\ unmarked' = IF written THEN unmarked ELSE unmarked \cup {Key(e)}

Take(c, e, written) ==
  /\ up /\ caller[c].hand = Nothing /\ e \in caller[c].left
  /\ LET rest == caller[c].left \ {e}
     IN  IF c \in {"cron", "watcher"}
         THEN caller' = [caller EXCEPT ![c] = [left |-> rest, hand |-> e]] /\ UNCHANGED <<marks, file, unmarked>>
         ELSE IF Key(e) \in marks
         THEN caller' = [caller EXCEPT ![c].left = rest] /\ UNCHANGED <<marks, file, unmarked>>
         ELSE caller' = [caller EXCEPT ![c] = [left |-> rest, hand |-> e]] /\ MarkIfNew(e, written)
  /\ UNCHANGED <<server, up, ready, deferred, answer, version, known, running, runs,
                 queue, started, crashes, ended, deleted, byConnect,
                 unstored>>

\* Mutant of Launch: a run that goes on stops nothing.
LaunchAgain(c) ==
  /\ up /\ caller[c].hand # Nothing /\ started < MaxRuns
  /\ LET e == caller[c].hand
     IN  /\ running' = running \cup {e.id} /\ started' = started + 1
         /\ runs' = runs \cup {[n |-> started', e |-> e]}
         /\ byConnect' = IF c \in {"run", "stream"} THEN byConnect \cup {<<started', Key(e)>>} ELSE byConnect
  /\ caller' = [caller EXCEPT ![c].hand = Nothing]
  /\ UNCHANGED <<server, up, ready, deferred, answer, version, known, marks, file, queue, crashes,
                 ended, unmarked, deleted, unstored>>

\* A policy whose previous run goes on is skipped.
Launch(c) ==
  /\ up /\ caller[c].hand # Nothing
  /\ LET e == caller[c].hand
     IN  IF e.id \in running THEN UNCHANGED <<running, runs, started, byConnect>>
         ELSE /\ started < MaxRuns
              /\ running' = running \cup {e.id}
              /\ started' = started + 1
              /\ runs' = runs \cup {[n |-> started', e |-> e]}
              /\ byConnect' = IF c \in {"run", "stream"} THEN byConnect \cup {<<started', Key(e)>>} ELSE byConnect
  /\ caller' = [caller EXCEPT ![c].hand = Nothing]
  /\ UNCHANGED <<server, up, ready, deferred, answer, version, known, marks, file, queue, crashes,
                 ended, unmarked, deleted, unstored>>

-----------------------------------------------------------------------------
(* Results.                                                                *)

\* Runner.Run: the script ends, or its time is out, and the result goes to
\* the outbox, which may refuse it.
Finish(g, taken) ==
  /\ up /\ g \in runs
  /\ runs' = runs \ {g} /\ running' = running \ {g.e.id}
  /\ queue' = IF taken THEN queue \cup {<<g.n, g.e.id>>} ELSE queue
  /\ ended' = IF taken THEN ended \cup {<<g.n, g.e.id>>} ELSE ended
  /\ UNCHANGED <<server, up, ready, deferred, answer, version, known, caller, marks, file, started, crashes,
                 unmarked, deleted, byConnect, unstored>>

\* A result of a deleted policy is acknowledged and dropped; one the server
\* has is not written twice.  Without an acknowledgement the queue keeps it,
\* and with one it does not, whether or not the COMMIT went through.
SaveScriptResult(q) == results' = IF policy[q[2]] = NoPolicy THEN results ELSE results \cup {q[1]}

ReportScriptResult(q, acked) ==
  /\ up /\ q \in queue
  /\ \/ SaveScriptResult(q) /\ UNCHANGED unstored
     \/ acked /\ UNCHANGED results /\ unstored' = unstored \cup {q[1]}
  /\ queue' = IF acked THEN queue \ {q} ELSE queue
  /\ UNCHANGED <<script, policy, assigned, member, held, edits, inAgent, file, started, crashes,
                 ended, unmarked, deleted, byConnect>>

\* Mutant of ReportFails: a failed write refuses the result for good.
ReportFailsForGood(q) ==
  /\ up /\ q \in queue /\ queue' = queue \ {q}
  /\ UNCHANGED <<server, inAgent, file, started, crashes, past>>

\* The lookup or the insert failed: Unavailable, and the record waits.
ReportFails(q) ==
  /\ up /\ q \in queue
  /\ UNCHANGED vars

Crash ==
  /\ up /\ crashes < MaxCrashes
  /\ crashes' = crashes + 1
  /\ up' = FALSE /\ ready' = FALSE /\ deferred' = FALSE /\ answer' = Nothing
  /\ version' = Nothing /\ known' = {} /\ caller' = [c \in Caller |-> Empty]
  /\ running' = {} /\ runs' = {} /\ marks' = {}
  /\ UNCHANGED <<server, file, queue, started, past>>

\* NewManager: loadDedupSet
Start ==
  /\ ~up /\ up' = TRUE /\ marks' = file
  /\ UNCHANGED <<server, ready, deferred, answer, version, known, caller, running, runs, onDisk, past>>

-----------------------------------------------------------------------------
Next ==
  \/ AddDeviceToGroup \/ DeleteDeviceGroup \/ Hold
  \/ \E s \in Script : SaveScript(s) \/ DeleteScript(s)
  \/ \E p \in Policy :
       \/ ToggleScriptPolicy(p) \/ DeleteScriptPolicy(p) \/ AssignPolicyToGroup(p)
       \/ \E s \in Script, t \in Trigger : CreateScriptPolicy(p, s, t) \/ UpdateScriptPolicy(p, s, t)
  \/ FetchScriptPolicies \/ OnConnect \/ OnEvent \/ Crash \/ Start
  \/ \E b \in BOOLEAN : Poll(b)
  \/ \E e \in known : e.trigger = "schedule" /\ Fire(e)
  \/ \E c \in Caller : Launch(c) \/ \E e \in caller[c].left, b \in BOOLEAN : Take(c, e, b)
  \/ \E g \in runs, b \in BOOLEAN : Finish(g, b)
  \/ \E q \in queue : ReportFails(q) \/ \E b \in BOOLEAN : ReportScriptResult(q, b)

Spec == Init /\ [][Next]_vars

-----------------------------------------------------------------------------
\* However often the stream reconnects, the poll is late or the agent
\* restarts, an on_connect version is started once at most, and a policy
\* never runs twice at a time; a version whose mark did not reach the disk
\* may start again after a restart.
RunsOnce ==
  /\ \A a, b \in byConnect : a # b /\ a[2] = b[2] => a[2] \in unmarked
  /\ \A g, h \in runs : g # h => g.e.id # h.e.id

\* A result the queue took is in the queue or with the server until its policy
\* is deleted, through lost answers, failing writes and restarts; only one that
\* was acknowledged over a failed COMMIT is nowhere.
ResultKept == \A r \in ended : r \in queue \/ r[1] \in results \cup unstored \/ r[2] \in deleted
=============================================================================
