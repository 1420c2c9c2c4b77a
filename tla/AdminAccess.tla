----------------------------- MODULE AdminAccess -----------------------------
(***************************************************************************)
(* Temporary administrator rights of one device:                           *)
(*   - the rows of admin_access_requests: created by the employee, decided *)
(*     and revoked by an operator, expired by a sweep (gateway.go,         *)
(*     api/handler.go, storage/postgres.go);                               *)
(*   - the agent's admin.Manager: it polls the server, adds the console    *)
(*     user to the administrators of the machine and removes him again,    *)
(*     and keeps the session in a file that survives a restart             *)
(*     (admin/manager.go, admin/session.go);                               *)
(*   - the reports of both ends of a session and the final window of       *)
(*     evidence, and the sweep that raises an alert when it is missing     *)
(*     (gateway/admin_session.go, storage/admin_session.go).               *)
(* A grant and a revocation are cut wherever the process may die between   *)
(* two effects: the file, the group of the operating system, the outbox.   *)
(* Requests are numbered in the order of requested_at.  Reports wait in    *)
(* the outbox and are processed in order (Outbox, Fifo).  What an evidence *)
(* window contains is the subject of AdminEvidence.                        *)
(***************************************************************************)
EXTENDS Integers, Sequences, FiniteSets

CONSTANTS
  MaxRequests, \* bound on the number of requests
  User,        \* accounts of the machine
  Native,      \* those who are administrators in their own right
  Nobody,      \* no user
  None,        \* no session file
  Durable,     \* the session store is enabled (stateDir is the DataDir)
  Collect,     \* the values collect_admin_session_changes may take
  MaxFaults    \* bound on crashes, failed calls of the system, lost reports

ASSUME AdminAssumption ==
  /\ MaxRequests \in Nat /\ MaxFaults \in Nat
  /\ Native \subseteq User /\ Nobody \notin User
  /\ None \notin [user : User, req : 1..MaxRequests, wasAdmin : BOOLEAN, collect : BOOLEAN]
  /\ Durable \in BOOLEAN /\ Collect \subseteq BOOLEAN

VARIABLES
  \* the server
  status,   \* admin_access_requests.status, "none" before the row exists
  due,      \* rows whose current deadline (pending_expires_at, expires_at) passed
  granted,  \* granted_at is set
  captured, \* baseline_captured_at is set
  final,    \* changes_final_at is set
  alert,    \* an evidence-gap alert was raised
  mail,     \* reports in the outbox
  \* the machine
  admin,    \* members of the administrators group
  console,  \* the user at the console
  file,     \* admin-session.json
  \* the agent's process
  up, mem,  \* Manager's fields: user and req of the session, wasAdmin, collectLatched
  pc, back, \* where poll stands, and where it goes on after a revocation
  resp,     \* the request the server calls approved, from the last fetch
  plan,     \* the session that grant is setting up
  \* history and environment
  excused,  \* users whose rights the code gives up on, with an error in its log
  forgot,   \* users whose earlier membership EmitWindow wiped from the file
  served,   \* requests that have had a session
  recorded, \* requests whose first session began with a baseline
  untold,   \* requests whose APPROVED report did not arrive: refused by the outbox,
            \* or acknowledged over a failed COMMIT
  faults

serverVars == <<status, due, granted, captured, final, alert>>
procVars   == <<up, mem, pc, back, resp, plan>>
history    == <<excused, forgot, served, recorded, untold>>
vars       == <<serverVars, mail, admin, console, file, procVars, history, faults>>

Request == 1..MaxRequests
NoReq   == 0
Status  == {"none", "pending", "rejected", "approved", "revoked", "expired"}
Session == [user : User, req : Request, wasAdmin : BOOLEAN, collect : BOOLEAN]
Memory  == [user : User \cup {Nobody}, req : Request \cup {NoReq},
            wasAdmin : BOOLEAN, collect : BOOLEAN]
Report  == [kind : {"approved", "revoked", "final"}, req : Request, captured : BOOLEAN]
Step    == {"idle", "fetch", "grant", "give", "given", "revoke", "window", "clear", "tell"}
Fresh   == [user |-> Nobody, req |-> NoReq, wasAdmin |-> FALSE, collect |-> FALSE]

TypeOK ==
  /\ status \in [Request -> Status]
  /\ due \subseteq Request /\ granted \subseteq Request /\ captured \subseteq Request
  /\ final \subseteq Request /\ alert \subseteq Request
  /\ mail \in Seq(Report)
  /\ admin \subseteq User /\ console \in User \cup {Nobody}
  /\ file \in Session \cup {None}
  /\ up \in BOOLEAN /\ mem \in Memory
  /\ pc \in Step /\ back \in {"fetch", "grant"}
  /\ resp \in Request \cup {NoReq} /\ plan \in Memory
  /\ excused \subseteq User /\ forgot \subseteq User
  /\ served \subseteq Request /\ recorded \subseteq served /\ untold \subseteq Request
  /\ faults \in 0..MaxFaults

Init ==
  /\ status = [r \in Request |-> "none"]
  /\ due = {} /\ granted = {} /\ captured = {} /\ final = {} /\ alert = {} /\ mail = <<>>
  /\ admin = Native /\ console = Nobody /\ file = None
  /\ up = TRUE /\ mem = Fresh /\ pc = "idle" /\ back = "fetch" /\ resp = NoReq /\ plan = Fresh
  /\ excused = {} /\ forgot = {} /\ served = {} /\ recorded = {} /\ untold = {}
  /\ faults = 0

Fault   == faults < MaxFaults /\ faults' = faults + 1
NoFault == faults' = faults

-----------------------------------------------------------------------------
(* The rows of the requests.                                               *)

\* The employee's request: a new row, the youngest of the device.
RequestAdminAccess(r) ==
  /\ status[r] = "none" /\ \A q \in 1..(r - 1) : status[q] # "none"
  /\ status' = [status EXCEPT ![r] = "pending"]
  /\ UNCHANGED <<due, granted, captured, final, alert, mail, admin, console, file,
                 procVars, history, faults>>

\* The operator's decision counts for a pending row only, past its deadline or
\* not; an approval gives the row a new deadline, always (respondAdminRequest).
RespondToAdminRequest(r, decision) ==
  /\ status[r] = "pending"
  /\ status' = [status EXCEPT ![r] = decision]
  /\ due' = due \ {r}
  /\ UNCHANGED <<granted, captured, final, alert, mail, admin, console, file,
                 procVars, history, faults>>

RevokeAdminAccessRequest(r) ==
  /\ status[r] = "approved"
  /\ status' = [status EXCEPT ![r] = "revoked"]
  /\ UNCHANGED <<due, granted, captured, final, alert, mail, admin, console, file,
                 procVars, history, faults>>

DeadlinePasses(r) ==
  /\ status[r] \in {"pending", "approved"} /\ r \notin due
  /\ due' = due \cup {r}
  /\ UNCHANGED <<status, granted, captured, final, alert, mail, admin, console, file,
                 procVars, history, faults>>

\* The sweep: one statement over all the rows.
Stale == {r \in due : status[r] \in {"pending", "approved"}}

ExpireStaleAdminRequests ==
  /\ Stale # {}
  /\ status' = [r \in Request |-> IF r \in Stale THEN "expired" ELSE status[r]]
  /\ UNCHANGED <<due, granted, captured, final, alert, mail, admin, console, file,
                 procVars, history, faults>>

\* What FetchAdminStatus shows: the youngest row that is pending or approved.
OpenRequests == {r \in Request : status[r] \in {"pending", "approved"}}

FetchActiveAdminRequest == {r \in OpenRequests : \A q \in OpenRequests : q <= r}

\* approvedNow: the answer says approved and its deadline has not passed.
ApprovedNow ==
  LET shown == {r \in FetchActiveAdminRequest : status[r] = "approved" /\ r \notin due}
  IN  IF shown = {} THEN NoReq ELSE CHOOSE r \in shown : TRUE

\* Mutant of UpdateAdminAccessReport: the baseline is not noted.
UpdateAdminAccessReportBlind(m) ==
  /\ granted' = IF m.kind = "approved" THEN granted \cup {m.req} ELSE granted
  /\ status' = IF m.kind = "revoked" THEN [status EXCEPT ![m.req] = "revoked"] ELSE status
  /\ final' = IF m.kind = "final" THEN final \cup {m.req} ELSE final
  /\ UNCHANGED captured

\* UpdateAdminAccessReport and MarkAdminBaselineCaptured, one transaction: an
\* APPROVED report counts once; a REVOKED one closes the row whatever it was.
UpdateAdminAccessReport(m) ==
  CASE m.kind = "approved" ->
         /\ granted' = granted \cup {m.req}
         /\ captured' = IF m.captured /\ m.req \notin granted
                        THEN captured \cup {m.req} ELSE captured
         /\ UNCHANGED <<status, final>>
    [] m.kind = "revoked" ->
         /\ status' = [status EXCEPT ![m.req] = "revoked"]
         /\ UNCHANGED <<granted, captured, final>>
    [] OTHER ->
         /\ final' = final \cup {m.req}
         /\ UNCHANGED <<status, granted, captured>>

Untold(m) == IF m.kind = "approved" THEN untold \cup {m.req} ELSE untold

\* The outbox delivers its first report; it keeps it if the reply is lost.
ReportAdminAccess ==
  /\ mail # <<>>
  /\ UpdateAdminAccessReport(Head(mail))
  /\ \/ mail' = Tail(mail) /\ NoFault
     \/ mail' = mail /\ Fault
  /\ UNCHANGED <<due, alert, admin, console, file, procVars, history>>

\* The handler of the two ends answers before its COMMIT, and ignores what
\* becomes of it; that of the windows does not.
ReportNotCommitted ==
  /\ mail # <<>> /\ Head(mail).kind # "final" /\ Fault
  /\ mail' = Tail(mail) /\ untold' = Untold(Head(mail))
  /\ UNCHANGED <<serverVars, admin, console, file, procVars, excused, forgot, served, recorded>>

\* Evidence is of the class the outbox evicts first.
OutboxEvicts(i) ==
  /\ mail[i].kind = "final" /\ Fault
  /\ mail' = SubSeq(mail, 1, i - 1) \o SubSeq(mail, i + 1, Len(mail))
  /\ UNCHANGED <<serverVars, admin, console, file, procVars, history>>

\* ListAdminEvidenceGaps, after its grace period, and the alert for one of them.
SweepAdminSessionEvidenceGaps(r) ==
  /\ r \in captured \ (final \cup alert)
  /\ status[r] \in {"revoked", "expired"}
  /\ alert' = alert \cup {r}
  /\ UNCHANGED <<status, due, granted, captured, final, mail, admin, console, file,
                 procVars, history, faults>>

-----------------------------------------------------------------------------
(* The machine and the agent.                                              *)

ConsoleChanges(u) ==
  /\ console # u
  /\ console' = u
  /\ UNCHANGED <<serverVars, mail, admin, file, procVars, history, faults>>

HasSession == mem.user # Nobody

\* poll, first part: the session ends when another user, or none, is seen at
\* the console, and when it expires.  A probe that fails sees no one go.
LocalReason == HasSession /\ (console # mem.user \/ mem.req \in due)

PollEndsSession ==
  /\ up /\ pc = "idle" /\ LocalReason
  /\ pc' = "revoke" /\ back' = "fetch"
  /\ UNCHANGED <<serverVars, mail, admin, console, file, up, mem, resp, plan, history, faults>>

PollKeepsSession ==
  /\ up /\ pc = "idle"
  /\ HasSession => mem.req \notin due
  /\ pc' = "fetch"
  /\ UNCHANGED <<serverVars, mail, admin, console, file, up, mem, back, resp, plan, history, faults>>

\* Second part: a session the server does not confirm ends; then a request the
\* Manager has not served yet is granted.
FetchAdminStatus ==
  /\ up /\ pc = "fetch"
  /\ resp' = ApprovedNow
  /\ IF HasSession /\ resp' # mem.req
     THEN pc' = "revoke" /\ back' = "grant"
     ELSE pc' = "grant" /\ back' = back
  /\ UNCHANGED <<serverVars, mail, admin, console, file, up, mem, plan, history, faults>>

FetchFails ==
  /\ up /\ pc = "fetch"
  /\ pc' = "idle"
  /\ UNCHANGED <<serverVars, mail, admin, console, file, up, mem, back, resp, plan, history, faults>>

\* Nothing new to grant; or no user at the console; or the probe or the write
\* of the session file failed, and the next tick will try again.
GrantNothing ==
  /\ up /\ pc = "grant"
  /\ pc' = "idle" /\ resp' = NoReq
  /\ UNCHANGED <<serverVars, mail, admin, console, file, up, mem, back, plan, history, faults>>

\* An intermediate window, sent from the poll of a session.  Its number is saved
\* with the state just loaded; when the file could not be read, with a fallback
\* that names the request and the user and has lost the rest.
EmitWindow ==
  /\ up /\ pc = "grant" /\ HasSession /\ mem.collect
  /\ \/ NoFault /\ UNCHANGED <<file, forgot>>
     \/ /\ Durable /\ Fault
        /\ file' = [user |-> mem.user, req |-> mem.req, wasAdmin |-> FALSE, collect |-> FALSE]
        /\ forgot' = IF mem.wasAdmin THEN forgot \cup {mem.user} ELSE forgot
  /\ pc' = "idle" /\ resp' = NoReq
  /\ UNCHANGED <<serverVars, mail, admin, console, up, mem, back, plan,
                 excused, served, recorded, untold>>

\* Mutant of GrantSaves: the rights come before the file.
GrantSavesNothing ==
  /\ up /\ pc = "grant" /\ resp \notin {NoReq, mem.req} /\ console # Nobody
  /\ \E collect \in Collect :
       plan' = [user |-> console, req |-> resp, wasAdmin |-> console \in admin, collect |-> collect]
  /\ pc' = "give" /\ resp' = NoReq
  /\ UNCHANGED <<serverVars, mail, admin, console, file, up, mem, back, history, faults>>

\* The membership is read, then the session is written to disk: before the
\* rights are given.  A failed reading counts as "was an administrator".
GrantSaves ==
  /\ up /\ pc = "grant" /\ resp \notin {NoReq, mem.req} /\ console # Nobody
  /\ \E wasAdmin \in BOOLEAN, collect \in Collect :
       /\ plan' = [user |-> console, req |-> resp, wasAdmin |-> wasAdmin, collect |-> collect]
       /\ \/ wasAdmin = (console \in admin) /\ NoFault /\ UNCHANGED excused
          \/ wasAdmin /\ console \notin admin /\ Fault /\ excused' = excused \cup {console}
  /\ file' = IF Durable THEN plan' ELSE file
  /\ pc' = "give" /\ resp' = NoReq
  /\ UNCHANGED <<serverVars, mail, admin, console, up, mem, back, forgot, served, recorded, untold>>

GrantGives ==
  /\ up /\ pc = "give"
  /\ admin' = admin \cup {plan.user}
  /\ pc' = "given"
  /\ UNCHANGED <<serverVars, mail, console, file, up, mem, back, resp, plan, history, faults>>

\* Grant fails, with an effect or without; the file is removed, or stays.
GrantFails ==
  /\ up /\ pc = "give" /\ Fault
  /\ \/ UNCHANGED <<admin, excused>>
     \/ /\ admin' = admin \cup {plan.user}
        /\ excused' = IF plan.user \in admin THEN excused ELSE excused \cup {plan.user}
  /\ file' \in {None, file}
  /\ pc' = "idle" /\ plan' = Fresh
  /\ UNCHANGED <<serverVars, mail, console, up, mem, back, resp, forgot, served, recorded, untold>>

\* A report is enqueued, or the outbox refuses it.
Enqueue(m) ==
  \/ mail' = Append(mail, m) /\ NoFault /\ UNCHANGED untold
  \/ mail' = mail /\ Fault /\ untold' = Untold(m)

GrantReports ==
  /\ up /\ pc = "given"
  /\ mem' = plan
  /\ served' = served \cup {plan.req}
  /\ recorded' = IF plan.collect /\ Durable /\ plan.req \notin served
                 THEN recorded \cup {plan.req} ELSE recorded
  /\ Enqueue([kind |-> "approved", req |-> plan.req, captured |-> plan.collect /\ Durable])
  /\ pc' = "idle" /\ plan' = Fresh
  /\ UNCHANGED <<serverVars, admin, console, file, up, back, resp, excused, forgot>>

-----------------------------------------------------------------------------
(* revoke: the rights, the final window, the file, the report.             *)

\* Mutant of RevokeTakes: whatever rights the user had before.
RevokeTakesAlways ==
  /\ up /\ pc = "revoke" /\ NoFault
  /\ admin' = admin \ {mem.user} /\ pc' = "window"
  /\ UNCHANGED <<serverVars, mail, console, file, up, mem, back, resp, plan, history>>

\* Rights the user had before the session are not taken.  A failed removal is
\* logged and not tried again.
RevokeTakes ==
  /\ up /\ pc = "revoke"
  /\ \/ mem.wasAdmin /\ NoFault /\ UNCHANGED <<admin, excused>>
     \/ ~mem.wasAdmin /\ NoFault /\ admin' = admin \ {mem.user} /\ UNCHANGED excused
     \/ ~mem.wasAdmin /\ Fault /\ excused' = excused \cup {mem.user} /\ UNCHANGED admin
  /\ pc' = "window"
  /\ UNCHANGED <<serverVars, mail, console, file, up, mem, back, resp, plan, forgot, served, recorded, untold>>

\* emitWindow(final): by the outbox, or directly when the outbox refuses, or lost.
EmitFinalWindow ==
  /\ up /\ pc = "window"
  /\ LET w == [kind |-> "final", req |-> mem.req, captured |-> FALSE]
     IN  \/ ~mem.collect /\ NoFault /\ UNCHANGED <<mail, final>>
         \/ mem.collect /\ NoFault /\ mail' = Append(mail, w) /\ UNCHANGED final
         \/ mem.collect /\ NoFault /\ final' = final \cup {mem.req} /\ UNCHANGED mail
         \/ mem.collect /\ Fault /\ UNCHANGED <<mail, final>>
  /\ pc' = "clear"
  /\ UNCHANGED <<status, due, granted, captured, alert, admin, console, file,
                 up, mem, back, resp, plan, history>>

\* The session is forgotten, but for its request, which is not granted again.
RevokeClears ==
  /\ up /\ pc = "clear"
  /\ mem' = [Fresh EXCEPT !.req = mem.req]
  /\ \/ file' = None /\ NoFault
     \/ file' = file /\ file # None /\ Fault
  /\ pc' = "tell"
  /\ UNCHANGED <<serverVars, mail, admin, console, up, back, resp, plan, history>>

RevokeReports ==
  /\ up /\ pc = "tell"
  /\ Enqueue([kind |-> "revoked", req |-> mem.req, captured |-> FALSE])
  /\ pc' = back
  /\ UNCHANGED <<serverVars, admin, console, file, up, mem, back, resp, plan, excused, forgot, served, recorded>>

-----------------------------------------------------------------------------
(* A crash, at any of these steps, and the restart.  Without the store, a  *)
(* grant does not survive it, as the log of grant says.                    *)
Crash ==
  /\ up /\ Fault
  /\ up' = FALSE /\ mem' = Fresh /\ pc' = "idle" /\ back' = "fetch" /\ resp' = NoReq /\ plan' = Fresh
  /\ excused' = IF Durable THEN excused ELSE excused \cup (admin \ Native)
  /\ UNCHANGED <<serverVars, mail, admin, console, file, forgot, served, recorded, untold>>

\* Mutant of Restore: the file is not read.
RestoreNothing == Fresh

Restore == IF Durable /\ file # None THEN file ELSE Fresh

Restart ==
  /\ ~up /\ up' = TRUE
  /\ mem' = Restore
  /\ UNCHANGED <<serverVars, mail, admin, console, file, pc, back, resp, plan, history, faults>>

\* The file cannot be read: the session is lost, with an error in the log.
RestartBlind ==
  /\ ~up /\ up' = TRUE /\ file # None /\ Fault
  /\ mem' = Fresh /\ excused' = excused \cup {file.user}
  /\ UNCHANGED <<serverVars, mail, admin, console, file, pc, back, resp, plan, forgot, served, recorded, untold>>

-----------------------------------------------------------------------------
Next ==
  \/ \E r \in Request :
       \/ RequestAdminAccess(r) \/ RevokeAdminAccessRequest(r) \/ DeadlinePasses(r)
       \/ \E d \in {"approved", "rejected"} : RespondToAdminRequest(r, d)
       \/ SweepAdminSessionEvidenceGaps(r)
  \/ ExpireStaleAdminRequests
  \/ ReportAdminAccess \/ ReportNotCommitted
  \/ \E i \in DOMAIN mail : OutboxEvicts(i)
  \/ \E u \in User \cup {Nobody} : ConsoleChanges(u)
  \/ PollEndsSession \/ PollKeepsSession \/ FetchAdminStatus \/ FetchFails
  \/ GrantNothing \/ EmitWindow \/ GrantSaves \/ GrantGives \/ GrantFails \/ GrantReports
  \/ RevokeTakes \/ EmitFinalWindow \/ RevokeClears \/ RevokeReports
  \/ Crash \/ Restart \/ RestartBlind

(* The Manager polls with a ticker and finishes what a poll began; a fetch *)
(* may fail any number of times but not for ever.  Deadlines pass, the     *)
(* sweeps are tickers of the server, the outbox delivers (Outbox, Drains), *)
(* the service manager restarts the agent.  Nothing is assumed of people.  *)
Fairness ==
  /\ WF_vars(PollEndsSession \/ PollKeepsSession) /\ WF_vars(PollEndsSession)
  /\ SF_vars(FetchAdminStatus)
  /\ WF_vars(GrantNothing \/ EmitWindow \/ GrantSaves \/ GrantGives \/ GrantReports)
  /\ WF_vars(RevokeTakes \/ EmitFinalWindow \/ RevokeClears \/ RevokeReports)
  /\ WF_vars(Restart)
  /\ WF_vars(ExpireStaleAdminRequests)
  /\ \A r \in Request : WF_vars(DeadlinePasses(r)) /\ WF_vars(SweepAdminSessionEvidenceGaps(r))
  /\ WF_vars(ReportAdminAccess)

Spec == Init /\ [][Next]_vars /\ Fairness

-----------------------------------------------------------------------------
(* Who is an administrator in his own right stays one: no path through     *)
(* grants, failed readings of the group, restarts and revocations makes    *)
(* the agent remove him, unless a window wiped what the file knew of him   *)
(* (grantedWasAdmin, restore, emitWindow).                                 *)
NativeKept == Native \ forgot \subseteq admin

(* Rights that the agent gave are known to a file that survives a crash at *)
(* any step, as rights to be taken away, unless the code itself gave up on *)
(* them: no temporary right is left without an owner (grant, restore).     *)
NoStrayRights ==
  Durable => \A u \in admin \ (Native \cup excused) :
               file # None /\ file.user = u /\ ~file.wasAdmin

(* The agent takes away what it gave, and nothing else.                    *)
RightsAreOwned == NativeKept /\ NoStrayRights

(* Temporary rights end: whatever crashes and whatever the server does not *)
(* hear of, the user is out of the group in the end.                       *)
RightsEnd ==
  \A u \in User \ Native : (u \in admin \ excused) ~> (u \notin admin \/ u \in excused)

(* A session that began with a baseline, and of whose beginning the server *)
(* heard, ends with its final window at the server, or with an alert that  *)
(* it is missing, whatever other reports are lost.                         *)
Accountable ==
  \A r \in Request : (r \in recorded) ~> (r \in final \cup alert \cup untold)
=============================================================================
