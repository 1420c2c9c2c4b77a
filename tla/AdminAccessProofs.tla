-------------------------- MODULE AdminAccessProofs --------------------------
(***************************************************************************)
(* Proofs about AdminAccess, for every number of requests, any accounts    *)
(* and any number of faults.  The inductive invariant Inv adds to TypeOK   *)
(* where the Manager stands with its session (Placed), that an account     *)
(* with rights of its own is known as such wherever a session of it is     *)
(* kept (OwnKnown), and where rights that will have to be taken away are   *)
(* noted at each step of a grant and of a revocation (Noted).              *)
(***************************************************************************)
EXTENDS AdminAccess, SequenceTheorems, TLAPS

\* What poll is about to do agrees with whether a session is on.
Placed ==
  /\ ~up => pc = "idle"
  /\ HasSession => mem.user \in User /\ mem.req \in Request
  /\ pc \in {"revoke", "window", "clear"} => HasSession
  /\ pc = "tell" => ~HasSession /\ mem.req \in Request
  /\ pc \in {"give", "given"} => ~HasSession /\ plan \in Session
  /\ pc = "grant" /\ HasSession => resp \in {NoReq, mem.req}

\* A session of an account with rights of its own says so.
OwnKnown ==
  /\ NativeKept
  /\ mem.user \in Native \ forgot => mem.wasAdmin
  /\ plan.user \in Native \ forgot => plan.wasAdmin
  /\ file # None /\ file.user \in Native \ forgot => file.wasAdmin

\* Rights the agent has given and will have to take away.
Strays == admin \ (Native \cup excused)

Noted ==
  Durable =>
    /\ NoStrayRights
    /\ up /\ HasSession /\ file # None => file.user = mem.user
    /\ up /\ HasSession /\ mem.wasAdmin => Strays = {}
    /\ up /\ ~HasSession /\ pc # "given" => Strays = {}
    /\ pc \in {"window", "clear"} => Strays = {}
    /\ pc \in {"give", "given"} => file = plan
    /\ pc = "give" /\ plan.wasAdmin => plan.user \in Native \cup excused
    /\ pc = "given" /\ plan.wasAdmin => Strays = {}

Inv == TypeOK /\ Placed /\ OwnKnown /\ Noted

-----------------------------------------------------------------------------
LEMMA FreshMemory ==
  Fresh \in Memory /\ Fresh.user = Nobody /\ Fresh.req = NoReq /\ ~Fresh.wasAdmin
  BY DEF Fresh, Memory

(* The records the actions build.                                          *)
LEMMA Records ==
  /\ Session \subseteq Memory /\ None \notin Session
  /\ \A u \in User, r \in Request, b \in BOOLEAN, c \in BOOLEAN :
       [user |-> u, req |-> r, wasAdmin |-> b, collect |-> c] \in Session
  /\ \A k \in {"approved", "revoked", "final"}, r \in Request, c \in BOOLEAN :
       [kind |-> k, req |-> r, captured |-> c] \in Report
  /\ \A x \in Memory : x.user # Nobody /\ x.req # NoReq => x \in Session
  /\ \A x \in Memory : [Fresh EXCEPT !.req = x.req] \in Memory
  /\ NoReq \notin Request
<1>1. Session \subseteq Memory
  BY DEF Session, Memory
<1>2. None \notin Session
  BY AdminAssumption DEF AdminAssumption, Session, Request
<1>3. \A x \in Memory : [Fresh EXCEPT !.req = x.req] \in Memory
  BY DEF Memory, Fresh
<1>4. \A x \in Memory : x.user # Nobody /\ x.req # NoReq => x \in Session
  BY DEF Memory, Session
<1> QED
  BY <1>1, <1>2, <1>3, <1>4 DEF Session, Report, Request, NoReq

LEMMA InitInv == Init => Inv
<1> SUFFICES ASSUME Init PROVE Inv
  OBVIOUS
<1> USE AdminAssumption, FreshMemory DEF AdminAssumption, Init
<1>1. up \in BOOLEAN
  BY Zenon
<1>2. mail \in Seq(Report)
  OBVIOUS
<1>3. TypeOK
  BY <1>1, <1>2 DEF TypeOK, Status, Step, NoReq
<1>4. Placed /\ OwnKnown
  BY DEF Placed, OwnKnown, HasSession, NativeKept
<1>5. Noted
  BY DEF Noted, NoStrayRights, Strays, HasSession
<1> QED
  BY <1>3, <1>4, <1>5 DEF Inv

-----------------------------------------------------------------------------
(* Types.                                                                  *)

LEMMA MailTypes ==
  ASSUME NEW q \in Seq(Report)
  PROVE  /\ \A m \in Report : Append(q, m) \in Seq(Report)
         /\ q # <<>> => Head(q) \in Report /\ Tail(q) \in Seq(Report)
         /\ \A i \in DOMAIN q : SubSeq(q, 1, i - 1) \o SubSeq(q, i + 1, Len(q)) \in Seq(Report)
<1>1. \A i \in DOMAIN q : SubSeq(q, 1, i - 1) \in Seq(Report) /\ SubSeq(q, i + 1, Len(q)) \in Seq(Report)
  BY SubSeqProperties
<1> QED
  BY <1>1, HeadTailProperties, AppendProperties, ConcatProperties

RowTypes ==
  /\ status \in [Request -> Status]
  /\ due \subseteq Request /\ granted \subseteq Request /\ captured \subseteq Request
  /\ final \subseteq Request /\ alert \subseteq Request
  /\ mail \in Seq(Report)

MachineTypes == admin \subseteq User /\ console \in User \cup {Nobody} /\ file \in Session \cup {None}

ProcessTypes ==
  /\ up \in BOOLEAN /\ mem \in Memory
  /\ pc \in Step /\ back \in {"fetch", "grant"}
  /\ resp \in Request \cup {NoReq} /\ plan \in Memory

HistoryTypes ==
  /\ excused \subseteq User /\ forgot \subseteq User
  /\ served \subseteq Request /\ recorded \subseteq served /\ untold \subseteq Request
  /\ faults \in 0..MaxFaults

Rows ==
  \/ \E r \in Request :
       \/ RequestAdminAccess(r) \/ RevokeAdminAccessRequest(r) \/ DeadlinePasses(r)
       \/ \E d \in {"approved", "rejected"} : RespondToAdminRequest(r, d)
       \/ SweepAdminSessionEvidenceGaps(r)
  \/ ExpireStaleAdminRequests
  \/ ReportAdminAccess \/ ReportNotCommitted
  \/ \E i \in DOMAIN mail : OutboxEvicts(i)

LEMMA RowsKeep ==
  ASSUME TypeOK, Rows
  PROVE  TypeOK' /\ UNCHANGED <<admin, console, file, procVars, excused, forgot>>
<1> USE DEF procVars, history, serverVars
<1>0. RowTypes /\ MachineTypes /\ ProcessTypes /\ HistoryTypes
  BY DEF TypeOK, RowTypes, MachineTypes, ProcessTypes, HistoryTypes
<1>1. ASSUME NEW r \in Request,
             \/ RequestAdminAccess(r) \/ RevokeAdminAccessRequest(r) \/ DeadlinePasses(r)
             \/ \E d \in {"approved", "rejected"} : RespondToAdminRequest(r, d)
             \/ SweepAdminSessionEvidenceGaps(r)
      PROVE  RowTypes' /\ UNCHANGED <<admin, console, file, procVars, history, faults>>
  BY <1>0, <1>1 DEF RowTypes, RequestAdminAccess, RevokeAdminAccessRequest, DeadlinePasses,
     RespondToAdminRequest, SweepAdminSessionEvidenceGaps, Status
<1>2. CASE ExpireStaleAdminRequests
  BY <1>0, <1>2 DEF ExpireStaleAdminRequests, RowTypes, Status, MachineTypes, ProcessTypes, HistoryTypes, TypeOK
<1>3. CASE ReportAdminAccess
  <2>1. Head(mail) \in Report /\ Tail(mail) \in Seq(Report)
    BY <1>0, <1>3, MailTypes DEF ReportAdminAccess, RowTypes
  <2>2. Head(mail).req \in Request
    BY <2>1 DEF Report
  <2>3. UpdateAdminAccessReport(Head(mail)) /\ UNCHANGED <<due, alert, admin, console, file, procVars, history>>
    BY <1>3 DEF ReportAdminAccess
  <2>4. /\ status' \in [Request -> Status] /\ granted' \subseteq Request
        /\ captured' \subseteq Request /\ final' \subseteq Request
    BY <1>0, <2>2, <2>3 DEF UpdateAdminAccessReport, RowTypes, Status
  <2>5. mail' \in Seq(Report)
    BY <1>0, <1>3, <2>1 DEF ReportAdminAccess, RowTypes
  <2>6. faults' \in 0..MaxFaults
    <3>1. MaxFaults \in Nat /\ faults \in 0..MaxFaults
      BY <1>0, AdminAssumption, Zenon DEF HistoryTypes, AdminAssumption
    <3>2. Fault \/ NoFault
      BY <1>3, Zenon DEF ReportAdminAccess
    <3> QED
      BY <3>1, <3>2 DEF Fault, NoFault
  <2> QED
    BY <1>0, <2>3, <2>4, <2>5, <2>6 DEF RowTypes, MachineTypes, ProcessTypes, HistoryTypes, TypeOK
<1>3a. CASE ReportNotCommitted
  <2>1. Head(mail) \in Report /\ Tail(mail) \in Seq(Report)
    BY <1>0, <1>3a, MailTypes DEF ReportNotCommitted, RowTypes
  <2>2. Head(mail).req \in Request
    BY <2>1 DEF Report
  <2>3. mail' \in Seq(Report) /\ untold' \subseteq Request /\ faults' \in 0..MaxFaults
    BY <1>0, <1>3a, <2>1, <2>2, AdminAssumption
       DEF ReportNotCommitted, Untold, HistoryTypes, Fault, AdminAssumption
  <2> QED
    BY <1>0, <1>3a, <2>3 DEF ReportNotCommitted, RowTypes, MachineTypes, ProcessTypes, HistoryTypes, TypeOK
<1>4. CASE \E i \in DOMAIN mail : OutboxEvicts(i)
  <2>1. mail' \in Seq(Report) /\ faults' \in 0..MaxFaults
    BY <1>0, <1>4, MailTypes, AdminAssumption
       DEF OutboxEvicts, RowTypes, HistoryTypes, Fault, AdminAssumption
  <2> QED
    BY <1>0, <1>4, <2>1 DEF OutboxEvicts, RowTypes, MachineTypes, ProcessTypes, HistoryTypes, TypeOK
<1>5. ASSUME RowTypes', UNCHANGED <<admin, console, file, procVars, history, faults>>
      PROVE  TypeOK' /\ UNCHANGED <<admin, console, file, procVars, excused, forgot>>
  BY <1>0, <1>5 DEF RowTypes, MachineTypes, ProcessTypes, HistoryTypes, TypeOK
<1> QED
  BY <1>1, <1>2, <1>3, <1>3a, <1>4, <1>5 DEF Rows

Agent ==
  \/ \E u \in User \cup {Nobody} : ConsoleChanges(u)
  \/ PollEndsSession \/ PollKeepsSession \/ FetchAdminStatus \/ FetchFails
  \/ GrantNothing \/ EmitWindow \/ GrantSaves \/ GrantGives \/ GrantFails \/ GrantReports
  \/ RevokeTakes \/ EmitFinalWindow \/ RevokeClears \/ RevokeReports
  \/ Crash \/ Restart \/ RestartBlind

LEMMA Split == Next => Rows \/ Agent
  BY DEF Next, Rows, Agent

LEMMA NextRequest == ApprovedNow \in Request \cup {NoReq}
  BY DEF ApprovedNow, FetchActiveAdminRequest, OpenRequests

\* What a session that is on looks like.
LEMMA OnSession == TypeOK /\ Placed /\ HasSession => mem \in Session
  BY Records DEF TypeOK, Placed, HasSession

LEMMA EnqueueTypes ==
  ASSUME NEW m \in Report, m.req \in Request, Enqueue(m),
         mail \in Seq(Report), untold \subseteq Request, faults \in 0..MaxFaults
  PROVE  mail' \in Seq(Report) /\ untold' \subseteq Request /\ faults' \in 0..MaxFaults
<1>1. Append(mail, m) \in Seq(Report)
  BY MailTypes
<1> QED
  BY <1>1, AdminAssumption DEF Enqueue, Untold, Fault, NoFault, AdminAssumption

LEMMA AgentTypes == TypeOK /\ Placed /\ Agent => TypeOK'
<1> SUFFICES ASSUME TypeOK, Placed, Agent PROVE TypeOK'
  OBVIOUS
<1> USE AdminAssumption DEF AdminAssumption, serverVars, procVars, history, RowTypes, MachineTypes,
    ProcessTypes, HistoryTypes, Fault, NoFault, Step
<1>0. RowTypes /\ MachineTypes /\ ProcessTypes /\ HistoryTypes
  BY DEF TypeOK
<1>1. CASE \E u \in User \cup {Nobody} : ConsoleChanges(u)
  BY <1>0, <1>1 DEF ConsoleChanges, TypeOK
<1>2. CASE PollEndsSession \/ PollKeepsSession \/ FetchFails \/ GrantNothing
  BY <1>0, <1>2 DEF PollEndsSession, PollKeepsSession, FetchFails, GrantNothing, TypeOK
<1>3. CASE FetchAdminStatus
  BY <1>0, <1>3, NextRequest DEF FetchAdminStatus, TypeOK
<1>4. CASE EmitWindow
  <2>1. mem \in Session
    BY <1>4, OnSession DEF EmitWindow
  <2>2. [user |-> mem.user, req |-> mem.req, wasAdmin |-> FALSE, collect |-> FALSE] \in Session
    BY <2>1 DEF Session
  <2>3. mem.user \in User
    BY <2>1 DEF Session
  <2>4. forgot' \subseteq User /\ faults' \in 0..MaxFaults
    BY <1>0, <1>4, <2>3 DEF EmitWindow
  <2>5. file' \in Session \cup {None}
    <3>1. file' = file \/ file' = [user |-> mem.user, req |-> mem.req, wasAdmin |-> FALSE, collect |-> FALSE]
      BY <1>4 DEF EmitWindow
    <3> QED
      BY <1>0, <2>2, <3>1 DEF MachineTypes
  <2> QED
    BY <1>0, <1>4, <2>4, <2>5 DEF EmitWindow, TypeOK
<1>5. CASE GrantSaves
  <2>1. plan' \in Session /\ excused' \subseteq User /\ faults' \in 0..MaxFaults
    BY <1>0, <1>5, Records DEF GrantSaves
  <2>2. plan' \in Memory /\ file' \in Session \cup {None}
    BY <1>0, <1>5, <2>1, Records DEF GrantSaves
  <2> QED
    BY <1>0, <1>5, <2>1, <2>2 DEF GrantSaves, TypeOK
<1>6. CASE GrantGives \/ GrantFails
  <2>1. plan.user \in User
    BY <1>6 DEF GrantGives, GrantFails, Placed, Session
  <2> QED
    BY <1>0, <1>6, <2>1, FreshMemory DEF GrantGives, GrantFails, TypeOK
<1>7. CASE GrantReports
  <2>1. plan \in Session /\ plan.req \in Request
    BY <1>7 DEF GrantReports, Placed, Session
  <2>2. [kind |-> "approved", req |-> plan.req, captured |-> plan.collect /\ Durable] \in Report
    BY <2>1, Records DEF Session
  <2>3. mail' \in Seq(Report) /\ untold' \subseteq Request /\ faults' \in 0..MaxFaults
    <3>1. Enqueue([kind |-> "approved", req |-> plan.req, captured |-> plan.collect /\ Durable])
      BY <1>7 DEF GrantReports
    <3> QED
      BY <1>0, <2>1, <2>2, <3>1, EnqueueTypes
  <2>4. served' \subseteq Request /\ recorded' \subseteq served'
    BY <1>0, <1>7, <2>1 DEF GrantReports
  <2> QED
    BY <1>0, <1>7, <2>3, <2>4, FreshMemory DEF GrantReports, TypeOK
<1>8. CASE RevokeTakes
  <2>1. mem.user \in User
    BY <1>8 DEF RevokeTakes, Placed
  <2> QED
    BY <1>0, <1>8, <2>1 DEF RevokeTakes, TypeOK
<1>9. CASE EmitFinalWindow
  <2>1. mem.req \in Request
    BY <1>9 DEF EmitFinalWindow, Placed
  <2>2. [kind |-> "final", req |-> mem.req, captured |-> FALSE] \in Report
    BY <2>1, Records
  <2>3. Append(mail, [kind |-> "final", req |-> mem.req, captured |-> FALSE]) \in Seq(Report)
    BY <1>0, <2>2, MailTypes
  <2>4. /\ mail' = mail \/ mail' = Append(mail, [kind |-> "final", req |-> mem.req, captured |-> FALSE])
        /\ final' = final \/ final' = final \cup {mem.req}
        /\ NoFault \/ Fault
    BY <1>9, Zenon DEF EmitFinalWindow
  <2>5. mail' \in Seq(Report)
    BY <1>0, <2>3, <2>4, Zenon
  <2>6. final' \subseteq Request
    BY <1>0, <2>1, <2>4, Zenon
  <2>7. faults' \in 0..MaxFaults
    BY <1>0, <2>4 DEF NoFault, Fault
  <2> QED
    BY <1>0, <1>9, <2>5, <2>6, <2>7 DEF EmitFinalWindow, TypeOK
<1>10. CASE RevokeClears
  BY <1>0, <1>10, Records DEF RevokeClears, TypeOK
<1>11. CASE RevokeReports
  <2>1. mem.req \in Request
    BY <1>11 DEF RevokeReports, Placed
  <2>2. [kind |-> "revoked", req |-> mem.req, captured |-> FALSE] \in Report
    BY <2>1, Records
  <2>3. mail' \in Seq(Report) /\ untold' \subseteq Request /\ faults' \in 0..MaxFaults
    <3>1. Enqueue([kind |-> "revoked", req |-> mem.req, captured |-> FALSE])
      BY <1>11 DEF RevokeReports
    <3> QED
      BY <1>0, <2>1, <2>2, <3>1, EnqueueTypes
  <2> QED
    BY <1>0, <1>11, <2>3 DEF RevokeReports, TypeOK
<1>12. CASE Crash
  <2>1. excused' \subseteq User /\ faults' \in 0..MaxFaults
    BY <1>0, <1>12 DEF Crash
  <2> QED
    BY <1>0, <1>12, <2>1, FreshMemory DEF Crash, TypeOK
<1>13. CASE Restart
  <2>1. Restore \in Memory
    BY <1>0, Records, FreshMemory DEF Restore
  <2> QED
    BY <1>0, <1>13, <2>1 DEF Restart, TypeOK
<1>14. CASE RestartBlind
  <2>1. file.user \in User
    BY <1>0, <1>14 DEF RestartBlind, Session
  <2> QED
    BY <1>0, <1>14, <2>1, FreshMemory DEF RestartBlind, TypeOK
<1> QED
  BY <1>1, <1>2, <1>3, <1>4, <1>5, <1>6, <1>7, <1>8, <1>9, <1>10, <1>11, <1>12, <1>13, <1>14 DEF Agent

LEMMA TypeStep == TypeOK /\ Placed /\ [Next]_vars => TypeOK'
<1>1. TypeOK /\ UNCHANGED vars => TypeOK'
  BY DEF TypeOK, vars, serverVars, procVars, history
<1> QED
  BY <1>1, Split, RowsKeep, AgentTypes

-----------------------------------------------------------------------------
(* What an action that leaves the machine and the process alone preserves. *)
LEMMA Untouched ==
  ASSUME UNCHANGED <<admin, console, file, procVars, excused, forgot>>
  PROVE  /\ Placed => Placed'
         /\ OwnKnown => OwnKnown'
         /\ Noted => Noted'
  BY DEF Placed, OwnKnown, Noted, NativeKept, NoStrayRights, Strays, HasSession, procVars, history

LEMMA PlacedStep == TypeOK /\ Placed /\ Agent => Placed'
<1> SUFFICES ASSUME TypeOK, Placed, Agent PROVE Placed'
  OBVIOUS
<1> USE AdminAssumption, FreshMemory DEF AdminAssumption, procVars, Placed, HasSession
<1>1. CASE \E u \in User \cup {Nobody} : ConsoleChanges(u)
  BY <1>1 DEF ConsoleChanges
<1>2. CASE PollEndsSession \/ PollKeepsSession \/ FetchFails \/ GrantNothing
  BY <1>2 DEF PollEndsSession, PollKeepsSession, FetchFails, GrantNothing, LocalReason
<1>3. CASE FetchAdminStatus
  BY <1>3 DEF FetchAdminStatus
<1>4. CASE EmitWindow
  BY <1>4 DEF EmitWindow
<1>5. CASE GrantSaves
  <2>1. resp \in Request /\ console \in User
    BY <1>5 DEF GrantSaves, TypeOK
  <2>2. plan' \in Session
    BY <1>5, <2>1, Records DEF GrantSaves
  <2>3. ~HasSession
    BY <1>5 DEF GrantSaves
  <2> QED
    BY <1>5, <2>2, <2>3 DEF GrantSaves
<1>6. CASE GrantGives \/ GrantFails
  BY <1>6 DEF GrantGives, GrantFails
<1>7. CASE GrantReports
  BY <1>7 DEF GrantReports, Session
<1>8. CASE RevokeTakes \/ EmitFinalWindow
  BY <1>8 DEF RevokeTakes, EmitFinalWindow
<1>9. CASE RevokeClears
  <2>1. mem'.user = Nobody /\ mem'.req = mem.req
    BY <1>9 DEF RevokeClears, Fresh
  <2> QED
    BY <1>9, <2>1 DEF RevokeClears
<1>10. CASE RevokeReports
  BY <1>10 DEF RevokeReports, TypeOK
<1>11. CASE Crash
  BY <1>11 DEF Crash
<1>12. CASE Restart \/ RestartBlind
  <2>1. file \in Session => file.user \in User /\ file.req \in Request
    BY DEF Session
  <2>2. mem' = Fresh \/ (mem' = file /\ file \in Session)
    BY <1>12 DEF Restart, RestartBlind, Restore, TypeOK
  <2>3. pc = "idle" /\ pc' = pc
    BY <1>12 DEF Restart, RestartBlind
  <2> QED
    BY <2>1, <2>2, <2>3
<1> QED
  BY <1>1, <1>2, <1>3, <1>4, <1>5, <1>6, <1>7, <1>8, <1>9, <1>10, <1>11, <1>12 DEF Agent

LEMMA OwnStep == TypeOK /\ Placed /\ OwnKnown /\ Agent => OwnKnown'
<1> SUFFICES ASSUME TypeOK, Placed, OwnKnown, Agent PROVE OwnKnown'
  OBVIOUS
<1> USE AdminAssumption, FreshMemory DEF AdminAssumption, procVars, serverVars, history, OwnKnown, NativeKept
<1>1. CASE \E u \in User \cup {Nobody} : ConsoleChanges(u)
  BY <1>1 DEF ConsoleChanges
<1>2. CASE PollEndsSession \/ PollKeepsSession \/ FetchFails \/ GrantNothing \/ FetchAdminStatus
  BY <1>2 DEF PollEndsSession, PollKeepsSession, FetchFails, GrantNothing, FetchAdminStatus
<1>3. CASE EmitWindow
  <2>1. CASE UNCHANGED <<file, forgot>>
    BY <1>3, <2>1 DEF EmitWindow
  <2>2. CASE /\ file' = [user |-> mem.user, req |-> mem.req, wasAdmin |-> FALSE, collect |-> FALSE]
             /\ forgot' = IF mem.wasAdmin THEN forgot \cup {mem.user} ELSE forgot
    <3>1. file'.user = mem.user /\ mem.user \notin Native \ forgot'
      BY <2>2
    <3> QED
      BY <1>3, <2>2, <3>1 DEF EmitWindow
  <2> QED
    BY <1>3, <2>1, <2>2 DEF EmitWindow
<1>4. CASE GrantSaves
  <2>1. /\ plan'.user = console
        /\ plan'.wasAdmin = (console \in admin) \/ plan'.wasAdmin
    BY <1>4 DEF GrantSaves
  <2>2. plan'.user \in Native \ forgot => plan'.wasAdmin
    BY <2>1, Zenon
  <2>3. file' = plan' \/ file' = file
    BY <1>4 DEF GrantSaves
  <2> QED
    BY <1>4, <2>2, <2>3 DEF GrantSaves
<1>5. CASE GrantGives \/ GrantFails \/ GrantReports
  BY <1>5 DEF GrantGives, GrantFails, GrantReports
<1>6. CASE RevokeTakes
  BY <1>6 DEF RevokeTakes
<1>7. CASE EmitFinalWindow \/ RevokeReports
  BY <1>7 DEF EmitFinalWindow, RevokeReports
<1>8. CASE RevokeClears
  <2>1. mem'.user = Nobody
    BY <1>8 DEF RevokeClears, Fresh
  <2> QED
    BY <1>8, <2>1 DEF RevokeClears
<1>9. CASE Crash \/ Restart \/ RestartBlind
  BY <1>9 DEF Crash, Restart, RestartBlind, Restore
<1> QED
  BY <1>1, <1>2, <1>3, <1>4, <1>5, <1>6, <1>7, <1>8, <1>9 DEF Agent

LEMMA NotedStep == TypeOK /\ Placed /\ Noted /\ Agent => Noted'
<1> SUFFICES ASSUME TypeOK, Placed, Noted, Agent, Durable PROVE Noted'
  BY DEF Noted
<1> USE AdminAssumption, FreshMemory
    DEF AdminAssumption, procVars, serverVars, history, Noted, NoStrayRights, Strays, HasSession
<1>1. CASE \E u \in User \cup {Nobody} : ConsoleChanges(u)
  BY <1>1 DEF ConsoleChanges
<1>2. CASE PollEndsSession \/ PollKeepsSession \/ FetchFails \/ GrantNothing \/ FetchAdminStatus
  BY <1>2 DEF PollEndsSession, PollKeepsSession, FetchFails, GrantNothing, FetchAdminStatus
<1>3. CASE EmitWindow
  <2>1. CASE UNCHANGED file
    BY <1>3, <2>1 DEF EmitWindow
  <2>2. CASE file' = [user |-> mem.user, req |-> mem.req, wasAdmin |-> FALSE, collect |-> FALSE]
    <3>1. file' # None
      BY <1>3, <2>2, Records DEF EmitWindow, Placed
    <3> QED
      BY <1>3, <2>2, <3>1 DEF EmitWindow
  <2> QED
    BY <1>3, <2>1, <2>2 DEF EmitWindow
<1>4. CASE GrantSaves
  <2>1. ~HasSession /\ Strays = {} /\ up
    BY <1>4 DEF GrantSaves, Placed
  <2>2. Strays' = {}
    BY <1>4, <2>1 DEF GrantSaves
  <2>3. plan'.user = console /\ (plan'.wasAdmin => console \in admin \cup excused')
    BY <1>4 DEF GrantSaves
  <2>4. plan'.wasAdmin => plan'.user \in Native \cup excused'
    BY <1>4, <2>1, <2>3 DEF GrantSaves
  <2>5. file' = plan' /\ pc' = "give" /\ mem' = mem /\ up' = up
    BY <1>4 DEF GrantSaves
  <2> QED
    BY <2>1, <2>2, <2>4, <2>5
<1>5. CASE GrantGives
  <2>1. Strays = {} /\ file = plan /\ file # None /\ ~HasSession
    BY <1>5, Records DEF GrantGives, Placed
  <2>2. Strays' \subseteq {plan.user} /\ (plan.wasAdmin => Strays' = {})
    BY <1>5, <2>1 DEF GrantGives
  <2>3. plan \in Session /\ plan.wasAdmin \in BOOLEAN
    BY <1>5 DEF GrantGives, Placed, Session
  <2> QED
    BY <1>5, <2>1, <2>2, <2>3 DEF GrantGives
<1>6. CASE GrantFails
  <2>1. Strays = {} /\ ~HasSession
    BY <1>6 DEF GrantFails, Placed
  <2>2. Strays' = {}
    BY <1>6, <2>1 DEF GrantFails
  <2> QED
    BY <1>6, <2>1, <2>2 DEF GrantFails
<1>7. CASE GrantReports
  <2>1. file = plan /\ mem' = plan /\ plan.user \in User /\ pc' = "idle"
    BY <1>7 DEF GrantReports, Placed, Session
  <2>2. plan.wasAdmin => Strays = {}
    BY <1>7 DEF GrantReports
  <2>3. UNCHANGED <<admin, excused, file>>
    BY <1>7 DEF GrantReports
  <2> QED
    BY <2>1, <2>2, <2>3
<1>8. CASE RevokeTakes
  <2>1. HasSession /\ up
    BY <1>8 DEF RevokeTakes, Placed
  <2>2. Strays \subseteq {mem.user}
    BY <2>1
  <2>3. Strays' = {}
    BY <1>8, <2>1, <2>2 DEF RevokeTakes
  <2> QED
    BY <1>8, <2>1, <2>3 DEF RevokeTakes
<1>9. CASE EmitFinalWindow
  BY <1>9 DEF EmitFinalWindow
<1>10. CASE RevokeClears
  <2>1. mem'.user = Nobody
    BY <1>10 DEF RevokeClears, Fresh
  <2>2. Strays' = {}
    BY <1>10 DEF RevokeClears
  <2> QED
    BY <1>10, <2>1, <2>2 DEF RevokeClears
<1>11. CASE RevokeReports
  <2>1. ~HasSession /\ Strays = {}
    BY <1>11 DEF RevokeReports, Placed
  <2>2. pc' \in {"fetch", "grant"}
    BY <1>11 DEF RevokeReports, TypeOK
  <2> QED
    BY <1>11, <2>1, <2>2 DEF RevokeReports
<1>12. CASE Crash
  BY <1>12 DEF Crash
<1>13. CASE Restart
  <2>1. mem' = IF file # None THEN file ELSE Fresh
    BY <1>13 DEF Restart, Restore
  <2>2. pc = "idle" /\ Strays' = Strays /\ file' = file
    BY <1>13 DEF Restart, Placed
  <2>3. file = None => Strays = {}
    OBVIOUS
  <2>4. file # None => file.user # Nobody
    BY DEF TypeOK, Session
  <2> QED
    BY <1>13, <2>1, <2>2, <2>3, <2>4 DEF Restart
<1>14. CASE RestartBlind
  <2>1. Strays' = {}
    BY <1>14 DEF RestartBlind
  <2> QED
    BY <1>14, <2>1 DEF RestartBlind, Placed
<1> QED
  BY <1>1, <1>2, <1>3, <1>4, <1>5, <1>6, <1>7, <1>8, <1>9, <1>10, <1>11, <1>12, <1>13, <1>14 DEF Agent

-----------------------------------------------------------------------------
(* The invariant holds in every reachable state.                           *)
THEOREM Invariant == Spec => []Inv
<1>1. Inv /\ [Next]_vars => Inv'
  <2> SUFFICES ASSUME Inv, [Next]_vars PROVE Inv'
    OBVIOUS
  <2>1. TypeOK'
    BY TypeStep DEF Inv
  <2>2. CASE UNCHANGED vars
    <3>1. UNCHANGED <<admin, console, file, procVars, excused, forgot>>
      BY <2>2 DEF vars, history
    <3> QED
      BY <2>1, <3>1, Untouched DEF Inv
  <2>3. CASE Rows
    <3>1. UNCHANGED <<admin, console, file, procVars, excused, forgot>>
      BY <2>3, RowsKeep DEF Inv
    <3> QED
      BY <2>1, <3>1, Untouched DEF Inv
  <2>4. CASE Agent
    BY <2>1, <2>4, PlacedStep, OwnStep, NotedStep DEF Inv
  <2> QED
    BY <2>2, <2>3, <2>4, Split
<1> QED
  BY InitInv, <1>1, PTL DEF Spec

(* Every variable keeps its type, whatever the accounts and the bounds.    *)
THEOREM TypeCorrect == Spec => []TypeOK
  BY Invariant, PTL DEF Inv

(* The agent never removes an administrator in his own right, unless a     *)
(* window wiped what the session file knew of him.                         *)
THEOREM OwnRightsKept == Spec => []NativeKept
  BY Invariant, PTL DEF Inv, OwnKnown

(* With a session store, rights the agent gave and has not given up on are *)
(* in the file, as rights to be taken away, at every step.                 *)
THEOREM NoneStray == Spec => []NoStrayRights
<1>1. Inv => NoStrayRights
  BY DEF Inv, Noted, NoStrayRights
<1> QED
  BY <1>1, Invariant, PTL

(* Both together: the agent takes away what it gave, and nothing else.     *)
THEOREM OnlyOwnGrants == Spec => []RightsAreOwned
  BY OwnRightsKept, NoneStray, PTL DEF RightsAreOwned
=============================================================================
