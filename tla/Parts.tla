-------------------------------- MODULE Parts --------------------------------
(***************************************************************************)
(* The components that neither share state with each other nor with the    *)
(* modules of the other runs, as one specification: the initial state      *)
(* chooses the part, which then moves alone.                               *)
(*                                                                         *)
(* The audit log is the part whose variables are the extended module's own.*)
(* The others take theirs by name; a name several of them have is one      *)
(* variable here, since one part moves at most, and what a part does not   *)
(* have is None.  A property of a part is asked where that part is the     *)
(* one; those of the audit log hold where the log does not move.           *)
(***************************************************************************)
EXTENDS AuditTrail

CONSTANTS
  Absent, Nobody,      \* not installed, no one
  MaxFailures, MaxErrors, MaxCrashes, \* bounds: faults of one part, restarts
  \* AdminEvidence
  SoftwareKey, NameOf, SoftwareVersion, Service, Fact, Installed, RunningService,
  MaxWindowChanges, MaxAdminSessionSeqJump, MaxMachineEdits, MaxWindows,
  \* Enrollment
  Machine, MaxDevices, MaxMade, MaxTokens, MaxEnrolls, MaxUses,
  \* LoginSessions
  Req, Tenant, Admin, RequireMFA, MaxFails, MaxSessions, MaxSecrets, MaxNow,
  MaxUserRows, MaxInvites, PerSecret, Scopes,
  \* ScriptRuns and ConfigApply
  Policy, Script, MaxPolicyEdits, MaxRuns, Files, Contents, MaxIds, MaxCalls,
  \* SelfUpdate
  MaxVersion, MaxPublished, MaxHand,
  \* Removal
  Record, MaxTasks, MaxChanges,
  \* Alerts
  After, Repeat, MinSeverity, Unreachable, Cooldown, Levels, MaxAlerts,
  MaxTicks, MaxEvents,
  \* Policies
  ProgramName, Group, OS, Filters, MaxRuleEdits,
  \* LockScreen
  Proc, DesktopSession, Wayland, Password, MaxLocks, MaxActs, Open, Bad,
  \* StateMigration
  QueuedReport, Task, MaxStops

VARIABLES
  part,
  soft, svc, sending, mail, rows, lastSeq, completeness, final, base, facts,
  delta, used, muddled, wfaults,   \* AdminEvidence
  status, fp, token, decision, run, src, dst, conn, stale, waiting, retired,
  forced, newest, older, issued,   \* Enrollment
  use, changed, mfa, admins, invite, reset, limiter, guard, req, made,
  secrets, proven, guesses,   \* LoginSessions
  member, held, results, ready, deferred, version, caller, marks, started,
  unmarked, deleted, byConnect, unstored,   \* ScriptRuns
  release, served, publishing, published, beta, windows, exe, old, floor,
  proc, offer, confirmed, applied, holding, hands, worked, best, botched,   \* SelfUpdate
  device, task, inventory, counted, platform, left, deleter, mode, work,
  found, result, removed, stuck,   \* Removal
  pid, onDisk, list, alerted, loaded, cache, warm, saving, seenFile, blind,
  lastSeen, outboxWasDown, alert, minSeverity, episode, heard, reminded,
  excused,   \* Alerts
  groups, lastHash, report, told, blurred,   \* Policies
  os, lock, handle, requests, logged, active, overlay, locks, acts,   \* LockScreen
  at, moving, todo, stops, queued, sent, resent, done, doubled, missed,   \* StateMigration
  group, ids, plan, switched, quiet,   \* ConfigApply
  answer, assigned, changes, clock, crashes, due, edits, ended, failures,
  file, installed, known, outbox, pc, policy, queue, revoked, row, rules,
  running, runs, script, seen, session, step, up   \* of several

inEvidence == <<soft, svc, sending, mail, rows, lastSeq, completeness, final,
                base, facts, delta, used, muddled, wfaults>>
inEnrollment == <<status, fp, token, decision, run, src, dst, conn, stale,
                  waiting, retired, forced, newest, older, issued>>
inLogin == <<use, changed, mfa, admins, invite, reset, limiter, guard, req,
             made, secrets, proven, guesses>>
inScripts == <<member, held, results, ready, deferred, version, caller, marks,
               started, unmarked, deleted, byConnect, unstored>>
inUpdate == <<release, served, publishing, published, beta, windows, exe, old,
              floor, proc, offer, confirmed, applied, holding, hands, worked,
              best, botched>>
inRemoval == <<device, task, inventory, counted, platform, left, deleter,
               mode, work, found, result, removed, stuck>>
inAlerts == <<pid, onDisk, list, alerted, loaded, cache, warm, saving,
              seenFile, blind, lastSeen, outboxWasDown, alert, minSeverity,
              episode, heard, reminded, excused>>
inPolicies == <<groups, lastHash, report, told, blurred>>
inScreen == <<os, lock, handle, requests, logged, active, overlay, locks, acts>>
inMigration == <<at, moving, todo, stops, queued, sent, resent, done, doubled,
                 missed>>
inApply == <<group, ids, plan, switched, quiet>>
shared == <<answer, assigned, changes, clock, crashes, due, edits, ended,
            failures, file, installed, known, outbox, pc, policy, queue,
            revoked, row, rules, running, runs, script, seen, session, step,
            up>>
cells == <<inEvidence, inEnrollment, inLogin, inScripts, inUpdate, inRemoval,
          inAlerts, inPolicies, inScreen, inMigration, inApply, shared>>

notEvidence ==
  <<inEnrollment, inLogin, inScripts, inUpdate, inRemoval, inAlerts,
    inPolicies, inScreen, inMigration, inApply, answer, assigned, changes,
    clock, crashes, due, ended, failures, installed, known, outbox, policy,
    queue, revoked, row, rules, running, runs, script, seen, session, step, up>>
notEnrollment ==
  <<inEvidence, inLogin, inScripts, inUpdate, inRemoval, inAlerts, inPolicies,
    inScreen, inMigration, inApply, answer, assigned, changes, clock, crashes,
    due, edits, ended, failures, file, installed, known, outbox, pc, policy,
    queue, row, rules, running, script, seen, session, step, up>>
notLogin ==
  <<inEvidence, inEnrollment, inScripts, inUpdate, inRemoval, inAlerts,
    inPolicies, inScreen, inMigration, inApply, answer, assigned, changes,
    crashes, due, edits, failures, file, installed, known, outbox, pc, policy,
    queue, rules, running, runs, script, seen, step, up>>
notScripts ==
  <<inEvidence, inEnrollment, inLogin, inUpdate, inRemoval, inAlerts,
    inPolicies, inScreen, inMigration, inApply, changes, clock, due, failures,
    installed, outbox, pc, revoked, row, rules, seen, session, step>>
notUpdate ==
  <<inEvidence, inEnrollment, inLogin, inScripts, inRemoval, inAlerts,
    inPolicies, inScreen, inMigration, inApply, answer, assigned, changes,
    clock, crashes, due, edits, ended, file, installed, known, outbox, policy,
    queue, revoked, row, rules, running, runs, script, seen, session, step, up>>
notRemoval ==
  <<inEvidence, inEnrollment, inLogin, inScripts, inUpdate, inAlerts,
    inPolicies, inScreen, inMigration, inApply, answer, assigned, clock,
    crashes, edits, ended, file, known, pc, policy, queue, revoked, row,
    rules, running, runs, script, session, up>>
notAlerts ==
  <<inEvidence, inEnrollment, inLogin, inScripts, inUpdate, inRemoval,
    inPolicies, inScreen, inMigration, inApply, answer, assigned, crashes,
    edits, ended, file, installed, outbox, pc, policy, revoked, row, rules,
    running, runs, script, session, step, up>>
notPolicies ==
  <<inEvidence, inEnrollment, inLogin, inScripts, inUpdate, inRemoval,
    inAlerts, inScreen, inMigration, inApply, assigned, clock, crashes, due,
    ended, known, outbox, pc, policy, queue, revoked, running, runs, script,
    seen, step, up>>
notScreen ==
  <<inEvidence, inEnrollment, inLogin, inScripts, inUpdate, inRemoval,
    inAlerts, inPolicies, inMigration, inApply, answer, assigned, changes,
    clock, due, edits, ended, installed, known, outbox, pc, policy, queue,
    revoked, row, rules, runs, script, seen, session, step>>
notMigration ==
  <<inEvidence, inEnrollment, inLogin, inScripts, inUpdate, inRemoval,
    inAlerts, inPolicies, inScreen, inApply, answer, assigned, changes, clock,
    crashes, due, edits, ended, file, installed, known, pc, policy, queue,
    revoked, row, rules, running, runs, script, session, up>>
notApply ==
  <<inEvidence, inEnrollment, inLogin, inScripts, inUpdate, inRemoval,
    inAlerts, inPolicies, inScreen, inMigration, answer, changes, clock,
    crashes, due, ended, installed, outbox, queue, revoked, row, running,
    runs, seen, session, step, up>>

NoEvidence ==
  soft = None /\ svc = None /\ sending = None /\ mail = None /\ rows = None
  /\ lastSeq = None /\ completeness = None /\ final = None /\ base = None
  /\ facts = None /\ delta = None /\ used = None /\ muddled = None
  /\ wfaults = None
NoEnrollment ==
  status = None /\ fp = None /\ token = None /\ decision = None
  /\ run = None /\ src = None /\ dst = None /\ conn = None /\ stale = None
  /\ waiting = None /\ retired = None /\ forced = None /\ newest = None
  /\ older = None /\ issued = None
NoLogin ==
  use = None /\ changed = None /\ mfa = None /\ admins = None
  /\ invite = None /\ reset = None /\ limiter = None /\ guard = None
  /\ req = None /\ made = None /\ secrets = None /\ proven = None
  /\ guesses = None
NoScripts ==
  member = None /\ held = None /\ results = None /\ ready = None
  /\ deferred = None /\ version = None /\ caller = None /\ marks = None
  /\ started = None /\ unmarked = None /\ deleted = None /\ byConnect = None
  /\ unstored = None
NoUpdate ==
  release = None /\ served = None /\ publishing = None /\ published = None
  /\ beta = None /\ windows = None /\ exe = None /\ old = None /\ floor = None
  /\ proc = None /\ offer = None /\ confirmed = None /\ applied = None
  /\ holding = None /\ hands = None /\ worked = None /\ best = None
  /\ botched = None
NoRemoval ==
  device = None /\ task = None /\ inventory = None /\ counted = None
  /\ platform = None /\ left = None /\ deleter = None /\ mode = None
  /\ work = None /\ found = None /\ result = None /\ removed = None
  /\ stuck = None
NoAlerts ==
  pid = None /\ onDisk = None /\ list = None /\ alerted = None
  /\ loaded = None /\ cache = None /\ warm = None /\ saving = None
  /\ seenFile = None /\ blind = None /\ lastSeen = None
  /\ outboxWasDown = None /\ alert = None /\ minSeverity = None
  /\ episode = None /\ heard = None /\ reminded = None /\ excused = None
NoPolicies ==
  groups = None /\ lastHash = None /\ report = None /\ told = None
  /\ blurred = None
NoScreen ==
  os = None /\ lock = None /\ handle = None /\ requests = None
  /\ logged = None /\ active = None /\ overlay = None /\ locks = None
  /\ acts = None
NoMigration ==
  at = None /\ moving = None /\ todo = None /\ stops = None
  /\ queued = None /\ sent = None /\ resent = None /\ done = None
  /\ doubled = None /\ missed = None
NoApply ==
  group = None /\ ids = None /\ plan = None /\ switched = None /\ quiet = None

OnlyEvidence ==
  NoEnrollment /\ NoLogin /\ NoScripts /\ NoUpdate /\ NoRemoval /\ NoAlerts
  /\ NoPolicies /\ NoScreen /\ NoMigration /\ NoApply /\ answer = None
  /\ assigned = None /\ changes = None /\ clock = None /\ crashes = None
  /\ due = None /\ ended = None /\ failures = None /\ installed = None
  /\ known = None /\ outbox = None /\ policy = None /\ queue = None
  /\ revoked = None /\ row = None /\ rules = None /\ running = None
  /\ runs = None /\ script = None /\ seen = None /\ session = None
  /\ step = None /\ up = None
OnlyEnrollment ==
  NoEvidence /\ NoLogin /\ NoScripts /\ NoUpdate /\ NoRemoval /\ NoAlerts
  /\ NoPolicies /\ NoScreen /\ NoMigration /\ NoApply /\ answer = None
  /\ assigned = None /\ changes = None /\ clock = None /\ crashes = None
  /\ due = None /\ edits = None /\ ended = None /\ failures = None
  /\ file = None /\ installed = None /\ known = None /\ outbox = None
  /\ pc = None /\ policy = None /\ queue = None /\ row = None /\ rules = None
  /\ running = None /\ script = None /\ seen = None /\ session = None
  /\ step = None /\ up = None
OnlyLogin ==
  NoEvidence /\ NoEnrollment /\ NoScripts /\ NoUpdate /\ NoRemoval
  /\ NoAlerts /\ NoPolicies /\ NoScreen /\ NoMigration /\ NoApply
  /\ answer = None /\ assigned = None /\ changes = None /\ crashes = None
  /\ due = None /\ edits = None /\ failures = None /\ file = None
  /\ installed = None /\ known = None /\ outbox = None /\ pc = None
  /\ policy = None /\ queue = None /\ rules = None /\ running = None
  /\ runs = None /\ script = None /\ seen = None /\ step = None /\ up = None
OnlyScripts ==
  NoEvidence /\ NoEnrollment /\ NoLogin /\ NoUpdate /\ NoRemoval
  /\ NoAlerts /\ NoPolicies /\ NoScreen /\ NoMigration /\ NoApply
  /\ changes = None /\ clock = None /\ due = None /\ failures = None
  /\ installed = None /\ outbox = None /\ pc = None /\ revoked = None
  /\ row = None /\ rules = None /\ seen = None /\ session = None /\ step = None
OnlyUpdate ==
  NoEvidence /\ NoEnrollment /\ NoLogin /\ NoScripts /\ NoRemoval
  /\ NoAlerts /\ NoPolicies /\ NoScreen /\ NoMigration /\ NoApply
  /\ answer = None /\ assigned = None /\ changes = None /\ clock = None
  /\ crashes = None /\ due = None /\ edits = None /\ ended = None
  /\ file = None /\ installed = None /\ known = None /\ outbox = None
  /\ policy = None /\ queue = None /\ revoked = None /\ row = None
  /\ rules = None /\ running = None /\ runs = None /\ script = None
  /\ seen = None /\ session = None /\ step = None /\ up = None
OnlyRemoval ==
  NoEvidence /\ NoEnrollment /\ NoLogin /\ NoScripts /\ NoUpdate
  /\ NoAlerts /\ NoPolicies /\ NoScreen /\ NoMigration /\ NoApply
  /\ answer = None /\ assigned = None /\ clock = None /\ crashes = None
  /\ edits = None /\ ended = None /\ file = None /\ known = None /\ pc = None
  /\ policy = None /\ queue = None /\ revoked = None /\ row = None
  /\ rules = None /\ running = None /\ runs = None /\ script = None
  /\ session = None /\ up = None
OnlyAlerts ==
  NoEvidence /\ NoEnrollment /\ NoLogin /\ NoScripts /\ NoUpdate
  /\ NoRemoval /\ NoPolicies /\ NoScreen /\ NoMigration /\ NoApply
  /\ answer = None /\ assigned = None /\ crashes = None /\ edits = None
  /\ ended = None /\ file = None /\ installed = None /\ outbox = None
  /\ pc = None /\ policy = None /\ revoked = None /\ row = None
  /\ rules = None /\ running = None /\ runs = None /\ script = None
  /\ session = None /\ step = None /\ up = None
OnlyPolicies ==
  NoEvidence /\ NoEnrollment /\ NoLogin /\ NoScripts /\ NoUpdate
  /\ NoRemoval /\ NoAlerts /\ NoScreen /\ NoMigration /\ NoApply
  /\ assigned = None /\ clock = None /\ crashes = None /\ due = None
  /\ ended = None /\ known = None /\ outbox = None /\ pc = None
  /\ policy = None /\ queue = None /\ revoked = None /\ running = None
  /\ runs = None /\ script = None /\ seen = None /\ step = None /\ up = None
OnlyScreen ==
  NoEvidence /\ NoEnrollment /\ NoLogin /\ NoScripts /\ NoUpdate
  /\ NoRemoval /\ NoAlerts /\ NoPolicies /\ NoMigration /\ NoApply
  /\ answer = None /\ assigned = None /\ changes = None /\ clock = None
  /\ due = None /\ edits = None /\ ended = None /\ installed = None
  /\ known = None /\ outbox = None /\ pc = None /\ policy = None
  /\ queue = None /\ revoked = None /\ row = None /\ rules = None
  /\ runs = None /\ script = None /\ seen = None /\ session = None /\ step = None
OnlyMigration ==
  NoEvidence /\ NoEnrollment /\ NoLogin /\ NoScripts /\ NoUpdate
  /\ NoRemoval /\ NoAlerts /\ NoPolicies /\ NoScreen /\ NoApply
  /\ answer = None /\ assigned = None /\ changes = None /\ clock = None
  /\ crashes = None /\ due = None /\ edits = None /\ ended = None
  /\ file = None /\ installed = None /\ known = None /\ pc = None
  /\ policy = None /\ queue = None /\ revoked = None /\ row = None
  /\ rules = None /\ running = None /\ runs = None /\ script = None
  /\ session = None /\ up = None
OnlyApply ==
  NoEvidence /\ NoEnrollment /\ NoLogin /\ NoScripts /\ NoUpdate
  /\ NoRemoval /\ NoAlerts /\ NoPolicies /\ NoScreen /\ NoMigration
  /\ answer = None /\ changes = None /\ clock = None /\ crashes = None
  /\ due = None /\ ended = None /\ installed = None /\ outbox = None
  /\ queue = None /\ revoked = None /\ row = None /\ running = None
  /\ runs = None /\ seen = None /\ session = None /\ step = None /\ up = None
OnlyAudit ==
  NoEvidence /\ NoEnrollment /\ NoLogin /\ NoScripts /\ NoUpdate
  /\ NoRemoval /\ NoAlerts /\ NoPolicies /\ NoScreen /\ NoMigration /\ NoApply
  /\ answer = None /\ assigned = None /\ changes = None /\ clock = None
  /\ crashes = None /\ due = None /\ edits = None /\ ended = None
  /\ failures = None /\ file = None /\ installed = None /\ known = None
  /\ outbox = None /\ pc = None /\ policy = None /\ queue = None
  /\ revoked = None /\ row = None /\ rules = None /\ running = None
  /\ runs = None /\ script = None /\ seen = None /\ session = None
  /\ step = None /\ up = None

-----------------------------------------------------------------------------
(* The parts.                                                              *)

Evidence == INSTANCE AdminEvidence WITH
  Software <- SoftwareKey, Version <- SoftwareVersion, Running <- RunningService,
  MaxEdits <- MaxMachineEdits, MaxFaults <- MaxFailures

Enroll == INSTANCE Enrollment WITH MaxRuns <- MaxEnrolls, NoOne <- None

Login == INSTANCE LoginSessions WITH MaxRows <- MaxUserRows, now <- clock

Scripts == INSTANCE ScriptRuns WITH MaxEdits <- MaxPolicyEdits, Nothing <- None

Update == INSTANCE SelfUpdate WITH
  MaxFaults <- MaxFailures, Gone <- None, faults <- failures

Remove == INSTANCE Removal WITH MaxFaults <- MaxErrors, faults <- failures

Alert == INSTANCE Alerts WITH
  MaxTime <- MaxTicks, MaxChanges <- MaxEvents, MaxFaults <- MaxFailures,
  now <- clock, faults <- failures

Listing == INSTANCE Policies WITH
  Name <- ProgramName, MaxEdits <- MaxRuleEdits, MaxFaults <- MaxFailures,
  faults <- failures

Screen == INSTANCE LockScreen WITH
  Session <- DesktopSession, MaxFaults <- MaxFailures, faults <- failures

Migrate == INSTANCE StateMigration WITH
  Record <- QueuedReport, MaxFaults <- MaxErrors, faults <- failures

Apply == INSTANCE ConfigApply WITH
  Software <- ProgramName, MaxEdits <- MaxCalls, MaxFaults <- MaxFailures,
  faults <- failures

-----------------------------------------------------------------------------
(* What the values of the constants may not be, part by part.              *)
ASSUME EvidenceAssumption ==
  /\ MaxWindows \in Nat
  /\ Installed \in [SoftwareKey -> SoftwareVersion \cup {Absent}]
  /\ RunningService \in [Service -> Fact \cup {Absent}]
ASSUME ApplyAssumption ==
  /\ MaxIds \in Nat /\ MaxCalls \in Nat /\ Files \subseteq Apply!File
  /\ Script \cap Policy = {} /\ Script \cap Group = {} /\ Policy \cap Group = {}
  /\ None \notin Apply!ScriptRow \cup Apply!PolicyRow \cup Apply!GroupRow
ASSUME UpdateAssumption ==
  /\ MaxVersion \in Nat \ {0} /\ MaxPublished \in Nat /\ MaxHand \in Nat
  /\ None \notin Update!File
ASSUME EnrollAssumption ==
  /\ MaxDevices \in Nat /\ MaxMade \in 0..MaxDevices /\ MaxTokens \in Nat
  /\ MaxEnrolls \in Nat /\ MaxUses \in Nat
ASSUME LoginAssumption ==
  /\ MaxNow \in Nat /\ MaxSessions \in Nat /\ MaxSecrets \in Nat
  /\ MaxUserRows \in Nat \ {0} /\ MaxFails \in Nat \ {0}
  /\ IsFiniteSet(Req) /\ Nobody \notin Req /\ Nobody \notin Tenant
  /\ Scopes \subseteq SUBSET Login!Kinds
ASSUME ScriptsAssumption ==
  MaxPolicyEdits \in Nat /\ MaxRuns \in Nat /\ MaxCrashes \in Nat
ASSUME AlertAssumption ==
  /\ MaxAlerts \in Nat /\ MaxTicks \in Nat /\ MaxEvents \in Nat /\ MaxFailures \in Nat
  /\ Levels \subseteq Alert!Severity \cup {""} /\ None \notin Alert!Alert
ASSUME ListingAssumption ==
  /\ MaxRuleEdits \in Nat /\ MaxChanges \in Nat /\ MaxFailures \in Nat
  /\ Filters \subseteq SUBSET Listing!Platform
  /\ None \notin Listing!Row /\ None \notin Listing!Version
ASSUME RemovalAssumption ==
  /\ MaxTasks \in Nat /\ MaxErrors \in Nat /\ MaxChanges \in Nat
  /\ Record \subseteq Remove!AnyRecord /\ None \notin Remove!Row
ASSUME ScreenAssumption == None \notin Proc /\ MaxLocks \in Nat /\ MaxActs \in Nat
ASSUME MigrateAssumption ==
  /\ None \notin QueuedReport /\ None # "seen" /\ \A s \in SUBSET Task : s # None
  /\ MaxStops \in Nat

PartInit ==
  \/ part = "evidence"   /\ Init /\ Evidence!Init /\ OnlyEvidence
  \/ part = "enrollment" /\ Init /\ Enroll!Init /\ OnlyEnrollment
  \/ part = "login"      /\ Init /\ Login!Init /\ OnlyLogin
  \/ part = "scripts"    /\ Init /\ Scripts!Init /\ OnlyScripts
  \/ part = "update"     /\ Init /\ Update!Init /\ OnlyUpdate
  \/ part = "removal"    /\ Init /\ Remove!Init /\ OnlyRemoval
  \/ part = "alerts"     /\ Init /\ Alert!Init /\ OnlyAlerts
  \/ part = "audit"      /\ Init /\ OnlyAudit
  \/ part = "policies"   /\ Init /\ Listing!Init /\ OnlyPolicies
  \/ part = "screen"     /\ Init /\ Screen!Init /\ OnlyScreen
  \/ part = "migration"  /\ Init /\ Migrate!Init /\ OnlyMigration
  \/ part = "apply"      /\ Init /\ Apply!Init /\ OnlyApply

PartNext ==
  \/ part = "evidence"   /\ Evidence!Next /\ UNCHANGED <<part, vars, notEvidence>>
  \/ part = "enrollment" /\ Enroll!Next /\ UNCHANGED <<part, vars, notEnrollment>>
  \/ part = "login"      /\ Login!Next /\ UNCHANGED <<part, vars, notLogin>>
  \/ part = "scripts"    /\ Scripts!Next /\ UNCHANGED <<part, vars, notScripts>>
  \/ part = "update"     /\ Update!Next /\ UNCHANGED <<part, vars, notUpdate>>
  \/ part = "removal"    /\ Remove!Next /\ UNCHANGED <<part, vars, notRemoval>>
  \/ part = "alerts"     /\ Alert!Next /\ UNCHANGED <<part, vars, notAlerts>>
  \/ part = "audit"      /\ Next /\ UNCHANGED <<part, cells>>
  \/ part = "policies"   /\ Listing!Next /\ UNCHANGED <<part, vars, notPolicies>>
  \/ part = "screen"     /\ Screen!Next /\ UNCHANGED <<part, vars, notScreen>>
  \/ part = "migration"  /\ Migrate!Next /\ UNCHANGED <<part, vars, notMigration>>
  \/ part = "apply"      /\ Apply!Next /\ UNCHANGED <<part, vars, notApply>>

PartSpec == PartInit /\ [][PartNext]_<<part, vars, cells>>

-----------------------------------------------------------------------------
(* The properties of the parts.                                            *)

(* Every variable of a part has its type.                                  *)
PartsTypeOK ==
  /\ part = "evidence"   => Evidence!TypeOK
  /\ part = "enrollment" => Enroll!TypeOK
  /\ part = "login"      => Login!TypeOK
  /\ part = "scripts"    => Scripts!TypeOK
  /\ part = "update"     => Update!TypeOK
  /\ part = "removal"    => Remove!TypeOK
  /\ part = "alerts"     => Alert!TypeOK
  /\ part = "audit"      => TypeOK
  /\ part = "policies"   => Listing!TypeOK
  /\ part = "screen"     => Screen!TypeOK
  /\ part = "migration"  => Migrate!TypeOK
  /\ part = "apply"      => Apply!TypeOK

(* AdminEvidence: a row that blames someone tells a change the machine had,*)
(* whatever could not be read, and a final window that reads complete is   *)
(* exactly what changed.                                                   *)
EvidenceIsTrue == part = "evidence" => Evidence!EvidenceIsTrue

(* Enrollment: a device that was refused or retired is not let in again, an*)
(* older token loses, and an identity once written is found again.         *)
IdentitiesAreSound == part = "enrollment" => Enroll!IdentitiesAreSound

(* LoginSessions: a session signed out, replaced, older than the password  *)
(* or of a deleted user is never accepted again.                           *)
EndedForGood == part = "login" => Login!EndedForGood

(* LoginSessions: the stored second factor is one that was proven,         *)
(* deletions at once leave an administrator, and guesses are limited.      *)
HandlersDoNotRace == part = "login" => Login!HandlersDoNotRace

(* ScriptRuns: an on_connect version starts once at most, over reconnects  *)
(* and restarts, and a policy never runs twice at a time.                  *)
RunsOnce == part = "scripts" => Scripts!RunsOnce

(* ScriptRuns: a result the queue took is there or with the server until   *)
(* its policy is deleted, but for one acknowledged over a failed COMMIT.   *)
ResultKept == part = "scripts" => Scripts!ResultKept

(* SelfUpdate: after an update that does not start a file that has worked  *)
(* is there, and the floor is a version that ran here.                     *)
Recoverable == part = "update" => Update!Recoverable

(* SelfUpdate: the updater takes only what is newer than all it has        *)
(* confirmed.                                                              *)
NoDowngrade == [][part = "update" => Update!NeverBack]_<<part, cells>>

(* Removal: only the record the operator chose, of the version he saw, is  *)
(* taken off, and never the agent.                                         *)
OnlyTheTarget == part = "removal" => Remove!OnlyTheTarget

(* Removal: a teardown that came to its end has removed all it could.      *)
TornDownWhole == part = "removal" => Remove!TornDownWhole

(* Alerts: forbidden software that counts as reported is reported, and an  *)
(* alert is escalated once at most.                                        *)
AlertsAreTold == part = "alerts" => Alert!AlertsAreTold

(* Policies: the agent's list is the server's last answer, and what the    *)
(* console counts as a breach is what the agent would count.               *)
EndsAgree == part = "policies" => Listing!EndsAgree

(* LockScreen: every overlay of this life of the service is the one it     *)
(* holds, and none is left once the locker is down.                        *)
OverlaysAreKnown == part = "screen" => Screen!OverlaysAreKnown

(* StateMigration: the move of the state loses no report, sends none twice *)
(* and runs no task again, over stops and faults.                          *)
StateSurvives == part = "migration" => Migrate!StateSurvives

(* ConfigApply: an apply that says it is through leaves the server as the  *)
(* file says, but for the policies it was to switch on.                    *)
Applied == part = "apply" => Apply!Applied
==============================================================================
