# RoutineOps in TLA+

RoutineOps manages a fleet of Windows, macOS and Linux machines. An agent on each
machine keeps a gRPC stream to one Go server; the server has PostgreSQL for state and
Redis (asynq) for a delivery queue. This directory models the protocols by which an
operator's command reaches a machine and the machine's answer comes back, and the protocols
of the features built on them; it checks them with TLC on small instances and proves the
safety of all sixteen component modules with TLAPS for all instances.

File names below are relative to `src/`.

## 1. Inventory

| Component | State it keeps | Operations | Hard behaviour | What makes it correct |
|---|---|---|---|---|
| Durable report queue `internal/agent/outbox` | a directory of files, `q.seq`, the health mark `q.ioErr` | `Enqueue`, `flush` (ticker, wake, exit), `enforceLimit`, `enforceAge` | enqueueing goroutines and the drain; failed disk operations; lost replies; restarts, power loss; clock set back; full queue | an accepted report is not lost without a reason; FIFO; loss-sensitive reports are sacrificed last; the limit holds; the mark tells of the disk; everything drains |
| Executor and seen-set `internal/agent/command` | `inflight`, semaphore, seen-set in memory and file | `Submit`, `handle`, `deliver`, `Shutdown` | repeated deliveries, a crash between marking and running, graceful stop with tasks waiting | each task is executed at most once; only what is marked is acknowledged |
| Delivery worker `internal/server/worker`, `registry` | asynq jobs, one channel of 16 tasks per connected device | `Enqueue`, `ProcessTask`, `Register`, `Send` | device reconnects while a job gives up, retries run out, channel lost with its connection | no row stays `pending` for good |
| Gateway `internal/server/gateway` | streams; its state is in the database | `Connect`, `AckTaskReceived`, `ReportTaskResult`, `ReportLockStatus`, `FetchLockStatus`, further reports | late, repeated and reordered calls; reads and writes in several statements | a late report changes nothing it is not about |
| Storage `internal/server/storage` | `tasks`, lock columns of `devices`, and more | single statements, sweeps | sweeps race with late results | rows end in a final status |
| API `internal/server/api` | none of its own for tasks and locks | `createTask`, `lockDevice`, `unlockDevice` | a handler dies between the push task and the desired state | push and pull agree in the end |
| Lock manager and reconciler `internal/agent/lock` | `lock.json` (user-writable), a protected file with the last lock taken off, memory | `Lock`, `Unlock`, `verify`, `Load`, the tamper watch, `tick` | push and pull paths, the password on the screen, edits of the file, restarts, failed writes | device and desired state agree in the end; a lock taken off with its password is not put back; memory cannot be forged |
| Stream and wiring `cmd/agent`, `heartbeat`, `transport` | the connection | reconnect, `dispatchReport`, exit | half-open links | part of the above |
| Admin access `internal/agent/admin`, `storage/admin_session.go` | the group of the OS, `session.json`, requests on the server | `poll`, `grant`, `revoke`, `restore`, decisions, expiry, gap sweep | a crash or a failure between any two of file, group and report | temporary rights end; nobody's own rights are taken; a session is accounted for |
| Evidence `admin/window.go`, `diff.go` | snapshot at the grant, window numbers, rows on the server | `BuildWindow`, `emitWindow`, `StoreAdminSessionChanges` | snapshots that fail in part, windows lost, repeated, overtaken | nobody is blamed for what did not happen; "complete" is complete |
| Enrollment `internal/agent/enroll`, `storage/enrollment.go` | tokens with uses, devices with a status, key and certificate | begin, sign, finalize, approve, block, delete | two machines and one token, a lost answer, a crash between writes | a refused device stays out; an older token loses; an identity is found again |
| Login, sessions, MFA `internal/server/api/auth.go`, `lockout.go`, `mfa.go` | users, blocklist, limiter, second factor | login, switch, logout, change, reset, enroll, invite, delete | handlers of one account at once, the second a token is issued in | an ended session stays ended; the factor is one the user proved |
| Script policies `internal/agent/scripts` | versions, the on_connect set, runs, results | poll, triggers, `launch`, `ReportScriptResult` | reconnects, restarts, edits, lost answers | a version is started once; a result is kept |
| Self-update `internal/agent/selfupdate`, `releases.go` | executable, `.old`, floor, channels | publish, check, replace, confirm | death between renames, a version that does not start | the machine can be brought back; never a step back |
| Reboot, uninstall, decommission | tasks, what is installed, the agent's own parts | `resolve`, `execute`, teardown | a stale inventory, a teardown that stops itself | only the chosen record; torn down whole |
| Alerts `security/monitor.go`, `notifier`, sweeps | episodes, queue, alerts, escalations | `scan`, `CreateAlert`, `TakeEscalations` | restarts, failed saves and COMMITs, duplicates | a breach is told, once |
| Audit log `storage/audit.go` | rows, anchors, archive files | append, anchor, archive, purge, verify | concurrent transactions, failures between file and DELETE | an untouched log is found intact; nothing is deleted unarchived |
| Policies and inventory `policy/sync.go`, `inventory.go` | rules, groups, the agent's file, last snapshot sent | edits, fetch, snapshot, compliance | lost answers, a row deleted and made again, scope decided twice | both ends count the same breaches |
| Lock screens `lock/locker_session_*.go`, `lockui` | one process per service, requests | `Show`, `Hide`, ticks, watchdog | goroutines, sessions that change, crashes | no overlay nobody holds |
| State migration `cmd/agent/migrate_state.go` | the queue and the seen-set, in two places | `migrateFile`, `migrateDir` | stops and failing calls in between | nothing lost, sent twice or run again |
| `routineops apply` `cmd/routineops` | scripts, policies, groups, rules | plan, calls | an apply that stops half way, other writers | what it says it reached is reached |
| Others | | | | platform I/O, configuration, development tools: see `PROJECT.json` |

How they interact, for one command: the API inserts a row and enqueues a job; the worker
reads the row and hands the task to the registry channel; `Connect` sends it; `Submit`
starts a goroutine that takes a slot, dials, marks the seen-set, acknowledges (the row
becomes `acked`), runs, and puts the result in the outbox; the outbox calls
`ReportTaskResult` until it succeeds. A lock goes the same way and is, besides, a desired
state which the agent fetches every 30 seconds.

## 2. Modules

| Module | What it is |
|---|---|
| `Outbox` | the report queue |
| `TaskDelivery` | the whole way of a task: rows, jobs, connection, executor, seen-set, result |
| `TaskContract` | what that promises, in five abstract variables; `TaskDelivery` implements it |
| `DeviceLock` | the kill switch: operator, gateway, Manager, Reconciler, employee |
| `AdminAccess`, `AdminEvidence` | temporary administrator rights; what is told about a session of them |
| `Enrollment`, `LoginSessions` | how machines, and people, are let in |
| `ScriptRuns`, `SelfUpdate`, `Removal` | what the agent does by itself or by a task: scripts, its own update, reboot, uninstall, decommission |
| `Alerts`, `Policies`, `AuditTrail` | breaches, rules and inventory, the audit log |
| `LockScreen`, `StateMigration` | the overlay of a lock; the move of the agent's state |
| `ConfigApply` | `routineops apply` against the server |
| `Parts` | the twelve modules from `AdminEvidence` to `ConfigApply` as one specification, for one run and for the proofs |
| `MCOutbox`, `MCTaskDelivery`, `MCDeviceLock`, `MCAdminAccess`, `MCConfigApply`, `MCParts` | small sets of values for TLC, symmetry |
| `OutboxProofs`, `TaskDeliveryProofs`, `DeviceLockProofs`, `AdminAccessProofs` | theorems about one module each |
| `AgentProofs` | theorems about `StateMigration`, `LockScreen`, `SelfUpdate`, `ScriptRuns`, `Policies`, `Removal` |
| `ServerProofs` | theorems about `LoginSessions`, `Alerts`, `Enrollment` |
| `ConsoleProofs` | theorems about `AuditTrail`, `AdminEvidence`, `ConfigApply` |
| `PartsProofs` | theorems about `Parts` as a whole, from those of the three modules before |

`PROJECT.json` maps each definition to the lines it stands for. `Outbox` and `TaskDelivery`
are the ground the others stand on: where a report waits in a queue until it is taken, or a
task comes at most once, those modules assume what these two show.

### Outbox

A report is one element of `Msg`, enqueued at most once; its kind matters only as
`Protected` or not (`isEvictableFirst`). `disk`, `ts` and `seq` are the directory and the
file names; `mu` is `q.mu`, which names the `Enqueue` in progress or `flush`; `batch` and
`sent` are local variables of `flush`. An `Enqueue` is `EnqueueWrite` or `EnqueueFail`,
then `EnqueueWithinLimit` or `EnqueueEvict`; it is split in two so that the mutex is seen
to matter. `flush` is `FlushStart` (retention, then listing) and one action per file and
outcome. Each file of a pass is dispatched by `dispatchReport`, whose server side is a
choice: taken, refused for good, or an error with or without effect. `Crash` forgets
memory, may happen between any two steps, and as a power loss may destroy the content of
any file, none being fsynced. `taken`, `lost`, `ahead` and `skipped` are history: nothing
in the code reads them.

The clock is read with the mutex just taken, so `Tick` is enabled when it is free. It may
step back. A record is written with a name that is not in use: the nanosecond clock and
the counter do not both repeat (the guard of `EnqueueWrite`).

### TaskDelivery

`status` is the column of `tasks`, with 'completed' and 'failed' reported by the agent
folded into `reported`, and 'failed' set by the sweep as `timedout`. `jobs` is a set, since
two jobs of one task with the same retry count and position behave alike. `ProcessTask`
is cut where it can be overtaken: `JobRead` reads the row, the next step asks the
registry, and `JobGiveUp`/`JobFail` ask it again. `chan` is the registry channel and what
is in flight on the stream; it is lost with the registration. `link` is `dead` when the
peer is gone and the server has not noticed, so that tasks can still be sent into the void.

`work[t]` is where the goroutine of a task stands in `handle`: waiting for a slot, about to
dial (`go`), marked and about to acknowledge (`ack`, or `echo` for a repeated task),
running, delivering the result, or calling directly after the outbox refused. `echoes` are
the goroutines that `Submit` starts for copies of a task in flight. `Gated` tasks need a
slot (scripts and uninstalls); `Silent` ones never report a result (locks).
Cancellation at the end of the grace period is not a step of its own: a cancelled task
fails and still reports. The outbox is a set of results that are delivered in any order,
perhaps twice, and perhaps dropped (`OutboxDrops`): an abstraction of `Outbox`, which
says when.

An acknowledgement or a result is executed by the server in the same step in which the
agent makes the call; a call executed later than its deadline on the agent is not
modelled. `AckTask` and `CompleteTask` write their status unconditionally, as the SQL does.

### DeviceLock

The server makes a new password for each lock, so a lock, its hash, its task id and its
`lock_request_id` are one element of `Lock` (`lock.go` itself uses the hash as the identity
of a lock). `request` is the progress of the API handler: the push task first, then the
desired state, perhaps never. `tasks` are push tasks to be executed; they are executed at
most once and in any order, which is what `TaskDelivery` proves. `mail` are reports, out of
the outbox or from a direct call of the executor that may be lost (`Called`), processed in
any order. `ReportUnlocked` and `ClearDesired` are the two statements of the UNLOCKED branch.
The operator's write and the clearing are answered with success though their COMMIT may fail
(`storage/tx.go:183`): a branch of `SetDeviceLockState` and of `ClearDesired` leaves `want` as
it was.

On the agent, `mem`, `file` and `durable` are the Manager's memory and its two files.
An employee who knows a password (that of a lock whose handler is done) may type it:
`ReadPassword`, `ReadHash`, `Verify` and `OnLocalUnlock` are four steps, since the mutex is
not held in between: the request that is reported (`attempt.of`), the hash that is remembered
(`attempt.cur`) and the lock that is taken off may be those of different locks. The employee
may edit `lock.json` into any unlocked state, with any remembered hash; an edit counts as a
fault. The reconciler's tick is `FetchLockStatus`, the suppression checks (`SuppressLock`,
`ChooseLock`) and the application. `released`, `latest` and `unheard` are history: the last
holds the locks an UNLOCKED report was about, or should have been, that was refused by the
outbox, dropped by the gateway, or answered without clearing them.

LOCKED reports never change the desired state of this model while its hash and its status
agree, so an outbox that refuses one is a report that is not processed; `Refused`
therefore speaks of UNLOCKED reports of the password path only.

### AdminAccess and AdminEvidence

A request has a status, a deadline and the two marks `granted` and `captured` (a row's
reported times). `file` is `session.json`, `mem` the Manager's fields, `plan` what a grant has
decided, `pc` where in `grant`, `emitWindow` or `revoke` the poll is: between any two effects
(file, group, report) the process may die, and every call of the system may fail. History:
`excused` are users the code itself gave up on, with an error in its log (a failed `Revoke`, a
failed `Grant` with an effect, an unreadable file); `forgot` those of whom `emitWindow` wiped
the earlier membership; `served`, `recorded` and `untold` are requests, the last those whose
APPROVED report was refused or was answered over a failed COMMIT (`ReportNotCommitted`). In
`AdminEvidence` the machine (`soft`, `svc`) changes while windows are built from snapshots of
which each half may be complete, partial or missing; `facts` are the changes there really
were, `delta` what comparing the end with the grant may find, `muddled` a number used twice or
an older window that came last. A comparison may find several things: of programs that went
and came under one name, `collapseReinstalls` pairs whichever its Go map yields, though a
comment on `sortChanges` promises one order. The pairing is therefore a choice in the model.

### Enrollment and LoginSessions

`Enrollment`: a run of `agent enroll` is a number, which names its key and its certificate;
`src` and `dst` are the directories it writes and the service reads; `run[m].pc` is where
the run and its request stand, each transaction of the server a step; `conn` is the
certificate of the machine's open stream; `BulkNotCommitted` is a bulk enrollment of whose
failed COMMIT nobody hears. `LoginSessions`: a
request `req[r]` goes through its handler step by step (reads, checks, writes apart, as in
the code); `Accepted` is `jwtMiddleware`, `limiter` and `guard` are `loginLimiter` and the
count of guesses at a second factor. Which requests run together is bounded by `Scopes`.

### ScriptRuns, SelfUpdate and Removal

`ScriptRuns`: `known` is what the agent fetched, `marks`/`file` the on_connect set in memory
and on disk, `runs` the goroutines, `queue` what the outbox holds; a result that is
acknowledged and whose COMMIT fails is in `unstored`. `SelfUpdate`: a file is
`<<version, build>>`; `exe` and `old` are what is on the disk, `proc` what runs, `pc` the
step of a check; `worked`, `best` and `botched` are history. `Removal`: a task's row, the
executor's handler step by step, `installed` and `inventory` apart so that they differ, `left`
the parts of the agent a teardown has yet to remove.

### Alerts, Policies and AuditTrail

`Alerts`: the monitor in memory and its file, a queue of reports, the alerts with their
escalations, two server sweeps and the bot; `episode`, `seen`, `heard`, `reminded` are
history. `Policies`: the rules and groups, the agent's policy file, the snapshot last
sent; `told` is the list last answered, `blurred` a snapshot whose fate is unknown to the agent.
`AuditTrail`: transactions with their beginning and the row they hold, the log, the
anchors, the file and the DELETE of a retention as two steps; a row's hash is its number in
the history of insertions, so that nothing depends on the hash function.

### LockScreen, StateMigration and ConfigApply

`LockScreen`: the service's `handle`, the goroutine that waits for each process (`Wait`),
the overlays as the system sees them, whatever life of the service started them.
`StateMigration`: two places, each file copied and then removed, each call of which may
fail; then the agent runs on one of them. `ConfigApply`: a run reads, plans and makes its
calls, while others write. `StepToggle` sets FALSE whatever it was to set, since the CLI
sends `is_active` and the server decodes `active`; `StepLost` is a call that is answered and
whose COMMIT fails. `quiet` says that since the plan nobody else wrote and no COMMIT failed,
`switched` are the policies the plan was to switch on.

## 3. Runs

| Run | Instance | Distinct states | Shows |
|---|---|---|---|
| `outbox_safety` | 2 protected and 1 evictable report, limit 1, age 1, clock 0..2 and back, 2 faults | 6.4 million | type, durability of a nil answer, accounting, order, limit, eviction order, health mark |
| `outbox_live` | the same, no retention, clock 0..1, 1 fault | 0.4 million | `Drains` |
| `task_safety` | 2 scripts, 1 slot, channel of 1, no retries, 1 fault, seen-set file reliable | 2.3 million | type, refinement of `TaskContract` |
| `task_live` | 1 script, 1 retry, 2 faults, lines of the seen-set may be lost | 0.3 million | at most once, acknowledged means marked, `Delivered`, `Resolved` |
| `task_reack` | 1 script, 1 lock, no fault | | violation: finding 1 |
| `lock_live` | three instances: 1 lock, 2 faults; 1 lock, 1 unlock, 1 fault; 2 locks, no fault; an employee with one password | 1.2 million | type, origin of the memory, no re-lock, `Converges` |
| `lock_clear` | 1 lock, 1 unlock, no fault | | violation: finding 2 |
| `lock_silent` | 1 lock, the outbox may refuse, 1 fault | | violation: finding 3 |
| `parts_safety` | the parts below, each alone | 2.6 million | type correctness and the safety of twelve components |
| `admin_live` | 1 request, 2 users, sessions with and without a baseline, 2 faults | 0.4 million | `RightsAreOwned`, `RightsEnd`, `Accountable` |
| `apply_repeats` | 1 name of each kind, the documentation's file, 1 fault | | violation: finding 4 |
| `apply_active` | the same | | violation: finding 5 |

`parts_safety` explores twelve systems that share no state. `Parts` extends `AuditTrail`,
whose variables and properties keep their names, and instantiates the other eleven; its
initial state chooses a part (`part`), which then moves alone, and each property asks about
its own part. A variable name that several parts have is one variable of `Parts`, and what
the chosen part does not have is `None`. `Parts` is also what the theorems of four proof
modules are about, so that TLC checks, and TLAPS proves, the same formulas of the same
specification. `AdminAccess` has a run and a proof module of its own.

| Part | Instance | States | Properties |
|---|---|---|---|
| evidence | 2 keys of one program, 2 services, 3 windows, 1 edit, 1 fault | 43 000 | `EvidenceIsTrue` |
| enrollment | 1 machine, 2 rows, 2 tokens, 1 run of the command | 510 000 | `IdentitiesAreSound` |
| login | 2 requests at once, 2 tenants, 2 sessions, 2 secrets, limit 2 | 368 000 | `EndedForGood`, `HandlersDoNotRace` |
| scripts | 1 policy, 5 edits, 2 runs, 1 restart | 442 000 | `RunsOnce`, `ResultKept` |
| update | 2 versions, 2 publications, 1 file put there by hand, 1 fault | 236 000 | `Recoverable`, `NoDowngrade` |
| removal | 3 records, 1 task, 1 fault, 1 change on the device | 192 000 | `OnlyTheTarget`, `TornDownWhole` |
| alerts | 2 alerts, 3 times, 2 changes, 1 fault | 244 000 | `AlertsAreTold` |
| audit | 2 transactions, 3 rows, 4 days, 1 fault | 289 000 | `ChainIntact`, `NothingLost` |
| policies | 1 name, 1 group, 2 edits, 1 change, 1 fault | 77 000 | `EndsAgree` |
| screen | 2 processes, 2 sessions, 2 locks, 2 acts, 1 fault, 1 crash | 184 000 | `OverlaysAreKnown` |
| migration | 2 records, 2 tasks, 1 fault, 3 stops | 9 000 | `StateSurvives` |
| apply | 1 name of each kind, 3 files, 2 edits of others, 1 fault | 31 000 | `Applied` |

Bounds and why they suffice. A limit of 1 with three reports makes two evictions, of an old
and of the fresh file, with both kinds on each side. A clock of three values lets a file
age, and lets a later report get an earlier name. One slot and a channel of one task are
full with one task, so that the second one waits or is refused. One retry is enough for a
job that is retried and then archived. Two faults allow a crash after a lost call or a
second crash; with one fault, two actors remain enough for every property to be broken by
its mutant. Two locks are what a stale report or memory needs: one it is about and one it is
not. In `lock_live` the three instances share what a run can bear: `EachSpec` starts each with
the faults it may still have. `MaxFaults` counts crashes, failed writes, failed COMMITs and lost
calls together; `runs` is capped
at 2, which tells "once" from "more". In the parts, two of what may meet (requests, tokens,
transactions, processes, versions) and one fault are what the mutants need, each of which
breaks its property within these bounds; every action of every part fires. Five edits are the
four that put a script in use and one that changes it. Symmetry is used in safety runs only,
among reports, scripts or locks that no constant tells apart. `CHECK_DEADLOCK FALSE` is set since every
system here may come to rest: all reports delivered, all tasks closed, and no fault left.

Each property has a mutant, a plausible bug in a mapped definition, that TLC finds:
releasing the mutex before `enforceLimit`, listing before the retention, dropping a record
on an error, evicting by age alone, an off-by-one in the excess, a seen-set kept in memory
only, acknowledging a waiting copy, a sweep over the wrong rows, a LOCKED report that writes
blindly, a memory read from `lock.json`, a memory not reloaded, a revocation that removes
owners too, rights given before the file knows of them, a `.old` file removed too early, a
floor kept in memory only, an audit row written without the lock, an archive that ends a day
early, a `Wait` that forgets a newer overlay's handle, and others. The mutants are
the definitions marked so, next to the ones they replace.

### Fairness

* `Outbox`: weak fairness for the drain (a ticker) and for code that holds the mutex; weak
  fairness for the removal of a torn file; strong fairness for a successful dispatch, since
  the queue asks again and again and each try may fail: the server is assumed to answer
  infinitely often. Nothing is assumed of the callers.
* `TaskDelivery`: weak fairness for the server's tickers, for asynq's workers, for the
  agent's goroutines, for reconnecting and for the service manager's restart. None for
  faults, shutdowns or the operator. Since faults are bounded, the system is calm in the
  end; `Delivered` and `Resolved` say that it has then repaired what they did.
* `DeviceLock`: weak fairness for the second step of a handler that has begun (it goes on or
  dies), the delivery of tasks, that of reports, the Manager's watch with what a password
  request began (`Watch`), the reconciler's tick (`Tick`) and the restart. None for new
  requests of the operator, for what the employee types, or for faults.
* `AdminAccess`: weak fairness for the Manager's ticker and for the rest of what a poll began,
  for the restart, the sweeps and the outbox (`Drains`), and for the passing of deadlines;
  strong fairness for the fetch, which may fail any number of times but not for ever. None
  for people: neither the employee nor the operator need ever act.
* The other modules state no fairness: their properties are safety.

`Resolved` leans on the sweep's timeout, which the model lets fire at any time after the
acknowledgement: results may wait in the outbox for longer than any timeout.

## 4. Findings

1. **A repeated acknowledgement reopens a finished task** (`task_reack`). `AckTask`
   (`internal/server/storage/postgres.go:862`) does not look at the status. Two jobs of one
   task may both read the row while it is pending; the second copy is acknowledged without
   being executed, perhaps after `CompleteTask`. The row is `acked` again and the sweep
   closes it as failed, with "sent no result" in its log, though it has the result.
2. **A report clears a lock it is not about** (`lock_clear`). `ReportLockStatus` compares the
   report with the desired lock and clears it in two statements (`gateway.go:1148`, `1188`). A
   lock set in between is lost on the server, and the agent then takes it off as well.
3. **A refused report is not repeated** (`lock_silent`). `OnLocalUnlock` remembers the lock
   even if the outbox refused the report; the reconciler then returns at its first check
   without a word (`reconcile.go:214-219`), and the retry further down is not reached until the
   agent restarts.
4. **An apply of the documented spelling never comes to rest** (`apply_repeats`). The plan
   compares platforms literally (`cmd/routineops/apply.go:89`), the server stores "Linux"
   whatever it is sent (`scripts_handler.go:159-171`), and `docs/config-as-code.md` demands
   "linux" and says that "Linux" is not taken. Every run updates the script again, which
   gives every policy of the script a new version.
5. **An apply cannot switch a policy on** (`apply_active`). The toggle is sent as
   `{"is_active": ...}` (`cmd/routineops/apply.go:134`, `157`) and decoded from `active`
   (`script_policies_handler.go:211-213`, `226`), so that it sets FALSE whatever was asked, and
   answers 200. The run says that it is through, and `active: true` of the file
   (`docs/config-as-code.md:109`) has no effect on a policy that is off. The test of the plan
   (`apply_test.go:203-204`) looks at the body the CLI sends, and only for `false`.

## 5. What is proved

Every theorem holds for all values of the constants that satisfy the assumptions of the
modules: `OutboxAssumption` (finite set of reports, natural bounds), `TaskAssumption` (kinds
are subsets, capacities are positive), `LockAssumption` (locks, unlocks and "no lock" differ).

**Outbox.** `Inv` adds to `TypeOK` four facts. `Mutex`: an `Enqueue` between its halves holds
the mutex, and its file is on disk; without it another eviction could remove that file,
and `NilIsDurable` fails. `Unwritten`: a report not written yet is nowhere. `Names`: no two
files have the same name, so that the order of names is total. `Pass`: a file the pass has
left behind was taken, given up or skipped, which is why a later file may be delivered.
From `Inv` follow `TypeCorrect`, `NilIsDurable` and `ProtectedYield` (the latter by two
lemmas on `IsVictims`: what is left is exactly the limit, and when a protected victim is
chosen everything left is protected and younger); with one more induction each,
`Accounted`, `Fifo`, `Bounded` (strengthened by the one file an `Enqueue` in progress adds)
and `DiskAlone`.

**TaskDelivery.** `Inv` is `TypeOK`, `Memory` (the seen-set in memory lies between its file
and its file plus the lines it lost), `Marked` (what is past `MarkIfNew`, on the device or
in the outbox, is in the seen-set, and a task about to run has not run), and the two
properties `AtMostOnce` and `AckedMeansStarted`, which are inductive only together with the
others. `Refines` shows that every step maps to a step of `TaskContract` or to a stutter, when
lines are not lost (`LinesGetLost` false); it needs, further, that whatever carries a task
carries one that was created (`Offered`), and that a result exists only for a task that
has run once (`Executed`).

**DeviceLock.** `Inv` is `TypeOK`, `Hashed` (a lock has a hash wherever it is: desired,
fetched, in memory, in the file), `SuppressionIsEarned` and `Remembered` (the lock taken off last with its
password is in the protected file, and in memory while the agent runs). `Remembered` is
what a restart needs: `Load` reads the memory from the protected file. `DesiredHasHash`,
`Earned` and `NeverRelocked` follow.

The theorems about the parts are theorems of `PartSpec` and state the very properties that
`parts_safety` checks. What they ask of the constants are assumptions of `Parts`, one named
for each part that needs any (`UpdateAssumption`, `EnrollAssumption`, `LoginAssumption`,
`ScriptsAssumption`, `AlertAssumption`, `ListingAssumption`, `RemovalAssumption`,
`ScreenAssumption`, `MigrateAssumption`, `EvidenceAssumption`, `ApplyAssumption`), and
`AuditAssumption` in `AuditTrail`, which TLC evaluates: bounds are natural numbers (rows are
kept for a day at least), "none" is not one of the things it is the absence of, a requester or
a tenant is not nobody, the files of an apply are files, and names of scripts, policies and
groups differ. The number of machines, requests, records, policies, groups, programs, services
and devices is left open.

Each of those proofs goes the same way. The type invariant is split into groups of
variables (`...TypesAre`); a lemma says which actions can change what (`...MovesStep`), so
that the steps after it look at a conjunct only under the actions that can disturb it; one
lemma for each conjunct of the invariant says that a step keeps it; `...Step` puts them
together, and `...PartStep` carries a step of `PartSpec` over to a step of the part.

**AdminAccess.** `Inv` adds to `TypeOK`: `Placed` (at each step of a grant or a revocation, what
file, memory and plan say of one another), `OwnKnown` (an administrator in his own right is
`wasAdmin` wherever the agent would remove him from) and `Noted` (whoever has rights from the
agent is in the file as one to lose them). `Noted` alone is not inductive: `GrantGives` needs
that the file was written at the step before, `RevokeClears` that the group was left.
`OwnRightsKept` (`NativeKept`) and `NoneStray` (`NoStrayRights`) follow, and `OnlyOwnGrants`, which is both.

**SelfUpdate.** `UpdateInv` is `UpdateTypes`, `UpdateNewer` (what is to be applied is above the baseline), `UpdateFloors`
(the floor is torn, absent or a version that worked, and no version above `best` did) and
`UpdateSides` (at each of the two renames, one of the two files has worked). With it go the
types of what the property does not need (`UpdateRest`, `UpdateFlags`).

**StateMigration.** `MigrateInv` is `MigratePlaces`, `MigrateRecords` (a record that is in both places is one the move is
copying or a fault left) and `MigrateTasks`; `MigrateTypes` are its other types.

**LockScreen.** `ScreenInv` is `ScreenSlots` (a process the goroutine waits for) and the property itself:
only the goroutine of the process in `handle` may clear it. `ScreenTypes` and `ScreenFlags` are the
types.

**AuditTrail.** `AuditInv` is `AuditShape`, `AuditKept`, `AuditNumbered` and, while rows are in the
order of their times and the log has not been empty, `AuditChained`. `AuditKept`: an open transaction began a day ago at
most, so that no row can be committed below the cutoff of a file written before it;
`ArchivedFirst` follows. `AuditNumbered`: the lock lets one transaction hold a new row, whose hash
is above all committed ones. `AuditChained`: the log is a last part of what was committed; each row
but its first has the row it links to, and the row under the lock continues the head. A
DELETE by time removes a first part, since times are in the order of hashes. `FoundIntact`
follows: the row that a gap lacks is there. These theorems are about any log that behaves as
`Spec`. `AuditTypes` is a second induction (`AuditTyped`): a row's number stays below its hash,
which counts insertions, and these are bounded; a cardinality bounds the rows in the log.

**AdminEvidence.** `EvInv` is, with `EvTypes`: `EvBaseline` (the half of the baseline that says it is
whole is what was there at the grant, or is empty where the file was lost), `EvMail` (a window on
its way is sure only of changes there really were, tells one change for each kind and key, and one
that is final and complete tells all there is to find), `EvRows` (the server has one row for each
number, kind and key, of a number it has read) and `EvOrder` (while no number is used twice and no
window is overtaken, numbers grow along the queue, and the rows of the last number are those of one
window). `NoFalseAccusation` and `ConfidentFinal`, which make up `EvidenceIsTrue`, are conjuncts:
the first stays true since rows are only added from windows as `EvMail` has them, the second rests
on `EvOrder`, without which the rows of two windows mix. What a comparison of two snapshots finds
is the subject of the lemmas before: both halves whole, both ends as they were, so that each change
found is a fact (`EvSoftwareFound`, `EvServicesFound`); a half that is not whole costs every change
its certainty (`EvDegraded`).

**ConfigApply.** `ApInv` is `Apply!TypeOK`, `ApPlan` (every step of a plan is one that the file asks for;
there is none when the run is through; who is to be switched on is in `switched`), `ApStored` (what the server keeps to whoever calls it:
platforms in its own spelling, assignments of policies that are there, rules with an id of their own)
and, while nobody else writes and every COMMIT goes through, `ApQuiet`: the ids the run knows are
right, and whatever does not agree with the file yet has its step in the plan, except for the
activity of a policy in `switched`, which the toggle leaves off (finding 5). `ApQuiet` is shown for a fresh plan
(`ApPlannedAll`), and then step by step of the plan (`ApDo...`): a step makes its object agree,
takes no other object away from what `ApQuiet` says of it, and is gone after the call. When the plan
is empty everything agrees (`ApThrough`), which is `Applied`.

**Parts.** `AuditAlone` shows that `Parts` implements `AuditTrail` (each step is one of its steps or
leaves the log alone), so that its theorems hold of `Parts` (`AuditOfParts`). `PartsTyped` states
`PartsTypeOK`, put together from the invariants of all twelve parts.

**ScriptRuns.** `ScriptsInv` adds to the types: `ScriptsBorn` (what the agent was sent, holds or
runs was created by an operator, so that a deletion is all that takes a policy away),
`ScriptsNumbered` (a run has a number of its own, also after its end), `ScriptsMarked` (a version
that a connect started, or holds in its hand, is marked in the file, or is one whose mark did not
reach it; the two callers never hold the same version) and `ScriptsApart` (a run that goes on
keeps its policy from being started). A run started once (`RunsOnce`) rests on the mark being
set before the start, `ResultKept` on the queue holding only results of runs that ended, and on
nothing but an acknowledgement taking one out: a result the server does not have then is in
`unstored`.

**Policies.** `ListingInv`: a list is the one its version stands for (`ListingLists`), so that "not
modified" may be answered by version alone; the snapshot the agent takes for sent is what the
server holds unless its fate is unknown (`ListingSent`). The version counts rules, of which
there are as many as edits at most (`ListingRules`, by the cardinality theorems).

**Removal.** `RemovalInv`: a task that is worked on or answered is there (`RemovalRows`), what is
about to be taken off was chosen for that very task (`RemovalTargets`: the row's selector does
not change between the choice and the effect), and what the teardown has passed is gone or was
refused by the system (`RemovalTeardown`), which at its last step is `TornDownWhole`.

**LoginSessions.** `LoginInv`: rows of a user are numbered upwards and a token names one that was
made (`LoginRows`); whatever has ended has a reason that stays (`LoginEnded`: expired, on the
blocklist, older than the change, of a row that is gone); every copy of the second factor a
handler holds is whole, and proven where it was on (`LoginFactor`); only who holds the lock
deletes, and has seen another administrator (`LoginAdmins`); guesses are the limiter's count until
it locks, and then those that were past it (`LoginGuesses`, for any finite set of requests).

**Alerts.** `AlertInv`: the mark, in memory or in the file, is that of the episode that goes on, whose
report is in the queue or told (`AlertMarks`); a row that was escalated does not rise again
(`AlertOnce`); and an episode begins with an event, but for one (`AlertEpisodes`), which the type
of `episode` needs.

**Enrollment.** `EnrollInv`: a device that waits has a row (`EnrollStatus`); the row a bulk enrollment
has begun is its own, and nobody waits for it yet (`EnrollBegun`); an unused token of a device is
its newest, and what a run has read of its token still holds (`EnrollTokens`), so that the token
it uses up is the newest; and, step by step of the run, what the two pairs of files are
(`EnrollFiles`): the run writes to the second place only while the first is not whole, and a copy
begins only when the first matches. TLC checked `EnrollInv` with two machines before it was
proved, and found there what the run's single machine hides (section 6).

**Only model-checked**: the liveness properties (`Drains`, `Delivered`, `Resolved`, `Converges`,
`RightsEnd`, `Accountable`), which need fairness and ENABLED, and the findings, which are
counterexamples. Every other property that a run checks is stated by a theorem. `Implements` is
proved for a seen-set file that loses no line, as its run assumes.

## 6. What the properties do not say

* A lost line of the seen-set file (never fsynced) lets a task run twice; `AtMostOnce`
  excepts such tasks, `Implements` assumes that there are none.
* `NoRelock` speaks of the reconciler's decision. Between it and `Manager.Lock` the mutex is
  free, so that an unlock in this window is undone; the employee can unlock again. It also
  excepts an answer "unlocked", after which the code means to forget, and an unlock whose
  memory could not be written.
* A push unlock takes off whatever lock is on, a newer one too; the pull path puts it back.
* `Converges` excepts `Silenced`: the desired lock is one the employee took off, the server
  was told so to no effect (the report was refused, dropped as one about another lock, or
  answered over a failed COMMIT), and the agent keeps silent about it until it restarts. The
  device then stays unlocked, or under a lock that an older push task put on late. The report
  is dropped when a newer lock came on between the two reads of `processUnlockRequests`
  (`lock.go:527`, `531`): it names the older request, and the reconciler remembers the newer hash.
* A damaged or unreadable record is removed, so that a transient read error costs a healthy
  record. The code says that it means to.
* The health mark is reset by the next successful listing, even if writing still fails.

Where the code accepts a loss, or where its behaviour is not what its comments hope for and no
run is devoted to it, the property excepts the case by a history variable:

* Admin access (`forgot`): the first window of a session saves the file without `wasAdmin`
  (`manager.go:525`, by way of the fallback at 535); after a restart the agent holds the user's own rights
  for temporary ones, which a comment of `manager_session_test.go:240-241` warns of. Also: a
  request that was revoked locally is granted again after a restart, as long as the server
  has not taken the REVOKED report; a newer pending request hides an approved one.
* Evidence (`muddled`): a window number that a crash makes the agent use twice is dropped by
  ON CONFLICT; the final window sent directly may be overwritten by an older queued one.
* Enrollment (`forced`): `updateDeviceStatus` reads the status and writes another in two
  statements. `FinalizeBulkEnroll` (`storage/enrollment.go:315-319`) writes the status of the row
  it began without a look at it: a row that was blocked in between, or given a new token with
  which another machine enrolled and was then decommissioned, is enrolled again, though the
  comment on `notEnrollableStatuses` (`enrollment.go:47-50`) says that only an operator brings
  such a device back.
* An ignored COMMIT (`storage/tx.go:183`). What a handler bound by `BindTenant` wrote may be
  gone although it answered with success. Where the answer takes a report out of the agent's
  queue, or lets a caller go on, this is a step of the model and an exception in the property:
  `unheard` (locks), `unstored` (results of scripts), `untold` (the beginning of an admin
  session), `excused` (alerts), `quiet` (calls of an apply); the transactions of `AuditTrail`
  fail at their end, too. The acknowledgement and the result of a task that are lost in this
  way are, in `TaskDelivery`, a call that had no effect (`AckCall`, `OutboxDrops`); a bulk
  enrollment is `BulkNotCommitted`. Where an operator's or a user's request is all there is to
  the transaction (a decision, a status, a changed password, a factor), a failed COMMIT is a
  request not made, though the person is told that it was. The transactions of inventory,
  evidence windows, `EnrollDevice`, re-enrollment and the audit log look at the error.
* Enrollment (`BulkNotCommitted`): a machine of a batch that requires an approval, and whose
  row was not committed, has a certificate that no row bears. Its first heartbeat makes a new
  row, which is active; `NotReadmitted` speaks of devices whose row is to wait.
* Scripts: an on_connect version is marked before it starts, so that one that is skipped or
  dies is not run again; an edit of a policy does not move the version its key is made of
  (`postgres.go:3119`), though `dedup.go:12-13` says that it does.
* Self-update (`botched`): a rename and its rollback that both fail, followed by a check that
  removes `.old`, leave no executable. The floor is written in place.
* Removal: the report of a reboot or a decommission may go down with the machine.
* Alerts (`excused`): a save that fails after an episode ended keeps the next episode silent
  after a restart; an alert whose COMMIT failed is nowhere.
* Audit (`Disordered`, `emptied`, `aged`): a row is stamped with the time its transaction
  began and numbered when it is inserted, so that retention may take a row out of the middle,
  which the check reports as a gap; a log that retention emptied counts from 1 again, against
  its old anchors; archive and purge compute their cutoffs apart.
* Lock screen: a session that is switched to after the lock gets no overlay; an overlay that
  outlives a crash of the service is not known to the next one.
* State migration (`missed`, `doubled`): a copy that failed is not tried again once the agent
  has made a file in the new place; a record that could not be removed is sent again.
* Apply (`quiet`): a group with two rules for one program agrees with a file that one of them
  contradicts; a policy that is to be inactive is active until the second of two calls; one
  that was to be switched on may be off (`switched`, finding 5).

## 7. Not modelled, and the plan

Not modelled: code of the platforms (services, key stores, collectors, what a screen shows),
FileVault locks (an enterprise part that is not in this repository), cryptography and TLS,
row-level security of the database, mail and SIEM, the web interface, API tokens and
directory logins, dashboards and lists, development tools. Generated protobuf code holds no
decision. `PROJECT.json` says for each component that is modelled in part what is left out.

Planned, in this order:

1. A composition of `Outbox` as the channel of `TaskDelivery`'s results, replacing the set.
2. API tokens and directory logins in `LoginSessions`; renaming in `ConfigApply`.
3. The refinement of `TaskContract` with lost lines made explicit in the contract.
