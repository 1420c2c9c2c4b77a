----------------------------- MODULE DeviceLock -----------------------------
(***************************************************************************)
(* The overlay lock (kill switch) of one device:                           *)
(*   - the operator's lock and unlock requests (api/handler.go), which     *)
(*     create a push task and then set the desired state;                  *)
(*   - the desired state and the reports that may change it                *)
(*     (gateway.ReportLockStatus, FetchLockStatus, storage/postgres.go);   *)
(*   - the agent's lock.Manager with its two files, the password on the    *)
(*     lock screen and the tamper watch (agent/lock/lock.go);              *)
(*   - the executor's handleLock for pushed tasks, and the Reconciler that *)
(*     pulls the desired state (agent/lock/reconcile.go).                  *)
(* Every lock request has a fresh password, so that a lock, its hash, its  *)
(* task id and its lock_request_id are one element of Lock here.  Push     *)
(* tasks are executed at most once and in any order (TaskDelivery); the    *)
(* reports wait in the outbox as a set.  The lock_actual_state column and  *)
(* the reports that only touch it (LOCK_FAILED) are telemetry, left out,   *)
(* and so are FileVault locks.                                             *)
(***************************************************************************)
EXTENDS Integers, FiniteSets

CONSTANTS
  Lock,       \* lock requests of the operator
  Release,    \* unlock requests of the operator
  NoLock,     \* no hash
  Nothing,    \* no answer, no attempt
  MaxFaults,  \* bound on crashes, failed writes, lost calls and edits of lock.json
  Refuses,    \* whether the outbox may refuse a report
  Typed       \* locks whose password the employee learns and may type

ASSUME LockAssumption ==
  /\ NoLock \notin Lock \cup Release
  /\ Lock \cap Release = {}
  /\ MaxFaults \in Nat /\ Refuses \in BOOLEAN /\ Typed \subseteq Lock

VARIABLES
  \* the server
  request,  \* how far the handler of each request has come
  tasks,    \* requests whose push task has not been executed
  want,     \* the desired state: lock_status and lock_hash
  mail,     \* reports on their way to the server
  clearing, \* UNLOCKED reports that passed the checks and clear want next
  \* the agent
  up,       \* the process runs
  mem,      \* Manager.state
  file,     \* lock.json, in a directory the user may write to
  durable,  \* the protected file with the hash of the lock taken off last
  answer,   \* the answer of FetchLockStatus a tick has yet to apply
  chosen,   \* that answer asks for a lock, and no memory suppresses it
  rlast,    \* Reconciler.lastUnlockedHash
  told,     \* Reconciler.durableReported
  attempt,  \* the unlock request the Manager is handling
  \* history and environment
  released, \* locks taken off the device, one way or the other
  latest,   \* the lock taken off with its password, until another one comes
            \* on, the server says "unlocked", or the memory cannot be written
  unheard,  \* locks an UNLOCKED report was about, or should have been, that was
            \* refused by the outbox, dropped, or answered without clearing them
  faults

serverVars == <<request, tasks, want, mail, clearing>>
reconVars  == <<answer, chosen, rlast, told>>
agentVars  == <<up, mem, file, durable, reconVars, attempt>>
history    == <<released, latest, unheard>>
vars       == <<serverVars, agentVars, history, faults>>

MaybeLock == Lock \cup {NoLock}
Request   == Lock \cup Release
State     == [locked : BOOLEAN, hash : MaybeLock, last : MaybeLock]
Desired   == [locked : BOOLEAN, hash : MaybeLock]
Report    == [locked : BOOLEAN, of : Request]
Attempt   == [step : {"asked", "read", "verified"}, of : Lock, cur : MaybeLock, password : Lock]

Clear     == [locked |-> FALSE, hash |-> NoLock, last |-> NoLock]
Unlocked  == [locked |-> FALSE, hash |-> NoLock]

TypeOK ==
  /\ request \in [Request -> {"new", "created", "done", "dead"}]
  /\ tasks \subseteq Request
  /\ want \in Desired
  /\ mail \subseteq Report /\ clearing \subseteq mail
  /\ up \in BOOLEAN
  /\ mem \in State /\ file \in State
  /\ durable \in MaybeLock /\ rlast \in MaybeLock /\ told \in MaybeLock
  /\ answer \in Desired \cup {Nothing} /\ chosen \in BOOLEAN
  /\ attempt \in Attempt \cup {Nothing}
  /\ released \subseteq Lock /\ latest \in MaybeLock /\ unheard \subseteq Lock
  /\ faults \in 0..MaxFaults

Start(asked, spent) ==
  /\ request = asked /\ faults = spent
  /\ tasks = {} /\ want = Unlocked /\ mail = {} /\ clearing = {}
  /\ up = TRUE /\ mem = Clear /\ file = Clear /\ durable = NoLock
  /\ answer = Nothing /\ chosen = FALSE /\ rlast = NoLock /\ told = NoLock /\ attempt = Nothing
  /\ released = {} /\ latest = NoLock /\ unheard = {}

Init == Start([r \in Request |-> "new"], 0)

Fault   == faults < MaxFaults /\ faults' = faults + 1
NoFault == faults' = faults
Unheard(l) == unheard' = unheard \cup ({l} \cap Lock)
Went(well) == IF well THEN NoFault ELSE Fault   \* what failed together counts once

-----------------------------------------------------------------------------
(* The operator: lockDevice and unlockDevice insert the task row, then set *)
(* the desired state in a second transaction.  A pending row is delivered  *)
(* by the reconciler of tasks whether or not the handler goes on.  An error *)
(* of COMMIT is ignored (BindTenant), and the handler answers as ever.     *)
CreateLockTask(r) ==
  /\ request[r] = "new"
  /\ request' = [request EXCEPT ![r] = "created"]
  /\ tasks' = tasks \cup {r}
  /\ UNCHANGED <<want, mail, clearing, agentVars, history, faults>>

SetDeviceLockState(r) ==
  /\ request[r] = "created"
  /\ request' = [request EXCEPT ![r] = "done"]
  /\ \/ want' = (IF r \in Lock THEN [locked |-> TRUE, hash |-> r] ELSE Unlocked) /\ NoFault
     \/ UNCHANGED want /\ Fault
  /\ UNCHANGED <<tasks, mail, clearing, agentVars, history>>

HandlerDies(r) ==
  /\ request[r] = "created" /\ Fault
  /\ request' = [request EXCEPT ![r] = "dead"]
  /\ UNCHANGED <<tasks, want, mail, clearing, agentVars, history>>

-----------------------------------------------------------------------------
(* The gateway: ReportLockStatus.                                          *)

(* Mutant: LOCKED sets the desired state, as it used to.                   *)
ReportLockedBlind(r) ==
  /\ r \in mail /\ r.locked
  /\ want' = [want EXCEPT !.locked = TRUE]
  /\ mail' = mail \ {r}
  /\ UNCHANGED <<request, tasks, clearing, agentVars, history, faults>>

(* LOCKED confirms a desired lock and never creates one: the UPDATE is     *)
(* conditional on a hash (UpdateDeviceLockStatus), and since a hash comes  *)
(* with a lock it changes nothing, its COMMIT failed or not.               *)
ReportLocked(r) ==
  /\ r \in mail /\ r.locked
  /\ want' = [want EXCEPT !.locked = @ \/ want.hash # NoLock]
  /\ mail' = mail \ {r}
  /\ UNCHANGED <<request, tasks, clearing, agentVars, history, faults>>

(* UNLOCKED of another lock than the desired one is dropped; any other one *)
(* goes on to clear the desired state, in a statement of its own.          *)
ReportUnlocked(r) ==
  /\ r \in mail \ clearing /\ ~r.locked
  /\ IF want.locked /\ r.of # want.hash
     THEN mail' = mail \ {r} /\ Unheard(r.of) /\ UNCHANGED clearing
     ELSE clearing' = clearing \cup {r} /\ UNCHANGED <<mail, unheard>>
  /\ UNCHANGED <<request, tasks, want, agentVars, released, latest, faults>>

(* The answer is the same when its COMMIT failed.                          *)
ClearDesired(r) ==
  /\ r \in clearing
  /\ \/ /\ want' = Unlocked /\ NoFault
        /\ IF r.of = want.hash THEN UNCHANGED unheard ELSE Unheard(r.of)
     \/ UNCHANGED want /\ Unheard(r.of) /\ Fault
  /\ mail' = mail \ {r} /\ clearing' = clearing \ {r}
  /\ UNCHANGED <<request, tasks, agentVars, released, latest>>

(* The agent's reports.  Those of the reconciler go through the outbox,    *)
(* which may refuse them and then delivers what it took; the executor's    *)
(* own calls are not retried.                                              *)
Enqueued(locked, r) == mail' = mail \cup {[locked |-> locked, of |-> r]}
Refused             == Refuses /\ Fault /\ UNCHANGED mail
Called(locked, r, sent) == IF sent THEN Enqueued(locked, r) ELSE UNCHANGED mail

-----------------------------------------------------------------------------
(* The Manager.  Lock: no change at all when lock.json cannot be written.  *)
(* (The early return on an equal request id is never taken: a push task is *)
(* executed once, and the reconciler compares the hash first.)             *)
LockWith(h) ==
  LET st == [locked |-> TRUE, hash |-> h, last |-> NoLock]
  IN  mem' = st /\ file' = st /\ latest' = NoLock

LockFails == UNCHANGED <<mem, file, latest>> /\ Fault

(* unlockLocked: the durable file and lock.json are written best effort;   *)
(* the former held old before.                                             *)
UnlockWith(savesHash, old, savesFile) ==
  LET st == [locked |-> FALSE, hash |-> NoLock, last |-> mem.hash]
  IN  /\ mem' = st
      /\ durable' = IF savesHash THEN mem.hash ELSE old
      /\ file' = IF savesFile THEN st ELSE file
      /\ released' = released \cup {mem.hash}

(* handleLock of a pushed lock: nothing is reported if the lock failed.    *)
PushLock(h) ==
  /\ up /\ h \in tasks \cap Lock
  /\ tasks' = tasks \ {h}
  /\ \/ \E sent \in BOOLEAN : LockWith(h) /\ Called(TRUE, h, sent) /\ Went(sent)
     \/ LockFails /\ UNCHANGED mail
  /\ UNCHANGED <<request, want, clearing, up, durable, reconVars, attempt, released, unheard>>

(* handleLock of a pushed unlock: whatever is locked is unlocked.          *)
PushUnlock(r) ==
  /\ up /\ r \in tasks \cap Release
  /\ tasks' = tasks \ {r}
  /\ \E savesHash, savesFile, sent \in BOOLEAN :
       /\ IF mem.locked
          THEN UnlockWith(savesHash, durable, savesFile) /\ latest' = NoLock
          ELSE UNCHANGED <<mem, file, durable, released, latest>>
       /\ Called(FALSE, r, sent)
       /\ Went(savesHash /\ savesFile /\ sent)
  /\ UNCHANGED <<request, want, clearing, up, reconVars, attempt, unheard>>

(* The task was marked as seen and the agent died before handleLock.       *)
PushLost(r) ==
  /\ r \in tasks /\ Fault
  /\ tasks' = tasks \ {r}
  /\ UNCHANGED <<request, want, mail, clearing, agentVars, history>>

(* Mutant: it is not checked that a lock is on.                            *)
ReadPasswordAnyTime(p) ==
  /\ up /\ attempt = Nothing
  /\ p \in Typed /\ request[p] = "done"
  /\ attempt' = [step |-> "asked", of |-> mem.hash, cur |-> NoLock, password |-> p]
  /\ UNCHANGED <<serverVars, up, mem, file, durable, reconVars, history, faults>>

(* processUnlockRequests: read the request and whose lock is on, ...       *)
ReadPassword(p) ==
  /\ up /\ attempt = Nothing /\ mem.locked
  /\ p \in Typed /\ request[p] = "done"
  /\ attempt' = [step |-> "asked", of |-> mem.hash, cur |-> NoLock, password |-> p]
  /\ UNCHANGED <<serverVars, up, mem, file, durable, reconVars, history, faults>>

(* ... the hash of the lock that is on by now, if one is, ...              *)
ReadHash ==
  /\ up /\ attempt # Nothing /\ attempt.step = "asked"
  /\ attempt' = [attempt EXCEPT !.step = "read", !.cur = mem.hash]
  /\ UNCHANGED <<serverVars, up, mem, file, durable, reconVars, history, faults>>

(* ... verify the password against the lock that is on by now, ...         *)
Verify ==
  /\ up /\ attempt # Nothing /\ attempt.step = "read"
  /\ IF mem.locked /\ mem.hash # attempt.password
     THEN /\ attempt' = Nothing
          /\ UNCHANGED <<mem, file, durable, released, latest, faults>>
     ELSE /\ attempt' = [attempt EXCEPT !.step = "verified"]
          /\ IF mem.locked
             THEN \E savesHash, savesFile \in BOOLEAN :
                    /\ UnlockWith(savesHash, durable, savesFile)
                    /\ Went(savesHash /\ savesFile)
                    /\ latest' = IF savesHash THEN mem.hash ELSE NoLock
             ELSE UNCHANGED <<mem, file, durable, released, latest, faults>>
  /\ UNCHANGED <<serverVars, up, reconVars, unheard>>

(* ... and tell the reconciler (OnLocalUnlock), which remembers the hash   *)
(* and reports the request: a refusal is only logged.                      *)
OnLocalUnlock ==
  /\ up /\ attempt # Nothing /\ attempt.step = "verified"
  /\ rlast' = attempt.cur
  /\ \/ /\ Enqueued(FALSE, attempt.of) /\ NoFault
        /\ IF attempt.of = attempt.cur THEN UNCHANGED unheard ELSE Unheard(attempt.cur)
     \/ Refused /\ Unheard(attempt.cur)
  /\ attempt' = Nothing
  /\ UNCHANGED <<request, tasks, want, clearing, up, mem, file, durable, answer, chosen,
                 told, released, latest>>

(* The user edits lock.json; the watch puts it back while the agent runs.  *)
Tamper ==
  /\ file.locked /\ Fault
  /\ \E h \in MaybeLock : file' = [locked |-> FALSE, hash |-> NoLock, last |-> h]
  /\ UNCHANGED <<serverVars, up, mem, durable, reconVars, attempt, history>>

DetectOfflineUnlock ==
  /\ up /\ mem.locked /\ ~file.locked
  /\ file' = mem
  /\ UNCHANGED <<serverVars, up, mem, durable, reconVars, attempt, history, faults>>

-----------------------------------------------------------------------------
(* The Reconciler: a tick fetches the desired state and applies it, maybe  *)
(* long after the server has answered.                                     *)
FetchLockStatus ==
  /\ up /\ answer = Nothing
  /\ answer' = want
  /\ UNCHANGED <<serverVars, up, mem, file, durable, chosen, rlast, told, attempt, history,
                 faults>>

(* Mutant: what the Manager remembers is not reported again.               *)
SuppressLockSilently ==
  /\ up /\ answer # Nothing /\ answer.locked /\ ~chosen
  /\ answer.hash \in {rlast, mem.last}
  /\ answer' = Nothing
  /\ UNCHANGED <<serverVars, up, mem, file, durable, chosen, rlast, told, attempt, history,
                 faults>>

(* The desired lock was taken off here, says the reconciler's memory or,   *)
(* after a restart, the Manager's: then it is reported again, once.        *)
SuppressLock ==
  /\ up /\ answer # Nothing /\ answer.locked /\ ~chosen
  /\ \/ answer.hash = rlast /\ UNCHANGED <<told, mail, faults>>
     \/ /\ answer.hash # rlast /\ answer.hash = mem.last
        /\ \/ told = answer.hash /\ UNCHANGED <<told, mail, faults>>
           \/ told # answer.hash /\ told' = answer.hash /\ Enqueued(FALSE, answer.hash) /\ NoFault
           \/ told # answer.hash /\ told' = NoLock /\ Refused
  /\ answer' = Nothing
  /\ UNCHANGED <<request, tasks, want, clearing, up, mem, file, durable, chosen, rlast, attempt,
                 history>>

(* It was not, ...                                                         *)
ChooseLock ==
  /\ up /\ answer # Nothing /\ answer.locked /\ ~chosen
  /\ answer.hash \notin {rlast, mem.last}
  /\ chosen' = TRUE
  /\ UNCHANGED <<serverVars, up, mem, file, durable, answer, rlast, told, attempt, history,
                 faults>>

(* ... so it is applied unless it is on: the Manager's mutex was not held  *)
(* in between.                                                             *)
ReconcileLocked ==
  /\ up /\ chosen
  /\ IF mem.locked /\ mem.hash = answer.hash
     THEN UNCHANGED <<mem, file, latest, mail, faults>>
     ELSE \/ LockWith(answer.hash) /\ Enqueued(TRUE, answer.hash) /\ NoFault
          \/ LockFails /\ UNCHANGED mail
  /\ answer' = Nothing /\ chosen' = FALSE
  /\ UNCHANGED <<request, tasks, want, clearing, up, durable, rlast, told, attempt, released,
                 unheard>>

(* Desired is unlocked: forget what was taken off, take off what is on.    *)
(* Nothing is reported if lock.json could not be written.                  *)
ReconcileUnlocked ==
  /\ up /\ answer # Nothing /\ ~answer.locked
  /\ rlast' = NoLock /\ told' = NoLock
  /\ IF mem.locked
     THEN \E savesHash, savesFile \in BOOLEAN :
            /\ UnlockWith(savesHash, NoLock, savesFile)
            /\ Went(savesHash /\ savesFile)
            /\ IF savesFile THEN Enqueued(FALSE, mem.hash) ELSE UNCHANGED mail
     ELSE /\ mem' = [mem EXCEPT !.last = NoLock]
          /\ durable' = NoLock
          /\ UNCHANGED <<file, mail, released, faults>>
  /\ latest' = NoLock
  /\ answer' = Nothing
  /\ UNCHANGED <<request, tasks, want, clearing, up, chosen, attempt, unheard>>

-----------------------------------------------------------------------------
Crash ==
  /\ up /\ Fault
  /\ up' = FALSE
  /\ mem' = Clear /\ answer' = Nothing /\ chosen' = FALSE /\ rlast' = NoLock /\ told' = NoLock
  /\ attempt' = Nothing
  /\ UNCHANGED <<serverVars, file, durable, history>>

(* Mutants: the memory comes from lock.json; it does not come back.        *)
LoadTrustingFile ==
  /\ ~up /\ up' = TRUE
  /\ mem' = file
  /\ UNCHANGED <<serverVars, file, durable, reconVars, attempt, history, faults>>

LoadForgetting ==
  /\ ~up /\ up' = TRUE
  /\ mem' = [file EXCEPT !.last = NoLock]
  /\ UNCHANGED <<serverVars, file, durable, reconVars, attempt, history, faults>>

(* Load: the lock comes from lock.json, the memory of the one taken off    *)
(* from the protected file alone.                                          *)
Load ==
  /\ ~up /\ up' = TRUE
  /\ mem' = [file EXCEPT !.last = durable]
  /\ UNCHANGED <<serverVars, file, durable, reconVars, attempt, history, faults>>

Operator(r) == CreateLockTask(r) \/ SetDeviceLockState(r) \/ HandlerDies(r)
Gateway(r)  == ReportLocked(r) \/ ReportUnlocked(r) \/ ClearDesired(r)
Push(r)     == PushLock(r) \/ PushUnlock(r) \/ PushLost(r)
Screen      == (\E p \in Typed : ReadPassword(p)) \/ ReadHash \/ Verify \/ OnLocalUnlock
Reconcile   == SuppressLock \/ ChooseLock \/ ReconcileLocked \/ ReconcileUnlocked

Next ==
  \/ \E r \in Request : Operator(r) \/ Push(r)
  \/ \E r \in mail : Gateway(r)
  \/ Screen \/ Tamper \/ DetectOfflineUnlock
  \/ FetchLockStatus \/ Reconcile
  \/ Crash \/ Load

Spec == Init /\ [][Next]_vars

(* The agent's loops and the delivery of tasks and reports go on; handlers *)
(* finish or die.  Nothing is assumed of the operator and the employee.    *)
Watch == ReadHash \/ Verify \/ OnLocalUnlock \/ DetectOfflineUnlock
Tick  == FetchLockStatus \/ Reconcile

Fairness ==
  /\ WF_vars(\E r \in Request : SetDeviceLockState(r))
  /\ WF_vars(\E r \in Request : Push(r))
  /\ WF_vars(\E r \in mail : Gateway(r))
  /\ WF_vars(Watch) /\ WF_vars(Tick) /\ WF_vars(Load)

FairSpec == Spec /\ Fairness
-----------------------------------------------------------------------------
(* No report, however late, repeated or reordered, leaves a desired lock   *)
(* without a hash, which the agent would refuse to apply and which would   *)
(* show the device as locked for good (the comment at ErrNoDesiredLock).   *)
DesiredLockHasHash == want.locked => want.hash # NoLock

(* What makes the agent ignore a desired lock is the memory of a lock that *)
(* really was taken off this device: no edit of lock.json, before or after *)
(* a restart, gets into it (the comments at State.LastUnlockedHash and at  *)
(* SetDurableUnlockPath).                                                  *)
SuppressionIsEarned == {mem.last, durable} \subseteq released \cup {NoLock}

(* The reconciler never decides to put back the lock the employee has just *)
(* taken off with its password, though the server still asks for it and    *)
(* though the agent has restarted since (the re-lock bug the comments at   *)
(* OnLocalUnlock and LastUnlockedHash are about).                          *)
NoRelock == [][ChooseLock => answer.hash # latest]_vars

(* When requests and faults have ended, the device and the desired state   *)
(* agree for good, on the lock too; or the desired lock is one of which    *)
(* the server was told to no effect that it is off, and the agent keeps    *)
(* silent about it until it restarts.                                      *)
Agree    == up /\ mem.locked = want.locked /\ mem.hash = want.hash
Silenced == up /\ want.locked /\ want.hash \in unheard \cap {rlast, told}

Converges == <>[](Agree \/ Silenced)

(* What the comment at the second suppression check of reconcileLocked     *)
(* demands: "desired is locked, the device is not" must not last, whether  *)
(* by reporting the unlock again or by locking again.                      *)
SelfEnding == want.locked /\ ~mem.locked ~> ~want.locked \/ mem.locked

(* What the comment at the UNLOCKED branch of ReportLockStatus demands: a  *)
(* report may clear the desired lock only if it is about that very lock.   *)
ReportClearsItsOwnLock ==
  [][\A r \in clearing : ClearDesired(r) /\ want.locked => r.of = want.hash]_vars
=============================================================================
