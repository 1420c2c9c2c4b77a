-------------------------- MODULE DeviceLockProofs --------------------------
(***************************************************************************)
(* Proofs about DeviceLock, for every set of lock and unlock requests and  *)
(* every number of faults.  The inductive invariant Inv adds to TypeOK     *)
(* that a lock has a hash wherever it is (Hashed), that the memory which   *)
(* suppresses a lock was earned (SuppressionIsEarned), and that the lock   *)
(* taken off last is remembered in the protected file and, while the agent *)
(* runs, in the Manager (Remembered).                                      *)
(***************************************************************************)
EXTENDS DeviceLock, TLAPS

Hashed ==
  /\ want.locked => want.hash \in Lock
  /\ mem.locked => mem.hash \in Lock
  /\ file.locked => file.hash \in Lock
  /\ answer # Nothing /\ answer.locked => answer.hash \in Lock
  /\ chosen => answer # Nothing /\ answer.locked
  /\ \A r \in clearing : ~r.locked

Remembered == latest # NoLock => durable = latest /\ (up => mem.last = latest)

Inv == TypeOK /\ Hashed /\ SuppressionIsEarned /\ Remembered

-----------------------------------------------------------------------------
LEMMA InitInv == Init => Inv
<1> SUFFICES ASSUME Init PROVE Inv
  OBVIOUS
<1> USE LockAssumption DEF LockAssumption, Init, Start
<1>1. Clear \in State /\ Unlocked \in Desired
  BY DEF Clear, Unlocked, State, Desired, MaybeLock
<1>2. up \in BOOLEAN /\ chosen \in BOOLEAN
  BY Zenon
<1>4. TypeOK
  BY <1>1, <1>2 DEF TypeOK, MaybeLock, Request
<1>3. Hashed /\ SuppressionIsEarned /\ Remembered
  BY DEF Hashed, SuppressionIsEarned, Remembered, Clear, Unlocked
<1> QED
  BY <1>3, <1>4 DEF Inv

(* The records the actions build.                                          *)
LEMMA Records ==
  /\ \A h \in MaybeLock, l \in MaybeLock, b \in BOOLEAN : [locked |-> b, hash |-> h, last |-> l] \in State
  /\ \A st \in State, l \in MaybeLock :
       [st EXCEPT !.last = l] = [locked |-> st.locked, hash |-> st.hash, last |-> l]
  /\ \A h \in MaybeLock, b \in BOOLEAN : [locked |-> b, hash |-> h] \in Desired
  /\ \A r \in Request, b \in BOOLEAN : [locked |-> b, of |-> r] \in Report
  /\ \A l \in Lock, p \in Lock :
       [step |-> "asked", of |-> l, cur |-> NoLock, password |-> p] \in Attempt
  /\ Lock \subseteq MaybeLock /\ Lock \subseteq Request /\ NoLock \in MaybeLock
  BY DEF State, Desired, Report, Attempt, MaybeLock, Request

ServerTypes ==
  /\ request \in [Request -> {"new", "created", "done", "dead"}]
  /\ tasks \subseteq Request /\ want \in Desired
  /\ mail \subseteq Report /\ clearing \subseteq mail

AgentTypes ==
  /\ mem \in State /\ file \in State /\ durable \in MaybeLock
  /\ rlast \in MaybeLock /\ told \in MaybeLock
  /\ answer \in Desired \cup {Nothing} /\ attempt \in Attempt \cup {Nothing}
  /\ released \subseteq Lock /\ latest \in MaybeLock /\ unheard \subseteq Lock
  /\ faults \in 0..MaxFaults

LEMMA ServerStep == TypeOK /\ Hashed /\ [Next]_vars => ServerTypes'
<1> SUFFICES ASSUME TypeOK, Hashed, [Next]_vars PROVE ServerTypes'
  OBVIOUS
<1> USE DEF ServerTypes, serverVars, agentVars, reconVars, history, Called, Refused
<1>0. ServerTypes
  BY DEF TypeOK
<1>1. ASSUME NEW r \in Request, NEW b \in BOOLEAN, Enqueued(b, r)
      PROVE  mail' \subseteq Report /\ mail \subseteq mail'
  BY <1>0, <1>1, Records DEF Enqueued
<1>2. ASSUME NEW r \in Request, Operator(r) PROVE ServerTypes'
  <2>1. ASSUME SetDeviceLockState(r) PROVE want' \in Desired
    <3>1. Unlocked \in Desired /\ (r \in Lock => [locked |-> TRUE, hash |-> r] \in Desired)
      BY Records DEF Unlocked
    <3> QED
      BY <1>0, <2>1, <3>1 DEF SetDeviceLockState
  <2> QED
    BY <1>0, <1>2, <2>1 DEF Operator, CreateLockTask, SetDeviceLockState, HandlerDies
<1>3. ASSUME NEW r \in Request, Push(r) PROVE ServerTypes'
  <2>1. \A b \in BOOLEAN : Enqueued(b, r) => mail' \subseteq Report /\ mail \subseteq mail'
    BY <1>1
  <2> QED
    BY <1>0, <1>3, <2>1 DEF Push, PushLock, PushUnlock, PushLost
<1>4. ASSUME NEW r \in mail, Gateway(r) PROVE ServerTypes'
  <2>1. CASE ReportLocked(r)
    <3>1. want' \in Desired
      BY <1>0, <2>1 DEF ReportLocked, Desired
    <3> QED
      BY <1>0, <2>1, <3>1 DEF ReportLocked, Hashed
  <2>2. Unlocked \in Desired
    BY Records DEF Unlocked
  <2> QED
    BY <1>0, <1>4, <2>1, <2>2 DEF Gateway, ReportUnlocked, ClearDesired
<1>5. CASE Screen
  <2>1. CASE OnLocalUnlock
    <3>1. attempt.of \in Request
      BY <2>1, Records DEF OnLocalUnlock, TypeOK, Attempt
    <3> QED
      BY <1>0, <1>1, <2>1, <3>1 DEF OnLocalUnlock
  <2> QED
    BY <1>0, <1>5, <2>1 DEF Screen, ReadPassword, ReadHash, Verify
<1>6. CASE Tamper \/ DetectOfflineUnlock \/ FetchLockStatus \/ Crash \/ Load
  BY <1>0, <1>6 DEF Tamper, DetectOfflineUnlock, FetchLockStatus, Crash, Load
<1>7. CASE Reconcile
  <2>1. CASE SuppressLock
    BY <1>0, <1>1, <2>1, Records DEF SuppressLock, Hashed
  <2>2. CASE ReconcileLocked
    BY <1>0, <1>1, <2>2, Records DEF ReconcileLocked, Hashed
  <2>3. CASE ReconcileUnlocked
    BY <1>0, <1>1, <2>3, Records DEF ReconcileUnlocked, Hashed
  <2> QED
    BY <1>0, <1>7, <2>1, <2>2, <2>3 DEF Reconcile, ChooseLock
<1>8. CASE UNCHANGED vars
  BY <1>0, <1>8 DEF vars
<1> QED
  BY <1>2, <1>3, <1>4, <1>5, <1>6, <1>7, <1>8 DEF Next

LEMMA Counted == TypeOK /\ (Fault \/ NoFault) => faults' \in 0..MaxFaults
  BY LockAssumption DEF LockAssumption, TypeOK, Fault, NoFault

LEMMA AgentStep == TypeOK /\ Hashed /\ [Next]_vars => AgentTypes'
<1> SUFFICES ASSUME TypeOK, Hashed, [Next]_vars PROVE AgentTypes'
  OBVIOUS
<1> USE LockAssumption DEF LockAssumption, AgentTypes, serverVars, agentVars, reconVars, history,
    Fault, NoFault, Went, Unheard, Refused, LockFails
<1>0. AgentTypes
  BY DEF TypeOK
<1>1. ASSUME NEW r \in Request, Operator(r) PROVE AgentTypes'
  BY <1>0, <1>1 DEF Operator, CreateLockTask, SetDeviceLockState, HandlerDies
<1>2. ASSUME NEW old \in MaybeLock, NEW savesHash \in BOOLEAN, NEW savesFile \in BOOLEAN,
             mem.locked, UnlockWith(savesHash, old, savesFile)
      PROVE  /\ mem' \in State /\ file' \in State /\ durable' \in MaybeLock
             /\ released' \subseteq Lock /\ mem.hash \in Lock
  <2>1. mem.hash \in Lock
    BY <1>2 DEF Hashed
  <2>2. [locked |-> FALSE, hash |-> NoLock, last |-> mem.hash] \in State /\ mem.hash \in MaybeLock
    BY <2>1, Records
  <2> QED
    BY <1>0, <1>2, <2>1, <2>2 DEF UnlockWith
<1>3. ASSUME NEW h \in Lock, LockWith(h)
      PROVE  mem' \in State /\ file' \in State /\ latest' \in MaybeLock
  BY <1>3, Records DEF LockWith
<1>4. ASSUME NEW r \in Request, Push(r) PROVE AgentTypes'
  <2>1. CASE PushLock(r)
    <3>1. mem' \in State /\ file' \in State /\ latest' \in MaybeLock
      BY <1>0, <1>3, <2>1 DEF PushLock
    <3>2. Fault \/ NoFault
      BY <2>1, Zenon DEF PushLock
    <3> QED
      BY <1>0, <2>1, <3>1, <3>2, Counted DEF PushLock
  <2>2. CASE PushUnlock(r)
    BY <1>0, <1>2, <2>2, Records DEF PushUnlock
  <2> QED
    BY <1>0, <1>4, <2>1, <2>2 DEF Push, PushLost
<1>5. ASSUME NEW r \in mail, Gateway(r) PROVE AgentTypes'
  BY <1>0, <1>5 DEF Gateway, ReportLocked, ReportUnlocked, ClearDesired
<1>6. CASE Screen
  <2>1. ASSUME NEW p \in Typed, ReadPassword(p) PROVE AgentTypes'
    <3>1. attempt' \in Attempt
      BY <2>1, Records DEF ReadPassword, Hashed
    <3> QED
      BY <1>0, <2>1, <3>1 DEF ReadPassword
  <2>2. CASE Verify
    <3>1. attempt' \in Attempt \cup {Nothing}
      BY <1>0, <2>2 DEF Verify, Attempt
    <3>2. CASE mem.locked /\ mem.hash = attempt.password
      BY <1>0, <1>2, <2>2, <3>1, <3>2, Records DEF Verify
    <3>3. CASE ~(mem.locked /\ mem.hash = attempt.password)
      BY <1>0, <2>2, <3>1, <3>3 DEF Verify
    <3> QED
      BY <3>2, <3>3
  <2>3. CASE OnLocalUnlock
    <3>1. attempt.cur \in MaybeLock
      BY <1>0, <2>3, Records DEF OnLocalUnlock, Attempt
    <3> QED
      BY <1>0, <2>3, <3>1 DEF OnLocalUnlock, Enqueued
  <2>4. CASE ReadHash
    <3>1. attempt' \in Attempt
      BY <1>0, <2>4 DEF ReadHash, Attempt, State
    <3> QED
      BY <1>0, <2>4, <3>1 DEF ReadHash
  <2> QED
    BY <1>6, <2>1, <2>2, <2>3, <2>4 DEF Screen
<1>7. CASE Tamper
  <2>1. file' \in State
    BY <1>7, Records DEF Tamper
  <2> QED
    BY <1>0, <1>7, <2>1 DEF Tamper
<1>8. CASE DetectOfflineUnlock \/ FetchLockStatus
  BY <1>0, <1>8 DEF DetectOfflineUnlock, FetchLockStatus, TypeOK
<1>9. CASE Crash
  <2>1. Clear \in State /\ NoLock \in MaybeLock
    BY Records DEF Clear
  <2> QED
    BY <1>0, <1>9, <2>1 DEF Crash
<1>10. CASE Load
  <2>1. mem' \in State
    BY <1>0, <1>10 DEF Load, State
  <2> QED
    BY <1>0, <1>10, <2>1 DEF Load
<1>11. CASE Reconcile
  <2>1. CASE SuppressLock \/ ChooseLock
    <3>1. answer \in Desired /\ answer.hash \in MaybeLock
      BY <1>0, <2>1 DEF SuppressLock, ChooseLock, Desired
    <3> QED
      BY <1>0, <2>1, <3>1, Records DEF SuppressLock, ChooseLock, Enqueued
  <2>2. CASE ReconcileLocked
    <3>1. answer.hash \in Lock
      BY <2>2 DEF ReconcileLocked, Hashed
    <3>2. mem' \in State /\ file' \in State /\ latest' \in MaybeLock
      BY <1>0, <1>3, <2>2, <3>1 DEF ReconcileLocked
    <3>3. Fault \/ NoFault
      BY <2>2, Zenon DEF ReconcileLocked
    <3> QED
      BY <1>0, <2>2, <3>2, <3>3, Counted DEF ReconcileLocked
  <2>3. CASE ReconcileUnlocked
    <3>1. CASE mem.locked
      <4>1. Fault \/ NoFault
        BY <2>3, <3>1, Zenon DEF ReconcileUnlocked
      <4> QED
        BY <1>0, <1>2, <2>3, <3>1, <4>1, Counted, Records DEF ReconcileUnlocked
    <3>2. CASE ~mem.locked
      <4>1. mem' \in State /\ NoLock \in MaybeLock
        BY <1>0, <2>3, <3>2, Records DEF ReconcileUnlocked, State
      <4> QED
        BY <1>0, <2>3, <3>2, <4>1 DEF ReconcileUnlocked
    <3> QED
      BY <3>1, <3>2
  <2> QED
    BY <1>11, <2>1, <2>2, <2>3 DEF Reconcile
<1>12. CASE UNCHANGED vars
  BY <1>0, <1>12 DEF vars
<1> QED
  BY <1>1, <1>4, <1>5, <1>6, <1>7, <1>8, <1>9, <1>10, <1>11, <1>12 DEF Next

LEMMA BooleanStep == TypeOK /\ [Next]_vars => up' \in BOOLEAN /\ chosen' \in BOOLEAN
  BY Zenon DEF TypeOK, Next, vars, serverVars, agentVars, reconVars, history, Operator, Push,
     Gateway, Screen, Reconcile, CreateLockTask, SetDeviceLockState, HandlerDies, PushLock,
     PushUnlock, PushLost, ReportLocked, ReportUnlocked, ClearDesired, ReadPassword, ReadHash,
     Verify, OnLocalUnlock, Tamper, DetectOfflineUnlock, FetchLockStatus, Crash, Load,
     SuppressLock, ChooseLock, ReconcileLocked, ReconcileUnlocked

LEMMA TypeStep == TypeOK /\ Hashed /\ [Next]_vars => TypeOK'
  BY ServerStep, AgentStep, BooleanStep, Zenon DEF TypeOK, ServerTypes, AgentTypes

-----------------------------------------------------------------------------
(* A hash appears with the lock, and no report adds a lock without one.    *)
LEMMA HashedStep == TypeOK /\ Hashed /\ [Next]_vars => Hashed'
<1> SUFFICES ASSUME TypeOK, Hashed, [Next]_vars PROVE Hashed'
  OBVIOUS
<1> USE DEF Hashed, serverVars, agentVars, reconVars, history, Enqueued, Called
<1>1. ASSUME NEW r \in Request, Operator(r) PROVE Hashed'
  BY <1>1 DEF Operator, CreateLockTask, SetDeviceLockState, HandlerDies, Unlocked
<1>2. ASSUME NEW r \in Request, Push(r) PROVE Hashed'
  BY <1>2 DEF Push, PushLock, PushUnlock, PushLost, LockWith, LockFails, UnlockWith
<1>3. ASSUME NEW r \in mail, Gateway(r) PROVE Hashed'
  <2>1. CASE ReportLocked(r)
    <3>1. want' = [want EXCEPT !.locked = @ \/ want.hash # NoLock] /\ want \in Desired
      BY <2>1 DEF ReportLocked, TypeOK
    <3>2. want'.hash = want.hash /\ want'.locked = (want.locked \/ want.hash # NoLock)
      BY <3>1 DEF Desired
    <3>3. want'.locked => want'.hash \in Lock
      BY <3>1, <3>2 DEF Desired, MaybeLock
    <3> QED
      BY <2>1, <3>3 DEF ReportLocked
  <2>2. CASE ReportUnlocked(r)
    BY <2>2 DEF ReportUnlocked
  <2>3. CASE ClearDesired(r)
    BY <2>3 DEF ClearDesired, Unlocked
  <2> QED
    BY <1>3, <2>1, <2>2, <2>3 DEF Gateway
<1>4. CASE Screen
  BY <1>4 DEF Screen, ReadPassword, ReadHash, Verify, OnLocalUnlock, UnlockWith
<1>5. CASE Tamper \/ DetectOfflineUnlock \/ FetchLockStatus
  BY <1>5 DEF Tamper, DetectOfflineUnlock, FetchLockStatus
<1>6. CASE Crash \/ Load
  BY <1>6 DEF Crash, Load, Clear, TypeOK, State
<1>7. CASE Reconcile
  <2>1. CASE SuppressLock \/ ChooseLock
    BY <2>1 DEF SuppressLock, ChooseLock
  <2>2. CASE ReconcileLocked
    BY <2>2 DEF ReconcileLocked, LockWith, LockFails
  <2>3. CASE ReconcileUnlocked
    BY <2>3 DEF ReconcileUnlocked, UnlockWith, TypeOK, State
  <2> QED
    BY <1>7, <2>1, <2>2, <2>3 DEF Reconcile
<1>8. CASE UNCHANGED vars
  BY <1>8 DEF vars
<1> QED
  BY <1>1, <1>2, <1>3, <1>4, <1>5, <1>6, <1>7, <1>8 DEF Next

(* The memory of a lock is written by unlockLocked alone, and read back    *)
(* from the protected file alone.                                          *)
LEMMA MemoryStep ==
  TypeOK /\ SuppressionIsEarned /\ Remembered /\ [Next]_vars =>
    (SuppressionIsEarned /\ Remembered)'
<1> SUFFICES ASSUME TypeOK, SuppressionIsEarned, Remembered, [Next]_vars
             PROVE  (SuppressionIsEarned /\ Remembered)'
  OBVIOUS
<1> USE DEF SuppressionIsEarned, Remembered, serverVars, agentVars, reconVars, history,
    Enqueued, Called
<1>1. ASSUME UNCHANGED <<up, mem, durable, released, latest>>
      PROVE  (SuppressionIsEarned /\ Remembered)'
  BY <1>1
<1>2. ASSUME NEW r \in Request, Operator(r) PROVE (SuppressionIsEarned /\ Remembered)'
  BY <1>1, <1>2 DEF Operator, CreateLockTask, SetDeviceLockState, HandlerDies
<1>3. ASSUME NEW r \in Request, Push(r) PROVE (SuppressionIsEarned /\ Remembered)'
  BY <1>3 DEF Push, PushLock, PushUnlock, PushLost, LockWith, LockFails, UnlockWith
<1>4. ASSUME NEW r \in mail, Gateway(r) PROVE (SuppressionIsEarned /\ Remembered)'
  BY <1>1, <1>4 DEF Gateway, ReportLocked, ReportUnlocked, ClearDesired
<1>5. CASE Screen
  BY <1>5 DEF Screen, ReadPassword, ReadHash, Verify, OnLocalUnlock, UnlockWith
<1>6. CASE Tamper \/ DetectOfflineUnlock \/ FetchLockStatus
  BY <1>1, <1>6 DEF Tamper, DetectOfflineUnlock, FetchLockStatus
<1>7. CASE Crash \/ Load
  BY <1>7 DEF Crash, Load, Clear, TypeOK, State
<1>8. CASE Reconcile
  <2>1. CASE SuppressLock \/ ChooseLock
    BY <1>1, <2>1 DEF SuppressLock, ChooseLock
  <2>2. CASE ReconcileLocked
    BY <2>2 DEF ReconcileLocked, LockWith, LockFails
  <2>3. CASE ReconcileUnlocked
    BY <2>3 DEF ReconcileUnlocked, UnlockWith, TypeOK, State
  <2> QED
    BY <1>8, <2>1, <2>2, <2>3 DEF Reconcile
<1>9. CASE UNCHANGED vars
  BY <1>1, <1>9 DEF vars
<1> QED
  BY <1>2, <1>3, <1>4, <1>5, <1>6, <1>7, <1>8, <1>9 DEF Next

(* The invariant holds in every reachable state.                           *)
THEOREM Invariant == Spec => []Inv
<1>1. Inv /\ [Next]_vars => Inv'
  BY TypeStep, HashedStep, MemoryStep DEF Inv
<1> QED
  BY InitInv, <1>1, PTL DEF Spec

(* Every variable keeps its type: the type invariant of lock_live.         *)
THEOREM TypeCorrect == Spec => []TypeOK
  BY Invariant, PTL DEF Inv

(* A desired lock always has a hash.                                       *)
THEOREM DesiredHasHash == Spec => []DesiredLockHasHash
<1>1. Inv => DesiredLockHasHash
  BY LockAssumption DEF Inv, Hashed, DesiredLockHasHash, LockAssumption
<1> QED
  BY <1>1, Invariant, PTL

(* What suppresses a lock on the device was earned there.                  *)
THEOREM Earned == Spec => []SuppressionIsEarned
  BY Invariant, PTL DEF Inv

(* The reconciler never chooses the lock taken off last with its password. *)
THEOREM NeverRelocked == Spec => NoRelock
<1>1. Inv /\ [Next]_vars => [ChooseLock => answer.hash # latest]_vars
  <2> SUFFICES ASSUME Inv, ChooseLock PROVE answer.hash # latest
    OBVIOUS
  <2>1. answer.hash \in Lock /\ answer.hash # NoLock
    BY LockAssumption DEF ChooseLock, Inv, Hashed, LockAssumption
  <2>2. up /\ answer.hash # mem.last
    BY DEF ChooseLock
  <2> QED
    BY <2>1, <2>2 DEF Inv, Remembered
<1> QED
  BY <1>1, Invariant, PTL DEF Spec, NoRelock
=============================================================================
