---------------------------- MODULE OutboxProofs ----------------------------
(***************************************************************************)
(* Proofs about Outbox, for every set of reports, limit, retention, clock  *)
(* bound and number of faults.  The inductive invariant Inv adds to TypeOK *)
(* who may hold the mutex (Mutex), what is known of a report before it is  *)
(* written (Unwritten), that file names differ (Names), and where a file   *)
(* that flush has passed stands (Pass).                                    *)
(***************************************************************************)
EXTENDS Outbox, FiniteSetTheorems, TLAPS

(* A call between its two halves holds q.mu, and its file is on disk.      *)
Mutex ==
  /\ \A m \in Msg : call[m] = "written" => mu = m /\ m \in disk
  /\ mu # Flush => batch = {} /\ sent = {}

(* A report that was not written yet has left no trace.                    *)
Unwritten ==
  \A m \in Msg : call[m] = "none" =>
    /\ m \notin disk \cup taken \cup lost \cup skipped
    /\ \A j \in Msg : m \notin ahead[j]

Names == \A f, g \in disk : f # g => <<ts[f], seq[f]>> # <<ts[g], seq[g]>>

(* What flush has dispatched was taken or given up, and a file it passed   *)
(* and left in the directory was one of these or skipped.                  *)
Pass ==
  /\ sent \subseteq taken \cup lost
  /\ mu = Flush => disk \ batch \subseteq taken \cup lost \cup skipped
  /\ \A j \in Msg : j \notin ahead[j]

Inv == TypeOK /\ Mutex /\ Unwritten /\ Names /\ Pass

-----------------------------------------------------------------------------
(* The initial states satisfy the invariant.                               *)
LEMMA InitInv == Init => Inv
<1> SUFFICES ASSUME Init PROVE Inv
  OBVIOUS
<1> USE OutboxAssumption DEF OutboxAssumption, Init, Free, Flush
<1>1. TypeOK
  <2>1. ioErr \in BOOLEAN
    BY Zenon
  <2>2. /\ ts \in [Msg -> Nat] /\ seq \in [Msg -> Nat] /\ nseq \in Nat
        /\ clock \in 0..MaxClock /\ faults \in 0..MaxFaults
    OBVIOUS
  <2>3. /\ call \in [Msg -> Calls] /\ ahead \in [Msg -> SUBSET Msg]
        /\ mu \in Msg \cup {Free, Flush}
    BY DEF Calls
  <2> QED
    BY <2>1, <2>2, <2>3, Zenon DEF TypeOK
<1>2. Mutex /\ Unwritten /\ Names /\ Pass
  BY DEF Mutex, Unwritten, Names, Pass
<1> QED
  BY <1>1, <1>2 DEF Inv

Numbers ==
  /\ clock \in 0..MaxClock /\ faults \in 0..MaxFaults
  /\ ts \in [Msg -> Nat] /\ seq \in [Msg -> Nat] /\ nseq \in Nat

Sets ==
  /\ disk \subseteq Msg /\ torn \subseteq disk
  /\ batch \subseteq disk /\ sent \subseteq batch
  /\ taken \subseteq Msg /\ lost \subseteq Msg /\ skipped \subseteq Msg

Places ==
  /\ mu \in Msg \cup {Free, Flush}
  /\ call \in [Msg -> Calls]
  /\ ahead \in [Msg -> SUBSET Msg]

(* Types are preserved by every step.                                      *)
LEMMA TypeStep == TypeOK /\ Mutex /\ [Next]_vars => TypeOK'
<1> SUFFICES ASSUME TypeOK, Mutex, [Next]_vars PROVE TypeOK'
  OBVIOUS
<1>0. Numbers /\ Sets /\ Places /\ ioErr \in BOOLEAN
  BY Zenon DEF TypeOK, Numbers, Sets, Places
<1> DEFINE Goal == Numbers' /\ Sets' /\ Places'
<1> USE <1>0, OutboxAssumption DEF OutboxAssumption, Calls, Free, Flush, Fault, HeldDuringEnqueue
<1>1. ASSUME NEW m \in Msg, EnqueueWrite(m) PROVE Goal
  BY <1>1 DEF EnqueueWrite, Numbers, Sets, Places
<1>2. ASSUME NEW m \in Msg, EnqueueFail(m) PROVE Goal
  BY <1>2 DEF EnqueueFail, Numbers, Sets, Places
<1>3. ASSUME NEW m \in Msg, EnqueueWithinLimit(m) PROVE Goal
  BY <1>3 DEF EnqueueWithinLimit, Numbers, Sets, Places
<1>4. ASSUME NEW m \in Msg, EnqueueEvict(m) PROVE Goal
  BY <1>4 DEF EnqueueEvict, Stubborn, Mutex, Numbers, Sets, Places
<1>5. ASSUME NEW m \in Msg, FlushDamaged(m) PROVE Goal
  <2>1. Numbers'
    BY <1>5 DEF FlushDamaged, Damaged, IsHead, Numbers
  <2>2. Sets'
    BY <1>5 DEF FlushDamaged, Damaged, IsHead, Sets
  <2>3. Places'
    BY <1>5 DEF FlushDamaged, Damaged, IsHead, Places, Sets
  <2> QED
    BY <2>1, <2>2, <2>3
<1>6. ASSUME NEW m \in Msg, FlushDispatched(m) PROVE Goal
  BY <1>6 DEF FlushDispatched, IsHead, Numbers, Sets, Places
<1>7. ASSUME NEW m \in Msg, FlushStops(m) PROVE Goal
  BY <1>7 DEF FlushStops, IsHead, MaybeTaken, Numbers, Sets, Places
<1>8. ASSUME FlushStart PROVE Goal
  <2>1. Numbers'
    BY <1>8 DEF FlushStart, Retention, Stubborn, Aged, Mutex, Numbers
  <2>2. Sets'
    BY <1>8 DEF FlushStart, Retention, Stubborn, Aged, Mutex, Sets
  <2>3. Places'
    BY <1>8 DEF FlushStart, Retention, Stubborn, Aged, Mutex, Places, Sets
  <2> QED
    BY <2>1, <2>2, <2>3
<1>9. ASSUME FlushListFails PROVE Goal
  BY <1>9 DEF FlushListFails, Numbers, Sets, Places
<1>10. ASSUME FlushRemove PROVE Goal
  BY <1>10 DEF FlushRemove, Stubborn, Numbers, Sets, Places
<1>11. ASSUME FlushEnd PROVE Goal
  BY <1>11 DEF FlushEnd, Numbers, Sets, Places
<1>12. ASSUME Tick PROVE Goal
  BY <1>12 DEF Tick, Numbers, Sets, Places
<1>13. ASSUME Crash PROVE Goal
  BY <1>13 DEF Crash, Numbers, Sets, Places
<1>14. ASSUME UNCHANGED vars PROVE Goal
  BY <1>14 DEF vars, Numbers, Sets, Places
<1>15. ioErr' \in BOOLEAN
  BY Zenon DEF Next, Enqueue, FlushFile, vars, EnqueueWrite, EnqueueFail, EnqueueWithinLimit,
     EnqueueEvict, FlushDamaged, FlushDispatched, FlushStops, FlushStart, FlushListFails,
     FlushRemove, FlushEnd, Tick, Crash
<1> QED
  BY <1>1, <1>2, <1>3, <1>4, <1>5, <1>6, <1>7, <1>8, <1>9, <1>10, <1>11, <1>12, <1>13, <1>14, <1>15, Zenon
  DEF Next, Enqueue, FlushFile, TypeOK, Numbers, Sets, Places

(* The rest of the invariant is preserved, part by part.                   *)
LEMMA MutexStep == TypeOK /\ Mutex /\ [Next]_vars => Mutex'
<1> SUFFICES ASSUME TypeOK, Mutex, [Next]_vars PROVE Mutex'
  OBVIOUS
<1> USE OutboxAssumption DEF OutboxAssumption, Calls, Free, Flush, HeldDuringEnqueue, TypeOK, Mutex
<1>1. ASSUME NEW m \in Msg, EnqueueWrite(m) PROVE Mutex'
  BY <1>1 DEF EnqueueWrite
<1>2. ASSUME NEW m \in Msg, EnqueueFail(m) PROVE Mutex'
  BY <1>2 DEF EnqueueFail
<1>3. ASSUME NEW m \in Msg, EnqueueWithinLimit(m) \/ EnqueueEvict(m) PROVE Mutex'
  BY <1>3 DEF EnqueueWithinLimit, EnqueueEvict
<1>4. ASSUME NEW m \in Msg, FlushFile(m) PROVE Mutex'
  BY <1>4 DEF FlushFile, FlushDamaged, FlushDispatched, FlushStops, IsHead
<1>5. CASE FlushStart
  BY <1>5 DEF FlushStart, Retention
<1>6. CASE FlushListFails \/ FlushRemove \/ FlushEnd
  BY <1>6 DEF FlushListFails, FlushRemove, FlushEnd
<1>7. CASE Tick \/ Crash
  BY <1>7 DEF Tick, Crash
<1>8. CASE UNCHANGED vars
  BY <1>8 DEF vars
<1> QED
  BY <1>1, <1>2, <1>3, <1>4, <1>5, <1>6, <1>7, <1>8 DEF Next, Enqueue


LEMMA UnwrittenStep == TypeOK /\ Mutex /\ Unwritten /\ [Next]_vars => Unwritten'
<1> SUFFICES ASSUME TypeOK, Mutex, Unwritten, [Next]_vars PROVE Unwritten'
  OBVIOUS
<1> USE DEF Calls, Free, Flush, HeldDuringEnqueue, TypeOK, Unwritten
<1>1. ASSUME NEW m \in Msg, EnqueueWrite(m) PROVE Unwritten'
  BY <1>1 DEF EnqueueWrite
<1>2. ASSUME NEW m \in Msg, EnqueueFail(m) PROVE Unwritten'
  BY <1>2 DEF EnqueueFail
<1>3. ASSUME NEW m \in Msg, EnqueueWithinLimit(m) \/ EnqueueEvict(m) PROVE Unwritten'
  BY <1>3 DEF EnqueueWithinLimit, EnqueueEvict, IsVictims, Candidates
<1>4. ASSUME NEW m \in Msg, FlushFile(m) PROVE Unwritten'
  BY <1>4 DEF FlushFile, FlushDamaged, FlushDispatched, FlushStops, IsHead, MaybeTaken
<1>5. CASE FlushStart
  BY <1>5 DEF FlushStart, Retention, Aged
<1>6. CASE FlushListFails \/ FlushRemove \/ FlushEnd
  BY <1>6 DEF FlushListFails, FlushRemove, FlushEnd
<1>7. CASE Tick \/ Crash
  BY <1>7 DEF Tick, Crash
<1>8. CASE UNCHANGED vars
  BY <1>8 DEF vars
<1> QED
  BY <1>1, <1>2, <1>3, <1>4, <1>5, <1>6, <1>7, <1>8 DEF Next, Enqueue

(* Only EnqueueWrite gives a name, and only to a file that is not there.   *)
LEMMA NamesStep == TypeOK /\ Unwritten /\ Names /\ [Next]_vars => Names'
<1> SUFFICES ASSUME TypeOK, Unwritten, Names, [Next]_vars PROVE Names'
  OBVIOUS
<1>1. ASSUME NEW m \in Msg, EnqueueWrite(m) PROVE Names'
  <2> USE <1>1 DEF EnqueueWrite, TypeOK, Names
  <2>1. \A f \in disk : ts'[f] = ts[f] /\ seq'[f] = seq[f]
    BY DEF Unwritten
  <2>2. ts'[m] = clock /\ seq'[m] = nseq + 1
    OBVIOUS
  <2> QED
    BY <2>1, <2>2
<1>2. ASSUME disk' \subseteq disk, UNCHANGED <<ts, seq>> PROVE Names'
  BY <1>2 DEF Names
<1>3. ASSUME NEW m \in Msg, EnqueueFail(m) \/ EnqueueWithinLimit(m) \/ EnqueueEvict(m) \/ FlushFile(m)
      PROVE  Names'
  BY <1>2, <1>3 DEF EnqueueFail, EnqueueWithinLimit, EnqueueEvict, FlushFile, FlushDamaged,
     FlushDispatched, FlushStops
<1>4. CASE FlushStart \/ FlushListFails \/ FlushRemove \/ FlushEnd
  BY <1>2, <1>4 DEF FlushStart, Retention, FlushListFails, FlushRemove, FlushEnd
<1>5. CASE Tick \/ Crash \/ UNCHANGED vars
  BY <1>2, <1>5 DEF Tick, Crash, vars
<1> QED
  BY <1>1, <1>3, <1>4, <1>5 DEF Next, Enqueue

LEMMA PassStep == TypeOK /\ Mutex /\ Unwritten /\ Pass /\ [Next]_vars => Pass'
<1> SUFFICES ASSUME TypeOK, Mutex, Unwritten, Pass, [Next]_vars PROVE Pass'
  OBVIOUS
<1> USE OutboxAssumption DEF OutboxAssumption, Calls, Free, Flush, HeldDuringEnqueue, TypeOK, Mutex, Pass
<1>1. ASSUME NEW m \in Msg, EnqueueWrite(m) PROVE Pass'
  BY <1>1 DEF EnqueueWrite, Unwritten
<1>2. ASSUME NEW m \in Msg, EnqueueFail(m) PROVE Pass'
  BY <1>2 DEF EnqueueFail
<1>3. ASSUME NEW m \in Msg, EnqueueWithinLimit(m) \/ EnqueueEvict(m) PROVE Pass'
  BY <1>3 DEF EnqueueWithinLimit, EnqueueEvict
<1>4. ASSUME NEW m \in Msg, FlushFile(m) PROVE Pass'
  BY <1>4 DEF FlushFile, FlushDamaged, FlushDispatched, FlushStops, IsHead, MaybeTaken
<1>5. CASE FlushStart
  BY <1>5 DEF FlushStart, Retention
<1>6. CASE FlushListFails \/ FlushRemove \/ FlushEnd
  BY <1>6 DEF FlushListFails, FlushRemove, FlushEnd
<1>7. CASE Tick \/ Crash
  BY <1>7 DEF Tick, Crash
<1>8. CASE UNCHANGED vars
  BY <1>8 DEF vars
<1> QED
  BY <1>1, <1>2, <1>3, <1>4, <1>5, <1>6, <1>7, <1>8 DEF Next, Enqueue

(* The invariant holds in every reachable state.                           *)
THEOREM Invariant == Spec => []Inv
<1>1. Inv /\ [Next]_vars => Inv'
  BY TypeStep, MutexStep, UnwrittenStep, NamesStep, PassStep DEF Inv
<1> QED
  BY InitInv, <1>1, PTL DEF Spec

(* Every variable keeps its type: the type invariant of outbox_safety.     *)
THEOREM TypeCorrect == Spec => []TypeOK
  BY Invariant, PTL DEF Inv

-----------------------------------------------------------------------------
(* An Enqueue that answers nil leaves its report on disk: the two halves   *)
(* run under q.mu, so that no other eviction comes between (the comment at *)
(* the field mu), and its own does not choose the fresh file silently.     *)
THEOREM NilIsDurable == Spec => NilMeansDurable
<1>1. Inv /\ [Next]_vars => [\A m \in Msg : call[m] # "ok" /\ call'[m] = "ok" => m \in disk']_vars
  <2> SUFFICES ASSUME Inv, Next, NEW m \in Msg, call[m] # "ok", call'[m] = "ok" PROVE m \in disk'
    OBVIOUS
  <2> USE DEF Calls, Inv, TypeOK
  <2>1. ASSUME NEW n \in Msg, Enqueue(n) PROVE m \in disk'
    BY <2>1 DEF Enqueue, EnqueueWrite, EnqueueFail, EnqueueWithinLimit, EnqueueEvict, Mutex
  <2>2. call' = call \/ Crash => FALSE
    BY DEF Crash
  <2> QED
    BY <2>1, <2>2 DEF Next, FlushFile, FlushDamaged, FlushDispatched, FlushStops, FlushStart,
       FlushListFails, FlushRemove, FlushEnd, Tick
<1> QED
  BY <1>1, Invariant, PTL DEF Spec, NilMeansDurable

(* No report vanishes unaccounted for once its Enqueue has answered nil.   *)
THEOREM Accounted == Spec => []AcceptedIsAccountedFor
<1>1. Init => AcceptedIsAccountedFor
  BY DEF Init, AcceptedIsAccountedFor
<1>2. Inv /\ AcceptedIsAccountedFor /\ [Next]_vars => AcceptedIsAccountedFor'
  <2> SUFFICES ASSUME Inv, AcceptedIsAccountedFor, [Next]_vars PROVE AcceptedIsAccountedFor'
    OBVIOUS
  <2> USE DEF Calls, Inv, TypeOK, AcceptedIsAccountedFor
  <2>1. ASSUME NEW n \in Msg, Enqueue(n) PROVE AcceptedIsAccountedFor'
    BY <2>1 DEF Enqueue, EnqueueWrite, EnqueueFail, EnqueueWithinLimit, EnqueueEvict, Mutex
  <2>2. ASSUME NEW n \in Msg, FlushFile(n) PROVE AcceptedIsAccountedFor'
    BY <2>2 DEF FlushFile, FlushDamaged, FlushDispatched, FlushStops, MaybeTaken
  <2>3. CASE FlushRemove
    BY <2>3 DEF FlushRemove, Pass
  <2>4. CASE FlushStart \/ FlushListFails \/ FlushEnd
    BY <2>4 DEF FlushStart, Retention, FlushListFails, FlushEnd
  <2>5. CASE Tick \/ Crash \/ UNCHANGED vars
    BY <2>5 DEF Tick, Crash, vars
  <2> QED
    BY <2>1, <2>2, <2>3, <2>4, <2>5 DEF Next
<1> QED
  BY <1>1, <1>2, Invariant, PTL DEF Spec

(* FIFO: the head of the pass is older than every file left, those passed  *)
(* over are accounted for (Pass), and names never change.                  *)
THEOREM Fifo == Spec => []NoOvertaking
<1>1. Init => NoOvertaking
  BY DEF Init, NoOvertaking
<1>2. Inv /\ NoOvertaking /\ [Next]_vars => NoOvertaking'
  <2> SUFFICES ASSUME Inv, NoOvertaking, [Next]_vars PROVE NoOvertaking'
    OBVIOUS
  <2> USE DEF Inv, TypeOK, NoOvertaking, Older
  <2>1. ASSUME NEW m \in Msg, EnqueueWrite(m) PROVE NoOvertaking'
    BY <2>1 DEF EnqueueWrite, Unwritten
  <2>2. ASSUME disk' \subseteq disk, taken' = taken, lost \subseteq lost', skipped \subseteq skipped',
               UNCHANGED <<ts, seq, ahead>>
        PROVE  NoOvertaking'
    BY <2>2
  <2>3. ASSUME NEW m \in Msg, EnqueueFail(m) \/ EnqueueWithinLimit(m) \/ EnqueueEvict(m)
        PROVE  NoOvertaking'
    BY <2>2, <2>3 DEF EnqueueFail, EnqueueWithinLimit, EnqueueEvict
  <2>4. ASSUME NEW m \in Msg, FlushDamaged(m) PROVE NoOvertaking'
    BY <2>2, <2>4 DEF FlushDamaged
  <2>5. ASSUME NEW m \in Msg, IsHead(m), taken' \subseteq taken \cup {m}, taken \subseteq taken',
               lost \subseteq lost', UNCHANGED <<disk, ts, seq, ahead, skipped>>
        PROVE  NoOvertaking'
    BY <2>5 DEF IsHead, Pass
  <2>6. ASSUME NEW m \in Msg, FlushDispatched(m) \/ FlushStops(m) PROVE NoOvertaking'
    BY <2>5, <2>6 DEF FlushDispatched, FlushStops, MaybeTaken
  <2>7. CASE FlushStart \/ FlushListFails \/ FlushRemove \/ FlushEnd
    BY <2>2, <2>7 DEF FlushStart, Retention, FlushListFails, FlushRemove, FlushEnd
  <2>8. CASE Tick \/ Crash \/ UNCHANGED vars
    BY <2>2, <2>8 DEF Tick, Crash, vars
  <2> QED
    BY <2>1, <2>3, <2>4, <2>6, <2>7, <2>8 DEF Next, Enqueue, FlushFile
<1> QED
  BY <1>1, <1>2, Invariant, PTL DEF Spec

-----------------------------------------------------------------------------
(* What enforceLimit chooses: exactly the excess over the limit, and every *)
(* evictable file before a protected one.                                  *)
LEMMA VictimsLeaveLimit ==
  ASSUME TypeOK, NEW m \in Msg, NEW V, IsVictims(m, V)
  PROVE  V \subseteq disk /\ Cardinality(disk \ V) = Limit
<1>1. IsFiniteSet(disk) /\ V \subseteq disk
  BY OutboxAssumption, FS_Subset DEF OutboxAssumption, TypeOK, IsVictims, Candidates
<1>2. disk \cap V = V
  BY <1>1
<1>3. Cardinality(disk \ V) = Cardinality(disk) - Cardinality(V)
  BY <1>1, <1>2, FS_Difference
<1>4. Cardinality(disk) \in Nat /\ Limit \in Nat
  BY <1>1, FS_CardinalityType, OutboxAssumption DEF OutboxAssumption
<1> QED
  BY <1>1, <1>3, <1>4 DEF IsVictims, Excess

LEMMA ProtectedVictims ==
  ASSUME TypeOK, Names, NEW m \in Msg, NEW V, IsVictims(m, V), NEW p \in V \cap Protected
  PROVE  /\ disk \ V \subseteq Protected
         /\ \A q \in (disk \ V) \ {m} : Older(p, q)
<1> USE OutboxAssumption DEF OutboxAssumption, TypeOK, Candidates, Evictable
<1>1. p \in disk /\ p # m /\ Class(m, p) = 3
  BY DEF IsVictims, Class
<1>2. ASSUME NEW q \in disk \ V, q \notin Protected PROVE FALSE
  <2>1. q \in Candidates(m) /\ Class(m, q) \in {1, 2}
    BY <1>2 DEF Class
  <2> QED
    BY <1>1, <1>2, <2>1 DEF IsVictims, Before
<1>3. ASSUME NEW q \in (disk \ V) \ {m} PROVE Older(p, q)
  <2>1. q \in Candidates(m) /\ Class(m, q) = 3
    BY <1>2 DEF Class
  <2>2. ~Older(q, p)
    BY <1>1, <2>1 DEF IsVictims, Before
  <2>3. <<ts[q], seq[q]>> # <<ts[p], seq[p]>>
    BY <1>1 DEF Names
  <2>4. ts[p] \in Nat /\ ts[q] \in Nat /\ seq[p] \in Nat /\ seq[q] \in Nat
    BY <1>1
  <2> QED
    BY <2>2, <2>3, <2>4 DEF Older
<1> QED
  BY <1>2, <1>3

(* A loss-sensitive report yields only to others of its kind, the oldest   *)
(* first: all files that stay are protected, and they fill the limit.      *)
THEOREM ProtectedYield == Spec => ProtectedYieldOnlyToProtected
<1> DEFINE Yields(m) ==
      \A p \in (disk \ disk') \cap Protected :
        /\ Cardinality(disk \cap Protected) > Limit
        /\ \A q \in (disk' \cap Protected) \ {m} : Older(p, q) \/ faults' # faults
<1>1. ASSUME Inv, NEW m \in Msg, EnqueueEvict(m) PROVE Yields(m)
  <2> USE DEF Inv
  <2>1. PICK V \in SUBSET disk, stay \in SUBSET disk :
          /\ IsVictims(m, V) /\ Stubborn(V, stay)
          /\ disk' = disk \ (V \ stay)
    BY <1>1 DEF EnqueueEvict
  <2> SUFFICES ASSUME NEW p \in (disk \ disk') \cap Protected
               PROVE  /\ Cardinality(disk \cap Protected) > Limit
                      /\ \A q \in (disk' \cap Protected) \ {m} : Older(p, q) \/ faults' # faults
    OBVIOUS
  <2>2. p \in V \cap Protected
    BY <2>1
  <2>3. /\ disk \ V \subseteq Protected
        /\ \A q \in (disk \ V) \ {m} : Older(p, q)
    BY <1>1, <2>1, <2>2, ProtectedVictims
  <2>4. Cardinality(disk \cap Protected) > Limit
    <3>1. IsFiniteSet(disk \cap Protected) /\ IsFiniteSet(disk \ V)
      BY <1>1, OutboxAssumption, FS_Subset DEF OutboxAssumption, TypeOK
    <3>2. Cardinality((disk \ V) \cup {p}) = Limit + 1
      <4>1. p \notin disk \ V
        BY <2>2
      <4>2. Cardinality(disk \ V) = Limit
        BY <1>1, <2>1, VictimsLeaveLimit
      <4> QED
        BY <3>1, <4>1, <4>2, FS_AddElement
    <3>3. Cardinality((disk \ V) \cup {p}) <= Cardinality(disk \cap Protected)
      BY <2>2, <2>3, <3>1, FS_Subset
    <3>4. Limit \in Nat /\ Cardinality(disk \cap Protected) \in Nat
      BY <3>1, FS_CardinalityType, OutboxAssumption DEF OutboxAssumption
    <3> QED
      BY <3>2, <3>3, <3>4
  <2>5. stay # {} => faults' # faults
    BY <1>1, <2>1, OutboxAssumption DEF OutboxAssumption, Stubborn, Fault, TypeOK
  <2>6. stay = {} => disk' = disk \ V
    BY <2>1
  <2> QED
    BY <2>3, <2>4, <2>5, <2>6
<1>2. Inv /\ [Next]_vars =>
        [\A m \in Msg : call[m] = "written" /\ call'[m] \in {"ok", "error"} => Yields(m)]_vars
  <2> SUFFICES ASSUME Inv, Next, NEW m \in Msg, call[m] = "written", call'[m] \in {"ok", "error"}
               PROVE  Yields(m)
    BY DEF Calls
  <2> HIDE DEF Yields
  <2> USE DEF Calls, Inv, TypeOK
  <2>1. ASSUME NEW n \in Msg, EnqueueWrite(n) \/ EnqueueFail(n) PROVE FALSE
    BY <2>1 DEF EnqueueWrite, EnqueueFail
  <2>2. ASSUME NEW n \in Msg, EnqueueWithinLimit(n) PROVE Yields(m)
    BY <2>2 DEF EnqueueWithinLimit, Yields
  <2>3. ASSUME NEW n \in Msg, EnqueueEvict(n) PROVE Yields(m)
    <3>1. n = m
      BY <2>3 DEF EnqueueEvict
    <3> QED
      BY <1>1, <2>3, <3>1
  <2>4. call' = call \/ Crash => FALSE
    BY DEF Crash
  <2> QED
    BY <2>1, <2>2, <2>3, <2>4 DEF Next, Enqueue, FlushFile, FlushDamaged, FlushDispatched,
       FlushStops, FlushStart, FlushListFails, FlushRemove, FlushEnd, Tick
<1> QED
  BY <1>2, Invariant, PTL DEF Spec, ProtectedYieldOnlyToProtected, Yields

(* SizeBound, with the file of an Enqueue under way: an eviction that      *)
(* meets no fault takes the directory back to the limit.                   *)
Size == Limit > 0 => Cardinality(disk) <= Limit + faults + (IF mu \in Msg THEN 1 ELSE 0)

(* The limit holds up to one file per fault.                               *)
THEOREM Bounded == Spec => []SizeBound
<1>1. Init => Size
  BY OutboxAssumption, FS_EmptySet DEF OutboxAssumption, Init, Size, Free
<1>2. Inv /\ Size /\ [Next]_vars => Size'
  <2> SUFFICES ASSUME Inv, Size, [Next]_vars, Limit > 0
               PROVE  Cardinality(disk') <= Limit + faults' + (IF mu' \in Msg THEN 1 ELSE 0)
    BY DEF Size
  <2>0. /\ Limit \in Nat /\ MaxFaults \in Nat /\ faults \in Nat /\ IsFiniteSet(disk)
        /\ Cardinality(disk) \in Nat /\ "free" \notin Msg /\ "flush" \notin Msg
        /\ Cardinality(disk) <= Limit + faults + (IF mu \in Msg THEN 1 ELSE 0)
    BY OutboxAssumption, FS_Subset, FS_CardinalityType DEF OutboxAssumption, Inv, TypeOK, Size
  <2> USE <2>0 DEF Free, Flush, Fault, HeldDuringEnqueue
  <2>1. ASSUME NEW m \in Msg, EnqueueWrite(m)
        PROVE  Cardinality(disk') <= Limit + faults' + (IF mu' \in Msg THEN 1 ELSE 0)
    <3>1. Cardinality(disk') <= Cardinality(disk) + 1
      <4>1. Cardinality(disk \cup {m}) = IF m \in disk THEN Cardinality(disk) ELSE Cardinality(disk) + 1
        BY FS_AddElement
      <4> QED
        BY <2>1, <4>1 DEF EnqueueWrite
    <3>2. mu = Free /\ mu' = m /\ faults' = faults
      BY <2>1 DEF EnqueueWrite
    <3>3. Cardinality(disk') \in Nat
      BY <2>1, FS_AddElement, FS_CardinalityType DEF EnqueueWrite
    <3> QED
      BY <3>1, <3>2, <3>3
  <2>2. ASSUME disk' \subseteq disk
        PROVE  Cardinality(disk') \in Nat /\ Cardinality(disk') <= Cardinality(disk)
    BY <2>2, FS_Subset, FS_CardinalityType
  <2>3. ASSUME NEW m \in Msg, EnqueueWithinLimit(m)
        PROVE  Cardinality(disk') <= Limit + faults' + (IF mu' \in Msg THEN 1 ELSE 0)
    BY <2>3 DEF EnqueueWithinLimit
  <2>4. ASSUME NEW m \in Msg, EnqueueEvict(m)
        PROVE  Cardinality(disk') <= Limit + faults' + (IF mu' \in Msg THEN 1 ELSE 0)
    <3>1. PICK V \in SUBSET disk, stay \in SUBSET disk :
            IsVictims(m, V) /\ Stubborn(V, stay) /\ disk' = disk \ (V \ stay)
      BY <2>4 DEF EnqueueEvict
    <3>2. mu = m /\ mu' = Free
      BY <2>4 DEF EnqueueEvict
    <3>3. CASE stay = {}
      BY <2>4, <3>1, <3>2, <3>3, VictimsLeaveLimit DEF Stubborn, Inv
    <3>4. CASE stay # {}
      BY <2>2, <3>1, <3>2, <3>4 DEF Stubborn
    <3> QED
      BY <3>3, <3>4
  <2>5. ASSUME disk' \subseteq disk, faults' \in {faults, faults + 1},
               mu \in Msg /\ mu' \notin Msg => faults' = faults + 1
        PROVE  Cardinality(disk') <= Limit + faults' + (IF mu' \in Msg THEN 1 ELSE 0)
    BY <2>2, <2>5
  <2>6. ASSUME NEW m \in Msg, EnqueueFail(m) \/ FlushFile(m)
        PROVE  Cardinality(disk') <= Limit + faults' + (IF mu' \in Msg THEN 1 ELSE 0)
    BY <2>5, <2>6 DEF EnqueueFail, FlushFile, FlushDamaged, Damaged, FlushDispatched, FlushStops,
       IsHead
  <2>7. CASE FlushStart \/ FlushListFails \/ FlushRemove \/ FlushEnd
    BY <2>5, <2>7 DEF FlushStart, Retention, Stubborn, FlushListFails, FlushRemove, FlushEnd
  <2>8. CASE Tick \/ Crash \/ UNCHANGED vars
    BY <2>5, <2>8 DEF Tick, Crash, vars
  <2> QED
    BY <2>1, <2>3, <2>4, <2>6, <2>7, <2>8 DEF Next, Enqueue
<1>3. Inv /\ Size => SizeBound
  BY OutboxAssumption DEF OutboxAssumption, Inv, TypeOK, Size, SizeBound
<1> QED
  BY <1>1, <1>2, <1>3, Invariant, PTL DEF Spec

(* Only a disk operation that failed marks the queue unavailable.          *)
THEOREM DiskAlone == Spec => []DegradedOnlyByDisk
<1>1. Init => DegradedOnlyByDisk
  BY DEF Init, DegradedOnlyByDisk
<1>2. Inv /\ DegradedOnlyByDisk /\ [Next]_vars => DegradedOnlyByDisk'
  <2> SUFFICES ASSUME Inv, DegradedOnlyByDisk, [Next]_vars PROVE ioErr' => faults' > 0
    BY DEF DegradedOnlyByDisk
  <2>0. faults \in Nat /\ (ioErr => faults > 0)
    BY OutboxAssumption DEF OutboxAssumption, Inv, TypeOK, DegradedOnlyByDisk
  <2>1. ASSUME NEW m \in Msg, Enqueue(m) \/ FlushFile(m)
        PROVE  faults' \in {faults, faults + 1} /\ (ioErr' => ioErr \/ Fault)
    <3>1. faults' \in {faults, faults + 1}
      BY <2>1 DEF Enqueue, EnqueueWrite, EnqueueFail, EnqueueWithinLimit, EnqueueEvict, FlushFile,
         FlushDamaged, Damaged, FlushDispatched, FlushStops, Fault, Stubborn
    <3>2. ioErr' => ioErr \/ Fault
      BY <2>1, Zenon DEF Enqueue, EnqueueWrite, EnqueueFail, EnqueueWithinLimit, EnqueueEvict,
         FlushFile, FlushDamaged, FlushDispatched, FlushStops
    <3> QED
      BY <3>1, <3>2
  <2>2. ASSUME FlushStart \/ FlushListFails \/ FlushRemove \/ FlushEnd \/ Tick \/ Crash \/ UNCHANGED vars
        PROVE  faults' \in {faults, faults + 1} /\ (ioErr' => ioErr \/ Fault)
    <3>1. faults' \in {faults, faults + 1}
      BY <2>2 DEF FlushStart, Retention, FlushListFails, FlushRemove, FlushEnd, Tick, Crash, vars,
         Fault, Stubborn
    <3>2. ioErr' => ioErr \/ Fault
      BY <2>2, Zenon DEF FlushStart, FlushListFails, FlushRemove, FlushEnd, Tick, Crash, vars
    <3> QED
      BY <3>1, <3>2
  <2>3. faults' \in {faults, faults + 1} /\ (ioErr' => ioErr \/ Fault)
    BY <2>1, <2>2 DEF Next
  <2>4. (faults > 0 => faults' > 0) /\ (Fault => faults' > 0)
    BY <2>0, <2>3 DEF Fault
  <2> QED
    BY <2>0, <2>3, <2>4, Zenon
<1> QED
  BY <1>1, <1>2, Invariant, PTL DEF Spec
=============================================================================
