------------------------------- MODULE Outbox -------------------------------
(***************************************************************************)
(* The agent's durable report queue (src/internal/agent/outbox/outbox.go): *)
(* a directory of files named <unixnano>-<seq>-<kind>.json.  Callers put   *)
(* reports in it with Enqueue, one goroutine drains it to the server in    *)
(* name order, and one mutex (q.mu) makes each Enqueue and each flush      *)
(* exclusive.  A report is one element of Msg, enqueued at most once; its  *)
(* payload is abstracted, its kind only to the eviction class.             *)
(*                                                                         *)
(* Modelled around the queue: wall-clock readings that may repeat or step  *)
(* back, disk operations that fail, a lost reply from the server, a crash  *)
(* of the agent between any two steps and a power loss, which may tear a   *)
(* file that was renamed and never fsynced.                                *)
(***************************************************************************)
EXTENDS Integers, FiniteSets

CONSTANTS
  Msg,          \* the reports, one per Enqueue call
  Protected,    \* those whose kind is not evictable-first
  Limit,        \* q.max; 0 = no limit
  MaxAge,       \* q.maxAge in ticks; 0 = records never age out
  MaxClock,     \* bound on the wall clock
  MaxFaults,    \* bound on transient disk faults, crashes and power losses
  CanStepBack   \* whether the wall clock may be set back

ASSUME OutboxAssumption ==
  /\ IsFiniteSet(Msg) /\ "free" \notin Msg /\ "flush" \notin Msg
  /\ Protected \subseteq Msg
  /\ Limit \in Nat /\ MaxAge \in Nat /\ MaxClock \in Nat /\ MaxFaults \in Nat
  /\ CanStepBack \in BOOLEAN

VARIABLES
  clock,    \* what time.Now() returns
  disk,     \* the reports whose .json file is in the directory
  torn,     \* those of them whose content a power loss destroyed
  ts,       \* the <unixnano> of each report's file name
  seq,      \* the <seq> of each report's file name
  nseq,     \* q.seq
  mu,       \* holder of q.mu: "free", "flush", or the report being enqueued
  call,     \* what each Enqueue call has come to
  batch,    \* the files flush listed and has not handled yet
  sent,     \* dispatched by flush, its file not removed yet (a set of <= 1)
  ioErr,    \* q.ioErr # nil
  faults,   \* transient faults, crashes and power losses so far
  taken,    \* the reports the server has had, once or more
  lost,     \* reports the queue itself gave up: evicted, aged, torn, rejected
  ahead,    \* what was in the directory when each report was written
  skipped   \* the files flush could neither read nor remove

vars == <<clock, disk, torn, ts, seq, nseq, mu, call, batch, sent, ioErr,
          faults, taken, lost, ahead, skipped>>

Free  == "free"
Flush == "flush"

Calls == {"none", "written", "ok", "error", "gone"}

TypeOK ==
  /\ clock \in 0..MaxClock
  /\ disk \subseteq Msg /\ torn \subseteq disk
  /\ ts \in [Msg -> Nat] /\ seq \in [Msg -> Nat] /\ nseq \in Nat
  /\ mu \in Msg \cup {Free, Flush}
  /\ call \in [Msg -> Calls]
  /\ batch \subseteq disk /\ sent \subseteq batch
  /\ ioErr \in BOOLEAN
  /\ faults \in 0..MaxFaults
  /\ taken \subseteq Msg /\ lost \subseteq Msg
  /\ ahead \in [Msg -> SUBSET Msg] /\ skipped \subseteq Msg

Init ==
  /\ clock = 0 /\ disk = {} /\ torn = {}
  /\ ts = [m \in Msg |-> 0] /\ seq = [m \in Msg |-> 0] /\ nseq = 0
  /\ mu = Free /\ call = [m \in Msg |-> "none"] /\ batch = {} /\ sent = {}
  /\ ioErr = FALSE /\ faults = 0
  /\ taken = {} /\ lost = {}
  /\ ahead = [m \in Msg |-> {}] /\ skipped = {}

-----------------------------------------------------------------------------
(* File names.  Lexicographic order of the names is the order of <ts, seq>. *)
Older(a, b) == ts[a] < ts[b] \/ (ts[a] = ts[b] /\ seq[a] < seq[b])

Evictable(m) == m \notin Protected

(* Who holds q.mu between the two halves of an Enqueue.  The mutant lets   *)
(* go of it before enforceLimit (the race the comment at mu tells of).     *)
UnheldDuringEnqueue(m) == Free
HeldDuringEnqueue(m) == m

Fault == faults < MaxFaults /\ faults' = faults + 1

(* Some of the removals of the set S may fail: the files that stay. *)
Stubborn(S, stay) ==
  /\ stay \subseteq S
  /\ IF stay = {} THEN UNCHANGED faults ELSE Fault

-----------------------------------------------------------------------------
(* Enqueue, first half: write the temporary file and rename it.  The name  *)
(* is new: no nanosecond reading comes back with the same counter value.   *)
EnqueueWrite(m) ==
  /\ call[m] = "none" /\ mu = Free
  /\ \A f \in disk : <<ts[f], seq[f]>> # <<clock, nseq + 1>>
  /\ ahead' = [ahead EXCEPT ![m] = disk]
  /\ disk' = disk \cup {m}
  /\ ts' = [ts EXCEPT ![m] = clock]
  /\ nseq' = nseq + 1
  /\ seq' = [seq EXCEPT ![m] = nseq + 1]
  /\ call' = [call EXCEPT ![m] = "written"]
  /\ mu' = HeldDuringEnqueue(m)
  /\ ioErr' = FALSE
  /\ UNCHANGED <<clock, torn, batch, sent, faults, taken, lost, skipped>>

(* WriteFile or Rename failed: the caller gets the error, the mark is set. *)
EnqueueFail(m) ==
  /\ call[m] = "none" /\ mu = Free
  /\ Fault
  /\ nseq' = nseq + 1
  /\ call' = [call EXCEPT ![m] = "error"]
  /\ ioErr' = TRUE
  /\ UNCHANGED <<clock, disk, torn, ts, seq, mu, batch, sent, taken, lost, ahead, skipped>>

(* Candidates for eviction: every file, the fresh one only if evictable.   *)
Candidates(m) == {f \in disk : f = m => Evictable(m)}

(* Mutant: the oldest file first, whatever its kind.                       *)
ClassByAge(m, f) == IF f = m THEN 2 ELSE 1

(* Order of sacrifice: old evictable files, the fresh one, old protected.  *)
Class(m, f) == IF f = m THEN 2 ELSE IF Evictable(f) THEN 1 ELSE 3

Before(m, f, g) ==
  \/ Class(m, f) < Class(m, g)
  \/ Class(m, f) = Class(m, g) /\ Older(f, g)

(* Mutant: off by one.                                                     *)
ExcessButOne == Cardinality(disk) - Limit - 1
Excess == Cardinality(disk) - Limit

(* V is what enforceLimit removes: the first Excess candidates in order.   *)
IsVictims(m, V) ==
  /\ V \subseteq Candidates(m)
  /\ Cardinality(V) = Excess
  /\ \A f \in V, g \in Candidates(m) : Before(m, g, f) => g \in V

(* Enqueue, second half: enforceLimit, the answer to the caller.           *)
EnqueueWithinLimit(m) ==
  /\ call[m] = "written" /\ mu = HeldDuringEnqueue(m)
  /\ IF Limit = 0 \/ Cardinality(disk) <= Limit
     THEN UNCHANGED faults
     ELSE Fault                  \* the directory could not be listed
  /\ call' = [call EXCEPT ![m] = "ok"]
  /\ mu' = Free
  /\ UNCHANGED <<clock, disk, torn, ts, seq, nseq, batch, sent, ioErr, taken, lost,
                 ahead, skipped>>

EnqueueEvict(m) ==
  /\ call[m] = "written" /\ mu = HeldDuringEnqueue(m)
  /\ Limit > 0 /\ Cardinality(disk) > Limit
  /\ \E V \in SUBSET disk, stay \in SUBSET disk :
       /\ IsVictims(m, V)
       /\ Stubborn(V, stay)
       /\ disk' = disk \ (V \ stay)
       /\ torn' = torn \ (V \ stay)
       /\ lost' = lost \cup (V \ stay)
       /\ call' = [call EXCEPT ![m] = IF m \in V THEN "error" ELSE "ok"]
  /\ mu' = Free
  /\ UNCHANGED <<clock, ts, seq, nseq, batch, sent, ioErr, taken, ahead, skipped>>

-----------------------------------------------------------------------------
(* flush: drop what is too old, list the directory, then go file by file.  *)
Aged == IF MaxAge = 0 THEN {} ELSE {m \in disk : ts[m] + MaxAge < clock}

Retention ==
  \E stay \in SUBSET Aged :
    /\ Stubborn(Aged, stay)
    /\ disk' = disk \ (Aged \ stay)
    /\ torn' = torn \ (Aged \ stay)
    /\ lost' = lost \cup (Aged \ stay)

(* Mutant: the directory is listed before the retention.                   *)
FlushStartListsFirst ==
  /\ mu = Free
  /\ Retention
  /\ batch' = disk
  /\ mu' = Flush
  /\ ioErr' = FALSE
  /\ UNCHANGED <<clock, ts, seq, nseq, call, sent, taken, ahead, skipped>>

FlushStart ==
  /\ mu = Free
  /\ Retention
  /\ batch' = disk'
  /\ mu' = Flush
  /\ ioErr' = FALSE
  /\ UNCHANGED <<clock, ts, seq, nseq, call, sent, taken, ahead, skipped>>

(* The directory cannot be read: nothing is dropped, nothing delivered.    *)
FlushListFails ==
  /\ mu = Free /\ Fault
  /\ ioErr' = TRUE
  /\ UNCHANGED <<clock, disk, torn, ts, seq, nseq, mu, call, batch, sent, taken,
                 lost, ahead, skipped>>

(* Mutant: any file of the listing.                                        *)
IsListed(m) == mu = Flush /\ sent = {} /\ m \in batch

(* The next file of the pass.                                              *)
IsHead(m) ==
  /\ mu = Flush /\ sent = {}
  /\ m \in batch
  /\ \A f \in batch : f # m => Older(m, f)

(* The file does not parse, or does not open this time.                    *)
Damaged(m) == IF m \in torn THEN UNCHANGED faults ELSE Fault

(* Mutant: the file is passed over.                                        *)
FlushDamagedKept(m) ==
  /\ IsHead(m) /\ Damaged(m)
  /\ batch' = batch \ {m}
  /\ UNCHANGED <<clock, disk, torn, ts, seq, nseq, mu, call, sent, ioErr, taken, lost,
                 ahead, skipped>>

(* It is removed, and when that fails as well it waits for the next pass.  *)
FlushDamaged(m) ==
  /\ IsHead(m)
  /\ \/ /\ Damaged(m)
        /\ disk' = disk \ {m} /\ torn' = torn \ {m} /\ lost' = lost \cup {m}
        /\ UNCHANGED skipped
     \/ Fault /\ skipped' = skipped \cup {m} /\ UNCHANGED <<disk, torn, lost>>
  /\ batch' = batch \ {m}
  /\ UNCHANGED <<clock, ts, seq, nseq, mu, call, sent, ioErr, taken, ahead>>

(* dispatchReport returned nil: taken by the server, or refused by it for  *)
(* good (a terminal gRPC code), which drops the record as well.            *)
FlushDispatched(m) ==
  /\ IsHead(m) /\ m \notin torn
  /\ \/ taken' = taken \cup {m} /\ UNCHANGED lost
     \/ lost' = lost \cup {m} /\ UNCHANGED taken
  /\ sent' = {m}
  /\ UNCHANGED <<clock, disk, torn, ts, seq, nseq, mu, call, batch, ioErr, faults,
                 ahead, skipped>>

MaybeTaken(m) == taken' \in {taken, taken \cup {m}}

(* Mutants: the record is dropped; the queue is marked unavailable.        *)
FlushStopsDropping(m) ==
  /\ IsHead(m) /\ m \notin torn /\ MaybeTaken(m)
  /\ disk' = disk \ {m} /\ batch' = {} /\ mu' = Free
  /\ UNCHANGED <<clock, torn, ts, seq, nseq, call, sent, ioErr, faults, lost, ahead, skipped>>

FlushStopsMarking(m) ==
  /\ IsHead(m) /\ m \notin torn /\ MaybeTaken(m)
  /\ batch' = {} /\ mu' = Free /\ ioErr' = TRUE
  /\ UNCHANGED <<clock, disk, torn, ts, seq, nseq, call, sent, faults, lost, ahead, skipped>>

(* dispatchReport returned an error, or the context was cancelled: the     *)
(* pass ends here.  The server may have taken the report all the same.     *)
FlushStops(m) ==
  /\ IsHead(m) /\ m \notin torn /\ MaybeTaken(m)
  /\ batch' = {} /\ mu' = Free
  /\ UNCHANGED <<clock, disk, torn, ts, seq, nseq, call, sent, ioErr, faults, lost, ahead,
                 skipped>>

(* os.Remove of the dispatched file; its error is ignored.                 *)
FlushRemove ==
  /\ mu = Flush /\ sent # {}
  /\ \E stay \in SUBSET sent :
       /\ Stubborn(sent, stay)
       /\ disk' = disk \ (sent \ stay)
       /\ torn' = torn \ (sent \ stay)
  /\ batch' = batch \ sent
  /\ sent' = {}
  /\ UNCHANGED <<clock, ts, seq, nseq, mu, call, ioErr, taken, lost, ahead, skipped>>

FlushEnd ==
  /\ mu = Flush /\ batch = {}
  /\ mu' = Free
  /\ UNCHANGED <<clock, disk, torn, ts, seq, nseq, call, batch, sent, ioErr, faults,
                 taken, lost, ahead, skipped>>

-----------------------------------------------------------------------------
(* The environment.  The clock is read with q.mu just taken and nowhere    *)
(* else, so that it need not move while the mutex is held.                 *)
Tick ==
  /\ mu = Free
  /\ \/ clock < MaxClock /\ clock' = clock + 1
     \/ CanStepBack /\ clock > 0 /\ clock' = clock - 1
  /\ UNCHANGED <<disk, torn, ts, seq, nseq, mu, call, batch, sent, ioErr, faults,
                 taken, lost, ahead, skipped>>

(* The agent dies and restarts: memory, the counter with it, is gone, the  *)
(* directory is not, and the clock has moved on.  In a power loss any file *)
(* that was never fsynced may have lost its content.                       *)
Crash ==
  /\ Fault
  /\ clock < MaxClock /\ clock' = clock + 1
  /\ nseq' = 0
  /\ mu' = Free /\ batch' = {} /\ sent' = {} /\ ioErr' = FALSE
  /\ call' = [m \in Msg |-> IF call[m] = "written" THEN "gone" ELSE call[m]]
  /\ \E T \in SUBSET disk : torn' = torn \cup T
  /\ UNCHANGED <<disk, ts, seq, taken, lost, ahead, skipped>>

Enqueue(m) == EnqueueWrite(m) \/ EnqueueFail(m) \/ EnqueueWithinLimit(m) \/ EnqueueEvict(m)

FlushFile(m) == FlushDamaged(m) \/ FlushDispatched(m) \/ FlushStops(m)

Next ==
  \/ \E m \in Msg : Enqueue(m) \/ FlushFile(m)
  \/ FlushStart \/ FlushListFails \/ FlushRemove \/ FlushEnd
  \/ Tick \/ Crash

Spec == Init /\ [][Next]_vars

(* The drain goroutine runs on a ticker, code holding q.mu runs on, and    *)
(* the server answers infinitely often when it is asked infinitely often.  *)
Fairness ==
  /\ WF_vars(FlushStart) /\ WF_vars(FlushRemove) /\ WF_vars(FlushEnd)
  /\ \A m \in Msg : WF_vars(EnqueueWithinLimit(m) \/ EnqueueEvict(m))
  /\ \A m \in Msg : WF_vars(m \in torn /\ FlushDamaged(m))
  /\ \A m \in Msg : SF_vars(FlushDispatched(m))

FairSpec == Spec /\ Fairness
-----------------------------------------------------------------------------
(* An Enqueue that answers nil leaves the report on disk: no eviction,     *)
(* its own or a parallel one, has taken the file it vouches for (the       *)
(* comments at q.mu and at enforceLimit).                                  *)
NilMeansDurable ==
  [][\A m \in Msg : call[m] # "ok" /\ call'[m] = "ok" => m \in disk']_vars

(* A report whose Enqueue answered nil never vanishes without a reason: it *)
(* is on disk, or the server has had it, or a rule of the queue dropped it *)
(* (limit, age, damage, terminal refusal).                                 *)
AcceptedIsAccountedFor ==
  \A m \in Msg : call[m] = "ok" => m \in disk \cup lost \cup taken

(* enforceLimit gives up a loss-sensitive report only when such reports by *)
(* themselves overflow the limit, and then the oldest ones that the disk   *)
(* lets it remove: no flood of script or task results, nor a fresh one,    *)
(* can push one out.                                                       *)
ProtectedYieldOnlyToProtected ==
  [][\A m \in Msg :
       call[m] = "written" /\ call'[m] \in {"ok", "error"} =>
         \A p \in (disk \ disk') \cap Protected :
           /\ Cardinality(disk \cap Protected) > Limit
           /\ \A q \in (disk' \cap Protected) \ {m} : Older(p, q) \/ faults' # faults]_vars

(* FIFO: a report that waits on disk and that the server has not had was   *)
(* overtaken by one enqueued after it only if the name of the latter sorts *)
(* before its own, which takes a wall clock set back in between (newName), *)
(* or if it could be neither read nor removed.                             *)
NoOvertaking ==
  \A i \in disk, j \in taken :
    i \in ahead[j] /\ i \notin taken \cup lost \cup skipped => Older(j, i)

(* Between Enqueue calls the directory exceeds q.max by at most one file   *)
(* for each fault that stopped an eviction.                                *)
SizeBound ==
  Limit > 0 /\ mu \notin Msg => Cardinality(disk) <= Limit + faults

(* The mark Unavailable() gives the heartbeat comes from the disk alone: a *)
(* server that cannot be reached never sets it (the comment at ioErr).     *)
DegradedOnlyByDisk == ioErr => faults > 0

(* Every report leaves the directory in the end.                           *)
Drains == \A m \in Msg : m \in disk ~> m \notin disk

=============================================================================
