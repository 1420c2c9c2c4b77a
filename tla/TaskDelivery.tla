---------------------------- MODULE TaskDelivery ----------------------------
(***************************************************************************)
(* The life of ad-hoc tasks of one device, from the row in the tasks table *)
(* to the result in it:                                                    *)
(*   - the server's rows and their sweeps (storage/postgres.go, the        *)
(*     reconciler in cmd/server/main.go);                                  *)
(*   - the delivery jobs in asynq and their handler (worker/worker.go);    *)
(*   - the registry channel and the Connect stream (registry/registry.go,  *)
(*     gateway.Connect), lost when the connection is;                      *)
(*   - the agent's executor (agent/command/executor.go, seen.go): one      *)
(*     goroutine per accepted task, the semaphore, the persistent          *)
(*     seen-set, re-acknowledgements, graceful shutdown, crashes;          *)
(*   - the way back of the result: outbox, or a direct call.               *)
(* The queue of Outbox appears here as a set of results that are delivered *)
(* in any order, perhaps twice, and perhaps dropped.                       *)
(***************************************************************************)
EXTENDS Integers, Sequences, FiniteSets

CONSTANTS
  Task,           \* ids of the tasks created for the device
  Gated,          \* those that need a semaphore slot (script, uninstall)
  Silent,         \* those that never report a TaskResult (lock, unlock)
  Slots,          \* maxConcurrentTasks
  ChanCap,        \* capacity of the registry channel
  OfflineRetries, \* offlineDeliveryRetries
  MaxRetry,       \* asynq.MaxRetry of a delivery job
  MaxFaults,      \* bound on crashes, stops, lost calls and broken links
  LinesGetLost    \* whether the seen-set file may refuse a line, or lose one
                  \* it took to a power loss (it is never fsynced)

ASSUME TaskAssumption ==
  /\ Gated \subseteq Task /\ Silent \subseteq Task
  /\ Slots \in Nat \ {0} /\ ChanCap \in Nat \ {0}
  /\ OfflineRetries \in Nat /\ MaxRetry \in Nat /\ MaxFaults \in Nat
  /\ LinesGetLost \in BOOLEAN

VARIABLES
  \* the server
  status,   \* tasks.status; "reported" is 'completed' or 'failed', as the result
            \* says, "timedout" is 'failed' with the sweep's error_log
  got,      \* tasks whose result ReportTaskResult has stored
  jobs,     \* delivery jobs in asynq
  link,     \* the device's registration: "none", "live", "dead" (peer gone)
  chan,     \* registry channel and stream: tasks on their way to the agent
  resend,   \* gateway.Connect still has to re-enqueue the pending tasks
  \* the agent
  mode,     \* "up", "stopping" (Shutdown called), "down"
  work,     \* where each task's goroutine is; "idle" = not in inflight
  echoes,   \* started tasks with a re-acknowledging goroutine
  seen,     \* the seen-set in memory
  seenDisk, \* and in its file
  unsaved,  \* tasks whose line the file refused or lost
  outbox,   \* results in the durable queue
  runs,     \* executions of each task (capped at 2)
  \* the environment
  faults

serverVars == <<status, got, jobs, link, chan, resend>>
agentVars  == <<mode, work, echoes, seen, seenDisk, unsaved, outbox, runs>>
vars       == <<serverVars, agentVars, faults>>

Statuses == {"none", "pending", "acked", "reported", "timedout"}
Places   == {"idle", "wait", "go", "ack", "echo", "run", "report", "direct"}
Job      == [task : Task, retried : 0..MaxRetry, at : {"new", "read", "leaving"}]

TypeOK ==
  /\ status \in [Task -> Statuses]
  /\ got \subseteq Task
  /\ jobs \subseteq Job
  /\ link \in {"none", "live", "dead"}
  /\ chan \in Seq(Task) /\ Len(chan) <= ChanCap
  /\ resend \in BOOLEAN
  /\ mode \in {"up", "stopping", "down"}
  /\ work \in [Task -> Places]
  /\ echoes \subseteq Task /\ seen \subseteq Task /\ seenDisk \subseteq Task
  /\ unsaved \subseteq Task
  /\ outbox \subseteq Task
  /\ runs \in [Task -> 0..2]
  /\ faults \in 0..MaxFaults

Init ==
  /\ status = [t \in Task |-> "none"]
  /\ got = {} /\ jobs = {} /\ link = "none" /\ chan = <<>> /\ resend = FALSE
  /\ mode = "up" /\ work = [t \in Task |-> "idle"]
  /\ echoes = {} /\ seen = {} /\ seenDisk = {} /\ unsaved = {}
  /\ outbox = {} /\ runs = [t \in Task |-> 0]
  /\ faults = 0

Fault   == faults < MaxFaults /\ faults' = faults + 1
NoFault == faults' = faults

-----------------------------------------------------------------------------
(* The server: rows and delivery jobs.                                     *)
Fresh(t) == [task |-> t, retried |-> 0, at |-> "new"]

(* A handler of the API inserts the row and enqueues the delivery; if the  *)
(* queue refuses the job the row stays.                                    *)
CreateTask(t) ==
  /\ status[t] = "none"
  /\ status' = [status EXCEPT ![t] = "pending"]
  /\ \/ jobs' = jobs \cup {Fresh(t)} /\ NoFault
     \/ UNCHANGED jobs /\ Fault
  /\ UNCHANGED <<got, link, chan, resend, agentVars>>

(* ProcessTask, first part: read the row.                                  *)
JobRead(j) ==
  /\ j \in jobs /\ j.at = "new"
  /\ jobs' = IF status[j.task] = "pending"
             THEN (jobs \ {j}) \cup {[j EXCEPT !.at = "read"]}
             ELSE jobs \ {j}
  /\ UNCHANGED <<status, got, link, chan, resend, agentVars, faults>>

(* The rest, by what the registry says now.                                *)
Connected == link # "none"
\* Mutant: Send never finds the channel full.
RoomAlways == TRUE
Room      == Len(chan) < ChanCap

JobSend(j) ==
  /\ j \in jobs /\ j.at = "read" /\ Connected /\ Room
  /\ chan' = Append(chan, j.task)
  /\ jobs' = jobs \ {j}
  /\ UNCHANGED <<status, got, link, resend, agentVars, faults>>

(* Not connected and tried often enough: end the job without an error ...  *)
JobDefers(j) ==
  /\ j \in jobs /\ j.at = "read" /\ ~Connected /\ j.retried >= OfflineRetries
  /\ jobs' = (jobs \ {j}) \cup {[j EXCEPT !.at = "leaving"]}
  /\ UNCHANGED <<status, got, link, chan, resend, agentVars, faults>>

(* ... if the registry, asked once more, still does not know the device.   *)
JobGiveUp(j) ==
  /\ j \in jobs /\ j.at = "leaving" /\ ~Connected
  /\ jobs' = jobs \ {j}
  /\ UNCHANGED <<status, got, link, chan, resend, agentVars, faults>>

(* The handler fails: the device is not connected (yet, or since the check *)
(* before Send), the channel is full, or the device came back while the    *)
(* handler was giving up.  asynq retries the job, and archives it when its *)
(* retries are used up.                                                    *)
JobFail(j) ==
  /\ j \in jobs
  /\ \/ j.at = "read" /\ ~(Connected /\ Room)
     \/ j.at = "leaving" /\ Connected
  /\ jobs' = (jobs \ {j}) \cup
             (IF j.retried < MaxRetry
              THEN {[j EXCEPT !.retried = @ + 1, !.at = "new"]}
              ELSE {})
  /\ UNCHANGED <<status, got, link, chan, resend, agentVars, faults>>

(* Mutant: the sweep takes the wrong rows.                                 *)
ReconcileAcked(t) ==
  /\ status[t] = "acked" /\ Connected
  /\ jobs' = jobs \cup {Fresh(t)}
  /\ UNCHANGED <<status, got, link, chan, resend, agentVars, faults>>

(* The minute reconciler: pending rows of connected devices.               *)
Reconcile(t) ==
  /\ status[t] = "pending" /\ Connected
  /\ jobs' = jobs \cup {Fresh(t)}
  /\ UNCHANGED <<status, got, link, chan, resend, agentVars, faults>>

(* Mutant: tasks that wait for a slot are spared as well.                  *)
FailStaleAckedUngated(t) ==
  /\ status[t] = "acked" /\ t \notin Silent \cup Gated
  /\ status' = [status EXCEPT ![t] = "timedout"]
  /\ UNCHANGED <<got, jobs, link, chan, resend, agentVars, faults>>

(* FailStaleAckedTasks: acknowledged for 15 minutes, no result.  Results   *)
(* may wait in the outbox for any time, so the timeout may fire any time.  *)
FailStaleAcked(t) ==
  /\ status[t] = "acked" /\ t \notin Silent
  /\ status' = [status EXCEPT ![t] = "timedout"]
  /\ UNCHANGED <<got, jobs, link, chan, resend, agentVars, faults>>

(* The two unary calls of the agent, as the server executes them.          *)
AckTask(t) == status' = [status EXCEPT ![t] = "acked"]

CompleteTask(t) ==
  /\ status' = [status EXCEPT ![t] = "reported"]
  /\ got' = got \cup {t}

-----------------------------------------------------------------------------
(* The connection.                                                         *)
Connect ==
  /\ mode = "up" /\ link # "live"
  /\ link' = "live" /\ chan' = <<>> /\ resend' = TRUE
  /\ UNCHANGED <<status, got, jobs, agentVars, faults>>

(* gateway.Connect re-enqueues what is pending, in a goroutine of its own. *)
Resend ==
  /\ resend /\ resend' = FALSE
  /\ jobs' = jobs \cup {Fresh(t) : t \in {u \in Task : status[u] = "pending"}}
  /\ UNCHANGED <<status, got, link, chan, agentVars, faults>>

LinkBreaks ==
  /\ link = "live" /\ Fault
  /\ link' = "dead"
  /\ UNCHANGED <<status, got, jobs, chan, resend, agentVars>>

ServerNotices ==
  /\ link = "dead" /\ link' = "none" /\ chan' = <<>>
  /\ UNCHANGED <<status, got, jobs, resend, agentVars, faults>>

Cut == IF link = "live" THEN "dead" ELSE link

-----------------------------------------------------------------------------
(* The executor.                                                           *)
Holding == {t \in Gated : work[t] \notin {"idle", "wait"}}

At(t, place)   == work[t] = place
GoTo(t, place) == work' = [work EXCEPT ![t] = place]

(* Mutant: every copy of a task in flight is acknowledged.                 *)
SubmitAcksCopies(t) ==
  IF At(t, "idle")
  THEN GoTo(t, IF t \in Gated THEN "wait" ELSE "go") /\ UNCHANGED echoes
  ELSE echoes' = echoes \cup {t} /\ UNCHANGED work

(* Submit, called by the stream's reader.                                  *)
Submit(t) ==
  CASE At(t, "idle") ->
         GoTo(t, IF t \in Gated THEN "wait" ELSE "go") /\ UNCHANGED echoes
    [] ~At(t, "idle") /\ t \in seen ->
         echoes' = echoes \cup {t} /\ UNCHANGED work
    [] OTHER -> UNCHANGED <<work, echoes>>

Receive ==
  /\ link = "live" /\ mode = "up" /\ chan # <<>>
  /\ chan' = Tail(chan)
  /\ Submit(Head(chan))
  /\ UNCHANGED <<status, got, jobs, link, resend, mode, seen, seenDisk, unsaved, outbox, runs, faults>>

restOfAgent == <<mode, echoes, seen, seenDisk, unsaved, outbox, runs>>

TakeSlot(t) ==
  /\ At(t, "wait") /\ mode = "up" /\ Cardinality(Holding) < Slots
  /\ GoTo(t, "go")
  /\ UNCHANGED <<serverVars, restOfAgent, faults>>

(* Shutdown wakes the tasks that wait for a slot: they leave unmarked.     *)
QuitWaiting(t) ==
  /\ At(t, "wait") /\ mode = "stopping"
  /\ GoTo(t, "idle")
  /\ UNCHANGED <<serverVars, restOfAgent, faults>>

(* e.connect() fails: the task leaves unmarked as well.                    *)
DialFails(t) ==
  /\ At(t, "go") /\ Fault
  /\ GoTo(t, "idle")
  /\ UNCHANGED <<serverVars, restOfAgent>>

(* Mutants: the set is not consulted; it is kept in memory only.           *)
MarkAlways(t) ==
  /\ At(t, "go") /\ GoTo(t, "ack")
  /\ seen' = seen \cup {t} /\ seenDisk' = seenDisk \cup {t}
  /\ UNCHANGED <<serverVars, mode, echoes, unsaved, outbox, runs, faults>>

MarkInMemory(t) ==
  /\ At(t, "go") /\ GoTo(t, IF t \in seen THEN "echo" ELSE "ack")
  /\ seen' = seen \cup {t}
  /\ UNCHANGED <<serverVars, mode, echoes, seenDisk, unsaved, outbox, runs, faults>>

(* markIfNew: the set in memory and, best effort, its file.                *)
MarkIfNew(t) ==
  /\ At(t, "go")
  /\ IF t \in seen
     THEN GoTo(t, "echo") /\ UNCHANGED <<seen, seenDisk, unsaved>>
     ELSE /\ GoTo(t, "ack")
          /\ seen' = seen \cup {t}
          /\ \/ seenDisk' = seenDisk \cup {t} /\ UNCHANGED unsaved
             \/ LinesGetLost /\ unsaved' = unsaved \cup {t} /\ UNCHANGED seenDisk
  /\ UNCHANGED <<serverVars, mode, echoes, outbox, runs, faults>>

(* e.ack: errors are ignored, so the call may never reach the server, or   *)
(* reach it and not be committed.                                          *)
AckCall(t) ==
  \/ AckTask(t) /\ NoFault
  \/ UNCHANGED status /\ Fault

Ack(t) ==
  /\ \/ At(t, "ack") /\ GoTo(t, "run")
     \/ At(t, "echo") /\ GoTo(t, "idle")
  /\ AckCall(t)
  /\ UNCHANGED <<got, jobs, link, chan, resend, restOfAgent>>

(* The goroutine that re-acknowledges a copy of a task in progress.        *)
Reack(t) ==
  /\ t \in echoes
  /\ echoes' = echoes \ {t}
  /\ AckCall(t)
  /\ UNCHANGED <<got, jobs, link, chan, resend, mode, work, seen, seenDisk, unsaved, outbox, runs>>

Run(t) ==
  /\ At(t, "run")
  /\ runs' = [runs EXCEPT ![t] = IF @ < 2 THEN @ + 1 ELSE @]
  /\ GoTo(t, IF t \in Silent THEN "idle" ELSE "report")
  /\ UNCHANGED <<serverVars, mode, echoes, seen, seenDisk, unsaved, outbox, faults>>

(* deliver: the durable queue takes the result, or it does not and the     *)
(* direct call is next.                                                    *)
Deliver(t) ==
  /\ At(t, "report")
  /\ \/ GoTo(t, "idle") /\ outbox' = outbox \cup {t} /\ NoFault
     \/ GoTo(t, "direct") /\ UNCHANGED outbox /\ Fault
  /\ UNCHANGED <<serverVars, mode, echoes, seen, seenDisk, unsaved, runs>>

Report(t) ==
  /\ At(t, "direct")
  /\ GoTo(t, "idle")
  /\ \/ CompleteTask(t) /\ NoFault
     \/ UNCHANGED <<status, got>> /\ Fault
  /\ UNCHANGED <<jobs, link, chan, resend, restOfAgent>>

(* The outbox delivers; a lost reply or a failed removal keeps the record. *)
Flush(t) ==
  /\ t \in outbox /\ mode # "down"
  /\ CompleteTask(t)
  /\ \/ outbox' = outbox \ {t} /\ NoFault
     \/ UNCHANGED outbox /\ Fault
  /\ UNCHANGED <<jobs, link, chan, resend, mode, work, echoes, seen, seenDisk, unsaved, runs>>

OutboxDrops(t) ==
  /\ t \in outbox /\ Fault
  /\ outbox' = outbox \ {t}
  /\ UNCHANGED <<serverVars, mode, work, echoes, seen, seenDisk, unsaved, runs>>

(* A graceful stop: no more tasks are accepted, those in flight finish     *)
(* (cancelled when the grace period ends: they fail, and still report).    *)
Shutdown ==
  /\ mode = "up" /\ Fault
  /\ mode' = "stopping"
  /\ link' = Cut
  /\ UNCHANGED <<status, got, jobs, chan, resend, work, echoes, seen, seenDisk, unsaved, outbox, runs>>

Exit ==
  /\ mode = "stopping" /\ echoes = {}
  /\ \A t \in Task : At(t, "idle")
  /\ mode' = "down" /\ seen' = seenDisk
  /\ UNCHANGED <<serverVars, work, echoes, seenDisk, unsaved, outbox, runs, faults>>

(* The agent dies between any two steps, alone or with the machine.        *)
Crash ==
  /\ mode # "down" /\ Fault
  /\ mode' = "down" /\ link' = Cut
  /\ work' = [t \in Task |-> "idle"]
  /\ \E L \in SUBSET seenDisk :
       /\ L # {} => LinesGetLost
       /\ seenDisk' = seenDisk \ L
       /\ unsaved' = unsaved \cup L
  /\ echoes' = {} /\ seen' = seenDisk'
  /\ UNCHANGED <<status, got, jobs, chan, resend, outbox, runs>>

Restart ==
  /\ mode = "down" /\ mode' = "up"
  /\ UNCHANGED <<serverVars, work, echoes, seen, seenDisk, unsaved, outbox, runs,
                 faults>>

-----------------------------------------------------------------------------
ServerStep(t) == CreateTask(t) \/ Reconcile(t) \/ FailStaleAcked(t)

JobStep(j) == JobRead(j) \/ JobSend(j) \/ JobDefers(j) \/ JobGiveUp(j) \/ JobFail(j)

LinkStep == Connect \/ Resend \/ LinkBreaks \/ ServerNotices \/ Receive

TaskStep(t) ==
  \/ TakeSlot(t) \/ QuitWaiting(t) \/ DialFails(t) \/ MarkIfNew(t) \/ Ack(t) \/ Reack(t)
  \/ Run(t) \/ Deliver(t) \/ Report(t) \/ Flush(t) \/ OutboxDrops(t)

ProcessStep == Shutdown \/ Exit \/ Crash \/ Restart

Next ==
  \/ \E t \in Task : ServerStep(t) \/ TaskStep(t)
  \/ \E j \in jobs : JobStep(j)
  \/ LinkStep
  \/ ProcessStep

Spec == Init /\ [][Next]_vars

(* Timers, goroutines and asynq workers run on; the service manager starts *)
(* the agent again, and the agent reconnects.  Nothing is assumed of the   *)
(* faults, of shutdowns or of the operator.                                *)
Fairness ==
  /\ \A t \in Task :
       /\ WF_vars(Reconcile(t)) /\ WF_vars(FailStaleAcked(t))
       /\ WF_vars(TakeSlot(t)) /\ WF_vars(QuitWaiting(t)) /\ WF_vars(MarkIfNew(t))
       /\ WF_vars(Ack(t)) /\ WF_vars(Reack(t)) /\ WF_vars(Run(t))
       /\ WF_vars(Deliver(t)) /\ WF_vars(Report(t)) /\ WF_vars(Flush(t))
  /\ \A j \in Job : WF_vars(JobStep(j))
  /\ WF_vars(Connect) /\ WF_vars(Resend) /\ WF_vars(ServerNotices) /\ WF_vars(Receive)
  /\ WF_vars(Exit) /\ WF_vars(Restart)

FairSpec == Spec /\ Fairness
-----------------------------------------------------------------------------
(* However often a task is delivered, and across restarts, its command is  *)
(* executed at most once, unless the seen-set's file lost its line (the    *)
(* contract in handle: a repeated delivery is acknowledged, not executed). *)
AtMostOnce == \A t \in Task : runs[t] <= 1 \/ t \in unsaved

(* A row leaves 'pending', and with it every redelivery, only when the     *)
(* device has marked the task in its seen-set: a task that still waits for *)
(* a slot, or that a stop or a failed dial turned away, is offered again   *)
(* (Submit: "such a copy must not be acknowledged").                       *)
AckedMeansStarted ==
  \A t \in Task : status[t] \notin {"none", "pending"} => t \in seenDisk \cup unsaved

(* Every created task reaches the device in the end: no job that gave up,  *)
(* was archived or was lost with the connection leaves its row 'pending'   *)
(* for good (the comments at worker.Enqueue and at the reconciler).        *)
Delivered == \A t \in Task : status[t] = "pending" ~> status[t] \notin {"none", "pending"}

(* Every task that reports a result ends in a final status, one way or     *)
(* the other: no row stays 'acked' for good (FailStaleAckedTasks).         *)
Resolved ==
  \A t \in Task \ Silent :
    status[t] = "pending" ~> status[t] \in {"reported", "timedout"}

(* What the comment at FailStaleAckedTasks says of the rows it closes: the *)
(* agent acknowledged the task and sent no result.                         *)
TimeoutMeansNoResult == \A t \in Task : status[t] = "timedout" => t \notin got

(* The whole implements TaskContract when the seen-set's file keeps its    *)
(* lines.                                                                  *)
TC == INSTANCE TaskContract WITH
        asked   <- {t \in Task : status[t] # "none"},
        begun   <- seenDisk,
        times   <- runs,
        settled <- {t \in Task : status[t] \notin {"none", "pending"}},
        known   <- got

Implements == TC!Contract
=============================================================================
