------------------------- MODULE TaskDeliveryProofs -------------------------
(***************************************************************************)
(* Proofs about TaskDelivery, for every set of tasks, channel capacity,    *)
(* number of slots, retries and faults.  The inductive invariant Inv adds  *)
(* to TypeOK that the seen-set in memory agrees with its file (Memory),    *)
(* and that whatever a task has caused, anywhere in the system, was        *)
(* preceded by its line in that file (Marked).                             *)
(***************************************************************************)
EXTENDS TaskDelivery, SequenceTheorems, TLAPS

Durable == seenDisk \cup unsaved

(* The seen-set in memory is its file, plus the lines the file refused.    *)
Memory == seenDisk \subseteq seen /\ seen \subseteq Durable

(* What comes after MarkIfNew on a task's way happens to marked tasks.     *)
Marked ==
  \A t \in Task :
    /\ work[t] \in {"ack", "echo", "run", "report", "direct"} => t \in seen
    /\ runs[t] > 0 => t \in Durable
    /\ t \notin unsaved /\ work[t] \in {"ack", "run"} => runs[t] = 0
    /\ t \in echoes \cup outbox => t \in Durable

Inv == TypeOK /\ Memory /\ Marked /\ AtMostOnce /\ AckedMeansStarted

-----------------------------------------------------------------------------
LEMMA InitInv == Init => Inv
<1> SUFFICES ASSUME Init PROVE Inv
  OBVIOUS
<1> USE TaskAssumption DEF TaskAssumption, Init
<1>1. resend \in BOOLEAN
  BY Zenon
<1>2. TypeOK
  BY <1>1 DEF TypeOK, Statuses, Places, Job
<1>3. Memory /\ Marked /\ AtMostOnce /\ AckedMeansStarted
  BY DEF Memory, Marked, AtMostOnce, AckedMeansStarted, Durable
<1> QED
  BY <1>2, <1>3 DEF Inv

(* The type invariant, in parts that one step proves at a time.            *)
ServerTypes ==
  /\ status \in [Task -> Statuses] /\ got \subseteq Task
  /\ link \in {"none", "live", "dead"}

JobTypes  == jobs \subseteq Job
ChanTypes == chan \in Seq(Task) /\ Len(chan) <= ChanCap

AgentTypes ==
  /\ mode \in {"up", "stopping", "down"} /\ work \in [Task -> Places]
  /\ echoes \subseteq Task /\ seen \subseteq Task /\ seenDisk \subseteq Task
  /\ unsaved \subseteq Task /\ outbox \subseteq Task
  /\ runs \in [Task -> 0..2] /\ faults \in 0..MaxFaults

LEMMA ChanStep == TypeOK /\ [Next]_vars => ChanTypes'
<1> SUFFICES ASSUME TypeOK, [Next]_vars PROVE ChanTypes'
  OBVIOUS
<1> USE TaskAssumption DEF TaskAssumption, ChanTypes, TypeOK
<1>1. ASSUME NEW j \in jobs, JobSend(j) PROVE ChanTypes'
  BY <1>1 DEF JobSend, Room, Job
<1>2. ASSUME Receive PROVE ChanTypes'
  <2>1. chan \in Seq(Task) /\ chan # <<>> /\ chan' = Tail(chan)
    BY <1>2 DEF Receive
  <2>2. Tail(chan) \in Seq(Task) /\ Len(Tail(chan)) = Len(chan) - 1 /\ Len(chan) \in Nat
    BY <2>1, HeadTailProperties, LenProperties
  <2> QED
    BY <2>1, <2>2
<1>3. ASSUME chan' \in {chan, <<>>} PROVE ChanTypes'
  <2>1. <<>> \in Seq(Task) /\ Len(<<>>) = 0 /\ 0 <= ChanCap
    OBVIOUS
  <2>2. CASE chan' = chan
    BY <2>2
  <2>3. CASE chan' = <<>>
    BY <2>1, <2>3
  <2> QED
    BY <1>3, <2>2, <2>3
<1> USE DEF serverVars, agentVars, restOfAgent
<1>4. ASSUME NEW t \in Task, ServerStep(t) PROVE ChanTypes'
  BY <1>3, <1>4 DEF ServerStep, CreateTask, Reconcile, FailStaleAcked
<1>5. ASSUME NEW j \in jobs, JobStep(j) PROVE ChanTypes'
  BY <1>1, <1>3, <1>5 DEF JobStep, JobRead, JobDefers, JobGiveUp, JobFail
<1>6. CASE LinkStep
  BY <1>2, <1>3, <1>6 DEF LinkStep, Connect, Resend, LinkBreaks, ServerNotices
<1>7. ASSUME NEW t \in Task, TaskStep(t) PROVE ChanTypes'
  BY <1>3, <1>7 DEF TaskStep, TakeSlot, QuitWaiting, DialFails, MarkIfNew, Ack, Reack, Run,
     Deliver, Report, Flush, OutboxDrops
<1>8. CASE ProcessStep
  BY <1>3, <1>8 DEF ProcessStep, Shutdown, Exit, Crash, Restart
<1>9. CASE UNCHANGED vars
  BY <1>3, <1>9 DEF vars
<1> QED
  BY <1>4, <1>5, <1>6, <1>7, <1>8, <1>9 DEF Next

LEMMA JobsStep == TypeOK /\ [Next]_vars => JobTypes'
<1> SUFFICES ASSUME TypeOK, [Next]_vars PROVE JobTypes'
  OBVIOUS
<1> USE TaskAssumption DEF TaskAssumption, JobTypes, TypeOK, serverVars, agentVars, restOfAgent
<1>1. \A t \in Task : Fresh(t) \in Job
  BY DEF Fresh, Job
<1>2. ASSUME NEW j \in Job, NEW p \in {"new", "read", "leaving"} PROVE [j EXCEPT !.at = p] \in Job
  BY DEF Job
<1>3. ASSUME NEW j \in Job, j.retried < MaxRetry
      PROVE  [j EXCEPT !.retried = @ + 1, !.at = "new"] \in Job
  <2>1. j.retried + 1 \in 0..MaxRetry
    BY <1>3 DEF Job
  <2>2. [j EXCEPT !.retried = j.retried + 1] \in Job
    BY <2>1 DEF Job
  <2> QED
    BY <2>1, <2>2, <1>2
<1>4. ASSUME NEW t \in Task, ServerStep(t) PROVE JobTypes'
  BY <1>1, <1>4 DEF ServerStep, CreateTask, Reconcile, FailStaleAcked
<1>5. ASSUME NEW j \in jobs, JobStep(j) PROVE JobTypes'
  BY <1>2, <1>3, <1>5 DEF JobStep, JobRead, JobSend, JobDefers, JobGiveUp, JobFail
<1>6. CASE LinkStep
  BY <1>1, <1>6 DEF LinkStep, Connect, Resend, LinkBreaks, ServerNotices, Receive
<1>7. ASSUME NEW t \in Task, TaskStep(t) PROVE JobTypes'
  BY <1>7 DEF TaskStep, TakeSlot, QuitWaiting, DialFails, MarkIfNew, Ack, Reack, Run,
     Deliver, Report, Flush, OutboxDrops
<1>8. CASE ProcessStep
  BY <1>8 DEF ProcessStep, Shutdown, Exit, Crash, Restart
<1>9. CASE UNCHANGED vars
  BY <1>9 DEF vars
<1> QED
  BY <1>4, <1>5, <1>6, <1>7, <1>8, <1>9 DEF Next

LEMMA ServerTypesStep == TypeOK /\ [Next]_vars => ServerTypes'
<1> SUFFICES ASSUME TypeOK, [Next]_vars PROVE ServerTypes'
  OBVIOUS
<1> USE DEF ServerTypes, TypeOK, Statuses, serverVars, agentVars, restOfAgent, AckCall, AckTask,
    CompleteTask, Cut
<1>4. ASSUME NEW t \in Task, ServerStep(t) PROVE ServerTypes'
  BY <1>4 DEF ServerStep, CreateTask, Reconcile, FailStaleAcked
<1>5. ASSUME NEW j \in jobs, JobStep(j) PROVE ServerTypes'
  BY <1>5 DEF JobStep, JobRead, JobSend, JobDefers, JobGiveUp, JobFail
<1>6. CASE LinkStep
  BY <1>6 DEF LinkStep, Connect, Resend, LinkBreaks, ServerNotices, Receive
<1>7. ASSUME NEW t \in Task, TaskStep(t) PROVE ServerTypes'
  BY <1>7 DEF TaskStep, TakeSlot, QuitWaiting, DialFails, MarkIfNew, Ack, Reack, Run,
     Deliver, Report, Flush, OutboxDrops
<1>8. CASE ProcessStep
  BY <1>8 DEF ProcessStep, Shutdown, Exit, Crash, Restart
<1>9. CASE UNCHANGED vars
  BY <1>9 DEF vars
<1> QED
  BY <1>4, <1>5, <1>6, <1>7, <1>8, <1>9 DEF Next

LEMMA AgentTypesStep == TypeOK /\ [Next]_vars => AgentTypes'
<1> SUFFICES ASSUME TypeOK, [Next]_vars PROVE AgentTypes'
  OBVIOUS
<1> USE TaskAssumption DEF TaskAssumption, AgentTypes, TypeOK, Places, serverVars, agentVars,
    restOfAgent, Fault, NoFault, GoTo, At, AckCall
<1>4. ASSUME NEW t \in Task, ServerStep(t) PROVE AgentTypes'
  BY <1>4 DEF ServerStep, CreateTask, Reconcile, FailStaleAcked
<1>5. ASSUME NEW j \in jobs, JobStep(j) PROVE AgentTypes'
  BY <1>5 DEF JobStep, JobRead, JobSend, JobDefers, JobGiveUp, JobFail
<1>6. CASE LinkStep
  <2>1. CASE Receive
    <3>1. Head(chan) \in Task
      BY <2>1 DEF Receive
    <3>2. work' \in [Task -> Places] /\ echoes' \subseteq Task
      BY <2>1, <3>1 DEF Receive, Submit
    <3> QED
      BY <2>1, <3>2 DEF Receive
  <2> QED
    BY <1>6, <2>1 DEF LinkStep, Connect, Resend, LinkBreaks, ServerNotices
<1>7. ASSUME NEW t \in Task, TaskStep(t) PROVE AgentTypes'
  <2>1. CASE TakeSlot(t) \/ QuitWaiting(t) \/ DialFails(t)
    BY <2>1 DEF TakeSlot, QuitWaiting, DialFails
  <2>2. CASE MarkIfNew(t)
    BY <2>2 DEF MarkIfNew
  <2>3. CASE Ack(t) \/ Reack(t)
    BY <2>3 DEF Ack, Reack
  <2>4. CASE Run(t)
    BY <2>4 DEF Run
  <2>5. CASE Deliver(t) \/ Report(t)
    BY <2>5 DEF Deliver, Report
  <2>6. CASE Flush(t) \/ OutboxDrops(t)
    BY <2>6 DEF Flush, OutboxDrops
  <2> QED
    BY <1>7, <2>1, <2>2, <2>3, <2>4, <2>5, <2>6 DEF TaskStep
<1>8. CASE ProcessStep
  BY <1>8 DEF ProcessStep, Shutdown, Exit, Crash, Restart
<1>9. CASE UNCHANGED vars
  BY <1>9 DEF vars
<1> QED
  BY <1>4, <1>5, <1>6, <1>7, <1>8, <1>9 DEF Next

LEMMA ResendStep == TypeOK /\ [Next]_vars => resend' \in BOOLEAN
  BY Zenon DEF TypeOK, Next, ServerStep, JobStep, LinkStep, TaskStep, ProcessStep, vars,
     serverVars, agentVars, restOfAgent, CreateTask, Reconcile, FailStaleAcked, JobRead, JobSend,
     JobDefers, JobGiveUp, JobFail, Connect, Resend, LinkBreaks, ServerNotices, Receive, TakeSlot,
     QuitWaiting, DialFails, MarkIfNew, Ack, Reack, Run, Deliver, Report, Flush, OutboxDrops,
     Shutdown, Exit, Crash, Restart

LEMMA TypeStep == TypeOK /\ [Next]_vars => TypeOK'
  BY ChanStep, JobsStep, ServerTypesStep, AgentTypesStep, ResendStep, Zenon
  DEF TypeOK, ChanTypes, JobTypes, ServerTypes, AgentTypes

-----------------------------------------------------------------------------
(* Only MarkIfNew and Crash touch the seen-set; a line goes to the file or *)
(* to unsaved, and what leaves the file in a power loss goes to unsaved.   *)
LEMMA MemoryStep == Memory /\ [Next]_vars => Memory' /\ Durable \subseteq Durable'
<1> SUFFICES ASSUME Memory, [Next]_vars PROVE Memory' /\ Durable \subseteq Durable'
  OBVIOUS
<1> USE DEF Memory, Durable, serverVars, agentVars, restOfAgent
<1>4. ASSUME NEW t \in Task, ServerStep(t) PROVE Memory' /\ Durable \subseteq Durable'
  BY <1>4 DEF ServerStep, CreateTask, Reconcile, FailStaleAcked
<1>5. ASSUME NEW j \in jobs, JobStep(j) PROVE Memory' /\ Durable \subseteq Durable'
  BY <1>5 DEF JobStep, JobRead, JobSend, JobDefers, JobGiveUp, JobFail
<1>6. CASE LinkStep
  BY <1>6 DEF LinkStep, Connect, Resend, LinkBreaks, ServerNotices, Receive
<1>7. ASSUME NEW t \in Task, TaskStep(t) PROVE Memory' /\ Durable \subseteq Durable'
  BY <1>7 DEF TaskStep, TakeSlot, QuitWaiting, DialFails, MarkIfNew, Ack, Reack, Run,
     Deliver, Report, Flush, OutboxDrops
<1>8. CASE ProcessStep
  BY <1>8 DEF ProcessStep, Shutdown, Exit, Crash, Restart
<1>9. CASE UNCHANGED vars
  BY <1>9 DEF vars
<1> QED
  BY <1>4, <1>5, <1>6, <1>7, <1>8, <1>9 DEF Next

(* Marked is preserved by every step that moves a task.                    *)
LEMMA MarkedStep == TypeOK /\ Memory /\ Marked /\ [Next]_vars => Marked'
<1> SUFFICES ASSUME TypeOK, Memory, Marked, [Next]_vars PROVE Marked'
  OBVIOUS
<1> USE DEF TypeOK, Places, Memory, Durable, Marked, serverVars, agentVars, restOfAgent, At, GoTo
<1>4. ASSUME NEW t \in Task, ServerStep(t) PROVE Marked'
  BY <1>4 DEF ServerStep, CreateTask, Reconcile, FailStaleAcked
<1>5. ASSUME NEW j \in jobs, JobStep(j) PROVE Marked'
  BY <1>5 DEF JobStep, JobRead, JobSend, JobDefers, JobGiveUp, JobFail
<1>6. CASE LinkStep
  <2>1. CASE Receive
    <3>1. Head(chan) \in Task
      BY <2>1 DEF Receive
    <3>2. Submit(Head(chan)) /\ UNCHANGED <<seen, seenDisk, unsaved, outbox, runs>>
      BY <2>1 DEF Receive
    <3> QED
      BY <3>1, <3>2 DEF Submit
  <2> QED
    BY <1>6, <2>1 DEF LinkStep, Connect, Resend, LinkBreaks, ServerNotices
<1>7. ASSUME NEW t \in Task, TaskStep(t) PROVE Marked'
  <2>1. CASE TakeSlot(t) \/ QuitWaiting(t) \/ DialFails(t)
    BY <2>1 DEF TakeSlot, QuitWaiting, DialFails
  <2>2. CASE MarkIfNew(t)
    BY <2>2 DEF MarkIfNew
  <2>3. CASE Ack(t) \/ Reack(t)
    BY <2>3 DEF Ack, Reack
  <2>4. CASE Run(t)
    BY <2>4 DEF Run
  <2>5. CASE Deliver(t) \/ Report(t)
    BY <2>5 DEF Deliver, Report
  <2>6. CASE Flush(t) \/ OutboxDrops(t)
    BY <2>6 DEF Flush, OutboxDrops
  <2> QED
    BY <1>7, <2>1, <2>2, <2>3, <2>4, <2>5, <2>6 DEF TaskStep
<1>8. CASE ProcessStep
  <2>1. CASE Crash
    BY <2>1 DEF Crash
  <2> QED
    BY <1>8, <2>1 DEF ProcessStep, Shutdown, Exit, Restart
<1>9. CASE UNCHANGED vars
  BY <1>9 DEF vars
<1> QED
  BY <1>4, <1>5, <1>6, <1>7, <1>8, <1>9 DEF Next

(* A second execution would need the task between MarkIfNew and Run with   *)
(* an execution behind it, which Marked excludes.                          *)
LEMMA OnceStep == TypeOK /\ Memory /\ Marked /\ AtMostOnce /\ [Next]_vars => AtMostOnce'
<1> SUFFICES ASSUME TypeOK, Memory, Marked, AtMostOnce, [Next]_vars PROVE AtMostOnce'
  OBVIOUS
<1> USE DEF TypeOK, AtMostOnce, serverVars, agentVars, restOfAgent
<1>1. ASSUME UNCHANGED runs, unsaved \subseteq unsaved' PROVE AtMostOnce'
  BY <1>1
<1>2. ASSUME NEW t \in Task, Run(t) PROVE AtMostOnce'
  BY <1>2 DEF Run, At, Marked
<1>3. ASSUME NEW t \in Task, TaskStep(t) PROVE AtMostOnce'
  BY <1>1, <1>2, <1>3 DEF TaskStep, TakeSlot, QuitWaiting, DialFails, MarkIfNew, Ack, Reack,
     Deliver, Report, Flush, OutboxDrops
<1>4. ASSUME NEW t \in Task, ServerStep(t) PROVE AtMostOnce'
  BY <1>1, <1>4 DEF ServerStep, CreateTask, Reconcile, FailStaleAcked
<1>5. ASSUME NEW j \in jobs, JobStep(j) PROVE AtMostOnce'
  BY <1>1, <1>5 DEF JobStep, JobRead, JobSend, JobDefers, JobGiveUp, JobFail
<1>6. CASE LinkStep
  BY <1>1, <1>6 DEF LinkStep, Connect, Resend, LinkBreaks, ServerNotices, Receive
<1>8. CASE ProcessStep
  BY <1>1, <1>8 DEF ProcessStep, Shutdown, Exit, Crash, Restart
<1>9. CASE UNCHANGED vars
  BY <1>1, <1>9 DEF vars
<1> QED
  BY <1>3, <1>4, <1>5, <1>6, <1>8, <1>9 DEF Next

(* Rows leave 'pending' through calls of an agent that has marked the task.*)
LEMMA StartedStep ==
  TypeOK /\ Memory /\ Marked /\ AckedMeansStarted /\ [Next]_vars => AckedMeansStarted'
<1> SUFFICES ASSUME TypeOK, Memory, Marked, AckedMeansStarted, [Next]_vars PROVE AckedMeansStarted'
  OBVIOUS
<1> USE DEF TypeOK, AckedMeansStarted, Durable, serverVars, agentVars, restOfAgent
<1>0. Durable \subseteq Durable'
  BY MemoryStep
<1>1. ASSUME UNCHANGED status PROVE AckedMeansStarted'
  BY <1>0, <1>1
<1>2. ASSUME NEW t \in Task, t \in Durable, NEW s,
             status' = [status EXCEPT ![t] = s] \/ UNCHANGED status
      PROVE  AckedMeansStarted'
  BY <1>0, <1>2
<1>3. ASSUME NEW t \in Task, Ack(t) \/ Reack(t) \/ Report(t) \/ Flush(t) PROVE AckedMeansStarted'
  <2>1. t \in Durable
    BY <1>3 DEF Ack, Reack, Report, Flush, At, Marked, Memory
  <2> QED
    BY <1>2, <1>3, <2>1 DEF Ack, Reack, Report, Flush, AckCall, AckTask, CompleteTask
<1>4. ASSUME NEW t \in Task, TaskStep(t) PROVE AckedMeansStarted'
  BY <1>1, <1>3, <1>4 DEF TaskStep, TakeSlot, QuitWaiting, DialFails, MarkIfNew, Run,
     Deliver, OutboxDrops
<1>5. ASSUME NEW t \in Task, ServerStep(t) PROVE AckedMeansStarted'
  BY <1>0, <1>5 DEF ServerStep, CreateTask, Reconcile, FailStaleAcked
<1>6. ASSUME NEW j \in jobs, JobStep(j) PROVE AckedMeansStarted'
  BY <1>1, <1>6 DEF JobStep, JobRead, JobSend, JobDefers, JobGiveUp, JobFail
<1>7. CASE LinkStep
  BY <1>1, <1>7 DEF LinkStep, Connect, Resend, LinkBreaks, ServerNotices, Receive
<1>8. CASE ProcessStep
  BY <1>1, <1>8 DEF ProcessStep, Shutdown, Exit, Crash, Restart
<1>9. CASE UNCHANGED vars
  BY <1>1, <1>9 DEF vars
<1> QED
  BY <1>4, <1>5, <1>6, <1>7, <1>8, <1>9 DEF Next

(* The invariant holds in every reachable state.                           *)
THEOREM Invariant == Spec => []Inv
<1>1. Inv /\ [Next]_vars => Inv'
  BY TypeStep, MemoryStep, MarkedStep, OnceStep, StartedStep DEF Inv
<1> QED
  BY InitInv, <1>1, PTL DEF Spec

(* Every variable keeps its type: the type invariant of task_safety.       *)
THEOREM TypeCorrect == Spec => []TypeOK
  BY Invariant, PTL DEF Inv

(* However often a task is delivered, its command is executed at most      *)
(* once, unless the seen-set's file lost its line.                         *)
THEOREM Once == Spec => []AtMostOnce
  BY Invariant, PTL DEF Inv

(* The server stops redelivering only tasks the device has marked.         *)
THEOREM Started == Spec => []AckedMeansStarted
  BY Invariant, PTL DEF Inv

-----------------------------------------------------------------------------
(* The refinement of TaskContract, for a seen-set file that keeps its      *)
(* lines.  It needs three more facts: no line is unsaved, whatever is on   *)
(* its way belongs to a row (Offered), and a result on its way belongs to  *)
(* a command that was executed (Executed).                                 *)
Kept == ~LinesGetLost => unsaved = {}

Offered ==
  /\ \A j \in jobs : status[j.task] # "none"
  /\ \A i \in 1..Len(chan) : status[chan[i]] # "none"
  /\ \A t \in Task : work[t] # "idle" \/ t \in seenDisk \cup echoes => status[t] # "none"

Executed ==
  \A t \in Task : work[t] \in {"report", "direct"} \/ t \in outbox => runs[t] > 0

RInv == Inv /\ Kept /\ Offered /\ Executed

LEMMA InitRInv == Init => RInv
  BY InitInv DEF Init, RInv, Kept, Offered, Executed

LEMMA KeptStep == Kept /\ [Next]_vars => Kept'
<1> SUFFICES ASSUME Kept, [Next]_vars PROVE Kept'
  OBVIOUS
<1> USE DEF Kept, serverVars, agentVars, restOfAgent
<1>1. ASSUME NEW t \in Task, ServerStep(t) PROVE Kept'
  BY <1>1 DEF ServerStep, CreateTask, Reconcile, FailStaleAcked
<1>2. ASSUME NEW j \in jobs, JobStep(j) PROVE Kept'
  BY <1>2 DEF JobStep, JobRead, JobSend, JobDefers, JobGiveUp, JobFail
<1>3. CASE LinkStep
  BY <1>3 DEF LinkStep, Connect, Resend, LinkBreaks, ServerNotices, Receive
<1>4. ASSUME NEW t \in Task, TaskStep(t) PROVE Kept'
  BY <1>4 DEF TaskStep, TakeSlot, QuitWaiting, DialFails, MarkIfNew, Ack, Reack, Run,
     Deliver, Report, Flush, OutboxDrops
<1>5. CASE ProcessStep
  BY <1>5 DEF ProcessStep, Shutdown, Exit, Crash, Restart
<1>6. CASE UNCHANGED vars
  BY <1>6 DEF vars
<1> QED
  BY <1>1, <1>2, <1>3, <1>4, <1>5, <1>6 DEF Next

LEMMA ExecutedStep == TypeOK /\ Executed /\ [Next]_vars => Executed'
<1> SUFFICES ASSUME TypeOK, Executed, [Next]_vars PROVE Executed'
  OBVIOUS
<1> USE DEF TypeOK, Places, Executed, serverVars, agentVars, restOfAgent, At, GoTo
<1>1. ASSUME NEW t \in Task, ServerStep(t) PROVE Executed'
  BY <1>1 DEF ServerStep, CreateTask, Reconcile, FailStaleAcked
<1>2. ASSUME NEW j \in jobs, JobStep(j) PROVE Executed'
  BY <1>2 DEF JobStep, JobRead, JobSend, JobDefers, JobGiveUp, JobFail
<1>3. CASE LinkStep
  <2>1. CASE Receive
    <3>1. Head(chan) \in Task
      BY <2>1 DEF Receive
    <3>2. Submit(Head(chan)) /\ UNCHANGED <<outbox, runs>>
      BY <2>1 DEF Receive
    <3> QED
      BY <3>1, <3>2 DEF Submit
  <2> QED
    BY <1>3, <2>1 DEF LinkStep, Connect, Resend, LinkBreaks, ServerNotices
<1>4. ASSUME NEW t \in Task, TaskStep(t) PROVE Executed'
  <2>1. CASE TakeSlot(t) \/ QuitWaiting(t) \/ DialFails(t) \/ MarkIfNew(t)
    BY <2>1 DEF TakeSlot, QuitWaiting, DialFails, MarkIfNew
  <2>2. CASE Ack(t) \/ Reack(t)
    BY <2>2 DEF Ack, Reack
  <2>3. CASE Run(t)
    BY <2>3 DEF Run
  <2>4. CASE Deliver(t) \/ Report(t) \/ Flush(t) \/ OutboxDrops(t)
    BY <2>4 DEF Deliver, Report, Flush, OutboxDrops
  <2> QED
    BY <1>4, <2>1, <2>2, <2>3, <2>4 DEF TaskStep
<1>5. CASE ProcessStep
  BY <1>5 DEF ProcessStep, Shutdown, Exit, Crash, Restart
<1>6. CASE UNCHANGED vars
  BY <1>6 DEF vars
<1> QED
  BY <1>1, <1>2, <1>3, <1>4, <1>5, <1>6 DEF Next

(* No row goes away, and what is passed on comes from what was on its way. *)
LEMMA OfferedStep == TypeOK /\ Memory /\ Offered /\ [Next]_vars => Offered'
<1> SUFFICES ASSUME TypeOK, Memory, Offered, [Next]_vars PROVE Offered'
  OBVIOUS
<1> USE DEF serverVars, agentVars, restOfAgent, At, GoTo
<1>0. \A t \in Task : status[t] # "none" => status'[t] # "none"
  <2> USE DEF TypeOK, AckCall, AckTask, CompleteTask
  <2>1. ASSUME NEW t \in Task, ServerStep(t) \/ TaskStep(t)
        PROVE  UNCHANGED status \/ \E s \in Statuses \ {"none"} : status' = [status EXCEPT ![t] = s]
    BY <2>1 DEF Statuses, ServerStep, CreateTask, Reconcile, FailStaleAcked, TaskStep, TakeSlot,
       QuitWaiting, DialFails, MarkIfNew, Ack, Reack, Run, Deliver, Report, Flush, OutboxDrops
  <2>2. ASSUME NEW j \in jobs, JobStep(j) PROVE UNCHANGED status
    BY <2>2 DEF JobStep, JobRead, JobSend, JobDefers, JobGiveUp, JobFail
  <2>3. LinkStep \/ ProcessStep \/ UNCHANGED vars => UNCHANGED status
    BY DEF LinkStep, Connect, Resend, LinkBreaks, ServerNotices, Receive, ProcessStep, Shutdown,
       Exit, Crash, Restart, vars
  <2> QED
    BY <2>1, <2>2, <2>3 DEF Next
<1>1. \A j \in jobs' : j.task \in Task /\ status'[j.task] # "none"
  <2> USE DEF TypeOK, Offered, Job
  <2>1. ASSUME \A j \in jobs' : j \in jobs \/ (j.task \in Task /\ status'[j.task] # "none")
        PROVE  \A j \in jobs' : j.task \in Task /\ status'[j.task] # "none"
    BY <1>0, <2>1
  <2>2. ASSUME NEW t \in Task, ServerStep(t)
        PROVE  \A j \in jobs' : j \in jobs \/ (j.task \in Task /\ status'[j.task] # "none")
    BY <2>2 DEF ServerStep, CreateTask, Reconcile, FailStaleAcked, Fresh
  <2>3. ASSUME NEW j \in jobs, JobStep(j)
        PROVE  \A k \in jobs' : k \in jobs \/ (k.task \in Task /\ status'[k.task] # "none")
    <3>1. j.task \in Task /\ status'[j.task] # "none"
      BY <1>0
    <3>2. \A k \in jobs' : k \in jobs \/ k.task = j.task
      <4>1. \E a : jobs' \subseteq jobs \cup {[j EXCEPT !.at = a], [j EXCEPT !.retried = @ + 1, !.at = a]}
        <5>1. CASE JobRead(j)
          BY <5>1 DEF JobRead
        <5>2. CASE JobSend(j) \/ JobGiveUp(j)
          BY <5>2 DEF JobSend, JobGiveUp
        <5>3. CASE JobDefers(j)
          BY <5>3 DEF JobDefers
        <5>4. CASE JobFail(j)
          BY <5>4 DEF JobFail
        <5> QED
          BY <2>3, <5>1, <5>2, <5>3, <5>4 DEF JobStep
      <4>2. \A a : [j EXCEPT !.at = a].task = j.task /\ [j EXCEPT !.retried = @ + 1, !.at = a].task = j.task
        BY DEF TypeOK, Job
      <4> QED
        BY <4>1, <4>2
    <3> QED
      BY <3>1, <3>2
  <2>4. CASE LinkStep
    BY <1>0, <2>1, <2>4 DEF LinkStep, Connect, Resend, LinkBreaks, ServerNotices, Receive, Fresh
  <2>5. ASSUME NEW t \in Task, TaskStep(t) PROVE jobs' = jobs
    BY <2>5 DEF TaskStep, TakeSlot, QuitWaiting, DialFails, MarkIfNew, Ack, Reack, Run,
       Deliver, Report, Flush, OutboxDrops
  <2>6. ProcessStep \/ UNCHANGED vars => jobs' = jobs
    BY DEF ProcessStep, Shutdown, Exit, Crash, Restart, vars
  <2> QED
    BY <2>1, <2>2, <2>3, <2>4, <2>5, <2>6 DEF Next
<1>2. \A i \in 1..Len(chan') : status'[chan'[i]] # "none"
  <2>0. ASSUME NEW i \in 1..Len(chan) PROVE chan[i] \in Task /\ status'[chan[i]] # "none"
    BY <1>0 DEF TypeOK, Offered
  <2>1. CASE chan' \in {chan, <<>>}
    <3>1. CASE chan' = chan
      BY <2>0, <3>1
    <3>2. CASE chan' = <<>>
      BY <3>2
    <3> QED
      BY <2>1, <3>1, <3>2
  <2>2. ASSUME NEW j \in jobs, JobSend(j) PROVE \A i \in 1..Len(chan') : status'[chan'[i]] # "none"
    <3>1. j.task \in Task /\ status'[j.task] # "none"
      BY <1>0 DEF TypeOK, Offered, Job
    <3>2. chan' = Append(chan, j.task) /\ chan \in Seq(Task)
      BY <2>2 DEF JobSend, TypeOK
    <3> QED
      BY <2>0, <3>1, <3>2
  <2>3. CASE Receive
    <3>1. chan' = Tail(chan) /\ chan \in Seq(Task) /\ chan # <<>>
      BY <2>3 DEF Receive, TypeOK
    <3> QED
      BY <2>0, <3>1, HeadTailProperties
  <2> QED
    BY <2>1, <2>2, <2>3 DEF Next, ServerStep, JobStep, LinkStep, ProcessStep, TaskStep, vars,
       CreateTask, Reconcile, FailStaleAcked, JobRead, JobDefers, JobGiveUp, JobFail, Connect,
       Resend, LinkBreaks, ServerNotices, TakeSlot, QuitWaiting, DialFails, MarkIfNew, Ack, Reack,
       Run, Deliver, Report, Flush, OutboxDrops, Shutdown, Exit, Crash, Restart
<1>3. \A t \in Task : work'[t] # "idle" \/ t \in seenDisk' \cup echoes' => status'[t] # "none"
  <2> DEFINE Active == {t \in Task : work[t] # "idle" \/ t \in seenDisk \cup echoes}
  <2>0. SUFFICES \A t \in Active' : t \in Active \/ status'[t] # "none"
    BY <1>0 DEF Offered
  <2> USE DEF TypeOK, Places
  <2>1. CASE Receive
    <3>1. Head(chan) \in Task /\ status[Head(chan)] # "none"
      BY <2>1 DEF Receive, Offered
    <3>2. Submit(Head(chan)) /\ UNCHANGED <<status, seenDisk>>
      BY <2>1 DEF Receive
    <3>3. \A t \in Active' : t \in Active \/ t = Head(chan)
      BY <3>1, <3>2 DEF Submit
    <3> QED
      BY <3>1, <3>2, <3>3
  <2>2. ASSUME NEW t \in Task, TaskStep(t) PROVE Active' \subseteq Active
    BY <2>2 DEF TaskStep, TakeSlot, QuitWaiting, DialFails, MarkIfNew, Ack, Reack, Run,
       Deliver, Report, Flush, OutboxDrops
  <2>3. ASSUME NEW t \in Task, ServerStep(t) PROVE Active' \subseteq Active
    BY <2>3 DEF ServerStep, CreateTask, Reconcile, FailStaleAcked
  <2>4. ASSUME NEW j \in jobs, JobStep(j) PROVE Active' \subseteq Active
    BY <2>4 DEF JobStep, JobRead, JobSend, JobDefers, JobGiveUp, JobFail
  <2>5. Connect \/ Resend \/ LinkBreaks \/ ServerNotices => Active' \subseteq Active
    BY DEF Connect, Resend, LinkBreaks, ServerNotices
  <2>6. ProcessStep \/ UNCHANGED vars => Active' \subseteq Active
    BY DEF ProcessStep, Shutdown, Exit, Crash, Restart, vars
  <2> QED
    BY <2>1, <2>2, <2>3, <2>4, <2>5, <2>6 DEF Next, LinkStep
<1> QED
  BY <1>1, <1>2, <1>3 DEF Offered

LEMMA RInvStep == RInv /\ [Next]_vars => RInv'
<1>1. Inv /\ [Next]_vars => Inv'
  BY TypeStep, MemoryStep, MarkedStep, OnceStep, StartedStep DEF Inv
<1> QED
  BY <1>1, KeptStep, ExecutedStep, OfferedStep DEF RInv, Inv

(* A step that changes nothing the contract sees is a stutter of it; every *)
(* other step is the one of its actions named here.                        *)
Observed == <<status, seenDisk, runs, got>>

LEMMA StepRefines == RInv /\ ~LinesGetLost /\ [Next]_vars => [TC!CNext]_(TC!cvars)
<1> SUFFICES ASSUME RInv, ~LinesGetLost, [Next]_vars PROVE [TC!CNext]_(TC!cvars)
  OBVIOUS
<1> DEFINE Asked == {t \in Task : status[t] # "none"}
           Settled == {t \in Task : status[t] \notin {"none", "pending"}}
<1> USE DEF serverVars, agentVars, restOfAgent, At, GoTo
<1>0. TypeOK /\ unsaved = {} /\ seenDisk = seen
  BY DEF RInv, Inv, Kept, Memory, Durable
<1>1. ASSUME UNCHANGED Observed PROVE UNCHANGED TC!cvars
  BY <1>1 DEF Observed, TC!cvars
<1>2. ASSUME NEW t \in Task, CreateTask(t) PROVE TC!Ask(t)
  <2>1. t \notin Asked /\ Asked' = Asked \cup {t} /\ Settled' = Settled
    BY <1>0, <1>2 DEF CreateTask, TypeOK
  <2>2. UNCHANGED <<seenDisk, runs, got>>
    BY <1>2 DEF CreateTask
  <2> QED
    BY <2>1, <2>2 DEF TC!Ask
<1>3. ASSUME NEW t \in Task, FailStaleAcked(t) PROVE UNCHANGED TC!cvars
  <2>1. Asked' = Asked /\ Settled' = Settled
    BY <1>0, <1>3 DEF FailStaleAcked, TypeOK
  <2>2. UNCHANGED <<seenDisk, runs, got>>
    BY <1>3 DEF FailStaleAcked
  <2> QED
    BY <2>1, <2>2 DEF TC!cvars
<1>4. ASSUME NEW t \in Task, MarkIfNew(t) PROVE TC!Begin(t) \/ UNCHANGED TC!cvars
  <2>1. CASE t \in seen
    BY <1>1, <1>4, <2>1 DEF MarkIfNew, Observed
  <2>2. CASE t \notin seen
    <3>1. seenDisk' = seenDisk \cup {t} /\ t \notin seenDisk
      BY <1>0, <1>4, <2>2 DEF MarkIfNew
    <3>2. t \in Asked
      BY <1>4 DEF MarkIfNew, RInv, Offered
    <3>3. UNCHANGED <<status, runs, got>>
      BY <1>4 DEF MarkIfNew
    <3> QED
      BY <3>1, <3>2, <3>3 DEF TC!Begin
  <2> QED
    BY <2>1, <2>2
<1>5. ASSUME NEW t \in Task, Run(t) PROVE TC!CarryOut(t)
  <2>1. t \in seenDisk /\ runs[t] = 0
    BY <1>0, <1>5 DEF Run, RInv, Inv, Marked
  <2>2. runs' = [runs EXCEPT ![t] = 1]
    BY <1>0, <1>5, <2>1 DEF Run, TypeOK
  <2>3. UNCHANGED <<status, seenDisk, got>>
    BY <1>5 DEF Run
  <2> QED
    BY <2>1, <2>2, <2>3 DEF TC!CarryOut
<1>6. ASSUME NEW t \in Task, t \in seenDisk, AckTask(t), UNCHANGED <<seenDisk, runs, got>>
      PROVE  TC!Settle(t)
  <2>1. Settled' = Settled \cup {t}
    BY <1>0, <1>6 DEF AckTask, TypeOK
  <2>2. status[t] # "none"
    BY <1>6 DEF RInv, Offered
  <2>3. Asked' = Asked
    BY <1>0, <1>6, <2>2 DEF AckTask, TypeOK
  <2> QED
    BY <1>6, <2>1, <2>3 DEF TC!Settle
<1>7. ASSUME NEW t \in Task, runs[t] > 0, CompleteTask(t), UNCHANGED <<seenDisk, runs>>
      PROVE  TC!Learn(t)
  <2>1. Settled' = Settled \cup {t}
    BY <1>0, <1>7 DEF CompleteTask, TypeOK
  <2>2. t \in seenDisk /\ status[t] # "none" /\ runs[t] = 1
    BY <1>0, <1>7 DEF RInv, Inv, Marked, Durable, Offered, AtMostOnce, TypeOK
  <2>3. Asked' = Asked
    BY <1>0, <1>7, <2>2 DEF CompleteTask, TypeOK
  <2> QED
    BY <1>7, <2>1, <2>2, <2>3 DEF CompleteTask, TC!Learn
<1>8. ASSUME NEW t \in Task, Ack(t) \/ Reack(t) PROVE TC!Settle(t) \/ UNCHANGED TC!cvars
  <2>1. t \in seenDisk
    BY <1>0, <1>8 DEF Ack, Reack, RInv, Inv, Marked, Durable
  <2>2. UNCHANGED <<seenDisk, runs, got>> /\ (AckTask(t) \/ UNCHANGED status)
    BY <1>8 DEF Ack, Reack, AckCall
  <2> QED
    BY <1>1, <1>6, <2>1, <2>2 DEF Observed
<1>9. ASSUME NEW t \in Task, Report(t) \/ Flush(t) PROVE TC!Learn(t) \/ UNCHANGED TC!cvars
  <2>1. runs[t] > 0
    BY <1>9 DEF Report, Flush, RInv, Executed
  <2>2. UNCHANGED <<seenDisk, runs>> /\ (CompleteTask(t) \/ UNCHANGED <<status, got>>)
    BY <1>9 DEF Report, Flush
  <2> QED
    BY <1>1, <1>7, <2>1, <2>2 DEF Observed
<1>10. ASSUME NEW t \in Task, ServerStep(t) \/ TaskStep(t)
       PROVE  TC!CNext \/ UNCHANGED TC!cvars
  <2>1. CASE Reconcile(t) \/ TakeSlot(t) \/ QuitWaiting(t) \/ DialFails(t) \/ Deliver(t) \/ OutboxDrops(t)
    BY <1>1, <2>1 DEF Reconcile, TakeSlot, QuitWaiting, DialFails, Deliver, OutboxDrops, Observed
  <2> QED
    BY <1>2, <1>3, <1>4, <1>5, <1>8, <1>9, <1>10, <2>1 DEF ServerStep, TaskStep, TC!CNext
<1>11. ASSUME NEW j \in jobs, JobStep(j) PROVE UNCHANGED TC!cvars
  BY <1>1, <1>11 DEF JobStep, JobRead, JobSend, JobDefers, JobGiveUp, JobFail, Observed
<1>12. CASE LinkStep
  BY <1>1, <1>12 DEF LinkStep, Connect, Resend, LinkBreaks, ServerNotices, Receive, Observed
<1>13. CASE ProcessStep
  BY <1>1, <1>13 DEF ProcessStep, Shutdown, Exit, Crash, Restart, Observed
<1>14. CASE UNCHANGED vars
  BY <1>1, <1>14 DEF vars, Observed
<1> QED
  BY <1>10, <1>11, <1>12, <1>13, <1>14 DEF Next

(* What TaskDelivery is for: with a seen-set file that keeps its lines, it *)
(* implements TaskContract (the property Implements of task_safety).       *)
THEOREM Refines == ASSUME ~LinesGetLost PROVE Spec => Implements
<1>1. Init => TC!CInit
  BY DEF Init, TC!CInit
<1>2. RInv /\ [Next]_vars => [TC!CNext]_(TC!cvars)
  BY StepRefines
<1> QED
  BY <1>1, <1>2, InitRInv, RInvStep, PTL DEF Spec, Implements, TC!Contract
=============================================================================
