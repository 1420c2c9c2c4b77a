---------------------------- MODULE TaskContract ----------------------------
(***************************************************************************)
(* What an ad-hoc task promises its operator, whatever the network, the    *)
(* queue and the agent process go through: the device acts on what was     *)
(* asked and on nothing else, the command takes effect at most once, the   *)
(* server stops offering a task only when the device has committed itself  *)
(* to it, and a result exists only for a command that took effect.         *)
(* TaskDelivery is shown to implement it.                                  *)
(***************************************************************************)
EXTENDS Naturals

CONSTANT Task

VARIABLES
  asked,    \* the tasks the operator has created
  begun,    \* the tasks the device has durably committed itself to
  times,    \* how often it has carried out each of them
  settled,  \* the tasks the server does not offer any more
  known     \* those whose result the server has

cvars == <<asked, begun, times, settled, known>>

CInit ==
  /\ asked = {} /\ begun = {} /\ settled = {} /\ known = {}
  /\ times = [t \in Task |-> 0]

Ask(t) ==
  /\ t \notin asked
  /\ asked' = asked \cup {t}
  /\ UNCHANGED <<begun, times, settled, known>>

Begin(t) ==
  /\ t \in asked \ begun
  /\ begun' = begun \cup {t}
  /\ UNCHANGED <<asked, times, settled, known>>

CarryOut(t) ==
  /\ t \in begun /\ times[t] = 0
  /\ times' = [times EXCEPT ![t] = 1]
  /\ UNCHANGED <<asked, begun, settled, known>>

Settle(t) ==
  /\ t \in begun
  /\ settled' = settled \cup {t}
  /\ UNCHANGED <<asked, begun, times, known>>

Learn(t) ==
  /\ times[t] = 1
  /\ known' = known \cup {t}
  /\ settled' = settled \cup {t}
  /\ UNCHANGED <<asked, begun, times>>

CNext == \E t \in Task : Ask(t) \/ Begin(t) \/ CarryOut(t) \/ Settle(t) \/ Learn(t)

Contract == CInit /\ [][CNext]_cvars
=============================================================================
