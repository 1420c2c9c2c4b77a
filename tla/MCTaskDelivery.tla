--------------------------- MODULE MCTaskDelivery ---------------------------
(* Instances of TaskDelivery for TLC: a, b stand for script tasks, l for a *)
(* lock task.                                                              *)
EXTENDS TaskDelivery, TLC

CONSTANTS a, b, l

OneScript == {a}
TwoScripts == {a, b}
ScriptAndLock == {a, l}
JustLock == {l}
NoTask == {}

TaskSymmetry == Permutations(TwoScripts)
=============================================================================
