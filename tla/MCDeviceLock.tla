---------------------------- MODULE MCDeviceLock ----------------------------
(* Instances of DeviceLock for TLC: two locks, one unlock; the employee    *)
(* may know the password of one lock only.                                 *)
EXTENDS DeviceLock

CONSTANTS L1, L2, u

OneLock == {L1}
SecondLock == {L2}
TwoLocks == {L1, L2}
OneRelease == {u}
NoRelease == {}

(* Three instances in one run: a lock with all the faults, a lock and an   *)
(* unlock with one fault, two locks with none.  A request that is never    *)
(* made counts as one whose handler is dead.                               *)
Only(requests) == [r \in Request |-> IF r \in requests THEN "new" ELSE "dead"]

EachInit == \/ Start(Only({L2}), 0)
            \/ Start(Only({L2, u}), MaxFaults - 1)
            \/ Start(Only({L1, L2}), MaxFaults)

EachSpec == EachInit /\ [][Next]_vars /\ Fairness
=============================================================================
