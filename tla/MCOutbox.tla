------------------------------ MODULE MCOutbox ------------------------------
(* Instances of Outbox for TLC: s1, s2 stand for loss-sensitive reports    *)
(* (security, admin, lock, screen_session), t1 for an evictable one.        *)
EXTENDS Outbox, TLC

CONSTANTS s1, s2, t1

MCMsg == {s1, s2, t1}
MCProtected == {s1, s2}

MCSymmetry == Permutations(MCProtected)
=============================================================================
