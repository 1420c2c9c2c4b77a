---------------------------- MODULE MCAdminAccess ----------------------------
(* Instance of AdminAccess for TLC: an employee and an administrator who   *)
(* share the machine.                                                      *)
EXTENDS AdminAccess

CONSTANTS employee, owner

Users == {employee, owner}
Owners == {owner}
=============================================================================
