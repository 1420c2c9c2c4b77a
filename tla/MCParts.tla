------------------------------- MODULE MCParts -------------------------------
(* Small values for the constants of Parts, for TLC.                       *)
EXTENDS Parts

CONSTANTS n1, n2, n3, n4, n5, n6   \* names, of what the part has

\* AdminEvidence: software of one name, a service that came with the system,
\* and one made by hand.
SameName   == [k \in {n1, n2} |-> "app"]
OneThere   == [k \in {n1, n2} |-> IF k = n1 THEN n5 ELSE Absent]
OsService  == [account |-> "sys", start |-> "auto", def |-> 1, os |-> TRUE]
OwnService == [account |-> "own", start |-> "disabled", def |-> 2, os |-> FALSE]
Facts      == {OsService, OwnService}
AllOs      == [k \in {n3, n4} |-> OsService]

\* LoginSessions: requests that are made together.
LoginScopes == {{"login", "switch", "logout", "passwd", "wait"}, {"login", "users"},
                {"login", "reset", "wait"}, {"login", "enroll", "verify", "disable"},
                {"login", "fail"}, {"admins", "login"}}

\* Policies: a platform that is not the device's, and all of them.
Wheres == {{"Linux"}, {"Windows", "macOS", "Linux"}}

\* Removal: a package, its next version, and one of the system's vendor.
Programs == {[ver |-> 1, method |-> "one", sign |-> "none"],
             [ver |-> 2, method |-> "one", sign |-> "none"],
             [ver |-> 1, method |-> "one", sign |-> "vendor"]}

\* ConfigApply: what the file may say.
FileOf(p, on, type, to, v) ==
  [scripts  |-> [n \in {n1} |-> [platform |-> p, content |-> v]],
   policies |-> [n \in {n2} |-> [script |-> n1, conf |-> v, active |-> on]],
   groups   |-> [n \in {n3} |-> [color |-> IF v = "a" THEN "red" ELSE "blue",
                                software |-> [y \in {n4} |-> type], policies |-> to]]]
GroupOnly ==
  [scripts  |-> [n \in {n1} |-> None], policies |-> [n \in {n2} |-> None],
   groups   |-> [n \in {n3} |-> [color |-> None, software |-> None, policies |-> {}]]]
Canonical == {FileOf("Linux", FALSE, "allowed", {n2}, "a"),
              FileOf("Linux", TRUE, "forbidden", {}, "b"), GroupOnly}
=============================================================================
