----------------------------- MODULE PartsProofs ------------------------------
(***************************************************************************)
(* What the proofs of the parts say of Parts as a whole: its types.  The   *)
(* invariant of each part gives the types of that part, and the audit log, *)
(* whose variables are those of Parts, moves as AuditTrail says.           *)
(***************************************************************************)
EXTENDS AgentProofs, ServerProofs, ConsoleProofs

\* Whatever part was chosen, the audit log behaves as its own specification
\* says: it moves by its own steps or not at all.
THEOREM AuditAlone == PartSpec => Spec
<1>1. PartInit => Init
  BY Zenon DEF PartInit
<1>2. [PartNext]_<<part, vars, cells>> => [Next]_vars
  BY Zenon DEF PartNext
<1> QED
  BY <1>1, <1>2, PTL DEF PartSpec, Spec

(* The audit log of Parts: no row leaves it before it is in the archive,   *)
(* and what is left of it is found whole, as AuditTrail's theorems say of  *)
(* any log.                                                                *)
THEOREM AuditOfParts == PartSpec => [](NothingLost /\ ChainIntact)
  BY AuditAlone, ArchivedFirst, FoundIntact, PTL

\* The types of the parts the invariants of which do not name them.
LEMMA EvidenceTyped == ASSUME EvInv PROVE Evidence!TypeOK
BY DEF EvInv, EvTypes, EvRows, EvSoftware, EvServices, Evidence!TypeOK

(* Every variable of a part has its type, in every reachable state of      *)
(* every part.                                                             *)
THEOREM PartsTyped == PartSpec => []PartsTypeOK
<1> DEFINE
     Types ==
       /\ part = "evidence"   => EvInv
       /\ part = "enrollment" => EnrollInv
       /\ part = "login"      => LoginInv
       /\ part = "scripts"    => ScriptsInv
       /\ part = "update"     => UpdateInv /\ UpdateRest /\ UpdateFlags
       /\ part = "removal"    => RemovalInv
       /\ part = "alerts"     => AlertInv
       /\ part = "policies"   => ListingInv
       /\ part = "screen"     => ScreenInv /\ ScreenTypes /\ ScreenFlags
       /\ part = "migration"  => MigrateInv /\ MigrateTypes
       /\ part = "apply"      => ApInv
<1>1. Types /\ TypeOK => PartsTypeOK
  <2> SUFFICES ASSUME Types, TypeOK PROVE PartsTypeOK
    OBVIOUS
  <2>1. part = "evidence" => Evidence!TypeOK
    BY EvidenceTyped
  <2>2. part = "enrollment" => Enroll!TypeOK
    BY Zenon DEF EnrollInv
  <2>3. part = "login" => Login!TypeOK
    BY Zenon DEF LoginInv
  <2>4. part = "scripts" => Scripts!TypeOK
    BY Zenon DEF ScriptsInv
  <2>5. part = "update" => Update!TypeOK
    BY UpdateTyped, Zenon DEF UpdateInv
  <2>6. part = "removal" => Remove!TypeOK
    BY Zenon DEF RemovalInv
  <2>7. part = "alerts" => Alert!TypeOK
    BY Zenon DEF AlertInv
  <2>8. part = "policies" => Listing!TypeOK
    BY Zenon DEF ListingInv
  <2>9. part = "screen" => Screen!TypeOK
    BY ScreenTyped, Zenon DEF ScreenInv
  <2>10. part = "migration" => Migrate!TypeOK
    BY MigrateTyped, Zenon
  <2>11. part = "apply" => Apply!TypeOK
    BY Zenon DEF ApInv
  <2> QED
    BY <2>1, <2>2, <2>3, <2>4, <2>5, <2>6, <2>7, <2>8, <2>9, <2>10, <2>11,
       Zenon DEF PartsTypeOK
<1>2. PartSpec => []Types
  BY EvidenceInvariant, EnrollInvariant, LoginInvariant, ScriptsInvariant,
     UpdateInvariant, RemovalInvariant, AlertInvariant, ListingInvariant,
     ScreenInvariant, MigrateInvariant, ApplyInvariant, PTL
<1>3. PartSpec => []TypeOK
  BY AuditAlone, AuditTypes, PTL
<1> QED
  BY <1>1, <1>2, <1>3, PTL
===============================================================================
