------------------------------ MODULE Enrollment ------------------------------
(***************************************************************************)
(* How a machine becomes a device of the installation and stops being one: *)
(*   - enrollment tokens, for one device or for a batch, and the rows they *)
(*     turn into devices (storage/enrollment.go, api/handler.go);          *)
(*   - approval, rejection, blocking, re-enrollment, decommission and      *)
(*     deletion, and the heartbeat, all of which write devices.status      *)
(*     (postgres.go, gateway.go);                                          *)
(*   - the machine's side: the key and the certificate it writes, reuses   *)
(*     and copies to the directory of the service (agent/enroll/enroll.go, *)
(*     cmd/agent/main.go).                                                 *)
(* One run of "agent enroll" has one key and at most one certificate, both *)
(* named by the number of the run.  A request may be cut off, and a run    *)
(* may die, between any two steps.  Tokens are numbered in the order of    *)
(* their creation.  One tenant; hostnames and groups are left out.         *)
(***************************************************************************)
EXTENDS Integers, FiniteSets

CONSTANTS
  Machine,
  MaxDevices, MaxMade, MaxTokens, MaxRuns, \* bounds: rows, those of an enrollment, tokens, runs
  MaxUses,   \* max_uses of a batch token
  NoOne      \* no pending decision

VARIABLES
  \* the server
  status,    \* devices.status; "none" before the row, "deleted" after it
  fp,        \* devices.certificate_fingerprint
  revoked,   \* revoked_fingerprints
  token,     \* enrollment_tokens
  decision,  \* updateDeviceStatus between its check and its write
  \* the machines
  run,       \* what agent enroll is doing
  src, dst,  \* the pair of files where the run wrote it, and the service's
  conn,      \* the certificate of the open stream
  runs,      \* runs started
  stale,     \* certificates of a CA that was replaced
  \* history
  waiting,   \* devices that were to wait for an approval and got none
  retired,   \* devices decommissioned
  forced,    \* devices whose status a late write took away
  newest,    \* the newest token of the device
  older,     \* devices that got a certificate for another token than the newest
  issued     \* the certificate the machine has written

devices  == <<status, fp, revoked>>
machines == <<run, src, dst, conn, runs, stale>>
past     == <<waiting, retired, forced, newest, older, issued>>
vars     == <<devices, token, decision, machines, past>>

Device == 1..MaxDevices
Token  == 1..MaxTokens
Cert   == 1..MaxRuns
Nil   == 0
Torn   == MaxRuns + 1  \* a file that a crash left cut short

Status == {"none", "pending", "enrolled", "active", "pending_approval",
           "rejected", "blocked", "decommissioned", "deleted"}
Idle   == [pc |-> "idle", tok |-> Nil, dev |-> Nil, cert |-> Nil, approval |-> FALSE, out |-> "src"]
Blank  == [kind |-> "none", dev |-> Nil, uses |-> 0, used |-> FALSE, dead |-> FALSE, approval |-> FALSE]

TypeOK ==
  /\ status \in [Device -> Status] /\ fp \in [Device -> Cert \cup {Nil}] /\ revoked \subseteq Cert
  /\ token \in [Token -> [kind : {"none", "one", "bulk"}, dev : Device \cup {Nil}, uses : 0..MaxUses,
                          used : BOOLEAN, dead : BOOLEAN, approval : BOOLEAN]]
  /\ decision \in {NoOne} \cup (Device \X {"active", "blocked"})
  /\ run \in [Machine -> [pc : {"idle", "ask", "known", "begun", "key", "crt", "copycrt", "copykey", "drop"},
                          tok : Token \cup {Nil}, dev : Device \cup {Nil}, cert : Cert \cup {Nil},
                          approval : BOOLEAN, out : {"src", "dst"}]]
  /\ src \in [Machine -> [key : 0..Torn, crt : 0..Torn]] /\ dst \in [Machine -> [key : 0..Torn, crt : 0..Torn]]
  /\ conn \in [Machine -> Cert \cup {Nil}] /\ runs \in 0..MaxRuns /\ stale \subseteq Cert
  /\ waiting \subseteq Device /\ retired \subseteq Device /\ forced \subseteq Device
  /\ newest \in [Device -> Token \cup {Nil}] /\ older \subseteq Device
  /\ issued \in [Machine -> Cert \cup {Nil}]

Init ==
  /\ status = [d \in Device |-> "none"] /\ fp = [d \in Device |-> Nil] /\ revoked = {}
  /\ token = [t \in Token |-> Blank] /\ decision = NoOne
  /\ run = [m \in Machine |-> Idle]
  /\ src = [m \in Machine |-> [key |-> Nil, crt |-> Nil]] /\ dst = src
  /\ conn = [m \in Machine |-> Nil] /\ runs = 0 /\ stale = {}
  /\ waiting = {} /\ retired = {} /\ forced = {}
  /\ newest = [d \in Device |-> Nil] /\ older = {}
  /\ issued = [m \in Machine |-> Nil]

IsNext(d) == status[d] = "none" /\ \A e \in 1..(d - 1) : status[e] # "none"
NextToken(t) == token[t].kind = "none" /\ \A s \in 1..(t - 1) : token[s].kind # "none"

-----------------------------------------------------------------------------
(* Rows and tokens made by an operator.                                    *)

\* Two statements: the device may be left without a token.
CreatePendingDevice(d) ==
  /\ d <= MaxMade /\ IsNext(d)
  /\ status' = [status EXCEPT ![d] = "pending"]
  /\ UNCHANGED <<fp, revoked, token, decision, machines, past>>

AddToken(t, d) == token' = [token EXCEPT ![t] = [Blank EXCEPT !.kind = "one", !.dev = d]]

CreateEnrollmentToken(t, d) ==
  /\ NextToken(t) /\ status[d] = "pending" /\ newest[d] = Nil
  /\ ~\E m \in Machine : run[m].dev = d
  /\ AddToken(t, d)
  /\ newest' = [newest EXCEPT ![d] = t]
  /\ UNCHANGED <<devices, decision, machines, waiting, retired, forced, older, issued>>

IssueBulkEnrollmentToken(t, approval) ==
  /\ NextToken(t)
  /\ token' = [token EXCEPT ![t] = [Blank EXCEPT !.kind = "bulk", !.approval = approval]]
  /\ UNCHANGED <<devices, decision, machines, past>>

\* Revocation moves expires_at to now: the same as the expiry.
RevokeEnrollmentToken(t) ==
  /\ token[t].kind # "none" /\ ~token[t].dead
  /\ token' = [token EXCEPT ![t].dead = TRUE]
  /\ UNCHANGED <<devices, decision, machines, past>>

-----------------------------------------------------------------------------
(* devices.status under an operator's hand.                                *)

\* Mutant of NotEnrollable: a device that waits may be enrolled anew.
EnrollableWhenHeld == {"rejected", "decommissioned", "blocked"}

\* From these a device comes back by an operator's own decision only.
NotEnrollable == {"pending_approval", "rejected", "decommissioned", "blocked"}

ApproveDevices(S) ==
  /\ S # {} /\ \A d \in S : status[d] = "pending_approval"
  /\ status' = [d \in Device |-> IF d \in S THEN "active" ELSE status[d]]
  /\ waiting' = waiting \ S
  /\ UNCHANGED <<fp, revoked, token, decision, machines, retired, forced, newest, older, issued>>

RejectDevices(S) ==
  /\ S # {} /\ \A d \in S : status[d] = "pending_approval"
  /\ status' = [d \in Device |-> IF d \in S THEN "rejected" ELSE status[d]]
  /\ UNCHANGED <<fp, revoked, token, decision, machines, past>>

\* updateDeviceStatus reads the status, and then writes another, whatever has
\* become of the row in between.
UpdateStatusChecks(d, s) ==
  /\ decision = NoOne
  /\ status[d] \notin {"none", "deleted", "pending_approval", "rejected", "decommissioned"}
  /\ decision' = <<d, s>>
  /\ UNCHANGED <<devices, token, machines, past>>

\* A write that looks at no status and comes to one that was not to be left.
Overwrites(d) == IF status[d] \in {"pending_approval", "rejected", "decommissioned"}
                 THEN forced \cup {d} ELSE forced

UpdateDeviceStatus ==
  /\ decision # NoOne
  /\ LET d == decision[1]
     IN  IF status[d] = "deleted" THEN UNCHANGED <<status, forced>>
         ELSE /\ status' = [status EXCEPT ![d] = decision[2]]
              /\ forced' = Overwrites(d)
  /\ decision' = NoOne
  /\ UNCHANGED <<fp, revoked, token, machines, waiting, retired, newest, older, issued>>

UseUp(d) == [t \in Token |-> IF token[t].dev = d THEN [token[t] EXCEPT !.used = TRUE] ELSE token[t]]

\* The tokens given before are used up, even when the status forbids the rest:
\* the transaction is committed with the refusal.
ResetDeviceForReenroll(t, d) ==
  /\ NextToken(t) /\ status[d] \notin {"none", "deleted"}
  /\ IF status[d] \in NotEnrollable
     THEN token' = UseUp(d) /\ UNCHANGED <<status, newest>>
     ELSE /\ status' = [status EXCEPT ![d] = "pending"]
          /\ token' = [UseUp(d) EXCEPT ![t] = [Blank EXCEPT !.kind = "one", !.dev = d]]
          /\ newest' = [newest EXCEPT ![d] = t]
  /\ UNCHANGED <<fp, revoked, decision, machines, waiting, retired, forced, older, issued>>

\* The agent's report that it obeyed, from whatever status.
Holds(m, d) == fp[d] # Nil /\ conn[m] = fp[d]

MarkDeviceDecommissioned(m, d) ==
  /\ Holds(m, d) /\ status[d] # "deleted"
  /\ status' = [status EXCEPT ![d] = "decommissioned"]
  /\ retired' = retired \cup {d}
  /\ UNCHANGED <<fp, revoked, token, decision, machines, waiting, forced, newest, older, issued>>

\* The certificate of the row is revoked and the row goes, in one transaction;
\* its tokens go with it.
DeleteDevice(d) ==
  /\ status[d] \notin {"none", "deleted"}
  /\ status' = [status EXCEPT ![d] = "deleted"]
  /\ fp' = [fp EXCEPT ![d] = Nil]
  /\ revoked' = revoked \cup ({fp[d]} \ {Nil})
  /\ token' = [t \in Token |-> IF token[t].dev = d THEN [token[t] EXCEPT !.dead = TRUE, !.used = TRUE]
                               ELSE token[t]]
  /\ UNCHANGED <<decision, machines, past>>

-----------------------------------------------------------------------------
(* The stream of an enrolled machine.                                      *)

\* The pair a run or a service uses: the directory of the service when the
\* first one is not whole (retargetIdentityToCertDir).
Whole(p)   == p.key # Nil /\ p.crt # Nil
Out(m)     == IF ~Whole(src[m]) /\ Whole(dst[m]) THEN "dst" ELSE "src"
Pair(m)    == IF Out(m) = "dst" THEN dst[m] ELSE src[m]
Matches(p) == p.key = p.crt /\ p.key \in Cert

RowOf(c) == {d \in Device : fp[d] = c}
CutOff   == {"blocked", "decommissioned", "rejected"}

\* A certificate no row knows is let in unless it was revoked.
Connect(m) ==
  /\ conn[m] = Nil /\ Matches(dst[m])
  /\ LET c == dst[m].crt
     IN  /\ c \notin stale
         /\ IF RowOf(c) = {} THEN c \notin revoked ELSE \A d \in RowOf(c) : status[d] \notin CutOff
         /\ conn' = [conn EXCEPT ![m] = c]
  /\ UNCHANGED <<devices, token, decision, run, src, dst, runs, stale, past>>

\* The upsert revives what was enrolled or waits for its certificate, and
\* makes a row for a certificate without one: a live agent's, deleted.
UpsertDeviceHeartbeat(m) ==
  /\ conn[m] # Nil
  /\ IF RowOf(conn[m]) # {}
     THEN /\ status' = [d \in Device |-> IF fp[d] = conn[m] /\ status[d] \in {"enrolled", "pending"}
                                         THEN "active" ELSE status[d]]
          /\ UNCHANGED fp
     ELSE \E d \in Device :
            /\ IsNext(d)
            /\ status' = [status EXCEPT ![d] = "active"]
            /\ fp' = [fp EXCEPT ![d] = conn[m]]
  /\ conn' = [conn EXCEPT ![m] = IF \E d \in Device : fp'[d] = @ /\ status'[d] \in CutOff
                                 THEN Nil ELSE @]
  /\ UNCHANGED <<revoked, token, decision, run, src, dst, runs, stale, past>>

Disconnect(m) ==
  /\ conn[m] # Nil /\ conn' = [conn EXCEPT ![m] = Nil]
  /\ UNCHANGED <<devices, token, decision, run, src, dst, runs, stale, past>>

-----------------------------------------------------------------------------
(* agent enroll, and the handler behind its one request.                   *)

\* Another CA signs from now on: a reused certificate of the old one will not do.
ReissueCA ==
  /\ stale = {} /\ runs > 0
  /\ stale' = 1..runs
  /\ conn' = [m \in Machine |-> Nil]
  /\ UNCHANGED <<devices, token, decision, run, src, dst, runs, past>>

\* An identity of the current CA is reused; the run goes on to the copying.
ReusableIdentity(m) == Matches(Pair(m)) /\ Pair(m).crt \notin stale

RunEnroll(m, t) ==
  /\ run[m].pc = "idle"
  /\ IF ReusableIdentity(m)
     THEN /\ Pair(m) # dst[m] /\ UNCHANGED runs
          /\ run' = [run EXCEPT ![m] = [Idle EXCEPT !.pc = "copycrt", !.out = Out(m)]]
     ELSE /\ token[t].kind # "none" /\ runs < MaxRuns /\ runs' = runs + 1
          /\ run' = [run EXCEPT ![m] = [Idle EXCEPT !.pc = "ask", !.tok = t, !.cert = runs', !.out = Out(m)]]
  /\ UNCHANGED <<devices, token, decision, src, dst, conn, stale, past>>

\* The handler reads the token: it has not expired and, but for a batch, is new.
GetEnrollmentToken(m) ==
  /\ run[m].pc = "ask"
  /\ LET k == token[run[m].tok]
     IN  /\ ~k.dead /\ (k.kind = "one" => ~k.used)
         /\ run' = [run EXCEPT ![m].pc = "known", ![m].dev = k.dev]
  /\ UNCHANGED <<devices, token, decision, src, dst, conn, runs, stale, past>>

\* The signed certificate's row: the token and the status are tried again, in
\* the transaction that uses the token up.
EnrollDevice(m) ==
  /\ run[m].pc = "known" /\ run[m].dev # Nil
  /\ LET d == run[m].dev  t == run[m].tok
     IN  /\ ~token[t].used
         /\ status[d] \notin NotEnrollable \cup {"deleted"}
         /\ token' = [token EXCEPT ![t].used = TRUE]
         /\ status' = [status EXCEPT ![d] = "enrolled"]
         /\ fp' = [fp EXCEPT ![d] = run[m].cert]
         /\ older' = IF t = newest[d] THEN older ELSE older \cup {d}
  /\ run' = [run EXCEPT ![m].pc = "key"]
  /\ UNCHANGED <<revoked, decision, src, dst, conn, runs, stale, waiting, retired, forced, newest, issued>>

\* A use of a batch token is taken and the device is created, before the
\* certificate, which bears its name, is signed; the row's status is then
\* written whatever has become of it.
BeginBulkEnroll(m) ==
  /\ run[m].pc = "known" /\ run[m].dev = Nil
  /\ LET t == run[m].tok
     IN  /\ token[t].uses < MaxUses /\ ~token[t].dead
         /\ token' = [token EXCEPT ![t].uses = @ + 1]
         /\ \E d \in 1..MaxMade :
              /\ IsNext(d)
              /\ status' = [status EXCEPT ![d] = "pending"]
              /\ run' = [run EXCEPT ![m].pc = "begun", ![m].dev = d, ![m].approval = token[t].approval]
  /\ UNCHANGED <<fp, revoked, decision, src, dst, conn, runs, stale, past>>

FinalizeBulkEnroll(m) ==
  /\ run[m].pc = "begun"
  /\ LET d == run[m].dev
     IN  IF status[d] = "deleted" THEN UNCHANGED <<status, fp, waiting, forced>>
         ELSE /\ status' = [status EXCEPT ![d] = IF run[m].approval THEN "pending_approval" ELSE "enrolled"]
              /\ fp' = [fp EXCEPT ![d] = run[m].cert]
              /\ waiting' = IF run[m].approval THEN waiting \cup {d} ELSE waiting
              /\ forced' = Overwrites(d)
  /\ run' = [run EXCEPT ![m].pc = "key"]
  /\ UNCHANGED <<revoked, token, decision, src, dst, conn, runs, stale, retired, newest, older, issued>>

\* The COMMIT of the first statement or of the second fails, which nobody looks
\* at (BindTenant): the machine is answered with a certificate no row bears.
BulkNotCommitted(m) ==
  /\ \/ run[m].pc = "begun"
     \/ /\ run[m].pc = "known" /\ run[m].dev = Nil
        /\ token[run[m].tok].uses < MaxUses /\ ~token[run[m].tok].dead
  /\ run' = [run EXCEPT ![m].pc = "key"]
  /\ UNCHANGED <<devices, token, decision, src, dst, conn, runs, stale, past>>

\* A refusal, a lost answer, or the end of the server: the run fails, and what
\* the server has written stays.
RequestFails(m) ==
  /\ run[m].pc \in {"ask", "known", "begun", "key"}
  /\ run' = [run EXCEPT ![m] = Idle]
  /\ UNCHANGED <<devices, token, decision, src, dst, conn, runs, stale, past>>

\* The pair is written over the old one, the key first (enroll.Run).
WriteFile(m, part, v) ==
  IF run[m].out = "dst" THEN dst' = [dst EXCEPT ![m][part] = v] /\ UNCHANGED src
                        ELSE src' = [src EXCEPT ![m][part] = v] /\ UNCHANGED dst

WriteKey(m) ==
  /\ run[m].pc = "key"
  /\ WriteFile(m, "key", run[m].cert)
  /\ issued' = [issued EXCEPT ![m] = Nil]
  /\ run' = [run EXCEPT ![m].pc = "crt"]
  /\ UNCHANGED <<devices, token, decision, conn, runs, stale, waiting, retired, forced, newest, older>>

WriteCert(m) ==
  /\ run[m].pc = "crt"
  /\ WriteFile(m, "crt", run[m].cert)
  /\ issued' = [issued EXCEPT ![m] = run[m].cert]
  /\ run' = [run EXCEPT ![m].pc = IF run[m].out = "dst" THEN "idle" ELSE "copycrt"]
  /\ UNCHANGED <<devices, token, decision, conn, runs, stale, waiting, retired, forced, newest, older>>

\* relocateForService: copies, and only then the first copy of the key goes.
CopyCert(m) ==
  /\ run[m].pc = "copycrt"
  /\ dst' = [dst EXCEPT ![m].crt = src[m].crt]
  /\ run' = [run EXCEPT ![m].pc = "copykey"]
  /\ UNCHANGED <<devices, token, decision, src, conn, runs, stale, past>>

CopyKey(m) ==
  /\ run[m].pc = "copykey"
  /\ dst' = [dst EXCEPT ![m].key = src[m].key]
  /\ run' = [run EXCEPT ![m].pc = "drop"]
  /\ UNCHANGED <<devices, token, decision, src, conn, runs, stale, past>>

DropKey(m) ==
  /\ run[m].pc = "drop"
  /\ src' = [src EXCEPT ![m].key = Nil]
  /\ run' = [run EXCEPT ![m] = Idle]
  /\ UNCHANGED <<devices, token, decision, dst, conn, runs, stale, past>>

\* The run dies; the file it was writing may be cut short.
RunDies(m) ==
  /\ run[m].pc \in {"crt", "copycrt", "copykey", "drop"}
  /\ run' = [run EXCEPT ![m] = Idle]
  /\ \/ UNCHANGED <<src, dst>>
     \/ run[m].pc = "crt" /\ WriteFile(m, "crt", Torn)
     \/ run[m].pc = "copycrt" /\ dst' = [dst EXCEPT ![m].crt = Torn] /\ UNCHANGED src
     \/ run[m].pc = "copykey" /\ dst' = [dst EXCEPT ![m].key = Torn] /\ UNCHANGED src
  /\ UNCHANGED <<devices, token, decision, conn, runs, stale, past>>

-----------------------------------------------------------------------------
Next ==
  \/ \E d \in Device :
       \/ CreatePendingDevice(d) \/ DeleteDevice(d)
       \/ \E s \in {"active", "blocked"} : UpdateStatusChecks(d, s)
       \/ \E t \in Token : CreateEnrollmentToken(t, d) \/ ResetDeviceForReenroll(t, d)
       \/ \E m \in Machine : MarkDeviceDecommissioned(m, d)
  \/ UpdateDeviceStatus
  \/ \E t \in Token : RevokeEnrollmentToken(t) \/ \E a \in BOOLEAN : IssueBulkEnrollmentToken(t, a)
  \/ \E S \in SUBSET Device : ApproveDevices(S) \/ RejectDevices(S)
  \/ ReissueCA
  \/ \E m \in Machine :
       \/ Connect(m) \/ UpsertDeviceHeartbeat(m) \/ Disconnect(m)
       \/ \E t \in Token : RunEnroll(m, t)
       \/ GetEnrollmentToken(m) \/ EnrollDevice(m) \/ BeginBulkEnroll(m) \/ FinalizeBulkEnroll(m)
       \/ BulkNotCommitted(m) \/ RequestFails(m) \/ WriteKey(m) \/ WriteCert(m)
       \/ CopyCert(m) \/ CopyKey(m) \/ DropKey(m) \/ RunDies(m)

Spec == Init /\ [][Next]_vars

-----------------------------------------------------------------------------
(* The managed statuses have no back door: a device that was to wait for   *)
(* an approval works only after one, and a decommissioned one never again, *)
(* whichever tokens, heartbeats and re-enrollments race with the decision; *)
(* but for a status change that was checked before it and written after    *)
(* (updateDeviceStatus, notEnrollableStatuses), and for the end of a bulk  *)
(* enrollment whose row another machine took over in the meantime.         *)
NotReadmitted ==
  \A d \in Device \ forced :
    /\ d \in waiting => status[d] \in {"pending_approval", "rejected", "decommissioned", "deleted"}
    /\ d \in retired => status[d] \in {"decommissioned", "deleted"}

(* Once a device was told to enroll anew, an older token gives it no       *)
(* certificate, though the older request may have been checked already.    *)
StaleTokenLoses == older = {}

(* An identity once written is never lost: wherever the run or the machine *)
(* dies afterwards, "agent enroll" finds the pair again and needs no token *)
(* (the token is used up); unless a later run had begun to write over it.  *)
IssuedKept ==
  \A m \in Machine : issued[m] # Nil => Matches(Pair(m)) /\ Pair(m).crt = issued[m]

(* Enrollment gives an identity to whom it was meant for, and leaves it    *)
(* there.                                                                  *)
IdentitiesAreSound == NotReadmitted /\ StaleTokenLoses /\ IssuedKept
=============================================================================
