----------------------------- MODULE LoginSessions -----------------------------
(***************************************************************************)
(* People and their sessions on the server: the password step of a login   *)
(* with the limiter of failed ones, the second factor, the tokens a login  *)
(* issues and the middleware that admits them, switching between tenants,  *)
(* changing and resetting a password, inviting and deleting a user         *)
(* (api/auth.go, lockout.go, mfa.go, handler.go, storage).                 *)
(* The sessions are those of one identity, a user of some of the tenants;  *)
(* Admin are the administrators of one tenant.  Every handler reads, checks*)
(* and writes in separate steps, and a request may end between any two.    *)
(* A row of users is <<tenant, generation>>: a user invited again after a  *)
(* deletion has another id.  Time is the second of iat.                    *)
(***************************************************************************)
EXTENDS Integers, FiniteSets

CONSTANTS
  Req, Tenant, Admin,
  RequireMFA,  \* the tenants whose policy asks for a second factor
  MaxFails,    \* failed passwords the limiter allows, 5 in the code
  MaxSessions, MaxSecrets, MaxNow, MaxRows, MaxInvites, PerSecret,
               \* bounds: tokens, MFA secrets, seconds, generations, invitations, recovery codes
  Scopes,      \* bound: the sets of requests that are made together, see use
  Nobody

VARIABLES
  use,       \* the kinds of request made in this behaviour
  now,
  session,   \* the tokens issued
  revoked,   \* token_blocklist
  changed,   \* identities.password_changed_at
  mfa,       \* mfa_enabled, mfa_secret and recovery_codes
  row,       \* the identity's row of users in each tenant, 0 for none
  admins,    \* the it_admin rows of the other tenant members
  invite, reset, \* an invitation into each tenant, a password reset token
  limiter,   \* loginLimiter: failures counted, and whether the key is locked
  guard,     \* who holds the advisory lock of DeleteUser
  req,       \* the requests in flight
  made,      \* rows of users made, by tenant
  secrets,   \* MFA secrets generated
  \* history
  ended,     \* sessions signed out, replaced, or older than a password change
  proven,    \* secrets the user has answered for
  guesses    \* failed passwords since the limiter's last fresh start

vars == <<use, now, session, revoked, changed, mfa, row, admins, invite, reset, limiter, guard, req,
          made, secrets, ended, proven, guesses>>

Session == 1..MaxSessions
Secret  == 1..MaxSecrets
Code    == Secret \X (1..PerSecret)   \* the recovery codes of a secret
Row     == Tenant \X (1..MaxRows)
NoRow   == <<Nobody, 0>>
NoMfa   == [on |-> FALSE, secret |-> 0, codes |-> {}]
Idle    == [op |-> "idle", s |-> 0, row |-> NoRow, mfa |-> NoMfa, who |-> Nobody]
Unused  == [state |-> "none", row |-> NoRow, iat |-> 0, pending |-> FALSE]

Kinds == {"login", "fail", "logout", "switch", "passwd", "reset", "enroll", "verify", "disable",
          "users", "admins", "wait"}
Ops == {"idle", "login", "authed", "switch", "passwd", "enroll", "verify", "disable", "mfaLogin",
        "enrolling", "verifying", "disabling", "issue", "delete", "deleting", "refused",
        "invite", "accept", "reset", "mark"}

TypeOK ==
  /\ use \in SUBSET Kinds /\ now \in 0..MaxNow /\ changed \in 0..MaxNow
  /\ session \in [Session -> [state : {"none", "live", "expired"}, row : Row \cup {NoRow},
                              iat : 0..MaxNow, pending : BOOLEAN]]
  /\ revoked \subseteq Session /\ ended \subseteq Session
  /\ mfa \in [on : BOOLEAN, secret : 0..MaxSecrets, codes : SUBSET Code]
  /\ row \in [Tenant -> 0..MaxRows] /\ made \in [Tenant -> 0..MaxRows]
  /\ admins \subseteq Admin /\ guard \in Req \cup {Nobody}
  /\ invite \in [Tenant -> {"none", "open", "closed"}] /\ reset \in {"none", "open", "closed"}
  /\ limiter \in [count : 0..MaxFails, locked : BOOLEAN] /\ guesses \in Nat
  /\ req \in [Req -> [op : Ops, s : 0..MaxSessions, row : Row \cup {NoRow} \cup (Tenant \X {0}),
                      mfa : [on : BOOLEAN, secret : 0..MaxSecrets, codes : SUBSET Code],
                      who : Admin \cup {Nobody}]]
  /\ secrets \in 0..MaxSecrets /\ proven \subseteq Secret

Init ==
  /\ use \in Scopes /\ now = 0 /\ changed = 0
  /\ session = [s \in Session |-> Unused] /\ revoked = {} /\ ended = {}
  /\ mfa = NoMfa /\ secrets = 0 /\ proven = {}
  /\ row = [t \in Tenant |-> 1] /\ made = row
  /\ admins = Admin /\ guard = Nobody
  /\ invite = [t \in Tenant |-> "none"] /\ reset = "none"
  /\ limiter = [count |-> 0, locked |-> FALSE] /\ guesses = 0
  /\ req = [r \in Req |-> Idle]

Become(r, q) == req' = [req EXCEPT ![r] = q]
Goes(r, op)  == Become(r, [req[r] EXCEPT !.op = op])

people == <<row, made, admins, guard, invite, reset>>
second == <<mfa, secrets, proven>>
counts == <<limiter, guesses>>
tokens == <<session, revoked, ended>>
clock  == <<use, now, changed>>

\* The request is refused, cut off, or fails on the database; the advisory
\* lock goes with the transaction.
RequestEnds(r) ==
  /\ req[r].op # "idle"
  /\ Become(r, Idle)
  /\ guard' = IF guard = r THEN Nobody ELSE guard
  /\ UNCHANGED <<clock, tokens, second, row, made, admins, invite, reset, counts>>

-----------------------------------------------------------------------------
(* Tokens.                                                                 *)

\* Mutant of Accepted: the last change of the password is not looked at.
AcceptedAfterChange(s, setup) ==
  /\ session[s].state = "live" /\ s \notin revoked
  /\ session[s].row[2] = row[session[s].row[1]]
  /\ session[s].pending => setup

\* jwtMiddleware: the signature and the expiry, the blocklist, the user's
\* row and the second of the last password change.
Accepted(s, setup) ==
  /\ session[s].state = "live" /\ s \notin revoked
  /\ session[s].row[2] = row[session[s].row[1]]
  /\ session[s].iat >= changed
  /\ session[s].pending => setup

JwtMiddleware(r, s, op) ==
  /\ req[r] = Idle /\ session[s].state = "live"
  /\ op \in {"switch", "passwd", "enroll", "verify", "disable"} \cap use
  /\ Accepted(s, op \in {"enroll", "verify"})
  /\ Become(r, [Idle EXCEPT !.op = op, !.s = s, !.row = session[s].row])
  /\ UNCHANGED <<clock, tokens, second, people, counts>>

IssueToken(r, at, pending) ==
  \E s \in Session :
    /\ session[s].state = "none" /\ \A u \in 1..(s - 1) : session[u].state # "none"
    /\ session' = [session EXCEPT ![s] = [state |-> "live", row |-> at, iat |-> now, pending |-> pending]]
    /\ Become(r, Idle)

\* The last step of switchTenant, changePassword, mfaLogin and mfaVerifyEnroll.
Reissue(r) ==
  /\ req[r].op = "issue"
  /\ IssueToken(r, req[r].row, FALSE)
  /\ UNCHANGED <<clock, revoked, ended, second, people, counts>>

RevokeToken(s) == revoked' = revoked \cup {s} /\ ended' = ended \cup {s}

SwitchTenant(r, t) ==
  /\ req[r].op = "switch" /\ t # req[r].row[1]
  /\ row[t] # 0                                                 \* FindMembership
  /\ RevokeToken(req[r].s)
  /\ Become(r, [req[r] EXCEPT !.op = "issue", !.row = <<t, row[t]>>])
  /\ UNCHANGED <<clock, session, second, people, counts>>

Logout(s) ==
  /\ "logout" \in use /\ session[s].state = "live" /\ ~session[s].pending
  /\ RevokeToken(s)
  /\ UNCHANGED <<clock, session, second, people, counts, req>>

Expire(s) ==
  /\ session[s].state = "live"
  /\ session' = [session EXCEPT ![s].state = "expired"]
  /\ UNCHANGED <<clock, revoked, ended, second, people, counts, req>>

\* A row of the blocklist lives as long as its token.
CleanupExpiredRevokedTokens ==
  /\ \E s \in revoked : session[s].state = "expired"
  /\ revoked' = {s \in revoked : session[s].state # "expired"}
  /\ UNCHANGED <<clock, session, ended, second, people, counts, req>>

Tick ==
  /\ "wait" \in use /\ now < MaxNow /\ now' = now + 1
  /\ UNCHANGED <<use, changed, tokens, second, people, counts, req>>

-----------------------------------------------------------------------------
(* The password step.                                                      *)

LoginStarts(r) ==
  /\ "login" \in use /\ req[r] = Idle /\ ~limiter.locked
  /\ Become(r, [Idle EXCEPT !.op = "login"])
  /\ UNCHANGED <<clock, tokens, second, people, counts>>

\* Mutant of Fail: failures are only counted.
FailNeverLocks == limiter' = [limiter EXCEPT !.count = @ + 1]

Fail == limiter' = IF limiter.count + 1 >= MaxFails THEN [count |-> 0, locked |-> TRUE]
                   ELSE [limiter EXCEPT !.count = @ + 1]

\* A wrong password, in the local table and in the directory.
LoginFails(r) ==
  /\ "fail" \in use /\ req[r].op = "login"
  /\ Fail /\ guesses' = guesses + 1
  /\ Become(r, Idle)
  /\ UNCHANGED <<clock, tokens, second, people>>

LoginPasses(r) ==
  /\ req[r].op = "login"
  /\ Become(r, [Idle EXCEPT !.op = "authed", !.mfa = mfa])
  /\ UNCHANGED <<clock, tokens, second, people, counts>>

\* The password is right and there is no tenant to enter.
LoginHomeless(r) ==
  /\ req[r].op = "authed" /\ \A t \in Tenant : row[t] = 0
  /\ Fail /\ guesses' = guesses + 1
  /\ Become(r, Idle)
  /\ UNCHANGED <<clock, tokens, second, people>>

LoginIssues(r, t) ==
  /\ req[r].op = "authed" /\ row[t] # 0
  /\ limiter' = [count |-> 0, locked |-> FALSE] /\ guesses' = 0  \* success
  /\ IssueToken(r, <<t, row[t]>>, req[r].mfa.on \/ t \in RequireMFA)
  /\ UNCHANGED <<clock, revoked, ended, second, people>>

\* The window since the first failure ends, or the lock does.
LimiterForgets ==
  /\ limiter # [count |-> 0, locked |-> FALSE]
  /\ limiter' = IF limiter.locked THEN [limiter EXCEPT !.locked = FALSE] ELSE [limiter EXCEPT !.count = 0]
  /\ guesses' = limiter'.count
  /\ UNCHANGED <<clock, tokens, second, people, req>>

UpdateIdentityPassword ==
  /\ changed' = now
  /\ ended' = ended \cup {s \in Session : session[s].state = "live" /\ session[s].iat < now}

ChangePassword(r) ==
  /\ req[r].op = "passwd"
  /\ UpdateIdentityPassword
  /\ Goes(r, "issue")
  /\ UNCHANGED <<use, now, session, revoked, second, people, counts>>

ForgotPassword(t) ==
  /\ "reset" \in use /\ reset = "none" /\ row[t] # 0
  /\ reset' = "open"
  /\ UNCHANGED <<clock, tokens, second, row, made, admins, guard, invite, counts, req>>

ResetReads(r) ==
  /\ req[r] = Idle /\ reset = "open"
  /\ Become(r, [Idle EXCEPT !.op = "reset"])
  /\ UNCHANGED <<clock, tokens, second, people, counts>>

ResetPassword(r) ==
  /\ req[r].op = "reset" /\ \E t \in Tenant : row[t] # 0
  /\ UpdateIdentityPassword
  /\ Goes(r, "mark")
  /\ UNCHANGED <<use, now, session, revoked, second, people, counts>>

MarkPasswordResetTokenUsed(r) ==
  /\ req[r].op = "mark"
  /\ reset' = "closed"
  /\ Become(r, Idle)
  /\ UNCHANGED <<clock, tokens, second, row, made, admins, guard, invite, counts>>

-----------------------------------------------------------------------------
(* The second factor: each handler reads the identity, checks a code       *)
(* against what it read, and writes all three columns.                     *)

SetMFA(on, secret, codes) == mfa' = [on |-> on, secret |-> secret, codes |-> codes]

\* mfaLogin parses the token itself: its expiry is all it looks at.
MfaLogin(r, s) ==
  /\ req[r] = Idle /\ session[s].state = "live" /\ session[s].pending
  /\ mfa.on /\ mfa.secret # 0
  /\ Become(r, [Idle EXCEPT !.op = "mfaLogin", !.row = session[s].row, !.mfa = mfa])
  /\ UNCHANGED <<clock, tokens, second, people, counts>>

MfaLoginByApp(r) ==
  /\ req[r].op = "mfaLogin"
  /\ Goes(r, "issue")
  /\ UNCHANGED <<clock, tokens, second, people, counts>>

MfaLoginByRecoveryCode(r, c) ==
  /\ req[r].op = "mfaLogin" /\ c \in req[r].mfa.codes
  /\ SetMFA(TRUE, req[r].mfa.secret, req[r].mfa.codes \ {c})
  /\ Goes(r, "issue")
  /\ UNCHANGED <<clock, tokens, people, counts, secrets, proven>>

MfaReads(r) ==
  /\ \/ req[r].op = "enroll" /\ ~mfa.on /\ Become(r, [req[r] EXCEPT !.op = "enrolling", !.mfa = mfa])
     \/ req[r].op = "verify" /\ mfa.secret # 0 /\ Become(r, [req[r] EXCEPT !.op = "verifying", !.mfa = mfa])
     \/ /\ req[r].op = "disable" /\ mfa.on /\ mfa.secret # 0
        /\ Become(r, [req[r] EXCEPT !.op = "disabling", !.mfa = mfa])
  /\ UNCHANGED <<clock, tokens, second, people, counts>>

MfaEnroll(r) ==
  /\ req[r].op = "enrolling" /\ secrets < MaxSecrets
  /\ secrets' = secrets + 1
  /\ SetMFA(FALSE, secrets', {c \in Code : c[1] = secrets'})
  /\ Become(r, Idle)
  /\ UNCHANGED <<clock, tokens, people, counts, proven>>

\* Mutant of MfaVerifyEnroll: only the flag is written, over any secret.
MfaVerifyEnrollByRow(r) ==
  /\ req[r].op = "verifying"
  /\ SetMFA(TRUE, mfa.secret, mfa.codes)
  /\ proven' = proven \cup {req[r].mfa.secret}
  /\ IF session[req[r].s].pending THEN Goes(r, "issue") ELSE Become(r, Idle)
  /\ UNCHANGED <<clock, tokens, people, counts, secrets>>

MfaVerifyEnroll(r) ==
  /\ req[r].op = "verifying"
  /\ SetMFA(TRUE, req[r].mfa.secret, req[r].mfa.codes)
  /\ proven' = proven \cup {req[r].mfa.secret}
  /\ IF session[req[r].s].pending THEN Goes(r, "issue") ELSE Become(r, Idle)
  /\ UNCHANGED <<clock, tokens, people, counts, secrets>>

MfaDisable(r) ==
  /\ req[r].op = "disabling"
  /\ SetMFA(FALSE, 0, {})
  /\ Become(r, Idle)
  /\ UNCHANGED <<clock, tokens, people, counts, secrets, proven>>

-----------------------------------------------------------------------------
(* Users.                                                                  *)

InviteUser(t) ==
  /\ "users" \in use /\ invite[t] = "none" /\ made[t] < MaxRows
  /\ Cardinality({u \in Tenant : invite[u] # "none"}) < MaxInvites
  /\ invite' = [invite EXCEPT ![t] = "open"]
  /\ UNCHANGED <<clock, tokens, second, row, made, admins, guard, reset, counts, req>>

AcceptInviteReads(r, t) ==
  /\ req[r] = Idle /\ invite[t] = "open"
  /\ Become(r, [Idle EXCEPT !.op = "invite", !.row = <<t, 0>>])
  /\ UNCHANGED <<clock, tokens, second, people, counts>>

\* CreateUser: one row of an identity in a tenant.
CreateUser(r) ==
  /\ req[r].op = "invite"
  /\ LET t == req[r].row[1]
     IN  /\ row[t] = 0 /\ made[t] < MaxRows
         /\ made' = [made EXCEPT ![t] = @ + 1]
         /\ row' = [row EXCEPT ![t] = made'[t]]
  /\ Goes(r, "accept")
  /\ UNCHANGED <<clock, tokens, second, admins, guard, invite, reset, counts>>

AcceptInvitation(r) ==
  /\ req[r].op = "accept"
  /\ invite' = [invite EXCEPT ![req[r].row[1]] = "closed"]
  /\ Become(r, Idle)
  /\ UNCHANGED <<clock, tokens, second, row, made, admins, guard, reset, counts>>

\* DeleteUser of the identity's row: not an administrator's.
DeleteMember(t) ==
  /\ "users" \in use /\ row[t] # 0 /\ admins # {}
  /\ row' = [row EXCEPT ![t] = 0]
  /\ ended' = ended \cup {s \in Session : session[s].row = <<t, row[t]>>}
  /\ UNCHANGED <<clock, session, revoked, second, made, admins, guard, invite, reset, counts, req>>

\* An administrator deletes another: admitted here, counted and deleted in a
\* transaction that holds the advisory lock.
DeleteUserStarts(r, a, x) ==
  /\ "admins" \in use /\ req[r] = Idle /\ a \in admins /\ x \in admins /\ a # x
  /\ Become(r, [Idle EXCEPT !.op = "delete", !.who = x])
  /\ UNCHANGED <<clock, tokens, second, people, counts>>

AdminGuard(r) ==
  /\ guard = Nobody
  /\ guard' = r

CountAdmins(r) ==
  /\ req[r].op = "delete"
  /\ AdminGuard(r)
  /\ Goes(r, IF req[r].who \in admins /\ Cardinality(admins) > 1 THEN "deleting" ELSE "refused")
  /\ UNCHANGED <<clock, tokens, second, row, made, admins, invite, reset, counts>>

DeleteUser(r) ==
  /\ req[r].op = "deleting"
  /\ admins' = admins \ {req[r].who}
  /\ guard' = IF guard = r THEN Nobody ELSE guard
  /\ Become(r, Idle)
  /\ UNCHANGED <<clock, tokens, second, row, made, invite, reset, counts>>

-----------------------------------------------------------------------------
Next ==
  \/ Tick \/ CleanupExpiredRevokedTokens \/ LimiterForgets
  \/ \E s \in Session : Expire(s) \/ Logout(s)
  \/ \E t \in Tenant : InviteUser(t) \/ DeleteMember(t) \/ ForgotPassword(t)
  \/ \E r \in Req :
       \/ RequestEnds(r) \/ Reissue(r)
       \/ LoginStarts(r) \/ LoginFails(r) \/ LoginPasses(r) \/ LoginHomeless(r)
       \/ ChangePassword(r) \/ ResetReads(r) \/ ResetPassword(r) \/ MarkPasswordResetTokenUsed(r)
       \/ MfaLoginByApp(r) \/ MfaReads(r) \/ MfaEnroll(r) \/ MfaVerifyEnroll(r) \/ MfaDisable(r)
       \/ CreateUser(r) \/ AcceptInvitation(r) \/ CountAdmins(r) \/ DeleteUser(r)
       \/ \E s \in Session, op \in Ops : JwtMiddleware(r, s, op)
       \/ \E s \in Session : MfaLogin(r, s)
       \/ \E c \in Code : MfaLoginByRecoveryCode(r, c)
       \/ \E t \in Tenant : SwitchTenant(r, t) \/ LoginIssues(r, t) \/ AcceptInviteReads(r, t)
       \/ \E a, x \in Admin : DeleteUserStarts(r, a, x)

Spec == Init /\ [][Next]_vars

-----------------------------------------------------------------------------
\* A session that was signed out, replaced by a switch of tenant, older than
\* the last change of the password or of a deleted user is never accepted
\* again, whatever the cleanup of the blocklist removes and whoever is
\* invited again.
EndedForGood == \A s \in ended : ~Accepted(s, TRUE)

\* While the second factor is on, the stored secret is one the user has
\* answered for, and the recovery codes are those issued with it: no two
\* handlers leave a secret of one and the flag of the other.
FactorIsProven == mfa.on => mfa.secret \in proven /\ \A c \in mfa.codes : c[1] = mfa.secret

\* Deletions that run at once leave the tenant an administrator.
AnAdminRemains == Admin # {} => admins # {}

\* Before the limiter forgets, no more passwords are tried than it allows and
\* the requests that were already past it.
FewGuesses == guesses < MaxFails + Cardinality(Req)

\* What the transactions, the locks and the counters are there for: handlers
\* of one account, tenant or address that run at once do no more than one.
HandlersDoNotRace == FactorIsProven /\ AnAdminRemains /\ FewGuesses
=============================================================================
