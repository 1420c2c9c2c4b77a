----------------------------- MODULE ServerProofs -----------------------------
(***************************************************************************)
(* Proofs about three parts of which the server keeps the books: sessions  *)
(* of the console, alerts, and enrollment.  Each part has an inductive     *)
(* invariant, shown conjunct by conjunct; a lemma says first which actions *)
(* can change what, so that a conjunct is looked at only where it can be   *)
(* disturbed.                                                              *)
(***************************************************************************)
EXTENDS Parts, FiniteSetTheorems, TLAPS

\* The part is chosen once.
LEMMA ServerPartStays == ASSUME [PartNext]_<<part, vars, cells>> PROVE part' = part
BY DEF PartNext, cells

-----------------------------------------------------------------------------
(* Sessions (LoginSessions): why what has ended is not accepted again, and *)
(* why handlers that overlap do not undo each other.                       *)

\* A row of a token or of a request that has one is a row that was made.
LoginMade(w) == w \in Login!Row /\ w[2] <= made[w[1]]
LoginWithToken == {"switch", "passwd", "enroll", "verify", "disable", "mfaLogin",
                   "enrolling", "verifying", "disabling", "issue"}
LoginRows ==
  /\ \A t \in Tenant : row[t] <= made[t]
  /\ \A s \in Login!Session : session[s].state # "none" => LoginMade(session[s].row)
  /\ \A s \in Login!Session : session[s].state = "none" => session[s].row = Login!NoRow
  /\ \A r \in Req : req[r].op \in LoginWithToken => LoginMade(req[r].row)
  /\ \A r \in Req : req[r].op \in LoginWithToken \ {"mfaLogin", "issue"} =>
       req[r].s \in Login!Session /\ session[req[r].s].state # "none"
  /\ \A r \in Req : req[r].op \in {"invite", "accept"} => req[r].row[1] \in Tenant

\* Why a session that has ended is not accepted: none of it comes back.
LoginEnded ==
  /\ changed <= clock
  /\ \A s \in ended : /\ session[s].state # "none"
                      /\ \/ session[s].state = "expired" \/ s \in revoked
                         \/ session[s].iat < changed
                         \/ session[s].row[2] # row[session[s].row[1]]

\* Every copy of the second factor is whole, and proven if it was on.
LoginWhole(f) == \A c \in f.codes : c[1] = f.secret
LoginFactor ==
  /\ LoginWhole(mfa) /\ (mfa.on => mfa.secret \in proven)
  /\ \A r \in Req : LoginWhole(req[r].mfa)
  /\ \A r \in Req : req[r].op = "mfaLogin" => req[r].mfa.secret \in proven
  /\ \A r \in Req : req[r].op = "verifying" => req[r].mfa.secret # 0

\* Only who holds the lock deletes, and leaves another.
LoginAdmins ==
  /\ Admin # {} => admins # {}
  /\ \A r \in Req : req[r].op = "deleting" =>
       guard = r /\ \E a \in admins : a # req[r].who

\* The requests past the limiter.
LoginPast == {r \in Req : req[r].op \in {"login", "authed"}}
LoginGuesses ==
  /\ limiter.count < MaxFails
  /\ ~limiter.locked => guesses = limiter.count
  /\ limiter.locked => guesses + Cardinality(LoginPast) < MaxFails + Cardinality(Req)

LoginInv == Login!TypeOK /\ LoginRows /\ LoginEnded /\ LoginFactor /\ LoginAdmins /\ LoginGuesses
-----------------------------------------------------------------------------
\* The records of the types.
LoginFactors  == [on : BOOLEAN, secret : 0..MaxSecrets, codes : SUBSET Login!Code]
LoginRowsOf   == Login!Row \cup {Login!NoRow} \cup (Tenant \X {0})
LoginRequests == [op : Login!Ops, s : 0..MaxSessions, row : LoginRowsOf, mfa : LoginFactors,
                  who : Admin \cup {Nobody}]
LoginTokens   == [state : {"none", "live", "expired"}, row : Login!Row \cup {Login!NoRow},
                  iat : 0..MaxNow, pending : BOOLEAN]

LoginClock  == use \in SUBSET Login!Kinds /\ clock \in 0..MaxNow /\ changed \in 0..MaxNow
LoginIssued ==
  /\ session \in [Login!Session -> LoginTokens]
  /\ revoked \subseteq Login!Session /\ ended \subseteq Login!Session
LoginPeople ==
  /\ row \in [Tenant -> 0..MaxUserRows] /\ made \in [Tenant -> 0..MaxUserRows]
  /\ admins \subseteq Admin /\ guard \in Req \cup {Nobody}
  /\ invite \in [Tenant -> {"none", "open", "closed"}] /\ reset \in {"none", "open", "closed"}
LoginSecond ==
  mfa \in LoginFactors /\ secrets \in 0..MaxSecrets /\ proven \subseteq Login!Secret
LoginCounts ==
  /\ limiter \in [count : 0..MaxFails, locked : BOOLEAN] /\ guesses \in Nat

\* The type invariant, in the groups the steps are taken in.
LEMMA LoginTypesAre ==
  Login!TypeOK <=> /\ LoginClock /\ LoginIssued /\ LoginPeople /\ LoginSecond /\ LoginCounts
                   /\ req \in [Req -> LoginRequests]
  BY DEF Login!TypeOK, LoginClock, LoginIssued, LoginPeople, LoginSecond,
     LoginCounts, LoginFactors, LoginRowsOf, LoginRequests, LoginTokens

(* The cardinality of the sessions' module is the one of FiniteSets.       *)
LEMMA LoginCardinality == \A S : Login!Cardinality(S) = Cardinality(S)
  BY DEF Login!Cardinality, Cardinality

\* The records a handler begins with have their types.
LEMMA LoginRecords ==
  /\ Login!NoMfa \in LoginFactors /\ Login!Idle \in LoginRequests /\ Login!Unused \in LoginTokens
  /\ \A t \in Tenant, n \in 1..MaxUserRows : <<t, n>> \in Login!Row
<1> USE LoginAssumption
<1>1. Login!NoMfa \in LoginFactors
  BY DEF Login!NoMfa, LoginFactors
<1>2. Login!Idle \in LoginRequests
  BY <1>1 DEF Login!Idle, LoginRequests, Login!Ops, LoginRowsOf
<1>3. Login!Unused \in LoginTokens
  BY DEF Login!Unused, LoginTokens
<1> QED
  BY <1>1, <1>2, <1>3 DEF Login!Row

\* The invariant holds at the start.
LEMMA LoginInitInv == ASSUME Login!Init PROVE LoginInv
<1> USE LoginAssumption DEF Login!Init
<1>1. Login!TypeOK
  <2>1. LoginClock /\ LoginSecond
    BY LoginRecords DEF LoginClock, LoginSecond
  <2>2. LoginIssued /\ req \in [Req -> LoginRequests]
    BY LoginRecords DEF LoginIssued
  <2>3. LoginPeople
    BY DEF LoginPeople
  <2>4. LoginCounts
    BY DEF LoginCounts
  <2> QED
    BY <2>1, <2>2, <2>3, <2>4, LoginTypesAre
<1>2. \A r \in Req : req[r].op = "idle" /\ req[r].mfa.codes = {}
  BY DEF Login!Idle, Login!NoMfa
<1>3. LoginRows
  BY <1>2 DEF LoginRows, LoginWithToken, Login!Unused
<1>4. LoginEnded /\ LoginAdmins
  BY <1>2 DEF LoginEnded, LoginAdmins
<1>5. LoginFactor
  BY <1>2 DEF LoginFactor, LoginWhole, Login!NoMfa
<1>6. LoginGuesses
  BY DEF LoginGuesses
<1> QED
  BY <1>1, <1>3, <1>4, <1>5, <1>6 DEF LoginInv

-----------------------------------------------------------------------------
(* A handler's request stays a request, whatever step it takes.            *)
LEMMA LoginRequestsStep ==
  ASSUME Login!TypeOK, Login!Next
  PROVE  req' \in [Req -> LoginRequests]
<1>0. req \in [Req -> LoginRequests] /\ LoginPeople /\ LoginSecond /\ LoginIssued
  BY LoginTypesAre
<1>1. ASSUME NEW r \in Req, NEW q \in LoginRequests, Login!Become(r, q)
      PROVE  req' \in [Req -> LoginRequests]
  BY <1>0, <1>1 DEF Login!Become
<1>2. ASSUME NEW r \in Req, NEW op \in Login!Ops, Login!Goes(r, op)
      PROVE  req' \in [Req -> LoginRequests]
  <2>1. [req[r] EXCEPT !.op = op] \in LoginRequests
    BY <1>0 DEF LoginRequests
  <2> QED
    BY <1>1, <1>2, <2>1 DEF Login!Goes
<1>3. /\ \A op \in Login!Ops : [Login!Idle EXCEPT !.op = op] \in LoginRequests
      /\ \A op \in Login!Ops, w \in LoginRowsOf :
           [Login!Idle EXCEPT !.op = op, !.row = w] \in LoginRequests
      /\ \A op \in Login!Ops, f \in LoginFactors :
           [Login!Idle EXCEPT !.op = op, !.mfa = f] \in LoginRequests
      /\ \A op \in Login!Ops, w \in LoginRowsOf, f \in LoginFactors :
           [Login!Idle EXCEPT !.op = op, !.row = w, !.mfa = f] \in LoginRequests
      /\ \A op \in Login!Ops, w \in LoginRowsOf, s \in 0..MaxSessions :
           [Login!Idle EXCEPT !.op = op, !.s = s, !.row = w] \in LoginRequests
      /\ \A op \in Login!Ops, x \in Admin :
           [Login!Idle EXCEPT !.op = op, !.who = x] \in LoginRequests
  BY LoginRecords DEF LoginRequests
<1>4. \A r \in Req, op \in Login!Ops :
        /\ \A w \in LoginRowsOf : [req[r] EXCEPT !.op = op, !.row = w] \in LoginRequests
        /\ \A f \in LoginFactors : [req[r] EXCEPT !.op = op, !.mfa = f] \in LoginRequests
  BY <1>0 DEF LoginRequests
<1>5. ASSUME UNCHANGED req PROVE req' \in [Req -> LoginRequests]
  BY <1>0, <1>5
<1>6. /\ \A t \in Tenant : row[t] # 0 => <<t, row[t]>> \in LoginRowsOf
      /\ \A t \in Tenant : <<t, 0>> \in LoginRowsOf
      /\ \A s \in Login!Session : s \in 0..MaxSessions /\ session[s].row \in LoginRowsOf
      /\ mfa \in LoginFactors
  BY <1>0, LoginAssumption DEF LoginPeople, LoginIssued, LoginSecond,
     LoginRowsOf, Login!Row, LoginTokens, Login!Session
<1>7. {"idle", "login", "authed", "switch", "passwd", "enroll", "verify", "disable", "mfaLogin",
       "enrolling", "verifying", "disabling", "issue", "delete", "deleting", "refused",
       "invite", "accept", "reset", "mark"} \subseteq Login!Ops
  BY DEF Login!Ops
<1>8. CASE \/ Login!Tick \/ Login!CleanupExpiredRevokedTokens \/ Login!LimiterForgets
           \/ \E s \in Login!Session : Login!Expire(s) \/ Login!Logout(s)
           \/ \E t \in Tenant : Login!InviteUser(t) \/ Login!DeleteMember(t) \/ Login!ForgotPassword(t)
  BY <1>5, <1>8 DEF Login!Tick, Login!CleanupExpiredRevokedTokens,
     Login!LimiterForgets, Login!Expire, Login!Logout, Login!InviteUser,
     Login!DeleteMember, Login!ForgotPassword
<1>9. ASSUME NEW r \in Req,
             \/ Login!RequestEnds(r) \/ Login!Reissue(r) \/ Login!LoginFails(r)
             \/ Login!LoginHomeless(r) \/ Login!MarkPasswordResetTokenUsed(r) \/ Login!MfaEnroll(r)
             \/ Login!MfaDisable(r) \/ Login!AcceptInvitation(r) \/ Login!DeleteUser(r)
             \/ \E t \in Tenant : Login!LoginIssues(r, t)
      PROVE  req' \in [Req -> LoginRequests]
  BY <1>1, <1>9, LoginRecords DEF Login!RequestEnds, Login!Reissue,
     Login!LoginFails, Login!LoginHomeless, Login!MarkPasswordResetTokenUsed,
     Login!MfaEnroll, Login!MfaDisable, Login!AcceptInvitation,
     Login!DeleteUser, Login!LoginIssues, Login!IssueToken
<1>10. ASSUME NEW r \in Req,
              \/ Login!ChangePassword(r) \/ Login!ResetPassword(r) \/ Login!MfaLoginByApp(r)
              \/ Login!CreateUser(r) \/ Login!CountAdmins(r)
              \/ \E c \in Login!Code : Login!MfaLoginByRecoveryCode(r, c)
       PROVE  req' \in [Req -> LoginRequests]
  BY <1>2, <1>7, <1>10 DEF Login!ChangePassword, Login!ResetPassword,
     Login!MfaLoginByApp, Login!CreateUser, Login!CountAdmins,
     Login!MfaLoginByRecoveryCode
<1>11. ASSUME NEW r \in Req, Login!MfaVerifyEnroll(r) PROVE req' \in [Req -> LoginRequests]
  BY <1>1, <1>2, <1>7, <1>11, LoginRecords DEF Login!MfaVerifyEnroll
<1>12. ASSUME NEW r \in Req,
              \/ Login!LoginStarts(r) \/ Login!LoginPasses(r) \/ Login!ResetReads(r)
              \/ \E s \in Login!Session : Login!MfaLogin(r, s)
              \/ \E t \in Tenant : Login!AcceptInviteReads(r, t)
       PROVE  req' \in [Req -> LoginRequests]
  BY <1>1, <1>3, <1>6, <1>7, <1>12 DEF Login!LoginStarts, Login!LoginPasses,
     Login!ResetReads, Login!MfaLogin, Login!AcceptInviteReads
<1>13. ASSUME NEW r \in Req, NEW s \in Login!Session, NEW op \in Login!Ops,
              Login!JwtMiddleware(r, s, op)
       PROVE  req' \in [Req -> LoginRequests]
  BY <1>1, <1>3, <1>6, <1>13 DEF Login!JwtMiddleware
<1>14. ASSUME NEW r \in Req, NEW t \in Tenant, Login!SwitchTenant(r, t)
       PROVE  req' \in [Req -> LoginRequests]
  BY <1>1, <1>4, <1>6, <1>7, <1>14 DEF Login!SwitchTenant
<1>15. ASSUME NEW r \in Req, NEW a \in Admin, NEW x \in Admin, Login!DeleteUserStarts(r, a, x)
       PROVE  req' \in [Req -> LoginRequests]
  BY <1>1, <1>3, <1>7, <1>15 DEF Login!DeleteUserStarts
<1>16. ASSUME NEW r \in Req, Login!MfaReads(r) PROVE req' \in [Req -> LoginRequests]
  <2>1. \E op \in {"enrolling", "verifying", "disabling"} :
          Login!Become(r, [req[r] EXCEPT !.op = op, !.mfa = mfa])
    BY <1>16 DEF Login!MfaReads
  <2> QED
    BY <1>1, <1>4, <1>6, <1>7, <2>1
<1> QED
  BY <1>8, <1>9, <1>10, <1>11, <1>12, <1>13, <1>14, <1>15, <1>16 DEF Login!Next
(* Which steps change what.                                                *)
LEMMA LoginFrames ==
  ASSUME Login!Next
  PROVE  /\ \/ UNCHANGED <<use, clock, changed>>
            \/ Login!Tick
            \/ \E r \in Req : Login!ChangePassword(r) \/ Login!ResetPassword(r)
         /\ \/ UNCHANGED <<session, revoked, ended>>
            \/ Login!CleanupExpiredRevokedTokens
            \/ \E s \in Login!Session : Login!Expire(s) \/ Login!Logout(s)
            \/ \E t \in Tenant : Login!DeleteMember(t)
            \/ \E r \in Req :
                 \/ Login!Reissue(r) \/ Login!ChangePassword(r) \/ Login!ResetPassword(r)
                 \/ \E t \in Tenant : Login!SwitchTenant(r, t) \/ Login!LoginIssues(r, t)
         /\ \/ UNCHANGED <<row, made>>
            \/ \E t \in Tenant : Login!DeleteMember(t)
            \/ \E r \in Req : Login!CreateUser(r)
         /\ \/ UNCHANGED <<admins, guard, invite, reset>>
            \/ \E t \in Tenant : Login!InviteUser(t) \/ Login!ForgotPassword(t)
            \/ \E r \in Req :
                 \/ Login!RequestEnds(r) \/ Login!MarkPasswordResetTokenUsed(r)
                 \/ Login!AcceptInvitation(r) \/ Login!CountAdmins(r) \/ Login!DeleteUser(r)
         /\ \/ UNCHANGED <<mfa, secrets, proven>>
            \/ \E r \in Req : \/ Login!MfaEnroll(r) \/ Login!MfaVerifyEnroll(r) \/ Login!MfaDisable(r)
                              \/ \E c \in Login!Code : Login!MfaLoginByRecoveryCode(r, c)
         /\ \/ UNCHANGED <<limiter, guesses>>
            \/ Login!LimiterForgets
            \/ \E r \in Req : \/ Login!LoginFails(r) \/ Login!LoginHomeless(r)
                              \/ \E t \in Tenant : Login!LoginIssues(r, t)
<1> USE DEF Login!clock, Login!tokens, Login!second, Login!people, Login!counts
<1>1. CASE \/ Login!Tick \/ Login!CleanupExpiredRevokedTokens \/ Login!LimiterForgets
           \/ \E s \in Login!Session : Login!Expire(s) \/ Login!Logout(s)
           \/ \E t \in Tenant : Login!InviteUser(t) \/ Login!DeleteMember(t) \/ Login!ForgotPassword(t)
  BY <1>1 DEF Login!Tick, Login!CleanupExpiredRevokedTokens,
     Login!LimiterForgets, Login!Expire, Login!Logout, Login!InviteUser,
     Login!DeleteMember, Login!ForgotPassword
<1>2. CASE \E r \in Req :
             \/ Login!RequestEnds(r) \/ Login!Reissue(r)
             \/ Login!LoginStarts(r) \/ Login!LoginFails(r) \/ Login!LoginPasses(r)
             \/ Login!LoginHomeless(r) \/ \E t \in Tenant : Login!LoginIssues(r, t)
  BY <1>2 DEF Login!RequestEnds, Login!Reissue, Login!LoginStarts,
     Login!LoginFails, Login!LoginPasses, Login!LoginHomeless,
     Login!LoginIssues
<1>3. CASE \E r \in Req :
             \/ Login!ChangePassword(r) \/ Login!ResetReads(r) \/ Login!ResetPassword(r)
             \/ Login!MarkPasswordResetTokenUsed(r)
             \/ \E s \in Login!Session, op \in Login!Ops : Login!JwtMiddleware(r, s, op)
             \/ \E t \in Tenant : Login!SwitchTenant(r, t) \/ Login!AcceptInviteReads(r, t)
  BY <1>3 DEF Login!ChangePassword, Login!ResetReads, Login!ResetPassword,
     Login!MarkPasswordResetTokenUsed, Login!JwtMiddleware, Login!SwitchTenant,
     Login!AcceptInviteReads
<1>4. CASE \E r \in Req :
             \/ Login!MfaLoginByApp(r) \/ Login!MfaReads(r) \/ Login!MfaEnroll(r)
             \/ Login!MfaVerifyEnroll(r) \/ Login!MfaDisable(r)
             \/ \E s \in Login!Session : Login!MfaLogin(r, s)
             \/ \E c \in Login!Code : Login!MfaLoginByRecoveryCode(r, c)
  BY <1>4 DEF Login!MfaLoginByApp, Login!MfaReads, Login!MfaEnroll,
     Login!MfaVerifyEnroll, Login!MfaDisable, Login!MfaLogin,
     Login!MfaLoginByRecoveryCode
<1>5. CASE \E r \in Req :
             \/ Login!CreateUser(r) \/ Login!AcceptInvitation(r) \/ Login!CountAdmins(r)
             \/ Login!DeleteUser(r) \/ \E a, x \in Admin : Login!DeleteUserStarts(r, a, x)
  BY <1>5 DEF Login!CreateUser, Login!AcceptInvitation, Login!CountAdmins,
     Login!DeleteUser, Login!DeleteUserStarts
<1> QED
  BY <1>1, <1>2, <1>3, <1>4, <1>5 DEF Login!Next

\* Every step keeps the types.
LEMMA LoginTypesStep ==
  ASSUME Login!TypeOK, LoginRows, LoginFactor, LoginGuesses, Login!Next
  PROVE  Login!TypeOK'
<1> USE LoginAssumption
<1>0. /\ LoginClock /\ LoginIssued /\ LoginPeople /\ LoginSecond /\ LoginCounts
      /\ req \in [Req -> LoginRequests]
  BY LoginTypesAre
<1>1. LoginClock'
  BY <1>0, LoginFrames DEF LoginClock, Login!Tick, Login!ChangePassword,
     Login!ResetPassword, Login!UpdateIdentityPassword
<1>2. LoginIssued'
  <2>1. ASSUME NEW r \in Req, NEW w \in Login!Row, NEW p \in BOOLEAN, Login!IssueToken(r, w, p)
        PROVE  session' \in [Login!Session -> LoginTokens]
    <3>1. [state |-> "live", row |-> w, iat |-> clock, pending |-> p] \in LoginTokens
      BY <1>0 DEF LoginTokens, LoginClock
    <3> QED
      BY <1>0, <2>1, <3>1 DEF Login!IssueToken, LoginIssued
  <2>2. ASSUME NEW r \in Req, Login!Reissue(r) PROVE LoginIssued'
    <3>1. req[r].row \in Login!Row /\ Login!IssueToken(r, req[r].row, FALSE)
      BY <2>2 DEF Login!Reissue, LoginRows, LoginMade, LoginWithToken
    <3> QED
      BY <1>0, <2>1, <2>2, <3>1 DEF LoginIssued, Login!Reissue
  <2>3. ASSUME NEW r \in Req, NEW t \in Tenant, Login!LoginIssues(r, t) PROVE LoginIssued'
    <3>1. <<t, row[t]>> \in Login!Row
      BY <1>0, <2>3 DEF Login!LoginIssues, LoginPeople, Login!Row
    <3>2. req[r].mfa.on \in BOOLEAN
      BY <1>0 DEF LoginRequests, LoginFactors
    <3>3. (req[r].mfa.on \/ t \in RequireMFA) \in BOOLEAN
      BY <3>2, Zenon
    <3>4. Login!IssueToken(r, <<t, row[t]>>, req[r].mfa.on \/ t \in RequireMFA)
      BY <2>3 DEF Login!LoginIssues
    <3> QED
      BY <1>0, <2>1, <2>3, <3>1, <3>3, <3>4 DEF LoginIssued, Login!LoginIssues
  <2>4. ASSUME NEW r \in Req, NEW t \in Tenant, Login!SwitchTenant(r, t) PROVE LoginIssued'
    <3>1. req[r].s \in Login!Session
      BY <2>4 DEF Login!SwitchTenant, LoginRows, LoginWithToken
    <3> QED
      BY <1>0, <2>4, <3>1 DEF LoginIssued, Login!SwitchTenant,
         Login!RevokeToken
  <2>5. ASSUME NEW s \in Login!Session, Login!Expire(s) \/ Login!Logout(s) PROVE LoginIssued'
    BY <1>0, <2>5 DEF LoginIssued, LoginTokens, Login!Expire, Login!Logout,
       Login!RevokeToken
  <2>6. CASE \/ Login!CleanupExpiredRevokedTokens
             \/ \E t \in Tenant : Login!DeleteMember(t)
             \/ \E r \in Req : Login!ChangePassword(r) \/ Login!ResetPassword(r)
    BY <1>0, <2>6 DEF LoginIssued, Login!CleanupExpiredRevokedTokens,
       Login!DeleteMember, Login!ChangePassword, Login!ResetPassword,
       Login!UpdateIdentityPassword
  <2> QED
    BY <1>0, <2>2, <2>3, <2>4, <2>5, <2>6, LoginFrames DEF LoginIssued
<1>3. LoginPeople'
  <2>1. ASSUME NEW r \in Req, Login!CreateUser(r)
        PROVE  row' \in [Tenant -> 0..MaxUserRows] /\ made' \in [Tenant -> 0..MaxUserRows]
    BY <1>0, <2>1 DEF Login!CreateUser, LoginPeople, LoginRows
  <2>2. row' \in [Tenant -> 0..MaxUserRows] /\ made' \in [Tenant -> 0..MaxUserRows]
    BY <1>0, <2>1, LoginFrames DEF LoginPeople, Login!DeleteMember
  <2>3. /\ guard' \in Req \cup {Nobody} /\ admins' \subseteq Admin
        /\ reset' \in {"none", "open", "closed"}
        /\ invite' \in [Tenant -> {"none", "open", "closed"}]
    <3>1. ASSUME NEW t \in Tenant, Login!InviteUser(t) \/ Login!ForgotPassword(t)
          PROVE  /\ UNCHANGED <<admins, guard>> /\ reset' \in {reset, "open"}
                 /\ invite' \in [Tenant -> {"none", "open", "closed"}]
      BY <1>0, <3>1 DEF LoginPeople, Login!InviteUser, Login!ForgotPassword
    <3>2. ASSUME NEW r \in Req,
                 \/ Login!RequestEnds(r) \/ Login!MarkPasswordResetTokenUsed(r)
                 \/ Login!AcceptInvitation(r) \/ Login!CountAdmins(r) \/ Login!DeleteUser(r)
          PROVE  /\ guard' \in {guard, r, Nobody} /\ admins' \subseteq admins
                 /\ reset' \in {reset, "closed"}
                 /\ invite' \in [Tenant -> {"none", "open", "closed"}]
      BY <1>0, <3>2 DEF LoginPeople, Login!RequestEnds,
         Login!MarkPasswordResetTokenUsed, Login!AcceptInvitation,
         Login!CountAdmins, Login!DeleteUser, Login!AdminGuard
    <3> QED
      BY <1>0, <3>1, <3>2, LoginFrames DEF LoginPeople
  <2> QED
    BY <1>0, <2>2, <2>3 DEF LoginPeople
<1>4. LoginSecond'
  <2>1. ASSUME NEW on \in BOOLEAN, NEW x \in 0..MaxSecrets, NEW cs \in SUBSET Login!Code,
               Login!SetMFA(on, x, cs)
        PROVE  mfa' \in LoginFactors
    BY <2>1 DEF Login!SetMFA, LoginFactors
  <2>2. ASSUME NEW r \in Req PROVE req[r].mfa \in LoginFactors
    BY <1>0 DEF LoginRequests
  <2>3. ASSUME NEW r \in Req, Login!MfaEnroll(r) PROVE LoginSecond'
    <3>1. secrets' \in 0..MaxSecrets /\ {c \in Login!Code : c[1] = secrets'} \in SUBSET Login!Code
      BY <1>0, <2>3 DEF LoginSecond, Login!MfaEnroll
    <3> QED
      BY <1>0, <2>1, <2>3, <3>1 DEF LoginSecond, Login!MfaEnroll
  <2>4. ASSUME NEW r \in Req, Login!MfaVerifyEnroll(r) PROVE LoginSecond'
    <3>1. req[r].mfa.secret \in Login!Secret
      BY <1>0, <2>2, <2>4 DEF LoginFactor, LoginFactors, Login!MfaVerifyEnroll,
         Login!Secret
    <3>2. mfa' \in LoginFactors
      BY <2>1, <2>2, <2>4 DEF LoginFactors, Login!MfaVerifyEnroll
    <3> QED
      BY <1>0, <2>4, <3>1, <3>2 DEF LoginSecond, Login!MfaVerifyEnroll
  <2>5. ASSUME NEW r \in Req, Login!MfaDisable(r) PROVE LoginSecond'
    <3>1. mfa' \in LoginFactors
      <4>1. FALSE \in BOOLEAN /\ 0 \in 0..MaxSecrets /\ {} \in SUBSET Login!Code
        OBVIOUS
      <4>2. Login!SetMFA(FALSE, 0, {})
        BY <2>5 DEF Login!MfaDisable
      <4> QED
        BY <2>1, <4>1, <4>2
    <3> QED
      BY <1>0, <2>5, <3>1 DEF LoginSecond, Login!MfaDisable
  <2>6. ASSUME NEW r \in Req, NEW c \in Login!Code, Login!MfaLoginByRecoveryCode(r, c)
        PROVE  LoginSecond'
    <3>1. req[r].mfa.secret \in 0..MaxSecrets /\ req[r].mfa.codes \ {c} \in SUBSET Login!Code
      BY <2>2 DEF LoginFactors
    <3> QED
      BY <1>0, <2>1, <2>6, <3>1 DEF LoginSecond, Login!MfaLoginByRecoveryCode
  <2> QED
    BY <1>0, <2>3, <2>4, <2>5, <2>6, LoginFrames DEF LoginSecond
<1>5. LoginCounts'
  <2>1. CASE Login!Fail /\ guesses' = guesses + 1
    BY <1>0, <2>1 DEF LoginCounts, LoginGuesses, Login!Fail
  <2>2. CASE limiter' = [count |-> 0, locked |-> FALSE] /\ guesses' = 0
    BY <2>2 DEF LoginCounts
  <2>3. CASE Login!LimiterForgets
    <3>1. limiter' \in {[limiter EXCEPT !.locked = FALSE], [limiter EXCEPT !.count = 0]}
      BY <2>3, Zenon DEF Login!LimiterForgets
    <3>2. 0 \in 0..MaxFails
      OBVIOUS
    <3>3. limiter' \in [count : 0..MaxFails, locked : BOOLEAN]
      BY <1>0, <3>1, <3>2 DEF LoginCounts
    <3> QED
      BY <2>3, <3>3 DEF LoginCounts, Login!LimiterForgets
  <2>4. CASE UNCHANGED <<limiter, guesses>>
    BY <1>0, <2>4 DEF LoginCounts
  <2> QED
    BY <2>1, <2>2, <2>3, <2>4, LoginFrames DEF Login!LoginFails,
       Login!LoginHomeless, Login!LoginIssues
<1>6. req' \in [Req -> LoginRequests]
  BY LoginRequestsStep
<1> QED
  BY <1>1, <1>2, <1>3, <1>4, <1>5, <1>6 DEF Login!TypeOK, LoginClock,
     LoginIssued, LoginPeople, LoginSecond, LoginCounts, LoginFactors,
     LoginRowsOf, LoginRequests, LoginTokens
-----------------------------------------------------------------------------
\* Where what a request carries comes from: from itself, or from the state
\* the step reads.
LoginMove(r, q) ==
  /\ q.op \in LoginWithToken =>
       \/ /\ req[r].op \in LoginWithToken /\ q.row = req[r].row
          /\ q.op \notin {"mfaLogin", "issue"} =>
               q.s = req[r].s /\ req[r].op \notin {"mfaLogin", "issue"}
       \/ \E s \in Login!Session :
            session[s].state = "live" /\ q.row = session[s].row /\ (q.op # "mfaLogin" => q.s = s)
       \/ q.op = "issue" /\ \E t \in Tenant : row[t] # 0 /\ q.row = <<t, row[t]>>
  /\ q.op \in {"invite", "accept"} =>
       \/ req[r].op \in {"invite", "accept"} /\ q.row = req[r].row
       \/ \E t \in Tenant : q.row = <<t, 0>>
  /\ q.mfa = req[r].mfa \/ q.mfa = mfa \/ q.mfa.codes = {}
  /\ q.op = "mfaLogin" => q.mfa = mfa /\ mfa.on
  /\ q.op = "verifying" => q.mfa = mfa /\ mfa.secret # 0
  /\ q.op = "deleting" => Login!CountAdmins(r)
  /\ q.op \in {"login", "authed"} => req[r].op \in {"login", "authed"} \/ ~limiter.locked

\* What a step does to the rows and to the sessions: rows are numbered
\* upwards, and a session is made once and only ends.
LEMMA LoginMoves ==
  ASSUME req \in [Req -> LoginRequests], Login!Next
  PROVE  \/ UNCHANGED req
         \/ \E r \in Req : \E q : req' = [req EXCEPT ![r] = q] /\ LoginMove(r, q)
<1> USE DEF LoginMove, LoginWithToken
<1>0. /\ \A r \in Req : req[r] \in LoginRequests
      /\ Login!Idle.op = "idle" /\ Login!Idle.mfa.codes = {}
  BY DEF Login!Idle, Login!NoMfa
<1>1. CASE \/ Login!Tick \/ Login!CleanupExpiredRevokedTokens \/ Login!LimiterForgets
           \/ \E s \in Login!Session : Login!Expire(s) \/ Login!Logout(s)
           \/ \E t \in Tenant : Login!InviteUser(t) \/ Login!DeleteMember(t) \/ Login!ForgotPassword(t)
  BY <1>1 DEF Login!Tick, Login!CleanupExpiredRevokedTokens,
     Login!LimiterForgets, Login!Expire, Login!Logout, Login!InviteUser,
     Login!DeleteMember, Login!ForgotPassword
<1>2. ASSUME NEW r \in Req, NEW q, Login!Become(r, q), LoginMove(r, q)
      PROVE  \E u \in Req : \E w : req' = [req EXCEPT ![u] = w] /\ LoginMove(u, w)
  BY <1>2 DEF Login!Become
<1>3. ASSUME NEW r \in Req,
             \/ Login!RequestEnds(r) \/ Login!Reissue(r) \/ Login!LoginFails(r)
             \/ Login!LoginHomeless(r) \/ Login!MarkPasswordResetTokenUsed(r) \/ Login!MfaEnroll(r)
             \/ Login!MfaDisable(r) \/ Login!AcceptInvitation(r) \/ Login!DeleteUser(r)
             \/ \E t \in Tenant : Login!LoginIssues(r, t)
      PROVE  \E u \in Req : \E w : req' = [req EXCEPT ![u] = w] /\ LoginMove(u, w)
  <2>1. Login!Become(r, Login!Idle)
    BY <1>3 DEF Login!RequestEnds, Login!Reissue, Login!LoginFails,
       Login!LoginHomeless, Login!MarkPasswordResetTokenUsed, Login!MfaEnroll,
       Login!MfaDisable, Login!AcceptInvitation, Login!DeleteUser,
       Login!LoginIssues, Login!IssueToken
  <2>2. LoginMove(r, Login!Idle)
    BY <1>0
  <2> QED
    BY <1>2, <2>1, <2>2
<1>4. ASSUME NEW r \in Req, NEW op \in {"issue", "mark", "accept", "deleting", "refused"},
             op = "issue" => req[r].op \in LoginWithToken,
             op = "accept" => req[r].op = "invite",
             op = "deleting" => Login!CountAdmins(r)
      PROVE  LoginMove(r, [req[r] EXCEPT !.op = op])
  <2>1. req[r] \in LoginRequests
    BY <1>0
  <2> QED
    BY <1>4, <2>1 DEF LoginRequests
<1>5. ASSUME NEW r \in Req,
             \/ Login!ChangePassword(r) \/ Login!ResetPassword(r) \/ Login!MfaLoginByApp(r)
             \/ Login!CreateUser(r) \/ Login!CountAdmins(r)
             \/ \E c \in Login!Code : Login!MfaLoginByRecoveryCode(r, c)
      PROVE  \E u \in Req : \E w : req' = [req EXCEPT ![u] = w] /\ LoginMove(u, w)
  <2>1. PICK op \in {"issue", "mark", "accept", "deleting", "refused"} :
          /\ Login!Become(r, [req[r] EXCEPT !.op = op])
          /\ op = "issue" => req[r].op \in LoginWithToken
          /\ op = "accept" => req[r].op = "invite"
          /\ op = "deleting" => Login!CountAdmins(r)
    BY <1>5 DEF Login!ChangePassword, Login!ResetPassword, Login!MfaLoginByApp,
       Login!CreateUser, Login!CountAdmins, Login!MfaLoginByRecoveryCode,
       Login!Goes
  <2> HIDE DEF LoginMove
  <2> QED
    BY <1>2, <1>4, <2>1
<1>6. ASSUME NEW r \in Req, Login!MfaVerifyEnroll(r)
      PROVE  \E u \in Req : \E w : req' = [req EXCEPT ![u] = w] /\ LoginMove(u, w)
  <2>1. Login!Become(r, [req[r] EXCEPT !.op = "issue"]) \/ Login!Become(r, Login!Idle)
    BY <1>6 DEF Login!MfaVerifyEnroll, Login!Goes
  <2>2. LoginMove(r, Login!Idle)
    BY <1>0
  <2>3. LoginMove(r, [req[r] EXCEPT !.op = "issue"])
    BY <1>4, <1>6 DEF Login!MfaVerifyEnroll
  <2> HIDE DEF LoginMove
  <2> QED
    BY <1>2, <2>1, <2>2, <2>3
<1>7. ASSUME NEW r \in Req,
             \/ Login!LoginStarts(r) \/ Login!LoginPasses(r) \/ Login!ResetReads(r)
             \/ \E t \in Tenant : Login!AcceptInviteReads(r, t)
             \/ \E a, x \in Admin : Login!DeleteUserStarts(r, a, x)
      PROVE  \E u \in Req : \E w : req' = [req EXCEPT ![u] = w] /\ LoginMove(u, w)
  <2>1. ASSUME NEW t \in Tenant, Login!AcceptInviteReads(r, t)
        PROVE  \E q : Login!Become(r, q) /\ LoginMove(r, q)
    <3>1. LoginMove(r, [Login!Idle EXCEPT !.op = "invite", !.row = <<t, 0>>])
      BY DEF Login!Idle, Login!NoMfa
    <3> QED
      BY <2>1, <3>1 DEF Login!AcceptInviteReads
  <2>2. ASSUME NEW x \in Admin, Login!Become(r, [Login!Idle EXCEPT !.op = "delete", !.who = x])
        PROVE  \E q : Login!Become(r, q) /\ LoginMove(r, q)
    <3>1. LoginMove(r, [Login!Idle EXCEPT !.op = "delete", !.who = x])
      BY DEF Login!Idle, Login!NoMfa
    <3> QED
      BY <2>2, <3>1
  <2>3. CASE Login!LoginStarts(r)
    <3>1. LoginMove(r, [Login!Idle EXCEPT !.op = "login"])
      BY <2>3 DEF Login!LoginStarts, Login!Idle, Login!NoMfa
    <3> QED
      BY <1>2, <2>3, <3>1 DEF Login!LoginStarts
  <2>4. CASE Login!LoginPasses(r)
    <3>1. LoginMove(r, [Login!Idle EXCEPT !.op = "authed", !.mfa = mfa])
      BY <2>4 DEF Login!LoginPasses, Login!Idle, Login!NoMfa
    <3> QED
      BY <1>2, <2>4, <3>1 DEF Login!LoginPasses
  <2>5. CASE Login!ResetReads(r)
    <3>1. LoginMove(r, [Login!Idle EXCEPT !.op = "reset"])
      BY DEF Login!Idle, Login!NoMfa
    <3> QED
      BY <1>2, <2>5, <3>1 DEF Login!ResetReads
  <2> HIDE DEF LoginMove
  <2> QED
    BY <1>2, <1>7, <2>1, <2>2, <2>3, <2>4, <2>5 DEF Login!DeleteUserStarts
<1>8. ASSUME NEW r \in Req, NEW s \in Login!Session, Login!MfaLogin(r, s)
      PROVE  \E u \in Req : \E w : req' = [req EXCEPT ![u] = w] /\ LoginMove(u, w)
  BY <1>2, <1>8 DEF Login!MfaLogin, Login!Idle
<1>9. ASSUME NEW r \in Req, NEW s \in Login!Session, NEW op \in Login!Ops,
             Login!JwtMiddleware(r, s, op)
      PROVE  \E u \in Req : \E w : req' = [req EXCEPT ![u] = w] /\ LoginMove(u, w)
  BY <1>2, <1>9 DEF Login!JwtMiddleware, Login!Idle, Login!NoMfa
<1>10. ASSUME NEW r \in Req, NEW t \in Tenant, Login!SwitchTenant(r, t)
       PROVE  \E u \in Req : \E w : req' = [req EXCEPT ![u] = w] /\ LoginMove(u, w)
  <2> DEFINE q == [req[r] EXCEPT !.op = "issue", !.row = <<t, row[t]>>]
  <2>1. Login!Become(r, q) /\ row[t] # 0
    BY <1>10 DEF Login!SwitchTenant
  <2>2. LoginMove(r, q)
    BY <1>0, <2>1 DEF LoginRequests
  <2> QED
    BY <1>2, <2>1, <2>2
<1>11. ASSUME NEW r \in Req, Login!MfaReads(r)
       PROVE  \E u \in Req : \E w : req' = [req EXCEPT ![u] = w] /\ LoginMove(u, w)
  <2>1. PICK op \in {"enrolling", "verifying", "disabling"} :
          /\ Login!Become(r, [req[r] EXCEPT !.op = op, !.mfa = mfa])
          /\ req[r].op \in {"enroll", "verify", "disable"} /\ (op = "verifying" => mfa.secret # 0)
    BY <1>11 DEF Login!MfaReads
  <2>2. LoginMove(r, [req[r] EXCEPT !.op = op, !.mfa = mfa])
    BY <1>0, <2>1 DEF LoginRequests
  <2> QED
    BY <1>2, <2>1, <2>2
<1> QED
  BY <1>1, <1>3, <1>5, <1>6, <1>7, <1>8, <1>9, <1>10, <1>11 DEF Login!Next

-----------------------------------------------------------------------------
\* What a step does to the rows and the tokens there are.
LoginKeeps ==
  /\ \A t \in Tenant : made[t] <= made'[t]
  /\ \A s \in Login!Session : session[s].state # "none" =>
       /\ session'[s].state # "none" /\ session'[s].row = session[s].row
       /\ session'[s].iat = session[s].iat
       /\ session[s].state = "expired" => session'[s].state = "expired"
  /\ \A s \in Login!Session : session[s].state = "none" =>
       \/ session'[s] = session[s]
       \/ session'[s].state # "none" /\ LoginMade(session'[s].row)

\* What is known of a token does not come undone.
LEMMA LoginTokensStep == ASSUME LoginInv, Login!Next PROVE LoginKeeps
<1> USE LoginAssumption
<1>0. LoginPeople /\ LoginIssued /\ LoginRows
  BY LoginTypesAre DEF LoginInv
<1>1. \A t \in Tenant : made[t] <= made'[t]
  <2>1. ASSUME NEW r \in Req, Login!CreateUser(r)
        PROVE  \A t \in Tenant : made[t] <= made'[t]
    BY <1>0, <2>1 DEF Login!CreateUser, LoginPeople, LoginRows
  <2> QED
    BY <1>0, <2>1, LoginFrames DEF LoginPeople, Login!DeleteMember
<1>2. ASSUME NEW r \in Req, NEW w, NEW p, LoginMade(w), Login!IssueToken(r, w, p)
      PROVE  LoginKeeps
  BY <1>0, <1>1, <1>2 DEF LoginKeeps, Login!IssueToken, LoginIssued
<1>3. ASSUME NEW r \in Req, Login!Reissue(r) PROVE LoginKeeps
  <2>1. LoginMade(req[r].row) /\ Login!IssueToken(r, req[r].row, FALSE)
    BY <1>0, <1>3 DEF Login!Reissue, LoginRows, LoginWithToken
  <2> QED
    BY <1>2, <2>1
<1>4. ASSUME NEW r \in Req, NEW t \in Tenant, Login!LoginIssues(r, t) PROVE LoginKeeps
  <2>1. LoginMade(<<t, row[t]>>)
    BY <1>0, <1>4 DEF Login!LoginIssues, LoginPeople, LoginRows, LoginMade,
       Login!Row
  <2>2. Login!IssueToken(r, <<t, row[t]>>, req[r].mfa.on \/ t \in RequireMFA)
    BY <1>4 DEF Login!LoginIssues
  <2> QED
    BY <1>2, <2>1, <2>2
<1>5. ASSUME NEW s \in Login!Session, Login!Expire(s) PROVE LoginKeeps
  BY <1>0, <1>1, <1>5 DEF LoginKeeps, Login!Expire, LoginIssued, LoginTokens
<1>6. CASE UNCHANGED session
  BY <1>1, <1>6 DEF LoginKeeps
<1> QED
  BY <1>3, <1>4, <1>5, <1>6, LoginFrames DEF Login!CleanupExpiredRevokedTokens,
     Login!Logout, Login!DeleteMember, Login!ChangePassword,
     Login!ResetPassword, Login!SwitchTenant

\* A token and a request stay those of a row that was made.
LEMMA LoginRowsStep == ASSUME LoginInv, Login!Next PROVE LoginRows'
<1> USE LoginAssumption
<1>0. LoginPeople /\ LoginIssued /\ LoginRows /\ req \in [Req -> LoginRequests] /\ LoginKeeps
  BY LoginTypesAre, LoginTokensStep DEF LoginInv
<1>1. \A t \in Tenant : row'[t] <= made'[t]
  <2>1. ASSUME NEW r \in Req, Login!CreateUser(r)
        PROVE  \A t \in Tenant : row'[t] <= made'[t]
    BY <1>0, <2>1 DEF Login!CreateUser, LoginPeople, LoginRows
  <2>2. ASSUME NEW u \in Tenant, Login!DeleteMember(u)
        PROVE  \A t \in Tenant : row'[t] <= made'[t]
    BY <1>0, <2>2 DEF Login!DeleteMember, LoginPeople, LoginRows
  <2> QED
    BY <1>0, <2>1, <2>2, LoginFrames DEF LoginRows
<1>2. ASSUME NEW w, LoginMade(w) PROVE w \in Login!Row /\ w[2] <= made'[w[1]]
  <2>1. w[1] \in Tenant /\ w[2] \in Nat /\ made[w[1]] \in Nat /\ made'[w[1]] \in Nat
    <3>1. made' \in [Tenant -> 0..MaxUserRows]
      BY LoginTypesStep, LoginTypesAre DEF LoginInv, Login!TypeOK
    <3> QED
      BY <1>0, <1>2, <3>1 DEF LoginMade, Login!Row, LoginPeople
  <2> QED
    BY <1>0, <1>2, <2>1 DEF LoginMade, LoginKeeps
<1>3. /\ \A s \in Login!Session : session'[s].state # "none" => LoginMade(session'[s].row)
      /\ \A s \in Login!Session : session'[s].state = "none" => session'[s].row = Login!NoRow
  BY <1>0 DEF LoginKeeps, LoginRows
<1>4. ASSUME NEW r \in Req, NEW q, LoginMove(r, q)
      PROVE  /\ q.op \in LoginWithToken => LoginMade(q.row)
             /\ q.op \in LoginWithToken \ {"mfaLogin", "issue"} =>
                  q.s \in Login!Session /\ session[q.s].state # "none"
             /\ q.op \in {"invite", "accept"} => q.row[1] \in Tenant
  <2>1. \A t \in Tenant : row[t] # 0 => LoginMade(<<t, row[t]>>)
    BY <1>0 DEF LoginPeople, LoginRows, LoginMade, Login!Row
  <2>2. q.op \in LoginWithToken => LoginMade(q.row)
    BY <1>0, <1>4, <2>1 DEF LoginMove, LoginRows
  <2>3. q.op \in LoginWithToken \ {"mfaLogin", "issue"} =>
          q.s \in Login!Session /\ session[q.s].state # "none"
    BY <1>0, <1>4 DEF LoginMove, LoginRows
  <2>4. q.op \in {"invite", "accept"} => q.row[1] \in Tenant
    BY <1>0, <1>4 DEF LoginMove, LoginRows
  <2> QED
    BY <2>2, <2>3, <2>4
<1>5. \A r \in Req :
        /\ req'[r].op \in LoginWithToken => LoginMade(req'[r].row)
        /\ req'[r].op \in LoginWithToken \ {"mfaLogin", "issue"} =>
             req'[r].s \in Login!Session /\ session[req'[r].s].state # "none"
        /\ req'[r].op \in {"invite", "accept"} => req'[r].row[1] \in Tenant
  <2>1. CASE UNCHANGED req
    BY <1>0, <2>1 DEF LoginRows
  <2>2. ASSUME NEW u \in Req, NEW q, req' = [req EXCEPT ![u] = q], LoginMove(u, q),
               NEW r \in Req
        PROVE  /\ req'[r].op \in LoginWithToken => LoginMade(req'[r].row)
               /\ req'[r].op \in LoginWithToken \ {"mfaLogin", "issue"} =>
                    req'[r].s \in Login!Session /\ session[req'[r].s].state # "none"
               /\ req'[r].op \in {"invite", "accept"} => req'[r].row[1] \in Tenant
    <3>1. CASE r = u
      BY <1>0, <1>4, <2>2, <3>1
    <3>2. CASE r # u
      <4>1. req'[r] = req[r]
        BY <1>0, <2>2, <3>2
      <4> QED
        BY <1>0, <4>1 DEF LoginRows
    <3> QED
      BY <3>1, <3>2
  <2> QED
    BY <1>0, <2>1, <2>2, LoginMoves
<1>6. \A s \in Login!Session : session[s].state # "none" => session'[s].state # "none"
  BY <1>0 DEF LoginKeeps
<1>7. \A w : LoginMade(w) => LoginMade(w)'
  BY <1>2 DEF LoginMade, Login!Row
<1> QED
  BY <1>1, <1>3, <1>5, <1>6, <1>7 DEF LoginRows, LoginMade
\* Why a session will not be accepted again.
LoginGone(s) == \/ session[s].state = "expired" \/ s \in revoked
                \/ session[s].iat < changed
                \/ session[s].row[2] # row[session[s].row[1]]

\* What has ended stays ended, and why.
LEMMA LoginEndedStep == ASSUME LoginInv, Login!Next PROVE LoginEnded'
<1> USE LoginAssumption
<1>0. /\ LoginPeople /\ LoginIssued /\ LoginClock /\ LoginRows /\ LoginEnded /\ LoginKeeps
      /\ req \in [Req -> LoginRequests]
  BY LoginTypesAre, LoginTokensStep DEF LoginInv
<1>1. clock' \in Int /\ changed' \in Int /\ clock <= clock' /\ changed <= changed' /\ changed' <= clock'
  BY <1>0, LoginFrames DEF LoginClock, LoginEnded, Login!Tick,
     Login!ChangePassword, Login!ResetPassword, Login!UpdateIdentityPassword
<1>2. ASSUME NEW s \in ended PROVE session[s].state # "none" /\ LoginGone(s)
  BY <1>0 DEF LoginEnded, LoginGone
\* What is gone stays gone.
<1>3. ASSUME NEW s \in Login!Session, session[s].state # "none", LoginGone(s)
      PROVE  session'[s].state # "none" /\ LoginGone(s)'
  <2>1. /\ session'[s].state # "none" /\ session'[s].row = session[s].row
        /\ session'[s].iat = session[s].iat
        /\ session[s].state = "expired" => session'[s].state = "expired"
    BY <1>0, <1>3 DEF LoginKeeps
  <2>2. LoginMade(session[s].row) /\ session[s].iat \in Int /\ changed \in Int
    BY <1>0, <1>3 DEF LoginRows, LoginIssued, LoginTokens, LoginClock
  <2>3. CASE session[s].state = "expired"
    BY <2>1, <2>3 DEF LoginGone
  <2>4. CASE s \in revoked
    <3>1. s \in revoked' \/ session[s].state = "expired"
      BY <1>0, <2>4, LoginFrames DEF Login!CleanupExpiredRevokedTokens,
         Login!Expire, Login!Logout, Login!DeleteMember, Login!Reissue,
         Login!ChangePassword, Login!ResetPassword, Login!SwitchTenant,
         Login!LoginIssues, Login!RevokeToken
    <3> QED
      BY <2>1, <3>1 DEF LoginGone
  <2>5. CASE session[s].iat < changed
    BY <1>1, <2>1, <2>2, <2>5 DEF LoginGone
  <2>6. CASE session[s].row[2] # row[session[s].row[1]]
    <3> DEFINE w == session[s].row
    <3>1. w[1] \in Tenant /\ w[2] \in 1..MaxUserRows /\ w[2] <= made[w[1]]
      BY <2>2 DEF LoginMade, Login!Row
    <3>2. ASSUME NEW r \in Req, Login!CreateUser(r) PROVE w[2] # row'[w[1]]
      BY <1>0, <2>6, <3>1, <3>2 DEF Login!CreateUser, LoginPeople
    <3>3. ASSUME NEW t \in Tenant, Login!DeleteMember(t) PROVE w[2] # row'[w[1]]
      BY <1>0, <2>6, <3>1, <3>3 DEF Login!DeleteMember, LoginPeople
    <3>4. w[2] # row'[w[1]]
      BY <2>6, <3>2, <3>3, LoginFrames
    <3> QED
      BY <2>1, <3>4 DEF LoginGone
  <2> QED
    BY <1>3, <2>3, <2>4, <2>5, <2>6 DEF LoginGone
\* What ends in this step is gone.
<1>4. ASSUME NEW s \in ended', s \notin ended
      PROVE  s \in Login!Session /\ session'[s].state # "none" /\ LoginGone(s)'
  <2>1. CASE \E r \in Req : Login!ChangePassword(r) \/ Login!ResetPassword(r)
    <3>1. /\ s \in Login!Session /\ session' = session
          /\ session[s].state = "live" /\ session[s].iat < changed'
      BY <1>4, <2>1 DEF Login!ChangePassword, Login!ResetPassword,
         Login!UpdateIdentityPassword
    <3> QED
      BY <3>1 DEF LoginGone
  <2>2. CASE \E t \in Tenant : Login!DeleteMember(t)
    <3>1. PICK t \in Tenant : Login!DeleteMember(t)
      BY <2>2
    <3>2. /\ s \in Login!Session /\ session' = session /\ session[s].row = <<t, row[t]>>
          /\ row[t] # 0 /\ row'[t] = 0
      BY <1>0, <1>4, <3>1 DEF Login!DeleteMember, LoginPeople
    <3>3. session[s].state # "none"
      BY <1>0, <3>2 DEF LoginRows, Login!NoRow
    <3> QED
      BY <3>2, <3>3 DEF LoginGone
  <2>3. CASE \E u \in Login!Session : Login!Logout(u)
    <3>1. s \in Login!Session /\ session' = session /\ session[s].state # "none" /\ s \in revoked'
      BY <1>4, <2>3 DEF Login!Logout, Login!RevokeToken
    <3> QED
      BY <3>1 DEF LoginGone
  <2>4. CASE \E r \in Req, t \in Tenant : Login!SwitchTenant(r, t)
    <3>1. s \in Login!Session /\ session' = session /\ session[s].state # "none" /\ s \in revoked'
      BY <1>0, <1>4, <2>4 DEF Login!SwitchTenant, Login!RevokeToken, LoginRows,
         LoginWithToken
    <3> QED
      BY <3>1 DEF LoginGone
  <2>5. CASE \/ Login!CleanupExpiredRevokedTokens
             \/ \E u \in Login!Session : Login!Expire(u)
             \/ \E r \in Req : Login!Reissue(r) \/ \E t \in Tenant : Login!LoginIssues(r, t)
    BY <1>4, <2>5 DEF Login!CleanupExpiredRevokedTokens, Login!Expire,
       Login!Reissue, Login!LoginIssues
  <2> QED
    BY <1>4, <2>1, <2>2, <2>3, <2>4, <2>5, LoginFrames
<1>5. ended \subseteq Login!Session
  BY <1>0 DEF LoginIssued
<1> QED
  BY <1>1, <1>2, <1>3, <1>4, <1>5 DEF LoginEnded, LoginGone

\* The stored second factor stays one that was proven.
LEMMA LoginFactorStep == ASSUME LoginInv, Login!Next PROVE LoginFactor'
<1> USE LoginAssumption
<1>0. LoginSecond /\ LoginFactor /\ req \in [Req -> LoginRequests]
  BY LoginTypesAre DEF LoginInv
<1>1. \A r \in Req : req[r].mfa \in LoginFactors
  BY <1>0 DEF LoginRequests
<1>2. LoginWhole(mfa)' /\ (mfa'.on => mfa'.secret \in proven') /\ proven \subseteq proven'
  <2>1. ASSUME NEW r \in Req,
               \/ Login!MfaEnroll(r) \/ Login!MfaVerifyEnroll(r) \/ Login!MfaDisable(r)
               \/ \E c \in Login!Code : Login!MfaLoginByRecoveryCode(r, c)
        PROVE  LoginWhole(mfa)' /\ (mfa'.on => mfa'.secret \in proven') /\ proven \subseteq proven'
    BY <1>0, <2>1 DEF LoginFactor, LoginWhole, Login!MfaEnroll,
       Login!MfaVerifyEnroll, Login!MfaDisable, Login!MfaLoginByRecoveryCode,
       Login!SetMFA
  <2> QED
    BY <1>0, <2>1, LoginFrames DEF LoginFactor, LoginWhole
<1>3. ASSUME NEW r \in Req, NEW q, LoginMove(r, q)
      PROVE  /\ LoginWhole(q.mfa)
             /\ q.op = "mfaLogin" => q.mfa.secret \in proven
             /\ q.op = "verifying" => q.mfa.secret # 0
  BY <1>0, <1>3 DEF LoginMove, LoginFactor, LoginWhole
<1>4. ASSUME NEW r \in Req
      PROVE  /\ LoginWhole(req'[r].mfa)
             /\ req'[r].op = "mfaLogin" => req'[r].mfa.secret \in proven
             /\ req'[r].op = "verifying" => req'[r].mfa.secret # 0
  <2>1. ASSUME NEW u \in Req, NEW q, req' = [req EXCEPT ![u] = q], LoginMove(u, q)
        PROVE  req'[r] = req[r] \/ (r = u /\ req'[r] = q)
    BY <1>0, <2>1
  <2>2. req'[r] = req[r] \/ \E q : LoginMove(r, q) /\ req'[r] = q
    BY <1>0, <2>1, LoginMoves
  <2> QED
    BY <1>0, <1>3, <2>2 DEF LoginFactor
<1> QED
  BY <1>2, <1>4 DEF LoginFactor, LoginWhole

\* Deletions one by one leave an administrator.
LEMMA LoginAdminsStep == ASSUME LoginInv, Login!Next PROVE LoginAdmins'
<1> USE LoginAssumption
<1>0. LoginAdmins /\ req \in [Req -> LoginRequests]
  BY LoginTypesAre DEF LoginInv
<1>1. ASSUME NEW r \in Req, req'[r].op = "deleting", ~Login!CountAdmins(r)
      PROVE  req'[r] = req[r]
  BY <1>0, <1>1, LoginMoves DEF LoginMove
<1>2. ASSUME NEW r \in Req, Login!DeleteUser(r) PROVE LoginAdmins'
  <2>1. PICK a \in admins : a # req[r].who
    BY <1>0, <1>2 DEF LoginAdmins, Login!DeleteUser
  <2>2. a \in admins'
    BY <1>2, <2>1 DEF Login!DeleteUser
  <2>3. ASSUME NEW u \in Req PROVE req'[u].op # "deleting"
    BY <1>0, <1>2 DEF LoginAdmins, Login!DeleteUser, Login!Become, Login!Idle
  <2> QED
    BY <2>2, <2>3 DEF LoginAdmins
<1>3. ASSUME NEW r \in Req, Login!CountAdmins(r) PROVE LoginAdmins'
  <2>1. guard = Nobody /\ guard' = r /\ admins' = admins
    BY <1>3 DEF Login!CountAdmins, Login!AdminGuard
  <2>2. ASSUME NEW u \in Req, u # r PROVE req'[u].op # "deleting"
    BY <1>0, <1>3, <2>1, <2>2 DEF LoginAdmins, Login!CountAdmins, Login!Goes,
       Login!Become
  <2>3. ASSUME req'[r].op = "deleting" PROVE \E a \in admins : a # req'[r].who
    <3>1. req'[r].who = req[r].who /\ req[r].who \in admins /\ Cardinality(admins) > 1
      <4> DEFINE op == IF req[r].who \in admins /\ Login!Cardinality(admins) > 1 THEN "deleting" ELSE "refused"
      <4>1. req[r] \in LoginRequests
        BY <1>0
      <4>2. req'[r] = [req[r] EXCEPT !.op = op]
        <5>1. Login!Goes(r, op)
          BY <1>3, Zenon DEF Login!CountAdmins
        <5> HIDE DEF op
        <5> QED
          BY <1>0, <5>1 DEF Login!Goes, Login!Become
      <4>3. req'[r].op = op /\ req'[r].who = req[r].who
        BY <4>1, <4>2 DEF LoginRequests
      <4> QED
        BY <2>3, <4>3, LoginCardinality
    <3>2. admins # {req[r].who}
      BY <3>1, FS_Singleton
    <3> QED
      BY <3>1, <3>2
  <2> QED
    BY <1>0, <2>1, <2>2, <2>3 DEF LoginAdmins
<1>4. ASSUME NEW r \in Req, Login!RequestEnds(r) PROVE LoginAdmins'
  <2>1. admins' = admins /\ guard' = (IF guard = r THEN Nobody ELSE guard)
    BY <1>4 DEF Login!RequestEnds
  <2>2. ASSUME NEW u \in Req, req'[u].op = "deleting" PROVE u # r /\ req'[u] = req[u]
    BY <1>0, <1>4, <2>2 DEF Login!RequestEnds, Login!Become, Login!Idle
  <2> QED
    BY <1>0, <2>1, <2>2 DEF LoginAdmins
<1>5. ASSUME UNCHANGED <<admins, guard>> PROVE LoginAdmins'
  <2>1. \A r \in Req : ~Login!CountAdmins(r)
    BY <1>5 DEF Login!CountAdmins, Login!AdminGuard
  <2> QED
    BY <1>0, <1>1, <1>5, <2>1 DEF LoginAdmins
<1> QED
  BY <1>2, <1>3, <1>4, <1>5, LoginFrames DEF Login!InviteUser,
     Login!ForgotPassword, Login!MarkPasswordResetTokenUsed,
     Login!AcceptInvitation

\* Guesses at a secret stay within what the limiter lets through.
LEMMA LoginGuessesStep == ASSUME LoginInv, Login!Next PROVE LoginGuesses'
<1> USE LoginAssumption
<1>0. LoginGuesses /\ LoginCounts /\ req \in [Req -> LoginRequests]
  BY LoginTypesAre DEF LoginInv
<1>1. /\ IsFiniteSet(LoginPast) /\ Cardinality(LoginPast) \in Nat /\ Cardinality(Req) \in Nat
      /\ IsFiniteSet(LoginPast')
  BY FS_Subset, FS_CardinalityType DEF LoginPast
<1>2. ASSUME NEW r \in Req, req[r].op \in {"login", "authed"}, Login!Become(r, Login!Idle),
             Login!Fail, guesses' = guesses + 1
      PROVE  LoginGuesses'
  <2>1. LoginPast' = LoginPast \ {r} /\ r \in LoginPast
    BY <1>0, <1>2 DEF LoginPast, Login!Become, Login!Idle
  <2>2. Cardinality(LoginPast') = Cardinality(LoginPast) - 1
    BY <1>1, <2>1, FS_RemoveElement
  <2>3. Cardinality(LoginPast) <= Cardinality(Req)
    BY FS_Subset DEF LoginPast
  <2>4. /\ limiter.count \in Nat /\ limiter.locked \in BOOLEAN /\ guesses \in Nat
        /\ limiter.count < MaxFails
    BY <1>0 DEF LoginCounts, LoginGuesses
  <2>5. CASE limiter.count + 1 >= MaxFails
    <3>1. limiter'.count = 0 /\ limiter'.locked = TRUE
      BY <1>2, <2>5 DEF Login!Fail
    <3>2. guesses' + Cardinality(LoginPast') < MaxFails + Cardinality(Req)
      BY <1>0, <1>1, <1>2, <2>2, <2>3, <2>4 DEF LoginGuesses
    <3> QED
      BY <3>1, <3>2 DEF LoginGuesses, LoginPast
  <2>6. CASE ~(limiter.count + 1 >= MaxFails)
    <3>1. limiter'.count = limiter.count + 1 /\ limiter'.locked = limiter.locked
      BY <1>0, <1>2, <2>6 DEF Login!Fail, LoginCounts
    <3>2. limiter.locked => guesses' + Cardinality(LoginPast') < MaxFails + Cardinality(Req)
      BY <1>0, <1>1, <1>2, <2>2, <2>4 DEF LoginGuesses
    <3> QED
      BY <1>0, <1>2, <2>4, <2>6, <3>1, <3>2 DEF LoginGuesses, LoginPast
  <2> QED
    BY <2>5, <2>6
<1>3. CASE limiter' = [count |-> 0, locked |-> FALSE] /\ guesses' = 0
  BY <1>3 DEF LoginGuesses
<1>4. CASE Login!LimiterForgets
  <2>1. limiter'.locked = FALSE /\ limiter'.count \in {0, limiter.count}
    BY <1>0, <1>4 DEF Login!LimiterForgets, LoginCounts
  <2> QED
    BY <1>0, <1>4, <2>1 DEF LoginGuesses, LoginCounts, Login!LimiterForgets
<1>5. CASE UNCHANGED <<limiter, guesses>>
  <2>1. limiter.locked => LoginPast' \subseteq LoginPast
    BY <1>0, LoginMoves DEF LoginPast, LoginMove
  <2>2. limiter.locked => Cardinality(LoginPast') <= Cardinality(LoginPast) /\ Cardinality(LoginPast') \in Nat
    BY <1>1, <2>1, FS_Subset, FS_CardinalityType
  <2> QED
    BY <1>0, <1>1, <1>5, <2>2 DEF LoginGuesses, LoginCounts, LoginPast
<1> QED
  BY <1>2, <1>3, <1>4, <1>5, LoginFrames DEF Login!LoginFails,
     Login!LoginHomeless, Login!LoginIssues

-----------------------------------------------------------------------------
\* Every step keeps the invariant.
LEMMA LoginStep ==
  ASSUME LoginInv, [Login!Next]_(Login!vars)
  PROVE  LoginInv'
<1>1. CASE Login!Next
  <2>1. Login!TypeOK'
    BY <1>1, LoginTypesStep DEF LoginInv
  <2> QED
    BY <1>1, <2>1, LoginRowsStep, LoginEndedStep, LoginFactorStep,
       LoginAdminsStep, LoginGuessesStep DEF LoginInv
<1>2. CASE UNCHANGED Login!vars
  BY <1>2 DEF LoginInv, Login!vars, Login!TypeOK, LoginRows, LoginMade,
     LoginEnded, LoginFactor, LoginWhole, LoginAdmins, LoginGuesses, LoginPast
<1> QED
  BY <1>1, <1>2

\* A step of the parts is one of this part, or leaves it alone.
LEMMA LoginPartStep ==
  ASSUME [PartNext]_<<part, vars, cells>>, part = "login"
  PROVE  [Login!Next]_(Login!vars)
<1>1. CASE PartNext
  BY <1>1 DEF PartNext
<1>2. CASE UNCHANGED <<part, vars, cells>>
  BY <1>2 DEF cells, inLogin, inEvidence, shared, Login!vars
<1> QED
  BY <1>1, <1>2

(* LoginSessions: the invariant holds in every reachable state.            *)
THEOREM LoginInvariant == PartSpec => [](part = "login" => LoginInv)
<1> DEFINE I == part = "login" => LoginInv
<1>1. PartInit => I
  BY LoginInitInv DEF PartInit
<1>2. I /\ [PartNext]_<<part, vars, cells>> => I'
  BY ServerPartStays, LoginPartStep, LoginStep
<1> QED
  BY <1>1, <1>2, PTL DEF PartSpec

(* LoginSessions: a session that was signed out, replaced, overtaken by a  *)
(* change of the password or of a deleted user is never accepted again.    *)
THEOREM NeverAcceptedAgain == PartSpec => []EndedForGood
<1>1. (part = "login" => LoginInv) => EndedForGood
  <2> SUFFICES ASSUME part = "login", LoginInv, NEW s \in ended
               PROVE  ~Login!Accepted(s, TRUE)
    BY DEF EndedForGood, Login!EndedForGood
  <2>1. s \in Login!Session /\ LoginClock /\ LoginIssued /\ LoginEnded
    BY LoginTypesAre DEF LoginInv, LoginIssued
  <2>2. session[s].iat \in Int /\ changed \in Int
    BY <2>1 DEF LoginIssued, LoginTokens, LoginClock
  <2> QED
    BY <2>1, <2>2 DEF LoginEnded, Login!Accepted
<1> QED
  BY <1>1, LoginInvariant, PTL

(* LoginSessions: the second factor on is one its user has answered for,   *)
(* a tenant keeps an administrator, and the limiter bounds the guesses,    *)
(* however the handlers of one account interleave.                         *)
THEOREM HandlersAreSerial == PartSpec => []HandlersDoNotRace
<1>1. (part = "login" => LoginInv) => HandlersDoNotRace
  <2> SUFFICES ASSUME part = "login", LoginInv PROVE Login!HandlersDoNotRace
    BY DEF HandlersDoNotRace
  <2>1. Login!FactorIsProven /\ Login!AnAdminRemains
    BY DEF LoginInv, LoginFactor, LoginWhole, LoginAdmins,
       Login!FactorIsProven, Login!AnAdminRemains
  <2>2. Login!FewGuesses
    <3>1. /\ LoginCounts /\ LoginGuesses /\ IsFiniteSet(LoginPast) /\ IsFiniteSet(Req)
          /\ MaxFails \in Nat
      BY LoginTypesAre, LoginAssumption, FS_Subset DEF LoginInv, LoginPast
    <3>2. Cardinality(LoginPast) \in Nat /\ Cardinality(Req) \in Nat
      BY <3>1, FS_CardinalityType
    <3>3. /\ limiter.locked \in BOOLEAN /\ limiter.count \in Nat /\ guesses \in Nat
          /\ limiter.count < MaxFails
      BY <3>1 DEF LoginCounts, LoginGuesses
    <3>4. CASE limiter.locked
      BY <3>1, <3>2, <3>3, <3>4, LoginCardinality DEF LoginGuesses,
         Login!FewGuesses
    <3>5. CASE ~limiter.locked
      <4>1. guesses = limiter.count
        BY <3>1, <3>5 DEF LoginGuesses
      <4> QED
        BY <3>1, <3>2, <3>3, <4>1, LoginCardinality DEF Login!FewGuesses
    <3> QED
      BY <3>4, <3>5
  <2> QED
    BY <2>1, <2>2 DEF Login!HandlersDoNotRace
<1> QED
  BY <1>1, LoginInvariant, PTL

-----------------------------------------------------------------------------
(* Alerts (Alerts): why what counts as reported is reported, and why an    *)
(* alert rises once.                                                       *)

\* A report of an episode is on its way or there.
AlertReported(e) == e \in heard \/ \E i \in DOMAIN queue : queue[i].ep = e

\* The mark of the monitor, in memory once it is loaded and in the file as
\* long as it is not, is of the episode that goes on.
AlertMarks ==
  /\ ~loaded => ~alerted /\ ~saving
  /\ ~excused =>
       /\ loaded /\ alerted => seen /\ AlertReported(episode)
       /\ ~loaded /\ seenFile => seen /\ AlertReported(episode)
       /\ loaded /\ ~saving => seenFile = alerted

\* Episodes that may begin without anything happening on the device: one at
\* most, by a scan that finds what is there now.
AlertMayRise ==
  \/ pid # 0 /\ ~seen
  \/ pid = 0 /\ onDisk /\ (~seen \/ (warm /\ ~cache))
  \/ pid = 0 /\ ~seen /\ warm /\ cache
AlertEpisodes ==
  episode <= changes + 1 /\ (AlertMayRise => episode <= changes) /\ (seen => episode # 0)

\* A row is taken once, and a reminder is sent for a row that was taken.
AlertTaken(a) == alert[a] # None /\ alert[a].escalated # -1
AlertOnce ==
  Repeat = 0 /\ ~excused =>
    \A a \in Alert!Id :
      /\ reminded[a] <= 1 /\ (reminded[a] # 0 \/ a \in due => AlertTaken(a))
      /\ a \in due => reminded[a] = 0

AlertInv == Alert!TypeOK /\ AlertMarks /\ AlertEpisodes /\ AlertOnce

-----------------------------------------------------------------------------
\* The groups of the types.
AlertFlags ==
  /\ onDisk \in BOOLEAN /\ list \in BOOLEAN
  /\ alerted \in BOOLEAN /\ loaded \in BOOLEAN /\ cache \in BOOLEAN /\ warm \in BOOLEAN
  /\ saving \in BOOLEAN /\ seenFile \in BOOLEAN /\ blind \in BOOLEAN
  /\ known \in BOOLEAN /\ outboxWasDown \in BOOLEAN /\ seen \in BOOLEAN /\ excused \in BOOLEAN
AlertCounts ==
  /\ pid \in 0..MaxEvents
  /\ clock \in 0..MaxTicks /\ changes \in 0..MaxEvents /\ failures \in 0..MaxFailures
AlertNumbers ==
  lastSeen \in 0..MaxTicks /\ heard \subseteq 0..MaxEvents + 1 /\ episode \in 0..MaxEvents + 1
AlertQueue == queue \in Alert!Seq(Alert!Queued)
AlertTable ==
  /\ alert \in [Alert!Id -> Alert!Alert \cup {None}] /\ minSeverity \in Alert!Severity \cup {""}
  /\ due \subseteq Alert!Id /\ reminded \in [Alert!Id -> Nat]

\* The type invariant, in the groups the steps are taken in.
LEMMA AlertTypesAre ==
  Alert!TypeOK <=> AlertFlags /\ AlertCounts /\ AlertNumbers /\ AlertQueue /\ AlertTable
<1>1. {alerted, loaded, cache, warm, saving, seenFile} \subseteq BOOLEAN
        <=> /\ alerted \in BOOLEAN /\ loaded \in BOOLEAN /\ cache \in BOOLEAN
            /\ warm \in BOOLEAN /\ saving \in BOOLEAN /\ seenFile \in BOOLEAN
  BY Zenon
<1> QED
  BY <1>1, Zenon DEF Alert!TypeOK, AlertFlags, AlertCounts, AlertNumbers,
     AlertQueue, AlertTable

\* The invariant holds at the start.
LEMMA AlertInitInv == ASSUME Alert!Init PROVE AlertInv
<1>1. pid = 0 /\ clock = 0 /\ changes = 0 /\ failures = 0 /\ lastSeen = 0 /\ episode = 0 /\ heard = {}
  BY DEF Alert!Init
<1>2. /\ alerted = FALSE /\ loaded = FALSE /\ cache = FALSE /\ warm = FALSE /\ saving = FALSE
      /\ seenFile = FALSE /\ blind = FALSE /\ known = TRUE /\ outboxWasDown = FALSE
      /\ seen = FALSE /\ excused = FALSE /\ onDisk \in BOOLEAN /\ list = TRUE
  BY DEF Alert!Init
<1>3. /\ alert = [a \in Alert!Id |-> None] /\ due = {} /\ reminded = [a \in Alert!Id |-> 0]
      /\ minSeverity = ""
  BY DEF Alert!Init
<1>3q. queue = <<>>
  BY DEF Alert!Init
<1>4. MaxTicks \in Nat /\ MaxEvents \in Nat /\ MaxFailures \in Nat
  BY AlertAssumption
<1>5. Alert!TypeOK
  <2>1. AlertFlags
    BY <1>2 DEF AlertFlags
  <2>2. AlertCounts /\ AlertNumbers
    BY <1>1, <1>4 DEF AlertCounts, AlertNumbers
  <2>3. AlertTable /\ AlertQueue
    <3>1. alert \in [Alert!Id -> Alert!Alert \cup {None}] /\ due \subseteq Alert!Id
      BY <1>3
    <3>2. reminded \in [Alert!Id -> Nat]
      BY <1>3
    <3>3. minSeverity \in Alert!Severity \cup {""}
      BY <1>3
    <3>4. AlertTable
      BY <3>1, <3>2, <3>3 DEF AlertTable
    <3>5. AlertQueue
      BY <1>3q DEF AlertQueue
    <3> QED
      BY <3>4, <3>5
  <2> QED
    BY <2>1, <2>2, <2>3, AlertTypesAre
<1>6. AlertMarks
  BY <1>2 DEF AlertMarks
<1>7. AlertEpisodes
  BY <1>1, <1>2 DEF AlertEpisodes
<1>8. AlertOnce
  <2>1. \A a \in Alert!Id : reminded[a] = 0 /\ a \notin due
    BY <1>3
  <2> QED
    BY <2>1 DEF AlertOnce
<1> QED
  BY <1>5, <1>6, <1>7, <1>8 DEF AlertInv

(* Which steps change what.                                                *)
AlertMoves ==
  /\ \/ UNCHANGED <<pid, onDisk, list>> \/ Alert!Software \/ Alert!SyncList
  /\ \/ UNCHANGED <<alerted, loaded, cache, warm, saving, seenFile>>
     \/ Alert!Scan \/ Alert!SaveAlerted \/ Alert!RestartAgent
  /\ UNCHANGED blind \/ Alert!Blind
  /\ UNCHANGED queue \/ Alert!Scan \/ Alert!ReportSecurityEvent
  /\ UNCHANGED heard \/ Alert!ReportSecurityEvent
  /\ UNCHANGED <<episode, seen>> \/ Alert!Scan
  /\ UNCHANGED reminded \/ \E a \in Alert!Id : Alert!SendEscalation(a)
  /\ due' \subseteq due \/ Alert!TakeEscalations
  /\ \/ UNCHANGED alert
     \/ Alert!ReportSecurityEvent \/ Alert!ReportOutboxHealth \/ Alert!DeleteDevice
     \/ Alert!DetectUnreachable \/ Alert!TakeEscalations
     \/ \E a \in Alert!Id : Alert!AcknowledgeAlert(a)
  /\ \/ UNCHANGED <<known, lastSeen, outboxWasDown, minSeverity>>
     \/ Alert!DeleteDevice \/ Alert!ReportOutboxHealth \/ Alert!SetNotifyMinSeverity
     \/ Alert!RestartAgent \/ Alert!RestartServer
  /\ \/ UNCHANGED excused \/ excused' = TRUE
     \/ Alert!RestartAgent
  /\ UNCHANGED Alert!count \/ Alert!Fault \/ Alert!Change \/ Alert!Tick

\* Which actions change what.
LEMMA AlertMovesStep == ASSUME Alert!Next PROVE AlertMoves
<1> USE DEF AlertMoves, Alert!device, Alert!monitor, Alert!server, Alert!count,
   Alert!past, Alert!NoFault, Alert!Fault
<1>2. CASE Alert!Software \/ Alert!SyncList
  BY <1>2 DEF Alert!Software, Alert!SyncList
<1>3. CASE Alert!Scan
  BY <1>3 DEF Alert!Scan
<1>4. CASE Alert!SaveAlerted
  BY <1>4 DEF Alert!SaveAlerted
<1>5. CASE Alert!RestartAgent
  BY <1>5 DEF Alert!RestartAgent
<1>6. CASE Alert!Blind
  BY <1>6 DEF Alert!Blind
<1>7. CASE Alert!ReportSecurityEvent
  <2>1. ASSUME NEW w, Alert!CreateAlert(w)
        PROVE  /\ UNCHANGED Alert!count \/ Alert!Fault
               /\ (UNCHANGED excused \/ excused' = TRUE)
    BY <2>1 DEF Alert!CreateAlert
  <2>2. /\ UNCHANGED Alert!count \/ Alert!Fault
        /\ (UNCHANGED excused \/ excused' = TRUE)
    BY <1>7, <2>1 DEF Alert!ReportSecurityEvent
  <2> QED
    BY <1>7, <2>2 DEF Alert!ReportSecurityEvent
<1>8. CASE Alert!ReportOutboxHealth
  BY <1>8 DEF Alert!ReportOutboxHealth, Alert!CreateAlert
<1>9. CASE Alert!DeleteDevice
  BY <1>9 DEF Alert!DeleteDevice
<1>10. CASE Alert!DetectUnreachable
  BY <1>10 DEF Alert!DetectUnreachable
<1>11. CASE Alert!SetNotifyMinSeverity
  BY <1>11 DEF Alert!SetNotifyMinSeverity
<1>12. CASE Alert!TakeEscalations
  BY <1>12, Zenon DEF Alert!TakeEscalations
<1>13. CASE Alert!RestartServer
  BY <1>13 DEF Alert!RestartServer
<1>14. CASE Alert!Tick
  BY <1>14 DEF Alert!Tick
<1>15. ASSUME NEW a \in Alert!Id, Alert!SendEscalation(a) PROVE AlertMoves
  <2>1. due' \subseteq due
    BY <1>15 DEF Alert!SendEscalation
  <2> QED
    BY <1>15, <2>1, Zenon DEF Alert!SendEscalation
<1>16. ASSUME NEW a \in Alert!Id, Alert!AcknowledgeAlert(a) PROVE AlertMoves
  BY <1>16 DEF Alert!AcknowledgeAlert
<1> QED
  BY <1>2, <1>3, <1>4, <1>5, <1>6, <1>7, <1>8, <1>9, <1>10, <1>11, <1>12,
     <1>13, <1>14, <1>15, <1>16 DEF Alert!Next
(* Fault, Change and Tick keep the counts within their bounds.             *)
LEMMA AlertCountsStep == ASSUME Alert!TypeOK, Alert!Next PROVE AlertCounts'
<1>0. AlertCounts /\ AlertMoves
  BY AlertTypesAre, AlertMovesStep
<1>1. MaxTicks \in Nat /\ MaxEvents \in Nat /\ MaxFailures \in Nat
  BY AlertAssumption
<1>2. clock' \in 0..MaxTicks /\ changes' \in 0..MaxEvents /\ failures' \in 0..MaxFailures
  BY <1>0, <1>1 DEF AlertMoves, AlertCounts, Alert!count, Alert!Fault,
     Alert!Change, Alert!Tick
<1>3. pid' \in 0..MaxEvents
  <2>1. pid' \in {pid, 0} \/ (pid' = changes + 1 /\ Alert!Change)
    BY <1>0, <1>1 DEF AlertMoves, Alert!Software, Alert!SyncList, AlertCounts
  <2> QED
    BY <1>0, <1>1, <2>1 DEF AlertCounts, Alert!Change
<1> QED
  BY <1>2, <1>3 DEF AlertCounts
\* A scan, by what it had, what it finds and whether it reports it.
AlertScan(had, finds) ==
  /\ ~saving /\ loaded' = TRUE /\ warm' = TRUE
  /\ cache' = onDisk \/ (warm /\ cache' = cache)
  /\ had = (alerted \/ (~loaded /\ seenFile)) /\ finds = (pid # 0 \/ cache')
  /\ seen' = finds /\ episode' = (IF finds /\ ~seen THEN episode + 1 ELSE episode)
  /\ alerted' = (finds /\ (had \/ ~blind)) /\ saving' = (alerted' # had)
  /\ \/ queue' = queue /\ ~(finds /\ ~had /\ ~blind)
     \/ /\ finds /\ ~had /\ ~blind
        /\ queue' = Alert!Append(queue, [what |-> Alert!Detail, ep |-> episode'])
  /\ UNCHANGED <<pid, onDisk, list, seenFile, blind, heard, excused, changes>>

\* What a scan makes of the marks and of the queue.
LEMMA AlertScanIs ==
  ASSUME AlertFlags, Alert!Scan
  PROVE  \E had, finds \in BOOLEAN : AlertScan(had, finds)
<1> DEFINE had   == alerted \/ (~loaded /\ seenFile)
           finds == pid # 0 \/ cache'
           ep    == IF seen THEN episode ELSE episode + 1
<1>1. had \in BOOLEAN /\ finds \in BOOLEAN
  BY Zenon
<1>2. /\ ~saving /\ loaded' = TRUE /\ warm' = TRUE /\ seen' = finds
      /\ episode' = (IF finds THEN ep ELSE episode)
      /\ alerted' = (finds /\ (had \/ ~blind)) /\ saving' = (alerted' # had)
  BY Zenon DEF Alert!Scan, Alert!FindInstalled
<1>2q. queue' = (IF finds /\ ~had /\ ~blind
                 THEN Alert!Append(queue, [what |-> Alert!Detail, ep |-> ep]) ELSE queue)
  BY SMT DEF Alert!Scan
<1>3. \E fresh \in BOOLEAN : /\ ~warm => fresh
                             /\ cache' = (IF fresh THEN onDisk ELSE cache)
  BY Zenon DEF Alert!Scan, Alert!FindInstalled
<1>4. cache' = onDisk \/ (warm /\ cache' = cache)
  BY <1>3
<1>5. UNCHANGED <<pid, onDisk, list, seenFile, blind, heard, excused, changes>>
  BY DEF Alert!Scan, Alert!device, Alert!count
<1>6. episode' = (IF finds /\ ~seen THEN episode + 1 ELSE episode)
  BY <1>2, Zenon
<1>7. \/ queue' = queue /\ ~(finds /\ ~had /\ ~blind)
      \/ /\ finds /\ ~had /\ ~blind
         /\ queue' = Alert!Append(queue, [what |-> Alert!Detail, ep |-> episode'])
  BY <1>2, <1>2q, Zenon
<1> HIDE DEF had, finds
<1>8. AlertScan(had, finds)
  <2>1. had = (alerted \/ (~loaded /\ seenFile)) /\ finds = (pid # 0 \/ cache')
    BY Zenon DEF had, finds
  <2> QED
    BY <1>2, <1>4, <1>5, <1>6, <1>7, <2>1, Zenon DEF AlertScan
<1> QED
  BY <1>1, <1>8

\* The flags keep their type.
LEMMA AlertFlagsStep == ASSUME Alert!TypeOK, Alert!Next PROVE AlertFlags'
<1>0. AlertFlags /\ AlertMoves
  BY AlertTypesAre, AlertMovesStep
<1>1. onDisk' \in BOOLEAN /\ list' \in BOOLEAN
  BY <1>0, Zenon DEF AlertMoves, AlertFlags, Alert!Software, Alert!SyncList
<1>2. blind' \in BOOLEAN
  BY <1>0, Zenon DEF AlertMoves, AlertFlags, Alert!Blind
<1>3. CASE Alert!Scan
  <2>1. PICK had, finds \in BOOLEAN : AlertScan(had, finds)
    BY <1>0, <1>3, AlertScanIs
  <2>2. /\ alerted' \in BOOLEAN /\ loaded' \in BOOLEAN /\ saving' \in BOOLEAN /\ warm' \in BOOLEAN
        /\ seen' \in BOOLEAN
    BY <2>1, Zenon DEF AlertScan
  <2>3. cache' \in BOOLEAN /\ UNCHANGED <<seenFile, excused>>
    BY <1>0, <2>1, Zenon DEF AlertScan, AlertFlags
  <2>4. known' = known /\ outboxWasDown' = outboxWasDown
    BY <1>3 DEF Alert!Scan, Alert!server
  <2> QED
    BY <1>0, <1>1, <1>2, <2>2, <2>3, <2>4 DEF AlertFlags
<1>4. CASE ~Alert!Scan
  <2>1. /\ alerted' \in BOOLEAN /\ loaded' \in BOOLEAN /\ saving' \in BOOLEAN /\ warm' \in BOOLEAN
        /\ cache' \in BOOLEAN /\ seenFile' \in BOOLEAN
    BY <1>0, <1>4 DEF AlertMoves, AlertFlags, Alert!SaveAlerted,
       Alert!RestartAgent
  <2>2. seen' \in BOOLEAN
    BY <1>0, <1>4 DEF AlertMoves, AlertFlags
  <2>3. excused' \in BOOLEAN
    <3>1. Alert!RestartAgent => excused' \in BOOLEAN
      BY Zenon DEF Alert!RestartAgent
    <3> QED
      BY <1>0, <3>1 DEF AlertMoves, AlertFlags
  <2>4. known' \in BOOLEAN /\ outboxWasDown' \in BOOLEAN
    BY <1>0 DEF AlertMoves, AlertFlags, Alert!DeleteDevice,
       Alert!ReportOutboxHealth, Alert!SetNotifyMinSeverity,
       Alert!RestartAgent, Alert!RestartServer
  <2> QED
    BY <1>1, <1>2, <2>1, <2>2, <2>3, <2>4 DEF AlertFlags
<1> QED
  BY <1>3, <1>4

(* One more is not less, wherever the numbers come from.                   *)
LEMMA AlertBounds ==
  /\ \A e, c, d \in Nat : e <= c + 1 /\ c <= d => e \in 0..d + 1
  /\ \A e, c, d \in Nat : e <= c + 1 /\ c <= d => e <= d + 1
  OBVIOUS

\* An episode begins with an event, but for one.
LEMMA AlertEpisodesStep == ASSUME AlertInv, Alert!Next PROVE AlertEpisodes' /\ AlertNumbers'
<1>0. AlertFlags /\ AlertCounts /\ AlertNumbers /\ AlertMoves /\ AlertEpisodes /\ AlertCounts' /\ AlertQueue
  BY AlertTypesAre, AlertMovesStep, AlertCountsStep DEF AlertInv
<1>1. MaxTicks \in Nat /\ MaxEvents \in Nat /\ episode \in Nat /\ changes \in Nat /\ changes' \in Nat
  <2>1. MaxTicks \in Nat /\ MaxEvents \in Nat
    BY AlertAssumption
  <2> QED
    BY <1>0, <2>1 DEF AlertNumbers, AlertCounts
<1>2. AlertEpisodes'
  <2>1. CASE Alert!Scan
    <3>1. PICK had, finds \in BOOLEAN : AlertScan(had, finds)
      BY <1>0, <2>1, AlertScanIs
    <3>2. /\ finds = (pid # 0 \/ cache')
          /\ seen' = finds /\ warm' = TRUE
          /\ cache' = onDisk \/ (warm /\ cache' = cache)
          /\ pid' = pid /\ onDisk' = onDisk
      BY <3>1 DEF AlertScan
    <3>3. /\ finds /\ ~seen => AlertMayRise /\ ~AlertMayRise'
          /\ AlertMayRise' => AlertMayRise
      <4>1. CASE pid = 0
        <5>1. AlertMayRise <=> (onDisk /\ (~seen \/ (warm /\ ~cache))) \/ (~seen /\ warm /\ cache)
          BY <4>1, Zenon DEF AlertMayRise
        <5>2. AlertMayRise' <=> (onDisk /\ (~seen' \/ ~cache')) \/ (~seen' /\ cache')
          BY <3>2, <4>1, Zenon DEF AlertMayRise
        <5>3. (finds <=> cache') /\ (seen' <=> cache')
          BY <3>2, <4>1, Zenon
        <5>4. AlertMayRise' <=> onDisk /\ ~cache'
          BY <5>2, <5>3, Zenon
        <5>5. (cache' <=> onDisk) \/ (warm /\ (cache' <=> cache))
          BY <3>2, Zenon
        <5> QED
          BY <5>1, <5>3, <5>4, <5>5, Zenon
      <4>2. CASE pid # 0
        BY <3>2, <4>2 DEF AlertMayRise
      <4> QED
        BY <4>1, <4>2
    <3>4. episode' = (IF finds /\ ~seen THEN episode + 1 ELSE episode) /\ changes' = changes
      BY <3>1 DEF AlertScan
    <3>7. seen' => episode' # 0
      <4>1. seen' => finds
        BY <3>2, Zenon
      <4> QED
        BY <1>0, <1>1, <3>4, <4>1 DEF AlertEpisodes
    <3>5. CASE finds /\ ~seen
      BY <1>0, <1>1, <3>3, <3>4, <3>5, <3>7 DEF AlertEpisodes
    <3>6. CASE ~(finds /\ ~seen)
      BY <1>0, <1>1, <3>3, <3>4, <3>6, <3>7 DEF AlertEpisodes
    <3> QED
      BY <3>5, <3>6
  <2>2. CASE ~Alert!Scan
    <3>1. episode' = episode /\ seen' = seen
      BY <1>0, <2>2 DEF AlertMoves
    <3>2. CASE Alert!Software \/ Alert!SyncList
      <4>1. changes' = changes + 1
        BY <3>2 DEF Alert!Software, Alert!SyncList, Alert!Change
      <4> QED
        BY <1>0, <1>1, <3>1, <4>1 DEF AlertEpisodes
    <3>3. CASE ~(Alert!Software \/ Alert!SyncList)
      <4>1. AlertMayRise' => AlertMayRise
        <5>1. UNCHANGED <<pid, onDisk>> /\ (UNCHANGED <<warm, cache>> \/ ~warm')
          BY <1>0, <2>2, <3>3 DEF AlertMoves, Alert!SaveAlerted,
             Alert!RestartAgent
        <5> QED
          BY <3>1, <5>1, Zenon DEF AlertMayRise
      <4>2. changes <= changes'
        BY <1>0, <1>1 DEF AlertMoves, AlertCounts, Alert!count, Alert!Fault,
           Alert!Change, Alert!Tick
      <4>3. episode <= changes + 1 /\ (AlertMayRise => episode <= changes)
        BY <1>0 DEF AlertEpisodes
      <4>4. episode' <= changes' + 1 /\ (AlertMayRise => episode' <= changes')
        <5>1. episode' = episode
          BY <3>1
        <5>2. episode <= changes' + 1
          BY <1>1, <4>2, <4>3, AlertBounds
        <5>3. AlertMayRise => episode <= changes'
          BY <1>1, <4>2, <4>3
        <5> QED
          BY <5>1, <5>2, <5>3
      <4> QED
        BY <1>0, <3>1, <4>1, <4>4 DEF AlertEpisodes
    <3> QED
      BY <3>2, <3>3
  <2> QED
    BY <2>1, <2>2
<1>3. episode' \in 0..MaxEvents + 1
  <2>1. episode' \in Nat
    <3>1. CASE Alert!Scan
      <4>1. PICK had, finds \in BOOLEAN : AlertScan(had, finds)
        BY <1>0, <3>1, AlertScanIs
      <4>2. episode' \in {episode, episode + 1}
        BY <4>1 DEF AlertScan
      <4> QED
        BY <1>1, <4>2
    <3> QED
      BY <1>0, <1>1, <3>1 DEF AlertMoves
  <2>2. changes' \in 0..MaxEvents /\ episode' <= changes' + 1
    BY <1>0, <1>2 DEF AlertEpisodes, AlertCounts
  <2>3. changes' \in Nat /\ changes' <= MaxEvents /\ episode' <= changes' + 1
    BY <1>1, <2>2
  <2> QED
    BY <1>1, <2>1, <2>3, AlertBounds
<1>4. lastSeen' \in 0..MaxTicks
  BY <1>0 DEF AlertMoves, AlertNumbers, AlertCounts, Alert!DeleteDevice,
     Alert!ReportOutboxHealth, Alert!SetNotifyMinSeverity, Alert!RestartAgent,
     Alert!RestartServer
<1>5. heard' \subseteq 0..MaxEvents + 1
  <2>1. ASSUME queue # <<>> PROVE Alert!Head(queue).ep \in 0..MaxEvents + 1
    <3>1. Alert!Head(queue) \in Alert!Queued
      BY <1>0, <2>1 DEF AlertQueue
    <3> QED
      BY <1>1, <3>1 DEF Alert!Queued
  <2> QED
    BY <1>0, <2>1 DEF AlertMoves, AlertNumbers, Alert!ReportSecurityEvent
<1> QED
  BY <1>2, <1>3, <1>4, <1>5 DEF AlertNumbers

\* Every step keeps the types.
LEMMA AlertTypesStep == ASSUME AlertInv, Alert!Next PROVE Alert!TypeOK'
<1>0. /\ AlertFlags /\ AlertCounts /\ AlertNumbers /\ AlertQueue /\ AlertTable /\ AlertMoves
      /\ AlertFlags' /\ AlertCounts' /\ AlertNumbers' /\ Alert!TypeOK
  BY AlertTypesAre, AlertMovesStep, AlertFlagsStep, AlertCountsStep,
     AlertEpisodesStep DEF AlertInv
<1>1. MaxTicks \in Nat /\ MaxEvents \in Nat
  BY AlertAssumption
<1>2. AlertQueue'
  <2>1. CASE Alert!Scan
    <3>1. PICK had, finds \in BOOLEAN : AlertScan(had, finds)
      BY <1>0, <2>1, AlertScanIs
    <3>2. Alert!Detail \in Alert!What
      BY <1>0 DEF Alert!Detail, Alert!What, AlertCounts
    <3>3. CASE queue' = queue
      BY <1>0, <3>3 DEF AlertQueue
    <3>4. CASE queue' # queue
      <4>1. finds /\ queue' = Alert!Append(queue, [what |-> Alert!Detail, ep |-> episode'])
        BY <3>1, <3>4 DEF AlertScan
      <4>2. seen' = finds
        BY <3>1, Zenon DEF AlertScan
      <4>3. episode' # 0
        BY <4>1, <4>2, AlertEpisodesStep DEF AlertEpisodes
      <4>4. \A e, n \in Nat : e \in 0..n + 1 /\ e # 0 => e \in 1..n + 1
        OBVIOUS
      <4>5. episode' \in 1..MaxEvents + 1
        BY <1>0, <1>1, <4>3, <4>4 DEF AlertNumbers
      <4>6. [what |-> Alert!Detail, ep |-> episode'] \in Alert!Queued
        BY <3>2, <4>5 DEF Alert!Queued
      <4> QED
        BY <1>0, <4>1, <4>6 DEF AlertQueue
    <3> QED
      BY <3>3, <3>4
  <2>2. CASE Alert!ReportSecurityEvent
    <3>1. queue # <<>> /\ queue' \in {queue, Alert!Tail(queue)}
      BY <2>2 DEF Alert!ReportSecurityEvent
    <3> QED
      BY <1>0, <3>1 DEF AlertQueue
  <2> QED
    BY <1>0, <2>1, <2>2 DEF AlertMoves, AlertQueue
<1>3. due' \subseteq Alert!Id
  BY <1>0 DEF AlertMoves, AlertTable, Alert!TakeEscalations, Alert!Rows
<1>4. reminded' \in [Alert!Id -> Nat]
  <2>1. reminded \in [Alert!Id -> Nat]
    BY <1>0 DEF AlertTable
  <2>2. reminded' = reminded \/ \E a \in Alert!Id : reminded' = [reminded EXCEPT ![a] = @ + 1]
    BY <1>0 DEF AlertMoves, Alert!SendEscalation
  <2> QED
    BY <2>1, <2>2
<1>5. minSeverity' \in Alert!Severity \cup {""}
  <2>1. Levels \subseteq Alert!Severity \cup {""}
    BY AlertAssumption
  <2> QED
    BY <1>0, <2>1 DEF AlertMoves, AlertTable, Alert!DeleteDevice,
       Alert!ReportOutboxHealth, Alert!SetNotifyMinSeverity,
       Alert!RestartAgent, Alert!RestartServer
<1>6. alert' \in [Alert!Id -> Alert!Alert \cup {None}]
  <2>0. alert \in [Alert!Id -> Alert!Alert \cup {None}] /\ clock \in 0..MaxTicks
    BY <1>0 DEF AlertTable, AlertCounts
  <2>1. \A w \in Alert!What :
          [what |-> w, created |-> clock, acked |-> FALSE, escalated |-> -1] \in Alert!Alert
    BY <1>1, <2>0 DEF Alert!Alert
  <2>2. ASSUME NEW w \in Alert!What, Alert!CreateAlert(w) \/ Alert!Insert(w)
        PROVE  alert' \in [Alert!Id -> Alert!Alert \cup {None}]
    BY <2>0, <2>1, <2>2 DEF Alert!CreateAlert, Alert!Insert
  <2>3. CASE Alert!ReportSecurityEvent
    <3>1. queue # <<>> /\ Alert!Head(queue) \in Alert!Queued
      BY <1>0, <2>3 DEF Alert!ReportSecurityEvent, AlertQueue
    <3>2. Alert!Head(queue).what \in Alert!What
      BY <3>1 DEF Alert!Queued
    <3>3. \/ Alert!CreateAlert(Alert!Head(queue).what) \/ Alert!Insert(Alert!Head(queue).what)
          \/ alert' = alert
      BY <2>3 DEF Alert!ReportSecurityEvent
    <3> QED
      BY <2>0, <2>2, <3>2, <3>3
  <2>4. CASE Alert!ReportOutboxHealth
    <3>1. <<"outbox_unavailable", 0>> \in Alert!What
      BY DEF Alert!What
    <3>2. Alert!CreateAlert(<<"outbox_unavailable", 0>>) \/ alert' = alert
      BY <2>4 DEF Alert!ReportOutboxHealth
    <3> QED
      BY <2>0, <2>2, <3>1, <3>2
  <2>5. CASE Alert!DetectUnreachable
    <3>1. <<"agent_unreachable", lastSeen>> \in Alert!What
      BY <1>0 DEF Alert!What, AlertNumbers
    <3>2. \E a \in Alert!Id :
            alert' = [alert EXCEPT ![a] = [what |-> <<"agent_unreachable", lastSeen>>,
                                           created |-> clock, acked |-> FALSE, escalated |-> -1]]
      BY <2>5 DEF Alert!DetectUnreachable
    <3> QED
      BY <2>0, <2>1, <3>1, <3>2
  <2>6. ASSUME NEW a \in Alert!Id, Alert!AcknowledgeAlert(a)
        PROVE  alert' \in [Alert!Id -> Alert!Alert \cup {None}]
    <3>1. [alert[a] EXCEPT !.acked = TRUE] \in Alert!Alert
      BY <2>0, <2>6 DEF Alert!AcknowledgeAlert, Alert!Rows, Alert!Alert
    <3> QED
      BY <2>0, <2>6, <3>1 DEF Alert!AcknowledgeAlert
  <2>7. CASE Alert!TakeEscalations
    <3>1. ASSUME NEW a \in Alert!Rows PROVE [alert[a] EXCEPT !.escalated = clock] \in Alert!Alert
      <4>1. alert[a] \in Alert!Alert /\ clock \in -1..MaxTicks
        BY <1>1, <2>0 DEF Alert!Rows
      <4> QED
        BY <4>1 DEF Alert!Alert
    <3> QED
      BY <2>0, <2>7, <3>1 DEF Alert!TakeEscalations
  <2>8. CASE Alert!DeleteDevice
    BY <2>8 DEF Alert!DeleteDevice
  <2> QED
    BY <1>0, <2>0, <2>3, <2>4, <2>5, <2>6, <2>7, <2>8 DEF AlertMoves
<1> QED
  BY <1>0, <1>2, <1>3, <1>4, <1>5, <1>6 DEF Alert!TypeOK, AlertFlags,
     AlertCounts, AlertNumbers, AlertQueue, AlertTable
(* A report leaves the queue for the server only.                          *)
LEMMA AlertReportsStay ==
  ASSUME AlertQueue, Alert!Next, NEW e, AlertReported(e)
  PROVE  AlertReported(e)'
<1>0. AlertMoves /\ AlertQueue
  BY AlertMovesStep
<1>1. CASE Alert!ReportSecurityEvent
  <2> DEFINE r == Alert!Head(queue)
  <2>1. queue # <<>> /\ heard \subseteq heard'
        /\ (queue' = queue \/ (queue' = Alert!Tail(queue) /\ r.ep \in heard'))
    BY <1>1 DEF Alert!ReportSecurityEvent
  <2>2. CASE e \in heard \/ queue' = queue
    BY <2>1, <2>2 DEF AlertReported
  <2>3. CASE queue' = Alert!Tail(queue) /\ r.ep \in heard' /\ e \notin heard
    <3>1. PICK i \in DOMAIN queue : queue[i].ep = e
      BY <2>3 DEF AlertReported
    <3>2. CASE i = 1
      BY <1>0, <2>1, <2>3, <3>1, <3>2 DEF AlertReported, AlertQueue
    <3>3. CASE i # 1
      <4>1. i - 1 \in DOMAIN queue' /\ queue'[i - 1] = queue[i]
        BY <1>0, <2>1, <2>3, <3>1, <3>3 DEF AlertQueue
      <4> QED
        BY <3>1, <4>1 DEF AlertReported
    <3> QED
      BY <3>2, <3>3
  <2> QED
    BY <2>1, <2>2, <2>3
<1>2. CASE Alert!Scan
  <2>1. /\ heard' = heard
        /\ queue' = queue \/ \E x : queue' = Alert!Append(queue, x)
    BY <1>2 DEF Alert!Scan
  <2>2. ASSUME NEW i \in DOMAIN queue, NEW x, queue' = Alert!Append(queue, x)
        PROVE  i \in DOMAIN queue' /\ queue'[i] = queue[i]
    BY <1>0, <2>2 DEF AlertQueue
  <2> QED
    BY <2>1, <2>2 DEF AlertReported
<1>3. CASE UNCHANGED <<queue, heard>>
  BY <1>3 DEF AlertReported
<1> QED
  BY <1>0, <1>1, <1>2, <1>3 DEF AlertMoves

\* The mark stays that of the episode that goes on.
LEMMA AlertMarksStep == ASSUME AlertInv, Alert!Next PROVE AlertMarks'
<1>0. AlertFlags /\ AlertMoves /\ AlertQueue /\ AlertMarks /\ AlertFlags'
  BY AlertTypesAre, AlertMovesStep, AlertFlagsStep DEF AlertInv
<1>1. ASSUME ~Alert!Scan PROVE episode' = episode /\ seen' = seen
  BY <1>0, <1>1 DEF AlertMoves
<1>2. AlertReported(episode) => AlertReported(episode)' \/ Alert!Scan
  <2>1. \A e : AlertReported(e) => AlertReported(e)'
    BY <1>0, AlertReportsStay
  <2> QED
    BY <1>1, <2>1 DEF AlertReported
<1>3. CASE Alert!Scan
  <2>1. PICK had, finds \in BOOLEAN : AlertScan(had, finds)
    BY <1>0, <1>3, AlertScanIs
  <2>2. /\ ~saving /\ loaded' /\ (excused' <=> excused) /\ (seen' <=> finds)
        /\ had <=> (alerted \/ (~loaded /\ seenFile))
        /\ alerted' <=> (finds /\ (had \/ ~blind))
        /\ saving' <=> ~(alerted' <=> had)
        /\ seenFile' <=> seenFile
    BY <1>0, <2>1, Zenon DEF AlertScan
  <2>3. ~excused /\ finds /\ had => seen /\ AlertReported(episode)
    BY <1>0, <2>2, Zenon DEF AlertMarks
  <2>4. seen => episode' = episode
    BY <2>1 DEF AlertScan
  <2>5. ASSUME ~had, alerted' PROVE AlertReported(episode)'
    <3>1. \/ queue' = Alert!Append(queue, [what |-> Alert!Detail, ep |-> episode'])
          \/ ~(finds /\ ~had /\ ~blind)
      BY <2>1 DEF AlertScan
    <3>2. finds /\ ~blind
      BY <2>2, <2>5, Zenon
    <3>3. queue' = Alert!Append(queue, [what |-> Alert!Detail, ep |-> episode'])
      BY <2>5, <3>1, <3>2, Zenon
    <3>4. \E i \in DOMAIN queue' : queue'[i].ep = episode'
      <4>1. Alert!Len(queue) + 1 \in DOMAIN queue'
        BY <1>0, <3>3 DEF AlertQueue
      <4>2. queue'[Alert!Len(queue) + 1] = [what |-> Alert!Detail, ep |-> episode']
        BY <1>0, <3>3 DEF AlertQueue
      <4> QED
        BY <4>1, <4>2
    <3> QED
      BY <3>4 DEF AlertReported
  <2>6. ASSUME had, alerted', ~excused PROVE AlertReported(episode)'
    <3>1. seen /\ AlertReported(episode)
      BY <2>2, <2>3, <2>6, Zenon
    <3>2. \A e : AlertReported(e) => AlertReported(e)'
      BY <1>0, AlertReportsStay
    <3>3. episode' = episode
      BY <2>4, <3>1
    <3> QED
      BY <3>1, <3>2, <3>3 DEF AlertReported
  <2>7. ~excused' /\ alerted' => seen' /\ AlertReported(episode)'
    BY <2>2, <2>5, <2>6, Zenon
  <2>8. ~excused' /\ ~saving' => (seenFile' <=> alerted')
    <3>1. ~excused => (had <=> seenFile)
      BY <1>0, <2>2, Zenon DEF AlertMarks
    <3> QED
      BY <2>2, <3>1, Zenon
  <2>9. ~excused' /\ ~saving' => seenFile' = alerted'
    BY <1>0, <2>8 DEF AlertFlags
  <2> QED
    BY <2>2, <2>7, <2>9, Zenon DEF AlertMarks
<1>4. CASE Alert!SaveAlerted
  <2>1. /\ saving /\ saving' = FALSE /\ loaded' = loaded /\ alerted' = alerted
        /\ seenFile' = alerted \/ excused' = TRUE
        /\ excused' = excused \/ excused' = TRUE
    BY <1>4 DEF Alert!SaveAlerted, Alert!past
  <2>2. seen' = seen /\ (AlertReported(episode) => AlertReported(episode)')
    <3>1. ~Alert!Scan
      BY <1>4 DEF Alert!SaveAlerted, Alert!Scan
    <3> QED
      BY <1>1, <1>2, <3>1
  <2>3. loaded /\ loaded'
    BY <1>0, <2>1, Zenon DEF AlertMarks
  <2>4. ASSUME ~excused' PROVE ~excused /\ seenFile' = alerted'
    BY <2>1, <2>4
  <2>5. ASSUME ~excused', alerted' PROVE seen' /\ AlertReported(episode)'
    <3>1. alerted /\ ~excused
      BY <2>1, <2>4, <2>5
    <3>2. seen /\ AlertReported(episode)
      BY <1>0, <2>3, <3>1, Zenon DEF AlertMarks
    <3> QED
      BY <2>2, <3>2
  <2> QED
    BY <2>3, <2>4, <2>5, Zenon DEF AlertMarks
<1>5. CASE Alert!RestartAgent
  <2>1. /\ alerted' = FALSE /\ loaded' = FALSE /\ saving' = FALSE /\ seenFile' = seenFile
        /\ seen' = seen /\ episode' = episode /\ queue' = queue /\ heard' = heard
    BY <1>5 DEF Alert!RestartAgent
  <2>2. ~excused' => ~excused /\ ~(saving /\ seenFile # alerted /\ ~alerted)
    BY <1>5, Zenon DEF Alert!RestartAgent
  <2>3. AlertReported(episode)' <=> AlertReported(episode)
    BY <2>1 DEF AlertReported
  <2>4. ASSUME ~excused', seenFile PROVE seen /\ AlertReported(episode)
    <3>1. CASE loaded /\ alerted
      BY <1>0, <2>2, <2>4, <3>1, Zenon DEF AlertMarks
    <3>2. CASE loaded /\ ~alerted
      BY <1>0, <2>2, <2>4, <3>2, Zenon DEF AlertMarks
    <3>3. CASE ~loaded
      BY <1>0, <2>2, <2>4, <3>3, Zenon DEF AlertMarks
    <3> QED
      BY <3>1, <3>2, <3>3
  <2> QED
    BY <2>1, <2>3, <2>4, Zenon DEF AlertMarks
<1>6. CASE UNCHANGED <<alerted, loaded, cache, warm, saving, seenFile>> /\ ~Alert!Scan /\ ~Alert!RestartAgent
  <2>1. excused' = excused \/ excused' = TRUE
    BY <1>0, <1>6 DEF AlertMoves
  <2>2. seen' = seen /\ (AlertReported(episode) => AlertReported(episode)')
    BY <1>1, <1>2, <1>6
  <2>3. alerted' = alerted /\ loaded' = loaded /\ saving' = saving /\ seenFile' = seenFile
    BY <1>6
  <2> QED
    BY <1>0, <2>1, <2>2, <2>3, Zenon DEF AlertMarks
<1> QED
  BY <1>0, <1>3, <1>4, <1>5, <1>6 DEF AlertMoves
(* What was taken stays taken, in a step that takes nothing.               *)
LEMMA AlertTakenStays ==
  ASSUME AlertInv, Alert!Next, ~Alert!TakeEscalations, excused' # TRUE,
         NEW a \in Alert!Id, AlertTaken(a)
  PROVE  AlertTaken(a)'
<1>0. AlertMoves /\ AlertTable /\ AlertTable'
  <2>1. AlertMoves /\ AlertTable
    BY AlertTypesAre, AlertMovesStep DEF AlertInv
  <2>2. AlertTable'
    BY AlertTypesStep DEF Alert!TypeOK, AlertTable
  <2> QED
    BY <2>1, <2>2
<1>1. alert[a] \in Alert!Alert /\ alert[a] # None /\ alert'[a] \in Alert!Alert \cup {None}
  BY <1>0 DEF AlertTable, AlertTaken
<1>2. ASSUME NEW w, Alert!CreateAlert(w) \/ Alert!Insert(w) PROVE alert'[a] = alert[a]
  BY <1>0, <1>1, <1>2 DEF Alert!CreateAlert, Alert!Insert, Alert!Rows,
     AlertTable
<1>3. CASE alert'[a] = alert[a]
  BY <1>3 DEF AlertTaken
<1>4. CASE Alert!ReportSecurityEvent
  <2>1. (\E w : Alert!CreateAlert(w) \/ Alert!Insert(w)) \/ alert' = alert
    BY <1>4 DEF Alert!ReportSecurityEvent
  <2> QED
    BY <1>2, <1>3, <2>1
<1>5. CASE Alert!ReportOutboxHealth
  <2>1. (\E w : Alert!CreateAlert(w)) \/ alert' = alert
    BY <1>5 DEF Alert!ReportOutboxHealth
  <2> QED
    BY <1>2, <1>3, <2>1
<1>6. CASE Alert!DetectUnreachable
  <2>1. \E b \in Alert!Id \ Alert!Rows : \E x : alert' = [alert EXCEPT ![b] = x]
    BY <1>6 DEF Alert!DetectUnreachable
  <2>2. alert'[a] = alert[a]
    BY <1>0, <1>1, <2>1 DEF Alert!Rows, AlertTable
  <2> QED
    BY <1>3, <2>2
<1>7. ASSUME NEW b \in Alert!Id, Alert!AcknowledgeAlert(b) PROVE AlertTaken(a)'
  <2>1. alert' = [alert EXCEPT ![b] = [alert[b] EXCEPT !.acked = TRUE]]
    BY <1>0, <1>7 DEF Alert!AcknowledgeAlert, AlertTable
  <2>2. CASE b # a
    BY <1>0, <1>3, <2>1, <2>2 DEF AlertTable
  <2>3. CASE b = a
    <3>1. alert'[a] = [alert[a] EXCEPT !.acked = TRUE]
      BY <1>0, <2>1, <2>3 DEF AlertTable
    <3>2. alert'[a].escalated = alert[a].escalated /\ alert'[a] \in Alert!Alert
      BY <1>1, <3>1 DEF Alert!Alert
    <3>3. alert'[a] # None
      BY <3>2, AlertAssumption
    <3> QED
      BY <3>2, <3>3 DEF AlertTaken
  <2> QED
    BY <2>2, <2>3
<1>8. CASE Alert!DeleteDevice
  BY <1>8 DEF Alert!DeleteDevice
<1> QED
  BY <1>0, <1>3, <1>4, <1>5, <1>6, <1>7, <1>8 DEF AlertMoves

\* An alert that was escalated does not rise again.
LEMMA AlertOnceStep == ASSUME AlertInv, Alert!Next PROVE AlertOnce'
<1> SUFFICES ASSUME Repeat = 0, excused' = FALSE, NEW a \in Alert!Id
             PROVE  /\ reminded'[a] <= 1
                    /\ reminded'[a] # 0 \/ a \in due' => AlertTaken(a)'
                    /\ a \in due' => reminded'[a] = 0
  <2>1. excused' \in BOOLEAN
    BY AlertFlagsStep DEF AlertInv, AlertFlags
  <2> QED
    BY <2>1 DEF AlertOnce
<1>0. AlertMoves /\ AlertTable /\ AlertTable' /\ AlertOnce /\ AlertFlags /\ AlertCounts
  <2>1. AlertMoves /\ AlertTable /\ AlertOnce /\ AlertFlags /\ AlertCounts
    BY AlertTypesAre, AlertMovesStep DEF AlertInv
  <2>2. AlertTable'
    BY AlertTypesStep DEF Alert!TypeOK, AlertTable
  <2> QED
    BY <2>1, <2>2
<1>1. excused = FALSE
  <2>1. excused' => excused' = TRUE
    OBVIOUS
  <2>2. excused => excused'
    BY <1>0 DEF AlertMoves, Alert!RestartAgent
  <2> QED
    BY <1>0, <2>2 DEF AlertFlags
<1>2. /\ reminded[a] <= 1 /\ reminded[a] \in Nat
      /\ reminded[a] # 0 \/ a \in due => AlertTaken(a)
      /\ a \in due => reminded[a] = 0
  BY <1>0, <1>1 DEF AlertOnce, AlertTable
<1>3. CASE Alert!TakeEscalations
  <2>1. /\ reminded' = reminded /\ due' = {b \in Alert!Rows : Alert!Overdue(b)}
        /\ alert' = [b \in Alert!Id |-> IF b \in due' THEN [alert[b] EXCEPT !.escalated = clock] ELSE alert[b]]
    BY <1>3 DEF Alert!TakeEscalations
  <2>2. CASE a \in due'
    <3>1. a \in Alert!Rows /\ Alert!Overdue(a) /\ alert[a] \in Alert!Alert
      BY <1>0, <2>1, <2>2 DEF Alert!Rows, AlertTable
    <3>2. alert[a].escalated = -1
      BY <3>1 DEF Alert!Overdue
    <3>3. reminded[a] = 0
      BY <1>2, <3>2 DEF AlertTaken
    <3>4. alert'[a] = [alert[a] EXCEPT !.escalated = clock]
      BY <2>1, <2>2
    <3>5. clock \in 0..MaxTicks
      BY <1>0 DEF AlertCounts
    <3>6. alert'[a].escalated = clock /\ clock # -1
      BY <3>1, <3>4, <3>5 DEF Alert!Alert
    <3>7. alert'[a] \in Alert!Alert
      <4>1. clock \in -1..MaxTicks
        <5>1. MaxTicks \in Nat
          BY AlertAssumption
        <5> QED
          BY <3>5, <5>1
      <4> QED
        BY <3>1, <3>4, <4>1 DEF Alert!Alert
    <3>8. AlertTaken(a)'
      BY <3>6, <3>7, AlertAssumption DEF AlertTaken
    <3> QED
      BY <2>1, <3>3, <3>8
  <2>3. CASE a \notin due'
    BY <1>2, <2>1, <2>3 DEF AlertTaken
  <2> QED
    BY <2>2, <2>3
<1>4. CASE ~Alert!TakeEscalations
  <2>1. AlertTaken(a) => AlertTaken(a)'
    BY <1>4, AlertTakenStays
  <2>2. due' \subseteq due
    BY <1>0, <1>4 DEF AlertMoves
  <2>3. CASE reminded' = reminded
    BY <1>2, <2>1, <2>2, <2>3
  <2>4. ASSUME NEW b \in Alert!Id, Alert!SendEscalation(b), reminded' # reminded
        PROVE  /\ reminded'[a] <= 1
               /\ reminded'[a] # 0 \/ a \in due' => AlertTaken(a)'
               /\ a \in due' => reminded'[a] = 0
    <3>1. b \in due /\ due' = due \ {b} /\ reminded' = [reminded EXCEPT ![b] = @ + 1]
      BY <2>4 DEF Alert!SendEscalation
    <3>2. CASE b = a
      <4>0. reminded'[a] = reminded[a] + 1
        BY <1>0, <3>1, <3>2 DEF AlertTable
      <4>1. reminded'[a] = 1 /\ a \notin due' /\ AlertTaken(a)
        BY <1>2, <3>1, <3>2, <4>0
      <4> QED
        BY <2>1, <4>1
    <3>3. CASE b # a
      <4>1. reminded'[a] = reminded[a] /\ (a \in due' => a \in due)
        BY <1>0, <3>1, <3>3 DEF AlertTable
      <4> QED
        BY <1>2, <2>1, <4>1
    <3> QED
      BY <3>2, <3>3
  <2> QED
    BY <1>0, <2>3, <2>4 DEF AlertMoves
<1> QED
  BY <1>3, <1>4

\* Every step keeps the invariant.
LEMMA AlertStep == ASSUME AlertInv, Alert!Next PROVE AlertInv'
BY AlertTypesStep, AlertMarksStep, AlertEpisodesStep, AlertOnceStep
   DEF AlertInv

\* A step of the parts is one of this part, or leaves it alone.
LEMMA AlertPartStep ==
  ASSUME [PartNext]_<<part, vars, cells>>, part = "alerts"
  PROVE  [Alert!Next]_(Alert!vars)
<1>1. CASE PartNext
  BY <1>1 DEF PartNext
<1>2. CASE UNCHANGED <<part, vars, cells>>
  BY <1>2 DEF cells, inAlerts, shared, Alert!vars, Alert!device, Alert!monitor,
     Alert!server, Alert!count, Alert!past
<1> QED
  BY <1>1, <1>2

\* A step that changes nothing keeps the invariant.
LEMMA AlertStutter == ASSUME AlertInv, UNCHANGED Alert!vars PROVE AlertInv'
<1> USE DEF Alert!vars, Alert!device, Alert!monitor, Alert!server, Alert!count,
   Alert!past
<1>1. Alert!TypeOK'
  BY DEF AlertInv, Alert!TypeOK
<1>2. AlertMarks' /\ AlertEpisodes' /\ AlertOnce'
  BY DEF AlertInv, AlertMarks, AlertEpisodes, AlertOnce, AlertReported,
     AlertMayRise, AlertTaken
<1> QED
  BY <1>1, <1>2 DEF AlertInv

(* Alerts: the invariant holds in every reachable state.                   *)
THEOREM AlertInvariant == PartSpec => [](part = "alerts" => AlertInv)
<1> DEFINE I == part = "alerts" => AlertInv
<1>1. PartInit => I
  BY AlertInitInv DEF PartInit
<1>2. I /\ [PartNext]_<<part, vars, cells>> => I'
  BY ServerPartStays, AlertPartStep, AlertStep, AlertStutter
<1> QED
  BY <1>1, <1>2, PTL DEF PartSpec

(* Alerts: software that counts as reported is reported, and an alert is   *)
(* escalated once.                                                         *)
THEOREM AlertsReach == PartSpec => []AlertsAreTold
<1>1. (part = "alerts" => AlertInv) => AlertsAreTold
  <2> SUFFICES ASSUME part = "alerts", AlertInv PROVE Alert!AlertsAreTold
    BY DEF AlertsAreTold
  <2>1. Alert!EpisodeReported
    <3> SUFFICES ASSUME seen, loaded, alerted, ~excused
                 PROVE  episode \in heard \/ \E i \in 1..Alert!Len(queue) : queue[i].ep = episode
      BY DEF Alert!EpisodeReported
    <3>1. AlertReported(episode)
      BY DEF AlertInv, AlertMarks
    <3>2. DOMAIN queue = 1..Alert!Len(queue)
      BY AlertTypesAre DEF AlertInv, AlertQueue
    <3> QED
      BY <3>1, <3>2 DEF AlertReported
  <2>2. Alert!EscalatedAtMostOnce
    BY DEF AlertInv, AlertOnce, Alert!EscalatedAtMostOnce
  <2> QED
    BY <2>1, <2>2 DEF Alert!AlertsAreTold
<1> QED
  BY <1>1, AlertInvariant, PTL

-----------------------------------------------------------------------------
(* Enrollment (Enrollment): why a refused or retired device stays out, why *)
(* an older token loses, and why a written identity is found again.        *)

\* A device that waits, or was retired, has a row; the row a bulk enrollment
\* has begun is its own, and nobody waits for it.
EnrollStatus == Enroll!NotReadmitted /\ \A d \in waiting : status[d] # "none"
EnrollBegun ==
  /\ \A m \in Machine : run[m].pc = "begun" =>
       run[m].dev \in Enroll!Device /\ status[run[m].dev] # "none" /\ run[m].dev \notin waiting
  /\ \A m, n \in Machine :
       run[m].pc = "begun" /\ run[n].pc = "begun" /\ run[m].dev = run[n].dev => m = n

\* An unused token of a device is its newest, and what a run has read of its
\* token still holds.
EnrollTokens ==
  /\ older = {}
  /\ \A t \in Enroll!Token :
       token[t].dev # Enroll!Nil => token[t].kind = "one" /\ (~token[t].used => newest[token[t].dev] = t)
  /\ \A m \in Machine : run[m].pc \in {"ask", "known"} =>
       /\ run[m].tok \in Enroll!Token /\ token[run[m].tok].kind # "none"
       /\ run[m].pc = "known" => run[m].dev = token[run[m].tok].dev

\* The pair of files, step by step of the run that writes and copies it.
EnrollWrites(m) ==
  /\ run[m].pc \in {"ask", "known", "begun", "key", "crt"} =>
       /\ run[m].cert \in Enroll!Cert
       /\ run[m].out = "dst" => ~Enroll!Whole(src[m])
  /\ run[m].pc = "crt" =>
       /\ issued[m] = Enroll!Nil
       /\ run[m].cert = IF run[m].out = "dst" THEN dst[m].key ELSE src[m].key
EnrollCopies(m) ==
  /\ run[m].pc \in {"copycrt", "copykey", "drop"} => Enroll!Matches(src[m])
  /\ run[m].pc \in {"copykey", "drop"} => dst[m].crt = src[m].crt
  /\ run[m].pc = "drop" => dst[m].key = src[m].key
EnrollFiles == Enroll!IssuedKept /\ \A m \in Machine : EnrollWrites(m) /\ EnrollCopies(m)

EnrollInv == Enroll!TypeOK /\ EnrollStatus /\ EnrollBegun /\ EnrollTokens /\ EnrollFiles

-----------------------------------------------------------------------------
(* Which steps change what.                                                *)
EnrollTokenMoves ==
  \/ \E t \in Enroll!Token, d \in Enroll!Device :
       Enroll!CreateEnrollmentToken(t, d) \/ Enroll!ResetDeviceForReenroll(t, d)
  \/ \E t \in Enroll!Token : Enroll!RevokeEnrollmentToken(t)
  \/ \E t \in Enroll!Token, a \in BOOLEAN : Enroll!IssueBulkEnrollmentToken(t, a)
  \/ \E d \in Enroll!Device : Enroll!DeleteDevice(d)
  \/ \E m \in Machine : Enroll!EnrollDevice(m) \/ Enroll!BeginBulkEnroll(m)
EnrollStatusMoves ==
  \/ \E d \in Enroll!Device : Enroll!CreatePendingDevice(d) \/ Enroll!DeleteDevice(d)
  \/ \E t \in Enroll!Token, d \in Enroll!Device : Enroll!ResetDeviceForReenroll(t, d)
  \/ \E m \in Machine, d \in Enroll!Device : Enroll!MarkDeviceDecommissioned(m, d)
  \/ Enroll!UpdateDeviceStatus
  \/ \E S \in SUBSET Enroll!Device : Enroll!ApproveDevices(S) \/ Enroll!RejectDevices(S)
  \/ \E m \in Machine :
       \/ Enroll!UpsertDeviceHeartbeat(m) \/ Enroll!EnrollDevice(m)
       \/ Enroll!BeginBulkEnroll(m) \/ Enroll!FinalizeBulkEnroll(m)
EnrollFileMoves(m) ==
  \/ Enroll!WriteKey(m) \/ Enroll!WriteCert(m)
  \/ Enroll!CopyCert(m) \/ Enroll!CopyKey(m) \/ Enroll!DropKey(m) \/ Enroll!RunDies(m)
EnrollRunMoves(m) ==
  \/ \E t \in Enroll!Token : Enroll!RunEnroll(m, t)
  \/ Enroll!GetEnrollmentToken(m) \/ Enroll!EnrollDevice(m)
  \/ Enroll!BeginBulkEnroll(m) \/ Enroll!FinalizeBulkEnroll(m)
  \/ Enroll!BulkNotCommitted(m) \/ Enroll!RequestFails(m)
  \/ EnrollFileMoves(m)
EnrollMoves ==
  /\ UNCHANGED <<token, newest>> \/ EnrollTokenMoves
  /\ UNCHANGED <<status, waiting, retired, forced>> \/ EnrollStatusMoves
  /\ UNCHANGED older \/ \E m \in Machine : Enroll!EnrollDevice(m)
  /\ UNCHANGED run \/ \E m \in Machine : EnrollRunMoves(m)
  /\ UNCHANGED <<src, dst, issued>> \/ \E m \in Machine : EnrollFileMoves(m)
  /\ \/ UNCHANGED fp \/ \E d \in Enroll!Device : Enroll!DeleteDevice(d)
     \/ \E m \in Machine :
          Enroll!UpsertDeviceHeartbeat(m) \/ Enroll!EnrollDevice(m) \/ Enroll!FinalizeBulkEnroll(m)
  /\ UNCHANGED revoked \/ \E d \in Enroll!Device : Enroll!DeleteDevice(d)
  /\ UNCHANGED conn \/ Enroll!ReissueCA \/ \E m \in Machine :
       Enroll!Connect(m) \/ Enroll!UpsertDeviceHeartbeat(m) \/ Enroll!Disconnect(m)
  /\ UNCHANGED stale \/ Enroll!ReissueCA
  /\ UNCHANGED runs \/ \E m \in Machine, t \in Enroll!Token : Enroll!RunEnroll(m, t)
  /\ \/ UNCHANGED decision \/ Enroll!UpdateDeviceStatus
     \/ \E d \in Enroll!Device, s \in {"active", "blocked"} : Enroll!UpdateStatusChecks(d, s)

\* Every action is among those that may change what it changes.
LEMMA EnrollMovesStep == ASSUME Enroll!Next PROVE EnrollMoves
<1> USE DEF EnrollMoves, EnrollTokenMoves, EnrollStatusMoves, Enroll!devices,
   Enroll!machines, Enroll!past
<1>1. ASSUME NEW d \in Enroll!Device, Enroll!CreatePendingDevice(d) PROVE EnrollMoves
  BY <1>1 DEF Enroll!CreatePendingDevice
<1>2. ASSUME NEW d \in Enroll!Device, Enroll!DeleteDevice(d) PROVE EnrollMoves
  BY <1>2 DEF Enroll!DeleteDevice
<1>3. ASSUME NEW d \in Enroll!Device, NEW s \in {"active", "blocked"}, Enroll!UpdateStatusChecks(d, s)
      PROVE  EnrollMoves
  BY <1>3 DEF Enroll!UpdateStatusChecks
<1>4. ASSUME NEW t \in Enroll!Token, NEW d \in Enroll!Device, Enroll!CreateEnrollmentToken(t, d)
      PROVE  EnrollMoves
  BY <1>4 DEF Enroll!CreateEnrollmentToken
<1>5. ASSUME NEW t \in Enroll!Token, NEW d \in Enroll!Device, Enroll!ResetDeviceForReenroll(t, d)
      PROVE  EnrollMoves
  BY <1>5 DEF Enroll!ResetDeviceForReenroll
<1>6. ASSUME NEW m \in Machine, NEW d \in Enroll!Device, Enroll!MarkDeviceDecommissioned(m, d)
      PROVE  EnrollMoves
  BY <1>6 DEF Enroll!MarkDeviceDecommissioned
<1>7. CASE Enroll!UpdateDeviceStatus
  BY <1>7 DEF Enroll!UpdateDeviceStatus
<1>8. ASSUME NEW t \in Enroll!Token, Enroll!RevokeEnrollmentToken(t) PROVE EnrollMoves
  BY <1>8 DEF Enroll!RevokeEnrollmentToken
<1>9. ASSUME NEW t \in Enroll!Token, NEW a \in BOOLEAN, Enroll!IssueBulkEnrollmentToken(t, a)
      PROVE  EnrollMoves
  BY <1>9 DEF Enroll!IssueBulkEnrollmentToken
<1>10. ASSUME NEW S \in SUBSET Enroll!Device, Enroll!ApproveDevices(S) \/ Enroll!RejectDevices(S)
       PROVE  EnrollMoves
  BY <1>10 DEF Enroll!ApproveDevices, Enroll!RejectDevices
<1>11. CASE Enroll!ReissueCA
  BY <1>11 DEF Enroll!ReissueCA
<1>12. ASSUME NEW m \in Machine, Enroll!Connect(m) PROVE EnrollMoves
  BY <1>12 DEF Enroll!Connect
<1>13. ASSUME NEW m \in Machine, Enroll!UpsertDeviceHeartbeat(m) PROVE EnrollMoves
  BY <1>13 DEF Enroll!UpsertDeviceHeartbeat
<1>14. ASSUME NEW m \in Machine, Enroll!Disconnect(m) PROVE EnrollMoves
  BY <1>14 DEF Enroll!Disconnect
<1>15. ASSUME NEW m \in Machine, NEW t \in Enroll!Token, Enroll!RunEnroll(m, t) PROVE EnrollMoves
  BY <1>15 DEF Enroll!RunEnroll, EnrollRunMoves
<1>16. ASSUME NEW m \in Machine, Enroll!GetEnrollmentToken(m) PROVE EnrollMoves
  BY <1>16 DEF Enroll!GetEnrollmentToken, EnrollRunMoves
<1>17. ASSUME NEW m \in Machine, Enroll!EnrollDevice(m) PROVE EnrollMoves
  BY <1>17 DEF Enroll!EnrollDevice, EnrollRunMoves
<1>18. ASSUME NEW m \in Machine, Enroll!BeginBulkEnroll(m) PROVE EnrollMoves
  BY <1>18 DEF Enroll!BeginBulkEnroll, EnrollRunMoves
<1>19. ASSUME NEW m \in Machine, Enroll!FinalizeBulkEnroll(m) PROVE EnrollMoves
  BY <1>19 DEF Enroll!FinalizeBulkEnroll, EnrollRunMoves
<1>20. ASSUME NEW m \in Machine, Enroll!BulkNotCommitted(m) \/ Enroll!RequestFails(m) PROVE EnrollMoves
  BY <1>20 DEF Enroll!BulkNotCommitted, Enroll!RequestFails, EnrollRunMoves
<1>21. ASSUME NEW m \in Machine, EnrollFileMoves(m) PROVE EnrollMoves
  <2>1. /\ UNCHANGED <<status, fp, revoked, token, decision, conn, runs, stale>>
        /\ UNCHANGED <<waiting, retired, forced, newest, older>>
    BY <1>21 DEF EnrollFileMoves, Enroll!WriteKey, Enroll!WriteCert,
       Enroll!CopyCert, Enroll!CopyKey, Enroll!DropKey, Enroll!RunDies
  <2> QED
    BY <1>21, <2>1 DEF EnrollRunMoves
<1> QED
  BY <1>1, <1>2, <1>3, <1>4, <1>5, <1>6, <1>7, <1>8, <1>9, <1>10, <1>11, <1>12,
     <1>13,
     <1>14, <1>15, <1>16, <1>17, <1>18, <1>19, <1>20, <1>21 DEF Enroll!Next, EnrollFileMoves

-----------------------------------------------------------------------------
\* The groups of the types.
EnrollTokenRow ==
  [kind : {"none", "one", "bulk"}, dev : Enroll!Device \cup {Enroll!Nil}, uses : 0..MaxUses,
   used : BOOLEAN, dead : BOOLEAN, approval : BOOLEAN]
EnrollRunRow ==
  [pc : {"idle", "ask", "known", "begun", "key", "crt", "copycrt", "copykey", "drop"},
   tok : Enroll!Token \cup {Enroll!Nil}, dev : Enroll!Device \cup {Enroll!Nil},
   cert : Enroll!Cert \cup {Enroll!Nil}, approval : BOOLEAN, out : {"src", "dst"}]
EnrollPair == [key : 0..Enroll!Torn, crt : 0..Enroll!Torn]
EnrollDevices ==
  /\ status \in [Enroll!Device -> Enroll!Status]
  /\ fp \in [Enroll!Device -> Enroll!Cert \cup {Enroll!Nil}]
EnrollDecision == decision \in {None} \cup (Enroll!Device \X {"active", "blocked"})
EnrollTable == token \in [Enroll!Token -> EnrollTokenRow]
EnrollRuns == run \in [Machine -> EnrollRunRow]
EnrollPairs ==
  /\ src \in [Machine -> EnrollPair] /\ dst \in [Machine -> EnrollPair]
  /\ issued \in [Machine -> Enroll!Cert \cup {Enroll!Nil}]
EnrollCerts ==
  /\ conn \in [Machine -> Enroll!Cert \cup {Enroll!Nil}] /\ runs \in 0..MaxEnrolls
  /\ stale \subseteq Enroll!Cert /\ revoked \subseteq Enroll!Cert
EnrollPast ==
  /\ waiting \subseteq Enroll!Device /\ retired \subseteq Enroll!Device
  /\ forced \subseteq Enroll!Device /\ older \subseteq Enroll!Device
EnrollNewest == newest \in [Enroll!Device -> Enroll!Token \cup {Enroll!Nil}]

\* The type invariant, in the groups the steps are taken in.
LEMMA EnrollTypesAre ==
  Enroll!TypeOK <=> /\ EnrollDevices /\ EnrollDecision /\ EnrollTable /\ EnrollRuns
                    /\ EnrollPairs /\ EnrollCerts /\ EnrollPast /\ EnrollNewest
BY Zenon DEF Enroll!TypeOK, EnrollDevices, EnrollDecision, EnrollTable,
   EnrollRuns, EnrollPairs, EnrollCerts, EnrollPast, EnrollNewest,
   EnrollTokenRow, EnrollRunRow, EnrollPair

\* What the bounds make of the numbers.
LEMMA EnrollNumbers ==
  /\ MaxDevices \in Nat /\ MaxTokens \in Nat /\ MaxEnrolls \in Nat /\ MaxUses \in Nat
  /\ 1..MaxMade \subseteq Enroll!Device
  /\ Enroll!Nil \notin Enroll!Device /\ Enroll!Nil \notin Enroll!Token
  /\ Enroll!Nil \notin Enroll!Cert /\ Enroll!Torn \notin Enroll!Cert
  /\ Enroll!Cert \cup {Enroll!Nil, Enroll!Torn} = 0..Enroll!Torn
BY EnrollAssumption DEF Enroll!Device, Enroll!Token, Enroll!Cert, Enroll!Nil,
   Enroll!Torn

(* One step of a run of agent enroll.                                      *)
EnrollGoesOn(m, r) == r.tok = run[m].tok /\ r.cert = run[m].cert /\ r.out = run[m].out
EnrollBecomes(m, r) ==
  \/ \E t \in Enroll!Token :
       /\ Enroll!RunEnroll(m, t)
       /\ \/ r.pc = "copycrt" /\ Enroll!ReusableIdentity(m)
          \/ /\ r.pc = "ask" /\ r.tok = t /\ r.cert = runs + 1 /\ r.out = Enroll!Out(m)
             /\ token[t].kind # "none" /\ runs < MaxEnrolls
  \/ Enroll!GetEnrollmentToken(m) /\ r.pc = "known" /\ EnrollGoesOn(m, r) /\ r.dev = token[r.tok].dev
  \/ /\ Enroll!BeginBulkEnroll(m) /\ r.pc = "begun" /\ EnrollGoesOn(m, r)
     /\ r.dev \in Enroll!Device /\ status[r.dev] = "none"
     /\ status' = [status EXCEPT ![r.dev] = "pending"]
  \/ /\ Enroll!EnrollDevice(m) \/ Enroll!FinalizeBulkEnroll(m) \/ Enroll!BulkNotCommitted(m)
     /\ r.pc = "key" /\ EnrollGoesOn(m, r)
  \/ Enroll!WriteKey(m) /\ r.pc = "crt" /\ EnrollGoesOn(m, r)
  \/ Enroll!WriteCert(m) /\ r.pc = IF run[m].out = "dst" THEN "idle" ELSE "copycrt"
  \/ Enroll!CopyCert(m) /\ r.pc = "copykey"
  \/ Enroll!CopyKey(m) /\ r.pc = "drop"
  \/ (Enroll!RequestFails(m) \/ Enroll!DropKey(m) \/ Enroll!RunDies(m)) /\ r.pc = "idle"

\* A run that is over has the type of a run.
LEMMA EnrollIdle ==
  /\ Enroll!Idle \in EnrollRunRow /\ Enroll!Idle.pc = "idle"
BY DEF EnrollRunRow, Enroll!Idle

\* A step of a run leaves one of the known forms.
LEMMA EnrollRunIs ==
  ASSUME Enroll!TypeOK, NEW m \in Machine, EnrollRunMoves(m),
         run[m].pc \in {"ask", "known"} => run[m].tok \in Enroll!Token
  PROVE  \E r \in EnrollRunRow : run' = [run EXCEPT ![m] = r] /\ EnrollBecomes(m, r)
<1>0. EnrollRuns /\ EnrollTable /\ run[m] \in EnrollRunRow /\ DOMAIN run = Machine /\ runs \in 0..MaxEnrolls
  BY EnrollTypesAre DEF EnrollRuns, EnrollCerts
<1>1. ASSUME NEW p \in {"idle", "known", "begun", "key", "crt", "copycrt", "copykey", "drop"},
             run' = [run EXCEPT ![m].pc = p]
      PROVE  \E r \in EnrollRunRow :
               /\ run' = [run EXCEPT ![m] = r]
               /\ r.pc = p /\ EnrollGoesOn(m, r) /\ r.dev = run[m].dev
  <2> DEFINE r == [run[m] EXCEPT !.pc = p]
  <2>1. r \in EnrollRunRow /\ r.pc = p /\ r.dev = run[m].dev
        /\ r.tok = run[m].tok /\ r.cert = run[m].cert /\ r.out = run[m].out
    BY <1>0, <1>1 DEF EnrollRunRow
  <2>2. run' = [run EXCEPT ![m] = r]
    BY <1>0, <1>1
  <2> HIDE DEF r
  <2> QED
    BY <2>1, <2>2 DEF EnrollGoesOn
<1>2. ASSUME NEW t \in Enroll!Token, Enroll!RunEnroll(m, t)
      PROVE  \E r \in EnrollRunRow : run' = [run EXCEPT ![m] = r] /\ EnrollBecomes(m, r)
  <2>1. Enroll!Out(m) \in {"src", "dst"}
    BY DEF Enroll!Out
  <2>2. CASE Enroll!ReusableIdentity(m)
    <3> DEFINE r == [Enroll!Idle EXCEPT !.pc = "copycrt", !.out = Enroll!Out(m)]
    <3>1. r \in EnrollRunRow /\ r.pc = "copycrt"
      BY <2>1 DEF EnrollRunRow, Enroll!Idle
    <3>2. run' = [run EXCEPT ![m] = r]
      BY <1>2, <2>2 DEF Enroll!RunEnroll
    <3> HIDE DEF r
    <3> QED
      BY <1>2, <2>2, <3>1, <3>2 DEF EnrollBecomes
  <2>3. CASE ~Enroll!ReusableIdentity(m)
    <3> DEFINE r == [Enroll!Idle EXCEPT !.pc = "ask", !.tok = t, !.cert = runs + 1, !.out = Enroll!Out(m)]
    <3>1. runs < MaxEnrolls /\ runs' = runs + 1 /\ token[t].kind # "none"
      BY <1>2, <2>3 DEF Enroll!RunEnroll
    <3>2. runs + 1 \in Enroll!Cert
      BY <1>0, <3>1, EnrollNumbers DEF Enroll!Cert
    <3>3. r \in EnrollRunRow /\ r.pc = "ask" /\ r.tok = t /\ r.cert = runs + 1 /\ r.out = Enroll!Out(m)
      BY <2>1, <3>2 DEF EnrollRunRow, Enroll!Idle
    <3>4. run' = [run EXCEPT ![m] = r]
      BY <1>2, <2>3, <3>1 DEF Enroll!RunEnroll
    <3> HIDE DEF r
    <3> QED
      BY <1>2, <3>1, <3>3, <3>4 DEF EnrollBecomes
  <2> QED
    BY <2>2, <2>3
<1>3. CASE Enroll!GetEnrollmentToken(m)
  <2> DEFINE d == token[run[m].tok].dev
             r == [run[m] EXCEPT !.pc = "known", !.dev = d]
  <2>1. run[m].tok \in Enroll!Token /\ d \in Enroll!Device \cup {Enroll!Nil}
    BY <1>0, <1>3 DEF Enroll!GetEnrollmentToken, EnrollTable, EnrollTokenRow
  <2>2. run' = [run EXCEPT ![m] = r]
    BY <1>0, <1>3 DEF Enroll!GetEnrollmentToken
  <2>3. r \in EnrollRunRow /\ r.pc = "known" /\ r.dev = d
        /\ r.tok = run[m].tok /\ r.cert = run[m].cert /\ r.out = run[m].out
    BY <1>0, <2>1 DEF EnrollRunRow
  <2> HIDE DEF r
  <2> QED
    BY <1>3, <2>2, <2>3 DEF EnrollBecomes, EnrollGoesOn
<1>4. CASE Enroll!BeginBulkEnroll(m)
  <2>1. PICK d \in 1..MaxMade :
          /\ Enroll!IsNext(d) /\ status' = [status EXCEPT ![d] = "pending"]
          /\ run' = [run EXCEPT ![m].pc = "begun", ![m].dev = d, ![m].approval = token[run[m].tok].approval]
    BY <1>4 DEF Enroll!BeginBulkEnroll
  <2> DEFINE r == [run[m] EXCEPT !.pc = "begun", !.dev = d, !.approval = token[run[m].tok].approval]
  <2>2. token[run[m].tok].approval \in BOOLEAN /\ d \in Enroll!Device /\ status[d] = "none"
    BY <1>0, <1>4, <2>1, EnrollNumbers DEF Enroll!BeginBulkEnroll, EnrollTable,
       EnrollTokenRow, Enroll!IsNext
  <2>3. r \in EnrollRunRow /\ r.pc = "begun" /\ r.dev = d
        /\ r.tok = run[m].tok /\ r.cert = run[m].cert /\ r.out = run[m].out
    BY <1>0, <2>2 DEF EnrollRunRow
  <2>4. run' = [run EXCEPT ![m] = r]
    BY <1>0, <2>1
  <2> HIDE DEF r
  <2> QED
    BY <1>4, <2>1, <2>2, <2>3, <2>4 DEF EnrollBecomes, EnrollGoesOn
<1>5. CASE Enroll!EnrollDevice(m) \/ Enroll!FinalizeBulkEnroll(m) \/ Enroll!BulkNotCommitted(m)
  <2>1. run' = [run EXCEPT ![m].pc = "key"]
    BY <1>5 DEF Enroll!EnrollDevice, Enroll!FinalizeBulkEnroll, Enroll!BulkNotCommitted
  <2> QED
    BY <1>1, <1>5, <2>1 DEF EnrollBecomes
<1>6. CASE Enroll!RequestFails(m) \/ Enroll!DropKey(m) \/ Enroll!RunDies(m)
  <2>1. run' = [run EXCEPT ![m] = Enroll!Idle]
    BY <1>6 DEF Enroll!RequestFails, Enroll!DropKey, Enroll!RunDies
  <2> QED
    BY <1>6, <2>1, EnrollIdle DEF EnrollBecomes
<1>7. CASE Enroll!WriteKey(m)
  <2>1. run' = [run EXCEPT ![m].pc = "crt"]
    BY <1>7 DEF Enroll!WriteKey
  <2> QED
    BY <1>1, <1>7, <2>1 DEF EnrollBecomes
<1>8. CASE Enroll!WriteCert(m)
  <2>1. run' = [run EXCEPT ![m].pc = IF run[m].out = "dst" THEN "idle" ELSE "copycrt"]
    BY <1>8 DEF Enroll!WriteCert
  <2> QED
    BY <1>1, <1>8, <2>1 DEF EnrollBecomes
<1>9. CASE Enroll!CopyCert(m)
  <2>1. run' = [run EXCEPT ![m].pc = "copykey"]
    BY <1>9 DEF Enroll!CopyCert
  <2> QED
    BY <1>1, <1>9, <2>1 DEF EnrollBecomes
<1>10. CASE Enroll!CopyKey(m)
  <2>1. run' = [run EXCEPT ![m].pc = "drop"]
    BY <1>10 DEF Enroll!CopyKey
  <2> QED
    BY <1>1, <1>10, <2>1 DEF EnrollBecomes
<1> QED
  BY <1>2, <1>3, <1>4, <1>5, <1>6, <1>7, <1>8, <1>9, <1>10 DEF EnrollRunMoves,
     EnrollFileMoves

\* The runs keep their type, and one changes at a time.
LEMMA EnrollRunsStep ==
  ASSUME EnrollInv, Enroll!Next
  PROVE  /\ EnrollRuns'
         /\ \/ run' = run
            \/ \E m \in Machine, r \in EnrollRunRow :
                 EnrollRunMoves(m) /\ run' = [run EXCEPT ![m] = r] /\ EnrollBecomes(m, r)
<1>0. EnrollMoves /\ EnrollRuns /\ EnrollTokens /\ Enroll!TypeOK
  BY EnrollMovesStep, EnrollTypesAre DEF EnrollInv
<1>1. ASSUME NEW m \in Machine, EnrollRunMoves(m)
      PROVE  \E r \in EnrollRunRow : run' = [run EXCEPT ![m] = r] /\ EnrollBecomes(m, r)
  <2>1. run[m].pc \in {"ask", "known"} => run[m].tok \in Enroll!Token
    BY <1>0 DEF EnrollTokens
  <2> QED
    BY <1>0, <1>1, <2>1, EnrollRunIs
<1> QED
  BY <1>0, <1>1 DEF EnrollMoves, EnrollRuns

(* The tokens.                                                             *)
LEMMA EnrollTokenRows ==
  \A k \in EnrollTokenRow :
    /\ [k EXCEPT !.used = TRUE] \in EnrollTokenRow /\ [k EXCEPT !.used = TRUE].kind = k.kind
    /\ [k EXCEPT !.used = TRUE].dev = k.dev /\ [k EXCEPT !.used = TRUE].used = TRUE
    /\ [k EXCEPT !.dead = TRUE] \in EnrollTokenRow /\ [k EXCEPT !.dead = TRUE].kind = k.kind
    /\ [k EXCEPT !.dead = TRUE].dev = k.dev /\ [k EXCEPT !.dead = TRUE].used = k.used
    /\ \A n \in 0..MaxUses :
         /\ [k EXCEPT !.uses = n] \in EnrollTokenRow /\ [k EXCEPT !.uses = n].kind = k.kind
         /\ [k EXCEPT !.uses = n].dev = k.dev /\ [k EXCEPT !.uses = n].used = k.used
BY DEF EnrollTokenRow

\* A new token has the type of a token.
LEMMA EnrollBlank ==
  /\ \A d \in Enroll!Device :
       /\ [Enroll!Blank EXCEPT !.kind = "one", !.dev = d] \in EnrollTokenRow
       /\ [Enroll!Blank EXCEPT !.kind = "one", !.dev = d].kind = "one"
       /\ [Enroll!Blank EXCEPT !.kind = "one", !.dev = d].dev = d
  /\ \A a \in BOOLEAN :
       /\ [Enroll!Blank EXCEPT !.kind = "bulk", !.approval = a] \in EnrollTokenRow
       /\ [Enroll!Blank EXCEPT !.kind = "bulk", !.approval = a].kind = "bulk"
       /\ [Enroll!Blank EXCEPT !.kind = "bulk", !.approval = a].dev = Enroll!Nil
  /\ Enroll!Blank \in EnrollTokenRow /\ Enroll!Blank.dev = Enroll!Nil /\ Enroll!Blank.kind = "none"
<1>0. 0 \in 0..MaxUses
  BY EnrollNumbers
<1>1. ASSUME NEW d \in Enroll!Device
      PROVE  /\ [Enroll!Blank EXCEPT !.kind = "one", !.dev = d] \in EnrollTokenRow
             /\ [Enroll!Blank EXCEPT !.kind = "one", !.dev = d].kind = "one"
             /\ [Enroll!Blank EXCEPT !.kind = "one", !.dev = d].dev = d
  BY <1>0 DEF EnrollTokenRow, Enroll!Blank
<1>2. ASSUME NEW a \in BOOLEAN
      PROVE  /\ [Enroll!Blank EXCEPT !.kind = "bulk", !.approval = a] \in EnrollTokenRow
             /\ [Enroll!Blank EXCEPT !.kind = "bulk", !.approval = a].kind = "bulk"
             /\ [Enroll!Blank EXCEPT !.kind = "bulk", !.approval = a].dev = Enroll!Nil
  BY <1>0 DEF EnrollTokenRow, Enroll!Blank
<1>3. Enroll!Blank \in EnrollTokenRow /\ Enroll!Blank.dev = Enroll!Nil /\ Enroll!Blank.kind = "none"
  BY <1>0 DEF EnrollTokenRow, Enroll!Blank
<1> QED
  BY <1>1, <1>2, <1>3

\* A row of the table stays the token it was and stays used, or is new.
EnrollTokenKept(t) ==
  /\ token'[t] \in EnrollTokenRow
  /\ token[t].kind # "none" =>
       token'[t].kind = token[t].kind /\ token'[t].dev = token[t].dev /\ (token[t].used => token'[t].used)

\* Using up the tokens of a device leaves them what they were.
LEMMA EnrollUsedUp ==
  ASSUME EnrollTable, NEW d
  PROVE  \A t \in Enroll!Token :
           /\ Enroll!UseUp(d)[t] \in EnrollTokenRow /\ Enroll!UseUp(d)[t].kind = token[t].kind
           /\ Enroll!UseUp(d)[t].dev = token[t].dev
           /\ token[t].used => Enroll!UseUp(d)[t].used
           /\ token[t].dev = d => Enroll!UseUp(d)[t].used
<1> SUFFICES ASSUME NEW t \in Enroll!Token
             PROVE  /\ Enroll!UseUp(d)[t] \in EnrollTokenRow /\ Enroll!UseUp(d)[t].kind = token[t].kind
                    /\ Enroll!UseUp(d)[t].dev = token[t].dev
                    /\ token[t].used => Enroll!UseUp(d)[t].used
                    /\ token[t].dev = d => Enroll!UseUp(d)[t].used
  OBVIOUS
<1>1. token[t] \in EnrollTokenRow
  BY DEF EnrollTable
<1>2. CASE token[t].dev = d
  <2>1. Enroll!UseUp(d)[t] = [token[t] EXCEPT !.used = TRUE]
    BY <1>2 DEF Enroll!UseUp
  <2>2. /\ [token[t] EXCEPT !.used = TRUE] \in EnrollTokenRow
        /\ [token[t] EXCEPT !.used = TRUE].kind = token[t].kind
        /\ [token[t] EXCEPT !.used = TRUE].dev = token[t].dev /\ [token[t] EXCEPT !.used = TRUE].used
    BY <1>1 DEF EnrollTokenRow
  <2> QED
    BY <2>1, <2>2
<1>3. CASE token[t].dev # d
  <2>1. Enroll!UseUp(d)[t] = token[t]
    BY <1>3 DEF Enroll!UseUp
  <2> QED
    BY <1>1, <1>3, <2>1
<1> QED
  BY <1>2, <1>3

\* The table of tokens keeps its type, and a token its device.
LEMMA EnrollTokenStep ==
  ASSUME EnrollInv, Enroll!Next
  PROVE  EnrollTable' /\ \A t \in Enroll!Token : EnrollTokenKept(t)
<1>0. EnrollMoves /\ EnrollTable /\ EnrollTokens /\ EnrollRuns /\ DOMAIN token = Enroll!Token
  BY EnrollMovesStep, EnrollTypesAre DEF EnrollInv, EnrollTable
<1>1. ASSUME NEW t \in Enroll!Token, NEW k \in EnrollTokenRow, token' = [token EXCEPT ![t] = k],
             token[t].kind # "none" =>
               k.kind = token[t].kind /\ k.dev = token[t].dev /\ (token[t].used => k.used)
      PROVE  EnrollTable' /\ \A u \in Enroll!Token : EnrollTokenKept(u)
  BY <1>0, <1>1 DEF EnrollTable, EnrollTokenKept
<1>2. ASSUME NEW f, NEW x, NEW k \in EnrollTokenRow, token' = [f EXCEPT ![x] = k],
             x \in Enroll!Token => token[x].kind = "none",
             DOMAIN f = Enroll!Token,
             \A u \in Enroll!Token :
               /\ f[u] \in EnrollTokenRow /\ f[u].kind = token[u].kind /\ f[u].dev = token[u].dev
               /\ token[u].used => f[u].used
      PROVE  EnrollTable' /\ \A u \in Enroll!Token : EnrollTokenKept(u)
  BY <1>0, <1>2 DEF EnrollTable, EnrollTokenKept
<1>3. CASE token' = token
  BY <1>0, <1>3 DEF EnrollTable, EnrollTokenKept
<1>4. ASSUME NEW t \in Enroll!Token, NEW d \in Enroll!Device, Enroll!CreateEnrollmentToken(t, d)
      PROVE  EnrollTable' /\ \A u \in Enroll!Token : EnrollTokenKept(u)
  <2>1. token[t].kind = "none" /\ token' = [token EXCEPT ![t] = [Enroll!Blank EXCEPT !.kind = "one", !.dev = d]]
    BY <1>4 DEF Enroll!CreateEnrollmentToken, Enroll!NextToken, Enroll!AddToken
  <2> QED
    BY <1>1, <2>1, EnrollBlank
<1>5. ASSUME NEW t \in Enroll!Token, NEW d \in Enroll!Device, Enroll!ResetDeviceForReenroll(t, d)
      PROVE  EnrollTable' /\ \A u \in Enroll!Token : EnrollTokenKept(u)
  <2>1. /\ token[t].kind = "none"
        /\ \/ token' = Enroll!UseUp(d)
           \/ token' = [Enroll!UseUp(d) EXCEPT ![t] = [Enroll!Blank EXCEPT !.kind = "one", !.dev = d]]
    BY <1>5 DEF Enroll!ResetDeviceForReenroll, Enroll!NextToken
  <2>2. DOMAIN Enroll!UseUp(d) = Enroll!Token /\ Enroll!UseUp(d) = [u \in Enroll!Token |-> Enroll!UseUp(d)[u]]
    BY DEF Enroll!UseUp
  <2>3. CASE token' = Enroll!UseUp(d)
    BY <1>0, <2>2, <2>3, EnrollUsedUp DEF EnrollTable, EnrollTokenKept
  <2>4. CASE token' = [Enroll!UseUp(d) EXCEPT ![t] = [Enroll!Blank EXCEPT !.kind = "one", !.dev = d]]
    <3>1. [Enroll!Blank EXCEPT !.kind = "one", !.dev = d] \in EnrollTokenRow
      BY EnrollBlank
    <3>2. \A u \in Enroll!Token :
               /\ Enroll!UseUp(d)[u] \in EnrollTokenRow /\ Enroll!UseUp(d)[u].kind = token[u].kind
               /\ Enroll!UseUp(d)[u].dev = token[u].dev
               /\ token[u].used => Enroll!UseUp(d)[u].used
      BY <1>0, EnrollUsedUp
    <3> QED
      BY <1>2, <2>1, <2>2, <2>4, <3>1, <3>2
  <2> QED
    BY <2>1, <2>3, <2>4
<1>6. ASSUME NEW t \in Enroll!Token, Enroll!RevokeEnrollmentToken(t)
      PROVE  EnrollTable' /\ \A u \in Enroll!Token : EnrollTokenKept(u)
  <2>1. token' = [token EXCEPT ![t] = [token[t] EXCEPT !.dead = TRUE]] /\ token[t] \in EnrollTokenRow
    BY <1>0, <1>6 DEF Enroll!RevokeEnrollmentToken, EnrollTable
  <2> QED
    BY <1>1, <2>1, EnrollTokenRows
<1>7. ASSUME NEW t \in Enroll!Token, NEW a \in BOOLEAN, Enroll!IssueBulkEnrollmentToken(t, a)
      PROVE  EnrollTable' /\ \A u \in Enroll!Token : EnrollTokenKept(u)
  <2>1. token[t].kind = "none" /\ token' = [token EXCEPT ![t] = [Enroll!Blank EXCEPT !.kind = "bulk", !.approval = a]]
    BY <1>7 DEF Enroll!IssueBulkEnrollmentToken, Enroll!NextToken
  <2> QED
    BY <1>1, <2>1, EnrollBlank
<1>8. ASSUME NEW d \in Enroll!Device, Enroll!DeleteDevice(d)
      PROVE  EnrollTable' /\ \A u \in Enroll!Token : EnrollTokenKept(u)
  <2>1. token' = [t \in Enroll!Token |-> IF token[t].dev = d THEN [token[t] EXCEPT !.dead = TRUE, !.used = TRUE]
                                         ELSE token[t]]
    BY <1>8 DEF Enroll!DeleteDevice
  <2>2. ASSUME NEW u \in Enroll!Token PROVE EnrollTokenKept(u)
    <3>1. token[u] \in EnrollTokenRow
      BY <1>0 DEF EnrollTable
    <3>2. CASE token[u].dev = d
      <4>1. token'[u] = [token[u] EXCEPT !.dead = TRUE, !.used = TRUE]
        BY <2>1, <3>2
      <4> QED
        BY <3>1, <4>1 DEF EnrollTokenKept, EnrollTokenRow
    <3>3. CASE token[u].dev # d
      BY <2>1, <3>1, <3>3 DEF EnrollTokenKept
    <3> QED
      BY <3>2, <3>3
  <2>3. EnrollTable'
    BY <2>1, <2>2 DEF EnrollTable, EnrollTokenKept
  <2> QED
    BY <2>2, <2>3
<1>9. ASSUME NEW m \in Machine, Enroll!EnrollDevice(m) \/ Enroll!BeginBulkEnroll(m)
      PROVE  EnrollTable' /\ \A u \in Enroll!Token : EnrollTokenKept(u)
  <2> DEFINE t == run[m].tok
  <2>1. t \in Enroll!Token
    BY <1>0, <1>9 DEF EnrollTokens, Enroll!EnrollDevice, Enroll!BeginBulkEnroll
  <2>2. token[t] \in EnrollTokenRow
    BY <1>0, <2>1 DEF EnrollTable
  <2>3. CASE Enroll!EnrollDevice(m)
    <3>1. token' = [token EXCEPT ![t] = [token[t] EXCEPT !.used = TRUE]]
      BY <1>0, <2>3 DEF Enroll!EnrollDevice
    <3> HIDE DEF t
    <3> QED
      BY <1>1, <2>1, <2>2, <3>1, EnrollTokenRows
  <2>4. CASE Enroll!BeginBulkEnroll(m)
    <3>1. token' = [token EXCEPT ![t] = [token[t] EXCEPT !.uses = token[t].uses + 1]] /\ token[t].uses < MaxUses
      BY <1>0, <2>4 DEF Enroll!BeginBulkEnroll
    <3>2. token[t].uses + 1 \in 0..MaxUses
      <4>1. token[t].uses \in 0..MaxUses /\ MaxUses \in Nat
        BY <2>2, EnrollNumbers DEF EnrollTokenRow
      <4> QED
        BY <3>1, <4>1
    <3> HIDE DEF t
    <3> QED
      BY <1>1, <2>1, <2>2, <3>1, <3>2, EnrollTokenRows
  <2> QED
    BY <1>9, <2>3, <2>4
<1> QED
  BY <1>0, <1>3, <1>4, <1>5, <1>6, <1>7, <1>8, <1>9 DEF EnrollMoves,
     EnrollTokenMoves

\* Row t becomes the token of device d, and the device's others are used up.
EnrollFresh(t, d) ==
  /\ token[t].kind = "none" /\ newest' = [newest EXCEPT ![d] = t]
  /\ token'[t].kind = "one" /\ token'[t].dev = d
  /\ \A u \in Enroll!Token \ {t} :
       /\ token'[u].kind = token[u].kind /\ token'[u].dev = token[u].dev
       /\ token[u].used => token'[u].used
       /\ token[u].dev = d => token'[u].used

\* An unused token stays the newest of its device.
LEMMA EnrollNewestStep ==
  ASSUME EnrollInv, Enroll!Next
  PROVE  /\ EnrollNewest'
         /\ \A t \in Enroll!Token : token'[t].dev # Enroll!Nil =>
              token'[t].kind = "one" /\ (~token'[t].used => newest'[token'[t].dev] = t)
<1> DEFINE Goal == /\ EnrollNewest'
                   /\ \A t \in Enroll!Token : token'[t].dev # Enroll!Nil =>
                        token'[t].kind = "one" /\ (~token'[t].used => newest'[token'[t].dev] = t)
<1>0. /\ EnrollMoves /\ EnrollTable /\ EnrollTokens /\ EnrollNewest /\ EnrollTable'
      /\ \A t \in Enroll!Token : EnrollTokenKept(t)
  BY EnrollMovesStep, EnrollTypesAre, EnrollTokenStep DEF EnrollInv
<1>1. ASSUME newest' = newest,
             \A u \in Enroll!Token : token[u].kind = "none" => token'[u] = token[u] \/ token'[u].dev = Enroll!Nil
      PROVE  Goal
  BY <1>0, <1>1 DEF EnrollTokens, EnrollTokenKept, EnrollNewest
<1>2. ASSUME NEW t \in Enroll!Token, NEW d \in Enroll!Device, EnrollFresh(t, d)
      PROVE  Goal
  <2>1. EnrollNewest'
    BY <1>0, <1>2 DEF EnrollNewest, EnrollFresh
  <2>3. newest'[d] = t /\ \A e \in Enroll!Device \ {d} : newest'[e] = newest[e]
    BY <1>0, <1>2 DEF EnrollNewest, EnrollFresh
  <2>4. \A u \in Enroll!Token : token[u].dev \in Enroll!Device \cup {Enroll!Nil}
    BY <1>0 DEF EnrollTable, EnrollTokenRow
  <2>5. ASSUME NEW u \in Enroll!Token \ {t}, token'[u].dev # Enroll!Nil
        PROVE  token'[u].kind = "one" /\ (~token'[u].used => newest'[token'[u].dev] = u)
    BY <1>0, <1>2, <2>3, <2>4, <2>5 DEF EnrollTokens, EnrollFresh
  <2>6. token'[t].kind = "one" /\ token'[t].dev = d
    BY <1>2 DEF EnrollFresh
  <2> QED
    BY <2>1, <2>3, <2>5, <2>6
<1>3. ASSUME NEW t \in Enroll!Token, NEW d \in Enroll!Device, Enroll!CreateEnrollmentToken(t, d) PROVE Goal
  <2>1. /\ token[t].kind = "none" /\ newest[d] = Enroll!Nil /\ newest' = [newest EXCEPT ![d] = t]
        /\ token' = [token EXCEPT ![t] = [Enroll!Blank EXCEPT !.kind = "one", !.dev = d]]
    BY <1>3 DEF Enroll!CreateEnrollmentToken, Enroll!NextToken, Enroll!AddToken
  <2>2. \A u \in Enroll!Token : token[u].dev = d => token[u].used = TRUE
    <3>1. ASSUME NEW u \in Enroll!Token, token[u].dev = d, ~token[u].used PROVE FALSE
      BY <1>0, <2>1, <3>1, EnrollNumbers DEF EnrollTokens
    <3>2. \A u \in Enroll!Token : token[u].used \in BOOLEAN
      BY <1>0 DEF EnrollTable, EnrollTokenRow
    <3> QED
      BY <3>1, <3>2
  <2>3. token'[t] = [Enroll!Blank EXCEPT !.kind = "one", !.dev = d] /\ \A u \in Enroll!Token \ {t} : token'[u] = token[u]
    BY <1>0, <2>1 DEF EnrollTable
  <2>4. \A u \in Enroll!Token \ {t} :
          /\ token'[u].kind = token[u].kind /\ token'[u].dev = token[u].dev
          /\ token[u].used => token'[u].used
          /\ token[u].dev = d => token'[u].used
    BY <2>2, <2>3
  <2>5. token'[t].kind = "one" /\ token'[t].dev = d
    <3>1. /\ [Enroll!Blank EXCEPT !.kind = "one", !.dev = d].kind = "one"
          /\ [Enroll!Blank EXCEPT !.kind = "one", !.dev = d].dev = d
      BY EnrollBlank, Zenon
    <3> QED
      BY <2>3, <3>1, Zenon
  <2>6. token[t].kind = "none" /\ newest' = [newest EXCEPT ![d] = t]
    BY <2>1, Zenon
  <2>7. EnrollFresh(t, d)
    BY <2>4, <2>5, <2>6 DEF EnrollFresh
  <2> QED
    BY <1>2, <2>7
<1>4. ASSUME NEW t \in Enroll!Token, NEW d \in Enroll!Device, Enroll!ResetDeviceForReenroll(t, d) PROVE Goal
  <2>1. /\ token[t].kind = "none"
        /\ \/ token' = Enroll!UseUp(d) /\ newest' = newest
           \/ /\ token' = [Enroll!UseUp(d) EXCEPT ![t] = [Enroll!Blank EXCEPT !.kind = "one", !.dev = d]]
              /\ newest' = [newest EXCEPT ![d] = t]
    BY <1>4 DEF Enroll!ResetDeviceForReenroll, Enroll!NextToken
  <2>2. DOMAIN Enroll!UseUp(d) = Enroll!Token /\ Enroll!UseUp(d) = [u \in Enroll!Token |-> Enroll!UseUp(d)[u]]
    BY DEF Enroll!UseUp
  <2>3. \A u \in Enroll!Token :
           /\ Enroll!UseUp(d)[u].kind = token[u].kind /\ Enroll!UseUp(d)[u].dev = token[u].dev
           /\ token[u].used => Enroll!UseUp(d)[u].used
           /\ token[u].dev = d => Enroll!UseUp(d)[u].used
    BY <1>0, EnrollUsedUp
  <2>4. CASE token' = Enroll!UseUp(d) /\ newest' = newest
    <3>1. \A u \in Enroll!Token : token[u].kind = "none" => token[u].dev = Enroll!Nil
      BY <1>0 DEF EnrollTokens
    <3> QED
      BY <1>1, <2>3, <2>4, <3>1
  <2>5. CASE /\ token' = [Enroll!UseUp(d) EXCEPT ![t] = [Enroll!Blank EXCEPT !.kind = "one", !.dev = d]]
             /\ newest' = [newest EXCEPT ![d] = t]
    <3>1. /\ token'[t] = [Enroll!Blank EXCEPT !.kind = "one", !.dev = d]
          /\ \A u \in Enroll!Token \ {t} : token'[u] = Enroll!UseUp(d)[u]
      BY <2>2, <2>5
    <3>2. \A u \in Enroll!Token \ {t} :
            /\ token'[u].kind = token[u].kind /\ token'[u].dev = token[u].dev
            /\ token[u].used => token'[u].used
            /\ token[u].dev = d => token'[u].used
      BY <2>3, <3>1
    <3>3. token'[t].kind = "one" /\ token'[t].dev = d
      <4>1. /\ [Enroll!Blank EXCEPT !.kind = "one", !.dev = d].kind = "one"
            /\ [Enroll!Blank EXCEPT !.kind = "one", !.dev = d].dev = d
        BY EnrollBlank, Zenon
      <4> QED
        BY <3>1, <4>1, Zenon
    <3>4. token[t].kind = "none" /\ newest' = [newest EXCEPT ![d] = t]
      BY <2>1, <2>5, Zenon
    <3>5. EnrollFresh(t, d)
      BY <3>2, <3>3, <3>4 DEF EnrollFresh
    <3> QED
      BY <1>2, <3>5
  <2> QED
    BY <2>1, <2>4, <2>5
<1>5. ASSUME NEW t \in Enroll!Token, Enroll!RevokeEnrollmentToken(t) PROVE Goal
  <2>1. token[t].kind # "none" /\ newest' = newest /\ \E x : token' = [token EXCEPT ![t] = x]
    BY <1>5 DEF Enroll!RevokeEnrollmentToken, Enroll!past
  <2> QED
    BY <1>0, <1>1, <2>1 DEF EnrollTable
<1>6. ASSUME NEW t \in Enroll!Token, NEW a \in BOOLEAN, Enroll!IssueBulkEnrollmentToken(t, a) PROVE Goal
  <2>1. newest' = newest /\ token' = [token EXCEPT ![t] = [Enroll!Blank EXCEPT !.kind = "bulk", !.approval = a]]
    BY <1>6 DEF Enroll!IssueBulkEnrollmentToken, Enroll!past
  <2>2. [Enroll!Blank EXCEPT !.kind = "bulk", !.approval = a].dev = Enroll!Nil
    BY EnrollBlank
  <2>3. \A u \in Enroll!Token : token'[u] = token[u] \/ token'[u].dev = Enroll!Nil
    BY <1>0, <2>1, <2>2 DEF EnrollTable
  <2> QED
    BY <1>1, <2>1, <2>3
<1>7. ASSUME NEW d \in Enroll!Device, Enroll!DeleteDevice(d) PROVE Goal
  <2>1. /\ newest' = newest
        /\ token' = [t \in Enroll!Token |-> IF token[t].dev = d THEN [token[t] EXCEPT !.dead = TRUE, !.used = TRUE]
                                            ELSE token[t]]
    BY <1>7 DEF Enroll!DeleteDevice, Enroll!past
  <2>2. \A u \in Enroll!Token : token[u].kind = "none" => token[u].dev # d
    BY <1>0, EnrollNumbers DEF EnrollTokens
  <2> QED
    BY <1>1, <2>1, <2>2
<1>8. ASSUME NEW m \in Machine, Enroll!EnrollDevice(m) \/ Enroll!BeginBulkEnroll(m) PROVE Goal
  <2>1. /\ newest' = newest /\ run[m].pc = "known"
        /\ \E x : token' = [token EXCEPT ![run[m].tok] = x]
    BY <1>8 DEF Enroll!EnrollDevice, Enroll!BeginBulkEnroll, Enroll!past
  <2>2. token[run[m].tok].kind # "none"
    BY <1>0, <2>1 DEF EnrollTokens
  <2> QED
    BY <1>0, <1>1, <2>1, <2>2 DEF EnrollTable
<1>9. CASE UNCHANGED <<token, newest>>
  BY <1>1, <1>9
<1> QED
  BY <1>0, <1>3, <1>4, <1>5, <1>6, <1>7, <1>8, <1>9 DEF EnrollMoves,
     EnrollTokenMoves

\* What a run has read of its token stays true, so that the token it
\* uses up is the newest.
LEMMA EnrollTokensStep == ASSUME EnrollInv, Enroll!Next PROVE EnrollTokens'
<1>0. /\ EnrollMoves /\ EnrollTokens /\ EnrollRuns /\ EnrollTable
      /\ \A t \in Enroll!Token : EnrollTokenKept(t)
  BY EnrollMovesStep, EnrollTypesAre, EnrollTokenStep DEF EnrollInv
<1>1. older' = {}
  <2>1. ASSUME NEW m \in Machine, Enroll!EnrollDevice(m) PROVE older' = {}
    <3>1. /\ run[m].pc = "known" /\ run[m].dev # Enroll!Nil /\ ~token[run[m].tok].used
          /\ older' = IF run[m].tok = newest[run[m].dev] THEN older ELSE older \cup {run[m].dev}
      BY <2>1 DEF Enroll!EnrollDevice
    <3>2. run[m].tok = newest[run[m].dev]
      BY <1>0, <3>1 DEF EnrollTokens
    <3> QED
      BY <1>0, <3>1, <3>2 DEF EnrollTokens
  <2> QED
    BY <1>0, <2>1 DEF EnrollMoves, EnrollTokens
<1>2. ASSUME NEW n \in Machine, run'[n].pc \in {"ask", "known"}
      PROVE  /\ run'[n].tok \in Enroll!Token /\ token'[run'[n].tok].kind # "none"
             /\ run'[n].pc = "known" => run'[n].dev = token'[run'[n].tok].dev
  <2>1. CASE run'[n] = run[n]
    BY <1>0, <1>2, <2>1 DEF EnrollTokens, EnrollTokenKept
  <2>2. ASSUME NEW m \in Machine, NEW r \in EnrollRunRow, run' = [run EXCEPT ![m] = r], EnrollBecomes(m, r),
               run'[n] # run[n]
        PROVE  /\ run'[n].tok \in Enroll!Token /\ token'[run'[n].tok].kind # "none"
               /\ run'[n].pc = "known" => run'[n].dev = token'[run'[n].tok].dev
    <3>1. m = n /\ run'[n] = r
      BY <1>0, <2>2 DEF EnrollRuns
    <3>2. CASE r.pc = "ask"
      <4>1. r.tok \in Enroll!Token /\ token[r.tok].kind # "none"
        BY <2>2, <3>2 DEF EnrollBecomes
      <4> QED
        BY <1>0, <3>1, <3>2, <4>1 DEF EnrollTokenKept
    <3>3. CASE r.pc = "known"
      <4>1. run[m].pc = "ask" /\ r.tok = run[m].tok /\ r.dev = token[r.tok].dev
        BY <2>2, <3>3 DEF EnrollBecomes, EnrollGoesOn,
           Enroll!GetEnrollmentToken
      <4>2. r.tok \in Enroll!Token /\ token[r.tok].kind # "none"
        BY <1>0, <4>1 DEF EnrollTokens
      <4> QED
        BY <1>0, <3>1, <4>1, <4>2 DEF EnrollTokenKept
    <3> QED
      BY <1>2, <3>1, <3>2, <3>3
  <2> QED
    BY <2>1, <2>2, EnrollRunsStep
<1> QED
  BY <1>1, <1>2, EnrollNewestStep DEF EnrollTokens
(* The status of the devices.                                              *)
EnrollHeld(d) ==
  /\ d \in waiting => status[d] # "none"
  /\ d \notin forced =>
       /\ d \in waiting => status[d] \in {"pending_approval", "rejected", "decommissioned", "deleted"}
       /\ d \in retired => status[d] \in {"decommissioned", "deleted"}

\* The statuses, device by device.
LEMMA EnrollHeldAre ==
  ASSUME EnrollPast PROVE EnrollStatus <=> \A d \in Enroll!Device : EnrollHeld(d)
BY DEF EnrollPast, EnrollStatus, EnrollHeld, Enroll!NotReadmitted

\* No write but the exempt ones lets a device go that is held.
LEMMA EnrollStatusStep ==
  ASSUME EnrollInv, Enroll!Next
  PROVE  /\ status' \in [Enroll!Device -> Enroll!Status] /\ EnrollPast'
         /\ \A d \in Enroll!Device : EnrollHeld(d)' /\ (status[d] # "none" => status'[d] # "none")
<1> DEFINE Goal == /\ status' \in [Enroll!Device -> Enroll!Status] /\ EnrollPast'
                   /\ \A d \in Enroll!Device : EnrollHeld(d)' /\ (status[d] # "none" => status'[d] # "none")
<1>0. /\ EnrollMoves /\ EnrollDevices /\ EnrollPast /\ EnrollDecision /\ EnrollBegun /\ EnrollTokens
      /\ EnrollTable
      /\ \A d \in Enroll!Device : EnrollHeld(d)
      /\ status \in [Enroll!Device -> Enroll!Status]
  BY EnrollMovesStep, EnrollTypesAre, EnrollHeldAre DEF EnrollInv,
     EnrollDevices
<1>1. older' \subseteq Enroll!Device
  BY EnrollTokensStep DEF EnrollTokens
<1>2. CASE UNCHANGED <<status, waiting, retired, forced>>
  BY <1>0, <1>1, <1>2 DEF EnrollPast, EnrollHeld
\* One device gets a status, from one that lets it go.
<1>3. ASSUME NEW d \in Enroll!Device, NEW s \in Enroll!Status \ {"none"}, status' = [status EXCEPT ![d] = s],
             UNCHANGED <<waiting, retired, forced>>,
             \/ status[d] \notin {"pending_approval", "rejected", "decommissioned", "deleted"}
             \/ s = "deleted"
      PROVE  Goal
  BY <1>0, <1>1, <1>3 DEF EnrollPast, EnrollHeld
<1>4. ASSUME NEW d \in Enroll!Device, Enroll!CreatePendingDevice(d) PROVE Goal
  <2>1. /\ status[d] = "none" /\ status' = [status EXCEPT ![d] = "pending"]
        /\ UNCHANGED <<waiting, retired, forced>>
    BY <1>4 DEF Enroll!CreatePendingDevice, Enroll!IsNext, Enroll!past
  <2>2. "pending" \in Enroll!Status \ {"none"}
    BY DEF Enroll!Status
  <2> QED
    BY <1>3, <2>1, <2>2
<1>5. ASSUME NEW d \in Enroll!Device, Enroll!DeleteDevice(d) PROVE Goal
  <2>1. status' = [status EXCEPT ![d] = "deleted"] /\ UNCHANGED <<waiting, retired, forced>>
    BY <1>5 DEF Enroll!DeleteDevice, Enroll!past
  <2>2. "deleted" \in Enroll!Status \ {"none"}
    BY DEF Enroll!Status
  <2> QED
    BY <1>3, <2>1, <2>2
<1>6. ASSUME NEW t \in Enroll!Token, NEW d \in Enroll!Device, Enroll!ResetDeviceForReenroll(t, d) PROVE Goal
  <2>1. /\ UNCHANGED <<waiting, retired, forced>>
        /\ \/ status' = status
           \/ /\ status' = [status EXCEPT ![d] = "pending"]
              /\ status[d] \notin {"pending_approval", "rejected", "decommissioned", "deleted"}
    BY <1>6 DEF Enroll!ResetDeviceForReenroll, Enroll!NotEnrollable
  <2>2. "pending" \in Enroll!Status \ {"none"}
    BY DEF Enroll!Status
  <2> QED
    BY <1>2, <1>3, <2>1, <2>2
<1>7. ASSUME NEW m \in Machine, NEW d \in Enroll!Device, Enroll!MarkDeviceDecommissioned(m, d) PROVE Goal
  <2>1. /\ status' = [status EXCEPT ![d] = "decommissioned"] /\ retired' = retired \cup {d}
        /\ UNCHANGED <<waiting, forced>>
    BY <1>7 DEF Enroll!MarkDeviceDecommissioned
  <2> QED
    BY <1>0, <1>1, <2>1 DEF EnrollPast, EnrollHeld, Enroll!Status
<1>8. CASE Enroll!UpdateDeviceStatus
  <2>1. decision[1] \in Enroll!Device /\ decision[2] \in {"active", "blocked"}
    BY <1>0, <1>8 DEF Enroll!UpdateDeviceStatus, EnrollDecision
  <2>2. waiting' = waiting /\ retired' = retired
    BY <1>8 DEF Enroll!UpdateDeviceStatus
  <2>3. CASE status[decision[1]] = "deleted"
    BY <1>2, <1>8, <2>2, <2>3 DEF Enroll!UpdateDeviceStatus
  <2>4. CASE status[decision[1]] # "deleted"
    <3>1. /\ status' = [status EXCEPT ![decision[1]] = decision[2]]
          /\ forced' = Enroll!Overwrites(decision[1])
      BY <1>8, <2>4 DEF Enroll!UpdateDeviceStatus
    <3>2. CASE status[decision[1]] \in {"pending_approval", "rejected", "decommissioned"}
      <4>1. forced' = forced \cup {decision[1]}
        BY <3>1, <3>2 DEF Enroll!Overwrites
      <4> QED
        BY <1>0, <1>1, <2>1, <2>2, <3>1, <4>1 DEF EnrollPast, EnrollHeld,
           Enroll!Status
    <3>3. CASE status[decision[1]] \notin {"pending_approval", "rejected", "decommissioned"}
      <4>1. forced' = forced
        BY <3>1, <3>3 DEF Enroll!Overwrites
      <4>2. decision[2] \in Enroll!Status \ {"none"}
        BY <2>1 DEF Enroll!Status
      <4> QED
        BY <1>3, <2>1, <2>2, <2>4, <3>1, <3>3, <4>1, <4>2
    <3> QED
      BY <3>2, <3>3
  <2> QED
    BY <2>3, <2>4
<1>9. ASSUME NEW S \in SUBSET Enroll!Device, Enroll!ApproveDevices(S) PROVE Goal
  <2>1. /\ \A d \in S : status[d] = "pending_approval"
        /\ status' = [d \in Enroll!Device |-> IF d \in S THEN "active" ELSE status[d]]
        /\ waiting' = waiting \ S /\ UNCHANGED <<retired, forced>>
    BY <1>9 DEF Enroll!ApproveDevices
  <2> QED
    BY <1>0, <1>1, <2>1 DEF EnrollPast, EnrollHeld, Enroll!Status
<1>10. ASSUME NEW S \in SUBSET Enroll!Device, Enroll!RejectDevices(S) PROVE Goal
  <2>1. /\ \A d \in S : status[d] = "pending_approval"
        /\ status' = [d \in Enroll!Device |-> IF d \in S THEN "rejected" ELSE status[d]]
        /\ UNCHANGED <<waiting, retired, forced>>
    BY <1>10 DEF Enroll!RejectDevices, Enroll!past
  <2> QED
    BY <1>0, <1>1, <2>1 DEF EnrollPast, EnrollHeld, Enroll!Status
<1>11. ASSUME NEW m \in Machine, Enroll!UpsertDeviceHeartbeat(m) PROVE Goal
  <2>1. UNCHANGED <<waiting, retired, forced>>
    BY <1>11 DEF Enroll!UpsertDeviceHeartbeat, Enroll!past
  <2>2. CASE Enroll!RowOf(conn[m]) # {}
    <3>1. status' = [d \in Enroll!Device |-> IF fp[d] = conn[m] /\ status[d] \in {"enrolled", "pending"}
                                             THEN "active" ELSE status[d]]
      BY <1>11, <2>2 DEF Enroll!UpsertDeviceHeartbeat
    <3> QED
      BY <1>0, <1>1, <2>1, <3>1 DEF EnrollPast, EnrollHeld, Enroll!Status
  <2>3. CASE Enroll!RowOf(conn[m]) = {}
    <3>1. PICK d \in Enroll!Device : status[d] = "none" /\ status' = [status EXCEPT ![d] = "active"]
      BY <1>11, <2>3 DEF Enroll!UpsertDeviceHeartbeat, Enroll!IsNext
    <3>2. "active" \in Enroll!Status \ {"none"}
      BY DEF Enroll!Status
    <3> QED
      BY <1>3, <2>1, <3>1, <3>2
  <2> QED
    BY <2>2, <2>3
<1>12. ASSUME NEW m \in Machine, Enroll!EnrollDevice(m) PROVE Goal
  <2>1. /\ status[run[m].dev] \notin {"pending_approval", "rejected", "decommissioned", "deleted"}
        /\ status' = [status EXCEPT ![run[m].dev] = "enrolled"] /\ UNCHANGED <<waiting, retired, forced>>
        /\ run[m].pc = "known" /\ run[m].dev # Enroll!Nil
    BY <1>12 DEF Enroll!EnrollDevice, Enroll!NotEnrollable
  <2>2. run[m].dev \in Enroll!Device
    BY <1>0, <2>1 DEF EnrollTokens, EnrollTable, EnrollTokenRow
  <2>3. "enrolled" \in Enroll!Status \ {"none"}
    BY DEF Enroll!Status
  <2> QED
    BY <1>3, <2>1, <2>2, <2>3
<1>13. ASSUME NEW m \in Machine, Enroll!BeginBulkEnroll(m) PROVE Goal
  <2>1. PICK d \in Enroll!Device : status[d] = "none" /\ status' = [status EXCEPT ![d] = "pending"]
    BY <1>0, <1>13, EnrollNumbers DEF Enroll!BeginBulkEnroll, Enroll!IsNext
  <2>2. "pending" \in Enroll!Status \ {"none"} /\ UNCHANGED <<waiting, retired, forced>>
    BY <1>13 DEF Enroll!Status, Enroll!BeginBulkEnroll, Enroll!past
  <2> QED
    BY <1>3, <2>1, <2>2
<1>14. ASSUME NEW m \in Machine, Enroll!FinalizeBulkEnroll(m) PROVE Goal
  <2>1. PICK d \in Enroll!Device : d = run[m].dev /\ status[d] # "none" /\ d \notin waiting
    BY <1>0, <1>14 DEF Enroll!FinalizeBulkEnroll, EnrollBegun
  <2>2. retired' = retired
    BY <1>14 DEF Enroll!FinalizeBulkEnroll
  <2>3. CASE status[d] = "deleted"
    <3>1. UNCHANGED <<status, waiting, forced>>
      BY <1>14, <2>1, <2>3 DEF Enroll!FinalizeBulkEnroll
    <3> QED
      BY <1>2, <2>2, <3>1
  <2>4. CASE status[d] # "deleted"
    <3>1. PICK s \in {"pending_approval", "enrolled"} :
            /\ status' = [status EXCEPT ![d] = s] /\ forced' = Enroll!Overwrites(d)
            /\ waiting' = IF s = "pending_approval" THEN waiting \cup {d} ELSE waiting
      BY <1>14, <2>1, <2>4 DEF Enroll!FinalizeBulkEnroll
    <3>2. d \notin forced' => status[d] \notin {"pending_approval", "rejected", "decommissioned"} /\ d \notin forced
      BY <3>1 DEF Enroll!Overwrites
    <3>3. forced \subseteq forced' /\ forced' \subseteq forced \cup {d}
      BY <3>1 DEF Enroll!Overwrites
    <3>4. d \notin forced' => d \notin retired
      BY <1>0, <2>1, <2>4, <3>2 DEF EnrollHeld
    <3>5. EnrollHeld(d)'
      BY <1>0, <2>1, <2>2, <3>1, <3>4 DEF EnrollHeld
    <3>6. ASSUME NEW e \in Enroll!Device \ {d} PROVE EnrollHeld(e)' /\ status'[e] = status[e]
      BY <1>0, <2>1, <2>2, <3>1, <3>3 DEF EnrollHeld
    <3>7. status' \in [Enroll!Device -> Enroll!Status]
      BY <1>0, <3>1 DEF Enroll!Status
    <3>8. EnrollPast' /\ status'[d] # "none"
      BY <1>0, <1>1, <2>1, <2>2, <3>1, <3>3 DEF EnrollPast
    <3> QED
      BY <3>5, <3>6, <3>7, <3>8
  <2> QED
    BY <2>3, <2>4
<1> QED
  BY <1>0, <1>2, <1>4, <1>5, <1>6, <1>7, <1>8, <1>9, <1>10, <1>11, <1>12,
     <1>13, <1>14 DEF EnrollMoves, EnrollStatusMoves
(* The rows the bulk enrollments have begun.                               *)
LEMMA EnrollWaitingStep ==
  ASSUME EnrollMoves
  PROVE  \A d \in waiting' : d \in waiting \/ \E m \in Machine : Enroll!FinalizeBulkEnroll(m) /\ d = run[m].dev
<1>1. ASSUME NEW m \in Machine, Enroll!FinalizeBulkEnroll(m)
      PROVE  waiting' \subseteq waiting \cup {run[m].dev}
  <2>1. waiting' = waiting \/ waiting' = waiting \cup {run[m].dev}
    BY <1>1 DEF Enroll!FinalizeBulkEnroll
  <2> QED
    BY <2>1
<1>2. waiting' \subseteq waiting \/ \E m \in Machine : Enroll!FinalizeBulkEnroll(m)
  <2>1. ASSUME NEW d \in Enroll!Device, Enroll!CreatePendingDevice(d) \/ Enroll!DeleteDevice(d)
        PROVE  waiting' = waiting
    BY <2>1 DEF Enroll!CreatePendingDevice, Enroll!DeleteDevice, Enroll!past
  <2>2. ASSUME NEW t \in Enroll!Token, NEW d \in Enroll!Device, Enroll!ResetDeviceForReenroll(t, d)
        PROVE  waiting' = waiting
    BY <2>2 DEF Enroll!ResetDeviceForReenroll
  <2>3. ASSUME NEW m \in Machine, NEW d \in Enroll!Device, Enroll!MarkDeviceDecommissioned(m, d)
        PROVE  waiting' = waiting
    BY <2>3 DEF Enroll!MarkDeviceDecommissioned
  <2>4. CASE Enroll!UpdateDeviceStatus
    BY <2>4 DEF Enroll!UpdateDeviceStatus
  <2>5. ASSUME NEW S \in SUBSET Enroll!Device, Enroll!ApproveDevices(S) \/ Enroll!RejectDevices(S)
        PROVE  waiting' \subseteq waiting
    BY <2>5 DEF Enroll!ApproveDevices, Enroll!RejectDevices, Enroll!past
  <2>6. ASSUME NEW m \in Machine,
               Enroll!UpsertDeviceHeartbeat(m) \/ Enroll!EnrollDevice(m) \/ Enroll!BeginBulkEnroll(m)
        PROVE  waiting' = waiting
    BY <2>6 DEF Enroll!UpsertDeviceHeartbeat, Enroll!EnrollDevice,
       Enroll!BeginBulkEnroll, Enroll!past
  <2> QED
    BY <2>1, <2>2, <2>3, <2>4, <2>5, <2>6 DEF EnrollMoves, EnrollStatusMoves
<1> QED
  BY <1>1, <1>2

\* A row begun by a run stays its own, and nobody waits for it yet.
LEMMA EnrollBegunStep == ASSUME EnrollInv, Enroll!Next PROVE EnrollBegun'
<1>0. /\ EnrollMoves /\ EnrollRuns /\ EnrollBegun /\ EnrollStatus
      /\ \A d \in Enroll!Device : status[d] # "none" => status'[d] # "none"
      /\ \A d \in waiting' : d \in waiting \/ \E m \in Machine : Enroll!FinalizeBulkEnroll(m) /\ d = run[m].dev
  BY EnrollMovesStep, EnrollTypesAre, EnrollStatusStep, EnrollWaitingStep
     DEF EnrollInv
\* A run that has begun a row had begun it before, or the row is new.
<1>1. ASSUME NEW n \in Machine, run'[n].pc = "begun"
      PROVE  \/ run[n] = run'[n]
             \/ /\ Enroll!BeginBulkEnroll(n) /\ \A e \in Machine \ {n} : run'[e] = run[e]
                /\ run'[n].dev \in Enroll!Device /\ status[run'[n].dev] = "none"
                /\ status' = [status EXCEPT ![run'[n].dev] = "pending"]
  <2>1. ASSUME NEW m \in Machine, NEW r \in EnrollRunRow, run' = [run EXCEPT ![m] = r], EnrollBecomes(m, r),
               run[n] # run'[n]
        PROVE  /\ Enroll!BeginBulkEnroll(n) /\ \A e \in Machine \ {n} : run'[e] = run[e]
               /\ run'[n].dev \in Enroll!Device /\ status[run'[n].dev] = "none"
               /\ status' = [status EXCEPT ![run'[n].dev] = "pending"]
    <3>1. m = n /\ run'[n] = r /\ r.pc = "begun" /\ \A e \in Machine \ {n} : run'[e] = run[e]
      BY <1>0, <1>1, <2>1 DEF EnrollRuns
    <3>2. /\ Enroll!BeginBulkEnroll(n) /\ r.dev \in Enroll!Device /\ status[r.dev] = "none"
          /\ status' = [status EXCEPT ![r.dev] = "pending"]
      BY <2>1, <3>1 DEF EnrollBecomes
    <3> QED
      BY <3>1, <3>2
  <2> QED
    BY <2>1, EnrollRunsStep
<1>2. ASSUME NEW n \in Machine, run'[n].pc = "begun"
      PROVE  run'[n].dev \in Enroll!Device /\ status'[run'[n].dev] # "none" /\ run'[n].dev \notin waiting'
  <2>1. CASE run[n] = run'[n]
    <3>1. run'[n].dev \in Enroll!Device /\ status[run'[n].dev] # "none" /\ run'[n].dev \notin waiting
      BY <1>0, <1>2, <2>1 DEF EnrollBegun
    <3>2. ASSUME NEW m \in Machine, Enroll!FinalizeBulkEnroll(m) PROVE run'[n].dev # run[m].dev
      <4>1. run[m].pc = "begun" /\ run' = [run EXCEPT ![m].pc = "key"]
        BY <3>2 DEF Enroll!FinalizeBulkEnroll
      <4>2. run'[m].pc = "key"
        BY <1>0, <4>1 DEF EnrollRuns, EnrollRunRow
      <4>3. m # n
        BY <1>2, <4>2
      <4> QED
        BY <1>0, <1>2, <2>1, <4>1, <4>3 DEF EnrollBegun
    <3> QED
      BY <1>0, <3>1, <3>2
  <2>2. CASE /\ Enroll!BeginBulkEnroll(n)
             /\ run'[n].dev \in Enroll!Device /\ status[run'[n].dev] = "none"
             /\ status' = [status EXCEPT ![run'[n].dev] = "pending"]
    <3>1. waiting' = waiting
      BY <2>2 DEF Enroll!BeginBulkEnroll, Enroll!past
    <3>2. status'[run'[n].dev] = "pending"
      BY <2>2, EnrollTypesAre DEF EnrollInv, EnrollDevices
    <3> QED
      BY <1>0, <2>2, <3>1, <3>2 DEF EnrollStatus
  <2> QED
    BY <1>1, <1>2, <2>1, <2>2
<1>3. ASSUME NEW m \in Machine, NEW n \in Machine, run'[m].pc = "begun", run'[n].pc = "begun",
             run'[m].dev = run'[n].dev
      PROVE  m = n
  <2>1. CASE run[m] = run'[m] /\ run[n] = run'[n]
    BY <1>0, <1>3, <2>1 DEF EnrollBegun
  <2>2. ASSUME NEW e \in Machine, NEW o \in Machine, run'[e].pc = "begun", run[e] = run'[e],
               status[run'[o].dev] = "none", run'[e].dev = run'[o].dev
        PROVE  FALSE
    BY <1>0, <2>2 DEF EnrollBegun
  <2>3. CASE run[m] # run'[m]
    BY <1>1, <1>3, <2>2, <2>3
  <2>4. CASE run[n] # run'[n]
    BY <1>1, <1>3, <2>2, <2>4
  <2> QED
    BY <2>1, <2>3, <2>4
<1> QED
  BY <1>2, <1>3 DEF EnrollBegun

(* Certificates, streams and decisions.                                    *)
LEMMA EnrollFpStep == ASSUME EnrollInv, Enroll!Next PROVE fp' \in [Enroll!Device -> Enroll!Cert \cup {Enroll!Nil}]
<1>0. /\ EnrollMoves /\ EnrollDevices /\ EnrollCerts /\ EnrollRuns /\ fp \in [Enroll!Device -> Enroll!Cert \cup {Enroll!Nil}]
      /\ \A m \in Machine : conn[m] \in Enroll!Cert \cup {Enroll!Nil} /\ run[m].cert \in Enroll!Cert \cup {Enroll!Nil}
  BY EnrollMovesStep, EnrollTypesAre DEF EnrollInv, EnrollDevices, EnrollCerts,
     EnrollRuns, EnrollRunRow
<1>1. ASSUME NEW x, NEW c \in Enroll!Cert \cup {Enroll!Nil}, fp' = [fp EXCEPT ![x] = c]
      PROVE  fp' \in [Enroll!Device -> Enroll!Cert \cup {Enroll!Nil}]
  BY <1>0, <1>1
<1>2. ASSUME NEW d \in Enroll!Device, Enroll!DeleteDevice(d) PROVE fp' = [fp EXCEPT ![d] = Enroll!Nil]
  BY <1>2 DEF Enroll!DeleteDevice
<1>3. ASSUME NEW m \in Machine,
             Enroll!UpsertDeviceHeartbeat(m) \/ Enroll!EnrollDevice(m) \/ Enroll!FinalizeBulkEnroll(m)
      PROVE  fp' = fp \/ \E x : \E c \in {conn[m], run[m].cert} : fp' = [fp EXCEPT ![x] = c]
  <2>1. CASE Enroll!UpsertDeviceHeartbeat(m)
    BY <2>1 DEF Enroll!UpsertDeviceHeartbeat
  <2>2. CASE Enroll!EnrollDevice(m)
    BY <2>2 DEF Enroll!EnrollDevice
  <2>3. CASE Enroll!FinalizeBulkEnroll(m)
    BY <2>3 DEF Enroll!FinalizeBulkEnroll
  <2> QED
    BY <1>3, <2>1, <2>2, <2>3
<1>4. ASSUME NEW m \in Machine,
             Enroll!UpsertDeviceHeartbeat(m) \/ Enroll!EnrollDevice(m) \/ Enroll!FinalizeBulkEnroll(m)
      PROVE  fp' \in [Enroll!Device -> Enroll!Cert \cup {Enroll!Nil}]
  BY <1>0, <1>1, <1>3, <1>4
<1>5. Enroll!Nil \in Enroll!Cert \cup {Enroll!Nil}
  OBVIOUS
<1> QED
  BY <1>0, <1>1, <1>2, <1>4, <1>5 DEF EnrollMoves

\* Certificates, streams and the pending decision keep their type.
LEMMA EnrollCertsStep == ASSUME EnrollInv, Enroll!Next PROVE EnrollCerts' /\ EnrollDecision'
<1>0. /\ EnrollMoves /\ EnrollDevices /\ EnrollCerts /\ EnrollDecision
      /\ MaxEnrolls \in Nat /\ runs \in 0..MaxEnrolls
      /\ conn \in [Machine -> Enroll!Cert \cup {Enroll!Nil}]
  BY EnrollMovesStep, EnrollTypesAre, EnrollNumbers DEF EnrollInv, EnrollCerts
<1>1. conn' \in [Machine -> Enroll!Cert \cup {Enroll!Nil}]
  <2>1. ASSUME NEW m \in Machine, Enroll!Connect(m) PROVE \E c \in Enroll!Cert : conn' = [conn EXCEPT ![m] = c]
    BY <2>1 DEF Enroll!Connect, Enroll!Matches
  <2>2. ASSUME NEW m \in Machine, Enroll!UpsertDeviceHeartbeat(m) \/ Enroll!Disconnect(m)
        PROVE  conn' = conn \/ conn' = [conn EXCEPT ![m] = Enroll!Nil]
    <3>1. CASE Enroll!UpsertDeviceHeartbeat(m)
      <4>1. conn' = [conn EXCEPT ![m] = conn[m]] \/ conn' = [conn EXCEPT ![m] = Enroll!Nil]
        BY <1>0, <3>1 DEF Enroll!UpsertDeviceHeartbeat
      <4> QED
        BY <1>0, <4>1
    <3>2. CASE Enroll!Disconnect(m)
      BY <3>2 DEF Enroll!Disconnect
    <3> QED
      BY <2>2, <3>1, <3>2
  <2>3. CASE Enroll!ReissueCA
    BY <2>3 DEF Enroll!ReissueCA
  <2> QED
    BY <1>0, <2>1, <2>2, <2>3 DEF EnrollMoves
<1>2. runs' \in 0..MaxEnrolls
  <2>1. ASSUME NEW m \in Machine, NEW t \in Enroll!Token, Enroll!RunEnroll(m, t)
        PROVE  runs' = runs \/ (runs < MaxEnrolls /\ runs' = runs + 1)
    BY <2>1 DEF Enroll!RunEnroll
  <2> QED
    BY <1>0, <2>1 DEF EnrollMoves
<1>3. stale' \subseteq Enroll!Cert
  <2>1. CASE Enroll!ReissueCA
    BY <1>0, <2>1 DEF Enroll!ReissueCA, Enroll!Cert
  <2> QED
    BY <1>0, <2>1 DEF EnrollMoves, EnrollCerts
<1>4. revoked' \subseteq Enroll!Cert
  <2>1. ASSUME NEW d \in Enroll!Device, Enroll!DeleteDevice(d) PROVE revoked' \subseteq Enroll!Cert
    BY <1>0, <2>1 DEF Enroll!DeleteDevice, EnrollCerts, EnrollDevices
  <2> QED
    BY <1>0, <2>1 DEF EnrollMoves, EnrollCerts
<1>5. EnrollDecision'
  <2>1. CASE Enroll!UpdateDeviceStatus
    BY <2>1 DEF Enroll!UpdateDeviceStatus, EnrollDecision
  <2>2. ASSUME NEW d \in Enroll!Device, NEW s \in {"active", "blocked"}, Enroll!UpdateStatusChecks(d, s)
        PROVE  EnrollDecision'
    BY <2>2 DEF Enroll!UpdateStatusChecks, EnrollDecision
  <2> QED
    BY <1>0, <2>1, <2>2 DEF EnrollMoves, EnrollDecision
<1> QED
  BY <1>1, <1>2, <1>3, <1>4, <1>5 DEF EnrollCerts
(* The files of a machine.                                                 *)
EnrollPut(m, p, q) == src' = [src EXCEPT ![m] = p] /\ dst' = [dst EXCEPT ![m] = q]
EnrollWritten(m, half, v, p, q) ==
  IF run[m].out = "dst" THEN p = src[m] /\ q = [dst[m] EXCEPT ![half] = v]
                        ELSE p = [src[m] EXCEPT ![half] = v] /\ q = dst[m]

\* What a step of the writing and copying leaves of the two pairs.
EnrollLeaves(m, p, q) ==
  \/ Enroll!WriteKey(m) /\ EnrollWritten(m, "key", run[m].cert, p, q)
  \/ Enroll!WriteCert(m) /\ EnrollWritten(m, "crt", run[m].cert, p, q)
  \/ Enroll!CopyCert(m) /\ p = src[m] /\ q = [dst[m] EXCEPT !.crt = src[m].crt]
  \/ Enroll!CopyKey(m) /\ p = src[m] /\ q = [dst[m] EXCEPT !.key = src[m].key]
  \/ Enroll!DropKey(m) /\ p = [src[m] EXCEPT !.key = Enroll!Nil] /\ q = dst[m]
  \/ Enroll!RunDies(m) /\
       \/ p = src[m] /\ q = dst[m]
       \/ run[m].pc = "crt" /\ EnrollWritten(m, "crt", Enroll!Torn, p, q)
       \/ run[m].pc = "copycrt" /\ p = src[m] /\ q = [dst[m] EXCEPT !.crt = Enroll!Torn]
       \/ run[m].pc = "copykey" /\ p = src[m] /\ q = [dst[m] EXCEPT !.key = Enroll!Torn]

\* A pair with one file replaced is a pair.
LEMMA EnrollPairSet ==
  /\ Enroll!Nil \in 0..Enroll!Torn /\ Enroll!Torn \in 0..Enroll!Torn
  /\ Enroll!Cert \subseteq 0..Enroll!Torn
  /\ \A p \in EnrollPair, v \in 0..Enroll!Torn :
       /\ p.key \in 0..Enroll!Torn /\ p.crt \in 0..Enroll!Torn
       /\ [p EXCEPT !.key = v] \in EnrollPair
       /\ [p EXCEPT !.key = v].key = v /\ [p EXCEPT !.key = v].crt = p.crt
       /\ [p EXCEPT !.crt = v] \in EnrollPair
       /\ [p EXCEPT !.crt = v].crt = v /\ [p EXCEPT !.crt = v].key = p.key
<1>1. /\ Enroll!Nil \in 0..Enroll!Torn /\ Enroll!Torn \in 0..Enroll!Torn
      /\ Enroll!Cert \subseteq 0..Enroll!Torn
  BY EnrollNumbers
<1> HIDE DEF Enroll!Torn, Enroll!Nil, Enroll!Cert
<1> QED
  BY <1>1 DEF EnrollPair

\* A step of the files changes one pair in one of the known ways.
LEMMA EnrollLeavesPairs ==
  ASSUME EnrollPairs, EnrollRuns, NEW m \in Machine, EnrollFileMoves(m)
  PROVE  \E p, q \in EnrollPair : EnrollPut(m, p, q) /\ EnrollLeaves(m, p, q)
<1>0. /\ src[m] \in EnrollPair /\ dst[m] \in EnrollPair
      /\ run[m].cert \in 0..Enroll!Torn
      /\ src = [src EXCEPT ![m] = src[m]] /\ dst = [dst EXCEPT ![m] = dst[m]]
  <2>1. run[m].cert \in Enroll!Cert \cup {Enroll!Nil}
    BY DEF EnrollRuns, EnrollRunRow
  <2> QED
    BY <2>1, EnrollPairSet DEF EnrollPairs
<1>1. ASSUME NEW half \in {"key", "crt"}, NEW v \in 0..Enroll!Torn, Enroll!WriteFile(m, half, v)
      PROVE  \E p, q \in EnrollPair : EnrollPut(m, p, q) /\ EnrollWritten(m, half, v, p, q)
  <2>1. [src[m] EXCEPT ![half] = v] \in EnrollPair /\ [dst[m] EXCEPT ![half] = v] \in EnrollPair
    BY <1>0, <1>1, EnrollPairSet
  <2>2. CASE run[m].out = "dst"
    BY <1>0, <1>1, <2>1, <2>2 DEF Enroll!WriteFile, EnrollPut, EnrollWritten
  <2>3. CASE run[m].out # "dst"
    BY <1>0, <1>1, <2>1, <2>3 DEF Enroll!WriteFile, EnrollPut, EnrollWritten
  <2> QED
    BY <2>2, <2>3
<1>2. CASE Enroll!WriteKey(m)
  <2>1. Enroll!WriteFile(m, "key", run[m].cert)
    BY <1>2 DEF Enroll!WriteKey
  <2> QED
    BY <1>0, <1>1, <1>2, <2>1 DEF EnrollLeaves
<1>3. CASE Enroll!WriteCert(m)
  <2>1. Enroll!WriteFile(m, "crt", run[m].cert)
    BY <1>3 DEF Enroll!WriteCert
  <2> QED
    BY <1>0, <1>1, <1>3, <2>1 DEF EnrollLeaves
<1>4. ASSUME NEW v \in 0..Enroll!Torn
      PROVE  /\ [src[m] EXCEPT !.key = v] \in EnrollPair
             /\ [dst[m] EXCEPT !.key = v] \in EnrollPair /\ [dst[m] EXCEPT !.crt = v] \in EnrollPair
  BY <1>0, EnrollPairSet
<1>5. src[m].key \in 0..Enroll!Torn /\ src[m].crt \in 0..Enroll!Torn
  BY <1>0, EnrollPairSet
<1>6. CASE Enroll!CopyCert(m)
  <2>1. src' = src /\ dst' = [dst EXCEPT ![m] = [dst[m] EXCEPT !.crt = src[m].crt]]
    BY <1>0, <1>6 DEF Enroll!CopyCert, EnrollPairs
  <2> QED
    BY <1>0, <1>4, <1>5, <1>6, <2>1 DEF EnrollLeaves, EnrollPut
<1>7. CASE Enroll!CopyKey(m)
  <2>1. src' = src /\ dst' = [dst EXCEPT ![m] = [dst[m] EXCEPT !.key = src[m].key]]
    BY <1>0, <1>7 DEF Enroll!CopyKey, EnrollPairs
  <2> QED
    BY <1>0, <1>4, <1>5, <1>7, <2>1 DEF EnrollLeaves, EnrollPut
<1>8. CASE Enroll!DropKey(m)
  <2>1. dst' = dst /\ src' = [src EXCEPT ![m] = [src[m] EXCEPT !.key = Enroll!Nil]]
    BY <1>0, <1>8 DEF Enroll!DropKey, EnrollPairs
  <2> QED
    BY <1>0, <1>4, <1>8, <2>1, EnrollPairSet DEF EnrollLeaves, EnrollPut
<1>9. CASE Enroll!RunDies(m)
  <2>1. CASE UNCHANGED <<src, dst>>
    BY <1>0, <1>9, <2>1 DEF EnrollLeaves, EnrollPut
  <2>2. CASE run[m].pc = "crt" /\ Enroll!WriteFile(m, "crt", Enroll!Torn)
    BY <1>1, <1>9, <2>2, EnrollPairSet DEF EnrollLeaves
  <2>3. CASE run[m].pc = "copycrt" /\ dst' = [dst EXCEPT ![m].crt = Enroll!Torn] /\ UNCHANGED src
    <3>1. src' = src /\ dst' = [dst EXCEPT ![m] = [dst[m] EXCEPT !.crt = Enroll!Torn]]
      BY <1>0, <2>3 DEF EnrollPairs
    <3>2. [dst[m] EXCEPT !.crt = Enroll!Torn] \in EnrollPair
      BY <1>0, EnrollPairSet
    <3>3. EnrollPut(m, src[m], [dst[m] EXCEPT !.crt = Enroll!Torn])
      BY <1>0, <3>1 DEF EnrollPut
    <3>4. EnrollLeaves(m, src[m], [dst[m] EXCEPT !.crt = Enroll!Torn])
      BY <1>9, <2>3, Zenon DEF EnrollLeaves
    <3> QED
      BY <1>0, <3>2, <3>3, <3>4, Zenon
  <2>4. CASE run[m].pc = "copykey" /\ dst' = [dst EXCEPT ![m].key = Enroll!Torn] /\ UNCHANGED src
    <3>1. src' = src /\ dst' = [dst EXCEPT ![m] = [dst[m] EXCEPT !.key = Enroll!Torn]]
      BY <1>0, <2>4 DEF EnrollPairs
    <3>2. [dst[m] EXCEPT !.key = Enroll!Torn] \in EnrollPair
      BY <1>0, EnrollPairSet
    <3>3. EnrollPut(m, src[m], [dst[m] EXCEPT !.key = Enroll!Torn])
      BY <1>0, <3>1 DEF EnrollPut
    <3>4. EnrollLeaves(m, src[m], [dst[m] EXCEPT !.key = Enroll!Torn])
      BY <1>9, <2>4, Zenon DEF EnrollLeaves
    <3> QED
      BY <1>0, <3>2, <3>3, <3>4, Zenon
  <2> QED
    BY <1>9, <2>1, <2>2, <2>3, <2>4 DEF Enroll!RunDies
<1> QED
  BY <1>2, <1>3, <1>6, <1>7, <1>8, <1>9 DEF EnrollFileMoves

\* The files keep their type.
LEMMA EnrollPairsStep == ASSUME EnrollInv, Enroll!Next PROVE EnrollPairs'
<1>0. /\ EnrollMoves /\ EnrollPairs /\ EnrollRuns
      /\ \A m \in Machine : run[m].cert \in Enroll!Cert \cup {Enroll!Nil}
  BY EnrollMovesStep, EnrollTypesAre DEF EnrollInv, EnrollRuns, EnrollRunRow
<1>1. ASSUME NEW m \in Machine, EnrollFileMoves(m) PROVE EnrollPairs'
  <2>1. PICK p \in EnrollPair, q \in EnrollPair : EnrollPut(m, p, q)
    BY <1>0, <1>1, EnrollLeavesPairs
  <2>2. issued' = issued \/ \E c \in Enroll!Cert \cup {Enroll!Nil} : issued' = [issued EXCEPT ![m] = c]
    BY <1>0, <1>1 DEF EnrollFileMoves, Enroll!WriteKey, Enroll!WriteCert,
       Enroll!CopyCert, Enroll!CopyKey, Enroll!DropKey, Enroll!RunDies,
       Enroll!past
  <2> QED
    BY <1>0, <2>1, <2>2 DEF EnrollPairs, EnrollPut
<1> QED
  BY <1>0, <1>1 DEF EnrollMoves, EnrollPairs
\* What the invariant says of the files of one machine.
EnrollFilesOf(m) ==
  /\ issued[m] # Enroll!Nil => Enroll!Matches(Enroll!Pair(m)) /\ Enroll!Pair(m).crt = issued[m]
  /\ EnrollWrites(m) /\ EnrollCopies(m)

\* The files, machine by machine.
LEMMA EnrollFilesAre == EnrollFiles <=> \A m \in Machine : EnrollFilesOf(m)
BY DEF EnrollFiles, EnrollFilesOf, Enroll!IssuedKept

\* The pair in use, and what the two of a primed state are.
LEMMA EnrollPairIs ==
  ASSUME NEW m
  PROVE  /\ Enroll!Whole(src[m]) => Enroll!Pair(m) = src[m]
         /\ ~Enroll!Whole(src[m]) /\ Enroll!Whole(dst[m]) => Enroll!Pair(m) = dst[m] /\ Enroll!Out(m) = "dst"
         /\ Enroll!Out(m) = "dst" => ~Enroll!Whole(src[m]) /\ Enroll!Pair(m) = dst[m]
         /\ Enroll!Out(m) # "dst" => Enroll!Pair(m) = src[m]
BY DEF Enroll!Pair, Enroll!Out

\* A write, a copy or a crash keeps what is known of the files.
LEMMA EnrollFilesMove ==
  ASSUME EnrollPairs, EnrollRuns, NEW m \in Machine, EnrollFileMoves(m), EnrollFilesOf(m)
  PROVE  EnrollFilesOf(m)'
<1>1. PICK p \in EnrollPair, q \in EnrollPair : EnrollPut(m, p, q) /\ EnrollLeaves(m, p, q)
  BY EnrollLeavesPairs
<1>2. /\ src'[m] = p /\ dst'[m] = q
      /\ src[m] \in EnrollPair /\ dst[m] \in EnrollPair /\ run[m] \in EnrollRunRow
  BY <1>1 DEF EnrollPairs, EnrollPut, EnrollRuns
<1>3. Enroll!Pair(m)' = IF ~Enroll!Whole(p) /\ Enroll!Whole(q) THEN q ELSE p
  BY <1>2 DEF Enroll!Pair, Enroll!Out, Enroll!Whole
<1>4. /\ DOMAIN run = Machine /\ DOMAIN issued = Machine
      /\ run[m].pc \in {"key", "crt", "copycrt", "copykey", "drop"}
  BY DEF EnrollRuns, EnrollPairs, EnrollFileMoves, Enroll!WriteKey,
     Enroll!WriteCert, Enroll!CopyCert, Enroll!CopyKey, Enroll!DropKey,
     Enroll!RunDies
<1>5. ASSUME NEW x, run' = [run EXCEPT ![m].pc = x]
      PROVE  run'[m].pc = x /\ run'[m].cert = run[m].cert /\ run'[m].out = run[m].out
  BY <1>2, <1>4, <1>5 DEF EnrollRunRow
<1>6. Enroll!Nil \notin Enroll!Cert /\ Enroll!Torn \notin Enroll!Cert
  BY EnrollNumbers
<1>7. ASSUME run'[m].pc = "idle" PROVE EnrollWrites(m)' /\ EnrollCopies(m)'
  BY <1>7 DEF EnrollWrites, EnrollCopies
<1>8. CASE Enroll!WriteKey(m) /\ EnrollWritten(m, "key", run[m].cert, p, q)
  <2>1. /\ run[m].pc = "key" /\ run'[m].pc = "crt" /\ run'[m].cert = run[m].cert /\ run'[m].out = run[m].out
        /\ issued'[m] = Enroll!Nil /\ run[m].cert \in Enroll!Cert
        /\ run[m].out = "dst" => ~Enroll!Whole(src[m])
    BY <1>4, <1>5, <1>8 DEF Enroll!WriteKey, EnrollFilesOf, EnrollWrites
  <2>2. run[m].out = "dst" => p = src[m] /\ q.key = run[m].cert
    BY <1>2, <1>8 DEF EnrollWritten, EnrollPair
  <2>3. run[m].out # "dst" => p.key = run[m].cert
    BY <1>2, <1>8 DEF EnrollWritten, EnrollPair
  <2>4. EnrollWrites(m)'
    BY <1>2, <2>1, <2>2, <2>3 DEF EnrollWrites, Enroll!Whole
  <2> QED
    BY <2>1, <2>4 DEF EnrollFilesOf, EnrollCopies
<1>9. CASE Enroll!WriteCert(m) /\ EnrollWritten(m, "crt", run[m].cert, p, q)
  <2>1. /\ run[m].pc = "crt" /\ run'[m].pc = IF run[m].out = "dst" THEN "idle" ELSE "copycrt"
        /\ issued'[m] = run[m].cert /\ run[m].cert \in Enroll!Cert
        /\ run[m].out = "dst" => ~Enroll!Whole(src[m])
        /\ run[m].cert = IF run[m].out = "dst" THEN dst[m].key ELSE src[m].key
    BY <1>4, <1>5, <1>9 DEF Enroll!WriteCert, EnrollFilesOf, EnrollWrites
  <2>2. CASE run[m].out = "dst"
    <3>1. p = src[m] /\ q.key = run[m].cert /\ q.crt = run[m].cert
      BY <1>2, <1>9, <2>1, <2>2 DEF EnrollWritten, EnrollPair
    <3>2. Enroll!Pair(m)' = q /\ Enroll!Matches(q)
      BY <1>3, <1>6, <2>1, <2>2, <3>1 DEF Enroll!Whole, Enroll!Matches
    <3> QED
      BY <1>7, <2>1, <2>2, <3>1, <3>2 DEF EnrollFilesOf, Enroll!Matches
  <2>3. CASE run[m].out # "dst"
    <3>1. p.key = run[m].cert /\ p.crt = run[m].cert
      BY <1>2, <1>9, <2>1, <2>3 DEF EnrollWritten, EnrollPair
    <3>2. Enroll!Pair(m)' = p /\ Enroll!Matches(p)
      BY <1>3, <1>6, <2>1, <3>1 DEF Enroll!Whole, Enroll!Matches
    <3> QED
      BY <1>2, <2>1, <2>3, <3>1, <3>2 DEF EnrollFilesOf, Enroll!Matches,
         EnrollWrites, EnrollCopies
  <2> QED
    BY <2>2, <2>3
\* As long as the first copy is whole and untouched it is the pair in use.
<1>10. ASSUME run[m].pc \in {"copycrt", "copykey", "drop"}, p = src[m], issued' = issued
       PROVE  /\ Enroll!Matches(p)
              /\ issued'[m] # Enroll!Nil => Enroll!Matches(Enroll!Pair(m)') /\ Enroll!Pair(m)'.crt = issued'[m]
  <2>1. Enroll!Matches(src[m]) /\ Enroll!Whole(src[m])
    BY <1>6, <1>10 DEF EnrollFilesOf, EnrollCopies, Enroll!Matches,
       Enroll!Whole
  <2>2. Enroll!Pair(m) = src[m] /\ Enroll!Pair(m)' = src[m]
    BY <1>3, <1>10, <2>1, EnrollPairIs
  <2> QED
    BY <1>10, <2>1, <2>2 DEF EnrollFilesOf
<1>11. CASE Enroll!CopyCert(m) /\ p = src[m] /\ q = [dst[m] EXCEPT !.crt = src[m].crt]
  <2>1. run[m].pc = "copycrt" /\ run'[m].pc = "copykey" /\ issued' = issued
    BY <1>5, <1>11 DEF Enroll!CopyCert, Enroll!past
  <2>2. q.crt = p.crt
    BY <1>2, <1>11 DEF EnrollPair
  <2> QED
    BY <1>2, <1>10, <1>11, <2>1, <2>2 DEF EnrollFilesOf, EnrollWrites,
       EnrollCopies, Enroll!Matches
<1>12. CASE Enroll!CopyKey(m) /\ p = src[m] /\ q = [dst[m] EXCEPT !.key = src[m].key]
  <2>1. run[m].pc = "copykey" /\ run'[m].pc = "drop" /\ issued' = issued
    BY <1>5, <1>12 DEF Enroll!CopyKey, Enroll!past
  <2>2. q.crt = p.crt /\ q.key = p.key
    BY <1>2, <1>12, <2>1 DEF EnrollPair, EnrollFilesOf, EnrollCopies
  <2> QED
    BY <1>2, <1>10, <1>12, <2>1, <2>2 DEF EnrollFilesOf, EnrollWrites,
       EnrollCopies, Enroll!Matches
<1>13. CASE Enroll!DropKey(m) /\ p = [src[m] EXCEPT !.key = Enroll!Nil] /\ q = dst[m]
  <2>1. run[m].pc = "drop" /\ run'[m].pc = "idle" /\ issued' = issued
    BY <1>4, <1>13, EnrollIdle DEF Enroll!DropKey, Enroll!past
  <2>2. p.key = Enroll!Nil
    BY <1>2, <1>13 DEF EnrollPair
  <2>3. Enroll!Matches(src[m]) /\ q.crt = src[m].crt /\ q.key = src[m].key
    BY <1>13, <2>1 DEF EnrollFilesOf, EnrollCopies
  <2>4. Enroll!Pair(m) = src[m] /\ Enroll!Pair(m)' = q /\ Enroll!Matches(q)
    BY <1>3, <1>6, <2>2, <2>3, EnrollPairIs DEF Enroll!Matches, Enroll!Whole
  <2> QED
    BY <1>7, <2>1, <2>3, <2>4 DEF EnrollFilesOf, Enroll!Matches
<1>14. CASE /\ Enroll!RunDies(m)
            /\ \/ p = src[m] /\ q = dst[m]
               \/ run[m].pc = "crt" /\ EnrollWritten(m, "crt", Enroll!Torn, p, q)
               \/ run[m].pc = "copycrt" /\ p = src[m] /\ q = [dst[m] EXCEPT !.crt = Enroll!Torn]
               \/ run[m].pc = "copykey" /\ p = src[m] /\ q = [dst[m] EXCEPT !.key = Enroll!Torn]
  <2>1. run'[m].pc = "idle" /\ issued' = issued
    BY <1>4, <1>14, EnrollIdle DEF Enroll!RunDies, Enroll!past
  <2>2. CASE p = src[m] /\ q = dst[m]
    <3>1. Enroll!Pair(m)' = Enroll!Pair(m)
      BY <1>3, <2>2 DEF Enroll!Pair, Enroll!Out
    <3> QED
      BY <1>7, <2>1, <3>1 DEF EnrollFilesOf, Enroll!Matches
  <2>3. CASE run[m].pc = "crt"
    <3>1. issued[m] = Enroll!Nil
      BY <2>3 DEF EnrollFilesOf, EnrollWrites
    <3> QED
      BY <1>7, <2>1, <3>1 DEF EnrollFilesOf, Enroll!Nil
  <2>4. CASE run[m].pc \in {"copycrt", "copykey"} /\ p = src[m]
    BY <1>7, <1>10, <2>1, <2>4 DEF EnrollFilesOf, Enroll!Matches
  <2> QED
    BY <1>14, <2>2, <2>3, <2>4
<1> QED
  BY <1>1, <1>8, <1>9, <1>11, <1>12, <1>13, <1>14 DEF EnrollLeaves

\* A step of the run that leaves the files alone.
LEMMA EnrollFilesWait ==
  ASSUME EnrollPairs, EnrollRuns, NEW m \in Machine, EnrollFilesOf(m), UNCHANGED <<src, dst, issued>>,
         NEW r \in EnrollRunRow, run' = [run EXCEPT ![m] = r], EnrollBecomes(m, r), ~EnrollFileMoves(m),
         runs \in 0..MaxEnrolls
  PROVE  EnrollFilesOf(m)'
<1>1. run'[m] = r
  BY DEF EnrollRuns
<1>2. Enroll!Pair(m)' = Enroll!Pair(m) /\ Enroll!Whole(src'[m]) = Enroll!Whole(src[m])
  BY DEF Enroll!Pair, Enroll!Out
<1>3. CASE r.pc = "copycrt"
  <2>1. PICK t \in Enroll!Token : Enroll!RunEnroll(m, t) /\ Enroll!ReusableIdentity(m)
    BY <1>3 DEF EnrollBecomes, EnrollFileMoves
  <2>2. Enroll!Matches(Enroll!Pair(m)) /\ Enroll!Pair(m) # dst[m]
    BY <2>1 DEF Enroll!RunEnroll, Enroll!ReusableIdentity
  <2>3. Enroll!Pair(m) = src[m]
    BY <2>2, EnrollPairIs
  <2> QED
    BY <1>1, <1>2, <1>3, <2>2, <2>3 DEF EnrollFilesOf, EnrollWrites,
       EnrollCopies, Enroll!Matches
<1>4. CASE r.pc = "ask"
  <2>1. r.cert = runs + 1 /\ r.out = Enroll!Out(m) /\ runs < MaxEnrolls
    BY <1>4 DEF EnrollBecomes, EnrollFileMoves
  <2>2. r.cert \in Enroll!Cert
    BY <2>1, EnrollNumbers DEF Enroll!Cert
  <2> QED
    BY <1>1, <1>2, <1>4, <2>1, <2>2, EnrollPairIs DEF EnrollFilesOf,
       EnrollWrites, EnrollCopies, Enroll!Matches
<1>5. CASE r.pc \in {"known", "begun", "key"}
  <2>1. EnrollGoesOn(m, r) /\ run[m].pc \in {"ask", "known", "begun"}
    BY <1>5 DEF EnrollBecomes, EnrollFileMoves, Enroll!GetEnrollmentToken,
       Enroll!BeginBulkEnroll, Enroll!EnrollDevice, Enroll!FinalizeBulkEnroll,
       Enroll!BulkNotCommitted
  <2> QED
    BY <1>1, <1>2, <1>5, <2>1 DEF EnrollFilesOf, EnrollWrites, EnrollCopies,
       EnrollGoesOn, Enroll!Matches
<1>6. CASE r.pc = "idle"
  BY <1>1, <1>2, <1>6 DEF EnrollFilesOf, EnrollWrites, EnrollCopies,
     Enroll!Matches
<1>7. r.pc \in {"copycrt", "ask", "known", "begun", "key", "idle"}
  BY DEF EnrollBecomes, EnrollFileMoves
<1> QED
  BY <1>3, <1>4, <1>5, <1>6, <1>7

\* Every step keeps what is known of the files.
LEMMA EnrollFilesStep == ASSUME EnrollInv, Enroll!Next PROVE EnrollFiles'
<1>0. /\ EnrollMoves /\ EnrollPairs /\ EnrollRuns /\ runs \in 0..MaxEnrolls
      /\ \A m \in Machine : EnrollFilesOf(m)
  BY EnrollMovesStep, EnrollTypesAre, EnrollFilesAre DEF EnrollInv, EnrollCerts
<1>1. ASSUME NEW n \in Machine, src'[n] = src[n], dst'[n] = dst[n], issued'[n] = issued[n], run'[n] = run[n]
      PROVE  EnrollFilesOf(n)'
  <2>1. Enroll!Pair(n)' = Enroll!Pair(n)
    BY <1>1 DEF Enroll!Pair, Enroll!Out
  <2>2. EnrollFilesOf(n)
    BY <1>0
  <2> QED
    BY <1>1, <2>1, <2>2 DEF EnrollFilesOf, EnrollWrites, EnrollCopies,
       Enroll!Matches, Enroll!Whole
<1>2. ASSUME NEW m \in Machine, EnrollFileMoves(m), NEW n \in Machine PROVE EnrollFilesOf(n)'
  <2>1. CASE n = m
    BY <1>0, <1>2, <2>1, EnrollFilesMove
  <2>2. CASE n # m
    <3>1. PICK p \in EnrollPair, q \in EnrollPair : EnrollPut(m, p, q)
      BY <1>0, <1>2, EnrollLeavesPairs
    <3>2. src'[n] = src[n] /\ dst'[n] = dst[n]
      BY <1>0, <2>2, <3>1 DEF EnrollPut, EnrollPairs
    <3>3. issued' = issued \/ \E c : issued' = [issued EXCEPT ![m] = c]
      BY <1>2 DEF EnrollFileMoves, Enroll!WriteKey, Enroll!WriteCert,
         Enroll!CopyCert, Enroll!CopyKey, Enroll!DropKey, Enroll!RunDies,
         Enroll!past
    <3>4. \E r : run' = [run EXCEPT ![m] = r]
      BY <1>2 DEF EnrollFileMoves, Enroll!WriteKey, Enroll!WriteCert,
         Enroll!CopyCert, Enroll!CopyKey, Enroll!DropKey, Enroll!RunDies
    <3> QED
      BY <1>0, <1>1, <2>2, <3>2, <3>3, <3>4 DEF EnrollPairs, EnrollRuns
  <2> QED
    BY <2>1, <2>2
<1>3. ASSUME UNCHANGED <<src, dst, issued>>, ~\E m \in Machine : EnrollFileMoves(m)
      PROVE  \A n \in Machine : EnrollFilesOf(n)'
  <2>1. CASE run' = run
    BY <1>1, <1>3, <2>1
  <2>2. ASSUME NEW m \in Machine, NEW r \in EnrollRunRow, run' = [run EXCEPT ![m] = r], EnrollBecomes(m, r),
               NEW n \in Machine
        PROVE  EnrollFilesOf(n)'
    <3>1. CASE n = m
      BY <1>0, <1>3, <2>2, <3>1, EnrollFilesWait
    <3>2. CASE n # m
      BY <1>0, <1>1, <1>3, <2>2, <3>2 DEF EnrollRuns
    <3> QED
      BY <3>1, <3>2
  <2> QED
    BY <2>1, <2>2, EnrollRunsStep
<1>4. \A n \in Machine : EnrollFilesOf(n)'
  BY <1>0, <1>2, <1>3 DEF EnrollMoves
<1> QED
  BY <1>4 DEF EnrollFiles, EnrollFilesOf, Enroll!IssuedKept
(* The invariant.                                                          *)
LEMMA EnrollInitInv == ASSUME Enroll!Init PROVE EnrollInv
<1>1. EnrollDevices /\ EnrollDecision /\ EnrollPast /\ EnrollNewest
  BY DEF Enroll!Init, EnrollDevices, EnrollDecision, EnrollPast, EnrollNewest,
     Enroll!Status
<1>2. EnrollTable /\ \A t \in Enroll!Token : token[t].dev = Enroll!Nil
  BY EnrollBlank DEF Enroll!Init, EnrollTable
<1>3. EnrollRuns /\ \A m \in Machine : run[m].pc = "idle"
  BY EnrollIdle DEF Enroll!Init, EnrollRuns
<1>4. EnrollPairs
  <2>1. [key |-> Enroll!Nil, crt |-> Enroll!Nil] \in EnrollPair
    BY EnrollPairSet DEF EnrollPair
  <2> QED
    BY <2>1 DEF Enroll!Init, EnrollPairs
<1>5. EnrollCerts
  BY EnrollNumbers DEF Enroll!Init, EnrollCerts
<1>6. EnrollStatus /\ EnrollBegun
  BY <1>3 DEF Enroll!Init, EnrollStatus, EnrollBegun, Enroll!NotReadmitted
<1>7. EnrollTokens
  BY <1>2, <1>3 DEF Enroll!Init, EnrollTokens
<1>8. EnrollFiles
  <2>1. \A m \in Machine : issued[m] = Enroll!Nil
    BY DEF Enroll!Init
  <2> QED
    BY <1>3, <2>1 DEF EnrollFiles, Enroll!IssuedKept, EnrollWrites,
       EnrollCopies
<1> QED
  BY <1>1, <1>2, <1>3, <1>4, <1>5, <1>6, <1>7, <1>8, EnrollTypesAre
     DEF EnrollInv

\* Every action keeps the invariant.
LEMMA EnrollNextInv == ASSUME EnrollInv, Enroll!Next PROVE EnrollInv'
<1>1. EnrollDevices' /\ EnrollPast'
  BY EnrollStatusStep, EnrollFpStep DEF EnrollDevices
<1>2. EnrollStatus'
  <2>1. \A d \in Enroll!Device : EnrollHeld(d)'
    BY EnrollStatusStep
  <2> QED
    BY <1>1, <2>1 DEF EnrollPast, EnrollStatus, EnrollHeld,
       Enroll!NotReadmitted
<1>3. EnrollDecision' /\ EnrollCerts' /\ EnrollRuns' /\ EnrollTable' /\ EnrollNewest' /\ EnrollPairs'
  BY EnrollCertsStep, EnrollRunsStep, EnrollTokenStep, EnrollNewestStep,
     EnrollPairsStep
<1>4. Enroll!TypeOK'
  BY <1>1, <1>3 DEF Enroll!TypeOK, EnrollDevices, EnrollDecision, EnrollTable,
     EnrollRuns, EnrollPairs, EnrollCerts, EnrollPast, EnrollNewest,
     EnrollTokenRow, EnrollRunRow, EnrollPair
<1> QED
  BY <1>2, <1>4, EnrollBegunStep, EnrollTokensStep, EnrollFilesStep
     DEF EnrollInv

\* A step that changes nothing keeps the invariant.
LEMMA EnrollStutter ==
  ASSUME EnrollInv, UNCHANGED <<Enroll!vars>> PROVE EnrollInv'
BY DEF EnrollInv, EnrollStatus, EnrollBegun, EnrollTokens, EnrollFiles,
   EnrollWrites, EnrollCopies, Enroll!TypeOK, Enroll!NotReadmitted,
   Enroll!IssuedKept, Enroll!Matches, Enroll!Pair, Enroll!Out, Enroll!Whole,
   Enroll!vars, Enroll!devices, Enroll!machines, Enroll!past

\* A step of the parts is one of this part, or leaves it alone.
LEMMA EnrollPartStep ==
  ASSUME part = "enrollment", [PartNext]_<<part, vars, cells>> PROVE [Enroll!Next]_(Enroll!vars)
BY DEF PartNext, cells, inEnrollment, shared, Enroll!vars, Enroll!devices,
   Enroll!machines, Enroll!past

(* Enrollment: the invariant holds in every reachable state.               *)
THEOREM EnrollInvariant == PartSpec => [](part = "enrollment" => EnrollInv)
<1>1. PartInit => (part = "enrollment" => EnrollInv)
  BY EnrollInitInv DEF PartInit
<1>2. (part = "enrollment" => EnrollInv) /\ [PartNext]_<<part, vars, cells>> => (part = "enrollment" => EnrollInv)'
  <2> SUFFICES ASSUME part = "enrollment" => EnrollInv, [PartNext]_<<part, vars, cells>>, part' = "enrollment"
               PROVE  EnrollInv'
    OBVIOUS
  <2>1. part = "enrollment"
    BY ServerPartStays
  <2>2. [Enroll!Next]_(Enroll!vars)
    BY <2>1, EnrollPartStep
  <2>3. CASE Enroll!Next
    BY <2>1, <2>3, EnrollNextInv
  <2>4. CASE UNCHANGED Enroll!vars
    BY <2>1, <2>4, EnrollStutter
  <2> QED
    BY <2>2, <2>3, <2>4
<1> QED
  BY <1>1, <1>2, PTL DEF PartSpec

(* Enrollment: whom an operator holds back or has retired is not let in    *)
(* again, an older token gives no certificate, and a written identity is   *)
(* found again.                                                            *)
THEOREM EnrolledAsMeant == PartSpec => []IdentitiesAreSound
<1>1. (part = "enrollment" => EnrollInv) => IdentitiesAreSound
  BY DEF EnrollInv, EnrollStatus, EnrollTokens, EnrollFiles,
     IdentitiesAreSound, Enroll!IdentitiesAreSound, Enroll!StaleTokenLoses
<1> QED
  BY <1>1, EnrollInvariant, PTL
===============================================================================
