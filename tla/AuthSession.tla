---------------------------- MODULE AuthSession ----------------------------
(***************************************************************************)
(* The account of one user and its sessions: auth/auth.service.ts,         *)
(* auth/auth-mfa.service.ts and auth/strategies/native-jwt.strategy.ts.    *)
(*                                                                         *)
(* An HTTP request runs from one await to the next; other requests run in  *)
(* between, so the user document a request holds may be out of date. Every *)
(* findOneAndUpdate is one atomic step, and so is an updateMany.           *)
(*                                                                         *)
(* A password is told apart by its version: the one that is current when   *)
(* passwordVersion is n is password n. Hashing, codes, attempt limits and  *)
(* one-time use of codes are left out (a proof succeeds or the request     *)
(* fails); so is the e-mail verification before the first login.           *)
(***************************************************************************)
EXTENDS Naturals, Sequences, Functions

CONSTANTS
  Requests,            \* HTTP requests in flight; each may be issued again
  MaxPasswordVersion,  \* bound: how often the password is reset
  MaxMfaVersion,       \* bound: how often the second factor changes
  MaxEvents,           \* bound: changes, sessions and tokens before the last
  MaxEnrolments,       \* bound: how often an enrolment is started
  MaxChallenges,       \* bound: how many login challenges are issued
  MaxSessions,         \* bound: how many sessions are created
  MaxTokens            \* bound: how many refresh tokens are issued

ASSUME BoundsAssumption ==
  {MaxPasswordVersion, MaxMfaVersion, MaxEvents, MaxEnrolments,
   MaxChallenges, MaxSessions, MaxTokens} \subseteq Nat

VARIABLES
  user,        \* the user document
  sessions,    \* session documents, in the order they were created
  challenges,  \* login challenges, in the order they were issued
  tokens,      \* refresh tokens issued so far: 1 .. tokens
  req          \* where each request is, and what it holds

vars == <<user, sessions, challenges, tokens, req>>

PasswordVersion == 0 .. MaxPasswordVersion
MfaVersion == 0 .. MaxMfaVersion
Token == 1 .. MaxTokens

\* totpPendingFactorId and totpPendingPasswordVersion; factor 0 is "unset".
NoPending == [factor |-> 0, passwordVersion |-> 0]
Pending == [factor : 0 .. MaxEnrolments, passwordVersion : PasswordVersion]

User == [exists : BOOLEAN, isActive : BOOLEAN, passwordVersion : PasswordVersion,
         mfaVersion : MfaVersion, totpEnabled : BOOLEAN, pending : Pending,
         enrolments : 0 .. MaxEnrolments]

\* provedPassword and provedFactor record what the request that created the
\* session was shown: no code reads them.
Session == [passwordVersion : PasswordVersion, mfaVersion : MfaVersion,
            refreshToken : Token, usedRefreshTokens : Seq(Token),
            revoked : BOOLEAN, expired : BOOLEAN,
            provedPassword : PasswordVersion, provedFactor : BOOLEAN]

Challenge == [passwordVersion : PasswordVersion, mfaVersion : MfaVersion,
              consumed : BOOLEAN]

Idle == [pc |-> "idle"]
Holding(pc, doc) == [pc |-> pc, doc |-> doc]
Creating(doc, password, factor) ==
  [pc |-> "createSession", doc |-> doc, password |-> password, factor |-> factor]

Becomes(r, state) == req' = [req EXCEPT ![r] = state]

Init ==
  /\ user = [exists |-> TRUE, isActive |-> TRUE, passwordVersion |-> 0,
             mfaVersion |-> 0, totpEnabled |-> FALSE, pending |-> NoPending,
             enrolments |-> 0]
  /\ sessions = << >>
  /\ challenges = << >>
  /\ tokens = 0
  /\ req = [r \in Requests |-> Idle]

---------------------------------------------------------------------------
\* The user a request may act for.
Usable(u) == u.exists /\ u.isActive

\* The filter of a guarded update: active, and no password change since doc.
PasswordUnchanged(doc) == Usable(user) /\ user.passwordVersion = doc.passwordVersion

\* The filter of verifyProof and disable: nor any change of the second factor.
FactorUnchanged(doc) ==
  /\ PasswordUnchanged(doc)
  /\ user.totpEnabled
  /\ user.mfaVersion = doc.mfaVersion

\* The bound on all of them together.
MayHappen ==
  user.passwordVersion + user.mfaVersion + Len(sessions) + tokens < MaxEvents

\* What the JWT strategy and the refresh demand of the user of a session.
SessionMatches(s) ==
  /\ Usable(user)
  /\ s.passwordVersion = user.passwordVersion
  /\ s.mfaVersion = user.mfaVersion

\* The sessions, with those numbered in S revoked.
Revoked(S) ==
  [i \in DOMAIN sessions |-> [sessions[i] EXCEPT !.revoked = @ \/ i \in S]]

\* A guard fails, the database answers with an error or the process dies: a
\* request may end at any await. What it has written stays.
Fail(r) ==
  /\ req[r].pc # "idle"
  /\ Becomes(r, Idle)
  /\ UNCHANGED <<user, sessions, challenges, tokens>>

\* The clock passes expiresAt.
Expire(i) ==
  /\ i \in DOMAIN sessions
  /\ ~sessions[i].expired
  /\ sessions' = [sessions EXCEPT ![i].expired = TRUE]
  /\ UNCHANGED <<user, challenges, tokens, req>>

---------------------------------------------------------------------------
(* Signing in. *)

\* login: find the user, compare the password that is then current. (A wrong
\* password changes nothing.)
Login(r) ==
  /\ req[r].pc = "idle"
  /\ Usable(user)
  /\ Becomes(r, Holding("login", user))
  /\ UNCHANGED <<user, sessions, challenges, tokens>>

\* completeLogin for a user without a second factor.
LoginDirectly(r) ==
  /\ req[r].pc = "login"
  /\ ~req[r].doc.totpEnabled
  /\ Becomes(r, Creating(req[r].doc, req[r].doc.passwordVersion, FALSE))
  /\ UNCHANGED <<user, sessions, challenges, tokens>>

\* completeLogin, startChallenge.
StartChallenge(r) ==
  /\ req[r].pc = "login"
  /\ req[r].doc.totpEnabled
  /\ Len(challenges) < MaxChallenges
  /\ challenges' = Append(challenges, [passwordVersion |-> req[r].doc.passwordVersion,
                                       mfaVersion |-> req[r].doc.mfaVersion,
                                       consumed |-> FALSE])
  /\ Becomes(r, Idle)
  /\ UNCHANGED <<user, sessions, tokens>>

\* verifyLogin up to the comparison of the challenge with the current user.
VerifyLogin(r, c) ==
  /\ req[r].pc = "idle"
  /\ c \in DOMAIN challenges
  /\ ~challenges[c].consumed
  /\ Usable(user) /\ user.totpEnabled
  /\ user.mfaVersion = challenges[c].mfaVersion
  /\ user.passwordVersion = challenges[c].passwordVersion
  /\ Becomes(r, [pc |-> "verifyProof", doc |-> user, challenge |-> c])
  /\ UNCHANGED <<user, sessions, challenges, tokens>>

\* verifyProof accepts a code for the second factor of the document held:
\* during a login, or (challenge 0) before it is disabled.
VerifyProof(r) ==
  /\ req[r].pc = "verifyProof"
  /\ FactorUnchanged(req[r].doc)
  /\ Becomes(r, IF req[r].challenge = 0 THEN Holding("disable", req[r].doc)
                ELSE [req[r] EXCEPT !.pc = "consume"])
  /\ UNCHANGED <<user, sessions, challenges, tokens>>

\* verifyLogin consumes the challenge; verifyTotp creates the session of the
\* user loaded before.
ConsumeChallenge(r) ==
  /\ req[r].pc = "consume"
  /\ LET c == req[r].challenge IN
     /\ ~challenges[c].consumed
     /\ challenges' = [challenges EXCEPT ![c].consumed = TRUE]
     /\ Becomes(r, Creating(req[r].doc, challenges[c].passwordVersion, TRUE))
  /\ UNCHANGED <<user, sessions, tokens>>

NewSession(doc, password, factor) ==
  [passwordVersion |-> doc.passwordVersion, mfaVersion |-> doc.mfaVersion,
   refreshToken |-> tokens + 1, usedRefreshTokens |-> << >>,
   revoked |-> FALSE, expired |-> FALSE,
   provedPassword |-> password, provedFactor |-> factor]

\* Mutant: the versions are read again when the session is created.
CreateSessionRereads(r) ==
  /\ req[r].pc = "createSession"
  /\ Len(sessions) < MaxSessions /\ tokens < MaxTokens /\ MayHappen
  /\ sessions' = Append(sessions, NewSession(user, req[r].password, req[r].factor))
  /\ tokens' = tokens + 1
  /\ Becomes(r, Idle)
  /\ UNCHANGED <<user, challenges>>

\* createSession: the versions are those of the document the request holds.
CreateSession(r) ==
  /\ req[r].pc = "createSession"
  /\ Len(sessions) < MaxSessions /\ tokens < MaxTokens /\ MayHappen
  /\ sessions' = Append(sessions, NewSession(req[r].doc, req[r].password, req[r].factor))
  /\ tokens' = tokens + 1
  /\ Becomes(r, Idle)
  /\ UNCHANGED <<user, challenges>>

---------------------------------------------------------------------------
(* Using a session: the JWT strategy reads the session, then the user. *)

ReadSession(r, i) ==
  /\ req[r].pc = "idle"
  /\ i \in DOMAIN sessions
  /\ ~sessions[i].revoked /\ ~sessions[i].expired
  /\ Becomes(r, [pc |-> "validate", session |-> i])
  /\ UNCHANGED <<user, sessions, challenges, tokens>>

ValidateUser(r) ==
  /\ req[r].pc = "validate"
  /\ SessionMatches(sessions[req[r].session])
  /\ Becomes(r, [req[r] EXCEPT !.pc = "authenticated"])
  /\ UNCHANGED <<user, sessions, challenges, tokens>>

---------------------------------------------------------------------------
(* Refresh tokens. *)

IssuedFrom(s, t) == s.refreshToken = t \/ t \in Range(s.usedRefreshTokens)

Rotated(s) == [s EXCEPT !.refreshToken = tokens + 1,
                        !.usedRefreshTokens = Append(@, s.refreshToken)]

\* Mutants: the rotation does not look at revokedAt; or it also accepts a
\* token that was exchanged before.
RotateRevoked(r, i) ==
  /\ req[r].pc = "idle"
  /\ i \in DOMAIN sessions
  /\ ~sessions[i].expired
  /\ tokens < MaxTokens /\ MayHappen
  /\ tokens' = tokens + 1
  /\ sessions' = [sessions EXCEPT ![i] = Rotated(@)]
  /\ Becomes(r, [pc |-> "refresh", session |-> i])
  /\ UNCHANGED <<user, challenges>>

RotateAgain(r, i) ==
  /\ req[r].pc = "idle"
  /\ i \in DOMAIN sessions
  /\ ~sessions[i].revoked /\ ~sessions[i].expired
  /\ tokens < MaxTokens /\ MayHappen
  /\ tokens' = tokens + 1
  /\ \E t \in {sessions[i].refreshToken} \cup Range(sessions[i].usedRefreshTokens) :
       sessions' = [sessions EXCEPT ![i].refreshToken = tokens + 1,
                                    ![i].usedRefreshTokens = Append(@, t)]
  /\ Becomes(r, [pc |-> "refresh", session |-> i])
  /\ UNCHANGED <<user, challenges>>

\* refreshToken, with the token the session holds: exchanged in one step.
RotateRefresh(r, i) ==
  /\ req[r].pc = "idle"
  /\ i \in DOMAIN sessions
  /\ ~sessions[i].revoked /\ ~sessions[i].expired
  /\ tokens < MaxTokens /\ MayHappen
  /\ tokens' = tokens + 1
  /\ sessions' = [sessions EXCEPT ![i] = Rotated(@)]
  /\ Becomes(r, [pc |-> "refresh", session |-> i])
  /\ UNCHANGED <<user, challenges>>

\* The user is checked after the exchange. If it no longer matches, the
\* session is revoked; otherwise the tokens are answered.
CheckRefreshUser(r) ==
  /\ req[r].pc = "refresh"
  /\ Becomes(r, IF SessionMatches(sessions[req[r].session]) THEN Idle
                ELSE [req[r] EXCEPT !.pc = "revokeSession"])
  /\ UNCHANGED <<user, sessions, challenges, tokens>>

RevokeSession(r) ==
  /\ req[r].pc = "revokeSession"
  /\ sessions' = [sessions EXCEPT ![req[r].session].revoked = TRUE]
  /\ Becomes(r, Idle)
  /\ UNCHANGED <<user, challenges, tokens>>

\* refreshToken, with a token no usable session holds.
RefreshRefused(r, t) ==
  /\ req[r].pc = "idle"
  /\ t \in 1 .. tokens
  /\ \A i \in DOMAIN sessions :
       sessions[i].refreshToken = t => sessions[i].revoked \/ sessions[i].expired
  /\ Becomes(r, [pc |-> "replay", token |-> t])
  /\ UNCHANGED <<user, sessions, challenges, tokens>>

\* Mutant: replays are looked up among the current tokens.
RevokeReplayCurrent(r) ==
  /\ req[r].pc = "replay"
  /\ sessions' = Revoked({i \in DOMAIN sessions : sessions[i].refreshToken = req[r].token})
  /\ Becomes(r, [req[r] EXCEPT !.pc = "replayAnswered"])
  /\ UNCHANGED <<user, challenges, tokens>>

\* The session that has exchanged this token before is revoked.
RevokeReplay(r) ==
  /\ req[r].pc = "replay"
  /\ sessions' = Revoked({i \in DOMAIN sessions :
                           req[r].token \in Range(sessions[i].usedRefreshTokens)})
  /\ Becomes(r, [req[r] EXCEPT !.pc = "replayAnswered"])
  /\ UNCHANGED <<user, challenges, tokens>>

---------------------------------------------------------------------------
(* Logging out, with the refresh token of the cookie. *)

\* logoutSession finds the session the token is current in (expired or not).
LogoutFound(r, t) ==
  /\ req[r].pc = "idle"
  /\ \E i \in DOMAIN sessions : sessions[i].refreshToken = t /\ ~sessions[i].revoked
  /\ user.exists
  /\ Becomes(r, [pc |-> "logout", token |-> t])
  /\ UNCHANGED <<user, sessions, challenges, tokens>>

\* logoutSession finds none, and answers "Logged out successfully" as well.
LogoutNotFound(r, t) ==
  /\ req[r].pc = "idle"
  /\ t \in 1 .. tokens
  /\ ~user.exists \/ \A i \in DOMAIN sessions :
                       sessions[i].refreshToken = t => sessions[i].revoked
  /\ Becomes(r, [pc |-> "logoutAnswered", token |-> t])
  /\ UNCHANGED <<user, sessions, challenges, tokens>>

\* logout: every session of the user.
Logout(r) ==
  /\ req[r].pc = "logout"
  /\ sessions' = Revoked(DOMAIN sessions)
  /\ Becomes(r, [req[r] EXCEPT !.pc = "logoutAnswered"])
  /\ UNCHANGED <<user, challenges, tokens>>

---------------------------------------------------------------------------
(* Changing the password and the second factor. *)

\* resetPassword with a valid grant: read the user, hash the new password.
LoadGrant(r) ==
  /\ req[r].pc = "idle"
  /\ Usable(user)
  /\ Becomes(r, Holding("reset", user))
  /\ UNCHANGED <<user, sessions, challenges, tokens>>

\* The guarded update clears a pending enrolment; the sessions are revoked
\* afterwards.
ResetPassword(r) ==
  /\ req[r].pc = "reset"
  /\ PasswordUnchanged(req[r].doc)
  /\ user.passwordVersion < MaxPasswordVersion
  /\ MayHappen
  /\ user' = [user EXCEPT !.passwordVersion = @ + 1, !.pending = NoPending]
  /\ Becomes(r, [pc |-> "revokeAll", next |-> Idle])
  /\ UNCHANGED <<sessions, challenges, tokens>>

\* updateMany of a reset, of replaceMfaSession and of deleteUser.
RevokeAll(r) ==
  /\ req[r].pc = "revokeAll"
  /\ sessions' = Revoked(DOMAIN sessions)
  /\ Becomes(r, req[r].next)
  /\ UNCHANGED <<user, challenges, tokens>>

\* reauthenticate: the current user, whose password was compared.
Reauthenticate(r) ==
  /\ req[r].pc = "authenticated"
  /\ Usable(user)
  /\ Becomes(r, IF user.totpEnabled
                THEN [pc |-> "verifyProof", doc |-> user, challenge |-> 0]
                ELSE Holding("enroll", user))
  /\ UNCHANGED <<user, sessions, challenges, tokens>>

\* enroll stores a new pending secret, replacing an earlier one.
Enroll(r) ==
  /\ req[r].pc = "enroll"
  /\ PasswordUnchanged(req[r].doc)
  /\ ~user.totpEnabled
  /\ user.enrolments < MaxEnrolments
  /\ user' = [user EXCEPT
                !.pending = [factor |-> user.enrolments + 1,
                             passwordVersion |-> req[r].doc.passwordVersion],
                !.enrolments = @ + 1]
  /\ Becomes(r, Idle)
  /\ UNCHANGED <<sessions, challenges, tokens>>

\* confirm claims an attempt at the pending secret and checks the code.
ClaimConfirm(r) ==
  /\ req[r].pc = "authenticated"
  /\ Usable(user)
  /\ ~user.totpEnabled
  /\ user.pending.factor # 0
  /\ user.pending.passwordVersion = user.passwordVersion
  /\ Becomes(r, Holding("confirm", user))
  /\ UNCHANGED <<user, sessions, challenges, tokens>>

\* Mutant: enabling the second factor keeps mfaVersion.
EnableTotpKeepsVersion(r) ==
  /\ req[r].pc = "confirm"
  /\ PasswordUnchanged(req[r].doc)
  /\ ~user.totpEnabled
  /\ user.pending.factor = req[r].doc.pending.factor
  /\ user' = [user EXCEPT !.totpEnabled = TRUE, !.pending = NoPending]
  /\ Becomes(r, [pc |-> "revokeAll",
                 next |-> Creating(user', req[r].doc.pending.passwordVersion, TRUE)])
  /\ UNCHANGED <<sessions, challenges, tokens>>

\* confirm's guarded update; confirmTotp then replaces the sessions by one of
\* the updated user.
EnableTotp(r) ==
  /\ req[r].pc = "confirm"
  /\ PasswordUnchanged(req[r].doc)
  /\ ~user.totpEnabled
  /\ user.pending.factor = req[r].doc.pending.factor
  /\ user.mfaVersion < MaxMfaVersion
  /\ MayHappen
  /\ user' = [user EXCEPT !.totpEnabled = TRUE, !.mfaVersion = @ + 1,
                          !.pending = NoPending]
  /\ Becomes(r, [pc |-> "revokeAll",
                 next |-> Creating(user', req[r].doc.pending.passwordVersion, TRUE)])
  /\ UNCHANGED <<sessions, challenges, tokens>>

\* disable's guarded update; disableTotp then replaces the sessions.
DisableTotp(r) ==
  /\ req[r].pc = "disable"
  /\ FactorUnchanged(req[r].doc)
  /\ user.mfaVersion < MaxMfaVersion
  /\ MayHappen
  /\ user' = [user EXCEPT !.totpEnabled = FALSE, !.mfaVersion = @ + 1,
                          !.pending = NoPending]
  /\ Becomes(r, [pc |-> "revokeAll",
                 next |-> Creating(user', req[r].doc.passwordVersion, TRUE)])
  /\ UNCHANGED <<sessions, challenges, tokens>>

---------------------------------------------------------------------------
(* Administration. *)

\* updateUser loads the user and saves the fields that changed in its copy.
LoadUser(r) ==
  /\ req[r].pc = "idle"
  /\ user.exists
  /\ Becomes(r, [pc |-> "admin", isActive |-> user.isActive])
  /\ UNCHANGED <<user, sessions, challenges, tokens>>

SaveActive(r, isActive) ==
  /\ req[r].pc = "admin"
  /\ user.exists
  /\ user' = [user EXCEPT !.isActive = IF isActive # req[r].isActive
                                       THEN isActive ELSE @]
  /\ Becomes(r, Idle)
  /\ UNCHANGED <<sessions, challenges, tokens>>

\* deleteUser revokes the sessions, then deletes the document.
StartDelete(r) ==
  /\ req[r].pc = "admin"
  /\ Becomes(r, [pc |-> "revokeAll", next |-> [pc |-> "delete"]])
  /\ UNCHANGED <<user, sessions, challenges, tokens>>

DeleteUser(r) ==
  /\ req[r].pc = "delete"
  /\ user' = [user EXCEPT !.exists = FALSE]
  /\ Becomes(r, Idle)
  /\ UNCHANGED <<sessions, challenges, tokens>>

---------------------------------------------------------------------------
SignIn(r) ==
  \/ Login(r) \/ LoginDirectly(r) \/ StartChallenge(r) \/ VerifyProof(r)
  \/ ConsumeChallenge(r) \/ CreateSession(r)
  \/ \E c \in 1 .. MaxChallenges : VerifyLogin(r, c)

UseSession(r) ==
  \/ ValidateUser(r) \/ CheckRefreshUser(r) \/ RevokeSession(r) \/ RevokeReplay(r)
  \/ Logout(r)
  \/ \E i \in 1 .. MaxSessions : ReadSession(r, i) \/ RotateRefresh(r, i)
  \/ \E t \in Token : RefreshRefused(r, t) \/ LogoutFound(r, t) \/ LogoutNotFound(r, t)

ChangeAccount(r) ==
  \/ LoadGrant(r) \/ ResetPassword(r) \/ RevokeAll(r) \/ Reauthenticate(r)
  \/ Enroll(r) \/ ClaimConfirm(r) \/ EnableTotp(r) \/ DisableTotp(r)
  \/ LoadUser(r) \/ StartDelete(r) \/ DeleteUser(r)
  \/ \E isActive \in BOOLEAN : SaveActive(r, isActive)

Next ==
  \/ \E r \in Requests : Fail(r) \/ SignIn(r) \/ UseSession(r) \/ ChangeAccount(r)
  \/ \E i \in 1 .. MaxSessions : Expire(i)

Spec == Init /\ [][Next]_vars

---------------------------------------------------------------------------
CreatingRequest == [pc : {"createSession"}, doc : User, password : PasswordVersion,
                    factor : BOOLEAN]

TypeOK ==
  /\ user \in User
  /\ sessions \in Seq(Session) /\ Len(sessions) <= MaxSessions
  /\ challenges \in Seq(Challenge) /\ Len(challenges) <= MaxChallenges
  /\ tokens \in 0 .. MaxTokens
  /\ \A r \in Requests :
       \/ req[r] = Idle \/ req[r] = [pc |-> "delete"]
       \/ req[r] \in [pc : {"login", "reset", "enroll", "confirm", "disable"}, doc : User]
       \/ req[r] \in [pc : {"admin"}, isActive : BOOLEAN]
       \/ req[r] \in [pc : {"verifyProof", "consume"}, doc : User,
                      challenge : 0 .. Len(challenges)]
       \/ req[r] \in [pc : {"validate", "authenticated", "refresh", "revokeSession"},
                      session : DOMAIN sessions]
       \/ req[r] \in [pc : {"replay", "replayAnswered", "logout", "logoutAnswered"},
                      token : 1 .. tokens]
       \/ req[r] \in CreatingRequest
       \/ req[r] \in [pc : {"revokeAll"},
                      next : {Idle, [pc |-> "delete"]} \cup CreatingRequest]

\* A session the strategy or a refresh still accepts was created by a request
\* that was shown the current password: a login that compared the old password
\* while it was being reset leaves a session that is never accepted, revoked
\* or not.
SessionProvedPassword ==
  \A i \in DOMAIN sessions :
    SessionMatches(sessions[i]) => sessions[i].provedPassword = user.passwordVersion

\* "Changes to MFA invalidate older sessions" (AUTHENTICATION.md): while the
\* second factor is on, every accepted session was created with it, also one
\* whose login had begun before it was turned on.
SessionProvedFactor ==
  user.totpEnabled =>
    \A i \in DOMAIN sessions : SessionMatches(sessions[i]) => sessions[i].provedFactor

\* No refresh token is exchanged twice or belongs to two sessions.
TokenExchangedOnce ==
  \A i, j \in DOMAIN sessions :
    /\ IsInjective(sessions[i].usedRefreshTokens)
    /\ sessions[i].refreshToken \notin Range(sessions[i].usedRefreshTokens)
    /\ \A t \in 1 .. tokens :
         IssuedFrom(sessions[i], t) /\ IssuedFrom(sessions[j], t) => i = j

\* When a token that was exchanged before is refused, its session is dead,
\* whatever token the session has been rotated to meanwhile. When a logout is
\* answered, its token is worth nothing any more; but a refresh that exchanged it
\* just before keeps the session, "Logout and invalidate session"
\* (auth.controller.ts:134) notwithstanding.
ReplayAndLogoutRevoke ==
  \A r \in Requests, i \in DOMAIN sessions :
    /\ req[r].pc = "replayAnswered" /\ req[r].token \in Range(sessions[i].usedRefreshTokens)
         => sessions[i].revoked
    /\ req[r].pc = "logoutAnswered" /\ req[r].token = sessions[i].refreshToken
         => sessions[i].revoked \/ ~SessionMatches(sessions[i])

\* No step gives a revoked session back, or exchanges its token.
StayRevoked ==
  \A i \in DOMAIN sessions : sessions[i].revoked =>
    /\ sessions'[i].revoked
    /\ sessions'[i].refreshToken = sessions[i].refreshToken

\* A revoked session stays revoked and its token is never exchanged again.
RevokedForever == [][StayRevoked]_vars
=============================================================================
