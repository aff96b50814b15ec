------------------------- MODULE AuthSessionProofs --------------------------
(***************************************************************************)
(* Proofs about AuthSession for any number of requests, sessions, tokens,  *)
(* challenges and changes of the account.                                  *)
(*                                                                         *)
(* The argument: a session carries the versions of the document its        *)
(* request held, and the password it was shown is the one of that version. *)
(* A document without the factor is of an mfaVersion at which the factor   *)
(* is off. Every refresh token is new when it is issued, so it belongs to  *)
(* one session; and a session only gives up its token while it is neither  *)
(* revoked nor expired.                                                    *)
(***************************************************************************)
EXTENDS AuthSession, SequenceTheorems, TLAPS

\* What a request holds.
HoldingRequest == [pc : {"login", "reset", "enroll", "confirm", "disable"}, doc : User]
AdminRequest == [pc : {"admin"}, isActive : BOOLEAN]
ProofRequest == [pc : {"verifyProof", "consume"}, doc : User,
                 challenge : 0 .. MaxChallenges]
SessionRequest == [pc : {"validate", "authenticated", "refresh", "revokeSession"},
                   session : 1 .. MaxSessions]
TokenRequest == [pc : {"replay", "replayAnswered", "logout", "logoutAnswered"},
                 token : Token]
Deleting == [pc |-> "delete"]
RevokingRequest == [pc : {"revokeAll"}, next : {Idle, Deleting} \cup CreatingRequest]
RequestState ==
  {Idle, Deleting} \cup HoldingRequest \cup AdminRequest \cup ProofRequest
    \cup SessionRequest \cup TokenRequest \cup CreatingRequest \cup RevokingRequest

Typed ==
  /\ user \in User
  /\ sessions \in Seq(Session) /\ Len(sessions) <= MaxSessions
  /\ challenges \in Seq(Challenge) /\ Len(challenges) <= MaxChallenges
  /\ tokens \in 0 .. MaxTokens
  /\ req \in [Requests -> RequestState]

\* At this mfaVersion the factor is off, or it is no longer the user's.
FactorOff(mfaVersion) ==
  /\ mfaVersion <= user.mfaVersion
  /\ mfaVersion = user.mfaVersion => ~user.totpEnabled

\* The session a request is about to create.
CreatingOK(state) ==
  /\ state.password = state.doc.passwordVersion
  /\ ~state.factor => FactorOff(state.doc.mfaVersion)

Holds(state) ==
  /\ state.pc = "login" /\ ~state.doc.totpEnabled => FactorOff(state.doc.mfaVersion)
  /\ state.pc = "confirm" => state.doc.pending.passwordVersion = state.doc.passwordVersion
  /\ state.pc = "consume" => state.challenge # 0
  /\ state.pc \in {"verifyProof", "consume"} /\ state.challenge # 0 =>
       /\ state.challenge \in DOMAIN challenges
       /\ challenges[state.challenge].passwordVersion = state.doc.passwordVersion
  /\ state.pc = "createSession" => CreatingOK(state)
  /\ state.pc = "revokeAll" /\ state.next.pc = "createSession" => CreatingOK(state.next)
  /\ state.pc \in {"validate", "authenticated", "refresh", "revokeSession"} =>
       state.session \in DOMAIN sessions
  /\ state.pc \in {"replay", "replayAnswered", "logout", "logoutAnswered"} =>
       state.token <= tokens
  /\ state.pc \in {"replay", "replayAnswered"} =>
       \A i \in DOMAIN sessions :
         sessions[i].refreshToken = state.token => sessions[i].revoked \/ sessions[i].expired
  /\ state.pc = "replayAnswered" =>
       \A i \in DOMAIN sessions :
         state.token \in Range(sessions[i].usedRefreshTokens) => sessions[i].revoked
  /\ state.pc = "logoutAnswered" =>
       \/ ~user.exists
       \/ \A i \in DOMAIN sessions :
            sessions[i].refreshToken = state.token => sessions[i].revoked

ProvedOK ==
  \A i \in DOMAIN sessions :
    /\ sessions[i].provedPassword = sessions[i].passwordVersion
    /\ ~sessions[i].provedFactor => FactorOff(sessions[i].mfaVersion)

\* Every token a session holds or held was issued, once, and to it alone.
TokensOf(s) == {s.refreshToken} \cup Range(s.usedRefreshTokens)

TokensOK ==
  /\ \A i \in DOMAIN sessions :
       /\ TokensOf(sessions[i]) \subseteq 1 .. tokens
       /\ IsInjective(sessions[i].usedRefreshTokens)
       /\ sessions[i].refreshToken \notin Range(sessions[i].usedRefreshTokens)
  /\ \A i, j \in DOMAIN sessions :
       i # j => TokensOf(sessions[i]) \cap TokensOf(sessions[j]) = {}

Inductive ==
  /\ Typed
  /\ \A r \in Requests : Holds(req[r])
  /\ ProvedOK
  /\ TokensOK

---------------------------------------------------------------------------
LEMMA BoundsNat ==
  /\ MaxPasswordVersion \in Nat /\ MaxMfaVersion \in Nat /\ MaxEnrolments \in Nat
  /\ MaxChallenges \in Nat /\ MaxSessions \in Nat /\ MaxTokens \in Nat
BY BoundsAssumption

LEMMA UserType ==
  ASSUME NEW u \in User
  PROVE  /\ u.passwordVersion \in PasswordVersion /\ u.passwordVersion \in Nat
         /\ u.mfaVersion \in MfaVersion /\ u.mfaVersion \in Nat
         /\ u.enrolments \in 0 .. MaxEnrolments /\ u.pending \in Pending
         /\ u.pending.passwordVersion \in PasswordVersion
         /\ u.totpEnabled \in BOOLEAN /\ u.isActive \in BOOLEAN /\ u.exists \in BOOLEAN
<1>1. u.pending \in Pending
  BY DEF User
<1> QED BY <1>1 DEF User, Pending, PasswordVersion, MfaVersion

LEMMA NothingType == NoPending \in Pending
BY BoundsNat DEF NoPending, Pending, PasswordVersion

LEMMA SessionsType ==
  ASSUME Typed
  PROVE  /\ Len(sessions) \in Nat /\ DOMAIN sessions = 1 .. Len(sessions)
         /\ DOMAIN sessions \subseteq 1 .. MaxSessions
         /\ \A i \in DOMAIN sessions : sessions[i] \in Session
         /\ tokens \in Nat
<1>1. sessions \in Seq(Session) /\ Len(sessions) <= MaxSessions /\ tokens \in 0 .. MaxTokens
  BY DEF Typed
<1>2. Len(sessions) \in Nat /\ DOMAIN sessions = 1 .. Len(sessions)
  BY <1>1, LenProperties
<1> QED BY <1>1, <1>2, ElementOfSeq, BoundsNat

LEMMA ChallengesType ==
  ASSUME Typed
  PROVE  /\ Len(challenges) \in Nat /\ DOMAIN challenges = 1 .. Len(challenges)
         /\ DOMAIN challenges \subseteq 1 .. MaxChallenges
         /\ \A c \in DOMAIN challenges : challenges[c] \in Challenge
<1>1. challenges \in Seq(Challenge) /\ Len(challenges) <= MaxChallenges
  BY DEF Typed
<1>2. Len(challenges) \in Nat /\ DOMAIN challenges = 1 .. Len(challenges)
  BY <1>1, LenProperties
<1> QED BY <1>1, <1>2, ElementOfSeq, BoundsNat

\* Program counters of the records a request may hold.
LEMMA StateSorts ==
  ASSUME NEW state \in RequestState
  PROVE  /\ state.pc \in {"login", "reset", "enroll", "confirm", "disable"} =>
              state \in HoldingRequest
         /\ state.pc \in {"verifyProof", "consume"} => state \in ProofRequest
         /\ state.pc \in {"validate", "authenticated", "refresh", "revokeSession"} =>
              state \in SessionRequest
         /\ state.pc \in {"replay", "replayAnswered", "logout", "logoutAnswered"} =>
              state \in TokenRequest
         /\ state.pc = "createSession" => state \in CreatingRequest
         /\ state.pc = "revokeAll" => state \in RevokingRequest
         /\ state.pc = "admin" => state \in AdminRequest
         /\ state.pc = "idle" => state = Idle
         /\ state.pc = "delete" => state = Deleting
BY DEF RequestState, HoldingRequest, ProofRequest, SessionRequest, TokenRequest,
       CreatingRequest, RevokingRequest, AdminRequest, Idle, Deleting

LEMMA InitInductive == Init => Inductive
<1> SUFFICES ASSUME Init PROVE Inductive
  OBVIOUS
<1>1. user \in User
  BY NothingType, BoundsNat DEF Init, User, PasswordVersion, MfaVersion
<1>2. /\ sessions \in Seq(Session) /\ Len(sessions) = 0 /\ DOMAIN sessions = {}
      /\ challenges \in Seq(Challenge) /\ Len(challenges) = 0
  BY EmptySeq DEF Init
<1>3. tokens \in 0 .. MaxTokens /\ req \in [Requests -> RequestState]
  BY BoundsNat DEF Init, RequestState
<1>4. Typed
  BY <1>1, <1>2, <1>3, BoundsNat DEF Typed
<1>5. \A r \in Requests : req[r] = Idle /\ Idle.pc = "idle"
  BY DEF Init, Idle
<1>6. \A r \in Requests : Holds(req[r])
  BY <1>5 DEF Holds
<1> QED BY <1>2, <1>4, <1>6 DEF Inductive, ProvedOK, TokensOK

---------------------------------------------------------------------------
\* The account, its sessions and its tokens only go forward.
AccountForward ==
  /\ user.mfaVersion <= user'.mfaVersion
  /\ user'.mfaVersion = user.mfaVersion /\ user'.totpEnabled => user.totpEnabled
  /\ user'.exists => user.exists
  /\ DOMAIN challenges \subseteq DOMAIN challenges'
  /\ \A c \in DOMAIN challenges :
       challenges'[c].passwordVersion = challenges[c].passwordVersion

\* A session keeps its tokens, or exchanges the current one for a new one.
SessionForward(i) ==
  /\ sessions[i].revoked => sessions'[i].revoked
  /\ sessions[i].expired => sessions'[i].expired
  /\ \/ /\ sessions'[i].refreshToken = sessions[i].refreshToken
        /\ sessions'[i].usedRefreshTokens = sessions[i].usedRefreshTokens
     \/ /\ ~sessions[i].revoked /\ ~sessions[i].expired
        /\ sessions'[i].refreshToken = tokens + 1
        /\ \A t \in Range(sessions'[i].usedRefreshTokens) :
             t = sessions[i].refreshToken \/ t \in Range(sessions[i].usedRefreshTokens)

SessionsForward ==
  /\ tokens <= tokens'
  /\ DOMAIN sessions \subseteq DOMAIN sessions'
  /\ \A i \in DOMAIN sessions : SessionForward(i)
  /\ \A i \in DOMAIN sessions' \ DOMAIN sessions :
       /\ sessions'[i].refreshToken = tokens + 1
       /\ Range(sessions'[i].usedRefreshTokens) = {}

Forward == AccountForward /\ SessionsForward

LEMMA FactorStaysOff ==
  ASSUME user \in User, user' \in User, AccountForward, NEW v \in MfaVersion, FactorOff(v)
  PROVE  FactorOff(v)'
<1>1. v \in Nat /\ user.mfaVersion \in Nat /\ user'.mfaVersion \in Nat
  BY DEF MfaVersion, User
<1> QED BY <1>1 DEF FactorOff, AccountForward

\* What a request holds survives the steps of every other.
LEMMA StillHolds ==
  ASSUME Typed, user' \in User, tokens' \in Nat, Forward,
         NEW state \in RequestState, Holds(state)
  PROVE  Holds(state)'
<1>0. user \in User
  BY DEF Typed
<1>1. state.pc = "login" /\ ~state.doc.totpEnabled => FactorOff(state.doc.mfaVersion)'
  <2> SUFFICES ASSUME state.pc = "login", ~state.doc.totpEnabled
               PROVE  FactorOff(state.doc.mfaVersion)'
    OBVIOUS
  <2>1. PICK v \in MfaVersion : v = state.doc.mfaVersion
    BY StateSorts DEF HoldingRequest, User
  <2>2. FactorOff(v)
    BY <2>1 DEF Holds
  <2>3. FactorOff(v)'
    BY <1>0, <2>2, FactorStaysOff DEF Forward
  <2> QED BY <2>1, <2>3 DEF FactorOff
<1>2. ASSUME NEW creating \in CreatingRequest, CreatingOK(creating)
      PROVE  CreatingOK(creating)'
  <2>1. PICK v \in MfaVersion : v = creating.doc.mfaVersion
    BY DEF CreatingRequest, User
  <2>2. ~creating.factor => FactorOff(v)
    BY <1>2, <2>1 DEF CreatingOK
  <2>3. ~creating.factor => FactorOff(v)'
    BY <1>0, <2>2, FactorStaysOff DEF Forward
  <2> QED BY <1>2, <2>1, <2>3 DEF CreatingOK, FactorOff
<1>3. state.pc = "createSession" => CreatingOK(state)'
  BY <1>2, StateSorts DEF Holds
<1>4. state.pc = "revokeAll" /\ state.next.pc = "createSession" => CreatingOK(state.next)'
  <2> SUFFICES ASSUME state.pc = "revokeAll", state.next.pc = "createSession"
               PROVE  CreatingOK(state.next)'
    OBVIOUS
  <2>1. PICK creating \in CreatingRequest : creating = state.next
    BY StateSorts DEF RevokingRequest, Idle, Deleting
  <2>2. CreatingOK(creating)'
    BY <1>2, <2>1 DEF Holds
  <2> QED BY <2>1, <2>2 DEF CreatingOK, FactorOff
<1>5. state.pc \in {"verifyProof", "consume"} /\ state.challenge # 0 =>
       /\ state.challenge \in DOMAIN challenges'
       /\ challenges'[state.challenge].passwordVersion = state.doc.passwordVersion
  BY DEF Holds, Forward, AccountForward
<1>6. state.pc \in {"validate", "authenticated", "refresh", "revokeSession"} =>
       state.session \in DOMAIN sessions'
  BY DEF Holds, Forward, SessionsForward
<1>7. ASSUME state.pc \in {"replay", "replayAnswered", "logout", "logoutAnswered"}
      PROVE  /\ state.token <= tokens' /\ state.token # tokens + 1
             /\ state.token \in Nat
  <2>1. state.token \in Nat /\ tokens \in Nat
    BY <1>7, StateSorts, SessionsType, BoundsNat DEF TokenRequest, Token
  <2>2. state.token <= tokens
    BY <1>7 DEF Holds
  <2> QED BY <2>1, <2>2, <1>7 DEF Forward, SessionsForward
<1>8. ASSUME state.pc \in {"replay", "replayAnswered"}, NEW i \in DOMAIN sessions',
             sessions'[i].refreshToken = state.token
      PROVE  sessions'[i].revoked \/ sessions'[i].expired
  <2>1. i \in DOMAIN sessions /\ SessionForward(i)
    BY <1>7, <1>8 DEF Forward, SessionsForward
  <2>2. sessions[i].refreshToken = state.token
    BY <1>7, <1>8, <2>1 DEF SessionForward
  <2> QED BY <1>8, <2>1, <2>2 DEF Holds, SessionForward
<1>9. ASSUME state.pc = "replayAnswered", NEW i \in DOMAIN sessions',
             state.token \in Range(sessions'[i].usedRefreshTokens)
      PROVE  sessions'[i].revoked
  <2>1. i \in DOMAIN sessions /\ SessionForward(i)
    BY <1>9 DEF Forward, SessionsForward
  <2>2. CASE state.token \in Range(sessions[i].usedRefreshTokens)
    BY <1>9, <2>1, <2>2 DEF Holds, SessionForward
  <2>3. CASE state.token \notin Range(sessions[i].usedRefreshTokens)
    <3>1. state.token = sessions[i].refreshToken /\ ~sessions[i].revoked /\ ~sessions[i].expired
      BY <1>9, <2>1, <2>3 DEF SessionForward
    <3> QED BY <1>9, <3>1, <2>1 DEF Holds
  <2> QED BY <2>2, <2>3
<1>10. ASSUME state.pc = "logoutAnswered", user'.exists, NEW i \in DOMAIN sessions',
              sessions'[i].refreshToken = state.token
       PROVE  sessions'[i].revoked
  <2>1. i \in DOMAIN sessions /\ SessionForward(i)
    BY <1>7, <1>10 DEF Forward, SessionsForward
  <2>2. sessions[i].refreshToken = state.token
    BY <1>7, <1>10, <2>1 DEF SessionForward
  <2>3. user.exists
    BY <1>10 DEF Forward, AccountForward
  <2> QED BY <1>10, <2>1, <2>2, <2>3 DEF Holds, SessionForward
<1>11. /\ state.pc = "confirm" => state.doc.pending.passwordVersion = state.doc.passwordVersion
       /\ state.pc = "consume" => state.challenge # 0
  BY DEF Holds
<1> QED BY <1>1, <1>3, <1>4, <1>5, <1>6, <1>7, <1>8, <1>9, <1>10, <1>11 DEF Holds

\* No request moves, or one does, to a state that holds before or after.
Moves ==
  \/ req' = req
  \/ \E r \in Requests, state \in RequestState :
       /\ Holds(state) \/ Holds(state)'
       /\ req' = [req EXCEPT ![r] = state]

LEMMA RequestsHold ==
  ASSUME Inductive, user' \in User, tokens' \in Nat, Forward, Moves
  PROVE  /\ req' \in [Requests -> RequestState]
         /\ \A s \in Requests : Holds(req[s])'
<1>1. req' \in [Requests -> RequestState]
  BY DEF Inductive, Typed, Moves
<1>2. ASSUME NEW s \in Requests PROVE Holds(req[s])'
  <2>1. PICK old \in RequestState : old = req'[s] /\ (Holds(old) \/ Holds(old)')
    BY DEF Inductive, Typed, Moves
  <2>2. Holds(old) => Holds(old)'
    <3> SUFFICES ASSUME Holds(old) PROVE Holds(old)'
      OBVIOUS
    <3>1. Typed
      BY DEF Inductive
    <3> QED BY <3>1, StillHolds, Zenon
  <2>3. Holds(old)'
    BY <2>1, <2>2
  <2> QED BY <2>1, <2>3, SMTT(30) DEF Holds, CreatingOK, FactorOff
<1> QED BY <1>1, <1>2

LEMMA MoveTo ==
  ASSUME NEW r \in Requests, NEW state \in {Idle, Deleting}, req' = [req EXCEPT ![r] = state]
  PROVE  Moves
<1>1. state \in RequestState /\ Holds(state)
  BY DEF RequestState, Idle, Deleting, Holds
<1> QED BY <1>1 DEF Moves

---------------------------------------------------------------------------
(* Steps of the requests, the challenges and the account. *)

LEMMA AccountInductive ==
  ASSUME Inductive, Moves, UNCHANGED <<sessions, tokens>>, user' \in User, AccountForward,
         challenges' \in Seq(Challenge), Len(challenges') <= MaxChallenges
  PROVE  Inductive' /\ Forward
<1>1. Forward
  BY SessionsType DEF Inductive, Forward, SessionsForward, SessionForward
<1>2. /\ req' \in [Requests -> RequestState]
      /\ \A s \in Requests : Holds(req[s])'
  BY <1>1, RequestsHold, SessionsType DEF Inductive
<1>3. Typed'
  BY <1>2 DEF Inductive, Typed
<1>4. ProvedOK'
  <2> SUFFICES ASSUME NEW i \in DOMAIN sessions
               PROVE  /\ sessions[i].provedPassword = sessions[i].passwordVersion
                      /\ ~sessions[i].provedFactor => FactorOff(sessions[i].mfaVersion)'
    BY DEF ProvedOK, FactorOff
  <2>1. PICK v \in MfaVersion : v = sessions[i].mfaVersion
    BY SessionsType DEF Inductive, Session
  <2>2. ~sessions[i].provedFactor => FactorOff(v)'
    BY <2>1, FactorStaysOff DEF Inductive, ProvedOK, Typed
  <2> QED BY <2>1, <2>2 DEF Inductive, ProvedOK, FactorOff
<1>5. TokensOK'
  BY DEF Inductive, TokensOK, TokensOf
<1> QED BY <1>1, <1>2, <1>3, <1>4, <1>5 DEF Inductive

\* A step that only moves one request.
LEMMA ReadInductive ==
  ASSUME Inductive, Moves, UNCHANGED <<user, sessions, challenges, tokens>>
  PROVE  Inductive' /\ Forward
<1>1. AccountForward
  BY UserType DEF Inductive, Typed, AccountForward
<1>2. user' \in User /\ challenges' \in Seq(Challenge) /\ Len(challenges') <= MaxChallenges
  BY DEF Inductive, Typed
<1> QED BY <1>1, <1>2, AccountInductive

LEMMA UserChanged ==
  ASSUME Inductive, Moves, UNCHANGED <<sessions, challenges, tokens>>, user' \in User,
         user.mfaVersion <= user'.mfaVersion,
         user'.mfaVersion = user.mfaVersion /\ user'.totpEnabled => user.totpEnabled,
         user'.exists => user.exists
  PROVE  Inductive' /\ Forward
<1>1. AccountForward
  BY DEF AccountForward
<1>2. challenges' \in Seq(Challenge) /\ Len(challenges') <= MaxChallenges
  BY DEF Inductive, Typed
<1> QED BY <1>1, <1>2, AccountInductive

LEMMA StartChallengeInductive ==
  ASSUME Inductive, NEW r \in Requests, StartChallenge(r)
  PROVE  Inductive' /\ Forward
<1>1. req[r].doc \in User
  BY StateSorts DEF StartChallenge, Inductive, Typed, HoldingRequest
<1>2. PICK doc \in Challenge : challenges' = Append(challenges, doc)
  <2>1. [passwordVersion |-> req[r].doc.passwordVersion,
         mfaVersion |-> req[r].doc.mfaVersion, consumed |-> FALSE] \in Challenge
    BY <1>1, UserType DEF Challenge
  <2> QED BY <2>1 DEF StartChallenge
<1>3. challenges \in Seq(Challenge) /\ Len(challenges) \in Nat
      /\ DOMAIN challenges = 1 .. Len(challenges) /\ Len(challenges) < MaxChallenges
  BY ChallengesType DEF Inductive, Typed, StartChallenge
<1>4. /\ challenges' \in Seq(Challenge) /\ Len(challenges') = Len(challenges) + 1
      /\ \A c \in DOMAIN challenges : challenges'[c] = challenges[c]
  BY <1>2, <1>3, AppendProperties
<1>5. DOMAIN challenges \subseteq DOMAIN challenges'
  BY <1>3, <1>4, LenProperties
<1>6. UNCHANGED <<user, sessions, tokens>> /\ Moves
  BY MoveTo DEF StartChallenge, Becomes
<1>7. AccountForward
  BY <1>4, <1>5, <1>6, UserType DEF AccountForward, Inductive, Typed
<1>8. user' \in User /\ Len(challenges') <= MaxChallenges
  BY <1>3, <1>4, <1>6, BoundsNat DEF Inductive, Typed
<1> QED BY <1>4, <1>6, <1>7, <1>8, AccountInductive

LEMMA ConsumeInductive ==
  ASSUME Inductive, NEW r \in Requests, ConsumeChallenge(r)
  PROVE  Inductive' /\ Forward
<1>1. PICK old \in ProofRequest : old = req[r] /\ old.pc = "consume" /\ Holds(old)
  BY StateSorts DEF ConsumeChallenge, Inductive, Typed
<1>2. PICK c \in DOMAIN challenges :
        c = old.challenge /\ challenges[c].passwordVersion = old.doc.passwordVersion
  BY <1>1 DEF Holds
<1>3. challenges[c] \in Challenge
  BY ChallengesType DEF Inductive
<1>4. PICK doc \in Challenge : doc = [challenges[c] EXCEPT !.consumed = TRUE]
  BY <1>3 DEF Challenge
<1>5. challenges' = [challenges EXCEPT ![c] = doc] /\ UNCHANGED <<user, sessions, tokens>>
  BY <1>1, <1>2, <1>4 DEF ConsumeChallenge
<1>6. doc.passwordVersion = challenges[c].passwordVersion
  BY <1>3, <1>4 DEF Challenge
<1>7. /\ challenges' \in Seq(Challenge) /\ Len(challenges') = Len(challenges)
      /\ \A d \in DOMAIN challenges :
           challenges'[d].passwordVersion = challenges[d].passwordVersion
      /\ DOMAIN challenges' = DOMAIN challenges
  BY <1>5, <1>6, ExceptSeq, ChallengesType DEF Inductive, Typed
<1>8. PICK state \in CreatingRequest :
        /\ state = Creating(old.doc, challenges[c].passwordVersion, TRUE)
        /\ req' = [req EXCEPT ![r] = state]
  <2>1. Creating(old.doc, challenges[c].passwordVersion, TRUE) \in CreatingRequest
    BY <1>3 DEF Creating, CreatingRequest, Challenge, ProofRequest
  <2> QED BY <1>1, <1>2, <2>1 DEF ConsumeChallenge, Becomes
<1>9. Holds(state) /\ state \in RequestState
  BY <1>2, <1>8 DEF Holds, CreatingOK, Creating, RequestState
<1>10. Moves
  BY <1>8, <1>9 DEF Moves
<1>11. AccountForward
  BY <1>5, <1>7, UserType DEF AccountForward, Inductive, Typed
<1>12. user' \in User /\ Len(challenges') <= MaxChallenges
  BY <1>5, <1>7 DEF Inductive, Typed
<1> QED BY <1>5, <1>7, <1>10, <1>11, <1>12, AccountInductive

\* The updates of the user: the factor changes only with its version, and a
\* deleted user stays deleted.
LEMMA ResetInductive ==
  ASSUME Inductive, NEW r \in Requests, ResetPassword(r)
  PROVE  Inductive' /\ Forward
<1>1. user \in User /\ user.passwordVersion \in Nat /\ user.mfaVersion \in Nat
  BY UserType DEF Inductive, Typed
<1>2. PICK v \in PasswordVersion : v = user.passwordVersion + 1
  BY <1>1, BoundsNat DEF ResetPassword, PasswordVersion
<1>3. user' = [user EXCEPT !.passwordVersion = v, !.pending = NoPending]
  <2>1. user' = [user EXCEPT !.passwordVersion = user.passwordVersion + 1,
                             !.pending = NoPending]
    BY <1>1 DEF ResetPassword, User
  <2> QED BY <1>2, <2>1
<1>4. user' \in User
  BY <1>1, <1>3, NothingType DEF User
<1>5. user'.mfaVersion = user.mfaVersion /\ user'.totpEnabled = user.totpEnabled
      /\ user'.exists = user.exists
  BY <1>1, <1>3 DEF User
<1>6. PICK state \in RequestState : state = [pc |-> "revokeAll", next |-> Idle]
  BY DEF RequestState, RevokingRequest
<1>7. Holds(state)
  BY <1>6 DEF Holds, Idle
<1>8. Moves /\ UNCHANGED <<sessions, challenges, tokens>>
  BY <1>6, <1>7 DEF Moves, ResetPassword, Becomes
<1>9. user.mfaVersion <= user'.mfaVersion
  BY <1>1, <1>5
<1> QED BY <1>4, <1>5, <1>8, <1>9, UserChanged

LEMMA EnrollInductive ==
  ASSUME Inductive, NEW r \in Requests, Enroll(r)
  PROVE  Inductive' /\ Forward
<1>1. user \in User /\ user.enrolments \in 0 .. MaxEnrolments /\ user.mfaVersion \in Nat
  BY UserType DEF Inductive, Typed
<1>2. req[r].doc.passwordVersion \in PasswordVersion
  BY StateSorts, UserType DEF Enroll, Inductive, Typed, HoldingRequest
<1>3. PICK n \in 0 .. MaxEnrolments : n = user.enrolments + 1
  BY <1>1, BoundsNat DEF Enroll
<1>4. PICK pending \in Pending :
        pending = [factor |-> n, passwordVersion |-> req[r].doc.passwordVersion]
  BY <1>2 DEF Pending
<1>5. user' = [user EXCEPT !.pending = pending, !.enrolments = n]
  <2>1. user' = [user EXCEPT
                   !.pending = [factor |-> user.enrolments + 1,
                                passwordVersion |-> req[r].doc.passwordVersion],
                   !.enrolments = user.enrolments + 1]
    BY <1>1 DEF Enroll, User
  <2> QED BY <1>3, <1>4, <2>1
<1>6. user' \in User
  BY <1>1, <1>5 DEF User
<1>7. user'.mfaVersion = user.mfaVersion /\ user'.totpEnabled = user.totpEnabled
      /\ user'.exists = user.exists
  BY <1>1, <1>5 DEF User
<1>8. Moves /\ UNCHANGED <<sessions, challenges, tokens>>
  BY MoveTo DEF Enroll, Becomes
<1>9. user.mfaVersion <= user'.mfaVersion
  BY <1>1, <1>7
<1> QED BY <1>6, <1>7, <1>8, <1>9, UserChanged

\* The factor is turned on, or off; the session to be created was shown both.
LEMMA SwitchInductive ==
  ASSUME Inductive, NEW r \in Requests, EnableTotp(r) \/ DisableTotp(r)
  PROVE  Inductive' /\ Forward
<1>1. user \in User /\ user.passwordVersion \in Nat /\ user.mfaVersion \in Nat
      /\ user.passwordVersion \in PasswordVersion
  BY UserType DEF Inductive, Typed
<1>2. PICK old \in HoldingRequest : old = req[r] /\ Holds(old)
  BY StateSorts DEF EnableTotp, DisableTotp, Inductive, Typed
<1>3. PICK v \in MfaVersion : v = user.mfaVersion + 1
  BY <1>1, BoundsNat DEF EnableTotp, DisableTotp, MfaVersion
<1>4. PICK on \in BOOLEAN :
        user' = [user EXCEPT !.totpEnabled = on, !.mfaVersion = v, !.pending = NoPending]
  <2>1. \/ user' = [user EXCEPT !.totpEnabled = TRUE, !.mfaVersion = user.mfaVersion + 1,
                                !.pending = NoPending]
        \/ user' = [user EXCEPT !.totpEnabled = FALSE, !.mfaVersion = user.mfaVersion + 1,
                                !.pending = NoPending]
    BY <1>1 DEF EnableTotp, DisableTotp, User
  <2> QED BY <1>3, <2>1
<1>5. user' \in User
  BY <1>1, <1>4, NothingType DEF User
<1>6. user'.mfaVersion = v /\ user'.exists = user.exists
      /\ user'.passwordVersion = user.passwordVersion
  BY <1>1, <1>4 DEF User
<1>7. req' = [req EXCEPT ![r] = [pc |-> "revokeAll",
                                 next |-> Creating(user', user.passwordVersion, TRUE)]]
  <2>1. CASE EnableTotp(r)
    <3>1. old.doc.pending.passwordVersion = user.passwordVersion
      BY <1>2, <2>1 DEF EnableTotp, PasswordUnchanged, Holds
    <3> QED BY <1>2, <2>1, <3>1 DEF EnableTotp, Becomes
  <2>2. CASE DisableTotp(r)
    BY <2>2 DEF DisableTotp, FactorUnchanged, PasswordUnchanged, Becomes
  <2> QED BY <2>1, <2>2
<1>8. PICK creating \in CreatingRequest :
        /\ creating = Creating(user', user.passwordVersion, TRUE)
        /\ CreatingOK(creating)
  <2>1. Creating(user', user.passwordVersion, TRUE) \in CreatingRequest
    BY <1>1, <1>5 DEF Creating, CreatingRequest
  <2> QED BY <1>6, <2>1 DEF Creating, CreatingOK
<1>9. PICK state \in RequestState : state = [pc |-> "revokeAll", next |-> creating]
  BY DEF RequestState, RevokingRequest
<1>10. Holds(state)
  BY <1>8, <1>9 DEF Holds
<1>11. Moves
  BY <1>7, <1>8, <1>9, <1>10 DEF Moves
<1>12. UNCHANGED <<sessions, challenges, tokens>>
  BY DEF EnableTotp, DisableTotp
<1>13. user.mfaVersion <= user'.mfaVersion /\ user'.mfaVersion # user.mfaVersion
  BY <1>1, <1>3, <1>6
<1> QED BY <1>5, <1>6, <1>11, <1>12, <1>13, UserChanged

LEMMA AdminInductive ==
  ASSUME Inductive, NEW r \in Requests,
         DeleteUser(r) \/ \E isActive \in BOOLEAN : SaveActive(r, isActive)
  PROVE  Inductive' /\ Forward
<1>1. user \in User /\ user.mfaVersion \in Nat
  BY UserType DEF Inductive, Typed
<1>2. Moves /\ UNCHANGED <<sessions, challenges, tokens>>
  BY MoveTo DEF DeleteUser, SaveActive, Becomes
<1>3. /\ user' \in User /\ user'.mfaVersion = user.mfaVersion
      /\ user'.totpEnabled = user.totpEnabled
      /\ user'.exists => user.exists
  <2>1. CASE DeleteUser(r)
    BY <1>1, <2>1 DEF DeleteUser, User
  <2>2. ASSUME NEW isActive \in BOOLEAN, SaveActive(r, isActive)
        PROVE  /\ user' \in User /\ user'.mfaVersion = user.mfaVersion
               /\ user'.totpEnabled = user.totpEnabled
               /\ user'.exists => user.exists
    <3>1. PICK active \in BOOLEAN : user' = [user EXCEPT !.isActive = active]
      BY <1>1, <2>2 DEF SaveActive, User
    <3> QED BY <1>1, <2>2, <3>1 DEF User, SaveActive
  <2> QED BY <2>1, <2>2
<1>4. user.mfaVersion <= user'.mfaVersion
  BY <1>1, <1>3
<1> QED BY <1>2, <1>3, <1>4, UserChanged

---------------------------------------------------------------------------
(* Steps that revoke sessions, or pass their time. *)

\* A session but for its revocation and its expiry.
SameBut(i) ==
  /\ sessions'[i].passwordVersion = sessions[i].passwordVersion
  /\ sessions'[i].mfaVersion = sessions[i].mfaVersion
  /\ sessions'[i].refreshToken = sessions[i].refreshToken
  /\ sessions'[i].usedRefreshTokens = sessions[i].usedRefreshTokens
  /\ sessions'[i].provedPassword = sessions[i].provedPassword
  /\ sessions'[i].provedFactor = sessions[i].provedFactor
  /\ sessions[i].revoked => sessions'[i].revoked
  /\ sessions[i].expired => sessions'[i].expired

LEMMA EndedForward ==
  ASSUME Inductive, UNCHANGED <<user, challenges, tokens>>,
         DOMAIN sessions' = DOMAIN sessions, \A i \in DOMAIN sessions : SameBut(i)
  PROVE  Forward
<1>1. AccountForward
  BY UserType DEF Inductive, Typed, AccountForward
<1>2. SessionsForward
  BY SessionsType DEF SessionsForward, SessionForward, SameBut, Inductive
<1> QED BY <1>1, <1>2 DEF Forward

LEMMA EndedInductive ==
  ASSUME Inductive, Moves, UNCHANGED <<user, challenges, tokens>>,
         sessions' \in Seq(Session), Len(sessions') = Len(sessions),
         DOMAIN sessions' = DOMAIN sessions, \A i \in DOMAIN sessions : SameBut(i)
  PROVE  Inductive' /\ Forward
<1>1. Forward
  BY EndedForward
<1>2. /\ req' \in [Requests -> RequestState]
      /\ \A s \in Requests : Holds(req[s])'
  BY <1>1, RequestsHold, SessionsType DEF Inductive, Typed
<1>3. Typed'
  BY <1>2 DEF Inductive, Typed
<1>4. ProvedOK'
  BY DEF Inductive, ProvedOK, SameBut, FactorOff
<1>5. TokensOK'
  BY DEF Inductive, TokensOK, TokensOf, SameBut
<1> QED BY <1>1, <1>2, <1>3, <1>4, <1>5 DEF Inductive

LEMMA SessionChanged ==
  ASSUME Typed, NEW i \in DOMAIN sessions, NEW session \in Session,
         sessions' = [sessions EXCEPT ![i] = session]
  PROVE  /\ sessions' \in Seq(Session) /\ Len(sessions') = Len(sessions)
         /\ DOMAIN sessions' = DOMAIN sessions
         /\ sessions'[i] = session
         /\ \A j \in DOMAIN sessions : j # i => sessions'[j] = sessions[j]
BY SessionsType, ExceptSeq DEF Typed

\* The updateMany that revokes the sessions numbered in S.
LEMMA RevokedSessions ==
  ASSUME Typed, NEW S, sessions' = Revoked(S)
  PROVE  /\ sessions' \in Seq(Session) /\ Len(sessions') = Len(sessions)
         /\ DOMAIN sessions' = DOMAIN sessions
         /\ \A i \in DOMAIN sessions : SameBut(i)
         /\ \A i \in DOMAIN sessions : i \in S => sessions'[i].revoked
<1>1. ASSUME NEW i \in DOMAIN sessions
      PROVE  /\ sessions'[i] \in Session /\ SameBut(i)
             /\ i \in S => sessions'[i].revoked
  <2>1. sessions[i] \in Session
    BY SessionsType
  <2>2. PICK b \in BOOLEAN : b = (sessions[i].revoked \/ i \in S)
    OBVIOUS
  <2>3. sessions'[i] = [sessions[i] EXCEPT !.revoked = b]
    BY <2>2 DEF Revoked
  <2>4. sessions'[i] \in Session /\ sessions'[i].revoked = b
    BY <2>1, <2>3 DEF Session
  <2>5. SameBut(i)
    BY <2>1, <2>2, <2>3 DEF Session, SameBut
  <2> QED BY <2>2, <2>4, <2>5
<1>2. Len(sessions) \in Nat /\ DOMAIN sessions = 1 .. Len(sessions)
  BY SessionsType
<1>3. sessions' \in [1 .. Len(sessions) -> Session]
  BY <1>1, <1>2 DEF Revoked
<1>4. sessions' \in Seq(Session)
  BY <1>2, <1>3, SeqDef
<1>5. DOMAIN sessions' = 1 .. Len(sessions') /\ Len(sessions') \in Nat
  BY <1>4, LenProperties
<1>6. DOMAIN sessions' = 1 .. Len(sessions)
  BY <1>3
<1>7. Len(sessions') = Len(sessions)
  <2>1. \A m, n \in Nat : 1 .. m = 1 .. n => m = n
    <3> SUFFICES ASSUME NEW m \in Nat, NEW n \in Nat, 1 .. m = 1 .. n PROVE m = n
      OBVIOUS
    <3>1. m = 0 \/ m \in 1 .. n
      OBVIOUS
    <3>2. n = 0 \/ n \in 1 .. m
      OBVIOUS
    <3> QED BY <3>1, <3>2
  <2> QED BY <1>2, <1>5, <1>6, <2>1
<1>8. DOMAIN sessions' = DOMAIN sessions
  BY <1>2, <1>6
<1> QED BY <1>1, <1>4, <1>7, <1>8

LEMMA RevokeInductive ==
  ASSUME Inductive, NEW r \in Requests,
         RevokeReplay(r) \/ Logout(r) \/ RevokeAll(r)
  PROVE  Inductive' /\ Forward
<1>1. PICK S : /\ sessions' = Revoked(S)
               /\ Logout(r) => S = DOMAIN sessions
               /\ RevokeReplay(r) =>
                    S = {i \in DOMAIN sessions :
                           req[r].token \in Range(sessions[i].usedRefreshTokens)}
  BY DEF RevokeReplay, Logout, RevokeAll
<1>2. /\ sessions' \in Seq(Session) /\ Len(sessions') = Len(sessions)
      /\ DOMAIN sessions' = DOMAIN sessions
      /\ \A i \in DOMAIN sessions : SameBut(i)
      /\ \A i \in DOMAIN sessions : i \in S => sessions'[i].revoked
  BY <1>1, RevokedSessions DEF Inductive
<1>3. UNCHANGED <<user, challenges, tokens>>
  BY DEF RevokeReplay, Logout, RevokeAll
<1>4. PICK old \in RequestState : old = req[r] /\ Holds(old)
  BY DEF Inductive, Typed
<1>5. Moves
  <2>1. CASE RevokeReplay(r)
    <3>1. old \in TokenRequest /\ old.pc = "replay"
      BY <1>4, <2>1, StateSorts DEF RevokeReplay
    <3>2. PICK state \in TokenRequest : /\ state = [old EXCEPT !.pc = "replayAnswered"]
                                       /\ state.token = old.token
                                       /\ state.pc = "replayAnswered"
      <4>1. [old EXCEPT !.pc = "replayAnswered"] = [pc |-> "replayAnswered", token |-> old.token]
        BY <3>1 DEF TokenRequest
      <4>2. [pc |-> "replayAnswered", token |-> old.token] \in TokenRequest
        BY <3>1 DEF TokenRequest
      <4> QED BY <4>1, <4>2
    <3>3. \A i \in DOMAIN sessions : state.token \in Range(sessions[i].usedRefreshTokens) =>
            sessions'[i].revoked
      BY <1>1, <1>2, <1>4, <2>1, <3>2
    <3>4. Holds(state)'
      BY <1>2, <1>3, <1>4, <3>1, <3>2, <3>3 DEF Holds, SameBut
    <3> QED BY <1>4, <2>1, <3>2, <3>4 DEF RevokeReplay, Becomes, Moves, RequestState
  <2>2. CASE Logout(r)
    <3>1. old \in TokenRequest /\ old.pc = "logout"
      BY <1>4, <2>2, StateSorts DEF Logout
    <3>2. PICK state \in TokenRequest : /\ state = [old EXCEPT !.pc = "logoutAnswered"]
                                       /\ state.token = old.token
                                       /\ state.pc = "logoutAnswered"
      <4>1. [old EXCEPT !.pc = "logoutAnswered"] = [pc |-> "logoutAnswered", token |-> old.token]
        BY <3>1 DEF TokenRequest
      <4>2. [pc |-> "logoutAnswered", token |-> old.token] \in TokenRequest
        BY <3>1 DEF TokenRequest
      <4> QED BY <4>1, <4>2
    <3>3. \A i \in DOMAIN sessions : sessions'[i].revoked
      BY <1>1, <1>2, <2>2
    <3>4. Holds(state)'
      BY <1>2, <1>3, <1>4, <3>1, <3>2, <3>3 DEF Holds
    <3> QED BY <1>4, <2>2, <3>2, <3>4 DEF Logout, Becomes, Moves, RequestState
  <2>3. CASE RevokeAll(r)
    <3>1. old \in RevokingRequest /\ old.pc = "revokeAll"
      BY <1>4, <2>3, StateSorts DEF RevokeAll
    <3>2. PICK state \in {Idle, Deleting} \cup CreatingRequest : state = old.next
      BY <3>1 DEF RevokingRequest
    <3>3. Holds(state)
      BY <1>4, <3>1, <3>2 DEF Holds, Idle, Deleting, CreatingRequest
    <3> QED BY <1>4, <2>3, <3>2, <3>3 DEF RevokeAll, Becomes, Moves, RequestState
  <2> QED BY <2>1, <2>2, <2>3
<1> QED BY <1>2, <1>3, <1>5, EndedInductive

LEMMA RevokeSessionInductive ==
  ASSUME Inductive, NEW r \in Requests, RevokeSession(r)
  PROVE  Inductive' /\ Forward
<1>1. PICK i \in DOMAIN sessions : i = req[r].session
  BY DEF RevokeSession, Inductive, Holds
<1>2. sessions[i] \in Session
  BY SessionsType DEF Inductive
<1>3. PICK session \in Session : session = [sessions[i] EXCEPT !.revoked = TRUE]
  BY <1>2 DEF Session
<1>4. sessions' = [sessions EXCEPT ![i] = session]
  BY <1>1, <1>3 DEF RevokeSession
<1>5. /\ sessions' \in Seq(Session) /\ Len(sessions') = Len(sessions)
      /\ DOMAIN sessions' = DOMAIN sessions
      /\ sessions'[i] = session
      /\ \A j \in DOMAIN sessions : j # i => sessions'[j] = sessions[j]
  BY <1>4, SessionChanged DEF Inductive
<1>6. \A j \in DOMAIN sessions : SameBut(j)
  <2>1. /\ session.revoked /\ session.expired = sessions[i].expired
        /\ session.refreshToken = sessions[i].refreshToken
        /\ session.usedRefreshTokens = sessions[i].usedRefreshTokens
        /\ session.provedPassword = sessions[i].provedPassword
        /\ session.provedFactor = sessions[i].provedFactor
        /\ session.passwordVersion = sessions[i].passwordVersion
        /\ session.mfaVersion = sessions[i].mfaVersion
    BY <1>2, <1>3 DEF Session
  <2>2. SameBut(i)
    BY <1>5, <2>1 DEF SameBut
  <2>3. ASSUME NEW j \in DOMAIN sessions, j # i PROVE SameBut(j)
    BY <1>5, <2>3 DEF SameBut
  <2> QED BY <2>2, <2>3
<1>7. Moves /\ UNCHANGED <<user, challenges, tokens>>
  BY MoveTo DEF RevokeSession, Becomes
<1> QED BY <1>5, <1>6, <1>7, EndedInductive

LEMMA ExpireInductive ==
  ASSUME Inductive, NEW i, Expire(i)
  PROVE  Inductive' /\ Forward
<1>1. i \in DOMAIN sessions /\ sessions[i] \in Session
  BY SessionsType DEF Expire, Inductive
<1>2. PICK session \in Session : session = [sessions[i] EXCEPT !.expired = TRUE]
  BY <1>1 DEF Session
<1>3. sessions' = [sessions EXCEPT ![i] = session]
  BY <1>1, <1>2 DEF Expire
<1>4. /\ sessions' \in Seq(Session) /\ Len(sessions') = Len(sessions)
      /\ DOMAIN sessions' = DOMAIN sessions
      /\ sessions'[i] = session
      /\ \A j \in DOMAIN sessions : j # i => sessions'[j] = sessions[j]
  BY <1>1, <1>3, SessionChanged DEF Inductive
<1>5. \A j \in DOMAIN sessions : SameBut(j)
  <2>1. /\ session.revoked = sessions[i].revoked /\ session.expired
        /\ session.refreshToken = sessions[i].refreshToken
        /\ session.usedRefreshTokens = sessions[i].usedRefreshTokens
        /\ session.provedPassword = sessions[i].provedPassword
        /\ session.provedFactor = sessions[i].provedFactor
        /\ session.passwordVersion = sessions[i].passwordVersion
        /\ session.mfaVersion = sessions[i].mfaVersion
    BY <1>1, <1>2 DEF Session
  <2>2. SameBut(i)
    BY <1>4, <2>1 DEF SameBut
  <2>3. ASSUME NEW j \in DOMAIN sessions, j # i PROVE SameBut(j)
    BY <1>4, <2>3 DEF SameBut
  <2> QED BY <2>2, <2>3
<1>6. Moves /\ UNCHANGED <<user, challenges, tokens>>
  BY DEF Expire, Moves
<1> QED BY <1>4, <1>5, <1>6, EndedInductive

---------------------------------------------------------------------------
(* Steps that issue a refresh token. *)

\* A token appended to those a session has used.
LEMMA UsedAppended ==
  ASSUME NEW used \in Seq(Token), NEW t \in Token
  PROVE  /\ Append(used, t) \in Seq(Token)
         /\ Range(Append(used, t)) = Range(used) \cup {t}
         /\ IsInjective(used) /\ t \notin Range(used) => IsInjective(Append(used, t))
<1> DEFINE new == Append(used, t)
<1>1. /\ new \in Seq(Token) /\ Len(new) = Len(used) + 1
      /\ \A i \in 1 .. Len(used) : new[i] = used[i]
      /\ new[Len(used) + 1] = t
  BY AppendProperties
<1>2. Len(used) \in Nat /\ DOMAIN used = 1 .. Len(used)
  BY LenProperties
<1>3. DOMAIN new = 1 .. Len(used) + 1
  BY <1>1, LenProperties
<1> HIDE DEF new
<1>4. DOMAIN new = DOMAIN used \cup {Len(used) + 1} /\ Len(used) + 1 \notin DOMAIN used
  BY <1>2, <1>3
<1>5. Range(new) = Range(used) \cup {t}
  BY <1>1, <1>2, <1>4 DEF Range
<1>6. IsInjective(used) /\ t \notin Range(used) => IsInjective(new)
  BY <1>1, <1>2, <1>4 DEF Range, IsInjective
<1> QED BY <1>1, <1>5, <1>6 DEF new

LEMMA CreateInductive ==
  ASSUME Inductive, NEW r \in Requests, CreateSession(r)
  PROVE  Inductive' /\ Forward
<1>1. PICK old \in CreatingRequest : old = req[r] /\ CreatingOK(old)
  BY StateSorts DEF CreateSession, Inductive, Typed, Holds
<1>2. /\ sessions \in Seq(Session) /\ Len(sessions) \in Nat /\ tokens \in Nat
      /\ DOMAIN sessions = 1 .. Len(sessions) /\ tokens \in 0 .. MaxTokens
  BY SessionsType DEF Inductive, Typed
<1>3. PICK t \in Token : t = tokens + 1
  BY <1>2, BoundsNat DEF CreateSession, Token
<1>4. PICK session \in Session :
        /\ session = NewSession(old.doc, old.password, old.factor)
        /\ session.refreshToken = t /\ session.usedRefreshTokens = << >>
        /\ session.provedPassword = session.passwordVersion
        /\ ~session.provedFactor => FactorOff(session.mfaVersion)
  <2>1. old.doc.passwordVersion \in PasswordVersion /\ old.doc.mfaVersion \in MfaVersion
    BY UserType DEF CreatingRequest
  <2>2. old.password \in PasswordVersion /\ old.factor \in BOOLEAN
    BY DEF CreatingRequest
  <2>3. << >> \in Seq(Token)
    BY EmptySeq
  <2>4. NewSession(old.doc, old.password, old.factor) \in Session
    BY <1>3, <2>1, <2>2, <2>3 DEF NewSession, Session
  <2>5. FactorOff(old.doc.mfaVersion) =>
          FactorOff(NewSession(old.doc, old.password, old.factor).mfaVersion)
    BY DEF NewSession
  <2> QED BY <1>1, <1>3, <2>4, <2>5 DEF NewSession, CreatingOK
<1>5. sessions' = Append(sessions, session) /\ tokens' = t /\ UNCHANGED <<user, challenges>>
  BY <1>1, <1>3, <1>4 DEF CreateSession
<1>6. PICK n \in Nat : n = Len(sessions) + 1
  BY <1>2
<1>7. /\ sessions' \in Seq(Session) /\ Len(sessions') = n
      /\ \A i \in DOMAIN sessions : sessions'[i] = sessions[i]
      /\ sessions'[n] = session
  BY <1>2, <1>5, <1>6, AppendProperties
<1>8. DOMAIN sessions' = DOMAIN sessions \cup {n} /\ n \notin DOMAIN sessions
  <2>1. DOMAIN sessions' = 1 .. n
    BY <1>7, LenProperties
  <2> QED BY <1>2, <1>6, <2>1
<1>9. Range(session.usedRefreshTokens) = {} /\ IsInjective(session.usedRefreshTokens)
  BY <1>4, EmptySeq DEF Range, IsInjective
<1>10. Forward
  <2>1. AccountForward
    BY <1>5, UserType DEF Inductive, Typed, AccountForward
  <2>2. SessionsForward
    BY <1>2, <1>3, <1>4, <1>5, <1>7, <1>8, <1>9 DEF SessionsForward, SessionForward
  <2> QED BY <2>1, <2>2 DEF Forward
<1>11. Moves
  BY MoveTo DEF CreateSession, Becomes
<1>12. /\ req' \in [Requests -> RequestState]
       /\ \A s \in Requests : Holds(req[s])'
  BY <1>2, <1>3, <1>5, <1>10, <1>11, RequestsHold DEF Inductive, Typed
<1>13. Typed'
  <2>1. n <= MaxSessions
    BY <1>2, <1>6, BoundsNat DEF CreateSession
  <2>2. t \in 0 .. MaxTokens
    BY DEF Token
  <2> QED BY <1>5, <1>7, <1>12, <2>1, <2>2 DEF Inductive, Typed
<1>14. ProvedOK'
  BY <1>4, <1>5, <1>7, <1>8 DEF Inductive, ProvedOK, FactorOff
<1>15. TokensOK'
  <2>1. TokensOf(session) = {t}
    BY <1>4, <1>9 DEF TokensOf
  <2>2. \A i \in DOMAIN sessions : TokensOf(sessions[i]) \subseteq 1 .. tokens
    BY DEF Inductive, TokensOK
  <2>3. t \notin 1 .. tokens /\ 1 .. tokens \subseteq 1 .. t /\ t \in 1 .. t
    BY <1>2, <1>3
  <2>4. \A i \in DOMAIN sessions' :
          /\ TokensOf(sessions'[i]) \subseteq 1 .. t
          /\ IsInjective(sessions'[i].usedRefreshTokens)
          /\ sessions'[i].refreshToken \notin Range(sessions'[i].usedRefreshTokens)
    BY <1>4, <1>7, <1>8, <1>9, <2>1, <2>2, <2>3 DEF Inductive, TokensOK
  <2>5. \A i, j \in DOMAIN sessions' :
          i # j => TokensOf(sessions'[i]) \cap TokensOf(sessions'[j]) = {}
    <3> SUFFICES ASSUME NEW i \in DOMAIN sessions', NEW j \in DOMAIN sessions', i # j
                 PROVE  TokensOf(sessions'[i]) \cap TokensOf(sessions'[j]) = {}
      OBVIOUS
    <3>1. CASE i \in DOMAIN sessions /\ j \in DOMAIN sessions
      BY <1>7, <3>1 DEF Inductive, TokensOK
    <3>2. CASE i = n /\ j \in DOMAIN sessions
      BY <1>7, <2>1, <2>2, <2>3, <3>2
    <3>3. CASE j = n /\ i \in DOMAIN sessions
      BY <1>7, <2>1, <2>2, <2>3, <3>3
    <3> QED BY <1>8, <3>1, <3>2, <3>3
  <2> QED BY <1>5, <2>4, <2>5 DEF TokensOK, TokensOf
<1> QED BY <1>10, <1>12, <1>13, <1>14, <1>15 DEF Inductive

LEMMA RotateInductive ==
  ASSUME Inductive, NEW r \in Requests, NEW i, RotateRefresh(r, i)
  PROVE  Inductive' /\ Forward
<1>1. /\ i \in DOMAIN sessions /\ i \in 1 .. MaxSessions /\ sessions[i] \in Session
      /\ tokens \in Nat /\ tokens \in 0 .. MaxTokens /\ tokens < MaxTokens
      /\ ~sessions[i].revoked /\ ~sessions[i].expired
  BY SessionsType DEF RotateRefresh, Inductive, Typed
<1>2. PICK t \in Token : t = tokens + 1
  BY <1>1, BoundsNat DEF Token
<1>3. PICK old \in Token, used \in Seq(Token) :
        /\ old = sessions[i].refreshToken /\ used = sessions[i].usedRefreshTokens
        /\ {old} \cup Range(used) \subseteq 1 .. tokens
        /\ IsInjective(used) /\ old \notin Range(used)
  BY <1>1 DEF Inductive, TokensOK, TokensOf, Session
<1>4. PICK newUsed \in Seq(Token) :
        /\ newUsed = Append(used, old)
        /\ Range(newUsed) = Range(used) \cup {old}
        /\ IsInjective(newUsed)
  BY <1>3, UsedAppended
<1>5. t \notin 1 .. tokens /\ 1 .. tokens \subseteq 1 .. t /\ t \in 1 .. t /\ t \in Nat
      /\ tokens <= t
  BY <1>1, <1>2
<1>6. Rotated(sessions[i]) =
        [sessions[i] EXCEPT !.refreshToken = t, !.usedRefreshTokens = newUsed]
  BY <1>1, <1>2, <1>3, <1>4 DEF Rotated, Session
<1>7. PICK session \in Session :
        /\ session = Rotated(sessions[i])
        /\ session.refreshToken = t /\ session.usedRefreshTokens = newUsed
        /\ session.provedPassword = sessions[i].provedPassword
        /\ session.passwordVersion = sessions[i].passwordVersion
        /\ session.provedFactor = sessions[i].provedFactor
        /\ session.mfaVersion = sessions[i].mfaVersion
  <2>1. [sessions[i] EXCEPT !.refreshToken = t, !.usedRefreshTokens = newUsed] \in Session
    BY <1>1 DEF Session
  <2> QED BY <1>1, <1>6, <2>1 DEF Session
<1>8. sessions' = [sessions EXCEPT ![i] = session] /\ tokens' = t
      /\ UNCHANGED <<user, challenges>>
  BY <1>1, <1>2, <1>7 DEF RotateRefresh
<1>9. /\ sessions' \in Seq(Session) /\ Len(sessions') = Len(sessions)
      /\ DOMAIN sessions' = DOMAIN sessions
      /\ sessions'[i] = session
      /\ \A j \in DOMAIN sessions : j # i => sessions'[j] = sessions[j]
  BY <1>1, <1>8, SessionChanged DEF Inductive
<1>10. Forward
  <2>1. AccountForward
    BY <1>8, UserType DEF Inductive, Typed, AccountForward
  <2>2. SessionForward(i)
    BY <1>1, <1>2, <1>3, <1>4, <1>7, <1>9 DEF SessionForward
  <2>3. \A j \in DOMAIN sessions : SessionForward(j)
    BY <2>2, <1>9 DEF SessionForward
  <2>4. SessionsForward
    BY <1>5, <1>8, <1>9, <2>3 DEF SessionsForward
  <2> QED BY <2>1, <2>4 DEF Forward
<1>11. Moves
  <2>1. PICK state \in SessionRequest : state = [pc |-> "refresh", session |-> i]
    BY <1>1 DEF SessionRequest
  <2>2. Holds(state)
    BY <1>1, <2>1 DEF Holds
  <2> QED BY <2>1, <2>2 DEF RotateRefresh, Becomes, Moves, RequestState
<1>12. /\ req' \in [Requests -> RequestState]
       /\ \A s \in Requests : Holds(req[s])'
  BY <1>5, <1>8, <1>10, <1>11, RequestsHold DEF Inductive, Typed
<1>13. Typed'
  <2>1. t \in 0 .. MaxTokens
    BY DEF Token
  <2> QED BY <1>8, <1>9, <1>12, <2>1 DEF Inductive, Typed
<1>14. ProvedOK'
  BY <1>7, <1>8, <1>9 DEF Inductive, ProvedOK, FactorOff
<1>15. TokensOK'
  <2>1. TokensOf(session) = {t} \cup TokensOf(sessions[i])
    BY <1>3, <1>4, <1>7 DEF TokensOf
  <2>2. \A j \in DOMAIN sessions : TokensOf(sessions[j]) \subseteq 1 .. tokens
    BY DEF Inductive, TokensOK
  <2>3. IsInjective(newUsed) /\ t \notin Range(newUsed)
    BY <1>3, <1>4, <1>5
  <2>4. \A j \in DOMAIN sessions' :
          /\ TokensOf(sessions'[j]) \subseteq 1 .. t
          /\ IsInjective(sessions'[j].usedRefreshTokens)
          /\ sessions'[j].refreshToken \notin Range(sessions'[j].usedRefreshTokens)
    BY <1>5, <1>7, <1>9, <2>1, <2>2, <2>3 DEF Inductive, TokensOK
  <2>5. \A j, k \in DOMAIN sessions' :
          j # k => TokensOf(sessions'[j]) \cap TokensOf(sessions'[k]) = {}
    <3> SUFFICES ASSUME NEW j \in DOMAIN sessions, NEW k \in DOMAIN sessions, j # k
                 PROVE  TokensOf(sessions'[j]) \cap TokensOf(sessions'[k]) = {}
      BY <1>9
    <3>0. TokensOf(sessions[j]) \cap TokensOf(sessions[k]) = {}
      BY DEF Inductive, TokensOK
    <3>1. CASE j # i /\ k # i
      BY <1>9, <3>0, <3>1
    <3>2. CASE j = i
      BY <1>5, <1>9, <2>1, <2>2, <3>0, <3>2
    <3>3. CASE k = i
      BY <1>5, <1>9, <2>1, <2>2, <3>0, <3>3
    <3> QED BY <3>1, <3>2, <3>3
  <2> QED BY <1>8, <2>4, <2>5 DEF TokensOK, TokensOf
<1> QED BY <1>10, <1>12, <1>13, <1>14, <1>15 DEF Inductive

---------------------------------------------------------------------------
(* Steps that only read. *)

LEMMA HoldDocument ==
  ASSUME Inductive, NEW r \in Requests,
         Login(r) \/ LoadGrant(r) \/ ClaimConfirm(r) \/ Reauthenticate(r)
  PROVE  Moves
<1>1. user \in User /\ user.mfaVersion \in Nat
  BY UserType DEF Inductive, Typed
<1>2. CASE Login(r)
  <2>1. PICK state \in HoldingRequest : state = Holding("login", user)
    BY <1>1 DEF Holding, HoldingRequest
  <2>2. ~user.totpEnabled => FactorOff(user.mfaVersion)
    BY <1>1 DEF FactorOff
  <2>3. Holds(state)
    BY <2>1, <2>2 DEF Holds, Holding
  <2> QED BY <1>2, <2>1, <2>3 DEF Login, Becomes, Moves, RequestState
<1>3. CASE LoadGrant(r)
  <2>1. PICK state \in HoldingRequest : state = Holding("reset", user)
    BY <1>1 DEF Holding, HoldingRequest
  <2>2. Holds(state)
    BY <2>1 DEF Holds, Holding
  <2> QED BY <1>3, <2>1, <2>2 DEF LoadGrant, Becomes, Moves, RequestState
<1>4. CASE ClaimConfirm(r)
  <2>1. PICK state \in HoldingRequest : state = Holding("confirm", user)
    BY <1>1 DEF Holding, HoldingRequest
  <2>2. Holds(state)
    BY <1>4, <2>1 DEF Holds, Holding, ClaimConfirm
  <2> QED BY <1>4, <2>1, <2>2 DEF ClaimConfirm, Becomes, Moves, RequestState
<1>5. CASE Reauthenticate(r)
  <2>1. PICK state \in RequestState :
          /\ state = IF user.totpEnabled
                     THEN [pc |-> "verifyProof", doc |-> user, challenge |-> 0]
                     ELSE Holding("enroll", user)
          /\ Holds(state)
    <3>1. CASE user.totpEnabled
      <4>1. PICK state \in ProofRequest :
              state = [pc |-> "verifyProof", doc |-> user, challenge |-> 0]
        <5>1. 0 \in 0 .. MaxChallenges
          BY BoundsNat
        <5>2. [pc |-> "verifyProof", doc |-> user, challenge |-> 0] \in ProofRequest
          BY <1>1, <5>1 DEF ProofRequest
        <5> QED BY <5>2
      <4>2. Holds(state)
        BY <4>1 DEF Holds
      <4> QED BY <3>1, <4>1, <4>2 DEF RequestState
    <3>2. CASE ~user.totpEnabled
      <4>1. PICK state \in HoldingRequest : state = Holding("enroll", user)
        BY <1>1 DEF Holding, HoldingRequest
      <4>2. Holds(state)
        BY <4>1 DEF Holds, Holding
      <4> QED BY <3>2, <4>1, <4>2 DEF RequestState
    <3> QED BY <3>1, <3>2
  <2> QED BY <1>5, <2>1 DEF Reauthenticate, Becomes, Moves
<1> QED BY <1>2, <1>3, <1>4, <1>5

LEMMA HoldLogin ==
  ASSUME Inductive, NEW r \in Requests,
         \/ LoginDirectly(r) \/ VerifyProof(r)
         \/ \E c \in 1 .. MaxChallenges : VerifyLogin(r, c)
  PROVE  Moves
<1>1. PICK old \in RequestState : old = req[r] /\ Holds(old)
  BY DEF Inductive, Typed
<1>2. CASE LoginDirectly(r)
  <2>1. old \in HoldingRequest /\ old.pc = "login" /\ ~old.doc.totpEnabled
    BY <1>1, <1>2, StateSorts DEF LoginDirectly
  <2>2. PICK state \in CreatingRequest : state = Creating(old.doc, old.doc.passwordVersion, FALSE)
    BY <2>1, UserType DEF Creating, CreatingRequest, HoldingRequest
  <2>3. CreatingOK(state)
    BY <1>1, <2>1, <2>2 DEF Holds, CreatingOK, Creating
  <2>4. Holds(state)
    BY <2>2, <2>3 DEF Holds, Creating
  <2> QED BY <1>1, <1>2, <2>2, <2>4 DEF LoginDirectly, Becomes, Moves, RequestState
<1>3. CASE VerifyProof(r)
  <2>1. old \in ProofRequest /\ old.pc = "verifyProof"
    BY <1>1, <1>3, StateSorts DEF VerifyProof
  <2>2. CASE old.challenge = 0
    <3>1. PICK state \in HoldingRequest : state = Holding("disable", old.doc)
      BY <2>1 DEF Holding, HoldingRequest, ProofRequest
    <3>2. Holds(state)
      BY <3>1 DEF Holds, Holding
    <3> QED BY <1>1, <1>3, <2>2, <3>1, <3>2 DEF VerifyProof, Becomes, Moves, RequestState
  <2>3. CASE old.challenge # 0
    <3>1. [old EXCEPT !.pc = "consume"] =
            [pc |-> "consume", doc |-> old.doc, challenge |-> old.challenge]
      BY <2>1 DEF ProofRequest
    <3>2. PICK state \in ProofRequest :
            state = [pc |-> "consume", doc |-> old.doc, challenge |-> old.challenge]
      BY <2>1 DEF ProofRequest
    <3>3. Holds(state)
      BY <1>1, <2>1, <2>3, <3>2 DEF Holds
    <3> QED BY <1>1, <1>3, <2>3, <3>1, <3>2, <3>3
            DEF VerifyProof, Becomes, Moves, RequestState
  <2> QED BY <2>2, <2>3
<1>4. ASSUME NEW c \in 1 .. MaxChallenges, VerifyLogin(r, c) PROVE Moves
  <2>1. user \in User /\ c \in DOMAIN challenges /\ c # 0 /\ c \in 0 .. MaxChallenges
    BY <1>4, BoundsNat DEF VerifyLogin, Inductive, Typed
  <2>2. PICK state \in ProofRequest :
          state = [pc |-> "verifyProof", doc |-> user, challenge |-> c]
    BY <2>1 DEF ProofRequest
  <2>3. Holds(state)
    BY <1>4, <2>1, <2>2 DEF Holds, VerifyLogin
  <2> QED BY <1>4, <2>2, <2>3 DEF VerifyLogin, Becomes, Moves, RequestState
<1> QED BY <1>2, <1>3, <1>4

LEMMA HoldSession ==
  ASSUME Inductive, NEW r \in Requests,
         \/ ValidateUser(r) \/ CheckRefreshUser(r)
         \/ \E i \in 1 .. MaxSessions : ReadSession(r, i)
  PROVE  Moves
<1>1. PICK old \in RequestState : old = req[r] /\ Holds(old)
  BY DEF Inductive, Typed
<1>2. ASSUME NEW pc \in {"authenticated", "revokeSession"}, old.pc \in {"validate", "refresh"},
             req' = [req EXCEPT ![r] = [old EXCEPT !.pc = pc]]
      PROVE  Moves
  <2>1. old \in SessionRequest
    BY <1>1, <1>2, StateSorts
  <2>2. [old EXCEPT !.pc = pc] = [pc |-> pc, session |-> old.session]
    BY <2>1 DEF SessionRequest
  <2>3. PICK state \in SessionRequest : state = [pc |-> pc, session |-> old.session]
    BY <2>1 DEF SessionRequest
  <2>4. Holds(state)
    BY <1>1, <1>2, <2>3 DEF Holds
  <2> QED BY <1>2, <2>2, <2>3, <2>4 DEF Moves, RequestState
<1>3. CASE ValidateUser(r)
  BY <1>1, <1>2, <1>3 DEF ValidateUser, Becomes
<1>4. CASE CheckRefreshUser(r)
  <2>1. CASE SessionMatches(sessions[req[r].session])
    BY <1>4, <2>1, MoveTo DEF CheckRefreshUser, Becomes
  <2>2. CASE ~SessionMatches(sessions[req[r].session])
    BY <1>1, <1>2, <1>4, <2>2 DEF CheckRefreshUser, Becomes
  <2> QED BY <2>1, <2>2
<1>5. ASSUME NEW i \in 1 .. MaxSessions, ReadSession(r, i) PROVE Moves
  <2>1. PICK state \in SessionRequest : state = [pc |-> "validate", session |-> i]
    BY DEF SessionRequest
  <2>2. Holds(state)
    BY <1>5, <2>1 DEF Holds, ReadSession
  <2> QED BY <1>5, <2>1, <2>2 DEF ReadSession, Becomes, Moves, RequestState
<1> QED BY <1>3, <1>4, <1>5

LEMMA HoldToken ==
  ASSUME Inductive, NEW r \in Requests, NEW t \in Token,
         RefreshRefused(r, t) \/ LogoutFound(r, t) \/ LogoutNotFound(r, t)
  PROVE  Moves
<1>1. CASE RefreshRefused(r, t)
  <2>1. PICK state \in TokenRequest : state = [pc |-> "replay", token |-> t]
    BY DEF TokenRequest
  <2>2. t <= tokens
    BY <1>1, SessionsType DEF RefreshRefused, Inductive
  <2>3. Holds(state)
    BY <1>1, <2>1, <2>2 DEF Holds, RefreshRefused
  <2> QED BY <1>1, <2>1, <2>3 DEF RefreshRefused, Becomes, Moves, RequestState
<1>2. CASE LogoutFound(r, t)
  <2>1. PICK state \in TokenRequest : state = [pc |-> "logout", token |-> t]
    BY DEF TokenRequest
  <2>2. t <= tokens
    BY <1>2, SessionsType DEF LogoutFound, Inductive, TokensOK, TokensOf
  <2>3. Holds(state)
    BY <2>1, <2>2 DEF Holds
  <2> QED BY <1>2, <2>1, <2>3 DEF LogoutFound, Becomes, Moves, RequestState
<1>3. CASE LogoutNotFound(r, t)
  <2>1. PICK state \in TokenRequest : state = [pc |-> "logoutAnswered", token |-> t]
    BY DEF TokenRequest
  <2>2. t <= tokens
    BY <1>3, SessionsType DEF LogoutNotFound, Inductive
  <2>3. Holds(state)
    BY <1>3, <2>1, <2>2 DEF Holds, LogoutNotFound
  <2> QED BY <1>3, <2>1, <2>3 DEF LogoutNotFound, Becomes, Moves, RequestState
<1> QED BY <1>1, <1>2, <1>3

LEMMA HoldAdministration ==
  ASSUME Inductive, NEW r \in Requests, Fail(r) \/ LoadUser(r) \/ StartDelete(r)
  PROVE  Moves
<1>1. CASE Fail(r)
  BY <1>1, MoveTo DEF Fail, Becomes
<1>2. CASE LoadUser(r)
  <2>1. PICK state \in AdminRequest : state = [pc |-> "admin", isActive |-> user.isActive]
    BY UserType DEF AdminRequest, Inductive, Typed
  <2>2. Holds(state)
    BY <2>1 DEF Holds
  <2> QED BY <1>2, <2>1, <2>2 DEF LoadUser, Becomes, Moves, RequestState
<1>3. CASE StartDelete(r)
  <2>1. PICK state \in RevokingRequest : state = [pc |-> "revokeAll", next |-> Deleting]
    BY DEF RevokingRequest
  <2>2. Holds(state)
    BY <2>1 DEF Holds, Deleting
  <2> QED BY <1>3, <2>1, <2>2 DEF StartDelete, Becomes, Moves, RequestState, Deleting
<1> QED BY <1>1, <1>2, <1>3

---------------------------------------------------------------------------
LEMMA SignInInductive ==
  ASSUME Inductive, NEW r \in Requests, SignIn(r)
  PROVE  Inductive' /\ Forward
<1>1. ASSUME Login(r) PROVE Inductive' /\ Forward
  BY <1>1, HoldDocument, ReadInductive DEF Login
<1>2. ASSUME LoginDirectly(r) PROVE Inductive' /\ Forward
  BY <1>2, HoldLogin, ReadInductive DEF LoginDirectly
<1>3. ASSUME VerifyProof(r) PROVE Inductive' /\ Forward
  BY <1>3, HoldLogin, ReadInductive DEF VerifyProof
<1>4. ASSUME NEW c \in 1 .. MaxChallenges, VerifyLogin(r, c) PROVE Inductive' /\ Forward
  BY <1>4, HoldLogin, ReadInductive DEF VerifyLogin
<1> QED BY <1>1, <1>2, <1>3, <1>4, StartChallengeInductive, ConsumeInductive,
           CreateInductive DEF SignIn

LEMMA UseSessionInductive ==
  ASSUME Inductive, NEW r \in Requests, UseSession(r)
  PROVE  Inductive' /\ Forward
<1>1. ASSUME ValidateUser(r) PROVE Inductive' /\ Forward
  BY <1>1, HoldSession, ReadInductive DEF ValidateUser
<1>2. ASSUME CheckRefreshUser(r) PROVE Inductive' /\ Forward
  BY <1>2, HoldSession, ReadInductive DEF CheckRefreshUser
<1>3. ASSUME NEW i \in 1 .. MaxSessions, ReadSession(r, i) PROVE Inductive' /\ Forward
  BY <1>3, HoldSession, ReadInductive DEF ReadSession
<1>4. ASSUME NEW t \in Token, RefreshRefused(r, t) PROVE Inductive' /\ Forward
  BY <1>4, HoldToken, ReadInductive DEF RefreshRefused
<1>5. ASSUME NEW t \in Token, LogoutFound(r, t) PROVE Inductive' /\ Forward
  BY <1>5, HoldToken, ReadInductive DEF LogoutFound
<1>6. ASSUME NEW t \in Token, LogoutNotFound(r, t) PROVE Inductive' /\ Forward
  BY <1>6, HoldToken, ReadInductive DEF LogoutNotFound
<1> QED BY <1>1, <1>2, <1>3, <1>4, <1>5, <1>6, RevokeSessionInductive, RevokeInductive,
           RotateInductive DEF UseSession

LEMMA ChangeAccountInductive ==
  ASSUME Inductive, NEW r \in Requests, ChangeAccount(r)
  PROVE  Inductive' /\ Forward
<1>1. ASSUME LoadGrant(r) PROVE Inductive' /\ Forward
  BY <1>1, HoldDocument, ReadInductive DEF LoadGrant
<1>2. ASSUME ClaimConfirm(r) PROVE Inductive' /\ Forward
  BY <1>2, HoldDocument, ReadInductive DEF ClaimConfirm
<1>3. ASSUME Reauthenticate(r) PROVE Inductive' /\ Forward
  BY <1>3, HoldDocument, ReadInductive DEF Reauthenticate
<1>4. ASSUME LoadUser(r) PROVE Inductive' /\ Forward
  BY <1>4, HoldAdministration, ReadInductive DEF LoadUser
<1>5. ASSUME StartDelete(r) PROVE Inductive' /\ Forward
  BY <1>5, HoldAdministration, ReadInductive DEF StartDelete
<1> QED BY <1>1, <1>2, <1>3, <1>4, <1>5, ResetInductive, RevokeInductive, EnrollInductive,
           SwitchInductive, AdminInductive DEF ChangeAccount

LEMMA StutterForward ==
  ASSUME Inductive, UNCHANGED vars
  PROVE  Inductive' /\ Forward
BY ReadInductive DEF vars, Moves

LEMMA NextInductive ==
  ASSUME Inductive, [Next]_vars
  PROVE  Inductive' /\ Forward
<1>1. ASSUME NEW r \in Requests, Fail(r) PROVE Inductive' /\ Forward
  BY <1>1, HoldAdministration, ReadInductive DEF Fail
<1> QED BY <1>1, StutterForward, SignInInductive, UseSessionInductive,
           ChangeAccountInductive, ExpireInductive DEF Next

LEMMA AlwaysInductive == Spec => []Inductive
<1>1. Inductive /\ [Next]_vars => Inductive'
  BY NextInductive
<1> QED BY InitInductive, <1>1, PTL DEF Spec

---------------------------------------------------------------------------
\* Requests, sessions, challenges and tokens keep their shape; a request only
\* names a challenge, a session or a token that exists.
THEOREM TypeCorrect == Spec => []TypeOK
<1>1. Inductive => TypeOK
  <2> SUFFICES ASSUME Inductive PROVE TypeOK
    OBVIOUS
  <2>1. ASSUME NEW r \in Requests
        PROVE
         \/ req[r] = Idle \/ req[r] = [pc |-> "delete"]
         \/ req[r] \in [pc : {"login", "reset", "enroll", "confirm", "disable"}, doc : User]
         \/ req[r] \in [pc : {"admin"}, isActive : BOOLEAN]
         \/ req[r] \in [pc : {"verifyProof", "consume"}, doc : User,
                        challenge : 0 .. Len(challenges)]
         \/ req[r] \in [pc : {"validate", "authenticated", "refresh", "revokeSession"},
                        session : DOMAIN sessions]
         \/ req[r] \in [pc : {"replay", "replayAnswered", "logout", "logoutAnswered"},
                        token : 1 .. tokens]
         \/ req[r] \in CreatingRequest
         \/ req[r] \in [pc : {"revokeAll"},
                        next : {Idle, [pc |-> "delete"]} \cup CreatingRequest]
    <3>1. PICK old \in RequestState : old = req[r] /\ Holds(old)
      BY DEF Inductive, Typed
    <3>2. old \in ProofRequest =>
            old \in [pc : {"verifyProof", "consume"}, doc : User,
                     challenge : 0 .. Len(challenges)]
      BY <3>1, ChallengesType, BoundsNat DEF Holds, ProofRequest, Inductive
    <3>3. old \in SessionRequest =>
            old \in [pc : {"validate", "authenticated", "refresh", "revokeSession"},
                     session : DOMAIN sessions]
      BY <3>1 DEF Holds, SessionRequest
    <3>4. old \in TokenRequest =>
            old \in [pc : {"replay", "replayAnswered", "logout", "logoutAnswered"},
                     token : 1 .. tokens]
      BY <3>1, SessionsType, BoundsNat DEF Holds, TokenRequest, Token, Inductive
    <3> QED BY <3>1, <3>2, <3>3, <3>4 DEF RequestState, HoldingRequest, AdminRequest,
               RevokingRequest, Deleting
  <2> QED BY <2>1 DEF TypeOK, Inductive, Typed
<1> QED BY <1>1, AlwaysInductive, PTL

\* A session that is still accepted was created by a request that was shown
\* the current password (SessionProvedPassword).
THEOREM PasswordProved == Spec => []SessionProvedPassword
<1>1. Inductive => SessionProvedPassword
  BY DEF Inductive, ProvedOK, SessionProvedPassword, SessionMatches
<1> QED BY <1>1, AlwaysInductive, PTL

\* While the second factor is on, every accepted session was created with it
\* (SessionProvedFactor).
THEOREM FactorProved == Spec => []SessionProvedFactor
<1>1. Inductive => SessionProvedFactor
  BY DEF Inductive, ProvedOK, FactorOff, SessionProvedFactor, SessionMatches
<1> QED BY <1>1, AlwaysInductive, PTL

\* No refresh token is exchanged twice or belongs to two sessions
\* (TokenExchangedOnce).
THEOREM TokensOnce == Spec => []TokenExchangedOnce
<1>1. Inductive => TokenExchangedOnce
  <2> SUFFICES ASSUME Inductive, NEW i \in DOMAIN sessions, NEW j \in DOMAIN sessions
               PROVE  /\ IsInjective(sessions[i].usedRefreshTokens)
                      /\ sessions[i].refreshToken \notin Range(sessions[i].usedRefreshTokens)
                      /\ \A t \in 1 .. tokens :
                           IssuedFrom(sessions[i], t) /\ IssuedFrom(sessions[j], t) => i = j
    BY DEF TokenExchangedOnce
  <2> QED BY DEF Inductive, TokensOK, TokensOf, IssuedFrom
<1> QED BY <1>1, AlwaysInductive, PTL

\* A refused token that was exchanged before ends its session; a logout that
\* is answered has ended the one its token is current in
\* (ReplayAndLogoutRevoke).
THEOREM RevokesReplay == Spec => []ReplayAndLogoutRevoke
<1>1. Inductive => ReplayAndLogoutRevoke
  <2> SUFFICES ASSUME Inductive, NEW r \in Requests, NEW i \in DOMAIN sessions
        PROVE
         /\ req[r].pc = "replayAnswered" /\ req[r].token \in Range(sessions[i].usedRefreshTokens)
              => sessions[i].revoked
         /\ req[r].pc = "logoutAnswered" /\ req[r].token = sessions[i].refreshToken
              => sessions[i].revoked \/ ~SessionMatches(sessions[i])
    BY DEF ReplayAndLogoutRevoke
  <2>1. Holds(req[r])
    BY DEF Inductive
  <2> QED BY <2>1 DEF Holds, SessionMatches, Usable
<1> QED BY <1>1, AlwaysInductive, PTL

\* A revoked session stays revoked, and its token is never exchanged
\* (RevokedForever).
THEOREM StaysRevoked == Spec => RevokedForever
<1>1. Inductive /\ [Next]_vars => StayRevoked
  BY NextInductive DEF Forward, SessionsForward, SessionForward, StayRevoked
<1>2. Inductive /\ [Next]_vars => [StayRevoked]_vars
  BY <1>1
<1> QED BY <1>2, AlwaysInductive, PTL DEF Spec, RevokedForever
=============================================================================
