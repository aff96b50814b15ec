--------------------------- MODULE MfaLoginProofs ---------------------------
(***************************************************************************)
(* Proofs about MfaLogin for any number of requests, codes, steps, setups  *)
(* and challenges.                                                         *)
(*                                                                         *)
(* The argument: a code once accepted is used up for as long as its secret *)
(* is the one in use, and never the pending one again, because secrets are *)
(* numbered as they are drawn. A request that compared a code with a       *)
(* secret holds the versions it read, and those are only the user's for as *)
(* long as that secret is in use.                                          *)
(***************************************************************************)
EXTENDS MfaLogin, SequenceTheorems, TLAPS

\* What a request holds.
Challenging == [pc : {"challenge"}, passwordVersion : PasswordVersion,
                mfaVersion : MfaVersion]
Loading == [pc : {"loadUser"}, challenge : 1 .. MaxChallenges]
ProofInHand == [pc : {"prove", "consume", "disable"}, challenge : 0 .. MaxChallenges,
                proof : Proof, passwordVersion : PasswordVersion,
                mfaVersion : MfaVersion]
Enrolling == [pc : {"enroll"}, passwordVersion : PasswordVersion]
Enabling == [pc : {"enable"}, passwordVersion : PasswordVersion, proof : TotpCode]
Comparing == [pc : {"compare"}, secret : Secret, passwordVersion : PasswordVersion,
              mfaVersion : MfaVersion]
RequestState ==
  {Idle} \cup Challenging \cup Loading \cup ProofInHand \cup Enrolling \cup Enabling
         \cup Comparing

Typed ==
  /\ TypeOK
  /\ req \in [Requests -> RequestState]

\* What a request read is still true, or its versions are not the user's.
Holds(state) ==
  /\ state.pc \in {"challenge", "prove", "consume", "disable", "compare"} =>
       state.mfaVersion <= user.mfaVersion
  /\ user.totpEnabled /\ state.mfaVersion = user.mfaVersion =>
       /\ state.pc = "compare" => state.secret = user.secret
       /\ state.pc = "prove" => state.proof.secret = user.secret
  /\ state.pc = "enable" => state.proof.secret # 0
  /\ state.pc = "loadUser" => state.challenge \in DOMAIN challenges
  /\ state.pc = "consume" => state.challenge # 0
  /\ state.pc \in {"prove", "consume"} /\ state.challenge # 0 =>
       /\ state.challenge \in DOMAIN challenges
       /\ challenges[state.challenge].passwordVersion = state.passwordVersion
       /\ challenges[state.challenge].mfaVersion = state.mfaVersion

\* The secret in use, or pending, is the last one drawn.
Newest ==
  /\ user.pending.secret \in {0, enrolments}
  /\ user.totpEnabled => /\ user.secret = enrolments /\ user.secret # 0
                         /\ user.pending.secret = 0

\* A code that was accepted cannot be accepted again.
UsedUp(p) ==
  accepted[p] > 0 =>
    /\ accepted[p] = 1
    /\ p.secret \in 1 .. enrolments
    /\ p.secret # user.pending.secret
    /\ user.totpEnabled /\ p.secret = user.secret =>
         IF IsTotp(p) THEN p.step <= user.lastUsedStep
                      ELSE p.recovery \notin user.recoveryCodes

Spent ==
  \A c \in DOMAIN challenges :
    challenges[c].logins = 0 \/ (challenges[c].logins = 1 /\ challenges[c].consumed)

Inductive ==
  /\ Typed
  /\ \A r \in Requests : Holds(req[r])
  /\ Newest
  /\ \A p \in Proof : UsedUp(p)
  /\ Spent

---------------------------------------------------------------------------
LEMMA BoundsNat ==
  /\ MaxAttempts \in Nat /\ MaxClock \in Nat /\ MaxPasswordVersion \in Nat
  /\ MaxMfaVersion \in Nat /\ MaxEnrolments \in Nat /\ MaxChallenges \in Nat
BY BoundsAssumption

LEMMA UserType ==
  ASSUME Typed
  PROVE  /\ user \in User
         /\ user.passwordVersion \in Nat /\ user.mfaVersion \in Nat
         /\ user.passwordVersion \in PasswordVersion /\ user.mfaVersion \in MfaVersion
         /\ user.secret \in Secret /\ user.pending \in Pending
         /\ user.pending.secret \in Secret
         /\ enrolments \in Nat /\ user.lastUsedStep \in Nat
<1>1. user \in User /\ enrolments \in 0 .. MaxEnrolments
  BY DEF Typed, TypeOK
<1>2. user.pending \in Pending
  BY <1>1 DEF User
<1> QED BY <1>1, <1>2 DEF User, Pending, PasswordVersion, MfaVersion, Secret, Step

LEMMA NothingType == NoPending \in Pending
BY BoundsNat DEF NoPending, Pending, Secret, PasswordVersion

LEMMA ChallengesType ==
  ASSUME Typed
  PROVE  /\ challenges \in Seq(Challenge) /\ Len(challenges) \in Nat
         /\ DOMAIN challenges = 1 .. Len(challenges)
         /\ DOMAIN challenges \subseteq 1 .. MaxChallenges
         /\ \A c \in DOMAIN challenges : challenges[c] \in Challenge
<1>1. challenges \in Seq(Challenge) /\ Len(challenges) <= MaxChallenges
  BY DEF Typed, TypeOK
<1>2. Len(challenges) \in Nat /\ DOMAIN challenges = 1 .. Len(challenges)
  BY <1>1, LenProperties
<1> QED BY <1>1, <1>2, ElementOfSeq, BoundsNat

\* A code is of one sort or the other.
LEMMA ProofSort ==
  /\ \A p \in TotpCode : IsTotp(p) /\ p.secret \in Secret /\ p.step \in Nat
  /\ \A p \in RecoveryCode : ~IsTotp(p) /\ p.secret \in Secret
<1>1. \A p \in TotpCode : DOMAIN p = {"secret", "step"}
  BY DEF TotpCode
<1>2. \A p \in RecoveryCode : DOMAIN p = {"secret", "recovery"}
  BY DEF RecoveryCode
<1> QED BY <1>1, <1>2 DEF IsTotp, TotpCode, RecoveryCode, Step

LEMMA InitInductive == Init => Inductive
<1> SUFFICES ASSUME Init PROVE Inductive
  OBVIOUS
<1>1. user \in User
  BY NothingType, BoundsNat DEF Init, User, PasswordVersion, MfaVersion, Secret, Step
<1>2. challenges \in Seq(Challenge) /\ Len(challenges) = 0 /\ DOMAIN challenges = {}
  BY EmptySeq DEF Init
<1>3. accepted \in [Proof -> Nat] /\ \A p \in Proof : accepted[p] = 0
  BY DEF Init
<1>4. Typed
  BY <1>1, <1>2, <1>3, BoundsNat DEF Init, Typed, TypeOK, RequestState
<1>5. \A r \in Requests : req[r] = Idle /\ Idle.pc = "idle"
  BY DEF Init, Idle
<1>6. \A r \in Requests : Holds(req[r])
  <2>1. user.totpEnabled = FALSE
    BY DEF Init
  <2> QED BY <1>5, <2>1 DEF Holds
<1>7. Newest
  BY DEF Init, Newest, NoPending
<1>8. \A p \in Proof : UsedUp(p)
  BY <1>3 DEF UsedUp
<1> QED BY <1>2, <1>4, <1>6, <1>7, <1>8 DEF Inductive, Spent

---------------------------------------------------------------------------
\* The user and the challenges only go forward.
Forward ==
  /\ user.mfaVersion <= user'.mfaVersion
  /\ user'.totpEnabled /\ user'.mfaVersion = user.mfaVersion =>
       user.totpEnabled /\ user'.secret = user.secret
  /\ DOMAIN challenges \subseteq DOMAIN challenges'
  /\ \A c \in DOMAIN challenges :
       /\ challenges'[c].passwordVersion = challenges[c].passwordVersion
       /\ challenges'[c].mfaVersion = challenges[c].mfaVersion

\* What a request holds survives the steps of every other.
LEMMA StillHolds ==
  ASSUME Typed, user' \in User, Forward, NEW state \in RequestState, Holds(state)
  PROVE  Holds(state)'
<1>1. user.mfaVersion \in Nat /\ user'.mfaVersion \in Nat
  BY UserType DEF User, MfaVersion
<1>2. state.pc \in {"challenge", "prove", "consume", "disable", "compare"} =>
        state.mfaVersion \in Nat
  BY DEF RequestState, Idle, Challenging, Loading, ProofInHand, Enrolling, Enabling,
         Comparing, MfaVersion
<1>3. state.pc \in {"challenge", "prove", "consume", "disable", "compare"} =>
        state.mfaVersion <= user'.mfaVersion
  BY <1>1, <1>2 DEF Forward, Holds
<1>4. state.pc \in {"prove", "compare"} /\ state.mfaVersion = user'.mfaVersion =>
        user'.mfaVersion = user.mfaVersion
  BY <1>1, <1>2 DEF Forward, Holds
<1>5. ASSUME user'.totpEnabled, state.mfaVersion = user'.mfaVersion
      PROVE  /\ state.pc = "compare" => state.secret = user'.secret
             /\ state.pc = "prove" => state.proof.secret = user'.secret
  BY <1>4, <1>5 DEF Forward, Holds
<1>6. state.pc \in {"prove", "consume"} /\ state.challenge # 0 =>
       /\ state.challenge \in DOMAIN challenges'
       /\ challenges'[state.challenge].passwordVersion = state.passwordVersion
       /\ challenges'[state.challenge].mfaVersion = state.mfaVersion
  BY DEF Forward, Holds
<1> QED BY <1>3, <1>5, <1>6 DEF Forward, Holds

\* No request moves, or one does, to a state that holds.
Moves ==
  \/ req' = req
  \/ \E r \in Requests, state \in RequestState :
       Holds(state) /\ req' = [req EXCEPT ![r] = state]

LEMMA RequestsHold ==
  ASSUME Inductive, user' \in User, Forward, Moves
  PROVE  /\ req' \in [Requests -> RequestState]
         /\ \A s \in Requests : Holds(req[s])'
<1>1. req' \in [Requests -> RequestState]
  BY DEF Inductive, Typed, Moves
<1>2. ASSUME NEW s \in Requests PROVE Holds(req[s])'
  <2>1. PICK old \in RequestState : old = req'[s] /\ Holds(old)
    BY DEF Inductive, Typed, Moves
  <2>2. Holds(old)'
    BY <2>1, StillHolds DEF Inductive
  <2> QED BY <2>1, <2>2 DEF Holds
<1> QED BY <1>1, <1>2

LEMMA MoveIdle ==
  ASSUME NEW r \in Requests, req' = [req EXCEPT ![r] = Idle]
  PROVE  Moves
<1>1. Idle \in RequestState /\ Holds(Idle)
  BY DEF RequestState, Idle, Holds
<1> QED BY <1>1 DEF Moves

---------------------------------------------------------------------------
(* Steps that change no code. *)

\* A step of the requests and of the challenges.
LEMMA ChallengesInductive ==
  ASSUME Inductive, Moves, UNCHANGED <<user, enrolments, accepted>>,
         challenges' \in Seq(Challenge), Len(challenges') <= MaxChallenges,
         clock' \in 0 .. MaxClock,
         DOMAIN challenges \subseteq DOMAIN challenges',
         \A c \in DOMAIN challenges :
            /\ challenges'[c].passwordVersion = challenges[c].passwordVersion
            /\ challenges'[c].mfaVersion = challenges[c].mfaVersion,
         Spent'
  PROVE  Inductive'
<1>1. user' \in User /\ Forward
  BY UserType DEF Inductive, Forward
<1>2. /\ req' \in [Requests -> RequestState]
      /\ \A s \in Requests : Holds(req[s])'
  BY <1>1, RequestsHold
<1>3. Typed'
  BY <1>2 DEF Inductive, Typed, TypeOK
<1>4. Newest'
  BY DEF Inductive, Newest
<1>5. \A p \in Proof : UsedUp(p)'
  BY DEF Inductive, UsedUp
<1> QED BY <1>2, <1>3, <1>4, <1>5 DEF Inductive

LEMMA ReadInductive ==
  ASSUME Inductive, Moves, UNCHANGED <<user, challenges, enrolments, clock, accepted>>
  PROVE  Inductive'
<1>1. Spent' /\ challenges' \in Seq(Challenge) /\ Len(challenges') <= MaxChallenges
      /\ clock' \in 0 .. MaxClock
  BY DEF Inductive, Typed, TypeOK, Spent
<1> QED BY <1>1, ChallengesInductive

\* One challenge changed, and stays of the same versions.
LEMMA ChallengeChanged ==
  ASSUME Inductive, Moves, UNCHANGED <<user, enrolments, clock, accepted>>,
         NEW c \in DOMAIN challenges, NEW doc \in Challenge,
         challenges' = [challenges EXCEPT ![c] = doc],
         doc.passwordVersion = challenges[c].passwordVersion,
         doc.mfaVersion = challenges[c].mfaVersion,
         doc.logins = 0 \/ (doc.logins = 1 /\ doc.consumed)
  PROVE  Inductive'
<1>1. /\ challenges' \in Seq(Challenge) /\ Len(challenges') = Len(challenges)
      /\ DOMAIN challenges' = DOMAIN challenges
      /\ challenges'[c] = doc
      /\ \A d \in DOMAIN challenges : d # c => challenges'[d] = challenges[d]
  BY ChallengesType, ExceptSeq DEF Inductive
<1>2. Spent'
  BY <1>1 DEF Inductive, Spent
<1>3. Len(challenges') <= MaxChallenges /\ clock' \in 0 .. MaxClock
  BY <1>1 DEF Inductive, Typed, TypeOK
<1> QED BY <1>1, <1>2, <1>3, ChallengesInductive

LEMMA StartInductive ==
  ASSUME Inductive, NEW r \in Requests, StartChallenge(r)
  PROVE  Inductive'
<1>1. PICK doc \in Challenge :
        /\ challenges' = Append(challenges, doc) /\ doc.logins = 0
        /\ Len(challenges) < MaxChallenges
  <2>1. req[r].passwordVersion \in PasswordVersion /\ req[r].mfaVersion \in MfaVersion
    BY DEF StartChallenge, Inductive, Typed, RequestState, Idle, Challenging, Loading,
           ProofInHand, Enrolling, Enabling, Comparing
  <2>2. [passwordVersion |-> req[r].passwordVersion, mfaVersion |-> req[r].mfaVersion,
         attempts |-> 0, consumed |-> FALSE, logins |-> 0] \in Challenge
    BY <2>1, BoundsNat DEF Challenge
  <2> QED BY <2>2 DEF StartChallenge
<1>2. Moves /\ UNCHANGED <<user, enrolments, clock, accepted>>
  BY MoveIdle DEF StartChallenge, Becomes
<1>3. challenges \in Seq(Challenge) /\ Len(challenges) \in Nat
      /\ DOMAIN challenges = 1 .. Len(challenges)
  BY ChallengesType DEF Inductive
<1>4. /\ challenges' \in Seq(Challenge) /\ Len(challenges') = Len(challenges) + 1
      /\ \A c \in DOMAIN challenges : challenges'[c] = challenges[c]
      /\ challenges'[Len(challenges) + 1] = doc
  BY <1>1, <1>3, AppendProperties
<1>5. DOMAIN challenges' = DOMAIN challenges \cup {Len(challenges) + 1}
  BY <1>3, <1>4, LenProperties
<1>6. Spent'
  BY <1>1, <1>4, <1>5 DEF Inductive, Spent
<1>7. Len(challenges') <= MaxChallenges /\ clock' \in 0 .. MaxClock
  BY <1>1, <1>2, <1>3, <1>4, BoundsNat DEF Inductive, Typed, TypeOK
<1> QED BY <1>2, <1>4, <1>5, <1>6, <1>7, ChallengesInductive

LEMMA ClaimChallengeInductive ==
  ASSUME Inductive, NEW r \in Requests, NEW c \in DOMAIN challenges, ClaimChallenge(r, c)
  PROVE  Inductive'
<1>1. challenges[c] \in Challenge /\ c \in 1 .. MaxChallenges
  BY ChallengesType DEF Inductive
<1>2. PICK doc \in Challenge : doc = [challenges[c] EXCEPT !.attempts = @ + 1]
  <2>1. challenges[c].attempts + 1 \in 0 .. MaxAttempts
    BY <1>1, BoundsNat DEF ClaimChallenge, Challenge
  <2> QED BY <1>1, <2>1 DEF Challenge
<1>3. challenges' = [challenges EXCEPT ![c] = doc]
  BY <1>2 DEF ClaimChallenge
<1>4. [pc |-> "loadUser", challenge |-> c] \in RequestState
      /\ Holds([pc |-> "loadUser", challenge |-> c])
  BY <1>1 DEF RequestState, Loading, Holds
<1>5. Moves
  BY <1>4 DEF ClaimChallenge, Becomes, Moves
<1>6. /\ doc.passwordVersion = challenges[c].passwordVersion
      /\ doc.mfaVersion = challenges[c].mfaVersion
      /\ doc.logins = challenges[c].logins /\ doc.consumed = challenges[c].consumed
  BY <1>1, <1>2 DEF Challenge
<1>7. doc.logins = 0 \/ (doc.logins = 1 /\ doc.consumed)
  BY <1>6 DEF Inductive, Spent
<1>8. UNCHANGED <<user, enrolments, clock, accepted>>
  BY DEF ClaimChallenge
<1> QED BY <1>3, <1>5, <1>6, <1>7, <1>8, ChallengeChanged

LEMMA ConsumeInductive ==
  ASSUME Inductive, NEW r \in Requests, ConsumeChallenge(r)
  PROVE  Inductive'
<1>1. PICK c \in DOMAIN challenges : c = req[r].challenge
  BY DEF ConsumeChallenge, Inductive, Holds
<1>2. challenges[c] \in Challenge /\ ~challenges[c].consumed /\ challenges[c].logins = 0
  BY <1>1, ChallengesType DEF ConsumeChallenge, Inductive, Spent
<1>3. PICK doc \in Challenge : doc = [challenges[c] EXCEPT !.consumed = TRUE, !.logins = 1]
  BY <1>2 DEF Challenge
<1>4. challenges' = [challenges EXCEPT ![c] = doc]
  <2>1. challenges' = [challenges EXCEPT ![c] =
                         [challenges[c] EXCEPT !.consumed = TRUE,
                                               !.logins = challenges[c].logins + 1]]
    BY <1>1, <1>2, ChallengesType DEF ConsumeChallenge, Challenge, Inductive
  <2> QED BY <1>2, <1>3, <2>1
<1>5. /\ doc.passwordVersion = challenges[c].passwordVersion
      /\ doc.mfaVersion = challenges[c].mfaVersion
      /\ doc.logins = 1 /\ doc.consumed
  BY <1>2, <1>3 DEF Challenge
<1>6. Moves /\ UNCHANGED <<user, enrolments, clock, accepted>>
  BY MoveIdle DEF ConsumeChallenge, Becomes
<1> QED BY <1>4, <1>5, <1>6, ChallengeChanged

LEMMA ExpireChallengeInductive ==
  ASSUME Inductive, NEW c \in DOMAIN challenges, ExpireChallenge(c)
  PROVE  Inductive'
<1>1. challenges[c] \in Challenge /\ challenges[c].logins = 0
  BY ChallengesType DEF ExpireChallenge, Inductive, Spent
<1>2. PICK doc \in Challenge : doc = [challenges[c] EXCEPT !.consumed = TRUE]
  BY <1>1 DEF Challenge
<1>3. challenges' = [challenges EXCEPT ![c] = doc]
  BY <1>2 DEF ExpireChallenge
<1>4. /\ doc.passwordVersion = challenges[c].passwordVersion
      /\ doc.mfaVersion = challenges[c].mfaVersion /\ doc.logins = 0
  BY <1>1, <1>2 DEF Challenge
<1>5. Moves /\ UNCHANGED <<user, enrolments, clock, accepted>>
  BY DEF ExpireChallenge, Moves
<1> QED BY <1>3, <1>4, <1>5, ChallengeChanged

---------------------------------------------------------------------------
(* Steps that change the setup, and accept no code. *)

LEMMA SetupInductive ==
  ASSUME Inductive, Moves, UNCHANGED <<challenges, clock, accepted>>,
         user' \in User, enrolments' \in 0 .. MaxEnrolments, enrolments <= enrolments',
         user.mfaVersion <= user'.mfaVersion,
         user'.pending.secret \in {0, user.pending.secret} \cup {enrolments + 1},
         Newest',
         user'.totpEnabled =>
           /\ user.totpEnabled /\ user'.secret = user.secret
           /\ user'.lastUsedStep = user.lastUsedStep
           /\ user'.recoveryCodes = user.recoveryCodes
  PROVE  Inductive'
<1>1. Forward
  BY DEF Forward
<1>2. /\ req' \in [Requests -> RequestState]
      /\ \A s \in Requests : Holds(req[s])'
  BY <1>1, RequestsHold
<1>3. Typed'
  BY <1>2 DEF Inductive, Typed, TypeOK
<1>4. Spent'
  BY DEF Inductive, Spent
<1>5. ASSUME NEW p \in Proof PROVE UsedUp(p)'
  <2> SUFFICES ASSUME accepted[p] > 0 PROVE UsedUp(p)'
    BY DEF UsedUp
  <2>1. enrolments \in Nat /\ enrolments' \in Nat
    BY UserType DEF Inductive
  <2>2. UsedUp(p)
    BY DEF Inductive
  <2>3. p.secret \in 1 .. enrolments'
    BY <2>1, <2>2 DEF UsedUp
  <2>4. p.secret # user'.pending.secret
    BY <2>1, <2>2 DEF UsedUp
  <2>5. user'.totpEnabled /\ p.secret = user'.secret =>
         IF IsTotp(p) THEN p.step <= user'.lastUsedStep
                      ELSE p.recovery \notin user'.recoveryCodes
    BY <2>2 DEF UsedUp
  <2>6. accepted'[p] = 1
    BY <2>2 DEF UsedUp
  <2> QED BY <2>3, <2>4, <2>5, <2>6 DEF UsedUp, IsTotp
<1> QED BY <1>2, <1>3, <1>4, <1>5 DEF Inductive

LEMMA EnrollInductive ==
  ASSUME Inductive, NEW r \in Requests, Enroll(r)
  PROVE  Inductive'
<1>1. user \in User /\ enrolments \in Nat /\ user.passwordVersion \in PasswordVersion
  BY UserType DEF Inductive
<1>2. enrolments + 1 \in 0 .. MaxEnrolments
  BY <1>1, BoundsNat DEF Enroll
<1>3. PICK pending \in Pending : /\ pending.secret = enrolments + 1
                                 /\ user' = [user EXCEPT !.pending = pending]
  <2>1. [NoPending EXCEPT !.secret = enrolments + 1,
                         !.passwordVersion = user.passwordVersion] \in Pending
    BY <1>1, <1>2, NothingType DEF Pending, Secret
  <2> QED BY <2>1 DEF Enroll, NoPending
<1>4. /\ user' \in User /\ user'.mfaVersion = user.mfaVersion
      /\ user'.totpEnabled = user.totpEnabled /\ user'.pending.secret = enrolments + 1
  BY <1>1, <1>3 DEF User
<1>5. ~user.totpEnabled /\ enrolments' = enrolments + 1
  BY DEF Enroll
<1>6. Newest'
  BY <1>4, <1>5 DEF Newest
<1>7. user.mfaVersion <= user'.mfaVersion /\ enrolments <= enrolments'
  BY <1>1, <1>4, <1>5, UserType DEF Inductive
<1>8. Moves /\ UNCHANGED <<challenges, clock, accepted>>
  BY MoveIdle DEF Enroll, Becomes
<1> QED BY <1>2, <1>4, <1>5, <1>6, <1>7, <1>8, SetupInductive

LEMMA ClaimConfirmInductive ==
  ASSUME Inductive, NEW r \in Requests, ClaimConfirm(r)
  PROVE  Inductive'
<1>1. user \in User /\ user.pending \in Pending /\ user.passwordVersion \in PasswordVersion
  BY UserType DEF Inductive
<1>2. PICK pending \in Pending : pending = [user.pending EXCEPT !.attempts = @ + 1]
  <2>1. user.pending.attempts + 1 \in 0 .. MaxAttempts
    BY <1>1, BoundsNat DEF ClaimConfirm, Pending
  <2> QED BY <1>1, <2>1 DEF Pending
<1>3. user' = [user EXCEPT !.pending = pending] /\ pending.secret = user.pending.secret
  BY <1>1, <1>2 DEF ClaimConfirm, User, Pending
<1>4. /\ user' \in User /\ user'.mfaVersion = user.mfaVersion
      /\ user'.totpEnabled = user.totpEnabled
      /\ user'.pending.secret = user.pending.secret
      /\ user'.secret = user.secret
  BY <1>1, <1>3 DEF User
<1>5. ~user.totpEnabled /\ UNCHANGED <<challenges, enrolments, clock, accepted>>
  BY DEF ClaimConfirm
<1>6. Newest'
  BY <1>4, <1>5 DEF Inductive, Newest
<1>7. user.mfaVersion <= user'.mfaVersion /\ enrolments <= enrolments'
      /\ enrolments' \in 0 .. MaxEnrolments
  BY <1>4, <1>5, UserType DEF Inductive, Typed, TypeOK
<1>8. Moves
  <2>1. CASE req' = [req EXCEPT ![r] = Idle]
    BY <2>1, MoveIdle
  <2>2. ASSUME NEW step \in MatchingSteps,
               req' = [req EXCEPT ![r] =
                         [pc |-> "enable", passwordVersion |-> user.passwordVersion,
                          proof |-> [secret |-> user.pending.secret, step |-> step]]]
        PROVE  Moves
    <3>1. [secret |-> user.pending.secret, step |-> step] \in TotpCode
      BY <1>1 DEF TotpCode, Pending, MatchingSteps
    <3>2. PICK state \in RequestState :
            state = [pc |-> "enable", passwordVersion |-> user.passwordVersion,
                     proof |-> [secret |-> user.pending.secret, step |-> step]]
      BY <1>1, <3>1 DEF RequestState, Enabling
    <3>3. Holds(state)
      BY <3>2 DEF Holds, ClaimConfirm
    <3> QED BY <2>2, <3>2, <3>3 DEF Moves
  <2> QED BY <2>1, <2>2 DEF ClaimConfirm, Becomes
<1> QED BY <1>4, <1>5, <1>6, <1>7, <1>8, SetupInductive

\* The setup, or the factor, is withdrawn.
LEMMA WithdrawInductive ==
  ASSUME Inductive,
         \/ \E r \in Requests : DisableTotp(r)
         \/ ResetPassword \/ ExpirePending
  PROVE  Inductive'
<1>1. user \in User /\ user.passwordVersion \in Nat /\ user.mfaVersion \in Nat
      /\ enrolments \in Nat
  BY UserType DEF Inductive
<1>2. UNCHANGED <<challenges, enrolments, clock, accepted>> /\ Moves
  BY MoveIdle DEF DisableTotp, ResetPassword, ExpirePending, Becomes, Moves
<1>3. user' \in User /\ user'.pending = NoPending /\ user.mfaVersion <= user'.mfaVersion
      /\ (user'.totpEnabled =>
            /\ user.totpEnabled /\ user'.secret = user.secret
            /\ user'.lastUsedStep = user.lastUsedStep
            /\ user'.recoveryCodes = user.recoveryCodes)
  <2>1. CASE \E r \in Requests : DisableTotp(r)
    <3>1. user.mfaVersion + 1 \in MfaVersion
      BY <1>1, <2>1, BoundsNat DEF DisableTotp, MfaVersion
    <3>2. user' = [user EXCEPT !.totpEnabled = FALSE, !.secret = 0, !.lastUsedStep = 0,
                               !.recoveryCodes = {}, !.mfaVersion = user.mfaVersion + 1,
                               !.pending = NoPending]
      BY <1>1, <2>1 DEF DisableTotp, User
    <3>3. user' \in User
      <4>1. 0 \in Secret /\ 0 \in Step
        BY BoundsNat DEF Secret, Step
      <4>2. PICK v \in MfaVersion : v = user.mfaVersion + 1
        BY <3>1
      <4>3. user' = [user EXCEPT !.totpEnabled = FALSE, !.secret = 0, !.lastUsedStep = 0,
                                 !.recoveryCodes = {}, !.mfaVersion = v,
                                 !.pending = NoPending]
        BY <3>2, <4>2
      <4> QED BY <1>1, <4>1, <4>3, NothingType DEF User
    <3>4. user'.mfaVersion = user.mfaVersion + 1 /\ user'.pending = NoPending
          /\ user'.totpEnabled = FALSE
      BY <1>1, <3>2 DEF User
    <3> QED BY <1>1, <3>3, <3>4
  <2>2. CASE ResetPassword
    <3>1. user.passwordVersion + 1 \in PasswordVersion
      BY <1>1, <2>2, BoundsNat DEF ResetPassword, PasswordVersion
    <3>2. PICK v \in PasswordVersion : v = user.passwordVersion + 1
      BY <3>1
    <3>3. user' = [user EXCEPT !.passwordVersion = v, !.pending = NoPending]
      <4>1. user' = [user EXCEPT !.passwordVersion = user.passwordVersion + 1,
                                 !.pending = NoPending]
        BY <1>1, <2>2 DEF ResetPassword, User
      <4> QED BY <3>2, <4>1
    <3>4. user' \in User
      BY <1>1, <3>3, NothingType DEF User
    <3>5. /\ user'.pending = NoPending /\ user'.mfaVersion = user.mfaVersion
          /\ user'.totpEnabled = user.totpEnabled /\ user'.secret = user.secret
          /\ user'.lastUsedStep = user.lastUsedStep
          /\ user'.recoveryCodes = user.recoveryCodes
      BY <1>1, <3>3 DEF User
    <3> QED BY <1>1, <3>4, <3>5
  <2>3. CASE ExpirePending
    BY <1>1, <2>3, NothingType DEF ExpirePending, User
  <2> QED BY <2>1, <2>2, <2>3
<1>4. user'.pending.secret = 0
  BY <1>3 DEF NoPending
<1>5. Newest'
  BY <1>2, <1>3, <1>4 DEF Inductive, Newest
<1>6. enrolments' \in 0 .. MaxEnrolments /\ enrolments <= enrolments'
  BY <1>1, <1>2 DEF Inductive, Typed, TypeOK
<1> QED BY <1>2, <1>3, <1>4, <1>5, <1>6, SetupInductive

---------------------------------------------------------------------------
(* Steps that accept a code. *)

\* A login, or disable, uses a code of the factor in use.
LEMMA VerifyInductive ==
  ASSUME Inductive, NEW r \in Requests, VerifyProof(r)
  PROVE  Inductive'
<1>1. /\ user \in User /\ user.lastUsedStep \in Nat /\ user.secret \in Secret
      /\ enrolments \in Nat /\ user.mfaVersion \in Nat
  BY UserType DEF Inductive
<1>2. PICK old \in ProofInHand : old = req[r] /\ old.pc = "prove" /\ Holds(old)
  BY DEF VerifyProof, Inductive, Typed, RequestState, Idle, Challenging, Loading,
         Enrolling, Enabling, Comparing
<1>3. PICK proof \in Proof : proof = old.proof
  BY DEF ProofInHand
<1>4. user.totpEnabled /\ user.mfaVersion = old.mfaVersion
  BY <1>2 DEF VerifyProof, AcceptProof, SameVersions
<1>5. proof.secret = user.secret /\ user.secret = enrolments /\ user.secret # 0
      /\ user.pending.secret = 0
  BY <1>2, <1>3, <1>4 DEF Holds, Inductive, Newest
<1>6. accepted' = [accepted EXCEPT ![proof] = @ + 1]
  BY <1>2, <1>3 DEF VerifyProof, AcceptProof, Accept
<1>7. \/ /\ IsTotp(proof) /\ user.lastUsedStep < proof.step
         /\ user' = [user EXCEPT !.lastUsedStep = proof.step]
      \/ /\ ~IsTotp(proof) /\ proof.recovery \in user.recoveryCodes
         /\ user' = [user EXCEPT !.recoveryCodes = @ \ {proof.recovery}]
  BY <1>2, <1>3 DEF VerifyProof, AcceptProof
<1>8. UNCHANGED <<challenges, enrolments, clock>>
  BY DEF VerifyProof
<1>9. accepted \in [Proof -> Nat]
  BY DEF Inductive, Typed, TypeOK
<1>10. accepted[proof] = 0
  <2>1. UsedUp(proof)
    BY DEF Inductive
  <2>2. accepted[proof] \in Nat
    BY <1>9
  <2>3. CASE IsTotp(proof)
    <3>1. proof.step \in Nat
      BY <2>3, ProofSort DEF Proof
    <3>2. ~(proof.step <= user.lastUsedStep)
      BY <1>1, <1>7, <2>3, <3>1
    <3> QED BY <1>4, <1>5, <2>1, <2>2, <2>3, <3>2 DEF UsedUp
  <2>4. CASE ~IsTotp(proof)
    BY <1>4, <1>5, <1>7, <2>1, <2>2, <2>4 DEF UsedUp
  <2> QED BY <2>3, <2>4
<1>11. /\ user' \in User /\ user'.secret = user.secret /\ user'.mfaVersion = user.mfaVersion
       /\ user'.totpEnabled = user.totpEnabled /\ user'.pending = user.pending
  <2>1. CASE IsTotp(proof)
    <3>1. proof.step \in Step
      BY <2>1, ProofSort DEF Proof, TotpCode
    <3> QED BY <1>1, <1>7, <2>1, <3>1 DEF User
  <2>2. CASE ~IsTotp(proof)
    BY <1>1, <1>7, <2>2 DEF User
  <2> QED BY <2>1, <2>2
<1>12. /\ \/ user'.lastUsedStep = user.lastUsedStep
          \/ user'.lastUsedStep = proof.step /\ user.lastUsedStep < proof.step
       /\ user'.recoveryCodes \subseteq user.recoveryCodes
       /\ IsTotp(proof) => user'.lastUsedStep = proof.step
       /\ ~IsTotp(proof) => proof.recovery \notin user'.recoveryCodes
  BY <1>1, <1>7 DEF User
<1>13. Moves
  <2>1. PICK pc \in {"consume", "disable"} :
          /\ pc = "disable" <=> old.challenge = 0
          /\ req' = [req EXCEPT ![r] = [old EXCEPT !.pc = pc]]
    BY <1>2 DEF VerifyProof, Becomes
  <2>2. PICK state \in ProofInHand : state = [old EXCEPT !.pc = pc]
    BY DEF ProofInHand
  <2>3. /\ state.pc = pc /\ state.challenge = old.challenge
        /\ state.mfaVersion = old.mfaVersion
        /\ state.passwordVersion = old.passwordVersion
    BY <2>2 DEF ProofInHand
  <2>4. Holds(state)
    BY <1>2, <2>1, <2>3 DEF Holds
  <2> QED BY <2>1, <2>2, <2>4 DEF Moves, RequestState
<1>14. Forward
  BY <1>1, <1>8, <1>11 DEF Forward
<1>15. /\ req' \in [Requests -> RequestState]
       /\ \A s \in Requests : Holds(req[s])'
  BY <1>11, <1>13, <1>14, RequestsHold
<1>16. Typed'
  BY <1>6, <1>8, <1>9, <1>11, <1>15 DEF Inductive, Typed, TypeOK
<1>17. Newest' /\ Spent'
  BY <1>8, <1>11 DEF Inductive, Newest, Spent
<1>18. ASSUME NEW p \in Proof PROVE UsedUp(p)'
  <2>1. CASE p = proof
    <3>1. accepted'[p] = 1
      BY <1>6, <1>9, <1>10, <2>1
    <3>2. p.secret \in 1 .. enrolments' /\ p.secret # user'.pending.secret
      BY <1>1, <1>5, <1>8, <1>11, <2>1
    <3>3. IF IsTotp(p) THEN p.step <= user'.lastUsedStep
                       ELSE p.recovery \notin user'.recoveryCodes
      <4>1. IsTotp(p) => p.step \in Nat
        BY ProofSort DEF Proof
      <4> QED BY <1>12, <2>1, <4>1
    <3> QED BY <3>1, <3>2, <3>3 DEF UsedUp, IsTotp
  <2>2. CASE p # proof
    <3> SUFFICES ASSUME accepted'[p] > 0 PROVE UsedUp(p)'
      BY DEF UsedUp
    <3>1. accepted'[p] = accepted[p]
      BY <1>6, <1>9, <2>2
    <3>2. /\ accepted[p] = 1
          /\ p.secret \in 1 .. enrolments
          /\ p.secret # user.pending.secret
          /\ p.secret = user.secret =>
               IF IsTotp(p) THEN p.step <= user.lastUsedStep
                            ELSE p.recovery \notin user.recoveryCodes
      BY <1>4, <3>1 DEF Inductive, UsedUp
    <3>3. p.secret = user'.secret =>
            IF IsTotp(p) THEN p.step <= user'.lastUsedStep
                         ELSE p.recovery \notin user'.recoveryCodes
      <4>1. ASSUME p.secret = user.secret, IsTotp(p) PROVE p.step <= user'.lastUsedStep
        <5>1. p.step \in Nat /\ p.step <= user.lastUsedStep
          BY <3>2, <4>1, ProofSort DEF Proof
        <5>2. CASE user'.lastUsedStep = user.lastUsedStep
          BY <5>1, <5>2
        <5>3. CASE user'.lastUsedStep = proof.step /\ user.lastUsedStep < proof.step
          <6>1. user'.lastUsedStep \in Nat
            BY <1>11 DEF User, Step
          <6> QED BY <1>1, <5>1, <5>3, <6>1
        <5> QED BY <1>12, <5>2, <5>3
      <4> QED BY <1>11, <1>12, <3>2, <4>1
    <3> QED BY <1>8, <1>11, <3>1, <3>2, <3>3 DEF UsedUp, IsTotp
  <2> QED BY <2>1, <2>2
<1> QED BY <1>15, <1>16, <1>17, <1>18 DEF Inductive

\* The code that confirms a setup is of the secret that was pending, so none of
\* its codes was used before.
LEMMA EnableInductive ==
  ASSUME Inductive, NEW r \in Requests, EnableTotp(r)
  PROVE  Inductive'
<1>1. user \in User /\ enrolments \in Nat /\ user.mfaVersion \in Nat
  BY UserType DEF Inductive
<1>2. PICK old \in Enabling : old = req[r] /\ old.proof.secret # 0
  BY DEF EnableTotp, Inductive, Typed, Holds, RequestState, Idle, Challenging, Loading,
         Enrolling, ProofInHand, Comparing
<1>3. PICK proof \in TotpCode : proof = old.proof
  BY DEF Enabling
<1>4. proof.secret = user.pending.secret /\ proof.secret = enrolments /\ proof.secret # 0
  BY <1>2, <1>3 DEF EnableTotp, Inductive, Newest
<1>5. proof \in Proof /\ IsTotp(proof) /\ proof.secret \in Secret /\ proof.step \in Step
      /\ proof.step \in Nat
  BY ProofSort DEF Proof, TotpCode, Step
<1>6. accepted \in [Proof -> Nat]
  BY DEF Inductive, Typed, TypeOK
<1>7. accepted[proof] = 0
  <2>1. UsedUp(proof) /\ accepted[proof] \in Nat
    BY <1>5, <1>6 DEF Inductive
  <2> QED BY <1>4, <2>1 DEF UsedUp
<1>8. accepted' = [accepted EXCEPT ![proof] = accepted[proof] + 1]
      /\ UNCHANGED <<challenges, enrolments, clock>>
  BY <1>2, <1>3 DEF EnableTotp, Accept
<1>9. PICK v \in MfaVersion : v = user.mfaVersion + 1
  BY <1>1, BoundsNat DEF EnableTotp, MfaVersion
<1>10. user' = [user EXCEPT !.totpEnabled = TRUE, !.secret = proof.secret,
                            !.lastUsedStep = proof.step, !.recoveryCodes = RecoveryCodes,
                            !.mfaVersion = v, !.pending = NoPending]
  <2>1. user' = [user EXCEPT !.totpEnabled = TRUE, !.secret = proof.secret,
                             !.lastUsedStep = proof.step, !.recoveryCodes = RecoveryCodes,
                             !.mfaVersion = user.mfaVersion + 1, !.pending = NoPending]
    BY <1>1, <1>2, <1>3 DEF EnableTotp, EnabledWith, User
  <2> QED BY <1>9, <2>1
<1>11. /\ user' \in User /\ user'.secret = enrolments /\ user'.lastUsedStep = proof.step
       /\ user'.mfaVersion = user.mfaVersion + 1 /\ user'.pending = NoPending
  BY <1>1, <1>4, <1>5, <1>9, <1>10, NothingType DEF User
<1>12. user'.pending.secret = 0
  BY <1>11 DEF NoPending
<1>13. Moves
  BY MoveIdle DEF EnableTotp, Becomes
<1>14. Forward
  BY <1>1, <1>8, <1>11 DEF Forward
<1>15. /\ req' \in [Requests -> RequestState]
       /\ \A s \in Requests : Holds(req[s])'
  BY <1>11, <1>13, <1>14, RequestsHold
<1>16. Typed'
  <2>1. accepted' \in [Proof -> Nat]
    <3>1. accepted[proof] + 1 \in Nat
      BY <1>7
    <3> QED BY <1>6, <1>8, <3>1
  <2> QED BY <1>8, <1>11, <1>15, <2>1 DEF Inductive, Typed, TypeOK
<1>17. Newest' /\ Spent'
  BY <1>4, <1>8, <1>11, <1>12 DEF Inductive, Newest, Spent
<1>18. ASSUME NEW p \in Proof PROVE UsedUp(p)'
  <2>1. CASE p = proof
    <3>1. accepted'[p] = 1 /\ p.secret \in 1 .. enrolments' /\ p.secret # 0
      BY <1>1, <1>4, <1>5, <1>6, <1>7, <1>8, <2>1
    <3>2. IsTotp(p) /\ p.step <= user'.lastUsedStep
      BY <1>5, <1>11, <2>1
    <3> QED BY <1>12, <3>1, <3>2 DEF UsedUp, IsTotp
  <2>2. CASE p # proof
    <3> SUFFICES ASSUME accepted'[p] > 0 PROVE UsedUp(p)'
      BY DEF UsedUp
    <3>1. accepted'[p] = accepted[p]
      BY <1>5, <1>6, <1>8, <2>2
    <3>2. /\ accepted[p] = 1
          /\ p.secret \in 1 .. enrolments
          /\ p.secret # enrolments
      BY <1>4, <3>1 DEF Inductive, UsedUp
    <3>3. p.secret # 0
      BY <1>1, <3>2
    <3> QED BY <1>8, <1>11, <1>12, <3>1, <3>2, <3>3 DEF UsedUp
  <2> QED BY <2>1, <2>2
<1> QED BY <1>15, <1>16, <1>17, <1>18 DEF Inductive

---------------------------------------------------------------------------
\* What a request reads, and compares, holds.
LEMMA ReadsMove ==
  ASSUME Inductive, NEW r \in Requests,
         \/ Login(r) \/ CompareLogin(r) \/ LoadForEnroll(r)
         \/ LoadForDisable(r) \/ CompareForDisable(r) \/ Fail(r)
  PROVE  Moves
<1>1. user.passwordVersion \in PasswordVersion /\ user.mfaVersion \in MfaVersion
      /\ user.secret \in Secret /\ user.mfaVersion \in Nat
  BY UserType DEF Inductive
<1>2. CASE Login(r)
  <2>1. PICK state \in RequestState :
          state = [pc |-> "challenge", passwordVersion |-> user.passwordVersion,
                   mfaVersion |-> user.mfaVersion]
    BY <1>1 DEF RequestState, Challenging
  <2>2. Holds(state)
    BY <1>1, <2>1 DEF Holds
  <2> QED BY <1>2, <2>1, <2>2 DEF Login, Becomes, Moves
<1>3. CASE CompareLogin(r)
  <2>1. PICK c \in DOMAIN challenges :
          c = req[r].challenge /\ SameVersions(challenges[c])
    BY <1>3 DEF CompareLogin, Inductive, Holds
  <2>2. c \in 1 .. MaxChallenges
    BY ChallengesType DEF Inductive
  <2>3. PICK proof \in Presentable(user.secret) : req' = [req EXCEPT ![r] = Proving(c, proof, user)]
    BY <1>3, <2>1 DEF CompareLogin, Becomes
  <2>4. proof \in Proof /\ proof.secret = user.secret
    BY <1>1 DEF Presentable, Proof, TotpCode, RecoveryCode, MatchingSteps
  <2>5. PICK state \in RequestState : state = Proving(c, proof, user)
    <3>1. Proving(c, proof, user) \in ProofInHand
      BY <1>1, <2>2, <2>4 DEF ProofInHand, Proving
    <3> QED BY <3>1 DEF RequestState
  <2>6. Holds(state)
    BY <1>1, <2>1, <2>4, <2>5 DEF Holds, Proving, SameVersions
  <2> QED BY <2>3, <2>5, <2>6 DEF Moves
<1>4. CASE LoadForEnroll(r)
  <2>1. PICK state \in RequestState :
          state = [pc |-> "enroll", passwordVersion |-> user.passwordVersion]
    BY <1>1 DEF RequestState, Enrolling
  <2>2. Holds(state)
    BY <2>1 DEF Holds
  <2> QED BY <1>4, <2>1, <2>2 DEF LoadForEnroll, Becomes, Moves
<1>5. CASE LoadForDisable(r)
  <2>1. PICK state \in RequestState :
          state = [pc |-> "compare", secret |-> user.secret,
                   passwordVersion |-> user.passwordVersion, mfaVersion |-> user.mfaVersion]
    BY <1>1 DEF RequestState, Comparing
  <2>2. Holds(state)
    BY <1>1, <2>1 DEF Holds
  <2> QED BY <1>5, <2>1, <2>2 DEF LoadForDisable, Becomes, Moves
<1>6. CASE CompareForDisable(r)
  <2>1. PICK old \in Comparing : old = req[r] /\ Holds(old) /\ old.pc = "compare"
    BY <1>6 DEF CompareForDisable, Inductive, Typed, RequestState, Idle, Challenging,
                Loading, Enrolling, Enabling, ProofInHand
  <2>2. PICK proof \in Presentable(old.secret) : req' = [req EXCEPT ![r] = Proving(0, proof, old)]
    BY <1>6, <2>1 DEF CompareForDisable, Becomes
  <2>3. proof \in Proof /\ proof.secret = old.secret
    BY DEF Presentable, Proof, TotpCode, RecoveryCode, MatchingSteps, Comparing
  <2>4. PICK state \in RequestState : state = Proving(0, proof, old)
    <3>1. old.passwordVersion \in PasswordVersion /\ old.mfaVersion \in MfaVersion
      BY DEF Comparing
    <3>2. Proving(0, proof, old) \in ProofInHand
      BY <2>3, <3>1, BoundsNat DEF ProofInHand, Proving
    <3> QED BY <3>2 DEF RequestState
  <2>5. Holds(state)
    BY <2>1, <2>3, <2>4 DEF Holds, Proving
  <2> QED BY <2>2, <2>4, <2>5 DEF Moves
<1>7. CASE Fail(r)
  BY <1>7, MoveIdle DEF Fail, Becomes
<1> QED BY <1>2, <1>3, <1>4, <1>5, <1>6, <1>7

LEMMA NextInductive == Inductive /\ [Next]_vars => Inductive'
<1> SUFFICES ASSUME Inductive, [Next]_vars PROVE Inductive'
  OBVIOUS
<1>1. CASE UNCHANGED vars
  BY <1>1, ReadInductive DEF vars, Moves
<1>2. ASSUME NEW r \in Requests, Request(r) PROVE Inductive'
  <2>1. CASE \/ Login(r) \/ CompareLogin(r) \/ LoadForEnroll(r)
             \/ LoadForDisable(r) \/ CompareForDisable(r) \/ Fail(r)
    <3>1. UNCHANGED <<user, challenges, enrolments, clock, accepted>>
      BY <2>1 DEF Login, CompareLogin, LoadForEnroll, LoadForDisable, CompareForDisable, Fail
    <3> QED BY <2>1, <3>1, ReadsMove, ReadInductive
  <2>2. CASE \E c \in DOMAIN challenges : ClaimChallenge(r, c)
    BY <2>2, ClaimChallengeInductive
  <2>3. CASE DisableTotp(r)
    BY <2>3, WithdrawInductive
  <2> QED BY <1>2, <2>1, <2>2, <2>3, StartInductive, ConsumeInductive, VerifyInductive,
             EnrollInductive, ClaimConfirmInductive, EnableInductive DEF Request
<1>3. CASE \E c \in DOMAIN challenges : ExpireChallenge(c)
  BY <1>3, ExpireChallengeInductive
<1>4. CASE ResetPassword \/ ExpirePending
  BY <1>4, WithdrawInductive
<1>5. CASE Tick
  <2>1. UNCHANGED <<user, challenges, enrolments, accepted, req>> /\ clock' \in 0 .. MaxClock
    BY <1>5, BoundsNat DEF Tick, Inductive, Typed, TypeOK
  <2>2. Spent' /\ challenges' \in Seq(Challenge) /\ Len(challenges') <= MaxChallenges
    BY <2>1 DEF Inductive, Typed, TypeOK, Spent
  <2> QED BY <2>1, <2>2, ChallengesInductive DEF Moves
<1> QED BY <1>1, <1>2, <1>3, <1>4, <1>5 DEF Next

LEMMA AlwaysInductive == Spec => []Inductive
BY InitInductive, NextInductive, PTL DEF Spec

---------------------------------------------------------------------------
\* Every document has its type; the attempts of a challenge and of a setup stay
\* within their limit (AUTHENTICATION.md:144).
THEOREM TypeCorrect == Spec => []TypeOK
<1>1. Inductive => TypeOK
  BY DEF Inductive, Typed
<1> QED BY <1>1, AlwaysInductive, PTL

\* A time step and a recovery code are accepted at most once, whichever requests
\* present them (verifyProof and confirm of auth-mfa.service.ts).
THEOREM CodesSpent == Spec => []AcceptedOnce
<1>1. Inductive => AcceptedOnce
  <2> SUFFICES ASSUME Inductive, NEW p \in Proof PROVE accepted[p] <= 1
    BY DEF AcceptedOnce
  <2>1. accepted[p] \in Nat /\ UsedUp(p)
    BY DEF Inductive, Typed, TypeOK
  <2> QED BY <2>1 DEF UsedUp
<1> QED BY <1>1, AlwaysInductive, PTL

\* A login challenge signs in at most once (verifyLogin).
THEOREM OneLogin == Spec => []OneLoginPerChallenge
<1>1. Inductive => OneLoginPerChallenge
  BY DEF Inductive, Spent, OneLoginPerChallenge
<1> QED BY <1>1, AlwaysInductive, PTL

\* The factor in use is the newest one set up (enroll and confirm).
THEOREM NewestInUse == Spec => []NewestSetupWins
<1>1. Inductive => NewestSetupWins
  BY DEF Inductive, Newest, NewestSetupWins
<1> QED BY <1>1, AlwaysInductive, PTL

\* A challenge of earlier versions uses up no code of the factor of now.
THEOREM StaleProvesNothing == Spec => StaleChallengeProvesNothing
<1>1. Inductive /\ [Next]_vars => [ProvesForNow]_vars
  <2> SUFFICES ASSUME Inductive, Next PROVE ProvesForNow
    OBVIOUS
  <2> SUFFICES ASSUME NEW r \in Requests, req[r].pc = "prove", req'[r].pc = "consume"
               PROVE  SameVersions(challenges[req[r].challenge])
    BY DEF ProvesForNow
  <2>1. PICK s \in Requests : Request(s)
    BY DEF Next, ExpireChallenge, ResetPassword, Tick, ExpirePending
  <2>2. s = r
    <3>1. \E state : req' = [req EXCEPT ![s] = state]
      BY <2>1, Zenon DEF Request, Login, StartChallenge, ClaimChallenge, CompareLogin, VerifyProof,
             ConsumeChallenge, LoadForEnroll, Enroll, ClaimConfirm, EnableTotp,
             LoadForDisable, CompareForDisable, DisableTotp, Fail, Becomes
    <3> QED BY <3>1 DEF Inductive, Typed
  <2>3. VerifyProof(r)
    <3>1. CASE Fail(r)
      BY <3>1 DEF Fail, Becomes, Idle, Inductive, Typed
    <3> QED BY <2>1, <2>2, <3>1
            DEF Request, Login, StartChallenge, ClaimChallenge, CompareLogin,
                ConsumeChallenge, LoadForEnroll, Enroll, ClaimConfirm, EnableTotp,
                LoadForDisable, CompareForDisable, DisableTotp
  <2>4. req[r].challenge # 0 /\ SameVersions(req[r])
    BY <2>3 DEF VerifyProof, AcceptProof, Becomes, Inductive, Typed
  <2>5. Holds(req[r])
    BY DEF Inductive
  <2> QED BY <2>4, <2>5 DEF Holds, SameVersions
<1> QED BY <1>1, AlwaysInductive, PTL DEF Spec, StaleChallengeProvesNothing
=============================================================================
