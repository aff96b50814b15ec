------------------------------ MODULE MfaLogin ------------------------------
(***************************************************************************)
(* The authenticator of one user, code by code: auth/auth-mfa.service.ts   *)
(* and matchingTotpStep of auth/totp.crypto.ts. AuthSession models the     *)
(* sessions these operations start and end, with proofs that succeed or    *)
(* fail; this module models the proofs: time steps, recovery codes and     *)
(* the attempts that guesses share.                                        *)
(*                                                                         *)
(* A secret is told apart by the enrolment that drew it. The code of a     *)
(* secret at a time step is taken to be no other code of that secret. The  *)
(* user stays active and verified: a request refused for that reason is a  *)
(* Fail. ResetPassword here is the last write of a reset, which EmailedCodes      *)
(* models in full.                                                         *)
(***************************************************************************)
EXTENDS Naturals, Sequences

CONSTANTS
  Requests,             \* HTTP requests in flight; each may be issued again
  RecoveryCodes,        \* the recovery codes of an enrolment (10 in the code)
  MaxAttempts,          \* guesses for a challenge or a setup (5 in the code)
  MaxClock,             \* bound: how many 30-second time steps pass
  MaxPasswordVersion,   \* bound: how often the password is reset
  MaxMfaVersion,        \* bound: how often the factor is turned on or off
  MaxEnrolments,        \* bound: how many setups are stored
  MaxChallenges         \* bound: how many login challenges are issued

ASSUME BoundsAssumption ==
  {MaxAttempts, MaxClock, MaxPasswordVersion, MaxMfaVersion, MaxEnrolments,
   MaxChallenges} \subseteq Nat

VARIABLES
  user,        \* the user document
  challenges,  \* login challenges, in the order they were issued
  enrolments,  \* how many setups were stored so far
  clock,       \* the current time step
  accepted,    \* how often each code was accepted so far: no code reads it
  req          \* where each request is, and what it holds

vars == <<user, challenges, enrolments, clock, accepted, req>>

Secret == 0 .. MaxEnrolments           \* 0: the field is not set
Step == 0 .. MaxClock + 1
PasswordVersion == 0 .. MaxPasswordVersion
MfaVersion == 0 .. MaxMfaVersion

\* Every filter on a setup or a challenge tests expiresAt, so one that has
\* expired is as good as unset, or as consumed.
Pending == [secret : Secret, passwordVersion : PasswordVersion,
            attempts : 0 .. MaxAttempts]
NoPending == [secret |-> 0, passwordVersion |-> 0, attempts |-> 0]

User == [passwordVersion : PasswordVersion, mfaVersion : MfaVersion,
         totpEnabled : BOOLEAN, secret : Secret, lastUsedStep : Step,
         recoveryCodes : SUBSET RecoveryCodes, pending : Pending]

\* logins counts the logins it was good for: no code reads it.
Challenge == [passwordVersion : PasswordVersion, mfaVersion : MfaVersion,
              attempts : 0 .. MaxAttempts, consumed : BOOLEAN, logins : Nat]

\* A code somebody may present: of a secret at a time step, or a recovery code.
TotpCode == [secret : Secret, step : Step]
RecoveryCode == [secret : Secret, recovery : RecoveryCodes]
Proof == TotpCode \cup RecoveryCode

Idle == [pc |-> "idle"]
Becomes(r, state) == req' = [req EXCEPT ![r] = state]

Init ==
  /\ user = [passwordVersion |-> 0, mfaVersion |-> 0, totpEnabled |-> FALSE,
             secret |-> 0, lastUsedStep |-> 0, recoveryCodes |-> {},
             pending |-> NoPending]
  /\ challenges = << >>
  /\ enrolments = 0
  /\ clock = 0
  /\ accepted = [p \in Proof |-> 0]
  /\ req = [r \in Requests |-> Idle]

---------------------------------------------------------------------------
(* Codes. *)

\* matchingTotpStep: the step of now, the one before and the one after.
MatchingSteps == {step \in Step : step + 1 >= clock /\ step <= clock + 1}

\* What may be presented for the secret of a document at this moment: a code
\* that matches one of the steps, or any recovery code.
Presentable(secret) ==
  [secret : {secret}, step : MatchingSteps] \cup
  [secret : {secret}, recovery : RecoveryCodes]

IsTotp(proof) == "step" \in DOMAIN proof

Accept(proof) == accepted' = [accepted EXCEPT ![proof] = @ + 1]

\* The versions a request or a challenge was given are those of the user.
SameVersions(doc) ==
  /\ user.passwordVersion = doc.passwordVersion
  /\ user.mfaVersion = doc.mfaVersion

\* Mutant: a code is accepted again in the step it was used in.
AcceptProofSameStep(doc, proof) ==
  /\ user.totpEnabled /\ SameVersions(doc)
  /\ IF IsTotp(proof)
     THEN /\ user.lastUsedStep <= proof.step
          /\ user' = [user EXCEPT !.lastUsedStep = proof.step]
     ELSE /\ proof.recovery \in user.recoveryCodes
          /\ user' = [user EXCEPT !.recoveryCodes = @ \ {proof.recovery}]
  /\ Accept(proof)

\* verifyProof for the document loaded before: one update tests that the code
\* is unused, and uses it up.
AcceptProof(doc, proof) ==
  /\ user.totpEnabled /\ SameVersions(doc)
  /\ IF IsTotp(proof)
     THEN /\ user.lastUsedStep < proof.step
          /\ user' = [user EXCEPT !.lastUsedStep = proof.step]
     ELSE /\ proof.recovery \in user.recoveryCodes
          /\ user' = [user EXCEPT !.recoveryCodes = @ \ {proof.recovery}]
  /\ Accept(proof)

---------------------------------------------------------------------------
(* Signing in. *)

\* login compared the password of this document.
Login(r) ==
  /\ req[r].pc = "idle"
  /\ user.totpEnabled
  /\ Becomes(r, [pc |-> "challenge", passwordVersion |-> user.passwordVersion,
                 mfaVersion |-> user.mfaVersion])
  /\ UNCHANGED <<user, challenges, enrolments, clock, accepted>>

StartChallenge(r) ==
  /\ req[r].pc = "challenge"
  /\ Len(challenges) < MaxChallenges
  /\ challenges' = Append(challenges,
       [passwordVersion |-> req[r].passwordVersion, mfaVersion |-> req[r].mfaVersion,
        attempts |-> 0, consumed |-> FALSE, logins |-> 0])
  /\ Becomes(r, Idle)
  /\ UNCHANGED <<user, enrolments, clock, accepted>>

\* verifyLogin first claims an attempt.
ClaimChallenge(r, c) ==
  /\ req[r].pc = "idle"
  /\ ~challenges[c].consumed /\ challenges[c].attempts < MaxAttempts
  /\ challenges' = [challenges EXCEPT ![c].attempts = @ + 1]
  /\ Becomes(r, [pc |-> "loadUser", challenge |-> c])
  /\ UNCHANGED <<user, enrolments, clock, accepted>>

Proving(challenge, proof, doc) ==
  [pc |-> "prove", challenge |-> challenge, proof |-> proof,
   passwordVersion |-> doc.passwordVersion, mfaVersion |-> doc.mfaVersion]

\* Mutant: the challenge is not compared with the user.
CompareLoginAnyVersion(r) ==
  /\ req[r].pc = "loadUser"
  /\ user.totpEnabled
  /\ \E proof \in Presentable(user.secret) :
       Becomes(r, Proving(req[r].challenge, proof, user))
  /\ UNCHANGED <<user, challenges, enrolments, clock, accepted>>

\* It then loads the user, and compares the code with the secret loaded if the
\* challenge is of the user's versions. A wrong code ends the request (Fail).
CompareLogin(r) ==
  /\ req[r].pc = "loadUser"
  /\ user.totpEnabled /\ SameVersions(challenges[req[r].challenge])
  /\ \E proof \in Presentable(user.secret) :
       Becomes(r, Proving(req[r].challenge, proof, user))
  /\ UNCHANGED <<user, challenges, enrolments, clock, accepted>>

\* The proof is accepted; a login goes on to consume its challenge, and
\* disable (challenge 0) to turn the factor off.
VerifyProof(r) ==
  /\ req[r].pc = "prove"
  /\ AcceptProof(req[r], req[r].proof)
  /\ Becomes(r, [req[r] EXCEPT !.pc = IF req[r].challenge = 0 THEN "disable"
                                      ELSE "consume"])
  /\ UNCHANGED <<challenges, enrolments, clock>>

\* Mutant: the challenge is only looked at when an attempt is claimed.
ConsumeChallengeAnyway(r) ==
  /\ req[r].pc = "consume"
  /\ challenges' = [challenges EXCEPT ![req[r].challenge].consumed = TRUE,
                                      ![req[r].challenge].logins = @ + 1]
  /\ Becomes(r, Idle)
  /\ UNCHANGED <<user, enrolments, clock, accepted>>

\* The login succeeds; AuthSession goes on to create the session.
ConsumeChallenge(r) ==
  /\ req[r].pc = "consume"
  /\ ~challenges[req[r].challenge].consumed
  /\ challenges' = [challenges EXCEPT ![req[r].challenge].consumed = TRUE,
                                      ![req[r].challenge].logins = @ + 1]
  /\ Becomes(r, Idle)
  /\ UNCHANGED <<user, enrolments, clock, accepted>>

---------------------------------------------------------------------------
(* Turning the second factor on and off. *)

\* enroll, after the password was compared.
LoadForEnroll(r) ==
  /\ req[r].pc = "idle"
  /\ ~user.totpEnabled
  /\ Becomes(r, [pc |-> "enroll", passwordVersion |-> user.passwordVersion])
  /\ UNCHANGED <<user, challenges, enrolments, clock, accepted>>

\* A new secret replaces the pending one.
Enroll(r) ==
  /\ req[r].pc = "enroll"
  /\ ~user.totpEnabled /\ user.passwordVersion = req[r].passwordVersion
  /\ enrolments < MaxEnrolments
  /\ enrolments' = enrolments + 1
  /\ user' = [user EXCEPT !.pending =
                [NoPending EXCEPT !.secret = enrolments + 1,
                                  !.passwordVersion = user.passwordVersion]]
  /\ Becomes(r, Idle)
  /\ UNCHANGED <<challenges, clock, accepted>>

\* confirm claims an attempt of the setup, and compares the code with the
\* pending secret of the document that update answered.
ClaimConfirm(r) ==
  /\ req[r].pc = "idle"
  /\ ~user.totpEnabled
  /\ user.pending.secret # 0
  /\ user.pending.attempts < MaxAttempts
  /\ user' = [user EXCEPT !.pending.attempts = @ + 1]
  /\ \/ Becomes(r, Idle)
     \/ /\ user.pending.passwordVersion = user.passwordVersion
        /\ \E step \in MatchingSteps :
             Becomes(r, [pc |-> "enable", passwordVersion |-> user.passwordVersion,
                         proof |-> [secret |-> user.pending.secret, step |-> step]])
  /\ UNCHANGED <<challenges, enrolments, clock, accepted>>

\* The code that confirms the setup is used up with it.
EnabledWith(proof) ==
  [user EXCEPT !.totpEnabled = TRUE, !.secret = proof.secret,
               !.lastUsedStep = proof.step, !.recoveryCodes = RecoveryCodes,
               !.mfaVersion = @ + 1, !.pending = NoPending]

\* Mutant: whatever setup is pending is confirmed.
EnableTotpAnySetup(r) ==
  /\ req[r].pc = "enable"
  /\ ~user.totpEnabled /\ user.passwordVersion = req[r].passwordVersion
  /\ user.pending.secret # 0
  /\ user.mfaVersion < MaxMfaVersion
  /\ user' = EnabledWith(req[r].proof)
  /\ Accept(req[r].proof)
  /\ Becomes(r, Idle)
  /\ UNCHANGED <<challenges, enrolments, clock>>

EnableTotp(r) ==
  /\ req[r].pc = "enable"
  /\ ~user.totpEnabled /\ user.passwordVersion = req[r].passwordVersion
  /\ user.pending.secret = req[r].proof.secret
  /\ user.mfaVersion < MaxMfaVersion
  /\ user' = EnabledWith(req[r].proof)
  /\ Accept(req[r].proof)
  /\ Becomes(r, Idle)
  /\ UNCHANGED <<challenges, enrolments, clock>>

\* disable loads the user, compares the password, then the code.
LoadForDisable(r) ==
  /\ req[r].pc = "idle"
  /\ user.totpEnabled
  /\ Becomes(r, [pc |-> "compare", secret |-> user.secret,
                 passwordVersion |-> user.passwordVersion, mfaVersion |-> user.mfaVersion])
  /\ UNCHANGED <<user, challenges, enrolments, clock, accepted>>

CompareForDisable(r) ==
  /\ req[r].pc = "compare"
  /\ \E proof \in Presentable(req[r].secret) : Becomes(r, Proving(0, proof, req[r]))
  /\ UNCHANGED <<user, challenges, enrolments, clock, accepted>>

DisableTotp(r) ==
  /\ req[r].pc = "disable"
  /\ user.totpEnabled /\ SameVersions(req[r])
  /\ user.mfaVersion < MaxMfaVersion
  /\ user' = [user EXCEPT !.totpEnabled = FALSE, !.secret = 0, !.lastUsedStep = 0,
                          !.recoveryCodes = {}, !.mfaVersion = @ + 1,
                          !.pending = NoPending]
  /\ Becomes(r, Idle)
  /\ UNCHANGED <<challenges, enrolments, clock, accepted>>

\* resetPassword: a new password withdraws the pending setup.
ResetPassword ==
  /\ user.passwordVersion < MaxPasswordVersion
  /\ user' = [user EXCEPT !.passwordVersion = @ + 1, !.pending = NoPending]
  /\ UNCHANGED <<challenges, enrolments, clock, accepted, req>>

---------------------------------------------------------------------------
(* The clock, and requests that end early. *)

Tick ==
  /\ clock < MaxClock
  /\ clock' = clock + 1
  /\ UNCHANGED <<user, challenges, enrolments, accepted, req>>

ExpireChallenge(c) ==
  /\ ~challenges[c].consumed
  /\ challenges' = [challenges EXCEPT ![c].consumed = TRUE]
  /\ UNCHANGED <<user, enrolments, clock, accepted, req>>

ExpirePending ==
  /\ user.pending.secret # 0
  /\ user' = [user EXCEPT !.pending = NoPending]
  /\ UNCHANGED <<challenges, enrolments, clock, accepted, req>>

\* A guard fails, the database answers with an error, or the process dies.
Fail(r) ==
  /\ req[r].pc # "idle"
  /\ Becomes(r, Idle)
  /\ UNCHANGED <<user, challenges, enrolments, clock, accepted>>

Request(r) ==
  \/ Login(r) \/ StartChallenge(r)
  \/ \E c \in DOMAIN challenges : ClaimChallenge(r, c)
  \/ CompareLogin(r) \/ VerifyProof(r) \/ ConsumeChallenge(r)
  \/ LoadForEnroll(r) \/ Enroll(r) \/ ClaimConfirm(r) \/ EnableTotp(r)
  \/ LoadForDisable(r) \/ CompareForDisable(r) \/ DisableTotp(r)
  \/ Fail(r)

Next ==
  \/ \E r \in Requests : Request(r)
  \/ \E c \in DOMAIN challenges : ExpireChallenge(c)
  \/ ResetPassword \/ Tick \/ ExpirePending

Spec == Init /\ [][Next]_vars

---------------------------------------------------------------------------
(* Properties. *)

\* Every document has its type; however many requests guess at once, the
\* attempts of a challenge and of a setup stay within their limit
\* (AUTHENTICATION.md:144).
TypeOK ==
  /\ user \in User
  /\ challenges \in Seq(Challenge) /\ Len(challenges) <= MaxChallenges
  /\ enrolments \in 0 .. MaxEnrolments
  /\ clock \in 0 .. MaxClock
  /\ accepted \in [Proof -> Nat]

\* "An accepted time step cannot be reused, including the code used to confirm
\* enrollment", and every recovery code is single-use (AUTHENTICATION.md:138,
\* 145): for any two requests that present the same code.
AcceptedOnce == \A p \in Proof : accepted[p] <= 1

\* A login challenge signs in at most once, with two good codes as well
\* (auth-mfa.service.ts:158).
OneLoginPerChallenge ==
  \A c \in DOMAIN challenges : challenges[c].logins <= 1

\* "Starting new setup invalidates the previous pending setup"
\* (AUTHENTICATION.md:133), also for a confirmation that has its code compared
\* already: the factor in use is the newest one set up.
NewestSetupWins == user.totpEnabled => user.secret = enrolments

\* What a step that accepts the code of a login shows of its challenge.
ProvesForNow ==
  \A r \in Requests :
    req[r].pc = "prove" /\ req'[r].pc = "consume" =>
      SameVersions(challenges[req[r].challenge])

\* A challenge issued before the password or the factor changed uses up no
\* code of the factor of now (AUTHENTICATION.md:142).
StaleChallengeProvesNothing == [][ProvesForNow]_vars

=============================================================================
