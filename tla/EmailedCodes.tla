---------------------------- MODULE EmailedCodes ----------------------------
(***************************************************************************)
(* The six-digit codes mailed to one user, and what they are good for:     *)
(* auth/auth-email-otp.service.ts verifies the address before the first    *)
(* login, auth/auth-recovery-otp.service.ts earns a grant to set a new     *)
(* password, and resetPassword of auth/auth.service.ts uses that grant.    *)
(*                                                                         *)
(* Every findOneAndUpdate and updateOne on the user document is one atomic *)
(* step; other requests run between two awaits of a request. Challenges    *)
(* are numbered in the order they are stored, which stands for their       *)
(* random ids; a guess is right or wrong. A request for a challenge that   *)
(* is not pending finds no user and is left out, as is the answer sent.    *)
(***************************************************************************)
EXTENDS Naturals, Sequences, FiniteSets

CONSTANTS
  Requests,       \* HTTP requests in flight; each may be issued again
  MaxAttempts,    \* guesses a code allows (5 in the code)
  MaxChallenges,  \* bound: how many codes are stored
  MaxResets       \* bound: how often the password is reset

ASSUME BoundsAssumption ==
  {MaxAttempts, MaxChallenges, MaxResets} \subseteq Nat

VARIABLES
  user,  \* the user document
  log,   \* what happened to each challenge so far: no code reads it
  req    \* where each request is, and what it holds

vars == <<user, log, req>>

Kind == {"email", "recovery"}
ChallengeId == 0 .. MaxChallenges      \* 0: the field is not set
PasswordVersion == 0 .. MaxResets      \* passwordChangedAt

\* cooled: sent at least 60 seconds ago. expired: at least ten minutes.
Code == [challenge : ChallengeId, attempts : 0 .. MaxAttempts,
         passwordVersion : PasswordVersion, cooled : BOOLEAN, expired : BOOLEAN]
NoCode == [challenge |-> 0, attempts |-> 0, passwordVersion |-> 0,
           cooled |-> FALSE, expired |-> FALSE]

\* A grant is told apart by the challenge that earned it.
Grant == [challenge : ChallengeId, passwordVersion : PasswordVersion,
          expired : BOOLEAN]
NoGrant == [challenge |-> 0, passwordVersion |-> 0, expired |-> FALSE]

User == [isActive : BOOLEAN, verified : BOOLEAN,
         passwordVersion : PasswordVersion, code : [Kind -> Code], grant : Grant]

\* delivered: the mail server took the mail. compared: guesses compared with
\* the code. accepted: guesses that consumed it.
LogEntry == [kind : Kind, passwordVersion : PasswordVersion,
             delivered : BOOLEAN, compared : Nat, accepted : Nat]

Idle == [pc |-> "idle"]
Becomes(r, state) == req' = [req EXCEPT ![r] = state]

\* A registered user whose address is not verified yet.
Init ==
  /\ user = [isActive |-> TRUE, verified |-> FALSE, passwordVersion |-> 0,
             code |-> [k \in Kind |-> NoCode], grant |-> NoGrant]
  /\ log = << >>
  /\ req = [r \in Requests |-> Idle]

---------------------------------------------------------------------------
(* Issuing a code. *)

\* The filter every write after a read shares.
Unchanged(r) == user.isActive /\ user.passwordVersion = req[r].passwordVersion

CooledDown(kind) == user.code[kind].challenge = 0 \/ user.code[kind].cooled

FreshCode(r) ==
  [NoCode EXCEPT !.challenge = Len(log) + 1, !.passwordVersion = req[r].passwordVersion]

Issued(r, kind) ==
  /\ Len(log) < MaxChallenges
  /\ log' = Append(log, [kind |-> kind, passwordVersion |-> req[r].passwordVersion,
                         delivered |-> FALSE, compared |-> 0, accepted |-> 0])
  /\ Becomes(r, [pc |-> "mail", kind |-> kind, challenge |-> Len(log) + 1])

\* register and login hold the user they created or read; resend the one its
\* challenge is pending for.
LoadForIssue(r) ==
  /\ req[r].pc = "idle"
  /\ user.isActive /\ ~user.verified
  /\ \E previous \in {0, user.code["email"].challenge} :
       /\ previous # 0 => user.code["email"].passwordVersion = user.passwordVersion
       /\ Becomes(r, [pc |-> "issue", previous |-> previous,
                      passwordVersion |-> user.passwordVersion])
  /\ UNCHANGED <<user, log>>

\* Mutant: the filter forgets that the address may be verified by now.
StoreEmailCodeAnyway(r) ==
  /\ req[r].pc = "issue"
  /\ Unchanged(r)
  /\ req[r].previous \in {0, user.code["email"].challenge}
  /\ CooledDown("email")
  /\ user' = [user EXCEPT !.code["email"] = FreshCode(r)]
  /\ Issued(r, "email")

\* issue: the code replaces the one before, if that may be replaced.
StoreEmailCode(r) ==
  /\ req[r].pc = "issue"
  /\ Unchanged(r) /\ ~user.verified
  /\ req[r].previous \in {0, user.code["email"].challenge}
  /\ CooledDown("email")
  /\ user' = [user EXCEPT !.code["email"] = FreshCode(r)]
  /\ Issued(r, "email")

LoadForRecovery(r) ==
  /\ req[r].pc = "idle"
  /\ user.isActive
  /\ Becomes(r, [pc |-> "recover", passwordVersion |-> user.passwordVersion])
  /\ UNCHANGED <<user, log>>

\* Mutant: a new code leaves the grant of an earlier one.
StoreRecoveryCodeKeepsGrant(r) ==
  /\ req[r].pc = "recover"
  /\ Unchanged(r)
  /\ CooledDown("recovery")
  /\ user' = [user EXCEPT !.code["recovery"] = FreshCode(r)]
  /\ Issued(r, "recovery")

\* request: the code replaces the one before and withdraws the grant that an
\* earlier code earned.
StoreRecoveryCode(r) ==
  /\ req[r].pc = "recover"
  /\ Unchanged(r)
  /\ CooledDown("recovery")
  /\ user' = [user EXCEPT !.code["recovery"] = FreshCode(r), !.grant = NoGrant]
  /\ Issued(r, "recovery")

MailSent(r) ==
  /\ req[r].pc = "mail"
  /\ log' = [log EXCEPT ![req[r].challenge].delivered = TRUE]
  /\ Becomes(r, Idle)
  /\ UNCHANGED user

\* Mutant: a failed mail withdraws whatever code is pending.
MailFailsWithdrawsAny(r) ==
  /\ req[r].pc = "mail"
  /\ user' = [user EXCEPT !.code[req[r].kind] = NoCode]
  /\ Becomes(r, Idle)
  /\ UNCHANGED log

\* A failed mail withdraws its code, which also ends the cooldown, unless
\* another code is pending by now.
MailFails(r) ==
  /\ req[r].pc = "mail"
  /\ LET kind == req[r].kind IN
       user' = [user EXCEPT !.code[kind] =
                  IF @.challenge = req[r].challenge THEN NoCode ELSE @]
  /\ Becomes(r, Idle)
  /\ UNCHANGED log

---------------------------------------------------------------------------
(* Guessing a code. *)

\* Mutant: the limit is off by one.
ClaimableOnceMore(kind) ==
  /\ user.isActive
  /\ kind = "email" => ~user.verified
  /\ user.code[kind].challenge # 0
  /\ ~user.code[kind].expired
  /\ user.code[kind].attempts <= MaxAttempts

\* The filter of a claim.
Claimable(kind) ==
  /\ user.isActive
  /\ kind = "email" => ~user.verified
  /\ user.code[kind].challenge # 0
  /\ ~user.code[kind].expired
  /\ user.code[kind].attempts < MaxAttempts

\* verify first claims an attempt, and compares only then: never with a code
\* of an earlier password.
Guess(r, kind, right) ==
  /\ req[r].pc = "idle"
  /\ Claimable(kind)
  /\ user' = [user EXCEPT !.code[kind].attempts = @ + 1]
  /\ LET code == user.code[kind]
         compares == code.passwordVersion = user.passwordVersion
     IN  /\ log' = IF compares THEN [log EXCEPT ![code.challenge].compared = @ + 1] ELSE log
         /\ Becomes(r, IF compares /\ right
                       THEN [pc |-> kind, challenge |-> code.challenge,
                             passwordVersion |-> user.passwordVersion]
                       ELSE Idle)

\* The code the request guessed is still pending, for the same password.
StillPending(r, kind) ==
  /\ req[r].pc = kind
  /\ Unchanged(r)
  /\ user.code[kind].challenge = req[r].challenge
  /\ ~user.code[kind].expired

\* The address is verified; the login goes on in AuthSession.
ConsumeEmailCode(r) ==
  /\ StillPending(r, "email") /\ ~user.verified
  /\ user' = [user EXCEPT !.verified = TRUE, !.code["email"] = NoCode]
  /\ log' = [log EXCEPT ![req[r].challenge].accepted = @ + 1]
  /\ Becomes(r, Idle)

\* Mutant: the code stays pending when it has earned its grant.
ConsumeRecoveryCodeKept(r) ==
  /\ StillPending(r, "recovery")
  /\ user' = [user EXCEPT !.grant = [challenge |-> req[r].challenge, expired |-> FALSE,
                                     passwordVersion |-> req[r].passwordVersion]]
  /\ log' = [log EXCEPT ![req[r].challenge].accepted = @ + 1]
  /\ Becomes(r, Idle)

\* The code is exchanged for a grant to reset the password.
ConsumeRecoveryCode(r) ==
  /\ StillPending(r, "recovery")
  /\ user' = [user EXCEPT !.code["recovery"] = NoCode,
                          !.grant = [challenge |-> req[r].challenge, expired |-> FALSE,
                                     passwordVersion |-> req[r].passwordVersion]]
  /\ log' = [log EXCEPT ![req[r].challenge].accepted = @ + 1]
  /\ Becomes(r, Idle)

---------------------------------------------------------------------------
(* Using the grant. *)

\* The grant the token names.
GrantNamed(challenge) ==
  /\ user.isActive
  /\ challenge # 0 /\ user.grant.challenge = challenge

\* resetPassword reads the user, then hashes the new password.
LoadGrant(r) ==
  /\ req[r].pc = "idle"
  /\ GrantNamed(user.grant.challenge)
  /\ ~user.grant.expired
  /\ user.grant.passwordVersion = user.passwordVersion
  /\ Becomes(r, [pc |-> "reset", challenge |-> user.grant.challenge,
                 passwordVersion |-> user.passwordVersion])
  /\ UNCHANGED <<user, log>>

\* A new password withdraws the grant and every code, and verifies the address.
WithNewPassword ==
  [user EXCEPT !.passwordVersion = @ + 1, !.verified = TRUE,
               !.code = [k \in Kind |-> NoCode], !.grant = NoGrant]

\* Mutant: the second write is by id alone.
ResetPasswordById(r) ==
  /\ req[r].pc = "reset"
  /\ user.passwordVersion < MaxResets
  /\ user' = WithNewPassword
  /\ Becomes(r, Idle)
  /\ UNCHANGED log

\* The second write filters by the dates of the first read: a grant that expires
\* while the password is hashed is still accepted.
ResetPassword(r) ==
  /\ req[r].pc = "reset"
  /\ GrantNamed(req[r].challenge)
  /\ user.passwordVersion = req[r].passwordVersion
  /\ user.passwordVersion < MaxResets
  /\ user' = WithNewPassword
  /\ Becomes(r, Idle)
  /\ UNCHANGED log

---------------------------------------------------------------------------
(* The administrator, the clock, and requests that end early. *)

SetActive ==
  /\ user' = [user EXCEPT !.isActive = ~@]
  /\ UNCHANGED <<log, req>>

CoolDown(kind) ==
  /\ user.code[kind].challenge # 0 /\ ~user.code[kind].cooled
  /\ user' = [user EXCEPT !.code[kind].cooled = TRUE]
  /\ UNCHANGED <<log, req>>

ExpireCode(kind) ==
  /\ user.code[kind].cooled /\ ~user.code[kind].expired
  /\ user' = [user EXCEPT !.code[kind].expired = TRUE]
  /\ UNCHANGED <<log, req>>

ExpireGrant ==
  /\ user.grant.challenge # 0 /\ ~user.grant.expired
  /\ user' = [user EXCEPT !.grant.expired = TRUE]
  /\ UNCHANGED <<log, req>>

\* A guard fails, the database answers with an error, or the process dies.
Fail(r) ==
  /\ req[r].pc # "idle"
  /\ Becomes(r, Idle)
  /\ UNCHANGED <<user, log>>

Request(r) ==
  \/ LoadForIssue(r) \/ StoreEmailCode(r)
  \/ LoadForRecovery(r) \/ StoreRecoveryCode(r)
  \/ MailSent(r) \/ MailFails(r)
  \/ \E kind \in Kind, right \in BOOLEAN : Guess(r, kind, right)
  \/ ConsumeEmailCode(r) \/ ConsumeRecoveryCode(r)
  \/ LoadGrant(r) \/ ResetPassword(r)
  \/ Fail(r)

Next ==
  \/ \E r \in Requests : Request(r)
  \/ SetActive
  \/ \E kind \in Kind : CoolDown(kind) \/ ExpireCode(kind)
  \/ ExpireGrant

Spec == Init /\ [][Next]_vars

---------------------------------------------------------------------------
(* Properties. *)

\* Every document has its type; a request that mails a code holds the number
\* of a challenge that was stored.
TypeOK ==
  /\ user \in User
  /\ log \in Seq(LogEntry) /\ Len(log) <= MaxChallenges
  /\ \A r \in Requests : req[r].pc = "mail" => req[r].challenge \in DOMAIN log

\* However many requests guess at once, one mailed code is compared with at
\* most MaxAttempts guesses (auth-email-otp.service.ts:60).
SharedAttempts == \A c \in DOMAIN log : log[c].compared <= MaxAttempts

\* A code is accepted at most once, also when two requests present it at once
\* (auth-email-otp.service.ts:69).
AcceptedOnce == \A c \in DOMAIN log : log[c].accepted <= 1

\* Every password that was set used up a recovery code of its own: one mailed
\* code resets the password at most once.
OneResetPerCode ==
  user.passwordVersion <=
    Cardinality({c \in DOMAIN log : log[c].kind = "recovery" /\ log[c].accepted > 0})

\* No request that started before the password was reset, or the address
\* verified, brings back a code or a grant of the time before: what is pending
\* is for the password of now, and a verified address has no code to verify it.
PendingIsCurrent ==
  /\ \A k \in Kind : user.code[k].challenge # 0 =>
       user.code[k].passwordVersion = user.passwordVersion
  /\ user.grant.challenge # 0 => user.grant.passwordVersion = user.passwordVersion
  /\ user.verified => user.code["email"].challenge = 0

\* A grant comes from the last recovery code that was stored: asking for a
\* new code withdraws what an earlier one earned, and a request that consumes
\* the earlier one at the same time does not bring it back.
GrantFromLatestCode ==
  user.grant.challenge # 0 =>
    \A c \in DOMAIN log :
      c > user.grant.challenge => log[c].kind # "recovery"

Latest(kind, c) ==
  /\ c \in DOMAIN log /\ log[c].kind = kind
  /\ \A d \in DOMAIN log : log[d].kind = kind => d <= c

\* The latest code, once its mail is delivered, stays pending until it is
\* accepted or the password is reset (or, for the address, it is verified):
\* the failed mail of another request never withdraws it.
DeliveredCodeStands ==
  \A k \in Kind, c \in DOMAIN log :
    /\ Latest(k, c)
    /\ log[c].delivered
    /\ log[c].accepted = 0
    /\ log[c].passwordVersion = user.passwordVersion
    => user.code[k].challenge = c

=============================================================================
