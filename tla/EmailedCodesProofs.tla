------------------------- MODULE EmailedCodesProofs -------------------------
(***************************************************************************)
(* Proofs about EmailedCodes for any number of requests, guesses, codes    *)
(* and resets.                                                             *)
(*                                                                         *)
(* The argument: whatever a request read before its await, the filter of   *)
(* its write tests again what matters. So the code that is pending is      *)
(* always the last one stored of its kind, for the password of now, and    *)
(* not accepted yet; its attempts cover the guesses compared with it; and  *)
(* every reset and every grant in hand has used up a recovery code.        *)
(***************************************************************************)
EXTENDS EmailedCodes, FiniteSetTheorems, SequenceTheorems, TLAPS

\* What a request holds.
Issuing == [pc : {"issue"}, previous : ChallengeId, passwordVersion : PasswordVersion]
Recovering == [pc : {"recover"}, passwordVersion : PasswordVersion]
Mailing == [pc : {"mail"}, kind : Kind, challenge : 1 .. MaxChallenges]
Using == [pc : {"email", "recovery", "reset"}, challenge : 1 .. MaxChallenges,
          passwordVersion : PasswordVersion]
RequestState == {Idle} \cup Issuing \cup Recovering \cup Mailing \cup Using

Typed ==
  /\ user \in User
  /\ log \in Seq(LogEntry) /\ Len(log) <= MaxChallenges
  /\ req \in [Requests -> RequestState]

\* Who sends which mail.
MailOf(r, c) == req[r].pc = "mail" /\ req[r].challenge = c

Mails ==
  \A r \in Requests : req[r].pc = "mail" =>
    /\ req[r].challenge \in DOMAIN log
    /\ ~log[req[r].challenge].delivered
    /\ \A s \in Requests \ {r} : ~MailOf(s, req[r].challenge)

\* The pending code of a kind is its last one, and not accepted yet.
PendingCode(k) ==
  LET code == user.code[k] IN
  code.challenge # 0 =>
    /\ Latest(k, code.challenge)
    /\ code.passwordVersion = user.passwordVersion
    /\ log[code.challenge].compared <= code.attempts
    /\ log[code.challenge].accepted = 0

\* What the log says of every code that was stored.
Logged ==
  \A c \in DOMAIN log :
    /\ log[c].compared <= MaxAttempts
    /\ log[c].accepted <= 1
    /\ log[c].passwordVersion <= user.passwordVersion

\* The recovery codes that were used up.
Used == {c \in DOMAIN log : log[c].kind = "recovery" /\ log[c].accepted > 0}

GrantEarned ==
  /\ user.grant.challenge # 0 =>
       /\ user.grant.challenge \in DOMAIN log
       /\ user.grant.passwordVersion = user.passwordVersion
  /\ GrantFromLatestCode
  /\ user.passwordVersion + (IF user.grant.challenge # 0 THEN 1 ELSE 0) <= Cardinality(Used)

\* DeliveredCodeStands, with the mails that are under way.
CodeStands ==
  \A k \in Kind, c \in DOMAIN log :
    /\ Latest(k, c)
    /\ log[c].delivered \/ \E r \in Requests : MailOf(r, c)
    /\ log[c].accepted = 0
    /\ log[c].passwordVersion = user.passwordVersion
    => user.code[k].challenge = c

Inductive ==
  /\ Typed
  /\ Mails
  /\ \A k \in Kind : PendingCode(k)
  /\ user.verified => user.code["email"].challenge = 0
  /\ Logged
  /\ GrantEarned
  /\ CodeStands

---------------------------------------------------------------------------
LEMMA BoundsNat ==
  /\ MaxAttempts \in Nat /\ MaxChallenges \in Nat /\ MaxResets \in Nat
BY BoundsAssumption

LEMMA NothingType == NoCode \in Code /\ NoGrant \in Grant
BY BoundsNat DEF NoCode, NoGrant, Code, Grant, ChallengeId, PasswordVersion

LEMMA LogType ==
  ASSUME Typed
  PROVE  /\ Len(log) \in Nat
         /\ DOMAIN log = 1 .. Len(log)
         /\ \A c \in DOMAIN log : log[c] \in LogEntry
         /\ DOMAIN log \subseteq 1 .. MaxChallenges
<1>1. log \in Seq(LogEntry) /\ Len(log) <= MaxChallenges
  BY DEF Typed
<1>2. Len(log) \in Nat /\ DOMAIN log = 1 .. Len(log)
  BY <1>1, LenProperties
<1> QED BY <1>1, <1>2, ElementOfSeq, BoundsNat

\* What a request holds, by its program counter.
LEMMA RequestType ==
  ASSUME Typed, NEW r \in Requests
  PROVE  /\ req[r].pc \in {"issue", "recover", "email", "recovery", "reset"} =>
              req[r].passwordVersion \in PasswordVersion
         /\ req[r].pc \in {"mail", "email", "recovery", "reset"} =>
              req[r].challenge \in 1 .. MaxChallenges
         /\ req[r].pc = "mail" => req[r].kind \in Kind
BY DEF Typed, RequestState, Issuing, Recovering, Mailing, Using, Idle

LEMMA UsedFinite ==
  ASSUME Typed
  PROVE  IsFiniteSet(Used) /\ Cardinality(Used) \in Nat
<1>1. IsFiniteSet(1 .. Len(log)) /\ Used \subseteq 1 .. Len(log)
  BY LogType, FS_Interval DEF Used
<1>2. IsFiniteSet(Used)
  BY <1>1, FS_Subset
<1> QED BY <1>2, FS_CardinalityType

LEMMA InitInductive == Init => Inductive
<1> SUFFICES ASSUME Init PROVE Inductive
  OBVIOUS
<1>1. 0 \in PasswordVersion
  BY BoundsNat DEF PasswordVersion
<1>2. user \in User
  BY <1>1, NothingType DEF Init, User
<1>3. log \in Seq(LogEntry) /\ Len(log) = 0 /\ DOMAIN log = {}
  BY EmptySeq DEF Init
<1>4. Typed
  BY <1>2, <1>3, BoundsNat DEF Init, Typed, RequestState
<1>5. Mails
  BY DEF Init, Mails, Idle
<1>6. \A k \in Kind : user.code[k].challenge = 0
  BY DEF Init, NoCode
<1>7. user.grant.challenge = 0 /\ user.passwordVersion = 0
  BY DEF Init, NoGrant
<1>8. Used = {}
  BY <1>3 DEF Used
<1>9. GrantEarned
  BY <1>7, <1>8, FS_EmptySet DEF GrantEarned, GrantFromLatestCode
<1> QED BY <1>3, <1>4, <1>5, <1>6, <1>9 DEF Inductive, PendingCode, Logged, CodeStands, Kind

---------------------------------------------------------------------------
\* A step of a request that only reads, or ends.
LEMMA ReadInductive ==
  ASSUME Inductive, NEW r \in Requests, NEW state \in RequestState, state.pc # "mail",
         req' = [req EXCEPT ![r] = state], UNCHANGED <<user, log>>
  PROVE  Inductive'
<1>1. \A s \in Requests : req'[s].pc = "mail" => s # r /\ req'[s] = req[s]
  BY DEF Inductive, Typed
<1>2. Typed'
  BY DEF Inductive, Typed
<1>3. Mails'
  BY <1>1 DEF Inductive, Mails, MailOf
<1>4. \A s \in Requests, c \in DOMAIN log : MailOf(s, c)' => MailOf(s, c)
  BY <1>1 DEF MailOf
<1>5. CodeStands'
  BY <1>4 DEF Inductive, CodeStands, Latest
<1>6. Used' = Used
  BY DEF Used
<1> QED BY <1>2, <1>3, <1>5, <1>6
        DEF Inductive, PendingCode, Latest, Logged, GrantEarned, GrantFromLatestCode

\* A step of the clock or of the administrator: what a code and a grant are for
\* stays.
LEMMA ClockInductive ==
  ASSUME Inductive, user' \in User, UNCHANGED <<log, req>>,
         user'.verified = user.verified, user'.passwordVersion = user.passwordVersion,
         \A k \in Kind : /\ user'.code[k].challenge = user.code[k].challenge
                         /\ user'.code[k].passwordVersion = user.code[k].passwordVersion
                         /\ user'.code[k].attempts = user.code[k].attempts,
         user'.grant.challenge = user.grant.challenge,
         user'.grant.passwordVersion = user.grant.passwordVersion
  PROVE  Inductive'
<1>1. Typed'
  BY DEF Inductive, Typed
<1>2. Mails'
  BY DEF Inductive, Mails, MailOf
<1>3. \A k \in Kind : PendingCode(k)'
  BY DEF Inductive, PendingCode, Latest
<1>4. user'.verified => user'.code["email"].challenge = 0
  BY DEF Inductive, Kind
<1>5. Logged'
  BY DEF Inductive, Logged
<1>6. GrantEarned'
  <2>1. Used' = Used
    BY DEF Used
  <2> QED BY <2>1 DEF Inductive, GrantEarned, GrantFromLatestCode
<1>7. CodeStands'
  BY DEF Inductive, CodeStands, Latest, MailOf
<1> QED BY <1>1, <1>2, <1>3, <1>4, <1>5, <1>6, <1>7 DEF Inductive

LEMMA SetActiveInductive ==
  ASSUME Inductive, SetActive \/ ExpireGrant \/ \E k \in Kind : CoolDown(k) \/ ExpireCode(k)
  PROVE  Inductive'
<1> USE DEF Inductive, Typed
<1>1. CASE SetActive
  <2>1. user' = [user EXCEPT !.isActive = ~user.isActive] /\ UNCHANGED <<log, req>>
    BY <1>1 DEF SetActive
  <2>2. (~user.isActive) \in BOOLEAN
    OBVIOUS
  <2>3. user' \in User
    BY <2>1, <2>2 DEF User
  <2> QED BY <2>1, <2>3, ClockInductive DEF User
<1>2. CASE ExpireGrant
  <2>1. user' = [user EXCEPT !.grant.expired = TRUE] /\ UNCHANGED <<log, req>>
    BY <1>2 DEF ExpireGrant
  <2>2. user' \in User
    BY <2>1 DEF User, Grant
  <2>3. /\ user'.grant.challenge = user.grant.challenge
        /\ user'.grant.passwordVersion = user.grant.passwordVersion
    BY <2>1 DEF User, Grant
  <2> QED BY <2>1, <2>2, <2>3, ClockInductive DEF User
<1>3. ASSUME NEW k \in Kind, CoolDown(k) \/ ExpireCode(k) PROVE Inductive'
  <2>1. /\ user' = [user EXCEPT !.code[k].cooled = TRUE] \/ user' = [user EXCEPT !.code[k].expired = TRUE]
        /\ UNCHANGED <<log, req>>
    BY <1>3 DEF CoolDown, ExpireCode
  <2>2. PICK code \in Code : /\ user' = [user EXCEPT !.code[k] = code]
                            /\ code.challenge = user.code[k].challenge
                            /\ code.passwordVersion = user.code[k].passwordVersion
                            /\ code.attempts = user.code[k].attempts
    <3>1. user.code[k] \in Code
      BY DEF User
    <3>2. \/ user' = [user EXCEPT !.code[k] = [user.code[k] EXCEPT !.cooled = TRUE]]
          \/ user' = [user EXCEPT !.code[k] = [user.code[k] EXCEPT !.expired = TRUE]]
      BY <2>1 DEF User
    <3>3. ASSUME NEW code \in {[user.code[k] EXCEPT !.cooled = TRUE],
                               [user.code[k] EXCEPT !.expired = TRUE]}
          PROVE  /\ code \in Code
                 /\ code.challenge = user.code[k].challenge
                 /\ code.passwordVersion = user.code[k].passwordVersion
                 /\ code.attempts = user.code[k].attempts
      BY <3>1 DEF Code
    <3> QED BY <3>2, <3>3
  <2>3. user' \in User
    BY <2>2 DEF User
  <2>4. \A j \in Kind : /\ user'.code[j].challenge = user.code[j].challenge
                        /\ user'.code[j].passwordVersion = user.code[j].passwordVersion
                        /\ user'.code[j].attempts = user.code[j].attempts
    BY <2>2 DEF User
  <2>5. user' = [user EXCEPT !.code = user'.code]
    BY <2>2 DEF User
  <2> QED BY <2>1, <2>3, <2>4, <2>5, ClockInductive DEF User
<1> QED BY <1>1, <1>2, <1>3

---------------------------------------------------------------------------
\* An entry of the log changed.
LEMMA LogChanged ==
  ASSUME Typed, NEW c \in DOMAIN log, NEW entry \in LogEntry, log' = [log EXCEPT ![c] = entry]
  PROVE  /\ log' \in Seq(LogEntry) /\ Len(log') = Len(log)
         /\ DOMAIN log' = DOMAIN log
         /\ log'[c] = entry
         /\ \A d \in DOMAIN log : d # c => log'[d] = log[d]
BY LogType, ExceptSeq DEF Typed

\* If its kind stays, a code is the last of a kind as before.
LEMMA LatestKept ==
  ASSUME DOMAIN log' = DOMAIN log, \A d \in DOMAIN log : log'[d].kind = log[d].kind
  PROVE  \A k \in Kind, c \in DOMAIN log : Latest(k, c)' <=> Latest(k, c)
BY DEF Latest

\* The mail of a code is delivered.
LEMMA MailSentInductive ==
  ASSUME Inductive, NEW r \in Requests, MailSent(r)
  PROVE  Inductive'
<1> DEFINE c == req[r].challenge
           entry == [log[c] EXCEPT !.delivered = TRUE]
<1>1. /\ MailOf(r, c) /\ c \in DOMAIN log /\ log' = [log EXCEPT ![c].delivered = TRUE]
      /\ req' = [req EXCEPT ![r] = Idle] /\ UNCHANGED user
  BY DEF MailSent, Becomes, Inductive, Mails, MailOf
<1>2. log[c] \in LogEntry
  BY <1>1, LogType DEF Inductive
<1>3. entry \in LogEntry /\ entry.kind = log[c].kind /\ entry.compared = log[c].compared
      /\ entry.accepted = log[c].accepted /\ entry.passwordVersion = log[c].passwordVersion
  BY <1>2 DEF LogEntry
<1>4. /\ log' \in Seq(LogEntry) /\ Len(log') = Len(log) /\ DOMAIN log' = DOMAIN log
      /\ log'[c] = entry
      /\ \A d \in DOMAIN log : d # c => log'[d] = log[d]
  BY <1>1, <1>3, LogChanged DEF Inductive
<1>5. \A d \in DOMAIN log :
        /\ log'[d].kind = log[d].kind /\ log'[d].compared = log[d].compared
        /\ log'[d].accepted = log[d].accepted
        /\ log'[d].passwordVersion = log[d].passwordVersion
        /\ log'[d].delivered => log[d].delivered \/ d = c
  BY <1>3, <1>4
<1> HIDE DEF c, entry
<1>6. \A k \in Kind, d \in DOMAIN log : Latest(k, d)' <=> Latest(k, d)
  BY <1>4, <1>5, LatestKept
<1>7. \A s \in Requests : req'[s].pc = "mail" => s # r /\ req'[s] = req[s]
  BY <1>1 DEF Inductive, Typed, Idle
<1>8. Typed'
  BY <1>1, <1>4 DEF Inductive, Typed, RequestState
<1>9. Mails'
  BY <1>1, <1>4, <1>7 DEF Inductive, Mails, MailOf
<1>10. \A k \in Kind : PendingCode(k)'
  <2>1. \A k \in Kind : user.code[k].challenge # 0 => user.code[k].challenge \in DOMAIN log
    BY DEF Inductive, PendingCode, Latest
  <2> QED BY <1>1, <1>5, <1>6, <2>1 DEF Inductive, PendingCode
<1>11. Logged'
  BY <1>1, <1>4, <1>5 DEF Inductive, Logged
<1>12. GrantEarned'
  <2>1. Used' = Used
    BY <1>4, <1>5 DEF Used
  <2> QED BY <1>1, <1>4, <1>5, <2>1 DEF Inductive, GrantEarned, GrantFromLatestCode
<1>13. CodeStands'
  <2> SUFFICES ASSUME NEW k \in Kind, NEW d \in DOMAIN log', Latest(k, d)',
                      log'[d].delivered \/ \E s \in Requests : MailOf(s, d)',
                      log'[d].accepted = 0, log'[d].passwordVersion = user'.passwordVersion
               PROVE  user'.code[k].challenge = d
    BY DEF CodeStands
  <2>1. log[d].delivered \/ \E s \in Requests : MailOf(s, d)
    BY <1>1, <1>4, <1>5, <1>7 DEF MailOf
  <2> QED BY <1>1, <1>4, <1>5, <1>6, <2>1 DEF Inductive, CodeStands
<1> QED BY <1>1, <1>8, <1>9, <1>10, <1>11, <1>12, <1>13 DEF Inductive

\* The mail of a code fails: the code is withdrawn, if it is the one pending.
LEMMA MailFailsInductive ==
  ASSUME Inductive, NEW r \in Requests, MailFails(r)
  PROVE  Inductive'
<1> DEFINE c == req[r].challenge
           kind == req[r].kind
<1>1. /\ MailOf(r, c) /\ kind \in Kind
      /\ user' = [user EXCEPT !.code[kind] = IF @.challenge = c THEN NoCode ELSE @]
      /\ req' = [req EXCEPT ![r] = Idle] /\ UNCHANGED log
  BY RequestType DEF MailFails, Becomes, Inductive, MailOf
<1>2. ~log[c].delivered /\ \A s \in Requests \ {r} : ~MailOf(s, c)
  BY <1>1 DEF Inductive, Mails, MailOf
<1> HIDE DEF c, kind
<1>3. /\ user' \in User
      /\ user'.verified = user.verified /\ user'.passwordVersion = user.passwordVersion
      /\ user'.grant = user.grant
      /\ \A k \in Kind :
           \/ user'.code[k] = user.code[k]
           \/ user'.code[k] = NoCode /\ user.code[k].challenge = c
  BY <1>1, NothingType DEF Inductive, Typed, User
<1>4. \A s \in Requests : req'[s].pc = "mail" => s # r /\ req'[s] = req[s]
  BY <1>1 DEF Inductive, Typed, Idle
<1>5. Typed'
  BY <1>1, <1>3 DEF Inductive, Typed, RequestState
<1>6. Mails'
  BY <1>1, <1>4 DEF Inductive, Mails, MailOf
<1>7. \A k \in Kind : PendingCode(k)'
  BY <1>1, <1>3 DEF Inductive, PendingCode, Latest, NoCode
<1>8. user'.verified => user'.code["email"].challenge = 0
  BY <1>3 DEF Inductive, Kind, NoCode
<1>9. Logged' /\ Used' = Used
  BY <1>1, <1>3 DEF Inductive, Logged, Used
<1>10. GrantEarned'
  BY <1>1, <1>3, <1>9 DEF Inductive, GrantEarned, GrantFromLatestCode
<1>11. CodeStands'
  <2> SUFFICES ASSUME NEW k \in Kind, NEW d \in DOMAIN log, Latest(k, d),
                      log[d].delivered \/ \E s \in Requests : MailOf(s, d)',
                      log[d].accepted = 0, log[d].passwordVersion = user.passwordVersion
               PROVE  user'.code[k].challenge = d
    BY <1>1, <1>3 DEF CodeStands, Latest
  <2>1. log[d].delivered \/ \E s \in Requests \ {r} : MailOf(s, d)
    BY <1>4 DEF MailOf
  <2>2. user.code[k].challenge = d
    BY <2>1 DEF Inductive, CodeStands
  <2>3. d # c
    BY <1>2, <2>1
  <2> QED BY <1>3, <2>2, <2>3
<1> QED BY <1>5, <1>6, <1>7, <1>8, <1>9, <1>10, <1>11 DEF Inductive

---------------------------------------------------------------------------
\* A code is stored: it is the last one of its kind, and its request mails it.
LEMMA IssueInductive ==
  ASSUME Inductive, NEW r \in Requests, NEW kind \in Kind,
         req[r].passwordVersion = user.passwordVersion,
         Issued(r, kind),
         user' \in User, user'.verified = user.verified,
         user'.passwordVersion = user.passwordVersion,
         user'.code[kind] = FreshCode(r),
         \A k \in Kind \ {kind} : user'.code[k] = user.code[k],
         kind = "email" => ~user.verified /\ user'.grant = user.grant,
         kind = "recovery" => user'.grant = NoGrant
  PROVE  Inductive'
<1>1. log \in Seq(LogEntry) /\ Len(log) \in Nat /\ DOMAIN log = 1 .. Len(log)
  BY LogType DEF Inductive, Typed
<1>2. PICK c \in 1 .. MaxChallenges : c = Len(log) + 1
  BY <1>1, BoundsNat DEF Issued
<1>3. PICK entry \in LogEntry :
        entry = [kind |-> kind, passwordVersion |-> user.passwordVersion,
                 delivered |-> FALSE, compared |-> 0, accepted |-> 0]
  BY DEF Inductive, Typed, User, LogEntry
<1>4. /\ log' = Append(log, entry)
      /\ req' = [req EXCEPT ![r] = [pc |-> "mail", kind |-> kind, challenge |-> c]]
  BY <1>2, <1>3 DEF Issued, Becomes
<1>5. /\ log' \in Seq(LogEntry) /\ Len(log') = c
      /\ log'[c] = entry /\ \A d \in DOMAIN log : log'[d] = log[d]
      /\ DOMAIN log' = DOMAIN log \cup {c} /\ c \notin DOMAIN log
  <2>1. /\ log' \in Seq(LogEntry) /\ Len(log') = c
        /\ log'[c] = entry /\ \A d \in DOMAIN log : log'[d] = log[d]
    BY <1>1, <1>2, <1>4, AppendProperties
  <2>2. DOMAIN log' = 1 .. c
    BY <2>1, LenProperties
  <2> QED BY <1>1, <1>2, <2>1, <2>2
<1>6. \A d \in DOMAIN log : d < c
  BY <1>1, <1>2
<1>7. c \in Nat \ {0}
  BY <1>1, <1>2
<1>8. /\ entry.kind = kind /\ entry.passwordVersion = user.passwordVersion
      /\ ~entry.delivered /\ entry.compared = 0 /\ entry.accepted = 0
  BY <1>3
<1>9. /\ user'.code[kind].challenge = c /\ user'.code[kind].attempts = 0
      /\ user'.code[kind].passwordVersion = user.passwordVersion
  BY <1>2 DEF FreshCode, NoCode
<1>10. /\ \A s \in Requests \ {r} : req'[s] = req[s]
       /\ req'[r].pc = "mail" /\ req'[r].challenge = c
  BY <1>4 DEF Inductive, Typed
<1>11. Latest(kind, c)'
  BY <1>1, <1>5, <1>6, <1>7, <1>8 DEF Latest
<1>12. \A k \in Kind \ {kind}, d \in DOMAIN log : Latest(k, d)' <=> Latest(k, d)
  BY <1>5, <1>8 DEF Latest
<1>13. \A d \in DOMAIN log : ~Latest(kind, d)'
  BY <1>1, <1>5, <1>6, <1>7, <1>8 DEF Latest
<1>14. Typed'
  <2>1. [pc |-> "mail", kind |-> kind, challenge |-> c] \in RequestState
    BY DEF RequestState, Mailing
  <2> QED BY <1>4, <1>5, <2>1 DEF Inductive, Typed
<1>15. Mails'
  BY <1>5, <1>8, <1>10 DEF Inductive, Mails, MailOf
<1>16. \A k \in Kind : PendingCode(k)'
  <2>1. PendingCode(kind)'
    BY <1>5, <1>8, <1>9, <1>11 DEF PendingCode
  <2>2. ASSUME NEW k \in Kind \ {kind} PROVE PendingCode(k)'
    <3>1. PendingCode(k) /\ user'.code[k] = user.code[k]
      BY DEF Inductive
    <3>2. user.code[k].challenge # 0 => user.code[k].challenge \in DOMAIN log
      BY <3>1 DEF PendingCode, Latest
    <3> QED BY <1>5, <1>12, <3>1, <3>2 DEF PendingCode
  <2> QED BY <2>1, <2>2
<1>17. user'.verified => user'.code["email"].challenge = 0
  BY DEF Inductive, Kind
<1>18. Logged'
  <2>1. user.passwordVersion \in Nat
    BY DEF Inductive, Typed, User, PasswordVersion
  <2> QED BY <1>5, <1>8, <2>1, BoundsNat DEF Inductive, Logged
<1>19. GrantEarned'
  <2>1. Used' = Used
    BY <1>5, <1>8 DEF Used
  <2>2. CASE kind = "email"
    BY <1>5, <1>8, <2>1, <2>2 DEF Inductive, GrantEarned, GrantFromLatestCode
  <2>3. CASE kind = "recovery"
    <3>1. user'.grant.challenge = 0
      BY <2>3 DEF NoGrant
    <3>2. user.passwordVersion + 0 <= Cardinality(Used)
      <4>1. user.passwordVersion \in Nat
        BY DEF Inductive, Typed, User, PasswordVersion
      <4>2. Cardinality(Used) \in Nat
        BY UsedFinite DEF Inductive
      <4> QED BY <4>1, <4>2 DEF Inductive, GrantEarned
    <3> QED BY <2>1, <3>1, <3>2 DEF GrantEarned, GrantFromLatestCode
  <2> QED BY <2>2, <2>3 DEF Kind
<1>20. CodeStands'
  <2> SUFFICES ASSUME NEW k \in Kind, NEW d \in DOMAIN log', Latest(k, d)',
                      log'[d].delivered \/ \E s \in Requests : MailOf(s, d)',
                      log'[d].accepted = 0, log'[d].passwordVersion = user'.passwordVersion
               PROVE  user'.code[k].challenge = d
    BY DEF CodeStands
  <2>1. CASE k = kind
    BY <1>5, <1>9, <1>13, <2>1
  <2>2. CASE k # kind
    <3>1. d \in DOMAIN log
      BY <1>5, <1>8, <2>2 DEF Latest
    <3>2. Latest(k, d)
      BY <1>12, <2>2, <3>1
    <3>3. log[d].delivered \/ \E s \in Requests : MailOf(s, d)
      BY <1>5, <1>10, <3>1 DEF MailOf
    <3> QED BY <1>5, <2>2, <3>1, <3>2, <3>3 DEF Inductive, CodeStands
  <2> QED BY <2>1, <2>2
<1> QED BY <1>14, <1>15, <1>16, <1>17, <1>18, <1>19, <1>20 DEF Inductive

LEMMA StoreInductive ==
  ASSUME Inductive, NEW r \in Requests, StoreEmailCode(r) \/ StoreRecoveryCode(r)
  PROVE  Inductive'
<1>1. Len(log) + 1 \in ChallengeId
  BY LogType, BoundsNat DEF StoreEmailCode, StoreRecoveryCode, Issued, ChallengeId, Inductive
<1>2. req[r].passwordVersion \in PasswordVersion
  BY RequestType DEF StoreEmailCode, StoreRecoveryCode, Inductive
<1>3. FreshCode(r) \in Code
  BY <1>1, <1>2, NothingType DEF FreshCode, Code
<1>4. user \in User
  BY DEF Inductive, Typed
<1>5. CASE StoreEmailCode(r)
  <2>1. user' = [user EXCEPT !.code["email"] = FreshCode(r)] /\ Issued(r, "email")
        /\ req[r].passwordVersion = user.passwordVersion /\ ~user.verified
    BY <1>5 DEF StoreEmailCode, Unchanged
  <2>2. /\ user' \in User /\ user'.verified = user.verified
        /\ user'.passwordVersion = user.passwordVersion /\ user'.grant = user.grant
        /\ user'.code["email"] = FreshCode(r)
        /\ \A k \in Kind \ {"email"} : user'.code[k] = user.code[k]
    BY <1>3, <1>4, <2>1 DEF User, Kind
  <2> QED BY <2>1, <2>2, IssueInductive DEF Kind
<1>6. CASE StoreRecoveryCode(r)
  <2>1. /\ user' = [user EXCEPT !.code["recovery"] = FreshCode(r), !.grant = NoGrant]
        /\ Issued(r, "recovery") /\ req[r].passwordVersion = user.passwordVersion
    BY <1>6 DEF StoreRecoveryCode, Unchanged
  <2>2. /\ user' \in User /\ user'.verified = user.verified
        /\ user'.passwordVersion = user.passwordVersion /\ user'.grant = NoGrant
        /\ user'.code["recovery"] = FreshCode(r)
        /\ \A k \in Kind \ {"recovery"} : user'.code[k] = user.code[k]
    BY <1>3, <1>4, <2>1, NothingType DEF User, Kind
  <2> QED BY <2>1, <2>2, IssueInductive DEF Kind
<1> QED BY <1>5, <1>6

---------------------------------------------------------------------------
\* An attempt is claimed, and compared with the code or not.
LEMMA GuessInductive ==
  ASSUME Inductive, NEW r \in Requests, NEW kind \in Kind, NEW right \in BOOLEAN,
         Guess(r, kind, right)
  PROVE  Inductive'
<1>1. user \in User /\ user.code[kind] \in Code /\ user.code[kind].attempts \in Nat
  BY BoundsNat DEF Inductive, Typed, User, Code
<1>2. PICK c \in DOMAIN log : c = user.code[kind].challenge /\ c # 0
  BY DEF Guess, Claimable, Inductive, PendingCode, Latest
<1>3. PICK n \in Nat : n = user.code[kind].attempts
  BY <1>1
<1>4. n + 1 \in 0 .. MaxAttempts
  BY <1>3, BoundsNat DEF Guess, Claimable
<1>5. user' = [user EXCEPT !.code[kind].attempts = n + 1]
  BY <1>3 DEF Guess
<1>6. /\ user' \in User
      /\ user'.verified = user.verified /\ user'.passwordVersion = user.passwordVersion
      /\ user'.grant = user.grant
      /\ \A k \in Kind \ {kind} : user'.code[k] = user.code[k]
      /\ user'.code[kind].challenge = c /\ user'.code[kind].attempts = n + 1
      /\ user'.code[kind].passwordVersion = user.code[kind].passwordVersion
  <2>1. [user.code[kind] EXCEPT !.attempts = n + 1] \in Code
    BY <1>1, <1>4 DEF Code
  <2>2. user' = [user EXCEPT !.code[kind] = [user.code[kind] EXCEPT !.attempts = n + 1]]
    BY <1>1, <1>5 DEF User
  <2>3. user' \in User
    BY <1>1, <2>1, <2>2 DEF User
  <2> QED BY <1>1, <1>2, <2>2, <2>3 DEF User, Code
<1>7. log[c] \in LogEntry /\ log[c].compared <= n /\ log[c].compared \in Nat
  <2>1. log[c] \in LogEntry
    BY LogType DEF Inductive
  <2>2. log[c].compared <= n
    BY <1>2, <1>3 DEF Inductive, PendingCode
  <2> QED BY <2>1, <2>2 DEF LogEntry
<1>8. PICK m \in {log[c].compared, log[c].compared + 1} :
        log' = [log EXCEPT ![c].compared = m]
  <2>1. log' = [log EXCEPT ![c].compared = log[c].compared + 1] \/ log' = log
    BY <1>2 DEF Guess
  <2>2. log = [log EXCEPT ![c].compared = log[c].compared]
    BY <1>7 DEF LogEntry, Inductive, Typed
  <2> QED BY <2>1, <2>2
<1>9. m \in Nat /\ m <= n + 1 /\ m <= MaxAttempts
  BY <1>3, <1>4, <1>7, <1>8, BoundsNat
<1>10. PICK entry \in LogEntry : entry = [log[c] EXCEPT !.compared = m]
  BY <1>7, <1>9 DEF LogEntry
<1>11. /\ log' \in Seq(LogEntry) /\ Len(log') = Len(log) /\ DOMAIN log' = DOMAIN log
       /\ log'[c] = entry
       /\ \A d \in DOMAIN log : d # c => log'[d] = log[d]
  <2>1. log' = [log EXCEPT ![c] = entry]
    BY <1>8, <1>10
  <2> QED BY <2>1, LogChanged DEF Inductive
<1>12. entry.compared = m /\ entry.kind = log[c].kind /\ entry.accepted = log[c].accepted
       /\ entry.delivered = log[c].delivered
       /\ entry.passwordVersion = log[c].passwordVersion
  BY <1>7, <1>10 DEF LogEntry
<1>13. \A d \in DOMAIN log :
         /\ log'[d].kind = log[d].kind /\ log'[d].accepted = log[d].accepted
         /\ log'[d].delivered = log[d].delivered
         /\ log'[d].passwordVersion = log[d].passwordVersion
         /\ d # c => log'[d].compared = log[d].compared
  BY <1>11, <1>12
<1>14. \A k \in Kind, d \in DOMAIN log : Latest(k, d)' <=> Latest(k, d)
  BY <1>11, <1>13, LatestKept
<1>15. PICK state \in RequestState : state.pc # "mail" /\ req' = [req EXCEPT ![r] = state]
  <2>1. [pc |-> kind, challenge |-> c, passwordVersion |-> user.passwordVersion] \in Using
    BY <1>1, LogType DEF Using, User, Kind, Inductive
  <2>2. \/ req' = [req EXCEPT ![r] = [pc |-> kind, challenge |-> c,
                                     passwordVersion |-> user.passwordVersion]]
        \/ req' = [req EXCEPT ![r] = Idle]
    BY <1>2 DEF Guess, Becomes
  <2> QED BY <2>1, <2>2 DEF RequestState, Kind, Idle
<1>16. \A s \in Requests : req'[s].pc = "mail" => s # r /\ req'[s] = req[s]
  BY <1>15 DEF Inductive, Typed
<1>17. Typed'
  BY <1>6, <1>11, <1>15 DEF Inductive, Typed
<1>18. Mails'
  BY <1>11, <1>13, <1>16 DEF Inductive, Mails, MailOf
<1>19. \A k \in Kind : PendingCode(k)'
  <2>1. PendingCode(kind)'
    <3>1. log'[c].compared <= n + 1
      BY <1>9, <1>11, <1>12
    <3> QED BY <1>2, <1>6, <1>13, <1>14, <3>1 DEF Inductive, PendingCode
  <2>2. ASSUME NEW k \in Kind \ {kind} PROVE PendingCode(k)'
    <3>1. user.code[k].challenge # 0 => user.code[k].challenge \in DOMAIN log \ {c}
      BY <1>2 DEF Inductive, PendingCode, Latest
    <3> QED BY <1>6, <1>13, <1>14, <3>1 DEF Inductive, PendingCode
  <2> QED BY <2>1, <2>2
<1>20. user'.verified => user'.code["email"].challenge = 0
  BY <1>2, <1>6 DEF Inductive, Kind
<1>21. Logged'
  BY <1>6, <1>9, <1>11, <1>12, <1>13 DEF Inductive, Logged
<1>22. GrantEarned'
  <2>1. Used' = Used
    BY <1>11, <1>13 DEF Used
  <2> QED BY <1>6, <1>11, <1>13, <2>1 DEF Inductive, GrantEarned, GrantFromLatestCode
<1>23. CodeStands'
  <2> SUFFICES ASSUME NEW k \in Kind, NEW d \in DOMAIN log', Latest(k, d)',
                      log'[d].delivered \/ \E s \in Requests : MailOf(s, d)',
                      log'[d].accepted = 0, log'[d].passwordVersion = user'.passwordVersion
               PROVE  user'.code[k].challenge = d
    BY DEF CodeStands
  <2>1. log[d].delivered \/ \E s \in Requests : MailOf(s, d)
    BY <1>11, <1>13, <1>16 DEF MailOf
  <2>2. user.code[k].challenge = d
    BY <1>6, <1>11, <1>13, <1>14, <2>1 DEF Inductive, CodeStands
  <2> QED BY <1>2, <1>6, <2>2
<1> QED BY <1>17, <1>18, <1>19, <1>20, <1>21, <1>22, <1>23 DEF Inductive

\* A code is accepted: it verifies the address, or earns a grant.
LEMMA ConsumeInductive ==
  ASSUME Inductive, NEW r \in Requests, ConsumeEmailCode(r) \/ ConsumeRecoveryCode(r)
  PROVE  Inductive'
<1>1. PICK kind \in Kind :
        \/ kind = "email" /\ ConsumeEmailCode(r)
        \/ kind = "recovery" /\ ConsumeRecoveryCode(r)
  BY DEF Kind
<1>2. StillPending(r, kind)
  BY <1>1 DEF ConsumeEmailCode, ConsumeRecoveryCode
<1>3. user \in User /\ req[r].passwordVersion = user.passwordVersion
  BY <1>2 DEF Inductive, Typed, StillPending, Unchanged
<1>4. PICK c \in 1 .. MaxChallenges : c = req[r].challenge
  BY <1>2, RequestType DEF StillPending, Kind, Inductive
<1>5. c \in DOMAIN log /\ Latest(kind, c) /\ log[c].accepted = 0 /\ log[c].kind = kind
  <2>1. user.code[kind].challenge = c /\ c # 0
    BY <1>2, <1>4 DEF StillPending
  <2>2. PendingCode(kind)
    BY DEF Inductive
  <2> QED BY <2>1, <2>2 DEF PendingCode, Latest
<1>6. log[c] \in LogEntry
  BY <1>5, LogType DEF Inductive
<1>7. PICK entry \in LogEntry : entry = [log[c] EXCEPT !.accepted = 1]
  BY <1>6 DEF LogEntry
<1>8. log' = [log EXCEPT ![c] = entry] /\ req' = [req EXCEPT ![r] = Idle]
  <2>1. log' = [log EXCEPT ![c].accepted = log[c].accepted + 1]
        /\ req' = [req EXCEPT ![r] = Idle]
    BY <1>1, <1>4 DEF ConsumeEmailCode, ConsumeRecoveryCode, Becomes
  <2> QED BY <1>5, <1>7, <2>1
<1>9. /\ log' \in Seq(LogEntry) /\ Len(log') = Len(log) /\ DOMAIN log' = DOMAIN log
      /\ log'[c] = entry
      /\ \A d \in DOMAIN log : d # c => log'[d] = log[d]
  BY <1>5, <1>8, LogChanged DEF Inductive
<1>10. entry.accepted = 1 /\ entry.kind = log[c].kind /\ entry.compared = log[c].compared
       /\ entry.delivered = log[c].delivered
       /\ entry.passwordVersion = log[c].passwordVersion
  BY <1>6, <1>7 DEF LogEntry
<1>11. \A d \in DOMAIN log :
         /\ log'[d].kind = log[d].kind /\ log'[d].compared = log[d].compared
         /\ log'[d].delivered = log[d].delivered
         /\ log'[d].passwordVersion = log[d].passwordVersion
         /\ d # c => log'[d].accepted = log[d].accepted
  BY <1>9, <1>10
<1>12. \A k \in Kind, d \in DOMAIN log : Latest(k, d)' <=> Latest(k, d)
  BY <1>9, <1>11, LatestKept
<1>13. user.passwordVersion \in PasswordVersion /\ user.passwordVersion \in Nat
  BY <1>3 DEF User, PasswordVersion
<1>14. /\ user'.passwordVersion = user.passwordVersion
       /\ user'.code[kind] = NoCode
       /\ \A k \in Kind \ {kind} : user'.code[k] = user.code[k]
  <2>1. CASE kind = "email"
    BY <1>1, <1>3, <2>1 DEF ConsumeEmailCode, User, Kind
  <2>2. CASE kind = "recovery"
    BY <1>1, <1>3, <2>2 DEF ConsumeRecoveryCode, User, Kind
  <2> QED BY <2>1, <2>2 DEF Kind
<1>15. ASSUME kind = "email"
       PROVE  /\ user' \in User /\ GrantEarned'
              /\ user'.verified => user'.code["email"].challenge = 0
  <2>1. user' = [user EXCEPT !.verified = TRUE, !.code["email"] = NoCode]
    BY <1>1, <1>15 DEF ConsumeEmailCode
  <2>2. user' \in User /\ user'.grant = user.grant
    BY <1>3, <2>1, NothingType DEF User, Kind
  <2>3. Used' = Used
    BY <1>5, <1>9, <1>11, <1>15 DEF Used
  <2>4. GrantEarned'
    BY <1>9, <1>11, <1>14, <2>2, <2>3 DEF Inductive, GrantEarned, GrantFromLatestCode
  <2>5. user'.code["email"].challenge = 0
    BY <1>14, <1>15 DEF NoCode
  <2> QED BY <2>2, <2>4, <2>5
<1>16. ASSUME kind = "recovery"
       PROVE  /\ user' \in User /\ GrantEarned'
              /\ user'.verified => user'.code["email"].challenge = 0
  <2>1. PICK grant \in Grant : /\ grant.challenge = c
                              /\ grant.passwordVersion = user.passwordVersion
                              /\ user' = [user EXCEPT !.code["recovery"] = NoCode,
                                                    !.grant = grant]
    <3>1. [challenge |-> c, expired |-> FALSE, passwordVersion |-> user.passwordVersion] \in Grant
      BY <1>13, BoundsNat DEF Grant, ChallengeId
    <3> QED BY <1>1, <1>3, <1>4, <1>16, <3>1 DEF ConsumeRecoveryCode
  <2>2. user' \in User /\ user'.grant = grant /\ user'.verified = user.verified
        /\ user'.code["email"] = user.code["email"]
    BY <1>3, <2>1, NothingType DEF User, Kind
  <2>3. Cardinality(Used') = Cardinality(Used) + 1
    <3>1. Used' = Used \cup {c} /\ c \notin Used
      BY <1>5, <1>9, <1>10, <1>11, <1>16 DEF Used
    <3>2. IsFiniteSet(Used)
      BY UsedFinite DEF Inductive
    <3> QED BY <3>1, <3>2, FS_AddElement
  <2>4. user.passwordVersion + 1 <= Cardinality(Used')
    <3>1. Cardinality(Used) \in Nat
      BY UsedFinite DEF Inductive
    <3>2. user.passwordVersion <= Cardinality(Used)
      BY <1>13, <3>1 DEF Inductive, GrantEarned
    <3> QED BY <1>13, <2>3, <3>1, <3>2
  <2>5. GrantFromLatestCode'
    BY <1>5, <1>9, <1>11, <1>16, <2>1, <2>2, LogType
       DEF GrantFromLatestCode, Latest, Inductive
  <2>6. GrantEarned'
    BY <1>5, <1>9, <1>14, <2>1, <2>2, <2>4, <2>5 DEF GrantEarned
  <2>7. user'.verified => user'.code["email"].challenge = 0
    BY <2>2 DEF Inductive
  <2> QED BY <2>2, <2>6, <2>7
<1>17. user' \in User /\ GrantEarned' /\ (user'.verified => user'.code["email"].challenge = 0)
  BY <1>15, <1>16 DEF Kind
<1>18. \A s \in Requests : req'[s].pc = "mail" => s # r /\ req'[s] = req[s]
  BY <1>8 DEF Inductive, Typed, Idle
<1>19. Typed'
  BY <1>8, <1>9, <1>17 DEF Inductive, Typed, RequestState
<1>20. Mails'
  BY <1>9, <1>11, <1>18 DEF Inductive, Mails, MailOf
<1>21. \A k \in Kind : PendingCode(k)'
  <2>1. PendingCode(kind)'
    BY <1>14 DEF PendingCode, NoCode
  <2>2. ASSUME NEW k \in Kind \ {kind} PROVE PendingCode(k)'
    <3>1. user.code[k].challenge # 0 => user.code[k].challenge \in DOMAIN log \ {c}
      BY <1>5 DEF Inductive, PendingCode, Latest
    <3> QED BY <1>11, <1>12, <1>14, <3>1 DEF Inductive, PendingCode
  <2> QED BY <2>1, <2>2
<1>22. Logged'
  BY <1>9, <1>10, <1>11, <1>14 DEF Inductive, Logged
<1>23. CodeStands'
  <2> SUFFICES ASSUME NEW k \in Kind, NEW d \in DOMAIN log', Latest(k, d)',
                      log'[d].delivered \/ \E s \in Requests : MailOf(s, d)',
                      log'[d].accepted = 0, log'[d].passwordVersion = user'.passwordVersion
               PROVE  user'.code[k].challenge = d
    BY DEF CodeStands
  <2>1. d \in DOMAIN log /\ d # c
    BY <1>9, <1>10
  <2>2. log[d].delivered \/ \E s \in Requests : MailOf(s, d)
    BY <1>11, <1>18, <2>1 DEF MailOf
  <2>3. user.code[k].challenge = d
    BY <1>11, <1>12, <1>14, <2>1, <2>2 DEF Inductive, CodeStands
  <2>4. k # kind
    <3>1. Latest(k, d) /\ log[d].kind = k
      BY <1>12, <2>1 DEF Latest
    <3> QED BY <1>2, <1>4, <2>1, <2>3 DEF StillPending
  <2> QED BY <1>14, <2>3, <2>4
<1> QED BY <1>17, <1>19, <1>20, <1>21, <1>22, <1>23 DEF Inductive

\* A new password: its version is past that of every code so far.
LEMMA ResetInductive ==
  ASSUME Inductive, NEW r \in Requests, ResetPassword(r)
  PROVE  Inductive'
<1>1. /\ user' = WithNewPassword /\ req' = [req EXCEPT ![r] = Idle] /\ log' = log
      /\ user.grant.challenge # 0 /\ user.passwordVersion < MaxResets
  BY DEF ResetPassword, Becomes, GrantNamed
<1>2. user \in User /\ user.passwordVersion \in 0 .. MaxResets
  BY DEF Inductive, Typed, User, PasswordVersion
<1>3. PICK n \in Nat : n = user.passwordVersion
  BY <1>2
<1>4. n + 1 \in 0 .. MaxResets
  BY <1>1, <1>3, BoundsNat
<1>5. /\ user' \in User /\ user'.passwordVersion = n + 1
      /\ \A k \in Kind : user'.code[k] = NoCode
      /\ user'.grant = NoGrant
  BY <1>1, <1>2, <1>3, <1>4, NothingType DEF WithNewPassword, User, PasswordVersion
<1>6. \A s \in Requests : req'[s].pc = "mail" => s # r /\ req'[s] = req[s]
  BY <1>1 DEF Inductive, Typed, Idle
<1>7. Typed'
  BY <1>1, <1>5 DEF Inductive, Typed, RequestState
<1>8. Mails'
  BY <1>1, <1>6 DEF Inductive, Mails, MailOf
<1>9. \A k \in Kind : PendingCode(k)' /\ user'.code[k].challenge = 0
  BY <1>5 DEF PendingCode, NoCode
<1>10. \A c \in DOMAIN log : log[c].passwordVersion \in Nat /\ log[c].passwordVersion <= n
  BY <1>3, LogType DEF Inductive, Logged, LogEntry, PasswordVersion
<1>11. Logged'
  BY <1>1, <1>5, <1>10 DEF Inductive, Logged
<1>12. GrantEarned'
  <2>1. Used' = Used /\ Cardinality(Used) \in Nat
    BY <1>1, UsedFinite DEF Used, Inductive
  <2>2. n + 1 <= Cardinality(Used)
    BY <1>1, <1>3 DEF Inductive, GrantEarned
  <2>3. user'.grant.challenge = 0
    BY <1>5 DEF NoGrant
  <2>4. user'.passwordVersion + 0 <= Cardinality(Used')
    BY <1>3, <1>5, <2>1, <2>2
  <2> QED BY <2>3, <2>4 DEF GrantEarned, GrantFromLatestCode
<1>13. CodeStands'
  BY <1>1, <1>3, <1>5, <1>10 DEF CodeStands
<1> QED BY <1>7, <1>8, <1>9, <1>11, <1>12, <1>13 DEF Inductive, Kind

---------------------------------------------------------------------------
LEMMA NextInductive == Inductive /\ [Next]_vars => Inductive'
<1> SUFFICES ASSUME Inductive, [Next]_vars PROVE Inductive'
  OBVIOUS
<1>1. CASE UNCHANGED vars
  BY <1>1, ClockInductive DEF vars, Inductive, Typed
<1>2. ASSUME NEW r \in Requests, Request(r) PROVE Inductive'
  <2>1. user.passwordVersion \in PasswordVersion
    BY DEF Inductive, Typed, User
  <2>2. CASE LoadForIssue(r)
    <3>0. {0, user.code["email"].challenge} \subseteq ChallengeId
      BY BoundsNat DEF Inductive, Typed, User, Code, Kind, ChallengeId
    <3>1. PICK previous \in ChallengeId :
            /\ req' = [req EXCEPT ![r] = [pc |-> "issue", previous |-> previous,
                                         passwordVersion |-> user.passwordVersion]]
            /\ UNCHANGED <<user, log>>
      BY <2>2, <3>0 DEF LoadForIssue, Becomes
    <3>2. [pc |-> "issue", previous |-> previous,
           passwordVersion |-> user.passwordVersion] \in RequestState
      BY <2>1 DEF RequestState, Issuing
    <3> QED BY <3>1, <3>2, ReadInductive
  <2>3. CASE LoadForRecovery(r)
    <3>1. [pc |-> "recover", passwordVersion |-> user.passwordVersion] \in RequestState
      BY <2>1 DEF RequestState, Recovering
    <3> QED BY <2>3, <3>1, ReadInductive DEF LoadForRecovery, Becomes
  <2>4. CASE LoadGrant(r)
    <3>1. user.grant.challenge \in 1 .. MaxChallenges
      BY <2>4, BoundsNat DEF LoadGrant, GrantNamed, Inductive, Typed, User, Grant, ChallengeId
    <3>2. [pc |-> "reset", challenge |-> user.grant.challenge,
           passwordVersion |-> user.passwordVersion] \in RequestState
      BY <2>1, <3>1 DEF RequestState, Using
    <3> QED BY <2>4, <3>2, ReadInductive DEF LoadGrant, Becomes
  <2>5. CASE Fail(r)
    <3>1. Idle \in RequestState /\ Idle.pc # "mail"
      BY DEF RequestState, Idle
    <3> QED BY <2>5, <3>1, ReadInductive DEF Fail, Becomes
  <2>6. CASE \E kind \in Kind, right \in BOOLEAN : Guess(r, kind, right)
    BY <2>6, GuessInductive
  <2> QED BY <1>2, <2>2, <2>3, <2>4, <2>5, <2>6, StoreInductive, MailSentInductive,
             MailFailsInductive, ConsumeInductive, ResetInductive DEF Request
<1>3. CASE SetActive \/ ExpireGrant \/ \E k \in Kind : CoolDown(k) \/ ExpireCode(k)
  BY <1>3, SetActiveInductive
<1> QED BY <1>1, <1>2, <1>3 DEF Next

LEMMA AlwaysInductive == Spec => []Inductive
BY InitInductive, NextInductive, PTL DEF Spec

---------------------------------------------------------------------------
\* Every document has its type, and a request that mails a code holds the
\* number of a challenge that was stored.
THEOREM TypeCorrect == Spec => []TypeOK
<1>1. Inductive => TypeOK
  BY DEF Inductive, Typed, Mails, TypeOK
<1> QED BY <1>1, AlwaysInductive, PTL

\* However many requests guess at once, a mailed code is compared with at most
\* MaxAttempts guesses (verify of auth-email-otp.service.ts and
\* auth-recovery-otp.service.ts).
THEOREM AttemptsShared == Spec => []SharedAttempts
<1>1. Inductive => SharedAttempts
  BY DEF Inductive, Logged, SharedAttempts
<1> QED BY <1>1, AlwaysInductive, PTL

\* Of any number of requests that present a right code, one is accepted.
THEOREM OneAcceptance == Spec => []AcceptedOnce
<1>1. Inductive => AcceptedOnce
  BY DEF Inductive, Logged, AcceptedOnce
<1> QED BY <1>1, AlwaysInductive, PTL

\* Every password that was set used up a recovery code of its own
\* (resetPassword of auth.service.ts).
THEOREM ResetsPaid == Spec => []OneResetPerCode
<1>1. Inductive => OneResetPerCode
  <2> SUFFICES ASSUME Inductive PROVE OneResetPerCode
    OBVIOUS
  <2>1. Cardinality(Used) \in Nat /\ user.passwordVersion \in Nat
    BY UsedFinite DEF Inductive, Typed, User, PasswordVersion
  <2>2. user.passwordVersion <= Cardinality(Used)
    BY <2>1 DEF Inductive, GrantEarned
  <2> QED BY <2>2 DEF OneResetPerCode, Used
<1> QED BY <1>1, AlwaysInductive, PTL

\* No request that read the user before a reset or a verification brings back
\* a code or a grant of that time.
THEOREM NothingComesBack == Spec => []PendingIsCurrent
<1>1. Inductive => PendingIsCurrent
  BY DEF Inductive, PendingCode, GrantEarned, PendingIsCurrent
<1> QED BY <1>1, AlwaysInductive, PTL

\* A grant to reset the password comes from the last recovery code stored.
THEOREM GrantLatest == Spec => []GrantFromLatestCode
<1>1. Inductive => GrantFromLatestCode
  BY DEF Inductive, GrantEarned
<1> QED BY <1>1, AlwaysInductive, PTL

\* A delivered code stays pending until it is accepted or its password is
\* replaced: the failed mail of another request never withdraws it.
THEOREM DeliveredStands == Spec => []DeliveredCodeStands
<1>1. Inductive => DeliveredCodeStands
  BY DEF Inductive, CodeStands, DeliveredCodeStands
<1> QED BY <1>1, AlwaysInductive, PTL
=============================================================================
