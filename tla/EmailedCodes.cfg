\* Two overlapping requests, three stored codes, two guesses a code, one reset
\* of the password and a second one attempted.
CONSTANTS
  Requests = {r1, r2}
  MaxAttempts = 2
  MaxChallenges = 3
  MaxResets = 2
SYMMETRY RequestSymmetry
SPECIFICATION Spec
INVARIANTS SharedAttempts AcceptedOnce OneResetPerCode PendingIsCurrent
           GrantFromLatestCode DeliveredCodeStands
CHECK_DEADLOCK FALSE
