\* Two overlapping requests, one login challenge, two setups, two time steps,
\* one reset of the password.
CONSTANTS
  Requests = {r1, r2}
  RecoveryCodes = {c1}
  MaxAttempts = 2
  MaxClock = 1
  MaxPasswordVersion = 1
  MaxMfaVersion = 3
  MaxEnrolments = 2
  MaxChallenges = 1
SYMMETRY RequestSymmetry
SPECIFICATION Spec
INVARIANTS AcceptedOnce OneLoginPerChallenge NewestSetupWins
PROPERTY StaleChallengeProvesNothing
CHECK_DEADLOCK FALSE
