\* Two overlapping requests; a password reset, the second factor turned on and off,
\* deactivation and deletion; two sessions and three refresh tokens; seven of these
\* changes, sessions and tokens at most.
CONSTANTS
  Requests = {r1, r2}
  MaxPasswordVersion = 1
  MaxMfaVersion = 2
  MaxEvents = 6
  MaxEnrolments = 1
  MaxChallenges = 1
  MaxSessions = 2
  MaxTokens = 3
SYMMETRY RequestSymmetry
SPECIFICATION Spec
INVARIANTS SessionProvedPassword SessionProvedFactor TokenExchangedOnce ReplayAndLogoutRevoke
PROPERTY RevokedForever
CHECK_DEADLOCK FALSE
