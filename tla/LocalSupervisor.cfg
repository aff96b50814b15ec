\* Three builds and two crashes, in any overlap.
CONSTANTS
  MaxBuilds = 3
  MaxCrashes = 2
SPECIFICATION SupervisorSpec
INVARIANTS OneApiProcess NothingLeftBehind LatestBuildRuns
PROPERTIES ApiComesBack StopResolves
