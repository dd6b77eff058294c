\* Three messages over three sessions and one crash; the user never abandons a run.
SPECIFICATION FairSpec
CONSTANTS
  MaxRuns = 3
  MaxSessions = 3
  MaxCrashes = 1
  MayAbandon = FALSE
INVARIANTS
  TypeOK
  OneRunPerSession
  ActiveFollowsTheRun
  ActiveIsTheTip
  StartedOnce
  ChainsReadBothWays
  StaysWithinReach
PROPERTIES
  InputUnlocks
