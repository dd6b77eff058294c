\* The user confirms "Create new" while a run works.
SPECIFICATION Spec
CONSTANTS
  MaxRuns = 3
  MaxSessions = 3
  MaxCrashes = 0
  MayAbandon = TRUE
INVARIANTS
  ActiveFollowsTheRun
