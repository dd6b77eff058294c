\* Golden goals across runs, crashes and handoffs, four rounds a run.
SPECIFICATION Spec
CONSTANTS
  g1 = g1
  g2 = g2
  Goals = {g1, g2}
  MaxGoldenCycles = 2
  MaxGoldenStalls = 2
  Capped = TRUE
  MaxRounds = 4
  MaxUnfinished = 0
  MaxQualityRetries = 1
  MaxStopHookBlocks = 0
  MaxLoopNudges = 0
  MaxQueue = 1
SYMMETRY GoalSymmetry
INVARIANTS
  EndTurnIsHonest
PROPERTIES
  CyclesAreNeverRefunded
