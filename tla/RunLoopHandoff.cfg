\* What a handoff carries of the golden loop.
SPECIFICATION Spec
CONSTANTS
  g1 = g1
  g2 = g2
  Goals = {g1}
  MaxGoldenCycles = 5
  MaxGoldenStalls = 2
  Capped = FALSE
  MaxRounds = 0
  MaxUnfinished = 2
  MaxQualityRetries = 3
  MaxStopHookBlocks = 3
  MaxLoopNudges = 2
  MaxQueue = 1
INVARIANTS
  GoldenStateIsCarried
