\* The guards of a run against each other, no golden goal; runs end and Stop is honoured.
SPECIFICATION FairSpec
CONSTANTS
  g1 = g1
  g2 = g2
  Goals = {}
  MaxGoldenCycles = 0
  MaxGoldenStalls = 0
  Capped = FALSE
  MaxRounds = 0
  MaxUnfinished = 2
  MaxQualityRetries = 2
  MaxStopHookBlocks = 2
  MaxLoopNudges = 1
  MaxQueue = 1
INVARIANTS
  TypeOK
PROPERTIES
  NudgesSpendTheBudget
  FinishAnswersTheUser
  QuietRunEnds
  PauseIsHonoured
