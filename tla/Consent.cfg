\* Two subagents and main, two calls of any kind, every verdict, with and without YOLO.
SPECIFICATION FairSpec
CONSTANTS
  s1 = s1
  s2 = s2
  Subs = {s1, s2}
  MaxCalls = 2
INVARIANTS
  TypeOK
  ConsentBeforeEffect
  DecisionsCount
  WaitsAreInHand
PROPERTIES
  EveryWaitEnds
CHECK_DEADLOCK FALSE
