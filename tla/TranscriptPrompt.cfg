\* The prompt of a run and the compaction before it.
SPECIFICATION Spec
CONSTANTS
  RecentMessages = 2
  TailUserTurns = 1
  MaxTurns = 4
  MaxPrompts = 2
  MaxSteers = 1
  MaxCalls = 1
  MaxPrunes = 0
  MaxMarks = 1
  MaxCrashes = 1
INVARIANTS
  PromptIsAsked
\* The bounds on prompts end every behaviour.
CHECK_DEADLOCK FALSE
