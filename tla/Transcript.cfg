\* One session's file and history: prunes, compactions, steering, a crash anywhere.
SPECIFICATION Spec
CONSTANTS
  RecentMessages = 2
  TailUserTurns = 1
  MaxTurns = 7
  MaxPrompts = 2
  MaxSteers = 1
  MaxCalls = 3
  MaxPrunes = 2
  MaxMarks = 2
  MaxCrashes = 1
INVARIANTS
  TypeOK
  RequestIsWellFormed
  ReloadAgrees
  ListAndAnswersKept
PROPERTIES
  NothingComesBack
\* The bounds on prompts end every behaviour.
CHECK_DEADLOCK FALSE
