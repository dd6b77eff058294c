\* Rounds of up to five calls, two at a time.
SPECIFICATION FairSpec
CONSTANTS
  MaxCalls = 5
  MaxConcurrent = 2
INVARIANTS
  TypeOK
  OneResultEach
  JobsStayInTheirRun
PROPERTIES
  LooksSequential
  RoundEnds
