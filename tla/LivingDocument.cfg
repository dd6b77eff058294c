\* A section and an id to spare, one subagent; edits, writes, handoffs and crashes.
SPECIFICATION Spec
CONSTANTS
  Texts = {t1, t2}
  Empty = empty
  Nothing = nothing
  MaxSections = 2
  Topics = 1
  MaxSubs = 1
  MaxEvents = 4
SYMMETRY TextSymmetry
INVARIANTS
  TypeOK
  NoChangeUntold
  NumbersMeanOneTopic
PROPERTIES
  ClaimsHaveWriters
  HumanWins
  SaveKeepsTheRest
CHECK_DEADLOCK FALSE
