\* Two agents and two models of which one fits, two sizes, two processes started, one crash.
SPECIFICATION FairSpec
CONSTANTS
  m1 = m1
  m2 = m2
  small = small
  large = large
  a1 = a1
  a2 = a2
  Models = {m1, m2}
  Sizes = {small, large}
  Wants <- SomeWants
  Agents = {a1, a2}
  MaxLoaded = 1
  PortAttempts = 2
  MaxStarts = 2
  MaxCrashes = 1
INVARIANTS
  TypeOK
  OneServerEach
  ServersAreFound
PROPERTIES
  RequestsAreServed
CHECK_DEADLOCK FALSE
