CONSTANTS
  M = 1
  c1 = c1
  c2 = c2
  Ctrlrs = {c1, c2}
  i1 = i1
  i2 = i2
  Ios = {i1, i2}
  NoPath = NoPath
  Policies <- MCPolicies
  AnaStates <- MCAnaStates
  RrMinIo = 2
  RetryCount = 1
  MaxEvents = 2
SPECIFICATION Spec
CHECK_DEADLOCK FALSE
INVARIANTS
  TypeOK
  PathsAreLive
  ListsAgree
PROPERTY EveryIoAnswered
