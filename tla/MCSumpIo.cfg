CONSTANTS
  i1 = i1
  i2 = i2
  Ios = {i1, i2}
  NPaths = 3
  UintMax = 7
  Solid <- LastPath
  MaxFaults = 3
  MaxWraps = 2
  MaxProbes = 2
  MaxLost = 1
SYMMETRY IoSymmetry
SPECIFICATION Spec
CHECK_DEADLOCK FALSE
INVARIANTS
  TypeOK
  OnePollerPerFailedPath
  AnsweredOnce
  DepthIsContexts
  SolidPathSuffices
PROPERTIES
  FailoverLeavesFailedPath
  DeviceSafe
