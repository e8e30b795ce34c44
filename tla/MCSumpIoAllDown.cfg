\* Every path may fail: what does the selector return when none is available?
CONSTANTS
  i1 = i1
  i2 = i2
  Ios = {i1}
  NPaths = 2
  UintMax = 7
  Solid <- NoPath
  MaxFaults = 2
  MaxWraps = 1
  MaxProbes = 1
  MaxLost = 0
SPECIFICATION Spec
CHECK_DEADLOCK FALSE
INVARIANT SelectorFindsPathOrNull
