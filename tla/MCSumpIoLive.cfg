\* Every path may fail, so all of them may be down at once: liveness must
\* survive that unless the process dies of it.
CONSTANTS
  i1 = i1
  i2 = i2
  Ios = {i1, i2}
  NPaths = 2
  UintMax = 2
  Solid <- NoPath
  MaxFaults = 2
  MaxWraps = 2
  MaxProbes = 2
  MaxLost = 0
SPECIFICATION FairSpec
CHECK_DEADLOCK FALSE
PROPERTIES
  DeviceLive
  FailbackCompletes
