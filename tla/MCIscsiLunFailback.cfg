CONSTANTS
  N = 1
  p1 = p1
  p2 = p2
  i1 = i1
  i2 = i2
  Paths = {p1, p2}
  Ios = {i1}
  NoPath = NoPath
  Mbdev = Mbdev
  MaxFailures = 2
  MaxResizes = 1
SPECIFICATION RepairedSpec
CHECK_DEADLOCK FALSE
PROPERTY FailedPathReturns
