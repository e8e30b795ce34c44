CONSTANTS
  N = 2
  p1 = p1
  p2 = p2
  i1 = i1
  i2 = i2
  Paths = {p1, p2}
  Ios = {i1, i2}
  NoPath = NoPath
  Mbdev = Mbdev
  MaxFailures = 2
  MaxResizes = 1
SPECIFICATION Spec
CHECK_DEADLOCK FALSE
INVARIANTS
  TypeOK
  MainThreadIsHeld
  OneServer
PROPERTY EveryIoAnswered
