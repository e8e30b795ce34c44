CONSTANTS
  q0 = q0
  q1 = q1
  c1 = c1
  c2 = c2
  G = 2
  MaxNsid = 2
  Qpairs = {q0, q1}
  Admin = q0
  QGroup <- Placed
  Cmds = {c1, c2}
  MaxOps = 2
SPECIFICATION FairSpec
CHECK_DEADLOCK FALSE
INVARIANTS
  TypeOK
  PausedIsQuiet
  NoneStranded
  FreedIsUnused
PROPERTIES
  ChangesEnd
