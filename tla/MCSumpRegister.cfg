CONSTANTS
  b1 = b1
  b2 = b2
  b3 = b3
  b4 = b4
  u1 = u1
  u2 = u2
  Bdevs = {b1, b2, b3, b4}
  Uuid <- DiskOf
  Threads = {t1, t2}
  AppThread = t1
  NullChannel = none
  MaxFails = 2
SYMMETRY PathSymmetry
SPECIFICATION Spec
CHECK_DEADLOCK FALSE
INVARIANTS
  TypeOK
  RegisteredOnce
  PathsInOrder
  ReferencesHeld
PROPERTY LatePathIsUsed
