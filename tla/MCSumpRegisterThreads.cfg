\* A path registered while another thread has a channel of its device.
CONSTANTS
  b1 = b1
  b2 = b2
  b3 = b3
  b4 = b4
  u1 = u1
  u2 = u2
  Bdevs = {b1, b2, b3, b4}
  Uuid <- DiskOf
  Threads = {t1, t2}
  AppThread = t1
  NullChannel = none
  MaxFails = 0
SPECIFICATION Spec
CHECK_DEADLOCK FALSE
INVARIANT EveryThreadHasItsPaths
