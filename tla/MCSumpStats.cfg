\* Two paths, windows of two requests, of which three and more are served.
CONSTANTS
  NPaths = 2
  UintMax = 1000
  Algorithms = {"TIME", "AVG_RATE", "RATE"}
  Window = 2
  Times = {1, 2}
  Sizes = {0, 1}
  RateUnit = 12
  r1 = r1
  r2 = r2
  Requests = {r1, r2}
  Idle = idle
  MaxServed = 4
SYMMETRY RequestSymmetry
SPECIFICATION Spec
INVARIANTS
  TypeOK
  AveragesAreRecent
  UnmeasuredFirst
  BestRecentIsChosen
