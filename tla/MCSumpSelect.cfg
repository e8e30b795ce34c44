\* Four paths (the four weights of the code) and measures 0..4, where 4 stands
\* for UINT64_MAX or 10e32: ties, all availability patterns, rates that differ
\* by less than one byte per second and the saturated value all occur.
CONSTANTS
  NPaths = 4
  UintMax = 4
SPECIFICATION SelectSpec
INVARIANTS
  ScansFindBest
  RobinIsCyclic
  DrawsFindAvailable
