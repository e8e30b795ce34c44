CONSTANTS
  N = 2
  MaxPaths = 2
  Configs <- MCConfigs
SPECIFICATION Spec
CHECK_DEADLOCK FALSE
INVARIANTS
  TypeOK
  OneCarrier
  RefsCounted
  DeletedAlone
PROPERTIES
  ResetEnds
  DeletedIsFreed
