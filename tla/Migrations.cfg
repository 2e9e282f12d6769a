SPECIFICATION FairSpec
CONSTANTS
  Runner = {r1, r2}
  Nobody = Nobody
  Operator = r1
  Latest = 3
  StepArg = {1, 2, 4}
INVARIANTS
  TypeOK
  VersionIsTrue
PROPERTIES
  NilMeansDone
  LockIsFreed
