SPECIFICATION FairSpec
CONSTANTS
  Key = {k1, k2, k3}
  Proc = {p1, p2}
  Pattern = {k1, k2}
  TTL = {1}
  ExpireTTL = {0, 2}
  BatchSize = 2
  MaxVersion = 1
  CanFail = TRUE
INVARIANTS
  TypeOK
PROPERTIES
  PatternDeletes
  Converges
