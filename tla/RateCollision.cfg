SPECIFICATION Spec
CONSTANTS
  MaxAllowed = 2
  Window = 3
  N = {1}
  Caller = {c1}
  Reader = {}
  Rand = {r1}
  CanCollide = TRUE
  MaxDelay = 0
INVARIANTS
  TotalIsMaximum
