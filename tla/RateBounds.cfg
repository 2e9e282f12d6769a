SPECIFICATION FairSpec
CONSTANTS
  MaxAllowed = 2
  Window = 4
  N = {1, 2}
  Caller = {c1}
  Reader = {g1}
  Rand = {r1, r2}
  CanCollide = FALSE
  MaxDelay = 2
INVARIANTS
  TypeOK
  FixedBound
  SlidingBound
  StatusHolds
PROPERTIES
  WindowsEnd
