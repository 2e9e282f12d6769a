SPECIFICATION FairSpec
CONSTANTS
  Session = {s1}
  NoSession = NoSession
  Proc = {p1, p2}
  Keeper = {p1}
  Goroutine = {g1}
  TTL = {1}
  ExtendTTL = {0, 3}
  DefaultTTL = 1
  Sec = 2
  SlowCalls = TRUE
  CanFail = TRUE
  MaxResends = 1
INVARIANTS
  TypeOK
  CleanupSparesLive
PROPERTIES
  SessionsEnd
  IndexLosesLittle
CHECK_DEADLOCK FALSE
