SPECIFICATION Spec
CONSTANTS
  Session = {s1, s2}
  NoSession = NoSession
  Proc = {p1}
  Keeper = {p1}
  Goroutine = {g1}
  TTL = {3, 6}
  ExtendTTL = {3}
  DefaultTTL = 3
  Sec = 3
  SlowCalls = FALSE
  CanFail = FALSE
  MaxResends = 0
PROPERTIES
  IndexNeverShrinks
