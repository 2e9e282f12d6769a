SPECIFICATION FairSpec
CONSTANTS
  Caller = {g1, g2}
  User = {u1}
  DbMax = {0, 1, 3}
  PoolOptions <- Options
  MaxInt32 = 2
  MinConns = 0
  CanClose = TRUE
  CanCancel = FALSE
  MaxRetries = 1
  RetryBaseDelay = 1
  RetryMaxDelay = 1
  MaxShift = 1
  MaxInt64 = 7
  MaxDepth = 1
  SQLState <- Conflict
  Via = {"exec"}
  CommitError = {"conflict", "after"}
PROPERTIES
  CallsEnd
  CloseEnds
