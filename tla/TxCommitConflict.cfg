SPECIFICATION Spec
CONSTANTS
  Caller = {g1}
  User = {}
  DbMax = {1}
  PoolOptions <- NoOption
  MaxInt32 = 1
  MinConns = 0
  CanClose = FALSE
  CanCancel = FALSE
  MaxRetries = 1
  RetryBaseDelay = 1
  RetryMaxDelay = 1
  MaxShift = 1
  MaxInt64 = 7
  MaxDepth = 1
  SQLState <- Conflict
  Via = {"exec"}
  CommitError = {"conflict"}
PROPERTY CommitConflictRetried
