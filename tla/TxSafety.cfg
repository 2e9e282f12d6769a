SPECIFICATION Spec
CONSTANTS
  Caller = {g1}
  User = {u1}
  DbMax = {2}
  PoolOptions <- NoOption
  MaxInt32 = 2
  MinConns = 0
  CanClose = FALSE
  CanCancel = TRUE
  MaxRetries = 3
  RetryBaseDelay = 2
  RetryMaxDelay = 4
  MaxShift = 2
  MaxInt64 = 7
  MaxDepth = 2
  SQLState <- States
  Via = {"exec", "queryrow"}
  CommitError = {"conflict", "before", "after"}
INVARIANTS
  TypeOK
  NoLeak
  DelayBounded
PROPERTIES
  WorkAtMostOnce
  ConflictsExhaustRetries
