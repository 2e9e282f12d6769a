SPECIFICATION Spec
CONSTANTS
  Client = {c1, c2}
  Owner = {o1, o2, o3}
  Conn = {k1, k2}
  NoOwner = NoOwner
  NoConn = NoConn
  TTL = {2}
  ExtendTTL = {0, 2}
  RetryCount = 2
  MaxSends = 2
SYMMETRY Symmetry
INVARIANTS
  TypeOK
  LeaseHonoured
  MutualExclusion
  NoFalseLoss
PROPERTY ImplementsLeasedMutex
