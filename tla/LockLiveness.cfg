SPECIFICATION FairSpec
CONSTANTS
  Client = {c1, c2}
  Owner = {o1, o2, o3, o4}
  Conn = {k1}
  NoOwner = NoOwner
  NoConn = NoConn
  TTL = {1}
  ExtendTTL = {1}
  RetryCount = 2
  MaxSends = 2
PROPERTIES
  CallsReturn
  NeverStuck
