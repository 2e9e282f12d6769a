SPECIFICATION Spec
CONSTANTS
  Kind = {"select", "insert", "update", "delete"}
  Table = {"users", ""}
  Column <- MCColumn
  TrimSpace <- MCTrimSpace
  Identifier = {"users", "id", "name"}
  Allowlist = {"id"}
  MaxArgs = 2
  MaxCalls = 4
INVARIANTS
  TypeOK
  PlaceholdersBind
  AllowlistHonoured
CHECK_DEADLOCK FALSE
