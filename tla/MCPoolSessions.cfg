SPECIFICATION PoolSpec
CONSTANTS
  Calls = {a, b, c}
  Sessions = {s1, s2, s3}
  MaxOpenConns = 2
  MaxIdleConns = 1
  ReadOnly = TRUE
  Statements <- MCStatements
INVARIANTS
  PoolTypeOK
  NoHoldAndWait
PROPERTIES
  CallsReturn
