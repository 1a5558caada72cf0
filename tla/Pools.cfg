SPECIFICATION FairSpec
CONSTANTS
  a = a
  b = b
  c = c
  None = None
  Workers = {a, b, c}
  Nesters = {a}
  Kinds = {"mysql", "redis"}
  Calls = {"transaction", "email"}
  PoolSize = 2
  MaxCalls = 3
  MaxFaults = 1
  Faults = {"construct", "restart", "drop"}
INVARIANT Conserved
PROPERTY Served
CHECK_DEADLOCK FALSE
