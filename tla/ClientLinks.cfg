SPECIFICATION FairSpec
CONSTANTS
  Users = {a, b}
  None = None
  Attempts = 2
  MaxLogins = 2
  MaxPending = 3
  MaxElsewhere = 1
  MaxFaults = 1
  Faults = {"gate", "refuse", "chatRefuse", "noRoute", "cut", "half", "linger", "forget", "resource", "resRefuse", "redis", "upload"}
INVARIANT PageAgrees
PROPERTIES AttemptsEnd ResourceReturns
CHECK_DEADLOCK FALSE
