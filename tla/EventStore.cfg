SPECIFICATION FairSpec
CONSTANTS
  a = a
  b = b
  t = t
  f = f
  p = p
  q = q
  r = r
  w1 = w1
  w2 = w2
  None = None
  Users = {a, b}
  Texts = {t}
  Files = {f}
  Requests = {p, q, r}
  From <- MCFrom
  To <- MCTo
  Workers = {w1, w2}
  MaxOperations = 4
  MaxFaults = 1
  Faults = {"statement", "gap", "commit"}
  DeadlockRetries = 1
  PublishAttempts = 2
INVARIANTS EventsMatchTables NoSuperfluousRequest AnswersHold
PROPERTIES ImplementsEventLog OperationsEnd
CHECK_DEADLOCK FALSE
