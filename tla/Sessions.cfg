SPECIFICATION FairSpec
CONSTANTS
  Sessions = {a, b}
  a = a
  b = b
  Kinds = {"chat", "resource"}
  QueueLimit = 1
  SendLimit = 1
  TaskLimit = 1
  MaxReads = 2
  MaxFaults = 1
  Faults = {"cut", "silent", "kick", "push", "throw", "badFrame", "stop"}
INVARIANTS ChargesExact  StoppedIsClean
PROPERTY StopEnds
CHECK_DEADLOCK FALSE
