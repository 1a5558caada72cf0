SPECIFICATION FairSpec
CONSTANTS
  m1 = m1
  m2 = m2
  x = x
  None = None
  Messages = {m1, m2}
  Shas = {x}
  Sha <- MCSha
  Changed = {m2}
  Chunks = 2
  Platforms = {"posix", "windows"}
  MaxMismatch = 2
  CacheLimit = 1
  MaxFaults = 1
  Faults <- MCFaults
  
PROPERTY UploadSettles
CHECK_DEADLOCK FALSE
