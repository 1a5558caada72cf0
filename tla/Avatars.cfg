SPECIFICATION FairSpec
CONSTANTS
  i1 = i1
  i2 = i2
  Mine <- TwoNames
  Theirs = t
  Default = d
  Readers = {r}
  Chunks = 2
  Mixes <- TwoMixes
  None = None
INVARIANTS   FetchedIsWhole
 
CHECK_DEADLOCK FALSE
