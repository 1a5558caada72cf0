SPECIFICATION FairSpec
CONSTANTS
  t = t
  f = f
  None = None
  Messages = {t, f}
  Resources = {f}
  Keys <- MCMixed
  Mixes <- MCMixes
INVARIANTS StatusIsTrue 
 
CHECK_DEADLOCK FALSE
