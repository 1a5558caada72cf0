SPECIFICATION FairSpec
CONSTANTS
  a = a
  b = b
  c = c
  s1 = s1
  s2 = s2
  None = None
  Orphan = Orphan
  Servers = {s1, s2}
  Sessions = {a, b, c}
  Home <- MCHome
  Mixes <- MCMixes
INVARIANTS NewestRoutable SettledAgrees
PROPERTY WorkEnds
CHECK_DEADLOCK FALSE
