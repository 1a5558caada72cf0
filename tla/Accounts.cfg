SPECIFICATION FairSpec
CONSTANTS
  None = None
  Servers = {s1, s2}
  Users <- ThreeUsers
  Conns <- TwoConns
  MaxFaults = 1
  Mixes <- SixMixes
  Emails = {e1, e2}
  Names = {n1, n2}
  Workers = 2
  Countdown = 1
INVARIANTS NotSentAway OneOwner AnswerIsTrue MailedWorks TokenHonoured
PROPERTIES LeasesFollow 
CHECK_DEADLOCK FALSE
