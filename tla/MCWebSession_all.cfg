CONSTANTS
  u1 = u1
  u2 = u2
  t1 = t1
  t2 = t2
  c1 = c1
  c2 = c2
  Users = {u1, u2}
  Tabs = {t1, t2}
  Calls = {c1, c2}
  TabOf <- TwoCallsOneTab
  MaxLogins = 2
  MaxCalls = 2
  MaxFaults = 1
  Nobody = Nobody
SPECIFICATION FairSpec
CHECK_DEADLOCK FALSE
INVARIANTS
  TypeOK
  SessionsKeptApart
PROPERTY RestoringEnds
