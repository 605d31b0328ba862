CONSTANTS
  dc1 = dc1
  t1 = t1
  t2 = t2
  s1 = s1
  s2 = s2
  None = None
  Dcs = {dc1}
  Borrowers = {t1, t2}
  Senders = {s1, s2}
  CatchUps = {TRUE}
  MaxEvents = 1
  MaxConnects = 2
  MaxCrashes = 0
SPECIFICATION FairSpec
INVARIANTS
  Lent
  LeftClean
PROPERTIES
  IdleClosed
  SilenceNoticed
