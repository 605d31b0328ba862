CONSTANTS
  dc1 = dc1
  t1 = t1
  t2 = t2
  s1 = s1
  s2 = s2
  None = None
  Dcs = {dc1}
  Borrowers = {}
  Senders = {s1}
  CatchUps = {TRUE, FALSE}
  MaxEvents = 3
  MaxConnects = 3
  MaxCrashes = 1
SPECIFICATION Spec
INVARIANTS
  TypeOK
  OnlyExposedLost
  TwiceOnlyAfterReset
PROPERTIES
  SavedForward
