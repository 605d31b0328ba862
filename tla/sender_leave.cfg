CONSTANTS
  r1 = r1
  r2 = r2
  Requests = {r1}
  Ping = Ping
  None = None
  Calls <- Alone
  GivenUp = {r1}
  Rejects = TRUE
  Leaves = TRUE
  Hasty = TRUE
  GivesUp = TRUE
  MaxConnects = 2
  MaxBreaks = 1
  MaxRefusals = 1
SPECIFICATION Spec
INVARIANTS
  CleanEnd
PROPERTIES
  ImplementsRpc
CHECK_DEADLOCK FALSE
