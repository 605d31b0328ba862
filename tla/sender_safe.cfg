CONSTANTS
  r1 = r1
  r2 = r2
  Requests = {r1, r2}
  Ping = Ping
  None = None
  Calls <- Together
  GivenUp = {r1}
  Rejects = TRUE
  Leaves = FALSE
  Hasty = FALSE
  GivesUp = FALSE
  MaxConnects = 1
  MaxBreaks = 1
  MaxRefusals = 1
SPECIFICATION Spec
INVARIANTS
  TypeOK
  KeptOnce
  OncePerSession
  Operational
PROPERTIES
  OnlyUntoldForgotten
