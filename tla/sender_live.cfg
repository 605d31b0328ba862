CONSTANTS
  r1 = r1
  r2 = r2
  Requests = {r1}
  Ping = Ping
  None = None
  Calls <- Alone
  GivenUp = {}
  Rejects = FALSE
  Leaves = FALSE
  Hasty = FALSE
  GivesUp = FALSE
  MaxConnects = 1
  MaxBreaks = 1
  MaxRefusals = 1
SPECIFICATION FairSpec
PROPERTIES
  Answered
  Settles
