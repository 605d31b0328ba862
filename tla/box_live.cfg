CONSTANTS
  ACCOUNT = ACCOUNT
  SECRET = SECRET
  Channels = {c1}
  Down = Down
  NoUpdatesTimeout = 2
  GapTimeout = 1
  StartPts <- MCStart
  MaxPts <- MCMax
  AccountMax = 2
  SecretStart = 1
  SecretMax = 1
  ChannelStart = 1
  ChannelMax = 2
  MaxSeq = 0
  Counts = {1}
  Bodies = {"msg"}
  MaxBatch = 1
SPECIFICATION FairSpec
INVARIANTS
  NoRaise
PROPERTIES
  ImplementsFeed
  GapResolved
  DiffEnds
