CONSTANTS
  ACCOUNT = ACCOUNT
  SECRET = SECRET
  Channels = {}
  Down = Down
  NoUpdatesTimeout = 2
  GapTimeout = 1
  StartPts <- MCStart
  MaxPts <- MCMax
  AccountMax = 3
  SecretStart = 0
  SecretMax = 1
  ChannelStart = 1
  ChannelMax = 1
  MaxSeq = 1
  Counts = {1, 2}
  Bodies = {"msg", "other"}
  MaxBatch = 2
SPECIFICATION Spec
INVARIANTS
  TypeOK
  NoLoss
  AtMostOnce
PROPERTIES
  Monotone
