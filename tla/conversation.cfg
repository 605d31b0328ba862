CONSTANTS
  c1 = c1
  w1 = w1
  w2 = w2
  None = None
  Convs = {c1}
  Waits = {w1, w2}
  MaxIncoming = 2
  MaxSent = 1
  MaxMessages = 4
  MaxUpdates = 3
SPECIFICATION Spec
SYMMETRY Symmetry
INVARIANTS
  TypeOK
  Dispatched
  InOrder
  NoneLeft
CHECK_DEADLOCK FALSE
