SPECIFICATION Spec
CONSTANTS
  p1 = p1
  p2 = p2
  Peer = {p1, p2}
  Block <- MCBlock
  Parent <- MCParent
  Stored = {1}
  ChainOf <- ForkSwitch
  Missing <- OneMissing
  Limit = 3
  MaxUndo = 2
  MinPrefetch = 9
  MaxPerPeer = 2
  MaxCalls = 1
  MaxBacklog = 1
  Word = 64
  MaxClosed = 1
  MaxAsks = 1
  MaxNormal = 1
INVARIANTS
  RequestedOnce
  HandedInOrder
  AsksWhenDone
CHECK_DEADLOCK FALSE
