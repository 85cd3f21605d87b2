SPECIFICATION FairSpec
CONSTANTS
  p1 = p1
  p2 = p2
  Peer = {p1, p2}
  Block <- MCBlock
  Parent <- MCParent
  Stored = {}
  ChainOf <- OneChain
  Missing <- NoneMissing
  Limit = 3
  MaxUndo = 9
  MinPrefetch = 9
  MaxPerPeer = 2
  MaxCalls = 1
  MaxBacklog = 1
  Word = 64
  MaxClosed = 0
  MaxAsks = 0
  MaxNormal = 0
PROPERTY
  BlocksArrive
CHECK_DEADLOCK FALSE
