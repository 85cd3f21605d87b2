CONSTANTS
  g = g
  a1 = a1
  a2 = a2
  a3 = a3
  a4 = a4
  a5 = a5
  b2 = b2
  b3 = b3
  b4 = b4
  b5 = b5
  b6 = b6
  c3 = c3
  c4 = c4
  d1 = d1
  d2 = d2
  d3 = d3
  Genesis = g
  Block <- ForksBlock
  Prev <- ForksPrev
  Num <- ForksNum
  Time <- ForksTime
  Bad = {c3}
  MaxUndo = 2
  LastCheckpoint = 0
  StartClock = 2
  MaxClock = 4
SPECIFICATION FairSpec
INVARIANTS
  MainChainConsistent
  NoHigherForkLeft
  ArrivalOrderIrrelevant
  LinkedToGenesis
  NeverBelowValidated
PROPERTIES
  ValidatedNeverInvalidated
  PushBlockReturns
