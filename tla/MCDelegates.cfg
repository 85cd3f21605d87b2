SPECIFICATION Spec
CONSTANTS
  k1 = k1
  k2 = k2
  k3 = k3
  k4 = k4
  k5 = k5
  NoKey = NoKey
  NumDelegates = 2
  Ids <- MCIds
  Keys <- MCKeys
  GenesisKey <- MCGenesisKey
  Pay = 1
  TrackStats = FALSE
  MaxSlot = 5
  MaxBlocks = 3
  MaxOps = 3
  MaxVotes = 3
SYMMETRY SpareKeys
INVARIANTS RankingCurrent  SlotsCounted KeyIndexSound
PROPERTY PopRestores
