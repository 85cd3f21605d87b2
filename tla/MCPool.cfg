SPECIFICATION FairSpec
CONSTANTS
  Trx <- MCTrx
  Digest <- MCDigest
  From <- MCFrom
  To <- MCTo
  Amount <- MCAmount
  Fee <- MCFee
  Size <- MCSize
  Exp <- Soon
  Account <- MCAccount
  Funds <- MCFunds
  RelayFee = 1
  MaxQueue = 0
  LastCheckpoint = 2
  MaxExpiration = 9
  MaxTrxCount = 2
  MaxBlockSize = 3
  MaxTrxSize = 2
  MinFee = 1
  MaxClock = 5
  MaxBody = 2
  MaxPops = 2
  MaxRestarts = 1
INVARIANTS OverlayMatchesIndex StateIsReplayOfChain GeneratedBlockApplies
PROPERTY PendingSettles
CHECK_DEADLOCK FALSE
