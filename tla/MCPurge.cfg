SPECIFICATION Spec
CONSTANTS
  Trx <- MCTrx
  Digest <- MCDigest
  From <- MCFrom
  To <- MCTo
  Amount <- MCAmount
  Fee <- MCFee
  Size <- MCSize
  Exp <- Soon
  Account <- MCAccount
  Funds <- MCFunds
  RelayFee = 1
  MaxQueue = 0
  LastCheckpoint = 0
  MaxExpiration = 9
  MaxTrxCount = 2
  MaxBlockSize = 3
  MaxTrxSize = 2
  MinFee = 1
  MaxClock = 5
  MaxBody = 1
  MaxPops = 2
  MaxRestarts = 0
INVARIANT TransactionOnce
CHECK_DEADLOCK FALSE
