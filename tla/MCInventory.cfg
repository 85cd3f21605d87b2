SPECIFICATION FairSpec
CONSTANTS
  Peer = {1, 2}
  Block = {b1, b2}
  Trx = {t1}
  Own = {b1}
  Offers <- MCOffers
  None = None
  Syncing = {2}
  b1 = b1
  b2 = b2
  t1 = t1
  TrxLimit = 0
  FullLimit = 1
  CacheDuration = 1
  MaxEvents = 1
INVARIANT NothingForgotten
PROPERTIES PriorityRespected RequestsSettle
CHECK_DEADLOCK FALSE
