\* The shipped pools.json, and a call of each pool.
SPECIFICATION Spec
CONSTANTS
  Peers = {p1}
  NoPeer = none
  FeedCap = 1
  Tasks = {t1}
  MaxChanges = 0
  TxEvents <- CallEvents
  MaxTxEvents = 1
  pool_config <- ShippedPools
  Caseless <- MCCaseless
PROPERTY PoolsReported
CHECK_DEADLOCK FALSE
