\* Pools spelled with their checksum, and a call of each.
SPECIFICATION Spec
CONSTANTS
  Peers = {p1}
  NoPeer = none
  FeedCap = 1
  Tasks = {t1}
  MaxChanges = 0
  TxEvents <- CallEvents
  MaxTxEvents = 1
  pool_config <- ChecksummedPools
  Caseless <- MCCaseless
INVARIANT SwapDecoded
CHECK_DEADLOCK FALSE
