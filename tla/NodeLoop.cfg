\* Two peers that come and go three times in all, a feed of two, two handlers at a time.
SPECIFICATION FairSpec
CONSTANTS
  Peers = {p1, p2}
  NoPeer = none
  FeedCap = 2
  Tasks = {t1, t2}
  MaxChanges = 3
  TxEvents <- LoopEvents
  MaxTxEvents = 1
  pool_config <- ShippedPools
  Caseless <- MCCaseless
INVARIANTS
  TypeOK
  ToldOfEveryChange
  CountsAreNoOlder
PROPERTIES
  HandlersEnd
  RequestsAnswered
\* Without the manager and with no transaction left only the closed channel is read.
CHECK_DEADLOCK FALSE
