\* Two peers that connect and reconnect under a caller that keeps calling.
SPECIFICATION FairSpec
CONSTANTS
  Peers = {p1, p2}
  Callers = {c1}
  MaxSessions = 2
  EventCap = 2
  ChanCap = 1
  CmdCap = 1
  FeedCap = 1
PROPERTIES
  EveryCallReturns
  DirectoryConverges
\* The manager stops with the network or with its last handle.
CHECK_DEADLOCK FALSE
