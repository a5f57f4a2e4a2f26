\* Two callers compete for the one slot of the command channel.
SPECIFICATION FairSpec
CONSTANTS
  Peers = {p1}
  Callers = {c1, c2}
  MaxSessions = 2
  EventCap = 1
  ChanCap = 1
  CmdCap = 1
  FeedCap = 1
PROPERTIES
  EveryCallReturns
  ImplementsDirectory
\* The manager stops with the network or with its last handle.
CHECK_DEADLOCK FALSE
