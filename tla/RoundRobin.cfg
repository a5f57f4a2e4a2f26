SPECIFICATION DispatchSpec
CONSTANTS
  Peers = {p1, p2, p3}
  Callers = {c1}
  MaxSessions = 3
  EventCap = 1
  ChanCap = 1
  CmdCap = 1
  FeedCap = 1
  Server = p1
  Debtor = p2
CONSTRAINT Running
VIEW View
PROPERTY RoundRobin
\* The manager stops with the network or with its last handle.
CHECK_DEADLOCK FALSE
