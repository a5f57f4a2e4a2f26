\* Two peers, three sessions in all, an event stream of two: peers reconnect,
\* events are overwritten, and the feed overruns.
SPECIFICATION Spec
CONSTANTS
  Peers = {p1, p2}
  Callers = {c1}
  MaxSessions = 3
  EventCap = 2
  ChanCap = 1
  CmdCap = 1
  FeedCap = 1
INVARIANTS
  TypeOK
  EvictsOnlyMembers
  DirectoryAccurate
PROPERTIES
  OnlyDeadRemoved
  OverwriteOnlyAfterLag
  ImplementsDirectory
\* The manager stops with the network or with its last handle.
CHECK_DEADLOCK FALSE
