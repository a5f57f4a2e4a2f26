\* Two v3-nodes.
SPECIFICATION Spec
CONSTANTS
  Ends = {v1, v2}
  Nodes = {v1, v2}
  Versions = {68}
  LaterFork = 1745903100
  Heads = {}
INVARIANTS
  AgreesWithItself
\* A handshake ends.
CHECK_DEADLOCK FALSE
