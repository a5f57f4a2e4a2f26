\* A v3-node and a geth anywhere along the chain, with or without a later fork.
SPECIFICATION FairSpec
CONSTANTS
  Ends = {v3, geth}
  Nodes = {v3}
  Versions = {66, 67, 68}
  LaterFork = 1745903100
  Heads <- MCHeads
INVARIANTS
  TypeOK
  EstablishedIsMutual
  NoForeignerEstablished
  RefusesOnlyByStatus
  RefusesOnlyForeigners
PROPERTIES
  NobodyWaitsForever
\* A handshake ends.
CHECK_DEADLOCK FALSE
