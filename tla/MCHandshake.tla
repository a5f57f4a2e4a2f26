---------------------------- MODULE MCHandshake ----------------------------
EXTENDS Handshake

GenesisTime == 1587390414

\* Every fork of the list, the moment before it and the moment it comes into force,
\* and the same of LaterFork.
MCHeads ==
  UNION {{[number |-> f - 1, timestamp |-> GenesisTime], [number |-> f, timestamp |-> GenesisTime]} :
           f \in ToSet(bsc_mainnet.block) \ {0}}
  \cup UNION {{[number |-> 34140700, timestamp |-> f - 1], [number |-> 34140700, timestamp |-> f]} :
           f \in ToSet(bsc_mainnet.time) \cup {LaterFork}}
=============================================================================
