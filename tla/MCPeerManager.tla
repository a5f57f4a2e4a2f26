--------------------------- MODULE MCPeerManager ---------------------------
EXTENDS PeerManager, TLC

=============================================================================
