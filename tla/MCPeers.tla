------------------------------ MODULE MCPeers ------------------------------
EXTENDS Peers
=============================================================================
