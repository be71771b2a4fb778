---------------------------- MODULE MCEdgeAgent ----------------------------
EXTENDS EdgeAgent
=============================================================================
