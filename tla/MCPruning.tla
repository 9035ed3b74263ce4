----------------------------- MODULE MCPruning ------------------------------
EXTENDS Pruning
=============================================================================
