--------------------------- MODULE MCReversibleIO ---------------------------
EXTENDS ReversibleIOProofs
=============================================================================
