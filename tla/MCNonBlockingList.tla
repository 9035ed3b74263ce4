-------------------------- MODULE MCNonBlockingList -------------------------
EXTENDS NonBlockingListProofs
=============================================================================
