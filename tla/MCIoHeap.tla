------------------------------ MODULE MCIoHeap ------------------------------
\* Payloads are interchangeable, but the run checks a liveness property, for
\* which TLC's symmetry reduction is not sound.
EXTENDS IoHeapProofs
=============================================================================
