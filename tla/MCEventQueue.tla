----------------------------- MODULE MCEventQueue -----------------------------
\* Instances of EventQueue for TLC.
EXTENDS EventQueue, TLC

Committers == Permutations(Committer)

NothingWritten == {0}
AnyHorizon     == {0, MaxTs + 1}
=============================================================================
