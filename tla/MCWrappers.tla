----------------------------- MODULE MCWrappers -----------------------------
\* Instances of Wrappers for TLC.
EXTENDS Wrappers, TLC

\* The first position fits an int, the second does not.
Positions == {0, IntMax + 1}

Symmetry == Permutations(Block \ Static) \cup Permutations(Text)
=============================================================================
