---------------------------- MODULE MCSimulation ----------------------------
\* Instances of Simulation for TLC.
EXTENDS Simulation

Build(i, p, t) == [interrupt |-> i, period |-> p, timed |-> t]

DefaultBuilds == {Build(TRUE, FALSE, FALSE)}
SomeBuilds ==
  DefaultBuilds \cup {Build(TRUE, FALSE, TRUE), Build(TRUE, TRUE, FALSE), Build(FALSE, FALSE, FALSE)}
=============================================================================
