SPECIFICATION Spec
CONSTANTS
  NCores = 2
  NLps = 2
  Builds <- DefaultBuilds
INVARIANT LastHorizon
