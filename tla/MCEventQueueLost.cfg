SPECIFICATION Spec
CONSTANTS
  MaxTs = 4
  MaxEpoch = 1
  CkpPeriods = {1}
  Committer = {c1}
  c1 = c1
  c2 = c2
  MayBeMute = FALSE
  Garbage <- NothingWritten
SYMMETRY Committers
INVARIANTS AllCollected
