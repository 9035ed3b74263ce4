SPECIFICATION Spec
CONSTANTS
  MaxTs = 3
  MaxEpoch = 3
  CkpPeriods = {2}
  Committer = {c1}
  c1 = c1
  c2 = c2
  MayBeMute = TRUE
  Garbage <- NothingWritten
SYMMETRY Committers
INVARIANTS OutputFaithful
