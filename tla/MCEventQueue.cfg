SPECIFICATION Spec
CONSTANTS
  MaxTs = 4
  MaxEpoch = 3
  CkpPeriods = {1, 2}
  Committer = {c1, c2}
  c1 = c1
  c2 = c2
  MayBeMute = FALSE
  Garbage <- AnyHorizon
SYMMETRY Committers
INVARIANTS TypeOK OutputFaithful UndoneDiscarded ExecutesNext CommittedOnly HandedInOrder RestoreExists
