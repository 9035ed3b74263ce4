CONSTANTS
  N = 2
  MaxTs = 2
  MaxOps = 3
SPECIFICATION FairSpec
INVARIANTS IInv NothingBehind
PROPERTIES OrderedOutput UsesWindows OnlyStalled Progress
