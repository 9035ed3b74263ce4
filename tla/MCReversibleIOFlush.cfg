CONSTANTS
  N = 2
  MaxTs = 2
  MaxOps = 2
SPECIFICATION Spec
INVARIANT AllFlushed
