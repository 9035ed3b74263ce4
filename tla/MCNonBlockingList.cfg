CONSTANTS
  n1 = n1
  n2 = n2
  n3 = n3
  n4 = n4
  Node = {n1, n2, n3, n4}
  NULL = NULL
  MaxOps = 4
  Hazards = {}
SPECIFICATION FairSpec
INVARIANTS IInv NoFault HandedKept KeyIsNext NoLeak
PROPERTIES ImplementsWindow Delivery
