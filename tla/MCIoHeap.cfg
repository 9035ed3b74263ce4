CONSTANTS
  p1 = p1
  p2 = p2
  p3 = p3
  p4 = p4
  p5 = p5
  Payload = {p1, p2, p3, p4, p5}
  MaxKey = 3
  MinHeap = TRUE
  Capacity = 2
  MaxSize = 8
SPECIFICATION FairSpec
INVARIANT HeapInv
PROPERTIES ImplementsHeap CallsReturn
