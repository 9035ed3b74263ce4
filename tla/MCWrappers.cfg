SPECIFICATION Spec
CONSTANTS
  pipe = pipe
  file = file
  b1 = b1
  b2 = b2
  s1 = s1
  t1 = t1
  t2 = t2
  Pipe = {pipe}
  File = {file}
  Stdout = pipe
  Block = {b1, b2, s1}
  Static = {s1}
  Text = {t1, t2}
  Position <- Positions
  IntMax = 3
  MaxEpoch = 2
  MaxCalls = 3
SYMMETRY Symmetry
INVARIANTS TypeOK PrintfFaithful AcceptedKept MisuseConfined SeekableWide
