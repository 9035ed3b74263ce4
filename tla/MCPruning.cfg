CONSTANTS
  m1 = m1
  m2 = m2
  m3 = m3
  m4 = m4
  Msg = {m1, m2, m3, m4}
  NULL = NULL
  MaxTs = 3
SPECIFICATION FairSpec
INVARIANTS TypeOK Linked FatherKept NoStrayWindow
PROPERTIES Reclaimed ImplementsPool
