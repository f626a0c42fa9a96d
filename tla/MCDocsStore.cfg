SPECIFICATION Spec
CONSTANTS
  h1 = h1
  h2 = h2
  p1 = p1
  p2 = p2
  p3 = p3
  t1 = t1
  t2 = t2
  None = None
  Blank = Blank
  Garbled = Garbled
  MaxDocs = 1
  Handler <- Handlers
  Path <- Paths
  Text <- Texts
  Environments <- AllEnvironments
SYMMETRY Symmetry
INVARIANTS
  NoTornDocs
  LimitIsNearlyKept
PROPERTY ImplementsShelf
