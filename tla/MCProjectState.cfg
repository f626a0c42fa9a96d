SPECIFICATION Spec
CONSTANTS
  h1 = h1
  h2 = h2
  p1 = p1
  p2 = p2
  None = None
  Unset = Unset
  MaxVersion = 2
  Handler <- Handlers
  Id <- Ids
  Environments <- AllEnvironments
SYMMETRY Symmetry
INVARIANTS
  SavedPrintHasProfile
  ReuseMatchesFingerprint
