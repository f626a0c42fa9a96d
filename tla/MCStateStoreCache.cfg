SPECIFICATION Spec
CONSTANTS
  h1 = h1
  h2 = h2
  h3 = h3
  p1 = p1
  p2 = p2
  q1 = q1
  q2 = q2
  q3 = q3
  s1 = s1
  s2 = s2
  None = None
  Local = Local
  Handler <- Handlers
  Project <- Projects
  Pool <- Pools
  Store <- Stores
SYMMETRY Symmetry
INVARIANTS
  RolesShareThePool
  NoPoolLeak
PROPERTY
  ImplementsCell
