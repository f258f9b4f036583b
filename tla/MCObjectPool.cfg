CONSTANTS
  c1 = c1 c2 = c2 c3 = c3
  o1 = o1 o2 = o2 o3 = o3
  Object = {o1, o2, o3}
  Client = {c1, c2, c3}
  First = c1
  None = None
SPECIFICATION Spec
SYMMETRY Symmetry
INVARIANTS TypeOK OnePlace NoLeak InnerLifetime
PROPERTY AllocatorSpec
CHECK_DEADLOCK FALSE
