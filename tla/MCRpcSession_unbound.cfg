CONSTANTS
  a = a b = b c = c v = v
  Call = {a, b, c, v}
  Void = {v}
  Bare = {b, v}
  OidCount = 2
  MaxWaiting = 2
  Stray <- MCStray
  MaxGarbage = 0
  None = None
  Unimplemented = {c}
SPECIFICATION Spec
INVARIANT LeftBytesDiscarded
CHECK_DEADLOCK FALSE
