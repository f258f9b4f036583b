CONSTANTS
  a = a b = b c = c v = v
  Call = {a, b, c, v}
  Void = {v}
  Bare = {b, v}
  OidCount = 2
  MaxWaiting = 2
  Stray <- MCStray
  MaxGarbage = 1
  None = None
  Unimplemented = {}
SPECIFICATION FairSpec
INVARIANTS TypeOK AnswersRight InvokedInOrder IdsApart
PROPERTY EveryCallAnswered
CHECK_DEADLOCK FALSE
