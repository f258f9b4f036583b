CONSTANTS
  r0 = r0 l1 = l1 l2 = l2
  h1 = h1 h2 = h2 h3 = h3
  t1 = t1 t2 = t2
  Link = {r0, l1, l2}
  Root = r0
  Handler = {h1, h2}
  Thread = {t1, t2}
  Main = Main
  MaxRequired = 2
  None = None
SPECIFICATION FairSpec
PROPERTY EveryHandlerRuns
CHECK_DEADLOCK FALSE
