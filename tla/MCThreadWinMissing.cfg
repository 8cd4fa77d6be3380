SPECIFICATION Spec
CONSTANTS
  o1 = o1
  o2 = o2
  t1 = t1
  t2 = t2
  h1 = h1
  h2 = h2
  None = None
  Main = Main
  Obj = {o1}
  Slot = {t1}
  Handle = {h1}
  Clients = {Main}
  EarlyUse = FALSE
  ClientCloses = TRUE
PROPERTIES
  JoinToleratesMissingThread
CHECK_DEADLOCK FALSE
