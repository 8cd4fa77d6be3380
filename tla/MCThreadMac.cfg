SPECIFICATION FairSpec
CONSTANTS
  o1 = o1
  o2 = o2
  t1 = t1
  t2 = t2
  None = None
  Main = Main
  Obj = {o1, o2}
  Slot = {t1, t2}
  Handle = {t1, t2}
  Clients = {Main, t1, t2}
  EarlyUse = FALSE
  HangupFatal = TRUE
INVARIANTS
  TypeOK
  HeldIsJoinable
  NoPthreadLeak
PROPERTIES
  JoinWaits
  ImplementsOwnership
  JoinReturns
CHECK_DEADLOCK FALSE
