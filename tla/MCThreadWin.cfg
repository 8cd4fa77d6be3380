SPECIFICATION Spec
CONSTANTS
  o1 = o1
  o2 = o2
  t1 = t1
  t2 = t2
  h1 = h1
  h2 = h2
  None = None
  Main = Main
  Obj = {o1, o2}
  Slot = {t1, t2}
  Handle = {h1, h2}
  Clients = {Main, t1, t2}
  EarlyUse = FALSE
  ClientCloses = FALSE
SYMMETRY SafetySymmetry
INVARIANTS
  TypeOK
  OwnershipExclusive
  HandleMatchesId
  NoHandleLeak
  NoSelfWait
  SelfJoinCrashIsReal
  CallableAliveWhileUsed
  CallableNotLeaked
  PromiseAliveWhileUsed
PROPERTIES
  JoinWaits
  ImplementsOwnership
CHECK_DEADLOCK FALSE
