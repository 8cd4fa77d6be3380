SPECIFICATION FairSpec
CONSTANTS
  None = None
  t1 = t1
  t2 = t2
  t3 = t3
  s1 = s1
  s2 = s2
  e1 = e1
  Thread = {t1, t2, t3}
  Section = {s1, s2}
  Event = {e1}
  Uses <- MCUses
  MaxScopes = 2
INVARIANTS
  TypeOK
  LocksMatchEntries
PROPERTIES
  LockReturns
CHECK_DEADLOCK FALSE
