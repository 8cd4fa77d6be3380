SPECIFICATION Spec
CONSTANTS
  Getter = {g1, g2, g3}
  Value = {v1, v2}
  Zero = Zero
  None = None
  Builds = {"win", "std"}
INVARIANTS
  TypeOK
  ValueWasSet
  ValueNotLost
PROPERTIES
  ImplementsOneShot
  GetReturns
CHECK_DEADLOCK FALSE
