SPECIFICATION Spec
CONSTANTS
  Getter = {g1}
  Value = {v1}
  Zero = Zero
  None = None
  Builds = {"win"}
INVARIANTS
  ExceptionDelivered
CHECK_DEADLOCK FALSE
