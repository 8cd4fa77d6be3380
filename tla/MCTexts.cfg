SPECIFICATION Spec
CONSTANTS
  a = a
  b = b
  c = c
  Nul = Nul
  Char = {a, b, c}
  Bytes <- MCBytes
  ACP = ACP
  OEMCP = OEMCP
  Lacks <- MCLacks
  Substitute = a
  Eq = a
  EnvChar = {a, b}
  MaxItems = 3
  MaxItemLength = 3
  LongBits = 3
  LongLongBits = 4
  IntBits = 3
  Throws = Throws
  Default = Default
  MaxLength = 4
INVARIANTS
  NarrowingExact
  ConversionsInverse
  NumberRoundTrip
  EveryVariableListed
  BlockFreed
CHECK_DEADLOCK FALSE
