SPECIFICATION Spec
CONSTANTS
  t1 = t1
  t2 = t2
  x1 = x1
  x2 = x2
  a = a
  NUL = NUL
  Thread = {t1, t2}
  Var = {x1, x2}
  Char = {a}
  Nul = NUL
  Absent = Absent
  Arg <- MCArg
  DefVal <- MCDefVal
  TooLong <- MCTooLong
  Owner <- MCOwner
  Builds = {"win", "mac"}
  MaxGuards = 2
  TornLength = 1
SYMMETRY MCSymmetry
INVARIANTS
  TypeOK
  GuardSavesCurrent
PROPERTIES
  GetIsExact
  ImplementsScopes
CHECK_DEADLOCK FALSE
