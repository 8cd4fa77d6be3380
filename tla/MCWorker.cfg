SPECIFICATION WorkerSpec
CONSTANTS
  o1 = o1
  t1 = t1
  t2 = t2
  h1 = h1
  v1 = v1
  None = None
  Main = Main
  Obj = {o1}
  Slot = {t1, t2}
  Handle = {h1}
  Clients = {Main}
  EarlyUse = FALSE
  ClientCloses = FALSE
  Value = {v1}
  Zero = Zero
CONSTRAINT OwnedArguments
PROPERTIES
  ConstructorReturns
  EndingReturns
  GetAnswers
  ImplementsPromiseEx
CHECK_DEADLOCK FALSE
