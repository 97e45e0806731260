\* A documented claim the code does not meet: NoOutputLeft.
CONSTANTS
  Size = 4
  Clients = {c1, c2}
  Worker = worker
  Nobody = nobody
  Messages = {m1, m2}
  NULL = NULL
  InitOutcomes = {"handler", "nil", "error"}
  LuaSlots = 3
SPECIFICATION Spec
INVARIANT NoOutputLeft
