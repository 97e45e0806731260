\* Liveness of one service whose code loads.
CONSTANTS
  Size = 4
  Clients = {c1}
  Worker = worker
  Nobody = nobody
  Messages = {m1, m2}
  NULL = NULL
  InitOutcomes = {"handler"}
  LuaSlots = 3
SPECIFICATION FairSpec
PROPERTIES
  EveryMessageHandled
  SendReturns
