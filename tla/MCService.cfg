\* Safety of one service: two clients and the handler itself send.
CONSTANTS
  Size = 4
  Clients = {c1, c2}
  Worker = worker
  Nobody = nobody
  Messages = {m1, m2}
  NULL = NULL
  InitOutcomes = {"handler", "nil", "error"}
  LuaSlots = 3
SYMMETRY Symmetric
SPECIFICATION Spec
INVARIANTS
  TypeOK
  QueueAssertsHold
  NeverStale
  NoLostWakeup
PROPERTY MailboxSpec
