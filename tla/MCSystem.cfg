\* One main program and two services, two names, inboxes of two, three messages.
CONSTANTS
  Mains = {m1}
  MaxMade = 2
  Names = {n1, n2}
  NULL = NULL
  Room = 2
  MaxSent = 3
  LuaSlots = 3
SPECIFICATION FairSpec
INVARIANTS
  TypeOK
  OneAddress
  Accounted
  InOrder
PROPERTY AcceptedIsHandled
